---------------------------- MODULE AwsS3FsProps ----------------------------
(***************************************************************************)
(* What must hold of the operations of AwsS3Fs.                            *)
(***************************************************************************)
EXTENDS AwsS3Fs

\* The object is the file or the directory at the path, or below it.
Covers(path, key) == key = FileKey(path) \/ HasPrefix(key, DirKey(path))

Removals == {"remove_file", "remove_dir", "remove_dir_all"}

-----------------------------------------------------------------------------
(* What a removal may delete.                                              *)

\* What leaves the bucket in a step is covered by a removal that has made a
\* request in it, or whose late request has come.
TakesBelow ==
    \A k \in bucket \ bucket' :
        \E o \in {op[t] : t \in {u \in Tasks : stack'[u] # stack[u]}}
                    \cup {r.by : r \in {q \in late \ late' : q.key = k}} :
            o.name \in Removals /\ Covers(o.path, k)

\* An object disappears only by a request of a removal whose path covers it,
\* awaited or late, whatever keys the bucket holds and whatever other tasks do:
\* the entries that remove_dir_all calls itself with are named by keys it has
\* listed (client.rs 417-495).
OnlyBelow == [][TakesBelow]_vars

\* Every object is in directories that exist, at every moment of every
\* operation, so also if its future is dropped between two requests:
\* remove_dir_all deletes from the bottom up, and a page of a listing that
\* begins with the marker still shows a child (client.rs 432-468).
NoOrphans == IsMarked(bucket)

-----------------------------------------------------------------------------
(* What a removal achieves.                                                *)

\* remove_dir_all that has returned Ok has left nothing at or below its path
\* (the test should_remove_dir_all, client.rs 1165-1167), as long as nobody
\* else works on the bucket.
RemoveAllLeavesNothing ==
    \A t \in Tasks :
        op[t].name = "remove_dir_all" /\ answer[t] = "Ok"
            => \A k \in bucket : ~ Covers(op[t].path, k)

\* How many names a path or a key has.
Depth(path) == IF Trim(path) = EmptyKey THEN 0 ELSE Len(Trim(path))

\* remove_dir_all calls itself only for paths that are longer than its own.
Descends ==
    \A t \in Tasks : \A i \in 2 .. Len(stack[t]) :
        Depth(stack[t][i].path) > Depth(stack[t][i - 1].path)

\* So it ends (client.rs 451-495) ...
RemoveAllReturns ==
    \A t \in Tasks : op[t].name = "remove_dir_all" ~> stack[t] = <<>>

\* ... and an owner that tries again and again gets rid of a directory, even
\* if a listing shows only its first objects.
RetriesRemoveAll == \A p \in Paths : []<>(\A k \in bucket : ~ Covers(p, k))

-----------------------------------------------------------------------------
(* What the other operations claim.                                        *)

\* create_dir puts a marker only where there is none (the test
\* should_not_create_directory_cause_already_exists, client.rs 900-907).
CreatesOnlyMissing ==
    \A t \in Tasks : At(t, "put marker") => DirKey(Top(t).path) \notin bucket

\* Two tasks may create one directory, and both are told Ok; but as long as
\* stat does not fail, a marker that create_dir overwrites was put after it
\* had looked, by another task or by a late request (client.rs 398-415).
OverwritesOnlyFresh ==
    ~ MayFail =>
        \A t \in Tasks :
            At(t, "put marker") => {DirKey(Top(t).path)} \cap bucket \subseteq fresh[t]

\* The keys of the entries that a directory may have.
EntriesOf(dir) ==
    LET In(last) == (IF Trim(dir) = EmptyKey THEN <<>> ELSE Trim(dir)) \o last
    IN  UNION {{In(<<n>>), In(<<n, 0>>)} : n \in Name}

\* remove_dir deletes the marker of a directory that has entries only if
\* they were put since it looked for children, as long as one page
\* takes all keys below it (client.rs 432-450).
OrphansOnlyFresh ==
    \A t \in Tasks :
        At(t, "delete marker") => EntriesOf(Top(t).entry) \cap bucket \subseteq fresh[t]

\* stat and exists say that nothing is there though something is only if it
\* was put between their two requests (client.rs 368-393).
MissesOnlyFresh ==
    [][\A t \in Tasks :
           IsStat(t) /\ stack'[t] # stack[t] /\ answer'[t] \in {"No", "NoSuchFileOrDirectory"}
               => {FileKey(Top(t).path), DirKey(Top(t).path)} \cap bucket \subseteq fresh[t]]_vars

\* list_dir and the loop of remove_dir_all see the direct children of the
\* directory, if one page takes all keys below it: "Query objects under `key`,
\* optionally keeping only its direct children." (client.rs 155).
ListsChildren ==
    \A t \in Tasks : At(t, "list") =>
        LET dir == Top(t).entry
            below == {k \in bucket : HasPrefix(k, DirKey(dir))}
            In(k) == /\ Depth(k) = Depth(dir) + 1
                     /\ Depth(dir) > 0 => IsPrefix(Trim(dir), Trim(k))
        IN  Cardinality(below) <= PageSize
                => Children(DirKey(dir)) = {k \in bucket : In(k)}
=============================================================================
