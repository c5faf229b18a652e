----------------------------- MODULE AwsS3FsInv -----------------------------
(***************************************************************************)
(* The inductive invariants behind the properties of AwsS3FsProps.         *)
(*                                                                         *)
(* FsInv and FreshInv hold for any bucket and any number of tasks, and     *)
(* NestInv says how the calls of a task are nested.  OwnerInv is about an  *)
(* owner that is alone with a bucket used as a file system: it follows     *)
(* what remove_dir_all has found, from request to request.                 *)
(***************************************************************************)
EXTENDS AwsS3FsProps

-----------------------------------------------------------------------------
(* Calls and their requests.                                               *)

\* A call in progress.
Frame == [at : Labels, path : Key, entry : Key, rest : SUBSET Key]

\* The requests that an operation makes.
LabelOk(name, at) ==
    \/ name \in {"stat", "exists"} /\ at \in {"stat file", "stat directory"}
    \/ name = "list_dir" /\ at = "list"
    \/ name = "create_dir" /\ at \in {"stat new", "put marker"}
    \/ name = "write" /\ at = "put file"
    \/ name \in Removals /\ at \notin {"stat new", "put marker", "put file"}

\* A call of an operation makes a request of that operation and, if it is one
\* of a removal, works at or below the path of the operation.
CallOk(operation, call) ==
    /\ LabelOk(operation.name, call.at)
    /\ operation.name \in Removals =>
           /\ Covers(operation.path, Trim(call.path))
           /\ Covers(operation.path, Trim(call.entry))
           /\ \A k \in call.rest : Covers(operation.path, Trim(k))

\* The invariant: every call in progress is one its operation makes.
CallsInv == \A t \in Tasks : \A i \in 1 .. Len(stack[t]) : CallOk(op[t], stack[t][i])

\* A delete on its way is one of a removal that covers the key.
LateInv ==
    \A r \in late : ~ r.puts => r.by.name \in Removals /\ Covers(r.by.path, r.key)

FsInv == TypeOK /\ CallsInv /\ LateInv

-----------------------------------------------------------------------------
(* How the calls of a task are nested.                                     *)

\* The path and the kind of the entry lead back to the key.  They do for the
\* keys of paths, but not for "/a" or "a//".
LeadsBack(key) == key # EmptyKey /\ KeyAgain(key) = key

\* A bucket is finite, and at first it holds keys of paths.
MadeOfPaths == \A keys \in Buckets : IsFiniteSet(keys) /\ \A k \in keys : LeadsBack(k)

\* Then it always does.
KeysInv ==
    MadeOfPaths =>
        /\ IsFiniteSet(bucket) /\ \A k \in bucket : LeadsBack(k)
        /\ \A r \in late : r.puts => LeadsBack(r.key)

\* The entry that a removal has found is at the path of its call, the root is
\* found at once, and the children are deeper than the path.
EntryOk(operation, call) ==
    /\ operation.name \in Removals => Trim(call.entry) = Trim(call.path)
    /\ call.at \in {"stat directory", "look below", "delete below"} => Trim(call.path) # EmptyKey
    /\ MadeOfPaths /\ call.at = "children" => \A k \in call.rest : Depth(k) > Depth(call.path)

\* The first call has the path of the operation, and a call that has made
\* another one waits for it in the loop over its children.
NestOk(operation, calls) ==
    /\ calls # <<>> => calls[1].path = operation.path
    /\ \A i \in 1 .. Len(calls) : EntryOk(operation, calls[i])
    /\ \A i \in 2 .. Len(calls) :
           /\ calls[i - 1].at = "children"
           /\ MadeOfPaths => Depth(calls[i].path) > Depth(calls[i - 1].path)

NestInv == \A t \in Tasks : NestOk(op[t], stack[t])

-----------------------------------------------------------------------------
(* What a task sees of the others.                                         *)

\* What the operations put, and whether a listing always takes everything.
Puttable == {FileKey(p) : p \in Paths} \cup {DirKey(p) : p \in Paths}

OnePage ==
    \A keys \in Buckets :
        /\ IsFiniteSet(keys \cup Puttable)
        /\ Cardinality(keys \cup Puttable) <= PageSize

\* What puts that are on their way may still put.
LatePuts == {r.key : r \in {q \in late : q.puts}}

\* Everything in the bucket was there at first or is put by an operation.
PutsInv ==
    /\ \E keys \in Buckets : bucket \cup LatePuts \subseteq keys \cup Puttable
    /\ \A t \in Tasks : stack[t] # <<>> => op[t].path \in Paths

\* An object that a task has looked for in vain was put since; a task that
\* runs an operation has not answered.
FreshInv ==
    \A t \in Tasks : stack[t] # <<>> =>
        /\ answer[t] = "none"
        /\ IsStat(t) /\ Top(t).at = "stat directory"
               => {FileKey(Top(t).path)} \cap bucket \subseteq fresh[t]
        /\ ~ MayFail /\ Top(t).at = "put marker"
               => {DirKey(Top(t).path)} \cap bucket \subseteq fresh[t]

\* So was an entry of a directory that remove_dir has found to be empty.
ChildrenInv ==
    OnePage =>
        \A t \in Tasks :
            stack[t] # <<>> /\ Top(t).at \in {"stat marker", "delete marker"}
                => EntriesOf(Top(t).entry) \cap bucket \subseteq fresh[t]

-----------------------------------------------------------------------------
(* An owner that is alone with its bucket and is tidy.                     *)

\* There are no two slashes in a row between the first and the last name.
Plain(path) == Trim(path) = EmptyKey \/ \A i \in 1 .. Len(Trim(path)) : Trim(path)[i] # 0

\* The bucket is used as a file system.
IsTree(keys) ==
    /\ IsFiniteSet(keys) /\ \A k \in keys : LeadsBack(k) /\ Plain(k)
    /\ IsMarked(keys) /\ NoDoubles(keys)

TidyOwner ==
    /\ Tidy /\ \E t \in Tasks : Tasks = {t}
    /\ MaxLate = 0 /\ PageSize > 1
    /\ \A keys \in Buckets : IsTree(keys)
    /\ \A p \in Paths : Plain(p)

\* There is nothing below the path but the marker of the directory.
IsEmptyDir(keys, path) == \A k \in keys : HasPrefix(k, DirKey(path)) => k = DirKey(path)

\* What a removal knows of the bucket when it makes its next request.
WorkOk(keys, operation, call) ==
    /\ call.at \in {"stat marker", "delete marker"} => IsEmptyDir(keys, call.path)
    /\ call.at = "look below" => DirKey(call.path) \notin keys
    /\ call.at # "delete below"
    /\ operation.name = "remove_dir_all" =>
           \/ call.at = "stat file"
           \/ /\ call.at \in {"stat object", "delete object"}
              /\ Trim(call.path) # EmptyKey /\ DirKey(call.path) \notin keys
           \/ /\ call.at \notin {"stat file", "stat object", "delete object"}
              /\ FileKey(call.path) \notin keys

\* What remove_dir_all has found out stays true until it acts.
WorkInv == \A t \in Tasks : \A i \in 1 .. Len(stack[t]) : WorkOk(bucket, op[t], stack[t][i])

\* What is put next may be put.
NextPut(t) ==
    IF At(t, "stat new") \/ At(t, "put marker") THEN {DirKey(Top(t).path)}
    ELSE IF At(t, "put file") THEN {FileKey(Top(t).path)} ELSE {}
NextPutInv == \A t \in Tasks : \A k \in NextPut(t) : Plain(k) /\ MayPut(k)

\* For a tidy owner, the bucket stays a tree at every moment of every operation.
OwnerInv ==
    /\ late = {} /\ IsTree(bucket)
    /\ RemoveAllLeavesNothing
    /\ WorkInv /\ NextPutInv
=============================================================================
