-------------------------- MODULE AwsS3FsTreeProof --------------------------
(***************************************************************************)
(* The namespace operations on a bucket that is used as a file system:     *)
(* how remove_dir_all descends, what a listing shows, which directories    *)
(* lose their marker, and what a tidy owner has after each request.        *)
(***************************************************************************)
EXTENDS AwsS3FsProof

-----------------------------------------------------------------------------
(* What the operations put.                                                *)

\* The keys that the next request of a task may put.
PutBy(t) ==
    IF At(t, "put marker") \/ At(t, "put file")
    THEN {DirKey(Top(t).path), FileKey(Top(t).path)} \ {EmptyKey}
    ELSE {}

\* The keys that a step may put.
PutNext == LatePuts \cup UNION {PutBy(t) : t \in Tasks}

LEMMA RequestPuts ==
    ASSUME NEW t \in Tasks, NEW r \in Requests(t), r.puts
    PROVE  r.key \in PutBy(t)
<1>1. CASE At(t, "put marker") \/ At(t, "put file")
  <2>1. PICK key \in PutBy(t) : r = [puts |-> TRUE, key |-> key, by |-> op[t]]
    BY <1>1 DEF Requests, At, PutBy
  <2> QED
    BY <2>1
<1>2. CASE ~ (At(t, "put marker") \/ At(t, "put file"))
  <2>1. PICK key : r = [puts |-> FALSE, key |-> key, by |-> op[t]]
    BY <1>2 DEF Requests, At
  <2> QED
    BY <2>1
<1> QED
  BY <1>1, <1>2

\* A step puts one object at most.
LEMMA StepPuts ==
    ASSUME Next
    PROVE  /\ bucket' \subseteq bucket \/ \E x \in PutNext : bucket' \subseteq bucket \cup {x}
           /\ \A r \in late' : r.puts => r \in late \/ r.key \in PutNext
<1>1. CASE Arrive
  <2>1. PICK r \in late : Execute(r) /\ late' = late \ {r}
    BY <1>1 DEF Arrive
  <2>2. r.puts => r.key \in PutNext
    <3>1. r.puts => r.key \in LatePuts
      BY <2>1 DEF LatePuts
    <3> QED
      BY <3>1 DEF PutNext
  <2>3. bucket' \subseteq bucket \/ (r.puts /\ bucket' \subseteq bucket \cup {r.key})
    BY <2>1 DEF Execute
  <2> QED
    BY <2>1, <2>2, <2>3
<1>2. ASSUME NEW t \in Tasks, BeginAny(t) \/ Work(t)
      PROVE  late' = late /\ (bucket' \subseteq bucket
                                  \/ \E x \in PutNext : bucket' \subseteq bucket \cup {x})
  <2>1. CASE PutMarker(t) \/ PutFile(t)
    <3>1. bucket' \subseteq bucket \/ \E x \in PutBy(t) : bucket' \subseteq bucket \cup {x}
      BY <2>1 DEF PutMarker, PutFile, Put, PutBy
    <3> QED
      BY <1>2, <3>1 DEF PutNext, BeginAny, Begin, Work
  <2>2. CASE ~ (PutMarker(t) \/ PutFile(t))
    BY <1>2, <2>2 DEF BeginAny, Begin, Work, StatFile, StatDirectory, List, StatNew, StatObject,
       DeleteObject, DeleteMarker, Delete, LookForChildren, StatMarker, NextChild, LookAgain, LookBelow,
       DeleteBelow
  <2> QED
    BY <2>1, <2>2
<1>3. ASSUME NEW t \in Tasks, Fails(t) \/ Cancel(t) \/ Resend(t)
      PROVE  /\ bucket' \subseteq bucket \/ \E x \in PutNext : bucket' \subseteq bucket \cup {x}
             /\ \A r \in late' : r.puts => r \in late \/ r.key \in PutNext
  <2>1. CASE \E r \in Requests(t) : Execute(r) /\ late' = late
    <3>1. PICK r \in Requests(t) : Execute(r) /\ late' = late
      BY <2>1
    <3>2. r.puts => r.key \in PutNext
      BY RequestPuts DEF PutNext
    <3>3. bucket' \subseteq bucket \/ (r.puts /\ bucket' \subseteq bucket \cup {r.key})
      BY <3>1 DEF Execute
    <3> QED
      BY <3>1, <3>2, <3>3
  <2>2. CASE \E r \in Requests(t) : MayCome(r) /\ bucket' = bucket
    <3>1. PICK r \in Requests(t) : late' = late \cup {r} /\ bucket' = bucket
      BY <2>2 DEF MayCome
    <3>2. r.puts => r.key \in PutNext
      BY RequestPuts DEF PutNext
    <3> QED
      BY <3>1, <3>2
  <2>3. CASE UNCHANGED <<bucket, late>>
    BY <2>3
  <2> QED
    BY <1>3, <2>1, <2>2, <2>3 DEF Fails, Cancel, Lost, Resend
<1> QED
  BY <1>1, <1>2, <1>3 DEF Next

-----------------------------------------------------------------------------
(* A bucket that holds keys of paths.                                      *)

\* What a step puts leads back.
LEMMA PutsLeadBack ==
    ASSUME FsInv, MadeOfPaths, KeysInv, NEW x \in PutNext
    PROVE  LeadsBack(x)
<1>1. ASSUME NEW t \in Tasks, x \in PutBy(t) PROVE LeadsBack(x)
  <2>1. stack[t] # <<>> /\ x \in {DirKey(Top(t).path), FileKey(Top(t).path)} /\ x # EmptyKey
    BY <1>1 DEF PutBy, At
  <2>2. Top(t).path \in Key
    BY <2>1, TopFacts DEF Frame
  <2> QED
    BY <2>1, <2>2, PathsLeadBack, FileAndDirectory
<1>2. ASSUME x \in LatePuts PROVE LeadsBack(x)
  BY <1>2 DEF KeysInv, LatePuts
<1>3. x \in UNION {PutBy(t) : t \in Tasks} => \E t \in Tasks : x \in PutBy(t)
  OBVIOUS
<1> QED
  BY <1>1, <1>2, <1>3 DEF PutNext

\* The invariant holds at first, and every step keeps it.
LEMMA KeysInvInitially == Init => KeysInv
BY DEF Init, KeysInv, MadeOfPaths

LEMMA KeysInvStays == FsInv /\ KeysInv /\ [Next]_vars => KeysInv'
<1> SUFFICES ASSUME FsInv, KeysInv, [Next]_vars, MadeOfPaths
             PROVE  /\ IsFiniteSet(bucket') /\ \A k \in bucket' : LeadsBack(k)
                    /\ \A r \in late' : r.puts => LeadsBack(r.key)
  BY DEF KeysInv
<1>0. /\ IsFiniteSet(bucket) /\ \A k \in bucket : LeadsBack(k)
      /\ \A r \in late : r.puts => LeadsBack(r.key)
  BY DEF KeysInv
<1>1. CASE Next
  <2>1. CASE bucket' \subseteq bucket
    <3>1. IsFiniteSet(bucket')
      BY <1>0, <2>1, FS_Subset
    <3> QED
      BY <1>0, <1>1, <2>1, <3>1, StepPuts, PutsLeadBack
  <2>2. CASE \E x \in PutNext : bucket' \subseteq bucket \cup {x}
    <3>1. PICK x \in PutNext : bucket' \subseteq bucket \cup {x}
      BY <2>2
    <3>2. IsFiniteSet(bucket \cup {x})
      BY <1>0, FS_AddElement
    <3>3. IsFiniteSet(bucket')
      BY <3>1, <3>2, FS_Subset
    <3> QED
      BY <1>0, <1>1, <3>1, <3>3, StepPuts, PutsLeadBack
  <2> QED
    BY <1>1, <2>1, <2>2, StepPuts
<1>2. CASE UNCHANGED vars
  BY <1>0, <1>2 DEF vars, fs
<1> QED
  BY <1>1, <1>2

\* On a bucket that holds keys of paths, list_dir and the loop of
\* remove_dir_all see exactly the direct children of the directory, as long as
\* one page takes all keys below it (client.rs 155-180).
THEOREM ListingsAreChildren == MadeOfPaths => (Spec => []ListsChildren)
<1> SUFFICES ASSUME MadeOfPaths PROVE Spec => []ListsChildren
  OBVIOUS
<1>1. FsInv /\ KeysInv => ListsChildren
  <2> SUFFICES ASSUME FsInv, KeysInv, NEW t \in Tasks, At(t, "list"),
                      Cardinality({k \in bucket : HasPrefix(k, DirKey(Top(t).entry))}) <= PageSize
               PROVE  Children(DirKey(Top(t).entry)) =
                          {k \in bucket : /\ Depth(k) = Depth(Top(t).entry) + 1
                                          /\ Depth(Top(t).entry) > 0
                                                 => IsPrefix(Trim(Top(t).entry), Trim(k))}
    BY DEF ListsChildren
  <2>1. Top(t).entry \in Key
    BY TopFacts DEF At, Frame
  <2>2. bucket \in SUBSET Key /\ IsFiniteSet(bucket) /\ \A k \in bucket : LeadsBack(k)
    BY DEF FsInv, TypeOK, KeysInv
  <2>3. PageSize \in Nat
    BY FsAssumption
  <2> QED
    BY <2>1, <2>2, <2>3, ListedAreChildren DEF Children
<1> QED
  BY FsInvInitially, FsInvStays, KeysInvInitially, KeysInvStays, <1>1, PTL DEF Spec

-----------------------------------------------------------------------------
(* How remove_dir_all descends.                                            *)

\* One stack changes, and it is nested as it should be.
LEMMA StackNests ==
    ASSUME FsInv, NestInv, NEW t \in Tasks, NEW s, NEW o,
           stack' = [stack EXCEPT ![t] = s], op' = [op EXCEPT ![t] = o], NestOk(o, s)
    PROVE  NestInv'
<1>1. ASSUME NEW u \in Tasks PROVE NestOk(op'[u], stack'[u])
  <2>1. CASE u = t
    BY <2>1 DEF FsInv, TypeOK
  <2>2. CASE u # t
    BY <2>2 DEF FsInv, TypeOK, NestInv
  <2> QED
    BY <2>1, <2>2
<1> QED
  BY <1>1 DEF NestInv

\* The operation stays the same.
LEMMA SameOperation ==
    ASSUME FsInv, NEW t \in Tasks, op' = op
    PROVE  op' = [op EXCEPT ![t] = op[t]]
BY DEF FsInv, TypeOK

\* The facts of the innermost call.
LEMMA TopNests ==
    ASSUME FsInv, NestInv, NEW t \in Tasks, stack[t] # <<>>
    PROVE  /\ NestOk(op[t], stack[t]) /\ EntryOk(op[t], Top(t))
           /\ Len(stack[t]) = 1 => Top(t).path = op[t].path
           /\ Len(stack[t]) # 1 => op[t].name \in Removals
<1>1. Len(stack[t]) \in 1 .. Len(stack[t]) /\ NestOk(op[t], stack[t])
  BY TopFacts DEF NestInv
<1>2. ASSUME Len(stack[t]) # 1 PROVE op[t].name \in Removals
  <2> DEFINE n == Len(stack[t])
  <2>1. n \in Nat /\ n # 0 /\ n # 1
    BY <1>2, TopFacts, EmptySeq
  <2> HIDE DEF n
  <2>2. n \in 2 .. n /\ n - 1 \in 1 .. n
    BY <2>1
  <2>3. stack[t][n - 1].at = "children"
    BY <1>1, <2>2 DEF NestOk, n
  <2>4. CallOk(op[t], stack[t][n - 1])
    BY <2>2 DEF FsInv, CallsInv, n
  <2> QED
    BY <2>3, <2>4 DEF CallOk, LabelOk
<1> QED
  BY <1>1, <1>2 DEF NestOk, Top, Last

\* The innermost call goes on: its path stays, so only its entry, its request
\* and its children matter.
LEMMA GotoNests ==
    ASSUME FsInv, NestInv, NEW t \in Tasks, stack[t] # <<>>,
           NEW label \in Labels, NEW entry \in Key, NEW rest \in SUBSET Key,
           Goto(t, label, entry, rest),
           EntryOk(op[t], [at |-> label, path |-> Top(t).path, entry |-> entry, rest |-> rest])
    PROVE  NestInv'
<1> DEFINE f == [Top(t) EXCEPT !.at = label, !.entry = entry, !.rest = rest]
           s == Append(Front(stack[t]), f)
           n == Len(stack[t])
<1>1. stack[t] \in Seq(Frame) /\ Top(t) \in Frame /\ n \in Nat /\ n > 0
  BY TopFacts, EmptySeq
<1>2. f \in Frame /\ f.at = label /\ f.path = Top(t).path /\ f.entry = entry /\ f.rest = rest
  BY <1>1 DEF Frame
<1>3. EntryOk(op[t], f)
  <2> HIDE DEF f
  <2>1. f = [at |-> label, path |-> Top(t).path, entry |-> entry, rest |-> rest]
    BY <1>2 DEF Frame
  <2> QED
    BY <2>1
<1>4. stack' = [stack EXCEPT ![t] = s] /\ op' = op
  BY DEF Goto
<1> HIDE DEF f
<1>5. s \in Seq(Frame) /\ Len(s) = Len(stack[t])
      /\ \A i \in 1 .. Len(s) : s[i] = (IF i = Len(stack[t]) THEN f ELSE stack[t][i])
  BY <1>1, <1>2, ReplaceLast
<1>6. Top(t) = stack[t][n] /\ NestOk(op[t], stack[t])
  BY DEF Top, Last, NestInv
<1> HIDE DEF s, n
<1>7. Len(s) = n /\ \A i \in 1 .. n : s[i] = (IF i = n THEN f ELSE stack[t][i])
  BY <1>5 DEF n
<1>8. \A i \in 1 .. n : s[i].path = stack[t][i].path /\ EntryOk(op[t], s[i])
  BY <1>2, <1>3, <1>6, <1>7 DEF NestOk, n
<1>9. \A i \in 2 .. n : i \in 1 .. n /\ i - 1 \in 1 .. n /\ i - 1 # n
  BY <1>1
<1>10. \A i \in 2 .. n :
          /\ s[i - 1].at = "children"
          /\ MadeOfPaths => Depth(s[i].path) > Depth(s[i - 1].path)
  BY <1>6, <1>7, <1>8, <1>9 DEF NestOk, n
<1>11. stack[t][1].path = op[t].path /\ 1 \in 1 .. n
  BY <1>1, <1>6 DEF NestOk
<1>12. NestOk(op[t], s)
  BY <1>7, <1>8, <1>10, <1>11 DEF NestOk
<1> QED
  BY <1>4, <1>12, StackNests, SameOperation

\* It goes on with the entry it has.
LEMMA StepNests ==
    ASSUME FsInv, NestInv, NEW t \in Tasks, stack[t] # <<>>, NEW label \in Labels, Step(t, label),
           label \in {"stat directory", "look below", "delete below"} => Trim(Top(t).path) # EmptyKey
    PROVE  NestInv'
<1>1. Top(t).entry \in Key /\ EntryOk(op[t], Top(t))
  BY TopFacts, TopNests DEF Frame
<1>2. EntryOk(op[t], [at |-> label, path |-> Top(t).path, entry |-> Top(t).entry, rest |-> {}])
  BY <1>1 DEF EntryOk
<1>3. Goto(t, label, Top(t).entry, {}) /\ {} \in SUBSET Key
  BY DEF Step
<1> QED
  BY <1>1, <1>2, <1>3, GotoNests

\* The operation ends.
LEMMA DoneNests ==
    ASSUME FsInv, NestInv, NEW t \in Tasks, NEW result, Done(t, result)
    PROVE  NestInv'
<1>1. Len(<<>>) = 0 /\ 1 .. 0 = {} /\ 2 .. 0 = {}
  BY SMT
<1>2. NestOk(op[t], <<>>)
  BY <1>1 DEF NestOk
<1> QED
  BY <1>2, StackNests, SameOperation DEF Done

\* The innermost call returns.
LEMMA ReturnNests ==
    ASSUME FsInv, NestInv, NEW t \in Tasks, stack[t] # <<>>, Return(t)
    PROVE  NestInv'
<1>1. CASE Done(t, "Ok")
  BY <1>1, DoneNests
<1>2. CASE stack' = [stack EXCEPT ![t] = Front(@)] /\ UNCHANGED <<op, answer>>
  <2> DEFINE s == Front(stack[t])
  <2>1. stack[t] \in Seq(Frame) /\ Len(stack[t]) \in Nat /\ NestOk(op[t], stack[t])
    BY TopFacts, LenProperties DEF NestInv
  <2>2. s \in Seq(Frame) /\ Len(s) = Len(stack[t]) - 1
        /\ \A i \in 1 .. Len(stack[t]) - 1 : s[i] = stack[t][i]
    BY <2>1, DropLast
  <2>3. stack' = [stack EXCEPT ![t] = s]
    BY <1>2
  <2> HIDE DEF s
  <2>4. s # <<>> => 1 \in 1 .. Len(s)
    BY <2>2, EmptySeq
  <2>5. \A i \in 1 .. Len(s) : i \in 1 .. Len(stack[t]) /\ s[i] = stack[t][i]
    BY <2>1, <2>2
  <2>6. \A i \in 2 .. Len(s) : i \in 2 .. Len(stack[t]) /\ i \in 1 .. Len(s) /\ i - 1 \in 1 .. Len(s)
    BY <2>1, <2>2
  <2>7. NestOk(op[t], s)
    BY <2>1, <2>4, <2>5, <2>6 DEF NestOk
  <2> QED
    BY <1>2, <2>3, <2>7, StackNests, SameOperation
<1> QED
  BY <1>1, <1>2 DEF Return

\* stat has found the entry at the path of the call.
LEMMA FoundNests ==
    ASSUME FsInv, NestInv, NEW t \in Tasks, stack[t] # <<>>,
           NEW entry, entry.path \in Key, Trim(entry.path) = Trim(Top(t).path), Found(t, entry)
    PROVE  NestInv'
<1>1. CASE IsStat(t)
  BY <1>1, DoneNests DEF Found, Answered
<1>2. CASE ~ IsStat(t)
  <2>1. PICK label \in {"list", "stat object"} : Goto(t, label, entry.path, {})
    BY <1>2 DEF Found
  <2>2. PICK path \in Key : path = entry.path
    OBVIOUS
  <2>3. label \in Labels /\ {} \in SUBSET Key /\ Goto(t, label, path, {})
    BY <2>1, <2>2 DEF Labels
  <2>4. EntryOk(op[t], [at |-> label, path |-> Top(t).path, entry |-> path, rest |-> {}])
    BY <2>1, <2>2 DEF EntryOk
  <2> QED
    BY <2>3, <2>4, GotoNests
<1> QED
  BY <1>1, <1>2

\* The entry that stat makes of a key.
LEMMA EntryOfKey ==
    ASSUME NEW k \in Key
    PROVE  /\ S3Object(k).path \in Key /\ Trim(S3Object(k).path) = Trim(k)
           /\ S3Object(k).is_dir = EndsWithSlash(k)
BY TrimEndIsKey, TrimOfTrimEnd DEF S3Object, ToPath

LEMMA StatsNest ==
    ASSUME FsInv, NestInv, NEW t \in Tasks, StatFile(t) \/ StatDirectory(t)
    PROVE  NestInv'
<1> DEFINE p == Top(t).path
<1>1. stack[t] # <<>> /\ Top(t).at \in {"stat file", "stat directory"}
  BY DEF StatFile, StatDirectory, At
<1>2. p \in Key /\ bucket \in SUBSET Key /\ EntryOk(op[t], Top(t))
  BY <1>1, TopFacts, TopNests DEF Frame, FsInv, TypeOK
<1>3. CASE FileKey(p) = EmptyKey /\ Found(t, Root)
  <2>1. Root.path \in Key /\ Trim(Root.path) = Trim(p)
    BY <1>2, <1>3, FileAndDirectory, EmptyIsKey, BareIsTrimmed DEF Root, Bare
  <2> QED
    BY <1>1, <1>3, <2>1, FoundNests
<1>4. CASE Trim(p) # EmptyKey /\ \E key \in {FileKey(p), DirKey(p)} : \E k \in Stat(key) : Found(t, S3Object(k))
  <2>1. PICK key \in {FileKey(p), DirKey(p)} : \E k \in Stat(key) : Found(t, S3Object(k))
    BY <1>4
  <2>2. PICK k \in Stat(key) : Found(t, S3Object(k))
    BY <2>1
  <2>3. k \in Key /\ Trim(k) = Trim(p)
    BY <1>2, <1>4, <2>1, <2>2, FoundIsThere DEF Stat
  <2>4. S3Object(k).path \in Key /\ Trim(S3Object(k).path) = Trim(p)
    BY <2>3, EntryOfKey
  <2> QED
    BY <1>1, <2>2, <2>4, FoundNests
<1>5. CASE Trim(p) # EmptyKey /\ \E label \in {"stat directory", "look below"} : Step(t, label)
  BY <1>1, <1>5, StepNests DEF Labels
<1>6. CASE \E result : Done(t, result)
  BY <1>6, DoneNests
<1>7. CASE StatFile(t)
  <2>1. FileKey(p) = Trim(p)
    BY <1>2, FileAndDirectory
  <2> QED
    BY <1>3, <1>4, <1>5, <1>7, <2>1 DEF StatFile
<1>8. CASE StatDirectory(t)
  <2>1. Trim(p) # EmptyKey
    BY <1>2, <1>8 DEF StatDirectory, At, EntryOk
  <2> QED
    BY <1>4, <1>5, <1>6, <1>8, <2>1 DEF StatDirectory, Answered
<1> QED
  BY <1>7, <1>8

LEMMA ListNests ==
    ASSUME FsInv, KeysInv, NestInv, NEW t \in Tasks, List(t)
    PROVE  NestInv'
<1> DEFINE p == Top(t).path  e == Top(t).entry  children == Children(DirKey(e))
<1>1. stack[t] # <<>> /\ Top(t).at = "list"
  BY DEF List, At
<1>2. /\ p \in Key /\ e \in Key /\ bucket \in SUBSET Key /\ EntryOk(op[t], Top(t))
      /\ LabelOk(op[t].name, "list")
  BY <1>1, TopFacts, TopNests DEF Frame, FsInv, TypeOK, CallOk
<1>3. CASE Done(t, "Ok")
  BY <1>3, DoneNests
<1>4. CASE op[t].name # "list_dir" /\ Goto(t, "children", e, children)
  <2>1. Trim(e) = Trim(p)
    BY <1>2, <1>4 DEF LabelOk, EntryOk
  <2>2. \A k \in children : k \in bucket /\ IsDirectChild(k, DirKey(e))
    BY <1>2, FileAndDirectory, QueriedHasPrefix DEF Children, QueryObjects
  <2>3. ASSUME MadeOfPaths, NEW k \in children PROVE Depth(k) > Depth(p)
    <3>1. LeadsBack(k) /\ k \in Key
      BY <1>2, <2>2, <2>3 DEF KeysInv
    <3>2. Depth(k) = Depth(e) + 1
      BY <1>2, <2>2, <3>1, ChildIsBelow
    <3>3. Depth(e) = Depth(p) /\ Depth(p) \in Nat
      BY <1>2, <2>1, DepthIs DEF Depth
    <3> QED
      BY <3>2, <3>3
  <2> HIDE DEF children, e, p
  <2>4. children \in SUBSET Key /\ "children" \in Labels
    BY <1>2, <2>2 DEF Labels
  <2>5. EntryOk(op[t], [at |-> "children", path |-> p, entry |-> e, rest |-> children])
    BY <2>1, <2>3 DEF EntryOk
  <2> QED
    BY <1>1, <1>2, <1>4, <2>4, <2>5, GotoNests DEF e, p
<1> QED
  BY <1>3, <1>4 DEF List

LEMMA LoopNests ==
    ASSUME FsInv, NestInv, NEW t \in Tasks, NextChild(t)
    PROVE  NestInv'
<1> DEFINE rest == Top(t).rest  n == Len(stack[t])
<1>1. stack[t] # <<>> /\ Top(t).at = "children"
  BY DEF NextChild, At
<1>2. /\ stack[t] \in Seq(Frame) /\ n \in Nat /\ n > 0 /\ rest \subseteq Key
      /\ Top(t) \in Frame /\ EntryOk(op[t], Top(t)) /\ NestOk(op[t], stack[t])
      /\ Top(t) = stack[t][n]
  <2>1. stack[t] \in Seq(Frame) /\ n \in Nat /\ n > 0 /\ Top(t) = stack[t][n]
    BY <1>1, TopFacts, EmptySeq DEF Top, Last
  <2>2. Top(t) \in Frame /\ EntryOk(op[t], Top(t)) /\ NestOk(op[t], stack[t])
    BY <1>1, TopFacts, TopNests
  <2> QED
    BY <2>1, <2>2 DEF Frame
<1>3. CASE Step(t, "look for children")
  BY <1>1, <1>3, StepNests DEF Labels
<1>4. ASSUME NEW k \in rest,
             stack' = [stack EXCEPT ![t] =
                 Append(Append(Front(@), [Top(t) EXCEPT !.rest = rest \ {k}]),
                        Call("stat file", S3Object(k).path))],
             UNCHANGED <<op, answer>>
      PROVE  NestInv'
  <2> DEFINE f == [Top(t) EXCEPT !.rest = rest \ {k}]
             g == Call("stat file", S3Object(k).path)
             r == Append(Front(stack[t]), f)
             s == Append(r, g)
  <2>1. f \in Frame /\ f.at = "children" /\ f.path = Top(t).path /\ f.entry = Top(t).entry
        /\ f.rest = rest \ {k}
    BY <1>1, <1>2 DEF Frame
  <2>2. PICK e \in Key : e = TrimEnd(k) /\ Trim(e) = Trim(k)
    BY <1>2, TrimEndIsKey, TrimOfTrimEnd
  <2>3. g = [at |-> "stat file", path |-> e, entry |-> e, rest |-> {}]
    BY <2>2 DEF Call, S3Object, ToPath
  <2>4. stack' = [stack EXCEPT ![t] = s] /\ op' = op
    BY <1>4
  <2> HIDE DEF f, g
  <2>5. g \in Frame /\ EntryOk(op[t], g) /\ g.path = e
    BY <2>2, <2>3 DEF Frame, Labels, EntryOk
  <2>6. MadeOfPaths => \A j \in rest : Depth(j) > Depth(Top(t).path)
    BY <1>1, <1>2 DEF EntryOk
  <2>7. EntryOk(op[t], f)
    BY <1>1, <1>2, <2>1, <2>6 DEF EntryOk
  <2>8. MadeOfPaths => Depth(g.path) > Depth(f.path)
    BY <2>1, <2>2, <2>5, <2>6 DEF Depth
  <2>9. r \in Seq(Frame) /\ Len(r) = Len(stack[t])
        /\ \A i \in 1 .. Len(r) : r[i] = (IF i = Len(stack[t]) THEN f ELSE stack[t][i])
    BY <1>1, <1>2, <2>1, ReplaceLast
  <2> HIDE DEF r
  <2>10. s \in Seq(Frame) /\ Len(s) = Len(r) + 1
         /\ (\A i \in 1 .. Len(r) : s[i] = r[i]) /\ s[Len(r) + 1] = g
    BY <2>5, <2>9, AppendProperties
  <2>11. Len(s) = n + 1 /\ s[n + 1] = g
         /\ \A i \in 1 .. n : s[i] = (IF i = n THEN f ELSE stack[t][i])
    BY <1>2, <2>9, <2>10
  <2>12. \A i \in 1 .. n : EntryOk(op[t], stack[t][i])
    BY <1>2 DEF NestOk
  <2>13. \A i \in 2 .. n : stack[t][i - 1].at = "children"
                           /\ (MadeOfPaths => Depth(stack[t][i].path) > Depth(stack[t][i - 1].path))
    BY <1>2 DEF NestOk
  <2>14. stack[t][1].path = op[t].path
    BY <1>1, <1>2 DEF NestOk
  <2> HIDE DEF s, n
  <2>15. s[1].path = op[t].path
    BY <1>2, <2>1, <2>11, <2>14
  <2>16. ASSUME NEW i \in 1 .. Len(s) PROVE EntryOk(op[t], s[i])
    <3>1. CASE i = n + 1
      BY <2>5, <2>11, <3>1
    <3>2. CASE i \in 1 .. n
      BY <2>7, <2>11, <2>12, <3>2
    <3> QED
      BY <1>2, <2>11, <3>1, <3>2
  <2>17. ASSUME NEW i \in 2 .. Len(s)
         PROVE  s[i - 1].at = "children" /\ (MadeOfPaths => Depth(s[i].path) > Depth(s[i - 1].path))
    <3>1. CASE i = n + 1
      <4>1. i - 1 = n /\ n \in 1 .. n
        BY <1>2, <3>1
      <4>2. s[i] = g /\ s[i - 1] = f
        BY <2>11, <3>1, <4>1
      <4> QED
        BY <2>1, <2>8, <4>2
    <3>2. CASE i \in 2 .. n
      <4>1. i - 1 \in 1 .. n /\ i \in 1 .. n /\ i - 1 # n
        BY <1>2, <3>2
      <4>2. s[i - 1] = stack[t][i - 1] /\ s[i].path = stack[t][i].path
        BY <1>2, <2>1, <2>11, <4>1
      <4> QED
        BY <2>13, <3>2, <4>2
    <3> QED
      BY <1>2, <2>11, <3>1, <3>2
  <2>18. NestOk(op[t], s)
    BY <2>15, <2>16, <2>17 DEF NestOk
  <2> QED
    BY <2>4, <2>18, StackNests, SameOperation
<1> QED
  BY <1>3, <1>4 DEF NextChild

LEMMA BelowNests ==
    ASSUME FsInv, NestInv, NEW t \in Tasks, LookBelow(t) \/ DeleteBelow(t)
    PROVE  NestInv'
<1>1. stack[t] # <<>> /\ Top(t).at \in {"look below", "delete below"}
  BY DEF LookBelow, DeleteBelow, At
<1>2. /\ Top(t).path \in Key /\ Top(t).entry \in Key /\ Top(t).rest \in SUBSET Key
      /\ bucket \in SUBSET Key /\ EntryOk(op[t], Top(t))
  BY <1>1, TopFacts, TopNests DEF Frame, FsInv, TypeOK
<1>3. CASE Return(t)
  BY <1>1, <1>3, ReturnNests
<1>4. CASE \E result : Done(t, result)
  BY <1>4, DoneNests
<1>5. CASE \E rest \in SUBSET Key : Goto(t, "delete below", Top(t).entry, rest)
  <2>1. PICK rest \in SUBSET Key : Goto(t, "delete below", Top(t).entry, rest)
    BY <1>5
  <2>2. EntryOk(op[t], [at |-> "delete below", path |-> Top(t).path, entry |-> Top(t).entry, rest |-> rest])
    BY <1>1, <1>2 DEF EntryOk
  <2> QED
    BY <1>1, <1>2, <2>1, <2>2, GotoNests DEF Labels
<1>6. Below(Top(t).path) \in SUBSET Key /\ \A k : Top(t).rest \ {k} \in SUBSET Key
  BY <1>2, FileAndDirectory, QueriedHasPrefix DEF Below, Query
<1> QED
  BY <1>3, <1>4, <1>5, <1>6 DEF LookBelow, DeleteBelow

LEMMA OneCall ==
    /\ \A i \in 2 .. 1 : FALSE
    /\ \A i \in 1 .. 1 : i = 1
OBVIOUS

LEMMA BeginNests ==
    ASSUME FsInv, NestInv, NEW t \in Tasks, NEW name \in Ops, NEW path \in Paths, Begin(t, name, path)
    PROVE  NestInv'
<1> DEFINE o == [name |-> name, path |-> path]
<1>1. name \in {"stat", "exists", "list_dir", "create_dir", "remove_file", "remove_dir",
                "remove_dir_all", "write"}
  BY JobFacts
<1>2. PICK first \in Labels \ {"stat directory", "look below", "delete below", "children"} :
          stack' = [stack EXCEPT ![t] = <<Call(first, path)>>]
  BY <1>1 DEF Begin, Labels
<1>3. op' = [op EXCEPT ![t] = o]
  BY DEF Begin
<1> DEFINE c == Call(first, path)
<1>4. c = [at |-> first, path |-> path, entry |-> path, rest |-> {}]
  BY DEF Call
<1> HIDE DEF c
<1>5. c.path = path /\ EntryOk(o, c)
  BY <1>2, <1>4 DEF EntryOk
<1>6. Len(<<c>>) = 1 /\ <<c>>[1] = c
  OBVIOUS
<1>7. NestOk(o, <<c>>)
  BY <1>5, <1>6, OneCall DEF NestOk
<1> QED
  BY <1>2, <1>3, <1>7, StackNests DEF c

LEMMA TaskNests ==
    ASSUME FsInv, KeysInv, NestInv, NEW t \in Tasks, BeginAny(t) \/ Work(t) \/ Fails(t) \/ Cancel(t)
    PROVE  NestInv'
<1>1. CASE BeginAny(t)
  BY <1>1, BeginNests, BeginsAJob
<1>2. CASE Fails(t) \/ Cancel(t)
  <2>1. stack[t] # <<>> /\ (Step(t, "put marker") \/ \E result : Done(t, result))
    BY <1>2 DEF Fails, Cancel
  <2> QED
    BY <2>1, StepNests, DoneNests DEF Labels
<1>3. CASE StatNew(t) \/ StatObject(t) \/ LookForChildren(t) \/ StatMarker(t)
  <2>1. /\ stack[t] # <<>>
        /\ \/ \E label \in {"put marker", "delete object", "stat marker", "delete marker", "look again"} :
                  Step(t, label)
           \/ \E result : Done(t, result)
    BY <1>3 DEF StatNew, StatObject, LookForChildren, StatMarker, At
  <2> QED
    BY <2>1, StepNests, DoneNests DEF Labels
<1>4. CASE DeleteObject(t) \/ DeleteMarker(t) \/ LookAgain(t)
  <2>1. stack[t] # <<>> /\ (Return(t) \/ \E result : Done(t, result))
    BY <1>4 DEF DeleteObject, DeleteMarker, LookAgain, At
  <2> QED
    BY <2>1, ReturnNests, DoneNests
<1>5. CASE PutMarker(t) \/ PutFile(t)
  BY <1>5, DoneNests DEF PutMarker, PutFile, Put
<1> QED
  BY <1>1, <1>2, <1>3, <1>4, <1>5, StatsNest, ListNests, LoopNests, BelowNests DEF Work

\* The invariant holds at first, and every step keeps it.
LEMMA NestInvInitially == Init => NestInv
<1>1. Len(<<>>) = 0 /\ 1 .. 0 = {} /\ 2 .. 0 = {}
  BY SMT
<1> QED
  BY <1>1 DEF Init, NestInv, NestOk

LEMMA NestInvStays == FsInv /\ KeysInv /\ NestInv /\ [Next]_vars => NestInv'
<1> SUFFICES ASSUME FsInv, KeysInv, NestInv, [Next]_vars PROVE NestInv'
  OBVIOUS
<1>1. ASSUME stack' = stack, op' = op PROVE NestInv'
  BY <1>1 DEF NestInv
<1>2. CASE UNCHANGED vars
  BY <1>1, <1>2 DEF vars, fs
<1>3. CASE Arrive \/ \E t \in Tasks : Resend(t)
  BY <1>1, <1>3 DEF Arrive, Resend
<1> QED
  BY <1>2, <1>3, TaskNests DEF Next

\* On a bucket that holds keys of paths, whatever tasks put and remove
\* meanwhile, remove_dir_all calls itself only for paths that are longer than
\* its own; on any bucket it would not, for "a//" (client.rs 451-495).
THEOREM RemoveAllDescends == MadeOfPaths => (Spec => []Descends)
<1> SUFFICES ASSUME MadeOfPaths PROVE Spec => []Descends
  OBVIOUS
<1>1. NestInv => Descends
  BY DEF NestInv, NestOk, Descends
<1> QED
  BY FsInvInitially, FsInvStays, KeysInvInitially, KeysInvStays, NestInvInitially, NestInvStays,
     <1>1, PTL DEF Spec

-----------------------------------------------------------------------------
(* What remove_dir sees of the others.                                     *)

\* A task that goes on, ends or is dropped has a call in progress.
LEMMA Busy ==
    ASSUME NEW t \in Tasks, Work(t) \/ Fails(t) \/ Cancel(t)
    PROVE  stack[t] # <<>>
BY DEF Work, StatFile, StatDirectory, List, StatNew, PutMarker, PutFile, Put, StatObject, DeleteObject,
   LookForChildren, StatMarker, DeleteMarker, NextChild, LookAgain, LookBelow, DeleteBelow, At, Fails,
   Cancel

\* The operations in progress are those that tasks have begun.
LEMMA PathsStay ==
    ASSUME FsInv, PutsInv, Next, NEW u \in Tasks, stack'[u] # <<>>
    PROVE  op'[u].path \in Paths
<1>0. stack[u] # <<>> => op[u].path \in Paths
  BY DEF PutsInv
<1>1. CASE Arrive \/ \E t \in Tasks : Resend(t)
  BY <1>0, <1>1 DEF Arrive, Resend
<1>2. ASSUME NEW t \in Tasks, BeginAny(t) \/ Work(t) \/ Fails(t) \/ Cancel(t)
      PROVE  op'[u].path \in Paths
  <2>1. CASE u # t
    BY <1>0, <1>2, <2>1, OthersStay
  <2>2. CASE u = t /\ BeginAny(t)
    <3>1. PICK name \in Ops, path \in Paths : Begin(t, name, path)
      BY <2>2, BeginsAJob
    <3>2. op' = [op EXCEPT ![t] = [name |-> name, path |-> path]]
      BY <3>1 DEF Begin
    <3> QED
      BY <2>2, <3>2 DEF FsInv, TypeOK
  <2>3. CASE u = t /\ (Work(t) \/ Fails(t) \/ Cancel(t))
    BY <1>0, <2>3, StaysSilent, Busy
  <2> QED
    BY <1>2, <2>1, <2>2, <2>3
<1> QED
  BY <1>1, <1>2 DEF Next

\* What a step puts was on its way or is the key of a path that operations run
\* on: a call that puts has not been made by another one.
LEMMA PutsPuttable ==
    ASSUME FsInv, NestInv, PutsInv, NEW x \in PutNext
    PROVE  x \in LatePuts \cup Puttable
<1>1. ASSUME NEW t \in Tasks, x \in PutBy(t) PROVE x \in Puttable
  <2>1. /\ stack[t] # <<>> /\ Top(t).at \in {"put marker", "put file"}
        /\ x \in {DirKey(Top(t).path), FileKey(Top(t).path)}
    BY <1>1 DEF PutBy, At
  <2>2. op[t].name \notin Removals
    BY <2>1, TopFacts DEF CallOk, LabelOk, Removals
  <2>3. Top(t).path = op[t].path /\ op[t].path \in Paths
    BY <2>1, <2>2, TopNests DEF PutsInv
  <2> QED
    BY <2>1, <2>3 DEF Puttable
<1>2. x \in UNION {PutBy(t) : t \in Tasks} => \E t \in Tasks : x \in PutBy(t)
  OBVIOUS
<1> QED
  BY <1>1, <1>2 DEF PutNext

\* The invariant holds at first, and every step keeps it.
LEMMA PutsInvInitially == Init => PutsInv
BY DEF Init, PutsInv, LatePuts

LEMMA PutsInvStays == FsInv /\ NestInv /\ PutsInv /\ [Next]_vars => PutsInv'
<1> SUFFICES ASSUME FsInv, NestInv, PutsInv, [Next]_vars PROVE PutsInv'
  OBVIOUS
<1>1. CASE Next
  <2>1. PICK keys \in Buckets : bucket \cup LatePuts \subseteq keys \cup Puttable
    BY DEF PutsInv
  <2>2. PutNext \subseteq keys \cup Puttable
    BY <2>1, PutsPuttable
  <2>3. bucket' \subseteq keys \cup Puttable
    BY <1>1, <2>1, <2>2, StepPuts
  <2>4. ASSUME NEW r \in late', r.puts PROVE r.key \in keys \cup Puttable
    <3>1. r \in late => r.key \in LatePuts
      BY <2>4 DEF LatePuts
    <3> QED
      BY <1>1, <2>1, <2>2, <2>4, <3>1, StepPuts
  <2>5. LatePuts' \subseteq keys \cup Puttable
    BY <2>4 DEF LatePuts
  <2>6. \A t \in Tasks : stack'[t] # <<>> => op'[t].path \in Paths
    BY <1>1, PathsStay
  <2> QED
    BY <2>3, <2>5, <2>6 DEF PutsInv
<1>2. CASE UNCHANGED vars
  <2>1. LatePuts' = LatePuts
    BY <1>2 DEF vars, fs, LatePuts
  <2> QED
    BY <1>2, <2>1 DEF vars, fs, PutsInv
<1> QED
  BY <1>1, <1>2

\* One page takes all that is in the bucket.
LEMMA OnOnePage ==
    ASSUME OnePage, PutsInv
    PROVE  /\ IsFiniteSet(bucket)
           /\ \A S \in SUBSET bucket : Cardinality(S) <= PageSize
<1>1. PICK keys \in Buckets : bucket \subseteq keys \cup Puttable
  BY DEF PutsInv
<1> DEFINE all == keys \cup Puttable
<1>2. IsFiniteSet(all) /\ Cardinality(all) <= PageSize /\ Cardinality(all) \in Nat /\ PageSize \in Nat
  BY <1>1, FS_CardinalityType, FsAssumption DEF OnePage
<1>3. bucket \in SUBSET all
  BY <1>1
<1> HIDE DEF all
<1>4. ASSUME NEW S \in SUBSET all PROVE IsFiniteSet(S) /\ Cardinality(S) <= PageSize
  <2>1. IsFiniteSet(S) /\ Cardinality(S) <= Cardinality(all) /\ Cardinality(S) \in Nat
    BY <1>2, FS_Subset, FS_CardinalityType
  <2> QED
    BY <1>2, <2>1
<1> QED
  BY <1>3, <1>4

\* Then a directory without children has no entries.
LEMMA NoChildrenNoEntries ==
    ASSUME FsInv, OnePage, PutsInv, NEW p \in Key, Children(DirKey(p)) = {}
    PROVE  EntriesOf(p) \cap bucket = {}
<1> DEFINE below == {k \in bucket : HasPrefix(k, DirKey(p))}
<1>1. /\ bucket \in SUBSET Key /\ PageSize \in Nat /\ DirKey(p) \in Key
      /\ IsFiniteSet(bucket) /\ Cardinality(below) <= PageSize
  BY OnOnePage, FileAndDirectory, FsAssumption DEF FsInv, TypeOK
<1>2. Listing(bucket, DirKey(p), PageSize) = below
  BY <1>1, FullListing
<1>3. ASSUME NEW k \in EntriesOf(p), k \in bucket PROVE FALSE
  <2>1. IsDirectChild(k, DirKey(p)) /\ k \in below
    BY <1>3, EntryIs
  <2>2. k \in Children(DirKey(p))
    BY <1>2, <2>1 DEF Children, QueryObjects
  <2> QED
    BY <2>2
<1> QED
  BY <1>3

\* What the innermost call is after it goes on.
LEMMA GotoTop ==
    ASSUME FsInv, NEW t \in Tasks, stack[t] # <<>>, NEW label, NEW entry, NEW rest,
           Goto(t, label, entry, rest)
    PROVE  /\ Last(stack'[t]).at = label /\ Last(stack'[t]).path = Top(t).path
           /\ Last(stack'[t]).entry = entry /\ Last(stack'[t]).rest = rest
<1> DEFINE f == [Top(t) EXCEPT !.at = label, !.entry = entry, !.rest = rest]
           S == Frame \cup {f}
<1>1. stack[t] \in Seq(Frame) /\ Top(t) \in Frame
  BY TopFacts
<1>2. stack'[t] = Append(Front(stack[t]), f)
  BY DEF Goto, FsInv, TypeOK
<1>3. f.at = label /\ f.path = Top(t).path /\ f.entry = entry /\ f.rest = rest
  BY <1>1 DEF Frame
<1> HIDE DEF f
<1>4. stack[t] \in Seq(S) /\ f \in S
  BY <1>1, SeqMonotonic
<1> HIDE DEF S
<1>5. Last(Append(Front(stack[t]), f)) = f
  BY <1>4, ReplaceLast
<1> QED
  BY <1>2, <1>3, <1>5

LEMMA StepTop ==
    ASSUME FsInv, NEW t \in Tasks, stack[t] # <<>>, NEW label, Step(t, label)
    PROVE  /\ Last(stack'[t]).at = label /\ Last(stack'[t]).path = Top(t).path
           /\ Last(stack'[t]).entry = Top(t).entry /\ op' = op
<1>1. Goto(t, label, Top(t).entry, {})
  BY DEF Step
<1>2. op' = op
  BY <1>1 DEF Goto
<1> QED
  BY <1>1, <1>2, GotoTop

\* After it returns, the call that made it is in its loop.
LEMMA ReturnTop ==
    ASSUME FsInv, NestInv, NEW t \in Tasks, stack[t] # <<>>, Return(t), stack'[t] # <<>>
    PROVE  /\ Last(stack'[t]).at = "children"
           /\ stack'[t] = Front(stack[t]) /\ op' = op /\ answer' = answer
<1> DEFINE n == Len(stack[t])
<1>1. stack[t] \in Seq(Frame) /\ n \in Nat /\ n # 0
  BY TopFacts, EmptySeq
<1>2. ~ Done(t, "Ok")
  BY DEF Done, FsInv, TypeOK
<1>3. n # 1 /\ stack'[t] = Front(stack[t]) /\ op' = op /\ answer' = answer
  BY <1>2 DEF Return, FsInv, TypeOK
<1>4. Len(Front(stack[t])) = n - 1 /\ \A i \in 1 .. n - 1 : Front(stack[t])[i] = stack[t][i]
  BY <1>1, DropLast
<1>5. \A i \in 2 .. n : stack[t][i - 1].at = "children"
  BY DEF NestInv, NestOk
<1> HIDE DEF n
<1>6. n \in 2 .. n /\ n - 1 \in 1 .. n - 1
  BY <1>1, <1>3
<1>7. Last(Front(stack[t])) = stack[t][n - 1] /\ stack[t][n - 1].at = "children"
  BY <1>4, <1>5, <1>6 DEF Last
<1> QED
  BY <1>3, <1>7

\* After the loop has made a call, that call begins.
LEMMA LoopTop ==
    ASSUME FsInv, NEW t \in Tasks, NextChild(t)
    PROVE  \/ Step(t, "look for children") /\ Top(t).rest = {}
           \/ Last(stack'[t]).at = "stat file"
<1> DEFINE rest == Top(t).rest
<1>1. stack[t] # <<>>
  BY DEF NextChild, At
<1>2. stack[t] \in Seq(Frame) /\ Top(t) \in Frame
  BY <1>1, TopFacts
<1>3. ASSUME NEW k \in rest,
             stack' = [stack EXCEPT ![t] =
                 Append(Append(Front(@), [Top(t) EXCEPT !.rest = rest \ {k}]),
                        Call("stat file", S3Object(k).path))]
      PROVE  Last(stack'[t]).at = "stat file"
  <2> DEFINE f == [Top(t) EXCEPT !.rest = rest \ {k}]
             g == Call("stat file", S3Object(k).path)
             r == Append(Front(stack[t]), f)
  <2>1. stack'[t] = Append(r, g)
    BY <1>3 DEF FsInv, TypeOK
  <2>2. k \in Key /\ g.at = "stat file"
    BY <1>2 DEF Frame, Call
  <2>3. f \in Frame
    BY <1>2 DEF Frame
  <2>4. g \in Frame
    BY <2>2, EntryOfKey DEF Frame, Labels, Call
  <2> HIDE DEF f, g
  <2>5. r \in Seq(Frame)
    BY <1>1, <1>2, <2>3, ReplaceLast
  <2> HIDE DEF r
  <2>6. Last(Append(r, g)) = g
    BY <2>4, <2>5, AppendProperties DEF Last
  <2> QED
    BY <2>1, <2>2, <2>6
<1> QED
  BY <1>3 DEF NextChild

\* A call of remove_dir comes to the marker when it has found no children, and
\* deletes it when it is there.
LEMMA ComesToMarker ==
    ASSUME FsInv, NestInv, NEW t \in Tasks, BeginAny(t) \/ Work(t) \/ Fails(t) \/ Cancel(t),
           stack'[t] # <<>>, Last(stack'[t]).at \in {"stat marker", "delete marker"}
    PROVE  /\ bucket' = bucket /\ op' = op /\ stack[t] # <<>> /\ Top(t).entry \in Key
           /\ Last(stack'[t]).path = Top(t).path /\ Last(stack'[t]).entry = Top(t).entry
           /\ \/ Top(t).at = "look for children" /\ Children(DirKey(Top(t).entry)) = {}
              \/ Top(t).at = "stat marker"
<1>1. ~ BeginAny(t)
  <2> SUFFICES ASSUME NEW name \in Ops, NEW path \in Paths, Begin(t, name, path) PROVE FALSE
    BY BeginsAJob
  <2>1. name \in {"stat", "exists", "list_dir", "create_dir", "remove_file", "remove_dir",
                  "remove_dir_all", "write"}
    BY JobFacts
  <2>2. PICK first \in Labels \ {"stat marker", "delete marker"} : stack'[t] = <<Call(first, path)>>
    BY <2>1 DEF Begin, FsInv, TypeOK, Labels
  <2> DEFINE c == Call(first, path)
  <2>3. c.at = first
    BY DEF Call
  <2> HIDE DEF c
  <2>4. Last(<<c>>) = c
    BY DEF Last
  <2> QED
    BY <2>2, <2>3, <2>4 DEF c
<1>2. stack[t] # <<>>
  BY <1>1, Busy
<1>3. (\A result : ~ Done(t, result)) /\ ~ Return(t)
  BY <1>2, ReturnTop DEF Done, FsInv, TypeOK
<1>4. ~ NextChild(t)
  <2> SUFFICES ASSUME NextChild(t) PROVE FALSE
    OBVIOUS
  <2>1. Step(t, "look for children") \/ Last(stack'[t]).at = "stat file"
    BY LoopTop
  <2>2. Step(t, "look for children") => Last(stack'[t]).at = "look for children"
    BY <1>2, StepTop
  <2> QED
    BY <2>1, <2>2
<1>5. /\ \A label, entry, rest :
             Goto(t, label, entry, rest) => label = "stat marker" \/ label = "delete marker"
      /\ \A label : Step(t, label) => label = "stat marker" \/ label = "delete marker"
  BY <1>2, GotoTop, StepTop
<1>6. LookForChildren(t) \/ StatMarker(t)
  <2>1. ~ StatFile(t) /\ ~ StatDirectory(t)
    BY <1>3, <1>5 DEF StatFile, StatDirectory, Found, Answered
  <2>2. ~ List(t) /\ ~ LookBelow(t) /\ ~ DeleteBelow(t)
    BY <1>3, <1>5 DEF List, LookBelow, DeleteBelow
  <2>3. ~ StatNew(t) /\ ~ PutMarker(t) /\ ~ PutFile(t) /\ ~ StatObject(t)
    BY <1>3, <1>5 DEF StatNew, PutMarker, PutFile, Put, StatObject
  <2>4. ~ DeleteObject(t) /\ ~ DeleteMarker(t) /\ ~ LookAgain(t)
    BY <1>3 DEF DeleteObject, DeleteMarker, LookAgain
  <2>5. ~ Fails(t) /\ ~ Cancel(t)
    BY <1>3, <1>5 DEF Fails, Cancel
  <2> QED
    BY <1>1, <1>4, <2>1, <2>2, <2>3, <2>4, <2>5 DEF Work
<1>7. /\ bucket' = bucket /\ \E label : Step(t, label)
      /\ \/ Top(t).at = "look for children" /\ Children(DirKey(Top(t).entry)) = {}
         \/ Top(t).at = "stat marker"
  BY <1>3, <1>6 DEF LookForChildren, StatMarker, At
<1>8. Last(stack'[t]).path = Top(t).path /\ Last(stack'[t]).entry = Top(t).entry /\ op' = op
  BY <1>2, <1>7, StepTop
<1>9. Top(t).entry \in Key
  BY <1>2, TopFacts DEF Frame
<1> QED
  BY <1>2, <1>7, <1>8, <1>9

\* The invariant holds at first, and every step keeps it.
LEMMA ChildrenInvInitially == Init => ChildrenInv
BY DEF Init, ChildrenInv

LEMMA ChildrenInvStays == FsInv /\ NestInv /\ PutsInv /\ ChildrenInv /\ [Next]_vars => ChildrenInv'
<1> SUFFICES ASSUME FsInv, NestInv, PutsInv, ChildrenInv, [Next]_vars, OnePage,
                    NEW u \in Tasks, stack'[u] # <<>>,
                    Last(stack'[u]).at \in {"stat marker", "delete marker"}
             PROVE  EntriesOf(Last(stack'[u]).entry) \cap bucket' \subseteq fresh'[u]
  BY DEF ChildrenInv, Top
<1>0. stack[u] # <<>> /\ Top(u).at \in {"stat marker", "delete marker"}
          => EntriesOf(Top(u).entry) \cap bucket \subseteq fresh[u]
  BY DEF ChildrenInv
<1>1. CASE UNCHANGED vars
  BY <1>0, <1>1 DEF vars, fs, Top
<1>2. CASE Next
  <2>1. fresh'[u] = fresh[u] \cup (bucket' \ bucket)
    BY <1>2 DEF Next, Notice
  <2>2. CASE stack'[u] = stack[u]
    <3>1. EntriesOf(Top(u).entry) \cap bucket \subseteq fresh[u] /\ Top(u) = Last(stack'[u])
      BY <1>0, <2>2 DEF Top
    <3> QED
      BY <2>1, <3>1
  <2>3. ASSUME BeginAny(u) \/ Work(u) \/ Fails(u) \/ Cancel(u)
        PROVE  EntriesOf(Last(stack'[u]).entry) \cap bucket' \subseteq fresh'[u]
    <3>1. /\ bucket' = bucket /\ stack[u] # <<>> /\ Top(u).entry \in Key
          /\ Last(stack'[u]).entry = Top(u).entry
          /\ \/ Top(u).at = "look for children" /\ Children(DirKey(Top(u).entry)) = {}
             \/ Top(u).at = "stat marker"
      BY <2>3, ComesToMarker
    <3>2. EntriesOf(Top(u).entry) \cap bucket \subseteq fresh[u]
      BY <1>0, <3>1, NoChildrenNoEntries
    <3> QED
      BY <2>1, <3>1, <3>2
  <2>4. ASSUME NEW t \in Tasks, t # u, BeginAny(t) \/ Work(t) \/ Fails(t) \/ Cancel(t)
        PROVE  stack'[u] = stack[u]
    BY <2>4, OthersStay
  <2>5. Arrive \/ (\E t \in Tasks : Resend(t)) => stack'[u] = stack[u]
    BY DEF Arrive, Resend
  <2> QED
    BY <1>2, <2>2, <2>3, <2>4, <2>5 DEF Next
<1> QED
  BY <1>1, <1>2

\* As long as one page takes all keys, remove_dir deletes the marker of a
\* directory that has entries only if they were put since it looked for
\* children, whatever keys the bucket holds (client.rs 432-450).
THEOREM OnlyFreshAreOrphaned == OnePage => (Spec => []OrphansOnlyFresh)
<1> SUFFICES ASSUME OnePage PROVE Spec => []OrphansOnlyFresh
  OBVIOUS
<1>1. ChildrenInv => OrphansOnlyFresh
  BY DEF ChildrenInv, OrphansOnlyFresh, At
<1> QED
  BY FsInvInitially, FsInvStays, KeysInvInitially, KeysInvStays, NestInvInitially, NestInvStays,
     PutsInvInitially, PutsInvStays, ChildrenInvInitially, ChildrenInvStays, <1>1, PTL DEF Spec

-----------------------------------------------------------------------------
(* What a tidy owner has after each request.                               *)

\* What the steps of the owner find, and what is left to prove of them.
Owns(t) == FsInv /\ NestInv /\ FreshInv /\ OwnerInv /\ TidyOwner /\ Tasks = {t}
StillOwns == IsTree(bucket) /\ RemoveAllLeavesNothing /\ WorkInv /\ NextPutInv

LEMMA OwnTop ==
    ASSUME NEW t, Owns(t), stack[t] # <<>>
    PROVE  /\ t \in Tasks /\ bucket \in SUBSET Key /\ IsTree(bucket)
           /\ Top(t) \in Frame /\ CallOk(op[t], Top(t)) /\ EntryOk(op[t], Top(t)) /\ WorkOk(bucket, op[t], Top(t))
           /\ op[t].name \in Removals => Trim(Top(t).entry) = Trim(Top(t).path)
           /\ Len(stack[t]) = 1 => Top(t).path = op[t].path
           /\ Len(stack[t]) # 1 => op[t].name \in Removals
           /\ answer[t] = "none"
<1>1. t \in Tasks /\ FsInv /\ NestInv /\ IsTree(bucket) /\ WorkInv /\ answer[t] = "none"
      /\ bucket \in SUBSET Key
  BY DEF Owns, OwnerInv, FreshInv, FsInv, TypeOK
<1>2. Len(stack[t]) \in 1 .. Len(stack[t]) /\ Top(t) \in Frame /\ CallOk(op[t], Top(t))
  BY <1>1, TopFacts
<1>3. WorkOk(bucket, op[t], Top(t))
  BY <1>1, <1>2 DEF WorkInv, Top, Last
<1>4. EntryOk(op[t], Top(t))
      /\ (Len(stack[t]) = 1 => Top(t).path = op[t].path)
      /\ (Len(stack[t]) # 1 => op[t].name \in Removals)
  BY <1>1, TopNests
<1>5. op[t].name \in Removals => Trim(Top(t).entry) = Trim(Top(t).path)
  BY <1>4 DEF EntryOk
<1> QED
  BY <1>1, <1>2, <1>3, <1>4, <1>5

\* What a removal knows of the bucket stays true when an object disappears.
LEMMA WorkStays ==
    ASSUME NEW operation, NEW call, NEW keys, NEW fewer \in SUBSET keys, WorkOk(keys, operation, call)
    PROVE  WorkOk(fewer, operation, call)
BY DEF WorkOk, IsEmptyDir

\* The stack of the only task becomes s.
LEMMA StackWorks ==
    ASSUME NEW t, Owns(t), op' = op, NEW s, stack' = [stack EXCEPT ![t] = s],
           \A i \in 1 .. Len(s) : WorkOk(bucket', op[t], s[i])
    PROVE  WorkInv'
<1>1. stack'[t] = s /\ Tasks = {t}
  BY DEF Owns, FsInv, TypeOK
<1>2. \A i \in 1 .. Len(stack'[t]) : WorkOk(bucket', op'[t], stack'[t][i])
  BY <1>1
<1> QED
  BY <1>1, <1>2 DEF WorkInv

\* The stack of a task whose call goes on.
GoneOn(t, label, entry, rest) ==
    \E s \in Seq(Frame), f \in Frame :
        /\ f = [at |-> label, path |-> Top(t).path, entry |-> entry, rest |-> rest]
        /\ stack' = [stack EXCEPT ![t] = s] /\ op' = op /\ answer' = answer
        /\ Len(s) = Len(stack[t])
        /\ \A i \in 1 .. Len(s) : s[i] = IF i = Len(s) THEN f ELSE stack[t][i]

LEMMA GotoCalls ==
    ASSUME FsInv, NEW t \in Tasks, stack[t] # <<>>,
           NEW label \in Labels, NEW entry \in Key, NEW rest \in SUBSET Key, Goto(t, label, entry, rest)
    PROVE  GoneOn(t, label, entry, rest)
<1> DEFINE f == [Top(t) EXCEPT !.at = label, !.entry = entry, !.rest = rest]
           s == Append(Front(stack[t]), f)
<1>1. stack[t] \in Seq(Frame) /\ Top(t) \in Frame
  BY TopFacts
<1>2. f \in Frame /\ f.at = label /\ f.path = Top(t).path /\ f.entry = entry /\ f.rest = rest
  BY <1>1 DEF Frame
<1>3. stack' = [stack EXCEPT ![t] = s] /\ op' = op /\ answer' = answer
  BY DEF Goto
<1> HIDE DEF f
<1>5. f = [at |-> label, path |-> Top(t).path, entry |-> entry, rest |-> rest]
  BY <1>2 DEF Frame
<1>4. s \in Seq(Frame) /\ Len(s) = Len(stack[t])
      /\ \A i \in 1 .. Len(s) : s[i] = IF i = Len(s) THEN f ELSE stack[t][i]
  BY <1>1, <1>2, ReplaceLast
<1> HIDE DEF s
<1> QED
  BY <1>2, <1>3, <1>4, <1>5 DEF GoneOn

\* The operation of the owner returns.
LEMMA OwnerEnds ==
    ASSUME NEW t, Owns(t), NEW result, Done(t, result), IsTree(bucket'),
           result = "Ok" /\ op[t].name = "remove_dir_all" => \A k \in bucket' : ~ Covers(op[t].path, k)
    PROVE  StillOwns'
<1>1. stack' = [stack EXCEPT ![t] = <<>>] /\ answer' = [answer EXCEPT ![t] = result] /\ op' = op
  BY DEF Done
<1>2. stack'[t] = <<>> /\ answer'[t] = result /\ Tasks = {t}
  BY <1>1 DEF Owns, FsInv, TypeOK
<1>3. WorkInv'
  <2>1. 1 .. Len(<<>>) = {}
    BY SMT
  <2> QED
    BY <1>1, <2>1, StackWorks
<1>4. NextPutInv'
  BY <1>2 DEF NextPutInv, NextPut, At
<1>5. RemoveAllLeavesNothing'
  BY <1>1, <1>2 DEF RemoveAllLeavesNothing
<1> QED
  BY <1>3, <1>4, <1>5 DEF StillOwns

\* The call of the owner goes on after a query.
LEMMA OwnerGoesOn ==
    ASSUME NEW t, Owns(t), stack[t] # <<>>, bucket' = bucket,
           NEW label \in Labels, NEW entry \in Key, NEW rest \in SUBSET Key, Goto(t, label, entry, rest),
           WorkOk(bucket, op[t], [at |-> label, path |-> Top(t).path, entry |-> entry, rest |-> rest]),
           label = "put marker" => Top(t).at = "stat new",
           label # "stat new" /\ label # "put file"
    PROVE  StillOwns'
<1> DEFINE n == Len(stack[t])
<1>1. /\ t \in Tasks /\ Top(t) \in Frame /\ IsTree(bucket) /\ answer[t] = "none" /\ FsInv
      /\ WorkInv /\ NextPutInv /\ Tasks = {t}
  BY OwnTop DEF Owns, OwnerInv
<1>0. GoneOn(t, label, entry, rest)
  BY <1>1, GotoCalls
<1>2. PICK s \in Seq(Frame), f \in Frame :
          /\ f = [at |-> label, path |-> Top(t).path, entry |-> entry, rest |-> rest]
          /\ stack' = [stack EXCEPT ![t] = s] /\ op' = op /\ answer' = answer
          /\ Len(s) = Len(stack[t])
          /\ \A i \in 1 .. Len(s) : s[i] = IF i = Len(s) THEN f ELSE stack[t][i]
  BY <1>0 DEF GoneOn
<1>3. WorkOk(bucket, op[t], f)
  BY <1>2
<1>4. stack' = [stack EXCEPT ![t] = s] /\ op' = op /\ answer' = answer
  BY <1>2
<1>5. Len(s) = n /\ \A i \in 1 .. n : s[i] = IF i = n THEN f ELSE stack[t][i]
  BY <1>2
<1>6. \A i \in 1 .. n : WorkOk(bucket, op[t], stack[t][i])
  BY <1>1 DEF WorkInv
<1>7. \A i \in 1 .. Len(s) : WorkOk(bucket', op[t], s[i])
  BY <1>3, <1>5, <1>6
<1>8. WorkInv'
  BY <1>4, <1>7, StackWorks
<1>9. /\ Last(stack'[t]).at = label /\ Last(stack'[t]).path = Top(t).path
  BY <1>1, GotoTop
<1>10. NextPutInv'
  <2>1. NextPut(t)' \subseteq NextPut(t)
    BY <1>9 DEF NextPut, At, Top
  <2> QED
    BY <1>1, <2>1 DEF NextPutInv, MayPut
<1>11. RemoveAllLeavesNothing'
  BY <1>1, <1>4 DEF RemoveAllLeavesNothing
<1> QED
  BY <1>1, <1>8, <1>10, <1>11 DEF StillOwns
LEMMA OwnerSteps ==
    ASSUME NEW t, Owns(t), stack[t] # <<>>, bucket' = bucket, NEW label \in Labels, Step(t, label),
           WorkOk(bucket, op[t], [at |-> label, path |-> Top(t).path, entry |-> Top(t).entry, rest |-> {}]),
           label = "put marker" => Top(t).at = "stat new",
           label # "stat new" /\ label # "put file"
    PROVE  StillOwns'
<1>1. Top(t).entry \in Key /\ {} \in SUBSET Key /\ Goto(t, label, Top(t).entry, {})
  BY OwnTop DEF Frame, Step
<1> QED
  BY <1>1, OwnerGoesOn

\* The innermost call of a removal returns.
LEMMA OwnerReturns ==
    ASSUME NEW t, Owns(t), stack[t] # <<>>, Return(t), bucket' \subseteq bucket, IsTree(bucket'),
           op[t].name \in Removals,
           op[t].name = "remove_dir_all" => \A k \in bucket' : ~ Covers(Top(t).path, k)
    PROVE  StillOwns'
<1>1. /\ t \in Tasks /\ answer[t] = "none" /\ FsInv /\ NestInv /\ WorkInv /\ Tasks = {t}
      /\ Len(stack[t]) = 1 => Top(t).path = op[t].path
  BY OwnTop DEF Owns, OwnerInv
<1>2. CASE Len(stack[t]) = 1
  BY <1>1, <1>2, OwnerEnds DEF Return
<1>3. CASE Len(stack[t]) # 1
  <2> DEFINE s == Front(stack[t])
  <2>1. stack' = [stack EXCEPT ![t] = s] /\ op' = op /\ answer' = answer
    BY <1>3 DEF Return
  <2>2. stack[t] \in Seq(Frame)
    BY <1>1, TopFacts
  <2>3. Len(stack[t]) \in Nat /\ Len(s) = Len(stack[t]) - 1
        /\ \A i \in 1 .. Len(stack[t]) - 1 : s[i] = stack[t][i]
    BY <2>2, DropLast, LenProperties
  <2>4. \A i \in 1 .. Len(stack[t]) : WorkOk(bucket, op[t], stack[t][i])
    BY <1>1 DEF WorkInv
  <2> HIDE DEF s
  <2>5. \A i \in 1 .. Len(s) : i \in 1 .. Len(stack[t]) /\ s[i] = stack[t][i]
    BY <2>3
  <2>6. \A i \in 1 .. Len(s) : WorkOk(bucket', op[t], s[i])
    BY <2>4, <2>5, WorkStays
  <2>7. WorkInv'
    BY <2>1, <2>6, StackWorks
  <2>8. NextPut(t)' = {}
    BY <1>1, ReturnTop DEF NextPut, At, Top
  <2>9. NextPutInv'
    BY <1>1, <2>8 DEF NextPutInv
  <2>10. RemoveAllLeavesNothing'
    BY <1>1, <2>1 DEF RemoveAllLeavesNothing
  <2> QED
    BY <2>7, <2>9, <2>10 DEF StillOwns
<1> QED
  BY <1>2, <1>3

\* remove_dir_all calls itself for a child.
LEMMA OwnerCalls ==
    ASSUME NEW t, Owns(t), NextChild(t)
    PROVE  StillOwns'
<1> DEFINE rest == Top(t).rest  n == Len(stack[t])
<1>1. stack[t] # <<>> /\ Top(t).at = "children" /\ bucket' = bucket
  BY DEF NextChild, At
<1>2. /\ t \in Tasks /\ Top(t) \in Frame /\ IsTree(bucket) /\ answer[t] = "none" /\ FsInv
      /\ WorkInv /\ Tasks = {t} /\ WorkOk(bucket, op[t], Top(t))
  BY <1>1, OwnTop DEF Owns, OwnerInv
<1>3. CASE Step(t, "look for children")
  <2>1. WorkOk(bucket, op[t], [at |-> "look for children", path |-> Top(t).path,
                               entry |-> Top(t).entry, rest |-> {}])
    BY <1>1, <1>2 DEF WorkOk
  <2> QED
    BY <1>1, <1>3, <2>1, OwnerSteps DEF Labels
<1>4. ASSUME NEW k \in rest,
             stack' = [stack EXCEPT ![t] =
                 Append(Append(Front(@), [Top(t) EXCEPT !.rest = rest \ {k}]),
                        Call("stat file", S3Object(k).path))],
             UNCHANGED <<op, answer>>
      PROVE  StillOwns'
  <2> DEFINE f == [Top(t) EXCEPT !.rest = rest \ {k}]
             g == Call("stat file", S3Object(k).path)
             r == Append(Front(stack[t]), f)
             s == Append(r, g)
  <2>1. f \in Frame /\ f.at = "children" /\ f.path = Top(t).path
    BY <1>1, <1>2 DEF Frame
  <2>2. S3Object(k).path \in Key
    BY <1>2, EntryOfKey DEF Frame
  <2>3. g \in Frame /\ g.at = "stat file"
    BY <2>2 DEF Call, Frame, Labels
  <2>4. stack' = [stack EXCEPT ![t] = s] /\ op' = op /\ answer' = answer
    BY <1>4
  <2> HIDE DEF f, g
  <2>5. stack[t] \in Seq(Frame) /\ n \in Nat
    BY <1>1, <1>2, TopFacts, LenProperties
  <2>6. r \in Seq(Frame) /\ Len(r) = n
        /\ \A i \in 1 .. n : r[i] = (IF i = n THEN f ELSE stack[t][i])
    BY <1>1, <2>1, <2>5, ReplaceLast
  <2> HIDE DEF r
  <2>19. s \in Seq(Frame) /\ Len(s) = Len(r) + 1
         /\ (\A i \in 1 .. Len(r) : s[i] = r[i]) /\ s[Len(r) + 1] = g
    <3>1. r \in Seq(Frame) /\ g \in Frame
      BY <2>3, <2>6
    <3>2. \A i \in 1 .. Len(r) : s[i] = r[i]
      BY <3>1, AppendProperties
    <3>3. s \in Seq(Frame) /\ Len(s) = Len(r) + 1 /\ s[Len(r) + 1] = g
      BY <3>1, AppendProperties
    <3> QED
      BY <3>2, <3>3
  <2> HIDE DEF s
  <2>7. Len(s) = n + 1 /\ (\A i \in 1 .. n : s[i] = r[i]) /\ s[n + 1] = g
    BY <2>6, <2>19
  <2>8. \A i \in 1 .. n : s[i] = (IF i = n THEN f ELSE stack[t][i])
    BY <2>6, <2>7
  <2>9. WorkOk(bucket, op[t], f)
    BY <1>1, <1>2, <2>1 DEF WorkOk
  <2>10. WorkOk(bucket, op[t], g)
    BY <2>3 DEF WorkOk
  <2>11. \A i \in 1 .. n : WorkOk(bucket, op[t], stack[t][i])
    BY <1>2 DEF WorkInv
  <2> HIDE DEF n
  <2>12. s # <<>> /\ Last(s) = g
    BY <2>5, <2>7, <2>19, EmptySeq DEF Last
  <2>13. ASSUME NEW i \in 1 .. Len(s) PROVE WorkOk(bucket', op[t], s[i])
    <3>1. i = n + 1 \/ i \in 1 .. n
      BY <2>5, <2>7
    <3> QED
      BY <1>1, <2>7, <2>8, <2>9, <2>10, <2>11, <3>1
  <2>14. WorkInv'
    BY <2>4, <2>13, StackWorks
  <2>15. stack'[t] = s
    BY <1>2, <2>4 DEF FsInv, TypeOK
  <2>16. NextPut(t)' = {}
    BY <2>3, <2>12, <2>15 DEF NextPut, At, Top
  <2>17. NextPutInv'
    BY <1>2, <2>16 DEF NextPutInv
  <2>18. RemoveAllLeavesNothing'
    BY <1>2, <2>4 DEF RemoveAllLeavesNothing
  <2> QED
    BY <1>1, <1>2, <2>14, <2>17, <2>18 DEF StillOwns
<1> QED
  BY <1>3, <1>4 DEF NextChild
\* The keys of a path have its names.
LEMMA PlainKeys ==
    ASSUME NEW p \in Key, Plain(p)
    PROVE  Plain(FileKey(p)) /\ Plain(DirKey(p))
<1>1. CASE Trim(p) = EmptyKey
  BY <1>1, FileAndDirectory, EmptyIsKey, BareIsTrimmed DEF Bare, Plain
<1>2. CASE Trim(p) # EmptyKey
  BY <1>2, PathsLeadBack DEF Plain
<1> QED
  BY <1>1, <1>2

\* The owner begins an operation.
LEMMA OwnerBegins ==
    ASSUME NEW t, Owns(t), NEW name \in Ops, NEW path \in Paths, Begin(t, name, path)
    PROVE  StillOwns'
<1>1. t \in Tasks /\ Tasks = {t} /\ IsTree(bucket) /\ bucket' = bucket /\ path \in Key /\ Plain(path)
  BY JobFacts DEF Owns, OwnerInv, TidyOwner, Begin
<1>2. name \in {"stat", "exists", "list_dir", "create_dir", "remove_file", "remove_dir",
                "remove_dir_all", "write"}
  BY JobFacts
<1>3. PICK first \in Labels :
          /\ stack' = [stack EXCEPT ![t] = <<Call(first, path)>>]
          /\ first \notin {"stat marker", "delete marker", "look below", "delete below", "put marker"}
          /\ name = "remove_dir_all" => first = "stat file"
          /\ first = "stat new" => name = "create_dir"
          /\ first = "put file" => name = "write"
  BY <1>2 DEF Begin, Labels
<1>4. /\ op' = [op EXCEPT ![t] = [name |-> name, path |-> path]]
      /\ answer' = [answer EXCEPT ![t] = "none"]
      /\ name = "create_dir" => MayPut(DirKey(path))
      /\ name = "write" => MayPut(FileKey(path))
  BY DEF Begin
<1> DEFINE c == Call(first, path)
<1>5. c.at = first /\ c.path = path
  BY DEF Call
<1> HIDE DEF c
<1>6. op'[t].name = name /\ answer'[t] = "none" /\ stack'[t] = <<c>>
  BY <1>1, <1>3, <1>4 DEF Owns, FsInv, TypeOK, c
<1>7. <<c>> # <<>> /\ Last(<<c>>) = c /\ Len(<<c>>) = 1 /\ <<c>>[1] = c
  BY DEF Last
<1>8. WorkOk(bucket, op'[t], c)
  BY <1>3, <1>5, <1>6 DEF WorkOk
<1>9. WorkInv'
  <2>1. \A i \in 1 .. Len(stack'[t]) : WorkOk(bucket', op'[t], stack'[t][i])
    BY <1>1, <1>6, <1>7, <1>8, OneCall
  <2> QED
    BY <1>1, <2>1 DEF WorkInv
<1>10. NextPut(t)' = IF first = "stat new" THEN {DirKey(path)}
                     ELSE IF first = "put file" THEN {FileKey(path)} ELSE {}
  BY <1>3, <1>5, <1>6, <1>7 DEF NextPut, At, Top
<1>11. NextPutInv'
  <2>1. ASSUME NEW k \in NextPut(t)' PROVE Plain(k) /\ MayPut(k)
    BY <1>1, <1>3, <1>4, <1>10, <2>1, PlainKeys
  <2> QED
    BY <1>1, <2>1 DEF NextPutInv, MayPut
<1>12. RemoveAllLeavesNothing'
  BY <1>1, <1>6 DEF RemoveAllLeavesNothing
<1> QED
  BY <1>1, <1>9, <1>11, <1>12 DEF StillOwns

\* What the owner puts next leaves a tree ...
LEMMA OwnerPuts ==
    ASSUME NEW t, Owns(t), NEW key \in NextPut(t), key # EmptyKey
    PROVE  IsTree(bucket \cup {key})
<1>1. stack[t] # <<>> /\ key \in {FileKey(Top(t).path), DirKey(Top(t).path)}
  BY DEF NextPut, At
<1>2. Top(t).path \in Key /\ bucket \subseteq Key /\ IsTree(bucket) /\ t \in Tasks
  BY <1>1, OwnTop DEF Frame
<1>3. key \in Key /\ LeadsBack(key)
  BY <1>1, <1>2, KeysArePaths, FileAndDirectory
<1>4. Plain(key) /\ MayPut(key) /\ Tidy
  BY <1>2 DEF Owns, OwnerInv, NextPutInv, TidyOwner
<1> QED
  BY <1>2, <1>3, <1>4, PutKeepsTree

\* ... and so does what it deletes next.
LEMMA OwnerDeletes ==
    ASSUME NEW t, Owns(t), stack[t] # <<>>
    PROVE  /\ Top(t).at = "delete object" => IsTree(bucket \ {FileKey(Top(t).entry)})
           /\ Top(t).at = "delete marker" => IsTree(bucket \ {DirKey(Top(t).entry)})
           /\ Top(t).at # "delete below"
<1> DEFINE p == Top(t).path  e == Top(t).entry
<1>1. /\ bucket \in SUBSET Key /\ IsTree(bucket) /\ p \in Key /\ e \in Key
      /\ WorkOk(bucket, op[t], Top(t)) /\ CallOk(op[t], Top(t))
      /\ op[t].name \in Removals => Trim(e) = Trim(p)
  BY OwnTop DEF Frame
<1>2. \A k \in bucket : FileKey(e) \notin Above(k)
  BY <1>1, FileIsNotAbove DEF IsTree
<1>3. ASSUME Top(t).at = "delete marker" PROVE \A k \in bucket : DirKey(e) \notin Above(k)
  <2>1. op[t].name \in Removals /\ IsEmptyDir(bucket, p)
    BY <1>1, <1>3 DEF CallOk, LabelOk, WorkOk
  <2>2. DirKey(e) = DirKey(p)
    BY <1>1, <2>1 DEF DirKey, FromPath
  <2> QED
    BY <1>1, <2>1, <2>2, EmptyIsNotAbove DEF IsEmptyDir
<1> QED
  BY <1>1, <1>2, <1>3, DeletionKeepsTree DEF WorkOk

\* Nothing comes late.
LEMMA NothingComes ==
    ASSUME NEW t, Owns(t)
    PROVE  ~ Arrive /\ \A r : ~ MayCome(r)
<1>1. late = {} /\ MaxLate = 0 /\ Cardinality({}) = 0
  BY FS_EmptySet DEF Owns, OwnerInv, TidyOwner
<1> QED
  BY <1>1 DEF Arrive, MayCome

\* A request of the owner that is executed leaves a tree, answered or not.
LEMMA LostLeavesTree ==
    ASSUME NEW t, Owns(t), stack[t] # <<>>, Lost(t)
    PROVE  IsTree(bucket') /\ (At(t, "stat new") => bucket' = bucket)
<1>1. CASE UNCHANGED bucket
  BY <1>1, OwnTop
<1>2. ASSUME NEW r \in Requests(t), Execute(r)
      PROVE  IsTree(bucket') /\ (At(t, "stat new") => bucket' = bucket)
  <2>1. ~ At(t, "delete below")
    BY OwnerDeletes DEF At
  <2>2. CASE At(t, "put marker") \/ At(t, "put file")
    <3>1. PICK key \in NextPut(t) \ {EmptyKey} : r = [puts |-> TRUE, key |-> key, by |-> op[t]]
      BY <1>2, <2>2 DEF Requests, At, NextPut
    <3>2. bucket' = bucket \cup {key}
      BY <1>2, <3>1 DEF Execute
    <3> QED
      BY <2>2, <3>1, <3>2, OwnerPuts DEF At
  <2>3. CASE At(t, "delete object")
    <3>1. r = [puts |-> FALSE, key |-> FileKey(Top(t).entry), by |-> op[t]]
      BY <1>2, <2>3 DEF Requests, At
    <3>2. bucket' = bucket \ {FileKey(Top(t).entry)}
      BY <1>2, <3>1 DEF Execute
    <3> QED
      BY <2>3, <3>2, OwnerDeletes DEF At
  <2>4. CASE At(t, "delete marker")
    <3>1. r = [puts |-> FALSE, key |-> DirKey(Top(t).entry), by |-> op[t]]
      BY <1>2, <2>4 DEF Requests, At
    <3>2. bucket' = bucket \ {DirKey(Top(t).entry)}
      BY <1>2, <3>1 DEF Execute
    <3> QED
      BY <2>4, <3>2, OwnerDeletes DEF At
  <2> QED
    BY <1>2, <2>1, <2>2, <2>3, <2>4 DEF Requests
<1> QED
  BY <1>1, <1>2, NothingComes DEF Lost
\* The owner finds what stat has found.
LEMMA OwnerFinds ==
    ASSUME NEW t, Owns(t), stack[t] # <<>>, bucket' = bucket,
           NEW entry, entry.path \in Key, Found(t, entry),
           op[t].name = "remove_dir_all" =>
               IF FileType(entry) = "Directory" THEN FileKey(Top(t).path) \notin bucket
               ELSE Trim(Top(t).path) # EmptyKey /\ DirKey(Top(t).path) \notin bucket
    PROVE  StillOwns'
<1>1. IsTree(bucket)
  BY OwnTop
<1>2. CASE IsStat(t)
  <2>1. op[t].name # "remove_dir_all" /\ \E result : Done(t, result)
    BY <1>2 DEF IsStat, Found, Answered
  <2> QED
    BY <1>1, <2>1, OwnerEnds
<1>3. CASE ~ IsStat(t)
  <2>1. PICK label \in {"list", "stat object"} :
            /\ Goto(t, label, entry.path, {})
            /\ label = "list" <=> FileType(entry) = "Directory"
    BY <1>3 DEF Found
  <2>2. WorkOk(bucket, op[t], [at |-> label, path |-> Top(t).path, entry |-> entry.path, rest |-> {}])
    BY <2>1 DEF WorkOk
  <2>3. label \in Labels /\ {} \in SUBSET Key
    BY <2>1 DEF Labels
  <2> QED
    BY <2>1, <2>2, <2>3, OwnerGoesOn
<1> QED
  BY <1>2, <1>3

LEMMA OwnerStatsFile ==
    ASSUME NEW t, Owns(t), StatFile(t)
    PROVE  StillOwns'
<1> DEFINE p == Top(t).path
<1>1. stack[t] # <<>> /\ Top(t).at = "stat file" /\ bucket' = bucket
  BY DEF StatFile, At
<1>2. p \in Key /\ bucket \in SUBSET Key /\ IsTree(bucket) /\ FsInv /\ FileKey(p) = Trim(p)
  BY <1>1, OwnTop, FileAndDirectory DEF Frame, Owns
<1>3. CASE FileKey(p) = EmptyKey /\ Found(t, Root)
  <2>1. FileKey(p) \notin bucket
    BY <1>2, <1>3 DEF IsTree, LeadsBack
  <2>2. Root.path \in Key /\ FileType(Root) = "Directory"
    BY EmptyIsKey DEF Root, FileType
  <2> QED
    BY <1>1, <1>3, <2>1, <2>2, OwnerFinds
<1>4. ASSUME FileKey(p) # EmptyKey, NEW k \in Stat(FileKey(p)), Found(t, S3Object(k))
      PROVE  StillOwns'
  <2>1. Trim(p) # EmptyKey /\ FileKey(p) # DirKey(p)
    BY <1>2, <1>4, PathsLeadBack
  <2>2. k \in bucket /\ k \in Key /\ Trim(k) = Trim(p) /\ ~ EndsWithSlash(k)
    BY <1>2, <1>4, <2>1, FoundIsThere DEF Stat
  <2>3. k = FileKey(p)
    BY <1>2, <2>2, BackIs DEF IsTree
  <2>4. DirKey(p) \notin bucket
    BY <1>2, <2>1, <2>2, <2>3, NotBoth
  <2>5. S3Object(k).path \in Key /\ FileType(S3Object(k)) # "Directory"
    BY <2>2, EntryOfKey DEF FileType
  <2> QED
    BY <1>1, <1>4, <2>1, <2>4, <2>5, OwnerFinds
<1>5. CASE Stat(FileKey(p)) = {} /\ Step(t, "stat directory")
  <2>1. FileKey(p) \notin bucket
    BY <1>2, <1>5, StatMissed, FileAndDirectory
  <2>2. WorkOk(bucket, op[t], [at |-> "stat directory", path |-> p, entry |-> Top(t).entry, rest |-> {}])
    BY <2>1 DEF WorkOk
  <2> QED
    BY <1>1, <1>5, <2>2, OwnerSteps DEF Labels
<1> QED
  BY <1>3, <1>4, <1>5 DEF StatFile

LEMMA OwnerStatsDirectory ==
    ASSUME NEW t, Owns(t), StatDirectory(t)
    PROVE  StillOwns'
<1> DEFINE p == Top(t).path
<1>1. stack[t] # <<>> /\ Top(t).at = "stat directory" /\ bucket' = bucket
  BY DEF StatDirectory, At
<1>2. /\ p \in Key /\ bucket \in SUBSET Key /\ IsTree(bucket) /\ FsInv /\ DirKey(p) \in Key
      /\ EntryOk(op[t], Top(t)) /\ WorkOk(bucket, op[t], Top(t))
  BY <1>1, OwnTop, FileAndDirectory DEF Frame, Owns
<1>3. Trim(p) # EmptyKey /\ (op[t].name = "remove_dir_all" => FileKey(p) \notin bucket)
  BY <1>1, <1>2 DEF EntryOk, WorkOk
<1>4. ASSUME NEW k \in Stat(DirKey(p)), Found(t, S3Object(k))
      PROVE  StillOwns'
  <2>1. k \in Key /\ EndsWithSlash(k)
    BY <1>2, <1>3, FoundIsThere DEF Stat
  <2>2. S3Object(k).path \in Key /\ FileType(S3Object(k)) = "Directory"
    BY <2>1, EntryOfKey DEF FileType
  <2> QED
    BY <1>1, <1>3, <1>4, <2>2, OwnerFinds
<1>5. CASE IsStat(t) /\ Answered(t, "NoSuchFileOrDirectory")
  <2>1. op[t].name # "remove_dir_all" /\ \E result : Done(t, result)
    BY <1>5 DEF IsStat, Answered
  <2> QED
    BY <1>1, <1>2, <2>1, OwnerEnds
<1>6. CASE Stat(DirKey(p)) = {} /\ Step(t, "look below")
  <2>1. DirKey(p) \notin bucket
    BY <1>2, <1>6, StatMissed
  <2>2. WorkOk(bucket, op[t], [at |-> "look below", path |-> p, entry |-> Top(t).entry, rest |-> {}])
    BY <1>3, <2>1 DEF WorkOk
  <2> QED
    BY <1>1, <1>6, <2>2, OwnerSteps DEF Labels
<1> QED
  BY <1>4, <1>5, <1>6 DEF StatDirectory

\* The owner lists a directory, creates one or finishes a file.
LEMMA OwnerLists ==
    ASSUME NEW t, Owns(t), List(t)
    PROVE  StillOwns'
<1> DEFINE e == Top(t).entry  children == Children(DirKey(e))
<1>1. stack[t] # <<>> /\ Top(t).at = "list" /\ bucket' = bucket
  BY DEF List, At
<1>2. /\ IsTree(bucket) /\ e \in Key /\ DirKey(e) \in Key /\ bucket \in SUBSET Key
      /\ WorkOk(bucket, op[t], Top(t))
  BY <1>1, OwnTop, FileAndDirectory DEF Frame
<1>3. CASE op[t].name = "list_dir" /\ Done(t, "Ok")
  BY <1>1, <1>2, <1>3, OwnerEnds
<1>4. CASE Goto(t, "children", e, children)
  <2>1. children \in SUBSET Key
    BY <1>2, QueriedHasPrefix DEF Children
  <2> HIDE DEF children
  <2>2. WorkOk(bucket, op[t], [at |-> "children", path |-> Top(t).path, entry |-> e, rest |-> children])
    BY <1>1, <1>2 DEF WorkOk
  <2> QED
    BY <1>1, <1>2, <1>4, <2>1, <2>2, OwnerGoesOn DEF Labels
<1> QED
  BY <1>3, <1>4 DEF List

LEMMA OwnerCreates ==
    ASSUME NEW t, Owns(t), StatNew(t) \/ PutMarker(t) \/ PutFile(t)
    PROVE  StillOwns'
<1>1. stack[t] # <<>> /\ Top(t).at \in {"stat new", "put marker", "put file"}
  BY DEF StatNew, PutMarker, PutFile, Put, At
<1>2. IsTree(bucket) /\ op[t].name \notin Removals
  BY <1>1, OwnTop DEF CallOk, LabelOk, Removals
<1>3. op[t].name # "remove_dir_all"
  BY <1>2 DEF Removals
<1>4. CASE bucket' = bucket /\ \E result : Done(t, result)
  BY <1>2, <1>3, <1>4, OwnerEnds
<1>5. CASE StatNew(t) /\ Step(t, "put marker")
  <2>1. WorkOk(bucket, op[t], [at |-> "put marker", path |-> Top(t).path,
                               entry |-> Top(t).entry, rest |-> {}])
    BY <1>3 DEF WorkOk
  <2> QED
    BY <1>1, <1>5, <2>1, OwnerSteps DEF Labels, StatNew, At
<1>6. ASSUME NEW key \in NextPut(t), key # EmptyKey, Done(t, "Ok"), bucket' = bucket \cup {key}
      PROVE  StillOwns'
  BY <1>3, <1>6, OwnerPuts, OwnerEnds
<1> QED
  BY <1>4, <1>5, <1>6 DEF StatNew, PutMarker, PutFile, Put, NextPut, At

\* The owner looks before it removes.
LEMMA OwnerLooks ==
    ASSUME NEW t, Owns(t), StatObject(t) \/ LookForChildren(t) \/ StatMarker(t) \/ LookBelow(t)
    PROVE  StillOwns'
<1> DEFINE p == Top(t).path  e == Top(t).entry
           Going(label) == [at |-> label, path |-> p, entry |-> e, rest |-> {}]
<1>1. /\ stack[t] # <<>> /\ bucket' = bucket
      /\ Top(t).at \in {"stat object", "look for children", "stat marker", "look below"}
  BY DEF StatObject, LookForChildren, StatMarker, LookBelow, At
<1>2. /\ IsTree(bucket) /\ bucket \in SUBSET Key /\ p \in Key /\ e \in Key
      /\ WorkOk(bucket, op[t], Top(t)) /\ EntryOk(op[t], Top(t)) /\ CallOk(op[t], Top(t))
  BY <1>1, OwnTop DEF Frame
<1>3. op[t].name \in Removals /\ Trim(e) = Trim(p) /\ DirKey(e) = DirKey(p)
  BY <1>1, <1>2, OwnTop DEF CallOk, LabelOk, DirKey, FromPath
<1>4. ASSUME NEW result, Done(t, result), result # "Ok" PROVE StillOwns'
  BY <1>1, <1>2, <1>4, OwnerEnds
<1>5. CASE StatObject(t) /\ Step(t, "delete object")
  <2>1. WorkOk(bucket, op[t], Going("delete object"))
    BY <1>2, <1>5 DEF WorkOk, StatObject, At
  <2> QED
    BY <1>1, <1>5, <2>1, OwnerSteps DEF Labels
<1>6. CASE Children(DirKey(e)) = {} /\ LookForChildren(t) /\ Step(t, "stat marker")
  <2>1. PageSize \in Nat /\ PageSize > 1
    BY FsAssumption DEF Owns, TidyOwner
  <2>2. IsEmptyDir(bucket, p)
    BY <1>2, <1>3, <1>6, <2>1, NoChildrenNothingBelow DEF Children, IsEmptyDir
  <2>3. WorkOk(bucket, op[t], Going("stat marker"))
    BY <1>2, <1>6, <2>2 DEF WorkOk, LookForChildren, At
  <2> QED
    BY <1>1, <1>6, <2>3, OwnerSteps DEF Labels
<1>7. CASE StatMarker(t)
  <2>1. Top(t).at = "stat marker"
    BY <1>7 DEF StatMarker, At
  <2>2. WorkOk(bucket, op[t], Going("delete marker")) /\ WorkOk(bucket, op[t], Going("look again"))
    BY <1>2, <2>1 DEF WorkOk
  <2>3. CASE Step(t, "delete marker")
    BY <1>1, <2>2, <2>3, OwnerSteps DEF Labels
  <2>4. CASE Step(t, "look again")
    BY <1>1, <2>2, <2>4, OwnerSteps DEF Labels
  <2> QED
    BY <1>4, <1>7, <2>3, <2>4 DEF StatMarker
<1>8. CASE LookBelow(t)
  <2>1. Trim(p) # EmptyKey /\ DirKey(p) \notin bucket /\ DirKey(p) \in Key
    BY <1>2, <1>8, FileAndDirectory DEF LookBelow, At, EntryOk, WorkOk
  <2>2. Below(p) = {}
    BY <1>2, <2>1, NoMarkerNothingBelow, QueriedHasPrefix DEF Below, Query
  <2> QED
    BY <1>4, <1>8, <2>2 DEF LookBelow
<1> QED
  BY <1>4, <1>5, <1>6, <1>7, <1>8 DEF StatObject, LookForChildren

\* A call that has removed what it found has left nothing.
LEMMA OwnerRemoves ==
    ASSUME NEW t, Owns(t), DeleteObject(t) \/ DeleteMarker(t) \/ LookAgain(t)
    PROVE  StillOwns'
<1> DEFINE p == Top(t).path  e == Top(t).entry
<1>1. stack[t] # <<>> /\ Top(t).at \in {"delete object", "delete marker", "look again"}
  BY DEF DeleteObject, DeleteMarker, LookAgain, At
<1>2. /\ IsTree(bucket) /\ bucket \in SUBSET Key /\ p \in Key /\ e \in Key
      /\ WorkOk(bucket, op[t], Top(t)) /\ CallOk(op[t], Top(t))
  BY <1>1, OwnTop DEF Frame
<1>3. op[t].name \in Removals /\ DirKey(e) = DirKey(p) /\ FileKey(e) = FileKey(p)
  BY <1>1, <1>2, OwnTop DEF CallOk, LabelOk, DirKey, FileKey, FromPath
<1>4. CASE DeleteObject(t)
  <2>1. Top(t).at = "delete object" /\ bucket' = bucket \ {FileKey(e)} /\ Return(t)
    BY <1>4 DEF DeleteObject, Delete, At
  <2>2. op[t].name = "remove_dir_all" => Trim(p) # EmptyKey /\ DirKey(p) \notin bucket
    BY <1>2, <2>1 DEF WorkOk
  <2>3. op[t].name = "remove_dir_all" => \A k \in bucket' : ~ Covers(p, k)
    BY <1>2, <1>3, <2>1, <2>2, NoMarkerNothingBelow DEF Covers
  <2> QED
    BY <1>1, <1>3, <2>1, <2>3, OwnerDeletes, OwnerReturns
<1>5. CASE DeleteMarker(t)
  <2>1. Top(t).at = "delete marker" /\ bucket' = bucket \ {DirKey(e)} /\ Return(t)
    BY <1>5 DEF DeleteMarker, Delete, At
  <2>2. /\ \A k \in bucket : HasPrefix(k, DirKey(p)) => k = DirKey(p)
        /\ op[t].name = "remove_dir_all" => FileKey(p) \notin bucket
    BY <1>2, <2>1 DEF WorkOk, IsEmptyDir
  <2>3. op[t].name = "remove_dir_all" => \A k \in bucket' : ~ Covers(p, k)
    BY <1>3, <2>1, <2>2 DEF Covers
  <2> QED
    BY <1>1, <1>3, <2>1, <2>3, OwnerDeletes, OwnerReturns
<1>6. CASE LookAgain(t)
  <2>1. Top(t).at = "look again" /\ bucket' = bucket
    BY <1>6 DEF LookAgain, At
  <2>2. op[t].name = "remove_dir_all" => FileKey(p) \notin bucket
    BY <1>2, <2>1 DEF WorkOk
  <2>3. CASE Query(DirKey(p)) = {} /\ Return(t)
    <3>1. \A k \in bucket : ~ HasPrefix(k, DirKey(p))
      BY <1>2, <2>3, EmptyListing, FileAndDirectory, FsAssumption DEF IsTree, Query
    <3>2. op[t].name = "remove_dir_all" => \A k \in bucket' : ~ Covers(p, k)
      BY <2>1, <2>2, <3>1 DEF Covers
    <3> QED
      BY <1>1, <1>2, <1>3, <2>1, <2>3, <3>2, OwnerReturns
  <2>4. CASE Done(t, "NoSuchFileOrDirectory")
    BY <1>2, <2>1, <2>4, OwnerEnds
  <2> QED
    BY <1>6, <2>3, <2>4 DEF LookAgain
<1> QED
  BY <1>4, <1>5, <1>6

\* A request of the owner ends in an error, or nobody waits for its answer.
LEMMA OwnerFails ==
    ASSUME NEW t, Owns(t), Fails(t) \/ Cancel(t)
    PROVE  StillOwns'
<1>1. stack[t] # <<>> /\ Lost(t)
  BY DEF Fails, Cancel
<1>2. IsTree(bucket') /\ (At(t, "stat new") => bucket' = bucket)
  BY <1>1, LostLeavesTree
<1>3. CASE Done(t, "Failed") \/ Done(t, "cancelled")
  BY <1>2, <1>3, OwnerEnds
<1>4. CASE At(t, "stat new") /\ Step(t, "put marker")
  <2>1. op[t].name # "remove_dir_all" /\ Top(t).at = "stat new"
    BY <1>1, <1>4, OwnTop DEF At, CallOk, LabelOk, Removals
  <2>2. WorkOk(bucket, op[t], [at |-> "put marker", path |-> Top(t).path,
                               entry |-> Top(t).entry, rest |-> {}])
    BY <2>1 DEF WorkOk
  <2> QED
    BY <1>1, <1>2, <1>4, <2>1, <2>2, OwnerSteps DEF Labels
<1> QED
  BY <1>3, <1>4 DEF Fails, Cancel

\* The invariant holds at first, and every step keeps it.
LEMMA OwnerInvInitially == TidyOwner /\ Init => OwnerInv
<1> SUFFICES ASSUME TidyOwner, Init PROVE OwnerInv
  OBVIOUS
<1>1. 1 .. Len(<<>>) = {}
  BY SMT
<1>2. IsTree(bucket) /\ late = {}
  BY DEF Init, TidyOwner
<1>3. \A t \in Tasks : stack[t] = <<>> /\ answer[t] = "none"
  BY DEF Init
<1>4. RemoveAllLeavesNothing /\ NextPutInv
  BY <1>3 DEF RemoveAllLeavesNothing, NextPutInv, NextPut, At
<1>5. WorkInv
  BY <1>1, <1>3 DEF WorkInv
<1> QED
  BY <1>2, <1>4, <1>5 DEF OwnerInv

LEMMA OwnerInvStays ==
    TidyOwner /\ FsInv /\ NestInv /\ FreshInv /\ OwnerInv /\ [Next]_vars => OwnerInv'
<1> SUFFICES ASSUME TidyOwner, FsInv, NestInv, FreshInv, OwnerInv, [Next]_vars PROVE OwnerInv'
  OBVIOUS
<1>1. PICK t : Tasks = {t}
  BY DEF TidyOwner
<1>2. Owns(t)
  BY <1>1 DEF Owns
<1>3. CASE UNCHANGED vars
  BY <1>3 DEF vars, fs, OwnerInv, RemoveAllLeavesNothing, WorkInv, NextPutInv, NextPut, MayPut, At, Top
<1>4. CASE Next
  <2>1. BeginAny(t) \/ Work(t) \/ Fails(t) \/ Cancel(t)
    BY <1>1, <1>2, <1>4, NothingComes DEF Next, Resend
  <2>2. late' = late
    BY <1>2, <2>1, NothingComes DEF BeginAny, Begin, Work, Fails, Cancel, Lost
  <2>3. StillOwns'
    <3>1. CASE BeginAny(t)
      BY <1>2, <3>1, OwnerBegins, BeginsAJob
    <3>2. CASE Fails(t) \/ Cancel(t)
      BY <1>2, <3>2, OwnerFails
    <3>3. ~ DeleteBelow(t)
      BY <1>2, OwnerDeletes DEF DeleteBelow, At
    <3> QED
      BY <1>2, <2>1, <3>1, <3>2, <3>3, OwnerStatsFile, OwnerStatsDirectory, OwnerLists, OwnerCreates,
         OwnerCalls, OwnerLooks, OwnerRemoves DEF Work
  <2> QED
    BY <2>2, <2>3 DEF OwnerInv, StillOwns
<1> QED
  BY <1>3, <1>4

\* The bucket of an owner that is tidy and alone with it stays a tree at every
\* moment of every operation, and what remove_dir_all has found out stays true
\* until it acts (client.rs 398-495).
THEOREM OwnerKeepsTree == TidyOwner => (Spec => []OwnerInv)
<1> SUFFICES ASSUME TidyOwner PROVE Spec => []OwnerInv
  OBVIOUS
<1> QED
  BY FsInvInitially, FsInvStays, KeysInvInitially, KeysInvStays, NestInvInitially, NestInvStays,
     FreshInvInitially, FreshInvStays, OwnerInvInitially, OwnerInvStays, PTL DEF Spec

\* An owner that is tidy and alone with its bucket has no object outside of a
\* directory, at any moment of any operation, also if its future is dropped or
\* a request of it fails, whatever the tree and the page size: remove_dir_all
\* deletes from the bottom up, and a page that begins with the marker of a
\* directory still shows a child (client.rs 432-468).
THEOREM NothingIsOrphaned == TidyOwner => (Spec => []NoOrphans)
<1> SUFFICES ASSUME TidyOwner PROVE Spec => []NoOrphans
  OBVIOUS
<1>1. OwnerInv => NoOrphans
  BY DEF OwnerInv, IsTree, NoOrphans
<1> QED
  BY OwnerKeepsTree, <1>1, PTL

\* For such an owner, remove_dir_all that has returned Ok has left nothing at
\* or below its path (the test should_remove_dir_all, client.rs 1165-1167).
THEOREM RemoveAllIsThorough == TidyOwner => (Spec => []RemoveAllLeavesNothing)
<1> SUFFICES ASSUME TidyOwner PROVE Spec => []RemoveAllLeavesNothing
  OBVIOUS
<1>1. OwnerInv => RemoveAllLeavesNothing
  BY DEF OwnerInv
<1> QED
  BY OwnerKeepsTree, <1>1, PTL
=============================================================================
