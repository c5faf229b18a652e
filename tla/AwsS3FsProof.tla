---------------------------- MODULE AwsS3FsProof ----------------------------
(***************************************************************************)
(* The namespace operations for any number of tasks on any bucket: what a  *)
(* removal may delete, and what stat and create_dir see of other tasks.    *)
(***************************************************************************)
EXTENDS AwsS3FsInv, S3KeyProof

-----------------------------------------------------------------------------
(* Stacks.                                                                 *)

\* A stack without its innermost call.
LEMMA DropLast ==
    ASSUME NEW S, NEW s \in Seq(S), s # <<>>
    PROVE  /\ Front(s) \in Seq(S)
           /\ Len(Front(s)) = Len(s) - 1
           /\ \A i \in 1 .. Len(s) - 1 : Front(s)[i] = s[i]
           /\ Front(s) # s
<1> DEFINE n == Len(s) - 1
<1>1. /\ Len(s) \in Nat /\ Len(s) > 0 /\ \A i \in 1 .. Len(s) : s[i] \in S
      /\ n \in Nat /\ n = Len(s) - 1
  BY EmptySeq, ElementOfSeq
<1> HIDE DEF n
<1>2. 1 \in Int /\ n \in Int /\ \A i \in 1 .. n : s[i] \in S
  BY <1>1
<1>3. /\ SubSeq(s, 1, n) \in Seq(S)
      /\ Len(SubSeq(s, 1, n)) = (IF 1 <= n THEN n - 1 + 1 ELSE 0)
      /\ \A i \in 1 .. n - 1 + 1 : SubSeq(s, 1, n)[i] = s[1 + i - 1]
  BY <1>2, SubSeqProperties
<1>4. n - 1 + 1 = n /\ \A i \in 1 .. n : 1 + i - 1 = i
  BY <1>1
<1>5. Len(SubSeq(s, 1, n)) = n /\ \A i \in 1 .. n : SubSeq(s, 1, n)[i] = s[i]
  BY <1>1, <1>3, <1>4
<1>6. Len(SubSeq(s, 1, n)) # Len(s)
  BY <1>1, <1>5
<1> QED
  BY <1>1, <1>3, <1>5, <1>6 DEF Front

\* A stack whose innermost call goes on.
LEMMA ReplaceLast ==
    ASSUME NEW S, NEW s \in Seq(S), s # <<>>, NEW f \in S
    PROVE  /\ Append(Front(s), f) \in Seq(S)
           /\ Len(Append(Front(s), f)) = Len(s)
           /\ \A i \in 1 .. Len(s) : Append(Front(s), f)[i] = (IF i = Len(s) THEN f ELSE s[i])
           /\ Append(Front(s), f) # <<>> /\ Last(Append(Front(s), f)) = f
<1>1. Len(s) \in Nat /\ Len(s) > 0
  BY EmptySeq
<1>2. Front(s) \in Seq(S) /\ Len(Front(s)) = Len(s) - 1
      /\ \A i \in 1 .. Len(s) - 1 : Front(s)[i] = s[i]
  BY DropLast
<1>3. /\ Append(Front(s), f) \in Seq(S)
      /\ Append(Front(s), f) # <<>>
      /\ Len(Append(Front(s), f)) = Len(Front(s)) + 1
      /\ \A i \in 1 .. Len(Front(s)) : Append(Front(s), f)[i] = Front(s)[i]
      /\ Append(Front(s), f)[Len(Front(s)) + 1] = f
  BY <1>2, AppendProperties
<1> QED
  BY <1>1, <1>2, <1>3 DEF Last

\* The innermost call of a task.
LEMMA TopFacts ==
    ASSUME FsInv, NEW t \in Tasks, stack[t] # <<>>
    PROVE  /\ stack[t] \in Seq(Frame) /\ Len(stack[t]) \in 1 .. Len(stack[t])
           /\ Top(t) \in Frame
           /\ CallOk(op[t], Top(t))
           /\ op[t].path \in Key
<1>1. stack[t] \in Seq(Frame) /\ op[t].path \in Key
  BY DEF FsInv, TypeOK, Frame, Operation
<1>2. Len(stack[t]) \in 1 .. Len(stack[t])
  BY <1>1, EmptySeq
<1> QED
  BY <1>1, <1>2, ElementOfSeq DEF Top, Last, FsInv, CallsInv

-----------------------------------------------------------------------------
(* How the stack of a task changes.                                        *)

\* The facts of the state but for the history.
NowTyped ==
    /\ bucket \subseteq Key
    /\ op \in [Tasks -> Operation]
    /\ stack \in [Tasks -> Seq(Frame)]
    /\ answer \in [Tasks -> Answers]

NowInv == NowTyped /\ CallsInv

\* The stack of task t becomes a stack of good calls.
LEMMA StackChanges ==
    ASSUME FsInv, NEW t \in Tasks, bucket' \subseteq Key, op' = op, answer' \in [Tasks -> Answers],
           NEW s \in Seq(Frame), stack' = [stack EXCEPT ![t] = s],
           \A i \in 1 .. Len(s) : CallOk(op[t], s[i])
    PROVE  NowInv'
<1>1. NowTyped'
  BY DEF FsInv, TypeOK, NowTyped, Frame
<1>2. ASSUME NEW u \in Tasks, NEW i \in 1 .. Len(stack'[u])
      PROVE  CallOk(op'[u], stack'[u][i])
  <2>1. CASE u = t
    BY <2>1 DEF FsInv, TypeOK
  <2>2. CASE u # t
    BY <2>2 DEF FsInv, TypeOK, CallsInv
  <2> QED
    BY <2>1, <2>2
<1>3. CallsInv'
  BY <1>2 DEF CallsInv, CallOk, LabelOk, Covers
<1> QED
  BY <1>1, <1>3 DEF NowInv

\* The innermost call goes on at a request of its operation.
LEMMA GotoKeeps ==
    ASSUME FsInv, NEW t \in Tasks, stack[t] # <<>>, bucket' \subseteq Key,
           NEW label \in Labels, NEW entry \in Key, NEW rest \in SUBSET Key,
           Goto(t, label, entry, rest),
           LabelOk(op[t].name, label),
           op[t].name \in Removals =>
               /\ Covers(op[t].path, Trim(entry))
               /\ \A k \in rest : Covers(op[t].path, Trim(k))
    PROVE  NowInv'
<1> DEFINE f == [Top(t) EXCEPT !.at = label, !.entry = entry, !.rest = rest]
           s == Append(Front(stack[t]), f)
<1>1. stack[t] \in Seq(Frame) /\ Top(t) \in Frame /\ CallOk(op[t], Top(t))
  BY TopFacts
<1>2. f \in Frame /\ f.at = label /\ f.path = Top(t).path /\ f.entry = entry /\ f.rest = rest
  BY <1>1 DEF Frame
<1>3. CallOk(op[t], f)
  BY <1>1, <1>2 DEF CallOk
<1>4. stack' = [stack EXCEPT ![t] = s] /\ op' = op /\ answer' = answer
  BY DEF Goto
<1> HIDE DEF f
<1>5. s \in Seq(Frame) /\ Len(s) = Len(stack[t])
      /\ \A i \in 1 .. Len(s) : s[i] = (IF i = Len(stack[t]) THEN f ELSE stack[t][i])
  BY <1>1, <1>2, ReplaceLast
<1> HIDE DEF s
<1>6. \A i \in 1 .. Len(s) : CallOk(op[t], s[i])
  BY <1>3, <1>5 DEF FsInv, CallsInv
<1>7. answer' \in [Tasks -> Answers]
  BY <1>4 DEF FsInv, TypeOK
<1> QED
  BY <1>4, <1>5, <1>6, <1>7, StackChanges

\* The operation ends.
LEMMA DoneKeeps ==
    ASSUME FsInv, NEW t \in Tasks, bucket' \subseteq Key, NEW result \in Answers, Done(t, result)
    PROVE  NowInv'
<1>1. <<>> \in Seq(Frame) /\ Len(<<>>) = 0
  BY EmptySeq
<1>2. \A i \in 1 .. Len(<<>>) : CallOk(op[t], <<>>[i])
  BY <1>1
<1>3. op' = op /\ answer' \in [Tasks -> Answers] /\ stack' = [stack EXCEPT ![t] = <<>>]
  BY DEF Done, FsInv, TypeOK
<1> QED
  BY <1>1, <1>2, <1>3, StackChanges

\* The innermost call returns.
LEMMA ReturnKeeps ==
    ASSUME FsInv, NEW t \in Tasks, stack[t] # <<>>, bucket' \subseteq Key, Return(t)
    PROVE  NowInv'
<1>1. CASE Done(t, "Ok")
  BY <1>1, DoneKeeps DEF Answers
<1>2. CASE stack' = [stack EXCEPT ![t] = Front(@)] /\ UNCHANGED <<op, answer>>
  <2>1. stack[t] \in Seq(Frame) /\ Len(stack[t]) \in Nat
    BY TopFacts, EmptySeq
  <2>2. /\ Front(stack[t]) \in Seq(Frame)
        /\ Len(Front(stack[t])) = Len(stack[t]) - 1
        /\ \A i \in 1 .. Len(stack[t]) - 1 : Front(stack[t])[i] = stack[t][i]
    BY <2>1, DropLast
  <2>3. \A i \in 1 .. Len(Front(stack[t])) : CallOk(op[t], Front(stack[t])[i])
    BY <2>1, <2>2 DEF FsInv, CallsInv
  <2>4. stack' = [stack EXCEPT ![t] = Front(stack[t])]
    BY <1>2
  <2>5. answer' \in [Tasks -> Answers]
    BY <1>2 DEF FsInv, TypeOK
  <2> QED
    BY <1>2, <2>2, <2>3, <2>4, <2>5, StackChanges
<1> QED
  BY <1>1, <1>2 DEF Return

-----------------------------------------------------------------------------
(* What a removal works on.                                                *)

\* What is listed below a directory that the path covers is covered.
LEMMA BelowIsCovered ==
    ASSUME NEW p \in Key, NEW e \in Key, Covers(p, Trim(e)), NEW k \in Key, HasPrefix(k, DirKey(e))
    PROVE  Covers(p, Trim(k))
BY ListedIsCovered, CoversMore, TrimIsBare

\* So is the key made again of the path and the kind of an object.
LEMMA AgainIsCovered ==
    ASSUME NEW p \in Key, NEW k \in Key, Covers(p, Trim(k))
    PROVE  KeyAgain(k) \in Key /\ Covers(p, KeyAgain(k))
<1> DEFINE e == TrimEnd(k)
<1>1. e \in Key /\ Covers(p, Trim(e))
  BY TrimEndIsKey, TrimOfTrimEnd
<1>2. KeyAgain(k) \in {FileKey(e), DirKey(e)}
  BY DEF KeyAgain, FileKey, DirKey, FromPath, S3Object, ToPath
<1>3. Covers(e, KeyAgain(k)) /\ KeyAgain(k) \in Key
  BY <1>1, <1>2, CoversOwn, FileAndDirectory
<1> QED
  BY <1>1, <1>3, CoversMore

\* What the innermost call of a removal deletes next is covered.
LEMMA RemovalFacts ==
    ASSUME FsInv, NEW t \in Tasks, stack[t] # <<>>, op[t].name \in Removals
    PROVE  /\ Covers(op[t].path, FileKey(Top(t).entry))
           /\ Covers(op[t].path, DirKey(Top(t).entry))
           /\ \A k \in Top(t).rest : Covers(op[t].path, KeyAgain(k))
<1>1. /\ op[t].path \in Key /\ Top(t).entry \in Key /\ Top(t).rest \subseteq Key
      /\ Covers(op[t].path, Trim(Top(t).entry))
      /\ \A k \in Top(t).rest : Covers(op[t].path, Trim(k))
  BY TopFacts DEF CallOk, Frame
<1>2. /\ Covers(Top(t).entry, FileKey(Top(t).entry)) /\ FileKey(Top(t).entry) \in Key
      /\ Covers(Top(t).entry, DirKey(Top(t).entry)) /\ DirKey(Top(t).entry) \in Key
  BY <1>1, CoversOwn, FileAndDirectory
<1>3. \A k \in Top(t).rest : Covers(op[t].path, KeyAgain(k))
  BY <1>1, AgainIsCovered
<1> QED
  BY <1>1, <1>2, <1>3, CoversMore

\* A request of a task that deletes is one of a removal that covers the key.
LEMMA RequestsAreCovered ==
    ASSUME FsInv, NEW t \in Tasks, stack[t] # <<>>, NEW r \in Requests(t)
    PROVE  /\ r \in [puts : BOOLEAN, key : Key, by : Operation]
           /\ r.by = op[t]
           /\ ~ r.puts => r.by.name \in Removals /\ Covers(r.by.path, r.key)
<1>1. /\ Top(t) \in Frame /\ LabelOk(op[t].name, Top(t).at) /\ op[t] \in Operation
  BY TopFacts DEF CallOk, FsInv, TypeOK
<1>2. Top(t).path \in Key /\ Top(t).entry \in Key /\ Top(t).rest \subseteq Key
  BY <1>1 DEF Frame
<1>3. DirKey(Top(t).path) \in Key /\ FileKey(Top(t).path) \in Key
  BY <1>2, FileAndDirectory
<1>4. CASE Top(t).at \in {"put marker", "put file"}
  <2>1. PICK key \in {DirKey(Top(t).path), FileKey(Top(t).path)} :
            r = [puts |-> TRUE, key |-> key, by |-> op[t]]
    BY <1>4 DEF Requests, At
  <2> QED
    BY <1>1, <1>3, <2>1
<1>5. CASE Top(t).at \in {"delete marker", "delete object", "delete below"}
  <2>1. op[t].name \in Removals
    BY <1>1, <1>5 DEF LabelOk
  <2>2. PICK key \in {DirKey(Top(t).entry), FileKey(Top(t).entry)} \cup {KeyAgain(k) : k \in Top(t).rest} :
            r = [puts |-> FALSE, key |-> key, by |-> op[t]]
    BY <1>5 DEF Requests, At
  <2>3. key \in Key /\ Covers(op[t].path, key)
    <3>1. \A k \in Top(t).rest : KeyAgain(k) \in Key
      BY <1>2, TrimEndIsKey, FileAndDirectory DEF KeyAgain, S3Object, ToPath, FileKey, DirKey, FromPath
    <3> QED
      BY <1>2, <2>1, <3>1, FileAndDirectory, RemovalFacts
  <2> QED
    BY <1>1, <2>1, <2>2, <2>3
<1>6. CASE Top(t).at \notin {"put marker", "put file", "delete marker", "delete object", "delete below"}
  BY <1>6 DEF Requests, At
<1> QED
  BY <1>4, <1>5, <1>6

\* So is one that may come late.
LEMMA LateGrows ==
    ASSUME FsInv, NEW t \in Tasks, stack[t] # <<>>, NEW r \in Requests(t), MayCome(r)
    PROVE  /\ late' \subseteq [puts : BOOLEAN, key : Key, by : Operation]
           /\ LateInv'
<1>1. late' = late \cup {r} /\ late \subseteq [puts : BOOLEAN, key : Key, by : Operation] /\ LateInv
  BY DEF MayCome, FsInv, TypeOK
<1>2. /\ r \in [puts : BOOLEAN, key : Key, by : Operation]
      /\ ~ r.puts => r.by.name \in Removals /\ Covers(r.by.path, r.key)
  BY RequestsAreCovered
<1>3. \A q \in late' : ~ q.puts => q.by.name \in Removals /\ Covers(q.by.path, q.key)
  BY <1>1, <1>2 DEF LateInv
<1> QED
  BY <1>1, <1>2, <1>3 DEF LateInv, Covers

\* What S3 executes is covered, and leaves keys in the bucket.
LEMMA ExecutedIsCovered ==
    ASSUME bucket \subseteq Key, NEW r \in [puts : BOOLEAN, key : Key, by : Operation], Execute(r)
    PROVE  bucket' \subseteq Key /\ \A k \in bucket \ bucket' : ~ r.puts /\ r.key = k
BY DEF Execute

\* stat has found an entry at or below the path of the operation.
LEMMA FoundKeeps ==
    ASSUME FsInv, NEW t \in Tasks, stack[t] # <<>>,
           Top(t).at \in {"stat file", "stat directory"}, bucket' \subseteq Key,
           NEW entry, entry.path \in Key, entry.is_dir \in BOOLEAN,
           op[t].name \in Removals => Covers(op[t].path, Trim(entry.path)),
           Found(t, entry)
    PROVE  NowInv'
<1>1. LabelOk(op[t].name, Top(t).at)
  BY TopFacts DEF CallOk
<1>2. CASE IsStat(t)
  <2>1. \E result \in Answers : Done(t, result)
    BY <1>2 DEF Found, Answered, FileType, Answers
  <2> QED
    BY <2>1, DoneKeeps
<1>3. CASE ~ IsStat(t)
  <2>1. op[t].name \in Removals
    BY <1>1, <1>3 DEF LabelOk, IsStat
  <2>2. PICK label \in {"list", "stat object"} : Goto(t, label, entry.path, {})
    BY <1>3 DEF Found
  <2>3. label \in Labels /\ LabelOk(op[t].name, label)
    BY <2>1, <2>2 DEF Labels, LabelOk
  <2>4. PICK path \in Key : path = entry.path
    OBVIOUS
  <2>5. {} \in SUBSET Key /\ \A k \in {} : Covers(op[t].path, Trim(k))
    OBVIOUS
  <2>6. Goto(t, label, path, {}) /\ Covers(op[t].path, Trim(path))
    BY <2>1, <2>2, <2>4
  <2> QED
    BY <2>3, <2>5, <2>6, GotoKeeps
<1> QED
  BY <1>2, <1>3

\* The call goes on at another request with the entry it has.
LEMMA StepKeeps ==
    ASSUME FsInv, NEW t \in Tasks, stack[t] # <<>>, bucket' \subseteq Key,
           NEW label \in Labels, LabelOk(op[t].name, label), Step(t, label)
    PROVE  NowInv'
<1>1. Top(t).entry \in Key /\ (op[t].name \in Removals => Covers(op[t].path, Trim(Top(t).entry)))
  BY TopFacts DEF CallOk, Frame
<1> QED
  BY <1>1, GotoKeeps DEF Step

-----------------------------------------------------------------------------
(* One lemma for each action.                                              *)

LEMMA StatFileKeeps ==
    ASSUME FsInv, NEW t \in Tasks, StatFile(t)
    PROVE  NowInv'
<1> DEFINE key == FileKey(Top(t).path)
<1>1. stack[t] # <<>> /\ Top(t).at = "stat file" /\ bucket' = bucket
  BY DEF StatFile, At
<1>2. /\ bucket \subseteq Key /\ Top(t).path \in Key /\ op[t].path \in Key
      /\ LabelOk(op[t].name, "stat file")
      /\ op[t].name \in Removals => Covers(op[t].path, Trim(Top(t).path))
  BY <1>1, TopFacts DEF CallOk, Frame, FsInv, TypeOK
<1>3. CASE key = EmptyKey /\ Found(t, Root)
  <2>1. Trim(Top(t).path) = EmptyKey
    BY <1>2, <1>3, FileAndDirectory
  <2>2. Root.path = EmptyKey /\ Root.path \in Key /\ Root.is_dir \in BOOLEAN /\ Trim(Root.path) = EmptyKey
    BY EmptyIsKey, BareIsTrimmed DEF Root, Bare
  <2> QED
    BY <1>1, <1>2, <1>3, <2>1, <2>2, FoundKeeps
<1>4. CASE \E k \in Stat(key) : Found(t, S3Object(k))
  <2>1. PICK k \in Stat(key) : Found(t, S3Object(k))
    BY <1>4
  <2>2. k \in Key /\ Covers(Top(t).path, Trim(k))
    BY <1>2, <2>1, FoundIsCovered DEF Stat
  <2>3. S3Object(k).path \in Key /\ Trim(S3Object(k).path) = Trim(k) /\ S3Object(k).is_dir \in BOOLEAN
    BY <2>2, TrimEndIsKey, TrimOfTrimEnd DEF S3Object, ToPath, EndsWithSlash
  <2>4. op[t].name \in Removals => Covers(op[t].path, Trim(k))
    BY <1>2, <2>2, CoversMore, TrimIsBare
  <2> QED
    BY <1>1, <1>2, <2>1, <2>3, <2>4, FoundKeeps
<1>5. CASE Step(t, "stat directory")
  <2>1. LabelOk(op[t].name, "stat directory") /\ "stat directory" \in Labels
    BY <1>2 DEF LabelOk, Labels
  <2> QED
    BY <1>1, <1>2, <1>5, <2>1, StepKeeps
<1> QED
  BY <1>3, <1>4, <1>5 DEF StatFile

LEMMA StatDirectoryKeeps ==
    ASSUME FsInv, NEW t \in Tasks, StatDirectory(t)
    PROVE  NowInv'
<1> DEFINE key == DirKey(Top(t).path)
<1>1. stack[t] # <<>> /\ Top(t).at = "stat directory" /\ bucket' = bucket
  BY DEF StatDirectory, At
<1>2. /\ bucket \subseteq Key /\ Top(t).path \in Key /\ op[t].path \in Key
      /\ LabelOk(op[t].name, "stat directory")
      /\ op[t].name \in Removals => Covers(op[t].path, Trim(Top(t).path))
  BY <1>1, TopFacts DEF CallOk, Frame, FsInv, TypeOK
<1>3. CASE \E k \in Stat(key) : Found(t, S3Object(k))
  <2>1. PICK k \in Stat(key) : Found(t, S3Object(k))
    BY <1>3
  <2>2. k \in Key /\ Covers(Top(t).path, Trim(k))
    BY <1>2, <2>1, FoundIsCovered DEF Stat
  <2>3. S3Object(k).path \in Key /\ Trim(S3Object(k).path) = Trim(k) /\ S3Object(k).is_dir \in BOOLEAN
    BY <2>2, TrimEndIsKey, TrimOfTrimEnd DEF S3Object, ToPath, EndsWithSlash
  <2>4. op[t].name \in Removals => Covers(op[t].path, Trim(k))
    BY <1>2, <2>2, CoversMore, TrimIsBare
  <2> QED
    BY <1>1, <1>2, <2>1, <2>3, <2>4, FoundKeeps
<1>4. CASE IsStat(t) /\ Answered(t, "NoSuchFileOrDirectory")
  <2>1. \E result \in Answers : Done(t, result)
    BY <1>4 DEF Answered, Answers
  <2> QED
    BY <1>1, <1>2, <2>1, DoneKeeps
<1>5. CASE ~ IsStat(t) /\ Step(t, "look below")
  <2>1. LabelOk(op[t].name, "look below") /\ "look below" \in Labels
    BY <1>2, <1>5 DEF LabelOk, Labels, IsStat
  <2> QED
    BY <1>1, <1>2, <1>5, <2>1, StepKeeps
<1> QED
  BY <1>3, <1>4, <1>5 DEF StatDirectory

LEMMA ListKeeps ==
    ASSUME FsInv, NEW t \in Tasks, List(t)
    PROVE  NowInv'
<1> DEFINE e == Top(t).entry  children == Children(DirKey(e))
<1>1. stack[t] # <<>> /\ Top(t).at = "list" /\ bucket' = bucket
  BY DEF List, At
<1>2. /\ bucket \subseteq Key /\ e \in Key /\ op[t].path \in Key
      /\ LabelOk(op[t].name, "list")
      /\ op[t].name \in Removals => Covers(op[t].path, Trim(e))
  BY <1>1, TopFacts DEF CallOk, Frame, FsInv, TypeOK
<1>3. CASE Done(t, "Ok")
  BY <1>1, <1>2, <1>3, DoneKeeps DEF Answers
<1>4. CASE op[t].name # "list_dir" /\ Goto(t, "children", e, children)
  <2>1. op[t].name \in Removals /\ LabelOk(op[t].name, "children") /\ "children" \in Labels
    BY <1>2, <1>4 DEF LabelOk, Labels
  <2>2. \A k \in children : k \in Key /\ HasPrefix(k, DirKey(e))
    BY <1>2, FileAndDirectory, QueriedHasPrefix DEF Children
  <2> HIDE DEF e, children
  <2>3. \A k \in children : Covers(op[t].path, Trim(k))
    BY <1>2, <2>1, <2>2, BelowIsCovered
  <2>4. children \in SUBSET Key
    BY <2>2
  <2> QED
    BY <1>1, <1>2, <1>4, <2>1, <2>3, <2>4, GotoKeeps
<1> QED
  BY <1>3, <1>4 DEF List

LEMMA StatNewKeeps ==
    ASSUME FsInv, NEW t \in Tasks, StatNew(t)
    PROVE  NowInv'
<1>1. stack[t] # <<>> /\ Top(t).at = "stat new" /\ bucket' = bucket /\ bucket \subseteq Key
  BY DEF StatNew, At, FsInv, TypeOK
<1>2. LabelOk(op[t].name, "put marker") /\ "put marker" \in Labels
  BY <1>1, TopFacts DEF CallOk, LabelOk, Labels
<1>3. CASE Done(t, "AlreadyExists")
  BY <1>1, <1>3, DoneKeeps DEF Answers
<1>4. CASE Step(t, "put marker")
  BY <1>1, <1>2, <1>4, StepKeeps
<1> QED
  BY <1>3, <1>4 DEF StatNew

LEMMA PutKeeps ==
    ASSUME FsInv, NEW t \in Tasks, PutMarker(t) \/ PutFile(t)
    PROVE  NowInv'
<1>1. stack[t] # <<>>
  BY DEF PutMarker, PutFile, Put, At
<1>2. Top(t).path \in Key /\ bucket \subseteq Key
  BY <1>1, TopFacts DEF Frame, FsInv, TypeOK
<1>3. DirKey(Top(t).path) \in Key /\ FileKey(Top(t).path) \in Key
  BY <1>2, FileAndDirectory
<1>4. bucket' \subseteq Key
  BY <1>2, <1>3 DEF PutMarker, PutFile, Put
<1>5. \E result \in Answers : Done(t, result)
  BY DEF PutMarker, PutFile, Put, Answers
<1> QED
  BY <1>4, <1>5, DoneKeeps

LEMMA DeletesKeep ==
    ASSUME FsInv, NEW t \in Tasks, DeleteObject(t) \/ DeleteMarker(t)
    PROVE  NowInv'
<1>1. stack[t] # <<>> /\ bucket \subseteq Key /\ bucket' \subseteq bucket /\ Return(t)
  BY DEF DeleteObject, DeleteMarker, Delete, At, FsInv, TypeOK
<1> QED
  BY <1>1, ReturnKeeps

LEMMA StatObjectKeeps ==
    ASSUME FsInv, NEW t \in Tasks, StatObject(t)
    PROVE  NowInv'
<1>1. stack[t] # <<>> /\ Top(t).at = "stat object" /\ bucket' = bucket /\ bucket \subseteq Key
  BY DEF StatObject, At, FsInv, TypeOK
<1>2. LabelOk(op[t].name, "delete object") /\ "delete object" \in Labels
  BY <1>1, TopFacts DEF CallOk, LabelOk, Labels
<1>3. CASE Done(t, "NoSuchFileOrDirectory")
  BY <1>1, <1>3, DoneKeeps DEF Answers
<1>4. CASE Step(t, "delete object")
  BY <1>1, <1>2, <1>4, StepKeeps
<1> QED
  BY <1>3, <1>4 DEF StatObject

LEMMA LookForChildrenKeeps ==
    ASSUME FsInv, NEW t \in Tasks, LookForChildren(t)
    PROVE  NowInv'
<1>1. stack[t] # <<>> /\ Top(t).at = "look for children" /\ bucket' = bucket /\ bucket \subseteq Key
  BY DEF LookForChildren, At, FsInv, TypeOK
<1>2. LabelOk(op[t].name, "stat marker") /\ "stat marker" \in Labels
  BY <1>1, TopFacts DEF CallOk, LabelOk, Labels
<1>3. CASE Done(t, "DirectoryNotEmpty")
  BY <1>1, <1>3, DoneKeeps DEF Answers
<1>4. CASE Step(t, "stat marker")
  BY <1>1, <1>2, <1>4, StepKeeps
<1> QED
  BY <1>3, <1>4 DEF LookForChildren

LEMMA StatMarkerKeeps ==
    ASSUME FsInv, NEW t \in Tasks, StatMarker(t)
    PROVE  NowInv'
<1>1. stack[t] # <<>> /\ Top(t).at = "stat marker" /\ bucket' = bucket /\ bucket \subseteq Key
  BY DEF StatMarker, At, FsInv, TypeOK
<1>2. \A label \in {"delete marker", "look again"} : LabelOk(op[t].name, label) /\ label \in Labels
  BY <1>1, TopFacts DEF CallOk, LabelOk, Labels
<1>3. CASE Done(t, "NoSuchFileOrDirectory")
  BY <1>1, <1>3, DoneKeeps DEF Answers
<1>4. CASE \E label \in {"delete marker", "look again"} : Step(t, label)
  BY <1>1, <1>2, <1>4, StepKeeps
<1> QED
  BY <1>3, <1>4 DEF StatMarker

LEMMA LookAgainKeeps ==
    ASSUME FsInv, NEW t \in Tasks, LookAgain(t)
    PROVE  NowInv'
<1>1. stack[t] # <<>> /\ bucket' = bucket /\ bucket \subseteq Key
  BY DEF LookAgain, At, FsInv, TypeOK
<1>2. CASE Done(t, "NoSuchFileOrDirectory")
  BY <1>1, <1>2, DoneKeeps DEF Answers
<1>3. CASE Return(t)
  BY <1>1, <1>3, ReturnKeeps
<1> QED
  BY <1>2, <1>3 DEF LookAgain

LEMMA LookBelowKeeps ==
    ASSUME FsInv, NEW t \in Tasks, LookBelow(t)
    PROVE  NowInv'
<1> DEFINE p == Top(t).path  below == Below(p)
<1>1. stack[t] # <<>> /\ Top(t).at = "look below" /\ bucket' = bucket
  BY DEF LookBelow, At
<1>2. /\ bucket \subseteq Key /\ p \in Key /\ op[t].path \in Key /\ Top(t).entry \in Key
      /\ LabelOk(op[t].name, "look below")
      /\ op[t].name \in Removals =>
             Covers(op[t].path, Trim(p)) /\ Covers(op[t].path, Trim(Top(t).entry))
  BY <1>1, TopFacts DEF CallOk, Frame, FsInv, TypeOK
<1>3. op[t].name \in Removals /\ LabelOk(op[t].name, "delete below") /\ "delete below" \in Labels
  BY <1>2 DEF LabelOk, Labels
<1>4. CASE Done(t, "NoSuchFileOrDirectory")
  BY <1>1, <1>2, <1>4, DoneKeeps DEF Answers
<1>5. CASE Goto(t, "delete below", Top(t).entry, below)
  <2>1. \A k \in below : k \in Key /\ HasPrefix(k, DirKey(p))
    BY <1>2, FileAndDirectory, QueriedHasPrefix DEF Below, Query
  <2> HIDE DEF p, below
  <2>2. \A k \in below : Covers(op[t].path, Trim(k))
    BY <1>2, <1>3, <2>1, BelowIsCovered
  <2>3. below \in SUBSET Key
    BY <2>1
  <2> QED
    BY <1>1, <1>2, <1>3, <1>5, <2>2, <2>3, GotoKeeps
<1> QED
  BY <1>4, <1>5 DEF LookBelow

LEMMA DeleteBelowKeeps ==
    ASSUME FsInv, NEW t \in Tasks, DeleteBelow(t)
    PROVE  NowInv'
<1> DEFINE rest == Top(t).rest  e == Top(t).entry
<1>1. stack[t] # <<>> /\ Top(t).at = "delete below" /\ bucket' \subseteq bucket
  BY DEF DeleteBelow, Delete, At
<1>2. /\ bucket \subseteq Key /\ e \in Key /\ rest \in SUBSET Key
      /\ LabelOk(op[t].name, "delete below") /\ "delete below" \in Labels
      /\ op[t].name \in Removals =>
             Covers(op[t].path, Trim(e)) /\ \A k \in rest : Covers(op[t].path, Trim(k))
  BY <1>1, TopFacts DEF CallOk, Frame, FsInv, TypeOK, Labels
<1>3. CASE Return(t)
  BY <1>1, <1>2, <1>3, ReturnKeeps
<1>4. CASE \E k \in rest : Goto(t, "delete below", e, rest \ {k})
  <2>1. PICK k \in rest : Goto(t, "delete below", e, rest \ {k})
    BY <1>4
  <2> HIDE DEF e, rest
  <2>2. /\ rest \ {k} \in SUBSET Key
        /\ op[t].name \in Removals => \A j \in rest \ {k} : Covers(op[t].path, Trim(j))
    BY <1>2
  <2>3. bucket' \subseteq Key
    BY <1>1, <1>2
  <2> QED
    BY <1>1, <1>2, <2>1, <2>2, <2>3, GotoKeeps
<1> QED
  BY <1>3, <1>4 DEF DeleteBelow

LEMMA NextChildKeeps ==
    ASSUME FsInv, NEW t \in Tasks, NextChild(t)
    PROVE  NowInv'
<1> DEFINE rest == Top(t).rest
<1>1. stack[t] # <<>> /\ Top(t).at = "children" /\ bucket' = bucket /\ bucket \subseteq Key
  BY DEF NextChild, At, FsInv, TypeOK
<1>2. /\ stack[t] \in Seq(Frame) /\ Len(stack[t]) \in Nat
      /\ Top(t) \in Frame /\ CallOk(op[t], Top(t)) /\ op[t].path \in Key
      /\ LabelOk(op[t].name, "children")
  BY <1>1, TopFacts DEF CallOk
<1>3. op[t].name \in Removals /\ \A k \in rest : k \in Key /\ Covers(op[t].path, Trim(k))
  BY <1>2 DEF LabelOk, CallOk, Frame
<1>4. CASE Step(t, "look for children")
  <2>1. LabelOk(op[t].name, "look for children") /\ "look for children" \in Labels
    BY <1>3 DEF LabelOk, Labels
  <2> QED
    BY <1>1, <1>4, <2>1, StepKeeps
<1>5. ASSUME NEW k \in rest,
             stack' = [stack EXCEPT ![t] =
                 Append(Append(Front(@), [Top(t) EXCEPT !.rest = rest \ {k}]),
                        Call("stat file", S3Object(k).path))],
             UNCHANGED <<op, answer>>
      PROVE  NowInv'
  <2> DEFINE f == [Top(t) EXCEPT !.rest = rest \ {k}]
             g == Call("stat file", S3Object(k).path)
             r == Append(Front(stack[t]), f)
             s == Append(r, g)
  <2>1. f \in Frame /\ CallOk(op[t], f)
    BY <1>2 DEF Frame, CallOk
  <2>2. PICK e \in Key : e = TrimEnd(k) /\ Covers(op[t].path, Trim(e))
    BY <1>3, TrimEndIsKey, TrimOfTrimEnd
  <2>3. g = [at |-> "stat file", path |-> e, entry |-> e, rest |-> {}]
    BY <2>2 DEF Call, S3Object, ToPath
  <2> HIDE DEF f, g
  <2>4. g \in Frame
    BY <2>2, <2>3 DEF Frame, Labels
  <2>5. CallOk(op[t], g)
    BY <1>3, <2>2, <2>3 DEF CallOk, LabelOk
  <2>6. stack' = [stack EXCEPT ![t] = s] /\ op' = op /\ answer' = answer
    BY <1>5 DEF f, g
  <2>7. r \in Seq(Frame) /\ Len(r) = Len(stack[t])
        /\ \A i \in 1 .. Len(r) : r[i] = (IF i = Len(stack[t]) THEN f ELSE stack[t][i])
    BY <1>1, <1>2, <2>1, ReplaceLast
  <2> HIDE DEF r
  <2>8. s \in Seq(Frame) /\ Len(s) = Len(r) + 1
        /\ (\A i \in 1 .. Len(r) : s[i] = r[i]) /\ s[Len(r) + 1] = g
    BY <2>4, <2>7, AppendProperties
  <2> HIDE DEF s
  <2>9. ASSUME NEW i \in 1 .. Len(s) PROVE CallOk(op[t], s[i])
    <3>1. CASE i = Len(r) + 1
      BY <2>5, <2>8, <3>1
    <3>2. CASE i = Len(stack[t])
      BY <1>2, <2>1, <2>7, <2>8, <3>2
    <3>3. CASE i \in 1 .. Len(stack[t]) /\ i # Len(stack[t])
      BY <2>7, <2>8, <3>3 DEF FsInv, CallsInv
    <3> QED
      BY <1>2, <2>7, <2>8, <3>1, <3>2, <3>3
  <2>10. answer' \in [Tasks -> Answers]
    BY <2>6 DEF FsInv, TypeOK
  <2> QED
    BY <1>1, <2>6, <2>8, <2>9, <2>10, StackChanges
<1> QED
  BY <1>4, <1>5 DEF NextChild

\* A job is one of the operations on a path.
LEMMA JobFacts ==
    /\ Ops \subseteq {"stat", "exists", "list_dir", "create_dir", "remove_file", "remove_dir",
                      "remove_dir_all", "write"}
    /\ Paths \subseteq Key
BY FsAssumption DEF Ops, Paths

\* What a task begins is a job.
LEMMA BeginsAJob ==
    ASSUME NEW t, BeginAny(t)
    PROVE  \E name \in Ops, path \in Paths : Begin(t, name, path)
BY DEF BeginAny, Ops, Paths

LEMMA BeginKeeps ==
    ASSUME FsInv, NEW t \in Tasks, NEW name \in Ops, NEW path \in Paths, Begin(t, name, path)
    PROVE  NowInv'
<1> DEFINE first == CASE name \in {"stat", "exists"} -> "stat file"
                      [] name = "list_dir" -> "list"
                      [] name = "create_dir" -> "stat new"
                      [] name = "remove_file" -> "stat object"
                      [] name = "remove_dir" -> "look for children"
                      [] name = "remove_dir_all" -> "stat file"
                      [] name = "write" -> "put file"
           call == Call(first, path)
           o == [name |-> name, path |-> path]
<1>1. /\ op' = [op EXCEPT ![t] = o] /\ stack' = [stack EXCEPT ![t] = <<call>>]
      /\ answer' = [answer EXCEPT ![t] = "none"] /\ bucket' = bucket
  BY DEF Begin
<1>2. name \in {"stat", "exists", "list_dir", "create_dir", "remove_file", "remove_dir",
                "remove_dir_all", "write"}
  BY JobFacts
<1>3. path \in Key
  BY JobFacts
<1>4. first \in Labels /\ LabelOk(name, first)
  BY <1>2 DEF Labels, LabelOk, Removals
<1>5. call = [at |-> first, path |-> path, entry |-> path, rest |-> {}]
  BY DEF Call
<1> HIDE DEF first
<1>6. call \in Frame
  BY <1>3, <1>4, <1>5 DEF Frame
<1>7. Covers(path, Trim(path))
  BY <1>3, CoversOwn, FileAndDirectory
<1>8. CallOk(o, call)
  BY <1>4, <1>5, <1>7 DEF CallOk
<1> HIDE DEF call
<1>9. o \in Operation
  BY <1>3 DEF Operation
<1> HIDE DEF o
<1>10. <<call>> \in Seq(Frame) /\ Len(<<call>>) = 1 /\ <<call>>[1] = call
  BY <1>6
<1>11. NowTyped'
  BY <1>1, <1>9, <1>10 DEF FsInv, TypeOK, NowTyped, Frame, Answers
<1>12. ASSUME NEW u \in Tasks, NEW i \in 1 .. Len(stack'[u])
       PROVE  CallOk(op'[u], stack'[u][i])
  <2>1. CASE u = t
    <3>1. stack'[u] = <<call>> /\ op'[u] = o
      BY <1>1, <2>1 DEF FsInv, TypeOK
    <3>2. i = 1
      BY <1>10, <3>1
    <3> QED
      BY <1>8, <1>10, <3>1, <3>2
  <2>2. CASE u # t
    BY <1>1, <2>2 DEF FsInv, TypeOK, CallsInv
  <2> QED
    BY <2>1, <2>2
<1>13. CallsInv'
  BY <1>12 DEF CallsInv, CallOk, LabelOk, Covers
<1> QED
  BY <1>11, <1>13 DEF NowInv

LEMMA ErrorsKeep ==
    ASSUME FsInv, NEW t \in Tasks, Fails(t) \/ Cancel(t)
    PROVE  NowInv'
<1>1. stack[t] # <<>> /\ Lost(t) /\ bucket \subseteq Key
  BY DEF Fails, Cancel, FsInv, TypeOK
<1>2. bucket' \subseteq Key
  BY <1>1, RequestsAreCovered, ExecutedIsCovered DEF Lost
<1>3. CASE \E result \in Answers : Done(t, result)
  BY <1>2, <1>3, DoneKeeps
<1>4. CASE At(t, "stat new") /\ Step(t, "put marker")
  <2>1. LabelOk(op[t].name, "put marker") /\ "put marker" \in Labels
    BY <1>1, <1>4, TopFacts DEF At, CallOk, LabelOk, Labels
  <2> QED
    BY <1>1, <1>2, <1>4, <2>1, StepKeeps
<1> QED
  BY <1>3, <1>4 DEF Fails, Cancel, Answers

\* Steps of S3 and of the SDK do not touch the calls.
Quiet == UNCHANGED <<op, stack, answer>>

LEMMA QuietKeeps ==
    ASSUME FsInv, Quiet, bucket' \subseteq Key
    PROVE  NowInv'
<1>1. NowTyped'
  BY DEF Quiet, FsInv, TypeOK, NowTyped, Frame
<1>2. \A t \in Tasks : \A i \in 1 .. Len(stack'[t]) : CallOk(op'[t], stack'[t][i])
  BY DEF Quiet, FsInv, CallsInv
<1>3. CallsInv'
  BY <1>2 DEF CallsInv, CallOk, LabelOk, Covers
<1> QED
  BY <1>1, <1>3 DEF NowInv

LEMMA ResendKeeps ==
    ASSUME FsInv, NEW t \in Tasks, Resend(t)
    PROVE  NowInv'
<1>1. Quiet /\ bucket' \subseteq Key
  BY DEF Resend, Quiet, FsInv, TypeOK
<1> QED
  BY <1>1, QuietKeeps

LEMMA ArriveKeeps ==
    ASSUME FsInv, Arrive
    PROVE  NowInv'
<1>1. Quiet /\ bucket' \subseteq Key
  BY ExecutedIsCovered DEF Arrive, Quiet, FsInv, TypeOK
<1> QED
  BY <1>1, QuietKeeps

\* What may come late stays covered.
LEMMA LateStaysCovered ==
    ASSUME FsInv, Next
    PROVE  late' \subseteq [puts : BOOLEAN, key : Key, by : Operation] /\ LateInv'
<1>0. late \subseteq [puts : BOOLEAN, key : Key, by : Operation] /\ LateInv
  BY DEF FsInv, TypeOK
<1>1. CASE late' \subseteq late
  <2>1. \A q \in late' : ~ q.puts => q.by.name \in Removals /\ Covers(q.by.path, q.key)
    BY <1>0, <1>1 DEF LateInv
  <2> QED
    BY <1>0, <1>1, <2>1 DEF LateInv, Covers
<1>2. CASE \E t \in Tasks : stack[t] # <<>> /\ \E r \in Requests(t) : MayCome(r)
  BY <1>2, LateGrows
<1>3. ASSUME NEW t \in Tasks, BeginAny(t) \/ Work(t) \/ Fails(t) \/ Cancel(t) \/ Resend(t)
      PROVE  \/ late' \subseteq late
             \/ stack[t] # <<>> /\ \E r \in Requests(t) : MayCome(r)
  BY <1>3 DEF BeginAny, Begin, Work, Fails, Cancel, Lost, Resend
<1>4. Arrive => late' \subseteq late
  BY DEF Arrive
<1> QED
  BY <1>1, <1>2, <1>3, <1>4 DEF Next

LEMMA TaskKeeps ==
    ASSUME FsInv, NEW t \in Tasks, BeginAny(t) \/ Work(t) \/ Fails(t) \/ Cancel(t)
    PROVE  NowInv'
<1>1. CASE BeginAny(t)
  BY <1>1, BeginKeeps, BeginsAJob
<1>2. CASE Work(t)
  BY <1>2, StatFileKeeps, StatDirectoryKeeps, ListKeeps, StatNewKeeps, PutKeeps, StatObjectKeeps,
     DeletesKeep, LookForChildrenKeeps, StatMarkerKeeps, NextChildKeeps, LookAgainKeeps,
     LookBelowKeeps, DeleteBelowKeeps DEF Work
<1>3. CASE Fails(t) \/ Cancel(t)
  BY <1>3, ErrorsKeep
<1> QED
  BY <1>1, <1>2, <1>3

-----------------------------------------------------------------------------
(* Types, and what a removal may delete.                                   *)

\* The invariant holds at first, and every step keeps it.
LEMMA FsInvInitially == Init => FsInv
<1> SUFFICES ASSUME Init PROVE FsInv
  OBVIOUS
<1>1. bucket \subseteq Key
  BY FsAssumption DEF Init
<1>2. <<>> \in Seq(Frame) /\ Len(<<>>) = 0
  BY EmptySeq
<1>3. TypeOK
  BY <1>1, <1>2, EmptyIsKey DEF Init, TypeOK, Frame, Answers, Operation
<1>4. CallsInv /\ LateInv
  BY <1>2 DEF Init, CallsInv, LateInv
<1> QED
  BY <1>3, <1>4 DEF FsInv

LEMMA FsInvStays == FsInv /\ [Next]_vars => FsInv'
<1> SUFFICES ASSUME FsInv, [Next]_vars PROVE FsInv'
  OBVIOUS
<1>1. CASE Next
  <2>1. Arrive \/ \E t \in Tasks : BeginAny(t) \/ Work(t) \/ Fails(t) \/ Cancel(t) \/ Resend(t)
    BY <1>1 DEF Next
  <2>2. NowInv'
    BY <2>1, TaskKeeps, ResendKeeps, ArriveKeeps
  <2>3. bucket' \subseteq Key /\ fresh \in [Tasks -> SUBSET Key]
    BY <2>2 DEF NowInv, NowTyped, FsInv, TypeOK
  <2>4. fresh' \in [Tasks -> SUBSET Key]
    BY <1>1, <2>3 DEF Next, Notice
  <2> QED
    BY <1>1, <2>2, <2>4, LateStaysCovered DEF NowInv, NowTyped, FsInv, TypeOK, Frame
<1>2. CASE UNCHANGED vars
  <2>1. TypeOK'
    BY <1>2 DEF vars, fs, FsInv, TypeOK
  <2>2. \A t \in Tasks : \A i \in 1 .. Len(stack'[t]) : CallOk(op'[t], stack'[t][i])
    BY <1>2 DEF vars, fs, FsInv, CallsInv
  <2>3. CallsInv'
    BY <2>2 DEF CallsInv, CallOk, LabelOk, Covers
  <2>4. \A r \in late' : ~ r.puts => r.by.name \in Removals /\ Covers(r.by.path, r.key)
    BY <1>2 DEF vars, fs, FsInv, LateInv
  <2>5. LateInv'
    BY <2>4 DEF LateInv, Covers
  <2> QED
    BY <2>1, <2>3, <2>5 DEF FsInv
<1> QED
  BY <1>1, <1>2

\* Every state of the namespace operations is well typed: whatever keys others
\* put, the paths and keys made of them are paths and keys again.
THEOREM FsTypeCorrect == Spec => []TypeOK
<1>1. FsInv => TypeOK
  BY DEF FsInv
<1> QED
  BY FsInvInitially, FsInvStays, <1>1, PTL DEF Spec

\* A step of a task that takes a key out of the bucket is one of a removal
\* that covers the key, and it moves on.
LEMMA TakesCovered ==
    ASSUME FsInv, NEW t \in Tasks, BeginAny(t) \/ Work(t) \/ Fails(t) \/ Cancel(t),
           NEW k \in bucket \ bucket'
    PROVE  stack'[t] # stack[t] /\ op[t].name \in Removals /\ Covers(op[t].path, k)
<1>0. stack \in [Tasks -> Seq(Frame)]
  BY DEF FsInv, TypeOK, Frame
<1>1. ASSUME stack[t] # <<>>, Return(t) PROVE stack'[t] # stack[t]
  <2>1. Front(stack[t]) # stack[t]
    BY <1>0, <1>1, DropLast
  <2> QED
    BY <1>0, <1>1, <2>1 DEF Return, Done
<1>2. CASE Fails(t) \/ Cancel(t)
  <2>1. stack[t] # <<>> /\ \E r \in Requests(t) : Execute(r)
    BY <1>2 DEF Fails, Cancel, Lost
  <2>2. op[t].name \in Removals /\ Covers(op[t].path, k)
    <3>1. PICK r \in Requests(t) : Execute(r)
      BY <2>1
    <3>2. bucket \subseteq Key
      BY DEF FsInv, TypeOK
    <3>3. ~ r.puts /\ r.key = k
      BY <3>1, <3>2, <2>1, ExecutedIsCovered, RequestsAreCovered
    <3> QED
      BY <2>1, <3>3, RequestsAreCovered
  <2>3. LabelOk(op[t].name, Top(t).at)
    BY <2>1, TopFacts DEF CallOk
  <2>4. ~ At(t, "stat new")
    BY <2>2, <2>3 DEF LabelOk, At, Removals
  <2>5. stack'[t] = <<>>
    BY <1>0, <1>2, <2>4 DEF Fails, Cancel, Done
  <2> QED
    BY <2>1, <2>2, <2>5
<1>3. CASE DeleteObject(t) \/ DeleteMarker(t)
  <2>1. /\ stack[t] # <<>> /\ Return(t) /\ Top(t).at \in {"delete object", "delete marker"}
        /\ k \in {FileKey(Top(t).entry), DirKey(Top(t).entry)}
    BY <1>3 DEF DeleteObject, DeleteMarker, Delete, At
  <2>2. op[t].name \in Removals
    BY <2>1, TopFacts DEF CallOk, LabelOk
  <2> QED
    BY <1>1, <2>1, <2>2, RemovalFacts
<1>4. CASE DeleteBelow(t)
  <2> DEFINE rest == Top(t).rest
  <2>1. PICK j \in rest : /\ k = KeyAgain(j)
                         /\ IF rest = {j} THEN Return(t)
                            ELSE Goto(t, "delete below", Top(t).entry, rest \ {j})
    BY <1>4 DEF DeleteBelow, Delete
  <2>2. stack[t] # <<>> /\ Top(t).at = "delete below"
    BY <1>4 DEF DeleteBelow, At
  <2>3. op[t].name \in Removals /\ Top(t) \in Frame
    BY <2>2, TopFacts DEF CallOk, LabelOk
  <2>4. CASE Goto(t, "delete below", Top(t).entry, rest \ {j})
    <3> DEFINE f == [Top(t) EXCEPT !.at = "delete below", !.entry = Top(t).entry, !.rest = rest \ {j}]
    <3>1. stack'[t] = Append(Front(stack[t]), f)
      BY <1>0, <2>4 DEF Goto
    <3>2. f \in Frame
      BY <2>1, <2>3 DEF Frame, Labels
    <3>5. f.rest # Top(t).rest
      BY <2>1, <2>3 DEF Frame
    <3> HIDE DEF f
    <3>3. Last(stack'[t]) = f
      <4>1. stack[t] \in Seq(Frame) /\ stack[t] # <<>>
        BY <1>0, <2>2
      <4>2. \A s \in Seq(Frame) : s # <<>> => Last(Append(Front(s), f)) = f
        BY <3>2, ReplaceLast
      <4> QED
        BY <3>1, <4>1, <4>2
    <3>4. stack'[t] # stack[t]
      BY <3>5, <3>3 DEF Top
    <3> QED
      BY <2>1, <2>2, <2>3, <3>4, RemovalFacts
  <2>5. CASE Return(t)
    BY <1>1, <2>1, <2>2, <2>3, <2>5, RemovalFacts
  <2> QED
    BY <2>1, <2>4, <2>5
<1>5. CASE BeginAny(t) \/ StatFile(t) \/ StatDirectory(t) \/ List(t) \/ StatNew(t) \/ PutMarker(t)
           \/ PutFile(t) \/ StatObject(t) \/ LookForChildren(t) \/ StatMarker(t) \/ NextChild(t)
           \/ LookAgain(t) \/ LookBelow(t)
  <2>1. bucket \subseteq bucket'
    BY <1>5 DEF BeginAny, Begin, StatFile, StatDirectory, List, StatNew, PutMarker, PutFile, Put,
       StatObject, LookForChildren, StatMarker, NextChild, LookAgain, LookBelow
  <2> QED
    BY <2>1
<1> QED
  BY <1>2, <1>3, <1>4, <1>5 DEF Work

\* A request that takes a key out of the bucket late is one of a removal too.
LEMMA TakesLate ==
    ASSUME FsInv, Arrive, NEW k \in bucket \ bucket'
    PROVE  \E o \in {r.by : r \in {q \in late \ late' : q.key = k}} :
               o.name \in Removals /\ Covers(o.path, k)
<1>1. PICK r \in late : Execute(r) /\ late' = late \ {r}
  BY DEF Arrive
<1>2. ~ r.puts /\ r.key = k
  BY <1>1, ExecutedIsCovered DEF FsInv, TypeOK
<1>3. r.by.name \in Removals /\ Covers(r.by.path, k)
  BY <1>2 DEF FsInv, LateInv
<1>4. r \in {q \in late \ late' : q.key = k}
  BY <1>1, <1>2
<1> QED
  BY <1>3, <1>4

\* However tasks interleave, fail and are dropped, whatever comes late, and
\* whatever the bucket holds, an object disappears only by a request of a
\* removal whose path covers it (client.rs 417-495).
THEOREM RemovalsStayBelow == Spec => OnlyBelow
<1>1. ASSUME FsInv, [Next]_vars, NEW k \in bucket \ bucket'
      PROVE  \E o \in {op[t] : t \in {u \in Tasks : stack'[u] # stack[u]}}
                          \cup {r.by : r \in {q \in late \ late' : q.key = k}} :
                 o.name \in Removals /\ Covers(o.path, k)
  <2>1. CASE UNCHANGED vars
    BY <1>1, <2>1 DEF vars, fs
  <2>2. CASE Arrive
    BY <1>1, <2>2, TakesLate
  <2>3. ASSUME NEW t \in Tasks, Resend(t) PROVE FALSE
    BY <1>1, <2>3 DEF Resend
  <2>4. ASSUME NEW t \in Tasks, BeginAny(t) \/ Work(t) \/ Fails(t) \/ Cancel(t)
        PROVE  \E o \in {op[u] : u \in {v \in Tasks : stack'[v] # stack[v]}} :
                   o.name \in Removals /\ Covers(o.path, k)
    BY <1>1, <2>4, TakesCovered
  <2> QED
    BY <1>1, <2>1, <2>2, <2>3, <2>4 DEF Next
<1>2. FsInv /\ [Next]_vars => [TakesBelow]_vars
  BY <1>1 DEF TakesBelow
<1> QED
  BY FsInvInitially, FsInvStays, <1>2, PTL DEF Spec, OnlyBelow

-----------------------------------------------------------------------------
(* What a task sees of the others.                                         *)

\* What stat_key does not find is not there.
LEMMA StatMissed ==
    ASSUME FsInv, NEW key \in Key, Stat(key) = {}
    PROVE  key \notin bucket
BY StatSeesKey, FsAssumption DEF Stat, FsInv, TypeOK

\* A step of a task leaves the other tasks alone.
LEMMA OthersStay ==
    ASSUME FsInv, NEW t \in Tasks, BeginAny(t) \/ Work(t) \/ Fails(t) \/ Cancel(t),
           NEW u \in Tasks, u # t
    PROVE  stack'[u] = stack[u] /\ op'[u] = op[u] /\ answer'[u] = answer[u]
<1>0. /\ \A result : Done(t, result) =>
             stack'[u] = stack[u] /\ op'[u] = op[u] /\ answer'[u] = answer[u]
      /\ \A label, entry, rest : Goto(t, label, entry, rest) =>
             stack'[u] = stack[u] /\ op'[u] = op[u] /\ answer'[u] = answer[u]
      /\ \A label : Step(t, label) =>
             stack'[u] = stack[u] /\ op'[u] = op[u] /\ answer'[u] = answer[u]
      /\ Return(t) =>
             stack'[u] = stack[u] /\ op'[u] = op[u] /\ answer'[u] = answer[u]
  BY DEF FsInv, TypeOK, Done, Goto, Step, Return
<1>1. CASE BeginAny(t) \/ NextChild(t)
  BY <1>0, <1>1 DEF BeginAny, Begin, NextChild, FsInv, TypeOK
<1>2. CASE Fails(t) \/ Cancel(t)
  BY <1>0, <1>2 DEF Fails, Cancel
<1>3. CASE StatFile(t) \/ StatDirectory(t)
  BY <1>0, <1>3 DEF StatFile, StatDirectory, Found, Answered
<1>4. CASE List(t) \/ StatNew(t) \/ PutMarker(t) \/ PutFile(t) \/ StatObject(t) \/ DeleteObject(t)
           \/ LookForChildren(t) \/ StatMarker(t) \/ DeleteMarker(t) \/ LookAgain(t)
           \/ LookBelow(t) \/ DeleteBelow(t)
  BY <1>0, <1>4 DEF List, StatNew, PutMarker, PutFile, Put, StatObject, DeleteObject, LookForChildren,
     StatMarker, DeleteMarker, LookAgain, LookBelow, DeleteBelow
<1> QED
  BY <1>1, <1>2, <1>3, <1>4 DEF Work

\* A step of a task that leaves it in an operation does not answer, and does
\* not change the operation unless it begins it.
LEMMA StaysSilent ==
    ASSUME FsInv, NEW t \in Tasks, Work(t) \/ Fails(t) \/ Cancel(t), stack'[t] # <<>>
    PROVE  answer'[t] = answer[t] /\ op'[t] = op[t]
<1>0. /\ \A result : ~ Done(t, result)
      /\ \A label, entry, rest : Goto(t, label, entry, rest) => answer'[t] = answer[t] /\ op'[t] = op[t]
      /\ \A label : Step(t, label) => answer'[t] = answer[t] /\ op'[t] = op[t]
      /\ Return(t) => answer'[t] = answer[t] /\ op'[t] = op[t]
  BY DEF FsInv, TypeOK, Done, Goto, Step, Return
<1>1. CASE NextChild(t)
  BY <1>0, <1>1 DEF NextChild
<1>2. CASE Fails(t) \/ Cancel(t)
  BY <1>0, <1>2 DEF Fails, Cancel
<1>3. CASE StatFile(t) \/ StatDirectory(t)
  BY <1>0, <1>3 DEF StatFile, StatDirectory, Found, Answered
<1>4. CASE List(t) \/ StatNew(t) \/ PutMarker(t) \/ PutFile(t) \/ StatObject(t) \/ DeleteObject(t)
           \/ LookForChildren(t) \/ StatMarker(t) \/ DeleteMarker(t) \/ LookAgain(t)
           \/ LookBelow(t) \/ DeleteBelow(t)
  BY <1>0, <1>4 DEF List, StatNew, PutMarker, PutFile, Put, StatObject, DeleteObject, LookForChildren,
     StatMarker, DeleteMarker, LookAgain, LookBelow, DeleteBelow
<1> QED
  BY <1>1, <1>2, <1>3, <1>4 DEF Work

\* The path of the call stays when the call goes on.
LEMMA StepsOn ==
    ASSUME FsInv, NEW t \in Tasks, stack[t] # <<>>, NEW label \in Labels, Step(t, label)
    PROVE  Last(stack'[t]).path = Top(t).path
<1> DEFINE f == [Top(t) EXCEPT !.at = label, !.entry = Top(t).entry, !.rest = {}]
<1>1. stack[t] \in Seq(Frame) /\ Top(t) \in Frame
  BY TopFacts
<1>2. stack'[t] = Append(Front(stack[t]), f)
  BY DEF Step, Goto, FsInv, TypeOK
<1>3. f \in Frame /\ f.path = Top(t).path
  BY <1>1 DEF Frame
<1> HIDE DEF f
<1>4. Last(Append(Front(stack[t]), f)) = f
  BY <1>1, <1>3, ReplaceLast
<1> QED
  BY <1>2, <1>3, <1>4

\* stat goes on to the directory, and create_dir to its put, when it has
\* found that nothing is there.
LEMMA GoesOnMissing ==
    ASSUME FsInv, NowInv', NEW t \in Tasks, BeginAny(t) \/ Work(t) \/ Fails(t) \/ Cancel(t),
           stack'[t] # <<>>
    PROVE  /\ op'[t].name \in {"stat", "exists"} /\ Last(stack'[t]).at = "stat directory"
                  => FileKey(Last(stack'[t]).path) \notin bucket'
           /\ ~ MayFail /\ Last(stack'[t]).at = "put marker"
                  => DirKey(Last(stack'[t]).path) \notin bucket'
<1>0. LabelOk(op'[t].name, Last(stack'[t]).at)
  <2>1. stack'[t] \in Seq(Frame)
    BY DEF NowInv, NowTyped
  <2>2. Len(stack'[t]) \in 1 .. Len(stack'[t])
    BY <2>1, EmptySeq
  <2>3. CallOk(op[t], stack[t][Len(stack[t])])'
    BY <2>2 DEF NowInv, CallsInv
  <2> QED
    BY <2>3 DEF CallOk, LabelOk, Last
<1>1. CASE BeginAny(t)
  <2>1. PICK name \in Ops, path \in Paths : Begin(t, name, path)
    BY <1>1, BeginsAJob
  <2>2. name \in {"stat", "exists", "list_dir", "create_dir", "remove_file", "remove_dir",
                  "remove_dir_all", "write"}
    BY JobFacts
  <2>3. PICK first \in Labels \ {"stat directory", "put marker"} : stack'[t] = <<Call(first, path)>>
    BY <2>1, <2>2 DEF Begin, FsInv, TypeOK, Labels
  <2> DEFINE c == Call(first, path)
  <2>5. c.at = first
    BY DEF Call
  <2> HIDE DEF c
  <2>6. Last(<<c>>) = c
    BY DEF Last
  <2>4. Last(stack'[t]).at = first
    BY <2>3, <2>5, <2>6 DEF c
  <2> QED
    BY <2>3, <2>4
<1>2. CASE Work(t) \/ Fails(t) \/ Cancel(t)
  <2>1. stack[t] # <<>>
    BY <1>2 DEF Work, StatFile, StatDirectory, List, StatNew, PutMarker, PutFile, Put, StatObject,
       DeleteObject, LookForChildren, StatMarker, DeleteMarker, NextChild, LookAgain, LookBelow,
       DeleteBelow, At, Fails, Cancel
  <2>2. op'[t] = op[t] /\ LabelOk(op[t].name, Top(t).at) /\ Top(t).path \in Key
    BY <1>2, <2>1, StaysSilent, TopFacts DEF CallOk, Frame
  <2>3. \A result : ~ Done(t, result)
    BY DEF Done, FsInv, TypeOK
  <2>4. ASSUME op'[t].name \in {"stat", "exists"}, Last(stack'[t]).at = "stat directory"
        PROVE  FileKey(Last(stack'[t]).path) \notin bucket'
    <3>1. Top(t).at \in {"stat file", "stat directory"} /\ IsStat(t)
      BY <2>2, <2>4 DEF LabelOk, IsStat, Removals
    <3>2. StatFile(t)
      BY <1>2, <2>3, <3>1 DEF Work, StatDirectory, Found, Answered, List, StatNew, PutMarker, PutFile, Put,
         StatObject, DeleteObject, LookForChildren, StatMarker, DeleteMarker, NextChild, LookAgain,
         LookBelow, DeleteBelow, At, Fails, Cancel
    <3>3. /\ Stat(FileKey(Top(t).path)) = {} /\ Step(t, "stat directory") /\ bucket' = bucket
      BY <2>3, <3>1, <3>2 DEF StatFile, Found, Answered
    <3>4. Last(stack'[t]).path = Top(t).path
      BY <2>1, <3>3, StepsOn DEF Labels
    <3> QED
      BY <2>2, <3>3, <3>4, StatMissed, FileAndDirectory
  <2>5. ASSUME ~ MayFail, Last(stack'[t]).at = "put marker"
        PROVE  DirKey(Last(stack'[t]).path) \notin bucket'
    <3>1. Top(t).at \in {"stat new", "put marker"}
      BY <1>0, <2>2, <2>5 DEF LabelOk, Removals
    <3>2. StatNew(t)
      BY <1>2, <2>3, <2>5, <3>1 DEF Work, StatFile, StatDirectory, List, PutMarker, PutFile, Put,
         StatObject, DeleteObject, LookForChildren, StatMarker, DeleteMarker, NextChild, LookAgain,
         LookBelow, DeleteBelow, At, Fails, Cancel
    <3>3. /\ Stat(DirKey(Top(t).path)) = {} /\ Step(t, "put marker") /\ bucket' = bucket
      BY <2>3, <3>2 DEF StatNew
    <3>4. Last(stack'[t]).path = Top(t).path
      BY <2>1, <3>3, StepsOn DEF Labels
    <3> QED
      BY <2>2, <3>3, <3>4, StatMissed, FileAndDirectory
  <2> QED
    BY <2>4, <2>5
<1> QED
  BY <1>1, <1>2

\* The invariant holds at first, and every step keeps it.
LEMMA FreshInvInitially == Init => FreshInv
BY DEF Init, FreshInv

LEMMA FreshInvStays == FsInv /\ FreshInv /\ [Next]_vars => FreshInv'
<1> SUFFICES ASSUME FsInv, FreshInv, [Next]_vars PROVE FreshInv'
  OBVIOUS
<1>1. ASSUME Next, NEW t \in Tasks, BeginAny(t) \/ Work(t) \/ Fails(t) \/ Cancel(t)
      PROVE  FreshInv'
  <2>1. BeginAny(t) \/ Work(t) \/ Fails(t) \/ Cancel(t)
    BY <1>1
  <2>2. NowInv'
    BY <2>1, TaskKeeps
  <2>3. ASSUME NEW u \in Tasks, stack'[u] # <<>>
        PROVE  /\ answer'[u] = "none"
               /\ op'[u].name \in {"stat", "exists"} /\ Last(stack'[u]).at = "stat directory"
                      => {FileKey(Last(stack'[u]).path)} \cap bucket' \subseteq fresh'[u]
               /\ ~ MayFail /\ Last(stack'[u]).at = "put marker"
                      => {DirKey(Last(stack'[u]).path)} \cap bucket' \subseteq fresh'[u]
    <3>1. CASE u = t
      <4>1. answer'[u] = "none"
        <5>1. CASE BeginAny(t)
          BY <3>1, <5>1 DEF BeginAny, Begin, FsInv, TypeOK
        <5>2. CASE Work(t) \/ Fails(t) \/ Cancel(t)
          <6>1. stack[t] # <<>>
            BY <5>2 DEF Work, StatFile, StatDirectory, List, StatNew, PutMarker, PutFile, Put, StatObject,
               DeleteObject, LookForChildren, StatMarker, DeleteMarker, NextChild, LookAgain, LookBelow,
               DeleteBelow, At, Fails, Cancel
          <6> QED
            BY <2>3, <3>1, <5>2, <6>1, StaysSilent DEF FreshInv
        <5> QED
          BY <2>1, <5>1, <5>2
      <4> QED
        BY <2>1, <2>2, <2>3, <3>1, <4>1, GoesOnMissing
    <3>2. CASE u # t
      <4>1. stack'[u] = stack[u] /\ op'[u] = op[u] /\ answer'[u] = answer[u]
        BY <2>1, <3>2, OthersStay
      <4>2. Last(stack'[u]).at \in {"stat directory", "put marker"}
                => fresh'[u] = fresh[u] \cup (bucket' \ bucket)
        BY <1>1, <2>3 DEF Next, Notice
      <4> QED
        BY <2>3, <4>1, <4>2 DEF FreshInv, Top, IsStat
    <3> QED
      BY <3>1, <3>2
  <2> QED
    BY <2>3 DEF FreshInv, Top, IsStat, FileKey, DirKey
<1>2. CASE UNCHANGED vars
  BY <1>2 DEF vars, fs, FreshInv, Top, IsStat, FileKey, DirKey, Last
<1>3. ASSUME Next, Quiet PROVE FreshInv'
  <2>1. ASSUME NEW u \in Tasks, stack'[u] # <<>>
        PROVE  /\ answer'[u] = "none"
               /\ op'[u].name \in {"stat", "exists"} /\ Last(stack'[u]).at = "stat directory"
                      => {FileKey(Last(stack'[u]).path)} \cap bucket' \subseteq fresh'[u]
               /\ ~ MayFail /\ Last(stack'[u]).at = "put marker"
                      => {DirKey(Last(stack'[u]).path)} \cap bucket' \subseteq fresh'[u]
    <3>1. stack' = stack /\ op' = op /\ answer' = answer
      BY <1>3 DEF Quiet
    <3>2. Last(stack'[u]).at \in {"stat directory", "put marker"}
              => fresh'[u] = fresh[u] \cup (bucket' \ bucket)
      BY <1>3, <2>1 DEF Next, Notice
    <3> QED
      BY <2>1, <3>1, <3>2 DEF FreshInv, Top, IsStat
  <2> QED
    BY <2>1 DEF FreshInv, Top, IsStat, FileKey, DirKey
<1>4. ASSUME NEW t \in Tasks, Resend(t) \/ Arrive PROVE Quiet
  BY <1>4 DEF Resend, Arrive, Quiet
<1>5. Arrive => Quiet
  BY DEF Arrive, Quiet
<1> QED
  BY <1>1, <1>2, <1>3, <1>4, <1>5 DEF Next

\* As long as stat does not fail, create_dir overwrites only a marker that was
\* put after it had looked, on any bucket and any page (client.rs 398-415).
THEOREM CreatesOverFreshOnly == Spec => []OverwritesOnlyFresh
<1>1. FreshInv => OverwritesOnlyFresh
  BY DEF FreshInv, OverwritesOnlyFresh, At
<1> QED
  BY FsInvInitially, FsInvStays, FreshInvInitially, FreshInvStays, <1>1, PTL DEF Spec

\* A stat that says that nothing is there has looked for the directory.
LEMMA SaysMissing ==
    ASSUME FsInv, FreshInv, NEW t \in Tasks, BeginAny(t) \/ Work(t) \/ Fails(t) \/ Cancel(t),
           NEW u \in Tasks, IsStat(u), stack'[u] # stack[u],
           answer'[u] \in {"No", "NoSuchFileOrDirectory"}
    PROVE  {FileKey(Top(u).path), DirKey(Top(u).path)} \cap bucket \subseteq fresh[u]
<1>1. u = t
  BY OthersStay
<1>2. ~ BeginAny(t)
  BY <1>1 DEF BeginAny, Begin, FsInv, TypeOK
<1>3. stack[t] # <<>>
  BY <1>2 DEF Work, StatFile, StatDirectory, List, StatNew, PutMarker, PutFile, Put, StatObject,
     DeleteObject, LookForChildren, StatMarker, DeleteMarker, NextChild, LookAgain, LookBelow,
     DeleteBelow, At, Fails, Cancel
<1>4. Top(t).at \in {"stat file", "stat directory"} /\ Top(t).path \in Key
  BY <1>1, <1>3, TopFacts DEF CallOk, Frame, LabelOk, IsStat, Removals
<1>5. stack'[t] = <<>>
  BY <1>1, <1>2, <1>3, StaysSilent DEF FreshInv
<1>6. \A result : Done(t, result) => answer'[t] = result
  BY DEF Done, FsInv, TypeOK
<1>7. ~ Step(t, "stat directory")
  BY <1>1, <1>3 DEF Step, Goto, FreshInv
<1>8. StatDirectory(t)
  BY <1>1, <1>2, <1>4, <1>6, <1>7 DEF Work, StatFile, Found, Answered, FileType, List, StatNew,
     PutMarker, PutFile, Put, StatObject, DeleteObject, LookForChildren, StatMarker, DeleteMarker,
     NextChild, LookAgain, LookBelow, DeleteBelow, At, Fails, Cancel
<1>9. Stat(DirKey(Top(t).path)) = {}
  BY <1>1, <1>6, <1>8 DEF StatDirectory, Found, Answered, FileType
<1>10. DirKey(Top(t).path) \notin bucket
  BY <1>4, <1>9, StatMissed, FileAndDirectory
<1>11. {FileKey(Top(t).path)} \cap bucket \subseteq fresh[t]
  BY <1>1, <1>3, <1>8 DEF FreshInv, StatDirectory, At
<1> QED
  BY <1>1, <1>10, <1>11

\* stat and exists miss only what was put between their two requests, on any
\* bucket and any page (client.rs 368-393).
THEOREM StatMissesFreshOnly == Spec => MissesOnlyFresh
<1> DEFINE A == \A t \in Tasks :
                    IsStat(t) /\ stack'[t] # stack[t] /\ answer'[t] \in {"No", "NoSuchFileOrDirectory"}
                        => {FileKey(Top(t).path), DirKey(Top(t).path)} \cap bucket \subseteq fresh[t]
<1>0. Quiet => A
  BY DEF Quiet
<1>1. FsInv /\ FreshInv /\ [Next]_vars => [A]_vars
  BY <1>0, SaysMissing DEF Next, Resend, Arrive, Quiet
<1>2. Spec => [][A]_vars
  BY FsInvInitially, FsInvStays, FreshInvInitially, FreshInvStays, <1>1, PTL DEF Spec
<1> QED
  BY <1>2 DEF MissesOnlyFresh
=============================================================================
