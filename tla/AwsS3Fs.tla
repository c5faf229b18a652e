------------------------------ MODULE AwsS3Fs ------------------------------
(***************************************************************************)
(* The operations of src/src/client.rs on the keys of a bucket.  S3 has    *)
(* no directories, so an operation is a sequence of requests: it lists     *)
(* keys, decides, and lists, puts or deletes again.  `&self` lets several  *)
(* tasks run operations on one client, and other clients use the bucket,   *)
(* so the bucket may change between two requests of an operation.  An      *)
(* action is one request with what the operation does until its next one.  *)
(* A request that is sent again or given up may be executed later.         *)
(*                                                                         *)
(* The client is connected and paths are absolute.  What the objects hold  *)
(* is left out: a write stream counts as one request, that of its finish.  *)
(***************************************************************************)
EXTENDS S3Key

CONSTANTS
    Tasks,        \* the tasks that run operations
    Jobs,         \* <<name, path>>: the operations they run, and on what
    Buckets,      \* what the bucket may hold at first
    PageSize,     \* the most keys a listing returns (1,000)
    MayFail,      \* whether a request may end in an error
    MayCancel,    \* whether the future of an operation may be dropped
    Tidy,         \* whether owners put objects only where a file system would
    MaxDepth,     \* bound: calls of remove_dir_all inside one another
    MaxLate       \* bound: requests on their way that nobody awaits

ASSUME FsAssumption ==
    /\ Jobs \subseteq {"stat", "exists", "list_dir", "create_dir", "remove_file", "remove_dir",
                     "remove_dir_all", "write"} \X Key
    /\ Buckets \subseteq SUBSET Key
    /\ PageSize \in Nat \ {0}
    /\ MayFail \in BOOLEAN /\ MayCancel \in BOOLEAN /\ Tidy \in BOOLEAN
    /\ MaxDepth \in Nat \ {0}
    /\ MaxLate \in Nat

Ops == {job[1] : job \in Jobs}
Paths == {job[2] : job \in Jobs}

VARIABLES
    bucket,    \* the keys of the objects in the bucket
    op,        \* Task -> the operation it runs, or ran last
    stack,     \* Task -> the calls in progress, the innermost last
    answer,    \* Task -> what the operation has returned
    late,      \* the requests nobody awaits that may still be executed
    fresh      \* history: Task -> the keys put since its call began to look

fs == <<bucket, op, stack, answer, late>>
vars == <<fs, fresh>>

(***************************************************************************)
(* A call in progress: `at` is the request it makes next, `path` its       *)
(* argument, `entry` the path of the entry it found there, and `rest` the  *)
(* keys of the objects it still has to remove.                             *)
(***************************************************************************)
Call(at, path) == [at |-> at, path |-> path, entry |-> path, rest |-> {}]

Labels == {"stat file", "stat directory", "list", "children", "look for children",
           "stat marker", "delete marker", "look again", "look below", "delete below",
           "stat object", "delete object", "stat new", "put marker", "put file"}
Answers == {"none", "Ok", "Yes", "No", "File", "Directory", "NoSuchFileOrDirectory", "DirectoryNotEmpty",
            "AlreadyExists", "Failed", "cancelled"}

Operation == [name : Ops \cup {"none"}, path : Key]

TypeOK ==
    /\ bucket \subseteq Key
    /\ op \in [Tasks -> Operation]
    /\ stack \in [Tasks -> Seq([at : Labels, path : Key, entry : Key, rest : SUBSET Key])]
    /\ answer \in [Tasks -> Answers]
    /\ late \subseteq [puts : BOOLEAN, key : Key, by : Operation]
    /\ fresh \in [Tasks -> SUBSET Key]

Init ==
    /\ bucket \in Buckets
    /\ op = [t \in Tasks |-> [name |-> "none", path |-> EmptyKey]]
    /\ stack = [t \in Tasks |-> <<>>]
    /\ answer = [t \in Tasks |-> "none"]
    /\ late = {}
    /\ fresh = [t \in Tasks |-> {}]

-----------------------------------------------------------------------------
(* Calls and returns.                                                      *)

DirKey(path) == FromPath(path, TRUE)
FileKey(path) == FromPath(path, FALSE)
Query(key) == QueryObjects(bucket, key, FALSE, PageSize)
Children(key) == QueryObjects(bucket, key, TRUE, PageSize)
Stat(key) == StatKey(bucket, key, PageSize)

Top(t) == Last(stack[t])
At(t, label) == stack[t] # <<>> /\ Top(t).at = label

\* The call of task t goes on at `label`, having set entry and rest.
Goto(t, label, entry, rest) ==
    /\ stack' = [stack EXCEPT ![t] =
           Append(Front(@), [Top(t) EXCEPT !.at = label, !.entry = entry, !.rest = rest])]
    /\ UNCHANGED <<op, answer>>

Step(t, label) == Goto(t, label, Top(t).entry, {})

\* The operation of task t returns.
Done(t, result) ==
    /\ stack' = [stack EXCEPT ![t] = <<>>]
    /\ answer' = [answer EXCEPT ![t] = result]
    /\ UNCHANGED op

\* The innermost call returns Ok, to the call that made it if there is one.
Return(t) ==
    IF Len(stack[t]) = 1
    THEN Done(t, "Ok")
    ELSE stack' = [stack EXCEPT ![t] = Front(@)] /\ UNCHANGED <<op, answer>>

-----------------------------------------------------------------------------
(* What a bucket that is used as a file system looks like.                 *)

\* The markers of the directories that the object is in.
Above(key) == {DirKey(SubSeq(key, 1, i)) : i \in 1 .. Len(Trim(key)) - 1}

IsMarked(keys) == \A k \in keys : Above(k) \subseteq keys
NoDoubles(keys) == \A j, k \in keys : SamePath(j, k) => j = k

\* An owner that is tidy puts an object into a directory, and where there is
\* neither a file nor a directory of the other kind.
MayPut(key) ==
    Tidy => Above(key) \subseteq bucket /\ \A k \in bucket : SamePath(k, key) => k = key

-----------------------------------------------------------------------------

Begin(t, name, path) ==
    LET first == CASE name \in {"stat", "exists"} -> "stat file"
                   [] name = "list_dir" -> "list"
                   [] name = "create_dir" -> "stat new"
                   [] name = "remove_file" -> "stat object"
                   [] name = "remove_dir" -> "look for children"
                   [] name = "remove_dir_all" -> "stat file"
                   [] name = "write" -> "put file"
    IN  /\ stack[t] = <<>>
        /\ name = "create_dir" => MayPut(DirKey(path))
        /\ name = "write" => MayPut(FileKey(path))
        /\ op' = [op EXCEPT ![t] = [name |-> name, path |-> path]]
        /\ stack' = [stack EXCEPT ![t] = <<Call(first, path)>>]
        /\ answer' = [answer EXCEPT ![t] = "none"]
        /\ UNCHANGED <<bucket, late>>

-----------------------------------------------------------------------------
(* stat and exists, and how remove_dir_all begins.                        *)

\* What stat finds is its answer; exists only says whether it found it.
Answered(t, found) ==
    Done(t, IF op[t].name = "stat" THEN found
            ELSE IF found = "NoSuchFileOrDirectory" THEN "No" ELSE "Yes")

IsStat(t) == op[t].name \in {"stat", "exists"}

\* stat has found the entry, and remove_dir_all goes on with it.
Found(t, entry) ==
    IF IsStat(t)
    THEN Answered(t, FileType(entry))
    ELSE Goto(t, IF FileType(entry) = "Directory" THEN "list" ELSE "stat object",
              entry.path, {})

Root == [path |-> EmptyKey, is_dir |-> TRUE]

StatFile(t) ==
    LET key == FileKey(Top(t).path)
    IN  /\ At(t, "stat file")
        /\ \/ key = EmptyKey /\ Found(t, Root)
           \/ /\ key # EmptyKey
              /\ \E k \in Stat(key) : IsFirst(k, Stat(key)) /\ Found(t, S3Object(k))
           \/ key # EmptyKey /\ Stat(key) = {} /\ Step(t, "stat directory")
        /\ UNCHANGED bucket

StatDirectory(t) ==
    LET key == DirKey(Top(t).path)
    IN  /\ At(t, "stat directory")
        /\ \/ \E k \in Stat(key) : IsFirst(k, Stat(key)) /\ Found(t, S3Object(k))
           \/ /\ Stat(key) = {}
              /\ IF IsStat(t)
                 THEN Answered(t, "NoSuchFileOrDirectory")
                 ELSE Step(t, "look below")
        /\ UNCHANGED bucket

-----------------------------------------------------------------------------
(* list_dir and create_dir, and the finish of a write stream.              *)

List(t) ==
    /\ At(t, "list")
    /\ IF op[t].name = "list_dir"
       THEN Done(t, "Ok")
       ELSE Goto(t, "children", Top(t).entry, Children(DirKey(Top(t).entry)))
    /\ UNCHANGED bucket

StatNew(t) ==
    /\ At(t, "stat new")
    /\ IF Stat(DirKey(Top(t).path)) # {}
       THEN Done(t, "AlreadyExists")
       ELSE Step(t, "put marker")
    /\ UNCHANGED bucket

\* The SDK sends no request for the empty key.
Put(t, label, key) ==
    /\ At(t, label)
    /\ \/ key = EmptyKey /\ Done(t, "Failed") /\ UNCHANGED bucket
       \/ key # EmptyKey /\ Done(t, "Ok") /\ bucket' = bucket \cup {key}

PutMarker(t) == Put(t, "put marker", DirKey(Top(t).path))
PutFile(t) == Put(t, "put file", FileKey(Top(t).path))

-----------------------------------------------------------------------------
(* remove_file and remove_dir, alone or called by remove_dir_all.          *)

Delete(key) == bucket' = bucket \ {key}

StatObject(t) ==
    /\ At(t, "stat object")
    /\ IF Stat(FileKey(Top(t).entry)) = {}
       THEN Done(t, "NoSuchFileOrDirectory")
       ELSE Step(t, "delete object")
    /\ UNCHANGED bucket

DeleteObject(t) ==
    /\ At(t, "delete object")
    /\ Delete(FileKey(Top(t).entry))
    /\ Return(t)

LookForChildren(t) ==
    /\ At(t, "look for children")
    /\ IF Children(DirKey(Top(t).entry)) # {}
       THEN Done(t, "DirectoryNotEmpty")
       ELSE Step(t, "stat marker")
    /\ UNCHANGED bucket

StatMarker(t) ==
    /\ At(t, "stat marker")
    /\ \/ Stat(DirKey(Top(t).entry)) # {} /\ Step(t, "delete marker")
       \/ /\ Stat(DirKey(Top(t).entry)) = {}
          /\ IF op[t].name = "remove_dir"
             THEN Done(t, "NoSuchFileOrDirectory")
             ELSE Step(t, "look again")
    /\ UNCHANGED bucket

DeleteMarker(t) ==
    /\ At(t, "delete marker")
    /\ Delete(DirKey(Top(t).entry))
    /\ Return(t)

-----------------------------------------------------------------------------
(* remove_dir_all.                                                         *)

\* The loop over the children; an error of any call ends the operation.
NextChild(t) ==
    /\ At(t, "children")
    /\ LET rest == Top(t).rest IN
       \/ /\ Len(stack[t]) < MaxDepth
          /\ \E k \in rest :
                 /\ IsFirst(k, rest)
                 /\ stack' = [stack EXCEPT ![t] =
                        Append(Append(Front(@), [Top(t) EXCEPT !.rest = rest \ {k}]),
                               Call("stat file", S3Object(k).path))]
          /\ UNCHANGED <<op, answer>>
       \/ rest = {} /\ Step(t, "look for children")
    /\ UNCHANGED bucket

\* remove_dir found no marker: that is fine if there is nothing below.
LookAgain(t) ==
    /\ At(t, "look again")
    /\ IF Query(DirKey(Top(t).path)) = {} THEN Return(t) ELSE Done(t, "NoSuchFileOrDirectory")
    /\ UNCHANGED bucket

\* There is no entry at the path, but there may be objects below it.
Below_AsFile(path) == Query(FileKey(path))                   \* mutant
Below(path) == Query(DirKey(path))

LookBelow(t) ==
    LET below == Below(Top(t).path)
    IN  /\ At(t, "look below")
        /\ IF below = {}
           THEN Done(t, "NoSuchFileOrDirectory")
           ELSE Goto(t, "delete below", Top(t).entry, below)
        /\ UNCHANGED bucket

\* The key that is made again of the path and the kind of an object.
KeyAgain_AsFile(key) == FromPath(S3Object(key).path, FALSE)  \* mutant
KeyAgain(key) == FromPath(S3Object(key).path, S3Object(key).is_dir)

DeleteBelow(t) ==
    LET rest == Top(t).rest
    IN  /\ At(t, "delete below")
        /\ \E k \in rest :
               /\ IsFirst(k, rest)
               /\ Delete(KeyAgain(k))
               /\ IF rest = {k}
                  THEN Return(t)
                  ELSE Goto(t, "delete below", Top(t).entry, rest \ {k})

-----------------------------------------------------------------------------
(* Errors, and requests that nobody awaits.                                *)

\* What the request of task t, if it is not a query, would do to the bucket,
\* and the operation it is of.
Requests(t) ==
    LET Of(puts, keys) == {[puts |-> puts, key |-> k, by |-> op[t]] : k \in keys}
        call == Top(t)
    IN  CASE At(t, "put marker")    -> Of(TRUE, {DirKey(call.path)} \ {EmptyKey})
          [] At(t, "put file")      -> Of(TRUE, {FileKey(call.path)} \ {EmptyKey})
          [] At(t, "delete marker") -> Of(FALSE, {DirKey(call.entry)})
          [] At(t, "delete object") -> Of(FALSE, {FileKey(call.entry)})
          [] At(t, "delete below")  ->
                 Of(FALSE, {KeyAgain(k) : k \in {j \in call.rest : IsFirst(j, call.rest)}})
          [] OTHER                  -> {}

Execute(r) == bucket' = IF r.puts THEN bucket \cup {r.key} ELSE bucket \ {r.key}

MayCome(r) == Cardinality(late) < MaxLate /\ late' = late \cup {r}

\* The answer to the request of task t is lost: S3 executes it now, later or
\* never.
Lost(t) ==
    \/ UNCHANGED <<bucket, late>>
    \/ \E r \in Requests(t) : Execute(r) /\ UNCHANGED late
    \/ \E r \in Requests(t) : MayCome(r) /\ UNCHANGED bucket

\* A request ends in an error: the operation ends, but create_dir takes an
\* error of its stat for a directory that is missing.
Fails(t) ==
    /\ MayFail /\ stack[t] # <<>> /\ ~ At(t, "children")
    /\ At(t, "stat file") => FileKey(Top(t).path) # EmptyKey
    /\ Lost(t)
    /\ IF At(t, "stat new") THEN Step(t, "put marker") ELSE Done(t, "Failed")

\* The future of the operation is dropped.
Cancel(t) ==
    /\ MayCancel /\ stack[t] # <<>>
    /\ Lost(t)
    /\ Done(t, "cancelled")

\* The SDK sends the request of task t again, and the first copy of it may
\* be executed later.
Resend(t) ==
    /\ stack[t] # <<>>
    /\ \E r \in Requests(t) : MayCome(r)
    /\ UNCHANGED <<bucket, op, stack, answer>>

\* S3 executes a request that nobody awaits any more.
Arrive ==
    \E r \in late :
        Execute(r) /\ late' = late \ {r} /\ UNCHANGED <<op, stack, answer>>

-----------------------------------------------------------------------------

Work(t) ==
    /\ UNCHANGED late
    /\ \/ StatFile(t) \/ StatDirectory(t) \/ List(t) \/ StatNew(t) \/ PutMarker(t) \/ PutFile(t)
       \/ StatObject(t) \/ DeleteObject(t) \/ LookForChildren(t) \/ StatMarker(t) \/ DeleteMarker(t)
       \/ NextChild(t) \/ LookAgain(t) \/ LookBelow(t) \/ DeleteBelow(t)

BeginAny(t) == \E job \in Jobs : Begin(t, job[1], job[2])

\* Whatever others put from the first look of a call on is new to it.
Notice ==
    LET HasLooked(calls) ==
            /\ calls # <<>>
            /\ Last(calls).at \in {"stat directory", "put marker", "stat marker", "delete marker"}
    IN  fresh' = [t \in Tasks |->
            IF HasLooked(stack'[t]) THEN fresh[t] \cup (bucket' \ bucket) ELSE {}]

Next ==
    /\ Arrive \/ \E t \in Tasks : BeginAny(t) \/ Work(t) \/ Fails(t) \/ Cancel(t) \/ Resend(t)
    /\ Notice

Spec == Init /\ [][Next]_vars

\* The runtime polls the future of an operation whose request is answered.
FairSpec == Spec /\ \A t \in Tasks : WF_fs(Work(t))

\* Moreover the owner of a task runs operations again and again.
RetrySpec == FairSpec /\ \A t \in Tasks : WF_fs(BeginAny(t))
=============================================================================
