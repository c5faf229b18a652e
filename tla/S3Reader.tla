------------------------------ MODULE S3Reader ------------------------------
(***************************************************************************)
(* Ranged reads: AwsS3Fs::open and http_range (src/src/client.rs), and the *)
(* reader they hand out (src/src/stream/read.rs), on one object of the     *)
(* bucket that other clients overwrite and delete.  An open borrows the    *)
(* AwsS3Fs while it awaits the answer to its GET; the reader then owns the *)
(* body of that answer and outlives the connection.                        *)
(*                                                                         *)
(* The bytes of an object are numbered from 0, and [lo, hi) stands for a   *)
(* run of them.  Offsets, lengths, and their sums are u64.                 *)
(***************************************************************************)
EXTENDS S3Session, Integers, Sequences

CONSTANTS
    Readers,       \* owners that read
    MaxU64,        \* u64::MAX
    MaxSize,       \* bound: the most bytes an object has
    MaxVersions,   \* bound: how often the object is put
    NoObject       \* no object, or none that an open has found

ASSUME ReaderAssumption ==
    /\ MaxU64 \in Nat /\ MaxSize \in 0 .. MaxU64
    /\ MaxVersions \in Nat
    /\ None \notin 0 .. MaxU64

VARIABLES
    object,     \* what the bucket holds: a version and its size
    puts,       \* how often the object was put
    status,     \* where the owner of the reader is
    opts,       \* the ReadOptions of its open
    body,       \* S3Reader::body: the bytes that have not arrived
    pending,    \* S3Reader::pending: the rest of the current chunk
    source,     \* history: the object that the GET has found
    got         \* history: the bytes the reader has handed out

bucket == <<object, puts>>
reader == <<status, opts, body, pending, source, got>>
vars == <<session, bucket, reader>>

Bytes(lo, hi) == [lo |-> lo, hi |-> hi]
Size(run) == run.hi - run.lo
NoBytes == Bytes(0, 0)
Smaller(m, n) == IF m < n THEN m ELSE n

Object == [version : Nat, size : 0 .. MaxSize]
Run == {run \in [lo : Nat, hi : Nat] : run.lo <= run.hi}
ReadOptions == [offset : 0 .. MaxU64, length : 0 .. MaxU64 \cup {None}]
WholeObject == [offset |-> 0, length |-> None]
Reading == {"open", "eof", "broken"}

TypeOK ==
    /\ SessionTypeOK
    /\ object \in Object \cup {NoObject} /\ puts \in Nat
    /\ status \in [Readers -> {"none", "requesting", "refused"} \cup Reading]
    /\ opts \in [Readers -> ReadOptions]
    /\ body \in [Readers -> Run] /\ pending \in [Readers -> Run]
    /\ source \in [Readers -> Object \cup {NoObject}]
    /\ got \in [Readers -> Seq(Nat)]

Init ==
    /\ SessionInit
    /\ object = NoObject /\ puts = 0
    /\ status = [r \in Readers |-> "none"]
    /\ opts = [r \in Readers |-> WholeObject]
    /\ body = [r \in Readers |-> NoBytes] /\ pending = [r \in Readers |-> NoBytes]
    /\ source = [r \in Readers |-> NoObject]
    /\ got = [r \in Readers |-> <<>>]

-----------------------------------------------------------------------------
(* The range of a request, and what the service makes of it.               *)

SaturatingAdd_Wraps(m, n) == (m + n) % (MaxU64 + 1)          \* mutant
SaturatingAdd(m, n) == Smaller(m + n, MaxU64)
SaturatingSub(m, n) == IF m < n THEN 0 ELSE m - n

\* http_range: the header and its two numbers; `bytes=n-` has no second one.
HttpRange(o) ==
    [header |-> o.length # None \/ o.offset # 0,
     first |-> o.offset,
     last |-> IF o.length = None
              THEN None
              ELSE SaturatingAdd(o.offset, SaturatingSub(o.length, 1))]

\* A range that ends before it begins is ignored.
IsRanged(range) == range.header /\ (range.last # None => range.first <= range.last)

IsInvalid(range, size) == IsRanged(range) /\ range.first >= size

Selected(range, size) ==
    IF ~ IsRanged(range) THEN Bytes(0, size)
    ELSE Bytes(range.first,
               IF range.last = None THEN size ELSE Smaller(range.last + 1, size))

-----------------------------------------------------------------------------
(* Other clients.                                                          *)

PutObject(size) ==
    /\ puts < MaxVersions
    /\ puts' = puts + 1
    /\ object' = [version |-> puts', size |-> size]
    /\ UNCHANGED <<session, reader>>

DeleteObject ==
    /\ object # NoObject /\ object' = NoObject
    /\ UNCHANGED <<session, puts, reader>>

-----------------------------------------------------------------------------
(* open.                                                                   *)

\* The owner has a reader whose body is `run`, read from `found_object`.
Opened(r, run, found_object) ==
    /\ status' = [status EXCEPT ![r] = "open"]
    /\ body' = [body EXCEPT ![r] = run]
    /\ pending' = [pending EXCEPT ![r] = NoBytes]
    /\ source' = [source EXCEPT ![r] = found_object]
    /\ got' = [got EXCEPT ![r] = <<>>]

Becomes(r, state) ==
    /\ status' = [status EXCEPT ![r] = state]
    /\ UNCHANGED <<opts, body, pending, source, got>>

\* The owner has no reader.
Gone(r, state) ==
    /\ status' = [status EXCEPT ![r] = state]
    /\ opts' = [opts EXCEPT ![r] = WholeObject]
    /\ body' = [body EXCEPT ![r] = NoBytes] /\ pending' = [pending EXCEPT ![r] = NoBytes]
    /\ source' = [source EXCEPT ![r] = NoObject]
    /\ got' = [got EXCEPT ![r] = <<>>]

\* An open for no bytes asks nobody.
Open(r, o) ==
    /\ connecting = "no" /\ status[r] \in {"none", "refused"}
    /\ IF client = NoClient
       THEN Gone(r, "refused")
       ELSE /\ opts' = [opts EXCEPT ![r] = o]
            /\ IF o.length = 0
               THEN Opened(r, NoBytes, NoObject)
               ELSE /\ status' = [status EXCEPT ![r] = "requesting"]
                    /\ UNCHANGED <<body, pending, source, got>>
    /\ UNCHANGED <<session, bucket>>

\* The service answers the GET.  NoSuchKey is an error, but InvalidRange is
\* a reader at its end.
Answer(r) ==
    LET range == HttpRange(opts[r]) IN
    /\ status[r] = "requesting"
    /\ IF object = NoObject
       THEN Gone(r, "refused")
       ELSE /\ Opened(r, IF IsInvalid(range, object.size)
                         THEN NoBytes
                         ELSE Selected(range, object.size), object)
            /\ UNCHANGED opts
    /\ UNCHANGED <<session, bucket>>

\* Any other answer, or none.
GetFails(r) ==
    /\ status[r] = "requesting" /\ Gone(r, "refused")
    /\ UNCHANGED <<session, bucket>>

-----------------------------------------------------------------------------
(* poll_read, for a buffer that is not empty.                              *)

\* What a poll can copy from: the rest of the last chunk, or the next chunk
\* that arrives, empty ones being passed over.
Chunks(r) ==
    IF Size(pending[r]) > 0
    THEN {pending[r]}
    ELSE {Bytes(body[r].lo, hi) : hi \in body[r].lo + 1 .. body[r].hi}

\* How much of it the buffer takes.
Taken_Room(chunk, room) == room                              \* mutant
Taken(chunk, room) == Smaller(Size(chunk), room)

PollRead(r, room) ==
    /\ status[r] = "open"
    /\ \E chunk \in Chunks(r) :
           LET n == Taken(chunk, room) IN
           /\ got' = [got EXCEPT ![r] = @ \o [i \in 1 .. n |-> chunk.lo + i - 1]]
           /\ pending' = [pending EXCEPT ![r] = Bytes(chunk.lo + n, chunk.hi)]
           /\ body' = [body EXCEPT ![r].lo = IF Size(pending[r]) > 0 THEN @ ELSE chunk.hi]
           /\ status' = [status EXCEPT ![r] = IF n = 0 THEN "eof" ELSE @]
    /\ UNCHANGED <<session, bucket, opts, source>>

\* Mutant: the end of the body is taken for a chunk that is still to come.
PollEof_Pending(r) ==
    /\ status[r] = "open" /\ Size(pending[r]) = 0 /\ Size(body[r]) = 0
    /\ UNCHANGED vars

\* The body has ended: Ok(0).
PollEof(r) ==
    /\ status[r] = "open" /\ Size(pending[r]) = 0 /\ Size(body[r]) = 0
    /\ Becomes(r, "eof")
    /\ UNCHANGED <<session, bucket>>

\* The transfer has broken off; the owner stops reading.
PollFails(r) ==
    /\ status[r] = "open" /\ Size(pending[r]) = 0
    /\ Becomes(r, "broken")
    /\ UNCHANGED <<session, bucket>>

\* The owner drops the reader, or the future of its open.
Drop(r) ==
    /\ status[r] \in {"requesting"} \cup Reading
    /\ Gone(r, "none")
    /\ UNCHANGED <<session, bucket>>

-----------------------------------------------------------------------------

\* No open borrows the AwsS3Fs.
NotBorrowed == \A r \in Readers : status[r] # "requesting"

Asked(r) == Answer(r) \/ GetFails(r)
Served(r) == (\E room \in 1 .. MaxSize : PollRead(r, room)) \/ PollEof(r)

Next ==
    \/ NotBorrowed /\ SessionNext /\ UNCHANGED <<bucket, reader>>
    \/ \E size \in 0 .. MaxSize : PutObject(size)
    \/ DeleteObject
    \/ \E r \in Readers :
           (\E o \in ReadOptions : Open(r, o)) \/ Asked(r) \/ Served(r) \/ PollFails(r) \/ Drop(r)

Spec == Init /\ [][Next]_vars

\* The SDK answers or gives up, and an owner that reads goes on reading: what
\* is left of a body arrives unless the transfer breaks off.
FairSpec == Spec /\ \A r \in Readers : WF_vars(Asked(r)) /\ WF_vars(Served(r))

-----------------------------------------------------------------------------

\* The bytes an owner has asked for, whatever fits into 64 bits.
Wanted(o, size) ==
    Bytes(Smaller(o.offset, size),
          IF o.length = None THEN size ELSE Smaller(o.offset + o.length, size))

\* A reader hands out, in order and once each, the bytes asked for of one
\* object that was there while open ran, whoever overwrites or deletes it and
\* whether or not the client stays connected; it ends when it has handed out
\* all of them (client.rs 509-579, read.rs 38-64).  Only an open for no
\* bytes may succeed without an object.
ReadsRange ==
    \A r \in Readers : status[r] \in Reading =>
        IF source[r] = NoObject
        THEN opts[r].length = 0 /\ got[r] = <<>>
        ELSE LET wanted == Wanted(opts[r], source[r].size) IN
             /\ Len(got[r]) <= Size(wanted)
             /\ \A i \in 1 .. Len(got[r]) : got[r][i] = wanted.lo + i - 1
             /\ status[r] = "eof" => Len(got[r]) = Size(wanted)

\* An owner that goes on reading comes to the end or to an error.
ReadEnds == \A r \in Readers : status[r] \in {"requesting", "open"}
                                    ~> status[r] \notin {"requesting", "open"}
=============================================================================
