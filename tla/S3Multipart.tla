---------------------------- MODULE S3Multipart ----------------------------
(***************************************************************************)
(* The part of the S3 service that the write stream talks to: one object   *)
(* key and the multipart uploads started for it.  It is external code,     *)
(* modelled from the calls in src/src/stream/write.rs and from what that   *)
(* file says of the service (lines 5-7 and 85): parts are numbered, every  *)
(* part but the last has a minimum size, there is a maximum number of      *)
(* parts, and an object appears only when the upload is completed.         *)
(*                                                                         *)
(* The bytes a stream accepts are numbered 0, 1, 2, ... in the order in    *)
(* which it accepts them, so a Vec<u8> of consecutive accepted bytes is    *)
(* the interval [lo, hi): only the extent of a body matters here.          *)
(***************************************************************************)
EXTENDS Naturals, Sequences

CONSTANTS
    Writers,    \* the write streams opened on the key
    UploadId,   \* the upload ids the service can hand out
    NoId,       \* Option::None for an upload id
    NoObject,   \* what the key holds before anything is stored
    PartSize,   \* PART_SIZE, also the service's minimum part size
    MaxParts    \* the service's limit on the number of parts (10,000)

VARIABLES
    uploads,    \* UploadId -> "unused", "open", or "closed"
    stored,     \* UploadId -> the set of parts the service holds
    object,     \* what the key holds: a content, or NoObject
    versions    \* every content the key has held

service == <<uploads, stored, object, versions>>

Bytes(lo, hi) == [lo |-> lo, hi |-> hi]
Size(body) == body.hi - body.lo

Body == [lo : Nat, hi : Nat]
Part == [number : Nat, etag : Body]             \* CompletedPart
Content == [by : Writers, pieces : Seq(Body)]

ASSUME ServiceAssumption ==
    /\ PartSize \in Nat \ {0}
    /\ MaxParts \in Nat \ {0}
    /\ NoId \notin UploadId
    /\ NoObject \notin Content

(***************************************************************************)
(* A request.  An etag identifies the bytes of a part, so the interval     *)
(* itself plays its role.                                                  *)
(***************************************************************************)
Call == [op : {"none", "create", "part", "put", "complete", "abort"},
         by : Writers, id : UploadId \cup {NoId},
         number : Nat, body : Body, list : Seq(Part)]

ServiceTypeOK ==
    /\ uploads \in [UploadId -> {"unused", "open", "closed"}]
    /\ stored \in [UploadId -> SUBSET Part]
    /\ object \in Content \cup {NoObject}
    /\ versions \subseteq Content

ServiceInit ==
    /\ uploads = [id \in UploadId |-> "unused"]
    /\ stored = [id \in UploadId |-> {}]
    /\ object = NoObject
    /\ versions = {}

-----------------------------------------------------------------------------

IsOpen(id) == id \in UploadId /\ uploads[id] = "open"

\* What CompleteMultipartUpload demands of the parts it is given.
ListIsValid(c) ==
    /\ c.list # <<>>
    /\ \A i \in 1 .. Len(c.list) :
           /\ c.list[i] \in stored[c.id]
           /\ i > 1 => c.list[i].number > c.list[i - 1].number
           /\ i < Len(c.list) => Size(c.list[i].etag) >= PartSize

Store(content) ==
    /\ object' = content
    /\ versions' = versions \cup {content}

CreateUpload(c, id) ==
    /\ c.op = "create"
    /\ id \in UploadId /\ uploads[id] = "unused"
    /\ uploads' = [uploads EXCEPT ![id] = "open"]
    /\ UNCHANGED <<stored, object, versions>>

UploadPart(c, id) ==
    /\ c.op = "part" /\ id = c.id
    /\ IsOpen(id) /\ c.number \in 1 .. MaxParts
    /\ stored' = [stored EXCEPT ![id] =
           {p \in @ : p.number # c.number}
               \cup {[number |-> c.number, etag |-> c.body]}]
    /\ UNCHANGED <<uploads, object, versions>>

PutObject(c, id) ==
    /\ c.op = "put" /\ id = c.id
    /\ Store([by |-> c.by, pieces |-> <<c.body>>])
    /\ UNCHANGED <<uploads, stored>>

CompleteUpload(c, id) ==
    /\ c.op = "complete" /\ id = c.id
    /\ IsOpen(id) /\ ListIsValid(c)
    /\ Store([by |-> c.by,
              pieces |-> [i \in 1 .. Len(c.list) |-> c.list[i].etag]])
    /\ uploads' = [uploads EXCEPT ![id] = "closed"]
    /\ stored' = [stored EXCEPT ![id] = {}]

AbortUpload(c, id) ==
    /\ c.op = "abort" /\ id = c.id
    /\ IsOpen(id)
    /\ uploads' = [uploads EXCEPT ![id] = "closed"]
    /\ stored' = [stored EXCEPT ![id] = {}]
    /\ UNCHANGED <<object, versions>>

\* The service executes request c; id is the upload it concerns, which is
\* the answer to a "create".
Executes(c, id) ==
    \/ CreateUpload(c, id)
    \/ UploadPart(c, id)
    \/ PutObject(c, id)
    \/ CompleteUpload(c, id)
    \/ AbortUpload(c, id)

\* The service answers request c with an error and does nothing.
Rejects(c) ==
    /\ \/ c.op \in {"part", "complete", "abort"} /\ ~ IsOpen(c.id)
       \/ c.op = "part" /\ c.number \notin 1 .. MaxParts
       \/ c.op = "complete" /\ ~ ListIsValid(c)
    /\ UNCHANGED service
=============================================================================
