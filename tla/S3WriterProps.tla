--------------------------- MODULE S3WriterProps ---------------------------
(***************************************************************************)
(* What must hold of the write streams of S3Writer.                        *)
(***************************************************************************)
EXTENDS S3Writer

-----------------------------------------------------------------------------
(* Correctness of the object.                                              *)

\* The pieces follow one another without a gap or an overlap, from byte 0 to
\* byte n.
Tiles(pieces, n) ==
    /\ \A i \in 1 .. Len(pieces) :
           /\ pieces[i].lo = (IF i = 1 THEN 0 ELSE pieces[i - 1].hi)
           /\ pieces[i].lo <= pieces[i].hi
    /\ n = (IF pieces = <<>> THEN 0 ELSE pieces[Len(pieces)].hi)

\* What the key holds is every byte that one stream accepted, in order.
ObjectIsWhole ==
    object # NoObject => Tiles(object.pieces, buffer[object.by].hi)

\* The object is whole whatever fails and whoever else writes the key, as
\* long as the owner drops a stream once a poll of it has failed, as `?` in
\* a caller of poll_write does (write.rs 61-67, 90-139).
WholeObject == StopAfterError => ObjectIsWhole

\* A finish that returned Ok has stored the object of its stream, and no
\* abort was ever called for it (write.rs 252-266).
OkIsStored ==
    \A w \in Writers : phase[w] = "ok" =>
        /\ \E v \in versions : v.by = w
        /\ \A c \in aborts : c.by # w

\* The calls that may still be executed.
Live == stray \cup {call[w] : w \in {v \in Writers : InFlight(v)}}

\* What S3 demands of the parts of an upload (write.rs 5-6): they are
\* numbered from 1 and every one but the last has the full size.
FullParts ==
    \A c \in Live : c.op = "complete" =>
        \A i \in 1 .. Len(c.list) :
            /\ c.list[i].number = i
            /\ i < Len(c.list) => Size(c.list[i].etag) = PartSize

\* How the owners of the streams see them: a content by its size, if it is whole.
AsSeen(content) ==
    LET pieces == content.pieces
        extent == IF pieces = <<>> THEN 0 ELSE pieces[Len(pieces)].hi
    IN  [by |-> content.by, size |-> IF Tiles(pieces, extent) THEN extent ELSE MaxBytes + 1]

SeenState == [w \in Writers |-> IF phase[w] \in InFinish THEN "finishing" ELSE phase[w]]
SeenSize == [w \in Writers |-> buffer[w].hi]
SeenObject == IF object = NoObject THEN NoObject ELSE AsSeen(object)
SeenVersions == {AsSeen(v) : v \in versions}

\* The streams implement AtomicObject.
Atomic == INSTANCE AtomicObject WITH
    MaxSize <- MaxBytes, state <- SeenState, size <- SeenSize,
    object <- SeenObject, versions <- SeenVersions

\* Every behaviour of the streams is one of AtomicObject: the whole object at
\* one instant, not before finish is called, and stored if finish says Ok.
ImplementsAtomicObject == Atomic!Spec

-----------------------------------------------------------------------------
(* Uploads left behind on the service.                                     *)

\* A stream that still exists knows about the upload.
Tracked(id) ==
    \E w \in Writers : phase[w] \notin Closed
                          /\ id \in {upload_id[w], pending[w].id, call[w].id}

Forgotten(id) ==
    uploads[id] = "open" /\ ~ Tracked(id) /\ \A c \in aborts : c.id # id

\* An upload that was left open without an attempt to abort it holds at most
\* one part: only the first part of a stream can be in flight while the
\* stream does not know its upload (write.rs 63-66, 267-269).
LeakBound ==
    Runtimes = {TRUE} => \A id \in UploadId : Forgotten(id) =>
        \A p, q \in stored[id] : p = q

\* "a dropped writer aborts the multipart upload on a best-effort basis"
\* (write.rs 7-8): an upload with a part in it is not forgotten.
DropAborts ==
    Runtimes = {TRUE} =>
        \A id \in UploadId : Forgotten(id) => stored[id] = {}

-----------------------------------------------------------------------------
(* Progress.                                                               *)

\* A finish that is polled to its end returns, whatever fails on the way
\* (write.rs 89-139, 252-259).
FinishReturns ==
    \A w \in Writers : phase[w] = "draining" ~> phase[w] \in Closed

\* A stream without faults of its own: its finish returns Ok unless it is
\* cancelled, if what it accepted fits into the parts S3 allows, whatever
\* befalls the other streams of the key.
FinishSucceeds ==
    \A w \in Writers \ Faulty :
        phase[w] = "draining" /\ buffer[w].hi <= PartSize * MaxParts
            ~> phase[w] \in {"ok", "cancelled"}
=============================================================================
