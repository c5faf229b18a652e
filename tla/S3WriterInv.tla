---------------------------- MODULE S3WriterInv ----------------------------
(***************************************************************************)
(* The inductive invariant behind WholeObject and OkIsStored.              *)
(*                                                                         *)
(* WholeObject speaks of the object on the service; that a step stores a   *)
(* whole object follows from what the request carries, and that from what  *)
(* the stream held when it sent the request.  So the invariant follows the *)
(* bytes: from the parts, the part in flight and the buffer of a stream    *)
(* (Follows), into the call it awaits (StreamInv), into every copy of that *)
(* call that may still be executed (CallInv), and into what the key has    *)
(* held (ContentInv).                                                      *)
(***************************************************************************)
EXTENDS S3WriterProps

\* Parts numbered from 1, each of which begins where the last one ends.
Chain(list) ==
    \A i \in 1 .. Len(list) :
        /\ list[i].number = i
        /\ list[i].etag.lo = (IF i = 1 THEN 0 ELSE list[i - 1].etag.hi)
        /\ list[i].etag.lo <= list[i].etag.hi

End(list) == IF list = <<>> THEN 0 ELSE list[Len(list)].etag.hi

\* A part with this number and body continues the list.
Continues(list, number, body) ==
    /\ number = Len(list) + 1
    /\ body.lo = End(list)
    /\ body.lo <= body.hi

\* The phases in which the stream accepts nothing more and its requests may
\* store the object.
Begun == {"putting", "last_part", "completing", "aborting", "ok", "error", "cancelled"}

\* The buffer follows the part in flight, and that follows the parts.
Follows(w) ==
    IF pending[w] = NoPart
    THEN buffer[w].lo = End(parts[w])
    ELSE /\ Continues(parts[w], pending[w].number, pending[w].body)
         /\ pending[w].body.hi = buffer[w].lo

OpenInv(w) ==
    /\ call[w].op \in {"none", "create", "part"}
    /\ call[w].op # "none" => pending[w] # NoPart
    /\ call[w].op = "part" => pending[w].id # NoId
    /\ Answered(w, {"create"}, "ok") => call[w].id # NoId
    /\ parts[w] # <<>> => upload_id[w] # NoId
    /\ ~ failed[w] => Follows(w)

StreamInv(w) ==
    /\ Chain(parts[w])
    /\ phase[w] = "absent" =>
           /\ pending[w] = NoPart /\ parts[w] = <<>> /\ buffer[w] = Bytes(0, 0)
           /\ call[w].op = "none"
    /\ phase[w] \in {"open", "draining"} => OpenInv(w)
    /\ phase[w] = "draining" => ~ failed[w]
    /\ phase[w] = "putting" => call[w].op = "put"
    /\ phase[w] = "last_part" =>
           /\ call[w].op = "part"
           /\ Continues(parts[w], call[w].number, call[w].body)
           /\ call[w].body.hi = buffer[w].hi
    /\ phase[w] = "completing" => call[w].op = "complete"

CallInv(c) ==
    /\ c.op \in {"put", "complete"} => phase[c.by] \in Begun
    /\ c.op = "put" => c.body = Bytes(0, buffer[c.by].hi)
    /\ c.op = "complete" => Chain(c.list) /\ End(c.list) = buffer[c.by].hi

ContentInv(v) == phase[v.by] \in Begun /\ Tiles(v.pieces, buffer[v.by].hi)

WholeInv ==
    /\ TypeOK
    /\ \A w \in Writers : StreamInv(w) /\ CallInv(call[w])
    /\ \A c \in stray : CallInv(c)
    /\ \A v \in versions : ContentInv(v)
    /\ object = NoObject \/ object \in versions

-----------------------------------------------------------------------------

\* The phases of a stream that has called an abort, and those that follow.
GivenUp == {"aborting", "error", "dropped", "cancelled"}

\* The answer "ok" to a put or a complete means that it was executed, and
\* aborts are called only by streams that are giving up.
StoredInv(w) ==
    /\ phase[w] = "ok" => \E v \in versions : v.by = w
    /\ phase[w] \in {"putting", "completing"} => call[w].op \in {"put", "complete"}
    /\ Answered(w, {"put", "complete"}, "ok") => \E v \in versions : v.by = w

OkInv ==
    /\ TypeOK
    /\ \A w \in Writers : StoredInv(w)
    /\ \A c \in aborts : phase[c.by] \in GivenUp

-----------------------------------------------------------------------------
(* The inductive invariants behind FullParts and LeakBound.                *)

\* Parts numbered from 1, all of them full but perhaps the last.
NumberedFull(list) ==
    \A i \in 1 .. Len(list) :
        /\ list[i].number = i
        /\ i < Len(list) => Size(list[i].etag) = PartSize

AllFull(list) == \A i \in 1 .. Len(list) : Size(list[i].etag) = PartSize

\* A stream holds full parts only, and the next one continues their numbers.
FullInv(w) ==
    /\ NumberedFull(parts[w]) /\ AllFull(parts[w])
    /\ pending[w] # NoPart =>
           /\ pending[w].number = Len(parts[w]) + 1
           /\ Size(pending[w].body) = PartSize
    /\ phase[w] \in {"absent", "open", "draining"} /\ call[w].op # "none" => pending[w] # NoPart
    /\ phase[w] = "last_part" => pending[w] = NoPart /\ call[w].number = Len(parts[w]) + 1

FullCall(c) == c.op = "complete" => NumberedFull(c.list)

PartsInv ==
    /\ TypeOK
    /\ \A w \in Writers : FullInv(w) /\ FullCall(call[w])
    /\ \A c \in stray : FullCall(c)

\* The upload was closed, or its stream knows it, or its abort was called.
Known(id) ==
    \/ uploads[id] = "closed"
    \/ \E w \in Writers : upload_id[w] = id
    \/ \E c \in aborts : c.id = id

IsStarted(id) == id # NoId => uploads[id] # "unused"

\* A stream that does not know its upload has its first part in flight, and
\* a stream that returns Ok has seen its upload closed.
KnowsInv(w) ==
    /\ phase[w] \in {"absent", "putting", "aborting"} \cup Closed => upload_id[w] = NoId
    /\ phase[w] \in {"absent", "open", "draining"} =>
           /\ call[w].op \in {"none", "create", "part"}
           /\ call[w].op # "none" => pending[w] # NoPart
           /\ call[w].op # "none" => (call[w].op = "create" <=> pending[w].id = NoId)
           /\ parts[w] # <<>> => upload_id[w] # NoId
    /\ phase[w] = "last_part" => call[w].op = "part" /\ call[w].id = upload_id[w]
    /\ phase[w] = "completing" =>
           /\ call[w].op = "complete" /\ upload_id[w] # NoId /\ call[w].id = upload_id[w]
           /\ reply[w] = "ok" => uploads[upload_id[w]] = "closed"
    /\ IsStarted(upload_id[w]) /\ IsStarted(pending[w].id)
    /\ Answered(w, {"create"}, "ok") => call[w].id # NoId /\ IsStarted(call[w].id)
    /\ pending[w] # NoPart =>
           /\ upload_id[w] \in {NoId, pending[w].id}
           /\ upload_id[w] = NoId => pending[w].number = 1

\* A request to store a part for an upload that nobody knows is for part 1.
KnownPart(c) ==
    c.op = "part" =>
        /\ c.id # NoId /\ IsStarted(c.id)
        /\ Known(c.id) \/ c.number = 1

LeakInv ==
    /\ TypeOK
    /\ \A w \in Writers : KnowsInv(w) /\ KnownPart(call[w])
    /\ \A c \in stray : KnownPart(c)
    /\ \A id \in UploadId :
           /\ \A p, q \in stored[id] : p.number = q.number => p = q
           /\ Known(id) \/ \A p \in stored[id] : p.number = 1
=============================================================================
