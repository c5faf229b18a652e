------------------------------ MODULE S3Writer ------------------------------
(***************************************************************************)
(* The write stream of src/src/stream/write.rs: `create` hands one out,    *)
(* its owner polls it, finishes it, or drops it, and the stream stages an  *)
(* S3 multipart upload one part at a time.  Several streams may be open on *)
(* the same key.                                                           *)
(*                                                                         *)
(* A stream makes progress only while its owner polls it.  Each action is  *)
(* what one poll does up to its next Pending or Ready, a step of the       *)
(* service, or the owner dropping the stream, which may happen between any *)
(* two polls (a cancelled `finish` future drops the stream it owns).       *)
(***************************************************************************)
EXTENDS S3Multipart

CONSTANTS
    MaxBytes,        \* bound: how many bytes the owner of a stream offers
    MaxResend,       \* bound: how often the SDK sends an unanswered call again
    Faulty,          \* the streams whose calls may end in an error of the transport
    Runtimes,        \* is a tokio runtime there when a stream is dropped?
    StopAfterError   \* the owner drops a stream once a poll of it has failed

ASSUME WriterAssumption ==
    /\ MaxBytes \in Nat
    /\ MaxResend \in Nat
    /\ Faulty \subseteq Writers
    /\ Runtimes \subseteq BOOLEAN /\ Runtimes # {}
    /\ StopAfterError \in BOOLEAN

VARIABLES
    phase,       \* where the owner of the stream is
    buffer,      \* S3Writer::buffer; buffer[w].hi counts the accepted bytes
    upload_id,   \* S3Writer::upload_id
    parts,       \* S3Writer::parts
    pending,     \* S3Writer::pending: what the part future has captured
    failed,      \* history: has a poll of the stream returned an error?
    call,        \* the SDK call the stream is awaiting
    reply,       \* "none" until that call has an answer
    resent,      \* how often that call was sent again
    stray,       \* calls nobody awaits that the service may still execute
    aborts       \* history: the abort calls made so far

stream == <<phase, buffer, upload_id, parts, pending, failed>>
awaited == <<call, reply, resent>>
loose == <<stray, aborts>>
vars == <<service, stream, awaited, loose>>

PartInFlight == [id : UploadId \cup {NoId}, number : Nat, body : Body]
NoPart == [id |-> NoId, number |-> 0, body |-> Bytes(0, 0)]

Request(op, w, id) ==
    [op |-> op, by |-> w, id |-> id, number |-> 0, body |-> Bytes(0, 0),
     list |-> <<>>]
PartRequest(w, id, number, body) ==
    [Request("part", w, id) EXCEPT !.number = number, !.body = body]
NoCall(w) == Request("none", w, NoId)

InFinish == {"draining", "putting", "last_part", "completing", "aborting"}
Closed == {"ok", "error", "dropped", "cancelled"}

StreamTypeOK ==
    /\ phase \in [Writers -> {"absent", "open"} \cup InFinish \cup Closed]
    /\ buffer \in [Writers -> Body]
    /\ upload_id \in [Writers -> UploadId \cup {NoId}]
    /\ parts \in [Writers -> Seq(Part)]
    /\ pending \in [Writers -> PartInFlight]
    /\ failed \in [Writers -> BOOLEAN]
    /\ \A w \in Writers : buffer[w].lo <= buffer[w].hi /\ Size(buffer[w]) < PartSize

CallsTypeOK ==
    /\ call \in [Writers -> Call]
    /\ \A w \in Writers : call[w].by = w
    /\ reply \in [Writers -> {"none", "ok", "error"}]
    /\ resent \in [Writers -> Nat]
    /\ stray \subseteq Call
    /\ aborts \subseteq Call

TypeOK == ServiceTypeOK /\ StreamTypeOK /\ CallsTypeOK

Init ==
    /\ ServiceInit
    /\ phase = [w \in Writers |-> "absent"]
    /\ buffer = [w \in Writers |-> Bytes(0, 0)]
    /\ upload_id = [w \in Writers |-> NoId]
    /\ parts = [w \in Writers |-> <<>>]
    /\ pending = [w \in Writers |-> NoPart]
    /\ failed = [w \in Writers |-> FALSE]
    /\ call = [w \in Writers |-> NoCall(w)]
    /\ reply = [w \in Writers |-> "none"]
    /\ resent = [w \in Writers |-> 0]
    /\ stray = {}
    /\ aborts = {}

-----------------------------------------------------------------------------
(* The calls of the SDK.                                                   *)

\* The stream sends c and awaits its answer.
Send(w, c) ==
    /\ call' = [call EXCEPT ![w] = c]
    /\ reply' = [reply EXCEPT ![w] = "none"]
    /\ resent' = [resent EXCEPT ![w] = 0]

\* The stream awaits nothing any more.
Hang(w) == Send(w, NoCall(w))

InFlight(w) == call[w].op # "none" /\ reply[w] = "none"
Answered(w, ops, answer) == call[w].op \in ops /\ reply[w] = answer

\* The service executes or rejects the awaited call and the answer arrives.
Answer(w) ==
    /\ InFlight(w)
    /\ \/ \E id \in UploadId \cup {NoId} :
              /\ Executes(call[w], id)
              /\ call' = [call EXCEPT ![w].id = id]
              /\ reply' = [reply EXCEPT ![w] = "ok"]
       \/ /\ Rejects(call[w])
          /\ reply' = [reply EXCEPT ![w] = "error"]
          /\ UNCHANGED call
    /\ UNCHANGED <<stream, resent, loose>>

\* No answer arrives and the SDK sends the call again: the first copy of it
\* is still on its way, or was executed and its answer lost.
Resend(w) ==
    /\ InFlight(w) /\ resent[w] < MaxResend
    /\ resent' = [resent EXCEPT ![w] = @ + 1]
    /\ stray' = stray \cup {call[w]}
    /\ UNCHANGED <<service, stream, call, reply, aborts>>

\* No answer arrives and the SDK reports an error.
GiveUp(w) ==
    /\ w \in Faulty /\ InFlight(w)
    /\ reply' = [reply EXCEPT ![w] = "error"]
    /\ stray' = stray \cup {call[w]}
    /\ UNCHANGED <<service, stream, call, resent, aborts>>

\* A call nobody awaits is executed or rejected ...
ServeStray(c) ==
    /\ c \in stray
    /\ (\E id \in UploadId \cup {NoId} : Executes(c, id)) \/ Rejects(c)
    /\ stray' = stray \ {c}
    /\ UNCHANGED <<stream, call, reply, resent, aborts>>

\* ... or never reaches the service: its future was dropped before all of it
\* was sent.  A spawned abort is lost only with the transport or the runtime.
LoseStray(c) ==
    /\ c \in stray
    /\ c.op = "abort" => c.by \in Faulty
    /\ stray' = stray \ {c}
    /\ UNCHANGED <<service, stream, call, reply, resent, aborts>>

-----------------------------------------------------------------------------
(* poll_pending: the part future and what a poll that finds it ready does. *)

Driven_WriteOnly == {"open"}        \* mutant: finish does not drive the future
Driven == {"open", "draining"}

\* The first poll of the part future sends its first call ...
PollStarts(w) ==
    /\ phase[w] \in Driven
    /\ pending[w] # NoPart /\ call[w].op = "none"
    /\ Send(w, IF pending[w].id = NoId
               THEN Request("create", w, NoId)
               ELSE PartRequest(w, pending[w].id, pending[w].number, pending[w].body))
    /\ UNCHANGED <<service, stream, loose>>

\* ... and once the upload is created the future uploads the part under it.
PollCreated(w) ==
    /\ phase[w] \in Driven
    /\ Answered(w, {"create"}, "ok")
    /\ pending' = [pending EXCEPT ![w].id = call[w].id]
    /\ Send(w, PartRequest(w, call[w].id, pending[w].number, pending[w].body))
    /\ UNCHANGED <<service, phase, buffer, upload_id, parts, failed, loose>>

PartDone(w) == pending[w] = NoPart \/ Answered(w, {"part"}, "ok")
PartFailed(w) == pending[w] # NoPart /\ Answered(w, {"create", "part"}, "error")

\* upload_id and parts once poll_pending has taken the outcome.
SettledId_Forgotten(w) == upload_id[w]         \* mutant: the id is not kept
SettledId(w) == IF pending[w].id # NoId THEN pending[w].id ELSE upload_id[w]

SettledParts_Forgotten(w) == parts[w]          \* mutant: the part is not kept
SettledParts(w) ==
    IF pending[w] = NoPart
    THEN parts[w]
    ELSE Append(parts[w], [number |-> pending[w].number, etag |-> pending[w].body])

Settle(w, list) ==
    /\ upload_id' = [upload_id EXCEPT ![w] = SettledId(w)]
    /\ parts' = [parts EXCEPT ![w] = list]

NextPartNumber_FromZero(list) == Len(list)     \* mutant
NextPartNumber(list) == Len(list) + 1

\* start_part: `body` becomes the part in flight.  Its future captures what
\* the stream knows now and is not polled yet.
StartPart(w, body) ==
    /\ buffer' = [buffer EXCEPT ![w] = Bytes(body.hi, body.hi)]
    /\ pending' = [pending EXCEPT ![w] =
           [id |-> SettledId(w), number |-> NextPartNumber(SettledParts(w)), body |-> body]]

-----------------------------------------------------------------------------
(* The owner polls the stream.                                             *)

MayPoll(w) == phase[w] = "open" /\ (StopAfterError => ~ failed[w])

\* AwsS3Fs::create.
Create(w) ==
    /\ phase[w] = "absent"
    /\ phase' = [phase EXCEPT ![w] = "open"]
    /\ UNCHANGED <<service, buffer, upload_id, parts, pending, failed, awaited, loose>>

\* The buffer and the bytes a write of len more takes into it.
Filled(w, len) ==
    LET room == PartSize - Size(buffer[w])
    IN  Bytes(buffer[w].lo, buffer[w].hi + (IF len < room THEN len ELSE room))

IsFull_Late(body) == Size(body) > PartSize     \* mutant: one byte too late
IsFull(body) == Size(body) = PartSize

\* poll_write of len bytes, ready: it takes at most what fills the buffer,
\* and a full buffer becomes the next part.
PollWrite(w, len) ==
    /\ MayPoll(w) /\ PartDone(w)
    /\ Settle(w, SettledParts(w))
    /\ \/ /\ IsFull(Filled(w, len))
          /\ StartPart(w, Filled(w, len))
       \/ /\ ~ IsFull(Filled(w, len))
          /\ buffer' = [buffer EXCEPT ![w] = Filled(w, len)]
          /\ pending' = [pending EXCEPT ![w] = NoPart]
    /\ Hang(w)
    /\ UNCHANGED <<service, phase, failed, loose>>

\* Mutant: a flush uploads what is in the buffer.
PollFlush_Uploads(w) ==
    /\ MayPoll(w) /\ PartDone(w) /\ Size(buffer[w]) > 0
    /\ Settle(w, SettledParts(w))
    /\ StartPart(w, buffer[w])
    /\ Hang(w)
    /\ UNCHANGED <<service, phase, failed, loose>>

\* poll_flush or poll_close, ready: they wait for the part in flight and do
\* nothing about the buffer.
PollFlush(w) ==
    /\ MayPoll(w) /\ pending[w] # NoPart /\ PartDone(w)
    /\ Settle(w, SettledParts(w))
    /\ pending' = [pending EXCEPT ![w] = NoPart]
    /\ Hang(w)
    /\ UNCHANGED <<service, phase, buffer, failed, loose>>

\* Any of the three finds that the part has failed and returns the error.
PollFails(w) ==
    /\ MayPoll(w) /\ PartFailed(w)
    /\ Settle(w, parts[w])
    /\ pending' = [pending EXCEPT ![w] = NoPart]
    /\ failed' = [failed EXCEPT ![w] = TRUE]
    /\ Hang(w)
    /\ UNCHANGED <<service, phase, buffer, loose>>

-----------------------------------------------------------------------------
(* How a stream ends.                                                      *)

\* Drop for S3Writer: a stream that is not finished and knows its upload
\* spawns the abort, if there is a runtime to spawn it on.
SpawnedAbort(w, finished, runtime) ==
    IF finished \/ upload_id[w] = NoId \/ ~ runtime
    THEN {}
    ELSE {Request("abort", w, upload_id[w])}

\* The stream is gone in phase `last`; its abort is spawned, and `late` are
\* the calls it awaited that still reach the service.
Gone(w, last, finished, late) ==
    /\ phase' = [phase EXCEPT ![w] = last]
    /\ \E runtime \in Runtimes :
           /\ stray' = stray \cup late \cup SpawnedAbort(w, finished, runtime)
           /\ aborts' = aborts \cup SpawnedAbort(w, finished, runtime)
    /\ upload_id' = [upload_id EXCEPT ![w] = NoId]
    /\ parts' = [parts EXCEPT ![w] = <<>>]
    /\ pending' = [pending EXCEPT ![w] = NoPart]
    /\ Hang(w)

\* finish marks the stream finished, returns `result`, and drops it.
Return_Unmarked(w, result) == Gone(w, result, FALSE, {})    \* mutant
Return(w, result) == Gone(w, result, TRUE, {})

\* The owner drops the stream, or the finish future that owns it, between
\* two polls; a call in flight may still reach the service.
Drop(w) ==
    /\ phase[w] \in {"open"} \cup InFinish
    /\ \E late \in SUBSET {call[w]} :
           /\ late # {} => InFlight(w)
           /\ Gone(w, IF phase[w] = "open" THEN "dropped" ELSE "cancelled", FALSE, late)
    /\ UNCHANGED <<service, buffer, failed>>

-----------------------------------------------------------------------------
(* finish.                                                                 *)

Finish(w) ==
    /\ MayPoll(w)
    /\ phase' = [phase EXCEPT ![w] = "draining"]
    /\ UNCHANGED <<service, buffer, upload_id, parts, pending, failed, awaited, loose>>

\* complete() has failed: abort() takes the upload id, if there is one, and
\* finish awaits the answer.
FailFinish_NoAbort(w, id) == Return(w, "error")             \* mutant
FailFinish(w, id) ==
    \/ id = NoId /\ Return(w, "error")
    \/ /\ id # NoId
       /\ phase' = [phase EXCEPT ![w] = "aborting"]
       /\ upload_id' = [upload_id EXCEPT ![w] = NoId]
       /\ pending' = [pending EXCEPT ![w] = NoPart]
       /\ Send(w, Request("abort", w, id))
       /\ aborts' = aborts \cup {Request("abort", w, id)}
       /\ UNCHANGED <<parts, stray>>

\* complete_multipart_upload with the parts taken out of the stream.
SendComplete(w, id, list) ==
    /\ phase' = [phase EXCEPT ![w] = "completing"]
    /\ parts' = [parts EXCEPT ![w] = <<>>]
    /\ Send(w, [Request("complete", w, id) EXCEPT !.list = list])

\* The part in flight is done: what is left in the buffer is stored in one
\* request, or becomes the last part, or the upload can be completed.
Drained(w) ==
    LET id == SettledId(w) IN
    /\ phase[w] = "draining" /\ PartDone(w)
    /\ upload_id' = [upload_id EXCEPT ![w] = id]
    /\ pending' = [pending EXCEPT ![w] = NoPart]
    /\ buffer' = [buffer EXCEPT ![w].lo = buffer[w].hi]
    /\ \/ /\ id = NoId
          /\ phase' = [phase EXCEPT ![w] = "putting"]
          /\ parts' = [parts EXCEPT ![w] = SettledParts(w)]
          /\ Send(w, [Request("put", w, NoId) EXCEPT !.body = buffer[w]])
       \/ /\ id # NoId /\ Size(buffer[w]) > 0
          /\ phase' = [phase EXCEPT ![w] = "last_part"]
          /\ parts' = [parts EXCEPT ![w] = SettledParts(w)]
          /\ Send(w, PartRequest(w, id, NextPartNumber(SettledParts(w)), buffer[w]))
       \/ /\ id # NoId /\ Size(buffer[w]) = 0
          /\ SendComplete(w, id, SettledParts(w))
    /\ UNCHANGED <<service, failed, loose>>

DrainFails(w) ==
    /\ phase[w] = "draining" /\ PartFailed(w)
    /\ FailFinish(w, SettledId(w))
    /\ UNCHANGED <<service, buffer, failed>>

LastPartDone(w) ==
    /\ phase[w] = "last_part" /\ reply[w] = "ok"
    /\ SendComplete(w, upload_id[w],
                    Append(parts[w], [number |-> call[w].number, etag |-> call[w].body]))
    /\ UNCHANGED <<service, buffer, upload_id, pending, failed, loose>>

FinishCallFails(w) ==
    /\ phase[w] \in {"putting", "last_part", "completing"} /\ reply[w] = "error"
    /\ FailFinish(w, upload_id[w])
    /\ UNCHANGED <<service, buffer, failed>>

\* Mutant: the answer to the last call is not awaited.
FinishOk_Unawaited(w) ==
    /\ phase[w] \in {"putting", "completing"}
    /\ Return(w, "ok")
    /\ UNCHANGED <<service, buffer, failed>>

FinishOk(w) ==
    /\ phase[w] \in {"putting", "completing"} /\ reply[w] = "ok"
    /\ Return(w, "ok")
    /\ UNCHANGED <<service, buffer, failed>>

AbortReturns(w) ==
    /\ phase[w] = "aborting" /\ reply[w] # "none"
    /\ Return(w, "error")
    /\ UNCHANGED <<service, buffer, failed>>

-----------------------------------------------------------------------------

\* What a poll of the finish future does.
PollFinish(w) ==
    \/ phase[w] = "draining" /\ (PollStarts(w) \/ PollCreated(w))
    \/ Drained(w) \/ DrainFails(w) \/ LastPartDone(w)
    \/ FinishCallFails(w) \/ FinishOk(w) \/ AbortReturns(w)

PollOpen(w) ==
    \/ phase[w] = "open" /\ (PollStarts(w) \/ PollCreated(w))
    \/ \E len \in 1 .. (MaxBytes - buffer[w].hi) : PollWrite(w, len)
    \/ PollFlush(w) \/ PollFails(w)

Transport(w) == Answer(w) \/ Resend(w) \/ GiveUp(w)

Next ==
    \/ \E w \in Writers :
           Create(w) \/ PollOpen(w) \/ Finish(w) \/ PollFinish(w) \/ Drop(w)
               \/ Transport(w)
    \/ \E c \in stray : ServeStray(c) \/ LoseStray(c)

Spec == Init /\ [][Next]_vars

\* The owner of a finish future goes on polling it, and the service answers:
\* an async runtime polls a woken task, and the SDK bounds its attempts.
FairSpec ==
    /\ Spec
    /\ \A w \in Writers : WF_vars(PollFinish(w)) /\ WF_vars(Answer(w) \/ GiveUp(w))
=============================================================================
