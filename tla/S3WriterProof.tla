--------------------------- MODULE S3WriterProof ---------------------------
(***************************************************************************)
(* Theorems about the write streams, for any number of streams, parts and  *)
(* bytes: the type invariant, that the stored object is whole, and that a  *)
(* finish that returned Ok has stored it.                                  *)
(***************************************************************************)
EXTENDS S3WriterInv, TLAPS

-----------------------------------------------------------------------------
(* Types.                                                                  *)

\* A request is a call of its stream.
LEMMA RequestType ==
    ASSUME NEW op \in {"none", "create", "part", "put", "complete", "abort"},
           NEW w \in Writers, NEW id \in UploadId \cup {NoId}
    PROVE  Request(op, w, id) \in Call /\ Request(op, w, id).by = w
  BY DEF Request, Call, Bytes, Body

\* So is the request that uploads a part ...
LEMMA PartRequestType ==
    ASSUME NEW w \in Writers, NEW id \in UploadId \cup {NoId},
           NEW number \in Nat, NEW body \in Body
    PROVE  PartRequest(w, id, number, body) \in Call
               /\ PartRequest(w, id, number, body).by = w
  <1>1. Request("part", w, id) \in Call /\ Request("part", w, id).by = w
    BY RequestType
  <1> QED
    BY <1>1 DEF PartRequest, Call

\* ... the one that completes an upload, and the one that puts an object.
LEMMA FinalRequestType ==
    ASSUME NEW w \in Writers, NEW id \in UploadId \cup {NoId},
           NEW list \in Seq(Part), NEW body \in Body
    PROVE  /\ [Request("complete", w, id) EXCEPT !.list = list] \in Call
           /\ [Request("put", w, id) EXCEPT !.body = body] \in Call
  <1>1. Request("complete", w, id) \in Call /\ Request("put", w, id) \in Call
    BY RequestType
  <1> QED
    BY <1>1 DEF Call

\* Sending a call of the stream keeps the type of the calls awaited.
LEMMA SendType ==
    ASSUME CallsTypeOK, NEW w \in Writers, NEW c \in Call, c.by = w, Send(w, c)
    PROVE  /\ call' \in [Writers -> Call]
           /\ \A v \in Writers : call'[v].by = v
           /\ reply' \in [Writers -> {"none", "ok", "error"}]
           /\ resent' \in [Writers -> Nat]
  BY DEF CallsTypeOK, Send

\* The service keeps its type when it executes a call.
LEMMA ExecutesType ==
    ASSUME ServiceTypeOK, NEW c \in Call, NEW id \in UploadId \cup {NoId}, Executes(c, id)
    PROVE  ServiceTypeOK'
  <1>1. CASE CreateUpload(c, id)
    BY <1>1 DEF CreateUpload, ServiceTypeOK
  <1>2. CASE UploadPart(c, id)
    BY <1>2 DEF UploadPart, IsOpen, ServiceTypeOK, Call, Part
  <1>3. CASE PutObject(c, id)
    <2>1. [by |-> c.by, pieces |-> <<c.body>>] \in Content
      BY DEF Call, Content
    <2> QED
      BY <1>3, <2>1 DEF PutObject, Store, ServiceTypeOK
  <1>4. CASE CompleteUpload(c, id)
    <2>1. \A i \in 1 .. Len(c.list) : c.list[i].etag \in Body
      <3>1. c.list \in Seq(Part)
        BY DEF Call
      <3>2. \A i \in 1 .. Len(c.list) : c.list[i] \in Part
        BY <3>1
      <3> QED
        BY <3>2 DEF Part
    <2>2. Len(c.list) \in Nat
      BY DEF Call
    <2>3. [i \in 1 .. Len(c.list) |-> c.list[i].etag] \in Seq(Body)
      BY <2>1, <2>2
    <2>4. [by |-> c.by, pieces |-> [i \in 1 .. Len(c.list) |-> c.list[i].etag]] \in Content
      BY <2>3 DEF Call, Content
    <2> QED
      BY <1>4, <2>4 DEF CompleteUpload, IsOpen, Store, ServiceTypeOK
  <1>5. CASE AbortUpload(c, id)
    BY <1>5 DEF AbortUpload, IsOpen, ServiceTypeOK
  <1> QED
    BY <1>1, <1>2, <1>3, <1>4, <1>5 DEF Executes

\* What poll_pending takes from the part future has the type of the stream.
LEMMA SettledType ==
    ASSUME StreamTypeOK, NEW w \in Writers
    PROVE  /\ SettledId(w) \in UploadId \cup {NoId}
           /\ SettledParts(w) \in Seq(Part)
           /\ NextPartNumber(SettledParts(w)) \in Nat
  <1>1. pending[w] \in PartInFlight /\ parts[w] \in Seq(Part)
    BY DEF StreamTypeOK
  <1>2. [number |-> pending[w].number, etag |-> pending[w].body] \in Part
    BY <1>1 DEF PartInFlight, Part
  <1>3. SettledParts(w) \in Seq(Part)
    BY <1>1, <1>2 DEF SettledParts
  <1> QED
    BY <1>1, <1>3 DEF SettledId, NextPartNumber, StreamTypeOK, PartInFlight

\* No part is in flight.
LEMMA NoPartType == NoPart \in PartInFlight
  BY DEF NoPart, PartInFlight, Bytes, Body

\* poll_write takes what the buffer has room for (write.rs 232-234).
LEMMA FilledType ==
    ASSUME StreamTypeOK, NEW w \in Writers, NEW len \in Nat
    PROVE  /\ Filled(w, len) \in Body
           /\ Filled(w, len).lo = buffer[w].lo
           /\ Filled(w, len).lo <= Filled(w, len).hi
           /\ Size(Filled(w, len)) <= PartSize
  <1>1. buffer[w] \in Body /\ buffer[w].lo <= buffer[w].hi /\ Size(buffer[w]) < PartSize
    BY DEF StreamTypeOK
  <1>2. PartSize \in Nat
    BY ServiceAssumption
  <1> QED
    BY <1>1, <1>2 DEF Filled, Bytes, Body, Size

\* Starting a part with what the buffer holds keeps the type of the stream.
LEMMA StartPartType ==
    ASSUME StreamTypeOK, NEW w \in Writers, NEW body \in Body, StartPart(w, body)
    PROVE  /\ buffer' \in [Writers -> Body]
           /\ \A v \in Writers : buffer'[v].lo <= buffer'[v].hi /\ Size(buffer'[v]) < PartSize
           /\ pending' \in [Writers -> PartInFlight]
  <1>1. Bytes(body.hi, body.hi) \in Body /\ Size(Bytes(body.hi, body.hi)) < PartSize
    BY ServiceAssumption DEF Bytes, Body, Size
  <1>2. [id |-> SettledId(w), number |-> NextPartNumber(SettledParts(w)), body |-> body]
            \in PartInFlight
    BY SettledType DEF PartInFlight
  <1> QED
    BY <1>1, <1>2 DEF StartPart, StreamTypeOK, Bytes, Body

\* A stream that awaits nothing any more awaits calls of the right type.
LEMMA HangType ==
    ASSUME CallsTypeOK, NEW w \in Writers, Hang(w), UNCHANGED loose
    PROVE  CallsTypeOK'
  <1>1. NoCall(w) \in Call /\ NoCall(w).by = w
    BY RequestType DEF NoCall
  <1> QED
    BY <1>1, SendType DEF Hang, loose, CallsTypeOK

\* A stream that is gone keeps the types.
LEMMA GoneType ==
    ASSUME StreamTypeOK, CallsTypeOK, NEW w \in Writers,
           NEW last \in Closed, NEW finished \in BOOLEAN, NEW late \in SUBSET Call,
           Gone(w, last, finished, late), UNCHANGED <<buffer, failed>>
    PROVE  StreamTypeOK' /\ CallsTypeOK'
  <1>1. /\ NoCall(w) \in Call /\ NoCall(w).by = w
        /\ Request("abort", w, upload_id[w]) \in Call
    BY RequestType DEF NoCall, StreamTypeOK
  <1>2. PICK runtime \in Runtimes :
            /\ stray' = stray \cup late \cup SpawnedAbort(w, finished, runtime)
            /\ aborts' = aborts \cup SpawnedAbort(w, finished, runtime)
    BY DEF Gone
  <1>3. stray' \subseteq Call /\ aborts' \subseteq Call
    BY <1>1, <1>2 DEF SpawnedAbort, CallsTypeOK
  <1>4. CallsTypeOK'
    BY <1>1, <1>3, SendType DEF Gone, Hang, CallsTypeOK
  <1>5. <<>> \in Seq(Part)
    OBVIOUS
  <1>6. StreamTypeOK'
    BY <1>5, NoPartType DEF Gone, StreamTypeOK
  <1> QED
    BY <1>4, <1>6

\* So does a finish that fails.
LEMMA FailFinishType ==
    ASSUME StreamTypeOK, CallsTypeOK, NEW w \in Writers, NEW id \in UploadId \cup {NoId},
           FailFinish(w, id), UNCHANGED <<buffer, failed>>
    PROVE  StreamTypeOK' /\ CallsTypeOK'
  <1>1. CASE Return(w, "error")
    <2>1. Gone(w, "error", TRUE, {})
      BY <1>1 DEF Return
    <2>2. "error" \in Closed /\ {} \in SUBSET Call
      BY DEF Closed
    <2> QED
      BY <2>1, <2>2, GoneType
  <1>2. CASE id # NoId /\ ~ Return(w, "error")
    <2>1. Request("abort", w, id) \in Call /\ Request("abort", w, id).by = w
      BY RequestType
    <2>2. CallsTypeOK'
      BY <1>2, <2>1, SendType DEF FailFinish, CallsTypeOK
    <2>3. StreamTypeOK'
      BY <1>2, NoPartType DEF FailFinish, StreamTypeOK, InFinish
    <2> QED
      BY <2>2, <2>3
  <1> QED
    BY <1>1, <1>2 DEF FailFinish

\* The type invariant holds initially ...
LEMMA TypeInit == Init => TypeOK
  <1> SUFFICES ASSUME Init PROVE TypeOK
    OBVIOUS
  <1>1. \A w \in Writers : NoCall(w) \in Call /\ NoCall(w).by = w
    BY RequestType DEF NoCall
  <1>2. ServiceTypeOK
    BY DEF Init, ServiceInit, ServiceTypeOK
  <1>3. StreamTypeOK
    BY NoPartType, ServiceAssumption DEF Init, StreamTypeOK, Bytes, Body, Size
  <1>4. CallsTypeOK
    BY <1>1 DEF Init, CallsTypeOK
  <1> QED
    BY <1>2, <1>3, <1>4 DEF TypeOK

\* ... and every step keeps it.
LEMMA TypeStep == TypeOK /\ [Next]_vars => TypeOK'
  <1> SUFFICES ASSUME TypeOK, [Next]_vars PROVE TypeOK'
    OBVIOUS
  <1> USE DEF TypeOK
  <1>1. ASSUME NEW w \in Writers, Answer(w) PROVE TypeOK'
    <2>1. call[w] \in Call
      BY DEF CallsTypeOK
    <2>2. StreamTypeOK'
      BY <1>1 DEF Answer, stream, StreamTypeOK
    <2>4. ASSUME NEW id \in UploadId \cup {NoId}, Executes(call[w], id),
                 call' = [call EXCEPT ![w].id = id], reply' = [reply EXCEPT ![w] = "ok"]
          PROVE  TypeOK'
      <3>1. ServiceTypeOK'
        BY <2>1, <2>4, ExecutesType
      <3>2. [call[w] EXCEPT !.id = id] \in Call /\ [call[w] EXCEPT !.id = id].by = call[w].by
        BY <2>1 DEF Call
      <3>3. CallsTypeOK'
        BY <1>1, <2>4, <3>2 DEF Answer, loose, CallsTypeOK
      <3> QED
        BY <2>2, <3>1, <3>3
    <2>5. CASE Rejects(call[w]) /\ reply' = [reply EXCEPT ![w] = "error"] /\ UNCHANGED call
      BY <1>1, <2>2, <2>5 DEF Answer, Rejects, loose, service, CallsTypeOK, ServiceTypeOK
    <2> QED
      BY <1>1, <2>4, <2>5 DEF Answer
  <1>2. ASSUME NEW w \in Writers, Resend(w) PROVE TypeOK'
    BY <1>2 DEF Resend, stream, service, ServiceTypeOK, StreamTypeOK, CallsTypeOK
  <1>3. ASSUME NEW w \in Writers, GiveUp(w) PROVE TypeOK'
    BY <1>3 DEF GiveUp, stream, service, ServiceTypeOK, StreamTypeOK, CallsTypeOK
  <1>4. ASSUME NEW c \in stray, ServeStray(c) PROVE TypeOK'
    <2>1. c \in Call
      BY <1>4 DEF CallsTypeOK
    <2>2. StreamTypeOK' /\ CallsTypeOK'
      BY <1>4 DEF ServeStray, stream, StreamTypeOK, CallsTypeOK
    <2>3. ServiceTypeOK'
      BY <1>4, <2>1, ExecutesType DEF ServeStray, Rejects, service, ServiceTypeOK
    <2> QED
      BY <2>2, <2>3
  <1>5. ASSUME NEW c \in stray, LoseStray(c) PROVE TypeOK'
    BY <1>5 DEF LoseStray, stream, service, ServiceTypeOK, StreamTypeOK, CallsTypeOK
  <1>6. ASSUME NEW w \in Writers, PollStarts(w) PROVE TypeOK'
    <2>1. pending[w] \in PartInFlight
      BY DEF StreamTypeOK
    <2>2. PICK c \in Call : c.by = w /\ Send(w, c)
      BY <1>6, <2>1, RequestType, PartRequestType DEF PollStarts, PartInFlight
    <2>3. CallsTypeOK'
      BY <1>6, <2>2, SendType DEF PollStarts, loose, CallsTypeOK
    <2> QED
      BY <1>6, <2>3 DEF PollStarts, stream, service, ServiceTypeOK, StreamTypeOK
  <1>7. ASSUME NEW w \in Writers, PollCreated(w) PROVE TypeOK'
    <2>1. pending[w] \in PartInFlight /\ call[w] \in Call
      BY DEF StreamTypeOK, CallsTypeOK
    <2>2. call[w].id \in UploadId \cup {NoId}
      BY <2>1 DEF Call
    <2>3. PICK c \in Call : c.by = w /\ Send(w, c)
      BY <1>7, <2>1, <2>2, PartRequestType DEF PollCreated, PartInFlight
    <2>4. CallsTypeOK'
      BY <1>7, <2>3, SendType DEF PollCreated, loose, CallsTypeOK
    <2>5. [pending[w] EXCEPT !.id = call[w].id] \in PartInFlight
      BY <2>1, <2>2 DEF PartInFlight
    <2> QED
      BY <1>7, <2>4, <2>5 DEF PollCreated, service, ServiceTypeOK, StreamTypeOK
  <1>8. ASSUME NEW w \in Writers, NEW len \in 1 .. (MaxBytes - buffer[w].hi), PollWrite(w, len)
        PROVE  TypeOK'
    <2>1. len \in Nat
      BY <1>8, WriterAssumption DEF StreamTypeOK, Body
    <2>2. CallsTypeOK'
      BY <1>8, HangType DEF PollWrite
    <2>3. /\ upload_id' \in [Writers -> UploadId \cup {NoId}]
          /\ parts' \in [Writers -> Seq(Part)]
      BY <1>8, SettledType DEF PollWrite, Settle, StreamTypeOK
    <2>4. CASE StartPart(w, Filled(w, len))
      BY <1>8, <2>1, <2>2, <2>3, <2>4, FilledType, StartPartType
      DEF PollWrite, service, ServiceTypeOK, StreamTypeOK
    <2>5. CASE /\ ~ IsFull(Filled(w, len))
               /\ buffer' = [buffer EXCEPT ![w] = Filled(w, len)]
               /\ pending' = [pending EXCEPT ![w] = NoPart]
      <3>1. Filled(w, len) \in Body /\ Filled(w, len).lo <= Filled(w, len).hi
        BY <2>1, FilledType
      <3>2. Size(Filled(w, len)) < PartSize
        BY <2>1, <2>5, <3>1, FilledType, ServiceAssumption DEF IsFull, Size, Body
      <3> QED
        BY <1>8, <2>2, <2>3, <2>5, <3>1, <3>2, NoPartType
        DEF PollWrite, service, ServiceTypeOK, StreamTypeOK
    <2> QED
      BY <1>8, <2>4, <2>5 DEF PollWrite
  <1>9. ASSUME NEW w \in Writers, PollFlush(w) PROVE TypeOK'
    <2>1. CallsTypeOK'
      BY <1>9, HangType DEF PollFlush
    <2> QED
      BY <1>9, <2>1, SettledType, NoPartType
      DEF PollFlush, Settle, service, ServiceTypeOK, StreamTypeOK
  <1>10. ASSUME NEW w \in Writers, PollFails(w) PROVE TypeOK'
    <2>1. CallsTypeOK'
      BY <1>10, HangType DEF PollFails
    <2> QED
      BY <1>10, <2>1, SettledType, NoPartType
      DEF PollFails, Settle, service, ServiceTypeOK, StreamTypeOK
  <1>11. ASSUME NEW w \in Writers, Create(w) PROVE TypeOK'
    BY <1>11 DEF Create, awaited, loose, service, ServiceTypeOK, StreamTypeOK, CallsTypeOK
  <1>12. ASSUME NEW w \in Writers, Finish(w) PROVE TypeOK'
    BY <1>12 DEF Finish, awaited, loose, service, ServiceTypeOK, StreamTypeOK, CallsTypeOK,
                 InFinish
  <1>13. ASSUME NEW w \in Writers, Drop(w) PROVE TypeOK'
    <2>1. PICK late \in SUBSET {call[w]} :
              Gone(w, IF phase[w] = "open" THEN "dropped" ELSE "cancelled", FALSE, late)
      BY <1>13 DEF Drop
    <2>2. late \in SUBSET Call
      BY <2>1 DEF CallsTypeOK
    <2>3. (IF phase[w] = "open" THEN "dropped" ELSE "cancelled") \in Closed
      BY DEF Closed
    <2> QED
      BY <1>13, <2>1, <2>2, <2>3, GoneType DEF Drop, service, ServiceTypeOK
  <1>14. ASSUME NEW w \in Writers, DrainFails(w) PROVE TypeOK'
    BY <1>14, SettledType, FailFinishType DEF DrainFails, service, ServiceTypeOK
  <1>15. ASSUME NEW w \in Writers, FinishCallFails(w) PROVE TypeOK'
    <2>1. upload_id[w] \in UploadId \cup {NoId}
      BY DEF StreamTypeOK
    <2> QED
      BY <1>15, <2>1, FailFinishType DEF FinishCallFails, service, ServiceTypeOK
  <1>16. ASSUME NEW w \in Writers, FinishOk(w) \/ AbortReturns(w) PROVE TypeOK'
    <2>1. PICK last \in Closed : Gone(w, last, TRUE, {})
      BY <1>16 DEF FinishOk, AbortReturns, Return, Closed
    <2>2. UNCHANGED service /\ UNCHANGED <<buffer, failed>> /\ {} \in SUBSET Call
      BY <1>16 DEF FinishOk, AbortReturns
    <2> QED
      BY <2>1, <2>2, GoneType DEF service, ServiceTypeOK
  <1>17. ASSUME NEW w \in Writers, Drained(w) PROVE TypeOK'
    <2> DEFINE id == SettledId(w)
               list == SettledParts(w)
               rest == [buffer[w] EXCEPT !.lo = buffer[w].hi]
    <2>1. id \in UploadId \cup {NoId} /\ list \in Seq(Part) /\ NextPartNumber(list) \in Nat
      BY SettledType
    <2>2. buffer[w] \in Body /\ rest \in Body /\ rest.lo <= rest.hi /\ Size(rest) < PartSize
      BY ServiceAssumption DEF StreamTypeOK, Body, Size
    <2>3. /\ phase' \in [Writers -> {"absent", "open"} \cup InFinish \cup Closed]
          /\ parts' \in [Writers -> Seq(Part)]
      <3>1. CASE phase' = [phase EXCEPT ![w] = "completing"] /\ parts' = [parts EXCEPT ![w] = <<>>]
        BY <3>1 DEF StreamTypeOK, InFinish
      <3>2. CASE \/ phase' = [phase EXCEPT ![w] = "putting"] /\ parts' = [parts EXCEPT ![w] = list]
                 \/ phase' = [phase EXCEPT ![w] = "last_part"] /\ parts' = [parts EXCEPT ![w] = list]
        BY <2>1, <3>2 DEF StreamTypeOK, InFinish
      <3> QED
        BY <1>17, <3>1, <3>2, Zenon DEF Drained, SendComplete
    <2>4. PICK c \in Call : c.by = w /\ Send(w, c)
      <3>1. PartRequest(w, id, NextPartNumber(list), buffer[w]) \in Call
                /\ PartRequest(w, id, NextPartNumber(list), buffer[w]).by = w
        BY <2>1, <2>2, PartRequestType
      <3>2. [Request("put", w, NoId) EXCEPT !.body = buffer[w]] \in Call
        BY <2>1, <2>2, FinalRequestType
      <3>3. [Request("complete", w, id) EXCEPT !.list = list] \in Call
        BY <2>1, <2>2, FinalRequestType
      <3>4. [Request("put", w, NoId) EXCEPT !.body = buffer[w]].by = w
                /\ [Request("complete", w, id) EXCEPT !.list = list].by = w
        BY DEF Request
      <3> QED
        BY <1>17, <3>1, <3>2, <3>3, <3>4 DEF Drained, SendComplete
    <2>5. CallsTypeOK'
      BY <1>17, <2>4, SendType DEF Drained, loose, CallsTypeOK
    <2>6. StreamTypeOK'
      BY <1>17, <2>1, <2>2, <2>3, NoPartType DEF Drained, StreamTypeOK
    <2> QED
      BY <1>17, <2>5, <2>6 DEF Drained, service, ServiceTypeOK
  <1>18. ASSUME NEW w \in Writers, LastPartDone(w) PROVE TypeOK'
    <2> DEFINE list == Append(parts[w], [number |-> call[w].number, etag |-> call[w].body])
    <2>1. list \in Seq(Part) /\ upload_id[w] \in UploadId \cup {NoId}
      <3>1. [number |-> call[w].number, etag |-> call[w].body] \in Part
        BY DEF CallsTypeOK, Call, Part
      <3> QED
        BY <3>1 DEF StreamTypeOK
    <2>2. [Request("complete", w, upload_id[w]) EXCEPT !.list = list] \in Call
              /\ [Request("complete", w, upload_id[w]) EXCEPT !.list = list].by = w
      <3>1. Bytes(0, 0) \in Body
        BY DEF Bytes, Body
      <3> QED
        BY <2>1, <3>1, FinalRequestType DEF Request
    <2>3. CallsTypeOK'
      BY <1>18, <2>2, SendType DEF LastPartDone, SendComplete, loose, CallsTypeOK
    <2>4. StreamTypeOK'
      BY <1>18 DEF LastPartDone, SendComplete, StreamTypeOK, InFinish
    <2> QED
      BY <1>18, <2>3, <2>4 DEF LastPartDone, service, ServiceTypeOK
  <1>19. CASE UNCHANGED vars
    BY <1>19 DEF vars, stream, awaited, loose, service, ServiceTypeOK, StreamTypeOK, CallsTypeOK
  <1> QED
    BY <1>1, <1>2, <1>3, <1>4, <1>5, <1>6, <1>7, <1>8, <1>9, <1>10, <1>11, <1>12, <1>13, <1>14,
       <1>15, <1>16, <1>17, <1>18, <1>19
    DEF Next, PollOpen, PollFinish, Transport

\* Every variable has its type, and no buffer ever holds a whole part between
\* two polls (write.rs 235-237), so a poll of poll_write always has room.
THEOREM TypeCorrect == Spec => []TypeOK
  BY TypeInit, TypeStep, PTL DEF Spec
=============================================================================
