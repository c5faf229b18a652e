-------------------------- MODULE S3WriterUploadProof --------------------------
(***************************************************************************)
(* Uploads.  What a stream demands of the service: every list of parts it  *)
(* completes is one that S3 accepts (FullParts, by PartsInv), whether or   *)
(* not the owner goes on after an error, and for any number of streams,    *)
(* parts, and repeated calls.  And what it leaves behind is bounded        *)
(* (LeakBound, by LeakInv): an upload that no stream and no abort knows of *)
(* only has a first part, because a stream learns the upload of a part     *)
(* when it takes its outcome and starts the next part after that.          *)
(***************************************************************************)
EXTENDS S3WriterProof

-----------------------------------------------------------------------------
(* Lists of full parts.                                                    *)

\* The empty list.
LEMMA EmptyFull == NumberedFull(<<>>) /\ AllFull(<<>>)
BY DEF NumberedFull, AllFull

\* A list of full parts goes on with the next number.
LEMMA AppendFull ==
    ASSUME NEW list \in Seq(Part), NumberedFull(list), AllFull(list),
           NEW number, number = Len(list) + 1, NEW body \in Body
    PROVE  LET longer == Append(list, [number |-> number, etag |-> body]) IN
           NumberedFull(longer) /\ (Size(body) = PartSize => AllFull(longer))
<1> DEFINE part == [number |-> number, etag |-> body]
           longer == Append(list, part)
<1>1. part \in Part
  BY DEF Part
<1>2. /\ Len(longer) = Len(list) + 1 /\ Len(list) \in Nat
      /\ \A i \in 1 .. Len(list) : longer[i] = list[i]
      /\ longer[Len(list) + 1] = part
  BY <1>1
<1> HIDE DEF longer
<1>3. \A i \in 1 .. Len(longer) : i \in 1 .. Len(list) \/ i = Len(list) + 1
  BY <1>2
<1>4. NumberedFull(longer)
  <2> SUFFICES ASSUME NEW i \in 1 .. Len(longer)
               PROVE  /\ longer[i].number = i
                      /\ i < Len(longer) => Size(longer[i].etag) = PartSize
    BY DEF NumberedFull
  <2>1. CASE i \in 1 .. Len(list)
    BY <1>2, <2>1 DEF NumberedFull, AllFull
  <2>2. CASE i = Len(list) + 1
    BY <1>2, <2>2
  <2> QED
    BY <1>3, <2>1, <2>2
<1>5. Size(body) = PartSize => AllFull(longer)
  BY <1>2, <1>3 DEF AllFull
<1> QED
  BY <1>4, <1>5 DEF longer

\* What poll_pending leaves in the stream is full.
LEMMA SettledFull ==
    ASSUME TypeOK, NEW w \in Writers, FullInv(w)
    PROVE  NumberedFull(SettledParts(w)) /\ AllFull(SettledParts(w))
<1>1. parts[w] \in Seq(Part) /\ pending[w] \in PartInFlight /\ pending[w].body \in Body
  BY DEF TypeOK, StreamTypeOK, PartInFlight
<1>2. CASE pending[w] = NoPart
  BY <1>2 DEF SettledParts, FullInv
<1>3. CASE pending[w] # NoPart
  BY <1>1, <1>3, AppendFull DEF SettledParts, FullInv
<1> QED
  BY <1>2, <1>3

-----------------------------------------------------------------------------
(* FullParts.                                                              *)

\* A step of stream w keeps PartsInv if it keeps it for w and for the calls
\* that are new on their way to the service.
LEMMA PartsKeep ==
    ASSUME PartsInv, TypeOK', NEW w \in Writers,
           \A v \in Writers \ {w} :
               /\ phase'[v] = phase[v] /\ parts'[v] = parts[v]
               /\ pending'[v] = pending[v] /\ call'[v] = call[v],
           FullInv(w)', FullCall(call[w])', \A c \in stray' \ stray : FullCall(c)
    PROVE  PartsInv'
<1>1. ASSUME NEW v \in Writers \ {w} PROVE FullInv(v)' /\ FullCall(call[v])'
  BY DEF PartsInv, FullInv, FullCall
<1>2. \A c \in stray' : FullCall(c)
  BY DEF PartsInv
<1> QED
  BY <1>1, <1>2 DEF PartsInv, FullCall

\* A stream that is gone holds no parts.
LEMMA GoneIsFull ==
    ASSUME PartsInv, TypeOK', NEW w \in Writers, NEW last \in Closed, NEW finished,
           NEW late \in SUBSET {call[w]}, Gone(w, last, finished, late)
    PROVE  PartsInv'
<1>1. TypeOK
  BY DEF PartsInv
<1>2. /\ phase'[w] = last /\ parts'[w] = <<>> /\ pending'[w] = NoPart /\ call'[w] = NoCall(w)
      /\ \A v \in Writers \ {w} :
             /\ phase'[v] = phase[v] /\ parts'[v] = parts[v]
             /\ pending'[v] = pending[v] /\ call'[v] = call[v]
  BY <1>1 DEF Gone, Hang, Send, TypeOK, StreamTypeOK, CallsTypeOK
<1>3. FullInv(w)' /\ FullCall(call[w])'
  BY <1>2, EmptyFull DEF FullInv, FullCall, NoCall, Request, Closed
<1>4. ASSUME NEW c \in stray' \ stray PROVE FullCall(c)
  <2>1. c = call[w] \/ c = Request("abort", w, upload_id[w])
    BY <1>4 DEF Gone, SpawnedAbort
  <2> QED
    BY <2>1 DEF PartsInv, FullCall, Request
<1> QED
  BY <1>2, <1>3, <1>4, PartsKeep

\* A stream that aborts completes nothing.
LEMMA FailFinishIsFull ==
    ASSUME PartsInv, TypeOK', NEW w \in Writers, NEW id, FailFinish(w, id)
    PROVE  PartsInv'
<1>1. CASE Return(w, "error")
  BY <1>1, GoneIsFull DEF Return, Closed
<1>2. CASE ~ Return(w, "error")
  <2>1. TypeOK /\ FullInv(w)
    BY DEF PartsInv
  <2>2. /\ phase'[w] = "aborting" /\ parts' = parts /\ stray' = stray /\ pending'[w] = NoPart
        /\ call'[w] = Request("abort", w, id)
        /\ \A v \in Writers \ {w} :
               phase'[v] = phase[v] /\ pending'[v] = pending[v] /\ call'[v] = call[v]
    BY <1>2, <2>1 DEF FailFinish, Send, TypeOK, StreamTypeOK, CallsTypeOK
  <2>3. FullInv(w)' /\ FullCall(call[w])'
    BY <2>1, <2>2 DEF FullInv, FullCall, Request
  <2> QED
    BY <2>2, <2>3, PartsKeep
<1> QED
  BY <1>1, <1>2

\* The streams start with no parts ...
LEMMA PartsInit == Init => PartsInv
<1> SUFFICES ASSUME Init PROVE PartsInv
  OBVIOUS
<1>1. \A w \in Writers : FullInv(w) /\ FullCall(call[w])
  BY EmptyFull DEF Init, FullInv, FullCall, NoCall, Request
<1> QED
  BY <1>1, TypeInit DEF Init, PartsInv

\* ... and every step keeps the invariant.
LEMMA PartsStep ==
    ASSUME PartsInv, [Next]_vars
    PROVE  PartsInv'
<1>1. TypeOK /\ TypeOK'
  BY TypeStep DEF PartsInv
<1>2. \A w \in Writers : FullInv(w) /\ FullCall(call[w]) /\ call[w] \in Call
  BY <1>1 DEF PartsInv, TypeOK, CallsTypeOK
<1>3. ASSUME NEW w \in Writers, Answer(w) PROVE PartsInv'
  <2>1. /\ UNCHANGED <<phase, parts, pending, stray>>
        /\ call'[w].op = call[w].op /\ call'[w].list = call[w].list
        /\ call'[w].number = call[w].number
        /\ \A v \in Writers \ {w} : call'[v] = call[v]
    BY <1>1, <1>2, <1>3 DEF Answer, stream, loose, TypeOK, CallsTypeOK, Call
  <2>2. FullInv(w)' /\ FullCall(call[w])'
    BY <1>2, <2>1 DEF FullInv, FullCall
  <2> QED
    BY <1>1, <2>1, <2>2, PartsKeep
<1>4. ASSUME NEW w \in Writers, Resend(w) \/ GiveUp(w) PROVE PartsInv'
  <2>1. UNCHANGED <<phase, parts, pending, call>> /\ stray' = stray \cup {call[w]}
    BY <1>4 DEF Resend, GiveUp, stream
  <2>2. FullInv(w)' /\ FullCall(call[w])'
    BY <1>2, <2>1 DEF FullInv, FullCall
  <2> QED
    BY <1>1, <1>2, <2>1, <2>2, PartsKeep
<1>5. ASSUME NEW c \in stray, ServeStray(c) \/ LoseStray(c) PROVE PartsInv'
  BY <1>1, <1>5 DEF ServeStray, LoseStray, stream, PartsInv, FullInv, FullCall
<1>6. ASSUME NEW w \in Writers, NEW c, Send(w, c), c.op # "complete", phase[w] \in Driven,
             UNCHANGED <<phase, parts, stray>>, pending[w] # NoPart,
             NEW id, pending' = [pending EXCEPT ![w].id = id], pending'[w] # NoPart
      PROVE  PartsInv'
  <2>1. /\ call'[w] = c /\ \A v \in Writers \ {w} : call'[v] = call[v] /\ pending'[v] = pending[v]
        /\ pending'[w].number = pending[w].number /\ pending'[w].body = pending[w].body
    BY <1>1, <1>6 DEF Send, TypeOK, StreamTypeOK, CallsTypeOK, PartInFlight
  <2>2. FullInv(w)' /\ FullCall(call[w])'
    BY <1>2, <1>6, <2>1 DEF FullInv, FullCall, Driven
  <2> QED
    BY <1>1, <1>6, <2>1, <2>2, PartsKeep
<1>7. ASSUME NEW w \in Writers, PollStarts(w) PROVE PartsInv'
  <2>1. /\ UNCHANGED <<phase, parts, stray, pending>> /\ phase[w] \in Driven
        /\ pending[w] # NoPart /\ \E c : Send(w, c) /\ c.op # "complete"
    <3> DEFINE c == IF pending[w].id = NoId
                    THEN Request("create", w, NoId)
                    ELSE PartRequest(w, pending[w].id, pending[w].number, pending[w].body)
    <3>1. c.op # "complete"
      BY DEF Request, PartRequest
    <3>2. Send(w, c)
      BY <1>7 DEF PollStarts
    <3> HIDE DEF c
    <3> QED
      BY <1>7, <3>1, <3>2 DEF PollStarts, stream, loose
  <2>2. pending' = [pending EXCEPT ![w].id = pending[w].id]
    BY <1>1, <2>1 DEF TypeOK, StreamTypeOK, PartInFlight
  <2> QED
    BY <1>6, <2>1, <2>2
<1>8. ASSUME NEW w \in Writers, PollCreated(w) PROVE PartsInv'
  <2>1. /\ UNCHANGED <<phase, parts, stray>> /\ phase[w] \in Driven
        /\ \E c : Send(w, c) /\ c.op # "complete"
        /\ pending' = [pending EXCEPT ![w].id = call[w].id]
        /\ call[w].op = "create"
    <3> DEFINE c == PartRequest(w, call[w].id, pending[w].number, pending[w].body)
    <3>1. c.op # "complete"
      BY DEF Request, PartRequest
    <3>2. Send(w, c)
      BY <1>8 DEF PollCreated
    <3> HIDE DEF c
    <3> QED
      BY <1>8, <3>1, <3>2 DEF PollCreated, Answered, loose
  <2>2. pending[w] # NoPart /\ pending[w].number # 0
    <3>1. pending[w] # NoPart /\ pending[w].number = Len(parts[w]) + 1 /\ Len(parts[w]) \in Nat
      BY <1>1, <1>2, <2>1 DEF FullInv, Driven, TypeOK, StreamTypeOK
    <3> QED
      BY <3>1
  <2>3. pending'[w] # NoPart
    BY <1>1, <2>1, <2>2 DEF NoPart, TypeOK, StreamTypeOK, PartInFlight
  <2> QED
    BY <1>6, <2>1, <2>2, <2>3
<1>9. ASSUME NEW w \in Writers, NEW list, NEW next, UNCHANGED <<phase, stray>>,
             phase[w] \in {"open", "draining"}, NumberedFull(list), AllFull(list),
             parts' = [parts EXCEPT ![w] = list],
             pending' = [pending EXCEPT ![w] = next], Hang(w),
             \/ next = NoPart
             \/ next.number = Len(list) + 1 /\ Size(next.body) = PartSize
      PROVE  PartsInv'
  <2>1. /\ parts'[w] = list /\ pending'[w] = next /\ call'[w] = NoCall(w)
        /\ \A v \in Writers \ {w} :
               parts'[v] = parts[v] /\ pending'[v] = pending[v] /\ call'[v] = call[v]
    BY <1>1, <1>9 DEF Hang, Send, TypeOK, StreamTypeOK, CallsTypeOK
  <2>2. FullInv(w)' /\ FullCall(call[w])'
    BY <1>9, <2>1 DEF FullInv, FullCall, NoCall, Request
  <2> QED
    BY <1>1, <1>9, <2>1, <2>2, PartsKeep
<1>10. ASSUME NEW w \in Writers, NEW len, PollWrite(w, len) PROVE PartsInv'
  <2>1. NumberedFull(SettledParts(w)) /\ AllFull(SettledParts(w))
    BY <1>1, <1>2, SettledFull
  <2>2. /\ UNCHANGED <<phase, stray>> /\ phase[w] = "open" /\ Hang(w)
        /\ parts' = [parts EXCEPT ![w] = SettledParts(w)]
        /\ \E next : /\ pending' = [pending EXCEPT ![w] = next]
                     /\ \/ next = NoPart
                        \/ /\ next.number = Len(SettledParts(w)) + 1
                           /\ Size(next.body) = PartSize
    BY <1>10 DEF PollWrite, MayPoll, Settle, StartPart, IsFull, NextPartNumber, loose
  <2> QED
    BY <1>9, <2>1, <2>2
<1>11. ASSUME NEW w \in Writers, PollFlush(w) PROVE PartsInv'
  BY <1>1, <1>2, <1>9, <1>11, SettledFull DEF PollFlush, MayPoll, Settle, loose
<1>12. ASSUME NEW w \in Writers, PollFails(w) PROVE PartsInv'
  BY <1>1, <1>2, <1>9, <1>12 DEF PollFails, MayPoll, Settle, loose, FullInv
<1>13. ASSUME NEW w \in Writers, Create(w) \/ Finish(w) PROVE PartsInv'
  <2>1. /\ UNCHANGED <<parts, pending, call, stray>>
        /\ phase[w] \in {"absent", "open"}
        /\ \E next \in {"open", "draining"} : phase' = [phase EXCEPT ![w] = next]
    BY <1>13 DEF Create, Finish, MayPoll, awaited, loose
  <2>2. /\ phase'[w] \in {"open", "draining"}
        /\ \A v \in Writers \ {w} : phase'[v] = phase[v]
    BY <1>1, <2>1 DEF TypeOK, StreamTypeOK
  <2>3. FullInv(w)' /\ FullCall(call[w])'
    BY <1>2, <2>1, <2>2 DEF FullInv, FullCall
  <2> QED
    BY <1>1, <2>1, <2>2, <2>3, PartsKeep
<1>14. ASSUME NEW w \in Writers, Drop(w) PROVE PartsInv'
  BY <1>1, <1>14, GoneIsFull DEF Drop, Closed
<1>15. ASSUME NEW w \in Writers, FinishOk(w) \/ AbortReturns(w) PROVE PartsInv'
  BY <1>1, <1>15, GoneIsFull DEF FinishOk, AbortReturns, Return, Closed
<1>16. ASSUME NEW w \in Writers, DrainFails(w) \/ FinishCallFails(w) PROVE PartsInv'
  BY <1>1, <1>16, FailFinishIsFull DEF DrainFails, FinishCallFails
<1>17. ASSUME NEW w \in Writers, NEW list, NumberedFull(list), AllFull(list),
              NEW next \in {"putting", "last_part", "completing"}, NEW c, Send(w, c),
              phase' = [phase EXCEPT ![w] = next], parts' = [parts EXCEPT ![w] = list],
              pending' = [pending EXCEPT ![w] = NoPart], FullCall(c), UNCHANGED stray,
              next = "last_part" => c.number = Len(list) + 1
       PROVE  PartsInv'
  <2>1. /\ parts'[w] = list /\ pending'[w] = NoPart /\ call'[w] = c /\ phase'[w] = next
        /\ \A v \in Writers \ {w} :
               /\ parts'[v] = parts[v] /\ pending'[v] = pending[v]
               /\ call'[v] = call[v] /\ phase'[v] = phase[v]
    BY <1>1, <1>17 DEF Send, TypeOK, StreamTypeOK, CallsTypeOK
  <2>2. FullInv(w)' /\ FullCall(call[w])'
    BY <1>17, <2>1 DEF FullInv
  <2> QED
    BY <1>1, <1>17, <2>1, <2>2, PartsKeep
<1>18. ASSUME NEW w \in Writers, Drained(w) PROVE PartsInv'
  <2>1. NumberedFull(SettledParts(w)) /\ AllFull(SettledParts(w))
    BY <1>1, <1>2, SettledFull
  <2>2. /\ pending' = [pending EXCEPT ![w] = NoPart] /\ UNCHANGED stray
    BY <1>18 DEF Drained, loose
  <2> DEFINE id == SettledId(w)
             put == [Request("put", w, NoId) EXCEPT !.body = buffer[w]]
             last == PartRequest(w, id, NextPartNumber(SettledParts(w)), buffer[w])
             complete == [Request("complete", w, id) EXCEPT !.list = SettledParts(w)]
  <2>3. /\ put.op = "put" /\ last.op = "part" /\ last.number = Len(SettledParts(w)) + 1
        /\ complete.list = SettledParts(w)
    BY DEF Request, PartRequest, NextPartNumber
  <2>4. \/ /\ phase' = [phase EXCEPT ![w] = "putting"] /\ Send(w, put)
           /\ parts' = [parts EXCEPT ![w] = SettledParts(w)]
        \/ /\ phase' = [phase EXCEPT ![w] = "last_part"] /\ Send(w, last)
           /\ parts' = [parts EXCEPT ![w] = SettledParts(w)]
        \/ /\ phase' = [phase EXCEPT ![w] = "completing"] /\ Send(w, complete)
           /\ parts' = [parts EXCEPT ![w] = <<>>]
    BY <1>18 DEF Drained, SendComplete
  <2> HIDE DEF put, last, complete
  <2>5. FullCall(put) /\ FullCall(last) /\ FullCall(complete)
    BY <2>1, <2>3 DEF FullCall
  <2> QED
    BY <1>17, <2>1, <2>2, <2>3, <2>4, <2>5, EmptyFull
<1>19. ASSUME NEW w \in Writers, LastPartDone(w) PROVE PartsInv'
  <2>1. /\ phase[w] = "last_part" /\ UNCHANGED <<pending, stray>>
        /\ phase' = [phase EXCEPT ![w] = "completing"] /\ parts' = [parts EXCEPT ![w] = <<>>]
        /\ \E c : /\ Send(w, c)
                  /\ c.list = Append(parts[w], [number |-> call[w].number, etag |-> call[w].body])
    BY <1>19 DEF LastPartDone, SendComplete, Request, loose
  <2>2. NumberedFull(Append(parts[w], [number |-> call[w].number, etag |-> call[w].body]))
    <3>1. /\ parts[w] \in Seq(Part) /\ call[w].body \in Body
          /\ call[w].number = Len(parts[w]) + 1 /\ NumberedFull(parts[w]) /\ AllFull(parts[w])
      BY <1>1, <1>2, <2>1 DEF TypeOK, StreamTypeOK, Call, FullInv
    <3> QED
      BY <3>1, AppendFull
  <2>3. PICK c : /\ Send(w, c)
                 /\ c.list = Append(parts[w], [number |-> call[w].number, etag |-> call[w].body])
    BY <2>1
  <2>4. /\ parts'[w] = <<>> /\ call'[w] = c /\ phase'[w] = "completing" /\ pending'[w] = pending[w]
        /\ \A v \in Writers \ {w} :
               /\ parts'[v] = parts[v] /\ pending'[v] = pending[v]
               /\ call'[v] = call[v] /\ phase'[v] = phase[v]
    BY <1>1, <2>1, <2>3 DEF Send, TypeOK, StreamTypeOK, CallsTypeOK
  <2>5. pending[w] = NoPart
    BY <1>2, <2>1 DEF FullInv
  <2>6. FullInv(w)' /\ FullCall(call[w])'
    BY <2>2, <2>3, <2>4, <2>5, EmptyFull DEF FullInv, FullCall
  <2> QED
    BY <1>1, <2>1, <2>4, <2>6, PartsKeep
<1>20. CASE UNCHANGED vars
  BY <1>1, <1>20 DEF vars, stream, awaited, loose, PartsInv, FullInv, FullCall
<1> QED
  BY <1>3, <1>4, <1>5, <1>7, <1>8, <1>10, <1>11, <1>12, <1>13, <1>14, <1>15, <1>16, <1>18, <1>19,
     <1>20
  DEF Next, PollOpen, PollFinish, Transport

\* Streams, and the calls of theirs that may still be executed, hold full parts
\* with consecutive numbers, at any time and after any error (write.rs 70-136).
THEOREM PartsAccounted == Spec => []PartsInv
<1>1. PartsInv /\ [Next]_vars => PartsInv'
  BY PartsStep
<1> QED
  BY <1>1, PartsInit, PTL DEF Spec

\* Every list of parts that a stream completes is numbered from 1, and every
\* part but the last has the full size (write.rs 5-6, 70-136), after errors too.
THEOREM CompletedListsAreFull == Spec => []FullParts
<1>1. PartsInv => FullParts
  BY DEF PartsInv, FullCall, FullParts, Live, NumberedFull
<1> QED
  BY <1>1, PartsAccounted, PTL

-----------------------------------------------------------------------------
(* Steps of a stream that leave the service alone.                         *)

\* What is known stays known: a step of w may forget an upload that is
\* closed or whose abort it calls.
LEMMA KnownStays ==
    ASSUME TypeOK, NEW w \in Writers,
           \A v \in Writers \ {w} : upload_id'[v] = upload_id[v],
           UNCHANGED uploads, aborts \subseteq aborts',
           \A old \in UploadId : upload_id[w] = old => upload_id'[w] = old \/ Known(old)',
           NEW id \in UploadId, Known(id)
    PROVE  Known(id)'
<1>1. CASE uploads[id] = "closed" \/ \E c \in aborts : c.id = id
  BY <1>1 DEF Known
<1>2. ASSUME NEW v \in Writers, upload_id[v] = id PROVE Known(id)'
  <2>1. CASE v # w
    BY <1>2, <2>1 DEF Known
  <2>2. CASE v = w
    BY <1>2, <2>2 DEF Known
  <2> QED
    BY <2>1, <2>2
<1> QED
  BY <1>1, <1>2 DEF Known

\* A step of stream w keeps LeakInv if it keeps it for w and for the calls
\* that are new on their way to the service.
LEMMA LeakKeep ==
    ASSUME LeakInv, TypeOK', NEW w \in Writers,
           \A v \in Writers \ {w} :
               /\ phase'[v] = phase[v] /\ parts'[v] = parts[v] /\ upload_id'[v] = upload_id[v]
               /\ pending'[v] = pending[v] /\ call'[v] = call[v] /\ reply'[v] = reply[v],
           UNCHANGED service, aborts \subseteq aborts',
           \A old \in UploadId : upload_id[w] = old => upload_id'[w] = old \/ Known(old)',
           KnowsInv(w)', KnownPart(call[w])', \A c \in stray' \ stray : KnownPart(c)'
    PROVE  LeakInv'
<1>1. TypeOK /\ UNCHANGED <<uploads, stored>>
  BY DEF LeakInv, service
<1>2. \A id \in UploadId : Known(id) => Known(id)'
  BY <1>1, KnownStays
<1>3. ASSUME NEW c \in Call, KnownPart(c) PROVE KnownPart(c)'
  <2>1. CASE c.op # "part"
    BY <2>1 DEF KnownPart
  <2>2. CASE c.op = "part"
    <3>1. c.id \in UploadId
      BY <1>3, <2>2 DEF KnownPart, Call
    <3> QED
      BY <1>1, <1>2, <1>3, <2>2, <3>1 DEF KnownPart, IsStarted
  <2> QED
    BY <2>1, <2>2
<1>4. ASSUME NEW v \in Writers \ {w} PROVE KnowsInv(v)' /\ KnownPart(call[v])'
  <2>1. KnownPart(call[v]) /\ call[v] \in Call /\ call'[v] = call[v]
    BY <1>1 DEF LeakInv, TypeOK, CallsTypeOK
  <2>2. KnownPart(call[v])'
    BY <1>3, <2>1 DEF KnownPart, Known, IsStarted
  <2>3. KnowsInv(v)
    BY DEF LeakInv
  <2>4. KnowsInv(v)'
    BY <1>1, <2>3 DEF KnowsInv, Answered, IsStarted
  <2> QED
    BY <2>2, <2>4
<1>5. \A c \in stray' : KnownPart(c)'
  <2>1. \A c \in stray : KnownPart(c) /\ c \in Call
    BY <1>1 DEF LeakInv, TypeOK, CallsTypeOK
  <2> QED
    BY <1>3, <2>1
<1>6. \A id \in UploadId :
          /\ \A p, q \in stored'[id] : p.number = q.number => p = q
          /\ Known(id)' \/ \A p \in stored'[id] : p.number = 1
  BY <1>1, <1>2 DEF LeakInv
<1>7. \A v \in Writers : KnowsInv(v)' /\ KnownPart(call[v])'
  BY <1>4
<1> QED
  BY <1>5, <1>6, <1>7 DEF LeakInv

\* A stream that is gone has left nothing open that nobody knows of, if it
\* had nothing open or spawned an abort.
LEMMA GoneLeavesKnown ==
    ASSUME LeakInv, TypeOK', NEW w \in Writers, NEW last \in Closed, NEW finished \in BOOLEAN,
           NEW late \in SUBSET {call[w]}, Gone(w, last, finished, late), UNCHANGED service,
           \/ upload_id[w] = NoId \/ uploads[upload_id[w]] = "closed"
           \/ ~ finished /\ Runtimes = {TRUE}
    PROVE  LeakInv'
<1>1. TypeOK
  BY DEF LeakInv
<1>2. /\ phase'[w] = last /\ parts'[w] = <<>> /\ pending'[w] = NoPart /\ call'[w] = NoCall(w)
      /\ upload_id'[w] = NoId /\ reply'[w] = "none"
      /\ \A v \in Writers \ {w} :
             /\ phase'[v] = phase[v] /\ parts'[v] = parts[v] /\ upload_id'[v] = upload_id[v]
             /\ pending'[v] = pending[v] /\ call'[v] = call[v] /\ reply'[v] = reply[v]
  BY <1>1 DEF Gone, Hang, Send, TypeOK, StreamTypeOK, CallsTypeOK
<1>3. PICK runtime \in Runtimes :
          /\ stray' = stray \cup late \cup SpawnedAbort(w, finished, runtime)
          /\ aborts' = aborts \cup SpawnedAbort(w, finished, runtime)
  BY DEF Gone
<1>4. ASSUME NEW old \in UploadId, upload_id[w] = old PROVE Known(old)'
  <2>1. old # NoId
    BY ServiceAssumption
  <2>2. CASE ~ finished /\ Runtimes = {TRUE}
    <3>1. Request("abort", w, old) \in aborts'
      BY <1>3, <1>4, <2>1, <2>2 DEF SpawnedAbort
    <3>2. Request("abort", w, old).id = old
      BY DEF Request
    <3> QED
      BY <3>1, <3>2 DEF Known
  <2>3. CASE uploads[old] = "closed"
    BY <2>3 DEF Known, service
  <2> QED
    BY <1>4, <2>1, <2>2, <2>3
<1>5. KnowsInv(w)' /\ KnownPart(call[w])'
  BY <1>2 DEF KnowsInv, KnownPart, NoCall, Request, Closed, Answered, IsStarted, NoPart
<1>6. ASSUME NEW c \in stray' \ stray PROVE KnownPart(c)'
  <2>1. c \in late \/ c = Request("abort", w, upload_id[w])
    BY <1>3, <1>6 DEF SpawnedAbort
  <2>2. CASE c \in late /\ c.op = "part"
    <3>1. KnownPart(c) /\ c \in Call
      BY <1>1, <2>2 DEF LeakInv, TypeOK, CallsTypeOK
    <3>2. c.id \in UploadId
      BY <2>2, <3>1 DEF KnownPart, Call
    <3>3. Known(c.id) => Known(c.id)'
      BY <1>1, <1>2, <1>3, <1>4, <3>2, KnownStays DEF service
    <3> QED
      BY <3>1, <3>3 DEF KnownPart, IsStarted, service
  <2>3. CASE c.op # "part"
    BY <2>3 DEF KnownPart
  <2> QED
    BY <2>1, <2>2, <2>3 DEF Request
<1>7. aborts \subseteq aborts'
  BY <1>3
<1> QED
  BY <1>2, <1>4, <1>5, <1>6, <1>7, LeakKeep

\* Nor does a finish that fails: it aborts the upload it knows.
LEMMA FailFinishLeavesKnown ==
    ASSUME LeakInv, TypeOK', NEW w \in Writers, NEW id \in UploadId \cup {NoId},
           upload_id[w] \in {NoId, id}, FailFinish(w, id), UNCHANGED service
    PROVE  LeakInv'
<1>1. CASE id = NoId
  BY <1>1, GoneLeavesKnown DEF FailFinish, Return, Closed
<1>2. CASE id # NoId
  <2>1. TypeOK
    BY DEF LeakInv
  <2>2. /\ phase'[w] = "aborting" /\ parts' = parts /\ stray' = stray /\ pending'[w] = NoPart
        /\ call'[w] = Request("abort", w, id) /\ upload_id'[w] = NoId /\ reply'[w] = "none"
        /\ aborts' = aborts \cup {Request("abort", w, id)}
        /\ \A v \in Writers \ {w} :
               /\ phase'[v] = phase[v] /\ parts'[v] = parts[v] /\ upload_id'[v] = upload_id[v]
               /\ pending'[v] = pending[v] /\ call'[v] = call[v] /\ reply'[v] = reply[v]
    BY <1>2, <2>1 DEF FailFinish, Send, TypeOK, StreamTypeOK, CallsTypeOK
  <2>3. Request("abort", w, id).op = "abort" /\ Request("abort", w, id).id = id
    BY DEF Request
  <2>4. \A old \in UploadId : upload_id[w] = old => Known(old)'
    BY <2>2, <2>3, ServiceAssumption DEF Known
  <2>5. KnowsInv(w)' /\ KnownPart(call[w])'
    BY <2>2, <2>3 DEF KnowsInv, KnownPart, Closed, Answered, IsStarted, NoPart
  <2> QED
    BY <2>2, <2>4, <2>5, LeakKeep
<1> QED
  BY <1>1, <1>2

-----------------------------------------------------------------------------
(* Steps of the service.                                                   *)

\* The parts the service holds for one upload.
PartsKnown(id) ==
    /\ \A p, q \in stored[id] : p.number = q.number => p = q
    /\ Known(id) \/ \A p \in stored[id] : p.number = 1

\* An upload never opens again, and a part beyond the first is stored only
\* for an upload that is known.
LEMMA ExecutesKnown ==
    ASSUME LeakInv, NEW c \in Call, KnownPart(c), NEW id \in UploadId \cup {NoId},
           Executes(c, id), UNCHANGED <<upload_id, aborts>>
    PROVE  /\ \A u \in UploadId :
                  /\ uploads[u] = "closed" => uploads'[u] = "closed"
                  /\ uploads[u] # "unused" => uploads'[u] # "unused"
                  /\ PartsKnown(u)'
           /\ c.op = "create" => id \in UploadId /\ uploads'[id] # "unused"
           /\ c.op = "complete" => uploads'[id] = "closed"
           /\ c.op # "create" => id = c.id
<1>1. ServiceTypeOK /\ \A u \in UploadId : PartsKnown(u)
  BY DEF LeakInv, TypeOK, PartsKnown
<1>2. CASE CreateUpload(c, id)
  <2>1. \A u \in UploadId : uploads'[u] = IF u = id THEN "open" ELSE uploads[u]
    BY <1>1, <1>2 DEF CreateUpload, ServiceTypeOK
  <2>2. \A u \in UploadId : Known(u) => Known(u)'
    BY <1>2, <2>1 DEF CreateUpload, Known
  <2>3. \A u \in UploadId : PartsKnown(u)'
    BY <1>1, <1>2, <2>2 DEF CreateUpload, PartsKnown
  <2> QED
    BY <1>2, <2>1, <2>3 DEF CreateUpload
<1>3. CASE UploadPart(c, id)
  <2> DEFINE part == [number |-> c.number, etag |-> c.body]
  <2>1. /\ c.op = "part" /\ id = c.id /\ id \in UploadId
        /\ UNCHANGED uploads
        /\ stored'[id] = {p \in stored[id] : p.number # c.number} \cup {part}
        /\ \A u \in UploadId \ {id} : stored'[u] = stored[u]
    BY <1>1, <1>3 DEF UploadPart, IsOpen, ServiceTypeOK
  <2>2. part.number = c.number
    OBVIOUS
  <2> HIDE DEF part
  <2>3. \A u \in UploadId : Known(u) <=> Known(u)'
    BY <2>1 DEF Known
  <2>4. Known(id) \/ c.number = 1
    BY <2>1 DEF KnownPart
  <2>5. PartsKnown(id)'
    BY <1>1, <2>1, <2>2, <2>3, <2>4 DEF PartsKnown
  <2>6. \A u \in UploadId \ {id} : PartsKnown(u)'
    BY <1>1, <2>1, <2>3 DEF PartsKnown
  <2> QED
    BY <2>1, <2>5, <2>6
<1>4. CASE PutObject(c, id)
  <2>1. UNCHANGED <<uploads, stored>> /\ c.op = "put" /\ id = c.id
    BY <1>4 DEF PutObject
  <2>2. \A u \in UploadId : PartsKnown(u)'
    BY <1>1, <2>1 DEF PartsKnown, Known
  <2> QED
    BY <2>1, <2>2
<1>5. CASE CompleteUpload(c, id) \/ AbortUpload(c, id)
  <2>1. /\ c.op \in {"complete", "abort"} /\ id = c.id /\ id \in UploadId
        /\ \A u \in UploadId :
               /\ uploads'[u] = IF u = id THEN "closed" ELSE uploads[u]
               /\ stored'[u] = IF u = id THEN {} ELSE stored[u]
    BY <1>1, <1>5 DEF CompleteUpload, AbortUpload, IsOpen, ServiceTypeOK
  <2>2. \A u \in UploadId : Known(u) => Known(u)'
    BY <2>1 DEF Known
  <2>3. \A u \in UploadId : PartsKnown(u)'
    BY <1>1, <2>1, <2>2 DEF PartsKnown
  <2> QED
    BY <2>1, <2>3
<1> QED
  BY <1>2, <1>3, <1>4, <1>5 DEF Executes

\* A step of the service keeps what it does not answer.
LEMMA ServedKeeps ==
    ASSUME LeakInv, TypeOK', UNCHANGED <<phase, parts, upload_id, pending, aborts>>,
           \A u \in UploadId :
                  /\ uploads[u] = "closed" => uploads'[u] = "closed"
                  /\ uploads[u] # "unused" => uploads'[u] # "unused"
    PROVE  /\ \A d \in Call : KnownPart(d) => KnownPart(d)'
           /\ \A v \in Writers : UNCHANGED <<call[v], reply[v]>> => KnowsInv(v)'
<1>1. \A u \in UploadId : Known(u) => Known(u)'
  BY DEF Known
<1>2. \A u \in UploadId \cup {NoId} : IsStarted(u) => IsStarted(u)'
  BY DEF IsStarted
<1>3. ASSUME NEW d \in Call, KnownPart(d) PROVE KnownPart(d)'
  BY <1>1, <1>2, <1>3 DEF KnownPart, Call
<1>4. ASSUME NEW v \in Writers, UNCHANGED <<call[v], reply[v]>> PROVE KnowsInv(v)'
  <2>1. KnowsInv(v) /\ call[v] \in Call /\ pending[v] \in PartInFlight
            /\ upload_id[v] \in UploadId \cup {NoId}
    BY DEF LeakInv, TypeOK, StreamTypeOK, CallsTypeOK
  <2>2. phase[v] = "completing" => upload_id[v] # NoId
    BY <2>1 DEF KnowsInv
  <2> QED
    BY <1>2, <1>4, <2>1, <2>2 DEF KnowsInv, IsStarted, Answered, Call, PartInFlight
<1> QED
  BY <1>3, <1>4

\* The service executes or rejects the call a stream awaits ...
LEMMA AnswerLeavesKnown ==
    ASSUME LeakInv, TypeOK', NEW w \in Writers, Answer(w)
    PROVE  LeakInv'
<1>1. PICK c \in Call : c = call[w] /\ KnownPart(c)
  BY DEF LeakInv, TypeOK, CallsTypeOK
<1>2. /\ UNCHANGED <<phase, parts, upload_id, pending, stray, aborts>>
      /\ \A v \in Writers \ {w} : call'[v] = call[v] /\ reply'[v] = reply[v]
      /\ KnowsInv(w) /\ reply[w] = "none" /\ TypeOK
  BY DEF Answer, InFlight, stream, loose, LeakInv, TypeOK, CallsTypeOK
<1>3. ASSUME NEW id \in UploadId \cup {NoId}, Executes(c, id),
             call' = [call EXCEPT ![w].id = id], reply' = [reply EXCEPT ![w] = "ok"]
      PROVE  LeakInv'
  <2>1. /\ \A u \in UploadId :
               /\ uploads[u] = "closed" => uploads'[u] = "closed"
               /\ uploads[u] # "unused" => uploads'[u] # "unused"
               /\ PartsKnown(u)'
        /\ c.op = "create" => id \in UploadId /\ uploads'[id] # "unused"
        /\ c.op = "complete" => uploads'[id] = "closed"
        /\ c.op # "create" => id = c.id
    BY <1>1, <1>2, <1>3, ExecutesKnown
  <2>2. /\ \A d \in Call : KnownPart(d) => KnownPart(d)'
        /\ \A v \in Writers : UNCHANGED <<call[v], reply[v]>> => KnowsInv(v)'
    BY <1>2, <2>1, ServedKeeps
  <2>3. /\ reply'[w] = "ok" /\ call'[w].op = c.op /\ call'[w].id = id
        /\ c.op # "create" => call'[w] = c
    BY <1>1, <1>2, <1>3, <2>1 DEF TypeOK, CallsTypeOK, Call
  <2>4. KnownPart(call[w])'
    <3>1. CASE c.op = "create"
      BY <2>3, <3>1 DEF KnownPart
    <3>2. CASE c.op # "create"
      <4>1. KnownPart(c)'
        BY <1>1, <2>2
      <4> QED
        BY <2>3, <3>2, <4>1 DEF KnownPart, Known, IsStarted
    <3> QED
      BY <3>1, <3>2
  <2>5. KnowsInv(w)'
    <3>1. \A u \in UploadId \cup {NoId} : IsStarted(u) => IsStarted(u)'
      BY <2>1 DEF IsStarted
    <3>2. pending[w].id \in UploadId \cup {NoId} /\ upload_id[w] \in UploadId \cup {NoId}
      BY <1>2 DEF TypeOK, StreamTypeOK, PartInFlight
    <3>3. IsStarted(upload_id[w])' /\ IsStarted(pending[w].id)'
      BY <1>2, <3>1, <3>2 DEF KnowsInv, IsStarted
    <3>4. Answered(w, {"create"}, "ok")' => call'[w].id # NoId /\ IsStarted(call[w].id)'
      BY <2>1, <2>3, ServiceAssumption DEF Answered, IsStarted
    <3>5. phase[w] = "completing" => uploads'[upload_id[w]] = "closed"
      BY <1>1, <1>2, <2>1 DEF KnowsInv
    <3>6. phase[w] \in {"last_part", "completing"} => call'[w].id = upload_id[w]
      BY <1>1, <1>2, <2>1, <2>3 DEF KnowsInv
    <3> QED
      BY <1>1, <1>2, <2>3, <3>3, <3>4, <3>5, <3>6 DEF KnowsInv
  <2>6. \A v \in Writers : KnowsInv(v)' /\ KnownPart(call[v])'
    <3> SUFFICES ASSUME NEW v \in Writers, v # w PROVE KnowsInv(v)' /\ KnownPart(call[v])'
      BY <2>4, <2>5
    <3>1. call[v] \in Call /\ KnownPart(call[v]) /\ call'[v] = call[v]
      BY <1>2 DEF LeakInv, TypeOK, CallsTypeOK
    <3>2. PICK d \in Call : d = call[v] /\ d = call'[v] /\ KnownPart(d)
      BY <3>1
    <3>3. KnownPart(d)'
      BY <2>2, <3>2
    <3> QED
      BY <1>2, <2>2, <3>2, <3>3 DEF KnownPart, Known, IsStarted
  <2>7. \A d \in stray' : KnownPart(d)'
    BY <1>2, <2>2 DEF LeakInv, TypeOK, CallsTypeOK
  <2> QED
    BY <2>1, <2>6, <2>7 DEF LeakInv, PartsKnown
<1>4. CASE Rejects(c) /\ reply' = [reply EXCEPT ![w] = "error"] /\ UNCHANGED call
  <2>1. reply'[w] = "error" /\ UNCHANGED <<call, service>>
    BY <1>2, <1>4 DEF Rejects, TypeOK, CallsTypeOK
  <2>2. KnowsInv(w)'
    BY <1>2, <2>1 DEF KnowsInv, Answered, IsStarted, service
  <2>3. KnownPart(call[w])'
    BY <1>1, <1>2, <2>1 DEF KnownPart, Known, IsStarted, service
  <2> QED
    BY <1>2, <2>1, <2>2, <2>3, LeakKeep
<1> QED
  BY <1>1, <1>3, <1>4 DEF Answer

\* ... or one that nobody awaits.
LEMMA StrayLeavesKnown ==
    ASSUME LeakInv, TypeOK', NEW c \in stray, ServeStray(c)
    PROVE  LeakInv'
<1>1. /\ UNCHANGED <<phase, parts, upload_id, pending, call, reply, aborts>>
      /\ stray' \subseteq stray /\ TypeOK /\ c \in Call /\ KnownPart(c)
  BY DEF ServeStray, stream, LeakInv, TypeOK, CallsTypeOK
<1>2. ASSUME NEW id \in UploadId \cup {NoId}, Executes(c, id) PROVE LeakInv'
  <2>1. \A u \in UploadId :
            /\ uploads[u] = "closed" => uploads'[u] = "closed"
            /\ uploads[u] # "unused" => uploads'[u] # "unused"
            /\ PartsKnown(u)'
    BY <1>1, <1>2, ExecutesKnown
  <2>2. /\ \A d \in Call : KnownPart(d) => KnownPart(d)'
        /\ \A v \in Writers : UNCHANGED <<call[v], reply[v]>> => KnowsInv(v)'
    BY <1>1, <2>1, ServedKeeps
  <2>3. \A v \in Writers : KnowsInv(v)' /\ KnownPart(call[v])'
    <3> SUFFICES ASSUME NEW v \in Writers PROVE KnowsInv(v)' /\ KnownPart(call[v])'
      OBVIOUS
    <3>1. PICK d \in Call : d = call[v] /\ d = call'[v] /\ KnownPart(d)
      BY <1>1 DEF LeakInv, TypeOK, CallsTypeOK
    <3>2. KnownPart(d)'
      BY <2>2, <3>1
    <3> QED
      BY <1>1, <2>2, <3>1, <3>2 DEF KnownPart, Known, IsStarted
  <2>4. \A d \in stray' : KnownPart(d)'
    BY <1>1, <2>2 DEF LeakInv, TypeOK, CallsTypeOK
  <2> QED
    BY <2>1, <2>3, <2>4 DEF LeakInv, PartsKnown
<1>3. CASE Rejects(c)
  BY <1>1, <1>3 DEF Rejects, service, LeakInv, KnowsInv, KnownPart, Known, IsStarted, Answered
<1> QED
  BY <1>2, <1>3 DEF ServeStray

-----------------------------------------------------------------------------
(* The upload that poll_pending takes from the part future.                *)

\* A stream never forgets its upload for another, and has no parts without.
LEMMA SettledKnows ==
    ASSUME TypeOK, NEW w \in Writers, KnowsInv(w)
    PROVE  /\ SettledId(w) \in UploadId \cup {NoId} /\ IsStarted(SettledId(w))
           /\ upload_id[w] \in {NoId, SettledId(w)}
           /\ phase[w] \in {"open", "draining"} /\ PartDone(w) /\ SettledId(w) = NoId
                  => SettledParts(w) = <<>>
<1>1. pending[w].id # NoId => pending[w] # NoPart
  BY DEF NoPart
<1>2. IsStarted(SettledId(w)) /\ upload_id[w] \in {NoId, SettledId(w)}
  BY <1>1 DEF SettledId, KnowsInv
<1>3. ASSUME phase[w] \in {"open", "draining"}, PartDone(w), SettledId(w) = NoId
      PROVE  SettledParts(w) = <<>>
  <2>1. upload_id[w] = NoId /\ pending[w].id = NoId
    BY <1>2, <1>3 DEF SettledId
  <2>2. pending[w] = NoPart
    BY <1>3, <2>1 DEF PartDone, Answered, KnowsInv
  <2> QED
    BY <1>3, <2>1, <2>2 DEF SettledParts, KnowsInv
<1>4. SettledId(w) \in UploadId \cup {NoId}
  BY SettledType DEF TypeOK
<1> QED
  BY <1>2, <1>3, <1>4

-----------------------------------------------------------------------------
(* LeakBound.                                                              *)

\* No upload is there at first ...
LEMMA LeakInit == Init => LeakInv
<1> SUFFICES ASSUME Init PROVE LeakInv
  OBVIOUS
<1>1. TypeOK
  BY TypeInit
<1>2. \A w \in Writers : KnowsInv(w) /\ KnownPart(call[w])
  BY DEF Init, KnowsInv, KnownPart, NoCall, Request, NoPart, Answered, IsStarted, Closed
<1>3. \A id \in UploadId : stored[id] = {}
  BY DEF Init, ServiceInit
<1> QED
  BY <1>1, <1>2, <1>3 DEF LeakInv, Init

\* ... and with a runtime every step keeps the invariant.
LEMMA LeakStep ==
    ASSUME LeakInv, [Next]_vars, Runtimes = {TRUE}
    PROVE  LeakInv'
<1>1. TypeOK /\ TypeOK'
  BY TypeStep DEF LeakInv
<1>2. \A w \in Writers : KnowsInv(w) /\ KnownPart(call[w]) /\ call[w] \in Call
                             /\ upload_id[w] \in UploadId \cup {NoId}
  BY <1>1 DEF LeakInv, TypeOK, CallsTypeOK, StreamTypeOK
<1>3. ASSUME NEW w \in Writers, Resend(w) \/ GiveUp(w) PROVE LeakInv'
  <2>1. /\ UNCHANGED <<phase, parts, upload_id, pending, call, service, aborts>>
        /\ stray' = stray \cup {call[w]} /\ reply'[w] # "ok"
        /\ \A v \in Writers \ {w} : reply'[v] = reply[v]
    BY <1>1, <1>3 DEF Resend, GiveUp, InFlight, stream, TypeOK, CallsTypeOK
  <2>2. KnowsInv(w)'
    BY <1>2, <2>1 DEF KnowsInv, Answered, IsStarted, service
  <2>3. PICK c : c = call[w] /\ c = call'[w] /\ KnownPart(c)
    BY <1>2, <2>1
  <2>4. KnownPart(c)'
    BY <2>1, <2>3 DEF KnownPart, Known, IsStarted, service
  <2>5. KnownPart(call[w])' /\ \A d \in stray' \ stray : KnownPart(d)'
    BY <2>1, <2>3, <2>4 DEF KnownPart, Known, IsStarted
  <2> QED
    BY <1>1, <2>1, <2>2, <2>5, LeakKeep
<1>4. ASSUME NEW c \in stray, LoseStray(c) PROVE LeakInv'
  BY <1>1, <1>4 DEF LoseStray, stream, service, LeakInv, KnowsInv, KnownPart, Known, IsStarted,
                    Answered
<1>5. ASSUME NEW w \in Writers, PollStarts(w) PROVE LeakInv'
  <2> DEFINE c == IF pending[w].id = NoId
                  THEN Request("create", w, NoId)
                  ELSE PartRequest(w, pending[w].id, pending[w].number, pending[w].body)
  <2>1. /\ c.op = (IF pending[w].id = NoId THEN "create" ELSE "part")
        /\ c.op = "part" => c.id = pending[w].id /\ c.number = pending[w].number
    BY DEF Request, PartRequest
  <2>2. Send(w, c)
    BY <1>5 DEF PollStarts
  <2> HIDE DEF c
  <2>3. /\ UNCHANGED <<phase, parts, upload_id, pending, service, stray, aborts>>
        /\ call'[w] = c /\ reply'[w] = "none"
        /\ \A v \in Writers \ {w} : call'[v] = call[v] /\ reply'[v] = reply[v]
        /\ phase[w] \in {"open", "draining"} /\ pending[w] # NoPart
    BY <1>1, <1>5, <2>2 DEF PollStarts, Driven, stream, loose, Send, TypeOK, CallsTypeOK
  <2>4. KnowsInv(w)'
    BY <1>2, <2>1, <2>3 DEF KnowsInv, Answered, IsStarted, service, Closed
  <2>5. KnownPart(call[w])'
    BY <1>2, <2>1, <2>3 DEF KnowsInv, KnownPart, Known, IsStarted, service
  <2> QED
    BY <1>1, <2>3, <2>4, <2>5, LeakKeep
<1>6. ASSUME NEW w \in Writers, PollCreated(w) PROVE LeakInv'
  <2> DEFINE c == PartRequest(w, call[w].id, pending[w].number, pending[w].body)
  <2>1. c.op = "part" /\ c.id = call[w].id /\ c.number = pending[w].number
    BY DEF Request, PartRequest
  <2>2. Send(w, c)
    BY <1>6 DEF PollCreated
  <2> HIDE DEF c
  <2>3. /\ UNCHANGED <<phase, parts, upload_id, service, stray, aborts>>
        /\ call'[w] = c /\ reply'[w] = "none"
        /\ pending'[w].id = call[w].id /\ pending'[w].number = pending[w].number
        /\ \A v \in Writers \ {w} :
               call'[v] = call[v] /\ reply'[v] = reply[v] /\ pending'[v] = pending[v]
        /\ phase[w] \in {"open", "draining"} /\ Answered(w, {"create"}, "ok")
    BY <1>1, <1>6, <2>2
    DEF PollCreated, Driven, loose, Send, TypeOK, StreamTypeOK, CallsTypeOK, PartInFlight
  <2>4. /\ call[w].id # NoId /\ IsStarted(call[w].id) /\ call[w].op = "create"
        /\ pending[w].number = 1 /\ upload_id[w] = NoId
    BY <1>2, <2>3 DEF KnowsInv, Answered
  <2>5. pending'[w] # NoPart
    BY <2>3, <2>4 DEF NoPart
  <2>6. KnowsInv(w)'
    BY <1>2, <2>1, <2>3, <2>4, <2>5 DEF KnowsInv, Answered, IsStarted, service, Closed
  <2>7. KnownPart(call[w])'
    BY <2>1, <2>3, <2>4 DEF KnownPart, IsStarted, service
  <2> QED
    BY <1>1, <2>3, <2>6, <2>7, LeakKeep
<1>7. ASSUME NEW w \in Writers, phase[w] = "open", UNCHANGED <<phase, service, stray, aborts>>,
             Hang(w), NEW list, Settle(w, list), SettledId(w) = NoId => list = <<>>,
             NEW next, pending' = [pending EXCEPT ![w] = next],
             \/ next = NoPart
             \/ next.id = SettledId(w) /\ (SettledId(w) = NoId => next.number = 1)
      PROVE  LeakInv'
  <2>1. /\ upload_id'[w] = SettledId(w) /\ parts'[w] = list /\ pending'[w] = next
        /\ call'[w] = NoCall(w) /\ reply'[w] = "none"
        /\ \A v \in Writers \ {w} :
               /\ upload_id'[v] = upload_id[v] /\ parts'[v] = parts[v]
               /\ pending'[v] = pending[v] /\ call'[v] = call[v] /\ reply'[v] = reply[v]
    BY <1>1, <1>7 DEF Settle, Hang, Send, TypeOK, StreamTypeOK, CallsTypeOK
  <2>2. IsStarted(SettledId(w)) /\ upload_id[w] \in {NoId, SettledId(w)}
    BY <1>1, <1>2, SettledKnows
  <2>3. IsStarted(next.id)
    BY <1>7, <2>2 DEF NoPart, IsStarted
  <2>4. KnowsInv(w)' /\ KnownPart(call[w])'
    BY <1>7, <2>1, <2>2, <2>3
    DEF KnowsInv, KnownPart, NoCall, Request, Answered, IsStarted, service, Closed
  <2>5. \A old \in UploadId : upload_id[w] = old => upload_id'[w] = old
    BY <2>1, <2>2, ServiceAssumption
  <2> QED
    BY <1>1, <1>7, <2>1, <2>4, <2>5, LeakKeep
<1>8. ASSUME NEW w \in Writers, NEW len, PollWrite(w, len) PROVE LeakInv'
  <2>1. /\ phase[w] = "open" /\ UNCHANGED <<phase, service, stray, aborts>> /\ Hang(w)
        /\ Settle(w, SettledParts(w)) /\ PartDone(w)
        /\ \E next : /\ pending' = [pending EXCEPT ![w] = next]
                     /\ \/ next = NoPart
                        \/ /\ next.id = SettledId(w)
                           /\ next.number = Len(SettledParts(w)) + 1
    BY <1>8 DEF PollWrite, MayPoll, StartPart, NextPartNumber, loose
  <2>2. SettledId(w) = NoId => SettledParts(w) = <<>>
    BY <1>1, <1>2, <2>1, SettledKnows
  <2>3. PICK next : /\ pending' = [pending EXCEPT ![w] = next]
                    /\ \/ next = NoPart
                       \/ /\ next.id = SettledId(w)
                          /\ next.number = Len(SettledParts(w)) + 1
    BY <2>1
  <2>4. \/ next = NoPart
        \/ next.id = SettledId(w) /\ (SettledId(w) = NoId => next.number = 1)
    BY <2>2, <2>3
  <2> QED
    BY <1>7, <2>1, <2>2, <2>3, <2>4
<1>9. ASSUME NEW w \in Writers, PollFlush(w) PROVE LeakInv'
  <2>1. SettledId(w) = NoId => SettledParts(w) = <<>>
    BY <1>1, <1>2, <1>9, SettledKnows DEF PollFlush, MayPoll
  <2> QED
    BY <1>7, <1>9, <2>1 DEF PollFlush, MayPoll, loose
<1>10. ASSUME NEW w \in Writers, PollFails(w) PROVE LeakInv'
  <2>1. SettledId(w) = NoId => parts[w] = <<>>
    <3>1. SettledId(w) = NoId => upload_id[w] = NoId
      BY <1>1, <1>2, SettledKnows
    <3> QED
      BY <1>2, <1>10, <3>1 DEF PollFails, MayPoll, KnowsInv
  <2> QED
    BY <1>7, <1>10, <2>1 DEF PollFails, MayPoll, loose
<1>11. ASSUME NEW w \in Writers, Create(w) \/ Finish(w) PROVE LeakInv'
  <2>1. /\ UNCHANGED <<parts, upload_id, pending, call, reply, service, stray, aborts>>
        /\ phase[w] \in {"absent", "open"} /\ phase'[w] \in {"open", "draining"}
        /\ \A v \in Writers \ {w} : phase'[v] = phase[v]
    BY <1>1, <1>11 DEF Create, Finish, MayPoll, awaited, loose, TypeOK, StreamTypeOK
  <2>2. KnowsInv(w)'
    BY <1>2, <2>1 DEF KnowsInv, Answered, IsStarted, service, Closed
  <2>3. KnownPart(call[w])'
    BY <1>2, <2>1 DEF KnownPart, Known, IsStarted, service
  <2> QED
    BY <1>1, <2>1, <2>2, <2>3, LeakKeep
<1>12. ASSUME NEW w \in Writers, Drop(w) PROVE LeakInv'
  BY <1>1, <1>12, GoneLeavesKnown DEF Drop, Closed
<1>13. ASSUME NEW w \in Writers, FinishOk(w) \/ AbortReturns(w) PROVE LeakInv'
  <2>1. upload_id[w] = NoId \/ uploads[upload_id[w]] = "closed"
    BY <1>2, <1>13 DEF FinishOk, AbortReturns, KnowsInv
  <2> QED
    BY <1>1, <1>13, <2>1, GoneLeavesKnown DEF FinishOk, AbortReturns, Return, Closed
<1>14. ASSUME NEW w \in Writers, DrainFails(w) \/ FinishCallFails(w) PROVE LeakInv'
  BY <1>1, <1>2, <1>14, SettledKnows, FailFinishLeavesKnown DEF DrainFails, FinishCallFails
<1>15. ASSUME NEW w \in Writers, NEW next \in {"putting", "last_part", "completing"},
              phase' = [phase EXCEPT ![w] = next], UNCHANGED <<service, stray, aborts>>,
              NEW id \in UploadId \cup {NoId}, upload_id[w] \in {NoId, id}, IsStarted(id),
              upload_id' = [upload_id EXCEPT ![w] = id],
              NEW list, parts' = [parts EXCEPT ![w] = list],
              pending' = [pending EXCEPT ![w] = NoPart], NEW c, Send(w, c),
              \/ next = "putting" /\ id = NoId /\ c.op = "put"
              \/ next = "last_part" /\ id # NoId /\ c.op = "part" /\ c.id = id
              \/ next = "completing" /\ id # NoId /\ c.op = "complete" /\ c.id = id
       PROVE  LeakInv'
  <2>1. /\ phase'[w] = next /\ upload_id'[w] = id /\ pending'[w] = NoPart
        /\ call'[w] = c /\ reply'[w] = "none"
        /\ \A v \in Writers \ {w} :
               /\ phase'[v] = phase[v] /\ upload_id'[v] = upload_id[v] /\ parts'[v] = parts[v]
               /\ pending'[v] = pending[v] /\ call'[v] = call[v] /\ reply'[v] = reply[v]
    BY <1>1, <1>15 DEF Send, TypeOK, StreamTypeOK, CallsTypeOK
  <2>2. KnowsInv(w)'
    BY <1>15, <2>1 DEF KnowsInv, Answered, IsStarted, NoPart, service, Closed
  <2>3. KnownPart(call[w])'
    BY <1>15, <2>1 DEF KnownPart, Known, IsStarted, service
  <2>4. \A old \in UploadId : upload_id[w] = old => upload_id'[w] = old
    BY <1>15, <2>1, ServiceAssumption
  <2> QED
    BY <1>1, <1>15, <2>1, <2>2, <2>3, <2>4, LeakKeep
<1>16. ASSUME NEW w \in Writers, Drained(w) PROVE LeakInv'
  <2> DEFINE id == SettledId(w)
             put == [Request("put", w, NoId) EXCEPT !.body = buffer[w]]
             last == PartRequest(w, id, NextPartNumber(SettledParts(w)), buffer[w])
             complete == [Request("complete", w, id) EXCEPT !.list = SettledParts(w)]
  <2>1. /\ put.op = "put" /\ last.op = "part" /\ last.id = id
        /\ complete.op = "complete" /\ complete.id = id
    BY DEF Request, PartRequest
  <2>2. /\ pending' = [pending EXCEPT ![w] = NoPart] /\ UNCHANGED <<service, stray, aborts>>
        /\ upload_id' = [upload_id EXCEPT ![w] = id]
        /\ \E list : parts' = [parts EXCEPT ![w] = list]
        /\ \/ phase' = [phase EXCEPT ![w] = "putting"] /\ id = NoId /\ Send(w, put)
           \/ phase' = [phase EXCEPT ![w] = "last_part"] /\ id # NoId /\ Send(w, last)
           \/ phase' = [phase EXCEPT ![w] = "completing"] /\ id # NoId /\ Send(w, complete)
    BY <1>16 DEF Drained, SendComplete, loose
  <2> HIDE DEF put, last, complete
  <2>3. IsStarted(id) /\ upload_id[w] \in {NoId, id} /\ id \in UploadId \cup {NoId}
    BY <1>1, <1>2, SettledKnows
  <2> HIDE DEF id
  <2> QED
    BY <1>15, <2>1, <2>2, <2>3
<1>17. ASSUME NEW w \in Writers, LastPartDone(w) PROVE LeakInv'
  <2>1. /\ phase[w] = "last_part" /\ UNCHANGED <<upload_id, pending, service, stray, aborts>>
        /\ phase' = [phase EXCEPT ![w] = "completing"] /\ parts' = [parts EXCEPT ![w] = <<>>]
        /\ \E c : Send(w, c) /\ c.op = "complete" /\ c.id = upload_id[w]
    BY <1>17 DEF LastPartDone, SendComplete, Request, loose
  <2>2. IsStarted(upload_id[w]) /\ upload_id[w] # NoId
    BY <1>2, <2>1 DEF KnowsInv, KnownPart
  <2>3. PICK c : Send(w, c) /\ c.op = "complete" /\ c.id = upload_id[w]
    BY <2>1
  <2>4. /\ phase'[w] = "completing" /\ call'[w] = c /\ reply'[w] = "none" /\ parts'[w] = <<>>
        /\ \A v \in Writers \ {w} :
               /\ phase'[v] = phase[v] /\ parts'[v] = parts[v]
               /\ call'[v] = call[v] /\ reply'[v] = reply[v]
    BY <1>1, <2>1, <2>3 DEF Send, TypeOK, StreamTypeOK, CallsTypeOK
  <2>5. KnowsInv(w)' /\ KnownPart(call[w])'
    BY <1>2, <2>1, <2>2, <2>3, <2>4
    DEF KnowsInv, KnownPart, Answered, IsStarted, service, Closed
  <2> QED
    BY <1>1, <2>1, <2>4, <2>5, LeakKeep
<1>18. CASE UNCHANGED vars
  BY <1>1, <1>18
  DEF vars, stream, awaited, loose, service, LeakInv, KnowsInv, KnownPart, Known, IsStarted,
      Answered
<1> QED
  BY <1>1, <1>3, <1>4, <1>5, <1>6, <1>8, <1>9, <1>10, <1>11, <1>12, <1>13, <1>14, <1>16, <1>17,
     <1>18, AnswerLeavesKnown, StrayLeavesKnown
  DEF Next, PollOpen, PollFinish, Transport

\* Who knows of which upload, and what an upload nobody knows of may hold, at
\* any time (write.rs 57-66, 262-289), as long as there is a runtime.
THEOREM UploadsAccounted == Runtimes = {TRUE} => (Spec => []LeakInv)
<1> SUFFICES ASSUME Runtimes = {TRUE} PROVE Spec => []LeakInv
  OBVIOUS
<1>1. LeakInv /\ [Next]_vars => LeakInv'
  BY LeakStep
<1> QED
  BY <1>1, LeakInit, PTL DEF Spec

\* An upload that is left open without an attempt to abort it holds at most
\* one part (write.rs 63-66, 262-289), as long as there is a runtime to spawn
\* aborts on, whatever fails and whatever the owner does after it.
THEOREM LeaksAreBounded == Spec => []LeakBound
<1>1. LeakInv => LeakBound
  <2> SUFFICES ASSUME LeakInv, NEW id \in UploadId, Forgotten(id), NEW p \in stored[id],
                      NEW q \in stored[id]
               PROVE  p = q
    BY DEF LeakBound
  <2>1. ~ Known(id)
    <3>1. \A w \in Writers : upload_id[w] # id
      BY ServiceAssumption DEF Forgotten, Tracked, LeakInv, KnowsInv
    <3> QED
      BY <3>1 DEF Forgotten, Known
  <2> QED
    BY <2>1 DEF LeakInv
<1>2. CASE Runtimes = {TRUE}
  <2>1. Spec => []LeakInv
    BY <1>2, UploadsAccounted
  <2> QED
    BY <1>1, <2>1, PTL
<1>3. CASE Runtimes # {TRUE}
  <2>1. LeakBound
    BY <1>3 DEF LeakBound
  <2> QED
    BY <2>1, PTL
<1> QED
  BY <1>2, <1>3
=============================================================================
