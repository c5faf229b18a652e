-------------------------- MODULE S3WriterRefinement --------------------------
(***************************************************************************)
(* The invariants of the write streams as theorems of their own, and that  *)
(* the streams implement AtomicObject: if owners drop a stream once a poll *)
(* of it has failed, every step is a step of AtomicObject or changes       *)
(* nothing that the owners can see.                                        *)
(***************************************************************************)
EXTENDS S3WriterObjectProof

\* The bytes of every stream, call, and content are accounted for at any time
\* (write.rs 57-139), if owners drop a stream once a poll of it has failed.
THEOREM BytesAccounted == StopAfterError => (Spec => []WholeInv)
<1> SUFFICES ASSUME StopAfterError PROVE Spec => []WholeInv
  OBVIOUS
<1>1. WholeInv /\ [Next]_vars => WholeInv'
  BY WholeStep
<1> QED
  BY <1>1, WholeInit, PTL DEF Spec

\* A stream whose last request was answered has stored its object, and only
\* streams that give up call aborts (write.rs 141-152, 252-289).
THEOREM OkAccounted == Spec => []OkInv
<1>1. OkInv /\ [Next]_vars => OkInv'
  BY OkStep
<1> QED
  BY <1>1, OkInit, PTL DEF Spec

-----------------------------------------------------------------------------
(* What owners see.                                                        *)

\* A whole content is seen with the number of bytes its stream has accepted.
LEMMA SeenWhole ==
    ASSUME NEW v, ContentInv(v)
    PROVE  AsSeen(v) = [by |-> v.by, size |-> buffer[v.by].hi]
BY DEF ContentInv, Tiles, AsSeen

\* A step that keeps phases and accepted bytes as owners see them.
LEMMA Unseen ==
    ASSUME \A w \in Writers : SeenState'[w] = SeenState[w] /\ buffer'[w].hi = buffer[w].hi,
           UNCHANGED <<object, versions>>
    PROVE  UNCHANGED Atomic!vars
<1>1. UNCHANGED SeenState /\ UNCHANGED SeenSize
  BY DEF SeenState, SeenSize
<1>2. UNCHANGED SeenObject /\ UNCHANGED SeenVersions
  BY DEF SeenObject, SeenVersions
<1> QED
  BY <1>1, <1>2 DEF Atomic!vars

\* A step that changes the phase of one stream.
LEMMA Moves ==
    ASSUME NEW w \in Writers, NEW to, TypeOK, phase' = [phase EXCEPT ![w] = to],
           \A v \in Writers : buffer'[v].hi = buffer[v].hi, UNCHANGED <<object, versions>>
    PROVE  /\ SeenState' = [SeenState EXCEPT ![w] = IF to \in InFinish THEN "finishing" ELSE to]
           /\ UNCHANGED <<SeenSize, SeenObject, SeenVersions>>
<1>1. DOMAIN phase = Writers
  BY DEF TypeOK, StreamTypeOK
<1> QED
  BY <1>1 DEF SeenState, SeenSize, SeenObject, SeenVersions

\* A stream that is gone: it was dropped, or its finish has returned, which
\* may say Ok only if an object of the stream is among the versions.
LEMMA GoneMaps ==
    ASSUME WholeInv, NEW w \in Writers, NEW last, NEW finished, NEW late,
           Gone(w, last, finished, late), UNCHANGED service, UNCHANGED buffer,
           \/ phase[w] = "open" /\ last = "dropped"
           \/ phase[w] \in InFinish /\ last \in {"cancelled", "error"}
           \/ phase[w] \in InFinish /\ last = "ok" /\ \E v \in versions : v.by = w
    PROVE  Atomic!Next
<1>1. TypeOK /\ phase' = [phase EXCEPT ![w] = last] /\ last \notin InFinish
  BY DEF WholeInv, Gone, InFinish
<1>2. /\ SeenState' = [SeenState EXCEPT ![w] = last]
      /\ UNCHANGED <<SeenSize, SeenObject, SeenVersions>>
  BY <1>1, Moves DEF service
<1>3. SeenState[w] = IF phase[w] = "open" THEN "open" ELSE "finishing"
  BY DEF SeenState, InFinish
<1>4. CASE last = "dropped" \/ last = "cancelled"
  BY <1>2, <1>3, <1>4 DEF Atomic!Next, Atomic!Drop, Atomic!Becomes, InFinish
<1>5. CASE last = "error"
  BY <1>2, <1>3, <1>5 DEF Atomic!Next, Atomic!ReturnError, Atomic!Becomes, InFinish
<1>6. CASE last = "ok"
  <2>1. PICK v \in versions : v.by = w
    BY <1>6
  <2>2. AsSeen(v) = [by |-> w, size |-> SeenSize[w]]
    BY <2>1, SeenWhole DEF WholeInv, SeenSize
  <2>3. [by |-> w, size |-> SeenSize[w]] \in SeenVersions
    BY <2>2 DEF SeenVersions
  <2> QED
    BY <1>2, <1>3, <1>6, <2>3 DEF Atomic!Next, Atomic!ReturnOk, Atomic!Becomes, InFinish
<1> QED
  BY <1>4, <1>5, <1>6

\* A finish that has failed returns, or goes on to abort its upload.
LEMMA FailFinishMaps ==
    ASSUME WholeInv, NEW w \in Writers, NEW id, FailFinish(w, id), phase[w] \in InFinish,
           UNCHANGED service, UNCHANGED buffer
    PROVE  [Atomic!Next]_Atomic!vars
<1>1. CASE Return(w, "error")
  BY <1>1, GoneMaps DEF Return
<1>2. CASE ~ Return(w, "error")
  <2>1. TypeOK /\ phase' = [phase EXCEPT ![w] = "aborting"]
    BY <1>2 DEF FailFinish, WholeInv
  <2>2. \A v \in Writers : SeenState'[v] = SeenState[v]
    BY <2>1 DEF SeenState, InFinish, TypeOK, StreamTypeOK
  <2> QED
    BY <2>2, Unseen DEF service
<1> QED
  BY <1>1, <1>2

\* A request that is executed stores nothing, or what the stream has accepted.
LEMMA ExecutesMaps ==
    ASSUME WholeInv, WholeInv', NEW c \in Call, CallInv(c), NEW id, Executes(c, id),
           UNCHANGED <<phase, buffer>>
    PROVE  [Atomic!Next]_Atomic!vars
<1>1. UNCHANGED SeenState /\ UNCHANGED SeenSize /\ c.by \in Writers
  BY DEF SeenState, SeenSize, Call
<1>2. CASE PutObject(c, id) \/ CompleteUpload(c, id)
  <2>1. PICK pieces : Store([by |-> c.by, pieces |-> pieces]) /\ c.op \in {"put", "complete"}
    BY <1>2 DEF PutObject, CompleteUpload
  <2> DEFINE new == [by |-> c.by, pieces |-> pieces]
  <2>2. object' = new /\ versions' = versions \cup {new} /\ new.by = c.by
    BY <2>1 DEF Store
  <2>3. ContentInv(new)' /\ new # NoObject
    <3>1. new \in versions'
      BY <2>2
    <3>2. new \in Content
      BY <3>1 DEF WholeInv, TypeOK, ServiceTypeOK
    <3> QED
      BY <3>1, <3>2, ServiceAssumption DEF WholeInv
  <2> HIDE DEF new
  <2>4. AsSeen(new) = [by |-> c.by, size |-> SeenSize[c.by]]
    BY <1>1, <2>2, <2>3 DEF ContentInv, Tiles, AsSeen, SeenSize
  <2>5. SeenObject' = AsSeen(new) /\ SeenVersions' = SeenVersions \cup {AsSeen(new)}
    BY <2>2, <2>3 DEF SeenObject, SeenVersions
  <2>6. SeenState[c.by] \in {"finishing", "ok", "error", "cancelled"}
    BY <1>1, <2>1 DEF CallInv, SeenState, Begun, InFinish
  <2> QED
    BY <1>1, <2>4, <2>5, <2>6 DEF Atomic!Next, Atomic!Store
<1>3. CASE UNCHANGED <<object, versions>>
  BY <1>1, <1>3, Unseen
<1> QED
  BY <1>2, <1>3 DEF Executes, CreateUpload, UploadPart, AbortUpload

-----------------------------------------------------------------------------
(* Every step maps to a step or to none.                                   *)

LEMMA StartMaps == Init => Atomic!Init
<1> SUFFICES ASSUME Init PROVE Atomic!Init
  OBVIOUS
<1>1. SeenState = [w \in Writers |-> "absent"] /\ SeenSize = [w \in Writers |-> 0]
  BY DEF Init, SeenState, SeenSize, InFinish, Bytes
<1>2. SeenObject = NoObject /\ SeenVersions = {}
  BY DEF Init, ServiceInit, SeenObject, SeenVersions
<1> QED
  BY <1>1, <1>2 DEF Atomic!Init

LEMMA StepMaps ==
    ASSUME WholeInv, WholeInv', OkInv, [Next]_vars
    PROVE  [Atomic!Next]_Atomic!vars
<1>1. TypeOK /\ \A w \in Writers : call[w] \in Call /\ CallInv(call[w]) /\ StoredInv(w)
  BY DEF WholeInv, OkInv, TypeOK, CallsTypeOK
<1>2. \A w \in Writers : phase[w] \in {"open"} \cup InFinish => SeenState[w] =
          IF phase[w] = "open" THEN "open" ELSE "finishing"
  BY DEF SeenState, InFinish
<1>3. ASSUME NEW w \in Writers, Create(w) PROVE Atomic!Next
  <2>1. /\ SeenState' = [SeenState EXCEPT ![w] = "open"]
        /\ UNCHANGED <<SeenSize, SeenObject, SeenVersions>>
    BY <1>1, <1>3, Moves DEF Create, InFinish, service
  <2>2. SeenState[w] = "absent"
    BY <1>3 DEF Create, SeenState, InFinish
  <2> QED
    BY <2>1, <2>2 DEF Atomic!Next, Atomic!Create, Atomic!Becomes
<1>4. ASSUME NEW w \in Writers, NEW len \in 1 .. (MaxBytes - buffer[w].hi), PollWrite(w, len)
      PROVE  Atomic!Next
  <2>1. buffer[w] \in Body /\ Size(buffer[w]) < PartSize /\ buffer[w].lo <= buffer[w].hi
    BY <1>1 DEF TypeOK, StreamTypeOK, Body, Size
  <2>2. Filled(w, len).hi \in buffer[w].hi + 1 .. MaxBytes
    <3>1. /\ buffer[w].lo \in Nat /\ buffer[w].hi \in Nat /\ PartSize \in Nat /\ MaxBytes \in Nat
          /\ PartSize - Size(buffer[w]) = PartSize - (buffer[w].hi - buffer[w].lo)
      BY <2>1, WriterAssumption, ServiceAssumption DEF Body, Size
    <3>2. /\ len \in Nat /\ 0 < len /\ buffer[w].hi + len <= MaxBytes
          /\ buffer[w].hi - buffer[w].lo < PartSize
      BY <2>1, <3>1 DEF Size
    <3>3. Filled(w, len).hi = buffer[w].hi + (IF len < PartSize - (buffer[w].hi - buffer[w].lo)
                                              THEN len
                                              ELSE PartSize - (buffer[w].hi - buffer[w].lo))
      BY <3>1 DEF Filled, Bytes
    <3> QED
      BY <2>1, <3>1, <3>2, <3>3
  <2>3. \E b : b.hi = Filled(w, len).hi /\ buffer' = [buffer EXCEPT ![w] = b]
    BY <1>4 DEF PollWrite, StartPart, Bytes
  <2>4. /\ UNCHANGED <<SeenState, SeenObject, SeenVersions>>
        /\ SeenState[w] = "open"
    BY <1>4 DEF PollWrite, MayPoll, SeenState, SeenObject, SeenVersions, InFinish, service
  <2>5. SeenSize' = [SeenSize EXCEPT ![w] = Filled(w, len).hi] /\ SeenSize[w] = buffer[w].hi
    BY <1>1, <2>3 DEF SeenSize, TypeOK, StreamTypeOK
  <2> QED
    BY <2>2, <2>4, <2>5 DEF Atomic!Next, Atomic!Accept
<1>5. ASSUME NEW w \in Writers, Finish(w) PROVE Atomic!Next
  <2>1. /\ SeenState' = [SeenState EXCEPT ![w] = "finishing"]
        /\ UNCHANGED <<SeenSize, SeenObject, SeenVersions>>
    BY <1>1, <1>5, Moves DEF Finish, InFinish, service
  <2> QED
    BY <1>2, <1>5, <2>1 DEF Finish, MayPoll, Atomic!Next, Atomic!Finish, Atomic!Becomes
<1>6. ASSUME NEW w \in Writers,
             PollStarts(w) \/ PollCreated(w) \/ PollFlush(w) \/ PollFails(w) \/ Resend(w) \/ GiveUp(w)
      PROVE  UNCHANGED Atomic!vars
  <2>1. UNCHANGED <<phase, buffer, object, versions>>
    BY <1>6 DEF PollStarts, PollCreated, PollFlush, PollFails, Resend, GiveUp, service, stream
  <2> QED
    BY <2>1, Unseen DEF SeenState
<1>7. ASSUME NEW w \in Writers, Answer(w) PROVE [Atomic!Next]_Atomic!vars
  <2>1. UNCHANGED <<phase, buffer>>
    BY <1>7 DEF Answer, stream
  <2>2. CASE Rejects(call[w])
    BY <2>1, <2>2, Unseen DEF Rejects, service, SeenState
  <2>3. CASE \E id : Executes(call[w], id)
    BY <1>1, <2>1, <2>3, ExecutesMaps
  <2> QED
    BY <1>7, <2>2, <2>3 DEF Answer
<1>8. ASSUME NEW c \in stray, ServeStray(c) PROVE [Atomic!Next]_Atomic!vars
  <2>1. UNCHANGED <<phase, buffer>> /\ c \in Call /\ CallInv(c)
    BY <1>8 DEF ServeStray, stream, WholeInv, TypeOK, CallsTypeOK
  <2>2. CASE Rejects(c)
    BY <2>1, <2>2, Unseen DEF Rejects, service, SeenState
  <2>3. CASE \E id : Executes(c, id)
    BY <2>1, <2>3, ExecutesMaps
  <2> QED
    BY <1>8, <2>2, <2>3 DEF ServeStray
<1>9. ASSUME NEW c \in stray, LoseStray(c) PROVE UNCHANGED Atomic!vars
  BY <1>9, Unseen DEF LoseStray, service, stream, SeenState
<1>10. ASSUME NEW w \in Writers, Drop(w) PROVE Atomic!Next
  BY <1>10, GoneMaps DEF Drop
<1>11. ASSUME NEW w \in Writers, Drained(w) \/ LastPartDone(w) PROVE UNCHANGED Atomic!vars
  <2>1. /\ UNCHANGED <<object, versions>> /\ phase[w] \in InFinish
        /\ \E next \in InFinish : phase' = [phase EXCEPT ![w] = next]
        /\ UNCHANGED buffer \/ buffer' = [buffer EXCEPT ![w].lo = buffer[w].hi]
    BY <1>11 DEF Drained, LastPartDone, SendComplete, InFinish, service
  <2>2. \A v \in Writers : SeenState'[v] = SeenState[v]
    BY <1>1, <2>1 DEF SeenState, TypeOK, StreamTypeOK
  <2>3. \A v \in Writers : buffer'[v].hi = buffer[v].hi
    <3>1. buffer \in [Writers -> Body] /\ buffer[w] \in Body
      BY <1>1 DEF TypeOK, StreamTypeOK
    <3>2. [buffer[w] EXCEPT !.lo = buffer[w].hi].hi = buffer[w].hi
      BY <3>1 DEF Body
    <3> QED
      BY <2>1, <3>1, <3>2
  <2> QED
    BY <2>1, <2>2, <2>3, Unseen
<1>12. ASSUME NEW w \in Writers, DrainFails(w) \/ FinishCallFails(w)
       PROVE  [Atomic!Next]_Atomic!vars
  <2>1. phase[w] \in InFinish /\ UNCHANGED service /\ UNCHANGED buffer /\ \E id : FailFinish(w, id)
    BY <1>12 DEF DrainFails, FinishCallFails, InFinish
  <2> QED
    BY <2>1, FailFinishMaps
<1>13. ASSUME NEW w \in Writers, FinishOk(w) PROVE Atomic!Next
  <2>1. /\ phase[w] \in {"putting", "completing"} /\ Gone(w, "ok", TRUE, {})
        /\ UNCHANGED service /\ UNCHANGED buffer
    BY <1>13 DEF FinishOk, Return
  <2>2. \E v \in versions : v.by = w
    BY <1>1, <1>13 DEF FinishOk, StoredInv, Answered
  <2> QED
    BY <2>1, <2>2, GoneMaps DEF InFinish
<1>14. ASSUME NEW w \in Writers, AbortReturns(w) PROVE Atomic!Next
  BY <1>14, GoneMaps DEF AbortReturns, Return, InFinish
<1>15. CASE UNCHANGED vars
  BY <1>15, Unseen DEF vars, service, stream, SeenState
<1> QED
  BY <1>3, <1>4, <1>5, <1>6, <1>7, <1>8, <1>9, <1>10, <1>11, <1>12, <1>13, <1>14, <1>15
  DEF Next, PollOpen, PollFinish, Transport

\* Whatever fails, is repeated, or is cancelled, owners see objects stored at
\* one instant, whole, not before finish is called, and by every finish that
\* says Ok (write.rs 5-8, 89-139, 226-289).
THEOREM StreamsAreAtomic == StopAfterError => (Spec => ImplementsAtomicObject)
<1> SUFFICES ASSUME StopAfterError PROVE Spec => ImplementsAtomicObject
  OBVIOUS
<1>1. Spec => []WholeInv
  BY BytesAccounted
<1>2. WholeInv /\ WholeInv' /\ OkInv /\ [Next]_vars => [Atomic!Next]_Atomic!vars
  BY StepMaps
<1> QED
  BY <1>1, <1>2, StartMaps, OkAccounted, PTL DEF Spec, ImplementsAtomicObject, Atomic!Spec
=============================================================================
