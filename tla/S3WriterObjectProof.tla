------------------------ MODULE S3WriterObjectProof ------------------------
(***************************************************************************)
(* The stored object is whole: WholeObject, by the invariant WholeInv; and *)
(* a finish that returned Ok has stored its object: OkIsStored, by OkInv.  *)
(* Both for any number of streams, bytes, parts and repeated calls.        *)
(***************************************************************************)
EXTENDS S3WriterProof

-----------------------------------------------------------------------------
(* Lists of parts.                                                         *)

\* The empty list is a chain that ends at byte 0.
LEMMA EmptyChain == Chain(<<>>) /\ End(<<>>) = 0
  BY DEF Chain, End

\* A chain of parts and the part that continues it are a chain.
LEMMA ChainAppend ==
    ASSUME NEW list \in Seq(Part), NEW number \in Nat, NEW body \in Body,
           Chain(list), Continues(list, number, body)
    PROVE  LET longer == Append(list, [number |-> number, etag |-> body])
           IN  Chain(longer) /\ End(longer) = body.hi
  <1> DEFINE part == [number |-> number, etag |-> body]
             longer == Append(list, part)
  <1>1. part \in Part
    BY DEF Part
  <1>2. /\ Len(longer) = Len(list) + 1 /\ longer # <<>> /\ Len(list) \in Nat
        /\ \A i \in 1 .. Len(list) : longer[i] = list[i]
        /\ longer[Len(list) + 1] = part
    BY <1>1
  <1>3. End(longer) = body.hi
    BY <1>2 DEF End
  <1>4. ASSUME NEW i \in 1 .. Len(longer)
        PROVE  /\ longer[i].number = i
               /\ longer[i].etag.lo = (IF i = 1 THEN 0 ELSE longer[i - 1].etag.hi)
               /\ longer[i].etag.lo <= longer[i].etag.hi
    <2>1. CASE i \in 1 .. Len(list)
      <3>1. i # 1 => i - 1 \in 1 .. Len(list)
        BY <2>1, <1>2
      <3> HIDE DEF longer
      <3> QED
        BY <2>1, <3>1, <1>2 DEF Chain
    <2>2. CASE i = Len(list) + 1
      <3>1. longer[i] = part
        BY <2>2, <1>2
      <3>2. i # 1 => /\ i - 1 = Len(list) /\ longer[i - 1] = list[Len(list)] /\ list # <<>>
        BY <2>2, <1>2
      <3>3. i = 1 => list = <<>>
        BY <2>2, <1>2
      <3> HIDE DEF longer
      <3> QED
        BY <2>2, <3>1, <3>2, <3>3 DEF Continues, End
    <2> QED
      BY <1>2, <2>1, <2>2
  <1> QED
    BY <1>3, <1>4 DEF Chain

\* The pieces of a chain that is not empty tile the bytes up to its end.
LEMMA ChainTiles ==
    ASSUME NEW list \in Seq(Part), list # <<>>, Chain(list)
    PROVE  Tiles([i \in 1 .. Len(list) |-> list[i].etag], End(list))
  <1> DEFINE pieces == [i \in 1 .. Len(list) |-> list[i].etag]
  <1>1. Len(list) \in Nat /\ Len(list) > 0
    OBVIOUS
  <1>2. Len(pieces) = Len(list) /\ pieces # <<>>
    BY <1>1
  <1>3. \A i \in 1 .. Len(list) : pieces[i] = list[i].etag /\ (i # 1 => i - 1 \in 1 .. Len(list))
    BY <1>1
  <1> HIDE DEF pieces
  <1>4. \A i \in 1 .. Len(pieces) :
            /\ pieces[i].lo = (IF i = 1 THEN 0 ELSE pieces[i - 1].hi)
            /\ pieces[i].lo <= pieces[i].hi
    BY <1>2, <1>3 DEF Chain
  <1>5. End(list) = pieces[Len(pieces)].hi
    BY <1>1, <1>2, <1>3 DEF End
  <1>6. Tiles(pieces, End(list))
    BY <1>2, <1>4, <1>5 DEF Tiles
  <1> QED
    BY <1>6 DEF pieces

-----------------------------------------------------------------------------
(* Frames.                                                                 *)

\* Step w leaves every other stream alone, and w accepts nothing more once
\* its requests may store the object.
Steps(w) ==
    /\ \A v \in Writers \ {w} :
           /\ phase'[v] = phase[v] /\ buffer'[v] = buffer[v] /\ upload_id'[v] = upload_id[v]
           /\ parts'[v] = parts[v] /\ pending'[v] = pending[v] /\ failed'[v] = failed[v]
           /\ call'[v] = call[v] /\ reply'[v] = reply[v]
    /\ phase[w] \in Begun => phase'[w] \in Begun /\ buffer'[w].hi = buffer[w].hi

\* What holds of the calls and the contents before such a step holds after it.
LEMMA FrozenCalls ==
    ASSUME NEW w \in Writers, Steps(w)
    PROVE  /\ \A c \in Call : CallInv(c) => CallInv(c)'
           /\ \A v \in Content : ContentInv(v) => ContentInv(v)'
  <1>1. \A v \in Writers : phase[v] \in Begun => phase'[v] \in Begun /\ buffer'[v].hi = buffer[v].hi
    BY DEF Steps
  <1>2. ASSUME NEW c \in Call, CallInv(c) PROVE CallInv(c)'
    <2>1. c.by \in Writers
      BY DEF Call
    <2> QED
      BY <1>1, <1>2, <2>1 DEF CallInv
  <1>3. ASSUME NEW v \in Content, ContentInv(v) PROVE ContentInv(v)'
    <2>1. v.by \in Writers
      BY DEF Content
    <2> QED
      BY <1>1, <1>3, <2>1 DEF ContentInv
  <1> QED
    BY <1>2, <1>3

\* So a step of w keeps WholeInv if it keeps it for w, for the calls that are
\* new on their way to the service, and for the contents that are new.
LEMMA StepKeeps ==
    ASSUME WholeInv, TypeOK', NEW w \in Writers, Steps(w),
           StreamInv(w)', CallInv(call[w])',
           \A c \in stray' \ stray : CallInv(c)',
           \A v \in versions' \ versions : ContentInv(v)',
           object' = object \/ object' \in versions',
           versions \subseteq versions'
    PROVE  WholeInv'
  <1>1. ASSUME NEW v \in Writers \ {w} PROVE StreamInv(v)' /\ CallInv(call[v])'
    <2>1. StreamInv(v) /\ CallInv(call[v]) /\ call[v] \in Call
      BY DEF WholeInv, TypeOK, CallsTypeOK
    <2>2. call'[v] = call[v]
      BY DEF Steps
    <2>3. CallInv(call[v])'
      BY <2>1, <2>2, FrozenCalls DEF CallInv, Steps
    <2>4. StreamInv(v)'
      BY <2>1 DEF Steps, StreamInv, OpenInv, Follows, Answered
    <2> QED
      BY <2>3, <2>4
  <1>2. ASSUME NEW c \in stray' PROVE CallInv(c)'
    BY <1>2, FrozenCalls DEF WholeInv, TypeOK, CallsTypeOK
  <1>3. ASSUME NEW v \in versions' PROVE ContentInv(v)'
    BY <1>3, FrozenCalls DEF WholeInv, TypeOK, ServiceTypeOK
  <1> QED
    BY <1>1, <1>2, <1>3 DEF WholeInv

-----------------------------------------------------------------------------
(* Where a stored object comes from.                                       *)

\* Whatever call is executed, what it stores is whole.
LEMMA ExecutesWhole ==
    ASSUME NEW c \in Call, CallInv(c), NEW id \in UploadId \cup {NoId}, Executes(c, id),
           TypeOK, UNCHANGED <<phase, buffer>>
    PROVE  /\ \A v \in versions' \ versions : ContentInv(v)'
           /\ object' = object \/ object' \in versions'
           /\ versions \subseteq versions'
  <1>1. CASE PutObject(c, id)
    <2> DEFINE new == [by |-> c.by, pieces |-> <<c.body>>]
    <2>1. phase[c.by] \in Begun /\ c.body = Bytes(0, buffer[c.by].hi)
      BY <1>1 DEF PutObject, CallInv
    <2>2. buffer[c.by].hi \in Nat
      BY DEF TypeOK, StreamTypeOK, Call, Body
    <2>3. Tiles(<<c.body>>, buffer[c.by].hi)
      BY <2>1, <2>2 DEF Tiles, Bytes
    <2>4. ContentInv(new)'
      BY <2>1, <2>3 DEF ContentInv, Tiles
    <2> QED
      BY <1>1, <2>4 DEF PutObject, Store
  <1>2. CASE CompleteUpload(c, id)
    <2> DEFINE pieces == [i \in 1 .. Len(c.list) |-> c.list[i].etag]
               new == [by |-> c.by, pieces |-> pieces]
    <2>1. /\ phase[c.by] \in Begun
          /\ Chain(c.list) /\ End(c.list) = buffer[c.by].hi
          /\ c.list # <<>> /\ c.list \in Seq(Part)
      BY <1>2 DEF CompleteUpload, CallInv, ListIsValid, Call
    <2>2. Tiles(pieces, buffer[c.by].hi)
      BY <2>1, ChainTiles
    <2> HIDE DEF pieces
    <2>3. ContentInv(new)'
      BY <2>1, <2>2 DEF ContentInv, Tiles
    <2> QED
      BY <1>2, <2>3 DEF CompleteUpload, Store, pieces
  <1>3. CASE CreateUpload(c, id) \/ UploadPart(c, id) \/ AbortUpload(c, id)
    BY <1>3 DEF CreateUpload, UploadPart, AbortUpload
  <1> QED
    BY <1>1, <1>2, <1>3 DEF Executes

\* A call that stores nothing asks for nothing.
LEMMA HarmlessCall ==
    ASSUME NEW c, c.op \in {"none", "create", "part", "abort"}
    PROVE  CallInv(c)'
  BY DEF CallInv

\* What poll_pending takes from the part future continues the stream.
LEMMA SettledFollows ==
    ASSUME TypeOK, NEW w \in Writers, StreamInv(w), phase[w] \in {"open", "draining"},
           ~ failed[w], PartDone(w)
    PROVE  /\ Chain(SettledParts(w))
           /\ End(SettledParts(w)) = buffer[w].lo
           /\ SettledParts(w) # <<>> => SettledId(w) # NoId
  <1>1. Chain(parts[w]) /\ OpenInv(w) /\ Follows(w)
    BY DEF StreamInv, OpenInv
  <1>2. parts[w] \in Seq(Part) /\ pending[w] \in PartInFlight /\ buffer[w] \in Body
    BY DEF TypeOK, StreamTypeOK
  <1>3. CASE pending[w] = NoPart
    BY <1>1, <1>3 DEF SettledParts, SettledId, Follows, OpenInv, NoPart
  <1>4. CASE pending[w] # NoPart
    <2>1. pending[w].id # NoId
      BY <1>1, <1>4 DEF PartDone, Answered, OpenInv
    <2>2. Continues(parts[w], pending[w].number, pending[w].body)
              /\ pending[w].body.hi = buffer[w].lo
      BY <1>1, <1>4 DEF Follows
    <2>3. pending[w].number \in Nat /\ pending[w].body \in Body
      BY <1>2 DEF PartInFlight
    <2> QED
      BY <1>1, <1>2, <1>4, <2>1, <2>2, <2>3, ChainAppend DEF SettledParts, SettledId
  <1> QED
    BY <1>3, <1>4

\* The next part number and the bytes that follow a list continue it.
LEMMA NextContinues ==
    ASSUME NEW list, NEW body, body.lo = End(list), body.lo <= body.hi
    PROVE  Continues(list, NextPartNumber(list), body)
  BY DEF Continues, NextPartNumber

\* A stream that is gone keeps the invariant: the calls it leaves behind are
\* the one it awaited and an abort.
LEMMA GoneKeeps ==
    ASSUME WholeInv, TypeOK', NEW w \in Writers, NEW last \in Closed, NEW finished \in BOOLEAN,
           NEW late \in SUBSET {call[w]}, Gone(w, last, finished, late),
           phase[w] \in Begun => last \in Begun,
           UNCHANGED service, UNCHANGED <<buffer, failed>>
    PROVE  WholeInv'
  <1>1. TypeOK /\ StreamInv(w) /\ CallInv(call[w]) /\ call[w] \in Call
    BY DEF WholeInv, TypeOK, CallsTypeOK
  <1>2. /\ phase'[w] = last /\ buffer'[w] = buffer[w] /\ parts'[w] = <<>>
        /\ pending'[w] = NoPart /\ call'[w] = NoCall(w)
    BY <1>1 DEF Gone, Hang, Send, TypeOK, StreamTypeOK, CallsTypeOK
  <1>3. Steps(w)
    BY <1>1, <1>2 DEF Gone, Hang, Send, Steps, TypeOK, StreamTypeOK, CallsTypeOK
  <1>4. StreamInv(w)'
    BY <1>2, EmptyChain DEF StreamInv, Chain, Closed
  <1>5. CallInv(call[w])'
    BY <1>2 DEF CallInv, NoCall, Request
  <1>6. ASSUME NEW c \in stray' \ stray PROVE CallInv(c)'
    <2>1. c \in late \/ c = Request("abort", w, upload_id[w])
      BY <1>6 DEF Gone, SpawnedAbort
    <2>2. CASE c \in late
      BY <1>1, <1>3, <2>2, FrozenCalls
    <2>3. CASE c = Request("abort", w, upload_id[w])
      BY <2>3, HarmlessCall DEF Request
    <2> QED
      BY <2>1, <2>2, <2>3
  <1> QED
    BY <1>3, <1>4, <1>5, <1>6, StepKeeps DEF service

\* So does a finish whose last calls failed.
LEMMA FailFinishKeeps ==
    ASSUME WholeInv, TypeOK', NEW w \in Writers, NEW id \in UploadId \cup {NoId},
           FailFinish(w, id), UNCHANGED service, UNCHANGED <<buffer, failed>>
    PROVE  WholeInv'
  <1>1. CASE Return(w, "error")
    <2>1. Gone(w, "error", TRUE, {}) /\ "error" \in Closed /\ "error" \in Begun
              /\ {} \in SUBSET {call[w]}
      BY <1>1 DEF Return, Closed, Begun
    <2> QED
      BY <2>1, GoneKeeps
  <1>2. CASE ~ Return(w, "error")
    <2>1. TypeOK /\ StreamInv(w)
      BY DEF WholeInv
    <2>2. /\ phase' = [phase EXCEPT ![w] = "aborting"]
          /\ upload_id' = [upload_id EXCEPT ![w] = NoId]
          /\ pending' = [pending EXCEPT ![w] = NoPart]
          /\ Send(w, Request("abort", w, id))
          /\ UNCHANGED <<parts, stray>>
      BY <1>2 DEF FailFinish
    <2>3. /\ phase'[w] = "aborting" /\ call'[w] = Request("abort", w, id) /\ pending'[w] = NoPart
      BY <2>1, <2>2 DEF Send, TypeOK, StreamTypeOK, CallsTypeOK
    <2>4. Steps(w)
      BY <2>1, <2>2 DEF Send, Steps, Begun, TypeOK, StreamTypeOK, CallsTypeOK
    <2>5. StreamInv(w)'
      BY <2>1, <2>2, <2>3 DEF StreamInv, Chain
    <2>6. CallInv(call[w])'
      BY <2>3 DEF CallInv, Request
    <2> QED
      BY <2>2, <2>4, <2>5, <2>6, StepKeeps DEF service
  <1> QED
    BY <1>1, <1>2

\* The streams start with nothing accepted and nothing stored ...
LEMMA WholeInit == Init => WholeInv
  <1> SUFFICES ASSUME Init PROVE WholeInv
    OBVIOUS
  <1>1. \A w \in Writers : StreamInv(w)
    BY EmptyChain DEF Init, StreamInv, Chain, NoCall, Request
  <1>2. \A w \in Writers : CallInv(call[w])
    BY DEF Init, CallInv, NoCall, Request
  <1> QED
    BY <1>1, <1>2, TypeInit DEF Init, ServiceInit, WholeInv

\* ... and every step keeps the invariant, if no failed stream is polled.
LEMMA WholeStep ==
    ASSUME StopAfterError, WholeInv, [Next]_vars
    PROVE  WholeInv'
  <1>1. TypeOK /\ TypeOK'
    BY TypeStep DEF WholeInv
  <1>2. \A w \in Writers : /\ StreamInv(w) /\ CallInv(call[w]) /\ call[w] \in Call
                          /\ pending[w] \in PartInFlight /\ parts[w] \in Seq(Part)
                          /\ buffer[w] \in Body /\ buffer[w].lo <= buffer[w].hi
    BY <1>1 DEF WholeInv, TypeOK, StreamTypeOK, CallsTypeOK
  <1>3. ASSUME NEW w \in Writers, Answer(w) PROVE WholeInv'
    <2>1. UNCHANGED stream /\ UNCHANGED stray
      BY <1>3 DEF Answer, loose
    <2>2. /\ call'[w] = [call[w] EXCEPT !.id = call'[w].id]
          /\ \A v \in Writers \ {w} : call'[v] = call[v]
      BY <1>1, <1>2, <1>3 DEF Answer, TypeOK, CallsTypeOK, Call
    <2>3. Steps(w)
      BY <1>1, <1>3, <2>1, <2>2 DEF Answer, stream, Steps, TypeOK, CallsTypeOK
    <2>4. StreamInv(w)'
      <3>1. ASSUME call[w].op = "create", NEW id, Executes(call[w], id) PROVE id # NoId
        BY <3>1, ServiceAssumption
        DEF Executes, CreateUpload, UploadPart, PutObject, CompleteUpload, AbortUpload
      <3>2. ASSUME call'[w].op = "create", reply'[w] = "ok" PROVE call'[w].id # NoId
        <4>1. PICK id \in UploadId \cup {NoId} :
                  Executes(call[w], id) /\ call' = [call EXCEPT ![w].id = id]
          BY <1>1, <1>3, <3>2 DEF Answer, TypeOK, CallsTypeOK
        <4>2. call[w].op = "create" /\ call'[w].id = id
          BY <1>1, <1>2, <2>2, <3>2, <4>1 DEF Call, TypeOK, CallsTypeOK
        <4> QED
          BY <3>1, <4>1, <4>2
      <3> QED
        BY <1>2, <2>1, <2>2, <3>2 DEF stream, StreamInv, OpenInv, Follows, Answered, Call
    <2>5. CallInv(call[w])'
      BY <1>2, <2>1, <2>2 DEF stream, CallInv, Call
    <2>6. /\ \A v \in versions' \ versions : ContentInv(v)'
          /\ object' = object \/ object' \in versions'
          /\ versions \subseteq versions'
      <3>1. UNCHANGED <<phase, buffer>>
        BY <2>1 DEF stream
      <3> QED
        BY <1>1, <1>2, <1>3, <3>1, ExecutesWhole DEF Answer, Rejects, service
    <2> QED
      BY <1>1, <2>1, <2>3, <2>4, <2>5, <2>6, StepKeeps
  <1>4. ASSUME NEW w \in Writers, Resend(w) \/ GiveUp(w) PROVE WholeInv'
    <2>1. /\ UNCHANGED stream /\ UNCHANGED service /\ UNCHANGED call
          /\ stray' = stray \cup {call[w]}
          /\ reply' = [reply EXCEPT ![w] = "error"] \/ UNCHANGED reply
      BY <1>4 DEF Resend, GiveUp
    <2>2. Steps(w)
      BY <1>1, <2>1 DEF stream, Steps, TypeOK, CallsTypeOK
    <2>3. StreamInv(w)' /\ CallInv(call[w])'
      BY <1>1, <1>2, <2>1 DEF TypeOK, CallsTypeOK, stream, StreamInv, OpenInv, Follows, Answered, CallInv
    <2>4. \A c \in stray' \ stray : CallInv(c)'
      BY <1>2, <2>1, <2>2, FrozenCalls
    <2> QED
      BY <1>1, <2>1, <2>2, <2>3, <2>4, StepKeeps DEF service
  <1>5. ASSUME NEW c \in stray, ServeStray(c) \/ LoseStray(c) PROVE WholeInv'
    <2>1. c \in Call /\ CallInv(c) /\ c.by \in Writers
      BY <1>1, <1>5 DEF WholeInv, TypeOK, CallsTypeOK, Call
    <2>2. UNCHANGED stream /\ UNCHANGED <<call, reply>> /\ stray' = stray \ {c}
      BY <1>5 DEF ServeStray, LoseStray
    <2>3. Steps(c.by)
      BY <2>1, <2>2 DEF stream, Steps
    <2>4. StreamInv(c.by)' /\ CallInv(call[c.by])'
      BY <1>2, <2>1, <2>2 DEF stream, StreamInv, OpenInv, Follows, Answered, CallInv
    <2>5. /\ \A v \in versions' \ versions : ContentInv(v)'
          /\ object' = object \/ object' \in versions'
          /\ versions \subseteq versions'
      <3>1. UNCHANGED <<phase, buffer>>
        BY <2>2 DEF stream
      <3> QED
        BY <1>1, <1>5, <2>1, <3>1, ExecutesWhole DEF ServeStray, LoseStray, Rejects, service
    <2> QED
      BY <1>1, <2>1, <2>2, <2>3, <2>4, <2>5, StepKeeps
  <1>6. ASSUME NEW w \in Writers, PollStarts(w) PROVE WholeInv'
    <2> DEFINE c == IF pending[w].id = NoId
                    THEN Request("create", w, NoId)
                    ELSE PartRequest(w, pending[w].id, pending[w].number, pending[w].body)
    <2>1. /\ Send(w, c) /\ UNCHANGED service /\ UNCHANGED stream /\ UNCHANGED stray
          /\ phase[w] \in {"open", "draining"} /\ pending[w] # NoPart
      BY <1>6 DEF PollStarts, Driven, loose
    <2>2. c.op \in {"create", "part"} /\ (c.op = "part" => pending[w].id # NoId)
      BY DEF Request, PartRequest
    <2> HIDE DEF c
    <2>3. call'[w] = c /\ reply'[w] = "none"
      BY <1>1, <2>1 DEF Send, TypeOK, CallsTypeOK
    <2>4. Steps(w)
      BY <1>1, <2>1 DEF Send, stream, Steps, TypeOK, CallsTypeOK
    <2>5. StreamInv(w)'
      BY <1>2, <2>1, <2>2, <2>3 DEF stream, StreamInv, OpenInv, Follows, Answered
    <2>6. CallInv(call[w])'
      BY <2>2, <2>3 DEF CallInv
    <2> QED
      BY <1>1, <2>1, <2>4, <2>5, <2>6, StepKeeps DEF service
  <1>7. ASSUME NEW w \in Writers, PollCreated(w) PROVE WholeInv'
    <2> DEFINE c == PartRequest(w, call[w].id, pending[w].number, pending[w].body)
    <2>1. /\ Send(w, c) /\ UNCHANGED service /\ UNCHANGED stray
          /\ UNCHANGED <<phase, buffer, upload_id, parts, failed>>
          /\ pending' = [pending EXCEPT ![w].id = call[w].id]
          /\ phase[w] \in {"open", "draining"} /\ call[w].op = "create"
      BY <1>7 DEF PollCreated, Driven, Answered, loose
    <2>2. c.op = "part"
      BY DEF Request, PartRequest
    <2> HIDE DEF c
    <2>3. /\ call'[w] = c /\ reply'[w] = "none"
          /\ pending'[w] = [pending[w] EXCEPT !.id = call[w].id]
      BY <1>1, <2>1 DEF Send, TypeOK, StreamTypeOK, CallsTypeOK
    <2>4. Steps(w)
      BY <1>1, <2>1 DEF Send, Steps, TypeOK, StreamTypeOK, CallsTypeOK
    <2>5. pending[w] # NoPart /\ OpenInv(w)
      BY <1>2, <2>1 DEF StreamInv, OpenInv
    <2>6. call[w].id # NoId
      BY <1>7, <2>5 DEF PollCreated, Driven, OpenInv
    <2>7. /\ pending'[w].id # NoId /\ pending'[w] # NoPart
          /\ pending'[w].number = pending[w].number /\ pending'[w].body = pending[w].body
      BY <1>2, <2>3, <2>6 DEF PartInFlight, NoPart
    <2>8. OpenInv(w)'
      BY <2>1, <2>2, <2>3, <2>5, <2>7 DEF OpenInv, Follows, Answered, Continues, End
    <2>9. StreamInv(w)' /\ CallInv(call[w])'
      BY <1>2, <2>1, <2>2, <2>3, <2>8 DEF StreamInv, CallInv, Chain
    <2> QED
      BY <1>1, <2>1, <2>4, <2>9, StepKeeps DEF service
  <1>8. ASSUME NEW w \in Writers, NEW len \in 1 .. (MaxBytes - buffer[w].hi), PollWrite(w, len)
        PROVE  WholeInv'
    <2>1. /\ phase[w] = "open" /\ ~ failed[w] /\ PartDone(w)
          /\ parts' = [parts EXCEPT ![w] = SettledParts(w)]
          /\ upload_id' = [upload_id EXCEPT ![w] = SettledId(w)]
          /\ call' = [call EXCEPT ![w] = NoCall(w)] /\ reply' = [reply EXCEPT ![w] = "none"]
          /\ UNCHANGED service /\ UNCHANGED stray /\ UNCHANGED <<phase, failed>>
      BY <1>8 DEF PollWrite, MayPoll, Settle, Hang, Send, loose
    <2>2. /\ Chain(SettledParts(w)) /\ End(SettledParts(w)) = buffer[w].lo
          /\ SettledParts(w) # <<>> => SettledId(w) # NoId
      BY <1>1, <1>2, <2>1, SettledFollows
    <2>3. /\ parts'[w] = SettledParts(w) /\ upload_id'[w] = SettledId(w)
          /\ call'[w] = NoCall(w) /\ NoCall(w).op = "none"
      BY <1>1, <2>1 DEF TypeOK, StreamTypeOK, CallsTypeOK, NoCall, Request
    <2>4. len \in Nat
      BY <1>2, WriterAssumption DEF Body
    <2>5. /\ Filled(w, len) \in Body /\ Filled(w, len).lo = buffer[w].lo
          /\ Filled(w, len).lo <= Filled(w, len).hi
      BY <1>1, <2>4, FilledType DEF TypeOK
    <2>6. Follows(w)' /\ Steps(w)
      <3>1. CASE StartPart(w, Filled(w, len))
        <4>1. pending'[w] = [id |-> SettledId(w), number |-> NextPartNumber(SettledParts(w)),
                             body |-> Filled(w, len)]
              /\ buffer'[w] = Bytes(Filled(w, len).hi, Filled(w, len).hi)
          BY <1>1, <3>1 DEF StartPart, TypeOK, StreamTypeOK
        <4>2. Continues(SettledParts(w), pending'[w].number, pending'[w].body)
          BY <2>2, <2>5, <4>1, NextContinues
        <4>3. Follows(w)'
          <5>1. pending'[w] # NoPart
            BY <1>1, <4>1, SettledType DEF NoPart, NextPartNumber, TypeOK
          <5> QED
            BY <2>3, <4>1, <4>2, <5>1 DEF Follows, Continues, End, Bytes
        <4>4. Steps(w)
          BY <1>1, <2>1, <3>1 DEF StartPart, Steps, Begun, TypeOK, StreamTypeOK, CallsTypeOK
        <4> QED
          BY <4>3, <4>4
      <3>2. CASE buffer' = [buffer EXCEPT ![w] = Filled(w, len)]
                     /\ pending' = [pending EXCEPT ![w] = NoPart]
        <4>1. Follows(w)'
          BY <1>1, <2>2, <2>3, <2>5, <3>2 DEF Follows, End, TypeOK, StreamTypeOK
        <4>2. Steps(w)
          BY <1>1, <2>1, <3>2 DEF Steps, Begun, TypeOK, StreamTypeOK, CallsTypeOK
        <4> QED
          BY <4>1, <4>2
      <3> QED
        BY <1>8, <3>1, <3>2 DEF PollWrite
    <2>7. StreamInv(w)'
      BY <2>1, <2>2, <2>3, <2>6 DEF StreamInv, OpenInv, Answered, Chain
    <2>8. CallInv(call[w])'
      BY <2>3, HarmlessCall
    <2> QED
      BY <1>1, <2>1, <2>6, <2>7, <2>8, StepKeeps DEF service
  <1>9. ASSUME NEW w \in Writers, PollFlush(w) PROVE WholeInv'
    <2>1. /\ phase[w] = "open" /\ ~ failed[w] /\ PartDone(w)
          /\ parts' = [parts EXCEPT ![w] = SettledParts(w)]
          /\ upload_id' = [upload_id EXCEPT ![w] = SettledId(w)]
          /\ pending' = [pending EXCEPT ![w] = NoPart]
          /\ call' = [call EXCEPT ![w] = NoCall(w)] /\ reply' = [reply EXCEPT ![w] = "none"]
          /\ UNCHANGED service /\ UNCHANGED stray /\ UNCHANGED <<phase, buffer, failed>>
      BY <1>9 DEF PollFlush, MayPoll, Settle, Hang, Send, loose
    <2>2. /\ Chain(SettledParts(w)) /\ End(SettledParts(w)) = buffer[w].lo
          /\ SettledParts(w) # <<>> => SettledId(w) # NoId
      BY <1>1, <1>2, <2>1, SettledFollows
    <2>3. /\ parts'[w] = SettledParts(w) /\ upload_id'[w] = SettledId(w) /\ pending'[w] = NoPart
          /\ call'[w] = NoCall(w) /\ NoCall(w).op = "none"
      BY <1>1, <2>1 DEF TypeOK, StreamTypeOK, CallsTypeOK, NoCall, Request
    <2>4. Steps(w)
      BY <1>1, <2>1 DEF Steps, TypeOK, StreamTypeOK, CallsTypeOK
    <2>5. StreamInv(w)'
      BY <2>1, <2>2, <2>3 DEF StreamInv, OpenInv, Follows, Answered, Chain, End
    <2>6. CallInv(call[w])'
      BY <2>3, HarmlessCall
    <2> QED
      BY <1>1, <2>1, <2>4, <2>5, <2>6, StepKeeps DEF service
  <1>10. ASSUME NEW w \in Writers, PollFails(w) PROVE WholeInv'
    <2>1. /\ phase[w] = "open" /\ pending[w] # NoPart
          /\ parts' = [parts EXCEPT ![w] = parts[w]]
          /\ upload_id' = [upload_id EXCEPT ![w] = SettledId(w)]
          /\ pending' = [pending EXCEPT ![w] = NoPart] /\ failed' = [failed EXCEPT ![w] = TRUE]
          /\ call' = [call EXCEPT ![w] = NoCall(w)] /\ reply' = [reply EXCEPT ![w] = "none"]
          /\ UNCHANGED service /\ UNCHANGED stray /\ UNCHANGED <<phase, buffer>>
      BY <1>10 DEF PollFails, PartFailed, MayPoll, Settle, Hang, Send, loose
    <2>2. Chain(parts[w]) /\ (parts[w] # <<>> => SettledId(w) # NoId)
      BY <1>2, <2>1 DEF StreamInv, OpenInv, SettledId
    <2>3. /\ parts'[w] = parts[w] /\ upload_id'[w] = SettledId(w) /\ pending'[w] = NoPart
          /\ call'[w] = NoCall(w) /\ NoCall(w).op = "none" /\ failed'[w]
      BY <1>1, <2>1 DEF TypeOK, StreamTypeOK, CallsTypeOK, NoCall, Request
    <2>4. Steps(w)
      BY <1>1, <2>1 DEF Steps, TypeOK, StreamTypeOK, CallsTypeOK
    <2>5. StreamInv(w)'
      BY <2>1, <2>2, <2>3 DEF StreamInv, OpenInv, Answered, Chain
    <2>6. CallInv(call[w])'
      BY <2>3, HarmlessCall
    <2> QED
      BY <1>1, <2>1, <2>4, <2>5, <2>6, StepKeeps DEF service
  <1>11. ASSUME NEW w \in Writers, Create(w) \/ Finish(w) PROVE WholeInv'
    <2>1. /\ UNCHANGED service /\ UNCHANGED awaited /\ UNCHANGED stray
          /\ UNCHANGED <<buffer, upload_id, parts, pending, failed>>
          /\ \/ phase[w] = "absent" /\ phase' = [phase EXCEPT ![w] = "open"]
             \/ phase[w] = "open" /\ ~ failed[w] /\ phase' = [phase EXCEPT ![w] = "draining"]
      BY <1>11 DEF Create, Finish, MayPoll, loose
    <2>2. Steps(w)
      BY <1>1, <2>1 DEF awaited, Steps, Begun, TypeOK, StreamTypeOK
    <2>3. StreamInv(w)'
      <3>1. CASE phase[w] = "absent"
        <4>1. Follows(w) /\ phase'[w] = "open"
          BY <1>1, <1>2, <2>1, <3>1 DEF StreamInv, Follows, End, Bytes, TypeOK, StreamTypeOK
        <4> QED
          BY <1>2, <2>1, <3>1, <4>1
          DEF awaited, StreamInv, OpenInv, Follows, Answered, Chain, Continues, End
      <3>2. CASE phase[w] = "open"
        <4>1. phase'[w] = "draining" /\ ~ failed[w]
          BY <1>1, <2>1, <3>2 DEF TypeOK, StreamTypeOK
        <4> QED
          BY <1>2, <2>1, <3>2, <4>1
          DEF awaited, StreamInv, OpenInv, Follows, Answered, Chain, Continues, End
      <3> QED
        BY <2>1, <3>1, <3>2
    <2>4. CallInv(call[w])'
      <3>1. call[w].op \in {"none", "create", "part"} /\ call' = call
        BY <1>2, <2>1 DEF awaited, StreamInv, OpenInv
      <3> QED
        BY <3>1 DEF CallInv
    <2> QED
      BY <1>1, <2>1, <2>2, <2>3, <2>4, StepKeeps DEF service
  <1>12. ASSUME NEW w \in Writers, Drop(w) PROVE WholeInv'
    <2> DEFINE last == IF phase[w] = "open" THEN "dropped" ELSE "cancelled"
    <2>1. PICK late \in SUBSET {call[w]} : Gone(w, last, FALSE, late)
      BY <1>12 DEF Drop
    <2>2. last \in Closed /\ (phase[w] \in Begun => last \in Begun)
      BY DEF Closed, Begun
    <2>3. UNCHANGED service /\ UNCHANGED <<buffer, failed>>
      BY <1>12 DEF Drop
    <2> HIDE DEF last
    <2> QED
      BY <1>1, <2>1, <2>2, <2>3, GoneKeeps
  <1>13. ASSUME NEW w \in Writers, DrainFails(w) \/ FinishCallFails(w) PROVE WholeInv'
    <2>1. PICK id \in UploadId \cup {NoId} : FailFinish(w, id)
      BY <1>1, <1>13, SettledType DEF DrainFails, FinishCallFails, TypeOK, StreamTypeOK
    <2>2. UNCHANGED service /\ UNCHANGED <<buffer, failed>>
      BY <1>13 DEF DrainFails, FinishCallFails
    <2> QED
      BY <1>1, <2>1, <2>2, FailFinishKeeps
  <1>14. ASSUME NEW w \in Writers, FinishOk(w) \/ AbortReturns(w) PROVE WholeInv'
    <2>1. PICK last \in {"ok", "error"} : Gone(w, last, TRUE, {})
      BY <1>14 DEF FinishOk, AbortReturns, Return
    <2>2. /\ last \in Closed /\ last \in Begun /\ {} \in SUBSET {call[w]}
          /\ UNCHANGED service /\ UNCHANGED <<buffer, failed>>
      BY <1>14 DEF FinishOk, AbortReturns, Closed, Begun
    <2> QED
      BY <1>1, <2>1, <2>2, GoneKeeps
  <1>15. ASSUME NEW w \in Writers, Drained(w) PROVE WholeInv'
    <2> DEFINE list == SettledParts(w)
               id == SettledId(w)
    <2>1. /\ phase[w] = "draining" /\ ~ failed[w]
          /\ pending' = [pending EXCEPT ![w] = NoPart]
          /\ buffer' = [buffer EXCEPT ![w].lo = buffer[w].hi]
          /\ upload_id' = [upload_id EXCEPT ![w] = id]
          /\ UNCHANGED service /\ UNCHANGED stray /\ UNCHANGED failed
      BY <1>2, <1>15 DEF Drained, StreamInv, loose
    <2>2. /\ Chain(list) /\ End(list) = buffer[w].lo /\ (list # <<>> => id # NoId)
      BY <1>1, <1>2, <1>15, <2>1, SettledFollows DEF Drained
    <2> HIDE DEF list, id
    <2>3. /\ buffer'[w].hi = buffer[w].hi /\ pending'[w] = NoPart
          /\ buffer[w] = Bytes(buffer[w].lo, buffer[w].hi)
      BY <1>1, <1>2, <2>1 DEF Bytes, Body, TypeOK, StreamTypeOK
    <2>4. CASE /\ id = NoId /\ phase' = [phase EXCEPT ![w] = "putting"]
               /\ parts' = [parts EXCEPT ![w] = list]
               /\ Send(w, [Request("put", w, NoId) EXCEPT !.body = buffer[w]])
      <3> DEFINE c == [Request("put", w, NoId) EXCEPT !.body = buffer[w]]
      <3>1. c.op = "put" /\ c.by = w /\ c.body = buffer[w]
        BY DEF Request
      <3> HIDE DEF c
      <3>2. phase'[w] = "putting" /\ parts'[w] = list /\ call'[w] = c /\ Send(w, c)
        BY <1>1, <2>4 DEF Send, TypeOK, StreamTypeOK, CallsTypeOK, c
      <3>3. buffer[w] = Bytes(0, buffer[w].hi)
        BY <2>2, <2>3, <2>4, EmptyChain
      <3>4. Steps(w)
        BY <1>1, <2>1, <2>4, <3>2 DEF Send, Steps, Begun, TypeOK, StreamTypeOK, CallsTypeOK
      <3>5. StreamInv(w)' /\ CallInv(call[w])'
        BY <2>2, <2>3, <3>1, <3>2, <3>3 DEF StreamInv, CallInv, Chain, Begun
      <3> QED
        BY <1>1, <2>1, <3>4, <3>5, StepKeeps DEF service
    <2>5. CASE /\ id # NoId /\ phase' = [phase EXCEPT ![w] = "last_part"]
               /\ parts' = [parts EXCEPT ![w] = list]
               /\ Send(w, PartRequest(w, id, NextPartNumber(list), buffer[w]))
      <3> DEFINE c == PartRequest(w, id, NextPartNumber(list), buffer[w])
      <3>1. c.op = "part" /\ c.number = NextPartNumber(list) /\ c.body = buffer[w]
        BY DEF PartRequest, Request
      <3> HIDE DEF c
      <3>2. phase'[w] = "last_part" /\ parts'[w] = list /\ call'[w] = c /\ Send(w, c)
        BY <1>1, <2>5 DEF Send, TypeOK, StreamTypeOK, CallsTypeOK, c
      <3>3. Continues(list, c.number, c.body)
        BY <1>2, <2>2, <3>1, NextContinues
      <3>4. Steps(w)
        BY <1>1, <2>1, <2>5, <3>2 DEF Send, Steps, Begun, TypeOK, StreamTypeOK, CallsTypeOK
      <3>5. StreamInv(w)' /\ CallInv(call[w])'
        BY <2>2, <2>3, <3>1, <3>2, <3>3 DEF StreamInv, CallInv, Chain, Continues, End
      <3> QED
        BY <1>1, <2>1, <3>4, <3>5, StepKeeps DEF service
    <2>6. CASE id # NoId /\ Size(buffer[w]) = 0 /\ SendComplete(w, id, list)
      <3> DEFINE c == [Request("complete", w, id) EXCEPT !.list = list]
      <3>1. c.op = "complete" /\ c.by = w /\ c.list = list
        BY DEF Request
      <3> HIDE DEF c
      <3>2. /\ phase'[w] = "completing" /\ parts'[w] = <<>> /\ call'[w] = c /\ Send(w, c)
            /\ phase' = [phase EXCEPT ![w] = "completing"] /\ parts' = [parts EXCEPT ![w] = <<>>]
        BY <1>1, <2>6 DEF SendComplete, Send, TypeOK, StreamTypeOK, CallsTypeOK, c
      <3>3. End(list) = buffer[w].hi
        BY <1>2, <2>2, <2>6 DEF Size, Body
      <3>4. Steps(w)
        BY <1>1, <2>1, <3>2 DEF Send, Steps, Begun, TypeOK, StreamTypeOK, CallsTypeOK
      <3>5. StreamInv(w)' /\ CallInv(call[w])'
        BY <2>2, <2>3, <3>1, <3>2, <3>3, EmptyChain DEF StreamInv, CallInv, Chain, End, Begun
      <3> QED
        BY <1>1, <2>1, <3>4, <3>5, StepKeeps DEF service
    <2> QED
      BY <1>15, <2>4, <2>5, <2>6 DEF Drained, list, id
  <1>16. ASSUME NEW w \in Writers, LastPartDone(w) PROVE WholeInv'
    <2> DEFINE list == Append(parts[w], [number |-> call[w].number, etag |-> call[w].body])
               c == [Request("complete", w, upload_id[w]) EXCEPT !.list = list]
    <2>1. Chain(list) /\ End(list) = buffer[w].hi
      <3>1. Continues(parts[w], call[w].number, call[w].body) /\ call[w].body.hi = buffer[w].hi
        BY <1>2, <1>16 DEF LastPartDone, StreamInv
      <3>2. call[w].number \in Nat /\ call[w].body \in Body /\ Chain(parts[w])
        BY <1>2 DEF Call, StreamInv
      <3> QED
        BY <1>2, <3>1, <3>2, ChainAppend
    <2>2. c.op = "complete" /\ c.by = w /\ c.list = list
      BY DEF Request
    <2> HIDE DEF list
    <2>3. /\ phase[w] = "last_part" /\ phase' = [phase EXCEPT ![w] = "completing"]
          /\ parts' = [parts EXCEPT ![w] = <<>>] /\ Send(w, c)
          /\ UNCHANGED <<buffer, upload_id, pending, failed>>
          /\ UNCHANGED service /\ UNCHANGED stray
      BY <1>16 DEF LastPartDone, SendComplete, loose, list
    <2> HIDE DEF c
    <2>4. phase'[w] = "completing" /\ parts'[w] = <<>> /\ call'[w] = c
      BY <1>1, <2>3 DEF Send, TypeOK, StreamTypeOK, CallsTypeOK
    <2>5. Steps(w)
      BY <1>1, <2>3, <2>4 DEF Send, Steps, Begun, TypeOK, StreamTypeOK, CallsTypeOK
    <2>6. StreamInv(w)' /\ CallInv(call[w])'
      BY <2>1, <2>2, <2>3, <2>4, EmptyChain DEF StreamInv, CallInv, Chain, End, Begun
    <2> QED
      BY <1>1, <2>3, <2>5, <2>6, StepKeeps DEF service
  <1>17. CASE UNCHANGED vars
    BY <1>1, <1>17
    DEF vars, stream, awaited, loose, service, WholeInv, StreamInv, OpenInv, Follows, Answered,
        CallInv, ContentInv
  <1> QED
    BY <1>3, <1>4, <1>5, <1>6, <1>7, <1>8, <1>9, <1>10, <1>11, <1>12, <1>13, <1>14, <1>15, <1>16,
       <1>17
    DEF Next, PollOpen, PollFinish, Transport

\* If the owner of a stream drops it once a poll of it has failed, what the
\* key holds is at any time every byte one finished stream accepted, in
\* order (write.rs 61-67, 90-139), whatever the transport repeats or loses.
THEOREM ObjectStaysWhole == Spec => []WholeObject
  <1>1. WholeInv => ObjectIsWhole
    <2> SUFFICES ASSUME WholeInv, object # NoObject
                 PROVE  Tiles(object.pieces, buffer[object.by].hi)
      BY DEF ObjectIsWhole
    <2> QED
      BY DEF WholeInv, ContentInv
  <1>2. CASE StopAfterError
    <2>1. WholeInv /\ [Next]_vars => WholeInv'
      BY <1>2, WholeStep
    <2>2. WholeInv => WholeObject
      BY <1>1 DEF WholeObject
    <2> QED
      BY <2>1, <2>2, WholeInit, PTL DEF Spec
  <1>3. CASE ~ StopAfterError
    <2>1. WholeObject
      BY <1>3 DEF WholeObject
    <2> QED
      BY <2>1, PTL
  <1> QED
    BY <1>2, <1>3

-----------------------------------------------------------------------------
(* A finish that returned Ok has stored its object.                        *)

\* Step w leaves every other stream alone, loses no version, and a stream
\* that has given up stays so.
Advances(w) ==
    /\ \A v \in Writers \ {w} :
           phase'[v] = phase[v] /\ call'[v] = call[v] /\ reply'[v] = reply[v]
    /\ phase[w] \in GivenUp => phase'[w] \in GivenUp
    /\ versions \subseteq versions'

\* So a step of w keeps OkInv if it keeps it for w and its new aborts.
LEMMA OkKeeps ==
    ASSUME OkInv, TypeOK', NEW w \in Writers, Advances(w), StoredInv(w)',
           \A c \in aborts' \ aborts : c.by = w /\ phase'[w] \in GivenUp
    PROVE  OkInv'
  <1>1. ASSUME NEW v \in Writers \ {w} PROVE StoredInv(v)'
    BY DEF OkInv, StoredInv, Answered, Advances
  <1>2. ASSUME NEW c \in aborts' PROVE phase'[c.by] \in GivenUp
    <2>1. CASE c \in aborts
      <3>1. c.by \in Writers /\ phase[c.by] \in GivenUp
        BY <2>1 DEF OkInv, TypeOK, CallsTypeOK, Call
      <3> QED
        BY <3>1 DEF Advances
    <2>2. CASE c \notin aborts
      BY <1>2, <2>2
    <2> QED
      BY <2>1, <2>2
  <1> QED
    BY <1>1, <1>2 DEF OkInv

\* The streams start with nothing stored and no abort called ...
LEMMA OkInit == Init => OkInv
  <1> SUFFICES ASSUME Init PROVE OkInv
    OBVIOUS
  <1>1. \A w \in Writers : StoredInv(w)
    BY DEF Init, StoredInv, Answered
  <1> QED
    BY <1>1, TypeInit DEF Init, OkInv

\* ... and every step keeps the invariant.
LEMMA OkStep ==
    ASSUME OkInv, [Next]_vars
    PROVE  OkInv'
  <1>1. TypeOK /\ TypeOK'
    BY TypeStep DEF OkInv
  <1>2. \A w \in Writers : StoredInv(w) /\ call[w] \in Call /\ call[w].by = w
    BY <1>1 DEF OkInv, TypeOK, CallsTypeOK
  <1>3. ASSUME NEW c \in Call, NEW id, Executes(c, id)
        PROVE  /\ versions \subseteq versions'
               /\ c.op \in {"put", "complete"} => \E v \in versions' : v.by = c.by
    BY <1>3 DEF Executes, CreateUpload, UploadPart, PutObject, CompleteUpload, AbortUpload, Store
  <1>4. ASSUME NEW w \in Writers, Answer(w) PROVE OkInv'
    <2>1. /\ UNCHANGED phase /\ UNCHANGED aborts /\ call'[w].op = call[w].op
          /\ \A v \in Writers \ {w} : call'[v] = call[v] /\ reply'[v] = reply[v]
      BY <1>1, <1>2, <1>4 DEF Answer, stream, loose, TypeOK, CallsTypeOK, Call
    <2>2. versions \subseteq versions'
              /\ (Answered(w, {"put", "complete"}, "ok")' => \E v \in versions' : v.by = w)
      <3>1. CASE Rejects(call[w]) /\ reply' = [reply EXCEPT ![w] = "error"]
        <4>1. reply'[w] = "error"
          BY <1>1, <3>1 DEF TypeOK, CallsTypeOK
        <4> QED
          BY <3>1, <4>1 DEF Rejects, service, Answered
      <3>2. CASE \E id \in UploadId \cup {NoId} : Executes(call[w], id)
        BY <1>2, <1>3, <2>1, <3>2 DEF Answered
      <3> QED
        BY <1>4, <3>1, <3>2 DEF Answer
    <2> QED
      BY <1>1, <1>2, <2>1, <2>2, OkKeeps DEF Advances, StoredInv
  <1>5. ASSUME NEW w \in Writers, Resend(w) \/ GiveUp(w) PROVE OkInv'
    <2>1. /\ UNCHANGED <<phase, call, versions, aborts>>
          /\ reply' = [reply EXCEPT ![w] = "error"] \/ UNCHANGED reply
      BY <1>5 DEF Resend, GiveUp, stream, service
    <2>2. /\ \A v \in Writers \ {w} : reply'[v] = reply[v]
          /\ reply'[w] = "ok" => reply[w] = "ok"
      BY <1>1, <2>1 DEF TypeOK, CallsTypeOK
    <2> QED
      BY <1>1, <1>2, <2>1, <2>2, OkKeeps DEF Advances, StoredInv, Answered
  <1>6. ASSUME NEW c \in stray, ServeStray(c) \/ LoseStray(c) PROVE OkInv'
    <2>1. c \in Call /\ c.by \in Writers
      BY <1>1, <1>6 DEF TypeOK, CallsTypeOK, Call
    <2>2. UNCHANGED <<phase, call, reply, aborts>> /\ versions \subseteq versions'
      BY <1>3, <1>6, <2>1 DEF ServeStray, LoseStray, Rejects, stream, service
    <2> QED
      BY <1>1, <1>2, <2>1, <2>2, OkKeeps DEF Advances, StoredInv, Answered
  <1>7. ASSUME NEW w \in Writers,
               \/ PollStarts(w) \/ PollCreated(w) \/ PollFlush(w) \/ PollFails(w) \/ Create(w)
               \/ Finish(w) \/ \E len \in 1 .. (MaxBytes - buffer[w].hi) : PollWrite(w, len)
        PROVE  OkInv'
    <2>1. /\ UNCHANGED <<versions, aborts>>
          /\ \/ phase[w] \in {"open", "draining"} /\ UNCHANGED phase
             \/ phase[w] = "absent" /\ phase' = [phase EXCEPT ![w] = "open"]
             \/ phase[w] = "open" /\ phase' = [phase EXCEPT ![w] = "draining"]
          /\ \/ UNCHANGED <<call, reply>>
             \/ \E c : Send(w, c)
      BY <1>7, Zenon
      DEF PollStarts, PollCreated, Driven, PollFlush, PollFails, Create, Finish, PollWrite, Hang, MayPoll,
          service, stream, awaited, loose
    <2>2. /\ \A v \in Writers \ {w} :
                 phase'[v] = phase[v] /\ call'[v] = call[v] /\ reply'[v] = reply[v]
          /\ phase[w] \in {"absent", "open", "draining"} /\ phase'[w] \in {"open", "draining"}
          /\ reply'[w] = "none" \/ (reply'[w] = reply[w] /\ call'[w] = call[w])
      BY <1>1, <2>1 DEF Send, TypeOK, StreamTypeOK, CallsTypeOK
    <2> QED
      BY <1>1, <1>2, <2>1, <2>2, OkKeeps DEF Advances, StoredInv, Answered, GivenUp
  <1>8. ASSUME NEW w \in Writers, NEW last \in Closed, NEW finished \in BOOLEAN, NEW late,
               Gone(w, last, finished, late), UNCHANGED service,
               phase[w] \in GivenUp => last \in GivenUp,
               last = "ok" => \E v \in versions : v.by = w,
               ~ finished => last \in GivenUp
        PROVE  OkInv'
    <2>1. /\ phase' = [phase EXCEPT ![w] = last] /\ Send(w, NoCall(w))
          /\ \A c \in aborts' \ aborts : ~ finished /\ c = Request("abort", w, upload_id[w])
      BY <1>8 DEF Gone, Hang, SpawnedAbort
    <2>2. phase'[w] = last /\ reply'[w] = "none" /\ UNCHANGED versions
      BY <1>1, <1>8, <2>1 DEF Send, service, TypeOK, StreamTypeOK, CallsTypeOK
    <2>3. Advances(w)
      BY <1>1, <1>8, <2>1, <2>2 DEF Advances, Send, TypeOK, StreamTypeOK, CallsTypeOK
    <2>4. StoredInv(w)'
      BY <1>8, <2>2 DEF StoredInv, Answered, Closed
    <2>5. \A c \in aborts' \ aborts : c.by = w /\ phase'[w] \in GivenUp
      BY <1>8, <2>1, <2>2 DEF Request
    <2> QED
      BY <1>1, <2>3, <2>4, <2>5, OkKeeps
  <1>9. ASSUME NEW w \in Writers, Drop(w) PROVE OkInv'
    <2> DEFINE last == IF phase[w] = "open" THEN "dropped" ELSE "cancelled"
    <2>1. UNCHANGED service /\ \E late : Gone(w, last, FALSE, late)
      BY <1>9 DEF Drop
    <2>2. last \in Closed /\ last \in GivenUp /\ last # "ok"
      BY DEF Closed, GivenUp
    <2> HIDE DEF last
    <2> QED
      BY <1>8, <2>1, <2>2
  <1>10. ASSUME NEW w \in Writers, FinishOk(w) PROVE OkInv'
    <2>1. /\ phase[w] \in {"putting", "completing"} /\ reply[w] = "ok"
          /\ Gone(w, "ok", TRUE, {}) /\ UNCHANGED service
      BY <1>10 DEF FinishOk, Return
    <2>2. \E v \in versions : v.by = w
      BY <1>2, <2>1 DEF StoredInv, Answered
    <2>3. "ok" \in Closed /\ phase[w] \notin GivenUp
      BY <2>1 DEF Closed, GivenUp
    <2> QED
      BY <1>8, <2>1, <2>2, <2>3
  <1>11. ASSUME NEW w \in Writers, Return(w, "error"), UNCHANGED service PROVE OkInv'
    <2>1. Gone(w, "error", TRUE, {}) /\ "error" \in Closed /\ "error" \in GivenUp
      BY <1>11 DEF Return, Closed, GivenUp
    <2> QED
      BY <1>8, <1>11, <2>1
  <1>12. ASSUME NEW w \in Writers, DrainFails(w) \/ FinishCallFails(w) PROVE OkInv'
    <2>1. UNCHANGED service /\ \E id : FailFinish(w, id)
      BY <1>12 DEF DrainFails, FinishCallFails
    <2>2. PICK id : FailFinish(w, id)
      BY <2>1
    <2>3. CASE Return(w, "error")
      BY <1>11, <2>1, <2>3
    <2>4. CASE ~ Return(w, "error")
      <3>1. /\ phase' = [phase EXCEPT ![w] = "aborting"] /\ Send(w, Request("abort", w, id))
            /\ aborts' = aborts \cup {Request("abort", w, id)}
        BY <2>2, <2>4 DEF FailFinish
      <3>2. /\ phase'[w] = "aborting" /\ reply'[w] = "none" /\ UNCHANGED versions
            /\ Request("abort", w, id).by = w
        BY <1>1, <2>1, <3>1 DEF Send, Request, service, TypeOK, StreamTypeOK, CallsTypeOK
      <3>3. Advances(w)
        BY <1>1, <3>1, <3>2 DEF Advances, Send, GivenUp, TypeOK, StreamTypeOK, CallsTypeOK
      <3>4. StoredInv(w)' /\ \A c \in aborts' \ aborts : c.by = w /\ phase'[w] \in GivenUp
        BY <3>1, <3>2 DEF StoredInv, Answered, GivenUp
      <3> QED
        BY <1>1, <3>3, <3>4, OkKeeps
    <2> QED
      BY <2>3, <2>4
  <1>13. ASSUME NEW w \in Writers, AbortReturns(w) PROVE OkInv'
    BY <1>11, <1>13 DEF AbortReturns
  <1>14. ASSUME NEW w \in Writers, Drained(w) \/ LastPartDone(w) PROVE OkInv'
    <2>1. /\ UNCHANGED <<versions, aborts>>
          /\ \E next \in {"putting", "last_part", "completing"} : \E c :
                 /\ phase[w] \in {"draining", "last_part"}
                 /\ phase' = [phase EXCEPT ![w] = next] /\ Send(w, c)
                 /\ next # "last_part" => c.op \in {"put", "complete"}
      BY <1>14 DEF Drained, LastPartDone, SendComplete, Request, service, loose
    <2>2. PICK next \in {"putting", "last_part", "completing"} : \E c :
              /\ phase[w] \in {"draining", "last_part"}
              /\ phase' = [phase EXCEPT ![w] = next] /\ Send(w, c)
              /\ next # "last_part" => c.op \in {"put", "complete"}
      BY <2>1
    <2>3. PICK c :
              /\ phase[w] \in {"draining", "last_part"}
              /\ phase' = [phase EXCEPT ![w] = next] /\ Send(w, c)
              /\ next # "last_part" => c.op \in {"put", "complete"}
      BY <2>2
    <2>4. phase'[w] = next /\ call'[w] = c /\ reply'[w] = "none"
      BY <1>1, <2>3 DEF Send, TypeOK, StreamTypeOK, CallsTypeOK
    <2>5. Advances(w)
      BY <1>1, <2>1, <2>3, <2>4
      DEF Advances, Send, GivenUp, TypeOK, StreamTypeOK, CallsTypeOK
    <2>6. StoredInv(w)'
      BY <2>3, <2>4 DEF StoredInv, Answered
    <2> QED
      BY <1>1, <2>1, <2>5, <2>6, OkKeeps
  <1>15. CASE UNCHANGED vars
    BY <1>1, <1>15
    DEF vars, stream, awaited, loose, service, OkInv, StoredInv, Answered
  <1> QED
    BY <1>4, <1>5, <1>6, <1>7, <1>9, <1>10, <1>12, <1>13, <1>14, <1>15
    DEF Next, PollOpen, PollFinish, Transport

\* A finish that returned Ok has stored an object of its stream, and no abort
\* was called for its upload (write.rs 252-266), whether or not the owner
\* goes on after an error.
THEOREM OkMeansStored == Spec => []OkIsStored
  <1>1. OkInv => OkIsStored
    BY DEF OkInv, StoredInv, OkIsStored, GivenUp
  <1>2. OkInv /\ [Next]_vars => OkInv'
    BY OkStep
  <1> QED
    BY <1>1, <1>2, OkInit, PTL DEF Spec
=============================================================================
