---------------------------- MODULE S3ReaderProof ----------------------------
(***************************************************************************)
(* Proofs about S3Session and S3Reader, for every set of settings and      *)
(* readers, every object, and every width of the integers.                 *)
(***************************************************************************)
EXTENDS S3Reader, SequenceTheorems, TLAPS

\* A run of bytes that is appended to what was read continues it.
LEMMA RunAppended ==
    ASSUME NEW g \in Seq(Nat), NEW start \in Nat, NEW n \in Nat, NEW lo \in Nat,
           lo = start + Len(g), \A i \in 1 .. Len(g) : g[i] = start + i - 1,
           NEW h, h = g \o [i \in 1 .. n |-> lo + i - 1]
    PROVE  /\ h \in Seq(Nat) /\ Len(h) = Len(g) + n
           /\ \A i \in 1 .. Len(h) : h[i] = start + i - 1
<1>1. h \in Seq(Nat) /\ Len(h) = Len(g) + n
  OBVIOUS
<1>2. ASSUME NEW i \in 1 .. Len(h) PROVE h[i] = start + i - 1
  <2>1. CASE i <= Len(g)
    <3>1. h[i] = g[i]
      BY <1>1, <2>1
    <3> QED
      BY <2>1, <3>1
  <2>2. CASE i > Len(g)
    <3>1. h[i] = lo + (i - Len(g)) - 1
      BY <1>1, <2>2
    <3> QED
      BY <2>2, <3>1
  <2> QED
    BY <2>1, <2>2
<1> QED
  BY <1>1, <1>2

\* Copying n bytes out of a chunk from cl to ch keeps the account of the
\* bytes: len of them read, the chunk from pl to ph and the body from bl to bh
\* to come.
LEMMA CopyCounts ==
    ASSUME NEW len \in Nat, NEW pl \in Nat, NEW ph \in Nat, pl <= ph,
           NEW bl \in Nat, NEW bh \in Nat, bl <= bh,
           NEW start \in Nat, NEW left \in Int,
           len + (ph - pl) + (bh - bl) = left,
           ph - pl > 0 => pl = start + len,
           bh - bl > 0 => bl = start + len + (ph - pl),
           NEW cl \in Nat, NEW ch \in Nat, NEW first \in Nat, NEW n \in Nat,
           0 < n, n <= ch - cl,
           \/ ph - pl > 0 /\ cl = pl /\ ch = ph /\ first = bl
           \/ ph - pl = 0 /\ cl = bl /\ ch <= bh /\ first = ch
    PROVE  /\ cl = start + len /\ cl + n <= ch /\ first <= bh
           /\ len + n + (ch - (cl + n)) + (bh - first) = left
           /\ ch - (cl + n) > 0 => cl + n = start + (len + n)
           /\ bh - first > 0 => first = start + (len + n) + (ch - (cl + n))
OBVIOUS

\* The run of bytes from lo to hi.
LEMMA BytesRun ==
    ASSUME NEW lo \in Nat, NEW hi \in Nat, lo <= hi
    PROVE  /\ Bytes(lo, hi) \in Run /\ Size(Bytes(lo, hi)) = hi - lo
           /\ Bytes(lo, hi).lo = lo /\ Bytes(lo, hi).hi = hi
BY DEF Run, Bytes, Size

-----------------------------------------------------------------------------
(* The session.                                                            *)

\* A session that is connecting works with the settings it was given, and
\* has found a region by them; one that awaits the default chain has no
\* credentials of its own.
SessionInv ==
    /\ SessionTypeOK
    /\ ConnectedAsTold /\ HonoursSettings
    /\ connecting # "no" => client = NoClient /\ given = settings
    /\ connecting = "credentials" =>
           settings["region"] \in {None, found} /\ IsAnonymous(settings)

\* What init_region finds is a region.
LEMMA RegionType ==
    ASSUME SessionTypeOK, NEW p \in Provided
    PROVE  InitRegion(p) \in Region
BY SessionAssumption DEF SessionTypeOK, InitRegion, Region, Setting, Option

\* What make_client makes is a client.
LEMMA ClientType ==
    ASSUME SessionTypeOK, NEW region \in Region
    PROVE  MakeClient(region) \in S3Client /\ MakeClient(region) # NoClient
BY SessionAssumption DEF SessionTypeOK, MakeClient, S3Client, Setting, Credential, Option

\* A client that is assigned with the settings connect was given honours them.
LEMMA ConnectedKeeps ==
    ASSUME SessionInv, NEW region \in Region, Connected(region), connecting # "no",
           settings["region"] \in {None, region},
           IsAnonymous(settings) \/ None \notin {settings["access_key"], settings["secret_key"]}
    PROVE  SessionInv'
<1>1. /\ client' = MakeClient(region) /\ client' \in S3Client /\ client' # NoClient
      /\ up' = TRUE /\ connecting' = "no" /\ found' = None /\ UNCHANGED <<settings, given>>
      /\ given = settings
  BY ClientType DEF SessionInv, Connected, Says
<1>2. SessionTypeOK' /\ ConnectedAsTold'
  BY <1>1 DEF SessionInv, SessionTypeOK, ConnectedAsTold
<1>3. HonoursSettings'
  <2> DEFINE c == MakeClient(region)
  <2>1. /\ c.region = region /\ c.endpoint = given["endpoint"]
        /\ c.new_path_style = given["new_path_style"]
        /\ c.access_key = given["access_key"] /\ c.secret_key = given["secret_key"]
        /\ c.session_token = given["session_token"]
    BY <1>1 DEF MakeClient
  <2>2. \A s \in HandedOn : c[s] = given[s]
    BY <2>1 DEF HandedOn
  <2>3. (\E s \in Credential : given[s] # None) => None \notin {c.access_key, c.secret_key}
    BY <1>1, <2>1 DEF IsAnonymous
  <2> QED
    BY <1>1, <2>1, <2>2, <2>3 DEF HonoursSettings
<1> QED
  BY <1>1, <1>2, <1>3 DEF SessionInv

\* An attempt to connect that ends without a client leaves none behind.
LEMMA NotConnectedKeeps ==
    ASSUME SessionInv, NEW answer \in {"AuthenticationFailed", "dropped"},
           connecting # "no", NotConnected(answer)
    PROVE  SessionInv'
BY DEF SessionInv, NotConnected, Says, SessionTypeOK, ConnectedAsTold, HonoursSettings, Unset, Option

\* A new AwsS3Fs satisfies it.
LEMMA SessionStarts == SessionInit => SessionInv
BY DEF SessionInit, SessionInv, SessionTypeOK, ConnectedAsTold, HonoursSettings, Unset, Option

\* Every step of the session preserves its invariant.
LEMMA SessionStep ==
    ASSUME SessionInv, SessionNext
    PROVE  SessionInv'
<1>1. ASSUME NEW s \in Settable, NEW v \in Value, Set(s, v) PROVE SessionInv'
  BY <1>1 DEF Set, SessionInv, SessionTypeOK, ConnectedAsTold, HonoursSettings, Option
<1>2. ASSUME Connect PROVE SessionInv'
  BY <1>2 DEF Connect, Says, SessionInv, SessionTypeOK, ConnectedAsTold, HonoursSettings
<1>3. ASSUME RegionFound PROVE SessionInv'
  <2>1. PICK p \in Provided :
            \/ IsAnonymous(settings) /\ AwaitChain(InitRegion(p))
            \/ ~ IsAnonymous(settings) /\ NotConnected("AuthenticationFailed")
            \/ None \notin {settings["access_key"], settings["secret_key"]}
                   /\ Connected(InitRegion(p))
    BY <1>3 DEF RegionFound
  <2>2. InitRegion(p) \in Region /\ settings["region"] \in {None, InitRegion(p)}
    BY RegionType DEF SessionInv, InitRegion
  <2>3. connecting # "no"
    BY <1>3 DEF RegionFound
  <2>4. CASE IsAnonymous(settings) /\ AwaitChain(InitRegion(p))
    BY <2>2, <2>3, <2>4
    DEF AwaitChain, SessionInv, SessionTypeOK, ConnectedAsTold, HonoursSettings, Region
  <2> QED
    BY <2>1, <2>2, <2>3, <2>4, NotConnectedKeeps, ConnectedKeeps
<1>4. ASSUME ChainBuilt PROVE SessionInv'
  BY <1>4, ConnectedKeeps DEF ChainBuilt, SessionInv, SessionTypeOK
<1>5. ASSUME DropConnect PROVE SessionInv'
  BY <1>5, NotConnectedKeeps DEF DropConnect
<1>6. ASSUME Disconnect PROVE SessionInv'
  BY <1>6 DEF Disconnect, Says, SessionInv, SessionTypeOK, ConnectedAsTold, HonoursSettings, Unset, Option
<1> QED
  BY <1>1, <1>2, <1>3, <1>4, <1>5, <1>6 DEF SessionNext

-----------------------------------------------------------------------------
(* The reader.                                                             *)

\* The bytes asked for that are not handed out yet are the rest of the chunk
\* and then the rest of the body, and begin where the last byte ended.
ReaderInv(r) ==
    /\ status[r] = "requesting" => opts[r].length # 0
    /\ status[r] \in Reading =>
           LET wanted == IF source[r] = NoObject THEN NoBytes
                         ELSE Wanted(opts[r], source[r].size)
           IN  /\ source[r] = NoObject => opts[r].length = 0
               /\ Len(got[r]) + Size(pending[r]) + Size(body[r]) = Size(wanted)
               /\ Size(pending[r]) > 0 => pending[r].lo = wanted.lo + Len(got[r])
               /\ Size(body[r]) > 0
                      => body[r].lo = wanted.lo + Len(got[r]) + Size(pending[r])
               /\ \A i \in 1 .. Len(got[r]) : got[r][i] = wanted.lo + i - 1
               /\ status[r] = "eof" => Size(pending[r]) = 0 /\ Size(body[r]) = 0

Inv == SessionInv /\ TypeOK /\ \A r \in Readers : ReaderInv(r)

\* The range that http_range asks for is what the owner wants, however the
\* sum of offset and length compares with u64::MAX.
LEMMA RangeIsWanted ==
    ASSUME NEW o \in ReadOptions, o.length # 0, NEW size \in 0 .. MaxSize
    PROVE  /\ Wanted(o, size) \in Run
           /\ IF IsInvalid(HttpRange(o), size)
              THEN Size(Wanted(o, size)) = 0
              ELSE Selected(HttpRange(o), size) = Wanted(o, size)
<1> DEFINE range == HttpRange(o)
<1>1. /\ o.offset \in 0 .. MaxU64 /\ o.length \in 0 .. MaxU64 \cup {None}
      /\ size \in Nat /\ size <= MaxU64 /\ MaxU64 \in Nat /\ None \notin 0 .. MaxU64
  BY ReaderAssumption DEF ReadOptions
<1>2. range.first = o.offset
  BY DEF HttpRange
<1>3. CASE o.length = None
  <2>1. range.last = None /\ (IsRanged(range) <=> o.offset # 0)
    BY <1>3 DEF HttpRange, IsRanged
  <2> HIDE DEF range
  <2>2. /\ Wanted(o, size) \in Run
        /\ IF IsInvalid(range, size)
           THEN Size(Wanted(o, size)) = 0
           ELSE Selected(range, size) = Wanted(o, size)
    <3>1. CASE o.offset = 0
      <4>1. /\ Wanted(o, size) = Bytes(Smaller(0, size), size)
            /\ Selected(range, size) = Bytes(0, size)
            /\ ~ IsInvalid(range, size)
        BY <1>3, <2>1, <3>1 DEF Wanted, Selected, IsInvalid
      <4> QED
        BY <1>1, <4>1 DEF Run, Size, Bytes, Smaller
    <3>2. CASE o.offset # 0
      <4>1. /\ Wanted(o, size) = Bytes(Smaller(o.offset, size), size)
            /\ Selected(range, size) = Bytes(o.offset, size)
            /\ IsInvalid(range, size) <=> o.offset >= size
        BY <1>2, <1>3, <2>1, <3>2 DEF Wanted, Selected, IsInvalid
      <4> QED
        BY <1>1, <4>1 DEF Run, Size, Bytes, Smaller
    <3> QED
      BY <3>1, <3>2
  <2> QED
    BY <2>2 DEF range
<1>4. CASE o.length # None
  <2>1. o.length \in 1 .. MaxU64 /\ o.offset + o.length - 1 \in Nat
    BY <1>1, <1>4
  <2>2. range.last = Smaller(o.offset + (o.length - 1), MaxU64)
    BY <1>1, <1>4, <2>1 DEF HttpRange, SaturatingAdd, SaturatingSub
  <2>6. range.header
    BY <1>4 DEF HttpRange
  <2> HIDE DEF range
  <2>3. /\ range.last \in o.offset .. MaxU64
        /\ \/ range.last = o.offset + o.length - 1
           \/ range.last = MaxU64 /\ o.offset + o.length - 1 >= MaxU64
    BY <1>1, <2>1, <2>2 DEF Smaller
  <2>4. IsRanged(range)
    BY <1>1, <1>2, <2>3, <2>6 DEF IsRanged
  <2>5. range.last # None
    BY <1>1, <2>3
  <2>7. /\ Wanted(o, size) \in Run
        /\ IF IsInvalid(range, size)
           THEN Size(Wanted(o, size)) = 0
           ELSE Selected(range, size) = Wanted(o, size)
    <3>1. /\ Wanted(o, size) = Bytes(Smaller(o.offset, size), Smaller(o.offset + o.length, size))
          /\ Selected(range, size) = Bytes(o.offset, Smaller(range.last + 1, size))
          /\ IsInvalid(range, size) <=> o.offset >= size
      BY <1>2, <1>4, <2>4, <2>5 DEF Wanted, Selected, IsInvalid
    <3>2. o.offset < size => Smaller(range.last + 1, size) = Smaller(o.offset + o.length, size)
      BY <1>1, <2>1, <2>3 DEF Smaller
    <3> QED
      BY <1>1, <2>1, <3>1, <3>2 DEF Run, Size, Bytes, Smaller
  <2> QED
    BY <2>7 DEF range
<1> QED
  BY <1>3, <1>4

\* Nothing that leaves the readers alone disturbs them.
LEMMA ReadersKept ==
    ASSUME Inv, UNCHANGED reader, SessionTypeOK',
           object' \in Object \cup {NoObject}, puts' \in Nat
    PROVE  TypeOK' /\ \A r \in Readers : ReaderInv(r)'
BY DEF Inv, TypeOK, reader, ReaderInv

\* A step of one reader: the others stay as they are.
LEMMA OneReader ==
    ASSUME Inv, NEW r \in Readers, UNCHANGED <<session, bucket>>, TypeOK', ReaderInv(r)',
           \A q \in Readers \ {r} :
               /\ status'[q] = status[q] /\ opts'[q] = opts[q] /\ body'[q] = body[q]
               /\ pending'[q] = pending[q] /\ source'[q] = source[q] /\ got'[q] = got[q]
    PROVE  Inv'
<1>1. SessionInv'
  BY DEF Inv, session, SessionInv, SessionTypeOK, ConnectedAsTold, HonoursSettings
<1>2. ASSUME NEW q \in Readers PROVE ReaderInv(q)'
  BY DEF Inv, ReaderInv
<1> QED
  BY <1>1, <1>2 DEF Inv

\* A reader that is gone.
LEMMA GoneKeeps ==
    ASSUME Inv, NEW r \in Readers, NEW state \in {"none", "refused"}, Gone(r, state),
           UNCHANGED <<session, bucket>>
    PROVE  Inv'
<1>1. TypeOK'
  BY EmptySeq, ReaderAssumption DEF Inv, TypeOK, Gone, session, bucket, SessionTypeOK, Run, Bytes, NoBytes,
                  ReadOptions, WholeObject
<1>2. ReaderInv(r)'
  BY DEF Inv, TypeOK, Gone, ReaderInv, Reading
<1> QED
  BY <1>1, <1>2, OneReader DEF Gone, Inv, TypeOK

\* A reader whose body has ended, or breaks off.
LEMMA BecomesKeeps ==
    ASSUME Inv, NEW r \in Readers, NEW state \in {"eof", "broken"}, Becomes(r, state),
           status[r] = "open",
           state = "eof" => Size(pending[r]) = 0 /\ Size(body[r]) = 0,
           UNCHANGED <<session, bucket>>
    PROVE  Inv'
<1>1. TypeOK'
  BY DEF Inv, TypeOK, Becomes, session, bucket, SessionTypeOK, Reading
<1>2. ReaderInv(r)'
  BY DEF Inv, TypeOK, Becomes, ReaderInv, Reading
<1> QED
  BY <1>1, <1>2, OneReader DEF Becomes, Inv, TypeOK

\* A reader that begins with the bytes asked for.
LEMMA OpenedKeeps ==
    ASSUME Inv, NEW r \in Readers, NEW run \in Run, NEW obj \in Object \cup {NoObject},
           Opened(r, run, obj), opts' \in [Readers -> ReadOptions],
           \A q \in Readers \ {r} : opts'[q] = opts[q],
           obj = NoObject => opts'[r].length = 0 /\ Size(run) = 0,
           obj # NoObject =>
               /\ Size(run) = Size(Wanted(opts'[r], obj.size))
               /\ Size(run) > 0 => run = Wanted(opts'[r], obj.size),
           UNCHANGED <<session, bucket>>
    PROVE  Inv'
<1>1. TypeOK'
  <2>1. /\ status' \in [Readers -> {"none", "requesting", "refused"} \cup Reading]
        /\ body' \in [Readers -> Run] /\ source' \in [Readers -> Object \cup {NoObject}]
    BY DEF Inv, TypeOK, Opened, Reading
  <2>2. NoBytes \in Run /\ <<>> \in Seq(Nat)
    BY EmptySeq DEF NoBytes, Bytes, Run
  <2>3. pending' \in [Readers -> Run] /\ got' \in [Readers -> Seq(Nat)]
    BY <2>2 DEF Inv, TypeOK, Opened
  <2>4. SessionTypeOK' /\ object' \in Object \cup {NoObject} /\ puts' \in Nat
    BY DEF Inv, TypeOK, session, bucket, SessionTypeOK
  <2> QED
    BY <2>1, <2>3, <2>4 DEF TypeOK
<1>2. /\ status'[r] = "open" /\ source'[r] = obj /\ body'[r] = run /\ pending'[r] = NoBytes
      /\ got'[r] = <<>>
  BY DEF Opened, Inv, TypeOK
<1>3. ReaderInv(r)'
  <2>1. Size(NoBytes) = 0
    BY DEF NoBytes, Bytes, Size
  <2>2. CASE obj = NoObject
    BY <1>2, <2>1, <2>2 DEF ReaderInv, Reading, Size, Run
  <2>3. CASE obj # NoObject
    <3> DEFINE w == Wanted(opts'[r], obj.size)
    <3>1. w.lo \in Int /\ Size(w) \in Int
      BY <2>3 DEF Wanted, Object, ReadOptions, Bytes, Smaller, Size
    <3>2. Len(<<>>) = 0 /\ Size(run) \in Int
      BY DEF Run, Size
    <3> QED
      BY <1>2, <2>1, <2>3, <3>1, <3>2 DEF ReaderInv, Reading
  <2> QED
    BY <2>2, <2>3
<1> QED
  BY <1>1, <1>3, OneReader DEF Opened, Inv, TypeOK

\* A poll that copies bytes out of a chunk.
LEMMA PollReadKeeps ==
    ASSUME Inv, NEW r \in Readers, NEW room \in 1 .. MaxSize, PollRead(r, room)
    PROVE  Inv'
<1> DEFINE wanted == IF source[r] = NoObject THEN NoBytes ELSE Wanted(opts[r], source[r].size)
<1>1. /\ UNCHANGED <<session, bucket, opts, source>> /\ status[r] = "open"
  BY DEF PollRead
<1>2. /\ body[r] \in Run /\ pending[r] \in Run /\ got[r] \in Seq(Nat)
      /\ body[r] = Bytes(body[r].lo, body[r].hi)
  BY DEF Inv, TypeOK, Run, Bytes
<1>3. wanted.lo \in Nat /\ Size(wanted) \in Int
  BY DEF Inv, TypeOK, Object, Wanted, ReadOptions, Bytes, NoBytes, Smaller, Size
<1>4. /\ source[r] = NoObject => opts[r].length = 0
      /\ Len(got[r]) + Size(pending[r]) + Size(body[r]) = Size(wanted)
      /\ Size(pending[r]) > 0 => pending[r].lo = wanted.lo + Len(got[r])
      /\ Size(body[r]) > 0 => body[r].lo = wanted.lo + Len(got[r]) + Size(pending[r])
      /\ \A i \in 1 .. Len(got[r]) : got[r][i] = wanted.lo + i - 1
  BY <1>1 DEF Inv, ReaderInv, Reading
<1> HIDE DEF wanted
<1>5. PICK chunk \in Chunks(r) :
          LET n == Taken(chunk, room) IN
          /\ got' = [got EXCEPT ![r] = @ \o [i \in 1 .. n |-> chunk.lo + i - 1]]
          /\ pending' = [pending EXCEPT ![r] = Bytes(chunk.lo + n, chunk.hi)]
          /\ body' = [body EXCEPT ![r].lo = IF Size(pending[r]) > 0 THEN @ ELSE chunk.hi]
          /\ status' = [status EXCEPT ![r] = IF n = 0 THEN "eof" ELSE @]
  BY DEF PollRead
<1> DEFINE n == Taken(chunk, room)
           first == IF Size(pending[r]) > 0 THEN body[r].lo ELSE chunk.hi
           h == got[r] \o [i \in 1 .. n |-> chunk.lo + i - 1]
           q == Bytes(chunk.lo + n, chunk.hi)
           rest == Bytes(first, body[r].hi)
<1>6. /\ chunk \in Run /\ Size(chunk) > 0
      /\ \/ Size(pending[r]) > 0 /\ chunk = pending[r]
         \/ Size(pending[r]) = 0 /\ chunk.lo = body[r].lo /\ chunk.hi <= body[r].hi
  BY <1>2 DEF Chunks, Size, Bytes, Run
<1>7. n \in Nat /\ 0 < n /\ n <= Size(chunk)
  <2>1. Size(chunk) \in Nat
    BY <1>6 DEF Run, Size
  <2> QED
    BY <1>6, <2>1 DEF Taken, Smaller
<1>8. /\ got' = [got EXCEPT ![r] = h] /\ pending' = [pending EXCEPT ![r] = q]
      /\ body' = [body EXCEPT ![r] = rest] /\ status' = status
  <2>1. body' = [body EXCEPT ![r] = [body[r] EXCEPT !.lo = first]]
    BY <1>5
  <2>2. [body[r] EXCEPT !.lo = first] = rest
    BY <1>2 DEF Bytes, Run
  <2>3. status' = status
    BY <1>5, <1>7 DEF Inv, TypeOK
  <2> QED
    BY <1>5, <2>1, <2>2, <2>3
<1> HIDE DEF n
<1>9. /\ chunk.lo \in Nat /\ chunk.hi \in Nat /\ Size(chunk) = chunk.hi - chunk.lo
      /\ body[r].lo \in Nat /\ body[r].hi \in Nat /\ body[r].lo <= body[r].hi
      /\ pending[r].lo \in Nat /\ pending[r].hi \in Nat /\ pending[r].lo <= pending[r].hi
      /\ Size(body[r]) = body[r].hi - body[r].lo
      /\ Size(pending[r]) = pending[r].hi - pending[r].lo
      /\ Len(got[r]) \in Nat /\ first \in Nat
  BY <1>2, <1>6 DEF Run, Size
<1>10. \/ Size(pending[r]) > 0 /\ chunk.lo = pending[r].lo /\ chunk.hi = pending[r].hi
             /\ first = body[r].lo
       \/ Size(pending[r]) = 0 /\ chunk.lo = body[r].lo /\ chunk.hi <= body[r].hi
             /\ first = chunk.hi
  BY <1>6
<1> HIDE DEF first
<1>11. /\ chunk.lo = wanted.lo + Len(got[r]) /\ chunk.lo + n <= chunk.hi /\ first <= body[r].hi
       /\ Len(got[r]) + n + (chunk.hi - (chunk.lo + n)) + (body[r].hi - first) = Size(wanted)
       /\ chunk.hi - (chunk.lo + n) > 0 => chunk.lo + n = wanted.lo + (Len(got[r]) + n)
       /\ body[r].hi - first > 0
              => first = wanted.lo + (Len(got[r]) + n) + (chunk.hi - (chunk.lo + n))
  <2>1. PICK len \in Nat, start \in Nat, left \in Int, cl \in Nat, ch \in Nat, m \in Nat :
            /\ len = Len(got[r]) /\ start = wanted.lo /\ left = Size(wanted)
            /\ cl = chunk.lo /\ ch = chunk.hi /\ m = n
    BY <1>3, <1>7, <1>9
  <2>2. PICK pl \in Nat, ph \in Nat, bl \in Nat, bh \in Nat, fl \in Nat :
            /\ pl = pending[r].lo /\ ph = pending[r].hi
            /\ bl = body[r].lo /\ bh = body[r].hi /\ fl = first
    BY <1>9
  <2>3. /\ pl <= ph /\ bl <= bh /\ 0 < m /\ m <= ch - cl
        /\ len + (ph - pl) + (bh - bl) = left
        /\ ph - pl > 0 => pl = start + len
        /\ bh - bl > 0 => bl = start + len + (ph - pl)
        /\ \/ ph - pl > 0 /\ cl = pl /\ ch = ph /\ fl = bl
           \/ ph - pl = 0 /\ cl = bl /\ ch <= bh /\ fl = ch
    BY <1>4, <1>7, <1>9, <1>10, <2>1, <2>2
  <2>4. /\ cl = start + len /\ cl + m <= ch /\ fl <= bh
        /\ len + m + (ch - (cl + m)) + (bh - fl) = left
        /\ ch - (cl + m) > 0 => cl + m = start + (len + m)
        /\ bh - fl > 0 => fl = start + (len + m) + (ch - (cl + m))
    BY ONLY <2>3, CopyCounts
  <2> QED
    BY <2>1, <2>2, <2>4
<1>12. /\ h \in Seq(Nat) /\ Len(h) = Len(got[r]) + n
       /\ \A i \in 1 .. Len(h) : h[i] = wanted.lo + i - 1
  <2>1. PICK g \in Seq(Nat), start \in Nat, lo \in Nat, m \in Nat :
            g = got[r] /\ start = wanted.lo /\ lo = chunk.lo /\ m = n
    BY <1>2, <1>3, <1>7, <1>9
  <2>2. lo = start + Len(g) /\ \A i \in 1 .. Len(g) : g[i] = start + i - 1
    BY <1>4, <1>11, <2>1
  <2>3. h = g \o [i \in 1 .. m |-> lo + i - 1]
    BY <2>1
  <2> HIDE DEF h
  <2>4. h \in Seq(Nat) /\ Len(h) = Len(g) + m /\ \A i \in 1 .. Len(h) : h[i] = start + i - 1
    BY ONLY <2>2, <2>3, RunAppended
  <2> QED
    BY <2>1, <2>4
<1>13. /\ q \in Run /\ q.lo = chunk.lo + n /\ Size(q) = chunk.hi - (chunk.lo + n)
       /\ rest \in Run /\ rest.lo = first /\ Size(rest) = body[r].hi - first
  <2>1. chunk.lo + n \in Nat
    BY <1>7, <1>9
  <2> QED
    BY <1>9, <1>11, <2>1, BytesRun
<1> HIDE DEF h, q, rest
<1>14. TypeOK'
  BY <1>1, <1>8, <1>12, <1>13 DEF Inv, TypeOK, session, bucket, SessionTypeOK
<1>15. ReaderInv(r)'
  <2>1. got'[r] = h /\ pending'[r] = q /\ body'[r] = rest
    BY <1>8 DEF Inv, TypeOK
  <2>2. /\ opts'[r] = opts[r] /\ source'[r] = source[r] /\ status'[r] = "open"
    BY <1>1, <1>8
  <2>3. /\ Len(h) + Size(q) + Size(rest) = Size(wanted)
        /\ Size(q) > 0 => q.lo = wanted.lo + Len(h)
        /\ Size(rest) > 0 => rest.lo = wanted.lo + Len(h) + Size(q)
    <3>1. Len(h) + Size(q) + Size(rest) = Size(wanted)
      BY <1>11, <1>12, <1>13
    <3>2. Size(q) > 0 => q.lo = wanted.lo + Len(h)
      BY <1>11, <1>12, <1>13
    <3>3. Size(rest) > 0 => rest.lo = wanted.lo + Len(h) + Size(q)
      BY <1>11, <1>12, <1>13
    <3> QED
      BY <3>1, <3>2, <3>3
  <2> QED
    BY <1>4, <1>12, <2>1, <2>2, <2>3 DEF ReaderInv, wanted
<1> QED
  BY <1>1, <1>8, <1>14, <1>15, OneReader DEF Inv, TypeOK

\* An open that is refused, asks nobody, or sends its GET.
LEMMA OpenKeeps ==
    ASSUME Inv, NEW r \in Readers, NEW o \in ReadOptions, Open(r, o)
    PROVE  Inv'
<1>1. UNCHANGED <<session, bucket>> /\ status[r] \in {"none", "refused"}
  BY DEF Open
<1>2. CASE client = NoClient
  BY <1>1, <1>2, GoneKeeps DEF Open
<1>3. CASE client # NoClient
  <2>1. opts' = [opts EXCEPT ![r] = o]
    BY <1>3 DEF Open
  <2>2. /\ opts' \in [Readers -> ReadOptions] /\ opts'[r] = o
        /\ \A q \in Readers \ {r} : opts'[q] = opts[q]
    BY <2>1 DEF Inv, TypeOK
  <2>3. CASE o.length = 0
    <3>1. Opened(r, NoBytes, NoObject)
      BY <1>3, <2>3 DEF Open
    <3>2. NoBytes \in Run /\ Size(NoBytes) = 0
      BY BytesRun DEF NoBytes
    <3> QED
      BY <1>1, <2>2, <2>3, <3>1, <3>2, OpenedKeeps
  <2>4. CASE o.length # 0
    <3>1. /\ status' = [status EXCEPT ![r] = "requesting"]
          /\ UNCHANGED <<body, pending, source, got>>
      BY <1>3, <2>4 DEF Open
    <3>2. TypeOK'
      BY <1>1, <2>2, <3>1 DEF Inv, TypeOK, session, bucket, SessionTypeOK
    <3>3. ReaderInv(r)'
      BY <2>2, <2>4, <3>1 DEF Inv, TypeOK, ReaderInv, Reading
    <3> QED
      BY <1>1, <2>2, <3>1, <3>2, <3>3, OneReader DEF Inv, TypeOK
  <2> QED
    BY <2>3, <2>4
<1> QED
  BY <1>2, <1>3

\* The answer to the GET of an open.
LEMMA AnswerKeeps ==
    ASSUME Inv, NEW r \in Readers, Answer(r)
    PROVE  Inv'
<1>1. UNCHANGED <<session, bucket>> /\ status[r] = "requesting"
  BY DEF Answer
<1>2. CASE object = NoObject
  BY <1>1, <1>2, GoneKeeps DEF Answer
<1>3. CASE object # NoObject
  <2> DEFINE range == HttpRange(opts[r])
             run == IF IsInvalid(range, object.size) THEN NoBytes
                    ELSE Selected(range, object.size)
  <2>1. Opened(r, run, object) /\ opts' = opts
    BY <1>3 DEF Answer
  <2>2. /\ object \in Object /\ object.size \in 0 .. MaxSize
        /\ opts[r] \in ReadOptions /\ opts[r].length # 0
    BY <1>1, <1>3 DEF Inv, TypeOK, Object, ReaderInv
  <2>3. /\ Wanted(opts[r], object.size) \in Run
        /\ IF IsInvalid(range, object.size)
           THEN Size(Wanted(opts[r], object.size)) = 0
           ELSE Selected(range, object.size) = Wanted(opts[r], object.size)
    BY <2>2, RangeIsWanted
  <2>4. NoBytes \in Run /\ Size(NoBytes) = 0
    BY BytesRun DEF NoBytes
  <2> HIDE DEF range
  <2>5. /\ run \in Run
        /\ Size(run) = Size(Wanted(opts[r], object.size))
        /\ Size(run) > 0 => run = Wanted(opts[r], object.size)
    BY <2>3, <2>4
  <2> HIDE DEF run
  <2> QED
    BY <1>1, <1>3, <2>1, <2>2, <2>5, OpenedKeeps DEF Inv, TypeOK
<1> QED
  BY <1>2, <1>3

\* The whole invariant holds at first.
LEMMA InvStarts == Init => Inv
<1> SUFFICES ASSUME Init PROVE Inv
  OBVIOUS
<1>1. SessionInv
  BY SessionStarts DEF Init
<1>2. NoBytes \in Run /\ <<>> \in Seq(Nat) /\ WholeObject \in ReadOptions
  BY BytesRun, EmptySeq, ReaderAssumption DEF NoBytes, WholeObject, ReadOptions
<1>3. TypeOK
  BY <1>1, <1>2 DEF Init, TypeOK, SessionInv
<1>4. \A r \in Readers : ReaderInv(r)
  BY DEF Init, ReaderInv, Reading
<1> QED
  BY <1>1, <1>3, <1>4 DEF Inv

\* Every step preserves it.
LEMMA InvStep == Inv /\ [Next]_vars => Inv'
<1> SUFFICES ASSUME Inv, [Next]_vars PROVE Inv'
  OBVIOUS
<1>1. ASSUME SessionNext, UNCHANGED <<bucket, reader>> PROVE Inv'
  <2>1. SessionInv' /\ SessionTypeOK'
    BY <1>1, SessionStep DEF Inv, SessionInv
  <2>2. object' \in Object \cup {NoObject} /\ puts' \in Nat /\ UNCHANGED reader
    BY <1>1 DEF Inv, TypeOK, bucket
  <2> QED
    BY <2>1, <2>2, ReadersKept DEF Inv
<1>2. ASSUME NEW size \in 0 .. MaxSize, PutObject(size) PROVE Inv'
  <2>1. UNCHANGED <<session, reader>> /\ puts' \in Nat /\ object' \in Object
    BY <1>2 DEF PutObject, Inv, TypeOK, Object
  <2>2. SessionInv' /\ SessionTypeOK'
    BY <2>1 DEF Inv, session, SessionInv, SessionTypeOK, ConnectedAsTold, HonoursSettings
  <2> QED
    BY <2>1, <2>2, ReadersKept DEF Inv
<1>3. ASSUME DeleteObject PROVE Inv'
  <2>1. UNCHANGED <<session, reader>> /\ puts' \in Nat /\ object' = NoObject
    BY <1>3 DEF DeleteObject, Inv, TypeOK
  <2>2. SessionInv' /\ SessionTypeOK'
    BY <2>1 DEF Inv, session, SessionInv, SessionTypeOK, ConnectedAsTold, HonoursSettings
  <2> QED
    BY <2>1, <2>2, ReadersKept DEF Inv
<1>4. ASSUME NEW r \in Readers, NEW o \in ReadOptions, Open(r, o) PROVE Inv'
  BY <1>4, OpenKeeps
<1>5. ASSUME NEW r \in Readers, Asked(r) PROVE Inv'
  BY <1>5, AnswerKeeps, GoneKeeps DEF Asked, GetFails
<1>6. ASSUME NEW r \in Readers, Served(r) \/ PollFails(r) PROVE Inv'
  BY <1>6, PollReadKeeps, BecomesKeeps DEF Served, PollEof, PollFails
<1>7. ASSUME NEW r \in Readers, Drop(r) PROVE Inv'
  BY <1>7, GoneKeeps DEF Drop
<1>8. CASE UNCHANGED vars
  <2>1. UNCHANGED <<session, bucket, reader>>
    BY <1>8 DEF vars
  <2>2. SessionInv' /\ SessionTypeOK'
    BY <2>1 DEF Inv, session, SessionInv, SessionTypeOK, ConnectedAsTold, HonoursSettings
  <2>3. object' \in Object \cup {NoObject} /\ puts' \in Nat
    BY <2>1 DEF Inv, TypeOK, bucket
  <2> QED
    BY <2>1, <2>2, <2>3, ReadersKept DEF Inv
<1> QED
  BY <1>1, <1>2, <1>3, <1>4, <1>5, <1>6, <1>7, <1>8 DEF Next

\* The bytes read so far are those asked for, in order and once each.
LEMMA InvReads == Inv => ReadsRange
<1> SUFFICES ASSUME Inv, NEW r \in Readers, status[r] \in Reading
             PROVE  IF source[r] = NoObject
                    THEN opts[r].length = 0 /\ got[r] = <<>>
                    ELSE LET wanted == Wanted(opts[r], source[r].size) IN
                         /\ Len(got[r]) <= Size(wanted)
                         /\ \A i \in 1 .. Len(got[r]) : got[r][i] = wanted.lo + i - 1
                         /\ status[r] = "eof" => Len(got[r]) = Size(wanted)
  BY DEF ReadsRange
<1>1. /\ got[r] \in Seq(Nat) /\ Len(got[r]) \in Nat
      /\ Size(pending[r]) \in Nat /\ Size(body[r]) \in Nat
  BY DEF Inv, TypeOK, Run, Size
<1>2. CASE source[r] = NoObject
  <2>1. Size(NoBytes) = 0
    BY BytesRun DEF NoBytes
  <2>2. Len(got[r]) + Size(pending[r]) + Size(body[r]) = 0 /\ opts[r].length = 0
    BY <1>2, <2>1 DEF Inv, ReaderInv
  <2>3. Len(got[r]) = 0
    BY <1>1, <2>2
  <2> QED
    BY <1>1, <1>2, <2>2, <2>3, EmptySeq
<1>3. CASE source[r] # NoObject
  <2> DEFINE wanted == Wanted(opts[r], source[r].size)
  <2>1. /\ Len(got[r]) + Size(pending[r]) + Size(body[r]) = Size(wanted)
        /\ \A i \in 1 .. Len(got[r]) : got[r][i] = wanted.lo + i - 1
        /\ status[r] = "eof" => Size(pending[r]) = 0 /\ Size(body[r]) = 0
    BY <1>3 DEF Inv, ReaderInv
  <2> HIDE DEF wanted
  <2>2. /\ Len(got[r]) <= Size(wanted)
        /\ status[r] = "eof" => Len(got[r]) = Size(wanted)
    BY <1>1, <2>1
  <2> QED
    BY <1>3, <2>1, <2>2 DEF wanted
<1> QED
  BY <1>2, <1>3

\* The inductive invariant of settings, client and readers.
LEMMA Invariance == Spec => []Inv
BY InvStarts, InvStep, PTL DEF Spec

-----------------------------------------------------------------------------

\* Settings, client, and readers are what their types say (client.rs 31-46,
\* read.rs 18-21).
THEOREM ReaderTypeCorrect == Spec => []TypeOK
<1>1. Inv => TypeOK
  BY DEF Inv
<1> QED
  BY <1>1, Invariance, PTL

\* The inductive invariant of a session.
LEMMA SessionInvariance == SessionSpec => []SessionInv
<1>1. SessionInv /\ [SessionNext]_session => SessionInv'
  <2>1. SessionInv /\ UNCHANGED session => SessionInv'
    BY DEF session, SessionInv, SessionTypeOK, ConnectedAsTold, HonoursSettings
  <2> QED
    BY <2>1, SessionStep
<1> QED
  BY <1>1, SessionStarts, PTL DEF SessionSpec

\* However calls are dropped, refused, and repeated, an AwsS3Fs is connected
\* as its owner was told (client.rs 320-350).
THEOREM ConnectionCorrect == SessionSpec => []ConnectedAsTold
<1>1. SessionInv => ConnectedAsTold
  BY DEF SessionInv
<1> QED
  BY <1>1, SessionInvariance, PTL

\* Whatever was set before connect, the region, the endpoint, the path style,
\* the keys and the session token of the client are those connect was given,
\* and once any credential is given, those of the environment are not used
\* (client.rs 208-267).
THEOREM SettingsHonoured == SessionSpec => []HonoursSettings
<1>1. SessionInv => HonoursSettings
  BY DEF SessionInv
<1> QED
  BY <1>1, SessionInvariance, PTL

\* An AwsS3Fs whose readers come and go is a session: what is borrowed only
\* delays a connect or disconnect, so both theorems hold beside its readers
\* (client.rs 320-350, 509-546).
THEOREM ReadersKeepSession == Spec => SessionSpec
<1>1. Init => SessionInit
  BY DEF Init
<1>2. [Next]_vars => [SessionNext]_session
  BY DEF Next, vars, PutObject, DeleteObject, Open, Asked, Answer, GetFails, Served, PollRead, PollEof,
         PollFails, Drop
<1> QED
  BY <1>1, <1>2, PTL DEF Spec, SessionSpec

\* For every offset, length, and size of integer, and however the chunks of a
\* body and the buffers of its owner cut it, a reader hands out the bytes that
\* were asked for (client.rs 509-579, read.rs 38-64).
THEOREM RangeIsRead == Spec => []ReadsRange
BY Invariance, InvReads, PTL
=============================================================================
