----------------------------- MODULE S3KeyProof -----------------------------
(***************************************************************************)
(* Facts about keys, paths and queries for every set of names: what is     *)
(* left of a key without the slashes at its ends, which keys have the      *)
(* prefix of a directory, what stat_key finds, what a page of a listing    *)
(* shows, and how a bucket that is used as a file system is built.         *)
(***************************************************************************)
EXTENDS AwsS3FsInv, FiniteSetTheorems, SequenceTheorems, TLAPS

-----------------------------------------------------------------------------
(* Numbers and sequences.                                                  *)

\* A set of numbers that is not empty has a least one.
LEMMA MinExists ==
    ASSUME NEW S, S \subseteq Nat, S # {}
    PROVE  /\ Min(S) \in S
           /\ \A x \in S : Min(S) <= x
<1>1. PICK m \in S : \A x \in S : ~ (<<x, m>> \in OpToRel(<, Nat))
  BY NatLessThanWellFounded, WFMin
<1>2. ASSUME NEW x \in S PROVE m <= x
  <2>1. x \in Nat /\ m \in Nat
    OBVIOUS
  <2>2. x < m => <<x, m>> \in OpToRel(<, Nat)
    BY <2>1 DEF OpToRel
  <2>3. ~ (x < m)
    BY <1>1, <2>2
  <2> QED
    BY <2>1, <2>3
<1> QED
  BY <1>2 DEF Min

\* A set of numbers up to n that is not empty has a greatest one.
LEMMA MaxExists ==
    ASSUME NEW S, NEW n \in Nat, S \subseteq 1 .. n, S # {}
    PROVE  /\ Max(S) \in S
           /\ \A x \in S : x <= Max(S)
<1> DEFINE T == {n - x : x \in S}
<1>1. T \subseteq Nat
  BY SMT
<1>0. T # {}
  <2>1. PICK x \in S : TRUE
    OBVIOUS
  <2>2. n - x \in T
    OBVIOUS
  <2> QED
    BY <2>2
<1>2. PICK m \in T : \A y \in T : m <= y
  BY <1>1, <1>0, MinExists
<1>3. PICK x \in S : m = n - x
  BY <1>2
<1>4. ASSUME NEW y \in S PROVE x >= y
  <2>1. n - y \in T
    OBVIOUS
  <2>2. n - x <= n - y
    BY <1>2, <1>3, <2>1
  <2> QED
    BY <2>2
<1> QED
  BY <1>4 DEF Max

\* A key has a name, perhaps an empty one, and names are numbers.
LEMMA KeyFacts ==
    ASSUME NEW k \in Key
    PROVE  /\ k \in Seq(Token) /\ Len(k) \in Nat /\ Len(k) > 0
           /\ \A i \in 1 .. Len(k) : k[i] \in Token /\ k[i] \in Nat
<1>1. k \in Seq(Token) /\ k # <<>>
  BY DEF Key
<1>2. Token \subseteq Nat
  BY KeyAssumption DEF Token
<1>3. \A i \in 1 .. Len(k) : k[i] \in Token
  BY <1>1, ElementOfSeq
<1>4. Len(k) \in Nat /\ Len(k) > 0
  BY <1>1, EmptySeq
<1> QED
  BY <1>1, <1>2, <1>3, <1>4

\* A piece of a key is a key.
LEMMA Piece ==
    ASSUME NEW k \in Key, NEW a \in 1 .. Len(k), NEW b \in a .. Len(k)
    PROVE  /\ SubSeq(k, a, b) \in Key
           /\ Len(SubSeq(k, a, b)) = b - a + 1
           /\ \A i \in 1 .. b - a + 1 : SubSeq(k, a, b)[i] = k[a + i - 1]
<1>1. a \in Int /\ b \in Int /\ \A i \in a .. b : k[i] \in Token
  BY KeyFacts
<1>2. /\ SubSeq(k, a, b) \in Seq(Token)
      /\ Len(SubSeq(k, a, b)) = b - a + 1
      /\ \A i \in 1 .. b - a + 1 : SubSeq(k, a, b)[i] = k[a + i - 1]
  BY <1>1, SubSeqProperties
<1>3. b - a + 1 # 0
  BY <1>1
<1> QED
  BY <1>2, <1>3, EmptySeq DEF Key

\* Keys of the same names are one key.
LEMMA SameKey ==
    ASSUME NEW j \in Key, NEW k \in Key, Len(j) = Len(k),
           \A i \in 1 .. Len(j) : j[i] = k[i]
    PROVE  j = k
BY KeyFacts, SeqEqual

\* The empty key is one empty name.
LEMMA EmptyIsKey == EmptyKey \in Key /\ Len(EmptyKey) = 1 /\ EmptyKey[1] = 0
BY DEF EmptyKey, Key, Token

\* With one more name at its end.
LEMMA Appended ==
    ASSUME NEW k \in Key
    PROVE  /\ Append(k, 0) \in Key
           /\ Len(Append(k, 0)) = Len(k) + 1
           /\ \A i \in 1 .. Len(k) : Append(k, 0)[i] = k[i]
           /\ Append(k, 0)[Len(k) + 1] = 0
<1>1. 0 \in Token /\ k \in Seq(Token)
  BY DEF Token, Key
<1> QED
  BY <1>1, AppendProperties DEF Key

-----------------------------------------------------------------------------
(* Without the slashes at the ends.                                        *)

\* The first and the last name of a key.
LEMMA Ends ==
    ASSUME NEW k \in Key, Named(k) # {}
    PROVE  LET a == Min(Named(k))  b == Max(Named(k)) IN
           /\ a \in 1 .. Len(k) /\ b \in a .. Len(k)
           /\ k[a] # 0 /\ k[b] # 0
           /\ \A i \in 1 .. Len(k) : k[i] # 0 => a <= i /\ i <= b
<1>1. Named(k) \subseteq 1 .. Len(k) /\ Len(k) \in Nat
  BY KeyFacts DEF Named
<1>2. Named(k) \subseteq Nat
  BY <1>1
<1>3. Min(Named(k)) \in Named(k) /\ \A x \in Named(k) : Min(Named(k)) <= x
  BY <1>2, MinExists
<1>4. Max(Named(k)) \in Named(k) /\ \A x \in Named(k) : x <= Max(Named(k))
  BY <1>1, MaxExists
<1>5. \A i \in 1 .. Len(k) : k[i] # 0 => i \in Named(k)
  BY DEF Named
<1>6. \A i \in Named(k) : i \in 1 .. Len(k) /\ k[i] # 0
  BY DEF Named
<1> QED
  BY <1>1, <1>3, <1>4, <1>5, <1>6

\* They are where nothing but empty names lies outside.
LEMMA EndsAre ==
    ASSUME NEW k \in Key, NEW a \in 1 .. Len(k), NEW b \in a .. Len(k),
           k[a] # 0, k[b] # 0,
           \A i \in 1 .. Len(k) : k[i] # 0 => a <= i /\ i <= b
    PROVE  /\ Named(k) # {}
           /\ Min(Named(k)) = a
           /\ Max(Named(k)) = b
<1>0. Len(k) \in Nat
  BY KeyFacts
<1>1. a \in Named(k) /\ b \in 1 .. Len(k)
  BY <1>0 DEF Named
<1>2. DEFINE m == Min(Named(k))  n == Max(Named(k))
<1>3. /\ m \in 1 .. Len(k) /\ n \in m .. Len(k) /\ k[m] # 0 /\ k[n] # 0
      /\ m <= a /\ b <= n
  BY <1>1, Ends
<1>4. a <= m /\ n <= b
  BY <1>0, <1>3
<1> QED
  BY <1>0, <1>1, <1>3, <1>4

\* A key without slashes at its ends, or the empty one.
Bare(k) == k = EmptyKey \/ (k[1] # 0 /\ k[Len(k)] # 0)

\* trim_matches leaves no slash at an end.
LEMMA TrimIsBare ==
    ASSUME NEW k \in Key
    PROVE  Trim(k) \in Key /\ Bare(Trim(k))
<1>1. CASE Named(k) = {}
  BY <1>1, EmptyIsKey DEF Trim, Bare
<1>2. CASE Named(k) # {}
  <2> DEFINE a == Min(Named(k))  b == Max(Named(k))
  <2>1. a \in 1 .. Len(k) /\ b \in a .. Len(k) /\ k[a] # 0 /\ k[b] # 0
    BY <1>2, Ends
  <2>2. Trim(k) = SubSeq(k, a, b)
    BY <1>2 DEF Trim
  <2>3. /\ Trim(k) \in Key
        /\ Len(Trim(k)) = b - a + 1
        /\ \A i \in 1 .. b - a + 1 : Trim(k)[i] = k[a + i - 1]
    BY <2>1, <2>2, Piece
  <2>4. Len(k) \in Nat
    BY KeyFacts
  <2>5. 1 \in 1 .. b - a + 1 /\ b - a + 1 \in 1 .. b - a + 1
    BY <2>1, <2>4
  <2>6. a + 1 - 1 = a /\ a + (b - a + 1) - 1 = b
    BY <2>1, <2>4
  <2>7. Trim(k)[1] = k[a] /\ Trim(k)[Len(Trim(k))] = k[b]
    BY <2>3, <2>5, <2>6
  <2> QED
    BY <2>1, <2>3, <2>7 DEF Bare
<1> QED
  BY <1>1, <1>2

\* trim_end_matches makes a key of a key.
LEMMA TrimEndIsKey ==
    ASSUME NEW k \in Key
    PROVE  TrimEnd(k) \in Key
<1>1. CASE Named(k) = {}
  BY <1>1, EmptyIsKey DEF TrimEnd
<1>2. CASE Named(k) # {}
  <2> DEFINE b == Max(Named(k))
  <2>1. b \in 1 .. Len(k) /\ 1 \in 1 .. Len(k)
    BY <1>2, Ends, KeyFacts
  <2> QED
    BY <1>2, <2>1, Piece DEF TrimEnd
<1> QED
  BY <1>1, <1>2

\* Where there is no slash at an end, trimming changes nothing.
LEMMA BareIsTrimmed ==
    ASSUME NEW k \in Key, Bare(k)
    PROVE  Trim(k) = k /\ TrimEnd(k) = k
<1>0. Len(k) \in Nat /\ Len(k) > 0 /\ k \in Seq(Token)
  BY KeyFacts
<1>1. CASE k = EmptyKey
  BY <1>1, EmptyIsKey DEF Trim, TrimEnd, Named
<1>2. CASE k[1] # 0 /\ k[Len(k)] # 0
  <2>1. Named(k) # {} /\ Min(Named(k)) = 1 /\ Max(Named(k)) = Len(k)
    BY <1>0, <1>2, EndsAre
  <2>2. SubSeq(k, 1, Len(k)) = k
    BY <1>0, SubSeqFull
  <2> QED
    BY <2>1, <2>2 DEF Trim, TrimEnd
<1> QED
  BY <1>1, <1>2 DEF Bare

\* The slashes at the end do not change what is between the slashes.
LEMMA TrimOfTrimEnd ==
    ASSUME NEW k \in Key
    PROVE  Trim(TrimEnd(k)) = Trim(k)
<1>1. CASE Named(k) = {}
  <2>1. Trim(k) = EmptyKey /\ TrimEnd(k) = EmptyKey
    BY <1>1 DEF Trim, TrimEnd
  <2> QED
    BY <2>1, EmptyIsKey, BareIsTrimmed DEF Bare
<1>2. CASE Named(k) # {}
  <2> DEFINE a == Min(Named(k))  b == Max(Named(k))  e == TrimEnd(k)
  <2>0. Len(k) \in Nat
    BY KeyFacts
  <2>1. /\ a \in 1 .. Len(k) /\ b \in a .. Len(k) /\ k[a] # 0 /\ k[b] # 0
        /\ \A i \in 1 .. Len(k) : k[i] # 0 => a <= i /\ i <= b
    BY <1>2, Ends
  <2>2. e = SubSeq(k, 1, b) /\ 1 \in 1 .. Len(k) /\ b \in 1 .. Len(k)
    BY <1>2, <2>0, <2>1 DEF TrimEnd
  <2>3. e \in Key /\ Len(e) = b /\ \A i \in 1 .. b : e[i] = k[i]
    <3>1. /\ e \in Key
          /\ Len(e) = b - 1 + 1
          /\ \A i \in 1 .. b - 1 + 1 : e[i] = k[1 + i - 1]
      BY <2>2, Piece
    <3> QED
      BY <2>0, <2>1, <3>1
  <2>4. /\ a \in 1 .. Len(e) /\ b \in a .. Len(e) /\ e[a] # 0 /\ e[b] # 0
        /\ \A i \in 1 .. Len(e) : e[i] # 0 => a <= i /\ i <= b
    BY <2>0, <2>1, <2>3
  <2>5. Named(e) # {} /\ Min(Named(e)) = a /\ Max(Named(e)) = b
    BY <2>3, <2>4, EndsAre
  <2>6. Trim(e) = SubSeq(e, a, b) /\ Trim(k) = SubSeq(k, a, b)
    BY <1>2, <2>5 DEF Trim
  <2>7. /\ Trim(e) \in Key /\ Len(Trim(e)) = b - a + 1
        /\ \A i \in 1 .. b - a + 1 : Trim(e)[i] = e[a + i - 1]
    BY <2>3, <2>4, <2>6, Piece
  <2>8. /\ Trim(k) \in Key /\ Len(Trim(k)) = b - a + 1
        /\ \A i \in 1 .. b - a + 1 : Trim(k)[i] = k[a + i - 1]
    BY <2>1, <2>6, Piece
  <2>9. \A i \in 1 .. b - a + 1 : e[a + i - 1] = k[a + i - 1]
    BY <2>0, <2>1, <2>3
  <2> QED
    BY <2>7, <2>8, <2>9, SameKey
<1> QED
  BY <1>1, <1>2

-----------------------------------------------------------------------------
(* Prefixes.                                                               *)

\* The names of t are the first ones of k.
Starts(k, t) == Len(t) <= Len(k) /\ \A i \in 1 .. Len(t) : k[i] = t[i]

\* k lies below the directory whose key without slashes is t.
Under(t, k) == t = EmptyKey \/ (Len(t) < Len(k) /\ Starts(k, t))

\* Fronts of keys are compared name by name.
LEMMA FrontsEqual ==
    ASSUME NEW p \in Key, NEW k \in Key, Len(p) <= Len(k)
    PROVE  Front(p) = SubSeq(k, 1, Len(p) - 1)
               <=> \A i \in 1 .. Len(p) - 1 : k[i] = p[i]
<1> DEFINE n == Len(p) - 1
<1>0. /\ Len(p) \in Nat /\ Len(p) > 0 /\ Len(k) \in Nat
      /\ n \in Nat /\ n = Len(p) - 1 /\ n < Len(p) /\ n < Len(k)
  BY KeyFacts
<1> HIDE DEF n
<1>1. CASE n = 0
  <2>0. 1 \in Int /\ 0 \in Int /\ 0 < 1
    OBVIOUS
  <2>1. SubSeq(p, 1, n) = <<>> /\ SubSeq(k, 1, n) = <<>>
    BY ONLY <1>1, <2>0, SubSeqEmpty
  <2>2. 1 .. n = {}
    BY <1>1, SMT
  <2> QED
    BY <1>0, <2>1, <2>2 DEF Front
<1>2. CASE n # 0
  <2>1. 1 \in 1 .. Len(p) /\ n \in 1 .. Len(p) /\ 1 \in 1 .. Len(k) /\ n \in 1 .. Len(k)
    BY <1>0, <1>2
  <2>2. /\ SubSeq(p, 1, n) \in Key /\ Len(SubSeq(p, 1, n)) = n - 1 + 1
        /\ \A i \in 1 .. n - 1 + 1 : SubSeq(p, 1, n)[i] = p[1 + i - 1]
    BY <2>1, Piece
  <2>3. /\ SubSeq(k, 1, n) \in Key /\ Len(SubSeq(k, 1, n)) = n - 1 + 1
        /\ \A i \in 1 .. n - 1 + 1 : SubSeq(k, 1, n)[i] = k[1 + i - 1]
    BY <2>1, Piece
  <2>4. /\ Len(SubSeq(p, 1, n)) = n /\ Len(SubSeq(k, 1, n)) = n
        /\ \A i \in 1 .. n : SubSeq(p, 1, n)[i] = p[i] /\ SubSeq(k, 1, n)[i] = k[i]
    BY <1>0, <2>2, <2>3
  <2> DEFINE f == SubSeq(p, 1, n)  g == SubSeq(k, 1, n)
  <2>5. f \in Key /\ g \in Key /\ Len(f) = n /\ Len(g) = n
        /\ \A i \in 1 .. n : f[i] = p[i] /\ g[i] = k[i]
    BY <2>2, <2>3, <2>4
  <2> HIDE DEF f, g
  <2>6. f = g <=> \A i \in 1 .. n : k[i] = p[i]
    BY <2>5, SameKey
  <2> QED
    BY <1>0, <2>6 DEF Front, f, g
<1> QED
  BY <1>1, <1>2

\* The keys of the file and of the directory at a path.
LEMMA FileAndDirectory ==
    ASSUME NEW p \in Key
    PROVE  /\ FileKey(p) = Trim(p) /\ FileKey(p) \in Key /\ DirKey(p) \in Key
           /\ Trim(p) = EmptyKey => DirKey(p) = EmptyKey
           /\ Trim(p) # EmptyKey => DirKey(p) = Append(Trim(p), 0)
BY TrimIsBare, Appended, EmptyIsKey DEF FileKey, DirKey, FromPath

\* The keys with the prefix of a directory are those below it.
LEMMA PrefixIsUnder ==
    ASSUME NEW p \in Key, NEW k \in Key
    PROVE  HasPrefix(k, DirKey(p)) <=> Under(Trim(p), k)
<1> DEFINE e == Trim(p)  d == DirKey(p)
<1>0. Len(k) \in Nat /\ Len(k) > 0 /\ e \in Key /\ d \in Key /\ Len(e) \in Nat
  BY KeyFacts, TrimIsBare, FileAndDirectory
<1>1. CASE e = EmptyKey
  <2>0. d = EmptyKey
    BY <1>1, FileAndDirectory
  <2>1. Len(d) = 1 /\ d[1] = 0 /\ Len(d) <= Len(k)
    BY <1>0, <2>0, EmptyIsKey
  <2>2. Front(d) = SubSeq(k, 1, Len(d) - 1) <=> \A i \in 1 .. Len(d) - 1 : k[i] = d[i]
    BY <1>0, <2>1, FrontsEqual
  <2>3. HasPrefix(k, d)
    BY <2>1, <2>2 DEF HasPrefix, Last
  <2> QED
    BY <1>1, <2>3 DEF Under
<1>2. CASE e # EmptyKey
  <2>1. d = Append(e, 0) /\ Len(d) = Len(e) + 1 /\ d[Len(d)] = 0
        /\ \A i \in 1 .. Len(e) : d[i] = e[i]
    BY <1>0, <1>2, FileAndDirectory, Appended
  <2>2. CASE Len(d) <= Len(k)
    <3>1. Front(d) = SubSeq(k, 1, Len(d) - 1) <=> \A i \in 1 .. Len(d) - 1 : k[i] = d[i]
      BY <1>0, <2>2, FrontsEqual
    <3>2. Len(d) - 1 = Len(e)
      BY <1>0, <2>1
    <3>3. HasPrefix(k, d) <=> \A i \in 1 .. Len(e) : k[i] = e[i]
      BY <2>1, <2>2, <3>1, <3>2 DEF HasPrefix, Last
    <3> QED
      BY <1>0, <1>2, <2>1, <2>2, <3>3 DEF Under, Starts
  <2>3. CASE ~ (Len(d) <= Len(k))
    BY <1>0, <1>2, <2>1, <2>3 DEF HasPrefix, Under
  <2> QED
    BY <2>2, <2>3
<1> QED
  BY <1>1, <1>2

\* A path covers its own file and what lies below it.
LEMMA CoversWhat ==
    ASSUME NEW p \in Key, NEW k \in Key
    PROVE  Covers(p, k) <=> k = Trim(p) \/ Under(Trim(p), k)
BY FileAndDirectory, PrefixIsUnder DEF Covers

\* A path below another covers nothing that the other does not.
LEMMA CoversMore ==
    ASSUME NEW p \in Key, NEW e \in Key, NEW k \in Key, Covers(p, Trim(e)), Covers(e, k)
    PROVE  Covers(p, k)
<1> DEFINE t == Trim(p)  u == Trim(e)
<1>0. /\ t \in Key /\ u \in Key /\ Bare(t) /\ Bare(u)
      /\ Len(t) \in Nat /\ Len(t) > 0 /\ Len(u) \in Nat /\ Len(u) > 0 /\ Len(k) \in Nat
  BY TrimIsBare, KeyFacts
<1>1. (u = t \/ Under(t, u)) /\ (k = u \/ Under(u, k))
  BY <1>0, CoversWhat
<1>2. CASE t = EmptyKey
  BY <1>2, CoversWhat DEF Under
<1>3. CASE t # EmptyKey /\ u = t
  BY <1>1, <1>3, CoversWhat
<1>4. CASE t # EmptyKey /\ u # t
  <2>1. Len(t) < Len(u) /\ Starts(u, t)
    BY <1>1, <1>4 DEF Under
  <2>2. u # EmptyKey
    <3>1. Len(u) > 1
      BY <1>0, <2>1
    <3> QED
      BY <3>1, EmptyIsKey
  <2>3. k = u \/ (Len(u) < Len(k) /\ Starts(k, u))
    BY <1>1, <2>2 DEF Under
  <2>4. Len(t) < Len(k) /\ Starts(k, t)
    BY <1>0, <2>1, <2>3 DEF Starts
  <2> QED
    BY <2>4, CoversWhat DEF Under
<1> QED
  BY <1>2, <1>3, <1>4

\* The marker of a directory lies below it, and the file of a path at it.
LEMMA CoversOwn ==
    ASSUME NEW e \in Key
    PROVE  Covers(e, FileKey(e)) /\ Covers(e, DirKey(e))
<1> DEFINE u == Trim(e)
<1>0. u \in Key /\ Len(u) \in Nat /\ FileKey(e) = u /\ FileKey(e) \in Key /\ DirKey(e) \in Key
  BY TrimIsBare, KeyFacts, FileAndDirectory
<1>1. Covers(e, FileKey(e))
  BY DEF Covers
<1>2. CASE u = EmptyKey
  BY <1>0, <1>2, CoversWhat DEF Under
<1>3. CASE u # EmptyKey
  <2>1. DirKey(e) = Append(u, 0) /\ Len(DirKey(e)) = Len(u) + 1
        /\ \A i \in 1 .. Len(u) : DirKey(e)[i] = u[i]
    BY <1>0, <1>3, FileAndDirectory, Appended
  <2>2. Under(u, DirKey(e))
    BY <1>0, <2>1 DEF Under, Starts
  <2> QED
    BY <1>0, <1>1, <2>2, CoversWhat
<1> QED
  BY <1>1, <1>2, <1>3

\* What begins with the names of t is, without slashes, at or below t.
LEMMA TrimStarts ==
    ASSUME NEW t \in Key, Bare(t), t # EmptyKey, NEW k \in Key, Starts(k, t)
    PROVE  Trim(k) = t \/ Under(t, Trim(k))
<1> DEFINE n == Len(t)  a == Min(Named(k))  b == Max(Named(k))
<1>0. Len(t) \in Nat /\ Len(t) > 0 /\ Len(k) \in Nat /\ n \in 1 .. Len(k) /\ 1 \in 1 .. Len(k)
      /\ n \in 1 .. Len(t) /\ 1 \in 1 .. Len(t)
  BY KeyFacts DEF Starts
<1>1. k[1] # 0 /\ k[n] # 0
  BY <1>0 DEF Bare, Starts
<1>2. Named(k) # {}
  BY <1>0, <1>1 DEF Named
<1>3. a = 1 /\ b \in 1 .. Len(k) /\ n <= b
  BY <1>0, <1>1, <1>2, Ends
<1>4. Trim(k) = SubSeq(k, 1, b)
  BY <1>2, <1>3 DEF Trim
<1> HIDE DEF b
<1>5. /\ Trim(k) \in Key /\ Len(Trim(k)) = b - 1 + 1
      /\ \A i \in 1 .. b - 1 + 1 : Trim(k)[i] = k[1 + i - 1]
  BY <1>0, <1>3, <1>4, Piece
<1>6. Len(Trim(k)) = b /\ \A i \in 1 .. n : Trim(k)[i] = t[i]
  BY <1>0, <1>3, <1>5 DEF Starts
<1>7. CASE b = n
  BY <1>5, <1>6, <1>7, SameKey
<1>8. CASE n < b
  BY <1>0, <1>3, <1>6, <1>8 DEF Under, Starts
<1> QED
  BY <1>0, <1>3, <1>7, <1>8

\* The path of an object that is listed below a directory is below it.
LEMMA ListedIsCovered ==
    ASSUME NEW p \in Key, NEW k \in Key, HasPrefix(k, DirKey(p))
    PROVE  Covers(p, Trim(k))
<1>1. Under(Trim(p), k)
  BY PrefixIsUnder
<1>2. Trim(p) \in Key /\ Bare(Trim(p)) /\ Trim(k) \in Key
  BY TrimIsBare
<1>3. Trim(k) = Trim(p) \/ Under(Trim(p), Trim(k))
  BY <1>1, <1>2, TrimStarts DEF Under
<1> QED
  BY <1>2, <1>3, CoversWhat

\* A key that begins with the text of t and has its names begins with t.
LEMMA SameNamesStart ==
    ASSUME NEW t \in Key, Bare(t), t # EmptyKey, NEW k \in Key,
           HasPrefix(k, t), Names(TrimEnd(k)) = Names(t)
    PROVE  Starts(k, t)
<1> DEFINE n == Len(t)  e == TrimEnd(k)
<1>0. Len(t) \in Nat /\ Len(t) > 0 /\ Len(k) \in Nat /\ Len(t) <= Len(k)
      /\ n \in 1 .. Len(k) /\ n \in 1 .. Len(t) /\ t[n] # 0
  BY KeyFacts DEF HasPrefix, Bare
<1>1. \A i \in 1 .. n - 1 : k[i] = t[i]
  BY <1>0, FrontsEqual DEF HasPrefix
<1>2. SUFFICES ASSUME k[n] # t[n] PROVE FALSE
  BY <1>0, <1>1 DEF Starts
<1>3. <<t[n], k[n]>> \in Extensions
  BY <1>0, <1>2 DEF HasPrefix, Last
<1>4. k[n] # 0
  BY <1>3, KeyAssumption
<1>5. Len(e) \in Nat /\ n \in 1 .. Len(e) /\ \A i \in 1 .. n : e[i] = k[i]
  <2> DEFINE b == Max(Named(k))
  <2>1. Named(k) # {}
    BY <1>0, <1>4 DEF Named
  <2>2. b \in 1 .. Len(k) /\ n <= b
    BY <1>0, <1>4, <2>1, Ends
  <2>3. e = SubSeq(k, 1, b)
    BY <2>1 DEF TrimEnd
  <2>5. 1 \in 1 .. Len(k)
    BY <1>0
  <2> HIDE DEF b, e
  <2>4. Len(e) = b - 1 + 1 /\ \A i \in 1 .. b - 1 + 1 : e[i] = k[1 + i - 1]
    BY <2>2, <2>3, <2>5, Piece
  <2> QED
    BY <1>0, <2>2, <2>4
<1> HIDE DEF e
<1> DEFINE S(i) == Named(t) \cap (1 .. i)
<1>6. Named(e) \cap (1 .. n) = S(n)
  BY <1>0, <1>1, <1>4, <1>5 DEF Named
<1>7. <<Cardinality(S(n)), e[n]>> \in Names(e)
  <2>1. n \in Named(e)
    BY <1>0, <1>4, <1>5 DEF Named
  <2> QED
    BY <1>6, <2>1 DEF Names
<1>8. PICK i \in Named(t) : <<Cardinality(S(n)), e[n]>> = <<Cardinality(S(i)), t[i]>>
  BY <1>7 DEF Names, e
<1>9. i \in 1 .. n /\ Cardinality(S(n)) = Cardinality(S(i)) /\ t[i] = k[n]
  BY <1>0, <1>5, <1>8 DEF Named
<1>10. i # n
  BY <1>2, <1>9
<1>11. S(i) \in SUBSET S(n) /\ n \in S(n) /\ n \notin S(i)
  BY <1>0, <1>9, <1>10 DEF Named
<1>12. IsFiniteSet(S(n))
  <2>1. IsFiniteSet(1 .. n)
    BY <1>0, FS_Interval
  <2>2. S(n) \in SUBSET (1 .. n)
    OBVIOUS
  <2> QED
    BY <2>1, <2>2, FS_Subset
<1> QED
  BY <1>9, <1>11, <1>12, FS_Subset

-----------------------------------------------------------------------------
(* The order of keys, and what a page of a listing shows.                  *)

\* The first n names of two keys are compared name by name.
LEMMA PiecesEqual ==
    ASSUME NEW j \in Key, NEW k \in Key, NEW n \in Nat, n <= Len(j), n <= Len(k)
    PROVE  SubSeq(j, 1, n) = SubSeq(k, 1, n) <=> \A i \in 1 .. n : j[i] = k[i]
<1>0. Len(j) \in Nat /\ Len(j) > 0 /\ Len(k) \in Nat /\ Len(k) > 0
  BY KeyFacts
<1>1. CASE n = 0
  <2>0. 1 \in Int /\ 0 \in Int /\ 0 < 1
    OBVIOUS
  <2>1. SubSeq(j, 1, n) = <<>> /\ SubSeq(k, 1, n) = <<>>
    BY ONLY <1>1, <2>0, SubSeqEmpty
  <2>2. 1 .. n = {}
    BY <1>1, SMT
  <2> QED
    BY <2>1, <2>2
<1>2. CASE n # 0
  <2> DEFINE f == SubSeq(j, 1, n)  g == SubSeq(k, 1, n)
  <2>1. 1 \in 1 .. Len(j) /\ n \in 1 .. Len(j) /\ 1 \in 1 .. Len(k) /\ n \in 1 .. Len(k)
    BY <1>0, <1>2
  <2>2. f \in Key /\ Len(f) = n - 1 + 1 /\ \A i \in 1 .. n - 1 + 1 : f[i] = j[1 + i - 1]
    BY <2>1, Piece
  <2>3. g \in Key /\ Len(g) = n - 1 + 1 /\ \A i \in 1 .. n - 1 + 1 : g[i] = k[1 + i - 1]
    BY <2>1, Piece
  <2> HIDE DEF f, g
  <2>4. f \in Key /\ g \in Key /\ Len(f) = n /\ Len(g) = n
        /\ \A i \in 1 .. n : f[i] = j[i] /\ g[i] = k[i]
    BY <2>2, <2>3
  <2>5. f = g <=> \A i \in 1 .. n : j[i] = k[i]
    BY <2>4, SameKey
  <2> QED
    BY <2>5 DEF f, g
<1> QED
  BY <1>1, <1>2

\* Places are numbers.
LEMMA PlaceIs ==
    ASSUME NEW k \in Key, NEW i \in 1 .. Len(k)
    PROVE  k[i] \in Token /\ Place(k, i) \in Nat
<1>1. k[i] \in Token
  BY KeyFacts
<1>2. Alone[k[i]] \in Nat /\ Slashed[k[i]] \in Nat
  BY <1>1, KeyAssumption
<1> QED
  BY <1>1, <1>2 DEF Place

\* The n-th name is the first in which j differs from k, and j has the lesser
\* one, with the slash behind it, there.
Differ(j, k, n) ==
    /\ n \in 1 .. Len(j) /\ n \in 1 .. Len(k)
    /\ \A i \in 1 .. n - 1 : j[i] = k[i]
    /\ Place(j, n) < Place(k, n)

\* A key comes before another by the first name in which they differ.
LEMMA BeforeIs ==
    ASSUME NEW j \in Key, NEW k \in Key
    PROVE  Before(j, k) <=> \E n \in Nat : Differ(j, k, n)
<1>0. Len(j) \in Nat /\ Len(j) > 0 /\ Len(k) \in Nat /\ Len(k) > 0
  BY KeyFacts
<1>1. ASSUME NEW n \in 1 .. Len(j) \cap 1 .. Len(k)
      PROVE  SubSeq(j, 1, n - 1) = SubSeq(k, 1, n - 1) <=> \A i \in 1 .. n - 1 : j[i] = k[i]
  <2>1. n - 1 \in Nat /\ n - 1 <= Len(j) /\ n - 1 <= Len(k)
    BY <1>0
  <2> QED
    BY <2>1, PiecesEqual
<1>2. \A n \in 1 .. Len(j) \cap 1 .. Len(k) : n \in Nat
  BY <1>0
<1> QED
  BY <1>1, <1>2 DEF Before, Differ

\* No key comes before itself.
LEMMA NotBeforeItself ==
    ASSUME NEW k \in Key
    PROVE  ~ Before(k, k)
<1>1. ASSUME NEW n \in Nat, Differ(k, k, n) PROVE FALSE
  <2>1. Place(k, n) \in Nat /\ Place(k, n) < Place(k, n)
    BY <1>1, PlaceIs DEF Differ
  <2> QED
    BY <2>1
<1> QED
  BY <1>1, BeforeIs

\* The order is transitive.
LEMMA BeforeBefore ==
    ASSUME NEW i \in Key, NEW j \in Key, NEW k \in Key, Before(i, j), Before(j, k)
    PROVE  Before(i, k)
<1>0. Len(i) \in Nat /\ Len(j) \in Nat /\ Len(k) \in Nat
  BY KeyFacts
<1>1. PICK m \in Nat : Differ(i, j, m)
  BY BeforeIs
<1>2. PICK n \in Nat : Differ(j, k, n)
  BY BeforeIs
<1>3. CASE m < n
  <2>1. j[m] = k[m] /\ m < Len(j) /\ m < Len(k)
    BY <1>0, <1>1, <1>2, <1>3 DEF Differ
  <2>2. Place(j, m) = Place(k, m)
    BY <2>1 DEF Place
  <2>3. m \in 1 .. Len(k) /\ \A x \in 1 .. m - 1 : i[x] = k[x]
    BY <1>0, <1>1, <1>2, <1>3 DEF Differ
  <2>4. Differ(i, k, m)
    BY <1>1, <2>2, <2>3 DEF Differ
  <2> QED
    BY <2>4, BeforeIs
<1>4. CASE n < m
  <2>1. i[n] = j[n] /\ n < Len(i) /\ n < Len(j)
    BY <1>0, <1>1, <1>2, <1>4 DEF Differ
  <2>2. Place(i, n) = Place(j, n)
    BY <2>1 DEF Place
  <2>3. n \in 1 .. Len(i) /\ \A x \in 1 .. n - 1 : i[x] = k[x]
    BY <1>0, <1>1, <1>2, <1>4 DEF Differ
  <2>4. Differ(i, k, n)
    BY <1>2, <2>2, <2>3 DEF Differ
  <2> QED
    BY <2>4, BeforeIs
<1>5. CASE m = n
  <2>1. Place(i, m) \in Nat /\ Place(j, m) \in Nat /\ Place(k, m) \in Nat
    BY <1>1, <1>2, <1>5, PlaceIs DEF Differ
  <2>2. Place(i, m) < Place(j, m) /\ Place(j, m) < Place(k, m)
    BY <1>1, <1>2, <1>5 DEF Differ
  <2>3. Place(i, m) < Place(k, m)
    BY <2>1, <2>2
  <2>4. \A x \in 1 .. m - 1 : i[x] = k[x]
    BY <1>1, <1>2, <1>5 DEF Differ
  <2>5. Differ(i, k, m)
    BY <1>1, <1>2, <1>5, <2>3, <2>4 DEF Differ
  <2> QED
    BY <2>5, BeforeIs
<1> QED
  BY <1>3, <1>4, <1>5

\* Of finitely many keys one is the first.
LEMMA FirstExists ==
    ASSUME NEW S \in SUBSET Key, IsFiniteSet(S), S # {}
    PROVE  \E m \in S : IsFirst(m, S)
<1> DEFINE Earlier(k) == {j \in S : Before(j, k)}
           Rank(k) == Cardinality(Earlier(k))
           Ranks == {Rank(k) : k \in S}
<1>1. \A k \in S : Earlier(k) \in SUBSET S
  OBVIOUS
<1>2. \A k \in S : IsFiniteSet(Earlier(k)) /\ Rank(k) \in Nat
  BY <1>1, FS_Subset, FS_CardinalityType
<1>3. Ranks \subseteq Nat /\ Ranks # {}
  BY <1>2
<1>4. PICK r \in Ranks : \A x \in Ranks : r <= x
  BY <1>3, MinExists
<1>5. PICK m \in S : r = Rank(m)
  BY <1>4
<1>6. ASSUME NEW j \in S, Before(j, m) PROVE FALSE
  <2>1. Earlier(j) \in SUBSET Earlier(m)
    BY <1>6, BeforeBefore
  <2>2. j \in Earlier(m) /\ j \notin Earlier(j)
    BY <1>6, NotBeforeItself
  <2>3. Rank(j) <= Rank(m) /\ Rank(j) # Rank(m)
    BY <1>2, <2>1, <2>2, FS_Subset
  <2>4. Rank(m) <= Rank(j) /\ Rank(j) \in Nat /\ Rank(m) \in Nat
    BY <1>2, <1>4, <1>5
  <2> HIDE DEF Rank
  <2> QED
    BY <2>3, <2>4
<1> QED
  BY <1>6 DEF IsFirst

\* The first of the keys that have the prefix is on every page.
LEMMA FirstIsListed ==
    ASSUME NEW keys \in SUBSET Key, NEW p \in Key, NEW page \in Nat \ {0},
           NEW m, IsFirst(m, {k \in keys : HasPrefix(k, p)})
    PROVE  m \in Listing(keys, p, page)
<1>1. {j \in {k \in keys : HasPrefix(k, p)} : Before(j, m)} = {}
  BY DEF IsFirst
<1>2. Cardinality({j \in {k \in keys : HasPrefix(k, p)} : Before(j, m)}) < page
  BY <1>1, FS_EmptySet
<1> QED
  BY <1>2 DEF Listing, IsFirst

\* So a listing of finitely many keys is empty only if none has the prefix,
\* however many keys a page takes.
LEMMA EmptyListing ==
    ASSUME NEW keys \in SUBSET Key, IsFiniteSet(keys), NEW p \in Key, NEW page \in Nat \ {0},
           QueryObjects(keys, p, FALSE, page) = {}
    PROVE  \A k \in keys : ~ HasPrefix(k, p)
<1> DEFINE all == {k \in keys : HasPrefix(k, p)}
<1>1. SUFFICES ASSUME all # {} PROVE FALSE
  OBVIOUS
<1>2. IsFiniteSet(all) /\ all \in SUBSET Key
  BY FS_Subset
<1>3. PICK m \in all : IsFirst(m, all)
  BY <1>1, <1>2, FirstExists
<1>4. m \in Listing(keys, p, page)
  BY <1>3, FirstIsListed
<1> QED
  BY <1>4 DEF QueryObjects

\* A page that takes all keys with the prefix leaves none of them out.
LEMMA FullListing ==
    ASSUME NEW keys \in SUBSET Key, IsFiniteSet(keys), NEW p \in Key, NEW page \in Nat,
           Cardinality({k \in keys : HasPrefix(k, p)}) <= page
    PROVE  Listing(keys, p, page) = {k \in keys : HasPrefix(k, p)}
<1> DEFINE all == {k \in keys : HasPrefix(k, p)}
<1>1. IsFiniteSet(all) /\ Cardinality(all) \in Nat
  BY FS_Subset, FS_CardinalityType
<1>2. ASSUME NEW m \in all PROVE Cardinality({j \in all : Before(j, m)}) < page
  <2> DEFINE earlier == {j \in all : Before(j, m)}
  <2>1. earlier \in SUBSET all /\ m \notin earlier
    BY NotBeforeItself
  <2>2. Cardinality(earlier) \in Nat
    BY <1>1, <2>1, FS_Subset, FS_CardinalityType
  <2>3. Cardinality(earlier) <= Cardinality(all) /\ Cardinality(earlier) # Cardinality(all)
    BY <1>1, <2>1, FS_Subset
  <2> HIDE DEF earlier, all
  <2>4. Cardinality(earlier) < page
    BY <1>1, <2>2, <2>3 DEF all
  <2> QED
    BY <2>4 DEF earlier
<1> QED
  BY <1>2 DEF Listing

-----------------------------------------------------------------------------
(* Queries.                                                                *)

\* query_objects answers with keys of the bucket that have the prefix.
LEMMA QueriedHasPrefix ==
    ASSUME NEW keys \in SUBSET Key, NEW key \in Key, NEW direct, NEW page,
           NEW k \in QueryObjects(keys, key, direct, page)
    PROVE  k \in keys /\ k \in Key /\ HasPrefix(k, key)
BY DEF QueryObjects, Listing

\* stat_key of a file or of a directory finds what is at or below the path.
LEMMA FoundIsCovered ==
    ASSUME NEW keys \in SUBSET Key, NEW p \in Key, NEW page,
           NEW key \in {FileKey(p), DirKey(p)}, NEW k \in StatKey(keys, key, page)
    PROVE  k \in Key /\ Covers(p, Trim(k))
<1>0. /\ Trim(p) \in Key /\ Bare(Trim(p)) /\ FileKey(p) = Trim(p) /\ key \in Key
      /\ k \in QueryObjects(keys, key, FALSE, page)
  BY TrimIsBare, FileAndDirectory DEF StatKey
<1>1. k \in Key /\ Trim(k) \in Key /\ HasPrefix(k, key)
  BY <1>0, QueriedHasPrefix, TrimIsBare
<1>2. CASE key = DirKey(p)
  BY <1>1, <1>2, ListedIsCovered
<1>3. CASE key = FileKey(p) /\ Trim(p) = EmptyKey
  BY <1>1, <1>3, CoversWhat DEF Under
<1>4. CASE key = FileKey(p) /\ Trim(p) # EmptyKey
  <2>1. Names(TrimEnd(k)) = Names(TrimEnd(Trim(p)))
    BY <1>0, <1>4 DEF StatKey, SamePath, S3Object, ToPath
  <2>2. TrimEnd(Trim(p)) = Trim(p)
    BY <1>0, BareIsTrimmed
  <2>3. Starts(k, Trim(p))
    BY <1>0, <1>1, <1>4, <2>1, <2>2, SameNamesStart
  <2>4. Trim(k) = Trim(p) \/ Under(Trim(p), Trim(k))
    BY <1>0, <1>1, <1>4, <2>3, TrimStarts
  <2> QED
    BY <1>1, <2>4, CoversWhat
<1> QED
  BY <1>2, <1>3, <1>4

\* A key comes before all others that have it as a prefix.
LEMMA PrefixIsFirst ==
    ASSUME NEW key \in Key, NEW j \in Key, HasPrefix(j, key), j # key
    PROVE  Before(key, j) /\ ~ Before(j, key)
<1> DEFINE n == Len(key)  x == key[n]  y == j[n]
<1>0. Len(key) \in Nat /\ n \in Nat /\ n > 0 /\ Len(j) \in Nat /\ n <= Len(j)
      /\ n \in 1 .. Len(key) /\ n \in 1 .. Len(j)
  BY KeyFacts DEF HasPrefix
<1>1. \A i \in 1 .. n - 1 : key[i] = j[i]
  BY <1>0, FrontsEqual DEF HasPrefix
<1>2. x \in {0, y} \/ <<x, y>> \in Extensions
  BY DEF HasPrefix, Last
<1>3. /\ x \in Token /\ y \in Token /\ Place(key, n) = Alone[x]
      /\ Place(j, n) = IF n < Len(j) THEN Slashed[y] ELSE Alone[y]
  <2>1. ~ (n < Len(key))
    BY <1>0
  <2> QED
    BY <1>0, <2>1, PlaceIs DEF Place
<1>4. x = y => n < Len(j)
  <2>1. SUFFICES ASSUME x = y, n = Len(j) PROVE FALSE
    BY <1>0
  <2>2. \A i \in 1 .. Len(key) : key[i] = j[i]
    BY <1>0, <1>1, <2>1
  <2> QED
    BY <2>1, <2>2, SameKey
<1> HIDE DEF n, x, y
<1>5. /\ Alone[x] \in Nat /\ Alone[y] \in Nat /\ Slashed[y] \in Nat /\ Alone[y] < Slashed[y]
      /\ x # y => Alone[x] < Alone[y]
  <2>1. x = 0 /\ y # 0 => y \in Name
    BY <1>3 DEF Token
  <2>2. <<x, y>> \in Extensions => Alone[x] < Alone[y]
    <3>1. \A e \in Extensions : Alone[e[1]] < Alone[e[2]]
      BY KeyAssumption
    <3> QED
      BY <3>1
  <2> QED
    BY <1>2, <1>3, <2>1, <2>2, KeyAssumption
<1>6. Place(key, n) < Place(j, n)
  BY <1>0, <1>3, <1>4, <1>5
<1>7. Differ(key, j, n)
  BY <1>0, <1>1, <1>6 DEF Differ
<1>8. Before(key, j)
  BY <1>0, <1>7, BeforeIs
<1> QED
  BY <1>8, BeforeBefore, NotBeforeItself

\* stat_key finds the object with exactly this key if there is one, however
\* many objects a listing leaves out: no key with the prefix comes before the
\* prefix itself, so the object is on the first page.
LEMMA StatSeesKey ==
    ASSUME NEW keys \in SUBSET Key, NEW key \in keys, NEW page \in Nat \ {0}
    PROVE  key \in StatKey(keys, key, page)
<1>1. key \in Key /\ Len(key) \in Nat /\ Len(key) <= Len(key)
  BY KeyFacts
<1>2. HasPrefix(key, key)
  BY <1>1, FrontsEqual DEF HasPrefix, Last
<1>3. {j \in {k \in keys : HasPrefix(k, key)} : Before(j, key)} = {}
  BY <1>1, PrefixIsFirst, NotBeforeItself
<1>4. Cardinality({j \in {k \in keys : HasPrefix(k, key)} : Before(j, key)}) < page
  BY <1>3, FS_EmptySet
<1> QED
  BY <1>2, <1>4 DEF StatKey, QueryObjects, Listing, SamePath, S3Object, ToPath

-----------------------------------------------------------------------------
(* Keys that are made again of their path and their kind.                  *)

\* With a slash at its end.
LEMMA WithSlash ==
    ASSUME NEW u \in Key, Bare(u), u # EmptyKey
    PROVE  /\ Trim(Append(u, 0)) = u /\ TrimEnd(Append(u, 0)) = u
           /\ Append(u, 0) \in Key /\ Append(u, 0) # u /\ Append(u, 0) # EmptyKey
           /\ EndsWithSlash(Append(u, 0)) /\ ~ EndsWithSlash(u)
           /\ Len(Append(u, 0)) = Len(u) + 1
<1> DEFINE k == Append(u, 0)
<1>0. /\ Len(u) \in Nat /\ Len(u) > 0 /\ u[1] # 0 /\ u[Len(u)] # 0
      /\ k \in Key /\ Len(k) = Len(u) + 1 /\ k[Len(u) + 1] = 0
      /\ \A i \in 1 .. Len(u) : k[i] = u[i]
  BY KeyFacts, Appended DEF Bare
<1>1. Named(k) # {} /\ Min(Named(k)) = 1 /\ Max(Named(k)) = Len(u)
  <2> HIDE DEF k
  <2>1. /\ 1 \in 1 .. Len(k) /\ Len(u) \in 1 .. Len(k) /\ k[1] # 0 /\ k[Len(u)] # 0
        /\ \A i \in 1 .. Len(k) : k[i] # 0 => 1 <= i /\ i <= Len(u)
    BY <1>0
  <2> QED
    BY <1>0, <2>1, EndsAre
<1>2. SubSeq(k, 1, Len(u)) = u
  <2> DEFINE s == SubSeq(k, 1, Len(u))
  <2> HIDE DEF k
  <2>0. 1 \in 1 .. Len(k) /\ Len(u) \in 1 .. Len(k)
    BY <1>0
  <2>1. s \in Key /\ Len(s) = Len(u) - 1 + 1 /\ \A i \in 1 .. Len(u) - 1 + 1 : s[i] = k[1 + i - 1]
    BY <1>0, <2>0, Piece
  <2> HIDE DEF s
  <2>2. Len(s) = Len(u) /\ \A i \in 1 .. Len(s) : s[i] = u[i]
    BY <1>0, <2>1
  <2>3. s = u
    BY <2>1, <2>2, SameKey
  <2> QED
    BY <2>3 DEF s
<1>3. Trim(k) = u /\ TrimEnd(k) = u
  BY <1>1, <1>2 DEF Trim, TrimEnd
<1>4. EndsWithSlash(k) /\ ~ EndsWithSlash(u) /\ k # u /\ k # EmptyKey
  BY <1>0, EmptyIsKey DEF EndsWithSlash, Last
<1> QED
  BY <1>0, <1>3, <1>4

\* The key that is made again is that of the path without slashes.
LEMMA AgainIs ==
    ASSUME NEW k \in Key
    PROVE  KeyAgain(k) = IF EndsWithSlash(k) THEN DirKey(k) ELSE FileKey(k)
BY TrimOfTrimEnd DEF KeyAgain, S3Object, ToPath, FromPath, DirKey, FileKey

\* A key leads back if it is that of a file or of a directory.
LEMMA BackIs ==
    ASSUME NEW k \in Key, LeadsBack(k)
    PROVE  /\ Trim(k) \in Key /\ Bare(Trim(k)) /\ Trim(k) # EmptyKey
           /\ TrimEnd(k) = Trim(k)
           /\ k \in {Trim(k), Append(Trim(k), 0)}
           /\ EndsWithSlash(k) <=> k = Append(Trim(k), 0)
           /\ EndsWithSlash(k) <=> k # Trim(k)
<1> DEFINE u == Trim(k)
<1>1. u \in Key /\ Bare(u) /\ k # EmptyKey
  BY TrimIsBare DEF LeadsBack
<1>2. k = IF EndsWithSlash(k) THEN DirKey(k) ELSE FileKey(k)
  BY AgainIs DEF LeadsBack
<1>3. u # EmptyKey
  BY <1>1, <1>2, FileAndDirectory
<1>4. k = IF EndsWithSlash(k) THEN Append(u, 0) ELSE u
  BY <1>2, <1>3, FileAndDirectory
<1>5. Append(u, 0) # u /\ TrimEnd(Append(u, 0)) = u /\ TrimEnd(u) = u
  BY <1>1, <1>3, WithSlash, BareIsTrimmed
<1> QED
  BY <1>1, <1>3, <1>4, <1>5

\* The keys of names without slashes around them lead back.
LEMMA BackAre ==
    ASSUME NEW u \in Key, Bare(u), u # EmptyKey
    PROVE  /\ LeadsBack(u) /\ Trim(u) = u /\ ~ EndsWithSlash(u)
           /\ LeadsBack(Append(u, 0)) /\ Trim(Append(u, 0)) = u /\ EndsWithSlash(Append(u, 0))
<1>1. /\ Trim(u) = u /\ ~ EndsWithSlash(u)
      /\ Append(u, 0) \in Key /\ Trim(Append(u, 0)) = u /\ EndsWithSlash(Append(u, 0))
      /\ Append(u, 0) # EmptyKey
  BY WithSlash, BareIsTrimmed
<1>2. KeyAgain(u) = u /\ KeyAgain(Append(u, 0)) = Append(u, 0)
  BY <1>1, AgainIs, FileAndDirectory
<1> QED
  BY <1>1, <1>2 DEF LeadsBack

\* So do the keys of the file and of the directory at a path, but for the root.
LEMMA PathsLeadBack ==
    ASSUME NEW p \in Key, Trim(p) # EmptyKey
    PROVE  /\ LeadsBack(FileKey(p)) /\ Trim(FileKey(p)) = Trim(p) /\ ~ EndsWithSlash(FileKey(p))
           /\ LeadsBack(DirKey(p)) /\ Trim(DirKey(p)) = Trim(p) /\ EndsWithSlash(DirKey(p))
           /\ FileKey(p) # DirKey(p)
<1>1. Trim(p) \in Key /\ Bare(Trim(p)) /\ FileKey(p) = Trim(p) /\ DirKey(p) = Append(Trim(p), 0)
  BY TrimIsBare, FileAndDirectory
<1> QED
  BY <1>1, BackAre

\* A key leads back exactly if it is the key of a file or of a directory at
\* some path that is not the root: keys and paths correspond (key.rs 10-60).
THEOREM KeysArePaths ==
    ASSUME NEW k \in Key
    PROVE  LeadsBack(k) <=> k # EmptyKey /\ \E p \in Key : k \in {FileKey(p), DirKey(p)}
<1>1. ASSUME LeadsBack(k) PROVE k # EmptyKey /\ k \in {FileKey(k), DirKey(k)}
  BY <1>1, BackIs, FileAndDirectory DEF LeadsBack
<1>2. ASSUME NEW p \in Key, k \in {FileKey(p), DirKey(p)}, k # EmptyKey PROVE LeadsBack(k)
  BY <1>2, PathsLeadBack, FileAndDirectory
<1> QED
  BY <1>1, <1>2

\* Two keys of one path and one kind are one key.
LEMMA SameBack ==
    ASSUME NEW j \in Key, NEW k \in Key, LeadsBack(j), LeadsBack(k),
           Trim(j) = Trim(k), EndsWithSlash(j) = EndsWithSlash(k)
    PROVE  j = k
BY BackIs

-----------------------------------------------------------------------------
(* Direct children.                                                        *)

\* How many names a path has, from the key of its directory.
LEMMA DepthIs ==
    ASSUME NEW p \in Key
    PROVE  /\ Depth(p) \in Nat /\ Len(DirKey(p)) = Depth(p) + 1
           /\ \A i \in 1 .. Depth(p) : DirKey(p)[i] = Trim(p)[i]
           /\ Depth(p) = 0 <=> Trim(p) = EmptyKey
           /\ Depth(p) > 0 => Len(Trim(p)) = Depth(p)
<1>0. Trim(p) \in Key /\ Len(Trim(p)) \in Nat /\ Len(Trim(p)) > 0
  BY TrimIsBare, KeyFacts
<1>1. CASE Trim(p) = EmptyKey
  <2>1. Depth(p) = 0 /\ DirKey(p) = EmptyKey
    BY <1>1, FileAndDirectory DEF Depth
  <2>2. 1 .. 0 = {}
    BY SMT
  <2> QED
    BY <1>1, <2>1, <2>2, EmptyIsKey
<1>2. CASE Trim(p) # EmptyKey
  <2>1. Depth(p) = Len(Trim(p)) /\ DirKey(p) = Append(Trim(p), 0)
    BY <1>2, FileAndDirectory DEF Depth
  <2> QED
    BY <1>0, <1>2, <2>1, Appended
<1> QED
  BY <1>1, <1>2

\* The keys of direct children are those that have one more name.
LEMMA ChildIs ==
    ASSUME NEW p \in Key, NEW k \in Key, LeadsBack(k)
    PROVE  IsDirectChild(k, DirKey(p))
               <=> /\ Len(Trim(k)) = Depth(p) + 1
                   /\ \A i \in 1 .. Depth(p) : Trim(k)[i] = Trim(p)[i]
<1> DEFINE u == Trim(k)  d == DirKey(p)  m == Len(d)  n == ObjectName(k)  c == Join(d, n)
<1>0. /\ u \in Key /\ u # EmptyKey /\ Len(u) \in Nat /\ Len(u) > 0 /\ u[Len(u)] # 0
      /\ k \in {u, Append(u, 0)} /\ u[Len(u)] \in Token
  BY BackIs, KeyFacts DEF Bare
<1>1. d \in Key /\ d \in Seq(Token) /\ m \in Nat /\ m > 0 /\ m = Depth(p) + 1
      /\ \A i \in 1 .. m - 1 : d[i] = Trim(p)[i]
  <2>1. d \in Key /\ d \in Seq(Token) /\ m \in Nat /\ m > 0
    BY FileAndDirectory, KeyFacts
  <2>2. Depth(p) \in Nat /\ m = Depth(p) + 1 /\ \A i \in 1 .. Depth(p) : d[i] = Trim(p)[i]
    BY DepthIs
  <2> QED
    BY <2>1, <2>2
<1>2. n = u[Len(u)]
  <2>1. CASE k = u
    BY <1>0, <2>1 DEF ObjectName, Last
  <2>2. CASE k = Append(u, 0)
    <3>1. Len(k) = Len(u) + 1 /\ k[Len(k)] = 0 /\ k[Len(u)] = u[Len(u)]
      BY <1>0, <2>2, Appended
    <3>2. Len(k) # 1 /\ Len(k) - 1 = Len(u)
      BY <1>0, <3>1
    <3> QED
      BY <3>1, <3>2 DEF ObjectName, Last
  <2> QED
    BY <1>0, <2>1, <2>2
<1> HIDE DEF u, d, n
<1>3. c \in Key /\ Len(c) = m /\ c[m] = n /\ \A i \in 1 .. m - 1 : c[i] = d[i]
  <2>1. n # 0 /\ n \in Token
    BY <1>0, <1>2
  <2>2. c = [d EXCEPT ![m] = n]
    BY <2>1 DEF Join
  <2>3. m \in 1 .. Len(d)
    BY <1>1
  <2>4. c \in Seq(Token) /\ Len(c) = Len(d) /\ \A i \in 1 .. Len(d) : c[i] = IF i = m THEN n ELSE d[i]
    BY <1>1, <2>1, <2>2, <2>3, ExceptSeq
  <2>5. c # <<>>
    BY <1>1, <2>4, EmptySeq
  <2> QED
    BY <1>1, <2>4, <2>5 DEF Key
<1> HIDE DEF c
<1>4. c = u <=> Len(u) = m /\ \A i \in 1 .. m - 1 : u[i] = d[i]
  <2>1. ASSUME Len(u) = m, \A i \in 1 .. m - 1 : u[i] = d[i] PROVE c = u
    <3>1. \A i \in 1 .. Len(u) : c[i] = u[i]
      BY <1>1, <1>2, <1>3, <2>1
    <3> QED
      BY <1>0, <1>3, <2>1, <3>1, SameKey
  <2> QED
    BY <1>3, <2>1
<1>5. /\ Bare(c) /\ c # EmptyKey
  <2>1. c[Len(c)] # 0
    BY <1>0, <1>2, <1>3
  <2>2. ASSUME Depth(p) > 0 PROVE d[1] # 0 /\ 1 \in 1 .. m - 1
    <3>1. Trim(p) # EmptyKey /\ Bare(Trim(p)) /\ Depth(p) \in Nat
      BY <2>2, DepthIs, TrimIsBare
    <3> QED
      BY <1>1, <2>2, <3>1 DEF Bare
  <2>3. c[1] # 0
    <3>1. Depth(p) \in Nat
      BY DepthIs
    <3>2. CASE Depth(p) > 0
      BY <1>3, <2>2, <3>2
    <3>3. CASE Depth(p) = 0
      BY <1>1, <1>3, <2>1, <3>3
    <3> QED
      BY <3>1, <3>2, <3>3
  <2> QED
    BY <2>1, <2>3, EmptyIsKey DEF Bare
<1>6. IsDirectChild(k, d) <=> k = c \/ k = Append(c, 0)
  BY DEF IsDirectChild, c, n
<1>7. Trim(c) = c /\ Trim(Append(c, 0)) = c /\ u = Trim(k)
  BY <1>3, <1>5, BackAre DEF u
<1>8. IsDirectChild(k, d) <=> c = u
  BY <1>0, <1>6, <1>7
<1>9. m - 1 = Depth(p)
  <2>1. Depth(p) \in Nat
    BY DepthIs
  <2> QED
    BY <1>1, <2>1
<1> QED
  BY <1>1, <1>4, <1>8, <1>9 DEF u, d

\* A direct child of a directory is below it.
LEMMA ChildIsBelow ==
    ASSUME NEW p \in Key, NEW k \in Key, LeadsBack(k), IsDirectChild(k, DirKey(p))
    PROVE  HasPrefix(k, DirKey(p)) /\ Depth(k) = Depth(p) + 1
<1> DEFINE u == Trim(k)  t == Trim(p)
<1>1. Depth(p) \in Nat /\ Len(u) = Depth(p) + 1 /\ \A i \in 1 .. Depth(p) : u[i] = t[i]
  BY ChildIs, DepthIs
<1>2. u \in Key /\ u # EmptyKey /\ k \in {u, Append(u, 0)} /\ Depth(k) = Len(u)
  BY BackIs DEF Depth
<1>3. Len(k) \in Nat /\ Len(u) <= Len(k) /\ \A i \in 1 .. Len(u) : k[i] = u[i]
  BY <1>1, <1>2, Appended
<1>4. CASE t = EmptyKey
  BY <1>1, <1>2, <1>4, PrefixIsUnder DEF Under
<1>5. CASE t # EmptyKey
  <2>1. Depth(p) = Len(t)
    BY <1>5 DEF Depth
  <2> HIDE DEF u, t
  <2>2. Starts(k, t) /\ Len(t) < Len(k)
    BY <1>1, <1>3, <2>1 DEF Starts
  <2> QED
    BY <1>1, <1>2, <2>2, PrefixIsUnder DEF Under, t
<1> QED
  BY <1>4, <1>5

\* The entries that a directory may have are its direct children.
LEMMA EntryIs ==
    ASSUME NEW p \in Key, NEW k \in EntriesOf(p)
    PROVE  k \in Key /\ LeadsBack(k) /\ IsDirectChild(k, DirKey(p)) /\ HasPrefix(k, DirKey(p))
<1> DEFINE t == Trim(p)  b == IF t = EmptyKey THEN <<>> ELSE t
<1>0. t \in Key /\ t \in Seq(Token) /\ Len(t) \in Nat /\ Len(t) > 0 /\ Bare(t)
  BY TrimIsBare, KeyFacts
<1>1. PICK n \in Name : k \in {b \o <<n>>, b \o <<n, 0>>}
  BY DEF EntriesOf
<1> DEFINE u == b \o <<n>>
<1>2. n \in Token /\ n # 0 /\ n \in Nat
  BY KeyAssumption DEF Token
<1>3. b \in Seq(Token) /\ Len(b) = Depth(p) /\ \A i \in 1 .. Depth(p) : b[i] = t[i]
  <2>1. Depth(p) = IF t = EmptyKey THEN 0 ELSE Len(t)
    BY DEF Depth
  <2>2. 1 .. 0 = {} /\ <<>> \in Seq(Token) /\ Len(<<>>) = 0
    BY SMT
  <2> QED
    BY <1>0, <2>1, <2>2
<1>4. Depth(p) \in Nat
  BY DepthIs
<1> HIDE DEF b
<1>5. u = Append(b, n) /\ b \o <<n, 0>> = Append(u, 0)
  BY <1>2, <1>3
<1>6. u \in Seq(Token) /\ Len(u) = Depth(p) + 1 /\ u[Depth(p) + 1] = n
      /\ \A i \in 1 .. Depth(p) : u[i] = t[i]
  BY <1>2, <1>3, <1>4, <1>5, AppendProperties
<1> HIDE DEF u
<1>7. u \in Key /\ Bare(u) /\ u # EmptyKey
  <2>1. u \in Key
    BY <1>4, <1>6, EmptySeq DEF Key
  <2>2. u[Len(u)] # 0
    BY <1>2, <1>6
  <2>3. u[1] # 0
    <3>1. CASE Depth(p) = 0
      BY <1>2, <1>6, <3>1
    <3>2. CASE Depth(p) > 0
      <4>1. t # EmptyKey /\ 1 \in 1 .. Depth(p)
        BY <1>4, <3>2, DepthIs
      <4> QED
        BY <1>0, <1>6, <4>1 DEF Bare
    <3> QED
      BY <1>4, <3>1, <3>2
  <2> QED
    BY <2>1, <2>2, <2>3, EmptyIsKey DEF Bare
<1>8. k \in Key /\ LeadsBack(k) /\ Trim(k) = u
  BY <1>1, <1>5, <1>7, BackAre, WithSlash DEF u
<1>9. IsDirectChild(k, DirKey(p))
  BY <1>6, <1>8, ChildIs
<1> QED
  BY <1>8, <1>9, ChildIsBelow

-----------------------------------------------------------------------------
(* What stat finds, and what a listing shows.                              *)

\* A key that begins with the names of t and has no others is t.
LEMMA NoMoreNames ==
    ASSUME NEW t \in Key, Bare(t), t # EmptyKey, NEW k \in Key,
           Starts(k, t), Names(TrimEnd(k)) = Names(t)
    PROVE  Trim(k) = t
<1> DEFINE n == Len(t)  b == Max(Named(k))  e == TrimEnd(k)
<1>0. /\ n \in Nat /\ n > 0 /\ t[1] # 0 /\ t[n] # 0
      /\ Len(k) \in Nat /\ n <= Len(k) /\ \A i \in 1 .. n : k[i] = t[i]
  BY KeyFacts DEF Bare, Starts
<1>1. Named(k) # {}
  BY <1>0 DEF Named
<1>2. Min(Named(k)) = 1 /\ b \in 1 .. Len(k) /\ n <= b /\ k[b] # 0
  BY <1>0, <1>1, Ends
<1>3. Trim(k) = SubSeq(k, 1, b) /\ e = SubSeq(k, 1, b)
  BY <1>1, <1>2 DEF Trim, TrimEnd
<1> HIDE DEF b, e, n
<1>4. e \in Key /\ Len(e) = b /\ \A i \in 1 .. b : e[i] = k[i]
  <2>1. 1 \in 1 .. Len(k) /\ b \in 1 .. Len(k)
    BY <1>2
  <2>2. e \in Key /\ Len(e) = b - 1 + 1 /\ \A i \in 1 .. b - 1 + 1 : e[i] = k[1 + i - 1]
    BY <1>3, <2>1, Piece
  <2> QED
    BY <1>0, <1>2, <2>2
<1> DEFINE S(i) == Named(t) \cap (1 .. i)  B == Named(e) \cap (1 .. b)
<1>5. CASE b # n
  <2>1. b \in Named(e)
    BY <1>0, <1>2, <1>4 DEF Named
  <2>2. <<Cardinality(B), e[b]>> \in Names(t)
    BY <2>1 DEF Names, e
  <2>3. PICK i \in Named(t) : <<Cardinality(B), e[b]>> = <<Cardinality(S(i)), t[i]>>
    BY <2>2 DEF Names
  <2>4. i \in 1 .. n /\ Cardinality(B) = Cardinality(S(i))
    BY <2>3 DEF Named, n
  <2>5. S(i) \in SUBSET B /\ b \in B /\ b \notin S(i)
    BY <1>0, <1>2, <1>4, <1>5, <2>1, <2>4 DEF Named, n
  <2>6. IsFiniteSet(B)
    <3>1. IsFiniteSet(1 .. b)
      BY <1>0, <1>2, FS_Interval
    <3>2. B \in SUBSET (1 .. b)
      OBVIOUS
    <3> QED
      BY <3>1, <3>2, FS_Subset
  <2> QED
    BY <2>4, <2>5, <2>6, FS_Subset
<1>6. CASE b = n
  <2>1. \A i \in 1 .. Len(e) : e[i] = t[i]
    BY <1>0, <1>4, <1>6
  <2>2. e = t
    BY <1>4, <1>6, <2>1, SameKey DEF n
  <2> QED
    BY <1>3, <2>2
<1> QED
  BY <1>5, <1>6

\* What stat_key finds of a file or a directory is at the path, and of the
\* kind that it looks for.
LEMMA FoundIsThere ==
    ASSUME NEW keys \in SUBSET Key, NEW p \in Key, Trim(p) # EmptyKey, NEW page,
           NEW key \in {FileKey(p), DirKey(p)}, NEW k \in StatKey(keys, key, page)
    PROVE  k \in keys /\ k \in Key /\ Trim(k) = Trim(p) /\ (EndsWithSlash(k) <=> key = DirKey(p))
<1> DEFINE t == Trim(p)
<1>0. /\ t \in Key /\ Bare(t) /\ FileKey(p) = t /\ DirKey(p) = Append(t, 0) /\ key \in Key
      /\ k \in QueryObjects(keys, key, FALSE, page)
  BY TrimIsBare, FileAndDirectory DEF StatKey
<1>1. k \in keys /\ k \in Key /\ HasPrefix(k, key)
  BY <1>0, QueriedHasPrefix
<1>2. TrimEnd(key) = t
  BY <1>0, WithSlash, BareIsTrimmed
<1>3. Names(TrimEnd(k)) = Names(t) /\ (EndsWithSlash(k) <=> EndsWithSlash(key))
  BY <1>2 DEF StatKey, SamePath, S3Object, ToPath, EndsWithSlash
<1>4. EndsWithSlash(key) <=> key = DirKey(p)
  BY PathsLeadBack
<1>5. Starts(k, t)
  <2>1. CASE key = DirKey(p)
    BY <1>1, <2>1, PrefixIsUnder DEF Under
  <2>2. CASE key = t
    BY <1>0, <1>1, <1>3, <2>2, SameNamesStart
  <2> QED
    BY <1>0, <2>1, <2>2
<1>6. Trim(k) = t
  BY <1>0, <1>1, <1>3, <1>5, NoMoreNames
<1> QED
  BY <1>1, <1>3, <1>4, <1>6

\* stat_key takes the first object it finds.  If there is one with exactly the
\* key asked for, it takes that one, whatever else is in the bucket and however
\* much a listing leaves out (client.rs 181-195).  Among keys of paths it finds
\* no other: without that, stat_key of "a/" finds "a//" if "a/" is not there.
THEOREM StatFindsKey ==
    ASSUME NEW keys \in SUBSET Key, NEW key \in Key, NEW page \in Nat \ {0}
    PROVE  /\ key \in keys =>
                  \A k : IsFirst(k, StatKey(keys, key, page)) <=> k = key
           /\ (\A k \in keys : LeadsBack(k)) /\ (key = EmptyKey \/ LeadsBack(key))
                  => StatKey(keys, key, page) = {key} \cap keys
<1> DEFINE S == StatKey(keys, key, page)
<1>1. \A k \in S : k \in keys /\ k \in Key /\ HasPrefix(k, key)
  BY QueriedHasPrefix DEF StatKey
<1>2. key \in keys => key \in S
  BY StatSeesKey
<1>3. ASSUME key \in keys, NEW k PROVE IsFirst(k, S) <=> k = key
  <2>1. IsFirst(key, S)
    BY <1>1, <1>2, <1>3, PrefixIsFirst, NotBeforeItself DEF IsFirst
  <2>2. IsFirst(k, S) => k = key
    BY <1>1, <1>2, <1>3, PrefixIsFirst DEF IsFirst
  <2> QED
    BY <2>1, <2>2
<1>4. ASSUME \A k \in keys : LeadsBack(k), key = EmptyKey \/ LeadsBack(key), NEW k \in S
      PROVE  k = key
  <2>1. k \in keys /\ k \in Key /\ LeadsBack(k)
    BY <1>1, <1>4
  <2>2. CASE LeadsBack(key)
    <3>1. Trim(key) # EmptyKey /\ key \in {FileKey(key), DirKey(key)}
          /\ (EndsWithSlash(key) <=> key = DirKey(key))
      BY <2>2, BackIs, FileAndDirectory
    <3>2. Trim(k) = Trim(key) /\ (EndsWithSlash(k) <=> key = DirKey(key))
      BY <3>1, FoundIsThere
    <3>3. EndsWithSlash(k) = EndsWithSlash(key)
      BY <3>1, <3>2 DEF EndsWithSlash
    <3> QED
      BY <2>1, <2>2, <3>2, <3>3, SameBack
  <2>3. CASE key = EmptyKey
    <3> DEFINE u == Trim(k)
    <3>1. u \in Key /\ TrimEnd(k) = u /\ 1 \in Named(u)
      <4>1. u \in Key /\ Bare(u) /\ u # EmptyKey /\ TrimEnd(k) = u
        BY <2>1, BackIs
      <4>2. u[1] # 0 /\ 1 \in 1 .. Len(u)
        BY <4>1, KeyFacts DEF Bare
      <4> QED
        BY <4>1, <4>2 DEF Named
    <3>2. Names(u) # {}
      BY <3>1 DEF Names
    <3>3. TrimEnd(key) = EmptyKey /\ Names(EmptyKey) = {}
      <4>1. Named(EmptyKey) = {}
        BY EmptyIsKey DEF Named
      <4> QED
        BY <2>3, <4>1 DEF TrimEnd, Names
    <3>4. Names(TrimEnd(k)) = Names(TrimEnd(key))
      BY DEF StatKey, SamePath, S3Object, ToPath
    <3> QED
      BY <3>1, <3>2, <3>3, <3>4
  <2> QED
    BY <1>4, <2>2, <2>3
<1> QED
  BY <1>1, <1>2, <1>3, <1>4

\* A page that takes all keys below a directory shows its direct children.
LEMMA ListedAreChildren ==
    ASSUME NEW keys \in SUBSET Key, IsFiniteSet(keys), \A k \in keys : LeadsBack(k),
           NEW p \in Key, NEW page \in Nat,
           Cardinality({k \in keys : HasPrefix(k, DirKey(p))}) <= page
    PROVE  QueryObjects(keys, DirKey(p), TRUE, page) =
               {k \in keys : /\ Depth(k) = Depth(p) + 1
                             /\ Depth(p) > 0 => IsPrefix(Trim(p), Trim(k))}
<1>1. Listing(keys, DirKey(p), page) = {k \in keys : HasPrefix(k, DirKey(p))}
  BY FileAndDirectory, FullListing
<1>2. ASSUME NEW k \in keys
      PROVE  IsDirectChild(k, DirKey(p))
                 <=> /\ Depth(k) = Depth(p) + 1
                     /\ Depth(p) > 0 => IsPrefix(Trim(p), Trim(k))
  <2> DEFINE u == Trim(k)  t == Trim(p)
  <2>1. u \in Key /\ u # EmptyKey /\ t \in Key /\ Len(u) \in Nat /\ Len(t) \in Nat
        /\ Depth(k) = Len(u) /\ Depth(p) \in Nat
    BY BackIs, TrimIsBare, KeyFacts, DepthIs DEF Depth
  <2>2. IsDirectChild(k, DirKey(p))
            <=> Len(u) = Depth(p) + 1 /\ \A i \in 1 .. Depth(p) : u[i] = t[i]
    BY ChildIs
  <2>3. CASE Depth(p) = 0
    <3>1. 1 .. 0 = {}
      BY SMT
    <3> QED
      BY <2>1, <2>2, <2>3, <3>1
  <2>4. CASE Depth(p) > 0
    <3>1. Len(t) = Depth(p) /\ SubSeq(t, 1, Len(t)) = t
      BY <2>1, <2>4, DepthIs, KeyFacts, SubSeqFull
    <3> HIDE DEF u, t
    <3>2. ASSUME Len(u) = Depth(p) + 1
          PROVE  IsPrefix(t, u) <=> \A i \in 1 .. Depth(p) : u[i] = t[i]
      <4>1. Len(t) <= Len(t) /\ Len(t) <= Len(u)
        BY <2>1, <3>1, <3>2
      <4>2. SubSeq(t, 1, Len(t)) = SubSeq(u, 1, Len(t)) <=> \A i \in 1 .. Len(t) : t[i] = u[i]
        BY <2>1, <4>1, PiecesEqual
      <4> QED
        BY <3>1, <4>1, <4>2 DEF IsPrefix
    <3> QED
      BY <2>1, <2>2, <2>4, <3>2 DEF u, t
  <2> QED
    BY <2>1, <2>3, <2>4
<1>3. \A k \in keys : IsDirectChild(k, DirKey(p)) => HasPrefix(k, DirKey(p))
  BY ChildIsBelow
<1> QED
  BY <1>1, <1>2, <1>3 DEF QueryObjects

-----------------------------------------------------------------------------
(* Directories of a bucket that is used as a file system.                  *)

\* The keys of paths are their names, and maybe a slash.
LEMMA NamesOf ==
    ASSUME NEW k \in Key, LeadsBack(k)
    PROVE  /\ Trim(k) \in Key /\ Len(Trim(k)) \in Nat /\ Len(Trim(k)) > 0 /\ Len(k) \in Nat
           /\ Len(k) = IF k = Trim(k) THEN Len(Trim(k)) ELSE Len(Trim(k)) + 1
           /\ \A i \in 1 .. Len(Trim(k)) : k[i] = Trim(k)[i]
           /\ k # Trim(k) => k[Len(k)] = 0
<1> DEFINE u == Trim(k)
<1>1. u \in Key /\ k \in {u, Append(u, 0)}
  BY BackIs
<1> HIDE DEF u
<1>2. Len(u) \in Nat /\ Len(u) > 0
  BY <1>1, KeyFacts
<1>3. CASE k = u
  BY <1>1, <1>2, <1>3 DEF u
<1>4. CASE k = Append(u, 0) /\ k # u
  <2>1. Len(k) = Len(u) + 1 /\ k[Len(u) + 1] = 0 /\ \A i \in 1 .. Len(u) : k[i] = u[i]
    BY <1>1, <1>4, Appended
  <2> QED
    BY <1>1, <1>2, <1>4, <2>1 DEF u
<1> QED
  BY <1>1, <1>3, <1>4

\* The markers of the directories that an object is in.
LEMMA AboveIs ==
    ASSUME NEW k \in Key, LeadsBack(k), Plain(k), NEW i \in 1 .. Len(Trim(k)) - 1
    PROVE  LET a == DirKey(SubSeq(k, 1, i)) IN
           /\ a \in Key /\ Len(a) = i + 1 /\ a[i + 1] = 0
           /\ \A j \in 1 .. i : a[j] = Trim(k)[j]
           /\ a # k /\ HasPrefix(k, a) /\ EndsWithSlash(a)
<1> DEFINE u == Trim(k)  s == SubSeq(k, 1, i)  a == DirKey(s)
<1>1. /\ u \in Key /\ Len(u) \in Nat /\ i \in Nat /\ i > 0 /\ i < Len(u) /\ Len(u) <= Len(k) /\ Len(k) \in Nat
      /\ \A j \in 1 .. Len(u) : k[j] = u[j]
  BY NamesOf
<1>2. \A j \in 1 .. Len(u) : u[j] # 0
  BY BackIs DEF Plain
<1> HIDE DEF u
<1>3. s \in Key /\ Len(s) = i /\ \A j \in 1 .. i : s[j] = k[j]
  <2>1. 1 \in 1 .. Len(k) /\ i \in 1 .. Len(k)
    BY <1>1
  <2> QED
    BY <1>1, <2>1, Piece
<1> HIDE DEF s
<1>4. \A j \in 1 .. i : s[j] = u[j] /\ s[j] # 0
  BY <1>1, <1>2, <1>3
<1>5. Bare(s) /\ s # EmptyKey
  <2>1. s[1] # 0 /\ s[Len(s)] # 0
    BY <1>1, <1>3, <1>4
  <2> QED
    BY <2>1 DEF Bare, EmptyKey
<1>6. Trim(s) = s
  BY <1>3, <1>5, BareIsTrimmed
<1>7. a = Append(s, 0)
  BY <1>3, <1>5, <1>6, FileAndDirectory
<1>8. a \in Key /\ Len(a) = i + 1 /\ a[i + 1] = 0 /\ \A j \in 1 .. i : a[j] = s[j]
  BY <1>3, <1>7, Appended
<1>9. Starts(k, s) /\ Len(s) < Len(k)
  BY <1>1, <1>3 DEF Starts
<1>10. HasPrefix(k, a)
  BY <1>3, <1>6, <1>9, PrefixIsUnder DEF Under
<1>11. k[i + 1] # 0
  BY <1>1, <1>2
<1>12. EndsWithSlash(a)
  BY <1>3, <1>5, <1>6, PathsLeadBack
<1> QED
  BY <1>4, <1>8, <1>10, <1>11, <1>12 DEF s, u

\* What an object below a directory has of its path.
LEMMA BelowIs ==
    ASSUME NEW p \in Key, NEW k \in Key, LeadsBack(k), HasPrefix(k, DirKey(p)), k # DirKey(p)
    PROVE  /\ Len(Trim(k)) > Depth(p)
           /\ \A i \in 1 .. Depth(p) : Trim(k)[i] = Trim(p)[i]
<1> DEFINE u == Trim(k)  t == Trim(p)
<1>1. /\ u \in Key /\ Len(u) \in Nat /\ Len(u) > 0 /\ Len(k) \in Nat
      /\ Len(k) = IF k = u THEN Len(u) ELSE Len(u) + 1
      /\ \A i \in 1 .. Len(u) : k[i] = u[i]
      /\ k # u => k[Len(k)] = 0
  BY NamesOf
<1>2. CASE t = EmptyKey
  BY <1>1, <1>2 DEF Depth
<1>3. CASE t # EmptyKey
  <2>1. /\ t \in Key /\ Len(t) \in Nat /\ Depth(p) = Len(t)
        /\ DirKey(p) \in Key /\ DirKey(p) = Append(t, 0)
    BY <1>3, TrimIsBare, KeyFacts, FileAndDirectory DEF Depth
  <2>2. Len(t) < Len(k) /\ \A i \in 1 .. Len(t) : k[i] = t[i]
    BY <1>3, PrefixIsUnder DEF Under, Starts
  <2>3. ASSUME Len(u) <= Len(t) PROVE FALSE
    <3>1. k # u /\ Len(k) = Len(t) + 1 /\ k[Len(t) + 1] = 0
      BY <1>1, <2>1, <2>2, <2>3
    <3>2. Len(DirKey(p)) = Len(t) + 1 /\ DirKey(p)[Len(t) + 1] = 0
          /\ \A i \in 1 .. Len(t) : DirKey(p)[i] = t[i]
      BY <2>1, Appended
    <3> HIDE DEF u, t
    <3>3. \A i \in 1 .. Len(k) : k[i] = DirKey(p)[i]
      BY <2>1, <2>2, <3>1, <3>2
    <3> QED
      BY <2>1, <3>1, <3>2, <3>3, SameKey
  <2> HIDE DEF u, t
  <2>4. Len(u) > Len(t) /\ \A i \in 1 .. Len(t) : u[i] = t[i]
    BY <1>1, <2>1, <2>2, <2>3
  <2> QED
    BY <2>1, <2>4 DEF u, t
<1> QED
  BY <1>2, <1>3

\* An object below a directory is in it.
LEMMA BelowIsIn ==
    ASSUME NEW p \in Key, Trim(p) # EmptyKey, NEW k \in Key, LeadsBack(k), Plain(k),
           HasPrefix(k, DirKey(p)), k # DirKey(p)
    PROVE  DirKey(p) \in Above(k)
<1> DEFINE u == Trim(k)  t == Trim(p)  n == Len(t)  a == DirKey(SubSeq(k, 1, n))
<1>1. n \in Nat /\ n > 0 /\ t \in Key /\ Depth(p) = n
  BY TrimIsBare, KeyFacts DEF Depth
<1>2. Len(u) \in Nat /\ Len(u) > n /\ \A i \in 1 .. n : u[i] = t[i]
  BY <1>1, BelowIs, NamesOf
<1>3. n \in 1 .. Len(u) - 1
  BY <1>1, <1>2
<1>4. a \in Key /\ Len(a) = n + 1 /\ a[n + 1] = 0 /\ \A i \in 1 .. n : a[i] = u[i]
  BY <1>3, AboveIs
<1>5. DirKey(p) \in Key /\ Len(DirKey(p)) = n + 1 /\ DirKey(p)[n + 1] = 0
      /\ \A i \in 1 .. n : DirKey(p)[i] = t[i]
  BY <1>1, FileAndDirectory, Appended
<1>6. a \in Above(k)
  BY <1>3 DEF Above
<1> HIDE DEF a, n, u
<1>7. \A i \in 1 .. Len(a) : a[i] = DirKey(p)[i]
  BY <1>1, <1>2, <1>4, <1>5
<1> QED
  BY <1>4, <1>5, <1>6, <1>7, SameKey

\* In a tree, a directory without children is empty: the first key below it
\* would be that of a child, as the marker of a directory comes before what is
\* in the directory.
LEMMA NoChildrenNothingBelow ==
    ASSUME NEW keys \in SUBSET Key, IsTree(keys), NEW p \in Key, NEW page \in Nat, page > 1,
           QueryObjects(keys, DirKey(p), TRUE, page) = {}
    PROVE  \A k \in keys : HasPrefix(k, DirKey(p)) => k = DirKey(p)
<1> DEFINE d == DirKey(p)  n == Depth(p)  t == Trim(p)
           all == {k \in keys : HasPrefix(k, d)}  below == all \ {d}
<1>1. /\ d \in Key /\ n \in Nat /\ Len(d) = n + 1 /\ (n = 0 <=> t = EmptyKey) /\ (n > 0 => Len(t) = n)
      /\ t \in Key
  BY DepthIs, FileAndDirectory, TrimIsBare
<1>2. IsFiniteSet(below) /\ below \in SUBSET Key
  BY FS_Subset DEF IsTree
<1> SUFFICES ASSUME below # {} PROVE FALSE
  OBVIOUS
<1>3. PICK m \in below : IsFirst(m, below)
  BY <1>2, FirstExists
<1> DEFINE u == Trim(m)
<1>4. m \in Key /\ m \in keys /\ HasPrefix(m, d) /\ m # d /\ LeadsBack(m) /\ Plain(m) /\ Above(m) \subseteq keys
  BY <1>3 DEF IsTree, IsMarked
<1>5. m \in Listing(keys, d, page)
  <2>1. {j \in all : Before(j, m)} \subseteq {d}
    BY <1>3 DEF IsFirst
  <2>2. IsFiniteSet({d}) /\ Cardinality({d}) = 1
    BY FS_Singleton
  <2>3. Cardinality({j \in all : Before(j, m)}) <= 1 /\ Cardinality({j \in all : Before(j, m)}) \in Nat
    BY <2>1, <2>2, FS_Subset, FS_CardinalityType
  <2>4. Cardinality({j \in all : Before(j, m)}) < page
    BY <2>3
  <2> QED
    BY <1>4, <2>4 DEF Listing
<1>6. ~ IsDirectChild(m, d)
  BY <1>5 DEF QueryObjects
<1>7. /\ Len(u) \in Nat /\ Len(u) <= Len(m) /\ Len(m) \in Nat
      /\ \A i \in 1 .. Len(u) : m[i] = u[i]
  BY <1>4, NamesOf
<1>8. Len(u) > n /\ \A i \in 1 .. n : u[i] = t[i]
  BY <1>4, BelowIs
<1>9. Len(u) # n + 1
  BY <1>4, <1>6, <1>8, ChildIs
<1>10. \A i \in 1 .. Len(u) : u[i] # 0 /\ u[i] \in Nat
  BY <1>4, BackIs, KeyFacts DEF Plain
<1> HIDE DEF all, below, n
<1>11. n + 1 \in 1 .. Len(u) - 1
  BY <1>1, <1>7, <1>8, <1>9
<1> DEFINE a == DirKey(SubSeq(m, 1, n + 1))
<1>12. a \in Key /\ Len(a) = n + 2 /\ a[n + 2] = 0 /\ \A i \in 1 .. n + 1 : a[i] = u[i]
  <2>1. a \in Key /\ Len(a) = (n + 1) + 1 /\ a[(n + 1) + 1] = 0 /\ \A i \in 1 .. n + 1 : a[i] = u[i]
    BY <1>4, <1>11, AboveIs
  <2>2. (n + 1) + 1 = n + 2
    BY <1>1
  <2> QED
    BY <2>1, <2>2
<1>13. a \in keys
  BY <1>4, <1>11 DEF Above
<1> HIDE DEF a, u
<1>14. HasPrefix(a, d)
  <2>1. CASE t = EmptyKey
    BY <1>12, <2>1, PrefixIsUnder DEF Under
  <2>2. CASE t # EmptyKey
    <3>1. Len(t) = n
      BY <1>1, <2>2
    <3>2. Starts(a, t) /\ Len(t) < Len(a)
      BY <1>1, <1>8, <1>12, <3>1 DEF Starts
    <3> QED
      BY <1>12, <3>2, PrefixIsUnder DEF Under
  <2> QED
    BY <2>1, <2>2
<1>15. a \in below
  BY <1>1, <1>12, <1>13, <1>14 DEF all, below
<1>16. Before(a, m)
  <2>1. n + 2 \in 1 .. Len(u) /\ n + 2 \in 1 .. Len(m)
    BY <1>1, <1>7, <1>11
  <2>2. Place(a, n + 2) < Place(m, n + 2)
    <3> DEFINE y == m[n + 2]
    <3>1. n + 2 \in 1 .. Len(a) /\ ~ (n + 2 < Len(a))
      BY <1>1, <1>12
    <3>2. y \in Name /\ y \in Token
      BY <1>4, <1>7, <1>10, <2>1, KeyFacts DEF Token
    <3>3. /\ Place(a, n + 2) = Alone[0]
          /\ Place(m, n + 2) = IF n + 2 < Len(m) THEN Slashed[y] ELSE Alone[y]
      BY <1>12, <3>1 DEF Place
    <3> HIDE DEF y
    <3>4. /\ Alone[0] \in Nat /\ Alone[y] \in Nat /\ Slashed[y] \in Nat
          /\ Alone[0] < Alone[y] /\ Alone[y] < Slashed[y]
      BY <3>2, KeyAssumption DEF Token
    <3> QED
      BY <3>3, <3>4
  <2>3. \A i \in 1 .. n + 1 : a[i] = m[i]
    BY <1>1, <1>7, <1>12, <2>1
  <2>4. Differ(a, m, n + 2)
    BY <1>1, <1>12, <2>1, <2>2, <2>3 DEF Differ
  <2> QED
    BY <1>1, <1>4, <1>12, <2>4, BeforeIs
<1> QED
  BY <1>3, <1>15, <1>16 DEF IsFirst
\* A directory of a tree that has no marker has nothing in it.
LEMMA NoMarkerNothingBelow ==
    ASSUME NEW keys \in SUBSET Key, IsTree(keys), NEW p \in Key, Trim(p) # EmptyKey, DirKey(p) \notin keys
    PROVE  \A k \in keys : ~ HasPrefix(k, DirKey(p))
BY BelowIsIn DEF IsTree, IsMarked

\* The file and the directory at one path have one path.
LEMMA OneName ==
    ASSUME NEW p \in Key
    PROVE  SamePath(FileKey(p), DirKey(p))
<1> DEFINE t == Trim(p)  d == Append(t, 0)
<1>1. t \in Key /\ d \in Key /\ Len(t) \in Nat /\ Len(d) = Len(t) + 1
      /\ (\A i \in 1 .. Len(t) : d[i] = t[i]) /\ d[Len(t) + 1] = 0
  BY TrimIsBare, KeyFacts, Appended
<1> HIDE DEF t, d
<1>2. Named(d) = Named(t)
  BY <1>1 DEF Named
<1>3. \A i \in Named(t) : d[i] = t[i]
  BY <1>1 DEF Named
<1>4. Names(d) = Names(t)
  BY <1>2, <1>3 DEF Names
<1>5. FileKey(p) = t /\ DirKey(p) \in {t, d}
  BY FileAndDirectory, TrimIsBare DEF t, d
<1> QED
  BY <1>4, <1>5 DEF SamePath

\* A tree has not both of them.
LEMMA NotBoth ==
    ASSUME NEW keys \in SUBSET Key, IsTree(keys), NEW p \in Key, Trim(p) # EmptyKey, FileKey(p) \in keys
    PROVE  DirKey(p) \notin keys
BY OneName, PathsLeadBack DEF IsTree, NoDoubles

\* What a tidy owner puts keeps the bucket a tree.
LEMMA PutKeepsTree ==
    ASSUME bucket \subseteq Key, IsTree(bucket), Tidy,
           NEW key \in Key, LeadsBack(key), Plain(key), MayPut(key)
    PROVE  IsTree(bucket \cup {key})
<1> DEFINE after == bucket \cup {key}
<1>1. /\ IsFiniteSet(bucket) /\ IsMarked(bucket) /\ NoDoubles(bucket)
      /\ \A k \in bucket : LeadsBack(k) /\ Plain(k)
  BY DEF IsTree
<1>2. Above(key) \subseteq bucket /\ \A k \in bucket : SamePath(k, key) => k = key
  BY DEF MayPut
<1>3. IsFiniteSet(after)
  BY <1>1, FS_AddElement
<1>4. IsMarked(after)
  BY <1>1, <1>2 DEF IsMarked
<1>5. \A k \in bucket : SamePath(key, k) => k = key
  BY <1>2 DEF SamePath
<1>6. NoDoubles(after)
  BY <1>1, <1>2, <1>5 DEF NoDoubles
<1> QED
  BY <1>1, <1>3, <1>4, <1>6 DEF IsTree

\* So does the deletion of what is not above anything else.
LEMMA DeletionKeepsTree ==
    ASSUME NEW keys \in SUBSET Key, IsTree(keys), NEW key, \A k \in keys : key \notin Above(k)
    PROVE  IsTree(keys \ {key})
<1>1. IsFiniteSet(keys \ {key})
  BY FS_Subset DEF IsTree
<1> QED
  BY <1>1 DEF IsTree, IsMarked, NoDoubles

\* A file is not above anything, and neither is a directory that is empty.
LEMMA FileIsNotAbove ==
    ASSUME NEW p \in Key, NEW k \in Key, LeadsBack(k), Plain(k)
    PROVE  FileKey(p) \notin Above(k)
<1>1. ~ EndsWithSlash(FileKey(p))
  <2>1. ~ EndsWithSlash(EmptyKey)
    BY EmptyIsKey DEF EndsWithSlash
  <2>2. FileKey(p) = EmptyKey \/ Trim(p) # EmptyKey
    BY FileAndDirectory
  <2> QED
    BY <2>1, <2>2, PathsLeadBack
<1> QED
  BY <1>1, AboveIs DEF Above

LEMMA EmptyIsNotAbove ==
    ASSUME NEW keys \in SUBSET Key, IsTree(keys), NEW d, \A k \in keys : HasPrefix(k, d) => k = d
    PROVE  \A k \in keys : d \notin Above(k)
<1> SUFFICES ASSUME NEW k \in keys, d \in Above(k) PROVE FALSE
  OBVIOUS
<1>1. k \in Key /\ LeadsBack(k) /\ Plain(k)
  BY DEF IsTree
<1>2. PICK i \in 1 .. Len(Trim(k)) - 1 : d = DirKey(SubSeq(k, 1, i))
  BY DEF Above
<1> QED
  BY <1>1, <1>2, AboveIs
=============================================================================
