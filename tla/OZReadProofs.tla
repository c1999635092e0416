---------------------------- MODULE OZReadProofs ----------------------------
(***************************************************************************)
(* What the read service answers, for any number of threads, any table and *)
(* any calls: the calls whose fseekos and freads succeed and nobody came   *)
(* between are answered rightly, but for documents with a NUL that a gets  *)
(* cuts, and of the others at least the presence is told rightly.          *)
(***************************************************************************)
EXTENDS OZRead, SequenceTheorems, FiniteSetTheorems, WellFoundedInduction, TLAPS

-----------------------------------------------------------------------------
(* Facts about the operators. *)

\* A non-empty set of numbers has a least element.
LEMMA Least ==
  ASSUME NEW T \in SUBSET Nat, T # {}
  PROVE  \E x \in T : \A y \in T : x <= y
<1> DEFINE R == OpToRel(<, Nat)
<1>1. \A x, y \in Nat : <<x, y>> \in R <=> x < y
  BY DEF OpToRel
<1>2. IsWellFoundedOn(R, Nat)
  BY NatLessThanWellFounded
<1> HIDE DEF R
<1>3. PICK x \in T : \A y \in T : ~(<<y, x>> \in R)
  BY <1>2, WFMin
<1>4. \A y \in T : x \in Nat /\ y \in Nat /\ ~(y < x)
  BY <1>1, <1>3
<1>5. QED
  BY <1>4

\* The bytes of a buffer up to its first NUL are a sequence of bytes without
\* one, and all the bytes if there is none.
LEMMA CStringType ==
  ASSUME NEW v \in Seq(Byte)
  PROVE  /\ CString(v) \in Seq(Byte)
         /\ \A j \in DOMAIN CString(v) : CString(v)[j] # Nul
         /\ (\A j \in DOMAIN v : v[j] # Nul) => CString(v) = v
<1> DEFINE T == {m \in Nat : m = Len(v) \/ (m < Len(v) /\ v[m + 1] = Nul)}
<1>1. Len(v) \in Nat /\ DOMAIN v = 1..Len(v)
  BY LenProperties
<1>2. T \in SUBSET Nat /\ T # {}
  BY <1>1
<1>3. \A m \in Nat : m \in T <=> m = Len(v) \/ (m < Len(v) /\ v[m + 1] = Nul)
  OBVIOUS
<1> HIDE DEF T
<1>4. PICK m \in Nat : m \in T /\ \A y \in T : m <= y
  BY <1>2, Least
<1>5. m = Len(v) \/ v[m + 1] = Nul
  BY <1>3, <1>4
<1>6. m \in 0..Len(v)
  <2>1. m = Len(v) \/ m < Len(v)
    BY <1>3, <1>4
  <2>2. CASE m = Len(v)
    BY <1>1, <2>2
  <2>3. CASE m < Len(v)
    BY <1>1, <2>3
  <2>4. QED
    BY <2>1, <2>2, <2>3
<1>7. ASSUME NEW l \in 0..Len(v)
      PROVE  /\ SubSeq(v, 1, l) \in Seq(Byte) /\ Len(SubSeq(v, 1, l)) = l
             /\ DOMAIN SubSeq(v, 1, l) = 1..l
             /\ \A j \in 1..l : SubSeq(v, 1, l)[j] = v[j]
  <2>1. l \in Nat /\ l <= Len(v) /\ \A j \in 1..l : v[j] \in Byte
    BY <1>1, ElementOfSeq
  <2>2. SubSeq(v, 1, l) \in Seq(Byte) /\ Len(SubSeq(v, 1, l)) = l
        /\ \A j \in 1..l : SubSeq(v, 1, l)[j] = v[j]
    BY <2>1, SubSeqProperties
  <2>3. QED
    BY <2>2, LenProperties
<1>8. \A j \in 1..m : v[j] # Nul
  <2>1. ASSUME NEW j \in 1..m, v[j] = Nul PROVE FALSE
    <3>1. j - 1 \in Nat /\ j - 1 < Len(v) /\ (j - 1) + 1 = j
      BY <1>1, <1>6
    <3>2. j - 1 \in T
      BY <1>3, <2>1, <3>1
    <3>3. m <= j - 1
      BY <1>4, <3>2
    <3>4. QED
      BY <3>3
  <2>2. QED
    BY <2>1
<1>9. \E p \in {SubSeq(v, 1, l) : l \in 0..Len(v)} :
        /\ \A j \in DOMAIN p : p[j] # Nul
        /\ Len(p) = Len(v) \/ v[Len(p) + 1] = Nul
  <2>1. \A j \in DOMAIN SubSeq(v, 1, m) : SubSeq(v, 1, m)[j] # Nul
    BY <1>6, <1>7, <1>8
  <2>2. Len(SubSeq(v, 1, m)) = Len(v) \/ v[Len(SubSeq(v, 1, m)) + 1] = Nul
    BY <1>5, <1>6, <1>7
  <2>3. QED
    BY <1>6, <2>1, <2>2
<1>10. v # Garbage
  BY FileAssumption
<1>11. /\ CString(v) \in {SubSeq(v, 1, l) : l \in 0..Len(v)}
       /\ \A j \in DOMAIN CString(v) : CString(v)[j] # Nul
       /\ Len(CString(v)) = Len(v) \/ v[Len(CString(v)) + 1] = Nul
  BY <1>9, <1>10 DEF CString
<1>12. PICK l \in 0..Len(v) : CString(v) = SubSeq(v, 1, l)
  BY <1>11
<1>13. ASSUME \A j \in DOMAIN v : v[j] # Nul
       PROVE  CString(v) = v
  <2>1. Len(CString(v)) = l
    BY <1>7, <1>12
  <2>2. l = Len(v)
    <3>1. l < Len(v) => l + 1 \in DOMAIN v
      BY <1>1
    <3>2. ~(l < Len(v))
      BY <1>1, <1>11, <1>13, <2>1, <3>1
    <3>3. Len(v) \in Nat
      BY <1>1
    <3>4. QED
      BY <3>2, <3>3
  <2>3. /\ SubSeq(v, 1, l) \in Seq(Byte) /\ Len(SubSeq(v, 1, l)) = Len(v)
        /\ \A j \in 1..Len(v) : SubSeq(v, 1, l)[j] = v[j]
    BY <1>7, <2>2
  <2> HIDE <2>2
  <2>4. SubSeq(v, 1, l) = v
    BY <2>3, SeqEqual
  <2>5. QED
    BY <1>12, <2>4
<1>14. QED
  BY <1>7, <1>11, <1>12, <1>13

LEMMA BufferCString == \A v \in Buffer : CString(v) \in Buffer
BY CStringType DEF Buffer, CString

LEMMA NothingIsNothing == None \in Seq(Byte) /\ CString(None) = None
<1>1. None \in Seq(Byte) /\ Len(None) = 0
  BY EmptySeq DEF None
<1>2. DOMAIN None = {}
  BY <1>1, LenProperties
<1>3. SubSeq(None, 1, 0) = None
  BY <1>1, SubSeqEmpty DEF None
<1>4. {SubSeq(None, 1, l) : l \in 0..Len(None)} = {None}
  <2>1. \A l : l \in 0..Len(None) <=> l = 0
    BY <1>1
  <2>2. QED
    BY <1>3, <2>1
<1>5. None # Garbage
  BY <1>1, FileAssumption
<1>6. QED
  BY <1>1, <1>2, <1>4, <1>5 DEF CString

LEMMA FileBytes ==
  ASSUME NEW i \in Nat, NEW l \in Nat, i + l <= Len(File)
  PROVE  SubSeq(File, i + 1, i + l) \in Seq(Byte) /\ Len(SubSeq(File, i + 1, i + l)) = l
<1>1. Len(File) \in Nat /\ \A j \in (i + 1)..(i + l) : File[j] \in Byte
  BY FileAssumption, ElementOfSeq, LenProperties
<1>2. QED
  BY <1>1, FileAssumption, SubSeqProperties

LEMMA FileLength == Len(File) \in Nat
BY FileAssumption, LenProperties

LEMMA FoundFinite ==
  ASSUME NEW ks \in Seq(Key)
  PROVE  /\ IsFiniteSet(FoundAt(ks)) /\ Cardinality(FoundAt(ks)) \in Nat
         /\ FoundAt(ks) \subseteq 1..Len(ks)
<1>1. FoundAt(ks) \subseteq 1..Len(ks) /\ Len(ks) \in Nat
  BY LenProperties DEF FoundAt
<1>2. IsFiniteSet(1..Len(ks))
  BY <1>1, FS_Interval
<1>3. QED
  BY <1>1, <1>2, FS_Subset, FS_CardinalityType

\* The sorted cookies are those of all the keys found.
LEMMA OrderComplete ==
  ASSUME NEW ks \in Seq(Key), NEW o \in ByOffset(ks)
  PROVE  /\ o \in Seq(FoundAt(ks)) /\ Len(o) = Cardinality(FoundAt(ks))
         /\ \A a, b \in DOMAIN o : a # b => o[a] # o[b]
         /\ \A j \in FoundAt(ks) : \E a \in DOMAIN o : o[a] = j
<1> DEFINE F == FoundAt(ks)
           m == Cardinality(F)
<1>1. m \in Nat /\ IsFiniteSet(F)
  BY FoundFinite
<1>2. o \in [1..m -> F] /\ \A a, b \in DOMAIN o : a < b => o[a] # o[b]
  BY DEF ByOffset
<1> HIDE DEF F, m
<1>3. \A a, b \in DOMAIN o : a # b => o[a] # o[b]
  BY <1>1, <1>2
<1>4. o \in Injection(1..m, F)
  BY <1>2, <1>3 DEF Injection, IsInjective
<1>5. Cardinality(1..m) = m
  BY <1>1, FS_Interval
<1>6. o \in Surjection(1..m, F)
  BY <1>1, <1>4, <1>5, FS_Injection DEF m
<1>7. \A j \in F : \E a \in DOMAIN o : o[a] = j
  BY <1>2, <1>6 DEF Surjection
<1>8. o \in Seq(F)
  BY <1>1, <1>2, SeqDef
<1>9. Len(o) = m
  BY <1>1, <1>2, <1>8, LenProperties
<1>10. QED
  BY <1>3, <1>7, <1>8, <1>9 DEF F, m

-----------------------------------------------------------------------------
(* Types. *)

Labels == {"idle", "lookup", "malloc", "seek", "read", "done"}

LEMMA ReadInit == Init => ReadInv
<1> SUFFICES ASSUME Init PROVE ReadInv
  OBVIOUS
<1>1. \A S : << >> \in Seq(S)
  BY EmptySeq
<1>2. TypeOK
  BY <1>1 DEF Init, TypeOK
<1>3. \A t \in Thread : CallRight(t)
  BY DEF Init, CallRight
<1>4. QED
  BY <1>2, <1>3 DEF ReadInv

LEMMA GotoType ==
  ASSUME TypeOK, NEW t \in Thread, NEW s, NEW u \in Labels, Goto(t, s, u)
  PROVE  pc' \in [Thread -> Labels] /\ pc'[t] = u
BY DEF TypeOK, Goto, Labels

LEMMA AnswerType ==
  ASSUME TypeOK, NEW t \in Thread, NEW s, NEW code \in {0, 1, 3, 4, 5}, NEW vs \in Seq(Buffer),
         Answer(t, s, code, vs)
  PROVE  /\ pc' \in [Thread -> Labels] /\ status' \in [Thread -> {0, 1, 3, 4, 5}]
         /\ reply' \in [Thread -> Seq(Buffer)]
BY GotoType DEF TypeOK, Answer, Labels

LEMMA CallType ==
  ASSUME TypeOK, NEW t \in Thread
  PROVE  /\ cookies[t] \in Seq(Cookie) /\ Len(cookies[t]) \in Nat
         /\ DOMAIN cookies[t] = 1..Len(cookies[t])
         /\ keys[t] \in Seq(Key) /\ Len(keys[t]) \in Nat /\ DOMAIN keys[t] = 1..Len(keys[t])
         /\ values[t] \in Seq(Buffer) /\ Len(values[t]) \in Nat
         /\ DOMAIN values[t] = 1..Len(values[t])
         /\ n[t] \in Nat \ {0}
BY LenProperties DEF TypeOK

\* The cookie a thread is at.
LEMMA CookieAt ==
  ASSUME TypeOK, NEW t \in Thread, n[t] <= Len(cookies[t])
  PROVE  /\ n[t] \in DOMAIN cookies[t] /\ cookies[t][n[t]] \in Cookie
         /\ cookies[t][n[t]].rec.offset \in Nat /\ cookies[t][n[t]].rec.length \in Nat \ {0}
<1>1. n[t] \in 1..Len(cookies[t]) /\ cookies[t] \in Seq(Cookie)
  BY CallType
<1>2. cookies[t][n[t]] \in Cookie
  BY <1>1, ElementOfSeq
<1>3. QED
  BY <1>1, <1>2, CallType DEF Cookie

LEMMA DisturbType ==
  ASSUME TypeOK, NEW t \in Thread, Disturb(t)
  PROVE  disturbed' \in [Thread -> BOOLEAN]
BY DEF TypeOK, Disturb

LEMMA RequestType == \A ks \in Requests : ks \in Seq(Key)
BY SeqDef, BoundAssumption DEF Requests

\* A sequence of buffers of which one is filled.
LEMMA FilledType ==
  ASSUME NEW vs \in Seq(Buffer), NEW j, NEW b \in Buffer
  PROVE  [vs EXCEPT ![j] = b] \in Seq(Buffer)
<1>1. vs \in [1..Len(vs) -> Buffer] /\ Len(vs) \in Nat
  BY LenProperties
<1>2. [vs EXCEPT ![j] = b] \in [1..Len(vs) -> Buffer]
  BY <1>1
<1>3. QED
  BY <1>1, <1>2, SeqDef

LEMMA TypeStep == ReadInv /\ [Next]_vars => TypeOK'
<1> SUFFICES ASSUME TypeOK, \A t \in Thread : CallRight(t), [Next]_vars PROVE TypeOK'
  BY DEF ReadInv
<1>1. \A S : << >> \in Seq(S)
  BY EmptySeq
<1>2. "lookup" \in Labels /\ "malloc" \in Labels /\ "seek" \in Labels /\ "read" \in Labels
      /\ "done" \in Labels
  BY DEF Labels
<1>3. CASE UNCHANGED vars
  BY <1>3 DEF TypeOK, vars
<1>4. ASSUME NEW t \in Thread, Call(t) PROVE TypeOK'
  <2>1. PICK o \in {"get", "gets"}, ks \in Requests :
          /\ op'   = [op EXCEPT ![t] = o]
          /\ keys' = [keys EXCEPT ![t] = ks]
          /\ values' = [values EXCEPT ![t] = [j \in DOMAIN ks |-> None]]
    BY <1>4 DEF Call
  <2>2. ks \in Seq(Key) /\ DOMAIN ks = 1..Len(ks) /\ Len(ks) \in Nat
    BY RequestType, LenProperties
  <2>3. [j \in DOMAIN ks |-> None] \in Seq(Buffer)
    <3>1. None \in Buffer
      BY <1>1 DEF None, Buffer
    <3>2. [j \in DOMAIN ks |-> None] \in [1..Len(ks) -> Buffer]
      BY <2>2, <3>1
    <3>3. QED
      BY <2>2, <3>2, SeqDef
  <2>4. op' \in [Thread -> {"get", "gets"}] /\ keys' \in [Thread -> Seq(Key)]
        /\ values' \in [Thread -> Seq(Buffer)]
    BY <2>1, <2>2, <2>3 DEF TypeOK
  <2>5. /\ pc' \in [Thread -> {"idle", "lookup", "malloc", "seek", "read", "done"}]
        /\ cookies' \in [Thread -> Seq(Cookie)]
        /\ n' \in [Thread -> Nat \ {0}] /\ status' \in [Thread -> {0, 1, 3, 4, 5}]
        /\ reply' \in [Thread -> Seq(Buffer)] /\ disturbed' \in [Thread -> BOOLEAN]
        /\ calls' \in Nat /\ pos' \in Nat
    BY <1>1, <1>4 DEF Call, TypeOK
  <2>6. QED
    BY <2>4, <2>5 DEF TypeOK
<1>5. ASSUME NEW t \in Thread, InitFail(t) \/ KeyNotFound(t) \/ MallocFail(t) PROVE TypeOK'
  <2>1. /\ pc' \in [Thread -> Labels] /\ status' \in [Thread -> {0, 1, 3, 4, 5}]
        /\ reply' \in [Thread -> Seq(Buffer)]
    BY <1>1, <1>5, AnswerType DEF InitFail, KeyNotFound, MallocFail
  <2>2. UNCHANGED <<pos, call, cookies, n, values, disturbed, calls>>
    BY <1>5 DEF InitFail, KeyNotFound, MallocFail
  <2>3. QED
    BY <2>1, <2>2 DEF TypeOK, Labels, call
<1>6. ASSUME NEW t \in Thread, Lookup(t) PROVE TypeOK'
  <2>1. PICK o \in ByOffset(keys[t]) :
          cookies' = [cookies EXCEPT ![t] =
            [a \in DOMAIN o |-> [rec |-> Recs[keys[t][o[a]]], index |-> o[a]]]]
    BY <1>6 DEF Lookup
  <2>2. o \in Seq(FoundAt(keys[t])) /\ FoundAt(keys[t]) \subseteq 1..Len(keys[t])
    BY CallType, OrderComplete, FoundFinite
  <2>3. Len(o) \in Nat /\ DOMAIN o = 1..Len(o)
    BY <2>2, LenProperties
  <2>4. \A a \in DOMAIN o : [rec |-> Recs[keys[t][o[a]]], index |-> o[a]] \in Cookie
    <3>1. \A a \in DOMAIN o : o[a] \in FoundAt(keys[t])
      BY <2>2, <2>3, ElementOfSeq
    <3>2. \A j \in FoundAt(keys[t]) : Recs[keys[t][j]] \in [offset : Nat, length : Nat \ {0}]
      BY TableAssumption DEF FoundAt
    <3>3. \A j \in FoundAt(keys[t]) : j \in Nat \ {0}
      BY <2>2, CallType
    <3>4. QED
      BY <3>1, <3>2, <3>3 DEF Cookie
  <2>5. [a \in DOMAIN o |-> [rec |-> Recs[keys[t][o[a]]], index |-> o[a]]] \in Seq(Cookie)
    BY <2>3, <2>4, SeqDef
  <2>6. cookies' \in [Thread -> Seq(Cookie)]
    BY <2>1, <2>5 DEF TypeOK
  <2>7. pc' \in [Thread -> Labels]
    BY <1>2, <1>6, GotoType DEF Lookup
  <2>8. QED
    BY <1>6, <2>6, <2>7 DEF Lookup, TypeOK, Labels, call
<1>7. ASSUME NEW t \in Thread, Malloc(t) PROVE TypeOK'
  <2>1. values[t] \in Seq(Buffer) /\ values[t] \in [1..Len(values[t]) -> Buffer]
        /\ Len(values[t]) \in Nat
    BY CallType, LenProperties
  <2>2. values'[t] \in [1..Len(values[t]) -> Buffer]
    BY <1>7, <2>1 DEF Malloc, TypeOK, Buffer
  <2>3. values'[t] \in Seq(Buffer)
    BY <2>1, <2>2, SeqDef
  <2>4. values' \in [Thread -> Seq(Buffer)]
    BY <1>7, <2>3 DEF Malloc, TypeOK
  <2>5. pc' \in [Thread -> Labels]
    BY <1>2, <1>7, GotoType DEF Malloc
  <2>6. QED
    BY <1>7, <2>4, <2>5 DEF Malloc, TypeOK, Labels, call
<1>8. ASSUME NEW t \in Thread, Seek(t) PROVE TypeOK'
  <2>1. pos' \in Nat
    BY <1>8, CookieAt DEF Seek
  <2>2. disturbed' \in [Thread -> BOOLEAN] /\ pc' \in [Thread -> Labels]
    BY <1>2, <1>8, DisturbType, GotoType DEF Seek
  <2>3. QED
    BY <1>8, <2>1, <2>2 DEF Seek, TypeOK, Labels, call
<1>9. ASSUME NEW t \in Thread, SeekFail(t) PROVE TypeOK'
  <2>1. disturbed' \in [Thread -> BOOLEAN] /\ UNCHANGED <<pos, call, cookies, values, calls>>
    BY <1>9 DEF SeekFail, TypeOK
  <2>2. CASE Answer(t, "seek", 4, << >>) /\ n' = n
    <3>1. /\ pc' \in [Thread -> Labels] /\ status' \in [Thread -> {0, 1, 3, 4, 5}]
          /\ reply' \in [Thread -> Seq(Buffer)]
      BY <1>1, <2>2, AnswerType
    <3>2. QED
      BY <2>1, <2>2, <3>1 DEF TypeOK, Labels, call
  <2>3. CASE n' = [n EXCEPT ![t] = @ + 1] /\ UNCHANGED <<pc, status, reply>>
    BY <2>1, <2>3 DEF TypeOK, call
  <2>4. QED
    BY <1>9, <2>2, <2>3 DEF SeekFail
<1>10. ASSUME NEW t \in Thread, Read(t) PROVE TypeOK'
  <2>1. n[t] <= Len(cookies[t])
    BY <1>10 DEF Read, Goto, CallRight
  <2> DEFINE r == cookies[t][n[t]].rec
             v == SubSeq(File, pos + 1, pos + r.length)
  <2>2. pos \in Nat /\ r.length \in Nat
    BY <2>1, CookieAt DEF TypeOK
  <2>3. pos + r.length <= Len(File) /\ pos' = pos + r.length
        /\ values' = [values EXCEPT ![t][cookies[t][n[t]].index] = v]
    BY <1>10 DEF Read
  <2>4. pos' \in Nat
    BY <2>2, <2>3
  <2>5. v \in Buffer
    BY <2>2, <2>3, FileBytes DEF Buffer
  <2> HIDE DEF r, v
  <2>6. values' \in [Thread -> Seq(Buffer)]
    <3>1. [values[t] EXCEPT ![cookies[t][n[t]].index] = v] \in Seq(Buffer)
      BY <2>5, FilledType, CallType
    <3>2. QED
      BY <2>3, <3>1 DEF TypeOK
  <2>7. disturbed' \in [Thread -> BOOLEAN] /\ pc' \in [Thread -> Labels]
    BY <1>2, <1>10, DisturbType, GotoType DEF Read
  <2>8. n' \in [Thread -> Nat \ {0}] /\ UNCHANGED <<call, cookies, status, reply, calls>>
    BY <1>10 DEF Read, TypeOK
  <2>9. QED
    BY <2>4, <2>6, <2>7, <2>8 DEF TypeOK, Labels, call
<1>11. ASSUME NEW t \in Thread, ReadShort(t) \/ ReadError(t) PROVE TypeOK'
  <2>1. pos' \in Nat
    <3>1. CASE ReadShort(t)
      BY <3>1, FileLength DEF ReadShort, TypeOK
    <3>2. CASE ReadError(t)
      <4>1. n[t] <= Len(cookies[t])
        BY <3>2 DEF ReadError, CallRight
      <4>2. cookies[t][n[t]].rec.length \in Nat \ {0}
        BY <4>1, CookieAt
      <4>3. pos \in Nat /\ pos' \in pos..(pos + cookies[t][n[t]].rec.length - 1)
        BY <3>2 DEF ReadError, TypeOK
      <4>4. QED
        BY <4>2, <4>3
    <3>3. QED
      BY <1>11, <3>1, <3>2
  <2>2. disturbed' \in [Thread -> BOOLEAN] /\ ReadFailed(t)
    <3>1. CASE ReadShort(t)
      BY <3>1, DisturbType DEF ReadShort
    <3>2. CASE ReadError(t)
      BY <3>2 DEF ReadError, TypeOK
    <3>3. QED
      BY <1>11, <3>1, <3>2
  <2>3. UNCHANGED <<call, cookies, calls>>
    BY <2>2 DEF ReadFailed
  <2>4. CASE Answer(t, "read", 4, << >>) /\ UNCHANGED <<n, values>>
    <3>1. /\ pc' \in [Thread -> Labels] /\ status' \in [Thread -> {0, 1, 3, 4, 5}]
          /\ reply' \in [Thread -> Seq(Buffer)]
      BY <1>1, <2>4, AnswerType
    <3>2. QED
      BY <2>1, <2>2, <2>3, <2>4, <3>1 DEF TypeOK, Labels, call
  <2>5. CASE /\ Goto(t, "read", "seek")
             /\ values' = [values EXCEPT ![t][cookies[t][n[t]].index] = None]
             /\ n' = [n EXCEPT ![t] = @ + 1]
             /\ UNCHANGED <<status, reply>>
    <3>1. None \in Buffer
      BY <1>1 DEF None, Buffer
    <3>2. [values[t] EXCEPT ![cookies[t][n[t]].index] = None] \in Seq(Buffer)
      BY <3>1, FilledType, CallType
    <3>3. values' \in [Thread -> Seq(Buffer)]
      BY <2>5, <3>2 DEF TypeOK
    <3>4. pc' \in [Thread -> Labels]
      BY <1>2, <2>5, GotoType
    <3>5. n' \in [Thread -> Nat \ {0}]
      BY <2>5 DEF TypeOK
    <3>6. QED
      BY <2>1, <2>2, <2>3, <2>5, <3>3, <3>4, <3>5 DEF TypeOK, Labels, call
  <2>6. QED
    BY <2>2, <2>4, <2>5 DEF ReadFailed
<1>12. ASSUME NEW t \in Thread, Finish(t) PROVE TypeOK'
  <2> DEFINE vs == [j \in DOMAIN values[t] |->
                      IF op[t] = "get" THEN values[t][j] ELSE CString(values[t][j])]
  <2>1. vs \in [1..Len(values[t]) -> Buffer]
    BY CallType, ElementOfSeq, BufferCString
  <2>2. Answer(t, "seek", 0, vs) /\ UNCHANGED <<pos, call, cookies, n, values, disturbed, calls>>
    BY <1>12 DEF Finish
  <2> HIDE DEF vs
  <2>3. vs \in Seq(Buffer)
    BY <2>1, CallType, SeqDef
  <2>4. /\ pc' \in [Thread -> Labels] /\ status' \in [Thread -> {0, 1, 3, 4, 5}]
        /\ reply' \in [Thread -> Seq(Buffer)]
    BY <2>2, <2>3, AnswerType
  <2>5. QED
    BY <2>2, <2>4 DEF TypeOK, Labels, call
<1>13. QED
  BY <1>3, <1>4, <1>5, <1>6, <1>7, <1>8, <1>9, <1>10, <1>11, <1>12 DEF Next, Work, Quiet

-----------------------------------------------------------------------------
(* The calls. *)

\* A call keeps what is right of it while other threads step, for they disturb
\* it when they move the FILE between its fseeko and its fread.
LEMMA LeftAlone ==
  ASSUME NEW u \in Thread, CallRight(u),
         pc'[u] = pc[u], op'[u] = op[u], keys'[u] = keys[u], cookies'[u] = cookies[u],
         n'[u] = n[u], values'[u] = values[u], status'[u] = status[u], reply'[u] = reply[u],
         disturbed[u] => disturbed'[u],
         pc[u] = "read" => pos' = pos \/ disturbed'[u]
  PROVE  CallRight(u)'
<1>1. SaysPresence(u)' = SaysPresence(u) /\ AnswerRightOrCut(u)' = AnswerRightOrCut(u)
  BY DEF SaysPresence, AnswerRightOrCut, FailsRightly, RightOrCut, Cut, Right, Whole, Document,
         CString
<1>2. CookiesRight(u)' = CookiesRight(u)
  BY DEF CookiesRight, FoundAt
<1>3. ReadRight(u) => ReadRight(u)'
  BY DEF ReadRight, Whole, Document
<1>4. QED
  BY <1>1, <1>2, <1>3 DEF CallRight

\* A thread that moves the FILE, and one that does not.
LEMMA OthersDisturbed ==
  ASSUME TypeOK, NEW t \in Thread, Disturb(t), NEW u \in Thread, u # t
  PROVE  (disturbed[u] => disturbed'[u]) /\ (pc[u] = "read" => disturbed'[u])
BY DEF TypeOK, Disturb

\* The place of a key found: its record, and for a get the only one.
LEMMA CookieRight ==
  ASSUME TypeOK, NEW t \in Thread, CookiesRight(t), NEW a \in DOMAIN cookies[t]
  PROVE  /\ cookies[t][a].index \in DOMAIN keys[t]
         /\ keys[t][cookies[t][a].index] \in DOMAIN Recs
         /\ cookies[t][a].rec = Recs[keys[t][cookies[t][a].index]]
         /\ op[t] = "get" => cookies[t][a].index = 1
BY DEF CookiesRight, FoundAt

LEMMA GetFinds ==
  ASSUME TypeOK, NEW t \in Thread, CookiesRight(t), op[t] = "get"
  PROVE  keys[t][1] \in DOMAIN Recs
BY DEF CookiesRight, FoundAt

LEMMA CallStarts ==
  ASSUME TypeOK, NEW t \in Thread, Call(t)
  PROVE  CallRight(t)'
<1>1. PICK o \in {"get", "gets"}, ks \in Requests :
        /\ o = "get" => Len(ks) = 1
        /\ op'   = [op EXCEPT ![t] = o]
        /\ keys' = [keys EXCEPT ![t] = ks]
        /\ values' = [values EXCEPT ![t] = [j \in DOMAIN ks |-> None]]
  BY DEF Call
<1>2. op'[t] = o /\ keys'[t] = ks /\ values'[t] = [j \in DOMAIN ks |-> None]
  BY <1>1 DEF TypeOK
<1>3. pc'[t] = "lookup" /\ cookies'[t] = << >> /\ n'[t] = 1
  BY DEF Call, TypeOK
<1>4. QED
  BY <1>1, <1>2, <1>3 DEF CallRight

LEMMA CallAnswers ==
  ASSUME TypeOK, NEW t \in Thread, CallRight(t),
         InitFail(t) \/ KeyNotFound(t) \/ MallocFail(t)
  PROVE  CallRight(t)'
<1>1. UNCHANGED <<op, keys, disturbed>>
  BY DEF InitFail, KeyNotFound, MallocFail, call
<1>2. pc'[t] = "done" /\ (op[t] = "get" => Len(keys[t]) = 1)
  BY DEF InitFail, KeyNotFound, MallocFail, Answer, Goto, TypeOK, CallRight
<1>3. /\ status'[t] \in {1, 3, 5}
      /\ op[t] = "get" => (status'[t] = 3 <=> keys[t][1] \notin DOMAIN Recs)
  <2>1. CASE InitFail(t)
    BY <2>1 DEF InitFail, Answer, TypeOK
  <2>2. CASE KeyNotFound(t)
    <3>1. FoundAt(keys[t]) = {} /\ status'[t] = 3 /\ Len(keys[t]) = 1
      BY <1>2, <2>2 DEF KeyNotFound, Answer, TypeOK
    <3>2. 1 \in DOMAIN keys[t]
      BY <3>1, CallType
    <3>3. QED
      BY <3>1, <3>2 DEF FoundAt
  <2>3. CASE MallocFail(t)
    <3>1. CookiesRight(t) /\ status'[t] \in {1, 5}
      BY <2>3 DEF MallocFail, Answer, Goto, TypeOK, CallRight
    <3>2. QED
      BY <3>1, GetFinds
  <2>4. QED
    BY <2>1, <2>2, <2>3
<1>4. SaysPresence(t)' /\ AnswerRightOrCut(t)'
  BY <1>1, <1>3 DEF SaysPresence, AnswerRightOrCut, FailsRightly
<1>5. QED
  BY <1>1, <1>2, <1>4 DEF CallRight

LEMMA LookupRight ==
  ASSUME TypeOK, NEW t \in Thread, CallRight(t), Lookup(t)
  PROVE  CallRight(t)'
<1>1. /\ pc[t] = "lookup" /\ pc'[t] = "malloc"
      /\ FoundAt(keys[t]) # {} \/ op[t] = "gets"
      /\ UNCHANGED <<op, keys, n, values>>
  BY DEF Lookup, Goto, TypeOK, call
<1>2. /\ op[t] = "get" => Len(keys[t]) = 1
      /\ DOMAIN values[t] = DOMAIN keys[t] /\ \A j \in DOMAIN keys[t] : values[t][j] = None
      /\ n[t] = 1
  BY <1>1 DEF CallRight
<1>3. PICK o \in ByOffset(keys[t]) :
        cookies'[t] = [a \in DOMAIN o |-> [rec |-> Recs[keys[t][o[a]]], index |-> o[a]]]
  BY DEF Lookup, TypeOK
<1>4. /\ o \in Seq(FoundAt(keys[t]))
      /\ \A a, b \in DOMAIN o : a # b => o[a] # o[b]
      /\ \A j \in FoundAt(keys[t]) : \E a \in DOMAIN o : o[a] = j
  BY CallType, OrderComplete
<1>5. Len(o) \in Nat /\ DOMAIN o = 1..Len(o) /\ \A a \in DOMAIN o : o[a] \in FoundAt(keys[t])
  BY <1>4, LenProperties
<1>6. DOMAIN cookies'[t] = DOMAIN o
      /\ \A a \in DOMAIN o : /\ cookies'[t][a].index = o[a]
                             /\ cookies'[t][a].rec = Recs[keys[t][o[a]]]
  BY <1>3
<1>7. op[t] = "get" => FoundAt(keys[t]) = {1}
  <2>1. FoundAt(keys[t]) \subseteq 1..Len(keys[t])
    BY CallType, FoundFinite
  <2>2. 1..1 = {1}
    OBVIOUS
  <2>3. op[t] = "get" => FoundAt(keys[t]) \subseteq {1} /\ FoundAt(keys[t]) # {}
    BY <1>1, <1>2, <2>1, <2>2
  <2>4. QED
    BY <2>3
<1>8. CookiesRight(t)'
  BY <1>1, <1>2, <1>4, <1>5, <1>6, <1>7, SMTT(30) DEF CookiesRight, FoundAt
<1>9. Len(cookies'[t]) \in Nat
  BY <1>5, <1>6
<1>10. ReadRight(t)'
  BY <1>1, <1>2 DEF ReadRight
<1>11. n'[t] = 1 /\ 1 <= Len(cookies'[t]) + 1
  BY <1>1, <1>2, <1>9
<1>12. QED
  BY <1>1, <1>2, <1>8, <1>10, <1>11 DEF CallRight

LEMMA MallocRight ==
  ASSUME TypeOK, NEW t \in Thread, CallRight(t), Malloc(t)
  PROVE  CallRight(t)'
<1>1. pc[t] = "malloc" /\ pc'[t] = "seek" /\ UNCHANGED <<op, keys, cookies, n>>
  BY DEF Malloc, Goto, TypeOK, call
<1>2. CookiesRight(t) /\ n[t] = 1 /\ n[t] <= Len(cookies[t]) + 1
      /\ (op[t] = "get" => Len(keys[t]) = 1)
  BY <1>1 DEF CallRight
<1>3. values'[t] = [j \in DOMAIN values[t] |->
        IF \E a \in DOMAIN cookies[t] : cookies[t][a].index = j THEN Garbage ELSE values[t][j]]
  BY DEF Malloc, TypeOK
<1>4. CookiesRight(t)'
  BY <1>1, <1>2, <1>3 DEF CookiesRight, FoundAt
<1>5. ReadRight(t)'
  BY <1>1, <1>2 DEF ReadRight
<1>6. QED
  BY <1>1, <1>2, <1>4, <1>5 DEF CallRight

LEMMA SeekRight ==
  ASSUME TypeOK, NEW t \in Thread, CallRight(t), Seek(t) \/ SeekFail(t)
  PROVE  CallRight(t)'
<1>1. pc[t] = "seek" /\ n[t] <= Len(cookies[t])
      /\ UNCHANGED <<op, keys, cookies, values>>
  BY DEF Seek, SeekFail, Answer, Goto, call
<1>2. CookiesRight(t) /\ ReadRight(t) /\ (op[t] = "get" => Len(keys[t]) = 1)
  BY <1>1 DEF CallRight
<1>3. CookiesRight(t)'
  BY <1>1, <1>2 DEF CookiesRight, FoundAt
<1>4. n[t] \in Nat \ {0} /\ Len(cookies[t]) \in Nat
  BY CallType
<1>5. CASE Seek(t)
  <2>1. n' = n /\ pc'[t] = "read" /\ pos' = cookies[t][n[t]].rec.offset
        /\ disturbed'[t] = disturbed[t]
    BY <1>5 DEF Seek, Goto, Disturb, TypeOK
  <2>2. ReadRight(t)'
    BY <1>1, <1>2, <2>1 DEF ReadRight, Whole, Document
  <2>3. QED
    BY <1>1, <1>2, <1>3, <1>4, <2>1, <2>2 DEF CallRight
<1>6. CASE SeekFail(t) /\ op[t] = "get"
  <2>1. pc'[t] = "done" /\ status'[t] = 4 /\ disturbed'[t] = TRUE
    BY <1>6 DEF SeekFail, Answer, Goto, TypeOK
  <2>2. keys[t][1] \in DOMAIN Recs
    BY <1>2, <1>6, GetFinds
  <2>3. SaysPresence(t)'
    BY <1>1, <2>1, <2>2 DEF SaysPresence
  <2>4. QED
    BY <1>1, <1>2, <2>1, <2>3 DEF CallRight
<1>7. CASE SeekFail(t) /\ op[t] = "gets"
  <2>1. n'[t] = n[t] + 1 /\ pc'[t] = "seek" /\ disturbed'[t] = TRUE
    BY <1>1, <1>7 DEF SeekFail, TypeOK
  <2>2. ReadRight(t)'
    BY <1>1, <1>7, <2>1 DEF ReadRight
  <2>3. n'[t] <= Len(cookies'[t]) + 1
    BY <1>1, <1>4, <2>1
  <2>4. QED
    BY <1>1, <1>3, <1>7, <2>1, <2>2, <2>3 DEF CallRight
<1>8. op[t] \in {"get", "gets"}
  BY DEF TypeOK
<1>9. QED
  BY <1>5, <1>6, <1>7, <1>8

\* One more buffer is filled, with what it should hold.
LEMMA Filled ==
  ASSUME TypeOK, NEW t \in Thread, CookiesRight(t), ReadRight(t), n[t] <= Len(cookies[t]),
         NEW v, values'[t] = [values[t] EXCEPT ![cookies[t][n[t]].index] = v],
         UNCHANGED <<op, keys, cookies>>, n'[t] = n[t] + 1, disturbed'[t] = disturbed[t],
         op[t] = "get" => Len(v) = cookies[t][n[t]].rec.length,
         LET k == keys[t][cookies[t][n[t]].index]
         IN  ~disturbed[t] => /\ v = IF Whole(k) THEN Document(k) ELSE None
                              /\ op[t] = "get" => Whole(k)
  PROVE  CookiesRight(t)' /\ ReadRight(t)' /\ n'[t] <= Len(cookies'[t]) + 1
<1>1. /\ n[t] \in Nat \ {0} /\ Len(cookies[t]) \in Nat
      /\ DOMAIN cookies[t] = 1..Len(cookies[t])
  BY CallType
<1>2. n[t] \in DOMAIN cookies[t]
  BY <1>1
<1>3. \A a \in DOMAIN cookies[t] : cookies[t][a].index \in DOMAIN values[t]
  BY DEF CookiesRight, FoundAt
<1>4. CookiesRight(t)'
  <2>1. DOMAIN values'[t] = DOMAIN values[t]
    OBVIOUS
  <2>2. \A j \in DOMAIN keys[t] \ FoundAt(keys[t]) : values'[t][j] = None
    BY <1>2 DEF CookiesRight
  <2>3. QED
    BY <2>1, <2>2 DEF CookiesRight, FoundAt
<1>5. ReadRight(t)'
  <2> SUFFICES ASSUME NEW a \in 1..n[t]
               PROVE  LET j == cookies[t][a].index
                          k == keys[t][j]
                      IN  /\ op[t] = "get" => Len(values'[t][j]) = Recs[k].length
                          /\ ~disturbed[t] =>
                               /\ values'[t][j] = IF Whole(k) THEN Document(k) ELSE None
                               /\ op[t] = "get" => Whole(k)
    <3>1. n'[t] - 1 = n[t]
      BY <1>1
    <3>2. QED
      BY <3>1 DEF ReadRight, Whole, Document
  <2>1. a \in DOMAIN cookies[t]
    BY <1>1
  <2>2. CASE a = n[t]
    <3>1. values'[t][cookies[t][a].index] = v
      BY <1>3, <2>1, <2>2
    <3>2. cookies[t][a].rec = Recs[keys[t][cookies[t][a].index]]
      BY <2>1 DEF CookiesRight
    <3>3. QED
      BY <2>2, <3>1, <3>2
  <2>3. CASE a # n[t]
    <3>1. a \in 1..(n[t] - 1)
      BY <1>1, <2>3
    <3>2. cookies[t][a].index # cookies[t][n[t]].index
      BY <1>2, <2>1, <2>3 DEF CookiesRight
    <3>3. values'[t][cookies[t][a].index] = values[t][cookies[t][a].index]
      BY <1>3, <2>1, <3>2
    <3>4. QED
      BY <3>1, <3>3 DEF ReadRight
  <2>4. QED
    BY <2>2, <2>3
<1>6. QED
  BY <1>1, <1>4, <1>5

LEMMA ReadStepRight ==
  ASSUME TypeOK, NEW t \in Thread, CallRight(t), Read(t) \/ ReadShort(t)
  PROVE  CallRight(t)'
<1> DEFINE c == cookies[t][n[t]]
           k == keys[t][c.index]
           v == SubSeq(File, pos + 1, pos + c.rec.length)
<1>1. pc[t] = "read" /\ UNCHANGED <<op, keys, cookies>> /\ disturbed'[t] = disturbed[t]
  BY DEF Read, ReadShort, ReadFailed, Goto, Disturb, TypeOK, call
<1>2. /\ CookiesRight(t) /\ ReadRight(t) /\ n[t] <= Len(cookies[t])
      /\ op[t] = "get" => Len(keys[t]) = 1
      /\ ~disturbed[t] => pos = c.rec.offset
  BY <1>1 DEF CallRight
<1>3. /\ pos \in Nat /\ c.rec.offset \in Nat /\ c.rec.length \in Nat
      /\ n[t] \in DOMAIN cookies[t]
  BY <1>2, CookieAt DEF TypeOK
<1>4. c.rec = Recs[k] /\ k \in DOMAIN Recs /\ (op[t] = "get" => c.index = 1)
  BY <1>2, <1>3, CookieRight
<1>5. CASE Read(t)
  <2>1. /\ pc'[t] = "seek" /\ n'[t] = n[t] + 1 /\ pos + c.rec.length <= Len(File)
        /\ values'[t] = [values[t] EXCEPT ![c.index] = v]
    BY <1>5 DEF Read, Goto, TypeOK
  <2>2. Len(v) = c.rec.length
    BY <1>3, <2>1, FileBytes
  <2>3. ~disturbed[t] => Whole(k) /\ v = Document(k)
    BY <1>2, <1>4, <2>1 DEF Whole, Document
  <2>4. CookiesRight(t)' /\ ReadRight(t)' /\ n'[t] <= Len(cookies'[t]) + 1
    BY <1>1, <1>2, <2>1, <2>2, <2>3, Filled
  <2>5. QED
    BY <1>1, <1>2, <2>1, <2>4 DEF CallRight
<1>6. CASE ReadShort(t)
  <2>1. ~disturbed[t] => ~Whole(k)
    <3>1. pos + c.rec.length > Len(File)
      BY <1>6 DEF ReadShort
    <3>2. Whole(k) => c.rec.offset + c.rec.length <= Len(File)
      BY <1>4 DEF Whole
    <3>3. QED
      BY <1>2, <1>3, <3>1, <3>2, FileLength
  <2>2. CASE op[t] = "get"
    <3>1. pc'[t] = "done" /\ status'[t] = 4
      BY <1>6, <2>2 DEF ReadShort, ReadFailed, Answer, Goto, TypeOK
    <3>2. SaysPresence(t)'
      <4>1. keys[t][1] \in DOMAIN Recs
        BY <1>2, <2>2, GetFinds
      <4>2. QED
        BY <1>1, <3>1, <4>1 DEF SaysPresence
    <3>3. ~disturbed[t] => AnswerRightOrCut(t)'
      <4>1. keys'[t][1] = k
        BY <1>1, <1>4, <2>2
      <4> HIDE DEF k
      <4>2. ~disturbed[t] => ~Whole(keys'[t][1])
        BY <2>1, <4>1
      <4>3. QED
        BY <3>1, <4>2 DEF AnswerRightOrCut, FailsRightly, Whole
    <3>4. QED
      BY <1>1, <1>2, <3>1, <3>2, <3>3 DEF CallRight
  <2>3. CASE op[t] = "gets"
    <3>1. /\ pc'[t] = "seek" /\ n'[t] = n[t] + 1
          /\ values'[t] = [values[t] EXCEPT ![c.index] = None]
      BY <1>6, <2>3 DEF ReadShort, ReadFailed, Goto, TypeOK
    <3>2. CookiesRight(t)' /\ ReadRight(t)' /\ n'[t] <= Len(cookies'[t]) + 1
      BY <1>1, <1>2, <2>1, <2>3, <3>1, Filled
    <3>3. QED
      BY <1>1, <1>2, <3>1, <3>2 DEF CallRight
  <2>4. QED
    BY <2>2, <2>3 DEF TypeOK
<1>7. QED
  BY <1>5, <1>6

\* A call whose fread fails is excepted from what is told of the values.
LEMMA ReadErrorRight ==
  ASSUME TypeOK, NEW t \in Thread, CallRight(t), ReadError(t)
  PROVE  CallRight(t)'
<1>1. /\ pc[t] = "read" /\ disturbed'[t] = TRUE /\ UNCHANGED <<op, keys, cookies>>
      /\ ReadFailed(t)
  BY DEF ReadError, ReadFailed, TypeOK, call
<1>2. /\ CookiesRight(t) /\ ReadRight(t) /\ n[t] <= Len(cookies[t])
      /\ op[t] = "get" => Len(keys[t]) = 1
  BY <1>1 DEF CallRight
<1>3. n[t] \in Nat \ {0} /\ Len(cookies[t]) \in Nat /\ op[t] \in {"get", "gets"}
  BY CallType DEF TypeOK
<1>4. CASE op[t] = "get"
  <2>1. pc'[t] = "done" /\ status'[t] = 4
    BY <1>1, <1>4 DEF ReadFailed, Answer, Goto, TypeOK
  <2>2. keys[t][1] \in DOMAIN Recs
    BY <1>2, <1>4, GetFinds
  <2>3. SaysPresence(t)'
    BY <1>1, <2>1, <2>2 DEF SaysPresence
  <2>4. QED
    BY <1>1, <1>2, <2>1, <2>3 DEF CallRight
<1>5. CASE op[t] = "gets"
  <2>1. /\ pc'[t] = "seek" /\ n'[t] = n[t] + 1
        /\ values'[t] = [values[t] EXCEPT ![cookies[t][n[t]].index] = None]
    BY <1>1, <1>5 DEF ReadFailed, Goto, TypeOK
  <2>2. CookiesRight(t)'
    <3>1. DOMAIN values'[t] = DOMAIN values[t]
      BY <2>1
    <3>2. \A j \in DOMAIN keys[t] \ FoundAt(keys[t]) : values'[t][j] = None
      <4>1. n[t] \in DOMAIN cookies[t]
        BY <1>2, <1>3, CallType
      <4>2. cookies[t][n[t]].index \in FoundAt(keys[t])
        BY <1>2, <4>1 DEF CookiesRight
      <4>3. QED
        BY <1>2, <2>1, <4>2 DEF CookiesRight
    <3>3. QED
      BY <1>1, <1>2, <3>1, <3>2 DEF CookiesRight, FoundAt
  <2>3. ReadRight(t)'
    BY <1>1, <1>5 DEF ReadRight
  <2>4. n'[t] <= Len(cookies'[t]) + 1
    BY <1>1, <1>2, <1>3, <2>1
  <2>5. QED
    BY <1>1, <1>5, <2>1, <2>2, <2>3, <2>4 DEF CallRight
<1>6. QED
  BY <1>3, <1>4, <1>5

LEMMA DocumentType ==
  ASSUME NEW k \in DOMAIN Recs, Whole(k)
  PROVE  Document(k) \in Seq(Byte)
BY TableAssumption, FileBytes DEF Whole, Document

\* What a whole value becomes on its way to the client.
LEMMA ValueAnswered ==
  ASSUME NEW k \in DOMAIN Recs, Whole(k), NEW o \in {"get", "gets"}
  PROVE  RightOrCut(o, k, IF o = "get" THEN Document(k) ELSE CString(Document(k)))
<1>1. /\ Document(k) \in Seq(Byte)
      /\ \A j \in DOMAIN CString(Document(k)) : CString(Document(k))[j] # Nul
      /\ (\A j \in DOMAIN Document(k) : Document(k)[j] # Nul)
           => CString(Document(k)) = Document(k)
  BY DocumentType, CStringType
<1>2. CASE o = "get"
  BY <1>2 DEF RightOrCut, Cut, Right
<1>3. CASE o = "gets" /\ \E j \in DOMAIN Document(k) : Document(k)[j] = Nul
  <2>1. CString(Document(k)) # Document(k)
    BY <1>1, <1>3
  <2>2. QED
    BY <1>3, <2>1 DEF RightOrCut, Cut, Right
<1>4. CASE o = "gets" /\ \A j \in DOMAIN Document(k) : Document(k)[j] # Nul
  BY <1>1, <1>4 DEF RightOrCut, Cut, Right
<1>5. QED
  BY <1>2, <1>3, <1>4

LEMMA FinishRight ==
  ASSUME TypeOK, NEW t \in Thread, CallRight(t), Finish(t)
  PROVE  CallRight(t)'
<1>1. /\ pc[t] = "seek" /\ pc'[t] = "done" /\ status'[t] = 0
      /\ UNCHANGED <<op, keys, disturbed>>
      /\ n[t] > Len(cookies[t])
      /\ reply'[t] = [j \in DOMAIN values[t] |->
                        IF op[t] = "get" THEN values[t][j] ELSE CString(values[t][j])]
  BY DEF Finish, Answer, Goto, TypeOK, call
<1>2. CookiesRight(t) /\ ReadRight(t) /\ n[t] <= Len(cookies[t]) + 1
      /\ (op[t] = "get" => Len(keys[t]) = 1)
  BY <1>1 DEF CallRight
<1>3. /\ DOMAIN cookies[t] = 1..(n[t] - 1)
      /\ DOMAIN values[t] = DOMAIN keys[t] /\ DOMAIN keys[t] = 1..Len(keys[t])
      /\ Len(keys[t]) \in Nat
  BY <1>1, <1>2, CallType DEF CookiesRight
<1>4. Len(reply'[t]) = Len(keys[t])
  BY <1>1, <1>3
\* The values of the keys found, and of the others.
<1>5. ASSUME NEW j \in FoundAt(keys[t])
      PROVE  /\ op[t] = "get" => Len(values[t][j]) = Recs[keys[t][j]].length
             /\ ~disturbed[t] =>
                  /\ values[t][j] = IF Whole(keys[t][j]) THEN Document(keys[t][j]) ELSE None
                  /\ op[t] = "get" => Whole(keys[t][j])
  <2>1. PICK a \in DOMAIN cookies[t] : cookies[t][a].index = j
    BY <1>2 DEF CookiesRight
  <2>2. QED
    BY <1>2, <1>3, <2>1 DEF ReadRight
<1>6. op[t] = "get" => DOMAIN keys[t] = FoundAt(keys[t]) /\ FoundAt(keys[t]) = {1}
  <2>1. 1..1 = {1}
    OBVIOUS
  <2>2. QED
    BY <1>2, <1>3, <2>1 DEF CookiesRight
<1>7. SaysPresence(t)'
  <2> SUFFICES ASSUME op[t] = "get"
               PROVE  /\ keys[t][1] \in DOMAIN Recs
                      /\ Len(reply'[t][1]) = Recs[keys[t][1]].length
    BY <1>1 DEF SaysPresence
  <2>1. 1 \in FoundAt(keys[t]) /\ reply'[t][1] = values[t][1]
    BY <1>1, <1>3, <1>6
  <2>2. QED
    BY <1>5, <2>1 DEF FoundAt
<1>8. ASSUME ~disturbed[t], NEW j \in DOMAIN keys[t]
      PROVE  RightOrCut(op[t], keys[t][j], reply'[t][j])
  <2>1. reply'[t][j] = IF op[t] = "get" THEN values[t][j] ELSE CString(values[t][j])
    BY <1>1, <1>3
  <2>2. CASE j \in FoundAt(keys[t]) /\ Whole(keys[t][j])
    <3>1. values[t][j] = Document(keys[t][j]) /\ keys[t][j] \in DOMAIN Recs
      BY <1>5, <1>8, <2>2 DEF FoundAt
    <3>2. op[t] \in {"get", "gets"}
      BY DEF TypeOK
    <3>3. QED
      BY <2>1, <2>2, <3>1, <3>2, ValueAnswered
  <2>3. CASE ~(j \in FoundAt(keys[t]) /\ Whole(keys[t][j]))
    <3>1. values[t][j] = None /\ op[t] = "gets"
      BY <1>2, <1>5, <1>6, <1>8, <2>3 DEF CookiesRight, TypeOK
    <3>2. ~(keys[t][j] \in DOMAIN Recs /\ Whole(keys[t][j]))
      BY <2>3 DEF FoundAt
    <3>3. QED
      BY <2>1, <3>1, <3>2, NothingIsNothing DEF RightOrCut, Cut, Right
  <2>4. QED
    BY <2>2, <2>3
<1>9. ~disturbed[t] => AnswerRightOrCut(t)'
  <2>1. ~disturbed[t] => \A j \in DOMAIN keys[t] : RightOrCut(op[t], keys[t][j], reply'[t][j])
    BY <1>8
  <2>2. ~disturbed[t] => \A j \in DOMAIN keys'[t] : RightOrCut(op'[t], keys'[t][j], reply'[t][j])
    BY <1>1, <2>1
  <2>3. status'[t] = 0 /\ Len(reply'[t]) = Len(keys'[t])
    BY <1>1, <1>4
  <2>4. FailsRightly(t)'
    BY <2>3 DEF FailsRightly
  <2>5. ASSUME NEW j
        PROVE  RightOrCut(op[t], keys[t][j], reply[t][j])'
               = RightOrCut(op'[t], keys'[t][j], reply'[t][j])
    BY DEF RightOrCut, Cut, Right, Whole, Document, CString
  <2>6. QED
    BY <2>2, <2>3, <2>4, <2>5 DEF AnswerRightOrCut
<1>10. QED
  BY <1>1, <1>2, <1>7, <1>9 DEF CallRight

LEMMA CallStep ==
  ASSUME ReadInv, [Next]_vars, NEW u \in Thread
  PROVE  CallRight(u)'
<1>1. TypeOK /\ CallRight(u)
  BY DEF ReadInv
<1>2. CASE UNCHANGED vars
  BY <1>1, <1>2, LeftAlone DEF vars
<1>3. ASSUME NEW t \in Thread, Call(t) \/ Work(t), t # u
      PROVE  CallRight(u)'
  <2>1. /\ pc'[u] = pc[u] /\ op'[u] = op[u] /\ keys'[u] = keys[u]
        /\ cookies'[u] = cookies[u] /\ n'[u] = n[u] /\ values'[u] = values[u]
        /\ status'[u] = status[u] /\ reply'[u] = reply[u]
    <3>1. CASE Call(t)
      BY <1>1, <1>3, <3>1 DEF Call, TypeOK
    <3>2. CASE InitFail(t) \/ KeyNotFound(t) \/ MallocFail(t) \/ Finish(t)
      BY <1>1, <1>3, <3>2 DEF InitFail, KeyNotFound, MallocFail, Finish, Answer, Goto, TypeOK, call
    <3>3. CASE Lookup(t) \/ Malloc(t) \/ Seek(t) \/ Read(t)
      BY <1>1, <1>3, <3>3 DEF Lookup, Malloc, Seek, Read, Goto, TypeOK, call
    <3>4. CASE SeekFail(t) \/ ReadShort(t) \/ ReadError(t)
      BY <1>1, <1>3, <3>4 DEF SeekFail, ReadShort, ReadError, ReadFailed, Answer, Goto, TypeOK,
                              call
    <3>5. QED
      BY <1>3, <3>1, <3>2, <3>3, <3>4 DEF Work
  <2>2. /\ disturbed[u] => disturbed'[u]
        /\ pc[u] = "read" => pos' = pos \/ disturbed'[u]
    <3>1. CASE Seek(t) \/ Read(t) \/ ReadShort(t)
      BY <1>1, <1>3, <3>1, OthersDisturbed DEF Seek, Read, ReadShort
    <3>2. CASE Call(t) \/ InitFail(t) \/ Lookup(t) \/ KeyNotFound(t) \/ Malloc(t)
               \/ MallocFail(t) \/ SeekFail(t) \/ Finish(t)
      BY <1>1, <1>3, <3>2 DEF Call, InitFail, Lookup, KeyNotFound, Malloc, MallocFail, SeekFail,
                              Finish, TypeOK
    <3>3. CASE ReadError(t)
      BY <1>1, <1>3, <3>3 DEF ReadError, TypeOK
    <3>4. QED
      BY <1>3, <3>1, <3>2, <3>3 DEF Work
  <2>3. QED
    BY <1>1, <2>1, <2>2, LeftAlone
<1>4. CASE Call(u) \/ Work(u)
  BY <1>1, <1>4, CallStarts, CallAnswers, LookupRight, MallocRight, SeekRight, ReadStepRight,
     ReadErrorRight, FinishRight DEF Work
<1>5. QED
  BY <1>2, <1>3, <1>4 DEF Next, Quiet

\* Each call finds in its arrays what its own steps put there.
THEOREM ReadsCorrect == Spec => []ReadInv
<1>1. ReadInv /\ [Next]_vars => ReadInv'
  BY TypeStep, CallStep DEF ReadInv
<1>2. QED
  BY <1>1, ReadInit, PTL DEF Spec

\* However many threads share the FILE, a call whose own seeks and reads succeed
\* and between whose seeks and reads no other thread's fall is answered with the
\* documents of its keys, but for a gets of one with a NUL, which is always cut.
THEOREM UndisturbedAnswers == Spec => []UndisturbedRight
<1>1. ReadInv => UndisturbedRight
  BY DEF ReadInv, CallRight, UndisturbedRight
<1>2. QED
  BY <1>1, ReadsCorrect, PTL

\* And of every get, whoever disturbs it, the presence is right, and the length.
THEOREM PresenceTold == Spec => []PresenceRight
<1>1. ReadInv => PresenceRight
  BY DEF ReadInv, CallRight, PresenceRight
<1>2. QED
  BY <1>1, ReadsCorrect, PTL

\* The threads' arrays and the FILE's cursor keep their types.
THEOREM ReadTypes == Spec => []TypeOK
<1>1. ReadInv => TypeOK
  BY DEF ReadInv
<1>2. QED
  BY <1>1, ReadsCorrect, PTL

-----------------------------------------------------------------------------
(* A service of one thread. *)

Undisturbed == \A t \in Thread : disturbed[t] = FALSE

LEMMA UndisturbedStep ==
  ASSUME \A t, u \in Thread : t = u, "fseeko" \notin Faults, "fread" \notin Faults,
         TypeOK, Undisturbed, [Next]_vars
  PROVE  Undisturbed'
<1>1. ASSUME NEW t \in Thread, Disturb(t)
      PROVE  Undisturbed'
  BY <1>1 DEF Disturb, Undisturbed
<1>2. ASSUME NEW t \in Thread, disturbed' = [disturbed EXCEPT ![t] = FALSE]
      PROVE  Undisturbed'
  BY <1>2 DEF Undisturbed, TypeOK
<1>3. ASSUME UNCHANGED disturbed
      PROVE  Undisturbed'
  BY <1>3 DEF Undisturbed
<1>4. ASSUME NEW t \in Thread, Call(t)
      PROVE  Undisturbed'
  BY <1>2, <1>4 DEF Call
<1>5. ASSUME NEW t \in Thread, Work(t)
      PROVE  Undisturbed'
  <2>1. CASE Seek(t) \/ Read(t) \/ ReadShort(t)
    BY <1>1, <2>1 DEF Seek, Read, ReadShort
  <2>2. CASE InitFail(t) \/ Lookup(t) \/ KeyNotFound(t) \/ Malloc(t) \/ MallocFail(t) \/ Finish(t)
    BY <1>3, <2>2 DEF InitFail, Lookup, KeyNotFound, Malloc, MallocFail, Finish
  <2>3. ~SeekFail(t) /\ ~ReadError(t)
    BY DEF SeekFail, ReadError
  <2>4. QED
    BY <1>5, <2>1, <2>2, <2>3 DEF Work
<1>6. QED
  BY <1>3, <1>4, <1>5 DEF Next, Quiet, vars

\* Without a NUL in the file no document is cut.
LEMMA NothingCut ==
  ASSUME \A j \in DOMAIN File : File[j] # Nul, NEW o, NEW k
  PROVE  ~Cut(o, k)
<1> SUFFICES ASSUME k \in DOMAIN Recs, Whole(k), NEW j \in DOMAIN Document(k)
             PROVE  Document(k)[j] # Nul
  BY DEF Cut
<1> DEFINE i == Recs[k].offset
           l == Recs[k].length
<1>1. i \in Nat /\ l \in Nat /\ i + l <= Len(File)
  BY TableAssumption DEF Whole
<1>2. Document(k) = SubSeq(File, i + 1, i + l)
  BY DEF Document
<1>3. DOMAIN File = 1..Len(File) /\ Len(File) \in Nat
  BY FileAssumption, LenProperties
<1> HIDE DEF i, l
<1>4. \A x \in (i + 1)..(i + l) : File[x] \in Byte
  BY <1>1, <1>3, FileAssumption, ElementOfSeq
<1>5. /\ Len(Document(k)) = l /\ Document(k) \in Seq(Byte)
      /\ \A x \in 1..l : Document(k)[x] = File[i + x]
  <2>1. /\ SubSeq(File, i + 1, i + l) \in Seq(Byte)
        /\ Len(SubSeq(File, i + 1, i + l)) = l
    BY <1>1, FileBytes
  <2>2. \A x \in 1..l : SubSeq(File, i + 1, i + l)[x] = File[i + x]
    BY <1>1, <1>3, <1>4, FileAssumption, SubSeqProperties
  <2>3. QED
    BY <1>2, <2>1, <2>2
<1>6. j \in 1..l
  BY <1>5, LenProperties
<1>7. i + j \in DOMAIN File
  BY <1>1, <1>3, <1>6
<1>8. QED
  BY <1>5, <1>6, <1>7

\* With one thread there is nobody to come between fseeko and fread: where neither
\* of them fails and no document has a NUL, every answer of the service is right.
THEOREM OneThreadAnswers ==
  ASSUME \A t, u \in Thread : t = u, "fseeko" \notin Faults, "fread" \notin Faults,
         \A j \in DOMAIN File : File[j] # Nul
  PROVE  Spec => []AnswersRight
<1>1. Init => Undisturbed
  BY DEF Init, Undisturbed
<1>2. TypeOK /\ Undisturbed /\ [Next]_vars => Undisturbed'
  BY UndisturbedStep
<1>3. \A t \in Thread : AnswerRightOrCut(t) => AnswerRight(t)
  BY NothingCut DEF AnswerRightOrCut, AnswerRight, RightOrCut
<1>4. UndisturbedRight /\ Undisturbed => AnswersRight
  BY <1>3 DEF UndisturbedRight, Undisturbed, AnswersRight
<1>5. QED
  BY <1>1, <1>2, <1>4, ReadTypes, UndisturbedAnswers, PTL DEF Spec
=============================================================================
