--------------------------- MODULE OZTableProofs ---------------------------
(***************************************************************************)
(* The binary search answers rightly on any sorted table and for any key.  *)
(* OZoneSort sorts, merges and prints any key file rightly, and the table  *)
(* that the read library makes of what it prints finds every key, for any  *)
(* size of the splits, any offsets, and any order of equal keys.           *)
(***************************************************************************)
EXTENDS OZTable, SequenceTheorems, FiniteSetTheorems, WellFoundedInduction, TLAPS

-----------------------------------------------------------------------------
(* The search of a sorted table. *)

LEMMA SearchInit == Init => SearchInv
<1> SUFFICES ASSUME Init PROVE SearchInv
  OBVIOUS
<1>1. nrecs \in Nat \ {0} /\ Sorted(recs, nrecs) /\ key \in Int
  BY KeyAssumption, SizeAssumption DEF Init
<1>2. recs \in [0..(nrecs - 1) -> Int]
  BY KeyAssumption DEF Init
<1>3. QED
  BY <1>1, <1>2 DEF Init, SearchInv

\* The middle of a non-empty interval lies in it.
LEMMA HalfInside ==
  ASSUME NEW l \in Nat, NEW h \in Int, l <= h
  PROVE  (l + h) \div 2 \in l..h
OBVIOUS

LEMMA SearchStep == SearchInv /\ [Next]_vars => SearchInv'
<1> SUFFICES ASSUME SearchInv, [Next]_vars PROVE SearchInv'
  OBVIOUS
<1> USE DEF SearchInv, table
<1>0. low <= high => Half \in low..high /\ Half \in 0..(nrecs - 1)
  BY HalfInside DEF Half
<1>1. CASE Found
  BY <1>0, <1>1 DEF Found
<1>2. CASE GoLeft
  <2>1. \A i \in 0..(nrecs - 1) : i > Half - 1 => recs[i] > key
    BY <1>0, <1>2 DEF GoLeft, Sorted
  <2>2. QED
    BY <1>0, <1>2, <2>1 DEF GoLeft
<1>3. CASE GoRight
  <2>1. \A i \in 0..(nrecs - 1) : i < Half + 1 => recs[i] < key
    BY <1>0, <1>3 DEF GoRight, Sorted
  <2>2. QED
    BY <1>0, <1>3, <2>1 DEF GoRight
<1>4. CASE NotFound
  BY <1>4 DEF NotFound
<1>5. CASE Returned \/ UNCHANGED vars
  BY <1>5 DEF Returned, vars
<1>6. QED
  BY <1>1, <1>2, <1>3, <1>4, <1>5 DEF Next

\* ozread_get_key answers rightly for every table size and key.
THEOREM SearchIsCorrect == Spec => []SearchCorrect
<1>1. SearchInv => SearchCorrect
  BY DEF SearchInv, SearchCorrect
<1>2. QED
  BY <1>1, SearchInit, SearchStep, PTL DEF Spec

-----------------------------------------------------------------------------
(* Facts about the operators. *)

\* A non-empty set of numbers has a least element.
LEMMA Least ==
  ASSUME NEW T \in SUBSET Nat, T # {}
  PROVE  \E x \in T : \A y \in T : x <= y
<1> DEFINE R == OpToRel(<, Nat)
<1>1. \A x, y \in Nat : <<x, y>> \in R <=> x < y
  BY DEF OpToRel
<1>2. IsWellFoundedOn(R, Nat)
  BY NatLessThanWellFounded
<1> HIDE DEF R
<1>3. PICK x \in T : \A y \in T : ~(<<y, x>> \in R)
  BY <1>2, WFMin
<1>4. \A y \in T : x \in Nat /\ y \in Nat /\ ~(y < x)
  BY <1>1, <1>3
<1>5. QED
  BY <1>4

\* The first of the least: what the merge looks for among the heads f.
First(f, j, S) == \A k \in S : f[j] < f[k] \/ (f[j] = f[k] /\ j <= k)

LEMMA FirstExists ==
  ASSUME NEW n \in Nat, NEW f \in [1..n -> Int], NEW S \in SUBSET (1..n), S # {}
  PROVE  \E j \in S : First(f, j, S)
<1> DEFINE Has(m) == \A U \in SUBSET (1..m) : U # {} => \E j \in U : First(f, j, U)
           T == {m \in 0..n : ~Has(m)}
<1>1. SUFFICES ASSUME T # {} PROVE FALSE
  <2>1. n \in 0..n
    OBVIOUS
  <2>2. Has(n) => \E j \in S : First(f, j, S)
    OBVIOUS
  <2>3. QED
    BY <2>1, <2>2
<1>2. PICK m \in T : \A y \in T : m <= y
  <2>1. T \in SUBSET Nat
    OBVIOUS
  <2> HIDE DEF T
  <2>2. QED
    BY <1>1, <2>1, Least
<1>3. m \in 0..n /\ ~Has(m)
  OBVIOUS
<1>4. PICK U \in SUBSET (1..m) : U # {} /\ ~\E j \in U : First(f, j, U)
  BY <1>3
<1>5. m # 0
  <2>1. 1..0 = {}
    OBVIOUS
  <2>2. QED
    BY <1>4, <2>1
<1>6. Has(m - 1)
  <2>1. m - 1 \in 0..n /\ ~(m <= m - 1)
    BY <1>3, <1>5
  <2>2. m - 1 \notin T
    BY <1>2, <2>1
  <2>3. QED
    BY <2>1, <2>2
<1> HIDE DEF T
<1>7. U \subseteq 1..n /\ \A k \in U : f[k] \in Int /\ k \in Int
  BY <1>3
<1>8. CASE U \ {m} = {}
  <2>1. U = {m}
    BY <1>4, <1>8
  <2>2. f[m] \in Int /\ m \in Int
    BY <1>7, <2>1
  <2>3. First(f, m, U)
    BY <2>1, <2>2 DEF First
  <2>4. QED
    BY <1>4, <2>1, <2>3
<1>9. CASE U \ {m} # {}
  <2>1. U \ {m} \in SUBSET (1..(m - 1))
    BY <1>3
  <2>2. PICK j \in U \ {m} : First(f, j, U \ {m})
    BY <1>6, <1>9, <2>1
  <2>3. CASE m \in U /\ f[m] < f[j]
    <3>1. First(f, m, U)
      BY <1>7, <2>2, <2>3 DEF First
    <3>2. QED
      BY <1>4, <2>3, <3>1
  <2>4. CASE ~(m \in U /\ f[m] < f[j])
    <3>1. j < m
      BY <1>3, <2>1
    <3>2. First(f, j, U)
      BY <1>7, <2>2, <2>4, <3>1 DEF First
    <3>3. QED
      BY <1>4, <3>2
  <2>5. QED
    BY <2>3, <2>4
<1>10. QED
  BY <1>8, <1>9

\* Any order qsort leaves has the same records, by key.
LEMMA OrdersSort ==
  ASSUME NEW c \in Seq(Line), NEW s \in Orders(c)
  PROVE  /\ s \in Seq(Line) /\ DOMAIN s = DOMAIN c
         /\ \A a, b \in DOMAIN s : a < b => s[a].key <= s[b].key
         /\ \A j \in DOMAIN s : \E m \in DOMAIN c : s[j] = c[m]
         /\ \A m \in DOMAIN c : \E j \in DOMAIN s : s[j] = c[m]
<1> DEFINE D == DOMAIN c
<1>1. D = 1..Len(c) /\ Len(c) \in Nat /\ c \in [D -> Line]
  BY LenProperties
<1>2. PICK q \in [D -> D] :
        /\ \A i, j \in D : i < j => q[i] # q[j] /\ c[q[i]].key <= c[q[j]].key
        /\ s = [j \in D |-> c[q[j]]]
  BY DEF Orders
<1> HIDE DEF D
<1>3. \A i, j \in D : i # j => q[i] # q[j]
  <2>1. \A i, j \in D : i # j => i < j \/ j < i
    BY <1>1
  <2>2. QED
    BY <1>2, <2>1
<1>4. q \in Surjection(D, D)
  <2>1. q \in Injection(D, D)
    BY <1>3 DEF Injection, IsInjective
  <2>2. IsFiniteSet(D)
    BY <1>1, FS_Interval
  <2>3. QED
    BY <2>1, <2>2, FS_Injection
<1>5. \A m \in D : \E j \in D : q[j] = m
  BY <1>4 DEF Surjection
<1>6. s \in [D -> Line]
  BY <1>1, <1>2
<1>7. s \in Seq(Line)
  BY <1>1, <1>6, SeqDef
<1>8. DOMAIN s = D /\ \A j \in D : s[j] = c[q[j]] /\ q[j] \in D
  BY <1>2
<1>9. QED
  BY <1>2, <1>5, <1>7, <1>8 DEF D

\* A stretch of a sequence.
LEMMA Stretch ==
  ASSUME NEW S, NEW s \in Seq(S), NEW a \in Nat, NEW l \in Nat, l <= Len(s),
         NEW c, c = SubSeq(s, a + 1, l)
  PROVE  /\ c \in Seq(S)
         /\ \A j \in DOMAIN c : a + j \in DOMAIN s /\ a + j <= l /\ c[j] = s[a + j]
         /\ \A m \in DOMAIN s : a < m /\ m <= l => m - a \in DOMAIN c /\ c[m - a] = s[m]
<1>1. PICK len \in Nat : len = Len(s)
  BY LenProperties
<1>2. DOMAIN s = 1..len /\ l <= len
  BY <1>1, LenProperties
<1>3. \A j \in (a + 1)..l : j \in 1..len
  BY <1>2
<1>4. \A j \in (a + 1)..l : s[j] \in S
  BY <1>1, <1>3, ElementOfSeq
<1>5. PICK b \in Int : b = a + 1
  OBVIOUS
<1>6. /\ c \in Seq(S)
      /\ Len(c) = IF b <= l THEN l - b + 1 ELSE 0
      /\ \A j \in 1..(l - b + 1) : c[j] = s[b + j - 1]
  BY <1>4, <1>5, SubSeqProperties
<1>7. PICK n \in Nat : n = Len(c) /\ DOMAIN c = 1..n
  BY <1>6, LenProperties
<1>8. \A j \in 1..n : j \in 1..(l - b + 1) /\ b + j - 1 = a + j /\ a + j \in 1..len /\ a + j <= l
  BY <1>2, <1>5, <1>6, <1>7
<1>9. \A m \in 1..len : a < m /\ m <= l =>
        m - a \in 1..n /\ m - a \in 1..(l - b + 1) /\ b + (m - a) - 1 = m
  BY <1>2, <1>5, <1>6, <1>7
<1>10. QED
  BY <1>2, <1>6, <1>7, <1>8, <1>9

\* The lines of one split.
LEMMA ChunkLines ==
  ASSUME lines \in Seq(Line), NEW n \in Nat, at \in Nat
  PROVE  /\ Chunk(n) \in Seq(Line)
         /\ \A j \in DOMAIN Chunk(n) :
              at + j \in DOMAIN lines /\ at + j <= at + n /\ Chunk(n)[j] = lines[at + j]
         /\ \A m \in DOMAIN lines : at < m /\ m <= at + n =>
              m - at \in DOMAIN Chunk(n) /\ Chunk(n)[m - at] = lines[m]
<1>1. PICK len \in Nat : len = Len(lines) /\ DOMAIN lines = 1..len
  BY LenProperties
<1>2. PICK l \in Nat : l = IF at + n <= Len(lines) THEN at + n ELSE Len(lines)
  <2>1. CASE at + n <= Len(lines)
    BY <2>1
  <2>2. CASE ~(at + n <= Len(lines))
    BY <1>1, <2>2
  <2>3. QED
    BY <2>1, <2>2
<1>3. l <= Len(lines) /\ l <= at + n /\ (l = at + n \/ l = len)
  BY <1>1, <1>2
<1>4. Chunk(n) = SubSeq(lines, at + 1, l)
  BY <1>2 DEF Chunk
<1>5. /\ Chunk(n) \in Seq(Line)
      /\ \A j \in DOMAIN Chunk(n) :
           at + j \in DOMAIN lines /\ at + j <= l /\ Chunk(n)[j] = lines[at + j]
      /\ \A m \in DOMAIN lines : at < m /\ m <= l =>
           m - at \in DOMAIN Chunk(n) /\ Chunk(n)[m - at] = lines[m]
  <2>1. l <= Len(lines)
    BY <1>3
  <2> HIDE <1>3
  <2>2. QED
    BY <1>4, <2>1, Stretch, SMTT(30)
<1>6. \A m \in DOMAIN lines : m <= at + n => m <= l
  BY <1>1, <1>3
<1>7. \A j \in DOMAIN Chunk(n) : at + j <= at + n
  BY <1>1, <1>3, <1>5
<1>8. QED
  BY <1>5, <1>6, <1>7

\* The merge takes the first of the least heads.
LEMMA MinIsFirst ==
  ASSUME SortTypeOK, heads \in [DOMAIN splits -> Nat \ {0}], Live # {}
  PROVE  /\ MinIdx \in Live
         /\ \A k \in Live : splits[MinIdx][heads[MinIdx]].key <= splits[k][heads[k]].key
<1> DEFINE head(j) == splits[j][heads[j]].key
           f == [j \in 1..Len(splits) |-> IF j \in Live THEN head(j) ELSE 0]
<1>1. Len(splits) \in Nat /\ DOMAIN splits = 1..Len(splits) /\ Live \subseteq 1..Len(splits)
  BY LenProperties DEF SortTypeOK, Live
<1>2. \A j \in Live : head(j) \in Int
  <2>1. ASSUME NEW j \in Live PROVE head(j) \in Int
    <3>1. j \in DOMAIN splits /\ heads[j] <= Len(splits[j]) /\ heads[j] \in Nat \ {0}
      BY DEF Live
    <3>2. splits[j] \in Seq(Line)
      BY <1>1, <3>1, ElementOfSeq DEF SortTypeOK
    <3>3. Len(splits[j]) \in Nat
      BY <3>2, LenProperties
    <3>4. splits[j][heads[j]] \in Line
      BY <3>1, <3>2, <3>3, ElementOfSeq
    <3>5. QED
      BY <3>4, KeyAssumption DEF Line
  <2>2. QED
    BY <2>1
<1>3. f \in [1..Len(splits) -> Int]
  BY <1>2
<1> HIDE DEF f
<1>4. \E j \in Live : First(f, j, Live)
  BY <1>1, <1>3, FirstExists
<1>5. \A j \in Live : f[j] = head(j)
  BY <1>1 DEF f
<1>6. \E j \in Live : \A k \in Live : head(j) < head(k) \/ (head(j) = head(k) /\ j <= k)
  BY <1>4, <1>5 DEF First
<1>7. MinIdx \in Live /\ \A k \in Live :
        head(MinIdx) < head(k) \/ (head(MinIdx) = head(k) /\ MinIdx <= k)
  BY <1>6 DEF MinIdx
<1>8. QED
  BY <1>2, <1>7

-----------------------------------------------------------------------------
(* The records of splits sp, those before and those from the heads hd. *)

ElemsOf(sp)     == UNION {{sp[j][a] : a \in DOMAIN sp[j]} : j \in DOMAIN sp}
TakenOf(sp, hd) == UNION {{sp[j][a] : a \in 1..(hd[j] - 1)} : j \in DOMAIN sp}
RestOf(sp, hd)  == UNION {{sp[j][a] : a \in hd[j]..Len(sp[j])} : j \in DOMAIN sp}

LEMMA ElemsAre ==
  ASSUME NEW sp, NEW q
  PROVE  q \in ElemsOf(sp) <=> \E j \in DOMAIN sp : \E a \in DOMAIN sp[j] : q = sp[j][a]
BY DEF ElemsOf

LEMMA TakenAre ==
  ASSUME NEW sp, NEW hd, NEW q
  PROVE  q \in TakenOf(sp, hd) <=>
           \E j \in DOMAIN sp : \E a \in 1..(hd[j] - 1) : q = sp[j][a]
BY DEF TakenOf

LEMMA RestAre ==
  ASSUME NEW sp, NEW hd, NEW q
  PROVE  q \in RestOf(sp, hd) <=>
           \E j \in DOMAIN sp : \E a \in hd[j]..Len(sp[j]) : q = sp[j][a]
BY DEF RestOf

\* The types of records, of splits and of what they hold.
LEMMA LineType == \A r \in Line \cup {NullLine} : r.key \in Int /\ r.offset \in Nat
<1>1. \A r \in Line : r.key \in Key /\ r.offset \in Offset
  BY DEF Line
<1>2. NullLine.key = NullKey /\ NullLine.offset = 0
  BY DEF NullLine
<1>3. QED
  BY <1>1, <1>2, KeyAssumption, TildeAssumption, OffsetAssumption

LEMMA SplitType ==
  ASSUME NEW sp \in Seq(Seq(Line))
  PROVE  /\ Len(sp) \in Nat /\ DOMAIN sp = 1..Len(sp)
         /\ \A j \in DOMAIN sp :
              /\ sp[j] \in Seq(Line) /\ Len(sp[j]) \in Nat /\ DOMAIN sp[j] = 1..Len(sp[j])
              /\ \A a \in DOMAIN sp[j] : sp[j][a] \in Line
<1>1. Len(sp) \in Nat /\ DOMAIN sp = 1..Len(sp)
  BY LenProperties
<1>2. ASSUME NEW j \in DOMAIN sp
      PROVE  /\ sp[j] \in Seq(Line) /\ Len(sp[j]) \in Nat /\ DOMAIN sp[j] = 1..Len(sp[j])
             /\ \A a \in DOMAIN sp[j] : sp[j][a] \in Line
  <2>1. sp[j] \in Seq(Line)
    BY <1>1, ElementOfSeq
  <2>2. Len(sp[j]) \in Nat /\ DOMAIN sp[j] = 1..Len(sp[j])
    BY <2>1, LenProperties
  <2>3. \A a \in DOMAIN sp[j] : sp[j][a] \in Line
    BY <2>1, <2>2, ElementOfSeq
  <2>4. QED
    BY <2>1, <2>2, <2>3
<1>3. QED
  BY <1>1, <1>2

-----------------------------------------------------------------------------
(* Splitting. *)

\* A finite set of keys has a largest, a second largest and so on.
LEMMA NthLargest ==
  ASSUME NEW keys \in SUBSET Int, IsFiniteSet(keys), NEW j \in 1..Cardinality(keys)
  PROVE  \E k \in keys : Cardinality({m \in keys : m > k}) = j - 1
<1> DEFINE Above(k) == {m \in keys : m > k}
           g == [k \in keys |-> Cardinality(Above(k))]
<1>1. PICK n \in Nat : n = Cardinality(keys)
  BY FS_CardinalityType
<1>2. \A k \in keys : Above(k) \subseteq keys /\ Above(k) # keys
  <2>1. \A k \in keys : ~(k > k)
    OBVIOUS
  <2>2. QED
    BY <2>1
<1>3. \A a, b \in keys : a < b => Above(b) \subseteq Above(a) /\ Above(b) # Above(a)
  <2>1. \A a, b, m \in keys : a < b /\ m > b => m > a
    OBVIOUS
  <2>2. \A a, b \in keys : a < b => b \in Above(a) /\ b \notin Above(b)
    OBVIOUS
  <2>3. QED
    BY <2>1, <2>2
<1> HIDE DEF Above
<1>4. \A k \in keys : IsFiniteSet(Above(k)) /\ Cardinality(Above(k)) \in Nat
                      /\ Cardinality(Above(k)) < n
  BY <1>1, <1>2, FS_Subset, FS_CardinalityType
<1>5. \A a, b \in keys : a < b => Cardinality(Above(b)) < Cardinality(Above(a))
  BY <1>3, <1>4, FS_Subset
<1>6. g \in Injection(keys, 0..(n - 1))
  <2>1. \A k \in keys : Cardinality(Above(k)) \in 0..(n - 1)
    BY <1>4
  <2>2. \A a, b \in keys : a # b => Cardinality(Above(a)) # Cardinality(Above(b))
    <3>1. \A a, b \in keys : a # b => a < b \/ b < a
      OBVIOUS
    <3>2. \A a, b \in keys : a < b => Cardinality(Above(b)) # Cardinality(Above(a))
      BY <1>4, <1>5
    <3>3. QED
      BY <3>1, <3>2
  <2>3. QED
    BY <2>1, <2>2 DEF Injection, IsInjective
<1>7. IsFiniteSet(0..(n - 1)) /\ Cardinality(0..(n - 1)) = n
  <2>1. Cardinality(0..(n - 1)) = IF 0 > n - 1 THEN 0 ELSE (n - 1) - 0 + 1
    BY FS_Interval
  <2>2. QED
    BY <2>1, FS_Interval
<1>8. g \in Surjection(keys, 0..(n - 1))
  BY <1>1, <1>6, <1>7, FS_Injection
<1>9. j - 1 \in 0..(n - 1)
  BY <1>1
<1>10. PICK k \in keys : g[k] = j - 1
  BY <1>8, <1>9 DEF Surjection
<1>11. QED
  BY <1>10 DEF Above

LEMMA SortInitInv == SortInit => SortInv
<1> SUFFICES ASSUME SortInit PROVE SortInv
  OBVIOUS
<1>1. lines \in Seq(Line)
  <2>1. CASE lines \in KeyFiles
    <3>1. PICK n \in 0..MaxLines : lines \in [1..n -> [key : FileKey, offset : Offset]]
      BY <2>1 DEF KeyFiles
    <3>2. [key : FileKey, offset : Offset] \subseteq Line
      BY SortBoundAssumption DEF Line
    <3>3. n \in Nat /\ lines \in [1..n -> Line]
      BY <3>1, <3>2, SortBoundAssumption
    <3>4. QED
      BY <3>3, SeqDef
  <2>2. CASE lines \in LongFiles
    <3> DEFINE nth(keys, j) == CHOOSE k \in keys : Cardinality({m \in keys : m > k}) = j - 1
    <3>1. PICK keys \in {s \in SUBSET Key : IsFiniteSet(s)} :
            lines = [j \in 1..Cardinality(keys) |-> [key |-> nth(keys, j), offset |-> 0]]
      BY <2>2 DEF LongFiles
    <3>2. keys \in SUBSET Int /\ keys \subseteq Key /\ IsFiniteSet(keys)
      BY <3>1, KeyAssumption
    <3>3. \A j \in 1..Cardinality(keys) : nth(keys, j) \in keys
      BY <3>2, NthLargest
    <3> HIDE DEF nth
    <3>4. \A j \in 1..Cardinality(keys) : [key |-> nth(keys, j), offset |-> 0] \in Line
      BY <3>2, <3>3, OffsetAssumption DEF Line
    <3>5. lines \in [1..Cardinality(keys) -> Line] /\ Cardinality(keys) \in Nat
      BY <3>1, <3>2, <3>4, FS_CardinalityType
    <3>6. QED
      BY <3>5, SeqDef
  <2>3. QED
    BY <2>1, <2>2 DEF SortInit
<1>2. SortTypeOK
  <2>1. Len(lines) \in Nat
    BY <1>1, LenProperties
  <2>2. at \in 0..(Len(lines) + 1)
    BY <2>1 DEF SortInit
  <2>3. \A S : << >> \in Seq(S) /\ Len(<< >>) = 0
    BY EmptySeq
  <2>4. Len(splits) <= MaxSplits /\ Len(prev) <= 1
    BY <2>3, SplitAssumption DEF SortInit
  <2>5. printed.lines = << >> /\ printed.count = 0
    BY DEF SortInit, NothingPrinted
  <2>6. << >> \in Seq(Seq(Line)) /\ << >> \in Seq(Line) /\ << >> \in Seq(Line \cup {NullLine})
    BY <2>3
  <2>7. /\ torn \in BOOLEAN /\ splits = << >> /\ prev = << >> /\ out = << >>
        /\ mlines = 0 /\ spc = "split" /\ collided = FALSE
    BY DEF SortInit
  <2>8. /\ splits \in Seq(Seq(Line)) /\ prev \in Seq(Line)
        /\ out \in Seq(Line \cup {NullLine}) /\ printed.lines \in Seq(Line \cup {NullLine})
    BY <2>5, <2>6, <2>7
  <2>9. mlines \in Nat /\ printed.count \in Nat
    BY <2>5, <2>7
  <2>12. collided \in BOOLEAN
    BY Zenon DEF SortInit
  <2> HIDE <2>3, <2>6, <2>7
  <2>10. spc \in {"split", "open", "merge", "print", "done"} /\ torn \in BOOLEAN
    BY <2>7
  <2>11. QED
    BY Zenon, <1>1, <2>2, <2>4, <2>8, <2>9, <2>10, <2>12 DEF SortTypeOK
<1>3. SplitInv
  <2>1. Left >= 0
    BY <1>1, LenProperties DEF SortInit, Left
  <2>2. splits = << >> /\ DOMAIN splits = {}
    BY DEF SortInit
  <2>3. InSplits = {}
    BY <2>2 DEF InSplits
  <2>4. ReadSoFar = {}
    <3>1. {m \in DOMAIN lines : m <= at} = {}
      BY <1>1, LenProperties DEF SortInit
    <3>2. QED
      BY <3>1 DEF ReadSoFar
  <2>5. spc = "split"
    BY DEF SortInit
  <2>6. QED
    BY <2>1, <2>2, <2>3, <2>4, <2>5 DEF SplitInv
<1>4. QED
  BY <1>2, <1>3 DEF SortInit, SortInv

LEMMA SplitOneStep ==
  ASSUME SortInv, SplitOne
  PROVE  SortInv'
<1> DEFINE n == IF Left < PerLine THEN Left ELSE PerLine
<1>1. /\ SortTypeOK /\ SplitInv /\ lines \in Seq(Line) /\ torn \in BOOLEAN
      /\ Len(lines) \in Nat /\ DOMAIN lines = 1..Len(lines)
      /\ at \in Nat /\ at <= Len(lines) + 1 /\ splits \in Seq(Seq(Line))
  BY LenProperties DEF SortInv, SortTypeOK
<1>2. Left \in Nat /\ Left <= Len(lines) + 1 - at
  <2>1. Left >= 0
    BY <1>1 DEF SplitInv
  <2>2. CASE torn
    <3>1. Left = Len(lines) + 1 - at
      BY <1>1, <2>2 DEF Left
    <3>2. QED
      BY <1>1, <2>1, <3>1
  <2>3. CASE ~torn
    <3>1. Left = Len(lines) + 0 - at
      BY <1>1, <2>3 DEF Left
    <3>2. QED
      BY <1>1, <2>1, <3>1
  <2>4. QED
    BY <2>2, <2>3
<1>3. n \in Nat /\ n <= Left /\ (Left < PerLine => n = Left)
  BY <1>2, SplitAssumption
<1>4. PICK s \in Orders(Chunk(n)) : splits' = Append(splits, s)
  BY DEF SplitOne
<1>5. at' = at + n /\ spc' = (IF Left < PerLine THEN "open" ELSE "split") /\ spc = "split"
      /\ Len(splits) < MaxSplits
      /\ UNCHANGED <<source, merging, printed, collided>>
  BY DEF SplitOne
<1>6. /\ Chunk(n) \in Seq(Line)
      /\ \A j \in DOMAIN Chunk(n) :
           at + j \in DOMAIN lines /\ at + j <= at + n /\ Chunk(n)[j] = lines[at + j]
      /\ \A m \in DOMAIN lines : at < m /\ m <= at + n =>
           m - at \in DOMAIN Chunk(n) /\ Chunk(n)[m - at] = lines[m]
  BY <1>1, <1>3, ChunkLines
<1> HIDE DEF n
<1>7. /\ s \in Seq(Line) /\ DOMAIN s = DOMAIN Chunk(n)
      /\ \A a, b \in DOMAIN s : a < b => s[a].key <= s[b].key
      /\ \A j \in DOMAIN s : \E m \in DOMAIN Chunk(n) : s[j] = Chunk(n)[m]
      /\ \A m \in DOMAIN Chunk(n) : \E j \in DOMAIN s : s[j] = Chunk(n)[m]
  BY <1>4, <1>6, OrdersSort
<1>8. \A j \in DOMAIN s : \E m \in DOMAIN lines : m <= at + n /\ s[j] = lines[m]
  BY <1>6, <1>7
<1>9. \A m \in DOMAIN lines : at < m /\ m <= at + n => \E j \in DOMAIN s : s[j] = lines[m]
  BY <1>6, <1>7
<1>10. /\ splits' \in Seq(Seq(Line)) /\ Len(splits') = Len(splits) + 1
       /\ Len(splits) \in Nat /\ DOMAIN splits = 1..Len(splits)
       /\ DOMAIN splits' = 1..(Len(splits) + 1)
       /\ \A j \in DOMAIN splits : splits'[j] = splits[j]
       /\ splits'[Len(splits) + 1] = s
  <2>1. /\ splits' \in Seq(Seq(Line)) /\ Len(splits') = Len(splits) + 1
        /\ \A i \in 1..Len(splits) : splits'[i] = splits[i]
        /\ splits'[Len(splits) + 1] = s
    BY <1>1, <1>4, <1>7, AppendProperties
  <2>2. Len(splits) \in Nat /\ DOMAIN splits = 1..Len(splits) /\ DOMAIN splits' = 1..Len(splits')
    BY <1>1, <2>1, LenProperties
  <2>3. QED
    BY <2>1, <2>2
<1>11. DOMAIN splits' = DOMAIN splits \cup {Len(splits) + 1}
  BY <1>10
<1>12. lines' = lines /\ torn' = torn /\ collided' = collided /\ printed' = printed
       /\ heads' = heads /\ prev' = prev /\ out' = out /\ mlines' = mlines
  BY <1>5 DEF source, merging
<1>13. SortTypeOK'
  <2>1. at' \in 0..(Len(lines') + 1)
    BY <1>1, <1>2, <1>3, <1>5, <1>12
  <2>2. Len(splits') <= MaxSplits
    BY <1>5, <1>10, SplitAssumption
  <2>3. spc' \in {"split", "open"}
    BY <1>5
  <2>4. QED
    BY <1>1, <1>10, <1>12, <2>1, <2>2, <2>3 DEF SortTypeOK
<1>14. SplitInv'
  <2>1. Left' = Left - n
    BY <1>1, <1>3, <1>5, <1>12 DEF Left
  <2>2. Left' >= 0 /\ (spc' \in {"open", "merge", "print"} => Left' = 0)
    BY <1>2, <1>3, <1>5, <2>1
  <2>3. \A j \in DOMAIN splits' : \A a, b \in DOMAIN splits'[j] :
          a < b => splits'[j][a].key <= splits'[j][b].key
    <3>1. \A j \in DOMAIN splits : \A a, b \in DOMAIN splits[j] :
            a < b => splits[j][a].key <= splits[j][b].key
      BY <1>1 DEF SplitInv
    <3>2. QED
      BY <1>7, <1>10, <1>11, <3>1
  <2>4. \A q : q \in InSplits' <=> q \in InSplits \/ \E j \in DOMAIN s : q = s[j]
    <3>1. InSplits = ElemsOf(splits) /\ InSplits' = ElemsOf(splits')
      BY DEF InSplits, ElemsOf
    <3>2. ASSUME NEW q PROVE q \in ElemsOf(splits') <=>
                              q \in ElemsOf(splits) \/ \E j \in DOMAIN s : q = s[j]
      <4>1. q \in ElemsOf(splits) <=> \E j \in DOMAIN splits : \E a \in DOMAIN splits[j] : q = splits[j][a]
        BY ElemsAre
      <4>2. q \in ElemsOf(splits') <=> \E j \in DOMAIN splits' : \E a \in DOMAIN splits'[j] : q = splits'[j][a]
        BY ElemsAre
      <4>3. \A j \in DOMAIN splits' : j \in DOMAIN splits \/ j = Len(splits) + 1
        BY <1>11
      <4>4. Len(splits) + 1 \in DOMAIN splits' /\ DOMAIN splits \subseteq DOMAIN splits'
        BY <1>11
      <4>5. \A j \in DOMAIN splits : splits'[j] = splits[j]
        BY <1>10
      <4>6. splits'[Len(splits) + 1] = s
        BY <1>10
      <4>7. QED
        BY <4>1, <4>2, <4>3, <4>4, <4>5, <4>6
    <3>3. QED
      BY <3>1, <3>2
  <2>5. \A q : q \in ReadSoFar <=> \E m \in DOMAIN lines : m <= at /\ q = lines[m]
    BY DEF ReadSoFar
  <2>6. \A q : q \in ReadSoFar' <=> \E m \in DOMAIN lines : m <= at + n /\ q = lines[m]
    BY <1>5, <1>12 DEF ReadSoFar
  <2>7. InSplits' \subseteq ReadSoFar'
    <3>1. InSplits \subseteq ReadSoFar
      BY <1>1 DEF SplitInv
    <3>2. \A m \in DOMAIN lines : m <= at => m <= at + n
      BY <1>1, <1>3
    <3>3. QED
      BY <1>8, <2>4, <2>5, <2>6, <3>1, <3>2
  <2>8. ~collided' => ReadSoFar' \subseteq InSplits'
    <3>1. ~collided => ReadSoFar \subseteq InSplits
      BY <1>1 DEF SplitInv
    <3>2. \A m \in DOMAIN lines : m <= at \/ at < m
      BY <1>1
    <3>3. QED
      BY <1>9, <1>12, <2>4, <2>5, <2>6, <3>1, <3>2
  <2>9. QED
    BY <2>2, <2>3, <2>7, <2>8 DEF SplitInv
<1>15. spc' \in {"split", "open"} /\ heads' = << >> /\ prev' = << >> /\ out' = << >> /\ mlines' = 0
  BY <1>5, <1>12 DEF SortInv
<1>16. QED
  BY <1>13, <1>14, <1>15 DEF SortInv

\* The sort gives up: nothing is printed.
LEMMA GiveUpStep ==
  ASSUME SortInv, TooManySplits \/ FopenFail
  PROVE  SortInv'
<1>1. /\ spc' = "done" /\ printed' = NothingPrinted
      /\ lines' = lines /\ torn' = torn /\ at' = at /\ splits' = splits /\ collided' = collided
      /\ heads' = heads /\ prev' = prev /\ out' = out /\ mlines' = mlines
  BY DEF TooManySplits, FopenFail, Fails, source, merging
<1>2. NothingPrinted.lines = << >> /\ NothingPrinted.count = 0
  BY DEF NothingPrinted
<1>3. SortTypeOK'
  <2>1. << >> \in Seq(Line \cup {NullLine})
    BY EmptySeq
  <2>2. QED
    BY <1>1, <1>2, <2>1 DEF SortInv, SortTypeOK
<1>4. SplitInv'
  <2>1. Left' = Left /\ InSplits' = InSplits /\ ReadSoFar' = ReadSoFar
    BY <1>1 DEF Left, InSplits, ReadSoFar
  <2>2. QED
    BY <1>1, <2>1 DEF SortInv, SplitInv
<1>5. QED
  BY <1>1, <1>2, <1>3, <1>4 DEF SortInv

LEMMA CollideStep ==
  ASSUME SortInv, Collide
  PROVE  SortInv'
<1>1. PICK j \in DOMAIN splits : splits' = [splits EXCEPT ![j] = << >>]
  BY DEF Collide
<1>2. /\ collided' = TRUE /\ spc \in {"split", "open"} /\ spc' = spc /\ printed' = printed
      /\ lines' = lines /\ torn' = torn /\ at' = at
      /\ heads' = heads /\ prev' = prev /\ out' = out /\ mlines' = mlines
  BY DEF Collide, source, merging
<1>3. /\ SortTypeOK /\ SplitInv /\ splits \in Seq(Seq(Line))
      /\ Len(splits) \in Nat /\ DOMAIN splits = 1..Len(splits)
  BY LenProperties DEF SortInv, SortTypeOK
<1>4. << >> \in Seq(Line) /\ DOMAIN << >> = {}
  <2>1. << >> \in Seq(Line)
    BY EmptySeq
  <2>2. QED
    BY <2>1
<1>5. /\ DOMAIN splits' = DOMAIN splits
      /\ \A i \in DOMAIN splits : splits'[i] = IF i = j THEN << >> ELSE splits[i]
  BY <1>1
<1>6. splits' \in Seq(Seq(Line)) /\ Len(splits') = Len(splits)
  BY <1>1, <1>3, <1>4, ExceptSeq
<1>7. SortTypeOK'
  BY <1>2, <1>3, <1>6 DEF SortTypeOK
<1>8. SplitInv'
  <2>1. Left' = Left /\ ReadSoFar' = ReadSoFar
    BY <1>2 DEF Left, ReadSoFar
  <2>2. \A i \in DOMAIN splits' : \A a, b \in DOMAIN splits'[i] :
          a < b => splits'[i][a].key <= splits'[i][b].key
    BY <1>3, <1>4, <1>5 DEF SplitInv
  <2>3. InSplits' \subseteq InSplits
    <3>1. InSplits = ElemsOf(splits) /\ InSplits' = ElemsOf(splits')
      BY DEF InSplits, ElemsOf
    <3>2. ASSUME NEW q \in ElemsOf(splits') PROVE q \in ElemsOf(splits)
      <4>1. PICK i \in DOMAIN splits' : \E a \in DOMAIN splits'[i] : q = splits'[i][a]
        BY <3>2, ElemsAre
      <4>2. i \in DOMAIN splits /\ splits'[i] = splits[i]
        BY <1>4, <1>5, <4>1
      <4>3. QED
        BY <4>1, <4>2, ElemsAre
    <3>3. QED
      BY <3>1, <3>2
  <2>4. QED
    BY <1>2, <1>3, <2>1, <2>2, <2>3 DEF SplitInv
<1>9. QED
  BY <1>2, <1>7, <1>8 DEF SortInv

-----------------------------------------------------------------------------
(* Merging. *)

LEMMA OpenMergeStep ==
  ASSUME SortInv, OpenMerge
  PROVE  SortInv'
<1>1. /\ spc = "open" /\ spc' = "merge" /\ heads' = [j \in DOMAIN splits |-> 1]
      /\ lines' = lines /\ torn' = torn /\ at' = at /\ splits' = splits /\ prev' = prev
      /\ out' = out /\ mlines' = mlines /\ printed' = printed /\ collided' = collided
  BY DEF OpenMerge, source
<1>2. SortTypeOK /\ SplitInv /\ prev = << >> /\ out = << >> /\ mlines = 0
  BY <1>1 DEF SortInv
<1>3. SortTypeOK'
  BY <1>1, <1>2 DEF SortTypeOK
<1>4. SplitInv'
  <2>1. Left' = Left /\ InSplits' = InSplits /\ ReadSoFar' = ReadSoFar
    BY <1>1 DEF Left, InSplits, ReadSoFar
  <2>2. QED
    BY <1>1, <1>2, <2>1 DEF SplitInv
<1>5. MergeInv'
  <2>1. Taken' = {}
    <3>1. ASSUME NEW q \in Taken' PROVE FALSE
      <4>1. q \in TakenOf(splits, heads')
        BY <1>1, <3>1 DEF Taken, TakenOf
      <4>2. PICK j \in DOMAIN splits : \E a \in 1..(heads'[j] - 1) : q = splits[j][a]
        BY <4>1, TakenAre
      <4>3. heads'[j] = 1 /\ 1..(1 - 1) = {}
        BY <1>1
      <4>4. QED
        BY <4>2, <4>3
    <3>2. QED
      BY <3>1
  <2>2. \A j \in DOMAIN splits : Len(splits[j]) \in Nat
    BY <1>2, SplitType DEF SortTypeOK
  <2>3. heads' \in [DOMAIN splits' -> Nat \ {0}]
    BY <1>1
  <2>4. \A j \in DOMAIN splits' : heads'[j] <= Len(splits'[j]) + 1
    BY <1>1, <2>2
  <2>5. Len(out') = 0 /\ DOMAIN out' = {}
    <3>1. out' = << >>
      BY <1>1, <1>2
    <3>2. QED
      BY <3>1, EmptySeq
  <2>6. QED
    BY <1>1, <1>2, <2>1, <2>3, <2>4, <2>5 DEF MergeInv
<1>6. QED
  BY <1>1, <1>3, <1>4, <1>5 DEF SortInv

\* In a merge: what was taken, and what is left, are records of the key file.
LEMMA MergeTypes ==
  ASSUME SortTypeOK, MergeInv
  PROVE  /\ Taken \subseteq Line /\ Rest \subseteq Line /\ Taken \subseteq InSplits
         /\ InSplits \subseteq Taken \cup Rest
<1>1. /\ splits \in Seq(Seq(Line)) /\ heads \in [DOMAIN splits -> Nat \ {0}]
      /\ \A j \in DOMAIN splits : heads[j] <= Len(splits[j]) + 1
  BY DEF SortTypeOK, MergeInv
<1>2. /\ Taken = TakenOf(splits, heads) /\ Rest = RestOf(splits, heads)
      /\ InSplits = ElemsOf(splits)
  BY DEF Taken, TakenOf, Rest, RestOf, InSplits, ElemsOf
<1>3. \A j \in DOMAIN splits :
        /\ Len(splits[j]) \in Nat /\ DOMAIN splits[j] = 1..Len(splits[j])
        /\ \A a \in DOMAIN splits[j] : splits[j][a] \in Line
  BY <1>1, SplitType
<1>4. \A j \in DOMAIN splits : \A a \in 1..(heads[j] - 1) : a \in DOMAIN splits[j]
  BY <1>1, <1>3
<1>5. \A j \in DOMAIN splits : \A a \in heads[j]..Len(splits[j]) : a \in DOMAIN splits[j]
  BY <1>1, <1>3
<1>6. \A j \in DOMAIN splits : \A a \in DOMAIN splits[j] :
        a \in 1..(heads[j] - 1) \/ a \in heads[j]..Len(splits[j])
  BY <1>1, <1>3
<1>7. ASSUME NEW q \in TakenOf(splits, heads) PROVE q \in Line /\ q \in ElemsOf(splits)
  BY <1>3, <1>4, <1>7, TakenAre, ElemsAre
<1>8. ASSUME NEW q \in RestOf(splits, heads) PROVE q \in Line
  BY <1>3, <1>5, <1>8, RestAre
<1>9. ASSUME NEW q \in ElemsOf(splits)
      PROVE  q \in TakenOf(splits, heads) \/ q \in RestOf(splits, heads)
  BY <1>6, <1>9, TakenAre, ElemsAre, RestAre
<1>10. QED
  BY <1>2, <1>7, <1>8, <1>9

\* What is left of a split is not below its head, nor, if the head is not
\* live, below "~".
LEMMA RestAbove ==
  ASSUME SortTypeOK, SplitInv, MergeInv, NEW q \in Rest
  PROVE  \/ \E k \in Live : splits[k][heads[k]].key <= q.key
         \/ Tilde <= q.key
<1>1. /\ splits \in Seq(Seq(Line)) /\ heads \in [DOMAIN splits -> Nat \ {0}]
  BY DEF SortTypeOK, MergeInv
<1>2. PICK j \in DOMAIN splits : \E a \in heads[j]..Len(splits[j]) : q = splits[j][a]
  <2>1. q \in RestOf(splits, heads)
    BY DEF Rest, RestOf
  <2>2. QED
    BY <2>1, RestAre
<1>3. PICK a \in heads[j]..Len(splits[j]) : q = splits[j][a]
  BY <1>2
<1>4. PICK len \in Nat : len = Len(splits[j]) /\ DOMAIN splits[j] = 1..len
  BY <1>1, SplitType
<1>5. PICK h \in Nat \ {0} : h = heads[j]
  BY <1>1
<1>6. a \in h..len /\ h <= len /\ h \in 1..len /\ a \in 1..len
  BY <1>3, <1>4, <1>5
<1>7. splits[j][h] \in Line /\ q \in Line
  BY <1>1, <1>3, <1>4, <1>6, SplitType
<1>8. splits[j][h].key \in Int /\ q.key \in Int
  BY <1>7, LineType
<1>9. splits[j][h].key <= q.key
  <2>1. CASE h = a
    BY <1>3, <1>8, <2>1
  <2>2. CASE h < a
    BY <1>3, <1>4, <1>6, <2>2 DEF SplitInv
  <2>3. QED
    BY <1>6, <2>1, <2>2
<1>10. CASE splits[j][h].key < Tilde
  <2>1. j \in Live
    BY <1>4, <1>5, <1>6, <1>10 DEF Live
  <2>2. QED
    BY <1>5, <1>9, <2>1
<1>11. CASE ~(splits[j][h].key < Tilde)
  BY <1>8, <1>9, <1>11, TildeAssumption
<1>12. QED
  BY <1>10, <1>11

\* What a step of the merge takes: the least record that is left.
LEMMA TakeMoves ==
  ASSUME SortTypeOK, SplitInv, MergeInv, Take, NEW r, r = splits[MinIdx][heads[MinIdx]]
  PROVE  /\ r \in Rest /\ r.key < Tilde /\ \A q \in Rest : r.key <= q.key
         /\ \A q : q \in Taken' <=> q \in Taken \/ q = r
         /\ Rest' \subseteq Rest
         /\ heads' \in [DOMAIN splits' -> Nat \ {0}]
         /\ \A j \in DOMAIN splits' : heads'[j] <= Len(splits'[j]) + 1
<1>1. /\ splits \in Seq(Seq(Line)) /\ heads \in [DOMAIN splits -> Nat \ {0}]
      /\ \A j \in DOMAIN splits : heads[j] <= Len(splits[j]) + 1
  BY DEF SortTypeOK, MergeInv
<1>2. Live # {} /\ splits' = splits
  BY DEF Take
<1>3. PICK m \in Live : m = MinIdx /\ \A k \in Live : splits[m][heads[m]].key <= splits[k][heads[k]].key
  BY <1>1, <1>2, MinIsFirst
<1>4. heads' = [heads EXCEPT ![m] = @ + 1] /\ r = splits[m][heads[m]]
  BY <1>3 DEF Take
<1>5. PICK h \in Nat \ {0} : h = heads[m]
  BY <1>1, <1>3 DEF Live
<1>6. /\ m \in DOMAIN splits /\ h <= Len(splits[m]) /\ r = splits[m][h] /\ r.key < Tilde
      /\ \A k \in Live : r.key <= splits[k][heads[k]].key
  BY <1>3, <1>4, <1>5 DEF Live
<1>7. \A j \in DOMAIN splits : Len(splits[j]) \in Nat /\ DOMAIN splits[j] = 1..Len(splits[j])
  BY <1>1, SplitType
<1>8. heads' \in [DOMAIN splits -> Nat \ {0}]
  <2>1. heads' = [heads EXCEPT ![m] = h + 1] /\ m \in DOMAIN splits
    BY <1>4, <1>5, <1>6
  <2>2. h + 1 \in Nat \ {0}
    OBVIOUS
  <2>3. QED
    BY <1>1, <2>1, <2>2
<1>9. /\ heads'[m] = h + 1
      /\ \A j \in DOMAIN splits : j # m => heads'[j] = heads[j]
  BY <1>1, <1>4, <1>5, <1>6
<1>10. \A j \in DOMAIN splits : heads'[j] <= Len(splits[j]) + 1
  <2>1. heads'[m] <= Len(splits[m]) + 1
    BY <1>6, <1>7, <1>9
  <2>2. QED
    BY <1>1, <1>9, <2>1
<1>11. /\ Rest = RestOf(splits, heads) /\ Rest' = RestOf(splits, heads')
       /\ Taken = TakenOf(splits, heads) /\ Taken' = TakenOf(splits, heads')
  BY <1>2 DEF Rest, RestOf, Taken, TakenOf
<1>12. r \in Rest
  <2>1. h \in h..Len(splits[m])
    BY <1>6, <1>7
  <2>2. r \in RestOf(splits, heads)
    BY <1>5, <1>6, <2>1, RestAre
  <2>3. QED
    BY <1>11, <2>2
<1>13. ASSUME NEW q \in Rest PROVE r.key <= q.key
  <2>1. r \in Line /\ q \in Line
    BY <1>12, <1>13, MergeTypes
  <2>2. r.key \in Int /\ q.key \in Int
    BY <2>1, LineType
  <2>3. CASE Tilde <= q.key
    BY <1>6, <2>2, <2>3, TildeAssumption
  <2>4. CASE \E k \in Live : splits[k][heads[k]].key <= q.key
    <3>1. PICK k \in Live : splits[k][heads[k]].key <= q.key
      BY <2>4
    <3>2. splits[k][heads[k]].key \in Int
      <4>1. heads[k] \in 1..Len(splits[k]) /\ k \in DOMAIN splits
        BY <1>1, <1>7 DEF Live
      <4>2. splits[k][heads[k]] \in Line
        BY <1>1, <1>7, <4>1, SplitType
      <4>3. QED
        BY <4>2, LineType
    <3>3. r.key <= splits[k][heads[k]].key
      BY <1>6
    <3>4. QED
      BY <2>2, <3>1, <3>2, <3>3
  <2>5. QED
    BY <2>3, <2>4, RestAbove
<1>14. ASSUME NEW q PROVE q \in TakenOf(splits, heads') <=> q \in TakenOf(splits, heads) \/ q = r
  <2>1. 1..(h + 1 - 1) = 1..(h - 1) \cup {h}
    BY <1>5
  <2>2. 1..(heads'[m] - 1) = 1..(heads[m] - 1) \cup {h}
    BY <1>5, <1>9, <2>1
  <2>3. \A j \in DOMAIN splits : \A a : a \in 1..(heads'[j] - 1) <=>
          a \in 1..(heads[j] - 1) \/ (j = m /\ a = h)
    <3>1. \A j \in DOMAIN splits : j # m => 1..(heads'[j] - 1) = 1..(heads[j] - 1)
      BY <1>9
    <3>2. QED
      BY <2>2, <3>1, Zenon
  <2>4. q \in TakenOf(splits, heads) <=>
          \E j \in DOMAIN splits : \E a \in 1..(heads[j] - 1) : q = splits[j][a]
    BY TakenAre
  <2>5. q \in TakenOf(splits, heads') <=>
          \E j \in DOMAIN splits : \E a \in 1..(heads'[j] - 1) : q = splits[j][a]
    BY TakenAre
  <2>6. m \in DOMAIN splits /\ r = splits[m][h]
    BY <1>6
  <2>7. QED
    BY <2>3, <2>4, <2>5, <2>6, Zenon
<1>15. ASSUME NEW q \in RestOf(splits, heads') PROVE q \in RestOf(splits, heads)
  <2>1. \A a \in (h + 1)..Len(splits[m]) : a \in h..Len(splits[m])
    BY <1>5, <1>6, <1>7
  <2>2. \A j \in DOMAIN splits : \A a \in heads'[j]..Len(splits[j]) : a \in heads[j]..Len(splits[j])
    BY <1>5, <1>9, <2>1
  <2>3. PICK j \in DOMAIN splits : \E a \in heads'[j]..Len(splits[j]) : q = splits[j][a]
    BY <1>15, RestAre
  <2>4. QED
    BY <2>2, <2>3, RestAre
<1>16. QED
  BY <1>2, <1>6, <1>8, <1>10, <1>11, <1>12, <1>13, <1>14, <1>15

\* The merge goes on rightly, with r the record it takes.
LEMMA TakeMerge ==
  ASSUME SortTypeOK, SplitInv, MergeInv, Take
  PROVE  MergeInv' /\ SortTypeOK'
<1>1. PICK r : r = splits[MinIdx][heads[MinIdx]]
  OBVIOUS
<1>2. /\ r \in Rest /\ r.key < Tilde /\ \A q \in Rest : r.key <= q.key
      /\ \A q : q \in Taken' <=> q \in Taken \/ q = r
      /\ Rest' \subseteq Rest
      /\ heads' \in [DOMAIN splits' -> Nat \ {0}]
      /\ \A j \in DOMAIN splits' : heads'[j] <= Len(splits'[j]) + 1
  BY <1>1, TakeMoves
<1>3. Taken \subseteq Line /\ Rest \subseteq Line
  BY MergeTypes
<1>4. /\ r \in Line /\ r.key \in Int /\ r.offset \in Nat
      /\ \A q \in Taken \cup Rest : q.key \in Int /\ q.offset \in Nat
  BY <1>2, <1>3, LineType
<1>5. /\ prev \in Seq(Line) /\ Len(prev) <= 1 /\ Len(out) \in Nat /\ mlines = Len(out)
      /\ out \in Seq(Line \cup {NullLine}) /\ DOMAIN out = 1..Len(out)
  BY LenProperties DEF SortTypeOK, MergeInv
<1>6. /\ lines' = lines /\ torn' = torn /\ at' = at /\ splits' = splits /\ spc' = spc
      /\ printed' = printed /\ collided' = collided
  BY DEF Take, source
<1>7. <<r>> \in Seq(Line) /\ Len(<<r>>) = 1 /\ <<r>>[1] = r /\ <<r>> # << >>
  BY <1>4
<1>8. \A i \in DOMAIN out : out[i].key \in Int /\ out[i].offset \in Nat
  <2>1. \A i \in DOMAIN out : out[i] \in Line \cup {NullLine}
    BY <1>5, ElementOfSeq
  <2>2. QED
    BY <2>1, LineType
<1>9. prev # << >> => prev[1] \in Line /\ prev[1].key \in Int /\ prev[1].offset \in Nat
  <2>1. prev # << >> => Len(prev) = 1
    <3>1. ASSUME prev # << >> PROVE Len(prev) \in Nat \ {0}
      BY <1>5, <3>1, EmptySeq
    <3>2. Len(prev) <= 1
      BY <1>5
    <3>3. ASSUME Len(prev) \in Nat \ {0} PROVE Len(prev) = 1
      BY <3>2, <3>3, SMTT(30)
    <3>4. QED
      BY <3>1, <3>3
  <2>2. prev # << >> => prev[1] \in Line
    BY <1>5, <2>1, ElementOfSeq
  <2>3. QED
    BY <2>2, LineType
<1>10. ASSUME prev' \in Seq(Line), Len(prev') <= 1,
              out' \in Seq(Line \cup {NullLine}), mlines' \in Nat
       PROVE  SortTypeOK'
  BY <1>6, <1>10 DEF SortTypeOK
<1>11. CASE prev = << >> /\ prev' = <<r>> /\ UNCHANGED <<out, mlines>>
  <2>1. Taken = {} /\ out = << >> /\ DOMAIN out = {}
    <3>1. Taken = {} /\ out = << >>
      BY <1>11 DEF MergeInv
    <3>2. QED
      BY <3>1, EmptySeq
  <2>2. \A q : q \in Taken' <=> q = r
    BY <1>2, <2>1
  <2>3. Best(r, Taken')
    BY <1>4, <2>2 DEF Best
  <2>4. \A q \in Rest' : r.key <= q.key
    BY <1>2
  <2>5. prev'[1] = r /\ prev' # << >> /\ out' = out /\ mlines' = mlines
    BY <1>7, <1>11
  <2>6. MergeInv'
    BY <1>2, <1>4, <1>5, <2>1, <2>2, <2>3, <2>4, <2>5 DEF MergeInv
  <2>7. QED
    BY <1>5, <1>7, <1>10, <1>11, <2>6
<1>12. CASE /\ prev # << >> /\ prev[1].key = r.key
            /\ prev' = IF r.offset >= prev[1].offset THEN <<r>> ELSE prev
            /\ UNCHANGED <<out, mlines>>
  <2>1. PICK p \in Line : p = prev[1]
    BY <1>9, <1>12
  <2>2. PICK p2 \in Line : p2 = IF r.offset >= p.offset THEN r ELSE p
    BY <1>4
  <2>3. /\ prev'[1] = p2 /\ prev' # << >> /\ prev' \in Seq(Line) /\ Len(prev') <= 1
        /\ out' = out /\ mlines' = mlines
    BY <1>5, <1>7, <1>12, <2>1, <2>2
  <2>4. /\ p.key = r.key /\ p2.key = r.key /\ p.offset \in Nat /\ p2.offset \in Nat
        /\ p2.offset >= r.offset /\ p2.offset >= p.offset
    BY <1>4, <1>9, <1>12, <2>1, <2>2
  <2>5. /\ Best(p, Taken)
        /\ \A q \in Taken : q.key < Tilde /\ q.key <= p.key
             /\ (q.key = p.key \/ \E i \in DOMAIN out : out[i].key = q.key)
        /\ \A i \in DOMAIN out : Best(out[i], Taken) /\ out[i].key < p.key
    BY <1>12, <2>1 DEF MergeInv
  <2>6. Best(p2, Taken')
    <3>1. p2 \in Taken'
      BY <1>2, <2>2, <2>5 DEF Best
    <3>2. \A q \in Taken : q.key = p.key => q.offset <= p.offset
      BY <2>5 DEF Best
    <3>3. \A q \in Taken : q.key = p2.key => q.offset <= p2.offset
      BY <1>4, <2>4, <3>2
    <3>4. QED
      BY <1>2, <2>4, <3>1, <3>3 DEF Best
  <2>7. \A i \in DOMAIN out : Best(out[i], Taken') /\ out[i].key < p2.key
    <3>1. \A i \in DOMAIN out : out[i].key < r.key
      BY <2>4, <2>5
    <3>2. \A i \in DOMAIN out : r.key # out[i].key
      BY <1>4, <1>8, <3>1
    <3>3. \A i \in DOMAIN out : Best(out[i], Taken')
      BY <1>2, <2>5, <3>2 DEF Best
    <3>4. QED
      BY <2>4, <3>1, <3>3
  <2>8. \A q \in Taken' : q.key < Tilde /\ q.key <= p2.key
             /\ (q.key = p2.key \/ \E i \in DOMAIN out : out[i].key = q.key)
    <3>1. r.key <= p2.key
      BY <1>4, <2>4
    <3>2. QED
      BY <1>2, <2>4, <2>5, <3>1
  <2>9. \A q \in Rest' : p2.key <= q.key
    BY <1>2, <2>4
  <2>10. \A i, j \in DOMAIN out : i < j => out[i].key < out[j].key
    BY DEF MergeInv
  <2>11. MergeInv'
    BY <1>2, <1>5, <2>3, <2>6, <2>7, <2>8, <2>9, <2>10 DEF MergeInv
  <2>12. QED
    BY <1>5, <1>10, <2>3, <2>11
<1>13. CASE /\ prev # << >> /\ prev[1].key # r.key
            /\ prev' = <<r>> /\ out' = Append(out, prev[1]) /\ mlines' = mlines + 1
  <2>1. PICK p \in Line : p = prev[1] /\ p.key \in Int /\ p.offset \in Nat
    BY <1>9, <1>13
  <2>2. /\ Best(p, Taken)
        /\ \A q \in Taken : q.key < Tilde /\ q.key <= p.key
             /\ (q.key = p.key \/ \E i \in DOMAIN out : out[i].key = q.key)
        /\ \A i \in DOMAIN out : Best(out[i], Taken) /\ out[i].key < p.key
        /\ \A i, j \in DOMAIN out : i < j => out[i].key < out[j].key
        /\ \A q \in Rest : p.key <= q.key
    BY <1>13, <2>1 DEF MergeInv
  <2>3. p.key < r.key
    <3>1. p.key <= r.key /\ p.key # r.key
      BY <1>2, <1>13, <2>1, <2>2
    <3>2. QED
      BY <1>4, <2>1, <3>1
  <2>4. PICK n \in Nat : n = Len(out)
    BY <1>5
  <2>5. /\ out' \in Seq(Line \cup {NullLine}) /\ Len(out') = n + 1
        /\ \A i \in 1..n : out'[i] = out[i]
        /\ out'[n + 1] = p
    BY <1>5, <1>13, <2>1, <2>4, AppendProperties
  <2>6. DOMAIN out = 1..n /\ DOMAIN out' = 1..(n + 1)
    BY <1>5, <2>4, <2>5, LenProperties
  <2>7. \A i \in DOMAIN out' : (i \in DOMAIN out /\ out'[i] = out[i]) \/ (i = n + 1 /\ out'[i] = p)
    BY <2>5, <2>6
  <2>8. n + 1 \in DOMAIN out' /\ \A i \in DOMAIN out : i \in DOMAIN out' /\ out'[i] = out[i]
    BY <2>5, <2>6
  <2>9. /\ prev'[1] = r /\ prev' # << >> /\ prev' \in Seq(Line) /\ Len(prev') <= 1
        /\ mlines' = Len(out') /\ mlines' \in Nat
    BY <1>5, <1>7, <1>13, <2>4, <2>5
  <2>10. \A q \in Taken : q.key < r.key
    BY <1>4, <2>1, <2>2, <2>3
  <2>11. Best(r, Taken')
    <3>1. \A q \in Taken : q.key # r.key
      BY <1>4, <2>10
    <3>2. QED
      BY <1>2, <1>4, <3>1 DEF Best
  <2>12. ASSUME NEW x, Best(x, Taken) PROVE Best(x, Taken')
    <3>1. x \in Taken /\ x.key # r.key
      BY <1>4, <2>10, <2>12 DEF Best
    <3>2. QED
      BY <1>2, <2>12, <3>1 DEF Best
  <2>13. \A i \in DOMAIN out' : Best(out'[i], Taken') /\ out'[i].key < r.key
    <3>1. \A i \in DOMAIN out : out[i].key < r.key
      BY <1>4, <1>8, <2>1, <2>2, <2>3
    <3>2. \A i \in DOMAIN out : Best(out[i], Taken')
      BY <2>2, <2>12
    <3>3. Best(p, Taken')
      BY <2>2, <2>12
    <3>4. QED
      BY <2>3, <2>7, <3>1, <3>2, <3>3
  <2>14. \A q \in Taken' : q.key < Tilde /\ q.key <= r.key
             /\ (q.key = r.key \/ \E i \in DOMAIN out' : out'[i].key = q.key)
    <3>1. \A q \in Taken : \E i \in DOMAIN out' : out'[i].key = q.key
      BY <2>2, <2>5, <2>8
    <3>2. \A q \in Taken : q.key < Tilde /\ q.key <= r.key
      BY <1>4, <2>2, <2>10
    <3>3. r.key <= r.key
      BY <1>4
    <3>4. QED
      BY <1>2, <3>1, <3>2, <3>3
  <2>15. \A i, j \in DOMAIN out' : i < j => out'[i].key < out'[j].key
    <3>1. ASSUME NEW i \in DOMAIN out', NEW j \in DOMAIN out', i < j
          PROVE  out'[i].key < out'[j].key
      <4>1. i \in 1..n
        BY <2>6, <3>1
      <4>2. i \in DOMAIN out /\ out'[i] = out[i]
        BY <2>5, <2>6, <4>1
      <4>3. CASE j \in DOMAIN out /\ out'[j] = out[j]
        BY <2>2, <3>1, <4>2, <4>3
      <4>4. CASE out'[j] = p
        BY <2>2, <4>2, <4>4
      <4>5. QED
        BY <2>7, <4>3, <4>4
    <3>2. QED
      BY <3>1
  <2>16. \A q \in Rest' : r.key <= q.key
    BY <1>2
  <2>17. MergeInv'
    BY <1>2, <2>9, <2>11, <2>13, <2>14, <2>15, <2>16 DEF MergeInv
  <2>18. QED
    BY <1>10, <2>5, <2>9, <2>17
<1>14. QED
  BY <1>1, <1>11, <1>12, <1>13 DEF Take

\* At the end of the merge, the file it leaves is right.
LEMMA MergeEndStep ==
  ASSUME SortInv, MergeEnd
  PROVE  SortInv'
<1>1. /\ spc = "merge" /\ Live = {} /\ spc' = "print" /\ mlines' = mlines + 1
      /\ out' = Append(out, IF prev = << >> THEN NullLine ELSE prev[1])
      /\ lines' = lines /\ torn' = torn /\ at' = at /\ splits' = splits
      /\ heads' = heads /\ prev' = prev /\ printed' = printed /\ collided' = collided
  BY DEF MergeEnd, source
<1>2. SortTypeOK /\ SplitInv /\ MergeInv
  BY <1>1 DEF SortInv
<1>3. PICK n \in Nat : /\ n = Len(out) /\ mlines = n
                       /\ out \in Seq(Line \cup {NullLine}) /\ DOMAIN out = 1..n
  BY <1>2, LenProperties DEF SortTypeOK, MergeInv
<1>4. /\ Taken \subseteq Line /\ Rest \subseteq Line /\ Taken \subseteq InSplits
      /\ InSplits \subseteq Taken \cup Rest
  BY <1>2, MergeTypes
<1>5. PICK p : p = IF prev = << >> THEN NullLine ELSE prev[1]
  OBVIOUS
<1>6. prev # << >> => p = prev[1] /\ p \in Line /\ p \in Taken
  BY <1>2, <1>4, <1>5 DEF MergeInv, Best
<1>7. p \in Line \cup {NullLine}
  BY <1>5, <1>6
<1>8. /\ out' \in Seq(Line \cup {NullLine}) /\ Len(out') = n + 1
      /\ \A i \in 1..n : out'[i] = out[i]
      /\ out'[n + 1] = p
  BY <1>1, <1>3, <1>5, <1>7, AppendProperties
<1>9. DOMAIN out' = 1..(n + 1)
  BY <1>8, LenProperties
<1>10. \A i \in DOMAIN out' : (i \in DOMAIN out /\ out'[i] = out[i]) \/ (i = n + 1 /\ out'[i] = p)
  BY <1>3, <1>8, <1>9
<1>11. n + 1 \in DOMAIN out' /\ \A i \in DOMAIN out : i \in DOMAIN out' /\ out'[i] = out[i]
  BY <1>3, <1>8, <1>9
<1>12. SortTypeOK'
  <2>1. mlines' \in Nat
    BY <1>1, <1>3
  <2>2. QED
    BY <1>1, <1>2, <1>8, <2>1 DEF SortTypeOK
<1>13. SplitInv'
  <2>1. Left' = Left /\ InSplits' = InSplits /\ ReadSoFar' = ReadSoFar
    BY <1>1 DEF Left, InSplits, ReadSoFar
  <2>2. QED
    BY <1>1, <1>2, <2>1 DEF SplitInv
<1>14. \A q \in Taken : \E m \in Known : lines[m] = q
  <2>1. \A q \in ReadSoFar : \E m \in DOMAIN lines : lines[m] = q
    BY DEF ReadSoFar
  <2>2. \A q \in Taken : q \in ReadSoFar /\ q.key < Tilde
    BY <1>2, <1>4 DEF SplitInv, MergeInv
  <2>3. QED
    BY <2>1, <2>2 DEF Known
<1>15. ~collided => \A m \in Known : lines[m] \in Taken
  <2>1. \A m \in DOMAIN lines : m <= at
    <3>1. PICK len \in Nat : len = Len(lines) /\ DOMAIN lines = 1..len
      BY <1>2, LenProperties DEF SortTypeOK
    <3>2. at \in Int /\ Left = 0
      BY <1>1, <1>2 DEF SortTypeOK, SplitInv
    <3>3. CASE torn
      <4>1. len + 1 - at = 0
        BY <3>1, <3>2, <3>3 DEF Left
      <4>2. QED
        BY <3>1, <3>2, <4>1
    <3>4. CASE ~torn
      <4>1. len + 0 - at = 0
        BY <3>1, <3>2, <3>4 DEF Left
      <4>2. QED
        BY <3>1, <3>2, <4>1
    <3>5. QED
      BY <3>3, <3>4
  <2>2. \A m \in DOMAIN lines : lines[m] \in ReadSoFar
    BY <2>1 DEF ReadSoFar
  <2>3. ~collided => \A m \in DOMAIN lines : lines[m] \in Taken \/ lines[m] \in Rest
    BY <1>2, <1>4, <2>2 DEF SplitInv
  <2>4. \A q \in Rest : Tilde <= q.key
    BY <1>1, <1>2, RestAbove
  <2>5. \A q \in Rest : ~(q.key < Tilde)
    <3>1. \A q \in Rest : q.key \in Int
      BY <1>4, LineType
    <3>2. QED
      BY <2>4, <3>1, TildeAssumption
  <2>6. QED
    BY <2>3, <2>5 DEF Known
<1>16. ASSUME ~collided, NEW q, Best(q, Taken) PROVE Newest(q)
  <2>1. PICK m \in Known : lines[m] = q
    BY <1>14, <1>16 DEF Best
  <2>2. \A k \in Known : lines[k].key = q.key => lines[k].offset <= q.offset
    BY <1>15, <1>16 DEF Best
  <2>3. QED
    BY <2>1, <2>2 DEF Newest
<1>17. mlines' = Len(out')
  BY <1>1, <1>3, <1>8
<1>18. CASE prev = << >>
  <2>1. Taken = {} /\ out = << >>
    BY <1>2, <1>18 DEF MergeInv
  <2>2. n = 0 /\ p = NullLine
    BY <1>3, <1>5, <1>18, <2>1, EmptySeq
  <2>3. out' = <<NullLine>>
    BY <1>1, <1>18, <2>1
  <2>4. DOMAIN out' = {1}
    BY <1>9, <2>2
  <2>5. \A i, j \in DOMAIN out' : i < j => out'[i].key < out'[j].key
    BY <2>4
  <2>6. ~collided => Known = {}
    BY <1>15, <2>1
  <2>7. FileRight(mlines, out)'
    BY <1>1, <1>17, <2>3, <2>5, <2>6 DEF FileRight, Known, Newest
  <2>8. QED
    BY <1>1, <1>12, <1>13, <2>7 DEF SortInv
<1>19. CASE prev # << >>
  <2>1. /\ p = prev[1] /\ p \in Taken /\ Best(p, Taken)
        /\ \A q \in Taken : q.key = p.key \/ \E i \in DOMAIN out : out[i].key = q.key
        /\ \A i \in DOMAIN out : Best(out[i], Taken) /\ out[i].key < p.key
        /\ \A i, j \in DOMAIN out : i < j => out[i].key < out[j].key
    BY <1>2, <1>6, <1>19 DEF MergeInv
  <2>2. \A i, j \in DOMAIN out' : i < j => out'[i].key < out'[j].key
    <3>1. ASSUME NEW i \in DOMAIN out', NEW j \in DOMAIN out', i < j
          PROVE  out'[i].key < out'[j].key
      <4>1. i \in 1..n
        BY <1>9, <3>1
      <4>2. i \in DOMAIN out /\ out'[i] = out[i]
        BY <1>3, <1>8, <4>1
      <4>3. CASE j \in DOMAIN out /\ out'[j] = out[j]
        BY <2>1, <3>1, <4>2, <4>3
      <4>4. CASE out'[j] = p
        BY <2>1, <4>2, <4>4
      <4>5. QED
        BY <1>10, <4>3, <4>4
    <3>2. QED
      BY <3>1
  <2>3. ~collided => \A j \in DOMAIN out' : Newest(out'[j])
    <3>1. \A j \in DOMAIN out' : Best(out'[j], Taken)
      BY <1>10, <2>1
    <3>2. QED
      BY <1>16, <3>1
  <2>4. ~collided => \A m \in Known : \E j \in DOMAIN out' : out'[j].key = lines[m].key
    <3>1. \A q \in Taken : \E j \in DOMAIN out' : out'[j].key = q.key
      BY <1>8, <1>11, <2>1
    <3>2. QED
      BY <1>15, <3>1
  <2>5. Known # {}
    BY <1>14, <2>1
  <2>6. FileRight(mlines, out)'
    <3>1. Known' = Known /\ \A q : Newest(q)' <=> Newest(q)
      BY <1>1 DEF Known, Newest
    <3>2. QED
      BY <1>1, <1>17, <2>2, <2>3, <2>4, <2>5, <3>1 DEF FileRight
  <2>7. QED
    BY <1>1, <1>12, <1>13, <2>6 DEF SortInv
<1>20. QED
  BY <1>18, <1>19

-----------------------------------------------------------------------------
\* Printing.
LEMMA PrintStep ==
  ASSUME SortInv, PrintAll \/ PrintFail
  PROVE  SortInv'
<1>1. /\ spc = "print" /\ spc' = "done"
      /\ lines' = lines /\ torn' = torn /\ at' = at /\ splits' = splits /\ heads' = heads
      /\ prev' = prev /\ out' = out /\ mlines' = mlines /\ collided' = collided
  BY DEF PrintAll, PrintFail, source, merging
<1>2. /\ printed'.count = mlines
      /\ printed'.lines = out \/ printed'.lines = << >>
  BY DEF PrintAll, PrintFail
<1>3. SortTypeOK /\ SplitInv /\ FileRight(mlines, out)
  BY <1>1 DEF SortInv
<1>4. SortTypeOK'
  <2>1. << >> \in Seq(Line \cup {NullLine})
    BY EmptySeq
  <2>2. printed'.lines \in Seq(Line \cup {NullLine}) /\ printed'.count \in Nat
    BY <1>2, <1>3, <2>1 DEF SortTypeOK
  <2>3. QED
    BY <1>1, <1>3, <2>2 DEF SortTypeOK
<1>5. SplitInv'
  <2>1. Left' = Left /\ InSplits' = InSplits /\ ReadSoFar' = ReadSoFar
    BY <1>1 DEF Left, InSplits, ReadSoFar
  <2>2. QED
    BY <1>1, <1>3, <2>1 DEF SplitInv
<1>6. CASE printed'.lines = << >>
  BY <1>1, <1>4, <1>5, <1>6 DEF SortInv
<1>7. CASE printed'.lines = out
  <2>1. FileRight(printed.count, printed.lines)'
    <3>1. Known' = Known /\ \A q : Newest(q)' <=> Newest(q)
      BY <1>1 DEF Known, Newest
    <3>2. QED
      BY <1>1, <1>2, <1>3, <1>7, <3>1 DEF FileRight
  <2>2. QED
    BY <1>1, <1>4, <1>5, <2>1 DEF SortInv
<1>8. QED
  BY <1>2, <1>6, <1>7

LEMMA SortStep == SortInv /\ [SortNext]_sortvars => SortInv'
<1> SUFFICES ASSUME SortInv, [SortNext]_sortvars PROVE SortInv'
  OBVIOUS
<1>1. CASE Take
  <2>1. spc = "merge" /\ SortTypeOK /\ SplitInv /\ MergeInv
    BY <1>1 DEF Take, SortInv
  <2>2. MergeInv' /\ SortTypeOK'
    BY <1>1, <2>1, TakeMerge
  <2>3. /\ lines' = lines /\ torn' = torn /\ at' = at /\ splits' = splits /\ spc' = spc
        /\ collided' = collided
    BY <1>1 DEF Take, source
  <2>4. SplitInv'
    <3>1. Left' = Left /\ InSplits' = InSplits /\ ReadSoFar' = ReadSoFar
      BY <2>3 DEF Left, InSplits, ReadSoFar
    <3>2. QED
      BY <2>1, <2>3, <3>1 DEF SplitInv
  <2>5. QED
    BY <2>1, <2>2, <2>3, <2>4 DEF SortInv
<1>2. CASE UNCHANGED sortvars
  <2>1. /\ UNCHANGED <<lines, torn, at, splits, heads, prev>>
        /\ UNCHANGED <<out, mlines, spc, printed, collided>>
    BY <1>2 DEF sortvars
  <2>2. SortTypeOK'
    BY <2>1 DEF SortInv, SortTypeOK
  <2>3. SplitInv'
    <3>1. Left' = Left /\ InSplits' = InSplits /\ ReadSoFar' = ReadSoFar
      BY <2>1 DEF Left, InSplits, ReadSoFar
    <3>2. QED
      BY <2>1, <3>1 DEF SortInv, SplitInv
  <2>4. MergeInv' <=> MergeInv
    <3>1. Taken' = Taken /\ Rest' = Rest
      BY <2>1 DEF Taken, Rest
    <3>2. QED
      BY <2>1, <3>1 DEF MergeInv
  <2>5. /\ FileRight(mlines, out)' <=> FileRight(mlines, out)
        /\ FileRight(printed.count, printed.lines)' <=> FileRight(printed.count, printed.lines)
    BY <2>1 DEF FileRight, Known, Newest
  <2>6. QED
    BY <2>1, <2>2, <2>3, <2>4, <2>5 DEF SortInv
<1>3. QED
  BY <1>1, <1>2, SplitOneStep, GiveUpStep, CollideStep, OpenMergeStep, MergeEndStep, PrintStep
     DEF SortNext

\* OZoneSort of any key file keeps its types, its splits are sorted and
\* complete, and what it merges so far is in order and the best of each key.
THEOREM SortCorrect == SortSpec => []SortInv
<1>1. QED
  BY SortInitInv, SortStep, PTL DEF SortSpec

\* What OZoneSort prints is each key once, in order, with its newest record.
THEOREM SortedRightly == SortSpec => []SortedRight
<1>1. SortInv => SortedRight
  <2> SUFFICES ASSUME SortInv, spc = "done", printed.lines # << >>, ~collided PROVE SortedRight
    BY DEF SortedRight
  <2>1. FileRight(printed.count, printed.lines)
    BY DEF SortInv
  <2>2. QED
    BY <2>1 DEF FileRight, SortedRight
<1>2. QED
  BY <1>1, SortCorrect, PTL

\* The sort's variables keep their types, the files of a pass among them.
THEOREM SortTypeCorrect == SortSpec => []SortTypeOK
<1>1. SortInv => SortTypeOK
  BY DEF SortInv
<1>2. QED
  BY <1>1, SortCorrect, PTL

-----------------------------------------------------------------------------
(* The table. *)

LEMMA TableInitInv == TableInit => TableInv
<1> SUFFICES ASSUME TableInit PROVE TableInv
  OBVIOUS
<1>1. SortInv
  BY SortInitInv DEF TableInit
<1>2. pc = "sort"
  BY DEF TableInit
<1>3. QED
  BY <1>1, <1>2 DEF TableInv

\* Every step of the table is one of the sort or leaves the sort alone.
LEMMA TableSorts == [TableNext]_tablevars => [SortNext]_sortvars
<1>1. TableNext => SortNext \/ UNCHANGED sortvars
  BY DEF TableNext, RunSort, OpenFail, Open, Search, Over, tablevars
<1>2. UNCHANGED tablevars => UNCHANGED sortvars
  BY DEF tablevars
<1>3. QED
  BY <1>1, <1>2

\* The search starts on a sorted table.
LEMMA OpenStep ==
  ASSUME TableInv, Open
  PROVE  TableInv'
<1>1. /\ spc = "done" /\ printed.count # 0 /\ key' \in Key
      /\ nrecs' = printed.count /\ low' = 0 /\ high' = nrecs' - 1
      /\ recs' = [j \in 0..(Len(printed.lines) - 1) |-> printed.lines[j + 1].key]
      /\ pc' = IF Len(printed.lines) = printed.count THEN "search" ELSE "undefined"
      /\ UNCHANGED sortvars
  BY DEF Open
<1>2. SortInv /\ SortInv'
  BY <1>1, SortStep DEF TableInv
<1>3. spc' = spc /\ printed' = printed
  BY <1>1 DEF sortvars
<1>4. PICK ls : ls = printed.lines
  OBVIOUS
<1>5. PICK n \in Nat : /\ n = Len(ls) /\ DOMAIN ls = 1..n
                       /\ ls \in Seq(Line \cup {NullLine})
  BY <1>2, <1>4, LenProperties DEF SortInv, SortTypeOK
<1>6. CASE pc' = "undefined"
  BY <1>2, <1>6 DEF TableInv
<1>7. CASE pc' = "search" /\ printed.count = n
  <2>1. n # 0 /\ ls # << >>
    <3>1. n # 0
      BY <1>1, <1>7
    <3>2. QED
      BY <1>5, <3>1, EmptySeq
  <2>2. \A i, j \in 1..n : i < j => ls[i].key < ls[j].key
    <3>1. FileRight(printed.count, printed.lines)
      BY <1>1, <1>2, <1>4, <2>1 DEF SortInv
    <3>2. QED
      BY <1>4, <1>5, <3>1 DEF FileRight
  <2>3. \A i \in 1..n : ls[i].key \in Int
    <3>1. \A i \in 1..n : ls[i] \in Line \cup {NullLine}
      BY <1>5, ElementOfSeq
    <3>2. QED
      BY <3>1, LineType
  <2>4. nrecs' = n /\ low' = 0 /\ high' = n - 1 /\ recs' = [j \in 0..(n - 1) |-> ls[j + 1].key]
    BY <1>1, <1>4, <1>5, <1>7
  <2>5. \A j \in 0..(n - 1) : recs'[j] = ls[j + 1].key
    BY <2>4
  <2>6. \A j \in 0..(n - 1) : j + 1 \in 1..n
    OBVIOUS
  <2>7. recs' \in [0..(n - 1) -> Int]
    BY <2>3, <2>4, <2>6
  <2>8. Sorted(recs', n)
    <3>1. ASSUME NEW i \in 0..(n - 1), NEW j \in 0..(n - 1), i < j
          PROVE  recs'[i] < recs'[j]
      <4>1. i + 1 < j + 1 /\ i + 1 \in 1..n /\ j + 1 \in 1..n
        BY <3>1
      <4>2. QED
        BY <2>2, <2>5, <4>1
    <3>2. QED
      BY <3>1 DEF Sorted
  <2>9. SearchInv'
    <3>1. n \in Nat \ {0} /\ key' \in Int
      BY <1>1, <2>1, KeyAssumption
    <3>2. low' \in 0..nrecs' /\ high' \in (-1)..(nrecs' - 1)
      BY <2>4, <3>1
    <3>3. \A i \in 0..(n - 1) : ~(i < low') /\ ~(i > high')
      BY <2>4, <3>1
    <3>4. pc' # "found" /\ pc' # "absent"
      BY <1>7
    <3>5. Sorted(recs, nrecs)'
      BY <2>4, <2>8 DEF Sorted
    <3>6. QED
      BY <2>4, <2>7, <3>1, <3>2, <3>3, <3>4, <3>5 DEF SearchInv
  <2>10. QED
    BY <1>1, <1>2, <1>3, <1>4, <1>5, <1>7, <2>1, <2>4, <2>5, <2>9 DEF TableInv
<1>8. QED
  BY <1>1, <1>4, <1>5, <1>6, <1>7

LEMMA TableStep == TableInv /\ [TableNext]_tablevars => TableInv'
<1> SUFFICES ASSUME TableInv, [TableNext]_tablevars PROVE TableInv'
  OBVIOUS
<1>1. SortInv /\ SortInv'
  BY SortStep, TableSorts DEF TableInv
<1>2. CASE RunSort
  <2>1. pc' = "sort"
    BY <1>2 DEF RunSort, searchvars
  <2>2. QED
    BY <1>1, <2>1 DEF TableInv
<1>3. CASE OpenFail
  <2>1. pc' = "failed"
    BY <1>3 DEF OpenFail
  <2>2. QED
    BY <1>1, <2>1 DEF TableInv
<1>4. CASE Search
  <2>1. pc = "search" /\ pc' \in {"search", "found", "absent"} /\ UNCHANGED table
    BY <1>4 DEF Search, Found, GoLeft, GoRight, NotFound
  <2>2. spc' = spc /\ printed' = printed
    BY <1>4 DEF Search, sortvars
  <2>3. SearchInv'
    BY <1>4, <2>1, SearchStep DEF TableInv, Search, Next
  <2>4. nrecs' = nrecs /\ recs' = recs
    BY <2>1 DEF table
  <2>5. QED
    BY <1>1, <2>1, <2>2, <2>3, <2>4 DEF TableInv
<1>5. CASE Over \/ UNCHANGED tablevars
  <2>1. pc' = pc /\ nrecs' = nrecs /\ recs' = recs /\ spc' = spc /\ printed' = printed
    BY <1>5 DEF Over, tablevars, searchvars, sortvars
  <2>2. SearchInv => SearchInv'
    <3>1. UNCHANGED vars
      BY <1>5 DEF Over, tablevars, searchvars, vars
    <3>2. QED
      BY <3>1, SearchStep
  <2>3. QED
    BY <1>1, <2>1, <2>2 DEF TableInv
<1>6. QED
  BY <1>2, <1>3, <1>4, <1>5, OpenStep DEF TableNext

\* The table is the merged file, and the search in it goes rightly.
THEOREM TableCorrect == TableSpec => []TableInv
<1>1. QED
  BY TableInitInv, TableStep, PTL DEF TableSpec

\* From any key file to the answer: a key is found iff the file has it, and
\* with the record of its largest offset.
THEOREM LookupCorrect == TableSpec => []LookupRight
<1>1. TableInv => LookupRight
  <2> SUFFICES ASSUME TableInv, key \in Key, key < Tilde, ~collided PROVE LookupRight
    BY DEF LookupRight
  <2>1. ASSUME pc \in {"found", "absent"}
        PROVE  /\ SearchInv /\ nrecs = Len(printed.lines) /\ printed.lines # << >>
               /\ \A j \in 0..(nrecs - 1) : recs[j] = printed.lines[j + 1].key
               /\ FileRight(printed.count, printed.lines) /\ nrecs \in Nat
               /\ DOMAIN printed.lines = 1..nrecs
    <3>1. /\ SearchInv /\ nrecs = Len(printed.lines) /\ printed.lines # << >> /\ spc = "done"
          /\ \A j \in 0..(nrecs - 1) : recs[j] = printed.lines[j + 1].key
      BY <2>1 DEF TableInv
    <3>2. SortInv /\ SortTypeOK
      BY DEF TableInv, SortInv
    <3>3. FileRight(printed.count, printed.lines)
      BY <3>1, <3>2 DEF SortInv
    <3>4. nrecs \in Nat /\ DOMAIN printed.lines = 1..nrecs
      BY <3>1, <3>2, LenProperties DEF SortTypeOK
    <3>5. QED
      BY <3>1, <3>3, <3>4
  <2>2. PICK ls : ls = printed.lines
    OBVIOUS
  <2>3. Known = {} => ls = << >> \/ ls = <<NullLine>> \/ pc \notin {"found", "absent"}
    BY <2>1, <2>2 DEF FileRight
  <2>4. ASSUME pc = "found"
        PROVE  Newest(ls[mid + 1]) /\ ls[mid + 1].key = key
    <3>1. mid \in 0..(nrecs - 1) /\ recs[mid] = key
      BY <2>1, <2>4 DEF SearchInv
    <3>2. ls[mid + 1].key = key /\ mid + 1 \in DOMAIN ls
      BY <2>1, <2>2, <2>4, <3>1
    <3>3. Known # {}
      <4>1. SUFFICES ASSUME Known = {} PROVE FALSE
        OBVIOUS
      <4>2. ls = <<NullLine>>
        BY <2>1, <2>2, <2>4, <4>1 DEF FileRight
      <4>3. ls[1].key = NullKey /\ DOMAIN ls = {1}
        BY <4>2 DEF NullLine
      <4>4. key = NullKey
        BY <3>2, <4>3
      <4>5. QED
        BY <4>4, TildeAssumption
    <3>4. \A j \in DOMAIN ls : Newest(ls[j])
      BY <2>1, <2>2, <2>4, <3>3 DEF FileRight
    <3>5. QED
      BY <3>2, <3>4
  <2>5. ASSUME pc = "absent", NEW m \in DOMAIN lines, lines[m].key = key
        PROVE  FALSE
    <3>1. m \in Known
      BY <2>5 DEF Known
    <3>2. PICK j \in DOMAIN ls : ls[j].key = key
      BY <2>1, <2>2, <2>5, <3>1 DEF FileRight
    <3>3. j \in 1..nrecs /\ nrecs \in Nat
      BY <2>1, <2>2, <2>5
    <3>4. j - 1 \in 0..(nrecs - 1) /\ (j - 1) + 1 = j
      BY <3>3
    <3>5. recs[j - 1] = key
      BY <2>1, <2>2, <2>5, <3>2, <3>4
    <3>6. low > high /\ low \in Int /\ high \in Int /\ key \in Int
      BY <2>1, <2>5 DEF SearchInv
    <3>7. j - 1 < low \/ j - 1 > high
      BY <3>4, <3>6
    <3>8. key < key
      <4>1. /\ j - 1 < low => recs[j - 1] < key
            /\ j - 1 > high => recs[j - 1] > key
        BY <2>1, <2>5, <3>4 DEF SearchInv
      <4>2. QED
        BY <3>5, <3>6, <3>7, <4>1
    <3>9. QED
      BY <3>6, <3>8
  <2>6. QED
    BY <2>2, <2>4, <2>5 DEF LookupRight
<1>2. QED
  BY <1>1, TableCorrect, PTL

\* The table's sort is OZoneSort.
THEOREM TableRunsSort == TableSpec => SortSpec
<1>1. TableInit => SortInit
  BY DEF TableInit
<1>2. QED
  BY <1>1, TableSorts, PTL DEF TableSpec, SortSpec

\* So what ozread_open_kf reads from the pipe is printed rightly, and the files
\* of the sort keep their types.
THEOREM TableReadsSorted == TableSpec => [](SortedRight /\ SortTypeOK)
<1>1. QED
  BY TableRunsSort, SortedRightly, SortTypeCorrect, PTL

\* And the search in the table that was read from it answers rightly.
THEOREM TableSearched == TableSpec => []SearchCorrect
<1>1. TableInv => SearchCorrect
  BY DEF TableInv, SearchInv, SearchCorrect
<1>2. QED
  BY <1>1, TableCorrect, PTL
=============================================================================
