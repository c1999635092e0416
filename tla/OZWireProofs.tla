---------------------------- MODULE OZWireProofs ----------------------------
(***************************************************************************)
(* What is read of what was written: a struct is read as it was written,   *)
(* whatever its fields hold, and a message ends where its struct does.     *)
(* OZRpcProofs builds on these facts about the protocol.                   *)
(***************************************************************************)
EXTENDS OZWire, SequenceTheorems, TLAPS

-----------------------------------------------------------------------------
(* Short sequences, put together and cut. *)

LEMMA CatTwo ==
  ASSUME NEW x, NEW y
  PROVE  <<x>> \o <<y>> = <<x, y>>
<1> DEFINE S == {x, y}
<1>1. <<x>> \in Seq(S) /\ <<y>> \in Seq(S) /\ <<x, y>> \in Seq(S)
  OBVIOUS
<1> HIDE DEF S
<1>2. Len(<<x>> \o <<y>>) = 2 /\ <<x>> \o <<y>> \in Seq(S)
  BY <1>1, ConcatProperties
<1>3. \A i \in 1..2 : (<<x>> \o <<y>>)[i] = <<x, y>>[i]
  <2>1. (<<x>> \o <<y>>)[1] = x /\ (<<x>> \o <<y>>)[2] = y
    BY <1>1, ConcatProperties
  <2>2. \A i \in 1..2 : i = 1 \/ i = 2
    OBVIOUS
  <2>3. QED
    BY <2>1, <2>2
<1>4. Len(<<x, y>>) = 2
  OBVIOUS
<1>5. QED
  BY <1>1, <1>2, <1>3, <1>4, SeqEqual

LEMMA CatThree ==
  ASSUME NEW x, NEW y, NEW z
  PROVE  <<x, y>> \o <<z>> = <<x, y, z>>
<1> DEFINE S == {x, y, z}
           r == <<x, y>> \o <<z>>
<1>1. <<x, y>> \in Seq(S) /\ <<z>> \in Seq(S) /\ <<x, y, z>> \in Seq(S)
  OBVIOUS
<1> HIDE DEF S
<1>2. Len(r) = 3 /\ r \in Seq(S)
  BY <1>1, ConcatProperties
<1>3. \A i \in 1..3 : r[i] = <<x, y, z>>[i]
  <2>1. r[1] = x /\ r[2] = y /\ r[3] = z
    BY <1>1, ConcatProperties
  <2> HIDE DEF r
  <2>2. \A i \in 1..3 : i = 1 \/ i = 2 \/ i = 3
    OBVIOUS
  <2>3. QED
    BY <2>1, <2>2
<1>4. Len(<<x, y, z>>) = 3
  OBVIOUS
<1>5. QED
  <2> HIDE DEF r
  <2>1. r = <<x, y, z>>
    BY <1>1, <1>2, <1>3, <1>4, SeqEqual
  <2>2. QED
    BY <2>1 DEF r

LEMMA CatFour ==
  ASSUME NEW x, NEW y, NEW z, NEW u
  PROVE  <<x>> \o <<y, z, u>> = <<x, y, z, u>>
<1> DEFINE S == {x, y, z, u}
           r == <<x>> \o <<y, z, u>>
<1>1. <<x>> \in Seq(S) /\ <<y, z, u>> \in Seq(S) /\ <<x, y, z, u>> \in Seq(S)
  OBVIOUS
<1> HIDE DEF S
<1>2. Len(r) = 4 /\ r \in Seq(S)
  BY <1>1, ConcatProperties
<1>3. \A i \in 1..4 : r[i] = <<x, y, z, u>>[i]
  <2>1. r[1] = x /\ r[2] = y /\ r[3] = z /\ r[4] = u
    BY <1>1, ConcatProperties
  <2> HIDE DEF r
  <2>2. \A i \in 1..4 : i = 1 \/ i = 2 \/ i = 3 \/ i = 4
    OBVIOUS
  <2>3. QED
    BY <2>1, <2>2
<1>4. Len(<<x, y, z, u>>) = 4
  OBVIOUS
<1>5. QED
  <2> HIDE DEF r
  <2>1. r = <<x, y, z, u>>
    BY <1>1, <1>2, <1>3, <1>4, SeqEqual
  <2>2. QED
    BY <2>1 DEF r

LEMMA FirstOfThree ==
  ASSUME NEW x, NEW y, NEW z
  PROVE  SubSeq(<<x, y, z>>, 1, 1) = <<x>>
<1> DEFINE q == SubSeq(<<x, y, z>>, 1, 1)
<1>1. \A i \in 1..1 : <<x, y, z>>[i] \in {x}
  OBVIOUS
<1>2. q \in Seq({x}) /\ Len(q) = 1 /\ q[1] = x
  BY <1>1, SubSeqProperties
<1> HIDE DEF q
<1>3. <<x>> \in Seq({x}) /\ Len(<<x>>) = 1 /\ <<x>>[1] = x
  OBVIOUS
<1>4. \A i \in 1..1 : i = 1
  OBVIOUS
<1>5. q = <<x>>
  BY <1>2, <1>3, <1>4, SeqEqual
<1>6. QED
  BY <1>5 DEF q

LEMMA CatEmpty ==
  ASSUME NEW x, NEW y
  PROVE  /\ <<x, y>> \o << >> = <<x, y>> /\ << >> \o <<x, y>> = <<x, y>>
         /\ << >> \o << >> = << >> /\ << >> \o <<x>> = <<x>>
<1> DEFINE S == {x, y}
<1>1. <<x, y>> \in Seq(S) /\ << >> \in Seq(S) /\ <<x>> \in Seq(S)
  OBVIOUS
<1> HIDE DEF S
<1>2. QED
  BY <1>1, ConcatEmptySeq

LEMMA CatTwoTwo ==
  ASSUME NEW x, NEW y, NEW z, NEW u
  PROVE  <<x, y>> \o <<z, u>> = <<x, y, z, u>>
<1> DEFINE S == {x, y, z, u}
           r == <<x, y>> \o <<z, u>>
<1>1. <<x, y>> \in Seq(S) /\ <<z, u>> \in Seq(S) /\ <<x, y, z, u>> \in Seq(S)
  OBVIOUS
<1> HIDE DEF S
<1>2. Len(r) = 4 /\ r \in Seq(S)
  BY <1>1, ConcatProperties
<1>3. \A i \in 1..4 : r[i] = <<x, y, z, u>>[i]
  <2>1. r[1] = x /\ r[2] = y /\ r[3] = z /\ r[4] = u
    BY <1>1, ConcatProperties
  <2> HIDE DEF r
  <2>2. \A i \in 1..4 : i = 1 \/ i = 2 \/ i = 3 \/ i = 4
    OBVIOUS
  <2>3. QED
    BY <2>1, <2>2
<1>4. Len(<<x, y, z, u>>) = 4
  OBVIOUS
<1>5. QED
  <2> HIDE DEF r
  <2>1. r = <<x, y, z, u>>
    BY <1>1, <1>2, <1>3, <1>4, SeqEqual
  <2>2. QED
    BY <2>1 DEF r

LEMMA CatFourOne ==
  ASSUME NEW x, NEW y, NEW z, NEW u, NEW v
  PROVE  <<x, y, z, u>> \o <<v>> = <<x, y, z, u, v>>
<1> DEFINE S == {x, y, z, u, v}
           r == <<x, y, z, u>> \o <<v>>
<1>1. <<x, y, z, u>> \in Seq(S) /\ <<v>> \in Seq(S) /\ <<x, y, z, u, v>> \in Seq(S)
  OBVIOUS
<1> HIDE DEF S
<1>2. Len(r) = 5 /\ r \in Seq(S)
  BY <1>1, ConcatProperties
<1>3. \A i \in 1..5 : r[i] = <<x, y, z, u, v>>[i]
  <2>1. r[1] = x /\ r[2] = y /\ r[3] = z /\ r[4] = u /\ r[5] = v
    BY <1>1, ConcatProperties
  <2> HIDE DEF r
  <2>2. \A i \in 1..5 : i = 1 \/ i = 2 \/ i = 3 \/ i = 4 \/ i = 5
    OBVIOUS
  <2>3. QED
    BY <2>1, <2>2
<1>4. Len(<<x, y, z, u, v>>) = 5
  OBVIOUS
<1>5. QED
  <2> HIDE DEF r
  <2>1. r = <<x, y, z, u, v>>
    BY <1>1, <1>2, <1>3, <1>4, SeqEqual
  <2>2. QED
    BY <2>1 DEF r

LEMMA CatSix ==
  ASSUME NEW w, NEW x, NEW y, NEW z, NEW u, NEW v
  PROVE  <<w>> \o <<x, y, z, u, v>> = <<w, x, y, z, u, v>>
<1> DEFINE S == {w, x, y, z, u, v}
           r == <<w>> \o <<x, y, z, u, v>>
<1>1. <<w>> \in Seq(S) /\ <<x, y, z, u, v>> \in Seq(S) /\ <<w, x, y, z, u, v>> \in Seq(S)
  OBVIOUS
<1> HIDE DEF S
<1>2. Len(r) = 6 /\ r \in Seq(S)
  BY <1>1, ConcatProperties
<1>3. \A i \in 1..6 : r[i] = <<w, x, y, z, u, v>>[i]
  <2>1. r[1] = w /\ r[2] = x /\ r[3] = y /\ r[4] = z /\ r[5] = u /\ r[6] = v
    BY <1>1, ConcatProperties
  <2> HIDE DEF r
  <2>2. \A i \in 1..6 : i = 1 \/ i = 2 \/ i = 3 \/ i = 4 \/ i = 5 \/ i = 6
    OBVIOUS
  <2>3. QED
    BY <2>1, <2>2
<1>4. Len(<<w, x, y, z, u, v>>) = 6
  OBVIOUS
<1>5. QED
  <2> HIDE DEF r
  <2>1. r = <<w, x, y, z, u, v>>
    BY <1>1, <1>2, <1>3, <1>4, SeqEqual
  <2>2. QED
    BY <2>1 DEF r

\* Of three pairs and the stop, which a TravPair is, only the places matter.
LEMMA CatSeven ==
  ASSUME NEW a, NEW b, NEW x, NEW y, NEW z, NEW u, NEW v
  PROVE  LET r == (<<a, b>> \o <<x, y>>) \o <<z, u>> \o <<v>> IN
         /\ r \in Seq({a, b, x, y, z, u, v}) /\ Len(r) = 7
         /\ r[1] = a /\ r[2] = b /\ r[3] = x /\ r[4] = y /\ r[5] = z /\ r[6] = u /\ r[7] = v
<1> DEFINE S == {a, b, x, y, z, u, v}
<1>1. <<a, b, x, y>> \in Seq(S) /\ <<z, u>> \in Seq(S) /\ <<v>> \in Seq(S)
  OBVIOUS
<1>2. <<a, b>> \o <<x, y>> = <<a, b, x, y>>
  BY CatTwoTwo
<1> HIDE DEF S
<1>3. PICK q \in Seq(S) : q = <<a, b, x, y>> \o <<z, u>>
  <2>1. <<a, b, x, y>> \o <<z, u>> \in Seq(S)
    BY <1>1, ConcatProperties
  <2>2. QED
    BY <2>1, Zenon
<1>4. /\ Len(q) = 6 /\ q[1] = a /\ q[2] = b /\ q[3] = x /\ q[4] = y /\ q[5] = z /\ q[6] = u
  BY <1>1, <1>3, ConcatProperties
<1>5. PICK r \in Seq(S) : r = q \o <<v>>
  <2>1. q \o <<v>> \in Seq(S)
    BY <1>1, <1>3, ConcatProperties
  <2>2. QED
    BY <2>1, Zenon
<1>6. Len(<<v>>) = 1 /\ <<v>>[1] = v
  OBVIOUS
<1>7. Len(r) = 7 /\ \A i \in 1..7 : r[i] = IF i <= 6 THEN q[i] ELSE <<v>>[i - 6]
  <2>1. Len(r) = Len(q) + Len(<<v>>)
        /\ \A i \in 1..(Len(q) + Len(<<v>>)) : r[i] = IF i <= Len(q) THEN q[i] ELSE <<v>>[i - Len(q)]
    BY <1>1, <1>5, ConcatProperties
  <2>2. QED
    BY <1>4, <1>6, <2>1
<1>8. r[1] = a /\ r[2] = b /\ r[3] = x /\ r[4] = y /\ r[5] = z /\ r[6] = u /\ r[7] = v
  <2>1. r[1] = q[1] /\ r[2] = q[2] /\ r[3] = q[3] /\ r[4] = q[4] /\ r[5] = q[5] /\ r[6] = q[6]
        /\ r[7] = <<v>>[1]
    BY <1>7
  <2>2. QED
    BY <1>4, <1>6, <2>1
<1>9. QED
  BY <1>2, <1>3, <1>5, <1>7, <1>8 DEF S

-----------------------------------------------------------------------------
(* What is written of a struct of one, two or three fields. *)

LEMMA FlattenOne ==
  ASSUME NEW q
  PROVE  FlattenSeq(<<q>>) = q
<1>1. Len(<<q>>) = 1 /\ <<q>>[1] = q
  OBVIOUS
<1> DEFINE F(f) == f = [i \in 1..Len(<<q>>) |-> IF i = 1 THEN <<q>>[i] ELSE f[i - 1] \o <<q>>[i]]
           g == CHOOSE f : F(f)
<1>2. F([i \in 1..1 |-> q])
  <2>1. \A i \in 1..1 : i = 1
    OBVIOUS
  <2>2. QED
    BY <1>1, <2>1
<1>3. F(g)
  BY <1>2
<1>4. g[1] = q
  BY <1>1, <1>3
<1>5. FlattenSeq(<<q>>) = g[1]
  BY <1>1 DEF FlattenSeq
<1>6. QED
  BY <1>4, <1>5

LEMMA FlattenTwo ==
  ASSUME NEW p, NEW q
  PROVE  FlattenSeq(<<p, q>>) = p \o q
<1> DEFINE s == <<p, q>>
           E(f, i) == IF i = 1 THEN s[i] ELSE f[i - 1] \o s[i]
           F(f) == f = [i \in 1..Len(s) |-> E(f, i)]
           g == CHOOSE f : F(f)
<1>1. Len(s) = 2 /\ s[1] = p /\ s[2] = q
  OBVIOUS
<1>2. FlattenSeq(s) = g[2]
  BY <1>1 DEF FlattenSeq
<1> HIDE DEF s
<1>3. /\ \A i \in 1..2 : i = 1 \/ i = 2
      /\ 1 \in 1..2 /\ 2 \in 1..2 /\ 2 # 1 /\ 2 - 1 = 1
  OBVIOUS
<1>4. \E f : F(f)
  <2>1. PICK h : h = [i \in 1..2 |-> IF i = 1 THEN p ELSE p \o q]
    OBVIOUS
  <2>2. h[1] = p /\ h[2] = p \o q
    BY <2>1
  <2>3. E(h, 1) = h[1] /\ E(h, 2) = h[2]
    BY <1>1, <1>3, <2>2
  <2> HIDE DEF E
  <2>4. \A i \in 1..2 : E(h, i) = h[i]
    BY <1>3, <2>3
  <2>5. h = [i \in 1..2 |-> h[i]]
    BY <2>1
  <2>6. F(h)
    BY <1>1, <2>4, <2>5
  <2>7. QED
    BY <2>6
<1>5. F(g)
  BY <1>4
<1> HIDE DEF g, E
<1>6. \A i \in 1..2 : g[i] = E(g, i)
  BY <1>1, <1>5
<1>7. E(g, 1) = s[1] /\ E(g, 2) = g[1] \o s[2]
  BY <1>3 DEF E
<1>8. QED
  <2>1. g[1] = E(g, 1) /\ g[2] = E(g, 2)
    BY <1>3, <1>6
  <2>2. g[2] = p \o q
    BY <1>1, <1>7, <2>1
  <2>3. QED
    BY <1>2, <2>2 DEF s

LEMMA FlattenThree ==
  ASSUME NEW p, NEW q, NEW r, NEW s, s = <<p, q, r>>, NEW y, y = (p \o q) \o r
  PROVE  FlattenSeq(s) = y
<1> DEFINE E(f, i) == IF i = 1 THEN s[i] ELSE f[i - 1] \o s[i]
           F(f) == f = [i \in 1..Len(s) |-> E(f, i)]
           g == CHOOSE f : F(f)
<1>1. Len(s) = 3 /\ s[1] = p /\ s[2] = q /\ s[3] = r
  OBVIOUS
<1>2. FlattenSeq(s) = g[3]
  BY <1>1 DEF FlattenSeq
<1>3. /\ \A i \in 1..3 : i = 1 \/ i = 2 \/ i = 3
      /\ 1 \in 1..3 /\ 2 \in 1..3 /\ 2 # 1 /\ 2 - 1 = 1 /\ 3 \in 1..3 /\ 3 # 1 /\ 3 - 1 = 2
  OBVIOUS
<1>4. \E f : F(f)
  <2>1. PICK h : h = [i \in 1..3 |-> IF i = 1 THEN p ELSE IF i = 2 THEN p \o q ELSE (p \o q) \o r]
    OBVIOUS
  <2>2. h[1] = p /\ h[2] = p \o q /\ h[3] = (p \o q) \o r
    BY <2>1
  <2>3. E(h, 1) = h[1] /\ E(h, 2) = h[2] /\ E(h, 3) = h[3]
    BY <1>1, <1>3, <2>2
  <2> HIDE DEF E
  <2>4. \A i \in 1..3 : E(h, i) = h[i]
    BY <1>3, <2>3
  <2>5. h = [i \in 1..3 |-> h[i]]
    BY <2>1
  <2>6. F(h)
    BY <1>1, <2>4, <2>5
  <2>7. QED
    BY <2>6
<1>5. F(g)
  BY <1>4
<1> HIDE DEF g, E
<1>6. \A i \in 1..3 : g[i] = E(g, i)
  BY <1>1, <1>5
<1>7. E(g, 1) = s[1] /\ E(g, 2) = g[1] \o s[2] /\ E(g, 3) = g[2] \o s[3]
  BY <1>3 DEF E
<1>8. QED
  <2>1. g[1] = E(g, 1) /\ g[2] = E(g, 2) /\ g[3] = E(g, 3)
    BY <1>3, <1>6
  <2>2. g[3] = (p \o q) \o r
    BY <1>1, <1>7, <2>1
  <2>3. QED
    BY <1>2, <2>2

\* A struct of one field is written as the field, its value and the stop, or
\* the stop alone.
LEMMA WriteOne ==
  ASSUME NEW f, NEW ids, NEW set
  PROVE  /\ f.id \in ids /\ f.id \in DOMAIN set =>
              WriteFields(<<f>>, ids, set) = <<FieldBegin(f), Value(set[f.id]), FieldStop>>
         /\ f.id \notin ids => WriteFields(<<f>>, ids, set) = <<FieldStop>>
<1> DEFINE one == IF f.id \in ids
              THEN <<FieldBegin(f), Value(IF f.id \in DOMAIN set THEN set[f.id] ELSE Default)>>
              ELSE << >>
           each == [j \in DOMAIN <<f>> |-> IF <<f>>[j].id \in ids
              THEN <<FieldBegin(<<f>>[j]), Value(IF <<f>>[j].id \in DOMAIN set
                                                 THEN set[<<f>>[j].id] ELSE Default)>>
              ELSE << >>]
<1>1. each = <<one>>
  <2>1. DOMAIN <<f>> = {1} /\ <<f>>[1] = f
    OBVIOUS
  <2>2. each[1] = one /\ DOMAIN each = {1}
    BY <2>1
  <2> HIDE DEF one
  <2>3. DOMAIN <<one>> = {1} /\ <<one>>[1] = one
    OBVIOUS
  <2>4. each = [j \in {1} |-> one] /\ <<one>> = [j \in {1} |-> one]
    BY <2>2, <2>3
  <2>5. QED
    BY <2>4
<1>2. WriteFields(<<f>>, ids, set) = one \o <<FieldStop>>
  <2>1. WriteFields(<<f>>, ids, set) = FlattenSeq(each) \o <<FieldStop>>
    BY Zenon DEF WriteFields
  <2> HIDE DEF each, one
  <2>2. QED
    BY <1>1, <2>1, FlattenOne
<1>3. CASE f.id \in ids /\ f.id \in DOMAIN set
  BY <1>2, <1>3
<1>4. CASE f.id \notin ids
  BY <1>2, <1>4
<1>5. QED
  BY <1>3, <1>4

Piece(f, ids, set) ==
  IF f.id \in ids
  THEN <<FieldBegin(f), Value(IF f.id \in DOMAIN set THEN set[f.id] ELSE Default)>>
  ELSE << >>

LEMMA WriteTwo ==
  ASSUME NEW f, NEW g, NEW ids, NEW set
  PROVE  WriteFields(<<f, g>>, ids, set) =
           (Piece(f, ids, set) \o Piece(g, ids, set)) \o <<FieldStop>>
<1> DEFINE s == <<f, g>>
           each == [j \in DOMAIN s |-> IF s[j].id \in ids
              THEN <<FieldBegin(s[j]), Value(IF s[j].id \in DOMAIN set
                                                 THEN set[s[j].id] ELSE Default)>>
              ELSE << >>]
<1>1. WriteFields(s, ids, set) = FlattenSeq(each) \o <<FieldStop>>
  BY Zenon DEF WriteFields
<1>2. DOMAIN s = {1, 2} /\ s[1] = f /\ s[2] = g
  OBVIOUS
<1>3. each = <<Piece(f, ids, set), Piece(g, ids, set)>>
  <2>1. each = [j \in {1, 2} |-> Piece(s[j], ids, set)]
    BY <1>2 DEF Piece
  <2> HIDE DEF each, s
  <2>2. PICK p, q : p = Piece(f, ids, set) /\ q = Piece(g, ids, set)
    OBVIOUS
  <2>3. each = [j \in {1, 2} |-> IF j = 1 THEN p ELSE q]
    BY <1>2, <2>1, <2>2
  <2>4. <<p, q>> = [j \in {1, 2} |-> IF j = 1 THEN p ELSE q]
    OBVIOUS
  <2>5. QED
    BY <2>2, <2>3, <2>4
<1>4. QED
  <2> HIDE DEF each
  <2>1. FlattenSeq(each) = Piece(f, ids, set) \o Piece(g, ids, set)
    BY <1>3, FlattenTwo
  <2>2. QED
    BY <1>1, <2>1

Three(f, g, h)  == <<f, g, h>>
Joined(p, q, r) == ((p \o q) \o r) \o <<FieldStop>>

LEMMA WriteThree ==
  ASSUME NEW f, NEW g, NEW h, NEW ids, NEW set
  PROVE  WriteFields(Three(f, g, h), ids, set) =
           Joined(Piece(f, ids, set), Piece(g, ids, set), Piece(h, ids, set))
<1>1. PICK s, p, q, r : /\ s = <<f, g, h>> /\ p = Piece(f, ids, set)
                        /\ q = Piece(g, ids, set) /\ r = Piece(h, ids, set)
  OBVIOUS
<1>2. DOMAIN s = {1, 2, 3} /\ s[1] = f /\ s[2] = g /\ s[3] = h
  BY <1>1
<1> DEFINE each == [j \in DOMAIN s |-> IF s[j].id \in ids
              THEN <<FieldBegin(s[j]), Value(IF s[j].id \in DOMAIN set
                                                 THEN set[s[j].id] ELSE Default)>>
              ELSE << >>]
<1>3. WriteFields(s, ids, set) = FlattenSeq(each) \o <<FieldStop>>
  BY Zenon DEF WriteFields
<1>4. each = <<p, q, r>>
  <2>1. each = [j \in {1, 2, 3} |-> Piece(s[j], ids, set)]
    BY <1>2 DEF Piece
  <2> HIDE DEF each
  <2>2. each = [j \in {1, 2, 3} |-> IF j = 1 THEN p ELSE IF j = 2 THEN q ELSE r]
    BY <1>1, <1>2, <2>1
  <2>3. <<p, q, r>> = [j \in {1, 2, 3} |-> IF j = 1 THEN p ELSE IF j = 2 THEN q ELSE r]
    OBVIOUS
  <2>4. QED
    BY <2>2, <2>3
<1>5. QED
  <2> HIDE DEF each
  <2>1. PICK y : y = (p \o q) \o r
    OBVIOUS
  <2>2. FlattenSeq(each) = y
    BY <1>4, <2>1, FlattenThree
  <2>3. WriteFields(s, ids, set) = Joined(p, q, r)
    BY <1>3, <2>1, <2>2, Zenon DEF Joined
  <2>4. s = Three(f, g, h)
    BY <1>1, Zenon DEF Three
  <2>5. QED
    BY <1>1, <2>3, <2>4, Zenon

-----------------------------------------------------------------------------
(* Whole messages, and what is read of them. *)

\* A struct that is read well ends with a stop.
LEMMA ReadEnds ==
  ASSUME NEW s, NEW ts, NEW m \in ReadStruct(s, ts), m.end = "ok"
  PROVE  m.used \in DOMAIN ts /\ ts[m.used].t = "stop"
<1>1. PICK e \in Turns(ts) : m = ReadTo(s, ts, e)
  BY DEF ReadStruct
<1>2. e \in DOMAIN ts
  BY DEF Turns
<1>3. CASE ts[e].t = "stop"
  <2>1. m = [end |-> "ok", used |-> e, set |-> Content(s, ts, e)]
    BY <1>1, <1>3 DEF ReadTo
  <2>2. QED
    BY <1>2, <1>3, <2>1
<1>4. CASE ts[e].t # "stop"
  <2>1. m.end \in {"junk", "deaf", "closed"}
    BY <1>1, <1>4 DEF ReadTo
  <2>2. QED
    BY <2>1
<1>5. QED
  BY <1>3, <1>4

LEMMA FieldIs ==
  ASSUME NEW id, NEW type
  PROVE  /\ Field(id, type).id = id /\ Field(id, type).type = type
         /\ FieldBegin(Field(id, type)).t = "field" /\ FieldBegin(Field(id, type)).id = id
         /\ FieldBegin(Field(id, type)).type = type
BY DEF Field, FieldBegin

\* Behind its header u holds a struct that ends with it.
Message(u, e) ==
  /\ \E S : u \in Seq(S)
  /\ e \in Nat \ {0} /\ Len(u) = e + 1
  /\ DOMAIN Tail(u) = 1..e /\ \A j \in 1..e : Tail(u)[j] = u[j + 1]
  /\ Turns(Tail(u)) = {e} /\ u[e + 1].t = "stop"

LEMMA StructTurns ==
  ASSUME NEW S, NEW ts \in Seq(S), NEW e \in Nat \ {0}, Len(ts) = e, ts[e].t = "stop",
         \A j \in 1..e : j < e => ts[j].t \in IF j % 2 = 1 THEN {"field"} ELSE {"value"}
  PROVE  Turns(ts) = {e}
<1>1. DOMAIN ts = 1..e /\ e \in 1..e
  BY LenProperties
<1>2. Turn(ts, e)
  <2>1. ts[e].t # "field" /\ ts[e].t # "value"
    OBVIOUS
  <2>2. QED
    BY <2>1 DEF Turn
<1>3. ASSUME NEW j \in 1..e, j < e PROVE ~Turn(ts, j)
  BY <1>3, Zenon DEF Turn
<1>4. ASSUME NEW i \in Turns(ts) PROVE i = e
  <2>1. i \in 1..e /\ Turn(ts, i) /\ \A j \in 1..(i - 1) : ~Turn(ts, j)
    BY <1>1, <1>4 DEF Turns
  <2>2. ~(i < e)
    BY <1>3, <2>1
  <2>3. QED
    BY <2>1, <2>2
<1>5. e \in Turns(ts)
  <2>1. \A j \in 1..(e - 1) : j \in 1..e /\ j < e
    OBVIOUS
  <2>2. \A j \in 1..(e - 1) : ~Turn(ts, j)
    BY <1>3, <2>1
  <2>3. QED
    BY <1>1, <1>2, <2>2 DEF Turns
<1>6. QED
  BY <1>4, <1>5

LEMMA StructRead ==
  ASSUME NEW ts, NEW e, Turns(ts) = {e}, ts[e].t = "stop", NEW s
  PROVE  ReadStruct(s, ts) = {[end |-> "ok", used |-> e, set |-> Content(s, ts, e)]}
<1>1. ReadTo(s, ts, e) = [end |-> "ok", used |-> e, set |-> Content(s, ts, e)]
  BY DEF ReadTo
<1>2. {i \in Turns(ts) : ts[i].t \in {"length", "elements"} => i < Len(ts)} = {e}
  OBVIOUS
<1>3. ReadStruct(s, ts) = {ReadTo(s, ts, i) : i \in {e}}
  BY <1>2, Zenon DEF ReadStruct
<1>4. QED
  BY <1>1, <1>3

LEMMA MessageIs ==
  ASSUME NEW S, NEW u \in Seq(S), NEW e \in Nat \ {0}, Len(u) = e + 1, u[e + 1].t = "stop",
         \A j \in 1..e : j < e => u[j + 1].t \in IF j % 2 = 1 THEN {"field"} ELSE {"value"}
  PROVE  Message(u, e)
<1>1. u # << >>
  <2>1. Len(u) # 0
    OBVIOUS
  <2>2. QED
    BY <2>1, EmptySeq
<1>2. PICK ts : ts = Tail(u) /\ ts \in Seq(S) /\ Len(ts) = e /\ \A i \in 1..e : ts[i] = u[i + 1]
  <2>1. /\ Tail(u) \in Seq(S) /\ Len(Tail(u)) = Len(u) - 1
        /\ \A i \in 1..Len(Tail(u)) : Tail(u)[i] = u[i + 1]
    BY <1>1, HeadTailProperties
  <2>2. Len(u) - 1 = e
    OBVIOUS
  <2>3. Tail(u) \in Seq(S) /\ Len(Tail(u)) = e /\ \A i \in 1..e : Tail(u)[i] = u[i + 1]
    BY <2>1, <2>2
  <2>4. QED
    BY <2>3, Zenon
<1>3. DOMAIN ts = 1..e /\ e \in 1..e
  BY <1>2, LenProperties
<1>4. ts[e].t = "stop"
  BY <1>2, <1>3
<1>5. \A j \in 1..e : j < e => ts[j].t \in IF j % 2 = 1 THEN {"field"} ELSE {"value"}
  BY <1>2
<1>6. Turns(ts) = {e}
  BY <1>2, <1>4, <1>5, StructTurns
<1>7. QED
  BY <1>2, <1>3, <1>6 DEF Message

LEMMA MessageRead ==
  ASSUME NEW u, NEW e, Message(u, e)
  PROVE  /\ \A s : ReadStruct(s, Tail(u)) =
                     {[end |-> "ok", used |-> e, set |-> Content(s, Tail(u), e)]}
         /\ SubSeq(u, e + 2, Len(u)) = << >>
         /\ u # << >>
<1>1. e \in Nat \ {0} /\ Len(u) = e + 1 /\ e + 2 \in Int /\ e + 1 \in Int /\ e + 1 < e + 2
  BY DEF Message
<1>2. SubSeq(u, e + 2, Len(u)) = << >>
  BY <1>1, SubSeqEmpty
<1>3. PICK ts : /\ ts = Tail(u) /\ Turns(ts) = {e} /\ ts[e].t = "stop"
  <2>1. e \in 1..e
    BY <1>1
  <2>2. Tail(u)[e] = u[e + 1] /\ u[e + 1].t = "stop" /\ Turns(Tail(u)) = {e}
    BY <2>1 DEF Message
  <2>3. QED
    BY <2>2
<1>4. ASSUME NEW s PROVE ReadStruct(s, ts) = {[end |-> "ok", used |-> e, set |-> Content(s, ts, e)]}
  BY <1>3, StructRead
<1>5. u # << >>
  <2>1. Len(<< >>) = 0 /\ Len(u) # 0
    BY <1>1
  <2>2. QED
    BY <2>1
<1>6. QED
  BY <1>2, <1>3, <1>4, <1>5

\* In a part of a stream nothing ends that did not end there before.
LEMMA TurnsCut ==
  ASSUME NEW S, NEW u \in Seq(S), NEW i \in 0..Len(u), SubSeq(u, 1, i) # << >>
  PROVE  /\ u # << >> /\ i > 0
         /\ \A e \in Turns(Tail(SubSeq(u, 1, i))) : e \in Turns(Tail(u)) /\ e < i
         /\ \A j \in 1..i : SubSeq(u, 1, i)[j] = u[j]
<1>1. PICK n \in Nat : n = Len(u) /\ DOMAIN u = 1..n
  BY LenProperties
<1>2. i \in Nat /\ i <= n
  BY <1>1
<1>3. \A j \in 1..i : u[j] \in S
  <2>1. \A j \in 1..i : j \in 1..Len(u)
    BY <1>1, <1>2
  <2>2. QED
    BY <2>1, ElementOfSeq
<1>4. PICK p \in Seq(S) : p = SubSeq(u, 1, i) /\ Len(p) = i /\ \A j \in 1..i : p[j] = u[j]
  <2>1. /\ SubSeq(u, 1, i) \in Seq(S)
        /\ Len(SubSeq(u, 1, i)) = IF 1 <= i THEN i - 1 + 1 ELSE 0
        /\ \A j \in 1..(i - 1 + 1) : SubSeq(u, 1, i)[j] = u[1 + j - 1]
    <3>1. 1 \in Int /\ i \in Int
      BY <1>2
    <3>2. QED
      BY <1>3, <3>1, SubSeqProperties
  <2>2. (IF 1 <= i THEN i - 1 + 1 ELSE 0) = i /\ i - 1 + 1 = i
    BY <1>2
  <2>3. \A j \in 1..i : 1 + j - 1 = j
    OBVIOUS
  <2>4. Len(SubSeq(u, 1, i)) = i /\ \A j \in 1..i : SubSeq(u, 1, i)[j] = u[j]
    BY <2>1, <2>2, <2>3
  <2>5. QED
    BY <2>1, <2>4, Zenon
<1>5. i # 0
  BY <1>4, EmptySeq
<1>6. u # << >>
  BY <1>1, <1>2, <1>5, EmptySeq
<1>7. PICK ts \in Seq(S) : ts = Tail(u) /\ Len(ts) = n - 1 /\ \A j \in 1..(n - 1) : ts[j] = u[j + 1]
  <2>1. Tail(u) \in Seq(S) /\ Len(Tail(u)) = n - 1 /\ \A j \in 1..(n - 1) : Tail(u)[j] = u[j + 1]
    BY <1>1, <1>6, HeadTailProperties
  <2>2. QED
    BY <2>1, Zenon
<1>8. PICK tp \in Seq(S) : tp = Tail(p) /\ Len(tp) = i - 1 /\ \A j \in 1..(i - 1) : tp[j] = p[j + 1]
  <2>1. Tail(p) \in Seq(S) /\ Len(Tail(p)) = i - 1 /\ \A j \in 1..(i - 1) : Tail(p)[j] = p[j + 1]
    BY <1>4, HeadTailProperties
  <2>2. QED
    BY <2>1, Zenon
<1>9. DOMAIN ts = 1..(n - 1) /\ DOMAIN tp = 1..(i - 1)
  BY <1>7, <1>8, LenProperties
<1>10. \A j \in 1..(i - 1) : j \in 1..(n - 1) /\ tp[j] = ts[j] /\ j < i
  <2>1. ASSUME NEW j \in 1..(i - 1) PROVE j \in 1..(n - 1) /\ tp[j] = ts[j] /\ j < i
    <3>1. j \in 1..(n - 1) /\ j + 1 \in 1..i /\ j < i
      BY <1>2, <1>5
    <3>2. tp[j] = p[j + 1] /\ p[j + 1] = u[j + 1] /\ ts[j] = u[j + 1]
      BY <1>4, <1>7, <1>8, <3>1
    <3>3. QED
      BY <3>1, <3>2
  <2>2. QED
    BY <2>1
<1>11. ASSUME NEW e \in Turns(tp) PROVE e \in Turns(ts) /\ e < i
  <2>1. e \in 1..(i - 1) /\ Turn(tp, e) /\ \A j \in 1..(e - 1) : ~Turn(tp, j)
    BY <1>9, <1>11 DEF Turns
  <2>2. \A j \in 1..(i - 1) : Turn(tp, j) <=> Turn(ts, j)
    BY <1>10, Zenon DEF Turn
  <2>3. \A j \in 1..(e - 1) : j \in 1..(i - 1)
    BY <1>2, <2>1
  <2>4. QED
    BY <1>9, <1>10, <2>1, <2>2, <2>3 DEF Turns
<1>12. QED
  <2>1. i > 0
    BY <1>2, <1>5
  <2>2. QED
    BY <1>4, <1>6, <1>7, <1>8, <1>11, <2>1

\* No field before e but the one at i has this id.
Alone(s, ts, e, i, id) ==
  \A j \in 1..(e - 1) : \A g \in Range(s) : ts[j] = FieldBegin(g) /\ g.id = id => j = i

LEMMA ContentHas ==
  ASSUME NEW s, NEW ts, NEW e, NEW i \in 1..(e - 1), NEW f \in Range(s), NEW x,
         ts[i] = FieldBegin(f), ts[i + 1] = Value(x), NEW id, id = f.id, Alone(s, ts, e, i, id),
         NEW c, c = Content(s, ts, e)
  PROVE  id \in DOMAIN c /\ c[id] = x
<1> DEFINE places == {j \in 1..(e - 1) : \E g \in Range(s) : ts[j] = FieldBegin(g)}
           Val(d) == {ts[j + 1] : j \in {j \in places : ts[j].id = d}}
           One(d) == CHOOSE v \in {IF y.t = "value" THEN y.v ELSE Junk : y \in Val(d)} : TRUE
<1>1. c = [d \in {ts[j].id : j \in places} |-> One(d)]
  BY Zenon DEF Content
<1>2. i \in places /\ ts[i].id = id
  BY DEF FieldBegin
<1>3. {j \in places : ts[j].id = id} = {i}
  <2>1. ASSUME NEW j \in places, ts[j].id = id PROVE j = i
    <3>1. PICK g \in Range(s) : ts[j] = FieldBegin(g)
      BY <2>1
    <3>2. g.id = id
      BY <2>1, <3>1 DEF FieldBegin
    <3>3. QED
      BY <3>1, <3>2 DEF Alone
  <2> HIDE DEF places
  <2>2. QED
    BY <1>2, <2>1
<1>4. Val(id) = {Value(x)}
  <2> HIDE DEF places
  <2>1. Val(id) = {ts[j + 1] : j \in {i}}
    BY <1>3
  <2>2. QED
    BY <2>1
<1>5. One(id) = x
  <2> HIDE DEF Val
  <2>1. Value(x).t = "value" /\ Value(x).v = x
    BY DEF Value
  <2>2. {IF y.t = "value" THEN y.v ELSE Junk : y \in Val(id)} = {x}
    BY <1>4, <2>1
  <2>3. One(id) = CHOOSE v \in {x} : TRUE
    BY <2>2
  <2>4. (CHOOSE v \in {x} : TRUE) = x
    OBVIOUS
  <2>5. QED
    BY <2>3, <2>4
<1>6. id \in {ts[j].id : j \in places}
  BY <1>2
<1>7. QED
  <2> HIDE DEF places, One
  <2>1. QED
    BY <1>1, <1>5, <1>6

LEMMA ContentLacks ==
  ASSUME NEW s, NEW ts, NEW e, NEW id,
         \A j \in 1..(e - 1) : \A g \in Range(s) : ts[j] = FieldBegin(g) => g.id # id
  PROVE  id \notin DOMAIN Content(s, ts, e)
<1> DEFINE places == {j \in 1..(e - 1) : \E g \in Range(s) : ts[j] = FieldBegin(g)}
<1>1. DOMAIN Content(s, ts, e) = {ts[j].id : j \in places}
  BY DEF Content
<1>2. ASSUME NEW j \in places PROVE ts[j].id # id
  <2>1. PICK g \in Range(s) : ts[j] = FieldBegin(g)
    BY <1>2
  <2>2. ts[j].id = g.id
    BY <2>1 DEF FieldBegin
  <2>3. QED
    BY <2>1, <2>2
<1>3. QED
  BY <1>1, <1>2

\* An exception message of Thrift's own.
LEMMA ExceptionIs ==
  ASSUME NEW b, NEW v, NEW kind
  PROVE  <<b>> \o WriteAll(TApplicationException, <<v, kind>>) =
           <<b, FieldBegin(Field(1, "string")), Value(v),
                FieldBegin(Field(2, "i32")), Value(kind), FieldStop>>
<1> DEFINE F == Field(1, "string")
           G == Field(2, "i32")
           set == <<v, kind>>
<1>1. F.id = 1 /\ G.id = 2
  BY FieldIs
<1>2. DOMAIN set = {1, 2} /\ set[1] = v /\ set[2] = kind
  OBVIOUS
<1>3. TApplicationException = <<F, G>>
  BY DEF TApplicationException
<1>4. DOMAIN <<F, G>> = {1, 2} /\ <<F, G>>[1] = F /\ <<F, G>>[2] = G
  OBVIOUS
<1> HIDE DEF F, G, set
<1>5. Ids(<<F, G>>) = {1, 2}
  BY <1>1, <1>4 DEF Ids
<1>6. PICK f, g : f = FieldBegin(F) /\ g = FieldBegin(G)
  OBVIOUS
<1>7. Piece(F, {1, 2}, set) = <<f, Value(v)>> /\ Piece(G, {1, 2}, set) = <<g, Value(kind)>>
  BY <1>1, <1>2, <1>6 DEF Piece
<1>8. WriteAll(TApplicationException, set) = (<<f, Value(v)>> \o <<g, Value(kind)>>) \o <<FieldStop>>
  <2>1. WriteAll(TApplicationException, set) = WriteFields(<<F, G>>, {1, 2}, set)
    BY <1>3, <1>5 DEF WriteAll
  <2>2. WriteFields(<<F, G>>, {1, 2}, set) =
          (Piece(F, {1, 2}, set) \o Piece(G, {1, 2}, set)) \o <<FieldStop>>
    BY WriteTwo
  <2>3. QED
    BY <1>7, <2>1, <2>2
<1>9. PICK x, y, z : x = Value(v) /\ y = Value(kind) /\ z = FieldStop
  OBVIOUS
<1>10. WriteAll(TApplicationException, set) = <<f, x, g, y, z>>
  <2>1. <<f, x>> \o <<g, y>> = <<f, x, g, y>> /\ <<f, x, g, y>> \o <<z>> = <<f, x, g, y, z>>
    BY CatTwoTwo, CatFourOne
  <2>2. QED
    BY <1>8, <1>9, <2>1
<1>11. <<b>> \o <<f, x, g, y, z>> = <<b, f, x, g, y, z>>
  BY CatSix
<1>12. QED
  BY <1>6, <1>9, <1>10, <1>11 DEF F, G, set

-----------------------------------------------------------------------------
(* What is read of short messages. *)

LEMMA ShortMessage ==
  ASSUME NEW b
  PROVE  Message(<<b, FieldStop>>, 1)
<1> DEFINE u == <<b, FieldStop>>
<1>1. u \in Seq({b, FieldStop}) /\ Len(u) = 1 + 1 /\ u[1 + 1] = FieldStop
  OBVIOUS
<1>2. FieldStop.t = "stop"
  BY DEF FieldStop
<1>3. \A j \in 1..1 : ~(j < 1)
  OBVIOUS
<1> HIDE DEF u
<1>4. u[1 + 1].t = "stop" /\ 1 \in Nat \ {0}
  BY <1>1, <1>2
<1>5. Message(u, 1)
  BY <1>1, <1>3, <1>4, MessageIs
<1>6. QED
  BY <1>5 DEF u

LEMMA PairMessage ==
  ASSUME NEW b, NEW f, NEW x, f.t = "field", x.t = "value"
  PROVE  /\ Message(<<b, f, x, FieldStop>>, 3)
         /\ Tail(<<b, f, x, FieldStop>>)[1] = f /\ Tail(<<b, f, x, FieldStop>>)[2] = x
<1>1. PICK u : u = <<b, f, x, FieldStop>>
  OBVIOUS
<1>2. /\ u \in Seq({b, f, x, FieldStop}) /\ Len(u) = 3 + 1 /\ u[3 + 1] = FieldStop
      /\ u[1 + 1] = f /\ u[2 + 1] = x
  BY <1>1
<1>3. FieldStop.t = "stop"
  BY DEF FieldStop
<1>4. /\ \A j \in 1..3 : j < 3 => j = 1 \/ j = 2
      /\ 1 % 2 = 1 /\ 2 % 2 # 1
  OBVIOUS
<1>5. \A j \in 1..3 : j < 3 => u[j + 1].t \in IF j % 2 = 1 THEN {"field"} ELSE {"value"}
  <2>1. u[1 + 1].t \in IF 1 % 2 = 1 THEN {"field"} ELSE {"value"}
    BY <1>2, <1>4
  <2>2. u[2 + 1].t \in IF 2 % 2 = 1 THEN {"field"} ELSE {"value"}
    BY <1>2, <1>4
  <2>3. QED
    BY <1>4, <2>1, <2>2
<1>6. u[3 + 1].t = "stop" /\ 3 \in Nat \ {0}
  BY <1>2, <1>3
<1>7. Message(u, 3)
  BY <1>2, <1>5, <1>6, MessageIs
<1>8. Tail(u)[1] = f /\ Tail(u)[2] = x
  <2>1. 1 \in 1..3 /\ 2 \in 1..3
    OBVIOUS
  <2>2. QED
    BY <1>2, <1>7, <2>1 DEF Message
<1>9. QED
  BY <1>1, <1>7, <1>8

LEMMA LongMessage ==
  ASSUME NEW b, NEW f, NEW x, NEW g, NEW y,
         f.t = "field", x.t = "value", g.t = "field", y.t = "value"
  PROVE  LET u == <<b, f, x, g, y, FieldStop>> IN
         /\ Message(u, 5)
         /\ Tail(u)[1] = f /\ Tail(u)[2] = x /\ Tail(u)[3] = g /\ Tail(u)[4] = y
<1>1. PICK u : u = <<b, f, x, g, y, FieldStop>>
  OBVIOUS
<1>2. /\ u \in Seq({b, f, x, g, y, FieldStop}) /\ Len(u) = 5 + 1 /\ u[5 + 1] = FieldStop
      /\ u[1 + 1] = f /\ u[2 + 1] = x /\ u[3 + 1] = g /\ u[4 + 1] = y
  BY <1>1
<1>3. FieldStop.t = "stop"
  BY DEF FieldStop
<1>4. /\ \A j \in 1..5 : j < 5 => j = 1 \/ j = 2 \/ j = 3 \/ j = 4
      /\ 1 % 2 = 1 /\ 2 % 2 # 1 /\ 3 % 2 = 1 /\ 4 % 2 # 1
  OBVIOUS
<1>5. \A j \in 1..5 : j < 5 => u[j + 1].t \in IF j % 2 = 1 THEN {"field"} ELSE {"value"}
  <2>1. u[1 + 1].t \in IF 1 % 2 = 1 THEN {"field"} ELSE {"value"}
    BY <1>2, <1>4
  <2>2. u[2 + 1].t \in IF 2 % 2 = 1 THEN {"field"} ELSE {"value"}
    BY <1>2, <1>4
  <2>3. u[3 + 1].t \in IF 3 % 2 = 1 THEN {"field"} ELSE {"value"}
    BY <1>2, <1>4
  <2>4. u[4 + 1].t \in IF 4 % 2 = 1 THEN {"field"} ELSE {"value"}
    BY <1>2, <1>4
  <2>5. QED
    BY <1>4, <2>1, <2>2, <2>3, <2>4
<1>6. u[5 + 1].t = "stop" /\ 5 \in Nat \ {0}
  BY <1>2, <1>3
<1>7. Message(u, 5)
  BY <1>2, <1>5, <1>6, MessageIs
<1>8. Tail(u)[1] = f /\ Tail(u)[2] = x /\ Tail(u)[3] = g /\ Tail(u)[4] = y
  <2>1. 1 \in 1..5 /\ 2 \in 1..5 /\ 3 \in 1..5 /\ 4 \in 1..5
    OBVIOUS
  <2>2. QED
    BY <1>2, <1>7, <2>1 DEF Message
<1>9. QED
  BY <1>1, <1>7, <1>8

\* One field and its value.
LEMMA PairContent ==
  ASSUME NEW s, NEW F \in Range(s), NEW v, NEW ts, ts[1] = FieldBegin(F), ts[2] = Value(v),
         NEW id, id = F.id, NEW c, c = Content(s, ts, 3)
  PROVE  (\A d : d \in DOMAIN c <=> d = id) /\ c[id] = v
<1>1. /\ \A j \in 1..(3 - 1) : j = 1 \/ j = 2
      /\ 1 \in 1..(3 - 1) /\ 1 + 1 = 2
  OBVIOUS
<1>2. \A g : ts[2] # FieldBegin(g)
  <2>1. \A g : FieldBegin(g).t = "field"
    BY DEF FieldBegin
  <2>2. Value(v).t = "value"
    BY DEF Value
  <2>3. QED
    BY <2>1, <2>2
<1>3. id \in DOMAIN c /\ c[id] = v
  <2>1. PICK i, e : i = 1 /\ e = 3
    OBVIOUS
  <2>2. Alone(s, ts, e, i, id)
    BY <1>1, <1>2, <2>1 DEF Alone
  <2>3. i \in 1..(e - 1) /\ ts[i] = FieldBegin(F) /\ ts[i + 1] = Value(v) /\ c = Content(s, ts, e)
    BY <1>1, <2>1
  <2>4. QED
    BY <2>2, <2>3, ContentHas
<1>4. ASSUME NEW d, d # id PROVE d \notin DOMAIN c
  <2>1. FieldBegin(F).id = F.id /\ \A g : FieldBegin(g).id = g.id
    BY DEF FieldBegin
  <2>2. \A j \in 1..(3 - 1) : \A g \in Range(s) : ts[j] = FieldBegin(g) => g.id # d
    BY <1>1, <1>2, <1>4, <2>1
  <2>3. QED
    BY <2>2, ContentLacks
<1>5. QED
  BY <1>3, <1>4

LEMMA NoContent ==
  ASSUME NEW s, NEW ts
  PROVE  DOMAIN Content(s, ts, 1) = {}
<1>1. ASSUME NEW id PROVE id \notin DOMAIN Content(s, ts, 1)
  <2>1. \A j \in 1..(1 - 1) : FALSE
    OBVIOUS
  <2>2. QED
    BY <2>1, ContentLacks
<1>2. QED
  BY <1>1

\* Of an exception its message matters.
LEMMA ExceptionContent ==
  ASSUME NEW v, NEW ts, ts[1] = FieldBegin(Field(1, "string")), ts[2] = Value(v),
         ts[3] = FieldBegin(Field(2, "i32")), NEW y, ts[4] = Value(y)
  PROVE  Content(TApplicationException, ts, 5)[1] = v
<1>1. PICK F, G, s : F = Field(1, "string") /\ G = Field(2, "i32") /\ s = TApplicationException
  OBVIOUS
<1>2. F.id = 1 /\ G.id = 2
  BY <1>1, FieldIs
<1>3. s = <<F, G>>
  BY <1>1 DEF TApplicationException
<1>4. F \in Range(s)
  <2>1. 1 \in DOMAIN s /\ s[1] = F
    BY <1>3
  <2>2. QED
    BY <2>1 DEF Range
<1>5. /\ \A j \in 1..(5 - 1) : j = 1 \/ j = 2 \/ j = 3 \/ j = 4
      /\ 1 \in 1..(5 - 1) /\ 1 + 1 = 2
  OBVIOUS
<1>6. \A g : FieldBegin(g).id = g.id /\ FieldBegin(g).t = "field"
  BY DEF FieldBegin
<1>7. Value(v).t = "value" /\ Value(y).t = "value"
  BY DEF Value
<1>8. ts[1] = FieldBegin(F) /\ ts[3] = FieldBegin(G) /\ ts[1 + 1] = Value(v)
  BY <1>1, <1>5
<1>9. \A g : ts[2] # FieldBegin(g) /\ ts[4] # FieldBegin(g) /\ (ts[3] = FieldBegin(g) => g.id = 2)
  BY <1>2, <1>6, <1>7, <1>8
<1>10. \A j \in 1..(5 - 1) : \A g \in Range(s) : ts[j] = FieldBegin(g) /\ g.id = F.id => j = 1
  BY <1>2, <1>5, <1>9
<1>11. PICK c : c = Content(s, ts, 5)
  OBVIOUS
<1>12. c[1] = v
  <2>1. PICK i, e : i = 1 /\ e = 5
    OBVIOUS
  <2>2. i \in 1..(e - 1) /\ ts[i] = FieldBegin(F) /\ ts[i + 1] = Value(v)
    BY <1>5, <1>8, <2>1
  <2>3. PICK id : id = F.id
    OBVIOUS
  <2>4. Alone(s, ts, e, i, id)
    BY <1>10, <2>1, <2>3 DEF Alone
  <2>5. c = Content(s, ts, e)
    BY <1>11, <2>1
  <2>6. id \in DOMAIN c /\ c[id] = v
    BY <1>4, <2>2, <2>3, <2>4, <2>5, ContentHas
  <2>7. QED
    BY <1>2, <2>3, <2>6
<1>13. QED
  BY <1>1, <1>11, <1>12

\* The OZException, as it is written.
Ouch(v) == WriteAll(OZException, <<v>>)

\* What was written as a struct within a result.
LEMMA OZExceptionHeld ==
  ASSUME NEW v
  PROVE  Held(py_OZException, Ouch(v), 1) = v
<1>1. PICK F, s : F = Field(1, "string") /\ s = <<F>> /\ s = OZException /\ s = py_OZException
  BY DEF OZException, py_OZException
<1>2. F.id = 1
  BY <1>1, FieldIs
<1>3. DOMAIN s = {1} /\ s[1] = F /\ DOMAIN <<v>> = {1} /\ <<v>>[1] = v
  BY <1>1
<1>4. Ids(s) = {1} /\ F \in Range(s)
  BY <1>2, <1>3 DEF Ids, Range
<1>5. PICK ts, f, x : f = FieldBegin(F) /\ x = Value(v) /\ ts = <<f, x, FieldStop>>
  OBVIOUS
<1>6. WriteAll(OZException, <<v>>) = ts
  <2>1. WriteFields(<<F>>, {1}, <<v>>) = <<f, x, FieldStop>>
    BY <1>2, <1>3, <1>5, WriteOne
  <2>2. QED
    BY <1>1, <1>4, <1>5, <2>1 DEF WriteAll
<1>7. f.t = "field" /\ x.t = "value" /\ FieldStop.t = "stop"
  BY <1>1, <1>5, FieldIs DEF Value, FieldStop
<1>8. /\ ts \in Seq({f, x, FieldStop}) /\ Len(ts) = 3
      /\ ts[1] = f /\ ts[2] = x /\ ts[3] = FieldStop
  BY <1>5
<1>9. /\ \A j \in 1..3 : j < 3 => j = 1 \/ j = 2
      /\ 1 % 2 = 1 /\ 2 % 2 # 1 /\ 3 \in Nat \ {0}
  OBVIOUS
<1>10. \A j \in 1..3 : j < 3 => ts[j].t \in IF j % 2 = 1 THEN {"field"} ELSE {"value"}
  BY <1>7, <1>8, <1>9
<1>11. Turns(ts) = {3} /\ ts[3].t = "stop"
  BY <1>7, <1>8, <1>9, <1>10, StructTurns
<1>12. ReadStruct(s, ts) = {[end |-> "ok", used |-> 3, set |-> Content(s, ts, 3)]}
  BY <1>11, StructRead
<1>13. PICK c : c = Content(s, ts, 3)
  OBVIOUS
<1>14. c[1] = v
  <2>1. PICK id : id = F.id
    OBVIOUS
  <2>2. ts[1] = FieldBegin(F) /\ ts[2] = Value(v)
    BY <1>5, <1>8
  <2>3. c[id] = v
    BY <1>4, <1>13, <2>1, <2>2, PairContent
  <2>4. QED
    BY <1>2, <2>1, <2>3
<1>15. Held(s, ts, 1) = c[1]
  <2>1. PICK r : r = [end |-> "ok", used |-> 3, set |-> c]
    OBVIOUS
  <2>2. PICK m : m = (CHOOSE any \in ReadStruct(s, ts) : TRUE)
    OBVIOUS
  <2>3. ReadStruct(s, ts) = {r}
    BY <1>12, <1>13, <2>1
  <2>4. m = r /\ r.set = c
    <3>1. m = CHOOSE any \in {r} : TRUE
      BY <2>2, <2>3
    <3>2. (CHOOSE any \in {r} : TRUE) = r
      OBVIOUS
    <3>3. QED
      BY <2>1, <3>1, <3>2
  <2>5. QED
    BY <2>2, <2>4, Zenon DEF Held
<1>16. QED
  BY <1>1, <1>6, <1>13, <1>14, <1>15 DEF Ouch

LEMMA TravPairHeld ==
  ASSUME NEW v
  PROVE  Held(py_TravPair, WriteAll(TravPair, <<v, v, v>>), 2) = v
<1>1. PICK F, G, H : F = Field(1, "string") /\ G = Field(2, "string") /\ H = Field(3, "i32")
  OBVIOUS
<1>2. PICK s : s = <<F, G, H>> /\ s = TravPair /\ s = py_TravPair
  BY <1>1 DEF TravPair, py_TravPair
<1>3. F.id = 1 /\ G.id = 2 /\ H.id = 3
  BY <1>1, FieldIs
<1>4. PICK set : set = <<v, v, v>> /\ DOMAIN set = {1, 2, 3} /\ set[1] = v /\ set[2] = v /\ set[3] = v
  <2>1. PICK set : set = <<v, v, v>>
    OBVIOUS
  <2>2. DOMAIN set = {1, 2, 3} /\ set[1] = v /\ set[2] = v /\ set[3] = v
    BY <2>1
  <2>3. QED
    BY <2>1, <2>2
<1>5. DOMAIN s = {1, 2, 3} /\ s[1] = F /\ s[2] = G /\ s[3] = H
  BY <1>2
<1>6. Ids(s) = {1, 2, 3} /\ G \in Range(s)
  BY <1>3, <1>5 DEF Ids, Range
<1>7. PICK f, g, h : f = FieldBegin(F) /\ g = FieldBegin(G) /\ h = FieldBegin(H)
  OBVIOUS
<1>8. PICK x, z : x = Value(v) /\ z = FieldStop
  OBVIOUS
<1>9. /\ Piece(F, {1, 2, 3}, set) = <<f, x>> /\ Piece(G, {1, 2, 3}, set) = <<g, x>>
      /\ Piece(H, {1, 2, 3}, set) = <<h, x>>
  BY <1>3, <1>4, <1>7, <1>8 DEF Piece
<1>10. PICK ts : ts = ((<<f, x>> \o <<g, x>>) \o <<h, x>>) \o <<z>>
  OBVIOUS
<1>11. WriteAll(TravPair, <<v, v, v>>) = ts
  <2>1. PICK p, q, r : p = <<f, x>> /\ q = <<g, x>> /\ r = <<h, x>>
    OBVIOUS
  <2>2. PICK u : u = ((p \o q) \o r) \o <<FieldStop>> /\ ts = u
    BY <1>8, <1>10, <2>1
  <2>3. p = Piece(F, {1, 2, 3}, set) /\ q = Piece(G, {1, 2, 3}, set) /\ r = Piece(H, {1, 2, 3}, set)
    BY <1>9, <2>1
  <2>4. WriteFields(s, {1, 2, 3}, set) = ts
    <3>1. PICK ids : ids = {1, 2, 3}
      OBVIOUS
    <3>2. s = Three(F, G, H)
      BY <1>2, Zenon DEF Three
    <3>3. Joined(p, q, r) = ts
      BY <2>2, Zenon DEF Joined
    <3>4. p = Piece(F, ids, set) /\ q = Piece(G, ids, set) /\ r = Piece(H, ids, set)
      BY <2>3, <3>1
    <3>5. WriteFields(s, ids, set) = ts
      BY <3>2, <3>3, <3>4, WriteThree
    <3>6. QED
      BY <3>1, <3>5
  <2>5. QED
    BY <1>2, <1>4, <1>6, <2>4 DEF WriteAll
<1>12. /\ ts \in Seq({f, x, g, x, h, x, z}) /\ Len(ts) = 7
       /\ ts[1] = f /\ ts[2] = x /\ ts[3] = g /\ ts[4] = x /\ ts[5] = h /\ ts[6] = x /\ ts[7] = z
  BY <1>10, CatSeven
<1>13. f.t = "field" /\ g.t = "field" /\ h.t = "field" /\ x.t = "value" /\ z.t = "stop"
  BY <1>1, <1>7, <1>8, FieldIs DEF Value, FieldStop
<1>14. /\ \A j \in 1..7 : j < 7 => j = 1 \/ j = 2 \/ j = 3 \/ j = 4 \/ j = 5 \/ j = 6
       /\ 1 % 2 = 1 /\ 2 % 2 # 1 /\ 3 % 2 = 1 /\ 4 % 2 # 1 /\ 5 % 2 = 1 /\ 6 % 2 # 1
       /\ 7 \in Nat \ {0}
  OBVIOUS
<1>15. \A j \in 1..7 : j < 7 => ts[j].t \in IF j % 2 = 1 THEN {"field"} ELSE {"value"}
  BY <1>12, <1>13, <1>14
<1>16. Turns(ts) = {7} /\ ts[7].t = "stop"
  BY <1>12, <1>13, <1>14, <1>15, StructTurns
<1>17. ReadStruct(s, ts) = {[end |-> "ok", used |-> 7, set |-> Content(s, ts, 7)]}
  BY <1>16, StructRead
<1>18. PICK c : c = Content(s, ts, 7)
  OBVIOUS
<1>19. c[2] = v
  <2>1. /\ \A j \in 1..(7 - 1) : j = 1 \/ j = 2 \/ j = 3 \/ j = 4 \/ j = 5 \/ j = 6
        /\ 3 \in 1..(7 - 1) /\ 3 + 1 = 4
    OBVIOUS
  <2>2. \A i : FieldBegin(i).id = i.id /\ FieldBegin(i).t = "field"
    BY DEF FieldBegin
  <2>3. /\ \A i : ts[2] # FieldBegin(i) /\ ts[4] # FieldBegin(i) /\ ts[6] # FieldBegin(i)
        /\ \A i : (ts[1] = FieldBegin(i) => i.id = 1) /\ (ts[5] = FieldBegin(i) => i.id = 3)
    BY <1>3, <1>7, <1>12, <1>13, <2>2
  <2>4. \A j \in 1..(7 - 1) : \A i \in Range(s) : ts[j] = FieldBegin(i) /\ i.id = G.id => j = 3
    BY <1>3, <2>1, <2>3
  <2>5. ts[3] = FieldBegin(G) /\ ts[3 + 1] = Value(v)
    BY <1>7, <1>8, <1>12, <2>1
  <2>6. QED
    <3>1. PICK k, e, id : k = 3 /\ e = 7 /\ id = 2 /\ id = G.id
      BY <1>3
    <3>2. k \in 1..(e - 1) /\ ts[k] = FieldBegin(G) /\ ts[k + 1] = Value(v) /\ c = Content(s, ts, e)
      BY <1>18, <2>1, <2>5, <3>1
    <3>3. Alone(s, ts, e, k, id)
      BY <2>4, <3>1 DEF Alone
    <3>4. c[id] = v
      BY <1>6, <3>1, <3>2, <3>3, ContentHas
    <3>5. QED
      BY <3>1, <3>4
<1>20. Held(s, ts, 2) = c[2]
  <2>1. PICK r : r = [end |-> "ok", used |-> 7, set |-> c]
    OBVIOUS
  <2>2. PICK m : m = (CHOOSE any \in ReadStruct(s, ts) : TRUE)
    OBVIOUS
  <2>3. ReadStruct(s, ts) = {r}
    BY <1>17, <1>18, <2>1
  <2>4. m = r /\ r.set = c
    <3>1. m = CHOOSE any \in {r} : TRUE
      BY <2>2, <2>3
    <3>2. (CHOOSE any \in {r} : TRUE) = r
      OBVIOUS
    <3>3. QED
      BY <2>1, <3>1, <3>2
  <2>5. QED
    BY <2>2, <2>4, Zenon DEF Held
<1>21. QED
  BY <1>2, <1>11, <1>18, <1>19, <1>20
=============================================================================
