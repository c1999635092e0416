---------------------------- MODULE OZTravProofs ----------------------------
(***************************************************************************)
(* The clients of the traversal service receive the documents in order,    *)
(* for any number of clients, any database and any failures.               *)
(***************************************************************************)
EXTENDS OZTrav, SequenceTheorems, TLAPS

\* What a client has received between the cursors a and b.
Pairs(a, b) == [j \in 1..(b - a) |-> LET r == Recs[a + j] IN <<r.key, Document(r)>>]

LEMMA RecType ==
  ASSUME NEW i \in 1..Len(Recs)
  PROVE  /\ Recs[i] \in Record
         /\ Recs[i].key \in DOMAIN KeyLen /\ Recs[i].offset \in Nat
         /\ Recs[i].length \in Nat \ {0} /\ KeyLen[Recs[i].key] \in Nat \ {0}
<1>1. Recs[i] \in Record
  BY RecsAssumption, ElementOfSeq
<1>2. QED
  BY <1>1, KeyAssumption DEF Record

LEMMA RecsLength == Len(Recs) \in Nat \ {0} /\ DOMAIN Recs = 1..Len(Recs)
BY RecsAssumption, LenProperties, EmptySeq

LEMMA NullIsNothing == Null \notin Seq(Byte) /\ Null \notin DOMAIN KeyLen
BY FileAssumption

LEMMA PairsType ==
  ASSUME NEW a \in Nat, NEW b \in Nat, a <= b
  PROVE  /\ Pairs(a, b) \in Seq({<<Recs[i].key, Document(Recs[i])>> : i \in Nat})
         /\ Len(Pairs(a, b)) = b - a
<1> DEFINE S == {<<Recs[i].key, Document(Recs[i])>> : i \in Nat}
<1>1. Pairs(a, b) \in Seq(S)
  <2>1. Pairs(a, b) \in [1..(b - a) -> S]
    BY DEF Pairs
  <2>2. b - a \in Nat
    OBVIOUS
  <2>3. QED
    BY <2>1, <2>2, SeqDef
<1>2. DOMAIN Pairs(a, b) = 1..(b - a)
  BY DEF Pairs
<1> HIDE DEF S
<1>3. Len(Pairs(a, b)) \in Nat /\ DOMAIN Pairs(a, b) = 1..Len(Pairs(a, b))
  BY <1>1, LenProperties
<1>4. Len(Pairs(a, b)) = b - a
  BY <1>2, <1>3
<1>5. QED
  BY <1>1, <1>4 DEF S

LEMMA NoPairs == \A a \in Nat : Pairs(a, a) = << >>
<1> SUFFICES ASSUME NEW a \in Nat PROVE Pairs(a, a) = << >>
  OBVIOUS
<1>1. a <= a /\ a - a = 0
  OBVIOUS
<1>2. Len(Pairs(a, a)) = 0
  BY <1>1, PairsType
<1>3. QED
  BY <1>1, <1>2, PairsType, EmptySeq

LEMMA PairsGrow ==
  ASSUME NEW a \in Nat, NEW b \in Nat, a <= b
  PROVE  Append(Pairs(a, b), <<Recs[b + 1].key, Document(Recs[b + 1])>>) = Pairs(a, b + 1)
<1> DEFINE S == {<<Recs[i].key, Document(Recs[i])>> : i \in Nat}
           x == <<Recs[b + 1].key, Document(Recs[b + 1])>>
<1>1. Pairs(a, b) \in Seq(S) /\ Len(Pairs(a, b)) = b - a
  BY PairsType
<1>2. x \in S
  OBVIOUS
<1> HIDE DEF S, x
<1>3. /\ DOMAIN Append(Pairs(a, b), x) = 1..(b - a + 1)
      /\ \A j \in 1..(b - a) : Append(Pairs(a, b), x)[j] = Pairs(a, b)[j]
      /\ Append(Pairs(a, b), x)[b - a + 1] = x
  BY <1>1, <1>2, AppendProperties
<1>4. \A j \in 1..(b - a) : Pairs(a, b)[j] = Pairs(a, b + 1)[j]
  BY DEF Pairs
<1>5. Pairs(a, b + 1)[b - a + 1] = x
  BY DEF Pairs, x
<1>6. QED
  BY <1>3, <1>4, <1>5 DEF Pairs, x

-----------------------------------------------------------------------------
(* The inductive invariant. *)

LEMMA TravInit == Init => TravInv
<1> SUFFICES ASSUME Init PROVE TravInv
  OBVIOUS
<1>1. TypeOK
  BY RecsLength DEF Init, TypeOK, Labels
<1>2. HeldInv /\ StepInv
  BY <1>1 DEF Init, HeldInv, StepInv, StepOf, Inside, Labels, TypeOK
<1>3. GotInOrder
  <2>1. ASSUME NEW c \in Client PROVE at[c] = from[c] /\ from[c] \in Nat /\ got[c] = << >>
    BY <1>1 DEF Init, TypeOK
  <2>2. QED
    BY <2>1, NoPairs DEF GotInOrder, Pairs
<1>4. QED
  BY <1>1, <1>2, <1>3 DEF TravInv

\* The record the client served is at, and its document if that is all there.
LEMMA RecAt ==
  ASSUME TypeOK, cur < Len(Recs)
  PROVE  /\ Rec = Recs[cur + 1] /\ cur + 1 \in 1..Len(Recs)
         /\ Rec.key \in DOMAIN KeyLen /\ Rec.offset \in Nat /\ Rec.length \in Nat \ {0}
         /\ KeyLen[Rec.key] \in Nat \ {0}
BY RecsLength, RecType DEF TypeOK, Rec

LEMMA FileBytes ==
  ASSUME NEW i \in Nat, NEW l \in Nat, i + l <= Len(File)
  PROVE  SubSeq(File, i + 1, i + l) \in Seq(Byte)
<1>1. \A j \in (i + 1)..(i + l) : File[j] \in Byte
  BY FileAssumption, ElementOfSeq, LenProperties
<1>2. QED
  BY <1>1, FileAssumption, SubSeqProperties

LEMMA GotoType ==
  ASSUME TypeOK, NEW c \in Client, NEW s, NEW t \in Labels, Goto(c, s, t)
  PROVE  pc' \in [Client -> Labels]
BY DEF TypeOK, Goto

LEMMA ReturnType ==
  ASSUME TypeOK, NEW c \in Client, NEW s, NEW code \in 0..3, Return(c, s, code)
  PROVE  pc' \in [Client -> Labels] /\ ret' \in [Client -> 0..3]
BY GotoType DEF TypeOK, Return, Labels

LEMMA TypeStep == TravInv /\ [Next]_vars => TypeOK'
<1> SUFFICES ASSUME TravInv, [Next]_vars PROVE TypeOK'
  OBVIOUS
<1> USE DEF TravInv
<1> USE GotoType, ReturnType
<1>0. "call" \in Labels /\ "next" \in Labels /\ "buffer" \in Labels /\ "fread" \in Labels
      /\ "key" \in Labels /\ "copy" \in Labels /\ "reply" \in Labels /\ "end" \in Labels
  BY DEF Labels
<1>1. CASE UNCHANGED vars
  BY <1>1 DEF TypeOK, vars
<1>2. ASSUME NEW c \in Client, Lock(c) PROVE TypeOK'
  BY <1>0, <1>2 DEF Lock, TypeOK, buffers, client
<1>3. ASSUME NEW c \in Client, ReachEnd(c) PROVE TypeOK'
  BY <1>3 DEF ReachEnd, TypeOK, buffers, client
<1>4. ASSUME NEW c \in Client, Seek(c) PROVE TypeOK'
  BY <1>0, <1>4, RecAt DEF Seek, TypeOK, buffers, client
<1>5. ASSUME NEW c \in Client, SeekFail(c) PROVE TypeOK'
  BY <1>5 DEF SeekFail, Fails, TypeOK, buffers, client
<1>6. ASSUME NEW c \in Client, ValueBuffer(c) PROVE TypeOK'
  <2>1. Rec.length \in Nat
    BY <1>6, RecAt DEF ValueBuffer, Goto, StepInv, StepOf
  <2>2. << >> \in Seq(Byte)
    BY EmptySeq
  <2>3. pc' \in [Client -> Labels]
    BY <1>0, <1>6 DEF ValueBuffer
  <2>4. value' \in Seq(Byte) \cup {Null} /\ valuealloc' \in Nat
    <3>1. \/ value' = << >> /\ valuealloc' = Rec.length + 1
          \/ value' = value /\ valuealloc' = valuealloc
      BY <1>6 DEF ValueBuffer
    <3>2. value \in Seq(Byte) \cup {Null} /\ valuealloc \in Nat
      BY DEF TypeOK
    <3>3. value' \in Seq(Byte) \cup {Null}
      BY <2>2, <3>1, <3>2, Zenon
    <3>4. valuealloc' \in Nat
      BY <2>1, <3>1, <3>2
    <3>5. QED
      BY <3>3, <3>4
  <2>5. UNCHANGED <<up, lock, pos, cur, key, keyalloc, ret, at, from, got, failures>>
    BY <1>6 DEF ValueBuffer, client
  <2>6. QED
    BY <2>3, <2>4, <2>5, Zenon DEF TypeOK
<1>7. ASSUME NEW c \in Client, ValueBufferFail(c) \/ KeyBufferFail(c) PROVE TypeOK'
  <2>1. pc' \in [Client -> Labels] /\ ret' \in [Client -> 0..3]
    BY <1>7 DEF ValueBufferFail, KeyBufferFail
  <2>2. failures' \in Nat
    BY <1>7 DEF ValueBufferFail, KeyBufferFail, Fails, TypeOK
  <2>3. CASE ValueBufferFail(c)
    BY <2>1, <2>2, <2>3 DEF ValueBufferFail, TypeOK, client
  <2>4. CASE KeyBufferFail(c)
    BY <2>1, <2>2, <2>4 DEF KeyBufferFail, TypeOK, client
  <2>5. QED
    BY <1>7, <2>3, <2>4
<1>8. ASSUME NEW c \in Client, ReadValue(c) PROVE TypeOK'
  <2>1. Rec.length \in Nat /\ pos \in Nat
    BY <1>8, RecAt DEF ReadValue, Goto, StepInv, StepOf, TypeOK
  <2>2. value' \in Seq(Byte) /\ pos' \in Nat
    <3>1. /\ pos + Rec.length <= Len(File) /\ pos' = pos + Rec.length
          /\ value' = SubSeq(File, pos + 1, pos + Rec.length)
      BY <1>8 DEF ReadValue
    <3>2. SubSeq(File, pos + 1, pos + Rec.length) \in Seq(Byte)
      BY <2>1, <3>1, FileBytes
    <3>3. QED
      BY <2>1, <3>1, <3>2
  <2>3. pc' \in [Client -> Labels]
    BY <1>0, <1>8 DEF ReadValue
  <2>4. QED
    BY <1>8, <2>2, <2>3 DEF ReadValue, TypeOK, client
<1>9. ASSUME NEW c \in Client, ReadFail(c) PROVE TypeOK'
  <2>1. Len(File) \in Nat
    BY FileAssumption, LenProperties
  <2>2. pos' \in Nat
    BY <1>9, <2>1 DEF ReadFail, TypeOK
  <2>3. failures' \in Nat
    BY <1>9 DEF ReadFail, Fails, TypeOK
  <2>4. QED
    BY <1>9, <2>2, <2>3 DEF ReadFail, TypeOK, buffers, client
<1>10. CASE Die
  BY <1>10 DEF Die, TypeOK, Labels, buffers, client
<1>11. ASSUME NEW c \in Client, ReadNull(c) PROVE TypeOK'
  <2>1. CASE Return(c, "fread", 2) /\ UNCHANGED <<up, lock, pos, cur, buffers, client, failures>>
    BY <2>1 DEF TypeOK, buffers, client
  <2>2. QED
    BY <1>10, <1>11, <2>1 DEF ReadNull
<1>12. ASSUME NEW c \in Client, KeyBuffer(c) PROVE TypeOK'
  <2>1. pc' \in [Client -> Labels]
    BY <1>0, <1>12 DEF KeyBuffer
  <2>2. key' \in DOMAIN KeyLen \cup {Null} /\ keyalloc' \in Nat
    <3>1. Rec.key \in DOMAIN KeyLen /\ KeyLen[Rec.key] \in Nat
      BY <1>12, RecAt DEF KeyBuffer, Goto, StepInv, StepOf
    <3>2. \/ key' = Rec.key /\ keyalloc' = KeyLen[Rec.key] + 1
          \/ key' = key /\ keyalloc' = keyalloc
      BY <1>12 DEF KeyBuffer
    <3>3. key \in DOMAIN KeyLen \cup {Null} /\ keyalloc \in Nat
      BY DEF TypeOK
    <3>4. QED
      BY <3>1, <3>2, <3>3
  <2>3. QED
    BY <1>12, <2>1, <2>2 DEF KeyBuffer, TypeOK, client
<1>13. ASSUME NEW c \in Client, CopyKey(c) PROVE TypeOK'
  <2>1. cur' \in 0..Len(Recs) /\ key' \in DOMAIN KeyLen \cup {Null}
    BY <1>13, RecAt, RecsLength DEF CopyKey, Return, TypeOK, Goto, StepInv, StepOf
  <2>2. QED
    BY <1>13, <2>1 DEF CopyKey, TypeOK, client
<1>14. ASSUME NEW c \in Client, Reply(c) PROVE TypeOK'
  <2>1. /\ value \in Seq(Byte) /\ key \in DOMAIN KeyLen
        /\ cur \in 1..Len(Recs)
    <3>1. cur = at[c] + 1 /\ key = Recs[cur].key /\ value # Null
      BY <1>14 DEF Reply, Goto, StepInv, StepOf
    <3>2. QED
      BY <3>1, RecType DEF TypeOK
  <2>2. got' \in [Client -> Seq((DOMAIN KeyLen) \X Seq(Byte))]
    BY <1>14, <2>1, AppendProperties DEF Reply, TypeOK
  <2>3. pc' \in [Client -> Labels]
    BY <1>0, <1>14 DEF Reply
  <2>4. QED
    BY <1>14, <2>1, <2>2, <2>3 DEF Reply, TypeOK, buffers
<1>15. ASSUME NEW c \in Client, ReplyEnd(c) PROVE TypeOK'
  BY <1>0, <1>15 DEF ReplyEnd, TypeOK, buffers, client
<1>16. ASSUME NEW c \in Client, ReplyFailed(c) PROVE TypeOK'
  <2>1. << >> \in Seq((DOMAIN KeyLen) \X Seq(Byte)) /\ 0 \in 0..Len(Recs)
    BY RecsLength, EmptySeq
  <2>2. pc' \in [Client -> Labels]
    BY <1>0, <1>16 DEF ReplyFailed
  <2>3. QED
    BY <1>16, <2>1, <2>2 DEF ReplyFailed, TypeOK, buffers
<1>17. QED
  BY <1>1, <1>2, <1>3, <1>4, <1>5, <1>6, <1>7, <1>8, <1>9, <1>10, <1>11, <1>12, <1>13,
     <1>14, <1>15, <1>16 DEF Next, Work, CopyNull, Quiet

\* Nobody is inside with the client that holds the mutex.
LEMMA Alone ==
  ASSUME HeldInv, NEW c \in Client, Inside(c)
  PROVE  lock = c /\ \A d \in Client : Inside(d) => d = c
BY DEF HeldInv

LEMMA HeldStep == TravInv /\ [Next]_vars => HeldInv'
<1> SUFFICES ASSUME TypeOK, HeldInv, [Next]_vars PROVE HeldInv'
  BY DEF TravInv
<1>1. CASE UNCHANGED vars
  BY <1>1 DEF HeldInv, Inside, vars
<1>2. ASSUME NEW c \in Client, Lock(c) PROVE HeldInv'
  <2>1. \A d \in Client : ~Inside(d)
    BY <1>2, LockAssumption DEF HeldInv, Lock
  <2>2. QED
    BY <1>2, <2>1 DEF HeldInv, Lock, Goto, Inside, TypeOK, Labels
\* A step inside oztrav_next leaves the client inside, under the mutex.
<1>3. ASSUME NEW c \in Client, NEW s \in Labels, NEW t \in Labels, Goto(c, s, t), lock' = lock,
             s # "call" /\ s # "end"
      PROVE  HeldInv'
  BY <1>3 DEF HeldInv, Goto, Inside, TypeOK
<1>4. ASSUME NEW c \in Client, ReachEnd(c) \/ Seek(c) \/ SeekFail(c) \/ ValueBuffer(c)
                               \/ ValueBufferFail(c) \/ ReadValue(c) \/ ReadFail(c)
                               \/ KeyBuffer(c) \/ KeyBufferFail(c) \/ CopyKey(c)
                               \/ (ReadNull(c) /\ ~Die)
      PROVE  HeldInv'
  <2>1. lock' = lock
    BY <1>4 DEF ReachEnd, Seek, SeekFail, ValueBuffer, ValueBufferFail, ReadValue, ReadFail,
                KeyBuffer, KeyBufferFail, CopyKey, ReadNull
  <2>2. \E s, t \in Labels : Goto(c, s, t) /\ s # "call" /\ s # "end"
    BY <1>4 DEF ReachEnd, Seek, SeekFail, ValueBuffer, ValueBufferFail, ReadValue, ReadFail,
                KeyBuffer, KeyBufferFail, CopyKey, ReadNull, Return, Labels
  <2>3. QED
    BY <1>3, <2>1, <2>2
<1>5. CASE Die
  BY <1>5 DEF Die, HeldInv, Inside, Labels
<1>6. ASSUME NEW c \in Client, Reply(c) \/ ReplyEnd(c) \/ ReplyFailed(c) PROVE HeldInv'
  <2>1. Inside(c)
    BY <1>6 DEF Reply, ReplyEnd, ReplyFailed, Goto, Inside, Labels
  <2>2. \A d \in Client : Inside(d)' => Inside(d) /\ d # c
    BY <1>6 DEF Reply, ReplyEnd, ReplyFailed, Goto, Inside, Labels, TypeOK
  <2>3. QED
    BY <2>1, <2>2, Alone DEF HeldInv
<1>7. QED
  BY <1>1, <1>2, <1>4, <1>5, <1>6 DEF Next, Work, CopyNull, ReadNull, Quiet

\* A client that is not inside has nothing in the cursor and the buffers.
LEMMA OutsideKept ==
  ASSUME TypeOK, StepInv, NEW d \in Client, ~Inside(d),
         pc'[d] = pc[d], at'[d] = at[d], from'[d] = from[d], up' = up
  PROVE  StepOf(d)'
<1>1. pc[d] = "call" \/ pc[d] = "end"
  BY DEF Inside, TypeOK
<1>2. QED
  BY <1>1 DEF StepInv, StepOf

\* What a step of the client c does to the others.
LEMMA OthersKept ==
  ASSUME TypeOK, StepInv, NEW c \in Client, \A d \in Client : Inside(d) => d = c,
         NEW s, NEW t, Goto(c, s, t), up' = up,
         \A d \in Client : d # c => at'[d] = at[d] /\ from'[d] = from[d],
         StepOf(c)'
  PROVE  StepInv'
<1>1. ASSUME NEW d \in Client, d # c PROVE StepOf(d)'
  BY <1>1, OutsideKept DEF Goto, TypeOK
<1>2. QED
  BY <1>1 DEF StepInv

LEMMA StepStep == TravInv /\ [Next]_vars => StepInv'
<1> SUFFICES ASSUME TypeOK, HeldInv, StepInv, [Next]_vars PROVE StepInv'
  BY DEF TravInv
<1>1. CASE UNCHANGED vars
  BY <1>1 DEF StepInv, StepOf, Rec, Document, vars
<1>2. ASSUME NEW c \in Client, Lock(c) PROVE StepInv'
  <2>1. \A d \in Client : ~Inside(d)
    BY <1>2, LockAssumption DEF HeldInv, Lock
  <2>2. StepOf(c)'
    BY <1>2 DEF Lock, Goto, StepInv, StepOf, TypeOK, client
  <2>3. QED
    BY <1>2, <2>1, <2>2, OthersKept DEF Lock, client
<1>3. CASE Die
  <2>1. ASSUME NEW c \in Client PROVE StepOf(c)'
    BY <1>3 DEF Die, StepInv, StepOf, client
  <2>2. QED
    BY <2>1 DEF StepInv
\* The steps of oztrav_next.
<1>4. ASSUME NEW c \in Client, NEW s \in Labels, NEW t, Goto(c, s, t), s # "call" /\ s # "end",
             up' = up, UNCHANGED client, StepOf(c)'
      PROVE  StepInv'
  <2>1. \A d \in Client : Inside(d) => d = c
    BY <1>4, Alone DEF Goto, Inside
  <2>2. QED
    BY <1>4, <2>1, OthersKept DEF client
<1> DEFINE Quits(c, code) == \E s \in Labels : Return(c, s, code) /\ s # "call" /\ s # "end"
<1>5. ASSUME NEW c \in Client, Quits(c, 2) \/ Quits(c, 3), up' = up, UNCHANGED client
      PROVE  StepInv'
  <2>1. PICK s \in Labels : Goto(c, s, "reply") /\ s # "call" /\ s # "end"
    BY <1>5 DEF Return
  <2>2. ret'[c] \in {2, 3} /\ pc'[c] = "reply"
    BY <1>5 DEF Return, Goto, TypeOK
  <2>3. StepOf(c)'
    BY <1>5, <2>2 DEF StepInv, StepOf, client
  <2>4. QED
    BY <1>4, <1>5, <2>1, <2>3
<1>6. ASSUME NEW c \in Client, ReachEnd(c) PROVE StepInv'
  <2>1. StepOf(c)'
    BY <1>6, RecsLength DEF ReachEnd, Return, Goto, StepInv, StepOf, TypeOK, client
  <2>2. QED
    BY <1>4, <1>6, <2>1 DEF ReachEnd, Return, Labels
<1>7. ASSUME NEW c \in Client, Seek(c) PROVE StepInv'
  <2>1. StepOf(c)'
    BY <1>7 DEF Seek, Goto, StepInv, StepOf, TypeOK, Rec, client
  <2>2. QED
    BY <1>4, <1>7, <2>1 DEF Seek, Labels
<1>8. ASSUME NEW c \in Client,
             SeekFail(c) \/ ValueBufferFail(c) \/ ReadFail(c) \/ KeyBufferFail(c)
             \/ (ReadNull(c) /\ ~Die)
      PROVE  StepInv'
  <2>1. Quits(c, 2) \/ Quits(c, 3)
    BY <1>8 DEF SeekFail, ValueBufferFail, ReadFail, KeyBufferFail, ReadNull, Labels
  <2>2. up' = up /\ UNCHANGED client
    BY <1>8 DEF SeekFail, ValueBufferFail, ReadFail, KeyBufferFail, ReadNull
  <2>3. QED
    BY <1>5, <2>1, <2>2
<1>9. ASSUME NEW c \in Client, ValueBuffer(c) PROVE StepInv'
  <2>1. cur < Len(Recs) /\ cur = at[c] /\ pos = Rec.offset /\ Rec' = Rec
    BY <1>9 DEF ValueBuffer, Goto, StepInv, StepOf, Rec
  <2>2. Rec.length < valuealloc'
    BY <1>9, <2>1, RecAt DEF ValueBuffer, TypeOK
  <2>3. StepOf(c)'
    BY <1>9, <2>1, <2>2 DEF ValueBuffer, Goto, StepInv, StepOf, TypeOK, client
  <2>4. QED
    BY <1>4, <1>9, <2>3 DEF ValueBuffer, Labels
<1>10. ASSUME NEW c \in Client, ReadValue(c) PROVE StepInv'
  <2>1. cur < Len(Recs) /\ cur = at[c] /\ pos = Rec.offset /\ Rec' = Rec
    BY <1>10 DEF ReadValue, Goto, StepInv, StepOf, Rec
  <2>2. value' = Document(Rec)
    BY <1>10, <2>1 DEF ReadValue, Document
  <2>3. value' # Null
    BY <1>10, <2>1, RecAt, FileBytes, NullIsNothing DEF ReadValue
  <2>4. StepOf(c)'
    BY <1>10, <2>1, <2>2, <2>3 DEF ReadValue, Goto, StepInv, StepOf, TypeOK, client, Document
  <2>5. QED
    BY <1>4, <1>10, <2>4 DEF ReadValue, Labels
<1>11. ASSUME NEW c \in Client, KeyBuffer(c) PROVE StepInv'
  <2>1. /\ cur < Len(Recs) /\ cur = at[c] /\ Rec' = Rec
        /\ value # Null /\ value = Document(Rec)
    BY <1>11 DEF KeyBuffer, Goto, StepInv, StepOf, Rec
  <2>2. KeyLen[Rec.key] < keyalloc'
    BY <1>11, <2>1, RecAt DEF KeyBuffer, TypeOK
  <2>3. StepOf(c)'
    BY <1>11, <2>1, <2>2 DEF KeyBuffer, Goto, StepInv, StepOf, TypeOK, client, Document
  <2>4. QED
    BY <1>4, <1>11, <2>3 DEF KeyBuffer, Labels
<1>12. ASSUME NEW c \in Client, CopyKey(c) PROVE StepInv'
  <2>1. /\ cur = at[c] /\ cur' = cur + 1 /\ Rec = Recs[cur'] /\ key' = Rec.key
        /\ value' # Null /\ value' = Document(Rec)
    BY <1>12 DEF CopyKey, Return, Goto, StepInv, StepOf, Rec
  <2>2. /\ pc'[c] = "reply" /\ ret'[c] = 0 /\ at' = at /\ from' = from
        /\ from[c] <= at[c]
    BY <1>12 DEF CopyKey, Return, Goto, StepInv, StepOf, TypeOK, client
  <2>3. key' = Recs[cur'].key /\ value' = Document(Recs[cur']) /\ cur' = at'[c] + 1
    BY <2>1, <2>2
  <2>4. StepOf(c)'
    BY <2>1, <2>2, <2>3 DEF StepOf, Document
  <2>5. QED
    BY <1>4, <1>12, <2>4 DEF CopyKey, Return, Labels
<1>13. ASSUME NEW c \in Client, Reply(c) \/ ReplyEnd(c) \/ ReplyFailed(c) PROVE StepInv'
  <2>1. \A d \in Client : Inside(d) => d = c
    BY <1>13, Alone DEF Reply, ReplyEnd, ReplyFailed, Goto, Inside, Labels
  <2>2. from'[c] <= at'[c]
    BY <1>13 DEF Reply, ReplyEnd, ReplyFailed, Goto, StepInv, StepOf, TypeOK, client
  <2>3. \/ pc'[c] = "call"
        \/ pc'[c] = "end" /\ at'[c] = Len(Recs)
    BY <1>13 DEF Reply, ReplyEnd, ReplyFailed, Goto, StepInv, StepOf, TypeOK, client
  <2>4. StepOf(c)'
    BY <2>2, <2>3 DEF StepOf
  <2>5. /\ up' = up /\ \E s, t \in Labels : Goto(c, s, t)
        /\ \A d \in Client : d # c => at'[d] = at[d] /\ from'[d] = from[d]
    BY <1>13 DEF Reply, ReplyEnd, ReplyFailed, TypeOK, client, Labels
  <2>6. QED
    BY <2>1, <2>4, <2>5, OthersKept
<1>14. QED
  BY <1>1, <1>2, <1>3, <1>6, <1>7, <1>8, <1>9, <1>10, <1>11, <1>12, <1>13
     DEF Next, Work, CopyNull, ReadNull, Quiet

\* The pairs the clients have.
LEMMA GotStep == TravInv /\ [Next]_vars => GotInOrder'
<1> SUFFICES ASSUME TypeOK, StepInv, GotInOrder, [Next]_vars PROVE GotInOrder'
  BY DEF TravInv
<1>1. CASE UNCHANGED client
  BY <1>1 DEF GotInOrder, client, Document
<1>2. ASSUME NEW c \in Client, Reply(c) PROVE GotInOrder'
  <2>1. /\ cur = at[c] + 1 /\ key = Recs[cur].key /\ value = Document(Recs[cur])
        /\ from[c] <= at[c]
    BY <1>2 DEF Reply, Goto, StepInv, StepOf
  <2>2. at[c] \in Nat /\ from[c] \in Nat
    BY RecsLength DEF TypeOK
  <2>3. got[c] = Pairs(from[c], at[c])
    BY DEF GotInOrder, Pairs
  <2>4. got'[c] = Append(got[c], <<key, value>>) /\ at'[c] = at[c] + 1 /\ from'[c] = from[c]
    BY <1>2, <2>1 DEF Reply, TypeOK
  <2>5. got'[c] = Pairs(from'[c], at'[c])
    BY <2>1, <2>2, <2>3, <2>4, PairsGrow
  <2>6. \A d \in Client : d # c => got'[d] = got[d] /\ at'[d] = at[d] /\ from'[d] = from[d]
    BY <1>2 DEF Reply, TypeOK
  <2>7. QED
    BY <2>5, <2>6 DEF GotInOrder, Pairs, Document
<1>3. ASSUME NEW c \in Client, ReplyFailed(c) PROVE GotInOrder'
  <2>1. got'[c] = Pairs(from'[c], at'[c])
    BY <1>3, NoPairs DEF ReplyFailed, TypeOK
  <2>2. \A d \in Client : d # c => got'[d] = got[d] /\ at'[d] = at[d] /\ from'[d] = from[d]
    BY <1>3 DEF ReplyFailed, TypeOK
  <2>3. QED
    BY <2>1, <2>2 DEF GotInOrder, Pairs, Document
<1>4. QED
  BY <1>1, <1>2, <1>3 DEF Next, Work, Lock, ReachEnd, Seek, SeekFail, ValueBuffer,
     ValueBufferFail, ReadValue, ReadFail, ReadNull, KeyBuffer, KeyBufferFail, CopyKey,
     CopyNull, ReplyEnd, Die, Quiet, vars, client

\* Whatever the clients do and whatever fails, who is inside oztrav_next holds the
\* mutex, and finds the cursor and the buffers as its own steps left them.
THEOREM TraversalCorrect == Spec => []TravInv
<1>1. TravInv /\ [Next]_vars => TravInv'
  BY TypeStep, HeldStep, StepStep, GotStep DEF TravInv
<1>2. QED
  BY <1>1, TravInit, PTL DEF Spec

\* The traversals of any number of clients over the one cursor never mix: each
\* receives the documents in file order, each once, with its own key.
THEOREM PairsInOrder == Spec => []GotInOrder
<1>1. TravInv => GotInOrder
  BY DEF TravInv
<1>2. QED
  BY <1>1, TraversalCorrect, PTL

\* The end is told only to who has received the last document.
THEOREM EndsComplete == Spec => []EndIsComplete
<1>1. TravInv => EndIsComplete
  BY DEF TravInv, StepInv, StepOf, EndIsComplete
<1>2. QED
  BY <1>1, TraversalCorrect, PTL

\* No read and no copy overruns its buffer, whatever reallocs have failed before.
THEOREM BuffersSuffice == Spec => []BuffersFit
<1>1. TravInv => BuffersFit
  BY DEF TravInv, StepInv, StepOf, BuffersFit
<1>2. QED
  BY <1>1, TraversalCorrect, PTL

\* The cursor, the buffers and the clients keep their types.
THEOREM TravTypes == Spec => []TypeOK
<1>1. TravInv => TypeOK
  BY DEF TravInv
<1>2. QED
  BY <1>1, TraversalCorrect, PTL
=============================================================================
