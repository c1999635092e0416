--------------------------- MODULE OZWriteProofs ---------------------------
(***************************************************************************)
(* Proofs about OZWrite, for every number of servers, workers, values,     *)
(* buffer size and bound.  TypeCorrect needs nothing; the theorems on keys *)
(* and on acknowledged puts assume one server on the database and name the *)
(* failures they exclude.                                                  *)
(***************************************************************************)
EXTENDS OZWriteInv, SequenceTheorems, TLAPS

(***************************************************************************)
(* Sequences: what an append to a file keeps.                              *)
(***************************************************************************)

\* A prefix of a sequence: its elements, its length, its type.
LEMMA Prefix ==
  ASSUME NEW S, NEW s \in Seq(S), NEW n \in 0..Len(s)
  PROVE  /\ SubSeq(s, 1, n) \in Seq(S)
         /\ Len(SubSeq(s, 1, n)) = n
         /\ \A j \in 1..n : SubSeq(s, 1, n)[j] = s[j]
<1>1. \A j \in 1..n : s[j] \in S
  BY ElementOfSeq
<1>2. QED
  BY <1>1, SubSeqProperties

\* What is left of a sequence once a block was taken off its front.
LEMMA Suffix ==
  ASSUME NEW S, NEW s \in Seq(S), NEW n \in 0..Len(s)
  PROVE  /\ SubSeq(s, n + 1, Len(s)) \in Seq(S)
         /\ Len(SubSeq(s, n + 1, Len(s))) = Len(s) - n
         /\ \A j \in 1..(Len(s) - n) : SubSeq(s, n + 1, Len(s))[j] = s[n + j]
<1>1. \A j \in (n + 1)..Len(s) : s[j] \in S
  BY ElementOfSeq
<1>2. QED
  BY <1>1, SubSeqProperties

\* A flush takes part of a buffer, all of it if fflush does not fail.
LEMMA FlushedRange ==
  ASSUME NEW S, NEW buf \in Seq(S)
  PROVE  /\ Flushed(buf) \subseteq 0..Len(buf)
         /\ "fflush" \notin Faults => Flushed(buf) = {Len(buf)}
BY LenProperties DEF Flushed

-----------------------------------------------------------------------------
(***************************************************************************)
(* Type correctness.  It needs LoopInv: the length of the current value   *)
(* is a number only if the loop index names a value of the call.           *)
(***************************************************************************)

\* The current value is one of Value wherever ozwrite_put uses it.
LEMMA CurType ==
  ASSUME TypeOK, LoopInv, NEW w \in Worker,
         pc[w] \in {"value", "write", "flushkey", "flushval"}
  PROVE  Cur(w) \in Value /\ Cur(w) \in Seq(Byte) /\ Len(Cur(w)) \in Nat
BY ValueAssumption, ElementOfSeq, LenProperties DEF TypeOK, LoopInv, Cur, Arguments

LEMMA InitType == Init => TypeOK /\ LoopInv
BY HomeAssumption, EmptySeq DEF Init, TypeOK, LoopInv, NoCall, Arguments, Labels

\* A value stream that is flushed, or spills, stays well typed.
LEMMA AppendType ==
  ASSUME TypeOK, NEW s \in Server, NEW n \in 0..Len(valbuf[s]), AppendValue(s, n)
  PROVE  valfile' \in Seq(Byte) /\ valpos' \in [Server -> Nat]
<1>1. valbuf[s] \in Seq(Byte) /\ valfile \in Seq(Byte) /\ valpos \in [Server -> Nat]
  BY DEF TypeOK
<1>2. SubSeq(valbuf[s], 1, n) \in Seq(Byte)
  BY <1>1, Prefix
<1>3. valfile' \in Seq(Byte)
  BY <1>1, <1>2, ConcatProperties DEF AppendValue
<1>4. Len(valfile) + n \in Nat
  BY <1>1, LenProperties
<1>5. QED
  BY <1>1, <1>3, <1>4 DEF AppendValue

LEMMA FlushValueType ==
  ASSUME TypeOK, NEW s \in Server, FlushValue(s)
  PROVE  /\ valfile' \in Seq(Byte) /\ valpos' \in [Server -> Nat]
         /\ valbuf' \in [Server -> Seq(Byte)]
<1>1. PICK n \in Flushed(valbuf[s]) :
        AppendValue(s, n) /\ valbuf' = [valbuf EXCEPT ![s] = << >>]
  BY DEF FlushValue
<1>2. n \in 0..Len(valbuf[s])
  BY <1>1, FlushedRange DEF TypeOK
<1>3. QED
  BY <1>1, <1>2, AppendType, EmptySeq DEF TypeOK

LEMMA FlushKeysType ==
  ASSUME TypeOK, NEW s \in Server, FlushKeys(s)
  PROVE  keyfile' \in Seq(Record) /\ keybuf' \in [Server -> Seq(Record)]
<1>1. PICK n \in Flushed(keybuf[s]) :
        /\ keyfile' = keyfile \o SubSeq(keybuf[s], 1, n)
        /\ keybuf' = [keybuf EXCEPT ![s] = << >>]
  BY DEF FlushKeys
<1>2. n \in 0..Len(keybuf[s]) /\ keybuf[s] \in Seq(Record) /\ keyfile \in Seq(Record)
  BY <1>1, FlushedRange DEF TypeOK
<1>3. SubSeq(keybuf[s], 1, n) \in Seq(Record)
  BY <1>2, Prefix
<1>4. QED
  BY <1>1, <1>2, <1>3, ConcatProperties, EmptySeq DEF TypeOK

\* Ids in key.dat are read back as integers.
LEMMA IdsType == TypeOK => Ids \subseteq Int
<1>1. \A k \in Int : AtoI(k) \in Int
  BY NumberAssumption DEF AtoI
<1>2. ASSUME TypeOK, NEW j \in DOMAIN keyfile PROVE keyfile[j].key \in Int
  <2>1. keyfile[j] \in Record
    BY <1>2, ElementOfSeq, LenProperties DEF TypeOK
  <2>2. QED
    BY <2>1 DEF Record
<1>3. QED
  BY <1>1, <1>2 DEF Ids

\* A return from ozwrite_put keeps the locals' types and moves to the next value.
LEMMA ReturnType ==
  ASSUME TypeOK, LoopInv, NEW w \in Worker, NEW from, NEW code \in {0, 2, 3, 4, 5},
         Return(w, from, code)
  PROVE  /\ pc' \in [Worker -> Labels]  /\ call' \in [Worker -> Arguments]
         /\ i' \in [Worker -> Nat \ {0}] /\ off' \in [Worker -> Nat]
         /\ ret' \in [Worker -> {0, 2, 3, 4, 5}]
         /\ LoopInv'
<1>1. LoopInv'
  BY DEF TypeOK, LoopInv, Return, Goto
<1>2. QED
  BY <1>1 DEF TypeOK, Return, Goto, Labels

LEMMA TypeStep == TypeOK /\ LoopInv /\ [Next]_vars => TypeOK' /\ LoopInv'
<1> SUFFICES ASSUME TypeOK, LoopInv, [Next]_vars
             PROVE  TypeOK' /\ LoopInv'
  OBVIOUS
<1>1. ASSUME NEW s \in Server, Open(s) PROVE TypeOK' /\ LoopInv'
  BY <1>1, LenProperties DEF TypeOK, LoopInv, Open, disk, shared, locals
<1>2. ASSUME NEW s \in Server, GetMax(s) PROVE TypeOK' /\ LoopInv'
  <2>1. PICK n \in Int : id' = [id EXCEPT ![s] = n]
    <3>1. \A m \in Ids : m + 1 \in Int
      BY IdsType
    <3>2. QED
      BY <1>2, <3>1 DEF GetMax
  <2>2. id' \in [Server -> Int]
    BY <2>1 DEF TypeOK
  <2>3. phase' \in [Server -> {"down", "opened", "serving"}]
    BY <1>2 DEF TypeOK, GetMax
  <2>4. UNCHANGED <<disk, stream, lock, key, pc, locals, acked, bounds>>
    BY <1>2 DEF GetMax
  <2>5. QED
    BY <2>2, <2>3, <2>4 DEF TypeOK, LoopInv, disk, stream, bounds, locals
<1>3. ASSUME NEW s \in Server, Close(s) PROVE TypeOK' /\ LoopInv'
  BY <1>3, FlushKeysType, FlushValueType
     DEF TypeOK, LoopInv, Close, shared, bounds, locals
<1>4. ASSUME NEW s \in Server, Crash(s) PROVE TypeOK' /\ LoopInv'
  <2>1. NoCall \in Arguments
    BY EmptySeq DEF NoCall, Arguments
  <2>2. /\ phase' \in [Server -> {"down", "opened", "serving"}]
        /\ keybuf' \in [Server -> Seq(Record)] /\ valbuf' \in [Server -> Seq(Byte)]
        /\ lock' \in [Server -> Worker \cup {NoWorker}]
    BY <1>4, EmptySeq DEF TypeOK, Crash
  <2>3. pc' \in [Worker -> Labels] /\ call' \in [Worker -> Arguments]
    BY <1>4, <2>1 DEF TypeOK, Crash, Labels
  <2>4. /\ i' \in [Worker -> Nat \ {0}] /\ off' \in [Worker -> Nat]
        /\ ret' \in [Worker -> {0, 2, 3, 4, 5}]
    BY <1>4 DEF TypeOK, Crash
  <2>5. TypeOK'
    BY <1>4, <2>2, <2>3, <2>4 DEF TypeOK, Crash, disk, bounds
  <2>6. LoopInv'
    BY <1>4 DEF TypeOK, LoopInv, Crash, NoCall
  <2>7. QED
    BY <2>5, <2>6
<1>5. ASSUME NEW w \in Worker, Call(w) PROVE TypeOK' /\ LoopInv'
  <2>1. PICK op \in {"put", "puts"}, vs \in Batches :
          /\ op = "put" => Len(vs) = 1
          /\ call' = [call EXCEPT ![w] = [op |-> op, values |-> vs]]
    BY <1>5 DEF Call
  <2>2. vs \in Seq(Value)
    BY BoundAssumption DEF Batches
  <2>3. [op |-> op, values |-> vs] \in Arguments
    BY <2>2 DEF Arguments
  <2>4. TypeOK'
    <3>1. call' \in [Worker -> Arguments]
      BY <2>1, <2>3 DEF TypeOK
    <3>2. pc' \in [Worker -> Labels] /\ calls' \in Nat
      BY <1>5 DEF TypeOK, Call, Goto, Labels
    <3>3. QED
      BY <1>5, <3>1, <3>2 DEF TypeOK, Call, disk, stream, shared
  <2>5. LoopInv'
    BY <1>5, <2>1 DEF TypeOK, LoopInv, Call, Goto
  <2>6. QED
    BY <2>4, <2>5
<1>6. ASSUME NEW w \in Worker, Lock(w) PROVE TypeOK' /\ LoopInv'
  BY <1>6, HomeAssumption
     DEF TypeOK, LoopInv, Lock, Goto, disk, stream, bounds, Labels, locals
<1>7. ASSUME NEW w \in Worker, MakeKey(w) PROVE TypeOK' /\ LoopInv'
  <2>1. TypeOK'
    <3>1. Home[w] \in Server
      BY HomeAssumption
    <3>2. key' \in [Server -> Int] /\ id' \in [Server -> Int]
      BY <1>7, <3>1 DEF TypeOK, MakeKey
    <3>3. pc' \in [Worker -> Labels]
      BY <1>7 DEF TypeOK, MakeKey, Goto, Labels
    <3>4. QED
      BY <1>7, <3>2, <3>3 DEF TypeOK, MakeKey, disk, stream, bounds, locals
  <2>2. i[w] \in DOMAIN call[w].values
    BY <1>7, LenProperties DEF TypeOK, MakeKey, Arguments
  <2>3. LoopInv'
    BY <1>7, <2>2 DEF TypeOK, LoopInv, MakeKey, Goto, locals
  <2>4. QED
    BY <2>1, <2>3
<1>8. ASSUME NEW w \in Worker, PutEmpty(w) PROVE TypeOK' /\ LoopInv'
  BY <1>8, ReturnType DEF TypeOK, PutEmpty, disk, stream, shared, bounds
<1>9. ASSUME NEW w \in Worker, TellFail(w) PROVE TypeOK' /\ LoopInv'
  BY <1>9, ReturnType DEF TypeOK, TellFail, disk, stream, shared, bounds
<1>10. ASSUME NEW w \in Worker, PutValue(w) PROVE TypeOK' /\ LoopInv'
  <2>1. Home[w] \in Server /\ pc[w] = "value" /\ Cur(w) \in Seq(Byte)
    BY <1>10, HomeAssumption, CurType DEF PutValue
  <2>2. Tell(Home[w]) \in Nat
    BY <2>1, LenProperties DEF TypeOK, Tell
  <2>3. valbuf' \in [Server -> Seq(Byte)]
    BY <1>10, <2>1, ConcatProperties DEF TypeOK, PutValue
  <2>4. TypeOK'
    BY <1>10, <2>2, <2>3
       DEF TypeOK, PutValue, Goto, disk, shared, bounds, Labels
  <2>5. LoopInv'
    BY <1>10, <2>2 DEF TypeOK, LoopInv, PutValue, Goto
  <2>6. QED
    BY <2>4, <2>5
<1>11. ASSUME NEW w \in Worker, Spill(w) PROVE TypeOK' /\ LoopInv'
  <2>1. Home[w] \in Server /\ Block \in 0..Len(valbuf[Home[w]])
    BY <1>11, HomeAssumption, NumberAssumption, LenProperties DEF TypeOK, Spill
  <2>2. valfile' \in Seq(Byte) /\ valpos' \in [Server -> Nat]
    BY <1>11, <2>1, AppendType DEF Spill
  <2>3. valbuf' \in [Server -> Seq(Byte)]
    BY <1>11, <2>1, Suffix DEF TypeOK, Spill
  <2>4. QED
    BY <1>11, <2>2, <2>3 DEF TypeOK, LoopInv, Spill, shared, bounds, locals
<1>12. ASSUME NEW w \in Worker, WriteFail(w) PROVE TypeOK' /\ LoopInv'
  <2>1. PICK n \in 0..(Len(valbuf[Home[w]]) - 1) : AppendValue(Home[w], n)
    BY <1>12 DEF WriteFail
  <2>2. Home[w] \in Server /\ n \in 0..Len(valbuf[Home[w]])
    BY <2>1, HomeAssumption, LenProperties DEF TypeOK
  <2>3. valfile' \in Seq(Byte) /\ valpos' \in [Server -> Nat]
    BY <2>1, <2>2, AppendType
  <2>4. /\ pc' \in [Worker -> Labels]  /\ call' \in [Worker -> Arguments]
        /\ i' \in [Worker -> Nat \ {0}] /\ off' \in [Worker -> Nat]
        /\ ret' \in [Worker -> {0, 2, 3, 4, 5}]
        /\ LoopInv'
    BY <1>12, ReturnType DEF WriteFail
  <2>5. QED
    BY <1>12, <2>3, <2>4, EmptySeq DEF TypeOK, WriteFail, shared, bounds
<1>13. ASSUME NEW w \in Worker, PutKey(w) PROVE TypeOK' /\ LoopInv'
  <2> DEFINE r == [key |-> key[Home[w]], offset |-> off[w], length |-> Len(Cur(w))]
  <2>1. Home[w] \in Server /\ Len(Cur(w)) \in Nat
    BY <1>13, HomeAssumption, CurType DEF PutKey, Goto
  <2>2. r \in Record
    BY <2>1 DEF TypeOK, Record
  <2>3. keybuf' \in [Server -> Seq(Record)]
    BY <1>13, <2>1, <2>2, AppendProperties DEF TypeOK, PutKey
  <2>4. TypeOK'
    BY <1>13, <2>3 DEF TypeOK, PutKey, Goto, disk, shared, bounds, Labels, locals
  <2>5. LoopInv'
    BY <1>13 DEF TypeOK, LoopInv, PutKey, Goto, locals
  <2>6. QED
    BY <2>4, <2>5
<1>14. ASSUME NEW w \in Worker, KeyFail(w) PROVE TypeOK' /\ LoopInv'
  BY <1>14, ReturnType DEF TypeOK, KeyFail, disk, stream, shared, bounds
<1>15. ASSUME NEW w \in Worker, FlushKey(w) PROVE TypeOK' /\ LoopInv'
  <2>1. keyfile' \in Seq(Record) /\ keybuf' \in [Server -> Seq(Record)]
    BY <1>15, HomeAssumption, FlushKeysType DEF FlushKey
  <2>2. TypeOK'
    BY <1>15, <2>1 DEF TypeOK, FlushKey, Goto, shared, bounds, Labels, locals
  <2>3. LoopInv'
    BY <1>15 DEF TypeOK, LoopInv, FlushKey, Goto, locals
  <2>4. QED
    BY <2>2, <2>3
<1>16. ASSUME NEW w \in Worker, FlushVal(w) PROVE TypeOK' /\ LoopInv'
  <2>1. /\ valfile' \in Seq(Byte) /\ valpos' \in [Server -> Nat]
        /\ valbuf' \in [Server -> Seq(Byte)]
    BY <1>16, HomeAssumption, FlushValueType DEF FlushVal
  <2>2. QED
    BY <1>16, <2>1, ReturnType DEF TypeOK, FlushVal, shared, bounds
<1>17. ASSUME NEW w \in Worker, Unlock(w) PROVE TypeOK' /\ LoopInv'
  <2>1. call[w].op = "put" => [key |-> key[Home[w]], val |-> call[w].values[1]] \in Ack
    BY HomeAssumption, ElementOfSeq DEF TypeOK, LoopInv, Arguments, Ack
  <2>2. NoCall \in Arguments
    BY EmptySeq DEF NoCall, Arguments
  <2>3. /\ call' \in [Worker -> Arguments] /\ i' \in [Worker -> Nat \ {0}]
        /\ off' \in [Worker -> Nat] /\ ret' \in [Worker -> {0, 2, 3, 4, 5}]
    BY <1>17, <2>2 DEF TypeOK, Unlock, LeaveCall
  <2>4. /\ pc' \in [Worker -> Labels]
        /\ lock' \in [Server -> Worker \cup {NoWorker}]
    BY <1>17 DEF TypeOK, Unlock, Goto, Labels
  <2>5. acked' \subseteq Ack
    BY <1>17, <2>1 DEF TypeOK, Unlock
  <2>6. TypeOK'
    BY <1>17, <2>3, <2>4, <2>5 DEF TypeOK, Unlock, disk, stream, bounds
  <2>7. LoopInv'
    BY <1>17 DEF TypeOK, LoopInv, Unlock, Goto, NoCall, LeaveCall
  <2>8. QED
    BY <2>6, <2>7
<1>18. CASE UNCHANGED vars
  BY <1>18 DEF TypeOK, LoopInv, vars
<1>19. QED
  BY <1>1, <1>2, <1>3, <1>4, <1>5, <1>6, <1>7, <1>8, <1>9, <1>10, <1>11, <1>12,
     <1>13, <1>14, <1>15, <1>16, <1>17, <1>18 DEF Next, Work, Quiet

-----------------------------------------------------------------------------
(***************************************************************************)
(* The critical section.                                                   *)
(***************************************************************************)

\* Two workers of one server are never inside together.
LEMMA Mutex ==
  ASSUME LockInv, NEW v \in Worker, NEW w \in Worker, Home[v] = Home[w],
         Inside(v), Inside(w)
  PROVE  v = w
BY DEF LockInv

\* A step inside the critical section leaves LockInv alone.
LEMMA InnerLock ==
  ASSUME TypeOK, LockInv, NEW w \in Worker, NEW from, NEW to,
         from \notin {"idle", "lock"}, to \notin {"idle", "lock"},
         Goto(w, from, to), UNCHANGED <<lock, phase>>
  PROVE  LockInv'
BY DEF TypeOK, LockInv, Inside, Goto

LEMMA LockStep == TypeOK /\ LockInv /\ [Next]_vars => LockInv'
<1> SUFFICES ASSUME TypeOK, LockInv, [Next]_vars
             PROVE  LockInv'
  OBVIOUS
<1>1. ASSUME NEW s \in Server, Open(s) \/ GetMax(s) \/ Close(s) PROVE LockInv'
  <2>1. UNCHANGED <<lock, pc>>
    BY <1>1 DEF Open, GetMax, Close, shared
  <2>2. ASSUME NEW w \in Worker, pc[w] # "idle" PROVE phase'[Home[w]] = "serving"
    <3>1. phase[Home[w]] = "serving"
      BY <2>2 DEF LockInv
    <3>2. CASE Open(s)
      BY <3>1, <3>2, HomeAssumption DEF TypeOK, Open
    <3>3. CASE GetMax(s)
      BY <3>1, <3>3, HomeAssumption DEF TypeOK, GetMax
    <3>4. CASE Close(s)
      BY <2>2, <3>1, <3>4, HomeAssumption DEF TypeOK, Close, WorkersIdle
    <3>5. QED
      BY <1>1, <3>2, <3>3, <3>4
  <2>3. QED
    BY <2>1, <2>2 DEF LockInv, Inside
<1>2. ASSUME NEW s \in Server, Crash(s) PROVE LockInv'
  BY <1>2, HomeAssumption, WorkerAssumption DEF TypeOK, LockInv, Inside, Crash
<1>3. ASSUME NEW w \in Worker, Call(w) PROVE LockInv'
  BY <1>3 DEF TypeOK, LockInv, Inside, Call, Goto, shared
<1>4. ASSUME NEW w \in Worker, Lock(w) PROVE LockInv'
  BY <1>4, HomeAssumption, WorkerAssumption DEF TypeOK, LockInv, Inside, Lock, Goto
<1>5. ASSUME NEW w \in Worker, MakeKey(w) PROVE LockInv'
  BY <1>5, InnerLock DEF MakeKey
<1>6. ASSUME NEW w \in Worker, PutEmpty(w) \/ TellFail(w) \/ PutValue(w) PROVE LockInv'
  BY <1>6, InnerLock DEF PutEmpty, TellFail, PutValue, Return, shared
<1>7. ASSUME NEW w \in Worker, Spill(w) PROVE LockInv'
  BY <1>7 DEF LockInv, Inside, Spill, shared
<1>8. ASSUME NEW w \in Worker, WriteFail(w) \/ PutKey(w) \/ KeyFail(w) PROVE LockInv'
  BY <1>8, InnerLock DEF WriteFail, PutKey, KeyFail, Return, shared
<1>9. ASSUME NEW w \in Worker, FlushKey(w) \/ FlushVal(w) PROVE LockInv'
  BY <1>9, InnerLock DEF FlushKey, FlushVal, Return, shared
<1>10. ASSUME NEW w \in Worker, Unlock(w) PROVE LockInv'
  BY <1>10, HomeAssumption, WorkerAssumption DEF TypeOK, LockInv, Inside, Unlock, Goto
<1>11. CASE UNCHANGED vars
  BY <1>11 DEF LockInv, Inside, vars
<1>12. QED
  BY <1>1, <1>2, <1>3, <1>4, <1>5, <1>6, <1>7, <1>8, <1>9, <1>10, <1>11
     DEF Next, Work, Quiet

(***************************************************************************)
(* The key buffer: one record between fprintf and fflush, otherwise none.  *)
(***************************************************************************)

\* A step of w that is not at the key's two steps leaves KeyBufInv alone; it
\* may change _key only inside the critical section.
LEMMA KeyBufKept ==
  ASSUME TypeOK, LockInv, KeyBufInv, NEW w \in Worker,
         pc[w] # "flushkey", pc'[w] # "flushkey",
         \A v \in Worker : v # w => /\ pc'[v] = pc[v] /\ call'[v] = call[v]
                                    /\ i'[v] = i[v] /\ off'[v] = off[v],
         \A s \in Server : key'[s] = key[s] \/ (s = Home[w] /\ Inside(w)),
         keybuf' = keybuf
  PROVE  KeyBufInv'
<1>1. \A v \in Worker : pc[v] = "flushkey" => v # w /\ key'[Home[v]] = key[Home[v]]
  BY Mutex, HomeAssumption DEF Inside
<1>2. ASSUME NEW v \in Worker, pc'[v] = "flushkey"
      PROVE  keybuf'[Home[v]] = << Rec(v)' >>
  BY <1>1, <1>2, HomeAssumption DEF KeyBufInv, Rec, Cur
<1>3. ASSUME NEW s \in Server
      PROVE  keybuf'[s] = << >> \/ \E v \in Worker : Home[v] = s /\ pc'[v] = "flushkey"
  BY <1>1, <1>3 DEF KeyBufInv
<1>4. QED
  BY <1>2, <1>3 DEF KeyBufInv

\* Without a call in progress a flush of the key buffer writes nothing.
LEMMA NothingToFlush ==
  ASSUME TypeOK, KeyBufInv, NEW s \in Server, WorkersIdle(s), FlushKeys(s)
  PROVE  keyfile' = keyfile /\ keybuf' = keybuf
<1>1. keybuf[s] = << >>
  BY DEF KeyBufInv, WorkersIdle
<1>2. PICK n \in Flushed(keybuf[s]) :
        /\ keyfile' = keyfile \o SubSeq(keybuf[s], 1, n)
        /\ keybuf' = [keybuf EXCEPT ![s] = << >>]
  BY DEF FlushKeys
<1>3. n = 0
  BY <1>1, <1>2, FlushedRange, EmptySeq DEF TypeOK
<1>4. SubSeq(keybuf[s], 1, n) = << >>
  BY <1>1, <1>3, SubSeqEmpty
<1>5. keyfile' = keyfile
  BY <1>2, <1>4, ConcatEmptySeq DEF TypeOK
<1>6. QED
  BY <1>1, <1>2, <1>5 DEF TypeOK


LEMMA KeyBufStep ==
  TypeOK /\ LockInv /\ KeyBufInv /\ [Next]_vars => KeyBufInv'
<1> SUFFICES ASSUME TypeOK, LockInv, KeyBufInv, [Next]_vars
             PROVE  KeyBufInv'
  OBVIOUS
<1>1. ASSUME NEW s \in Server, Open(s) \/ GetMax(s) PROVE KeyBufInv'
  <2>1. UNCHANGED <<keybuf, key, pc, call, i, off>>
    BY <1>1 DEF Open, GetMax, shared, stream, locals
  <2>2. QED
    BY <2>1 DEF KeyBufInv, Rec, Cur
<1>2. ASSUME NEW s \in Server, Close(s) PROVE KeyBufInv'
  <2>1. keybuf' = keybuf
    BY <1>2, NothingToFlush DEF Close
  <2>2. QED
    BY <1>2, <2>1 DEF KeyBufInv, Rec, Cur, Close, shared, locals
<1>3. ASSUME NEW s \in Server, Crash(s) PROVE KeyBufInv'
  <2>1. ASSUME NEW v \in Worker, pc'[v] = "flushkey"
        PROVE  keybuf'[Home[v]] = << Rec(v)' >>
    <3>1. Home[v] # s /\ pc[v] = "flushkey"
      BY <1>3, <2>1 DEF Crash
    <3>2. keybuf'[Home[v]] = keybuf[Home[v]]
      BY <1>3, <3>1, HomeAssumption DEF TypeOK, Crash
    <3>3. Rec(v)' = Rec(v)
      BY <1>3, <3>1 DEF Rec, Cur, Crash
    <3>4. QED
      BY <3>1, <3>2, <3>3 DEF KeyBufInv
  <2>2. ASSUME NEW t \in Server
        PROVE  keybuf'[t] = << >> \/ \E v \in Worker : Home[v] = t /\ pc'[v] = "flushkey"
    <3>1. CASE t = s
      BY <1>3, <3>1 DEF TypeOK, Crash
    <3>2. CASE t # s
      <4>1. keybuf'[t] = keybuf[t]
        BY <1>3, <3>2 DEF TypeOK, Crash
      <4>2. \A v \in Worker : Home[v] = t => pc'[v] = pc[v]
        BY <1>3, <3>2 DEF Crash
      <4>3. QED
        BY <4>1, <4>2 DEF KeyBufInv
    <3>3. QED
      BY <3>1, <3>2
  <2>3. QED
    BY <2>1, <2>2 DEF KeyBufInv
<1>4. ASSUME NEW w \in Worker, Call(w) PROVE KeyBufInv'
  BY <1>4, KeyBufKept DEF TypeOK, Call, Goto, stream, shared
<1>5. ASSUME NEW w \in Worker, Lock(w) PROVE KeyBufInv'
  BY <1>5, KeyBufKept DEF TypeOK, Lock, Goto, stream, locals
<1>6. ASSUME NEW w \in Worker, MakeKey(w) PROVE KeyBufInv'
  BY <1>6, KeyBufKept, HomeAssumption DEF TypeOK, MakeKey, Goto, Inside, stream, locals
<1>7. ASSUME NEW w \in Worker, PutEmpty(w) \/ TellFail(w) PROVE KeyBufInv'
  BY <1>7, KeyBufKept DEF TypeOK, PutEmpty, TellFail, Return, Goto, stream, shared
<1>8. ASSUME NEW w \in Worker, PutValue(w) PROVE KeyBufInv'
  BY <1>8, KeyBufKept DEF TypeOK, PutValue, Goto, shared
<1>9. ASSUME NEW w \in Worker, Spill(w) PROVE KeyBufInv'
  BY <1>9 DEF KeyBufInv, Rec, Cur, Spill, shared, locals
<1>10. ASSUME NEW w \in Worker, WriteFail(w) PROVE KeyBufInv'
  BY <1>10, KeyBufKept DEF TypeOK, WriteFail, Return, Goto, shared
<1>11. ASSUME NEW w \in Worker, KeyFail(w) PROVE KeyBufInv'
  BY <1>11, KeyBufKept DEF TypeOK, KeyFail, Return, Goto, stream, shared
<1>12. ASSUME NEW w \in Worker, PutKey(w) PROVE KeyBufInv'
  <2>1. Home[w] \in Server /\ pc[w] = "write" /\ pc' = [pc EXCEPT ![w] = "flushkey"]
    BY <1>12, HomeAssumption DEF PutKey, Goto
  <2>2. ASSUME NEW v \in Worker, v # w, pc[v] = "flushkey" PROVE Home[v] # Home[w]
    BY <2>1, <2>2, Mutex DEF Inside
  <2>3. keybuf[Home[w]] = << >>
    BY <2>1, <2>2 DEF KeyBufInv
  <2>4. keybuf' = [keybuf EXCEPT ![Home[w]] = Append(@, Rec(w))]
    BY <1>12 DEF PutKey, Rec
  <2>5. keybuf' = [keybuf EXCEPT ![Home[w]] = << Rec(w) >>]
    BY <2>1, <2>3, <2>4 DEF TypeOK
  <2>6. \A v \in Worker : Rec(v)' = Rec(v)
    BY <1>12 DEF Rec, Cur, PutKey, shared, locals
  <2>7. ASSUME NEW v \in Worker, pc'[v] = "flushkey"
        PROVE  keybuf'[Home[v]] = << Rec(v)' >>
    <3>1. CASE v = w
      BY <2>1, <2>5, <2>6, <3>1 DEF TypeOK
    <3>2. CASE v # w
      BY <2>1, <2>2, <2>5, <2>6, <2>7, <3>2, HomeAssumption, ZenonT(30) DEF TypeOK, KeyBufInv
    <3>3. QED
      BY <3>1, <3>2
  <2>8. ASSUME NEW t \in Server
        PROVE  keybuf'[t] = << >> \/ \E v \in Worker : Home[v] = t /\ pc'[v] = "flushkey"
    BY <2>1, <2>5 DEF TypeOK, KeyBufInv
  <2>9. QED
    BY <2>7, <2>8 DEF KeyBufInv
<1>13. ASSUME NEW w \in Worker, FlushKey(w) PROVE KeyBufInv'
  <2>1. /\ Home[w] \in Server /\ pc[w] = "flushkey"
        /\ pc' = [pc EXCEPT ![w] = "flushval"]
        /\ keybuf' = [keybuf EXCEPT ![Home[w]] = << >>]
    BY <1>13, HomeAssumption DEF FlushKey, FlushKeys, Goto
  <2>2. ASSUME NEW v \in Worker, pc'[v] = "flushkey"
        PROVE  v # w /\ pc[v] = "flushkey" /\ Home[v] # Home[w]
    BY <2>1, <2>2, Mutex DEF TypeOK, Inside
  <2>3. \A v \in Worker : Rec(v)' = Rec(v)
    BY <1>13 DEF Rec, Cur, FlushKey, shared, locals
  <2>4. ASSUME NEW v \in Worker, pc'[v] = "flushkey"
        PROVE  keybuf'[Home[v]] = << Rec(v)' >>
    <3>1. keybuf'[Home[v]] = keybuf[Home[v]]
      BY <2>1, <2>2, <2>4, HomeAssumption DEF TypeOK
    <3>2. QED
      BY <2>2, <2>3, <2>4, <3>1 DEF KeyBufInv
  <2>5. ASSUME NEW t \in Server
        PROVE  keybuf'[t] = << >> \/ \E v \in Worker : Home[v] = t /\ pc'[v] = "flushkey"
    BY <2>1 DEF TypeOK, KeyBufInv
  <2>6. QED
    BY <2>4, <2>5 DEF KeyBufInv
<1>14. ASSUME NEW w \in Worker, FlushVal(w) PROVE KeyBufInv'
  BY <1>14, KeyBufKept DEF TypeOK, FlushVal, Return, Goto, shared
<1>15. ASSUME NEW w \in Worker, Unlock(w) PROVE KeyBufInv'
  BY <1>15, KeyBufKept DEF TypeOK, Unlock, Goto, LeaveCall, stream
<1>16. CASE UNCHANGED vars
  BY <1>16 DEF KeyBufInv, Rec, Cur, vars
<1>17. QED
  BY <1>1, <1>2, <1>3, <1>4, <1>5, <1>6, <1>7, <1>8, <1>9, <1>10, <1>11, <1>12,
     <1>13, <1>14, <1>15, <1>16 DEF Next, Work, Quiet

LEMMA CallInit == Init => CallInv
BY InitType, HomeAssumption, WorkerAssumption
   DEF CallInv, LockInv, Inside, KeyBufInv, Init

LEMMA CallStep == CallInv /\ [Next]_vars => CallInv'
BY TypeStep, LockStep, KeyBufStep DEF CallInv

\* Every variable keeps its type, at most one worker of a server is inside put
\* or puts, and the key buffer is empty except between fprintf and fflush.
THEOREM CallsCorrect == Spec => []CallInv
BY CallInit, CallStep, PTL DEF Spec

\* The variables keep their types: among them, the offset a record is written
\* with is never the -1 of a failed ftello.
THEOREM TypesCorrect == Spec => []TypeOK
<1>1. CallInv => TypeOK
  BY DEF CallInv
<1>2. QED
  BY <1>1, CallsCorrect, PTL


-----------------------------------------------------------------------------
(***************************************************************************)
(* Keys grow along key.dat.  IdInv is what makes this inductive: _id is    *)
(* ahead of every key on disk whenever the server serves, and the key in   *)
(* _key is ahead of them until its record is written.                      *)
(***************************************************************************)

\* atoi reads back a key that fits an int.
LEMMA AtoIExact == \A k \in Int : 0 <= k /\ k <= IntMax => AtoI(k) = k
<1>1. \A a, b \in Nat : b > 0 /\ a < b => a % b = a
  OBVIOUS
<1>2. ASSUME NEW k \in Int, 0 <= k, k <= IntMax PROVE AtoI(k) = k
  <2>1. k + IntMax + 1 \in Nat /\ 2 * (IntMax + 1) \in Nat /\ 2 * (IntMax + 1) > 0
        /\ k + IntMax + 1 < 2 * (IntMax + 1)
    BY <1>2, NumberAssumption
  <2>2. (k + IntMax + 1) % (2 * (IntMax + 1)) = k + IntMax + 1
    BY <1>1, <2>1
  <2>3. QED
    BY <1>2, <2>2, NumberAssumption DEF AtoI
<1>3. QED
  BY <1>2

\* The fields of a record in key.dat are numbers.
LEMMA RecordType ==
  ASSUME TypeOK, NEW m \in DOMAIN keyfile
  PROVE  /\ keyfile[m].key \in Int /\ keyfile[m].offset \in Nat
         /\ keyfile[m].length \in Nat
<1>1. keyfile[m] \in Record
  BY ElementOfSeq, LenProperties DEF TypeOK
<1>2. QED
  BY <1>1 DEF Record

\* What FlushKey does to key.dat: the record is appended, or lost.
LEMMA FlushKeyEffect ==
  ASSUME CallInv, NEW w \in Worker, FlushKey(w)
  PROVE  /\ \/ keyfile' = keyfile /\ "fflush" \in Faults
            \/ keyfile' = Append(keyfile, Rec(w))
         /\ Rec(w) \in Record
<1>1. Home[w] \in Server /\ keybuf[Home[w]] = << Rec(w) >>
  BY HomeAssumption DEF CallInv, KeyBufInv, FlushKey, Goto
<1>2. Rec(w) \in Record
  BY <1>1, CurType DEF CallInv, TypeOK, FlushKey, Goto, Rec, Record
<1>3. PICK n \in Flushed(keybuf[Home[w]]) :
        keyfile' = keyfile \o SubSeq(keybuf[Home[w]], 1, n)
  BY DEF FlushKey, FlushKeys
<1>4. keybuf[Home[w]] \in Seq(Record) /\ Len(keybuf[Home[w]]) = 1
  BY <1>1, <1>2
<1>5. (n = 0 /\ "fflush" \in Faults) \/ n = 1
  <2>1. Flushed(keybuf[Home[w]]) \subseteq 0..1
    BY <1>4, FlushedRange
  <2>2. "fflush" \notin Faults => Flushed(keybuf[Home[w]]) = {1}
    BY <1>4 DEF Flushed
  <2>3. QED
    BY <1>3, <2>1, <2>2
<1>6. CASE n = 0 /\ "fflush" \in Faults
  BY <1>2, <1>3, <1>6, SubSeqEmpty, ConcatEmptySeq DEF CallInv, TypeOK
<1>7. CASE n = 1
  <2>1. SubSeq(keybuf[Home[w]], 1, 1) = << Rec(w) >>
    BY <1>1, <1>4, SubSeqFull
  <2>2. QED
    BY <1>2, <1>3, <1>7, <2>1, AppendIsConcat DEF CallInv, TypeOK
<1>8. QED
  BY <1>2, <1>5, <1>6, <1>7

\* Steps that write no key, take no id and start no server.
LEMMA IdKept ==
  ASSUME IdInv, KeysIncreasing, UNCHANGED <<keyfile, id, key>>,
         \A s \in Server : phase'[s] = "serving" => phase[s] = "serving",
         \A v \in Worker : pc'[v] \in {"value", "write", "flushkey"} =>
                           pc[v] \in {"value", "write", "flushkey"}
  PROVE  IdInv' /\ KeysIncreasing'
BY DEF IdInv, KeysIncreasing, KeysFit


LEMMA KeysStep ==
  ASSUME SingleServer, "fopen" \notin Faults
  PROVE  CallInv /\ IdInv /\ KeysIncreasing /\ [Next]_vars => IdInv' /\ KeysIncreasing'
<1> SUFFICES ASSUME CallInv, IdInv, KeysIncreasing, [Next]_vars
             PROVE  IdInv' /\ KeysIncreasing'
  OBVIOUS
<1> USE DEF CallInv
<1>1. ASSUME NEW s \in Server, Open(s) PROVE IdInv' /\ KeysIncreasing'
  <2>1. \A t \in Server : phase'[t] = "serving" => phase[t] = "serving"
    BY <1>1 DEF TypeOK, Open
  <2>2. UNCHANGED <<keyfile, id, key, pc>>
    BY <1>1 DEF Open, disk, shared
  <2>3. QED
    BY <2>1, <2>2, IdKept
<1>2. ASSUME NEW s \in Server, GetMax(s) PROVE IdInv' /\ KeysIncreasing'
  <2>1. UNCHANGED <<keyfile, key, pc>>
    BY <1>2 DEF GetMax, disk
  <2>2. PICK m \in Ids : (\A n \in Ids : n <= m) /\ id' = [id EXCEPT ![s] = m + 1]
    BY <1>2 DEF GetMax
  <2>3. m \in Int /\ 0 <= m /\ id'[s] = m + 1
    BY <2>2, IdsType DEF Ids, TypeOK
  <2>4. ASSUME KeysFit, NEW j \in DOMAIN keyfile PROVE keyfile[j].key < id'[s]
    <3>1. 0 <= keyfile[j].key /\ keyfile[j].key <= IntMax /\ keyfile[j].key \in Int
      BY <2>4, RecordType DEF KeysFit, IdInv
    <3>2. keyfile[j].key \in Ids
      BY <3>1, AtoIExact DEF Ids
    <3>3. QED
      BY <2>2, <2>3, <3>1, <3>2
  <2>5. \A v \in Worker : pc[v] = "idle"
    BY <1>2, HomeAssumption DEF SingleServer, LockInv, GetMax
  <2>6. IdInv'
    BY <2>1, <2>3, <2>4, <2>5 DEF IdInv, KeysFit, SingleServer
  <2>7. QED
    BY <2>1, <2>6 DEF KeysIncreasing, KeysFit
<1>3. ASSUME NEW s \in Server, Close(s) PROVE IdInv' /\ KeysIncreasing'
  <2>1. keyfile' = keyfile
    BY <1>3, NothingToFlush DEF Close
  <2>2. \A t \in Server : phase'[t] = "serving" => phase[t] = "serving"
    BY <1>3 DEF TypeOK, Close
  <2>3. UNCHANGED <<id, key, pc>>
    BY <1>3 DEF Close, shared
  <2>4. QED
    BY <2>1, <2>2, <2>3, IdKept
<1>4. ASSUME NEW s \in Server, Crash(s) PROVE IdInv' /\ KeysIncreasing'
  <2>1. \A t \in Server : phase'[t] = "serving" => phase[t] = "serving"
    BY <1>4 DEF TypeOK, Crash
  <2>2. \A v \in Worker : pc'[v] # "idle" => pc'[v] = pc[v]
    BY <1>4 DEF Crash
  <2>3. UNCHANGED <<keyfile, id, key>>
    BY <1>4 DEF Crash, disk
  <2>4. QED
    BY <2>1, <2>2, <2>3, IdKept
<1>5. ASSUME NEW w \in Worker, Call(w) \/ Lock(w) PROVE IdInv' /\ KeysIncreasing'
  <2>1. UNCHANGED <<keyfile, id, key, phase>>
    BY <1>5 DEF Call, Lock, disk, shared
  <2>2. pc' = [pc EXCEPT ![w] = "lock"] \/ pc' = [pc EXCEPT ![w] = "loop"]
    BY <1>5 DEF Call, Lock, Goto
  <2>3. QED
    BY <2>1, <2>2, IdKept DEF TypeOK
<1>6. ASSUME NEW w \in Worker, MakeKey(w) PROVE IdInv' /\ KeysIncreasing'
  <2> DEFINE s == Home[w]
  <2>1. s \in Server /\ phase[s] = "serving" /\ pc[w] = "loop" /\ id[s] \in Int
    BY <1>6, HomeAssumption DEF MakeKey, Goto, LockInv, TypeOK
  <2>2. key'[s] = id[s] /\ id'[s] = id[s] + 1 /\ keyfile' = keyfile /\ phase' = phase
    BY <1>6, <2>1 DEF MakeKey, TypeOK, disk
  <2>3. KeysFit => id[s] >= 0 /\ \A m \in DOMAIN keyfile : keyfile[m].key < id[s]
    BY <2>1 DEF IdInv
  <2>4. \A t \in Server : t = s
    BY <2>1 DEF SingleServer
  <2>5. \A m \in DOMAIN keyfile : keyfile[m].key \in Int
    BY RecordType
  <2>6. \A v \in Worker : Home[v] = s
    BY <2>4, HomeAssumption
  <2>7. IdInv'
    BY <2>1, <2>2, <2>3, <2>4, <2>5, <2>6 DEF IdInv, KeysFit
  <2>8. QED
    BY <2>2, <2>7 DEF KeysIncreasing, KeysFit
<1>7. ASSUME NEW w \in Worker, PutEmpty(w) \/ TellFail(w) \/ WriteFail(w) \/ KeyFail(w)
                               \/ FlushVal(w)
      PROVE  IdInv' /\ KeysIncreasing'
  <2>1. UNCHANGED <<keyfile, id, key, phase>>
    BY <1>7 DEF PutEmpty, TellFail, WriteFail, KeyFail, FlushVal, disk, shared
  <2>2. pc' = [pc EXCEPT ![w] = "loop"]
    BY <1>7 DEF PutEmpty, TellFail, WriteFail, KeyFail, FlushVal, Return, Goto
  <2>3. QED
    BY <2>1, <2>2, IdKept DEF TypeOK
<1>8. ASSUME NEW w \in Worker, PutValue(w) \/ PutKey(w) PROVE IdInv' /\ KeysIncreasing'
  <2>1. UNCHANGED <<keyfile, id, key, phase>>
    BY <1>8 DEF PutValue, PutKey, disk, shared
  <2>2. \/ pc[w] = "value" /\ pc' = [pc EXCEPT ![w] = "write"]
        \/ pc[w] = "write" /\ pc' = [pc EXCEPT ![w] = "flushkey"]
    BY <1>8 DEF PutValue, PutKey, Goto
  <2>3. QED
    BY <2>1, <2>2, IdKept DEF TypeOK
<1>9. ASSUME NEW w \in Worker, Spill(w) PROVE IdInv' /\ KeysIncreasing'
  BY <1>9, IdKept DEF Spill, shared
<1>10. ASSUME NEW w \in Worker, FlushKey(w) PROVE IdInv' /\ KeysIncreasing'
  <2> DEFINE s == Home[w]
             k == key[Home[w]]
  <2>1. /\ s \in Server /\ pc[w] = "flushkey" /\ pc' = [pc EXCEPT ![w] = "flushval"]
        /\ k \in Int /\ id[s] \in Int /\ UNCHANGED <<id, key, phase>>
    BY <1>10, HomeAssumption DEF FlushKey, Goto, TypeOK, shared
  <2>2. CASE keyfile' = keyfile
    <3>1. \A v \in Worker : pc'[v] \in {"value", "write", "flushkey"} => pc'[v] = pc[v]
      BY <2>1 DEF TypeOK
    <3>2. QED
      BY <2>1, <2>2, <3>1, IdKept
  <2>3. CASE keyfile' = Append(keyfile, Rec(w))
    <3>1. /\ DOMAIN keyfile = 1..Len(keyfile) /\ Len(keyfile) \in Nat
          /\ DOMAIN keyfile' = 1..(Len(keyfile) + 1)
          /\ \A m \in 1..Len(keyfile) : keyfile'[m] = keyfile[m]
          /\ keyfile'[Len(keyfile) + 1].key = k
      BY <1>10, <2>3, FlushKeyEffect, AppendProperties, LenProperties DEF TypeOK, Rec
    <3>2. KeysFit' => KeysFit
      BY <3>1 DEF KeysFit
    <3>3. KeysFit => 0 <= k /\ k < id[s] /\ \A m \in DOMAIN keyfile : keyfile[m].key < k
      BY <2>1 DEF IdInv
    <3>4. \A m \in DOMAIN keyfile : keyfile[m].key \in Int
      BY RecordType
    <3>5. \A v \in Worker : Home[v] = s /\ pc'[v] \notin {"value", "write", "flushkey"}
      <4>1. \A v \in Worker : Home[v] = s
        BY <2>1, HomeAssumption DEF SingleServer
      <4>2. \A v \in Worker : v # w => pc[v] \in {"idle", "lock"}
        BY <2>1, <4>1, Mutex DEF Inside
      <4>3. QED
        BY <2>1, <4>1, <4>2 DEF TypeOK
    <3>6. \A t \in Server : t = s
      BY <2>1 DEF SingleServer
    <3>7. KeysFit => \A m \in 1..(Len(keyfile) + 1) :
            keyfile'[m].key >= 0 /\ keyfile'[m].key < id[s]
      BY <2>1, <3>1, <3>3, <3>4 DEF IdInv
    <3>8. IdInv'
      <4>1. ASSUME KeysFit'
            PROVE  /\ id[s] >= 0
                   /\ \A m \in DOMAIN keyfile' :
                        keyfile'[m].key >= 0 /\ keyfile'[m].key < id[s]
        BY <2>1, <3>1, <3>2, <3>3, <3>7, <4>1
      <4>2. QED
        BY <2>1, <3>5, <3>6, <4>1 DEF IdInv
    <3>9. KeysIncreasing'
      <4>1. KeysFit' => \A m, n \in 1..(Len(keyfile) + 1) :
              m < n => keyfile'[m].key < keyfile'[n].key
        BY <3>1, <3>2, <3>3, <3>4 DEF KeysIncreasing
      <4>2. QED
        BY <3>1, <4>1 DEF KeysIncreasing
    <3>10. QED
      BY <3>8, <3>9
  <2>4. QED
    BY <1>10, <2>2, <2>3, FlushKeyEffect
<1>11. ASSUME NEW w \in Worker, Unlock(w) PROVE IdInv' /\ KeysIncreasing'
  <2>1. UNCHANGED <<keyfile, id, key, phase>> /\ pc' = [pc EXCEPT ![w] = "idle"]
    BY <1>11 DEF Unlock, Goto, disk
  <2>2. QED
    BY <2>1, IdKept DEF TypeOK
<1>12. CASE UNCHANGED vars
  BY <1>12, IdKept DEF vars
<1>13. QED
  BY <1>1, <1>2, <1>3, <1>4, <1>5, <1>6, <1>7, <1>8, <1>9, <1>10, <1>11, <1>12
     DEF Next, Work, Quiet

\* With one server whose getmax can open key.dat, _id stays ahead of every key on
\* disk, and the key of the put in progress too, whatever fails or crashes.
THEOREM KeysCorrect ==
  ASSUME SingleServer, "fopen" \notin Faults
  PROVE  Spec => []KeysInv
<1>1. Init => KeysInv
  BY CallInit, HomeAssumption DEF Init, KeysInv, IdInv, KeysIncreasing, KeysFit
<1>2. KeysInv /\ [Next]_vars => KeysInv'
  BY CallStep, KeysStep DEF KeysInv
<1>3. QED
  BY <1>1, <1>2, PTL DEF Spec

\* One server whose getmax can read key.dat gives growing keys to all the
\* documents, over any number of crashes, restarts and failed puts, as long as
\* the keys fit getmax's int.
THEOREM KeysGrow ==
  ASSUME SingleServer, "fopen" \notin Faults
  PROVE  Spec => []KeysIncreasing
<1>1. KeysInv => KeysIncreasing
  BY DEF KeysInv
<1>2. QED
  BY <1>1, KeysCorrect, PTL

\* So no two documents of one server have the same key, as long as the keys fit.
THEOREM KeysDiffer ==
  ASSUME SingleServer, "fopen" \notin Faults
  PROVE  Spec /\ []KeysFit => []UniqueKeys
<1>1. CallInv /\ KeysIncreasing /\ KeysFit => UniqueKeys
  <2> SUFFICES ASSUME CallInv, KeysIncreasing, KeysFit,
                      NEW m \in DOMAIN keyfile, NEW n \in DOMAIN keyfile,
                      keyfile[m].key = keyfile[n].key
               PROVE  m = n
    BY DEF UniqueKeys
  <2>1. m < n \/ n < m \/ m = n
    BY DEF CallInv, TypeOK
  <2>2. \A k \in DOMAIN keyfile : keyfile[k].key \in Int
    <3>1. \A k \in DOMAIN keyfile : keyfile[k] \in Record
      BY DEF CallInv, TypeOK
    <3>2. QED
      BY <3>1 DEF Record
  <2>3. QED
    BY <2>1, <2>2 DEF KeysIncreasing
<1>2. QED
  BY <1>1, CallsCorrect, KeysGrow, PTL

-----------------------------------------------------------------------------
(***************************************************************************)
(* Acknowledged documents stay stored.  First: the files only grow, which  *)
(* keeps every document that is whole; then the steps of a put.            *)
(***************************************************************************)

\* The files are append-only: old bytes and old records stay as they are.
Grows ==
  /\ \E t \in Seq(Byte) : valfile' = valfile \o t
  /\ \A m \in DOMAIN keyfile : m \in DOMAIN keyfile' /\ keyfile'[m] = keyfile[m]

LEMMA SameGrows ==
  ASSUME TypeOK, UNCHANGED <<keyfile, valfile>>
  PROVE  Grows
<1>1. valfile' = valfile \o << >> /\ << >> \in Seq(Byte)
  BY ConcatEmptySeq, EmptySeq DEF TypeOK
<1>2. QED
  BY <1>1 DEF Grows

LEMMA AppendGrows ==
  ASSUME TypeOK, NEW s \in Server, NEW n \in 0..Len(valbuf[s]), AppendValue(s, n),
         keyfile' = keyfile
  PROVE  Grows
<1>1. SubSeq(valbuf[s], 1, n) \in Seq(Byte)
  BY Prefix DEF TypeOK
<1>2. QED
  BY <1>1 DEF Grows, AppendValue

LEMMA FlushGrows ==
  ASSUME TypeOK, NEW s \in Server, FlushValue(s), keyfile' = keyfile
  PROVE  Grows
<1>1. PICK n \in Flushed(valbuf[s]) : AppendValue(s, n)
  BY DEF FlushValue
<1>2. n \in 0..Len(valbuf[s])
  BY <1>1, FlushedRange DEF TypeOK
<1>3. QED
  BY <1>1, <1>2, AppendGrows

LEMMA DiskGrows == CallInv /\ [Next]_vars => Grows
<1> SUFFICES ASSUME CallInv, [Next]_vars PROVE Grows
  OBVIOUS
<1> USE DEF CallInv
<1>1. ASSUME NEW s \in Server, Open(s) \/ GetMax(s) \/ Crash(s) PROVE Grows
  BY <1>1, SameGrows DEF Open, GetMax, Crash, disk
<1>2. ASSUME NEW s \in Server, Close(s) PROVE Grows
  BY <1>2, NothingToFlush, FlushGrows DEF Close
<1>3. ASSUME NEW w \in Worker, Call(w) \/ Lock(w) \/ MakeKey(w) PROVE Grows
  BY <1>3, SameGrows DEF Call, Lock, MakeKey, disk
<1>4. ASSUME NEW w \in Worker, PutEmpty(w) \/ TellFail(w) \/ PutValue(w) PROVE Grows
  BY <1>4, SameGrows DEF PutEmpty, TellFail, PutValue, disk
<1>5. ASSUME NEW w \in Worker, Spill(w) PROVE Grows
  <2>1. Home[w] \in Server /\ Block \in 0..Len(valbuf[Home[w]])
    BY <1>5, HomeAssumption, NumberAssumption, LenProperties DEF TypeOK, Spill
  <2>2. QED
    BY <1>5, <2>1, AppendGrows DEF Spill
<1>6. ASSUME NEW w \in Worker, WriteFail(w) PROVE Grows
  <2>1. PICK n \in 0..(Len(valbuf[Home[w]]) - 1) : AppendValue(Home[w], n)
    BY <1>6 DEF WriteFail
  <2>2. Home[w] \in Server /\ n \in 0..Len(valbuf[Home[w]])
    BY <2>1, HomeAssumption, LenProperties DEF TypeOK
  <2>3. QED
    BY <1>6, <2>1, <2>2, AppendGrows DEF WriteFail
<1>7. ASSUME NEW w \in Worker, PutKey(w) \/ KeyFail(w) \/ Unlock(w) PROVE Grows
  BY <1>7, SameGrows DEF PutKey, KeyFail, Unlock, disk
<1>8. ASSUME NEW w \in Worker, FlushKey(w) PROVE Grows
  <2>1. valfile' = valfile
    BY <1>8 DEF FlushKey
  <2>2. CASE keyfile' = keyfile
    BY <2>1, <2>2, SameGrows
  <2>3. CASE keyfile' = Append(keyfile, Rec(w))
    <3>1. \A m \in DOMAIN keyfile : m \in DOMAIN keyfile' /\ keyfile'[m] = keyfile[m]
      BY <1>8, <2>3, FlushKeyEffect, AppendProperties, LenProperties DEF TypeOK
    <3>2. valfile' = valfile \o << >> /\ << >> \in Seq(Byte)
      BY <2>1, ConcatEmptySeq, EmptySeq DEF TypeOK
    <3>3. QED
      BY <3>1, <3>2 DEF Grows
  <2>4. QED
    BY <1>8, <2>2, <2>3, FlushKeyEffect
<1>9. ASSUME NEW w \in Worker, FlushVal(w) PROVE Grows
  BY <1>9, HomeAssumption, FlushGrows DEF FlushVal
<1>10. CASE UNCHANGED vars
  BY <1>10, SameGrows DEF vars
<1>11. QED
  BY <1>1, <1>2, <1>3, <1>4, <1>5, <1>6, <1>7, <1>8, <1>9, <1>10
     DEF Next, Work, Quiet

\* A record that holds a value goes on holding it.
LEMMA HoldsKept ==
  ASSUME TypeOK, Grows, NEW m \in DOMAIN keyfile, NEW v \in Seq(Byte),
         Holds(valfile, keyfile[m], v)
  PROVE  /\ m \in DOMAIN keyfile' /\ keyfile'[m] = keyfile[m]
         /\ Holds(valfile', keyfile'[m], v)
<1>1. m \in DOMAIN keyfile' /\ keyfile'[m] = keyfile[m]
  BY DEF Grows
<1>2. PICK t \in Seq(Byte) : valfile' = valfile \o t
  BY DEF Grows
<1>3. valfile \in Seq(Byte) /\ Len(valfile) \in Nat /\ Len(t) \in Nat
  BY <1>2, LenProperties DEF TypeOK
<1>4. /\ Len(valfile') = Len(valfile) + Len(t)
      /\ \A j \in 1..Len(valfile) : valfile'[j] = valfile[j]
  BY <1>2, <1>3, ConcatProperties
<1>5. /\ keyfile[m].offset \in Nat /\ keyfile[m].length \in Nat
      /\ Len(v) \in Nat
  BY RecordType, LenProperties
<1>6. keyfile[m].offset + keyfile[m].length <= Len(valfile')
  BY <1>3, <1>4, <1>5 DEF Holds
<1>7. ASSUME NEW j \in 1..Len(v) PROVE valfile'[keyfile[m].offset + j] = v[j]
  <2>1. keyfile[m].offset + j \in 1..Len(valfile)
    BY <1>3, <1>5 DEF Holds
  <2>2. QED
    BY <1>4, <2>1 DEF Holds
<1>8. QED
  BY <1>1, <1>6, <1>7 DEF Holds


\* The bytes of value.dat followed by those in a server's buffer.
All(s) == valfile \o valbuf[s]

\* Writing a block moves bytes from the buffer to the file.
LEMMA SpillKeepsAll ==
  ASSUME TypeOK, NEW w \in Worker, Spill(w)
  PROVE  All(Home[w])' = All(Home[w])
<1> DEFINE s == Home[w]
           b == valbuf[s]
           b1 == SubSeq(b, 1, Block)
           b2 == SubSeq(b, Block + 1, Len(b))
<1>1. s \in Server /\ b \in Seq(Byte) /\ Len(b) \in Nat /\ Block \in 1..Len(b)
  BY HomeAssumption, NumberAssumption, LenProperties DEF TypeOK, Spill
<1>2. b1 \in Seq(Byte) /\ b2 \in Seq(Byte)
  BY <1>1, Prefix, Suffix
<1>3. b1 \o b2 = SubSeq(b, 1, Len(b))
  BY <1>1, ConcatAdjacentSubSeq
<1>4. b1 \o b2 = b
  BY <1>1, <1>3, SubSeqFull
<1>5. valfile' = valfile \o b1 /\ valbuf'[s] = b2
  BY <1>1 DEF Spill, AppendValue, TypeOK
<1>6. (valfile \o b1) \o b2 = valfile \o (b1 \o b2)
  <2>1. valfile \in Seq(Byte)
    BY DEF TypeOK
  <2> HIDE DEF b1, b2
  <2>2. QED
    BY <1>2, <2>1, ConcatAssociative
<1>7. QED
  BY <1>4, <1>5, <1>6 DEF All

\* A flush that does not fail writes the whole buffer.
LEMMA FlushWritesAll ==
  ASSUME TypeOK, "fflush" \notin Faults, NEW s \in Server, FlushValue(s)
  PROVE  valfile' = All(s) /\ valbuf' = [valbuf EXCEPT ![s] = << >>]
<1>1. PICK n \in Flushed(valbuf[s]) :
        AppendValue(s, n) /\ valbuf' = [valbuf EXCEPT ![s] = << >>]
  BY DEF FlushValue
<1>2. n = Len(valbuf[s])
  BY <1>1 DEF Flushed
<1>3. SubSeq(valbuf[s], 1, n) = valbuf[s]
  BY <1>2, SubSeqFull DEF TypeOK
<1>4. QED
  BY <1>1, <1>3 DEF AppendValue, All

\* Whatever is appended, the stream is at the end of the file afterwards.
LEMMA AppendPos ==
  ASSUME TypeOK, NEW s \in Server, NEW n \in 0..Len(valbuf[s]), AppendValue(s, n),
         valpos[s] = Len(valfile)
  PROVE  valpos'[s] = Len(valfile')
<1>1. /\ Len(valfile) \in Nat /\ valfile \in Seq(Byte)
      /\ SubSeq(valbuf[s], 1, n) \in Seq(Byte) /\ Len(SubSeq(valbuf[s], 1, n)) = n
  BY Prefix, LenProperties DEF TypeOK
<1>2. Len(valfile') = Len(valfile) + n
  BY <1>1, ConcatProperties DEF AppendValue
<1>3. valpos'[s] = IF n = 0 THEN valpos[s] ELSE Len(valfile) + n
  BY DEF TypeOK, AppendValue
<1>4. QED
  BY <1>1, <1>2, <1>3

LEMMA PosStep ==
  ASSUME SingleServer
  PROVE  CallInv /\ PosInv /\ [Next]_vars => PosInv'
<1> SUFFICES ASSUME CallInv, PosInv, [Next]_vars PROVE PosInv'
  OBVIOUS
<1> USE DEF CallInv
<1>1. ASSUME NEW s \in Server, Open(s) PROVE PosInv'
  BY <1>1 DEF Open, PosInv, TypeOK, SingleServer, disk
<1>2. ASSUME NEW s \in Server, GetMax(s) PROVE PosInv'
  BY <1>2 DEF GetMax, PosInv, TypeOK, SingleServer, disk, stream
<1>3. ASSUME NEW s \in Server, Close(s) PROVE PosInv'
  <2>1. phase'[s] = "down" /\ valbuf'[s] = << >>
    BY <1>3 DEF Close, FlushValue, TypeOK
  <2>2. QED
    BY <2>1 DEF PosInv, SingleServer
<1>4. ASSUME NEW s \in Server, Crash(s) PROVE PosInv'
  <2>1. phase'[s] = "down" /\ valbuf'[s] = << >>
    BY <1>4 DEF Crash, TypeOK
  <2>2. QED
    BY <2>1 DEF PosInv, SingleServer
<1>5. ASSUME NEW w \in Worker, Call(w) \/ Lock(w) \/ MakeKey(w) PROVE PosInv'
  BY <1>5 DEF Call, Lock, MakeKey, PosInv, disk, stream
<1>6. ASSUME NEW w \in Worker, PutEmpty(w) \/ TellFail(w) \/ KeyFail(w) PROVE PosInv'
  BY <1>6 DEF PutEmpty, TellFail, KeyFail, PosInv, disk, stream
<1>7. ASSUME NEW w \in Worker, PutValue(w) PROVE PosInv'
  <2>1. \A s \in Server : phase[s] = "serving"
    BY <1>7, HomeAssumption DEF PutValue, LockInv, SingleServer
  <2>2. QED
    BY <1>7, <2>1 DEF PutValue, PosInv, disk
<1>8. ASSUME NEW w \in Worker, Spill(w) \/ WriteFail(w) \/ FlushVal(w) PROVE PosInv'
  <2> DEFINE s == Home[w]
  <2>1. s \in Server /\ phase[s] = "serving" /\ phase' = phase
    BY <1>8, HomeAssumption
       DEF Spill, WriteFail, FlushVal, Return, Goto, LockInv
  <2>2. PICK n \in 0..Len(valbuf[s]) : AppendValue(s, n)
    <3>1. CASE Spill(w)
      BY <2>1, <3>1, NumberAssumption, LenProperties DEF Spill, TypeOK
    <3>2. CASE WriteFail(w)
      <4>1. PICK n \in 0..(Len(valbuf[s]) - 1) : AppendValue(s, n)
        BY <3>2 DEF WriteFail
      <4>2. n \in 0..Len(valbuf[s])
        BY <2>1, <4>1, LenProperties DEF TypeOK
      <4>3. QED
        BY <4>1, <4>2
    <3>3. CASE FlushVal(w)
      <4>1. PICK n \in Flushed(valbuf[s]) : AppendValue(s, n)
        BY <3>3 DEF FlushVal, FlushValue
      <4>2. n \in 0..Len(valbuf[s])
        BY <2>1, <4>1, FlushedRange DEF TypeOK
      <4>3. QED
        BY <4>1, <4>2
    <3>4. QED
      BY <1>8, <3>1, <3>2, <3>3
  <2>3. valpos'[s] = Len(valfile')
    BY <2>1, <2>2, AppendPos DEF PosInv
  <2>4. QED
    BY <2>1, <2>3 DEF PosInv, SingleServer
<1>9. ASSUME NEW w \in Worker, PutKey(w) \/ FlushKey(w) \/ Unlock(w) PROVE PosInv'
  BY <1>9 DEF PutKey, FlushKey, Unlock, PosInv, disk, stream
<1>10. CASE UNCHANGED vars
  BY <1>10 DEF PosInv, vars
<1>11. QED
  BY <1>1, <1>2, <1>3, <1>4, <1>5, <1>6, <1>7, <1>8, <1>9, <1>10
     DEF Next, Work, Quiet


Late == {"write", "flushkey", "flushval"}

\* Steps that leave the calls past fwrite, and their bytes, alone.
LEMMA ValueKept ==
  ASSUME ValueInv,
         \A v \in Worker : pc'[v] \in Late =>
           /\ pc[v] \in Late /\ call'[v] = call[v] /\ i'[v] = i[v] /\ off'[v] = off[v]
           /\ All(Home[v])' = All(Home[v])
  PROVE  ValueInv'
<1>1. ASSUME NEW v \in Worker, pc'[v] \in Late
      PROVE  LET all == All(Home[v])' IN
             /\ off'[v] + Len(Cur(v)') = Len(all)
             /\ \A j \in 1..Len(Cur(v)') : all[off'[v] + j] = Cur(v)'[j]
  <2>1. Cur(v)' = Cur(v)
    BY <1>1 DEF Cur
  <2>2. QED
    BY <1>1, <2>1 DEF ValueInv, Late, All
<1>2. QED
  BY <1>1 DEF ValueInv, Late, All

LEMMA ValueStep ==
  ASSUME SingleServer, "fflush" \notin Faults
  PROVE  CallInv /\ PosInv /\ ValueInv /\ [Next]_vars => ValueInv'
<1> SUFFICES ASSUME CallInv, PosInv, ValueInv, [Next]_vars PROVE ValueInv'
  OBVIOUS
<1> USE DEF CallInv
<1>0. \A v, w \in Worker : v # w /\ Inside(w) => ~Inside(v)
  BY Mutex, HomeAssumption DEF SingleServer
<1>1. ASSUME NEW s \in Server, Open(s) \/ GetMax(s) PROVE ValueInv'
  <2>1. UNCHANGED <<valfile, valbuf, pc, call, i, off>>
    BY <1>1 DEF Open, GetMax, disk, stream, locals
  <2>2. QED
    BY <2>1 DEF ValueInv, Cur
<1>2. ASSUME NEW s \in Server, Close(s) \/ Crash(s) PROVE ValueInv'
  <2>1. \A v \in Worker : pc'[v] = "idle"
    BY <1>2, HomeAssumption DEF Close, Crash, WorkersIdle, SingleServer
  <2>2. QED
    BY <2>1 DEF ValueInv
<1>3. ASSUME NEW w \in Worker, Call(w) \/ Lock(w) PROVE ValueInv'
  <2>1. /\ UNCHANGED <<valfile, valbuf, off, i>>
        /\ \A v \in Worker : v # w => call'[v] = call[v] /\ pc'[v] = pc[v]
        /\ pc'[w] \notin Late
    BY <1>3 DEF Call, Lock, Goto, TypeOK, disk, stream, locals, Late
  <2>2. QED
    BY <2>1, ValueKept DEF All
<1>4. ASSUME NEW w \in Worker, MakeKey(w) \/ PutEmpty(w) \/ TellFail(w) \/ WriteFail(w)
                               \/ KeyFail(w) \/ FlushVal(w) \/ Unlock(w)
      PROVE  ValueInv'
  <2>1. Inside(w) /\ pc'[w] \notin Late /\ \A v \in Worker : v # w => pc'[v] = pc[v]
    BY <1>4 DEF MakeKey, PutEmpty, TellFail, WriteFail, KeyFail, FlushVal, Unlock,
                Return, Goto, TypeOK, Inside, Late
  <2>2. \A v \in Worker : pc'[v] \notin Late
    BY <1>0, <2>1 DEF Inside, Late
  <2>3. QED
    BY <2>2 DEF ValueInv, Late
<1>5. ASSUME NEW w \in Worker, PutValue(w) PROVE ValueInv'
  <2> DEFINE s == Home[w]
             b == valbuf[s]
             c == Cur(w)
  <2>1. /\ s \in Server /\ b \in Seq(Byte) /\ c \in Seq(Byte) /\ valfile \in Seq(Byte)
        /\ Len(b) \in Nat /\ Len(c) \in Nat /\ Len(valfile) \in Nat
    BY <1>5, HomeAssumption, CurType, LenProperties DEF PutValue, TypeOK
  <2>2. phase[s] = "serving" /\ pc[w] = "value"
    BY <1>5 DEF PutValue, LockInv
  <2>3. Tell(s) = Len(valfile) + Len(b)
    <3>1. valpos[s] = Len(valfile)
      BY <2>1, <2>2 DEF PosInv
    <3>2. CASE b = << >>
      BY <2>1, <3>1, <3>2 DEF Tell
    <3>3. CASE b # << >>
      BY <3>3 DEF Tell
    <3>4. QED
      BY <3>2, <3>3
  <2>4. /\ off'[w] = Len(valfile) + Len(b) /\ Cur(w)' = c
        /\ valfile' = valfile /\ valbuf'[s] = b \o c
    BY <1>5, <2>1, <2>3 DEF PutValue, TypeOK, Cur, disk
  <2>5. /\ b \o c \in Seq(Byte) /\ Len(b \o c) = Len(b) + Len(c)
        /\ \A j \in 1..Len(c) : (b \o c)[Len(b) + j] = c[j]
    <3> HIDE DEF b, c
    <3>1. QED
      BY <2>1, ConcatProperties
  <2>6. Len(valfile \o (b \o c)) = Len(valfile) + Len(b) + Len(c)
    BY <2>1, <2>5, ConcatProperties
  <2>7. ASSUME NEW j \in 1..Len(c)
        PROVE  (valfile \o (b \o c))[Len(valfile) + Len(b) + j] = c[j]
    <3>1. (valfile \o (b \o c))[Len(valfile) + Len(b) + j] = (b \o c)[Len(b) + j]
      BY <2>1, <2>5, ConcatProperties, SMTT(30)
    <3>2. QED
      BY <2>5, <3>1
  <2>8. \A v \in Worker : pc'[v] \in Late => v = w
    BY <1>0, <1>5 DEF PutValue, Goto, TypeOK, Inside, Late
  <2>9. QED
    BY <2>4, <2>6, <2>7, <2>8, ZenonT(30) DEF ValueInv, Late
<1>6. ASSUME NEW w \in Worker, Spill(w) PROVE ValueInv'
  <2>1. pc[w] = "write" /\ UNCHANGED <<pc, call, i, off>>
    BY <1>6 DEF Spill, locals
  <2>2. \A v \in Worker : pc'[v] \in Late => v = w
    BY <1>0, <2>1 DEF Inside, Late
  <2>3. QED
    BY <1>6, <2>1, <2>2, SpillKeepsAll, ValueKept
<1>7. ASSUME NEW w \in Worker, PutKey(w) \/ FlushKey(w) PROVE ValueInv'
  <2>1. /\ UNCHANGED <<valfile, valbuf, call, i, off>> /\ pc[w] \in Late
        /\ \A v \in Worker : v # w => pc'[v] = pc[v]
    BY <1>7 DEF PutKey, FlushKey, Goto, TypeOK, disk, locals, Late
  <2>2. QED
    BY <2>1, ValueKept DEF All
<1>8. CASE UNCHANGED vars
  BY <1>8 DEF ValueInv, Cur, vars
<1>9. QED
  BY <1>1, <1>2, <1>3, <1>4, <1>5, <1>6, <1>7, <1>8 DEF Next, Work, Quiet


\* Acknowledged documents are kept by every step that acknowledges none.
LEMMA AckedKept ==
  ASSUME TypeOK, Grows, AckedStored, acked' = acked
  PROVE  AckedStored'
<1>1. ASSUME NEW a \in acked
      PROVE  \E m \in DOMAIN keyfile' :
               keyfile'[m].key = a.key /\ Holds(valfile', keyfile'[m], a.val)
  <2>1. PICK m \in DOMAIN keyfile : keyfile[m].key = a.key /\ Holds(valfile, keyfile[m], a.val)
    BY <1>1 DEF AckedStored
  <2>2. a.val \in Seq(Byte)
    BY <1>1, ValueAssumption DEF TypeOK, Ack
  <2>3. QED
    BY <2>1, <2>2, HoldsKept
<1>2. QED
  BY <1>1 DEF AckedStored

\* A worker whose call does not move keeps what it has done.
LEMMA DoneKept ==
  ASSUME TypeOK, LoopInv, Grows, NEW v \in Worker, Done(v),
         pc'[v] = pc[v], call'[v] = call[v], i'[v] = i[v], off'[v] = off[v],
         ret'[v] = ret[v], key'[Home[v]] = key[Home[v]]
  PROVE  Done(v)'
<1>1. pc[v] = "flushval" => \E m \in DOMAIN keyfile' : keyfile'[m] = Rec(v)'
  BY DEF Done, Rec, Cur, Grows
<1>2. ASSUME pc[v] = "loop", call[v].op = "put", i[v] > 1, ret[v] = 0
      PROVE  \E m \in DOMAIN keyfile' : /\ keyfile'[m].key = key'[Home[v]]
                                       /\ Holds(valfile', keyfile'[m], call[v].values[1])
  <2>1. PICK m \in DOMAIN keyfile : /\ keyfile[m].key = key[Home[v]]
                                   /\ Holds(valfile, keyfile[m], call[v].values[1])
    BY <1>2 DEF Done
  <2>2. call[v].values[1] \in Seq(Byte)
    BY <1>2, ValueAssumption, ElementOfSeq DEF TypeOK, LoopInv, Arguments
  <2>3. QED
    BY <2>1, <2>2, HoldsKept
<1>3. QED
  BY <1>1, <1>2 DEF Done


\* When ozwrite_put returns 0 the document it was given is stored.
LEMMA PutDone ==
  ASSUME CallInv, PosInv, ValueInv, DoneInv, Grows, "fflush" \notin Faults,
         NEW w \in Worker, FlushVal(w)
  PROVE  \E m \in DOMAIN keyfile' : /\ keyfile'[m].key = key[Home[w]]
                                   /\ Holds(valfile', keyfile'[m], Cur(w))
<1> USE DEF CallInv
<1>1. Home[w] \in Server /\ pc[w] = "flushval"
  BY HomeAssumption DEF FlushVal, Return, Goto
<1>2. PICK m \in DOMAIN keyfile : keyfile[m] = Rec(w)
  BY <1>1 DEF DoneInv, Done
<1>3. valfile' = All(Home[w])
  BY <1>1, FlushWritesAll DEF FlushVal
<1>4. /\ off[w] + Len(Cur(w)) = Len(valfile')
      /\ \A j \in 1..Len(Cur(w)) : valfile'[off[w] + j] = Cur(w)[j]
  BY <1>1, <1>3 DEF ValueInv, All
<1>5. off[w] \in Nat /\ Len(Cur(w)) \in Nat
  BY <1>1, CurType DEF TypeOK
<1>6. Holds(valfile', Rec(w), Cur(w))
  BY <1>4, <1>5 DEF Holds, Rec
<1>7. QED
  BY <1>2, <1>6 DEF Grows, Rec

LEMMA DoneStep ==
  ASSUME SingleServer, "fflush" \notin Faults
  PROVE  StoredInv /\ [Next]_vars => DoneInv' /\ AckedStored'
<1> SUFFICES ASSUME StoredInv, [Next]_vars PROVE DoneInv' /\ AckedStored'
  OBVIOUS
<1> USE DEF StoredInv, CallInv
<1>0. Grows /\ \A v, w \in Worker : v # w /\ Inside(w) => ~Inside(v)
  BY DiskGrows, Mutex, HomeAssumption DEF SingleServer
<1>1. ASSUME NEW s \in Server, Open(s) \/ GetMax(s) PROVE DoneInv' /\ AckedStored'
  <2>1. UNCHANGED <<pc, call, i, off, ret, key, acked>>
    BY <1>1 DEF Open, GetMax, shared, locals
  <2>2. QED
    BY <1>0, <2>1, DoneKept, AckedKept DEF DoneInv
<1>2. ASSUME NEW s \in Server, Close(s) PROVE DoneInv' /\ AckedStored'
  <2>1. UNCHANGED <<pc, call, i, off, ret, key, acked>>
    BY <1>2 DEF Close, shared, locals
  <2>2. QED
    BY <1>0, <2>1, DoneKept, AckedKept DEF DoneInv
<1>3. ASSUME NEW s \in Server, Crash(s) PROVE DoneInv' /\ AckedStored'
  <2>1. \A v \in Worker : pc'[v] = "idle" /\ i'[v] = 1
    BY <1>3, HomeAssumption DEF Crash, SingleServer
  <2>2. acked' = acked
    BY <1>3 DEF Crash
  <2>3. QED
    BY <1>0, <2>1, <2>2, AckedKept DEF DoneInv, Done
<1>4. ASSUME NEW w \in Worker, Call(w) \/ Lock(w) PROVE DoneInv' /\ AckedStored'
  <2>1. /\ UNCHANGED <<key, i, off, ret, acked>>
        /\ \A v \in Worker : v # w => call'[v] = call[v] /\ pc'[v] = pc[v]
        /\ pc[w] \in {"idle", "lock"} /\ pc'[w] \in {"lock", "loop"}
    BY <1>4 DEF Call, Lock, Goto, TypeOK, shared, locals
  <2>2. Done(w)'
    BY <2>1 DEF DoneInv, Done
  <2>3. \A v \in Worker : v # w => Done(v)'
    BY <1>0, <2>1, DoneKept DEF DoneInv
  <2>4. QED
    BY <1>0, <2>1, <2>2, <2>3, AckedKept DEF DoneInv
<1>5. ASSUME NEW w \in Worker, Inside(w),
             \A v \in Worker : v # w => pc'[v] = pc[v] /\ i'[v] = i[v]
      PROVE  \A v \in Worker : v # w => Done(v)'
  BY <1>0, <1>5 DEF DoneInv, Done, Inside
<1>6. ASSUME NEW w \in Worker, MakeKey(w) \/ PutValue(w) \/ Spill(w) \/ PutKey(w)
      PROVE  DoneInv' /\ AckedStored'
  <2>1. /\ Inside(w) /\ pc'[w] \in {"value", "write", "flushkey"} /\ acked' = acked
        /\ \A v \in Worker : v # w => pc'[v] = pc[v] /\ i'[v] = i[v]
    BY <1>6 DEF MakeKey, PutValue, Spill, PutKey, Goto, TypeOK, locals, Inside
  <2>2. Done(w)'
    BY <2>1 DEF Done
  <2>3. QED
    BY <1>0, <1>5, <2>1, <2>2, AckedKept DEF DoneInv
<1>7. ASSUME NEW w \in Worker, PutEmpty(w) \/ TellFail(w) \/ WriteFail(w) \/ KeyFail(w)
      PROVE  DoneInv' /\ AckedStored'
  <2>1. /\ Inside(w) /\ pc'[w] = "loop" /\ ret'[w] # 0 /\ acked' = acked
        /\ \A v \in Worker : v # w => pc'[v] = pc[v] /\ i'[v] = i[v]
    BY <1>7 DEF PutEmpty, TellFail, WriteFail, KeyFail, Return, Goto, TypeOK, Inside
  <2>2. Done(w)'
    BY <2>1 DEF Done
  <2>3. QED
    BY <1>0, <1>5, <2>1, <2>2, AckedKept DEF DoneInv
<1>8. ASSUME NEW w \in Worker, FlushKey(w) PROVE DoneInv' /\ AckedStored'
  <2>1. /\ Inside(w) /\ pc'[w] = "flushval" /\ acked' = acked
        /\ \A v \in Worker : v # w => pc'[v] = pc[v] /\ i'[v] = i[v]
    BY <1>8 DEF FlushKey, Goto, TypeOK, Inside, locals
  <2>2. keyfile' = Append(keyfile, Rec(w)) /\ Rec(w)' = Rec(w)
    BY <1>8, FlushKeyEffect DEF FlushKey, Rec, Cur, shared, locals
  <2>3. \E m \in DOMAIN keyfile' : keyfile'[m] = Rec(w)'
    <3>1. /\ Len(keyfile') = Len(keyfile) + 1 /\ keyfile'[Len(keyfile) + 1] = Rec(w)'
          /\ keyfile' \in Seq(Record) /\ Len(keyfile) \in Nat
      BY <1>8, <2>2, FlushKeyEffect, AppendProperties, LenProperties DEF TypeOK
    <3>2. Len(keyfile) + 1 \in DOMAIN keyfile'
      BY <3>1, LenProperties
    <3>3. QED
      BY <3>1, <3>2
  <2>4. Done(w)'
    BY <2>1, <2>3 DEF Done
  <2>5. QED
    BY <1>0, <1>5, <2>1, <2>4, AckedKept DEF DoneInv
<1>9. ASSUME NEW w \in Worker, FlushVal(w) PROVE DoneInv' /\ AckedStored'
  <2>1. /\ Inside(w) /\ pc[w] = "flushval" /\ pc'[w] = "loop" /\ acked' = acked
        /\ UNCHANGED <<call, key>>
        /\ \A v \in Worker : v # w => pc'[v] = pc[v] /\ i'[v] = i[v]
    BY <1>9 DEF FlushVal, Return, Goto, TypeOK, Inside, shared
  <2>2. ASSUME call[w].op = "put" PROVE Cur(w) = call[w].values[1]
    <3>1. i[w] \in DOMAIN call[w].values /\ Len(call[w].values) = 1
      BY <2>1, <2>2 DEF LoopInv
    <3>2. call[w].values \in Seq(Value)
      BY DEF TypeOK, Arguments
    <3>3. i[w] = 1
      BY <3>1, <3>2, LenProperties
    <3>4. QED
      BY <3>3 DEF Cur
  <2>3. \E m \in DOMAIN keyfile' : /\ keyfile'[m].key = key[Home[w]]
                                  /\ Holds(valfile', keyfile'[m], Cur(w))
    BY <1>0, <1>9, PutDone
  <2>4. Done(w)'
    BY <2>1, <2>2, <2>3 DEF Done
  <2>5. QED
    BY <1>0, <1>5, <2>1, <2>4, AckedKept DEF DoneInv
<1>10. ASSUME NEW w \in Worker, Unlock(w) PROVE DoneInv' /\ AckedStored'
  <2>1. /\ Inside(w) /\ pc[w] = "loop" /\ pc'[w] = "idle" /\ i'[w] = 1
        /\ \A v \in Worker : v # w => pc'[v] = pc[v] /\ i'[v] = i[v]
        /\ UNCHANGED <<keyfile, valfile>>
    BY <1>10 DEF Unlock, LeaveCall, Goto, TypeOK, Inside, disk
  <2>2. DoneInv'
    BY <1>5, <2>1 DEF DoneInv, Done
  <2>3. ASSUME NEW a \in acked'
        PROVE  \E m \in DOMAIN keyfile : keyfile[m].key = a.key /\ Holds(valfile, keyfile[m], a.val)
    <3>1. CASE a \in acked
      BY <3>1 DEF AckedStored
    <3>2. CASE a \notin acked
      <4>1. /\ call[w].op = "put" /\ ret[w] = 0 /\ i[w] > Len(call[w].values)
            /\ a = [key |-> key[Home[w]], val |-> call[w].values[1]]
        BY <1>10, <2>3, <3>2 DEF Unlock
      <4>2. i[w] > 1
        BY <4>1 DEF LoopInv
      <4>3. QED
        BY <2>1, <4>1, <4>2 DEF DoneInv, Done
    <3>3. QED
      BY <3>1, <3>2
  <2>4. QED
    BY <2>1, <2>2, <2>3 DEF AckedStored
<1>11. CASE UNCHANGED vars
  <2>1. UNCHANGED <<pc, call, i, off, ret, key, acked>>
    BY <1>11 DEF vars
  <2>2. QED
    BY <1>0, <2>1, DoneKept, AckedKept DEF DoneInv
<1>12. QED
  BY <1>1, <1>2, <1>3, <1>4, <1>6, <1>7, <1>8, <1>9, <1>10, <1>11
     DEF Next, Work, Quiet

\* With one server whose flushes do not fail, the stream stays at the end of
\* value.dat, the bytes of the put in progress are the last ones written, and
\* its record is on disk before ozwrite_put returns 0.
THEOREM StoredCorrect ==
  ASSUME SingleServer, "fflush" \notin Faults
  PROVE  Spec => []StoredInv
<1>1. Init => StoredInv
  BY CallInit, HomeAssumption
     DEF Init, StoredInv, PosInv, ValueInv, DoneInv, Done, AckedStored
<1>2. StoredInv /\ [Next]_vars => StoredInv'
  BY CallStep, PosStep, ValueStep, DoneStep DEF StoredInv
<1>3. QED
  BY <1>1, <1>2, PTL DEF Spec

\* One server whose flushes do not fail keeps every document whose put returned
\* normally, byte for byte under its key, over any number of crashes and
\* restarts and whatever else fails.
THEOREM AckedStays ==
  ASSUME SingleServer, "fflush" \notin Faults
  PROVE  Spec => []AckedStored
<1>1. StoredInv => AckedStored
  BY DEF StoredInv
<1>2. QED
  BY <1>1, StoredCorrect, PTL

=============================================================================
