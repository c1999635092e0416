---------------------------- MODULE OZLogProofs ----------------------------
(***************************************************************************)
(* One write server that neither crashes nor fails to flush makes an       *)
(* append-only log: its records lie one after the other in value.dat, what *)
(* they hold never changes, and OZWrite implements OZLog.  A crash breaks  *)
(* all three: it leaves a record whose value the next put overlaps.        *)
(***************************************************************************)
EXTENDS OZWriteProofs

-----------------------------------------------------------------------------
(***************************************************************************)
(* The layout of the two files.  EndsInv is what makes DocsInFileOrder     *)
(* inductive.                                                              *)
(***************************************************************************)

\* value.dat never gets shorter.
LEMMA GrowsLonger ==
  ASSUME TypeOK, Grows
  PROVE  Len(valfile) \in Nat /\ Len(valfile') \in Nat /\ Len(valfile) <= Len(valfile')
<1>1. PICK t \in Seq(Byte) : valfile' = valfile \o t
  BY DEF Grows
<1>2. valfile \in Seq(Byte) /\ Len(valfile) \in Nat /\ Len(t) \in Nat
  BY <1>1, LenProperties DEF TypeOK
<1>3. Len(valfile') = Len(valfile) + Len(t)
  BY <1>1, <1>2, ConcatProperties
<1>4. QED
  BY <1>2, <1>3

\* Where a record ends is a number.
LEMMA EndType ==
  ASSUME TypeOK, NEW m \in DOMAIN keyfile
  PROVE  EndOf(keyfile[m]) \in Nat
BY RecordType DEF EndOf

\* Without a put between its two flushes every value is in value.dat.
LEMMA AllWhole ==
  ASSUME EndsInv, \A v \in Worker : pc[v] # "flushval"
  PROVE  \A m \in DOMAIN keyfile : EndOf(keyfile[m]) <= Len(valfile)
BY DEF EndsInv

\* Steps that write no record and no new value, and end no put.
LEMMA EndsKept ==
  ASSUME TypeOK, EndsInv, DocsInFileOrder, Grows, keyfile' = keyfile,
         \A v \in Worker : pc'[v] \in {"write", "flushkey"} =>
           /\ pc[v] \in {"write", "flushkey"} /\ off'[v] = off[v]
           /\ call'[v] = call[v] /\ i'[v] = i[v],
         \A v \in Worker : pc[v] = "flushval" => pc'[v] = "flushval" /\ Rec(v)' = Rec(v)
  PROVE  EndsInv' /\ DocsInFileOrder'
<1>1. ASSUME NEW m \in DOMAIN keyfile, EndOf(keyfile[m]) <= Len(valfile)
      PROVE  EndOf(keyfile[m]) <= Len(valfile')
  BY <1>1, GrowsLonger, EndType
<1>2. ASSUME NEW m \in DOMAIN keyfile, ~(EndOf(keyfile[m]) <= Len(valfile))
      PROVE  m = Len(keyfile) /\ \E v \in Worker : pc'[v] = "flushval" /\ keyfile[m] = Rec(v)'
  BY <1>2 DEF EndsInv
<1>3. \A v \in Worker : pc'[v] \in {"write", "flushkey"} =>
        /\ \A m \in DOMAIN keyfile : EndOf(keyfile[m]) <= off'[v]
        /\ Cur(v)' # << >>
  BY DEF EndsInv, Cur
<1>4. EndsInv'
  BY <1>1, <1>2, <1>3 DEF EndsInv, EndOf
<1>5. DocsInFileOrder'
  BY DEF DocsInFileOrder
<1>6. QED
  BY <1>4, <1>5

LEMMA OrderStep ==
  ASSUME SingleServer, "fflush" \notin Faults, "crash" \notin Faults
  PROVE  OrderInv /\ [Next]_vars => EndsInv' /\ DocsInFileOrder'
<1> SUFFICES ASSUME OrderInv, [Next]_vars PROVE EndsInv' /\ DocsInFileOrder'
  OBVIOUS
<1> USE DEF OrderInv, CallInv
<1>0. Grows /\ \A v, w \in Worker : v # w /\ Inside(w) => ~Inside(v)
  BY DiskGrows, Mutex, HomeAssumption DEF SingleServer
<1>1. ASSUME NEW s \in Server, Open(s) \/ GetMax(s) PROVE EndsInv' /\ DocsInFileOrder'
  <2>1. UNCHANGED <<keyfile, pc, call, i, off, key>>
    BY <1>1 DEF Open, GetMax, disk, shared, locals
  <2>2. QED
    BY <1>0, <2>1, EndsKept DEF Rec, Cur
<1>2. ASSUME NEW s \in Server, Close(s) PROVE EndsInv' /\ DocsInFileOrder'
  <2>1. UNCHANGED <<keyfile, pc, call, i, off, key>>
    BY <1>2, NothingToFlush DEF Close, shared, locals
  <2>2. QED
    BY <1>0, <2>1, EndsKept DEF Rec, Cur
<1>3. ASSUME NEW w \in Worker, Call(w) \/ Lock(w) PROVE EndsInv' /\ DocsInFileOrder'
  <2>1. /\ UNCHANGED <<keyfile, i, off, key>>
        /\ pc[w] \in {"idle", "lock"} /\ pc'[w] \in {"lock", "loop"}
        /\ \A v \in Worker : v # w => pc'[v] = pc[v] /\ call'[v] = call[v]
    BY <1>3 DEF Call, Lock, Goto, TypeOK, disk, shared, locals
  <2>2. QED
    BY <1>0, <2>1, EndsKept DEF Rec, Cur
\* A step inside the critical section that is not the flush of a value.
<1>4. ASSUME NEW w \in Worker, Inside(w), pc[w] # "flushval", keyfile' = keyfile,
             \A v \in Worker : v # w => pc'[v] = pc[v],
             pc'[w] \in {"write", "flushkey"} =>
               /\ pc[w] \in {"write", "flushkey"} /\ UNCHANGED <<call, i, off>>
      PROVE  EndsInv' /\ DocsInFileOrder'
  BY <1>0, <1>4, EndsKept DEF Inside
<1>5. ASSUME NEW w \in Worker, MakeKey(w) \/ PutEmpty(w) \/ TellFail(w) \/ Unlock(w)
      PROVE  EndsInv' /\ DocsInFileOrder'
  <2>1. /\ Inside(w) /\ pc[w] # "flushval" /\ keyfile' = keyfile
        /\ pc'[w] \notin {"write", "flushkey"}
        /\ \A v \in Worker : v # w => pc'[v] = pc[v]
    BY <1>5 DEF MakeKey, PutEmpty, TellFail, Unlock, Return, Goto, TypeOK, Inside, disk
  <2>2. QED
    BY <1>4, <2>1
<1>6. ASSUME NEW w \in Worker, Spill(w) \/ WriteFail(w) \/ PutKey(w) \/ KeyFail(w)
      PROVE  EndsInv' /\ DocsInFileOrder'
  <2>1. /\ Inside(w) /\ pc[w] = "write" /\ keyfile' = keyfile
        /\ pc'[w] = "loop" \/ UNCHANGED <<call, i, off>>
        /\ \A v \in Worker : v # w => pc'[v] = pc[v]
    BY <1>6 DEF Spill, WriteFail, PutKey, KeyFail, Return, Goto, TypeOK, Inside, disk, locals
  <2>2. QED
    BY <1>4, <2>1
<1>7. ASSUME NEW w \in Worker, PutValue(w) PROVE EndsInv' /\ DocsInFileOrder'
  <2> DEFINE s == Home[w]
  <2>1. /\ s \in Server /\ pc[w] = "value" /\ pc' = [pc EXCEPT ![w] = "write"]
        /\ off' = [off EXCEPT ![w] = Tell(s)] /\ Cur(w) # << >>
        /\ UNCHANGED <<keyfile, valfile, call, i>>
    BY <1>7, HomeAssumption DEF PutValue, Goto, disk
  <2>2. \A v \in Worker : v # w => pc[v] \in {"idle", "lock"}
    BY <1>0, <2>1 DEF Inside
  <2>3. \A m \in DOMAIN keyfile : EndOf(keyfile[m]) <= Len(valfile)
    BY <2>1, <2>2, AllWhole
  <2>4. Len(valfile) \in Nat /\ Len(valbuf[s]) \in Nat
    BY <2>1, LenProperties DEF TypeOK
  <2>5. valpos[s] = Len(valfile)
    BY <2>1 DEF PosInv, LockInv
  <2>6. Tell(s) \in Nat /\ Len(valfile) <= Tell(s)
    BY <2>4, <2>5 DEF Tell
  <2>7. \A m \in DOMAIN keyfile : EndOf(keyfile[m]) <= Tell(s)
    BY <2>3, <2>4, <2>6, EndType
  <2>8. pc'[w] = "write" /\ off'[w] = Tell(s) /\ Cur(w)' # << >>
        /\ \A v \in Worker : v # w => pc'[v] \in {"idle", "lock"}
    BY <2>1, <2>2 DEF TypeOK, Cur
  <2>9. EndsInv'
    BY <2>1, <2>3, <2>7, <2>8 DEF EndsInv, EndOf
  <2>10. QED
    BY <2>1, <2>9 DEF DocsInFileOrder
<1>8. ASSUME NEW w \in Worker, FlushKey(w) PROVE EndsInv' /\ DocsInFileOrder'
  <2>1. /\ pc[w] = "flushkey" /\ pc'[w] = "flushval"
        /\ \A v \in Worker : v # w => pc'[v] = pc[v]
        /\ UNCHANGED <<valfile, call, i, off, key>>
    BY <1>8 DEF FlushKey, Goto, TypeOK, shared, locals
  <2>2. \A v \in Worker : v # w => pc[v] \in {"idle", "lock"}
    BY <1>0, <2>1 DEF Inside
  <2>3. /\ DOMAIN keyfile = 1..Len(keyfile) /\ Len(keyfile) \in Nat
        /\ Len(keyfile') = Len(keyfile) + 1 /\ DOMAIN keyfile' = 1..(Len(keyfile) + 1)
        /\ \A m \in 1..Len(keyfile) : keyfile'[m] = keyfile[m]
        /\ keyfile'[Len(keyfile) + 1] = Rec(w)
    <3>1. keyfile' = Append(keyfile, Rec(w)) /\ Rec(w) \in Record
      BY <1>8, FlushKeyEffect
    <3>2. keyfile \in Seq(Record)
      BY DEF TypeOK
    <3>3. QED
      BY <3>1, <3>2, AppendProperties, LenProperties
  <2>4. \A m \in 1..Len(keyfile) : EndOf(keyfile[m]) <= Len(valfile)
    BY <2>1, <2>2, <2>3, AllWhole
  <2>5. Rec(w)' = Rec(w)
    BY <2>1 DEF Rec, Cur
  <2>6. EndsInv'
    <3>1. \A v \in Worker : pc'[v] \notin {"write", "flushkey"}
      BY <2>1, <2>2
    <3>2. \A m \in 1..(Len(keyfile) + 1) :
            \/ EndOf(keyfile'[m]) <= Len(valfile)
            \/ m = Len(keyfile) + 1 /\ keyfile'[m] = Rec(w)'
      BY <2>3, <2>4, <2>5
    <3>3. QED
      BY <2>1, <2>3, <3>1, <3>2 DEF EndsInv, EndOf
  <2>7. DocsInFileOrder'
    <3>1. ASSUME NEW m \in 1..Len(keyfile)
          PROVE  keyfile[m].offset + keyfile[m].length <= Rec(w).offset
      BY <2>1, <2>3, <3>1 DEF EndsInv, EndOf, Rec
    <3>2. QED
      BY <2>3, <3>1 DEF DocsInFileOrder
  <2>8. QED
    BY <2>6, <2>7
<1>9. ASSUME NEW w \in Worker, FlushVal(w) PROVE EndsInv' /\ DocsInFileOrder'
  <2>1. /\ Home[w] \in Server /\ pc[w] = "flushval" /\ pc'[w] = "loop"
        /\ keyfile' = keyfile /\ \A v \in Worker : v # w => pc'[v] = pc[v]
    BY <1>9, HomeAssumption DEF FlushVal, Return, Goto, TypeOK
  <2>2. \A v \in Worker : v # w => pc[v] \in {"idle", "lock"}
    BY <1>0, <2>1 DEF Inside
  <2>3. off[w] + Len(Cur(w)) = Len(valfile')
    BY <1>9, <2>1, FlushWritesAll DEF FlushVal, ValueInv, All
  <2>4. \A m \in DOMAIN keyfile : EndOf(keyfile[m]) <= Len(valfile')
    <3>1. ASSUME NEW m \in DOMAIN keyfile, EndOf(keyfile[m]) <= Len(valfile)
          PROVE  EndOf(keyfile[m]) <= Len(valfile')
      BY <1>0, <3>1, GrowsLonger, EndType
    <3>2. ASSUME NEW m \in DOMAIN keyfile, ~(EndOf(keyfile[m]) <= Len(valfile))
          PROVE  EndOf(keyfile[m]) <= Len(valfile')
      <4>1. keyfile[m] = Rec(w)
        BY <2>2, <3>2 DEF EndsInv
      <4>2. QED
        BY <1>0, <2>3, <4>1, GrowsLonger DEF EndOf, Rec
    <3>3. QED
      BY <3>1, <3>2
  <2>5. \A v \in Worker : pc'[v] \notin {"write", "flushkey"}
    BY <2>1, <2>2
  <2>6. EndsInv'
    BY <2>1, <2>4, <2>5 DEF EndsInv, EndOf
  <2>7. QED
    BY <2>1, <2>6 DEF DocsInFileOrder
<1>10. CASE UNCHANGED vars
  <2>1. UNCHANGED <<keyfile, pc, call, i, off, key>>
    BY <1>10 DEF vars
  <2>2. QED
    BY <1>0, <2>1, EndsKept DEF Rec, Cur
<1>11. QED
  BY <1>1, <1>2, <1>3, <1>5, <1>6, <1>7, <1>8, <1>9, <1>10
     DEF Next, Work, Quiet, Crash

\* The invariant of the layout: values of records on disk are in value.dat but
\* for the one between its two flushes, and new values start where they end.
THEOREM OrderCorrect ==
  ASSUME SingleServer, "fflush" \notin Faults, "crash" \notin Faults
  PROVE  Spec => []OrderInv
<1>1. Init => OrderInv
  BY CallInit, HomeAssumption
     DEF Init, OrderInv, PosInv, ValueInv, EndsInv, DocsInFileOrder
<1>2. OrderInv /\ [Next]_vars => OrderInv'
  BY CallStep, PosStep, ValueStep, OrderStep DEF OrderInv
<1>3. QED
  BY <1>1, <1>2, PTL DEF Spec

\* Without crashes and failing flushes key.dat lists the documents in the order
\* of value.dat, without overlap, for any number of workers, calls and restarts
\* and whichever other stdio call fails.
THEOREM DocsInOrder ==
  ASSUME SingleServer, "fflush" \notin Faults, "crash" \notin Faults
  PROVE  Spec => []DocsInFileOrder
<1>1. OrderInv => DocsInFileOrder
  BY DEF OrderInv
<1>2. QED
  BY <1>1, OrderCorrect, PTL

-----------------------------------------------------------------------------
(***************************************************************************)
(* What is under a record never changes: an append to the file, or to the  *)
(* buffer behind it, leaves the bytes of a whole record alone.             *)
(***************************************************************************)

\* The bytes of a record are a byte string.
LEMMA BytesType ==
  ASSUME NEW r \in Record, NEW f \in Seq(Byte)
  PROVE  Bytes(r, f) \in Seq(Byte)
<1> DEFINE n == IF r.offset + r.length <= Len(f) THEN r.offset + r.length ELSE Len(f)
<1>1. r.offset \in Nat /\ r.length \in Nat /\ Len(f) \in Nat
  BY LenProperties DEF Record
<1>2. \A j \in (r.offset + 1)..n : f[j] \in Byte
  BY <1>1, ElementOfSeq
<1>3. n \in Int
  BY <1>1
<1>4. SubSeq(f, r.offset + 1, n) \in Seq(Byte)
  <2> HIDE DEF n
  <2>1. QED
    BY <1>1, <1>2, <1>3, SubSeqProperties
<1>5. QED
  BY <1>4 DEF Bytes

\* A record that lies in a file is its length long and found byte by byte.
LEMMA WholeBytes ==
  ASSUME NEW r \in Record, NEW f \in Seq(Byte), EndOf(r) <= Len(f)
  PROVE  /\ Bytes(r, f) \in Seq(Byte) /\ Len(Bytes(r, f)) = r.length
         /\ \A j \in 1..r.length : Bytes(r, f)[j] = f[r.offset + j]
<1> DEFINE a == r.offset + 1
           b == r.offset + r.length
<1>1. r.offset \in Nat /\ r.length \in Nat /\ Len(f) \in Nat
  BY LenProperties DEF Record
<1>2. Bytes(r, f) = SubSeq(f, a, b)
  BY DEF Bytes, EndOf
<1>3. a \in Int /\ b \in Int /\ \A j \in a..b : f[j] \in Byte
  BY <1>1, ElementOfSeq DEF EndOf
<1>4. /\ SubSeq(f, a, b) \in Seq(Byte)
      /\ Len(SubSeq(f, a, b)) = IF a <= b THEN b - a + 1 ELSE 0
      /\ \A j \in 1..(b - a + 1) : SubSeq(f, a, b)[j] = f[a + j - 1]
  <2> HIDE DEF a, b
  <2>1. QED
    BY <1>3, SubSeqProperties
<1>5. b - a + 1 = r.length /\ \A j \in 1..r.length : a + j - 1 = r.offset + j
  BY <1>1
<1>6. a <= b <=> r.length # 0
  BY <1>1
<1>7. QED
  BY <1>2, <1>4, <1>5, <1>6

\* What is appended to a file changes nothing under a record that lies in it.
LEMMA BytesKept ==
  ASSUME NEW r \in Record, NEW f \in Seq(Byte), NEW t \in Seq(Byte), EndOf(r) <= Len(f)
  PROVE  Bytes(r, f \o t) = Bytes(r, f)
<1>1. /\ r.offset \in Nat /\ r.length \in Nat
      /\ Len(f) \in Nat /\ Len(t) \in Nat
  BY LenProperties DEF Record
<1>2. /\ f \o t \in Seq(Byte) /\ Len(f \o t) = Len(f) + Len(t)
      /\ \A j \in 1..Len(f) : (f \o t)[j] = f[j]
  BY <1>1, ConcatProperties
<1>3. EndOf(r) <= Len(f \o t)
  BY <1>1, <1>2 DEF EndOf
<1>4. \A j \in 1..r.length : f[r.offset + j] = (f \o t)[r.offset + j]
  BY <1>1, <1>2 DEF EndOf
<1>5. /\ Bytes(r, f) \in Seq(Byte) /\ Len(Bytes(r, f)) = r.length
      /\ \A j \in 1..r.length : Bytes(r, f)[j] = f[r.offset + j]
  BY WholeBytes
<1>6. /\ Bytes(r, f \o t) \in Seq(Byte) /\ Len(Bytes(r, f \o t)) = r.length
      /\ \A j \in 1..r.length : Bytes(r, f \o t)[j] = (f \o t)[r.offset + j]
  BY <1>2, <1>3, WholeBytes
<1>7. QED
  BY <1>4, <1>5, <1>6, SeqEqual, ZenonT(30)

\* No step changes a record, or the bytes under a record that lies in value.dat.
LEMMA RecordBytesKept ==
  ASSUME TypeOK, Grows, NEW m \in DOMAIN keyfile, EndOf(keyfile[m]) <= Len(valfile)
  PROVE  /\ keyfile'[m] = keyfile[m]
         /\ Bytes(keyfile[m], valfile') = Bytes(keyfile[m], valfile)
<1>1. keyfile[m] \in Record /\ valfile \in Seq(Byte)
  BY ElementOfSeq, LenProperties DEF TypeOK
<1>2. PICK t \in Seq(Byte) : valfile' = valfile \o t
  BY DEF Grows
<1>3. QED
  BY <1>1, <1>2, BytesKept DEF Grows

\* With one server that neither crashes nor fails to flush, no step changes what
\* a reader finds under any record but the last ("All data won't change forever").
THEOREM DataStays ==
  ASSUME SingleServer, "fflush" \notin Faults, "crash" \notin Faults
  PROVE  Spec => DataNeverChanges
<1>1. OrderInv /\ [Next]_vars =>
        [\A m \in 1..(Len(keyfile) - 1) :
           /\ keyfile'[m] = keyfile[m]
           /\ Bytes(keyfile[m], valfile') = Bytes(keyfile[m], valfile)]_vars
  <2> SUFFICES ASSUME OrderInv, [Next]_vars, NEW m \in 1..(Len(keyfile) - 1)
               PROVE  /\ keyfile'[m] = keyfile[m]
                      /\ Bytes(keyfile[m], valfile') = Bytes(keyfile[m], valfile)
    OBVIOUS
  <2>1. m \in DOMAIN keyfile /\ m # Len(keyfile)
    BY LenProperties DEF OrderInv, CallInv, TypeOK
  <2>2. EndOf(keyfile[m]) <= Len(valfile)
    BY <2>1 DEF OrderInv, EndsInv
  <2>3. QED
    BY <2>1, <2>2, DiskGrows, RecordBytesKept DEF OrderInv, CallInv
<1>2. QED
  BY <1>1, OrderCorrect, PTL DEF Spec, DataNeverChanges

-----------------------------------------------------------------------------
(***************************************************************************)
(* OZWrite implements OZLog.  A FlushKey is the log's Put; every other     *)
(* step leaves the log alone, for it changes no record and, behind the     *)
(* records, moves bytes from the buffer to the end of the file.            *)
(***************************************************************************)

Doc == [key : Int, val : Seq(Byte)]

\* The log is a sequence of documents, one to a record.
LEMMA DocsType ==
  ASSUME TypeOK, NEW s \in Server, Pending = valbuf[s]
  PROVE  Docs \in Seq(Doc) /\ Len(Docs) = Len(keyfile)
<1>1. /\ keyfile \in Seq(Record) /\ DOMAIN keyfile = 1..Len(keyfile)
      /\ Len(keyfile) \in Nat
  BY LenProperties DEF TypeOK
<1>2. valfile \o Pending \in Seq(Byte)
  BY ConcatProperties DEF TypeOK
<1>3. ASSUME NEW m \in 1..Len(keyfile)
      PROVE  [key |-> keyfile[m].key, val |-> Bytes(keyfile[m], valfile \o Pending)] \in Doc
  BY <1>1, <1>2, ElementOfSeq, RecordType, BytesType DEF Doc
<1>4. Docs \in [1..Len(keyfile) -> Doc]
  BY <1>1, <1>3 DEF Docs
<1>5. QED
  BY <1>1, <1>4

\* The bytes of a whole record are the same with and without the buffer.
LEMMA WholeDoc ==
  ASSUME TypeOK, NEW m \in DOMAIN keyfile, EndOf(keyfile[m]) <= Len(valfile),
         NEW t \in Seq(Byte)
  PROVE  Bytes(keyfile[m], valfile \o t) = Bytes(keyfile[m], valfile)
BY BytesKept, ElementOfSeq, LenProperties DEF TypeOK

\* Steps that write no record leave the log alone.
LEMMA DocsKept ==
  ASSUME OrderInv, TypeOK', Grows, keyfile' = keyfile, NEW s \in Server,
         Pending = valbuf[s], Pending' = valbuf'[s],
         (\A v \in Worker : pc[v] # "flushval") \/ All(s)' = All(s)
  PROVE  Docs' = Docs
<1> USE DEF OrderInv, CallInv
<1>1. CASE All(s)' = All(s)
  BY <1>1 DEF Docs, All
<1>2. CASE \A v \in Worker : pc[v] # "flushval"
  <2>1. ASSUME NEW m \in DOMAIN keyfile
        PROVE  Bytes(keyfile[m], valfile' \o Pending') = Bytes(keyfile[m], valfile \o Pending)
    <3>1. EndOf(keyfile[m]) <= Len(valfile) /\ EndOf(keyfile[m]) <= Len(valfile')
      BY <1>2, AllWhole, GrowsLonger, EndType
    <3>2. Pending \in Seq(Byte) /\ Pending' \in Seq(Byte)
      BY DEF TypeOK
    <3>3. Bytes(keyfile[m], valfile \o Pending) = Bytes(keyfile[m], valfile)
      BY <3>1, <3>2, WholeDoc
    <3>4. Bytes(keyfile[m], valfile' \o Pending') = Bytes(keyfile[m], valfile')
      BY <3>1, <3>2, BytesKept, ElementOfSeq, LenProperties DEF TypeOK
    <3>5. QED
      BY <3>1, <3>3, <3>4, RecordBytesKept
  <2>2. QED
    BY <2>1 DEF Docs
<1>3. QED
  BY <1>1, <1>2

\* The value of a put in progress is what its record finds behind the log.
LEMMA RecBytes ==
  ASSUME CallInv, ValueInv, NEW w \in Worker, pc[w] \in {"flushkey", "flushval"},
         Rec(w) \in Record
  PROVE  Bytes(Rec(w), All(Home[w])) = Cur(w)
<1>1. Cur(w) \in Seq(Byte) /\ Len(Cur(w)) \in Nat /\ off[w] \in Nat
  BY CurType DEF CallInv, TypeOK
<1>2. All(Home[w]) \in Seq(Byte)
  BY HomeAssumption, ConcatProperties DEF CallInv, TypeOK, All
<1>3. /\ off[w] + Len(Cur(w)) = Len(All(Home[w]))
      /\ \A j \in 1..Len(Cur(w)) : All(Home[w])[off[w] + j] = Cur(w)[j]
  BY DEF ValueInv, All
<1>4. EndOf(Rec(w)) <= Len(All(Home[w]))
  BY <1>1, <1>3 DEF EndOf, Rec
<1>5. /\ Bytes(Rec(w), All(Home[w])) \in Seq(Byte)
      /\ Len(Bytes(Rec(w), All(Home[w]))) = Len(Cur(w))
      /\ \A j \in 1..Len(Cur(w)) :
           Bytes(Rec(w), All(Home[w]))[j] = All(Home[w])[off[w] + j]
  BY <1>2, <1>4, WholeBytes DEF Rec
<1>6. QED
  BY <1>1, <1>3, <1>5, SeqEqual

\* FlushKey adds the document of the put in progress to the log.
LEMMA LogPut ==
  ASSUME SingleServer, "fflush" \notin Faults,
         OrderInv, KeysInv, KeysFit, KeysFit', TypeOK', NEW w \in Worker, FlushKey(w)
  PROVE  Log!Next
<1> USE DEF OrderInv, CallInv
<1> DEFINE s == Home[w]
           k == key[s]
           v == Cur(w)
           e == [key |-> k, val |-> v]
<1>1. /\ s \in Server /\ pc[w] = "flushkey" /\ k \in Int /\ Pending = valbuf[s]
      /\ valfile' = valfile /\ Pending' = Pending /\ Pending' = valbuf'[s]
  <2>1. s \in Server /\ pc[w] = "flushkey" /\ k \in Int
    BY HomeAssumption DEF FlushKey, Goto, TypeOK
  <2>2. valfile' = valfile /\ valbuf' = valbuf
    BY DEF FlushKey
  <2>3. (CHOOSE t \in Server : TRUE) = s
    BY <2>1 DEF SingleServer
  <2>4. QED
    BY <2>1, <2>2, <2>3 DEF Pending
<1>2. keyfile' = Append(keyfile, Rec(w)) /\ Rec(w) \in Record
  BY FlushKeyEffect
<1>3. /\ DOMAIN keyfile = 1..Len(keyfile) /\ Len(keyfile) \in Nat
      /\ DOMAIN keyfile' = 1..(Len(keyfile) + 1) /\ Len(keyfile') = Len(keyfile) + 1
      /\ \A m \in 1..Len(keyfile) : keyfile'[m] = keyfile[m]
      /\ keyfile'[Len(keyfile) + 1] = Rec(w)
  <2>1. keyfile \in Seq(Record)
    BY DEF TypeOK
  <2>2. QED
    BY <1>2, <2>1, AppendProperties, LenProperties
<1>4. k \in 0..IntMax
  <2>1. 0 <= k
    BY <1>1 DEF KeysInv, IdInv
  <2>2. keyfile'[Len(keyfile) + 1].key <= IntMax
    BY <1>3 DEF KeysFit
  <2>3. QED
    BY <1>1, <1>3, <2>1, <2>2, NumberAssumption DEF Rec
<1>5. v \in Value \ {<< >>} /\ v \in Seq(Byte)
  BY <1>1, CurType DEF EndsInv
<1>6. e \in Doc
  BY <1>1, <1>5 DEF Doc
<1>7. Docs \in Seq(Doc) /\ Len(Docs) = Len(keyfile)
  BY <1>1, DocsType
<1>8. Docs' \in Seq(Doc) /\ Len(Docs') = Len(keyfile) + 1
  <2>1. (Docs \in Seq(Doc) /\ Len(Docs) = Len(keyfile))'
    <3>1. /\ keyfile' \in Seq(Record) /\ valfile' \o Pending' \in Seq(Byte)
      BY <1>1, ConcatProperties DEF TypeOK
    <3>2. ASSUME NEW m \in 1..(Len(keyfile) + 1)
          PROVE  [key |-> keyfile'[m].key,
                  val |-> Bytes(keyfile'[m], valfile' \o Pending')] \in Doc
      <4>1. keyfile'[m] \in Record
        BY <1>3, <3>1, ElementOfSeq
      <4>2. QED
        BY <3>1, <4>1, BytesType DEF Doc, Record
    <3>3. Docs' \in [1..(Len(keyfile) + 1) -> Doc]
      BY <1>3, <3>2 DEF Docs
    <3>4. QED
      BY <1>3, <3>3
  <2>2. QED
    BY <1>3, <2>1
<1>9. ASSUME NEW m \in 1..Len(keyfile) PROVE Docs'[m] = Docs[m]
  BY <1>1, <1>3, <1>9 DEF Docs
<1>10. Docs'[Len(keyfile) + 1] = e
  <2>1. Bytes(Rec(w), valfile \o Pending) = v
    BY <1>1, <1>2, RecBytes DEF All
  <2>2. QED
    BY <1>1, <1>3, <2>1 DEF Docs, Rec
<1>11. Docs' = Append(Docs, e)
  <2> HIDE DEF e
  <2>1. /\ Append(Docs, e) \in Seq(Doc) /\ Len(Append(Docs, e)) = Len(Docs) + 1
        /\ \A m \in 1..Len(Docs) : Append(Docs, e)[m] = Docs[m]
        /\ Append(Docs, e)[Len(Docs) + 1] = e
    BY <1>6, <1>7, AppendProperties
  <2>2. \A m \in 1..(Len(keyfile) + 1) : Docs'[m] = Append(Docs, e)[m]
    BY <1>3, <1>7, <1>9, <1>10, <2>1
  <2>3. QED
    BY <1>7, <1>8, <2>1, <2>2, SeqEqual
<1>12. \A m \in DOMAIN Docs : Docs[m].key < k
  BY <1>1 DEF Docs, KeysInv, IdInv
<1>13. QED
  BY <1>4, <1>5, <1>11, <1>12 DEF Log!Next, Log!Put

LEMMA LogStep ==
  ASSUME SingleServer, "fflush" \notin Faults, "crash" \notin Faults
  PROVE  OrderInv /\ KeysInv /\ KeysFit /\ KeysFit' /\ TypeOK' /\ [Next]_vars
           => [Log!Next]_Docs
<1> SUFFICES ASSUME OrderInv, KeysInv, KeysFit, KeysFit', TypeOK', [Next]_vars
             PROVE  Log!Next \/ Docs' = Docs
  OBVIOUS
<1> USE DEF OrderInv, CallInv
<1>1. \A s \in Server : Pending = valbuf[s] /\ Pending' = valbuf'[s]
  BY DEF Pending, SingleServer
<1>2. Grows /\ \A v, w \in Worker : v # w /\ Inside(w) => ~Inside(v)
  BY DiskGrows, Mutex, HomeAssumption DEF SingleServer
<1>3. ASSUME NEW s \in Server, keyfile' = keyfile, UNCHANGED <<valfile, valbuf>>
      PROVE  Docs' = Docs
  BY <1>1, <1>2, <1>3, DocsKept DEF All
<1>4. ASSUME NEW w \in Worker, Inside(w), pc[w] # "flushval", keyfile' = keyfile
      PROVE  Docs' = Docs
  <2>1. \A v \in Worker : pc[v] # "flushval"
    BY <1>2, <1>4 DEF Inside
  <2>2. QED
    BY <1>1, <1>2, <1>4, <2>1, DocsKept, HomeAssumption
<1>5. ASSUME NEW s \in Server, Open(s) \/ GetMax(s) PROVE Docs' = Docs
  BY <1>3, <1>5 DEF Open, GetMax, disk, stream
<1>6. ASSUME NEW s \in Server, Close(s) PROVE Docs' = Docs
  <2>1. keyfile' = keyfile /\ \A v \in Worker : pc[v] # "flushval"
    BY <1>6, NothingToFlush, HomeAssumption DEF Close, WorkersIdle, SingleServer
  <2>2. QED
    BY <1>1, <1>2, <2>1, DocsKept
<1>7. ASSUME NEW w \in Worker, Call(w) \/ Lock(w) PROVE Docs' = Docs
  BY <1>3, <1>7, HomeAssumption DEF Call, Lock, disk, stream
<1>8. ASSUME NEW w \in Worker,
             \/ MakeKey(w) \/ PutEmpty(w) \/ TellFail(w) \/ PutValue(w) \/ Spill(w)
             \/ WriteFail(w) \/ PutKey(w) \/ KeyFail(w) \/ Unlock(w)
      PROVE  Docs' = Docs
  <2>1. pc[w] \in {"loop", "value", "write"} /\ keyfile' = keyfile
    BY <1>8 DEF MakeKey, PutEmpty, TellFail, PutValue, Spill, WriteFail, PutKey, KeyFail,
                Unlock, Return, Goto, disk
  <2>2. QED
    BY <1>4, <2>1 DEF Inside
<1>9. ASSUME NEW w \in Worker, FlushKey(w) PROVE Log!Next
  BY <1>9, LogPut
<1>10. ASSUME NEW w \in Worker, FlushVal(w) PROVE Docs' = Docs
  <2> DEFINE s == Home[w]
  <2>1. s \in Server /\ keyfile' = keyfile
    BY <1>10, HomeAssumption DEF FlushVal
  <2>2. valfile' = All(s) /\ valbuf'[s] = << >>
    BY <1>10, <2>1, FlushWritesAll DEF FlushVal, TypeOK
  <2>3. All(s)' = All(s)
    BY <2>1, <2>2, ConcatEmptySeq DEF TypeOK, All
  <2>4. QED
    BY <1>1, <1>2, <2>1, <2>3, DocsKept
<1>11. CASE UNCHANGED vars
  BY <1>11 DEF vars, Docs, Pending
<1>12. QED
  BY <1>5, <1>6, <1>7, <1>8, <1>9, <1>10, <1>11
     DEF Next, Work, Quiet, Crash

\* With one server that neither crashes nor fails to flush, and whose getmax can
\* open key.dat, the write path implements the append-only log, as long as the
\* keys fit the int getmax reads them into.
THEOREM WriteImplementsLog ==
  ASSUME SingleServer, "fflush" \notin Faults, "crash" \notin Faults, "fopen" \notin Faults
  PROVE  Spec /\ []KeysFit => ImplementsLog
<1>1. Init => Log!Init
  BY DEF Init, Log!Init, Docs
<1>2. OrderInv /\ KeysInv /\ KeysFit /\ KeysFit' /\ TypeOK' /\ [Next]_vars
        => [Log!Next]_Docs
  BY LogStep
<1>3. Spec => []TypeOK
  BY TypesCorrect
<1>4. Spec => []OrderInv
  BY OrderCorrect
<1>5. Spec => []KeysInv
  BY KeysCorrect
<1>6. QED
  BY <1>1, <1>2, <1>3, <1>4, <1>5, PTL DEF Spec, ImplementsLog, Log!Spec

=============================================================================
