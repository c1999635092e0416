------------------------------ MODULE OZWrite ------------------------------
(***************************************************************************)
(* The write path of OZoneStore: the handler of the write service          *)
(* (OZWriteService_server.skeleton.cc) over the library it calls           *)
(* (ozcore/ozwrite.c), down to the two append-only files.                  *)
(*                                                                         *)
(* A server process has worker threads; each runs one put or puts call at  *)
(* a time.  The handler's state (stdio streams, _id, _key) is shared by    *)
(* the workers under _lock.  Every stdio call is a step of its own, for a  *)
(* crash, a failing call or another process can come between two of them.  *)
(***************************************************************************)
EXTENDS Integers, Sequences, FiniteSets

CONSTANTS
  Server,       \* write server processes opened on one database directory
  Worker,       \* worker threads of all the servers
  Home,         \* Home[w] is the server worker w belongs to
  NoWorker,     \* the mutex is free
  Byte,         \* what a file is made of
  Value,        \* the values clients put (byte strings, possibly empty)
  Block,        \* size of stdio's buffer of value.dat
  IntMax,       \* largest C int: atoi() wraps above it
  Faults,       \* the failures that may happen in a behaviour
  MaxCalls,     \* bound: calls clients make
  MaxBatch,     \* bound: values in one puts
  MaxOpens      \* bound: server starts

FaultNames == {"crash", "fopen", "ftello", "fwrite", "fprintf", "fflush"}

ASSUME HomeAssumption   == Home \in [Worker -> Server]
ASSUME WorkerAssumption == NoWorker \notin Worker
ASSUME ValueAssumption  == Value \subseteq Seq(Byte)
ASSUME NumberAssumption == Block \in Nat \ {0} /\ IntMax \in Nat \ {0}
ASSUME FaultAssumption  == Faults \subseteq FaultNames
ASSUME BoundAssumption  == MaxCalls \in Nat /\ MaxBatch \in Nat /\ MaxOpens \in Nat

VARIABLES
  keyfile,      \* key.dat: the records [key, offset, length], in file order
  valfile,      \* value.dat: its bytes
  phase,        \* where each server is in its life
  valpos,       \* file position of each server's value stream
  keybuf,       \* records in the buffer of its key stream
  valbuf,       \* bytes in the buffer of its value stream
  lock,         \* _lock: the worker that holds it, or NoWorker
  id,           \* _id: the next key
  key,          \* _key: the buffer the key is formatted into
  pc,           \* the next step of each worker
  call,         \* the call each worker runs: [op, values]
  i,            \* the index of the value it is at
  off,          \* ozwrite_put's off
  ret,          \* what ozwrite_put returned last
  acked,        \* the puts that returned normally (history)
  calls,        \* calls made so far
  opens         \* server starts so far

disk   == <<keyfile, valfile>>
stream == <<valpos, keybuf, valbuf>>
shared == <<lock, id, key>>
locals == <<call, i, off, ret>>
bounds == <<calls, opens>>
vars   == <<keyfile, valfile, phase, valpos, keybuf, valbuf, lock, id, key,
            pc, call, i, off, ret, acked, calls, opens>>

Record == [key : Int, offset : Nat, length : Nat]
Ack    == [key : Int, val : Value]
Labels == {"idle", "lock", "loop", "value", "write", "flushkey", "flushval"}
Arguments == [op : {"none", "put", "puts"}, values : Seq(Value)]

NoCall == [op |-> "none", values |-> << >>]

(***************************************************************************)
(* stdio.  The streams are opened for appending: bytes gather in a buffer  *)
(* and the kernel writes them at the end of the file.                      *)
(***************************************************************************)

\* ftello: with an empty buffer the stream's own position, which is the end
\* of what THIS process last wrote; with bytes pending, the end of the file
\* plus those bytes.
Tell(s) == IF valbuf[s] = << >> THEN valpos[s] ELSE Len(valfile) + Len(valbuf[s])

\* The kernel appends the first n pending bytes of s to value.dat.
AppendValue(s, n) ==
  /\ valfile' = valfile \o SubSeq(valbuf[s], 1, n)
  /\ valpos'  = [valpos EXCEPT ![s] = IF n = 0 THEN @ ELSE Len(valfile) + n]

\* How much of a buffer a flush gets to the file: the rest is dropped.
Flushed(buf) == IF "fflush" \in Faults THEN 0..Len(buf) ELSE {Len(buf)}

FlushValue(s) == \E n \in Flushed(valbuf[s]) :
  /\ AppendValue(s, n)
  /\ valbuf' = [valbuf EXCEPT ![s] = << >>]

FlushKeys(s) == \E n \in Flushed(keybuf[s]) :
  /\ keyfile' = keyfile \o SubSeq(keybuf[s], 1, n)
  /\ keybuf'  = [keybuf EXCEPT ![s] = << >>]

(***************************************************************************)
(* Life of a server process.                                               *)
(***************************************************************************)

\* Mutant: value.dat is opened with mode "wb", which truncates it.
OpenMutant(s) ==
  /\ phase[s] = "down" /\ opens < MaxOpens
  /\ opens' = opens + 1
  /\ phase'  = [phase EXCEPT ![s] = "opened"]
  /\ valfile' = << >>
  /\ valpos' = [valpos EXCEPT ![s] = 0]
  /\ UNCHANGED <<keyfile, keybuf, valbuf, shared, pc, locals, acked, calls>>

\* ozwrite_open: both streams are opened for appending, at the files' ends.
\* Nothing keeps a second server from opening the same files.
Open(s) ==
  /\ phase[s] = "down" /\ opens < MaxOpens
  /\ opens' = opens + 1
  /\ phase'  = [phase EXCEPT ![s] = "opened"]
  /\ valpos' = [valpos EXCEPT ![s] = Len(valfile)]
  /\ UNCHANGED <<disk, keybuf, valbuf, shared, pc, locals, acked, calls>>

\* long id = atoi(sid): an int, wrapping (glibc truncates the long).
AtoI(k) == ((k + IntMax + 1) % (2 * (IntMax + 1))) - (IntMax + 1)

\* The ids getmax sees in key.dat, and the 0 it starts from.
Ids == {0} \cup {AtoI(keyfile[j].key) : j \in DOMAIN keyfile}

\* Mutant: getmax without its last _id++.
GetMaxMutant(s) ==
  /\ phase[s] = "opened"
  /\ phase' = [phase EXCEPT ![s] = "serving"]
  /\ \E m \in Ids : (\A n \in Ids : n <= m) /\ id' = [id EXCEPT ![s] = m]
  /\ UNCHANGED <<disk, stream, lock, key, pc, locals, acked, bounds>>

\* getmax, then the server serves.  If key.dat cannot be opened _id stays 0.
GetMax(s) ==
  /\ phase[s] = "opened"
  /\ phase' = [phase EXCEPT ![s] = "serving"]
  /\ \/ \E m \in Ids : /\ \A n \in Ids : n <= m
                       /\ id' = [id EXCEPT ![s] = m + 1]
     \/ "fopen" \in Faults /\ id' = [id EXCEPT ![s] = 0]
  /\ UNCHANGED <<disk, stream, lock, key, pc, locals, acked, bounds>>

WorkersIdle(s) == \A w \in Worker : Home[w] = s => pc[w] = "idle"

\* The destructor, after serve() returned and the thread pool was joined:
\* ozwrite_close flushes and closes the key file, then the value file.
Close(s) ==
  /\ phase[s] = "serving" /\ WorkersIdle(s)
  /\ phase' = [phase EXCEPT ![s] = "down"]
  /\ FlushKeys(s) /\ FlushValue(s)
  /\ UNCHANGED <<shared, pc, locals, acked, bounds>>

\* The process dies: buffers, mutex and the calls in progress are gone.
Crash(s) ==
  /\ "crash" \in Faults /\ phase[s] # "down"
  /\ phase'  = [phase EXCEPT ![s] = "down"]
  /\ keybuf' = [keybuf EXCEPT ![s] = << >>]
  /\ valbuf' = [valbuf EXCEPT ![s] = << >>]
  /\ lock'   = [lock EXCEPT ![s] = NoWorker]
  /\ pc'     = [w \in Worker |-> IF Home[w] = s THEN "idle" ELSE pc[w]]
  /\ call'   = [w \in Worker |-> IF Home[w] = s THEN NoCall ELSE call[w]]
  /\ i'      = [w \in Worker |-> IF Home[w] = s THEN 1 ELSE i[w]]
  /\ off'    = [w \in Worker |-> IF Home[w] = s THEN 0 ELSE off[w]]
  /\ ret'    = [w \in Worker |-> IF Home[w] = s THEN 0 ELSE ret[w]]
  /\ UNCHANGED <<disk, valpos, id, key, acked, bounds>>

(***************************************************************************)
(* The handler's calls, and ozwrite_put inside them.                       *)
(***************************************************************************)
Batches == UNION {[1..n -> Value] : n \in 0..MaxBatch}

Goto(w, from, to) == pc[w] = from /\ pc' = [pc EXCEPT ![w] = to]

\* The value the current ozwrite_put is given.
Cur(w) == call[w].values[i[w]]

\* A worker receives a put or a puts.
Call(w) ==
  /\ phase[Home[w]] = "serving" /\ calls < MaxCalls
  /\ Goto(w, "idle", "lock")
  /\ \E op \in {"put", "puts"}, vs \in Batches :
       /\ op = "put" => Len(vs) = 1
       /\ call' = [call EXCEPT ![w] = [op |-> op, values |-> vs]]
  /\ calls' = calls + 1
  /\ UNCHANGED <<disk, phase, stream, shared, i, off, ret, acked, opens>>

\* Mutant: the mutex is not waited for.
LockMutant(w) ==
  /\ Goto(w, "lock", "loop")
  /\ lock' = [lock EXCEPT ![Home[w]] = w]
  /\ UNCHANGED <<disk, phase, stream, id, key, locals, acked, bounds>>

Lock(w) ==
  /\ lock[Home[w]] = NoWorker
  /\ Goto(w, "lock", "loop")
  /\ lock' = [lock EXCEPT ![Home[w]] = w]
  /\ UNCHANGED <<disk, phase, stream, id, key, locals, acked, bounds>>

\* Mutant: _id is formatted but not incremented.
MakeKeyMutant(w) ==
  /\ i[w] <= Len(call[w].values)
  /\ Goto(w, "loop", "value")
  /\ key' = [key EXCEPT ![Home[w]] = id[Home[w]]]
  /\ UNCHANGED <<disk, phase, stream, lock, id, locals, acked, bounds>>

\* snprintf(_key, KEY_LEN, "%ld", _id++)
MakeKey(w) ==
  /\ i[w] <= Len(call[w].values)
  /\ Goto(w, "loop", "value")
  /\ key' = [key EXCEPT ![Home[w]] = id[Home[w]]]
  /\ id'  = [id EXCEPT ![Home[w]] = @ + 1]
  /\ UNCHANGED <<disk, phase, stream, lock, locals, acked, bounds>>

\* ozwrite_put returns code; the loop of puts ignores it.
Return(w, from, code) ==
  /\ Goto(w, from, "loop")
  /\ ret' = [ret EXCEPT ![w] = code]
  /\ i'   = [i EXCEPT ![w] = @ + 1]
  /\ UNCHANGED <<call, off>>

PutEmpty(w) ==
  /\ pc[w] = "value" /\ Cur(w) = << >>
  /\ Return(w, "value", 5)
  /\ UNCHANGED <<disk, phase, stream, shared, acked, bounds>>

\* Mutant: the -1 of ftello goes unnoticed.
TellFailMutant(w) ==
  /\ "ftello" \in Faults
  /\ pc[w] = "value" /\ Cur(w) # << >>
  /\ Goto(w, "value", "write")
  /\ off'    = [off EXCEPT ![w] = -1]
  /\ valbuf' = [valbuf EXCEPT ![Home[w]] = @ \o Cur(w)]
  /\ UNCHANGED <<disk, phase, valpos, keybuf, shared, call, i, ret, acked, bounds>>

TellFail(w) ==
  /\ "ftello" \in Faults
  /\ pc[w] = "value" /\ Cur(w) # << >>
  /\ Return(w, "value", 4)
  /\ UNCHANGED <<disk, phase, stream, shared, acked, bounds>>

\* Mutant: the offset is taken after fwrite.
PutValueMutant(w) ==
  /\ pc[w] = "value" /\ Cur(w) # << >>
  /\ Goto(w, "value", "write")
  /\ off'    = [off EXCEPT ![w] = Tell(Home[w]) + Len(Cur(w))]
  /\ valbuf' = [valbuf EXCEPT ![Home[w]] = @ \o Cur(w)]
  /\ UNCHANGED <<disk, phase, valpos, keybuf, shared, call, i, ret, acked, bounds>>

\* off = ftello(), then fwrite() takes the value into the buffer ...
PutValue(w) ==
  /\ pc[w] = "value" /\ Cur(w) # << >>
  /\ Goto(w, "value", "write")
  /\ off'    = [off EXCEPT ![w] = Tell(Home[w])]
  /\ valbuf' = [valbuf EXCEPT ![Home[w]] = @ \o Cur(w)]
  /\ UNCHANGED <<disk, phase, valpos, keybuf, shared, call, i, ret, acked, bounds>>

\* ... and writes whole blocks when the buffer cannot hold it.
Spill(w) == LET s == Home[w] IN
  /\ pc[w] = "write" /\ Len(valbuf[s]) >= Block
  /\ AppendValue(s, Block)
  /\ valbuf' = [valbuf EXCEPT ![s] = SubSeq(@, Block + 1, Len(@))]
  /\ UNCHANGED <<keyfile, phase, keybuf, shared, pc, locals, acked, bounds>>

\* fwrite fails after writing a part: what was pending is dropped.
WriteFail(w) == LET s == Home[w] IN
  /\ "fwrite" \in Faults /\ Len(valbuf[s]) >= Block
  /\ Return(w, "write", 3)
  /\ \E n \in 0..(Len(valbuf[s]) - 1) : AppendValue(s, n)
  /\ valbuf' = [valbuf EXCEPT ![s] = << >>]
  /\ UNCHANGED <<keyfile, phase, keybuf, shared, acked, bounds>>

\* Mutant: the length counts the value's NUL.
PutKeyMutant(w) == LET s == Home[w] IN
  /\ Len(valbuf[s]) <= Block
  /\ Goto(w, "write", "flushkey")
  /\ keybuf' = [keybuf EXCEPT ![s] = Append(@,
         [key |-> key[s], offset |-> off[w], length |-> Len(Cur(w)) + 1])]
  /\ UNCHANGED <<disk, phase, valpos, valbuf, shared, locals, acked, bounds>>

\* fprintf of the record (key, off, len) into the key buffer.
PutKey(w) == LET s == Home[w] IN
  /\ Len(valbuf[s]) <= Block
  /\ Goto(w, "write", "flushkey")
  /\ keybuf' = [keybuf EXCEPT ![s] = Append(@,
         [key |-> key[s], offset |-> off[w], length |-> Len(Cur(w))])]
  /\ UNCHANGED <<disk, phase, valpos, valbuf, shared, locals, acked, bounds>>

\* fprintf fails: the value stays in the value buffer, without a record.
KeyFail(w) ==
  /\ "fprintf" \in Faults /\ Len(valbuf[Home[w]]) <= Block
  /\ Return(w, "write", 2)
  /\ UNCHANGED <<disk, phase, stream, shared, acked, bounds>>

\* The key is flushed first, and nobody looks at fflush's result.
FlushKey(w) ==
  /\ Goto(w, "flushkey", "flushval")
  /\ FlushKeys(Home[w])
  /\ UNCHANGED <<valfile, phase, valpos, valbuf, shared, locals, acked, bounds>>

\* Mutant: the value is left in stdio's buffer.
FlushValMutant(w) ==
  /\ Return(w, "flushval", 0)
  /\ UNCHANGED <<disk, phase, stream, shared, acked, bounds>>

FlushVal(w) ==
  /\ Return(w, "flushval", 0)
  /\ FlushValue(Home[w])
  /\ UNCHANGED <<keyfile, phase, keybuf, shared, acked, bounds>>

\* The locals of the call are gone.
LeaveCall(w) ==
  /\ call' = [call EXCEPT ![w] = NoCall]
  /\ i'    = [i EXCEPT ![w] = 1]
  /\ off'  = [off EXCEPT ![w] = 0]
  /\ ret'  = [ret EXCEPT ![w] = 0]

\* Mutant: put throws without unlocking.
ThrowMutant(w) == LET s == Home[w] IN
  /\ i[w] > Len(call[w].values)
  /\ Goto(w, "loop", "idle")
  /\ lock'  = [lock EXCEPT ![s] = IF call[w].op = "put" /\ ret[w] # 0
                                 THEN @ ELSE NoWorker]
  /\ acked' = IF call[w].op = "put" /\ ret[w] = 0
              THEN acked \cup {[key |-> key[s], val |-> call[w].values[1]]}
              ELSE acked
  /\ LeaveCall(w)
  /\ UNCHANGED <<disk, phase, stream, id, key, bounds>>

\* Unlock and leave the handler: a put reports the code, a puts never does.
Unlock(w) == LET s == Home[w] IN
  /\ i[w] > Len(call[w].values)
  /\ Goto(w, "loop", "idle")
  /\ lock'  = [lock EXCEPT ![s] = NoWorker]
  /\ acked' = IF call[w].op = "put" /\ ret[w] = 0
              THEN acked \cup {[key |-> key[s], val |-> call[w].values[1]]}
              ELSE acked
  /\ LeaveCall(w)
  /\ UNCHANGED <<disk, phase, stream, id, key, bounds>>

\* No call in progress: the servers wait for clients, or are down.
Quiet ==
  /\ \A w \in Worker : pc[w] = "idle"
  /\ UNCHANGED vars

-----------------------------------------------------------------------------
Init ==
  /\ keyfile = << >> /\ valfile = << >>
  /\ phase  = [s \in Server |-> "down"]
  /\ valpos = [s \in Server |-> 0]
  /\ keybuf = [s \in Server |-> << >>]
  /\ valbuf = [s \in Server |-> << >>]
  /\ lock   = [s \in Server |-> NoWorker]
  /\ id     = [s \in Server |-> 0]
  /\ key    = [s \in Server |-> 0]
  /\ pc     = [w \in Worker |-> "idle"]
  /\ call   = [w \in Worker |-> NoCall]
  /\ i      = [w \in Worker |-> 1]
  /\ off    = [w \in Worker |-> 0]
  /\ ret    = [w \in Worker |-> 0]
  /\ acked  = {} /\ calls = 0 /\ opens = 0

\* The steps a worker takes inside a call.
Work(w) == \/ Lock(w) \/ MakeKey(w) \/ PutEmpty(w) \/ TellFail(w) \/ PutValue(w)
           \/ Spill(w) \/ WriteFail(w) \/ PutKey(w) \/ KeyFail(w)
           \/ FlushKey(w) \/ FlushVal(w) \/ Unlock(w)

Next == \/ \E s \in Server : Open(s) \/ GetMax(s) \/ Close(s) \/ Crash(s)
        \/ \E w \in Worker : Call(w) \/ Work(w)
        \/ Quiet

Spec == Init /\ [][Next]_vars

\* A started worker thread keeps running: the OS schedules it again.
FairSpec == Spec /\ \A w \in Worker : WF_vars(Work(w))

-----------------------------------------------------------------------------
(* Properties. *)

TypeOK ==
  /\ keyfile \in Seq(Record)
  /\ valfile \in Seq(Byte)
  /\ phase  \in [Server -> {"down", "opened", "serving"}]
  /\ valpos \in [Server -> Nat]
  /\ keybuf \in [Server -> Seq(Record)]
  /\ valbuf \in [Server -> Seq(Byte)]
  /\ lock   \in [Server -> Worker \cup {NoWorker}]
  /\ id     \in [Server -> Int]
  /\ key    \in [Server -> Int]
  /\ pc     \in [Worker -> Labels]
  /\ call   \in [Worker -> Arguments]
  /\ i      \in [Worker -> Nat \ {0}]
  /\ off    \in [Worker -> Nat]
  /\ ret    \in [Worker -> {0, 2, 3, 4, 5}]
  /\ acked  \subseteq Ack
  /\ calls \in Nat /\ opens \in Nat

\* No two records of key.dat have the same key (README: "An unique key").
UniqueKeys == \A m, n \in DOMAIN keyfile : keyfile[m].key = keyfile[n].key => m = n

\* Ids go on growing along key.dat, across failed puts, crashes and restarts,
\* as long as they fit the int that getmax reads them into.
KeysFit == \A m \in DOMAIN keyfile : keyfile[m].key <= IntMax
KeysIncreasing == KeysFit =>
  \A m, n \in DOMAIN keyfile : m < n => keyfile[m].key < keyfile[n].key

\* Record r finds value v in a file f.
Holds(f, r, v) ==
  /\ r.length = Len(v) /\ r.offset + r.length <= Len(f)
  /\ \A j \in 1..Len(v) : f[r.offset + j] = v[j]

\* A document whose put returned normally is in the files, under the key it
\* was given, byte for byte, and stays there: whatever other calls do, and
\* whether the server crashes or restarts later.
AckedStored == \A a \in acked : \E m \in DOMAIN keyfile :
  keyfile[m].key = a.key /\ Holds(valfile, keyfile[m], a.val)

\* key.dat lists the documents in the order of value.dat, without overlap:
\* what makes the traversal one pass over value.dat (README, (5)).
DocsInFileOrder == \A m, n \in DOMAIN keyfile :
  m < n => keyfile[m].offset + keyfile[m].length <= keyfile[n].offset

\* The part of a record's bytes that a file f has.
Bytes(r, f) == SubSeq(f, r.offset + 1,
  IF r.offset + r.length <= Len(f) THEN r.offset + r.length ELSE Len(f))

\* What a reader finds under a record never changes once another record
\* follows it ("All data won't change forever", README): only the value of
\* the put in progress is still on its way to value.dat.
DataNeverChanges == [][\A m \in 1..(Len(keyfile) - 1) :
  /\ keyfile'[m] = keyfile[m]
  /\ Bytes(keyfile[m], valfile') = Bytes(keyfile[m], valfile)]_vars

\* Every critical section ends: no path through put or puts keeps the mutex.
LockReleased == \A w \in Worker :
  lock[Home[w]] = w ~> lock[Home[w]] # w

\* With one server, the database is an append-only log of whole documents
\* under growing keys.  A document is in the log once its record is in
\* key.dat; its bytes are in value.dat or still in the server's buffer.
Pending == valbuf[CHOOSE s \in Server : TRUE]
Docs == [m \in DOMAIN keyfile |->
  [key |-> keyfile[m].key, val |-> Bytes(keyfile[m], valfile \o Pending)]]
Log == INSTANCE OZLog WITH docs <- Docs, Key <- 0..IntMax, Value <- Value \ {<< >>}
ImplementsLog == Log!Spec

=============================================================================
