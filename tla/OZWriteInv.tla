----------------------------- MODULE OZWriteInv -----------------------------
(***************************************************************************)
(* Why the write path keeps its promises: the inductive invariants behind  *)
(* KeysIncreasing, AckedStored and DocsInFileOrder, for one server on the  *)
(* database.  The promises are not inductive as they stand, for they say   *)
(* nothing of a call that is half way through its critical section.        *)
(***************************************************************************)
EXTENDS OZWrite

SingleServer == \A s, t \in Server : s = t

Inside(w) == pc[w] \notin {"idle", "lock"}

\* A worker is past the mutex exactly while it holds it, and only a serving
\* server has calls in progress.
LockInv == \A w \in Worker :
  /\ Inside(w) <=> lock[Home[w]] = w
  /\ pc[w] # "idle" => phase[Home[w]] = "serving"

\* Inside ozwrite_put the loop index names a value of the call; a put has one.
LoopInv == \A w \in Worker :
  /\ pc[w] \in {"value", "write", "flushkey", "flushval"}
       => i[w] \in DOMAIN call[w].values
  /\ call[w].op = "put" => Len(call[w].values) = 1

\* The record the call in progress writes.
Rec(w) == [key |-> key[Home[w]], offset |-> off[w], length |-> Len(Cur(w))]

\* The key buffer is empty except between fprintf and fflush.
KeyBufInv ==
  /\ \A w \in Worker : pc[w] = "flushkey" => keybuf[Home[w]] = << Rec(w) >>
  /\ \A s \in Server : \/ keybuf[s] = << >>
                       \/ \E w \in Worker : Home[w] = s /\ pc[w] = "flushkey"

\* _id is ahead of every key on disk, and so is the key being written.
IdInv == KeysFit =>
  /\ \A m \in DOMAIN keyfile : keyfile[m].key >= 0
  /\ \A s \in Server : phase[s] = "serving" =>
       id[s] >= 0 /\ \A m \in DOMAIN keyfile : keyfile[m].key < id[s]
  /\ \A w \in Worker : pc[w] \in {"value", "write", "flushkey"} =>
       LET k == key[Home[w]] IN
       0 <= k /\ k < id[Home[w]] /\ \A m \in DOMAIN keyfile : keyfile[m].key < k

\* The only writer's stream is always at the end of value.dat.
PosInv == \A s \in Server :
  /\ phase[s] # "down" => valpos[s] = Len(valfile)
  /\ phase[s] = "down" => valbuf[s] = << >>

\* The bytes of the put in progress are the last of file and buffer.
ValueInv == \A w \in Worker : pc[w] \in {"write", "flushkey", "flushval"} =>
  LET all == valfile \o valbuf[Home[w]] IN
  /\ off[w] + Len(Cur(w)) = Len(all)
  /\ \A j \in 1..Len(Cur(w)) : all[off[w] + j] = Cur(w)[j]

\* From its record's flush on, a put's record is on disk, and once
\* ozwrite_put has returned 0 its value is.
Done(w) ==
  /\ pc[w] \in {"idle", "lock"} => i[w] = 1
  /\ pc[w] = "flushval" => \E m \in DOMAIN keyfile : keyfile[m] = Rec(w)
  /\ pc[w] = "loop" /\ call[w].op = "put" /\ i[w] > 1 /\ ret[w] = 0
       => \E m \in DOMAIN keyfile : /\ keyfile[m].key = key[Home[w]]
                                   /\ Holds(valfile, keyfile[m], call[w].values[1])
DoneInv == \A w \in Worker : Done(w)

\* Where a record says its value ends.
EndOf(r) == r.offset + r.length

\* The values of the records on disk are in value.dat, but for the last one
\* while its put is between its two flushes; and a value being written starts
\* where they end.
EndsInv ==
  /\ \A m \in DOMAIN keyfile :
       \/ EndOf(keyfile[m]) <= Len(valfile)
       \/ m = Len(keyfile) /\ \E w \in Worker : pc[w] = "flushval" /\ keyfile[m] = Rec(w)
  /\ \A w \in Worker : pc[w] \in {"write", "flushkey"} =>
       /\ \A m \in DOMAIN keyfile : EndOf(keyfile[m]) <= off[w]
       /\ Cur(w) # << >>

\* The three inductive invariants.
CallInv   == TypeOK /\ LockInv /\ LoopInv /\ KeyBufInv
KeysInv   == CallInv /\ IdInv /\ KeysIncreasing
StoredInv == CallInv /\ PosInv /\ ValueInv /\ DoneInv /\ AckedStored
OrderInv  == CallInv /\ PosInv /\ ValueInv /\ EndsInv /\ DocsInFileOrder
=============================================================================
