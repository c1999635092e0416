------------------------------- MODULE OZTrav -------------------------------
(***************************************************************************)
(* The traversal service (OZTravService_server.skeleton.cc over            *)
(* ozcore/oztrav.c) and the clients that walk a database with it.          *)
(*                                                                         *)
(* The position of a traversal is the client's: it sends the cursor of its *)
(* last reply.  The server has one OZTrav_Cursor and one FILE for all the  *)
(* worker threads, under _lock.  Each client has a connection, and with it *)
(* a worker thread, of its own.                                            *)
(***************************************************************************)
EXTENDS Integers, Sequences

CONSTANTS
  Client,       \* clients, each with the worker thread that serves it
  NoClient,     \* the mutex is free
  Recs,         \* the records of key.dat in file order: [key, offset, length]
  KeyLen,       \* strlen of each key
  Byte,
  File,         \* the bytes of value.dat
  Null,         \* the NULL pointer
  Faults,       \* the failures that may happen: "fseeko", "realloc", "fread"
  MaxFailures   \* bound: failures in one behaviour

Record == [key : DOMAIN KeyLen, offset : Nat, length : Nat \ {0}]

ASSUME RecsAssumption  == Recs \in Seq(Record) /\ Recs # << >>
ASSUME KeyAssumption   == KeyLen \in [DOMAIN KeyLen -> Nat \ {0}]
ASSUME FileAssumption  == File \in Seq(Byte) /\ Null \notin Seq(Byte) \cup DOMAIN KeyLen
ASSUME LockAssumption  == NoClient \notin Client
ASSUME FaultAssumption == Faults \subseteq {"fseeko", "realloc", "fread"}
ASSUME BoundAssumption == MaxFailures \in Nat

VARIABLES
  up,           \* the server runs
  lock,         \* _lock: the client served, or NoClient
  pos,          \* position of the FILE of value.dat
  cur,          \* cursor->_cur
  value,        \* what cursor->_value points to, or Null
  valuealloc,   \* cursor->_value_len_alloc
  key,          \* what cursor->_key points to, or Null
  keyalloc,     \* cursor->_key_len_alloc
  pc,           \* the next step of each client and its worker
  ret,          \* what oztrav_next returned to the worker
  at,           \* the cursor the client sends next
  from,         \* where its traversal began, or began again
  got,          \* the pairs it received since then
  failures      \* failures so far

buffers == <<value, valuealloc, key, keyalloc>>
client  == <<at, from, got>>
vars    == <<up, lock, pos, cur, value, valuealloc, key, keyalloc,
             pc, ret, at, from, got, failures>>

Labels == {"call", "next", "buffer", "fread", "key", "copy", "reply", "end"}

\* The record the cursor is at (C counts from 0).
Rec == Recs[cur + 1]

\* What the reader should get under record r.
Document(r) == SubSeq(File, r.offset + 1, r.offset + r.length)

Goto(c, from_, to) == pc[c] = from_ /\ pc' = [pc EXCEPT ![c] = to]

\* oztrav_next returns code.
Return(c, step, code) ==
  /\ Goto(c, step, "reply")
  /\ ret' = [ret EXCEPT ![c] = code]

\* One more failure of the given kind.
Fails(kind) == kind \in Faults /\ failures < MaxFailures /\ failures' = failures + 1

-----------------------------------------------------------------------------
\* Mutant: the mutex is not waited for.
LockMutant(c) ==
  /\ up /\ Goto(c, "call", "next")
  /\ lock' = c
  /\ cur'  = at[c]
  /\ UNCHANGED <<up, pos, buffers, ret, client, failures>>

\* next_kv(acur) locks and sets the shared cursor to the client's.
Lock(c) ==
  /\ up /\ lock = NoClient
  /\ Goto(c, "call", "next")
  /\ lock' = c
  /\ cur'  = at[c]
  /\ UNCHANGED <<up, pos, buffers, ret, client, failures>>

\* Mutant: the last record is taken for the end.
ReachEndMutant(c) ==
  /\ cur >= Len(Recs) - 1
  /\ Return(c, "next", 1)
  /\ UNCHANGED <<up, lock, pos, cur, buffers, client, failures>>

ReachEnd(c) ==
  /\ cur >= Len(Recs)
  /\ Return(c, "next", 1)
  /\ UNCHANGED <<up, lock, pos, cur, buffers, client, failures>>

Seek(c) ==
  /\ cur < Len(Recs)
  /\ Goto(c, "next", "buffer")
  /\ pos' = Rec.offset
  /\ UNCHANGED <<up, lock, cur, buffers, ret, client, failures>>

SeekFail(c) ==
  /\ cur < Len(Recs) /\ Fails("fseeko")
  /\ Return(c, "next", 2)
  /\ UNCHANGED <<up, lock, pos, cur, buffers, client>>

\* Mutant: no room is made for the NUL at the value's end.
ValueBufferMutant(c) ==
  /\ Goto(c, "buffer", "fread")
  /\ IF valuealloc < Rec.length
     THEN value' = << >> /\ valuealloc' = Rec.length + 1
     ELSE UNCHANGED <<value, valuealloc>>
  /\ UNCHANGED <<up, lock, pos, cur, key, keyalloc, ret, client, failures>>

\* The value buffer grows when the value and its NUL do not fit.
ValueBuffer(c) ==
  /\ Goto(c, "buffer", "fread")
  /\ IF valuealloc <= Rec.length
     THEN value' = << >> /\ valuealloc' = Rec.length + 1
     ELSE UNCHANGED <<value, valuealloc>>
  /\ UNCHANGED <<up, lock, pos, cur, key, keyalloc, ret, client, failures>>

\* realloc fails: the pointer is NULL now, but the size is still the old one.
ValueBufferFail(c) ==
  /\ Return(c, "buffer", 3)
  /\ valuealloc <= Rec.length /\ Fails("realloc")
  /\ value' = Null
  /\ UNCHANGED <<up, lock, pos, cur, valuealloc, key, keyalloc, client>>

ReadValue(c) ==
  /\ Goto(c, "fread", "key")
  /\ value # Null /\ pos + Rec.length <= Len(File)
  /\ value' = SubSeq(File, pos + 1, pos + Rec.length)
  /\ pos'   = pos + Rec.length
  /\ UNCHANGED <<up, lock, cur, valuealloc, key, keyalloc, ret, client, failures>>

\* fread fails, or meets the end of the file; some bytes may have been read.
ReadFail(c) ==
  /\ pc[c] = "fread" /\ value # Null
  /\ Fails("fread") \/ (pos + Rec.length > Len(File) /\ UNCHANGED failures)
  /\ Return(c, "fread", 2)
  /\ pos' \in {pos} \cup pos..Len(File)
  /\ UNCHANGED <<up, lock, cur, buffers, client>>

\* The process dies of a NULL pointer: every client's transport fails.
Die ==
  /\ up' = FALSE
  /\ pc' = [c \in Client |-> "end"]
  /\ UNCHANGED <<lock, pos, cur, buffers, ret, client, failures>>

\* fread into NULL: the copy faults, or the kernel refuses a direct read.
ReadNull(c) ==
  /\ pc[c] = "fread" /\ value = Null
  /\ \/ Die
     \/ /\ Return(c, "fread", 2)
        /\ UNCHANGED <<up, lock, pos, cur, buffers, client, failures>>

KeyBuffer(c) ==
  /\ Goto(c, "key", "copy")
  /\ IF keyalloc <= KeyLen[Rec.key]
     THEN key' = Rec.key /\ keyalloc' = KeyLen[Rec.key] + 1
     ELSE UNCHANGED <<key, keyalloc>>
  /\ UNCHANGED <<up, lock, pos, cur, value, valuealloc, ret, client, failures>>

KeyBufferFail(c) ==
  /\ pc[c] = "key" /\ keyalloc <= KeyLen[Rec.key] /\ Fails("realloc")
  /\ Return(c, "key", 3)
  /\ key' = Null
  /\ UNCHANGED <<up, lock, pos, cur, value, valuealloc, keyalloc, client>>

\* Mutant: the cursor advances twice.
CopyTwiceMutant(c) ==
  /\ key # Null
  /\ Return(c, "copy", 0)
  /\ key' = Rec.key
  /\ cur' = cur + 2
  /\ UNCHANGED <<up, lock, pos, value, valuealloc, keyalloc, client, failures>>

CopyKey(c) ==
  /\ key # Null
  /\ Return(c, "copy", 0)
  /\ key' = Rec.key
  /\ cur' = cur + 1
  /\ UNCHANGED <<up, lock, pos, value, valuealloc, keyalloc, client, failures>>

CopyNull(c) == pc[c] = "copy" /\ key = Null /\ Die

\* The reply: the pair and the next cursor.
Reply(c) ==
  /\ ret[c] = 0
  /\ Goto(c, "reply", "call")
  /\ got' = [got EXCEPT ![c] = Append(@, <<key, value>>)]
  /\ at'  = [at EXCEPT ![c] = cur]
  /\ lock' = NoClient
  /\ UNCHANGED <<up, pos, cur, buffers, ret, from, failures>>

\* Mutant: the end too is answered with the TravPair as constructed.
ReplyEndMutant(c) ==
  /\ ret[c] = 1
  /\ Goto(c, "reply", "call")
  /\ at'   = [at EXCEPT ![c] = 0]
  /\ from' = [from EXCEPT ![c] = 0]
  /\ got'  = [got EXCEPT ![c] = << >>]
  /\ lock' = NoClient
  /\ UNCHANGED <<up, pos, cur, buffers, ret, failures>>

\* The end is an exception, at which the client stops.
ReplyEnd(c) ==
  /\ ret[c] = 1
  /\ Goto(c, "reply", "end")
  /\ lock' = NoClient
  /\ UNCHANGED <<up, pos, cur, buffers, ret, client, failures>>

\* Mutant: the client is sent past the record that failed.
ReplyFailedMutant(c) ==
  /\ ret[c] \in {2, 3}
  /\ Goto(c, "reply", "call")
  /\ at'  = [at EXCEPT ![c] = @ + 1]
  /\ lock' = NoClient
  /\ UNCHANGED <<up, pos, cur, buffers, ret, from, got, failures>>

\* The other codes are not reported: the reply is the TravPair as constructed,
\* with the cursor 0.  The client takes the empty pair for a document, and goes
\* on from 0, where it receives all of them again: what it has begins anew.
ReplyFailed(c) ==
  /\ ret[c] \in {2, 3}
  /\ Goto(c, "reply", "call")
  /\ at'   = [at EXCEPT ![c] = 0]
  /\ from' = [from EXCEPT ![c] = 0]
  /\ got'  = [got EXCEPT ![c] = << >>]
  /\ lock' = NoClient
  /\ UNCHANGED <<up, pos, cur, buffers, ret, failures>>

\* Every client has stopped.
Quiet == (\A c \in Client : pc[c] = "end") /\ UNCHANGED vars

-----------------------------------------------------------------------------
\* A client starts at 0, or where it stopped before: after some record.
Init ==
  /\ up = TRUE /\ lock = NoClient /\ pos = 0 /\ cur = 0
  /\ value = Null /\ valuealloc = 0 /\ key = Null /\ keyalloc = 0
  /\ pc   = [c \in Client |-> "call"]
  /\ ret  = [c \in Client |-> 0]
  /\ from \in [Client -> 0..Len(Recs)]
  /\ at   = from
  /\ got  = [c \in Client |-> << >>]
  /\ failures = 0

Work(c) == \/ Lock(c) \/ ReachEnd(c) \/ Seek(c) \/ SeekFail(c)
           \/ ValueBuffer(c) \/ ValueBufferFail(c)
           \/ ReadValue(c) \/ ReadFail(c) \/ ReadNull(c)
           \/ KeyBuffer(c) \/ KeyBufferFail(c) \/ CopyKey(c) \/ CopyNull(c)
           \/ Reply(c) \/ ReplyEnd(c) \/ ReplyFailed(c)

Next == (\E c \in Client : Work(c)) \/ Quiet

Spec     == Init /\ [][Next]_vars
\* The clients go on calling and the OS schedules every worker again.  The
\* mutex may starve a client only as long as others have calls to make.
FairSpec == Spec /\ \A c \in Client : WF_vars(Work(c))

-----------------------------------------------------------------------------
(* Properties. *)

TypeOK ==
  /\ up \in BOOLEAN /\ lock \in Client \cup {NoClient}
  /\ pos \in Nat /\ failures \in Nat
  /\ cur \in 0..Len(Recs)
  /\ value \in Seq(Byte) \cup {Null} /\ valuealloc \in Nat
  /\ key \in DOMAIN KeyLen \cup {Null} /\ keyalloc \in Nat
  /\ pc   \in [Client -> Labels]
  /\ ret  \in [Client -> 0..3]
  /\ from \in [Client -> 0..Len(Recs)] /\ at \in [Client -> 0..Len(Recs)]
  /\ got  \in [Client -> Seq((DOMAIN KeyLen) \X Seq(Byte))]

\* What a client has received since it began, or a failure last sent it back to
\* 0, is the documents from there up to its cursor, each once, in the order of
\* value.dat, each with its own key: the cursor and the buffers all clients share
\* never mix their traversals up.  (Over failures, it receives some twice.)
GotInOrder == \A c \in Client :
  got[c] = [j \in 1..(at[c] - from[c]) |->
              LET r == Recs[from[c] + j] IN <<r.key, Document(r)>>]

\* A client whose traversal ended by the server's word has received everything.
EndIsComplete == \A c \in Client : pc[c] = "end" /\ up => at[c] = Len(Recs)

\* fread and strcpy have room for the bytes and the NUL behind them.
BuffersFit == \A c \in Client :
  /\ pc[c] = "fread" /\ value # Null => Rec.length < valuealloc
  /\ pc[c] = "copy"  /\ key # Null   => KeyLen[Rec.key] < keyalloc

-----------------------------------------------------------------------------
(* Why: the inductive invariant behind the three, for any clients and table. *)

Inside(c) == pc[c] \in Labels \ {"call", "end"}

\* Who is inside oztrav_next holds the mutex.
HeldInv == \A c \in Client : Inside(c) => lock = c

\* The cursor and the buffers are those of the client served, until the reply
\* has taken the pair out of them; an aside for each step of oztrav_next.
StepOf(c) ==
  /\ from[c] <= at[c]
  /\ pc[c] \in {"next", "buffer", "fread", "key", "copy"} => cur = at[c]
  /\ pc[c] \in {"buffer", "fread", "key", "copy"} => cur < Len(Recs)
  /\ pc[c] \in {"buffer", "fread"} => pos = Rec.offset
  /\ pc[c] = "fread"             => Rec.length < valuealloc
  /\ pc[c] \in {"key", "copy"}   => value # Null /\ value = Document(Rec)
  /\ pc[c] = "copy"              => KeyLen[Rec.key] < keyalloc
  /\ pc[c] = "reply" /\ ret[c] = 0 =>
       /\ cur = at[c] + 1
       /\ key = Recs[cur].key
       /\ value # Null /\ value = Document(Recs[cur])
  /\ pc[c] = "reply" /\ ret[c] = 1 => at[c] = Len(Recs)
  /\ pc[c] = "end" /\ up => at[c] = Len(Recs)

StepInv == \A c \in Client : StepOf(c)

TravInv == TypeOK /\ HeldInv /\ StepInv /\ GotInOrder

-----------------------------------------------------------------------------
\* A value buffer that a failed realloc took away, and that nobody allocates
\* again before a longer value comes.
Stale == value = Null /\ valuealloc > 0

\* Every traversal ends, for failures come to an end; only after a failed
\* realloc the client may be sent back to the start for ever.
TraversalEnds == \A c \in Client : <>(pc[c] = "end" \/ Stale)
=============================================================================
