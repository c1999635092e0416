------------------------------- MODULE OZRead -------------------------------
(***************************************************************************)
(* The read service (OZReadService_server.skeleton.cc over ozcore/ozread.c)*)
(* serving a database that no longer changes.  Each worker thread answers  *)
(* get and gets calls.  The table of records is in memory and immutable,   *)
(* so looking a key up is one step (OZSearch has the search itself).  The  *)
(* FILE of value.dat is one for all threads and there is no mutex: fseeko  *)
(* and fread are two steps, and another thread may come in between.        *)
(***************************************************************************)
EXTENDS Integers, Sequences, FiniteSets

CONSTANTS
  Thread,       \* worker threads
  Key,          \* the keys clients ask for
  Recs,         \* the table: a function from the keys it has to [offset, length]
  Byte,
  File,         \* the bytes of value.dat
  Nul,          \* the byte 0, where a C string ends
  Garbage,      \* what malloc left in a buffer nobody wrote
  Faults,       \* the failures that may happen: "malloc", "fseeko", "fread"
  MaxKeys,      \* bound: keys in one gets
  MaxCalls      \* bound: calls clients make

ASSUME TableAssumption ==
  \A k \in DOMAIN Recs : Recs[k] \in [offset : Nat, length : Nat \ {0}]
ASSUME FileAssumption  == File \in Seq(Byte) /\ Garbage \notin Seq(Byte)
ASSUME FaultAssumption == Faults \subseteq {"malloc", "fseeko", "fread"}
ASSUME BoundAssumption == MaxKeys \in Nat /\ MaxCalls \in Nat

VARIABLES
  pos,          \* position of the shared FILE
  pc,           \* the next step of each thread
  op,           \* "get" or "gets"
  keys,         \* the keys asked for
  cookies,      \* the records found, by offset: [offset, length, index]
  n,            \* the cookie the thread is at
  values,       \* the value buffers, one for each key
  status,       \* what ozread_get or ozread_gets returned
  reply,        \* the values the client receives
  disturbed,    \* another thread moved the FILE between the call's own fseeko
                \* and fread, or its own fseeko or fread failed (history)
  calls         \* calls made so far

call == <<op, keys>>
vars == <<pos, pc, op, keys, cookies, n, values, status, reply, disturbed, calls>>

None == << >>          \* no buffer, or an empty string

Whole(k) == Recs[k].offset + Recs[k].length <= Len(File)

\* The document of key k, as put.
Document(k) == SubSeq(File, Recs[k].offset + 1, Recs[k].offset + Recs[k].length)

\* string::assign(char*) takes the bytes up to the first NUL.
CString(v) == IF v = Garbage THEN v
              ELSE CHOOSE p \in {SubSeq(v, 1, m) : m \in 0..Len(v)} :
                     /\ \A j \in DOMAIN p : p[j] # Nul
                     /\ Len(p) = Len(v) \/ v[Len(p) + 1] = Nul

Goto(t, from, to) == pc[t] = from /\ pc' = [pc EXCEPT ![t] = to]

\* ozread_get or ozread_gets returns code, and the handler answers.
Answer(t, from, code, vs) ==
  /\ Goto(t, from, "done")
  /\ status' = [status EXCEPT ![t] = code]
  /\ reply'  = [reply EXCEPT ![t] = vs]

\* Every other thread between its fseeko and its fread is disturbed.
Disturb(t) ==
  disturbed' = [u \in Thread |-> disturbed[u] \/ (u # t /\ pc[u] = "read")]

-----------------------------------------------------------------------------
Requests == UNION {[1..m -> Key] : m \in 0..MaxKeys}

Call(t) ==
  /\ calls < MaxCalls
  /\ pc[t] \in {"idle", "done"}
  /\ pc' = [pc EXCEPT ![t] = "lookup"]
  /\ \E o \in {"get", "gets"}, ks \in Requests :
       /\ o = "get" => Len(ks) = 1
       /\ op'   = [op EXCEPT ![t] = o]
       /\ keys' = [keys EXCEPT ![t] = ks]
       /\ values' = [values EXCEPT ![t] = [j \in DOMAIN ks |-> None]]
  /\ cookies'   = [cookies EXCEPT ![t] = << >>]
  /\ n'         = [n EXCEPT ![t] = 1]
  /\ status'    = [status EXCEPT ![t] = 0]
  /\ reply'     = [reply EXCEPT ![t] = << >>]
  /\ disturbed' = [disturbed EXCEPT ![t] = FALSE]
  /\ calls' = calls + 1
  /\ UNCHANGED pos

\* The keys' positions that have a record, and all orders of these positions
\* that qsort may leave: by offset, equal offsets in any order.
FoundAt(ks) == {j \in DOMAIN ks : ks[j] \in DOMAIN Recs}
ByOffset(ks) ==
  {o \in [1..Cardinality(FoundAt(ks)) -> FoundAt(ks)] :
     \A a, b \in DOMAIN o : a < b =>
       o[a] # o[b] /\ Recs[ks[o[a]]].offset <= Recs[ks[o[b]]].offset}

\* ozread_gets_init has no memory for the call's arrays.
InitFail(t) ==
  /\ "malloc" \in Faults /\ op[t] = "gets"
  /\ Answer(t, "lookup", 1, << >>)
  /\ UNCHANGED <<pos, call, cookies, n, values, disturbed, calls>>

\* Mutant: the cookies carry their own place instead of the key's.
LookupMutant(t) ==
  /\ Goto(t, "lookup", "malloc")
  /\ FoundAt(keys[t]) # {} \/ op[t] = "gets"
  /\ \E o \in ByOffset(keys[t]) :
       cookies' = [cookies EXCEPT ![t] =
         [a \in DOMAIN o |-> [rec |-> Recs[keys[t][o[a]]], index |-> a]]]
  /\ UNCHANGED <<pos, call, n, values, status, reply, disturbed, calls>>

\* ozread_get_key for each key, then the sort by offset.
Lookup(t) ==
  /\ Goto(t, "lookup", "malloc")
  /\ FoundAt(keys[t]) # {} \/ op[t] = "gets"
  /\ \E o \in ByOffset(keys[t]) :
       cookies' = [cookies EXCEPT ![t] =
         [a \in DOMAIN o |-> [rec |-> Recs[keys[t][o[a]]], index |-> o[a]]]]
  /\ UNCHANGED <<pos, call, n, values, status, reply, disturbed, calls>>

KeyNotFound(t) ==
  /\ op[t] = "get" /\ FoundAt(keys[t]) = {}
  /\ Answer(t, "lookup", 3, << >>)
  /\ UNCHANGED <<pos, call, cookies, n, values, disturbed, calls>>

\* A buffer for each value; malloc does not clear it.
Malloc(t) ==
  /\ Goto(t, "malloc", "seek")
  /\ values' = [values EXCEPT ![t] = [j \in DOMAIN @ |->
       IF \E a \in DOMAIN cookies[t] : cookies[t][a].index = j
       THEN Garbage ELSE @[j]]]
  /\ UNCHANGED <<pos, call, cookies, n, status, reply, disturbed, calls>>

MallocFail(t) ==
  /\ "malloc" \in Faults /\ cookies[t] # << >>
  /\ Answer(t, "malloc", IF op[t] = "get" THEN 5 ELSE 1, << >>)
  /\ UNCHANGED <<pos, call, cookies, n, values, disturbed, calls>>

Seek(t) ==
  /\ n[t] <= Len(cookies[t])
  /\ Goto(t, "seek", "read")
  /\ pos' = cookies[t][n[t]].rec.offset
  /\ Disturb(t)
  /\ UNCHANGED <<call, cookies, n, values, status, reply, calls>>

\* Mutant: get returns the code of ozread_get_value.
SeekFailMutant(t) ==
  /\ "fseeko" \in Faults /\ n[t] <= Len(cookies[t])
  /\ op[t] = "get"
  /\ Answer(t, "seek", 2, << >>)
  /\ disturbed' = [disturbed EXCEPT ![t] = TRUE]
  /\ UNCHANGED <<pos, call, cookies, n, values, calls>>

\* fseeko fails: get gives up; gets goes on to the next value and leaves this
\* buffer as malloc returned it.
SeekFail(t) ==
  /\ "fseeko" \in Faults /\ n[t] <= Len(cookies[t])
  /\ \/ /\ op[t] = "get"
        /\ Answer(t, "seek", 4, << >>)
        /\ UNCHANGED n
     \/ /\ op[t] = "gets" /\ pc[t] = "seek"
        /\ n' = [n EXCEPT ![t] = @ + 1]
        /\ UNCHANGED <<pc, status, reply>>
  /\ disturbed' = [disturbed EXCEPT ![t] = TRUE]
  /\ UNCHANGED <<pos, call, cookies, values, calls>>

\* fread finds the bytes at the FILE's position, wherever that is by now.
Read(t) == LET c == cookies[t][n[t]] IN
  /\ Goto(t, "read", "seek")
  /\ pos + c.rec.length <= Len(File)
  /\ pos'    = pos + c.rec.length
  /\ values' = [values EXCEPT ![t][c.index] = SubSeq(File, pos + 1, pos + c.rec.length)]
  /\ n'      = [n EXCEPT ![t] = @ + 1]
  /\ Disturb(t)
  /\ UNCHANGED <<call, cookies, status, reply, calls>>

\* Mutant: gets tries the value again.
ReadFailedMutant(t) ==
  /\ \/ /\ op[t] = "get"
        /\ Answer(t, "read", 4, << >>)
     \/ /\ op[t] = "gets"
        /\ Goto(t, "read", "seek")
        /\ UNCHANGED <<status, reply>>
  /\ UNCHANGED <<call, cookies, n, values, calls>>

\* Mutant: get returns the code of ozread_get_value.
ReadCodeMutant(t) ==
  /\ op[t] = "get"
  /\ Answer(t, "read", 3, << >>)
  /\ UNCHANGED <<call, cookies, n, values, calls>>

\* fread did not read the whole value: get gives up, gets makes the value empty.
ReadFailed(t) ==
  /\ \/ /\ op[t] = "get"
        /\ Answer(t, "read", 4, << >>)
        /\ UNCHANGED <<n, values>>
     \/ /\ op[t] = "gets"
        /\ Goto(t, "read", "seek")
        /\ values' = [values EXCEPT ![t][cookies[t][n[t]].index] = None]
        /\ n' = [n EXCEPT ![t] = @ + 1]
        /\ UNCHANGED <<status, reply>>
  /\ UNCHANGED <<call, cookies, calls>>

\* fread meets the end of the file before the end of the value.
ReadShort(t) ==
  /\ pc[t] = "read" /\ pos + cookies[t][n[t]].rec.length > Len(File)
  /\ pos' = IF pos > Len(File) THEN pos ELSE Len(File)
  /\ Disturb(t)
  /\ ReadFailed(t)

\* fread fails with an error, with a part of the value read, or nothing.
ReadError(t) ==
  /\ "fread" \in Faults /\ pc[t] = "read"
  /\ pos' \in pos..(pos + cookies[t][n[t]].rec.length - 1)
  /\ pos' = pos \/ pos' <= Len(File)
  /\ disturbed' = [u \in Thread |-> disturbed[u] \/ pc[u] = "read"]
  /\ ReadFailed(t)

\* get answers with all the bytes, gets with the C strings.
Finish(t) ==
  /\ n[t] > Len(cookies[t])
  /\ Answer(t, "seek", 0, [j \in DOMAIN values[t] |->
       IF op[t] = "get" THEN values[t][j] ELSE CString(values[t][j])])
  /\ UNCHANGED <<pos, call, cookies, n, values, disturbed, calls>>

\* The threads wait for clients.
Quiet ==
  /\ \A t \in Thread : pc[t] \in {"idle", "done"}
  /\ UNCHANGED vars

-----------------------------------------------------------------------------
Init ==
  /\ pos = 0 /\ calls = 0
  /\ pc        = [t \in Thread |-> "idle"]
  /\ op        = [t \in Thread |-> "get"]
  /\ keys      = [t \in Thread |-> << >>]
  /\ cookies   = [t \in Thread |-> << >>]
  /\ n         = [t \in Thread |-> 1]
  /\ values    = [t \in Thread |-> << >>]
  /\ status    = [t \in Thread |-> 0]
  /\ reply     = [t \in Thread |-> << >>]
  /\ disturbed = [t \in Thread |-> FALSE]

Work(t) == \/ InitFail(t) \/ Lookup(t) \/ KeyNotFound(t)
           \/ Malloc(t) \/ MallocFail(t) \/ Seek(t) \/ SeekFail(t)
           \/ Read(t) \/ ReadShort(t) \/ ReadError(t) \/ Finish(t)

Next == (\E t \in Thread : Call(t) \/ Work(t)) \/ Quiet

Spec     == Init /\ [][Next]_vars
\* A thread inside a call keeps running; no step of it waits for another's.
FairSpec == Spec /\ \A t \in Thread : WF_vars(Work(t))

-----------------------------------------------------------------------------
(* Properties. *)

Buffer == Seq(Byte) \cup {Garbage}
Cookie == [rec : [offset : Nat, length : Nat \ {0}], index : Nat \ {0}]

TypeOK ==
  /\ pos \in Nat /\ calls \in Nat
  /\ pc      \in [Thread -> {"idle", "lookup", "malloc", "seek", "read", "done"}]
  /\ op      \in [Thread -> {"get", "gets"}]
  /\ keys    \in [Thread -> Seq(Key)]
  /\ n       \in [Thread -> Nat \ {0}]
  /\ cookies \in [Thread -> Seq(Cookie)]
  /\ values  \in [Thread -> Seq(Buffer)]
  /\ reply   \in [Thread -> Seq(Buffer)]
  /\ status    \in [Thread -> {0, 1, 3, 4, 5}]
  /\ disturbed \in [Thread -> BOOLEAN]

\* What the client should get for key k: the document, or for a gets nothing
\* where there is no record or no whole value under it.
Right(o, k, v) ==
  IF k \in DOMAIN Recs /\ Whole(k) THEN v = Document(k) ELSE o = "gets" /\ v = None

\* A get fails only where the value is not all there.
FailsRightly(t) == status[t] = 4 => ~Whole(keys[t][1])

\* Every answer is right: each value is the document of its own key, in the order
\* of the request, and a get fails only where the value is not all there.
AnswerRight(t) ==
  /\ FailsRightly(t)
  /\ status[t] = 0 =>
       /\ Len(reply[t]) = Len(keys[t])
       /\ \A j \in DOMAIN keys[t] : Right(op[t], keys[t][j], reply[t][j])

\* Every thread's last answer was right (AnswerRight).
AnswersRight == \A t \in Thread : pc[t] = "done" => AnswerRight(t)

\* A document that gets cuts.
Cut(o, k) == /\ o = "gets" /\ k \in DOMAIN Recs /\ Whole(k)
             /\ \E j \in DOMAIN Document(k) : Document(k)[j] = Nul

\* What the client gets where nothing fails and nobody comes in between: the
\* right value, but of a document with a NUL the bytes before it, which is wrong.
RightOrCut(o, k, v) ==
  IF Cut(o, k) THEN v = CString(Document(k)) /\ ~Right(o, k, v) ELSE Right(o, k, v)

AnswerRightOrCut(t) ==
  /\ FailsRightly(t)
  /\ status[t] = 0 =>
       /\ Len(reply[t]) = Len(keys[t])
       /\ \A j \in DOMAIN keys[t] : RightOrCut(op[t], keys[t][j], reply[t][j])

\* A call whose own fseekos and freads succeeded, and in whose fseeko-fread pairs
\* no other thread's step fell, is answered rightly, but for a gets of a document
\* with a NUL, which is always cut: failures of the FILE, the race and the NUL are
\* all that breaks AnswersRight.
UndisturbedRight == \A t \in Thread :
  pc[t] = "done" /\ ~disturbed[t] => AnswerRightOrCut(t)

\* Even of the others: "key not found" is said of the keys without a record and of no
\* other, and a get answers with as many bytes as its key's document has.
SaysPresence(t) == op[t] = "get" =>
  /\ status[t] = 3 <=> keys[t][1] \notin DOMAIN Recs
  /\ status[t] = 0 => Len(reply[t][1]) = Recs[keys[t][1]].length
PresenceRight == \A t \in Thread : pc[t] = "done" => SaysPresence(t)

-----------------------------------------------------------------------------
(* Why: the inductive invariant behind the two, for any threads and table. *)

\* Each key that has a record has one cookie, which is its record's, and a
\* place in the buffers; the other places are empty.
CookiesRight(t) ==
  /\ \A a \in DOMAIN cookies[t] :
       /\ cookies[t][a].index \in FoundAt(keys[t])
       /\ cookies[t][a].rec = Recs[keys[t][cookies[t][a].index]]
       /\ \A b \in DOMAIN cookies[t] : a # b => cookies[t][a].index # cookies[t][b].index
  /\ \A j \in FoundAt(keys[t]) : \E a \in DOMAIN cookies[t] : cookies[t][a].index = j
  /\ op[t] = "get" => FoundAt(keys[t]) = {1}
  /\ DOMAIN values[t] = DOMAIN keys[t]
  /\ \A j \in DOMAIN keys[t] \ FoundAt(keys[t]) : values[t][j] = None

\* What the cookies before n have been read to; a get goes no further than a
\* value that is not all there.
ReadRight(t) == \A a \in 1..(n[t] - 1) :
  LET j == cookies[t][a].index
      k == keys[t][j]
  IN  /\ op[t] = "get" => Len(values[t][j]) = Recs[k].length
      /\ ~disturbed[t] => /\ values[t][j] = IF Whole(k) THEN Document(k) ELSE None
                          /\ op[t] = "get" => Whole(k)

CallRight(t) ==
  /\ op[t] = "get" /\ pc[t] # "idle" => Len(keys[t]) = 1
  /\ pc[t] = "lookup" =>
       /\ DOMAIN values[t] = DOMAIN keys[t] /\ \A j \in DOMAIN keys[t] : values[t][j] = None
       /\ cookies[t] = << >>
  /\ pc[t] \in {"lookup", "malloc"} => n[t] = 1
  /\ pc[t] \in {"malloc", "seek", "read"} =>
       CookiesRight(t) /\ n[t] <= Len(cookies[t]) + 1 /\ ReadRight(t)
  /\ pc[t] = "read" =>
       /\ n[t] <= Len(cookies[t])
       /\ ~disturbed[t] => pos = cookies[t][n[t]].rec.offset
  /\ pc[t] = "done" => SaysPresence(t) /\ (~disturbed[t] => AnswerRightOrCut(t))

ReadInv == TypeOK /\ \A t \in Thread : CallRight(t)

-----------------------------------------------------------------------------
\* Every call is answered.
Answered == \A t \in Thread : pc[t] = "lookup" ~> pc[t] = "done"
=============================================================================
