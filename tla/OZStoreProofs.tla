--------------------------- MODULE OZStoreProofs ---------------------------
(***************************************************************************)
(* What the readers of a database serve, for any number of workers, values *)
(* and restarts of the three programs, and whenever the readers load: the  *)
(* files only grow, and a record, once loaded, goes on finding its value.  *)
(***************************************************************************)
EXTENDS OZStore, OZLogProofs

-----------------------------------------------------------------------------
(***************************************************************************)
(* The readers write nothing: what is proved of the writer holds here.     *)
(***************************************************************************)

LEMMA StoreStepIsWriterStep == [StoreNext]_storevars => [Next]_vars
BY DEF StoreNext, storevars, Write, ReadOpen, Get, ReadClose, TravCount, TravLoad, NextKV,
       TravClose

LEMMA StoreIsWriter == StoreSpec => Spec
<1>1. StoreInit => Init
  BY DEF StoreInit
<1>2. QED
  BY <1>1, StoreStepIsWriterStep, PTL DEF StoreSpec, Spec

\* Acknowledgements are never taken back.
LEMMA AckedGrows == [Next]_vars => acked \subseteq acked'
<1> SUFFICES ASSUME [Next]_vars PROVE acked \subseteq acked'
  OBVIOUS
<1>1. ASSUME NEW s \in Server, Open(s) \/ GetMax(s) \/ Close(s) \/ Crash(s)
      PROVE  acked \subseteq acked'
  BY <1>1 DEF Open, GetMax, Close, Crash
<1>2. ASSUME NEW w \in Worker, Call(w) \/ Lock(w) \/ MakeKey(w) \/ PutEmpty(w)
                               \/ TellFail(w) \/ PutValue(w)
      PROVE  acked \subseteq acked'
  BY <1>2 DEF Call, Lock, MakeKey, PutEmpty, TellFail, PutValue
<1>3. ASSUME NEW w \in Worker, Spill(w) \/ WriteFail(w) \/ PutKey(w) \/ KeyFail(w)
                               \/ FlushKey(w) \/ FlushVal(w)
      PROVE  acked \subseteq acked'
  BY <1>3 DEF Spill, WriteFail, PutKey, KeyFail, FlushKey, FlushVal
<1>4. ASSUME NEW w \in Worker, Unlock(w) PROVE acked \subseteq acked'
  BY <1>4 DEF Unlock
<1>5. CASE UNCHANGED vars
  BY <1>5 DEF vars
<1>6. QED
  BY <1>1, <1>2, <1>3, <1>4, <1>5 DEF Next, Work, Quiet

\* What every step of the writer leaves to the readers.
WriterMoves == Grows /\ acked \subseteq acked'

LEMMA StoreMoves == CallInv /\ [StoreNext]_storevars => WriterMoves
BY StoreStepIsWriterStep, DiskGrows, AckedGrows DEF WriterMoves

\* Two records of one key are one record.
LEMMA OneRecord ==
  ASSUME CallInv, KeysIncreasing, KeysFit, NEW m \in DOMAIN keyfile, NEW n \in DOMAIN keyfile,
         keyfile[m].key = keyfile[n].key
  PROVE  m = n
<1>1. m \in Int /\ n \in Int /\ keyfile[m].key \in Int /\ keyfile[n].key \in Int
  BY RecordType, LenProperties DEF CallInv, TypeOK
<1>2. QED
  BY <1>1 DEF KeysIncreasing

-----------------------------------------------------------------------------
(* What the readers have loaded, whatever servers there are and what fails. *)

\* The files only grow, so the records of key.dat stay where they are.
LEMMA FilePrefix ==
  ASSUME CallInv, [StoreNext]_storevars
  PROVE  /\ Len(keyfile) \in Nat /\ DOMAIN keyfile = 1..Len(keyfile)
         /\ Len(keyfile') \in Nat /\ Len(keyfile) <= Len(keyfile')
         /\ \A m \in 1..Len(keyfile) : m \in DOMAIN keyfile' /\ keyfile'[m] = keyfile[m]
<1>1. Len(keyfile) \in Nat /\ DOMAIN keyfile = 1..Len(keyfile)
  BY LenProperties DEF CallInv, TypeOK
<1>2. TypeOK'
  BY StoreStepIsWriterStep, TypeStep DEF CallInv
<1>3. Len(keyfile') \in Nat /\ DOMAIN keyfile' = 1..Len(keyfile')
  BY <1>2, LenProperties DEF TypeOK
<1>4. \A m \in 1..Len(keyfile) : m \in DOMAIN keyfile' /\ keyfile'[m] = keyfile[m]
  BY <1>1, StoreMoves DEF WriterMoves, Grows
<1>5. Len(keyfile) > 0 => Len(keyfile) \in 1..Len(keyfile')
  BY <1>1, <1>3, <1>4
<1>6. QED
  BY <1>1, <1>3, <1>4, <1>5

LEMMA LoadedStep == CallInv /\ LoadedInv /\ [StoreNext]_storevars => LoadedInv'
<1> SUFFICES ASSUME CallInv, LoadedInv, [StoreNext]_storevars PROVE LoadedInv'
  OBVIOUS
<1>1. /\ Len(keyfile) \in Nat /\ DOMAIN keyfile = 1..Len(keyfile)
      /\ Len(keyfile') \in Nat /\ Len(keyfile) <= Len(keyfile')
      /\ \A m \in 1..Len(keyfile) : m \in DOMAIN keyfile' /\ keyfile'[m] = keyfile[m]
  BY FilePrefix
\* The read server's part.
<1>2. table' \subseteq {keyfile'[m] : m \in DOMAIN keyfile'}
  <2>1. \A m \in DOMAIN keyfile : \E n \in DOMAIN keyfile' : keyfile'[n] = keyfile[m]
    BY <1>1
  <2>2. table' \subseteq {keyfile[m] : m \in DOMAIN keyfile}
    <3>1. CASE table' = table
      BY <3>1 DEF LoadedInv
    <3>2. CASE ReadOpen
      BY <3>2 DEF ReadOpen
    <3>3. CASE ReadClose
      BY <3>3 DEF ReadClose
    <3>4. QED
      BY <3>1, <3>2, <3>3 DEF StoreNext, storevars, Write, Get, TravCount, TravLoad, NextKV,
                              TravClose, readvars
  <2>3. QED
    BY <2>1, <2>2
\* The traversal server's part.
<1>3. /\ nrecs' \in 0..Len(keyfile')
      /\ DOMAIN travrecs' = IF trav' = "up" THEN 1..nrecs' ELSE {}
      /\ \A m \in DOMAIN travrecs' : travrecs'[m] = keyfile'[m]
  <2>1. CASE UNCHANGED <<trav, travrecs, nrecs>>
    BY <1>1, <2>1 DEF LoadedInv
  <2>2. CASE TravCount
    BY <1>1, <2>2 DEF TravCount, LoadedInv, vars
  <2>3. CASE TravLoad
    <3>1. trav' = "up" /\ travrecs' = SubSeq(keyfile, 1, nrecs) /\ UNCHANGED <<keyfile, nrecs>>
      BY <2>3 DEF TravLoad, vars
    <3>2. /\ travrecs' \in Seq(Record) /\ Len(travrecs') = nrecs
          /\ \A m \in 1..nrecs : travrecs'[m] = keyfile[m]
      BY <3>1, Prefix DEF LoadedInv, CallInv, TypeOK
    <3>3. DOMAIN travrecs' = 1..nrecs
      BY <3>2, LenProperties
    <3>4. QED
      BY <3>1, <3>2, <3>3 DEF LoadedInv
  <2>4. CASE TravClose
    <3>1. DOMAIN travrecs' = {} /\ nrecs' = 0 /\ trav' = "down"
      BY <2>4 DEF TravClose
    <3>2. QED
      BY <1>1, <3>1
  <2>5. QED
    BY <2>1, <2>2, <2>3, <2>4
       DEF StoreNext, storevars, Write, Get, ReadOpen, ReadClose, NextKV, travvars
<1>4. QED
  BY <1>2, <1>3 DEF LoadedInv

\* An answer found under a record of key.dat is what that record finds.
LEMMA TellsRight ==
  ASSUME CallInv, ToldInv, NEW m \in DOMAIN keyfile, NEW r, r = keyfile[m], Found(r), Tells(r),
         UNCHANGED vars
  PROVE  ToldInv'
BY DEF ToldInv, Tells, Found, vars

LEMMA ToldStep == CallInv /\ LoadedInv /\ ToldInv /\ [StoreNext]_storevars => ToldInv'
<1> SUFFICES ASSUME CallInv, LoadedInv, ToldInv, [StoreNext]_storevars PROVE ToldInv'
  OBVIOUS
<1>1. CASE told' = told
  <2>1. Grows
    BY StoreMoves DEF WriterMoves
  <2>2. ASSUME NEW x \in told
        PROVE  \E m \in DOMAIN keyfile' : /\ x.key = keyfile'[m].key
                                         /\ EndOf(keyfile'[m]) <= Len(valfile')
                                         /\ x.val = Bytes(keyfile'[m], valfile')
    <3>1. PICK m \in DOMAIN keyfile :
            /\ x.key = keyfile[m].key /\ EndOf(keyfile[m]) <= Len(valfile)
            /\ x.val = Bytes(keyfile[m], valfile)
      BY DEF ToldInv, Found, EndOf
    <3>2. /\ m \in DOMAIN keyfile' /\ keyfile'[m] = keyfile[m]
          /\ Bytes(keyfile[m], valfile') = Bytes(keyfile[m], valfile)
      BY <2>1, <3>1, RecordBytesKept DEF Grows, CallInv
    <3>3. EndOf(keyfile[m]) <= Len(valfile')
      BY <2>1, <3>1, GrowsLonger, EndType DEF CallInv
    <3>4. QED
      BY <3>1, <3>2, <3>3
  <2>3. QED
    BY <1>1, <2>2 DEF ToldInv, Found, EndOf
<1>2. CASE Get
  <2>1. PICK r \in table : Found(r) /\ Tells(r) /\ UNCHANGED vars
    BY <1>2 DEF Get
  <2>2. PICK m \in DOMAIN keyfile : r = keyfile[m]
    BY DEF LoadedInv
  <2>3. QED
    BY <2>1, <2>2, TellsRight
<1>3. CASE NextKV
  <2>1. PICK m \in DOMAIN travrecs :
          Found(travrecs[m]) /\ Tells(travrecs[m]) /\ UNCHANGED vars
    BY <1>3 DEF NextKV
  <2>2. m \in DOMAIN keyfile /\ travrecs[m] = keyfile[m]
    BY FilePrefix DEF LoadedInv
  <2>3. QED
    BY <2>1, <2>2, TellsRight
<1>4. QED
  BY <1>1, <1>2, <1>3
     DEF StoreNext, storevars, Write, ReadOpen, ReadClose, TravCount, TravLoad, TravClose

\* With any number of write servers on the directory, and whatever fails, an
\* answer a reader gave is what a record of key.dat still finds in value.dat.
THEOREM AnswersStay == StoreSpec => [](LoadedInv /\ ToldInv)
<1>1. StoreInit => LoadedInv /\ ToldInv
  BY LenProperties DEF StoreInit, Init, LoadedInv, ToldInv
<1>2. CallInv /\ LoadedInv /\ ToldInv /\ [StoreNext]_storevars => LoadedInv' /\ ToldInv'
  BY LoadedStep, ToldStep
<1>3. StoreSpec => []CallInv
  BY StoreIsWriter, CallsCorrect
<1>4. QED
  BY <1>1, <1>2, <1>3, PTL DEF StoreSpec

-----------------------------------------------------------------------------
(* What was acknowledged is among it. *)

LEMMA KnownStep ==
  StoredInv /\ KeysInv /\ KeysFit /\ LoadedInv /\ KnownInv /\ [StoreNext]_storevars
    => KnownInv'
<1> SUFFICES ASSUME StoredInv, KeysInv, KeysFit, LoadedInv, KnownInv, [StoreNext]_storevars
             PROVE  KnownInv'
  OBVIOUS
<1>1. acked \subseteq acked'
  BY StoreMoves DEF StoredInv, WriterMoves
<1>2. /\ DOMAIN keyfile = 1..Len(keyfile) /\ Len(keyfile) \in Nat
      /\ \A m \in 1..Len(keyfile) : keyfile'[m] = keyfile[m]
  BY FilePrefix DEF StoredInv
\* The read server keeps of each key a record: the newest, and there is but one.
<1>3. known' \subseteq acked' /\ \A a \in known' : \E r \in table' : r.key = a.key
  <2>1. CASE UNCHANGED <<table, known>>
    BY <1>1, <2>1 DEF KnownInv
  <2>2. CASE ReadOpen
    <3>1. /\ table' = {r \in {keyfile[m] : m \in DOMAIN keyfile} :
               \A m \in DOMAIN keyfile : keyfile[m].key = r.key => keyfile[m].offset <= r.offset}
          /\ known' = acked
      BY <2>2 DEF ReadOpen
    <3>2. ASSUME NEW a \in acked PROVE \E r \in table' : r.key = a.key
      <4>1. PICK m \in DOMAIN keyfile : keyfile[m].key = a.key
        BY DEF StoredInv, AckedStored
      <4>2. \A n \in DOMAIN keyfile : keyfile[n].key = keyfile[m].key => n = m
        BY OneRecord DEF KeysInv
      <4>3. keyfile[m].offset <= keyfile[m].offset
        BY RecordType DEF StoredInv, CallInv
      <4>4. QED
        BY <3>1, <4>1, <4>2, <4>3
    <3>3. QED
      BY <1>1, <3>1, <3>2
  <2>3. CASE ReadClose
    BY <2>3 DEF ReadClose
  <2>4. QED
    BY <2>1, <2>2, <2>3
       DEF StoreNext, storevars, Write, Get, TravCount, TravLoad, NextKV, TravClose, readvars
\* The traversal server keeps the first nrecs.
<1>4. travknown' \subseteq acked' /\ \A a \in travknown' : \E m \in 1..nrecs' : keyfile'[m].key = a.key
  <2>1. CASE UNCHANGED <<nrecs, travknown>>
    <3>1. \A m \in 1..nrecs : m \in 1..Len(keyfile)
      BY <1>2 DEF LoadedInv
    <3>2. QED
      BY <1>1, <1>2, <2>1, <3>1 DEF KnownInv
  <2>2. CASE TravCount
    <3>1. nrecs' = Len(keyfile) /\ travknown' = acked
      BY <2>2 DEF TravCount
    <3>2. QED
      BY <1>1, <1>2, <3>1 DEF StoredInv, AckedStored
  <2>3. CASE TravClose
    BY <2>3 DEF TravClose
  <2>4. QED
    BY <2>1, <2>2, <2>3
       DEF StoreNext, storevars, Write, Get, ReadOpen, ReadClose, TravLoad, NextKV, travvars
<1>5. QED
  BY <1>3, <1>4 DEF KnownInv

\* A record under an acknowledged key is the one that holds the document.
LEMMA KeyHolds ==
  ASSUME StoredInv, KeysInv, KeysFit, NEW a \in acked,
         NEW n \in DOMAIN keyfile, keyfile[n].key = a.key
  PROVE  Holds(valfile, keyfile[n], a.val)
<1>1. PICK m \in DOMAIN keyfile : keyfile[m].key = a.key /\ Holds(valfile, keyfile[m], a.val)
  BY DEF StoredInv, AckedStored
<1>2. m = n
  BY <1>1, OneRecord DEF KeysInv
<1>3. QED
  BY <1>1, <1>2

LEMMA ServedFromInv ==
  StoredInv /\ KeysInv /\ KeysFit /\ LoadedInv /\ KnownInv => AckedServed
<1> SUFFICES ASSUME StoredInv, KeysInv, KeysFit, LoadedInv, KnownInv, NEW a \in known
             PROVE  \E r \in table : r.key = a.key /\ Holds(valfile, r, a.val)
  BY DEF AckedServed
<1>1. PICK r \in table : r.key = a.key
  BY DEF KnownInv
<1>2. PICK n \in DOMAIN keyfile : keyfile[n] = r
  BY DEF LoadedInv
<1>3. a \in acked
  BY DEF KnownInv
<1>4. QED
  BY <1>1, <1>2, <1>3, KeyHolds

LEMMA TraversedFromInv ==
  StoredInv /\ KeysInv /\ KeysFit /\ LoadedInv /\ KnownInv => AckedTraversed
<1> SUFFICES ASSUME StoredInv, KeysInv, KeysFit, LoadedInv, KnownInv, trav = "up"
             PROVE  AckedTraversed
  BY DEF AckedTraversed
<1>1. DOMAIN keyfile = 1..Len(keyfile) /\ Len(keyfile) \in Nat
  BY LenProperties DEF StoredInv, CallInv, TypeOK
<1>2. /\ DOMAIN travrecs = 1..nrecs /\ nrecs \in 0..Len(keyfile)
      /\ \A m \in 1..nrecs : m \in DOMAIN keyfile /\ travrecs[m] = keyfile[m]
  BY <1>1 DEF LoadedInv
<1>3. ASSUME NEW a \in travknown
      PROVE  \E m \in 1..nrecs : travrecs[m].key = a.key /\ Holds(valfile, travrecs[m], a.val)
  <2>1. PICK n \in 1..nrecs : keyfile[n].key = a.key
    BY DEF KnownInv
  <2>2. a \in acked
    BY DEF KnownInv
  <2>3. QED
    BY <1>2, <2>1, <2>2, KeyHolds
<1>4. \A m, n \in 1..nrecs : m < n => travrecs[m].key < travrecs[n].key
  BY <1>2 DEF KeysInv, KeysIncreasing
<1>5. QED
  BY <1>2, <1>3, <1>4 DEF AckedTraversed

\* With one write server whose flushes do not fail and whose getmax can open
\* key.dat, the readers miss nothing that was acknowledged when they loaded, as
\* long as the keys fit getmax's int.
THEOREM ReadersCorrect ==
  ASSUME SingleServer, "fflush" \notin Faults, "fopen" \notin Faults
  PROVE  StoreSpec /\ []KeysFit => []ReadersInv
<1>1. StoreInit => KnownInv
  BY DEF StoreInit, KnownInv
<1>2. StoredInv /\ KeysInv /\ KeysFit /\ LoadedInv /\ KnownInv /\ [StoreNext]_storevars
        => KnownInv'
  BY KnownStep
<1>3. StoreSpec => []StoredInv /\ []KeysInv
  BY StoreIsWriter, StoredCorrect, KeysCorrect
<1>4. ReadersInv <=> LoadedInv /\ ToldInv /\ KnownInv
  BY DEF ReadersInv
<1>5. QED
  BY <1>1, <1>2, <1>3, <1>4, AnswersStay, PTL DEF StoreSpec

\* A document acknowledged before the read server had loaded key.dat is served
\* whole under its key, whatever the writer does meanwhile, a crash included.
THEOREM AckedIsServed ==
  ASSUME SingleServer, "fflush" \notin Faults, "fopen" \notin Faults
  PROVE  StoreSpec /\ []KeysFit => []AckedServed
<1>1. StoredInv /\ KeysInv /\ KeysFit /\ ReadersInv => AckedServed
  BY ServedFromInv DEF ReadersInv
<1>2. StoreSpec => []StoredInv /\ []KeysInv
  BY StoreIsWriter, StoredCorrect, KeysCorrect
<1>3. QED
  BY <1>1, <1>2, ReadersCorrect, PTL

\* The traversal server has what was acknowledged before it counted the records,
\* and gives it in the order of the keys.
THEOREM AckedIsTraversed ==
  ASSUME SingleServer, "fflush" \notin Faults, "fopen" \notin Faults
  PROVE  StoreSpec /\ []KeysFit => []AckedTraversed
<1>1. StoredInv /\ KeysInv /\ KeysFit /\ ReadersInv => AckedTraversed
  BY TraversedFromInv DEF ReadersInv
<1>2. StoreSpec => []StoredInv /\ []KeysInv
  BY StoreIsWriter, StoredCorrect, KeysCorrect
<1>3. QED
  BY <1>1, <1>2, ReadersCorrect, PTL

\* With one write server whose getmax can open key.dat, any two answers for one
\* key agree, whichever reader gave them and when, even if flushes fail.
THEOREM AnswersNeverDiffer ==
  ASSUME SingleServer, "fopen" \notin Faults
  PROVE  StoreSpec /\ []KeysFit => []AnswersAgree
<1>1. KeysInv /\ KeysFit /\ ToldInv => AnswersAgree
  BY OneRecord DEF KeysInv, ToldInv, AnswersAgree
<1>2. StoreSpec => []KeysInv
  BY StoreIsWriter, KeysCorrect
<1>3. QED
  BY <1>1, <1>2, AnswersStay, PTL

=============================================================================
