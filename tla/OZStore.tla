------------------------------ MODULE OZStore -------------------------------
(***************************************************************************)
(* A database directory with the three programs on it: a write server      *)
(* (OZWrite), a read server and a traversal server.  The readers load      *)
(* key.dat when they start, at any moment of the writer's life, and read   *)
(* value.dat when they are asked, while it grows.                          *)
(*                                                                         *)
(* Loading and reading are taken by what they come to: OZSort and OZTable  *)
(* have the steps of the one, OZRead and OZTrav of the other.              *)
(***************************************************************************)
EXTENDS OZWrite

CONSTANT
  MaxLoads      \* bound: starts of each reader

ASSUME LoadAssumption   == MaxLoads \in Nat

VARIABLES
  reader,       \* the read server: "down" or "up"
  table,        \* its records
  known,        \* what was acknowledged when it had read key.dat (history)
  trav,         \* the traversal server: "down", "counted" or "up"
  travrecs,     \* its records, in its order
  nrecs,        \* how many lines its first pass has counted
  travknown,    \* what was acknowledged at that time (history)
  told,         \* the pairs the readers have answered (history)
  loads         \* starts of the read server and of the traversal server

readvars  == <<reader, table, known>>
travvars  == <<trav, travrecs, nrecs, travknown>>
storevars == <<vars, reader, table, known, trav, travrecs, nrecs, travknown, told, loads>>

\* The key file exists once a writer has started.
Created == opens > 0

\* The value that a reader finds under record r: a short read is a failure.
Found(r) == r.offset + r.length <= Len(valfile)

Tells(r) == told' = told \cup {[key |-> r.key, val |-> Bytes(r, valfile)]}

-----------------------------------------------------------------------------
(* The read server. *)

\* Mutant: the records are loaded, but the last.
ReadOpenMutant ==
  /\ reader = "down" /\ reader' = "up" /\ Created /\ loads.read < MaxLoads
  /\ table' = {keyfile[m] : m \in 1..(Len(keyfile) - 1)}
  /\ known' = acked
  /\ loads' = [loads EXCEPT !.read = @ + 1]
  /\ UNCHANGED <<vars, travvars, told>>

\* ozread_open: of each key OZoneSort keeps the record of largest offset.  The
\* moment is that of its last look at key.dat: what follows comes too late.
ReadOpen ==
  /\ reader = "down" /\ reader' = "up" /\ Created /\ loads.read < MaxLoads
  /\ table' = {r \in {keyfile[m] : m \in DOMAIN keyfile} :
       \A m \in DOMAIN keyfile : keyfile[m].key = r.key => keyfile[m].offset <= r.offset}
  /\ known' = acked
  /\ loads' = [loads EXCEPT !.read = @ + 1]
  /\ UNCHANGED <<vars, travvars, told>>

Get == \E r \in table :
  /\ Found(r) /\ Tells(r)
  /\ UNCHANGED <<vars, readvars, travvars, loads>>

\* The process ends, as it does by a signal at any time.
ReadClose ==
  /\ reader = "up" /\ reader' = "down"
  /\ table' = {} /\ known' = {}
  /\ UNCHANGED <<vars, travvars, told, loads>>

-----------------------------------------------------------------------------
(* The traversal server. *)

\* The first pass of oztrav_open_kf counts the lines; without one it fails.
TravCount ==
  /\ trav = "down" /\ trav' = "counted" /\ Created /\ loads.trav < MaxLoads
  /\ keyfile # << >> /\ nrecs' = Len(keyfile) /\ travknown' = acked
  /\ loads' = [loads EXCEPT !.trav = @ + 1]
  /\ UNCHANGED <<vars, readvars, travrecs, told>>

\* Mutant: no rewind, and what has come since the count is loaded.
TravLoadMutant ==
  /\ trav = "counted" /\ trav' = "up"
  /\ travrecs' = SubSeq(keyfile, nrecs + 1, Len(keyfile))
  /\ UNCHANGED <<vars, readvars, nrecs, travknown, told, loads>>

\* The second pass reads as many lines from the beginning; the writer may have
\* appended more by now.
TravLoad ==
  /\ trav = "counted" /\ trav' = "up"
  /\ travrecs' = SubSeq(keyfile, 1, nrecs)
  /\ UNCHANGED <<vars, readvars, nrecs, travknown, told, loads>>

NextKV == \E m \in DOMAIN travrecs :
  /\ Found(travrecs[m]) /\ Tells(travrecs[m])
  /\ UNCHANGED <<vars, readvars, travvars, loads>>

TravClose ==
  /\ trav # "down" /\ trav' = "down"
  /\ travrecs' = << >> /\ nrecs' = 0 /\ travknown' = {}
  /\ UNCHANGED <<vars, readvars, told, loads>>

-----------------------------------------------------------------------------
StoreInit ==
  /\ Init
  /\ reader = "down" /\ table = {} /\ known = {}
  /\ trav = "down" /\ travrecs = << >> /\ nrecs = 0 /\ travknown = {}
  /\ told = {} /\ loads = [read |-> 0, trav |-> 0]

Write == Next /\ UNCHANGED <<readvars, travvars, told, loads>>

StoreNext == \/ Write
             \/ ReadOpen \/ Get \/ ReadClose
             \/ TravCount \/ TravLoad \/ NextKV \/ TravClose

StoreSpec == StoreInit /\ [][StoreNext]_storevars

-----------------------------------------------------------------------------
(* Properties. *)

\* A document acknowledged before the read server had read key.dat is served,
\* whole and under its key, as long as this server runs: whatever the writer
\* does meanwhile, a crash included.
AckedServed == reader = "up" => \A a \in known : \E r \in table :
  r.key = a.key /\ Holds(valfile, r, a.val)

\* The traversal server has it too, and its records are in the order of their
\* keys: the order the documents were put in.
AckedTraversed == trav = "up" =>
  /\ \A a \in travknown : \E m \in DOMAIN travrecs :
       travrecs[m].key = a.key /\ Holds(valfile, travrecs[m], a.val)
  /\ \A m, n \in DOMAIN travrecs : m < n => travrecs[m].key < travrecs[n].key

\* Any two answers for one key agree, whichever of the two servers gave them
\* and when, before or after restarts of either or of the writer ("All data
\* won't change forever", README); also where the writer crashed between a
\* record and its value.
AnswersAgree == \A x, y \in told : x.key = y.key => x.val = y.val

-----------------------------------------------------------------------------
(* Why: the inductive invariant behind the three. *)

\* What the readers have loaded: the read server records of key.dat, the
\* traversal server the first nrecs of them.
LoadedInv ==
  /\ table \subseteq {keyfile[m] : m \in DOMAIN keyfile}
  /\ nrecs \in 0..Len(keyfile)
  /\ DOMAIN travrecs = IF trav = "up" THEN 1..nrecs ELSE {}
  /\ \A m \in DOMAIN travrecs : travrecs[m] = keyfile[m]

\* An answer is what a record of key.dat finds in value.dat, to this day.
ToldInv == \A x \in told : \E m \in DOMAIN keyfile :
  x.key = keyfile[m].key /\ Found(keyfile[m]) /\ x.val = Bytes(keyfile[m], valfile)

\* Nothing that was acknowledged by then is missing among what they loaded.
KnownInv ==
  /\ known \subseteq acked /\ travknown \subseteq acked
  /\ \A a \in known : \E r \in table : r.key = a.key
  /\ \A a \in travknown : \E m \in 1..nrecs : keyfile[m].key = a.key

ReadersInv == LoadedInv /\ ToldInv /\ KnownInv
=============================================================================
