------------------------------ MODULE OZSearch ------------------------------
(***************************************************************************)
(* ozread_get_key (ozcore/ozread.c): the binary search that finds a key in *)
(* the sorted table of records.                                            *)
(***************************************************************************)
EXTENDS OZKeys

CONSTANT MaxRecs        \* bound: size of the table

ASSUME SizeAssumption == MaxRecs \in Nat \ {0}

VARIABLES
  nrecs,        \* _nrecs, at least 1: ozread_open_kf fails on an empty table
  recs,         \* _recs[0] .. _recs[nrecs - 1], the keys only
  key,          \* the key looked for
  low, high, mid,
  pc            \* "search", and then "found" or "absent"

table == <<nrecs, recs, key>>
vars  == <<nrecs, recs, key, low, high, mid, pc>>

\* OZoneSort leaves the keys sorted, each once.
Sorted(r, n) == \A i, j \in 0..(n - 1) : i < j => r[i] < r[j]

Init ==
  /\ nrecs \in 1..MaxRecs
  /\ recs \in [0..(nrecs - 1) -> Key] /\ Sorted(recs, nrecs)
  /\ key \in Key
  /\ low = 0 /\ high = nrecs - 1 /\ mid = 0 /\ pc = "search"

Half == (low + high) \div 2

Found ==
  /\ pc = "search" /\ low <= high
  /\ recs[Half] = key
  /\ mid' = Half /\ pc' = "found"
  /\ UNCHANGED <<table, low, high>>

\* Mutant: the middle record stays in the interval.
GoLeftMutant ==
  /\ pc = "search" /\ low <= high
  /\ recs[Half] > key
  /\ mid' = Half /\ high' = Half
  /\ UNCHANGED <<table, low, pc>>

GoLeft ==
  /\ pc = "search" /\ low <= high
  /\ recs[Half] > key
  /\ mid' = Half /\ high' = Half - 1
  /\ UNCHANGED <<table, low, pc>>

\* Mutant: two records are skipped.
GoRightMutant ==
  /\ pc = "search" /\ low <= high
  /\ recs[Half] < key
  /\ mid' = Half /\ low' = Half + 2
  /\ UNCHANGED <<table, high, pc>>

GoRight ==
  /\ pc = "search" /\ low <= high
  /\ recs[Half] < key
  /\ mid' = Half /\ low' = Half + 1
  /\ UNCHANGED <<table, high, pc>>

NotFound ==
  /\ pc = "search" /\ low > high
  /\ pc' = "absent"
  /\ UNCHANGED <<table, low, high, mid>>

\* The function has returned.
Returned == pc # "search" /\ UNCHANGED vars

Next == Found \/ GoLeft \/ GoRight \/ NotFound \/ Returned

Spec == Init /\ [][Next]_vars

-----------------------------------------------------------------------------
\* The search returns the record of the key, and "not found" only when no
\* record of the table has it.
SearchCorrect ==
  /\ pc = "found"  => mid \in 0..(nrecs - 1) /\ recs[mid] = key
  /\ pc = "absent" => \A i \in 0..(nrecs - 1) : recs[i] # key

\* Why: what was cut off left of low is smaller, right of high is larger, and
\* the interval lies in the table, so that no record outside it is read.
SearchInv ==
  /\ nrecs \in Nat \ {0} /\ recs \in [0..(nrecs - 1) -> Int] /\ key \in Int
  /\ Sorted(recs, nrecs)
  /\ low \in 0..nrecs /\ high \in (-1)..(nrecs - 1)
  /\ \A i \in 0..(nrecs - 1) : (i < low => recs[i] < key) /\ (i > high => recs[i] > key)
  /\ pc = "found"  => mid \in 0..(nrecs - 1) /\ recs[mid] = key
  /\ pc = "absent" => low > high
=============================================================================
