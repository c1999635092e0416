------------------------------ MODULE OZTable -------------------------------
(***************************************************************************)
(* The read library from key.dat to a record: ozread_open_kf               *)
(* (ozcore/ozread.c) starts OZoneSort, fills its table with what it        *)
(* prints, and ozread_get_key searches the table (OZSearch).               *)
(***************************************************************************)
EXTENDS OZSearch, OZSort

searchvars == <<nrecs, recs, key, low, high, mid, pc>>
tablevars  == <<searchvars, sortvars>>

TableInit ==
  /\ SortInit
  /\ nrecs = 0 /\ recs = << >> /\ key = NullKey
  /\ low = 0 /\ high = -1 /\ mid = 0 /\ pc = "sort"

\* OZoneSort runs behind the pipe.
RunSort == pc = "sort" /\ SortNext /\ UNCHANGED searchvars

\* No count, or the count 0: ozread_open_kf returns 2.
OpenFail ==
  /\ pc = "sort" /\ spc = "done" /\ printed.count = 0
  /\ pc' = "failed"
  /\ UNCHANGED <<sortvars, nrecs, recs, key, low, high, mid>>

\* Mutant: the last record of the table is not searched.
OpenMutant ==
  /\ pc = "sort" /\ spc = "done" /\ printed.count # 0
  /\ nrecs' = printed.count /\ key' \in Key
  /\ recs' = [j \in 0..(Len(printed.lines) - 1) |-> printed.lines[j + 1].key]
  /\ low' = 0 /\ high' = nrecs' - 2
  /\ pc' = IF Len(printed.lines) = printed.count THEN "search" ELSE "undefined"
  /\ UNCHANGED <<sortvars, mid>>

\* The table has room for as many records as the count says and is filled
\* with as many as there are lines; with fewer lines the rest of it is what
\* malloc returned.  The client then looks for some key.
Open ==
  /\ pc = "sort" /\ spc = "done" /\ printed.count # 0
  /\ nrecs' = printed.count /\ key' \in Key
  /\ recs' = [j \in 0..(Len(printed.lines) - 1) |-> printed.lines[j + 1].key]
  /\ low' = 0 /\ high' = nrecs' - 1
  /\ pc' = IF Len(printed.lines) = printed.count THEN "search" ELSE "undefined"
  /\ UNCHANGED <<sortvars, mid>>

Search == (Found \/ GoLeft \/ GoRight \/ NotFound) /\ UNCHANGED sortvars

\* The lookup is over, or the program's behaviour is not defined any more.
Over == pc \in {"found", "absent", "failed", "undefined"} /\ UNCHANGED tablevars

TableNext == RunSort \/ OpenFail \/ Open \/ Search \/ Over

TableSpec == TableInit /\ [][TableNext]_tablevars /\ WF_tablevars(TableNext)

-----------------------------------------------------------------------------
\* From key.dat to the answer: a key is found iff a line of key.dat has it,
\* and with the record of the largest offset, whatever the order of the lines
\* and the splits they fall into, with a cut line behind them or not.  Keys
\* are below "~", and no other sort used the same temporary files.
LookupRight == key \in Key /\ key < Tilde /\ ~collided =>
  /\ pc = "found"  => Newest(printed.lines[mid + 1])
                      /\ printed.lines[mid + 1].key = key
  /\ pc = "absent" => \A j \in DOMAIN lines : lines[j].key # key

\* Why: the table is the merged file, and that is sorted.
TableInv ==
  /\ SortInv
  /\ pc \in {"sort", "search", "found", "absent", "failed", "undefined"}
  /\ pc \in {"search", "found", "absent"} =>
       /\ spc = "done" /\ printed.lines # << >> /\ nrecs = Len(printed.lines)
       /\ \A j \in 0..(nrecs - 1) : recs[j] = printed.lines[j + 1].key
       /\ SearchInv

\* Sorting, opening and searching come to an end.
LookupEnds == <>(pc \in {"found", "absent", "failed", "undefined"})
=============================================================================
