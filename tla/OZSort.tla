------------------------------- MODULE OZSort -------------------------------
(***************************************************************************)
(* OZoneSort (ozsort/ozsort.c and main.c), the program ozread_open_kf      *)
(* starts to read key.dat: sort it in splits that fit in memory, merge the *)
(* splits, keep of each key the record with the largest offset, and print  *)
(* the number of records and then the records.  A key is its rank in       *)
(* strcmp's order, and a record stands for its whole line.                 *)
(***************************************************************************)
EXTENDS OZKeys, Sequences, FiniteSets

CONSTANTS
  Tilde,        \* rank of "~", where the merge starts its search for the least
  NullKey,      \* rank of "(null)", what printf makes of no key
  Offset,       \* offsets into value.dat; that of the first document is 0
  PerLine,      \* OZSORT_PER_LINE: lines of one split
  MaxSplits,    \* OZSORT_MAX_SPLITS
  MaxLines,     \* bound: whole lines of key.dat, where it is any that has ...
  FileKey,      \* ... these keys, again and again and in any order
  Faults        \* the failures that may happen: "fopen", "print", "collide"

ASSUME TildeAssumption     == Tilde \in Int /\ NullKey \in Int \ Key
ASSUME OffsetAssumption    == Offset \subseteq Nat /\ 0 \in Offset
ASSUME SplitAssumption     == PerLine \in Nat \ {0} /\ MaxSplits \in Nat \ {0}
ASSUME SortBoundAssumption == MaxLines \in Nat /\ FileKey \subseteq Key
ASSUME SortFaultAssumption == Faults \subseteq {"fopen", "print", "collide"}

VARIABLES
  lines,        \* the whole lines of key.dat
  torn,         \* is there a cut line behind them?
  at,           \* the fscanf calls that did not meet the end of the file
  splits,       \* the split files: param->_splits[0] .. _splits[_nsplits - 1]
  heads,        \* where the merge is in each split
  prev,         \* the record to be written next, as a sequence of at most one
  out,          \* the merged file
  mlines,       \* param->_mlines
  spc,          \* "split", "open", "merge", "print", and then "done"
  printed,      \* standard output: [count, lines]
  collided      \* a sort that began in the same second emptied a split (history)

source   == <<lines, torn>>
merging  == <<heads, prev, out, mlines>>
sortvars == <<lines, torn, at, splits, heads, prev, out, mlines, spc, printed, collided>>

Line == [key : Key, offset : Offset]
NullLine == [key |-> NullKey, offset |-> 0]
NothingPrinted == [count |-> 0, lines |-> << >>]

\* What fscanf still has to read; a line cut before its length gives it one or
\* two items, not three (one cut inside its length is a line like any other).
Left == Len(lines) + (IF torn THEN 1 ELSE 0) - at

\* The lines that n more calls of fscanf find.
Chunk(n) == SubSeq(lines, at + 1, IF at + n <= Len(lines) THEN at + n ELSE Len(lines))

\* All the orders qsort may leave: by key, records of one key in any order.
Orders(c) == {[j \in DOMAIN c |-> c[p[j]]] : p \in
  {q \in [DOMAIN c -> DOMAIN c] : \A i, j \in DOMAIN c : i < j =>
     q[i] # q[j] /\ c[q[i]].key <= c[q[j]].key}}

Fails == spc' = "done" /\ printed' = NothingPrinted

\* Mutant: one split more than param->_splits has room for.
SplitMutant ==
  /\ spc = "split" /\ Len(splits) <= MaxSplits
  /\ LET n == IF Left < PerLine THEN Left ELSE PerLine IN
       /\ \E s \in Orders(Chunk(n)) : splits' = Append(splits, s)
       /\ at' = at + n
  /\ spc' = IF Left < PerLine THEN "open" ELSE "split"
  /\ UNCHANGED <<source, merging, printed, collided>>

\* A split is read, sorted and written; the end of the file shows when fewer
\* than PerLine calls succeed.
SplitOne ==
  /\ spc = "split" /\ Len(splits) < MaxSplits
  /\ LET n == IF Left < PerLine THEN Left ELSE PerLine IN
       /\ \E s \in Orders(Chunk(n)) : splits' = Append(splits, s)
       /\ at' = at + n
  /\ spc' = IF Left < PerLine THEN "open" ELSE "split"
  /\ UNCHANGED <<source, merging, printed, collided>>

\* One split more than there may be: ozsort_split returns 3, main prints 0.
TooManySplits ==
  /\ spc = "split" /\ Len(splits) = MaxSplits
  /\ Fails
  /\ UNCHANGED <<source, at, splits, merging, collided>>

\* A temporary file cannot be opened, in either half of the sort.
FopenFail ==
  /\ "fopen" \in Faults /\ spc \in {"split", "open"}
  /\ Fails
  /\ UNCHANGED <<source, at, splits, merging, collided>>

\* Names come from time(): another sort of the same second opens the same
\* file for writing, which empties it.
Collide ==
  /\ "collide" \in Faults /\ ~collided /\ spc \in {"split", "open"}
  /\ \E j \in DOMAIN splits : splits' = [splits EXCEPT ![j] = << >>]
  /\ collided' = TRUE
  /\ UNCHANGED <<source, at, merging, spc, printed>>

\* Open every split and read its first record.
OpenMerge ==
  /\ spc = "open"
  /\ heads' = [j \in DOMAIN splits |-> 1]
  /\ spc' = "merge"
  /\ UNCHANGED <<source, at, splits, prev, out, mlines, printed, collided>>

\* The splits whose head is not the end of the file and is below "~".
Live == {j \in DOMAIN splits :
           heads[j] <= Len(splits[j]) /\ splits[j][heads[j]].key < Tilde}

\* The first of the splits with the least head.
MinIdx == CHOOSE j \in Live : \A k \in Live :
  \/ splits[j][heads[j]].key < splits[k][heads[k]].key
  \/ splits[j][heads[j]].key = splits[k][heads[k]].key /\ j <= k

\* Mutant: of two records of one key the one met last stays.
TakeMutant ==
  /\ spc = "merge" /\ Live # {}
  /\ LET r == splits[MinIdx][heads[MinIdx]]
         done == {j \in DOMAIN prev : prev[j].key # r.key} IN
       /\ prev' = <<r>>
       /\ out' = IF done = {} THEN out ELSE Append(out, prev[1])
       /\ mlines' = mlines + Cardinality(done)
  /\ heads' = [heads EXCEPT ![MinIdx] = @ + 1]
  /\ UNCHANGED <<source, at, splits, spc, printed, collided>>

\* The least head joins prev if it has the same key, the larger offset
\* winning; otherwise prev is written and the head is the new prev.
Take ==
  /\ spc = "merge" /\ Live # {}
  /\ LET r == splits[MinIdx][heads[MinIdx]] IN
       \/ /\ prev = << >>
          /\ prev' = <<r>>
          /\ UNCHANGED <<out, mlines>>
       \/ /\ prev # << >> /\ prev[1].key = r.key
          /\ prev' = IF r.offset >= prev[1].offset THEN <<r>> ELSE prev
          /\ UNCHANGED <<out, mlines>>
       \/ /\ prev # << >> /\ prev[1].key # r.key
          /\ prev' = <<r>>
          /\ out'  = Append(out, prev[1]) /\ mlines' = mlines + 1
  /\ heads' = [heads EXCEPT ![MinIdx] = @ + 1]
  /\ UNCHANGED <<source, at, splits, spc, printed, collided>>

\* Mutant: the last record is not counted.
MergeEndMutant ==
  /\ spc = "merge" /\ Live = {}
  /\ out' = Append(out, IF prev = << >> THEN NullLine ELSE prev[1])
  /\ spc' = "print"
  /\ UNCHANGED <<source, at, splits, heads, prev, mlines, printed, collided>>

\* No head is left: the last record is written, "(null)" if there was none.
MergeEnd ==
  /\ spc = "merge" /\ Live = {}
  /\ out' = Append(out, IF prev = << >> THEN NullLine ELSE prev[1])
  /\ mlines' = mlines + 1
  /\ spc' = "print"
  /\ UNCHANGED <<source, at, splits, heads, prev, printed, collided>>

\* main prints the count, then copies the merged file.
PrintAll ==
  /\ spc = "print"
  /\ printed' = [count |-> mlines, lines |-> out]
  /\ spc' = "done"
  /\ UNCHANGED <<source, at, splits, merging, collided>>

\* The count is out when main finds that it cannot open the merged file.
PrintFail ==
  /\ "print" \in Faults /\ spc = "print"
  /\ printed' = [count |-> mlines, lines |-> << >>]
  /\ spc' = "done"
  /\ UNCHANGED <<source, at, splits, merging, collided>>

-----------------------------------------------------------------------------
\* All key files of a few lines, and longer ones: any set of keys, in falling
\* order, which the splits and their merge have to turn.
KeyFiles == UNION {[1..n -> [key : FileKey, offset : Offset]] : n \in 0..MaxLines}
LongFiles == {[j \in 1..Cardinality(keys) |->
    [key |-> CHOOSE k \in keys : Cardinality({m \in keys : m > k}) = j - 1, offset |-> 0]] :
  keys \in {s \in SUBSET Key : IsFiniteSet(s)}}

SortInit ==
  /\ lines \in KeyFiles \cup LongFiles /\ torn \in BOOLEAN
  /\ at = 0 /\ splits = << >> /\ heads = << >> /\ prev = << >>
  /\ out = << >> /\ mlines = 0 /\ spc = "split"
  /\ printed = NothingPrinted /\ collided = FALSE

SortNext ==
  \/ SplitOne \/ TooManySplits \/ FopenFail \/ Collide
  \/ OpenMerge \/ Take \/ MergeEnd \/ PrintAll \/ PrintFail

SortSpec == SortInit /\ [][SortNext]_sortvars

-----------------------------------------------------------------------------
(* Properties. *)

\* Types; there are never more splits than param->_splits has room for.
SortTypeOK ==
  /\ lines \in Seq(Line) /\ torn \in BOOLEAN
  /\ at \in 0..(Len(lines) + 1)
  /\ splits \in Seq(Seq(Line)) /\ Len(splits) <= MaxSplits
  /\ prev \in Seq(Line) /\ Len(prev) <= 1
  /\ out \in Seq(Line \cup {NullLine}) /\ mlines \in Nat
  /\ spc \in {"split", "open", "merge", "print", "done"}
  /\ printed.lines \in Seq(Line \cup {NullLine}) /\ printed.count \in Nat
  /\ collided \in BOOLEAN

\* The lines with a key below "~".
Known == {j \in DOMAIN lines : lines[j].key < Tilde}

\* r is, of the records of its key, one with the largest offset.
Newest(r) == \E j \in Known : lines[j] = r
  /\ \A m \in Known : lines[m].key = r.key => lines[m].offset <= r.offset

\* What is printed: each key once, in order, with its newest record, and a
\* count that is the number of lines.  The exceptions are named: failures,
\* too many lines, a collision, and a key file without a line below "~".
SortedRight == spc = "done" /\ printed.lines # << >> /\ ~collided =>
  /\ printed.count = Len(printed.lines)
  /\ Known # {} =>
       /\ \A i, j \in DOMAIN printed.lines :
            i < j => printed.lines[i].key < printed.lines[j].key
       /\ \A j \in DOMAIN printed.lines : Newest(printed.lines[j])
       /\ \A m \in Known : \E j \in DOMAIN printed.lines :
            printed.lines[j].key = lines[m].key

-----------------------------------------------------------------------------
(* Why: the inductive invariant behind the two, for any key file. *)

\* The lines that the splits have so far, if no other sort emptied one.
ReadSoFar == {lines[j] : j \in {m \in DOMAIN lines : m <= at}}
InSplits  == UNION {{splits[j][a] : a \in DOMAIN splits[j]} : j \in DOMAIN splits}

SplitInv ==
  /\ Left >= 0 /\ (spc \in {"open", "merge", "print"} => Left = 0)
  /\ \A j \in DOMAIN splits : \A a, b \in DOMAIN splits[j] :
       a < b => splits[j][a].key <= splits[j][b].key
  /\ InSplits \subseteq ReadSoFar
  /\ ~collided => ReadSoFar \subseteq InSplits

\* What the merge has taken from the splits, and what it has not.
Taken == UNION {{splits[j][a] : a \in 1..(heads[j] - 1)} : j \in DOMAIN splits}
Rest  == UNION {{splits[j][a] : a \in heads[j]..Len(splits[j])} : j \in DOMAIN splits}

\* r is, of the records of its key in S, one with the largest offset.
Best(r, S) == r \in S /\ \A q \in S : q.key = r.key => q.offset <= r.offset

\* The merged records, out and then prev, are in order, and of each key taken
\* the best; nothing that is left comes before them.
MergeInv ==
  /\ heads \in [DOMAIN splits -> Nat \ {0}]
  /\ \A j \in DOMAIN splits : heads[j] <= Len(splits[j]) + 1
  /\ mlines = Len(out)
  /\ prev = << >> => Taken = {} /\ out = << >>
  /\ \A r \in Taken :
       /\ r.key < Tilde
       /\ r.key <= prev[1].key
       /\ r.key = prev[1].key \/ \E i \in DOMAIN out : out[i].key = r.key
  /\ \A i \in DOMAIN out : Best(out[i], Taken) /\ out[i].key < prev[1].key
  /\ \A i, j \in DOMAIN out : i < j => out[i].key < out[j].key
  /\ prev # << >> => Best(prev[1], Taken) /\ \A r \in Rest : prev[1].key <= r.key

\* A merged file: it is counted, in order, each key once with its newest record;
\* where no line was taken it has one line nevertheless.
FileRight(count, ls) ==
  /\ count = Len(ls)
  /\ \A i, j \in DOMAIN ls : i < j => ls[i].key < ls[j].key
  /\ ~collided /\ Known # {} =>
       /\ \A j \in DOMAIN ls : Newest(ls[j])
       /\ \A m \in Known : \E j \in DOMAIN ls : ls[j].key = lines[m].key
  /\ ~collided /\ Known = {} => ls = <<NullLine>>

SortInv ==
  /\ SortTypeOK /\ SplitInv
  /\ spc \in {"split", "open"} => heads = << >> /\ prev = << >> /\ out = << >> /\ mlines = 0
  /\ spc = "merge" => MergeInv
  /\ spc = "print" => FileRight(mlines, out)
  /\ spc = "done"  => printed.lines = << >> \/ FileRight(printed.count, printed.lines)
=============================================================================
