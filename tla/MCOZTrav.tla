----------------------------- MODULE MCOZTrav -----------------------------
(***************************************************************************)
(* OZTrav on a database of three documents.  The values shrink and grow,   *)
(* and so do the keys, so that the buffers are reused and reallocated.     *)
(* TornFile is what a crash of the writer leaves: the last record is in    *)
(* key.dat and its value is not all in value.dat.                          *)
(***************************************************************************)
EXTENDS OZTrav, TLC

CONSTANTS c1, c2

Table == <<[key |-> "9",  offset |-> 0, length |-> 2],
           [key |-> "10", offset |-> 2, length |-> 1],
           [key |-> "11", offset |-> 3, length |-> 3]>>
Lengths == ("9" :> 1) @@ ("10" :> 2) @@ ("11" :> 2)

Bytes     == {"a", "b"}
WholeFile == <<"a", "b", "b", "b", "a", "a">>
TornFile  == <<"a", "b", "b", "b">>

Symmetry == Permutations(Client)
=============================================================================
