------------------------------ MODULE MCOZRead ------------------------------
(***************************************************************************)
(* OZRead on a database of three documents, one of them with a NUL byte,   *)
(* and a record whose value is not all in the file (what a crash of the    *)
(* writer between its two flushes leaves); key 4 has no record.  Of Plain, *)
(* which has no NUL, every answer would be right if the FILE were a        *)
(* thread's own.                                                           *)
(***************************************************************************)
EXTENDS OZRead, TLC

CONSTANTS a, b, t1, t2

Table == 1 :> [offset |-> 3, length |-> 2] @@ 2 :> [offset |-> 0, length |-> 3]
         @@ 3 :> [offset |-> 5, length |-> 2]
Keys  == 1..4
Bytes == {a, b, Nul}
Dat   == <<a, Nul, b, b, a, a>>
Plain == <<a, a, b, b, a, a>>

Symmetry == Permutations(Thread)
=============================================================================
