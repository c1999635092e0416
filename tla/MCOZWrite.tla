----------------------------- MODULE MCOZWrite -----------------------------
(***************************************************************************)
(* OZWrite on small instances: one server with two workers, or two servers *)
(* with one worker each; an empty value, one that fits stdio's buffer of   *)
(* two bytes, and one that does not.                                       *)
(***************************************************************************)
EXTENDS OZWriteInv, TLC

CONSTANTS s1, s2, w1, w2

OneServer  == [w \in Worker |-> s1]
TwoServers == [w \in Worker |-> IF w = w1 THEN s1 ELSE s2]

\* Workers of one server are interchangeable.
Symmetry == Permutations(Worker)

Bytes2 == {"a", "b"}
Values == {<< >>, <<"a">>, <<"b", "a", "b">>}
=============================================================================
