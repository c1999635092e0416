----------------------------- MODULE MCOZStore ------------------------------
(***************************************************************************)
(* OZStore with one writing worker and values of one and of three bytes,   *)
(* the longer one larger than stdio's buffer.                              *)
(***************************************************************************)
EXTENDS OZStore

CONSTANTS s1, w1

OneServer == [w \in Worker |-> s1]
Bytes2    == {"a", "b"}
TwoValues == {<<"a">>, <<"b", "a", "b">>}
=============================================================================
