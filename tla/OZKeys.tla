------------------------------- MODULE OZKeys -------------------------------
(***************************************************************************)
(* The keys as the read library and OZoneSort see them: by their rank in   *)
(* strcmp's order, which is all that sorting and searching look at.        *)
(***************************************************************************)
EXTENDS Integers

CONSTANT Key    \* ranks of the keys

ASSUME KeyAssumption == Key \subseteq Int
=============================================================================
