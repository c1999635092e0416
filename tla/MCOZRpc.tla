------------------------------ MODULE MCOZRpc ------------------------------
(***************************************************************************)
(* OZRpc with a Python client and a C++ client that share one worker.      *)
(***************************************************************************)
EXTENDS OZRpc

CONSTANTS py, cpp

Langs == (py :> "py") @@ (cpp :> "cpp")
Bounds == (py :> 3) @@ (cpp :> 1)
OddCalls == (py :> {"none", "wrong", "unicode", "element"}) @@ (cpp :> {"foreign"})
=============================================================================
