------------------------------- MODULE OZLog -------------------------------
(***************************************************************************)
(* What an OZoneStore database promises its readers: an append-only log of *)
(* documents.  A document is added at the end, under a key larger than     *)
(* every key before it, and neither it nor its place ever changes ("All    *)
(* data won't change forever", README).  OZWrite implements this module.   *)
(***************************************************************************)
EXTENDS Naturals, Sequences

CONSTANTS
  Key,          \* the numbers documents are known by
  Value         \* the documents' contents

VARIABLE docs           \* the log: a sequence of [key, val]

Init == docs = << >>

Put(k, v) == /\ \A i \in DOMAIN docs : docs[i].key < k
             /\ docs' = Append(docs, [key |-> k, val |-> v])

Next == \E k \in Key, v \in Value : Put(k, v)

Spec == Init /\ [][Next]_docs
=============================================================================
