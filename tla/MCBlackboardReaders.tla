-------------------------- MODULE MCBlackboardReaders --------------------------
(* Instance of BlackboardReaders for TLC: two sessions append entries and      *)
(* messages while an agent and a browser read page by page.                  *)
EXTENDS BlackboardReaders

CONSTANTS c1, c2, w1, k1, k2, k3, r1

Intel(k) ==
  [op |-> "publish", actor |-> w1, kind |-> "intel", key |-> k, refs |-> {},
   cites |-> {}, question |-> None]

Other(op) ==
  [op |-> op, actor |-> "system", kind |-> "qa", key |-> k1, refs |-> {},
   cites |-> {}, question |-> None]

ReaderRequests == {Intel(k1), Intel(k2), Intel(k3), Other("dialogue"), Other("delete")}
===============================================================================
