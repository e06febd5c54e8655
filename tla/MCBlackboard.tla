------------------------------ MODULE MCBlackboard -----------------------------
(* Instance of Blackboard for TLC. *)
EXTENDS StorageAgreement

CONSTANTS c1, c2, w1, w2, k1, k2, a1, q1

Publish(a, kind, k, refs, cites) ==
  [op |-> "publish", actor |-> a, kind |-> kind, key |-> k, refs |-> refs,
   cites |-> cites, question |-> None]

AnswerTo(q, k) ==
  [op |-> "answer", actor |-> "supervisor", kind |-> "qa", key |-> k, refs |-> {},
   cites |-> {}, question |-> q]

Other(op) ==
  [op |-> op, actor |-> "system", kind |-> "qa", key |-> k1, refs |-> {},
   cites |-> {}, question |-> None]

\* Two workers, one with two calls under one key, and a conclusion that cites the
\* first entry, whatever that is; users who answer a question, also twice and
\* under a key the Supervisor has used; a message and a delete; and three calls
\* the policy refuses.
SharedRequests ==
  {Publish(w1, "intel", k1, {}, {}),
   Publish(w1, "finding", k1, {a1}, {}),
   Publish(w2, "final_candidate", k1, {}, {1}),
   Publish("supervisor", "supervisor_advice", k1, {}, {}),
   Publish("supervisor", "finding", k2, {a1}, {}),
   Publish(w1, "finding", k2, {}, {}),
   Publish("reporter", "final_candidate", k2, {}, {1}),
   AnswerTo(q1, k1), AnswerTo(q1, k2), Other("dialogue"), Other("delete")}
===============================================================================
