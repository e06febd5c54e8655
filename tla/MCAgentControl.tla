----------------------------- MODULE MCAgentControl -----------------------------
(* Pairs of requests that meet on one agent, for TLC. *)
EXTENDS AgentControl

CONSTANTS r1, r2

Requests == {r1, r2}

Scope(a, b, n, m) ==
  [commands |-> [r \in Requests |-> IF r = r1 THEN a ELSE b], conns |-> n, reports |-> m]

\* Two requests wait on one connection; a connection is replaced under a request, and
\* the task is deleted; a stop meets the launch that is still being recorded, a
\* report, a pause and a delete.
Pairs == {Scope("pause", "set_model", 1, 0), Scope("pause", "resume", 1, 0),
          Scope("set_model", "delete", 2, 0), Scope("stop", "record_launch", 1, 1),
          Scope("stop", "pause", 1, 0), Scope("stop", "delete", 1, 0)}
===============================================================================
