------------------------------- MODULE SharedLog -------------------------------
(* What the blackboard promises the agents of one task, with no transaction,   *)
(* lock, counter or retry in sight: a log that grows one entry at a time, in   *)
(* which an entry's position is its sequence number, a (writer, key) pair      *)
(* appears at most once, everything an entry cites is already there, and the   *)
(* answer to a question is appended in the step that closes the question.      *)
(* Blackboard.tla, the PostgreSQL transactions, implements it.                 *)
EXTENDS Integers

CONSTANTS Content,    \* what may be written: records with the fields actor,
                      \* key, kind, refs, cites and question
          Artifact,   \* the evidence files
          Question    \* the questions put to the user

VARIABLES log,        \* the entries, a function on 1..size
          size,       \* how many entries there are
          evidence,   \* the artifacts registered so far
          closed,     \* the questions that have been answered
          open        \* FALSE once the task has been deleted

logVars == <<log, size, evidence, closed, open>>

EmptyLog == [n \in 1..0 |-> {}]

\* Entry n of the log is a finding.
IsFinding(n) == n \in 1..size /\ log[n].kind = "finding"

\* No entry of the log was written by the same writer with the same key.
Fresh(x) == \A n \in 1..size : log[n].actor # x.actor \/ log[n].key # x.key

Init ==
  /\ log = EmptyLog
  /\ size = 0
  /\ evidence = {}
  /\ closed = {}
  /\ open = TRUE

Register(a) ==
  /\ open
  /\ evidence' = evidence \union {a}
  /\ UNCHANGED <<log, size, closed, open>>

Grow(x) ==
  /\ open
  /\ Fresh(x)
  /\ x.refs \subseteq evidence
  /\ \A n \in x.cites : IsFinding(n)
  /\ log' = [n \in 1..(size + 1) |-> IF n = size + 1 THEN x ELSE log[n]]
  /\ size' = size + 1
  /\ UNCHANGED <<evidence, open>>

\* An agent or the user publishes an entry that answers no question.
Append(x) ==
  /\ x.question \notin Question
  /\ Grow(x)
  /\ UNCHANGED closed

\* The user answers a question nobody has answered before.
Answer(x) ==
  /\ x.question \in Question \ closed
  /\ Grow(x)
  /\ closed' = closed \union {x.question}

\* The task is deleted with everything that belongs to it.
Drop ==
  /\ open
  /\ open' = FALSE
  /\ log' = EmptyLog
  /\ size' = 0
  /\ evidence' = {}
  /\ closed' = {}

Next ==
  \/ \E a \in Artifact : Register(a)
  \/ \E x \in Content : Append(x) \/ Answer(x)
  \/ Drop

Spec == Init /\ [][Next]_logVars
===============================================================================
