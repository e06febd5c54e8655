---------------------------- MODULE MCTaskLifecycle ----------------------------
(* Instances of TaskLifecycle for TLC. *)
EXTENDS TaskLifecycle

CONSTANTS w1, w2, h1, h2, q1, q2

Scope(n, limit, W, H, Q) ==
  [entries |-> n, limit |-> limit, workers |-> W, handlers |-> H, questions |-> Q]

\* A report with late entries and one stop or delete; a report whose last entry,
\* which may be the conclusion, is beyond the limit of the read; or two stops or
\* deletes that overlap while questions overwrite the state.
ReportOrStops == {Scope(5, 5, {w1, w2}, {h1}, {}),
                  Scope(5, 4, {w1}, {h1}, {}),
                  Scope(3, 3, {w1}, {h1, h2}, {q1, q2})}

OneStop == {Scope(3, 3, {w1, w2}, {h1}, {})}

TwoQuestions == {Scope(4, 4, {w1}, {}, {q1, q2})}
===============================================================================
