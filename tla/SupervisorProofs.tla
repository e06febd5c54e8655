---------------------------- MODULE SupervisorProofs ----------------------------
(* Theorems about Supervisor: no change is forgotten, nothing that is due waits, *)
(* and advice keeps its distance while the blackboard fits into a page.         *)
EXTENDS Supervisor, TLAPS

\* Where _advise has read latest_seq.
Reviewing == Consulting \ {"read", "resolve", "sync"}

\* A record is made after a stop at most, its job has one, and what it holds exists.
RecordsInv ==
  /\ \A g \in RecordId : rec[g].latest <= size
  /\ job # "none" => held # 0
  /\ made + (IF registry = 0 THEN 1 ELSE 0) + (IF stopper = "gather" THEN 1 ELSE 0)
       <= stops + 1

\* What the model decided still fits.
RoomInv ==
  /\ job = "publish" => size < MaxEntries
  /\ job = "question" => ask
  /\ job \in {"publish", "question"} /\ ask => open < MaxQuestions

TypeInv == TypeOK /\ RecordsInv /\ RoomInv

-------------------------------------------------------------------------------
LEMMA ConstantTypes ==
  /\ Debounce \in Nat \ {0} /\ IntelWait \in Nat \ {0} /\ Silence \in Nat \ {0}
  /\ Interval \in Nat \ {0} /\ PageSize \in Nat \ {0}
  /\ MaxEntries \in Nat /\ MaxCalls \in Nat /\ MaxQuestions \in Nat /\ MaxStops \in Nat
  /\ Never \in Nat /\ IntelWait < Never /\ Debounce < Never
  /\ Published \subseteq Kind \ {"supervisor_advice", "qa"}
BY SupervisorAssumption DEF Never

\* Instants as Record keeps them.
Instant == 0..IntelWait \union {Never}

RecordSet(L, Q, I, M, E) == [latest : L, quiet : Q, intel : I, immediate : M, event : E]

LEMMA FieldTypes ==
  ASSUME NEW L, NEW Q, NEW I, NEW M, NEW E, NEW r \in RecordSet(L, Q, I, M, E)
  PROVE  /\ \A x \in L : [r EXCEPT !.latest = x] \in RecordSet(L, Q, I, M, E)
         /\ \A x \in Q : [r EXCEPT !.quiet = x] \in RecordSet(L, Q, I, M, E)
         /\ \A x \in I : [r EXCEPT !.intel = x] \in RecordSet(L, Q, I, M, E)
         /\ \A x \in M : [r EXCEPT !.immediate = x] \in RecordSet(L, Q, I, M, E)
         /\ \A x \in E : [r EXCEPT !.event = x] \in RecordSet(L, Q, I, M, E)
<1>1. ASSUME NEW x \in L PROVE [r EXCEPT !.latest = x] \in RecordSet(L, Q, I, M, E)
  BY SMT DEF RecordSet
<1>2. ASSUME NEW x \in Q PROVE [r EXCEPT !.quiet = x] \in RecordSet(L, Q, I, M, E)
  BY SMT DEF RecordSet
<1>3. ASSUME NEW x \in I PROVE [r EXCEPT !.intel = x] \in RecordSet(L, Q, I, M, E)
  BY SMT DEF RecordSet
<1>4. ASSUME NEW x \in M PROVE [r EXCEPT !.immediate = x] \in RecordSet(L, Q, I, M, E)
  BY SMT DEF RecordSet
<1>5. ASSUME NEW x \in E PROVE [r EXCEPT !.event = x] \in RecordSet(L, Q, I, M, E)
  BY SMT DEF RecordSet
<1> QED  BY <1>1, <1>2, <1>3, <1>4, <1>5, Zenon

Recorded == RecordSet(0..MaxEntries, 0..Debounce, Instant, BOOLEAN, BOOLEAN)

LEMMA RecordIsRecorded == Record = Recorded
BY Zenon DEF Record, Recorded, RecordSet, Instant

\* Several fields at a time.
LEMMA Updates ==
  ASSUME NEW r \in Record, NEW l \in 0..MaxEntries, NEW q \in 0..Debounce,
         NEW i \in Instant, NEW m \in BOOLEAN, NEW e \in BOOLEAN
  PROVE  /\ [r EXCEPT !.event = e] \in Record
         /\ [r EXCEPT !.quiet = q, !.intel = i] \in Record
         /\ [r EXCEPT !.latest = l, !.intel = i, !.immediate = m] \in Record
         /\ [r EXCEPT !.latest = l, !.quiet = q, !.event = e, !.intel = i,
                      !.immediate = m] \in Record
<1> DEFINE l1 == [r EXCEPT !.latest = l]
           l2 == [l1 EXCEPT !.intel = i]
           l3 == [l1 EXCEPT !.quiet = q]
           l4 == [l3 EXCEPT !.event = e]
           l5 == [l4 EXCEPT !.intel = i]
           q1 == [r EXCEPT !.quiet = q]
<1>1. r \in Recorded  BY RecordIsRecorded
<1>2. l1 \in Recorded /\ q1 \in Recorded /\ [r EXCEPT !.event = e] \in Recorded
  BY <1>1, FieldTypes, Zenon DEF Recorded
<1>3. l2 \in Recorded /\ l3 \in Recorded /\ [q1 EXCEPT !.intel = i] \in Recorded
  BY <1>2, FieldTypes, Zenon DEF Recorded
<1>4. l4 \in Recorded /\ [l2 EXCEPT !.immediate = m] \in Recorded
  BY <1>3, FieldTypes, Zenon DEF Recorded
<1>5. l5 \in Recorded
  BY <1>4, FieldTypes, Zenon DEF Recorded
<1>6. [l5 EXCEPT !.immediate = m] \in Recorded
  BY <1>5, FieldTypes, Zenon DEF Recorded
<1> QED  BY <1>2, <1>3, <1>4, <1>6, RecordIsRecorded, Zenon

LEMMA RecordFields ==
  ASSUME NEW r \in Record
  PROVE  /\ r.latest \in 0..MaxEntries /\ r.quiet \in 0..Debounce /\ r.intel \in Instant
         /\ r.immediate \in BOOLEAN /\ r.event \in BOOLEAN
BY DEF Record, Instant

LEMMA RecordTypes ==
  ASSUME NEW r \in Record
  PROVE  /\ [r EXCEPT !.event = FALSE] \in Record
         /\ Settled(r) \in Record
         /\ \A n \in 0..MaxEntries : Noted(r, n) \in Record
<1>1. /\ 0 \in 0..MaxEntries /\ Debounce \in 0..Debounce
      /\ IntelWait \in Instant /\ Never \in Instant /\ FALSE \in BOOLEAN
  BY ConstantTypes DEF Instant
<1>2. [r EXCEPT !.event = FALSE] \in Record /\ Settled(r) \in Record
  BY <1>1, RecordFields, Updates, Zenon DEF Settled
<1>3. ASSUME NEW n \in 0..MaxEntries PROVE Noted(r, n) \in Record
  <2> DEFINE i == IF kind[n] = "intel" /\ r.intel = Never THEN IntelWait ELSE r.intel
             m == r.immediate \/ kind[n] \in {"finding", "qa"}
  <2>1. i \in Instant
    BY <1>1, RecordFields
  <2>2. m \in BOOLEAN
    BY RecordFields, Zenon
  <2>3. Larger(r.latest, n) \in 0..MaxEntries
    BY RecordFields DEF Larger
  <2>4. Noted(r, n) = [r EXCEPT !.latest = Larger(r.latest, n), !.quiet = Debounce,
                                !.event = TRUE, !.intel = i, !.immediate = m]
    BY Zenon DEF Noted
  <2>5. [r EXCEPT !.latest = Larger(r.latest, n), !.quiet = Debounce, !.event = TRUE,
                  !.intel = i, !.immediate = m] \in Record
    <3> HIDE DEF i, m
    <3> QED  BY <1>1, <2>1, <2>2, <2>3, Updates, TRUE \in BOOLEAN, Zenon
  <2> QED  BY <2>4, <2>5, Zenon
<1> QED  BY <1>2, <1>3

LEMMA RecordValues ==
  ASSUME NEW r \in Record
  PROVE  /\ [r EXCEPT !.event = FALSE].latest = r.latest
         /\ [r EXCEPT !.event = FALSE].quiet = r.quiet
         /\ [r EXCEPT !.event = FALSE].intel = r.intel
         /\ [r EXCEPT !.event = FALSE].immediate = r.immediate
         /\ Settled(r).latest = 0
         /\ \A n \in 0..MaxEntries : /\ Noted(r, n).latest = Larger(r.latest, n)
                                     /\ Noted(r, n).event = TRUE
BY SMT DEF Record, Settled, Noted

LEMMA ReadyInType ==
  ASSUME NEW r \in Record
  PROVE  ReadyIn(r) \in 0..Never
<1>1. r.quiet \in 0..Never /\ r.intel \in 0..Never
  BY ConstantTypes, RecordFields DEF Instant
<1> QED  BY <1>1, ConstantTypes DEF ReadyIn, Smaller

LEMMA InitTyped == Init => TypeInv
<1> SUFFICES ASSUME Init PROVE TypeInv  OBVIOUS
<1>1. NoRecord \in Record /\ NoRecord.latest = 0
  <2>1. /\ 0 \in 0..MaxEntries /\ 0 \in 0..Debounce /\ Never \in Instant
        /\ FALSE \in BOOLEAN
    BY ConstantTypes DEF Instant
  <2>2. NoRecord \in Record
    BY <2>1, Zenon DEF NoRecord, Record, Instant
  <2> QED  BY <2>2 DEF NoRecord
<1>2. rec \in [RecordId -> Record] /\ \A g \in RecordId : rec[g].latest = 0
  BY <1>1 DEF Init
<1>3. TypeOK
  <2>1. kind \in [1..MaxEntries -> Kind] /\ age \in [1..MaxEntries -> 0..Interval]
    BY ConstantTypes DEF Init, Kind
  <2>2. timer \in 0..Larger(Silence, Never) /\ made \in 0..(MaxStops + 1)
    BY ConstantTypes DEF Init, Larger
  <2>3. /\ size \in 0..MaxEntries /\ open \in 0..MaxQuestions /\ stops \in 0..MaxStops
        /\ registry \in 0..made /\ held \in 0..made
    BY ConstantTypes DEF Init
  <2> QED  BY ConstantTypes, <1>2, <2>1, <2>2, <2>3 DEF Init, TypeOK
<1>4. RecordsInv /\ RoomInv
  BY ConstantTypes, <1>2 DEF Init, RecordsInv, RoomInv
<1> QED  BY <1>3, <1>4 DEF TypeInv

-------------------------------------------------------------------------------
\* The types by what they are about. SMT has no use for the flags.
Flags ==
  /\ answered \in BOOLEAN /\ silence \in BOOLEAN /\ advise \in BOOLEAN /\ ask \in BOOLEAN
  /\ lost \in BOOLEAN /\ over \in BOOLEAN

Board ==
  /\ size \in 0..MaxEntries
  /\ kind \in [1..MaxEntries -> Kind]
  /\ age \in [1..MaxEntries -> 0..Interval]
  /\ told \subseteq 1..size /\ checked \subseteq 1..size

Jobs ==
  /\ made \in 0..(MaxStops + 1) /\ registry \in 0..made
  /\ job \in {"none", "loop"} \union Waiting \union Consulting
  /\ held \in 0..made
  /\ timer \in 0..Larger(Silence, Never)
  /\ stopper \in {"idle", "gather", "stop"}
  /\ stops \in 0..MaxStops
  /\ job # "none" => held # 0

Marks ==
  /\ trigger \in 0..size /\ base \in 0..size /\ snap \in 0..size /\ page \in 0..size
  /\ last \in 0..size /\ shown \in 0..size

Task ==
  /\ state \in {"running", "other", "ended"}
  /\ open \in 0..MaxQuestions
  /\ RoomInv

LEMMA TypeParts ==
  TypeInv <=> /\ Flags /\ Board /\ Jobs /\ Marks /\ Task
              /\ rec \in [RecordId -> Record]
              /\ RecordsInv
BY Zenon DEF TypeInv, TypeOK, RecordsInv, Flags, Board, Jobs, Marks, Task

LEMMA FlagsKept ==
  ASSUME Flags, [Next]_vars
  PROVE  Flags'
<1> USE DEF Flags, Return, Leave, Job
<1>1. ASSUME NEW k \in Published, Publish(k) PROVE Flags'
  BY <1>1, Zenon DEF Publish, consultation, history, task
<1>2. CASE Answer  BY <1>2, Zenon DEF Answer, consultation, history
<1>3. CASE SetAnswered  BY <1>3, Zenon DEF SetAnswered, consultation, history
<1>4. CASE Report  BY <1>4, Zenon DEF Report, consultation
<1>5. ASSUME NEW n \in 1..MaxEntries, Check(n) PROVE Flags'
  BY <1>5, Zenon DEF Check, task, consultation, history
<1>6. ASSUME NEW n \in 1..MaxEntries, Note(n) PROVE Flags'
  BY <1>6, Zenon DEF Note, task, consultation, history
<1>7. CASE Loop  BY <1>7, Zenon DEF Loop, task, history
<1>8. CASE Wake  BY <1>8, Zenon DEF Wake, task, consultation, history
<1>9. CASE Settle  BY <1>9, Zenon DEF Settle, task, history
<1>10. CASE SilenceCheck  BY <1>10, Zenon DEF SilenceCheck, task, history
<1>11. CASE Read  BY <1>11, Zenon DEF Read, task, history
<1>12. CASE Resolve  BY <1>12, Zenon DEF Resolve, task, consultation, history
<1>13. CASE Unresolved  BY <1>13, Zenon DEF Unresolved, task
<1>14. CASE SyncTask  BY <1>14, Zenon DEF SyncTask, task, history
<1>15. CASE SyncEntries  BY <1>15, Zenon DEF SyncEntries, task
<1>16. CASE ModelFails  BY <1>16, Zenon DEF ModelFails, task, history
<1>17. CASE ModelDecides  BY <1>17, Zenon DEF ModelDecides, task, history
<1>18. CASE PublishAdvice  BY <1>18, Zenon DEF PublishAdvice, task, consultation, history
<1>19. CASE AskUser  BY <1>19, Zenon DEF AskUser, consultation, history
<1>20. CASE SetWaiting  BY <1>20, Zenon DEF SetWaiting, consultation, history
<1>21. CASE Finish  BY <1>21, Zenon DEF Finish, task, history
<1>22. CASE Cancel  BY <1>22, Zenon DEF Cancel, task, history
<1>23. CASE Forget  BY <1>23, Zenon DEF Forget, task, consultation, history
<1>24. CASE Stop  BY <1>24, Zenon DEF Stop, consultation
<1>25. CASE Tick  BY <1>25, Zenon DEF Tick, task, consultation, history
<1>26. CASE UNCHANGED vars  BY <1>26, Zenon DEF vars, task, consultation, history
<1> QED
  BY <1>1, <1>2, <1>3, <1>4, <1>5, <1>6, <1>7, <1>8, <1>9, <1>10, <1>11, <1>12, <1>13,
     <1>14, <1>15, <1>16, <1>17, <1>18, <1>19, <1>20, <1>21, <1>22, <1>23, <1>24, <1>25,
     <1>26, Zenon DEF Next, Supervise

LEMMA EntryAdded ==
  ASSUME Board, size < MaxEntries, NEW k \in Kind, AddEntry(k)
  PROVE  /\ size' = size + 1 /\ size' \in 0..MaxEntries
         /\ kind' \in [1..MaxEntries -> Kind] /\ kind'[size'] = k
         /\ \A n \in 1..size : kind'[n] = kind[n]
         /\ told' = told \union {size'} /\ told' \subseteq 1..size'
<1>1. size + 1 \in 1..MaxEntries
  BY ConstantTypes DEF Board
<1>2. kind' \in [1..MaxEntries -> Kind]
  BY <1>1 DEF Board, AddEntry
<1> QED  BY <1>1, <1>2, ConstantTypes DEF Board, AddEntry

LEMMA KindsKnown == Published \subseteq Kind /\ "qa" \in Kind /\ "supervisor_advice" \in Kind
BY ConstantTypes DEF Kind

\* Every entry has room, next to the advice that was decided on.
LEMMA RoomLeft ==
  ASSUME Board, Room
  PROVE  size < MaxEntries /\ (job = "publish" => size + 1 < MaxEntries)
<1>1. size + (IF job = "publish" THEN 1 ELSE 0) < MaxEntries
  BY Zenon DEF Room
<1> QED  BY <1>1, ConstantTypes DEF Board

\* The record of the job.
LEMMA HeldIsRecord ==
  ASSUME TypeInv, job # "none"
  PROVE  held \in RecordId /\ Pending \in Record
BY ConstantTypes, TypeParts DEF Jobs, RecordId, Pending

\* A second passes: ages grow up to the interval, timers run down to 0.
LEMMA AgesGrow ==
  ASSUME Board, Tick
  PROVE  age' \in [1..MaxEntries -> 0..Interval]
<1>1. \A n \in 1..MaxEntries : age[n] + 1 \in Nat /\ age[n] \in Nat
  BY ConstantTypes DEF Board
<1>2. \A n \in 1..MaxEntries : Smaller(age[n] + 1, Interval) \in 0..Interval
  BY <1>1, ConstantTypes DEF Smaller
<1>3. age' = [n \in 1..MaxEntries |->
               IF n \in Advice(size) THEN Smaller(age[n] + 1, Interval) ELSE 0]
  BY DEF Tick
<1>4. 0 \in 0..Interval
  BY ConstantTypes
<1> QED  BY <1>2, <1>3, <1>4

LEMMA TimersRun ==
  ASSUME NEW m \in Nat, NEW t \in 0..m
  PROVE  Minus1(t) \in 0..m
BY DEF Minus1

LEMMA LongestWait == Larger(Silence, Never) \in Nat
BY ConstantTypes DEF Larger

LEMMA BoardKept ==
  ASSUME Board, job = "publish" => size < MaxEntries, [Next]_vars
  PROVE  Board'
<1> USE DEF Board, board, task, changes, records, jobState, consultation, stopping, history
<1>1. ASSUME NEW k \in Published, Publish(k) PROVE Board'
  BY <1>1, EntryAdded, RoomLeft, KindsKnown DEF Publish
<1>2. CASE Answer
  BY <1>2, EntryAdded, RoomLeft, KindsKnown DEF Answer
<1>3. CASE SetAnswered
  BY <1>3 DEF SetAnswered
<1>4. CASE Report
  BY <1>4 DEF Report
<1>5. ASSUME NEW n \in 1..MaxEntries, Check(n) PROVE Board'
  BY <1>5 DEF Check
<1>6. ASSUME NEW n \in 1..MaxEntries, Note(n) PROVE Board'
  BY <1>6 DEF Note
<1>7. CASE Loop
  BY <1>7 DEF Loop, WaitFor, Take
<1>8. CASE Wake
  BY <1>8 DEF Wake
<1>9. CASE Settle
  BY <1>9 DEF Settle, Take
<1>10. CASE SilenceCheck
  BY <1>10 DEF SilenceCheck
<1>11. CASE Read
  BY <1>11 DEF Read, Return, Leave
<1>12. CASE Resolve
  BY <1>12 DEF Resolve, Job
<1>13. CASE Unresolved
  BY <1>13 DEF Unresolved, Job, Leave
<1>14. CASE SyncTask
  BY <1>14 DEF SyncTask, Job
<1>15. CASE SyncEntries
  BY <1>15 DEF SyncEntries, Job
<1>16. CASE ModelFails
  BY <1>16 DEF ModelFails, Return, Leave
<1>17. CASE ModelDecides
  BY <1>17 DEF ModelDecides
<1>18. CASE PublishAdvice
  BY <1>18, EntryAdded, KindsKnown DEF PublishAdvice, Job
<1>19. CASE AskUser
  BY <1>19 DEF AskUser, Job
<1>20. CASE SetWaiting
  BY <1>20 DEF SetWaiting, Job
<1>21. CASE Finish
  BY <1>21 DEF Finish, Return, Leave
<1>22. CASE Cancel
  BY <1>22 DEF Cancel, Leave
<1>23. CASE Forget
  BY <1>23 DEF Forget
<1>24. CASE Stop
  BY <1>24 DEF Stop
<1>25. CASE Tick
  BY <1>25, AgesGrow DEF Tick
<1>26. CASE UNCHANGED vars
  BY <1>26 DEF vars
<1> QED
  BY <1>1, <1>2, <1>3, <1>4, <1>5, <1>6, <1>7, <1>8, <1>9, <1>10, <1>11, <1>12, <1>13, <1>14, <1>15, <1>16, <1>17, <1>18, <1>19, <1>20, <1>21, <1>22, <1>23, <1>24, <1>25, <1>26,
     Zenon DEF Next, Supervise

LEMMA JobsKept ==
  ASSUME Jobs, RecordsInv, job # "none" => ReadyIn(Pending) \in 0..Never, [Next]_vars
  PROVE  Jobs'
<1> USE ConstantTypes DEF Jobs, RecordId, Waiting, Consulting,
      board, task, changes, records, jobState, consultation, stopping, history
<1>1. ASSUME NEW k \in Published, Publish(k) PROVE Jobs'
  BY <1>1 DEF Publish
<1>2. CASE Answer
  BY <1>2 DEF Answer
<1>3. CASE SetAnswered
  BY <1>3 DEF SetAnswered
<1>4. CASE Report
  BY <1>4 DEF Report
<1>5. ASSUME NEW n \in 1..MaxEntries, Check(n) PROVE Jobs'
  BY <1>5 DEF Check
<1>6. ASSUME NEW n \in 1..MaxEntries, Note(n) PROVE Jobs'
  BY <1>6 DEF Note, RecordsInv, Larger
<1>7. CASE Loop
  BY <1>7 DEF Loop, WaitFor, Take, Larger
<1>8. CASE Wake
  BY <1>8 DEF Wake, Larger
<1>9. CASE Settle
  BY <1>9 DEF Settle, Take, Larger
<1>10. CASE SilenceCheck
  BY <1>10 DEF SilenceCheck
<1>11. CASE Read
  BY <1>11 DEF Read, Return, Leave
<1>12. CASE Resolve
  BY <1>12 DEF Resolve, Job
<1>13. CASE Unresolved
  BY <1>13 DEF Unresolved, Job, Leave
<1>14. CASE SyncTask
  BY <1>14 DEF SyncTask, Job
<1>15. CASE SyncEntries
  BY <1>15 DEF SyncEntries, Job
<1>16. CASE ModelFails
  BY <1>16 DEF ModelFails, Return, Leave
<1>17. CASE ModelDecides
  BY <1>17 DEF ModelDecides
<1>18. CASE PublishAdvice
  BY <1>18 DEF PublishAdvice, Job
<1>19. CASE AskUser
  BY <1>19 DEF AskUser, Job
<1>20. CASE SetWaiting
  BY <1>20 DEF SetWaiting, Job
<1>21. CASE Finish
  BY <1>21 DEF Finish, Return, Leave
<1>22. CASE Cancel
  BY <1>22 DEF Cancel, Leave, Larger
<1>23. CASE Forget
  BY <1>23 DEF Forget
<1>24. CASE Stop
  BY <1>24 DEF Stop
<1>25. CASE Tick
  BY <1>25, TimersRun, LongestWait DEF Tick
<1>26. CASE UNCHANGED vars
  BY <1>26 DEF vars
<1> QED
  BY <1>1, <1>2, <1>3, <1>4, <1>5, <1>6, <1>7, <1>8, <1>9, <1>10, <1>11, <1>12, <1>13, <1>14, <1>15, <1>16, <1>17, <1>18, <1>19, <1>20, <1>21, <1>22, <1>23, <1>24, <1>25, <1>26,
     Zenon DEF Next, Supervise

LEMMA MarksKept ==
  ASSUME Board, Marks, Task, job # "none" => Pending.latest \in 0..size, [Next]_vars
  PROVE  Marks'
<1> USE ConstantTypes DEF Marks, board, task, changes, records, jobState, consultation, stopping, history
<1>1. ASSUME NEW k \in Published, Publish(k) PROVE Marks'
  BY <1>1 DEF Publish, AddEntry, Board
<1>2. CASE Answer
  BY <1>2 DEF Answer, AddEntry, Board
<1>3. CASE SetAnswered
  BY <1>3 DEF SetAnswered
<1>4. CASE Report
  BY <1>4 DEF Report
<1>5. ASSUME NEW n \in 1..MaxEntries, Check(n) PROVE Marks'
  BY <1>5 DEF Check
<1>6. ASSUME NEW n \in 1..MaxEntries, Note(n) PROVE Marks'
  BY <1>6 DEF Note
<1>7. CASE Loop
  BY <1>7 DEF Loop, WaitFor, Take, Board
<1>8. CASE Wake
  BY <1>8 DEF Wake
<1>9. CASE Settle
  BY <1>9 DEF Settle, Take, Board
<1>10. CASE SilenceCheck
  BY <1>10 DEF SilenceCheck, Board
<1>11. CASE Read
  BY <1>11 DEF Read, Return, Leave, Board
<1>12. CASE Resolve
  BY <1>12 DEF Resolve, Job
<1>13. CASE Unresolved
  BY <1>13 DEF Unresolved, Job, Leave, Board
<1>14. CASE SyncTask
  BY <1>14 DEF SyncTask, Job, Board
<1>15. CASE SyncEntries
  BY <1>15 DEF SyncEntries, Job, Board, Larger, Smaller
<1>16. CASE ModelFails
  BY <1>16 DEF ModelFails, Return, Leave, Board
<1>17. CASE ModelDecides
  BY <1>17 DEF ModelDecides
<1>18. CASE PublishAdvice
  BY <1>18 DEF PublishAdvice, Job, AddEntry, Board
<1>19. CASE AskUser
  BY <1>19 DEF AskUser, Job
<1>20. CASE SetWaiting
  BY <1>20 DEF SetWaiting, Job
<1>21. CASE Finish
  BY <1>21 DEF Finish, Return, Leave, Board
<1>22. CASE Cancel
  BY <1>22 DEF Cancel, Leave, Board
<1>23. CASE Forget
  BY <1>23 DEF Forget, Board
<1>24. CASE Stop
  BY <1>24 DEF Stop
<1>25. CASE Tick
  BY <1>25 DEF Tick
<1>26. CASE UNCHANGED vars
  BY <1>26 DEF vars
<1> QED
  BY <1>1, <1>2, <1>3, <1>4, <1>5, <1>6, <1>7, <1>8, <1>9, <1>10, <1>11, <1>12, <1>13, <1>14, <1>15, <1>16, <1>17, <1>18, <1>19, <1>20, <1>21, <1>22, <1>23, <1>24, <1>25, <1>26,
     Zenon DEF Next, Supervise

LEMMA TaskKept ==
  ASSUME Board, Task, [Next]_vars
  PROVE  Task'
<1> USE ConstantTypes DEF Task, RoomInv, board, task, changes, records, jobState, consultation, stopping, history
<1>1. ASSUME NEW k \in Published, Publish(k) PROVE Task'
  BY <1>1, EntryAdded, RoomLeft, KindsKnown DEF Publish
<1>2. CASE Answer
  BY <1>2, EntryAdded, RoomLeft, KindsKnown DEF Answer
<1>3. CASE SetAnswered
  BY <1>3 DEF SetAnswered
<1>4. CASE Report
  BY <1>4 DEF Report
<1>5. ASSUME NEW n \in 1..MaxEntries, Check(n) PROVE Task'
  BY <1>5 DEF Check
<1>6. ASSUME NEW n \in 1..MaxEntries, Note(n) PROVE Task'
  BY <1>6 DEF Note
<1>7. CASE Loop
  BY <1>7 DEF Loop, WaitFor, Take
<1>8. CASE Wake
  BY <1>8 DEF Wake
<1>9. CASE Settle
  BY <1>9 DEF Settle, Take
<1>10. CASE SilenceCheck
  BY <1>10 DEF SilenceCheck
<1>11. CASE Read
  BY <1>11 DEF Read, Return, Leave
<1>12. CASE Resolve
  BY <1>12 DEF Resolve, Job
<1>13. CASE Unresolved
  BY <1>13 DEF Unresolved, Job, Leave
<1>14. CASE SyncTask
  BY <1>14 DEF SyncTask, Job
<1>15. CASE SyncEntries
  BY <1>15 DEF SyncEntries, Job
<1>16. CASE ModelFails
  BY <1>16 DEF ModelFails, Return, Leave
<1>17. CASE ModelDecides
  BY <1>17 DEF ModelDecides
<1>18. CASE PublishAdvice
  BY <1>18, EntryAdded, KindsKnown DEF PublishAdvice, Job
<1>19. CASE AskUser
  BY <1>19 DEF AskUser, Job
<1>20. CASE SetWaiting
  BY <1>20 DEF SetWaiting, Job
<1>21. CASE Finish
  BY <1>21 DEF Finish, Return, Leave
<1>22. CASE Cancel
  BY <1>22 DEF Cancel, Leave
<1>23. CASE Forget
  BY <1>23 DEF Forget
<1>24. CASE Stop
  BY <1>24 DEF Stop
<1>25. CASE Tick
  BY <1>25 DEF Tick, Waiting, Consulting
<1>26. CASE UNCHANGED vars
  BY <1>26 DEF vars
<1> QED
  BY <1>1, <1>2, <1>3, <1>4, <1>5, <1>6, <1>7, <1>8, <1>9, <1>10, <1>11, <1>12, <1>13, <1>14, <1>15, <1>16, <1>17, <1>18, <1>19, <1>20, <1>21, <1>22, <1>23, <1>24, <1>25, <1>26,
     Zenon DEF Next, Supervise

-------------------------------------------------------------------------------
\* What the records hold exists, and there are no more of them than stops allow.
Held ==
  /\ rec \in [RecordId -> Record]
  /\ \A g \in RecordId : rec[g].latest <= size

Made ==
  made + (IF registry = 0 THEN 1 ELSE 0) + (IF stopper = "gather" THEN 1 ELSE 0)
    <= stops + 1

LEMMA RecordReplaced ==
  ASSUME Held, Board, NEW g \in RecordId, NEW r \in Record, r.latest <= size,
         rec' = [rec EXCEPT ![g] = r], size' = size
  PROVE  Held'
BY DEF Held

LEMMA NumberNoted ==
  ASSUME Board, NEW r \in Record, r.latest <= size, NEW n \in 1..size
  PROVE  Noted(r, n) \in Record /\ Noted(r, n).latest <= size
<1>1. n \in 0..MaxEntries /\ n <= size
  BY ConstantTypes DEF Board
<1>2. Noted(r, n) \in Record /\ Noted(r, n).latest = Larger(r.latest, n)
  BY <1>1, RecordTypes, RecordValues, Zenon
<1> QED  BY <1>1, <1>2, RecordFields DEF Larger

\* Every update of the job's own record.
LEMMA HeldReplaced ==
  ASSUME Held, Board, held \in RecordId, size' = size,
         \/ rec' = rec
         \/ rec' = [rec EXCEPT ![held].event = FALSE]
         \/ rec' = [rec EXCEPT ![held] = Settled(Pending)]
  PROVE  Held'
<1>1. Pending \in Record /\ Pending = rec[held] /\ Pending.latest <= size
  BY DEF Held, Pending
<1>2. /\ Settled(Pending) \in Record /\ Settled(Pending).latest <= size
      /\ [Pending EXCEPT !.event = FALSE] \in Record
      /\ [Pending EXCEPT !.event = FALSE].latest <= size
  <2>1. /\ Settled(Pending) \in Record /\ Settled(Pending).latest = 0
        /\ [Pending EXCEPT !.event = FALSE] \in Record
        /\ [Pending EXCEPT !.event = FALSE].latest = Pending.latest
    BY <1>1, RecordTypes, RecordValues, Zenon
  <2> QED  BY <1>1, <2>1 DEF Board
<1>3. CASE rec' = rec
  BY <1>3 DEF Held
<1>4. CASE rec' = [rec EXCEPT ![held].event = FALSE]
  <2>1. rec' = [rec EXCEPT ![held] = [Pending EXCEPT !.event = FALSE]]
    BY <1>4, Zenon DEF Pending
  <2> QED  BY <1>2, <2>1, RecordReplaced
<1>5. CASE rec' = [rec EXCEPT ![held] = Settled(Pending)]
  BY <1>2, <1>5, RecordReplaced
<1> QED  BY <1>3, <1>4, <1>5

LEMMA TimeKeepsRecords ==
  ASSUME Held, Board, Tick
  PROVE  Held'
<1> DEFINE q(g) == Minus1(rec[g].quiet)
           i(g) == IF rec[g].intel = Never THEN Never ELSE Minus1(rec[g].intel)
<1>1. rec' = [g \in RecordId |-> [rec[g] EXCEPT !.quiet = q(g), !.intel = i(g)]]
  BY Zenon DEF Tick
<1>2. ASSUME NEW g \in RecordId
      PROVE  /\ [rec[g] EXCEPT !.quiet = q(g), !.intel = i(g)] \in Record
             /\ [rec[g] EXCEPT !.quiet = q(g), !.intel = i(g)].latest = rec[g].latest
  <2>1. rec[g] \in Record
    BY DEF Held
  <2>2. /\ rec[g].quiet \in 0..Debounce /\ rec[g].intel \in Instant
        /\ rec[g].latest \in 0..MaxEntries /\ rec[g].event \in BOOLEAN
        /\ rec[g].immediate \in BOOLEAN
    BY <2>1, RecordFields
  <2>3. q(g) \in 0..Debounce /\ i(g) \in Instant
    BY <2>2, ConstantTypes DEF Minus1, Instant
  <2>4. [rec[g] EXCEPT !.quiet = q(g), !.intel = i(g)] \in Record
    <3> HIDE DEF q, i
    <3> QED  BY <2>1, <2>2, <2>3, Updates, Zenon
  <2>5. [rec[g] EXCEPT !.quiet = q(g), !.intel = i(g)].latest = rec[g].latest
    <3> HIDE DEF q, i
    <3> QED  BY <2>1 DEF Record
  <2> QED  BY <2>4, <2>5
<1>3. size' = size
  BY DEF Tick
<1> HIDE DEF q, i
<1> QED  BY <1>1, <1>2, <1>3 DEF Held

\* What no step of the others changes.
LEMMA RecordsUntouched ==
  ASSUME Held, Board, rec' = rec, size' \in Nat, size' >= size
  PROVE  Held'
<1>1. \A g \in RecordId : rec[g].latest \in Nat
  BY RecordFields DEF Held
<1> QED  BY <1>1, ConstantTypes DEF Held, Board

LEMMA RecordsKept ==
  ASSUME Held, Board, Jobs, Made, [Next]_vars
  PROVE  Held'
<1> USE DEF board, task, changes, records, jobState, consultation, stopping, history
<1>0. job # "none" => held \in RecordId
  BY ConstantTypes DEF Jobs, RecordId
<1>1. ASSUME NEW n \in 1..MaxEntries, Note(n) PROVE Held'
  <2>1. size' = size /\ n \in 1..size
    BY <1>1 DEF Note, Board
  <2>2. CASE UNCHANGED rec
    BY <2>1, <2>2, RecordsUntouched DEF Board
  <2>3. CASE kind[n] # "supervisor_advice"
    <3> DEFINE g == IF registry = 0 THEN made + 1 ELSE registry
    <3>1. rec' = [rec EXCEPT ![g] = Noted(rec[g], n)] /\ made' = Larger(made, g)
      BY <1>1, <2>3 DEF Note
    <3>2. g \in RecordId
      BY ConstantTypes, <1>1, <2>3 DEF Jobs, Made, RecordId
    <3>3. rec[g] \in Record /\ rec[g].latest <= size
      BY <3>2 DEF Held
    <3>4. Noted(rec[g], n) \in Record /\ Noted(rec[g], n).latest <= size
      BY <2>1, <3>3, NumberNoted
    <3> HIDE DEF g
    <3> QED  BY <2>1, <3>1, <3>2, <3>4, RecordReplaced
  <2> QED  BY <1>1, <2>2, <2>3 DEF Note
<1>2. CASE Loop  BY <1>0, <1>2, HeldReplaced DEF Loop, WaitFor, Take
<1>3. CASE Settle  BY <1>0, <1>3, HeldReplaced DEF Settle, Take
<1>4. CASE Read  BY <1>0, <1>4, HeldReplaced DEF Read, Return
<1>5. CASE ModelFails  BY <1>0, <1>5, HeldReplaced DEF ModelFails, Return
<1>6. CASE Finish  BY <1>0, <1>6, HeldReplaced DEF Finish, Return
<1>7. CASE Tick  BY <1>7, TimeKeepsRecords
<1>8. ASSUME (\E k \in Published : Publish(k)) \/ Answer \/ PublishAdvice PROVE Held'
  <2>1. size' = size + 1 /\ rec' = rec
    BY <1>8 DEF Publish, Answer, PublishAdvice, AddEntry
  <2> QED  BY <2>1, RecordsUntouched DEF Board
<1>9. ASSUME size' = size, rec' = rec PROVE Held'
  BY <1>9, RecordsUntouched DEF Board
<1>10. ASSUME NEW n \in 1..MaxEntries, Check(n) PROVE Held'
  BY <1>9, <1>10 DEF Check
<1>11. CASE SetAnswered \/ Report  BY <1>9, <1>11 DEF SetAnswered, Report
<1>12. CASE Wake \/ SilenceCheck  BY <1>9, <1>12 DEF Wake, SilenceCheck
<1>13. CASE Resolve \/ Unresolved  BY <1>9, <1>13 DEF Resolve, Unresolved
<1>14. CASE SyncTask \/ SyncEntries  BY <1>9, <1>14 DEF SyncTask, SyncEntries
<1>15. CASE ModelDecides \/ AskUser \/ SetWaiting
  BY <1>9, <1>15 DEF ModelDecides, AskUser, SetWaiting
<1>16. CASE Cancel \/ Forget \/ Stop  BY <1>9, <1>16 DEF Cancel, Forget, Stop
<1>17. CASE UNCHANGED vars  BY <1>9, <1>17 DEF vars
<1> QED
  BY <1>1, <1>2, <1>3, <1>4, <1>5, <1>6, <1>7, <1>8, <1>10, <1>11, <1>12, <1>13, <1>14,
     <1>15, <1>16, <1>17, Zenon DEF Next, Supervise

LEMMA MadeKept ==
  ASSUME Made, Jobs, [Next]_vars
  PROVE  Made'
<1> USE DEF Made, records, stopping
<1>1. ASSUME UNCHANGED <<made, registry, stopper, stops>> PROVE Made'
  BY <1>1
<1>2. ASSUME NEW n \in 1..MaxEntries, Note(n) PROVE Made'
  BY <1>2, ConstantTypes DEF Note, Jobs, Larger
<1>3. CASE Cancel  BY <1>3, ConstantTypes DEF Cancel, Jobs
<1>4. CASE Forget  BY <1>4, ConstantTypes DEF Forget, Jobs
<1>5. CASE Stop  BY <1>5, ConstantTypes DEF Stop, Jobs
<1>6. ASSUME NEW k \in Published, Publish(k) PROVE Made'
  BY <1>1, <1>6 DEF Publish
<1>7. ASSUME NEW n \in 1..MaxEntries, Check(n) PROVE Made'
  BY <1>1, <1>7 DEF Check
<1>8. CASE Answer \/ SetAnswered \/ Report
  BY <1>1, <1>8 DEF Answer, SetAnswered, Report
<1>9. CASE Loop \/ Wake \/ Settle \/ SilenceCheck
  BY <1>1, <1>9 DEF Loop, Wake, Settle, SilenceCheck
<1>10. CASE Read \/ Resolve \/ Unresolved \/ SyncTask \/ SyncEntries
  BY <1>1, <1>10 DEF Read, Resolve, Unresolved, SyncTask, SyncEntries
<1>11. CASE ModelFails \/ ModelDecides \/ Finish
  BY <1>1, <1>11 DEF ModelFails, ModelDecides, Finish
<1>12. CASE PublishAdvice \/ AskUser \/ SetWaiting
  BY <1>1, <1>12 DEF PublishAdvice, AskUser, SetWaiting
<1>13. CASE Tick  BY <1>1, <1>13 DEF Tick
<1>14. CASE UNCHANGED vars  BY <1>1, <1>14 DEF vars
<1> QED
  BY <1>2, <1>3, <1>4, <1>5, <1>6, <1>7, <1>8, <1>9, <1>10, <1>11, <1>12, <1>13, <1>14,
     Zenon DEF Next, Supervise

LEMMA TypeKept == TypeInv /\ [Next]_vars => TypeInv'
<1> SUFFICES ASSUME TypeInv, [Next]_vars PROVE TypeInv'  OBVIOUS
<1>1. Flags /\ Board /\ Jobs /\ Marks /\ Task /\ Held /\ Made /\ RecordsInv
  BY TypeParts, Zenon DEF Held, Made, RecordsInv
<1>2. job # "none" => Pending.latest \in 0..size /\ ReadyIn(Pending) \in 0..Never
  <2> SUFFICES ASSUME job # "none"
               PROVE  Pending.latest \in 0..size /\ ReadyIn(Pending) \in 0..Never
    OBVIOUS
  <2>1. held \in RecordId /\ Pending \in Record
    BY HeldIsRecord
  <2>2. Pending.latest <= size
    BY <1>1, <2>1 DEF Held, Pending
  <2> QED  BY <1>1, <2>1, <2>2, RecordFields, ReadyInType DEF Board
<1>3. job = "publish" => size < MaxEntries
  BY <1>1 DEF Task, RoomInv
<1>4. Flags' /\ Board' /\ Jobs' /\ Marks' /\ Task' /\ Held' /\ Made'
  BY <1>1, <1>2, <1>3, FlagsKept, BoardKept, JobsKept, MarksKept, TaskKept, RecordsKept,
     MadeKept
<1>5. RecordsInv'
  BY <1>4 DEF RecordsInv, Held, Made, Jobs
<1> QED  BY <1>4, <1>5, TypeParts, PTL DEF Held

\* Every variable keeps its type, and every bound holds.
THEOREM TypeCorrect == Spec => []TypeOK
<1>1. TypeInv => TypeOK  BY DEF TypeInv
<1> QED  BY <1>1, InitTyped, TypeKept, PTL DEF Spec

-------------------------------------------------------------------------------
\* Nothing that is due waits. A wait lasts no longer than the record allows when it
\* begins, a change that allows less sets the event, and both run down together.

LEMMA DueKept == TypeInv /\ DueIsTaken /\ [Next]_vars => DueIsTaken'
<1> SUFFICES ASSUME TypeInv, DueIsTaken, [Next]_vars PROVE DueIsTaken'  OBVIOUS
<1>0. /\ Jobs /\ Board /\ rec \in [RecordId -> Record]
      /\ job # "none" => held \in RecordId /\ Pending \in Record
  BY HeldIsRecord, TypeParts
<1> USE DEF board, task, changes, records, jobState, consultation, stopping, history
<1>1. ASSUME UNCHANGED <<rec, held, job, timer>> PROVE DueIsTaken'
  BY <1>1 DEF DueIsTaken, Pending
<1>2. ASSUME job' \notin Waiting PROVE DueIsTaken'
  BY <1>2 DEF DueIsTaken
<1>3. ASSUME NEW n \in 1..MaxEntries, Note(n) PROVE DueIsTaken'
  <2>1. CASE UNCHANGED <<rec, job, held>>
    BY <1>1, <1>3, <2>1 DEF Note
  <2>2. CASE job = "none"
    BY <1>2, <1>3, <2>2 DEF Note, Waiting
  <2>3. CASE kind[n] # "supervisor_advice" /\ job # "none"
    <3>1. PICK g \in Int : rec' = [rec EXCEPT ![g] = Noted(rec[g], n)]
      BY <1>0, <1>3, <2>3 DEF Note, Jobs
    <3>2. UNCHANGED <<job, held, timer>>
      BY <1>3, <2>3 DEF Note
    <3>3. CASE g = held
      <4>1. rec'[held] = Noted(rec[held], n) /\ rec[held] \in Record
        BY <1>0, <2>3, <3>1, <3>3 DEF Pending
      <4>2. n \in 0..MaxEntries
        BY ConstantTypes
      <4>3. rec'[held].event = TRUE
        BY <4>1, <4>2, RecordValues, Zenon
      <4> QED  BY <3>2, <4>3 DEF DueIsTaken, Pending
    <3>4. CASE g # held
      <4>1. rec'[held] = rec[held]
        BY <1>0, <2>3, <3>1, <3>4
      <4> QED  BY <3>2, <4>1 DEF DueIsTaken, Pending
    <3> QED  BY <3>3, <3>4
  <2> QED  BY <1>3, <2>1, <2>2, <2>3 DEF Note
<1>4. CASE Loop
  <2>1. CASE Take
    BY <1>2, <2>1 DEF Take, Waiting
  <2>2. CASE Pending.latest = 0 /\ WaitFor("idle", Silence)
    <3>1. rec'[held].latest = 0 /\ held' = held
      BY <1>0, <1>4, <2>2, RecordValues DEF WaitFor, Pending, Loop
    <3> QED  BY <3>1 DEF DueIsTaken, Pending
  <2>3. CASE WaitFor("debounce", ReadyIn(Pending))
    <3>1. rec'[held] = [Pending EXCEPT !.event = FALSE] /\ held' = held
      BY <1>0, <1>4, <2>3 DEF WaitFor, Pending, Loop
    <3>2. timer' = ReadyIn(Pending)
      BY <2>3 DEF WaitFor
    <3>3. /\ rec'[held].quiet = Pending.quiet /\ rec'[held].intel = Pending.intel
          /\ rec'[held].immediate = Pending.immediate
      BY <1>0, <1>4, <3>1, RecordValues, Zenon DEF Loop
    <3>4. timer' = IF rec'[held].immediate THEN 0
                   ELSE Smaller(rec'[held].quiet, rec'[held].intel)
      BY <3>2, <3>3, Zenon DEF ReadyIn
    <3>5. timer' \in Nat
      BY <1>0, <1>4, <3>2, ReadyInType, ConstantTypes DEF Loop
    <3>6. timer' <= IF rec'[held].immediate THEN 0
                    ELSE Smaller(rec'[held].quiet, rec'[held].intel)
      BY <3>4, <3>5
    <3> QED  BY <3>1, <3>6, Zenon DEF DueIsTaken, Pending
  <2> QED  BY <1>4, <2>1, <2>2, <2>3 DEF Loop
<1>5. CASE Tick
  <2> SUFFICES ASSUME (job \in Waiting /\ Pending.latest > 0)'
               PROVE  timer' <= (IF Pending.immediate THEN 0
                                 ELSE Smaller(Pending.quiet, Pending.intel))'
    BY DEF DueIsTaken
  <2>1. /\ UNCHANGED <<job, held>> /\ timer' = Minus1(timer) /\ ~Pending.event
        /\ held \in RecordId /\ job \in Waiting
    BY <1>0, <1>5 DEF Tick, Rested, Waiting
  <2>2. /\ Pending \in Record /\ Pending' \in Record
        /\ Pending'.latest = Pending.latest /\ Pending'.immediate = Pending.immediate
        /\ Pending'.quiet = Minus1(Pending.quiet)
        /\ Pending'.intel = IF Pending.intel = Never THEN Never ELSE Minus1(Pending.intel)
    <3> DEFINE q == Minus1(Pending.quiet)
               i == IF Pending.intel = Never THEN Never ELSE Minus1(Pending.intel)
    <3>1. Pending' = [Pending EXCEPT !.quiet = q, !.intel = i]
      BY <1>0, <1>5, <2>1 DEF Tick, Pending
    <3>2. Pending \in Record
      BY <1>0, <2>1, Zenon DEF Waiting
    <3>3. Pending.quiet \in 0..Debounce /\ Pending.intel \in Instant
      BY <3>2, RecordFields
    <3> HIDE DEF q, i
    <3>4. [Pending EXCEPT !.quiet = q, !.intel = i].latest = Pending.latest
          /\ [Pending EXCEPT !.quiet = q, !.intel = i].immediate = Pending.immediate
          /\ [Pending EXCEPT !.quiet = q, !.intel = i].quiet = q
          /\ [Pending EXCEPT !.quiet = q, !.intel = i].intel = i
      BY <3>2 DEF Record
    <3>5. TypeInv'
      BY TypeKept
    <3>6. rec' \in [RecordId -> Record]
      BY <3>5 DEF TypeInv, TypeOK
    <3>7. Pending' \in Record
      BY <2>1, <3>6 DEF Pending
    <3> QED  BY <3>1, <3>2, <3>4, <3>7 DEF q, i
  <2>3. Pending.quiet \in Nat /\ Pending.intel \in Nat /\ timer \in Nat
    BY <1>0, <2>2, RecordFields, ConstantTypes, LongestWait DEF Instant, Jobs
  <2>4. timer <= IF Pending.immediate THEN 0 ELSE Smaller(Pending.quiet, Pending.intel)
    BY <2>1, <2>2 DEF DueIsTaken
  <2> QED
    BY <2>1, <2>2, <2>3, <2>4, ConstantTypes DEF Minus1, Smaller
<1>6. ASSUME NEW k \in Published, Publish(k) PROVE DueIsTaken'
  BY <1>1, <1>6 DEF Publish
<1>7. ASSUME NEW n \in 1..MaxEntries, Check(n) PROVE DueIsTaken'
  BY <1>1, <1>7 DEF Check
<1>8. CASE Answer \/ SetAnswered \/ Report
  BY <1>1, <1>8 DEF Answer, SetAnswered, Report
<1>9. CASE Wake \/ Settle \/ SilenceCheck
  BY <1>2, <1>9 DEF Wake, Settle, SilenceCheck, Take, Waiting
<1>10. CASE Read \/ Resolve \/ Unresolved \/ SyncTask \/ SyncEntries
  BY <1>2, <1>10 DEF Read, Resolve, Unresolved, SyncTask, SyncEntries, Job, Return, Waiting
<1>11. CASE ModelFails \/ ModelDecides \/ Finish
  BY <1>2, <1>11 DEF ModelFails, ModelDecides, Finish, Return, Waiting
<1>12. CASE PublishAdvice \/ AskUser \/ SetWaiting
  BY <1>2, <1>12 DEF PublishAdvice, AskUser, SetWaiting, Job, Waiting
<1>13. CASE Cancel  BY <1>2, <1>13 DEF Cancel, Waiting
<1>14. CASE Forget \/ Stop  BY <1>1, <1>14 DEF Forget, Stop
<1>15. CASE UNCHANGED vars  BY <1>1, <1>15 DEF vars
<1> QED
  BY <1>3, <1>4, <1>5, <1>6, <1>7, <1>8, <1>9, <1>10, <1>11, <1>12, <1>13, <1>14, <1>15,
     Zenon DEF Next, Supervise

\* Whatever is published during a wait, and however long debounce and batch limit
\* are, the job of a record never waits beyond what the record allows
\* (host_agents.py:_supervise).
THEOREM NothingDueWaits == Spec => []DueIsTaken
<1>1. Init => DueIsTaken  BY DEF Init, DueIsTaken, Waiting
<1>2. TypeInv /\ DueIsTaken /\ [Next]_vars => (TypeInv /\ DueIsTaken)'
  BY TypeKept, DueKept
<1> QED  BY InitTyped, <1>1, <1>2, PTL DEF Spec

-------------------------------------------------------------------------------
\* No change is forgotten.

\* As long as the task was not stopped, the record of the job is the one that changed
\* finds; what counts as handled never falls behind what a consultation read.
HandoverInv ==
  /\ state = "ended" => over
  /\ stops = 0 => stopper = "idle"
  /\ stops = 0 /\ job # "none" => held = registry
  /\ job \notin Reviewing => snap = 0
  /\ job \in Reviewing => last <= snap

LEMMA HandoverKept == TypeInv /\ HandoverInv /\ [Next]_vars => HandoverInv'
<1> SUFFICES ASSUME TypeInv, HandoverInv, [Next]_vars PROVE HandoverInv'  OBVIOUS
<1>0. Jobs /\ Board /\ Marks
  BY TypeParts
<1> USE DEF HandoverInv, Reviewing, Consulting, board, task, changes, records, jobState,
        consultation, stopping, history
<1>1. ASSUME UNCHANGED <<state, over, stops, stopper, job, held, registry, snap, last>>
      PROVE  HandoverInv'
  BY <1>1
<1>2. ASSUME NEW k \in Published, Publish(k) PROVE HandoverInv'
  BY <1>1, <1>2 DEF Publish
<1>3. ASSUME NEW n \in 1..MaxEntries, Check(n) PROVE HandoverInv'
  BY <1>1, <1>3 DEF Check
<1>4. CASE Answer \/ Tick  BY <1>1, <1>4 DEF Answer, Tick
<1>5. CASE SetAnswered \/ Report  BY <1>5 DEF SetAnswered, Report
<1>6. ASSUME NEW n \in 1..MaxEntries, Note(n) PROVE HandoverInv'
  <2>1. CASE UNCHANGED <<records, job, held>>
    BY <1>1, <1>6, <2>1 DEF Note
  <2>2. CASE job = "none" /\ job' = "loop" /\ held' = registry'
    BY <1>6, <2>2 DEF Note
  <2>3. CASE job # "none" /\ UNCHANGED <<job, held>> /\ registry # 0 /\ registry' = registry
    BY <1>1, <1>6, <2>3 DEF Note
  <2>4. CASE job # "none" /\ UNCHANGED <<job, held>> /\ registry = 0
    BY <1>0, <1>6, <2>4 DEF Note, Jobs
  <2> QED  BY <1>6, <2>1, <2>2, <2>3, <2>4 DEF Note
<1>7. CASE Loop \/ Wake  BY <1>7 DEF Loop, Wake, WaitFor, Take, Waiting
<1>8. CASE Settle \/ SilenceCheck  BY <1>8 DEF Settle, SilenceCheck, Take
<1>9. CASE Read \/ Resolve \/ Unresolved
  BY <1>9 DEF Read, Resolve, Unresolved, Job, Return, Leave
<1>10. CASE SyncTask  BY <1>0, <1>10 DEF SyncTask, Job, Marks
<1>11. CASE SyncEntries \/ ModelDecides  BY <1>11 DEF SyncEntries, ModelDecides, Job
<1>12. CASE ModelFails \/ Finish  BY <1>12 DEF ModelFails, Finish, Return, Leave
<1>13. CASE PublishAdvice \/ AskUser \/ SetWaiting
  BY <1>13 DEF PublishAdvice, AskUser, SetWaiting, Job
<1>14. CASE Cancel  BY <1>0, <1>14 DEF Cancel, Leave, Jobs
<1>15. CASE Forget  BY <1>0, <1>15 DEF Forget, Jobs, Marks
<1>16. CASE Stop  BY <1>16 DEF Stop
<1>17. CASE UNCHANGED vars  BY <1>1, <1>17 DEF vars
<1> QED
  BY <1>2, <1>3, <1>4, <1>5, <1>6, <1>7, <1>8, <1>9, <1>10, <1>11, <1>12, <1>13, <1>14,
     <1>15, <1>16, <1>17, Zenon DEF Next, Supervise

\* What does not disturb where an entry is.
LEMMA StillOnItsWay ==
  ASSUME NEW n, OnItsWay(n), UNCHANGED <<told, checked, rec, held, trigger, snap>>,
         \/ job' = job
         \/ job \in {"loop"} \union Waiting /\ job' \in {"loop"} \union Waiting
         \/ job \in {"read", "resolve"} /\ job' \in {"resolve", "sync"}
         \/ job \in Reviewing /\ job' \in Reviewing
  PROVE  OnItsWay(n)'
BY DEF OnItsWay, Reviewing, Consulting, Waiting

LEMMA ForgottenKept ==
  TypeInv /\ HandoverInv /\ NoChangeForgotten /\ [Next]_vars => NoChangeForgotten'
<1> SUFFICES ASSUME TypeInv, HandoverInv, NoChangeForgotten, [Next]_vars,
                    (stops = 0 /\ ~lost /\ ~over)',
                    NEW n \in Relevant'
             PROVE  (n <= last \/ OnItsWay(n))'
  BY Zenon DEF NoChangeForgotten
<1>0. /\ Jobs /\ Board /\ Marks /\ rec \in [RecordId -> Record]
      /\ Board' /\ Jobs'
      /\ \A g \in RecordId : rec[g].latest \in 0..size
      /\ job # "none" => held \in RecordId
  <2>1. Board' /\ Jobs'
    BY TypeKept, TypeParts, PTL
  <2>2. rec \in [RecordId -> Record] /\ \A g \in RecordId : rec[g].latest <= size
    BY DEF TypeInv, TypeOK, RecordsInv
  <2>3. Jobs /\ Board /\ Marks
    BY TypeParts
  <2>4. ASSUME NEW g \in RecordId PROVE rec[g].latest \in 0..size
    <3>1. rec[g] \in Record
      BY <2>2
    <3>2. rec[g].latest \in 0..MaxEntries /\ rec[g].latest <= size
      BY <2>2, <3>1, RecordFields
    <3>3. size \in Nat
      BY <2>3, ConstantTypes DEF Board
    <3> QED  BY <3>2, <3>3, ConstantTypes
  <2>5. job # "none" => held \in RecordId
    BY HeldIsRecord
  <2> QED  BY <2>1, <2>2, <2>3, <2>4, <2>5
<1>1. HandoverInv'
  BY HandoverKept, TypeKept
<1> USE DEF board, task, changes, records, jobState, consultation, stopping, history
<1>2. n \in 1..size' /\ kind'[n] # "supervisor_advice" /\ n \in Nat \ {0}
  BY <1>0 DEF Relevant, Board
\* The three histories only grow.
<1>3. stops = 0 /\ ~lost /\ ~over /\ n \in Relevant => n <= last \/ OnItsWay(n)
  BY Zenon DEF NoChangeForgotten
<1>4. ASSUME UNCHANGED <<size, kind, stops, lost, over>> 
      PROVE  n \in 1..size /\ kind[n] # "supervisor_advice" /\ (n <= last \/ OnItsWay(n))
  BY <1>2, <1>3, <1>4 DEF Relevant
<1>5. ASSUME UNCHANGED <<size, kind, stops, lost, over>>, UNCHANGED <<told, checked, rec,
             held, trigger, snap, last>>,
             \/ job' = job
             \/ job \in {"loop"} \union Waiting /\ job' \in {"loop"} \union Waiting
             \/ job \in {"read", "resolve"} /\ job' \in {"resolve", "sync"}
             \/ job \in Reviewing /\ job' \in Reviewing
      PROVE  (n <= last \/ OnItsWay(n))'
  BY <1>4, <1>5, StillOnItsWay
<1>6. ASSUME size < MaxEntries, NEW k \in Kind, AddEntry(k),
             UNCHANGED <<stops, lost, over, checked, rec, held, trigger, snap, last>>,
             job' = job \/ (job \in Reviewing /\ job' \in Reviewing)
      PROVE  (n <= last \/ OnItsWay(n))'
  <2>1. /\ size' = size + 1 /\ \A m \in 1..size : kind'[m] = kind[m]
        /\ told' = told \union {size'}
    BY <1>0, <1>6, EntryAdded
  <2>2. CASE n = size'
    BY <2>1, <2>2 DEF OnItsWay
  <2>3. CASE n # size'
    <3>1. n \in Relevant
      BY <1>0, <1>2, <2>1, <2>3 DEF Relevant, Board
    <3>2. n <= last \/ OnItsWay(n)
      BY <1>3, <1>6, <3>1
    <3> QED  BY <1>6, <2>1, <3>2 DEF OnItsWay, Reviewing, Consulting
  <2> QED  BY <2>2, <2>3
<1>7. ASSUME NEW k \in Published, Publish(k) PROVE (n <= last \/ OnItsWay(n))'
  <2>1. size < MaxEntries /\ k \in Kind
    BY <1>0, <1>7, RoomLeft, KindsKnown DEF Publish
  <2>2. /\ AddEntry(k) /\ job' = job
        /\ UNCHANGED <<stops, lost, over, checked, rec, held, trigger, snap, last>>
    BY <1>7 DEF Publish
  <2> QED  BY <1>6, <2>1, <2>2, Zenon
<1>8. CASE Answer
  <2>1. size < MaxEntries /\ "qa" \in Kind
    BY <1>0, <1>8, RoomLeft, KindsKnown DEF Answer
  <2>2. /\ AddEntry("qa") /\ job' = job
        /\ UNCHANGED <<stops, lost, over, checked, rec, held, trigger, snap, last>>
    BY <1>8 DEF Answer
  <2> QED  BY <1>6, <2>1, <2>2, Zenon
<1>9. CASE PublishAdvice
  <2>1. size < MaxEntries
    BY <1>9, TypeParts DEF PublishAdvice, Job, Task, RoomInv
  <2> QED  BY <1>6, <1>9, <2>1, KindsKnown DEF PublishAdvice, Job, Reviewing, Consulting
<1>10. ASSUME NEW m \in 1..MaxEntries, Check(m) PROVE (n <= last \/ OnItsWay(n))'
  <2>1. state # "ended"
    BY <1>10, <1>1 DEF Check, HandoverInv
  <2> QED  BY <1>4, <1>10, <2>1 DEF Check, OnItsWay
<1>11. ASSUME NEW m \in 1..MaxEntries, Note(m) PROVE (n <= last \/ OnItsWay(n))'
  <2>1. n \in 1..size /\ kind[n] # "supervisor_advice" /\ (n <= last \/ OnItsWay(n))
    BY <1>4, <1>11 DEF Note
  <2>2. CASE kind[m] = "supervisor_advice" /\ UNCHANGED <<records, job, held>>
    BY <1>11, <2>1, <2>2 DEF Note, OnItsWay
  <2>3. CASE kind[m] # "supervisor_advice"
    <3> DEFINE g == IF registry = 0 THEN made + 1 ELSE registry
    <3>1. /\ rec' = [rec EXCEPT ![g] = Noted(rec[g], m)]
          /\ IF job = "none" THEN job' = "loop" /\ held' = g ELSE UNCHANGED <<job, held>>
      BY <1>11, <2>3 DEF Note
    <3>2. held' = g /\ job' # "none"
      BY <1>0, <1>1, <1>11, <3>1 DEF HandoverInv, Jobs, Note
    <3>3. g \in RecordId
      BY <1>0, <3>2, ConstantTypes, <3>1 DEF Jobs, RecordId
    <3>4. rec'[held'].latest = Larger(rec[g].latest, m) /\ rec[g].latest \in Nat
      <4>1. rec[g] \in Record /\ m \in 0..MaxEntries
        BY <1>0, <3>3, ConstantTypes
      <4> HIDE DEF g
      <4>2. rec'[held'] = Noted(rec[g], m)
        BY <1>0, <3>1, <3>2, <3>3
      <4>3. Noted(rec[g], m).latest = Larger(rec[g].latest, m)
        BY <4>1, RecordValues, Zenon
      <4> QED  BY <4>1, <4>2, <4>3, RecordFields
    <3>5. CASE job = "none"
      BY <1>11, <2>1, <3>1, <3>2, <3>4, <3>5, ConstantTypes DEF Note, OnItsWay, Larger, Consulting
    <3>6. CASE job # "none"
      BY <1>11, <2>1, <3>1, <3>2, <3>4, <3>6, ConstantTypes DEF Note, OnItsWay, Larger
    <3> QED  BY <3>5, <3>6
  <2> QED  BY <1>11, <2>2, <2>3 DEF Note
<1>12. ASSUME Take, job \in {"loop", "debounce"},
              UNCHANGED <<size, kind, stops, lost, over, told, checked, held, snap, last>>
       PROVE  (n <= last \/ OnItsWay(n))'
  BY <1>4, <1>12 DEF Take, OnItsWay, Consulting, Pending
<1>13. CASE Loop
  <2>1. CASE Take
    BY <1>12, <1>13, <2>1 DEF Loop
  <2>2. ASSUME NEW where \in Waiting, NEW ticks, WaitFor(where, ticks)
        PROVE  (n <= last \/ OnItsWay(n))'
    <3>1. rec'[held].latest = rec[held].latest /\ held' = held
      BY <1>0, <1>13, <2>2, RecordValues DEF WaitFor, Loop
    <3> QED  BY <1>4, <1>13, <2>2, <3>1 DEF Loop, WaitFor, OnItsWay, Consulting, Waiting
  <2> QED  BY <1>13, <2>1, <2>2 DEF Loop, Waiting
<1>14. CASE Settle
  BY <1>12, <1>14 DEF Settle
<1>15. CASE SilenceCheck
  <2>1. n \in 1..size /\ (n <= last \/ OnItsWay(n))
    BY <1>4, <1>15 DEF SilenceCheck
  <2> QED  BY <1>0, <1>1, <1>15, <2>1 DEF SilenceCheck, HandoverInv, OnItsWay, Consulting, Board
\* The record of the job is cleared only of what the consultation covered.
<1>16. ASSUME NEW p \in 0..size, Return(p), last' = p, n <= last => n <= p,
              job \in Consulting, snap <= p,
              job \in {"read", "resolve", "sync"} => trigger <= p,
              UNCHANGED <<size, kind, stops, lost, over, told, checked, held>>
       PROVE  (n <= last \/ OnItsWay(n))'
  <2>1. n <= last \/ OnItsWay(n)
    BY <1>4, <1>16
  <2>2. held \in RecordId /\ rec[held].latest \in Nat
    BY <1>0, <1>16, ConstantTypes DEF Consulting, Board
  <2>3. ASSUME n <= rec[held].latest PROVE n <= p \/ n <= rec'[held].latest
    BY <1>2, <1>0, <1>16, <2>2, <2>3 DEF Return, Pending, Board
  <2> QED  
    BY <1>0, <1>2, <1>16, <2>1, <2>3 DEF Return, OnItsWay, Board, Marks
<1>17. CASE Read
  <2>1. state # "ended" /\ snap = 0
    BY <1>1, <1>17 DEF Read, HandoverInv, Reviewing
  <2>2. CASE Return(last) /\ trigger <= last
    BY <1>0, <1>16, <1>17, <2>1, <2>2 DEF Read, Marks, Board, Consulting
  <2>3. CASE job' = "resolve" /\ UNCHANGED <<rec, trigger, snap>>
    BY <1>5, <1>17, <2>3 DEF Read
  <2> QED  BY <1>17, <2>1, <2>2, <2>3 DEF Read
<1>18. CASE Resolve  BY <1>5, <1>18 DEF Resolve, Job
<1>19. CASE Unresolved  BY <1>19 DEF Unresolved
<1>20. CASE SyncTask
  <2>1. n \in 1..size
    BY <1>4, <1>20 DEF SyncTask
  <2> QED  BY <1>20, <2>1 DEF SyncTask, Job, OnItsWay, Consulting
<1>21. CASE SyncEntries \/ ModelDecides \/ AskUser \/ SetWaiting
  BY <1>5, <1>21 DEF SyncEntries, ModelDecides, AskUser, SetWaiting, Job, Reviewing, Consulting
<1>22. CASE ModelFails \/ Finish
  <2>1. last <= snap /\ snap \in 0..size /\ last \in Nat
    BY <1>0, <1>22 DEF ModelFails, Finish, HandoverInv, Reviewing, Consulting, Marks, Board
  <2>2. /\ Return(snap) /\ last' = snap /\ job \in {"model", "finish"}
        /\ UNCHANGED <<size, kind, stops, lost, over, told, checked, held>>
    BY <1>22 DEF ModelFails, Finish
  <2>3. n <= last => n <= snap
    BY <1>0, <1>2, <2>1 DEF Board
  <2> QED  BY <1>0, <1>16, <2>1, <2>2, <2>3 DEF Consulting, Board
<1>23. CASE SetAnswered \/ Report \/ Wake
  <2>1. over' = over
    BY <1>23, TypeParts, Zenon DEF SetAnswered, Report, Wake, Flags
  <2> QED  BY <1>5, <1>23, <2>1 DEF SetAnswered, Report, Wake, Waiting
<1>24. CASE Cancel
  BY <1>0, <1>24 DEF Cancel, Jobs
<1>25. CASE Forget \/ Stop
  BY <1>1, <1>25 DEF Forget, Stop, HandoverInv
<1>26. CASE Tick
  <2>1. held \in RecordId => rec'[held].latest = rec[held].latest
    BY <1>0, <1>26 DEF Tick, Record
  <2> QED  BY <1>0, <1>4, <1>26, <2>1 DEF Tick, OnItsWay
<1>27. CASE UNCHANGED vars  BY <1>5, <1>27 DEF vars
<1> QED
  BY <1>7, <1>8, <1>9, <1>10, <1>11, <1>13, <1>14, <1>15, <1>17, <1>18, <1>19, <1>20,
     <1>21, <1>22, <1>23, <1>24, <1>25, <1>26, <1>27, Zenon DEF Next, Supervise

\* Whichever way changes, settling, silence, consultations, failures of the model and
\* answers interleave, for any number of entries and any timing: a change that no
\* consultation covered yet is told, checked, noted or being consulted about
\* (host_agents.py:changed, _supervise, _advise).
THEOREM NothingForgotten == Spec => []NoChangeForgotten
<1>1. Init => HandoverInv /\ NoChangeForgotten
  BY DEF Init, HandoverInv, NoChangeForgotten, Relevant, Reviewing, Consulting
<1>2. TypeInv /\ HandoverInv /\ NoChangeForgotten /\ [Next]_vars
        => (TypeInv /\ HandoverInv /\ NoChangeForgotten)'
  BY TypeKept, HandoverKept, ForgottenKept
<1> QED  BY InitTyped, <1>1, <1>2, PTL DEF Spec

\* Advice keeps its distance.

\* The last number handled only goes back, to nothing, while a consultation runs; what
\* came in since the entries were read is not advice; and advice that was decided on
\* keeps what justified it.
SpacingInv ==
  /\ job \in Consulting \ {"read"} => last <= base
  /\ job \in {"model", "publish"} => \A n \in (page + 1)..size : kind[n] # "supervisor_advice"
  /\ job = "publish" => BypassInterval \/ ~Recent(page)

\* The entries that were read stay as they are, and advice ages.
LEMMA JustifiedStays ==
  ASSUME Board, Marks, BypassInterval \/ ~Recent(page),
         UNCHANGED <<base, page>>, \A n \in 1..size : kind'[n] = kind[n],
         \A n \in Advice(size) : age'[n] < Interval => age[n] < Interval
  PROVE  (BypassInterval \/ ~Recent(page))'
<1>1. page <= size /\ page \in Nat /\ base \in Nat /\ size \in Nat
  BY DEF Marks, Board
<1>2. CASE BypassInterval
  BY <1>1, <1>2 DEF BypassInterval, New
<1>3. CASE ~Recent(page)
  <2>1. Advice(page)' = Advice(page)
    BY <1>1 DEF Advice
  <2> SUFFICES ASSUME Recent(page)' PROVE FALSE  OBVIOUS
  <2>2. PICK n \in Advice(page)' : (\A m \in Advice(page)' : m <= n) /\ age'[n] < Interval
    BY DEF Recent
  <2>3. n \in Advice(page) /\ n \in Advice(size) /\ (\A m \in Advice(page) : m <= n)
    BY <1>1, <2>1, <2>2 DEF Advice
  <2> QED  BY <1>3, <2>2, <2>3 DEF Recent
<1> QED  BY <1>2, <1>3

LEMMA AdviceAges ==
  ASSUME Board, Tick, NEW n \in Advice(size), age'[n] < Interval
  PROVE  age[n] < Interval
<1>1. n \in 1..MaxEntries /\ age[n] \in 0..Interval
  BY ConstantTypes DEF Board, Advice
<1>2. age' = [m \in 1..MaxEntries |->
               IF m \in Advice(size) THEN Smaller(age[m] + 1, Interval) ELSE 0]
  BY DEF Tick
<1>3. age'[n] = Smaller(age[n] + 1, Interval)
  BY <1>1, <1>2
<1> QED  BY <1>1, <1>3, ConstantTypes DEF Smaller

LEMMA SpacingKept ==
  ASSUME MaxEntries <= PageSize, TypeInv, SpacingInv, [Next]_vars
  PROVE  SpacingInv'
<1>0. Jobs /\ Board /\ Marks
  BY TypeParts
<1>01. last \in Nat /\ base \in Nat /\ page \in Nat /\ size \in Nat /\ size <= MaxEntries
  BY <1>0 DEF Board, Marks
<1> USE DEF board, task, changes, records, jobState, consultation, stopping, history
\* The job stays where it is, ends, goes round again, or is past the publication.
<1>1. ASSUME UNCHANGED <<size, kind, age, base, page>>, last' \in {last, 0},
             \/ job' = job
             \/ job' \in {"none", "loop", "read"} \union Waiting
             \/ job \in Consulting \ {"read"} /\ job' \notin {"model", "publish"}
      PROVE  SpacingInv'
  BY <1>01, <1>1 DEF SpacingInv, Consulting, Waiting, BypassInterval, New, Recent, Advice
<1>2. ASSUME job' \in {"none", "loop", "read"} \union Waiting PROVE SpacingInv'
  BY <1>2 DEF SpacingInv, Consulting, Waiting
\* What workers and users publish is not advice.
<1>3. ASSUME size < MaxEntries, NEW k \in Kind \ {"supervisor_advice"}, AddEntry(k),
             UNCHANGED <<age, job, base, page, last>>
      PROVE  SpacingInv'
  <2>1. /\ size' = size + 1 /\ kind'[size'] = k
        /\ \A n \in 1..size : kind'[n] = kind[n]
    BY <1>0, <1>3, EntryAdded
  <2>2. job = "publish" => (BypassInterval \/ ~Recent(page))'
    BY <1>0, <1>3, <2>1, JustifiedStays DEF SpacingInv
  <2>3. job \in {"model", "publish"} =>
          \A n \in (page + 1)..size' : kind'[n] # "supervisor_advice"
    BY <1>01, <1>3, <2>1 DEF SpacingInv
  <2> QED  BY <1>3, <2>2, <2>3 DEF SpacingInv
<1>4. ASSUME NEW k \in Published, Publish(k) PROVE SpacingInv'
  BY <1>0, <1>3, <1>4, RoomLeft, ConstantTypes DEF Publish
<1>5. CASE Answer
  BY <1>0, <1>3, <1>5, RoomLeft DEF Answer, Kind
<1>6. CASE SetAnswered \/ Report
  BY <1>1, <1>6 DEF SetAnswered, Report
<1>7. ASSUME NEW n \in 1..MaxEntries, Check(n) PROVE SpacingInv'
  BY <1>1, <1>7 DEF Check
<1>8. ASSUME NEW n \in 1..MaxEntries, Note(n) PROVE SpacingInv'
  BY <1>1, <1>8 DEF Note
<1>9. CASE Loop \/ Wake  BY <1>2, <1>9 DEF Loop, Wake, WaitFor, Take, Waiting
<1>10. CASE Settle \/ SilenceCheck  BY <1>2, <1>10 DEF Settle, SilenceCheck, Take
<1>11. CASE Read
  BY <1>01, <1>2, <1>11 DEF Read, Return, SpacingInv
<1>12. CASE Resolve \/ SyncTask
  BY <1>1, <1>12 DEF Resolve, SyncTask, Job, Consulting
<1>13. CASE Unresolved  BY <1>2, <1>13 DEF Unresolved, Job
<1>14. CASE SyncEntries
  <2>1. page' = size
    BY <1>01, <1>14, ConstantTypes DEF SyncEntries, Smaller
  <2> QED  BY <1>01, <1>14, <2>1 DEF SyncEntries, Job, SpacingInv, Consulting
<1>15. CASE ModelFails \/ Finish
  BY <1>2, <1>15 DEF ModelFails, Finish, Return
<1>16. CASE ModelDecides
  <2>1. job' = "publish" => (BypassInterval \/ ~Recent(page))'
    BY <1>16 DEF ModelDecides, BypassInterval, New, Recent, Advice
  <2> QED  BY <1>16, <2>1 DEF ModelDecides, SpacingInv, Consulting
<1>17. CASE PublishAdvice
  BY <1>17 DEF PublishAdvice, Job, SpacingInv, Consulting
<1>18. CASE AskUser \/ SetWaiting
  BY <1>1, <1>18 DEF AskUser, SetWaiting, Job, Consulting
<1>19. CASE Cancel  BY <1>2, <1>19 DEF Cancel
<1>20. CASE Forget \/ Stop  BY <1>1, <1>20 DEF Forget, Stop
<1>21. CASE Tick
  <2>1. UNCHANGED <<size, kind, job, base, page, last>>
    BY <1>21 DEF Tick
  <2>2. \A n \in Advice(size) : age'[n] < Interval => age[n] < Interval
    BY <1>0, <1>21, AdviceAges
  <2>3. job = "publish" => (BypassInterval \/ ~Recent(page))'
    BY <1>0, <2>1, <2>2, JustifiedStays DEF SpacingInv
  <2> QED  BY <2>1, <2>3 DEF SpacingInv
<1>22. CASE UNCHANGED vars  BY <1>1, <1>22 DEF vars
<1> QED
  BY <1>4, <1>5, <1>6, <1>7, <1>8, <1>9, <1>10, <1>11, <1>12, <1>13, <1>14, <1>15,
     <1>16, <1>17, <1>18, <1>19, <1>20, <1>21, <1>22, Zenon DEF Next, Supervise

\* While the blackboard fits into a page of sync, advice that is published within the
\* interval of the newest has a prompt of the user or a finding since the last number
\* handled, whatever is published between its decision and its publication
\* (host_agents.py:_advise). Beyond a page it is not so: see SupervisorUnread.
THEOREM AdviceKeepsDistance ==
  ASSUME MaxEntries <= PageSize
  PROVE  Spec => AdviceSpaced
<1>1. Init => SpacingInv
  BY DEF Init, SpacingInv, Consulting
<1>2. TypeInv /\ SpacingInv /\ [Next]_vars => (TypeInv /\ SpacingInv)'
  BY TypeKept, SpacingKept
<1>3. TypeInv /\ SpacingInv /\ [Next]_vars =>
        [size' > size /\ kind'[size'] = "supervisor_advice" /\ Recent(size)
           => \E n \in (last + 1)..size : kind[n] \in {"user_prompt", "finding"}]_vars
  <2> SUFFICES ASSUME TypeInv, SpacingInv, [Next]_vars,
                      size' > size, kind'[size'] = "supervisor_advice", Recent(size)
               PROVE  \E n \in (last + 1)..size : kind[n] \in {"user_prompt", "finding"}
    OBVIOUS
  <2>0. /\ Board /\ Marks
        /\ last \in Nat /\ base \in Nat /\ page \in Nat /\ size \in Nat /\ page <= size
    BY TypeParts DEF Board, Marks
  <2> USE DEF board
  <2>1. CASE PublishAdvice
    <3>1. job = "publish"
      BY <2>1 DEF PublishAdvice, Job
    <3>2. Advice(page) = Advice(size)
      BY <2>0, <3>1 DEF SpacingInv, Advice
    <3>3. BypassInterval
      BY <3>1, <3>2 DEF SpacingInv, Recent
    <3> QED  BY <2>0, <3>1, <3>3 DEF SpacingInv, BypassInterval, New, Consulting
  <2>2. ASSUME NEW k \in Published, Publish(k) PROVE FALSE
    BY <2>0, <2>2, EntryAdded, RoomLeft, ConstantTypes DEF Publish
  <2>3. CASE Answer
    BY <2>0, <2>3, EntryAdded, RoomLeft, KindsKnown DEF Answer
  <2>4. ASSUME size' = size PROVE FALSE
    BY <2>0, <2>4
  <2>5. ASSUME NEW n \in 1..MaxEntries, Check(n) \/ Note(n) PROVE FALSE
    BY <2>4, <2>5 DEF Check, Note
  <2>6. CASE SetAnswered \/ Report \/ Cancel \/ Forget \/ Stop \/ Tick
    BY <2>4, <2>6 DEF SetAnswered, Report, Cancel, Forget, Stop, Tick
  <2>7. CASE Loop \/ Wake \/ Settle \/ SilenceCheck \/ Read \/ Resolve
    BY <2>4, <2>7 DEF Loop, Wake, Settle, SilenceCheck, Read, Resolve
  <2>8. CASE Unresolved \/ SyncTask \/ SyncEntries \/ ModelFails \/ ModelDecides
    BY <2>4, <2>8 DEF Unresolved, SyncTask, SyncEntries, ModelFails, ModelDecides
  <2>9. CASE AskUser \/ SetWaiting \/ Finish
    BY <2>4, <2>9 DEF AskUser, SetWaiting, Finish
  <2>10. CASE UNCHANGED vars  BY <2>4, <2>10 DEF vars
  <2> QED
    BY <2>1, <2>2, <2>3, <2>5, <2>6, <2>7, <2>8, <2>9, <2>10, Zenon DEF Next, Supervise
<1> QED  BY InitTyped, <1>1, <1>2, <1>3, PTL DEF Spec, AdviceSpaced
===============================================================================
