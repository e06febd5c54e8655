---------------------------- MODULE TaskLifecycleProofs ----------------------------
(* Theorems about TaskLifecycle: a report rests on its snapshot, a completed task  *)
(* has its report, and containers are reclaimed, for any workers, requests,        *)
(* questions and entries.                                                          *)
EXTENDS TaskLifecycle, TLAPS

\* The types by what they are about. SMT has no use for the flags.
Flags == inserted \in BOOLEAN /\ registered \in BOOLEAN /\ raced \in BOOLEAN

Row ==
  /\ state \in States
  /\ size \in 0..scope.entries
  /\ finals \subseteq 1..size
  /\ snapshot \in 0..scope.entries /\ writeup \in 0..scope.entries /\ file \in 0..scope.entries

Creation ==
  /\ containers \subseteq Worker /\ refused \subseteq Worker /\ todo \subseteq Worker
  /\ creator \in {"new", "insert", "prompts", "next", "launching", "record", "running",
                  "failed", "cleanup", "done"}

Requests ==
  /\ handler \in [Handler -> {"idle", "read", "notify", "containers", "reclaim",
                              "stopped", "delete", "done"}]
  /\ op \in [Handler -> {"none", "stop", "delete"}]
  /\ targets \in [Handler -> SUBSET Worker]

Reports ==
  /\ noticed \subseteq 1..scope.entries /\ passed \subseteq 1..scope.entries
  /\ job \in {"none", "finalizing", "grace", "snapshot", "read", "model", "save",
              "finish", "stopping", "completed", "abandon", "abandoning", "failed",
              "unresolved"}
  /\ jobSnapshot \in 0..scope.entries /\ jobBody \in 0..scope.entries

Questions ==
  /\ question \in [Question -> {"absent", "waiting", "answered"}]
  /\ asker \in [Question -> {"idle", "advising", "asked", "done"}]
  /\ answers \subseteq Question

LEMMA TypeParts ==
  TypeOK <=> /\ Flags /\ Row /\ Creation /\ Requests /\ Reports /\ Questions
             /\ scope \in Scopes
BY Zenon DEF TypeOK, Flags, Row, Creation, Requests, Reports, Questions

LEMMA ScopeTypes ==
  ASSUME scope \in Scopes
  PROVE  /\ scope.entries \in Nat /\ scope.limit \in Nat
         /\ scope.workers \subseteq Worker
         /\ scope.handlers \subseteq Handler /\ scope.questions \subseteq Question
BY LifecycleAssumption

\* The steps there are, without the bounds of the behaviour.
LEMMA EveryStep ==
  ASSUME scope \in Scopes, [Next]_vars
  PROVE  \/ UNCHANGED vars
         \/ CreateTask \/ InsertAgents \/ PublishPrompts \/ NextLaunch \/ Launch
         \/ RecordLaunch \/ SetRunning \/ SetFailed \/ StopLaunched
         \/ \E h \in Handler : \/ CancelJobs(h) \/ ReadTask(h) \/ NotifyWorkers(h)
                               \/ StopWorkers(h) \/ SetCancelled(h) \/ DeleteTask(h)
         \/ \E final \in BOOLEAN : Publish(final)
         \/ \E n \in 1..scope.entries : ChangedCheck(n) \/ ChangedStart(n)
         \/ Finalize \/ ReadSnapshot \/ FixSnapshot \/ ReadEntries \/ ModelReports
         \/ SaveWriteup \/ FinishNotify \/ FinishStop \/ FinishReport
         \/ \E q \in Question : Advise(q) \/ Ask(q) \/ SetWaiting(q) \/ Answer(q)
                                  \/ SetAnswered(q)
<1>1. scope.handlers \subseteq Handler /\ scope.questions \subseteq Question
  BY ScopeTypes
<1> QED  BY <1>1, Zenon DEF Next, CreatorStep, HandlerStep, ReportStep, FollowUp

LEMMA ScopeKept ==
  ASSUME [Next]_vars
  PROVE  scope' = scope
BY DEF Next, vars

LEMMA FlagsKept ==
  ASSUME Flags, scope \in Scopes, [Next]_vars
  PROVE  Flags'
<1> USE DEF row, creation, handlers, changes, report, questions, Flags
<1>1. ASSUME UNCHANGED <<inserted, registered, raced>>
      PROVE  Flags'
  BY <1>1
<1>2. CASE InsertAgents
  BY <1>2, Zenon DEF InsertAgents, Creator
<1>3. ASSUME NEW h \in Handler, CancelJobs(h) PROVE Flags'
  BY <1>3, Zenon DEF CancelJobs
<1>4. ASSUME NEW h \in Handler, ReadTask(h) PROVE Flags'
  BY <1>4, Zenon DEF ReadTask
<1>5. ASSUME NEW h \in Handler, DeleteTask(h) PROVE Flags'
  BY <1>5, Zenon DEF DeleteTask, Move, Cascade
<1>6. ASSUME NEW n \in 1..scope.entries, ChangedStart(n) PROVE Flags'
  BY <1>6, Zenon DEF ChangedStart
<1>7. CASE FinishStop
  BY <1>7, Zenon DEF FinishStop, Job, StopContainers
<1>8. CASE CreateTask \/ PublishPrompts \/ NextLaunch \/ Launch \/ RecordLaunch
  BY <1>1, <1>8, Zenon DEF CreateTask, PublishPrompts, NextLaunch, Launch,
     RecordLaunch, Creator
<1>9. CASE SetRunning \/ SetFailed \/ StopLaunched \/ Finalize \/ ReadSnapshot
  BY <1>1, <1>9, Zenon DEF SetRunning, SetFailed, StopLaunched, Finalize, ReadSnapshot,
     Creator, SetState, StopContainers, Job, JobLost
<1>10. CASE FixSnapshot \/ ReadEntries \/ ModelReports \/ SaveWriteup \/ FinishNotify
  BY <1>1, <1>10, Zenon DEF FixSnapshot, ReadEntries, ModelReports, SaveWriteup,
     FinishNotify, Job, JobLost
<1>11. CASE FinishReport
  BY <1>1, <1>11, Zenon DEF FinishReport, Job, JobLost, SetState
<1>12. ASSUME NEW h \in Handler, NotifyWorkers(h) \/ StopWorkers(h) \/ SetCancelled(h)
      PROVE  Flags'
  BY <1>1, <1>12, Zenon DEF NotifyWorkers, StopWorkers, SetCancelled, Move,
     StopContainers, SetState
<1>13. ASSUME NEW final \in BOOLEAN, Publish(final)
      PROVE  Flags'
  BY <1>1, <1>13, Zenon DEF Publish
<1>14. ASSUME NEW n \in 1..scope.entries, ChangedCheck(n)
      PROVE  Flags'
  BY <1>1, <1>14, Zenon DEF ChangedCheck
<1>15. ASSUME NEW q \in Question, Advise(q) \/ Ask(q) \/ SetWaiting(q) \/
               Answer(q) \/ SetAnswered(q)
      PROVE  Flags'
  BY <1>1, <1>15, Zenon DEF Advise, Ask, SetWaiting, Answer, SetAnswered, Asker,
     SetState
<1>16. CASE UNCHANGED vars  BY <1>1, <1>16 DEF vars
<1> QED
  BY <1>2, <1>3, <1>4, <1>5, <1>6, <1>7, <1>8, <1>9, <1>10, <1>11, <1>12, <1>13, <1>14,
     <1>15, <1>16, EveryStep, Zenon

LEMMA RowKept ==
  ASSUME Row, Reports, scope \in Scopes, [Next]_vars
  PROVE  Row'
<1> USE DEF row, creation, handlers, changes, report, questions, Row, Reports,
        States, Reserved, Exists
<1>0. scope.entries \in Nat /\ scope' = scope
  BY ScopeTypes, ScopeKept
<1>1. ASSUME UNCHANGED <<state, size, finals, snapshot, writeup, file>>
      PROVE  Row'
  BY <1>0, <1>1
<1>2. CASE CreateTask
  BY <1>0, <1>2 DEF CreateTask, Creator
<1>3. CASE InsertAgents
  BY <1>0, <1>3 DEF InsertAgents, Creator
<1>4. CASE PublishPrompts
  <2>1. CASE UNCHANGED row
    BY <1>0, <1>1, <1>4, <2>1 DEF PublishPrompts
  <2>2. CASE /\ size + 2 <= scope.entries /\ size' = size + 2
             /\ UNCHANGED <<state, finals, snapshot, writeup, file>>
    BY <1>0, <2>2
  <2> QED  BY <1>4, <2>1, <2>2 DEF PublishPrompts
<1>5. CASE SetRunning
  BY <1>0, <1>5 DEF SetRunning, Creator, SetState
<1>6. CASE SetFailed
  BY <1>0, <1>6 DEF SetFailed, Creator, SetState
<1>7. ASSUME NEW h \in Handler, SetCancelled(h) PROVE Row'
  BY <1>0, <1>7 DEF SetCancelled, Move, SetState
<1>8. ASSUME NEW h \in Handler, DeleteTask(h) PROVE Row'
  <2>1. CASE UNCHANGED <<row, file>>
    BY <1>0, <1>1, <2>1
  <2>2. CASE state' = "deleted" /\ file' = 0 /\ Cascade
    BY <1>0, <2>2 DEF Cascade
  <2> QED  BY <1>8, <2>1, <2>2 DEF DeleteTask
<1>9. ASSUME NEW final \in BOOLEAN, Publish(final) PROVE Row'
  BY <1>0, <1>9 DEF Publish
<1>10. CASE Finalize
  BY <1>0, <1>10 DEF Finalize, Job, JobLost, SetState
<1>11. CASE FixSnapshot
  BY <1>0, <1>11 DEF FixSnapshot, Job, JobLost
<1>12. CASE ModelReports
  BY <1>0, <1>12 DEF ModelReports, Job
<1>13. CASE SaveWriteup
  BY <1>0, <1>13 DEF SaveWriteup, Job
<1>14. CASE FinishReport
  BY <1>0, <1>14 DEF FinishReport, Job, JobLost, SetState
<1>15. ASSUME NEW q \in Question, SetWaiting(q) PROVE Row'
  BY <1>0, <1>15 DEF SetWaiting, Asker, SetState
<1>16. ASSUME NEW q \in Question, Answer(q) PROVE Row'
  BY <1>0, <1>16 DEF Answer
<1>17. ASSUME NEW q \in Question, SetAnswered(q) PROVE Row'
  BY <1>0, <1>17 DEF SetAnswered, SetState
<1>18. CASE NextLaunch \/ Launch \/ RecordLaunch \/ StopLaunched \/ ReadSnapshot
  BY <1>1, <1>18 DEF NextLaunch, Launch, RecordLaunch, StopLaunched, ReadSnapshot,
     Creator, StopContainers, Job, JobLost
<1>19. CASE ReadEntries \/ FinishNotify \/ FinishStop
  BY <1>1, <1>19 DEF ReadEntries, FinishNotify, FinishStop, Job, JobLost,
     StopContainers
<1>20. ASSUME NEW h \in Handler, CancelJobs(h) \/ ReadTask(h) \/ NotifyWorkers(h) \/
               StopWorkers(h)
      PROVE  Row'
  BY <1>1, <1>20 DEF CancelJobs, ReadTask, NotifyWorkers, StopWorkers, Move,
     StopContainers
<1>21. ASSUME NEW n \in 1..scope.entries, ChangedCheck(n) \/ ChangedStart(n)
      PROVE  Row'
  BY <1>1, <1>21 DEF ChangedCheck, ChangedStart
<1>22. ASSUME NEW q \in Question, Advise(q) \/ Ask(q)
      PROVE  Row'
  BY <1>1, <1>22 DEF Advise, Ask, Asker
<1>23. CASE UNCHANGED vars  BY <1>1, <1>23 DEF vars
<1> QED
  BY <1>2, <1>3, <1>4, <1>5, <1>6, <1>7, <1>8, <1>9, <1>10, <1>11, <1>12, <1>13, <1>14,
     <1>15, <1>16, <1>17, <1>18, <1>19, <1>20, <1>21, <1>22, <1>23, EveryStep, Zenon

LEMMA CreationKept ==
  ASSUME Creation, scope \in Scopes, [Next]_vars
  PROVE  Creation'
<1> USE DEF row, creation, handlers, changes, report, questions, Creation
<1>1. ASSUME UNCHANGED <<containers, refused, todo, creator>>
      PROVE  Creation'
  BY <1>1
<1>2. CASE CreateTask
  BY <1>2 DEF CreateTask, Creator
<1>3. CASE InsertAgents
  BY <1>3 DEF InsertAgents, Creator
<1>4. CASE PublishPrompts
  BY <1>4 DEF PublishPrompts, Creator
<1>5. CASE NextLaunch
  BY <1>5 DEF NextLaunch
<1>6. CASE Launch
  BY <1>6 DEF Launch, Creator
<1>7. CASE RecordLaunch
  BY <1>7 DEF RecordLaunch
<1>8. CASE SetRunning
  BY <1>8 DEF SetRunning, Creator, SetState
<1>9. CASE SetFailed
  BY <1>9 DEF SetFailed, Creator, SetState
<1>10. CASE StopLaunched
  BY <1>10 DEF StopLaunched, Creator, StopContainers
<1>11. ASSUME NEW h \in Handler, StopWorkers(h) PROVE Creation'
  BY <1>11 DEF StopWorkers, Move, StopContainers
<1>12. CASE FinishStop
  BY <1>12 DEF FinishStop, Job, StopContainers
<1>13. ASSUME NEW h \in Handler, CancelJobs(h) \/ ReadTask(h) \/ NotifyWorkers(h) \/
               SetCancelled(h) \/ DeleteTask(h)
      PROVE  Creation'
  BY <1>1, <1>13 DEF CancelJobs, ReadTask, NotifyWorkers, SetCancelled, DeleteTask,
     Move, SetState, Cascade
<1>14. ASSUME NEW final \in BOOLEAN, Publish(final)
      PROVE  Creation'
  BY <1>1, <1>14 DEF Publish
<1>15. ASSUME NEW n \in 1..scope.entries, ChangedCheck(n) \/ ChangedStart(n)
      PROVE  Creation'
  BY <1>1, <1>15 DEF ChangedCheck, ChangedStart
<1>16. CASE Finalize \/ ReadSnapshot \/ FixSnapshot \/ ReadEntries \/ ModelReports
  BY <1>1, <1>16 DEF Finalize, ReadSnapshot, FixSnapshot, ReadEntries, ModelReports,
     Job, JobLost, SetState
<1>17. CASE SaveWriteup \/ FinishNotify \/ FinishReport
  BY <1>1, <1>17 DEF SaveWriteup, FinishNotify, FinishReport, Job, JobLost, SetState
<1>18. ASSUME NEW q \in Question, Advise(q) \/ Ask(q) \/ SetWaiting(q) \/
               Answer(q) \/ SetAnswered(q)
      PROVE  Creation'
  BY <1>1, <1>18 DEF Advise, Ask, SetWaiting, Answer, SetAnswered, Asker, SetState
<1>19. CASE UNCHANGED vars  BY <1>1, <1>19 DEF vars
<1> QED
  BY <1>2, <1>3, <1>4, <1>5, <1>6, <1>7, <1>8, <1>9, <1>10, <1>11, <1>12, <1>13, <1>14,
     <1>15, <1>16, <1>17, <1>18, <1>19, EveryStep, Zenon

LEMMA RequestsKept ==
  ASSUME Requests, scope \in Scopes, [Next]_vars
  PROVE  Requests'
<1> USE DEF row, creation, handlers, changes, report, questions, Requests
<1>0. scope.workers \subseteq Worker
  BY ScopeTypes
<1>1. ASSUME UNCHANGED <<handler, op, targets>>
      PROVE  Requests'
  BY <1>0, <1>1
<1>2. ASSUME NEW h \in Handler, CancelJobs(h) PROVE Requests'
  BY <1>2 DEF CancelJobs
<1>3. ASSUME NEW h \in Handler, ReadTask(h) PROVE Requests'
  BY <1>0, <1>3 DEF ReadTask
<1>4. ASSUME NEW h \in Handler, NotifyWorkers(h) PROVE Requests'
  BY <1>4 DEF NotifyWorkers, Move
<1>5. ASSUME NEW h \in Handler, StopWorkers(h) PROVE Requests'
  BY <1>5 DEF StopWorkers, Move, StopContainers
<1>6. ASSUME NEW h \in Handler, SetCancelled(h) PROVE Requests'
  BY <1>6 DEF SetCancelled, Move, SetState
<1>7. ASSUME NEW h \in Handler, DeleteTask(h) PROVE Requests'
  BY <1>7 DEF DeleteTask, Move, Cascade
<1>8. CASE CreateTask \/ InsertAgents \/ PublishPrompts \/ NextLaunch \/ Launch
  BY <1>1, <1>8 DEF CreateTask, InsertAgents, PublishPrompts, NextLaunch, Launch,
     Creator
<1>9. CASE RecordLaunch \/ SetRunning \/ SetFailed \/ StopLaunched \/ Finalize
  BY <1>1, <1>9 DEF RecordLaunch, SetRunning, SetFailed, StopLaunched, Finalize,
     Creator, SetState, StopContainers, Job, JobLost
<1>10. CASE ReadSnapshot \/ FixSnapshot \/ ReadEntries \/ ModelReports \/ SaveWriteup
  BY <1>1, <1>10 DEF ReadSnapshot, FixSnapshot, ReadEntries, ModelReports, SaveWriteup,
     Job, JobLost
<1>11. CASE FinishNotify \/ FinishStop \/ FinishReport
  BY <1>1, <1>11 DEF FinishNotify, FinishStop, FinishReport, Job, StopContainers,
     JobLost, SetState
<1>12. ASSUME NEW final \in BOOLEAN, Publish(final)
      PROVE  Requests'
  BY <1>1, <1>12 DEF Publish
<1>13. ASSUME NEW n \in 1..scope.entries, ChangedCheck(n) \/ ChangedStart(n)
      PROVE  Requests'
  BY <1>1, <1>13 DEF ChangedCheck, ChangedStart
<1>14. ASSUME NEW q \in Question, Advise(q) \/ Ask(q) \/ SetWaiting(q) \/
               Answer(q) \/ SetAnswered(q)
      PROVE  Requests'
  BY <1>1, <1>14 DEF Advise, Ask, SetWaiting, Answer, SetAnswered, Asker, SetState
<1>15. CASE UNCHANGED vars  BY <1>1, <1>15 DEF vars
<1> QED
  BY <1>2, <1>3, <1>4, <1>5, <1>6, <1>7, <1>8, <1>9, <1>10, <1>11, <1>12, <1>13, <1>14,
     <1>15, EveryStep, Zenon

LEMMA ReportsKept ==
  ASSUME Reports, Row, scope \in Scopes, [Next]_vars
  PROVE  Reports'
<1> USE DEF row, creation, handlers, changes, report, questions, Reports, Row, Reserved
<1>0. scope.entries \in Nat /\ scope.limit \in Nat /\ scope' = scope
  BY ScopeTypes, ScopeKept
<1>1. ASSUME UNCHANGED <<noticed, passed, job, jobSnapshot, jobBody>>
      PROVE  Reports'
  BY <1>0, <1>1
<1>2. ASSUME NEW h \in Handler, CancelJobs(h) PROVE Reports'
  BY <1>0, <1>2 DEF CancelJobs
<1>3. ASSUME NEW final \in BOOLEAN, Publish(final) PROVE Reports'
  BY <1>0, <1>3 DEF Publish
<1>4. ASSUME NEW n \in 1..scope.entries, ChangedCheck(n) PROVE Reports'
  BY <1>0, <1>4 DEF ChangedCheck
<1>5. ASSUME NEW n \in 1..scope.entries, ChangedStart(n) PROVE Reports'
  BY <1>0, <1>5 DEF ChangedStart
<1>6. CASE Finalize
  BY <1>0, <1>6 DEF Finalize, Job, JobLost, SetState
<1>7. CASE ReadSnapshot
  BY <1>0, <1>7 DEF ReadSnapshot, Job, JobLost
<1>8. CASE FixSnapshot
  BY <1>0, <1>8 DEF FixSnapshot, Job, JobLost
<1>9. CASE ReadEntries
  BY <1>0, <1>9 DEF ReadEntries, LastRead, Job, JobLost
<1>10. CASE ModelReports
  BY <1>0, <1>10 DEF ModelReports, Job
<1>11. CASE SaveWriteup
  BY <1>0, <1>11 DEF SaveWriteup, Job
<1>12. CASE FinishNotify
  BY <1>0, <1>12 DEF FinishNotify, Job
<1>13. CASE FinishStop
  BY <1>0, <1>13 DEF FinishStop, Job, StopContainers
<1>14. CASE FinishReport
  BY <1>0, <1>14 DEF FinishReport, Job, JobLost, SetState
<1>15. CASE CreateTask \/ InsertAgents \/ PublishPrompts \/ NextLaunch \/ Launch
  BY <1>1, <1>15 DEF CreateTask, InsertAgents, PublishPrompts, NextLaunch, Launch,
     Creator
<1>16. CASE RecordLaunch \/ SetRunning \/ SetFailed \/ StopLaunched
  BY <1>1, <1>16 DEF RecordLaunch, SetRunning, SetFailed, StopLaunched, Creator,
     SetState, StopContainers
<1>17. ASSUME NEW h \in Handler, ReadTask(h) \/ NotifyWorkers(h) \/ StopWorkers(h) \/
               SetCancelled(h) \/ DeleteTask(h)
      PROVE  Reports'
  BY <1>1, <1>17 DEF ReadTask, NotifyWorkers, StopWorkers, SetCancelled, DeleteTask,
     Move, StopContainers, SetState, Cascade
<1>18. ASSUME NEW q \in Question, Advise(q) \/ Ask(q) \/ SetWaiting(q) \/
               Answer(q) \/ SetAnswered(q)
      PROVE  Reports'
  BY <1>1, <1>18 DEF Advise, Ask, SetWaiting, Answer, SetAnswered, Asker, SetState
<1>19. CASE UNCHANGED vars  BY <1>1, <1>19 DEF vars
<1> QED
  BY <1>2, <1>3, <1>4, <1>5, <1>6, <1>7, <1>8, <1>9, <1>10, <1>11, <1>12, <1>13, <1>14,
     <1>15, <1>16, <1>17, <1>18, <1>19, EveryStep, Zenon

LEMMA QuestionsKept ==
  ASSUME Questions, scope \in Scopes, [Next]_vars
  PROVE  Questions'
<1> USE DEF row, creation, handlers, changes, report, questions, Questions
<1>1. ASSUME UNCHANGED <<question, asker, answers>>
      PROVE  Questions'
  BY <1>1
<1>2. ASSUME NEW h \in Handler, CancelJobs(h) PROVE Questions'
  BY <1>2 DEF CancelJobs
<1>3. ASSUME NEW h \in Handler, DeleteTask(h) PROVE Questions'
  BY <1>3 DEF DeleteTask, Move, Cascade
<1>4. ASSUME NEW q \in Question, Advise(q) PROVE Questions'
  BY <1>4 DEF Advise, Asker
<1>5. ASSUME NEW q \in Question, Ask(q) PROVE Questions'
  BY <1>5 DEF Ask
<1>6. ASSUME NEW q \in Question, SetWaiting(q) PROVE Questions'
  BY <1>6 DEF SetWaiting, Asker, SetState
<1>7. ASSUME NEW q \in Question, Answer(q) PROVE Questions'
  BY <1>7 DEF Answer
<1>8. ASSUME NEW q \in Question, SetAnswered(q) PROVE Questions'
  BY <1>8 DEF SetAnswered, SetState
<1>9. CASE CreateTask \/ InsertAgents \/ PublishPrompts \/ NextLaunch \/ Launch
  BY <1>1, <1>9 DEF CreateTask, InsertAgents, PublishPrompts, NextLaunch, Launch,
     Creator
<1>10. CASE RecordLaunch \/ SetRunning \/ SetFailed \/ StopLaunched \/ Finalize
  BY <1>1, <1>10 DEF RecordLaunch, SetRunning, SetFailed, StopLaunched, Finalize,
     Creator, SetState, StopContainers, Job, JobLost
<1>11. CASE ReadSnapshot \/ FixSnapshot \/ ReadEntries \/ ModelReports \/ SaveWriteup
  BY <1>1, <1>11 DEF ReadSnapshot, FixSnapshot, ReadEntries, ModelReports, SaveWriteup,
     Job, JobLost
<1>12. CASE FinishNotify \/ FinishStop \/ FinishReport
  BY <1>1, <1>12 DEF FinishNotify, FinishStop, FinishReport, Job, StopContainers,
     JobLost, SetState
<1>13. ASSUME NEW h \in Handler, ReadTask(h) \/ NotifyWorkers(h) \/ StopWorkers(h) \/
               SetCancelled(h)
      PROVE  Questions'
  BY <1>1, <1>13 DEF ReadTask, NotifyWorkers, StopWorkers, SetCancelled, Move,
     StopContainers, SetState
<1>14. ASSUME NEW final \in BOOLEAN, Publish(final)
      PROVE  Questions'
  BY <1>1, <1>14 DEF Publish
<1>15. ASSUME NEW n \in 1..scope.entries, ChangedCheck(n) \/ ChangedStart(n)
      PROVE  Questions'
  BY <1>1, <1>15 DEF ChangedCheck, ChangedStart
<1>16. CASE UNCHANGED vars  BY <1>1, <1>16 DEF vars
<1> QED
  BY <1>2, <1>3, <1>4, <1>5, <1>6, <1>7, <1>8, <1>9, <1>10, <1>11, <1>12, <1>13, <1>14,
     <1>15, <1>16, EveryStep, Zenon

LEMMA InitTyped == Init => TypeOK
<1> SUFFICES ASSUME Init PROVE TypeOK  OBVIOUS
<1>1. scope \in Scopes
  BY DEF Init
<1>2. scope.entries \in Nat /\ scope.workers \subseteq Worker
  BY <1>1, ScopeTypes
<1>3. Row /\ Creation /\ Requests /\ Reports /\ Questions
  BY <1>2 DEF Init, Row, Creation, Requests, Reports, Questions, States
<1>4. Flags
  BY Zenon DEF Init, Flags
<1> QED  BY <1>1, <1>3, <1>4, TypeParts

LEMMA TypeKept == TypeOK /\ [Next]_vars => TypeOK'
<1> SUFFICES ASSUME TypeOK, [Next]_vars PROVE TypeOK'  OBVIOUS
<1>1. /\ Flags /\ Row /\ Creation /\ Requests /\ Reports /\ Questions
      /\ scope \in Scopes
  BY TypeParts
<1>2. (/\ Flags /\ Row /\ Creation /\ Requests /\ Reports /\ Questions
       /\ scope \in Scopes)'
  BY <1>1, FlagsKept, RowKept, CreationKept, RequestsKept, ReportsKept, QuestionsKept,
     ScopeKept
<1> QED  BY <1>2, TypeParts, PTL

\* Every variable of a task's life keeps its type.
THEOREM TypeCorrect == Spec => []TypeOK
BY InitTyped, TypeKept, PTL DEF Spec

-------------------------------------------------------------------------------
\* The report.

\* Before the task is created nothing else of it is there, and a task is only once.
CreatedOnce ==
  /\ creator = "new" => state = "absent" /\ job = "none" /\ noticed = {} /\ passed = {}
  /\ creator # "new" => state # "absent"

LEMMA CreatedOnceKept ==
  ASSUME CreatedOnce, scope \in Scopes, [Next]_vars
  PROVE  CreatedOnce'
<1> USE DEF row, creation, handlers, changes, report, questions, CreatedOnce, Exists
<1>1. ASSUME UNCHANGED <<state, creator, job, noticed, passed>>
      PROVE  CreatedOnce'
  BY <1>1
<1>2. CASE CreateTask
  BY <1>2 DEF CreateTask, Creator
<1>3. CASE InsertAgents
  BY <1>3 DEF InsertAgents, Creator
<1>4. CASE PublishPrompts
  BY <1>4 DEF PublishPrompts, Creator
<1>5. CASE NextLaunch
  BY <1>5 DEF NextLaunch
<1>6. CASE Launch
  BY <1>6 DEF Launch, Creator
<1>7. CASE RecordLaunch
  BY <1>7 DEF RecordLaunch
<1>8. CASE SetRunning
  BY <1>8 DEF SetRunning, Creator, SetState
<1>9. CASE SetFailed
  BY <1>9 DEF SetFailed, Creator, SetState
<1>10. CASE StopLaunched
  BY <1>10 DEF StopLaunched, Creator, StopContainers
<1>11. ASSUME NEW h \in Handler, CancelJobs(h) PROVE CreatedOnce'
  BY <1>11 DEF CancelJobs
<1>12. ASSUME NEW h \in Handler, SetCancelled(h) PROVE CreatedOnce'
  BY <1>12 DEF SetCancelled, Move, SetState
<1>13. ASSUME NEW h \in Handler, DeleteTask(h) PROVE CreatedOnce'
  BY <1>13 DEF DeleteTask, Move, Cascade
<1>14. ASSUME NEW final \in BOOLEAN, Publish(final) PROVE CreatedOnce'
  BY <1>14 DEF Publish
<1>15. ASSUME NEW n \in 1..scope.entries, ChangedCheck(n) PROVE CreatedOnce'
  BY <1>15 DEF ChangedCheck
<1>16. ASSUME NEW n \in 1..scope.entries, ChangedStart(n) PROVE CreatedOnce'
  BY <1>16 DEF ChangedStart
<1>17. CASE Finalize
  BY <1>17 DEF Finalize, Job, JobLost, SetState
<1>18. CASE ReadSnapshot
  BY <1>18 DEF ReadSnapshot, Job, JobLost
<1>19. CASE FixSnapshot
  BY <1>19 DEF FixSnapshot, Job, JobLost
<1>20. CASE ReadEntries
  BY <1>20 DEF ReadEntries, Job, JobLost
<1>21. CASE ModelReports
  BY <1>21 DEF ModelReports, Job
<1>22. CASE SaveWriteup
  BY <1>22 DEF SaveWriteup, Job
<1>23. CASE FinishNotify
  BY <1>23 DEF FinishNotify, Job
<1>24. CASE FinishStop
  BY <1>24 DEF FinishStop, Job, StopContainers
<1>25. CASE FinishReport
  BY <1>25 DEF FinishReport, Job, JobLost, SetState
<1>26. ASSUME NEW q \in Question, SetWaiting(q) PROVE CreatedOnce'
  BY <1>26 DEF SetWaiting, Asker, SetState
<1>27. ASSUME NEW q \in Question, SetAnswered(q) PROVE CreatedOnce'
  BY <1>27 DEF SetAnswered, SetState
<1>28. ASSUME NEW h \in Handler, ReadTask(h) \/ NotifyWorkers(h) \/ StopWorkers(h)
      PROVE  CreatedOnce'
  BY <1>1, <1>28 DEF ReadTask, NotifyWorkers, StopWorkers, Move, StopContainers
<1>29. ASSUME NEW q \in Question, Advise(q) \/ Ask(q) \/ Answer(q)
      PROVE  CreatedOnce'
  BY <1>1, <1>29 DEF Advise, Ask, Answer, Asker
<1>30. CASE UNCHANGED vars  BY <1>1, <1>30 DEF vars
<1> QED
  BY <1>2, <1>3, <1>4, <1>5, <1>6, <1>7, <1>8, <1>9, <1>10, <1>11, <1>12, <1>13, <1>14,
     <1>15, <1>16, <1>17, <1>18, <1>19, <1>20, <1>21, <1>22, <1>23, <1>24, <1>25,
     <1>26, <1>27, <1>28, <1>29, <1>30, EveryStep, Zenon

\* Where the report has a snapshot, and where its file is written.
Fixed == {"snapshot", "read", "model", "save", "finish", "stopping", "completed"}
Written == {"save", "finish", "stopping", "completed"}

\* One report at a time, of a conclusion, and it goes by its snapshot.
ReportInv ==
  /\ ~registered => job = "none"
  /\ job \notin {"none", "finalizing"} => state # "completed"
  /\ Exists => /\ job \in {"finalizing", "grace"} => finals # {}
               /\ job \in Fixed => \E n \in finals : n <= jobSnapshot
               /\ job \in Fixed \ {"snapshot"} => snapshot = jobSnapshot
               /\ job \in {"model", "save"} => jobBody = LastRead(jobSnapshot)
               /\ job \in Written => file = LastRead(jobSnapshot)
               /\ job \in Written \ {"save"} => writeup = jobSnapshot

LEMMA ReportKept ==
  ASSUME Row, Reports, CreatedOnce, ReportInv, scope \in Scopes, [Next]_vars
  PROVE  ReportInv'
<1> USE DEF row, creation, handlers, changes, report, questions, ReportInv, Exists,
        Fixed, Written, CreatedOnce, LastRead
<1>0. /\ scope.entries \in Nat /\ scope' = scope
      /\ size \in Nat /\ finals \subseteq 1..size /\ jobSnapshot \in Nat
  BY ScopeTypes, ScopeKept DEF Row, Reports
<1>1. ASSUME UNCHANGED <<state, finals, snapshot, writeup, file, job, jobSnapshot,
               jobBody, registered>>
      PROVE  ReportInv'
  BY <1>0, <1>1
<1>2. CASE CreateTask
  BY <1>0, <1>2 DEF CreateTask, Creator
<1>3. CASE InsertAgents
  BY <1>0, <1>3 DEF InsertAgents, Creator
<1>4. CASE PublishPrompts
  BY <1>0, <1>4 DEF PublishPrompts, Creator
<1>5. CASE SetRunning
  BY <1>0, <1>5 DEF SetRunning, Creator, SetState
<1>6. CASE SetFailed
  BY <1>0, <1>6 DEF SetFailed, Creator, SetState
<1>7. ASSUME NEW h \in Handler, CancelJobs(h) PROVE ReportInv'
  BY <1>0, <1>7 DEF CancelJobs
<1>8. ASSUME NEW h \in Handler, SetCancelled(h) PROVE ReportInv'
  BY <1>0, <1>8 DEF SetCancelled, Move, SetState
<1>9. ASSUME NEW h \in Handler, DeleteTask(h) PROVE ReportInv'
  BY <1>0, <1>9 DEF DeleteTask, Move, Cascade
<1>10. ASSUME NEW final \in BOOLEAN, Publish(final) PROVE ReportInv'
  BY <1>0, <1>10 DEF Publish
<1>11. ASSUME NEW n \in 1..scope.entries, ChangedStart(n) PROVE ReportInv'
  BY <1>0, <1>11 DEF ChangedStart
<1>12. CASE Finalize
  BY <1>0, <1>12 DEF Finalize, Job, JobLost, SetState
<1>13. CASE ReadSnapshot
  <2>1. CASE Exists /\ job = "grace"
    <3>1. finals # {}
      BY <2>1
    <3>2. PICK n \in finals : TRUE
      BY <3>1
    <3>3. n \in Nat /\ n <= size
      BY <1>0, <3>2
    <3> QED  BY <1>0, <1>13, <2>1, <3>2, <3>3 DEF ReadSnapshot, Job, JobLost
  <2>2. CASE ~(Exists /\ job = "grace")
    BY <1>0, <1>13, <2>2 DEF ReadSnapshot, Job, JobLost
  <2> QED  BY <2>1, <2>2
<1>14. CASE FixSnapshot
  BY <1>0, <1>14 DEF FixSnapshot, Job, JobLost
<1>15. CASE ReadEntries
  BY <1>0, <1>15 DEF ReadEntries, Job, JobLost
<1>16. CASE ModelReports
  BY <1>0, <1>16 DEF ModelReports, Job
<1>17. CASE SaveWriteup
  BY <1>0, <1>17 DEF SaveWriteup, Job
<1>18. CASE FinishNotify
  BY <1>0, <1>18 DEF FinishNotify, Job
<1>19. CASE FinishStop
  BY <1>0, <1>19 DEF FinishStop, Job, StopContainers
<1>20. CASE FinishReport
  BY <1>0, <1>20 DEF FinishReport, Job, JobLost, SetState
<1>21. ASSUME NEW q \in Question, SetWaiting(q) PROVE ReportInv'
  BY <1>0, <1>21 DEF SetWaiting, Asker, SetState
<1>22. ASSUME NEW q \in Question, Answer(q) PROVE ReportInv'
  BY <1>0, <1>22 DEF Answer
<1>23. ASSUME NEW q \in Question, SetAnswered(q) PROVE ReportInv'
  BY <1>0, <1>23 DEF SetAnswered, SetState
<1>24. CASE NextLaunch \/ Launch \/ RecordLaunch \/ StopLaunched
  BY <1>1, <1>24 DEF NextLaunch, Launch, RecordLaunch, StopLaunched, Creator,
     StopContainers
<1>25. ASSUME NEW h \in Handler, ReadTask(h) \/ NotifyWorkers(h) \/ StopWorkers(h)
      PROVE  ReportInv'
  BY <1>1, <1>25 DEF ReadTask, NotifyWorkers, StopWorkers, Move, StopContainers
<1>26. ASSUME NEW n \in 1..scope.entries, ChangedCheck(n)
      PROVE  ReportInv'
  BY <1>1, <1>26 DEF ChangedCheck
<1>27. ASSUME NEW q \in Question, Advise(q) \/ Ask(q)
      PROVE  ReportInv'
  BY <1>1, <1>27 DEF Advise, Ask, Asker
<1>28. CASE UNCHANGED vars  BY <1>1, <1>28 DEF vars
<1> QED
  BY <1>2, <1>3, <1>4, <1>5, <1>6, <1>7, <1>8, <1>9, <1>10, <1>11, <1>12, <1>13, <1>14,
     <1>15, <1>16, <1>17, <1>18, <1>19, <1>20, <1>21, <1>22, <1>23, <1>24, <1>25,
     <1>26, <1>27, <1>28, EveryStep, Zenon

LEMMA FixedInv ==
  ASSUME ReportInv, Reports, scope \in Scopes
  PROVE  ReportIsFixed
<1>1. scope.limit \in Nat /\ jobSnapshot \in Nat
  BY ScopeTypes DEF Reports
<1>2. LastRead(jobSnapshot) <= jobSnapshot
  BY <1>1 DEF LastRead
<1>3. LastRead(jobSnapshot) # jobSnapshot => LastRead(jobSnapshot) = scope.limit
  BY DEF LastRead
<1> QED  BY <1>2, <1>3 DEF ReportInv, ReportIsFixed, Fixed

LEMMA CompletedKept ==
  ASSUME Row, Reports, ReportInv, CompletedIsReported, scope \in Scopes, [Next]_vars
  PROVE  CompletedIsReported'
<1> USE DEF row, creation, handlers, changes, report, questions, CompletedIsReported,
        ReportInv, Exists
<1>0. scope.entries \in Nat /\ scope' = scope
  BY ScopeTypes, ScopeKept
<1> USE <1>0 DEF LastRead
<1>1. ASSUME UNCHANGED <<state, writeup, file, snapshot>>
      PROVE  CompletedIsReported'
  BY <1>0, <1>1
<1>2. CASE CreateTask
  BY <1>2 DEF CreateTask, Creator
<1>3. CASE InsertAgents
  BY <1>3 DEF InsertAgents, Creator
<1>4. CASE PublishPrompts
  BY <1>4 DEF PublishPrompts, Creator
<1>5. CASE SetRunning
  BY <1>5 DEF SetRunning, Creator, SetState
<1>6. CASE SetFailed
  BY <1>6 DEF SetFailed, Creator, SetState
<1>7. ASSUME NEW h \in Handler, SetCancelled(h) PROVE CompletedIsReported'
  BY <1>7 DEF SetCancelled, Move, SetState
<1>8. ASSUME NEW h \in Handler, DeleteTask(h) PROVE CompletedIsReported'
  BY <1>8 DEF DeleteTask, Move, Cascade
<1>9. CASE Finalize
  BY <1>9 DEF Finalize, Job, JobLost, SetState
<1>10. CASE FixSnapshot
  BY <1>10 DEF FixSnapshot, Job, JobLost
<1>11. CASE ModelReports
  BY <1>11 DEF ModelReports, Job
<1>12. CASE SaveWriteup
  BY <1>12 DEF SaveWriteup, Job
<1>13. CASE FinishReport
  <2>1. CASE job = "completed" /\ Exists /\ UNCHANGED <<writeup, file, snapshot>>
    <3>1. PICK n \in finals : n <= jobSnapshot
      BY <2>1 DEF Fixed
    <3>2. n \in Nat \ {0} /\ jobSnapshot \in Nat
      BY <1>0 DEF Row, Reports
    <3> QED  BY <2>1, <3>1, <3>2 DEF Fixed, Written
  <2>2. CASE ~(job = "completed" /\ Exists)
    BY <1>13, <2>2 DEF FinishReport, Job, JobLost, SetState
  <2> QED  BY <1>13, <2>1, <2>2 DEF FinishReport, Job, JobLost, SetState
<1>14. ASSUME NEW q \in Question, SetWaiting(q) PROVE CompletedIsReported'
  BY <1>14 DEF SetWaiting, Asker, SetState
<1>15. ASSUME NEW q \in Question, SetAnswered(q) PROVE CompletedIsReported'
  BY <1>15 DEF SetAnswered, SetState
<1>16. CASE NextLaunch \/ Launch \/ RecordLaunch \/ StopLaunched \/ ReadSnapshot
  BY <1>1, <1>16 DEF NextLaunch, Launch, RecordLaunch, StopLaunched, ReadSnapshot,
     Creator, StopContainers, Job, JobLost
<1>17. CASE ReadEntries \/ FinishNotify \/ FinishStop
  BY <1>1, <1>17 DEF ReadEntries, FinishNotify, FinishStop, Job, JobLost,
     StopContainers
<1>18. ASSUME NEW h \in Handler, CancelJobs(h) \/ ReadTask(h) \/ NotifyWorkers(h) \/
               StopWorkers(h)
      PROVE  CompletedIsReported'
  BY <1>1, <1>18 DEF CancelJobs, ReadTask, NotifyWorkers, StopWorkers, Move,
     StopContainers
<1>19. ASSUME NEW final \in BOOLEAN, Publish(final)
      PROVE  CompletedIsReported'
  BY <1>1, <1>19 DEF Publish
<1>20. ASSUME NEW n \in 1..scope.entries, ChangedCheck(n) \/ ChangedStart(n)
      PROVE  CompletedIsReported'
  BY <1>1, <1>20 DEF ChangedCheck, ChangedStart
<1>21. ASSUME NEW q \in Question, Advise(q) \/ Ask(q) \/ Answer(q)
      PROVE  CompletedIsReported'
  BY <1>1, <1>21 DEF Advise, Ask, Answer, Asker
<1>22. CASE UNCHANGED vars  BY <1>1, <1>22 DEF vars
<1> QED
  BY <1>2, <1>3, <1>4, <1>5, <1>6, <1>7, <1>8, <1>9, <1>10, <1>11, <1>12, <1>13, <1>14,
     <1>15, <1>16, <1>17, <1>18, <1>19, <1>20, <1>21, <1>22, EveryStep, Zenon

LEMMA InitReport == Init => CreatedOnce /\ ReportInv /\ CompletedIsReported
BY DEF Init, CreatedOnce, ReportInv, CompletedIsReported, Exists

\* What the two theorems rest on.
ReportsInv == TypeOK /\ CreatedOnce /\ ReportInv /\ CompletedIsReported

LEMMA ReportsInvHolds == Spec => []ReportsInv
<1>1. Init => ReportsInv
  BY InitTyped, InitReport DEF ReportsInv
<1>2. ReportsInv /\ [Next]_vars => ReportsInv'
  <2> SUFFICES ASSUME ReportsInv, [Next]_vars PROVE ReportsInv'  OBVIOUS
  <2>1. Row /\ Reports /\ scope \in Scopes
    BY TypeParts DEF ReportsInv
  <2> QED
    BY <2>1, TypeKept, CreatedOnceKept, ReportKept, CompletedKept DEF ReportsInv
<1> QED  BY <1>1, <1>2, PTL DEF Spec

\* A report that is about to be saved rests on no entry after snapshot_seq, of those up
\* to it misses only what the limit of the read cuts off, and one of them is a conclusion
\* (read or cut off), for any limit, however many entries come meanwhile and whatever
\* stops, deletes and answered questions write to the task's state
\* (host_agents.py:_report).
THEOREM ReportRestsOnSnapshot == Spec => []ReportIsFixed
<1>1. ReportsInv => ReportIsFixed
  BY FixedInv, TypeParts DEF ReportsInv
<1> QED  BY <1>1, ReportsInvHolds, PTL

\* A task that says COMPLETED has a report, and the file, the row of writeups and
\* final_snapshot_seq are of the same one, the file up to the limit, however stops, deletes, later conclusions
\* and answers overlap with its completion (host_agents.py:_report).
THEOREM CompletedHasReport == Spec => []CompletedIsReported
<1>1. ReportsInv => CompletedIsReported
  BY DEF ReportsInv
<1> QED  BY <1>1, ReportsInvHolds, PTL

-------------------------------------------------------------------------------
\* The containers.

\* Containers are of the task's workers, whose rows exist as long as the task does.
LaunchInv ==
  /\ containers \subseteq scope.workers /\ todo \subseteq scope.workers
  /\ creator \notin {"new", "insert"} /\ Exists => inserted

\* Without a stop that overlapped the creation of the task: a request that has read the
\* agents stops all of them, and past that only what Docker refused to remove is left.
ReclaimInv ==
  /\ \A h \in Handler : handler[h] \notin {"idle", "read"} => creator = "done"
  /\ \A h \in Handler : handler[h] \in {"notify", "containers", "reclaim"} /\ Exists
                          => targets[h] = scope.workers
  /\ \A h \in Handler : handler[h] \in {"stopped", "delete"} /\ Exists
                          => containers \subseteq refused
  /\ job = "completed" => creator = "done" /\ containers \subseteq refused
  /\ state \in {"completed", "cancelled", "deleted"}
       => creator = "done" /\ containers \subseteq refused

Undisturbed == ~raced => ReclaimInv

LEMMA LaunchKept ==
  ASSUME Creation, CreatedOnce, LaunchInv, scope \in Scopes, [Next]_vars
  PROVE  LaunchInv'
<1> USE DEF row, creation, handlers, changes, report, questions, LaunchInv, Exists,
        CreatedOnce, Creation
<1>0. scope' = scope
  BY ScopeKept
<1>1. ASSUME UNCHANGED <<containers, todo, creator, state, inserted>>
      PROVE  LaunchInv'
  BY <1>0, <1>1
<1>2. CASE CreateTask
  BY <1>0, <1>2 DEF CreateTask, Creator
<1>3. CASE InsertAgents
  BY <1>0, <1>3 DEF InsertAgents, Creator
<1>4. CASE PublishPrompts
  BY <1>0, <1>4 DEF PublishPrompts, Creator
<1>5. CASE NextLaunch
  BY <1>0, <1>5 DEF NextLaunch
<1>6. CASE Launch
  BY <1>0, <1>6 DEF Launch, Creator
<1>7. CASE RecordLaunch
  BY <1>0, <1>7 DEF RecordLaunch
<1>8. CASE SetRunning
  BY <1>0, <1>8 DEF SetRunning, Creator, SetState
<1>9. CASE SetFailed
  BY <1>0, <1>9 DEF SetFailed, Creator, SetState
<1>10. CASE StopLaunched
  BY <1>0, <1>10 DEF StopLaunched, Creator, StopContainers
<1>11. ASSUME NEW h \in Handler, StopWorkers(h) PROVE LaunchInv'
  BY <1>0, <1>11 DEF StopWorkers, Move, StopContainers
<1>12. ASSUME NEW h \in Handler, SetCancelled(h) PROVE LaunchInv'
  BY <1>0, <1>12 DEF SetCancelled, Move, SetState
<1>13. ASSUME NEW h \in Handler, DeleteTask(h) PROVE LaunchInv'
  BY <1>0, <1>13 DEF DeleteTask, Move, Cascade
<1>14. CASE Finalize
  BY <1>0, <1>14 DEF Finalize, Job, JobLost, SetState
<1>15. CASE FixSnapshot
  BY <1>0, <1>15 DEF FixSnapshot, Job, JobLost
<1>16. CASE FinishStop
  BY <1>0, <1>16 DEF FinishStop, Job, StopContainers
<1>17. CASE FinishReport
  BY <1>0, <1>17 DEF FinishReport, Job, JobLost, SetState
<1>18. ASSUME NEW q \in Question, SetWaiting(q) PROVE LaunchInv'
  BY <1>0, <1>18 DEF SetWaiting, Asker, SetState
<1>19. ASSUME NEW q \in Question, SetAnswered(q) PROVE LaunchInv'
  BY <1>0, <1>19 DEF SetAnswered, SetState
<1>20. ASSUME NEW h \in Handler, CancelJobs(h) \/ ReadTask(h) \/ NotifyWorkers(h)
      PROVE  LaunchInv'
  BY <1>1, <1>20 DEF CancelJobs, ReadTask, NotifyWorkers, Move
<1>21. ASSUME NEW final \in BOOLEAN, Publish(final)
      PROVE  LaunchInv'
  BY <1>1, <1>21 DEF Publish
<1>22. ASSUME NEW n \in 1..scope.entries, ChangedCheck(n) \/ ChangedStart(n)
      PROVE  LaunchInv'
  BY <1>1, <1>22 DEF ChangedCheck, ChangedStart
<1>23. CASE ReadSnapshot \/ ReadEntries \/ ModelReports \/ SaveWriteup \/ FinishNotify
  BY <1>1, <1>23 DEF ReadSnapshot, ReadEntries, ModelReports, SaveWriteup,
     FinishNotify, Job, JobLost
<1>24. ASSUME NEW q \in Question, Advise(q) \/ Ask(q) \/ Answer(q)
      PROVE  LaunchInv'
  BY <1>1, <1>24 DEF Advise, Ask, Answer, Asker
<1>25. CASE UNCHANGED vars  BY <1>1, <1>25 DEF vars
<1> QED
  BY <1>2, <1>3, <1>4, <1>5, <1>6, <1>7, <1>8, <1>9, <1>10, <1>11, <1>12, <1>13, <1>14,
     <1>15, <1>16, <1>17, <1>18, <1>19, <1>20, <1>21, <1>22, <1>23, <1>24, <1>25,
     EveryStep, Zenon

\* Stopping leaves what Docker refused to remove, if not more was there.
LEMMA StoppedIsRefused ==
  ASSUME NEW W, StopContainers(W)
  PROVE  /\ containers' \subseteq containers
         /\ containers \subseteq refused \/
                 containers \subseteq W => containers' \subseteq refused'
BY DEF StopContainers

LEMMA UndisturbedKept ==
  ASSUME Requests, CreatedOnce, LaunchInv, Undisturbed, scope \in Scopes, [Next]_vars
  PROVE  Undisturbed'
<1> USE DEF row, creation, handlers, changes, report, questions, Undisturbed,
        ReclaimInv, Exists, CreatedOnce, Requests, LaunchInv
<1>0. scope' = scope
  BY ScopeKept
<1>1. ASSUME UNCHANGED <<state, creator, raced, handler, targets, job, containers, refused>>
      PROVE  Undisturbed'
  BY <1>0, <1>1
<1>2. CASE CreateTask
  BY <1>0, <1>2 DEF CreateTask, Creator
<1>3. CASE InsertAgents
  BY <1>0, <1>3 DEF InsertAgents, Creator
<1>4. CASE PublishPrompts
  BY <1>0, <1>4 DEF PublishPrompts, Creator
<1>5. CASE NextLaunch
  BY <1>0, <1>5 DEF NextLaunch
<1>6. CASE Launch
  BY <1>0, <1>6 DEF Launch, Creator
<1>7. CASE RecordLaunch
  BY <1>0, <1>7 DEF RecordLaunch
<1>8. CASE SetRunning
  BY <1>0, <1>8 DEF SetRunning, Creator, SetState
<1>9. CASE SetFailed
  BY <1>0, <1>9 DEF SetFailed, Creator, SetState
<1>10. CASE StopLaunched
  <2>1. containers' \subseteq containers /\ creator' = "done" /\ creator = "cleanup"
    BY <1>10, StoppedIsRefused DEF StopLaunched, Creator
  <2> QED  BY <1>0, <1>10, <2>1 DEF StopLaunched, Creator
<1>11. ASSUME NEW h \in Handler, CancelJobs(h) PROVE Undisturbed'
  BY <1>0, <1>11 DEF CancelJobs
<1>12. ASSUME NEW h \in Handler, ReadTask(h) PROVE Undisturbed'
  BY <1>0, <1>12 DEF ReadTask
<1>13. ASSUME NEW h \in Handler, NotifyWorkers(h) PROVE Undisturbed'
  BY <1>0, <1>13 DEF NotifyWorkers, Move
<1>14. ASSUME NEW h \in Handler, StopWorkers(h) PROVE Undisturbed'
  <2>1. /\ UNCHANGED <<state, creator, raced, job>>
        /\ handler[h] \in {"containers", "reclaim"}
        /\ handler' = [handler EXCEPT ![h] = IF @ = "containers" THEN "stopped" ELSE "delete"]
        /\ targets' = targets /\ StopContainers(targets[h])
    BY <1>14 DEF StopWorkers, Move
  <2>2. ~raced /\ containers \subseteq refused => containers' \subseteq refused'
    BY <2>1, StoppedIsRefused
  <2>3. ~raced /\ Exists => containers' \subseteq refused'
    BY <1>0, <2>1, StoppedIsRefused
  <2> QED  BY <1>0, <2>1, <2>2, <2>3
<1>15. ASSUME NEW h \in Handler, SetCancelled(h) PROVE Undisturbed'
  BY <1>0, <1>15 DEF SetCancelled, Move, SetState
<1>16. ASSUME NEW h \in Handler, DeleteTask(h) PROVE Undisturbed'
  BY <1>0, <1>16 DEF DeleteTask, Move, Cascade
<1>17. ASSUME NEW n \in 1..scope.entries, ChangedStart(n) PROVE Undisturbed'
  BY <1>0, <1>17 DEF ChangedStart
<1>18. CASE Finalize
  BY <1>0, <1>18 DEF Finalize, Job, JobLost, SetState
<1>19. CASE ReadSnapshot
  BY <1>0, <1>19 DEF ReadSnapshot, Job, JobLost
<1>20. CASE FixSnapshot
  BY <1>0, <1>20 DEF FixSnapshot, Job, JobLost
<1>21. CASE ReadEntries
  BY <1>0, <1>21 DEF ReadEntries, Job, JobLost
<1>22. CASE ModelReports
  BY <1>0, <1>22 DEF ModelReports, Job
<1>23. CASE SaveWriteup
  BY <1>0, <1>23 DEF SaveWriteup, Job
<1>24. CASE FinishNotify
  BY <1>0, <1>24 DEF FinishNotify, Job
<1>25. CASE FinishStop
  <2>1. CASE Job("abandoning", "failed")
    BY <1>0, <1>25, <2>1, StoppedIsRefused DEF FinishStop, Job
  <2>2. CASE Job("stopping", "completed")
    BY <1>0, <1>25, <2>2, StoppedIsRefused DEF FinishStop, Job
  <2> QED  BY <1>25, <2>1, <2>2 DEF FinishStop
<1>26. CASE FinishReport
  BY <1>0, <1>26 DEF FinishReport, Job, JobLost, SetState
<1>27. ASSUME NEW q \in Question, SetWaiting(q) PROVE Undisturbed'
  BY <1>0, <1>27 DEF SetWaiting, Asker, SetState
<1>28. ASSUME NEW q \in Question, SetAnswered(q) PROVE Undisturbed'
  BY <1>0, <1>28 DEF SetAnswered, SetState
<1>29. ASSUME NEW final \in BOOLEAN, Publish(final)
      PROVE  Undisturbed'
  BY <1>1, <1>29 DEF Publish
<1>30. ASSUME NEW n \in 1..scope.entries, ChangedCheck(n)
      PROVE  Undisturbed'
  BY <1>1, <1>30 DEF ChangedCheck
<1>31. ASSUME NEW q \in Question, Advise(q) \/ Ask(q) \/ Answer(q)
      PROVE  Undisturbed'
  BY <1>1, <1>31 DEF Advise, Ask, Answer, Asker
<1>32. CASE UNCHANGED vars  BY <1>1, <1>32 DEF vars
<1> QED
  BY <1>2, <1>3, <1>4, <1>5, <1>6, <1>7, <1>8, <1>9, <1>10, <1>11, <1>12, <1>13, <1>14,
     <1>15, <1>16, <1>17, <1>18, <1>19, <1>20, <1>21, <1>22, <1>23, <1>24, <1>25,
     <1>26, <1>27, <1>28, <1>29, <1>30, <1>31, <1>32, EveryStep, Zenon

LEMMA InitReclaim == Init => LaunchInv /\ Undisturbed
<1> SUFFICES ASSUME Init PROVE LaunchInv /\ Undisturbed  OBVIOUS
<1>1. LaunchInv
  BY DEF Init, LaunchInv, Exists
<1>2. ReclaimInv
  BY DEF Init, ReclaimInv, Exists
<1> QED  BY <1>1, <1>2 DEF Undisturbed

\* Once a task is completed, stopped or deleted, the only containers left are those Docker
\* refused to remove, whichever requests, reports and questions cross, as long as no
\* stop overlapped the creation of the task (coordinator.py:stop_task, delete_task,
\* host_agents.py:_report).
THEOREM ContainersReclaimed == Spec => []ContainersAreReclaimed
<1> DEFINE IInv == TypeOK /\ CreatedOnce /\ LaunchInv /\ Undisturbed
<1>1. Init => IInv
  BY InitTyped, InitReport, InitReclaim
<1>2. IInv /\ [Next]_vars => IInv'
  <2> SUFFICES ASSUME IInv, [Next]_vars PROVE IInv'  OBVIOUS
  <2>1. Creation /\ Requests /\ scope \in Scopes
    BY TypeParts
  <2> QED
    BY <2>1, TypeKept, CreatedOnceKept, LaunchKept, UndisturbedKept
<1>3. IInv => ContainersAreReclaimed
  BY DEF Undisturbed, ReclaimInv, ContainersAreReclaimed
<1> QED  BY <1>1, <1>2, <1>3, PTL DEF Spec
===============================================================================
