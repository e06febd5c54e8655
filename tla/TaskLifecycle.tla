----------------------------- MODULE TaskLifecycle -----------------------------
(* One task in the control plane: the coroutines that create it, stop it,      *)
(* delete it, ask and answer questions and write its report (coordinator.py,   *)
(* host_agents.py, dialogue.py, app.py), on one event loop. A step is one      *)
(* statement on the task's row, one call of the container runtime, or what     *)
(* happens between two awaits; any other coroutine may run before the next.    *)
(* The row's state is written blindly: update_task compares nothing.           *)
(*                                                                             *)
(* Agent rows only count as inserted or not; the content of entries is their   *)
(* number. A job cancelled while a statement is in flight has done it or not.  *)
EXTENDS Integers, FiniteSets

CONSTANTS Worker,      \* the configured workers
          Handler,     \* HTTP requests that stop or delete the task
          Advice,      \* questions the Supervisor may come to ask
          Request,     \* questions workers may come to ask
          Scopes       \* what one behaviour has: how many entries, which workers,
                       \* handlers and questions (bounds), and the limit of the
                       \* report's read of entries (10 000 in the code)

Question == Advice \union Request

ASSUME LifecycleAssumption ==
  /\ \A s \in Scopes : /\ s.entries \in Nat /\ s.limit \in Nat
                        /\ s.workers \subseteq Worker
                        /\ s.handlers \subseteq Handler
                        /\ s.questions \subseteq Question
  /\ Advice \intersect Request = {}

VARIABLES
  state,      \* task_runs.state, "absent" and "deleted" without a row
  inserted,   \* the agent_runs rows exist
  size,       \* task_runs.blackboard_seq
  finals,     \* numbers of the final_candidate entries
  snapshot,   \* task_runs.final_snapshot_seq
  writeup,    \* snapshot_seq of the latest row of writeups, 0 without one
  file,       \* the last entry writeup.md rests on, 0 without a file
  containers, \* workers whose container exists
  refused,    \* history: containers Docker failed to remove
  creator, todo,       \* create_and_start: its next step, workers still to launch
  handler, op, targets, \* each stop or delete: its next step, the workers it read
  noticed, passed,     \* changed: numbers it was called with, past its state check
  job, jobSnapshot, jobBody, \* the report job: next step, snapshot_seq, last entry read
  registered, \* the task is in _reporter_jobs
  question,   \* state of each pending_questions row, "absent" without one
  asker,      \* the coroutine that asks each question: its next step
  answers,    \* questions whose answer is committed and not yet followed up
  raced,      \* history: a stop began before create_and_start had ended
  scope       \* the bounds of this behaviour and its limit

row == <<state, inserted, size, finals, snapshot, writeup>>
creation == <<creator, todo>>
handlers == <<handler, op, targets>>
changes == <<noticed, passed>>
report == <<job, jobSnapshot, jobBody, registered>>
questions == <<question, asker, answers>>
vars == <<row, file, containers, refused, creation, handlers, changes, report, questions,
          raced, scope>>

States == {"absent", "created", "starting", "running", "waiting_user", "finalizing",
           "reporting", "completed", "failed", "cancelled", "deleted"}

Exists == state \notin {"absent", "deleted"}

\* RunState that changed, _advise and _supervise take for the end.
Terminal == state \in {"completed", "failed", "cancelled"}

TypeOK ==
  /\ state \in States
  /\ inserted \in BOOLEAN
  /\ size \in 0..scope.entries
  /\ finals \subseteq 1..size
  /\ snapshot \in 0..scope.entries /\ writeup \in 0..scope.entries /\ file \in 0..scope.entries
  /\ containers \subseteq Worker /\ refused \subseteq Worker
  /\ creator \in {"new", "insert", "prompts", "next", "launching", "record", "running",
                  "failed", "cleanup", "done"}
  /\ todo \subseteq Worker
  /\ handler \in [Handler -> {"idle", "read", "notify", "containers", "reclaim",
                              "stopped", "delete", "done"}]
  /\ op \in [Handler -> {"none", "stop", "delete"}]
  /\ targets \in [Handler -> SUBSET Worker]
  /\ noticed \subseteq 1..scope.entries /\ passed \subseteq 1..scope.entries
  /\ job \in {"none", "finalizing", "grace", "snapshot", "read", "model", "save",
              "finish", "stopping", "completed", "abandon", "abandoning", "failed",
              "unresolved"}
  /\ jobSnapshot \in 0..scope.entries /\ jobBody \in 0..scope.entries
  /\ registered \in BOOLEAN
  /\ question \in [Question -> {"absent", "waiting", "answered"}]
  /\ asker \in [Question -> {"idle", "advising", "asked", "done"}]
  /\ answers \subseteq Question
  /\ raced \in BOOLEAN
  /\ scope \in Scopes

Init ==
  /\ scope \in Scopes
  /\ state = "absent" /\ inserted = FALSE
  /\ size = 0 /\ finals = {} /\ snapshot = 0 /\ writeup = 0 /\ file = 0
  /\ containers = {} /\ refused = {}
  /\ creator = "new" /\ todo = scope.workers
  /\ handler = [h \in Handler |-> "idle"]
  /\ op = [h \in Handler |-> "none"]
  /\ targets = [h \in Handler |-> {}]
  /\ noticed = {} /\ passed = {}
  /\ job = "none" /\ jobSnapshot = 0 /\ jobBody = 0 /\ registered = FALSE
  /\ question = [q \in Question |-> "absent"]
  /\ asker = [q \in Question |-> "idle"]
  /\ answers = {}
  /\ raced = FALSE

-------------------------------------------------------------------------------
\* Statements.

\* update_task(state=s): raises NotFoundError when the row is gone.
SetState(s) ==
  /\ Exists
  /\ state' = s
  /\ UNCHANGED <<inserted, size, finals, snapshot, writeup>>

\* containers.stop for each of W: a call Docker fails is swallowed.
StopContainers(W) ==
  \E left \in SUBSET (containers \intersect W) :
    /\ containers' = (containers \ W) \union left
    /\ refused' = refused \union left

-------------------------------------------------------------------------------
\* create_and_start.

Creator(from, to) == creator = from /\ creator' = to

CreateTask ==
  /\ Creator("new", "insert")
  /\ state' = "created"
  /\ UNCHANGED <<inserted, size, finals, snapshot, writeup, file, containers, refused,
                 todo, handlers, changes, report, questions, raced>>

\* STARTING and the agent rows; a task deleted by now raises out of the handler.
InsertAgents ==
  /\ \/ /\ Creator("insert", "prompts")
        /\ Exists
        /\ state' = "starting"
        /\ inserted' = TRUE
        /\ UNCHANGED <<size, finals, snapshot, writeup>>
     \/ Creator("insert", "done") /\ ~Exists /\ UNCHANGED row
  /\ UNCHANGED <<file, containers, refused, todo, handlers, changes, report, questions,
                 raced>>

\* The scene prompt and the user's: entries 1 and 2.
PublishPrompts ==
  /\ \/ /\ Creator("prompts", "next")
        /\ Exists
        /\ size + 2 <= scope.entries
        /\ size' = size + 2
        /\ UNCHANGED <<state, inserted, finals, snapshot, writeup>>
     \/ Creator("prompts", "done") /\ ~Exists /\ UNCHANGED row
  /\ UNCHANGED <<file, containers, refused, todo, handlers, changes, report, questions,
                 raced>>

\* update_agent before a launch; all launched, the task is RUNNING.
NextLaunch ==
  /\ creator = "next"
  /\ creator' = IF todo = {} THEN "running" ELSE IF Exists THEN "launching" ELSE "failed"
  /\ UNCHANGED <<row, file, containers, refused, todo, handlers, changes, report,
                 questions, raced>>

\* containers.launch ends in its thread, or Docker fails it.
Launch ==
  /\ \/ /\ Creator("launching", "record")
        /\ \E w \in todo : containers' = containers \union {w} /\ todo' = todo \ {w}
     \/ Creator("launching", "failed") /\ UNCHANGED <<containers, todo>>
  /\ UNCHANGED <<row, file, refused, handlers, changes, report, questions, raced>>

\* update_agent(container_id) and the status message.
RecordLaunch ==
  /\ creator = "record"
  /\ creator' = IF Exists THEN "next" ELSE "failed"
  /\ UNCHANGED <<row, file, containers, refused, todo, handlers, changes, report,
                 questions, raced>>

SetRunning ==
  /\ \/ Creator("running", "done") /\ SetState("running")
     \/ Creator("running", "failed") /\ ~Exists /\ UNCHANGED row
  /\ UNCHANGED <<file, containers, refused, todo, handlers, changes, report, questions,
                 raced>>

\* except: update_task, itself raising when the task is gone, comes first.
SetFailed ==
  /\ \/ Creator("failed", "cleanup") /\ SetState("failed")
     \/ Creator("failed", "done") /\ ~Exists /\ UNCHANGED row
  /\ UNCHANGED <<file, containers, refused, todo, handlers, changes, report, questions,
                 raced>>

StopLaunched ==
  /\ Creator("cleanup", "done")
  /\ StopContainers(scope.workers)
  /\ UNCHANGED <<row, file, todo, handlers, changes, report, questions, raced>>

CreatorStep ==
  \/ CreateTask \/ InsertAgents \/ PublishPrompts \/ NextLaunch \/ Launch
  \/ RecordLaunch \/ SetRunning \/ SetFailed \/ StopLaunched

-------------------------------------------------------------------------------
\* stop_task and delete_task.

\* A request that is done forgets what it was.
Move(h, from, to) ==
  /\ handler[h] = from
  /\ handler' = [handler EXCEPT ![h] = to]
  /\ op' = IF to = "done" THEN [op EXCEPT ![h] = "none"] ELSE op
  /\ targets' = IF to = "done" THEN [targets EXCEPT ![h] = {}] ELSE targets

\* automation.cancel, which looks at no row: the report job and the Supervisor's
\* end where they are.
CancelJobs(h) ==
  /\ state # "absent"
  /\ handler[h] = "idle"
  /\ handler' = [handler EXCEPT ![h] = "read"]
  /\ \E o \in {"stop", "delete"} : op' = [op EXCEPT ![h] = o]
  /\ job' = "none" /\ jobSnapshot' = 0 /\ jobBody' = 0
  /\ registered' = FALSE
  /\ asker' = [q \in Question |-> IF q \in Advice /\ asker[q] \in {"advising", "asked"}
                                  THEN "done" ELSE asker[q]]
  /\ UNCHANGED <<row, file, containers, refused, creation, targets, changes, question,
                 answers, raced>>

\* Mutation: only a running task is stopped before its row is deleted.
ReadTaskIdleDone(h) ==
  /\ handler[h] = "read"
  /\ handler' = [handler EXCEPT ![h] =
       IF op[h] = "delete" /\ state # "running" THEN "delete" ELSE "notify"]
  /\ targets' = [targets EXCEPT ![h] = IF inserted THEN scope.workers ELSE {}]
  /\ raced' = (raced \/ creator # "done")
  /\ UNCHANGED <<row, file, containers, refused, creation, op, changes, report, questions>>

\* delete_task's get_task, which decides whether to stop first, and list_agents.
ReadTask(h) ==
  /\ handler[h] = "read"
  /\ handler' = [handler EXCEPT ![h] =
       IF op[h] = "delete" /\ Terminal THEN "reclaim"
       ELSE IF op[h] = "delete" /\ ~Exists THEN "done" ELSE "notify"]
  /\ op' = IF op[h] = "delete" /\ ~Exists THEN [op EXCEPT ![h] = "none"] ELSE op
  /\ targets' = [targets EXCEPT ![h] = IF inserted THEN scope.workers ELSE {}]
  /\ raced' = (raced \/ creator # "done")
  /\ UNCHANGED <<row, file, containers, refused, creation, changes, report, questions>>

\* STOPPING and session.stop, worker by worker; a lost row or a socket that has
\* just closed raises, and the request fails half-way.
NotifyWorkers(h) ==
  /\ \/ Move(h, "notify", "containers") /\ (Exists \/ targets[h] = {})
     \/ Move(h, "notify", "done") /\ targets[h] # {}
  /\ UNCHANGED <<row, file, containers, refused, creation, changes, report,
                 questions, raced>>

\* The delete of a finished task goes on to the row; stop_task updates it first.
StopWorkers(h) ==
  /\ Move(h, "containers", "stopped") \/ Move(h, "reclaim", "delete")
  /\ StopContainers(targets[h])
  /\ UNCHANGED <<row, file, creation, changes, report, questions, raced>>

\* STOPPED and CANCELLED.
SetCancelled(h) ==
  /\ \/ /\ Move(h, "stopped", IF op[h] = "delete" THEN "delete" ELSE "done")
        /\ SetState("cancelled")
     \/ Move(h, "stopped", "done") /\ ~Exists /\ UNCHANGED row
  /\ UNCHANGED <<file, containers, refused, creation, changes, report,
                 questions, raced>>

\* Mutation: blackboard_entries lacks ON DELETE CASCADE.
KeepEntries ==
  /\ inserted' = FALSE
  /\ size' = 0 /\ snapshot' = 0 /\ writeup' = 0
  /\ question' = [q \in Question |-> "absent"]
  /\ UNCHANGED finals

\* Everything the row owns goes by cascade.
Cascade ==
  /\ inserted' = FALSE
  /\ size' = 0 /\ finals' = {} /\ snapshot' = 0 /\ writeup' = 0
  /\ question' = [q \in Question |-> "absent"]

\* And then the task's directories.
DeleteTask(h) ==
  /\ Move(h, "delete", "done")
  /\ \/ Exists /\ state' = "deleted" /\ file' = 0 /\ Cascade
     \/ ~Exists /\ UNCHANGED <<row, file, question>>
  /\ UNCHANGED <<containers, refused, creation, changes, report, asker,
                 answers, raced>>

HandlerStep(h) ==
  \/ ReadTask(h) \/ NotifyWorkers(h) \/ StopWorkers(h) \/ SetCancelled(h)
  \/ DeleteTask(h)

-------------------------------------------------------------------------------
\* What the agents and the user write, and changed.

\* Entries create_and_start has yet to publish.
Reserved == IF creator \in {"new", "insert", "prompts"} THEN 2 ELSE 0

\* An agent or the user publishes. A conclusion comes from a worker and cites a
\* finding: there is an entry besides the prompts.
Publish(final) ==
  /\ Exists
  /\ size + Reserved < scope.entries
  /\ final => todo # scope.workers /\ size > 2
  /\ size' = size + 1
  /\ finals' = IF final THEN finals \union {size + 1} ELSE finals
  /\ noticed' = IF final THEN noticed \union {size + 1} ELSE noticed
  /\ UNCHANGED <<state, inserted, snapshot, writeup, file, containers, refused, creation,
                 handlers, passed, report, questions, raced>>

\* Mutation: changed turns away every task that is not RUNNING.
ChangedCheckRunning(n) ==
  /\ n \in noticed
  /\ noticed' = noticed \ {n}
  /\ passed' = IF state = "running" THEN passed \union {n} ELSE passed
  /\ UNCHANGED <<row, file, containers, refused, creation, handlers, report, questions,
                 raced>>

\* Automation.changed reads the task, and later the entry it was called for.
ChangedCheck(n) ==
  /\ n \in noticed
  /\ noticed' = noticed \ {n}
  /\ passed' = IF Exists /\ ~Terminal THEN passed \union {n} ELSE passed
  /\ UNCHANGED <<row, file, containers, refused, creation, handlers, report, questions,
                 raced>>

\* One report per task: a second conclusion finds the task registered.
ChangedStart(n) ==
  /\ n \in passed
  /\ passed' = passed \ {n}
  /\ IF n \in finals /\ ~registered
     THEN job' = "finalizing" /\ registered' = TRUE
     ELSE UNCHANGED <<job, registered>>
  /\ UNCHANGED <<row, file, containers, refused, creation, handlers, noticed, jobSnapshot,
                 jobBody, questions, raced>>

-------------------------------------------------------------------------------
\* _report.

\* A job that has ended leaves nothing behind.
Job(from, to) == job = from /\ job' = to

\* A statement of the job before its try block, or after it: without the row it
\* raises and the job is gone.
JobLost(from) == Job(from, "none") /\ ~Exists

Finalize ==
  /\ \/ Job("finalizing", "grace") /\ SetState("finalizing")
     \/ JobLost("finalizing") /\ UNCHANGED row
  /\ UNCHANGED <<file, containers, refused, creation, handlers, changes, jobSnapshot,
                 jobBody, registered, questions, raced>>

\* After finalization_grace_seconds.
ReadSnapshot ==
  /\ \/ Job("grace", "snapshot") /\ Exists /\ jobSnapshot' = size
     \/ JobLost("grace") /\ UNCHANGED jobSnapshot
  /\ UNCHANGED <<row, file, containers, refused, creation, handlers, changes, jobBody,
                 registered, questions, raced>>

FixSnapshot ==
  /\ \/ /\ Job("snapshot", "read")
        /\ Exists
        /\ state' = "reporting"
        /\ snapshot' = jobSnapshot
        /\ UNCHANGED <<inserted, size, finals, writeup>>
     \/ JobLost("snapshot") /\ UNCHANGED row
  /\ UNCHANGED <<file, containers, refused, creation, handlers, changes, jobSnapshot,
                 jobBody, registered, questions, raced>>

\* list_entries in order of their numbers, up to n and with the limit: the last
\* one it returns. Of a longer blackboard it returns the oldest.
LastRead(n) == IF n <= scope.limit THEN n ELSE scope.limit

\* Mutation: the entries are read without up_to_seq.
ReadAllEntries ==
  /\ \/ Job("read", "model") /\ Exists /\ jobBody' = LastRead(size)
     \/ Job("read", "unresolved") /\ Exists /\ UNCHANGED jobBody
     \/ JobLost("read") /\ UNCHANGED jobBody
  /\ UNCHANGED <<row, file, containers, refused, creation, handlers, changes, jobSnapshot,
                 registered, questions, raced>>

\* The Reporter's configuration and the entries up to snapshot_seq. A model or a
\* provider that is gone raises outside the try block.
ReadEntries ==
  /\ \/ Job("read", "model") /\ Exists /\ jobBody' = LastRead(jobSnapshot)
     \/ Job("read", "unresolved") /\ Exists /\ UNCHANGED jobBody
     \/ JobLost("read") /\ UNCHANGED jobBody
  /\ UNCHANGED <<row, file, containers, refused, creation, handlers, changes, jobSnapshot,
                 registered, questions, raced>>

\* The model answers or fails; an answer is written to writeup.md.
ModelReports ==
  /\ \/ Job("model", "save") /\ file' = jobBody
     \/ Job("model", "abandon") /\ UNCHANGED file
  /\ UNCHANGED <<row, containers, refused, creation, handlers, changes, jobSnapshot,
                 jobBody, registered, questions, raced>>

\* Mutation: ON CONFLICT (task_id) DO NOTHING.
SaveFirstWriteup ==
  /\ \/ /\ Job("save", "finish")
        /\ Exists
        /\ writeup' = IF writeup = 0 THEN jobSnapshot ELSE writeup
     \/ Job("save", "abandon") /\ ~Exists /\ UNCHANGED writeup
  /\ UNCHANGED <<state, inserted, size, finals, snapshot, file, containers, refused,
                 creation, handlers, changes, jobSnapshot, jobBody, registered, questions,
                 raced>>

SaveWriteup ==
  /\ \/ Job("save", "finish") /\ Exists /\ writeup' = jobSnapshot
     \/ Job("save", "abandon") /\ ~Exists /\ UNCHANGED writeup
  /\ UNCHANGED <<state, inserted, size, finals, snapshot, file, containers, refused,
                 creation, handlers, changes, jobSnapshot, jobBody, registered, questions,
                 raced>>

\* finish_task_workers, which may raise like stop_task's loop; after a failure it
\* is tried once more, and a second failure is swallowed.
FinishNotify ==
  /\ \/ Job("finish", "stopping") /\ Exists
     \/ Job("finish", "abandon")
     \/ Job("abandon", "abandoning") /\ Exists
     \/ Job("abandon", "failed")
  /\ UNCHANGED <<row, file, containers, refused, creation, handlers, changes, jobSnapshot,
                 jobBody, registered, questions, raced>>

FinishStop ==
  /\ Job("stopping", "completed") \/ Job("abandoning", "failed")
  /\ StopContainers(scope.workers)
  /\ raced' = (raced \/ creator # "done")
  /\ UNCHANGED <<row, file, creation, handlers, changes, jobSnapshot, jobBody, registered,
                 questions>>

\* COMPLETED, or FAILED after the except branch.
FinishReport ==
  /\ \/ Job("completed", "none") /\ SetState("completed")
     \/ Job("failed", "none") /\ SetState("failed")
     \/ (JobLost("completed") \/ JobLost("failed")) /\ UNCHANGED row
  /\ jobSnapshot' = 0 /\ jobBody' = 0
  /\ UNCHANGED <<file, containers, refused, creation, handlers, changes,
                 registered, questions, raced>>

ReportStep ==
  \/ Finalize \/ ReadSnapshot \/ FixSnapshot \/ ReadEntries \/ ModelReports
  \/ SaveWriteup \/ FinishNotify \/ FinishStop \/ FinishReport

-------------------------------------------------------------------------------
\* Questions.

Asker(q, from, to) == asker[q] = from /\ asker' = [asker EXCEPT ![q] = to]

\* _advise begins a consultation that will end in a question.
Advise(q) ==
  /\ Asker(q, "idle", "advising")
  /\ Exists /\ ~Terminal
  /\ UNCHANGED <<row, file, containers, refused, creation, handlers, changes, report,
                 question, answers, raced>>

\* dialogue.ask, for the Supervisor or on a worker's agent.needs_user_input.
Ask(q) ==
  /\ \/ q \in Advice /\ asker[q] = "advising"
     \/ q \in Request /\ asker[q] = "idle" /\ todo # scope.workers /\ Exists
  /\ \/ /\ Exists
        /\ asker' = [asker EXCEPT ![q] = "asked"]
        /\ question' = [question EXCEPT ![q] = "waiting"]
     \/ /\ ~Exists
        /\ asker' = [asker EXCEPT ![q] = "done"]
        /\ UNCHANGED question
  /\ UNCHANGED <<row, file, containers, refused, creation, handlers, changes, report,
                 answers, raced>>

\* The asker's second statement.
SetWaiting(q) ==
  /\ Asker(q, "asked", "done")
  /\ SetState("waiting_user") \/ (~Exists /\ UNCHANGED row)
  /\ UNCHANGED <<file, containers, refused, creation, handlers, changes, report, question,
                 answers, raced>>

\* The HTTP handler: answer_question's transaction.
Answer(q) ==
  /\ question[q] = "waiting"
  /\ size + Reserved < scope.entries
  /\ question' = [question EXCEPT ![q] = "answered"]
  /\ size' = size + 1
  /\ answers' = answers \union {q}
  /\ UNCHANGED <<state, inserted, finals, snapshot, writeup, file, containers, refused,
                 creation, handlers, changes, report, asker, raced>>

\* After blackboard_changed: RUNNING, whatever the state is.
SetAnswered(q) ==
  /\ q \in answers
  /\ answers' = answers \ {q}
  /\ SetState("running") \/ (~Exists /\ UNCHANGED row)
  /\ UNCHANGED <<file, containers, refused, creation, handlers, changes, report, question,
                 asker, raced>>

-------------------------------------------------------------------------------
FollowUp ==
  \/ \E n \in 1..scope.entries : ChangedCheck(n) \/ ChangedStart(n)
  \/ \E q \in Question : SetWaiting(q) \/ SetAnswered(q)

Next ==
  /\ UNCHANGED scope
  /\ \/ CreatorStep \/ ReportStep \/ FollowUp
     \/ \E h \in scope.handlers : CancelJobs(h) \/ HandlerStep(h)
     \/ \E final \in BOOLEAN : Publish(final)
     \/ \E q \in scope.questions \intersect Advice : Advise(q)
     \/ \E q \in scope.questions : Ask(q) \/ Answer(q)

\* The event loop runs what is ready, and statements, Docker and the model answer
\* or fail in the time their clients allow. Nobody has to publish, ask, answer,
\* stop or delete.
Fairness ==
  /\ WF_vars(CreatorStep /\ UNCHANGED scope)
  /\ WF_vars(ReportStep /\ UNCHANGED scope)
  /\ WF_vars(FollowUp /\ UNCHANGED scope)
  /\ \A h \in Handler : WF_vars(HandlerStep(h) /\ UNCHANGED scope)

Spec == Init /\ [][Next]_vars /\ Fairness

-------------------------------------------------------------------------------
\* Properties.

\* "宽限期后 Reporter 固定 snapshot_seq，之后的内容不会混入报告": a report that is about to be
\* saved rests on no entry after its snapshot_seq, of those up to it only what the
\* limit of the read cuts off is missing, and one of them is a conclusion, however
\* many entries, stops and second reports cross it. A conclusion beyond the limit
\* is not in the report: the oldest entries are read.
ReportIsFixed ==
  job \in {"model", "save"} /\ Exists =>
    /\ jobBody <= jobSnapshot
    /\ jobBody # jobSnapshot => jobBody = scope.limit
    /\ \E n \in finals : n <= jobSnapshot

\* A task that says COMPLETED can be downloaded: writeup.md, the latest row of
\* writeups and final_snapshot_seq are of the same report.
CompletedIsReported ==
  state = "completed" => /\ writeup > 0 /\ writeup = snapshot
                         /\ file = LastRead(writeup)

\* "任务结束或停止时回收容器": once a task is completed, stopped or deleted, the only
\* containers left are those Docker refused to remove, if no stop overlapped the
\* creation of the task.
ContainersAreReclaimed ==
  state \in {"completed", "cancelled", "deleted"} /\ ~raced => containers \subseteq refused

\* The first conclusion nobody has acted on leads to a report, or to a failure the
\* task shows, unless somebody stops or deletes it or the Reporter's model is no
\* longer configured; and so does a report that has begun.
ConclusionIsReported ==
  (noticed # {} /\ ~registered) \/ job # "none"
    ~> \/ writeup > 0
       \/ state = "failed"
       \/ job = "unresolved"
       \/ \E h \in Handler : handler[h] # "idle"

\* Nothing the control plane does for the task is under way.
Quiet ==
  /\ creator = "done"
  /\ \A h \in Handler : handler[h] \in {"idle", "done"}
  /\ \A q \in Question : asker[q] \in {"idle", "done"}
  /\ answers = {}
  /\ job = "none"

\* "任务结束或停止时回收容器", without the condition: a deleted task leaves no container.
DeletedLeavesNoContainer == state = "deleted" /\ Quiet => containers \subseteq refused

\* "Human-action queue for questions, pauses and failures": attention looks for
\* questions in tasks that wait for the user, so a running task must have none.
WaitingQuestionIsShown ==
  state = "running" /\ Quiet => \A q \in Question : question[q] # "waiting"
===============================================================================
