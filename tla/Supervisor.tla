------------------------------- MODULE Supervisor -------------------------------
(* The Supervisor of one task (host_agents.py): Automation.changed, which every *)
(* writer of the blackboard calls and which keeps the pending record, the job   *)
(* _supervise, which waits for the changes to settle and consults the model,    *)
(* and Automation.cancel. A step is what happens between two awaits on the      *)
(* event loop. Time passes in ticks; the record keeps, instead of instants, the *)
(* ticks left until the instants it leads to.                                   *)
(*                                                                             *)
(* Scene prompts and conclusions, which changed turns away before it gets here, *)
(* are not modelled, nor is a deleted task: cancel precedes a delete.           *)
EXTENDS Integers, FiniteSets

CONSTANTS Published,   \* kinds that workers and the user publish
          Debounce,    \* supervisor_debounce_seconds, in ticks
          IntelWait,   \* supervisor_intel_max_wait_seconds
          Silence,     \* supervisor_silence_seconds
          Interval,    \* supervisor_advice_interval_seconds
          PageSize,    \* default limit of Blackboard.sync
          MaxEntries,  \* bound: entries of the blackboard
          MaxCalls,    \* bound: calls of changed under way when one is added
          MaxQuestions,\* bound: questions open at a time
          MaxStops     \* bound: requests to stop the task

Kind == {"user_prompt", "user_file", "supervisor_advice", "intel", "finding", "qa"}

ASSUME SupervisorAssumption ==
  /\ Published \subseteq Kind \ {"supervisor_advice", "qa"}
  /\ {Debounce, IntelWait, Silence, Interval, PageSize} \subseteq Nat \ {0}
  /\ {MaxEntries, MaxCalls, MaxQuestions, MaxStops} \subseteq Nat

VARIABLES
  size, kind,    \* the blackboard: how many entries, and the kind of each
  age,           \* of an entry of advice: ticks since it was written, up to Interval
  state,         \* of the task: "running", "ended", or "other"
  open,          \* questions that wait for an answer
  answered,      \* an answer's qa entry is written, its RUNNING is to come
  told, checked, \* changed: numbers it was called with, past its state check
  rec,           \* the _SupervisorPending records made so far
  made,          \* how many those are
  registry,      \* the record in _supervisor_pending, 0 without one
  job, held,     \* _supervise: where it is, and the record it was started with
  timer,         \* ticks left of its wait_for
  trigger, silence, base, snap, page, \* _advise: its arguments, what it took for
                 \* the last number handled, sync.latest_seq, entries 1..page read
  advise, ask,   \* what the model decided
  last,          \* _last_supervisor_seq, 0 without one
  stopper, stops, \* a stop: where it is, and how many there were
  lost, over,    \* history: a model could not be resolved, the task ended before
  shown          \* history: entries 1..shown were given to a model

board == <<size, kind, age>>
task == <<state, open, answered>>
changes == <<told, checked>>
records == <<rec, made, registry>>
consultation == <<trigger, silence, base, snap, page, advise, ask>>
jobState == <<job, held, timer>>
stopping == <<stopper, stops>>
history == <<lost, over, shown>>
vars == <<board, task, changes, records, jobState, consultation, last, stopping, history>>

Larger(m, n) == IF m < n THEN n ELSE m
Smaller(m, n) == IF m < n THEN m ELSE n

\* An instant that is not set.
Never == Debounce + IntelWait

Record == [latest : 0..MaxEntries, quiet : 0..Debounce, intel : 0..IntelWait \union {Never},
           immediate : BOOLEAN, event : BOOLEAN]

NoRecord == [latest |-> 0, quiet |-> 0, intel |-> Never, immediate |-> FALSE,
             event |-> FALSE]

RecordId == 1..(MaxStops + 1)

Waiting == {"idle", "debounce"}
Consulting == {"read", "resolve", "sync", "entries", "model", "publish", "question",
               "waiting", "finish"}

TypeOK ==
  /\ size \in 0..MaxEntries
  /\ kind \in [1..MaxEntries -> Kind]
  /\ age \in [1..MaxEntries -> 0..Interval]
  /\ state \in {"running", "other", "ended"}
  /\ open \in 0..MaxQuestions
  /\ answered \in BOOLEAN
  /\ told \subseteq 1..size /\ checked \subseteq 1..size
  /\ rec \in [RecordId -> Record]
  /\ made \in 0..(MaxStops + 1) /\ registry \in 0..made
  /\ job \in {"none", "loop"} \union Waiting \union Consulting
  /\ held \in 0..made
  /\ timer \in 0..Larger(Silence, Never)
  /\ {trigger, base, snap, page, last} \subseteq 0..size
  /\ silence \in BOOLEAN /\ advise \in BOOLEAN /\ ask \in BOOLEAN
  /\ stopper \in {"idle", "gather", "stop"}
  /\ stops \in 0..MaxStops
  /\ lost \in BOOLEAN /\ over \in BOOLEAN /\ shown \in 0..size

Init ==
  /\ size = 0 /\ kind = [n \in 1..MaxEntries |-> "user_prompt"]
  /\ age = [n \in 1..MaxEntries |-> 0]
  /\ state = "running" /\ open = 0 /\ answered = FALSE
  /\ told = {} /\ checked = {}
  /\ rec = [g \in RecordId |-> NoRecord] /\ made = 0 /\ registry = 0
  /\ job = "none" /\ held = 0 /\ timer = 0
  /\ trigger = 0 /\ silence = FALSE /\ base = 0 /\ snap = 0 /\ page = 0
  /\ advise = FALSE /\ ask = FALSE
  /\ last = 0
  /\ stopper = "idle" /\ stops = 0
  /\ lost = FALSE /\ over = FALSE /\ shown = 0

-------------------------------------------------------------------------------
\* The blackboard and the task.

\* Where the bounds leave room, next to the advice that was decided on.
Room ==
  /\ size + (IF job = "publish" THEN 1 ELSE 0) < MaxEntries
  /\ Cardinality(told \union checked) < MaxCalls

\* An entry is committed, and its writer calls changed.
AddEntry(k) ==
  /\ size' = size + 1
  /\ kind' = [kind EXCEPT ![size + 1] = k]
  /\ told' = told \union {size + 1}

Publish(k) ==
  /\ Room
  /\ AddEntry(k)
  /\ UNCHANGED <<age, task, checked, records, jobState, consultation, last, stopping,
                 history>>

\* A user answers: the qa entry and its change, and then RUNNING.
Answer ==
  /\ open > 0 /\ ~answered /\ Room
  /\ AddEntry("qa")
  /\ open' = open - 1
  /\ answered' = TRUE
  /\ UNCHANGED <<age, state, checked, records, jobState, consultation, last, stopping,
                 history>>

SetAnswered ==
  /\ answered /\ \A n \in told \union checked : kind[n] # "qa"
  /\ answered' = FALSE
  /\ state' = "running"
  /\ UNCHANGED <<board, open, changes, records, jobState, consultation, last, stopping,
                 history>>

\* The Reporter: FINALIZING or REPORTING, then COMPLETED or FAILED.
Report ==
  /\ state # "ended"
  /\ state' \in {"other", "ended"}
  /\ over' = (over \/ state' = "ended")
  /\ UNCHANGED <<board, open, answered, changes, records, jobState, consultation, last,
                 stopping, lost, shown>>

-------------------------------------------------------------------------------
\* changed.

\* get_task
Check(n) ==
  /\ n \in told
  /\ told' = told \ {n}
  /\ checked' = IF state = "ended" THEN checked ELSE checked \union {n}
  /\ UNCHANGED <<board, task, records, jobState, consultation, last, stopping, history>>

\* Mutation: the numbers are not merged.
NotedLatest(r, n) ==
  [r EXCEPT !.latest = n, !.quiet = Debounce, !.event = TRUE,
            !.intel = IF kind[n] = "intel" /\ r.intel = Never THEN IntelWait ELSE r.intel,
            !.immediate = r.immediate \/ kind[n] \in {"finding", "qa"}]

\* What entry n makes of a record.
Noted(r, n) ==
  [r EXCEPT !.latest = Larger(r.latest, n), !.quiet = Debounce, !.event = TRUE,
            !.intel = IF kind[n] = "intel" /\ r.intel = Never THEN IntelWait ELSE r.intel,
            !.immediate = r.immediate \/ kind[n] \in {"finding", "qa"}]

\* Once list_entries has returned: no await from here on.
Note(n) ==
  /\ n \in checked
  /\ checked' = checked \ {n}
  /\ \/ /\ kind[n] = "supervisor_advice"
        /\ UNCHANGED <<records, job, held>>
     \/ /\ kind[n] # "supervisor_advice"
        /\ LET g == IF registry = 0 THEN made + 1 ELSE registry IN
           /\ registry' = g
           /\ made' = Larger(made, g)
           /\ rec' = [rec EXCEPT ![g] = Noted(rec[g], n)]
           /\ IF job = "none" THEN job' = "loop" /\ held' = g ELSE UNCHANGED <<job, held>>
  /\ UNCHANGED <<board, task, told, timer, consultation, last, stopping, history>>

-------------------------------------------------------------------------------
\* _supervise.

Pending == rec[held]

\* Mutation: the batch of intel has no upper limit.
ReadyInUncapped(r) == IF r.immediate THEN 0 ELSE r.quiet

\* ready_at - now, at least 0
ReadyIn(r) == IF r.immediate THEN 0 ELSE Smaller(r.quiet, r.intel)

Settled(r) == [r EXCEPT !.latest = 0, !.intel = Never, !.immediate = FALSE]

\* Hand the pending number to _advise.
Take ==
  /\ trigger' = Pending.latest
  /\ rec' = [rec EXCEPT ![held] = Settled(Pending)]
  /\ job' = "read"
  /\ timer' = 0

WaitFor(where, ticks) ==
  /\ rec' = [rec EXCEPT ![held].event = FALSE]
  /\ job' = where
  /\ timer' = ticks
  /\ UNCHANGED trigger

\* One round, up to a wait or the consultation.
Loop ==
  /\ job = "loop"
  /\ \/ Pending.latest = 0 /\ WaitFor("idle", Silence)
     \/ Pending.latest # 0 /\ ReadyIn(Pending) > 0 /\ WaitFor("debounce", ReadyIn(Pending))
     \/ Pending.latest # 0 /\ ReadyIn(Pending) = 0 /\ Take
  /\ UNCHANGED <<board, task, changes, made, registry, held, silence, base, snap, page,
                 advise, ask, last, stopping, history>>

\* The event is set: round again.
Wake ==
  /\ job \in Waiting
  /\ Pending.event
  /\ job' = "loop" /\ timer' = 0
  /\ UNCHANGED <<board, task, changes, records, held, consultation, last, stopping, history>>

\* A debounce runs out: no second look at ready_at.
Settle ==
  /\ job = "debounce"
  /\ timer = 0
  /\ Take
  /\ UNCHANGED <<board, task, changes, made, registry, held, silence, base, snap, page,
                 advise, ask, last, stopping, history>>

\* Mutation: a task that has ended is skipped like one that waits.
SilenceCheckEndless ==
  /\ job = "idle"
  /\ timer = 0
  /\ \/ state # "running" /\ job' = "loop" /\ UNCHANGED <<trigger, silence>>
     \/ state = "running" /\ job' = "read" /\ trigger' = size /\ silence' = TRUE
  /\ UNCHANGED <<board, task, changes, records, held, timer, base, snap, page, advise, ask,
                 last, stopping, history>>

\* Silence: only a running task is consulted about.
SilenceCheck ==
  /\ job = "idle"
  /\ timer = 0
  /\ \/ state = "ended" /\ job' = "none" /\ UNCHANGED <<trigger, silence>>
     \/ state = "other" /\ job' = "loop" /\ UNCHANGED <<trigger, silence>>
     \/ state = "running" /\ job' = "read" /\ trigger' = size /\ silence' = TRUE
  /\ UNCHANGED <<board, task, changes, records, held, timer, base, snap, page, advise, ask,
                 last, stopping, history>>

\* The locals of _advise go out of scope.
Leave ==
  /\ trigger' = 0 /\ silence' = FALSE /\ base' = 0 /\ snap' = 0 /\ page' = 0
  /\ advise' = FALSE /\ ask' = FALSE

\* Mutation: whatever came in during the consultation is cleared.
ReturnClearing(p) ==
  /\ job' = "loop"
  /\ rec' = IF silence THEN rec ELSE [rec EXCEPT ![held] = Settled(Pending)]
  /\ Leave

\* _advise returns p: what came in meanwhile and is covered by p is cleared.
Return(p) ==
  /\ job' = "loop"
  /\ rec' = IF ~silence /\ Pending.latest <= p
            THEN [rec EXCEPT ![held] = Settled(Pending)] ELSE rec
  /\ Leave

-------------------------------------------------------------------------------
\* _advise.

Job(from, to) == job = from /\ job' = to

\* get_task, and the early returns.
Read ==
  /\ job = "read"
  /\ \/ state = "ended" /\ Return(size)
     \/ state # "ended" /\ trigger <= last /\ ~silence /\ Return(last)
     \/ /\ state # "ended" /\ (trigger > last \/ silence)
        /\ base' = last
        /\ job' = "resolve"
        /\ UNCHANGED <<rec, trigger, silence, snap, page, advise, ask>>
  /\ UNCHANGED <<board, task, changes, made, registry, held, timer, last, stopping, history>>

\* resolve_agent
Resolve ==
  /\ Job("resolve", "sync")
  /\ UNCHANGED <<board, task, changes, records, held, timer, consultation, last, stopping,
                 history>>

\* Its model is no longer configured: the exception ends the job.
Unresolved ==
  /\ Job("resolve", "none")
  /\ lost' = TRUE
  /\ Leave
  /\ UNCHANGED <<board, task, changes, records, held, timer, last, stopping, over, shown>>

\* sync reads latest_seq, and then the first PageSize entries.
SyncTask ==
  /\ Job("sync", "entries")
  /\ snap' = size
  /\ UNCHANGED <<board, task, changes, records, held, timer, trigger, silence, base, page,
                 advise, ask, last, stopping, history>>

SyncEntries ==
  /\ Job("entries", "model")
  /\ page' = Smaller(size, PageSize)
  /\ shown' = Larger(shown, page')
  /\ UNCHANGED <<board, task, changes, records, held, timer, trigger, silence, base, snap,
                 advise, ask, last, stopping, lost, over>>

\* The model call fails.
ModelFails ==
  /\ job = "model"
  /\ last' = snap
  /\ Return(snap)
  /\ UNCHANGED <<board, task, changes, made, registry, held, timer, stopping, history>>

New == (base + 1)..page

\* Mutation: any new entry lifts the interval.
BypassAlways == \E n \in New : kind[n] # "supervisor_advice"

BypassInterval == \E n \in New : kind[n] \in {"user_prompt", "finding"}

Advice(upTo) == {n \in 1..upTo : kind[n] = "supervisor_advice"}

\* The interval since the newest advice read is not over.
Recent(upTo) == \E n \in Advice(upTo) : (\A m \in Advice(upTo) : m <= n) /\ age[n] < Interval

\* The model answers; the progress goes to the dialogue. Whether advice resembles
\* an earlier one, and is dropped for that, is part of the model's choice here.
ModelDecides ==
  /\ job = "model"
  /\ advise' \in BOOLEAN /\ ask' \in BOOLEAN
  /\ advise' => (BypassInterval \/ ~Recent(page)) /\ size < MaxEntries
  /\ ask' => open < MaxQuestions
  /\ job' = IF advise' THEN "publish" ELSE IF ask' THEN "question" ELSE "finish"
  /\ UNCHANGED <<board, task, changes, records, held, timer, trigger, silence, base, snap,
                 page, last, stopping, history>>

PublishAdvice ==
  /\ Job("publish", IF ask THEN "question" ELSE "finish")
  /\ AddEntry("supervisor_advice")
  /\ UNCHANGED <<age, task, checked, records, held, timer, consultation, last, stopping,
                 history>>

\* dialogue.ask
AskUser ==
  /\ Job("question", "waiting")
  /\ open' = open + 1
  /\ UNCHANGED <<board, state, answered, changes, records, held, timer, consultation, last,
                 stopping, history>>

\* WAITING_USER, whatever the state is by then.
SetWaiting ==
  /\ Job("waiting", "finish")
  /\ state' = "other"
  /\ UNCHANGED <<board, open, answered, changes, records, held, timer, consultation, last,
                 stopping, history>>

Finish ==
  /\ job = "finish"
  /\ last' = snap
  /\ Return(snap)
  /\ UNCHANGED <<board, task, changes, made, registry, held, timer, stopping, history>>

-------------------------------------------------------------------------------
\* A request to stop the task: cancel, and then CANCELLED.

\* The job is popped and cancelled; with none there is nothing to wait for.
Cancel ==
  /\ stopper = "idle" /\ stops < MaxStops
  /\ stops' = stops + 1
  /\ job' = "none" /\ timer' = 0
  /\ Leave
  /\ \/ job = "none" /\ stopper' = "stop" /\ last' = 0 /\ registry' = 0
     \/ job # "none" /\ stopper' = "gather" /\ UNCHANGED <<last, registry>>
  /\ UNCHANGED <<board, task, changes, rec, made, held, history>>

\* After gather: forget the task. A changed in between has started a new job.
Forget ==
  /\ stopper = "gather"
  /\ stopper' = "stop"
  /\ last' = 0 /\ registry' = 0
  /\ UNCHANGED <<board, task, changes, rec, made, jobState, consultation, stops, history>>

\* The containers are stopped, and the state is written.
Stop ==
  /\ stopper = "stop"
  /\ stopper' = "idle"
  /\ state' = "ended" /\ over' = TRUE
  /\ UNCHANGED <<board, open, answered, changes, records, jobState, consultation, last,
                 stops, lost, shown>>

-------------------------------------------------------------------------------
\* The event loop has nothing to do at this instant, except for what waits for
\* the database or the model.
Rested ==
  /\ job # "loop"
  /\ job \in Waiting => timer > 0 /\ ~Pending.event

\* Mutation: time runs on after the instant.
Minus1Below(t) == t - 1

\* max(0.0, ...): an instant that is past stays due.
Minus1(t) == IF t = 0 THEN 0 ELSE t - 1

\* A second passes.
Tick ==
  /\ Rested
  /\ timer' = Minus1(timer)
  /\ rec' = [g \in RecordId |->
               [rec[g] EXCEPT !.quiet = Minus1(@),
                              !.intel = IF @ = Never THEN Never ELSE Minus1(@)]]
  /\ age' = [n \in 1..MaxEntries |->
               IF n \in Advice(size) THEN Smaller(age[n] + 1, Interval) ELSE 0]
  /\ UNCHANGED <<size, kind, task, changes, made, registry, job, held, consultation, last,
                 stopping, history>>

Supervise ==
  \/ Loop \/ Wake \/ Settle \/ SilenceCheck
  \/ Read \/ Resolve \/ Unresolved \/ SyncTask \/ SyncEntries \/ ModelFails \/ ModelDecides
  \/ PublishAdvice \/ AskUser \/ SetWaiting \/ Finish

Next ==
  \/ \E k \in Published : Publish(k)
  \/ Answer \/ SetAnswered \/ Report
  \/ \E n \in 1..MaxEntries : Check(n) \/ Note(n)
  \/ Supervise \/ Cancel \/ Forget \/ Stop \/ Tick

\* The event loop runs what is ready, the database and the model answer or fail,
\* and time passes.
Fairness ==
  /\ WF_vars(Supervise) /\ WF_vars(Forget \/ Stop) /\ WF_vars(Tick)
  /\ \A n \in 1..MaxEntries : WF_vars(Check(n) \/ Note(n))

Spec == Init /\ [][Next]_vars /\ Fairness

-------------------------------------------------------------------------------
Relevant == {n \in 1..size : kind[n] # "supervisor_advice"}

\* Where an entry may be that the Supervisor was not shown yet: changed is on its
\* way to the record, the record holds its number, or a consultation that began
\* after it is under way.
OnItsWay(n) ==
  \/ n \in told \union checked
  \/ job # "none" /\ n <= rec[held].latest
  \/ job \in {"read", "resolve", "sync"} /\ n <= trigger
  \/ job \in Consulting /\ n <= snap

\* No change is forgotten. "Supervisor 对 Intel 使用 2 秒静默合并和 10 秒批次上限进行审阅"
\* (src/tga3/README.md:42): a change that came in while others settled, or during a
\* consultation, is noted somewhere until a consultation covered it. Excepted are
\* a job lost to its model, and changes since the task was stopped or had ended.
NoChangeForgotten ==
  stops = 0 /\ ~lost /\ ~over => \A n \in Relevant : n <= last \/ OnItsWay(n)

\* Nothing that is due waits. Intel settles for the debounce, but a batch of it no
\* longer than the limit, and findings and answers do not settle at all
\* (src/tga3/README.md:42): the job of a record is never in a wait that was begun
\* for an earlier change and lasts longer than the record allows.
DueIsTaken ==
  job \in Waiting /\ Pending.latest > 0 =>
    Pending.event \/ timer <= (IF Pending.immediate THEN 0
                               ELSE Smaller(Pending.quiet, Pending.intel))

\* "由 Intel 触发的建议至少间隔 60 秒" (src/tga3/README.md:42): advice written before
\* the interval since the last one is over has a prompt of the user or a finding
\* among the entries after the last number handled.
AdviceSpaced ==
  [][size' > size /\ kind'[size'] = "supervisor_advice" /\ Recent(size)
       => \E n \in (last + 1)..size : kind[n] \in {"user_prompt", "finding"}]_vars

\* Every change is shown to the model, however changes, timers, consultations and
\* failures of the model fall, unless the task ends or is stopped or the job is lost.
ChangeIsReviewed ==
  \A n \in 1..MaxEntries :
    (n \in told /\ kind[n] # "supervisor_advice") ~>
      (shown >= n \/ state = "ended" \/ lost \/ stops > 0)

\* No Supervisor is left behind by a task that has ended for good: changed turns
\* away what comes, and the next silence check ends the job, also one that a
\* change started while the task was being stopped.
JobsEnd == <>[](state = "ended") => <>[](job = "none")

\* What counts as reviewed was shown to the model: "Supervisor 对 Intel 使用 2 秒静默
\* 合并和 10 秒批次上限进行审阅" (src/tga3/README.md:42), and _last_supervisor_seq is the
\* number up to which _advise takes the blackboard for reviewed.
ReviewedWasShown == last <= shown
===============================================================================
