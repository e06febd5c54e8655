----------------------------- MODULE WorkerSession -----------------------------
(* The runtime of one worker container (workers/runtime.py): the coroutine     *)
(* _receive, which serves the control plane's messages, the coroutine _work,   *)
(* which turns queued prompts into SDK cycles one at a time, and the task of   *)
(* the running cycle, on one event loop. A step is what happens between two    *)
(* awaits; between any two steps the other coroutine may run. The socket       *)
(* delivers in order and may close; the worker does not reconnect.             *)
EXTENDS Integers, Sequences, FiniteSets

CONSTANTS MaxSeq,      \* bound: numbers blackboard.changed announces
          MaxMessages  \* bound: messages _receive gets

ASSUME WorkerAssumption == MaxSeq \in Nat /\ MaxMessages \in Nat

VARIABLES
  received,  \* how many messages _receive got
  queue,     \* self.queue: prompts, markers and the end
  pending,   \* self.pending_blackboard_seq
  wakeQueued, \* self.blackboard_wake_queued
  paused,    \* ~self.paused.is_set()
  stop,      \* self.stop.is_set()
  closed,    \* the WebSocket is closed
  rpc, rmsg, \* _receive: where it is, and the message it serves
  wpc, hand, \* _work: where it is, and the prompt it took
  cycle,     \* self.current_cycle
  status,    \* what the control plane was last told (agent.status, agent.error)
  announced, \* history: the largest latest_seq received
  handled,   \* history: the largest latest_seq given to a cycle that ran to its end
  late       \* history: cycles begun since the last pause or stop took effect

vars == <<received, queue, pending, wakeQueued, paused, stop, closed, rpc, rmsg,
          wpc, hand, cycle, status, announced, handled, late>>

session == <<queue, pending, wakeQueued, paused, stop>>
receiver == <<rpc, rmsg>>
worker == <<wpc, hand>>
history == <<announced, handled, late>>

\* A prompt is the latest_seq it names; startup, periodic and follow-up prompts
\* name none.
Prompt == 0..MaxSeq
Text == 0
Wake == -1    \* _BLACKBOARD_WAKE
Quit == -2    \* the None that ends _work

\* session.start and session.add_prompt do the same to the queue.
Message ==
  [method : {"pause", "resume", "stop", "set_model", "prompt"}, seq : {Text}]
    \union [method : {"changed"}, seq : Prompt \ {Text}]

NoMessage == [method |-> "prompt", seq |-> Text]

TypeOK ==
  /\ received \in 0..MaxMessages
  /\ queue \in Seq(Prompt \union {Wake, Quit})
  /\ pending \in Prompt
  /\ wakeQueued \in BOOLEAN
  /\ paused \in BOOLEAN /\ stop \in BOOLEAN /\ closed \in BOOLEAN
  /\ rpc \in {"receive", "gather", "reply", "ended"}
  /\ rmsg \in Message
  /\ wpc \in {"get", "paused", "running", "started", "cycle", "completed", "idle",
              "error", "ended"}
  /\ hand \in Prompt
  /\ cycle \in {"none", "running", "cancelling", "cancelled", "ok", "failed"}
  /\ status \in {"none", "running", "idle", "paused", "failed"}
  /\ announced \in Prompt /\ handled \in Prompt
  /\ late \in Nat

\* run has sent session.hello; _work has queued the startup prompt.
Init ==
  /\ received = 0
  /\ queue = <<Text>>
  /\ pending = 0
  /\ wakeQueued = FALSE
  /\ paused = FALSE /\ stop = FALSE /\ closed = FALSE
  /\ rpc = "receive" /\ rmsg = NoMessage
  /\ wpc = "get" /\ hand = Text
  /\ cycle = "none"
  /\ status = "none"
  /\ announced = 0 /\ handled = 0
  /\ late = 0

Larger(m, n) == IF m < n THEN n ELSE m

-------------------------------------------------------------------------------
\* The connection.

\* The connection is lost. What the socket buffered before can still be read.
Close ==
  /\ ~closed
  /\ closed' = TRUE
  /\ UNCHANGED <<received, session, receiver, worker, cycle, status, history>>

\* run after _receive has ended: cancel _work. The cancel goes to what _work waits
\* for; inside its try block it takes the CancelledError for a cancelled cycle.
CancelWork ==
  /\ rpc' = "ended"
  /\ \/ /\ wpc = "cycle" /\ cycle \in {"running", "cancelling"}
        /\ cycle' = "cancelling"
        /\ UNCHANGED <<wpc, queue>>
     \/ /\ wpc \in {"cycle", "completed", "idle"}
        /\ cycle \notin {"running", "cancelling"}
        /\ queue' = IF stop THEN queue ELSE Append(queue, hand)
        /\ wpc' = IF stop THEN "ended" ELSE "get"
        /\ cycle' = "none"
     \/ /\ wpc \notin {"cycle", "completed", "idle"}
        /\ wpc' = "ended"
        /\ cycle' = "none"
        /\ UNCHANGED queue

-------------------------------------------------------------------------------
\* _receive.

\* Mutation: the announced numbers are not merged.
QueueLatestUpdate(n) ==
  /\ pending' = n
  /\ wakeQueued' = TRUE
  /\ queue' = IF wakeQueued THEN queue ELSE Append(queue, Wake)

\* _queue_blackboard_update
QueueBlackboardUpdate(n) ==
  /\ pending' = Larger(pending, n)
  /\ wakeQueued' = TRUE
  /\ queue' = IF wakeQueued THEN queue ELSE Append(queue, Wake)

\* The next await of a handler that cancels a running cycle: gather, or after.
CancelCycle(after) ==
  IF cycle = "running"
  THEN cycle' = "cancelling" /\ rpc' = "gather"
  ELSE rpc' = after /\ UNCHANGED cycle

Pause ==
  /\ paused' = TRUE
  /\ late' = IF paused THEN late ELSE 0
  /\ CancelCycle("reply")
  /\ UNCHANGED <<queue, pending, wakeQueued, stop, announced>>

Resume ==
  /\ paused' = FALSE
  /\ late' = 0
  /\ rpc' = "reply"
  /\ UNCHANGED <<queue, pending, wakeQueued, stop, cycle, announced>>

Stop ==
  /\ stop' = TRUE
  /\ late' = IF stop THEN late ELSE 0
  /\ CancelCycle("receive")
  /\ queue' = IF cycle = "running" THEN queue ELSE Append(queue, Quit)
  /\ UNCHANGED <<pending, wakeQueued, paused, announced>>

\* What the adapter does with the new model is the SDK's business.
SetModel ==
  /\ CancelCycle("reply")
  /\ UNCHANGED <<session, announced, late>>

AddPrompt ==
  /\ queue' = Append(queue, Text)
  /\ rpc' = "receive"
  /\ UNCHANGED <<pending, wakeQueued, paused, stop, cycle, announced, late>>

Changed(n) ==
  /\ QueueBlackboardUpdate(n)
  /\ announced' = Larger(announced, n)
  /\ rpc' = "receive"
  /\ UNCHANGED <<paused, stop, cycle, late>>

\* One message, up to the handler's first await that waits. blackboard.changed
\* comes from concurrent publishers, so its numbers come in any order.
Receive(m) ==
  /\ rpc = "receive"
  /\ received < MaxMessages
  /\ received' = received + 1
  /\ rmsg' = m
  /\ \/ m.method = "pause" /\ Pause
     \/ m.method = "resume" /\ Resume
     \/ m.method = "stop" /\ Stop
     \/ m.method = "set_model" /\ SetModel
     \/ m.method = "prompt" /\ AddPrompt
     \/ m.method = "changed" /\ Changed(m.seq)
  /\ UNCHANGED <<closed, worker, status, handled>>

\* gather returns once the cancelled cycle has ended. A stop is a notification,
\* which has no reply.
Gathered ==
  /\ rpc = "gather"
  /\ cycle # "cancelling"
  /\ IF rmsg.method = "stop"
     THEN queue' = Append(queue, Quit) /\ rpc' = "receive"
     ELSE rpc' = "reply" /\ UNCHANGED queue
  /\ UNCHANGED <<received, pending, wakeQueued, paused, stop, closed, rmsg, worker,
                 cycle, status, history>>

\* emit of the state the handler reports, and the reply.
Reply ==
  /\ rpc = "reply"
  /\ ~closed
  /\ rpc' = "receive"
  /\ status' = CASE rmsg.method = "pause" -> "paused"
                 [] rmsg.method = "resume" -> "running"
                 [] OTHER -> status
  /\ UNCHANGED <<received, session, closed, rmsg, worker, cycle, history>>

\* _receive ends: no message is left, or sending the reply raises.
ReceiverEnds ==
  /\ closed
  /\ rpc \in {"reply", "receive"}
  /\ CancelWork
  /\ UNCHANGED <<received, pending, wakeQueued, paused, stop, closed, rmsg, hand,
                 status, history>>

-------------------------------------------------------------------------------
\* _work.

\* Mutation: emit swallows the error of a closed socket.
EmitNeverRaises == FALSE

\* socket.send raises.
EmitRaises == closed

\* Mutation: the marker itself becomes the prompt.
TakeMarker ==
  /\ wpc = "get"
  /\ queue # << >>
  /\ queue' = Tail(queue)
  /\ wpc' = IF Head(queue) = Quit THEN "ended" ELSE "paused"
  /\ hand' = Head(queue)
  /\ wakeQueued' = (wakeQueued /\ Head(queue) # Wake)
  /\ UNCHANGED <<received, pending, paused, stop, closed, receiver, cycle, status,
                 history>>

\* Mutation: the flag survives the marker it stands for.
KeepWakeFlag ==
  /\ wpc = "get"
  /\ queue # << >>
  /\ queue' = Tail(queue)
  /\ IF Head(queue) = Quit
     THEN wpc' = "ended" /\ UNCHANGED <<hand, pending>>
     ELSE /\ wpc' = "paused"
          /\ hand' = IF Head(queue) = Wake THEN pending ELSE Head(queue)
          /\ pending' = IF Head(queue) = Wake THEN 0 ELSE pending
  /\ UNCHANGED <<received, wakeQueued, paused, stop, closed, receiver, cycle, status,
                 history>>

\* queue.get() returns; a marker becomes a prompt that names the latest number.
Take ==
  /\ wpc = "get"
  /\ queue # << >>
  /\ queue' = Tail(queue)
  /\ IF Head(queue) = Quit
     THEN wpc' = "ended" /\ UNCHANGED <<hand, pending, wakeQueued>>
     ELSE /\ wpc' = "paused"
          /\ IF Head(queue) = Wake
             THEN hand' = pending /\ pending' = 0 /\ wakeQueued' = FALSE
             ELSE hand' = Head(queue) /\ UNCHANGED <<pending, wakeQueued>>
  /\ UNCHANGED <<received, paused, stop, closed, receiver, cycle, status, history>>

\* Nothing arrived for sync_seconds: the periodic prompt.
Periodic ==
  /\ wpc = "get"
  /\ queue = << >>
  /\ hand' = Text
  /\ wpc' = "paused"
  /\ UNCHANGED <<received, session, closed, receiver, cycle, status, history>>

\* Mutation: the pause is not looked at.
IgnorePause ==
  /\ wpc = "paused"
  /\ wpc' = "running"
  /\ UNCHANGED <<received, session, closed, receiver, hand, cycle, status, history>>

\* await self.paused.wait()
PausedWait ==
  /\ wpc = "paused"
  /\ ~paused
  /\ wpc' = "running"
  /\ UNCHANGED <<received, session, closed, receiver, hand, cycle, status, history>>

\* emit agent.status running; on a closed socket send raises and _work ends.
EmitRunning ==
  /\ wpc = "running"
  /\ wpc' = IF EmitRaises THEN "ended" ELSE "started"
  /\ status' = IF EmitRaises THEN status ELSE "running"
  /\ UNCHANGED <<received, session, closed, receiver, hand, cycle, history>>

\* emit agent.action.started, then create the cycle's task and wait for it.
BeginCycle ==
  /\ wpc = "started"
  /\ IF EmitRaises
     THEN wpc' = "ended" /\ UNCHANGED <<cycle, late>>
     ELSE /\ wpc' = "cycle"
          /\ cycle' = "running"
          /\ late' = IF paused \/ stop THEN late + 1 ELSE late
  /\ UNCHANGED <<received, session, closed, receiver, hand, status, announced,
                 handled>>

\* The SDK ends the cycle; a cancelled one ends no other way.
CycleEnds ==
  /\ \/ cycle = "running" /\ cycle' \in {"ok", "failed"}
     \/ cycle = "cancelling" /\ cycle' = "cancelled"
  /\ UNCHANGED <<received, session, closed, receiver, worker, status, history>>

\* Mutation: a cancelled cycle's prompt is dropped like a failed one's.
DropCancelled ==
  /\ wpc = "cycle"
  /\ cycle = "cancelled"
  /\ wpc' = IF stop THEN "ended" ELSE "get"
  /\ cycle' = "none"
  /\ UNCHANGED <<received, session, closed, receiver, hand, status, history>>

\* except CancelledError: the prompt goes back to the end of the queue.
Requeue ==
  /\ wpc = "cycle"
  /\ cycle = "cancelled"
  /\ queue' = IF stop THEN queue ELSE Append(queue, hand)
  /\ wpc' = IF stop THEN "ended" ELSE "get"
  /\ cycle' = "none"
  /\ UNCHANGED <<received, pending, wakeQueued, paused, stop, closed, receiver, hand,
                 status, history>>

\* await self.current_cycle returns or raises.
CycleReturns ==
  /\ wpc = "cycle"
  /\ cycle \in {"ok", "failed"}
  /\ wpc' = IF cycle = "ok" THEN "completed" ELSE "error"
  /\ handled' = Larger(handled, hand)
  /\ UNCHANGED <<received, session, closed, receiver, hand, cycle, status, announced,
                 late>>

\* emit the output and agent.action.completed. On a closed socket this and the
\* agent.error after it raise.
EmitCompleted ==
  /\ wpc = "completed"
  /\ wpc' = IF EmitRaises THEN "ended" ELSE "idle"
  /\ cycle' = IF EmitRaises THEN "none" ELSE cycle
  /\ UNCHANGED <<received, session, closed, receiver, hand, status, history>>

\* emit agent.status idle, and finally: round the loop.
EmitIdle ==
  /\ wpc = "idle"
  /\ status' = IF EmitRaises THEN status ELSE "idle"
  /\ cycle' = "none"
  /\ wpc' = IF stop \/ EmitRaises THEN "ended" ELSE "get"
  /\ UNCHANGED <<received, session, closed, receiver, hand, history>>

\* emit agent.error, sleep, and finally; the prompt is dropped.
EmitError ==
  /\ wpc = "error"
  /\ cycle' = "none"
  /\ wpc' = IF stop \/ EmitRaises THEN "ended" ELSE "get"
  /\ status' = IF EmitRaises THEN status ELSE "failed"
  /\ UNCHANGED <<received, session, closed, receiver, hand, history>>

-------------------------------------------------------------------------------
\* run after _work has ended: cancel _receive and leave the connection.
WorkerEnds ==
  /\ wpc = "ended"
  /\ rpc # "ended"
  /\ rpc' = "ended"
  /\ closed' = TRUE
  /\ UNCHANGED <<received, session, rmsg, worker, cycle, status, history>>

ReceiverStep == Gathered \/ Reply \/ ReceiverEnds

WorkerStep ==
  \/ Take \/ Periodic \/ PausedWait \/ EmitRunning \/ BeginCycle
  \/ Requeue \/ CycleReturns \/ EmitCompleted \/ EmitIdle \/ EmitError

Next ==
  \/ \E m \in Message : Receive(m)
  \/ Close
  \/ ReceiverStep \/ WorkerStep \/ CycleEnds \/ WorkerEnds

\* The event loop runs every coroutine that is ready, and an SDK cycle ends: its
\* turns and tool calls are limited. Nothing makes the control plane send.
Spec == Init /\ [][Next]_vars
        /\ WF_vars(ReceiverStep) /\ WF_vars(WorkerStep)
        /\ WF_vars(CycleEnds) /\ WF_vars(WorkerEnds)

-------------------------------------------------------------------------------
\* Properties.

Occurrences(x) == Cardinality({i \in DOMAIN queue : queue[i] = x})

\* blackboard_wake_queued is set exactly when the queue holds a marker, and holds
\* one: a marker too few would lose every later change, one too many would start
\* cycles that name number 0.
OneWakeQueued == Occurrences(Wake) = IF wakeQueued THEN 1 ELSE 0

\* "处理到 latest_seq": the largest announced number is waiting to be taken, waiting in
\* a prompt, in a cycle under way, or was given to a cycle that ran to its end;
\* no pause, model change or merge with another announcement loses it.
ChangeNotLost ==
  wpc # "ended" =>
    \E n \in announced..MaxSeq :
      \/ n = 0
      \/ n = pending /\ wakeQueued
      \/ Occurrences(n) > 0
      \/ n = hand /\ wpc # "get"
      \/ n = handled

\* "暂停请求已提交，将在下一个周期检查点生效": after a pause or a stop took effect at most one more
\* cycle begins, the one that had passed its checkpoint.
CheckpointHolds == late <= 1

\* An announced change reaches a cycle, unless the worker is paused or goes away.
ChangeReachesCycle ==
  \A n \in 1..MaxSeq :
    announced >= n ~> handled >= n \/ paused \/ stop \/ closed

\* A stopped or disconnected session ends, whatever cancels cross, unless it is
\* paused: then _work may wait for a resume that cannot come.
SessionEnds == stop \/ closed ~> wpc = "ended" \/ paused

\* "Supervisor 提问、Agent 暂停或任务失败后会出现在这里": once a pause was served and _work has come
\* to rest, the control plane has the worker as paused or failed, the states that
\* the list of pending items shows.
PauseIsShown ==
  paused /\ rpc = "receive" /\ wpc = "paused" =>
    status \in {"paused", "failed"}
===============================================================================
