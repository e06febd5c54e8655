------------------------------ MODULE AgentControl ------------------------------
(* How the control plane drives one worker agent of a task: the connections of  *)
(* AgentGateway (gateway.py), the events and commands of TaskCoordinator        *)
(* (coordinator.py), and the row in agent_runs, which every one of them changes *)
(* with update_agent: read the row, write all of it. A step is one statement of *)
(* the database or what happens between two awaits on the event loop.           *)
(*                                                                             *)
(* Events that only append to the dialogue, and the messages announce_status    *)
(* appends, are calls of Blackboard; the questions of agent.needs_user_input    *)
(* are in TaskLifecycle. What the worker does with a message is WorkerSession.  *)
EXTENDS Integers, Sequences, FiniteSets

CONSTANTS Op,        \* requests about this agent: of the user, or of the Reporter
          Status,    \* states the worker reports
          MaxConn,   \* bound: connections the worker opens
          Scopes     \* what happens in a behaviour: the command of each request, and
                     \* bounds on the worker's connections and reports

Command == {"record_launch", "pause", "resume", "set_model", "stop", "delete"}

ASSUME AgentControlAssumption ==
  /\ Status \subseteq {"running", "idle", "paused", "failed"}
  /\ MaxConn \in Nat
  /\ Op \cap (1..MaxConn) = {} /\ Op \cap {"initial", "none", "same"} = {}
  /\ Scopes \subseteq [commands : [Op -> Command], conns : 0..MaxConn, reports : Nat]

Conn == 1..MaxConn

\* What runs on the event loop: the requests, and the receive loop of each connection.
Process == Op \union Conn

VARIABLES
  scope,        \* one of Scopes
  row,          \* of agent_runs, NoRow once the task is deleted
  current,      \* AgentGateway.connections: the connection of the agent, 0 without one
  sock,         \* of a connection: "open", "lost" by the worker, "closed" by the gateway
  loop, old,    \* attach: where it is, and the connection it replaced
  detached,     \* disconnect_task: the connections a delete has removed and not closed
  inbox,        \* sent by the worker, not yet received
  outbox,       \* sent to the worker, not yet served
  counter,      \* AgentConnection.counter
  pending,      \* AgentConnection.pending: which request waits for which id
  cmd,          \* what a request asked for
  prog,         \* the awaits a process has before it
  held,         \* the row its update_agent has read
  sent,         \* reports sent on a connection
  served        \* history: requests the worker has carried out

wires == <<sock, inbox, outbox, sent, served>>
gateway == <<current, loop, old, detached, counter, pending>>
vars == <<scope, row, wires, gateway, cmd, prog, held>>

Desired == {"running", "pause_requested", "paused", "stopping", "stopped"}
Actual == {"starting", "running", "stopped", "failed"} \union Status

NoRow == [desired |-> "none", actual |-> "none", model |-> "none"]
Row == [desired : Desired, actual : Actual, model : {"initial"} \union Op]

Event(s) == [event |-> s, id |-> 0, ok |-> TRUE]
Reply(n, ok) == [event |-> "reply", id |-> n, ok |-> ok]

-------------------------------------------------------------------------------
\* What a process has before it: a sequence of awaits, each with the changes to the
\* row it is for.

Same == [desired |-> "same", actual |-> "same", model |-> "same"]
Await(do) == [do |-> do, changes |-> Same]

Changed(r, ch) == [f \in DOMAIN r |-> IF ch[f] = "same" THEN r[f] ELSE ch[f]]

\* update_agent: get_agent, and upsert_agent with the whole row.
Update(ch) == <<Await("get"), [do |-> "put", changes |-> ch]>>

ToDesired(s) == Update([Same EXCEPT !.desired = s])
ToActual(s) == Update([Same EXCEPT !.actual = s])

\* handle_agent_event reads the row for the actor before it records what s reports.
ToReported(s) == <<Await("get")>> \o ToActual(s)

Stopped == Update([Same EXCEPT !.desired = "stopped", !.actual = "stopped"])
Requested == <<Await("request"), Await("reply")>>

\* A request that is refused as such (no worker, no such model) comes to nothing and is
\* left out. A delete of a task that still runs is a stop and this delete.
Script(o, c) ==
  CASE c = "record_launch" -> Update(Same)    \* the container id, not modelled
    [] c = "pause" -> ToDesired("pause_requested") \o Requested \o ToDesired("paused")
    [] c = "resume" -> <<Await("get")>> \o Requested \o ToDesired("running")
    [] c = "set_model" -> <<Await("get")>> \o Requested \o Update([Same EXCEPT !.model = o])
    [] c = "stop" -> ToDesired("stopping") \o <<Await("notify"), Await("stop")>> \o Stopped
    [] c = "delete" -> <<Await("stop"), Await("detach"), Await("close"), Await("drop")>>

-------------------------------------------------------------------------------
Doing(p, do) == prog[p] # <<>> /\ Head(prog[p]).do = do

TypeOK ==
  /\ row \in Row \union {NoRow}
  /\ current \in 0..MaxConn
  /\ sock \in [Conn -> {"none", "open", "lost", "closed"}]
  /\ loop \in [Conn -> {"none", "attach", "receive", "over"}]
  /\ old \in [Conn -> 0..MaxConn]
  /\ detached \in [Op -> SUBSET Conn]
  /\ held \in [Process -> Row \union {NoRow}]
  /\ \A o \in Op : cmd[o] \in {"none", scope.commands[o]}
  /\ served \subseteq Op
  /\ \A c \in Conn : \A f \in pending[c] :
       /\ f.id \in 1..counter[c]
       /\ f.op \in Op /\ Doing(f.op, "reply")

Init ==
  /\ scope \in Scopes
  /\ row = [desired |-> "running", actual |-> "starting", model |-> "initial"]
  /\ current = 0
  /\ sock = [c \in Conn |-> "none"] /\ loop = [c \in Conn |-> "none"]
  /\ old = [c \in Conn |-> 0] /\ detached = [o \in Op |-> {}]
  /\ inbox = [c \in Conn |-> <<>>] /\ outbox = [c \in Conn |-> <<>>]
  /\ counter = [c \in Conn |-> 0] /\ pending = [c \in Conn |-> {}]
  /\ cmd = [o \in Op |-> "none"] /\ prog = [p \in Process |-> <<>>]
  /\ held = [p \in Process |-> NoRow]
  /\ sent = [c \in Conn |-> 0] /\ served = {}

Goes(p, steps) == prog' = [prog EXCEPT ![p] = steps]
Proceeds(p) == Goes(p, Tail(prog[p]))

\* An exception: a command ends with an error, and a receive loop catches it.
Raises(p) == Goes(p, <<>>)

-------------------------------------------------------------------------------
\* The row.

Get(p) ==
  /\ Doing(p, "get")
  /\ \/ row = NoRow /\ Raises(p) /\ UNCHANGED held
     \/ row # NoRow /\ Proceeds(p) /\ held' = [held EXCEPT ![p] = row]
  /\ UNCHANGED <<row, wires, gateway, cmd>>

\* Without the task its foreign key fails.
Put(p) ==
  /\ Doing(p, "put")
  /\ held' = [held EXCEPT ![p] = NoRow]
  /\ \/ row = NoRow /\ Raises(p) /\ UNCHANGED row
     \/ row # NoRow /\ Proceeds(p) /\ row' = Changed(held[p], Head(prog[p]).changes)
  /\ UNCHANGED <<wires, gateway, cmd>>

\* session.disconnected: was it expected?
Judge(c) ==
  /\ Doing(c, "judge")
  /\ IF row = NoRow THEN Raises(c)
     ELSE Goes(c, ToActual(IF row.desired \in {"stopping", "stopped"}
                           THEN "stopped" ELSE "failed"))
  /\ UNCHANGED <<row, wires, gateway, cmd, held>>

-------------------------------------------------------------------------------
\* Commands.

Ask(o) ==
  /\ cmd[o] = "none"
  /\ cmd' = [cmd EXCEPT ![o] = scope.commands[o]]
  /\ Goes(o, Script(o, scope.commands[o]))
  /\ UNCHANGED <<row, wires, gateway, held>>

\* Mutation: ids are counted by the requests that are pending.
NextIdPending(c) == Cardinality(pending[c]) + 1

NextId(c) == counter[c] + 1

Usable == current \in {c \in Conn : sock[c] = "open"}

\* A socket the worker has left raises, or takes the message and loses it.
SendTo(c, o, n) ==
  outbox' = IF sock[c] = "open" THEN [outbox EXCEPT ![c] = Append(@, [id |-> n, op |-> o])]
            ELSE outbox

\* gateway.request, up to the answer.
Request(o) ==
  /\ Doing(o, "request")
  /\ \/ /\ ~Usable
        /\ Raises(o)
        /\ UNCHANGED <<outbox, counter, pending>>
     \/ /\ current # 0
        /\ counter' = [counter EXCEPT ![current] = @ + 1]
        /\ pending' = [pending EXCEPT ![current] =
                         @ \union {[id |-> NextId(current), op |-> o]}]
        /\ SendTo(current, o, NextId(current))
        /\ Proceeds(o)
  /\ UNCHANGED <<row, sock, inbox, sent, served, current, loop, old, detached, cmd, held>>

NoLonger(o) == pending' = [c \in Conn |-> {f \in pending[c] : f.op # o}]

\* Mutation: the future stays in the dictionary.
TimeOutLeaving(o) ==
  /\ Doing(o, "reply") /\ Raises(o)
  /\ UNCHANGED <<row, wires, gateway, cmd, held>>

\* Mutation: the time limit is the connection's own.
TimeOutConnected(o) ==
  /\ Doing(o, "reply") /\ Raises(o) /\ NoLonger(o)
  /\ current # 0 /\ sock[current] = "open"
  /\ UNCHANGED <<row, wires, current, loop, old, detached, counter, cmd, held>>

\* wait_for: 30 seconds without an answer, whatever became of the connection.
TimeOut(o) ==
  /\ Doing(o, "reply") /\ Raises(o) /\ NoLonger(o)
  /\ UNCHANGED <<row, wires, current, loop, old, detached, counter, cmd, held>>

\* session.stop is a notification; an agent that is not connected is passed over.
Notify(o) ==
  /\ Doing(o, "notify")
  /\ \/ current = 0 /\ Proceeds(o) /\ UNCHANGED outbox
     \/ current # 0 /\ Proceeds(o) /\ SendTo(current, o, 0)
     \/ current # 0 /\ ~Usable /\ Raises(o) /\ UNCHANGED outbox
  /\ UNCHANGED <<row, sock, inbox, sent, served, gateway, cmd, held>>

\* containers.stop, which may fail without saying so.
StopContainer(o) ==
  /\ Doing(o, "stop")
  /\ Proceeds(o)
  /\ sock' \in {sock, [c \in Conn |-> IF sock[c] = "open" THEN "lost" ELSE sock[c]]}
  /\ UNCHANGED <<row, inbox, outbox, sent, served, gateway, cmd, held>>

\* disconnect_task, which reports nothing: the connection is removed under the lock,
Detach(o) ==
  /\ Doing(o, "detach")
  /\ Proceeds(o)
  /\ current' = 0
  /\ detached' = [detached EXCEPT ![o] = @ \union ({current} \ {0})]
  /\ UNCHANGED <<row, wires, loop, old, counter, pending, cmd, held>>

\* and then closed; an error of the close is ignored.
Close(o) ==
  /\ Doing(o, "close")
  /\ Proceeds(o)
  /\ detached' = [detached EXCEPT ![o] = {}]
  /\ sock' = [c \in Conn |-> IF c \in detached[o] THEN "closed" ELSE sock[c]]
  /\ UNCHANGED <<row, inbox, outbox, sent, served, current, loop, old, counter, pending,
                 cmd, held>>

Drop(o) ==
  /\ Doing(o, "drop")
  /\ Proceeds(o)
  /\ row' = NoRow
  /\ UNCHANGED <<wires, gateway, cmd, held>>

-------------------------------------------------------------------------------
\* attach: one connection after the other.

\* The worker connects and says hello; the connection is registered under the lock.
Attach(c) ==
  /\ c <= scope.conns /\ loop[c] = "none" /\ \A d \in 1..(c - 1) : loop[d] # "none"
  /\ sock' = [sock EXCEPT ![c] = "open"]
  /\ inbox' = [inbox EXCEPT ![c] = <<Event("running")>>]
  /\ loop' = [loop EXCEPT ![c] = "attach"]
  /\ old' = [old EXCEPT ![c] = current]
  /\ current' = c
  /\ UNCHANGED <<row, outbox, sent, served, detached, counter, pending, cmd, prog, held>>

\* The connection it replaces is closed. If that was already lost, the close may raise
\* out of attach: the server closes the new socket, and nothing receives from it.
CloseOld(c) ==
  /\ loop[c] = "attach"
  /\ \/ /\ loop' = [loop EXCEPT ![c] = "receive"]
        /\ sock' = IF old[c] = 0 THEN sock ELSE [sock EXCEPT ![old[c]] = "closed"]
     \/ /\ old[c] # 0 /\ sock[old[c]] # "open"
        /\ loop' = [loop EXCEPT ![c] = "over"]
        /\ sock' = [sock EXCEPT ![c] = "closed"]
  /\ UNCHANGED <<row, inbox, outbox, sent, served, current, old, detached, counter, pending,
                 cmd, prog, held>>

\* One message at a time: the next is received when the handler has returned.
Receiving(c) == loop[c] = "receive" /\ prog[c] = <<>>

\* An answer goes to the request that waits for its id, if one still does.
ReceiveReply(c) ==
  LET m == Head(inbox[c])
      answered == {f.op : f \in {g \in pending[c] : g.id = m.id}}
  IN /\ m.event = "reply"
     /\ pending' = [pending EXCEPT ![c] = {f \in @ : f.id # m.id}]
     /\ prog' = [p \in Process |-> CASE p \notin answered -> prog[p]
                                     [] p \in answered /\ m.ok -> Tail(prog[p])
                                     [] p \in answered /\ ~m.ok -> <<>>]

\* session.hello, agent.status and agent.error record the state they report.
ReceiveEvent(c) ==
  /\ Head(inbox[c]).event # "reply"
  /\ Goes(c, ToReported(Head(inbox[c]).event))
  /\ UNCHANGED pending

Receive(c) ==
  /\ Receiving(c) /\ inbox[c] # <<>>
  /\ inbox' = [inbox EXCEPT ![c] = Tail(@)]
  /\ ReceiveReply(c) \/ ReceiveEvent(c)
  /\ UNCHANGED <<row, sock, outbox, sent, served, current, loop, old, detached, counter, cmd,
                 held>>

\* Mutation: the connection of the agent is removed, whichever it is.
EndRemoving(c) ==
  /\ Receiving(c) /\ sock[c] # "open"
  /\ loop' = [loop EXCEPT ![c] = "over"]
  /\ current' = 0
  /\ Goes(c, <<Await("judge")>>)
  /\ UNCHANGED <<row, wires, old, detached, counter, pending, cmd, held>>

\* The socket is gone: only the end of the current connection is an event.
End(c) ==
  /\ Receiving(c) /\ sock[c] # "open"
  /\ loop' = [loop EXCEPT ![c] = "over"]
  /\ \/ current = c /\ current' = 0 /\ Goes(c, <<Await("judge")>>)
     \/ current # c /\ UNCHANGED <<current, prog>>
  /\ UNCHANGED <<row, wires, old, detached, counter, pending, cmd, held>>

-------------------------------------------------------------------------------
\* The worker.

Report(c, s) ==
  /\ sock[c] = "open" /\ sent[c] < scope.reports
  /\ sent' = [sent EXCEPT ![c] = @ + 1]
  /\ inbox' = [inbox EXCEPT ![c] = Append(@, Event(s))]
  /\ UNCHANGED <<row, sock, outbox, served, gateway, cmd, prog, held>>

\* It serves its messages in order: a request is carried out or refused, at a stop
\* the session ends.
Serve(c) ==
  /\ sock[c] = "open" /\ outbox[c] # <<>>
  /\ outbox' = [outbox EXCEPT ![c] = Tail(@)]
  /\ LET r == Head(outbox[c]) IN
     \/ /\ r.id = 0
        /\ sock' = [sock EXCEPT ![c] = "lost"]
        /\ UNCHANGED <<inbox, served>>
     \/ /\ r.id # 0
        /\ \E ok \in BOOLEAN :
             /\ inbox' = [inbox EXCEPT ![c] = Append(@, Reply(r.id, ok))]
             /\ served' = IF ok THEN served \union {r.op} ELSE served
        /\ UNCHANGED sock
  /\ UNCHANGED <<row, sent, gateway, cmd, prog, held>>

\* It crashes, or the network fails.
Lose(c) ==
  /\ sock[c] = "open"
  /\ sock' = [sock EXCEPT ![c] = "lost"]
  /\ UNCHANGED <<row, inbox, outbox, sent, served, gateway, cmd, prog, held>>

-------------------------------------------------------------------------------
Execute(o) ==
  \/ Get(o) \/ Put(o) \/ Request(o) \/ TimeOut(o) \/ Notify(o) \/ StopContainer(o)
  \/ Detach(o) \/ Close(o) \/ Drop(o)

Handler(c) == Get(c) \/ Put(c) \/ Judge(c) \/ CloseOld(c) \/ Receive(c) \/ End(c)

Next ==
  /\ \/ \E o \in Op : Ask(o) \/ Execute(o)
     \/ \E c \in Conn :
          \/ Handler(c) \/ Attach(c) \/ Serve(c) \/ Lose(c)
          \/ \E s \in Status : Report(c, s)
  /\ UNCHANGED scope

\* The event loop runs what is ready; the database, Docker and the timer of a request
\* answer.
Spec == Init /\ [][Next]_vars /\ \A o \in Op : WF_vars(Execute(o) /\ UNCHANGED scope)

-------------------------------------------------------------------------------
\* The newest connection of a worker is the one the gateway uses, whichever of its
\* predecessors end, and however late (gateway.py:62-100), unless a delete of the task
\* has removed it and is about to close it: a live worker can be controlled.
LiveIsReachable ==
  \A c \in Conn :
    sock[c] = "open" /\ (\A d \in Conn : d > c => loop[d] = "none") =>
      current = c \/ \E o \in Op : c \in detached[o]

\* A pause and a model are recorded when the worker has carried out that very request
\* (coordinator.py:282-325): a late or a lost answer, an answer to another request, and
\* a row written back by an update that overlapped never put there what no worker did.
RecordedWasServed ==
  /\ row.desired = "paused" => \E o \in served : cmd[o] = "pause"
  /\ row.model \in Op => row.model \in served

\* Every command ends, with a result or an error: also one whose connection is
\* replaced or lost while it waits (gateway.py:42-53 fails no pending request then).
CommandsEnd == \A o \in Op : cmd[o] # "none" ~> prog[o] = <<>>
===============================================================================
