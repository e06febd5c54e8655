--------------------------- MODULE AgentControlProofs ---------------------------
(* Theorems about AgentControl, for any requests, any number of connections and *)
(* any order of what the event loop, the worker and the database do: the        *)
(* connection the gateway uses is that of the live worker, and the row records  *)
(* no pause and no model that the worker has not carried out.                   *)
EXTENDS AgentControl, TLAPS

\* Connections are opened in order, and a socket belongs to one that was.
Registered ==
  /\ current \in 0..MaxConn
  /\ sock \in [Conn -> {"none", "open", "lost", "closed"}]
  /\ loop \in [Conn -> {"none", "attach", "receive", "over"}]
  /\ detached \in [Op -> SUBSET Conn]
  /\ \A c \in Conn : sock[c] = "open" => loop[c] # "none"
  /\ \A c, d \in Conn : c < d /\ loop[d] # "none" => loop[c] # "none"

ConnectionInv == Registered /\ LiveIsReachable

LEMMA InitRegisters == Init => ConnectionInv
BY AgentControlAssumption DEF Init, ConnectionInv, Registered, LiveIsReachable, Conn

\* A socket that is open was open, and what was opened stays opened.
LEMMA NothingOpens ==
  ASSUME ConnectionInv, current' = current, detached' = detached,
         sock' \in [Conn -> {"none", "open", "lost", "closed"}],
         \A c \in Conn : sock'[c] = "open" => sock[c] = "open",
         loop' \in [Conn -> {"none", "attach", "receive", "over"}],
         \A c \in Conn : loop'[c] = "none" <=> loop[c] = "none"
  PROVE  ConnectionInv'
BY DEF ConnectionInv, Registered, LiveIsReachable

\* The next connection is registered as the current one at once.
LEMMA AttachRegisters ==
  ASSUME ConnectionInv, NEW c \in Conn, Attach(c)
  PROVE  ConnectionInv'
<1>1. Registered'
  BY DEF Attach, ConnectionInv, Registered, Conn
<1>2. \A d \in Conn : d > c => loop[d] = "none" /\ sock[d] # "open"
  BY DEF Attach, ConnectionInv, Registered
<1>3. LiveIsReachable'
  BY <1>2 DEF Attach, ConnectionInv, Registered, LiveIsReachable, Conn
<1> QED  BY <1>1, <1>3 DEF ConnectionInv

\* A connection that ends is removed when it is the current one: then it is not open.
LEMMA EndKeepsLive ==
  ASSUME ConnectionInv, NEW c \in Conn, End(c)
  PROVE  ConnectionInv'
<1>1. \A d \in Conn : loop'[d] = "none" <=> loop[d] = "none"
  BY DEF End, Receiving, ConnectionInv, Registered
<1>2. sock' = sock /\ sock[c] # "open"
  BY DEF End, wires
<1>3. Registered'
  BY <1>1, <1>2, AgentControlAssumption DEF End, ConnectionInv, Registered
<1>4. LiveIsReachable'
  BY <1>1, <1>2 DEF End, ConnectionInv, LiveIsReachable
<1> QED  BY <1>3, <1>4 DEF ConnectionInv

\* disconnect_task remembers what it removes,
LEMMA DetachKeepsLive ==
  ASSUME ConnectionInv, NEW o \in Op, Detach(o)
  PROVE  ConnectionInv'
<1>1. /\ current' = 0 /\ loop' = loop /\ sock' = sock
      /\ detached' = [detached EXCEPT ![o] = @ \union ({current} \ {0})]
  BY DEF Detach, wires
<1>2. /\ detached' \in [Op -> SUBSET Conn]
      /\ \A p \in Op : detached[p] \subseteq detached'[p]
      /\ current # 0 => current \in detached'[o]
  BY <1>1 DEF ConnectionInv, Registered, Conn
<1>3. Registered'
  BY <1>1, <1>2, AgentControlAssumption DEF ConnectionInv, Registered
<1>4. LiveIsReachable'
  BY <1>1, <1>2 DEF ConnectionInv, LiveIsReachable, Conn
<1> QED  BY <1>3, <1>4 DEF ConnectionInv

\* and closes it.
LEMMA CloseKeepsLive ==
  ASSUME ConnectionInv, NEW o \in Op, Close(o)
  PROVE  ConnectionInv'
<1>1. /\ current' = current /\ loop' = loop
      /\ sock' \in [Conn -> {"none", "open", "lost", "closed"}]
      /\ \A c \in Conn : sock'[c] = "open" => sock[c] = "open" /\ c \notin detached[o]
  BY DEF Close, ConnectionInv, Registered, Conn
<1>2. /\ detached' \in [Op -> SUBSET Conn]
      /\ \A p \in Op : p # o => detached'[p] = detached[p]
  BY DEF Close, ConnectionInv, Registered
<1>3. Registered'
  BY <1>1, <1>2 DEF ConnectionInv, Registered
<1>4. LiveIsReachable'
  BY <1>1, <1>2 DEF ConnectionInv, LiveIsReachable
<1> QED  BY <1>3, <1>4 DEF ConnectionInv

LEMMA StepKeepsLive == ConnectionInv /\ [Next]_vars => ConnectionInv'
<1> SUFFICES ASSUME ConnectionInv, [Next]_vars PROVE ConnectionInv'
  OBVIOUS
<1> USE DEF ConnectionInv, Registered, wires, gateway
<1>1. ASSUME NEW p \in Process, Get(p) \/ Put(p) PROVE ConnectionInv'
  <2>1. UNCHANGED <<current, detached, sock, loop>>  BY <1>1 DEF Get, Put
  <2> QED  BY <2>1, NothingOpens
<1>2. ASSUME NEW c \in Conn, Judge(c) PROVE ConnectionInv'
  <2>1. UNCHANGED <<current, detached, sock, loop>>  BY <1>2 DEF Judge
  <2> QED  BY <2>1, NothingOpens
<1>3. ASSUME NEW o \in Op, Ask(o) \/ Request(o) \/ TimeOut(o) \/ Notify(o) \/ Drop(o)
      PROVE ConnectionInv'
  <2>1. UNCHANGED <<current, detached, sock, loop>>
    BY <1>3 DEF Ask, Request, TimeOut, Notify, Drop
  <2> QED  BY <2>1, NothingOpens
<1>4. ASSUME NEW o \in Op, StopContainer(o) PROVE ConnectionInv'
  <2>1. /\ current' = current /\ detached' = detached /\ loop' = loop
        /\ sock' \in [Conn -> {"none", "open", "lost", "closed"}]
        /\ \A c \in Conn : sock'[c] = "open" => sock[c] = "open"
    BY <1>4 DEF StopContainer
  <2> QED  BY <2>1, NothingOpens
<1>5. ASSUME NEW o \in Op, Detach(o) PROVE ConnectionInv'
  BY <1>5, DetachKeepsLive
<1>14. ASSUME NEW o \in Op, Close(o) PROVE ConnectionInv'
  BY <1>14, CloseKeepsLive
<1>6. ASSUME NEW c \in Conn, Attach(c) PROVE ConnectionInv'
  BY <1>6, AttachRegisters
<1>7. ASSUME NEW c \in Conn, CloseOld(c) PROVE ConnectionInv'
  <2>1. /\ current' = current /\ detached' = detached
        /\ sock' \in [Conn -> {"none", "open", "lost", "closed"}]
        /\ \A d \in Conn : sock'[d] = "open" => sock[d] = "open"
        /\ loop' \in [Conn -> {"none", "attach", "receive", "over"}]
        /\ \A d \in Conn : loop'[d] = "none" <=> loop[d] = "none"
    BY <1>7 DEF CloseOld
  <2> QED  BY <2>1, NothingOpens
<1>8. ASSUME NEW c \in Conn, Receive(c) PROVE ConnectionInv'
  <2>1. UNCHANGED <<current, detached, sock, loop>>  BY <1>8 DEF Receive
  <2> QED  BY <2>1, NothingOpens
<1>9. ASSUME NEW c \in Conn, End(c) PROVE ConnectionInv'
  BY <1>9, EndKeepsLive
<1>10. ASSUME NEW c \in Conn, NEW s \in Status, Report(c, s) PROVE ConnectionInv'
  <2>1. UNCHANGED <<current, detached, sock, loop>>  BY <1>10 DEF Report
  <2> QED  BY <2>1, NothingOpens
<1>11. ASSUME NEW c \in Conn, Serve(c) \/ Lose(c) PROVE ConnectionInv'
  <2>1. /\ current' = current /\ detached' = detached /\ loop' = loop
        /\ sock' \in [Conn -> {"none", "open", "lost", "closed"}]
        /\ \A d \in Conn : sock'[d] = "open" => sock[d] = "open"
    BY <1>11 DEF Serve, Lose
  <2> QED  BY <2>1, NothingOpens
<1>12. CASE UNCHANGED vars
  <2>1. UNCHANGED <<current, detached, sock, loop>>  BY <1>12 DEF vars
  <2> QED  BY <2>1, NothingOpens
<1>13. Op \subseteq Process /\ Conn \subseteq Process  BY DEF Process
<1> QED
  BY <1>1, <1>2, <1>3, <1>4, <1>5, <1>6, <1>7, <1>8, <1>9, <1>10, <1>11, <1>12, <1>13,
     <1>14
  DEF Next, Execute, Handler

\* The newest connection of a live worker is the one the gateway uses (gateway.py:62-100),
\* unless a delete has removed it and not closed it yet, for any number of connections
\* and requests.
THEOREM LiveStaysReachable == Spec => []LiveIsReachable
<1>1. Init => ConnectionInv  BY InitRegisters
<1>2. ConnectionInv /\ [Next]_vars => ConnectionInv'  BY StepKeepsLive
<1>3. ConnectionInv => LiveIsReachable  BY DEF ConnectionInv
<1> QED  BY <1>1, <1>2, <1>3, PTL DEF Spec

-------------------------------------------------------------------------------
(* Why what is recorded was carried out: an id names one request of its          *)
(* connection, and what a command still has to write waits behind the answer.    *)

Do == {"get", "put", "request", "reply", "notify", "stop", "detach", "close", "drop",
       "judge"}
Change == [desired : Desired \union {"same"}, actual : Actual \union {"same"},
           model : Op \union {"same"}]
Todo == [do : Do, changes : Change]
Order == [id : Nat, op : Op]
Message == [event : Status \union {"running", "reply"}, id : Nat, ok : BOOLEAN]

Elements(s) == {s[i] : i \in 1..Len(s)}

WireTypes ==
  /\ counter \in [Conn -> Nat]
  /\ pending \in [Conn -> SUBSET Order]
  /\ outbox \in [Conn -> Seq(Order)]
  /\ inbox \in [Conn -> Seq(Message)]
  /\ served \in SUBSET Op

\* The ids of a connection were given to one request each. What is sent to the worker
\* names the request that waits for it, and a positive answer one it has carried out.
Matches(c) ==
  /\ \A f \in pending[c] : 1 <= f.id /\ f.id <= counter[c]
  /\ \A m \in Elements(outbox[c]) : m.id # 0 =>
       /\ m.id <= counter[c]
       /\ \A f \in pending[c] : f.id = m.id => f.op = m.op
  /\ \A m \in Elements(inbox[c]) : m.event = "reply" /\ m.ok =>
       /\ m.id <= counter[c]
       /\ \A f \in pending[c] : f.id = m.id => f.op \in served

WireInv == WireTypes /\ \A c \in Conn : Matches(c)

\* Only a request that is being waited for is pending, and only once.
Waiting ==
  /\ \A c \in Conn : \A f \in pending[c] : Doing(f.op, "reply")
  /\ \A c, d \in Conn : \A f \in pending[c], g \in pending[d] :
       f.op = g.op => c = d /\ f = g

\* What process p still has to do, s: a write follows its read and an answer its
\* request, and what records a pause or a model is of p's own request (cm: the
\* commands), after the answer to it or when it has been carried out (done).
Paired(s) ==
  /\ \A i \in 2..Len(s) : s[i].do = "put" => s[i - 1].do = "get"
  /\ \A i \in 1..Len(s) : s[i].do = "request" =>
       i + 1 \in 1..Len(s) /\ s[i + 1].do = "reply"

Records(ch) == ch.desired = "paused" \/ ch.model # "same"

Own(p, ch, cm) ==
  /\ p \in Op
  /\ ch.desired = "paused" => cm[p] = "pause"
  /\ ch.model # "same" => ch.model = p

Honest(p, s, cm, done) ==
  \A i \in 1..Len(s) :
    Records(s[i].changes) =>
      /\ Own(p, s[i].changes, cm)
      /\ p \in done \/ \E j \in 1..(i - 1) : s[j].do = "reply"

Sound(p, s, cm, done) == s \in Seq(Todo) /\ Paired(s) /\ Honest(p, s, cm, done)

ProgInv ==
  /\ scope \in Scopes
  /\ cmd \in [Op -> Command \union {"none"}]
  /\ \A o \in Op : cmd[o] \in {"none", scope.commands[o]}
  /\ \A o \in Op : cmd[o] = "none" => prog[o] = <<>>
  /\ prog \in [Process -> Seq(Todo)]
  /\ \A p \in Process : Sound(p, prog[p], cmd, served)

\* A row that records a pause or a model records one that was carried out.
Recorded(r, cm, done) ==
  /\ r.desired = "paused" => \E o \in done : cm[o] = "pause"
  /\ r.model \in Op => r.model \in done

RowInv ==
  /\ row \in Row \union {NoRow} /\ Recorded(row, cmd, served)
  /\ held \in [Process -> Row \union {NoRow}]
  /\ \A p \in Process : /\ Recorded(held[p], cmd, served)
                        /\ Doing(p, "put") => held[p] \in Row

ControlInv == WireInv /\ Waiting /\ ProgInv /\ RowInv

-------------------------------------------------------------------------------
(* The wires.                                                                   *)

LEMMA ElementsTyped ==
  ASSUME NEW S, NEW s \in Seq(S)
  PROVE  \A x \in Elements(s) : x \in S
BY DEF Elements

LEMMA ElementsOfAppend ==
  ASSUME NEW S, NEW s \in Seq(S), NEW x \in S
  PROVE  /\ Append(s, x) \in Seq(S)
         /\ \A y \in Elements(Append(s, x)) : y = x \/ y \in Elements(s)
<1>1. /\ Append(s, x) \in Seq(S) /\ Len(s) \in Nat /\ Len(Append(s, x)) = Len(s) + 1
      /\ \A i \in 1..(Len(s) + 1) : Append(s, x)[i] = IF i = Len(s) + 1 THEN x ELSE s[i]
  OBVIOUS
<1> QED  BY <1>1 DEF Elements

LEMMA HeadAndTail ==
  ASSUME NEW S, NEW s \in Seq(S), s # <<>>
  PROVE  /\ Head(s) = s[1] /\ Tail(s) \in Seq(S) /\ Len(s) \in Nat \ {0}
         /\ Len(Tail(s)) = Len(s) - 1
         /\ \A i \in 1..(Len(s) - 1) : Tail(s)[i] = s[i + 1]
         /\ \A i \in 1..Len(s) : s[i] \in S
OBVIOUS

LEMMA ElementsOfTail ==
  ASSUME NEW S, NEW s \in Seq(S), s # <<>>
  PROVE  /\ Head(s) \in S /\ Head(s) \in Elements(s) /\ Tail(s) \in Seq(S)
         /\ \A y \in Elements(Tail(s)) : y \in Elements(s)
<1>1. /\ Head(s) = s[1] /\ Tail(s) \in Seq(S) /\ Len(s) \in Nat \ {0}
      /\ Len(Tail(s)) = Len(s) - 1
      /\ \A i \in 1..(Len(s) - 1) : Tail(s)[i] = s[i + 1]
      /\ \A i \in 1..Len(s) : s[i] \in S
  BY HeadAndTail
<1>2. \A i \in 1..(Len(s) - 1) : i + 1 \in 1..Len(s)
  BY <1>1
<1> QED  BY <1>1, <1>2 DEF Elements

LEMMA Messages ==
  /\ \A s \in Status \union {"running"} : Event(s) \in Message /\ Event(s).event # "reply"
  /\ \A n \in Nat, b \in BOOLEAN :
       /\ Reply(n, b) \in Message
       /\ Reply(n, b).id = n
       /\ Reply(n, b).ok => b
<1>1. \A e \in Status \union {"running", "reply"}, n \in Nat, b \in BOOLEAN :
        [event |-> e, id |-> n, ok |-> b] \in Message
  BY DEF Message
<1>2. TRUE \in BOOLEAN /\ 0 \in Nat
  OBVIOUS
<1>3. \A s \in Status \union {"running"} : Event(s) \in Message
  BY <1>1, <1>2, Zenon DEF Event
<1>4. \A s \in Status \union {"running"} : Event(s).event # "reply"
  BY AgentControlAssumption DEF Event
<1>5. \A n \in Nat, b \in BOOLEAN : Reply(n, b) \in Message
  BY <1>1, Zenon DEF Reply
<1>6. \A n \in Nat, b \in BOOLEAN : Reply(n, b).id = n /\ (Reply(n, b).ok => b)
  BY Zenon DEF Reply
<1> QED  BY <1>3, <1>4, <1>5, <1>6

\* A step keeps the wires in order when what it puts on them is in order: ids only
\* grow, and a new order or answer belongs to the request that waits for it.
LEMMA WiresStep ==
  ASSUME WireInv, WireTypes', served \subseteq served',
         \A c \in Conn : counter[c] <= counter'[c],
         \A c \in Conn : \A f \in pending'[c] :
           f \in pending[c] \/ (f.id = counter[c] + 1 /\ f.id <= counter'[c]),
         \A c \in Conn : \A m \in Elements(outbox'[c]) :
           \/ m \in Elements(outbox[c])
           \/ m.id = 0
           \/ /\ m.id <= counter'[c]
              /\ \A f \in pending'[c] : f.id = m.id => f.op = m.op,
         \A c \in Conn : \A m \in Elements(inbox'[c]) :
           \/ m \in Elements(inbox[c])
           \/ m.event # "reply" \/ ~m.ok
           \/ /\ m.id <= counter'[c]
              /\ \A f \in pending'[c] : f.id = m.id => f.op \in served'
  PROVE  WireInv'
<1> SUFFICES ASSUME NEW c \in Conn PROVE Matches(c)'
  BY DEF WireInv
<1>1. /\ counter[c] \in Nat /\ counter'[c] \in Nat /\ counter[c] <= counter'[c]
      /\ pending[c] \subseteq Order /\ pending'[c] \subseteq Order
  BY DEF WireInv, WireTypes
<1>2. /\ \A m \in Elements(outbox[c]) : m \in Order
      /\ \A m \in Elements(inbox[c]) : m.id \in Nat
  <2>1. outbox[c] \in Seq(Order) /\ inbox[c] \in Seq(Message)
    BY DEF WireInv, WireTypes
  <2>2. \A m \in Message : m.id \in Nat
    BY DEF Message
  <2> QED  BY <2>1, <2>2, ElementsTyped
<1>3. \A m \in Order : m.id \in Nat
  BY DEF Order
<1>4. \A f \in pending'[c] : 1 <= f.id /\ f.id <= counter'[c]
  BY <1>1, <1>3 DEF WireInv, Matches
<1>5. ASSUME NEW m \in Elements(outbox'[c]), m.id # 0
      PROVE  /\ m.id <= counter'[c]
             /\ \A f \in pending'[c] : f.id = m.id => f.op = m.op
  BY <1>1, <1>2, <1>3, <1>5 DEF WireInv, Matches
<1>6. ASSUME NEW m \in Elements(inbox'[c]), m.event = "reply", m.ok
      PROVE  /\ m.id <= counter'[c]
             /\ \A f \in pending'[c] : f.id = m.id => f.op \in served'
  BY <1>1, <1>2, <1>3, <1>6 DEF WireInv, Matches
<1> QED  BY <1>4, <1>5, <1>6 DEF Matches

LEMMA WiresKept ==
  ASSUME WireInv, UNCHANGED <<counter, pending, outbox, inbox, served>>
  PROVE  WireInv'
BY DEF WireInv, WireTypes, Matches

LEMMA RequestMatches ==
  ASSUME WireInv, current \in 0..MaxConn, NEW o \in Op, Request(o)
  PROVE  WireInv'
<1>1. CASE UNCHANGED <<outbox, counter, pending>>
  BY <1>1, WiresKept DEF Request
<1>2. ASSUME current # 0,
             counter' = [counter EXCEPT ![current] = @ + 1],
             pending' = [pending EXCEPT ![current] =
                           @ \union {[id |-> NextId(current), op |-> o]}],
             SendTo(current, o, NextId(current)), UNCHANGED <<inbox, served>>
      PROVE  WireInv'
  <2> DEFINE m == [id |-> counter[current] + 1, op |-> o]
  <2>1. PICK c \in Conn : c = current
    BY <1>2 DEF Conn
  <2>2. /\ counter[c] \in Nat /\ outbox[c] \in Seq(Order) /\ inbox[c] \in Seq(Message)
        /\ pending[c] \subseteq Order
    BY DEF WireInv, WireTypes
  <2>3. m \in Order /\ m.id = counter[c] + 1 /\ m.op = o
    BY <2>1, <2>2 DEF Order
  <2>4. /\ counter' = [counter EXCEPT ![c] = @ + 1]
        /\ pending' = [pending EXCEPT ![c] = @ \union {m}]
        /\ \/ outbox' = outbox
           \/ outbox' = [outbox EXCEPT ![c] = Append(outbox[c], m)]
    BY <1>2, <2>1 DEF NextId, SendTo
  <2> HIDE DEF m
  <2>5. /\ Append(outbox[c], m) \in Seq(Order)
        /\ \A x \in Elements(Append(outbox[c], m)) : x = m \/ x \in Elements(outbox[c])
    BY <2>2, <2>3, ElementsOfAppend
  <2>6. WireTypes'
    <3>1. counter' \in [Conn -> Nat]
      BY <2>2, <2>4 DEF WireInv, WireTypes
    <3>2. pending' \in [Conn -> SUBSET Order]
      BY <2>2, <2>3, <2>4 DEF WireInv, WireTypes
    <3>3. outbox' \in [Conn -> Seq(Order)]
      BY <2>2, <2>4, <2>5 DEF WireInv, WireTypes
    <3> QED  BY <1>2, <3>1, <3>2, <3>3 DEF WireInv, WireTypes
  <2>7. \A d \in Conn : counter[d] \in Nat /\ counter[d] <= counter'[d]
    BY <2>4 DEF WireInv, WireTypes
  <2>8. \A d \in Conn : \A f \in pending'[d] :
          f \in pending[d] \/ (f.id = counter[d] + 1 /\ f.id <= counter'[d])
    BY <2>3, <2>4 DEF WireInv, WireTypes
  <2>9. \A f \in pending'[c] : f.id = m.id => f.op = m.op
    BY <2>2, <2>3, <2>4 DEF WireInv, WireTypes, Matches
  <2>10. m.id <= counter'[c]
    BY <2>2, <2>3, <2>4 DEF WireInv, WireTypes
  <2>11. \A d \in Conn : \A x \in Elements(outbox'[d]) :
           x \in Elements(outbox[d]) \/ (d = c /\ x = m)
    BY <2>4, <2>5 DEF WireInv, WireTypes
  <2> QED
    BY <1>2, <2>6, <2>7, <2>8, <2>9, <2>10, <2>11, WiresStep
<1> QED  BY <1>1, <1>2 DEF Request

LEMMA TimeOutMatches ==
  ASSUME WireInv, NEW o \in Op, TimeOut(o)
  PROVE  WireInv'
<1>1. /\ UNCHANGED <<counter, outbox, inbox, served>>
      /\ pending' = [c \in Conn |-> {f \in pending[c] : f.op # o}]
  BY DEF TimeOut, NoLonger, wires
<1>2. pending' \in [Conn -> SUBSET Order]
  BY <1>1 DEF WireInv, WireTypes
<1>3. \A c \in Conn : pending'[c] \subseteq pending[c]
  BY <1>1
<1> QED  BY <1>1, <1>2, <1>3 DEF WireInv, WireTypes, Matches

LEMMA NotifyMatches ==
  ASSUME WireInv, current \in 0..MaxConn, NEW o \in Op, Notify(o)
  PROVE  WireInv'
<1>1. CASE UNCHANGED outbox
  BY <1>1, WiresKept DEF Notify, gateway
<1>2. CASE current # 0 /\ SendTo(current, o, 0) /\ ~UNCHANGED outbox
  <2> DEFINE m == [id |-> 0, op |-> o]
  <2>1. PICK c \in Conn : c = current
    BY <1>2 DEF Conn
  <2>2. outbox[c] \in Seq(Order) /\ m \in Order /\ m.id = 0
    BY DEF WireInv, WireTypes, Order
  <2>3. /\ outbox' = [outbox EXCEPT ![c] = Append(outbox[c], m)]
        /\ UNCHANGED <<counter, pending, inbox, served>>
    BY <1>2, <2>1 DEF SendTo, Notify, gateway
  <2> HIDE DEF m
  <2>4. /\ Append(outbox[c], m) \in Seq(Order)
        /\ \A x \in Elements(Append(outbox[c], m)) : x = m \/ x \in Elements(outbox[c])
    BY <2>2, ElementsOfAppend
  <2>5. WireTypes'
    BY <2>2, <2>3, <2>4 DEF WireInv, WireTypes
  <2>6. \A d \in Conn : counter[d] <= counter'[d]
    BY <2>3 DEF WireInv, WireTypes
  <2>7. \A d \in Conn : \A x \in Elements(outbox'[d]) : x \in Elements(outbox[d]) \/ x.id = 0
    BY <2>2, <2>3, <2>4 DEF WireInv, WireTypes
  <2> QED
    BY <2>3, <2>5, <2>6, <2>7, WiresStep
<1> QED  BY <1>1, <1>2 DEF Notify

\* What the worker sends: an event, or the answer to a request.
LEMMA SendingMatches ==
  ASSUME WireInv, NEW c \in Conn, UNCHANGED <<counter, pending>>,
         outbox' \in [Conn -> Seq(Order)],
         \A d \in Conn : \A x \in Elements(outbox'[d]) : x \in Elements(outbox[d]),
         served' \in SUBSET Op, served \subseteq served',
         NEW m \in Message, inbox' = [inbox EXCEPT ![c] = Append(@, m)],
         \/ m.event # "reply" \/ ~m.ok
         \/ /\ m.id <= counter[c]
            /\ \A f \in pending[c] : f.id = m.id => f.op \in served'
  PROVE  WireInv'
<1>1. inbox[c] \in Seq(Message)
  BY DEF WireInv, WireTypes
<1>2. /\ Append(inbox[c], m) \in Seq(Message)
      /\ \A x \in Elements(Append(inbox[c], m)) : x = m \/ x \in Elements(inbox[c])
  BY <1>1, ElementsOfAppend
<1>3. WireTypes'
  BY <1>2 DEF WireInv, WireTypes
<1>4. \A d \in Conn : counter[d] <= counter'[d]
  BY DEF WireInv, WireTypes
<1>5. \A d \in Conn : \A x \in Elements(inbox'[d]) :
        x \in Elements(inbox[d]) \/ (d = c /\ x = m)
  BY <1>2 DEF WireInv, WireTypes
<1> QED  BY <1>3, <1>4, <1>5, WiresStep

LEMMA ReportMatches ==
  ASSUME WireInv, NEW c \in Conn, NEW s \in Status, Report(c, s)
  PROVE  WireInv'
<1>1. /\ UNCHANGED <<counter, pending, outbox, served>>
      /\ inbox' = [inbox EXCEPT ![c] = Append(@, Event(s))]
  BY DEF Report, gateway
<1>2. Event(s) \in Message /\ Event(s).event # "reply"
  BY Messages
<1>3. outbox' \in [Conn -> Seq(Order)] /\ served' \in SUBSET Op
  BY <1>1 DEF WireInv, WireTypes
<1> QED  BY <1>1, <1>2, <1>3, SendingMatches

LEMMA AttachMatches ==
  ASSUME WireInv, NEW c \in Conn, Attach(c)
  PROVE  WireInv'
<1>1. /\ UNCHANGED <<counter, pending, outbox, served>>
      /\ inbox' = [inbox EXCEPT ![c] = <<Event("running")>>]
  BY DEF Attach
<1>2. Event("running") \in Message /\ Event("running").event # "reply"
  BY Messages
<1>3. <<Event("running")>> \in Seq(Message)
  BY <1>2
<1>4. \A x \in Elements(<<Event("running")>>) : x = Event("running")
  BY DEF Elements
<1>5. WireTypes'
  BY <1>1, <1>3 DEF WireInv, WireTypes
<1>6. \A d \in Conn : counter[d] <= counter'[d]
  BY <1>1 DEF WireInv, WireTypes
<1>7. \A d \in Conn : \A x \in Elements(inbox'[d]) :
        x \in Elements(inbox[d]) \/ x.event # "reply"
  BY <1>1, <1>2, <1>4 DEF WireInv, WireTypes
<1> QED  BY <1>1, <1>5, <1>6, <1>7, WiresStep

\* The worker answers what it was sent, and a positive answer is one carried out.
LEMMA ServeMatches ==
  ASSUME WireInv, NEW c \in Conn, Serve(c)
  PROVE  WireInv' /\ served \subseteq served'
<1> DEFINE r == Head(outbox[c])
<1>1. /\ outbox[c] # <<>> /\ outbox' = [outbox EXCEPT ![c] = Tail(@)]
      /\ UNCHANGED <<counter, pending>>
  BY DEF Serve, gateway
<1>2. outbox[c] \in Seq(Order)
  BY DEF WireInv, WireTypes
<1>3. /\ r \in Order /\ r \in Elements(outbox[c]) /\ Tail(outbox[c]) \in Seq(Order)
      /\ \A y \in Elements(Tail(outbox[c])) : y \in Elements(outbox[c])
  BY <1>1, <1>2, ElementsOfTail
<1>4. r.id \in Nat /\ r.op \in Op
  BY <1>3 DEF Order
<1>5. outbox' \in [Conn -> Seq(Order)]
  BY <1>1, <1>3 DEF WireInv, WireTypes
<1>6. \A d \in Conn : \A x \in Elements(outbox'[d]) : x \in Elements(outbox[d])
  BY <1>1, <1>3 DEF WireInv, WireTypes
<1>7. CASE r.id = 0 /\ UNCHANGED <<inbox, served>>
  BY <1>1, <1>5, <1>6, <1>7 DEF WireInv, WireTypes, Matches
<1>8. ASSUME NEW ok \in BOOLEAN, r.id # 0,
             inbox' = [inbox EXCEPT ![c] = Append(@, Reply(r.id, ok))],
             served' = IF ok THEN served \union {r.op} ELSE served
      PROVE  WireInv' /\ served \subseteq served'
  <2>1. /\ Reply(r.id, ok) \in Message /\ Reply(r.id, ok).id = r.id
        /\ Reply(r.id, ok).ok => ok
    BY <1>4, Messages
  <2>2. served' \in SUBSET Op /\ served \subseteq served'
    BY <1>4, <1>8 DEF WireInv, WireTypes
  <2>3. ok => r.op \in served'
    BY <1>8
  <2>4. r.id <= counter[c] /\ \A f \in pending[c] : f.id = r.id => f.op = r.op
    BY <1>3, <1>8 DEF WireInv, Matches
  <2>5. WireInv'
    BY <1>1, <1>5, <1>6, <1>8, <2>1, <2>2, <2>3, <2>4, SendingMatches
  <2> QED  BY <2>2, <2>5
<1> HIDE DEF r
<1> QED
  BY <1>7, <1>8 DEF Serve, r

\* A message is taken from the wire; an answer, from what is pending too.
LEMMA ReceiveMatches ==
  ASSUME WireInv, NEW c \in Conn, Receive(c)
  PROVE  WireInv'
<1>1. /\ inbox[c] # <<>> /\ inbox' = [inbox EXCEPT ![c] = Tail(@)]
      /\ UNCHANGED <<counter, outbox, served>>
  BY DEF Receive
<1>2. inbox[c] \in Seq(Message)
  BY DEF WireInv, WireTypes
<1>3. /\ Tail(inbox[c]) \in Seq(Message)
      /\ \A y \in Elements(Tail(inbox[c])) : y \in Elements(inbox[c])
  BY <1>1, <1>2, ElementsOfTail
<1>4. \A d \in Conn : pending'[d] \subseteq pending[d]
  BY DEF Receive, ReceiveReply, ReceiveEvent, WireInv, WireTypes
<1>5. pending' \in [Conn -> SUBSET Order]
  BY DEF Receive, ReceiveReply, ReceiveEvent, WireInv, WireTypes
<1>6. WireTypes'
  BY <1>1, <1>3, <1>5 DEF WireInv, WireTypes
<1>7. \A d \in Conn : counter[d] <= counter'[d]
  BY <1>1 DEF WireInv, WireTypes
<1>8. \A d \in Conn : \A x \in Elements(inbox'[d]) : x \in Elements(inbox[d])
  BY <1>1, <1>3 DEF WireInv, WireTypes
<1> QED  BY <1>1, <1>4, <1>6, <1>7, <1>8, WiresStep

LEMMA NextWires ==
  ASSUME WireInv, Registered, [Next]_vars
  PROVE  WireInv' /\ served \subseteq served'
<1>1. CASE UNCHANGED vars
  BY <1>1, WiresKept DEF vars, wires, gateway
<1>2. ASSUME NEW p \in Process, Get(p) \/ Put(p)
      PROVE  WireInv' /\ served \subseteq served'
  BY <1>2, WiresKept DEF Get, Put, wires, gateway
<1>3. ASSUME NEW o \in Op, Ask(o) \/ StopContainer(o) \/ Detach(o) \/ Close(o) \/ Drop(o)
      PROVE  WireInv' /\ served \subseteq served'
  BY <1>3, WiresKept DEF Ask, StopContainer, Detach, Close, Drop, wires, gateway
<1>4. ASSUME NEW o \in Op, Request(o) \/ TimeOut(o) \/ Notify(o)
      PROVE  WireInv' /\ served \subseteq served'
  <2>1. served' = served
    BY <1>4 DEF Request, TimeOut, Notify, wires
  <2> QED
    BY <1>4, <2>1, RequestMatches, TimeOutMatches, NotifyMatches DEF Registered
<1>5. ASSUME NEW c \in Conn, Judge(c) \/ CloseOld(c) \/ End(c) \/ Lose(c)
      PROVE  WireInv' /\ served \subseteq served'
  BY <1>5, WiresKept DEF Judge, CloseOld, End, Lose, wires, gateway
<1>6. ASSUME NEW c \in Conn, Receive(c) \/ Attach(c)
      PROVE  WireInv' /\ served \subseteq served'
  <2>1. served' = served
    BY <1>6 DEF Receive, Attach
  <2> QED
    BY <1>6, <2>1, ReceiveMatches, AttachMatches
<1>7. ASSUME NEW c \in Conn, NEW s \in Status, Report(c, s)
      PROVE  WireInv' /\ served \subseteq served'
  BY <1>7, ReportMatches DEF Report
<1>8. ASSUME NEW c \in Conn, Serve(c)
      PROVE  WireInv' /\ served \subseteq served'
  BY <1>8, ServeMatches
<1>9. Op \subseteq Process /\ Conn \subseteq Process
  BY DEF Process
<1> QED
  BY <1>1, <1>2, <1>3, <1>4, <1>5, <1>6, <1>7, <1>8, <1>9 DEF Next, Execute, Handler

-------------------------------------------------------------------------------
(* What a process has before it.                                                *)

LEMMA EmptyIsSound ==
  ASSUME NEW p, NEW cm, NEW done
  PROVE  Sound(p, <<>>, cm, done)
<1>1. <<>> \in Seq(Todo) /\ Len(<<>>) = 0
  OBVIOUS
<1> QED  BY <1>1 DEF Sound, Paired, Honest

\* An await that is done is removed; the answer may be, when it has come.
LEMMA TailIsSound ==
  ASSUME NEW p, NEW s, NEW cm, NEW done, Sound(p, s, cm, done), s # <<>>,
         Head(s).do # "reply" \/ p \in done
  PROVE  /\ Sound(p, Tail(s), cm, done)
         /\ Tail(s) # <<>> /\ Head(Tail(s)).do = "put" => Head(s).do = "get"
         /\ Head(s).do = "request" => Tail(s) # <<>> /\ Head(Tail(s)).do = "reply"
<1> DEFINE t == Tail(s)
<1>1. /\ Head(s) = s[1] /\ t \in Seq(Todo) /\ Len(s) \in Nat \ {0}
      /\ Len(t) = Len(s) - 1
      /\ \A i \in 1..(Len(s) - 1) : t[i] = s[i + 1]
  BY HeadAndTail DEF Sound
<1>2. t # <<>> => Len(t) \in Nat \ {0} /\ Head(t) = t[1]
  BY <1>1, HeadAndTail
<1> HIDE DEF t
<1>3. Paired(t)
  <2>1. ASSUME NEW i \in 2..Len(t), t[i].do = "put" PROVE t[i - 1].do = "get"
    <3>1. i + 1 \in 2..Len(s) /\ (i + 1) - 1 = i /\ t[i] = s[i + 1]
      BY <1>1
    <3>2. i - 1 \in 1..(Len(s) - 1) /\ (i - 1) + 1 = i
      BY <1>1
    <3>3. t[i - 1] = s[i]
      BY <1>1, <3>2
    <3>4. s[i].do = "get"
      BY <2>1, <3>1 DEF Sound, Paired
    <3> QED  BY <3>3, <3>4
  <2>2. ASSUME NEW i \in 1..Len(t), t[i].do = "request"
        PROVE  i + 1 \in 1..Len(t) /\ t[i + 1].do = "reply"
    <3>1. i + 1 \in 1..Len(s) /\ t[i] = s[i + 1]
      BY <1>1
    <3>2. (i + 1) + 1 \in 1..Len(s) /\ s[(i + 1) + 1].do = "reply"
      BY <2>2, <3>1 DEF Sound, Paired
    <3> QED  BY <1>1, <3>2
  <2> QED  BY <2>1, <2>2 DEF Paired
<1>4. Honest(p, t, cm, done)
  <2> SUFFICES ASSUME NEW i \in 1..Len(t), Records(t[i].changes)
               PROVE  /\ Own(p, t[i].changes, cm)
                      /\ p \in done \/ \E j \in 1..(i - 1) : t[j].do = "reply"
    BY DEF Honest
  <2>1. i + 1 \in 1..Len(s) /\ (i + 1) - 1 = i /\ t[i] = s[i + 1]
    BY <1>1
  <2>2. /\ Own(p, s[i + 1].changes, cm)
        /\ p \in done \/ \E j \in 1..i : s[j].do = "reply"
    BY <2>1 DEF Sound, Honest
  <2>3. CASE p \notin done
    <3>1. PICK j \in 1..i : s[j].do = "reply"
      BY <2>2, <2>3
    <3>2. j # 1
      BY <1>1, <2>3, <3>1
    <3>3. j - 1 \in 1..(i - 1) /\ t[j - 1] = s[j]
      BY <1>1, <3>2
    <3> QED  BY <2>1, <2>2, <3>1, <3>3
  <2> QED  BY <2>1, <2>2, <2>3
<1>5. t # <<>> /\ Head(t).do = "put" => Head(s).do = "get"
  <2> SUFFICES ASSUME t # <<>>, Head(t).do = "put" PROVE Head(s).do = "get"
    OBVIOUS
  <2>1. 2 \in 2..Len(s) /\ 2 - 1 = 1 /\ Head(t) = s[2]
    BY <1>1, <1>2
  <2> QED  BY <1>1, <2>1 DEF Sound, Paired
<1>6. Head(s).do = "request" => t # <<>> /\ Head(t).do = "reply"
  <2> SUFFICES ASSUME Head(s).do = "request" PROVE t # <<>> /\ Head(t).do = "reply"
    OBVIOUS
  <2>1. 1 + 1 \in 1..Len(s) /\ s[1 + 1].do = "reply"
    BY <1>1 DEF Sound, Paired
  <2>2. t # <<>>
    <3>1. Len(t) >= 1
      BY <1>1, <2>1
    <3>2. Len(<<>>) = 0
      OBVIOUS
    <3> QED  BY <3>1, <3>2
  <2> QED  BY <1>1, <1>2, <2>1, <2>2
<1> QED  BY <1>1, <1>3, <1>4, <1>5, <1>6 DEF Sound, t

\* What is sound stays so while commands are given and requests carried out.
LEMMA SoundGrows ==
  ASSUME NEW p, NEW s, NEW cm, NEW done, Sound(p, s, cm, done),
         NEW cm2, NEW done2, done \subseteq done2, p \in Op => cm2[p] = cm[p]
  PROVE  Sound(p, s, cm2, done2)
BY DEF Sound, Honest, Own

LEMMA TwoTwoTwo ==
  ASSUME NEW S, NEW a \in S, NEW b \in S, NEW c \in S, NEW d \in S, NEW e \in S,
         NEW f \in S, NEW s, s = <<a, b>> \o <<c, d>> \o <<e, f>>
  PROVE  /\ s \in Seq(S) /\ Len(s) = 6
         /\ s[1] = a /\ s[2] = b /\ s[3] = c /\ s[4] = d /\ s[5] = e /\ s[6] = f
<1> DEFINE t == <<a, b>> \o <<c, d>>
<1>1. t \in Seq(S) /\ Len(t) = 4 /\ t[1] = a /\ t[2] = b /\ t[3] = c /\ t[4] = d
  OBVIOUS
<1>2. s = t \o <<e, f>>
  OBVIOUS
<1>3. <<e, f>> \in Seq(S) /\ Len(<<e, f>>) = 2 /\ <<e, f>>[1] = e /\ <<e, f>>[2] = f
  OBVIOUS
<1> HIDE DEF t
<1> QED  BY <1>1, <1>2, <1>3

LEMMA OneTwoTwo ==
  ASSUME NEW S, NEW a \in S, NEW b \in S, NEW c \in S, NEW d \in S, NEW e \in S,
         NEW s, s = <<a>> \o <<b, c>> \o <<d, e>>
  PROVE  /\ s \in Seq(S) /\ Len(s) = 5
         /\ s[1] = a /\ s[2] = b /\ s[3] = c /\ s[4] = d /\ s[5] = e
<1> DEFINE t == <<a>> \o <<b, c>>
<1>1. t \in Seq(S) /\ Len(t) = 3 /\ t[1] = a /\ t[2] = b /\ t[3] = c
  OBVIOUS
<1>2. s = t \o <<d, e>>
  OBVIOUS
<1>3. <<d, e>> \in Seq(S) /\ Len(<<d, e>>) = 2 /\ <<d, e>>[1] = d /\ <<d, e>>[2] = e
  OBVIOUS
<1> HIDE DEF t
<1> QED  BY <1>1, <1>2, <1>3

\* An await that records nothing, and a write of what an update changes.
Quiet(x) == x.changes.desired # "paused" /\ x.changes.model = "same"

LEMMA Awaits ==
  /\ \A d \in Do : Await(d) \in Todo /\ Await(d).do = d /\ Quiet(Await(d))
  /\ \A ch \in Change : [do |-> "put", changes |-> ch] \in Todo
BY DEF Await, Same, Todo, Change, Do, Quiet

LEMMA Changes ==
  /\ Same \in Change /\ Same.desired = "same" /\ Same.model = "same"
  /\ \A d \in Desired : LET ch == [Same EXCEPT !.desired = d] IN
       ch \in Change /\ ch.desired = d /\ ch.model = "same"
  /\ \A a \in Actual : LET ch == [Same EXCEPT !.actual = a] IN
       ch \in Change /\ ch.desired = "same" /\ ch.model = "same"
  /\ \A o \in Op : LET ch == [Same EXCEPT !.model = o] IN
       ch \in Change /\ ch.desired = "same" /\ ch.model = o
  /\ LET ch == [Same EXCEPT !.desired = "stopped", !.actual = "stopped"] IN
       ch \in Change /\ ch.desired = "stopped" /\ ch.model = "same"
BY DEF Same, Change, Desired, Actual

\* Awaits that record nothing.
LEMMA QuietIsSound ==
  ASSUME NEW p, NEW cm, NEW done, NEW s \in Seq(Todo), Paired(s),
         \A i \in 1..Len(s) : Quiet(s[i])
  PROVE  Sound(p, s, cm, done)
BY DEF Sound, Honest, Records, Quiet

LEMMA JudgeIsSound ==
  ASSUME NEW p, NEW cm, NEW done
  PROVE  /\ Sound(p, <<Await("judge")>>, cm, done)
         /\ Head(<<Await("judge")>>).do = "judge"
<1>1. Await("judge") \in Todo /\ Await("judge").do = "judge" /\ Quiet(Await("judge"))
  BY Awaits DEF Do
<1> DEFINE s == <<Await("judge")>>
<1>2. s \in Seq(Todo) /\ Len(s) = 1 /\ s[1] = Await("judge") /\ Head(s) = Await("judge")
  BY <1>1
<1> HIDE DEF s
<1>3. Paired(s)
  BY <1>1, <1>2 DEF Paired
<1>4. \A i \in 1..Len(s) : Quiet(s[i])
  BY <1>1, <1>2
<1> QED  BY <1>1, <1>2, <1>3, <1>4, QuietIsSound DEF s

LEMMA UpdateIsPair ==
  ASSUME NEW ch \in Change, NEW s, s = Update(ch)
  PROVE  /\ s \in Seq(Todo) /\ Len(s) = 2 /\ Head(s) = s[1]
         /\ s[1] = Await("get") /\ s[2] = [do |-> "put", changes |-> ch]
         /\ s[1].do = "get" /\ Quiet(s[1])
<1>1. Await("get") \in Todo /\ Await("get").do = "get" /\ Quiet(Await("get"))
  BY Awaits DEF Do
<1>2. [do |-> "put", changes |-> ch] \in Todo
  BY Awaits
<1>3. s = <<Await("get"), [do |-> "put", changes |-> ch]>>
  BY DEF Update
<1> QED  BY <1>1, <1>2, <1>3

LEMMA QuietUpdateIsSound ==
  ASSUME NEW p, NEW cm, NEW done, NEW ch \in Change, ch.desired # "paused", ch.model = "same"
  PROVE  Sound(p, Update(ch), cm, done) /\ Head(Update(ch)).do = "get"
<1> DEFINE s == Update(ch)
<1>1. /\ s \in Seq(Todo) /\ Len(s) = 2 /\ Head(s) = s[1]
      /\ s[2] = [do |-> "put", changes |-> ch] /\ s[1].do = "get" /\ Quiet(s[1])
  BY UpdateIsPair
<1> HIDE DEF s
<1>2. Paired(s)
  BY <1>1 DEF Paired
<1>3. \A i \in 1..Len(s) : Quiet(s[i])
  BY <1>1 DEF Quiet
<1> QED  BY <1>1, <1>2, <1>3, QuietIsSound DEF s

\* An event records the state it reports, which is never a pause the row asks for.
LEMMA ActualIsSound ==
  ASSUME NEW p, NEW cm, NEW done, NEW a \in Actual
  PROVE  Sound(p, ToActual(a), cm, done) /\ Head(ToActual(a)).do = "get"
<1> DEFINE ch == [Same EXCEPT !.actual = a]
<1>1. ch \in Change /\ ch.desired = "same" /\ ch.model = "same"
  BY Changes
<1>2. ToActual(a) = Update(ch)
  BY DEF ToActual
<1> HIDE DEF ch
<1> QED  BY <1>1, <1>2, QuietUpdateIsSound

LEMMA ReportedIsSound ==
  ASSUME NEW p, NEW cm, NEW done, NEW a \in Actual
  PROVE  Sound(p, ToReported(a), cm, done) /\ Head(ToReported(a)).do = "get"
<1> DEFINE ch == [Same EXCEPT !.actual = a]
           put == [do |-> "put", changes |-> ch]
           s == ToReported(a)
<1>1. ch \in Change /\ ch.desired = "same" /\ ch.model = "same"
  BY Changes
<1>2. put \in Todo /\ put.do = "put" /\ Quiet(put)
  BY <1>1, Awaits DEF Quiet
<1>3. Await("get") \in Todo /\ Await("get").do = "get" /\ Quiet(Await("get"))
  BY Awaits DEF Do
<1>4. s = <<Await("get")>> \o <<Await("get"), put>>
  BY DEF ToReported, ToActual, Update
<1> HIDE DEF ch, put, s
<1>5. /\ s \in Seq(Todo) /\ Len(s) = 3 /\ Head(s) = s[1]
      /\ s[1] = Await("get") /\ s[2] = Await("get") /\ s[3] = put
  BY <1>2, <1>3, <1>4
<1>6. Paired(s)
  BY <1>2, <1>3, <1>5 DEF Paired
<1>7. \A i \in 1..Len(s) : Quiet(s[i])
  BY <1>2, <1>3, <1>5
<1> QED  BY <1>3, <1>5, <1>6, <1>7, QuietIsSound DEF s

\* What a command will do is sound before it has begun: it writes after it reads, and
\* records what it was asked for after the answer.
LEMMA ScriptIsSound ==
  ASSUME NEW o \in Op, NEW c \in Command, NEW cm, cm[o] = c, NEW done
  PROVE  /\ Sound(o, Script(o, c), cm, done)
         /\ Script(o, c) # <<>> /\ Head(Script(o, c)).do # "put"
<1> DEFINE put(ch) == [do |-> "put", changes |-> ch]
<1>1. /\ Await("get") \in Todo /\ Await("request") \in Todo /\ Await("reply") \in Todo
      /\ Await("get").do = "get" /\ Await("request").do = "request"
      /\ Await("reply").do = "reply"
      /\ Quiet(Await("get")) /\ Quiet(Await("request")) /\ Quiet(Await("reply"))
  BY Awaits DEF Do
<1>2. /\ Await("notify") \in Todo /\ Await("stop") \in Todo /\ Await("detach") \in Todo
      /\ Await("close") \in Todo /\ Await("drop") \in Todo
      /\ Await("notify").do = "notify" /\ Await("stop").do = "stop"
      /\ Await("detach").do = "detach" /\ Await("close").do = "close"
      /\ Await("drop").do = "drop"
      /\ Quiet(Await("notify")) /\ Quiet(Await("stop"))
      /\ Quiet(Await("detach")) /\ Quiet(Await("close")) /\ Quiet(Await("drop"))
  BY Awaits DEF Do
<1>3. \A ch \in Change : /\ put(ch) \in Todo /\ put(ch).do = "put"
                         /\ put(ch).changes = ch
  BY Awaits
<1>4. \A s \in Seq(Todo) : Len(s) > 0 => s # <<>> /\ Head(s) = s[1]
  OBVIOUS
<1> SUFFICES ASSUME NEW s, s = Script(o, c)
             PROVE  /\ s \in Seq(Todo) /\ Len(s) > 0 /\ s[1].do # "put" /\ Paired(s)
                    /\ Honest(o, s, cm, done)
  BY <1>4 DEF Sound
<1>5. CASE c = "record_launch"
  <2>1. s = <<Await("get"), put(Same)>>
    BY <1>5 DEF Script, Update
  <2>2. put(Same) \in Todo /\ put(Same).do = "put" /\ Quiet(put(Same))
    BY <1>3, Changes DEF Quiet
  <2> HIDE DEF put
  <2>3. /\ s \in Seq(Todo) /\ Len(s) = 2 /\ s[1].do = "get" /\ s[2].do = "put"
        /\ Quiet(s[1]) /\ Quiet(s[2])
    BY <1>1, <2>1, <2>2
  <2> QED  BY <2>3 DEF Paired, Honest, Records, Quiet
<1>6. CASE c = "pause"
  <2> DEFINE asks == [Same EXCEPT !.desired = "pause_requested"]
             records == [Same EXCEPT !.desired = "paused"]
  <2>1. s = <<Await("get"), put(asks)>> \o <<Await("request"), Await("reply")>>
              \o <<Await("get"), put(records)>>
    BY <1>6 DEF Script, ToDesired, Update, Requested
  <2>2. /\ asks \in Change /\ asks.desired # "paused" /\ asks.model = "same"
        /\ records \in Change /\ records.model = "same"
    BY Changes DEF Desired
  <2>3. /\ put(asks) \in Todo /\ put(asks).do = "put" /\ Quiet(put(asks))
        /\ put(records) \in Todo /\ put(records).do = "put"
        /\ put(records).changes.model = "same"
    BY <1>3, <2>2 DEF Quiet
  <2> HIDE DEF put, asks, records
  <2>4. /\ s \in Seq(Todo) /\ Len(s) = 6
        /\ s[1] = Await("get") /\ s[2] = put(asks) /\ s[3] = Await("request")
        /\ s[4] = Await("reply") /\ s[5] = Await("get") /\ s[6] = put(records)
    BY <1>1, <2>1, <2>3, TwoTwoTwo
  <2>5. Paired(s)
    BY <1>1, <2>3, <2>4 DEF Paired
  <2>6. Honest(o, s, cm, done)
    <3>1. \A i \in 1..Len(s) : i = 6 \/ Quiet(s[i])
      BY <1>1, <2>3, <2>4
    <3>2. 4 \in 1..(6 - 1) /\ s[4].do = "reply"
      BY <1>1, <2>4
    <3>3. Own(o, s[6].changes, cm)
      BY <1>6, <2>3, <2>4 DEF Own
    <3> QED  BY <3>1, <3>2, <3>3 DEF Honest, Records, Quiet
  <2> QED  BY <1>1, <2>4, <2>5, <2>6
<1>7. CASE c = "resume"
  <2> DEFINE records == [Same EXCEPT !.desired = "running"]
  <2>1. s = <<Await("get")>> \o <<Await("request"), Await("reply")>>
              \o <<Await("get"), put(records)>>
    BY <1>7 DEF Script, ToDesired, Update, Requested
  <2>2. records \in Change /\ records.desired # "paused" /\ records.model = "same"
    BY Changes DEF Desired
  <2>3. put(records) \in Todo /\ put(records).do = "put" /\ Quiet(put(records))
    BY <1>3, <2>2 DEF Quiet
  <2> HIDE DEF put, records
  <2>4. /\ s \in Seq(Todo) /\ Len(s) = 5
        /\ s[1] = Await("get") /\ s[2] = Await("request") /\ s[3] = Await("reply")
        /\ s[4] = Await("get") /\ s[5] = put(records)
    BY <1>1, <2>1, <2>3, OneTwoTwo
  <2>5. Paired(s)
    BY <1>1, <2>3, <2>4 DEF Paired
  <2>6. Honest(o, s, cm, done)
    BY <1>1, <2>3, <2>4 DEF Honest, Records, Own, Quiet
  <2> QED  BY <1>1, <2>4, <2>5, <2>6
<1>8. CASE c = "set_model"
  <2> DEFINE records == [Same EXCEPT !.model = o]
  <2>1. s = <<Await("get")>> \o <<Await("request"), Await("reply")>>
              \o <<Await("get"), put(records)>>
    BY <1>8 DEF Script, Update, Requested
  <2>2. records \in Change /\ records.desired # "paused" /\ records.model = o
    BY Changes
  <2>3. /\ put(records) \in Todo /\ put(records).do = "put"
        /\ put(records).changes.desired # "paused" /\ put(records).changes.model = o
    BY <1>3, <2>2
  <2> HIDE DEF put, records
  <2>4. /\ s \in Seq(Todo) /\ Len(s) = 5
        /\ s[1] = Await("get") /\ s[2] = Await("request") /\ s[3] = Await("reply")
        /\ s[4] = Await("get") /\ s[5] = put(records)
    BY <1>1, <2>1, <2>3, OneTwoTwo
  <2>5. Paired(s)
    BY <1>1, <2>3, <2>4 DEF Paired
  <2>6. Honest(o, s, cm, done)
    BY <1>1, <2>3, <2>4 DEF Honest, Records, Own, Quiet
  <2> QED  BY <1>1, <2>4, <2>5, <2>6
<1>9. CASE c = "stop"
  <2> DEFINE asks == [Same EXCEPT !.desired = "stopping"]
             records == [Same EXCEPT !.desired = "stopped", !.actual = "stopped"]
  <2>1. s = <<Await("get"), put(asks)>> \o <<Await("notify"), Await("stop")>>
              \o <<Await("get"), put(records)>>
    BY <1>9 DEF Script, ToDesired, Update, Stopped
  <2>2. /\ asks \in Change /\ asks.desired # "paused" /\ asks.model = "same"
        /\ records \in Change /\ records.desired # "paused" /\ records.model = "same"
    BY Changes DEF Desired
  <2>3. /\ put(asks) \in Todo /\ put(asks).do = "put" /\ Quiet(put(asks))
        /\ put(records) \in Todo /\ put(records).do = "put" /\ Quiet(put(records))
    BY <1>3, <2>2 DEF Quiet
  <2> HIDE DEF put, asks, records
  <2>4. /\ s \in Seq(Todo) /\ Len(s) = 6
        /\ s[1] = Await("get") /\ s[2] = put(asks) /\ s[3] = Await("notify")
        /\ s[4] = Await("stop") /\ s[5] = Await("get") /\ s[6] = put(records)
    BY <1>1, <1>2, <2>1, <2>3, TwoTwoTwo
  <2>5. Paired(s)
    BY <1>1, <1>2, <2>3, <2>4 DEF Paired
  <2>6. Honest(o, s, cm, done)
    BY <1>1, <1>2, <2>3, <2>4 DEF Honest, Records, Own, Quiet
  <2> QED  BY <1>1, <2>4, <2>5, <2>6
<1>10. CASE c = "delete"
  <2>1. s = <<Await("stop"), Await("detach"), Await("close"), Await("drop")>>
    BY <1>10 DEF Script
  <2>2. /\ s \in Seq(Todo) /\ Len(s) = 4
        /\ s[1] = Await("stop") /\ s[2] = Await("detach")
        /\ s[3] = Await("close") /\ s[4] = Await("drop")
    BY <1>2, <2>1
  <2> QED  BY <1>2, <2>2 DEF Paired, Honest, Records, Quiet
<1> QED  BY <1>5, <1>6, <1>7, <1>8, <1>9, <1>10 DEF Command

-------------------------------------------------------------------------------
(* How a step moves a process on.                                               *)

\* Nothing happens to q; it fails; it reads the row; it ends an await, of an answer
\* only when it came; it begins to handle an event; it begins its command.
Moves(q) ==
  \/ prog'[q] = prog[q] /\ held'[q] = held[q]
  \/ prog'[q] = <<>>
  \/ Get(q)
  \/ /\ prog[q] # <<>> /\ prog'[q] = Tail(prog[q]) /\ ~Doing(q, "get")
     /\ Doing(q, "reply") => q \in served
  \/ q \in Conn /\ \E a \in Actual : prog'[q] \in {ToActual(a), ToReported(a)}
  \/ q \in Conn /\ prog'[q] = <<Await("judge")>>
  \/ q \in Op /\ prog'[q] = Script(q, scope.commands[q])
              /\ cmd' = [cmd EXCEPT ![q] = scope.commands[q]]

\* What one process does to the programs.
LEMMA OneMoves ==
  ASSUME ProgInv, RowInv, NEW p \in Process, NEW s, prog' = [prog EXCEPT ![p] = s],
         held' = held \/ \E x : held' = [held EXCEPT ![p] = x],
         NEW q \in Process
  PROVE  IF q = p THEN prog'[q] = s ELSE prog'[q] = prog[q] /\ held'[q] = held[q]
BY DEF ProgInv, RowInv

\* An answer moves the request on that waited for it.
LEMMA AnswerMoves ==
  ASSUME WireInv, Waiting, ProgInv, NEW c \in Conn, inbox[c] # <<>>, ReceiveReply(c),
         held' = held, NEW q \in Process
  PROVE  Moves(q)
<1> DEFINE m == Head(inbox[c])
           answered == {f.op : f \in {g \in pending[c] : g.id = m.id}}
<1>1. /\ m.event = "reply"
      /\ prog'[q] = CASE q \notin answered -> prog[q]
                      [] q \in answered /\ m.ok -> Tail(prog[q])
                      [] q \in answered /\ ~m.ok -> <<>>
  BY DEF ReceiveReply
<1>2. m \in Elements(inbox[c])
  BY ElementsOfTail DEF WireInv, WireTypes
<1>3. q \in answered => Doing(q, "reply")
  BY DEF Waiting
<1>4. q \in answered /\ m.ok => q \in served
  BY <1>1, <1>2 DEF WireInv, Matches
<1> HIDE DEF m, answered
<1>5. CASE q \notin answered
  BY <1>1, <1>5 DEF Moves
<1>6. CASE q \in answered /\ ~m.ok
  BY <1>1, <1>6, Zenon DEF Moves
<1>7. CASE q \in answered /\ m.ok
  <2>1. prog'[q] = Tail(prog[q])
    BY <1>1, <1>7, Zenon
  <2>2. prog[q] # <<>> /\ ~Doing(q, "get")
    BY <1>3, <1>7 DEF Doing
  <2> QED  BY <1>4, <1>7, <2>1, <2>2 DEF Moves
<1> QED  BY <1>5, <1>6, <1>7

LEMMA NextMoves ==
  ASSUME WireInv, Waiting, ProgInv, RowInv, [Next]_vars, NEW q \in Process
  PROVE  Moves(q)
<1> USE DEF Goes, Proceeds, Raises, wires, gateway
<1>1. CASE UNCHANGED <<prog, held>>
  BY <1>1 DEF Moves
<1>2. ASSUME NEW p \in Process, Get(p) PROVE Moves(q)
  <2>1. held' = held \/ \E x : held' = [held EXCEPT ![p] = x]
    BY <1>2 DEF Get
  <2>2. \E s : prog' = [prog EXCEPT ![p] = s]
    BY <1>2 DEF Get
  <2>3. CASE q = p
    BY <1>2, <2>3 DEF Moves
  <2>4. CASE q # p
    <3>1. prog'[q] = prog[q] /\ held'[q] = held[q]
      BY <2>1, <2>2, <2>4, OneMoves
    <3> QED  BY <3>1 DEF Moves
  <2> QED  BY <2>3, <2>4
<1>3. ASSUME NEW p \in Process, Put(p) PROVE Moves(q)
  <2>1. held' = held \/ \E x : held' = [held EXCEPT ![p] = x]
    BY <1>3 DEF Put
  <2>2. PICK s : prog' = [prog EXCEPT ![p] = s] /\ s \in {<<>>, Tail(prog[p])}
    BY <1>3 DEF Put
  <2>3. prog[p] # <<>> /\ ~Doing(p, "get") /\ ~Doing(p, "reply")
    BY <1>3 DEF Put, Doing
  <2> QED  BY <2>1, <2>2, <2>3, OneMoves DEF Moves
<1>4. ASSUME NEW c \in Conn, Judge(c) PROVE Moves(q)
  <2>1. PICK s : prog' = [prog EXCEPT ![c] = s]
                 /\ (s = <<>> \/ \E a \in Actual : s = ToActual(a))
    BY <1>4 DEF Judge, Actual
  <2>2. held' = held
    BY <1>4 DEF Judge
  <2> QED  BY <2>1, <2>2, OneMoves DEF Moves, Process
<1>5. ASSUME NEW o \in Op, Ask(o) PROVE Moves(q)
  <2>1. /\ prog' = [prog EXCEPT ![o] = Script(o, scope.commands[o])]
        /\ cmd' = [cmd EXCEPT ![o] = scope.commands[o]] /\ held' = held
    BY <1>5 DEF Ask
  <2> QED  BY <2>1, OneMoves DEF Moves, Process
<1>6. ASSUME NEW o \in Op, \/ Request(o) \/ TimeOut(o) \/ Notify(o) \/ StopContainer(o)
                           \/ Detach(o) \/ Close(o) \/ Drop(o)
      PROVE  Moves(q)
  <2>1. held' = held
    BY <1>6 DEF Request, TimeOut, Notify, StopContainer, Detach, Close, Drop
  <2>2. CASE prog' = [prog EXCEPT ![o] = <<>>]
    BY <2>1, <2>2, OneMoves DEF Moves, Process
  <2>3. CASE prog' = [prog EXCEPT ![o] = Tail(prog[o])] /\ ~TimeOut(o)
    <3>1. prog[o] # <<>> /\ ~Doing(o, "get") /\ ~Doing(o, "reply")
      BY <1>6, <2>3 DEF Request, Notify, StopContainer, Detach, Close, Drop, Doing
    <3> QED  BY <2>1, <2>3, <3>1, OneMoves DEF Moves, Process
  <2> QED
    BY <1>6, <2>2, <2>3 DEF Request, TimeOut, Notify, StopContainer, Detach, Close, Drop
<1>7. ASSUME NEW c \in Conn, Receive(c) PROVE Moves(q)
  <2>1. held' = held /\ inbox[c] # <<>>
    BY <1>7 DEF Receive
  <2>2. CASE ReceiveReply(c)
    BY <2>1, <2>2, AnswerMoves
  <2>3. CASE ReceiveEvent(c)
    <3>1. inbox[c] \in Seq(Message)
      BY DEF WireInv, WireTypes
    <3>2. Head(inbox[c]) \in Message
      BY <2>1, <3>1, ElementsOfTail
    <3>3. Head(inbox[c]).event \in Actual
      BY <2>3, <3>2 DEF ReceiveEvent, Message, Actual
    <3>4. prog' = [prog EXCEPT ![c] = ToReported(Head(inbox[c]).event)]
      BY <2>3 DEF ReceiveEvent
    <3> QED  BY <2>1, <3>3, <3>4, OneMoves DEF Moves, Process
  <2> QED  BY <1>7, <2>2, <2>3 DEF Receive
<1>8. ASSUME NEW c \in Conn, End(c) PROVE Moves(q)
  <2>1. held' = held
    BY <1>8 DEF End
  <2>2. CASE prog' = [prog EXCEPT ![c] = <<Await("judge")>>]
    BY <2>1, <2>2, OneMoves DEF Moves, Process
  <2> QED  BY <1>1, <1>8, <2>1, <2>2 DEF End
<1>9. ASSUME NEW c \in Conn, CloseOld(c) \/ Attach(c) \/ Serve(c) \/ Lose(c)
      PROVE  UNCHANGED <<prog, held>>
  BY <1>9 DEF CloseOld, Attach, Serve, Lose
<1>10. ASSUME NEW c \in Conn, NEW s \in Status, Report(c, s) PROVE UNCHANGED <<prog, held>>
  BY <1>10 DEF Report
<1>11. UNCHANGED vars => UNCHANGED <<prog, held>>
  BY DEF vars
<1>12. Op \subseteq Process /\ Conn \subseteq Process
  BY DEF Process
<1> QED
  BY <1>1, <1>2, <1>3, <1>4, <1>5, <1>6, <1>7, <1>8, <1>9, <1>10, <1>11, <1>12
  DEF Next, Execute, Handler

\* What the commands are.
LEMMA NextCommands ==
  ASSUME ProgInv, [Next]_vars
  PROVE  /\ scope' = scope
         /\ cmd' = cmd \/ \E o \in Op : Ask(o)
         /\ cmd' \in [Op -> Command \union {"none"}]
         /\ \A o \in Op : cmd'[o] \in {"none", scope.commands[o]}
         /\ \A o \in Op : cmd[o] = "none" \/ cmd'[o] = cmd[o]
<1>1. scope' = scope
  BY DEF Next, vars
<1>2. cmd' = cmd \/ \E o \in Op : Ask(o)
  BY DEF Next, Execute, Handler, vars, Get, Put, Judge, Request, TimeOut, Notify,
         StopContainer, Detach, Close, Drop, Receive, End, CloseOld, Attach, Serve, Lose, Report,
         gateway, wires
<1>3. \A o \in Op : scope.commands[o] \in Command
  BY AgentControlAssumption DEF ProgInv
<1> QED  BY <1>1, <1>2, <1>3 DEF ProgInv, Ask

\* Every step leaves each process a program.
LEMMA NextIsProgram ==
  ASSUME ProgInv, [Next]_vars
  PROVE  prog' = [p \in Process |-> prog'[p]]
<1> USE DEF Goes, Proceeds, Raises, wires, gateway
<1> DEFINE P == prog' = [p \in Process |-> prog'[p]]
<1>1. ASSUME prog' = prog PROVE P
  BY <1>1 DEF ProgInv
<1>2. ASSUME NEW p \in Process, NEW s, prog' = [prog EXCEPT ![p] = s] PROVE P
  BY <1>2 DEF ProgInv
<1>3. ASSUME NEW p \in Process, Get(p) \/ Put(p)
      PROVE  \E s : prog' = [prog EXCEPT ![p] = s]
  BY <1>3 DEF Get, Put
<1>4. ASSUME NEW c \in Conn, Judge(c) PROVE \E s : prog' = [prog EXCEPT ![c] = s]
  BY <1>4 DEF Judge
<1>5. ASSUME NEW o \in Op, \/ Ask(o) \/ Request(o) \/ TimeOut(o) \/ Notify(o)
                           \/ StopContainer(o) \/ Detach(o) \/ Close(o) \/ Drop(o)
      PROVE  prog' = prog \/ \E s : prog' = [prog EXCEPT ![o] = s]
  BY <1>5 DEF Ask, Request, TimeOut, Notify, StopContainer, Detach, Close, Drop
<1>6. ASSUME NEW c \in Conn, Receive(c) PROVE P
  <2>1. CASE ReceiveReply(c)
    <3>1. \E f : prog' = [p \in Process |-> f[p]]
      <4> DEFINE answered == {f.op : f \in {g \in pending[c] : g.id = Head(inbox[c]).id}}
                 f == [p \in Process |->
                        CASE p \notin answered -> prog[p]
                          [] p \in answered /\ Head(inbox[c]).ok -> Tail(prog[p])
                          [] p \in answered /\ ~Head(inbox[c]).ok -> <<>>]
      <4>1. prog' = f
        BY <2>1 DEF ReceiveReply
      <4>2. f = [p \in Process |-> f[p]]
        OBVIOUS
      <4> QED  BY <4>1, <4>2
    <3> QED  BY <3>1
  <2>2. CASE ReceiveEvent(c)
    BY <1>2, <2>2 DEF ReceiveEvent, Process
  <2> QED  BY <1>6, <2>1, <2>2 DEF Receive
<1>7. ASSUME NEW c \in Conn, End(c)
      PROVE  prog' = prog \/ \E s : prog' = [prog EXCEPT ![c] = s]
  BY <1>7 DEF End
<1>8. ASSUME NEW c \in Conn, CloseOld(c) \/ Attach(c) \/ Serve(c) \/ Lose(c)
      PROVE  prog' = prog
  BY <1>8 DEF CloseOld, Attach, Serve, Lose
<1>9. ASSUME NEW c \in Conn, NEW s \in Status, Report(c, s) PROVE prog' = prog
  BY <1>9 DEF Report
<1>10. UNCHANGED vars => prog' = prog
  BY DEF vars
<1>11. Op \subseteq Process /\ Conn \subseteq Process
  BY DEF Process
<1> HIDE DEF P
<1> QED
  BY <1>1, <1>2, <1>3, <1>4, <1>5, <1>6, <1>7, <1>8, <1>9, <1>10, <1>11
  DEF Next, Execute, Handler, P

LEMMA NextProg ==
  ASSUME WireInv, Waiting, ProgInv, RowInv, served \subseteq served', [Next]_vars
  PROVE  ProgInv'
<1>1. /\ scope' = scope /\ cmd' \in [Op -> Command \union {"none"}]
      /\ \A o \in Op : cmd'[o] \in {"none", scope.commands[o]}
      /\ \A o \in Op : cmd[o] = "none" \/ cmd'[o] = cmd[o]
  BY NextCommands
<1>2. \A o \in Op : scope.commands[o] \in Command
  BY AgentControlAssumption DEF ProgInv
<1>3. ASSUME NEW q \in Process PROVE Sound(q, prog'[q], cmd', served')
  <2>1. CASE prog[q] # <<>>
    <3>1. q \in Op => cmd'[q] = cmd[q]
      BY <1>1, <2>1 DEF ProgInv
    <3>2. Sound(q, prog[q], cmd', served')
      BY <3>1, SoundGrows DEF ProgInv
    <3>3. CASE prog'[q] = Tail(prog[q]) /\ (Doing(q, "reply") => q \in served')
      <4>1. Head(prog[q]).do # "reply" \/ q \in served'
        BY <2>1, <3>3 DEF Doing
      <4> QED  BY <2>1, <3>2, <3>3, <4>1, TailIsSound
    <3>4. CASE Get(q)
      <4>1. prog'[q] = Tail(prog[q]) \/ prog'[q] = <<>>
        BY <3>4 DEF Get, Proceeds, Raises, Goes, ProgInv
      <4>2. ~Doing(q, "reply")
        BY <3>4 DEF Get, Doing
      <4> QED  BY <3>3, <4>1, <4>2, EmptyIsSound
    <3>5. CASE q \in Op /\ prog'[q] = Script(q, scope.commands[q])
                        /\ cmd' = [cmd EXCEPT ![q] = scope.commands[q]]
      <4>1. cmd'[q] = scope.commands[q]
        BY <3>5 DEF ProgInv
      <4> QED  BY <1>2, <3>5, <4>1, ScriptIsSound
    <3> QED
      BY <3>2, <3>3, <3>4, <3>5, NextMoves, EmptyIsSound, ActualIsSound, ReportedIsSound,
         JudgeIsSound
      DEF Moves
  <2>2. CASE prog[q] = <<>>
    <3>1. ~Get(q)
      BY <2>2 DEF Get, Doing
    <3>2. CASE q \in Op /\ prog'[q] = Script(q, scope.commands[q])
                        /\ cmd' = [cmd EXCEPT ![q] = scope.commands[q]]
      <4>1. cmd'[q] = scope.commands[q]
        BY <3>2 DEF ProgInv
      <4> QED  BY <1>2, <3>2, <4>1, ScriptIsSound
    <3> QED
      BY <2>2, <3>1, <3>2, NextMoves, EmptyIsSound, ActualIsSound, ReportedIsSound,
         JudgeIsSound DEF Moves
  <2> QED  BY <2>1, <2>2
<1>4. prog' \in [Process -> Seq(Todo)]
  <2>1. \A q \in Process : prog'[q] \in Seq(Todo)
    BY <1>3 DEF Sound
  <2> QED  BY <2>1, NextIsProgram
<1>5. \A o \in Op : cmd'[o] = "none" => prog'[o] = <<>>
  <2> SUFFICES ASSUME NEW o \in Op, cmd'[o] = "none" PROVE prog'[o] = <<>>
    OBVIOUS
  <2>1. cmd[o] = "none" /\ prog[o] = <<>>
    BY <1>1 DEF ProgInv
  <2>2. o \in Process /\ o \notin Conn
    BY AgentControlAssumption DEF Process, Conn
  <2>3. ~Get(o)
    BY <2>1 DEF Get, Doing
  <2>4. cmd' # [cmd EXCEPT ![o] = scope.commands[o]]
    BY <1>2 DEF ProgInv, Command
  <2> QED  BY <2>1, <2>2, <2>3, <2>4, NextMoves DEF Moves
<1> QED  BY <1>1, <1>3, <1>4, <1>5 DEF ProgInv

-------------------------------------------------------------------------------
(* What is pending is being waited for.                                         *)

\* A request that waits for its answer goes on waiting, until it times out or the
\* answer comes; either way it is no longer pending.
LEMMA StillWaiting ==
  ASSUME WireInv, Waiting, ProgInv, RowInv, [Next]_vars, NEW o \in Op, Doing(o, "reply"),
         prog'[o] # prog[o], NEW c \in Conn, NEW f \in pending'[c], f.op = o
  PROVE  FALSE
<1> USE DEF Goes, Proceeds, Raises, wires, gateway
<1>1. prog[o] # <<>> /\ Head(prog[o]).do = "reply"
  BY DEF Doing
<1>2. o \in Process /\ Op \subseteq Process /\ Conn \subseteq Process /\ o \notin Conn
  BY AgentControlAssumption DEF Process, Conn
<1>3. ASSUME NEW p \in Process, Get(p) \/ Put(p) PROVE FALSE
  <2>1. p # o
    BY <1>1, <1>3 DEF Get, Put, Doing
  <2> QED  BY <1>2, <1>3, <2>1 DEF Get, Put, ProgInv
<1>4. ASSUME NEW d \in Conn, Judge(d) \/ End(d) PROVE FALSE
  BY <1>2, <1>4 DEF Judge, End, ProgInv
<1>5. ASSUME NEW p \in Op, Ask(p) PROVE FALSE
  <2>1. p # o
    BY <1>1, <1>5 DEF Ask, ProgInv
  <2> QED  BY <1>2, <1>5, <2>1 DEF Ask, ProgInv
<1>6. ASSUME NEW p \in Op, \/ Request(p) \/ Notify(p) \/ StopContainer(p)
                           \/ Detach(p) \/ Close(p) \/ Drop(p)
      PROVE  FALSE
  <2>1. p # o
    BY <1>1, <1>6 DEF Request, Notify, StopContainer, Detach, Close, Drop, Doing
  <2>2. \E s : prog' = [prog EXCEPT ![p] = s]
    BY <1>6 DEF Request, Notify, StopContainer, Detach, Close, Drop
  <2> QED  BY <1>2, <2>1, <2>2 DEF ProgInv
<1>7. ASSUME NEW p \in Op, TimeOut(p) PROVE FALSE
  <2>1. CASE p = o
    BY <1>7, <2>1 DEF TimeOut, NoLonger
  <2>2. CASE p # o
    BY <1>2, <1>7, <2>2 DEF TimeOut, ProgInv
  <2> QED  BY <2>1, <2>2
<1>8. ASSUME NEW d \in Conn, Receive(d) PROVE FALSE
  <2>1. CASE ReceiveEvent(d)
    BY <1>2, <2>1 DEF ReceiveEvent, ProgInv
  <2>2. CASE ReceiveReply(d)
    <3> DEFINE m == Head(inbox[d])
               answered == {h.op : h \in {g \in pending[d] : g.id = m.id}}
    <3>1. pending' = [pending EXCEPT ![d] = {h \in @ : h.id # m.id}]
      BY <2>2 DEF ReceiveReply
    <3>2. o \in answered
      BY <1>2, <2>2 DEF ReceiveReply
    <3>3. PICK h \in pending[d] : h.id = m.id /\ h.op = o
      BY <3>2
    <3> HIDE DEF m, answered
    <3>4. f \in pending[c] /\ (c = d => f.id # m.id)
      BY <3>1 DEF WireInv, WireTypes
    <3>5. c = d /\ f = h
      BY <3>3, <3>4 DEF Waiting
    <3> QED  BY <3>3, <3>4, <3>5
  <2> QED  BY <1>8, <2>1, <2>2 DEF Receive
<1>9. ASSUME NEW d \in Conn, CloseOld(d) \/ Attach(d) \/ Serve(d) \/ Lose(d) PROVE FALSE
  BY <1>9 DEF CloseOld, Attach, Serve, Lose
<1>10. ASSUME NEW d \in Conn, NEW s \in Status, Report(d, s) PROVE FALSE
  BY <1>10 DEF Report
<1>11. ~UNCHANGED vars
  BY DEF vars
<1> QED
  BY <1>2, <1>3, <1>4, <1>5, <1>6, <1>7, <1>8, <1>9, <1>10, <1>11
  DEF Next, Execute, Handler

\* What becomes pending.
LEMMA NewPending ==
  ASSUME WireInv, Registered, [Next]_vars
  PROVE  \/ \A c \in Conn : pending'[c] \subseteq pending[c]
         \/ \E o \in Op, c \in Conn : \E m :
              /\ Request(o) /\ m.op = o
              /\ pending' = [pending EXCEPT ![c] = @ \union {m}]
<1> USE DEF wires, gateway
<1> DEFINE P == \A c \in Conn : pending'[c] \subseteq pending[c]
<1>1. ASSUME pending' = pending PROVE P
  BY <1>1
<1>2. ASSUME NEW p \in Process, Get(p) \/ Put(p) PROVE pending' = pending
  BY <1>2 DEF Get, Put
<1>3. ASSUME NEW o \in Op, Ask(o) \/ Notify(o) \/ StopContainer(o) \/ Detach(o) \/ Close(o)
                            \/ Drop(o)
      PROVE  pending' = pending
  BY <1>3 DEF Ask, Notify, StopContainer, Detach, Close, Drop
<1>4. ASSUME NEW o \in Op, TimeOut(o) PROVE P
  BY <1>4 DEF TimeOut, NoLonger
<1>5. ASSUME NEW o \in Op, Request(o), pending' # pending
      PROVE  \E c \in Conn : \E m :
               /\ m.op = o
               /\ pending' = [pending EXCEPT ![c] = @ \union {m}]
  <2>1. /\ current # 0
        /\ pending' = [pending EXCEPT ![current] =
                         @ \union {[id |-> NextId(current), op |-> o]}]
    BY <1>5 DEF Request
  <2>2. current \in Conn
    BY <2>1 DEF Registered, Conn
  <2>3. [id |-> NextId(current), op |-> o].op = o
    OBVIOUS
  <2> QED  BY <2>1, <2>2, <2>3
<1>6. ASSUME NEW c \in Conn, Judge(c) \/ CloseOld(c) \/ Attach(c) \/ End(c) \/ Serve(c)
                             \/ Lose(c)
      PROVE  pending' = pending
  BY <1>6 DEF Judge, CloseOld, Attach, End, Serve, Lose
<1>7. ASSUME NEW c \in Conn, Receive(c) PROVE P
  BY <1>7 DEF Receive, ReceiveReply, ReceiveEvent, WireInv, WireTypes
<1>8. ASSUME NEW c \in Conn, NEW s \in Status, Report(c, s) PROVE pending' = pending
  BY <1>8 DEF Report
<1>9. UNCHANGED vars => pending' = pending
  BY DEF vars
<1>10. Op \subseteq Process /\ Conn \subseteq Process
  BY DEF Process
<1> HIDE DEF P
<1>11. P \/ \E o \in Op, c \in Conn : \E m :
              /\ Request(o) /\ m.op = o
              /\ pending' = [pending EXCEPT ![c] = @ \union {m}]
  BY <1>1, <1>2, <1>3, <1>4, <1>5, <1>6, <1>7, <1>8, <1>9, <1>10 DEF Next, Execute, Handler
<1> QED  BY <1>11 DEF P

LEMMA NextWaiting ==
  ASSUME WireInv, Waiting, ProgInv, RowInv, Registered, [Next]_vars
  PROVE  Waiting'
<1>1. \A c \in Conn : pending'[c] \subseteq Order
  <2>1. WireInv'
    BY NextWires
  <2> QED  BY <2>1 DEF WireInv, WireTypes
<1>2. \A f \in Order : f.op \in Op
  BY DEF Order
<1>3. ASSUME NEW c \in Conn, NEW f \in pending'[c], f \in pending[c]
      PROVE  Doing(f.op, "reply")'
  <2>1. f.op \in Op /\ Doing(f.op, "reply")
    BY <1>1, <1>2, <1>3 DEF Waiting
  <2>2. prog'[f.op] = prog[f.op]
    BY <2>1, StillWaiting
  <2> QED  BY <2>1, <2>2 DEF Doing
<1>4. CASE \A c \in Conn : pending'[c] \subseteq pending[c]
  BY <1>3, <1>4 DEF Waiting
<1>5. ASSUME NEW o \in Op, NEW c \in Conn, NEW m, Request(o), m.op = o,
             pending' = [pending EXCEPT ![c] = @ \union {m}]
      PROVE  Waiting'
  <2>1. \A d \in Conn : \A f \in pending'[d] : f \in pending[d] \/ (d = c /\ f = m)
    BY <1>5 DEF WireInv, WireTypes
  <2>2. \A d \in Conn : \A f \in pending[d] : f.op # o
    BY <1>5 DEF Waiting, Request, Doing
  <2>3. CASE Doing(o, "reply")'
    BY <1>3, <1>5, <2>1, <2>2, <2>3 DEF Waiting
  <2>4. CASE pending' = pending
    BY <1>4, <2>4
  <2>5. CASE pending' # pending
    <3>1. /\ prog' = [prog EXCEPT ![o] = Tail(prog[o])]
          /\ prog[o] # <<>> /\ Head(prog[o]).do = "request"
      BY <1>5, <2>5 DEF Request, Proceeds, Goes, Doing
    <3>2. o \in Process
      BY DEF Process
    <3>3. Tail(prog[o]) # <<>> /\ Head(Tail(prog[o])).do = "reply"
      BY <3>1, <3>2, TailIsSound DEF ProgInv
    <3>4. prog'[o] = Tail(prog[o])
      BY <3>1, <3>2 DEF ProgInv
    <3> QED  BY <2>3, <3>3, <3>4 DEF Doing
  <2> QED  BY <2>4, <2>5
<1> QED  BY <1>4, <1>5, NewPending

-------------------------------------------------------------------------------
(* The row.                                                                     *)

LEMMA ChangedRow ==
  ASSUME NEW r \in Row, NEW ch \in Change, NEW s, s = Changed(r, ch)
  PROVE  /\ s \in Row
         /\ s.desired = IF ch.desired = "same" THEN r.desired ELSE ch.desired
         /\ s.model = IF ch.model = "same" THEN r.model ELSE ch.model
<1>1. DOMAIN r = {"desired", "actual", "model"}
  BY DEF Row
<1>2. s = [f \in {"desired", "actual", "model"} |-> IF ch[f] = "same" THEN r[f] ELSE ch[f]]
  BY <1>1 DEF Changed
<1>3. /\ s["desired"] = IF ch.desired = "same" THEN r.desired ELSE ch.desired
      /\ s["actual"] = IF ch.actual = "same" THEN r.actual ELSE ch.actual
      /\ s["model"] = IF ch.model = "same" THEN r.model ELSE ch.model
  BY <1>2
<1>4. s.desired \in Desired /\ s.actual \in Actual /\ s.model \in {"initial"} \union Op
  BY <1>3 DEF Row, Change
<1>5. s = [desired |-> s.desired, actual |-> s.actual, model |-> s.model]
  BY <1>2
<1>6. s \in Row
  BY <1>4, <1>5 DEF Row
<1> QED  BY <1>3, <1>6

\* What is recorded stays carried out.
LEMMA RecordedGrows ==
  ASSUME NEW r, NEW cm, NEW done, Recorded(r, cm, done), NEW cm2, NEW done2,
         done \subseteq done2, done \subseteq Op,
         \A o \in Op : cm[o] = "pause" => cm2[o] = "pause"
  PROVE  Recorded(r, cm2, done2)
BY DEF Recorded

\* A row a process has read and changes records what has been carried out: its own
\* part, because nothing it waits for is left before the write.
LEMMA PutRecords ==
  ASSUME WireInv, ProgInv, RowInv, NEW p \in Process, Doing(p, "put"), NEW r,
         r = Changed(held[p], Head(prog[p]).changes)
  PROVE  r \in Row /\ Recorded(r, cmd, served)
<1> DEFINE s == prog[p]
           ch == Head(s).changes
<1>1. s \in Seq(Todo) /\ s # <<>> /\ Sound(p, s, cmd, served) /\ held[p] \in Row
  BY DEF ProgInv, RowInv, Doing
<1>2. Head(s) = s[1] /\ Len(s) \in Nat \ {0} /\ s[1] \in Todo
  BY <1>1, HeadAndTail
<1> HIDE DEF s
<1>3. ch \in Change
  BY <1>2 DEF Todo
<1>4. Records(ch) => Own(p, ch, cmd) /\ p \in served
  BY <1>1, <1>2 DEF Sound, Honest
<1> HIDE DEF ch
<1>5. r = Changed(held[p], ch)
  BY DEF ch, s
<1>6. /\ r \in Row
      /\ r.desired = IF ch.desired = "same" THEN held[p].desired ELSE ch.desired
      /\ r.model = IF ch.model = "same" THEN held[p].model ELSE ch.model
  BY <1>1, <1>3, <1>5, ChangedRow
<1>7. Recorded(held[p], cmd, served)
  BY DEF RowInv
<1>8. r.desired = "paused" => \E o \in served : cmd[o] = "pause"
  BY <1>4, <1>6, <1>7 DEF Recorded, Records, Own
<1>9. r.model \in Op => r.model \in served
  BY <1>4, <1>6, <1>7 DEF Recorded, Records, Own
<1> QED  BY <1>6, <1>8, <1>9 DEF Recorded

LEMMA NoRowRecords ==
  ASSUME NEW cm, NEW done
  PROVE  NoRow \notin Row /\ Recorded(NoRow, cm, done)
BY AgentControlAssumption DEF NoRow, Row, Desired, Recorded

\* Which steps change the row, and what the processes hold of it.
LEMMA NextRow ==
  ASSUME WireInv, Waiting, ProgInv, RowInv, served \subseteq served', [Next]_vars
  PROVE  RowInv'
<1> USE DEF Goes, Proceeds, Raises, wires, gateway
<1>1. \A r : Recorded(r, cmd, served) => Recorded(r, cmd', served')
  <2>1. \A o \in Op : cmd[o] = "pause" => cmd'[o] = "pause"
    BY NextCommands
  <2>2. served \subseteq Op
    BY DEF WireInv, WireTypes
  <2> QED  BY <2>1, <2>2, RecordedGrows
<1>2. \/ row' = row /\ held' = held
      \/ row' = NoRow /\ held' = held
      \/ \E p \in Process : Get(p) \/ Put(p)
  <2>1. ASSUME NEW o \in Op, \/ Ask(o) \/ Request(o) \/ TimeOut(o) \/ Notify(o)
                             \/ StopContainer(o) \/ Detach(o) \/ Close(o)
        PROVE  row' = row /\ held' = held
    BY <2>1 DEF Ask, Request, TimeOut, Notify, StopContainer, Detach, Close
  <2>2. ASSUME NEW o \in Op, Drop(o) PROVE row' = NoRow /\ held' = held
    BY <2>2 DEF Drop
  <2>3. ASSUME NEW c \in Conn, \/ Judge(c) \/ CloseOld(c) \/ Receive(c) \/ End(c)
                               \/ Attach(c) \/ Serve(c) \/ Lose(c)
        PROVE  row' = row /\ held' = held
    BY <2>3 DEF Judge, CloseOld, Receive, End, Attach, Serve, Lose
  <2>4. ASSUME NEW c \in Conn, NEW s \in Status, Report(c, s)
        PROVE  row' = row /\ held' = held
    BY <2>4 DEF Report
  <2>5. UNCHANGED vars => row' = row /\ held' = held
    BY DEF vars
  <2>6. Op \subseteq Process /\ Conn \subseteq Process
    BY DEF Process
  <2> QED
    BY <2>1, <2>2, <2>3, <2>4, <2>5, <2>6 DEF Next, Execute, Handler
<1>3. row' \in Row \union {NoRow} /\ Recorded(row', cmd, served)
  <2>1. ASSUME NEW p \in Process, Get(p) \/ Put(p)
        PROVE  row' \in Row \union {NoRow} /\ Recorded(row', cmd, served)
    <3>1. CASE row' = row
      BY <3>1 DEF RowInv
    <3>2. CASE Put(p) /\ row' = Changed(held[p], Head(prog[p]).changes)
      BY <3>2, PutRecords DEF Put
    <3> QED  BY <2>1, <3>1, <3>2 DEF Get, Put
  <2> QED  BY <1>2, <2>1, NoRowRecords DEF RowInv
<1>4. /\ held' \in [Process -> Row \union {NoRow}]
      /\ \A p \in Process : Recorded(held'[p], cmd, served)
  <2>1. ASSUME NEW p \in Process, Get(p) \/ Put(p)
        PROVE  \/ held' = held
               \/ \E x \in {row, NoRow} : held' = [held EXCEPT ![p] = x]
    BY <2>1 DEF Get, Put
  <2> QED  BY <1>2, <2>1, NoRowRecords DEF RowInv
<1>5. ASSUME NEW p \in Process, Doing(p, "put")' PROVE held'[p] \in Row
  <2>1. prog'[p] # <<>> /\ Head(prog'[p]).do = "put"
    BY <1>5 DEF Doing
  <2>2. CASE prog'[p] = prog[p] /\ held'[p] = held[p]
    BY <1>5, <2>2 DEF RowInv, Doing
  <2>3. CASE Get(p)
    <3>1. row # NoRow
      BY <2>1, <2>3 DEF Get, ProgInv
    <3>2. held' = [held EXCEPT ![p] = row]
      BY <2>3, <3>1 DEF Get
    <3> QED  BY <3>1, <3>2 DEF RowInv
  <2>4. CASE /\ prog[p] # <<>> /\ prog'[p] = Tail(prog[p]) /\ ~Doing(p, "get")
             /\ Doing(p, "reply") => p \in served
    <3>1. Head(prog[p]).do = "get"
      BY <2>1, <2>4, TailIsSound DEF Doing, ProgInv
    <3> QED  BY <2>4, <3>1 DEF Doing
  <2>5. /\ ~(\E a \in Actual : prog'[p] \in {ToActual(a), ToReported(a)})
        /\ prog'[p] # <<Await("judge")>>
    BY <2>1, ActualIsSound, ReportedIsSound, JudgeIsSound
  <2>6. CASE p \in Op /\ prog'[p] = Script(p, scope.commands[p])
                      /\ cmd' = [cmd EXCEPT ![p] = scope.commands[p]]
    <3>1. scope.commands[p] \in Command /\ cmd'[p] = scope.commands[p]
      BY <2>6, AgentControlAssumption DEF ProgInv
    <3> QED  BY <2>1, <2>6, <3>1, ScriptIsSound
  <2> QED  BY <2>1, <2>2, <2>3, <2>4, <2>5, <2>6, NextMoves DEF Moves
<1> QED  BY <1>1, <1>3, <1>4, <1>5 DEF RowInv

-------------------------------------------------------------------------------
(* The theorems.                                                                *)

LEMMA InitControls == Init => ControlInv
<1> SUFFICES ASSUME Init PROVE ControlInv
  OBVIOUS
<1>1. WireInv
  <2>1. \A x \in Elements(<<>>) : FALSE
    BY DEF Elements
  <2>2. /\ counter = [c \in Conn |-> 0] /\ pending = [c \in Conn |-> {}]
        /\ outbox = [c \in Conn |-> <<>>] /\ inbox = [c \in Conn |-> <<>>] /\ served = {}
    BY DEF Init
  <2>3. WireTypes
    BY <2>2 DEF WireTypes
  <2> QED  BY <2>1, <2>2, <2>3 DEF WireInv, Matches
<1>2. Waiting
  BY DEF Init, Waiting
<1>3. ProgInv
  <2>1. <<>> \in Seq(Todo)
    OBVIOUS
  <2>2. \A p \in Process : prog[p] = <<>> /\ Sound(p, prog[p], cmd, served)
    BY EmptyIsSound DEF Init
  <2>3. prog \in [Process -> Seq(Todo)]
    BY <2>1 DEF Init
  <2>4. scope \in Scopes /\ cmd = [o \in Op |-> "none"]
    BY DEF Init
  <2>5. \A o \in Op : prog[o] = <<>>
    BY <2>2 DEF Process
  <2> QED  BY <2>2, <2>3, <2>4, <2>5 DEF ProgInv
<1>4. RowInv
  <2>1. row \in Row /\ Recorded(row, cmd, served)
    BY AgentControlAssumption DEF Init, Row, Desired, Actual, Recorded
  <2>2. \A p \in Process : ~Doing(p, "put")
    BY DEF Init, Doing
  <2> QED  BY <2>1, <2>2, NoRowRecords DEF Init, RowInv
<1> QED  BY <1>1, <1>2, <1>3, <1>4 DEF ControlInv

LEMMA StepControls ==
  ControlInv /\ Registered /\ [Next]_vars => ControlInv'
BY NextWires, NextWaiting, NextProg, NextRow DEF ControlInv

LEMMA ControlHolds == Spec => [](ControlInv /\ ConnectionInv)
<1>1. ConnectionInv => Registered
  BY DEF ConnectionInv
<1> QED  BY <1>1, InitControls, StepControls, InitRegisters, StepKeepsLive, PTL DEF Spec

\* A pause and a model are recorded when the worker has carried out that very request
\* (coordinator.py:282-325), whatever requests, answers, time limits and connections
\* overlap, and though every update writes back a whole row it read before.
THEOREM RecordsWereServed == Spec => []RecordedWasServed
<1>1. ControlInv => RecordedWasServed
  BY DEF ControlInv, RowInv, Recorded, RecordedWasServed
<1> QED  BY <1>1, ControlHolds, PTL

\* The row, the connections and what is pending keep their types: in particular only a
\* request that still waits for its answer is pending, whatever became of its connection.
THEOREM TypeCorrect == Spec => []TypeOK
<1> DEFINE OldOK == old \in [Conn -> 0..MaxConn]
<1>1. Init => OldOK
  BY AgentControlAssumption DEF Init
<1>2. OldOK /\ Registered /\ [Next]_vars => OldOK'
  <2> SUFFICES ASSUME OldOK, Registered, [Next]_vars PROVE OldOK'
    OBVIOUS
  <2>1. ASSUME NEW c \in Conn, Attach(c) PROVE OldOK'
    BY <2>1 DEF Attach, Registered
  <2>2. old' = old \/ \E c \in Conn : Attach(c)
    BY DEF Next, Execute, Handler, vars, Get, Put, Judge, Ask, Request, TimeOut, Notify,
           StopContainer, Detach, Close, Drop, Receive, End, CloseOld, Serve, Lose, Report,
           gateway, wires
  <2> QED  BY <2>1, <2>2
<1>3. ControlInv /\ Registered /\ OldOK => TypeOK
  <2> SUFFICES ASSUME ControlInv, Registered, OldOK PROVE TypeOK
    OBVIOUS
  <2>1. ASSUME NEW c \in Conn, NEW f \in pending[c]
        PROVE  f.id \in 1..counter[c] /\ f.op \in Op /\ Doing(f.op, "reply")
    <3>1. /\ f \in Order /\ counter[c] \in Nat
          /\ 1 <= f.id /\ f.id <= counter[c] /\ Doing(f.op, "reply")
      BY DEF ControlInv, WireInv, WireTypes, Matches, Waiting
    <3> QED  BY <3>1 DEF Order
  <2> QED
    BY <2>1 DEF TypeOK, ControlInv, Registered, ProgInv, RowInv, WireInv, WireTypes
<1>4. ConnectionInv => Registered
  BY DEF ConnectionInv
<1> QED  BY <1>1, <1>2, <1>3, <1>4, ControlHolds, PTL DEF Spec
===============================================================================
