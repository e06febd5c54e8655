--------------------------- MODULE WorkerSessionProofs ---------------------------
(* Theorems about WorkerSession: the queue holds the marker of a change exactly   *)
(* when the flag says so, no announced change is lost on its way to a cycle, and  *)
(* a pause or a stop takes effect at the next checkpoint, for any number of       *)
(* changes and messages.                                                         *)
EXTENDS WorkerSession, FiniteSetTheorems, TLAPS

Flags == wakeQueued \in BOOLEAN /\ paused \in BOOLEAN /\ stop \in BOOLEAN /\ closed \in BOOLEAN

Item == Prompt \union {Wake, Quit}

\* The types without the flags, which SMT has no use for.
Typed ==
  /\ received \in 0..MaxMessages
  /\ queue \in Seq(Item)
  /\ pending \in Prompt
  /\ rpc \in {"receive", "gather", "reply", "ended"}
  /\ rmsg \in Message
  /\ wpc \in {"get", "paused", "running", "started", "cycle", "completed", "idle",
              "error", "ended"}
  /\ hand \in Prompt
  /\ cycle \in {"none", "running", "cancelling", "cancelled", "ok", "failed"}
  /\ status \in {"none", "running", "idle", "paused", "failed"}
  /\ announced \in Prompt /\ handled \in Prompt
  /\ late \in Nat

LEMMA TypeParts == TypeOK <=> Typed /\ Flags
BY Zenon DEF TypeOK, Typed, Flags, Item

LEMMA Items ==
  /\ MaxSeq \in Nat /\ MaxMessages \in Nat
  /\ Text \in Prompt /\ Wake \notin Prompt /\ Quit \notin Prompt /\ Wake # Quit
  /\ Prompt \subseteq Item /\ Wake \in Item /\ Quit \in Item
BY WorkerAssumption DEF Prompt, Text, Wake, Quit, Item

LEMMA LargerPrompt ==
  ASSUME NEW m \in Prompt, NEW n \in Prompt
  PROVE  Larger(m, n) \in Prompt /\ m <= Larger(m, n) /\ n <= Larger(m, n)
BY Items DEF Larger, Prompt

LEMMA Messages ==
  ASSUME NEW m \in Message
  PROVE  /\ m.method \in {"pause", "resume", "stop", "set_model", "prompt", "changed"}
         /\ m.seq \in Prompt
         /\ m.method = "changed" => m.seq # 0
BY Items DEF Message, Text

LEMMA FlagsKept ==
  ASSUME Flags, [Next]_vars
  PROVE  Flags'
<1> USE DEF Flags, session, worker, receiver, history
<1>1. ASSUME NEW m \in Message, Receive(m) PROVE Flags'
  <2>1. UNCHANGED closed
    BY <1>1, Zenon DEF Receive
  <2>2. CASE Pause  BY <2>1, <2>2, Zenon DEF Pause
  <2>3. CASE Resume  BY <2>1, <2>3, Zenon DEF Resume
  <2>4. CASE Stop  BY <2>1, <2>4, Zenon DEF Stop
  <2>5. CASE SetModel  BY <2>1, <2>5, Zenon DEF SetModel
  <2>6. CASE AddPrompt  BY <2>1, <2>6, Zenon DEF AddPrompt
  <2>7. CASE Changed(m.seq)  BY <2>1, <2>7, Zenon DEF Changed, QueueBlackboardUpdate
  <2> QED  BY <1>1, <2>2, <2>3, <2>4, <2>5, <2>6, <2>7, Zenon DEF Receive
<1>2. CASE Close  BY <1>2, Zenon DEF Close
<1>3. CASE Gathered  BY <1>3, Zenon DEF Gathered
<1>4. CASE Reply  BY <1>4, Zenon DEF Reply
<1>5. CASE ReceiverEnds  BY <1>5, Zenon DEF ReceiverEnds
<1>6. CASE Take  BY <1>6, Zenon DEF Take
<1>7. CASE Periodic  BY <1>7, Zenon DEF Periodic
<1>8. CASE PausedWait  BY <1>8, Zenon DEF PausedWait
<1>9. CASE EmitRunning  BY <1>9, Zenon DEF EmitRunning
<1>10. CASE BeginCycle  BY <1>10, Zenon DEF BeginCycle
<1>11. CASE Requeue  BY <1>11, Zenon DEF Requeue
<1>12. CASE CycleReturns  BY <1>12, Zenon DEF CycleReturns
<1>13. CASE EmitCompleted  BY <1>13, Zenon DEF EmitCompleted
<1>14. CASE EmitIdle  BY <1>14, Zenon DEF EmitIdle
<1>15. CASE EmitError  BY <1>15, Zenon DEF EmitError
<1>16. CASE CycleEnds  BY <1>16, Zenon DEF CycleEnds
<1>17. CASE WorkerEnds  BY <1>17, Zenon DEF WorkerEnds
<1>18. CASE UNCHANGED vars  BY <1>18, Zenon DEF vars
<1> QED
  BY <1>1, <1>2, <1>3, <1>4, <1>5, <1>6, <1>7, <1>8, <1>9, <1>10, <1>11, <1>12, <1>13,
     <1>14, <1>15, <1>16, <1>17, <1>18, Zenon DEF Next, ReceiverStep, WorkerStep

\* What a prompt, a marker or the end adds.
LEMMA ItemAppended ==
  ASSUME queue \in Seq(Item), NEW x \in Item
  PROVE  Append(queue, x) \in Seq(Item)
OBVIOUS

\* What _receive does with a message.
LEMMA MessageTyped ==
  ASSUME Typed, NEW m \in Message, Receive(m)
  PROVE  Typed'
<1>1. /\ received' \in 0..MaxMessages /\ rmsg' \in Message
      /\ UNCHANGED <<wpc, hand, status, handled>>
  BY Items DEF Receive, Typed, worker
<1> USE Items DEF session
<1>2. CASE Pause
  BY <1>1, <1>2 DEF Typed, Pause, CancelCycle
<1>3. CASE Resume
  BY <1>1, <1>3 DEF Typed, Resume
<1>4. CASE Stop
  BY <1>1, <1>4 DEF Typed, Stop, CancelCycle
<1>5. CASE SetModel
  BY <1>1, <1>5 DEF Typed, SetModel, CancelCycle
<1>6. CASE AddPrompt
  BY <1>1, <1>6 DEF Typed, AddPrompt
<1>7. CASE Changed(m.seq)
  <2>1. Larger(pending, m.seq) \in Prompt /\ Larger(announced, m.seq) \in Prompt
    BY LargerPrompt, Messages DEF Typed
  <2> QED  BY <1>1, <1>7, <2>1 DEF Typed, Changed, QueueBlackboardUpdate
<1> QED  BY <1>2, <1>3, <1>4, <1>5, <1>6, <1>7 DEF Receive

LEMMA TypedKept ==
  ASSUME Typed, [Next]_vars
  PROVE  Typed'
<1> USE Items DEF Typed, session, worker, receiver, history
<1>1. ASSUME NEW m \in Message, Receive(m) PROVE Typed'
  BY <1>1, MessageTyped
<1>2. CASE Close  BY <1>2 DEF Close
<1>3. CASE Gathered  BY <1>3 DEF Gathered
<1>4. CASE Reply  BY <1>4 DEF Reply
<1>5. CASE ReceiverEnds  BY <1>5 DEF ReceiverEnds, CancelWork
<1>6. CASE Take
  <2>1. /\ Head(queue) \in Item /\ queue' = Tail(queue) /\ queue' \in Seq(Item)
        /\ UNCHANGED <<received, rpc, rmsg, cycle, status, announced, handled, late>>
    BY <1>6 DEF Take
  <2>2. hand' \in Prompt /\ pending' \in Prompt /\ wpc' \in {"ended", "paused"}
    <3>1. CASE Head(queue) = Quit  BY <1>6, <3>1 DEF Take
    <3>2. CASE Head(queue) = Wake  BY <1>6, <3>2 DEF Take, Text
    <3>3. CASE Head(queue) \in Prompt  BY <1>6, <3>3 DEF Take
    <3> QED  BY <2>1, <3>1, <3>2, <3>3 DEF Item
  <2> QED  BY <2>1, <2>2
<1>7. CASE Periodic  BY <1>7 DEF Periodic
<1>8. CASE PausedWait  BY <1>8 DEF PausedWait
<1>9. CASE EmitRunning  BY <1>9 DEF EmitRunning
<1>10. CASE BeginCycle  BY <1>10 DEF BeginCycle
<1>11. CASE Requeue  BY <1>11 DEF Requeue
<1>12. CASE CycleReturns  BY <1>12, LargerPrompt DEF CycleReturns
<1>13. CASE EmitCompleted  BY <1>13 DEF EmitCompleted
<1>14. CASE EmitIdle  BY <1>14 DEF EmitIdle
<1>15. CASE EmitError  BY <1>15 DEF EmitError
<1>16. CASE CycleEnds  BY <1>16 DEF CycleEnds
<1>17. CASE WorkerEnds  BY <1>17 DEF WorkerEnds
<1>18. CASE UNCHANGED vars  BY <1>18 DEF vars
<1> QED
  BY <1>1, <1>2, <1>3, <1>4, <1>5, <1>6, <1>7, <1>8, <1>9, <1>10, <1>11, <1>12, <1>13,
     <1>14, <1>15, <1>16, <1>17, <1>18, Zenon DEF Next, ReceiverStep, WorkerStep

LEMMA InitTyped == Init => Typed /\ Flags
<1> SUFFICES ASSUME Init PROVE Typed /\ Flags  OBVIOUS
<1>1. Typed
  <2>1. NoMessage \in Message
    BY DEF NoMessage, Message
  <2> QED  BY <2>1, Items DEF Init, Typed, Prompt
<1>2. Flags
  BY Zenon DEF Init, Flags
<1> QED  BY <1>1, <1>2

LEMMA TypeKept == TypeOK /\ [Next]_vars => TypeOK'
BY TypeParts, TypedKept, FlagsKept, PTL

\* Every variable of a worker's runtime keeps its type.
THEOREM TypeCorrect == Spec => []TypeOK
BY InitTyped, TypeParts, TypeKept, PTL DEF Spec

-------------------------------------------------------------------------------
\* The marker of a change.

\* The positions of an item.
Positions(x) == {i \in DOMAIN queue : queue[i] = x}

LEMMA OccurrencesOfPositions ==
  ASSUME queue \in Seq(Item), NEW x
  PROVE  /\ Occurrences(x) \in Nat
         /\ Occurrences(x) = 0 <=> Positions(x) = {}
         /\ \A i : Positions(x) = {i} => Occurrences(x) = 1
<1>1. IsFiniteSet(1..Len(queue))
  BY FS_Interval
<1>2. IsFiniteSet(Positions(x))
  <2>1. Positions(x) \subseteq 1..Len(queue)
    BY DEF Positions
  <2> QED  BY <1>1, <2>1, FS_Subset
<1>3. Occurrences(x) = Cardinality(Positions(x))
  BY DEF Occurrences, Positions
<1>4. Cardinality(Positions(x)) \in Nat
  BY <1>2, FS_CardinalityType
<1>5. Cardinality(Positions(x)) = 0 <=> Positions(x) = {}
  BY <1>2, FS_EmptySet
<1>6. ASSUME NEW i, Positions(x) = {i} PROVE Cardinality(Positions(x)) = 1
  BY <1>6, FS_Singleton
<1> QED  BY <1>3, <1>4, <1>5, <1>6

\* A marker and its position are there exactly when the flag is set.
MarkerInv ==
  /\ ~wakeQueued => \A i \in DOMAIN queue : queue[i] # Wake
  /\ wakeQueued => \E i \in DOMAIN queue :
                     queue[i] = Wake /\ \A j \in DOMAIN queue : queue[j] = Wake => j = i

LEMMA MarkerCounts == Typed /\ MarkerInv => OneWakeQueued
<1> SUFFICES ASSUME Typed, MarkerInv PROVE OneWakeQueued  OBVIOUS
<1>0. queue \in Seq(Item)
  BY DEF Typed
<1>1. CASE ~wakeQueued
  <2>1. Positions(Wake) = {}
    BY <1>1 DEF MarkerInv, Positions
  <2> QED  BY <1>0, <1>1, <2>1, OccurrencesOfPositions DEF OneWakeQueued
<1>2. CASE wakeQueued
  <2>1. PICK i \in DOMAIN queue :
          queue[i] = Wake /\ \A j \in DOMAIN queue : queue[j] = Wake => j = i
    BY <1>2 DEF MarkerInv
  <2>2. Positions(Wake) = {i}
    BY <2>1 DEF Positions
  <2> QED  BY <1>0, <1>2, <2>2, OccurrencesOfPositions DEF OneWakeQueued
<1> QED  BY <1>1, <1>2

\* A prompt or the end at the end of the queue is no marker.
LEMMA MarkersAfterAppend ==
  ASSUME queue \in Seq(Item), MarkerInv, NEW x \in Item \ {Wake},
         queue' = Append(queue, x), wakeQueued' = wakeQueued
  PROVE  MarkerInv'
<1>1. /\ DOMAIN queue' = 1..(Len(queue) + 1) /\ DOMAIN queue = 1..Len(queue)
      /\ \A i \in DOMAIN queue : queue'[i] = queue[i]
      /\ queue'[Len(queue) + 1] = x /\ Len(queue) \in Nat
  OBVIOUS
<1>2. CASE ~wakeQueued
  BY <1>1, <1>2 DEF MarkerInv
<1>3. CASE wakeQueued
  <2>1. PICK i \in DOMAIN queue :
          queue[i] = Wake /\ \A j \in DOMAIN queue : queue[j] = Wake => j = i
    BY <1>3 DEF MarkerInv
  <2>2. i \in DOMAIN queue' /\ queue'[i] = Wake /\ \A j \in DOMAIN queue' : queue'[j] = Wake => j = i
    BY <1>1, <2>1
  <2> QED  BY <1>3, <2>2 DEF MarkerInv
<1> QED  BY <1>2, <1>3

\* A change appends a marker only if there is none.
LEMMA MarkersAfterUpdate ==
  ASSUME queue \in Seq(Item), MarkerInv, NEW n, QueueBlackboardUpdate(n)
  PROVE  MarkerInv'
<1>1. CASE wakeQueued
  BY <1>1 DEF QueueBlackboardUpdate, MarkerInv
<1>2. CASE ~wakeQueued
  <2>1. queue' = Append(queue, Wake) /\ wakeQueued'
    BY <1>2 DEF QueueBlackboardUpdate
  <2>2. /\ DOMAIN queue' = 1..(Len(queue) + 1) /\ DOMAIN queue = 1..Len(queue)
        /\ \A i \in DOMAIN queue : queue'[i] = queue[i]
        /\ queue'[Len(queue) + 1] = Wake /\ Len(queue) \in Nat
    BY <2>1, Items
  <2>3. \A j \in DOMAIN queue' : queue'[j] = Wake => j = Len(queue) + 1
    BY <1>2, <2>2 DEF MarkerInv
  <2> QED  BY <2>1, <2>2, <2>3 DEF MarkerInv
<1> QED  BY <1>1, <1>2

\* What Tail leaves.
LEMMA QueueTail ==
  ASSUME NEW q \in Seq(Item), q # << >>
  PROVE  /\ DOMAIN Tail(q) = 1..(Len(q) - 1) /\ DOMAIN q = 1..Len(q)
         /\ Len(q) \in Nat \ {0} /\ Head(q) = q[1]
         /\ \A i \in 1..(Len(q) - 1) : Tail(q)[i] = q[i + 1]
OBVIOUS

LEMMA MarkersAfterTake ==
  ASSUME queue \in Seq(Item), MarkerInv, Take
  PROVE  MarkerInv'
<1> DEFINE l == Len(queue)
<1>1. /\ queue' = Tail(queue) /\ queue # << >>
      /\ wakeQueued' = IF Head(queue) = Wake THEN FALSE ELSE wakeQueued
  BY Items DEF Take
<1>2. /\ DOMAIN queue' = 1..(l - 1) /\ DOMAIN queue = 1..l /\ l \in Nat \ {0}
      /\ Head(queue) = queue[1] /\ \A i \in 1..(l - 1) : queue'[i] = queue[i + 1]
  BY <1>1, QueueTail
<1> HIDE DEF l
<1>3. CASE ~wakeQueued
  <2>1. \A i \in DOMAIN queue' : queue'[i] # Wake
    BY <1>2, <1>3 DEF MarkerInv
  <2> QED  BY <1>1, <1>3, <2>1 DEF MarkerInv
<1>4. CASE wakeQueued
  <2>1. PICK i \in DOMAIN queue :
          queue[i] = Wake /\ \A j \in DOMAIN queue : queue[j] = Wake => j = i
    BY <1>4 DEF MarkerInv
  <2>2. CASE Head(queue) = Wake
    <3>1. \A j \in DOMAIN queue' : queue'[j] # Wake
      BY <1>2, <2>1, <2>2
    <3> QED  BY <1>1, <2>2, <3>1 DEF MarkerInv
  <2>3. CASE Head(queue) # Wake
    <3>1. i - 1 \in DOMAIN queue' /\ queue'[i - 1] = Wake
      BY <1>2, <2>1, <2>3
    <3>2. \A j \in DOMAIN queue' : queue'[j] = Wake => j = i - 1
      BY <1>2, <2>1
    <3> QED  BY <1>1, <1>4, <2>3, <3>1, <3>2 DEF MarkerInv
  <2> QED  BY <2>2, <2>3
<1> QED  BY <1>3, <1>4

LEMMA MarkerKept ==
  ASSUME Typed, MarkerInv, [Next]_vars
  PROVE  MarkerInv'
<1>0. queue \in Seq(Item) /\ hand \in Item \ {Wake} /\ Text \in Item \ {Wake}
      /\ Quit \in Item \ {Wake}
  BY Items DEF Typed
<1> USE DEF session, worker, receiver, history
<1>1. ASSUME UNCHANGED <<queue, wakeQueued>> PROVE MarkerInv'
  BY <1>1 DEF MarkerInv
<1>2. ASSUME NEW x \in Item \ {Wake}, queue' \in {queue, Append(queue, x)},
             UNCHANGED wakeQueued
      PROVE  MarkerInv'
  BY <1>0, <1>1, <1>2, MarkersAfterAppend
<1>3. ASSUME NEW m \in Message, Receive(m) PROVE MarkerInv'
  <2>1. CASE Pause \/ Resume \/ SetModel
    BY <1>1, <2>1 DEF Pause, Resume, SetModel
  <2>2. CASE Stop
    BY <1>0, <1>2, <2>2 DEF Stop
  <2>3. CASE AddPrompt
    BY <1>0, <1>2, <2>3 DEF AddPrompt
  <2>4. CASE Changed(m.seq)
    BY <1>0, <2>4, MarkersAfterUpdate DEF Changed
  <2> QED  BY <1>3, <2>1, <2>2, <2>3, <2>4 DEF Receive
<1>4. CASE Take  BY <1>0, <1>4, MarkersAfterTake
<1>5. CASE Gathered  BY <1>0, <1>2, <1>5 DEF Gathered
<1>6. CASE ReceiverEnds  BY <1>0, <1>2, <1>6 DEF ReceiverEnds, CancelWork
<1>7. CASE Requeue  BY <1>0, <1>2, <1>7 DEF Requeue
<1>8. CASE Close \/ Reply \/ Periodic \/ PausedWait \/ EmitRunning \/ BeginCycle
  BY <1>1, <1>8 DEF Close, Reply, Periodic, PausedWait, EmitRunning, BeginCycle
<1>9. CASE CycleReturns \/ EmitCompleted \/ EmitIdle \/ EmitError \/ CycleEnds \/ WorkerEnds
  BY <1>1, <1>9 DEF CycleReturns, EmitCompleted, EmitIdle, EmitError, CycleEnds, WorkerEnds
<1>10. CASE UNCHANGED vars  BY <1>1, <1>10 DEF vars
<1> QED
  BY <1>3, <1>4, <1>5, <1>6, <1>7, <1>8, <1>9, <1>10, Zenon
     DEF Next, ReceiverStep, WorkerStep

LEMMA InitMarked == Init => MarkerInv
BY Items DEF Init, MarkerInv

\* The queue never holds two markers, and holds one whenever the flag says so,
\* whatever prompts, stops and requeued cycles surround it, for any number of
\* messages (workers/runtime.py:_queue_blackboard_update, _work).
THEOREM OneMarker == Spec => []OneWakeQueued
<1>1. TypeOK /\ MarkerInv /\ [Next]_vars => (TypeOK /\ MarkerInv)'
  BY TypeKept, MarkerKept, TypeParts
<1>2. TypeOK /\ MarkerInv => OneWakeQueued
  BY MarkerCounts, TypeParts
<1>3. Init => TypeOK /\ MarkerInv
  BY InitTyped, InitMarked, TypeParts
<1> QED  BY <1>1, <1>2, <1>3, PTL DEF Spec

-------------------------------------------------------------------------------
\* No announced change is lost.

\* A cycle that ran to its end has handled the prompt in hand.
HandledInv == wpc \in {"completed", "idle", "error"} => hand <= handled

Queued(n) == \E i \in DOMAIN queue : queue[i] = n

\* Where the largest announced number may be.
Carried(n) ==
  \/ n = 0
  \/ n = pending /\ wakeQueued
  \/ Queued(n)
  \/ n = hand /\ wpc # "get"
  \/ n = handled

CarriedInv == wpc # "ended" => \E n \in announced..MaxSeq : Carried(n)

LEMMA CarriedIsNotLost == Typed /\ CarriedInv => ChangeNotLost
<1> SUFFICES ASSUME Typed, wpc # "ended", NEW n \in announced..MaxSeq, Carried(n)
             PROVE  \/ n = 0
                    \/ n = pending /\ wakeQueued
                    \/ Occurrences(n) > 0
                    \/ n = hand /\ wpc # "get"
                    \/ n = handled
  BY DEF CarriedInv, ChangeNotLost
<1>1. ASSUME Queued(n) PROVE Occurrences(n) > 0
  <2>1. queue \in Seq(Item)
    BY DEF Typed
  <2>2. Positions(n) # {}
    BY <1>1 DEF Queued, Positions
  <2> QED  BY <2>1, <2>2, OccurrencesOfPositions
<1> QED  BY <1>1 DEF Carried

LEMMA HandledKept ==
  ASSUME Typed, HandledInv, [Next]_vars
  PROVE  HandledInv'
<1> USE DEF HandledInv, session, worker, receiver, history
<1>1. ASSUME UNCHANGED <<wpc, hand, handled>> PROVE HandledInv'
  BY <1>1
<1>2. ASSUME wpc' \notin {"completed", "idle", "error"} PROVE HandledInv'
  BY <1>2
<1>3. ASSUME NEW m \in Message, Receive(m) PROVE HandledInv'
  BY <1>1, <1>3 DEF Receive
<1>4. CASE CycleReturns
  BY <1>4, LargerPrompt DEF CycleReturns, Typed
<1>5. CASE EmitCompleted \/ EmitIdle \/ EmitError
  BY <1>5 DEF EmitCompleted, EmitIdle, EmitError
<1>6. CASE ReceiverEnds
  BY <1>6 DEF ReceiverEnds, CancelWork
<1>7. CASE Take \/ Periodic \/ PausedWait \/ EmitRunning \/ BeginCycle \/ Requeue
  BY <1>2, <1>7 DEF Take, Periodic, PausedWait, EmitRunning, BeginCycle, Requeue
<1>8. CASE Close \/ Gathered \/ Reply \/ CycleEnds \/ WorkerEnds
  BY <1>1, <1>8 DEF Close, Gathered, Reply, CycleEnds, WorkerEnds
<1>9. CASE UNCHANGED vars  BY <1>1, <1>9 DEF vars
<1> QED
  BY <1>3, <1>4, <1>5, <1>6, <1>7, <1>8, <1>9, Zenon DEF Next, ReceiverStep, WorkerStep

\* Nothing leaves the queue at its end.
LEMMA StaysQueued ==
  ASSUME queue \in Seq(Item), NEW x \in Item, queue' = Append(queue, x)
  PROVE  Queued(x)' /\ \A n : Queued(n) => Queued(n)'
<1>1. /\ DOMAIN queue' = 1..(Len(queue) + 1) /\ DOMAIN queue = 1..Len(queue)
      /\ \A i \in DOMAIN queue : queue'[i] = queue[i]
      /\ queue'[Len(queue) + 1] = x /\ Len(queue) \in Nat
  OBVIOUS
<1> QED  BY <1>1 DEF Queued

\* What is taken is what was at its head.
LEMMA TakenOrQueued ==
  ASSUME queue \in Seq(Item), queue # << >>, queue' = Tail(queue), NEW n, Queued(n)
  PROVE  n = Head(queue) \/ Queued(n)'
<1> DEFINE l == Len(queue)
<1>1. /\ DOMAIN queue' = 1..(l - 1) /\ DOMAIN queue = 1..l /\ l \in Nat \ {0}
      /\ Head(queue) = queue[1] /\ \A i \in 1..(l - 1) : queue'[i] = queue[i + 1]
  BY QueueTail
<1> HIDE DEF l
<1>2. PICK i \in 1..l : queue[i] = n
  BY <1>1 DEF Queued
<1>3. CASE i = 1  BY <1>1, <1>2, <1>3
<1>4. CASE i # 1
  <2>1. i - 1 \in DOMAIN queue' /\ queue'[i - 1] = n
    BY <1>1, <1>2, <1>4
  <2> QED  BY <2>1 DEF Queued
<1> QED  BY <1>3, <1>4

LEMMA CarriedKept ==
  ASSUME Typed, HandledInv, MarkerInv, CarriedInv, [Next]_vars
  PROVE  CarriedInv'
<1> SUFFICES ASSUME wpc' # "ended" PROVE \E n \in announced'..MaxSeq : Carried(n)'
  BY DEF CarriedInv
<1> USE DEF session, worker, receiver, history
<1>0. /\ MaxSeq \in Nat /\ announced \in 0..MaxSeq /\ handled \in 0..MaxSeq
      /\ hand \in 0..MaxSeq /\ pending \in 0..MaxSeq /\ queue \in Seq(Item)
      /\ hand \in Item /\ Text \in Item /\ Quit \in Item
  BY Items DEF Typed, Prompt
<1>1. ASSUME wpc # "ended"
      PROVE  \E n \in announced..MaxSeq : Carried(n)
  BY <1>1 DEF CarriedInv
\* The queue only gets longer, and the prompt in hand stays.
<1>2. ASSUME wpc # "ended", UNCHANGED <<announced, pending, wakeQueued, hand, handled>>,
             \A n : Queued(n) => Queued(n)',
             wpc' # "get" \/ wpc = "get" \/ hand <= handled \/ Queued(hand)'
      PROVE  \E n \in announced'..MaxSeq : Carried(n)'
  <2>1. PICK n \in announced..MaxSeq : Carried(n)
    BY <1>1, <1>2
  <2>2. CASE n = hand /\ hand <= handled
    <3>1. PICK k \in announced'..MaxSeq : k = handled'
      BY <1>0, <1>2, <2>1, <2>2
    <3> QED  BY <3>1 DEF Carried
  <2>3. CASE ~(n = hand /\ hand <= handled)
    <3>1. Carried(n)'
      BY <1>2, <2>1, <2>3 DEF Carried
    <3> QED  BY <1>2, <2>1, <3>1
  <2> QED  BY <2>2, <2>3
<1>3. ASSUME wpc # "ended", UNCHANGED <<announced, pending, wakeQueued, hand, handled>>,
             UNCHANGED queue \/ \E x \in Item : queue' = Append(queue, x),
             wpc' # "get" \/ wpc = "get" \/ hand <= handled \/ Queued(hand)'
      PROVE  \E n \in announced'..MaxSeq : Carried(n)'
  <2>1. \A n : Queued(n) => Queued(n)'
    <3>1. CASE UNCHANGED queue  BY <3>1 DEF Queued
    <3>2. ASSUME NEW x \in Item, queue' = Append(queue, x)
          PROVE  \A n : Queued(n) => Queued(n)'
      BY <1>0, <3>2, StaysQueued
    <3> QED  BY <1>3, <3>1, <3>2
  <2> QED  BY <1>2, <1>3, <2>1
<1>4. ASSUME NEW m \in Message, Receive(m)
      PROVE  \E n \in announced'..MaxSeq : Carried(n)'
  <2>1. UNCHANGED <<wpc, hand, handled>>
    BY <1>4 DEF Receive
  <2>2. CASE Pause \/ Resume \/ SetModel
    BY <1>3, <2>1, <2>2 DEF Pause, Resume, SetModel
  <2>3. CASE Stop
    BY <1>0, <1>3, <2>1, <2>3 DEF Stop
  <2>4. CASE AddPrompt
    BY <1>0, <1>3, <2>1, <2>4 DEF AddPrompt
  <2>5. CASE Changed(m.seq)
    <3>1. /\ pending' = Larger(pending, m.seq) /\ announced' = Larger(announced, m.seq)
          /\ wakeQueued' /\ queue' \in {queue, Append(queue, Wake)}
      BY <2>5 DEF Changed, QueueBlackboardUpdate
    <3>2. m.seq \in 0..MaxSeq
      BY Messages, <1>0 DEF Prompt
    <3>3. CASE announced <= m.seq
      <4>1. PICK k \in announced'..MaxSeq : k = pending'
        BY <1>0, <3>1, <3>2, <3>3 DEF Larger
      <4> QED  BY <3>1, <4>1 DEF Carried
    <3>4. CASE m.seq < announced
      <4>1. PICK n \in announced..MaxSeq : Carried(n)
        BY <1>1, <2>1
      <4>2. Queued(n) => Queued(n)'
        BY <1>0, <3>1, StaysQueued, Items DEF Queued
      <4>3. CASE n = pending
        <5>1. PICK k \in announced'..MaxSeq : k = pending'
          BY <1>0, <3>1, <3>2, <3>4, <4>1, <4>3 DEF Larger
        <5> QED  BY <3>1, <5>1 DEF Carried
      <4>4. CASE n # pending
        <5>1. Carried(n)' /\ announced' = announced
          BY <1>0, <2>1, <3>1, <3>2, <3>4, <4>1, <4>2, <4>4 DEF Larger, Carried
        <5> QED  BY <4>1, <5>1
      <4> QED  BY <4>3, <4>4
    <3> QED  BY <1>0, <3>2, <3>3, <3>4
  <2> QED  BY <1>4, <2>2, <2>3, <2>4, <2>5 DEF Receive
<1>5. CASE Take
  <2>1. PICK n \in announced..MaxSeq : Carried(n)
    BY <1>1, <1>5 DEF Take
  <2>2. /\ queue # << >> /\ queue' = Tail(queue) /\ wpc = "get" /\ wpc' = "paused"
        /\ Head(queue) # Quit /\ UNCHANGED <<announced, handled>>
    BY <1>5 DEF Take
  <2>3. Queued(n) => n = Head(queue) \/ Queued(n)'
    BY <1>0, <2>2, TakenOrQueued
  <2>4. CASE Head(queue) = Wake
    <3>1. hand' = pending /\ n # Wake
      BY <1>0, <1>5, <2>2, <2>4 DEF Take, Wake
    <3>2. Carried(n)'
      BY <2>1, <2>2, <2>3, <2>4, <3>1 DEF Carried
    <3> QED  BY <2>1, <2>2, <3>2
  <2>5. CASE Head(queue) # Wake
    <3>1. hand' = Head(queue) /\ UNCHANGED <<pending, wakeQueued>>
      BY <1>5, <2>2, <2>5 DEF Take
    <3>2. Carried(n)'
      BY <2>1, <2>2, <2>3, <3>1 DEF Carried
    <3> QED  BY <2>1, <2>2, <3>2
  <2> QED  BY <2>4, <2>5
<1>6. CASE Periodic
  <2>1. PICK n \in announced..MaxSeq : Carried(n)
    BY <1>1, <1>6 DEF Periodic
  <2>2. Carried(n)'
    BY <1>6, <2>1 DEF Periodic, Carried, Queued
  <2> QED  BY <1>6, <2>1, <2>2 DEF Periodic
<1>7. CASE CycleReturns
  <2>1. PICK n \in announced..MaxSeq : Carried(n)
    BY <1>1, <1>7 DEF CycleReturns
  <2>2. handled' = Larger(handled, hand) /\ announced' = announced
    BY <1>7 DEF CycleReturns
  <2>3. CASE n = handled
    <3>1. PICK k \in announced'..MaxSeq : k = handled'
      BY <1>0, <2>1, <2>2, <2>3 DEF Larger
    <3> QED  BY <3>1 DEF Carried
  <2>4. CASE n # handled
    <3>1. Carried(n)'
      BY <1>7, <2>1, <2>4 DEF CycleReturns, Carried, Queued
    <3> QED  BY <2>1, <2>2, <3>1
  <2> QED  BY <2>3, <2>4
<1>8. ASSUME queue' = Append(queue, hand), wpc # "ended",
             UNCHANGED <<announced, pending, wakeQueued, hand, handled>>
      PROVE  \E n \in announced'..MaxSeq : Carried(n)'
  BY <1>0, <1>3, <1>8, StaysQueued
<1>9. CASE Requeue
  BY <1>8, <1>9 DEF Requeue
<1>10. CASE ReceiverEnds
  BY <1>3, <1>8, <1>10 DEF ReceiverEnds, CancelWork
<1>11. CASE EmitIdle \/ EmitError
  BY <1>3, <1>11 DEF EmitIdle, EmitError, HandledInv
<1>12. CASE Gathered
  <2>1. wpc # "ended" /\ UNCHANGED <<wpc, announced, pending, wakeQueued, hand, handled>>
    BY <1>12 DEF Gathered
  <2> QED  BY <1>0, <1>3, <1>12, <2>1 DEF Gathered
<1>13. CASE Close \/ Reply \/ PausedWait \/ EmitRunning \/ BeginCycle \/ EmitCompleted
  BY <1>3, <1>13 DEF Close, Reply, PausedWait, EmitRunning, BeginCycle, EmitCompleted
<1>14. CASE CycleEnds \/ WorkerEnds
  BY <1>3, <1>14 DEF CycleEnds, WorkerEnds
<1>15. CASE UNCHANGED vars  BY <1>3, <1>15 DEF vars
<1> QED
  BY <1>4, <1>5, <1>6, <1>7, <1>9, <1>10, <1>11, <1>12, <1>13, <1>14, <1>15, Zenon
     DEF Next, ReceiverStep, WorkerStep

\* The largest announced number is never lost: neither by merging announcements, nor
\* by a pause, a stop, a model change or a disconnect that cancels the cycle which has
\* it, however long the queue is (workers/runtime.py:_queue_blackboard_update, _work).
THEOREM NoChangeLost == Spec => []ChangeNotLost
<1> DEFINE IInv == TypeOK /\ HandledInv /\ MarkerInv /\ CarriedInv
<1>1. Init => HandledInv /\ CarriedInv
  <2> SUFFICES ASSUME Init PROVE HandledInv /\ \E n \in announced..MaxSeq : Carried(n)
    BY DEF CarriedInv
  <2>1. 0 \in announced..MaxSeq /\ Carried(0)
    BY Items DEF Init, Carried
  <2> QED  BY <2>1 DEF Init, HandledInv
<1>2. Init => IInv
  BY <1>1, InitTyped, InitMarked, TypeParts
<1>3. IInv /\ [Next]_vars => IInv'
  BY TypeKept, HandledKept, MarkerKept, CarriedKept, TypeParts
<1>4. IInv => ChangeNotLost
  BY CarriedIsNotLost, TypeParts
<1> QED  BY <1>2, <1>3, <1>4, PTL DEF Spec

-------------------------------------------------------------------------------
\* A pause or a stop takes effect.

\* The cycle that began after a pause or a stop was past its checkpoint by then. No
\* other gets past it: a paused worker waits there, a stopped one ends after its cycle,
\* and a resume starts anew.
CheckpointInv ==
  late # 0 =>
    /\ late = 1
    /\ paused \/ stop
    /\ wpc \notin {"running", "started"}
    /\ wpc \in {"get", "paused"} => paused

LEMMA CheckpointKept ==
  ASSUME Typed, CheckpointInv, [Next]_vars
  PROVE  CheckpointInv'
<1> USE DEF CheckpointInv, session, worker, receiver, history
<1>1. ASSUME UNCHANGED <<paused, stop, wpc, late>> PROVE CheckpointInv'
  BY <1>1
<1>2. ASSUME late' = 0 PROVE CheckpointInv'
  BY <1>2
<1>3. ASSUME NEW m \in Message, Receive(m) PROVE CheckpointInv'
  <2>1. UNCHANGED wpc
    BY <1>3 DEF Receive
  <2>2. CASE Pause  BY <2>1, <2>2 DEF Pause
  <2>3. CASE Resume  BY <1>2, <2>3 DEF Resume
  <2>4. CASE Stop  BY <2>1, <2>4 DEF Stop
  <2>5. CASE SetModel  BY <1>1, <2>1, <2>5 DEF SetModel
  <2>6. CASE AddPrompt  BY <1>1, <2>1, <2>6 DEF AddPrompt
  <2>7. CASE Changed(m.seq)  BY <1>1, <2>1, <2>7 DEF Changed
  <2> QED  BY <1>3, <2>2, <2>3, <2>4, <2>5, <2>6, <2>7 DEF Receive
<1>4. CASE BeginCycle  BY <1>4 DEF BeginCycle, Typed
<1>5. CASE Take \/ Periodic \/ PausedWait \/ EmitRunning
  BY <1>5 DEF Take, Periodic, PausedWait, EmitRunning
<1>6. CASE ReceiverEnds \/ Requeue
  BY <1>6 DEF ReceiverEnds, CancelWork, Requeue
<1>7. CASE CycleReturns \/ EmitCompleted
  BY <1>7 DEF CycleReturns, EmitCompleted
<1>8. CASE EmitIdle \/ EmitError
  BY <1>8 DEF EmitIdle, EmitError
<1>9. CASE Close \/ Gathered \/ Reply \/ CycleEnds \/ WorkerEnds
  BY <1>1, <1>9 DEF Close, Gathered, Reply, CycleEnds, WorkerEnds
<1>10. CASE UNCHANGED vars  BY <1>1, <1>10 DEF vars
<1> QED
  BY <1>3, <1>4, <1>5, <1>6, <1>7, <1>8, <1>9, <1>10, Zenon
     DEF Next, ReceiverStep, WorkerStep

\* After a pause or a stop at most one more cycle begins, however pauses, resumes, stops
\* and cancelled cycles alternate (workers/runtime.py:_work, _receive).
THEOREM OneCycleAtMost == Spec => []CheckpointHolds
<1>1. Init => CheckpointInv  BY DEF Init, CheckpointInv
<1>2. TypeOK /\ CheckpointInv /\ [Next]_vars => (TypeOK /\ CheckpointInv)'
  BY TypeKept, CheckpointKept, TypeParts
<1>3. CheckpointInv => CheckpointHolds
  BY DEF CheckpointInv, CheckpointHolds
<1>4. Init => TypeOK
  BY InitTyped, TypeParts
<1> QED  BY <1>1, <1>2, <1>3, <1>4, PTL DEF Spec
===============================================================================
