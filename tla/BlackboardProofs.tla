--------------------------- MODULE BlackboardProofs ----------------------------
(* Theorems about Blackboard for any sets of clients, workers, keys, artifacts *)
(* and questions and any set of calls.                                         *)
EXTENDS Blackboard, TLAPS

USE BlackboardAssumption

-------------------------------------------------------------------------------
(* Types.                                                                      *)

\* Ending a transaction keeps the types of everything a client holds.
LEMMA EndType ==
  ASSUME TypeOK, NEW c \in Client, NEW told \in SUBSET (Requests \X Nat),
         End(c, told)
  PROVE  /\ taskLock' \in Client \union {None}
         /\ rowLock' \in Client \union {None}
         /\ questionLock' \in [Question -> Client \union {None}]
         /\ pc' \in [Client -> InTransaction \union {"idle"}]
         /\ req' \in [Client -> Requests \union {None}]
         /\ \A d \in Client : pc'[d] # "idle" => req'[d] \in Requests
         /\ \A d \in Client : pc'[d] = "question" => req'[d].op = "answer"
         /\ newSeq' \in [Client -> Nat]
         /\ newDialogueSeq' \in [Client -> Nat]
         /\ seenState' \in [Client -> {"absent", "waiting", "answered"}]
         /\ acked' \subseteq Requests \X Nat
  BY DEF TypeOK, End, Release, Goto, InTransaction

\* A rolled back transaction keeps every type.
LEMMA RollbackType ==
  ASSUME TypeOK, NEW c \in Client, Rollback(c)
  PROVE  TypeOK'
<1>1. {} \in SUBSET (Requests \X Nat)
  OBVIOUS
<1>2. End(c, {})
  BY DEF Rollback
<1> QED
  BY <1>1, <1>2, EndType DEF TypeOK, Rollback, committed

LEMMA StepType ==
  ASSUME TypeOK, NEW c \in Client, Step(c)
  PROVE  TypeOK'
<1>1. pc[c] # "idle" /\ req[c] \in Requests
  BY DEF TypeOK, Step, LockQuestion, LockTask, CheckPublish, CheckAnswer, Allocate,
         WritePublish, WriteAnswer, WriteConflict, WriteDialogue, CascadeDelete
<1>2. CASE LockQuestion(c)
  <2>1. req[c].question \in Question
    BY <1>1, <1>2 DEF LockQuestion, TypeOK, RequestShape
  <2>2. CASE Rollback(c)
    BY <2>2, RollbackType
  <2>3. CASE ~Rollback(c)
    <3>1. questionLock' \in [Question -> Client \union {None}]
      BY <1>2, <2>1, <2>3 DEF LockQuestion, TypeOK
    <3>2. seenState' \in [Client -> {"absent", "waiting", "answered"}]
      BY <1>2, <2>1, <2>3 DEF LockQuestion, TypeOK
    <3> QED
      BY <1>1, <1>2, <2>3, <3>1, <3>2
         DEF LockQuestion, TypeOK, committed, Goto, InTransaction
  <2> QED
    BY <2>2, <2>3
<1>3. CASE LockTask(c)
  BY <1>1, <1>3 DEF LockTask, TypeOK, committed, local, Goto, InTransaction
<1>4. CASE CheckPublish(c)
  <2>1. {<<req[c], e.seq>> : e \in Existing(req[c])} \in SUBSET (Requests \X Nat)
    BY <1>1 DEF TypeOK, Entry, Existing
  <2>2. CASE End(c, {<<req[c], e.seq>> : e \in Existing(req[c])}) /\ UNCHANGED committed
    BY <2>1, <2>2, EndType DEF TypeOK, committed
  <2> QED
    BY <1>1, <1>4, <2>2, RollbackType
       DEF CheckPublish, TypeOK, committed, locks, local, Goto, InTransaction
<1>5. CASE CheckAnswer(c)
  <2>1. {<<req[c], e.seq>> : e \in Existing(req[c])} \in SUBSET (Requests \X Nat)
    BY <1>1 DEF TypeOK, Entry, Existing
  <2>2. CASE End(c, {<<req[c], e.seq>> : e \in Existing(req[c])}) /\ UNCHANGED committed
    BY <2>1, <2>2, EndType DEF TypeOK, committed
  <2> QED
    BY <1>1, <1>5, <2>2
       DEF CheckAnswer, TypeOK, committed, locks, local, Goto, InTransaction
<1>6. CASE Allocate(c)
  BY <1>1, <1>6, RollbackType
     DEF Allocate, TypeOK, committed, Goto, InTransaction
<1>7. CASE WritePublish(c)
  <2>1. {<<req[c], newSeq[c]>>} \in SUBSET (Requests \X Nat)
    BY <1>1 DEF TypeOK
  <2>2. [seq |-> newSeq[c], req |-> req[c]] \in Entry
    BY <1>1 DEF TypeOK, Entry
  <2>3. End(c, {<<req[c], newSeq[c]>>})
    BY <1>7 DEF WritePublish
  <2> QED
    BY <1>7, <2>1, <2>2, <2>3, EndType DEF WritePublish, TypeOK, InsertEntry
<1>8. CASE WriteAnswer(c)
  <2>1. {<<req[c], newSeq[c]>>} \in SUBSET (Requests \X Nat)
    BY <1>1 DEF TypeOK
  <2>2. [seq |-> newSeq[c], req |-> req[c]] \in Entry
    BY <1>1 DEF TypeOK, Entry
  <2>3. End(c, {<<req[c], newSeq[c]>>})
    BY <1>8 DEF WriteAnswer
  <2>4. [seq |-> newDialogueSeq[c], question |-> req[c].question] \in Message
    BY <1>1 DEF TypeOK, Message, Request
  <2> QED
    BY <1>8, <2>1, <2>2, <2>3, <2>4, EndType
       DEF WriteAnswer, TypeOK, InsertEntry, InsertMessage
<1>9. CASE WriteDialogue(c)
  <2>1. {} \in SUBSET (Requests \X Nat)
    OBVIOUS
  <2>2. End(c, {})
    BY <1>9 DEF WriteDialogue
  <2>3. [seq |-> newDialogueSeq[c], question |-> req[c].question] \in Message
    BY <1>1 DEF TypeOK, Message, Request
  <2> QED
    BY <1>9, <2>1, <2>2, <2>3, EndType DEF WriteDialogue, TypeOK, InsertMessage
<1>10. CASE CascadeDelete(c)
  <2>1. {} \in SUBSET (Requests \X Nat)
    OBVIOUS
  <2>2. End(c, {})
    BY <1>10 DEF CascadeDelete
  <2> QED
    BY <1>10, <2>1, <2>2, EndType DEF CascadeDelete, TypeOK
<1>11. CASE WriteConflict(c)
  BY <1>11, RollbackType DEF WriteConflict
<1> QED
  BY <1>2, <1>3, <1>4, <1>5, <1>6, <1>7, <1>8, <1>9, <1>10, <1>11 DEF Step

LEMMA NextType ==
  ASSUME TypeOK, [Next]_vars
  PROVE  TypeOK'
<1>1. CASE UNCHANGED vars
  BY <1>1 DEF vars, committed, locks, local, TypeOK
<1>2. ASSUME NEW c \in Client, Begin(c) PROVE TypeOK'
  BY <1>2 DEF Begin, committed, locks, Goto, TypeOK, InTransaction
<1>3. ASSUME NEW c \in Client, DeadlockVictim(c) \/ Abort(c) PROVE TypeOK'
  BY <1>3, RollbackType DEF DeadlockVictim, Abort
<1>4. ASSUME NEW a \in Artifact, RegisterArtifact(a) PROVE TypeOK'
  BY <1>4 DEF RegisterArtifact, locks, local, TypeOK
<1>5. ASSUME NEW q \in Question, CreateQuestion(q) PROVE TypeOK'
  BY <1>5 DEF CreateQuestion, locks, local, TypeOK
<1> QED
  BY <1>1, <1>2, <1>3, <1>4, <1>5, StepType DEF Next

\* Blackboard's variables keep their types, whatever the calls.
THEOREM TypeCorrect == Spec => []TypeOK
<1>1. Init => TypeOK
  BY DEF Init, TypeOK, InTransaction
<1>2. TypeOK /\ [Next]_vars => TypeOK'
  BY NextType
<1> QED
  BY <1>1, <1>2, PTL DEF Spec

-------------------------------------------------------------------------------
(* The inductive invariant.                                                    *)

\* The parts about what is committed, and the parts about the clients.
Data ==
  /\ DeletedLeavesNothing /\ GaplessSequences /\ OneEntryPerKey
  /\ GroundedEntries /\ AnsweredOnce
Clients ==
  /\ LockDiscipline /\ StatementsOfCall /\ QuestionReadStands
  /\ AllocationStands /\ LookupStands

\* A step that commits nothing leaves the data as it is.
LEMMA DataUnchanged ==
  ASSUME Data, UNCHANGED committed
  PROVE  Data'
  BY DEF Data, committed, DeletedLeavesNothing, GaplessSequences, OneEntryPerKey,
         GroundedEntries, IsFinding, AnsweredOnce

\* A client that ends its transaction without committing disturbs no other.
LEMMA EndClients ==
  ASSUME TypeOK, Clients, NEW c \in Client, NEW told, pc[c] # "idle",
         End(c, told), UNCHANGED committed
  PROVE  Clients'
<1>1. pc' = [pc EXCEPT ![c] = "idle"] /\ req' = [req EXCEPT ![c] = None]
  BY DEF End, Goto
<1>2. LockDiscipline'
  BY <1>1 DEF Clients, LockDiscipline, Answering, End, Release, TypeOK
<1>3. StatementsOfCall'
  BY <1>1 DEF Clients, StatementsOfCall, TypeOK
<1>4. QuestionReadStands'
  BY <1>1 DEF Clients, QuestionReadStands, Answering, End, TypeOK, committed
<1>5. AllocationStands'
  BY <1>1 DEF Clients, AllocationStands, End, TypeOK, committed
<1>6. LookupStands'
  BY <1>1 DEF Clients, LookupStands, EvidenceAvailable, CitesFindings, IsFinding,
              SameKey, TypeOK, committed
<1> QED
  BY <1>2, <1>3, <1>4, <1>5, <1>6 DEF Clients

\* A client that moves on without committing.
LEMMA BeginClients ==
  ASSUME TypeOK, Clients, NEW c \in Client, Begin(c)
  PROVE  Clients'
  BY DEF Begin, Goto, TypeOK, committed, locks, Clients, LockDiscipline, Answering,
         StatementsOfCall, QuestionReadStands, AllocationStands, LookupStands,
         EvidenceAvailable, CitesFindings, IsFinding, SameKey

LEMMA LockQuestionClients ==
  ASSUME TypeOK, Clients, NEW c \in Client, LockQuestion(c), ~Rollback(c)
  PROVE  Clients'
<1>1. req[c] \in Requests /\ req[c].op = "answer" /\ req[c].question \in Question
  BY DEF LockQuestion, TypeOK, RequestShape
<1> QED
  BY <1>1
  DEF LockQuestion, Goto, TypeOK, committed, Clients, LockDiscipline, Answering,
      StatementsOfCall, QuestionReadStands, AllocationStands, LookupStands,
      EvidenceAvailable, CitesFindings, IsFinding, SameKey

LEMMA LockTaskClients ==
  ASSUME TypeOK, Clients, NEW c \in Client, LockTask(c)
  PROVE  Clients'
  BY DEF LockTask, Goto, TypeOK, committed, local, Clients, LockDiscipline, Answering,
      StatementsOfCall, QuestionReadStands, AllocationStands, LookupStands,
      EvidenceAvailable, CitesFindings, IsFinding, SameKey

LEMMA CheckPublishClients ==
  ASSUME TypeOK, Clients, NEW c \in Client, CheckPublish(c), Existing(req[c]) = {},
         EvidenceAvailable(req[c]), CitesFindings(req[c])
  PROVE  Clients'
<1>1. pc' = [pc EXCEPT ![c] = "allocate"] /\ UNCHANGED <<committed, locks, local>>
  BY DEF CheckPublish, Rollback, Goto
<1>2. \A e \in entries : ~SameKey(e.req, req[c])
  BY DEF Existing
<1>3. pc[c] = "check" /\ req[c].op = "publish"
  BY DEF CheckPublish
<1> QED
  BY <1>1, <1>2, <1>3
  DEF TypeOK, committed, locks, local, Clients, LockDiscipline, Answering,
      StatementsOfCall, QuestionReadStands, AllocationStands, LookupStands,
      EvidenceAvailable, CitesFindings, IsFinding, SameKey

LEMMA CheckAnswerClients ==
  ASSUME TypeOK, Clients, NEW c \in Client, CheckAnswer(c), seenState[c] # "answered"
  PROVE  Clients'
<1>1. pc' = [pc EXCEPT ![c] = "allocate"] /\ UNCHANGED <<committed, locks, local>>
  BY DEF CheckAnswer, Goto
<1>2. pc[c] = "check" /\ req[c].op = "answer"
  BY DEF CheckAnswer
<1> QED
  BY <1>1, <1>2
  DEF TypeOK, committed, locks, local, Clients, LockDiscipline, Answering,
      StatementsOfCall, QuestionReadStands, AllocationStands, LookupStands,
      EvidenceAvailable, CitesFindings, IsFinding, SameKey

LEMMA AllocateClients ==
  ASSUME TypeOK, Clients, NEW c \in Client, Allocate(c), live
  PROVE  Clients'
<1>1. req[c] \in Requests /\ req[c].op \in {"publish", "answer", "dialogue", "delete"}
  BY DEF Allocate, TypeOK, Request
<1>2. pc[c] = "allocate" /\ rowLock = None
  BY DEF Allocate
<1>3. /\ rowLock' = c
      /\ newSeq' = [newSeq EXCEPT ![c] = blackboardSeq + 1]
      /\ newDialogueSeq' = [newDialogueSeq EXCEPT ![c] = dialogueSeq + 1]
      /\ pc' = [pc EXCEPT ![c] = IF req[c].op = "delete" THEN "cascade" ELSE "write"]
      /\ UNCHANGED <<committed, taskLock, questionLock, req, seenState>>
  BY DEF Allocate, Goto
<1>4. LockDiscipline'
  <2>1. \A d \in Client : pc'[d] \in {"check", "allocate", "write", "cascade"}
                            <=> taskLock' = d
    BY <1>2, <1>3 DEF TypeOK, Clients, LockDiscipline
  <2>2. \A d \in Client : pc'[d] \in {"write", "cascade"} <=> rowLock' = d
    BY <1>2, <1>3 DEF TypeOK, Clients, LockDiscipline
  <2>3. \A d \in Client, q \in Question : Answering(d, q)' <=> questionLock'[q] = d
    <3>1. pc'[c] = "cascade" => req[c].op # "answer"
      BY <1>2, <1>3 DEF TypeOK
    <3> QED
      BY <1>1, <1>2, <1>3, <3>1 DEF TypeOK, Clients, LockDiscipline, Answering
  <2> QED
    BY <2>1, <2>2, <2>3 DEF LockDiscipline
<1>5. StatementsOfCall'
  BY <1>1, <1>2, <1>3 DEF TypeOK, Clients, StatementsOfCall
<1>6. QuestionReadStands'
  BY <1>2, <1>3 DEF TypeOK, Clients, QuestionReadStands, Answering, committed
<1>7. AllocationStands'
  BY <1>2, <1>3 DEF TypeOK, Clients, AllocationStands, committed
<1>8. LookupStands'
  BY <1>2, <1>3
  DEF TypeOK, Clients, LookupStands, committed, EvidenceAvailable, CitesFindings,
      IsFinding, SameKey
<1> QED
  BY <1>4, <1>5, <1>6, <1>7, <1>8 DEF Clients

\* Nobody else is past its lookups while one client writes or deletes.
LEMMA WriterAlone ==
  ASSUME TypeOK, Clients, NEW c \in Client, pc[c] \in {"write", "cascade"},
         NEW d \in Client, d # c
  PROVE  pc[d] \notin {"check", "allocate", "write", "cascade"}
  BY DEF TypeOK, Clients, LockDiscipline

\* The client's own locks and numbers go away; the others are not past their
\* lookups, so what they know is at most the state of the question they locked.
LEMMA CommitClients ==
  ASSUME TypeOK, Clients, NEW c \in Client, NEW told, End(c, told),
         pc[c] \in {"write", "cascade"},
         \A q \in Question : questionLock[q] \in Client \ {c} => questions'[q] = questions[q]
  PROVE  Clients'
<1>1. /\ pc' = [pc EXCEPT ![c] = "idle"] /\ req' = [req EXCEPT ![c] = None]
      /\ seenState' = [seenState EXCEPT ![c] = "absent"]
  BY DEF End, Goto
<1>2. LockDiscipline'
  BY <1>1 DEF Clients, LockDiscipline, Answering, End, Release, TypeOK
<1>3. \A d \in Client : pc'[d] \notin {"check", "allocate", "write", "cascade"}
  BY <1>1, WriterAlone DEF TypeOK
<1>4. StatementsOfCall' /\ AllocationStands' /\ LookupStands'
  BY <1>3 DEF StatementsOfCall, AllocationStands, LookupStands
<1>5. QuestionReadStands'
  <2> SUFFICES ASSUME NEW d \in Client, NEW q \in Question, Answering(d, q)'
               PROVE  /\ questions'[q] # "absent"
                      /\ seenState'[d] = questions'[q]
                      /\ pc'[d] \in {"allocate", "write"} => questions'[q] = "waiting"
    BY DEF QuestionReadStands
  <2>1. d # c /\ Answering(d, q)
    BY <1>1 DEF TypeOK, Answering
  <2>2. questionLock[q] = d
    BY <2>1 DEF Clients, LockDiscipline
  <2>3. questions'[q] = questions[q]
    BY <2>1, <2>2
  <2> QED
    BY <1>1, <1>3, <2>1, <2>3 DEF Clients, QuestionReadStands, TypeOK
<1> QED
  BY <1>2, <1>4, <1>5 DEF Clients

\* Inserting the next number keeps a table gapless and its numbers unique.
LEMMA NumberedInsert ==
  ASSUME NEW rows, NEW last \in Nat, NEW x, Numbered(rows, last), x.seq = last + 1
  PROVE  Numbered(rows \union {x}, last + 1)
<1>1. \A y \in rows : y.seq \in 1..last
  BY DEF Numbered
<1>2. \A n \in 1..(last + 1) : n \in 1..last \/ n = last + 1
  OBVIOUS
<1> QED
  BY <1>1, <1>2 DEF Numbered

LEMMA InsertEntryGapless ==
  ASSUME TypeOK, Clients, GaplessSequences, NEW c \in Client, pc[c] = "write",
         InsertEntry(c)
  PROVE  Numbered(entries', blackboardSeq')
<1>1. /\ newSeq[c] = blackboardSeq + 1 /\ blackboardSeq' = blackboardSeq + 1
      /\ blackboardSeq \in Nat
  BY DEF Clients, AllocationStands, InsertEntry, TypeOK
<1> QED
  BY <1>1, NumberedInsert DEF GaplessSequences, InsertEntry

LEMMA InsertMessageGapless ==
  ASSUME TypeOK, Clients, GaplessSequences, NEW c \in Client, pc[c] = "write",
         InsertMessage(c)
  PROVE  Numbered(messages', dialogueSeq')
<1>1. /\ newDialogueSeq[c] = dialogueSeq + 1 /\ dialogueSeq' = dialogueSeq + 1
      /\ dialogueSeq \in Nat
  BY DEF Clients, AllocationStands, InsertMessage, TypeOK
<1>2. \E m : m.seq = dialogueSeq + 1 /\ messages' = messages \union {m}
  BY <1>1 DEF InsertMessage
<1> QED
  BY <1>1, <1>2, NumberedInsert DEF GaplessSequences

\* An inserted entry is grounded when its call's lookups stand.
LEMMA InsertEntryGrounded ==
  ASSUME TypeOK, Clients, Data, NEW c \in Client, pc[c] = "write", InsertEntry(c),
         Insertable(req[c], newSeq[c]), UNCHANGED artifacts,
         req[c].refs \subseteq artifacts, CitesFindings(req[c])
  PROVE  OneEntryPerKey' /\ GroundedEntries'
<1> DEFINE new == [seq |-> newSeq[c], req |-> req[c]]
<1>1. entries' = entries \union {new} /\ newSeq[c] = blackboardSeq + 1
  BY DEF InsertEntry, Clients, AllocationStands
<1>2. OneEntryPerKey'
  BY <1>1 DEF Data, OneEntryPerKey, Insertable, SameKey
<1>3. \A n : IsFinding(n) => IsFinding(n)' /\ n < newSeq[c]
  <2>1. \A e \in entries : e.seq < newSeq[c]
    BY <1>1 DEF Data, GaplessSequences, Numbered, TypeOK
  <2> QED
    BY <1>1, <2>1 DEF IsFinding
<1>4. GroundedEntries'
  <2> SUFFICES ASSUME NEW e \in entries'
               PROVE  /\ e.req.refs \subseteq artifacts'
                      /\ \A n \in e.req.cites : n < e.seq /\ IsFinding(n)'
    BY DEF GroundedEntries
  <2>1. CASE e \in entries
    BY <1>3, <2>1 DEF Data, GroundedEntries
  <2>2. CASE e = new
    BY <1>3, <2>2 DEF CitesFindings
  <2> QED
    BY <1>1, <2>1, <2>2
<1> QED
  BY <1>2, <1>4

LEMMA WritePublishInv ==
  ASSUME TypeOK, Clients, Data, NEW c \in Client, WritePublish(c)
  PROVE  Clients' /\ Data'
<1>1. /\ pc[c] = "write" /\ req[c].op = "publish" /\ Insertable(req[c], newSeq[c])
      /\ InsertEntry(c) /\ End(c, {<<req[c], newSeq[c]>>}) /\ req[c] \in Requests
      /\ UNCHANGED <<live, dialogueSeq, artifacts, messages, questions>>
  BY DEF WritePublish, TypeOK
<1>2. Clients'
  BY <1>1, CommitClients
<1>3. req[c].question = None /\ req[c].question \notin Question
  BY <1>1 DEF RequestShape
<1>4. req[c].refs \subseteq artifacts /\ CitesFindings(req[c]) /\ live
  BY <1>1 DEF Clients, LookupStands, AllocationStands, EvidenceAvailable
<1>5. OneEntryPerKey' /\ GroundedEntries'
  BY <1>1, <1>4, InsertEntryGrounded
<1>6. GaplessSequences'
  BY <1>1, InsertEntryGapless DEF Data, GaplessSequences
<1>7. DeletedLeavesNothing'
  BY <1>1, <1>4 DEF DeletedLeavesNothing
<1>8. AnsweredOnce'
  BY <1>1, <1>3 DEF Data, AnsweredOnce, InsertEntry
<1> QED
  BY <1>2, <1>5, <1>6, <1>7, <1>8 DEF Data

LEMMA WriteAnswerInv ==
  ASSUME TypeOK, Clients, Data, NEW c \in Client, WriteAnswer(c)
  PROVE  Clients' /\ Data'
<1> DEFINE q == req[c].question
           new == [seq |-> newSeq[c], req |-> req[c]]
           said == [seq |-> newDialogueSeq[c], question |-> req[c].question]
<1>1. /\ pc[c] = "write" /\ req[c].op = "answer" /\ Insertable(req[c], newSeq[c])
      /\ InsertEntry(c) /\ InsertMessage(c) /\ End(c, {<<req[c], newSeq[c]>>})
      /\ questions' = [questions EXCEPT ![q] = "answered"]
      /\ req[c] \in Requests /\ UNCHANGED <<live, artifacts>>
  BY DEF WriteAnswer, TypeOK
<1>2. q \in Question /\ req[c].refs = {} /\ req[c].cites = {}
  BY <1>1 DEF RequestShape
<1>3. Answering(c, q) /\ questionLock[q] = c /\ questions[q] = "waiting" /\ live
  BY <1>1, <1>2 DEF Answering, Clients, LockDiscipline, QuestionReadStands, AllocationStands
<1>4. Clients'
  BY <1>1, <1>2, <1>3, CommitClients DEF TypeOK
<1>5. OneEntryPerKey' /\ GroundedEntries'
  <2>1. req[c].refs \subseteq artifacts /\ CitesFindings(req[c])
    BY <1>2 DEF CitesFindings
  <2> QED
    BY <1>1, <2>1, InsertEntryGrounded
<1>6. GaplessSequences'
  BY <1>1, InsertEntryGapless, InsertMessageGapless DEF Data, GaplessSequences
<1>7. DeletedLeavesNothing'
  BY <1>1, <1>3 DEF DeletedLeavesNothing
<1>8. AnsweredOnce'
  <2>1. entries' = entries \union {new} /\ messages' = messages \union {said}
    BY <1>1 DEF InsertEntry, InsertMessage
  <2>2. /\ \A e \in entries : e.req.question # q
        /\ \A m \in messages : m.question # q
    BY <1>2, <1>3 DEF Data, AnsweredOnce
  <2>3. new \in entries' /\ \A e \in entries' : e.req.question = q <=> e = new
    BY <2>1, <2>2
  <2>4. said \in messages' /\ \A m \in messages' : m.question = q <=> m = said
    BY <2>1, <2>2
  <2>5. \A p \in Question : questions'[p] = IF p = q THEN "answered" ELSE questions[p]
    BY <1>1, <1>2 DEF TypeOK
  <2>6. \A p \in Question \ {q} :
          /\ \A e \in entries' : e.req.question = p => e \in entries
          /\ \A m \in messages' : m.question = p => m \in messages
    BY <2>1
  <2>7. ASSUME NEW p \in Question \ {q}
        PROVE  IF questions'[p] = "answered"
               THEN /\ \E e \in entries' : \A f \in entries' : f.req.question = p <=> f = e
                    /\ \E m \in messages' : \A n \in messages' : n.question = p <=> n = m
               ELSE /\ \A e \in entries' : e.req.question # p
                    /\ \A m \in messages' : m.question # p
    BY <2>1, <2>5, <2>6 DEF Data, AnsweredOnce
  <2>8. /\ questions'[q] = "answered"
        /\ \E e \in entries' : \A f \in entries' : f.req.question = q <=> f = e
        /\ \E m \in messages' : \A n \in messages' : n.question = q <=> n = m
    BY <1>2, <2>3, <2>4, <2>5
  <2> HIDE DEF q, new, said
  <2>9. \A p \in Question : p = q \/ p \in Question \ {q}
    OBVIOUS
  <2> QED
    BY <2>7, <2>8, <2>9 DEF AnsweredOnce
<1> QED
  BY <1>4, <1>5, <1>6, <1>7, <1>8 DEF Data

LEMMA WriteDialogueInv ==
  ASSUME TypeOK, Clients, Data, NEW c \in Client, WriteDialogue(c)
  PROVE  Clients' /\ Data'
<1>1. /\ pc[c] = "write" /\ req[c].op = "dialogue" /\ req[c] \in Requests
      /\ InsertMessage(c) /\ End(c, {})
      /\ UNCHANGED <<live, blackboardSeq, entries, artifacts, questions>>
  BY DEF WriteDialogue, TypeOK
<1>2. Clients'
  BY <1>1, CommitClients
<1>3. live /\ req[c].question \notin Question
  BY <1>1 DEF Clients, AllocationStands, RequestShape
<1>4. GaplessSequences'
  BY <1>1, InsertMessageGapless DEF Data, GaplessSequences
<1>5. DeletedLeavesNothing'
  BY <1>1, <1>3 DEF DeletedLeavesNothing
<1>6. OneEntryPerKey' /\ GroundedEntries'
  BY <1>1 DEF Data, OneEntryPerKey, GroundedEntries, IsFinding
<1>7. AnsweredOnce'
  BY <1>1, <1>3 DEF Data, AnsweredOnce, InsertMessage
<1> QED
  BY <1>2, <1>4, <1>5, <1>6, <1>7 DEF Data

LEMMA CascadeDeleteInv ==
  ASSUME TypeOK, Clients, Data, NEW c \in Client, CascadeDelete(c)
  PROVE  Clients' /\ Data'
<1>1. /\ pc[c] = "cascade" /\ \A q \in Question : questionLock[q] \in {None, c}
      /\ End(c, {})
      /\ live' = FALSE /\ blackboardSeq' = 0 /\ dialogueSeq' = 0 /\ entries' = {}
      /\ artifacts' = {} /\ messages' = {} /\ questions' = [q \in Question |-> "absent"]
  BY DEF CascadeDelete
<1>2. \A q \in Question : questionLock[q] \notin Client \ {c}
  BY <1>1
<1>3. Clients'
  BY <1>1, <1>2, CommitClients
<1> QED
  BY <1>1, <1>3
  DEF Data, DeletedLeavesNothing, GaplessSequences, Numbered, OneEntryPerKey,
      GroundedEntries, AnsweredOnce

LEMMA RegisterArtifactInv ==
  ASSUME TypeOK, Clients, Data, NEW a \in Artifact, RegisterArtifact(a)
  PROVE  Clients' /\ Data'
<1>1. /\ live /\ artifacts' = artifacts \union {a}
      /\ UNCHANGED <<live, blackboardSeq, dialogueSeq, entries, messages, questions,
                     locks, pc, local>>
  BY DEF RegisterArtifact, ReferencesTask
<1>2. Clients'
  BY <1>1
  DEF Clients, LockDiscipline, Answering, StatementsOfCall, QuestionReadStands,
      AllocationStands, LookupStands, EvidenceAvailable, CitesFindings, IsFinding,
      SameKey, locks, local
<1>3. Data'
  BY <1>1
  DEF Data, DeletedLeavesNothing, GaplessSequences, OneEntryPerKey,
      GroundedEntries, IsFinding, AnsweredOnce
<1> QED
  BY <1>2, <1>3

LEMMA CreateQuestionInv ==
  ASSUME TypeOK, Clients, Data, NEW q \in Question, CreateQuestion(q)
  PROVE  Clients' /\ Data'
<1>1. /\ live /\ questions[q] = "absent"
      /\ questions' = [questions EXCEPT ![q] = "waiting"]
      /\ UNCHANGED <<live, blackboardSeq, dialogueSeq, entries, artifacts, messages,
                     locks, pc, local>>
  BY DEF CreateQuestion, ReferencesTask
<1>2. \A p \in Question : questions'[p] = IF p = q THEN "waiting" ELSE questions[p]
  BY <1>1 DEF TypeOK
<1>3. QuestionReadStands'
  BY <1>1, <1>2 DEF Clients, QuestionReadStands, Answering, local
<1>4. Clients'
  BY <1>1, <1>3
  DEF Clients, LockDiscipline, Answering, StatementsOfCall, AllocationStands,
      LookupStands, EvidenceAvailable, CitesFindings, IsFinding, SameKey, locks, local
<1>5. AnsweredOnce'
  BY <1>1, <1>2 DEF Data, AnsweredOnce
<1>6. Data'
  BY <1>1, <1>5
  DEF Data, DeletedLeavesNothing, GaplessSequences, OneEntryPerKey,
      GroundedEntries, IsFinding
<1> QED
  BY <1>4, <1>6

\* A client ends its transaction without committing anything.
LEMMA EndInv ==
  ASSUME TypeOK, Clients, Data, NEW c \in Client, NEW told, pc[c] # "idle",
         End(c, told), UNCHANGED committed
  PROVE  Clients' /\ Data'
  BY EndClients, DataUnchanged

LEMMA RollbackInv ==
  ASSUME TypeOK, Clients, Data, NEW c \in Client, pc[c] # "idle", Rollback(c)
  PROVE  Clients' /\ Data'
  BY EndInv DEF Rollback

LEMMA StepInv ==
  ASSUME TypeOK, Clients, Data, NEW c \in Client, Step(c)
  PROVE  Clients' /\ Data'
<1>1. CASE LockQuestion(c)
  <2>1. CASE Rollback(c)
    BY <1>1, <2>1, RollbackInv DEF LockQuestion
  <2>2. CASE ~Rollback(c)
    <3>1. UNCHANGED committed
      BY <1>1, <2>2 DEF LockQuestion
    <3> QED
      BY <1>1, <2>2, <3>1, LockQuestionClients, DataUnchanged
  <2> QED
    BY <2>1, <2>2
<1>2. CASE LockTask(c)
  BY <1>2, LockTaskClients, DataUnchanged DEF LockTask
<1>3. CASE CheckPublish(c)
  <2>1. CASE Existing(req[c]) # {}
    BY <1>3, <2>1, EndInv DEF CheckPublish
  <2>2. CASE Existing(req[c]) = {} /\ ~(EvidenceAvailable(req[c]) /\ CitesFindings(req[c]))
    BY <1>3, <2>2, RollbackInv DEF CheckPublish
  <2>3. CASE Existing(req[c]) = {} /\ EvidenceAvailable(req[c]) /\ CitesFindings(req[c])
    <3>1. UNCHANGED committed
      BY <1>3, <2>3 DEF CheckPublish
    <3> QED
      BY <1>3, <2>3, <3>1, CheckPublishClients, DataUnchanged
  <2> QED
    BY <2>1, <2>2, <2>3
<1>4. CASE CheckAnswer(c)
  <2>1. CASE seenState[c] = "answered"
    BY <1>4, <2>1, EndInv DEF CheckAnswer
  <2>2. CASE seenState[c] # "answered"
    <3>1. UNCHANGED committed
      BY <1>4, <2>2 DEF CheckAnswer
    <3> QED
      BY <1>4, <2>2, <3>1, CheckAnswerClients, DataUnchanged
  <2> QED
    BY <2>1, <2>2
<1>5. CASE Allocate(c)
  <2>1. CASE live
    <3>1. UNCHANGED committed
      BY <1>5, <2>1 DEF Allocate
    <3> QED
      BY <1>5, <2>1, <3>1, AllocateClients, DataUnchanged
  <2>2. CASE ~live
    BY <1>5, <2>2, RollbackInv DEF Allocate
  <2> QED
    BY <2>1, <2>2
<1>6. CASE WriteConflict(c)
  BY <1>6, RollbackInv DEF WriteConflict
<1> QED
  BY <1>1, <1>2, <1>3, <1>4, <1>5, <1>6, WritePublishInv, WriteAnswerInv,
     WriteDialogueInv, CascadeDeleteInv DEF Step

LEMMA NextInv ==
  ASSUME TypeOK, Clients, Data, [Next]_vars
  PROVE  Clients' /\ Data'
<1>1. CASE UNCHANGED vars
  <2>1. UNCHANGED <<committed, locks, pc, local>>
    BY <1>1 DEF vars
  <2>2. Clients'
    BY <2>1
    DEF Clients, LockDiscipline, Answering, StatementsOfCall, QuestionReadStands,
        AllocationStands, LookupStands, EvidenceAvailable, CitesFindings, IsFinding,
        SameKey, committed, locks, local
  <2> QED
    BY <2>1, <2>2, DataUnchanged
<1>2. ASSUME NEW c \in Client, Begin(c)
      PROVE  Clients' /\ Data'
  BY <1>2, BeginClients, DataUnchanged DEF Begin
<1>3. ASSUME NEW c \in Client, DeadlockVictim(c) \/ Abort(c)
      PROVE  Clients' /\ Data'
  <2>1. pc[c] # "idle" /\ Rollback(c)
    BY <1>3 DEF DeadlockVictim, Abort, LockCycle
  <2> QED
    BY <2>1, RollbackInv
<1> QED
  BY <1>1, <1>2, <1>3, StepInv, RegisterArtifactInv, CreateQuestionInv DEF Next

LEMMA InvariantHolds == Spec => [](TypeOK /\ Clients /\ Data)
<1>1. Init => Clients /\ Data
  BY DEF Init, Clients, Data, LockDiscipline, Answering, StatementsOfCall,
         QuestionReadStands, AllocationStands, LookupStands, DeletedLeavesNothing,
         GaplessSequences, Numbered, OneEntryPerKey, GroundedEntries, AnsweredOnce
<1>2. TypeOK /\ Clients /\ Data /\ [Next]_vars => Clients' /\ Data'
  BY NextInv
<1> QED
  BY <1>1, <1>2, TypeCorrect, PTL DEF Spec

\* Entries and messages are numbered without gaps and each number is used once,
\* however transactions interleave, roll back and retry.
THEOREM SequencesAreGapless == Spec => []GaplessSequences
<1>1. Data => GaplessSequences
  BY DEF Data
<1> QED
  BY <1>1, InvariantHolds, PTL

\* No retry and no race writes a second entry for a writer and key.
THEOREM KeysAreUnique == Spec => []OneEntryPerKey
<1>1. Data => OneEntryPerKey
  BY DEF Data
<1> QED
  BY <1>1, InvariantHolds, PTL

\* Evidence and cited findings are in the task before the entry that rests on them.
THEOREM EntriesAreGrounded == Spec => []GroundedEntries
<1>1. Data => GroundedEntries
  BY DEF Data
<1> QED
  BY <1>1, InvariantHolds, PTL

\* A question is answered by one qa entry and one message, or not at all.
THEOREM QuestionsAnsweredOnce == Spec => []AnsweredOnce
<1>1. Data => AnsweredOnce
  BY DEF Data
<1> QED
  BY <1>1, InvariantHolds, PTL

\* A publish past its lookups never meets a UNIQUE violation or a missing task.
THEOREM PublishNeverFailsLate == Spec => []PublishInsertable
<1>1. TypeOK /\ Clients /\ Data => PublishInsertable
  <2> SUFFICES ASSUME TypeOK, Clients, Data, NEW c \in Client, pc[c] = "write",
                      req[c].op = "publish"
               PROVE  /\ live
                      /\ Insertable(req[c], newSeq[c])
                      /\ EvidenceAvailable(req[c])
                      /\ CitesFindings(req[c])
    BY DEF PublishInsertable
  <2>1. live /\ newSeq[c] = blackboardSeq + 1
    BY DEF Clients, AllocationStands
  <2>2. \A e \in entries : e.seq # newSeq[c]
    BY <2>1 DEF Data, GaplessSequences, Numbered, TypeOK
  <2> QED
    BY <2>1, <2>2 DEF Clients, LookupStands, Insertable
<1> QED
  BY <1>1, InvariantHolds, PTL

-------------------------------------------------------------------------------
(* What a step may commit.                                                     *)

\* The steps that commit something; every other step leaves the data alone.
Commits ==
  \/ \E c \in Client : \/ WritePublish(c) \/ WriteAnswer(c)
                       \/ WriteDialogue(c) \/ CascadeDelete(c)
  \/ \E a \in Artifact : RegisterArtifact(a)
  \/ \E q \in Question : CreateQuestion(q)

LEMMA CommitsOrNot ==
  ASSUME [Next]_vars
  PROVE  Commits \/ UNCHANGED committed
<1>1. ASSUME NEW c \in Client, Begin(c) \/ DeadlockVictim(c) \/ Abort(c)
      PROVE  UNCHANGED committed
  BY <1>1 DEF Begin, DeadlockVictim, Abort, Rollback
<1>2. ASSUME NEW c \in Client,
             \/ LockQuestion(c) \/ LockTask(c) \/ CheckPublish(c) \/ CheckAnswer(c)
             \/ Allocate(c) \/ WriteConflict(c)
      PROVE  UNCHANGED committed
  BY <1>2
  DEF LockQuestion, LockTask, CheckPublish, CheckAnswer, Allocate, WriteConflict, Rollback
<1> QED
  BY <1>1, <1>2 DEF Next, Step, Commits, vars

\* Until the task is deleted entries only accumulate, each after all others.
THEOREM LogIsAppendOnly == Spec => AppendOnly
<1> DEFINE Grows == live' => /\ entries \subseteq entries'
                             /\ \A e \in entries' \ entries, f \in entries : f.seq < e.seq
<1>1. ASSUME TypeOK, Clients, Data, [Next]_vars PROVE Grows
  <2>1. CASE entries' = entries
    BY <2>1
  <2>2. ASSUME NEW c \in Client, WritePublish(c) \/ WriteAnswer(c) PROVE Grows
    <3>1. /\ newSeq[c] = blackboardSeq + 1
          /\ entries' = entries \union {[seq |-> newSeq[c], req |-> req[c]]}
      BY <1>1, <2>2 DEF WritePublish, WriteAnswer, InsertEntry, Clients, AllocationStands
    <3>2. \A f \in entries : f.seq < newSeq[c]
      BY <1>1, <3>1 DEF Data, GaplessSequences, Numbered, TypeOK
    <3> QED
      BY <3>1, <3>2
  <2>3. ASSUME NEW c \in Client, CascadeDelete(c) PROVE Grows
    BY <2>3 DEF CascadeDelete
  <2>4. ASSUME NEW c \in Client, WriteDialogue(c) PROVE entries' = entries
    BY <2>4 DEF WriteDialogue
  <2>5. (\E a \in Artifact : RegisterArtifact(a)) \/ (\E q \in Question : CreateQuestion(q))
          => entries' = entries
    BY DEF RegisterArtifact, CreateQuestion
  <2>6. UNCHANGED committed => entries' = entries
    BY DEF committed
  <2> QED
    BY <1>1, <2>1, <2>2, <2>3, <2>4, <2>5, <2>6, CommitsOrNot DEF Commits
<1>2. TypeOK /\ Clients /\ Data /\ [Next]_vars => [Grows]_vars
  BY <1>1
<1> QED
  BY <1>2, InvariantHolds, PTL DEF Spec, AppendOnly

-------------------------------------------------------------------------------
(* The transactions implement SharedLog.                                       *)

\* The entry with a number of the log.
LEMMA EntryAtNumber ==
  ASSUME Data, NEW n \in 1..blackboardSeq
  PROVE  /\ EntryAt(n) \in entries
         /\ EntryAt(n).seq = n
         /\ \A e \in entries : e.seq = n => e = EntryAt(n)
<1>1. \E e \in entries : e.seq = n
  BY DEF Data, GaplessSequences, Numbered
<1>2. EntryAt(n) \in entries /\ EntryAt(n).seq = n
  BY <1>1 DEF EntryAt
<1> QED
  BY <1>2 DEF Data, GaplessSequences, Numbered

\* Inserting the next entry extends the abstract log by the call it serves.
LEMMA InsertGrows ==
  ASSUME TypeOK, Clients, Data, NEW c \in Client, pc[c] = "write", InsertEntry(c),
         Insertable(req[c], newSeq[c]), UNCHANGED <<live, artifacts>>,
         req[c].refs \subseteq artifacts, CitesFindings(req[c]), NEW x, x = req[c]
  PROVE  Abstract!Grow(x)
<1> DEFINE new == [seq |-> newSeq[c], req |-> req[c]]
<1>1. /\ entries' = entries \union {new} /\ newSeq[c] = blackboardSeq + 1
      /\ blackboardSeq' = blackboardSeq + 1 /\ blackboardSeq \in Nat /\ live
  BY DEF InsertEntry, Clients, AllocationStands, TypeOK
<1>2. Abstract!Fresh(x)
  BY EntryAtNumber DEF Abstract!Fresh, Insertable, SameKey
<1>3. ASSUME NEW n \in req[c].cites PROVE Abstract!IsFinding(n)
  <2>1. PICK e \in entries : e.seq = n /\ e.req.kind = "finding"
    BY <1>3 DEF CitesFindings, IsFinding
  <2>2. n \in 1..blackboardSeq
    BY <2>1 DEF Data, GaplessSequences, Numbered
  <2>3. EntryAt(n) = e
    BY <2>1, <2>2, EntryAtNumber
  <2> QED
    BY <2>1, <2>2, <2>3 DEF Abstract!IsFinding
<1>4. ASSUME NEW n \in 1..blackboardSeq PROVE EntryAt(n)' = EntryAt(n)
  <2>1. \A e \in entries' : e.seq = n <=> e = EntryAt(n)
    BY <1>1, EntryAtNumber
  <2>2. EntryAt(n) \in entries'
    BY <1>1, EntryAtNumber
  <2>3. EntryAt(n)' = CHOOSE e \in entries' : e.seq = n
    BY DEF EntryAt
  <2> QED
    BY <2>1, <2>2, <2>3
<1>5. ASSUME NEW n, n = blackboardSeq + 1 PROVE EntryAt(n)' = new
  <2>1. \A e \in entries' : e.seq = n <=> e = new
    BY <1>1, <1>5 DEF Insertable
  <2>2. new \in entries'
    BY <1>1
  <2>3. EntryAt(n)' = CHOOSE e \in entries' : e.seq = n
    BY DEF EntryAt
  <2> HIDE DEF new
  <2> QED
    BY <2>1, <2>2, <2>3
<1>6. [n \in 1..blackboardSeq' |-> EntryAt(n)'.req]
        = [n \in 1..(blackboardSeq + 1) |->
             IF n = blackboardSeq + 1 THEN req[c]
             ELSE [m \in 1..blackboardSeq |-> EntryAt(m).req][n]]
  <2>1. ASSUME NEW n \in 1..(blackboardSeq + 1)
        PROVE  EntryAt(n)'.req = IF n = blackboardSeq + 1 THEN req[c]
                                 ELSE [m \in 1..blackboardSeq |-> EntryAt(m).req][n]
    <3>1. CASE n = blackboardSeq + 1
      BY <1>5, <3>1
    <3>2. CASE n # blackboardSeq + 1
      <4>1. n \in 1..blackboardSeq
        BY <1>1, <3>2
      <4> QED
        BY <1>4, <3>2, <4>1
    <3> QED
      BY <3>1, <3>2
  <2> QED
    BY <1>1, <2>1
<1> QED
  BY <1>1, <1>2, <1>3, <1>6 DEF Abstract!Grow

\* The log outside the writes of entries: the refinement mapping only looks at
\* what is committed.
LEMMA LogUnchanged ==
  ASSUME UNCHANGED <<entries, blackboardSeq>>
  PROVE  UNCHANGED [n \in 1..blackboardSeq |-> EntryAt(n).req]
  BY DEF EntryAt

\* A question is closed in the abstract log when its row is marked answered.
LEMMA WriteAnswerAnswers ==
  ASSUME TypeOK, Clients, Data, NEW c \in Client, WriteAnswer(c),
         NEW x, x = req[c]
  PROVE  Abstract!Answer(x)
<1>1. /\ pc[c] = "write" /\ req[c].op = "answer" /\ req[c] \in Requests
      /\ InsertEntry(c) /\ Insertable(req[c], newSeq[c])
      /\ questions' = [questions EXCEPT ![req[c].question] = "answered"]
      /\ UNCHANGED <<live, artifacts>>
  BY DEF WriteAnswer, TypeOK
<1>2. req[c].question \in Question /\ req[c].kind = "qa"
  BY <1>1 DEF RequestShape
<1>3. req[c].refs = {} /\ req[c].cites = {}
  BY <1>1, <1>2 DEF RequestShape
<1>4. questions[req[c].question] = "waiting"
  BY <1>1, <1>2 DEF Clients, QuestionReadStands, Answering
<1>5. Abstract!Grow(x)
  BY <1>1, <1>3, InsertGrows DEF CitesFindings
<1>6. {q \in Question : questions'[q] = "answered"}
        = {q \in Question : questions[q] = "answered"} \union {req[c].question}
  BY <1>1, <1>2 DEF TypeOK
<1> QED
  BY <1>2, <1>4, <1>5, <1>6 DEF Abstract!Answer

LEMMA WritePublishAppends ==
  ASSUME TypeOK, Clients, Data, NEW c \in Client, WritePublish(c),
         NEW x, x = req[c]
  PROVE  Abstract!Append(x)
<1>1. /\ pc[c] = "write" /\ req[c].op = "publish" /\ req[c] \in Requests
      /\ InsertEntry(c) /\ Insertable(req[c], newSeq[c])
      /\ UNCHANGED <<live, artifacts, questions>>
  BY DEF WritePublish, TypeOK
<1>2. req[c].question \notin Question
  BY <1>1 DEF RequestShape
<1>3. EvidenceAvailable(req[c]) /\ CitesFindings(req[c])
  BY <1>1 DEF Clients, LookupStands
<1>4. Abstract!Grow(x)
  BY <1>1, <1>3, InsertGrows DEF EvidenceAvailable
<1> QED
  BY <1>1, <1>2, <1>4 DEF Abstract!Append

LEMMA CascadeDeleteDrops ==
  ASSUME Clients, NEW c \in Client, CascadeDelete(c)
  PROVE  Abstract!Drop
<1>1. /\ live /\ live' = FALSE /\ blackboardSeq' = 0 /\ artifacts' = {}
      /\ questions' = [q \in Question |-> "absent"]
  BY DEF CascadeDelete, Clients, AllocationStands
<1>2. {q \in Question : questions'[q] = "answered"} = {}
  BY <1>1
<1>3. [n \in 1..blackboardSeq' |-> EntryAt(n)'.req] = [n \in 1..0 |-> {}]
  <2>1. \A n \in 1..0 : FALSE
    OBVIOUS
  <2> QED
    BY <1>1, <2>1
<1> QED
  BY <1>1, <1>2, <1>3 DEF Abstract!Drop, Abstract!EmptyLog

\* Every step of the transactions is a step of the shared log or changes none of it.
LEMMA StepRefines ==
  ASSUME TypeOK, Clients, Data, [Next]_vars
  PROVE  [Abstract!Next]_(Abstract!logVars)
<1>1. CASE UNCHANGED <<live, blackboardSeq, entries, artifacts>>
           /\ {q \in Question : questions'[q] = "answered"}
                = {q \in Question : questions[q] = "answered"}
  BY <1>1, LogUnchanged DEF Abstract!logVars
<1>2. CASE UNCHANGED committed
  BY <1>1, <1>2 DEF committed
<1>3. ASSUME NEW c \in Client, WritePublish(c) \/ WriteAnswer(c)
      PROVE  Abstract!Next
  <2>1. req[c] \in {r \in Requests : r.op \in {"publish", "answer"}}
    BY <1>3 DEF WritePublish, WriteAnswer, TypeOK
  <2>2. PICK x : x = req[c]
    OBVIOUS
  <2>3. Abstract!Append(x) \/ Abstract!Answer(x)
    BY <1>3, <2>2, WritePublishAppends, WriteAnswerAnswers
  <2> QED
    BY <2>1, <2>2, <2>3 DEF Abstract!Next
<1>4. ASSUME NEW c \in Client, WriteDialogue(c)
      PROVE  [Abstract!Next]_(Abstract!logVars)
  BY <1>1, <1>4 DEF WriteDialogue
<1>5. ASSUME NEW c \in Client, CascadeDelete(c)
      PROVE  Abstract!Next
  BY <1>5, CascadeDeleteDrops DEF Abstract!Next
<1>6. ASSUME NEW a \in Artifact, RegisterArtifact(a)
      PROVE  Abstract!Next
  <2>1. Abstract!Register(a)
    BY <1>6, LogUnchanged
    DEF RegisterArtifact, ReferencesTask, Abstract!Register
  <2> QED
    BY <2>1 DEF Abstract!Next
<1>7. ASSUME NEW q \in Question, CreateQuestion(q)
      PROVE  [Abstract!Next]_(Abstract!logVars)
  <2>1. \A p \in Question : questions'[p] = "answered" <=> questions[p] = "answered"
    BY <1>7 DEF CreateQuestion, TypeOK
  <2>2. UNCHANGED <<live, blackboardSeq, entries, artifacts>>
    BY <1>7 DEF CreateQuestion
  <2> QED
    BY <1>1, <2>1, <2>2
<1> QED
  BY <1>2, <1>3, <1>4, <1>5, <1>6, <1>7, CommitsOrNot DEF Commits

LEMMA InitRefines == Init => Abstract!Init
<1> SUFFICES ASSUME Init PROVE Abstract!Init
  OBVIOUS
<1>1. {q \in Question : questions[q] = "answered"} = {}
  BY DEF Init
<1>2. [n \in 1..blackboardSeq |-> EntryAt(n).req] = [n \in 1..0 |-> {}]
  <2>1. \A n \in 1..0 : FALSE
    OBVIOUS
  <2> QED
    BY <2>1 DEF Init
<1> QED
  BY <1>1, <1>2 DEF Init, Abstract!Init, Abstract!EmptyLog

\* The transactions of PostgresStorage implement the atomic append-only log.
THEOREM TransactionsImplementLog == Spec => ImplementsSharedLog
<1>1. TypeOK /\ Clients /\ Data /\ [Next]_vars => [Abstract!Next]_(Abstract!logVars)
  BY StepRefines
<1> QED
  BY <1>1, InitRefines, InvariantHolds, PTL DEF Spec, ImplementsSharedLog, Abstract!Spec

-------------------------------------------------------------------------------
(* What clients were told.                                                     *)

\* An entry that accounts for a reply stays as long as the entries accumulate.
LEMMA ToldStands ==
  ASSUME AckedWritesStand, live' => live, live' => entries \subseteq entries',
         NEW told, acked' = acked \union told,
         live' => \A x \in told : \E e \in entries' :
                    /\ e.seq = x[2]
                    /\ e.req.actor = x[1].actor
                    /\ e.req.key = x[1].key
  PROVE  AckedWritesStand'
  BY DEF AckedWritesStand

\* Ending a transaction that told the client nothing, or that found its entry.
LEMMA EndStands ==
  ASSUME AckedWritesStand, NEW c \in Client,
         NEW told \in {{}, {<<req[c], e.seq>> : e \in Existing(req[c])}},
         End(c, told), UNCHANGED <<live, entries>>
  PROVE  AckedWritesStand'
<1>1. acked' = acked \union told
  BY DEF End
<1>2. ASSUME NEW x \in told
      PROVE  \E e \in entries' : /\ e.seq = x[2]
                                 /\ e.req.actor = x[1].actor
                                 /\ e.req.key = x[1].key
  BY <1>2 DEF Existing, SameKey
<1> QED
  BY <1>1, <1>2, ToldStands

LEMMA WriteStands ==
  ASSUME AckedWritesStand, NEW c \in Client, InsertEntry(c), UNCHANGED live,
         End(c, {<<req[c], newSeq[c]>>})
  PROVE  AckedWritesStand'
<1>1. acked' = acked \union {<<req[c], newSeq[c]>>}
  BY DEF End
<1>2. [seq |-> newSeq[c], req |-> req[c]] \in entries' /\ entries \subseteq entries'
  BY DEF InsertEntry
<1>3. \E e \in entries' : e.seq = newSeq[c] /\ e.req = req[c]
  BY <1>2
<1>4. ASSUME NEW x \in {<<req[c], newSeq[c]>>}
      PROVE  \E e \in entries' : /\ e.seq = x[2]
                                 /\ e.req.actor = x[1].actor
                                 /\ e.req.key = x[1].key
  BY <1>3
<1> QED
  BY <1>1, <1>2, <1>4, ToldStands

\* What a publish or an answer was told, first or after a retry, is in the log.
THEOREM AcknowledgedWritesStand == Spec => []AckedWritesStand
<1>1. Init => AckedWritesStand
  BY DEF Init, AckedWritesStand
<1>2. AckedWritesStand /\ [Next]_vars => AckedWritesStand'
  <2> SUFFICES ASSUME AckedWritesStand, [Next]_vars PROVE AckedWritesStand'
    OBVIOUS
  <2>1. CASE UNCHANGED <<live, entries, acked>>
    BY <2>1 DEF AckedWritesStand
  <2>2. ASSUME NEW c \in Client, Rollback(c) PROVE AckedWritesStand'
    BY <2>2, EndStands DEF Rollback, committed
  <2>3. ASSUME NEW c \in Client, CheckPublish(c) \/ CheckAnswer(c)
        PROVE  AckedWritesStand'
    BY <2>1, <2>2, <2>3, EndStands DEF CheckPublish, CheckAnswer, committed
  <2>4. ASSUME NEW c \in Client, WritePublish(c) \/ WriteAnswer(c)
        PROVE  AckedWritesStand'
    BY <2>4, WriteStands DEF WritePublish, WriteAnswer
  <2>5. ASSUME NEW c \in Client, WriteDialogue(c) PROVE AckedWritesStand'
    BY <2>5, EndStands DEF WriteDialogue
  <2>6. ASSUME NEW c \in Client, CascadeDelete(c) PROVE AckedWritesStand'
    BY <2>6 DEF CascadeDelete, AckedWritesStand
  <2>7. ASSUME NEW c \in Client,
               LockQuestion(c) \/ LockTask(c) \/ Allocate(c) \/ WriteConflict(c)
        PROVE  AckedWritesStand'
    BY <2>1, <2>2, <2>7
    DEF LockQuestion, LockTask, Allocate, WriteConflict, committed
  <2>8. ASSUME NEW c \in Client, Begin(c) \/ DeadlockVictim(c) \/ Abort(c)
        PROVE  AckedWritesStand'
    BY <2>1, <2>2, <2>8 DEF Begin, DeadlockVictim, Abort, committed
  <2>9. CASE \/ \E a \in Artifact : RegisterArtifact(a)
             \/ \E q \in Question : CreateQuestion(q)
    BY <2>1, <2>9 DEF RegisterArtifact, CreateQuestion
  <2>10. CASE UNCHANGED vars
    BY <2>1, <2>10 DEF vars, committed
  <2> QED
    BY <2>3, <2>4, <2>5, <2>6, <2>7, <2>8, <2>9, <2>10 DEF Next, Step
<1> QED
  BY <1>1, <1>2, PTL DEF Spec
===============================================================================
