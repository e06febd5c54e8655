------------------------- MODULE StorageAgreementProofs -------------------------
(* The theorem about StorageAgreement: the PostgreSQL transactions of a task do  *)
(* what InMemoryStorage does, for any clients and calls and any interleaving.    *)
EXTENDS StorageAgreement, BlackboardProofs

USE BlackboardAssumption

-------------------------------------------------------------------------------
(* Stores, field by field.                                                     *)

Field == {"live", "blackboardSeq", "dialogueSeq", "entries", "artifacts", "messages",
          "questions", "answers"}

Store(s) == s = [f \in Field |-> s[f]]

LEMMA SameStore ==
  ASSUME NEW s, NEW t, Store(s), Store(t), \A f \in Field : s[f] = t[f]
  PROVE  s = t
BY Zenon DEF Store

\* The entries among es that answered the questions.
Answers(es, qs) ==
  [q \in Question |-> IF qs[q] = "answered"
                      THEN (CHOOSE e \in es : e.req.question = q).seq ELSE 0]

LEMMA StoredFields ==
  /\ Store(Stored)
  /\ Stored.live = live /\ Stored.blackboardSeq = blackboardSeq
  /\ Stored.dialogueSeq = dialogueSeq /\ Stored.entries = entries
  /\ Stored.artifacts = artifacts /\ Stored.messages = messages
  /\ Stored.questions = questions /\ Stored.answers = Answers(entries, questions)
BY DEF Stored, Store, Field, Answers

LEMMA NextStoredFields ==
  /\ Store(Stored')
  /\ Stored'.live = live' /\ Stored'.blackboardSeq = blackboardSeq'
  /\ Stored'.dialogueSeq = dialogueSeq' /\ Stored'.entries = entries'
  /\ Stored'.artifacts = artifacts' /\ Stored'.messages = messages'
  /\ Stored'.questions = questions' /\ Stored'.answers = Answers(entries', questions')
BY DEF Stored, Store, Field, Answers

LEMMA StoredStays ==
  ASSUME UNCHANGED committed
  PROVE  Stored' = Stored
BY DEF Stored, committed

LEMMA AppendEntryFields ==
  ASSUME NEW s, Store(s), NEW r
  PROVE  LET t == Memory!AppendEntry(s, r) IN
         /\ Store(t)
         /\ t.entries = s.entries \union {[seq |-> s.blackboardSeq + 1, req |-> r]}
         /\ t.blackboardSeq = s.blackboardSeq + 1
         /\ \A f \in Field \ {"entries", "blackboardSeq"} : t[f] = s[f]
BY DEF Memory!AppendEntry, Store, Field

LEMMA AppendMessageFields ==
  ASSUME NEW s, Store(s), NEW q
  PROVE  LET t == Memory!AppendMessage(s, q) IN
         /\ Store(t)
         /\ t.messages = s.messages \union {[seq |-> s.dialogueSeq + 1, question |-> q]}
         /\ t.dialogueSeq = s.dialogueSeq + 1
         /\ \A f \in Field \ {"messages", "dialogueSeq"} : t[f] = s[f]
BY DEF Memory!AppendMessage, Store, Field

LEMMA ResultFields ==
  ASSUME NEW s, NEW n
  PROVE  Memory!Result(s, n).store = s /\ Memory!Result(s, n).reply = n
BY DEF Memory!Result

LEMMA AnswersShape ==
  ASSUME NEW es, NEW qs
  PROVE  /\ Answers(es, qs) = [q \in Question |-> Answers(es, qs)[q]]
         /\ \A q \in Question : qs[q] # "answered" => Answers(es, qs)[q] = 0
BY DEF Answers

\* The one entry that answered a question.
LEMMA TheAnswer ==
  ASSUME NEW es, NEW qs, NEW q \in Question, qs[q] = "answered",
         NEW e \in es, \A f \in es : f.req.question = q <=> f = e
  PROVE  Answers(es, qs)[q] = e.seq
<1>1. (CHOOSE f \in es : f.req.question = q) = e
  OBVIOUS
<1>2. Answers(es, qs)[q] = (CHOOSE f \in es : f.req.question = q).seq
  BY DEF Answers
<1> QED  BY <1>1, <1>2, Zenon

\* More entries do not change which one answered a question that has one answer with
\* and without them.
LEMMA AnswerStays ==
  ASSUME AnsweredOnce, AnsweredOnce', entries \subseteq entries',
         NEW q \in Question, questions'[q] = "answered" <=> questions[q] = "answered"
  PROVE  Answers(entries', questions')[q] = Answers(entries, questions)[q]
<1>1. CASE questions[q] = "answered"
  <2>1. PICK e \in entries : \A f \in entries : f.req.question = q <=> f = e
    BY <1>1 DEF AnsweredOnce
  <2>2. PICK d \in entries' : \A f \in entries' : f.req.question = q <=> f = d
    BY <1>1 DEF AnsweredOnce
  <2>3. d = e
    BY <2>1, <2>2
  <2>4. questions'[q] = "answered"
    BY <1>1
  <2>5. Answers(entries, questions)[q] = e.seq
    BY <1>1, <2>1, TheAnswer
  <2>6. Answers(entries', questions')[q] = d.seq
    BY <2>2, <2>4, TheAnswer
  <2> QED  BY <2>3, <2>5, <2>6
<1>2. CASE questions[q] # "answered"
  <2>1. questions'[q] # "answered"
    BY <1>2
  <2> QED  BY <1>2, <2>1, AnswersShape
<1> QED  BY <1>1, <1>2

LEMMA AnswersStay ==
  ASSUME AnsweredOnce, AnsweredOnce', entries \subseteq entries',
         \A q \in Question : questions'[q] = "answered" <=> questions[q] = "answered"
  PROVE  Answers(entries', questions') = Answers(entries, questions)
<1>1. \A q \in Question :
        Answers(entries', questions')[q] = Answers(entries, questions)[q]
  BY AnswerStays
<1>2. /\ Answers(entries', questions') = [q \in Question |-> Answers(entries', questions')[q]]
      /\ Answers(entries, questions) = [q \in Question |-> Answers(entries, questions)[q]]
  BY AnswersShape
<1> QED  BY <1>1, <1>2, Zenon

-------------------------------------------------------------------------------
(* Calls that end without a write.                                             *)

LEMMA CallOfOp ==
  ASSUME NEW s, NEW r
  PROVE  /\ r.op = "publish" => Memory!Call(s, r) = Memory!Publish(s, r)
         /\ r.op = "answer" => Memory!Call(s, r) = Memory!Answer(s, r)
         /\ r.op = "dialogue" => Memory!Call(s, r) = Memory!AppendDialogue(s, r)
         /\ r.op = "delete" => Memory!Call(s, r) = Memory!DeleteTask(s)
BY DEF Memory!Call

\* The replies of a call that returns entry n, or none.
LEMMA Told ==
  ASSUME NEW r, NEW n
  PROVE  (IF n = 0 THEN {} ELSE {<<r, n>>}) = {<<r, k>> : k \in {n} \ {0}}
OBVIOUS

\* Nothing is stored: the call gets the entry that is there, or an error.
LEMMA Nothing ==
  ASSUME NEW c \in Client, UNCHANGED committed, NEW n,
         Memory!Call(Stored, req[c]) = Memory!Result(Stored, n),
         acked' = acked \union (IF n = 0 THEN {} ELSE {<<req[c], n>>})
  PROVE  AsInMemory(c)
BY StoredStays, ResultFields, Told DEF AsInMemory, Ends

LEMMA Refused ==
  ASSUME NEW c \in Client, Rollback(c),
         Memory!Call(Stored, req[c]) = Memory!Raises(Stored)
  PROVE  AsInMemory(c)
<1>1. UNCHANGED committed /\ acked' = acked
  BY DEF Rollback, End
<1> QED  BY <1>1, Nothing DEF Memory!Raises

LEMMA QuestionIsAbsent ==
  ASSUME TypeOK, NEW c \in Client, LockQuestion(c), pc'[c] = "idle"
  PROVE  AsInMemory(c)
<1>1. req[c] \in Requests /\ req[c].op = "answer"
  BY DEF TypeOK, LockQuestion
<1>2. req[c].question \in Question
  BY <1>1 DEF RequestShape
<1>3. questions[req[c].question] = "absent" /\ Rollback(c)
  BY DEF LockQuestion, Goto, TypeOK
<1>4. Memory!Answer(Stored, req[c]) = Memory!Raises(Stored)
  BY <1>3, StoredFields DEF Memory!Answer
<1> QED  BY <1>1, <1>3, <1>4, CallOfOp, Refused

\* The lookup of the idempotency key finds what it finds in memory.
LEMMA WrittenIsExisting ==
  ASSUME NEW r
  PROVE  Memory!Written(Stored, r) = Existing(r)
BY StoredFields DEF Memory!Written, Existing, SameKey

LEMMA ValidIsChecked ==
  ASSUME NEW r
  PROVE  Memory!Valid(Stored, r) <=> EvidenceAvailable(r) /\ CitesFindings(r)
<1>1. (r.cites \subseteq {e.seq : e \in {f \in entries : f.req.kind = "finding"}})
        <=> CitesFindings(r)
  BY DEF CitesFindings, IsFinding
<1> QED  BY <1>1, StoredFields DEF Memory!Valid, EvidenceAvailable

\* A retry gets the one entry written under its key.
LEMMA RetryGetsEntry ==
  ASSUME TypeOK, Data, NEW c \in Client, req[c].op = "publish", Existing(req[c]) # {},
         UNCHANGED committed,
         acked' = acked \union {<<req[c], e.seq>> : e \in Existing(req[c])}
  PROVE  AsInMemory(c)
<1>1. PICK e \in Existing(req[c]) : TRUE
  OBVIOUS
<1>2. Existing(req[c]) = {e}
  BY <1>1 DEF Data, OneEntryPerKey, Existing, SameKey
<1>3. live /\ e.seq # 0
  BY <1>1 DEF Data, DeletedLeavesNothing, GaplessSequences, Numbered, Existing, TypeOK
<1>4. (CHOOSE g \in {e} : \A f \in {e} : g.seq <= f.seq) = e
  <2>1. e.seq \in Nat
    BY <1>1 DEF Existing, TypeOK, Entry
  <2> QED  BY <2>1
<1>5. Memory!Publish(Stored, req[c]) = Memory!Result(Stored, e.seq)
  BY <1>2, <1>3, <1>4, WrittenIsExisting, StoredFields, Zenon DEF Memory!Publish
<1>6. acked' = acked \union {<<req[c], e.seq>>}
  BY <1>2
<1> QED  BY <1>3, <1>5, <1>6, CallOfOp, Nothing

LEMMA CheckedAsInMemory ==
  ASSUME TypeOK, Data, NEW c \in Client, CheckPublish(c), pc'[c] = "idle"
  PROVE  AsInMemory(c)
<1>1. req[c].op = "publish"
  BY DEF CheckPublish
<1>2. CASE Existing(req[c]) # {}
  BY <1>1, <1>2, RetryGetsEntry DEF CheckPublish, End
<1>3. CASE Existing(req[c]) = {}
  <2>1. ~(EvidenceAvailable(req[c]) /\ CitesFindings(req[c])) /\ Rollback(c)
    BY <1>3 DEF CheckPublish, Goto, TypeOK
  <2>2. Memory!Publish(Stored, req[c]) = Memory!Raises(Stored)
    BY <1>3, <2>1, WrittenIsExisting, ValidIsChecked, Zenon DEF Memory!Publish
  <2> QED  BY <1>1, <2>1, <2>2, CallOfOp, Refused
<1> QED  BY <1>2, <1>3

\* An answer comes from the Supervisor, and what answered a question is an answer.
LEMMA AnswerShape ==
  ASSUME TypeOK, NEW c \in Client, req[c] \in Requests, req[c].op = "answer"
  PROVE  /\ req[c].question \in Question /\ req[c].actor = "supervisor"
         /\ \A e \in entries :
              e.req.question = req[c].question =>
                (e.req.key = req[c].key <=> SameKey(e.req, req[c]))
<1>1. req[c].question \in Question /\ req[c].actor = "supervisor"
  BY DEF RequestShape
<1>2. ASSUME NEW e \in entries, e.req.question = req[c].question
      PROVE  e.req.actor = "supervisor"
  <2>1. e.req \in Requests
    BY DEF TypeOK, Entry
  <2> QED  BY <1>1, <1>2, <2>1 DEF RequestShape
<1> QED  BY <1>1, <1>2 DEF SameKey

\* A question that is answered under the same key gets the entry of its first answer.
LEMMA AnsweredAsInMemory ==
  ASSUME TypeOK, Clients, Data, NEW c \in Client, CheckAnswer(c), pc'[c] = "idle",
         ~SecondAnswer(req[c])
  PROVE  AsInMemory(c)
<1> DEFINE r == req[c]
           q == req[c].question
<1>1. r \in Requests /\ r.op = "answer" /\ q \in Question
  BY DEF TypeOK, CheckAnswer, RequestShape
<1>2. /\ seenState[c] = "answered" /\ UNCHANGED committed
      /\ acked' = acked \union {<<r, e.seq>> : e \in Existing(r)}
  BY DEF CheckAnswer, Goto, TypeOK, End
<1>3. questions[q] = "answered"
  BY <1>1, <1>2 DEF Clients, QuestionReadStands, Answering, CheckAnswer
<1>4. PICK e \in entries : \A f \in entries : f.req.question = q <=> f = e
  BY <1>1, <1>3 DEF Data, AnsweredOnce
<1>5. Existing(r) = {e}
  <2>1. e.req.question = q /\ SameKey(e.req, r)
    BY <1>1, <1>4, AnswerShape DEF SecondAnswer
  <2>2. \A f \in entries : SameKey(f.req, r) => f = e
    BY <2>1 DEF Data, OneEntryPerKey, SameKey
  <2> QED  BY <2>1, <2>2 DEF Existing
<1>6. e.seq # 0
  BY <1>4 DEF Data, GaplessSequences, Numbered, TypeOK
<1>7. Stored.answers[q] = e.seq
  <2> HIDE DEF q
  <2> QED  BY <1>1, <1>3, <1>4, TheAnswer, StoredFields
<1>8. Memory!Answer(Stored, r) = Memory!Result(Stored, e.seq)
  BY <1>3, <1>7, StoredFields DEF Memory!Answer
<1>9. acked' = acked \union {<<r, e.seq>>}
  BY <1>2, <1>5
<1> QED  BY <1>1, <1>2, <1>6, <1>8, <1>9, CallOfOp, Nothing

\* What delete_task leaves.
LEMMA EmptyStore ==
  ASSUME NEW s, Store(s), s.live = FALSE, s.blackboardSeq = 0, s.dialogueSeq = 0,
         s.entries = {}, s.artifacts = {}, s.messages = {},
         s.questions = [q \in Question |-> "absent"], s.answers = [q \in Question |-> 0],
         DOMAIN questions = Question
  PROVE  Memory!DeleteTask(Stored) = Memory!Result(s, 0)
<1> DEFINE t == [live |-> FALSE, blackboardSeq |-> 0, dialogueSeq |-> 0, entries |-> {},
                 artifacts |-> {}, messages |-> {},
                 questions |-> [q \in Question |-> "absent"],
                 answers |-> [q \in Question |-> 0]]
<1>1. Stored.questions = questions
  BY StoredFields
<1>2. Memory!DeleteTask(Stored) = Memory!Result(t, 0)
  BY <1>1 DEF Memory!DeleteTask
<1>3. Store(t) /\ \A f \in Field : t[f] = s[f]
  BY DEF Store, Field
<1> HIDE DEF t
<1>4. t = s
  BY <1>3, SameStore
<1> QED  BY <1>2, <1>4

\* The task is gone when the number is to be taken.
LEMMA GoneAsInMemory ==
  ASSUME TypeOK, Clients, Data, NEW c \in Client, Allocate(c), pc'[c] = "idle"
  PROVE  AsInMemory(c)
<1>1. req[c] \in Requests /\ ~live /\ Rollback(c)
  BY DEF TypeOK, Allocate, Goto
<1>2. CASE req[c].op = "publish"
  <2>1. Existing(req[c]) = {}
    BY <1>1 DEF Data, DeletedLeavesNothing, Existing
  <2>2. Memory!Publish(Stored, req[c]) = Memory!Raises(Stored)
    BY <1>1, StoredFields DEF Memory!Publish
  <2> QED  BY <1>1, <1>2, <2>2, CallOfOp, Refused
<1>3. CASE req[c].op = "answer"
  <2>1. req[c].question \in Question
    BY <1>1, <1>3 DEF RequestShape
  <2>2. questions[req[c].question] = "waiting"
    BY <1>3, <2>1 DEF Clients, QuestionReadStands, Answering, Allocate
  <2>3. questions[req[c].question] = "absent"
    BY <1>1, <2>1 DEF Data, DeletedLeavesNothing
  <2> QED  BY <2>2, <2>3
<1>4. CASE req[c].op = "dialogue"
  <2>1. Memory!AppendDialogue(Stored, req[c]) = Memory!Raises(Stored)
    BY <1>1, StoredFields DEF Memory!AppendDialogue
  <2> QED  BY <1>1, <1>4, <2>1, CallOfOp, Refused
<1>5. CASE req[c].op = "delete"
  <2>1. live = FALSE /\ blackboardSeq = 0 /\ dialogueSeq = 0 /\ entries = {} /\ artifacts = {}
        /\ messages = {} /\ \A q \in Question : questions[q] = "absent"
    BY <1>1 DEF Data, DeletedLeavesNothing, TypeOK
  <2>2. Memory!DeleteTask(Stored) = Memory!Result(Stored, 0)
    <3>1. questions = [q \in Question |-> "absent"] /\ DOMAIN questions = Question
      BY <2>1 DEF TypeOK
    <3>2. Answers(entries, questions) = [q \in Question |-> 0]
      BY <2>1, AnswersShape
    <3> QED  BY <2>1, <3>1, <3>2, StoredFields, EmptyStore
  <2> QED  BY <1>1, <1>5, <2>2, CallOfOp, Refused DEF Memory!Raises
<1>6. req[c].op \in {"publish", "answer", "dialogue", "delete"}
  BY <1>1 DEF Request
<1> QED  BY <1>2, <1>3, <1>4, <1>5, <1>6

-------------------------------------------------------------------------------
(* Calls that write.                                                           *)

\* The call returns entry n and leaves the store t, which is what is committed.
LEMMA Wrote ==
  ASSUME NEW c \in Client, NEW t, NEW n,
         Memory!Call(Stored, req[c]) = Memory!Result(t, n), Stored' = t,
         acked' = acked \union (IF n = 0 THEN {} ELSE {<<req[c], n>>})
  PROVE  AsInMemory(c)
BY ResultFields, Told DEF AsInMemory, Ends

LEMMA PublishedAsInMemory ==
  ASSUME TypeOK, Clients, Data, Data', NEW c \in Client, WritePublish(c)
  PROVE  AsInMemory(c)
<1> DEFINE r == req[c]
           t == Memory!AppendEntry(Stored, r)
<1>1. /\ r.op = "publish" /\ live /\ newSeq[c] = blackboardSeq + 1
      /\ Existing(r) = {} /\ EvidenceAvailable(r) /\ CitesFindings(r)
  BY DEF WritePublish, Clients, AllocationStands, LookupStands, Existing
<1>2. /\ entries' = entries \union {[seq |-> blackboardSeq + 1, req |-> r]}
      /\ blackboardSeq' = blackboardSeq + 1
      /\ acked' = acked \union {<<r, blackboardSeq + 1>>}
      /\ UNCHANGED <<live, dialogueSeq, artifacts, messages, questions>>
  BY <1>1 DEF WritePublish, InsertEntry, End
<1>3. Memory!Publish(Stored, r) = Memory!Result(t, blackboardSeq + 1)
  <2>1. Stored.live = live /\ Stored.blackboardSeq = blackboardSeq
    BY StoredFields
  <2>2. Memory!Written(Stored, r) = {} /\ Memory!Valid(Stored, r)
    BY <1>1, WrittenIsExisting, ValidIsChecked
  <2> HIDE DEF r
  <2> QED  BY <1>1, <2>1, <2>2, Zenon DEF Memory!Publish
<1>4. Answers(entries', questions') = Answers(entries, questions)
  BY <1>2, AnswersStay DEF Data
<1>5. Stored' = t
  <2> HIDE DEF r
  <2>1. /\ Store(t) /\ t.entries = entries' /\ t.blackboardSeq = blackboardSeq'
        /\ \A f \in Field \ {"entries", "blackboardSeq"} : t[f] = Stored[f]
    BY <1>2, StoredFields, AppendEntryFields
  <2> HIDE DEF t
  <2>2. \A f \in Field : Stored'[f] = t[f]
    BY <1>2, <1>4, <2>1, StoredFields, NextStoredFields DEF Field
  <2> QED  BY <2>1, <2>2, SameStore, NextStoredFields
<1>6. blackboardSeq + 1 # 0
  BY DEF TypeOK
<1> HIDE DEF t
<1> QED  BY <1>1, <1>2, <1>3, <1>5, <1>6, CallOfOp, Wrote

LEMMA DialogueAsInMemory ==
  ASSUME TypeOK, Clients, Data, Data', NEW c \in Client, WriteDialogue(c)
  PROVE  AsInMemory(c)
<1> DEFINE q == req[c].question
           t == Memory!AppendMessage(Stored, q)
<1>1. req[c].op = "dialogue" /\ live /\ newDialogueSeq[c] = dialogueSeq + 1
  BY DEF WriteDialogue, Clients, AllocationStands
<1>2. /\ messages' = messages \union {[seq |-> dialogueSeq + 1, question |-> q]}
      /\ dialogueSeq' = dialogueSeq + 1 /\ acked' = acked
      /\ UNCHANGED <<live, blackboardSeq, entries, artifacts, questions>>
  BY <1>1 DEF WriteDialogue, InsertMessage, End
<1>3. Memory!AppendDialogue(Stored, req[c]) = Memory!Result(t, 0)
  BY <1>1, StoredFields DEF Memory!AppendDialogue
<1>4. Stored' = t
  <2> HIDE DEF q
  <2>1. /\ Store(t) /\ t.messages = messages' /\ t.dialogueSeq = dialogueSeq'
        /\ \A f \in Field \ {"messages", "dialogueSeq"} : t[f] = Stored[f]
    BY <1>2, StoredFields, AppendMessageFields
  <2> HIDE DEF t
  <2>2. \A f \in Field : Stored'[f] = t[f]
    BY <1>2, <2>1, StoredFields, NextStoredFields DEF Field
  <2> QED  BY <2>1, <2>2, SameStore, NextStoredFields
<1> HIDE DEF t
<1> QED  BY <1>1, <1>2, <1>3, <1>4, CallOfOp, Wrote

\* The answer is stored with its entry and its message, and the question is closed.
LEMMA AnswerAsInMemory ==
  ASSUME TypeOK, Clients, Data, Data', NEW c \in Client, WriteAnswer(c)
  PROVE  AsInMemory(c)
<1> DEFINE r == req[c]
           q == req[c].question
           closed == [Stored EXCEPT !.questions[q] = "answered",
                                    !.answers[q] = Stored.blackboardSeq + 1]
           e == Memory!AppendEntry(closed, r)
           t == Memory!AppendMessage(e, q)
           row == [seq |-> blackboardSeq + 1, req |-> r]
<1>1. r \in Requests /\ r.op = "answer" /\ q \in Question
  BY DEF TypeOK, WriteAnswer, RequestShape
<1>2. questions[q] = "waiting" /\ newSeq[c] = blackboardSeq + 1
      /\ newDialogueSeq[c] = dialogueSeq + 1
  BY <1>1 DEF Clients, QuestionReadStands, Answering, AllocationStands, WriteAnswer
<1>3. /\ entries' = entries \union {row} /\ blackboardSeq' = blackboardSeq + 1
      /\ messages' = messages \union {[seq |-> dialogueSeq + 1, question |-> q]}
      /\ dialogueSeq' = dialogueSeq + 1
      /\ questions' = [questions EXCEPT ![q] = "answered"]
      /\ acked' = acked \union {<<r, blackboardSeq + 1>>}
      /\ UNCHANGED <<live, artifacts>>
  BY <1>2 DEF WriteAnswer, InsertEntry, InsertMessage, End
<1>4. Memory!Answer(Stored, r) = Memory!Result(t, blackboardSeq + 1)
  <2>1. Stored.questions = questions /\ Stored.blackboardSeq = blackboardSeq
    BY StoredFields
  <2> QED  BY <1>2, <2>1 DEF Memory!Answer
<1>5. Answers(entries', questions') = [Answers(entries, questions) EXCEPT ![q] = blackboardSeq + 1]
  <2>1. ASSUME NEW p \in Question, p # q
        PROVE  Answers(entries', questions')[p] = Answers(entries, questions)[p]
    <3>1. questions'[p] = questions[p]
      BY <1>3, <2>1 DEF TypeOK
    <3> QED  BY <1>3, <3>1, AnswerStays DEF Data
  <2>2. Answers(entries', questions')[q] = blackboardSeq + 1
    <3>1. questions'[q] = "answered"
      BY <1>1, <1>3 DEF TypeOK
    <3>2. PICK a \in entries' : \A f \in entries' : f.req.question = q <=> f = a
      BY <1>1, <3>1 DEF Data, AnsweredOnce
    <3>3. a = row
      BY <1>3, <3>2
    <3>4. Answers(entries', questions')[q] = a.seq
      <4> HIDE DEF q, row
      <4> QED  BY <1>1, <3>1, <3>2, TheAnswer
    <3> QED  BY <3>3, <3>4
  <2> HIDE DEF q
  <2> QED  BY <2>1, <2>2, AnswersShape
<1>6. /\ Store(closed) /\ closed.questions = questions'
      /\ closed.answers = Answers(entries', questions')
      /\ \A f \in Field \ {"questions", "answers"} : closed[f] = Stored[f]
  BY <1>3, <1>5, StoredFields DEF Store, Field
<1>7. Stored' = t
  <2> HIDE DEF r, q, closed
  <2>1. /\ Store(e) /\ e.entries = entries' /\ e.blackboardSeq = blackboardSeq'
        /\ \A f \in Field \ {"entries", "blackboardSeq"} : e[f] = closed[f]
    BY <1>3, <1>6, StoredFields, AppendEntryFields DEF Field
  <2> HIDE DEF e
  <2>2. e.messages = messages /\ e.dialogueSeq = dialogueSeq
    BY <1>6, <2>1, StoredFields DEF Field
  <2>3. /\ Store(t) /\ t.messages = messages' /\ t.dialogueSeq = dialogueSeq'
        /\ \A f \in Field \ {"messages", "dialogueSeq"} : t[f] = e[f]
    BY <1>3, <2>1, <2>2, AppendMessageFields
  <2> HIDE DEF t
  <2>4. /\ t.live = closed.live /\ t.artifacts = closed.artifacts
        /\ t.questions = closed.questions /\ t.answers = closed.answers
        /\ t.entries = entries' /\ t.blackboardSeq = blackboardSeq'
    BY <2>1, <2>3 DEF Field
  <2>5. closed.live = live /\ closed.artifacts = artifacts
    BY <1>6, StoredFields DEF Field
  <2>6. \A f \in Field : Stored'[f] = t[f]
    BY <1>3, <1>6, <2>3, <2>4, <2>5, NextStoredFields DEF Field
  <2> QED  BY <2>3, <2>6, SameStore, NextStoredFields
<1>8. blackboardSeq + 1 # 0
  BY DEF TypeOK
<1> HIDE DEF t
<1> QED  BY <1>1, <1>3, <1>4, <1>7, <1>8, CallOfOp, Wrote

\* What was looked up under the lock can be inserted, unless the key of an answer is
\* taken.
LEMMA NoConflict ==
  ASSUME TypeOK, Clients, Data, NEW c \in Client, WriteConflict(c), ~KeyTaken(req[c])
  PROVE  FALSE
<1>1. req[c] \in Requests /\ newSeq[c] = blackboardSeq + 1
  BY DEF TypeOK, WriteConflict, Clients, AllocationStands
<1>2. \A e \in entries : e.seq # newSeq[c]
  BY <1>1 DEF Data, GaplessSequences, Numbered, TypeOK
<1>3. PICK e \in entries : SameKey(e.req, req[c])
  BY <1>2 DEF WriteConflict, Insertable
<1>4. CASE req[c].op = "publish"
  BY <1>3, <1>4 DEF Clients, LookupStands, WriteConflict
<1>5. CASE req[c].op = "answer"
  <2>1. req[c].question \in Question
    BY <1>1, <1>5 DEF RequestShape
  <2>2. questions[req[c].question] = "waiting"
    BY <1>5, <2>1 DEF Clients, QuestionReadStands, Answering, WriteConflict
  <2> QED  BY <1>3, <1>5, <2>2 DEF KeyTaken, Existing
<1> QED  BY <1>4, <1>5 DEF WriteConflict

LEMMA DeleteAsInMemory ==
  ASSUME TypeOK, Clients, NEW c \in Client, CascadeDelete(c)
  PROVE  AsInMemory(c)
<1>1. req[c].op = "delete"
  BY DEF Clients, StatementsOfCall, CascadeDelete
<1>2. /\ live' = FALSE /\ blackboardSeq' = 0 /\ dialogueSeq' = 0 /\ entries' = {}
      /\ artifacts' = {} /\ messages' = {} /\ questions' = [q \in Question |-> "absent"]
      /\ acked' = acked
  BY DEF CascadeDelete, End
<1>3. Memory!DeleteTask(Stored) = Memory!Result(Stored', 0)
  <2>1. Answers(entries', questions') = [q \in Question |-> 0]
    BY <1>2, AnswersShape
  <2>2. DOMAIN questions = Question
    BY DEF TypeOK
  <2> QED  BY <1>2, <2>1, <2>2, NextStoredFields, EmptyStore
<1> QED  BY <1>1, <1>2, <1>3, CallOfOp, Wrote

-------------------------------------------------------------------------------
(* The rows that are written without a transaction of a client.                *)

LEMMA ArtifactAsInMemory ==
  ASSUME Data, Data', NEW a \in Artifact, RegisterArtifact(a)
  PROVE  Stored' = Memory!RegisterArtifact(Stored, a)
<1> DEFINE t == Memory!RegisterArtifact(Stored, a)
<1>1. /\ live /\ artifacts' = artifacts \union {a}
      /\ UNCHANGED <<live, blackboardSeq, dialogueSeq, entries, messages, questions>>
  BY DEF RegisterArtifact, ReferencesTask
<1>2. Store(t) /\ t.artifacts = artifacts' /\ \A f \in Field \ {"artifacts"} : t[f] = Stored[f]
  <2>1. CASE a \in artifacts
    <3>1. t = Stored /\ artifacts' = artifacts
      BY <1>1, <2>1, StoredFields DEF Memory!RegisterArtifact
    <3> QED  BY <3>1, StoredFields
  <2>2. CASE a \notin artifacts
    <3>1. t = [Stored EXCEPT !.artifacts = @ \union {a}]
      BY <1>1, <2>2, StoredFields DEF Memory!RegisterArtifact
    <3> QED  BY <1>1, <3>1, StoredFields DEF Store, Field
  <2> QED  BY <2>1, <2>2
<1> HIDE DEF t
<1>3. \A f \in Field : Stored'[f] = t[f]
  BY <1>1, <1>2, StoredFields, NextStoredFields DEF Field
<1>4. Stored' = t
  BY <1>2, <1>3, SameStore, NextStoredFields
<1> QED  BY <1>4 DEF t

LEMMA QuestionAsInMemory ==
  ASSUME TypeOK, Data, Data', NEW q \in Question, CreateQuestion(q)
  PROVE  Stored' = Memory!CreateQuestion(Stored, q)
<1> DEFINE t == [Stored EXCEPT !.questions[q] = "waiting"]
<1>1. /\ live /\ questions[q] = "absent" /\ questions' = [questions EXCEPT ![q] = "waiting"]
      /\ UNCHANGED <<live, blackboardSeq, dialogueSeq, entries, artifacts, messages>>
  BY DEF CreateQuestion, ReferencesTask
<1>2. Memory!CreateQuestion(Stored, q) = t
  BY <1>1, StoredFields DEF Memory!CreateQuestion
<1>3. Store(t) /\ t.questions = questions' /\ \A f \in Field \ {"questions"} : t[f] = Stored[f]
  BY <1>1, StoredFields DEF Store, Field
<1>4. Answers(entries', questions') = Answers(entries, questions)
  <2>1. \A p \in Question : questions'[p] = "answered" <=> questions[p] = "answered"
    BY <1>1 DEF TypeOK
  <2> QED  BY <1>1, <2>1, AnswersStay DEF Data
<1> HIDE DEF t
<1>5. \A f \in Field : Stored'[f] = t[f]
  <2>1. \A f \in Field \ {"questions"} : Stored'[f] = Stored[f]
    BY <1>1, <1>4, StoredFields, NextStoredFields DEF Field
  <2> QED  BY <1>3, <2>1, NextStoredFields DEF Field
<1> QED  BY <1>2, <1>3, <1>5, SameStore, NextStoredFields

-------------------------------------------------------------------------------
(* The answers that end another way than in memory.                            *)

\* An answer ends while its question is absent, answered, or waiting: in the last case
\* it is written, or its INSERT fails.
LEMMA AnswerEnds ==
  ASSUME TypeOK, Clients, Data, NEW c \in Client, Step(c), pc'[c] = "idle",
         req[c].op = "answer"
  PROVE  LET s == questions[req[c].question] IN
         /\ req[c].question \in Question
         /\ \/ LockQuestion(c) /\ s = "absent"
            \/ CheckAnswer(c) /\ s = "answered"
            \/ (WriteAnswer(c) \/ WriteConflict(c)) /\ s = "waiting"
<1> DEFINE q == req[c].question
<1>1. pc[c] # "idle"
  BY DEF Step, LockQuestion, LockTask, CheckPublish, CheckAnswer, Allocate, WritePublish,
         WriteAnswer, WriteConflict, WriteDialogue, CascadeDelete
<1>2. req[c] \in Requests /\ q \in Question
  BY <1>1 DEF TypeOK, RequestShape
<1>3. CASE LockQuestion(c)
  BY <1>2, <1>3 DEF LockQuestion, Goto, TypeOK
<1>4. CASE LockTask(c)
  BY <1>4 DEF LockTask, Goto, TypeOK
<1>5. CASE CheckAnswer(c)
  <2>1. seenState[c] = "answered"
    BY <1>5 DEF CheckAnswer, Goto, TypeOK
  <2> QED
    BY <1>2, <1>5, <2>1 DEF Clients, QuestionReadStands, Answering, CheckAnswer
<1>6. CASE Allocate(c)
  <2>1. ~live
    BY <1>6 DEF Allocate, Goto, TypeOK
  <2>2. questions[q] = "waiting"
    BY <1>2, <1>6 DEF Clients, QuestionReadStands, Answering, Allocate
  <2> QED  BY <1>2, <2>1, <2>2 DEF Data, DeletedLeavesNothing
<1>7. CASE WriteAnswer(c) \/ WriteConflict(c)
  BY <1>2, <1>7
  DEF Clients, QuestionReadStands, Answering, WriteAnswer, WriteConflict
<1>8. CASE CascadeDelete(c)
  BY <1>8 DEF Clients, StatementsOfCall, CascadeDelete
<1>9. ~(CheckPublish(c) \/ WritePublish(c) \/ WriteDialogue(c))
  BY DEF CheckPublish, WritePublish, WriteDialogue
<1> QED  BY <1>2, <1>3, <1>4, <1>5, <1>6, <1>7, <1>8, <1>9 DEF Step

\* Under another key than the first answer's: no row, and what that key was used for.
LEMMA SecondAnswerGetsOwnKey ==
  ASSUME TypeOK, Clients, Data, NEW c \in Client, Step(c), pc'[c] = "idle",
         SecondAnswer(req[c])
  PROVE  ~KeyTaken(req[c]) /\ GetsOwnKey(c)
<1> DEFINE r == req[c]
<1>1. r.op = "answer"
  BY DEF SecondAnswer
<1>2. PICK e \in entries : e.req.question = r.question
  BY DEF SecondAnswer
<1>3. r.question \in Question => questions[r.question] = "answered"
  BY <1>2 DEF Data, AnsweredOnce
<1>4. CheckAnswer(c) /\ questions[r.question] = "answered" /\ r.question \in Question
  BY <1>1, <1>3, AnswerEnds
<1>5. seenState[c] = "answered" /\ UNCHANGED committed
      /\ acked' = acked \union {<<r, f.seq>> : f \in Existing(r)}
  BY <1>4 DEF CheckAnswer, Goto, TypeOK, End
<1>6. Memory!Answer(Stored, r) = Memory!Result(Stored, Stored.answers[r.question])
  BY <1>4, StoredFields DEF Memory!Answer
<1>7. Memory!Call(Stored, r).store = Stored
  BY <1>1, <1>6, CallOfOp, ResultFields
<1>8. {<<r, f.seq>> : f \in Existing(r)} = {<<r, n>> : n \in {f.seq : f \in Existing(r)}}
  OBVIOUS
<1> QED  BY <1>4, <1>5, <1>7, <1>8, StoredStays DEF GetsOwnKey, Ends, KeyTaken

\* Under a key the Supervisor has used: the INSERT fails.
LEMMA TakenKeyIsRefused ==
  ASSUME TypeOK, Clients, Data, NEW c \in Client, Step(c), pc'[c] = "idle",
         KeyTaken(req[c])
  PROVE  Ends(c, Stored, {})
<1>1. ~WriteAnswer(c)
  BY DEF KeyTaken, Existing, WriteAnswer, Insertable
<1>2. WriteConflict(c)
  BY <1>1, AnswerEnds DEF KeyTaken
<1>3. UNCHANGED committed /\ acked' = acked
  BY <1>2 DEF WriteConflict, Rollback, End
<1> QED  BY <1>3, StoredStays DEF Ends

-------------------------------------------------------------------------------
LEMMA EndAsInMemory ==
  ASSUME TypeOK, Clients, Data, Data', NEW c \in Client, Step(c), pc'[c] = "idle",
         ~KeyTaken(req[c]), ~SecondAnswer(req[c])
  PROVE  AsInMemory(c)
<1>1. ASSUME LockTask(c) PROVE FALSE
  BY <1>1 DEF LockTask, Goto, TypeOK
<1> QED
  BY <1>1, QuestionIsAbsent, CheckedAsInMemory, AnsweredAsInMemory, GoneAsInMemory,
     PublishedAsInMemory, AnswerAsInMemory, NoConflict, DialogueAsInMemory,
     DeleteAsInMemory
  DEF Step

\* However the transactions of publish, answer_question, append_dialogue and delete_task
\* interleave, wait and retry, each that is not cut off ends as the same call of
\* InMemoryStorage, on which the tests run (storage.py:107-363): the same rows, and the
\* same entry or refusal, for any clients, keys, artifacts and questions. A second answer
\* under another key, which is refused or gets what that key was used for, and an answer
\* under a taken key, which is refused, are the only calls that differ.
THEOREM TransactionsAgreeWithMemory == Spec => AgreesWithMemory
<1> DEFINE EndsRight(c) ==
             Step(c) /\ pc'[c] = "idle" =>
               CASE KeyTaken(req[c]) -> Ends(c, Stored, {})
                 [] SecondAnswer(req[c]) -> GetsOwnKey(c)
                 [] OTHER -> AsInMemory(c)
<1>1. ASSUME TypeOK, Clients, Data, Data', NEW c \in Client
      PROVE  EndsRight(c)
  <2> SUFFICES ASSUME Step(c), pc'[c] = "idle"
               PROVE  CASE KeyTaken(req[c]) -> Ends(c, Stored, {})
                        [] SecondAnswer(req[c]) -> GetsOwnKey(c)
                        [] OTHER -> AsInMemory(c)
    OBVIOUS
  <2>1. CASE KeyTaken(req[c])
    <3>1. ~SecondAnswer(req[c]) /\ Ends(c, Stored, {})
      BY <1>1, <2>1, SecondAnswerGetsOwnKey, TakenKeyIsRefused
    <3> QED  BY <2>1, <3>1, Zenon
  <2>2. CASE SecondAnswer(req[c])
    <3>1. ~KeyTaken(req[c]) /\ GetsOwnKey(c)
      BY <1>1, <2>2, SecondAnswerGetsOwnKey
    <3> QED  BY <2>2, <3>1, Zenon
  <2>3. CASE ~KeyTaken(req[c]) /\ ~SecondAnswer(req[c])
    <3>1. AsInMemory(c)
      BY <1>1, <2>3, EndAsInMemory
    <3> QED  BY <2>3, <3>1, Zenon
  <2> QED  BY <2>1, <2>2, <2>3
<1>2. TypeOK /\ Clients /\ Data /\ Data' =>
        [/\ \A c \in Client : EndsRight(c)
         /\ \A a \in Artifact :
              RegisterArtifact(a) => Stored' = Memory!RegisterArtifact(Stored, a)
         /\ \A q \in Question :
              CreateQuestion(q) => Stored' = Memory!CreateQuestion(Stored, q)]_vars
  <2> HIDE DEF EndsRight
  <2> QED  BY <1>1, ArtifactAsInMemory, QuestionAsInMemory
<1> QED
  BY <1>2, InvariantHolds, PTL DEF AgreesWithMemory
===============================================================================
