----------------------------- MODULE MemoryStorage -----------------------------
(* InMemoryStorage, the storage the tests and local development run on, for    *)
(* the rows of one task. Its calls await nothing that suspends, so each is one *)
(* step on the event loop: a function of what is stored and of the call.       *)
(* StorageAgreement compares the PostgreSQL transactions with it.              *)
(*                                                                             *)
(* A store is a record with the fields live, blackboardSeq, dialogueSeq,       *)
(* entries, artifacts, messages, questions and answers (the number of the      *)
(* entry that answered each question); a call is a Request of Blackboard.      *)
EXTENDS Integers

\* What a call leaves behind, and the number of the entry it returns: 0 when it
\* returns none.
Result(s, n) == [store |-> s, reply |-> n]

\* NotFoundError, FindingRejectedError or ConflictError.
Raises(s) == Result(s, 0)

\* Mutation: the idempotency lookup forgets actor.agent_id.
WrittenUnderKey(s, r) == {e \in s.entries : e.req.key = r.key}

Written(s, r) == {e \in s.entries : e.req.actor = r.actor /\ e.req.key = r.key}

\* _validate_publish: the evidence is there and what is cited are findings.
Valid(s, r) ==
  /\ r.refs \subseteq s.artifacts
  /\ r.cites \subseteq {e.seq : e \in {f \in s.entries : f.req.kind = "finding"}}

AppendEntry(s, r) ==
  [s EXCEPT !.entries = @ \union {[seq |-> s.blackboardSeq + 1, req |-> r]},
            !.blackboardSeq = @ + 1]

AppendMessage(s, q) ==
  [s EXCEPT !.messages = @ \union {[seq |-> s.dialogueSeq + 1, question |-> q]},
            !.dialogueSeq = @ + 1]

\* publish: the first entry of this writer and key, or a new one.
Publish(s, r) ==
  IF ~s.live THEN Raises(s)
  ELSE IF Written(s, r) # {}
  THEN Result(s, (CHOOSE e \in Written(s, r) : \A f \in Written(s, r) : e.seq <= f.seq).seq)
  ELSE IF Valid(s, r) THEN Result(AppendEntry(s, r), s.blackboardSeq + 1) ELSE Raises(s)

\* answer_question: a second answer gets the first one's entry, whatever its key.
Answer(s, r) ==
  LET q == r.question
      closed == [s EXCEPT !.questions[q] = "answered",
                          !.answers[q] = s.blackboardSeq + 1]
  IN CASE s.questions[q] = "absent" -> Raises(s)
       [] s.questions[q] = "answered" -> Result(s, s.answers[q])
       [] s.questions[q] = "waiting" ->
            Result(AppendMessage(AppendEntry(closed, r), q), s.blackboardSeq + 1)

AppendDialogue(s, r) ==
  IF s.live THEN Result(AppendMessage(s, r.question), 0) ELSE Raises(s)

\* delete_task takes everything that belongs to the task.
DeleteTask(s) ==
  Result([live |-> FALSE, blackboardSeq |-> 0, dialogueSeq |-> 0, entries |-> {},
          artifacts |-> {}, messages |-> {},
          questions |-> [q \in DOMAIN s.questions |-> "absent"],
          answers |-> [q \in DOMAIN s.questions |-> 0]], 0)

\* The INSERTs: without the task, or under an id that exists, they raise.
RegisterArtifact(s, a) ==
  IF s.live /\ a \notin s.artifacts THEN [s EXCEPT !.artifacts = @ \union {a}] ELSE s

CreateQuestion(s, q) ==
  IF s.live /\ s.questions[q] = "absent" THEN [s EXCEPT !.questions[q] = "waiting"] ELSE s

Call(s, r) ==
  CASE r.op = "publish" -> Publish(s, r)
    [] r.op = "answer" -> Answer(s, r)
    [] r.op = "dialogue" -> AppendDialogue(s, r)
    [] r.op = "delete" -> DeleteTask(s)
===============================================================================
