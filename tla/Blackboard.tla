------------------------------ MODULE Blackboard ------------------------------
(* The shared blackboard of one task as PostgresStorage keeps it: the counters *)
(* of the task row, the entries, artifacts, questions and dialogue messages,   *)
(* and the transactions of the control plane's clients (MCP calls of the       *)
(* workers, HTTP handlers, the Supervisor), each one statement per step, with  *)
(* the locks the statements take: the per-task advisory lock of _lock, the     *)
(* row lock of UPDATE/DELETE task_runs, and the row lock of SELECT ... FOR     *)
(* UPDATE on a question. Other transactions see only committed data (READ      *)
(* COMMITTED, asyncpg's default). A connection may be lost at any step.        *)
(*                                                                             *)
(* An entry's UUID is identified with its sequence number; the order of the    *)
(* rows a DELETE cascades over is not modelled (it locks all of them at once). *)
EXTENDS Integers, FiniteSets

CONSTANTS Client,       \* the database sessions of the control plane
          Worker,       \* agent ids of the workers
          Key,          \* idempotency keys
          Artifact,     \* evidence files a worker may register
          Question,     \* questions that may be put to the user
          Requests,     \* the calls clients make, a subset of Request
          MaxDialogue,  \* bound: no append_dialogue starts beyond it
          None          \* "no client", "no question"

Actor == Worker \union {"supervisor", "reporter", "user", "system"}

Kind == {"user_prompt", "user_file", "supervisor_advice", "intel", "finding",
         "qa", "final_candidate"}

\* A call of the storage interface. Only "publish" and "answer" write an entry;
\* the other operations use none of the fields that describe one.
Request == [op : {"publish", "answer", "dialogue", "delete"},
            actor : Actor, kind : Kind, key : Key, refs : SUBSET Artifact,
            cites : SUBSET Nat, question : Question \union {None}]

\* answer_question inserts a qa entry on behalf of asked_by, the Supervisor, and
\* only a final_candidate has finding_ids.
RequestShape(r) ==
  /\ r.op = "answer" => /\ r.actor = "supervisor" /\ r.kind = "qa"
                        /\ r.question \in Question
  /\ r.op # "answer" => r.question = None
  /\ r.kind # "final_candidate" => r.cites = {}
  /\ r.kind \notin {"intel", "finding"} => r.refs = {}

ASSUME BlackboardAssumption ==
  /\ Requests \subseteq Request
  /\ \A r \in Requests : RequestShape(r)
  /\ None \notin Question
  /\ None \notin Client
  /\ MaxDialogue \in Nat

VARIABLES
  live,          \* the task row exists
  blackboardSeq, \* task_runs.blackboard_seq
  dialogueSeq,   \* task_runs.dialogue_seq
  entries,       \* blackboard_entries (with their artifact links)
  artifacts,     \* artifacts
  messages,      \* dialogue_messages
  questions,     \* state of each pending_questions row, "absent" without one
  taskLock,      \* holder of the task's advisory transaction lock
  rowLock,       \* holder of the lock on the task row
  questionLock,  \* holder of the lock on each question row
  pc, req,       \* each client's next statement and the call it serves
  newSeq, newDialogueSeq, \* values RETURNING gave the client, uncommitted
  seenState,     \* what the client's FOR UPDATE read of its question
  acked          \* history: the (call, entry) pairs clients were told about

committed == <<live, blackboardSeq, dialogueSeq, entries, artifacts, messages,
               questions>>
locks == <<taskLock, rowLock, questionLock>>
local == <<req, newSeq, newDialogueSeq, seenState>>
vars == <<committed, locks, pc, local, acked>>

Entry == [seq : Nat, req : Requests]
Message == [seq : Nat, question : Question \union {None}]

\* The statements between BEGIN and COMMIT.
InTransaction == {"question", "lock", "check", "allocate", "write", "cascade"}

TypeOK ==
  /\ live \in BOOLEAN
  /\ blackboardSeq \in Nat
  /\ dialogueSeq \in Nat
  /\ entries \subseteq Entry
  /\ artifacts \subseteq Artifact
  /\ messages \subseteq Message
  /\ questions \in [Question -> {"absent", "waiting", "answered"}]
  /\ taskLock \in Client \union {None}
  /\ rowLock \in Client \union {None}
  /\ questionLock \in [Question -> Client \union {None}]
  /\ pc \in [Client -> InTransaction \union {"idle"}]
  /\ req \in [Client -> Requests \union {None}]
  /\ \A c \in Client : pc[c] # "idle" => req[c] \in Requests
  /\ \A c \in Client : pc[c] = "question" => req[c].op = "answer"
  /\ newSeq \in [Client -> Nat]
  /\ newDialogueSeq \in [Client -> Nat]
  /\ seenState \in [Client -> {"absent", "waiting", "answered"}]
  /\ acked \subseteq Requests \X Nat

Init ==
  /\ live = TRUE
  /\ blackboardSeq = 0
  /\ dialogueSeq = 0
  /\ entries = {}
  /\ artifacts = {}
  /\ messages = {}
  /\ questions = [q \in Question |-> "absent"]
  /\ taskLock = None
  /\ rowLock = None
  /\ questionLock = [q \in Question |-> None]
  /\ pc = [c \in Client |-> "idle"]
  /\ req = [c \in Client |-> None]
  /\ newSeq = [c \in Client |-> 0]
  /\ newDialogueSeq = [c \in Client |-> 0]
  /\ seenState = [c \in Client |-> "absent"]
  /\ acked = {}

-------------------------------------------------------------------------------
\* What the statements test.

Role(a) == IF a \in Worker THEN "worker" ELSE a

\* _WRITE_POLICY and PublishRequest.check_contract: what Blackboard.publish lets
\* through to the storage.
WritePolicy(role) ==
  CASE role = "user" -> {"user_prompt", "user_file"}
    [] role = "system" -> {"user_prompt", "user_file"}
    [] role = "supervisor" -> {"supervisor_advice"}
    [] role = "reporter" -> {}
    [] role = "worker" -> {"intel", "finding", "final_candidate"}

Accepted(r) ==
  r.op = "publish" =>
    /\ r.kind \in WritePolicy(Role(r.actor))
    /\ r.kind = "finding" => r.refs # {}
    /\ r.kind = "final_candidate" => r.cites # {}

\* Mutation: a constraint and lookup that also compare the kind.
SameKeyAndKind(r, s) == r.actor = s.actor /\ r.key = s.key /\ r.kind = s.kind

\* UNIQUE (task_id, actor_id, idempotency_key): the columns the idempotency
\* lookup and the constraint compare.
SameKey(r, s) == r.actor = s.actor /\ r.key = s.key

\* Mutation: the lookup forgets actor_id.
ExistingForAnyActor(r) == {e \in entries : e.req.key = r.key}

Existing(r) == {e \in entries : SameKey(e.req, r)}

\* Mutation: the artifact references are stored unchecked.
EvidenceUnchecked(r) == TRUE

EvidenceAvailable(r) == r.refs \subseteq artifacts

IsFinding(n) == \E e \in entries : e.seq = n /\ e.req.kind = "finding"

\* Mutation: any entry of the task may be cited.
CitesEntries(r) == r.cites \subseteq {e.seq : e \in entries}

CitesFindings(r) == \A n \in r.cites : IsFinding(n)

\* The INSERT violates neither UNIQUE constraint.
Insertable(r, n) == \A e \in entries : e.seq # n /\ ~SameKey(e.req, r)

-------------------------------------------------------------------------------
\* Statements.

Goto(c, label) == pc' = [pc EXCEPT ![c] = label]

\* Mutation: a session-level pg_advisory_lock, which no COMMIT releases.
ReleaseRowsOnly(c) ==
  /\ UNCHANGED taskLock
  /\ rowLock' = IF rowLock = c THEN None ELSE rowLock
  /\ questionLock' =
       [q \in Question |-> IF questionLock[q] = c THEN None ELSE questionLock[q]]

\* The end of a transaction releases every lock it holds, whether it commits or
\* rolls back: advisory *xact* locks are transaction-scoped too.
Release(c) ==
  /\ taskLock' = IF taskLock = c THEN None ELSE taskLock
  /\ rowLock' = IF rowLock = c THEN None ELSE rowLock
  /\ questionLock' =
       [q \in Question |-> IF questionLock[q] = c THEN None ELSE questionLock[q]]

\* Mutation: the session is handed back in the middle of the transaction.
EndInTransaction(c, told) ==
  /\ Release(c)
  /\ req' = [req EXCEPT ![c] = None]
  /\ UNCHANGED <<pc, newSeq, newDialogueSeq, seenState>>
  /\ acked' = acked \union told

\* The client is done with the transaction and forgets it; told is what it
\* learned.
End(c, told) ==
  /\ Release(c)
  /\ Goto(c, "idle")
  /\ req' = [req EXCEPT ![c] = None]
  /\ newSeq' = [newSeq EXCEPT ![c] = 0]
  /\ newDialogueSeq' = [newDialogueSeq EXCEPT ![c] = 0]
  /\ seenState' = [seenState EXCEPT ![c] = "absent"]
  /\ acked' = acked \union told

Rollback(c) == End(c, {}) /\ UNCHANGED committed

\* A client makes a call, possibly one it or another client made before: a
\* retry after a lost reply carries the same key.
Begin(c) ==
  /\ pc[c] = "idle"
  /\ \E r \in Requests :
       /\ Accepted(r)
       /\ r.op = "dialogue" => dialogueSeq < MaxDialogue
       /\ req' = [req EXCEPT ![c] = r]
       /\ Goto(c, IF r.op = "answer" THEN "question" ELSE "lock")
  /\ UNCHANGED <<committed, locks, newSeq, newDialogueSeq, seenState, acked>>

\* Mutation: SELECT without FOR UPDATE.
ReadQuestion(c) ==
  LET q == req[c].question IN
  /\ pc[c] = "question"
  /\ questions[q] # "absent"
  /\ seenState' = [seenState EXCEPT ![c] = questions[q]]
  /\ Goto(c, "lock")
  /\ UNCHANGED <<committed, locks, req, newSeq, newDialogueSeq, acked>>

\* SELECT * FROM pending_questions WHERE id=$1 FOR UPDATE
LockQuestion(c) ==
  LET q == req[c].question IN
  /\ pc[c] = "question"
  /\ questionLock[q] = None
  /\ \/ /\ questions[q] = "absent"
        /\ Rollback(c)
     \/ /\ questions[q] # "absent"
        /\ questionLock' = [questionLock EXCEPT ![q] = c]
        /\ seenState' = [seenState EXCEPT ![c] = questions[q]]
        /\ Goto(c, "lock")
        /\ UNCHANGED <<committed, taskLock, rowLock, req, newSeq, newDialogueSeq,
                       acked>>

\* Mutation: publish and the others take no advisory lock.
SkipTaskLock(c) ==
  /\ pc[c] = "lock"
  /\ Goto(c, IF req[c].op \in {"publish", "answer"} THEN "check" ELSE "allocate")
  /\ UNCHANGED <<committed, locks, local, acked>>

\* SELECT pg_advisory_xact_lock(...)
LockTask(c) ==
  /\ pc[c] = "lock"
  /\ taskLock = None
  /\ taskLock' = c
  /\ Goto(c, IF req[c].op \in {"publish", "answer"} THEN "check" ELSE "allocate")
  /\ UNCHANGED <<committed, rowLock, questionLock, local, acked>>

\* publish's lookups: a retry gets the entry it wrote; otherwise the evidence
\* must be registered and the cited findings must exist.
CheckPublish(c) ==
  LET r == req[c] IN
  /\ pc[c] = "check"
  /\ r.op = "publish"
  /\ \/ /\ Existing(r) # {}
        /\ End(c, {<<r, e.seq>> : e \in Existing(r)})
        /\ UNCHANGED committed
     \/ /\ Existing(r) = {}
        /\ ~(EvidenceAvailable(r) /\ CitesFindings(r))
        /\ Rollback(c)
     \/ /\ Existing(r) = {}
        /\ EvidenceAvailable(r)
        /\ CitesFindings(r)
        /\ Goto(c, "allocate")
        /\ UNCHANGED <<committed, locks, local, acked>>

\* answer_question's branch on the row state it read before the advisory lock.
CheckAnswer(c) ==
  LET r == req[c] IN
  /\ pc[c] = "check"
  /\ r.op = "answer"
  /\ \/ /\ seenState[c] = "answered"
        /\ End(c, {<<r, e.seq>> : e \in Existing(r)})
        /\ UNCHANGED committed
     \/ /\ seenState[c] # "answered"
        /\ Goto(c, "allocate")
        /\ UNCHANGED <<committed, locks, local, acked>>

\* Mutation: numbers come from nextval(), which no ROLLBACK undoes.
AllocateNextval(c) ==
  /\ pc[c] = "allocate"
  /\ live
  /\ blackboardSeq' = blackboardSeq + 1
  /\ newSeq' = [newSeq EXCEPT ![c] = blackboardSeq + 1]
  /\ newDialogueSeq' = [newDialogueSeq EXCEPT ![c] = dialogueSeq + 1]
  /\ Goto(c, IF req[c].op = "delete" THEN "cascade" ELSE "write")
  /\ UNCHANGED <<live, dialogueSeq, entries, artifacts, messages, questions, locks,
                 req, seenState, acked>>

\* Mutation: each session draws from its own block of cached numbers (CACHE).
AllocateFromCache(c) ==
  /\ pc[c] = "allocate"
  /\ live
  /\ \E n \in 1..4 \ {e.seq : e \in entries} : newSeq' = [newSeq EXCEPT ![c] = n]
  /\ newDialogueSeq' = [newDialogueSeq EXCEPT ![c] = dialogueSeq + 1]
  /\ Goto(c, IF req[c].op = "delete" THEN "cascade" ELSE "write")
  /\ UNCHANGED <<committed, locks, req, seenState, acked>>

\* UPDATE task_runs SET ..._seq=..._seq+1 ... RETURNING, or DELETE FROM task_runs;
\* no row means the task is gone.
Allocate(c) ==
  /\ pc[c] = "allocate"
  /\ rowLock = None
  /\ \/ ~live /\ Rollback(c)
     \/ /\ live
        /\ rowLock' = c
        /\ newSeq' = [newSeq EXCEPT ![c] = blackboardSeq + 1]
        /\ newDialogueSeq' = [newDialogueSeq EXCEPT ![c] = dialogueSeq + 1]
        /\ Goto(c, IF req[c].op = "delete" THEN "cascade" ELSE "write")
        /\ UNCHANGED <<committed, taskLock, questionLock, req, seenState, acked>>

\* The row INSERT of both writers, and the counter the same transaction bumped.
InsertEntry(c) ==
  /\ entries' = entries \union {[seq |-> newSeq[c], req |-> req[c]]}
  /\ blackboardSeq' = newSeq[c]

InsertMessage(c) ==
  /\ messages' = messages \union
                   {[seq |-> newDialogueSeq[c], question |-> req[c].question]}
  /\ dialogueSeq' = newDialogueSeq[c]

\* The INSERTs and COMMIT of publish.
WritePublish(c) ==
  /\ pc[c] = "write"
  /\ req[c].op = "publish"
  /\ Insertable(req[c], newSeq[c])
  /\ InsertEntry(c)
  /\ End(c, {<<req[c], newSeq[c]>>})
  /\ UNCHANGED <<live, dialogueSeq, artifacts, messages, questions>>

\* The INSERTs, the UPDATE of the question and COMMIT of answer_question.
WriteAnswer(c) ==
  /\ pc[c] = "write"
  /\ req[c].op = "answer"
  /\ Insertable(req[c], newSeq[c])
  /\ InsertEntry(c)
  /\ InsertMessage(c)
  /\ questions' = [questions EXCEPT ![req[c].question] = "answered"]
  /\ End(c, {<<req[c], newSeq[c]>>})
  /\ UNCHANGED <<live, artifacts>>

\* The INSERT of either violates a UNIQUE constraint: asyncpg raises, and the
\* transaction is rolled back.
WriteConflict(c) ==
  /\ pc[c] = "write"
  /\ req[c].op \in {"publish", "answer"}
  /\ ~Insertable(req[c], newSeq[c])
  /\ Rollback(c)

\* The INSERT and COMMIT of append_dialogue.
WriteDialogue(c) ==
  /\ pc[c] = "write"
  /\ req[c].op = "dialogue"
  /\ InsertMessage(c)
  /\ End(c, {})
  /\ UNCHANGED <<live, blackboardSeq, entries, artifacts, questions>>

\* ON DELETE CASCADE: waits for the locked question rows, then COMMIT.
CascadeDelete(c) ==
  /\ pc[c] = "cascade"
  /\ \A q \in Question : questionLock[q] \in {None, c}
  /\ live' = FALSE
  /\ blackboardSeq' = 0
  /\ dialogueSeq' = 0
  /\ entries' = {}
  /\ artifacts' = {}
  /\ messages' = {}
  /\ questions' = [q \in Question |-> "absent"]
  /\ End(c, {})

\* A lost connection, a cancelled request or a crash of the control plane.
Abort(c) == pc[c] # "idle" /\ Rollback(c)

\* answer_question locks the question and then the task, delete_task the task
\* and then, by cascade, the question.
LockCycle(c, d) ==
  /\ pc[c] = "lock" /\ taskLock = d
  /\ pc[d] = "cascade" /\ \E q \in Question : questionLock[q] = c

\* PostgreSQL breaks a lock cycle by aborting one of the transactions in it.
DeadlockVictim(c) ==
  /\ \E d \in Client : LockCycle(c, d) \/ LockCycle(d, c)
  /\ Rollback(c)

\* register_artifact: one autocommitted INSERT, whose foreign key needs the task
\* row and waits for a transaction that is deleting it.
ReferencesTask == live /\ \A c \in Client : pc[c] # "cascade"

RegisterArtifact(a) ==
  /\ ReferencesTask
  /\ artifacts' = artifacts \union {a}
  /\ UNCHANGED <<live, blackboardSeq, dialogueSeq, entries, messages, questions,
                 locks, pc, local, acked>>

\* create_question: one autocommitted INSERT of a row with a new id.
CreateQuestion(q) ==
  /\ ReferencesTask
  /\ questions[q] = "absent"
  /\ questions' = [questions EXCEPT ![q] = "waiting"]
  /\ UNCHANGED <<live, blackboardSeq, dialogueSeq, entries, artifacts, messages,
                 locks, pc, local, acked>>

Step(c) ==
  \/ LockQuestion(c) \/ LockTask(c)
  \/ CheckPublish(c) \/ CheckAnswer(c) \/ Allocate(c)
  \/ WritePublish(c) \/ WriteAnswer(c) \/ WriteConflict(c)
  \/ WriteDialogue(c) \/ CascadeDelete(c)

Next ==
  \/ \E c \in Client : Begin(c) \/ Step(c) \/ DeadlockVictim(c) \/ Abort(c)
  \/ \E a \in Artifact : RegisterArtifact(a)
  \/ \E q \in Question : CreateQuestion(q)

Spec == Init /\ [][Next]_vars

\* PostgreSQL grants locks in request order and detects lock cycles, so a
\* statement that is enabled again and again is eventually executed. Nothing
\* makes a client call, or lose its connection.
Fairness == \A c \in Client : SF_vars(Step(c)) /\ WF_vars(DeadlockVictim(c))

FairSpec == Spec /\ Fairness

-------------------------------------------------------------------------------
\* Properties.

\* The rows carry the numbers 1..last, each once.
Numbered(rows, last) ==
  /\ \A x \in rows : x.seq \in 1..last
  /\ \A n \in 1..last : \E x \in rows : x.seq = n
  /\ \A x, y \in rows : x.seq = y.seq => x = y

\* "PostgreSQL 用每任务 advisory transaction lock 分配黑板和对话序号": in every committed
\* state the entries of the task are numbered 1..blackboard_seq and its messages
\* 1..dialogue_seq, each number used once, whatever rolled back in between.
GaplessSequences ==
  /\ Numbered(entries, blackboardSeq)
  /\ Numbered(messages, dialogueSeq)

\* A retried call never writes a second entry: one entry per writer and key.
OneEntryPerKey ==
  \A e, f \in entries :
    e.req.actor = f.req.actor /\ e.req.key = f.req.key => e = f

\* Every entry rests on what was committed before it: its evidence is registered
\* for the task, and a final_candidate cites findings with smaller numbers.
GroundedEntries ==
  \A e \in entries :
    /\ e.req.refs \subseteq artifacts
    /\ \A n \in e.req.cites :
         n < e.seq /\ IsFinding(n)

\* "回答后问题与答案合并为一个 qa 条目": a question has one qa entry and one user message
\* once it is answered, none before, however many users answer it at once.
AnsweredOnce ==
  \A q \in Question :
    IF questions[q] = "answered"
    THEN /\ \E e \in entries : \A f \in entries : f.req.question = q <=> f = e
         /\ \E m \in messages : \A n \in messages : n.question = q <=> n = m
    ELSE /\ \A e \in entries : e.req.question # q
         /\ \A m \in messages : m.question # q

\* A publish that passed its lookups can no longer fail: what it checked still
\* holds when it inserts, so a client is told "duplicate key" by no publish.
PublishInsertable ==
  \A c \in Client :
    pc[c] = "write" /\ req[c].op = "publish" =>
      /\ live
      /\ Insertable(req[c], newSeq[c])
      /\ EvidenceAvailable(req[c])
      /\ CitesFindings(req[c])

\* What a client was told it wrote, in its first reply or after a retry, is an
\* entry of that writer and key, and stays in the log until the task is deleted.
AckedWritesStand ==
  live => \A x \in acked : \E e \in entries :
            /\ e.seq = x[2]
            /\ e.req.actor = x[1].actor
            /\ e.req.key = x[1].key

\* Committed entries are never changed or renumbered, and a new one comes after
\* all of them, until the task is deleted: what makes reading by after_seq sound.
AppendOnly ==
  [][live' => /\ entries \subseteq entries'
              /\ \A e \in entries' \ entries, f \in entries : f.seq < e.seq]_vars

\* Every call ends: no lock is held for ever, and no cycle of waits survives.
CallsEnd == \A c \in Client : pc[c] # "idle" ~> pc[c] = "idle"

-------------------------------------------------------------------------------
\* Why: the parts of the inductive invariant.

\* Client c serves an answer to question q and has locked its row.
Answering(c, q) ==
  /\ pc[c] \in {"lock", "check", "allocate", "write"}
  /\ req[c].op = "answer"
  /\ req[c].question = q

\* A lock is held by the client whose statement took it, until it ends.
LockDiscipline ==
  \A c \in Client :
    /\ pc[c] \in {"check", "allocate", "write", "cascade"} <=> taskLock = c
    /\ pc[c] \in {"write", "cascade"} <=> rowLock = c
    /\ \A q \in Question : Answering(c, q) <=> questionLock[q] = c

\* A client is only at the statements of the call it serves.
StatementsOfCall ==
  \A c \in Client :
    /\ pc[c] = "check" => req[c].op \in {"publish", "answer"}
    /\ pc[c] = "write" => req[c].op \in {"publish", "answer", "dialogue"}
    /\ pc[c] = "cascade" => req[c].op = "delete"

\* What a client read of a question under FOR UPDATE is still its state.
QuestionReadStands ==
  \A c \in Client, q \in Question :
    Answering(c, q) =>
      /\ questions[q] # "absent"
      /\ seenState[c] = questions[q]
      /\ pc[c] \in {"allocate", "write"} => questions[q] = "waiting"

\* The numbers a client was given are the next ones of the task.
AllocationStands ==
  \A c \in Client :
    /\ pc[c] \in {"write", "cascade"} => live
    /\ pc[c] = "write" => /\ newSeq[c] = blackboardSeq + 1
                          /\ newDialogueSeq[c] = dialogueSeq + 1

\* What publish looked up before it took a number still holds.
LookupStands ==
  \A c \in Client :
    pc[c] \in {"allocate", "write"} /\ req[c].op = "publish" =>
      /\ \A e \in entries : ~SameKey(e.req, req[c])
      /\ EvidenceAvailable(req[c])
      /\ CitesFindings(req[c])

\* Nothing of a deleted task is left.
DeletedLeavesNothing ==
  ~live => /\ blackboardSeq = 0 /\ dialogueSeq = 0
           /\ entries = {} /\ artifacts = {} /\ messages = {}
           /\ \A q \in Question : questions[q] = "absent"

IInv ==
  /\ TypeOK
  /\ LockDiscipline /\ StatementsOfCall /\ QuestionReadStands
  /\ AllocationStands /\ LookupStands /\ DeletedLeavesNothing
  /\ GaplessSequences /\ OneEntryPerKey /\ GroundedEntries /\ AnsweredOnce
  /\ AckedWritesStand

-------------------------------------------------------------------------------
\* The log the transactions implement.

EntryAt(n) == CHOOSE e \in entries : e.seq = n

Abstract == INSTANCE SharedLog WITH
  Content <- {r \in Requests : r.op \in {"publish", "answer"}},
  log <- [n \in 1..blackboardSeq |-> EntryAt(n).req],
  size <- blackboardSeq,
  evidence <- artifacts,
  closed <- {q \in Question : questions[q] = "answered"},
  open <- live

\* Readers can take the blackboard for one atomic log.
ImplementsSharedLog == Abstract!Spec
===============================================================================
