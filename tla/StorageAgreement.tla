---------------------------- MODULE StorageAgreement ----------------------------
(* Do the tests, which run on InMemoryStorage, speak for PostgreSQL? Every      *)
(* transaction of Blackboard is compared, at the statement that ends it, with   *)
(* the one step the same call is in MemoryStorage.                              *)
EXTENDS Blackboard

Memory == INSTANCE MemoryStorage

\* The committed rows, as InMemoryStorage would hold them.
Stored ==
  [live |-> live, blackboardSeq |-> blackboardSeq, dialogueSeq |-> dialogueSeq,
   entries |-> entries, artifacts |-> artifacts, messages |-> messages,
   questions |-> questions,
   answers |-> [q \in Question |->
     IF questions[q] = "answered"
     THEN (CHOOSE e \in entries : e.req.question = q).seq ELSE 0]]

\* Two calls of answer_question go another way than in memory. The one answers a
\* question that was answered under another key, as two users do who answer at once:
\* PostgreSQL looks for its own key (storage.py:724-734), InMemoryStorage returns the
\* answer there is (storage.py:310-311).
SecondAnswer(r) ==
  r.op = "answer" /\ \E e \in entries : e.req.question = r.question /\ e.req.key # r.key

\* The other answers a waiting question under a key the Supervisor has used: the
\* INSERT fails on it, and InMemoryStorage looks for none.
KeyTaken(r) ==
  r.op = "answer" /\ questions[r.question] = "waiting" /\ Existing(r) # {}

\* The committed rows become s, and the caller is told of the entries with numbers N:
\* of none when the call raises or returns no entry.
Ends(c, s, N) ==
  Stored' = s /\ acked' = acked \union {<<req[c], n>> : n \in N}

\* The call of client c does what it does in memory: the same rows, and the same
\* entry or the same refusal for the caller.
AsInMemory(c) ==
  LET m == Memory!Call(Stored, req[c]) IN Ends(c, m.store, {m.reply} \ {0})

\* A second answer stores nothing, in memory too, but its caller gets what its own
\* key was used for, or an error when that is nothing.
GetsOwnKey(c) ==
  Ends(c, Memory!Call(Stored, req[c]).store, {e.seq : e \in Existing(req[c])})

\* "Fast behavioural reference used by tests": however the transactions interleave
\* and wait for each other, a call that is not cut off ends as if it had run alone,
\* in memory, at the statement that ends it. A second answer leaves the same rows
\* and another reply; an answer under a taken key is refused and stores nothing.
AgreesWithMemory ==
  [][/\ \A c \in Client : Step(c) /\ pc'[c] = "idle" =>
          CASE KeyTaken(req[c]) -> Ends(c, Stored, {})
            [] SecondAnswer(req[c]) -> GetsOwnKey(c)
            [] OTHER -> AsInMemory(c)
     /\ \A a \in Artifact :
          RegisterArtifact(a) => Stored' = Memory!RegisterArtifact(Stored, a)
     /\ \A q \in Question :
          CreateQuestion(q) => Stored' = Memory!CreateQuestion(Stored, q)]_vars
===============================================================================
