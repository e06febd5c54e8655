--------------------------- MODULE BlackboardReaders ---------------------------
(* Readers of the blackboard while Blackboard's transactions run: agents that  *)
(* call sync (two statements, no transaction around them) and read the page    *)
(* after the number they remember, and the SSE handler that streams the        *)
(* dialogue. Both pages are bounded.                                           *)
EXTENDS Blackboard, Sequences, FiniteSetsExt

CONSTANTS Reader,    \* agents that read the blackboard incrementally
          PageSize   \* limit of one list_entries / list_dialogue

ASSUME ReadersAssumption == PageSize \in Nat \ {0}

VARIABLES
  latest,     \* what each reader's get_task returned, None between syncs
  cursor,     \* the number each reader reads after
  got,        \* numbers of the entries each reader has been given
  reply,      \* the last answer of sync: its latest_seq, and whether the page
              \* was short, which tells the reader it has everything
  streamed,   \* numbers of the messages sent on the stream, in order
  streamCursor

readerVars == <<latest, cursor, got, reply, streamed, streamCursor>>
allVars == <<vars, readerVars>>

ReadersTypeOK ==
  /\ latest \in [Reader -> Nat \union {None}]
  /\ cursor \in [Reader -> Nat]
  /\ got \in [Reader -> SUBSET Nat]
  /\ reply \in [Reader -> [latest : Nat, short : BOOLEAN]]
  /\ streamed \in Seq(Nat)
  /\ streamCursor \in Nat

ReadersInit ==
  /\ Init
  /\ latest = [r \in Reader |-> None]
  /\ cursor = [r \in Reader |-> 0]
  /\ got = [r \in Reader |-> {}]
  /\ reply = [r \in Reader |-> [latest |-> 0, short |-> FALSE]]
  /\ streamed = << >>
  /\ streamCursor = 0

\* Mutation: ORDER BY seq DESC LIMIT.
NewestPage(S, after) ==
  {n \in S : n > after /\ Cardinality({m \in S : m >= n}) <= PageSize}

\* WHERE seq > after ORDER BY seq LIMIT PageSize
Page(S, after) ==
  {n \in S : n > after /\ Cardinality({m \in S : after < m /\ m <= n}) <= PageSize}

\* Mutation: an empty page loses the cursor.
LastOfNonempty(page, after) == IF page = {} THEN None ELSE Max(page)

LastOf(page, after) == Max(page \union {after})

\* The page's numbers, ascending: the n-th has n - 1 below it.
Ordered(page) ==
  [i \in 1..Cardinality(page) |->
     CHOOSE n \in page : Cardinality({m \in page : m <= n}) = i]

\* Mutation: the counter is read with the increments of open transactions.
SyncTaskDirty(r) ==
  /\ latest[r] = None
  /\ live
  /\ latest' = [latest EXCEPT ![r] =
                   Max({blackboardSeq} \union {newSeq[c] : c \in Client})]
  /\ UNCHANGED <<cursor, got, reply, streamed, streamCursor>>

\* Blackboard.sync's first statement; NotFoundError, hence no step, once the
\* task is gone.
SyncTask(r) ==
  /\ latest[r] = None
  /\ live
  /\ latest' = [latest EXCEPT ![r] = blackboardSeq]
  /\ UNCHANGED <<cursor, got, reply, streamed, streamCursor>>

\* Mutation: the reader goes on after latest_seq, not after the page it got.
SyncToLatest(r) ==
  LET page == Page({e.seq : e \in entries}, cursor[r]) IN
  /\ latest[r] # None
  /\ got' = [got EXCEPT ![r] = @ \union page]
  /\ cursor' = [cursor EXCEPT ![r] = latest[r]]
  /\ reply' = [reply EXCEPT ![r] =
                 [latest |-> latest[r], short |-> Cardinality(page) < PageSize]]
  /\ latest' = [latest EXCEPT ![r] = None]
  /\ UNCHANGED <<streamed, streamCursor>>

\* Its second statement and the answer; the agent goes on after the last entry.
SyncEntries(r) ==
  LET page == Page({e.seq : e \in entries}, cursor[r]) IN
  /\ latest[r] # None
  /\ got' = [got EXCEPT ![r] = @ \union page]
  /\ cursor' = [cursor EXCEPT ![r] = LastOf(page, cursor[r])]
  /\ reply' = [reply EXCEPT ![r] =
                 [latest |-> latest[r], short |-> Cardinality(page) < PageSize]]
  /\ latest' = [latest EXCEPT ![r] = None]
  /\ UNCHANGED <<streamed, streamCursor>>

\* Mutation: only full pages are sent.
StreamFullPages ==
  LET page == Page({m.seq : m \in messages}, streamCursor) IN
  /\ Cardinality(page) = PageSize
  /\ streamed' = streamed \o Ordered(page)
  /\ streamCursor' = LastOf(page, streamCursor)
  /\ UNCHANGED <<latest, cursor, got, reply>>

\* Mutation: the cursor jumps to task_runs.dialogue_seq.
StreamToLatest ==
  LET page == Page({m.seq : m \in messages}, streamCursor) IN
  /\ page # {}
  /\ streamed' = streamed \o Ordered(page)
  /\ streamCursor' = dialogueSeq
  /\ UNCHANGED <<latest, cursor, got, reply>>

\* One round of dialogue_stream's loop: a page, sent message by message in the
\* order of the page, each moving the cursor. An empty page changes nothing.
StreamPoll ==
  LET page == Page({m.seq : m \in messages}, streamCursor) IN
  /\ page # {}
  /\ streamed' = streamed \o Ordered(page)
  /\ streamCursor' = LastOf(page, streamCursor)
  /\ UNCHANGED <<latest, cursor, got, reply>>

ReadersNext ==
  \/ Next /\ UNCHANGED readerVars
  \/ /\ \/ \E r \in Reader : SyncTask(r) \/ SyncEntries(r)
        \/ StreamPoll
     /\ UNCHANGED vars

\* The stream's loop runs as long as the browser stays connected.
ReadersSpec ==
  ReadersInit /\ [][ReadersNext]_allVars /\ WF_allVars(StreamPoll /\ UNCHANGED vars)

-------------------------------------------------------------------------------
\* A reader that goes on after the last entry it was given has been given every
\* entry up to there, whatever commits, rolls back or waits while it reads.
ReaderMissesNothing ==
  live => \A r \in Reader : got[r] = {e.seq : e \in entries} \intersect 1..cursor[r]

\* A short page reaches the latest_seq of the same answer ("处理到 latest_seq"): sync
\* reads the counter before the entries, so it never announces more than it gives.
ShortPageReachesLatest ==
  live => \A r \in Reader : reply[r].short => reply[r].latest <= cursor[r]

\* The stream sends the committed messages up to its cursor in order, each once.
StreamInOrder == streamed = [n \in 1..streamCursor |-> n]

\* The stream catches up with the committed messages again and again, unless the
\* task is deleted.
StreamCatchesUp == []<>(streamCursor = dialogueSeq \/ ~live)
===============================================================================
