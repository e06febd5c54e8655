------------------------ MODULE BlackboardReadersProofs ------------------------
(* Theorems about BlackboardReaders for any readers, any page size and any      *)
(* calls of the clients that write meanwhile.                                  *)
EXTENDS BlackboardReaders, BlackboardProofs, FiniteSetTheorems

USE ReadersAssumption

-------------------------------------------------------------------------------
(* The blackboard underneath.                                                  *)

\* Readers only read: with them the blackboard still behaves as Blackboard, and
\* every theorem about it holds.
LEMMA ReadersAreBlackboard == ReadersSpec => Spec
<1>1. ReadersInit => Init
  BY DEF ReadersInit
<1>2. [ReadersNext]_allVars => [Next]_vars
  BY DEF ReadersNext, allVars
<1> QED
  BY <1>1, <1>2, PTL DEF ReadersSpec, Spec

LEMMA BoardInvariant == ReadersSpec => [](TypeOK /\ Clients /\ Data)
  BY ReadersAreBlackboard, InvariantHolds, PTL

\* A deleted task never comes back, and until then the counters only grow.
LEMMA CountersGrow ==
  ASSUME TypeOK, Clients, [Next]_vars, live'
  PROVE  /\ live
         /\ blackboardSeq <= blackboardSeq'
         /\ dialogueSeq <= dialogueSeq'
<1>1. blackboardSeq \in Nat /\ dialogueSeq \in Nat
  BY DEF TypeOK
<1>2. CASE UNCHANGED committed
  BY <1>1, <1>2 DEF committed
<1>3. ASSUME NEW c \in Client, WritePublish(c) \/ WriteAnswer(c) \/ WriteDialogue(c)
      PROVE  /\ live
             /\ blackboardSeq <= blackboardSeq'
             /\ dialogueSeq <= dialogueSeq'
  <2>1. pc[c] = "write"
    BY <1>3 DEF WritePublish, WriteAnswer, WriteDialogue
  <2>2. /\ live
        /\ newSeq[c] = blackboardSeq + 1 /\ newDialogueSeq[c] = dialogueSeq + 1
    BY <2>1 DEF Clients, AllocationStands
  <2>3. CASE WritePublish(c)
    BY <1>1, <2>2, <2>3 DEF WritePublish, InsertEntry
  <2>4. CASE WriteAnswer(c)
    BY <1>1, <2>2, <2>4 DEF WriteAnswer, InsertEntry, InsertMessage
  <2>5. CASE WriteDialogue(c)
    BY <1>1, <2>2, <2>5 DEF WriteDialogue, InsertMessage
  <2> QED
    BY <1>3, <2>3, <2>4, <2>5
<1>4. ASSUME NEW c \in Client, CascadeDelete(c) PROVE FALSE
  BY <1>4 DEF CascadeDelete
<1>5. ASSUME \/ \E a \in Artifact : RegisterArtifact(a)
             \/ \E q \in Question : CreateQuestion(q)
      PROVE  /\ live
             /\ blackboardSeq <= blackboardSeq'
             /\ dialogueSeq <= dialogueSeq'
  <2>1. live /\ UNCHANGED <<blackboardSeq, dialogueSeq>>
    BY <1>5 DEF RegisterArtifact, CreateQuestion, ReferencesTask
  <2> QED
    BY <1>1, <2>1
<1> QED
  BY <1>1, <1>2, <1>3, <1>4, <1>5, CommitsOrNot DEF Commits

\* The numbers of the rows are an interval.
LEMMA NumberedInterval ==
  ASSUME NEW rows, NEW last, Numbered(rows, last)
  PROVE  {x.seq : x \in rows} = 1..last
  BY DEF Numbered

-------------------------------------------------------------------------------
(* What a page holds.                                                          *)

\* The last number a page of the interval 1..last reaches.
Reach(last, after) == IF last <= after + PageSize THEN last ELSE after + PageSize

\* The numbers up to one of an interval are as many as the way there.
LEMMA CountUpTo ==
  ASSUME NEW after \in Nat, NEW n \in Nat, after < n
  PROVE  /\ IsFiniteSet((after + 1)..n)
         /\ Cardinality((after + 1)..n) = n - after
  BY FS_Interval

\* A page of rows numbered without gaps is the interval after the cursor.
LEMMA PageIsInterval ==
  ASSUME NEW last \in Nat, NEW after \in Nat
  PROVE  Page(1..last, after) = (after + 1)..Reach(last, after)
<1>1. ASSUME NEW n \in 1..last, n > after
      PROVE  Cardinality({m \in 1..last : after < m /\ m <= n}) = n - after
  <2>1. {m \in 1..last : after < m /\ m <= n} = (after + 1)..n
    OBVIOUS
  <2>2. n \in Nat /\ after < n
    BY <1>1
  <2> QED
    BY <2>1, <2>2, CountUpTo
<1>2. Page(1..last, after) = {n \in 1..last : n > after /\ n - after <= PageSize}
  BY <1>1 DEF Page
<1>3. ASSUME NEW n
      PROVE  n \in 1..last /\ n > after /\ n - after <= PageSize
               <=> n \in (after + 1)..Reach(last, after)
  <2>1. CASE n \in Int
    BY <2>1 DEF Reach
  <2>2. CASE n \notin Int
    BY <2>2 DEF Reach
  <2> QED
    BY <2>1, <2>2
<1> QED
  BY <1>2, <1>3

LEMMA PageSizeOf ==
  ASSUME NEW last \in Nat, NEW after \in Nat, after <= last
  PROVE  /\ Reach(last, after) \in Nat
         /\ after <= Reach(last, after) /\ Reach(last, after) <= last
         /\ IsFiniteSet(Page(1..last, after))
         /\ Cardinality(Page(1..last, after)) = Reach(last, after) - after
<1>1. /\ Reach(last, after) \in Nat
      /\ after <= Reach(last, after) /\ Reach(last, after) <= last
  BY DEF Reach
<1>2. CASE after = Reach(last, after)
  <2>1. (after + 1)..Reach(last, after) = {}
    BY <1>2
  <2> QED
    BY <1>1, <1>2, <2>1, PageIsInterval, FS_EmptySet
<1>3. CASE after < Reach(last, after)
  BY <1>1, <1>3, PageIsInterval, CountUpTo
<1> QED
  BY <1>1, <1>2, <1>3

LEMMA MaxIs ==
  ASSUME NEW S \in SUBSET Nat, NEW x \in S, \A y \in S : x >= y
  PROVE  Max(S) = x
<1>1. \E z \in S : \A y \in S : z >= y
  OBVIOUS
<1>2. Max(S) \in S /\ \A y \in S : Max(S) >= y
  BY <1>1 DEF Max
<1>3. Max(S) >= x /\ x >= Max(S) /\ Max(S) \in Nat /\ x \in Nat
  BY <1>2
<1> QED
  BY <1>3

\* The cursor after a page: its last number, or unchanged when it is empty.
LEMMA CursorAfterPage ==
  ASSUME NEW last \in Nat, NEW after \in Nat, after <= last
  PROVE  LastOf(Page(1..last, after), after) = Reach(last, after)
<1> DEFINE S == ((after + 1)..Reach(last, after)) \union {after}
<1>1. /\ Reach(last, after) \in Nat /\ after <= Reach(last, after)
  BY PageSizeOf
<1>2. S \in SUBSET Nat /\ Reach(last, after) \in S /\ \A y \in S : Reach(last, after) >= y
  BY <1>1
<1>3. Max(S) = Reach(last, after)
  <2> HIDE DEF S
  <2> QED
    BY <1>2, MaxIs
<1> QED
  BY <1>3, PageIsInterval DEF LastOf

\* A page sent in order is its numbers one after the other.
LEMMA OrderedInterval ==
  ASSUME NEW after \in Nat, NEW to \in Nat, after < to
  PROVE  Ordered((after + 1)..to) = [i \in 1..(to - after) |-> after + i]
<1> DEFINE page == (after + 1)..to
<1>1. Cardinality(page) = to - after
  BY CountUpTo
<1>2. ASSUME NEW n \in page PROVE Cardinality({m \in page : m <= n}) = n - after
  <2>1. {m \in page : m <= n} = (after + 1)..n
    OBVIOUS
  <2>2. n \in Nat /\ after < n
    OBVIOUS
  <2> QED
    BY <2>1, <2>2, CountUpTo
<1>3. ASSUME NEW i \in 1..(to - after)
      PROVE  (CHOOSE n \in page : Cardinality({m \in page : m <= n}) = i) = after + i
  <2>1. after + i \in page
    OBVIOUS
  <2>2. \A n \in page : Cardinality({m \in page : m <= n}) = i <=> n = after + i
    BY <1>2
  <2> HIDE DEF page
  <2> QED
    BY <2>1, <2>2
<1> HIDE DEF page
<1>4. Ordered(page) = [i \in 1..(to - after) |->
                        CHOOSE n \in page : Cardinality({m \in page : m <= n}) = i]
  BY <1>1 DEF Ordered
<1>5. Ordered(page) = [i \in 1..(to - after) |-> after + i]
  BY <1>3, <1>4
<1> QED
  BY <1>5 DEF page

-------------------------------------------------------------------------------
(* Types.                                                                      *)

\* The numbers of the rows a reader may be given.
LEMMA RowNumbers ==
  ASSUME Data
  PROVE  /\ {e.seq : e \in entries} = 1..blackboardSeq
         /\ {m.seq : m \in messages} = 1..dialogueSeq
  BY NumberedInterval DEF Data, GaplessSequences

LEMMA PageType ==
  ASSUME NEW last \in Nat, NEW after \in Nat
  PROVE  /\ Page(1..last, after) \in SUBSET Nat
         /\ Cardinality(Page(1..last, after)) \in Nat
         /\ LastOf(Page(1..last, after), after) \in Nat
<1>1. CASE after <= last
  <2> DEFINE to == Reach(last, after)
  <2>1. /\ to \in Nat /\ after <= to
        /\ Page(1..last, after) = (after + 1)..to
        /\ Cardinality(Page(1..last, after)) = to - after
        /\ LastOf(Page(1..last, after), after) = to
    BY <1>1, PageIsInterval, PageSizeOf, CursorAfterPage
  <2> HIDE DEF to
  <2> QED
    BY <2>1
<1>2. CASE after > last
  <2>1. Page(1..last, after) = {}
    BY <1>2 DEF Page
  <2>2. Max({after}) = after
    BY MaxIs
  <2>3. LastOf({}, after) = Max({after})
    BY DEF LastOf
  <2> QED
    BY <2>1, <2>2, <2>3, FS_EmptySet
<1> QED
  BY <1>1, <1>2

\* A page that holds something begins right after the cursor.
LEMMA StreamPage ==
  ASSUME TypeOK, Data, streamCursor \in Nat, StreamPoll, NEW to,
         to = Reach(dialogueSeq, streamCursor)
  PROVE  /\ to \in Nat /\ streamCursor < to /\ to <= dialogueSeq
         /\ streamed' = streamed \o [i \in 1..(to - streamCursor) |-> streamCursor + i]
         /\ streamCursor' = to
<1> DEFINE page == Page(1..dialogueSeq, streamCursor)
<1>1. /\ page # {}
      /\ streamed' = streamed \o Ordered(page)
      /\ streamCursor' = LastOf(page, streamCursor)
  BY RowNumbers DEF StreamPoll
<1>2. dialogueSeq \in Nat
  BY DEF TypeOK
<1>3. streamCursor < dialogueSeq
  <2>1. PICK n \in page : TRUE
    BY <1>1
  <2>2. n \in 1..dialogueSeq /\ n > streamCursor
    BY <2>1 DEF Page
  <2> QED
    BY <1>2, <2>2
<1>4. to \in Nat /\ streamCursor < to /\ to <= dialogueSeq
  BY <1>2, <1>3 DEF Reach
<1>5. page = (streamCursor + 1)..to
  BY <1>2, PageIsInterval
<1>6. Ordered(page) = [i \in 1..(to - streamCursor) |-> streamCursor + i]
  BY <1>4, <1>5, OrderedInterval
<1>7. LastOf(page, streamCursor) = to
  BY <1>2, <1>3, CursorAfterPage
<1> QED
  BY <1>1, <1>4, <1>6, <1>7

\* The readers' variables keep their types, whatever is written meanwhile.
THEOREM ReadersTypeCorrect == ReadersSpec => []ReadersTypeOK
<1>1. ReadersInit => ReadersTypeOK
  <2> SUFFICES ASSUME ReadersInit PROVE ReadersTypeOK
    OBVIOUS
  <2>1. [latest |-> 0, short |-> FALSE] \in [latest : Nat, short : BOOLEAN]
    OBVIOUS
  <2> QED
    BY <2>1 DEF ReadersInit, ReadersTypeOK
<1>2. TypeOK /\ Data /\ ReadersTypeOK /\ [ReadersNext]_allVars => ReadersTypeOK'
  <2> SUFFICES ASSUME TypeOK, Data, ReadersTypeOK, [ReadersNext]_allVars
               PROVE  ReadersTypeOK'
    OBVIOUS
  <2>1. CASE UNCHANGED readerVars
    BY <2>1 DEF readerVars, ReadersTypeOK
  <2>2. ASSUME NEW r \in Reader, SyncTask(r) PROVE ReadersTypeOK'
    BY <2>2 DEF SyncTask, ReadersTypeOK, TypeOK
  <2>3. ASSUME NEW r \in Reader, SyncEntries(r) PROVE ReadersTypeOK'
    <3> DEFINE page == Page(1..blackboardSeq, cursor[r])
               answer == [latest |-> latest[r], short |-> Cardinality(page) < PageSize]
    <3>1. /\ latest[r] # None
          /\ got' = [got EXCEPT ![r] = @ \union page]
          /\ cursor' = [cursor EXCEPT ![r] = LastOf(page, cursor[r])]
          /\ reply' = [reply EXCEPT ![r] = answer]
          /\ latest' = [latest EXCEPT ![r] = None]
          /\ UNCHANGED <<streamed, streamCursor>>
      BY <2>3, RowNumbers DEF SyncEntries
    <3>2. page \in SUBSET Nat /\ LastOf(page, cursor[r]) \in Nat
      BY PageType DEF TypeOK, ReadersTypeOK
    <3>3. latest[r] \in Nat
      BY <3>1 DEF ReadersTypeOK
    <3>4. answer \in [latest : Nat, short : BOOLEAN]
      <4>1. \A x \in Nat, b \in BOOLEAN :
              [latest |-> x, short |-> b] \in [latest : Nat, short : BOOLEAN]
        OBVIOUS
      <4>2. (Cardinality(page) < PageSize) \in BOOLEAN
        OBVIOUS
      <4> QED
        BY <3>3, <4>1, <4>2, Zenon
    <3> HIDE DEF page, answer
    <3>5. reply' \in [Reader -> [latest : Nat, short : BOOLEAN]]
      BY <3>1, <3>4 DEF ReadersTypeOK
    <3> QED
      BY <3>1, <3>2, <3>5 DEF ReadersTypeOK
  <2>4. CASE StreamPoll
    <3> DEFINE to == Reach(dialogueSeq, streamCursor)
               sent == [i \in 1..(to - streamCursor) |-> streamCursor + i]
    <3>1. streamCursor \in Nat /\ streamed \in Seq(Nat)
      BY DEF ReadersTypeOK
    <3>2. /\ to \in Nat /\ streamCursor < to
          /\ streamed' = streamed \o sent /\ streamCursor' = to
      BY <2>4, <3>1, StreamPage
    <3>3. sent \in Seq(Nat)
      BY <3>1, <3>2
    <3> HIDE DEF sent, to
    <3>4. streamed' \in Seq(Nat)
      BY <3>1, <3>2, <3>3
    <3> QED
      BY <2>4, <3>2, <3>4 DEF StreamPoll, ReadersTypeOK
  <2> QED
    BY <2>1, <2>2, <2>3, <2>4 DEF ReadersNext, allVars
<1> QED
  BY <1>1, <1>2, BoardInvariant, PTL DEF ReadersSpec

-------------------------------------------------------------------------------
(* What the readers have been given.                                           *)

\* The inductive invariant behind both properties of sync: while the task is
\* there, no reader is ahead of the counter, and it has all it passed.
ReaderInv ==
  live => \A r \in Reader : /\ cursor[r] <= blackboardSeq
                            /\ got[r] = 1..cursor[r]
                            /\ latest[r] # None => latest[r] <= blackboardSeq

\* A second statement gives the next page of the interval.
LEMMA SyncPage ==
  ASSUME TypeOK, Data, ReadersTypeOK, NEW r \in Reader, SyncEntries(r),
         cursor[r] <= blackboardSeq, NEW to, to = Reach(blackboardSeq, cursor[r])
  PROVE  /\ to \in Nat /\ cursor[r] <= to /\ to <= blackboardSeq
         /\ got' = [got EXCEPT ![r] = @ \union (cursor[r] + 1)..to]
         /\ cursor' = [cursor EXCEPT ![r] = to]
         /\ reply' = [reply EXCEPT ![r] = [latest |-> latest[r],
                                           short |-> to - cursor[r] < PageSize]]
<1> DEFINE page == Page(1..blackboardSeq, cursor[r])
<1>1. /\ got' = [got EXCEPT ![r] = @ \union page]
      /\ cursor' = [cursor EXCEPT ![r] = LastOf(page, cursor[r])]
      /\ reply' = [reply EXCEPT ![r] = [latest |-> latest[r],
                                        short |-> Cardinality(page) < PageSize]]
  BY RowNumbers DEF SyncEntries
<1>2. blackboardSeq \in Nat /\ cursor[r] \in Nat
  BY DEF TypeOK, ReadersTypeOK
<1>3. page = (cursor[r] + 1)..to /\ LastOf(page, cursor[r]) = to
  BY <1>2, PageIsInterval, CursorAfterPage
<1>4. /\ Cardinality(page) = to - cursor[r]
      /\ to \in Nat /\ cursor[r] <= to /\ to <= blackboardSeq
  BY <1>2, PageSizeOf
<1> HIDE DEF page
<1> QED
  BY <1>1, <1>3, <1>4

LEMMA ReaderStep ==
  ASSUME TypeOK, Clients, Data, ReadersTypeOK, ReaderInv, [ReadersNext]_allVars
  PROVE  ReaderInv'
<1> SUFFICES ASSUME live', NEW r \in Reader
             PROVE  /\ cursor'[r] <= blackboardSeq'
                    /\ got'[r] = 1..cursor'[r]
                    /\ latest'[r] # None => latest'[r] <= blackboardSeq'
  BY DEF ReaderInv
<1>1. [Next]_vars
  BY DEF ReadersNext, allVars
<1>2. live /\ blackboardSeq <= blackboardSeq'
  BY <1>1, CountersGrow
<1>3. /\ cursor[r] <= blackboardSeq /\ got[r] = 1..cursor[r]
      /\ latest[r] # None => latest[r] <= blackboardSeq /\ latest[r] \in Nat
      /\ cursor[r] \in Nat /\ blackboardSeq \in Nat /\ blackboardSeq' \in Nat
  <2>1. blackboardSeq' \in Nat
    BY <1>1, NextType DEF TypeOK
  <2> QED
    BY <1>2, <2>1 DEF ReaderInv, ReadersTypeOK, TypeOK
<1>4. CASE UNCHANGED <<latest, cursor, got>>
  BY <1>2, <1>3, <1>4
<1>5. ASSUME NEW s \in Reader, SyncTask(s), UNCHANGED vars
      PROVE  /\ cursor'[r] <= blackboardSeq'
             /\ got'[r] = 1..cursor'[r]
             /\ latest'[r] # None => latest'[r] <= blackboardSeq'
  BY <1>3, <1>5 DEF SyncTask, ReadersTypeOK, vars, committed
<1>6. ASSUME NEW s \in Reader, SyncEntries(s), UNCHANGED vars
      PROVE  /\ cursor'[r] <= blackboardSeq'
             /\ got'[r] = 1..cursor'[r]
             /\ latest'[r] # None => latest'[r] <= blackboardSeq'
  <2>1. blackboardSeq' = blackboardSeq /\ latest' = [latest EXCEPT ![s] = None]
    BY <1>6 DEF vars, committed, SyncEntries
  <2>2. CASE s = r
    <3> DEFINE to == Reach(blackboardSeq, cursor[r])
    <3>1. /\ to \in Nat /\ cursor[r] <= to /\ to <= blackboardSeq
          /\ got' = [got EXCEPT ![r] = @ \union (cursor[r] + 1)..to]
          /\ cursor' = [cursor EXCEPT ![r] = to]
      BY <1>3, <1>6, <2>2, SyncPage
    <3> HIDE DEF to
    <3>2. cursor'[r] = to /\ got'[r] = got[r] \union (cursor[r] + 1)..to
      BY <3>1 DEF ReadersTypeOK
    <3>3. (1..cursor[r]) \union ((cursor[r] + 1)..to) = 1..to
      BY <1>3, <3>1
    <3> QED
      BY <1>3, <2>1, <2>2, <3>1, <3>2, <3>3 DEF ReadersTypeOK
  <2>3. CASE s # r
    BY <1>3, <1>6, <2>1, <2>3 DEF SyncEntries, ReadersTypeOK
  <2> QED
    BY <2>2, <2>3
<1> QED
  BY <1>4, <1>5, <1>6 DEF ReadersNext, allVars, readerVars, StreamPoll

LEMMA ReaderInvHolds == ReadersSpec => []ReaderInv
<1>1. ReadersInit => ReaderInv
  BY DEF ReadersInit, Init, ReaderInv
<1>2. TypeOK /\ Clients /\ Data /\ ReadersTypeOK /\ ReaderInv /\ [ReadersNext]_allVars
        => ReaderInv'
  BY ReaderStep
<1> QED
  BY <1>1, <1>2, BoardInvariant, ReadersTypeCorrect, PTL DEF ReadersSpec

\* A reader that reads on after the last entry it was given has been given every
\* entry up to there: numbers are committed in order, so none turns up later
\* behind the cursor.
THEOREM NothingMissed == ReadersSpec => []ReaderMissesNothing
<1>1. TypeOK /\ Data /\ ReadersTypeOK /\ ReaderInv => ReaderMissesNothing
  <2> SUFFICES ASSUME TypeOK, Data, ReadersTypeOK, ReaderInv, live, NEW r \in Reader
               PROVE  got[r] = {e.seq : e \in entries} \intersect 1..cursor[r]
    BY DEF ReaderMissesNothing
  <2>1. /\ cursor[r] <= blackboardSeq /\ got[r] = 1..cursor[r]
        /\ cursor[r] \in Nat /\ blackboardSeq \in Nat
    BY DEF ReaderInv, ReadersTypeOK, TypeOK
  <2>2. (1..blackboardSeq) \intersect (1..cursor[r]) = 1..cursor[r]
    BY <2>1
  <2> QED
    BY <2>1, <2>2, RowNumbers
<1> QED
  BY <1>1, BoardInvariant, ReadersTypeCorrect, ReaderInvHolds, PTL

\* When sync returns a short page the reader has every entry up to the latest_seq
\* of the same answer.
THEOREM ShortPageIsAll == ReadersSpec => []ShortPageReachesLatest
<1>1. ReadersInit => ShortPageReachesLatest
  BY DEF ReadersInit, ShortPageReachesLatest
<1>2. TypeOK /\ Clients /\ Data /\ ReadersTypeOK /\ ReaderInv
        /\ ShortPageReachesLatest /\ [ReadersNext]_allVars
          => ShortPageReachesLatest'
  <2> SUFFICES ASSUME TypeOK, Clients, Data, ReadersTypeOK, ReaderInv,
                      ShortPageReachesLatest, [ReadersNext]_allVars,
                      live', NEW r \in Reader, reply'[r].short
               PROVE  reply'[r].latest <= cursor'[r]
    BY DEF ShortPageReachesLatest
  <2>1. live
    <3>1. [Next]_vars
      BY DEF ReadersNext, allVars
    <3> QED
      BY <3>1, CountersGrow
  <2>2. CASE UNCHANGED <<reply, cursor>>
    BY <2>1, <2>2 DEF ShortPageReachesLatest
  <2>3. ASSUME NEW s \in Reader, SyncEntries(s) PROVE reply'[r].latest <= cursor'[r]
    <3>1. CASE s # r
      BY <2>1, <2>3, <3>1 DEF SyncEntries, ReadersTypeOK, ShortPageReachesLatest
    <3>2. CASE s = r
      <4> DEFINE to == Reach(blackboardSeq, cursor[r])
      <4>1. /\ cursor[r] <= blackboardSeq /\ latest[r] <= blackboardSeq
            /\ cursor[r] \in Nat /\ latest[r] \in Nat /\ blackboardSeq \in Nat
        BY <2>1, <2>3, <3>2 DEF SyncEntries, ReaderInv, ReadersTypeOK, TypeOK
      <4>2. /\ cursor' = [cursor EXCEPT ![r] = to]
            /\ reply' = [reply EXCEPT ![r] = [latest |-> latest[r],
                                              short |-> to - cursor[r] < PageSize]]
        BY <2>3, <3>2, <4>1, SyncPage
      <4>3. to - cursor[r] < PageSize => to = blackboardSeq
        BY <4>1 DEF Reach
      <4> HIDE DEF to
      <4>4. cursor'[r] = to /\ reply'[r].latest = latest[r]
        BY <4>2 DEF ReadersTypeOK
      <4>5. to - cursor[r] < PageSize
        <5>1. reply'[r].short = (to - cursor[r] < PageSize)
          BY <4>2, Zenon DEF ReadersTypeOK
        <5> QED
          BY <5>1
      <4> QED
        BY <4>1, <4>3, <4>4, <4>5
    <3> QED
      BY <3>1, <3>2
  <2> QED
    BY <2>2, <2>3 DEF ReadersNext, allVars, readerVars, SyncTask, StreamPoll
<1> QED
  BY <1>1, <1>2, BoardInvariant, ReadersTypeCorrect, ReaderInvHolds, PTL
     DEF ReadersSpec

-------------------------------------------------------------------------------
(* What the stream has sent.                                                   *)

\* The stream sends every committed message up to its cursor, in order and once,
\* also when the task is deleted under it.
THEOREM StreamKeepsOrder == ReadersSpec => []StreamInOrder
<1>1. ReadersInit => StreamInOrder
  BY DEF ReadersInit, StreamInOrder
<1>2. TypeOK /\ Data /\ ReadersTypeOK /\ StreamInOrder /\ [ReadersNext]_allVars
        => StreamInOrder'
  <2> SUFFICES ASSUME TypeOK, Data, ReadersTypeOK, StreamInOrder,
                      [ReadersNext]_allVars
               PROVE  StreamInOrder'
    OBVIOUS
  <2>1. CASE UNCHANGED <<streamed, streamCursor>>
    BY <2>1 DEF StreamInOrder
  <2>2. CASE StreamPoll
    <3> DEFINE to == Reach(dialogueSeq, streamCursor)
               sent == [i \in 1..(to - streamCursor) |-> streamCursor + i]
    <3>1. streamCursor \in Nat
      BY DEF ReadersTypeOK
    <3>2. /\ to \in Nat /\ streamCursor < to
          /\ streamed' = streamed \o sent /\ streamCursor' = to
      BY <2>2, <3>1, StreamPage
    <3>3. /\ streamed = [n \in 1..streamCursor |-> n]
          /\ streamed \in Seq(Nat) /\ Len(streamed) = streamCursor
      BY <3>1 DEF StreamInOrder, ReadersTypeOK
    <3> HIDE DEF to
    <3>4. sent \in Seq(Nat) /\ Len(sent) = to - streamCursor
      BY <3>1, <3>2
    <3>5. \A i \in 1..(to - streamCursor) : sent[i] = streamCursor + i
      OBVIOUS
    <3> HIDE DEF sent
    <3>6. /\ streamed \o sent \in Seq(Nat) /\ Len(streamed \o sent) = to
          /\ \A n \in 1..to : (streamed \o sent)[n] = n
      BY <3>1, <3>2, <3>3, <3>4, <3>5
    <3>7. streamed \o sent = [n \in 1..to |-> n]
      <4> DEFINE all == streamed \o sent
      <4>1. all \in Seq(Nat) /\ Len(all) = to /\ \A n \in 1..to : all[n] = n
        BY <3>6
      <4> HIDE DEF all
      <4>2. all = [n \in 1..Len(all) |-> all[n]]
        BY <4>1
      <4> QED
        BY <4>1, <4>2 DEF all
    <3> QED
      BY <3>2, <3>7 DEF StreamInOrder
  <2> QED
    BY <2>1, <2>2 DEF ReadersNext, allVars, readerVars, SyncTask, SyncEntries
<1> QED
  BY <1>1, <1>2, BoardInvariant, ReadersTypeCorrect, PTL DEF ReadersSpec
===============================================================================
