------------------------- MODULE RobotaUaPollProofs -------------------------
(***************************************************************************)
(* What the robota.ua poll guarantees for any number of cards and any page:  *)
(* the cursor passes by nothing that did not fail, and with pages in order   *)
(* and a cursor that is kept nothing is handed over twice.                   *)
(***************************************************************************)
EXTENDS RobotaUaPoll, TLAPS

-----------------------------------------------------------------------------
\* An application below x that nobody has answered for failed and was passed by.
PassedBy(x) ==
  \A a \in ours : a <= x /\ a \notin handled =>
    a \in failed \cup crowded /\ \E b \in handled : b > a

WentThrough(x) == x = 0 \/ x \in handled

\* Nothing has an id that has not been posted.
Posted ==
  /\ \A a \in ours \cup handled \cup poll.todo : a <= posted
  /\ poll.todo \subseteq ours

CursorTrue == PassedBy(cursor) /\ WentThrough(cursor)

SinceTrue == PassedBy(poll.since) /\ WentThrough(poll.since)

\* What the page had up to here is in the router's hands or still to come.
PageTrue ==
  /\ WentThrough(poll.last)
  /\ poll.pc # "ingest" => poll.last = 0 /\ poll.todo = {}
  /\ poll.pc = "ingest" =>
       \A a \in ours : (\E b \in poll.todo \cup {poll.last} : a <= b) =>
         a \in poll.todo \cup handled \cup failed \cup crowded \/ a <= poll.since

\* As long as nothing was out of order, ids that were handed over are behind.
InOrder ==
  ~disturbed =>
    /\ \A a \in handled : a <= cursor \/ a <= poll.last
    /\ poll.pc # "idle" => poll.since = cursor
    /\ \A b \in poll.todo : b > poll.last /\ b > poll.since
    /\ poll.last # 0 => poll.last > poll.since

Inductive == TypeOK /\ Posted /\ CursorTrue /\ SinceTrue /\ PageTrue /\ InOrder

LEMMA InitInductive == Init => Inductive
<1> SUFFICES ASSUME Init PROVE Inductive
  OBVIOUS
<1> USE DEF Init, NoPoll
<1>1. 0 \in 0..MaxId
  BY RobotaUaBounds
<1>2. poll \in [pc: {"idle", "open", "ingest"}, since: 0..MaxId, todo: SUBSET Id, last: 0..MaxId]
  BY <1>1
<1>3. TypeOK
  BY <1>1, <1>2 DEF TypeOK
<1>4. Posted /\ CursorTrue /\ SinceTrue /\ PageTrue /\ InOrder
  BY DEF Posted, CursorTrue, SinceTrue, PageTrue, InOrder, PassedBy, WentThrough
<1> QED  BY <1>3, <1>4 DEF Inductive

\* Ids are numbers.
LEMMA Numbers ==
  ASSUME TypeOK
  PROVE  /\ posted \in Int /\ cursor \in Int /\ poll.since \in Int /\ poll.last \in Int
         /\ Id \subseteq Int /\ ours \subseteq Int /\ handled \subseteq Int
         /\ poll.todo \subseteq Int
         /\ \A a \in Id : a > 0
BY RobotaUaBounds DEF TypeOK, Id

-----------------------------------------------------------------------------
\* A new card is above everything a poll or the cursor knows.
LEMMA PostKeeps ==
  ASSUME Inductive, NEW isOurs \in BOOLEAN, Post(isOurs)
  PROVE  Inductive'
<1> USE Numbers DEF Inductive, Post
<1>1. TypeOK'
  <2>1. posted' \in 0..MaxId /\ posted' \in Id
    BY RobotaUaBounds DEF TypeOK, Id
  <2>2. ours' \subseteq Id
    BY <2>1 DEF TypeOK
  <2> QED  BY <2>1, <2>2 DEF TypeOK
<1>2. Posted'
  BY DEF Posted
<1>3. cursor <= posted /\ poll.since <= posted /\ \A b \in poll.todo \cup {poll.last} : b <= posted
  BY RobotaUaBounds DEF CursorTrue, SinceTrue, PageTrue, WentThrough, Posted, TypeOK
<1>4. CursorTrue' /\ SinceTrue'
  BY <1>3 DEF CursorTrue, SinceTrue, PassedBy, WentThrough
<1>5. PageTrue'
  <2> SUFFICES ASSUME poll.pc = "ingest", NEW a \in ours', NEW b \in poll.todo \cup {poll.last}, a <= b
               PROVE  a \in poll.todo \cup handled \cup failed \cup crowded \/ a <= poll.since
    BY DEF PageTrue, WentThrough
  <2>1. a \in ours
    BY <1>3
  <2> QED  BY <2>1 DEF PageTrue
<1>6. InOrder'
  BY DEF InOrder
<1> QED  BY <1>1, <1>2, <1>4, <1>5, <1>6

\* A poll starts from the cursor.
LEMMA StartKeeps ==
  ASSUME Inductive, PollStarts
  PROVE  Inductive'
<1> USE Numbers DEF Inductive, PollStarts, NoPoll
<1>1. TypeOK'
  <2>1. poll' \in [pc: {"idle", "open", "ingest"}, since: 0..MaxId, todo: SUBSET Id, last: 0..MaxId]
    <3>1. cursor \in 0..MaxId /\ 0 \in 0..MaxId
      BY RobotaUaBounds DEF TypeOK
    <3>2. poll' = [pc |-> "open", since |-> cursor, todo |-> {}, last |-> 0]
      OBVIOUS
    <3> QED  BY <3>1, <3>2
  <2> QED  BY <2>1 DEF TypeOK
<1>2. Posted' /\ CursorTrue' /\ SinceTrue'
  BY DEF Posted, CursorTrue, SinceTrue, PassedBy, WentThrough
<1>3. PageTrue'
  BY DEF PageTrue, WentThrough
<1>4. InOrder'
  <2>1. poll.last = 0
    BY DEF PageTrue
  <2> QED  BY <2>1 DEF InOrder
<1> QED  BY <1>1, <1>2, <1>3, <1>4

\* What is new on the page is to come, or could not be read; the rest was known, or
\* is off the page.
LEMMA ListKeeps ==
  ASSUME Inductive, NEW unread \in SUBSET Id, List(unread)
  PROVE  Inductive'
<1> USE Numbers DEF Inductive, List
<1>1. poll \in [pc: {"idle", "open", "ingest"}, since: 0..MaxId, todo: SUBSET Id, last: 0..MaxId]
  BY DEF TypeOK
<1>2. poll.pc = "open" /\ poll.last = 0 /\ Wanted \subseteq ours /\ Wanted \subseteq Id
  BY DEF PageTrue, Wanted, New, Page
<1>3. /\ poll'.pc = "ingest" /\ poll'.since = poll.since /\ poll'.last = 0
      /\ poll'.todo = Wanted \ unread
  BY <1>1, <1>2
<1>4. TypeOK'
  BY <1>1, <1>2 DEF TypeOK
<1>5. Posted'
  BY <1>2, <1>3 DEF Posted
<1>6. CursorTrue' /\ SinceTrue'
  BY <1>3 DEF CursorTrue, SinceTrue, PassedBy, WentThrough
<1>7. PageTrue'
  <2> SUFFICES ASSUME NEW a \in ours
               PROVE  \/ a \in (Wanted \ unread) \cup handled \cup failed' \cup crowded'
                      \/ a <= poll.since
    BY <1>3 DEF PageTrue, WentThrough
  <2>1. a \in Id
    BY DEF TypeOK
  <2>2. CASE a \notin Page /\ a > poll.since
    BY <2>2
  <2>3. CASE a \in Page /\ a > poll.since
    BY <2>3 DEF Wanted, New
  <2> QED  BY <2>1, <2>2, <2>3
<1>8. InOrder'
  <2>1. \A b \in Wanted : b > 0 /\ b > poll.since
    BY <1>2 DEF Wanted, New
  <2> QED  BY <1>2, <1>3, <2>1 DEF InOrder
<1> QED  BY <1>4, <1>5, <1>6, <1>7, <1>8

\* What went through is the last, and the cards left are after it if they were in order.
LEMMA IngestKeeps ==
  ASSUME Inductive, NEW a \in Id, Ingest(a)
  PROVE  Inductive'
<1> USE Numbers DEF Inductive, Ingest, Takes
<1>1. poll \in [pc: {"idle", "open", "ingest"}, since: 0..MaxId, todo: SUBSET Id, last: 0..MaxId]
  BY DEF TypeOK
<1>2. /\ poll'.pc = "ingest" /\ poll'.since = poll.since /\ poll'.last = a
      /\ poll'.todo = poll.todo \ {a}
  BY <1>1
<1>3. TypeOK'
  <2>1. a \in 0..MaxId /\ handled' \subseteq Id /\ disturbed' \in BOOLEAN
    BY RobotaUaBounds DEF TypeOK, Id
  <2>2. poll' \in [pc: {"idle", "open", "ingest"}, since: 0..MaxId, todo: SUBSET Id, last: 0..MaxId]
    BY <1>1, <2>1
  <2> QED  BY <2>1, <2>2 DEF TypeOK
<1>4. Posted' /\ CursorTrue' /\ SinceTrue'
  BY <1>2 DEF Posted, CursorTrue, SinceTrue, PassedBy, WentThrough
<1>5. PageTrue'
  BY <1>2 DEF PageTrue, WentThrough
<1>6. InOrder'
  <2> SUFFICES ASSUME ~disturbed, \A b \in poll.todo : ~(b < a)
               PROVE  InOrder'
    BY DEF InOrder
  <2>1. \A b \in poll.todo \ {a} : b > a /\ b > poll.since
    BY DEF InOrder
  <2>2. a > poll.since /\ a > poll.last
    BY DEF InOrder
  <2>3. \A h \in handled \cup {a} : h <= cursor \/ h <= a
    BY <2>2 DEF InOrder
  <2>4. poll.since = cursor
    BY DEF InOrder
  <2> QED  BY <1>2, <2>1, <2>2, <2>3, <2>4 DEF InOrder
<1> QED  BY <1>3, <1>4, <1>5, <1>6

\* One that raises leaves the last as it was.
LEMMA RaiseKeeps ==
  ASSUME Inductive, NEW a \in Id, IngestRaises(a)
  PROVE  Inductive'
<1> USE Numbers DEF Inductive, IngestRaises, Takes, LastAfter
<1>1. poll \in [pc: {"idle", "open", "ingest"}, since: 0..MaxId, todo: SUBSET Id, last: 0..MaxId]
  BY DEF TypeOK
<1>2. /\ poll'.pc = "ingest" /\ poll'.since = poll.since /\ poll'.last = poll.last
      /\ poll'.todo = poll.todo \ {a}
  BY <1>1
<1>3. TypeOK'
  BY <1>1 DEF TypeOK
<1>4. Posted' /\ CursorTrue' /\ SinceTrue'
  BY <1>2 DEF Posted, CursorTrue, SinceTrue, PassedBy, WentThrough
<1>5. PageTrue'
  BY <1>2 DEF PageTrue, WentThrough
<1>6. InOrder'
  BY <1>2 DEF InOrder
<1> QED  BY <1>3, <1>4, <1>5, <1>6

\* The cursor that is saved has passed by what failed.
LEMMA SaveKeeps ==
  ASSUME Inductive, Save
  PROVE  Inductive'
<1> USE Numbers DEF Inductive, Save, AllTaken, NoPoll
<1>1. cursor' \in {poll.last, cursor, 0}
  OBVIOUS
<1>2. TypeOK' /\ Posted'
  BY <1>1, RobotaUaBounds DEF TypeOK, Posted
<1>3. poll.last # 0 => PassedBy(poll.last)
  BY DEF PageTrue, SinceTrue, PassedBy, WentThrough
<1>4. PassedBy(0) /\ WentThrough(0)
  <2>1. \A a \in ours : a > 0
    BY DEF TypeOK
  <2> QED  BY <2>1 DEF PassedBy, WentThrough
<1>5. PassedBy(poll.last) /\ WentThrough(poll.last)
  BY <1>3, <1>4 DEF PageTrue
<1>6. CursorTrue' /\ SinceTrue'
  BY <1>1, <1>4, <1>5 DEF CursorTrue, SinceTrue, PassedBy, WentThrough
<1>7. PageTrue'
  BY DEF PageTrue, WentThrough
<1>8. InOrder'
  <2> SUFFICES ASSUME ~disturbed, cursor' = IF poll.last = 0 THEN cursor ELSE poll.last
               PROVE  \A h \in handled : h <= cursor' \/ h <= 0
    BY DEF InOrder
  <2>1. poll.since = cursor /\ (poll.last # 0 => poll.last > cursor)
    BY DEF InOrder
  <2> QED  BY <2>1 DEF InOrder
<1> QED  BY <1>2, <1>6, <1>7, <1>8

\* A poll that ends early leaves the cursor, or none.
LEMMA EndsEarlyKeeps ==
  ASSUME Inductive, ListFails \/ Dies
  PROVE  Inductive'
<1> USE Numbers DEF Inductive, NoPoll
<1>1. /\ poll' = NoPoll /\ cursor' \in {cursor, 0} /\ session' \in BOOLEAN
      /\ UNCHANGED <<posted, ours, handled, failed, crowded>>
      /\ disturbed' \in BOOLEAN
      /\ ~disturbed' => ~disturbed /\ cursor' = cursor /\ poll.last = 0
  BY DEF ListFails, Dies, TypeOK, PageTrue
<1>2. TypeOK' /\ Posted'
  BY <1>1, RobotaUaBounds DEF TypeOK, Posted
<1>3. PassedBy(0) /\ WentThrough(0)
  <2>1. \A a \in ours : a > 0
    BY DEF TypeOK
  <2> QED  BY <2>1 DEF PassedBy, WentThrough
<1>4. CursorTrue' /\ SinceTrue'
  BY <1>1, <1>3 DEF CursorTrue, SinceTrue, PassedBy, WentThrough
<1>5. PageTrue'
  BY <1>1 DEF PageTrue, WentThrough
<1>6. InOrder'
  BY <1>1 DEF InOrder
<1> QED  BY <1>2, <1>4, <1>5, <1>6

LEMMA NextKeeps == Inductive /\ [Next]_vars => Inductive'
<1> SUFFICES ASSUME Inductive, [Next]_vars PROVE Inductive'
  OBVIOUS
<1>1. CASE UNCHANGED <<posted, ours, cursor, poll, handled, failed, crowded, disturbed>> /\ session' \in BOOLEAN
  BY <1>1
  DEF Inductive, TypeOK, Posted, CursorTrue, SinceTrue, PageTrue, InOrder, PassedBy, WentThrough
<1>2. CASE Login \/ SessionExpires \/ UNCHANGED vars
  BY <1>1, <1>2 DEF Login, SessionExpires, vars, Inductive, TypeOK
<1> QED
  BY <1>2, PostKeeps, StartKeeps, ListKeeps, IngestKeeps, RaiseKeeps, SaveKeeps, EndsEarlyKeeps
  DEF Next, PollStep

LEMMA AlwaysInductive == Spec => []Inductive
BY InitInductive, NextKeeps, PTL DEF Spec

-----------------------------------------------------------------------------
\* Types are kept by every poll and every failure.
THEOREM PollTypes == Spec => []TypeOK
<1>1. Inductive => TypeOK
  BY DEF Inductive
<1> QED  BY <1>1, AlwaysInductive, PTL

\* The cursor passes by only what failed (poll_responses).
THEOREM CursorPassesFailures == Spec => []PassedByOnlyIfFailed
<1>1. Inductive => PassedByOnlyIfFailed
  BY DEF Inductive, CursorTrue, PassedBy, PassedByOnlyIfFailed
<1> QED  BY <1>1, AlwaysInductive, PTL

\* The provider contract: nothing is ingested twice (base.py), while pages are in
\* order and the cursor is kept.
THEOREM ContractKept == Spec => IngestedOnce
<1> DEFINE Once == \A a \in handled : Ingest(a) => disturbed'
<1>1. Inductive /\ [Next]_vars => [Once]_vars
  <2> SUFFICES ASSUME Inductive, NEW a \in handled, Ingest(a), ~disturbed'
               PROVE  FALSE
    OBVIOUS
  <2>1. /\ poll.pc = "ingest" /\ a \in poll.todo /\ disturbed \in BOOLEAN
        /\ disturbed' = (disturbed \/ \E b \in poll.todo : b < a)
    BY DEF Ingest, Takes, Inductive, TypeOK
  <2>2. ~disturbed
    BY <2>1
  <2>3. a > poll.last /\ a > cursor
    BY <2>1, <2>2 DEF Inductive, InOrder
  <2>4. a <= cursor \/ a <= poll.last
    BY <2>2 DEF Inductive, InOrder
  <2> QED  BY <2>3, <2>4, Numbers DEF Inductive
<1> QED  BY <1>1, AlwaysInductive, PTL DEF Spec, IngestedOnce
=============================================================================
