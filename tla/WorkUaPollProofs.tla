--------------------------- MODULE WorkUaPollProofs ---------------------------
(***************************************************************************)
(* With one feed the poll leaves no gap: every response up to the saved      *)
(* cursor that passes the filters has become a candidate, for any responses  *)
(* and faults.  One feed is no allow-list and pages of any size, or one      *)
(* allowed vacancy and pages that hold what is new.                          *)
(*                                                                           *)
(* The saved cursor alone is not inductive: the poll's own highest id runs   *)
(* ahead of it, and of items in hand too when they come in no order.  What   *)
(* makes it safe is that a page has no gap and that nothing leaves the hand  *)
(* unsettled; with two feeds the page of the first has gaps the second's     *)
(* highest id jumps over.                                                    *)
(***************************************************************************)
EXTENDS WorkUaPoll, FiniteSetTheorems, TLAPS

OneFeed == \/ Allowed = {}
           \/ PageSize >= MaxPosts /\ \E v \in Vacancy : Allowed = {v}

\* A response the poll need not come back to.
Settled(i) ==
  \/ ~Relevant(board[i])
  \/ Covered(board[i].phone, board[i].label)
  \/ i \in poll.items

\* The bound on the board is one.
Posted == Len(board) <= MaxPosts

\* Responses up to the poll's highest id are settled before it is saved.
SeenSettled ==
  poll.pc # "idle" => \A i \in DOMAIN board : i <= poll.maxSeen => Settled(i)

\* So is what lies below an item in hand, whose id is about to count as seen.
ItemsHaveNoGap ==
  \A i \in poll.items, j \in DOMAIN board : j < i => Settled(j)

\* The items arrive in one page.
OnePage == /\ poll.pc = "fetch" => poll.items = {}
           /\ poll.todo \subseteq Feeds

Inductive == CursorBehindIngested /\ SeenSettled /\ ItemsHaveNoGap /\ OnePage

-----------------------------------------------------------------------------
LEMMA PolledLabels == PolledLabel \subseteq Label
<1>1. "workua_response_send" \in DOMAIN WidthOf
  BY DEF WidthOf
<1>2. "workua_response_phonecall" \in DOMAIN WidthOf
  BY DEF WidthOf
<1> QED  BY <1>1, <1>2 DEF PolledLabel, Label

\* There are as many ids up to n as n says.
LEMMA UpToFinite == \A n \in Nat : IsFiniteSet(1..n) /\ Cardinality(1..n) = n
<1> SUFFICES ASSUME NEW n \in Nat PROVE IsFiniteSet(1..n) /\ Cardinality(1..n) = n
  OBVIOUS
<1>1. /\ IsFiniteSet(1..n)
      /\ Cardinality(1..n) = IF 1 > n THEN 0 ELSE n - 1 + 1
  BY FS_Interval
<1>2. (IF 1 > n THEN 0 ELSE n - 1 + 1) = n
  OBVIOUS
<1> QED  BY <1>1, <1>2

\* A relevant response names a phone number and a label the table may hold.
LEMMA RelevantTyped ==
  ASSUME board \in Seq(Response), NEW i \in DOMAIN board, Relevant(board[i])
  PROVE  board[i].phone \in Phone /\ board[i].label \in Label
<1>1. board[i] \in AnyResponse
  BY ResponsesAreResponses
<1> QED  BY <1>1, PolledLabels DEF AnyResponse, Relevant

\* Recording a label loses none and covers the new one.
LEMMA SourceGrows ==
  ASSUME source \in [Phone -> SUBSET Label], NEW p \in Phone, NEW label \in Label,
         source' = [source EXCEPT ![p] = Recorded(p, label)]
  PROVE  /\ source' \in [Phone -> SUBSET Label]
         /\ \A q \in Phone : source[q] \subseteq source'[q]
         /\ Covered(p, label)'
<1>1. Recorded(p, label) \in SUBSET Label /\ source[p] \subseteq Recorded(p, label)
  BY DEF Recorded
<1>2. source'[p] = Recorded(p, label)
  OBVIOUS
<1>3. Covered(p, label)'
  BY <1>2 DEF Covered, Recorded
<1> QED  BY <1>1, <1>2, <1>3

\* What is covered stays covered while sources only grow.
LEMMA CoveredStays ==
  ASSUME NEW p \in Phone, NEW label, Covered(p, label),
         \A q \in Phone : source[q] \subseteq source'[q]
  PROVE  Covered(p, label)'
BY DEF Covered

-----------------------------------------------------------------------------
\* Types, whatever is allowed.

\* What a request leaves of the poll is a poll.
LEMMA WithPageTyped ==
  ASSUME TypeOK, NEW feed, NEW page, page \subseteq DOMAIN board
  PROVE  LET new == WithPage(feed, page) IN
         new \in Poll /\ new.items \subseteq DOMAIN board /\ new.maxSeen <= Len(board)
<1> DEFINE todo  == poll.todo \ {feed}
           items == poll.items \cup page
<1>1. poll \in Poll /\ poll.items \subseteq DOMAIN board /\ poll.maxSeen <= Len(board)
  BY DEF TypeOK
<1>2. items \in SUBSET (Nat \ {0}) /\ items \subseteq DOMAIN board
  BY <1>1 DEF TypeOK, Poll
<1>3. CASE todo # {}
  <2>1. WithPage(feed, page) = [poll EXCEPT !.todo = todo, !.items = items]
    BY <1>3 DEF WithPage
  <2> HIDE DEF items
  <2> QED  BY <1>1, <1>2, <2>1 DEF Poll
<1>4. CASE todo = {} /\ items = {}
  BY <1>4 DEF WithPage, IdlePoll, Poll, TypeOK
<1>5. CASE todo = {} /\ items # {}
  <2>1. WithPage(feed, page) = [poll EXCEPT !.pc = "ingest", !.todo = {}, !.items = items]
    BY <1>5 DEF WithPage
  <2> HIDE DEF items
  <2> QED  BY <1>1, <1>2, <2>1 DEF Poll
<1> QED  BY <1>3, <1>4, <1>5

LEMMA PostTyped ==
  ASSUME TypeOK, NEW r \in Response, Post(r)
  PROVE  /\ TypeOK' /\ Posted'
         /\ DOMAIN board = 1..Len(board) /\ DOMAIN board' = 1..(Len(board) + 1)
         /\ \A i \in DOMAIN board : board'[i] = board[i]
<1>1. /\ board' \in Seq(Response) /\ Len(board') = Len(board) + 1
      /\ DOMAIN board = 1..Len(board) /\ DOMAIN board' = 1..(Len(board) + 1)
      /\ \A i \in DOMAIN board : board'[i] = board[i]
  BY DEF TypeOK, Post
<1>2. /\ UNCHANGED <<cursor, source, poll>>
      /\ poll \in Poll /\ poll.maxSeen \in Nat /\ Len(board) \in Nat
      /\ cursor \in 0..Len(board) /\ poll.maxSeen <= Len(board) /\ poll.items \subseteq 1..Len(board)
  BY <1>1 DEF TypeOK, Poll, Post
<1>3. cursor' \in 0..Len(board') /\ poll'.maxSeen <= Len(board') /\ poll'.items \subseteq DOMAIN board'
  BY <1>1, <1>2
<1>4. TypeOK'
  BY <1>1, <1>2, <1>3 DEF TypeOK
<1>5. Posted'
  BY <1>1, <1>2, PollBounds DEF Post, Posted
<1> QED  BY <1>1, <1>4, <1>5

LEMMA WithoutTyped ==
  ASSUME TypeOK, NEW i \in DOMAIN board, Upcoming(i), poll' = Without(i),
         UNCHANGED <<board, cursor>>, source' \in [Phone -> SUBSET Label]
  PROVE  /\ TypeOK'
         /\ poll'.items = poll.items \ {i} /\ poll'.maxSeen = Seen(i)
         /\ poll'.todo = poll.todo /\ poll'.pc = poll.pc
         /\ Seen(i) \in {i, poll.maxSeen}
<1>1. /\ poll \in Poll /\ i \in Nat /\ i <= Len(board) /\ poll.maxSeen \in Nat
      /\ poll.maxSeen <= Len(board) /\ poll.items \subseteq DOMAIN board
  BY DEF TypeOK, Poll
<1>2. Seen(i) \in {i, poll.maxSeen}
  BY DEF Seen
<1>3. Seen(i) \in Nat /\ Seen(i) <= Len(board)
  BY <1>1, <1>2
<1>4. /\ poll'.items = poll.items \ {i} /\ poll'.maxSeen = Seen(i)
      /\ poll'.todo = poll.todo /\ poll'.pc = poll.pc
  BY <1>1 DEF Without, Poll
<1>5. poll' \in Poll
  BY <1>1, <1>3 DEF Without, Poll
<1>6. TypeOK'
  BY <1>1, <1>3, <1>4, <1>5 DEF TypeOK
<1> QED  BY <1>2, <1>4, <1>6

\* What the step of an item does to the table: a label more, or nothing.
LEMMA ItemWrites ==
  ASSUME TypeOK, NEW i \in DOMAIN board, Skip(i) \/ IngestResponse(i)
  PROVE  /\ Upcoming(i) /\ poll' = Without(i) /\ UNCHANGED <<board, cursor>>
         /\ source' \in [Phone -> SUBSET Label]
         /\ \A q \in Phone : source[q] \subseteq source'[q]
         /\ Relevant(board[i]) => Covered(board[i].phone, board[i].label)'
<1>1. CASE Skip(i)
  BY <1>1 DEF Skip, TypeOK
<1>2. CASE IngestResponse(i)
  <2>1. PICK p \in Phone : p = board[i].phone
    BY <1>2, RelevantTyped DEF IngestResponse, TypeOK
  <2>2. PICK label \in Label : label = board[i].label
    BY <1>2, RelevantTyped DEF IngestResponse, TypeOK
  <2>3. source' = [source EXCEPT ![p] = Recorded(p, label)] /\ source \in [Phone -> SUBSET Label]
    BY <1>2, <2>1, <2>2 DEF IngestResponse, TypeOK
  <2>4. /\ source' \in [Phone -> SUBSET Label]
        /\ \A q \in Phone : source[q] \subseteq source'[q]
        /\ Covered(p, label)'
    BY <2>3, SourceGrows
  <2>5. Covered(board[i].phone, board[i].label)'
    BY <1>2, <2>1, <2>2, <2>4 DEF IngestResponse, Covered
  <2> QED  BY <1>2, <2>4, <2>5 DEF IngestResponse
<1> QED  BY <1>1, <1>2

LEMMA OtherWrites ==
  ASSUME TypeOK, NEW p \in Phone, NEW label \in OtherLabel, OtherIngest(p, label)
  PROVE  /\ UNCHANGED <<board, cursor, poll>>
         /\ source' \in [Phone -> SUBSET Label]
         /\ \A q \in Phone : source[q] \subseteq source'[q]
<1>1. label \in Label /\ source \in [Phone -> SUBSET Label]
  BY OtherLabelsAreLabels DEF TypeOK
<1>2. source' = [source EXCEPT ![p] = Recorded(p, label)] /\ UNCHANGED <<board, cursor, poll>>
  BY DEF OtherIngest
<1> QED  BY <1>1, <1>2, SourceGrows

LEMMA TypesKept == TypeOK /\ Posted /\ [Next]_vars => TypeOK' /\ Posted'
<1> SUFFICES ASSUME TypeOK, Posted, [Next]_vars PROVE TypeOK' /\ Posted'
  OBVIOUS
<1>1. ASSUME NEW r \in Response, Post(r) PROVE TypeOK' /\ Posted'
  BY <1>1, PostTyped
<1>2. ASSUME UNCHANGED board, TypeOK' PROVE TypeOK' /\ Posted'
  BY <1>2 DEF Posted
<1>3. ASSUME NEW p \in Phone, NEW label \in OtherLabel, OtherIngest(p, label)
      PROVE  TypeOK' /\ UNCHANGED board
  BY <1>3, OtherWrites DEF TypeOK
<1>4. ASSUME poll' = IdlePoll, UNCHANGED <<board, source>>, cursor' \in 0..Len(board)
      PROVE  TypeOK' /\ UNCHANGED board
  BY <1>4 DEF TypeOK, IdlePoll, Poll
<1>5. CASE PollStarts
  <2>1. Feeds \subseteq Vacancy \cup {Everywhere}
    BY AllowedAreVacancies DEF Feeds
  <2>2. poll' \in Poll /\ poll'.items = {} /\ poll'.maxSeen = cursor
    BY <1>5, <2>1 DEF PollStarts, Poll, TypeOK
  <2> QED  BY <1>2, <1>5, <2>2 DEF PollStarts, TypeOK
<1>6. ASSUME NEW feed, NEW page, page \subseteq DOMAIN board, poll' = WithPage(feed, page),
             UNCHANGED <<board, cursor, source>>
      PROVE  TypeOK' /\ UNCHANGED board
  BY <1>6, WithPageTyped DEF TypeOK
<1>7. ASSUME NEW feed \in Feeds, Fetch(feed) PROVE TypeOK' /\ UNCHANGED board
  <2>1. PICK page \in Pages(feed) : poll' = WithPage(feed, page)
    BY <1>7 DEF Fetch
  <2>2. page \subseteq DOMAIN board
    BY DEF Pages, NewIn
  <2> QED  BY <1>6, <1>7, <2>1, <2>2 DEF Fetch
<1>8. ASSUME NEW feed \in Feeds, VacancyFails(feed) PROVE TypeOK' /\ UNCHANGED board
  BY <1>6, <1>8, {} \subseteq DOMAIN board DEF VacancyFails
<1>9. ASSUME NEW i \in DOMAIN board, Skip(i) \/ IngestResponse(i)
      PROVE  TypeOK' /\ UNCHANGED board
  BY <1>9, ItemWrites, WithoutTyped
<1>10. ASSUME NEW i \in DOMAIN board, IngestRaises(i) PROVE TypeOK' /\ UNCHANGED board
  BY <1>4, <1>10 DEF IngestRaises, TypeOK
<1>11. CASE SaveCursor
  <2>1. poll.maxSeen \in 0..Len(board)
    BY DEF TypeOK, Poll
  <2> QED  BY <1>2, <1>4, <1>11, <2>1 DEF SaveCursor
<1>12. CASE PollFails \/ PollAborts
  BY <1>2, <1>4, <1>12 DEF PollFails, PollAborts, TypeOK
<1>13. CASE CursorLost
  BY <1>2, <1>13 DEF CursorLost, TypeOK
<1>14. CASE UNCHANGED vars
  BY <1>2, <1>14 DEF vars, TypeOK
<1> QED  BY <1>1, <1>2, <1>3, <1>5, <1>7, <1>8, <1>9, <1>10, <1>11, <1>12, <1>13, <1>14
         DEF Next, PollStep, Fault

LEMMA AlwaysTyped == Spec => [](TypeOK /\ Posted)
<1>1. Init => TypeOK /\ Posted
  BY PollBounds DEF Init, TypeOK, Posted, IdlePoll, Poll
<1> QED  BY <1>1, TypesKept, PTL DEF Spec

\* A poll keeps its types, whatever is allowed and whatever fails: among them that
\* neither the cursor nor the poll's highest id runs ahead of the responses there are.
THEOREM PollTyped == Spec => []TypeOK
BY AlwaysTyped, PTL

-----------------------------------------------------------------------------
\* No gap.

\* What is settled stays so while sources grow and nothing leaves the hand.
LEMMA SettledStays ==
  ASSUME TypeOK, NEW i \in DOMAIN board, Settled(i), board' = board,
         \A q \in Phone : source[q] \subseteq source'[q],
         i \in poll.items => i \in poll'.items
  PROVE  Settled(i)'
<1>1. CASE Relevant(board[i]) /\ Covered(board[i].phone, board[i].label)
  <2>1. Covered(board[i].phone, board[i].label)'
    BY <1>1, RelevantTyped, CoveredStays DEF TypeOK
  <2> QED  BY <2>1 DEF Settled
<1>2. CASE ~Relevant(board[i]) \/ i \in poll.items
  BY <1>2 DEF Settled, Relevant
<1> QED  BY <1>1, <1>2 DEF Settled

\* Nor does the saved cursor come to pass anything while sources grow.
LEMMA CursorStaysBehind ==
  ASSUME TypeOK, CursorBehindIngested, UNCHANGED <<board, cursor>>,
         \A q \in Phone : source[q] \subseteq source'[q]
  PROVE  CursorBehindIngested'
<1> SUFFICES ASSUME NEW i \in DOMAIN board, i <= cursor, Relevant(board[i])
             PROVE  Covered(board[i].phone, board[i].label)'
  BY DEF CursorBehindIngested, Relevant
<1>1. Covered(board[i].phone, board[i].label)
  BY DEF CursorBehindIngested
<1> QED  BY <1>1, RelevantTyped, CoveredStays DEF TypeOK

LEMMA GrowthIsHarmless ==
  ASSUME TypeOK, Inductive, UNCHANGED <<board, cursor, poll>>,
         \A q \in Phone : source[q] \subseteq source'[q]
  PROVE  Inductive'
<1>1. \A i \in DOMAIN board : Settled(i) => Settled(i)'
  BY SettledStays
<1>2. CursorBehindIngested'
  BY CursorStaysBehind DEF Inductive
<1>3. SeenSettled' /\ ItemsHaveNoGap' /\ OnePage'
  BY <1>1 DEF Inductive, SeenSettled, ItemsHaveNoGap, OnePage, Feeds
<1> QED  BY <1>2, <1>3 DEF Inductive

\* A poll that ends owes nothing.
LEMMA PollEnds ==
  ASSUME CursorBehindIngested', poll' = IdlePoll PROVE Inductive'
BY DEF Inductive, IdlePoll, SeenSettled, ItemsHaveNoGap, OnePage

LEMMA PostSafe ==
  ASSUME TypeOK, Inductive, NEW r \in Response, Post(r) PROVE Inductive'
<1>1. /\ DOMAIN board = 1..Len(board) /\ DOMAIN board' = 1..(Len(board) + 1)
      /\ \A i \in DOMAIN board : board'[i] = board[i]
  BY PostTyped
<1>2. /\ UNCHANGED <<cursor, source, poll>> /\ Len(board) \in Nat
      /\ cursor \in Nat /\ cursor <= Len(board) /\ poll.maxSeen \in Nat /\ poll.maxSeen <= Len(board)
      /\ poll.items \subseteq DOMAIN board
  BY DEF Post, TypeOK, Poll
<1>3. \A i \in DOMAIN board' : i <= Len(board) => i \in DOMAIN board
  BY <1>1, <1>2
<1>4. \A i \in DOMAIN board : Settled(i) => Settled(i)'
  BY <1>1, <1>2 DEF Settled, Covered, Relevant
<1>5. \A i \in DOMAIN board' : i <= cursor \/ i <= poll.maxSeen => i \in DOMAIN board
  BY <1>1, <1>2, <1>3
<1>6. CursorBehindIngested'
  BY <1>1, <1>2, <1>5 DEF Inductive, CursorBehindIngested, Relevant, Covered
<1>7. SeenSettled'
  BY <1>2, <1>4, <1>5 DEF Inductive, SeenSettled
<1>8. ItemsHaveNoGap'
  <2> SUFFICES ASSUME NEW i \in poll.items, NEW j \in DOMAIN board', j < i PROVE Settled(j)'
    BY <1>2 DEF ItemsHaveNoGap
  <2>1. j \in DOMAIN board
    BY <1>1, <1>2
  <2> QED  BY <1>4, <2>1 DEF Inductive, ItemsHaveNoGap
<1>9. OnePage'
  BY <1>2 DEF Inductive, OnePage, Feeds
<1> QED  BY <1>6, <1>7, <1>8, <1>9 DEF Inductive

LEMMA PollStartsSafe == ASSUME TypeOK, Inductive, PollStarts PROVE Inductive'
<1>1. /\ poll' = [pc |-> "fetch", todo |-> Feeds, items |-> {}, maxSeen |-> cursor]
      /\ UNCHANGED <<board, cursor, source>>
  BY DEF PollStarts
<1>2. CursorBehindIngested'
  BY <1>1, CursorStaysBehind DEF Inductive
<1>3. SeenSettled'
  BY <1>1 DEF Inductive, SeenSettled, Settled, CursorBehindIngested, Relevant, Covered
<1>4. ItemsHaveNoGap' /\ OnePage'
  BY <1>1 DEF ItemsHaveNoGap, OnePage, Feeds
<1> QED  BY <1>2, <1>3, <1>4 DEF Inductive

\* A page holds every response of interest below the ones it holds: over all
\* vacancies because the oldest come first, for one because all that is new fits.
LEMMA PageHasNoGap ==
  ASSUME OneFeed, TypeOK, Posted, NEW feed \in Feeds, NEW page \in Pages(feed),
         NEW i \in page, NEW j \in DOMAIN board, poll.maxSeen < j, j < i, Relevant(board[j])
  PROVE  j \in page
<1>1. page \subseteq NewIn(feed) /\ Sized(page, NewIn(feed))
  BY DEF Pages
<1>2. i \in Nat /\ j \in Nat
  BY <1>1 DEF NewIn, TypeOK
<1>3. CASE Allowed = {}
  <2>1. feed = Everywhere /\ j \in NewIn(feed)
    BY <1>3 DEF Feeds, NewIn
  <2>2. \A k \in NewIn(feed) \ page : i < k
    BY <2>1 DEF Pages
  <2> QED  BY <1>2, <2>1, <2>2
<1>4. CASE Allowed # {}
  <2>1. PICK v \in Vacancy : Allowed = {v} /\ PageSize >= MaxPosts
    BY <1>4 DEF OneFeed
  <2>2. j \in NewIn(feed)
    BY <1>4, <2>1 DEF Feeds, NewIn, Relevant
  <2>3. /\ Len(board) \in Nat /\ NewIn(feed) \in SUBSET (1..Len(board))
    BY DEF NewIn, TypeOK
  <2>4. IsFiniteSet(1..Len(board)) /\ Cardinality(1..Len(board)) = Len(board)
    BY <2>3, UpToFinite
  <2>5. IsFiniteSet(NewIn(feed)) /\ Cardinality(NewIn(feed)) <= Len(board)
    BY <2>3, <2>4, FS_Subset
  <2>6. page \in SUBSET NewIn(feed)
    BY <1>1
  <2>7. /\ Cardinality(page) <= Cardinality(NewIn(feed))
        /\ Cardinality(NewIn(feed)) = Cardinality(page) => NewIn(feed) = page
        /\ IsFiniteSet(page)
    BY <2>5, <2>6, FS_Subset
  <2>8. Cardinality(page) \in Nat /\ Cardinality(NewIn(feed)) \in Nat
    BY <2>5, <2>7, FS_CardinalityType
  <2>9. CASE Cardinality(page) = PageSize
    <3>1. Cardinality(NewIn(feed)) = Cardinality(page)
      BY <2>1, <2>3, <2>5, <2>7, <2>8, <2>9, PollBounds DEF Posted
    <3> QED  BY <2>2, <2>7, <3>1
  <2>10. CASE page = NewIn(feed)
    BY <2>2, <2>10
  <2> QED  BY <1>1, <2>9, <2>10 DEF Sized
<1> QED  BY <1>3, <1>4

LEMMA FetchSafe ==
  ASSUME OneFeed, TypeOK, Posted, Inductive, NEW feed \in Feeds, Fetch(feed) PROVE Inductive'
<1>1. PICK page \in Pages(feed) : poll' = WithPage(feed, page)
  BY DEF Fetch
<1>2. poll.todo \ {feed} = {} /\ poll.items = {} /\ poll.items \cup page = page /\ poll.pc = "fetch"
  <2>1. poll.items = {} /\ poll.todo \subseteq Feeds /\ poll.pc = "fetch"
    BY DEF Fetch, Inductive, OnePage
  <2>2. \A f, g \in Feeds : f = g
    BY DEF OneFeed, Feeds
  <2> QED  BY <2>1, <2>2
<1>3. UNCHANGED <<board, cursor, source>>
  BY DEF Fetch
<1>4. CursorBehindIngested'
  BY <1>3, CursorStaysBehind DEF Inductive
<1>5. CASE page = {}
  BY <1>1, <1>2, <1>4, <1>5, PollEnds DEF WithPage
<1>6. CASE page # {}
  <2>1. poll' = [poll EXCEPT !.pc = "ingest", !.todo = {}, !.items = page]
    BY <1>1, <1>2, <1>6 DEF WithPage
  <2>2. poll'.items = page /\ poll'.maxSeen = poll.maxSeen /\ poll'.todo = {} /\ poll'.pc = "ingest"
    BY <2>1 DEF TypeOK, Poll
  <2>3. \A j \in DOMAIN board : Settled(j) => Settled(j)'
    BY <1>2, <1>3, SettledStays
  <2>4. SeenSettled'
    BY <1>2, <1>3, <2>2, <2>3 DEF Inductive, SeenSettled
  <2>5. ASSUME NEW i \in page, NEW j \in DOMAIN board, j < i PROVE Settled(j)'
    <3>1. CASE j <= poll.maxSeen
      BY <1>2, <2>3, <3>1 DEF Inductive, SeenSettled
    <3>2. CASE poll.maxSeen < j
      BY <1>3, <2>2, <2>5, <3>2, PageHasNoGap DEF Settled, Relevant
    <3> QED  BY <3>1, <3>2 DEF TypeOK, Poll
  <2>6. ItemsHaveNoGap'
    BY <1>3, <2>2, <2>5 DEF ItemsHaveNoGap
  <2>7. OnePage'
    BY <2>2 DEF OnePage
  <2> QED  BY <1>4, <2>4, <2>6, <2>7 DEF Inductive
<1> QED  BY <1>5, <1>6

\* The one vacancy that cannot be fetched ends the poll.
LEMMA VacancyFailsSafe ==
  ASSUME OneFeed, TypeOK, Inductive, NEW feed \in Feeds, VacancyFails(feed) PROVE Inductive'
<1>1. poll.todo \ {feed} = {} /\ poll.items \cup {} = {}
  <2>1. poll.items = {} /\ poll.todo \subseteq Feeds
    BY DEF VacancyFails, Inductive, OnePage
  <2>2. \A f, g \in Feeds : f = g
    BY DEF OneFeed, Feeds
  <2> QED  BY <2>1, <2>2
<1>2. poll' = IdlePoll /\ UNCHANGED <<board, cursor, source>>
  BY <1>1 DEF VacancyFails, WithPage
<1> QED  BY <1>2, PollEnds, CursorStaysBehind DEF Inductive

\* The heart: an item is seen when it was irrelevant or is covered, and what lies
\* below it is settled, in whatever order the items come.
LEMMA ItemDone ==
  ASSUME TypeOK, Inductive, NEW i \in DOMAIN board, Skip(i) \/ IngestResponse(i)
  PROVE  Inductive'
<1>1. /\ Upcoming(i) /\ UNCHANGED <<board, cursor>>
      /\ \A q \in Phone : source[q] \subseteq source'[q]
      /\ Relevant(board[i]) => Covered(board[i].phone, board[i].label)'
  BY ItemWrites
<1>2. /\ poll'.items = poll.items \ {i} /\ poll'.maxSeen \in {i, poll.maxSeen}
      /\ poll'.todo = poll.todo /\ poll'.pc = poll.pc
  BY ItemWrites, WithoutTyped
<1>3. Settled(i)'
  BY <1>1 DEF Settled, Relevant
<1>4. \A j \in DOMAIN board : Settled(j) => Settled(j)'
  BY <1>1, <1>2, <1>3, SettledStays
<1>5. /\ poll.pc = "ingest" /\ i \in poll.items /\ i \in Nat /\ \A j \in DOMAIN board : j \in Nat
  BY <1>1 DEF Upcoming, TypeOK
<1>6. SeenSettled'
  <2>1. ASSUME NEW j \in DOMAIN board, j <= i PROVE Settled(j)'
    <3>1. CASE j = i
      BY <1>3, <3>1
    <3>2. CASE j # i
      <4>1. j < i
        BY <1>5, <2>1, <3>2
      <4> QED  BY <1>4, <1>5, <4>1 DEF Inductive, ItemsHaveNoGap
    <3> QED  BY <3>1, <3>2
  <2>2. ASSUME NEW j \in DOMAIN board, j <= poll.maxSeen PROVE Settled(j)'
    BY <1>4, <1>5, <2>2 DEF Inductive, SeenSettled
  <2> QED  BY <1>1, <1>2, <2>1, <2>2 DEF SeenSettled
<1>7. ItemsHaveNoGap'
  BY <1>1, <1>2, <1>4 DEF Inductive, ItemsHaveNoGap
<1>8. OnePage'
  BY <1>2, <1>5 DEF Inductive, OnePage, Feeds
<1>9. CursorBehindIngested'
  BY <1>1, CursorStaysBehind DEF Inductive
<1> QED  BY <1>6, <1>7, <1>8, <1>9 DEF Inductive

\* With nothing left in hand, all that was seen is covered.
LEMMA SaveCursorSafe == ASSUME TypeOK, Inductive, SaveCursor PROVE Inductive'
<1>1. /\ poll' = IdlePoll /\ cursor' = poll.maxSeen /\ UNCHANGED <<board, source>>
      /\ poll.pc = "ingest" /\ poll.items = {}
  BY DEF SaveCursor
<1>2. CursorBehindIngested'
  BY <1>1 DEF Inductive, CursorBehindIngested, SeenSettled, Settled, Relevant, Covered
<1> QED  BY <1>1, <1>2, PollEnds

LEMMA CursorLostSafe == ASSUME TypeOK, Inductive, CursorLost PROVE Inductive'
<1>1. cursor' = 0 /\ UNCHANGED <<board, source, poll>>
  BY DEF CursorLost
<1>2. \A i \in DOMAIN board : ~(i <= 0)
  BY DEF TypeOK
<1>3. CursorBehindIngested'
  BY <1>1, <1>2 DEF CursorBehindIngested
<1>4. SeenSettled' /\ ItemsHaveNoGap' /\ OnePage'
  BY <1>1 DEF Inductive, SeenSettled, ItemsHaveNoGap, OnePage, Settled, Relevant, Covered, Feeds
<1> QED  BY <1>3, <1>4 DEF Inductive

LEMMA InductiveNext ==
  ASSUME OneFeed, TypeOK, Posted, Inductive, [Next]_vars PROVE Inductive'
<1>1. ASSUME NEW r \in Response, Post(r) PROVE Inductive'
  BY <1>1, PostSafe
<1>2. ASSUME NEW p \in Phone, NEW label \in OtherLabel, OtherIngest(p, label) PROVE Inductive'
  BY <1>2, OtherWrites, GrowthIsHarmless
<1>3. ASSUME poll' = IdlePoll, UNCHANGED <<board, cursor, source>> PROVE Inductive'
  BY <1>3, PollEnds, CursorStaysBehind DEF Inductive
<1>4. CASE PollStep
  <2>1. ASSUME NEW i \in DOMAIN board, IngestRaises(i) PROVE Inductive'
    BY <1>3, <2>1 DEF IngestRaises
  <2> QED  BY <1>4, <2>1, PollStartsSafe, FetchSafe, ItemDone, SaveCursorSafe DEF PollStep
<1>5. CASE Fault
  BY <1>3, <1>5, VacancyFailsSafe, CursorLostSafe DEF Fault, PollFails, PollAborts
<1>6. CASE UNCHANGED vars
  BY <1>6, GrowthIsHarmless DEF vars
<1> QED  BY <1>1, <1>2, <1>4, <1>5, <1>6 DEF Next

\* With one feed the saved cursor never passes a response that should have become a
\* candidate and has not, whatever fails, is lost or restarts.
THEOREM CursorLeavesNoGap == ASSUME OneFeed PROVE Spec => []CursorBehindIngested
<1>1. Init => Inductive
  BY DEF Init, Inductive, CursorBehindIngested, SeenSettled, ItemsHaveNoGap, OnePage, IdlePoll
<1>2. TypeOK /\ Posted /\ Inductive /\ [Next]_vars => Inductive'
  BY InductiveNext
<1>3. Inductive => CursorBehindIngested
  BY DEF Inductive
<1> QED  BY <1>1, <1>2, <1>3, AlwaysTyped, PTL DEF Spec
=============================================================================
