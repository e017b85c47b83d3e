-------------------------- MODULE InspectorBrowser --------------------------
(***************************************************************************)
(* The inspector's page in a browser (inspector/static/inspector.js): it   *)
(* refreshes the graph and the feed every two seconds and loads older      *)
(* pages of the feed on demand, merging each answer into what it shows.    *)
(* Calls overlap: a refresh that failed leaves its other calls under way,  *)
(* and their answers arrive in any order.                                  *)
(*                                                                         *)
(* The service answers from a ledger that grows block by block.  A         *)
(* transaction is its position.                                            *)
(***************************************************************************)
EXTENDS Integers, Sequences, FiniteSets

CONSTANTS
  BlockSize,   \* the number of transactions of each block
  PageSize,    \* transactions of one page of the feed
  MaxCalls     \* bound: calls of the page

ASSUME BrowserAssumption ==
  BlockSize \in Seq(Nat) /\ PageSize \in Nat \ {0} /\ MaxCalls \in Nat

VARIABLES
  ledgerHeight,  \* blocks the service has indexed
  shownGraph,    \* state.viewModel: its height and its artifacts, by transaction
  shownFeed,     \* state.feedTransactions
  before,        \* state.feedNextBefore
  front,         \* newest transaction of the page that set the cursor off
  calls,         \* calls of the page under way
  refreshing,    \* where the running refresh is, and the calls it waits for
  called         \* calls so far

browserVars == <<ledgerHeight, shownGraph, shownFeed, before, front, calls, refreshing, called>>

-----------------------------------------------------------------------------
(* The service.                                                            *)

PositionBefore(p, q) == p[1] < q[1] \/ (p[1] = q[1] /\ p[2] < q[2])

\* The transactions of the blocks after a height, up to another.
Recorded(after, upto) ==
  UNION {{<<h, i>> : i \in 1 .. BlockSize[h]} : h \in after + 1 .. upto}

NoPosition == <<0, 0>>

Newest(positions) ==
  CHOOSE p \in positions \cup {NoPosition} : \A q \in positions : ~PositionBefore(p, q)

\* _knowledge_graph_view: all artifacts, or those after a height.
GraphAnswer(after) == [height |-> ledgerHeight, items |-> Recorded(after, ledgerHeight)]

\* _feed_page: the newest transactions before the cursor, if there is one, and
\* the cursor for what is older.
FeedAnswer(cursor) ==
  LET positions == {p \in Recorded(0, ledgerHeight) :
                      cursor = NoPosition \/ PositionBefore(p, cursor)}
      page == {p \in positions : Cardinality({q \in positions : PositionBefore(p, q)}) < PageSize}
  IN  [height |-> ledgerHeight, items |-> page, newest |-> Newest(page),
       next |-> IF page = positions THEN NoPosition
                ELSE CHOOSE p \in page : \A q \in page : ~PositionBefore(q, p)]

-----------------------------------------------------------------------------
(* What the page shows.                                                    *)

NoGraph == [height |-> -1, items |-> {}]

\* Mutant: an update replaces what is shown.
ReplacedGraph(graph, answer) == [height |-> answer.height, items |-> answer.items]

\* applyGraphUpdate: artifacts are added by reference, the height is the answer's.
MergedGraph(graph, answer) == [height |-> answer.height, items |-> graph.items \cup answer.items]

\* Mutant: transactions are told apart by their block.
MergedByHeight(feed, items) ==
  feed \cup {p \in items : \A q \in feed : q[1] # p[1]}

\* applyFeedPage: transactions are told apart by their position.
MergedFeed(feed, items) == feed \cup items

NoAnswer == [height |-> -1, items |-> {}, newest |-> NoPosition, next |-> NoPosition]
Waiting(at, ids) == [at |-> at, ids |-> ids]
NotRefreshing == Waiting("idle", {})
NodeCall == 0

GraphCall(id, after) ==
  [id |-> id, kind |-> "graph", after |-> after, cursor |-> NoPosition, answer |-> NoAnswer]
FeedCall(id, kind, cursor) ==
  [id |-> id, kind |-> kind, after |-> 0, cursor |-> cursor, answer |-> NoAnswer]

BrowserInit ==
  /\ ledgerHeight = 0
  /\ shownGraph = NoGraph /\ shownFeed = {} /\ before = NoPosition /\ front = NoPosition
  /\ calls = {} /\ refreshing = NotRefreshing /\ called = 0

shown == <<shownGraph, shownFeed, before, front>>

IndexBlock ==
  /\ ledgerHeight < Len(BlockSize)
  /\ ledgerHeight' = ledgerHeight + 1
  /\ UNCHANGED <<shown, calls, refreshing, called>>

-----------------------------------------------------------------------------
(* Calls of the page.                                                      *)

\* A first refresh asks for node, graph and feed at once, a later one in turn.
Refresh ==
  /\ refreshing = NotRefreshing /\ called + 2 <= MaxCalls
  /\ IF shownGraph = NoGraph
       THEN /\ calls' = calls \cup {GraphCall(called + 1, 0),
                                    FeedCall(called + 2, "feed", NoPosition)}
            /\ called' = called + 2
            /\ refreshing' = Waiting("all", {NodeCall, called + 1, called + 2})
       ELSE /\ refreshing' = Waiting("node", {NodeCall})
            /\ UNCHANGED <<calls, called>>
  /\ UNCHANGED <<ledgerHeight, shown>>

\* A later refresh goes on from the height it shows by then.
NodeAnswers ==
  /\ NodeCall \in refreshing.ids
  /\ IF refreshing.at = "all"
       THEN /\ refreshing' = IF refreshing.ids = {NodeCall} THEN NotRefreshing
                             ELSE Waiting("all", refreshing.ids \ {NodeCall})
            /\ UNCHANGED <<calls, called>>
       ELSE /\ called < MaxCalls
            /\ calls' = calls \cup {GraphCall(called + 1, shownGraph.height)}
            /\ called' = called + 1
            /\ refreshing' = Waiting("graph", {called + 1})
  /\ UNCHANGED <<ledgerHeight, shown>>

NodeFails ==
  /\ NodeCall \in refreshing.ids
  /\ refreshing' = NotRefreshing
  /\ UNCHANGED <<ledgerHeight, shown, calls, called>>

\* The button is off while its call is under way.
LoadOlder ==
  /\ before # NoPosition /\ called < MaxCalls
  /\ \A c \in calls : c.kind # "older"
  /\ calls' = calls \cup {FeedCall(called + 1, "older", before)}
  /\ called' = called + 1
  /\ UNCHANGED <<ledgerHeight, shown, refreshing>>

Answer(c) ==
  /\ c.answer = NoAnswer
  /\ calls' = (calls \ {c}) \cup
       {[c EXCEPT !.answer = IF c.kind = "graph" THEN GraphAnswer(c.after)
                                                 ELSE FeedAnswer(c.cursor)]}
  /\ UNCHANGED <<ledgerHeight, shown, refreshing, called>>

CallFails(c) ==
  /\ calls' = calls \ {c}
  /\ refreshing' = IF c.id \in refreshing.ids THEN NotRefreshing ELSE refreshing
  /\ UNCHANGED <<ledgerHeight, shown, called>>

-----------------------------------------------------------------------------
(* Answers of the service.                                                 *)

\* The refresh that waits for this call alone is over; another goes on waiting.
Arrived(c) ==
  IF c.id \notin refreshing.ids THEN refreshing
  ELSE IF refreshing.ids = {c.id} THEN NotRefreshing
  ELSE Waiting(refreshing.at, refreshing.ids \ {c.id})

\* Only what brings new artifacts makes a later refresh fetch the feed.
ApplyGraph(c) ==
  /\ c.kind = "graph" /\ c.answer # NoAnswer
  /\ shownGraph' = MergedGraph(shownGraph, c.answer)
  /\ IF refreshing = Waiting("graph", {c.id}) /\ c.answer.items # {}
       THEN /\ called < MaxCalls
            /\ calls' = (calls \ {c}) \cup {FeedCall(called + 1, "feed", NoPosition)}
            /\ called' = called + 1
            /\ refreshing' = Waiting("feed", {called + 1})
       ELSE /\ calls' = calls \ {c}
            /\ refreshing' = Arrived(c)
            /\ UNCHANGED called
  /\ UNCHANGED <<ledgerHeight, shownFeed, before, front>>

\* The cursor follows the older pages; a newest page sets it where there is none.
ApplyFeed(c) ==
  /\ c.kind \in {"feed", "older"} /\ c.answer # NoAnswer
  /\ shownFeed' = MergedFeed(shownFeed, c.answer.items)
  /\ before' = IF c.kind = "older" \/ before = NoPosition THEN c.answer.next ELSE before
  /\ front' = IF c.kind = "feed" /\ before = NoPosition THEN c.answer.newest ELSE front
  /\ calls' = calls \ {c}
  /\ refreshing' = Arrived(c)
  /\ UNCHANGED <<ledgerHeight, shownGraph, called>>

BrowserNext ==
  \/ IndexBlock \/ Refresh \/ NodeAnswers \/ NodeFails \/ LoadOlder
  \/ \E c \in calls : Answer(c) \/ CallFails(c) \/ ApplyGraph(c) \/ ApplyFeed(c)

BrowserSpec == BrowserInit /\ [][BrowserNext]_browserVars

-----------------------------------------------------------------------------
\* The graph shows every artifact up to the height it goes on from, so that no
\* refresh misses one; and paging back from the page that set the cursor loses
\* no transaction, to the very first when nothing older is offered.
PageIsComplete ==
  /\ Recorded(0, shownGraph.height) \subseteq shownGraph.items
  /\ \A p \in Recorded(0, ledgerHeight) :
       (p = front \/ PositionBefore(p, front)) /\ ~PositionBefore(p, before) => p \in shownFeed
=============================================================================
