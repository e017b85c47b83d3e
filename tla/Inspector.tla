----------------------------- MODULE Inspector -----------------------------
(***************************************************************************)
(* The read-only inspector beside a node (InspectorService behind          *)
(* InspectorServer): HTTP threads that observe the node's chain without a  *)
(* lock, then take the lock, read the entries committed after the indexed  *)
(* height in one SQLite transaction, advance the index and answer from it. *)
(*                                                                         *)
(* The environment is the network and the node's database, which the node  *)
(* moves one block at a time, an operator may put back to an earlier state *)
(* of the same history, and a network that is formed anew replaces; and    *)
(* the clients, who page backwards through the feed.                       *)
(***************************************************************************)
EXTENDS KnowledgeGraphIndex, FiniteSets

CONSTANTS
  Thread,           \* request threads of ThreadingHTTPServer
  NoThread,         \* the lock is free
  NoChain,          \* _indexed_chain_id is None
  FeedLimit,        \* transactions of one feed page
  Asked,            \* the operations clients ask for
  MaxHeight,        \* bound: blocks of a network
  MaxBlockTxs,      \* bound: accepted transactions of one block
  MaxRestores,      \* bound: databases put back to an earlier height
  MaxReplacements   \* bound: networks formed anew

\* What a client asks for.  after_height, before and artifact_ref are the
\* arguments of one operation each.
Operation == {"node", "snapshot", "graph", "feed", "contribution"}

ASSUME InspectorAssumption ==
  /\ Asked \subseteq Operation
  /\ NoThread \notin Thread
  /\ Ref # {}
  /\ NoChain \notin Chain
  /\ FeedLimit \in Nat \ {0}
  /\ {MaxHeight, MaxBlockTxs, MaxRestores, MaxReplacements} \subseteq Nat

VARIABLES
  chain,           \* chain identifier of the node's network
  history,         \* the network's committed blocks, as a snapshot
  stored,          \* height of the node's database, a prefix of history
  restores,        \* databases put back so far
  replacements,    \* networks formed anew so far
  index,           \* InspectorService._index
  indexedHeight,   \* InspectorService._indexed_height
  indexedChain,    \* InspectorService._indexed_chain_id
  lock,            \* InspectorService._lock
  request,         \* the request each thread serves
  session          \* the feed pages each client has loaded

world == <<chain, history, stored, restores, replacements>>
service == <<index, indexedHeight, indexedChain>>
vars == <<world, service, lock, request, session>>

-----------------------------------------------------------------------------
(* None as an integer, and as a feed cursor.                               *)
NoHeight == -1
NoCursor == [height |-> 0, index |-> 0]

\* The position of a transaction in the ledger.
Position(x) == [height |-> x.height, index |-> x.index]
Positions(artifacts) == {Position(artifacts[i]) : i \in DOMAIN artifacts}
Cursor == [height : Nat, index : Nat]

\* Tuple comparison of two positions.
Later(p, q) == p.height > q.height \/ (p.height = q.height /\ p.index > q.index)

\* The artifacts of the transaction at a position.
TransactionAt(artifacts, p) == Only(artifacts, {x \in IndexedArtifact : Position(x) = p})

Answer == [status : {"none", "ok", "error"},
           cause  : {"none", "unavailable", "chain", "behind", "append", "after"},
           height : Nat,                     \* the indexed height
           body   : Seq(IndexedArtifact),    \* the artifacts shown, in order
           page   : Seq(Seq(IndexedArtifact)),  \* the transactions of a feed page
           next   : Cursor]                  \* next_before

NoAnswer == [status |-> "none", cause |-> "none", height |-> 0, body |-> <<>>, page |-> <<>>,
             next |-> NoCursor]

\* asked: the database has held at least this height since the request came;
\* network: the networks formed anew before it came.
Request == [phase   : {"idle", "observe", "wait", "read", "advance", "done"},
            op      : Operation,
            after   : Int,
            before  : Cursor,
            ref     : Ref,
            node    : Chain \cup {NoChain},   \* the chain observed
            height  : Nat,                    \* ArtifactLedgerUpdate.height
            entries : Ledger,                 \* ArtifactLedgerUpdate.entries
            asked   : Nat,
            network : Nat,
            answer  : Answer]

NoSession == [seen |-> <<>>, cursor |-> NoCursor, top |-> 0]

TypeOK ==
  /\ chain \in Chain
  /\ history \in Snapshot
  /\ stored \in 0 .. history.height
  /\ restores \in 0 .. MaxRestores
  /\ replacements \in 0 .. MaxReplacements
  /\ index.height \in Nat /\ index.nodes \in Seq(IndexedArtifact)
  /\ DOMAIN index.adjacency \subseteq Key
  /\ indexedHeight \in Nat \cup {NoHeight}
  /\ indexedChain \in Chain \cup {NoChain}
  /\ lock \in Thread \cup {NoThread}
  /\ request \in [Thread -> Request]
  /\ session \in [Thread -> [seen : Seq(Seq(IndexedArtifact)), cursor : Cursor, top : Nat]]

Idle == [phase |-> "idle", op |-> "node", after |-> NoHeight, before |-> NoCursor,
         ref |-> CHOOSE r \in Ref : TRUE, node |-> NoChain, height |-> 0,
         entries |-> <<>>, asked |-> 0, network |-> 0, answer |-> NoAnswer]

Init ==
  /\ chain = ExpectedChain
  /\ history = EmptySnapshot
  /\ stored = 0
  /\ restores = 0 /\ replacements = 0
  /\ index = EmptyIndex
  /\ indexedHeight = NoHeight
  /\ indexedChain = NoChain
  /\ lock = NoThread
  /\ request = [t \in Thread |-> Idle]
  /\ session = [t \in Thread |-> NoSession]

-----------------------------------------------------------------------------
(* The node's database.                                                    *)

\* The database at a height of the history.
At(height) ==
  [height |-> height,
   ledger |-> Only(history.ledger, {e \in Entry : e.height <= height})]

\* The validator accepts the transaction on this chain after these entries.
Legal(tx, ledger) ==
  /\ tx.chain = chain
  /\ ~Duplicate(tx, ledger)
  /\ ~MissingReference(tx, ledger)

\* The network commits its next block, and the node with it.
CommitBlock ==
  /\ stored = history.height /\ stored < MaxHeight
  /\ \E k \in 0 .. MaxBlockTxs : \E block \in [1 .. k -> Transaction] :
       LET entries == [i \in 1 .. k |->
                         [height |-> stored + 1, index |-> i - 1, tx |-> block[i]]]
           ledger == history.ledger \o entries
       IN  /\ \A i \in 1 .. k :
                Legal(block[i], Prefix(ledger, Len(history.ledger) + i - 1))
           /\ history' = [height |-> stored + 1, ledger |-> ledger]
  /\ stored' = stored + 1
  /\ UNCHANGED <<chain, restores, replacements, service, lock, request, session>>

\* A node that was put back executes the same blocks again.
CatchUp ==
  /\ stored < history.height
  /\ stored' = stored + 1
  /\ UNCHANGED <<chain, history, restores, replacements, service, lock, request,
                 session>>

\* The operator replaces the node's home by an earlier or an empty one.
RestoreDatabase ==
  /\ restores < MaxRestores
  /\ restores' = restores + 1
  /\ \E height \in 0 .. (stored - 1) :
       /\ stored' = height
       /\ request' = [t \in Thread |->
            IF request[t].asked > height THEN [request[t] EXCEPT !.asked = height]
                                         ELSE request[t]]
  /\ UNCHANGED <<chain, history, replacements, service, lock, session>>

\* A network is formed anew at the same addresses, under any chain identifier.
ReplaceNetwork ==
  /\ replacements < MaxReplacements
  /\ replacements' = replacements + 1
  /\ \E c \in Chain : chain' = c
  /\ history' = EmptySnapshot
  /\ stored' = 0
  /\ request' = [t \in Thread |-> [request[t] EXCEPT !.asked = 0]]
  /\ UNCHANGED <<restores, service, lock, session>>

-----------------------------------------------------------------------------
(* What an answer holds, from the index.                                   *)

\* Mutant: a delta repeats the height the client has.
TopologyFrom(idx, after) == Only(idx.nodes, {x \in IndexedArtifact : x.height >= after})

\* _knowledge_graph_view.
TopologyAfter(idx, after) == Only(idx.nodes, {x \in IndexedArtifact : x.height > after})

\* Mutant: the transaction at the cursor is sent again.
PositionsBeforeAgain(idx, before) ==
  {p \in Positions(idx.nodes) : before = NoCursor \/ ~Later(p, before)}

PositionsBefore(idx, before) ==
  {p \in Positions(idx.nodes) : before = NoCursor \/ Later(before, p)}

\* The k-th newest of some positions.
Newest(positions, k) ==
  CHOOSE p \in positions : Cardinality({q \in positions : Later(q, p)}) = k - 1

\* _feed_page: the newest transactions before the cursor, and the next cursor.
FeedPage(idx, before) ==
  LET positions == PositionsBefore(idx, before)
      count     == Cardinality(positions)
      size      == IF count > FeedLimit THEN FeedLimit ELSE count
  IN  [page |-> [k \in 1 .. size |-> TransactionAt(idx.nodes, Newest(positions, k))],
       next |-> IF count > FeedLimit THEN Newest(positions, size) ELSE NoCursor]

\* What contribution answers: nothing unless the reference names one.
Detail(idx, ref) ==
  Only(idx.nodes, {x \in IndexedArtifact : x.ref = ref /\ IsContribution(x)})

AnswerFrom(r, idx) ==
  LET answer == [NoAnswer EXCEPT !.status = "ok", !.height = idx.height]
      feed   == FeedPage(idx, r.before)
  IN  CASE r.op = "feed"         -> [answer EXCEPT !.page = feed.page, !.next = feed.next]
        [] r.op = "contribution" -> [answer EXCEPT !.body = Detail(idx, r.ref)]
        [] OTHER                 -> [answer EXCEPT !.body = TopologyAfter(idx, r.after)]

Failure(cause) == [NoAnswer EXCEPT !.status = "error", !.cause = cause]

-----------------------------------------------------------------------------
(* One request.                                                            *)

\* A request a handler has parsed, with the arguments of its operation.
Parsed(t, r) ==
  /\ request' = [request EXCEPT ![t] =
       [r EXCEPT !.phase = "observe", !.asked = stored, !.network = replacements]]
  /\ UNCHANGED <<world, service, lock, session>>

\* A client asks for the graph after a height it was told, or for all of it.
GetGraph(t) ==
  \E after \in {NoHeight} \cup 0 .. MaxHeight :
     Parsed(t, [Idle EXCEPT !.op = "graph", !.after = after])

\* It asks for the page of the feed after the last it loaded, or starts over.
GetFeed(t) ==
  \E before \in {NoCursor, session[t].cursor} :
     Parsed(t, [Idle EXCEPT !.op = "feed", !.before = before])

GetContribution(t) ==
  \E ref \in Ref : Parsed(t, [Idle EXCEPT !.op = "contribution", !.ref = ref])

\* do_GET dispatches; a request that does not parse changes nothing.
Receive(t) ==
  /\ request[t].phase = "idle"
  /\ \/ \E op \in Asked \cap {"node", "snapshot"} : Parsed(t, [Idle EXCEPT !.op = op])
     \/ "graph" \in Asked /\ GetGraph(t)
     \/ "feed" \in Asked /\ GetFeed(t)
     \/ "contribution" \in Asked /\ GetContribution(t)

\* _observe_node, before the lock: the chain the node is on now.
Observe(t) ==
  /\ request[t].phase = "observe"
  /\ request' = [request EXCEPT
       ![t].node = chain,
       ![t].phase = IF request[t].op = "node" THEN "done" ELSE "wait",
       ![t].answer = IF request[t].op = "node"
                     THEN [NoAnswer EXCEPT !.status = "ok"] ELSE NoAnswer]
  /\ UNCHANGED <<world, service, lock, session>>

\* CometBFT does not answer: _model turns the OSError into a 503.
ObserveFails(t) ==
  /\ request[t].phase = "observe"
  /\ request' = [request EXCEPT ![t].phase = "done", ![t].answer = Failure("unavailable")]
  /\ UNCHANGED <<world, service, lock, session>>

Lock(t) ==
  /\ request[t].phase = "wait"
  /\ lock = NoThread
  /\ lock' = t
  /\ request' = [request EXCEPT ![t].phase = "read"]
  /\ UNCHANGED <<world, service, session>>

\* Mutant: an exception leaves the lock taken.
FinishHoldingOnError(t, answer) ==
  /\ request' = [request EXCEPT ![t].phase = "done", ![t].answer = answer]
  /\ lock' = IF answer.status = "error" THEN lock ELSE NoThread

\* The with block ends, by a return or an exception.
Finish(t, answer) ==
  /\ request' = [request EXCEPT ![t].phase = "done", ![t].answer = answer]
  /\ lock' = NoThread

WrongNode(t) == indexedChain # NoChain /\ indexedChain # request[t].node

\* The guard at the head of _synchronize.
RefuseNode(t) ==
  /\ request[t].phase = "read"
  /\ WrongNode(t)
  /\ Finish(t, Failure("chain"))
  /\ UNCHANGED <<world, service, session>>

\* SQLiteArtifactLedgerReader.updates_after.
UpdatesAfter(height) ==
  [height  |-> stored,
   entries |-> Only(At(stored).ledger, {e \in Entry : e.height > height})]

ReadUpdates(t) ==
  /\ request[t].phase = "read"
  /\ ~WrongNode(t)
  /\ LET update == UpdatesAfter(index.height)
     IN  request' = [request EXCEPT ![t].phase = "advance",
                                    ![t].height = update.height,
                                    ![t].entries = update.entries]
  /\ UNCHANGED <<world, service, lock, session>>

\* SQLite raises; _model lets that error through and the connection closes
\* without a response.
ReadFails(t) ==
  /\ request[t].phase = "read"
  /\ ~WrongNode(t)
  /\ Finish(t, Failure("unavailable"))
  /\ UNCHANGED <<world, service, session>>

\* Mutant: an index that holds something is never refreshed.
UnchangedOnceFilled(r) == index.nodes # <<>>

Unchanged(r) == r.height = indexedHeight /\ r.entries = <<>>

ChainsOf(entries) == {entries[i].tx.chain : i \in DOMAIN entries}

\* Mutant: the chain of the entries is compared with nothing.
RefusalTrustingEntries(r) ==
  IF indexedHeight # NoHeight /\ r.height < indexedHeight        THEN "behind"
  ELSE IF Unchanged(r)                                           THEN "none"
  ELSE IF ~AppendAllowed(index, r.entries, r.height)             THEN "append"
  ELSE "none"

\* Mutant: the heights are compared nowhere, _append_state included.
RefusalIgnoringHeight(r) ==
  IF Unchanged(r)                                                THEN "none"
  ELSE IF ~(ChainsOf(r.entries) \subseteq {r.node})              THEN "chain"
  ELSE "none"

\* The ValueErrors of _advance_index, the first that applies.
Refusal(r) ==
  IF indexedHeight # NoHeight /\ r.height < indexedHeight        THEN "behind"
  ELSE IF Unchanged(r)                                           THEN "none"
  ELSE IF ~(ChainsOf(r.entries) \subseteq {r.node})              THEN "chain"
  ELSE IF ~AppendAllowed(index, r.entries, r.height)             THEN "append"
  ELSE "none"

Refuse(t) ==
  /\ request[t].phase = "advance"
  /\ Refusal(request[t]) # "none"
  /\ Finish(t, Failure(Refusal(request[t])))
  /\ UNCHANGED <<world, service, session>>

\* _advance_index and the view built from the index it leaves.
Advance(t) ==
  LET r == request[t]
  IN  /\ r.phase = "advance"
      /\ Refusal(r) = "none"
      /\ index' = IF Unchanged(r) THEN index ELSE Appended(index, r.entries, r.height)
      /\ indexedHeight' = r.height
      /\ indexedChain' = IF r.entries = <<>> THEN indexedChain ELSE r.node
      /\ Finish(t, IF r.after > index'.height THEN Failure("after")
                                              ELSE AnswerFrom(r, index'))
      /\ UNCHANGED <<world, session>>

\* The client takes the answer; loadOlderActivity keeps the cursor and the
\* transactions of the page.
Deliver(t) ==
  LET r     == request[t]
      first == r.before = NoCursor
  IN  /\ r.phase = "done"
      /\ request' = [request EXCEPT ![t] = Idle]
      /\ session' =
           IF r.op # "feed" \/ r.answer.status # "ok" THEN session
           ELSE [session EXCEPT ![t] =
                   [seen   |-> (IF first THEN <<>> ELSE session[t].seen) \o r.answer.page,
                    cursor |-> r.answer.next,
                    top    |-> IF first THEN r.answer.height ELSE session[t].top]]
      /\ UNCHANGED <<world, service, lock>>

\* The inspector process starts again; its requests are lost.
RestartInspector ==
  /\ index' = EmptyIndex
  /\ indexedHeight' = NoHeight
  /\ indexedChain' = NoChain
  /\ lock' = NoThread
  /\ request' = [t \in Thread |-> Idle]
  /\ UNCHANGED <<world, session>>

Serve(t) ==
  \/ Observe(t)
  \/ ObserveFails(t)
  \/ Lock(t)
  \/ RefuseNode(t)
  \/ ReadUpdates(t)
  \/ ReadFails(t)
  \/ Refuse(t)
  \/ Advance(t)

Next ==
  \/ CommitBlock
  \/ CatchUp
  \/ RestoreDatabase
  \/ ReplaceNetwork
  \/ RestartInspector
  \/ \E t \in Thread : Receive(t) \/ Serve(t) \/ Deliver(t)

Spec == Init /\ [][Next]_vars

\* Threads run, clients take their answers, and a node that was put back
\* executes the blocks it lacks.  The lock is not fair: who waits for it may
\* wait while others take it.
FairSpec ==
  /\ Spec
  /\ WF_vars(CatchUp)
  /\ \A t \in Thread : WF_vars(Serve(t)) /\ WF_vars(Deliver(t))

-----------------------------------------------------------------------------
(* Properties.                                                             *)

\* The pages show the transactions at these positions, each of them once and
\* whole, the newest first.
Shows(pages, artifacts, positions) ==
  /\ \A k \in DOMAIN pages :
       /\ pages[k] # <<>>
       /\ Position(pages[k][1]) \in positions
       /\ pages[k] = TransactionAt(artifacts, Position(pages[k][1]))
  /\ \A k, l \in DOMAIN pages :
       k < l => Later(Position(pages[k][1]), Position(pages[l][1]))
  /\ \A p \in positions : \E k \in DOMAIN pages : Position(pages[k][1]) = p

\* No cursor lies behind every transaction.
UpTo(cursor, positions) == {p \in positions : cursor = NoCursor \/ ~Later(cursor, p)}

\* A page goes on from its cursor and leaves no transaction out.
PageIsNext(r, artifacts) ==
  LET older == {p \in Positions(artifacts) : r.before = NoCursor \/ Later(r.before, p)}
  IN  /\ Shows(r.answer.page, artifacts, UpTo(r.answer.next, older))
      /\ Len(r.answer.page) <= FeedLimit
      /\ r.answer.next # NoCursor => /\ r.answer.next \in older
                                     /\ Len(r.answer.page) = FeedLimit
                                     /\ UpTo(r.answer.next, older) # older

\* The answer is what the operation says of these committed artifacts.
ShowsExactly(r, artifacts) ==
  LET body == r.answer.body
  IN  CASE r.op = "feed" -> PageIsNext(r, artifacts)
        [] r.op = "contribution" ->
             /\ Len(body) <= 1
             /\ ToSet(body) =
                  {x \in ToSet(artifacts) : x.ref = r.ref /\ IsContribution(x)}
        [] OTHER ->
             body = Only(artifacts, {x \in IndexedArtifact : x.height > r.after})

Viewed(r) == r.phase = "done" /\ r.op # "node" /\ r.answer.status = "ok"

\* While the network is the one the inspector started with, every view is of
\* one committed height: all that was recorded up to it and nothing else,
\* whatever requests advanced the index in between.
ViewsMatchHistory ==
  \A t \in Thread : Viewed(request[t]) /\ replacements = 0 =>
     /\ request[t].answer.height <= history.height
     /\ ShowsExactly(request[t],
                     IndexedArtifacts(At(request[t].answer.height).ledger))

\* tests/test_inspector_service.py:123: a replaced ledger cannot silently leave
\* a stale graph marked as current.  A request that came after the
\* replacement is answered from the new ledger, or with an error.
ReplacedLedgerIsNoticed ==
  \A t \in Thread : Viewed(request[t]) /\ request[t].network = replacements =>
     ShowsExactly(request[t], IndexedArtifacts(At(request[t].answer.height).ledger))

\* A view is no older than the database was when the request came.
ViewsAreFresh ==
  \A t \in Thread : Viewed(request[t]) => request[t].answer.height >= request[t].asked

\* In that network the index grown block by block answers each query as the
\* ledger does.
IndexMatchesLedger == replacements = 0 => AnswersFrom(index, At(index.height).ledger)

\* The lock serialises readers of updates: in that network none meets an index
\* that has moved on, so that append never raises.
AppendNeverRefuses ==
  replacements = 0 => \A t \in Thread : request[t].answer.cause # "append"

\* Node and artifacts of one view belong to one chain, although the node is
\* observed before the lock and the ledger read under it.
OneChainPerView ==
  \A t \in Thread : Viewed(request[t]) =>
     \A shown \in {request[t].answer.body} \cup ToSet(request[t].answer.page) :
        \A x \in ToSet(shown) : x.chain = request[t].node

\* Pages loaded one after another show every transaction of the height of the
\* first page down to the cursor, once and in order, while new blocks arrive.
\* A database that was put back, or replaced, is another ledger.
PagesCoverHistory ==
  restores = 0 /\ replacements = 0 =>
    \A t \in Thread :
       LET all == IndexedArtifacts(At(session[t].top).ledger)
       IN  Shows(session[t].seen, all, UpTo(session[t].cursor, Positions(all)))

\* Only a new inspector process presents an earlier height than before.
PresentedHeightNeverFalls ==
  [][index'.height < index.height => index' = EmptyIndex]_index

\* The shared index is that of one committed ledger, whatever requests advance
\* it, and no request finds it ahead of what it reads.
IndexIsSound == IndexMatchesLedger /\ AppendNeverRefuses

\* The lock is not kept for good, by an error or by a reader.
LockIsReleased ==
  \A t \in Thread : lock = t ~> lock # t

\* An inspector that refused a database put back to an earlier height serves
\* it again once it has caught up, without being restarted.
RefusalsEnd ==
  <>[](\A t \in Thread : request[t].answer.cause # "behind")

\* An inspector serves again by itself after errors and refusals.
InspectorRecovers == LockIsReleased /\ RefusalsEnd
=============================================================================
