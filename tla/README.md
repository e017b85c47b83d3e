# Discovery Net in TLA+

Discovery Net replicates a ledger of signed research artifacts.  Every node
runs two processes: CometBFT, which decides blocks of transactions, and the
Discovery Net application (`src/discovery_net/node`), which CometBFT drives
over ABCI/gRPC.  The application validates transactions, executes decided
blocks, and keeps the resulting ledger in one SQLite file, which other
processes (inspector, command line and MCP servers) read.  A second program in
the same repository, the research controller, runs a team of agents that write
the artifacts.

The modules here model both: what a node may do when it or CometBFT crashes at
any instant and why all replicas end up with the same ledger; how a submission
gets there; what the inspector and its page show of a ledger that moves while it
is read; how a validator's home is made; and how commands, workers and their
files fit together in the research team.

Paths of modules of the program are relative to `src/discovery_net`; `tests`,
`localnet` and documents are at the root of the repository.

## Inventory

| Component | State | Operations | What is hard | What makes it correct |
|---|---|---|---|---|
| Transaction validator (`node/transaction_validator.py`) | none | `validate` against a ledger | order of checks, references inside one transaction | one verdict for one ledger, on every replica |
| Artifact ledger (`node/local_artifact_ledger.py`, `_ledger_from_snapshot.py`) | entries, lookup, hash chain | `append_transaction`, replay | what is written must be accepted when read back | unique artifacts, resolved relations, replayable |
| Callback handler (`node/cometbft_callback_handler.py`, `abci.py`, `abci_grpc_server.py`) | committed height and ledger, pending block, lock | Info, InitChain, CheckTx, PrepareProposal, FinalizeBlock, Commit | four gRPC threads, callers that die, crashes between disk and memory | memory follows disk, heights reported are durable, one hash per height |
| SQLite store (`node/store`) | two tables, rollback journal | `load`, `save` | locks against readers, hot journals, byte order of indexes | each save atomic and append-only |
| CometBFT (external) | block store, mempool, view of the application height | handshake, FinalizeBlock, Commit, broadcast | replays blocks after restarts, stops on an error answer | the application is never ahead of it |
| Submission (`submission`, `entrypoints/cli.py`) | none | sign, broadcast, receipt | timeouts that hide success, receipts from CheckTx only | what is accepted is kept, a repetition records nothing twice |
| Knowledge graph index and queries (`indexing`, `query`) | nodes and adjacency at a height | `append`, lookups | incremental against rebuilt | equals the index of the whole ledger |
| Inspector (`inspector`) | index, indexed chain, lock | snapshot, graph, feed page, contribution | threads, a node observed before the lock, paging while blocks arrive | views of one committed height, no entry skipped |
| Inspector's page (`inspector/static/inspector.js`) | graph, feed, cursor, requests under way | refresh, load older activity | answers that overlap, one of several calls failing | what it takes itself to have, it has |
| Node home (`node/runtime`) | files under the CometBFT home | initialize, export, create and install genesis, launch | kills and power losses between steps, racing commands | a home that exists is complete, a key signs in one network |
| Agents of a team (`research_team/controller.py`) | prompts, history, state lock, workers | new, retarget, retire, start, stop | commands racing on files, prompts changing under a running pass | one workspace each, no prompt lost |
| One agent's worker (`controller.py`) | registration, worker lock, run record, marker | start, stop, status, wait | processes without a common lock | one worker per agent, commands tell the truth |
| Its pass loop (`controller.py`, `claude_code.py`) | conversation ids, follow-ups, usage, reports, digest | passes, follow-ups, limits | a kill between two file writes, lost sessions | follow-ups arrive, passes are recorded once, mandates are sent |
| Impact assessment (`research_team/impact.py`) | annotations, cursor | build context, record batch | kills between append and cursor, late records | every finished run assessed |
| Dashboard (`research_team/dashboard.py`) | none | `timeline_snapshot` | files read one by one while they change | each pass once and in a state it was in |
| Wire format and signing (`wire`), argument parsing, generated messages | none | conversions | canonical form | injective |

Interaction.  CometBFT calls the handler over gRPC (at most four worker
threads, one lock); the handler calls the validator, the immutable ledger and
the store.  Inspector and command line open the same SQLite file, the
former without ever writing.  Submission talks to CometBFT's RPC only, and
CometBFT asks the handler (CheckTx) before it takes a transaction.  The page
polls the inspector.  Controller commands share files with the detached worker processes they
spawn, workers run a CLI (`codex` or `claude`) per pass, and the impact assessor and
the dashboard read what workers leave behind.

## Modules

| Module | Models | Source |
|---|---|---|
| `ArtifactLedger` | transactions, `Validate`, `CanAppend`, `Execute`, `Replayable`, snapshots, `SaveAllowed`/`Saved`, as operators | `node/transaction_validator.py`, `local_artifact_ledger.py`, `_ledger_from_snapshot.py`, `store/*` |
| `DiscoveryNode` | nodes: handler, database and CometBFT of each, with crashes and restarts | `node/cometbft_callback_handler.py`, `abci.py`, `abci_grpc_server.py` |
| `ReplicatedLedger` | the abstract promise: every replica's database is the execution of a prefix of the decided blocks | `finalize_block` and `commit`, without processes |
| `SQLiteStore` | rows, rollback journal, lock states and connections of the processes that share the database | `node/store/*`, `entrypoints/cli.py`, `inspector/sqlite_ledger_reader.py` |
| `LedgerRegister` | the abstract promise of the store: one atomic register of ledgers | `node/store/artifact_ledger_store.py`, without transactions |
| `Submission` | clients, broadcast, CheckTx, mempool, PrepareProposal, execution, recheck | `submission/*`, `cometbft_callback_handler.py`, `entrypoints/cli.py` |
| `KnowledgeGraphIndex` | the index, how it grows, and the queries over it, as operators | `indexing/knowledge_graph_index.py`, `query/knowledge_graph_queries.py` |
| `Inspector` | request threads, lock, incremental synchronisation, views and paging beside a changing database | `inspector/service.py`, `server.py`, `sqlite_ledger_reader.py` |
| `InspectorBrowser` | the page's refreshes and older pages, with calls that overlap and fail | `inspector/static/inspector.js`, `service.py` |
| `CometBFTHome` | one home, the commands and launchers on it, kills and power losses | `node/runtime/*` |
| `AgentRoster` | configured agents; commands under and outside the state lock | `research_team/controller.py` |
| `AgentWorker` | worker processes of one agent and the commands run against them | `research_team/controller.py` |
| `AgentPass` | the pass loop, file write by file write, with both runners | `research_team/controller.py`, `claude_code.py` |
| `ImpactCursor` | passes of the impact assessor over runs that finish meanwhile | `research_team/impact.py` |
| `Timeline` | a dashboard snapshot read while workers write | `research_team/dashboard.py` |
| `Displays` | what dashboard and page promise together | the two above |
| `MCDiscoveryNode`, `MCInspector`, `MCInspectorServes`, `MCAgentWorker`, `MCAgentPass`, `MCAgentRoster`, `MCTeam`, `MCComponents`, `MCProgress` | instances for TLC | |
| `ArtifactLedgerProofs`, `DiscoveryNodeProofs`, `LedgerProofs`, `InspectorProofs`, `DiskProofs`, `AgentWorkerProofs`, `AgentTeamProofs`, `ObserverProofs` | lemmas and theorems | |

`DiscoveryNode`, `ReplicatedLedger`, `Submission` and `KnowledgeGraphIndex` are built
from `ArtifactLedger`; `Inspector` from `KnowledgeGraphIndex`.  `DiscoveryNode`
implements `ReplicatedLedger` (`ImplementsReplicatedLedger`), and `SQLiteStore`
implements `LedgerRegister` (`StoreIsAtomic`); that is why `DiscoveryNode` and `Inspector`
may save and read the database in one step.  The three agent
modules look at the same controller at three grains: `AgentRoster` has
several agents whose worker is down, idle or in a pass, `AgentWorker` one agent
whose pass is one state, `AgentPass` one worker whose registration and lock are
`AgentWorker`'s.

### State of `DiscoveryNode`

`committed[n]` is `_committed_height` with `_committed_ledger`; `pending[n]` is
`_pending_block` (`NoBlock` for `None`); `frame[n]` is the handler call that
holds `_lock`, with its local variables; `calls[n]` holds the consensus calls
the gRPC server has accepted and no thread has started; `disk[n]` is the
SQLite file; `comet[n]` is the CometBFT process as the node sees it;
`decided` is the chain.  `answered` is a history variable (hashes FinalizeBlock
returned) and `faults` counts faults against `MaxFaults`.

`finalize_block` is `StartFinalizeBlock` (or `RefuseFinalizeBlock`), one
`ExecuteTransaction` for each transaction and `FinishFinalizeBlock`; `commit` is
`StartCommit` (or `RefuseCommit`), `SaveSnapshot` (or `SaveFails`) and
`PromoteBlock`.  They are separate steps because a crash of either process, an
Info or another queued call may fall between them; the lock excludes the rest.
A call carries whether the CometBFT that made it still waits: when CometBFT
dies, a running handler goes on, and a queued call may run or be cancelled
(`DropOrphan`).

Two refusals in the code have no step, because they are shown unreachable
(`BlocksGoThrough`): the `RuntimeError` for a validated transaction that cannot be
appended and the `ValueError`s of `_new_entries` for a pending block.

CometBFT is external.  Its steps are the order in which it calls: Info, InitChain
at height 0, replay of stored blocks the application lacks, then FinalizeBlock and
Commit of each decided block.  An error answer halts consensus and leaves the
process alive.  `process_proposal` accepts everything, so a decided block is any
sequence of transactions.

### State of `SQLiteStore`

`file` and `journal` are the database and its rollback journal; `deleted` is the
journal removed last, which a power loss may bring back because
`synchronous = FULL` does not sync the directory; `session[p]` is the connection of
process `p` with the lock it holds and what it has read; `memory` is the node's
own ledger and `saved` the height `save` has returned for.  A commit first writes
the journal, then pages, then deletes the journal; a process killed in
between leaves a hot journal, which the next writer plays back and a reader
opened with `mode=ro` can only fail on.  Rows keep the transaction index as the
bytes `to_bytes` gives, compared byte by byte, and a query returns them by rank.  An error of SQLite is a
failed call, never a wrong answer.

`LedgerRegister` has four variables, which `SQLiteStore` maps.  `ledger` is what a process
that could read would find (`StoredLedger`: of the journal while there is one, of the file
otherwise); `previous` is the ledger of the blocks before `saved`; `memory` is the node's
in both; and `answer` is what a transaction has read when its last SELECT is done.  A save
is one step of the register, the deletion of the journal; a read is one step too, the
SELECT of the rows, whose height was read before and must still be that of the rows.
Opening, locking, flushing, playing a journal back and failing change nothing there.

### State of `Submission`

`client[s]` is an invocation of the library or of the command line, with the
arguments that determine its bytes: a draft names a contribution and the
contributions it relates to in turn (or stands for a relation `alone`), and the
stamp is its `created_at`.  Drafts of one name are the same contribution with other
relations, which a retry may carry.  `requests` are broadcasts the node has not
processed, which outlive a client that timed out; `mempool` and `cache` are
CometBFT's.  CheckTx judges by the committed ledger, PrepareProposal takes a
prefix that fits, a block executes one transaction after the other (`Execute`,
with the `Codes` that are answered) and what remains is checked again
(`Rechecked`).

### State of `Inspector`

`index`, `indexedHeight`, `indexedChain` and `lock` are the fields of
`InspectorService`; `request[t]` is what thread `t` serves, with what it observed
and read so far.  A request is `Receive`, `Observe` (before the lock), `Lock`,
`ReadUpdates` (one SQLite transaction, under the lock), `Advance` (the index moves
and the view is built from it) and `Deliver`; `RefuseNode` and `Refuse` are the
`ValueError`s, in the order of the code, `ObserveFails` and `ReadFails` the errors of
CometBFT and SQLite.  The two comparisons of chains in `_advance_index` that
`_synchronize` or the comparison before them already decided are not repeated.

The database is the prefix of `history` up to `stored`: `CommitBlock` and
`CatchUp` are the node at work, `RestoreDatabase` an operator who puts an earlier
state of the same network in its place, `ReplaceNetwork` a network formed anew.
`asked` and `network` of a request and `session` are history: what the database had
reached when the request came, the networks replaced before it, and the feed pages
a client loaded (`loadOlderActivity` of `inspector.js`).  Paging is promised while the
database is neither put back nor replaced: the next page of a database that was put
back, read by an inspector that started again, lacks what the database lacks.

### State of `InspectorBrowser`

`shownGraph`, `shownFeed` and `before` are `viewModel`, `feedTransactions` and
`feedNextBefore` of the page; `calls` are its fetches under way, `refreshing` is
where the running refresh stands.  A refresh that fails leaves its other calls
under way, and any answer may be the last to arrive.

### State of `CometBFTHome`

`home` is what processes see at the home's path and `onDisk` what a power loss
keeps of it for certain; `command[c]` is where each process is in its command, its
staging directory included; `homeLock` is the `flock` next to the home;
`cometbft` is the launcher that has become CometBFT; `promises` is what commands
reported to operators and `signatures` which key signed in which network.
Each file operation between which a kill matters is a step.

### State of the agent modules

`AgentWorker`: `registration` is `runtime/NAME.json` (the worker whose pid and
nonce it holds), `lock` the `flock` on `runtime/NAME.lock`, `lastRun` and `marker`
are `last-run.json` and `current-pass.json`, `worker[w]` is where a worker
process is in `_worker_loop`, `turns` the workers whose CLI is alive, `pc[c]`,
`reg[c]` and `result[c]` a command and what it read and reported.  A probe of the lock
takes it for an instant, which is a state of its own because the worker may
meet it.

`AgentPass`: one variable for each file of the agent (`digest` for
`prompt.sha256`, `ids` for `thread-id` and `session-id`, `queue`, `usage`,
`reports`, `lastRun`, `marker`), `phase` between two writes, `checked` and `config`
the configuration the loop read and the one the pass read, and `heard`, which
says what each conversation of a runner has received.

`AgentRoster`: `prompts`, `history`, `disabled`, `keys` and `folders` are
directories of the team; `stateLock` is the lock on `controller.lock`; `worker`
and `workspace` are what each agent's worker is doing and where.  A command is its
reads, its checks under the lock and each of its writes.

### State of `ImpactCursor` and `Timeline`

`ImpactCursor`: `recorded` is the `usage.jsonl` of all agents and `unrecorded` a pass
that has finished and is not written yet; `annotations`, `torn` and `cursor` are
the files of the assessor; `assessor` is its pass with the packet it was given.
`origin`, `overtaken` and `glued` are history: the losses the design accepts.
`Timeline`: `work[a]` is a work directory with its worker's phase; `snapshot` is the
snapshot under construction, and which passes began or ended since it was
begun.

## Runs

Several small instances share a run: the initial state picks one and only that
one moves, while the rest keeps one fixed state, so that the states of the run are
the sum of the instances' and not their product.  What it picks is called `setting` in
`AgentWorker` and `AgentPass`, `team` in `AgentRoster`, `scenario` in
`MCInspectorServes`, `part` in `MCTeam` and `MCProgress` and `component` in
`MCComponents`.

| Run | Instance | Shows |
|---|---|---|
| `node` | 2 nodes, 4 transactions, 2 blocks of up to 2, 2 faults, the second only while one node runs alone | safety of a node through every interleaving; replicas never fork; databases implement `ReplicatedLedger` |
| `inspector` | 2 threads, 2 blocks; graph views with 1 restored database, paging with pages of 1, and 1 network formed anew | each view is all of one committed height and no older than its request; paging skips and repeats nothing; no view joins two chains |
| `worker` | a patient operator with 3 workers and every way a worker can fail; two operators at once with 2 workers | one worker and one CLI at a time; a patient operator is told the truth |
| `team` | `AgentPass` in four settings (limit 2, 3 reports, 2 conversations); `AgentRoster` in three (2 callers, 3 names, cap 2) | follow-ups, limits, records and mandates through stops, kills, failures and lost sessions; distinct workspaces and kept prompts through racing commands |
| `components` | ledger, submission, impact, timeline, home, store, page | what each component that stands by itself promises; the store implements `LedgerRegister` |
| `progress` | node, inspector, one-shot and looping agent, pass, impact, submission, all fair | what must eventually happen |
| `comet_restart` | 1 node, 1 crash of CometBFT, fair | **violated**, see the findings |
| `inspector_replaced` | 2 threads, 1 network formed anew under the same identifier | **violated** |
| `worker_orphan` | 1 operator in a hurry, 2 one-shot workers, no fault | **violated** |
| `pass_lost_session` | 1 Claude Code agent, 1 follow-up, sessions that get lost | **violated** |
| `pass_mandate_back` | 2 mandates of one runner, passes that fail | **violated** |
| `roster_retarget` | 1 command at a time with `retarget` | **violated** |

### Bounds

- `node`: two blocks are needed for a block to be pending on a committed one and
  for a replay of a height that is not the first; two transactions in a block
  for one to depend on or collide with the one before.  The transactions are a
  contribution, a contribution with a relation to it, an overlap with a repeated
  artifact and a relation to a relation.  Two faults allow a crash during the
  recovery from a crash; beside a second running node there is one.  Nodes are
  symmetric.
- `inspector`: two threads are the least that race for the index; pages of one
  transaction give every page but the last a successor.  Threads are symmetric.
- `worker`: three workers let a start follow one that followed another; with two
  callers, two workers are the least between which a registration can be
  mistaken.  `slow_start` is a worker that takes longer than `start` waits, `hang` one
  that is still there thirty seconds after SIGTERM, `command_killed` a command that dies between two steps.
- `team`: the limit of two passes and three reports lets one pass fail and the
  agent still reach its limit; a second conversation is what a lost one, or the
  other runner, needs.  Three names beside a cap of two let the cap refuse; two
  workspaces make names collide.  Callers and names are symmetric.
- `components`: ten transactions meet every verdict of the validator
  (`VerdictsAreMet`); two submitters, one of them the command line, with two tries each,
  a contribution that comes with and without its relation, another that relates to
  it and a relation alone, proposals that hold a part of the mempool, three blocks, one
  restart; four instants and a lookback of two;
  two passes on the dashboard; two home commands at a time, seven in all, on
  three keys and two paths, with one kill and one power loss; a database with a block
  whose indexes need two bytes and a block that records nothing, two kills and two power
  losses, the least that could take two saves; a page with more than one page of transactions, and five calls.
- `progress`: smaller instances of the same modules, without symmetry.

Deadlock is checked in `worker`, `team`, `worker_orphan`, the two `pass_` runs and
`roster_retarget`, where an operator can always do something next.  It is not
checked in the others: a bounded chain, clock or number of commands comes to
rest.  What holds for the parameters in general is proved (below).

### Fairness

- Node: weak fairness of handler threads, of CometBFT's own steps and of the
  application start (the container restarts an exited process:
  `restart: unless-stopped` in `localnet/compose.yaml`); strong fairness of
  `RestartNode`, since an operator who sees a stopped node restarts both
  containers, again if need be, as the failure tests do.  `CometRestartSpec` has
  weak fairness of restarting CometBFT alone.
- Inspector: weak fairness of the steps of each thread, of clients taking their
  answers and of the node catching up.  The lock is not fair, so that no request
  is promised an answer.
- Agents: weak fairness of the steps of commands and workers; strong fairness of
  the worker's `flock`, which the kernel grants at some release although a probe
  may be quicker any finite number of times.  In the pass loop, an operator
  starts a worker that ended, and a CLI that can answer sooner or later does
  (strong), though passes may fail before.
- Impact and submission: agents write their records, the assessor is kept running
  and now and then answers as it is asked to; the node processes calls and CometBFT
  decides blocks.

No fairness is assumed of faults, of operators' other commands or of what consensus
decides.  In `MCProgress` one fairness condition joins an action of each part; as
only one part ever moves, it is that part's own condition.

### Findings

- `comet_restart`: if CometBFT alone dies after FinalizeBlock and before Commit,
  its successor replays the block, and the application refuses it because
  `_pending_block` is still set.  Every retry fails alike until the application
  restarts.  `tests/integration/test_recovery.py` restarts CometBFT only between
  commits.
- `inspector_replaced`: the service compares heights and the chains of new
  entries.  A network formed anew that has reached the indexed height passes both
  when its identifier is the old one, or when the old network had no artifact
  yet: the old index is shown at the new height, although
  `tests/test_inspector_service.py:123` excludes a stale graph marked as current.
  Requests made while the new network is still behind are refused.
- `worker_orphan`: `spawn_worker` takes any held lock for the new worker's.  A
  finished worker that has removed its registration and not yet released the lock
  ends the wait; if the next command probes before the new worker has the lock,
  `running_runtime` removes the new registration and `stop` answers that nothing
  runs while the worker goes on.
- `pass_lost_session`: after a lost session `run_pass` retries with the mandate
  alone, and the follow-up, which no agent received, is filed as handled.
- `pass_mandate_back`: `prompt.sha256` is written when a pass has completed.  A
  mandate that was sent in a pass that did not complete leaves the old digest,
  and after a retarget back the conversation goes on under the mandate it was
  told to give up.
- `roster_retarget`: `retarget` changes the workspace on file while a pass still
  runs in the old one, and `new` gives the old one to another agent.

Modelling showed some smaller things, which no document of the repository
contradicts.  A `status` beside a slow start removes the registration of the worker.
`install-genesis` that finds its genesis in place returns without syncing it.  Two
racing starts may change `config.toml` between one's verification and CometBFT's
reading it.  A command line query opens the node's store, whose constructor takes the
write lock, so that a stopped query can make a save time out.  A power loss
may take back the last saved block, which CometBFT replays.  The page's feed has a gap
when more than a page of transactions arrives at once, and does not fetch the newest
page again when only that call failed.  A start that races a retire leaves a pass
running in a workspace another agent may get.  A worker checks the limit of the
mandate its loop read, and the pass may run under another.

## Proofs

Every theorem holds for all values of the constants that satisfy the assumptions
named in the modules: transactions have the shape of `TransactionAssumption`,
limits and bounds are natural numbers, the sets of names, processes and commands
do not overlap, the valid transactions of a block have ascending indexes that fit
its bytes (`StoreConstants`).  The proofs of the two instances of a composed run
(`MCTeam`) are about the module's own specification.

**The node** (`DiscoveryNodeProofs`).  `IInv` is inductive, and the safety properties of
one node follow.  They are not inductive alone.  `StoredLedgerReloads` needs that
what Commit writes reloads, which needs that the pending ledger does
(`PendingInv`), which needs that the running ledger of `finalize_block` does
and stays before the next position (`ExecutionInv`); the store accepts the
pending block because it is the persisted one and one more block
(`Follows`); heights need `HeightsInv`.  `NodeInv` joins these for one node;
a step of one node leaves the others alone (`Locality`).  The lemmas on ledgers
(`ArtifactLedgerProofs`) carry the data: appending a valid transaction
preserves replay, saving writes the snapshot, a replayable ledger has unique
artifacts and resolved relations.

**The replicas** (`DiscoveryNodeProofs`).  `AgreeInv` says that there is one history
of ledgers `H`, each the execution of the next decided block after the one
before, to which every database, every ledger in memory, every pending block and every
answered hash conforms, and of which a running `finalize_block` is a
partial execution.  A step of one node extends or repeats this history, so that
replicas never fork, a reported head was answered, and a save is the step of
`ReplicatedLedger` that executes the next decided block.  With these, every
property of the run `node` is proved.

**The home** (`DiskProofs`).  `HomeInv` follows a home from its staging
directory to its signatures: what each command has checked under the lock still
holds when it acts, and what may be lost is only what no one has been promised.
`HomeSurvives` and `OneNetworkPerKey` follow, power losses included.

**The database** (`DiskProofs`).  `StoreInv` has one part per kind of knowledge: there is
one writer at most, and nobody reads while pages are replaced or a hot journal waits
(`LocksExclude`); what the node holds is the committed snapshot (`MemoryIsCommitted`); what a process has read is still committed while it holds its lock
(`Sound`); power losses take back one save at most, however many they are (`SavesSurvive`),
because a journal that comes back is gone for good once the next save is flushed, and that save
starts from what the journal left.  The lemmas below it are
about data: the order of the bytes is the order of the indexes (`BytesOrderIndexes`), an
intact database reads as the blocks up to its height (`IntactReads`), a set of rows
has one sequence in consensus order (`OneOrder`), and what `save` writes on a snapshot is
the next one (`WrittenHolds`).  `StoreStaysConsistent` follows: readers get whole blocks in
consensus order, and of the saves that returned only the last can be lost.
`StoreRefinesRegister` proves `StoreIsAtomic`, action by action: databases of one height
hold one ledger (`HeightGivesLedger`), so that a step that leaves the height alone is not
seen; what a reader gets after a height is what follows it in that ledger
(`EntriesFollow`); and a save whose journal is deleted is the `Save` of the register,
because the node's memory was what the register held.

**The worker** (`AgentWorkerProofs`).  A worker inside holds the lock, and a CLI lives
within the pass of its worker; so workers exclude one another, and CLIs do unless a worker
dies without its signal handler.  `SettledOperatorIsTold` is about an operator alone
with the agent.  `SettledInv` calls a worker over that will run no pass and write nothing any more; all but one are, that one is the
latest and is registered from the moment it saw its registration, and a command's
place in its code says what it knows of it.  That a probe is right rests on `InsideHoldsLock`:
a live worker that is not starting holds the lock.

**The pass loop** (`AgentTeamProofs`).  `PassInv` has one part per file: a conversation
on file belongs to its runner and has heard a mandate, a prompt fits the conversation it is
sent to, a follow-up that was read is still the first of the queue, a report
that is not billed is the last, and the record of the last run is of a
report.  Every pass property of the run `team` is proved from it.

**The roster** (`AgentTeamProofs`).  `RosterInv` has one part per kind of
knowledge: what a command found out under the state lock is still so at its
write, and everything on file is sound.  Every roster property of the run
`team` is proved from it.

**The abstract ledger** (`LedgerProofs`).  `finalize_block` is a loop, and
`ExactlyTheValidTransactions` says what it computes without one.  The invariant `Through`
gives the loop's history as data: a function of blocks to ledgers, each the outcome
of a run through the block that decides for each transaction by the ledger so
far.  What a position was judged by is then a prefix of the final ledger, because
ledgers are only appended to and positions only ascend.  `ArtifactLedgerProofs`
shows once that `Execute`, a recursive function over the block, is such a run
(`ExecuteRuns`); the induction is over the naturals that satisfy a condition, which are
a set, so that no induction rule with an operator is needed.

**Submissions** (`LedgerProofs`).  `BlocksFailOnlyDuplicates` is not inductive: that a
transaction of the mempool is still valid but for duplicates needs that it was
valid by a ledger which is a prefix of the present one (`NodeSideInv`), that a
restart's lost calls judge nothing, and that relations are to contributions
recorded or in the transaction itself.  `RecordedOnce` needs that what carries a
contribution of a caller was made by that caller, for the draft name and stamp it still
holds (`OwnNames`, `RequestInv`), and `AcceptedIsKept` that the mempool lets go only of what is
recorded or dropped.

**The observers** (`ObserverProofs`).  The cursor of the impact assessor is the
latest time of the packet it recorded; so no run is passed over unless it was late, and
for this the invariant says of a packet under way which runs it leaves out.  A snapshot of the
dashboard is read annotations, usage, failures, markers: the invariant says, for each file not read
yet, where every pass known so far is.  The page's invariant says of each call
under way what its answer may add, and of the cursor that the feed is closed under
paging from it, whatever other answers were merged meanwhile.

**The inspector** (`InspectorProofs`).  A view is right because the index is, and the index is
because each update continues it.  `UpdatesContinue` says of a request that has read its
updates and not yet advanced that they are what was committed between the height of the
index and the height it read; nothing else moves the index meanwhile, for only the
holder of the lock does (`Exclusive`).  So the index holds the artifacts of the history
up to its height (`IndexIsHistory`), `append` meets no artifact twice
(`AppendIsAllowed`), and the adjacency files each artifact once (`ConnectedFiles`), from
which every query is answered as by the ledger (`FiledAnswers`): the ends of a
relation are contributions of the index because the validator asked for them
(`GrownResolves`).  Chains are compared twice, by the request before it reads and with
the updates it got; together they say that all that is indexed is of the chain the
request observed, a network replaced in between or not.  Paging rests on what later
blocks leave alone (`PositionsSettle`): below a cursor the transactions of two heights
are the same, so a page of a newer index goes on from the pages of an older one
(`PagesGoOn`).  A page is specified by the transactions it shows, and
`FeedPageShows` proves that selecting the newest of the sorted positions meets it.
The lemmas on sequences are proved from the definitions of `FlattenSeq` and its fold;
induction is over sets of sequences (`SeqInduction`), which needs no rule with an operator.

Checked by TLC and not proved.  Liveness, and what depends on it, is out of the
prover's reach, and the findings are what TLC found violated.  `TypeOK` of `MCProgress` is the
conjunction of type invariants that are theorems of the modules or
checked in another run.

## Not modelled

- Consensus and networking are CometBFT's.  Signatures, canonical JSON and content
  addresses (`wire`) are taken as injective, the hash chain as free of
  collisions: they are functions without state, and what they compute is not
  what the properties are about.
- The generated protobuf modules, and the argument parsing of the command line, MCP
  and GraphQL entry points around the operations above.
- `refresh` of the knowledge graph index (the same fold over a whole snapshot),
  title search and the GraphQL schema.
- Of the inspector: redaction, HTTP formatting and drawing.  Of the dashboard: its
  lanes, summaries and HTTP server, which are computed from one snapshot.
- Of the controller: the change log, `doctor`, `check-repository` and commands that
  only print a file.  Of the runners: command lines, environment and output
  parsing.  Of the impact assessor: the wording of prompts and the content of a
  judgement.
