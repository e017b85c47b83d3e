---------------------------- MODULE DiscoveryNode ----------------------------
(***************************************************************************)
(* Discovery Net nodes: on each, the ABCI application                      *)
(* (CometBFTCallbackHandler over a SQLiteArtifactLedgerStore) driven by    *)
(* its own CometBFT process.  The two run in separate containers and each  *)
(* crashes and restarts alone.                                             *)
(*                                                                         *)
(* A handler runs under the handler's lock; its activation is the frame of *)
(* the node.  FinalizeBlock executes one transaction per step and Commit   *)
(* has one step for the SQLite transaction and one for the promotion in    *)
(* memory, so that a crash may fall between any two of them.               *)
(*                                                                         *)
(* Consensus itself is CometBFT's: the blocks it decides are a sequence    *)
(* every node sees a prefix of, and a block holds any transactions, since  *)
(* process_proposal accepts every proposal.                                *)
(***************************************************************************)
EXTENDS ArtifactLedger, FiniteSets

CONSTANTS
  Node,         \* the replicas
  MaxHeight,    \* bound: blocks consensus decides
  MaxBlockTxs,  \* bound: transactions of one block
  MaxFaults     \* bound: crashes and failed saves, all nodes together

ASSUME BoundsAssumption ==
  /\ MaxHeight \in Nat
  /\ MaxBlockTxs \in Nat
  /\ MaxFaults \in Nat

VARIABLES
  decided,    \* blocks decided by consensus, by height
  appUp,      \* is the application process running and serving?
  committed,  \* handler._committed_height and _committed_ledger
  pending,    \* handler._pending_block, NoBlock when None
  frame,      \* the handler call that holds handler._lock
  calls,      \* consensus calls the gRPC server holds, not yet started
  disk,       \* the SQLite database
  comet,      \* the CometBFT process of the node
  answered,   \* history: the state hashes FinalizeBlock returned, by height
  faults      \* crashes and failed saves so far

appVars == <<appUp, committed, pending, frame, calls, disk>>
vars == <<decided, appVars, comet, answered, faults>>

-----------------------------------------------------------------------------
Block == UNION {[1 .. k -> Transaction] : k \in 0 .. MaxBlockTxs}

NoBlock == EmptySnapshot

\* live: the CometBFT process that made the call is still waiting for it.  A
\* Commit names no height.
Call == [op : {"finalize", "commit"}, height : Nat, live : BOOLEAN]

Frame == [op     : {"idle", "execute", "save", "promote"},
          height : Nat,
          next   : Nat,       \* transactions of the block executed so far
          ledger : Ledger,    \* the running ledger of finalize_block
          live   : BOOLEAN]

Idle == [op |-> "idle", height |-> 0, next |-> 0, ledger |-> <<>>, live |-> FALSE]

(* phase: "down", or "handshake" (Info not answered), "genesis" (InitChain *)
(* due), "ready" (no call outstanding), "finalizing", "finalized" (Commit  *)
(* due), "committing", or "halted": the process lives and its consensus    *)
(* stopped on an error answer.  stored is the height of the block store,   *)
(* applied the height the application last reported.                       *)
Comet == [phase   : {"down", "handshake", "genesis", "ready", "finalizing",
                     "finalized", "committing", "halted"},
          stored  : Nat,
          applied : Nat]

StateHashAt == [height : Nat, hash : Seq(Nat \X Nat \X Transaction)]

\* Every variable keeps the shape of the Python object or row it stands for.
TypeOK ==
  /\ decided \in Seq(Seq(Transaction))
  /\ appUp \in [Node -> BOOLEAN]
  /\ committed \in [Node -> Snapshot]
  /\ pending \in [Node -> Snapshot]
  /\ frame \in [Node -> Frame]
  /\ calls \in [Node -> SUBSET Call]
  /\ disk \in [Node -> Snapshot]
  /\ comet \in [Node -> Comet]
  /\ answered \subseteq StateHashAt
  /\ faults \in Nat

Init ==
  /\ decided = <<>>
  /\ appUp = [n \in Node |-> FALSE]
  /\ committed = [n \in Node |-> EmptySnapshot]
  /\ pending = [n \in Node |-> NoBlock]
  /\ frame = [n \in Node |-> Idle]
  /\ calls = [n \in Node |-> {}]
  /\ disk = [n \in Node |-> EmptySnapshot]
  /\ comet = [n \in Node |-> [phase |-> "down", stored |-> 0, applied |-> 0]]
  /\ answered = {}
  /\ faults = 0

-----------------------------------------------------------------------------
(* The outcome of a call reaches CometBFT only while it waits for it; an   *)
(* exception answers with a gRPC error, on which consensus stops.          *)

Answer(n, live, outcome) ==
  comet' = IF live THEN [comet EXCEPT ![n] = outcome] ELSE comet

Error(n, live) == Answer(n, live, [comet[n] EXCEPT !.phase = "halted"])

LockFree(n) == appUp[n] /\ frame[n].op = "idle"

TakeCall(n, c) ==
  /\ LockFree(n)
  /\ c \in calls[n]
  /\ calls' = [calls EXCEPT ![n] = @ \ {c}]

-----------------------------------------------------------------------------
(* finalize_block                                                          *)

\* Mutant: an old height may be executed again.
CanFinalizeAgain(n, height) ==
  /\ pending[n] = NoBlock
  /\ height <= committed[n].height + 1

CanFinalize(n, height) ==
  /\ pending[n] = NoBlock
  /\ height = committed[n].height + 1

StartFinalizeBlock(n) ==
  /\ \E c \in calls[n] :
       /\ c.op = "finalize"
       /\ CanFinalize(n, c.height)
       /\ TakeCall(n, c)
       /\ frame' = [frame EXCEPT ![n] =
                      [op     |-> "execute",
                       height |-> c.height,
                       next   |-> 0,
                       ledger |-> committed[n].ledger,
                       live   |-> c.live]]
  /\ UNCHANGED <<decided, appUp, committed, pending, disk, comet, answered, faults>>

\* Mutant: the refusal never reaches CometBFT.
RefuseFinalizeBlockSilently(n) ==
  /\ \E c \in calls[n] :
       /\ c.op = "finalize"
       /\ ~CanFinalize(n, c.height)
       /\ TakeCall(n, c)
  /\ UNCHANGED <<decided, appUp, committed, pending, frame, disk, comet, answered, faults>>

\* "a finalized block is already awaiting commit", or a height that does not
\* follow the committed one.
RefuseFinalizeBlock(n) ==
  /\ \E c \in calls[n] :
       /\ c.op = "finalize"
       /\ ~CanFinalize(n, c.height)
       /\ TakeCall(n, c)
       /\ Error(n, c.live)
  /\ UNCHANGED <<decided, appUp, committed, pending, frame, disk, answered, faults>>

CurrentBlock(n) == decided[frame[n].height]

\* Mutant: transaction indexes are off by one.
ExecutedOneBack(f, tx) ==
  [height |-> f.height, index |-> f.next - 1, tx |-> tx]

Executed(f, tx) ==
  [height |-> f.height, index |-> f.next, tx |-> tx]

\* Mutant: transactions are judged by the committed ledger, not the running one.
ExecuteAgainstCommitted(n) ==
  /\ frame[n].op = "execute"
  /\ frame[n].next < Len(CurrentBlock(n))
  /\ LET tx    == CurrentBlock(n)[frame[n].next + 1]
         entry == Executed(frame[n], tx)
     IN  \/ /\ Accepted(tx, committed[n].ledger)
            /\ frame' = [frame EXCEPT ![n].next = @ + 1,
                                      ![n].ledger = Append(@, entry)]
         \/ /\ ~Accepted(tx, committed[n].ledger)
            /\ frame' = [frame EXCEPT ![n].next = @ + 1]
  /\ UNCHANGED <<decided, appUp, committed, pending, calls, disk, comet, answered, faults>>

\* One iteration of the loop over the block.  The RuntimeError for a valid
\* transaction that cannot be appended has no step: ValidMeansAppendable.
ExecuteTransaction(n) ==
  /\ frame[n].op = "execute"
  /\ frame[n].next < Len(CurrentBlock(n))
  /\ LET tx    == CurrentBlock(n)[frame[n].next + 1]
         entry == Executed(frame[n], tx)
     IN  \/ /\ Accepted(tx, frame[n].ledger)
            /\ CanAppend(frame[n].ledger, entry)
            /\ frame' = [frame EXCEPT ![n].next = @ + 1,
                                      ![n].ledger = Append(@, entry)]
         \/ /\ ~Accepted(tx, frame[n].ledger)
            /\ frame' = [frame EXCEPT ![n].next = @ + 1]
  /\ UNCHANGED <<decided, appUp, committed, pending, calls, disk, comet, answered, faults>>

\* Mutant: the answer carries the hash from before the block.
FinishWithOldHash(n) ==
  /\ frame[n].op = "execute"
  /\ frame[n].next = Len(CurrentBlock(n))
  /\ pending' = [pending EXCEPT ![n] =
                   [height |-> frame[n].height, ledger |-> frame[n].ledger]]
  /\ frame' = [frame EXCEPT ![n] = Idle]
  /\ answered' = answered \cup
       {[height |-> frame[n].height, hash |-> StateHash(committed[n].ledger)]}
  /\ Answer(n, frame[n].live, [comet[n] EXCEPT !.phase = "finalized"])
  /\ UNCHANGED <<decided, appUp, committed, calls, disk, faults>>

FinishFinalizeBlock(n) ==
  /\ frame[n].op = "execute"
  /\ frame[n].next = Len(CurrentBlock(n))
  /\ pending' = [pending EXCEPT ![n] =
                   [height |-> frame[n].height, ledger |-> frame[n].ledger]]
  /\ frame' = [frame EXCEPT ![n] = Idle]
  /\ answered' = answered \cup
       {[height |-> frame[n].height, hash |-> StateHash(frame[n].ledger)]}
  /\ Answer(n, frame[n].live, [comet[n] EXCEPT !.phase = "finalized"])
  /\ UNCHANGED <<decided, appUp, committed, calls, disk, faults>>

-----------------------------------------------------------------------------
(* commit                                                                  *)

StartCommit(n) ==
  /\ pending[n] # NoBlock
  /\ \E c \in calls[n] :
       /\ c.op = "commit"
       /\ TakeCall(n, c)
       /\ frame' = [frame EXCEPT ![n] = [Idle EXCEPT !.op = "save", !.live = c.live]]
  /\ UNCHANGED <<decided, appUp, committed, pending, disk, comet, answered, faults>>

\* "no finalized block is awaiting commit"
RefuseCommit(n) ==
  /\ pending[n] = NoBlock
  /\ \E c \in calls[n] :
       /\ c.op = "commit"
       /\ TakeCall(n, c)
       /\ Error(n, c.live)
  /\ UNCHANGED <<decided, appUp, committed, pending, frame, disk, answered, faults>>

\* SQLite COMMIT: from here on the block survives, memory still has it pending.
SaveSnapshot(n) ==
  /\ frame[n].op = "save"
  /\ SaveAllowed(disk[n], pending[n])
  /\ disk' = [disk EXCEPT ![n] = Saved(@, pending[n])]
  /\ frame' = [frame EXCEPT ![n].op = "promote"]
  /\ UNCHANGED <<decided, appUp, committed, pending, calls, comet, answered, faults>>

\* Mutant: the failed save is swallowed and Commit acknowledged.
SaveFailsSilently(n) ==
  /\ frame[n].op = "save"
  /\ faults < MaxFaults
  /\ faults' = faults + 1
  /\ frame' = [frame EXCEPT ![n] = Idle]
  /\ Answer(n, frame[n].live, [comet[n] EXCEPT !.phase = "ready", !.applied = @ + 1])
  /\ UNCHANGED <<decided, appUp, committed, pending, calls, disk, answered>>

\* store.save raises and SQLite rolls back: the pending block stays.
SaveFails(n) ==
  /\ frame[n].op = "save"
  /\ faults < MaxFaults
  /\ faults' = faults + 1
  /\ frame' = [frame EXCEPT ![n] = Idle]
  /\ Error(n, frame[n].live)
  /\ UNCHANGED <<decided, appUp, committed, pending, calls, disk, answered>>

\* Mutant: the pending block is dropped without being promoted.
PromoteNothing(n) ==
  /\ frame[n].op = "promote"
  /\ pending' = [pending EXCEPT ![n] = NoBlock]
  /\ frame' = [frame EXCEPT ![n] = Idle]
  /\ Answer(n, frame[n].live, [comet[n] EXCEPT !.phase = "ready", !.applied = @ + 1])
  /\ UNCHANGED <<decided, appUp, committed, calls, disk, answered, faults>>

PromoteBlock(n) ==
  /\ frame[n].op = "promote"
  /\ committed' = [committed EXCEPT ![n] = pending[n]]
  /\ pending' = [pending EXCEPT ![n] = NoBlock]
  /\ frame' = [frame EXCEPT ![n] = Idle]
  /\ Answer(n, frame[n].live, [comet[n] EXCEPT !.phase = "ready", !.applied = @ + 1])
  /\ UNCHANGED <<decided, appUp, calls, disk, answered, faults>>

-----------------------------------------------------------------------------
(* The application process.                                                *)

\* __init__: load the snapshot and replay it through the validator.
StartApplication(n) ==
  /\ ~appUp[n]
  /\ WithinHeight(disk[n])
  /\ Replayable(disk[n].ledger)
  /\ appUp' = [appUp EXCEPT ![n] = TRUE]
  /\ committed' = [committed EXCEPT ![n] = disk[n]]
  /\ pending' = [pending EXCEPT ![n] = NoBlock]
  /\ UNCHANGED <<decided, frame, calls, disk, comet, answered, faults>>

\* Memory, the running handler and the queued calls are gone.
LoseMemory(n) ==
  /\ appUp[n]
  /\ appUp' = [appUp EXCEPT ![n] = FALSE]
  /\ committed' = [committed EXCEPT ![n] = EmptySnapshot]
  /\ pending' = [pending EXCEPT ![n] = NoBlock]
  /\ frame' = [frame EXCEPT ![n] = Idle]
  /\ calls' = [calls EXCEPT ![n] = {}]

\* A CometBFT that waits for a call gets an error.
CrashApplication(n) ==
  /\ faults < MaxFaults
  /\ faults' = faults + 1
  /\ LoseMemory(n)
  /\ Error(n, comet[n].phase \in {"finalizing", "committing"})
  /\ UNCHANGED <<decided, disk, answered>>

\* gRPC cancels a call nobody waits for before a worker thread starts it.
DropOrphan(n) ==
  /\ \E c \in calls[n] :
       /\ ~c.live
       /\ calls' = [calls EXCEPT ![n] = @ \ {c}]
  /\ UNCHANGED <<decided, appUp, committed, pending, frame, disk, comet, answered, faults>>

-----------------------------------------------------------------------------
(* CometBFT, as the node drives the application with it.                   *)

\* Consensus decides the next block; the proposal was accepted unseen.
Decide ==
  /\ Len(decided) < MaxHeight
  /\ \E block \in Block : decided' = Append(decided, block)
  /\ UNCHANGED <<appVars, comet, answered, faults>>

Phase(n, phase) == comet' = [comet EXCEPT ![n].phase = phase]

StartComet(n) ==
  /\ comet[n].phase = "down"
  /\ Phase(n, "handshake")
  /\ UNCHANGED <<decided, appVars, answered, faults>>

\* Info, and what the handshake does about the height it reports.
AnswerInfo(n) ==
  /\ comet[n].phase = "handshake"
  /\ LockFree(n)
  /\ LET height == committed[n].height
     IN  comet' = [comet EXCEPT
                     ![n].applied = height,
                     ![n].phase = IF height = 0 THEN "genesis" ELSE "ready"]
  /\ UNCHANGED <<decided, appVars, answered, faults>>

\* initialize_chain, with the genesis the node was provisioned with.
InitializeChain(n) ==
  /\ comet[n].phase = "genesis"
  /\ LockFree(n)
  /\ Phase(n, IF committed[n].height = 0 /\ pending[n] = NoBlock
              THEN "ready" ELSE "down")
  /\ UNCHANGED <<decided, appVars, answered, faults>>

CallApplication(n, op, height) ==
  /\ appUp[n]
  /\ calls' = [calls EXCEPT ![n] =
                 @ \cup {[op |-> op, height |-> height, live |-> TRUE]}]

\* Replays a stored block the application lacks, or stores and delivers the
\* next decided one.
CallFinalizeBlock(n) ==
  LET height == comet[n].applied + 1
  IN  /\ comet[n].phase = "ready"
      /\ height <= Len(decided)
      /\ CallApplication(n, "finalize", height)
      /\ comet' = [comet EXCEPT
                     ![n].phase = "finalizing",
                     ![n].stored = IF @ < height THEN height ELSE @]
      /\ UNCHANGED <<decided, appUp, committed, pending, frame, disk, answered, faults>>

CallCommit(n) ==
  /\ comet[n].phase = "finalized"
  /\ CallApplication(n, "commit", 0)
  /\ Phase(n, "committing")
  /\ UNCHANGED <<decided, appUp, committed, pending, frame, disk, answered, faults>>

\* What CometBFT asked for may still run, with nobody to answer.
StopComet(n) ==
  /\ Phase(n, "down")
  /\ frame' = [frame EXCEPT ![n].live = FALSE]
  /\ calls' = [calls EXCEPT ![n] = {[c EXCEPT !.live = FALSE] : c \in @}]
  /\ UNCHANGED <<decided, appUp, committed, pending, disk, answered>>

CrashComet(n) ==
  /\ comet[n].phase # "down"
  /\ faults < MaxFaults
  /\ faults' = faults + 1
  /\ StopComet(n)

\* The operator restarts a CometBFT whose consensus stopped.
RestartHaltedComet(n) ==
  /\ comet[n].phase = "halted"
  /\ StopComet(n)
  /\ UNCHANGED faults

\* The operator restarts both containers of a node whose consensus stopped or
\* whose handshake keeps failing, as the failure tests do.
RestartNode(n) ==
  /\ comet[n].phase \in {"down", "halted"}
  /\ LoseMemory(n)
  /\ Phase(n, "down")
  /\ UNCHANGED <<decided, disk, answered, faults>>

-----------------------------------------------------------------------------
Handler(n) ==
  \/ StartFinalizeBlock(n)
  \/ RefuseFinalizeBlock(n)
  \/ ExecuteTransaction(n)
  \/ FinishFinalizeBlock(n)
  \/ StartCommit(n)
  \/ RefuseCommit(n)
  \/ SaveSnapshot(n)
  \/ PromoteBlock(n)

Driver(n) ==
  \/ StartComet(n)
  \/ AnswerInfo(n)
  \/ InitializeChain(n)
  \/ CallFinalizeBlock(n)
  \/ CallCommit(n)

Fault(n) ==
  \/ SaveFails(n)
  \/ CrashApplication(n)
  \/ CrashComet(n)

Step(n) ==
  \/ Handler(n)
  \/ Driver(n)
  \/ Fault(n)
  \/ StartApplication(n)
  \/ DropOrphan(n)
  \/ RestartHaltedComet(n)
  \/ RestartNode(n)

Next == Decide \/ \E n \in Node : Step(n)

Spec == Init /\ [][Next]_vars

(* Fairness.                                                               *)
(* Threads and processes run; Docker restarts a process that exited.       *)
Running ==
  \A n \in Node : /\ WF_vars(Handler(n))
                  /\ WF_vars(Driver(n))
                  /\ WF_vars(StartApplication(n))

\* Only CometBFT ever crashes, and the operator restarts it, leaving the running
\* application alone.
CometFaultsNext ==
  \/ Decide
  \/ \E n \in Node : \/ Handler(n)
                     \/ Driver(n)
                     \/ CrashComet(n)
                     \/ StartApplication(n)
                     \/ DropOrphan(n)
                     \/ RestartHaltedComet(n)

CometRestartSpec ==
  /\ Init /\ [][CometFaultsNext]_vars /\ Running
  /\ \A n \in Node : WF_vars(RestartHaltedComet(n))

-----------------------------------------------------------------------------
(* Safety.                                                                 *)

\* Whatever instant the process dies at, the database it leaves passes the
\* replay of __init__: no crash makes a node that cannot start again.
StoredLedgerReloads ==
  \A n \in Node : WithinHeight(disk[n]) /\ Replayable(disk[n].ledger)

\* What the running application answers from is what is on disk, except
\* between the SQLite COMMIT and the promotion, when disk is one block ahead.
MemoryTracksDisk ==
  \A n \in Node : appUp[n] =>
     disk[n] = IF frame[n].op = "promote" THEN pending[n] ELSE committed[n]

\* The store never rejects the block that finalize_block left pending: a
\* Commit fails by an SQLite error only, and can be tried again.
StoreAcceptsPending ==
  \A n \in Node : pending[n] # NoBlock => SaveAllowed(disk[n], pending[n])

\* The validator's verdict covers every refusal of append_transaction: the
\* RuntimeError inside finalize_block, which would stop the chain, is dead.
ValidMeansAppendable ==
  \A n \in Node :
     frame[n].op = "execute" /\ frame[n].next < Len(CurrentBlock(n)) =>
        LET tx == CurrentBlock(n)[frame[n].next + 1]
        IN  Accepted(tx, frame[n].ledger) =>
              CanAppend(frame[n].ledger, Executed(frame[n], tx))

\* A height CometBFT learned from Info or Commit is durable, through every
\* later crash of the application.
ReportedHeightIsDurable ==
  \A n \in Node : comet[n].applied <= disk[n].height

\* The application is never ahead of the block store, which the CometBFT
\* handshake would refuse.
ApplicationNeverAhead ==
  \A n \in Node : disk[n].height <= comet[n].stored

\* Every execution of a height, on any replica and again after any crash,
\* returned the same state hash.
OneHashPerHeight ==
  \A s, t \in answered : s.height = t.height => s.hash = t.hash

\* The head Info reports carries a hash consensus was given for that height.
ReportedHashWasAnswered ==
  \A n \in Node : appUp[n] /\ committed[n].height > 0 =>
     [height |-> committed[n].height, hash |-> StateHash(committed[n].ledger)]
       \in answered

\* Of two replicas' databases the lower is the history of the higher.
ReplicasAgree ==
  \A m, n \in Node : disk[m].height <= disk[n].height =>
     LET old == Len(disk[m].ledger)
     IN  /\ old <= Len(disk[n].ledger)
         /\ Prefix(disk[n].ledger, old) = disk[m].ledger
         /\ \A i \in (old + 1) .. Len(disk[n].ledger) :
               disk[n].ledger[i].height > disk[m].height

\* An artifact is recorded once, whatever transactions carry it.
ArtifactsAreUnique ==
  \A n \in Node : \A i, j \in DOMAIN disk[n].ledger :
     i # j => Refs(disk[n].ledger[i].tx) \cap Refs(disk[n].ledger[j].tx) = {}

\* The endpoints of a recorded relation are contributions recorded no later.
RelationsResolve ==
  \A n \in Node : \A i \in DOMAIN disk[n].ledger :
     Endpoints(disk[n].ledger[i].tx)
       \subseteq RecordedContributions(Prefix(disk[n].ledger, i))

\* A block FinalizeBlock was given goes through: its accepted transactions can
\* be appended and the store takes the outcome.
BlocksGoThrough == ValidMeansAppendable /\ StoreAcceptsPending

\* What replicas answered and what they persist never forks.
NoFork == OneHashPerHeight /\ ReplicasAgree

\* The recorded graph is sound: every artifact once, every relation between
\* contributions that are there.
GraphIsSound == ArtifactsAreUnique /\ RelationsResolve

(* What a step may never do.                                               *)

\* The database moves one block at a time and keeps every entry it has.
DurableHistoryOnlyGrows ==
  [][\A n \in Node :
       disk'[n] # disk[n] =>
         /\ disk'[n].height = disk[n].height + 1
         /\ Len(disk[n].ledger) <= Len(disk'[n].ledger)
         /\ Prefix(disk'[n].ledger, Len(disk[n].ledger)) = disk[n].ledger]_disk

(* Progress.                                                               *)

\* Every decided block ends up in the database of every replica.
DecidedBlocksBecomeDurable ==
  \A n \in Node : \A h \in 1 .. MaxHeight :
     Len(decided) >= h ~> disk[n].height >= h

\* A CometBFT that restarts beside a running application reconnects to it and
\* goes on committing, as tests/integration/test_recovery.py has it.
CometRestartReconnects ==
  \A n \in Node : \A h \in 1 .. MaxHeight :
     Len(decided) >= h ~> disk[n].height >= h

(* The abstract ledger.                                                    *)

\* The databases of the nodes are a replicated ledger.
Abstract == INSTANCE ReplicatedLedger WITH durable <- disk

\* However handlers, crashes and restarts interleave, the databases follow
\* the abstract replicated ledger: each step leaves every one of them alone or
\* executes exactly the next decided block.
ImplementsReplicatedLedger == Abstract!LedgerSpec

-----------------------------------------------------------------------------
(* The inductive invariant behind the safety properties.                   *)

\* new is old and the entries of one more block.
Follows(old, new) ==
  LET k == Len(old.ledger)
  IN  /\ new.height = old.height + 1
      /\ k <= Len(new.ledger)
      /\ Prefix(new.ledger, k) = old.ledger
      /\ \A i \in (k + 1) .. Len(new.ledger) : new.ledger[i].height = new.height

\* The database reloads, and it is what the memory holds.
DurableInv(n) ==
  /\ WithinHeight(disk[n])
  /\ Replayable(disk[n].ledger)
  /\ IF appUp[n]
     THEN disk[n] = IF frame[n].op = "promote" THEN pending[n] ELSE committed[n]
     ELSE pending[n] = NoBlock /\ frame[n] = Idle

\* A pending block is the successor of the committed one; Commit holds the
\* lock only with a block pending.
PendingInv(n) ==
  /\ pending[n] # NoBlock => /\ Follows(committed[n], pending[n])
                             /\ Replayable(pending[n].ledger)
  /\ frame[n].op \in {"save", "promote"} => pending[n] # NoBlock

\* finalize_block holds the lock with none pending, inside a decided block; its
\* running ledger reloads, extends the committed one and stops short of the
\* next transaction.
ExecutionInv(n) ==
  frame[n].op = "execute" =>
    /\ pending[n] = NoBlock
    /\ frame[n].height \in DOMAIN decided
    /\ frame[n].next <= Len(CurrentBlock(n))
    /\ Follows(committed[n], [height |-> frame[n].height, ledger |-> frame[n].ledger])
    /\ Replayable(frame[n].ledger)
    /\ \A i \in DOMAIN frame[n].ledger :
          Precedes(frame[n].ledger[i],
                   [height |-> frame[n].height, index |-> frame[n].next])

\* Nothing is ahead of the block store, nor the block store of the chain, and
\* CometBFT never believes more to be applied than is.
HeightsInv(n) ==
  /\ comet[n].stored <= Len(decided)
  /\ disk[n].height <= comet[n].stored
  /\ pending[n].height <= comet[n].stored
  /\ frame[n].height <= comet[n].stored
  /\ \A c \in calls[n] : c.height <= comet[n].stored
  /\ comet[n].applied <= IF appUp[n] THEN committed[n].height ELSE disk[n].height

NodeInv(n) ==
  /\ DurableInv(n)
  /\ PendingInv(n)
  /\ ExecutionInv(n)
  /\ HeightsInv(n)

IInv == TypeOK /\ \A n \in Node : NodeInv(n)
=============================================================================
