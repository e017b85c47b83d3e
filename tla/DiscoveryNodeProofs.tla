------------------------- MODULE DiscoveryNodeProofs -------------------------
(***************************************************************************)
(* Safety of DiscoveryNode for every set of nodes and transactions and     *)
(* every bound: IInv is inductive, and the safety properties follow;       *)
(* AgreeInv adds that all nodes agree, so that replicas never fork and     *)
(* their databases implement ReplicatedLedger.                             *)
(***************************************************************************)
EXTENDS DiscoveryNode, ArtifactLedgerProofs

-----------------------------------------------------------------------------
(* Types.                                                                  *)

\* The empty snapshot and the idle frame are values of their types.
LEMMA Sentinels ==
  /\ EmptySnapshot \in Snapshot
  /\ NoBlock \in Snapshot
  /\ Idle \in Frame
BY ReplayableEmpty DEF EmptySnapshot, NoBlock, Idle, Snapshot, Frame

\* Initial states have their types.
LEMMA InitType == Init => TypeOK
BY Sentinels, EmptySeq DEF Init, TypeOK, Comet

\* The two fields an execution step changes keep the frame a frame.
LEMMA FrameUpdate ==
  ASSUME NEW f \in Frame, NEW next \in Nat, NEW ledger \in Ledger
  PROVE  /\ [f EXCEPT !.next = next, !.ledger = ledger] \in Frame
         /\ [f EXCEPT !.next = next] \in Frame
BY DEF Frame

\* What an answer makes of the CometBFT process is one.
LEMMA AnswerType ==
  ASSUME TypeOK, NEW n \in Node, NEW live \in BOOLEAN, NEW outcome \in Comet,
         Answer(n, live, outcome)
  PROVE  comet' \in [Node -> Comet]
BY DEF TypeOK, Answer

\* A phase change keeps the type of the CometBFT process.
LEMMA PhaseType ==
  ASSUME TypeOK, NEW n \in Node,
         NEW phase \in {"down", "handshake", "genesis", "ready", "finalizing",
                        "finalized", "committing", "halted"}
  PROVE  [comet[n] EXCEPT !.phase = phase] \in Comet
BY DEF TypeOK, Comet

\* A CometBFT process stays one when its phase changes.
LEMMA PhaseStepType ==
  ASSUME TypeOK, NEW n \in Node,
         NEW phase \in {"down", "handshake", "genesis", "ready", "finalizing",
                        "finalized", "committing", "halted"},
         Phase(n, phase)
  PROVE  comet' \in [Node -> Comet]
<1>1. [comet[n] EXCEPT !.phase = phase] \in Comet
  BY PhaseType
<1>. QED  BY <1>1 DEF Phase, TypeOK

\* A call CometBFT makes is one.
LEMMA CallType ==
  ASSUME TypeOK, NEW n \in Node, NEW op \in {"finalize", "commit"},
         NEW height \in Nat, CallApplication(n, op, height)
  PROVE  calls' \in [Node -> SUBSET Call]
<1>1. [op |-> op, height |-> height, live |-> TRUE] \in Call
  BY DEF Call
<1>. QED  BY <1>1 DEF CallApplication, TypeOK

\* The hash of a ledger has its type.
LEMMA StateHashType ==
  ASSUME NEW ledger \in Ledger
  PROVE  StateHash(ledger) \in Seq(Nat \X Nat \X Transaction)
<1>1. /\ Len(ledger) \in Nat
      /\ DOMAIN ledger = 1 .. Len(ledger)
      /\ \A i \in 1 .. Len(ledger) : ledger[i] \in Entry
  BY LenProperties, ElementOfSeq DEF Ledger
<1>2. StateHash(ledger) \in [1 .. Len(ledger) -> Nat \X Nat \X Transaction]
  BY <1>1 DEF StateHash, Entry
<1>. QED  BY <1>1, <1>2, IsASeq

\* Handler steps keep the types.
LEMMA HandlerType ==
  ASSUME IInv, NEW n \in Node, Handler(n)
  PROVE  TypeOK'
<1>0. TypeOK /\ NodeInv(n)
  BY DEF IInv
<1>1. CASE StartFinalizeBlock(n)
  BY <1>0, <1>1 DEF StartFinalizeBlock, TakeCall, LockFree, TypeOK, Frame, Call, Snapshot
<1>2. CASE RefuseFinalizeBlock(n)
  <2>1. PICK c \in calls[n] : TakeCall(n, c) /\ Error(n, c.live)
    BY <1>2 DEF RefuseFinalizeBlock
  <2>2. c.live \in BOOLEAN /\ calls' \in [Node -> SUBSET Call]
    BY <1>0, <2>1 DEF TypeOK, Call, TakeCall
  <2>3. comet' \in [Node -> Comet]
    BY <1>0, <2>1, <2>2, AnswerType, PhaseType DEF Error
  <2>. QED  BY <1>0, <1>2, <2>2, <2>3 DEF RefuseFinalizeBlock, TypeOK
<1>3. CASE ExecuteTransaction(n)
  <2> DEFINE f     == frame[n]
             tx    == CurrentBlock(n)[f.next + 1]
             entry == Executed(f, tx)
  <2>1. /\ f \in Frame
        /\ f.op = "execute"
        /\ f.height \in Nat
        /\ f.next \in Nat
        /\ f.ledger \in Seq(Entry)
    BY <1>0, <1>3 DEF ExecuteTransaction, TypeOK, Frame, Ledger
  <2>2. f.height # 0 /\ f.height \in DOMAIN decided
    BY <1>0, <2>1, LenProperties DEF NodeInv, ExecutionInv, TypeOK
  <2>3. tx \in Transaction
    <3>1. CurrentBlock(n) \in Seq(Transaction)
      BY <1>0, <2>2, ElementOfSeq, LenProperties DEF CurrentBlock, TypeOK
    <3>2. f.next + 1 \in 1 .. Len(CurrentBlock(n))
      BY <1>3, <2>1, <3>1, LenProperties DEF ExecuteTransaction
    <3>. QED  BY <3>1, <3>2, ElementOfSeq
  <2>4. entry \in Entry
    BY <2>1, <2>2, <2>3 DEF Executed, Entry
  <2>5. Append(f.ledger, entry) \in Seq(Entry)
    BY <2>1, <2>4, AppendProperties
  <2>6. /\ [f EXCEPT !.next = @ + 1, !.ledger = Append(@, entry)] \in Frame
        /\ [f EXCEPT !.next = @ + 1] \in Frame
    <3>1. f.next + 1 \in Nat
      BY <2>1
    <3>. QED  BY <2>1, <2>5, <3>1, FrameUpdate DEF Ledger
  <2>7. frame' \in [Node -> Frame]
    BY <1>0, <1>3, <2>6 DEF ExecuteTransaction, TypeOK
  <2>. QED  BY <1>0, <1>3, <2>7 DEF ExecuteTransaction, TypeOK
<1>4. CASE FinishFinalizeBlock(n)
  <2>1. frame[n] \in Frame
    BY <1>0 DEF TypeOK
  <2>2. comet' \in [Node -> Comet]
    BY <1>0, <1>4, <2>1, AnswerType, PhaseType DEF FinishFinalizeBlock, Frame
  <2>3. pending' \in [Node -> Snapshot]
    BY <1>0, <1>4, <2>1 DEF FinishFinalizeBlock, TypeOK, Frame, Snapshot
  <2>4. frame' \in [Node -> Frame]
    BY <1>0, <1>4, Sentinels DEF FinishFinalizeBlock, TypeOK
  <2>5. answered' \subseteq StateHashAt
    BY <1>0, <1>4, <2>1, StateHashType DEF FinishFinalizeBlock, TypeOK, Frame, StateHashAt
  <2>. QED  BY <1>0, <1>4, <2>2, <2>3, <2>4, <2>5 DEF FinishFinalizeBlock, TypeOK
<1>5. CASE StartCommit(n)
  <2>1. PICK c \in calls[n] :
          /\ TakeCall(n, c)
          /\ frame' = [frame EXCEPT ![n] = [Idle EXCEPT !.op = "save", !.live = c.live]]
    BY <1>5 DEF StartCommit
  <2>2. c.live \in BOOLEAN /\ calls' \in [Node -> SUBSET Call]
    BY <1>0, <2>1 DEF TypeOK, Call, TakeCall
  <2>3. [Idle EXCEPT !.op = "save", !.live = c.live] \in Frame
    BY <2>2, Sentinels DEF Frame
  <2>. QED  BY <1>0, <1>5, <2>1, <2>2, <2>3 DEF StartCommit, TypeOK
<1>6. CASE RefuseCommit(n)
  <2>1. PICK c \in calls[n] : TakeCall(n, c) /\ Error(n, c.live)
    BY <1>6 DEF RefuseCommit
  <2>2. c.live \in BOOLEAN /\ calls' \in [Node -> SUBSET Call]
    BY <1>0, <2>1 DEF TypeOK, Call, TakeCall
  <2>3. comet' \in [Node -> Comet]
    BY <1>0, <2>1, <2>2, AnswerType, PhaseType DEF Error
  <2>. QED  BY <1>0, <1>6, <2>2, <2>3 DEF RefuseCommit, TypeOK
<1>7. CASE SaveSnapshot(n)
  <2>1. disk' \in [Node -> Snapshot]
    BY <1>0, <1>7, SavedIsSnapshot DEF SaveSnapshot, TypeOK
  <2>2. frame' \in [Node -> Frame]
    BY <1>0, <1>7 DEF SaveSnapshot, TypeOK, Frame
  <2>. QED  BY <1>0, <1>7, <2>1, <2>2 DEF SaveSnapshot, TypeOK
<1>8. CASE PromoteBlock(n)
  <2>1. [comet[n] EXCEPT !.phase = "ready", !.applied = @ + 1] \in Comet
    <3>1. comet[n] \in Comet /\ comet[n].applied + 1 \in Nat
      BY <1>0 DEF TypeOK, Comet
    <3>. QED  BY <3>1 DEF Comet
  <2>2. comet' \in [Node -> Comet]
    BY <1>0, <1>8, <2>1, AnswerType DEF PromoteBlock, TypeOK, Frame
  <2>3. /\ committed' \in [Node -> Snapshot]
        /\ pending' \in [Node -> Snapshot]
        /\ frame' \in [Node -> Frame]
    BY <1>0, <1>8, Sentinels DEF PromoteBlock, TypeOK
  <2>. QED  BY <1>0, <1>8, <2>2, <2>3 DEF PromoteBlock, TypeOK
<1>. QED  BY <1>1, <1>2, <1>3, <1>4, <1>5, <1>6, <1>7, <1>8 DEF Handler

\* What starting and losing memory leave have their types.
LEMMA MemoryType ==
  ASSUME TypeOK, NEW n \in Node, LoseMemory(n)
  PROVE  /\ appUp' \in [Node -> BOOLEAN]
         /\ committed' \in [Node -> Snapshot]
         /\ pending' \in [Node -> Snapshot]
         /\ frame' \in [Node -> Frame]
         /\ calls' \in [Node -> SUBSET Call]
BY Sentinels DEF TypeOK, LoseMemory

\* A CometBFT that stops leaves frames and calls behind.
LEMMA StopType ==
  ASSUME TypeOK, NEW n \in Node, StopComet(n)
  PROVE  /\ comet' \in [Node -> Comet]
         /\ frame' \in [Node -> Frame]
         /\ calls' \in [Node -> SUBSET Call]
<1>1. comet' \in [Node -> Comet]
  BY PhaseStepType DEF StopComet
<1>2. [frame[n] EXCEPT !.live = FALSE] \in Frame
  BY DEF TypeOK, Frame
<1>3. frame' \in [Node -> Frame]
  BY <1>2 DEF StopComet, TypeOK
<1>4. {[c EXCEPT !.live = FALSE] : c \in calls[n]} \in SUBSET Call
  <2>1. SUFFICES ASSUME NEW c \in calls[n] PROVE [c EXCEPT !.live = FALSE] \in Call
    OBVIOUS
  <2>2. c \in Call
    BY DEF TypeOK
  <2>. QED  BY <2>2 DEF Call
<1>5. calls' \in [Node -> SUBSET Call]
  BY <1>4 DEF StopComet, TypeOK
<1>. QED  BY <1>1, <1>3, <1>5

\* Driver steps keep the types.
LEMMA DriverType ==
  ASSUME TypeOK, NEW n \in Node, Driver(n)
  PROVE  TypeOK'
<1>1. CASE StartComet(n)
  <2>1. comet' \in [Node -> Comet]
    BY <1>1, PhaseStepType DEF StartComet
  <2>. QED  BY <1>1, <2>1 DEF StartComet, TypeOK, appVars
<1>2. CASE AnswerInfo(n)
  <2>1. committed[n].height \in Nat /\ comet[n] \in Comet
    BY DEF TypeOK, Snapshot
  <2>2. ASSUME NEW phase \in {"genesis", "ready"}
        PROVE  [comet[n] EXCEPT !.applied = committed[n].height, !.phase = phase] \in Comet
    BY <2>1 DEF Comet
  <2>3. comet' \in [Node -> Comet]
    BY <1>2, <2>1, <2>2 DEF AnswerInfo, TypeOK
  <2>. QED  BY <1>2, <2>3 DEF AnswerInfo, TypeOK, appVars
<1>3. CASE InitializeChain(n)
  <2>1. comet' \in [Node -> Comet]
    BY <1>3, PhaseStepType DEF InitializeChain
  <2>. QED  BY <1>3, <2>1 DEF InitializeChain, TypeOK, appVars
<1>4. CASE CallFinalizeBlock(n)
  <2> DEFINE height == comet[n].applied + 1
  <2>1. comet[n] \in Comet /\ height \in Nat
    BY DEF TypeOK, Comet
  <2>2. calls' \in [Node -> SUBSET Call]
    BY <1>4, <2>1, CallType DEF CallFinalizeBlock
  <2>3. ASSUME NEW stored \in Nat
        PROVE  [comet[n] EXCEPT !.phase = "finalizing", !.stored = stored] \in Comet
    BY <2>1 DEF Comet
  <2>4. (IF comet[n].stored < height THEN height ELSE comet[n].stored) \in Nat
    BY <2>1 DEF Comet
  <2>5. comet' \in [Node -> Comet]
    BY <1>4, <2>3, <2>4 DEF CallFinalizeBlock, TypeOK
  <2>. QED  BY <1>4, <2>2, <2>5 DEF CallFinalizeBlock, TypeOK
<1>5. CASE CallCommit(n)
  <2>1. calls' \in [Node -> SUBSET Call]
    BY <1>5, CallType DEF CallCommit
  <2>2. comet' \in [Node -> Comet]
    BY <1>5, PhaseStepType DEF CallCommit
  <2>. QED  BY <1>5, <2>1, <2>2 DEF CallCommit, TypeOK
<1>. QED  BY <1>1, <1>2, <1>3, <1>4, <1>5 DEF Driver

\* Every other step of a node keeps the types.
LEMMA OtherType ==
  ASSUME TypeOK, NEW n \in Node,
         \/ Fault(n) \/ StartApplication(n) \/ DropOrphan(n)
         \/ RestartHaltedComet(n) \/ RestartNode(n)
  PROVE  TypeOK'
<1>0. frame[n].live \in BOOLEAN /\ frame[n] \in Frame
  BY DEF TypeOK, Frame
<1>1. CASE SaveFails(n)
  <2>1. comet' \in [Node -> Comet]
    BY <1>0, <1>1, AnswerType, PhaseType DEF SaveFails, Error
  <2>2. faults' \in Nat /\ frame' \in [Node -> Frame]
    BY <1>1, Sentinels DEF SaveFails, TypeOK
  <2>. QED  BY <1>1, <2>1, <2>2 DEF SaveFails, TypeOK
<1>2. CASE CrashApplication(n)
  <2>1. comet' \in [Node -> Comet]
    <3>1. (comet[n].phase \in {"finalizing", "committing"}) \in BOOLEAN
      OBVIOUS
    <3>. QED  BY <1>2, <3>1, AnswerType, PhaseType DEF CrashApplication, Error
  <2>2. faults' \in Nat
    BY <1>2 DEF CrashApplication, TypeOK
  <2>. QED  BY <1>2, <2>1, <2>2, MemoryType DEF CrashApplication, TypeOK
<1>3. CASE CrashComet(n)
  <2>1. faults' \in Nat
    BY <1>3 DEF CrashComet, TypeOK
  <2>. QED  BY <1>3, <2>1, StopType DEF CrashComet, StopComet, TypeOK
<1>4. CASE StartApplication(n)
  BY <1>4, Sentinels DEF StartApplication, TypeOK
<1>5. CASE DropOrphan(n)
  BY <1>5 DEF DropOrphan, TypeOK
<1>6. CASE RestartHaltedComet(n)
  BY <1>6, StopType DEF RestartHaltedComet, StopComet, TypeOK
<1>7. CASE RestartNode(n)
  BY <1>7, MemoryType, PhaseStepType DEF RestartNode, TypeOK
<1>. QED  BY <1>1, <1>2, <1>3, <1>4, <1>5, <1>6, <1>7 DEF Fault

\* A block is a sequence of transactions.
LEMMA BlockType ==
  ASSUME NEW block \in Block
  PROVE  block \in Seq(Transaction)
<1>1. PICK k \in 0 .. MaxBlockTxs : block \in [1 .. k -> Transaction]
  BY DEF Block
<1>2. k \in Nat
  BY <1>1, BoundsAssumption DEF BoundsAssumption
<1>. QED  BY <1>1, <1>2, IsASeq

\* A decided block keeps the types.
LEMMA DecideType == ASSUME TypeOK, Decide PROVE TypeOK'
<1>1. PICK block \in Block : decided' = Append(decided, block)
  BY DEF Decide
<1>2. decided' \in Seq(Seq(Transaction))
  BY <1>1, BlockType, AppendProperties DEF TypeOK
<1>. QED  BY <1>2 DEF Decide, TypeOK, appVars

\* Every step keeps the types.
LEMMA TypeStep == IInv /\ [Next]_vars => TypeOK'
<1>. SUFFICES ASSUME IInv, [Next]_vars PROVE TypeOK'
  OBVIOUS
<1>0. TypeOK
  BY DEF IInv
<1>1. CASE Decide
  BY <1>0, <1>1, DecideType
<1>2. ASSUME NEW n \in Node, Step(n) PROVE TypeOK'
  BY <1>0, <1>2, HandlerType, DriverType, OtherType DEF Step
<1>3. CASE UNCHANGED vars
  BY <1>0, <1>3 DEF vars, appVars, TypeOK
<1>. QED  BY <1>1, <1>2, <1>3 DEF Next

-----------------------------------------------------------------------------
(* Snapshots that follow one another.                                      *)

\* A fresh block on a ledger follows it.
LEMMA FollowsStart ==
  ASSUME NEW old \in Snapshot
  PROVE  Follows(old, [height |-> old.height + 1, ledger |-> old.ledger])
<1>1. old.ledger \in Seq(Entry) /\ Len(old.ledger) \in Nat
  BY LenProperties DEF Snapshot, Ledger
<1>2. Prefix(old.ledger, Len(old.ledger)) = old.ledger
  BY <1>1, SubSeqFull DEF Prefix
<1>. QED  BY <1>1, <1>2 DEF Follows

\* One more entry at the height of the block keeps the order.
LEMMA FollowsAppend ==
  ASSUME NEW old \in Snapshot, NEW ledger \in Ledger, NEW e \in Entry,
         Follows(old, [height |-> e.height, ledger |-> ledger])
  PROVE  Follows(old, [height |-> e.height, ledger |-> Append(ledger, e)])
<1> DEFINE k   == Len(old.ledger)
           new == Append(ledger, e)
<1>1. /\ k \in Nat
      /\ ledger \in Seq(Entry)
      /\ Len(ledger) \in Nat
      /\ e.height = old.height + 1
      /\ k <= Len(ledger)
      /\ Prefix(ledger, k) = old.ledger
      /\ \A i \in (k + 1) .. Len(ledger) : ledger[i].height = e.height
  BY LenProperties DEF Snapshot, Ledger, Follows
<1>2. /\ Len(new) = Len(ledger) + 1
      /\ new[Len(ledger) + 1] = e
      /\ \A i \in 1 .. Len(ledger) : new[i] = ledger[i]
  BY <1>1, AppendProperties
<1>3. Prefix(new, k) = old.ledger
  BY <1>1, PrefixOfAppend
<1>4. \A i \in (k + 1) .. Len(new) : new[i].height = e.height
  BY <1>1, <1>2
<1>. QED  BY <1>1, <1>2, <1>3, <1>4 DEF Follows

\* What follows a snapshot that is within its height is within its own.
LEMMA FollowsWithin ==
  ASSUME NEW old \in Snapshot, NEW new \in Snapshot,
         WithinHeight(old), Follows(old, new)
  PROVE  WithinHeight(new)
<1> DEFINE k == Len(old.ledger)
<1>1. /\ k \in Nat
      /\ Len(new.ledger) \in Nat
      /\ DOMAIN new.ledger = 1 .. Len(new.ledger)
      /\ DOMAIN old.ledger = 1 .. k
      /\ old.height \in Nat
      /\ new.height = old.height + 1
      /\ new.ledger \in Seq(Entry)
      /\ \A i \in 1 .. k : old.ledger[i] \in Entry
  BY LenProperties, ElementOfSeq DEF Snapshot, Ledger, Follows
<1>2. SUFFICES ASSUME NEW i \in 1 .. Len(new.ledger)
               PROVE  new.ledger[i].height <= new.height
  BY <1>1 DEF WithinHeight
<1>3. CASE i \in 1 .. k
  <2>1. old.ledger[i] = new.ledger[i]
    BY <1>1, <1>3, SubSeqProperties DEF Follows, Prefix
  <2>2. old.ledger[i].height \in Nat /\ old.ledger[i].height <= old.height
    BY <1>1, <1>3 DEF WithinHeight, Entry
  <2>. QED  BY <1>1, <2>1, <2>2
<1>4. CASE i \in (k + 1) .. Len(new.ledger)
  BY <1>1, <1>4 DEF Follows
<1>. QED  BY <1>1, <1>3, <1>4

\* The store accepts what follows the persisted snapshot.
LEMMA FollowsAllowed ==
  ASSUME NEW old \in Snapshot, NEW new \in Snapshot,
         WithinHeight(old), Follows(old, new)
  PROVE  SaveAllowed(old, new)
<1>1. WithinHeight(new)
  BY FollowsWithin
<1>2. old.height \in Nat /\ new.height = old.height + 1
  BY DEF Snapshot, Follows
<1>. QED  BY <1>1, <1>2 DEF SaveAllowed, Follows

-----------------------------------------------------------------------------
(* A step concerns one node.                                               *)

\* The state of a node is left as it is.
Untouched(m) ==
  /\ appUp'[m] = appUp[m]
  /\ committed'[m] = committed[m]
  /\ pending'[m] = pending[m]
  /\ frame'[m] = frame[m]
  /\ calls'[m] = calls[m]
  /\ disk'[m] = disk[m]
  /\ comet'[m] = comet[m]

\* A step of one node decides no block and leaves every other node as it is.
LEMMA Locality ==
  ASSUME TypeOK, NEW n \in Node, Step(n)
  PROVE  /\ decided' = decided
         /\ \A m \in Node \ {n} : Untouched(m)
<1>1. CASE Handler(n)
  BY <1>1 DEF Handler, StartFinalizeBlock, RefuseFinalizeBlock, ExecuteTransaction,
     FinishFinalizeBlock, StartCommit, RefuseCommit, SaveSnapshot, PromoteBlock,
     TakeCall, Error, Answer, TypeOK, Untouched
<1>2. CASE Driver(n)
  BY <1>2 DEF Driver, StartComet, AnswerInfo, InitializeChain, CallFinalizeBlock,
     CallCommit, CallApplication, Phase, TypeOK, Untouched, appVars
<1>3. CASE Fault(n)
  BY <1>3 DEF Fault, SaveFails, CrashApplication, CrashComet, StopComet, LoseMemory,
     Phase, Error, Answer, TypeOK, Untouched
<1>4. CASE StartApplication(n) \/ DropOrphan(n)
  BY <1>4 DEF StartApplication, DropOrphan, TypeOK, Untouched
<1>5. CASE RestartHaltedComet(n) \/ RestartNode(n)
  BY <1>5 DEF RestartHaltedComet, RestartNode, StopComet, LoseMemory, Phase, TypeOK,
     Untouched
<1>. QED  BY <1>1, <1>2, <1>3, <1>4, <1>5 DEF Step

\* The invariant of a node survives what leaves the node as it is, also while
\* more blocks are decided.
LEMMA UntouchedInv ==
  ASSUME TypeOK, NEW m \in Node, NodeInv(m), Untouched(m),
         \/ decided' = decided
         \/ \E block \in Block : decided' = Append(decided, block)
  PROVE  NodeInv(m)'
<1>1. /\ Len(decided) \in Nat
      /\ DOMAIN decided = 1 .. Len(decided)
      /\ Len(decided) <= Len(decided')
      /\ DOMAIN decided \subseteq DOMAIN decided'
      /\ \A h \in DOMAIN decided : decided'[h] = decided[h]
  <2>1. /\ Len(decided) \in Nat
        /\ DOMAIN decided = 1 .. Len(decided)
    BY LenProperties DEF TypeOK
  <2>2. CASE decided' = decided
    BY <2>1, <2>2
  <2>3. ASSUME NEW block \in Block, decided' = Append(decided, block)
        PROVE  /\ Len(decided') = Len(decided) + 1
               /\ DOMAIN decided' = 1 .. Len(decided) + 1
               /\ \A h \in 1 .. Len(decided) : decided'[h] = decided[h]
    BY <2>3, BlockType, AppendProperties DEF TypeOK
  <2>. QED  BY <2>1, <2>2, <2>3
<1>2. DurableInv(m)' /\ PendingInv(m)'
  BY DEF NodeInv, DurableInv, PendingInv, Untouched
<1>3. ExecutionInv(m)'
  BY <1>1 DEF NodeInv, ExecutionInv, CurrentBlock, Untouched
<1>4. HeightsInv(m)'
  <2>1. comet[m].stored \in Nat /\ Len(decided') \in Nat
    BY BlockType, LenProperties, AppendProperties DEF TypeOK, Comet
  <2>. QED  BY <1>1, <2>1 DEF NodeInv, HeightsInv, Untouched
<1>. QED  BY <1>2, <1>3, <1>4 DEF NodeInv

\* An error answer stops consensus and leaves its heights alone.
LEMMA ErrorHeights ==
  ASSUME TypeOK, NEW n \in Node, NEW live \in BOOLEAN, Error(n, live)
  PROVE  comet'[n].stored = comet[n].stored /\ comet'[n].applied = comet[n].applied
<1>1. comet[n] \in Comet
  BY DEF TypeOK
<1>2. [comet[n] EXCEPT !.phase = "halted"].stored = comet[n].stored
  BY <1>1 DEF Comet
<1>3. [comet[n] EXCEPT !.phase = "halted"].applied = comet[n].applied
  BY <1>1 DEF Comet
<1>. QED  BY <1>2, <1>3 DEF Error, Answer, TypeOK

\* So does a phase change.
LEMMA PhaseHeights ==
  ASSUME TypeOK, NEW n \in Node, NEW phase, Phase(n, phase)
  PROVE  comet'[n].stored = comet[n].stored /\ comet'[n].applied = comet[n].applied
BY DEF Phase, TypeOK, Comet

\* A call that is taken was below the block store, and none is added.
LEMMA TakeCallHeights ==
  ASSUME TypeOK, NEW n \in Node, NEW c \in calls[n], TakeCall(n, c), HeightsInv(n)
  PROVE  /\ c \in Call
         /\ c.height <= comet[n].stored
         /\ \A d \in calls'[n] : d.height <= comet[n].stored
         /\ appUp[n]
         /\ frame[n].op = "idle"
BY DEF TypeOK, TakeCall, LockFree, HeightsInv

-----------------------------------------------------------------------------
(* Each step keeps the invariant of its node.                              *)

\* StartFinalizeBlock: the frame holds the committed ledger and no transaction.
LEMMA StartFinalizeBlockInv ==
  ASSUME TypeOK, NEW n \in Node, NodeInv(n), StartFinalizeBlock(n)
  PROVE  NodeInv(n)'
<1>1. PICK c \in calls[n] :
        /\ CanFinalize(n, c.height)
        /\ TakeCall(n, c)
        /\ frame' = [frame EXCEPT ![n] =
                       [op |-> "execute", height |-> c.height, next |-> 0,
                        ledger |-> committed[n].ledger, live |-> c.live]]
  BY DEF StartFinalizeBlock
<1>2. /\ c \in Call
      /\ c.height <= comet[n].stored
      /\ \A d \in calls'[n] : d.height <= comet[n].stored
      /\ appUp[n]
      /\ frame[n].op = "idle"
  BY <1>1, TakeCallHeights DEF NodeInv
<1>3. /\ frame'[n].op = "execute"
      /\ frame'[n].height = c.height
      /\ frame'[n].next = 0
      /\ frame'[n].ledger = committed[n].ledger
      /\ decided' = decided
      /\ UNCHANGED <<appUp, committed, pending, disk, comet>>
  BY <1>1 DEF StartFinalizeBlock, TypeOK
<1>4. committed[n] \in Snapshot /\ disk[n] = committed[n] /\ pending[n] = NoBlock
  BY <1>1, <1>2 DEF NodeInv, DurableInv, TypeOK, CanFinalize
<1>5. DurableInv(n)' /\ PendingInv(n)'
  BY <1>2, <1>3, <1>4 DEF NodeInv, DurableInv, PendingInv
<1>6. ExecutionInv(n)'
  <2>1. c.height = committed[n].height + 1 /\ committed[n].height \in Nat
    BY <1>1, <1>4 DEF CanFinalize, Snapshot
  <2>2. c.height \in DOMAIN decided
    <3>1. /\ comet[n].stored \in Nat
          /\ comet[n].stored <= Len(decided)
          /\ DOMAIN decided = 1 .. Len(decided)
          /\ Len(decided) \in Nat
      BY LenProperties DEF TypeOK, Comet, NodeInv, HeightsInv
    <3>. QED  BY <1>2, <2>1, <3>1
  <2>3. 0 <= Len(decided[c.height])
    BY <2>2, ElementOfSeq, LenProperties DEF TypeOK
  <2>4. Follows(committed[n], [height |-> c.height, ledger |-> committed[n].ledger])
    BY <1>4, <2>1, FollowsStart
  <2>5. ASSUME NEW i \in DOMAIN committed[n].ledger
        PROVE  Precedes(committed[n].ledger[i], [height |-> c.height, index |-> 0])
    <3>1. committed[n].ledger[i] \in Entry
      BY <1>4, <2>5, ElementOfSeq, LenProperties DEF Snapshot, Ledger
    <3>2. committed[n].ledger[i].height <= committed[n].height
      BY <1>4, <2>5 DEF NodeInv, DurableInv, WithinHeight
    <3>. QED  BY <2>1, <3>1, <3>2 DEF Precedes, Entry
  <2>. QED  BY <1>3, <1>4, <2>2, <2>3, <2>4, <2>5 DEF ExecutionInv, CurrentBlock,
            NodeInv, DurableInv
<1>7. HeightsInv(n)'
  BY <1>2, <1>3 DEF NodeInv, HeightsInv
<1>. QED  BY <1>5, <1>6, <1>7 DEF NodeInv

\* A refused call leaves memory and disk alone.
LEMMA RefuseInv ==
  ASSUME TypeOK, NEW n \in Node, NodeInv(n),
         RefuseFinalizeBlock(n) \/ RefuseCommit(n)
  PROVE  NodeInv(n)'
<1>1. PICK c \in calls[n] : TakeCall(n, c) /\ Error(n, c.live)
  BY DEF RefuseFinalizeBlock, RefuseCommit
<1>2. /\ c \in Call
      /\ \A d \in calls'[n] : d.height <= comet[n].stored
  BY <1>1, TakeCallHeights DEF NodeInv
<1>3. comet'[n].stored = comet[n].stored /\ comet'[n].applied = comet[n].applied
  BY <1>1, <1>2, ErrorHeights DEF Call
<1>4. UNCHANGED <<decided, appUp, committed, pending, frame, disk>>
  BY DEF RefuseFinalizeBlock, RefuseCommit
<1>5. DurableInv(n)' /\ PendingInv(n)' /\ ExecutionInv(n)'
  BY <1>4 DEF NodeInv, DurableInv, PendingInv, ExecutionInv, CurrentBlock
<1>6. HeightsInv(n)'
  BY <1>2, <1>3, <1>4 DEF NodeInv, HeightsInv
<1>. QED  BY <1>5, <1>6 DEF NodeInv

\* ExecuteTransaction: a valid transaction joins the running ledger behind
\* everything in it.
LEMMA ExecuteTransactionInv ==
  ASSUME TypeOK, NEW n \in Node, NodeInv(n), ExecuteTransaction(n)
  PROVE  NodeInv(n)'
<1> DEFINE f     == frame[n]
           tx    == CurrentBlock(n)[f.next + 1]
           entry == Executed(f, tx)
<1>1. /\ f \in Frame
      /\ f.op = "execute"
      /\ f.height \in Nat
      /\ f.next \in Nat
      /\ f.ledger \in Ledger
      /\ f.ledger \in Seq(Entry)
      /\ f.next < Len(CurrentBlock(n))
  BY DEF ExecuteTransaction, TypeOK, Frame, Ledger
<1>2. /\ f.height \in DOMAIN decided
      /\ f.height # 0
      /\ CurrentBlock(n) \in Seq(Transaction)
      /\ Len(CurrentBlock(n)) \in Nat
      /\ pending[n] = NoBlock
      /\ Follows(committed[n], [height |-> f.height, ledger |-> f.ledger])
      /\ Replayable(f.ledger)
  BY <1>1, ElementOfSeq, LenProperties DEF NodeInv, ExecutionInv, CurrentBlock, TypeOK
<1>3. tx \in Transaction
  BY <1>1, <1>2, ElementOfSeq
<1>4. entry \in Entry /\ entry.height = f.height /\ entry.index = f.next /\ entry.tx = tx
  BY <1>1, <1>2, <1>3 DEF Executed, Entry
<1>5. /\ UNCHANGED <<decided, appUp, committed, pending, calls, disk, comet>>
      /\ \/ /\ Accepted(tx, f.ledger)
            /\ CanAppend(f.ledger, entry)
            /\ frame' = [frame EXCEPT ![n].next = @ + 1,
                                      ![n].ledger = Append(@, entry)]
         \/ /\ ~Accepted(tx, f.ledger)
            /\ frame' = [frame EXCEPT ![n].next = @ + 1]
  BY DEF ExecuteTransaction
<1>6. /\ frame'[n].op = "execute"
      /\ frame'[n].height = f.height
      /\ frame'[n].next = f.next + 1
      /\ \/ /\ Accepted(tx, f.ledger)
            /\ CanAppend(f.ledger, entry)
            /\ frame'[n].ledger = Append(f.ledger, entry)
         \/ frame'[n].ledger = f.ledger
  BY <1>1, <1>5 DEF TypeOK, Frame
<1>7. DurableInv(n)' /\ PendingInv(n)' /\ HeightsInv(n)'
  BY <1>1, <1>2, <1>5, <1>6 DEF NodeInv, DurableInv, PendingInv, HeightsInv, Idle
<1>8. /\ Replayable(frame'[n].ledger)
      /\ Follows(committed[n], [height |-> f.height, ledger |-> frame'[n].ledger])
  <2>1. CASE frame'[n].ledger = f.ledger
    BY <1>2, <2>1
  <2>2. CASE /\ Accepted(tx, f.ledger)
             /\ CanAppend(f.ledger, entry)
             /\ frame'[n].ledger = Append(f.ledger, entry)
    <3>1. Replayable(frame'[n].ledger)
      BY <1>1, <1>2, <1>4, <2>2, ReplayableAppend
    <3>2. committed[n] \in Snapshot
      BY DEF TypeOK
    <3>. QED  BY <1>1, <1>2, <1>4, <2>2, <3>1, <3>2, FollowsAppend
  <2>. QED  BY <1>6, <2>1, <2>2
<1>9. ASSUME NEW i \in DOMAIN frame'[n].ledger
      PROVE  Precedes(frame'[n].ledger[i], [height |-> f.height, index |-> f.next + 1])
  <2>1. ASSUME NEW j \in DOMAIN f.ledger
        PROVE  Precedes(f.ledger[j], [height |-> f.height, index |-> f.next + 1])
    <3>1. f.ledger[j] \in Entry
      BY <1>1, ElementOfSeq, LenProperties
    <3>2. Precedes(f.ledger[j], [height |-> f.height, index |-> f.next])
      BY <1>1 DEF NodeInv, ExecutionInv
    <3>. QED  BY <1>1, <3>1, <3>2 DEF Precedes, Entry
  <2>2. CASE frame'[n].ledger = f.ledger
    BY <2>1, <2>2
  <2>3. CASE frame'[n].ledger = Append(f.ledger, entry)
    <3>1. /\ DOMAIN f.ledger = 1 .. Len(f.ledger)
          /\ i \in 1 .. Len(f.ledger) + 1
          /\ Len(f.ledger) \in Nat
          /\ frame'[n].ledger[Len(f.ledger) + 1] = entry
          /\ \A j \in 1 .. Len(f.ledger) : frame'[n].ledger[j] = f.ledger[j]
      BY <1>1, <1>4, <2>3, AppendProperties, LenProperties
    <3>2. Precedes(entry, [height |-> f.height, index |-> f.next + 1])
      BY <1>1, <1>4 DEF Precedes
    <3>. QED  BY <2>1, <3>1, <3>2
  <2>. QED  BY <1>6, <2>2, <2>3
<1>10. ExecutionInv(n)'
  BY <1>1, <1>2, <1>5, <1>6, <1>8, <1>9 DEF ExecutionInv, CurrentBlock
<1>. QED  BY <1>7, <1>10 DEF NodeInv

\* FinishFinalizeBlock: the running ledger becomes the pending one.
LEMMA FinishFinalizeBlockInv ==
  ASSUME TypeOK, NEW n \in Node, NodeInv(n), FinishFinalizeBlock(n)
  PROVE  NodeInv(n)'
<1> DEFINE f == frame[n]
<1>1. /\ f.op = "execute"
      /\ f.live \in BOOLEAN
      /\ frame'[n] = Idle
      /\ pending'[n] = [height |-> f.height, ledger |-> f.ledger]
      /\ UNCHANGED <<decided, appUp, committed, calls, disk>>
  BY DEF FinishFinalizeBlock, TypeOK, Frame
<1>2. comet'[n].stored = comet[n].stored /\ comet'[n].applied = comet[n].applied
  BY <1>1 DEF FinishFinalizeBlock, Answer, TypeOK, Comet
<1>3. /\ appUp[n]
      /\ disk[n] = committed[n]
      /\ Follows(committed[n], pending'[n])
      /\ Replayable(pending'[n].ledger)
  BY <1>1 DEF NodeInv, DurableInv, ExecutionInv, Idle
<1>4. DurableInv(n)' /\ PendingInv(n)' /\ ExecutionInv(n)'
  BY <1>1, <1>3 DEF NodeInv, DurableInv, PendingInv, ExecutionInv, Idle
<1>5. HeightsInv(n)'
  <2>1. 0 <= comet[n].stored
    BY DEF TypeOK, Comet
  <2>. QED  BY <1>1, <1>2, <2>1 DEF NodeInv, HeightsInv, Idle
<1>. QED  BY <1>4, <1>5 DEF NodeInv

\* StartCommit: the lock is taken with a block pending.
LEMMA StartCommitInv ==
  ASSUME TypeOK, NEW n \in Node, NodeInv(n), StartCommit(n)
  PROVE  NodeInv(n)'
<1>1. PICK c \in calls[n] :
        /\ TakeCall(n, c)
        /\ frame' = [frame EXCEPT ![n] = [Idle EXCEPT !.op = "save", !.live = c.live]]
  BY DEF StartCommit
<1>2. /\ \A d \in calls'[n] : d.height <= comet[n].stored
      /\ appUp[n]
      /\ frame[n].op = "idle"
  BY <1>1, TakeCallHeights DEF NodeInv
<1>3. /\ frame'[n].op = "save"
      /\ frame'[n].height = 0
      /\ pending[n] # NoBlock
      /\ UNCHANGED <<decided, appUp, committed, pending, disk, comet>>
  BY <1>1 DEF StartCommit, TypeOK, Idle
<1>4. DurableInv(n)' /\ PendingInv(n)' /\ ExecutionInv(n)'
  BY <1>2, <1>3 DEF NodeInv, DurableInv, PendingInv, ExecutionInv
<1>5. HeightsInv(n)'
  <2>1. 0 <= comet[n].stored
    BY DEF TypeOK, Comet
  <2>. QED  BY <1>2, <1>3, <2>1 DEF NodeInv, HeightsInv
<1>. QED  BY <1>4, <1>5 DEF NodeInv

\* SaveSnapshot: what is written is the pending block, which reloads.
LEMMA SaveSnapshotInv ==
  ASSUME TypeOK, NEW n \in Node, NodeInv(n), SaveSnapshot(n)
  PROVE  NodeInv(n)'
<1>1. /\ frame[n].op = "save"
      /\ SaveAllowed(disk[n], pending[n])
      /\ disk'[n] = Saved(disk[n], pending[n])
      /\ frame'[n].op = "promote"
      /\ frame'[n].height = frame[n].height
      /\ UNCHANGED <<decided, appUp, committed, pending, calls, comet>>
  BY DEF SaveSnapshot, TypeOK, Frame
<1>2. /\ disk[n] \in Snapshot
      /\ pending[n] \in Snapshot
      /\ committed[n] \in Snapshot
  BY DEF TypeOK
<1>3. disk'[n] = pending[n]
  BY <1>1, <1>2, SavedIsSnapshot
<1>4. /\ appUp[n]
      /\ pending[n] # NoBlock
      /\ disk[n] = committed[n]
      /\ Follows(committed[n], pending[n])
      /\ Replayable(pending[n].ledger)
  BY <1>1 DEF NodeInv, DurableInv, PendingInv, Idle
<1>5. WithinHeight(pending[n])
  BY <1>2, <1>4, FollowsWithin DEF NodeInv, DurableInv
<1>6. DurableInv(n)' /\ PendingInv(n)' /\ ExecutionInv(n)'
  BY <1>1, <1>3, <1>4, <1>5 DEF NodeInv, DurableInv, PendingInv, ExecutionInv
<1>7. HeightsInv(n)'
  BY <1>1, <1>3, <1>4 DEF NodeInv, HeightsInv
<1>. QED  BY <1>6, <1>7 DEF NodeInv

\* SaveFails: the pending block stays, the lock is free again.
LEMMA SaveFailsInv ==
  ASSUME TypeOK, NEW n \in Node, NodeInv(n), SaveFails(n)
  PROVE  NodeInv(n)'
<1>1. /\ frame[n].op = "save"
      /\ frame[n].live \in BOOLEAN
      /\ frame'[n] = Idle
      /\ UNCHANGED <<decided, appUp, committed, pending, calls, disk>>
  BY DEF SaveFails, TypeOK, Frame
<1>2. comet'[n].stored = comet[n].stored /\ comet'[n].applied = comet[n].applied
  BY <1>1, ErrorHeights DEF SaveFails
<1>3. DurableInv(n)' /\ PendingInv(n)' /\ ExecutionInv(n)'
  BY <1>1 DEF NodeInv, DurableInv, PendingInv, ExecutionInv, Idle
<1>4. HeightsInv(n)'
  <2>1. 0 <= comet[n].stored
    BY DEF TypeOK, Comet
  <2>. QED  BY <1>1, <1>2, <2>1 DEF NodeInv, HeightsInv, Idle
<1>. QED  BY <1>3, <1>4 DEF NodeInv

\* PromoteBlock: memory catches up with the disk, and CometBFT with memory.
LEMMA PromoteBlockInv ==
  ASSUME TypeOK, NEW n \in Node, NodeInv(n), PromoteBlock(n)
  PROVE  NodeInv(n)'
<1>1. /\ frame[n].op = "promote"
      /\ frame'[n] = Idle
      /\ committed'[n] = pending[n]
      /\ pending'[n] = NoBlock
      /\ UNCHANGED <<decided, appUp, calls, disk>>
  BY DEF PromoteBlock, TypeOK
<1>2. /\ appUp[n]
      /\ disk[n] = pending[n]
      /\ pending[n].height = committed[n].height + 1
  BY <1>1 DEF NodeInv, DurableInv, PendingInv, Idle, Follows
<1>3. /\ comet'[n].stored = comet[n].stored
      /\ comet'[n].applied \in {comet[n].applied, comet[n].applied + 1}
  <2>1. comet[n] \in Comet
    BY DEF TypeOK
  <2> DEFINE after == [comet[n] EXCEPT !.phase = "ready", !.applied = @ + 1]
  <2>2. after.stored = comet[n].stored /\ after.applied = comet[n].applied + 1
    BY <2>1 DEF Comet
  <2>. QED  BY <2>2 DEF PromoteBlock, Answer, TypeOK
<1>4. DurableInv(n)' /\ PendingInv(n)' /\ ExecutionInv(n)'
  BY <1>1, <1>2 DEF NodeInv, DurableInv, PendingInv, ExecutionInv, Idle
<1>5. HeightsInv(n)'
  <2>1. /\ comet[n].stored \in Nat
        /\ comet[n].applied \in Nat
        /\ committed[n].height \in Nat
    BY DEF TypeOK, Comet, Snapshot
  <2>2. comet'[n].applied <= committed'[n].height
    BY <1>1, <1>2, <1>3, <2>1 DEF NodeInv, HeightsInv
  <2>3. 0 <= comet[n].stored
    BY <2>1
  <2>. QED  BY <1>1, <1>2, <1>3, <2>2, <2>3 DEF NodeInv, HeightsInv, Idle, NoBlock,
            EmptySnapshot
<1>. QED  BY <1>4, <1>5 DEF NodeInv

\* StartApplication: the application is what it loaded.
LEMMA StartApplicationInv ==
  ASSUME TypeOK, NEW n \in Node, NodeInv(n), StartApplication(n)
  PROVE  NodeInv(n)'
<1>1. /\ ~appUp[n]
      /\ appUp'[n]
      /\ committed'[n] = disk[n]
      /\ pending'[n] = NoBlock
      /\ UNCHANGED <<decided, frame, calls, disk, comet>>
  BY DEF StartApplication, TypeOK
<1>2. frame[n] = Idle /\ pending[n] = NoBlock
  BY <1>1 DEF NodeInv, DurableInv
<1>3. DurableInv(n)' /\ PendingInv(n)' /\ ExecutionInv(n)'
  BY <1>1, <1>2 DEF NodeInv, DurableInv, PendingInv, ExecutionInv, Idle
<1>4. HeightsInv(n)'
  BY <1>1, <1>2 DEF NodeInv, HeightsInv
<1>. QED  BY <1>3, <1>4 DEF NodeInv

\* LoseMemory: what the application had reported is on disk.
LEMMA LoseMemoryInv ==
  ASSUME TypeOK, NEW n \in Node, NodeInv(n), LoseMemory(n),
         UNCHANGED <<decided, disk>>,
         comet'[n].stored = comet[n].stored, comet'[n].applied = comet[n].applied
  PROVE  NodeInv(n)'
<1>1. /\ appUp[n]
      /\ ~appUp'[n]
      /\ pending'[n] = NoBlock
      /\ frame'[n] = Idle
      /\ calls'[n] = {}
  BY DEF LoseMemory, TypeOK
<1>2. DurableInv(n)' /\ PendingInv(n)' /\ ExecutionInv(n)'
  BY <1>1 DEF NodeInv, DurableInv, PendingInv, ExecutionInv, Idle
<1>3. comet[n].applied <= disk[n].height
  <2>1. /\ comet[n].applied \in Nat
        /\ committed[n].height \in Nat
        /\ comet[n].applied <= committed[n].height
    BY <1>1 DEF TypeOK, Comet, Snapshot, NodeInv, HeightsInv
  <2>2. disk[n].height \in {committed[n].height, committed[n].height + 1}
    BY <1>1 DEF NodeInv, DurableInv, PendingInv, Follows
  <2>. QED  BY <2>1, <2>2
<1>4. HeightsInv(n)'
  <2>1. 0 <= comet[n].stored
    BY DEF TypeOK, Comet
  <2>. QED  BY <1>1, <1>3, <2>1 DEF NodeInv, HeightsInv, Idle, NoBlock, EmptySnapshot
<1>. QED  BY <1>2, <1>4 DEF NodeInv

\* StopComet: nobody waits for the handler and the calls any more.
LEMMA StopCometInv ==
  ASSUME TypeOK, NEW n \in Node, NodeInv(n), StopComet(n)
  PROVE  NodeInv(n)'
<1>1. /\ UNCHANGED <<decided, appUp, committed, pending, disk>>
      /\ frame'[n] = [frame[n] EXCEPT !.live = FALSE]
      /\ calls'[n] = {[c EXCEPT !.live = FALSE] : c \in calls[n]}
      /\ frame[n] \in Frame
      /\ calls[n] \subseteq Call
  BY DEF StopComet, TypeOK
<1>2. /\ frame'[n].op = frame[n].op
      /\ frame'[n].height = frame[n].height
      /\ frame'[n].next = frame[n].next
      /\ frame'[n].ledger = frame[n].ledger
  BY <1>1 DEF Frame
<1>7. frame[n] = Idle => frame'[n] = Idle
  <2>1. \A f \in Frame : [f EXCEPT !.live = f.live] = f
    BY DEF Frame
  <2>2. Idle.live = FALSE
    BY DEF Idle
  <2>. QED  BY <1>1, <2>1, <2>2
<1>3. comet'[n].stored = comet[n].stored /\ comet'[n].applied = comet[n].applied
  BY PhaseHeights DEF StopComet
<1>4. DurableInv(n)' /\ PendingInv(n)' /\ ExecutionInv(n)'
  BY <1>1, <1>2, <1>7 DEF NodeInv, DurableInv, PendingInv, ExecutionInv, CurrentBlock
<1>5. ASSUME NEW d \in calls'[n] PROVE d.height <= comet[n].stored
  <2>1. PICK c \in calls[n] : d = [c EXCEPT !.live = FALSE]
    BY <1>1
  <2>2. d.height = c.height
    BY <1>1, <2>1 DEF Call
  <2>. QED  BY <2>2 DEF NodeInv, HeightsInv
<1>6. HeightsInv(n)'
  BY <1>1, <1>2, <1>3, <1>5 DEF NodeInv, HeightsInv
<1>. QED  BY <1>4, <1>6 DEF NodeInv

\* Driver: heights only move up to the chain, calls stay below the block store.
LEMMA DriverInv ==
  ASSUME TypeOK, NEW n \in Node, NodeInv(n), Driver(n)
  PROVE  NodeInv(n)'
<1>0. UNCHANGED <<decided, appUp, committed, pending, frame, disk>>
  BY DEF Driver, StartComet, AnswerInfo, InitializeChain, CallFinalizeBlock, CallCommit,
     appVars, CallApplication
<1>1. DurableInv(n)' /\ PendingInv(n)' /\ ExecutionInv(n)'
  BY <1>0 DEF NodeInv, DurableInv, PendingInv, ExecutionInv, CurrentBlock
<1>2. CASE StartComet(n) \/ InitializeChain(n)
  <2>1. comet'[n].stored = comet[n].stored /\ comet'[n].applied = comet[n].applied
    BY <1>2, PhaseHeights DEF StartComet, InitializeChain
  <2>2. UNCHANGED calls
    BY <1>2 DEF StartComet, InitializeChain, appVars
  <2>3. HeightsInv(n)'
    BY <1>0, <2>1, <2>2 DEF NodeInv, HeightsInv
  <2>. QED  BY <1>1, <2>3 DEF NodeInv
<1>3. CASE AnswerInfo(n)
  <2>1. /\ appUp[n]
        /\ UNCHANGED calls
        /\ comet'[n].stored = comet[n].stored
        /\ comet'[n].applied = committed[n].height
    BY <1>3 DEF AnswerInfo, LockFree, appVars, TypeOK, Comet
  <2>2. committed[n].height <= committed[n].height
    BY DEF TypeOK, Snapshot
  <2>3. HeightsInv(n)'
    BY <1>0, <2>1, <2>2 DEF NodeInv, HeightsInv
  <2>. QED  BY <1>1, <2>3 DEF NodeInv
<1>4. CASE CallFinalizeBlock(n)
  <2> DEFINE height == comet[n].applied + 1
             call   == [op |-> "finalize", height |-> height, live |-> TRUE]
  <2>1. /\ comet[n] \in Comet
        /\ height <= Len(decided)
        /\ calls'[n] = calls[n] \cup {call}
        /\ comet'[n] = [comet[n] EXCEPT
                          !.phase = "finalizing",
                          !.stored = IF @ < height THEN height ELSE @]
    BY <1>4 DEF CallFinalizeBlock, CallApplication, TypeOK
  <2>2. /\ comet'[n].stored = IF comet[n].stored < height THEN height ELSE comet[n].stored
        /\ comet'[n].applied = comet[n].applied
    BY <2>1 DEF Comet
  <2>3. /\ comet[n].stored \in Nat
        /\ height \in Nat
        /\ Len(decided) \in Nat
        /\ disk[n].height \in Nat
        /\ pending[n].height \in Nat
        /\ frame[n].height \in Nat
        /\ \A c \in calls[n] : c.height \in Nat
    BY <2>1, LenProperties DEF TypeOK, Comet, Snapshot, Frame, Call
  <2>4. comet'[n].stored <= Len(decided)
    BY <2>1, <2>2 DEF NodeInv, HeightsInv
  <2>5. /\ comet[n].stored <= comet'[n].stored
        /\ height <= comet'[n].stored
        /\ comet'[n].stored \in Nat
    BY <2>2, <2>3
  <2>6. \A c \in calls'[n] : c.height <= comet'[n].stored
    BY <2>1, <2>3, <2>5 DEF NodeInv, HeightsInv
  <2>7. /\ disk[n].height <= comet'[n].stored
        /\ pending[n].height <= comet'[n].stored
        /\ frame[n].height <= comet'[n].stored
    BY <2>3, <2>5 DEF NodeInv, HeightsInv
  <2>8. HeightsInv(n)'
    BY <1>0, <2>2, <2>4, <2>6, <2>7 DEF NodeInv, HeightsInv
  <2>. QED  BY <1>1, <2>8 DEF NodeInv
<1>5. CASE CallCommit(n)
  <2>1. comet'[n].stored = comet[n].stored /\ comet'[n].applied = comet[n].applied
    BY <1>5, PhaseHeights DEF CallCommit
  <2>2. \A c \in calls'[n] : c \in calls[n] \/ c.height = 0
    BY <1>5 DEF CallCommit, CallApplication, TypeOK
  <2>3. 0 <= comet[n].stored
    BY DEF TypeOK, Comet
  <2>4. HeightsInv(n)'
    BY <1>0, <2>1, <2>2, <2>3 DEF NodeInv, HeightsInv
  <2>. QED  BY <1>1, <2>4 DEF NodeInv
<1>. QED  BY <1>2, <1>3, <1>4, <1>5 DEF Driver

\* Each step of a node keeps the invariant of the node.
LEMMA StepInv ==
  ASSUME TypeOK, NEW n \in Node, NodeInv(n), Step(n)
  PROVE  NodeInv(n)'
<1>1. CASE Handler(n)
  BY <1>1, StartFinalizeBlockInv, RefuseInv, ExecuteTransactionInv,
     FinishFinalizeBlockInv, StartCommitInv, SaveSnapshotInv, PromoteBlockInv
     DEF Handler
<1>2. CASE Driver(n)
  BY <1>2, DriverInv
<1>3. CASE SaveFails(n)
  BY <1>3, SaveFailsInv
<1>4. CASE CrashApplication(n)
  <2>1. (comet[n].phase \in {"finalizing", "committing"}) \in BOOLEAN
    OBVIOUS
  <2>2. comet'[n].stored = comet[n].stored /\ comet'[n].applied = comet[n].applied
    BY <1>4, <2>1, ErrorHeights DEF CrashApplication
  <2>. QED  BY <1>4, <2>2, LoseMemoryInv DEF CrashApplication
<1>5. CASE CrashComet(n) \/ RestartHaltedComet(n)
  BY <1>5, StopCometInv DEF CrashComet, RestartHaltedComet
<1>6. CASE StartApplication(n)
  BY <1>6, StartApplicationInv
<1>7. CASE DropOrphan(n)
  <2>1. /\ UNCHANGED <<decided, appUp, committed, pending, frame, disk, comet>>
        /\ calls'[n] \subseteq calls[n]
    BY <1>7 DEF DropOrphan, TypeOK
  <2>. QED  BY <2>1 DEF NodeInv, DurableInv, PendingInv, ExecutionInv, HeightsInv,
            CurrentBlock
<1>8. CASE RestartNode(n)
  <2>1. comet'[n].stored = comet[n].stored /\ comet'[n].applied = comet[n].applied
    BY <1>8, PhaseHeights DEF RestartNode
  <2>. QED  BY <1>8, <2>1, LoseMemoryInv DEF RestartNode
<1>. QED  BY <1>1, <1>2, <1>3, <1>4, <1>5, <1>6, <1>7, <1>8 DEF Step, Fault

-----------------------------------------------------------------------------
(* IInv is inductive.                                                      *)

\* A fresh network satisfies the invariant.
LEMMA InitInv == Init => IInv
<1>. SUFFICES ASSUME Init PROVE IInv
  OBVIOUS
<1>1. ASSUME NEW n \in Node PROVE NodeInv(n)
  <2>1. /\ disk[n] = EmptySnapshot
        /\ committed[n] = EmptySnapshot
        /\ pending[n] = NoBlock
        /\ frame[n] = Idle
        /\ calls[n] = {}
        /\ ~appUp[n]
        /\ comet[n].stored = 0
        /\ comet[n].applied = 0
        /\ Len(decided) = 0
    BY EmptySeq DEF Init
  <2>2. WithinHeight(EmptySnapshot) /\ Replayable(EmptySnapshot.ledger)
    BY ReplayableEmpty, EmptySeq DEF WithinHeight, EmptySnapshot
  <2>3. DurableInv(n) /\ PendingInv(n) /\ ExecutionInv(n)
    BY <2>1, <2>2 DEF DurableInv, PendingInv, ExecutionInv, Idle
  <2>4. HeightsInv(n)
    BY <2>1 DEF HeightsInv, Idle, NoBlock, EmptySnapshot
  <2>. QED  BY <2>3, <2>4 DEF NodeInv
<1>. QED  BY <1>1, InitType DEF IInv

\* Every step keeps the invariant.
LEMMA NextInv == IInv /\ [Next]_vars => IInv'
<1>. SUFFICES ASSUME IInv, [Next]_vars PROVE IInv'
  OBVIOUS
<1>0. TypeOK /\ TypeOK' /\ \A m \in Node : NodeInv(m)
  BY TypeStep DEF IInv
<1>1. CASE Decide
  <2>1. /\ \A m \in Node : Untouched(m)
        /\ \E block \in Block : decided' = Append(decided, block)
    BY <1>1 DEF Decide, appVars, Untouched
  <2>. QED  BY <1>0, <2>1, UntouchedInv DEF IInv
<1>2. ASSUME NEW n \in Node, Step(n) PROVE IInv'
  <2>1. NodeInv(n)'
    BY <1>0, <1>2, StepInv
  <2>2. \A m \in Node \ {n} : NodeInv(m)'
    BY <1>0, <1>2, Locality, UntouchedInv
  <2>. QED  BY <1>0, <2>1, <2>2 DEF IInv
<1>3. CASE UNCHANGED vars
  <2>1. decided' = decided /\ \A m \in Node : Untouched(m)
    BY <1>3 DEF vars, appVars, Untouched
  <2>. QED  BY <1>0, <2>1, UntouchedInv DEF IInv
<1>. QED  BY <1>1, <1>2, <1>3 DEF Next

\* Every reachable state satisfies the invariant.
THEOREM Invariance == Spec => []IInv
BY InitInv, NextInv, PTL DEF Spec

-----------------------------------------------------------------------------
(* The safety properties.                                                  *)

\* The store accepts, as no change, what it has persisted.
LEMMA AllowedSelf ==
  ASSUME NEW snapshot \in Snapshot, WithinHeight(snapshot)
  PROVE  SaveAllowed(snapshot, snapshot)
<1>1. /\ snapshot.height \in Nat
      /\ Len(snapshot.ledger) \in Nat
      /\ Prefix(snapshot.ledger, Len(snapshot.ledger)) = snapshot.ledger
  BY LenProperties, SubSeqFull DEF Snapshot, Ledger, Prefix
<1>. QED  BY <1>1 DEF SaveAllowed

\* The state of handler, store and CometBFT keeps its types, for any number of
\* nodes, transactions, blocks and faults.
THEOREM TypeCorrect == Spec => []TypeOK
<1>1. IInv => TypeOK
  BY DEF IInv
<1>. QED  BY <1>1, Invariance, PTL

\* A node can always be started again from its database, wherever it crashed.
THEOREM Recoverability == Spec => []StoredLedgerReloads
<1>1. IInv => StoredLedgerReloads
  BY DEF IInv, NodeInv, DurableInv, StoredLedgerReloads
<1>. QED  BY <1>1, Invariance, PTL

\* The application answers from durable state: memory and database are one
\* block apart at most, and only inside a Commit.
THEOREM MemoryIsDurable == Spec => []MemoryTracksDisk
<1>1. IInv => MemoryTracksDisk
  BY DEF IInv, NodeInv, DurableInv, MemoryTracksDisk
<1>. QED  BY <1>1, Invariance, PTL

\* store.save never raises ValueError for a block finalize_block left pending,
\* so that commit fails by SQLite errors only.
THEOREM CommitIsAccepted == Spec => []StoreAcceptsPending
<1>1. IInv => StoreAcceptsPending
  <2>. SUFFICES ASSUME IInv, NEW n \in Node, pending[n] # NoBlock
                PROVE  SaveAllowed(disk[n], pending[n])
    BY DEF StoreAcceptsPending
  <2>1. /\ disk[n] \in Snapshot /\ pending[n] \in Snapshot
        /\ WithinHeight(disk[n])
        /\ disk[n] \in {committed[n], pending[n]}
        /\ Follows(committed[n], pending[n])
    BY DEF IInv, TypeOK, NodeInv, DurableInv, PendingInv
  <2>2. CASE disk[n] = committed[n]
    BY <2>1, <2>2, FollowsAllowed
  <2>3. CASE disk[n] = pending[n]
    BY <2>1, <2>3, AllowedSelf
  <2>. QED  BY <2>1, <2>2, <2>3
<1>. QED  BY <1>1, Invariance, PTL

\* finalize_block never meets its RuntimeError: a transaction the validator
\* accepts on the running ledger is appended to it.
THEOREM NoFinalizeError == Spec => []ValidMeansAppendable
<1>1. IInv => ValidMeansAppendable
  <2>. SUFFICES ASSUME IInv, NEW n \in Node,
                       frame[n].op = "execute", frame[n].next < Len(CurrentBlock(n)),
                       NEW tx, Accepted(tx, frame[n].ledger)
                PROVE  CanAppend(frame[n].ledger, Executed(frame[n], tx))
    BY DEF ValidMeansAppendable
  <2> DEFINE ledger == frame[n].ledger
             entry  == Executed(frame[n], tx)
  <2>1. ~Duplicate(tx, ledger)
    BY DEF Accepted, Validate
  <2>2. DistinctRefs(tx) /\ Refs(tx) \cap RecordedRefs(ledger) = {}
    BY <2>1 DEF Duplicate
  <2>3. ledger # <<>> => Precedes(ledger[Len(ledger)], entry)
    <3>1. ledger \in Seq(Entry)
      BY DEF IInv, TypeOK, Frame, Ledger
    <3>2. ledger # <<>> => Len(ledger) \in DOMAIN ledger
      BY <3>1, EmptySeq, LenProperties
    <3>3. \A i \in DOMAIN ledger :
             Precedes(ledger[i], [height |-> frame[n].height, index |-> frame[n].next])
      BY DEF IInv, NodeInv, ExecutionInv
    <3>. QED  BY <3>2, <3>3 DEF Executed, Precedes
  <2>4. entry.tx = tx
    BY DEF Executed
  <2>. QED  BY <2>2, <2>3, <2>4 DEF CanAppend
<1>. QED  BY <1>1, Invariance, PTL

\* What the application reported as committed survives every crash of it.
THEOREM ReportsAreDurable == Spec => []ReportedHeightIsDurable
<1>1. IInv => ReportedHeightIsDurable
  <2>. SUFFICES ASSUME IInv, NEW n \in Node
                PROVE  comet[n].applied <= disk[n].height
    BY DEF ReportedHeightIsDurable
  <2>1. /\ comet[n].applied \in Nat
        /\ committed[n].height \in Nat
        /\ disk[n].height \in Nat
        /\ comet[n].applied <= IF appUp[n] THEN committed[n].height ELSE disk[n].height
    BY DEF IInv, TypeOK, Comet, Snapshot, NodeInv, HeightsInv
  <2>2. appUp[n] => disk[n].height \in {committed[n].height, committed[n].height + 1}
    BY DEF IInv, NodeInv, DurableInv, PendingInv, Follows
  <2>. QED  BY <2>1, <2>2
<1>. QED  BY <1>1, Invariance, PTL

\* The handshake never finds the application ahead of the block store.
THEOREM NeverAhead == Spec => []ApplicationNeverAhead
<1>1. IInv => ApplicationNeverAhead
  BY DEF IInv, NodeInv, HeightsInv, ApplicationNeverAhead
<1>. QED  BY <1>1, Invariance, PTL

\* No artifact is recorded by two entries of a database.
THEOREM UniqueArtifacts == Spec => []ArtifactsAreUnique
<1>1. IInv => ArtifactsAreUnique
  BY ReplayableUnique DEF IInv, TypeOK, Snapshot, NodeInv, DurableInv, ArtifactsAreUnique
<1>. QED  BY <1>1, Invariance, PTL

\* Every recorded relation connects recorded contributions.
THEOREM ResolvedRelations == Spec => []RelationsResolve
<1>1. IInv => RelationsResolve
  BY ReplayableResolves DEF IInv, TypeOK, Snapshot, NodeInv, DurableInv, RelationsResolve
<1>. QED  BY <1>1, Invariance, PTL

\* A block FinalizeBlock was given goes through: appending its accepted
\* transactions and saving the outcome cannot be refused.
THEOREM DecidedBlocksGoThrough == Spec => []BlocksGoThrough
BY CommitIsAccepted, NoFinalizeError, PTL DEF BlocksGoThrough

\* The recorded graph is sound at every instant, on every node.
THEOREM SoundGraph == Spec => []GraphIsSound
BY UniqueArtifacts, ResolvedRelations, PTL DEF GraphIsSound

\* No step removes or rewrites what a database holds, or skips a height.
THEOREM AppendOnly == Spec => DurableHistoryOnlyGrows
<1> DEFINE Grows(n) ==
      disk'[n] # disk[n] =>
        /\ disk'[n].height = disk[n].height + 1
        /\ Len(disk[n].ledger) <= Len(disk'[n].ledger)
        /\ Prefix(disk'[n].ledger, Len(disk[n].ledger)) = disk[n].ledger
<1>1. ASSUME IInv, NEW n \in Node, SaveSnapshot(n) PROVE Grows(n)
  <2>1. /\ frame[n].op = "save"
        /\ SaveAllowed(disk[n], pending[n])
        /\ disk'[n] = Saved(disk[n], pending[n])
        /\ disk[n] \in Snapshot
        /\ pending[n] \in Snapshot
    BY <1>1 DEF SaveSnapshot, IInv, TypeOK
  <2>2. disk'[n] = pending[n]
    BY <2>1, SavedIsSnapshot
  <2>3. disk[n] = committed[n] /\ Follows(committed[n], pending[n])
    BY <1>1, <2>1 DEF IInv, NodeInv, DurableInv, PendingInv, Idle
  <2>. QED  BY <2>2, <2>3 DEF Follows
<1>2. ASSUME NEW n \in Node, Step(n), ~SaveSnapshot(n) PROVE disk' = disk
  BY <1>2 DEF Step, Handler, StartFinalizeBlock, RefuseFinalizeBlock, ExecuteTransaction,
     FinishFinalizeBlock, StartCommit, RefuseCommit, PromoteBlock, Driver, StartComet,
     AnswerInfo, InitializeChain, CallFinalizeBlock, CallCommit, CallApplication, Fault,
     SaveFails, CrashApplication, CrashComet, StopComet, StartApplication, DropOrphan,
     RestartHaltedComet, RestartNode, appVars
<1>3. IInv /\ [Next]_vars => [\A n \in Node : Grows(n)]_disk
  <2>. SUFFICES ASSUME IInv, [Next]_vars, NEW n \in Node PROVE Grows(n)
    OBVIOUS
  <2>1. CASE Decide \/ UNCHANGED vars
    BY <2>1 DEF Decide, vars, appVars
  <2>2. ASSUME NEW m \in Node, Step(m) PROVE Grows(n)
    <3>1. CASE m = n
      BY <1>1, <1>2, <2>2, <3>1
    <3>2. CASE m # n
      BY <2>2, <3>2, Locality DEF IInv, Untouched
    <3>. QED  BY <3>1, <3>2
  <2>. QED  BY <2>1, <2>2 DEF Next
<1>. QED  BY <1>3, Invariance, PTL DEF Spec, DurableHistoryOnlyGrows

-----------------------------------------------------------------------------
(* The abstract ledger shares the validator and the execution of a block.  *)

LEMMA SameVerdict == \A tx, ledger : Abstract!Accepted(tx, ledger) <=> Accepted(tx, ledger)
BY DEF Accepted, Abstract!Accepted, Validate, Abstract!Validate, Duplicate, Abstract!Duplicate,
       MissingReference, Abstract!MissingReference, DistinctRefs, Abstract!DistinctRefs,
       Refs, Abstract!Refs, RecordedRefs, Abstract!RecordedRefs, Endpoints, Abstract!Endpoints,
       Contributions, Abstract!Contributions, RecordedContributions,
       Abstract!RecordedContributions

LEMMA SameExecution ==
  \A ledger, block, height : Abstract!Execute(ledger, block, height) = Execute(ledger, block, height)
BY DEF Execute, Abstract!Execute,
       Accepted, Abstract!Accepted, Validate, Abstract!Validate, Duplicate, Abstract!Duplicate,
       MissingReference, Abstract!MissingReference, DistinctRefs, Abstract!DistinctRefs,
       Refs, Abstract!Refs, RecordedRefs, Abstract!RecordedRefs, Endpoints, Abstract!Endpoints,
       Contributions, Abstract!Contributions, RecordedContributions,
       Abstract!RecordedContributions

-----------------------------------------------------------------------------
(* Ledgers that extend one another.                                        *)

\* new is old and entries of heights above height.
Extends(old, new, height) ==
  LET k == Len(old)
  IN  /\ k <= Len(new)
      /\ Prefix(new, k) = old
      /\ \A i \in (k + 1) .. Len(new) : new[i].height > height

\* A ledger extends itself.
LEMMA ExtendsSelf ==
  ASSUME NEW ledger \in Ledger, NEW height
  PROVE  Extends(ledger, ledger, height)
<1>1. Len(ledger) \in Nat /\ Prefix(ledger, Len(ledger)) = ledger
  BY LenProperties, SubSeqFull DEF Ledger, Prefix
<1>. QED  BY <1>1 DEF Extends

\* The entry of a later height extends what is extended.
LEMMA ExtendsAppend ==
  ASSUME NEW old \in Ledger, NEW ledger \in Ledger, NEW e \in Entry, NEW height \in Nat,
         Extends(old, ledger, height), e.height > height
  PROVE  Extends(old, Append(ledger, e), height)
<1> DEFINE k   == Len(old)
           new == Append(ledger, e)
<1>1. k \in Nat /\ ledger \in Seq(Entry) /\ Len(ledger) \in Nat /\ k \in 0 .. Len(ledger)
  BY LenProperties DEF Ledger, Extends
<1>2. /\ Len(new) = Len(ledger) + 1
      /\ new[Len(ledger) + 1] = e
      /\ \A i \in 1 .. Len(ledger) : new[i] = ledger[i]
  BY <1>1, AppendProperties
<1>3. Prefix(new, k) = old
  BY <1>1, PrefixOfAppend DEF Extends
<1>4. ASSUME NEW i \in (k + 1) .. Len(new) PROVE new[i].height > height
  <2>1. CASE i = Len(ledger) + 1
    BY <1>2, <2>1
  <2>2. CASE i # Len(ledger) + 1
    <3>1. i \in (k + 1) .. Len(ledger) /\ i \in 1 .. Len(ledger)
      BY <1>1, <1>2, <2>2
    <3>. QED  BY <1>2, <3>1 DEF Extends
  <2>. QED  BY <2>1, <2>2
<1>. QED  BY <1>1, <1>2, <1>3, <1>4 DEF Extends

\* The execution of a block extends the ledger it starts from and every ledger
\* that one extends.
LEMMA RunsExtend ==
  ASSUME NEW ledger \in Ledger, NEW block \in Seq(Transaction), NEW height \in Nat \ {0},
         NEW f, Runs(f, ledger, block, height, Len(block)),
         NEW old \in Ledger, NEW below \in Nat, below < height,
         Extends(old, ledger, below)
  PROVE  Extends(old, f[Len(block)], below)
<1> DEFINE T == {k \in Nat : k \in 0 .. Len(block) => Extends(old, f[k], below)}
<1>0. Len(block) \in Nat
  BY LenProperties
<1>3. \A k \in 0 .. Len(block) : f[k] \in Ledger
  <2>1. Ledger = Seq(EntryOf(Transaction)) /\ Len(block) <= Len(block)
    BY <1>0 DEF Ledger, Entry, EntryOf
  <2>. QED  BY <1>0, <2>1, RunsType
<1>1. 0 \in T
  BY DEF Runs
<1>2. ASSUME NEW k \in T PROVE k + 1 \in T
  <2>. SUFFICES ASSUME k + 1 \in 0 .. Len(block) PROVE Extends(old, f[k + 1], below)
    OBVIOUS
  <2>1. k \in Nat /\ k + 1 \in 1 .. Len(block) /\ (k + 1) - 1 = k /\ Extends(old, f[k], below)
    BY <1>0
  <2>2. f[k + 1] = ExecuteOne(f[k], block[k + 1], height, k)
    BY <2>1 DEF Runs
  <2>3. f[k] \in Ledger /\ block[k + 1] \in Transaction
    BY <1>0, <1>3, <2>1, ElementOfSeq
  <2> DEFINE e == [height |-> height, index |-> k, tx |-> block[k + 1]]
  <2>4. e \in Entry /\ e.height > below
    BY <2>1, <2>3 DEF Entry
  <2>5. Extends(old, Append(f[k], e), below)
    BY <2>1, <2>3, <2>4, ExtendsAppend
  <2>. QED  BY <2>1, <2>2, <2>5 DEF ExecuteOne
<1>4. T = Nat
  <2>. HIDE DEF T
  <2>. QED  BY <1>1, <1>2, Induction DEF T
<1>. QED  BY <1>0, <1>4

\* The abstract execution of a block is a ledger, and extends what the ledger
\* before it extends.
LEMMA ExecuteExtends ==
  ASSUME NEW ledger \in Ledger, NEW block \in Seq(Transaction), NEW height \in Nat \ {0}
  PROVE  /\ Abstract!Execute(ledger, block, height) \in Ledger
         /\ \A old \in Ledger : \A below \in 0 .. height - 1 :
              Extends(old, ledger, below) =>
                Extends(old, Abstract!Execute(ledger, block, height), below)
<1>1. PICK f : Runs(f, ledger, block, height, Len(block))
  BY RunsThrough, LenProperties
<1>2. Abstract!Execute(ledger, block, height) = f[Len(block)]
  BY <1>1, ExecuteRuns, SameExecution, LenProperties
<1>3. f[Len(block)] \in Ledger
  <2>1. Ledger = Seq(EntryOf(Transaction)) /\ Len(block) \in Nat /\ Len(block) <= Len(block)
    BY LenProperties DEF Ledger, Entry, EntryOf
  <2>. QED  BY <1>1, <2>1, RunsType
<1>. QED  BY <1>1, <1>2, <1>3, RunsExtend

-----------------------------------------------------------------------------
(* The history every node and every answer conform to.                     *)

\* H[h] is the ledger after the first h decided blocks.
History(H) ==
  /\ H \in [0 .. Len(decided) -> Ledger]
  /\ H[0] = <<>>
  /\ \A h \in 1 .. Len(decided) : H[h] = Abstract!Execute(H[h - 1], decided[h], h)
  /\ \A h \in 0 .. Len(decided) : \A g \in 0 .. h : Extends(H[g], H[h], g)

\* The snapshot is a moment of the history, and its hash was answered.
Conforms(H, snapshot) ==
  /\ snapshot.height <= Len(decided)
  /\ snapshot.ledger = H[snapshot.height]
  /\ snapshot.height > 0 =>
       [height |-> snapshot.height, hash |-> StateHash(snapshot.ledger)] \in answered

\* The running execution started from the history.
ExecutionConforms(H, n) ==
  frame[n].op = "execute" =>
    \E f : /\ Runs(f, H[frame[n].height - 1], CurrentBlock(n), frame[n].height, frame[n].next)
           /\ frame[n].ledger = f[frame[n].next]

NodeConforms(H, n) ==
  /\ Conforms(H, disk[n])
  /\ Conforms(H, committed[n])
  /\ Conforms(H, pending[n])
  /\ ExecutionConforms(H, n)

AnswersConform(H) ==
  \A s \in answered : s.height \in 1 .. Len(decided) /\ s.hash = StateHash(H[s.height])

AgreeInv ==
  \E H : History(H) /\ AnswersConform(H) /\ \A n \in Node : NodeConforms(H, n)

\* A fresh database is the beginning of every history.
LEMMA EmptyConforms ==
  ASSUME TypeOK, NEW H, History(H)
  PROVE  Conforms(H, EmptySnapshot)
<1>1. Len(decided) \in Nat
  BY LenProperties DEF TypeOK
<1>. QED  BY <1>1 DEF History, Conforms, EmptySnapshot

\* Every history begins empty.
LEMMA InitAgree == Init => AgreeInv
<1>. SUFFICES ASSUME Init PROVE AgreeInv
  OBVIOUS
<1> DEFINE H == [h \in 0 .. 0 |-> <<>>]
<1>0. decided = <<>> /\ Len(decided) = 0 /\ answered = {} /\ TypeOK
  BY InitType, EmptySeq DEF Init
<1>1. History(H)
  <2>1. <<>> \in Ledger
    BY ReplayableEmpty
  <2>2. H \in [0 .. 0 -> Ledger] /\ H[0] = <<>>
    BY <2>1
  <2>3. Extends(H[0], H[0], 0)
    BY <2>1, <2>2, ExtendsSelf
  <2>4. \A h \in 0 .. 0 : \A g \in 0 .. h : h = 0 /\ g = 0
    OBVIOUS
  <2>. HIDE DEF H
  <2>. QED  BY <1>0, <2>2, <2>3, <2>4 DEF History
<1>2. AnswersConform(H)
  BY <1>0 DEF AnswersConform
<1>3. ASSUME NEW n \in Node PROVE NodeConforms(H, n)
  <2>1. disk[n] = EmptySnapshot /\ committed[n] = EmptySnapshot /\ pending[n] = EmptySnapshot
        /\ frame[n].op # "execute"
    BY DEF Init, NoBlock, Idle
  <2>2. Conforms(H, EmptySnapshot)
    BY <1>0, <1>1, EmptyConforms
  <2>. QED  BY <2>1, <2>2 DEF NodeConforms, ExecutionConforms
<1>. QED  BY <1>1, <1>2, <1>3 DEF AgreeInv

\* What conforms to a history still does when its decided blocks stay and more
\* is answered.
LEMMA ConformsOn ==
  ASSUME NEW H, NEW snapshot, Conforms(H, snapshot),
         decided' = decided, answered \subseteq answered'
  PROVE  Conforms(H, snapshot)'
BY DEF Conforms

\* A history stays one, and answers it covers stay covered.
LEMMA HistoryOn ==
  ASSUME NEW H, History(H), decided' = decided
  PROVE  /\ History(H)'
         /\ answered' = answered /\ AnswersConform(H) => AnswersConform(H)'
BY DEF History, AnswersConform

\* An execution begins with none of its block executed.
LEMMA StartAgrees ==
  ASSUME IInv, NEW n \in Node, NEW H, History(H), NodeConforms(H, n), StartFinalizeBlock(n)
  PROVE  NodeConforms(H, n)'
<1>1. PICK c \in calls[n] :
        /\ CanFinalize(n, c.height)
        /\ frame' = [frame EXCEPT ![n] =
                       [op |-> "execute", height |-> c.height, next |-> 0,
                        ledger |-> committed[n].ledger, live |-> c.live]]
        /\ UNCHANGED <<decided, committed, pending, disk, answered>>
  BY DEF StartFinalizeBlock
<1>2. /\ frame'[n].height = committed[n].height + 1
      /\ frame'[n].next = 0
      /\ frame'[n].ledger = committed[n].ledger
  BY <1>1 DEF CanFinalize, IInv, TypeOK
<1>3. committed[n].height \in Nat /\ committed[n].ledger \in Ledger
  BY DEF IInv, TypeOK, Snapshot
<1>4. frame'[n].height - 1 = committed[n].height /\ H[committed[n].height] = committed[n].ledger
  BY <1>2, <1>3 DEF NodeConforms, Conforms
<1>5. Runs([k \in 0 .. 0 |-> committed[n].ledger], committed[n].ledger,
           CurrentBlock(n)', frame'[n].height, 0)
  BY <1>3 DEF Runs
<1>6. ExecutionConforms(H, n)'
  BY <1>2, <1>4, <1>5 DEF ExecutionConforms
<1>7. Conforms(H, disk[n])' /\ Conforms(H, committed[n])' /\ Conforms(H, pending[n])'
  BY <1>1 DEF NodeConforms, Conforms
<1>. QED  BY <1>6, <1>7 DEF NodeConforms

\* An execution goes on by one transaction.
LEMMA ExecuteAgrees ==
  ASSUME IInv, NEW n \in Node, NEW H, History(H), NodeConforms(H, n), ExecuteTransaction(n)
  PROVE  NodeConforms(H, n)'
<1> DEFINE f == frame[n]
           block == CurrentBlock(n)
           tx == block[f.next + 1]
<1>1. /\ f \in Frame
      /\ f.op = "execute"
      /\ f.next < Len(block)
      /\ UNCHANGED <<decided, committed, pending, disk, answered>>
  BY DEF ExecuteTransaction, IInv, TypeOK
<1>2. /\ f.height \in 1 .. Len(decided)
      /\ block \in Seq(Transaction)
      /\ Len(decided) \in Nat
  BY <1>1, LenProperties, ElementOfSeq DEF IInv, NodeInv, ExecutionInv, CurrentBlock, TypeOK
<1>3. PICK run : Runs(run, H[f.height - 1], block, f.height, f.next) /\ f.ledger = run[f.next]
  BY <1>1 DEF NodeConforms, ExecutionConforms
<1> DEFINE next == ExecuteOne(run[f.next], tx, f.height, f.next)
           more == [k \in 0 .. f.next + 1 |-> IF k \in 0 .. f.next THEN run[k] ELSE next]
<1>4. /\ f.next \in Nat
      /\ f.height \in Nat \ {0}
      /\ H[f.height - 1] \in Ledger
  BY <1>1, <1>2 DEF Frame, History
<1>5. Runs(more, H[f.height - 1], block, f.height, f.next + 1)
  BY <1>1, <1>2, <1>3, <1>4, RunsOn
<1>6. more[f.next + 1] = next
  BY <1>4
<1>7. /\ frame'[n].op = "execute"
      /\ frame'[n].height = f.height
      /\ frame'[n].next = f.next + 1
      /\ frame'[n].ledger = next
  <2>1. \/ /\ Accepted(tx, f.ledger)
           /\ frame'[n] = [f EXCEPT !.next = @ + 1, !.ledger = Append(@, Executed(f, tx))]
        \/ /\ ~Accepted(tx, f.ledger)
           /\ frame'[n] = [f EXCEPT !.next = @ + 1]
    BY DEF ExecuteTransaction, IInv, TypeOK
  <2>2. next = IF Accepted(tx, f.ledger) THEN Append(f.ledger, Executed(f, tx)) ELSE f.ledger
    BY <1>3 DEF ExecuteOne, Executed
  <2>. HIDE DEF tx, next
  <2>. QED  BY <1>1, <2>1, <2>2 DEF Frame
<1>8. CurrentBlock(n)' = block
  BY <1>1, <1>7 DEF CurrentBlock
<1>. HIDE DEF more, next, block
<1>9. ExecutionConforms(H, n)'
  BY <1>5, <1>6, <1>7, <1>8 DEF ExecutionConforms
<1>10. Conforms(H, disk[n])' /\ Conforms(H, committed[n])' /\ Conforms(H, pending[n])'
  BY <1>1 DEF NodeConforms, Conforms
<1>. QED  BY <1>9, <1>10 DEF NodeConforms

\* A finished execution is the history at its height, and is answered.
LEMMA FinishAgrees ==
  ASSUME IInv, NEW n \in Node, NEW H, History(H), NodeConforms(H, n), AnswersConform(H),
         FinishFinalizeBlock(n)
  PROVE  NodeConforms(H, n)' /\ AnswersConform(H)' /\ answered \subseteq answered'
<1> DEFINE f == frame[n]
           block == CurrentBlock(n)
<1>1. /\ f \in Frame
      /\ f.op = "execute"
      /\ f.next = Len(block)
      /\ frame'[n] = Idle
      /\ pending'[n] = [height |-> f.height, ledger |-> f.ledger]
      /\ answered' = answered \cup {[height |-> f.height, hash |-> StateHash(f.ledger)]}
      /\ UNCHANGED <<decided, committed, disk>>
  BY DEF FinishFinalizeBlock, IInv, TypeOK
<1>2. /\ f.height \in 1 .. Len(decided)
      /\ block \in Seq(Transaction)
      /\ Len(decided) \in Nat
  BY <1>1, LenProperties, ElementOfSeq DEF IInv, NodeInv, ExecutionInv, CurrentBlock, TypeOK
<1>3. PICK run : Runs(run, H[f.height - 1], block, f.height, Len(block))
                 /\ f.ledger = run[Len(block)]
  BY <1>1 DEF NodeConforms, ExecutionConforms
<1>4. H[f.height - 1] \in Ledger
  BY <1>2 DEF History
<1>5. f.ledger = Abstract!Execute(H[f.height - 1], block, f.height)
  BY <1>2, <1>3, <1>4, ExecuteRuns, SameExecution, LenProperties
<1>6. f.ledger = H[f.height]
  BY <1>2, <1>5 DEF History, CurrentBlock
<1>7. Conforms(H, pending[n])'
  BY <1>1, <1>2, <1>6 DEF Conforms
<1>8. Conforms(H, disk[n])' /\ Conforms(H, committed[n])'
  BY <1>1 DEF NodeConforms, Conforms
<1>9. AnswersConform(H)'
  BY <1>1, <1>2, <1>6 DEF AnswersConform
<1>10. ExecutionConforms(H, n)'
  BY <1>1 DEF ExecutionConforms, Idle
<1>. QED  BY <1>1, <1>7, <1>8, <1>9, <1>10 DEF NodeConforms

\* The other steps move conforming snapshots around: pending to the database,
\* pending or the database to memory.
LEMMA MoveAgrees ==
  ASSUME NEW n \in Node, NEW H, TypeOK, History(H), NodeConforms(H, n),
         UNCHANGED <<decided, answered>>,
         disk'[n] \in {disk[n], pending[n]},
         committed'[n] \in {committed[n], pending[n], disk[n], EmptySnapshot},
         pending'[n] \in {pending[n], NoBlock},
         \/ frame'[n].op # "execute"
         \/ /\ frame'[n].op = frame[n].op
            /\ frame'[n].height = frame[n].height
            /\ frame'[n].next = frame[n].next
            /\ frame'[n].ledger = frame[n].ledger
  PROVE  NodeConforms(H, n)'
<1>1. Conforms(H, EmptySnapshot)
  BY EmptyConforms
<1>2. Conforms(H, disk[n])' /\ Conforms(H, committed[n])' /\ Conforms(H, pending[n])'
  BY <1>1 DEF NodeConforms, Conforms, NoBlock
<1>3. ExecutionConforms(H, n)'
  BY DEF NodeConforms, ExecutionConforms, CurrentBlock
<1>. QED  BY <1>2, <1>3 DEF NodeConforms

\* Every step of a node keeps it on the history.
LEMMA StepAgrees ==
  ASSUME IInv, NEW n \in Node, NEW H, History(H), NodeConforms(H, n), AnswersConform(H),
         Step(n)
  PROVE  NodeConforms(H, n)' /\ AnswersConform(H)' /\ answered \subseteq answered'
<1>0. TypeOK /\ NodeInv(n) /\ decided' = decided
  BY Locality DEF IInv
<1>a. ASSUME UNCHANGED answered, NodeConforms(H, n)'
      PROVE  NodeConforms(H, n)' /\ AnswersConform(H)' /\ answered \subseteq answered'
  BY <1>0, <1>a, HistoryOn
<1>1. CASE StartFinalizeBlock(n)
  BY <1>1, <1>a, StartAgrees DEF StartFinalizeBlock
<1>2. CASE ExecuteTransaction(n)
  BY <1>2, <1>a, ExecuteAgrees DEF ExecuteTransaction
<1>3. CASE FinishFinalizeBlock(n)
  BY <1>3, FinishAgrees
<1>4. CASE SaveSnapshot(n)
  <2>1. SaveAllowed(disk[n], pending[n]) /\ disk'[n] = Saved(disk[n], pending[n])
        /\ frame'[n].op = "promote" /\ UNCHANGED <<committed, pending, answered>>
    BY <1>0, <1>4 DEF SaveSnapshot, TypeOK, Frame
  <2>2. disk'[n] = pending[n]
    BY <1>0, <2>1, SavedIsSnapshot DEF TypeOK
  <2>3. NodeConforms(H, n)'
    BY <1>0, <2>1, <2>2, MoveAgrees
  <2>. QED  BY <1>a, <2>1, <2>3
<1>5. CASE RefuseFinalizeBlock(n) \/ StartCommit(n) \/ RefuseCommit(n) \/ PromoteBlock(n)
  <2>a. RefuseFinalizeBlock(n) \/ RefuseCommit(n) => UNCHANGED <<committed, pending, frame>>
    BY DEF RefuseFinalizeBlock, RefuseCommit
  <2>b. StartCommit(n) => UNCHANGED <<committed, pending>> /\ frame'[n].op = "save"
    BY <1>0 DEF StartCommit, TypeOK, Idle
  <2>c. PromoteBlock(n) => /\ committed'[n] = pending[n]
                           /\ pending'[n] = NoBlock
                           /\ frame'[n].op = "idle"
    BY <1>0 DEF PromoteBlock, TypeOK, Idle
  <2>d. UNCHANGED <<answered, disk>>
    BY <1>5 DEF RefuseFinalizeBlock, StartCommit, RefuseCommit, PromoteBlock
  <2>1. /\ committed'[n] \in {committed[n], pending[n]}
        /\ pending'[n] \in {pending[n], NoBlock}
        /\ frame'[n].op # "execute" \/ frame'[n] = frame[n]
    BY <1>5, <2>a, <2>b, <2>c
  <2>2. NodeConforms(H, n)'
    BY <1>0, <2>1, <2>d, MoveAgrees
  <2>. QED  BY <1>a, <2>2, <2>d
<1>6. CASE Driver(n) \/ DropOrphan(n) \/ StartApplication(n)
  <2>1. /\ UNCHANGED <<answered, disk, frame>>
        /\ committed'[n] \in {committed[n], disk[n]}
        /\ pending'[n] \in {pending[n], NoBlock}
    BY <1>0, <1>6 DEF Driver, StartComet, AnswerInfo, InitializeChain, CallFinalizeBlock,
       CallCommit, CallApplication, DropOrphan, StartApplication, appVars, TypeOK
  <2>2. NodeConforms(H, n)'
    BY <1>0, <2>1, MoveAgrees
  <2>. QED  BY <1>a, <2>1, <2>2
<1>7. CASE SaveFails(n) \/ CrashApplication(n) \/ RestartNode(n)
  <2>1. /\ UNCHANGED <<answered, disk>>
        /\ committed'[n] \in {committed[n], EmptySnapshot}
        /\ pending'[n] \in {pending[n], NoBlock}
        /\ frame'[n].op # "execute"
    BY <1>0, <1>7 DEF SaveFails, CrashApplication, RestartNode, LoseMemory, TypeOK, Idle
  <2>2. NodeConforms(H, n)'
    BY <1>0, <2>1, MoveAgrees
  <2>. QED  BY <1>a, <2>1, <2>2
<1>8. CASE StopComet(n)
  <2>1. /\ UNCHANGED <<answered, disk, committed, pending>>
        /\ frame'[n] = [frame[n] EXCEPT !.live = FALSE]
        /\ frame[n] \in Frame
    BY <1>0, <1>8 DEF StopComet, TypeOK
  <2>2. /\ frame'[n].op = frame[n].op
        /\ frame'[n].height = frame[n].height
        /\ frame'[n].next = frame[n].next
        /\ frame'[n].ledger = frame[n].ledger
    BY <2>1 DEF Frame
  <2>3. NodeConforms(H, n)'
    BY <1>0, <2>1, <2>2, MoveAgrees
  <2>. QED  BY <1>a, <2>1, <2>3
<1>. QED
  BY <1>1, <1>2, <1>3, <1>4, <1>5, <1>6, <1>7, <1>8
     DEF Step, Handler, Fault, CrashComet, RestartHaltedComet

\* A node that is left as it is stays on the history.
LEMMA UntouchedAgrees ==
  ASSUME NEW m \in Node, NEW H, NodeConforms(H, m), Untouched(m),
         decided' = decided, answered \subseteq answered'
  PROVE  NodeConforms(H, m)'
<1>1. Conforms(H, disk[m])' /\ Conforms(H, committed[m])' /\ Conforms(H, pending[m])'
  BY DEF NodeConforms, Conforms, Untouched
<1>2. ExecutionConforms(H, m)'
  BY DEF NodeConforms, ExecutionConforms, CurrentBlock, Untouched
<1>. QED  BY <1>1, <1>2 DEF NodeConforms

\* A decided block goes on with the history.
LEMMA DecideAgrees ==
  ASSUME IInv, NEW H, History(H), AnswersConform(H), \A n \in Node : NodeConforms(H, n), Decide
  PROVE  AgreeInv'
<1> DEFINE top == Len(decided)
           last == Abstract!Execute(H[top], decided'[top + 1], top + 1)
           longer == [h \in 0 .. top + 1 |-> IF h \in 0 .. top THEN H[h] ELSE last]
<1>1. PICK block \in Block : decided' = Append(decided, block)
  BY DEF Decide
<1>2. /\ top \in Nat
      /\ Len(decided') = top + 1
      /\ decided'[top + 1] = block
      /\ block \in Seq(Transaction)
      /\ \A h \in 1 .. top : decided'[h] = decided[h]
  BY <1>1, BlockType, LenProperties, AppendProperties DEF IInv, TypeOK
<1>3. H[top] \in Ledger /\ top + 1 \in Nat \ {0}
  BY <1>2 DEF History
<1>4. /\ last \in Ledger
      /\ \A old \in Ledger : \A below \in 0 .. top :
           Extends(old, H[top], below) => Extends(old, last, below)
  BY <1>2, <1>3, ExecuteExtends
<1>. HIDE DEF last
<1>5. PICK G : /\ G \in [0 .. top + 1 -> Ledger]
               /\ \A h \in 0 .. top : G[h] = H[h]
               /\ G[top + 1] = last
  <2>1. /\ longer \in [0 .. top + 1 -> Ledger]
        /\ \A h \in 0 .. top : longer[h] = H[h]
        /\ longer[top + 1] = last
    BY <1>2, <1>4 DEF History
  <2>. QED  BY <2>1
<1>6. History(G)'
  <2>1. G[0] = <<>>
    BY <1>2, <1>5 DEF History
  <2>2. ASSUME NEW h \in 1 .. top + 1 PROVE G[h] = Abstract!Execute(G[h - 1], decided'[h], h)
    <3>1. CASE h \in 1 .. top
      <4>1. h \in 0 .. top /\ h - 1 \in 0 .. top
        BY <3>1
      <4>. QED  BY <1>2, <1>5, <3>1, <4>1 DEF History
    <3>2. CASE h = top + 1
      <4>1. h - 1 = top /\ top \in 0 .. top
        BY <1>2, <3>2
      <4>. QED  BY <1>5, <3>2, <4>1 DEF last
    <3>. QED  BY <1>2, <3>1, <3>2
  <2>3. ASSUME NEW h \in 0 .. top + 1, NEW g \in 0 .. h PROVE Extends(G[g], G[h], g)
    <3>1. CASE h \in 0 .. top
      <4>1. g \in 0 .. top
        BY <1>2, <3>1
      <4>. QED  BY <1>5, <3>1, <4>1 DEF History
    <3>2. CASE h = top + 1 /\ g \in 0 .. top
      <4>0. top \in 0 .. top
        BY <1>2
      <4>1. Extends(H[g], H[top], g) /\ H[g] \in Ledger
        BY <3>2, <4>0 DEF History
      <4>. QED  BY <1>4, <1>5, <3>2, <4>1
    <3>3. CASE h = top + 1 /\ g = top + 1
      BY <1>4, <1>5, <3>3, ExtendsSelf
    <3>. QED  BY <1>2, <3>1, <3>2, <3>3
  <2>. QED  BY <1>2, <1>5, <2>1, <2>2, <2>3 DEF History
<1>7. UNCHANGED <<disk, committed, pending, frame, answered>>
  BY DEF Decide, appVars
<1>8. AnswersConform(G)'
  BY <1>2, <1>5, <1>7 DEF AnswersConform
<1>9. ASSUME NEW n \in Node PROVE NodeConforms(G, n)'
  <2>1. \A s \in Snapshot : Conforms(H, s) => Conforms(G, s)'
    BY <1>2, <1>5, <1>7 DEF Conforms, Snapshot
  <2>2. disk[n] \in Snapshot /\ committed[n] \in Snapshot /\ pending[n] \in Snapshot
    BY DEF IInv, TypeOK
  <2>3. Conforms(G, disk[n])' /\ Conforms(G, committed[n])' /\ Conforms(G, pending[n])'
    BY <1>2, <1>5, <1>7, <2>2 DEF NodeConforms, Conforms, Snapshot
  <2>4. ExecutionConforms(G, n)'
    <3>. SUFFICES ASSUME frame[n].op = "execute"
                  PROVE  \E f : /\ Runs(f, G[frame[n].height - 1], decided'[frame[n].height],
                                        frame[n].height, frame[n].next)
                                /\ frame[n].ledger = f[frame[n].next]
      BY <1>7 DEF ExecutionConforms, CurrentBlock
    <3>1. frame[n].height \in 1 .. top
      BY <1>2, LenProperties DEF IInv, TypeOK, NodeInv, ExecutionInv
    <3>2. G[frame[n].height - 1] = H[frame[n].height - 1]
          /\ decided'[frame[n].height] = CurrentBlock(n)
      BY <1>2, <1>5, <3>1 DEF CurrentBlock
    <3>. QED  BY <3>2 DEF NodeConforms, ExecutionConforms
  <2>. QED  BY <2>3, <2>4 DEF NodeConforms
<1>. QED  BY <1>6, <1>8, <1>9 DEF AgreeInv

\* Every step goes on with a history that all nodes conform to.
LEMMA NextAgree == IInv /\ AgreeInv /\ [Next]_vars => AgreeInv'
<1>. SUFFICES ASSUME IInv, AgreeInv, [Next]_vars PROVE AgreeInv'
  OBVIOUS
<1>1. PICK H : History(H) /\ AnswersConform(H) /\ \A n \in Node : NodeConforms(H, n)
  BY DEF AgreeInv
<1>2. CASE Decide
  BY <1>1, <1>2, DecideAgrees
<1>3. ASSUME NEW n \in Node, Step(n) PROVE AgreeInv'
  <2>1. decided' = decided /\ \A m \in Node \ {n} : Untouched(m)
    BY <1>3, Locality DEF IInv
  <2>2. NodeConforms(H, n)' /\ AnswersConform(H)' /\ answered \subseteq answered'
    BY <1>1, <1>3, StepAgrees
  <2>3. History(H)'
    BY <1>1, <2>1, HistoryOn
  <2>4. \A m \in Node : NodeConforms(H, m)'
    BY <1>1, <2>1, <2>2, UntouchedAgrees
  <2>. QED  BY <2>2, <2>3, <2>4 DEF AgreeInv
<1>4. CASE UNCHANGED vars
  <2>1. UNCHANGED <<decided, answered>> /\ \A m \in Node : Untouched(m)
    BY <1>4 DEF vars, appVars, Untouched
  <2>2. History(H)' /\ AnswersConform(H)'
    BY <1>1, <2>1, HistoryOn
  <2>3. \A m \in Node : NodeConforms(H, m)'
    BY <1>1, <2>1, UntouchedAgrees
  <2>. QED  BY <2>2, <2>3 DEF AgreeInv
<1>. QED  BY <1>2, <1>3, <1>4 DEF Next

\* All nodes and all answers conform to one history.
THEOREM Agreement == Spec => []AgreeInv
BY InitAgree, NextAgree, Invariance, PTL DEF Spec

-----------------------------------------------------------------------------
(* What it is good for.                                                    *)

\* However often and wherever a height is executed, finalize_block answers the
\* same hash, and the databases of two replicas never contradict each other.
THEOREM ReplicasNeverFork == Spec => []NoFork
<1>1. IInv /\ AgreeInv => NoFork
  <2>. SUFFICES ASSUME IInv, NEW H, History(H), AnswersConform(H),
                       \A n \in Node : NodeConforms(H, n)
                PROVE  NoFork
    BY DEF AgreeInv
  <2>1. OneHashPerHeight
    BY DEF OneHashPerHeight, AnswersConform
  <2>2. ASSUME NEW m \in Node, NEW n \in Node, disk[m].height <= disk[n].height
        PROVE  Extends(disk[m].ledger, disk[n].ledger, disk[m].height)
    <3>1. /\ disk[m].height \in Nat /\ disk[n].height \in Nat
          /\ Len(decided) \in Nat
      BY LenProperties DEF IInv, TypeOK, Snapshot
    <3>2. Conforms(H, disk[m]) /\ Conforms(H, disk[n])
      BY DEF NodeConforms
    <3>3. disk[n].height \in 0 .. Len(decided) /\ disk[m].height \in 0 .. disk[n].height
      BY <2>2, <3>1, <3>2 DEF Conforms
    <3>. QED  BY <3>2, <3>3 DEF Conforms, History
  <2>3. ReplicasAgree
    BY <2>2 DEF ReplicasAgree, Extends
  <2>. QED  BY <2>1, <2>3 DEF NoFork
<1>. QED  BY <1>1, Invariance, Agreement, PTL

\* The head Info reports after any restart is one finalize_block answered.
THEOREM ReportedHeadsWereAnswered == Spec => []ReportedHashWasAnswered
<1>1. AgreeInv => ReportedHashWasAnswered
  BY DEF AgreeInv, NodeConforms, Conforms, ReportedHashWasAnswered
<1>. QED  BY <1>1, Agreement, PTL

\* The databases of the nodes implement the abstract replicated ledger: crashes,
\* restarts and failed saves are invisible in it, and a save is the execution
\* of exactly the next decided block.
THEOREM Refinement == Spec => ImplementsReplicatedLedger
<1>1. Init => Abstract!LedgerInit
  BY DEF Init, Abstract!LedgerInit, EmptySnapshot, Abstract!EmptySnapshot
<1>2. IInv /\ IInv' /\ AgreeInv /\ [Next]_vars => [Abstract!LedgerNext]_Abstract!ledgerVars
  <2>. SUFFICES ASSUME IInv, AgreeInv, [Next]_vars
                PROVE  Abstract!LedgerNext \/ UNCHANGED <<decided, disk>>
    BY DEF Abstract!ledgerVars
  <2>1. CASE Decide
    BY <2>1 DEF Decide, Abstract!Decide, Abstract!LedgerNext, Block, Abstract!Block, appVars
  <2>2. ASSUME NEW n \in Node, SaveSnapshot(n) PROVE Abstract!Advance(n)
    <3>1. /\ frame[n].op = "save"
          /\ SaveAllowed(disk[n], pending[n])
          /\ disk' = [disk EXCEPT ![n] = Saved(disk[n], pending[n])]
          /\ decided' = decided
      BY <2>2 DEF SaveSnapshot
    <3>2. disk[n] \in Snapshot /\ pending[n] \in Snapshot /\ TypeOK /\ NodeInv(n)
      BY DEF IInv, TypeOK
    <3>3. Saved(disk[n], pending[n]) = pending[n]
      BY <3>1, <3>2, SavedIsSnapshot
    <3>4. pending[n].height = disk[n].height + 1
      BY <3>1, <3>2 DEF NodeInv, DurableInv, PendingInv, Follows, Idle
    <3>5. PICK H : History(H) /\ NodeConforms(H, n)
      BY DEF AgreeInv
    <3> DEFINE height == disk[n].height + 1
    <3>6. height \in 1 .. Len(decided) /\ height - 1 = disk[n].height
      BY <3>2, <3>4, <3>5, LenProperties DEF TypeOK, Snapshot, NodeConforms, Conforms
    <3>7. pending[n].ledger = Abstract!Execute(disk[n].ledger, decided[height], height)
      BY <3>4, <3>5, <3>6 DEF History, NodeConforms, Conforms
    <3>8. pending[n] = [height |-> height,
                        ledger |-> Abstract!Execute(disk[n].ledger, decided[height], height)]
      BY <3>2, <3>4, <3>7 DEF Snapshot
    <3>. QED  BY <3>1, <3>3, <3>6, <3>8 DEF Abstract!Advance
  <2>3. ASSUME NEW n \in Node, Step(n) PROVE SaveSnapshot(n) \/ UNCHANGED <<decided, disk>>
    BY <2>3 DEF Step, Handler, Driver, Fault, StartFinalizeBlock, RefuseFinalizeBlock,
       ExecuteTransaction, FinishFinalizeBlock, StartCommit, RefuseCommit, PromoteBlock,
       StartComet, AnswerInfo, InitializeChain, CallFinalizeBlock, CallCommit, SaveFails,
       CrashApplication, CrashComet, StopComet, StartApplication, DropOrphan,
       RestartHaltedComet, RestartNode, appVars
  <2>4. CASE UNCHANGED vars
    BY <2>4 DEF vars, appVars
  <2>. QED  BY <2>1, <2>2, <2>3, <2>4 DEF Next, Abstract!LedgerNext
<1>. QED  BY <1>1, <1>2, Invariance, Agreement, PTL
     DEF Spec, ImplementsReplicatedLedger, Abstract!LedgerSpec
=============================================================================
