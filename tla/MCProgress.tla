----------------------------- MODULE MCProgress -----------------------------
(***************************************************************************)
(* What must eventually happen, component by component: a behaviour picks  *)
(* one of them, which moves alone, with the fairness its module states.    *)
(* Two worker instances differ in the mode of the agent.                   *)
(***************************************************************************)
EXTENDS Integers, Sequences

CONSTANTS Thread, NoThread, a, b, f, None   \* threads, refs, a follow-up

VARIABLES
  part,
  decided, appUp, committed, pending, frame, calls, disk, comet, answered, faults,
  chain, history, stored, restores, replacements, index, indexedHeight, indexedChain,
  inspectorLock, request, session,
  operation, registration, lock, lastRun, marker, worker, term, turns, pc, op, reg, result,
  setting, mandate, digest, ids, queue, handled, usage, reports, written, marked, phase,
  checked, config, conv, prompt, followup, heard, gone, queued, killed,
  clock, unrecorded, recorded, annotations, torn, cursor, assessor, origin, overtaken,
  glued, kills,
  client, requests, mempool, cache, blocks, results, dropped, restarted

-----------------------------------------------------------------------------
(* The instances.                                                          *)

Published(ref) ==
  [bytes |-> 1, decodable |-> TRUE, chain |-> "net", authentic |-> TRUE,
   artifacts |-> <<[ref |-> ref, kind |-> "contribution", ends |-> {}]>>]

Nodes == INSTANCE DiscoveryNode WITH
  Ref <- {a}, Chain <- {"net"}, ExpectedChain <- "net", Transaction <- {Published(a)},
  MaxTransactionBytes <- 1, MaxArtifacts <- 1,
  Node <- {"n1"}, MaxHeight <- 2, MaxBlockTxs <- 1, MaxFaults <- 2

Inspection == INSTANCE Inspector WITH
  Ref <- {a}, Chain <- {"net"}, ExpectedChain <- "net", Transaction <- {Published(a)},
  MaxTransactionBytes <- 1, MaxArtifacts <- 1, Kind <- {"finding"},
  KindOf <- [x \in {a} |-> "finding"], FromOf <- [x \in {a} |-> a], ToOf <- [x \in {a} |-> a],
  NoChain <- "no chain", FeedLimit <- 1, Asked <- {"snapshot"},
  MaxHeight <- 2, MaxBlockTxs <- 1, MaxRestores <- 1, MaxReplacements <- 0,
  lock <- inspectorLock

Operator == [callers |-> {a}, workers |-> {1, 2}, settled |-> FALSE, faults |-> {"slow_start"}]
AllCommands == {"start", "stop", "status", "wait"}

OneShotAgent == INSTANCE AgentWorker WITH
  Callers <- {a}, Workers <- {1, 2}, Commands <- AllCommands, OneShot <- {1, 2},
  Settings <- {Operator}, setting <- operation
LoopingAgent == INSTANCE AgentWorker WITH
  Callers <- {a}, Workers <- {1, 2}, Commands <- AllCommands, OneShot <- {},
  Settings <- {Operator}, setting <- operation

Passes == INSTANCE AgentPass WITH
  Mandates <- {a}, Claude <- {a}, OneShot <- {}, Limit <- [m \in {a} |-> 2], FollowUps <- {f},
  Settings <- {[mandates |-> {a}, notes |-> {f}, faults |-> {"lost_session", "pass_fails"}]},
  MaxConversations <- 4, MaxReports <- 3,
  lastRun <- written, marker <- marked

Impact == INSTANCE ImpactCursor WITH
  Agents <- {a, b}, Researchers <- {a, b}, MaxPending <- 1, Lookback <- 2, MaxClock <- 3,
  MaxKills <- 1

Statement(name) == [name |-> name, to |-> <<>>, alone |-> FALSE, bytes |-> 1]
Mempool == INSTANCE Submission WITH
  Ref <- {}, Chain <- {"net"}, ExpectedChain <- "net",
  Transaction <- {}, MaxTransactionBytes <- 1, MaxArtifacts <- 1,
  Submitters <- {a, b}, CommandLine <- {}, Drafts <- {Statement("essay"), Statement("note")},
  ProposalBytes <- 1, MaxTries <- 2, MaxBlocks <- 3, MaxRestarts <- 1

-----------------------------------------------------------------------------
(* One of them moves.                                                      *)

nodeVars == <<decided, appUp, committed, pending, frame, calls, disk, comet, answered, faults>>
inspectorVars == <<chain, history, stored, restores, replacements, index, indexedHeight,
                   indexedChain, inspectorLock, request, session>>
workerVars == <<operation, registration, lock, lastRun, marker, worker, term, turns, pc, op,
                reg, result>>
passVars == <<setting, mandate, digest, ids, queue, handled, usage, reports, written, marked,
              phase, checked, config, conv, prompt, followup, heard, gone, queued, killed>>
impactVars == <<clock, unrecorded, recorded, annotations, torn, cursor, assessor, origin,
                overtaken, glued, kills>>
submissionVars == <<client, requests, mempool, cache, blocks, results, dropped, restarted>>

Init ==
  /\ part \in {"node", "inspector", "one-shot agent", "looping agent", "pass", "impact",
               "submission"}
  /\ Nodes!Init /\ Inspection!Init /\ LoopingAgent!Init /\ Passes!Init
  /\ Impact!ImpactInit /\ Mempool!SubmissionInit

NodeMoves(A) ==
  /\ part = "node" /\ A
  /\ UNCHANGED <<part, inspectorVars, workerVars, passVars, impactVars, submissionVars>>
InspectorMoves(A) ==
  /\ part = "inspector" /\ A
  /\ UNCHANGED <<part, nodeVars, workerVars, passVars, impactVars, submissionVars>>
AgentMoves(mode, A) ==
  /\ part = mode /\ A
  /\ UNCHANGED <<part, operation, nodeVars, inspectorVars, passVars, impactVars, submissionVars>>
PassMoves(A) ==
  /\ part = "pass" /\ A
  /\ UNCHANGED <<part, nodeVars, inspectorVars, workerVars, impactVars, submissionVars>>
ImpactMoves(A) ==
  /\ part = "impact" /\ A
  /\ UNCHANGED <<part, nodeVars, inspectorVars, workerVars, passVars, submissionVars>>
SubmissionMoves(A) ==
  /\ part = "submission" /\ A
  /\ UNCHANGED <<part, nodeVars, inspectorVars, workerVars, passVars, impactVars>>

Next ==
  \/ NodeMoves(Nodes!Next)
  \/ InspectorMoves(Inspection!Next)
  \/ AgentMoves("one-shot agent", OneShotAgent!Next)
  \/ AgentMoves("looping agent", LoopingAgent!Next)
  \/ PassMoves(Passes!Next)
  \/ ImpactMoves(Impact!ImpactNext)
  \/ SubmissionMoves(Mempool!SubmissionNext)

vars == <<part, nodeVars, inspectorVars, workerVars, passVars, impactVars, submissionVars>>

-----------------------------------------------------------------------------
(* The fairness of each module for its part.  Only one part ever moves, so *)
(* that one condition can be about an action of each.                      *)

Thread1 == CHOOSE t \in Thread : TRUE
Thread2 == CHOOSE t \in Thread \ {Thread1} : TRUE

Fairness ==
  /\ WF_vars(\/ NodeMoves(Nodes!Handler("n1"))
             \/ InspectorMoves(Inspection!CatchUp)
             \/ AgentMoves("one-shot agent", OneShotAgent!CommandStep(a))
             \/ AgentMoves("looping agent", LoopingAgent!CommandStep(a))
             \/ PassMoves(Passes!WorkerStep)
             \/ ImpactMoves(Impact!RecordRun(a))
             \/ SubmissionMoves(\E r \in requests : Mempool!ProcessBroadcast(r)))
  /\ WF_vars(\/ NodeMoves(Nodes!Driver("n1"))
             \/ InspectorMoves(Inspection!Serve(Thread1))
             \/ AgentMoves("one-shot agent", OneShotAgent!ReleaseProbe(a))
             \/ AgentMoves("looping agent", LoopingAgent!ReleaseProbe(a))
             \/ PassMoves(Passes!StartWorker)
             \/ ImpactMoves(Impact!RecordRun(b))
             \/ SubmissionMoves(Mempool!DecideBlock))
  /\ WF_vars(\/ NodeMoves(Nodes!StartApplication("n1"))
             \/ InspectorMoves(Inspection!Serve(Thread2))
             \/ AgentMoves("one-shot agent", OneShotAgent!WorkerStep(1))
             \/ AgentMoves("looping agent", LoopingAgent!WorkerStep(1))
             \/ PassMoves(Passes!RunnerFails)
             \/ ImpactMoves(Impact!BuildContext))
  /\ WF_vars(\/ InspectorMoves(Inspection!Deliver(Thread1))
             \/ AgentMoves("one-shot agent", OneShotAgent!WorkerStep(2))
             \/ AgentMoves("looping agent", LoopingAgent!WorkerStep(2))
             \/ ImpactMoves(Impact!AppendAnnotations))
  /\ WF_vars(\/ InspectorMoves(Inspection!Deliver(Thread2))
             \/ ImpactMoves(Impact!WriteCursor))
  /\ SF_vars(\/ NodeMoves(Nodes!RestartNode("n1"))
             \/ AgentMoves("one-shot agent", OneShotAgent!LockStep(1))
             \/ AgentMoves("looping agent", LoopingAgent!LockStep(1))
             \/ PassMoves(Passes!RunnerAnswers)
             \/ ImpactMoves(\E batch \in Impact!Responses : Impact!AcceptResponse(batch)))
  /\ SF_vars(\/ AgentMoves("one-shot agent", OneShotAgent!LockStep(2))
             \/ AgentMoves("looping agent", LoopingAgent!LockStep(2))
             \/ PassMoves(Passes!RetryLostSession))

Spec == Init /\ [][Next]_vars /\ Fairness

-----------------------------------------------------------------------------
\* The state of each component is of its type.
TypeOK ==
  /\ Nodes!TypeOK /\ Inspection!TypeOK /\ OneShotAgent!TypeOK /\ Passes!TypeOK
  /\ Impact!ImpactTypeOK /\ Mempool!SubmissionTypeOK

(* What must happen; each property is its module's, about the same code.   *)

\* Every decided block ends up in the database, whatever crashes and whichever
\* saves fail in between.
DecidedBlocksBecomeDurable == Nodes!DecidedBlocksBecomeDurable

\* No error and no reader keeps InspectorService._lock, and an inspector that
\* refused a restored database serves it again by itself.
InspectorRecovers == Inspection!InspectorRecovers

\* A stop that has signalled its worker returns, and a one-shot worker that saw
\* its registration ends.
WorkersEnd ==
  LoopingAgent!StopReturns /\ (part = "one-shot agent" => OneShotAgent!OneShotEnds)

\* A queued follow-up is handled, unless the limit ends the agent first.
FollowUpsHandled == Passes!FollowUpsHandled

\* Every recorded researcher run is assessed, with the losses ImpactCursor names.
RunsGetAssessed == Impact!RunsGetAssessed

\* What the mempool holds and a block can hold leaves it.
MempoolDrains == Mempool!MempoolDrains
=============================================================================
