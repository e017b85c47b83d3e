----------------------------- MODULE Submission -----------------------------
(***************************************************************************)
(* From ArtifactSubmitter to the ledger: clients sign a contribution with  *)
(* its relations and broadcast it; CheckTx judges it by committed state;   *)
(* the mempool proposes a prefix of itself; a block is executed and what   *)
(* remains is checked again.  Answers arrive late or never, clients repeat *)
(* themselves, and the node may restart.  The mempool with its cache is    *)
(* CometBFT's.                                                             *)
(***************************************************************************)
EXTENDS ArtifactLedger, SequencesExt

CONSTANTS
  Submitters,     \* clients
  CommandLine,    \* those that run the command line, the others call the library
  Drafts,         \* [name, to, alone, bytes]: a contribution and the contributions
                  \* it relates to, or a relation alone, between those, and the
                  \* size of its encoding
  ProposalBytes,  \* maximum_transaction_bytes of PrepareProposal
  MaxTries,       \* bound: invocations of each client
  MaxBlocks,      \* bound: blocks
  MaxRestarts     \* bound: restarts of the node

ASSUME SubmissionAssumption ==
  /\ Drafts \subseteq [name : STRING \ {""}, to : Seq(Ref), alone : BOOLEAN, bytes : Nat]
  /\ \A d, e \in Drafts : d.name = e.name => d.alone = e.alone
  /\ ProposalBytes \in Nat /\ MaxTries \in Nat

VARIABLES
  client,     \* each client's submission
  requests,   \* broadcast_tx_sync calls the node has not processed
  mempool,    \* CometBFT's mempool, in order
  cache,      \* transactions its cache knows
  blocks,     \* the committed ledger
  results,    \* history: the codes of all executed transactions
  dropped,    \* history: transactions a restart lost
  restarted   \* restarts so far

submissionVars == <<client, requests, mempool, cache, blocks, results, dropped, restarted>>
nodeSide == <<requests, mempool, cache, blocks, results, dropped, restarted>>

(* draft and stamp are the arguments of the invocation, stamp being        *)
(* created_at: a caller of submit_contribution keeps it when it tries      *)
(* again, the command line takes the time anew.                            *)
NoDraft == [name |-> "", to |-> <<>>, alone |-> FALSE, bytes |-> 0]
NotSubmitted == [phase |-> "idle", draft |-> NoDraft, stamp |-> 0, tries |-> 0, outcome |-> "none"]

SubmissionInit ==
  /\ client = [s \in Submitters |-> NotSubmitted]
  /\ requests = {} /\ mempool = <<>> /\ cache = {}
  /\ blocks = EmptySnapshot
  /\ results = {} /\ dropped = {} /\ restarted = 0

---------------------------------------------------------------------------
(* The client.                                                             *)

ContributionRef(draft, stamp) == [name |-> draft.name, stamp |-> stamp, to |-> {}]
RelationRef(draft, stamp, to) == [name |-> draft.name, stamp |-> stamp, to |-> {to}]

\* The relations of a contribution, created when it was.
Attached(draft, stamp) ==
  [i \in DOMAIN draft.to |->
     [ref |-> RelationRef(draft, stamp, draft.to[i]), kind |-> "relation",
      ends |-> {ContributionRef(draft, stamp), draft.to[i]}]]

\* submit_contribution: the contribution first, then a relation for each of
\* its neighbours; submit_relation: one relation.  Signatures and content
\* addresses are deterministic.
SignedSubmission(draft, stamp) ==
  [bytes |-> draft.bytes, decodable |-> TRUE, chain |-> ExpectedChain, authentic |-> TRUE,
   artifacts |->
     IF draft.alone
     THEN <<[ref |-> ContributionRef(draft, stamp), kind |-> "relation",
             ends |-> {draft.to[i] : i \in DOMAIN draft.to}]>>
     ELSE <<[ref |-> ContributionRef(draft, stamp), kind |-> "contribution", ends |-> {}]>>
            \o Attached(draft, stamp)]

Signed == {SignedSubmission(draft, stamp) : draft \in Drafts, stamp \in 1 .. MaxTries}

SubmissionTypeOK ==
  /\ client \in [Submitters -> [phase : {"idle", "waiting", "done"}, draft : Drafts \cup {NoDraft},
                                stamp : 0 .. MaxTries, tries : 0 .. MaxTries,
                                outcome : {"none", "error", "ACCEPTED", "DUPLICATE",
                                           "MISSING_REFERENCE"}]]
  /\ requests \subseteq [from : Submitters, try : 1 .. MaxTries, tx : Signed]
  /\ mempool \in Seq(Signed) /\ IsInjective(mempool) /\ ToSet(mempool) \subseteq cache
  /\ cache \subseteq Signed
  /\ blocks.height \in Nat /\ blocks.ledger \in Seq([height : Nat \ {0}, index : Nat, tx : Signed])

WithinLimits(tx) == Len(tx.artifacts) <= MaxArtifacts /\ tx.bytes <= MaxTransactionBytes

\* fetch_chain_id, sign, encode, check the limits, send.
Send(s, draft, stamp) ==
  LET tx  == SignedSubmission(draft, stamp)
      now == [client[s] EXCEPT !.draft = draft, !.stamp = stamp, !.tries = @ + 1]
  IN  /\ client[s].tries < MaxTries
      /\ \/ /\ WithinLimits(tx)
            /\ client' = [client EXCEPT ![s] = [now EXCEPT !.phase = "waiting", !.outcome = "none"]]
            /\ requests' = requests \cup {[from |-> s, try |-> now.tries, tx |-> tx]}
         \/ /\ client' = [client EXCEPT ![s] = [now EXCEPT !.phase = "done", !.outcome = "error"]]
            /\ UNCHANGED requests
      /\ UNCHANGED <<mempool, cache, blocks, results, dropped, restarted>>

Submit(s) ==
  /\ client[s].phase = "idle"
  /\ \E draft \in Drafts :
       /\ \A other \in Submitters : client[other].draft.name # draft.name
       /\ Send(s, draft, 1)

\* Mutant: every attempt takes a new time.
Restamp(s) ==
  /\ client[s].phase = "done"
  /\ \E draft \in Drafts :
       /\ draft.name = client[s].draft.name
       /\ Send(s, draft, client[s].stamp + 1)

\* The caller passes the same contribution again, with any relations; the command
\* line stamps what it is given with the time of the invocation.
Resubmit(s) ==
  /\ client[s].phase = "done"
  /\ \E draft \in Drafts :
       /\ draft.name = client[s].draft.name
       /\ Send(s, draft, client[s].stamp + (IF s \in CommandLine THEN 1 ELSE 0))

\* urlopen gives up, whatever becomes of the request.
TimeOut(s) ==
  /\ client[s].phase = "waiting"
  /\ client' = [client EXCEPT ![s].phase = "done", ![s].outcome = "error"]
  /\ UNCHANGED nodeSide

---------------------------------------------------------------------------
(* The node: broadcast_tx_sync, check_tx, prepare_proposal and a block.    *)

\* Mutant: relations are left to FinalizeBlock.
CheckTxAlone(tx) == IF Duplicate(tx, blocks.ledger) THEN "DUPLICATE" ELSE "ACCEPTED"
CheckTx(tx) == Validate(tx, blocks.ledger)

\* The answer reaches the invocation that still waits for it.
Respond(request, outcome) ==
  LET s == request.from
  IN  client' = IF client[s].phase = "waiting" /\ client[s].tries = request.try
                THEN [client EXCEPT ![s].phase = "done", ![s].outcome = outcome]
                ELSE client

ProcessBroadcast(request) ==
  LET tx == request.tx
  IN  /\ request \in requests
      /\ requests' = requests \ {request}
      /\ \/ /\ tx \in cache                      \* "tx already exists in cache"
            /\ Respond(request, "error")
            /\ UNCHANGED <<mempool, cache>>
         \/ /\ tx \notin cache
            /\ Respond(request, CheckTx(tx))
            /\ IF CheckTx(tx) = "ACCEPTED"
               THEN mempool' = Append(mempool, tx) /\ cache' = cache \cup {tx}
               ELSE UNCHANGED <<mempool, cache>>
      /\ UNCHANGED <<blocks, results, dropped, restarted>>

BytesOf(txs) ==
  LET sum[i \in 0 .. Len(txs)] == IF i = 0 THEN 0 ELSE sum[i - 1] + txs[i].bytes
  IN  sum[Len(txs)]

\* Mutant: a proposal that is exactly full is cut.
FitsBelow(txs) == BytesOf(txs) < ProposalBytes
Fits(txs) == BytesOf(txs) <= ProposalBytes

\* The longest prefix within the limit.
PrepareProposal(txs) ==
  LET k == CHOOSE n \in 0 .. Len(txs) :
             /\ Fits(SubSeq(txs, 1, n))
             /\ n < Len(txs) => ~Fits(SubSeq(txs, 1, n + 1))
  IN  SubSeq(txs, 1, k)

\* What finalize_block answers for each transaction.
Codes(txs, ledger, height) ==
  [i \in DOMAIN txs |-> Validate(txs[i], Execute(ledger, SubSeq(txs, 1, i - 1), height))]

\* The transactions of the mempool that are still valid.
Rechecked(txs, ledger) ==
  LET kept[k \in 0 .. Len(txs)] ==
        IF k = 0 THEN <<>>
        ELSE IF Accepted(txs[k], ledger) THEN Append(kept[k - 1], txs[k]) ELSE kept[k - 1]
  IN  kept[Len(txs)]

\* The proposal is decided, executed and committed; the mempool forgets its
\* transactions and checks the others again.
DecideBlock ==
  LET proposal == PrepareProposal(mempool)
      height   == blocks.height + 1
      codes    == Codes(proposal, blocks.ledger, height)
      rest     == SubSeq(mempool, Len(proposal) + 1, Len(mempool))
      failed   == {proposal[i] : i \in {j \in DOMAIN proposal : codes[j] # "ACCEPTED"}}
  IN  /\ proposal # <<>> /\ blocks.height < MaxBlocks
      /\ blocks' = [height |-> height, ledger |-> Execute(blocks.ledger, proposal, height)]
      /\ results' = results \cup {codes[i] : i \in DOMAIN codes}
      /\ mempool' = Rechecked(rest, blocks'.ledger)
      /\ cache' = cache \ (failed \cup (ToSet(rest) \ ToSet(mempool')))
      /\ UNCHANGED <<client, requests, dropped, restarted>>

\* Mempool, cache and open calls end with the process.
RestartMempool ==
  /\ restarted < MaxRestarts
  /\ restarted' = restarted + 1
  /\ requests' = {} /\ mempool' = <<>> /\ cache' = {}
  /\ dropped' = dropped \cup ToSet(mempool)
  /\ UNCHANGED <<client, blocks, results>>

SubmissionNext ==
  \/ \E s \in Submitters : Submit(s) \/ Resubmit(s) \/ TimeOut(s)
  \/ \E r \in requests : ProcessBroadcast(r)
  \/ DecideBlock
  \/ RestartMempool

SubmissionSpec == SubmissionInit /\ [][SubmissionNext]_submissionVars

\* The node processes calls and CometBFT decides blocks.
FairSubmissionSpec ==
  /\ SubmissionSpec
  /\ WF_submissionVars(\E r \in requests : ProcessBroadcast(r))
  /\ WF_submissionVars(DecideBlock)

---------------------------------------------------------------------------
(* Properties.                                                             *)

\* CheckTx judges by committed state, which only grows: what it let through
\* can fail in its block as a duplicate and for no other reason.
BlocksFailOnlyDuplicates == results \subseteq {"ACCEPTED", "DUPLICATE"}

\* However often a caller of the library repeats a submission whose answer it
\* did not get, what it submits is recorded once.
RecordedOnce ==
  \A s \in Submitters \ CommandLine : \A i, j \in DOMAIN blocks.ledger : \A m, n \in 1 .. MaxTries :
     /\ ContributionRef(client[s].draft, m) \in Refs(blocks.ledger[i].tx)
     /\ ContributionRef(client[s].draft, n) \in Refs(blocks.ledger[j].tx)
     => i = j

\* A receipt that says accepted stands for a transaction in the mempool or for
\* a recorded contribution, unless a restart lost it.
AcceptedIsKept ==
  \A s \in Submitters : client[s].phase = "done" /\ client[s].outcome = "ACCEPTED" =>
     \/ SignedSubmission(client[s].draft, client[s].stamp) \in ToSet(mempool) \cup dropped
     \/ ContributionRef(client[s].draft, client[s].stamp) \in RecordedRefs(blocks.ledger)

\* A submission that was accepted is neither lost nor doubled.
SubmissionsCountOnce == RecordedOnce /\ AcceptedIsKept

\* What the mempool holds gets executed or lost in a restart, as long as there
\* are blocks to come: nothing that fits into a proposal stays behind.
MempoolDrains ==
  <>[](\A tx \in ToSet(mempool) : tx.bytes > ProposalBytes \/ blocks.height = MaxBlocks)
=============================================================================
