--------------------------- MODULE ReplicatedLedger ---------------------------
(***************************************************************************)
(* What a network of Discovery Net nodes promises: consensus appends       *)
(* blocks, and the durable ledger of a replica is the outcome of executing *)
(* a prefix of them, one block at a time, in order, each exactly once.     *)
(***************************************************************************)
EXTENDS ArtifactLedger

CONSTANTS
  Node,         \* the replicas
  MaxHeight,    \* bound: blocks consensus decides
  MaxBlockTxs   \* bound: transactions of one block

ASSUME BoundsAssumption == MaxHeight \in Nat /\ MaxBlockTxs \in Nat

VARIABLES
  decided,      \* the blocks consensus decided
  durable       \* the snapshot each replica has persisted

ledgerVars == <<decided, durable>>

Block == UNION {[1 .. k -> Transaction] : k \in 0 .. MaxBlockTxs}

LedgerInit ==
  /\ decided = <<>>
  /\ durable = [n \in Node |-> EmptySnapshot]

Decide ==
  /\ Len(decided) < MaxHeight
  /\ \E block \in Block : decided' = Append(decided, block)
  /\ UNCHANGED durable

Advance(n) ==
  LET height == durable[n].height + 1
  IN  /\ height <= Len(decided)
      /\ durable' = [durable EXCEPT ![n] =
           [height |-> height,
            ledger |-> Execute(durable[n].ledger, decided[height], height)]]
      /\ UNCHANGED decided

LedgerNext == Decide \/ \E n \in Node : Advance(n)

LedgerSpec == LedgerInit /\ [][LedgerNext]_ledgerVars

-----------------------------------------------------------------------------
(* Properties.                                                             *)

\* Blocks are blocks and every replica holds a snapshot.
LedgerTypeOK ==
  /\ decided \in Seq(Block)
  /\ durable \in [Node -> Snapshot]

\* The ledger has the k-th transaction of block h if and only if it is valid
\* after the m entries before it.
Position(h, k) == [height |-> h, index |-> k - 1]

JudgedAt(ledger, h, k) ==
  \E m \in 0 .. Len(ledger) :
     /\ \A i \in DOMAIN ledger : i <= m <=> Precedes(ledger[i], Position(h, k))
     /\ (\E i \in DOMAIN ledger : ledger[i].height = h /\ ledger[i].index = k - 1)
          <=> Accepted(decided[h][k], Prefix(ledger, m))

FromDecided(entry) ==
  /\ entry.height \in DOMAIN decided
  /\ entry.index + 1 \in DOMAIN decided[entry.height]
  /\ entry.tx = decided[entry.height][entry.index + 1]

InOrder(ledger) == \A i, j \in DOMAIN ledger : i < j => Precedes(ledger[i], ledger[j])

\* finalize_block stated without a loop: the entries of a replica are exactly
\* the decided transactions that are valid after the entries before them, each
\* once and in order.
ExactlyTheValidTransactions ==
  \A n \in Node :
     LET ledger == durable[n].ledger
     IN  /\ \A h \in 1 .. durable[n].height : \A k \in DOMAIN decided[h] : JudgedAt(ledger, h, k)
         /\ \A i \in DOMAIN ledger :
              ledger[i].height <= durable[n].height /\ FromDecided(ledger[i])
         /\ InOrder(ledger)
=============================================================================
