---------------------------- MODULE LedgerProofs ----------------------------
(***************************************************************************)
(* Safety of the abstract ledger and of submissions, for every set of      *)
(* replicas, clients, transactions and drafts and for every bound.         *)
(*                                                                         *)
(* A ledger has been executed Through the k-th transaction of a block when *)
(* exactly the valid ones of the transactions up to there are in it; one   *)
(* more execution step takes it one transaction further.                   *)
(***************************************************************************)
EXTENDS ReplicatedLedger, Submission, ArtifactLedgerProofs

-----------------------------------------------------------------------------
(* The abstract ledger.                                                    *)

\* The k-th transaction of block h is the last one executed.
Through(ledger, h, k) ==
  /\ ledger \in Seq(EntryOf(Transaction))
  /\ \A i \in DOMAIN ledger : Precedes(ledger[i], Position(h, k + 1)) /\ FromDecided(ledger[i])
  /\ InOrder(ledger)
  /\ \A g \in DOMAIN decided : \A j \in DOMAIN decided[g] :
       g < h \/ (g = h /\ j <= k) => JudgedAt(ledger, g, j)

\* A block is a sequence of transactions.
LEMMA BlockIsSeq ==
  ASSUME NEW D \in Seq(Block), NEW h \in DOMAIN D
  PROVE  D[h] \in Seq(Transaction) /\ h \in 1 .. Len(D) /\ Len(D) \in Nat
<1>1. h \in 1 .. Len(D) /\ Len(D) \in Nat /\ D[h] \in Block
  BY LenProperties, ElementOfSeq
<1>2. PICK k \in 0 .. MaxBlockTxs : D[h] \in [1 .. k -> Transaction]
  BY <1>1 DEF Block
<1>3. k \in Nat
  BY BoundsAssumption
<1>. QED  BY <1>1, <1>2, <1>3, SeqDef

\* What was judged before the appended entry stays judged.
LEMMA JudgedStays ==
  ASSUME NEW ledger \in Seq(EntryOf(Transaction)), NEW e \in EntryOf(Transaction),
         NEW g \in Nat, NEW j \in Nat, JudgedAt(ledger, g, j),
         g < e.height \/ (g = e.height /\ j <= e.index)
  PROVE  JudgedAt(Append(ledger, e), g, j)
<1> DEFINE new == Append(ledger, e)
<1>1. /\ Len(ledger) \in Nat
      /\ Len(new) = Len(ledger) + 1
      /\ DOMAIN ledger = 1 .. Len(ledger)
      /\ DOMAIN new = 1 .. Len(ledger) + 1
      /\ new[Len(ledger) + 1] = e
      /\ \A i \in 1 .. Len(ledger) : new[i] = ledger[i]
  BY LenProperties, AppendProperties
<1>2. PICK m \in 0 .. Len(ledger) :
        /\ \A i \in DOMAIN ledger : i <= m <=> Precedes(ledger[i], Position(g, j))
        /\ (\E i \in DOMAIN ledger : ledger[i].height = g /\ ledger[i].index = j - 1)
             <=> Accepted(decided[g][j], Prefix(ledger, m))
  BY DEF JudgedAt
<1>3. Prefix(new, m) = Prefix(ledger, m)
  BY PrefixOfAppend
<1>4. e.height \in Nat /\ e.index \in Nat
  BY DEF EntryOf
<1>5. ~Precedes(e, Position(g, j)) /\ ~(e.height = g /\ e.index = j - 1)
  BY <1>4 DEF Precedes, Position
<1>. HIDE DEF new
<1>6. \A i \in DOMAIN new : i <= m <=> Precedes(new[i], Position(g, j))
  BY <1>1, <1>2, <1>5
<1>7. (\E i \in DOMAIN new : new[i].height = g /\ new[i].index = j - 1)
        <=> (\E i \in DOMAIN ledger : ledger[i].height = g /\ ledger[i].index = j - 1)
  BY <1>1, <1>5
<1>8. m \in 0 .. Len(new)
  BY <1>1
<1>9. JudgedAt(new, g, j)
  BY <1>2, <1>3, <1>6, <1>7, <1>8 DEF JudgedAt
<1>. QED  BY <1>9 DEF new

\* The next transaction of the block is judged by the step that executes it.
LEMMA ExecutesThrough ==
  ASSUME decided \in Seq(Block), NEW h \in DOMAIN decided, NEW k \in Nat,
         k + 1 \in DOMAIN decided[h], NEW ledger, Through(ledger, h, k)
  PROVE  Through(ExecuteOne(ledger, decided[h][k + 1], h, k), h, k + 1)
<1> DEFINE tx == decided[h][k + 1]
           e == [height |-> h, index |-> k, tx |-> tx]
           new == Append(ledger, e)
<1>0. /\ decided[h] \in Seq(Transaction) /\ h \in Nat \ {0} /\ tx \in Transaction
      /\ DOMAIN decided \subseteq Nat /\ \A g \in DOMAIN decided : DOMAIN decided[g] \subseteq Nat \ {0}
  BY BlockIsSeq, LenProperties, ElementOfSeq
<1>1. /\ ledger \in Seq(EntryOf(Transaction)) /\ e \in EntryOf(Transaction)
      /\ e.height = h /\ e.index = k /\ e.tx = tx
  BY <1>0 DEF Through, EntryOf
<1>2. /\ Len(ledger) \in Nat
      /\ DOMAIN ledger = 1 .. Len(ledger)
      /\ \A i \in DOMAIN ledger : ledger[i] \in EntryOf(Transaction)
      /\ Prefix(ledger, Len(ledger)) = ledger
  BY <1>1, LenProperties, ElementOfSeq, SubSeqFull DEF Prefix
<1>3. /\ new \in Seq(EntryOf(Transaction))
      /\ Len(new) = Len(ledger) + 1
      /\ DOMAIN new = 1 .. Len(ledger) + 1
      /\ new[Len(ledger) + 1] = e
      /\ \A i \in 1 .. Len(ledger) : new[i] = ledger[i]
      /\ Prefix(new, Len(ledger)) = ledger
  BY <1>1, <1>2, LenProperties, AppendProperties, PrefixOfAppend
<1>. HIDE DEF e, new, tx
<1>4. \A i \in DOMAIN ledger : /\ ledger[i].height \in Nat /\ ledger[i].index \in Nat
                               /\ Precedes(ledger[i], Position(h, k + 1))
  BY <1>2 DEF Through, EntryOf
<1>5. \A i \in DOMAIN ledger : /\ Precedes(ledger[i], Position(h, k + 2))
                               /\ Precedes(ledger[i], e)
                               /\ ~(ledger[i].height = h /\ ledger[i].index = (k + 1) - 1)
  BY <1>0, <1>1, <1>4 DEF Precedes, Position
<1>6. CASE Accepted(tx, ledger)
  <2>1. ExecuteOne(ledger, tx, h, k) = new
    BY <1>6 DEF ExecuteOne, new, e
  <2>2. ASSUME NEW i \in DOMAIN new
        PROVE  Precedes(new[i], Position(h, k + 2)) /\ FromDecided(new[i])
    <3>1. CASE i \in DOMAIN ledger
      BY <1>2, <1>3, <1>5, <3>1 DEF Through
    <3>2. CASE i = Len(ledger) + 1
      <4>1. Precedes(e, Position(h, k + 2)) /\ FromDecided(e)
        BY <1>0, <1>1 DEF Precedes, Position, FromDecided, tx
      <4>. QED  BY <1>3, <3>2, <4>1
    <3>. QED  BY <1>2, <1>3, <3>1, <3>2
  <2>3. InOrder(new)
    BY <1>2, <1>3, <1>5 DEF Through, InOrder
  <2>4. ASSUME NEW g \in DOMAIN decided, NEW j \in DOMAIN decided[g],
               g < h \/ (g = h /\ j <= k + 1)
        PROVE  JudgedAt(new, g, j)
    <3>0. g \in Nat /\ j \in Nat
      BY <1>0
    <3>1. CASE g < h \/ (g = h /\ j <= k)
      BY <1>1, <3>0, <3>1, JudgedStays DEF Through, new
    <3>2. CASE g = h /\ j = k + 1
      <4>1. \A i \in DOMAIN new : i <= Len(ledger) <=> Precedes(new[i], Position(h, k + 1))
        <5>1. ~Precedes(e, Position(h, k + 1))
          BY <1>0, <1>1 DEF Precedes, Position
        <5>. QED  BY <1>2, <1>3, <1>4, <5>1
      <4>2. \E i \in DOMAIN new : new[i].height = h /\ new[i].index = (k + 1) - 1
        BY <1>1, <1>2, <1>3
      <4>3. Len(ledger) \in 0 .. Len(new)
        BY <1>2, <1>3
      <4>. QED  BY <1>3, <1>6, <3>2, <4>1, <4>2, <4>3 DEF JudgedAt, tx
    <3>. QED  BY <1>0, <2>4, <3>0, <3>1, <3>2
  <2>5. \A i \in DOMAIN new : Precedes(new[i], Position(h, (k + 1) + 1)) /\ FromDecided(new[i])
    BY <2>2
  <2>. QED  BY <1>3, <2>1, <2>3, <2>4, <2>5 DEF Through, tx
<1>7. CASE ~Accepted(tx, ledger)
  <2>1. ExecuteOne(ledger, tx, h, k) = ledger
    BY <1>7 DEF ExecuteOne
  <2>4. ASSUME NEW g \in DOMAIN decided, NEW j \in DOMAIN decided[g],
               g < h \/ (g = h /\ j <= k + 1)
        PROVE  JudgedAt(ledger, g, j)
    <3>0. g \in Nat /\ j \in Nat
      BY <1>0
    <3>1. CASE g < h \/ (g = h /\ j <= k)
      BY <3>1 DEF Through
    <3>2. CASE g = h /\ j = k + 1
      <4>1. \A i \in DOMAIN ledger : i <= Len(ledger) <=> Precedes(ledger[i], Position(h, k + 1))
        BY <1>2, <1>4
      <4>2. Len(ledger) \in 0 .. Len(ledger)
        BY <1>2
      <4>. QED  BY <1>2, <1>5, <1>7, <3>2, <4>1, <4>2 DEF JudgedAt, tx
    <3>. QED  BY <1>0, <2>4, <3>0, <3>1, <3>2
  <2>5. \A i \in DOMAIN ledger : Precedes(ledger[i], Position(h, (k + 1) + 1))
    BY <1>5
  <2>. QED  BY <2>1, <2>4, <2>5 DEF Through, tx
<1>. QED  BY <1>6, <1>7

\* The execution of a block takes a ledger from its first transaction to the
\* first of the next block.
LEMMA BlockExecutesThrough ==
  ASSUME decided \in Seq(Block), NEW h \in DOMAIN decided, NEW ledger, Through(ledger, h, 0)
  PROVE  Through(Execute(ledger, decided[h], h), h + 1, 0)
<1> DEFINE block == decided[h]
<1>0. /\ block \in Seq(Transaction) /\ Len(block) \in Nat /\ DOMAIN block = 1 .. Len(block)
      /\ h \in Nat \ {0} /\ DOMAIN decided \subseteq Nat
  BY BlockIsSeq, LenProperties
<1>1. PICK f : Runs(f, ledger, block, h, Len(block))
  BY <1>0, RunsThrough
<1>2. Execute(ledger, block, h) = f[Len(block)]
  BY <1>0, <1>1, ExecuteRuns
<1> DEFINE T == {k \in Nat : k \in 0 .. Len(block) => Through(f[k], h, k)}
<1>3. 0 \in T
  BY <1>1 DEF Runs
<1>4. ASSUME NEW k \in T PROVE k + 1 \in T
  <2>. SUFFICES ASSUME k + 1 \in 0 .. Len(block) PROVE Through(f[k + 1], h, k + 1)
    OBVIOUS
  <2>1. k \in Nat /\ k + 1 \in 1 .. Len(block) /\ (k + 1) - 1 = k /\ Through(f[k], h, k)
    BY <1>0
  <2>2. f[k + 1] = ExecuteOne(f[k], block[k + 1], h, k)
    BY <1>1, <2>1 DEF Runs
  <2>. QED  BY <1>0, <2>1, <2>2, ExecutesThrough
<1>5. T = Nat
  <2>. HIDE DEF T
  <2>. QED  BY <1>3, <1>4, Induction DEF T
<1>6. Through(f[Len(block)], h, Len(block))
  BY <1>0, <1>5
<1> DEFINE new == f[Len(block)]
<1>. HIDE DEF new
<1>7. ASSUME NEW i \in DOMAIN new PROVE Precedes(new[i], Position(h + 1, 0 + 1))
  <2>1. new[i] \in EntryOf(Transaction) /\ Precedes(new[i], Position(h, Len(block) + 1))
    BY <1>6, LenProperties, ElementOfSeq DEF Through, new
  <2>. QED  BY <1>0, <2>1 DEF Precedes, Position, EntryOf
<1>8. ASSUME NEW g \in DOMAIN decided, NEW j \in DOMAIN decided[g],
             g < h + 1 \/ (g = h + 1 /\ j <= 0)
      PROVE  JudgedAt(new, g, j)
  <2>1. j \in Nat \ {0} /\ g \in Nat /\ (g = h => j <= Len(block))
    BY BlockIsSeq, LenProperties
  <2>2. g < h \/ (g = h /\ j <= Len(block))
    BY <1>0, <1>8, <2>1
  <2>. QED  BY <1>6, <2>2 DEF Through, new
<1>. QED  BY <1>2, <1>6, <1>7, <1>8 DEF Through, new

\* Types, and every replica has executed a prefix of the decided blocks.
LedgerInv ==
  /\ LedgerTypeOK
  /\ \A n \in Node :
       /\ durable[n].height <= Len(decided)
       /\ Through(durable[n].ledger, durable[n].height + 1, 0)

\* Replicas begin with nothing executed.
LEMMA LedgerStarts == LedgerInit => LedgerInv
<1>. SUFFICES ASSUME LedgerInit PROVE LedgerInv
  OBVIOUS
<1>1. decided = <<>> /\ durable = [n \in Node |-> EmptySnapshot] /\ Len(decided) = 0
  BY EmptySeq DEF LedgerInit
<1>2. EmptySnapshot \in Snapshot /\ <<>> \in Seq(EntryOf(Transaction))
  BY EmptySeq DEF EmptySnapshot, Snapshot, Ledger
<1>3. LedgerTypeOK
  BY <1>1, <1>2, EmptySeq DEF LedgerTypeOK
<1>4. Through(<<>>, 1, 0)
  <2>1. DOMAIN <<>> = {} /\ DOMAIN decided = {}
    BY <1>1
  <2>. QED  BY <1>2, <2>1 DEF Through, InOrder
<1>. QED  BY <1>1, <1>3, <1>4 DEF LedgerInv, EmptySnapshot

\* A new block leaves what is judged judged.
LEMMA ThroughOn ==
  ASSUME decided \in Seq(Block), NEW block \in Block, decided' = Append(decided, block),
         NEW ledger, NEW h \in 1 .. Len(decided) + 1, Through(ledger, h, 0)
  PROVE  Through(ledger, h, 0)'
<1>1. /\ Len(decided) \in Nat /\ DOMAIN decided = 1 .. Len(decided)
      /\ decided' \in Seq(Block)
      /\ DOMAIN decided' = 1 .. Len(decided) + 1
      /\ \A g \in DOMAIN decided : decided'[g] = decided[g]
  BY LenProperties, AppendProperties
<1>2. \A i \in DOMAIN ledger : FromDecided(ledger[i])'
  BY <1>1 DEF Through, FromDecided
<1>3. ASSUME NEW g \in DOMAIN decided', NEW j \in DOMAIN decided'[g],
             g < h \/ (g = h /\ j <= 0)
      PROVE  JudgedAt(ledger, g, j)'
  <2>1. j \in Nat \ {0}
    <3>1. decided'[g] \in Seq(Transaction)
      BY <1>1, BlockIsSeq
    <3>. QED  BY <3>1, LenProperties
  <2>2. g \in DOMAIN decided /\ g < h
    BY <1>1, <1>3, <2>1
  <2>3. decided'[g] = decided[g] /\ JudgedAt(ledger, g, j)
    BY <1>1, <2>2 DEF Through
  <2>. QED  BY <2>3 DEF JudgedAt
<1>. QED  BY <1>2, <1>3 DEF Through

LEMMA DecideKeeps == LedgerInv /\ Decide => LedgerInv'
<1>. SUFFICES ASSUME LedgerInv, Decide PROVE LedgerInv'
  OBVIOUS
<1>1. PICK block \in Block : decided' = Append(decided, block)
  BY DEF Decide
<1>2. durable' = durable /\ decided \in Seq(Block) /\ durable \in [Node -> Snapshot]
  BY DEF Decide, LedgerInv, LedgerTypeOK
<1>3. /\ Len(decided) \in Nat
      /\ decided' \in Seq(Block)
      /\ Len(decided') = Len(decided) + 1
  BY <1>1, <1>2, LenProperties, AppendProperties
<1>4. LedgerTypeOK'
  BY <1>2, <1>3 DEF LedgerTypeOK
<1>5. ASSUME NEW n \in Node
      PROVE  /\ durable[n].height <= Len(decided) + 1
             /\ Through(durable[n].ledger, durable[n].height + 1, 0)'
  <2>1. /\ durable[n].height \in Nat /\ durable[n].height <= Len(decided)
        /\ Through(durable[n].ledger, durable[n].height + 1, 0)
    BY <1>2 DEF LedgerInv, Snapshot
  <2>2. PICK ledger, h : ledger = durable[n].ledger /\ h = durable[n].height + 1
    OBVIOUS
  <2>3. Through(ledger, h, 0)'
    BY <1>1, <1>2, <1>3, <2>1, <2>2, ThroughOn
  <2>. QED  BY <1>2, <1>3, <2>1, <2>2, <2>3
<1>. QED  BY <1>2, <1>3, <1>4, <1>5 DEF LedgerInv

\* A replica executes its next block.
LEMMA AdvanceKeeps ==
  ASSUME LedgerInv, NEW n \in Node, Advance(n)
  PROVE  LedgerInv'
<1> DEFINE h == durable[n].height + 1
           old == durable[n].ledger
           new == Execute(old, decided[h], h)
<1>1. /\ durable[n] \in Snapshot /\ durable \in [Node -> Snapshot]
      /\ decided \in Seq(Block) /\ decided' = decided
      /\ h <= Len(decided)
      /\ durable' = [durable EXCEPT ![n] = [height |-> h, ledger |-> new]]
      /\ Through(old, h, 0)
  BY DEF LedgerInv, LedgerTypeOK, Advance
<1>2. h \in Nat \ {0} /\ h \in DOMAIN decided
  BY <1>1, LenProperties DEF Snapshot
<1>. HIDE DEF h, old
<1>3. Through(new, h + 1, 0)
  BY <1>1, <1>2, BlockExecutesThrough
<1>. HIDE DEF new
<1>4. new \in Ledger
  BY <1>3 DEF Through, Ledger, Entry, EntryOf
<1>5. durable' \in [Node -> Snapshot]
  <2>1. [height |-> h, ledger |-> new] \in Snapshot
    BY <1>2, <1>4 DEF Snapshot
  <2>. QED  BY <1>1, <2>1
<1>6. LedgerTypeOK'
  BY <1>1, <1>5 DEF LedgerTypeOK
<1>7. ASSUME NEW m \in Node
      PROVE  /\ durable'[m].height <= Len(decided)
             /\ Through(durable'[m].ledger, durable'[m].height + 1, 0)
  <2>1. CASE m = n
    <3>1. durable'[m].height = h /\ durable'[m].ledger = new
      BY <1>1, <2>1
    <3>. QED  BY <1>1, <1>3, <3>1
  <2>2. CASE m # n
    <3>1. durable'[m] = durable[m]
      BY <1>1, <2>2
    <3>. QED  BY <3>1 DEF LedgerInv
  <2>. QED  BY <2>1, <2>2
<1>8. ASSUME NEW ledger, NEW g, Through(ledger, g, 0) PROVE Through(ledger, g, 0)'
  BY <1>1, <1>8 DEF Through, JudgedAt, FromDecided
<1>9. ASSUME NEW m \in Node
      PROVE  Through(durable[m].ledger, durable[m].height + 1, 0)'
  <2>1. PICK ledger, g : ledger = durable'[m].ledger /\ g = durable'[m].height + 1
    OBVIOUS
  <2>2. Through(ledger, g, 0)'
    BY <1>7, <1>8, <2>1
  <2>. QED  BY <2>1, <2>2
<1>. QED  BY <1>1, <1>6, <1>7, <1>9 DEF LedgerInv

\* Replicas keep what they have executed, and what has been decided.
LEMMA LedgerSteps == LedgerInv /\ [LedgerNext]_ledgerVars => LedgerInv'
<1>. SUFFICES ASSUME LedgerInv, [LedgerNext]_ledgerVars PROVE LedgerInv'
  OBVIOUS
<1>1. CASE Decide
  BY <1>1, DecideKeeps
<1>2. ASSUME NEW n \in Node, Advance(n) PROVE LedgerInv'
  BY <1>2, AdvanceKeeps
<1>3. CASE UNCHANGED ledgerVars
  BY <1>3 DEF ledgerVars, LedgerInv, LedgerTypeOK, Through, JudgedAt, FromDecided
<1>. QED  BY <1>1, <1>2, <1>3 DEF LedgerNext

\* Every replica has executed a prefix of the decided blocks, one transaction
\* after the other.
THEOREM LedgerInvariance == LedgerSpec => []LedgerInv
BY LedgerStarts, LedgerSteps, PTL DEF LedgerSpec

\* The entries of a replica are exactly the decided transactions that are valid
\* after the entries before them: finalize_block, stated without its loop.
THEOREM ExactlyTheValid == LedgerSpec => []ExactlyTheValidTransactions
<1>1. LedgerInv => ExactlyTheValidTransactions
  <2>. SUFFICES ASSUME LedgerInv, NEW n \in Node
                PROVE  LET ledger == durable[n].ledger
                       IN  /\ \A h \in 1 .. durable[n].height : \A k \in DOMAIN decided[h] :
                                JudgedAt(ledger, h, k)
                           /\ \A i \in DOMAIN ledger :
                                ledger[i].height <= durable[n].height /\ FromDecided(ledger[i])
                           /\ InOrder(ledger)
    BY DEF ExactlyTheValidTransactions
  <2> DEFINE ledger == durable[n].ledger
             h == durable[n].height
  <2>1. /\ h \in Nat /\ h <= Len(decided) /\ Through(ledger, h + 1, 0)
        /\ decided \in Seq(Block)
    BY DEF LedgerInv, LedgerTypeOK, Snapshot
  <2>. HIDE DEF ledger, h
  <2>2. DOMAIN decided = 1 .. Len(decided) /\ Len(decided) \in Nat
    BY <2>1, LenProperties
  <2>3. \A g \in 1 .. h : \A k \in DOMAIN decided[g] : JudgedAt(ledger, g, k)
    BY <2>1, <2>2 DEF Through
  <2>4. ASSUME NEW i \in DOMAIN ledger PROVE ledger[i].height <= h /\ FromDecided(ledger[i])
    <3>1. /\ Precedes(ledger[i], Position(h + 1, 0 + 1)) /\ FromDecided(ledger[i])
          /\ ledger[i] \in EntryOf(Transaction)
      BY <2>1, LenProperties, ElementOfSeq DEF Through
    <3>. QED  BY <2>1, <3>1 DEF Precedes, Position, EntryOf
  <2>. QED  BY <2>1, <2>3, <2>4 DEF Through, ledger, h
<1>. QED  BY <1>1, LedgerInvariance, PTL

-----------------------------------------------------------------------------
(* What the client signs.                                                  *)

\* Every artifact of a submission is named by its contribution and its time,
\* and the contribution, or the relation alone, comes first.
LEMMA SignedRefs ==
  ASSUME NEW draft \in Drafts, NEW stamp
  PROVE  LET tx == SignedSubmission(draft, stamp)
         IN  /\ ContributionRef(draft, stamp) \in Refs(tx)
             /\ \A ref \in Refs(tx) : ref.name = draft.name /\ ref.stamp = stamp
<1> DEFINE tx == SignedSubmission(draft, stamp)
           ref == ContributionRef(draft, stamp)
<1>1. draft.to \in Seq(Ref) /\ DOMAIN draft.to = 1 .. Len(draft.to) /\ Len(draft.to) \in Nat
  BY SubmissionAssumption, LenProperties
<1>2. ref.name = draft.name /\ ref.stamp = stamp
  BY DEF ContributionRef
<1>. HIDE DEF ref
<1>3. CASE draft.alone
  <2> DEFINE a == [ref |-> ref, kind |-> "relation", ends |-> {draft.to[i] : i \in DOMAIN draft.to}]
  <2>1. tx.artifacts = <<a>>
    BY <1>3 DEF SignedSubmission, ref
  <2>2. a.ref = ref
    OBVIOUS
  <2>. HIDE DEF a, tx
  <2>3. Refs(tx) = {ref}
    BY <2>1, <2>2 DEF Refs
  <2>. QED  BY <1>2, <2>3 DEF tx, ref
<1>4. CASE ~draft.alone
  <2> DEFINE a == [ref |-> ref, kind |-> "contribution", ends |-> {}]
             b == Attached(draft, stamp)
             E == {a} \cup {b[i] : i \in DOMAIN b}
  <2>1. tx.artifacts = <<a>> \o b
    BY <1>4 DEF SignedSubmission, ref
  <2>2. a.ref = ref
    OBVIOUS
  <2>3. /\ DOMAIN b = 1 .. Len(draft.to)
        /\ \A i \in DOMAIN b : b[i].ref.name = draft.name /\ b[i].ref.stamp = stamp
    BY <1>1 DEF Attached, RelationRef
  <2>. HIDE DEF a, tx, b
  <2>4. b \in Seq(E) /\ <<a>> \in Seq(E) /\ Len(<<a>>) = 1 /\ <<a>>[1] = a
    <3>1. b \in [1 .. Len(draft.to) -> E]
      <4>1. b = [i \in 1 .. Len(draft.to) |-> b[i]]
        BY <2>3 DEF b, Attached
      <4>. QED  BY <2>3, <4>1
    <3>2. b \in Seq(E)
      BY <1>1, <3>1, SeqDef
    <3>. QED  BY <3>2
  <2>5. /\ DOMAIN tx.artifacts = 1 .. Len(tx.artifacts)
        /\ Len(tx.artifacts) = 1 + Len(b)
        /\ \A i \in 1 .. Len(tx.artifacts) :
             tx.artifacts[i] = IF i <= 1 THEN a ELSE b[i - 1]
    <3>. HIDE DEF E
    <3>. QED  BY <2>1, <2>4, ConcatProperties, LenProperties
  <2>6. Len(b) \in Nat /\ DOMAIN b = 1 .. Len(b)
    BY <2>4, LenProperties
  <2>7. ref \in Refs(tx)
    <3>1. 1 \in DOMAIN tx.artifacts /\ tx.artifacts[1].ref = ref
      BY <2>2, <2>5, <2>6
    <3>. QED  BY <3>1 DEF Refs
  <2>8. ASSUME NEW i \in DOMAIN tx.artifacts
        PROVE  tx.artifacts[i].ref.name = draft.name /\ tx.artifacts[i].ref.stamp = stamp
    <3>1. CASE i = 1
      BY <1>2, <2>2, <2>5, <2>6, <3>1
    <3>2. CASE i # 1
      <4>1. i - 1 \in DOMAIN b /\ tx.artifacts[i] = b[i - 1]
        BY <2>5, <2>6, <3>2
      <4>. QED  BY <2>3, <4>1
    <3>. QED  BY <3>1, <3>2
  <2>. QED  BY <2>7, <2>8 DEF Refs, tx, ref
<1>. QED  BY <1>3, <1>4

\* Submissions that share an artifact share their contribution.
LEMMA SharedRefs ==
  ASSUME NEW d \in Drafts, NEW e \in Drafts, NEW m, NEW n,
         Refs(SignedSubmission(d, m)) \cap Refs(SignedSubmission(e, n)) # {}
  PROVE  ContributionRef(d, m) \in Refs(SignedSubmission(e, n))
<1>1. PICK ref : ref \in Refs(SignedSubmission(d, m)) /\ ref \in Refs(SignedSubmission(e, n))
  OBVIOUS
<1>2. d.name = e.name /\ m = n
  BY <1>1, SignedRefs
<1>3. ContributionRef(d, m) = ContributionRef(e, n)
  BY <1>2 DEF ContributionRef
<1>. QED  BY <1>3, SignedRefs

-----------------------------------------------------------------------------
(* What a block leaves of a valid transaction.                             *)

\* No artifact is recorded by two entries.
Unique(ledger) ==
  \A i, j \in DOMAIN ledger : Refs(ledger[i].tx) \cap Refs(ledger[j].tx) # {} => i = j

\* new records what old does.
Grown(old, new) ==
  /\ RecordedRefs(old) \subseteq RecordedRefs(new)
  /\ RecordedContributions(old) \subseteq RecordedContributions(new)

\* A valid transaction can become a duplicate and nothing else.
LEMMA VerdictGrows ==
  ASSUME NEW tx, NEW old, NEW new, Accepted(tx, old), Grown(old, new)
  PROVE  /\ Validate(tx, new) \in {"ACCEPTED", "DUPLICATE"}
         /\ Accepted(tx, new) \/ Refs(tx) \cap RecordedRefs(new) # {}
BY DEF Accepted, Validate, Grown, Duplicate, MissingReference

\* One transaction adds to what is recorded: itself, if it is valid.
LEMMA ExecuteOneGrows ==
  ASSUME NEW T, NEW ledger \in Seq(EntryOf(T)), NEW tx \in T, NEW height \in Nat \ {0},
         NEW index \in Nat, Unique(ledger)
  PROVE  LET new == ExecuteOne(ledger, tx, height, index)
         IN  /\ Grown(ledger, new)
             /\ Unique(new)
             /\ Accepted(tx, ledger) => Refs(tx) \subseteq RecordedRefs(new)
<1> DEFINE e == [height |-> height, index |-> index, tx |-> tx]
           new == Append(ledger, e)
<1>1. CASE Accepted(tx, ledger)
  <2>1. e \in EntryOf(T) /\ e.tx = tx
    BY DEF EntryOf
  <2>2. /\ Len(ledger) \in Nat /\ DOMAIN ledger = 1 .. Len(ledger)
        /\ DOMAIN new = 1 .. Len(ledger) + 1
        /\ new[Len(ledger) + 1] = e
        /\ \A i \in DOMAIN ledger : new[i] = ledger[i]
    BY <2>1, LenProperties, AppendProperties
  <2>. HIDE DEF new, e
  <2>3. DOMAIN ledger \subseteq DOMAIN new /\ Len(ledger) + 1 \in DOMAIN new
    BY <2>2
  <2>4. Grown(ledger, new)
    BY <2>2, <2>3 DEF Grown, RecordedRefs, RecordedContributions
  <2>5. Refs(tx) \subseteq RecordedRefs(new)
    BY <2>1, <2>2, <2>3 DEF RecordedRefs
  <2>6. Refs(tx) \cap RecordedRefs(ledger) = {}
    BY <1>1 DEF Accepted, Validate, Duplicate
  <2>7. \A i \in DOMAIN ledger : Refs(tx) \cap Refs(ledger[i].tx) = {}
    BY <2>6 DEF RecordedRefs
  <2>8. Unique(new)
    <3>. SUFFICES ASSUME NEW i \in DOMAIN new, NEW j \in DOMAIN new,
                         Refs(new[i].tx) \cap Refs(new[j].tx) # {}
                  PROVE  i = j
      BY DEF Unique
    <3>1. CASE i \in DOMAIN ledger /\ j \in DOMAIN ledger
      BY <2>2, <3>1 DEF Unique
    <3>2. CASE i \in DOMAIN ledger /\ j = Len(ledger) + 1
      BY <2>1, <2>2, <2>7, <3>2
    <3>3. CASE i = Len(ledger) + 1 /\ j \in DOMAIN ledger
      BY <2>1, <2>2, <2>7, <3>3
    <3>. QED  BY <2>2, <3>1, <3>2, <3>3
  <2>. QED  BY <1>1, <2>4, <2>5, <2>8 DEF ExecuteOne, new, e
<1>2. CASE ~Accepted(tx, ledger)
  BY <1>2 DEF ExecuteOne, Grown
<1>. QED  BY <1>1, <1>2

\* A block adds to what is recorded, and each of its transactions is recorded
\* or is refused by a ledger between the one before the block and the one after.
LEMMA BlockGrows ==
  ASSUME NEW T, NEW ledger \in Seq(EntryOf(T)), NEW block \in Seq(T), NEW height \in Nat \ {0},
         Unique(ledger)
  PROVE  LET new == Execute(ledger, block, height)
         IN  /\ new \in Seq(EntryOf(T))
             /\ Grown(ledger, new)
             /\ Unique(new)
             /\ \A i \in DOMAIN block :
                  \/ Refs(block[i]) \subseteq RecordedRefs(new)
                  \/ \E mid \in Seq(EntryOf(T)) :
                       /\ Grown(ledger, mid) /\ Grown(mid, new)
                       /\ ~Accepted(block[i], mid)
<1>0. Len(block) \in Nat /\ DOMAIN block = 1 .. Len(block) /\ Len(block) <= Len(block)
      /\ \A i \in DOMAIN block : block[i] \in T
  BY LenProperties, ElementOfSeq
<1>1. PICK f : Runs(f, ledger, block, height, Len(block))
  BY <1>0, RunsThrough
<1>2. Execute(ledger, block, height) = f[Len(block)]
  BY <1>0, <1>1, ExecuteRuns
<1>3. \A k \in 0 .. Len(block) : f[k] \in Seq(EntryOf(T))
  BY <1>0, <1>1, RunsType
<1> DEFINE Refused(i, k) ==
             \/ Refs(block[i]) \subseteq RecordedRefs(f[k])
             \/ \E mid \in Seq(EntryOf(T)) :
                  Grown(ledger, mid) /\ Grown(mid, f[k]) /\ ~Accepted(block[i], mid)
           P(k) == /\ Grown(ledger, f[k]) /\ Unique(f[k])
                   /\ \A i \in 1 .. k : Refused(i, k)
           S == {k \in Nat : k \in 0 .. Len(block) => P(k)}
<1>4. 0 \in S
  BY <1>1 DEF Runs, Grown
<1>5. ASSUME NEW k \in S PROVE k + 1 \in S
  <2>. SUFFICES ASSUME k + 1 \in 0 .. Len(block) PROVE P(k + 1)
    OBVIOUS
  <2>1. k \in Nat /\ k + 1 \in 1 .. Len(block) /\ (k + 1) - 1 = k /\ P(k)
    BY <1>0
  <2>2. f[k + 1] = ExecuteOne(f[k], block[k + 1], height, k)
    BY <1>1, <2>1 DEF Runs
  <2>3. f[k] \in Seq(EntryOf(T)) /\ block[k + 1] \in T
    BY <1>0, <1>3, <2>1
  <2>4. /\ Grown(f[k], f[k + 1]) /\ Unique(f[k + 1])
        /\ Accepted(block[k + 1], f[k]) => Refs(block[k + 1]) \subseteq RecordedRefs(f[k + 1])
    BY <2>1, <2>2, <2>3, ExecuteOneGrows
  <2>5. Grown(ledger, f[k + 1])
    BY <2>1, <2>4 DEF Grown
  <2>6. Refused(k + 1, k + 1)
    BY <2>1, <2>3, <2>4
  <2>7. ASSUME NEW i \in 1 .. k PROVE Refused(i, k + 1)
    <3>1. Refused(i, k)
      BY <2>1
    <3>2. CASE Refs(block[i]) \subseteq RecordedRefs(f[k])
      BY <2>4, <3>2 DEF Grown
    <3>3. ASSUME NEW mid \in Seq(EntryOf(T)),
                 Grown(ledger, mid), Grown(mid, f[k]), ~Accepted(block[i], mid)
          PROVE  Refused(i, k + 1)
      <4>1. Grown(mid, f[k + 1])
        BY <2>4, <3>3 DEF Grown
      <4>. QED  BY <3>3, <4>1
    <3>. QED  BY <3>1, <3>2, <3>3
  <2>. QED  BY <2>1, <2>4, <2>5, <2>6, <2>7
<1>6. S = Nat
  <2>. HIDE DEF S
  <2>. QED  BY <1>4, <1>5, Induction DEF S
<1>7. P(Len(block)) /\ f[Len(block)] \in Seq(EntryOf(T))
  <2>. HIDE DEF P
  <2>. QED  BY <1>0, <1>3, <1>6
<1>. QED  BY <1>0, <1>2, <1>7

-----------------------------------------------------------------------------
(* The recheck of the mempool.                                             *)

KeepOne(kept, tx, ledger) == IF Accepted(tx, ledger) THEN Append(kept, tx) ELSE kept

\* f[k] is what the recheck keeps of the first k transactions.
Keeps(f, txs, ledger, n) ==
  /\ f = [k \in 0 .. n |-> f[k]]
  /\ f[0] = <<>>
  /\ \A k \in 1 .. n : f[k] = KeepOne(f[k - 1], txs[k], ledger)

\* One more transaction can always be checked.
LEMMA KeepsOn ==
  ASSUME NEW txs, NEW ledger, NEW n \in Nat, NEW f, Keeps(f, txs, ledger, n)
  PROVE  LET next == KeepOne(f[n], txs[n + 1], ledger)
         IN  Keeps([k \in 0 .. n + 1 |-> IF k \in 0 .. n THEN f[k] ELSE next], txs, ledger, n + 1)
<1> DEFINE next == KeepOne(f[n], txs[n + 1], ledger)
           g == [k \in 0 .. n + 1 |-> IF k \in 0 .. n THEN f[k] ELSE next]
<1>3. g = [k \in 0 .. n + 1 |-> g[k]]
  <2>. HIDE DEF next
  <2>. QED  OBVIOUS
<1>4. g[0] = <<>>
  BY DEF Keeps
<1>5. ASSUME NEW k \in 1 .. n + 1 PROVE g[k] = KeepOne(g[k - 1], txs[k], ledger)
  <2>1. CASE k \in 1 .. n
    <3>1. k \in 0 .. n /\ k - 1 \in 0 .. n /\ k - 1 \in 0 .. n + 1 /\ k \in 0 .. n + 1
      BY <2>1
    <3>2. g[k] = f[k] /\ g[k - 1] = f[k - 1]
      BY <3>1
    <3>. QED  BY <2>1, <3>2 DEF Keeps
  <2>2. CASE k = n + 1
    <3>1. k - 1 = n /\ n \in 0 .. n + 1 /\ k \in 0 .. n + 1 /\ k \notin 0 .. n
      BY <2>2
    <3>2. g[k] = next /\ g[k - 1] = f[n]
      BY <3>1
    <3>. QED  BY <2>2, <3>1, <3>2
  <2>. QED  BY <2>1, <2>2
<1>. QED  BY <1>3, <1>4, <1>5 DEF Keeps

\* Every mempool can be rechecked.
LEMMA KeepsThrough ==
  ASSUME NEW txs, NEW ledger, Len(txs) \in Nat
  PROVE  \E f : Keeps(f, txs, ledger, Len(txs))
<1> DEFINE T == {n \in Nat : n <= Len(txs) => \E f : Keeps(f, txs, ledger, n)}
<1>1. 0 \in T
  <2>1. Keeps([k \in 0 .. 0 |-> <<>>], txs, ledger, 0)
    BY DEF Keeps
  <2>. QED  BY <2>1
<1>2. ASSUME NEW n \in T PROVE n + 1 \in T
  <2>1. n \in Nat /\ Len(txs) \in Nat
    OBVIOUS
  <2>2. SUFFICES ASSUME n + 1 <= Len(txs) PROVE \E f : Keeps(f, txs, ledger, n + 1)
    BY <2>1
  <2>3. n < Len(txs) /\ \E f : Keeps(f, txs, ledger, n)
    BY <1>2, <2>1, <2>2
  <2>. QED  BY <2>1, <2>3, KeepsOn
<1>3. T = Nat
  <2>. HIDE DEF T
  <2>. QED  BY <1>1, <1>2, Induction DEF T
<1>. QED  BY <1>3

\* What the recheck runs through is what it keeps.
LEMMA RecheckedKeeps ==
  ASSUME NEW txs, Len(txs) \in Nat, NEW ledger, NEW f, Keeps(f, txs, ledger, Len(txs))
  PROVE  Rechecked(txs, ledger) = f[Len(txs)]
<1> DEFINE After(g) ==
      [k \in 0 .. Len(txs) |->
         IF k = 0 THEN <<>>
         ELSE IF Accepted(txs[k], ledger) THEN Append(g[k - 1], txs[k]) ELSE g[k - 1]]
      after == CHOOSE g : g = After(g)
<1>0. Len(txs) \in Nat
  OBVIOUS
<1>1. f = After(f)
  <2>1. ASSUME NEW k \in 0 .. Len(txs) PROVE f[k] = After(f)[k]
    <3>1. CASE k = 0
      BY <1>0, <3>1 DEF Keeps
    <3>2. CASE k \in 1 .. Len(txs)
      <4>1. f[k] = KeepOne(f[k - 1], txs[k], ledger)
        BY <3>2 DEF Keeps
      <4>. QED  BY <1>0, <3>2, <4>1 DEF KeepOne
    <3>. QED  BY <1>0, <3>1, <3>2
  <2>2. f = [k \in 0 .. Len(txs) |-> f[k]]
    BY DEF Keeps
  <2>. QED  BY <2>1, <2>2
<1>2. after = After(after)
  <2>. HIDE DEF After
  <2>1. \E g : g = After(g)
    BY <1>1
  <2>. QED  BY <2>1, Zenon
<1>3. Rechecked(txs, ledger) = after[Len(txs)]
  BY DEF Rechecked
<1> DEFINE T == {k \in Nat : k \in 0 .. Len(txs) => after[k] = f[k]}
<1>. HIDE DEF after
<1>4. 0 \in T
  <2>1. after[0] = After(after)[0] /\ f[0] = After(f)[0]
    BY <1>1, <1>2
  <2>2. After(after)[0] = <<>> /\ After(f)[0] = <<>>
    BY <1>0
  <2>. QED  BY <2>1, <2>2
<1>5. ASSUME NEW k \in T PROVE k + 1 \in T
  <2>. SUFFICES ASSUME k + 1 \in 0 .. Len(txs) PROVE after[k + 1] = f[k + 1]
    OBVIOUS
  <2>1. k \in Nat /\ k + 1 # 0 /\ (k + 1) - 1 = k /\ after[k] = f[k]
    BY <1>0
  <2>2. After(after)[k + 1] = After(f)[k + 1]
    BY <2>1
  <2>3. after[k + 1] = After(after)[k + 1] /\ f[k + 1] = After(f)[k + 1]
    BY <1>1, <1>2
  <2>. QED  BY <2>2, <2>3
<1>6. T = Nat
  <2>. HIDE DEF T
  <2>. QED  BY <1>4, <1>5, Induction DEF T
<1>. QED  BY <1>0, <1>3, <1>6

\* The recheck keeps the valid transactions, and none twice.
LEMMA RecheckKeepsValid ==
  ASSUME NEW T, NEW txs \in Seq(T), NEW ledger
  PROVE  LET kept == Rechecked(txs, ledger)
         IN  /\ kept \in Seq(T)
             /\ ToSet(kept) = {tx \in ToSet(txs) : Accepted(tx, ledger)}
             /\ IsInjective(txs) => IsInjective(kept)
<1>0. Len(txs) \in Nat /\ DOMAIN txs = 1 .. Len(txs) /\ \A i \in DOMAIN txs : txs[i] \in T
  BY LenProperties, ElementOfSeq
<1>1. PICK f : Keeps(f, txs, ledger, Len(txs))
  BY <1>0, KeepsThrough
<1>2. Rechecked(txs, ledger) = f[Len(txs)]
  BY <1>0, <1>1, RecheckedKeeps
<1> DEFINE P(k) == /\ f[k] \in Seq(T)
                   /\ ToSet(f[k]) = {txs[i] : i \in {j \in 1 .. k : Accepted(txs[j], ledger)}}
                   /\ IsInjective(txs) => IsInjective(f[k])
           S == {k \in Nat : k \in 0 .. Len(txs) => P(k)}
<1>3. 0 \in S
  <2>1. f[0] = <<>>
    BY <1>1 DEF Keeps
  <2>2. P(0)
    BY <2>1, EmptySeq DEF ToSet, IsInjective
  <2>. QED  BY <2>2
<1>4. ASSUME NEW k \in S PROVE k + 1 \in S
  <2>. SUFFICES ASSUME k + 1 \in 0 .. Len(txs) PROVE P(k + 1)
    OBVIOUS
  <2>1. k \in Nat /\ k + 1 \in 1 .. Len(txs) /\ (k + 1) - 1 = k /\ P(k)
    BY <1>0
  <2> DEFINE old == f[k]
             tx == txs[k + 1]
  <2>2. f[k + 1] = KeepOne(old, tx, ledger) /\ tx \in T
    BY <1>0, <1>1, <2>1 DEF Keeps
  <2>. HIDE DEF old, tx
  <2>3. \A i \in 1 .. k + 1 : i \in 1 .. k \/ i = k + 1
    BY <2>1
  <2>4. CASE Accepted(tx, ledger)
    <3> DEFINE new == Append(old, tx)
    <3>1. old \in Seq(T) /\ f[k + 1] = new
      BY <2>1, <2>2, <2>4 DEF old, KeepOne
    <3>2. /\ Len(old) \in Nat /\ DOMAIN old = 1 .. Len(old)
          /\ new \in Seq(T) /\ DOMAIN new = 1 .. Len(old) + 1
          /\ new[Len(old) + 1] = tx
          /\ \A i \in DOMAIN old : new[i] = old[i]
      BY <2>2, <3>1, LenProperties, AppendProperties
    <3>. HIDE DEF new
    <3>3. ToSet(new) = ToSet(old) \cup {tx}
      BY <3>2 DEF ToSet
    <3>4. {txs[i] : i \in {j \in 1 .. k + 1 : Accepted(txs[j], ledger)}}
            = {txs[i] : i \in {j \in 1 .. k : Accepted(txs[j], ledger)}} \cup {tx}
      BY <2>1, <2>3, <2>4 DEF tx
    <3>5. ASSUME IsInjective(txs) PROVE IsInjective(new)
      <4>1. tx \notin ToSet(old)
        <5>1. \A i \in 1 .. k : txs[i] # tx
          BY <1>0, <2>1, <3>5 DEF IsInjective, tx
        <5>. QED  BY <2>1, <5>1 DEF old
      <4>2. IsInjective(old)
        BY <2>1, <3>5 DEF old
      <4>. QED  BY <3>2, <4>1, <4>2 DEF IsInjective, ToSet
    <3>. QED  BY <2>1, <3>1, <3>2, <3>3, <3>4, <3>5 DEF old
  <2>5. CASE ~Accepted(tx, ledger)
    <3>1. f[k + 1] = f[k]
      BY <2>2, <2>5 DEF old, KeepOne
    <3>2. {j \in 1 .. k + 1 : Accepted(txs[j], ledger)} = {j \in 1 .. k : Accepted(txs[j], ledger)}
      BY <2>1, <2>3, <2>5 DEF tx
    <3>. QED  BY <2>1, <3>1, <3>2
  <2>. QED  BY <2>4, <2>5
<1>5. S = Nat
  <2>. HIDE DEF S
  <2>. QED  BY <1>3, <1>4, Induction DEF S
<1>6. P(Len(txs))
  <2>. HIDE DEF P
  <2>. QED  BY <1>0, <1>5
<1>7. {txs[i] : i \in {j \in 1 .. Len(txs) : Accepted(txs[j], ledger)}}
        = {tx \in ToSet(txs) : Accepted(tx, ledger)}
  BY <1>0 DEF ToSet
<1>. QED  BY <1>2, <1>6, <1>7

-----------------------------------------------------------------------------
(* Submissions.                                                            *)

\* The bounds the proofs need.
LEMMA SubmissionBounds == ProposalBytes \in Nat /\ MaxTries \in Nat
BY SubmissionAssumption

\* The proposal is a prefix of the mempool.
LEMMA ProposalIsPrefix ==
  ASSUME NEW T, NEW txs \in Seq(T)
  PROVE  \E k \in 0 .. Len(txs) : PrepareProposal(txs) = SubSeq(txs, 1, k)
<1> DEFINE F(n) == Fits(SubSeq(txs, 1, n))
           Longest(n) == F(n) /\ (n < Len(txs) => ~F(n + 1))
<1>0. Len(txs) \in Nat
  BY LenProperties
<1>1. F(0)
  <2>1. SubSeq(txs, 1, 0) = <<>>
    BY <1>0, SubSeqEmpty
  <2>2. BytesOf(<<>>) = 0
    <3> DEFINE After(g) == [i \in 0 .. Len(<<>>) |-> IF i = 0 THEN 0 ELSE g[i - 1] + <<>>[i].bytes]
               sum == CHOOSE g : g = After(g)
    <3>1. Len(<<>>) = 0
      BY EmptySeq
    <3>2. [i \in 0 .. 0 |-> 0] = After([i \in 0 .. 0 |-> 0])
      <4>1. \A i \in 0 .. 0 : i = 0
        OBVIOUS
      <4>. QED  BY <3>1, <4>1
    <3>3. sum = After(sum)
      <4>. HIDE DEF After
      <4>1. \E g : g = After(g)
        BY <3>2
      <4>. QED  BY <4>1, Zenon
    <3>4. BytesOf(<<>>) = sum[0]
      BY <3>1 DEF BytesOf
    <3>5. After(sum)[0] = 0
      <4>. HIDE DEF sum
      <4>. QED  BY <3>1
    <3>. HIDE DEF sum, After
    <3>. QED  BY <3>3, <3>4, <3>5
  <2>3. Fits(<<>>)
    BY <2>2, SubmissionBounds DEF Fits
  <2>. QED  BY <2>1, <2>3
<1>2. \E n \in 0 .. Len(txs) : Longest(n)
  <2>. SUFFICES ASSUME \A n \in 0 .. Len(txs) : ~Longest(n) PROVE FALSE
    OBVIOUS
  <2> DEFINE S == {n \in Nat : n <= Len(txs) => F(n)}
  <2>. HIDE DEF F
  <2>1. 0 \in S
    BY <1>1
  <2>2. ASSUME NEW n \in S PROVE n + 1 \in S
    BY <1>0
  <2>3. S = Nat
    <3>. HIDE DEF S
    <3>. QED  BY <2>1, <2>2, Induction DEF S
  <2>4. F(Len(txs))
    BY <1>0, <2>3
  <2>. QED  BY <1>0, <2>4
<1> DEFINE k == CHOOSE n \in 0 .. Len(txs) : Longest(n)
<1>3. PrepareProposal(txs) = SubSeq(txs, 1, k)
  BY DEF PrepareProposal
<1>4. k \in 0 .. Len(txs)
  <2>. HIDE DEF Longest
  <2>. QED  BY <1>2
<1>. HIDE DEF k
<1>. QED  BY <1>3, <1>4

\* What has been signed so far, with the contributions of each client.
Made ==
  {tx \in Signed :
     /\ WithinLimits(tx)
     /\ \E s \in Submitters, d \in Drafts : \E k \in 1 .. client[s].stamp :
          tx = SignedSubmission(d, k) /\ d.name = client[s].draft.name}

\* A client submits one contribution, and keeps its time if it is a caller of
\* the library.
ClientInv(s) ==
  /\ client[s].phase = "idle" => client[s].stamp = 0
  /\ client[s].phase # "idle" => client[s].draft \in Drafts /\ client[s].stamp \in 1 .. client[s].tries
  /\ s \notin CommandLine => client[s].stamp <= 1

OwnNames ==
  \A s, t \in Submitters :
     client[s].draft \in Drafts /\ client[s].draft.name = client[t].draft.name => s = t

\* An open call carries what its invocation signed.
RequestInv ==
  \A r \in requests :
     /\ r.tx \in Made
     /\ r.try <= client[r.from].tries
     /\ client[r.from].phase = "waiting" /\ client[r.from].tries = r.try =>
          r.tx = SignedSubmission(client[r.from].draft, client[r.from].stamp)

\* CheckTx and the recheck judged the mempool by the committed ledger.
NodeSideInv ==
  /\ mempool \in Seq(Made)
  /\ \A tx \in ToSet(mempool) : Accepted(tx, blocks.ledger)
  /\ blocks.ledger \in Seq(EntryOf(Made))
  /\ Unique(blocks.ledger)
  /\ BlocksFailOnlyDuplicates

SubInv ==
  /\ SubmissionTypeOK
  /\ \A s \in Submitters : ClientInv(s)
  /\ OwnNames
  /\ RequestInv
  /\ NodeSideInv
  /\ AcceptedIsKept

Client == [phase : {"idle", "waiting", "done"}, draft : Drafts \cup {NoDraft},
           stamp : 0 .. MaxTries, tries : 0 .. MaxTries,
           outcome : {"none", "error", "ACCEPTED", "DUPLICATE", "MISSING_REFERENCE"}]

\* Nothing is submitted at first.
LEMMA SubmissionStarts == SubmissionInit => SubInv
<1>. SUFFICES ASSUME SubmissionInit PROVE SubInv
  OBVIOUS
<1>1. /\ client = [s \in Submitters |-> NotSubmitted]
      /\ requests = {} /\ mempool = <<>> /\ cache = {} /\ results = {}
      /\ blocks.height = 0 /\ blocks.ledger = <<>>
  BY DEF SubmissionInit, EmptySnapshot
<1>2. NotSubmitted \in Client
  <2>1. 0 \in 0 .. MaxTries
    BY SubmissionBounds
  <2>. QED  BY <2>1 DEF NotSubmitted, Client
<1>3. ToSet(<<>>) = {} /\ IsInjective(<<>>) /\ \A S : <<>> \in Seq(S)
  BY EmptySeq DEF ToSet, IsInjective
<1>4. SubmissionTypeOK
  BY <1>1, <1>2, <1>3 DEF SubmissionTypeOK, Client
<1>5. NoDraft \notin Drafts
  BY SubmissionAssumption DEF NoDraft
<1>6. \A s \in Submitters : ClientInv(s)
  BY <1>1 DEF ClientInv, NotSubmitted
<1>7. OwnNames
  BY <1>1, <1>5 DEF OwnNames, NotSubmitted
<1>8. Unique(<<>>)
  BY DEF Unique
<1>9. NodeSideInv
  BY <1>1, <1>3, <1>8 DEF NodeSideInv, BlocksFailOnlyDuplicates
<1>10. AcceptedIsKept
  BY <1>1 DEF AcceptedIsKept, NotSubmitted
<1>. QED  BY <1>1, <1>4, <1>6, <1>7, <1>9, <1>10 DEF SubInv, RequestInv

\* What was signed stays signed.
LEMMA MadeGrows ==
  ASSUME \A s \in Submitters :
           \/ client[s].stamp = 0
           \/ /\ client'[s].draft.name = client[s].draft.name
              /\ client[s].stamp \in Nat /\ client'[s].stamp \in Nat
              /\ client[s].stamp <= client'[s].stamp
  PROVE  Made \subseteq Made'
<1>. SUFFICES ASSUME NEW tx \in Made PROVE tx \in Made'
  OBVIOUS
<1>1. PICK s \in Submitters, d \in Drafts : \E k \in 1 .. client[s].stamp :
        tx = SignedSubmission(d, k) /\ d.name = client[s].draft.name
  BY DEF Made
<1>2. PICK k \in 1 .. client[s].stamp :
        tx = SignedSubmission(d, k) /\ d.name = client[s].draft.name
  BY <1>1
<1>3. k \in 1 .. client'[s].stamp /\ d.name = client'[s].draft.name
  BY <1>2
<1>4. tx \in Signed /\ WithinLimits(tx)
  BY DEF Made
<1>. QED  BY <1>2, <1>3, <1>4 DEF Made

\* An answer, or none in time, ends an invocation and changes nothing else.
LEMMA SettledFacts ==
  ASSUME SubInv, NEW s \in Submitters, client[s].phase = "waiting",
         NEW outcome \in {"error", "ACCEPTED", "DUPLICATE", "MISSING_REFERENCE"},
         client' = [client EXCEPT ![s].phase = "done", ![s].outcome = outcome]
  PROVE  /\ client' \in [Submitters -> Client]
         /\ \A t \in Submitters : ClientInv(t)'
         /\ OwnNames'
         /\ Made \subseteq Made'
         /\ client'[s].phase = "done" /\ client'[s].outcome = outcome
         /\ \A t \in Submitters :
              /\ client'[t].draft = client[t].draft /\ client'[t].stamp = client[t].stamp
              /\ client'[t].tries = client[t].tries
         /\ \A t \in Submitters \ {s} : client'[t] = client[t]
<1>1. client \in [Submitters -> Client]
  BY DEF SubInv, SubmissionTypeOK, Client
<1>2. /\ client'[s] = [client[s] EXCEPT !.phase = "done", !.outcome = outcome]
      /\ \A t \in Submitters \ {s} : client'[t] = client[t]
  BY <1>1
<1>3. /\ client'[s].phase = "done" /\ client'[s].outcome = outcome
      /\ client'[s].draft = client[s].draft /\ client'[s].stamp = client[s].stamp
      /\ client'[s].tries = client[s].tries
      /\ client'[s] \in Client
  BY <1>1, <1>2 DEF Client
<1>4. client' \in [Submitters -> Client]
  BY <1>1, <1>3
<1>5. \A t \in Submitters :
         /\ client'[t].draft = client[t].draft /\ client'[t].stamp = client[t].stamp
         /\ client'[t].tries = client[t].tries
  BY <1>2, <1>3
<1>6. \A t \in Submitters : ClientInv(t)'
  BY <1>2, <1>3 DEF SubInv, ClientInv
<1>7. OwnNames'
  BY <1>5 DEF SubInv, OwnNames
<1>8. Made \subseteq Made'
  <2>1. \A t \in Submitters : client[t].stamp \in Nat
    BY <1>1, SubmissionBounds DEF Client
  <2>2. \A t \in Submitters :
           /\ client'[t].draft.name = client[t].draft.name
           /\ client[t].stamp \in Nat /\ client'[t].stamp \in Nat
           /\ client[t].stamp <= client'[t].stamp
    <3>. SUFFICES ASSUME NEW t \in Submitters
                  PROVE  /\ client'[t].draft.name = client[t].draft.name
                         /\ client[t].stamp \in Nat /\ client'[t].stamp \in Nat
                         /\ client[t].stamp <= client'[t].stamp
      OBVIOUS
    <3> DEFINE old == client[t]
               new == client'[t]
    <3>1. old.stamp \in Nat /\ new.stamp = old.stamp /\ new.draft = old.draft
      BY <1>5, <2>1
    <3>. HIDE DEF old, new
    <3>2. new.draft.name = old.draft.name /\ new.stamp \in Nat /\ old.stamp <= new.stamp
      BY <3>1
    <3>. QED  BY <3>1, <3>2 DEF old, new
  <2>. QED  BY <2>2, MadeGrows
<1>. QED  BY <1>2, <1>3, <1>4, <1>5, <1>6, <1>7, <1>8

\* The part of the invariant about the node is kept by a step of a client: the
\* node has what was signed, and more of it.
LEMMA NodeSideOn ==
  ASSUME SubInv, Made \subseteq Made', UNCHANGED <<mempool, cache, blocks, results, dropped>>
  PROVE  NodeSideInv'
<1>1. mempool \in Seq(Made) /\ blocks.ledger \in Seq(EntryOf(Made))
  BY DEF SubInv, NodeSideInv
<1>2. EntryOf(Made) \subseteq EntryOf(Made')
  BY DEF EntryOf
<1>3. mempool \in Seq(Made') /\ blocks.ledger \in Seq(EntryOf(Made'))
  BY <1>1, <1>2, SeqDef
<1>. QED  BY <1>3 DEF SubInv, NodeSideInv, Unique, BlocksFailOnlyDuplicates, ToSet, EntryOf

\* A client signs and sends, or fails before it does.
LEMMA SendKeeps ==
  ASSUME SubInv, NEW s \in Submitters, NEW draft \in Drafts, NEW stamp, Send(s, draft, stamp),
         stamp \in 1 .. client[s].tries + 1,
         client[s].stamp = 0 \/ (client[s].draft.name = draft.name /\ client[s].stamp <= stamp),
         s \notin CommandLine => stamp <= 1,
         \A t \in Submitters \ {s} : client[t].draft.name # draft.name
  PROVE  SubInv'
<1> DEFINE tx == SignedSubmission(draft, stamp)
<1>0. /\ client \in [Submitters -> Client]
      /\ \A t \in Submitters : client[t].stamp \in Nat /\ client[t].tries \in 0 .. MaxTries
      /\ MaxTries \in Nat
  BY SubmissionBounds DEF SubInv, SubmissionTypeOK, Client
<1>1. PICK phase \in {"waiting", "done"}, outcome \in {"none", "error"} :
        /\ client' = [client EXCEPT ![s] = [client[s] EXCEPT !.draft = draft, !.stamp = stamp,
                                              !.tries = client[s].tries + 1,
                                              !.phase = phase, !.outcome = outcome]]
        /\ \/ requests' = requests
           \/ /\ WithinLimits(tx)
              /\ requests' = requests \cup {[from |-> s, try |-> client[s].tries + 1, tx |-> tx]}
        /\ client[s].tries < MaxTries
        /\ UNCHANGED <<mempool, cache, blocks, results, dropped>>
  BY DEF Send
<1>2. /\ client'[s].draft = draft /\ client'[s].stamp = stamp
      /\ client'[s].tries = client[s].tries + 1
      /\ client'[s].phase = phase /\ client'[s].outcome = outcome
      /\ \A t \in Submitters \ {s} : client'[t] = client[t]
  BY <1>0, <1>1 DEF Client
<1>3. client'[s].tries \in 1 .. MaxTries /\ stamp \in 1 .. MaxTries
  BY <1>0, <1>1, <1>2
<1>4. client' \in [Submitters -> Client]
  <2>1. client'[s] \in Client
    <3>1. stamp \in 0 .. MaxTries /\ client[s].tries + 1 \in 0 .. MaxTries
      BY <1>2, <1>3
    <3>. QED  BY <1>0, <1>1, <3>1 DEF Client
  <2>. QED  BY <1>0, <1>1, <2>1
<1>5. \A t \in Submitters : ClientInv(t)'
  <2>1. ClientInv(s)'
    BY <1>0, <1>1, <1>2 DEF ClientInv
  <2>2. \A t \in Submitters \ {s} : ClientInv(t)'
    BY <1>2 DEF SubInv, ClientInv
  <2>. QED  BY <2>1, <2>2
<1>6. OwnNames'
  <2>. SUFFICES ASSUME NEW t \in Submitters, NEW u \in Submitters,
                       client'[t].draft \in Drafts, client'[t].draft.name = client'[u].draft.name
                PROVE  t = u
    BY DEF OwnNames
  <2>. QED  BY <1>2 DEF SubInv, OwnNames
<1>7. Made \subseteq Made'
  <2>1. \A t \in Submitters :
           \/ client[t].stamp = 0
           \/ /\ client'[t].draft.name = client[t].draft.name
              /\ client[t].stamp \in Nat /\ client'[t].stamp \in Nat
              /\ client[t].stamp <= client'[t].stamp
    BY <1>0, <1>2, <1>3
  <2>. QED  BY <2>1, MadeGrows
<1>8. WithinLimits(tx) => tx \in Made'
  <2>1. tx \in Signed
    BY <1>3 DEF Signed
  <2>2. stamp \in 1 .. client'[s].stamp /\ draft.name = client'[s].draft.name
    BY <1>2, <1>3
  <2>. HIDE DEF tx
  <2>3. \E t \in Submitters, d \in Drafts : \E k \in 1 .. client'[t].stamp :
          tx = SignedSubmission(d, k) /\ d.name = client'[t].draft.name
    BY <2>2 DEF tx
  <2>. QED  BY <2>1, <2>3 DEF Made
<1>9. RequestInv'
  <2>. SUFFICES ASSUME NEW r \in requests'
                PROVE  /\ r.tx \in Made'
                       /\ r.try <= client'[r.from].tries
                       /\ client'[r.from].phase = "waiting" /\ client'[r.from].tries = r.try =>
                            r.tx = SignedSubmission(client'[r.from].draft, client'[r.from].stamp)
    BY DEF RequestInv
  <2>1. CASE r \in requests
    <3>1. /\ r.tx \in Made /\ r.try <= client[r.from].tries
          /\ client[r.from].phase = "waiting" /\ client[r.from].tries = r.try =>
               r.tx = SignedSubmission(client[r.from].draft, client[r.from].stamp)
      BY <2>1 DEF SubInv, RequestInv
    <3>2. r.from \in Submitters /\ r.try \in 1 .. MaxTries
      BY <2>1 DEF SubInv, SubmissionTypeOK
    <3>3. CASE r.from = s
      BY <1>0, <1>2, <1>7, <3>1, <3>2, <3>3
    <3>4. CASE r.from # s
      BY <1>2, <1>7, <3>1, <3>2, <3>4
    <3>. QED  BY <3>3, <3>4
  <2>2. CASE WithinLimits(tx) /\ r = [from |-> s, try |-> client[s].tries + 1, tx |-> tx]
    <3>1. r.from = s /\ r.try = client[s].tries + 1 /\ r.tx = tx
      BY <2>2
    <3>. HIDE DEF tx
    <3>2. r.tx = SignedSubmission(client'[s].draft, client'[s].stamp)
      BY <1>2, <3>1 DEF tx
    <3>. QED  BY <1>2, <1>3, <1>8, <2>2, <3>1, <3>2
  <2>. QED  BY <1>1, <2>1, <2>2
<1>10. NodeSideInv'
  BY <1>1, <1>7, NodeSideOn
<1>11. AcceptedIsKept'
  <2>1. mempool' = mempool /\ dropped' = dropped /\ blocks' = blocks
    BY <1>1
  <2>2. client'[s].outcome # "ACCEPTED"
    BY <1>2
  <2>. QED  BY <1>2, <2>1, <2>2 DEF SubInv, AcceptedIsKept, ToSet
<1>12. SubmissionTypeOK'
  <2>1. requests' \subseteq [from : Submitters, try : 1 .. MaxTries, tx : Signed]
    <3>1. tx \in Signed
      BY <1>3 DEF Signed
    <3>2. client[s].tries + 1 \in 1 .. MaxTries
      BY <1>2, <1>3
    <3>. HIDE DEF tx
    <3>. QED  BY <1>1, <3>1, <3>2 DEF SubInv, SubmissionTypeOK
  <2>. QED  BY <1>1, <1>4, <2>1 DEF SubInv, SubmissionTypeOK, Client
<1>. QED  BY <1>5, <1>6, <1>9, <1>10, <1>11, <1>12 DEF SubInv

LEMMA SubmitKeeps ==
  ASSUME SubInv, NEW s \in Submitters, Submit(s)
  PROVE  SubInv'
<1>1. PICK draft \in Drafts : /\ \A other \in Submitters : client[other].draft.name # draft.name
                              /\ Send(s, draft, 1)
  BY DEF Submit
<1>2. client[s].stamp = 0 /\ client[s].tries \in Nat
  BY SubmissionBounds DEF SubInv, ClientInv, Submit, SubmissionTypeOK
<1>. QED  BY <1>1, <1>2, SendKeeps

LEMMA ResubmitKeeps ==
  ASSUME SubInv, NEW s \in Submitters, Resubmit(s)
  PROVE  SubInv'
<1> DEFINE stamp == client[s].stamp + (IF s \in CommandLine THEN 1 ELSE 0)
<1>1. PICK draft \in Drafts : draft.name = client[s].draft.name /\ Send(s, draft, stamp)
  BY DEF Resubmit
<1>2. /\ client[s].draft \in Drafts /\ client[s].stamp \in 1 .. client[s].tries
      /\ client[s].tries \in Nat /\ (s \notin CommandLine => client[s].stamp <= 1)
  BY SubmissionBounds DEF SubInv, ClientInv, Resubmit, SubmissionTypeOK
<1>3. /\ stamp \in 1 .. client[s].tries + 1 /\ client[s].stamp <= stamp
      /\ s \notin CommandLine => stamp <= 1
  BY <1>2
<1>. HIDE DEF stamp
<1>4. \A t \in Submitters \ {s} : client[t].draft.name # draft.name
  BY <1>1, <1>2 DEF SubInv, OwnNames
<1>. QED  BY <1>1, <1>3, <1>4, SendKeeps

\* Who gives up may still be recorded.
LEMMA TimeOutKeeps ==
  ASSUME SubInv, NEW s \in Submitters, TimeOut(s)
  PROVE  SubInv'
<1>1. /\ client[s].phase = "waiting"
      /\ client' = [client EXCEPT ![s].phase = "done", ![s].outcome = "error"]
      /\ UNCHANGED <<requests, mempool, cache, blocks, results, dropped>>
  BY DEF TimeOut, nodeSide
<1>2. /\ client' \in [Submitters -> Client]
      /\ \A t \in Submitters : ClientInv(t)'
      /\ OwnNames'
      /\ Made \subseteq Made'
      /\ client'[s].phase = "done" /\ client'[s].outcome = "error"
      /\ \A t \in Submitters :
           /\ client'[t].draft = client[t].draft /\ client'[t].stamp = client[t].stamp
           /\ client'[t].tries = client[t].tries
      /\ \A t \in Submitters \ {s} : client'[t] = client[t]
  BY <1>1, SettledFacts
<1>3. RequestInv'
  <2>1. \A r \in requests : r.from \in Submitters
    BY DEF SubInv, SubmissionTypeOK
  <2>. QED  BY <1>1, <1>2, <2>1 DEF SubInv, RequestInv
<1>4. NodeSideInv'
  BY <1>1, <1>2, NodeSideOn
<1>5. AcceptedIsKept'
  <2>1. mempool' = mempool /\ dropped' = dropped /\ blocks' = blocks
    BY <1>1
  <2>. QED  BY <1>2, <2>1 DEF SubInv, AcceptedIsKept, ToSet
<1>6. SubmissionTypeOK'
  BY <1>1, <1>2 DEF SubInv, SubmissionTypeOK, Client
<1>. QED  BY <1>2, <1>3, <1>4, <1>5, <1>6 DEF SubInv

\* CheckTx answers what is signed within the limits by one of three codes.
LEMMA SignedVerdict ==
  ASSUME NEW tx \in Made, NEW ledger
  PROVE  Validate(tx, ledger) \in {"ACCEPTED", "DUPLICATE", "MISSING_REFERENCE"}
<1>1. PICK d \in Drafts, k \in 1 .. MaxTries : tx = SignedSubmission(d, k)
  BY DEF Made, Signed
<1>2. tx.decodable /\ tx.chain = ExpectedChain /\ tx.authentic /\ tx.bytes = d.bytes
  BY <1>1 DEF SignedSubmission
<1>3. d.bytes \in Nat
  BY SubmissionAssumption
<1>4. tx.bytes <= MaxTransactionBytes /\ Len(tx.artifacts) <= MaxArtifacts
  BY DEF Made, WithinLimits
<1>5. Len(tx.artifacts) \in Nat
  <2>1. CASE d.alone
    <3>1. \A a : Len(<<a>>) = 1
      OBVIOUS
    <3>. QED  BY <1>1, <2>1, <3>1 DEF SignedSubmission
  <2>2. CASE ~d.alone
    <3> DEFINE a == [ref |-> ContributionRef(d, k), kind |-> "contribution", ends |-> {}]
               b == Attached(d, k)
               E == {a} \cup {b[i] : i \in DOMAIN b}
    <3>1. tx.artifacts = <<a>> \o b
      BY <1>1, <2>2 DEF SignedSubmission
    <3>2. DOMAIN d.to = 1 .. Len(d.to) /\ Len(d.to) \in Nat
      BY SubmissionAssumption, LenProperties
    <3>3. b \in [1 .. Len(d.to) -> E]
      <4>1. b = [i \in 1 .. Len(d.to) |-> b[i]] /\ DOMAIN b = 1 .. Len(d.to)
        BY <3>2 DEF Attached
      <4>. HIDE DEF b
      <4>. QED  BY <4>1
    <3>4. b \in Seq(E) /\ <<a>> \in Seq(E)
      BY <3>2, <3>3, SeqDef
    <3>. HIDE DEF a, b, E
    <3>5. tx.artifacts \in Seq(E)
      BY <3>1, <3>4, ConcatProperties
    <3>. QED  BY <3>5, LenProperties
  <2>. QED  BY <2>1, <2>2
<1>6. ~(tx.bytes > MaxTransactionBytes) /\ ~(Len(tx.artifacts) > MaxArtifacts)
  BY <1>2, <1>3, <1>4, <1>5, LimitsAssumption
<1>. QED  BY <1>2, <1>6 DEF Validate

\* The answer to a call ends the invocation that made it, or nobody hears it.
LEMMA RespondFacts ==
  ASSUME SubInv, NEW r \in requests,
         NEW outcome \in {"error", "ACCEPTED", "DUPLICATE", "MISSING_REFERENCE"},
         Respond(r, outcome)
  PROVE  /\ client' \in [Submitters -> Client]
         /\ \A t \in Submitters : ClientInv(t)'
         /\ OwnNames'
         /\ Made \subseteq Made'
         /\ \A t \in Submitters :
              /\ client'[t].draft = client[t].draft /\ client'[t].stamp = client[t].stamp
              /\ client'[t].tries = client[t].tries
              /\ \/ client'[t] = client[t]
                 \/ /\ client'[t].phase = "done" /\ client'[t].outcome = outcome
                    /\ r.tx = SignedSubmission(client[t].draft, client[t].stamp)
<1> DEFINE s == r.from
<1>0. s \in Submitters
  BY DEF SubInv, SubmissionTypeOK
<1>1. CASE client[s].phase = "waiting" /\ client[s].tries = r.try
  <2>1. client' = [client EXCEPT ![s].phase = "done", ![s].outcome = outcome]
    BY <1>1 DEF Respond
  <2>2. r.tx = SignedSubmission(client[s].draft, client[s].stamp)
    BY <1>1 DEF SubInv, RequestInv
  <2>. HIDE DEF s
  <2>3. /\ client' \in [Submitters -> Client]
        /\ \A t \in Submitters : ClientInv(t)'
        /\ OwnNames'
        /\ Made \subseteq Made'
        /\ client'[s].phase = "done" /\ client'[s].outcome = outcome
        /\ \A t \in Submitters :
             /\ client'[t].draft = client[t].draft /\ client'[t].stamp = client[t].stamp
             /\ client'[t].tries = client[t].tries
        /\ \A t \in Submitters \ {s} : client'[t] = client[t]
    BY <1>0, <1>1, <2>1, SettledFacts
  <2>. QED  BY <2>2, <2>3
<1>2. CASE ~(client[s].phase = "waiting" /\ client[s].tries = r.try)
  <2>1. client' = client
    BY <1>2 DEF Respond
  <2>2. Made' = Made
    BY <2>1 DEF Made
  <2>3. client' \in [Submitters -> Client]
    BY <2>1 DEF SubInv, SubmissionTypeOK, Client
  <2>. QED  BY <2>1, <2>2, <2>3 DEF SubInv, OwnNames, ClientInv
<1>. QED  BY <1>1, <1>2

\* What the mempool takes was judged by the committed ledger.
LEMMA BroadcastKeeps ==
  ASSUME SubInv, NEW r \in requests, ProcessBroadcast(r)
  PROVE  SubInv'
<1> DEFINE tx == r.tx
<1>1. /\ requests' = requests \ {r}
      /\ UNCHANGED <<blocks, results, dropped>>
      /\ \E outcome \in {"error", CheckTx(tx)} :
           /\ Respond(r, outcome)
           /\ \/ outcome # "ACCEPTED" /\ UNCHANGED <<mempool, cache>>
              \/ /\ outcome = "ACCEPTED" /\ CheckTx(tx) = "ACCEPTED" /\ tx \notin cache
                 /\ mempool' = Append(mempool, tx) /\ cache' = cache \cup {tx}
  <2>1. /\ requests' = requests \ {r}
        /\ UNCHANGED <<blocks, results, dropped>>
    BY DEF ProcessBroadcast
  <2>2. CASE tx \in cache /\ Respond(r, "error") /\ UNCHANGED <<mempool, cache>>
    BY <2>1, <2>2
  <2>3. CASE /\ tx \notin cache /\ Respond(r, CheckTx(tx))
             /\ IF CheckTx(tx) = "ACCEPTED"
                THEN mempool' = Append(mempool, tx) /\ cache' = cache \cup {tx}
                ELSE UNCHANGED <<mempool, cache>>
    BY <2>1, <2>3
  <2>. QED  BY <2>2, <2>3 DEF ProcessBroadcast
<1>2. tx \in Made /\ tx \in Signed
  BY DEF SubInv, RequestInv, Made
<1>3. CheckTx(tx) \in {"ACCEPTED", "DUPLICATE", "MISSING_REFERENCE"}
  BY <1>2, SignedVerdict DEF CheckTx
<1>4. PICK outcome \in {"error", "ACCEPTED", "DUPLICATE", "MISSING_REFERENCE"} :
        /\ Respond(r, outcome)
        /\ \/ outcome # "ACCEPTED" /\ UNCHANGED <<mempool, cache>>
           \/ /\ CheckTx(tx) = "ACCEPTED" /\ tx \notin cache
              /\ mempool' = Append(mempool, tx) /\ cache' = cache \cup {tx}
  BY <1>1, <1>3
<1>5. /\ client' \in [Submitters -> Client]
      /\ \A t \in Submitters : ClientInv(t)'
      /\ OwnNames'
      /\ Made \subseteq Made'
      /\ \A t \in Submitters :
           /\ client'[t].draft = client[t].draft /\ client'[t].stamp = client[t].stamp
           /\ client'[t].tries = client[t].tries
           /\ \/ client'[t] = client[t]
              \/ /\ client'[t].phase = "done" /\ client'[t].outcome = outcome
                 /\ tx = SignedSubmission(client[t].draft, client[t].stamp)
  BY <1>4, RespondFacts
<1>. HIDE DEF tx
<1>6. RequestInv'
  <2>. SUFFICES ASSUME NEW q \in requests'
                PROVE  /\ q.tx \in Made'
                       /\ q.try <= client'[q.from].tries
                       /\ client'[q.from].phase = "waiting" /\ client'[q.from].tries = q.try =>
                            q.tx = SignedSubmission(client'[q.from].draft, client'[q.from].stamp)
    BY DEF RequestInv
  <2>1. q \in requests /\ q.from \in Submitters
    BY <1>1 DEF SubInv, SubmissionTypeOK
  <2>. QED  BY <1>5, <2>1 DEF SubInv, RequestInv
<1>7. requests' \subseteq [from : Submitters, try : 1 .. MaxTries, tx : Signed]
  BY <1>1 DEF SubInv, SubmissionTypeOK
<1>8. CASE outcome # "ACCEPTED" /\ UNCHANGED <<mempool, cache>>
  <2>1. NodeSideInv'
    BY <1>1, <1>5, <1>8, NodeSideOn
  <2>2. AcceptedIsKept'
    <3>1. mempool' = mempool /\ dropped' = dropped /\ blocks' = blocks
      BY <1>1, <1>8
    <3>. QED  BY <1>5, <1>8, <3>1 DEF SubInv, AcceptedIsKept, ToSet
  <2>3. SubmissionTypeOK'
    BY <1>1, <1>5, <1>7, <1>8 DEF SubInv, SubmissionTypeOK, Client
  <2>. QED  BY <1>5, <1>6, <2>1, <2>2, <2>3 DEF SubInv
<1>9. CASE /\ CheckTx(tx) = "ACCEPTED" /\ tx \notin cache
           /\ mempool' = Append(mempool, tx) /\ cache' = cache \cup {tx}
  <2>0. /\ mempool \in Seq(Made) /\ mempool \in Seq(Signed) /\ IsInjective(mempool)
        /\ ToSet(mempool) \subseteq cache /\ cache \subseteq Signed
        /\ blocks.ledger \in Seq(EntryOf(Made))
    BY DEF SubInv, NodeSideInv, SubmissionTypeOK
  <2>1. /\ Len(mempool) \in Nat /\ DOMAIN mempool = 1 .. Len(mempool)
        /\ mempool' \in Seq(Made) /\ mempool' \in Seq(Signed)
        /\ DOMAIN mempool' = 1 .. Len(mempool) + 1
        /\ mempool'[Len(mempool) + 1] = tx
        /\ \A i \in DOMAIN mempool : mempool'[i] = mempool[i]
    BY <1>2, <1>9, <2>0, LenProperties, AppendProperties
  <2>2. ToSet(mempool)' = ToSet(mempool) \cup {tx}
    BY <2>1 DEF ToSet
  <2>3. IsInjective(mempool)'
    <3>1. tx \notin ToSet(mempool)
      BY <1>9, <2>0
    <3>. QED  BY <2>0, <2>1, <3>1 DEF IsInjective, ToSet
  <2>4. mempool' \in Seq(Made') /\ blocks.ledger \in Seq(EntryOf(Made'))
    <3>1. EntryOf(Made) \subseteq EntryOf(Made')
      BY <1>5 DEF EntryOf
    <3>. QED  BY <1>5, <2>0, <2>1, <3>1, SeqDef
  <2>5. blocks' = blocks /\ results' = results /\ dropped' = dropped
    BY <1>1
  <2>6. NodeSideInv'
    <3>1. \A q \in ToSet(mempool)' : Accepted(q, blocks.ledger)'
      BY <1>9, <2>2, <2>5 DEF SubInv, NodeSideInv, CheckTx, Accepted
    <3>2. blocks'.ledger \in Seq(EntryOf(Made)')
      BY <2>4, <2>5 DEF EntryOf
    <3>3. Unique(blocks.ledger)' /\ BlocksFailOnlyDuplicates'
      BY <2>5 DEF SubInv, NodeSideInv, BlocksFailOnlyDuplicates
    <3>. QED  BY <2>4, <3>1, <3>2, <3>3 DEF NodeSideInv
  <2>7. AcceptedIsKept'
    BY <1>5, <2>2, <2>5 DEF SubInv, AcceptedIsKept
  <2>8. SubmissionTypeOK'
    <3>1. ToSet(mempool)' \subseteq cache' /\ cache' \subseteq Signed
      BY <1>2, <1>9, <2>0, <2>2
    <3>. QED  BY <1>5, <1>7, <2>1, <2>3, <2>5, <3>1 DEF SubInv, SubmissionTypeOK, Client
  <2>. QED  BY <1>5, <1>6, <2>6, <2>7, <2>8 DEF SubInv
<1>. QED  BY <1>4, <1>8, <1>9

\* A restart loses what was in the mempool, and says so.
LEMMA RestartKeeps == SubInv /\ RestartMempool => SubInv'
<1>. SUFFICES ASSUME SubInv, RestartMempool PROVE SubInv'
  OBVIOUS
<1>1. /\ requests' = {} /\ mempool' = <<>> /\ cache' = {}
      /\ dropped' = dropped \cup ToSet(mempool)
      /\ client' = client /\ blocks' = blocks /\ results' = results
  BY DEF RestartMempool
<1>2. ToSet(<<>>) = {} /\ IsInjective(<<>>) /\ \A S : <<>> \in Seq(S)
  BY EmptySeq DEF ToSet, IsInjective
<1>3. SubmissionTypeOK'
  BY <1>1, <1>2 DEF SubInv, SubmissionTypeOK
<1>4. Made' = Made
  BY <1>1 DEF Made
<1>5. NodeSideInv'
  BY <1>1, <1>2, <1>4 DEF SubInv, NodeSideInv, Unique, BlocksFailOnlyDuplicates, EntryOf
<1>6. AcceptedIsKept'
  BY <1>1 DEF SubInv, AcceptedIsKept
<1>. QED  BY <1>1, <1>3, <1>5, <1>6 DEF SubInv, ClientInv, OwnNames, RequestInv

\* What was valid and is not any more has its contribution recorded.
LEMMA RefusedIsRecorded ==
  ASSUME NEW d \in Drafts, NEW m, NEW old, NEW mid \in Seq(EntryOf(Made)),
         Accepted(SignedSubmission(d, m), old), Grown(old, mid),
         ~Accepted(SignedSubmission(d, m), mid)
  PROVE  ContributionRef(d, m) \in RecordedRefs(mid)
<1> DEFINE tx == SignedSubmission(d, m)
<1>. HIDE DEF tx
<1>1. Refs(tx) \cap RecordedRefs(mid) # {}
  BY VerdictGrows DEF tx
<1>2. PICK i \in DOMAIN mid : Refs(tx) \cap Refs(mid[i].tx) # {}
  BY <1>1 DEF RecordedRefs
<1>3. mid[i].tx \in Made
  <2>1. mid[i] \in EntryOf(Made)
    BY LenProperties, ElementOfSeq
  <2>. QED  BY <2>1 DEF EntryOf
<1>4. PICK e \in Drafts, n \in 1 .. MaxTries : mid[i].tx = SignedSubmission(e, n)
  BY <1>3 DEF Made, Signed
<1>5. ContributionRef(d, m) \in Refs(mid[i].tx)
  BY <1>2, <1>4, SharedRefs DEF tx
<1>. QED  BY <1>5 DEF RecordedRefs

\* A block leaves each transaction of the mempool there, or its contribution in
\* the ledger.
LEMMA BlockKeeps == SubInv /\ DecideBlock => SubInv'
<1>. SUFFICES ASSUME SubInv, DecideBlock PROVE SubInv'
  OBVIOUS
<1> DEFINE p == PrepareProposal(mempool)
           old == blocks.ledger
           h == blocks.height + 1
           new == Execute(old, p, h)
           codes == Codes(p, old, h)
           rest == SubSeq(mempool, Len(p) + 1, Len(mempool))
           kept == Rechecked(rest, new)
           failed == {p[i] : i \in {j \in DOMAIN p : codes[j] # "ACCEPTED"}}
<1>1. /\ blocks' = [height |-> h, ledger |-> new]
      /\ results' = results \cup {codes[i] : i \in DOMAIN codes}
      /\ mempool' = kept
      /\ cache' = cache \ (failed \cup (ToSet(rest) \ ToSet(kept)))
      /\ client' = client /\ requests' = requests /\ dropped' = dropped
  BY DEF DecideBlock
<1>2. /\ mempool \in Seq(Made) /\ mempool \in Seq(Signed) /\ IsInjective(mempool)
      /\ ToSet(mempool) \subseteq cache /\ cache \subseteq Signed
      /\ old \in Seq(EntryOf(Made)) /\ Unique(old) /\ h \in Nat \ {0}
      /\ \A tx \in ToSet(mempool) : Accepted(tx, old)
  BY DEF SubInv, NodeSideInv, SubmissionTypeOK
<1>3. PICK k \in 0 .. Len(mempool) : p = SubSeq(mempool, 1, k)
  BY <1>2, ProposalIsPrefix
<1>. HIDE DEF p
<1>4. Len(mempool) \in Nat /\ DOMAIN mempool = 1 .. Len(mempool) /\ k \in Nat
  BY <1>2, LenProperties
<1>5. /\ p \in Seq(Made) /\ Len(p) = k /\ DOMAIN p = 1 .. k
      /\ \A i \in 1 .. k : p[i] = mempool[i]
  BY <1>2, <1>3, <1>4, SubSeqProperties, LenProperties
<1>6. /\ rest \in Seq(Made) /\ rest \in Seq(Signed)
      /\ DOMAIN rest = 1 .. Len(mempool) - k
      /\ \A i \in 1 .. Len(mempool) - k : rest[i] = mempool[k + i]
  <2>1. /\ rest = SubSeq(mempool, k + 1, Len(mempool))
        /\ k + 1 \in 1 .. Len(mempool) + 1 /\ Len(mempool) \in (k + 1) - 1 .. Len(mempool)
    BY <1>4, <1>5
  <2>. HIDE DEF rest
  <2>2. /\ rest \in Seq(Made) /\ rest \in Seq(Signed) /\ Len(rest) = Len(mempool) - k
        /\ \A i \in 1 .. Len(mempool) - (k + 1) + 1 : rest[i] = mempool[(k + 1) + i - 1]
    <3> DEFINE m == k + 1
               n == Len(mempool)
    <3>1. m \in 1 .. Len(mempool) + 1 /\ n \in m - 1 .. Len(mempool)
      BY <2>1
    <3>2. rest = SubSeq(mempool, m, n)
      BY <2>1
    <3>. HIDE DEF m, n
    <3>3. /\ rest \in Seq(Made) /\ Len(rest) = n - m + 1
          /\ \A i \in 1 .. n - m + 1 : rest[i] = mempool[m + i - 1]
      BY <1>2, <3>1, <3>2, SubSeqProperties
    <3>4. rest \in Seq(Signed)
      BY <1>2, <3>1, <3>2, SubSeqProperties
    <3>5. n - m + 1 = Len(mempool) - k
      BY <1>4 DEF m, n
    <3>. QED  BY <3>3, <3>4, <3>5 DEF m, n
  <2>3. DOMAIN rest = 1 .. Len(mempool) - k
    BY <2>2, LenProperties
  <2>4. ASSUME NEW i \in 1 .. Len(mempool) - k PROVE rest[i] = mempool[k + i]
    <3>1. i \in 1 .. Len(mempool) - (k + 1) + 1 /\ (k + 1) + i - 1 = k + i
      BY <1>4
    <3>. QED  BY <2>2, <3>1
  <2>. QED  BY <2>2, <2>3, <2>4
<1>. HIDE DEF rest, new, codes
<1>7. /\ new \in Seq(EntryOf(Made)) /\ Grown(old, new) /\ Unique(new)
      /\ \A i \in DOMAIN p :
           \/ Refs(p[i]) \subseteq RecordedRefs(new)
           \/ \E mid \in Seq(EntryOf(Made)) :
                Grown(old, mid) /\ Grown(mid, new) /\ ~Accepted(p[i], mid)
  BY <1>2, <1>5, BlockGrows DEF new
<1>8. /\ kept \in Seq(Made) /\ kept \in Seq(Signed)
      /\ ToSet(kept) = {tx \in ToSet(rest) : Accepted(tx, new)}
      /\ IsInjective(rest) => IsInjective(kept)
  BY <1>6, RecheckKeepsValid
<1>. HIDE DEF kept
<1>9. /\ ToSet(mempool) = ToSet(p) \cup ToSet(rest)
      /\ ToSet(p) \cap ToSet(rest) = {}
      /\ IsInjective(rest)
  <2>1. \A i \in 1 .. Len(mempool) :
          i \in 1 .. k \/ (i - k \in 1 .. Len(mempool) - k /\ i = k + (i - k))
    BY <1>4
  <2>2. \A i \in 1 .. Len(mempool) - k : k + i \in 1 .. Len(mempool) /\ k + i \notin 1 .. k
    BY <1>4
  <2>3. 1 .. k \subseteq 1 .. Len(mempool)
    BY <1>4
  <2>4. ToSet(mempool) = ToSet(p) \cup ToSet(rest)
    <3>1. ToSet(mempool) \subseteq ToSet(p) \cup ToSet(rest)
      <4>. SUFFICES ASSUME NEW i \in 1 .. Len(mempool) PROVE mempool[i] \in ToSet(p) \cup ToSet(rest)
        BY <1>4 DEF ToSet
      <4>1. CASE i \in 1 .. k
        BY <1>5, <4>1 DEF ToSet
      <4>2. CASE i - k \in 1 .. Len(mempool) - k /\ i = k + (i - k)
        <5>1. rest[i - k] = mempool[i]
          BY <1>6, <4>2
        <5>. QED  BY <1>6, <4>2, <5>1 DEF ToSet
      <4>. QED  BY <2>1, <4>1, <4>2
    <3>2. ToSet(p) \subseteq ToSet(mempool)
      BY <1>4, <1>5, <2>3 DEF ToSet
    <3>3. ToSet(rest) \subseteq ToSet(mempool)
      BY <1>4, <1>6, <2>2 DEF ToSet
    <3>. QED  BY <3>1, <3>2, <3>3
  <2>5. ToSet(p) \cap ToSet(rest) = {}
    <3>1. \A i \in 1 .. k : \A j \in 1 .. Len(mempool) - k : mempool[i] # mempool[k + j]
      BY <1>2, <1>4, <2>2, <2>3 DEF IsInjective
    <3>. SUFFICES ASSUME NEW tx \in ToSet(p), tx \in ToSet(rest) PROVE FALSE
      OBVIOUS
    <3>2. PICK i \in DOMAIN p : tx = p[i]
      BY DEF ToSet
    <3>3. PICK j \in DOMAIN rest : tx = rest[j]
      BY DEF ToSet
    <3>4. i \in 1 .. k /\ j \in 1 .. Len(mempool) - k
      BY <1>5, <1>6
    <3>5. mempool[i] = tx /\ mempool[k + j] = tx
      BY <1>5, <1>6, <3>2, <3>3, <3>4
    <3>. QED  BY <3>1, <3>4, <3>5
  <2>6. IsInjective(rest)
    <3>. SUFFICES ASSUME NEW i \in 1 .. Len(mempool) - k, NEW j \in 1 .. Len(mempool) - k,
                         rest[i] = rest[j]
                  PROVE  i = j
      BY <1>6 DEF IsInjective
    <3>1. k + i = k + j
      BY <1>2, <1>4, <1>6, <2>2 DEF IsInjective
    <3>. QED  BY <1>4, <3>1
  <2>. QED  BY <2>4, <2>5, <2>6
<1>10. \A i \in DOMAIN codes : codes[i] \in {"ACCEPTED", "DUPLICATE"}
  <2>. SUFFICES ASSUME NEW i \in DOMAIN p PROVE codes[i] \in {"ACCEPTED", "DUPLICATE"}
    BY DEF codes, Codes
  <2> DEFINE before == SubSeq(p, 1, i - 1)
             mid == Execute(old, before, h)
  <2>1. before \in Seq(Made)
    <3>1. i \in Nat /\ 1 \in Nat /\ i - 1 \in 0 .. Len(p)
      BY <1>4, <1>5
    <3>. QED  BY <1>5, <3>1, SubSeqProperties
  <2>. HIDE DEF before
  <2>2. Grown(old, mid)
    BY <1>2, <2>1, BlockGrows
  <2>3. codes[i] = Validate(p[i], mid)
    BY DEF codes, Codes, before
  <2>4. Accepted(p[i], old)
    BY <1>2, <1>9 DEF ToSet
  <2>. HIDE DEF mid
  <2>. QED  BY <2>2, <2>3, <2>4, VerdictGrows
<1>11. SubmissionTypeOK'
  <2>1. failed \subseteq ToSet(p)
    BY DEF ToSet
  <2>2. ToSet(kept) \subseteq cache'
    BY <1>1, <1>2, <1>8, <1>9, <2>1
  <2>3. EntryOf(Made) \subseteq [height : Nat \ {0}, index : Nat, tx : Signed]
    BY DEF EntryOf, Made
  <2>4. new \in Seq([height : Nat \ {0}, index : Nat, tx : Signed])
    <3> DEFINE S == EntryOf(Made)
               U == [height : Nat \ {0}, index : Nat, tx : Signed]
    <3>1. new \in Seq(S) /\ S \subseteq U
      BY <1>7, <2>3
    <3>. HIDE DEF S, U
    <3>2. new \in Seq(U)
      BY <3>1, SeqDef
    <3>. QED  BY <3>2 DEF U
  <2>5. blocks'.height \in Nat /\ blocks'.ledger = new
    BY <1>1, <1>2
  <2>6. IsInjective(kept)
    BY <1>8, <1>9
  <2>7. cache' \subseteq Signed
    BY <1>1, <1>2
  <2>. QED  BY <1>1, <1>8, <2>2, <2>4, <2>5, <2>6, <2>7 DEF SubInv, SubmissionTypeOK
<1>12. Made' = Made
  BY <1>1 DEF Made
<1>13. NodeSideInv'
  <2>1. blocks'.ledger = new
    BY <1>1
  <2>2. \A tx \in ToSet(mempool)' : Accepted(tx, blocks.ledger)'
    BY <1>1, <1>8, <2>1 DEF Accepted
  <2>3. BlocksFailOnlyDuplicates'
    BY <1>1, <1>10 DEF SubInv, NodeSideInv, BlocksFailOnlyDuplicates
  <2>4. mempool' \in Seq(Made') /\ blocks'.ledger \in Seq(EntryOf(Made)')
    BY <1>1, <1>7, <1>8, <1>12, <2>1 DEF EntryOf
  <2>5. Unique(blocks.ledger)'
    BY <1>7, <2>1 DEF Unique
  <2>. QED  BY <2>2, <2>3, <2>4, <2>5 DEF NodeSideInv
<1>14. AcceptedIsKept'
  <2>. SUFFICES ASSUME NEW s \in Submitters, client[s].phase = "done",
                       client[s].outcome = "ACCEPTED"
                PROVE  \/ SignedSubmission(client[s].draft, client[s].stamp)
                            \in ToSet(kept) \cup dropped
                       \/ ContributionRef(client[s].draft, client[s].stamp) \in RecordedRefs(new)
    BY <1>1 DEF AcceptedIsKept
  <2> DEFINE tx == SignedSubmission(client[s].draft, client[s].stamp)
             ref == ContributionRef(client[s].draft, client[s].stamp)
  <2>1. \/ tx \in ToSet(mempool) \/ tx \in dropped \/ ref \in RecordedRefs(old)
    BY DEF SubInv, AcceptedIsKept
  <2>2. client[s].draft \in Drafts
    BY DEF SubInv, ClientInv
  <2>3. ref \in Refs(tx)
    BY <2>2, SignedRefs
  <2>4. CASE ref \in RecordedRefs(old)
    BY <1>7, <2>4 DEF Grown
  <2>5. ASSUME NEW mid \in Seq(EntryOf(Made)), Grown(old, mid), Grown(mid, new),
               tx \in ToSet(mempool), ~Accepted(tx, mid)
        PROVE  ref \in RecordedRefs(new)
    <3>1. Accepted(tx, old)
      BY <1>2, <2>5
    <3>2. ref \in RecordedRefs(mid)
      BY <2>2, <2>5, <3>1, RefusedIsRecorded
    <3>. QED  BY <2>5, <3>2 DEF Grown
  <2>. HIDE DEF tx, ref
  <2>6. CASE tx \in ToSet(p)
    <3>1. PICK i \in DOMAIN p : tx = p[i]
      BY <2>6 DEF ToSet
    <3>2. CASE Refs(tx) \subseteq RecordedRefs(new)
      BY <2>3, <3>2 DEF ref
    <3>3. ASSUME NEW mid \in Seq(EntryOf(Made)),
                 Grown(old, mid), Grown(mid, new), ~Accepted(tx, mid)
          PROVE  ref \in RecordedRefs(new)
      BY <1>9, <2>5, <2>6, <3>3
    <3>. QED  BY <1>7, <3>1, <3>2, <3>3 DEF ref
  <2>7. CASE tx \in ToSet(rest)
    <3>1. CASE Accepted(tx, new)
      BY <1>8, <2>7, <3>1 DEF tx
    <3>2. CASE ~Accepted(tx, new)
      <4>1. Grown(new, new) /\ tx \in ToSet(mempool)
        BY <1>9, <2>7 DEF Grown
      <4>2. ref \in RecordedRefs(new)
        BY <1>7, <2>5, <3>2, <4>1
      <4>. QED  BY <4>2 DEF ref
    <3>. QED  BY <3>1, <3>2
  <2>8. CASE tx \in dropped
    BY <2>8 DEF tx
  <2>. QED  BY <1>9, <2>1, <2>4, <2>6, <2>7, <2>8 DEF ref
<1>15. (\A s \in Submitters : ClientInv(s)') /\ OwnNames' /\ RequestInv'
  BY <1>1, <1>12 DEF SubInv, ClientInv, OwnNames, RequestInv
<1>. QED  BY <1>11, <1>13, <1>14, <1>15 DEF SubInv

\* Every step of a client, the node or CometBFT keeps the invariant.
LEMMA SubmissionSteps == SubInv /\ [SubmissionNext]_submissionVars => SubInv'
<1>. SUFFICES ASSUME SubInv, [SubmissionNext]_submissionVars PROVE SubInv'
  OBVIOUS
<1>1. ASSUME NEW s \in Submitters, Submit(s) PROVE SubInv'
  BY <1>1, SubmitKeeps
<1>2. ASSUME NEW s \in Submitters, Resubmit(s) PROVE SubInv'
  BY <1>2, ResubmitKeeps
<1>3. ASSUME NEW s \in Submitters, TimeOut(s) PROVE SubInv'
  BY <1>3, TimeOutKeeps
<1>4. ASSUME NEW r \in requests, ProcessBroadcast(r) PROVE SubInv'
  BY <1>4, BroadcastKeeps
<1>5. CASE DecideBlock
  BY <1>5, BlockKeeps
<1>6. CASE RestartMempool
  BY <1>6, RestartKeeps
<1>7. CASE UNCHANGED submissionVars
  <2>1. /\ client' = client /\ requests' = requests /\ mempool' = mempool /\ cache' = cache
        /\ blocks' = blocks /\ results' = results /\ dropped' = dropped
    BY <1>7 DEF submissionVars
  <2>2. Made' = Made
    BY <2>1 DEF Made
  <2>3. SubmissionTypeOK' /\ AcceptedIsKept'
    BY <2>1 DEF SubInv, SubmissionTypeOK, AcceptedIsKept
  <2>4. (\A s \in Submitters : ClientInv(s)') /\ OwnNames' /\ RequestInv'
    BY <2>1, <2>2 DEF SubInv, ClientInv, OwnNames, RequestInv
  <2>5. NodeSideInv'
    BY <2>1, <2>2 DEF SubInv, NodeSideInv, BlocksFailOnlyDuplicates, EntryOf
  <2>. QED  BY <2>3, <2>4, <2>5 DEF SubInv
<1>. QED  BY <1>1, <1>2, <1>3, <1>4, <1>5, <1>6, <1>7 DEF SubmissionNext

\* Clients hear of their own calls, and the mempool holds what the committed
\* ledger accepts.
THEOREM SubmissionInvariance == SubmissionSpec => []SubInv
BY SubmissionStarts, SubmissionSteps, PTL DEF SubmissionSpec

\* The mempool holds signed transactions its cache knows, none of them twice.
THEOREM SubmissionTypeCorrect == SubmissionSpec => []SubmissionTypeOK
<1>1. SubInv => SubmissionTypeOK
  BY DEF SubInv
<1>. QED  BY <1>1, SubmissionInvariance, PTL

\* What CheckTx let through fails in its block as a duplicate only.
THEOREM OnlyDuplicatesFail == SubmissionSpec => []BlocksFailOnlyDuplicates
<1>1. SubInv => BlocksFailOnlyDuplicates
  BY DEF SubInv, NodeSideInv
<1>. QED  BY <1>1, SubmissionInvariance, PTL

\* What a caller of the library repeats is recorded once, and what was accepted
\* is in the mempool or recorded unless a restart lost it.
THEOREM SubmissionsCount == SubmissionSpec => []SubmissionsCountOnce
<1>1. SubInv => RecordedOnce
  <2>. SUFFICES ASSUME SubInv, NEW s \in Submitters \ CommandLine,
                       NEW i \in DOMAIN blocks.ledger, NEW j \in DOMAIN blocks.ledger,
                       NEW m \in 1 .. MaxTries, NEW n \in 1 .. MaxTries,
                       ContributionRef(client[s].draft, m) \in Refs(blocks.ledger[i].tx),
                       ContributionRef(client[s].draft, n) \in Refs(blocks.ledger[j].tx)
                PROVE  i = j
    BY DEF RecordedOnce
  <2>1. ASSUME NEW l \in DOMAIN blocks.ledger, NEW k \in 1 .. MaxTries,
               ContributionRef(client[s].draft, k) \in Refs(blocks.ledger[l].tx)
        PROVE  k = 1
    <3>1. blocks.ledger[l].tx \in Made
      <4>1. blocks.ledger[l] \in EntryOf(Made)
        BY LenProperties, ElementOfSeq DEF SubInv, NodeSideInv
      <4>. QED  BY <4>1 DEF EntryOf
    <3>2. PICK t \in Submitters, d \in Drafts : \E a \in 1 .. client[t].stamp :
            blocks.ledger[l].tx = SignedSubmission(d, a) /\ d.name = client[t].draft.name
      BY <3>1 DEF Made
    <3>3. PICK a \in 1 .. client[t].stamp :
            blocks.ledger[l].tx = SignedSubmission(d, a) /\ d.name = client[t].draft.name
      BY <3>2
    <3>4. d.name = client[s].draft.name /\ a = k
      <4> DEFINE ref == ContributionRef(client[s].draft, k)
      <4>1. ref.name = client[s].draft.name /\ ref.stamp = k
        BY DEF ContributionRef
      <4>2. ref \in Refs(SignedSubmission(d, a))
        BY <2>1, <3>3
      <4>. HIDE DEF ref
      <4>. QED  BY <4>1, <4>2, SignedRefs
    <3>5. client[t].stamp \in Nat /\ client[t].phase \in {"idle", "waiting", "done"}
      BY SubmissionBounds DEF SubInv, SubmissionTypeOK
    <3>6. client[t].stamp # 0
      BY <3>3, <3>5
    <3>7. client[t].draft \in Drafts
      BY <3>6 DEF SubInv, ClientInv
    <3>8. s = t
      BY <3>3, <3>4, <3>7 DEF SubInv, OwnNames
    <3>9. client[s].stamp <= 1
      BY DEF SubInv, ClientInv
    <3>. QED  BY <3>3, <3>4, <3>5, <3>8, <3>9
  <2>2. m = 1 /\ n = 1
    BY <2>1
  <2>3. Refs(blocks.ledger[i].tx) \cap Refs(blocks.ledger[j].tx) # {}
    BY <2>2
  <2>. QED  BY <2>3 DEF SubInv, NodeSideInv, Unique
<1>2. SubInv => AcceptedIsKept
  BY DEF SubInv
<1>3. SubInv => SubmissionsCountOnce
  BY <1>1, <1>2 DEF SubmissionsCountOnce
<1>. QED  BY <1>3, SubmissionInvariance, PTL
=============================================================================
