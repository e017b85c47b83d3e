------------------------ MODULE ArtifactLedgerProofs ------------------------
(***************************************************************************)
(* Facts about ledgers that the proofs of the state machines cite: what    *)
(* appending a valid transaction preserves, what a replayable ledger       *)
(* guarantees to its readers, what saving a snapshot leaves on disk, and   *)
(* what the execution of a block runs through.                             *)
(***************************************************************************)
EXTENDS ArtifactLedger, TLAPS, SequenceTheorems, WellFoundedInduction

\* The prefixes of a ledger survive an append, which adds the ledger itself.
LEMMA PrefixOfAppend ==
  ASSUME NEW S, NEW seq \in Seq(S), NEW e \in S, NEW n \in 0 .. Len(seq)
  PROVE  /\ Prefix(Append(seq, e), n) = Prefix(seq, n)
         /\ Prefix(Append(seq, e), Len(seq)) = seq
BY SubSeqProperties, AppendProperties DEF Prefix

\* Appending a transaction the validator accepts to a ledger that reloads gives
\* a ledger that reloads: finalize_block never builds what __init__ rejects.
LEMMA ReplayableAppend ==
  ASSUME NEW ledger \in Ledger, NEW e \in Entry,
         Replayable(ledger), Accepted(e.tx, ledger), CanAppend(ledger, e)
  PROVE  Replayable(Append(ledger, e))
<1> DEFINE new == Append(ledger, e)
<1>1. /\ Len(new) = Len(ledger) + 1
      /\ new[Len(ledger) + 1] = e
      /\ \A i \in 1 .. Len(ledger) : new[i] = ledger[i]
      /\ DOMAIN new = 1 .. Len(ledger) + 1
  BY AppendProperties DEF Ledger
<1>2. SUFFICES ASSUME NEW i \in 1 .. Len(ledger) + 1
               PROVE  /\ Accepted(new[i].tx, Prefix(new, i - 1))
                      /\ CanAppend(Prefix(new, i - 1), new[i])
  BY <1>1 DEF Replayable
<1>3. CASE i = Len(ledger) + 1
  <2>1. Prefix(new, i - 1) = ledger
    BY <1>3, PrefixOfAppend, LenProperties DEF Ledger
  <2>. QED  BY <2>1, <1>1, <1>3
<1>4. CASE i \in 1 .. Len(ledger)
  <2>1. Prefix(new, i - 1) = Prefix(ledger, i - 1)
    BY <1>4, PrefixOfAppend, LenProperties DEF Ledger
  <2>2. i \in DOMAIN ledger
    BY <1>4, LenProperties DEF Ledger
  <2>. QED  BY <2>1, <2>2, <1>1, <1>4 DEF Replayable
<1>. QED  BY <1>3, <1>4, LenProperties DEF Ledger

\* A fresh database reloads.
LEMMA ReplayableEmpty == Replayable(<<>>) /\ <<>> \in Ledger
BY EmptySeq DEF Replayable, Ledger

\* A sequence is its prefix followed by the rest.
LEMMA SplitSequence ==
  ASSUME NEW S, NEW seq \in Seq(S), NEW k \in 0 .. Len(seq)
  PROVE  SubSeq(seq, 1, k) \o SubSeq(seq, k + 1, Len(seq)) = seq
<1>1. Len(seq) \in Nat
  BY LenProperties
<1>2. /\ 1 \in 1 .. Len(seq) + 1
      /\ k \in (1 - 1) .. Len(seq)
      /\ Len(seq) \in k .. Len(seq)
  BY <1>1
<1>3. SubSeq(seq, 1, k) \o SubSeq(seq, k + 1, Len(seq)) = SubSeq(seq, 1, Len(seq))
  BY <1>2, ConcatAdjacentSubSeq, Zenon
<1>. QED  BY <1>3, SubSeqFull, Zenon

\* What save writes when it accepts the snapshot is the snapshot.
LEMMA SavedIsSnapshot ==
  ASSUME NEW old \in Snapshot, NEW new \in Snapshot, SaveAllowed(old, new)
  PROVE  Saved(old, new) = new
<1> DEFINE k == Len(old.ledger)
<1>1. /\ new.ledger \in Seq(Entry)
      /\ k \in 0 .. Len(new.ledger)
      /\ Prefix(new.ledger, k) = old.ledger
  BY LenProperties DEF SaveAllowed, Snapshot, Ledger
<1>2. SubSeq(new.ledger, 1, k) \o SubSeq(new.ledger, k + 1, Len(new.ledger))
        = new.ledger
  BY <1>1, SplitSequence
<1>3. Saved(old, new).ledger = new.ledger
  BY <1>1, <1>2 DEF Saved, NewEntries, Prefix
<1>. QED  BY <1>3 DEF Saved, Snapshot

\* In a ledger that reloads no artifact is recorded by two entries.
LEMMA ReplayableUnique ==
  ASSUME NEW ledger \in Ledger, Replayable(ledger),
         NEW i \in DOMAIN ledger, NEW j \in DOMAIN ledger, i # j
  PROVE  Refs(ledger[i].tx) \cap Refs(ledger[j].tx) = {}
<1>1. ASSUME NEW m \in DOMAIN ledger, NEW n \in DOMAIN ledger, m < n
      PROVE  Refs(ledger[m].tx) \cap Refs(ledger[n].tx) = {}
  <2> DEFINE before == Prefix(ledger, n - 1)
  <2>1. /\ m \in DOMAIN before
        /\ before[m] = ledger[m]
    BY <1>1, LenProperties, SubSeqProperties DEF Prefix, Ledger
  <2>2. Refs(ledger[m].tx) \subseteq RecordedRefs(before)
    BY <2>1 DEF RecordedRefs
  <2>3. Refs(ledger[n].tx) \cap RecordedRefs(before) = {}
    BY <1>1 DEF Replayable, CanAppend
  <2>. QED  BY <2>2, <2>3
<1>2. i \in Nat /\ j \in Nat
  BY LenProperties DEF Ledger
<1>3. i < j \/ j < i
  BY <1>2
<1>. QED  BY <1>1, <1>3

\* In a ledger that reloads every relation connects contributions recorded by
\* the same entry or an earlier one.
LEMMA ReplayableResolves ==
  ASSUME NEW ledger \in Ledger, Replayable(ledger), NEW i \in DOMAIN ledger
  PROVE  Endpoints(ledger[i].tx) \subseteq RecordedContributions(Prefix(ledger, i))
<1> DEFINE tx     == ledger[i].tx
           before == Prefix(ledger, i - 1)
           upto   == Prefix(ledger, i)
<1>1. /\ Len(ledger) \in Nat
      /\ i \in 1 .. Len(ledger)
      /\ ledger \in Seq(Entry)
  BY LenProperties DEF Ledger
<1>2. /\ DOMAIN before = 1 .. i - 1
      /\ \A k \in 1 .. i - 1 : before[k] = ledger[k]
  BY <1>1, SubSeqProperties DEF Prefix
<1>3. /\ DOMAIN upto = 1 .. i
      /\ \A k \in 1 .. i : upto[k] = ledger[k]
  BY <1>1, SubSeqProperties DEF Prefix
<1>4. RecordedContributions(before) \subseteq RecordedContributions(upto)
  <2>1. SUFFICES ASSUME NEW k \in DOMAIN before
                 PROVE  k \in DOMAIN upto /\ before[k] = upto[k]
    BY DEF RecordedContributions
  <2>. QED  BY <1>1, <1>2, <1>3
<1>5. Contributions(tx) \subseteq RecordedContributions(upto)
  <2>1. i \in DOMAIN upto /\ upto[i] = ledger[i]
    BY <1>1, <1>3
  <2>. QED  BY <2>1 DEF RecordedContributions
<1>6. Endpoints(tx) \subseteq Contributions(tx) \cup RecordedContributions(before)
  BY DEF Replayable, Accepted, Validate, MissingReference
<1>. QED  BY <1>4, <1>5, <1>6

-----------------------------------------------------------------------------
(* Induction over the numbers, with a set for the induction hypothesis.    *)

Less == {pair \in Nat \X Nat : pair[1] < pair[2]}

\* Numbers do not descend for ever.
LEMMA LessIsWellFounded == IsWellFoundedOn(Less, Nat)
BY NatLessThanWellFounded DEF OpToRel, Less

\* A set of numbers that holds 0, and each successor, holds them all.
LEMMA Induction ==
  ASSUME NEW T \in SUBSET Nat, 0 \in T, \A k \in T : k + 1 \in T
  PROVE  T = Nat
<1>1. SUFFICES ASSUME Nat \ T # {} PROVE FALSE
  OBVIOUS
<1>2. PICK k \in Nat \ T : \A j \in Nat \ T : ~(<<j, k>> \in Less)
  BY <1>1, WFMin, LessIsWellFounded
<1>3. k # 0 /\ k - 1 \in Nat /\ <<k - 1, k>> \in Less
  BY <1>2 DEF Less
<1>4. k - 1 \in T
  BY <1>2, <1>3
<1>. QED  BY <1>2, <1>3, <1>4

-----------------------------------------------------------------------------
(* The execution of a block.                                               *)

\* Entries of some transactions, be they all or those submitted.
EntryOf(T) == [height : Nat \ {0}, index : Nat, tx : T]

\* What one transaction makes of a ledger.
ExecuteOne(ledger, tx, height, index) ==
  IF Accepted(tx, ledger) THEN Append(ledger, [height |-> height, index |-> index, tx |-> tx])
                          ELSE ledger

\* f[k] is the ledger after the first k transactions of a block, for k up to n.
Runs(f, ledger, block, height, n) ==
  /\ f = [k \in 0 .. n |-> f[k]]
  /\ f[0] = ledger
  /\ \A k \in 1 .. n : f[k] = ExecuteOne(f[k - 1], block[k], height, k - 1)

\* Execution stays a ledger.
LEMMA ExecuteOneType ==
  ASSUME NEW T, NEW ledger \in Seq(EntryOf(T)), NEW tx \in T, NEW height \in Nat \ {0},
         NEW index \in Nat
  PROVE  ExecuteOne(ledger, tx, height, index) \in Seq(EntryOf(T))
<1>1. [height |-> height, index |-> index, tx |-> tx] \in EntryOf(T)
  BY DEF EntryOf
<1>. QED  BY <1>1, AppendProperties DEF ExecuteOne

LEMMA RunsType ==
  ASSUME NEW T, NEW ledger \in Seq(EntryOf(T)), NEW block \in Seq(T), NEW height \in Nat \ {0},
         NEW n \in Nat, n <= Len(block), NEW f, Runs(f, ledger, block, height, n)
  PROVE  \A k \in 0 .. n : f[k] \in Seq(EntryOf(T))
<1> DEFINE S == {k \in Nat : k \in 0 .. n => f[k] \in Seq(EntryOf(T))}
<1>1. 0 \in S
  BY DEF Runs
<1>2. ASSUME NEW k \in S PROVE k + 1 \in S
  <2>. SUFFICES ASSUME k + 1 \in 0 .. n PROVE f[k + 1] \in Seq(EntryOf(T))
    OBVIOUS
  <2>1. k \in Nat /\ k + 1 \in 1 .. n /\ (k + 1) - 1 = k /\ f[k] \in Seq(EntryOf(T))
    OBVIOUS
  <2>2. k + 1 \in 1 .. Len(block) /\ block[k + 1] \in T
    BY <2>1, LenProperties, ElementOfSeq
  <2>3. f[k + 1] = ExecuteOne(f[k], block[k + 1], height, k)
    BY <2>1 DEF Runs
  <2>. QED  BY <2>1, <2>2, <2>3, ExecuteOneType
<1>3. S = Nat
  <2>. HIDE DEF S
  <2>. QED  BY <1>1, <1>2, Induction DEF S
<1>. QED  BY <1>3

\* One more transaction can always be executed.
LEMMA RunsOn ==
  ASSUME NEW ledger, NEW block, NEW height, NEW n \in Nat,
         NEW f, Runs(f, ledger, block, height, n)
  PROVE  LET next == ExecuteOne(f[n], block[n + 1], height, n)
         IN  Runs([k \in 0 .. n + 1 |-> IF k \in 0 .. n THEN f[k] ELSE next],
                  ledger, block, height, n + 1)
<1> DEFINE next == ExecuteOne(f[n], block[n + 1], height, n)
           g == [k \in 0 .. n + 1 |-> IF k \in 0 .. n THEN f[k] ELSE next]
<1>3. g = [k \in 0 .. n + 1 |-> g[k]]
  <2>. HIDE DEF next
  <2>. QED  OBVIOUS
<1>4. g[0] = ledger
  BY DEF Runs
<1>5. ASSUME NEW k \in 1 .. n + 1 PROVE g[k] = ExecuteOne(g[k - 1], block[k], height, k - 1)
  <2>1. CASE k \in 1 .. n
    <3>1. k \in 0 .. n /\ k - 1 \in 0 .. n /\ k - 1 \in 0 .. n + 1 /\ k \in 0 .. n + 1
      BY <2>1
    <3>2. g[k] = f[k] /\ g[k - 1] = f[k - 1]
      BY <3>1
    <3>. QED  BY <2>1, <3>2 DEF Runs
  <2>2. CASE k = n + 1
    <3>1. k - 1 = n /\ n \in 0 .. n + 1 /\ k \in 0 .. n + 1 /\ k \notin 0 .. n
      BY <2>2
    <3>2. g[k] = next /\ g[k - 1] = f[n]
      BY <3>1
    <3>. QED  BY <2>2, <3>1, <3>2
  <2>. QED  BY <2>1, <2>2
<1>. QED  BY <1>3, <1>4, <1>5 DEF Runs

\* Every block can be executed on every ledger.
LEMMA RunsThrough ==
  ASSUME NEW ledger, NEW block, NEW height, Len(block) \in Nat
  PROVE  \E f : Runs(f, ledger, block, height, Len(block))
<1> DEFINE T == {n \in Nat : n <= Len(block) => \E f : Runs(f, ledger, block, height, n)}
<1>1. 0 \in T
  <2>1. Runs([k \in 0 .. 0 |-> ledger], ledger, block, height, 0)
    BY DEF Runs
  <2>. QED  BY <2>1
<1>2. ASSUME NEW n \in T PROVE n + 1 \in T
  <2>1. n \in Nat /\ Len(block) \in Nat
    OBVIOUS
  <2>2. SUFFICES ASSUME n + 1 <= Len(block) PROVE \E f : Runs(f, ledger, block, height, n + 1)
    BY <2>1
  <2>3. n < Len(block) /\ \E f : Runs(f, ledger, block, height, n)
    BY <1>2, <2>1, <2>2
  <2>. QED  BY <2>1, <2>3, RunsOn
<1>3. T = Nat
  <2>. HIDE DEF T
  <2>. QED  BY <1>1, <1>2, Induction DEF T
<1>. QED  BY <1>3

\* What finalize_block runs through is the execution of the block.
LEMMA ExecuteRuns ==
  ASSUME NEW ledger, NEW block, Len(block) \in Nat, NEW height,
         NEW f, Runs(f, ledger, block, height, Len(block))
  PROVE  Execute(ledger, block, height) = f[Len(block)]
<1> DEFINE After(g) ==
      [k \in 0 .. Len(block) |->
         IF k = 0 THEN ledger
         ELSE IF Accepted(block[k], g[k - 1])
              THEN Append(g[k - 1], [height |-> height, index |-> k - 1, tx |-> block[k]])
              ELSE g[k - 1]]
      after == CHOOSE g : g = After(g)
<1>0. Len(block) \in Nat
  OBVIOUS
<1>1. f = After(f)
  <2>1. ASSUME NEW k \in 0 .. Len(block) PROVE f[k] = After(f)[k]
    <3>1. CASE k = 0
      BY <1>0, <3>1 DEF Runs
    <3>2. CASE k \in 1 .. Len(block)
      <4>1. f[k] = ExecuteOne(f[k - 1], block[k], height, k - 1)
        BY <3>2 DEF Runs
      <4>. QED  BY <1>0, <3>2, <4>1 DEF ExecuteOne
    <3>. QED  BY <1>0, <3>1, <3>2
  <2>2. f = [k \in 0 .. Len(block) |-> f[k]]
    BY DEF Runs
  <2>. QED  BY <2>1, <2>2
<1>2. after = After(after)
  <2>. HIDE DEF After
  <2>1. \E g : g = After(g)
    BY <1>1
  <2>. QED  BY <2>1, Zenon
<1>3. Execute(ledger, block, height) = after[Len(block)]
  BY DEF Execute
<1> DEFINE T == {k \in Nat : k \in 0 .. Len(block) => after[k] = f[k]}
<1>. HIDE DEF after
<1>4. 0 \in T
  <2>1. after[0] = After(after)[0] /\ f[0] = After(f)[0]
    BY <1>1, <1>2
  <2>2. After(after)[0] = ledger /\ After(f)[0] = ledger
    BY <1>0
  <2>. QED  BY <2>1, <2>2
<1>5. ASSUME NEW k \in T PROVE k + 1 \in T
  <2>. SUFFICES ASSUME k + 1 \in 0 .. Len(block) PROVE after[k + 1] = f[k + 1]
    OBVIOUS
  <2>1. k \in Nat /\ k + 1 # 0 /\ (k + 1) - 1 = k /\ after[k] = f[k]
    BY <1>0
  <2>2. After(after)[k + 1] = After(f)[k + 1]
    BY <2>1
  <2>. HIDE DEF After
  <2>. QED  BY <1>1, <1>2, <2>2
<1>6. T = Nat
  <2>. HIDE DEF T
  <2>. QED  BY <1>4, <1>5, Induction DEF T
<1>7. after[Len(block)] = f[Len(block)]
  BY <1>0, <1>6
<1>. QED  BY <1>3, <1>7
=============================================================================
