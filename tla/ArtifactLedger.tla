--------------------------- MODULE ArtifactLedger ---------------------------
(***************************************************************************)
(* Transactions, the transaction validator and the append-only artifact    *)
(* ledger of a Discovery Net node, as pure operators.  The state machines  *)
(* of the other modules are built from them.                               *)
(*                                                                         *)
(* A transaction is what decode_transaction makes of the submitted bytes:  *)
(* its encoded size, whether it decodes, its chain, whether every          *)
(* signature verifies, and its artifacts in envelope order.  An artifact   *)
(* is a contribution or a relation between two contributions, named by     *)
(* its content address.                                                    *)
(***************************************************************************)
EXTENDS Integers, Sequences

CONSTANTS
  Ref,                  \* content addresses of artifacts (CIDs)
  Chain,                \* chain identifiers a transaction may carry
  ExpectedChain,        \* TransactionValidator.expected_chain_id
  Transaction,          \* the transactions anybody may submit
  MaxTransactionBytes,  \* TRANSACTION_LIMITS: encoded size
  MaxArtifacts          \* TRANSACTION_LIMITS: envelopes of one transaction

Artifact == [ref : Ref, kind : {"contribution", "relation"}, ends : SUBSET Ref]

ASSUME LimitsAssumption ==
  /\ ExpectedChain \in Chain
  /\ MaxTransactionBytes \in Nat
  /\ MaxArtifacts \in Nat

ASSUME TransactionAssumption ==
  Transaction \subseteq [bytes     : Nat,
                         decodable : BOOLEAN,
                         chain     : Chain,
                         authentic : BOOLEAN,
                         artifacts : Seq(Artifact)]

-----------------------------------------------------------------------------
(* Ledger entries and the lookups LocalArtifactLedger answers.             *)

\* ArtifactLedgerEntry: a transaction at its consensus-assigned position.
Entry == [height : Nat \ {0}, index : Nat, tx : Transaction]

\* LocalArtifactLedger._entries.
Ledger == Seq(Entry)

Refs(tx) == {tx.artifacts[i].ref : i \in DOMAIN tx.artifacts}

Contributions(tx) ==
  {tx.artifacts[i].ref :
     i \in {j \in DOMAIN tx.artifacts : tx.artifacts[j].kind = "contribution"}}

\* Endpoints named by the relations of a transaction.
Endpoints(tx) ==
  UNION {tx.artifacts[i].ends :
           i \in {j \in DOMAIN tx.artifacts : tx.artifacts[j].kind = "relation"}}

\* Mutant: the lookup misses the entry appended last.
RecordedRefsStale(ledger) ==
  UNION {Refs(ledger[i].tx) : i \in DOMAIN ledger \ {Len(ledger)}}

RecordedRefs(ledger) == UNION {Refs(ledger[i].tx) : i \in DOMAIN ledger}

RecordedContributions(ledger) ==
  UNION {Contributions(ledger[i].tx) : i \in DOMAIN ledger}

\* Two envelopes of one transaction never share a reference.
DistinctRefs(tx) ==
  \A i, j \in DOMAIN tx.artifacts :
     tx.artifacts[i].ref = tx.artifacts[j].ref => i = j

\* Tuple comparison of (height, transaction_index).
Precedes(e, f) ==
  \/ e.height < f.height
  \/ e.height = f.height /\ e.index < f.index

-----------------------------------------------------------------------------
(* TransactionValidator.validate: the first check that fails decides.      *)

Duplicate(tx, ledger) ==
  \/ ~DistinctRefs(tx)
  \/ Refs(tx) \cap RecordedRefs(ledger) # {}

MissingReference(tx, ledger) ==
  ~(Endpoints(tx) \subseteq Contributions(tx) \cup RecordedContributions(ledger))

Validate(tx, ledger) ==
  IF tx.bytes > MaxTransactionBytes           THEN "TRANSACTION_TOO_LARGE"
  ELSE IF ~tx.decodable                       THEN "INVALID_TRANSACTION"
  ELSE IF Len(tx.artifacts) > MaxArtifacts    THEN "TOO_MANY_ARTIFACTS"
  ELSE IF tx.chain # ExpectedChain            THEN "WRONG_CHAIN"
  ELSE IF ~tx.authentic                       THEN "INVALID_SIGNATURE"
  ELSE IF Duplicate(tx, ledger)               THEN "DUPLICATE"
  ELSE IF MissingReference(tx, ledger)        THEN "MISSING_REFERENCE"
  ELSE "ACCEPTED"

Accepted(tx, ledger) == Validate(tx, ledger) = "ACCEPTED"

-----------------------------------------------------------------------------
(* LocalArtifactLedger.append_transaction and what is rebuilt from disk.   *)

\* append_transaction neither answers DUPLICATE nor raises.
CanAppend(ledger, entry) ==
  /\ DistinctRefs(entry.tx)
  /\ Refs(entry.tx) \cap RecordedRefs(ledger) = {}
  /\ ledger # <<>> => Precedes(ledger[Len(ledger)], entry)

\* Mutant: transactions are judged by the ledger before the block.
ExecuteIndependently(ledger, block, height) ==
  LET after[k \in 0 .. Len(block)] ==
        IF k = 0 THEN ledger
        ELSE IF Accepted(block[k], ledger)
             THEN Append(after[k - 1],
                         [height |-> height, index |-> k - 1, tx |-> block[k]])
             ELSE after[k - 1]
  IN  after[Len(block)]

\* The ledger after a block: its valid transactions, each judged by what
\* precedes it, appended at its position.
Execute(ledger, block, height) ==
  LET after[k \in 0 .. Len(block)] ==
        IF k = 0 THEN ledger
        ELSE IF Accepted(block[k], after[k - 1])
             THEN Append(after[k - 1],
                         [height |-> height, index |-> k - 1, tx |-> block[k]])
             ELSE after[k - 1]
  IN  after[Len(block)]

\* The state hash chains position and transaction bytes of every entry; the
\* digest is taken as free of collisions.
StateHash(ledger) ==
  [i \in DOMAIN ledger |->
     <<ledger[i].height, ledger[i].index, ledger[i].tx>>]

\* ArtifactLedgerSnapshot, and the value a fresh database stands for.
Snapshot == [height : Nat, ledger : Ledger]

EmptySnapshot == [height |-> 0, ledger |-> <<>>]

\* ArtifactLedgerSnapshot.__post_init__ accepts the pair.
WithinHeight(snapshot) ==
  \A i \in DOMAIN snapshot.ledger : snapshot.ledger[i].height <= snapshot.height

Prefix(ledger, n) == SubSeq(ledger, 1, n)

\* ledger_from_snapshot raises for no entry.
Replayable(ledger) ==
  \A i \in DOMAIN ledger :
     /\ Accepted(ledger[i].tx, Prefix(ledger, i - 1))
     /\ CanAppend(Prefix(ledger, i - 1), ledger[i])

-----------------------------------------------------------------------------
(* SQLiteArtifactLedgerStore.save.                                         *)

\* _new_entries accepts the snapshot as an extension of what is persisted.
SaveAllowed(persisted, snapshot) ==
  LET old == Len(persisted.ledger)
  IN  /\ WithinHeight(snapshot)
      /\ snapshot.height >= persisted.height
      /\ Len(snapshot.ledger) >= old
      /\ Prefix(snapshot.ledger, old) = persisted.ledger
      /\ snapshot.height = persisted.height => Len(snapshot.ledger) = old
      /\ \A i \in (old + 1) .. Len(snapshot.ledger) :
            snapshot.ledger[i].height > persisted.height

NewEntries(persisted, snapshot) ==
  SubSeq(snapshot.ledger, Len(persisted.ledger) + 1, Len(snapshot.ledger))

\* Mutant: the committed height is not advanced with the entries.
SavedWithoutHeight(persisted, snapshot) ==
  [height |-> persisted.height,
   ledger |-> persisted.ledger \o NewEntries(persisted, snapshot)]

\* insert_entries and upsert_committed_height in one SQLite transaction.
Saved(persisted, snapshot) ==
  [height |-> snapshot.height,
   ledger |-> persisted.ledger \o NewEntries(persisted, snapshot)]
=============================================================================
