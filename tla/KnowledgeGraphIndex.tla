------------------------ MODULE KnowledgeGraphIndex ------------------------
(***************************************************************************)
(* The in-memory index over a committed ledger (KnowledgeGraphIndex) and   *)
(* the queries composed over it (KnowledgeGraphQueries), as operators.     *)
(*                                                                         *)
(* The index keeps artifacts in ledger order and, for every kind and every *)
(* contribution, the references of the artifacts filed under it.  A        *)
(* content address determines the artifact it names, so the kind and the   *)
(* direction of a relation are functions of its reference.                 *)
(***************************************************************************)
EXTENDS ArtifactLedger, SequencesExt

CONSTANTS
  Kind,     \* ContributionKind and RelationKind
  KindOf,   \* the kind of the artifact a reference names
  FromOf,   \* from_contribution of the relation a reference names
  ToOf      \* to_contribution of the relation a reference names

\* A relation connects two distinct contributions (ContributionRelation), and
\* a transaction holds an artifact (SignedTransaction).
ASSUME ContentAssumption ==
  /\ KindOf \in [Ref -> Kind]
  /\ FromOf \in [Ref -> Ref]
  /\ ToOf \in [Ref -> Ref]
  /\ \A tx \in Transaction :
       /\ tx.artifacts # <<>>
       /\ \A i \in DOMAIN tx.artifacts :
            LET artifact == tx.artifacts[i]
            IN  artifact.kind = "relation" =>
                  /\ artifact.ends = {FromOf[artifact.ref], ToOf[artifact.ref]}
                  /\ FromOf[artifact.ref] # ToOf[artifact.ref]

\* The members of a sequence that are in a set, in order.
Only(s, S) == FlattenSeq([i \in DOMAIN s |-> IF s[i] \in S THEN <<s[i]>> ELSE <<>>])

-----------------------------------------------------------------------------
(* IndexedArtifact: an artifact and its position in the ledger.            *)

IndexedArtifact == [ref    : Ref,
                    chain  : Chain,
                    kind   : {"contribution", "relation"},
                    height : Nat \ {0},
                    index  : Nat,
                    place  : Nat]

Indexed(entry, i) ==
  [ref    |-> entry.tx.artifacts[i].ref,
   chain  |-> entry.tx.chain,
   kind   |-> entry.tx.artifacts[i].kind,
   height |-> entry.height,
   index  |-> entry.index,
   place  |-> i - 1]

\* Every artifact of the entries, in ledger order.
IndexedArtifacts(entries) ==
  FlattenSeq([k \in DOMAIN entries |->
                [i \in DOMAIN entries[k].tx.artifacts |-> Indexed(entries[k], i)]])

IsContribution(indexed) == indexed.kind = "contribution"

-----------------------------------------------------------------------------
(* _GraphState and how it grows.                                           *)

\* What an artifact is filed under.
Key == [by : {"kind"}, of : Kind] \cup [by : {"end"}, of : Ref]

OfTheKind(kind) == [by |-> "kind", of |-> kind]
AtTheEnd(ref) == [by |-> "end", of |-> ref]

Keys(indexed) ==
  {OfTheKind(KindOf[indexed.ref])} \cup
  (IF IsContribution(indexed)
   THEN {}
   ELSE {AtTheEnd(FromOf[indexed.ref]), AtTheEnd(ToOf[indexed.ref])})

FiledUnder(key) == {x \in IndexedArtifact : key \in Keys(x)}

RefsOf(artifacts) == [i \in DOMAIN artifacts |-> artifacts[i].ref]

\* _indexed_neighbors, as references.
Neighbors(adjacency, key) ==
  IF key \in DOMAIN adjacency THEN adjacency[key] ELSE <<>>

\* _connect, for one artifact after the other.
Connected(adjacency, added) ==
  [key \in DOMAIN adjacency \cup UNION {Keys(added[i]) : i \in DOMAIN added} |->
     Neighbors(adjacency, key) \o RefsOf(Only(added, FiledUnder(key)))]

EmptyIndex == [height |-> 0, nodes |-> <<>>, adjacency |-> <<>>]

NodeRefs(index) == {index.nodes[i].ref : i \in DOMAIN index.nodes}

\* append raises nothing.
AppendAllowed(index, entries, height) ==
  LET added == IndexedArtifacts(entries)
  IN  /\ height >= index.height
      /\ \A i \in DOMAIN entries : entries[i].height \in (index.height + 1) .. height
      /\ \A i, j \in DOMAIN added : added[i].ref = added[j].ref => i = j
      /\ \A i \in DOMAIN added : added[i].ref \notin NodeRefs(index)

\* Mutant: the adjacency of the previous state is not copied.
AppendedAfresh(index, entries, height) ==
  LET added == IndexedArtifacts(entries)
  IN  [height    |-> height,
       nodes     |-> index.nodes \o added,
       adjacency |-> Connected(<<>>, added)]

Appended(index, entries, height) ==
  LET added == IndexedArtifacts(entries)
  IN  [height    |-> height,
       nodes     |-> index.nodes \o added,
       adjacency |-> Connected(index.adjacency, added)]

-----------------------------------------------------------------------------
(* Queries.  anyKind stands for a kind argument of None.                   *)

anyKind == "any"

OfKind(ref, kind) == kind \in {anyKind, KindOf[ref]}

\* KnowledgeGraphIndex.get, as the set of at most one artifact.
Get(index, ref) ==
  {index.nodes[i] : i \in {j \in DOMAIN index.nodes : index.nodes[j].ref = ref}}

\* The relations that point at a contribution, and those that leave it.
Into(ref, kind) == {r \in Ref : ToOf[r] = ref /\ OfKind(r, kind)}
OutOf(ref, kind) == {r \in Ref : FromOf[r] = ref /\ OfKind(r, kind)}

IncomingRelations(index, ref, kind) ==
  Only(Neighbors(index.adjacency, AtTheEnd(ref)), Into(ref, kind))

OutgoingRelations(index, ref, kind) ==
  Only(Neighbors(index.adjacency, AtTheEnd(ref)), OutOf(ref, kind))

\* _resolve_contributions: the contributions among the references, each once,
\* in the order met first.
Resolved(index, refs, kind) ==
  FlattenSeq([i \in DOMAIN refs |->
    IF /\ \A j \in 1 .. (i - 1) : refs[j] # refs[i]
       /\ \E indexed \in Get(index, refs[i]) : IsContribution(indexed)
       /\ OfKind(refs[i], kind)
    THEN <<refs[i]>> ELSE <<>>])

IncomingContributions(index, ref, via, kind) ==
  LET relations == IncomingRelations(index, ref, via)
  IN  Resolved(index, [i \in DOMAIN relations |-> FromOf[relations[i]]], kind)

OutgoingContributions(index, ref, via, kind) ==
  LET relations == OutgoingRelations(index, ref, via)
  IN  Resolved(index, [i \in DOMAIN relations |-> ToOf[relations[i]]], kind)

-----------------------------------------------------------------------------
(* What an index of a ledger must hold, without building it step by step.  *)

\* The relations among some references, read off the whole ledger.
RelationsOf(ledger, refs) ==
  RefsOf(Only(IndexedArtifacts(ledger),
              {x \in IndexedArtifact : ~IsContribution(x) /\ x.ref \in refs}))

\* Every query over the index answers what the ledger says.
AnswersFrom(index, ledger) ==
  /\ index.nodes = IndexedArtifacts(ledger)
  /\ \A kind \in Kind :
       Neighbors(index.adjacency, OfTheKind(kind)) =
         RefsOf(Only(index.nodes, {x \in IndexedArtifact : KindOf[x.ref] = kind}))
  /\ \A ref \in Ref, via \in Kind \cup {anyKind} :
       LET into == RelationsOf(ledger, Into(ref, via))
           out  == RelationsOf(ledger, OutOf(ref, via))
       IN  /\ IncomingRelations(index, ref, via) = into
           /\ OutgoingRelations(index, ref, via) = out
           /\ ToSet(IncomingContributions(index, ref, via, anyKind)) =
                {FromOf[r] : r \in ToSet(into)}
           /\ ToSet(OutgoingContributions(index, ref, via, anyKind)) =
                {ToOf[r] : r \in ToSet(out)}
=============================================================================
