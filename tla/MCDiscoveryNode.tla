--------------------------- MODULE MCDiscoveryNode ---------------------------
(***************************************************************************)
(* Small instances of DiscoveryNode for TLC: a few transactions that pass, *)
(* build on one another, collide and fail.                                 *)
(***************************************************************************)
EXTENDS DiscoveryNode, TLC

CONSTANTS a, b, c, r, q   \* artifact references

Contribution(ref) == [ref |-> ref, kind |-> "contribution", ends |-> {}]
Relation(ref, from, to) == [ref |-> ref, kind |-> "relation", ends |-> {from, to}]

Submitted(artifacts) ==
  [bytes     |-> 1,
   decodable |-> TRUE,
   chain     |-> "net",
   authentic |-> TRUE,
   artifacts |-> artifacts]

\* A contribution; a second one related to it in the same transaction; one
\* that repeats the first beside a new artifact.
Root    == Submitted(<<Contribution(a)>>)
Reply   == Submitted(<<Contribution(b), Relation(r, b, a)>>)
Overlap == Submitted(<<Contribution(c), Contribution(a)>>)

\* A relation to something that is recorded, but as a relation.
Meta    == Submitted(<<Relation(q, r, a)>>)

MCRef == {a, b, c, r, q}
MCChain == {"net", "other"}
CrashTransactions == {Root, Reply, Overlap, Meta}
LivenessTransactions == {Root}

\* Two faults only while one node runs: the other has not been started.
Solo(n) == \A other \in Node \ {n} :
             ~appUp[other] /\ comet[other] = [phase |-> "down", stored |-> 0, applied |-> 0]
WithinBounds == faults < MaxFaults \/ \E n \in Node : Solo(n)

MCNext == Next /\ WithinBounds'
MCSpec == Init /\ [][MCNext]_vars

\* Nodes are interchangeable.
Symmetry == Permutations(Node)
=============================================================================
