---------------------------- MODULE MCInspector ----------------------------
(***************************************************************************)
(* Small instances of Inspector for TLC.                                   *)
(***************************************************************************)
EXTENDS Inspector, TLC

CONSTANTS a, b, c, d, s   \* artifact references; d lives on the other chain

Contribution(ref) == [ref |-> ref, kind |-> "contribution", ends |-> {}]
Relation(ref, from, to) == [ref |-> ref, kind |-> "relation", ends |-> {from, to}]

Committed(net, artifacts) ==
  [bytes     |-> 1,
   decodable |-> TRUE,
   chain     |-> net,
   authentic |-> TRUE,
   artifacts |-> artifacts]

\* A contribution; a second one that replies to it in its own transaction; a
\* third; and a contribution of another network.
Root    == Committed("net", <<Contribution(a)>>)
Reply   == Committed("net", <<Contribution(b), Relation(s, b, a)>>)
Aside   == Committed("net", <<Contribution(c)>>)
Foreign == Committed("other", <<Contribution(d)>>)

MCRef == {a, b, c, d, s}
OwnRef == {a, b, s}
MCChain == {"net", "other"}
MCKind == {"question", "finding", "replies_to"}
MCKindOf == [x \in Ref |-> CASE x = a -> "question"
                                [] x = s -> "replies_to"
                                [] OTHER -> "finding"]
MCFromOf == [x \in Ref |-> b]
MCToOf == [x \in Ref |-> a]

OwnTransactions == {Root, Reply}
AllTransactions == {Root, Reply, Aside, Foreign}

\* Threads are interchangeable.
Symmetry == Permutations(Thread)
=============================================================================
