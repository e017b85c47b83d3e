---------------------------- MODULE MCComponents ----------------------------
(***************************************************************************)
(* Small instances of the components that stand by themselves: a behaviour *)
(* picks one of them, which moves alone.                                   *)
(***************************************************************************)
EXTENDS ReplicatedLedger, Submission, ImpactCursor, Displays, CometBFTHome, SQLiteStore

CONSTANTS A, B, C, R, Q, n1, n2, s1, s2   \* artifact references, nodes and clients

VARIABLE component   \* the component that moves

-----------------------------------------------------------------------------
(* The abstract ledger, with transactions that meet every verdict.         *)

Contribution(ref) == [ref |-> ref, kind |-> "contribution", ends |-> {}]
Relation(ref, from, to) == [ref |-> ref, kind |-> "relation", ends |-> {from, to}]

Submitted(artifacts) ==
  [bytes |-> 1, decodable |-> TRUE, chain |-> "net", authentic |-> TRUE, artifacts |-> artifacts]

First   == Submitted(<<Contribution(A)>>)
Second  == Submitted(<<Contribution(B), Relation(R, B, A)>>)
Overlap == Submitted(<<Contribution(C), Contribution(A)>>)
Meta    == Submitted(<<Relation(Q, R, A)>>)
Twice   == Submitted(<<Contribution(C), Contribution(C)>>)
Crowded == Submitted(<<Contribution(A), Contribution(B), Contribution(C)>>)
Large   == [First EXCEPT !.bytes = 3]
Garbage == [First EXCEPT !.decodable = FALSE, !.artifacts = <<>>]
Foreign == [First EXCEPT !.chain = "other"]
Forged  == [First EXCEPT !.authentic = FALSE]

MCTransaction ==
  {First, Second, Overlap, Meta, Twice, Crowded, Large, Garbage, Foreign, Forged}

MCNode == {n1, n2}

\* Each verdict of the validator is met.
ASSUME VerdictsAreMet ==
  {Validate(tx, <<>>) : tx \in MCTransaction}
    \cup {Validate(First, <<[height |-> 1, index |-> 0, tx |-> First]>>)}
  = {"ACCEPTED", "INVALID_TRANSACTION", "WRONG_CHAIN", "INVALID_SIGNATURE",
     "DUPLICATE", "MISSING_REFERENCE", "TRANSACTION_TOO_LARGE", "TOO_MANY_ARTIFACTS"}

-----------------------------------------------------------------------------
(* Submissions: a question, an answer to it, with its relation or without, *)
(* and a relation between two statements of the question.                  *)

Stated(name, stamp) == [name |-> name, stamp |-> stamp, to |-> {}]

Essay  == [name |-> "essay", to |-> <<>>, alone |-> FALSE, bytes |-> 1]
Remark == [name |-> "reply", to |-> <<>>, alone |-> FALSE, bytes |-> 1]
Reply  == [name |-> "reply", to |-> <<Stated("essay", 1)>>, alone |-> FALSE, bytes |-> 2]
Link   == [name |-> "link", to |-> <<Stated("essay", 2), Stated("essay", 1)>>, alone |-> TRUE,
           bytes |-> 1]
MCDrafts == {Essay, Remark, Reply, Link}

MCRef == {A, B, C, R, Q} \cup {Stated("essay", n) : n \in 1 .. 2}
MCSubmitters == {s1, s2}
MCCommandLine == {s2}

-----------------------------------------------------------------------------
(* The database, with blocks whose indexes need two bytes and a block that *)
(* records nothing.                                                        *)

MCBlockIndexes == <<<<0, 1, 2>>, <<>>, <<1, 2>>>>

-----------------------------------------------------------------------------
(* The page, with a block of nothing and transactions for two pages.       *)

MCBlockSize == <<1, 0, 3>>

MCTeammates == <<"ada", "bob">>

-----------------------------------------------------------------------------
Init ==
  /\ component \in {"ledger", "submission", "impact", "timeline", "home", "store", "page"}
  /\ LedgerInit /\ SubmissionInit /\ ImpactInit /\ TimelineInit
  /\ HomeInit /\ StoreInit /\ BrowserInit

Next ==
  /\ UNCHANGED component
  /\ \/ /\ component = "ledger" /\ LedgerNext
        /\ UNCHANGED <<submissionVars, impactVars, timelineVars, homeVars, storeVars, browserVars>>
     \/ /\ component = "submission" /\ SubmissionNext
        /\ UNCHANGED <<ledgerVars, impactVars, timelineVars, homeVars, storeVars, browserVars>>
     \/ /\ component = "impact" /\ ImpactNext
        /\ UNCHANGED <<ledgerVars, submissionVars, timelineVars, homeVars, storeVars, browserVars>>
     \/ /\ component = "timeline" /\ TimelineNext
        /\ UNCHANGED <<ledgerVars, submissionVars, impactVars, homeVars, storeVars, browserVars>>
     \/ /\ component = "home" /\ HomeNext
        /\ UNCHANGED <<ledgerVars, submissionVars, impactVars, timelineVars, storeVars, browserVars>>
     \/ /\ component = "store" /\ StoreNext
        /\ UNCHANGED <<ledgerVars, submissionVars, impactVars, timelineVars, homeVars, browserVars>>
     \/ /\ component = "page" /\ BrowserNext
        /\ UNCHANGED <<ledgerVars, submissionVars, impactVars, timelineVars, homeVars, storeVars>>

Spec ==
  Init /\ [][Next]_<<component, ledgerVars, submissionVars, impactVars, timelineVars, homeVars,
                      storeVars, browserVars>>
=============================================================================
