------------------------------ MODULE Displays ------------------------------
(***************************************************************************)
(* The two displays a reader of the system looks at: the dashboard's       *)
(* timeline of the team's files and the inspector's page.                  *)
(***************************************************************************)
EXTENDS Timeline, InspectorBrowser

\* What a browser shows is true of the files and the ledger behind it: the
\* dashboard's snapshots, and what the inspector's page takes itself to have.
DisplaysAreCoherent == SnapshotIsCoherent /\ PageIsComplete
=============================================================================
