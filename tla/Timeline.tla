------------------------------ MODULE Timeline ------------------------------
(***************************************************************************)
(* The dashboard's timeline_snapshot (research_team/dashboard.py), which   *)
(* reads annotations, usage, failures and markers file by file while the   *)
(* workers write them: a pass is begun with current-pass.json, recorded in *)
(* usage.jsonl or failures.jsonl or both, and ended by unlinking the       *)
(* marker.                                                                 *)
(***************************************************************************)
EXTENDS Integers, FiniteSets, SequencesExt

CONSTANTS
  Teammates,     \* agents with a work directory, in the order they are read
  MaxPasses      \* bound: passes of all agents

ASSUME TimelineAssumption == Teammates \in Seq(STRING) /\ IsInjective(Teammates) /\ MaxPasses \in Nat

VARIABLES
  work,          \* what each work directory holds and where its worker is
  assessed,      \* passes with a line in annotations.jsonl
  snapshot       \* the snapshot being built

timelineVars == <<work, assessed, snapshot>>

Teammate == ToSet(Teammates)
Pass == [agent : Teammate, number : 1 .. MaxPasses]
Row == [pass : Pass, state : {"completed", "failed", "running"}]
NoMarker == 0

\* begun: passes whose marker has been written; gone: those that ended, or
\* were killed, since the snapshot began.
NoSnapshot == [step |-> 0, annotations |-> {}, rows |-> {}, begun |-> {}, gone |-> {}]

TimelineInit ==
  /\ work = [a \in Teammate |-> [begun |-> 0, marker |-> NoMarker, phase |-> "loop",
                                 usage |-> {}, failures |-> {}]]
  /\ assessed = {}
  /\ snapshot = NoSnapshot

---------------------------------------------------------------------------
(* The workers, _worker_loop and run_one_pass.                             *)

Current(a) == [agent |-> a, number |-> work[a].begun]

Begun == {p \in Pass : p.number <= work[p.agent].begun}

BeginPass(a) ==
  /\ work[a].phase = "loop" /\ Cardinality(Begun) < MaxPasses
  /\ work' = [work EXCEPT ![a].begun = @ + 1, ![a].marker = work[a].begun + 1, ![a].phase = "pass"]
  /\ UNCHANGED <<assessed, snapshot>>

RecordUsage(a) ==
  /\ work[a].phase = "pass"
  /\ work' = [work EXCEPT ![a].usage = @ \cup {work[a].begun}, ![a].phase = "recorded"]
  /\ UNCHANGED <<assessed, snapshot>>

\* The runner fails, or one of the writes after the usage record.
AppendFailure(a) ==
  /\ work[a].phase \in {"pass", "recorded"}
  /\ work' = [work EXCEPT ![a].failures = @ \cup {work[a].begun}, ![a].phase = "failed"]
  /\ UNCHANGED <<assessed, snapshot>>

Unlink(a) ==
  /\ work[a].phase \in {"recorded", "failed"}
  /\ work' = [work EXCEPT ![a].marker = NoMarker, ![a].phase = "loop"]
  /\ snapshot' = [snapshot EXCEPT !.gone = @ \cup {Current(a)}]
  /\ UNCHANGED assessed

\* The worker is killed and another started, which removes the marker.
ReplaceWorker(a) ==
  /\ work[a].phase # "loop"
  /\ work' = [work EXCEPT ![a].marker = NoMarker, ![a].phase = "loop"]
  /\ snapshot' = [snapshot EXCEPT !.gone = @ \cup {Current(a)}]
  /\ UNCHANGED assessed

Completed == {p \in Pass : p.number \in work[p.agent].usage}

AnnotateRun(p) ==
  /\ p \in Completed \ assessed
  /\ assessed' = assessed \cup {p}
  /\ UNCHANGED <<work, snapshot>>

---------------------------------------------------------------------------
(* timeline_snapshot: one file after another.                              *)

Of(file) == [i \in DOMAIN Teammates |-> <<file, Teammates[i]>>]
Annotations == <<<<"annotations", "">>>>

\* Mutant: annotations are joined in the end.
AnnotationsLast == Of("usage") \o Of("failures") \o Of("marker") \o Annotations
ReadOrder == Annotations \o Of("usage") \o Of("failures") \o Of("marker")

Done == snapshot.step > Len(ReadOrder)

\* Passes that were killed without a record are begun no longer.
Known == {p \in Begun : \/ p \in Completed \/ p.number \in work[p.agent].failures
                        \/ p.number = work[p.agent].marker}

BeginSnapshot ==
  /\ snapshot.step = 0 \/ Done
  /\ snapshot' = [NoSnapshot EXCEPT !.step = 1, !.begun = Known]
  /\ UNCHANGED <<work, assessed>>

Rows(a, numbers, state) == {[pass |-> [agent |-> a, number |-> n], state |-> state] : n \in numbers}

ReadFile ==
  /\ snapshot.step \in DOMAIN ReadOrder
  /\ LET file == ReadOrder[snapshot.step][1]
         a    == ReadOrder[snapshot.step][2]
     IN  snapshot' = [snapshot EXCEPT
           !.step = @ + 1,
           !.annotations = IF file = "annotations" THEN assessed ELSE @,
           !.rows = @ \cup CASE file = "usage" -> Rows(a, work[a].usage, "completed")
                             [] file = "failures" -> Rows(a, work[a].failures, "failed")
                             [] file = "marker" -> Rows(a, {work[a].marker} \ {NoMarker}, "running")
                             [] OTHER -> {}]
  /\ UNCHANGED <<work, assessed>>

TimelineNext ==
  \/ \E a \in Teammate : BeginPass(a) \/ RecordUsage(a) \/ AppendFailure(a) \/ Unlink(a)
                         \/ ReplaceWorker(a)
  \/ \E p \in Pass : AnnotateRun(p)
  \/ BeginSnapshot
  \/ ReadFile

TimelineSpec == TimelineInit /\ [][TimelineNext]_timelineVars

---------------------------------------------------------------------------
(* Properties.                                                             *)

Shown == {row.pass : row \in snapshot.rows}

\* Whatever is written while the snapshot is read, each annotation in it has
\* its completed run beside it: annotations are read before the usage they
\* are about.
AnnotationsHaveRuns ==
  Done => \A p \in snapshot.annotations : [pass |-> p, state |-> "completed"] \in snapshot.rows

\* A pass on file when the snapshot began is in it, unless it ended or its
\* worker was replaced meanwhile: only then it may fall between usage and
\* marker.
KnownPassesAreShown ==
  Done => snapshot.begun \subseteq Shown \cup snapshot.gone

\* A snapshot joins files of different instants without contradicting itself.
SnapshotIsCoherent == AnnotationsHaveRuns /\ KnownPassesAreShown
=============================================================================
