---------------------------- MODULE ImpactCursor ----------------------------
(***************************************************************************)
(* The impact assessor of research_team/impact.py: each of its passes      *)
(* takes the researcher runs that finished after a durable cursor, appends *)
(* its annotations to annotations.jsonl and then moves the cursor, while   *)
(* agents finish runs and record them in usage.jsonl a moment later.       *)
(* Instants are numbered; no two passes finish at the same microsecond.    *)
(***************************************************************************)
EXTENDS Integers, FiniteSets, SequencesExt

CONSTANTS
  Agents,         \* agents with a work directory
  Researchers,    \* those with role: researcher
  MaxPending,     \* MAX_PENDING_RUNS
  Lookback,       \* INITIAL_LOOKBACK
  MaxClock,       \* bound: the last instant
  MaxKills        \* bound: how often the assessor is killed

ASSUME ImpactAssumption ==
  /\ Researchers \subseteq Agents
  /\ MaxPending \in Nat \ {0} /\ Lookback \in Nat /\ MaxClock \in Nat /\ MaxKills \in Nat

VARIABLES
  clock,          \* now
  unrecorded,     \* finished_at of a pass whose usage record is not written yet
  recorded,       \* usage.jsonl of all agents
  annotations,    \* the lines of annotations.jsonl
  torn,           \* it ends in the middle of a line
  cursor,         \* finished_at in cursor.json, Never when there is none
  assessor,       \* the pass of the impact assessor
  origin,         \* history: the lookback with which the first cursor was made
  overtaken,      \* history: runs recorded after a packet that reaches past them
  glued,          \* history: assessed runs whose line was appended to a torn one
  kills           \* how often the assessor was killed

impactFiles == <<recorded, annotations, torn, cursor>>
impactHistory == <<origin, overtaken, glued, kills>>
impactVars == <<clock, unrecorded, impactFiles, assessor, impactHistory>>

Never == -1000
NoRun == [agent |-> "none", finished |-> Never]
Run == [agent : Agents, finished : 1 .. MaxClock]

\* packet: the runs of the context; after: where it begins; batch: the run_ids
\* of the assessments, in the order of the response.
NoPass == [phase |-> "idle", packet |-> {}, after |-> Never, batch |-> <<>>]

ImpactTypeOK ==
  /\ clock \in 0 .. MaxClock
  /\ unrecorded \in [Agents -> {Never} \cup 1 .. MaxClock]
  /\ recorded \subseteq Run
  /\ annotations \in Seq(Run \cup {NoRun}) /\ torn \in BOOLEAN
  /\ cursor \in {Never} \cup 1 .. MaxClock
  /\ assessor \in [phase : {"idle", "asked", "parsed", "appended"}, packet : SUBSET Run,
                   after : Int, batch : Seq(Run)]
  /\ origin \in Int /\ overtaken \subseteq Run /\ glued \subseteq Run /\ kills \in 0 .. MaxKills

ImpactInit ==
  /\ clock = 0
  /\ unrecorded = [a \in Agents |-> Never]
  /\ recorded = {} /\ annotations = <<>> /\ torn = FALSE /\ cursor = Never
  /\ assessor = NoPass
  /\ origin = Never /\ overtaken = {} /\ glued = {} /\ kills = 0

---------------------------------------------------------------------------
(* The agents: run_one_pass takes finished_at and appends the usage record *)
(* after it has written the report.                                        *)

FinishRun(a) ==
  /\ unrecorded[a] = Never /\ clock < MaxClock
  /\ clock' = clock + 1
  /\ unrecorded' = [unrecorded EXCEPT ![a] = clock']
  /\ UNCHANGED <<impactFiles, assessor, impactHistory>>

\* The packet reaches past the run.
Overtakes(packet, run) == \E p \in packet : run.finished <= p.finished

RecordRun(a) ==
  LET run == [agent |-> a, finished |-> unrecorded[a]]
  IN  /\ unrecorded[a] # Never
      /\ unrecorded' = [unrecorded EXCEPT ![a] = Never]
      /\ recorded' = recorded \cup {run}
      /\ overtaken' = IF run.finished <= cursor \/ Overtakes(assessor.packet, run)
                      THEN overtaken \cup {run} ELSE overtaken
      /\ UNCHANGED <<clock, annotations, torn, cursor, assessor, origin, glued, kills>>

---------------------------------------------------------------------------
(* build_impact_context.                                                   *)

UsageRuns == {run \in recorded : run.agent \in Researchers}

FinishedAfter(after) == {run \in UsageRuns : after < run.finished}

\* Mutant: a full packet keeps the newest runs.
NewestPending(runs) ==
  {run \in runs : Cardinality({other \in runs : run.finished < other.finished}) < MaxPending}

\* The runs in their order, up to the limit.
OldestPending(runs) ==
  {run \in runs : Cardinality({other \in runs : other.finished < run.finished}) < MaxPending}

BuildContext ==
  LET after == IF cursor = Never THEN clock - Lookback ELSE cursor
  IN  /\ assessor.phase = "idle"
      /\ assessor' = [phase |-> "asked", packet |-> OldestPending(FinishedAfter(after)),
                      after |-> after, batch |-> <<>>]
      /\ UNCHANGED <<clock, unrecorded, impactFiles, impactHistory>>

---------------------------------------------------------------------------
(* parse_impact_batch and record_impact_batch.                             *)

CoversExactly(batch, packet) ==
  /\ IsInjective(batch)
  /\ ToSet(batch) = packet

\* The response names any of the recorded runs, possibly twice.
Responses == UNION {[1 .. k -> UsageRuns] : k \in 0 .. MaxPending}

AcceptResponse(batch) ==
  /\ assessor.phase = "asked"
  /\ CoversExactly(batch, assessor.packet)
  /\ assessor' = [assessor EXCEPT !.phase = "parsed", !.batch = batch]
  /\ UNCHANGED <<clock, unrecorded, impactFiles, impactHistory>>

\* The pass fails; nothing is written.
RejectResponse ==
  /\ assessor.phase = "asked"
  /\ assessor' = NoPass
  /\ UNCHANGED <<clock, unrecorded, impactFiles, impactHistory>>

\* The first line goes to the end of what a killed assessor left.
Extended(lines) ==
  annotations \o (IF torn /\ lines # <<>> THEN [lines EXCEPT ![1] = NoRun] ELSE lines)
Glued(lines) == IF torn /\ lines # <<>> THEN {Head(lines)} ELSE {}

AppendAnnotations ==
  /\ assessor.phase = "parsed"
  /\ annotations' = Extended(assessor.batch)
  /\ torn' = (torn /\ assessor.batch = <<>>)
  /\ glued' = glued \cup Glued(assessor.batch)
  /\ assessor' = [assessor EXCEPT !.phase = "appended"]
  /\ UNCHANGED <<clock, unrecorded, recorded, cursor, origin, overtaken, kills>>

\* latest_finished_at: the cursor stays where it is when there is none.
Latest(packet) == CHOOSE f \in {run.finished : run \in packet} : \A run \in packet : run.finished <= f
NewCursor(packet) == IF packet = {} THEN cursor ELSE Latest(packet)

WriteCursor ==
  /\ assessor.phase = "appended"
  /\ cursor' = NewCursor(assessor.packet)
  /\ origin' = IF cursor = Never THEN assessor.after ELSE origin
  /\ assessor' = NoPass
  /\ UNCHANGED <<clock, unrecorded, recorded, annotations, torn, overtaken, glued, kills>>

\* The assessor is killed, while it appends after any number of lines and
\* possibly inside the next.
KillAssessor ==
  /\ assessor.phase # "idle" /\ kills < MaxKills
  /\ kills' = kills + 1
  /\ assessor' = NoPass
  /\ \/ UNCHANGED <<annotations, torn, glued>>
     \/ /\ assessor.phase = "parsed"
        /\ \E k \in 0 .. Len(assessor.batch) : \E inside \in BOOLEAN :
             LET lines == SubSeq(assessor.batch, 1, k)
             IN  /\ inside => k < Len(assessor.batch)
                 /\ annotations' = Extended(lines)
                 /\ torn' = (inside \/ (torn /\ lines = <<>>))
                 /\ glued' = glued \cup Glued(lines)
  /\ UNCHANGED <<clock, unrecorded, recorded, cursor, origin, overtaken>>

Assess ==
  \/ BuildContext
  \/ \E batch \in Responses : AcceptResponse(batch)
  \/ AppendAnnotations
  \/ WriteCursor

ImpactNext ==
  \/ \E a \in Agents : FinishRun(a) \/ RecordRun(a)
  \/ Assess
  \/ RejectResponse
  \/ KillAssessor

ImpactSpec == ImpactInit /\ [][ImpactNext]_impactVars

\* Agents write their records, the operator keeps the assessor running and now
\* and then it answers as it is asked to.
FairImpactSpec ==
  /\ ImpactSpec
  /\ \A a \in Agents : WF_impactVars(RecordRun(a))
  /\ WF_impactVars(BuildContext)
  /\ SF_impactVars(\E batch \in Responses : AcceptResponse(batch))
  /\ WF_impactVars(AppendAnnotations) /\ WF_impactVars(WriteCursor)

---------------------------------------------------------------------------
(* Properties.                                                             *)

\* read_annotations: the runs with a line of their own.
Annotated == {annotations[i] : i \in DOMAIN annotations} \ {NoRun}

\* build_impact_context never offers a run again once the cursor has passed
\* it.  So each run up to the cursor is annotated, but for those known losses:
\* recorded only after the packet that overtook it, older than the two hours
\* the first packet looked back, or written behind a torn line.
PassedRunsAreAnnotated ==
  \A run \in UsageRuns :
     run.finished <= cursor =>
        run \in Annotated \cup overtaken \cup glued \/ run.finished <= origin

\* A run is assessed a second time only when the assessor was killed between
\* its line and the cursor: at most once more for each time.
Lines(run) == {i \in DOMAIN annotations : annotations[i] = run}
AssessedOnce == \A run \in Run : Cardinality(Lines(run)) <= 1 + kills

\* The assessor passes over no run and repeats none without need.
AssessmentsAreComplete == PassedRunsAreAnnotated /\ AssessedOnce

\* In the end every recorded run is assessed, with the same exceptions: a
\* backlog longer than a packet is worked off oldest first, and a packet whose
\* response was rejected comes again.
RunsGetAssessed ==
  <>[](\A run \in UsageRuns :
         \/ run \in Annotated \cup overtaken \cup glued
         \/ run.finished <= IF cursor = Never THEN clock - Lookback ELSE origin)
=============================================================================
