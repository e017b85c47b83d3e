--------------------------- MODULE ObserverProofs ---------------------------
(***************************************************************************)
(* Those who read what others write, and the theorems about them for every *)
(* number of agents, passes, blocks and calls: the impact assessor behind  *)
(* its cursor, the dashboard's snapshot of the team's files, and the page  *)
(* of the inspector in a browser.                                          *)
(***************************************************************************)
EXTENDS ImpactCursor, Displays, FiniteSetTheorems, SequenceTheorems, WellFoundedInduction, TLAPS

-----------------------------------------------------------------------------
(* The assessor: the inductive invariant.                                  *)

\* Finished runs are counted; all of usage.jsonl can be.
FinitelyRecorded == IsFiniteSet(recorded)

\* The packet goes on from the cursor, and takes every run up to its latest
\* that is not recorded after it.
PacketIsPrefix ==
  assessor.phase # "idle" =>
    /\ assessor.packet \subseteq UsageRuns
    /\ cursor # Never => assessor.after = cursor
    /\ \A run \in assessor.packet : assessor.after < run.finished
    /\ \A run \in UsageRuns :
         assessor.after < run.finished /\ Overtakes(assessor.packet, run) =>
           run \in assessor.packet \cup overtaken

BatchIsPacket ==
  /\ assessor.phase \in {"parsed", "appended"} => CoversExactly(assessor.batch, assessor.packet)
  /\ assessor.phase = "appended" => assessor.packet \subseteq Annotated \cup glued

\* What the cursor passed, or is about to pass, has been assessed.
Assessed(run) == run.finished <= cursor \/ (assessor.phase = "appended" /\ run \in assessor.packet)

\* Each time the assessor is killed may cost one more line about a run.
LinesAreFew ==
  \A run \in Run : Cardinality(Lines(run)) <= kills + (IF Assessed(run) THEN 1 ELSE 0)

ImpactIInv ==
  /\ ImpactTypeOK /\ FinitelyRecorded
  /\ PacketIsPrefix /\ BatchIsPacket /\ PassedRunsAreAnnotated /\ LinesAreFew

-----------------------------------------------------------------------------
(* Packets and lines.                                                      *)

Less == {pair \in Nat \X Nat : pair[1] < pair[2]}

\* Numbers do not descend for ever.
LEMMA LessIsWellFounded == IsWellFoundedOn(Less, Nat)
BY NatLessThanWellFounded DEF OpToRel, Less

\* A packet with runs has a latest.
LEMMA LatestOfPacket ==
  ASSUME NEW packet \in SUBSET Run, packet # {}
  PROVE  /\ \E run \in packet : Latest(packet) = run.finished
         /\ \A run \in packet : run.finished <= Latest(packet)
<1> DEFINE T == {n \in Nat : \A run \in packet : run.finished <= n}
<1>1. MaxClock \in T
  BY ImpactAssumption DEF Run
<1>2. PICK n \in T : \A k \in T : ~(<<k, n>> \in Less)
  <2>1. T \subseteq Nat /\ T # {}
    BY <1>1
  <2>. HIDE DEF T
  <2>. QED  BY <2>1, WFMin, LessIsWellFounded
<1>3. \E run \in packet : run.finished = n
  <2>1. SUFFICES ASSUME \A run \in packet : run.finished # n PROVE FALSE
    OBVIOUS
  <2>2. PICK first \in packet : TRUE
    OBVIOUS
  <2>3. first.finished \in 1 .. MaxClock /\ first.finished <= n
    BY <1>2, <2>2 DEF Run
  <2>4. n - 1 \in Nat /\ <<n - 1, n>> \in Less
    BY <1>2, <2>3, ImpactAssumption DEF Less
  <2>5. \A run \in packet : run.finished <= n - 1
    <3>1. TAKE run \in packet
    <3>2. run.finished \in 1 .. MaxClock /\ run.finished <= n /\ run.finished # n
      BY <1>2, <2>1, <3>1 DEF Run
    <3>. QED  BY <3>2, <1>2, ImpactAssumption
  <2>. QED  BY <1>2, <2>4, <2>5
<1>4. n \in {run.finished : run \in packet} /\ \A run \in packet : run.finished <= n
  BY <1>2, <1>3
<1>. QED  BY <1>4 DEF Latest

Older(runs, run) == {other \in runs : other.finished < run.finished}

\* The oldest runs, up to the limit: with a run every older one.
LEMMA PacketIsClosed ==
  ASSUME NEW runs \in SUBSET Run, IsFiniteSet(runs), NEW run \in runs,
         Overtakes(OldestPending(runs), run)
  PROVE  run \in OldestPending(runs)
<1>1. PICK p \in OldestPending(runs) : run.finished <= p.finished
  BY DEF Overtakes
<1>2. p \in runs /\ Cardinality(Older(runs, p)) < MaxPending
  BY <1>1 DEF OldestPending, Older
<1>3. Older(runs, run) \subseteq Older(runs, p)
  <2>1. SUFFICES ASSUME NEW other \in Older(runs, run) PROVE other \in Older(runs, p)
    OBVIOUS
  <2>2. other.finished \in Int /\ run.finished \in Int /\ p.finished \in Int
    BY <1>2, <2>1, ImpactAssumption DEF Run, Older
  <2>. QED  BY <1>1, <1>2, <2>1, <2>2 DEF Older
<1>4. IsFiniteSet(Older(runs, p)) /\ IsFiniteSet(Older(runs, run))
  BY FS_Subset DEF Older
<1>5. Cardinality(Older(runs, run)) <= Cardinality(Older(runs, p))
  BY <1>3, <1>4, FS_Subset
<1>6. Cardinality(Older(runs, run)) < MaxPending
  BY <1>2, <1>4, <1>5, FS_CardinalityType, ImpactAssumption
<1>. QED  BY <1>6 DEF OldestPending, Older

Line == Run \cup {NoRun}
Mentions(lines, run) == \E i \in DOMAIN lines : lines[i] = run
Where(lines, run) == {i \in DOMAIN lines : lines[i] = run}

\* Lines that mention a run at most once add at most one about it.
LEMMA AppendedLines ==
  ASSUME NEW s \in Seq(Line), NEW t \in Seq(Line), NEW run \in Run,
         \A i, j \in DOMAIN t : t[i] = run /\ t[j] = run => i = j
  PROVE  /\ Cardinality(Where(s, run)) \in Nat
         /\ Cardinality(Where(s \o t, run)) \in Nat
         /\ Cardinality(Where(s \o t, run))
              <= Cardinality(Where(s, run)) + (IF Mentions(t, run) THEN 1 ELSE 0)
<1>1. IsFiniteSet(Where(s, run)) /\ Cardinality(Where(s, run)) \in Nat
  <2>1. IsFiniteSet(1 .. Len(s)) /\ Where(s, run) \subseteq 1 .. Len(s)
    BY FS_Interval DEF Where
  <2>. QED  BY <2>1, FS_Subset, FS_CardinalityType
<1>2. CASE ~Mentions(t, run)
  <2>1. Where(s \o t, run) = Where(s, run)
    BY <1>2 DEF Where, Mentions
  <2>. QED  BY <1>1, <1>2, <2>1
<1>3. CASE Mentions(t, run)
  <2>1. PICK k \in DOMAIN t : t[k] = run
    BY <1>3 DEF Mentions
  <2>2. Where(s \o t, run) \subseteq Where(s, run) \cup {Len(s) + k}
    BY <2>1 DEF Where
  <2>3. IsFiniteSet(Where(s, run) \cup {Len(s) + k})
        /\ Cardinality(Where(s, run) \cup {Len(s) + k}) <= Cardinality(Where(s, run)) + 1
    <3>1. \A S, x : IsFiniteSet(S) => /\ IsFiniteSet(S \cup {x})
                    /\ Cardinality(S \cup {x}) = IF x \in S THEN Cardinality(S) ELSE Cardinality(S) + 1
      BY FS_AddElement
    <3>2. Cardinality(Where(s, run) \cup {Len(s) + k}) \in {Cardinality(Where(s, run)), Cardinality(Where(s, run)) + 1}
      BY <1>1, <3>1
    <3>. QED  BY <1>1, <3>1, <3>2
  <2>4. /\ IsFiniteSet(Where(s \o t, run))
        /\ Cardinality(Where(s \o t, run)) <= Cardinality(Where(s, run) \cup {Len(s) + k})
    BY <2>2, <2>3, FS_Subset
  <2>5. /\ Cardinality(Where(s \o t, run)) \in Nat
        /\ Cardinality(Where(s, run) \cup {Len(s) + k}) \in Nat
    BY <2>3, <2>4, FS_CardinalityType
  <2>. QED  BY <1>1, <1>3, <2>3, <2>4, <2>5
<1>. QED  BY <1>2, <1>3

\* What an append leaves: the lines there were, and each new one, or the run
\* among the glued.
LEMMA ExtendedLines ==
  ASSUME ImpactTypeOK, NEW lines \in Seq(Run), IsInjective(lines)
  PROVE  /\ Extended(lines) \in Seq(Line)
         /\ \A run \in Run :
              /\ Cardinality(Where(annotations, run)) \in Nat
              /\ Cardinality(Where(Extended(lines), run)) \in Nat
              /\ Cardinality(Where(Extended(lines), run))
                   <= Cardinality(Where(annotations, run)) + (IF Mentions(lines, run) THEN 1 ELSE 0)
         /\ \A run \in Run : Mentions(annotations, run) => Mentions(Extended(lines), run)
         /\ \A run \in Run :
              Mentions(lines, run) => Mentions(Extended(lines), run) \/ run \in Glued(lines)
<1> DEFINE t == IF torn /\ lines # <<>> THEN [lines EXCEPT ![1] = NoRun] ELSE lines
<1>1. annotations \in Seq(Line) /\ t \in Seq(Line) /\ DOMAIN t = DOMAIN lines
  <2>1. lines \in Seq(Line) /\ NoRun \in Line /\ annotations \in Seq(Line)
    BY DEF ImpactTypeOK, Line
  <2>2. ASSUME lines # <<>> PROVE [lines EXCEPT ![1] = NoRun] \in Seq(Line)
    BY <2>1, <2>2
  <2>. QED  BY <2>1, <2>2
<1>2. \A run \in Run : run # NoRun
  BY DEF Run, NoRun, Never
<1>3. \A i \in DOMAIN t : t[i] = lines[i] \/ (t[i] = NoRun /\ i = 1 /\ torn /\ lines # <<>>)
  OBVIOUS
<1>4. Extended(lines) = annotations \o t
  BY DEF Extended
<1>5. ASSUME NEW run \in Run
      PROVE  /\ \A i, j \in DOMAIN t : t[i] = run /\ t[j] = run => i = j
             /\ Mentions(t, run) => Mentions(lines, run)
  BY <1>1, <1>2, <1>3 DEF IsInjective, Mentions
<1>6. ASSUME NEW run \in Run, Mentions(lines, run)
      PROVE  Mentions(t, run) \/ run \in Glued(lines)
  <2>1. PICK i \in DOMAIN lines : lines[i] = run
    BY <1>6 DEF Mentions
  <2>2. CASE t[i] = run
    BY <1>1, <2>1, <2>2 DEF Mentions
  <2>3. CASE t[i] # run
    <3>1. i = 1 /\ torn /\ lines # <<>>
      BY <1>1, <1>3, <2>1, <2>3
    <3>. QED  BY <3>1, <2>1 DEF Glued
  <2>. QED  BY <2>2, <2>3
<1>. HIDE DEF t
<1>7. ASSUME NEW run \in Run
      PROVE  /\ Mentions(annotations, run) => Mentions(annotations \o t, run)
             /\ Mentions(t, run) => Mentions(annotations \o t, run)
  <2>1. ASSUME NEW i \in DOMAIN t, t[i] = run PROVE Mentions(annotations \o t, run)
    <3>1. Len(annotations) + i \in DOMAIN (annotations \o t) /\ (annotations \o t)[Len(annotations) + i] = run
      BY <1>1, <2>1
    <3>. QED  BY <3>1 DEF Mentions
  <2>2. ASSUME NEW i \in DOMAIN annotations, annotations[i] = run PROVE Mentions(annotations \o t, run)
    <3>1. i \in DOMAIN (annotations \o t) /\ (annotations \o t)[i] = run
      BY <1>1, <2>2
    <3>. QED  BY <3>1 DEF Mentions
  <2>. QED  BY <2>1, <2>2 DEF Mentions
<1>8. annotations \o t \in Seq(Line)
  BY <1>1
<1>9. ASSUME NEW run \in Run
      PROVE  /\ Cardinality(Where(annotations, run)) \in Nat
             /\ Cardinality(Where(annotations \o t, run)) \in Nat
             /\ Cardinality(Where(annotations \o t, run))
                  <= Cardinality(Where(annotations, run)) + (IF Mentions(lines, run) THEN 1 ELSE 0)
  <2>1. /\ Cardinality(Where(annotations, run)) \in Nat
        /\ Cardinality(Where(annotations \o t, run)) \in Nat
        /\ Cardinality(Where(annotations \o t, run))
             <= Cardinality(Where(annotations, run)) + (IF Mentions(t, run) THEN 1 ELSE 0)
    BY <1>1, <1>5, AppendedLines
  <2>. QED  BY <2>1, <1>5
<1>. QED  BY <1>4, <1>6, <1>7, <1>8, <1>9

LEMMA LinesAreCounted ==
  ASSUME ImpactTypeOK, NEW run \in Run
  PROVE  Cardinality(Lines(run)) \in Nat
<1>1. IsFiniteSet(1 .. Len(annotations)) /\ Lines(run) \subseteq 1 .. Len(annotations)
  BY FS_Interval DEF Lines, ImpactTypeOK
<1>. QED  BY <1>1, FS_Subset, FS_CardinalityType

-----------------------------------------------------------------------------
(* The assessor: every step keeps the invariant.                           *)

LEMMA InitImpact == ImpactInit => ImpactIInv
<1>. SUFFICES ASSUME ImpactInit PROVE ImpactIInv
  OBVIOUS
<1>1. ImpactTypeOK
  <2>1. NoPass \in [phase : {"idle", "asked", "parsed", "appended"}, packet : SUBSET Run,
                     after : Int, batch : Seq(Run)]
    BY DEF NoPass, Never
  <2>2. annotations \in Seq(Run \cup {NoRun})
    BY DEF ImpactInit
  <2>3. clock \in 0 .. MaxClock /\ kills \in 0 .. MaxKills /\ origin \in Int
    BY ImpactAssumption DEF ImpactInit, Never
  <2>4. unrecorded \in [Agents -> {Never} \cup 1 .. MaxClock]
    BY DEF ImpactInit
  <2>. QED  BY <2>1, <2>2, <2>3, <2>4 DEF ImpactInit, ImpactTypeOK
<1>2. FinitelyRecorded /\ PacketIsPrefix /\ BatchIsPacket /\ PassedRunsAreAnnotated
  BY FS_EmptySet DEF ImpactInit, FinitelyRecorded, PacketIsPrefix, BatchIsPacket,
     PassedRunsAreAnnotated, UsageRuns, NoPass
<1>3. LinesAreFew
  <2>1. \A run \in Run : Lines(run) = {}
    BY DEF ImpactInit, Lines
  <2>. QED  BY <2>1, FS_EmptySet DEF LinesAreFew, ImpactInit
<1>. QED  BY <1>1, <1>2, <1>3 DEF ImpactIInv

\* What a response may be.
LEMMA ResponseType ==
  ASSUME ImpactTypeOK, NEW batch \in Responses
  PROVE  batch \in Seq(Run)
BY DEF Responses, UsageRuns, ImpactTypeOK

\* A killed append has written a beginning of the batch.
LEMMA BeginningOfBatch ==
  ASSUME NEW batch \in Seq(Run), IsInjective(batch), NEW k \in 0 .. Len(batch)
  PROVE  /\ SubSeq(batch, 1, k) \in Seq(Run) /\ IsInjective(SubSeq(batch, 1, k))
         /\ \A run \in Run : Mentions(SubSeq(batch, 1, k), run) => Mentions(batch, run)
<1>1. /\ SubSeq(batch, 1, k) \in Seq(Run) /\ DOMAIN SubSeq(batch, 1, k) = 1 .. k
      /\ \A i \in 1 .. k : SubSeq(batch, 1, k)[i] = batch[i]
  OBVIOUS
<1>. QED  BY <1>1 DEF IsInjective, Mentions

\* The kinds of append: a whole batch, or the beginning a killed one left.
Appends(lines) ==
  /\ lines \in Seq(Run) /\ IsInjective(lines)
  /\ annotations' = Extended(lines)
  /\ torn' \in BOOLEAN
  /\ glued' = glued \cup Glued(lines)

LEMMA AppendKeeps ==
  ASSUME ImpactTypeOK, NEW lines, Appends(lines)
  PROVE  /\ annotations' \in Seq(Line) /\ glued' \subseteq Run
         /\ \A run \in Run : run \in Annotated \cup glued => run \in Annotated' \cup glued'
         /\ \A run \in Run : Mentions(lines, run) => run \in Annotated' \cup glued'
<1>1. Glued(lines) \subseteq Run
  BY DEF Glued, Appends
<1>2. \A run \in Run : run \in Annotated <=> Mentions(annotations, run)
  BY DEF Annotated, Mentions, Run, NoRun, Never
<1>3. \A run \in Run : run \in Annotated' <=> Mentions(annotations', run)
  BY DEF Annotated, Mentions, Run, NoRun, Never
<1>. QED  BY <1>1, <1>2, <1>3, ExtendedLines DEF Appends, ImpactTypeOK

\* An append keeps the types.
LEMMA ExtendedType ==
  ASSUME ImpactTypeOK, NEW lines \in Seq(Run)
  PROVE  Extended(lines) \in Seq(Run \cup {NoRun}) /\ Glued(lines) \subseteq Run
<1>1. annotations \in Seq(Run \cup {NoRun}) /\ lines \in Seq(Run \cup {NoRun})
  BY DEF ImpactTypeOK
<1>2. ASSUME lines # <<>>
      PROVE  [lines EXCEPT ![1] = NoRun] \in Seq(Run \cup {NoRun}) /\ Head(lines) \in Run
  BY <1>1, <1>2
<1>. QED  BY <1>1, <1>2 DEF Extended, Glued

\* Every action keeps the variables within their types.
LEMMA ImpactTypePreserved ==
  ASSUME ImpactTypeOK, ImpactNext
  PROVE  ImpactTypeOK'
<1>. USE DEF ImpactTypeOK, impactFiles, impactHistory
<1>1. NoPass \in [phase : {"idle", "asked", "parsed", "appended"}, packet : SUBSET Run,
                  after : Int, batch : Seq(Run)]
  BY DEF NoPass, Never
<1>2. ASSUME NEW a \in Agents, FinishRun(a) PROVE ImpactTypeOK'
  BY <1>2, ImpactAssumption DEF FinishRun
<1>3. ASSUME NEW a \in Agents, RecordRun(a) PROVE ImpactTypeOK'
  <2>1. [agent |-> a, finished |-> unrecorded[a]] \in Run
    BY <1>3 DEF RecordRun, Run
  <2>2. unrecorded' \in [Agents -> {Never} \cup 1 .. MaxClock]
    BY <1>3 DEF RecordRun
  <2>3. recorded' \subseteq Run /\ overtaken' \subseteq Run
    BY <1>3, <2>1 DEF RecordRun
  <2>. QED  BY <1>3, <2>2, <2>3 DEF RecordRun
<1>4. CASE BuildContext
  <2>1. OldestPending(FinishedAfter(assessor'.after)) \subseteq Run
    BY DEF OldestPending, FinishedAfter, UsageRuns
  <2>2. (IF cursor = Never THEN clock - Lookback ELSE cursor) \in Int /\ <<>> \in Seq(Run)
    BY ImpactAssumption DEF Never
  <2>3. assessor' \in [phase : {"idle", "asked", "parsed", "appended"}, packet : SUBSET Run,
                       after : Int, batch : Seq(Run)]
    BY <1>4, <2>1, <2>2 DEF BuildContext
  <2>. QED  BY <1>4, <2>3 DEF BuildContext
<1>5. ASSUME NEW batch \in Responses, AcceptResponse(batch) PROVE ImpactTypeOK'
  BY <1>5, ResponseType DEF AcceptResponse
<1>6. CASE RejectResponse
  BY <1>1, <1>6 DEF RejectResponse
<1>8. CASE AppendAnnotations
  <2>1. annotations' \in Seq(Run \cup {NoRun}) /\ glued' \subseteq Run
    <3>1. assessor.batch \in Seq(Run)
      OBVIOUS
    <3>. QED  BY <1>8, <3>1, ExtendedType DEF AppendAnnotations
  <2>2. assessor' \in [phase : {"idle", "asked", "parsed", "appended"}, packet : SUBSET Run,
                       after : Int, batch : Seq(Run)] /\ torn' \in BOOLEAN
    BY <1>8 DEF AppendAnnotations
  <2>. QED  BY <1>8, <2>1, <2>2 DEF AppendAnnotations
<1>9. CASE WriteCursor
  <2>1. cursor' \in {Never} \cup 1 .. MaxClock
    <3>1. CASE assessor.packet = {}
      BY <1>9, <3>1 DEF WriteCursor, NewCursor
    <3>2. CASE assessor.packet # {}
      <4>1. PICK run \in assessor.packet : Latest(assessor.packet) = run.finished
        BY <3>2, LatestOfPacket
      <4>. QED  BY <1>9, <3>2, <4>1 DEF WriteCursor, NewCursor, Run
    <3>. QED  BY <3>1, <3>2
  <2>. QED  BY <1>1, <1>9, <2>1 DEF WriteCursor
<1>10. CASE KillAssessor
  <2>1. kills' \in 0 .. MaxKills
    BY <1>10, ImpactAssumption DEF KillAssessor
  <2>2. annotations' \in Seq(Run \cup {NoRun}) /\ glued' \subseteq Run /\ torn' \in BOOLEAN
    <3>1. ASSUME NEW k \in 0 .. Len(assessor.batch),
                 annotations' = Extended(SubSeq(assessor.batch, 1, k)),
                 glued' = glued \cup Glued(SubSeq(assessor.batch, 1, k))
          PROVE  annotations' \in Seq(Run \cup {NoRun}) /\ glued' \subseteq Run
      <4>1. SubSeq(assessor.batch, 1, k) \in Seq(Run)
        OBVIOUS
      <4>. QED  BY <3>1, <4>1, ExtendedType
    <3>. QED  BY <1>10, <3>1 DEF KillAssessor
  <2>. QED  BY <1>1, <1>10, <2>1, <2>2 DEF KillAssessor
<1>. QED  BY <1>2, <1>3, <1>4, <1>5, <1>6, <1>8, <1>9, <1>10 DEF ImpactNext, Assess

\* Nothing the invariant is about changes when an agent finishes a run.
LEMMA FinishRunKeeps ==
  ASSUME ImpactIInv, NEW a \in Agents, FinishRun(a)
  PROVE  FinitelyRecorded' /\ PacketIsPrefix' /\ BatchIsPacket' /\ PassedRunsAreAnnotated' /\ LinesAreFew'
BY DEF ImpactIInv, FinishRun, impactFiles, impactHistory, FinitelyRecorded, PacketIsPrefix,
       BatchIsPacket, PassedRunsAreAnnotated, LinesAreFew, Lines, Assessed, UsageRuns, Annotated

\* A run recorded late is among the overtaken.
LEMMA RecordRunKeeps ==
  ASSUME ImpactIInv, NEW a \in Agents, RecordRun(a)
  PROVE  FinitelyRecorded' /\ PacketIsPrefix' /\ BatchIsPacket' /\ PassedRunsAreAnnotated' /\ LinesAreFew'
<1> DEFINE run == [agent |-> a, finished |-> unrecorded[a]]
<1>1. /\ recorded' = recorded \cup {run}
      /\ overtaken' = IF run.finished <= cursor \/ Overtakes(assessor.packet, run)
                      THEN overtaken \cup {run} ELSE overtaken
      /\ UNCHANGED <<annotations, torn, cursor, assessor, origin, glued, kills>>
  BY DEF RecordRun
<1>. HIDE DEF run
<1>2. FinitelyRecorded'
  BY <1>1, FS_AddElement DEF ImpactIInv, FinitelyRecorded
<1>3. UsageRuns \subseteq UsageRuns' /\ UsageRuns' \subseteq UsageRuns \cup {run}
  BY <1>1 DEF UsageRuns
<1>4. PacketIsPrefix'
  BY <1>1, <1>3 DEF ImpactIInv, PacketIsPrefix, Overtakes
<1>5. BatchIsPacket' /\ LinesAreFew'
  BY <1>1 DEF ImpactIInv, BatchIsPacket, LinesAreFew, Lines, Assessed, Annotated
<1>6. PassedRunsAreAnnotated'
  BY <1>1, <1>3 DEF ImpactIInv, PassedRunsAreAnnotated, Annotated
<1>. QED  BY <1>2, <1>4, <1>5, <1>6

\* The packet is closed, from the cursor on.
LEMMA BuildContextKeeps ==
  ASSUME ImpactIInv, BuildContext
  PROVE  FinitelyRecorded' /\ PacketIsPrefix' /\ BatchIsPacket' /\ PassedRunsAreAnnotated' /\ LinesAreFew'
<1> DEFINE after == IF cursor = Never THEN clock - Lookback ELSE cursor
           packet == OldestPending(FinishedAfter(after))
<1>1. /\ assessor.phase = "idle" /\ assessor' = [phase |-> "asked", packet |-> packet,
                                                 after |-> after, batch |-> <<>>]
      /\ UNCHANGED <<recorded, annotations, torn, cursor, origin, overtaken, glued, kills>>
  BY DEF BuildContext, impactFiles, impactHistory
<1>2. FinishedAfter(after) \subseteq UsageRuns /\ UsageRuns \subseteq Run /\ IsFiniteSet(FinishedAfter(after))
  <2>1. UsageRuns \subseteq recorded /\ FinishedAfter(after) \subseteq UsageRuns
    BY DEF UsageRuns, FinishedAfter
  <2>. QED  BY <2>1, FS_Subset DEF ImpactIInv, FinitelyRecorded, ImpactTypeOK
<1>3. \A run \in FinishedAfter(after) : Overtakes(packet, run) => run \in packet
  BY <1>2, PacketIsClosed
<1>4. packet \subseteq FinishedAfter(after)
  BY DEF OldestPending
<1>5. \A run \in UsageRuns : run \in FinishedAfter(after) <=> after < run.finished
  BY DEF FinishedAfter
<1>6. cursor # Never => after = cursor
  OBVIOUS
<1>. HIDE DEF after, packet
<1>7. PacketIsPrefix'
  BY <1>1, <1>2, <1>3, <1>4, <1>5, <1>6 DEF PacketIsPrefix, UsageRuns
<1>8. FinitelyRecorded' /\ BatchIsPacket' /\ PassedRunsAreAnnotated' /\ LinesAreFew'
  BY <1>1 DEF ImpactIInv, FinitelyRecorded, BatchIsPacket, PassedRunsAreAnnotated, LinesAreFew,
              Lines, Assessed, UsageRuns, Annotated
<1>. QED  BY <1>7, <1>8

\* A response is taken when it covers the packet, and otherwise nothing is left
\* of the pass.
LEMMA ResponseKeeps ==
  ASSUME ImpactIInv, (\E batch \in Responses : AcceptResponse(batch)) \/ RejectResponse
  PROVE  FinitelyRecorded' /\ PacketIsPrefix' /\ BatchIsPacket' /\ PassedRunsAreAnnotated' /\ LinesAreFew'
<1>1. CASE RejectResponse
  BY <1>1 DEF ImpactIInv, RejectResponse, NoPass, impactFiles, impactHistory, FinitelyRecorded,
     PacketIsPrefix, BatchIsPacket, PassedRunsAreAnnotated, LinesAreFew, Lines, Assessed, UsageRuns,
     Annotated
<1>2. ASSUME NEW batch \in Responses, AcceptResponse(batch)
      PROVE  FinitelyRecorded' /\ PacketIsPrefix' /\ BatchIsPacket' /\ PassedRunsAreAnnotated' /\ LinesAreFew'
  <2>1. /\ assessor.phase = "asked" /\ assessor'.phase = "parsed" /\ assessor'.batch = batch
        /\ assessor'.packet = assessor.packet /\ assessor'.after = assessor.after
        /\ CoversExactly(batch, assessor.packet)
        /\ UNCHANGED <<recorded, annotations, torn, cursor, origin, overtaken, glued, kills>>
    BY <1>2 DEF AcceptResponse, impactFiles, impactHistory, ImpactIInv, ImpactTypeOK
  <2>. QED  BY <2>1 DEF ImpactIInv, FinitelyRecorded, PacketIsPrefix, BatchIsPacket,
              PassedRunsAreAnnotated, LinesAreFew, Lines, Assessed, UsageRuns, Annotated
<1>. QED  BY <1>1, <1>2

\* The packet is ahead of the cursor.
LEMMA PacketIsAhead ==
  ASSUME ImpactIInv, assessor.phase # "idle", NEW run \in assessor.packet
  PROVE  run \in Run /\ cursor < run.finished
<1>1. run \in UsageRuns /\ assessor.after < run.finished /\ (cursor # Never => assessor.after = cursor)
  BY DEF ImpactIInv, PacketIsPrefix
<1>2. run \in Run /\ run.finished \in 1 .. MaxClock
  BY <1>1 DEF ImpactIInv, ImpactTypeOK, UsageRuns, Run
<1>. QED  BY <1>1, <1>2, ImpactAssumption DEF Never

\* The lines of the batch, each once and none about a run the cursor passed.
LEMMA AppendAnnotationsKeeps ==
  ASSUME ImpactIInv, AppendAnnotations
  PROVE  FinitelyRecorded' /\ PacketIsPrefix' /\ BatchIsPacket' /\ PassedRunsAreAnnotated' /\ LinesAreFew'
<1> DEFINE batch == assessor.batch
<1>1. /\ assessor.phase = "parsed" /\ assessor'.phase = "appended" /\ assessor'.batch = batch
      /\ assessor'.packet = assessor.packet /\ assessor'.after = assessor.after
      /\ annotations' = Extended(batch) /\ torn' \in BOOLEAN /\ glued' = glued \cup Glued(batch)
      /\ UNCHANGED <<recorded, cursor, origin, overtaken, kills>>
  BY DEF AppendAnnotations, ImpactIInv, ImpactTypeOK
<1>2. batch \in Seq(Run) /\ CoversExactly(batch, assessor.packet)
  BY <1>1 DEF ImpactIInv, ImpactTypeOK, BatchIsPacket
<1>3. Appends(batch)
  BY <1>1, <1>2 DEF Appends, CoversExactly
<1>4. \A run \in Run : run \in assessor.packet <=> Mentions(batch, run)
  BY <1>2 DEF CoversExactly, ToSet, Mentions
<1>5. UsageRuns \subseteq Run /\ assessor.packet \subseteq Run /\ UsageRuns' = UsageRuns
  BY <1>1 DEF ImpactIInv, ImpactTypeOK, UsageRuns
<1>6. /\ \A run \in Run : run \in Annotated \cup glued => run \in Annotated' \cup glued'
      /\ \A run \in Run : Mentions(batch, run) => run \in Annotated' \cup glued'
  BY <1>3, AppendKeeps DEF ImpactIInv
<1>7. FinitelyRecorded' /\ PacketIsPrefix'
  BY <1>1, <1>5 DEF ImpactIInv, FinitelyRecorded, PacketIsPrefix
<1>8. BatchIsPacket'
  BY <1>1, <1>2, <1>4, <1>5, <1>6 DEF BatchIsPacket, CoversExactly
<1>9. PassedRunsAreAnnotated'
  BY <1>1, <1>5, <1>6 DEF ImpactIInv, PassedRunsAreAnnotated
<1>10. ASSUME NEW run \in Run
       PROVE  (Cardinality(Lines(run)) <= kills + (IF Assessed(run) THEN 1 ELSE 0))'
  <2>1. /\ Cardinality(Lines(run)) \in Nat /\ Cardinality(Lines(run)') \in Nat
        /\ Cardinality(Lines(run)') <= Cardinality(Lines(run)) + (IF Mentions(batch, run) THEN 1 ELSE 0)
    <3>1. ImpactTypeOK /\ batch \in Seq(Run) /\ IsInjective(batch)
      BY <1>3 DEF ImpactIInv, Appends
    <3>2. /\ Cardinality(Where(annotations, run)) \in Nat
          /\ Cardinality(Where(Extended(batch), run)) \in Nat
          /\ Cardinality(Where(Extended(batch), run))
               <= Cardinality(Where(annotations, run)) + (IF Mentions(batch, run) THEN 1 ELSE 0)
      BY <3>1, ExtendedLines
    <3>3. Lines(run) = Where(annotations, run) /\ Lines(run)' = Where(Extended(batch), run)
      BY <1>1 DEF Lines, Where
    <3>. QED  BY <3>2, <3>3
  <2>2. Cardinality(Lines(run)) <= kills + (IF Assessed(run) THEN 1 ELSE 0) /\ kills \in Nat
    BY ImpactAssumption DEF ImpactIInv, LinesAreFew, ImpactTypeOK
  <2>3. CASE run \in assessor.packet
    <3>1. cursor < run.finished
      BY <1>1, <2>3, PacketIsAhead
    <3>2. ~Assessed(run)
      BY <1>1, <3>1 DEF Assessed, ImpactIInv, ImpactTypeOK, Run, Never
    <3>3. Assessed(run)'
      BY <1>1, <2>3 DEF Assessed
    <3>. QED  BY <1>1, <2>1, <2>2, <3>2, <3>3
  <2>4. CASE run \notin assessor.packet
    <3>1. ~Mentions(batch, run) /\ (Assessed(run)' <=> Assessed(run))
      BY <1>1, <1>4, <2>4 DEF Assessed
    <3>. QED  BY <1>1, <2>1, <2>2, <3>1
  <2>. QED  BY <2>3, <2>4
<1>11. LinesAreFew'
  BY <1>10 DEF LinesAreFew
<1>. QED  BY <1>7, <1>8, <1>9, <1>11

\* What the cursor moves past has been appended.
LEMMA WriteCursorKeeps ==
  ASSUME ImpactIInv, WriteCursor
  PROVE  FinitelyRecorded' /\ PacketIsPrefix' /\ BatchIsPacket' /\ PassedRunsAreAnnotated' /\ LinesAreFew'
<1> DEFINE packet == assessor.packet
<1>1. /\ assessor.phase = "appended" /\ assessor' = NoPass
      /\ cursor' = (IF packet = {} THEN cursor ELSE Latest(packet))
      /\ origin' = (IF cursor = Never THEN assessor.after ELSE origin)
      /\ UNCHANGED <<recorded, annotations, overtaken, glued, kills>>
  BY DEF WriteCursor, NewCursor
<1>2. packet \subseteq Run /\ UsageRuns \subseteq Run /\ UsageRuns' = UsageRuns
      /\ Annotated' = Annotated /\ cursor \in Int
      /\ (\A run \in Run : run.finished \in Int /\ (cursor = Never => cursor < run.finished))
  BY <1>1, ImpactAssumption DEF ImpactIInv, ImpactTypeOK, UsageRuns, Run, Never, Annotated
<1>3. FinitelyRecorded' /\ PacketIsPrefix' /\ BatchIsPacket'
  BY <1>1 DEF ImpactIInv, FinitelyRecorded, PacketIsPrefix, BatchIsPacket, NoPass
<1>4. CASE packet = {}
  <2>1. cursor' = cursor
    BY <1>1, <1>4
  <2>2. PassedRunsAreAnnotated'
    <3>1. SUFFICES ASSUME NEW run \in UsageRuns, run.finished <= cursor
                   PROVE  run \in Annotated \cup overtaken \cup glued \/ run.finished <= origin'
      BY <1>1, <1>2, <2>1 DEF PassedRunsAreAnnotated
    <3>2. cursor # Never
      BY <1>2, <3>1
    <3>. QED  BY <1>1, <3>1, <3>2 DEF ImpactIInv, PassedRunsAreAnnotated
  <2>3. LinesAreFew'
    BY <1>1, <1>4, <2>1 DEF ImpactIInv, LinesAreFew, Lines, Assessed, NoPass
  <2>. QED  BY <1>3, <2>2, <2>3
<1>5. CASE packet # {}
  <2>1. PICK last \in packet : cursor' = last.finished /\ \A run \in packet : run.finished <= cursor'
    BY <1>1, <1>2, <1>5, LatestOfPacket
  <2>2. cursor < cursor' /\ cursor' \in Int
    BY <1>1, <1>2, <2>1, PacketIsAhead
  <2>3. PassedRunsAreAnnotated'
    <3>1. SUFFICES ASSUME NEW run \in UsageRuns, run.finished <= cursor'
                   PROVE  run \in Annotated \cup overtaken \cup glued \/ run.finished <= origin'
      BY <1>1, <1>2 DEF PassedRunsAreAnnotated
    <3>2. assessor.after \in Int /\ run.finished \in Int
      BY <1>2 DEF ImpactIInv, ImpactTypeOK
    <3>3. CASE assessor.after < run.finished
      <4>1. run \in packet \cup overtaken
        BY <1>1, <2>1, <3>1, <3>3 DEF ImpactIInv, PacketIsPrefix, Overtakes
      <4>. QED  BY <1>1, <4>1 DEF ImpactIInv, BatchIsPacket
    <3>4. CASE run.finished <= assessor.after
      <4>1. CASE cursor = Never
        BY <1>1, <3>4, <4>1
      <4>2. CASE cursor # Never
        BY <1>1, <3>4, <4>2 DEF ImpactIInv, PacketIsPrefix, PassedRunsAreAnnotated
      <4>. QED  BY <4>1, <4>2
    <3>. QED  BY <3>2, <3>3, <3>4
  <2>4. \A run \in Run : Assessed(run) => Assessed(run)'
    BY <1>1, <1>2, <2>1, <2>2 DEF Assessed
  <2>5. LinesAreFew'
    <3>1. SUFFICES ASSUME NEW run \in Run
                   PROVE  Cardinality(Lines(run)) <= kills + (IF Assessed(run)' THEN 1 ELSE 0)
      BY <1>1 DEF LinesAreFew, Lines
    <3>2. Cardinality(Lines(run)) \in Nat /\ kills \in Nat
      BY LinesAreCounted, ImpactAssumption DEF ImpactIInv, ImpactTypeOK
    <3>. QED  BY <3>2, <2>4 DEF ImpactIInv, LinesAreFew
  <2>. QED  BY <1>3, <2>3, <2>5
<1>. QED  BY <1>4, <1>5

\* Whatever a killed assessor leaves behind is paid for by the kill.
LEMMA KillAssessorKeeps ==
  ASSUME ImpactIInv, KillAssessor
  PROVE  FinitelyRecorded' /\ PacketIsPrefix' /\ BatchIsPacket' /\ PassedRunsAreAnnotated' /\ LinesAreFew'
<1>1. /\ assessor.phase # "idle" /\ kills' = kills + 1 /\ assessor' = NoPass
      /\ UNCHANGED <<recorded, cursor, origin, overtaken>>
  BY DEF KillAssessor
<1>2. UsageRuns' = UsageRuns /\ UsageRuns \subseteq Run /\ ImpactTypeOK /\ kills \in Nat
  BY <1>1, ImpactAssumption DEF UsageRuns, ImpactIInv, ImpactTypeOK
<1>3. FinitelyRecorded' /\ PacketIsPrefix' /\ BatchIsPacket'
  BY <1>1 DEF ImpactIInv, FinitelyRecorded, PacketIsPrefix, BatchIsPacket, NoPass
<1>4. \A run \in Run : Assessed(run)' <=> run.finished <= cursor
  BY <1>1 DEF Assessed, NoPass
<1>5. CASE UNCHANGED <<annotations, glued>>
  <2>1. PassedRunsAreAnnotated'
    BY <1>1, <1>2, <1>5 DEF ImpactIInv, PassedRunsAreAnnotated, Annotated
  <2>2. \A run \in Run : Lines(run)' = Lines(run) /\ Cardinality(Lines(run)) \in Nat
    BY <1>2, <1>5, LinesAreCounted DEF Lines
  <2>3. \A run \in Run : Cardinality(Lines(run)) <= kills + (IF Assessed(run) THEN 1 ELSE 0)
    BY DEF ImpactIInv, LinesAreFew
  <2>4. LinesAreFew'
    <3>1. SUFFICES ASSUME NEW run \in Run
                   PROVE  Cardinality(Lines(run)) <= kills + 1 + (IF Assessed(run)' THEN 1 ELSE 0)
      BY <1>1, <2>2 DEF LinesAreFew
    <3>2. CASE run.finished <= cursor
      BY <1>2, <1>4, <2>2, <2>3, <3>2 DEF Assessed
    <3>3. CASE ~(run.finished <= cursor)
      BY <1>2, <1>4, <2>2, <2>3, <3>3
    <3>. QED  BY <3>2, <3>3
  <2>. QED  BY <1>3, <2>1, <2>4
<1>6. ASSUME assessor.phase = "parsed", NEW k \in 0 .. Len(assessor.batch),
             annotations' = Extended(SubSeq(assessor.batch, 1, k)), torn' \in BOOLEAN,
             glued' = glued \cup Glued(SubSeq(assessor.batch, 1, k))
      PROVE  PassedRunsAreAnnotated' /\ LinesAreFew'
  <2> DEFINE lines == SubSeq(assessor.batch, 1, k)
  <2>1. assessor.batch \in Seq(Run) /\ IsInjective(assessor.batch)
        /\ CoversExactly(assessor.batch, assessor.packet)
    BY <1>6 DEF ImpactIInv, ImpactTypeOK, BatchIsPacket, CoversExactly
  <2>2. /\ lines \in Seq(Run) /\ IsInjective(lines)
        /\ \A run \in Run : Mentions(lines, run) => Mentions(assessor.batch, run)
    BY <2>1, BeginningOfBatch
  <2>. HIDE DEF lines
  <2>3. \A run \in Run : Mentions(lines, run) => run \in assessor.packet
    BY <2>1, <2>2 DEF CoversExactly, ToSet, Mentions
  <2>4. Appends(lines)
    BY <1>6, <2>2 DEF Appends, lines
  <2>5. PassedRunsAreAnnotated'
    <3>1. \A run \in Run : run \in Annotated \cup glued => run \in Annotated' \cup glued'
      BY <1>2, <2>4, AppendKeeps
    <3>. QED  BY <1>1, <1>2, <3>1 DEF ImpactIInv, PassedRunsAreAnnotated
  <2>6. LinesAreFew'
    <3>1. SUFFICES ASSUME NEW run \in Run
                   PROVE  Cardinality(Lines(run)') <= kills + 1 + (IF Assessed(run)' THEN 1 ELSE 0)
      BY <1>1 DEF LinesAreFew
    <3>2. /\ Cardinality(Where(annotations, run)) \in Nat
          /\ Cardinality(Where(Extended(lines), run)) \in Nat
          /\ Cardinality(Where(Extended(lines), run))
               <= Cardinality(Where(annotations, run)) + (IF Mentions(lines, run) THEN 1 ELSE 0)
      BY <1>2, <2>2, ExtendedLines
    <3>3. Lines(run) = Where(annotations, run) /\ Lines(run)' = Where(Extended(lines), run)
      BY <2>4 DEF Lines, Where, Appends
    <3>4. Cardinality(Lines(run)) <= kills + (IF run.finished <= cursor THEN 1 ELSE 0)
      BY <1>6 DEF ImpactIInv, LinesAreFew, Assessed
    <3>5. Mentions(lines, run) => ~(run.finished <= cursor)
      <4>1. SUFFICES ASSUME run \in assessor.packet PROVE ~(run.finished <= cursor)
        BY <2>3
      <4>2. cursor < run.finished
        BY <1>1, <4>1, PacketIsAhead
      <4>. QED  BY <4>2 DEF ImpactIInv, ImpactTypeOK, Run, Never
    <3>. QED  BY <1>2, <1>4, <3>2, <3>3, <3>4, <3>5
  <2>. QED  BY <2>5, <2>6
<1>7. torn' \in BOOLEAN
  BY ImpactTypePreserved DEF ImpactIInv, ImpactTypeOK, ImpactNext
<1>. QED  BY <1>3, <1>5, <1>6, <1>7 DEF KillAssessor

\* The invariant holds whatever agents, responses and kills do.
LEMMA ImpactStep == ImpactIInv /\ [ImpactNext]_impactVars => ImpactIInv'
<1>. SUFFICES ASSUME ImpactIInv, [ImpactNext]_impactVars PROVE ImpactIInv'
  OBVIOUS
<1>1. CASE ImpactNext
  <2>1. ImpactTypeOK'
    BY <1>1, ImpactTypePreserved DEF ImpactIInv
  <2>2. FinitelyRecorded' /\ PacketIsPrefix' /\ BatchIsPacket' /\ PassedRunsAreAnnotated' /\ LinesAreFew'
    BY <1>1, FinishRunKeeps, RecordRunKeeps, BuildContextKeeps, ResponseKeeps,
       AppendAnnotationsKeeps, WriteCursorKeeps, KillAssessorKeeps DEF ImpactNext, Assess
  <2>. QED  BY <2>1, <2>2 DEF ImpactIInv
<1>2. CASE UNCHANGED impactVars
  BY <1>2 DEF impactVars, impactFiles, impactHistory, ImpactIInv, ImpactTypeOK, FinitelyRecorded,
     PacketIsPrefix, BatchIsPacket, PassedRunsAreAnnotated, LinesAreFew, Lines, Assessed, UsageRuns,
     Annotated
<1>. QED  BY <1>1, <1>2

\* The assessor passes over no run, but for the losses named, and repeats none
\* but after a kill: build_impact_context, parse_impact_batch and
\* record_impact_batch with any number of agents, runs and kills.
THEOREM AssessmentsComplete == ImpactSpec => []AssessmentsAreComplete
<1>1. ImpactInit => ImpactIInv
  BY InitImpact
<1>2. ImpactIInv /\ [ImpactNext]_impactVars => ImpactIInv'
  BY ImpactStep
<1>3. ImpactIInv => AssessmentsAreComplete
  <2>1. SUFFICES ASSUME ImpactIInv, NEW run \in Run PROVE Cardinality(Lines(run)) <= 1 + kills
    BY DEF ImpactIInv, AssessmentsAreComplete, AssessedOnce
  <2>2. Cardinality(Lines(run)) \in Nat /\ kills \in Nat
    BY <2>1, LinesAreCounted, ImpactAssumption DEF ImpactIInv, ImpactTypeOK
  <2>3. Cardinality(Lines(run)) <= kills + (IF Assessed(run) THEN 1 ELSE 0)
    BY <2>1 DEF ImpactIInv, LinesAreFew
  <2>. QED  BY <2>2, <2>3
<1>. QED  BY <1>1, <1>2, <1>3, PTL DEF ImpactSpec

\* The assessor's files and its pass stay within their types.
THEOREM ImpactTypeCorrect == ImpactSpec => []ImpactTypeOK
<1>1. ImpactIInv => ImpactTypeOK
  BY DEF ImpactIInv
<1>. QED  BY <1>1, InitImpact, ImpactStep, PTL DEF ImpactSpec

-----------------------------------------------------------------------------
(* The timeline: the inductive invariant.                                  *)

WorkType ==
  work \in [Teammate -> [begun : Nat, marker : Nat,
                         phase : {"loop", "pass", "recorded", "failed"},
                         usage : SUBSET Nat, failures : SUBSET Nat]]

\* Passes and their rows, as far as the files go.
Numbered == [agent : Teammate, number : Nat]
SnapshotType ==
  snapshot \in [step : Nat, annotations : SUBSET Pass, begun : SUBSET Pass, gone : SUBSET Numbered,
                rows : SUBSET [pass : Numbered, state : {"completed", "failed", "running"}]]

\* The marker is that of the pass begun last, and there while it runs.
MarkerIsCurrent ==
  \A a \in Teammate : IF work[a].phase = "loop" THEN work[a].marker = NoMarker
                                                ELSE work[a].marker = work[a].begun

\* The file has not been read for this snapshot.
Unread(file, a) == \A i \in DOMAIN ReadOrder : i < snapshot.step => ReadOrder[i] # <<file, a>>

\* What is annotated is on usage, and shown once usage has been read.
AnnotatedAreCompleted ==
  /\ assessed \subseteq Completed /\ snapshot.annotations \subseteq Completed
  /\ snapshot.step <= 1 => snapshot.annotations = {}
  /\ \A p \in snapshot.annotations :
       [pass |-> p, state |-> "completed"] \in snapshot.rows \/ Unread("usage", p.agent)

\* A pass known when the snapshot began is shown, gone, or in a file that is
\* still to be read.
KnownAreToBeShown ==
  \A p \in snapshot.begun :
     \/ p \in Shown \cup snapshot.gone
     \/ p.number \in work[p.agent].usage /\ Unread("usage", p.agent)
     \/ p.number \in work[p.agent].failures /\ Unread("failures", p.agent)
     \/ p.number = work[p.agent].marker /\ Unread("marker", p.agent)

TimelineIInv ==
  WorkType /\ SnapshotType /\ MarkerIsCurrent /\ AnnotatedAreCompleted /\ KnownAreToBeShown

File == {"usage", "failures", "marker"}

\* Annotations are read first and once, and then each file of each agent.
LEMMA FilesOfReadOrder ==
  /\ Len(ReadOrder) \in Nat /\ DOMAIN ReadOrder = 1 .. Len(ReadOrder)
  /\ 1 \in DOMAIN ReadOrder /\ ReadOrder[1] = <<"annotations", "">>
  /\ ReadOrder[1][1] = "annotations"
  /\ \A i \in DOMAIN ReadOrder : i # 1 => ReadOrder[i] \in File \X Teammate
  /\ \A name \in File, a \in Teammate : \E i \in DOMAIN ReadOrder : ReadOrder[i] = <<name, a>>
<1> DEFINE n == Len(Teammates)
<1>1. Teammates \in Seq(STRING) /\ n \in Nat
  BY TimelineAssumption
<1>2. ASSUME NEW name \in File
      PROVE  /\ Of(name) \in Seq(File \X Teammate) /\ Len(Of(name)) = n
             /\ \A i \in 1 .. n : Of(name)[i] = <<name, Teammates[i]>>
  <2>1. Of(name) = [i \in 1 .. n |-> <<name, Teammates[i]>>]
    BY <1>1 DEF Of
  <2>2. \A i \in 1 .. n : <<name, Teammates[i]>> \in File \X Teammate
    BY <1>1 DEF Teammate, ToSet
  <2>. QED  BY <1>1, <2>1, <2>2
<1>3. {"usage", "failures", "marker"} \subseteq File
  BY DEF File
<1> DEFINE u == Of("usage")
           f == Of("failures")
           m == Of("marker")
<1>4. /\ u \in Seq(File \X Teammate) /\ f \in Seq(File \X Teammate) /\ m \in Seq(File \X Teammate)
      /\ Len(u) = n /\ Len(f) = n /\ Len(m) = n
      /\ \A i \in 1 .. n : /\ u[i] = <<"usage", Teammates[i]>>
                           /\ f[i] = <<"failures", Teammates[i]>>
                           /\ m[i] = <<"marker", Teammates[i]>>
  BY <1>2, <1>3
<1>5. ReadOrder = ((<<<<"annotations", "">>>> \o u) \o f) \o m
  BY DEF ReadOrder, Annotations
<1>. HIDE DEF n, u, f, m
<1> DEFINE E == (File \X Teammate) \cup {<<"annotations", "">>}
<1> DEFINE first == <<"annotations", "">>
<1>6. first \in E /\ File \X Teammate \subseteq E /\ first[1] = "annotations"
  OBVIOUS
<1>7. \A i \in 1 .. n : /\ u[i] \in File \X Teammate
                         /\ f[i] \in File \X Teammate
                         /\ m[i] \in File \X Teammate
  BY <1>1, <1>4
<1>. HIDE DEF E
<1>8. u \in Seq(E) /\ f \in Seq(E) /\ m \in Seq(E)
  BY <1>4, <1>6, SeqMonotonic
<1>9. ReadOrder = ((<<first>> \o u) \o f) \o m
  BY <1>5
<1>. HIDE DEF first
<1>10. /\ Len(ReadOrder) = 1 + n + n + n
       /\ ReadOrder[1] = first
       /\ \A i \in 2 .. 1 + n : ReadOrder[i] = u[i - 1] /\ i - 1 \in 1 .. n
       /\ \A i \in 2 + n .. 1 + n + n : ReadOrder[i] = f[i - (1 + n)] /\ i - (1 + n) \in 1 .. n
       /\ \A i \in 2 + n + n .. 1 + n + n + n :
            ReadOrder[i] = m[i - (1 + n + n)] /\ i - (1 + n + n) \in 1 .. n
  <2> DEFINE s1 == <<first>> \o u
             s2 == s1 \o f
  <2>1. /\ <<first>> \in Seq(E) /\ Len(<<first>>) = 1 /\ <<first>>[1] = first
        /\ n \in Nat /\ Len(u) = n /\ Len(f) = n /\ Len(m) = n
    BY <1>1, <1>4, <1>6
  <2>2. /\ s1 \in Seq(E) /\ Len(s1) = 1 + n
        /\ \A i \in 1 .. 1 + n : s1[i] = IF i <= 1 THEN <<first>>[i] ELSE u[i - 1]
    BY <1>8, <2>1, ConcatProperties
  <2>. HIDE DEF s1
  <2>3. /\ s2 \in Seq(E) /\ Len(s2) = Len(s1) + Len(f)
        /\ \A i \in 1 .. Len(s1) + Len(f) : s2[i] = IF i <= Len(s1) THEN s1[i] ELSE f[i - Len(s1)]
    BY <1>8, <2>2, ConcatProperties
  <2>. HIDE DEF s2
  <2>4. /\ s2 \o m \in Seq(E) /\ Len(s2 \o m) = Len(s2) + Len(m)
        /\ \A i \in 1 .. Len(s2) + Len(m) : (s2 \o m)[i] = IF i <= Len(s2) THEN s2[i] ELSE m[i - Len(s2)]
    <3>1. s2 \in Seq(E) /\ m \in Seq(E)
      BY <1>8, <2>3
    <3>. QED  BY <3>1, ConcatProperties
  <2>5. ReadOrder = s2 \o m
    BY <1>9 DEF s1, s2
  <2>6. /\ Len(ReadOrder) = 1 + n + n + n
        /\ \A i \in 1 .. 1 + n + n + n : ReadOrder[i] = IF i <= 1 + n + n THEN s2[i] ELSE m[i - (1 + n + n)]
    BY <2>1, <2>2, <2>3, <2>4, <2>5
  <2>7. \A i \in 1 .. 1 + n + n : s2[i] = IF i <= 1 + n THEN s1[i] ELSE f[i - (1 + n)]
    BY <2>1, <2>2, <2>3
  <2>8. ReadOrder[1] = first
    BY <2>1, <2>2, <2>6, <2>7
  <2>9. ASSUME NEW i \in 2 .. 1 + n PROVE ReadOrder[i] = u[i - 1] /\ i - 1 \in 1 .. n
    BY <2>1, <2>2, <2>6, <2>7
  <2>10. ASSUME NEW i \in 2 + n .. 1 + n + n
         PROVE  ReadOrder[i] = f[i - (1 + n)] /\ i - (1 + n) \in 1 .. n
    <3>1. i \in 1 .. 1 + n + n /\ i \in 1 .. 1 + n + n + n /\ i <= 1 + n + n /\ ~(i <= 1 + n)
          /\ i - (1 + n) \in 1 .. n
      BY <2>1
    <3>. QED  BY <2>6, <2>7, <3>1
  <2>11. ASSUME NEW i \in 2 + n + n .. 1 + n + n + n
         PROVE  ReadOrder[i] = m[i - (1 + n + n)] /\ i - (1 + n + n) \in 1 .. n
    <3>1. i \in 1 .. 1 + n + n + n /\ ~(i <= 1 + n + n) /\ i - (1 + n + n) \in 1 .. n
      BY <2>1
    <3>2. ReadOrder[i] = IF i <= 1 + n + n THEN s2[i] ELSE m[i - (1 + n + n)]
      BY <2>6, <3>1
    <3>. QED  BY <3>1, <3>2
  <2>. QED  BY <2>6, <2>8, <2>9, <2>10, <2>11
<1>11. DOMAIN ReadOrder = 1 .. 1 + n + n + n /\ 1 + n + n + n \in Nat
  BY <1>1, <1>4, <1>9, <1>10
<1>12. ASSUME NEW i \in DOMAIN ReadOrder, i # 1 PROVE ReadOrder[i] \in File \X Teammate
  <2>1. i \in 2 .. 1 + n \/ i \in 2 + n .. 1 + n + n \/ i \in 2 + n + n .. 1 + n + n + n
    BY <1>1, <1>11, <1>12
  <2>. QED  BY <1>7, <1>10, <2>1
<1>13. ASSUME NEW name \in File, NEW a \in Teammate
       PROVE  \E i \in DOMAIN ReadOrder : ReadOrder[i] = <<name, a>>
  <2>1. PICK k \in 1 .. n : Teammates[k] = a
    BY <1>1 DEF Teammate, ToSet, n
  <2>2. CASE name = "usage"
    <3>1. k + 1 \in 2 .. 1 + n /\ (k + 1) - 1 = k /\ k + 1 \in DOMAIN ReadOrder
      BY <1>1, <1>11, <2>1
    <3>. QED  BY <1>4, <1>10, <2>1, <2>2, <3>1
  <2>3. CASE name = "failures"
    <3>1. /\ k + (1 + n) \in 2 + n .. 1 + n + n /\ (k + (1 + n)) - (1 + n) = k
          /\ k + (1 + n) \in DOMAIN ReadOrder
      BY <1>1, <1>11, <2>1
    <3>. QED  BY <1>4, <1>10, <2>1, <2>3, <3>1
  <2>4. CASE name = "marker"
    <3>1. /\ k + (1 + n + n) \in 2 + n + n .. 1 + n + n + n /\ (k + (1 + n + n)) - (1 + n + n) = k
          /\ k + (1 + n + n) \in DOMAIN ReadOrder
      BY <1>1, <1>11, <2>1
    <3>. QED  BY <1>4, <1>10, <2>1, <2>4, <3>1
  <2>. QED  BY <2>2, <2>3, <2>4 DEF File
<1>14. Len(ReadOrder) \in Nat /\ DOMAIN ReadOrder = 1 .. Len(ReadOrder) /\ 1 \in DOMAIN ReadOrder
  BY <1>1, <1>10, <1>11
<1>15. ReadOrder[1][1] = "annotations"
  BY <1>6, <1>10
<1>. QED  BY <1>10, <1>12, <1>13, <1>14, <1>15 DEF first

LEMMA PlacesOfReadOrder ==
  /\ Len(ReadOrder) \in Nat /\ DOMAIN ReadOrder = 1 .. Len(ReadOrder) /\ 1 \in DOMAIN ReadOrder
BY FilesOfReadOrder

LEMMA FileAt ==
  ASSUME NEW i \in DOMAIN ReadOrder
  PROVE  /\ i = 1 => ReadOrder[i][1] = "annotations" /\ \A a : \A name \in File : ReadOrder[i] # <<name, a>>
         /\ i # 1 => /\ ReadOrder[i][1] \in File /\ ReadOrder[i][2] \in Teammate
                     /\ ReadOrder[i][1] # "annotations"
                     /\ ReadOrder[i] = <<ReadOrder[i][1], ReadOrder[i][2]>>
<1>1. CASE i = 1
  <2>1. ReadOrder[i] = <<"annotations", "">>
    BY <1>1, FilesOfReadOrder
  <2>2. \A name \in File : name # "annotations"
    BY DEF File
  <2>3. ReadOrder[i][1] = "annotations"
    BY <1>1, FilesOfReadOrder
  <2>4. \A name, a : <<name, a>>[1] = name
    OBVIOUS
  <2>. QED  BY <1>1, <2>2, <2>3, <2>4
<1>2. CASE i # 1
  <2>1. ReadOrder[i] \in File \X Teammate
    BY <1>2, FilesOfReadOrder
  <2>. QED  BY <1>2, <2>1 DEF File
<1>. QED  BY <1>1, <1>2

LEMMA InitTimeline == TimelineInit => TimelineIInv
<1>. SUFFICES ASSUME TimelineInit PROVE TimelineIInv
  OBVIOUS
<1>1. WorkType /\ MarkerIsCurrent
  BY DEF TimelineInit, WorkType, MarkerIsCurrent, NoMarker
<1>2. SnapshotType /\ AnnotatedAreCompleted /\ KnownAreToBeShown
  BY DEF TimelineInit, SnapshotType, AnnotatedAreCompleted, KnownAreToBeShown, NoSnapshot, Completed
<1>. QED  BY <1>1, <1>2 DEF TimelineIInv

\* Files only grow, but for the markers of passes that are gone.
Grows ==
  /\ WorkType' /\ MarkerIsCurrent'
  /\ \A a \in Teammate : /\ work[a].usage \subseteq work'[a].usage
                         /\ work[a].failures \subseteq work'[a].failures
  /\ \A p \in Pass : p.number = work[p.agent].marker =>
       p.number = work'[p.agent].marker \/ p \in snapshot'.gone
  /\ assessed' = assessed
  /\ SnapshotType' /\ snapshot.gone \subseteq snapshot'.gone
  /\ snapshot'.step = snapshot.step /\ snapshot'.annotations = snapshot.annotations
  /\ snapshot'.rows = snapshot.rows /\ snapshot'.begun = snapshot.begun

LEMMA GrowthKeeps == ASSUME TimelineIInv, Grows PROVE TimelineIInv'
<1>1. \A p \in Pass : p.agent \in Teammate /\ p.number \in Nat
  BY DEF Pass
<1>2. Completed \subseteq Completed'
  BY <1>1 DEF Completed, Grows
<1>3. \A name, a : Unread(name, a)' <=> Unread(name, a)
  BY DEF Unread, Grows
<1>4. Shown' = Shown
  BY DEF Shown, Grows
<1>5. snapshot.begun \subseteq Pass
  BY DEF TimelineIInv, SnapshotType
<1>6. AnnotatedAreCompleted'
  BY <1>2, <1>3 DEF TimelineIInv, AnnotatedAreCompleted, Grows
<1>7. KnownAreToBeShown'
  BY <1>1, <1>3, <1>4, <1>5 DEF TimelineIInv, KnownAreToBeShown, Grows
<1>. QED  BY <1>6, <1>7 DEF TimelineIInv, Grows

LEMMA WorkersGrow ==
  ASSUME TimelineIInv, NEW a \in Teammate,
         BeginPass(a) \/ RecordUsage(a) \/ AppendFailure(a) \/ Unlink(a) \/ ReplaceWorker(a)
  PROVE  Grows
<1>. USE DEF TimelineIInv, WorkType, SnapshotType, MarkerIsCurrent, NoMarker
<1>1. CASE BeginPass(a)
  BY <1>1 DEF BeginPass, Grows, Pass
<1>2. CASE RecordUsage(a)
  BY <1>2 DEF RecordUsage, Grows
<1>3. CASE AppendFailure(a)
  BY <1>3 DEF AppendFailure, Grows
<1>4. CASE Unlink(a) \/ ReplaceWorker(a)
  <2>1. /\ work[a].phase # "loop"
        /\ work' = [work EXCEPT ![a].marker = NoMarker, ![a].phase = "loop"]
        /\ snapshot' = [snapshot EXCEPT !.gone = @ \cup {Current(a)}]
        /\ assessed' = assessed
    BY <1>4 DEF Unlink, ReplaceWorker
  <2>2. Current(a) \in Numbered
    BY DEF Current, Numbered
  <2>3. \A p \in Pass : p.agent = a /\ p.number = work[a].marker => p = Current(a)
    BY <2>1 DEF Current, Pass
  <2>. QED  BY <2>1, <2>2, <2>3 DEF Grows, Pass
<1>. QED  BY <1>1, <1>2, <1>3, <1>4

LEMMA AnnotateRunKeeps ==
  ASSUME TimelineIInv, NEW p \in Pass, AnnotateRun(p)
  PROVE  TimelineIInv'
<1>1. p \in Completed /\ assessed' = assessed \cup {p} /\ work' = work /\ snapshot' = snapshot
  BY DEF AnnotateRun
<1>2. AnnotatedAreCompleted'
  BY <1>1 DEF TimelineIInv, AnnotatedAreCompleted, Completed, Unread
<1>3. WorkType' /\ SnapshotType' /\ MarkerIsCurrent' /\ KnownAreToBeShown'
  BY <1>1 DEF TimelineIInv, WorkType, SnapshotType, MarkerIsCurrent, KnownAreToBeShown, Shown, Unread
<1>. QED  BY <1>2, <1>3 DEF TimelineIInv

LEMMA BeginSnapshotKeeps == ASSUME TimelineIInv, BeginSnapshot PROVE TimelineIInv'
<1>1. /\ snapshot' = [step |-> 1, annotations |-> {}, rows |-> {}, begun |-> Known, gone |-> {}]
      /\ work' = work /\ assessed' = assessed
  BY DEF BeginSnapshot, NoSnapshot
<1>2. Known \subseteq Pass
  BY DEF Known, Begun
<1>3. ASSUME NEW name, NEW a PROVE Unread(name, a)'
  BY <1>1, PlacesOfReadOrder DEF Unread
<1>4. \A p \in Known : p.number \in work[p.agent].usage \/ p.number \in work[p.agent].failures
                       \/ p.number = work[p.agent].marker
  BY DEF Known, Completed
<1>5. WorkType' /\ MarkerIsCurrent' /\ SnapshotType'
  BY <1>1, <1>2 DEF TimelineIInv, WorkType, MarkerIsCurrent, SnapshotType
<1>6. AnnotatedAreCompleted'
  BY <1>1 DEF TimelineIInv, AnnotatedAreCompleted, Completed
<1>7. KnownAreToBeShown'
  BY <1>1, <1>3, <1>4 DEF KnownAreToBeShown
<1>. QED  BY <1>5, <1>6, <1>7 DEF TimelineIInv

\* A file stays unread but for the one that is read.
LEMMA ReadFileKeeps == ASSUME TimelineIInv, ReadFile PROVE TimelineIInv'
<1> DEFINE at == ReadOrder[snapshot.step]
           new == CASE at[1] = "usage" -> Rows(at[2], work[at[2]].usage, "completed")
                    [] at[1] = "failures" -> Rows(at[2], work[at[2]].failures, "failed")
                    [] at[1] = "marker" -> Rows(at[2], {work[at[2]].marker} \ {NoMarker}, "running")
                    [] OTHER -> {}
<1>1. /\ snapshot.step \in DOMAIN ReadOrder /\ work' = work /\ assessed' = assessed
      /\ snapshot' = [snapshot EXCEPT
           !.step = @ + 1,
           !.annotations = IF at[1] = "annotations" THEN assessed ELSE @,
           !.rows = @ \cup new]
  BY DEF ReadFile
<1>2. /\ snapshot.step \in Nat
      /\ snapshot.step = 1 => at[1] = "annotations" /\ \A a : \A name \in File : at # <<name, a>>
      /\ snapshot.step # 1 => /\ at[1] \in File /\ at[2] \in Teammate /\ at[1] # "annotations"
                               /\ at = <<at[1], at[2]>>
  BY <1>1, FileAt DEF TimelineIInv, SnapshotType
<1>3. new \subseteq [pass : Numbered, state : {"completed", "failed", "running"}]
  <2>1. ASSUME NEW a \in Teammate, NEW numbers \in SUBSET Nat, NEW state
        PROVE  Rows(a, numbers, state) \subseteq [pass : Numbered, state : {state}]
    <3>1. \A k \in numbers : [agent |-> a, number |-> k] \in Numbered
      BY DEF Numbered
    <3>. QED  BY <3>1 DEF Rows
  <2>2. CASE snapshot.step = 1
    <3>1. at[1] = "annotations"
      BY <1>2, <2>2
    <3>. HIDE DEF at
    <3>. QED  BY <3>1
  <2>3. CASE snapshot.step # 1
    <3>1. at[1] \in File /\ at[2] \in Teammate
      BY <1>2, <2>3
    <3>2. /\ work[at[2]].usage \in SUBSET Nat /\ work[at[2]].failures \in SUBSET Nat
          /\ {work[at[2]].marker} \ {NoMarker} \in SUBSET Nat
      BY <3>1 DEF TimelineIInv, WorkType
    <3>. HIDE DEF at
    <3>3. CASE at[1] = "usage"
      BY <2>1, <3>1, <3>2, <3>3
    <3>4. CASE at[1] = "failures"
      BY <2>1, <3>1, <3>2, <3>4
    <3>5. CASE at[1] = "marker"
      BY <2>1, <3>1, <3>2, <3>5
    <3>. QED  BY <3>1, <3>3, <3>4, <3>5 DEF File
  <2>. QED  BY <2>2, <2>3
<1>4. ASSUME NEW name \in File, NEW a \in Teammate, Unread(name, a)
      PROVE  Unread(name, a)' \/ at = <<name, a>>
  <2>1. snapshot'.step = snapshot.step + 1
    BY <1>1 DEF TimelineIInv, SnapshotType
  <2>2. \A i \in DOMAIN ReadOrder : i \in Nat
    BY PlacesOfReadOrder
  <2>3. \A i \in DOMAIN ReadOrder : i < snapshot.step + 1 => i < snapshot.step \/ i = snapshot.step
    BY <1>2, <2>2
  <2>. QED  BY <1>4, <2>1, <2>3 DEF Unread
<1>5. ASSUME NEW p \in Pass PROVE p = [agent |-> p.agent, number |-> p.number] /\ p.agent \in Teammate
  BY DEF Pass
<1>6. ASSUME NEW p \in Pass, p.number \in work[p.agent].usage, at = <<"usage", p.agent>>
      PROVE  [pass |-> p, state |-> "completed"] \in new
  BY <1>5, <1>6 DEF Rows
<1>7. ASSUME NEW p \in Pass, p.number \in work[p.agent].failures, at = <<"failures", p.agent>>
      PROVE  [pass |-> p, state |-> "failed"] \in new
  BY <1>5, <1>7 DEF Rows
<1>8. ASSUME NEW p \in Pass, p.number = work[p.agent].marker, at = <<"marker", p.agent>>
      PROVE  [pass |-> p, state |-> "running"] \in new
  <2>1. p.number # NoMarker /\ p.number \in {work[p.agent].marker} \ {NoMarker}
    BY <1>8 DEF Pass, NoMarker
  <2>2. at[1] = "marker" /\ at[2] = p.agent
    BY <1>8
  <2>. HIDE DEF at
  <2>. QED  BY <1>5, <2>1, <2>2 DEF Rows
<1>. HIDE DEF at, new
<1>9. /\ snapshot'.step = snapshot.step + 1 /\ snapshot'.rows = snapshot.rows \cup new
      /\ snapshot'.annotations = IF snapshot.step = 1 THEN assessed ELSE snapshot.annotations
      /\ snapshot'.begun = snapshot.begun /\ snapshot'.gone = snapshot.gone
      /\ SnapshotType'
  <2>1. at[1] = "annotations" <=> snapshot.step = 1
    BY <1>2
  <2>2. assessed \subseteq Pass
    BY DEF TimelineIInv, AnnotatedAreCompleted, Completed
  <2> DEFINE read == IF snapshot.step = 1 THEN assessed ELSE snapshot.annotations
  <2>3. snapshot' = [snapshot EXCEPT !.step = @ + 1, !.annotations = read, !.rows = @ \cup new]
    BY <1>1, <2>1 DEF TimelineIInv, SnapshotType
  <2>4. read \subseteq Pass /\ snapshot.step \in Nat
    BY <2>2 DEF TimelineIInv, SnapshotType
  <2>. HIDE DEF read
  <2>5. /\ snapshot'.step = snapshot.step + 1 /\ snapshot'.rows = snapshot.rows \cup new
        /\ snapshot'.annotations = read
        /\ snapshot'.begun = snapshot.begun /\ snapshot'.gone = snapshot.gone
        /\ snapshot' = [step |-> snapshot'.step, annotations |-> snapshot'.annotations,
                        begun |-> snapshot'.begun, gone |-> snapshot'.gone, rows |-> snapshot'.rows]
    BY <2>3 DEF TimelineIInv, SnapshotType
  <2>6. /\ snapshot.begun \in SUBSET Pass /\ snapshot.gone \in SUBSET Numbered
        /\ snapshot.rows \in SUBSET [pass : Numbered, state : {"completed", "failed", "running"}]
    BY DEF TimelineIInv, SnapshotType
  <2>7. /\ snapshot'.step \in Nat /\ snapshot'.annotations \in SUBSET Pass
        /\ snapshot'.begun \in SUBSET Pass /\ snapshot'.gone \in SUBSET Numbered
        /\ snapshot'.rows \in SUBSET [pass : Numbered, state : {"completed", "failed", "running"}]
    BY <1>3, <2>4, <2>5, <2>6
  <2>8. SnapshotType'
    <3> DEFINE P == SUBSET Pass
               N == SUBSET Numbered
               R == SUBSET [pass : Numbered, state : {"completed", "failed", "running"}]
    <3>1. /\ snapshot'.step \in Nat /\ snapshot'.annotations \in P
          /\ snapshot'.begun \in P /\ snapshot'.gone \in N /\ snapshot'.rows \in R
      BY <2>7
    <3>2. SnapshotType' <=> snapshot' \in [step : Nat, annotations : P, begun : P, gone : N, rows : R]
      BY DEF SnapshotType, Pass, Numbered
    <3>. HIDE DEF P, N, R
    <3>. QED  BY <2>5, <3>1, <3>2
  <2>. QED  BY <2>5, <2>8 DEF read
<1>10. {"usage", "failures", "marker"} = File
  BY DEF File
<1>11. AnnotatedAreCompleted'
  <2>1. assessed' \subseteq Completed' /\ snapshot'.annotations \subseteq Completed'
    BY <1>1, <1>9 DEF TimelineIInv, AnnotatedAreCompleted, Completed
  <2>2. snapshot'.step <= 1 => snapshot'.annotations = {}
    BY <1>1, <1>2, <1>9, PlacesOfReadOrder
  <2>3. ASSUME NEW p \in snapshot'.annotations
        PROVE  [pass |-> p, state |-> "completed"] \in snapshot'.rows \/ Unread("usage", p.agent)'
    <3>1. p \in Pass /\ p.agent \in Teammate /\ p.number \in work[p.agent].usage
      BY <1>1, <1>5, <2>1 DEF Completed
    <3>2. CASE snapshot.step = 1
      <4>1. at # <<"usage", p.agent>>
        BY <1>2, <1>10, <3>2
      <4>2. Unread("usage", p.agent)
        BY <3>2, <4>1, PlacesOfReadOrder DEF Unread
      <4>. QED  BY <1>4, <1>10, <3>1, <4>1, <4>2
    <3>3. CASE snapshot.step # 1
      <4>1. [pass |-> p, state |-> "completed"] \in snapshot.rows \/ Unread("usage", p.agent)
        BY <1>9, <3>3 DEF TimelineIInv, AnnotatedAreCompleted
      <4>. QED  BY <1>4, <1>6, <1>9, <1>10, <3>1, <4>1
    <3>. QED  BY <3>2, <3>3
  <2>. QED  BY <2>1, <2>2, <2>3 DEF AnnotatedAreCompleted
<1>12. KnownAreToBeShown'
  <2>1. SUFFICES ASSUME NEW p \in snapshot.begun
                 PROVE  \/ p \in Shown' \cup snapshot.gone
                        \/ p.number \in work[p.agent].usage /\ Unread("usage", p.agent)'
                        \/ p.number \in work[p.agent].failures /\ Unread("failures", p.agent)'
                        \/ p.number = work[p.agent].marker /\ Unread("marker", p.agent)'
    BY <1>1, <1>9 DEF KnownAreToBeShown
  <2>2. p \in Pass /\ p.agent \in Teammate
    BY <1>5 DEF TimelineIInv, SnapshotType
  <2>3. p \in Shown => p \in Shown'
    BY <1>9 DEF Shown
  <2>4. (\E state : [pass |-> p, state |-> state] \in new) => p \in Shown'
    BY <1>9 DEF Shown
  <2>5. \/ p \in Shown \cup snapshot.gone
        \/ p.number \in work[p.agent].usage /\ Unread("usage", p.agent)
        \/ p.number \in work[p.agent].failures /\ Unread("failures", p.agent)
        \/ p.number = work[p.agent].marker /\ Unread("marker", p.agent)
    BY DEF TimelineIInv, KnownAreToBeShown
  <2>. QED  BY <1>4, <1>6, <1>7, <1>8, <1>10, <2>2, <2>3, <2>4, <2>5
<1>13. WorkType' /\ MarkerIsCurrent'
  BY <1>1 DEF TimelineIInv, WorkType, MarkerIsCurrent
<1>. QED  BY <1>9, <1>11, <1>12, <1>13 DEF TimelineIInv

LEMMA TimelineStep == TimelineIInv /\ [TimelineNext]_timelineVars => TimelineIInv'
<1>. SUFFICES ASSUME TimelineIInv, [TimelineNext]_timelineVars PROVE TimelineIInv'
  OBVIOUS
<1>1. CASE TimelineNext
  BY <1>1, WorkersGrow, GrowthKeeps, AnnotateRunKeeps, BeginSnapshotKeeps, ReadFileKeeps DEF TimelineNext
<1>2. CASE UNCHANGED timelineVars
  BY <1>2 DEF timelineVars, TimelineIInv, WorkType, SnapshotType, MarkerIsCurrent,
     AnnotatedAreCompleted, KnownAreToBeShown, Completed, Shown, Unread
<1>. QED  BY <1>1, <1>2

\* Every annotation of a snapshot has its run, and every pass on file when the
\* snapshot began is in it or ended meanwhile: timeline_snapshot beside any
\* number of workers.
THEOREM SnapshotsCohere == TimelineSpec => []SnapshotIsCoherent
<1>1. TimelineIInv => SnapshotIsCoherent
  <2>1. SUFFICES ASSUME TimelineIInv, Done PROVE SnapshotIsCoherent
    BY DEF SnapshotIsCoherent, AnnotationsHaveRuns, KnownPassesAreShown
  <2>2. \A name \in File, a \in Teammate : ~Unread(name, a)
    <3>1. SUFFICES ASSUME NEW name \in File, NEW a \in Teammate PROVE ~Unread(name, a)
      OBVIOUS
    <3>2. PICK i \in DOMAIN ReadOrder : ReadOrder[i] = <<name, a>>
      BY FilesOfReadOrder
    <3>3. i < snapshot.step
      BY <2>1, PlacesOfReadOrder DEF Done, TimelineIInv, SnapshotType
    <3>. QED  BY <3>2, <3>3 DEF Unread
  <2>3. \A p \in Pass : p.agent \in Teammate
    BY DEF Pass
  <2>4. snapshot.annotations \subseteq Pass /\ snapshot.begun \subseteq Pass
    BY <2>1 DEF TimelineIInv, SnapshotType
  <2>. QED  BY <2>1, <2>2, <2>3, <2>4 DEF File, TimelineIInv, AnnotatedAreCompleted,
            KnownAreToBeShown, SnapshotIsCoherent, AnnotationsHaveRuns, KnownPassesAreShown
<1>. QED  BY <1>1, InitTimeline, TimelineStep, PTL DEF TimelineSpec

-----------------------------------------------------------------------------
(* The page: the inductive invariant.                                      *)

Position == Nat \X Nat

\* Every transaction from the newer position down to the older is there.
Covers(items, newer, older) ==
  \A p \in Recorded(0, ledgerHeight) :
    (p = newer \/ PositionBefore(p, newer)) /\ ~PositionBefore(p, older) => p \in items

\* A position of the blocks indexed so far: later ones are newer.
Indexed(p) == p \in Position /\ p[1] <= ledgerHeight

PageType ==
  /\ ledgerHeight \in 0 .. Len(BlockSize)
  /\ shownGraph.height \in Int /\ Indexed(before) /\ Indexed(front)

\* A graph call goes on from what is shown.
GraphCallIsSound(c) ==
  /\ c.after \in Int /\ Recorded(0, c.after) \subseteq shownGraph.items
  /\ c.answer # NoAnswer =>
       /\ c.answer.height \in Int
       /\ Recorded(c.after, c.answer.height) \subseteq c.answer.items

NewestCallIsSound(c) ==
  /\ c.cursor = NoPosition
  /\ c.answer # NoAnswer => /\ Indexed(c.answer.newest) /\ Indexed(c.answer.next)
                            /\ Covers(c.answer.items, c.answer.newest, c.answer.next)

\* The call for an older page is about the cursor, which waits for it.
OlderCallIsSound(c) ==
  /\ c.cursor = before /\ before # NoPosition
  /\ c.answer # NoAnswer =>
       /\ Indexed(c.answer.next)
       /\ \A p \in Recorded(0, ledgerHeight) :
            PositionBefore(p, before) /\ ~PositionBefore(p, c.answer.next) => p \in c.answer.items

CallIsSound(c) ==
  /\ c = [id |-> c.id, kind |-> c.kind, after |-> c.after, cursor |-> c.cursor,
           answer |-> c.answer]
  /\ \/ c.kind = "graph" /\ GraphCallIsSound(c)
     \/ c.kind = "feed" /\ NewestCallIsSound(c)
     \/ c.kind = "older" /\ OlderCallIsSound(c)

OneOlderCall == \A c, d \in calls : c.kind = "older" /\ d.kind = "older" => c = d

BrowserIInv ==
  PageType /\ PageIsComplete /\ OneOlderCall /\ \A c \in calls : CallIsSound(c)

-----------------------------------------------------------------------------
(* Positions.                                                              *)

LEMMA PositionsAreOrdered ==
  ASSUME NEW p \in Position, NEW q \in Position
  PROVE  /\ p[1] \in Nat /\ p[2] \in Nat
         /\ PositionBefore(p, q) \/ PositionBefore(q, p) \/ p = q
         /\ ~(PositionBefore(p, q) /\ PositionBefore(q, p)) /\ ~PositionBefore(p, p)
BY DEF Position, PositionBefore

LEMMA PositionBeforeIsTransitive ==
  ASSUME NEW p \in Position, NEW q \in Position, NEW r \in Position,
         PositionBefore(p, q), PositionBefore(q, r)
  PROVE  PositionBefore(p, r)
BY DEF Position, PositionBefore

\* What is recorded between two heights has a height between them.
LEMMA RecordedPositions ==
  ASSUME NEW a \in Int, NEW b \in Int
  PROVE  /\ \A p \in Recorded(a, b) : p[1] \in a + 1 .. b
         /\ a >= 0 /\ b <= Len(BlockSize) => Recorded(a, b) \subseteq Position
         /\ \A d \in Int : Recorded(a, b) \subseteq Recorded(a, d) \cup Recorded(d, b)
<1>1. ASSUME NEW p, NEW k, NEW l
      PROVE  p \in Recorded(k, l) <=>
               \E h \in k + 1 .. l : \E i \in 1 .. BlockSize[h] : p = <<h, i>>
  BY DEF Recorded
<1>2. \A p \in Recorded(a, b) : p[1] \in a + 1 .. b
  BY <1>1
<1>3. ASSUME a >= 0, b <= Len(BlockSize), NEW p \in Recorded(a, b) PROVE p \in Position
  <2>1. PICK h \in a + 1 .. b : \E i \in 1 .. BlockSize[h] : p = <<h, i>>
    BY <1>1, <1>3
  <2>2. h \in 1 .. Len(BlockSize) /\ BlockSize[h] \in Nat
    BY <1>3, <2>1, BrowserAssumption
  <2>. QED  BY <2>1, <2>2 DEF Position
<1>4. ASSUME NEW d \in Int, NEW p \in Recorded(a, b) PROVE p \in Recorded(a, d) \cup Recorded(d, b)
  <2>1. PICK h \in a + 1 .. b : \E i \in 1 .. BlockSize[h] : p = <<h, i>>
    BY <1>1, <1>4
  <2>2. h \in a + 1 .. d \/ h \in d + 1 .. b
    BY <2>1, <1>4
  <2>. QED  BY <1>1, <2>1, <2>2
<1>. QED  BY <1>2, <1>3, <1>4

LEMMA RecordedIsFinite ==
  ASSUME NEW b \in 0 .. Len(BlockSize)
  PROVE  IsFiniteSet(Recorded(0, b))
<1> DEFINE Block(h) == {<<h, i>> : i \in 1 .. BlockSize[h]}
           Blocks == {Block(h) : h \in 0 + 1 .. b}
<1>1. b \in Nat /\ Recorded(0, b) = UNION Blocks
  BY BrowserAssumption DEF Recorded
<1>2. ASSUME NEW h \in 0 + 1 .. b PROVE IsFiniteSet(Block(h))
  <2>1. BlockSize[h] \in Nat
    BY <1>1, BrowserAssumption
  <2>2. [i \in 1 .. BlockSize[h] |-> <<h, i>>] \in Surjection(1 .. BlockSize[h], Block(h))
    BY DEF Surjection
  <2>3. IsFiniteSet(1 .. BlockSize[h])
    BY <2>1, FS_Interval
  <2>. QED  BY <2>2, <2>3, FS_Surjection
<1>3. IsFiniteSet(Blocks)
  <2>. HIDE DEF Block
  <2>1. [h \in 0 + 1 .. b |-> Block(h)] \in Surjection(0 + 1 .. b, Blocks)
    BY DEF Surjection
  <2>2. IsFiniteSet(0 + 1 .. b)
    BY <1>1, FS_Interval
  <2>. QED  BY <2>1, <2>2, FS_Surjection
<1>4. \A S \in Blocks : IsFiniteSet(S)
  BY <1>2
<1>. HIDE DEF Blocks
<1>. QED  BY <1>1, <1>3, <1>4, FS_UNION

\* A function to numbers has a least value.
LEMMA LeastValue ==
  ASSUME NEW S, S # {}, NEW f \in [S -> Nat]
  PROVE  \E p \in S : \A q \in S : f[p] <= f[q]
<1> DEFINE T == {f[p] : p \in S}
<1>1. T \subseteq Nat /\ T # {}
  OBVIOUS
<1>2. PICK n \in T : \A k \in T : ~(<<k, n>> \in Less)
  <2>. HIDE DEF T
  <2>. QED  BY <1>1, WFMin, LessIsWellFounded
<1>3. PICK p \in S : f[p] = n
  BY <1>2
<1>4. \A q \in S : ~(f[q] < n)
  BY <1>1, <1>2 DEF Less
<1>5. \A q \in S : f[p] <= f[q]
  BY <1>1, <1>3, <1>4
<1>. QED  BY <1>5

OlderThan(S, p) == {q \in S : PositionBefore(q, p)}
NewerThan(S, p) == {q \in S : PositionBefore(p, q)}

LEMMA OldestAndNewest ==
  ASSUME NEW S \in SUBSET Position, S # {}, IsFiniteSet(S)
  PROVE  /\ \E p \in S : \A q \in S : ~PositionBefore(q, p)
         /\ \E p \in S : \A q \in S : ~PositionBefore(p, q)
<1>1. ASSUME NEW T \in SUBSET S PROVE IsFiniteSet(T) /\ Cardinality(T) \in Nat
  BY FS_Subset, FS_CardinalityType
<1>2. ASSUME NEW p \in S, NEW q \in S, PositionBefore(q, p)
      PROVE  /\ Cardinality(OlderThan(S, q)) < Cardinality(OlderThan(S, p))
             /\ Cardinality(NewerThan(S, p)) < Cardinality(NewerThan(S, q))
  <2>1. /\ OlderThan(S, q) \subseteq OlderThan(S, p) /\ q \in OlderThan(S, p)
        /\ q \notin OlderThan(S, q)
    BY <1>2, PositionBeforeIsTransitive, PositionsAreOrdered DEF OlderThan
  <2>2. /\ NewerThan(S, p) \subseteq NewerThan(S, q) /\ p \in NewerThan(S, q)
        /\ p \notin NewerThan(S, p)
    BY <1>2, PositionBeforeIsTransitive, PositionsAreOrdered DEF NewerThan
  <2>3. ASSUME NEW A \in SUBSET S, NEW B \in SUBSET A, A # B
        PROVE  Cardinality(B) < Cardinality(A)
    <3>1. Cardinality(B) <= Cardinality(A) /\ Cardinality(B) # Cardinality(A)
      BY <1>1, <2>3, FS_Subset
    <3>2. Cardinality(A) \in Nat /\ Cardinality(B) \in Nat
      BY <1>1
    <3>. QED  BY <3>1, <3>2
  <2>4. OlderThan(S, p) \in SUBSET S /\ NewerThan(S, q) \in SUBSET S
    BY DEF OlderThan, NewerThan
  <2>. QED  BY <2>1, <2>2, <2>3, <2>4
<1>3. \A p \in S : Cardinality(OlderThan(S, p)) \in Nat /\ Cardinality(NewerThan(S, p)) \in Nat
  BY <1>1 DEF OlderThan, NewerThan
<1>4. \E p \in S : \A q \in S : ~PositionBefore(q, p)
  <2> DEFINE f == [p \in S |-> Cardinality(OlderThan(S, p))]
  <2>1. PICK p \in S : \A q \in S : f[p] <= f[q]
    <3>1. f \in [S -> Nat]
      BY <1>3
    <3>. HIDE DEF f
    <3>. QED  BY <3>1, LeastValue
  <2>. QED  BY <1>2, <1>3, <2>1
<1>5. \E p \in S : \A q \in S : ~PositionBefore(p, q)
  <2> DEFINE f == [p \in S |-> Cardinality(NewerThan(S, p))]
  <2>1. PICK p \in S : \A q \in S : f[p] <= f[q]
    <3>1. f \in [S -> Nat]
      BY <1>3
    <3>. HIDE DEF f
    <3>. QED  BY <3>1, LeastValue
  <2>. QED  BY <1>2, <1>3, <2>1
<1>. QED  BY <1>4, <1>5

\* A page of the feed holds everything from its newest transaction down to the
\* cursor it gives, and everything down to it that is older than the one it got.
LEMMA FeedPage ==
  ASSUME PageType, NEW mark \in Position
  PROVE  /\ Indexed(FeedAnswer(mark).newest) /\ Indexed(FeedAnswer(mark).next)
         /\ \A p \in Recorded(0, ledgerHeight) :
              (mark = NoPosition \/ PositionBefore(p, mark))
                /\ ~PositionBefore(p, FeedAnswer(mark).next) => p \in FeedAnswer(mark).items
<1> DEFINE recordings == Recorded(0, ledgerHeight)
           positions == {p \in recordings : mark = NoPosition \/ PositionBefore(p, mark)}
           page == {p \in positions : Cardinality(NewerThan(positions, p)) < PageSize}
           next == IF page = positions THEN NoPosition
                   ELSE CHOOSE p \in page : \A q \in page : ~PositionBefore(q, p)
<1>1. /\ FeedAnswer(mark).items = page /\ FeedAnswer(mark).newest = Newest(page)
      /\ FeedAnswer(mark).next = next
  BY DEF FeedAnswer, NewerThan
<1>2. /\ IsFiniteSet(positions) /\ positions \subseteq Position
      /\ \A p \in positions : p[1] \in 1 .. ledgerHeight
  <2>1. 0 \in Int /\ ledgerHeight \in Int /\ ledgerHeight <= Len(BlockSize)
    BY BrowserAssumption DEF PageType
  <2>2. recordings \subseteq Position /\ \A p \in recordings : p[1] \in 1 .. ledgerHeight
    BY <2>1, RecordedPositions
  <2>3. IsFiniteSet(recordings)
    BY RecordedIsFinite DEF PageType
  <2>. HIDE DEF recordings
  <2>4. positions \in SUBSET recordings
    OBVIOUS
  <2>. HIDE DEF positions
  <2>. QED  BY <2>2, <2>3, <2>4, FS_Subset
<1>3. NoPosition \in Position /\ Indexed(NoPosition)
  BY BrowserAssumption DEF PageType, NoPosition, Position, Indexed
<1>4. \A p \in positions : Indexed(p)
  <2>. HIDE DEF positions
  <2>. QED  BY <1>2, BrowserAssumption DEF Indexed, PageType
<1>5. ASSUME NEW S \in SUBSET positions
      PROVE  IsFiniteSet(S) /\ Cardinality(S) \in Nat
  <2>. HIDE DEF positions
  <2>. QED  BY <1>2, FS_Subset, FS_CardinalityType
<1>6. page \subseteq positions
  OBVIOUS
<1>7. ASSUME page # positions PROVE page # {}
  <2>. SUFFICES ASSUME page = {} PROVE FALSE
    BY <1>7
  <2>1. PICK p \in positions : \A q \in positions : ~PositionBefore(p, q)
    <3>1. positions # {}
      BY <1>7
    <3>. HIDE DEF positions
    <3>. QED  BY <1>2, <3>1, OldestAndNewest
  <2>2. NewerThan(positions, p) = {}
    BY <2>1 DEF NewerThan
  <2>3. Cardinality(NewerThan(positions, p)) = 0
    BY <2>2, FS_EmptySet
  <2>. QED  BY <2>1, <2>3, BrowserAssumption
<1>. HIDE DEF positions
<1>8. ASSUME NEW p \in positions, NEW q \in page, ~PositionBefore(p, q) PROVE p \in page
  <2>1. p \in Position /\ q \in Position
    BY <1>2, <1>6
  <2>2. p = q \/ PositionBefore(q, p)
    BY <1>8, <2>1, PositionsAreOrdered
  <2>3. CASE PositionBefore(q, p)
    <3>1. NewerThan(positions, p) \subseteq NewerThan(positions, q)
      BY <1>2, <2>1, <2>3, PositionBeforeIsTransitive DEF NewerThan
    <3>2. NewerThan(positions, q) \in SUBSET positions /\ NewerThan(positions, p) \in SUBSET positions
      BY DEF NewerThan
    <3>3. Cardinality(NewerThan(positions, p)) <= Cardinality(NewerThan(positions, q))
      BY <1>5, <3>1, <3>2, FS_Subset
    <3>4. Cardinality(NewerThan(positions, q)) < PageSize
      BY <1>8
    <3>5. Cardinality(NewerThan(positions, p)) \in Nat /\ Cardinality(NewerThan(positions, q)) \in Nat
      BY <1>5, <3>2
    <3>6. Cardinality(NewerThan(positions, p)) < PageSize
      BY <3>3, <3>4, <3>5, BrowserAssumption
    <3>. QED  BY <3>6
  <2>. QED  BY <2>2, <2>3
<1>. HIDE DEF page
<1>9. page # positions => next \in page
  <2>1. SUFFICES ASSUME page # positions PROVE next \in page
    OBVIOUS
  <2>2. page \in SUBSET Position /\ page # {} /\ IsFiniteSet(page)
    BY <1>2, <1>5, <1>6, <1>7, <2>1
  <2>3. \E p \in page : \A q \in page : ~PositionBefore(q, p)
    BY <2>2, OldestAndNewest
  <2>. QED  BY <2>1, <2>3
<1>10. Indexed(next)
  BY <1>3, <1>4, <1>6, <1>9
<1>11. Newest(page) \in page \cup {NoPosition}
  <2> DEFINE S == page \cup {NoPosition}
  <2>1. S \in SUBSET Position /\ S # {} /\ IsFiniteSet(S)
    BY <1>2, <1>3, <1>5, <1>6, FS_AddElement
  <2>2. \E p \in S : \A q \in S : ~PositionBefore(p, q)
    <3>. HIDE DEF S
    <3>. QED  BY <2>1, OldestAndNewest
  <2>3. \E p \in page \cup {NoPosition} : \A q \in page : ~PositionBefore(p, q)
    BY <2>2
  <2>. QED  BY <2>3 DEF Newest
<1>12. ASSUME NEW p \in positions, ~PositionBefore(p, next) PROVE p \in page
  <2>1. CASE page = positions
    BY <2>1
  <2>2. CASE page # positions
    BY <1>8, <1>9, <1>12, <2>2
  <2>. QED  BY <2>1, <2>2
<1>. HIDE DEF next
<1>13. Indexed(Newest(page))
  BY <1>3, <1>4, <1>6, <1>11
<1>14. ASSUME NEW p \in recordings, mark = NoPosition \/ PositionBefore(p, mark)
       PROVE  p \in positions
  BY <1>14 DEF positions
<1>. QED  BY <1>1, <1>10, <1>12, <1>13, <1>14

-----------------------------------------------------------------------------
(* The page keeps its invariant.                                           *)

LEMMA InitBrowser == BrowserInit => BrowserIInv
<1>. SUFFICES ASSUME BrowserInit PROVE BrowserIInv
  OBVIOUS
<1>1. PageType
  BY BrowserAssumption DEF BrowserInit, PageType, NoGraph, NoPosition, Indexed, Position
<1>2. Recorded(0, -1) = {} /\ Recorded(0, 0) = {}
  <2>1. \A p \in Recorded(0, -1) : p[1] \in 1 .. -1
    BY RecordedPositions
  <2>2. \A p \in Recorded(0, 0) : p[1] \in 1 .. 0
    BY RecordedPositions
  <2>. QED  BY <2>1, <2>2
<1>3. PageIsComplete
  BY <1>2 DEF BrowserInit, PageIsComplete, NoGraph
<1>. QED  BY <1>1, <1>3 DEF BrowserInit, BrowserIInv, OneOlderCall

\* A block adds newer transactions only.
LEMMA IndexBlockKeeps == ASSUME BrowserIInv, IndexBlock PROVE BrowserIInv'
<1>1. /\ ledgerHeight \in Nat /\ ledgerHeight' = ledgerHeight + 1
      /\ ledgerHeight' \in 0 .. Len(BlockSize)
      /\ shownGraph' = shownGraph /\ shownFeed' = shownFeed /\ before' = before /\ front' = front
      /\ calls' = calls
  BY BrowserAssumption DEF IndexBlock, BrowserIInv, PageType, shown
<1>2. \A p : Indexed(p) => Indexed(p)'
  BY <1>1 DEF Indexed, Position
<1>3. ASSUME NEW p \in Recorded(0, ledgerHeight'), p \notin Recorded(0, ledgerHeight)
      PROVE  \A q : Indexed(q) => p # q /\ ~PositionBefore(p, q)
  <2>1. p \in Recorded(ledgerHeight, ledgerHeight')
    BY <1>1, <1>3, RecordedPositions
  <2>2. p[1] = ledgerHeight + 1
    BY <1>1, <2>1, RecordedPositions
  <2>. QED  BY <1>1, <2>2 DEF Indexed, Position, PositionBefore
<1>4. PageType'
  BY <1>1, <1>2 DEF BrowserIInv, PageType
<1>5. PageIsComplete'
  BY <1>1, <1>3 DEF BrowserIInv, PageType, PageIsComplete
<1>6. ASSUME NEW c \in calls PROVE CallIsSound(c)'
  <2>1. CallIsSound(c)
    BY DEF BrowserIInv
  <2>2. GraphCallIsSound(c) => GraphCallIsSound(c)'
    BY <1>1 DEF GraphCallIsSound
  <2>3. NewestCallIsSound(c) => NewestCallIsSound(c)'
    BY <1>2, <1>3 DEF NewestCallIsSound, Covers
  <2>4. OlderCallIsSound(c) => OlderCallIsSound(c)'
    <3>1. SUFFICES ASSUME OlderCallIsSound(c) PROVE OlderCallIsSound(c)'
      OBVIOUS
    <3>2. ASSUME c.answer # NoAnswer, NEW p \in Recorded(0, ledgerHeight'),
                 PositionBefore(p, before), ~PositionBefore(p, c.answer.next)
          PROVE  p \in c.answer.items
      BY <1>3, <3>1, <3>2 DEF OlderCallIsSound, BrowserIInv, PageType
    <3>. QED  BY <1>1, <1>2, <3>1, <3>2 DEF OlderCallIsSound
  <2>. QED  BY <2>1, <2>2, <2>3, <2>4 DEF CallIsSound
<1>7. OneOlderCall'
  BY <1>1 DEF BrowserIInv, OneOlderCall
<1>. QED  BY <1>1, <1>4, <1>5, <1>6, <1>7 DEF BrowserIInv

\* Calls that are made, answered or lost change nothing that is shown.
ShownStays == ledgerHeight' = ledgerHeight /\ shown' = shown

LEMMA ShownStaysKeeps ==
  ASSUME BrowserIInv, ShownStays, OneOlderCall',
         \A c \in calls' : c \in calls \/ CallIsSound(c)
  PROVE  BrowserIInv'
<1>1. PageType' /\ PageIsComplete'
  BY DEF BrowserIInv, ShownStays, shown, PageType, PageIsComplete, Indexed
<1>2. ASSUME NEW c, CallIsSound(c) PROVE CallIsSound(c)'
  BY <1>2 DEF ShownStays, shown, CallIsSound, GraphCallIsSound, NewestCallIsSound,
     OlderCallIsSound, Indexed, Covers
<1>. QED  BY <1>1, <1>2 DEF BrowserIInv

LEMMA NewCalls ==
  ASSUME NEW id, BrowserIInv
  PROVE  /\ GraphCall(id, 0).kind = "graph" /\ CallIsSound(GraphCall(id, 0))
         /\ \A h : GraphCall(id, h).kind = "graph"
         /\ CallIsSound(GraphCall(id, shownGraph.height))
         /\ FeedCall(id, "feed", NoPosition).kind = "feed"
         /\ CallIsSound(FeedCall(id, "feed", NoPosition))
         /\ before # NoPosition => CallIsSound(FeedCall(id, "older", before))
<1>1. Recorded(0, 0) = {}
  <2>1. \A p \in Recorded(0, 0) : p[1] \in 1 .. 0
    BY RecordedPositions
  <2>. QED  BY <2>1
<1>2. Recorded(0, shownGraph.height) \subseteq shownGraph.items /\ shownGraph.height \in Int
  BY DEF BrowserIInv, PageIsComplete, PageType
<1>. QED  BY <1>1, <1>2 DEF GraphCall, FeedCall, CallIsSound, GraphCallIsSound,
         NewestCallIsSound, OlderCallIsSound

LEMMA CallsAreMade ==
  ASSUME BrowserIInv, Refresh \/ NodeAnswers \/ NodeFails \/ LoadOlder
  PROVE  BrowserIInv'
<1>1. ShownStays
  BY DEF Refresh, NodeAnswers, NodeFails, LoadOlder, ShownStays
<1>2. OneOlderCall
  BY DEF BrowserIInv
<1>3. CASE Refresh
  <2>1. \/ calls' = calls
        \/ calls' = calls \cup {GraphCall(called + 1, 0), FeedCall(called + 2, "feed", NoPosition)}
    BY <1>3 DEF Refresh
  <2>. QED  BY <1>1, <1>2, <2>1, NewCalls, ShownStaysKeeps DEF OneOlderCall
<1>4. CASE NodeAnswers
  <2>1. calls' = calls \/ calls' = calls \cup {GraphCall(called + 1, shownGraph.height)}
    BY <1>4 DEF NodeAnswers
  <2>. QED  BY <1>1, <1>2, <2>1, NewCalls, ShownStaysKeeps DEF OneOlderCall
<1>5. CASE NodeFails
  BY <1>1, <1>2, <1>5, ShownStaysKeeps DEF OneOlderCall, NodeFails
<1>6. CASE LoadOlder
  <2>1. /\ calls' = calls \cup {FeedCall(called + 1, "older", before)} /\ before # NoPosition
        /\ \A c \in calls : c.kind # "older"
    BY <1>6 DEF LoadOlder
  <2>. QED  BY <1>1, <2>1, NewCalls, ShownStaysKeeps DEF OneOlderCall
<1>. QED  BY <1>3, <1>4, <1>5, <1>6

LEMMA CallFailsKeeps ==
  ASSUME BrowserIInv, NEW c \in calls, CallFails(c)
  PROVE  BrowserIInv'
<1>1. ShownStays /\ calls' \subseteq calls
  BY DEF CallFails, ShownStays
<1>. QED  BY <1>1, ShownStaysKeeps DEF BrowserIInv, OneOlderCall

LEMMA AnswerKeeps ==
  ASSUME BrowserIInv, NEW c \in calls, Answer(c)
  PROVE  BrowserIInv'
<1> DEFINE answer == IF c.kind = "graph" THEN GraphAnswer(c.after) ELSE FeedAnswer(c.cursor)
           d == [id |-> c.id, kind |-> c.kind, after |-> c.after, cursor |-> c.cursor,
                 answer |-> answer]
<1>1. CallIsSound(c) /\ PageType
  BY DEF BrowserIInv
<1>2. calls' = (calls \ {c}) \cup {d} /\ ShownStays
  <2>1. [c EXCEPT !.answer = answer] = d
    BY <1>1 DEF CallIsSound
  <2>. QED  BY <2>1 DEF Answer, ShownStays
<1>3. d.id = c.id /\ d.kind = c.kind /\ d.after = c.after /\ d.cursor = c.cursor /\ d.answer = answer
      /\ d = [id |-> d.id, kind |-> d.kind, after |-> d.after, cursor |-> d.cursor,
               answer |-> d.answer]
  OBVIOUS
<1>. HIDE DEF d
<1>4. ASSUME c.kind = "graph" PROVE CallIsSound(d)
  <2>1. answer.height = ledgerHeight /\ answer.items = Recorded(c.after, ledgerHeight)
    BY <1>4 DEF GraphAnswer
  <2>2. ledgerHeight \in Int
    BY <1>1, BrowserAssumption DEF PageType
  <2>. HIDE DEF answer
  <2>3. GraphCallIsSound(d)
    BY <1>1, <1>3, <1>4, <2>1, <2>2 DEF CallIsSound, GraphCallIsSound
  <2>. QED  BY <1>3, <1>4, <2>3 DEF CallIsSound
<1>5. ASSUME c.kind \in {"feed", "older"} PROVE CallIsSound(d)
  <2>1. c.cursor \in Position
    BY <1>1, <1>5 DEF CallIsSound, NewestCallIsSound, OlderCallIsSound, PageType, Indexed,
       NoPosition, Position
  <2>2. /\ Indexed(answer.newest) /\ Indexed(answer.next)
        /\ \A p \in Recorded(0, ledgerHeight) :
             (c.cursor = NoPosition \/ PositionBefore(p, c.cursor))
               /\ ~PositionBefore(p, answer.next) => p \in answer.items
    BY <1>1, <1>5, <2>1, FeedPage
  <2>. HIDE DEF answer
  <2>3. CASE c.kind = "feed"
    <3>1. NewestCallIsSound(d)
      BY <1>1, <1>3, <2>2, <2>3 DEF CallIsSound, NewestCallIsSound, Covers
    <3>. QED  BY <1>3, <2>3, <3>1 DEF CallIsSound
  <2>4. CASE c.kind = "older"
    <3>1. OlderCallIsSound(d)
      BY <1>1, <1>3, <2>2, <2>4 DEF CallIsSound, OlderCallIsSound
    <3>. QED  BY <1>3, <2>4, <3>1 DEF CallIsSound
  <2>. QED  BY <1>5, <2>3, <2>4
<1>6. CallIsSound(d)
  BY <1>1, <1>4, <1>5 DEF CallIsSound
<1>7. OneOlderCall'
  BY <1>2, <1>3 DEF BrowserIInv, OneOlderCall
<1>. QED  BY <1>2, <1>6, <1>7, ShownStaysKeeps

LEMMA ApplyGraphKeeps ==
  ASSUME BrowserIInv, NEW c \in calls, ApplyGraph(c)
  PROVE  BrowserIInv'
<1>1. CallIsSound(c) /\ c.kind = "graph" /\ c.answer # NoAnswer /\ GraphCallIsSound(c)
  BY DEF BrowserIInv, ApplyGraph, CallIsSound
<1>2. /\ shownGraph'.height = c.answer.height
      /\ shownGraph'.items = shownGraph.items \cup c.answer.items
      /\ ledgerHeight' = ledgerHeight /\ shownFeed' = shownFeed /\ before' = before /\ front' = front
  BY DEF ApplyGraph, MergedGraph
<1>3. \/ calls' = (calls \ {c}) \cup {FeedCall(called + 1, "feed", NoPosition)}
      \/ calls' = calls \ {c}
  BY DEF ApplyGraph
<1>4. Recorded(0, shownGraph'.height) \subseteq shownGraph'.items /\ shownGraph'.height \in Int
  <2>1. Recorded(0, c.answer.height) \subseteq Recorded(0, c.after) \cup Recorded(c.after, c.answer.height)
    BY <1>1, RecordedPositions DEF GraphCallIsSound
  <2>. QED  BY <1>1, <1>2, <2>1 DEF GraphCallIsSound
<1>5. PageType' /\ PageIsComplete'
  BY <1>2, <1>4 DEF BrowserIInv, PageType, PageIsComplete, Indexed
<1>6. ASSUME NEW d, CallIsSound(d) PROVE CallIsSound(d)'
  BY <1>2, <1>6 DEF CallIsSound, GraphCallIsSound, NewestCallIsSound, OlderCallIsSound, Indexed, Covers
<1>7. OneOlderCall'
  BY <1>3, NewCalls DEF BrowserIInv, OneOlderCall
<1>8. \A d \in calls' : CallIsSound(d)
  BY <1>3, NewCalls DEF BrowserIInv
<1>. QED  BY <1>5, <1>6, <1>7, <1>8 DEF BrowserIInv

\* An older page goes on where the feed ends; a newest page moves the cursor
\* only where there is none, so that no call for an older page is under way.
LEMMA ApplyFeedKeeps ==
  ASSUME BrowserIInv, NEW c \in calls, ApplyFeed(c)
  PROVE  BrowserIInv'
<1>1. CallIsSound(c) /\ c.kind \in {"feed", "older"} /\ c.answer # NoAnswer /\ PageType /\ OneOlderCall
  BY DEF BrowserIInv, ApplyFeed
<1>2. /\ shownFeed' = shownFeed \cup c.answer.items
      /\ before' = IF c.kind = "older" \/ before = NoPosition THEN c.answer.next ELSE before
      /\ front' = IF c.kind = "feed" /\ before = NoPosition THEN c.answer.newest ELSE front
      /\ calls' = calls \ {c} /\ ledgerHeight' = ledgerHeight /\ shownGraph' = shownGraph
  BY DEF ApplyFeed, MergedFeed
<1>3. c.kind = "feed" => NewestCallIsSound(c)
  BY <1>1 DEF CallIsSound
<1>4. c.kind = "older" => OlderCallIsSound(c)
  BY <1>1 DEF CallIsSound
<1>5. Covers(shownFeed, front, before)
  BY DEF BrowserIInv, PageIsComplete, Covers
<1>6. PageType'
  BY <1>1, <1>2, <1>3, <1>4 DEF PageType, NewestCallIsSound, OlderCallIsSound, Indexed
<1>7. Covers(shownFeed', front', before')
  <2>1. CASE c.kind = "older"
    <3>1. ASSUME NEW p \in Recorded(0, ledgerHeight), p = front \/ PositionBefore(p, front),
                 ~PositionBefore(p, c.answer.next)
          PROVE  p \in shownFeed \cup c.answer.items
      <4>1. CASE PositionBefore(p, before)
        BY <1>1, <1>4, <2>1, <3>1, <4>1 DEF OlderCallIsSound
      <4>2. CASE ~PositionBefore(p, before)
        BY <1>5, <3>1, <4>2 DEF Covers
      <4>. QED  BY <4>1, <4>2
    <3>2. before' = c.answer.next /\ front' = front
      BY <1>2, <2>1
    <3>. QED  BY <1>2, <3>1, <3>2 DEF Covers
  <2>2. CASE c.kind = "feed" /\ before = NoPosition
    BY <1>1, <1>2, <1>3, <2>2 DEF NewestCallIsSound, Covers
  <2>3. CASE c.kind = "feed" /\ before # NoPosition
    BY <1>2, <1>5, <2>3 DEF Covers
  <2>. QED  BY <1>1, <2>1, <2>2, <2>3
<1>8. PageIsComplete'
  BY <1>2, <1>7 DEF PageIsComplete, Covers, BrowserIInv
<1>9. ASSUME NEW d \in calls' PROVE CallIsSound(d)'
  <2>1. d \in calls /\ d # c /\ CallIsSound(d)
    BY <1>2 DEF BrowserIInv
  <2>2. d.kind # "older" \/ before' = before
    BY <1>1, <1>2, <1>4, <2>1 DEF OneOlderCall, CallIsSound, OlderCallIsSound
  <2>. QED  BY <1>2, <2>1, <2>2 DEF CallIsSound, GraphCallIsSound, NewestCallIsSound,
            OlderCallIsSound, Indexed, Covers
<1>10. OneOlderCall'
  BY <1>1, <1>2 DEF OneOlderCall
<1>. QED  BY <1>6, <1>8, <1>9, <1>10 DEF BrowserIInv

LEMMA BrowserStep == BrowserIInv /\ [BrowserNext]_browserVars => BrowserIInv'
<1>. SUFFICES ASSUME BrowserIInv, [BrowserNext]_browserVars PROVE BrowserIInv'
  OBVIOUS
<1>1. CASE UNCHANGED browserVars
  BY <1>1 DEF browserVars, BrowserIInv, PageType, PageIsComplete, OneOlderCall, CallIsSound,
     GraphCallIsSound, NewestCallIsSound, OlderCallIsSound, Indexed, Covers
<1>2. CASE BrowserNext
  BY <1>2, IndexBlockKeeps, CallsAreMade, AnswerKeeps, CallFailsKeeps, ApplyGraphKeeps,
     ApplyFeedKeeps DEF BrowserNext
<1>. QED  BY <1>1, <1>2

\* The page's graph holds every artifact up to the height it goes on from, and
\* its feed every transaction between cursor and front: for every ledger, page
\* size and order in which the calls of refresh and loadOlderActivity are
\* answered, applied or lost.
THEOREM PagesAreComplete == BrowserSpec => []PageIsComplete
<1>1. BrowserIInv => PageIsComplete
  BY DEF BrowserIInv
<1>. QED  BY <1>1, InitBrowser, BrowserStep, PTL DEF BrowserSpec

\* The dashboard's timeline and the inspector's page are coherent side by side.
THEOREM DisplaysCohere == TimelineSpec /\ BrowserSpec => []DisplaysAreCoherent
<1>1. SnapshotIsCoherent /\ PageIsComplete => DisplaysAreCoherent
  BY DEF DisplaysAreCoherent
<1>. QED  BY <1>1, SnapshotsCohere, PagesAreComplete, PTL
=============================================================================
