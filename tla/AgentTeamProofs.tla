--------------------------- MODULE AgentTeamProofs ---------------------------
(***************************************************************************)
(* What the files of an agent hold after any sequence of retargets,        *)
(* follow-ups, stops, kills, failures and lost sessions, for every set of  *)
(* mandates, follow-ups and settings and every limit.                      *)
(*                                                                         *)
(* And the roster of a team: it stays sound and loses no prompt for every  *)
(* set of commands, names and prompts, every cap and any number of callers *)
(* that may die; with one command at a time a workspace is its agent's     *)
(* own.                                                                    *)
(***************************************************************************)
EXTENDS AgentPass, AgentRoster, FiniteSetTheorems, TLAPS

-----------------------------------------------------------------------------
(* The pass: its inductive invariant.                                      *)

Runners == {"codex", "claude"}
Prepared == {"invoking", "retrying"}
Answered == {"returned", "identified", "reported", "billed", "digested", "archived", "ended"}
\* Of these, before the pass's conversation, usage, digest or follow-up is on file.
Unbilled == {"marked", "invoking", "retrying", "returned", "identified", "reported"}
Undigested == {"returned", "identified", "reported", "billed"}
Unfiled == {"invoking", "retrying", "returned", "identified", "reported", "billed", "digested"}

\* The mandates a pass works with are the operator's.
InUse ==
  /\ mandate \in setting.mandates
  /\ phase \in InPass \cup {"failed"} => checked \in setting.mandates
  /\ phase \in Prepared \cup Answered => config \in setting.mandates

\* A conversation stands under one mandate of its runner.
StandsFor(c, r) ==
  c # None /\ \E m \in setting.mandates : Runner(m) = r /\ heard[c] \cap Mandates = {m}

\* The stored conversations, and the one of a pass that has its answer, are
\* their runner's.
ConversationsStand ==
  /\ \A r \in Runners : ids[r] # None => StandsFor(ids[r], r)
  /\ phase \in Answered => StandsFor(conv, Runner(config))
  /\ phase \in Prepared \cup (Answered \ {"returned"}) => conv = ids[Runner(config)]

\* What a pass sends: its mandate and nobody else's, or, where the digest of
\* the last completed pass agrees, no mandate to a stored conversation.
PromptFits ==
  /\ phase \in Prepared => prompt \cap Mandates \subseteq {config}
  /\ phase = "invoking" =>
       /\ config \notin prompt => conv # None /\ digest = config
       /\ followup # None => followup \in prompt
  /\ phase = "retrying" => prompt = {config} /\ conv \in gone /\ config \in Claude

\* Lost conversations are the fault of the setting.
LossIsAFault == gone # {} => "lost_session" \in setting.faults

\* Where every pass that was begun also ends, the mandate of the digest stands
\* in its conversation, but for the steps from a pass's answer to its digest.
Steady == setting.faults \subseteq {"lost_session"}
DigestStands ==
  Steady =>
    /\ phase \in Undigested => heard[conv] \cap Mandates = {config}
    /\ digest # None /\ phase \notin Undigested =>
         ids[Runner(digest)] # None /\ heard[ids[Runner(digest)]] \cap Mandates = {digest}

\* The follow-up of a pass waits at the head of the queue until it is filed.
FollowUpWaits ==
  /\ phase \in Unfiled /\ followup # None => queue # <<>> /\ followup = Head(queue)
  /\ phase \in {"archived", "ended"} => followup \in {None} \cup Range(handled)

\* What was sent has been received, where no session is lost.
NoSessionLost == "lost_session" \notin setting.faults \/ setting.mandates \cap Claude = {}
FollowUpHeard ==
  NoSessionLost /\ phase \in Answered /\ followup # None => followup \in heard[conv]

\* A pass under way has room below its limit.
RoomForUsage == phase \in Unbilled => Len(usage) < Limit[checked]

\* The reports billed so far, and the one of the pass under way.
BilledReports ==
  /\ \A i \in DOMAIN usage : usage[i].report <= reports
  /\ phase = "reported" => reports > 0 /\ \A i \in DOMAIN usage : usage[i].report < reports
  /\ phase \in {"billed", "digested", "archived", "ended"} =>
       \E i \in DOMAIN usage : usage[i].report = reports

PassInv ==
  /\ TypeOK /\ InUse /\ ConversationsStand /\ PromptFits /\ LossIsAFault /\ DigestStands
  /\ FollowUpWaits /\ FollowUpHeard /\ RoomForUsage /\ BilledReports
  /\ FollowUpsKept /\ FollowUpsReachTheAgent /\ LimitRespected /\ RecordsAgree

-----------------------------------------------------------------------------
(* Types.                                                                  *)

\* What a conversation takes is typed, replaces no more than its mandate and
\* leaves the other conversations alone.
LEMMA Hearing ==
  ASSUME TypeOK, NEW c \in Conversations
  PROVE  /\ Heard(c) \in [Conversations -> SUBSET (Mandates \cup FollowUps)]
         /\ \A d \in Conversations \ {c} : Heard(c)[d] = heard[d]
         /\ Heard(c)[c] \cap FollowUps = (heard[c] \cup prompt) \cap FollowUps
         /\ prompt \cap Mandates = {} => Heard(c)[c] \cap Mandates = heard[c] \cap Mandates
         /\ prompt \cap Mandates # {} => Heard(c)[c] \cap Mandates = prompt \cap Mandates
<1>1. heard[c] \subseteq Mandates \cup FollowUps /\ prompt \subseteq Mandates \cup FollowUps
  BY DEF TypeOK
<1>2. Heard(c)[c] = prompt \cup (IF prompt \cap Mandates = {} THEN heard[c] ELSE heard[c] \ Mandates)
  BY DEF TypeOK, Heard
<1>3. \A d \in Conversations \ {c} : Heard(c)[d] = heard[d]
  BY DEF TypeOK, Heard
<1>4. Heard(c) \in [Conversations -> SUBSET (Mandates \cup FollowUps)]
  BY <1>1 DEF TypeOK, Heard
<1>. QED  BY <1>1, <1>2, <1>3, <1>4, PassAssumption

\* The runner takes the prompt in the stored conversation or in a fresh one.
LEMMA Answering ==
  ASSUME TypeOK, RunnerAnswers
  PROVE  /\ conv' \in Conversations /\ heard' = Heard(conv')
         /\ \/ phase = "invoking" /\ conv # None /\ conv' = conv
            \/ (phase = "retrying" \/ conv = None) /\ heard[conv'] = {}
<1>1. CASE phase = "invoking" /\ conv \notin gone \cup {None} /\ Hear(conv)
  BY <1>1 DEF Hear, TypeOK
<1>2. CASE (phase = "retrying" \/ conv = None) /\ Opened # Conversations /\ Hear(Fresh)
  <2>1. Fresh \in Conversations \ Opened
    BY <1>2 DEF Fresh, Opened
  <2>. QED  BY <1>2, <2>1 DEF Hear, Opened
<1>. QED  BY <1>1, <1>2 DEF RunnerAnswers

\* Moving the head of one sequence to the end of another keeps what they hold.
LEMMA Filing ==
  ASSUME NEW S, NEW q \in Seq(S), NEW h \in Seq(S), q # <<>>
  PROVE  /\ Tail(q) \in Seq(S) /\ Head(q) \in S
         /\ \A x \in S : Append(h, x) \in Seq(S)
         /\ Append(h, Head(q)) \o Tail(q) = h \o q
OBVIOUS

\* Every variable keeps its type.
LEMMA TypesKept ==
  ASSUME PassInv, [Next]_vars
  PROVE  TypeOK'
<1> USE PassAssumption DEF TypeOK, InPass, Conversations, files, local, world, operator
<1>0. TypeOK /\ setting.mandates \subseteq Mandates /\ setting.notes \subseteq FollowUps
  BY DEF PassInv
<1>1. CASE StopAtLimit \/ EndPass \/ UNCHANGED vars
  BY <1>0, <1>1 DEF StopAtLimit, EndPass, AfterPass, vars
<1>2. CASE BeginPass
  BY <1>0, <1>2 DEF BeginPass
<1>3. CASE PreparePass
  BY <1>0, <1>3 DEF PreparePass, Runner
<1>4. CASE RetryLostSession
  BY <1>0, <1>4 DEF RetryLostSession
<1>5. CASE WriteId
  BY <1>0, <1>5 DEF WriteId, Runner
<1>6. CASE WriteReport
  BY <1>0, <1>6 DEF WriteReport
<1>7. CASE AppendUsage
  <2>1. reports \in 1 .. MaxReports /\ checked \in Mandates
    BY <1>0, <1>7 DEF AppendUsage, PassInv, BilledReports, InUse
  <2>. QED  BY <1>0, <1>7, <2>1 DEF AppendUsage
<1>8. CASE WriteDigest
  <2>1. config \in Mandates
    BY <1>0, <1>8 DEF WriteDigest, PassInv, InUse, Answered
  <2>. QED  BY <1>0, <1>8, <2>1 DEF WriteDigest
<1>9. CASE ArchiveFollowUp
  <2>1. followup # None => queue # <<>>
    BY <1>9 DEF ArchiveFollowUp, PassInv, FollowUpWaits, Unfiled
  <2>2. queue' \in Seq(FollowUps) /\ handled' \in Seq(FollowUps)
    <3>1. CASE followup = None
      BY <1>0, <1>9, <3>1 DEF ArchiveFollowUp
    <3>2. CASE followup # None
      <4>1. queue \in Seq(FollowUps) /\ queue # <<>> /\ followup \in FollowUps
        BY <1>0, <2>1, <3>2
      <4>2. handled \in Seq(FollowUps)
        BY <1>0
      <4>3. queue' = Tail(queue) /\ handled' = Append(handled, followup)
        BY <1>9, <3>2 DEF ArchiveFollowUp
      <4>. QED  BY <4>1, <4>2, <4>3, Filing
    <3>. QED  BY <3>1, <3>2
  <2>. QED  BY <1>0, <1>9, <2>2 DEF ArchiveFollowUp
<1>10. CASE WriteLastRun
  <2>1. reports \in 1 .. MaxReports
    <3>1. PICK i \in DOMAIN usage : usage[i].report = reports
      BY <1>10 DEF WriteLastRun, PassInv, BilledReports
    <3> DEFINE Usage == [report : 1 .. MaxReports, checked : Mandates]
    <3>2. usage[i] \in Usage
      <4>1. usage \in Seq(Usage)
        BY <1>0
      <4> HIDE DEF Usage
      <4>. QED  BY <4>1
    <3>. QED  BY <3>1, <3>2
  <2>. QED  BY <1>0, <1>10, <2>1 DEF WriteLastRun
<1>11. CASE RunnerAnswers
  <2>1. conv' \in Conversations /\ heard' \in [Conversations -> SUBSET (Mandates \cup FollowUps)]
    BY <1>0, <1>11, Answering, Hearing
  <2>. QED  BY <1>0, <1>11, <2>1 DEF RunnerAnswers
<1>12. CASE RunnerFails \/ Stop \/ Crash
  <2>1. heard' \in [Conversations -> SUBSET (Mandates \cup FollowUps)]
    BY <1>0, <1>12, Hearing DEF RunnerFails, Stop, Crash, TurnIsLost
  <2>2. lastRun' \in [status : {"completed", "failed"}, report : 1 .. MaxReports \cup {None}] \cup {None}
    BY <1>0, <1>12 DEF RunnerFails, Stop, Crash, RecordFailure
  <2>. QED  BY <1>0, <1>12, <2>1, <2>2 DEF RunnerFails, Stop, Crash, RecordFailure
<1>17. CASE FailPass
  <2>1. lastRun' \in [status : {"completed", "failed"}, report : 1 .. MaxReports \cup {None}] \cup {None}
    BY <1>0, <1>17 DEF FailPass, RecordFailure
  <2>. QED  BY <1>0, <1>17, <2>1 DEF FailPass, AfterPass, RecordFailure
<1>13. CASE \E m \in setting.mandates : Retarget(m)
  BY <1>0, <1>13 DEF Retarget
<1>14. CASE \E f \in setting.notes : Continue(f)
  BY <1>0, <1>14 DEF Continue
<1>15. CASE StartWorker
  BY <1>0, <1>15 DEF StartWorker
<1>16. CASE \E c \in Conversations : LoseSession(c)
  BY <1>0, <1>16 DEF LoseSession
<1>. QED
  BY <1>1, <1>2, <1>3, <1>4, <1>5, <1>6, <1>7, <1>8, <1>9, <1>10, <1>11, <1>12, <1>13, <1>14, <1>15, <1>16,
     <1>17
  DEF Next, WorkerStep

-----------------------------------------------------------------------------
(* Mandates and conversations.                                             *)

\* The mandate on file and those a pass has read are the operator's.
LEMMA InUseKept ==
  ASSUME PassInv, [Next]_vars
  PROVE  InUse'
<1> USE DEF InUse, InPass, Prepared, Answered, files, local, world, operator
<1>1. InUse /\ phase \in InPass \cup {"down", "loop", "failed"}
  BY DEF PassInv, TypeOK
<1>2. CASE StopAtLimit \/ BeginPass \/ FailPass \/ EndPass \/ StartWorker \/ UNCHANGED vars
  BY <1>1, <1>2 DEF StopAtLimit, BeginPass, FailPass, EndPass, AfterPass, StartWorker, vars
<1>3. CASE PreparePass \/ RetryLostSession \/ RunnerAnswers \/ RunnerFails \/ Stop \/ Crash
  BY <1>1, <1>3 DEF PreparePass, RetryLostSession, RunnerAnswers, RunnerFails, Stop, Crash
<1>4. CASE WriteId \/ WriteReport \/ AppendUsage \/ WriteDigest \/ ArchiveFollowUp \/ WriteLastRun
  BY <1>1, <1>4 DEF WriteId, WriteReport, AppendUsage, WriteDigest, ArchiveFollowUp, WriteLastRun
<1>5. CASE \/ \E m \in setting.mandates : Retarget(m)
           \/ \E f \in setting.notes : Continue(f)
           \/ \E c \in Conversations : LoseSession(c)
  BY <1>1, <1>5 DEF Retarget, Continue, LoseSession
<1>. QED  BY <1>2, <1>3, <1>4, <1>5 DEF Next, WorkerStep

\* The conversation that takes a prompt stands for the runner of the pass, the
\* stored ones of the others are not touched.
LEMMA HearingStands ==
  ASSUME PassInv, phase \in Prepared, NEW c \in Conversations, heard' = Heard(c),
         UNCHANGED <<setting, ids>>,
         \/ phase = "invoking" /\ c = conv
         \/ heard[c] = {} /\ config \in prompt
  PROVE  /\ \A r \in Runners : ids'[r] # None => StandsFor(ids[r], r)'
         /\ \E m \in setting.mandates : Runner(m) = Runner(config) /\ heard'[c] \cap Mandates = {m}
         /\ config \in prompt => heard'[c] \cap Mandates = {config}
         /\ config \notin prompt => heard'[c] \cap Mandates = heard[c] \cap Mandates
<1>1. /\ config \in setting.mandates /\ setting.mandates \subseteq Mandates
      /\ prompt \cap Mandates \subseteq {config}
      /\ c = conv /\ phase = "invoking" => c = ids[Runner(config)]
      /\ TypeOK /\ None \notin Conversations
  BY PassAssumption DEF PassInv, InUse, TypeOK, PromptFits, ConversationsStand, Conversations
<1>2. /\ \A d \in Conversations \ {c} : heard'[d] = heard[d]
      /\ config \in prompt => heard'[c] \cap Mandates = {config}
      /\ config \notin prompt => heard'[c] \cap Mandates = heard[c] \cap Mandates
  <2>1. config \in Mandates /\ (config \in prompt => prompt \cap Mandates = {config})
                            /\ (config \notin prompt => prompt \cap Mandates = {})
    BY <1>1
  <2>. QED  BY <1>1, <2>1, Hearing
<1>3. ASSUME NEW r \in Runners, ids[r] # None
      PROVE  ids[r] \in Conversations
              /\ \E m \in setting.mandates : Runner(m) = r /\ heard[ids[r]] \cap Mandates = {m}
  BY <1>1, <1>3 DEF PassInv, ConversationsStand, StandsFor, TypeOK, Runners
<1>4. \E m \in setting.mandates : Runner(m) = Runner(config) /\ heard'[c] \cap Mandates = {m}
  <2>1. CASE config \in prompt
    BY <1>1, <1>2, <2>1
  <2>2. CASE config \notin prompt
    <3>1. c = ids[Runner(config)] /\ Runner(config) \in Runners
      BY <1>1, <2>2 DEF Runner, Runners
    <3>. QED  BY <1>1, <1>2, <1>3, <2>2, <3>1
  <2>. QED  BY <2>1, <2>2
<1>5. ASSUME NEW r \in Runners, ids[r] # None
      PROVE  \E m \in setting.mandates : Runner(m) = r /\ heard'[ids[r]] \cap Mandates = {m}
  <2>1. CASE ids[r] # c
    BY <1>2, <1>3, <1>5, <2>1
  <2>2. CASE ids[r] = c
    <3>1. r = Runner(config)
      <4>1. c = ids[Runner(config)] /\ Runner(config) \in Runners
        BY <1>1, <1>3, <1>5, <2>2 DEF Runner, Runners
      <4>. QED  BY <1>1, <1>3, <1>5, <2>2, <4>1
    <3>. QED  BY <1>4, <2>2, <3>1
  <2>. QED  BY <2>1, <2>2
<1>. QED  BY <1>2, <1>4, <1>5 DEF StandsFor, Runner

\* A pass that has its answer has it from a conversation of its runner.
LEMMA AnswerStands ==
  ASSUME PassInv, RunnerAnswers
  PROVE  /\ \A r \in Runners : ids'[r] # None => StandsFor(ids[r], r)'
         /\ StandsFor(conv, Runner(config))'
         /\ config \in prompt => heard'[conv'] \cap Mandates = {config}
         /\ config \notin prompt =>
              /\ phase = "invoking" /\ conv # None /\ conv = ids[Runner(config)] /\ digest = config
              /\ heard'[conv'] \cap Mandates = heard[conv] \cap Mandates
<1>1. TypeOK /\ phase \in Prepared /\ UNCHANGED <<setting, ids, config>>
  BY DEF PassInv, RunnerAnswers, Prepared, operator, files
<1>2. /\ conv' \in Conversations /\ heard' = Heard(conv')
      /\ \/ phase = "invoking" /\ conv # None /\ conv' = conv
         \/ (phase = "retrying" \/ conv = None) /\ heard[conv'] = {}
  BY <1>1, Answering
<1>3. /\ phase = "retrying" \/ conv = None => config \in prompt
      /\ config \notin prompt =>
           phase = "invoking" /\ conv # None /\ conv = ids[Runner(config)] /\ digest = config
  BY <1>1 DEF PassInv, PromptFits, ConversationsStand, Prepared
<1>4. /\ \A r \in Runners : ids'[r] # None => StandsFor(ids[r], r)'
      /\ \E m \in setting.mandates : Runner(m) = Runner(config) /\ heard'[conv'] \cap Mandates = {m}
      /\ config \in prompt => heard'[conv'] \cap Mandates = {config}
      /\ config \notin prompt => heard'[conv'] \cap Mandates = heard[conv'] \cap Mandates
  <2> HIDE DEF PassInv
  <2> DEFINE c == conv'
  <2>1. \/ phase = "invoking" /\ c = conv
        \/ heard[c] = {} /\ config \in prompt
    BY <1>2, <1>3
  <2>2. c \in Conversations /\ heard' = Heard(c)
    BY <1>2
  <2> HIDE DEF c
  <2>3. /\ \A r \in Runners : ids'[r] # None => StandsFor(ids[r], r)'
        /\ \E m \in setting.mandates : Runner(m) = Runner(config) /\ heard'[c] \cap Mandates = {m}
        /\ config \in prompt => heard'[c] \cap Mandates = {config}
        /\ config \notin prompt => heard'[c] \cap Mandates = heard[c] \cap Mandates
    BY <1>1, <2>1, <2>2, HearingStands
  <2>. QED  BY <2>3 DEF c
<1>5. conv' # None
  BY <1>2, PassAssumption DEF Conversations
<1>. QED  BY <1>1, <1>2, <1>3, <1>4, <1>5 DEF StandsFor, Runner

\* A turn that comes to nothing leaves the stored conversations standing.
LEMMA LostTurnStands ==
  ASSUME PassInv, TurnIsLost, UNCHANGED <<setting, ids>>
  PROVE  \A r \in Runners : ids'[r] # None => StandsFor(ids[r], r)'
<1>1. CASE UNCHANGED heard
  BY <1>1 DEF PassInv, ConversationsStand, StandsFor, Runner
<1>2. CASE phase = "invoking" /\ conv \notin gone \cup {None} /\ heard' = Heard(conv)
  <2>1. conv \in Conversations
    BY <1>2 DEF PassInv, TypeOK
  <2>. QED  BY <1>2, <2>1, HearingStands DEF Prepared
<1>. QED  BY <1>1, <1>2 DEF TurnIsLost

\* Every step leaves stored conversations standing for their runners.
LEMMA ConversationsKept ==
  ASSUME PassInv, [Next]_vars
  PROVE  ConversationsStand'
<1> USE DEF Prepared, Answered, files, local, world, operator
<1>1. ConversationsStand /\ InUse /\ TypeOK
  BY DEF PassInv
<1>2. CASE StopAtLimit \/ BeginPass \/ FailPass \/ EndPass \/ StartWorker \/ UNCHANGED vars
  BY <1>1, <1>2
  DEF StopAtLimit, BeginPass, FailPass, RecordFailure, EndPass, AfterPass, StartWorker, vars,
      ConversationsStand, StandsFor, Runner
<1>3. CASE PreparePass \/ RetryLostSession
  BY <1>1, <1>3 DEF PreparePass, RetryLostSession, ConversationsStand, StandsFor, Runner
<1>4. CASE RunnerAnswers
  BY <1>4, AnswerStands DEF RunnerAnswers, ConversationsStand
<1>5. CASE RunnerFails \/ Stop \/ Crash
  <2>1. TurnIsLost /\ UNCHANGED <<setting, ids>> /\ phase' \in {"down", "failed"}
    BY <1>5 DEF RunnerFails, Stop, Crash, TurnIsLost, RecordFailure
  <2>. QED  BY <2>1, LostTurnStands DEF ConversationsStand
<1>6. CASE WriteId
  <2>1. StandsFor(conv, Runner(config))
    BY <1>1, <1>6 DEF WriteId, ConversationsStand
  <2>2. ids' = [ids EXCEPT ![Runner(config)] = conv] /\ Runner(config) \in Runners /\ DOMAIN ids = Runners
    BY <1>1, <1>6 DEF WriteId, Runner, Runners, TypeOK
  <2>3. UNCHANGED <<setting, heard, conv, config>> /\ phase' = "identified"
    BY <1>6 DEF WriteId
  <2>4. ASSUME NEW r \in Runners, ids'[r] # None PROVE StandsFor(ids[r], r)'
    BY <1>1, <2>1, <2>2, <2>3, <2>4 DEF ConversationsStand, StandsFor, Runner
  <2>. QED  BY <2>1, <2>2, <2>3, <2>4 DEF ConversationsStand, StandsFor, Runner
<1>7. CASE WriteReport \/ AppendUsage \/ WriteDigest \/ ArchiveFollowUp \/ WriteLastRun
  BY <1>1, <1>7
  DEF WriteReport, AppendUsage, WriteDigest, ArchiveFollowUp, WriteLastRun,
      ConversationsStand, StandsFor, Runner
<1>8. CASE \/ \E m \in setting.mandates : Retarget(m)
           \/ \E f \in setting.notes : Continue(f)
           \/ \E c \in Conversations : LoseSession(c)
  BY <1>1, <1>8 DEF Retarget, Continue, LoseSession, ConversationsStand, StandsFor, Runner
<1>. QED  BY <1>2, <1>3, <1>4, <1>5, <1>6, <1>7, <1>8 DEF Next, WorkerStep

\* Every prompt fits its conversation; only a setting loses sessions.
LEMMA PromptKept ==
  ASSUME PassInv, [Next]_vars
  PROVE  PromptFits' /\ LossIsAFault'
<1> USE DEF Prepared, PromptFits, LossIsAFault, files, local, world, operator
<1>1. PromptFits /\ LossIsAFault /\ TypeOK
  BY DEF PassInv
<1>2. CASE \/ StopAtLimit \/ BeginPass \/ FailPass \/ EndPass \/ StartWorker \/ UNCHANGED vars
           \/ RunnerAnswers \/ RunnerFails \/ Stop \/ Crash
  BY <1>1, <1>2
  DEF StopAtLimit, BeginPass, FailPass, RecordFailure, EndPass, AfterPass, StartWorker, vars, RunnerAnswers,
      RunnerFails, Stop, Crash
<1>3. CASE PreparePass
  <2>1. \A x \in Mandates : x \notin FollowUps \cup {None}
    BY PassAssumption
  <2>2. config' = mandate /\ mandate \in Mandates /\ phase' = "invoking"
        /\ followup' \in FollowUps \cup {None} /\ UNCHANGED <<digest, gone, setting>>
    <3>1. queue # <<>> => Head(queue) \in FollowUps
      BY <1>1, Filing DEF TypeOK
    <3>. QED  BY <1>1, <1>3, <3>1 DEF PreparePass, TypeOK
  <2>3. prompt' = (IF conv' = None \/ digest # mandate THEN {mandate} ELSE {}) \cup ({followup'} \ {None})
    BY <1>3 DEF PreparePass
  <2>. QED  BY <1>1, <2>1, <2>2, <2>3
<1>4. CASE RetryLostSession
  BY <1>1, <1>4 DEF RetryLostSession
<1>5. CASE \/ WriteId \/ WriteReport \/ AppendUsage \/ WriteDigest \/ ArchiveFollowUp \/ WriteLastRun
  BY <1>1, <1>5 DEF WriteId, WriteReport, AppendUsage, WriteDigest, ArchiveFollowUp, WriteLastRun
<1>6. CASE \/ \E m \in setting.mandates : Retarget(m)
           \/ \E f \in setting.notes : Continue(f)
           \/ \E c \in Conversations : LoseSession(c)
  BY <1>1, <1>6 DEF Retarget, Continue, LoseSession
<1>. QED  BY <1>2, <1>3, <1>4, <1>5, <1>6 DEF Next, WorkerStep

\* Where passes are not interrupted, the digest names the standing mandate.
LEMMA DigestKept ==
  ASSUME PassInv, [Next]_vars
  PROVE  DigestStands'
<1> USE DEF Undigested, files, local, world, operator
<1>1. DigestStands /\ TypeOK /\ setting' = setting
  BY DEF PassInv, Next, WorkerStep, StopAtLimit, BeginPass, FailPass, EndPass, StartWorker, vars,
         PreparePass, RetryLostSession, RunnerAnswers, RunnerFails, Stop, Crash, WriteId, WriteReport,
         AppendUsage, WriteDigest, ArchiveFollowUp, WriteLastRun, Retarget, Continue, LoseSession
<1> SUFFICES ASSUME Steady PROVE DigestStands'
  BY <1>1 DEF DigestStands, Steady
<1>2. CASE StopAtLimit \/ BeginPass \/ FailPass \/ EndPass \/ StartWorker \/ UNCHANGED vars
  BY <1>1, <1>2
  DEF StopAtLimit, BeginPass, FailPass, RecordFailure, EndPass, AfterPass, StartWorker, vars, DigestStands, Runner
<1>3. CASE PreparePass \/ RetryLostSession
  BY <1>1, <1>3 DEF PreparePass, RetryLostSession, DigestStands, Runner
<1>4. CASE RunnerAnswers
  <2>1. heard'[conv'] \cap Mandates = {config}
    <3>1. CASE config \in prompt
      BY <1>4, <3>1, AnswerStands
    <3>2. CASE config \notin prompt
      <4>1. /\ phase = "invoking" /\ conv = ids[Runner(config)] /\ digest = config
            /\ heard'[conv'] \cap Mandates = heard[conv] \cap Mandates
        BY <1>4, <3>2, AnswerStands
      <4>2. digest # None
        BY <4>1, PassAssumption DEF PassInv, InUse, TypeOK, Prepared
      <4>. QED  BY <1>1, <4>1, <4>2 DEF DigestStands
    <3>. QED  BY <3>1, <3>2
  <2>. QED  BY <1>4, <2>1 DEF RunnerAnswers, DigestStands
<1>5. CASE RunnerFails \/ Stop \/ Crash
  BY <1>1, <1>5 DEF RunnerFails, Stop, Crash, Steady, DigestStands, Runner
<1>6. CASE WriteId \/ WriteReport \/ AppendUsage
  BY <1>1, <1>6 DEF WriteId, WriteReport, AppendUsage, DigestStands
<1>7. CASE WriteDigest
  <2>1. conv = ids[Runner(config)] /\ conv # None
    BY <1>7 DEF WriteDigest, PassInv, ConversationsStand, StandsFor, Answered
  <2>. QED  BY <1>1, <1>7, <2>1 DEF WriteDigest, DigestStands, Runner
<1>8. CASE ArchiveFollowUp \/ WriteLastRun
  BY <1>1, <1>8 DEF ArchiveFollowUp, WriteLastRun, DigestStands, Runner
<1>9. CASE \/ \E m \in setting.mandates : Retarget(m)
           \/ \E f \in setting.notes : Continue(f)
           \/ \E c \in Conversations : LoseSession(c)
  BY <1>1, <1>9 DEF Retarget, Continue, LoseSession, DigestStands, Runner
<1>. QED  BY <1>2, <1>3, <1>4, <1>5, <1>6, <1>7, <1>8, <1>9 DEF Next, WorkerStep

-----------------------------------------------------------------------------
(* Follow-ups.                                                             *)

\* A step other than a filing leaves the follow-up of the pass where it is.
LEMMA FollowUpsWait ==
  ASSUME PassInv, [Next]_vars
  PROVE  FollowUpWaits' /\ FollowUpsKept'
<1> USE DEF Unfiled, files, local, world, operator
<1>1. /\ FollowUpWaits /\ FollowUpsKept
      /\ queue \in Seq(FollowUps) /\ handled \in Seq(FollowUps) /\ queued \in Seq(FollowUps)
      /\ followup \in FollowUps \cup {None}
  BY DEF PassInv, TypeOK
<1>2. CASE \/ StopAtLimit \/ BeginPass \/ FailPass \/ EndPass \/ StartWorker \/ UNCHANGED vars
           \/ RetryLostSession \/ RunnerAnswers \/ RunnerFails \/ Stop \/ Crash
  BY <1>1, <1>2
  DEF StopAtLimit, BeginPass, FailPass, RecordFailure, EndPass, AfterPass, StartWorker, vars,
      RetryLostSession, RunnerAnswers, RunnerFails, Stop, Crash, FollowUpWaits, FollowUpsKept
<1>3. CASE PreparePass
  BY <1>1, <1>3 DEF PreparePass, FollowUpWaits, FollowUpsKept
<1>4. CASE WriteId \/ WriteReport \/ AppendUsage \/ WriteDigest \/ WriteLastRun
  BY <1>1, <1>4
  DEF WriteId, WriteReport, AppendUsage, WriteDigest, WriteLastRun, FollowUpWaits, FollowUpsKept
<1>5. CASE ArchiveFollowUp
  <2>1. CASE followup = None
    BY <1>1, <1>5, <2>1 DEF ArchiveFollowUp, FollowUpWaits, FollowUpsKept
  <2>2. CASE followup # None
    <3>1. /\ queue # <<>> /\ followup = Head(queue) /\ followup \in FollowUps
          /\ queue' = Tail(queue) /\ handled' = Append(handled, followup)
          /\ UNCHANGED <<queued, followup>> /\ phase' = "archived"
      BY <1>1, <1>5, <2>2 DEF ArchiveFollowUp, FollowUpWaits
    <3>2. handled' \o queue' = queued'
      BY <1>1, <3>1, Filing DEF FollowUpsKept
    <3>3. followup \in Range(handled')
      <4>1. Len(handled) + 1 \in DOMAIN Append(handled, followup)
            /\ Append(handled, followup)[Len(handled) + 1] = followup
        BY <1>1, <3>1
      <4>. QED  BY <3>1, <4>1 DEF Range
    <3>. QED  BY <3>1, <3>2, <3>3 DEF FollowUpWaits, FollowUpsKept
  <2>. QED  BY <2>1, <2>2
<1>6. CASE \E f \in setting.notes : Continue(f)
  <2>1. PICK f \in FollowUps : queue' = Append(queue, f) /\ queued' = Append(queued, f)
    BY <1>6, PassAssumption DEF PassInv, TypeOK, Continue
  <2>2. UNCHANGED <<handled, followup, phase>>
    BY <1>6 DEF Continue
  <2>3. handled \o Append(queue, f) = Append(handled \o queue, f)
    BY <1>1
  <2>4. queue # <<>> => queue' # <<>> /\ Head(queue') = Head(queue)
    BY <1>1, <2>1
  <2>. QED  BY <1>1, <2>1, <2>2, <2>3, <2>4 DEF FollowUpWaits, FollowUpsKept
<1>7. CASE (\E m \in setting.mandates : Retarget(m)) \/ (\E c \in Conversations : LoseSession(c))
  BY <1>1, <1>7 DEF Retarget, LoseSession, FollowUpWaits, FollowUpsKept
<1>. QED  BY <1>2, <1>3, <1>4, <1>5, <1>6, <1>7 DEF Next, WorkerStep

\* Conversations never lose a follow-up they received.
LEMMA ConversationsRemember ==
  ASSUME PassInv, [Next]_vars
  PROVE  /\ setting' = setting
         /\ \A c \in Conversations : heard[c] \cap FollowUps \subseteq heard'[c]
<1> USE DEF files, local, world, operator
<1>1. CASE RunnerAnswers \/ RunnerFails \/ Stop \/ Crash
  <2>1. setting' = setting
    BY <1>1 DEF RunnerAnswers, RunnerFails, Stop, Crash
  <2>2. heard' = heard \/ \E c \in Conversations : heard' = Heard(c)
    BY <1>1, Answering DEF PassInv, TypeOK, RunnerFails, Stop, Crash, TurnIsLost
  <2>3. ASSUME NEW c \in Conversations, heard' = Heard(c)
        PROVE  \A d \in Conversations : heard[d] \cap FollowUps \subseteq heard'[d]
    BY <2>3, Hearing DEF PassInv
  <2>. QED  BY <2>1, <2>2, <2>3
<1>2. CASE ~(RunnerAnswers \/ RunnerFails \/ Stop \/ Crash)
  <2>1. setting' = setting /\ heard' = heard
    BY <1>2
    DEF Next, WorkerStep, StopAtLimit, BeginPass, FailPass, EndPass, StartWorker, vars,
        PreparePass, RetryLostSession, WriteId, WriteReport, AppendUsage, WriteDigest,
        ArchiveFollowUp, WriteLastRun, Retarget, Continue, LoseSession
  <2>. QED  BY <2>1
<1>. QED  BY <1>1, <1>2

\* What is filed has been received where no session of Claude Code is lost.
LEMMA FollowUpsHeard ==
  ASSUME PassInv, [Next]_vars
  PROVE  FollowUpHeard' /\ FollowUpsReachTheAgent'
<1> USE DEF Answered, files, local, world, operator
<1>0. TypeOK /\ FollowUpHeard
  BY DEF PassInv
<1>1. /\ setting' = setting
      /\ \A c \in Conversations : heard[c] \cap FollowUps \subseteq heard'[c]
  BY ConversationsRemember
<1> SUFFICES ASSUME NoSessionLost
             PROVE  /\ phase' \in Answered /\ followup' # None => followup' \in heard'[conv']
                    /\ HandledWasHeard'
  BY <1>1 DEF FollowUpHeard, FollowUpsReachTheAgent, NoSessionLost
<1>2. phase \in Answered => conv \in Conversations
  BY <1>0 DEF PassInv, ConversationsStand, StandsFor, TypeOK
<1>3. phase' \in Answered /\ followup' # None => followup' \in heard'[conv']
  <2>1. CASE RunnerAnswers
    <3>1. phase # "retrying"
      <4>1. phase = "retrying" => conv \in gone /\ config \in Claude \cap setting.mandates
        BY DEF PassInv, PromptFits, InUse, Prepared
      <4>. QED  BY <4>1 DEF PassInv, LossIsAFault, NoSessionLost
    <3>2. followup # None => followup \in prompt /\ followup \in FollowUps
      BY <1>0, <2>1, <3>1 DEF RunnerAnswers, PassInv, PromptFits, TypeOK
    <3>3. conv' \in Conversations /\ heard' = Heard(conv') /\ followup' = followup
      BY <1>0, <2>1, Answering DEF RunnerAnswers
    <3>. QED  BY <1>0, <3>2, <3>3, Hearing
  <2>2. CASE ~RunnerAnswers
    <3>1. phase' \in Answered => phase \in Answered /\ UNCHANGED <<conv, followup>>
      BY <2>2
      DEF Next, WorkerStep, StopAtLimit, BeginPass, FailPass, EndPass, AfterPass, StartWorker, vars,
          PreparePass, RetryLostSession, RunnerFails, Stop, Crash, WriteId, WriteReport, AppendUsage,
          WriteDigest, ArchiveFollowUp, WriteLastRun, Retarget, Continue, LoseSession
    <3>. QED  BY <1>0, <1>1, <1>2, <3>1 DEF FollowUpHeard, TypeOK
  <2>. QED  BY <2>1, <2>2
<1>4. HandledWasHeard'
  <2>1. HandledWasHeard /\ handled \in Seq(FollowUps)
    BY <1>0 DEF PassInv, FollowUpsReachTheAgent, NoSessionLost, TypeOK
  <2>2. CASE handled' = handled
    <3>. SUFFICES ASSUME NEW i \in DOMAIN handled
                  PROVE  \E c \in Conversations : handled[i] \in heard'[c]
      BY <2>2 DEF HandledWasHeard
    <3>1. handled[i] \in FollowUps
      BY <2>1
    <3>. QED  BY <1>1, <2>1, <3>1 DEF HandledWasHeard
  <2>3. CASE handled' # handled
    <3>1. ArchiveFollowUp
      BY <2>3
      DEF Next, WorkerStep, StopAtLimit, BeginPass, FailPass, RecordFailure, EndPass, StartWorker, vars,
          PreparePass, RetryLostSession, RunnerAnswers, RunnerFails, Stop, Crash, WriteId, WriteReport,
          AppendUsage, WriteDigest, WriteLastRun, Retarget, Continue, LoseSession
    <3>2. /\ followup \in FollowUps /\ handled' = Append(handled, followup) /\ heard' = heard
          /\ followup \in heard[conv] /\ conv \in Conversations
      BY <1>0, <1>2, <2>3, <3>1 DEF ArchiveFollowUp, FollowUpHeard, TypeOK
    <3>. SUFFICES ASSUME NEW i \in DOMAIN handled'
                  PROVE  \E c \in Conversations : handled'[i] \in heard'[c]
      BY DEF HandledWasHeard
    <3>3. CASE i \in DOMAIN handled
      BY <2>1, <3>2, <3>3 DEF HandledWasHeard
    <3>4. CASE i \notin DOMAIN handled
      <4>1. handled'[i] = followup
        BY <2>1, <3>2, <3>4
      <4>. QED  BY <3>2, <4>1
    <3>. QED  BY <3>3, <3>4
  <2>. QED  BY <2>2, <2>3
<1>. QED  BY <1>3, <1>4

-----------------------------------------------------------------------------
(* Records.                                                                *)

\* Usage stays below the limit and bills every report once.
LEMMA RecordsKept ==
  ASSUME PassInv, [Next]_vars
  PROVE  RoomForUsage' /\ BilledReports' /\ LimitRespected' /\ BilledOnce'
<1> DEFINE Usage == [report : 1 .. MaxReports, checked : Mandates]
<1>1. /\ RoomForUsage /\ BilledReports /\ LimitRespected /\ BilledOnce
      /\ usage \in Seq(Usage) /\ reports \in Nat /\ mandate \in Mandates
  BY PassAssumption DEF PassInv, RecordsAgree, TypeOK
<1>2. /\ \A i \in DOMAIN usage : usage[i] \in Usage
      /\ Len(usage) \in Nat /\ DOMAIN usage = 1 .. Len(usage)
  <2> HIDE DEF Usage
  <2>. QED  BY <1>1
<1>3. CASE BeginPass
  <2>1. Len(usage) < Limit[mandate]
    <3>1. Limit[mandate] \in Nat
      BY <1>1, PassAssumption
    <3>. QED  BY <1>2, <1>3, <3>1 DEF BeginPass, LimitReached
  <2>2. UNCHANGED <<usage, reports>> /\ phase' = "marked" /\ checked' = mandate
    BY <1>3 DEF BeginPass
  <2>. QED  BY <1>1, <2>1, <2>2 DEF RoomForUsage, BilledReports, LimitRespected, BilledOnce
<1>4. CASE WriteReport
  <2>1. /\ UNCHANGED <<usage, checked>> /\ phase = "identified" /\ phase' = "reported"
        /\ reports' = reports + 1
    BY <1>4 DEF WriteReport, local
  <2>2. \A i \in DOMAIN usage : usage[i].report \in Nat /\ usage[i].report <= reports
    BY <1>1, <1>2 DEF BilledReports
  <2>3. BilledReports'
    BY <1>1, <2>1, <2>2 DEF BilledReports
  <2>. QED  BY <1>1, <2>1, <2>3 DEF RoomForUsage, Unbilled, LimitRespected, BilledOnce
<1>5. CASE AppendUsage
  <2> DEFINE new == [report |-> reports, checked |-> checked]
  <2>1. /\ usage' = Append(usage, new) /\ UNCHANGED <<reports, checked>>
        /\ phase = "reported" /\ phase' = "billed"
    BY <1>5 DEF AppendUsage, local
  <2>2. /\ DOMAIN usage' = 1 .. Len(usage) + 1 /\ usage'[Len(usage) + 1] = new
        /\ \A i \in 1 .. Len(usage) : usage'[i] = usage[i]
    <3> HIDE DEF Usage, new
    <3>. QED  BY <1>1, <2>1
  <2>3. Len(usage) < Limit[checked] /\ Limit[checked] \in Nat
    <3>1. checked \in Mandates
      BY <2>1, PassAssumption DEF PassInv, TypeOK, InUse, InPass
    <3>. QED  BY <1>1, <2>1, <3>1, PassAssumption DEF RoomForUsage, Unbilled
  <2>4. \A i \in 1 .. Len(usage) : usage[i].report < reports /\ usage[i].report \in Nat
    BY <1>1, <1>2, <2>1 DEF BilledReports
  <2>5. LimitRespected'
    BY <1>1, <1>2, <2>2, <2>3 DEF LimitRespected
  <2>6. BilledOnce'
    BY <1>1, <1>2, <2>2, <2>4 DEF BilledOnce
  <2>7. BilledReports'
    <3>1. usage'[Len(usage) + 1].report = reports' /\ Len(usage) + 1 \in DOMAIN usage'
      BY <1>2, <2>1, <2>2
    <3>. QED  BY <1>1, <1>2, <2>1, <2>2, <2>4, <3>1 DEF BilledReports
  <2>. QED  BY <2>1, <2>5, <2>6, <2>7 DEF RoomForUsage, Unbilled
<1>6. CASE ~(BeginPass \/ WriteReport \/ AppendUsage)
  <2>1. /\ UNCHANGED <<usage, reports>>
        /\ phase' \in Unbilled => phase \in Unbilled /\ checked' = checked
        /\ phase' = "reported" => phase = "reported"
        /\ phase' \in {"billed", "digested", "archived", "ended"} =>
             phase \in {"billed", "digested", "archived", "ended"}
    BY <1>6
    DEF Next, WorkerStep, StopAtLimit, FailPass, RecordFailure, EndPass, AfterPass, StartWorker, vars,
        PreparePass, RetryLostSession, RunnerAnswers, RunnerFails, Stop, Crash, WriteId, WriteDigest,
        ArchiveFollowUp, WriteLastRun, Retarget, Continue, LoseSession, Unbilled,
        files, local, world, operator
  <2>. QED  BY <1>1, <2>1 DEF RoomForUsage, BilledReports, LimitRespected, BilledOnce
<1>. QED  BY <1>3, <1>4, <1>5, <1>6

\* The last result is on record, and a stale marker means a kill.
LEMMA ResultsKept ==
  ASSUME PassInv, [Next]_vars
  PROVE  CompletedIsRecorded' /\ StaleMarkerMeansKill'
<1> USE DEF files, local, world, operator
<1>1. /\ CompletedIsRecorded /\ StaleMarkerMeansKill /\ BilledReports /\ FollowUpWaits /\ TypeOK
      /\ phase \in InPass \cup {"down", "loop", "failed"}
  BY DEF PassInv, RecordsAgree, TypeOK
<1>2. StaleMarkerMeansKill'
  BY <1>1
  DEF Next, WorkerStep, StopAtLimit, BeginPass, FailPass, RecordFailure, EndPass, AfterPass, StartWorker,
      vars, PreparePass, RetryLostSession, RunnerAnswers, RunnerFails, Stop, Crash, WriteId,
      WriteReport, AppendUsage, WriteDigest, ArchiveFollowUp, WriteLastRun, Retarget, Continue,
      LoseSession, StaleMarkerMeansKill, InPass
<1>3. CASE WriteLastRun
  BY <1>1, <1>2, <1>3 DEF WriteLastRun, CompletedIsRecorded, BilledReports, FollowUpWaits
<1>4. CASE AppendUsage
  <2>1. /\ \A i \in DOMAIN usage : i \in DOMAIN usage' /\ usage'[i] = usage[i]
        /\ lastRun' = lastRun /\ phase' = "billed"
    <3>1. usage \in Seq([report : 1 .. MaxReports, checked : Mandates])
      BY <1>1 DEF TypeOK
    <3>. QED  BY <1>4, <3>1 DEF AppendUsage
  <2>. QED  BY <1>1, <1>2, <2>1 DEF CompletedIsRecorded
<1>5. CASE FailPass \/ Stop \/ StartWorker
  BY <1>1, <1>2, <1>5 DEF FailPass, Stop, StartWorker, RecordFailure, AfterPass, CompletedIsRecorded
<1>6. CASE ~(WriteLastRun \/ AppendUsage \/ FailPass \/ Stop \/ StartWorker)
  <2>1. /\ UNCHANGED <<usage, lastRun>>
        /\ phase' = "ended" => phase = "ended" /\ UNCHANGED <<followup, handled>>
    BY <1>6
    DEF Next, WorkerStep, StopAtLimit, BeginPass, EndPass, AfterPass, vars, PreparePass,
        RetryLostSession, RunnerAnswers, RunnerFails, Crash, WriteId, WriteReport, WriteDigest,
        ArchiveFollowUp, Retarget, Continue, LoseSession
  <2>. QED  BY <1>1, <1>2, <2>1 DEF CompletedIsRecorded, Range
<1>. QED  BY <1>2, <1>3, <1>4, <1>5, <1>6

-----------------------------------------------------------------------------
(* The theorems.                                                           *)

\* The inductive invariant holds at first.
LEMMA PassStarts == Init => PassInv
<1> SUFFICES ASSUME Init PROVE PassInv
  OBVIOUS
<1>1. TypeOK
  <2>1. setting \in Settings /\ mandate \in Mandates
    BY PassAssumption DEF Init
  <2>2. usage \in Seq([report : 1 .. MaxReports, checked : Mandates])
    BY DEF Init
  <2>3. /\ queue \in Seq(FollowUps) /\ handled \in Seq(FollowUps) /\ queued \in Seq(FollowUps)
        /\ reports \in 0 .. MaxReports
    BY PassAssumption DEF Init
  <2>4. /\ heard \in [Conversations -> SUBSET (Mandates \cup FollowUps)]
        /\ ids \in [{"codex", "claude"} -> Conversations \cup {None}]
    BY DEF Init
  <2>. QED  BY <2>1, <2>2, <2>3, <2>4 DEF Init, TypeOK, InPass
<1>2. InUse /\ ConversationsStand /\ PromptFits /\ LossIsAFault /\ DigestStands
  BY DEF Init, InUse, InPass, Prepared, Answered, Undigested, ConversationsStand, Runners,
         PromptFits, LossIsAFault, DigestStands
<1>3. FollowUpWaits /\ FollowUpHeard /\ FollowUpsKept /\ FollowUpsReachTheAgent
  BY DEF Init, Unfiled, Answered, FollowUpWaits, FollowUpHeard, FollowUpsKept,
         FollowUpsReachTheAgent, HandledWasHeard
<1>4. RoomForUsage /\ BilledReports /\ LimitRespected /\ RecordsAgree
  BY DEF Init, Unbilled, RoomForUsage, BilledReports, LimitRespected, RecordsAgree,
         CompletedIsRecorded, BilledOnce, StaleMarkerMeansKill
<1>. QED  BY <1>1, <1>2, <1>3, <1>4 DEF PassInv

\* Every step keeps the inductive invariant.
LEMMA PassSteps == PassInv /\ [Next]_vars => PassInv'
<1> SUFFICES ASSUME PassInv, [Next]_vars PROVE PassInv'
  OBVIOUS
<1>. QED
  BY TypesKept, InUseKept, ConversationsKept, PromptKept, DigestKept, FollowUpsWait, FollowUpsHeard,
     RecordsKept, ResultsKept
  DEF PassInv, RecordsAgree

\* The inductive invariant of an agent's files through every sequence of
\* retargets, follow-ups, passes, stops, kills, failures and lost sessions.
THEOREM PassInvariance == Spec => []PassInv
<1>. QED  BY PassStarts, PassSteps, PTL DEF Spec

\* No follow-up is lost or overtaken.
THEOREM FollowUpsStay == Spec => []FollowUpsKept
<1>1. PassInv => FollowUpsKept
  BY DEF PassInv
<1>. QED  BY <1>1, PassInvariance, PTL

\* A follow-up filed as handled has reached the agent, unless a session of
\* Claude Code can be lost.
THEOREM FollowUpsArrive == Spec => []FollowUpsReachTheAgent
<1>1. PassInv => FollowUpsReachTheAgent
  BY DEF PassInv
<1>. QED  BY <1>1, PassInvariance, PTL

\* No pass is recorded beyond the limit its loop checked.
THEOREM LimitHolds == Spec => []LimitRespected
<1>1. PassInv => LimitRespected
  BY DEF PassInv
<1>. QED  BY <1>1, PassInvariance, PTL

\* Results, reports, usage and marker agree wherever a worker stopped.
THEOREM RecordsStayTrue == Spec => []RecordsAgree
<1>1. PassInv => RecordsAgree
  BY DEF PassInv
<1>. QED  BY <1>1, PassInvariance, PTL

\* A pass that sends no mandate continues a conversation that stands under its
\* own, where passes are not interrupted or a runner has one mandate only.
THEOREM MandatesAreHeard == Spec => []MandateHeard
<1>1. PassInv => MandateHeard
  <2>. SUFFICES ASSUME PassInv,
                       \/ Steady
                       \/ \A m, n \in setting.mandates : Runner(m) = Runner(n) => m = n,
                       phase = "invoking", config \notin prompt
                PROVE  conv # None /\ heard[conv] \cap Mandates = {config}
    BY DEF MandateHeard, StandingMandateHeard, Steady
  <2>1. conv # None /\ digest = config /\ conv = ids[Runner(config)] /\ config \in setting.mandates
    BY DEF PassInv, PromptFits, ConversationsStand, InUse, Prepared
  <2>2. CASE Steady
    <3>1. digest # None
      BY <2>1, PassAssumption DEF PassInv, TypeOK
    <3>. QED  BY <2>1, <2>2, <3>1 DEF PassInv, DigestStands, Undigested
  <2>3. CASE \A m, n \in setting.mandates : Runner(m) = Runner(n) => m = n
    <3>1. StandsFor(conv, Runner(config))
      BY <2>1 DEF PassInv, ConversationsStand, Runner, Runners
    <3>. QED  BY <2>1, <2>3, <3>1 DEF StandsFor
  <2>. QED  BY <2>1, <2>2, <2>3
<1>. QED  BY <1>1, PassInvariance, PTL


-----------------------------------------------------------------------------
(* The roster: its inductive invariant.                                    *)

\* A running command has its arguments, and is where its kind may be.
Arguments ==
  \A c \in Callers : pc[c] # "idle" =>
    /\ name[c] \in Names /\ text[c] \in Prompts
    /\ op[c] \in team.commands
    /\ pc[c] = "locking" => op[c] \in {"new", "retarget", "retire"}
    /\ pc[c] = "stopping" => op[c] \in {"retire", "stop"}
    /\ pc[c] = "retire" => op[c] = "retire"
    /\ pc[c] \in {"retarget", "replace"} => op[c] = "retarget"

\* What changes prompts is done under the state lock.
LockHeld ==
  \A c \in Callers :
    pc[c] \in {"new", "create", "key", "retarget", "replace", "retire"} => stateLock = c

\* A workspace and a role as Exclusive leaves them, whatever parses by now.
Alone(n, p) ==
  \A other \in Configured \ {n} :
    /\ prompts[other].workspace # p.workspace
    /\ p.role = "impact-assessor" => prompts[other].role # "impact-assessor"

\* What was found out under the lock is still so at the write.
Checked ==
  \A c \in Callers :
    /\ pc[c] = "create" => /\ prompts[name[c]] = Nothing
                           /\ Cardinality(Configured) < Cap
                           /\ Alone(name[c], text[c])
    /\ pc[c] = "replace" => /\ prompts[name[c]] # Nothing
                            /\ prompts[name[c]] \in history[name[c]]
                            /\ Alone(name[c], text[c])

Sound == IsFiniteSet(Configured) /\ RosterIsSound

RosterInv == RosterTypeOK /\ Arguments /\ LockHeld /\ Checked /\ Sound /\ PromptsPreserved

-----------------------------------------------------------------------------
(* Configured agents.                                                      *)

\* A prompt that is written adds its agent; one that is taken away removes it.
LEMMA ConfiguredChanges ==
  ASSUME RosterTypeOK, IsFiniteSet(Configured), NEW n \in Names,
         NEW p \in Prompts \cup {Nothing}, prompts' = [prompts EXCEPT ![n] = p]
  PROVE  /\ p # Nothing => Configured' = Configured \cup {n}
         /\ p = Nothing => Configured' = Configured \ {n}
         /\ IsFiniteSet(Configured')
         /\ p = Nothing => Cardinality(Configured') <= Cardinality(Configured)
         /\ p # Nothing /\ prompts[n] # Nothing => Configured' = Configured
         /\ p # Nothing /\ prompts[n] = Nothing => Cardinality(Configured') = Cardinality(Configured) + 1
<1>1. p # Nothing => Configured' = Configured \cup {n}
  BY DEF RosterTypeOK, Configured
<1>2. p = Nothing => Configured' = Configured \ {n}
  BY DEF RosterTypeOK, Configured
<1>3. IsFiniteSet(Configured \cup {n}) /\ IsFiniteSet(Configured \ {n})
  BY FS_AddElement, FS_RemoveElement
<1>4. p = Nothing => Cardinality(Configured') <= Cardinality(Configured)
  BY <1>2, FS_Subset
<1>5. prompts[n] # Nothing => n \in Configured
  BY DEF Configured
<1>6. prompts[n] = Nothing => n \notin Configured
  BY DEF Configured
<1>7. prompts[n] = Nothing => Cardinality(Configured \cup {n}) = Cardinality(Configured) + 1
  BY <1>6, FS_AddElement
<1>. QED  BY <1>1, <1>2, <1>3, <1>4, <1>5, <1>7

\* A prompt that is alone keeps the roster sound.
LEMMA WriteKeepsSound ==
  ASSUME RosterTypeOK, Sound, NEW n \in Names, NEW p \in Prompts, Alone(n, p),
         prompts' = [prompts EXCEPT ![n] = p],
         prompts[n] # Nothing \/ Cardinality(Configured) < Cap
  PROVE  Sound'
<1>0. p # Nothing
  BY RosterAssumption
<1>1. IsFiniteSet(Configured')
  BY ConfiguredChanges DEF Sound
<1>2. Cardinality(Configured') <= Cap
  <2>1. Cardinality(Configured) \in Nat
    BY FS_CardinalityType DEF Sound
  <2>2. CASE prompts[n] # Nothing
    BY <1>0, <2>2, ConfiguredChanges DEF Sound, RosterIsSound
  <2>3. CASE prompts[n] = Nothing
    <3>1. Cardinality(Configured') = Cardinality(Configured) + 1
      BY <1>0, <2>3, ConfiguredChanges DEF Sound
    <3>. QED  BY <2>1, <2>3, <3>1, RosterAssumption
  <2>. QED  BY <2>2, <2>3
<1>3. ASSUME NEW k \in Configured', NEW m \in Configured', k # m
      PROVE  /\ prompts'[k].workspace # prompts'[m].workspace
             /\ {prompts'[k].role, prompts'[m].role} # {"impact-assessor"}
  <2>1. \A o \in Configured' : /\ o = n => prompts'[o] = p
                               /\ o # n => o \in Configured /\ prompts'[o] = prompts[o]
    BY <1>0, ConfiguredChanges DEF Sound, RosterTypeOK, Configured
  <2>2. CASE k = n
    BY <1>3, <2>1, <2>2 DEF Alone
  <2>3. CASE m = n
    BY <1>3, <2>1, <2>3 DEF Alone
  <2>4. CASE k # n /\ m # n
    BY <1>3, <2>1, <2>4 DEF Sound, RosterIsSound
  <2>. QED  BY <2>2, <2>3, <2>4
<1>. QED  BY <1>1, <1>2, <1>3 DEF Sound, RosterIsSound

-----------------------------------------------------------------------------
(* One lemma for every kind of step.                                       *)

\* What a caller does to itself: others stay where they are.
Self(c) ==
  \A d \in Callers \ {c} :
    pc'[d] = pc[d] /\ op'[d] = op[d] /\ name'[d] = name[d] /\ text'[d] = text[d]

LEMMA CommandSteps ==
  ASSUME RosterTypeOK, NEW c \in Callers
  PROVE  /\ \A step : Goto(c, step) =>
              /\ Self(c)
              /\ pc'[c] = step /\ op'[c] = op[c] /\ name'[c] = name[c] /\ text'[c] = text[c]
         /\ Finish(c) => Self(c) /\ pc'[c] = "idle"
BY DEF RosterTypeOK, Goto, Finish, args, Self

\* A step that leaves prompts and archives alone keeps what was found out, when
\* the caller it moves is at no write.
LEMMA QuietStep ==
  ASSUME RosterInv, RosterTypeOK', NEW c \in Callers, Self(c),
         UNCHANGED <<team, prompts, history, disabled, operative>>,
         pc'[c] \notin {"create", "replace"},
         pc'[c] # "idle" =>
           /\ name'[c] \in Names /\ text'[c] \in Prompts
           /\ op'[c] \in team.commands
           /\ pc'[c] = "locking" => op'[c] \in {"new", "retarget", "retire"}
           /\ pc'[c] = "stopping" => op'[c] \in {"retire", "stop"}
           /\ pc'[c] = "retire" => op'[c] = "retire"
           /\ pc'[c] = "retarget" => op'[c] = "retarget",
         pc'[c] \in {"new", "key", "retarget", "retire"} => stateLock' = c,
         \/ stateLock' = stateLock
         \/ stateLock = c
         \/ stateLock = Nothing
  PROVE  RosterInv'
<1>1. Arguments'
  BY DEF RosterInv, Arguments, Self
<1>2. LockHeld'
  BY RosterAssumption DEF RosterInv, LockHeld, Self
<1>3. Checked'
  BY DEF RosterInv, Checked, Self, Alone, Configured
<1>4. Sound' /\ PromptsPreserved'
  BY DEF RosterInv, Sound, RosterIsSound, PromptsPreserved, Configured
<1>. QED  BY <1>1, <1>2, <1>3, <1>4 DEF RosterInv

\* A command begins.
LEMMA BeginKeeps ==
  ASSUME RosterInv, NEW c \in Callers, NEW n \in Names, NEW p \in team.prompts,
         NEW command \in team.commands, Begin(c, command, n, p)
  PROVE  RosterInv'
<1>1. p \in Prompts /\ command \in Commands
  BY RosterAssumption DEF RosterInv, RosterTypeOK
<1>2. command \in {"new", "retarget", "retire", "start", "stop"}
  BY <1>1, RosterAssumption
<1>3. /\ Self(c)
      /\ op'[c] = command /\ name'[c] = n /\ text'[c] = p
      /\ pc'[c] \in {"locking", "spawning", "stopping"}
      /\ pc'[c] = "locking" => command \in {"new", "retarget"}
      /\ pc'[c] = "stopping" => command \in {"retire", "stop"}
  BY <1>2 DEF RosterInv, RosterTypeOK, Begin, Self
<1>4. RosterTypeOK'
  BY <1>1, <1>2 DEF RosterInv, RosterTypeOK, Begin, disk, workers
<1>5. UNCHANGED <<team, prompts, history, disabled, operative, stateLock>>
  BY DEF Begin, disk
<1>. QED  BY <1>1, <1>3, <1>4, <1>5, QuietStep

\* A caller takes the state lock, finds that it may go on, or is refused; none
\* of this touches a prompt.
LEMMA LockStepsKeep ==
  ASSUME RosterInv, NEW c \in Callers,
         TakeStateLock(c) \/ RefuseNew(c) \/ RefuseRetarget(c) \/ RefuseRetire(c)
  PROVE  RosterInv'
<1>0. RosterTypeOK
  BY DEF RosterInv
<1>1. UNCHANGED <<team, prompts, history, disabled, operative>>
  BY DEF TakeStateLock, RefuseNew, RefuseRetarget, RefuseRetire, Refuse, disk
<1>2. CASE TakeStateLock(c)
  <2>1. /\ name[c] \in Names /\ text[c] \in Prompts
        /\ op[c] \in team.commands
        /\ op[c] \in {"new", "retarget", "retire"}
    BY <1>2 DEF TakeStateLock, RosterInv, Arguments
  <2>2. /\ Self(c)
        /\ pc'[c] = op[c] /\ op'[c] = op[c] /\ name'[c] = name[c] /\ text'[c] = text[c]
    BY <1>0, <1>2, CommandSteps DEF TakeStateLock
  <2>3. RosterTypeOK'
    BY <1>0, <1>2, <2>1 DEF TakeStateLock, Goto, RosterTypeOK, disk, workers, args
  <2>4. stateLock = Nothing /\ stateLock' = c
    BY <1>2 DEF TakeStateLock
  <2>. QED  BY <1>1, <2>1, <2>2, <2>3, <2>4, QuietStep
<1>3. CASE RefuseNew(c) \/ RefuseRetarget(c) \/ RefuseRetire(c)
  <2>1. Refuse(c) /\ stateLock = c
    BY <1>3 DEF RefuseNew, RefuseRetarget, RefuseRetire, RosterInv, LockHeld
  <2>2. Self(c) /\ pc'[c] = "idle"
    BY <1>0, <2>1, CommandSteps DEF Refuse
  <2>3. RosterTypeOK'
    BY <1>0, <2>1 DEF Refuse, Finish, RosterTypeOK, disk, workers
  <2>. QED  BY <1>1, <2>1, <2>2, <2>3, QuietStep
<1>. QED  BY <1>2, <1>3

\* Steps beside the prompts: a key, a worker, a death.
LEMMA BesidePromptsKeep ==
  ASSUME RosterInv, NEW c \in Callers,
         GenerateKey(c) \/ Spawn(c) \/ StopWorker(c) \/ CommandDies(c)
  PROVE  RosterInv'
<1>0. RosterTypeOK
  BY DEF RosterInv
<1>1. UNCHANGED <<team, prompts, history, disabled, operative>>
  BY DEF GenerateKey, Spawn, StopWorker, CommandDies, disk
<1>2. /\ pc[c] # "idle"
      /\ name[c] \in Names /\ text[c] \in Prompts
      /\ op[c] \in team.commands
  BY DEF GenerateKey, Spawn, StopWorker, CommandDies, RosterInv, Arguments
<1>3. \/ Finish(c)
      \/ GenerateKey(c) /\ Goto(c, "spawning")
      \/ StopWorker(c) /\ op[c] = "retire" /\ Goto(c, "locking")
  BY DEF GenerateKey, Spawn, StopWorker, CommandDies
<1>4. /\ Self(c)
      /\ \/ pc'[c] = "idle"
         \/ /\ op'[c] = op[c] /\ name'[c] = name[c] /\ text'[c] = text[c]
            /\ \/ pc'[c] = "spawning"
               \/ pc'[c] = "locking" /\ op[c] = "retire"
  BY <1>0, <1>3, CommandSteps
<1>5. RosterTypeOK'
  <2>1. pc' \in [Callers -> {"idle", "locking", "new", "create", "key", "spawning", "retarget",
                              "replace", "stopping", "retire"}]
    BY <1>0, <1>3 DEF RosterTypeOK, Goto, Finish
  <2>2. /\ op' \in [Callers -> Commands \cup {Nothing}]
        /\ name' \in [Callers -> Names \cup {Nothing}] /\ text' \in [Callers -> Prompts \cup {Nothing}]
    BY <1>0, <1>3 DEF RosterTypeOK, Goto, Finish, args
  <2>3. /\ worker' \in [Names -> {"down", "idle", "pass"}]
        /\ workspace' \in [Names -> Workspaces \cup {Nothing}]
        /\ keys' \subseteq Names /\ folders' \subseteq Workspaces
        /\ stateLock' \in Callers \cup {Nothing}
    BY <1>0, <1>2 DEF RosterTypeOK, GenerateKey, Spawn, StopWorker, CommandDies, disk, workers
  <2>. QED  BY <1>0, <1>1, <2>1, <2>2, <2>3 DEF RosterTypeOK
<1>6. stateLock' = stateLock \/ stateLock = c
  BY DEF GenerateKey, Spawn, StopWorker, CommandDies, RosterInv, LockHeld
<1>. QED  BY <1>1, <1>2, <1>4, <1>5, <1>6, QuietStep

\* new and retarget find out under the lock what they write later.
LEMMA ChecksKeep ==
  ASSUME RosterInv, NEW c \in Callers, CheckNew(c) \/ Archive(c)
  PROVE  RosterInv'
<1>0. RosterTypeOK
  BY DEF RosterInv
<1>1. UNCHANGED <<team, prompts, disabled, operative, stateLock, name, text, op>>
  BY DEF CheckNew, Archive, disk, Goto, args
<1>2. /\ name[c] \in Names /\ text[c] \in Prompts
      /\ stateLock = c
  BY DEF CheckNew, Archive, RosterInv, Arguments, LockHeld
<1>3. \A d \in Callers \ {c} : pc'[d] = pc[d]
  BY <1>0, CommandSteps DEF CheckNew, Archive, Self
<1>4. Configured' = Configured
  BY <1>1 DEF Configured
<1>5. /\ \A n \in Names : history[n] \subseteq history'[n]
      /\ RosterTypeOK'
  <2>1. CASE CheckNew(c)
    BY <1>0, <2>1 DEF CheckNew, RosterTypeOK, disk, workers, Goto, args
  <2>2. CASE Archive(c)
    <3>1. prompts[name[c]] \in Prompts
      BY <1>0, <1>2, <2>2 DEF Archive, CanRetarget, RosterTypeOK
    <3>. QED  BY <1>0, <1>2, <2>2, <3>1 DEF Archive, RosterTypeOK, workers, Goto, args
  <2>. QED  BY <2>1, <2>2
<1>6. Arguments' /\ LockHeld'
  <2>1. \/ pc[c] = "new" /\ pc'[c] = "create"
        \/ pc[c] = "retarget" /\ pc'[c] = "replace"
    BY <1>0, CommandSteps DEF CheckNew, Archive
  <2>. QED  BY <1>1, <1>2, <1>3, <2>1 DEF RosterInv, Arguments, LockHeld
<1>7. Checked'
  <2>. SUFFICES ASSUME NEW d \in Callers
                PROVE  /\ pc'[d] = "create" => /\ prompts[name[d]] = Nothing
                                               /\ Cardinality(Configured) < Cap
                                               /\ Alone(name[d], text[d])
                       /\ pc'[d] = "replace" => /\ prompts[name[d]] # Nothing
                                                /\ prompts[name[d]] \in history'[name[d]]
                                                /\ Alone(name[d], text[d])
    BY <1>1, <1>4 DEF Checked, Alone
  <2>1. CASE d # c
    <3>1. pc'[d] \notin {"create", "replace"}
      BY <1>2, <1>3, <2>1 DEF RosterInv, LockHeld
    <3>. QED  BY <3>1
  <2>2. CASE d = c
    <3>1. CASE CheckNew(c)
      <4>1. pc'[c] = "create"
        BY <1>0, <3>1, CommandSteps DEF CheckNew
      <4>. QED  BY <2>2, <3>1, <4>1 DEF CheckNew, CanCreate, Exclusive, Alone
    <3>2. CASE Archive(c)
      <4>1. pc'[c] = "replace"
        BY <1>0, <3>2, CommandSteps DEF Archive
      <4>2. prompts[name[c]] \in history'[name[c]]
        BY <1>0, <1>2, <3>2 DEF Archive, RosterTypeOK
      <4>. QED  BY <2>2, <3>2, <4>1, <4>2 DEF Archive, CanRetarget, Exclusive, Alone
    <3>. QED  BY <3>1, <3>2
  <2>. QED  BY <2>1, <2>2
<1>8. Sound'
  BY <1>1, <1>4 DEF RosterInv, Sound, RosterIsSound
<1>9. PromptsPreserved'
  BY <1>0, <1>1, <1>5 DEF RosterInv, PromptsPreserved
<1>. QED  BY <1>5, <1>6, <1>7, <1>8, <1>9 DEF RosterInv

\* A prompt is written: it is alone, and the text it replaces is archived.
LEMMA WritesKeep ==
  ASSUME RosterInv, NEW c \in Callers, Create(c) \/ Replace(c)
  PROVE  RosterInv'
<1>0. RosterTypeOK
  BY DEF RosterInv
<1>1. /\ name[c] \in Names /\ text[c] \in Prompts
      /\ op[c] \in team.commands
      /\ stateLock = c
      /\ Alone(name[c], text[c])
      /\ prompts[name[c]] # Nothing \/ Cardinality(Configured) < Cap
      /\ prompts[name[c]] \in history[name[c]] \cup {Nothing}
  BY DEF Create, Replace, RosterInv, Arguments, LockHeld, Checked
<1>2. /\ prompts' = [prompts EXCEPT ![name[c]] = text[c]]
      /\ operative' = [operative EXCEPT ![name[c]] = @ \cup {text[c]}]
      /\ UNCHANGED <<team, history, disabled>>
  BY DEF Create, Replace, WritePrompt
<1>3. RosterTypeOK'
  <2>1. CASE Create(c)
    BY <1>0, <1>1, <1>2, <2>1 DEF Create, RosterTypeOK, workers, Goto, args
  <2>2. CASE Replace(c)
    BY <1>0, <1>1, <1>2, <2>2 DEF Replace, RosterTypeOK, workers, Finish
  <2>. QED  BY <2>1, <2>2
<1>4. /\ Self(c)
      /\ \/ pc'[c] = "idle"
         \/ /\ pc'[c] = "key" /\ stateLock' = c
            /\ op'[c] = op[c] /\ name'[c] = name[c] /\ text'[c] = text[c]
  BY <1>0, <1>1, CommandSteps DEF Create, Replace
<1>5. Arguments'
  BY <1>1, <1>2, <1>4 DEF RosterInv, Arguments, Self
<1>6. LockHeld' /\ \A d \in Callers : pc'[d] \notin {"create", "replace"}
  BY <1>1, <1>4 DEF RosterInv, LockHeld, Self
<1>7. Checked'
  BY <1>6 DEF Checked
<1>8. Sound'
  BY <1>0, <1>1, <1>2, WriteKeepsSound DEF RosterInv
<1>9. PromptsPreserved'
  <2>. SUFFICES ASSUME NEW n \in Names
                PROVE  operative'[n] \subseteq history[n] \cup disabled[n] \cup {prompts'[n]}
    BY <1>2 DEF PromptsPreserved
  <2>1. CASE n # name[c]
    BY <1>0, <1>1, <1>2, <2>1 DEF RosterInv, PromptsPreserved, RosterTypeOK
  <2>2. CASE n = name[c]
    <3>1. operative'[n] = operative[n] \cup {text[c]} /\ prompts'[n] = text[c]
      BY <1>0, <1>1, <1>2, <2>2 DEF RosterTypeOK
    <3>2. operative[n] \subseteq history[n] \cup disabled[n]
      BY <1>0, <1>1, <2>2, RosterAssumption DEF RosterInv, PromptsPreserved, RosterTypeOK
    <3>. QED  BY <3>1, <3>2
  <2>. QED  BY <2>1, <2>2
<1>. QED  BY <1>3, <1>5, <1>6, <1>7, <1>8, <1>9 DEF RosterInv

\* A retired agent's prompt is kept among the disabled ones.
LEMMA DisableKeeps ==
  ASSUME RosterInv, NEW c \in Callers, Disable(c)
  PROVE  RosterInv'
<1>0. RosterTypeOK
  BY DEF RosterInv
<1>1. /\ name[c] \in Names
      /\ prompts[name[c]] \in Prompts
      /\ stateLock = c
  BY DEF Disable, RosterInv, RosterTypeOK, Arguments, LockHeld
<1>2. /\ prompts' = [prompts EXCEPT ![name[c]] = Nothing]
      /\ disabled' = [disabled EXCEPT ![name[c]] = @ \cup {prompts[name[c]]}]
      /\ UNCHANGED <<team, history, operative>>
  BY DEF Disable
<1>3. RosterTypeOK'
  BY <1>0, <1>1 DEF Disable, RosterTypeOK, workers, Finish
<1>4. Self(c) /\ pc'[c] = "idle"
  BY <1>0, CommandSteps DEF Disable
<1>5. Arguments'
  BY <1>2, <1>4 DEF RosterInv, Arguments, Self
<1>6. LockHeld' /\ \A d \in Callers : pc'[d] \notin {"create", "replace"}
  BY <1>1, <1>4 DEF RosterInv, LockHeld, Self
<1>7. Checked'
  BY <1>6 DEF Checked
<1>8. Sound'
  <2>1. /\ IsFiniteSet(Configured')
        /\ Cardinality(Configured') <= Cardinality(Configured)
        /\ Configured' = Configured \ {name[c]}
    BY <1>0, <1>1, <1>2, ConfiguredChanges DEF RosterInv, Sound
  <2>2. Cardinality(Configured') <= Cap
    <3>1. Cardinality(Configured) \in Nat /\ Cardinality(Configured') \in Nat
      BY <2>1, FS_CardinalityType DEF RosterInv, Sound
    <3>. QED  BY <2>1, <3>1, RosterAssumption DEF RosterInv, Sound, RosterIsSound
  <2>3. \A n \in Configured' : n \in Configured /\ prompts'[n] = prompts[n]
    BY <1>0, <1>2, <2>1 DEF RosterTypeOK
  <2>. QED  BY <2>1, <2>2, <2>3 DEF RosterInv, Sound, RosterIsSound
<1>9. PromptsPreserved'
  <2>. SUFFICES ASSUME NEW n \in Names
                PROVE  operative[n] \subseteq history[n] \cup disabled'[n] \cup {prompts'[n]}
    BY <1>2 DEF PromptsPreserved
  <2>1. CASE n # name[c]
    BY <1>0, <1>1, <1>2, <2>1 DEF RosterInv, PromptsPreserved, RosterTypeOK
  <2>2. CASE n = name[c]
    <3>1. disabled'[n] = disabled[n] \cup {prompts[n]}
      BY <1>0, <1>1, <1>2, <2>2 DEF RosterTypeOK
    <3>. QED  BY <3>1 DEF RosterInv, PromptsPreserved
  <2>. QED  BY <2>1, <2>2
<1>. QED  BY <1>3, <1>5, <1>6, <1>7, <1>8, <1>9 DEF RosterInv

\* Workers and the host touch nothing of it.
LEMMA OthersKeep ==
  ASSUME RosterInv,
         \/ UNCHANGED rosterVars
         \/ \E n \in Names : StartPass(n) \/ FinishPass(n)
         \/ \E folder \in team.fragile : RemoveFolder(folder)
  PROVE  RosterInv'
<1>0. RosterTypeOK
  BY DEF RosterInv
<1>1. UNCHANGED <<team, prompts, history, disabled, operative, stateLock, pc, op, name, text, keys>>
  BY DEF rosterVars, StartPass, FinishPass, RemoveFolder, disk, args
<1>2. /\ worker' \in [Names -> {"down", "idle", "pass"}]
      /\ workspace' \in [Names -> Workspaces \cup {Nothing}]
      /\ folders' \subseteq Workspaces
  <2>1. CASE UNCHANGED rosterVars
    BY <1>0, <2>1 DEF RosterTypeOK, rosterVars
  <2>2. ASSUME NEW n \in Names, StartPass(n)
        PROVE  /\ worker' \in [Names -> {"down", "idle", "pass"}]
               /\ workspace' \in [Names -> Workspaces \cup {Nothing}]
               /\ folders' = folders
    <3>1. prompts[n] # Nothing => prompts[n].workspace \in Workspaces
      BY <1>0 DEF RosterTypeOK, Workspaces
    <3>. QED  BY <1>0, <2>2, <3>1 DEF RosterTypeOK, StartPass, disk
  <2>3. ASSUME NEW n \in Names, FinishPass(n)
        PROVE  /\ worker' \in [Names -> {"down", "idle", "pass"}]
               /\ workspace' \in [Names -> Workspaces \cup {Nothing}]
               /\ folders' = folders
    BY <1>0, <2>3 DEF RosterTypeOK, FinishPass, disk
  <2>4. ASSUME NEW folder \in team.fragile, RemoveFolder(folder)
        PROVE  UNCHANGED workers /\ folders' \subseteq folders
    BY <2>4 DEF RemoveFolder
  <2>. QED  BY <1>0, <2>1, <2>2, <2>3, <2>4 DEF RosterTypeOK, workers
<1>3. RosterTypeOK'
  BY <1>0, <1>1, <1>2 DEF RosterTypeOK
<1>4. Configured' = Configured
  BY <1>1 DEF Configured
<1>5. Arguments' /\ LockHeld' /\ Checked'
  BY <1>1, <1>4 DEF RosterInv, Arguments, LockHeld, Checked, Alone
<1>6. Sound' /\ PromptsPreserved'
  BY <1>1, <1>4 DEF RosterInv, Sound, RosterIsSound, PromptsPreserved
<1>. QED  BY <1>3, <1>5, <1>6 DEF RosterInv

-----------------------------------------------------------------------------
(* Theorems.                                                               *)

\* A team without agents satisfies the invariant.
LEMMA RosterStarts == RosterInit => RosterInv
<1> SUFFICES ASSUME RosterInit PROVE RosterInv
  OBVIOUS
<1>1. RosterTypeOK /\ Arguments /\ LockHeld /\ Checked
  BY DEF RosterInit, RosterTypeOK, Arguments, LockHeld, Checked
<1>2. Configured = {}
  BY DEF RosterInit, Configured
<1>3. Sound
  BY <1>2, FS_EmptySet, RosterAssumption DEF Sound, RosterIsSound
<1>4. PromptsPreserved
  BY DEF RosterInit, PromptsPreserved
<1>. QED  BY <1>1, <1>3, <1>4 DEF RosterInv

\* Every step keeps the invariant.
LEMMA RosterSteps == RosterInv /\ [RosterNext]_rosterVars => RosterInv'
<1> SUFFICES ASSUME RosterInv, [RosterNext]_rosterVars PROVE RosterInv'
  OBVIOUS
<1>1. ASSUME NEW c \in Callers, NEW n \in Names, NEW p \in team.prompts,
             NEW command \in team.commands, Begin(c, command, n, p)
      PROVE  RosterInv'
  BY <1>1, BeginKeeps
<1>2. ASSUME NEW c \in Callers,
             \/ TakeStateLock(c) \/ RefuseNew(c) \/ RefuseRetarget(c) \/ RefuseRetire(c)
             \/ GenerateKey(c) \/ Spawn(c) \/ StopWorker(c) \/ CommandDies(c)
      PROVE  RosterInv'
  BY <1>2, LockStepsKeep, BesidePromptsKeep
<1>3. ASSUME NEW c \in Callers,
             CheckNew(c) \/ Archive(c) \/ Create(c) \/ Replace(c) \/ Disable(c)
      PROVE  RosterInv'
  BY <1>3, ChecksKeep, WritesKeep, DisableKeeps
<1>4. CASE \/ UNCHANGED rosterVars
           \/ \E n \in Names : StartPass(n) \/ FinishPass(n)
           \/ \E folder \in team.fragile : RemoveFolder(folder)
  BY <1>4, OthersKeep
<1>. QED  BY <1>1, <1>2, <1>3, <1>4 DEF RosterNext

\* The inductive invariant holds however commands race and die
\* (controller.py: new_agent, retarget_agent, retire_agent).
THEOREM RosterInvariance == RosterSpec => []RosterInv
<1>. QED  BY RosterStarts, RosterSteps, PTL DEF RosterSpec

\* However commands race and die, workspaces are distinct, one impact assessor is
\* configured at most and the cap holds (new_agent, ensure_workspace_is_exclusive).
THEOREM RosterStaysSound == RosterSpec => []RosterIsSound
<1>1. RosterInv => RosterIsSound
  BY DEF RosterInv, Sound
<1>. QED  BY <1>1, RosterInvariance, PTL

\* No operative text is ever lost, also when a command dies between archiving and
\* replacing (retarget_agent, retire_agent).
THEOREM PromptsAreKept == RosterSpec => []PromptsPreserved
<1>1. RosterInv => PromptsPreserved
  BY DEF RosterInv
<1>. QED  BY <1>1, RosterInvariance, PTL

-----------------------------------------------------------------------------
(* Workspaces, with one command at a time.                                 *)

\* One command runs at most.
OneCommand == \A c, d \in Callers : pc[c] # "idle" /\ pc[d] # "idle" => c = d

\* From the stop to the end of a retire the agent has no worker.
Stopped ==
  \A c \in Callers :
    pc[c] \in {"locking", "retire"} /\ op[c] = "retire" => worker[name[c]] = "down"

\* A pass runs where its agent is configured.
InPlace ==
  \A n \in Names :
    worker[n] = "pass" => prompts[n] # Nothing /\ workspace[n] = prompts[n].workspace

Supervised ==
  team.callers = 1 =>
    /\ OneCommand /\ Stopped
    /\ \A n \in Names : prompts[n] = Nothing => worker[n] = "down"
    /\ "retarget" \notin team.commands => InPlace

\* A command that begins is the only one.
LEMMA BeginSupervised ==
  ASSUME RosterInv, Supervised, NEW c \in Callers, NEW n \in Names, NEW p \in team.prompts,
         NEW command \in team.commands, Begin(c, command, n, p)
  PROVE  Supervised'
<1>0. UNCHANGED <<team, prompts, worker, workspace>>
  BY DEF Begin, disk, workers
<1>. SUFFICES ASSUME team.callers = 1 PROVE Supervised'
  BY <1>0 DEF Supervised
<1>1. \A d \in Callers : pc[d] = "idle"
  <2> DEFINE busy == {d \in Callers : pc[d] # "idle"}
  <2>1. IsFiniteSet(busy)
    BY FS_Subset, RosterAssumption
  <2>2. Cardinality(busy) < 1
    BY DEF Begin, Room
  <2>3. Cardinality(busy) = 0
    BY <2>1, <2>2, FS_CardinalityType
  <2>4. busy = {}
    BY <2>1, <2>3, FS_EmptySet
  <2>. QED  BY <2>4
<1>2. /\ Self(c)
      /\ op'[c] = command
      /\ pc'[c] = "locking" => command \in {"new", "retarget"}
      /\ pc'[c] # "retire"
  BY DEF RosterInv, RosterTypeOK, Begin, Self
<1>. QED  BY <1>0, <1>1, <1>2 DEF Supervised, OneCommand, Stopped, InPlace, Self

\* Steps that leave prompts and workers alone do not make a retire of anything else.
LEMMA CommandSupervised ==
  ASSUME RosterInv, Supervised, NEW c \in Callers,
         \/ TakeStateLock(c) \/ CheckNew(c) \/ RefuseNew(c) \/ GenerateKey(c)
         \/ Archive(c) \/ RefuseRetarget(c) \/ RefuseRetire(c) \/ CommandDies(c)
  PROVE  Supervised'
<1>0. UNCHANGED <<team, prompts, worker, workspace>> /\ pc[c] # "idle"
  BY DEF TakeStateLock, CheckNew, RefuseNew, GenerateKey, Archive, RefuseRetarget,
         RefuseRetire, CommandDies, Refuse, disk, workers
<1>1. \/ Finish(c)
      \/ TakeStateLock(c) /\ Goto(c, op[c])
      \/ \E step \in {"create", "spawning", "replace"} : Goto(c, step)
  BY DEF TakeStateLock, CheckNew, RefuseNew, GenerateKey, Archive, RefuseRetarget,
         RefuseRetire, CommandDies, Refuse
<1>2. /\ Self(c)
      /\ pc'[c] \in {"locking", "retire"} =>
           op'[c] = op[c] /\ name'[c] = name[c] /\ pc[c] = "locking"
  BY <1>1, CommandSteps DEF RosterInv, TakeStateLock
<1>. QED  BY <1>0, <1>2 DEF Supervised, OneCommand, Stopped, InPlace, Self

\* A worker is spawned for a configured agent, and stopped for a retire.
LEMMA WorkerSupervised ==
  ASSUME RosterInv, Supervised, NEW c \in Callers, Spawn(c) \/ StopWorker(c)
  PROVE  Supervised'
<1>0. /\ UNCHANGED <<team, prompts>>
      /\ pc[c] # "idle"
      /\ name[c] \in Names
  BY DEF Spawn, StopWorker, disk, RosterInv, Arguments
<1>. SUFFICES ASSUME team.callers = 1 PROVE Supervised'
  BY <1>0 DEF Supervised
<1>t. RosterTypeOK
  BY DEF RosterInv
<1>1. CASE Spawn(c)
  <2>1. Self(c) /\ pc'[c] = "idle"
    BY <1>t, <1>1, CommandSteps DEF Spawn
  <2>2. \A n \in Names : \/ worker'[n] = worker[n]
                         \/ worker'[n] = "idle" /\ prompts[n] # Nothing
    BY <1>t, <1>0, <1>1 DEF Spawn, RosterTypeOK
  <2>3. workspace' = workspace
    BY <1>1 DEF Spawn
  <2>. QED  BY <1>0, <2>1, <2>2, <2>3 DEF Supervised, OneCommand, Stopped, InPlace, Self
<1>2. CASE StopWorker(c)
  <2>1. /\ Self(c)
        /\ \/ pc'[c] = "idle"
           \/ name'[c] = name[c]
    BY <1>t, <1>2, CommandSteps DEF StopWorker
  <2>2. /\ worker'[name[c]] = "down"
        /\ \A n \in Names \ {name[c]} : worker'[n] = worker[n] /\ workspace'[n] = workspace[n]
    BY <1>t, <1>0, <1>2 DEF StopWorker, RosterTypeOK
  <2>. QED  BY <1>0, <2>1, <2>2 DEF Supervised, OneCommand, Stopped, InPlace, Self
<1>. QED  BY <1>1, <1>2

\* A prompt is made for an agent without a worker, replaced by retarget alone and
\* taken from an agent whose worker was stopped.
LEMMA PromptSupervised ==
  ASSUME RosterInv, Supervised, NEW c \in Callers, Create(c) \/ Replace(c) \/ Disable(c)
  PROVE  Supervised'
<1>0. /\ UNCHANGED <<team, worker, workspace>>
      /\ pc[c] # "idle"
      /\ name[c] \in Names /\ text[c] \in Prompts
  BY DEF Create, Replace, Disable, workers, RosterInv, Arguments
<1>. SUFFICES ASSUME team.callers = 1 PROVE Supervised'
  BY <1>0 DEF Supervised
<1>t. RosterTypeOK /\ Nothing \notin Prompts
  BY RosterAssumption DEF RosterInv
<1>1. Self(c) /\ pc'[c] \notin {"locking", "retire"}
  BY <1>t, CommandSteps DEF Create, Replace, Disable
<1>2. OneCommand' /\ Stopped'
  BY <1>0, <1>1 DEF Supervised, OneCommand, Stopped, Self
<1>3. \A n \in Names \ {name[c]} : prompts'[n] = prompts[n]
  BY <1>t DEF Create, Replace, Disable, WritePrompt, RosterTypeOK
<1>4. \/ worker[name[c]] = "down"
      \/ Replace(c) /\ "retarget" \in team.commands /\ prompts'[name[c]] # Nothing
  <2>1. CASE Create(c)
    BY <1>0, <2>1 DEF Create, RosterInv, Checked, Supervised
  <2>2. CASE Replace(c)
    BY <1>0, <1>t, <2>2 DEF Replace, WritePrompt, RosterInv, Arguments, RosterTypeOK
  <2>3. CASE Disable(c)
    BY <1>0, <2>3 DEF Disable, RosterInv, Arguments, Supervised, Stopped
  <2>. QED  BY <2>1, <2>2, <2>3
<1>. QED  BY <1>0, <1>2, <1>3, <1>4 DEF Supervised, InPlace

\* A pass starts where its agent is configured.
LEMMA OthersSupervised ==
  ASSUME RosterInv, Supervised,
         \/ UNCHANGED rosterVars
         \/ \E n \in Names : StartPass(n) \/ FinishPass(n)
         \/ \E folder \in team.fragile : RemoveFolder(folder)
  PROVE  Supervised'
<1>0. UNCHANGED <<team, prompts, pc, op, name>>
  BY DEF rosterVars, StartPass, FinishPass, RemoveFolder, disk, args
<1>. SUFFICES ASSUME team.callers = 1 PROVE Supervised'
  BY <1>0 DEF Supervised
<1>1. \A n \in Names :
        \/ worker'[n] = worker[n] /\ workspace'[n] = workspace[n]
        \/ /\ worker[n] # "down"
           /\ worker'[n] = "pass" => prompts[n] # Nothing /\ workspace'[n] = prompts[n].workspace
  <2>1. CASE UNCHANGED workers
    BY <2>1 DEF workers
  <2>2. ASSUME NEW n \in Names, StartPass(n) \/ FinishPass(n)
        PROVE  /\ \A m \in Names \ {n} : worker'[m] = worker[m] /\ workspace'[m] = workspace[m]
               /\ worker[n] # "down"
               /\ worker'[n] = "pass" => prompts[n] # Nothing /\ workspace'[n] = prompts[n].workspace
    BY <2>2 DEF RosterInv, RosterTypeOK, StartPass, FinishPass
  <2>. QED  BY <2>1, <2>2 DEF rosterVars, workers, RemoveFolder
<1>2. OneCommand'
  BY <1>0 DEF Supervised, OneCommand
<1>3. Stopped'
  BY <1>0, <1>1 DEF Supervised, Stopped, RosterInv, Arguments
<1>4. \A n \in Names : prompts'[n] = Nothing => worker'[n] = "down"
  BY <1>0, <1>1 DEF Supervised
<1>5. "retarget" \notin team.commands => InPlace'
  BY <1>0, <1>1 DEF Supervised, InPlace
<1>. QED  BY <1>0, <1>2, <1>3, <1>4, <1>5 DEF Supervised

\* With one command at a time a workspace given to an agent is its own: a retired
\* agent has no worker, and without retarget no two passes share a workspace
\* (stop_worker before the prompt is disabled in retire_agent, _worker_loop's
\* parse_prompt before every pass).
THEOREM WorkspacesStayFree == RosterSpec => []WorkspacesAreFree
<1>1. RosterInit => Supervised
  BY DEF RosterInit, Supervised, OneCommand, Stopped, InPlace
<1>2. RosterInv /\ Supervised /\ [RosterNext]_rosterVars => Supervised'
  <2> SUFFICES ASSUME RosterInv, Supervised, [RosterNext]_rosterVars PROVE Supervised'
    OBVIOUS
  <2>1. ASSUME NEW c \in Callers, NEW n \in Names, NEW p \in team.prompts,
               NEW command \in team.commands, Begin(c, command, n, p)
        PROVE  Supervised'
    BY <2>1, BeginSupervised
  <2>2. ASSUME NEW c \in Callers,
               \/ TakeStateLock(c) \/ CheckNew(c) \/ RefuseNew(c) \/ GenerateKey(c)
               \/ Archive(c) \/ RefuseRetarget(c) \/ RefuseRetire(c) \/ CommandDies(c)
        PROVE  Supervised'
    BY <2>2, CommandSupervised
  <2>3. ASSUME NEW c \in Callers,
               Spawn(c) \/ StopWorker(c) \/ Create(c) \/ Replace(c) \/ Disable(c)
        PROVE  Supervised'
    BY <2>3, WorkerSupervised, PromptSupervised
  <2>4. CASE \/ UNCHANGED rosterVars
             \/ \E n \in Names : StartPass(n) \/ FinishPass(n)
             \/ \E folder \in team.fragile : RemoveFolder(folder)
    BY <2>4, OthersSupervised
  <2>. QED  BY <2>1, <2>2, <2>3, <2>4 DEF RosterNext
<1>3. RosterInv /\ Supervised => WorkspacesAreFree
  <2> SUFFICES ASSUME RosterInv, Supervised PROVE WorkspacesAreFree
    OBVIOUS
  <2>1. RetiredIsStopped
    BY DEF Supervised, RetiredIsStopped
  <2>2. ExclusiveUnlessMoved
    <3>. SUFFICES ASSUME team.callers = 1, "retarget" \notin team.commands,
                         NEW m \in Names, NEW n \in Names,
                         worker[m] = "pass", worker[n] = "pass", workspace[m] = workspace[n]
                  PROVE  m = n
      BY DEF ExclusiveUnlessMoved, PassesExclusive
    <3>1. /\ m \in Configured /\ n \in Configured
          /\ prompts[m].workspace = prompts[n].workspace
      BY DEF Supervised, InPlace, Configured
    <3>. QED  BY <3>1 DEF RosterInv, Sound, RosterIsSound
  <2>. QED  BY <2>1, <2>2 DEF WorkspacesAreFree
<1>. QED  BY <1>1, <1>2, <1>3, RosterInvariance, PTL DEF RosterSpec
=============================================================================
