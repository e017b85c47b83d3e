----------------------------- MODULE AgentPass -----------------------------
(***************************************************************************)
(* The pass loop of one agent's worker, file write by file write:          *)
(* _worker_loop and run_one_pass of research_team/controller.py with the   *)
(* runners they call (run_codex_pass, and claude_code.run_pass with its    *)
(* recovery of a lost session).  The operator retargets the agent and      *)
(* queues follow-ups at any time; the worker may be stopped or killed      *)
(* between any two writes and started again.                               *)
(***************************************************************************)
EXTENDS Naturals, SequencesExt

CONSTANTS
  Mandates,          \* prompt texts, metadata included
  Claude,            \* the mandates with runner: claude-code, the others use codex
  OneShot,           \* the mandates with mode: oneshot
  Limit,             \* max-passes of each mandate
  FollowUps,         \* notes the operator queues, each at most once
  Settings,          \* what the operator has and what goes wrong, one per behaviour
  MaxConversations,  \* bound on the conversations the runners open
  MaxReports,        \* bound on the report files written
  None

ASSUME PassAssumption ==
  /\ Claude \subseteq Mandates /\ OneShot \subseteq Mandates
  /\ Limit \in [Mandates -> Nat \ {0}]
  /\ MaxConversations \in Nat /\ MaxReports \in Nat
  /\ None \notin Mandates \cup FollowUps \cup Nat
  /\ Mandates \cap FollowUps = {}
  /\ \A s \in Settings : s.mandates \subseteq Mandates /\ s.notes \subseteq FollowUps

VARIABLES
  setting,   \* the mandates and notes the operator uses, and which of "stop",
             \* "crash", "lost_session" and "pass_fails" occur
  mandate,   \* prompts/NAME.md
  digest,    \* prompt.sha256: the mandate of the last completed pass
  ids,       \* thread-id (codex) and session-id (claude-code)
  queue,     \* followups/NAME, in the order queued
  handled,   \* the follow-ups moved to reports
  usage,     \* usage.jsonl: per record the report and the mandate of the limit check
  reports,   \* number of report files
  lastRun,   \* last-run.json
  marker,    \* current-pass.json exists
  phase,     \* where the worker is
  checked,   \* the configuration _worker_loop read
  config,    \* the configuration run_one_pass read
  conv,      \* the conversation of the pass, None before it has one
  prompt,    \* what of the mandates and follow-ups the prompt holds
  followup,  \* the follow-up pass_input found
  heard,     \* what each conversation of the runners holds: the follow-ups it
             \* received and the mandate it received last
  gone,      \* conversations the runner can no longer resume
  queued,    \* every follow-up queued so far, in order
  killed     \* the last worker died without its handlers

files == <<digest, ids, queue, handled, usage, reports, lastRun, marker>>
local == <<checked, config, conv, prompt, followup>>
world == <<heard, gone>>
operator == <<setting, mandate, queued>>
vars == <<setting, mandate, digest, ids, queue, handled, usage, reports, lastRun, marker, phase, checked,
          config, conv, prompt, followup, heard, gone, queued, killed>>

Runner(m) == IF m \in Claude THEN "claude" ELSE "codex"
Conversations == 1 .. MaxConversations
Opened == {c \in Conversations : heard[c] # {}}
Fresh == CHOOSE c \in Conversations \ Opened : TRUE
InPass == {"marked", "invoking", "retrying", "returned", "identified", "reported", "billed",
           "digested", "archived", "ended"}

Init ==
  /\ setting \in Settings
  /\ mandate \in setting.mandates
  /\ digest = None /\ ids = [r \in {"codex", "claude"} |-> None]
  /\ queue = <<>> /\ handled = <<>> /\ queued = <<>>
  /\ usage = <<>> /\ reports = 0
  /\ lastRun = None /\ marker = FALSE
  /\ phase = "down" /\ killed = FALSE
  /\ checked = None /\ config = None /\ conv = None /\ prompt = {} /\ followup = None
  /\ heard = [c \in Conversations |-> {}] /\ gone = {}

---------------------------------------------------------------------------
(* The operator and the runners' storage.                                  *)

Retarget(m) ==
  /\ m # mandate
  /\ mandate' = m
  /\ UNCHANGED <<setting, files, local, world, phase, queued, killed>>

Continue(f) ==
  /\ ~Contains(queued, f)
  /\ queue' = Append(queue, f)
  /\ queued' = Append(queued, f)
  /\ UNCHANGED <<digest, ids, handled, usage, reports, lastRun, marker, local, world, phase,
                 setting, mandate, killed>>

\* spawn_worker removes what the last worker left of its run.
StartWorker ==
  /\ phase = "down"
  /\ lastRun' = None /\ marker' = FALSE
  /\ phase' = "loop" /\ killed' = FALSE
  /\ UNCHANGED <<digest, ids, queue, handled, usage, reports, local, world, operator>>

LoseSession(c) ==
  /\ "lost_session" \in setting.faults
  /\ c \in Opened \ gone
  /\ gone' = gone \cup {c}
  /\ UNCHANGED <<files, local, heard, phase, operator, killed>>

---------------------------------------------------------------------------
(* _worker_loop.                                                           *)

\* One pass too many.
LimitExceeded(m) == Len(usage) > Limit[m]

\* limit_reason counts the records of usage.jsonl.
LimitReached(m) == Len(usage) >= Limit[m]

StopAtLimit ==
  /\ phase = "loop" /\ LimitReached(mandate)
  /\ phase' = "down"
  /\ UNCHANGED <<files, local, world, operator, killed>>

BeginPass ==
  /\ phase = "loop" /\ ~LimitReached(mandate)
  /\ checked' = mandate
  /\ marker' = TRUE
  /\ phase' = "marked"
  /\ UNCHANGED <<digest, ids, queue, handled, usage, reports, lastRun, config, conv, prompt,
                 followup, world, operator, killed>>

\* One-shot workers return, the others check the limit and sleep.
AfterPass(m) == phase' = IF m \in OneShot \/ LimitReached(m) THEN "down" ELSE "loop"

EndPass ==
  /\ phase = "ended"
  /\ marker' = FALSE
  /\ AfterPass(config)
  /\ UNCHANGED <<digest, ids, queue, handled, usage, reports, lastRun, local, world, operator,
                 killed>>

\* The except clause: failures.jsonl, last-run.json, then the marker.
RecordFailure ==
  /\ lastRun' = [status |-> "failed", report |-> None]
  /\ marker' = FALSE
  /\ UNCHANGED <<digest, ids, queue, handled, usage, reports>>

FailPass ==
  /\ phase = "failed"
  /\ RecordFailure
  /\ AfterPass(checked)
  /\ UNCHANGED <<local, world, operator, killed>>

\* A conversation takes what it is sent; a new mandate replaces the last.
Heard(c) ==
  [heard EXCEPT ![c] = prompt \cup (IF prompt \cap Mandates = {} THEN @ ELSE @ \ Mandates)]

\* A turn that comes to nothing leaves its prompt in the conversation, or not.
TurnIsLost ==
  \/ UNCHANGED heard
  \/ phase = "invoking" /\ conv \notin gone \cup {None} /\ heard' = Heard(conv)

\* SIGTERM: the CLI is ended, the interruption recorded and the worker exits;
\* between passes it only exits.
Stop ==
  /\ "stop" \in setting.faults
  /\ \/ phase \in InPass \cup {"failed"} /\ RecordFailure
     \/ phase = "loop" /\ UNCHANGED files
  /\ TurnIsLost
  /\ phase' = "down"
  /\ UNCHANGED <<local, gone, operator, killed>>

Crash ==
  /\ "crash" \in setting.faults /\ phase # "down"
  /\ TurnIsLost
  /\ phase' = "down" /\ killed' = TRUE
  /\ UNCHANGED <<files, local, gone, operator>>

---------------------------------------------------------------------------
(* run_one_pass.                                                           *)

\* pass_input: the whole mandate, or the short continuation when the stored
\* conversation and the stored digest both fit; the oldest follow-up.
PreparePass ==
  /\ phase = "marked"
  /\ config' = mandate
  /\ conv' = ids[Runner(mandate)]
  /\ followup' = IF queue = <<>> THEN None ELSE Head(queue)
  /\ prompt' = (IF conv' = None \/ digest # mandate THEN {mandate} ELSE {})
               \cup ({followup'} \ {None})
  /\ phase' = "invoking"
  /\ UNCHANGED <<files, checked, world, operator, killed>>

\* The runner takes the prompt: in the stored conversation if there is one
\* that can be resumed, or in a new one.
Hear(c) == heard' = Heard(c) /\ conv' = c

RunnerAnswers ==
  /\ phase \in {"invoking", "retrying"}
  /\ \/ phase = "invoking" /\ conv \notin gone \cup {None} /\ Hear(conv)
     \/ (phase = "retrying" \/ conv = None) /\ Opened # Conversations /\ Hear(Fresh)
  /\ phase' = "returned"
  /\ UNCHANGED <<files, checked, config, prompt, followup, gone, operator, killed>>

\* A session that is gone is a failure like any other.
FailLostSession ==
  /\ phase = "invoking" /\ config \in Claude /\ conv \in gone
  /\ phase' = "failed"
  /\ UNCHANGED <<files, local, world, operator, killed>>

\* claude_code.run_pass: a session that is gone is replaced by a new one,
\* which gets fresh_prompt, the mandate's text alone.
RetryLostSession ==
  /\ phase = "invoking" /\ config \in Claude /\ conv \in gone
  /\ prompt' = {config}
  /\ phase' = "retrying"
  /\ UNCHANGED <<files, checked, config, conv, followup, world, operator, killed>>

\* Any other failure: a codex thread that is gone, an error exit, an error
\* result.
RunnerFails ==
  /\ \/ phase = "invoking" /\ conv \in gone /\ config \notin Claude /\ UNCHANGED heard
     \/ "pass_fails" \in setting.faults /\ phase \in {"invoking", "retrying"} /\ TurnIsLost
  /\ phase' = "failed"
  /\ UNCHANGED <<files, local, gone, operator, killed>>

WriteId ==
  /\ phase = "returned"
  /\ ids' = [ids EXCEPT ![Runner(config)] = conv]
  /\ phase' = "identified"
  /\ UNCHANGED <<digest, queue, handled, usage, reports, lastRun, marker, local, world, operator,
                 killed>>

\* Reports overwrite one file.
WriteSameReport ==
  /\ phase = "identified"
  /\ reports' = 1
  /\ phase' = "reported"
  /\ UNCHANGED <<digest, ids, queue, handled, usage, lastRun, marker, local, world, operator,
                 killed>>

WriteReport ==
  /\ phase = "identified" /\ reports < MaxReports
  /\ reports' = reports + 1
  /\ phase' = "reported"
  /\ UNCHANGED <<digest, ids, queue, handled, usage, lastRun, marker, local, world, operator,
                 killed>>

AppendUsage ==
  /\ phase = "reported"
  /\ usage' = Append(usage, [report |-> reports, checked |-> checked])
  /\ phase' = "billed"
  /\ UNCHANGED <<digest, ids, queue, handled, reports, lastRun, marker, local, world, operator,
                 killed>>

\* The digest is that of the prompt file when the pass has ended.
WriteDigestOfFile ==
  /\ phase = "billed"
  /\ digest' = mandate
  /\ phase' = "digested"
  /\ UNCHANGED <<ids, queue, handled, usage, reports, lastRun, marker, local, world, operator,
                 killed>>

WriteDigest ==
  /\ phase = "billed"
  /\ digest' = config
  /\ phase' = "digested"
  /\ UNCHANGED <<ids, queue, handled, usage, reports, lastRun, marker, local, world, operator,
                 killed>>

\* The whole queue is filed, though one follow-up was sent.
ArchiveAll ==
  /\ phase = "digested"
  /\ queue' = <<>>
  /\ handled' = IF followup = None THEN handled ELSE Append(handled, followup)
  /\ phase' = "archived"
  /\ UNCHANGED <<digest, ids, usage, reports, lastRun, marker, local, world, operator, killed>>

\* The follow-up filed is the one found when the pass has ended.
ArchiveOldest ==
  /\ phase = "digested"
  /\ IF queue = <<>> THEN UNCHANGED <<queue, handled>>
     ELSE /\ queue' = Tail(queue)
          /\ handled' = Append(handled, Head(queue))
  /\ phase' = "archived"
  /\ UNCHANGED <<digest, ids, usage, reports, lastRun, marker, local, world, operator, killed>>

ArchiveFollowUp ==
  /\ phase = "digested"
  /\ IF followup = None THEN UNCHANGED <<queue, handled>>
     ELSE /\ queue' = Tail(queue)
          /\ handled' = Append(handled, followup)
  /\ phase' = "archived"
  /\ UNCHANGED <<digest, ids, usage, reports, lastRun, marker, local, world, operator, killed>>

WriteLastRun ==
  /\ phase = "archived"
  /\ lastRun' = [status |-> "completed", report |-> reports]
  /\ phase' = "ended"
  /\ UNCHANGED <<digest, ids, queue, handled, usage, reports, marker, local, world, operator,
                 killed>>

WorkerStep ==
  \/ StopAtLimit \/ BeginPass \/ PreparePass \/ RetryLostSession \/ WriteId \/ WriteReport
  \/ AppendUsage \/ WriteDigest \/ ArchiveFollowUp \/ WriteLastRun \/ EndPass \/ FailPass

Next ==
  \/ WorkerStep \/ RunnerAnswers \/ RunnerFails
  \/ \E m \in setting.mandates : Retarget(m)
  \/ \E f \in setting.notes : Continue(f)
  \/ StartWorker \/ Stop \/ Crash
  \/ \E c \in Conversations : LoseSession(c)

Spec == Init /\ [][Next]_vars

(* The worker runs, an operator restarts it, and a runner that can answer  *)
(* does so sooner or later, though passes may fail before.                 *)
FairSpec ==
  /\ Spec
  /\ WF_vars(WorkerStep) /\ WF_vars(StartWorker)
  /\ WF_vars(RunnerFails) /\ SF_vars(RunnerAnswers) /\ SF_vars(RetryLostSession)

---------------------------------------------------------------------------
(* Properties.                                                             *)

TypeOK ==
  /\ setting \in Settings
  /\ mandate \in Mandates /\ digest \in Mandates \cup {None}
  /\ ids \in [{"codex", "claude"} -> Conversations \cup {None}]
  /\ queue \in Seq(FollowUps) /\ handled \in Seq(FollowUps) /\ queued \in Seq(FollowUps)
  /\ usage \in Seq([report : 1 .. MaxReports, checked : Mandates])
  /\ reports \in 0 .. MaxReports
  /\ lastRun \in [status : {"completed", "failed"}, report : 1 .. MaxReports \cup {None}] \cup {None}
  /\ marker \in BOOLEAN /\ killed \in BOOLEAN
  /\ phase \in InPass \cup {"down", "loop", "failed"}
  /\ checked \in Mandates \cup {None} /\ config \in Mandates \cup {None}
  /\ conv \in Conversations \cup {None}
  /\ prompt \subseteq Mandates \cup FollowUps
  /\ followup \in FollowUps \cup {None}
  /\ heard \in [Conversations -> SUBSET (Mandates \cup FollowUps)]
  /\ gone \subseteq Conversations

\* A pass that sends no mandate continues a conversation whose standing mandate
\* is the very one it runs under ("It sends the complete standing mandate only
\* on the first pass and whenever that mandate changes").
StandingMandateHeard ==
  phase = "invoking" /\ config \notin prompt =>
    conv # None /\ heard[conv] \cap Mandates = {config}

\* So it is as long as every pass that was begun also ends, and through stops,
\* kills and failures as long as each runner has one mandate to be sent.
MandateHeard ==
  \/ setting.faults \subseteq {"lost_session"}
  \/ \A m, n \in setting.mandates : Runner(m) = Runner(n) => m = n
  => StandingMandateHeard

\* No follow-up is lost or overtaken: those archived and those waiting are
\* all that were queued, in order.
FollowUpsKept == handled \o queue = queued

\* A follow-up filed as handled has reached the agent ("continue: append a
\* one-pass follow-up on the next pass").
HandledWasHeard == \A i \in DOMAIN handled : \E c \in Conversations : handled[i] \in heard[c]

\* So it is unless a session of Claude Code can be lost, and only the follow-up
\* that was sent is filed, whatever is queued, stopped or killed meanwhile.
FollowUpsReachTheAgent ==
  \/ "lost_session" \notin setting.faults
  \/ setting.mandates \cap Claude = {}
  => HandledWasHeard

\* No pass is recorded beyond the limit of the mandate its loop checked,
\* across stops, crashes and restarts.
LimitRespected == \A i \in DOMAIN usage : i <= Limit[usage[i].checked]

\* "completed" in last-run.json, which wait trusts, means that the usage of
\* that very report is recorded and its follow-up is filed.
CompletedIsRecorded ==
  lastRun # None /\ lastRun.status = "completed" =>
    /\ \E i \in DOMAIN usage : usage[i].report = lastRun.report
    /\ phase = "ended" => followup \in {None} \cup Range(handled)

\* A report is billed once at most, also when its pass is interrupted.
BilledOnce == \A i, j \in DOMAIN usage : usage[i].report = usage[j].report => i = j

\* current-pass.json without a running pass means that a worker was killed
\* (stale_pass_marker in status).
StaleMarkerMeansKill == marker /\ phase \notin InPass \cup {"failed"} => killed

\* The files a pass leaves agree with one another and with what has run,
\* wherever the worker stopped between its writes.
RecordsAgree == CompletedIsRecorded /\ BilledOnce /\ StaleMarkerMeansKill

\* A queued follow-up is handled, unless the limit ends the agent first.
FollowUpsHandled ==
  \A f \in FollowUps :
    Contains(queued, f) ~> (Contains(handled, f) \/ \E m \in Mandates : LimitReached(m))

=============================================================================
