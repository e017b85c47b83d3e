---------------------------- MODULE AgentWorker ----------------------------
(***************************************************************************)
(* One agent of the research team: the commands an operator runs against   *)
(* it (start, stop, status, wait) and the detached worker processes they   *)
(* spawn, as research_team/controller.py has them.  Commands and workers   *)
(* are separate processes that share four files: the registration          *)
(* runtime/NAME.json, the flock'ed runtime/NAME.lock, last-run.json and    *)
(* current-pass.json.  No command holds a lock across its steps.           *)
(***************************************************************************)
EXTENDS Naturals, FiniteSets

CONSTANTS
  Callers,     \* the command processes an operator runs
  Workers,     \* worker processes, numbered in the order they are spawned
  Commands,    \* the commands the operator uses
  OneShot,     \* the workers that find mode: oneshot and end after one pass
  Settings,    \* how the agent may be operated, one of them per behaviour
  None

ASSUME WorkerAssumption ==
  /\ Workers \subseteq Nat \ {0}
  /\ Callers \cap Workers = {}
  /\ None \notin Callers \cup Workers
  /\ OneShot \subseteq Workers

\* The callers and workers in use are among all of them; an operator who waits
\* is the only one.
ASSUME SettingsAssumption ==
  \A s \in Settings :
     /\ s.callers \subseteq Callers /\ s.workers \subseteq Workers
     /\ s.settled => \A c, d \in s.callers : c = d

VARIABLES
  setting,       \* callers and workers in use, faults that occur, and whether
                 \* commands wait until no worker is starting or exiting
  registration,  \* runtime/NAME.json: the worker whose pid and nonce it holds
  lock,          \* holder of the flock on runtime/NAME.lock
  lastRun,       \* last-run.json: its status and the worker that wrote it
  marker,        \* current-pass.json exists
  worker,        \* where each worker process is
  term,          \* a SIGTERM is pending for the worker
  turns,         \* workers whose runner CLI is alive
  pc,            \* where each command is
  op,            \* the command each caller runs, or ran last
  reg,           \* the registration the command read, or the worker it spawned
  result         \* what the command reported

files == <<registration, lastRun, marker>>
processes == <<worker, term, turns>>
locals == <<pc, op, reg, result>>
vars == <<setting, registration, lock, lastRun, marker, worker, term, turns, pc, op, reg, result>>

WorkerStates == {"none", "checking", "locking", "loop", "pass", "closing",
                 "unlinking", "exiting", "unregistered", "dead"}
Inside == {"loop", "pass", "closing", "unlinking", "exiting"}
CommandStates == {"idle", "read", "probe", "unlink", "matched", "absent", "spawn",
                  "register", "await", "poll", "waiting", "stopped"}
Results == {"none", "already_running", "preflight_failed", "started", "exited",
            "not_running", "stopped", "running", "inactive", "timed_out",
            "completed", "failed", "no_result"}

Alive(w) == worker[w] \notin {"none", "unregistered", "dead"}
Fresh == {w \in setting.workers : worker[w] = "none"}
Latest == {w \in Workers : worker[w] # "none" /\ \A v \in Workers : v > w => worker[v] = "none"}

Init ==
  /\ setting \in Settings
  /\ registration = None /\ lock = None /\ lastRun = None /\ marker = FALSE
  /\ worker = [w \in Workers |-> "none"]
  /\ term = [w \in Workers |-> FALSE]
  /\ turns = {}
  /\ pc = [c \in Callers |-> "idle"]
  /\ op = [c \in Callers |-> None]
  /\ reg = [c \in Callers |-> None]
  /\ result = [c \in Callers |-> "none"]

---------------------------------------------------------------------------
(* Commands.                                                               *)

\* The bound: a start begins only while an unspawned worker is left for it.
Starting == {c \in Callers : op[c] = "start" /\ pc[c] \in CommandStates \ {"idle", "register", "await", "poll"}}

Begin(c, command) ==
  /\ pc[c] = "idle"
  /\ command = "start" => Cardinality(Fresh) > Cardinality(Starting)
  /\ setting.settled => \A w \in Workers : Alive(w) => worker[w] \in {"loop", "pass"}
  /\ pc' = [pc EXCEPT ![c] = "read"]
  /\ op' = [op EXCEPT ![c] = command]
  /\ result' = [result EXCEPT ![c] = "none"]
  /\ UNCHANGED <<files, processes, lock, reg>>

Finish(c, outcome) ==
  /\ pc' = [pc EXCEPT ![c] = "idle"]
  /\ result' = [result EXCEPT ![c] = outcome]
  /\ UNCHANGED op

\* worker_holds_lock when the lock is free: the probe takes it; ReleaseProbe
\* gives it back before the command goes on.
TakeProbe(c) ==
  /\ lock = None
  /\ lock' = c

ReleaseProbe(c) ==
  /\ lock = c
  /\ lock' = None
  /\ UNCHANGED <<files, processes, locals>>

ReadRuntime(c) ==
  /\ pc[c] = "read"
  /\ reg' = [reg EXCEPT ![c] = registration]
  /\ pc' = [pc EXCEPT ![c] = IF registration = None THEN "unlink" ELSE "probe"]
  /\ UNCHANGED <<files, processes, lock, op, result>>

\* process_matches: the pid must be alive and the lock held, by whomever.
ProcessMatches(c, yes, no) ==
  \/ /\ ~Alive(reg[c])
     /\ pc' = [pc EXCEPT ![c] = no]
     /\ UNCHANGED lock
  \/ /\ Alive(reg[c]) /\ lock # None
     /\ pc' = [pc EXCEPT ![c] = yes]
     /\ UNCHANGED lock
  \/ /\ Alive(reg[c])
     /\ TakeProbe(c)
     /\ pc' = [pc EXCEPT ![c] = no]

Probe(c) ==
  /\ pc[c] = "probe"
  /\ ProcessMatches(c, "matched", "unlink")
  /\ UNCHANGED <<files, processes, op, reg, result>>

\* running_runtime removes the registration whenever it found no match, also
\* when it had read none.
UnlinkRuntime(c) ==
  /\ pc[c] = "unlink"
  /\ registration' = None
  /\ pc' = [pc EXCEPT ![c] = "absent"]
  /\ UNCHANGED <<lastRun, marker, lock, processes, op, reg, result>>

\* status: the state it prints.
ReportStatus(c) ==
  /\ op[c] = "status"
  /\ \/ pc[c] = "matched" /\ Finish(c, "running")
     \/ pc[c] = "absent" /\ Finish(c, "inactive")
  /\ UNCHANGED <<files, processes, lock, reg>>

\* wait polls running_runtime, then reads the last run.
PollAgain(c) ==
  /\ op[c] = "wait" /\ pc[c] = "matched"
  /\ pc' = [pc EXCEPT ![c] = "read"]
  /\ UNCHANGED <<files, processes, lock, op, reg, result>>

WaitTimesOut(c) ==
  /\ op[c] = "wait" /\ pc[c] = "matched"
  /\ Finish(c, "timed_out")
  /\ UNCHANGED <<files, processes, lock, reg>>

ReportLastRun(c) ==
  /\ op[c] = "wait" /\ pc[c] = "absent"
  /\ Finish(c, IF lastRun = None THEN "no_result" ELSE lastRun.status)
  /\ UNCHANGED <<files, processes, lock, reg>>

\* spawn_worker: refuse, or clear the previous run and spawn.
RefuseStart(c) ==
  /\ op[c] = "start" /\ pc[c] = "matched"
  /\ Finish(c, "already_running")
  /\ UNCHANGED <<files, processes, lock, reg>>

ClearPreviousRun(c) ==
  /\ op[c] = "start" /\ pc[c] = "absent"
  /\ lastRun' = None /\ marker' = FALSE
  /\ pc' = [pc EXCEPT ![c] = "spawn"]
  /\ UNCHANGED <<registration, lock, processes, op, reg, result>>

PreflightFails(c) ==
  /\ pc[c] = "spawn"
  /\ Finish(c, "preflight_failed")
  /\ UNCHANGED <<files, processes, lock, reg>>

Spawn(c) ==
  /\ pc[c] = "spawn"
  /\ \E w \in Fresh :
       /\ \A v \in Fresh : w <= v
       /\ worker' = [worker EXCEPT ![w] = "checking"]
       /\ reg' = [reg EXCEPT ![c] = w]
  /\ pc' = [pc EXCEPT ![c] = "register"]
  /\ UNCHANGED <<files, lock, term, turns, op, result>>

Register(c) ==
  /\ pc[c] = "register"
  /\ registration' = reg[c]
  /\ pc' = [pc EXCEPT ![c] = "await"]
  /\ UNCHANGED <<lastRun, marker, lock, processes, op, reg, result>>

\* Up to two seconds of polling: any holder of the lock counts.
AwaitLock(c) ==
  /\ pc[c] = "await"
  /\ \/ lock # None /\ Finish(c, "started") /\ UNCHANGED lock
     \/ /\ TakeProbe(c)
        /\ pc' = [pc EXCEPT ![c] = "poll"]
        /\ UNCHANGED <<op, result>>
  /\ UNCHANGED <<files, processes, reg>>

PollChild(c) ==
  /\ pc[c] = "poll"
  /\ \/ ~Alive(reg[c]) /\ Finish(c, "exited")
     \/ /\ Alive(reg[c])
        /\ pc' = [pc EXCEPT ![c] = "await"]
        /\ UNCHANGED <<op, result>>
  /\ UNCHANGED <<files, processes, lock, reg>>

\* The deadline passes with the worker still importing its modules.
StopAwaiting(c) ==
  /\ "slow_start" \in setting.faults /\ pc[c] = "await"
  /\ Finish(c, "started")
  /\ UNCHANGED <<files, processes, lock, reg>>

\* stop_worker.
StopFindsNothing(c) ==
  /\ op[c] = "stop" /\ pc[c] = "absent"
  /\ Finish(c, "not_running")
  /\ UNCHANGED <<files, processes, lock, reg>>

\* stop returns as soon as the signal is sent.
SignalNoWait(c) ==
  /\ op[c] = "stop" /\ pc[c] = "matched"
  /\ term' = [term EXCEPT ![reg[c]] = Alive(reg[c])]
  /\ pc' = [pc EXCEPT ![c] = "stopped"]
  /\ UNCHANGED <<files, lock, worker, turns, op, reg, result>>

Signal(c) ==
  /\ op[c] = "stop" /\ pc[c] = "matched"
  /\ \/ /\ Alive(reg[c])
        /\ term' = [term EXCEPT ![reg[c]] = TRUE]
        /\ pc' = [pc EXCEPT ![c] = "waiting"]
        /\ UNCHANGED <<registration, op, result>>
     \/ /\ ~Alive(reg[c])
        /\ registration' = None
        /\ Finish(c, "not_running")
        /\ UNCHANGED term
  /\ UNCHANGED <<lastRun, marker, lock, worker, turns, reg>>

AwaitStop(c) ==
  /\ pc[c] = "waiting"
  /\ ProcessMatches(c, "waiting", "stopped")
  /\ UNCHANGED <<files, processes, op, reg, result>>

Vanish(w, state) ==
  /\ worker' = [worker EXCEPT ![w] = state]
  /\ term' = [term EXCEPT ![w] = FALSE]
  /\ lock' = IF lock = w THEN None ELSE lock

\* After thirty seconds the worker's process group gets SIGKILL; a Claude
\* Code CLI runs in a session of its own and survives it.
KillHung(c) ==
  /\ "hang" \in setting.faults /\ pc[c] = "waiting" /\ Alive(reg[c])
  /\ Vanish(reg[c], "dead")
  /\ pc' = [pc EXCEPT ![c] = "stopped"]
  /\ UNCHANGED <<files, turns, op, reg, result>>

ForgetStopped(c) ==
  /\ pc[c] = "stopped"
  /\ registration' = None /\ marker' = FALSE
  /\ Finish(c, "stopped")
  /\ UNCHANGED <<lastRun, lock, processes, reg>>

CommandKilled(c) ==
  /\ "command_killed" \in setting.faults /\ pc[c] # "idle"
  /\ Finish(c, "none")
  /\ lock' = IF lock = c THEN None ELSE lock
  /\ UNCHANGED <<files, processes, reg>>

CommandStep(c) ==
  /\ lock # c
  /\ \/ ReadRuntime(c) \/ Probe(c) \/ UnlinkRuntime(c)
     \/ ReportStatus(c) \/ PollAgain(c) \/ ReportLastRun(c)
     \/ RefuseStart(c) \/ ClearPreviousRun(c) \/ PreflightFails(c) \/ Spawn(c)
     \/ Register(c) \/ AwaitLock(c) \/ PollChild(c)
     \/ StopFindsNothing(c) \/ Signal(c) \/ AwaitStop(c) \/ ForgetStopped(c)

---------------------------------------------------------------------------
(* Workers.  A pending SIGTERM is handled before the main thread's next    *)
(* step.                                                                   *)

Goto(w, state) == worker' = [worker EXCEPT ![w] = state]

SeeRegistration(w) ==
  /\ worker[w] = "checking" /\ registration = w
  /\ Goto(w, "locking")
  /\ UNCHANGED <<files, lock, term, turns, locals>>

\* One second of polling ends; the bound is that a live start command has
\* written the registration by then.
MissRegistration(w) ==
  /\ worker[w] = "checking" /\ registration # w
  /\ ~\E c \in Callers : pc[c] = "register" /\ reg[c] = w
  /\ Goto(w, "unregistered")
  /\ UNCHANGED <<files, lock, term, turns, locals>>

\* hold_worker_lock does not wait for the holder.
HoldLockNoWait(w) ==
  /\ worker[w] = "locking"
  /\ lock' = w
  /\ Goto(w, "loop")
  /\ UNCHANGED <<files, term, turns, locals>>

HoldLock(w) ==
  /\ worker[w] = "locking" /\ lock = None
  /\ lock' = w
  /\ Goto(w, "loop")
  /\ UNCHANGED <<files, term, turns, locals>>

\* _invoke: the CLI runs, in a session of its own, and is known to be active.
Invoke(w) == turns' = turns \cup {w}

\* Every active CLI is signalled, and killed when it has not ended in time.
TerminateActive(w) == turns' = turns \ {w}

StartPass(w) ==
  /\ worker[w] = "loop"
  /\ marker' = TRUE
  /\ Invoke(w)
  /\ Goto(w, "pass")
  /\ UNCHANGED <<registration, lastRun, lock, term, locals>>

\* The limit is reached, or the prompt can no longer be read.
LeaveLoop(w) ==
  /\ worker[w] = "loop"
  /\ Goto(w, "closing")
  /\ UNCHANGED <<files, lock, term, turns, locals>>

EndPass(w, status) ==
  /\ worker[w] = "pass"
  /\ lastRun' = [status |-> status, by |-> w]
  /\ marker' = FALSE
  /\ turns' = turns \ {w}
  /\ Goto(w, IF w \in OneShot THEN "closing" ELSE "loop")
  /\ UNCHANGED <<registration, lock, term, locals>>

\* worker's finally clause: runtime_belongs_to_worker, unlink, release.
CheckOwn(w) ==
  /\ worker[w] = "closing"
  /\ Goto(w, IF registration = w THEN "unlinking" ELSE "exiting")
  /\ UNCHANGED <<files, lock, term, turns, locals>>

UnlinkOwn(w) ==
  /\ worker[w] = "unlinking"
  /\ registration' = None
  /\ Goto(w, "exiting")
  /\ UNCHANGED <<lastRun, marker, lock, term, turns, locals>>

\* The runner CLI inherits the lock's descriptor and keeps the lock.
ExitLeaksLock(w) ==
  /\ worker[w] = "exiting"
  /\ Goto(w, "dead")
  /\ UNCHANGED <<files, lock, term, turns, locals>>

Exit(w) ==
  /\ worker[w] = "exiting"
  /\ Vanish(w, "dead")
  /\ UNCHANGED <<files, turns, locals>>

\* The signal handler raises without terminate_active.
InterruptNoTerminate(w) ==
  /\ term[w]
  /\ lastRun' = IF worker[w] = "pass" THEN [status |-> "failed", by |-> w] ELSE lastRun
  /\ marker' = (marker /\ worker[w] # "pass")
  /\ IF worker[w] \in {"loop", "pass"}
       THEN /\ Goto(w, "closing")
            /\ term' = [term EXCEPT ![w] = FALSE]
            /\ UNCHANGED lock
       ELSE Vanish(w, "dead")
  /\ UNCHANGED <<registration, turns, locals>>

\* _handle_worker_signal ends the CLI and raises WorkerStopped: inside a pass
\* the interruption is recorded; in the loop only the finally clause runs;
\* before the handler is installed, or outside the try, the process just ends.
Interrupt(w) ==
  /\ term[w]
  /\ \/ /\ worker[w] \in {"checking", "locking", "closing", "unlinking", "exiting"}
        /\ Vanish(w, "dead")
        /\ UNCHANGED <<files, turns>>
     \/ /\ worker[w] = "loop"
        /\ Goto(w, "closing")
        /\ term' = [term EXCEPT ![w] = FALSE]
        /\ UNCHANGED <<files, lock, turns>>
     \/ /\ worker[w] = "pass"
        /\ lastRun' = [status |-> "failed", by |-> w]
        /\ marker' = FALSE
        /\ TerminateActive(w)
        /\ Goto(w, "closing")
        /\ term' = [term EXCEPT ![w] = FALSE]
        /\ UNCHANGED <<registration, lock>>
  /\ UNCHANGED locals

WorkerStep(w) ==
  \/ Interrupt(w)
  \/ /\ ~term[w]
     /\ \/ SeeRegistration(w) \/ MissRegistration(w) \/ StartPass(w) \/ LeaveLoop(w)
        \/ \E status \in {"completed", "failed"} : EndPass(w, status)
        \/ CheckOwn(w) \/ UnlinkOwn(w) \/ Exit(w)

LockStep(w) == ~term[w] /\ HoldLock(w)

Crash(w) ==
  /\ "crash" \in setting.faults /\ Alive(w)
  /\ Vanish(w, "dead")
  /\ UNCHANGED <<files, turns, locals>>

\* A CLI whose worker is gone runs on until its turn ends.
OrphanTurnEnds(w) ==
  /\ w \in turns /\ ~Alive(w)
  /\ turns' = turns \ {w}
  /\ UNCHANGED <<files, lock, worker, term, locals>>

Steady(A) == A /\ UNCHANGED setting

Next == Steady(
  \/ \E c \in setting.callers :
       \/ \E command \in Commands : Begin(c, command)
       \/ CommandStep(c) \/ ReleaseProbe(c) \/ CommandKilled(c)
       \/ lock # c /\ (WaitTimesOut(c) \/ StopAwaiting(c) \/ KillHung(c))
  \/ \E w \in setting.workers : WorkerStep(w) \/ LockStep(w) \/ Crash(w) \/ OrphanTurnEnds(w))

Spec == Init /\ [][Next]_vars

(* A process that can run does, and every pass ends.  The lock needs strong *)
(* fairness: the worker is blocked in flock and the kernel wakes it at each *)
(* release, but a probe may be quicker any finite number of times.          *)
Fairness ==
  /\ \A c \in Callers : WF_vars(Steady(CommandStep(c))) /\ WF_vars(Steady(ReleaseProbe(c)))
  /\ \A w \in Workers : WF_vars(Steady(WorkerStep(w))) /\ SF_vars(Steady(LockStep(w)))

FairSpec == Spec /\ Fairness

---------------------------------------------------------------------------
(* Properties.                                                             *)

TypeOK ==
  /\ setting \in Settings
  /\ registration \in Workers \cup {None}
  /\ lock \in Workers \cup Callers \cup {None}
  /\ lastRun \in [status : {"completed", "failed"}, by : Workers] \cup {None}
  /\ marker \in BOOLEAN
  /\ worker \in [Workers -> WorkerStates]
  /\ term \in [Workers -> BOOLEAN]
  /\ turns \subseteq Workers
  /\ pc \in [Callers -> CommandStates]
  /\ op \in [Callers -> Commands \cup {None}]
  /\ reg \in [Callers -> Workers \cup {None}]
  /\ result \in [Callers -> Results]

\* Whatever commands race, at most one worker of an agent is past
\* hold_worker_lock: two never run passes at the same time.
MutualExclusion ==
  \A v, w \in Workers : worker[v] \in Inside /\ worker[w] \in Inside => v = w

\* At most one runner CLI works in the agent's workspace, as long as no
\* worker is killed without running its signal handler.
OneTurn == setting.faults \cap {"crash", "hang"} = {} => Cardinality(turns) <= 1

\* After a stop has reported, no worker of the agent runs passes, until the
\* next command ("stop: stop the agent process and active Codex turn").
StopMeansStopped ==
  \A c \in Callers : op[c] = "stop" /\ result[c] \in {"stopped", "not_running"} =>
    \A w \in Workers : worker[w] \notin {"loop", "pass"}

\* A status that printed "inactive" is right: no worker runs passes until the
\* next command.
StatusTruthful ==
  \A c \in Callers : op[c] = "status" /\ result[c] = "inactive" =>
    \A w \in Workers : worker[w] \notin {"loop", "pass"}

\* The worker running passes is the registered one: stop, status and start can
\* find it.
RunningIsRegistered ==
  \A w \in Workers : worker[w] \in {"loop", "pass"} => registration = w

\* last-run.json, which wait reports, was written by the worker spawned last,
\* never by one of an earlier start.
LastRunIsLatest == lastRun # None => lastRun.by \in Latest

\* current-pass.json exists while a pass runs (the dashboard's active runs).
PassHasMarker == \A w \in Workers : worker[w] = "pass" => marker

\* An operator who lets workers start and exit before the next command can
\* trust what the commands report and what they leave on file.
SettledOperatorIsTold ==
  setting.settled =>
    StopMeansStopped /\ StatusTruthful /\ RunningIsRegistered /\ LastRunIsLatest /\ PassHasMarker

\* A stop that has signalled its worker returns.
StopReturns == \A c \in Callers : pc[c] = "waiting" ~> pc[c] = "idle"

\* A one-shot worker that saw its registration ends, however many commands
\* probe the lock it waits for.
OneShotEnds == \A w \in OneShot : worker[w] = "locking" ~> worker[w] = "dead"

=============================================================================
