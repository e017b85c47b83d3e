------------------------- MODULE AgentWorkerProofs -------------------------
(***************************************************************************)
(* Mutual exclusion of an agent's workers and of their runner CLIs, and    *)
(* what a patient operator may rely on, for every set of callers, workers  *)
(* and commands and every setting.                                         *)
(***************************************************************************)
EXTENDS AgentWorker, FiniteSetTheorems, TLAPS

-----------------------------------------------------------------------------
(* The inductive invariant.                                                *)

\* A worker past hold_worker_lock holds the lock: probes, other workers and
\* dying processes never take it from it.
InsideHoldsLock == \A w \in Workers : worker[w] \in Inside => lock = w

\* A CLI works for a worker that is inside a pass, unless a worker may be
\* killed with its handler not run.
TurnsInPass ==
  setting.faults \cap {"crash", "hang"} = {} => \A w \in turns : worker[w] = "pass"

IInv == TypeOK /\ InsideHoldsLock /\ TurnsInPass

-----------------------------------------------------------------------------
(* Types.                                                                  *)

\* Initial states have their types.
LEMMA InitType == Init => TypeOK
BY WorkerAssumption DEF Init, TypeOK, WorkerStates, CommandStates, Results

\* A command that ends reports one of the results.
LEMMA FinishType ==
  ASSUME TypeOK, NEW c \in Callers, NEW outcome \in Results, Finish(c, outcome)
  PROVE  /\ pc' \in [Callers -> CommandStates]
         /\ result' \in [Callers -> Results]
         /\ op' = op
BY DEF TypeOK, Finish, CommandStates

\* Steps of a command keep the types.
LEMMA CommandType ==
  ASSUME TypeOK, NEW c \in Callers, UNCHANGED setting,
         \/ \E command \in Commands : Begin(c, command)
         \/ CommandStep(c) \/ ReleaseProbe(c) \/ CommandKilled(c)
         \/ WaitTimesOut(c) \/ StopAwaiting(c) \/ KillHung(c)
  PROVE  TypeOK'
<1> USE DEF TypeOK, files, processes, locals
<1>1. ASSUME NEW command \in Commands, Begin(c, command) PROVE TypeOK'
  BY <1>1 DEF Begin, CommandStates, Results
<1>2. CASE ReadRuntime(c)
  BY <1>2 DEF ReadRuntime, CommandStates
<1>3. CASE Probe(c)
  BY <1>3 DEF Probe, ProcessMatches, TakeProbe, CommandStates
<1>4. CASE UnlinkRuntime(c)
  BY <1>4 DEF UnlinkRuntime, CommandStates
<1>5. CASE ReportStatus(c)
  BY <1>5 DEF ReportStatus, Finish, CommandStates, Results
<1>6. CASE PollAgain(c)
  BY <1>6 DEF PollAgain, CommandStates
<1>7. CASE ReportLastRun(c)
  <2>1. (IF lastRun = None THEN "no_result" ELSE lastRun.status) \in Results
    BY DEF Results
  <2>. QED  BY <1>7, <2>1 DEF ReportLastRun, Finish, CommandStates
<1>8. CASE RefuseStart(c)
  BY <1>8 DEF RefuseStart, Finish, CommandStates, Results
<1>9. CASE ClearPreviousRun(c)
  BY <1>9 DEF ClearPreviousRun, CommandStates
<1>10. CASE PreflightFails(c)
  BY <1>10 DEF PreflightFails, Finish, CommandStates, Results
<1>11. CASE Spawn(c)
  <2>1. PICK w \in Fresh : /\ worker' = [worker EXCEPT ![w] = "checking"]
                           /\ reg' = [reg EXCEPT ![c] = w]
    BY <1>11 DEF Spawn
  <2>2. w \in Workers
    BY <2>1, SettingsAssumption DEF Fresh
  <2>. QED  BY <1>11, <2>1, <2>2 DEF Spawn, CommandStates, WorkerStates
<1>12. CASE Register(c)
  BY <1>12 DEF Register, CommandStates
<1>13. CASE AwaitLock(c)
  BY <1>13 DEF AwaitLock, TakeProbe, Finish, CommandStates, Results
<1>14. CASE PollChild(c)
  BY <1>14 DEF PollChild, Finish, CommandStates, Results
<1>15. CASE StopFindsNothing(c)
  BY <1>15 DEF StopFindsNothing, Finish, CommandStates, Results
<1>16. CASE Signal(c)
  BY <1>16 DEF Signal, Finish, CommandStates, Results
<1>17. CASE AwaitStop(c)
  BY <1>17 DEF AwaitStop, ProcessMatches, TakeProbe, CommandStates
<1>18. CASE ForgetStopped(c)
  BY <1>18 DEF ForgetStopped, Finish, CommandStates, Results
<1>19. CASE ReleaseProbe(c)
  BY <1>19 DEF ReleaseProbe
<1>20. CASE CommandKilled(c)
  BY <1>20 DEF CommandKilled, Finish, CommandStates, Results
<1>21. CASE WaitTimesOut(c)
  BY <1>21 DEF WaitTimesOut, Finish, CommandStates, Results
<1>22. CASE StopAwaiting(c)
  BY <1>22 DEF StopAwaiting, Finish, CommandStates, Results
<1>23. CASE KillHung(c)
  BY <1>23 DEF KillHung, Vanish, CommandStates, WorkerStates
<1>. QED  BY <1>1, <1>2, <1>3, <1>4, <1>5, <1>6, <1>7, <1>8, <1>9, <1>10, <1>11, <1>12,
             <1>13, <1>14, <1>15, <1>16, <1>17, <1>18, <1>19, <1>20, <1>21, <1>22, <1>23
          DEF CommandStep

\* Steps of a worker keep the types.
LEMMA WorkerType ==
  ASSUME TypeOK, NEW w \in Workers, UNCHANGED setting,
         WorkerStep(w) \/ LockStep(w) \/ Crash(w) \/ OrphanTurnEnds(w)
  PROVE  TypeOK'
<1> USE DEF TypeOK, files, processes, locals, WorkerStates
<1>1. CASE Interrupt(w)
  <2>1. CASE Vanish(w, "dead") /\ UNCHANGED <<files, turns>>
    BY <1>1, <2>1 DEF Interrupt, TerminateActive, Vanish
  <2>2. CASE /\ Goto(w, "closing")
             /\ term' = [term EXCEPT ![w] = FALSE]
             /\ UNCHANGED <<files, lock, turns>>
    BY <1>1, <2>2 DEF Interrupt, TerminateActive, Goto
  <2>3. CASE /\ lastRun' = [status |-> "failed", by |-> w]
             /\ marker' = FALSE
             /\ turns' = turns \ {w}
             /\ Goto(w, "closing")
             /\ term' = [term EXCEPT ![w] = FALSE]
             /\ UNCHANGED <<registration, lock>>
    <3>1. lastRun' \in [status : {"completed", "failed"}, by : Workers]
      BY <2>3
    <3>2. /\ UNCHANGED <<pc, op, reg, result, registration, lock>>
          /\ marker' \in BOOLEAN /\ turns' \subseteq Workers
      BY <1>1, <2>3 DEF Interrupt, TerminateActive
    <3>3. worker' \in [Workers -> WorkerStates] /\ term' \in [Workers -> BOOLEAN]
      BY <2>3 DEF Goto
    <3>. QED  BY <3>1, <3>2, <3>3
  <2>. QED  BY <1>1, <2>1, <2>2, <2>3 DEF Interrupt, TerminateActive
<1>2. CASE SeeRegistration(w)
  BY <1>2 DEF SeeRegistration, Goto
<1>3. CASE MissRegistration(w)
  BY <1>3 DEF MissRegistration, Goto
<1>4. CASE StartPass(w)
  BY <1>4 DEF StartPass, Invoke, Goto
<1>5. CASE LeaveLoop(w)
  BY <1>5 DEF LeaveLoop, Goto
<1>6. ASSUME NEW status \in {"completed", "failed"}, EndPass(w, status) PROVE TypeOK'
  BY <1>6 DEF EndPass, Goto
<1>7. CASE CheckOwn(w)
  BY <1>7 DEF CheckOwn, Goto
<1>8. CASE UnlinkOwn(w)
  BY <1>8 DEF UnlinkOwn, Goto
<1>9. CASE Exit(w)
  BY <1>9 DEF Exit, Vanish
<1>10. CASE LockStep(w)
  BY <1>10 DEF LockStep, HoldLock, Goto
<1>11. CASE Crash(w)
  BY <1>11 DEF Crash, Vanish
<1>12. CASE OrphanTurnEnds(w)
  BY <1>12 DEF OrphanTurnEnds
<1>. QED  BY <1>1, <1>2, <1>3, <1>4, <1>5, <1>6, <1>7, <1>8, <1>9, <1>10, <1>11, <1>12
          DEF WorkerStep

\* A step of the system is one of a caller or of a worker.
LEMMA Steps ==
  ASSUME TypeOK, Next
  PROVE  /\ UNCHANGED setting
         /\ \/ \E c \in Callers :
                 \/ \E command \in Commands : Begin(c, command)
                 \/ CommandStep(c) \/ ReleaseProbe(c) \/ CommandKilled(c)
                 \/ WaitTimesOut(c) \/ StopAwaiting(c) \/ KillHung(c)
            \/ \E w \in Workers : WorkerStep(w) \/ LockStep(w) \/ Crash(w) \/ OrphanTurnEnds(w)
<1>1. setting.callers \subseteq Callers /\ setting.workers \subseteq Workers
  BY SettingsAssumption DEF TypeOK
<1>. QED  BY <1>1 DEF Next, Steady

-----------------------------------------------------------------------------
(* Exclusion.                                                              *)

\* A process that vanishes takes the lock from nobody but itself.
LEMMA VanishKeepsLock ==
  ASSUME TypeOK, InsideHoldsLock, NEW w, NEW state \in WorkerStates \ Inside, Vanish(w, state)
  PROVE  InsideHoldsLock'
BY DEF TypeOK, InsideHoldsLock, Vanish

\* Steps of a command leave the lock with the worker inside.
LEMMA CommandExclusion ==
  ASSUME IInv, NEW c \in Callers, UNCHANGED setting,
         \/ \E command \in Commands : Begin(c, command)
         \/ CommandStep(c) \/ ReleaseProbe(c) \/ CommandKilled(c)
         \/ WaitTimesOut(c) \/ StopAwaiting(c) \/ KillHung(c)
  PROVE  InsideHoldsLock' /\ TurnsInPass'
<1> USE DEF IInv, InsideHoldsLock, TurnsInPass, files, processes, locals
<1>1. CASE UNCHANGED <<lock, worker, turns>>
  BY <1>1
<1>2. CASE TakeProbe(c) /\ UNCHANGED <<worker, turns>>
  BY <1>2, WorkerAssumption DEF TakeProbe
<1>3. CASE ReleaseProbe(c)
  <2>1. c \notin Workers
    BY WorkerAssumption
  <2>. QED  BY <1>3, <2>1 DEF ReleaseProbe
<1>4. CASE CommandKilled(c)
  <2>1. c \notin Workers
    BY WorkerAssumption
  <2>. QED  BY <1>4, <2>1 DEF CommandKilled
<1>5. CASE KillHung(c)
  <2>1. "dead" \in WorkerStates \ Inside
    BY DEF WorkerStates, Inside
  <2>2. InsideHoldsLock'
    BY <1>5, <2>1, VanishKeepsLock DEF KillHung
  <2>3. setting'.faults \cap {"crash", "hang"} # {}
    BY <1>5 DEF KillHung
  <2>. QED  BY <2>2, <2>3
<1>6. CASE Spawn(c)
  <2>1. PICK w \in Fresh : worker' = [worker EXCEPT ![w] = "checking"]
    BY <1>6 DEF Spawn
  <2>2. w \in Workers /\ worker[w] = "none" /\ lock' = lock /\ turns' = turns
    BY <1>6, <2>1, SettingsAssumption DEF Spawn, Fresh, TypeOK
  <2>. QED  BY <2>1, <2>2 DEF TypeOK, Inside
<1>7. ASSUME NEW command \in Commands, Begin(c, command) PROVE UNCHANGED <<lock, worker, turns>>
  BY <1>7 DEF Begin
<1>8. ASSUME CommandStep(c), ~Spawn(c)
      PROVE  UNCHANGED <<worker, turns>> /\ (TakeProbe(c) \/ UNCHANGED lock)
  BY <1>8 DEF CommandStep, ReadRuntime, Probe, ProcessMatches, UnlinkRuntime, ReportStatus,
     PollAgain, ReportLastRun, RefuseStart, ClearPreviousRun, PreflightFails, Register,
     AwaitLock, PollChild, StopFindsNothing, Signal, AwaitStop, ForgetStopped
<1>9. ASSUME WaitTimesOut(c) \/ StopAwaiting(c) PROVE UNCHANGED <<lock, worker, turns>>
  BY <1>9 DEF WaitTimesOut, StopAwaiting
<1>. QED  BY <1>1, <1>2, <1>3, <1>4, <1>5, <1>6, <1>7, <1>8, <1>9

\* Steps of a worker move it inside with the lock only, and out of a pass only
\* with its CLI.
LEMMA WorkerExclusion ==
  ASSUME IInv, NEW w \in Workers, UNCHANGED setting,
         WorkerStep(w) \/ LockStep(w) \/ Crash(w) \/ OrphanTurnEnds(w)
  PROVE  InsideHoldsLock' /\ TurnsInPass'
<1> USE DEF IInv, InsideHoldsLock, TurnsInPass, files, locals
<1>0. "dead" \in WorkerStates \ Inside
  BY DEF WorkerStates, Inside
<1>1. CASE Interrupt(w)
  <2>1. CASE Vanish(w, "dead") /\ worker[w] # "pass" /\ UNCHANGED turns
    <3>1. InsideHoldsLock'
      BY <1>0, <2>1, VanishKeepsLock
    <3>2. TurnsInPass'
      BY <2>1 DEF TypeOK, Vanish
    <3>. QED  BY <3>1, <3>2
  <2>2. CASE worker[w] = "loop" /\ Goto(w, "closing") /\ UNCHANGED <<lock, turns>>
    BY <2>2 DEF TypeOK, Goto, Inside
  <2>3. CASE worker[w] = "pass" /\ Goto(w, "closing") /\ UNCHANGED lock /\ turns' = turns \ {w}
    BY <2>3 DEF TypeOK, Goto, Inside
  <2>. QED  BY <1>1, <2>1, <2>2, <2>3 DEF Interrupt, TerminateActive
<1>2. CASE SeeRegistration(w)
  BY <1>2 DEF SeeRegistration, TypeOK, Goto, Inside
<1>3. CASE MissRegistration(w)
  BY <1>3 DEF MissRegistration, TypeOK, Goto, Inside
<1>4. CASE StartPass(w)
  BY <1>4 DEF StartPass, Invoke, TypeOK, Goto, Inside
<1>5. CASE LeaveLoop(w)
  BY <1>5 DEF LeaveLoop, TypeOK, Goto, Inside
<1>6. ASSUME NEW status \in {"completed", "failed"}, EndPass(w, status)
      PROVE  InsideHoldsLock' /\ TurnsInPass'
  BY <1>6 DEF EndPass, TypeOK, Goto, Inside
<1>7. CASE CheckOwn(w)
  BY <1>7 DEF CheckOwn, TypeOK, Goto, Inside
<1>8. CASE UnlinkOwn(w)
  BY <1>8 DEF UnlinkOwn, TypeOK, Goto, Inside
<1>9. CASE Exit(w)
  <2>1. InsideHoldsLock'
    BY <1>0, <1>9, VanishKeepsLock DEF Exit
  <2>2. TurnsInPass'
    BY <1>9 DEF Exit, Vanish, TypeOK
  <2>. QED  BY <2>1, <2>2
<1>10. CASE LockStep(w)
  <2>1. \A v \in Workers : worker[v] \notin Inside
    BY <1>10, WorkerAssumption DEF LockStep, HoldLock
  <2>. QED  BY <1>10, <2>1 DEF LockStep, HoldLock, TypeOK, Goto, Inside
<1>11. CASE Crash(w)
  <2>1. InsideHoldsLock'
    BY <1>0, <1>11, VanishKeepsLock DEF Crash
  <2>2. setting'.faults \cap {"crash", "hang"} # {}
    BY <1>11 DEF Crash
  <2>. QED  BY <2>1, <2>2
<1>12. CASE OrphanTurnEnds(w)
  BY <1>12 DEF OrphanTurnEnds
<1>. QED  BY <1>1, <1>2, <1>3, <1>4, <1>5, <1>6, <1>7, <1>8, <1>9, <1>10, <1>11, <1>12
          DEF WorkerStep

-----------------------------------------------------------------------------
(* The patient operator.                                                   *)

\* A worker that will run no pass, write no record and remove no registration
\* any more.
Over(w) == worker[w] \in {"none", "exiting", "unregistered", "dead"}
AllOver == \A w \in Workers : Over(w)

\* Workers are spawned in the order of their numbers.
InOrder ==
  \A v \in Workers : worker[v] # "none" =>
     /\ v \in setting.workers
     /\ \A w \in setting.workers : worker[w] = "none" => v < w

\* One worker at most is not over, it is the latest, and from the moment it has
\* seen its registration to the moment it removes it nobody else does.
OneActive == \A v, w \in Workers : ~Over(v) /\ ~Over(w) => v = w
ActiveIsLatest == \A w \in Workers : ~Over(w) => w \in Latest
ActiveIsRegistered ==
  \A w \in Workers :
     worker[w] \in {"locking", "loop", "pass", "closing", "unlinking"} => registration = w

WorkersSettled ==
  /\ InOrder /\ OneActive /\ ActiveIsLatest /\ ActiveIsRegistered
  /\ LastRunIsLatest /\ PassHasMarker

\* What a command knows: it began with no worker starting, the registration it
\* read is the active worker's, and where it found none, none is active until it
\* spawns one.
CommandSettled(c) ==
  /\ pc[c] # "idle" \/ result[c] # "none" => c \in setting.callers
  /\ pc[c] # "idle" => result[c] = "none"
  /\ pc[c] \notin {"idle", "register", "await", "poll"} =>
       \A w \in Workers : worker[w] \notin {"checking", "locking"}
  /\ pc[c] \in {"probe", "matched", "waiting", "register"} =>
       reg[c] \in Workers /\ \A w \in Workers : ~Over(w) => w = reg[c]
  /\ pc[c] \in {"unlink", "absent", "spawn", "stopped"} => AllOver
  /\ pc[c] = "spawn" => lastRun = None
  /\ op[c] = "stop" /\ result[c] \in {"stopped", "not_running"} => AllOver
  /\ op[c] = "status" /\ result[c] = "inactive" => AllOver

SettledInv == setting.settled => WorkersSettled /\ \A c \in Callers : CommandSettled(c)

\* A step of a worker ends it, or moves it along its life with the writes that
\* belong to the move.
Moves(w) ==
  /\ UNCHANGED locals
  /\ \/ UNCHANGED <<worker, files>>
     \/ \E state \in WorkerStates :
          /\ worker' = [worker EXCEPT ![w] = state]
          /\ \/ worker[w] # "none" /\ state \in {"unregistered", "dead"} /\ UNCHANGED files
             \/ /\ worker[w] = "checking" /\ state = "locking" /\ registration = w
                /\ UNCHANGED files
             \/ /\ worker[w] = "locking" /\ state = "loop" /\ UNCHANGED files
             \/ /\ worker[w] = "loop" /\ state = "pass"
                /\ marker' = TRUE /\ UNCHANGED <<registration, lastRun>>
             \/ /\ worker[w] = "loop" /\ state = "closing" /\ UNCHANGED files
             \/ /\ worker[w] = "pass" /\ state \in {"loop", "closing"}
                /\ lastRun'.by = w /\ UNCHANGED registration
             \/ /\ worker[w] = "closing" /\ state \in {"unlinking", "exiting"}
                /\ UNCHANGED files
             \/ /\ worker[w] = "unlinking" /\ state = "exiting"
                /\ registration' = None /\ UNCHANGED <<lastRun, marker>>

\* Every step of a worker is such a move.
LEMMA WorkerMoves ==
  ASSUME TypeOK, NEW w \in Workers,
         WorkerStep(w) \/ LockStep(w) \/ Crash(w) \/ OrphanTurnEnds(w)
  PROVE  Moves(w)
<1> USE DEF Moves, files, locals
<1>0. /\ {"locking", "loop", "pass", "closing", "unlinking", "exiting", "unregistered", "dead"}
           \subseteq WorkerStates
      /\ worker[w] \in WorkerStates
  BY DEF TypeOK, WorkerStates
<1>1. CASE Interrupt(w)
  <2>1. CASE worker[w] = "pass"
    BY <1>0, <1>1, <2>1 DEF Interrupt, Goto
  <2>2. CASE worker[w] = "loop"
    BY <1>0, <1>1, <2>2 DEF Interrupt, Goto
  <2>3. CASE worker[w] \notin {"pass", "loop"}
    BY <1>0, <1>1, <2>3 DEF Interrupt, Vanish
  <2>. QED  BY <2>1, <2>2, <2>3
<1>2. CASE SeeRegistration(w)
  BY <1>0, <1>2 DEF SeeRegistration, Goto
<1>3. CASE MissRegistration(w)
  BY <1>0, <1>3 DEF MissRegistration, Goto
<1>4. CASE StartPass(w)
  BY <1>0, <1>4 DEF StartPass, Goto
<1>5. CASE LeaveLoop(w)
  BY <1>0, <1>5 DEF LeaveLoop, Goto
<1>6. ASSUME NEW status \in {"completed", "failed"}, EndPass(w, status) PROVE Moves(w)
  BY <1>0, <1>6 DEF EndPass, Goto
<1>7. CASE CheckOwn(w)
  BY <1>0, <1>7 DEF CheckOwn, Goto
<1>8. CASE UnlinkOwn(w)
  BY <1>0, <1>8 DEF UnlinkOwn, Goto
<1>9. CASE Exit(w)
  BY <1>0, <1>9 DEF Exit, Vanish
<1>10. CASE LockStep(w)
  BY <1>0, <1>10 DEF LockStep, HoldLock, Goto
<1>11. CASE Crash(w)
  BY <1>0, <1>11 DEF Crash, Vanish, Alive
<1>12. CASE OrphanTurnEnds(w)
  BY <1>12 DEF OrphanTurnEnds
<1>. QED  BY <1>1, <1>2, <1>3, <1>4, <1>5, <1>6, <1>7, <1>8, <1>9, <1>10, <1>11, <1>12
          DEF WorkerStep

\* A worker that moves stays the one that is active; nothing that was over
\* comes back.
LEMMA WorkerSettles ==
  ASSUME TypeOK, TypeOK', SettledInv, UNCHANGED setting, NEW w \in Workers, Moves(w)
  PROVE  SettledInv'
<1> SUFFICES ASSUME setting.settled PROVE SettledInv'
  BY DEF SettledInv
<1>1. WorkersSettled /\ \A c \in Callers : CommandSettled(c)
  BY DEF SettledInv
<1>2. CASE UNCHANGED <<worker, files>>
  BY <1>1, <1>2 DEF Moves, SettledInv, WorkersSettled, InOrder, OneActive, ActiveIsLatest,
     ActiveIsRegistered, LastRunIsLatest, PassHasMarker, CommandSettled, AllOver, Over, Latest,
     files, locals
<1>3. CASE ~UNCHANGED <<worker, files>>
  <2>1. PICK state \in WorkerStates : worker' = [worker EXCEPT ![w] = state]
    BY <1>3 DEF Moves
  <2>2. /\ worker' \in [Workers -> WorkerStates] /\ worker \in [Workers -> WorkerStates]
        /\ worker'[w] = state
        /\ \A v \in Workers \ {w} : worker'[v] = worker[v]
    BY <2>1 DEF TypeOK
  <2>3. /\ worker[w] # "none" /\ state # "none" /\ state # "checking"
        /\ state = "locking" => worker[w] = "checking" /\ registration = w
        /\ worker[w] \in {"exiting", "unregistered", "dead"} => state \in {"unregistered", "dead"}
        /\ state = "pass" => marker'
        /\ state \notin {"unregistered", "dead"} => ~Over(w)
        /\ state \in {"loop", "pass", "closing", "unlinking"} =>
             worker[w] \in {"locking", "loop", "pass", "closing"}
    BY <1>3, <2>1, <2>2 DEF Moves, Over
  <2>4. /\ registration' = registration \/ (worker[w] = "unlinking" /\ state = "exiting")
        /\ lastRun' = lastRun \/ (worker[w] = "pass" /\ lastRun'.by = w)
        /\ marker' = marker \/ worker[w] \in {"loop", "pass"}
    BY <1>3, <2>1, <2>2 DEF Moves, files
  <2>5. \A v \in Workers : Over(v) => Over(v)'
    BY <2>2, <2>3 DEF Over
  <2>6. Latest' = Latest
    BY <2>2, <2>3 DEF Latest
  <2>7. WorkersSettled'
    <3>1. InOrder'
      <4>1. setting.workers \subseteq Workers
        BY SettingsAssumption DEF TypeOK
      <4>2. \A v \in Workers : worker'[v] = "none" <=> worker[v] = "none"
        BY <2>2, <2>3
      <4>. QED  BY <1>1, <4>1, <4>2 DEF WorkersSettled, InOrder
    <3>2. OneActive'
      BY <1>1, <2>5 DEF WorkersSettled, OneActive
    <3>3. ActiveIsLatest'
      BY <1>1, <2>5, <2>6 DEF WorkersSettled, ActiveIsLatest
    <3>4. ActiveIsRegistered'
      BY <1>1, <2>2, <2>3, <2>4 DEF WorkersSettled, ActiveIsRegistered, OneActive, Over
    <3>5. LastRunIsLatest'
      BY <1>1, <2>4, <2>6 DEF WorkersSettled, LastRunIsLatest, ActiveIsLatest, Over
    <3>6. PassHasMarker'
      BY <1>1, <2>2, <2>3, <2>4 DEF WorkersSettled, PassHasMarker, OneActive, Over
    <3>. QED  BY <3>1, <3>2, <3>3, <3>4, <3>5, <3>6 DEF WorkersSettled
  <2>8. ASSUME NEW c \in Callers PROVE CommandSettled(c)'
    <3>1. CommandSettled(c)
      BY <1>1
    <3>2. UNCHANGED <<pc, op, reg, result>>
      BY DEF Moves, locals
    <3>3. AllOver => AllOver'
      BY <2>5 DEF AllOver
    <3>4. (\A v \in Workers : worker[v] \notin {"checking", "locking"})
          => \A v \in Workers : worker'[v] \notin {"checking", "locking"}
      BY <2>2, <2>3
    <3>5. AllOver => lastRun' = lastRun
      BY <2>4 DEF AllOver, Over
    <3>. QED  BY <2>5, <3>1, <3>2, <3>3, <3>4, <3>5 DEF CommandSettled
  <2>. QED  BY <2>7, <2>8 DEF SettledInv
<1>. QED  BY <1>2, <1>3

\* A command changes only what its own process knows, and the patient operator's
\* other processes are at rest.
LEMMA OthersRest ==
  ASSUME IInv, SettledInv, setting.settled, UNCHANGED setting, NEW c \in setting.callers,
         \/ \E command \in Commands : Begin(c, command)
         \/ CommandStep(c) \/ ReleaseProbe(c) \/ CommandKilled(c)
         \/ WaitTimesOut(c) \/ StopAwaiting(c) \/ KillHung(c)
  PROVE  \A d \in Callers \ {c} : CommandSettled(d)'
<1> TAKE d \in Callers \ {c}
<1>1. c \in Callers /\ d \notin setting.callers
  BY SettingsAssumption DEF IInv, TypeOK
<1>2. pc[d] = "idle" /\ result[d] = "none"
  BY <1>1 DEF SettledInv, CommandSettled
<1>3. /\ \/ \E p : pc' = [pc EXCEPT ![c] = p]
         \/ pc' = pc
      /\ \/ \E r : result' = [result EXCEPT ![c] = r]
         \/ result' = result
  BY DEF Begin, CommandStep, ReadRuntime, Probe, ProcessMatches, UnlinkRuntime, ReportStatus,
     PollAgain, ReportLastRun, RefuseStart, ClearPreviousRun, PreflightFails, Spawn, Register,
     AwaitLock, PollChild, StopFindsNothing, Signal, AwaitStop, ForgetStopped, ReleaseProbe,
     CommandKilled, WaitTimesOut, StopAwaiting, KillHung, Finish, locals
<1>4. pc'[d] = pc[d] /\ result'[d] = result[d]
  BY <1>1, <1>3 DEF IInv, TypeOK
<1>. QED  BY <1>2, <1>4 DEF CommandSettled

\* A command that leaves workers and files alone leaves what is said of them.
LEMMA FilesKept ==
  ASSUME SettledInv, setting.settled, UNCHANGED <<setting, worker, files>>
  PROVE  WorkersSettled' /\ (AllOver => AllOver')
BY DEF SettledInv, WorkersSettled, InOrder, OneActive, ActiveIsLatest, ActiveIsRegistered,
   LastRunIsLatest, PassHasMarker, AllOver, Over, Latest, files

\* A registration goes only when no worker is active, and so may the record and
\* the marker.
LEMMA FilesRemoved ==
  ASSUME SettledInv, setting.settled, UNCHANGED <<setting, worker>>, AllOver,
         lastRun' \in {lastRun, None}
  PROVE  WorkersSettled' /\ AllOver'
BY DEF SettledInv, WorkersSettled, InOrder, OneActive, ActiveIsLatest, ActiveIsRegistered,
   LastRunIsLatest, PassHasMarker, AllOver, Over, Latest

\* A live worker that is neither starting nor active is on its way out and holds
\* the lock, so that no probe of it finds the lock free.
LEMMA ProbeIsRight ==
  ASSUME IInv, SettledInv, setting.settled, NEW c \in Callers,
         pc[c] \in {"probe", "matched", "waiting"}
  PROVE  /\ reg[c] \in Workers
         /\ Alive(reg[c]) => lock = reg[c]
         /\ ~Alive(reg[c]) => AllOver
<1>1. /\ reg[c] \in Workers
      /\ worker[reg[c]] \notin {"checking", "locking"}
      /\ \A w \in Workers : ~Over(w) => w = reg[c]
  BY DEF SettledInv, CommandSettled
<1>2. ~Alive(reg[c]) => AllOver
  BY <1>1 DEF Alive, AllOver, Over
<1>3. Alive(reg[c]) => lock = reg[c]
  BY <1>1 DEF IInv, TypeOK, InsideHoldsLock, Inside, Alive, WorkerStates
<1>. QED  BY <1>1, <1>2, <1>3

\* What a command must find out to be where it goes.
NothingStarts == \A w \in Workers : worker[w] \notin {"checking", "locking"}
KnowsActive(r) == r \in Workers /\ \A w \in Workers : ~Over(w) => w = r

\* A command under way that goes on or reports.
LEMMA GoesOn ==
  ASSUME SettledInv, setting.settled, UNCHANGED setting, NEW c \in Callers, c \in setting.callers,
         pc[c] # "idle", result'[c] = result[c],
         pc'[c] \notin {"idle", "register", "await", "poll"} => NothingStarts',
         pc'[c] \in {"probe", "matched", "waiting", "register"} => KnowsActive(reg[c])',
         pc'[c] \in {"unlink", "absent", "spawn", "stopped"} => AllOver',
         pc'[c] = "spawn" => lastRun' = None
  PROVE  CommandSettled(c)'
<1>1. result'[c] = "none"
  BY DEF SettledInv, CommandSettled
<1>. QED  BY <1>1 DEF CommandSettled, NothingStarts, KnowsActive

LEMMA Reports ==
  ASSUME UNCHANGED setting, NEW c \in Callers, c \in setting.callers, pc'[c] = "idle",
         result'[c] \in {"stopped", "not_running", "inactive"} => AllOver'
  PROVE  CommandSettled(c)'
BY DEF CommandSettled

\* What a command knows before its step.
LEMMA Knows ==
  ASSUME SettledInv, setting.settled, NEW c \in Callers
  PROVE  /\ WorkersSettled
         /\ pc[c] \notin {"idle", "register", "await", "poll"} => NothingStarts
         /\ pc[c] \in {"probe", "matched", "waiting", "register"} => KnowsActive(reg[c])
         /\ pc[c] \in {"unlink", "absent", "spawn", "stopped"} => AllOver
         /\ pc[c] = "spawn" => lastRun = None
BY DEF SettledInv, CommandSettled, NothingStarts, KnowsActive

\* None of it is lost where the workers stay as they are.
LEMMA KnowledgeStays ==
  ASSUME UNCHANGED worker
  PROVE  /\ NothingStarts => NothingStarts'
         /\ AllOver => AllOver'
         /\ \A r : KnowsActive(r) => r \in Workers /\ \A w \in Workers : ~Over(w)' => w = r
BY DEF NothingStarts, AllOver, KnowsActive, Over

\* Steps of the patient operator's commands.
LEMMA CommandSettles ==
  ASSUME IInv, IInv', SettledInv, setting.settled, UNCHANGED setting, NEW c \in setting.callers,
         \/ \E command \in Commands : Begin(c, command)
         \/ CommandStep(c) \/ ReleaseProbe(c) \/ CommandKilled(c)
         \/ WaitTimesOut(c) \/ StopAwaiting(c) \/ KillHung(c)
  PROVE  WorkersSettled' /\ CommandSettled(c)'
<1>0. /\ c \in Callers /\ TypeOK /\ TypeOK'
      /\ pc \in [Callers -> CommandStates] /\ result \in [Callers -> Results]
      /\ reg \in [Callers -> Workers \cup {None}] /\ worker \in [Workers -> WorkerStates]
      /\ setting.workers \subseteq Workers /\ None \notin Workers
  BY SettingsAssumption, WorkerAssumption DEF IInv, TypeOK
<1>. DEFINE Same == UNCHANGED <<worker, files>>
            Goal == WorkersSettled' /\ CommandSettled(c)'
<1>k. /\ WorkersSettled
      /\ pc[c] \notin {"idle", "register", "await", "poll"} => NothingStarts
      /\ pc[c] \in {"probe", "matched", "waiting", "register"} => KnowsActive(reg[c])
      /\ pc[c] \in {"unlink", "absent", "spawn", "stopped"} => AllOver
      /\ pc[c] = "spawn" => lastRun = None
  BY <1>0, Knows
<1>1. ASSUME Same PROVE WorkersSettled'
  BY <1>1, FilesKept
<1>2. ASSUME NEW r \in Results, Finish(c, r), Same,
             r \in {"stopped", "not_running", "inactive"} => AllOver
      PROVE  Goal
  <2>1. pc'[c] = "idle" /\ result'[c] = r
    BY <1>0, <1>2 DEF Finish
  <2>. QED  BY <1>0, <1>1, <1>2, <2>1, Reports, KnowledgeStays
<1>3. ASSUME NEW command \in Commands, Begin(c, command) PROVE Goal
  <2>1. Same /\ pc'[c] = "read" /\ result'[c] = "none"
    BY <1>0, <1>3 DEF Begin, processes
  <2>2. \A w \in Workers : worker[w] \notin {"checking", "locking"}
    BY <1>3 DEF Begin, Alive
  <2>. QED  BY <1>1, <2>1, <2>2 DEF CommandSettled
<1>4. CASE ReadRuntime(c)
  <2>1. /\ Same /\ UNCHANGED result
        /\ pc[c] = "read" /\ reg'[c] = registration
        /\ pc'[c] = IF registration = None THEN "unlink" ELSE "probe"
    BY <1>0, <1>4 DEF ReadRuntime, processes
  <2>2. \A w \in Workers : ~Over(w) => registration = w
    BY <1>0, <1>k, <2>1 DEF NothingStarts, WorkersSettled, ActiveIsRegistered, Over, WorkerStates
  <2>3. registration = None => AllOver
    BY <1>0, <2>2 DEF AllOver
  <2>4. registration # None => KnowsActive(reg[c])'
    BY <1>0, <2>1, <2>2 DEF TypeOK, Over, KnowsActive
  <2>5. NothingStarts' /\ (registration = None => AllOver')
    BY <1>k, <2>1, <2>3, KnowledgeStays
  <2>. QED  BY <1>0, <1>1, <2>1, <2>4, <2>5, GoesOn
<1>5. CASE Probe(c)
  <2>1. /\ Same /\ UNCHANGED <<result, reg>> /\ pc[c] = "probe"
        /\ \/ ~Alive(reg[c]) /\ pc'[c] = "unlink"
           \/ Alive(reg[c]) /\ pc'[c] = "matched"
    BY <1>0, <1>5, ProbeIsRight DEF Probe, ProcessMatches, TakeProbe, processes
  <2>2. pc'[c] = "unlink" => AllOver
    BY <1>0, <2>1, ProbeIsRight
  <2>3. KnowsActive(reg[c])'
    BY <1>k, <2>1 DEF KnowsActive, Over
  <2>. QED  BY <1>0, <1>1, <1>k, <2>1, <2>2, <2>3, GoesOn, KnowledgeStays
<1>6. CASE UnlinkRuntime(c)
  <2>1. /\ UNCHANGED <<worker, lastRun, result>> /\ pc[c] = "unlink" /\ pc'[c] = "absent"
    BY <1>0, <1>6 DEF UnlinkRuntime, processes
  <2>2. WorkersSettled'
    BY <1>k, <2>1, FilesRemoved
  <2>. QED  BY <1>0, <1>k, <2>1, <2>2, GoesOn, KnowledgeStays
<1>7. CASE ReportStatus(c)
  <2>1. /\ Same
        /\ \/ Finish(c, "running")
           \/ pc[c] = "absent" /\ Finish(c, "inactive")
    BY <1>7 DEF ReportStatus, processes
  <2>. QED  BY <1>2, <1>k, <2>1 DEF Results
<1>8. CASE PollAgain(c)
  <2>1. Same /\ UNCHANGED result /\ pc[c] = "matched" /\ pc'[c] = "read"
    BY <1>0, <1>8 DEF PollAgain, processes
  <2>. QED  BY <1>0, <1>1, <1>k, <2>1, GoesOn, KnowledgeStays
<1>9. CASE WaitTimesOut(c)
  BY <1>2, <1>9 DEF WaitTimesOut, processes, Results
<1>10. CASE ReportLastRun(c)
  <2>1. (IF lastRun = None THEN "no_result" ELSE lastRun.status)
          \in {"no_result", "completed", "failed"}
    BY <1>0 DEF TypeOK
  <2>2. Same /\ Finish(c, IF lastRun = None THEN "no_result" ELSE lastRun.status)
    BY <1>10 DEF ReportLastRun, processes
  <2>. QED  BY <1>2, <2>1, <2>2 DEF Results
<1>11. CASE RefuseStart(c)
  BY <1>2, <1>11 DEF RefuseStart, processes, Results
<1>12. CASE ClearPreviousRun(c)
  <2>1. /\ UNCHANGED <<worker, result>> /\ pc[c] = "absent" /\ pc'[c] = "spawn"
        /\ lastRun' = None
    BY <1>0, <1>12 DEF ClearPreviousRun, processes
  <2>2. WorkersSettled'
    BY <1>k, <2>1, FilesRemoved
  <2>. QED  BY <1>0, <1>k, <2>1, <2>2, GoesOn, KnowledgeStays
<1>13. CASE PreflightFails(c)
  BY <1>2, <1>13 DEF PreflightFails, processes, Results
<1>14. CASE Spawn(c)
  <2>1. PICK w \in Fresh : /\ \A v \in Fresh : w <= v
                           /\ worker' = [worker EXCEPT ![w] = "checking"]
                           /\ reg' = [reg EXCEPT ![c] = w]
    BY <1>14 DEF Spawn
  <2>2. /\ UNCHANGED <<files, result>> /\ pc[c] = "spawn" /\ pc'[c] = "register"
        /\ w \in Workers /\ w \in setting.workers /\ worker[w] = "none" /\ reg'[c] = w
        /\ worker'[w] = "checking" /\ \A v \in Workers \ {w} : worker'[v] = worker[v]
    BY <1>0, <1>14, <2>1 DEF Spawn, Fresh
  <2>3. \A v \in Workers : worker[v] # "none" => v < w
    BY <1>k, <2>2 DEF WorkersSettled, InOrder
  <2>4. \A v \in setting.workers : worker'[v] = "none" => w < v
    <3>1. \A v \in setting.workers : worker'[v] = "none" => v \in Fresh /\ v # w
      BY <1>0, <2>2 DEF Fresh
    <3>2. w \in Nat /\ \A v \in setting.workers : v \in Nat
      BY <1>0, <2>2, WorkerAssumption
    <3>. QED  BY <2>1, <3>1, <3>2
  <2>5. \A v \in Workers : ~Over(v)' => v = w
    BY <1>k, <2>2 DEF AllOver, Over
  <2>6. w \in Latest'
    <3>1. \A v \in Workers : v > w => worker'[v] = "none"
      <4>1. \A v \in Workers : v > w => ~(v < w) /\ v # w
        BY <2>2, WorkerAssumption
      <4>. QED  BY <2>2, <2>3, <4>1
    <3>. QED  BY <2>2, <3>1 DEF Latest
  <2>7. WorkersSettled'
    <3>1. InOrder'
      <4>1. ASSUME NEW v \in Workers, worker'[v] # "none"
            PROVE  /\ v \in setting.workers
                   /\ \A u \in setting.workers : worker'[u] = "none" => v < u
        <5>1. CASE v = w
          BY <2>2, <2>4, <5>1
        <5>2. CASE v # w
          <6>1. \A u \in setting.workers : worker'[u] = "none" => worker[u] = "none"
            BY <1>0, <2>2
          <6>. QED  BY <1>k, <2>2, <4>1, <5>2, <6>1 DEF WorkersSettled, InOrder
        <5>. QED  BY <5>1, <5>2
      <4>. QED  BY <4>1 DEF InOrder
    <3>2. OneActive' /\ ActiveIsLatest'
      BY <2>5, <2>6 DEF OneActive, ActiveIsLatest
    <3>3. ActiveIsRegistered' /\ PassHasMarker'
      BY <2>2, <2>5 DEF ActiveIsRegistered, PassHasMarker, Over
    <3>4. LastRunIsLatest'
      BY <1>k, <2>2 DEF LastRunIsLatest, files
    <3>. QED  BY <3>1, <3>2, <3>3, <3>4 DEF WorkersSettled
  <2>8. KnowsActive(reg[c])'
    BY <2>2, <2>5 DEF KnowsActive
  <2>. QED  BY <1>0, <2>2, <2>7, <2>8, GoesOn
<1>15. CASE Register(c)
  <2>1. /\ UNCHANGED <<worker, lastRun, marker, result>> /\ pc[c] = "register" /\ pc'[c] = "await"
        /\ registration' = reg[c]
    BY <1>0, <1>15 DEF Register, processes
  <2>2. WorkersSettled'
    BY <1>k, <2>1 DEF WorkersSettled, InOrder, OneActive, ActiveIsLatest, ActiveIsRegistered,
       LastRunIsLatest, PassHasMarker, KnowsActive, Over, Latest
  <2>. QED  BY <1>0, <2>1, <2>2, GoesOn
<1>16. CASE AwaitLock(c)
  <2>1. Same /\ \/ Finish(c, "started")
                \/ pc[c] = "await" /\ pc'[c] = "poll" /\ UNCHANGED result
    BY <1>0, <1>16 DEF AwaitLock, processes
  <2>2. CASE Finish(c, "started")
    BY <1>2, <2>1, <2>2 DEF Results
  <2>3. CASE pc[c] = "await" /\ pc'[c] = "poll" /\ UNCHANGED result
    BY <1>0, <1>1, <2>1, <2>3, GoesOn
  <2>. QED  BY <2>1, <2>2, <2>3
<1>17. CASE PollChild(c)
  <2>1. Same /\ \/ Finish(c, "exited")
                \/ pc[c] = "poll" /\ pc'[c] = "await" /\ UNCHANGED result
    BY <1>0, <1>17 DEF PollChild, processes
  <2>2. CASE Finish(c, "exited")
    BY <1>2, <2>1, <2>2 DEF Results
  <2>3. CASE pc[c] = "poll" /\ pc'[c] = "await" /\ UNCHANGED result
    BY <1>0, <1>1, <2>1, <2>3, GoesOn
  <2>. QED  BY <2>1, <2>2, <2>3
<1>18. CASE StopAwaiting(c)
  BY <1>2, <1>18 DEF StopAwaiting, processes, Results
<1>19. CASE StopFindsNothing(c)
  BY <1>2, <1>k, <1>19 DEF StopFindsNothing, processes, Results
<1>20. CASE Signal(c)
  <2>1. pc[c] = "matched" /\ UNCHANGED <<worker, lastRun, marker, reg>>
    BY <1>20 DEF Signal
  <2>2. CASE Alive(reg[c])
    <3>1. Same /\ UNCHANGED result /\ pc'[c] = "waiting"
      BY <1>0, <1>20, <2>2 DEF Signal, files
    <3>2. KnowsActive(reg[c])' /\ NothingStarts'
      BY <1>k, <2>1 DEF KnowsActive, NothingStarts, Over
    <3>. QED  BY <1>0, <1>1, <2>1, <3>1, <3>2, GoesOn
  <2>3. CASE ~Alive(reg[c])
    <3>1. AllOver /\ Finish(c, "not_running")
      BY <1>0, <1>20, <2>1, <2>3, ProbeIsRight DEF Signal
    <3>2. WorkersSettled' /\ AllOver'
      BY <2>1, <3>1, FilesRemoved
    <3>3. pc'[c] = "idle"
      BY <1>0, <3>1 DEF Finish
    <3>. QED  BY <1>0, <3>2, <3>3, Reports
  <2>. QED  BY <2>2, <2>3
<1>21. CASE AwaitStop(c)
  <2>1. /\ Same /\ UNCHANGED <<result, reg>> /\ pc[c] = "waiting"
        /\ \/ ~Alive(reg[c]) /\ pc'[c] = "stopped"
           \/ Alive(reg[c]) /\ pc'[c] = "waiting"
    BY <1>0, <1>21, ProbeIsRight DEF AwaitStop, ProcessMatches, TakeProbe, processes
  <2>2. pc'[c] = "stopped" => AllOver
    BY <1>0, <2>1, ProbeIsRight
  <2>3. KnowsActive(reg[c])'
    BY <1>k, <2>1 DEF KnowsActive, Over
  <2>. QED  BY <1>0, <1>1, <1>k, <2>1, <2>2, <2>3, GoesOn, KnowledgeStays
<1>22. CASE KillHung(c)
  <2>1. /\ worker' = [worker EXCEPT ![reg[c]] = "dead"] /\ UNCHANGED <<files, result>>
        /\ pc[c] = "waiting" /\ pc'[c] = "stopped" /\ Alive(reg[c])
    BY <1>0, <1>22 DEF KillHung, Vanish
  <2>2. /\ reg[c] \in Workers /\ worker'[reg[c]] = "dead" /\ worker[reg[c]] # "none"
        /\ \A v \in Workers \ {reg[c]} : worker'[v] = worker[v]
    BY <1>0, <1>k, <2>1 DEF KnowsActive, Alive
  <2>3. AllOver' /\ NothingStarts'
    BY <1>k, <2>1, <2>2 DEF KnowsActive, NothingStarts, AllOver, Over
  <2>4. Latest' = Latest
    BY <2>2 DEF Latest
  <2>5. InOrder'
    <3>1. \A v \in Workers : worker'[v] = "none" <=> worker[v] = "none"
      BY <2>2
    <3>. QED  BY <1>0, <1>k, <3>1 DEF WorkersSettled, InOrder
  <2>6. WorkersSettled'
    BY <1>k, <2>1, <2>3, <2>4, <2>5 DEF WorkersSettled, OneActive, ActiveIsLatest,
       ActiveIsRegistered, LastRunIsLatest, PassHasMarker, AllOver, Over, files
  <2>. QED  BY <1>0, <2>1, <2>3, <2>6, GoesOn
<1>23. CASE ForgetStopped(c)
  <2>1. /\ UNCHANGED <<worker, lastRun>> /\ pc[c] = "stopped" /\ Finish(c, "stopped")
    BY <1>23 DEF ForgetStopped, processes
  <2>2. WorkersSettled' /\ AllOver'
    BY <1>k, <2>1, FilesRemoved
  <2>3. pc'[c] = "idle"
    BY <1>0, <2>1 DEF Finish
  <2>. QED  BY <1>0, <2>2, <2>3, Reports
<1>24. CASE ReleaseProbe(c)
  <2>1. Same /\ UNCHANGED <<pc, op, reg, result>>
    BY <1>24 DEF ReleaseProbe, processes, locals
  <2>2. CommandSettled(c)
    BY <1>0 DEF SettledInv
  <2>. QED  BY <1>1, <2>1, <2>2 DEF CommandSettled, AllOver, Over, files
<1>25. CASE CommandKilled(c)
  BY <1>2, <1>25 DEF CommandKilled, processes, Results
<1>. HIDE DEF Goal
<1>. QED  BY <1>3, <1>4, <1>5, <1>6, <1>7, <1>8, <1>9, <1>10, <1>11, <1>12, <1>13, <1>14, <1>15,
             <1>16, <1>17, <1>18, <1>19, <1>20, <1>21, <1>22, <1>23, <1>24, <1>25
          DEF CommandStep, Goal

-----------------------------------------------------------------------------
(* Theorems.                                                               *)

\* IInv holds in every reachable state: workers inside hold the lock, CLIs
\* work for workers in a pass.
THEOREM WorkerInvariance == Spec => []IInv
<1>1. Init => IInv
  BY InitType DEF Init, IInv, InsideHoldsLock, TurnsInPass, Inside
<1>2. IInv /\ [Next]_vars => IInv'
  <2>1. CASE UNCHANGED vars
    BY <2>1 DEF vars, IInv, TypeOK, InsideHoldsLock, TurnsInPass
  <2>2. ASSUME IInv, Next PROVE IInv'
    BY <2>2, Steps, CommandType, WorkerType, CommandExclusion, WorkerExclusion DEF IInv
  <2>. QED  BY <2>1, <2>2
<1>. QED  BY <1>1, <1>2, PTL DEF Spec

\* Every variable keeps its type.
THEOREM WorkerTypeCorrect == Spec => []TypeOK
BY WorkerInvariance, PTL DEF IInv

\* Whatever commands race and whatever is killed, two workers of an agent are
\* never past hold_worker_lock together.
THEOREM WorkersExclude == Spec => []MutualExclusion
<1>1. IInv => MutualExclusion
  BY DEF IInv, InsideHoldsLock, MutualExclusion
<1>. QED  BY <1>1, WorkerInvariance, PTL

\* While no worker is killed past its handler, at most one CLI works in the
\* agent's workspace.
THEOREM CLIsExclude == Spec => []OneTurn
<1>1. IInv => OneTurn
  <2>1. SUFFICES ASSUME IInv, setting.faults \cap {"crash", "hang"} = {}
                 PROVE  Cardinality(turns) <= 1
    BY DEF OneTurn
  <2>2. \A v, w \in turns : v = w
    BY <2>1 DEF IInv, TypeOK, InsideHoldsLock, TurnsInPass, Inside
  <2>3. CASE turns = {}
    BY <2>3, FS_EmptySet
  <2>4. CASE turns # {}
    <3>1. PICK w \in turns : TRUE
      BY <2>4
    <3>2. turns = {w}
      BY <2>2, <3>1
    <3>3. Cardinality({w}) = 1
      BY FS_Singleton
    <3>4. Cardinality(turns) = 1
      BY <3>2, <3>3
    <3>. QED  BY <3>4
  <2>. QED  BY <2>3, <2>4
<1>. QED  BY <1>1, WorkerInvariance, PTL

\* What a patient operator's commands find out about the workers stays so.
THEOREM PatienceInvariance == Spec => [](IInv /\ SettledInv)
<1>1. Init => IInv
  BY InitType DEF Init, IInv, InsideHoldsLock, TurnsInPass, Inside
<1>2. Init => SettledInv
  BY WorkerAssumption DEF Init, SettledInv, WorkersSettled, InOrder, OneActive, ActiveIsLatest,
     ActiveIsRegistered, LastRunIsLatest, PassHasMarker, CommandSettled, Over
<1>3. IInv /\ SettledInv /\ [Next]_vars => IInv' /\ SettledInv'
  <2>1. CASE UNCHANGED vars
    <3>1. IInv => IInv'
      BY <2>1 DEF vars, IInv, TypeOK, InsideHoldsLock, TurnsInPass
    <3>2. SettledInv => SettledInv'
      BY <2>1 DEF vars, SettledInv, WorkersSettled, InOrder, OneActive, ActiveIsLatest,
         ActiveIsRegistered, LastRunIsLatest, PassHasMarker, CommandSettled, AllOver, Over, Latest
    <3>. QED  BY <3>1, <3>2
  <2>2. ASSUME IInv, SettledInv, Next PROVE IInv' /\ SettledInv'
    <3>1. IInv' /\ UNCHANGED setting
      BY <2>2, Steps, CommandType, WorkerType, CommandExclusion, WorkerExclusion DEF IInv
    <3>2. ASSUME setting.settled, NEW c \in setting.callers,
                 \/ \E command \in Commands : Begin(c, command)
                 \/ CommandStep(c) \/ ReleaseProbe(c) \/ CommandKilled(c)
                 \/ WaitTimesOut(c) \/ StopAwaiting(c) \/ KillHung(c)
          PROVE  SettledInv'
      BY <2>2, <3>1, <3>2, CommandSettles, OthersRest DEF SettledInv
    <3>3. ASSUME NEW w \in setting.workers,
                 WorkerStep(w) \/ LockStep(w) \/ Crash(w) \/ OrphanTurnEnds(w)
          PROVE  SettledInv'
      <4>1. w \in Workers
        BY <2>2, SettingsAssumption DEF IInv, TypeOK
      <4>. QED  BY <2>2, <3>1, <3>3, <4>1, WorkerMoves, WorkerSettles DEF IInv
    <3>4. CASE ~setting.settled
      BY <3>1, <3>4 DEF SettledInv
    <3>. QED  BY <2>2, <3>1, <3>2, <3>3, <3>4 DEF Next, Steady
  <2>. QED  BY <2>1, <2>2
<1>. QED  BY <1>1, <1>2, <1>3, PTL DEF Spec

\* A stop that has reported leaves no worker running, an inactive agent has none,
\* and registration, record and marker are the running worker's, as long as the
\* operator lets workers start and exit before the next command: also through crashes, hanging
\* workers and killed commands.
THEOREM PatientOperatorIsTold == Spec => []SettledOperatorIsTold
<1>1. IInv /\ SettledInv => SettledOperatorIsTold
  <2>1. SUFFICES ASSUME IInv, SettledInv, setting.settled
                 PROVE  /\ StopMeansStopped /\ StatusTruthful /\ RunningIsRegistered
                        /\ LastRunIsLatest /\ PassHasMarker
    BY DEF SettledOperatorIsTold
  <2>2. WorkersSettled /\ \A c \in Callers : CommandSettled(c)
    BY <2>1 DEF SettledInv
  <2>3. StopMeansStopped /\ StatusTruthful
    BY <2>2 DEF CommandSettled, StopMeansStopped, StatusTruthful, AllOver, Over
  <2>. QED  BY <2>2, <2>3 DEF WorkersSettled, ActiveIsRegistered, RunningIsRegistered
<1>. QED  BY <1>1, PatienceInvariance, PTL
=============================================================================
