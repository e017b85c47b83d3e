---------------------------- MODULE AgentRoster ----------------------------
(***************************************************************************)
(* The configured agents of a research team and the commands that change   *)
(* them (new, retarget, retire, start, stop) in                            *)
(* research_team/controller.py.  Prompt files change under the state lock  *)
(* only; workers are spawned, stopped and read their prompts outside it.   *)
(* AgentWorker and AgentPass have the worker's inside.                     *)
(***************************************************************************)
EXTENDS Naturals, FiniteSets

CONSTANTS
  Callers,   \* command processes
  Names,     \* agent names
  Prompts,   \* prompt texts: records with workspace, role and mode
  Commands,  \* the commands
  Cap,       \* agent_cap of config.json
  Teams,     \* how the team may be operated, one of them per behaviour
  Nothing

ASSUME RosterAssumption ==
  /\ Cap \in Nat
  /\ IsFiniteSet(Callers)
  /\ \A p \in Prompts : p.mode \in {"continuous", "oneshot"}
  /\ Nothing \notin Prompts \cup Callers
  /\ Commands \subseteq {"new", "retarget", "retire", "start", "stop"}
  /\ \A s \in Teams : s.commands \subseteq Commands /\ s.prompts \subseteq Prompts

VARIABLES
  team,       \* commands and prompts in use, bounds on callers at once and on
              \* names, whether commands may die between two writes, and the
              \* workspaces that may disappear
  prompts,    \* prompts/NAME.md
  history,    \* prompts.history: texts archived per name
  disabled,   \* prompts.disabled: texts of retired agents
  keys,       \* names with an identity key
  folders,    \* workspace directories that exist
  stateLock,  \* holder of the flock on controller.lock
  worker,     \* "down", "idle" between passes or "pass"
  workspace,  \* the workspace of the pass a worker runs
  pc, op, name, text,  \* the command each caller runs, with its arguments
  operative   \* every text that was ever the prompt of a name

disk == <<team, prompts, history, disabled, keys, folders>>
workers == <<worker, workspace>>
args == <<op, name, text>>
rosterVars == <<team, prompts, history, disabled, keys, folders, stateLock, worker, workspace, pc, op,
                name, text, operative>>

Workspaces == {p.workspace : p \in Prompts}
Configured == {n \in Names : prompts[n] # Nothing}

\* parse_prompt as far as it depends on more than the text.
Parses(p) == p.workspace \in folders

RosterInit ==
  /\ team \in Teams
  /\ prompts = [n \in Names |-> Nothing]
  /\ history = [n \in Names |-> {}] /\ disabled = [n \in Names |-> {}]
  /\ keys = {} /\ folders = Workspaces
  /\ stateLock = Nothing
  /\ worker = [n \in Names |-> "down"] /\ workspace = [n \in Names |-> Nothing]
  /\ pc = [c \in Callers |-> "idle"] /\ op = [c \in Callers |-> Nothing]
  /\ name = [c \in Callers |-> Nothing] /\ text = [c \in Callers |-> Nothing]
  /\ operative = [n \in Names |-> {}]

---------------------------------------------------------------------------
(* Commands.                                                               *)

Goto(c, step) == pc' = [pc EXCEPT ![c] = step] /\ UNCHANGED args
Finish(c) ==
  /\ pc' = [pc EXCEPT ![c] = "idle"]
  /\ op' = [op EXCEPT ![c] = Nothing]
  /\ name' = [name EXCEPT ![c] = Nothing]
  /\ text' = [text EXCEPT ![c] = Nothing]

\* The bounds: callers at once, and names ever used.
Room(c, n) ==
  /\ Cardinality({d \in Callers : pc[d] # "idle"}) < team.callers
  /\ Cardinality({m \in Names : operative[m] # {}} \cup {name[d] : d \in Callers} \cup {n})
       <= team.names + 1

\* Before any lock: new parses its file; the others require the agent, and
\* retarget and start parse too.  Repository access is assumed.
Begin(c, command, n, p) ==
  /\ pc[c] = "idle" /\ Room(c, n)
  /\ command \in {"new", "retarget"} => Parses(p)
  /\ command # "new" => prompts[n] # Nothing
  /\ command = "start" => Parses(prompts[n])
  /\ op' = [op EXCEPT ![c] = command]
  /\ name' = [name EXCEPT ![c] = n]
  /\ text' = [text EXCEPT ![c] = p]
  /\ pc' = [pc EXCEPT ![c] = IF command \in {"new", "retarget"} THEN "locking"
                             ELSE IF command = "start" THEN "spawning" ELSE "stopping"]
  /\ UNCHANGED <<disk, stateLock, workers, operative>>

\* controller.lock is taken shared.
TakeSharedLock(c) ==
  /\ pc[c] = "locking"
  /\ stateLock' = c
  /\ Goto(c, op[c])
  /\ UNCHANGED <<disk, workers, operative>>

TakeStateLock(c) ==
  /\ pc[c] = "locking" /\ stateLock = Nothing
  /\ stateLock' = c
  /\ Goto(c, op[c])
  /\ UNCHANGED <<disk, workers, operative>>

Refuse(c) ==
  /\ stateLock' = Nothing
  /\ Finish(c)
  /\ UNCHANGED <<disk, workers, operative>>

\* ensure_workspace_is_exclusive and ensure_impact_assessor_is_unique parse
\* every other configured prompt, whatever is wrong with it.
Exclusive(n, p) ==
  \A other \in Configured \ {n} :
    /\ Parses(prompts[other])
    /\ prompts[other].workspace # p.workspace
    /\ p.role = "impact-assessor" => prompts[other].role # "impact-assessor"

CanCreate(n, p) ==
  /\ prompts[n] = Nothing
  /\ Cardinality(Configured) < Cap
  /\ Exclusive(n, p)

WritePrompt(n, p) ==
  /\ prompts' = [prompts EXCEPT ![n] = p]
  /\ operative' = [operative EXCEPT ![n] = @ \cup {p}]

CheckNew(c) ==
  /\ pc[c] = "new" /\ CanCreate(name[c], text[c])
  /\ Goto(c, "create")
  /\ UNCHANGED <<disk, stateLock, workers, operative>>

Create(c) ==
  /\ pc[c] = "create"
  /\ WritePrompt(name[c], text[c])
  /\ Goto(c, "key")
  /\ UNCHANGED <<team, history, disabled, keys, folders, stateLock, workers>>

RefuseNew(c) == pc[c] = "new" /\ ~CanCreate(name[c], text[c]) /\ Refuse(c)

\* generate_key keeps a key that is there.
GenerateKey(c) ==
  /\ pc[c] = "key"
  /\ keys' = keys \cup {name[c]}
  /\ stateLock' = Nothing
  /\ IF text[c].mode = "continuous" THEN Goto(c, "spawning") ELSE Finish(c)
  /\ UNCHANGED <<team, prompts, history, disabled, folders, workers, operative>>

\* spawn_worker: no second worker, and the prompt must be there and parse.
Spawn(c) ==
  /\ pc[c] = "spawning"
  /\ IF worker[name[c]] = "down" /\ prompts[name[c]] # Nothing /\ Parses(prompts[name[c]])
       THEN worker' = [worker EXCEPT ![name[c]] = "idle"] /\ Finish(c)
       ELSE UNCHANGED worker /\ Finish(c)
  /\ UNCHANGED <<disk, stateLock, workspace, operative>>

CanRetarget(n, p) == prompts[n] # Nothing /\ Exclusive(n, p)

\* retarget archives what it has just written.
ArchiveReplacement(c) ==
  /\ pc[c] = "retarget" /\ CanRetarget(name[c], text[c])
  /\ history' = [history EXCEPT ![name[c]] = @ \cup {text[c]}]
  /\ Goto(c, "replace")
  /\ UNCHANGED <<team, prompts, disabled, keys, folders, stateLock, workers, operative>>

\* Reading the current text fails when the agent was retired meanwhile.
Archive(c) ==
  /\ pc[c] = "retarget" /\ CanRetarget(name[c], text[c])
  /\ history' = [history EXCEPT ![name[c]] = @ \cup {prompts[name[c]]}]
  /\ Goto(c, "replace")
  /\ UNCHANGED <<team, prompts, disabled, keys, folders, stateLock, workers, operative>>

Replace(c) ==
  /\ pc[c] = "replace"
  /\ WritePrompt(name[c], text[c])
  /\ stateLock' = Nothing
  /\ Finish(c)
  /\ UNCHANGED <<team, history, disabled, keys, folders, workers>>

RefuseRetarget(c) == pc[c] = "retarget" /\ ~CanRetarget(name[c], text[c]) /\ Refuse(c)

\* A running pass is left to end by itself.
StopBetweenPasses(c) ==
  /\ pc[c] = "stopping"
  /\ worker' = [worker EXCEPT ![name[c]] = IF @ = "pass" THEN "pass" ELSE "down"]
  /\ UNCHANGED workspace
  /\ IF op[c] = "retire" THEN Goto(c, "locking") ELSE Finish(c)
  /\ UNCHANGED <<disk, stateLock, operative>>

\* stop_worker, quietly in retire.
StopWorker(c) ==
  /\ pc[c] = "stopping"
  /\ worker' = [worker EXCEPT ![name[c]] = "down"]
  /\ workspace' = [workspace EXCEPT ![name[c]] = Nothing]
  /\ IF op[c] = "retire" THEN Goto(c, "locking") ELSE Finish(c)
  /\ UNCHANGED <<disk, stateLock, operative>>

Disable(c) ==
  /\ pc[c] = "retire" /\ prompts[name[c]] # Nothing
  /\ disabled' = [disabled EXCEPT ![name[c]] = @ \cup {prompts[name[c]]}]
  /\ prompts' = [prompts EXCEPT ![name[c]] = Nothing]
  /\ stateLock' = Nothing
  /\ Finish(c)
  /\ UNCHANGED <<team, history, keys, folders, workers, operative>>

RefuseRetire(c) == pc[c] = "retire" /\ prompts[name[c]] = Nothing /\ Refuse(c)

\* A command that dies loses its lock with its descriptor.
CommandDies(c) ==
  /\ team.crashes /\ pc[c] # "idle"
  /\ stateLock' = IF stateLock = c THEN Nothing ELSE stateLock
  /\ Finish(c)
  /\ UNCHANGED <<disk, workers, operative>>

---------------------------------------------------------------------------
(* Workers and the host.                                                   *)

\* A pass runs in the workspace of the prompt as it is when the pass starts;
\* without a prompt that parses the worker ends.
StartPass(n) ==
  /\ worker[n] = "idle"
  /\ IF prompts[n] # Nothing /\ Parses(prompts[n])
       THEN /\ worker' = [worker EXCEPT ![n] = "pass"]
            /\ workspace' = [workspace EXCEPT ![n] = prompts[n].workspace]
       ELSE worker' = [worker EXCEPT ![n] = "down"] /\ UNCHANGED workspace
  /\ UNCHANGED <<disk, stateLock, pc, args, operative>>

FinishPass(n) ==
  /\ worker[n] = "pass"
  /\ worker' = [worker EXCEPT ![n] = "idle"]
  /\ workspace' = [workspace EXCEPT ![n] = Nothing]
  /\ UNCHANGED <<disk, stateLock, pc, args, operative>>

RemoveFolder(folder) ==
  /\ folder \in folders
  /\ folders' = folders \ {folder}
  /\ UNCHANGED <<team, prompts, history, disabled, keys, stateLock, workers, pc, args, operative>>

RosterNext ==
  \/ \E c \in Callers :
       \/ \E n \in Names, p \in team.prompts, command \in team.commands : Begin(c, command, n, p)
       \/ TakeStateLock(c) \/ CheckNew(c) \/ Create(c) \/ RefuseNew(c) \/ GenerateKey(c) \/ Spawn(c)
       \/ Archive(c) \/ Replace(c) \/ RefuseRetarget(c)
       \/ StopWorker(c) \/ Disable(c) \/ RefuseRetire(c) \/ CommandDies(c)
  \/ \E n \in Names : StartPass(n) \/ FinishPass(n)
  \/ \E folder \in team.fragile : RemoveFolder(folder)

RosterSpec == RosterInit /\ [][RosterNext]_rosterVars

---------------------------------------------------------------------------
(* Properties.                                                             *)

RosterTypeOK ==
  /\ team \in Teams
  /\ prompts \in [Names -> Prompts \cup {Nothing}]
  /\ history \in [Names -> SUBSET Prompts] /\ disabled \in [Names -> SUBSET Prompts]
  /\ operative \in [Names -> SUBSET Prompts]
  /\ keys \subseteq Names /\ folders \subseteq Workspaces
  /\ stateLock \in Callers \cup {Nothing}
  /\ worker \in [Names -> {"down", "idle", "pass"}]
  /\ workspace \in [Names -> Workspaces \cup {Nothing}]
  /\ pc \in [Callers -> {"idle", "locking", "new", "create", "key", "spawning", "retarget", "replace",
                         "stopping", "retire"}]
  /\ op \in [Callers -> Commands \cup {Nothing}]
  /\ name \in [Callers -> Names \cup {Nothing}] /\ text \in [Callers -> Prompts \cup {Nothing}]

\* However commands race, no two configured agents have one workspace, one
\* impact assessor is configured at most, and the cap holds.
RosterIsSound ==
  /\ Cardinality(Configured) <= Cap
  /\ \A m, n \in Configured : m # n =>
       /\ prompts[m].workspace # prompts[n].workspace
       /\ {prompts[m].role, prompts[n].role} # {"impact-assessor"}

\* No prompt is lost: each text that was ever operative is still operative,
\* archived or among the retired, also after a crash in the middle.
PromptsPreserved ==
  \A n \in Names : operative[n] \subseteq history[n] \cup disabled[n] \cup {prompts[n]}

\* Two passes never run in one workspace ("The controller rejects sharing a
\* workspace between active agents").
PassesExclusive ==
  \A m, n \in Names : worker[m] = "pass" /\ worker[n] = "pass" /\ workspace[m] = workspace[n] => m = n

\* Without retarget, and with one command at a time, the promise holds: a
\* workspace is free only once no pass runs in it.  A start between the two
\* steps of a retire would leave a pass behind.
ExclusiveUnlessMoved ==
  team.callers = 1 /\ "retarget" \notin team.commands => PassesExclusive

\* With one command at a time a retired agent has no worker: its workspace is
\* free for the next agent.
RetiredIsStopped ==
  team.callers = 1 => \A n \in Names : prompts[n] = Nothing => worker[n] = "down"

\* A workspace given to an agent is its own.
WorkspacesAreFree == ExclusiveUnlessMoved /\ RetiredIsStopped

=============================================================================
