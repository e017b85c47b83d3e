---------------------------- MODULE CometBFTHome ----------------------------
(***************************************************************************)
(* The persistent home of one CometBFT process and the commands that make  *)
(* it, bind it to a network and start it, which may race and be killed     *)
(* anywhere (node/runtime): initialize-validator, export-validator,        *)
(* create-genesis, install-genesis and the launcher of discovery-cometbft. *)
(*                                                                         *)
(* A home is made in a staging directory nobody else looks at and renamed  *)
(* into place.  A killed command leaves its staging directory behind; its  *)
(* name is never used again.  A power loss keeps what was synced, and may  *)
(* keep what was not.  A genesis document is the set of its validators.    *)
(***************************************************************************)
EXTENDS Naturals, FiniteSets

CONSTANTS
  Command,      \* the processes that run commands, one after the other
  Key,          \* validator keys
  PeerKeys,     \* keys of the network's other validators, already exported
  Path,         \* where create-genesis writes
  Settings,     \* launch settings
  MaxCommands,  \* bound: commands started on the home
  MaxKilled,    \* bound: commands or CometBFT processes killed
  MaxLosses     \* bound: power losses

ASSUME PeersHaveKeys == PeerKeys \subseteq Key

VARIABLES
  home,         \* what every process sees at the home's path
  onDisk,       \* what a power loss leaves of it for certain
  command,      \* what each process is doing
  homeLock,     \* holder of .HOME.initialize.lock
  made,         \* keys generated so far, also those no home kept
  descriptors,  \* exported public keys
  genesis,      \* the genesis file at each path
  cometbft,     \* the process that is now CometBFT
  promises,     \* what commands reported to their operators
  signatures,   \* which key signed in which network
  started, killed, losses  \* counters

homeVars == <<home, onDisk, command, homeLock, made, descriptors, genesis, cometbft,
              promises, signatures, started, killed, losses>>

-----------------------------------------------------------------------------
(* Homes and documents.                                                    *)

\* The genesis cometbft init writes by itself, and the one that waits for its network.
Template == [kind |-> "template", members |-> {}]
Unbound  == [kind |-> "unbound", members |-> {}]
NoFile   == [kind |-> "absent", members |-> {}]
Document == [kind : {"formed"}, members : SUBSET Key \ {{}}]

NoHome == [kind |-> "absent"]
Home == [key : Key, genesis : Document \cup {Template, Unbound}, config : Settings \cup {"default"},
         synced : BOOLEAN, runtime : BOOLEAN, signed : BOOLEAN]

\* What cometbft init leaves in an empty directory.
Initialized(k) == [key |-> k, genesis |-> Template, config |-> "default",
                   synced |-> FALSE, runtime |-> FALSE, signed |-> FALSE]

\* Files that never reached the disk.
Torn(h) == IF h # NoHome /\ ~h.synced THEN [h EXCEPT !.genesis = Template] ELSE h

NoCommand == "none"

ASSUME CommandsAreNamed == NoCommand \notin Command

Idle == [op |-> "none", at |-> "idle", path |-> "none", genesis |-> NoFile,
         config |-> "default", staging |-> NoHome]

\* A home is pristine while its key never signed, unstarted while CometBFT
\* created nothing beside the signing state.
Pristine(h) == ~h.signed
Unstarted(h) == ~h.runtime

HomeInit ==
  /\ home = NoHome /\ onDisk = NoHome
  /\ command = [p \in Command |-> Idle]
  /\ homeLock = NoCommand
  /\ made = PeerKeys /\ descriptors = PeerKeys
  /\ genesis = [path \in Path |-> NoFile]
  /\ cometbft = NoCommand
  /\ promises = {} /\ signatures = {}
  /\ started = 0 /\ killed = 0 /\ losses = 0

\* A file of the home is written and synced before its writer goes on.
Write(file, value) ==
  /\ home' = [home EXCEPT ![file] = value]
  /\ onDisk' = IF onDisk = NoHome THEN NoHome ELSE [onDisk EXCEPT ![file] = value]

\* Operators are told of a home's key, its network, or a file's digest.
Promise(what, subject, document) ==
  promises' = promises \cup {[what |-> what, subject |-> subject, document |-> document]}

-----------------------------------------------------------------------------
(* Commands begin outside the lock.                                        *)

Begin(p, c) ==
  /\ command[p] = Idle
  /\ started < MaxCommands
  /\ started' = started + 1
  /\ command' = [command EXCEPT ![p] = c]
  /\ UNCHANGED <<home, onDisk, homeLock, made, descriptors, genesis, cometbft,
                 promises, signatures, killed, losses>>

\* A home that is there already is refused before the lock, and under it once more.
BeginInitialize(p) ==
  home = NoHome /\ Begin(p, [Idle EXCEPT !.op = "initialize", !.at = "lock", !.genesis = Unbound])

\* The genesis is read once and must be the one the operator trusts.
BeginInstall(p) ==
  \E document \in Document, path \in Path :
    /\ genesis[path] = document
    /\ Begin(p, [Idle EXCEPT !.op = "install", !.at = "lock", !.genesis = document])

BeginStart(p) ==
  \E document \in Document, path \in Path, settings \in Settings :
    /\ genesis[path] = document
    /\ Begin(p, [Idle EXCEPT !.op = "start", !.at = "lock", !.genesis = document,
                             !.config = settings])

\* The path is looked at before CometBFT is asked for a template.
BeginCreate(p) ==
  \E path \in Path, members \in SUBSET descriptors \ {{}} :
    /\ genesis[path] = NoFile
    /\ Begin(p, [Idle EXCEPT !.op = "create", !.at = "form", !.path = path,
                             !.genesis = [kind |-> "formed", members |-> members]])

\* export-validator reads the identity, without the lock.
ExportValidator ==
  /\ home # NoHome /\ Pristine(home)
  /\ descriptors' = descriptors \cup {home.key}
  /\ UNCHANGED <<home, onDisk, command, homeLock, made, genesis, cometbft,
                 promises, signatures, started, killed, losses>>

-----------------------------------------------------------------------------
(* Steps of a running command.                                             *)

At(p, op, at) == command[p].op \in op /\ command[p].at = at

Goto(p, at) == command' = [command EXCEPT ![p].at = at]

\* The command ends and gives the lock back.
End(p) == /\ command' = [command EXCEPT ![p] = Idle]
          /\ homeLock' = IF homeLock = p THEN NoCommand ELSE homeLock

\* What the steps of a command leave alone.
others == <<descriptors, signatures, started, killed, losses>>

LockHome(p) ==
  /\ command[p].at = "lock" /\ homeLock = NoCommand
  /\ homeLock' = p
  /\ Goto(p, "locked")
  /\ UNCHANGED <<home, onDisk, made, genesis, cometbft, promises, others>>

\* As Installable, for any home that waits for its network, started or not.
InstallableOnceStarted(h, document) ==
  /\ h # NoHome
  /\ h.key \in document.members
  /\ h.genesis \in {document, Unbound}

\* install-genesis takes an unstarted home that the genesis lists and that
\* waits for its network, or is in it.
Installable(h, document) ==
  /\ h # NoHome
  /\ Unstarted(h) /\ Pristine(h)
  /\ h.key \in document.members
  /\ h.genesis \in {document, Unbound}

\* Under the lock: what is there already or belongs to another network is
\* refused, and a home whose configuration cannot be applied is not started.
Refuse(p) ==
  /\ \/ At(p, {"initialize"}, "locked") /\ home # NoHome
     \/ At(p, {"install"}, "locked") /\ ~Installable(home, command[p].genesis)
     \/ At(p, {"start"}, "locked") /\ home # NoHome
  /\ End(p)
  /\ UNCHANGED <<home, onDisk, made, genesis, cometbft, promises, others>>

\* cometbft init, in a directory of its own, makes a key that was never there;
\* keys are alike.
Stage(p) ==
  /\ At(p, {"initialize", "start"}, "locked") /\ home = NoHome /\ made # Key
  /\ LET k == CHOOSE key \in Key : key \notin made
     IN  /\ made' = made \cup {k}
         /\ command' = [command EXCEPT ![p].at = "staged", ![p].staging = Initialized(k)]
  /\ UNCHANGED <<home, onDisk, homeLock, genesis, cometbft, promises, others>>

\* The genesis, and for a start the configuration, replace what init wrote.
Complete(p) ==
  /\ At(p, {"initialize", "start"}, "staged")
  /\ command[p].staging.key \notin command[p].genesis.members
  /\ command' = [command EXCEPT ![p].at = "completed",
                                ![p].staging.genesis = command[p].genesis,
                                ![p].staging.config = command[p].config]
  /\ UNCHANGED <<home, onDisk, homeLock, made, genesis, cometbft, promises, others>>

SyncTree(p) ==
  /\ command[p].at = "completed"
  /\ command' = [command EXCEPT ![p].at = "synced", ![p].staging.synced = TRUE]
  /\ UNCHANGED <<home, onDisk, homeLock, made, genesis, cometbft, promises, others>>

\* Whatever fails before the rename, the staging directory is removed.
StagingFails(p) ==
  /\ command[p].at \in {"staged", "completed", "synced"}
  /\ End(p)
  /\ UNCHANGED <<home, onDisk, made, genesis, cometbft, promises, others>>

\* As Rename, before the tree is synced.
RenameUnsynced(p) ==
  /\ command[p].at = "completed"
  /\ home' = command[p].staging
  /\ Goto(p, "renamed")
  /\ UNCHANGED <<onDisk, homeLock, made, genesis, cometbft, promises, others>>

Rename(p) ==
  /\ command[p].at = "synced"
  /\ home' = command[p].staging
  /\ Goto(p, "renamed")
  /\ UNCHANGED <<onDisk, homeLock, made, genesis, cometbft, promises, others>>

\* The parent is synced: the home stays.  initialize-validator reports it; a
\* start goes on without the lock.
SyncParent(p) ==
  /\ command[p].at = "renamed"
  /\ onDisk' = home
  /\ \/ /\ command[p].op = "initialize"
        /\ Promise("key", home.key, Unbound)
        /\ End(p)
     \/ /\ command[p].op = "start"
        /\ Goto(p, "exec") /\ homeLock' = NoCommand
        /\ UNCHANGED promises
  /\ UNCHANGED <<home, made, genesis, cometbft, others>>

\* install-genesis finds its genesis in place and returns; it syncs nothing.
AlreadyBound(p) ==
  /\ At(p, {"install"}, "locked") /\ Installable(home, command[p].genesis)
  /\ home.genesis = command[p].genesis
  /\ End(p)
  /\ UNCHANGED <<home, onDisk, made, genesis, cometbft, promises, others>>

\* The genesis file is replaced as a whole ...
Bind(p) ==
  /\ At(p, {"install"}, "locked") /\ Installable(home, command[p].genesis)
  /\ home.genesis # command[p].genesis
  /\ home' = [home EXCEPT !.genesis = command[p].genesis]
  /\ Goto(p, "replaced")
  /\ UNCHANGED <<onDisk, homeLock, made, genesis, cometbft, promises, others>>

\* ... and its directory synced.
SyncGenesis(p) ==
  /\ command[p].at = "replaced"
  /\ Write("genesis", home.genesis)
  /\ Promise("network", home.key, home.genesis)
  /\ End(p)
  /\ UNCHANGED <<made, genesis, cometbft, others>>

\* A start of an existing home of the same genesis brings its configuration up
\* to date and leaves the lock.
ApplyConfig(p) ==
  /\ At(p, {"start"}, "locked")
  /\ home # NoHome /\ home.genesis = command[p].genesis
  /\ Write("config", command[p].config)
  /\ Goto(p, "exec") /\ homeLock' = NoCommand
  /\ UNCHANGED <<made, genesis, cometbft, promises, others>>

\* As LinkGenesis, trusting the look before the template.
OverwriteGenesis(p) ==
  /\ At(p, {"create"}, "form")
  /\ genesis' = [genesis EXCEPT ![command[p].path] = command[p].genesis]
  /\ Promise("digest", command[p].path, command[p].genesis)
  /\ End(p)
  /\ UNCHANGED <<home, onDisk, made, cometbft, others>>

\* The formed genesis is linked to a path that must still be free.
LinkGenesis(p) ==
  /\ At(p, {"create"}, "form")
  /\ IF genesis[command[p].path] = NoFile
       THEN /\ genesis' = [genesis EXCEPT ![command[p].path] = command[p].genesis]
            /\ Promise("digest", command[p].path, command[p].genesis)
       ELSE UNCHANGED <<genesis, promises>>
  /\ End(p)
  /\ UNCHANGED <<home, onDisk, made, cometbft, others>>

-----------------------------------------------------------------------------
(* CometBFT: it rechecks the genesis digest it was given and holds its     *)
(* databases for itself.                                                   *)

Exec(p) ==
  /\ command[p].at = "exec"
  /\ IF cometbft = NoCommand /\ home.genesis = command[p].genesis
       THEN /\ cometbft' = p
            /\ Write("runtime", TRUE)
            /\ Goto(p, "running")
       ELSE command' = [command EXCEPT ![p] = Idle] /\ UNCHANGED <<home, onDisk, cometbft>>
  /\ UNCHANGED <<homeLock, made, genesis, promises, others>>

Sign ==
  /\ cometbft # NoCommand
  /\ home.key \in home.genesis.members
  /\ Write("signed", TRUE)
  /\ signatures' = signatures \cup {<<home.key, home.genesis>>}
  /\ UNCHANGED <<command, homeLock, made, descriptors, genesis, cometbft, promises,
                 started, killed, losses>>

StopCometBFT ==
  /\ cometbft # NoCommand
  /\ command' = [command EXCEPT ![cometbft] = Idle]
  /\ cometbft' = NoCommand
  /\ UNCHANGED <<home, onDisk, homeLock, made, genesis, promises, others>>

-----------------------------------------------------------------------------
(* Faults.                                                                 *)

Kill(p) ==
  /\ command[p] # Idle /\ killed < MaxKilled
  /\ End(p)
  /\ cometbft' = IF cometbft = p THEN NoCommand ELSE cometbft
  /\ killed' = killed + 1
  /\ UNCHANGED <<home, onDisk, made, descriptors, genesis, promises, signatures, started, losses>>

PowerLoss ==
  /\ losses < MaxLosses
  /\ home' \in {onDisk, Torn(home)}
  /\ onDisk' = home'
  /\ command' = [p \in Command |-> Idle]
  /\ homeLock' = NoCommand /\ cometbft' = NoCommand
  /\ losses' = losses + 1
  /\ UNCHANGED <<made, descriptors, genesis, promises, signatures, started, killed>>

HomeNext ==
  \/ \E p \in Command :
       \/ BeginInitialize(p) \/ BeginInstall(p) \/ BeginStart(p) \/ BeginCreate(p)
       \/ LockHome(p) \/ Refuse(p)
       \/ Stage(p) \/ Complete(p) \/ SyncTree(p) \/ StagingFails(p) \/ Rename(p) \/ SyncParent(p)
       \/ AlreadyBound(p) \/ Bind(p) \/ SyncGenesis(p)
       \/ ApplyConfig(p) \/ Exec(p)
       \/ LinkGenesis(p)
       \/ Kill(p)
  \/ ExportValidator \/ Sign \/ StopCometBFT \/ PowerLoss

HomeSpec == HomeInit /\ [][HomeNext]_homeVars

-----------------------------------------------------------------------------
\* A home at its path, now or after a power loss, is whole: its files are
\* synced, its genesis is its network's or still to come, never the one
\* cometbft init made up, and CometBFT never ran on the configuration of init.
HomeIsWhole ==
  \A h \in {home, onDisk} \ {NoHome} :
    /\ h.synced
    /\ h.genesis \in {genesis[path] : path \in Path} \cup {Unbound}
    /\ h.runtime => h.config \in Settings

\* What a command reported stays true through kills and power losses: the key
\* initialize-validator made stays in the home, a home stays in the network
\* install-genesis put it into, and a genesis file keeps the digest that
\* create-genesis printed.
PromisesAreKept ==
  \A promise \in promises :
    CASE promise.what = "key" -> home # NoHome /\ home.key = promise.subject
      [] promise.what = "network" ->
           home # NoHome /\ home.key = promise.subject => home.genesis = promise.document
      [] promise.what = "digest" -> genesis[promise.subject] = promise.document

\* A validator key signs in one network only, and only in one that lists it,
\* also when a power loss took back the genesis a home had been started with.
OneNetworkPerKey ==
  \A s \in signatures :
    s[1] \in s[2].members /\ \A t \in signatures : t[1] = s[1] => t = s

\* A home survives commands, kills and power losses whole, and what its
\* commands reported stays true.
HomeSurvives == HomeIsWhole /\ PromisesAreKept
=============================================================================
