----------------------------- MODULE DiskProofs -----------------------------
(***************************************************************************)
(* What a node keeps on disk survives: the home of its CometBFT process,   *)
(* and the database of its ledger, for every set of processes and keys and *)
(* every bound, through kills and losses of power.                         *)
(***************************************************************************)
EXTENDS CometBFTHome, SQLiteStore, FiniteSetTheorems, SequenceTheorems, TLAPS


-----------------------------------------------------------------------------
(* The inductive invariant.                                                *)

Running == [op      : {"none", "initialize", "install", "start", "create"},
            at      : {"idle", "lock", "form", "locked", "staged", "completed", "synced",
                       "renamed", "replaced", "exec", "running"},
            path    : Path \cup {"none"},
            genesis : Document \cup {Unbound, NoFile},
            config  : Settings \cup {"default"},
            staging : Home \cup {NoHome}]

Types ==
  /\ home \in Home \cup {NoHome} /\ onDisk \in Home \cup {NoHome}
  /\ command \in [Command -> Running]
  /\ homeLock \in Command \cup {NoCommand} /\ cometbft \in Command \cup {NoCommand}
  /\ made \subseteq Key /\ descriptors \subseteq Key
  /\ genesis \in [Path -> Document \cup {NoFile}]
  /\ signatures \subseteq Key \X (Document \cup {Template, Unbound})

\* The genesis documents somebody formed.
Formed == {genesis[path] : path \in Path} \cap Document

\* A command between LockHome and End holds the lock.
LockHeld ==
  \A p \in Command :
    command[p].at \in {"locked", "staged", "completed", "synced", "renamed", "replaced"} =>
      homeLock = p

\* What a command was asked for.
CommandsAsked ==
  \A p \in Command :
    /\ command[p].op = "initialize" => command[p].genesis = Unbound
    /\ command[p].op \in {"install", "start"} => command[p].genesis \in Formed
    /\ command[p].op = "create" => command[p].genesis \in Document
    /\ command[p].op = "start" => command[p].config \in Settings
    /\ command[p].at \in {"staged", "completed", "synced"} => command[p].op \in {"initialize", "start"}
    /\ command[p].at = "exec" => command[p].op = "start"

\* A staged home is for a place that is free, with a key that never signed.
StagingIsFresh ==
  \A p \in Command :
    command[p].at \in {"staged", "completed", "synced"} =>
      /\ home = NoHome
      /\ command[p].staging \in Home
      /\ command[p].staging.key \in made
      /\ ~command[p].staging.signed /\ ~command[p].staging.runtime
      /\ \A s \in signatures : s[1] # command[p].staging.key
      /\ command[p].at # "staged" =>
           /\ command[p].staging.genesis = command[p].genesis
           /\ command[p].staging.config = command[p].config
      /\ command[p].at = "synced" => command[p].staging.synced

\* Steps that need a home have one, and CometBFT its configuration.
HomeIsThere ==
  /\ cometbft # NoCommand => home # NoHome
  /\ \A p \in Command :
       /\ command[p].at \in {"renamed", "replaced", "exec", "running"} => home # NoHome
       /\ command[p].at \in {"renamed", "exec"} /\ command[p].op = "start" =>
            /\ home.config \in Settings
            /\ onDisk # NoHome => onDisk.config \in Settings

\* A power loss may take back the genesis of a home and nothing that matters
\* besides.
DiskAgrees ==
  onDisk # NoHome =>
    /\ home # NoHome
    /\ onDisk.key = home.key /\ onDisk.signed = home.signed /\ onDisk.runtime = home.runtime
    /\ onDisk.genesis \in {home.genesis, Unbound}

\* Both are whole.
Whole(h) ==
  h # NoHome => /\ h.synced
                /\ h.genesis \in Formed \cup {Unbound}
                /\ h.runtime => h.config \in Settings
                /\ h.key \in made

\* A key that signed did so in one network, which lists it; its home keeps the
\* signing state and is in that network or in none.
SignedOnce ==
  \A s \in signatures :
    /\ s[1] \in made
    /\ s[1] \in s[2].members
    /\ \A t \in signatures : t[1] = s[1] => t = s
    /\ home # NoHome /\ home.key = s[1] => home.signed /\ home.genesis \in {s[2], Unbound}

HomeInv ==
  /\ Types /\ LockHeld /\ CommandsAsked /\ StagingIsFresh /\ HomeIsThere
  /\ DiskAgrees /\ Whole(home) /\ Whole(onDisk) /\ SignedOnce

-----------------------------------------------------------------------------
(* Records: a file of a home, a step of a command.                         *)

Places == {"idle", "lock", "form", "locked", "staged", "completed", "synced",
           "renamed", "replaced", "exec", "running"}

\* A home stays a home whichever of its files is replaced, and is there.
LEMMA HomeFields ==
  /\ \A h \in Home : h # NoHome
  /\ \A h \in Home, d \in Document \cup {Template, Unbound} : [h EXCEPT !.genesis = d] \in Home
  /\ \A h \in Home, s \in Settings \cup {"default"} : [h EXCEPT !.config = s] \in Home
  /\ \A h \in Home, b \in BOOLEAN : /\ [h EXCEPT !.runtime = b] \in Home
                                    /\ [h EXCEPT !.signed = b] \in Home
                                    /\ [h EXCEPT !.synced = b] \in Home
  /\ \A k \in Key : Initialized(k) \in Home
<1>1. \A h \in Home : h # NoHome
  BY DEF Home, NoHome
<1>2. \A h \in Home, d \in Document \cup {Template, Unbound} : [h EXCEPT !.genesis = d] \in Home
  BY DEF Home
<1>3. \A h \in Home, s \in Settings \cup {"default"} : [h EXCEPT !.config = s] \in Home
  BY DEF Home
<1>4. \A h \in Home, b \in BOOLEAN : /\ [h EXCEPT !.runtime = b] \in Home
                                     /\ [h EXCEPT !.signed = b] \in Home
                                     /\ [h EXCEPT !.synced = b] \in Home
  BY DEF Home
<1>5. \A k \in Key : Initialized(k) \in Home
  BY DEF Home, Initialized
<1>. QED  BY <1>1, <1>2, <1>3, <1>4, <1>5

\* A command stays one when it goes on, with the staging directory it had or another.
LEMMA CommandFields ==
  ASSUME command \in [Command -> Running], NEW p \in Command,
         NEW at \in Places, NEW h \in Home \cup {NoHome}
  PROVE  /\ [command EXCEPT ![p].at = at] \in [Command -> Running]
         /\ [command EXCEPT ![p].at = at, ![p].staging = h] \in [Command -> Running]
<1>1. [command[p] EXCEPT !.at = at] \in Running
  BY DEF Running, Places
<1>2. [[command[p] EXCEPT !.at = at] EXCEPT !.staging = h] \in Running
  BY <1>1 DEF Running
<1>3. ASSUME NEW r \in Running PROVE [command EXCEPT ![p] = r] \in [Command -> Running]
  OBVIOUS
<1>4. [command EXCEPT ![p].at = at] = [command EXCEPT ![p] = [command[p] EXCEPT !.at = at]]
  OBVIOUS
<1>5. [command EXCEPT ![p].at = at, ![p].staging = h] =
        [command EXCEPT ![p] = [[command[p] EXCEPT !.at = at] EXCEPT !.staging = h]]
  OBVIOUS
<1>. QED  BY <1>1, <1>2, <1>3, <1>4, <1>5

\* A written file leaves a home where there was one.
LEMMA WriteFields ==
  ASSUME HomeInv, home # NoHome
  PROVE  /\ \A d \in Document \cup {Template, Unbound} :
              Write("genesis", d) => home' \in Home /\ onDisk' \in Home \cup {NoHome}
         /\ \A s \in Settings \cup {"default"} :
              Write("config", s) => home' \in Home /\ onDisk' \in Home \cup {NoHome}
         /\ Write("runtime", TRUE) \/ Write("signed", TRUE) =>
              home' \in Home /\ onDisk' \in Home \cup {NoHome}
<1>1. home \in Home /\ onDisk \in Home \cup {NoHome}
  BY DEF HomeInv, Types
<1>2. ASSUME NEW d \in Document \cup {Template, Unbound}, Write("genesis", d)
      PROVE  home' \in Home /\ onDisk' \in Home \cup {NoHome}
  BY <1>1, <1>2 DEF Write, Home
<1>3. ASSUME NEW s \in Settings \cup {"default"}, Write("config", s)
      PROVE  home' \in Home /\ onDisk' \in Home \cup {NoHome}
  BY <1>1, <1>3 DEF Write, Home
<1>4. CASE Write("runtime", TRUE)
  BY <1>1, <1>4 DEF Write, Home
<1>5. CASE Write("signed", TRUE)
  BY <1>1, <1>5 DEF Write, Home
<1>. QED  BY <1>2, <1>3, <1>4, <1>5

\* No command at all is one.
LEMMA IdleRuns == Idle \in Running
BY DEF Idle, Running

\* Whoever ends a command leaves types as they are.
LEMMA EndFields ==
  ASSUME Types, NEW p \in Command, End(p)
  PROVE  command' \in [Command -> Running] /\ homeLock' \in Command \cup {NoCommand}
BY IdleRuns DEF End, Types

-----------------------------------------------------------------------------
(* One lemma for every step.                                               *)

\* A command takes the lock.
LEMMA LockHomeKeeps ==
  ASSUME HomeInv, NEW p \in Command, LockHome(p)
  PROVE  HomeInv'
<1>1. Types'
  <2>1. command' \in [Command -> Running]
    BY CommandFields DEF HomeInv, Types, LockHome, Goto, Places, NoHome
  <2>. QED  BY <2>1 DEF HomeInv, Types, LockHome, others
<1> USE DEF HomeInv, Goto, others
<1>2. LockHeld'
  BY CommandsAreNamed DEF LockHome, LockHeld, NoCommand
<1>3. CommandsAsked'
  BY DEF LockHome, CommandsAsked, Formed
<1>4. StagingIsFresh'
  BY DEF LockHome, StagingIsFresh
<1>5. HomeIsThere'
  BY DEF LockHome, HomeIsThere
<1>6. DiskAgrees'
  BY DEF LockHome, DiskAgrees
<1>7. Whole(home)' /\ Whole(onDisk)'
  BY DEF LockHome, Whole, Formed
<1>8. SignedOnce'
  BY DEF LockHome, SignedOnce
<1>. QED  BY <1>1, <1>2, <1>3, <1>4, <1>5, <1>6, <1>7, <1>8

\* A command is refused.
LEMMA RefuseKeeps ==
  ASSUME HomeInv, NEW p \in Command, Refuse(p)
  PROVE  HomeInv'
<1>1. Types'
  BY EndFields DEF HomeInv, Types, Refuse, others
<1> USE DEF HomeInv, At, End, others, Idle
<1>2. LockHeld'
  BY DEF Refuse, LockHeld, Types
<1>3. CommandsAsked'
  BY DEF Refuse, CommandsAsked, Formed
<1>4. StagingIsFresh'
  BY DEF Refuse, StagingIsFresh
<1>5. HomeIsThere'
  BY DEF Refuse, HomeIsThere
<1>6. DiskAgrees'
  BY DEF Refuse, DiskAgrees
<1>7. Whole(home)' /\ Whole(onDisk)'
  BY DEF Refuse, Whole, Formed
<1>8. SignedOnce'
  BY DEF Refuse, SignedOnce
<1>. QED  BY <1>1, <1>2, <1>3, <1>4, <1>5, <1>6, <1>7, <1>8

\* The key of a staged home was never there, so it never signed.
LEMMA StageKeeps ==
  ASSUME HomeInv, NEW p \in Command, Stage(p)
  PROVE  HomeInv'
<1>1. Types'
  <2>1. PICK k \in Key : /\ made' = made \cup {k}
                         /\ command' = [command EXCEPT ![p].at = "staged",
                                                       ![p].staging = Initialized(k)]
    BY DEF HomeInv, Types, Stage
  <2>2. command' \in [Command -> Running]
    BY <2>1, CommandFields, HomeFields DEF HomeInv, Types, Places
  <2>. QED  BY <2>1, <2>2 DEF HomeInv, Types, Stage, others
<1> USE DEF HomeInv, At, Initialized, others
<1>2. LockHeld'
  BY DEF Stage, LockHeld, Types
<1>3. CommandsAsked'
  BY DEF Stage, CommandsAsked, Formed, Types
<1>4. StagingIsFresh'
  <2>1. \A q \in Command \ {p} :
          command'[q] = command[q] /\ command[q].at \notin {"staged", "completed", "synced"}
    BY CommandsAreNamed DEF Stage, LockHeld, Types
  <2>2. PICK k \in Key \ made : /\ made' = made \cup {k}
                                /\ command'[p] = [command[p] EXCEPT !.at = "staged",
                                                                   !.staging = Initialized(k)]
    BY DEF Stage, Types
  <2>. QED  BY <2>1, <2>2, HomeFields DEF StagingIsFresh, SignedOnce, Types, Stage
<1>5. HomeIsThere'
  BY DEF Stage, HomeIsThere, Types
<1>6. DiskAgrees'
  BY DEF Stage, DiskAgrees
<1>7. Whole(home)' /\ Whole(onDisk)'
  BY DEF Stage, Whole, Formed
<1>8. SignedOnce'
  BY DEF Stage, SignedOnce
<1>. QED  BY <1>1, <1>2, <1>3, <1>4, <1>5, <1>6, <1>7, <1>8

\* The staged home gets the genesis and the configuration that were asked for.
LEMMA CompleteKeeps ==
  ASSUME HomeInv, NEW p \in Command, Complete(p)
  PROVE  HomeInv'
<1>s. PICK s \in Home : /\ s = [[command[p].staging EXCEPT !.genesis = command[p].genesis]
                                EXCEPT !.config = command[p].config]
                        /\ command' = [command EXCEPT ![p].at = "completed", ![p].staging = s]
  <2>1. /\ command[p].staging \in Home
        /\ command[p].genesis \in Document \cup {Unbound}
        /\ command[p].config \in Settings \cup {"default"}
    BY DEF HomeInv, Types, StagingIsFresh, CommandsAsked, Formed, Complete, At, Running
  <2> DEFINE made_ == [[command[p].staging EXCEPT !.genesis = command[p].genesis]
                         EXCEPT !.config = command[p].config]
  <2>2. made_ \in Home
    BY <2>1, HomeFields
  <2>3. command' = [command EXCEPT ![p].at = "completed", ![p].staging = made_]
    BY DEF HomeInv, Types, Complete, Running
  <2>. QED  BY <2>2, <2>3
<1>1. Types'
  <2>1. command' \in [Command -> Running]
    BY <1>s, CommandFields DEF HomeInv, Types, Places
  <2>. QED  BY <2>1 DEF HomeInv, Types, Complete, others
<1> USE DEF HomeInv, At, others
<1>2. LockHeld'
  BY DEF Complete, LockHeld, Types
<1>3. CommandsAsked'
  BY DEF Complete, CommandsAsked, Formed, Types
<1>4. StagingIsFresh'
  <2>1. \A q \in Command \ {p} :
          command'[q] = command[q] /\ command[q].at \notin {"staged", "completed", "synced"}
    BY CommandsAreNamed DEF Complete, LockHeld, Types
  <2>2. command'[p] = [command[p] EXCEPT !.at = "completed", !.staging = s]
    BY <1>s DEF Types
  <2>3. home = NoHome /\ home' = home /\ made' = made /\ signatures' = signatures
    BY DEF Complete, StagingIsFresh
  <2>. QED  BY <1>s, <2>1, <2>2, <2>3 DEF StagingIsFresh, Types, Complete
<1>5. HomeIsThere'
  BY DEF Complete, HomeIsThere, Types
<1>6. DiskAgrees'
  BY DEF Complete, DiskAgrees
<1>7. Whole(home)' /\ Whole(onDisk)'
  BY DEF Complete, Whole, Formed
<1>8. SignedOnce'
  BY DEF Complete, SignedOnce
<1>. QED  BY <1>1, <1>2, <1>3, <1>4, <1>5, <1>6, <1>7, <1>8

\* The staged tree reaches the disk.
LEMMA SyncTreeKeeps ==
  ASSUME HomeInv, NEW p \in Command, SyncTree(p)
  PROVE  HomeInv'
<1>s. PICK s \in Home : /\ s = [command[p].staging EXCEPT !.synced = TRUE]
                        /\ command' = [command EXCEPT ![p].at = "synced", ![p].staging = s]
  BY HomeFields DEF HomeInv, Types, StagingIsFresh, SyncTree, Running
<1>1. Types'
  <2>1. command' \in [Command -> Running]
    BY <1>s, CommandFields DEF HomeInv, Types, Places
  <2>. QED  BY <2>1 DEF HomeInv, Types, SyncTree, others
<1> USE DEF HomeInv, others
<1>2. LockHeld'
  BY DEF SyncTree, LockHeld, Types
<1>3. CommandsAsked'
  BY DEF SyncTree, CommandsAsked, Formed, Types
<1>4. StagingIsFresh'
  <2>1. \A q \in Command \ {p} :
          command'[q] = command[q] /\ command[q].at \notin {"staged", "completed", "synced"}
    BY CommandsAreNamed DEF SyncTree, LockHeld, Types
  <2>2. command'[p] = [command[p] EXCEPT !.at = "synced", !.staging = s]
    BY <1>s DEF Types
  <2>3. home = NoHome /\ home' = home /\ made' = made /\ signatures' = signatures
    BY DEF SyncTree, StagingIsFresh
  <2>. QED  BY <1>s, <2>1, <2>2, <2>3 DEF StagingIsFresh, Types, SyncTree
<1>5. HomeIsThere'
  BY DEF SyncTree, HomeIsThere, Types
<1>6. DiskAgrees'
  BY DEF SyncTree, DiskAgrees
<1>7. Whole(home)' /\ Whole(onDisk)'
  BY DEF SyncTree, Whole, Formed
<1>8. SignedOnce'
  BY DEF SyncTree, SignedOnce
<1>. QED  BY <1>1, <1>2, <1>3, <1>4, <1>5, <1>6, <1>7, <1>8

\* A staging directory is removed.
LEMMA StagingFailsKeeps ==
  ASSUME HomeInv, NEW p \in Command, StagingFails(p)
  PROVE  HomeInv'
<1>1. Types'
  BY EndFields DEF HomeInv, Types, StagingFails, others
<1> USE DEF HomeInv, End, others, Idle
<1>2. LockHeld'
  BY DEF StagingFails, LockHeld, Types
<1>3. CommandsAsked'
  BY DEF StagingFails, CommandsAsked, Formed
<1>4. StagingIsFresh'
  BY DEF StagingFails, StagingIsFresh
<1>5. HomeIsThere'
  BY DEF StagingFails, HomeIsThere
<1>6. DiskAgrees'
  BY DEF StagingFails, DiskAgrees
<1>7. Whole(home)' /\ Whole(onDisk)'
  BY DEF StagingFails, Whole, Formed
<1>8. SignedOnce'
  BY DEF StagingFails, SignedOnce
<1>. QED  BY <1>1, <1>2, <1>3, <1>4, <1>5, <1>6, <1>7, <1>8

\* A synced home is put into the place that is free.
LEMMA RenameKeeps ==
  ASSUME HomeInv, NEW p \in Command, Rename(p)
  PROVE  HomeInv'
<1>1. Types'
  <2>1. command' \in [Command -> Running]
    BY CommandFields DEF HomeInv, Types, Rename, Goto, Places
  <2>2. home' \in Home
    BY DEF HomeInv, StagingIsFresh, Rename
  <2>. QED  BY <2>1, <2>2 DEF HomeInv, Types, Rename, others
<1> USE DEF HomeInv, Goto, others
<1>2. LockHeld'
  BY DEF Rename, LockHeld
<1>3. CommandsAsked'
  BY DEF Rename, CommandsAsked, Formed
<1>4. StagingIsFresh'
  BY DEF Rename, StagingIsFresh, Types, LockHeld, SignedOnce, Home, NoHome
<1>5. HomeIsThere'
  BY DEF Rename, HomeIsThere, Types, StagingIsFresh, CommandsAsked, DiskAgrees, Home,
     NoHome
<1>6. DiskAgrees'
  BY DEF Rename, DiskAgrees, Types, StagingIsFresh, Home, NoHome
<1>7. Whole(home)' /\ Whole(onDisk)'
  BY DEF Rename, Whole, Formed, Types, StagingIsFresh, CommandsAsked, Home, NoHome
<1>8. SignedOnce'
  BY DEF Rename, SignedOnce, Types, StagingIsFresh, Home, NoHome
<1>. QED  BY <1>1, <1>2, <1>3, <1>4, <1>5, <1>6, <1>7, <1>8

\* The renamed home will stay; what a power loss leaves agrees with it.
LEMMA SyncParentKeeps ==
  ASSUME HomeInv, NEW p \in Command, SyncParent(p)
  PROVE  HomeInv'
<1>1. Types'
  <2>1. command' \in [Command -> Running] /\ homeLock' \in Command \cup {NoCommand}
    <3>1. CASE End(p)
      BY <3>1, EndFields DEF HomeInv
    <3>2. CASE Goto(p, "exec") /\ homeLock' = NoCommand
      BY <3>2, CommandFields DEF HomeInv, Types, Goto, Places
    <3>. QED  BY <3>1, <3>2 DEF SyncParent
  <2>. QED  BY <2>1 DEF HomeInv, Types, SyncParent, others
<1> USE DEF HomeInv, Promise, End, Goto, others, Idle
<1>2. LockHeld'
  BY DEF SyncParent, LockHeld, Types, Running, Home, NoHome
<1>3. CommandsAsked'
  BY DEF SyncParent, CommandsAsked, Formed, Types, Running, Home, NoHome
<1>4. StagingIsFresh'
  BY DEF SyncParent, StagingIsFresh, Types, Running, SignedOnce, Home, NoHome
<1>5. HomeIsThere'
  BY DEF SyncParent, HomeIsThere, Types
<1>6. DiskAgrees'
  BY DEF SyncParent, DiskAgrees
<1>7. Whole(home)' /\ Whole(onDisk)'
  BY DEF SyncParent, Whole, Formed
<1>8. SignedOnce'
  BY DEF SyncParent, SignedOnce
<1>. QED  BY <1>1, <1>2, <1>3, <1>4, <1>5, <1>6, <1>7, <1>8

\* install-genesis leaves a bound home as it is.
LEMMA AlreadyBoundKeeps ==
  ASSUME HomeInv, NEW p \in Command, AlreadyBound(p)
  PROVE  HomeInv'
<1>1. Types'
  BY EndFields DEF HomeInv, Types, AlreadyBound, others
<1> USE DEF HomeInv, At, End, others, Idle
<1>2. LockHeld'
  BY DEF AlreadyBound, LockHeld, Types
<1>3. CommandsAsked'
  BY DEF AlreadyBound, CommandsAsked, Formed
<1>4. StagingIsFresh'
  BY DEF AlreadyBound, StagingIsFresh
<1>5. HomeIsThere'
  BY DEF AlreadyBound, HomeIsThere
<1>6. DiskAgrees'
  BY DEF AlreadyBound, DiskAgrees
<1>7. Whole(home)' /\ Whole(onDisk)'
  BY DEF AlreadyBound, Whole, Formed
<1>8. SignedOnce'
  BY DEF AlreadyBound, SignedOnce
<1>. QED  BY <1>1, <1>2, <1>3, <1>4, <1>5, <1>6, <1>7, <1>8

\* A home that is bound never signed: its key is in no network.
LEMMA BindKeeps ==
  ASSUME HomeInv, NEW p \in Command, Bind(p)
  PROVE  HomeInv'
<1>1. Types'
  <2>1. command' \in [Command -> Running]
    BY CommandFields DEF HomeInv, Types, Bind, Goto, Places
  <2>2. home' \in Home
    BY HomeFields DEF HomeInv, Types, CommandsAsked, Formed, Bind, At, Installable
  <2>. QED  BY <2>1, <2>2 DEF HomeInv, Types, Bind, others
<1> USE DEF HomeInv, At, Goto, others, Installable, Pristine, Unstarted
<1>2. LockHeld'
  BY DEF Bind, LockHeld
<1>3. CommandsAsked'
  BY DEF Bind, CommandsAsked, Formed
<1>4. StagingIsFresh'
  BY DEF Bind, StagingIsFresh
<1>5. HomeIsThere'
  BY DEF Bind, HomeIsThere, Types, Home, NoHome
<1>6. DiskAgrees'
  BY DEF Bind, DiskAgrees, Types, Home, NoHome
<1>7. Whole(home)' /\ Whole(onDisk)'
  BY DEF Bind, Whole, Formed, Types, StagingIsFresh, CommandsAsked, Home, NoHome
<1>8. SignedOnce'
  BY DEF Bind, SignedOnce
<1>. QED  BY <1>1, <1>2, <1>3, <1>4, <1>5, <1>6, <1>7, <1>8

\* The genesis reaches the disk.
LEMMA SyncGenesisKeeps ==
  ASSUME HomeInv, NEW p \in Command, SyncGenesis(p)
  PROVE  HomeInv'
<1>1. Types'
  <2>1. home # NoHome /\ home.genesis \in Document \cup {Template, Unbound}
    BY DEF HomeInv, Types, HomeIsThere, SyncGenesis, Home
  <2>2. home' \in Home /\ onDisk' \in Home \cup {NoHome}
    BY <2>1, WriteFields DEF SyncGenesis
  <2>. QED  BY <2>2, EndFields DEF HomeInv, Types, SyncGenesis, others
<1> USE DEF HomeInv, Write, End, others, Idle
<1>2. LockHeld'
  BY DEF SyncGenesis, LockHeld, Types
<1>3. CommandsAsked'
  BY DEF SyncGenesis, CommandsAsked, Formed
<1>4. StagingIsFresh'
  BY DEF SyncGenesis, StagingIsFresh, Types, SignedOnce, Home, NoHome
<1>5. HomeIsThere'
  <2>1. home' # NoHome /\ home'.config = home.config
    BY <1>1 DEF SyncGenesis, HomeIsThere, Types, Home, NoHome
  <2>2. onDisk' # NoHome => onDisk # NoHome /\ onDisk'.config = onDisk.config
    BY <1>1 DEF SyncGenesis, Types, Home, NoHome
  <2>3. \A q \in Command : command'[q].at \in {"renamed", "exec"} => command'[q] = command[q]
    BY DEF SyncGenesis, Types
  <2>. QED  BY <2>1, <2>2, <2>3 DEF HomeIsThere, SyncGenesis
<1>6. DiskAgrees'
  BY DEF SyncGenesis, DiskAgrees, Types, Home, NoHome
<1>7. Whole(home)' /\ Whole(onDisk)'
  BY DEF SyncGenesis, Whole, Formed, Types, DiskAgrees, Home, NoHome
<1>8. SignedOnce'
  BY DEF SyncGenesis, SignedOnce, Types, Home, NoHome
<1>. QED  BY <1>1, <1>2, <1>3, <1>4, <1>5, <1>6, <1>7, <1>8

\* A home that is there is configured.
LEMMA ApplyConfigKeeps ==
  ASSUME HomeInv, NEW p \in Command, ApplyConfig(p)
  PROVE  HomeInv'
<1>1. Types'
  <2>1. home # NoHome /\ command[p].config \in Settings
    BY DEF HomeInv, CommandsAsked, ApplyConfig, At
  <2>2. home' \in Home /\ onDisk' \in Home \cup {NoHome}
    BY <2>1, WriteFields DEF ApplyConfig
  <2>3. command' \in [Command -> Running]
    BY CommandFields DEF HomeInv, Types, ApplyConfig, Goto, Places
  <2>. QED  BY <2>2, <2>3 DEF HomeInv, Types, ApplyConfig, others
<1> USE DEF HomeInv, At, Goto, Write, others
<1>2. LockHeld'
  BY DEF ApplyConfig, LockHeld, Types
<1>3. CommandsAsked'
  BY DEF ApplyConfig, CommandsAsked, Formed
<1>4. StagingIsFresh'
  BY DEF ApplyConfig, StagingIsFresh
<1>5. HomeIsThere'
  BY DEF ApplyConfig, HomeIsThere, Types, CommandsAsked, Home, NoHome
<1>6. DiskAgrees'
  BY DEF ApplyConfig, DiskAgrees, Types, Home, NoHome
<1>7. Whole(home)' /\ Whole(onDisk)'
  BY DEF ApplyConfig, Whole, Formed, Types, StagingIsFresh, CommandsAsked, Home, NoHome
<1>8. SignedOnce'
  BY DEF ApplyConfig, SignedOnce
<1>. QED  BY <1>1, <1>2, <1>3, <1>4, <1>5, <1>6, <1>7, <1>8

\* CometBFT starts on a configured home.
LEMMA ExecKeeps ==
  ASSUME HomeInv, NEW p \in Command, Exec(p)
  PROVE  HomeInv'
<1>1. Types'
  <2>1. home' \in Home \cup {NoHome} /\ onDisk' \in Home \cup {NoHome}
    BY WriteFields DEF HomeInv, Types, HomeIsThere, Exec
  <2>2. command' \in [Command -> Running]
    <3>1. CASE Goto(p, "running")
      BY <3>1, CommandFields DEF HomeInv, Types, Goto, Places
    <3>2. CASE command' = [command EXCEPT ![p] = Idle]
      BY <3>2, IdleRuns DEF HomeInv, Types
    <3>. QED  BY <3>1, <3>2 DEF Exec
  <2>. QED  BY <2>1, <2>2 DEF HomeInv, Types, Exec, others
<1> USE DEF HomeInv, Goto, Write, others, Idle
<1>2. LockHeld'
  BY DEF Exec, LockHeld, Types, Running, Home, NoHome
<1>3. CommandsAsked'
  BY CommandsAreNamed DEF Exec, CommandsAsked, Formed, Types, Running, Home, NoHome,
     Document, Template, Unbound, NoFile, NoCommand
<1>4. StagingIsFresh'
  BY DEF Exec, StagingIsFresh, Types, Running, SignedOnce, Home, NoHome
<1>5. HomeIsThere'
  BY DEF Exec, HomeIsThere, Types, CommandsAsked, Home, NoHome
<1>6. DiskAgrees'
  BY DEF Exec, DiskAgrees, Types, Home, NoHome
<1>7. Whole(home)' /\ Whole(onDisk)'
  BY DEF Exec, Whole, Formed, Types, StagingIsFresh, CommandsAsked, HomeIsThere, Home,
     NoHome
<1>8. SignedOnce'
  BY DEF Exec, SignedOnce, Types, Home, NoHome
<1>. QED  BY <1>1, <1>2, <1>3, <1>4, <1>5, <1>6, <1>7, <1>8

\* A genesis is linked, and none is replaced.
LEMMA LinkGenesisKeeps ==
  ASSUME HomeInv, NEW p \in Command, LinkGenesis(p)
  PROVE  HomeInv'
<1>1. Types'
  <2>1. command[p].genesis \in Document
    BY DEF HomeInv, CommandsAsked, LinkGenesis, At
  <2>2. genesis' \in [Path -> Document \cup {NoFile}]
    BY <2>1 DEF HomeInv, Types, LinkGenesis
  <2>. QED  BY <2>2, EndFields DEF HomeInv, Types, LinkGenesis, others
<1> USE DEF HomeInv, At, End, others, Idle
<1>2. LockHeld'
  BY DEF LinkGenesis, LockHeld
<1>3. CommandsAsked'
  BY DEF LinkGenesis, CommandsAsked, Formed, Types, Home, NoHome, Document, Template,
     Unbound, NoFile
<1>4. StagingIsFresh'
  BY DEF LinkGenesis, StagingIsFresh
<1>5. HomeIsThere'
  BY DEF LinkGenesis, HomeIsThere
<1>6. DiskAgrees'
  BY DEF LinkGenesis, DiskAgrees
<1>7. Whole(home)' /\ Whole(onDisk)'
  BY DEF LinkGenesis, Whole, Formed, Types, Home, NoHome, Document, Template, Unbound,
     NoFile
<1>8. SignedOnce'
  BY DEF LinkGenesis, SignedOnce
<1>. QED  BY <1>1, <1>2, <1>3, <1>4, <1>5, <1>6, <1>7, <1>8

\* A kill leaves the home and gives the lock back.
LEMMA KillKeeps ==
  ASSUME HomeInv, NEW p \in Command, Kill(p)
  PROVE  HomeInv'
<1>1. Types'
  BY EndFields DEF HomeInv, Types, Kill
<1> USE DEF HomeInv, End, Idle
<1>2. LockHeld'
  BY DEF Kill, LockHeld, Types
<1>3. CommandsAsked'
  BY DEF Kill, CommandsAsked, Formed
<1>4. StagingIsFresh'
  BY DEF Kill, StagingIsFresh
<1>5. HomeIsThere'
  BY DEF Kill, HomeIsThere
<1>6. DiskAgrees'
  BY DEF Kill, DiskAgrees
<1>7. Whole(home)' /\ Whole(onDisk)'
  BY DEF Kill, Whole, Formed
<1>8. SignedOnce'
  BY DEF Kill, SignedOnce
<1>. QED  BY <1>1, <1>2, <1>3, <1>4, <1>5, <1>6, <1>7, <1>8

\* export-validator reads.
LEMMA ExportValidatorKeeps ==
  ASSUME HomeInv, ExportValidator
  PROVE  HomeInv'
<1>1. Types'
  <2>1. home.key \in Key
    BY DEF HomeInv, Types, ExportValidator, Home
  <2>. QED  BY <2>1 DEF HomeInv, Types, ExportValidator
<1> USE DEF HomeInv, Pristine
<1>2. LockHeld'
  BY DEF ExportValidator, LockHeld
<1>3. CommandsAsked'
  BY DEF ExportValidator, CommandsAsked, Formed
<1>4. StagingIsFresh'
  BY DEF ExportValidator, StagingIsFresh
<1>5. HomeIsThere'
  BY DEF ExportValidator, HomeIsThere
<1>6. DiskAgrees'
  BY DEF ExportValidator, DiskAgrees
<1>7. Whole(home)' /\ Whole(onDisk)'
  BY DEF ExportValidator, Whole, Formed
<1>8. SignedOnce'
  BY DEF ExportValidator, SignedOnce
<1>. QED  BY <1>1, <1>2, <1>3, <1>4, <1>5, <1>6, <1>7, <1>8

\* CometBFT signs: its home is in the network it signs in, and its key in no other.
LEMMA SignKeeps ==
  ASSUME HomeInv, Sign
  PROVE  HomeInv'
<1>1. Types'
  <2>1. home \in Home /\ home' \in Home /\ onDisk' \in Home \cup {NoHome}
    BY WriteFields DEF HomeInv, Types, HomeIsThere, Sign
  <2>2. <<home.key, home.genesis>> \in Key \X (Document \cup {Template, Unbound})
    BY <2>1 DEF Home
  <2>. QED  BY <2>1, <2>2 DEF HomeInv, Types, Sign
<1> USE DEF HomeInv, Write
<1>2. LockHeld'
  BY DEF Sign, LockHeld
<1>3. CommandsAsked'
  BY DEF Sign, CommandsAsked, Formed
<1>4. StagingIsFresh'
  BY DEF Sign, StagingIsFresh, Types, SignedOnce, HomeIsThere, Home, NoHome
<1>5. HomeIsThere'
  BY DEF Sign, HomeIsThere, Types, Home, NoHome
<1>6. DiskAgrees'
  BY DEF Sign, DiskAgrees, Types, Home, NoHome
<1>7. Whole(home)' /\ Whole(onDisk)'
  BY DEF Sign, Whole, Formed, Types, Home, NoHome
<1>8. SignedOnce'
  BY DEF Sign, SignedOnce, Types, Whole, HomeIsThere, Home, NoHome, Document, Template,
     Unbound, NoFile
<1>. QED  BY <1>1, <1>2, <1>3, <1>4, <1>5, <1>6, <1>7, <1>8

\* CometBFT ends.
LEMMA StopCometBFTKeeps ==
  ASSUME HomeInv, StopCometBFT
  PROVE  HomeInv'
<1>1. Types'
  BY IdleRuns DEF HomeInv, Types, StopCometBFT, others
<1> USE DEF HomeInv, others, Idle
<1>2. LockHeld'
  BY DEF StopCometBFT, LockHeld
<1>3. CommandsAsked'
  BY DEF StopCometBFT, CommandsAsked, Formed
<1>4. StagingIsFresh'
  BY DEF StopCometBFT, StagingIsFresh
<1>5. HomeIsThere'
  BY DEF StopCometBFT, HomeIsThere
<1>6. DiskAgrees'
  BY DEF StopCometBFT, DiskAgrees
<1>7. Whole(home)' /\ Whole(onDisk)'
  BY DEF StopCometBFT, Whole, Formed
<1>8. SignedOnce'
  BY DEF StopCometBFT, SignedOnce
<1>. QED  BY <1>1, <1>2, <1>3, <1>4, <1>5, <1>6, <1>7, <1>8

\* A power loss takes back no signing state, and a genesis only to the one that waits.
LEMMA PowerLossKeeps ==
  ASSUME HomeInv, PowerLoss
  PROVE  HomeInv'
<1>1. Types'
  <2>1. Torn(home) \in Home \cup {NoHome}
    BY HomeFields DEF HomeInv, Types, Torn
  <2>2. command' \in [Command -> Running]
    BY IdleRuns DEF PowerLoss
  <2>. QED  BY <2>1, <2>2 DEF HomeInv, Types, PowerLoss
<1> USE DEF HomeInv, Torn, Idle
<1>2. LockHeld'
  BY DEF PowerLoss, LockHeld
<1>3. CommandsAsked'
  BY DEF PowerLoss, CommandsAsked, Formed
<1>4. StagingIsFresh'
  BY DEF PowerLoss, StagingIsFresh
<1>5. HomeIsThere'
  BY DEF PowerLoss, HomeIsThere
<1>6. DiskAgrees'
  BY DEF PowerLoss, DiskAgrees
<1>7. Whole(home)' /\ Whole(onDisk)'
  BY DEF PowerLoss, Whole, Formed
<1>8. SignedOnce'
  BY DEF PowerLoss, SignedOnce, Types, Whole, DiskAgrees, Home, NoHome
<1>. QED  BY <1>1, <1>2, <1>3, <1>4, <1>5, <1>6, <1>7, <1>8

\* A command begins.
LEMMA BeginKeeps ==
  ASSUME HomeInv, NEW p \in Command, NEW c \in Running, Begin(p, c),
         c.at \in {"lock", "form"},
         c.op = "initialize" => c.genesis = Unbound,
         c.op \in {"install", "start"} => c.genesis \in Formed,
         c.op = "create" => c.genesis \in Document,
         c.op = "start" => c.config \in Settings
  PROVE  HomeInv'
<1> USE DEF HomeInv, Begin
<1>1. Types'
  BY DEF Types
<1>2. LockHeld'
  BY DEF LockHeld, Types
<1>3. CommandsAsked'
  BY DEF CommandsAsked, Types, Formed
<1>4. StagingIsFresh'
  BY DEF StagingIsFresh, Types
<1>5. HomeIsThere' /\ DiskAgrees'
  BY DEF HomeIsThere, DiskAgrees, Types
<1>6. Whole(home)' /\ Whole(onDisk)' /\ SignedOnce'
  BY DEF Whole, Formed, SignedOnce
<1>. QED  BY <1>1, <1>2, <1>3, <1>4, <1>5, <1>6

\* A command of either tool begins.
LEMMA BeginsKeep ==
  ASSUME HomeInv, NEW p \in Command,
         BeginInitialize(p) \/ BeginInstall(p) \/ BeginStart(p) \/ BeginCreate(p)
  PROVE  HomeInv'
<1>0. Types
  BY DEF HomeInv
<1>1. CASE BeginInitialize(p)
  <2> DEFINE c == [Idle EXCEPT !.op = "initialize", !.at = "lock", !.genesis = Unbound]
  <2>1. c \in Running /\ Begin(p, c)
    BY <1>1 DEF BeginInitialize, Running, Idle
  <2>2. c.op = "initialize" /\ c.at = "lock" /\ c.genesis = Unbound
    BY DEF Idle
  <2>. QED  BY <2>1, <2>2, BeginKeeps
<1>2. CASE BeginInstall(p)
  <2>1. PICK document \in Document, path \in Path :
          /\ genesis[path] = document
          /\ Begin(p, [Idle EXCEPT !.op = "install", !.at = "lock", !.genesis = document])
    BY <1>2 DEF BeginInstall
  <2> DEFINE c == [Idle EXCEPT !.op = "install", !.at = "lock", !.genesis = document]
  <2>2. c \in Running
    BY DEF Running, Idle
  <2>3. c.op = "install" /\ c.at = "lock" /\ c.genesis \in Formed
    BY <2>1 DEF Idle, Formed
  <2>. QED  BY <2>1, <2>2, <2>3, BeginKeeps
<1>3. CASE BeginStart(p)
  <2>1. PICK document \in Document, path \in Path, settings \in Settings :
          /\ genesis[path] = document
          /\ Begin(p, [Idle EXCEPT !.op = "start", !.at = "lock", !.genesis = document,
                                   !.config = settings])
    BY <1>3 DEF BeginStart
  <2> DEFINE c == [Idle EXCEPT !.op = "start", !.at = "lock", !.genesis = document,
                               !.config = settings]
  <2>2. c \in Running
    BY DEF Running, Idle
  <2>3. c.op = "start" /\ c.at = "lock" /\ c.genesis \in Formed /\ c.config \in Settings
    BY <2>1 DEF Idle, Formed
  <2>. QED  BY <2>1, <2>2, <2>3, BeginKeeps
<1>4. CASE BeginCreate(p)
  <2>1. PICK path \in Path, members \in SUBSET descriptors \ {{}} :
          Begin(p, [Idle EXCEPT !.op = "create", !.at = "form", !.path = path,
                                !.genesis = [kind |-> "formed", members |-> members]])
    BY <1>4 DEF BeginCreate
  <2> DEFINE document == [kind |-> "formed", members |-> members]
             c == [Idle EXCEPT !.op = "create", !.at = "form", !.path = path,
                               !.genesis = document]
  <2>2. document \in Document
    BY <1>0 DEF Document, Types
  <2>3. c \in Running
    BY <2>2 DEF Running, Idle
  <2>4. c.op = "create" /\ c.at = "form" /\ c.genesis \in Document
    BY <2>2 DEF Idle
  <2>. QED  BY <2>1, <2>3, <2>4, BeginKeeps
<1>. QED  BY <1>1, <1>2, <1>3, <1>4

-----------------------------------------------------------------------------
(* Theorems.                                                               *)

\* An empty machine satisfies the invariant.
LEMMA InvInit == HomeInit => HomeInv
<1> SUFFICES ASSUME HomeInit PROVE HomeInv
  OBVIOUS
<1>1. Types
  BY IdleRuns, PeersHaveKeys DEF HomeInit, Types
<1>2. LockHeld /\ CommandsAsked /\ StagingIsFresh /\ HomeIsThere
  BY DEF HomeInit, LockHeld, CommandsAsked, StagingIsFresh, HomeIsThere, Idle
<1>3. DiskAgrees /\ Whole(home) /\ Whole(onDisk) /\ SignedOnce
  BY DEF HomeInit, DiskAgrees, Whole, SignedOnce
<1>. QED  BY <1>1, <1>2, <1>3 DEF HomeInv

\* Every step keeps the invariant.
LEMMA InvNext == HomeInv /\ [HomeNext]_homeVars => HomeInv'
<1> SUFFICES ASSUME HomeInv, [HomeNext]_homeVars PROVE HomeInv'
  OBVIOUS
<1>1. CASE UNCHANGED homeVars
  BY <1>1 DEF homeVars, HomeInv, Types, LockHeld, CommandsAsked, StagingIsFresh, HomeIsThere,
              DiskAgrees, Whole, Formed, SignedOnce
<1>2. ASSUME NEW p \in Command,
             BeginInitialize(p) \/ BeginInstall(p) \/ BeginStart(p) \/ BeginCreate(p)
      PROVE  HomeInv'
  BY <1>2, BeginsKeep
<1>3. ASSUME NEW p \in Command,
             \/ LockHome(p) \/ Refuse(p) \/ Stage(p) \/ Complete(p) \/ SyncTree(p)
             \/ StagingFails(p) \/ Rename(p) \/ SyncParent(p)
      PROVE  HomeInv'
  BY <1>3, LockHomeKeeps, RefuseKeeps, StageKeeps, CompleteKeeps, SyncTreeKeeps,
     StagingFailsKeeps, RenameKeeps, SyncParentKeeps
<1>4. ASSUME NEW p \in Command,
             \/ AlreadyBound(p) \/ Bind(p) \/ SyncGenesis(p) \/ ApplyConfig(p)
             \/ Exec(p) \/ LinkGenesis(p) \/ Kill(p)
      PROVE  HomeInv'
  BY <1>4, AlreadyBoundKeeps, BindKeeps, SyncGenesisKeeps, ApplyConfigKeeps, ExecKeeps,
     LinkGenesisKeeps, KillKeeps
<1>5. CASE ExportValidator \/ Sign \/ StopCometBFT \/ PowerLoss
  BY <1>5, ExportValidatorKeeps, SignKeeps, StopCometBFTKeeps, PowerLossKeeps
<1>. QED  BY <1>1, <1>2, <1>3, <1>4, <1>5 DEF HomeNext

\* The inductive invariant holds through every interleaving of commands, kills
\* and power losses (node/runtime).
THEOREM HomeInvariance == HomeSpec => []HomeInv
<1>. QED  BY InvInit, InvNext, PTL DEF HomeSpec

\* A validator key signs in one network only, and in one that lists it, although
\* a power loss may take back the genesis its home was started with
\* (_CometBFTHome.install_validator_genesis, _require_unstarted_home).
THEOREM KeysSignOnce == HomeSpec => []OneNetworkPerKey
<1>1. HomeInv => OneNetworkPerKey
  BY DEF HomeInv, SignedOnce, OneNetworkPerKey
<1>. QED  BY <1>1, HomeInvariance, PTL

-----------------------------------------------------------------------------
(* What operators were told.                                               *)

InStaging(p) == command[p].at \in {"staged", "completed", "synced"}

\* The key that was reported is on the disk; a home whose network was reported
\* is in it, there and on the disk; a file whose digest was printed is there.
PromisedInv ==
  \A promise \in promises :
    /\ promise.what \in {"key", "network", "digest"}
    /\ promise.what = "key" => onDisk # NoHome /\ onDisk.key = promise.subject
    /\ promise.what = "network" =>
         /\ promise.subject \in made
         /\ promise.document # Unbound
         /\ \A h \in {home, onDisk} \ {NoHome} :
              h.key = promise.subject => h.genesis = promise.document
    /\ promise.what = "digest" =>
         promise.document # NoFile /\ genesis[promise.subject] = promise.document

\* The network of a staged key was never reported.
StagingUnpromised ==
  \A p \in Command : InStaging(p) =>
    \A promise \in promises : promise.what = "network" => promise.subject # command[p].staging.key

\* create-genesis writes to a path.
CreatesAtPath == \A p \in Command : command[p].op = "create" => command[p].path \in Path

\* A replaced genesis is bound.
ReplacedBinds == \A p \in Command : command[p].at = "replaced" => home.genesis # Unbound

Promised == PromisedInv /\ StagingUnpromised /\ CreatesAtPath /\ ReplacedBinds

\* A step that leaves homes, promises and files alone, and takes no command
\* into its staging directory, keeps them all.
LEMMA QuietStep ==
  ASSUME HomeInv, Promised, UNCHANGED <<home, onDisk, promises, genesis, made>>,
         NEW p \in Command, \A q \in Command \ {p} : command'[q] = command[q],
         command'[p].op = "create" => command'[p].path \in Path,
         command'[p].at # "replaced",
         InStaging(p)' => InStaging(p) /\ command'[p].staging.key = command[p].staging.key
  PROVE  Promised'
<1>1. PromisedInv'
  BY DEF Promised, PromisedInv
<1>2. StagingUnpromised'
  BY DEF Promised, StagingUnpromised, InStaging
<1>3. CreatesAtPath'
  BY DEF Promised, CreatesAtPath
<1>4. ReplacedBinds'
  BY DEF Promised, ReplacedBinds
<1>. QED  BY <1>1, <1>2, <1>3, <1>4 DEF Promised

\* What a command does to itself when it goes on or ends.
LEMMA CommandAt ==
  ASSUME Types, NEW p \in Command
  PROVE  /\ \A at \in Places : Goto(p, at) =>
              /\ \A q \in Command \ {p} : command'[q] = command[q]
              /\ command'[p].op = command[p].op
              /\ command'[p].path = command[p].path
              /\ command'[p].staging = command[p].staging
              /\ command'[p].at = at
         /\ End(p) =>
              /\ \A q \in Command \ {p} : command'[q] = command[q]
              /\ command'[p].op # "create"
              /\ command'[p].at # "replaced"
              /\ ~InStaging(p)'
BY DEF Types, Running, Goto, End, Idle, InStaging

\* A home that is written keeps its key, and its genesis where another file is.
LEMMA WriteKeepsKey ==
  ASSUME HomeInv, home # NoHome, NEW part \in {"genesis", "config", "runtime", "signed"},
         NEW value, Write(part, value)
  PROVE  /\ home' # NoHome => home'.key = home.key
         /\ onDisk # NoHome => onDisk' = [onDisk EXCEPT ![part] = value]
                               /\ onDisk'.key = onDisk.key
         /\ onDisk = NoHome => onDisk' = NoHome
         /\ part # "genesis" => /\ home'.genesis = home.genesis
                                /\ onDisk # NoHome => onDisk'.genesis = onDisk.genesis
BY DEF HomeInv, Types, Home, NoHome, Write

\* A command that begins has its path.
LEMMA BeginPromised ==
  ASSUME HomeInv, Promised, NEW p \in Command,
         BeginInitialize(p) \/ BeginInstall(p) \/ BeginStart(p) \/ BeginCreate(p)
  PROVE  Promised'
<1>0. Types
  BY DEF HomeInv
<1> DEFINE Fits(c) == /\ Begin(p, c)
                      /\ c.at \in {"lock", "form"}
                      /\ c.op = "create" => c.path \in Path
<1>1. \E c : Fits(c)
  <2>1. CASE BeginInitialize(p)
    <3> DEFINE c == [Idle EXCEPT !.op = "initialize", !.at = "lock", !.genesis = Unbound]
    <3>1. Fits(c)
      BY <2>1 DEF BeginInitialize, Idle
    <3>. QED  BY <3>1
  <2>2. CASE BeginInstall(p)
    <3>1. PICK document \in Document :
            Begin(p, [Idle EXCEPT !.op = "install", !.at = "lock", !.genesis = document])
      BY <2>2 DEF BeginInstall
    <3>2. Fits([Idle EXCEPT !.op = "install", !.at = "lock", !.genesis = document])
      BY <3>1 DEF Idle
    <3>. QED  BY <3>2
  <2>3. CASE BeginStart(p)
    <3>1. PICK document \in Document, settings \in Settings :
            Begin(p, [Idle EXCEPT !.op = "start", !.at = "lock", !.genesis = document,
                                  !.config = settings])
      BY <2>3 DEF BeginStart
    <3>2. Fits([Idle EXCEPT !.op = "start", !.at = "lock", !.genesis = document,
                            !.config = settings])
      BY <3>1 DEF Idle
    <3>. QED  BY <3>2
  <2>4. CASE BeginCreate(p)
    <3>1. PICK path \in Path, members \in SUBSET descriptors \ {{}} :
            Begin(p, [Idle EXCEPT !.op = "create", !.at = "form", !.path = path,
                                  !.genesis = [kind |-> "formed", members |-> members]])
      BY <2>4 DEF BeginCreate
    <3>2. Fits([Idle EXCEPT !.op = "create", !.at = "form", !.path = path,
                            !.genesis = [kind |-> "formed", members |-> members]])
      BY <3>1 DEF Idle
    <3>. QED  BY <3>2
  <2>. QED  BY <2>1, <2>2, <2>3, <2>4
<1>a. PICK c : Fits(c)
  BY <1>1
<1>2. /\ UNCHANGED <<home, onDisk, promises, genesis, made>>
      /\ \A q \in Command \ {p} : command'[q] = command[q]
      /\ command'[p] = c
  BY <1>0, <1>a DEF Begin, Types
<1>. QED  BY <1>a, <1>2, QuietStep DEF InStaging

\* Steps of a command that leave its homes and files alone.
LEMMA QuietPromised ==
  ASSUME HomeInv, Promised, NEW p \in Command,
         \/ LockHome(p) \/ Refuse(p) \/ Complete(p) \/ SyncTree(p) \/ StagingFails(p)
         \/ AlreadyBound(p) \/ Kill(p)
  PROVE  Promised'
<1>0. Types
  BY DEF HomeInv
<1>1. UNCHANGED <<home, onDisk, promises, genesis, made>>
  BY DEF LockHome, Refuse, Complete, SyncTree, StagingFails, AlreadyBound, Kill
<1>2. CASE LockHome(p)
  <2>1. Goto(p, "locked")
    BY <1>2 DEF LockHome
  <2>. QED  BY <1>0, <1>1, <2>1, CommandAt, QuietStep DEF InStaging, Places, Promised, CreatesAtPath
<1>3. CASE Refuse(p) \/ StagingFails(p) \/ AlreadyBound(p) \/ Kill(p)
  <2>1. End(p)
    BY <1>3 DEF Refuse, StagingFails, AlreadyBound, Kill
  <2>. QED  BY <1>0, <1>1, <2>1, CommandAt, QuietStep
<1>4. CASE Complete(p) \/ SyncTree(p)
  <2>1. /\ \A q \in Command \ {p} : command'[q] = command[q]
        /\ command'[p].op = command[p].op
        /\ command'[p].path = command[p].path
        /\ command'[p].staging.key = command[p].staging.key
        /\ InStaging(p)
        /\ command'[p].at # "replaced"
    <3>1. InStaging(p) /\ command[p].staging \in Home /\ command[p] \in Running
      BY <1>0, <1>4 DEF HomeInv, StagingIsFresh, InStaging, Complete, SyncTree, At, Types
    <3>. QED  BY <1>0, <1>4, <3>1 DEF Complete, SyncTree, Types, Running, Home
  <2>. QED  BY <1>1, <2>1, QuietStep DEF Promised, CreatesAtPath
<1>. QED  BY <1>2, <1>3, <1>4

\* A staged key was never there.
LEMMA StagePromised ==
  ASSUME HomeInv, Promised, NEW p \in Command, Stage(p)
  PROVE  Promised'
<1> DEFINE k == CHOOSE key \in Key : key \notin made
<1>1. /\ k \notin made
      /\ made' = made \cup {k}
      /\ command' = [command EXCEPT ![p].at = "staged", ![p].staging = Initialized(k)]
      /\ UNCHANGED <<home, onDisk, promises, genesis>>
  BY DEF Stage, HomeInv, Types
<1>. HIDE DEF k
<1>2. /\ \A q \in Command \ {p} : command'[q] = command[q]
      /\ command'[p].op = command[p].op
      /\ command'[p].path = command[p].path
      /\ command'[p].staging.key = k
  BY <1>1 DEF HomeInv, Types, Running, Initialized
<1>3. PromisedInv'
  BY <1>1 DEF Promised, PromisedInv
<1>4. StagingUnpromised'
  <2>. SUFFICES ASSUME NEW q \in Command, InStaging(q)', NEW promise \in promises,
                       promise.what = "network"
                PROVE  promise.subject # command'[q].staging.key
    BY <1>1 DEF StagingUnpromised
  <2>1. CASE q = p
    BY <1>1, <1>2, <2>1 DEF Promised, PromisedInv
  <2>2. CASE q # p
    BY <1>2, <2>2 DEF Promised, StagingUnpromised, InStaging
  <2>. QED  BY <2>1, <2>2
<1>5. CreatesAtPath'
  BY <1>2 DEF Promised, CreatesAtPath
<1>6. ReplacedBinds'
  <2>1. command'[p].at = "staged"
    BY <1>1 DEF HomeInv, Types
  <2>. QED  BY <1>1, <1>2, <2>1 DEF Promised, ReplacedBinds
<1>. QED  BY <1>3, <1>4, <1>5, <1>6 DEF Promised

\* Nothing was promised of a home that is put in place, on the disk nothing is
\* taken back, and the key is promised once the place is on the disk.
LEMMA PlacePromised ==
  ASSUME HomeInv, Promised, NEW p \in Command, Rename(p) \/ SyncParent(p)
  PROVE  Promised'
<1>0. Types /\ command[p] \in Running
  BY DEF HomeInv, Types
<1>1. CASE Rename(p)
  <2>1. /\ InStaging(p)
        /\ home' = command[p].staging
        /\ Goto(p, "renamed")
        /\ UNCHANGED <<onDisk, promises, genesis, made>>
    BY <1>1 DEF Rename, InStaging
  <2>2. /\ \A q \in Command \ {p} : command'[q] = command[q]
        /\ command'[p].op = command[p].op
        /\ command'[p].path = command[p].path
        /\ ~InStaging(p)'
    BY <1>0, <2>1, CommandAt DEF Places, InStaging
  <2>3. PromisedInv'
    BY <2>1 DEF Promised, PromisedInv, StagingUnpromised
  <2>4. StagingUnpromised' /\ CreatesAtPath'
    BY <2>1, <2>2 DEF Promised, StagingUnpromised, CreatesAtPath, InStaging
  <2>5. ReplacedBinds'
    <3>1. \A q \in Command : command[q].at # "replaced"
      BY <2>1 DEF HomeInv, StagingIsFresh, HomeIsThere, InStaging
    <3>2. command'[p].at = "renamed"
      BY <1>0, <2>1, CommandAt DEF Places
    <3>. QED  BY <2>2, <3>1, <3>2 DEF ReplacedBinds
  <2>. QED  BY <2>3, <2>4, <2>5 DEF Promised
<1>2. CASE SyncParent(p)
  <2>1. /\ home # NoHome
        /\ onDisk' = home
        /\ UNCHANGED <<home, genesis, made>>
    BY <1>2 DEF SyncParent, HomeInv, HomeIsThere
  <2>2. /\ \A q \in Command \ {p} : command'[q] = command[q]
        /\ command'[p].op = "create" => command'[p].path \in Path
        /\ command'[p].at # "replaced"
        /\ ~InStaging(p)'
    BY <1>0, <1>2, CommandAt DEF SyncParent, Places, InStaging, Promised, CreatesAtPath
  <2>3. /\ promises \subseteq promises'
        /\ \A promise \in promises' \ promises :
             promise.what = "key" /\ promise.subject = home.key
    BY <1>2 DEF SyncParent, Promise
  <2>4. PromisedInv'
    <3>. SUFFICES ASSUME NEW promise \in promises'
                  PROVE  /\ promise.what \in {"key", "network", "digest"}
                         /\ promise.what = "key" => home.key = promise.subject
                         /\ promise.what = "network" =>
                              /\ promise.subject \in made
                              /\ promise.document # Unbound
                              /\ home.key = promise.subject => home.genesis = promise.document
                         /\ promise.what = "digest" =>
                              promise.document # NoFile
                                /\ genesis[promise.subject] = promise.document
      BY <2>1 DEF PromisedInv
    <3>1. CASE promise \in promises
      BY <2>1, <3>1 DEF Promised, PromisedInv, HomeInv, DiskAgrees
    <3>. QED  BY <2>3, <3>1
  <2>5. StagingUnpromised' /\ CreatesAtPath' /\ ReplacedBinds'
    BY <2>1, <2>2, <2>3 DEF Promised, StagingUnpromised, CreatesAtPath, ReplacedBinds, InStaging
  <2>. QED  BY <2>4, <2>5 DEF Promised
<1>. QED  BY <1>1, <1>2

\* A home whose network was promised is not bound again; the next promise is
\* about a home that nobody stages beside.
LEMMA BindPromised ==
  ASSUME HomeInv, Promised, NEW p \in Command, Bind(p) \/ SyncGenesis(p)
  PROVE  Promised'
<1>0. Types /\ command[p] \in Running
  BY DEF HomeInv, Types
<1>1. CASE Bind(p)
  <2>1. /\ home # NoHome
        /\ home.genesis = Unbound
        /\ home'.key = home.key
        /\ UNCHANGED <<onDisk, promises, genesis, made>>
        /\ Goto(p, "replaced")
    BY <1>0, <1>1 DEF Bind, Installable, Types, Home
  <2>2. /\ \A q \in Command \ {p} : command'[q] = command[q]
        /\ command'[p].op = command[p].op
        /\ command'[p].path = command[p].path
        /\ ~InStaging(p)'
    BY <1>0, <2>1, CommandAt DEF Places, InStaging
  <2>3. PromisedInv'
    <3>. SUFFICES ASSUME NEW promise \in promises, promise.what = "network"
                  PROVE  home'.key # promise.subject
      BY <2>1 DEF Promised, PromisedInv
    <3>. QED  BY <2>1 DEF Promised, PromisedInv
  <2>4. StagingUnpromised' /\ CreatesAtPath'
    BY <2>1, <2>2 DEF Promised, StagingUnpromised, CreatesAtPath, InStaging
  <2>5. home'.genesis # Unbound
    BY <1>0, <1>1 DEF Bind, Types, HomeInv, CommandsAsked, Home, At, Formed, Document, Unbound
  <2>. QED  BY <2>3, <2>4, <2>5 DEF Promised, ReplacedBinds
<1>2. CASE SyncGenesis(p)
  <2>1. /\ home # NoHome
        /\ home.key \in made
        /\ home.genesis # Unbound
        /\ \A q \in Command : ~InStaging(q)
    BY <1>2 DEF SyncGenesis, HomeInv, HomeIsThere, Whole, StagingIsFresh, InStaging,
       Promised, ReplacedBinds
  <2>2. /\ Write("genesis", home.genesis)
        /\ promises' = promises \cup
             {[what |-> "network", subject |-> home.key, document |-> home.genesis]}
        /\ End(p)
        /\ UNCHANGED <<made, genesis>>
    BY <1>2 DEF SyncGenesis, Promise
  <2>3. /\ home' # NoHome => home'.key = home.key
        /\ onDisk # NoHome => onDisk' = [onDisk EXCEPT !.genesis = home.genesis]
                              /\ onDisk'.key = onDisk.key
        /\ onDisk = NoHome => onDisk' = NoHome
    BY <2>1, <2>2, WriteKeepsKey
  <2>4. /\ home \in Home /\ home'.genesis = home.genesis
        /\ onDisk # NoHome => onDisk \in Home /\ onDisk.key = home.key
                                /\ onDisk'.genesis = home.genesis
    BY <1>0, <2>1, <2>2, <2>3 DEF Write, Types, Home, HomeInv, DiskAgrees
  <2>5. onDisk # NoHome => onDisk' # NoHome
    BY <1>0, <2>3, <2>4 DEF NoHome, Home
  <2>6. PromisedInv'
    <3>. SUFFICES ASSUME NEW promise \in promises'
                  PROVE  /\ promise.what \in {"key", "network", "digest"}
                         /\ promise.what = "key" => onDisk' # NoHome /\ onDisk'.key = promise.subject
                         /\ promise.what = "network" =>
                              /\ promise.subject \in made
                              /\ promise.document # Unbound
                              /\ home.key = promise.subject => home.genesis = promise.document
                         /\ promise.what = "digest" =>
                              promise.document # NoFile
                                /\ genesis[promise.subject] = promise.document
      BY <2>2, <2>3, <2>4 DEF PromisedInv
    <3>1. CASE promise \in promises
      BY <2>1, <2>3, <2>5, <3>1 DEF Promised, PromisedInv
    <3>2. CASE promise = [what |-> "network", subject |-> home.key, document |-> home.genesis]
      BY <2>1, <3>2
    <3>. QED  BY <2>2, <3>1, <3>2
  <2>7. /\ \A q \in Command \ {p} : command'[q] = command[q]
        /\ command'[p].op # "create"
        /\ command'[p].at # "replaced"
        /\ ~InStaging(p)'
    BY <1>0, <2>2, CommandAt
  <2>8. StagingUnpromised' /\ CreatesAtPath' /\ ReplacedBinds'
    BY <2>1, <2>4, <2>7 DEF Promised, StagingUnpromised, CreatesAtPath, ReplacedBinds, InStaging
  <2>. QED  BY <2>6, <2>8 DEF Promised
<1>. QED  BY <1>1, <1>2

\* A step that leaves keys and networks of homes as they are, and takes no
\* command anywhere a promise is made, keeps the promises.
LEMMA SameNetworks ==
  ASSUME HomeInv, Promised, home # NoHome, UNCHANGED <<promises, genesis, made>>,
         home' # NoHome => home'.key = home.key /\ home'.genesis = home.genesis,
         home'.genesis = home.genesis,
         onDisk' = NoHome <=> onDisk = NoHome,
         onDisk # NoHome => onDisk'.key = onDisk.key /\ onDisk'.genesis = onDisk.genesis,
         \A q \in Command :
           \/ command'[q] = command[q]
           \/ /\ command'[q].op # "create"
              /\ command'[q].at # "replaced"
              /\ ~InStaging(q)'
  PROVE  Promised'
<1>1. PromisedInv'
  BY DEF Promised, PromisedInv
<1>2. \A q \in Command : ~InStaging(q)
  BY DEF HomeInv, StagingIsFresh, InStaging
<1>3. StagingUnpromised'
  BY <1>2 DEF StagingUnpromised, InStaging
<1>4. CreatesAtPath'
  BY DEF Promised, CreatesAtPath
<1>5. ReplacedBinds'
  BY DEF Promised, ReplacedBinds
<1>. QED  BY <1>1, <1>3, <1>4, <1>5 DEF Promised

\* Configuration, databases and signing state are written beside key and network.
LEMMA WritePromised ==
  ASSUME HomeInv, Promised, NEW part \in {"config", "runtime", "signed"}, NEW value,
         home # NoHome, Write(part, value), UNCHANGED <<promises, genesis, made>>,
         home' \in Home, onDisk' \in Home \cup {NoHome},
         \A q \in Command :
           \/ command'[q] = command[q]
           \/ /\ command'[q].op # "create"
              /\ command'[q].at # "replaced"
              /\ ~InStaging(q)'
  PROVE  Promised'
<1>1. onDisk' = NoHome <=> onDisk = NoHome
  <2>1. onDisk # NoHome => onDisk \in Home
    BY DEF HomeInv, Types
  <2>2. onDisk # NoHome => onDisk' # NoHome
    BY <2>1 DEF Write, Home, NoHome
  <2>. QED  BY <2>2 DEF Write
<1>2. home'.key = home.key
  BY HomeFields, WriteKeepsKey
<1>3. /\ home'.genesis = home.genesis
      /\ onDisk # NoHome => onDisk'.key = onDisk.key /\ onDisk'.genesis = onDisk.genesis
  BY WriteKeepsKey
<1>. QED  BY <1>1, <1>2, <1>3, SameNetworks

\* A start configures the home and CometBFT runs on it.
LEMMA StartPromised ==
  ASSUME HomeInv, Promised, NEW p \in Command, ApplyConfig(p) \/ Exec(p)
  PROVE  Promised'
<1>0. Types /\ command[p].op = "start" /\ home # NoHome
  BY DEF HomeInv, CommandsAsked, HomeIsThere, ApplyConfig, Exec, At
<1>1. UNCHANGED <<promises, genesis, made>>
  BY DEF ApplyConfig, Exec
<1>2. \A q \in Command :
        \/ command'[q] = command[q]
        \/ /\ command'[q].op # "create"
           /\ command'[q].at # "replaced"
           /\ ~InStaging(q)'
  <2>1. \A q \in Command \ {p} : command'[q] = command[q]
    BY <1>0 DEF ApplyConfig, Exec, Goto, Types
  <2>2. command[p] \in Running
    BY <1>0 DEF Types
  <2>3. \/ command'[p] = [command[p] EXCEPT !.at = "exec"]
        \/ command'[p] = [command[p] EXCEPT !.at = "running"]
        \/ command'[p] = Idle
    BY <1>0 DEF ApplyConfig, Exec, Goto, Types
  <2>4. command'[p].op # "create" /\ command'[p].at \in {"exec", "running", "idle"}
    BY <1>0, <2>2, <2>3 DEF Idle, Running
  <2>. QED  BY <2>1, <2>4 DEF InStaging
<1>3. CASE ApplyConfig(p)
  <2>1. Write("config", command[p].config) /\ command[p].config \in Settings
    BY <1>0, <1>3 DEF ApplyConfig, HomeInv, CommandsAsked
  <2>2. home' \in Home /\ onDisk' \in Home \cup {NoHome}
    BY <1>0, <2>1, WriteFields
  <2>. QED  BY <1>0, <1>1, <1>2, <2>1, <2>2, WritePromised
<1>4. CASE Exec(p)
  <2>1. CASE Write("runtime", TRUE)
    <3>1. home' \in Home /\ onDisk' \in Home \cup {NoHome}
      BY <1>0, <2>1, WriteFields
    <3>. QED  BY <1>0, <1>1, <1>2, <2>1, <3>1, WritePromised
  <2>2. CASE UNCHANGED <<home, onDisk>>
    BY <1>0, <1>1, <1>2, <2>2, SameNetworks
  <2>. QED  BY <1>4, <2>1, <2>2 DEF Exec
<1>. QED  BY <1>3, <1>4

\* CometBFT signs and stops.
LEMMA CometBFTPromised ==
  ASSUME HomeInv, Promised, Sign \/ StopCometBFT
  PROVE  Promised'
<1>0. home # NoHome /\ UNCHANGED <<promises, genesis, made>>
  BY DEF HomeInv, HomeIsThere, Sign, StopCometBFT
<1>1. \A q \in Command :
        \/ command'[q] = command[q]
        \/ /\ command'[q].op # "create"
           /\ command'[q].at # "replaced"
           /\ ~InStaging(q)'
  <2>1. CASE Sign
    BY <2>1 DEF Sign
  <2>2. CASE StopCometBFT
    <3>1. /\ \A q \in Command \ {cometbft} : command'[q] = command[q]
          /\ command'[cometbft] = Idle
      BY <2>2 DEF StopCometBFT, HomeInv, Types
    <3>. QED  BY <3>1 DEF Idle, InStaging
  <2>. QED  BY <2>1, <2>2
<1>2. CASE Sign
  <2>1. Write("signed", TRUE)
    BY <1>2 DEF Sign
  <2>2. home' \in Home /\ onDisk' \in Home \cup {NoHome}
    BY <1>0, <2>1, WriteFields
  <2>. QED  BY <1>0, <1>1, <2>1, <2>2, WritePromised
<1>3. CASE StopCometBFT
  <2>1. UNCHANGED <<home, onDisk>>
    BY <1>3 DEF StopCometBFT
  <2>. QED  BY <1>0, <1>1, <2>1, SameNetworks
<1>. QED  BY <1>2, <1>3

\* A digest is printed for a file that was not there; nobody writes it again.
LEMMA LinkPromised ==
  ASSUME HomeInv, Promised, NEW p \in Command, LinkGenesis(p)
  PROVE  Promised'
<1>0. Types /\ command[p] \in Running
  BY DEF HomeInv, Types
<1>1. /\ UNCHANGED <<home, onDisk, made>>
      /\ End(p)
      /\ command[p].path \in Path
      /\ command[p].genesis \in Document
  BY DEF LinkGenesis, At, HomeInv, CommandsAsked, Promised, CreatesAtPath
<1>2. /\ \A q \in Command \ {p} : command'[q] = command[q]
      /\ command'[p].op # "create"
      /\ command'[p].at # "replaced"
      /\ ~InStaging(p)'
  BY <1>0, <1>1, CommandAt
<1>3. command[p].genesis # NoFile
  BY <1>1 DEF Document, NoFile
<1>a. CASE genesis[command[p].path] = NoFile
  <2> DEFINE new == [what |-> "digest", subject |-> command[p].path,
                     document |-> command[p].genesis]
  <2>1. /\ genesis' = [genesis EXCEPT ![command[p].path] = command[p].genesis]
        /\ promises' = promises \cup {new}
    BY <1>a DEF LinkGenesis, Promise
  <2>2. genesis'[command[p].path] = command[p].genesis
    BY <1>0, <1>1, <2>1 DEF Types
  <2>3. \A promise \in promises : promise.what = "digest" =>
          promise.document # NoFile /\ genesis'[promise.subject] = promise.document
    <3>. SUFFICES ASSUME NEW promise \in promises, promise.what = "digest"
                  PROVE  promise.document # NoFile
                           /\ genesis'[promise.subject] = promise.document
      OBVIOUS
    <3>1. promise.document # NoFile /\ genesis[promise.subject] = promise.document
      BY DEF Promised, PromisedInv
    <3>2. promise.subject # command[p].path
      BY <1>a, <3>1
    <3>3. genesis'[promise.subject] = genesis[promise.subject]
      BY <2>1, <3>2
    <3>. QED  BY <3>1, <3>3
  <2>4. PromisedInv'
    BY <1>1, <1>3, <2>1, <2>2, <2>3 DEF Promised, PromisedInv
  <2>5. StagingUnpromised' /\ CreatesAtPath' /\ ReplacedBinds'
    BY <1>1, <1>2, <2>1 DEF Promised, StagingUnpromised, CreatesAtPath, ReplacedBinds, InStaging
  <2>. QED  BY <2>4, <2>5 DEF Promised
<1>b. CASE genesis[command[p].path] # NoFile
  BY <1>1, <1>2, <1>b, QuietStep DEF LinkGenesis
<1>. QED  BY <1>a, <1>b

\* Exporting a key promises nothing.
LEMMA ExportPromised ==
  ASSUME HomeInv, Promised, ExportValidator
  PROVE  Promised'
BY DEF ExportValidator, Promised, PromisedInv, StagingUnpromised, InStaging,
       CreatesAtPath, ReplacedBinds

\* A power loss leaves a home that was promised: what is on the disk, or all.
LEMMA PowerLossPromised ==
  ASSUME HomeInv, Promised, PowerLoss
  PROVE  Promised'
<1>1. Torn(home) = home
  BY DEF Torn, HomeInv, Whole
<1>2. /\ home' \in {onDisk, home}
      /\ onDisk' = home'
      /\ command' = [p \in Command |-> Idle]
      /\ UNCHANGED <<promises, genesis, made>>
  BY <1>1 DEF PowerLoss
<1>3. onDisk # NoHome => home # NoHome /\ home.key = onDisk.key
  BY DEF HomeInv, DiskAgrees
<1>4. PromisedInv'
  BY <1>2, <1>3 DEF Promised, PromisedInv
<1>5. StagingUnpromised' /\ CreatesAtPath' /\ ReplacedBinds'
  BY <1>2 DEF StagingUnpromised, CreatesAtPath, ReplacedBinds, InStaging, Idle
<1>. QED  BY <1>4, <1>5 DEF Promised

\* Every step keeps the promises.
LEMMA PromisedNext == HomeInv /\ Promised /\ [HomeNext]_homeVars => Promised'
<1> SUFFICES ASSUME HomeInv, Promised, [HomeNext]_homeVars PROVE Promised'
  OBVIOUS
<1>1. CASE UNCHANGED homeVars
  BY <1>1 DEF homeVars, Promised, PromisedInv, StagingUnpromised, InStaging, CreatesAtPath,
              ReplacedBinds
<1>2. ASSUME NEW p \in Command,
             BeginInitialize(p) \/ BeginInstall(p) \/ BeginStart(p) \/ BeginCreate(p)
      PROVE  Promised'
  BY <1>2, BeginPromised
<1>3. ASSUME NEW p \in Command,
             \/ LockHome(p) \/ Refuse(p) \/ Complete(p) \/ SyncTree(p) \/ StagingFails(p)
             \/ AlreadyBound(p) \/ Kill(p)
      PROVE  Promised'
  BY <1>3, QuietPromised
<1>4. ASSUME NEW p \in Command,
             \/ Stage(p) \/ Rename(p) \/ SyncParent(p) \/ Bind(p) \/ SyncGenesis(p)
             \/ ApplyConfig(p) \/ Exec(p) \/ LinkGenesis(p)
      PROVE  Promised'
  BY <1>4, StagePromised, PlacePromised, BindPromised, StartPromised, LinkPromised
<1>5. CASE ExportValidator \/ Sign \/ StopCometBFT \/ PowerLoss
  BY <1>5, ExportPromised, CometBFTPromised, PowerLossPromised
<1>. QED  BY <1>1, <1>2, <1>3, <1>4, <1>5 DEF HomeNext

\* What commands reported to their operators stays true, and the home whole: the
\* key of initialize-validator is in the home, a home stays in the network of
\* install-genesis, a genesis file keeps its digest (GenesisTool, _CometBFTHome).
THEOREM PromisesHold == HomeSpec => []HomeSurvives
<1>1. HomeInit => Promised
  BY DEF HomeInit, Promised, PromisedInv, StagingUnpromised, InStaging, CreatesAtPath,
         ReplacedBinds, Idle
<1>2. HomeInv /\ Promised => HomeSurvives
  <2>. SUFFICES ASSUME HomeInv, Promised PROVE HomeSurvives
    OBVIOUS
  <2>1. HomeIsWhole
    BY DEF HomeInv, Whole, Formed, HomeIsWhole
  <2>2. PromisesAreKept
    BY DEF HomeInv, DiskAgrees, Promised, PromisedInv, PromisesAreKept
  <2>. QED  BY <2>1, <2>2 DEF HomeSurvives
<1>. QED  BY <1>1, <1>2, PromisedNext, HomeInvariance, PTL DEF HomeSpec


-----------------------------------------------------------------------------
(* The database of the ledger: rows and the entries they are read as.      *)

\* The positions of the decided blocks.
StoredIndex == 0 .. Base * Base - 1

StoredEntry == [height : 1 .. Len(BlockIndexes), index : StoredIndex]

\* The row of an entry.
RowOf(e) == <<e.height, Encoded(e.index)>>

StoredRow == {RowOf(e) : e \in StoredEntry}

RowsOf(E) == {RowOf(e) : e \in E}

EntryBefore(d, e) ==
  d.height < e.height \/ (d.height = e.height /\ d.index < e.index)

LEMMA StoreBounds ==
  /\ Base \in Nat \ {0} /\ Base * Base \in Nat /\ Len(BlockIndexes) \in Nat
  /\ StoredIndex \subseteq Nat
<1>1. Base \in Nat \ {0} /\ Len(BlockIndexes) \in Nat
  BY StoreConstants, LenProperties
<1>2. Base * Base \in Nat
  BY <1>1
<1>. QED  BY <1>1, <1>2 DEF StoredIndex

\* The two bytes of an index.
LEMMA Division ==
  ASSUME NEW i \in Nat, NEW b \in Nat \ {0}
  PROVE  /\ i \div b \in Nat /\ i % b \in Nat /\ i % b < b
         /\ i = b * (i \div b) + (i % b)
<1>1. i \div b \in Int /\ i \div b >= 0
  OBVIOUS
<1>2. i % b \in Int /\ 0 <= i % b
  OBVIOUS
<1>3. i % b < b
  OBVIOUS
<1>4. i = b * (i \div b) + (i % b)
  OBVIOUS
<1>. QED  BY <1>1, <1>2, <1>3, <1>4

LEMMA TwoBytes ==
  ASSUME NEW i \in StoredIndex
  PROVE  /\ i \div Base \in Nat /\ i % Base \in Nat /\ i % Base < Base
         /\ i = Base * (i \div Base) + (i % Base)
BY StoreBounds, Division

\* More in the first byte outweighs the second.
LEMMA BytesOutweigh ==
  ASSUME NEW b \in Nat \ {0}, NEW q \in Nat, NEW r \in Nat, NEW s \in Nat, NEW t \in Nat,
         q < s, r < b
  PROVE  b * q + r < b * s + t
<1>1. q + 1 <= s
  OBVIOUS
<1>2. b * (q + 1) <= b * s
  BY <1>1
<1>3. b * (q + 1) = b * q + b
  OBVIOUS
<1>4. b * q \in Nat /\ b * s \in Nat
  OBVIOUS
<1>. QED  BY <1>2, <1>3, <1>4

\* The order of the bytes is the order of the indexes.
LEMMA BytesOrderIndexes ==
  ASSUME NEW i \in StoredIndex, NEW j \in StoredIndex
  PROVE  BytesBefore(Encoded(i), Encoded(j)) <=> i < j
<1> DEFINE q == i \div Base
           r == i % Base
           s == j \div Base
           t == j % Base
<1>1. /\ q \in Nat /\ r \in Nat /\ r < Base /\ i = Base * q + r
      /\ s \in Nat /\ t \in Nat /\ t < Base /\ j = Base * s + t
      /\ Base \in Nat \ {0} /\ i \in Nat /\ j \in Nat
  BY TwoBytes, StoreBounds
<1>2. BytesBefore(Encoded(i), Encoded(j)) <=> q < s \/ (q = s /\ r < t)
  BY DEF BytesBefore, Encoded
<1>. HIDE DEF q, r, s, t
<1>3. CASE q < s
  BY <1>1, <1>2, <1>3, BytesOutweigh
<1>4. CASE s < q
  <2>1. j < i
    BY <1>1, <1>4, BytesOutweigh
  <2>. QED  BY <1>1, <1>2, <1>4, <2>1
<1>5. CASE q = s
  <2>1. Base * q \in Nat /\ Base * q = Base * s
    BY <1>1, <1>5
  <2>. QED  BY <1>1, <1>2, <1>5, <2>1
<1>. QED  BY <1>1, <1>3, <1>4, <1>5

\* An index is read back as it was written.
LEMMA IndexReadBack ==
  ASSUME NEW i \in StoredIndex
  PROVE  IndexOf(Encoded(i)) = i
<1> DEFINE j == IndexOf(Encoded(i))
<1>1. j \in StoredIndex /\ Encoded(j) = Encoded(i)
  BY DEF IndexOf, StoredIndex
<1>. HIDE DEF j
<1>2. i \in Nat /\ j \in Nat
  BY <1>1, StoreBounds
<1>3. ~(i < j) /\ ~(j < i)
  <2>1. ~BytesBefore(Encoded(i), Encoded(i))
    BY BytesOrderIndexes, <1>2
  <2>. QED  BY <1>1, <2>1, BytesOrderIndexes
<1>4. i = j
  BY <1>2, <1>3
<1>. QED  BY <1>4 DEF j

LEMMA EntryFields ==
  ASSUME NEW e \in StoredEntry
  PROVE  /\ e.height \in Nat \ {0} /\ e.height \in 1 .. Len(BlockIndexes)
         /\ e.index \in StoredIndex /\ e.index \in Nat
         /\ e = [height |-> e.height, index |-> e.index]
<1>1. Len(BlockIndexes) \in Nat /\ StoredIndex \subseteq Nat
  BY StoreBounds
<1>2. /\ e.height \in 1 .. Len(BlockIndexes) /\ e.index \in StoredIndex
      /\ e = [height |-> e.height, index |-> e.index]
  BY DEF StoredEntry
<1>. QED  BY <1>1, <1>2

\* Rows are ordered as their entries, and an entry is read back from its row.
LEMMA RowsOrderEntries ==
  ASSUME NEW d \in StoredEntry, NEW e \in StoredEntry
  PROVE  /\ RowBefore(RowOf(d), RowOf(e)) <=> EntryBefore(d, e)
         /\ RowOf(d) = RowOf(e) => d = e
         /\ d = [height |-> RowOf(d)[1], index |-> IndexOf(RowOf(d)[2])]
         /\ RowOf(d)[1] = d.height
<1>1. /\ d.index \in StoredIndex /\ e.index \in StoredIndex
      /\ d.height \in Nat /\ e.height \in Nat
      /\ d = [height |-> d.height, index |-> d.index]
      /\ e = [height |-> e.height, index |-> e.index]
  BY EntryFields
<1>2. /\ RowOf(d)[1] = d.height /\ RowOf(d)[2] = Encoded(d.index)
      /\ RowOf(e)[1] = e.height /\ RowOf(e)[2] = Encoded(e.index)
  BY DEF RowOf
<1>3. /\ IndexOf(RowOf(d)[2]) = d.index /\ IndexOf(RowOf(e)[2]) = e.index
  BY <1>1, <1>2, IndexReadBack
<1>4. BytesBefore(RowOf(d)[2], RowOf(e)[2]) <=> d.index < e.index
  BY <1>1, <1>2, BytesOrderIndexes
<1>5. RowOf(d) = RowOf(e) => d = e
  BY <1>1, <1>2, <1>3
<1>. QED  BY <1>1, <1>2, <1>3, <1>4, <1>5 DEF RowBefore, EntryBefore

\* Entries are totally ordered.
LEMMA EntryOrder ==
  ASSUME NEW c \in StoredEntry, NEW d \in StoredEntry, NEW e \in StoredEntry
  PROVE  /\ ~EntryBefore(d, d)
         /\ EntryBefore(c, d) /\ EntryBefore(d, e) => EntryBefore(c, e)
         /\ EntryBefore(d, e) \/ d = e \/ EntryBefore(e, d)
<1>1. \A x \in StoredEntry : /\ x.height \in Nat /\ x.index \in Nat
                             /\ x = [height |-> x.height, index |-> x.index]
  BY EntryFields
<1>2. c.height \in Nat /\ c.index \in Nat /\ d.height \in Nat /\ d.index \in Nat
      /\ e.height \in Nat /\ e.index \in Nat
  BY <1>1
<1>3. d.height = e.height /\ d.index = e.index => d = e
  BY <1>1
<1>. QED  BY <1>2, <1>3 DEF EntryBefore

\* So are rows.
LEMMA RowOrder ==
  ASSUME NEW q \in StoredRow, NEW r \in StoredRow, NEW s \in StoredRow
  PROVE  /\ ~RowBefore(r, r)
         /\ RowBefore(q, r) /\ RowBefore(r, s) => RowBefore(q, s)
         /\ RowBefore(r, s) \/ r = s \/ RowBefore(s, r)
<1>1. PICK c \in StoredEntry, d \in StoredEntry, e \in StoredEntry :
        q = RowOf(c) /\ r = RowOf(d) /\ s = RowOf(e)
  BY DEF StoredRow
<1>2. /\ RowBefore(r, r) <=> EntryBefore(d, d)
      /\ RowBefore(q, r) <=> EntryBefore(c, d)
      /\ RowBefore(r, s) <=> EntryBefore(d, e)
      /\ RowBefore(q, s) <=> EntryBefore(c, e)
      /\ RowBefore(s, r) <=> EntryBefore(e, d)
  BY <1>1, RowsOrderEntries
<1>. QED  BY <1>1, <1>2, EntryOrder

\* The rank of a row in a set of rows is the number of those before it: the
\* ranks follow the order of the rows, and no number below that of the rows is
\* left out.
LEMMA RowsHaveRanks ==
  ASSUME NEW L \in SUBSET StoredRow, IsFiniteSet(L)
  PROVE  LET Rank(r) == Cardinality({q \in L : RowBefore(q, r)})
         IN  /\ Cardinality(L) \in Nat
             /\ \A r, s \in L : /\ Rank(r) \in Nat /\ Rank(r) < Cardinality(L)
                                /\ RowBefore(r, s) <=> Rank(r) < Rank(s)
                                /\ Rank(r) = Rank(s) => r = s
             /\ \A i \in 1 .. Cardinality(L) : \E r \in L : Rank(r) = i - 1
<1> DEFINE Before(r) == {q \in L : RowBefore(q, r)}
           Rank(r) == Cardinality(Before(r))
           n == Cardinality(L)
<1>1. n \in Nat
  BY FS_CardinalityType
<1>2. ASSUME NEW r \in L PROVE IsFiniteSet(Before(r)) /\ Rank(r) \in Nat /\ Rank(r) < n
  <2>1. Before(r) \in SUBSET L /\ r \in L /\ r \notin Before(r)
    BY RowOrder
  <2>. HIDE DEF Before
  <2>2. IsFiniteSet(Before(r)) /\ Cardinality(Before(r)) <= n
        /\ (n = Cardinality(Before(r)) => L = Before(r))
    BY <2>1, FS_Subset
  <2>3. Cardinality(Before(r)) \in Nat
    BY <2>2, FS_CardinalityType
  <2>. QED  BY <1>1, <2>1, <2>2, <2>3
<1>3. ASSUME NEW r \in L, NEW s \in L, RowBefore(r, s) PROVE Rank(r) < Rank(s)
  <2>1. Before(r) \in SUBSET Before(s)
    BY <1>3, RowOrder
  <2>2. r \in Before(s) /\ r \notin Before(r)
    BY <1>3, RowOrder
  <2>. HIDE DEF Before
  <2>3. Cardinality(Before(r)) <= Cardinality(Before(s))
        /\ (Cardinality(Before(s)) = Cardinality(Before(r)) => Before(s) = Before(r))
    BY <1>2, <2>1, FS_Subset
  <2>. QED  BY <1>2, <2>2, <2>3
<1>. HIDE DEF Before, n
<1>4. ASSUME NEW r \in L, NEW s \in L
      PROVE  (RowBefore(r, s) <=> Rank(r) < Rank(s)) /\ (Rank(r) = Rank(s) => r = s)
  <2>1. Rank(r) \in Nat /\ Rank(s) \in Nat
    BY <1>2
  <2>2. RowBefore(r, s) \/ r = s \/ RowBefore(s, r)
    BY RowOrder
  <2>3. /\ RowBefore(r, s) => Rank(r) < Rank(s)
        /\ RowBefore(s, r) => Rank(s) < Rank(r)
    BY <1>3
  <2>. QED  BY <2>1, <2>2, <2>3
<1>5. ASSUME NEW i \in 1 .. n PROVE \E r \in L : Rank(r) = i - 1
  <2> DEFINE f == [r \in L |-> Rank(r)]
  <2>1. \A r \in L : Rank(r) \in 0 .. n - 1
    BY <1>1, <1>2
  <2>2. f \in [L -> 0 .. n - 1]
    BY <2>1
  <2>3. \A r, s \in L : f[r] = f[s] => r = s
    BY <1>4
  <2>4. f \in Injection(L, 0 .. n - 1)
    BY <2>2, <2>3 DEF Injection, IsInjective
  <2>5. IsFiniteSet(0 .. n - 1) /\ Cardinality(0 .. n - 1) = n
    BY <1>1, FS_Interval
  <2>6. f \in Surjection(L, 0 .. n - 1)
    <3>. HIDE DEF f
    <3>. QED  BY <2>4, <2>5, FS_Injection DEF n
  <2>7. i - 1 \in 0 .. n - 1
    BY <1>1
  <2>8. \E r \in L : f[r] = i - 1
    BY <2>6, <2>7 DEF Surjection
  <2>. QED  BY <2>8
<1>6. \A r \in L : Rank(r) \in Nat /\ Rank(r) < n
  BY <1>2
<1>. QED  BY <1>1, <1>4, <1>5, <1>6 DEF Before, n

\* What select_entries_after returns: the entries above a height that the rows
\* stand for, in consensus order.
LEMMA EntriesAreSelected ==
  ASSUME NEW db, NEW E \in SUBSET StoredEntry, IsFiniteSet(E), NEW after \in Int,
         db.rows = RowsOf(E)
  PROVE  /\ Entries(db, after) \in Seq(StoredEntry)
         /\ Range(Entries(db, after)) = {e \in E : e.height > after}
         /\ InConsensusOrder(Entries(db, after))
<1> DEFINE kept == {e \in E : e.height > after}
           later == {r \in db.rows : r[1] > after}
           Rank(r) == Cardinality({q \in later : RowBefore(q, r)})
           Row(i) == CHOOSE r \in later : Rank(r) = i - 1
           n == Cardinality(later)
           s == [i \in 1 .. n |-> [height |-> Row(i)[1], index |-> IndexOf(Row(i)[2])]]
<1>1. Entries(db, after) = s
  BY DEF Entries
<1>2. later = {RowOf(e) : e \in kept}
  <2>1. \A e \in E : RowOf(e)[1] = e.height
    BY RowsOrderEntries
  <2>. QED  BY <2>1 DEF RowsOf
<1>3. later \in SUBSET StoredRow /\ IsFiniteSet(later)
  <2>1. IsFiniteSet(kept) /\ kept \in SUBSET StoredEntry
    BY FS_Subset
  <2> DEFINE f == [e \in kept |-> RowOf(e)]
  <2>. HIDE DEF kept, later
  <2>2. f \in Surjection(kept, later)
    BY <1>2 DEF Surjection
  <2>. HIDE DEF f
  <2>3. IsFiniteSet(later)
    BY <2>1, <2>2, FS_Surjection
  <2>. QED  BY <1>2, <2>1, <2>3 DEF StoredRow
<1>. HIDE DEF later
<1>4. /\ n \in Nat
      /\ \A r, q \in later : /\ Rank(r) \in Nat /\ Rank(r) < n
                             /\ RowBefore(r, q) <=> Rank(r) < Rank(q)
                             /\ Rank(r) = Rank(q) => r = q
      /\ \A i \in 1 .. n : \E r \in later : Rank(r) = i - 1
  BY <1>3, RowsHaveRanks
<1>. HIDE DEF n, Rank
<1>5. \A i \in 1 .. n : Row(i) \in later /\ Rank(Row(i)) = i - 1
  BY <1>4
<1>. HIDE DEF Row
<1>6. ASSUME NEW i \in 1 .. n PROVE s[i] \in kept /\ RowOf(s[i]) = Row(i)
  <2>1. PICK e \in kept : Row(i) = RowOf(e)
    BY <1>2, <1>5
  <2>2. e = [height |-> Row(i)[1], index |-> IndexOf(Row(i)[2])]
    BY <2>1, RowsOrderEntries
  <2>. QED  BY <2>1, <2>2
<1>7. /\ s \in Seq(StoredEntry) /\ DOMAIN s = 1 .. n
  <2>1. s \in [1 .. n -> StoredEntry]
    BY <1>6
  <2>. QED  BY <1>4, <2>1, SeqDef
<1>. HIDE DEF s
<1>8. ASSUME NEW e \in kept PROVE e \in Range(s)
  <2>1. RowOf(e) \in later
    BY <1>2
  <2>2. Rank(RowOf(e)) \in Nat /\ Rank(RowOf(e)) < n
    BY <1>4, <2>1
  <2> DEFINE i == Rank(RowOf(e)) + 1
  <2>3. i \in 1 .. n /\ i - 1 = Rank(RowOf(e))
    BY <1>4, <2>2
  <2>4. Row(i) = RowOf(e)
    BY <1>4, <1>5, <2>1, <2>3
  <2>. HIDE DEF i
  <2>5. s[i] \in StoredEntry /\ e \in StoredEntry /\ RowOf(s[i]) = RowOf(e)
    BY <1>6, <2>3, <2>4
  <2>6. s[i] = e
    BY <2>5, RowsOrderEntries
  <2>. QED  BY <1>7, <2>3, <2>6 DEF Range
<1>9. Range(s) = kept
  BY <1>6, <1>7, <1>8 DEF Range
<1>10. ASSUME NEW i \in 1 .. n, NEW j \in 1 .. n, i < j
       PROVE  EntryBefore(s[i], s[j])
  <2>1. i - 1 < j - 1
    BY <1>4, <1>10
  <2>2. RowBefore(Row(i), Row(j))
    BY <1>4, <1>5, <2>1
  <2>3. s[i] \in StoredEntry /\ s[j] \in StoredEntry
    BY <1>6
  <2>. QED  BY <1>6, <2>2, <2>3, RowsOrderEntries
<1>11. InConsensusOrder(s)
  BY <1>7, <1>10 DEF InConsensusOrder, EntryBefore
<1>. QED  BY <1>1, <1>7, <1>9, <1>11

\* In a sequence in consensus order the place of an entry is its rank.
LEMMA PlaceIsRank ==
  ASSUME NEW s \in Seq(StoredEntry), InConsensusOrder(s), NEW i \in DOMAIN s
  PROVE  Cardinality({e \in Range(s) : EntryBefore(e, s[i])}) = i - 1
<1> DEFINE B == {e \in Range(s) : EntryBefore(e, s[i])}
           f == [j \in 1 .. i - 1 |-> s[j]]
<1>1. /\ Len(s) \in Nat /\ DOMAIN s = 1 .. Len(s) /\ i \in 1 .. Len(s)
      /\ \A j \in 1 .. Len(s) : s[j] \in StoredEntry
  BY LenProperties, ElementOfSeq
<1>2. \A j, k \in 1 .. Len(s) : j < k => EntryBefore(s[j], s[k])
  BY <1>1 DEF InConsensusOrder, EntryBefore
<1>3. ASSUME NEW j \in 1 .. Len(s) PROVE EntryBefore(s[j], s[i]) <=> j < i
  <2>1. j < i \/ j = i \/ i < j
    BY <1>1
  <2>. QED  BY <1>1, <1>2, <2>1, EntryOrder
<1>4. 1 .. i - 1 \subseteq 1 .. Len(s) /\ \A j \in 1 .. Len(s) : j < i => j \in 1 .. i - 1
  BY <1>1
<1>5. B = {s[j] : j \in 1 .. i - 1}
  BY <1>1, <1>3, <1>4 DEF Range
<1>6. f \in [1 .. i - 1 -> B] /\ \A b \in B : \E j \in 1 .. i - 1 : f[j] = b
  <2>. HIDE DEF B
  <2>. QED  BY <1>5
<1>7. ASSUME NEW j \in 1 .. i - 1, NEW k \in 1 .. i - 1, f[j] = f[k] PROVE j = k
  <2>1. j \in 1 .. Len(s) /\ k \in 1 .. Len(s) /\ s[j] = s[k]
    BY <1>4, <1>7
  <2>2. ~(j < k) /\ ~(k < j)
    BY <1>1, <1>2, <2>1, EntryOrder
  <2>. QED  BY <2>1, <2>2
<1>. HIDE DEF f, B
<1>8. f \in Bijection(1 .. i - 1, B)
  BY <1>6, <1>7 DEF Bijection, Injection, IsInjective, Surjection
<1>9. IsFiniteSet(1 .. i - 1) /\ Cardinality(1 .. i - 1) = i - 1
  <2>1. i - 1 \in Int /\ 1 \in Int /\ (IF 1 > i - 1 THEN 0 ELSE (i - 1) - 1 + 1) = i - 1
    BY <1>1
  <2>. HIDE DEF B
  <2>. QED  BY <2>1, FS_Interval
<1>10. Cardinality(B) = i - 1
  BY <1>8, <1>9, FS_Bijection DEF ExistsBijection
<1>. QED  BY <1>10 DEF B

\* Consensus order leaves one sequence for every set of entries.
LEMMA OneOrder ==
  ASSUME NEW s \in Seq(StoredEntry), NEW t \in Seq(StoredEntry),
         InConsensusOrder(s), InConsensusOrder(t), Range(s) = Range(t)
  PROVE  s = t
<1>1. /\ Len(s) \in Nat /\ DOMAIN s = 1 .. Len(s) /\ Len(t) \in Nat /\ DOMAIN t = 1 .. Len(t)
  BY LenProperties
<1>2. ASSUME NEW i \in DOMAIN s, NEW j \in DOMAIN t, s[i] = t[j] PROVE i = j
  <2>1. i - 1 = j - 1
    BY <1>2, PlaceIsRank
  <2>. QED  BY <1>1, <2>1
<1>3. ASSUME NEW i \in DOMAIN s PROVE i \in DOMAIN t /\ s[i] = t[i]
  <2>1. PICK j \in DOMAIN t : s[i] = t[j]
    BY DEF Range
  <2>. QED  BY <1>2, <2>1
<1>4. ASSUME NEW j \in DOMAIN t PROVE j \in DOMAIN s
  <2>1. PICK i \in DOMAIN s : s[i] = t[j]
    BY DEF Range
  <2>. QED  BY <1>2, <2>1
<1>5. Len(s) = Len(t)
  <2>1. Len(s) # 0 => Len(s) \in DOMAIN s
    BY <1>1
  <2>2. Len(t) # 0 => Len(t) \in DOMAIN t
    BY <1>1
  <2>3. Len(s) <= Len(t)
    BY <1>1, <1>3, <2>1
  <2>4. Len(t) <= Len(s)
    BY <1>1, <1>4, <2>2
  <2>5. \A m, n \in Nat : m <= n /\ n <= m => m = n
    OBVIOUS
  <2>. QED  BY <1>1, <2>3, <2>4, <2>5
<1>. QED  BY <1>1, <1>3, <1>5, SeqEqual

-----------------------------------------------------------------------------
(* What an intact database holds.                                          *)

\* An intact database holds the rows of the blocks up to its height.
Intact(db) ==
  /\ db \in Database /\ db.state = "whole"
  /\ db.rows = UNION {NewRows(Decided(h)) : h \in 1 .. Height(db.height)}

\* A snapshot is what a database holds.
Holds(snapshot, db) ==
  snapshot.height = Height(db.height) /\ snapshot.entries = Entries(db, 0)

\* The snapshot with the next block.
Following(snapshot) ==
  [height  |-> snapshot.height + 1,
   entries |-> snapshot.entries \o Decided(snapshot.height + 1)]

DecidedUpTo(n) == UNION {Range(Decided(h)) : h \in 1 .. n}

LEMMA DecidedIs ==
  ASSUME NEW h \in 1 .. Len(BlockIndexes)
  PROVE  /\ Decided(h) \in Seq(StoredEntry) /\ InConsensusOrder(Decided(h))
         /\ \A i \in DOMAIN Decided(h) : Decided(h)[i].height = h
         /\ \A e \in Range(Decided(h)) : e \in StoredEntry /\ e.height = h
         /\ IsFiniteSet(Range(Decided(h)))
<1> DEFINE b == BlockIndexes[h]
           d == Decided(h)
<1>1. b \in Seq(StoredIndex) /\ h \in DOMAIN BlockIndexes
  <2>1. BlockIndexes \in Seq(Seq(StoredIndex))
    BY StoreConstants DEF StoredIndex
  <2>. QED  BY <2>1, LenProperties, ElementOfSeq
<1>2. \A i, j \in DOMAIN b : i < j => b[i] < b[j]
  BY <1>1, StoreConstants
<1>. HIDE DEF b
<1>3. /\ Len(b) \in Nat /\ DOMAIN b = 1 .. Len(b)
      /\ \A i \in 1 .. Len(b) : b[i] \in StoredIndex
  BY <1>1, LenProperties, ElementOfSeq
<1>4. d = [i \in 1 .. Len(b) |-> [height |-> h, index |-> b[i]]]
  BY <1>3 DEF Decided, b
<1>5. d \in [1 .. Len(b) -> StoredEntry]
  BY <1>3, <1>4 DEF StoredEntry
<1>6. d \in Seq(StoredEntry)
  BY <1>3, <1>5, SeqDef
<1>7. \A i \in 1 .. Len(b) : d[i].height = h /\ d[i].index = b[i]
  BY <1>4
<1>. HIDE DEF d
<1>8. InConsensusOrder(d)
  BY <1>2, <1>3, <1>5, <1>7 DEF InConsensusOrder
<1>9. \A e \in Range(d) : e \in StoredEntry /\ e.height = h
  BY <1>5, <1>7 DEF Range
<1>10. IsFiniteSet(Range(d))
  <2>1. d \in Surjection(1 .. Len(b), Range(d))
    BY <1>5 DEF Surjection, Range
  <2>2. IsFiniteSet(1 .. Len(b))
    BY <1>3, FS_Interval
  <2>. QED  BY <2>1, <2>2, FS_Surjection
<1>. QED  BY <1>5, <1>6, <1>7, <1>8, <1>9, <1>10 DEF d

LEMMA DecidedEntries ==
  ASSUME NEW n \in 0 .. Len(BlockIndexes)
  PROVE  /\ DecidedUpTo(n) \in SUBSET StoredEntry /\ IsFiniteSet(DecidedUpTo(n))
         /\ UNION {NewRows(Decided(h)) : h \in 1 .. n} = RowsOf(DecidedUpTo(n))
<1>1. n \in Nat /\ 1 .. n \subseteq 1 .. Len(BlockIndexes)
  BY StoreBounds
<1>2. DecidedUpTo(n) \in SUBSET StoredEntry
  BY <1>1, DecidedIs DEF DecidedUpTo
<1>3. IsFiniteSet(DecidedUpTo(n))
  <2> DEFINE F == {Range(Decided(h)) : h \in 1 .. n}
             f == [h \in 1 .. n |-> Range(Decided(h))]
  <2>1. f \in Surjection(1 .. n, F)
    BY DEF Surjection
  <2>2. IsFiniteSet(1 .. n)
    BY <1>1, FS_Interval
  <2>3. \A T \in F : IsFiniteSet(T)
    BY <1>1, DecidedIs
  <2>4. DecidedUpTo(n) = UNION F
    BY DEF DecidedUpTo
  <2>. HIDE DEF F, f
  <2>5. IsFiniteSet(F)
    BY <2>1, <2>2, FS_Surjection
  <2>. QED  BY <2>3, <2>4, <2>5, FS_UNION
<1>4. \A h : NewRows(Decided(h)) = {RowOf(e) : e \in Range(Decided(h))}
  BY DEF NewRows, RowOf
<1>5. UNION {NewRows(Decided(h)) : h \in 1 .. n} = RowsOf(DecidedUpTo(n))
  BY <1>4 DEF DecidedUpTo, RowsOf
<1>. QED  BY <1>2, <1>3, <1>5

\* What an intact database is read as.
LEMMA IntactReads ==
  ASSUME NEW db, Intact(db), NEW after \in Nat
  PROVE  /\ Height(db.height) \in 0 .. Len(BlockIndexes)
         /\ Entries(db, after) \in Seq(StoredEntry) /\ InConsensusOrder(Entries(db, after))
         /\ Range(Entries(db, after)) =
              UNION {Range(Decided(h)) : h \in after + 1 .. Height(db.height)}
<1> DEFINE n == Height(db.height)
<1>1. n \in 0 .. Len(BlockIndexes) /\ n \in Nat
  <2>1. db.height \in {NoHeight} \cup 1 .. Len(BlockIndexes)
    BY DEF Intact, Database
  <2>. QED  BY <2>1, StoreBounds DEF Height, NoHeight
<1>2. db.rows = RowsOf(DecidedUpTo(n))
  BY <1>1, DecidedEntries DEF Intact
<1>. HIDE DEF n
<1>3. /\ Entries(db, after) \in Seq(StoredEntry) /\ InConsensusOrder(Entries(db, after))
      /\ Range(Entries(db, after)) = {e \in DecidedUpTo(n) : e.height > after}
  <2> DEFINE E == DecidedUpTo(n)
  <2>1. E \in SUBSET StoredEntry /\ IsFiniteSet(E) /\ after \in Int
    BY <1>1, DecidedEntries
  <2>2. db.rows = RowsOf(E)
    BY <1>2
  <2>. HIDE DEF E
  <2>3. /\ Entries(db, after) \in Seq(StoredEntry) /\ InConsensusOrder(Entries(db, after))
        /\ Range(Entries(db, after)) = {e \in E : e.height > after}
    BY <2>1, <2>2, EntriesAreSelected
  <2>. QED  BY <2>3 DEF E
<1>4. \A h \in 1 .. n : \A e \in Range(Decided(h)) : e.height = h
  BY <1>1, DecidedIs, StoreBounds
<1>5. {e \in DecidedUpTo(n) : e.height > after}
      = UNION {Range(Decided(h)) : h \in after + 1 .. n}
  <2>1. \A h \in Int : h \in after + 1 .. n <=> h \in 1 .. n /\ h > after
    BY <1>1
  <2>2. ASSUME NEW e, e \in DecidedUpTo(n), e.height > after
        PROVE  e \in UNION {Range(Decided(h)) : h \in after + 1 .. n}
    <3>1. PICK h \in 1 .. n : e \in Range(Decided(h))
      BY <2>2 DEF DecidedUpTo
    <3>2. h \in after + 1 .. n
      BY <1>4, <2>1, <2>2, <3>1
    <3>. QED  BY <3>1, <3>2
  <2>3. ASSUME NEW h \in after + 1 .. n, NEW e \in Range(Decided(h))
        PROVE  e \in DecidedUpTo(n) /\ e.height > after
    <3>1. h \in 1 .. n /\ h > after
      BY <2>1
    <3>. QED  BY <1>4, <3>1 DEF DecidedUpTo
  <2>. QED  BY <2>2, <2>3
<1>. QED  BY <1>1, <1>3, <1>5 DEF n

\* The two parts of a concatenation.
LEMMA ConcatParts ==
  ASSUME NEW T, NEW s \in Seq(T), NEW t \in Seq(T)
  PROVE  /\ SubSeq(s \o t, Len(s) + 1, Len(s \o t)) = t
         /\ IsPrefix(s, s \o t)
<1> DEFINE u == s \o t
           m == Len(s)
           n == Len(t)
<1>1. m \in Nat /\ n \in Nat
  BY LenProperties
<1>2. /\ u \in Seq(T) /\ Len(u) = m + n
      /\ \A i \in 1 .. m + n : u[i] = IF i <= m THEN s[i] ELSE t[i - m]
      /\ \A i \in 1 .. m + n : u[i] \in T
  <2>1. /\ u \in Seq(T) /\ Len(u) = m + n
        /\ \A i \in 1 .. m + n : u[i] = IF i <= m THEN s[i] ELSE t[i - m]
    BY ConcatProperties
  <2>. HIDE DEF u, m, n
  <2>. QED  BY <1>1, <2>1, ElementOfSeq
<1>. HIDE DEF u
<1>3. SubSeq(u, m + 1, Len(u)) = t
  <2> DEFINE v == SubSeq(u, m + 1, m + n)
  <2>1. \A i \in m + 1 .. m + n : u[i] \in T
    BY <1>1, <1>2
  <2>2. m + 1 \in Int /\ m + n \in Int
    BY <1>1
  <2>. HIDE DEF m, n
  <2>3. /\ v \in Seq(T) /\ Len(v) = IF m + 1 <= m + n THEN (m + n) - (m + 1) + 1 ELSE 0
        /\ \A i \in 1 .. (m + n) - (m + 1) + 1 : v[i] = u[(m + 1) + i - 1]
    BY <2>1, <2>2, SubSeqProperties
  <2>4. Len(v) = n
    BY <1>1, <2>3
  <2>. HIDE DEF v
  <2>5. ASSUME NEW i \in 1 .. n PROVE v[i] = t[i]
    <3>1. /\ i \in 1 .. (m + n) - (m + 1) + 1 /\ (m + 1) + i - 1 = m + i
          /\ m + i \in 1 .. m + n /\ ~(m + i <= m) /\ (m + i) - m = i
      BY <1>1
    <3>. QED  BY <1>2, <2>3, <3>1
  <2>6. v = t
    BY <2>3, <2>4, <2>5, SeqEqual DEF n
  <2>. QED  BY <1>2, <2>6 DEF v
<1>4. SubSeq(u, 1, m) = s
  <2> DEFINE v == SubSeq(u, 1, m)
  <2>1. \A i \in 1 .. m : u[i] \in T
    BY <1>1, <1>2
  <2>2. 1 \in Int /\ m \in Int
    BY <1>1
  <2>. HIDE DEF m, n
  <2>3. /\ v \in Seq(T) /\ Len(v) = IF 1 <= m THEN m - 1 + 1 ELSE 0
        /\ \A i \in 1 .. m - 1 + 1 : v[i] = u[1 + i - 1]
    BY <2>1, <2>2, SubSeqProperties
  <2>4. Len(v) = m
    BY <1>1, <2>3
  <2>. HIDE DEF v
  <2>5. ASSUME NEW i \in 1 .. m PROVE v[i] = s[i]
    <3>1. i \in 1 .. m - 1 + 1 /\ 1 + i - 1 = i /\ i \in 1 .. m + n /\ i <= m
      BY <1>1
    <3>. QED  BY <1>2, <2>3, <3>1
  <2>6. v = s
    BY <2>3, <2>4, <2>5, SeqEqual DEF m
  <2>. QED  BY <2>6 DEF v
<1>5. SubSeq(s, 1, m) = s
  BY SubSeqFull
<1>6. IsPrefix(s, u)
  BY <1>1, <1>2, <1>4, <1>5 DEF IsPrefix
<1>. QED  BY <1>3, <1>6 DEF u

\* Entries up to a height and entries above it, one after the other.
LEMMA ConcatAtHeight ==
  ASSUME NEW s \in Seq(StoredEntry), NEW t \in Seq(StoredEntry), NEW k \in Nat,
         InConsensusOrder(s), InConsensusOrder(t),
         \A i \in DOMAIN s : s[i].height <= k, \A i \in DOMAIN t : t[i].height > k
  PROVE  /\ s \o t \in Seq(StoredEntry) /\ InConsensusOrder(s \o t)
         /\ Range(s \o t) = Range(s) \cup Range(t)
         /\ SubSeq(s \o t, Len(s) + 1, Len(s \o t)) = t /\ IsPrefix(s, s \o t)
         /\ Len(s) \in 0 .. Len(s \o t)
         /\ \A i \in DOMAIN (s \o t) : i <= Len(s) <=> (s \o t)[i].height <= k
<1> DEFINE u == s \o t
<1>1. /\ Len(s) \in Nat /\ Len(t) \in Nat /\ DOMAIN s = 1 .. Len(s) /\ DOMAIN t = 1 .. Len(t)
      /\ u \in Seq(StoredEntry) /\ DOMAIN u = 1 .. Len(s) + Len(t) /\ Len(u) = Len(s) + Len(t)
      /\ \A i \in 1 .. Len(s) + Len(t) : u[i] = IF i <= Len(s) THEN s[i] ELSE t[i - Len(s)]
  <2>1. /\ u \in Seq(StoredEntry) /\ Len(u) = Len(s) + Len(t)
        /\ \A i \in 1 .. Len(s) + Len(t) : u[i] = IF i <= Len(s) THEN s[i] ELSE t[i - Len(s)]
    BY ConcatProperties
  <2>. HIDE DEF u
  <2>. QED  BY <2>1, LenProperties
<1>2. SubSeq(u, Len(s) + 1, Len(u)) = t /\ IsPrefix(s, u)
  BY ConcatParts
<1>. HIDE DEF u
<1>3. /\ \A i \in 1 .. Len(s) : u[i] = s[i] /\ i \in DOMAIN s
      /\ \A i \in Len(s) + 1 .. Len(u) : i - Len(s) \in DOMAIN t /\ u[i] = t[i - Len(s)]
  BY <1>1
<1>4. /\ \A i \in DOMAIN s : s[i].height \in Int
      /\ \A i \in DOMAIN t : t[i].height \in Int
  <2>1. /\ \A i \in DOMAIN s : s[i] \in StoredEntry
        /\ \A i \in DOMAIN t : t[i] \in StoredEntry
    BY <1>1, ElementOfSeq
  <2>. QED  BY <2>1, EntryFields
<1>5. InConsensusOrder(u)
  <2>1. ASSUME NEW i \in DOMAIN u, NEW j \in DOMAIN u, i < j
        PROVE  \/ u[i].height < u[j].height
               \/ u[i].height = u[j].height /\ u[i].index < u[j].index
    <3>1. CASE j <= Len(s)
      <4>1. i \in 1 .. Len(s) /\ j \in 1 .. Len(s)
        BY <1>1, <2>1, <3>1
      <4>. QED  BY <1>3, <2>1, <4>1 DEF InConsensusOrder
    <3>2. CASE i <= Len(s) /\ ~(j <= Len(s))
      <4>1. i \in 1 .. Len(s) /\ j \in Len(s) + 1 .. Len(u)
        BY <1>1, <3>2
      <4>2. u[i].height <= k /\ u[j].height > k /\ u[i].height \in Int /\ u[j].height \in Int
        BY <1>3, <1>4, <4>1
      <4>. QED  BY <4>2
    <3>3. CASE ~(i <= Len(s))
      <4>1. /\ i \in Len(s) + 1 .. Len(u) /\ j \in Len(s) + 1 .. Len(u)
            /\ i - Len(s) < j - Len(s)
        BY <1>1, <2>1, <3>3
      <4>2. /\ i - Len(s) \in DOMAIN t /\ u[i] = t[i - Len(s)]
            /\ j - Len(s) \in DOMAIN t /\ u[j] = t[j - Len(s)]
        BY <1>3, <4>1
      <4>. HIDE DEF u
      <4>. QED  BY <4>1, <4>2 DEF InConsensusOrder
    <3>. QED  BY <3>1, <3>2, <3>3
  <2>. QED  BY <2>1 DEF InConsensusOrder
<1>6. Range(u) = Range(s) \cup Range(t)
  <2>1. ASSUME NEW i \in DOMAIN u PROVE u[i] \in Range(s) \cup Range(t)
    <3>1. i \in 1 .. Len(s) \/ i \in Len(s) + 1 .. Len(u)
      BY <1>1
    <3>. QED  BY <1>3, <3>1 DEF Range
  <2>2. ASSUME NEW i \in DOMAIN s PROVE s[i] \in Range(u)
    <3>1. i \in DOMAIN u /\ u[i] = s[i]
      BY <1>1, <1>3
    <3>. QED  BY <3>1 DEF Range
  <2>3. ASSUME NEW i \in DOMAIN t PROVE t[i] \in Range(u)
    <3>1. Len(s) + i \in Len(s) + 1 .. Len(u) /\ (Len(s) + i) - Len(s) = i /\ Len(s) + i \in DOMAIN u
      BY <1>1
    <3>2. u[Len(s) + i] = t[i]
      BY <1>3, <3>1
    <3>. QED  BY <3>1, <3>2 DEF Range
  <2>. QED  BY <2>1, <2>2, <2>3 DEF Range
<1>7. ASSUME NEW i \in DOMAIN u PROVE i <= Len(s) <=> u[i].height <= k
  <2>1. CASE i <= Len(s)
    <3>1. i \in 1 .. Len(s)
      BY <1>1, <2>1
    <3>. QED  BY <1>3, <2>1, <3>1
  <2>2. CASE ~(i <= Len(s))
    <3>1. i \in Len(s) + 1 .. Len(u)
      BY <1>1, <2>2
    <3>2. u[i].height > k /\ u[i].height \in Int
      BY <1>3, <1>4, <3>1
    <3>. QED  BY <2>2, <3>2
  <2>. QED  BY <2>1, <2>2
<1>. QED  BY <1>1, <1>2, <1>5, <1>6, <1>7 DEF u

\* The snapshot with the next block extends what is persisted.
LEMMA FollowingExtends ==
  ASSUME NEW db, Intact(db), NEW snapshot, Holds(snapshot, db),
         snapshot.height < Len(BlockIndexes)
  PROVE  /\ Persisted(db).entries = snapshot.entries /\ Persisted(db).height = snapshot.height
         /\ snapshot.height + 1 \in 1 .. Len(BlockIndexes)
         /\ Following(snapshot).height = snapshot.height + 1
         /\ Following(snapshot).entries \in Seq(StoredEntry)
         /\ InConsensusOrder(Following(snapshot).entries)
         /\ Range(Following(snapshot).entries) = DecidedUpTo(snapshot.height + 1)
         /\ SubSeq(Following(snapshot).entries, Len(snapshot.entries) + 1,
                   Len(Following(snapshot).entries)) = Decided(snapshot.height + 1)
         /\ ExtendsPersisted(Persisted(db), Following(snapshot))
<1> DEFINE k == snapshot.height
           s == snapshot.entries
           d == Decided(k + 1)
           u == s \o d
<1>1. /\ k \in 0 .. Len(BlockIndexes) /\ s \in Seq(StoredEntry) /\ InConsensusOrder(s)
      /\ Range(s) = UNION {Range(Decided(h)) : h \in 0 + 1 .. k}
      /\ s = Persisted(db).entries /\ k = Persisted(db).height
  BY IntactReads DEF Holds, Persisted
<1>2. k \in Nat /\ k + 1 \in 1 .. Len(BlockIndexes) /\ 0 + 1 = 1
  BY <1>1, StoreBounds
<1>3. /\ d \in Seq(StoredEntry) /\ InConsensusOrder(d)
      /\ \A i \in DOMAIN d : d[i].height = k + 1
  BY <1>2, DecidedIs
<1>4. Following(snapshot).height = k + 1 /\ Following(snapshot).entries = u
  BY DEF Following
<1>5. ASSUME NEW i \in DOMAIN s PROVE s[i].height <= k
  <2>1. s[i] \in Range(s)
    BY DEF Range
  <2>2. PICK h \in 1 .. k : s[i] \in Range(Decided(h))
    BY <1>1, <1>2, <2>1
  <2>3. h \in 1 .. Len(BlockIndexes) /\ h \in Nat /\ h <= k
    BY <1>1, <1>2, StoreBounds
  <2>. QED  BY <2>2, <2>3, DecidedIs
<1>6. \A i \in DOMAIN d : d[i].height > k
  BY <1>2, <1>3
<1>. HIDE DEF s, d, k
<1>7. /\ u \in Seq(StoredEntry) /\ InConsensusOrder(u) /\ Range(u) = Range(s) \cup Range(d)
      /\ SubSeq(u, Len(s) + 1, Len(u)) = d /\ IsPrefix(s, u) /\ Len(s) \in 0 .. Len(u)
      /\ \A i \in DOMAIN u : i <= Len(s) <=> u[i].height <= k
  BY <1>1, <1>2, <1>3, <1>5, <1>6, ConcatAtHeight
<1>. HIDE DEF u
<1>8. Range(u) = DecidedUpTo(k + 1)
  <2>1. 1 .. k + 1 = (1 .. k) \cup {k + 1}
    BY <1>2
  <2>. QED  BY <1>1, <1>2, <1>7, <2>1 DEF DecidedUpTo, d
<1>9. ExtendsPersisted(Persisted(db), Following(snapshot))
  <2>1. \A i \in Len(s) + 1 .. Len(u) : u[i].height > k
    <3>1. /\ DOMAIN u = 1 .. Len(u) /\ Len(u) \in Nat /\ Len(s) \in Nat
          /\ \A i \in DOMAIN u : u[i].height \in Int
      <4>1. \A i \in DOMAIN u : u[i] \in StoredEntry
        BY <1>7, LenProperties, ElementOfSeq
      <4>. QED  BY <1>7, <4>1, LenProperties, EntryFields
    <3>. QED  BY <1>2, <1>7, <3>1
  <2>2. k + 1 >= k
    BY <1>2
  <2> DEFINE p == Persisted(db)
             f == Following(snapshot)
  <2>3. p.entries = s /\ p.height = k /\ f.entries = u /\ f.height = k + 1
    BY <1>1, <1>4
  <2>. HIDE DEF p, f
  <2>4. ExtendsPersisted(p, f)
    BY <1>7, <2>1, <2>2, <2>3 DEF ExtendsPersisted
  <2>. QED  BY <2>4 DEF p, f
<1>. QED  BY <1>1, <1>2, <1>4, <1>7, <1>8, <1>9 DEF s, d, k

\* What a height that was never committed reads as.
LEMMA HeightOf ==
  /\ \A n \in Nat : Height(n) = n
  /\ Height(NoHeight) = 0
BY DEF Height, NoHeight

\* The row of an entry has the types of its columns.
LEMMA RowTypes ==
  ASSUME NEW e \in StoredEntry
  PROVE  RowOf(e) \in Nat \X Seq(Nat)
<1>1. e.height \in Nat /\ e.index \in StoredIndex
  BY EntryFields
<1>2. e.index \div Base \in Nat /\ e.index % Base \in Nat
  BY <1>1, TwoBytes
<1>3. Encoded(e.index) \in Seq(Nat)
  BY <1>2 DEF Encoded
<1>. QED  BY <1>1, <1>3 DEF RowOf

\* save writes the next block, and the database then holds the snapshot.
LEMMA WrittenHolds ==
  ASSUME NEW db, Intact(db), NEW snapshot, Holds(snapshot, db),
         snapshot.height < Len(BlockIndexes)
  PROVE  LET new == Following(snapshot)
         IN  /\ Intact(Written(db, new)) /\ Holds(new, Written(db, new))
             /\ Written(db, new).schema = db.schema
             /\ Written(db, new).height = new.height
             /\ Height(Written(db, new).height) = Height(db.height) + 1
             /\ Written(db, new) # db
<1> DEFINE new == Following(snapshot)
           w == Written(db, new)
           k == snapshot.height
<1>1. /\ Persisted(db).entries = snapshot.entries
      /\ k + 1 \in 1 .. Len(BlockIndexes) /\ new.height = k + 1
      /\ new.entries \in Seq(StoredEntry) /\ InConsensusOrder(new.entries)
      /\ Range(new.entries) = DecidedUpTo(k + 1)
      /\ SubSeq(new.entries, Len(snapshot.entries) + 1, Len(new.entries)) = Decided(k + 1)
  BY FollowingExtends
<1>2. k = Height(db.height) /\ k \in 0 .. Len(BlockIndexes)
  BY IntactReads DEF Holds
<1>3. k \in Nat /\ k + 1 \in Nat /\ 1 .. k + 1 = (1 .. k) \cup {k + 1} /\ k + 1 # 0
  BY <1>2, StoreBounds
<1>. HIDE DEF new
<1>4. w = [db EXCEPT !.rows = db.rows \cup NewRows(Decided(k + 1)), !.height = k + 1]
  BY <1>1 DEF Written
<1>5. /\ db \in Database /\ db.state = "whole"
      /\ db.rows = UNION {NewRows(Decided(h)) : h \in 1 .. k}
  BY <1>2 DEF Intact
<1>. HIDE DEF k
<1>6. /\ w.state = "whole" /\ w.schema = db.schema /\ w.height = k + 1
      /\ w.rows = db.rows \cup NewRows(Decided(k + 1))
      /\ w = [state |-> "whole", schema |-> db.schema, height |-> k + 1,
              rows |-> db.rows \cup NewRows(Decided(k + 1))]
      /\ db.schema \in BOOLEAN
  <2>. HIDE DEF w
  <2>. QED  BY <1>4, <1>5 DEF Database
<1>. HIDE DEF w
<1>7. w.rows = UNION {NewRows(Decided(h)) : h \in 1 .. k + 1}
  BY <1>3, <1>5, <1>6
<1>8. w.rows = RowsOf(DecidedUpTo(k + 1)) /\ DecidedUpTo(k + 1) \in SUBSET StoredEntry
      /\ k + 1 \in 0 .. Len(BlockIndexes)
  BY <1>1, <1>7, DecidedEntries
<1>9. w.rows \in SUBSET (Nat \X Seq(Nat))
  BY <1>8, RowTypes DEF RowsOf
<1>10. w \in Database
  BY <1>1, <1>6, <1>9 DEF Database
<1>11. Height(w.height) = k + 1
  BY <1>3, <1>6, HeightOf
<1>12. Intact(w)
  BY <1>6, <1>7, <1>10, <1>11 DEF Intact
<1>13. /\ Entries(w, 0) \in Seq(StoredEntry) /\ InConsensusOrder(Entries(w, 0))
       /\ Range(Entries(w, 0)) = DecidedUpTo(k + 1)
  <2>1. Range(Entries(w, 0)) = UNION {Range(Decided(h)) : h \in 0 + 1 .. k + 1}
        /\ Entries(w, 0) \in Seq(StoredEntry) /\ InConsensusOrder(Entries(w, 0))
    BY <1>11, <1>12, IntactReads
  <2>. QED  BY <2>1 DEF DecidedUpTo
<1>14. new.entries = Entries(w, 0)
  BY <1>1, <1>13, OneOrder DEF k
<1>15. Holds(new, w)
  BY <1>1, <1>11, <1>14 DEF Holds, k
<1>16. w # db
  <2>1. Height(w.height) # Height(db.height)
    BY <1>2, <1>3, <1>11 DEF k
  <2>. QED  BY <2>1
<1>. QED  BY <1>1, <1>2, <1>6, <1>11, <1>12, <1>15, <1>16 DEF new, w, k

\* Creating the tables changes nothing that is read.
LEMMA SchemaHolds ==
  ASSUME NEW db, Intact(db)
  PROVE  LET new == [db EXCEPT !.schema = TRUE]
         IN  /\ Intact(new) /\ new.schema /\ new.height = db.height
             /\ new.rows = db.rows
             /\ \A after : Entries(new, after) = Entries(db, after)
             /\ \A snapshot : Holds(snapshot, db) => Holds(snapshot, new)
             /\ db.schema => new = db
<1> DEFINE new == [db EXCEPT !.schema = TRUE]
<1>1. db \in Database
  BY DEF Intact
<1>2. /\ new \in Database /\ new.schema /\ new.height = db.height /\ new.rows = db.rows
      /\ new.state = db.state /\ (db.schema => new = db)
  BY <1>1 DEF Database
<1>. HIDE DEF new
<1>3. Intact(new)
  BY <1>2 DEF Intact
<1>4. \A after : Entries(new, after) = Entries(db, after)
  BY <1>2 DEF Entries
<1>5. \A snapshot : Holds(snapshot, db) => Holds(snapshot, new)
  BY <1>2, <1>4 DEF Holds
<1>. QED  BY <1>2, <1>3, <1>4, <1>5 DEF new

-----------------------------------------------------------------------------
(* The invariant of the database and its processes.                        *)

Connection ==
  [at : {"closed", "begin", "unlocked", "height", "rows"} \cup Writing,
   task : {"none", "schema", "load", "save"}, after : 0 .. Len(BlockIndexes), pages : Database,
   got : [height : Int, entries : Seq(StoredEntry)]]

StoreTypeOK ==
  /\ file = NoDatabase \/ file = TornFile \/ Intact(file)
  /\ journal = NoJournal \/ Intact(journal)
  /\ deleted = NoJournal \/ Intact(deleted)
  /\ session \in [Process -> Connection]
  /\ memory \in [height : Int, entries : Seq(StoredEntry)]
  /\ saved \in 0 .. Len(BlockIndexes) /\ storeKills \in Nat /\ storeLosses \in Nat

\* Before the node's first start there is nothing.
Untouched ==
  file = NoDatabase =>
    /\ journal = NoJournal /\ deleted = NoJournal
    /\ session = [p \in Process |-> Closed] /\ memory = Down /\ saved = 0

\* One process writes at a time, and while pages are being replaced, or wait to
\* be played back, nobody reads.
LocksExclude ==
  /\ \A p, q \in Process : session[p].at \in Writing /\ session[q].at \in Writing => p = q
  /\ \A p \in Process :
       /\ session[p].at \in {"reserved", "pending", "height", "rows"} => journal = NoJournal
       /\ session[p].at = "flushing" => journal # NoJournal /\ file = TornFile
  /\ file = TornFile => journal # NoJournal

\* The node's ledger is what a process that could read would find.
MemoryIsCommitted == memory # Down => Committed.schema /\ Holds(memory, Committed)

\* The pages of a transaction that writes: what it found, with what it is for.
PagesOf(s) ==
  IF s.task = "schema" THEN [Committed EXCEPT !.schema = TRUE] ELSE Written(Committed, s.got)

\* What a process has in hand is still true of the database.
Sound(p, s) ==
  /\ s.at = "closed" => s = Closed
  /\ s.at = "begin" \/ s.at \in Writing => s.task \in {"schema", "save"} /\ p \notin Watchers
  /\ p \notin Watchers => s.after = 0
  /\ s.task = "save" => /\ s.at = "begin" \/ s.at \in Writing
                        /\ p = NodeProcess /\ memory # Down
                        /\ memory.height < Len(BlockIndexes) /\ s.got = Following(memory)
  /\ s.at \in Writing => s.pages = PagesOf(s)
  /\ s.at \in {"height", "rows"} => Committed.schema /\ s.got.height = Height(Committed.height)
  /\ s.at = "rows" => s.got.entries = Entries(Committed, s.after)

\* Power losses take back one save at most: the one whose journal was deleted
\* last.  A journal comes back only until the next save is written, which
\* starts from what it left.
SavesSurvive ==
  /\ file # NoDatabase => Height(Committed.height) \in saved - 1 .. saved
  /\ storeLosses = 0 => Height(Committed.height) = saved
  /\ deleted # NoJournal => Height(deleted.height) \in saved - 1 .. Height(Committed.height)

StoreInv ==
  /\ StoreTypeOK /\ Untouched /\ LocksExclude /\ MemoryIsCommitted /\ SavesSurvive
  /\ \A p \in Process : Sound(p, session[p])

\* The kinds of file are told apart.
LEMMA Files ==
  /\ Intact(NewFile) /\ NewFile.height = NoHeight /\ ~NewFile.schema
  /\ NewFile \in Database
  /\ NoJournal = NoDatabase /\ TornFile # NoJournal /\ NewFile # NoJournal
  /\ \A db : Intact(db) => db # NoJournal /\ db # TornFile /\ Height(db.height) \in Nat
<1>1. NewFile \in Database /\ NewFile.state = "whole" /\ NewFile.rows = {}
      /\ NewFile.height = NoHeight /\ ~NewFile.schema
  BY DEF NewFile, Database
<1>2. Intact(NewFile)
  <2>1. Height(NewFile.height) = 0 /\ 1 .. 0 = {}
    BY <1>1, HeightOf
  <2>. QED  BY <1>1, <2>1 DEF Intact
<1>3. TornFile.state = "torn" /\ NoDatabase.state = "absent" /\ NoJournal = NoDatabase
  BY DEF TornFile, NoDatabase, NoJournal, NewFile
<1>4. ASSUME NEW db, Intact(db) PROVE db # NoJournal /\ db # TornFile /\ Height(db.height) \in Nat
  <2>1. db.state = "whole"
    BY <1>4 DEF Intact
  <2>2. Height(db.height) \in 0 .. Len(BlockIndexes)
    BY <1>4, IntactReads
  <2>. QED  BY <1>3, <2>1, <2>2, StoreBounds
<1>. QED  BY <1>1, <1>2, <1>3, <1>4

LEMMA ClosedIs ==
  /\ Closed \in Connection /\ Closed.at = "closed" /\ Closed.task = "none" /\ Closed.after = 0
  /\ Closed.got \in [height : Int, entries : Seq(StoredEntry)]
  /\ Down \in [height : Int, entries : Seq(StoredEntry)]
  /\ \A p : Sound(p, Closed)
<1>1. /\ Closed.at = "closed" /\ Closed.task = "none" /\ Closed.after = 0
      /\ Closed.pages = NewFile /\ Closed.got = EmptyLedger
  BY DEF Closed
<1>2. /\ EmptyLedger \in [height : Int, entries : Seq(StoredEntry)]
      /\ Down \in [height : Int, entries : Seq(StoredEntry)]
  BY EmptySeq DEF EmptyLedger, Down, NoHeight
<1>3. Closed \in Connection
  BY <1>2, Files, StoreBounds DEF Closed, Connection
<1>. QED  BY <1>1, <1>2, <1>3 DEF Sound, Writing

\* Where there is a file, the committed database is intact.
LEMMA CommittedIsIntact ==
  ASSUME StoreTypeOK, LocksExclude, file # NoDatabase
  PROVE  Intact(Committed)
BY Files DEF StoreTypeOK, LocksExclude, Committed

\* A process with a connection has a file.
LEMMA ConnectionHasFile ==
  ASSUME StoreInv, NEW p \in Process, session[p].at # "closed"
  PROVE  file # NoDatabase /\ Intact(Committed)
<1>1. file # NoDatabase
  BY ClosedIs DEF StoreInv, Untouched
<1>. QED  BY <1>1, CommittedIsIntact DEF StoreInv

\* A step of one process that leaves the files and the node's ledger alone.
LEMMA ConnectionStep ==
  ASSUME StoreInv, NEW p \in Process, NEW s \in Connection, Sound(p, s), file # NoDatabase,
         session' = [session EXCEPT ![p] = s],
         UNCHANGED <<file, journal, deleted, memory, saved, storeLosses>>, storeKills' \in Nat,
         s.at \in Writing => \A q \in Process \ {p} : session[q].at \notin Writing,
         s.at \in {"reserved", "pending", "height", "rows"} => journal = NoJournal,
         s.at # "flushing"
  PROVE  StoreInv'
<1>1. session' \in [Process -> Connection]
  BY DEF StoreInv, StoreTypeOK
<1>2. \A q \in Process : session'[q] = IF q = p THEN s ELSE session[q]
  BY DEF StoreInv, StoreTypeOK
<1>3. Committed' = Committed /\ \A t : PagesOf(t)' = PagesOf(t)
  BY DEF Committed, PagesOf
<1>4. StoreTypeOK'
  BY <1>1 DEF StoreInv, StoreTypeOK
<1>5. Untouched'
  BY DEF Untouched
<1>6. LocksExclude'
  <2>1. ASSUME NEW q \in Process, NEW r \in Process,
               session'[q].at \in Writing, session'[r].at \in Writing
        PROVE  q = r
    <3>1. CASE q = p /\ r # p
      BY <1>2, <2>1, <3>1
    <3>2. CASE q # p /\ r = p
      BY <1>2, <2>1, <3>2
    <3>3. CASE q # p /\ r # p
      BY <1>2, <2>1, <3>3 DEF StoreInv, LocksExclude
    <3>. QED  BY <3>1, <3>2, <3>3
  <2>2. ASSUME NEW q \in Process
        PROVE  /\ session'[q].at \in {"reserved", "pending", "height", "rows"} => journal = NoJournal
               /\ session'[q].at = "flushing" => journal # NoJournal /\ file = TornFile
    <3>1. CASE q = p
      BY <1>2, <3>1
    <3>2. CASE q # p
      BY <1>2, <3>2 DEF StoreInv, LocksExclude
    <3>. QED  BY <3>1, <3>2
  <2>. QED  BY <2>1, <2>2 DEF StoreInv, LocksExclude
<1>7. MemoryIsCommitted'
  BY <1>3 DEF StoreInv, MemoryIsCommitted
<1>8. SavesSurvive'
  BY <1>3 DEF StoreInv, SavesSurvive
<1>9. ASSUME NEW q \in Process PROVE Sound(q, session[q])'
  <2>1. Sound(q, session'[q])
    BY <1>2 DEF StoreInv
  <2>. QED  BY <1>3, <2>1 DEF Sound
<1>. QED  BY <1>4, <1>5, <1>6, <1>7, <1>8, <1>9 DEF StoreInv

LEMMA StoreStarts == StoreInit => StoreInv
<1>. SUFFICES ASSUME StoreInit PROVE StoreInv
  OBVIOUS
<1>1. /\ file = NoDatabase /\ journal = NoJournal /\ deleted = NoJournal
      /\ session = [p \in Process |-> Closed] /\ memory = Down /\ saved = 0
      /\ storeKills = 0 /\ storeLosses = 0
  BY DEF StoreInit
<1>2. \A p \in Process : session[p] = Closed
  BY <1>1
<1>3. StoreTypeOK
  BY <1>1, ClosedIs DEF StoreTypeOK
<1>4. LocksExclude
  BY <1>1, <1>2, ClosedIs, Files DEF LocksExclude, Writing
<1>5. SavesSurvive
  <2>1. Height(Committed.height) = 0
    BY <1>1 DEF Committed, NoDatabase, NewFile, Height
  <2>. QED  BY <1>1, <2>1 DEF SavesSurvive
<1>6. Untouched /\ MemoryIsCommitted
  BY <1>1 DEF Untouched, MemoryIsCommitted
<1>. QED  BY <1>2, <1>3, <1>4, <1>5, <1>6, ClosedIs DEF StoreInv

\* A connection opened, or closed, in a session that is closed.
LEMMA OpenedIs ==
  ASSUME NEW at \in {"begin", "unlocked"}, NEW task \in {"schema", "load", "none"}
  PROVE  LET s == [Closed EXCEPT !.at = at, !.task = task]
         IN  /\ s \in Connection /\ s.at = at /\ s.task = task /\ s.after = 0
             /\ \A p : (at = "begin" => task = "schema" /\ p \notin Watchers) => Sound(p, s)
<1> DEFINE s == [Closed EXCEPT !.at = at, !.task = task]
<1>1. s \in Connection /\ s.at = at /\ s.task = task /\ s.after = 0
  BY ClosedIs DEF Connection
<1>. HIDE DEF s
<1>2. ASSUME NEW p, at = "begin" => task = "schema" /\ p \notin Watchers PROVE Sound(p, s)
  BY <1>1, <1>2 DEF Sound, Writing
<1>. QED  BY <1>1, <1>2 DEF s

LEMMA StartNodeKeeps ==
  ASSUME StoreInv, StartNode
  PROVE  StoreInv'
<1> DEFINE s == [Closed EXCEPT !.at = "begin", !.task = "schema"]
<1>1. /\ memory = Down /\ session[NodeProcess] = Closed
      /\ file' = IF file = NoDatabase THEN NewFile ELSE file
      /\ session' = [session EXCEPT ![NodeProcess] = s]
      /\ UNCHANGED <<journal, deleted, memory, saved, storeKills, storeLosses>>
  BY DEF StartNode, Open, counters
<1>2. NodeProcess \in Process /\ NodeProcess \notin Watchers
  BY StoreConstants DEF Process
<1>3. s \in Connection /\ s.at = "begin" /\ \A p : p \notin Watchers => Sound(p, s)
  BY OpenedIs
<1>. HIDE DEF s
<1>4. s.at \notin Writing /\ s.at \notin {"reserved", "pending", "height", "rows"}
  BY <1>3 DEF Writing
<1>5. CASE file # NoDatabase
  <2>1. /\ UNCHANGED <<file, journal, deleted, memory, saved, storeLosses>>
        /\ storeKills' \in Nat /\ s.at # "flushing"
    BY <1>1, <1>3, <1>5 DEF StoreInv, StoreTypeOK
  <2>. QED  BY <1>1, <1>2, <1>3, <1>4, <1>5, <2>1, ConnectionStep
<1>6. CASE file = NoDatabase
  <2>1. /\ journal' = NoJournal /\ deleted' = NoJournal /\ saved' = 0 /\ memory' = Down
        /\ file' = NewFile /\ session = [p \in Process |-> Closed]
    BY <1>1, <1>6 DEF StoreInv, Untouched
  <2>2. Committed' = NewFile
    BY <2>1 DEF Committed
  <2>3. session' \in [Process -> Connection]
    BY <1>1, <1>3 DEF StoreInv, StoreTypeOK
  <2>4. \A q \in Process : session'[q] = IF q = NodeProcess THEN s ELSE Closed
    BY <1>1, <1>2, <2>1
  <2>5. StoreTypeOK'
    BY <1>1, <2>1, <2>3, Files DEF StoreInv, StoreTypeOK
  <2>6. Untouched' /\ MemoryIsCommitted'
    BY <2>1, Files DEF Untouched, MemoryIsCommitted
  <2>7. LocksExclude'
    <3>1. \A q \in Process : session'[q].at \in {"begin", "closed"}
      BY <1>3, <2>4, ClosedIs
    <3>. QED  BY <2>1, <3>1, Files DEF LocksExclude, Writing
  <2>8. SavesSurvive'
    BY <1>1, <2>1, <2>2, Files, HeightOf DEF SavesSurvive, StoreInv, StoreTypeOK
  <2>9. ASSUME NEW q \in Process PROVE Sound(q, session[q])'
    <3>1. CASE q = NodeProcess
      <4>1. session'[q] = s /\ s.task = "schema" /\ s.after = 0 /\ s.at = "begin"
        BY <1>3, <2>4, <3>1, OpenedIs DEF s
      <4>. QED  BY <1>2, <3>1, <4>1 DEF Sound, Writing
    <3>2. CASE q # NodeProcess
      <4>1. session'[q] = Closed
        BY <2>4, <3>2
      <4>. QED  BY <4>1, ClosedIs DEF Sound, Writing
    <3>. QED  BY <3>1, <3>2
  <2>. QED  BY <2>5, <2>6, <2>7, <2>8, <2>9 DEF StoreInv
<1>. QED  BY <1>5, <1>6

LEMMA SaveBlockKeeps ==
  ASSUME StoreInv, SaveBlock
  PROVE  StoreInv'
<1> DEFINE s == [Closed EXCEPT !.at = "begin", !.task = "save", !.got = Following(memory)]
<1>1. /\ memory # Down /\ session[NodeProcess] = Closed /\ memory.height < Len(BlockIndexes)
      /\ session' = [session EXCEPT ![NodeProcess] = s]
      /\ UNCHANGED <<file, journal, deleted, memory, saved, storeLosses, storeKills>>
  BY DEF SaveBlock, counters, Following
<1>2. NodeProcess \in Process /\ NodeProcess \notin Watchers
  BY StoreConstants DEF Process
<1>3. file # NoDatabase
  BY <1>1 DEF StoreInv, Untouched
<1>4. Intact(Committed) /\ Holds(memory, Committed)
  BY <1>1, <1>3, CommittedIsIntact DEF StoreInv, MemoryIsCommitted
<1>5. Following(memory) \in [height : Int, entries : Seq(StoredEntry)]
  <2>1. /\ memory.height + 1 \in 1 .. Len(BlockIndexes)
        /\ Following(memory).height = memory.height + 1
        /\ Following(memory).entries \in Seq(StoredEntry)
    BY <1>1, <1>4, FollowingExtends
  <2>2. memory.height + 1 \in Int
    BY <2>1, StoreBounds
  <2>3. Following(memory) = [height |-> Following(memory).height,
                             entries |-> Following(memory).entries]
    BY DEF Following
  <2>. QED  BY <2>1, <2>2, <2>3
<1>6. /\ s \in Connection /\ s.at = "begin" /\ s.task = "save" /\ s.after = 0
      /\ s.got = Following(memory)
  BY <1>5, ClosedIs DEF Connection
<1>. HIDE DEF s
<1>7. Sound(NodeProcess, s)
  BY <1>1, <1>2, <1>6 DEF Sound, Writing
<1>8. /\ s.at \notin Writing /\ s.at \notin {"reserved", "pending", "height", "rows"}
      /\ s.at # "flushing" /\ storeKills' \in Nat
  BY <1>1, <1>6 DEF Writing, StoreInv, StoreTypeOK
<1>. QED  BY <1>1, <1>2, <1>3, <1>6, <1>7, <1>8, ConnectionStep

LEMMA QueryKeeps ==
  ASSUME StoreInv, NEW p \in Queries, Query(p)
  PROVE  StoreInv'
<1> DEFINE s == [Closed EXCEPT !.at = "begin", !.task = "schema"]
<1>1. /\ file # NoDatabase /\ session' = [session EXCEPT ![p] = s]
      /\ UNCHANGED <<file, journal, deleted, memory, saved, storeLosses, storeKills>>
  BY DEF Query, Open, counters
<1>2. p \in Process /\ p \notin Watchers
  BY StoreConstants DEF Process
<1>3. s \in Connection /\ s.at = "begin" /\ Sound(p, s)
  BY <1>2, OpenedIs
<1>. HIDE DEF s
<1>4. /\ s.at \notin Writing /\ s.at \notin {"reserved", "pending", "height", "rows"}
      /\ s.at # "flushing" /\ storeKills' \in Nat
  BY <1>1, <1>3 DEF Writing, StoreInv, StoreTypeOK
<1>. QED  BY <1>1, <1>2, <1>3, <1>4, ConnectionStep

LEMMA WatchKeeps ==
  ASSUME StoreInv, NEW p \in Watchers, Watch(p)
  PROVE  StoreInv'
<1>1. PICK height \in 0 .. saved :
        session' = [session EXCEPT ![p] = [Closed EXCEPT !.at = "unlocked", !.after = height]]
  BY DEF Watch
<1> DEFINE s == [Closed EXCEPT !.at = "unlocked", !.after = height]
<1>2. /\ file # NoDatabase /\ p \in Process
      /\ UNCHANGED <<file, journal, deleted, memory, saved, storeLosses, storeKills>>
  BY DEF Watch, counters, Process
<1>3. height \in 0 .. Len(BlockIndexes)
  BY StoreBounds DEF StoreInv, StoreTypeOK
<1>4. s \in Connection /\ s.at = "unlocked" /\ s.task = "none"
  BY <1>3, ClosedIs DEF Connection
<1>. HIDE DEF s
<1>5. Sound(p, s)
  BY <1>4 DEF Sound, Writing
<1>6. /\ s.at \notin Writing /\ s.at \notin {"reserved", "pending", "height", "rows"}
      /\ s.at # "flushing" /\ storeKills' \in Nat
  BY <1>2, <1>4 DEF Writing, StoreInv, StoreTypeOK
<1>. QED  BY <1>1, <1>2, <1>4, <1>5, <1>6, ConnectionStep DEF s

\* The pages of a transaction that writes are an intact database.
LEMMA PagesAreIntact ==
  ASSUME StoreInv, NEW p \in Process,
         session[p].at = "begin" \/ session[p].at \in Writing
  PROVE  /\ Intact(PagesOf(session[p])) /\ file # NoDatabase /\ Intact(Committed)
         /\ session[p].task = "schema" =>
              /\ PagesOf(session[p]) = [Committed EXCEPT !.schema = TRUE]
              /\ PagesOf(session[p]).height = Committed.height /\ PagesOf(session[p]).schema
              /\ \A snapshot : Holds(snapshot, Committed) => Holds(snapshot, PagesOf(session[p]))
         /\ session[p].task # "schema" =>
              /\ session[p].task = "save" /\ p = NodeProcess /\ memory # Down
              /\ PagesOf(session[p]) # Committed
              /\ Holds(session[p].got, PagesOf(session[p])) /\ PagesOf(session[p]).schema
              /\ Height(PagesOf(session[p]).height) = Height(Committed.height) + 1
<1> DEFINE s == session[p]
<1>1. file # NoDatabase /\ Intact(Committed)
  BY ConnectionHasFile DEF Writing
<1>2. s.task \in {"schema", "save"} /\ Sound(p, s)
  BY DEF StoreInv, Sound
<1>. HIDE DEF s
<1>3. CASE s.task = "schema"
  <2>1. PagesOf(s) = [Committed EXCEPT !.schema = TRUE]
    BY <1>3 DEF PagesOf
  <2>. QED  BY <1>1, <1>3, <2>1, SchemaHolds DEF s
<1>4. CASE s.task # "schema"
  <2>1. /\ s.task = "save" /\ p = NodeProcess /\ memory # Down
        /\ memory.height < Len(BlockIndexes) /\ s.got = Following(memory)
        /\ PagesOf(s) = Written(Committed, s.got)
    BY <1>2, <1>4 DEF Sound, PagesOf
  <2>2. Holds(memory, Committed) /\ Committed.schema
    BY <2>1 DEF StoreInv, MemoryIsCommitted
  <2>3. /\ Intact(PagesOf(s)) /\ Holds(s.got, PagesOf(s)) /\ PagesOf(s) # Committed
        /\ PagesOf(s).schema = Committed.schema
        /\ Height(PagesOf(s).height) = Height(Committed.height) + 1
    <3> DEFINE new == Following(memory)
               w == Written(Committed, new)
    <3>1. /\ Intact(w) /\ Holds(new, w) /\ w # Committed /\ w.schema = Committed.schema
          /\ Height(w.height) = Height(Committed.height) + 1
      BY <1>1, <2>1, <2>2, WrittenHolds
    <3>2. PagesOf(s) = w /\ s.got = new
      BY <2>1
    <3>. HIDE DEF w, new
    <3>. QED  BY <3>1, <3>2
  <2>. QED  BY <1>1, <1>4, <2>1, <2>2, <2>3 DEF s
<1>. QED  BY <1>3, <1>4

LEMMA BeginImmediateKeeps ==
  ASSUME StoreInv, NEW p \in Process, BeginImmediate(p)
  PROVE  StoreInv'
<1> DEFINE s == session[p]
           t == [s EXCEPT !.at = "reserved", !.pages = PagesOf(s)]
<1>1. /\ s.at = "begin" /\ ~Hot /\ ~Others(p, Writing)
      /\ UNCHANGED <<file, journal, deleted, memory, saved, storeLosses, storeKills>>
  BY DEF BeginImmediate, counters
<1>2. \A q \in Process \ {p} : session[q].at \notin Writing
  BY <1>1 DEF Others
<1>3. journal = NoJournal
  <2>1. \A q \in Process : session[q].at # "flushing"
    BY <1>1, <1>2 DEF Writing
  <2>. QED  BY <1>1, <2>1 DEF Hot
<1>4. Committed = file
  BY <1>3 DEF Committed
<1>5. /\ s \in Connection /\ Sound(p, s)
  BY DEF StoreInv, StoreTypeOK
<1>6. Intact(PagesOf(s)) /\ file # NoDatabase
  BY <1>1, PagesAreIntact
<1>7. t \in Connection /\ t = [s EXCEPT !.at = "reserved", !.pages = PagesOf(s)]
      /\ t.at = "reserved" /\ t.pages = PagesOf(s) /\ t.task = s.task /\ t.after = s.after
      /\ t.got = s.got
  <2>. HIDE DEF s
  <2>. QED  BY <1>5, <1>6 DEF Connection, Intact, Writing
<1>8. session' = [session EXCEPT ![p] = t]
  <2>1. PagesOf(s) = IF session[p].task = "schema" THEN [file EXCEPT !.schema = TRUE]
                     ELSE Written(file, session[p].got)
    BY <1>4 DEF PagesOf
  <2>2. session' = [session EXCEPT ![p].at = "reserved", ![p].pages = PagesOf(s)]
    BY <2>1 DEF BeginImmediate
  <2>. QED  BY <2>2 DEF StoreInv, StoreTypeOK
<1>9. PagesOf(t) = PagesOf(s)
  BY <1>7 DEF PagesOf
<1>10. Sound(p, t)
  <2>. HIDE DEF s, t
  <2>. QED  BY <1>1, <1>5, <1>7, <1>9 DEF Sound, Writing
<1>11. storeKills' \in Nat
  BY <1>1 DEF StoreInv, StoreTypeOK
<1>. HIDE DEF t
<1>. QED  BY <1>1, <1>2, <1>3, <1>6, <1>7, <1>8, <1>10, <1>11, ConnectionStep

LEMMA CommitKeeps ==
  ASSUME StoreInv, NEW p \in Process, Commit(p)
  PROVE  StoreInv'
<1> DEFINE s == session[p]
<1>1. /\ s.at = "reserved" /\ s.at \in Writing
      /\ UNCHANGED <<file, journal, deleted, storeLosses, storeKills>>
      /\ IF s.pages = file THEN AfterCommit(p)
                           ELSE Proceed(p, "pending") /\ UNCHANGED <<memory, saved>>
  BY DEF Commit, counters, Writing
<1>2. /\ journal = NoJournal /\ s \in Connection /\ Sound(p, s)
      /\ \A q \in Process \ {p} : session[q].at \notin Writing
  BY <1>1 DEF StoreInv, StoreTypeOK, LocksExclude
<1>3. Committed = file /\ s.pages = PagesOf(s)
  BY <1>1, <1>2 DEF Committed, Sound
<1>4. file # NoDatabase /\ (s.task # "schema" => PagesOf(s) # Committed)
  BY <1>1, PagesAreIntact
<1>5. storeKills' \in Nat
  BY <1>1 DEF StoreInv, StoreTypeOK
<1>6. CASE s.pages = file
  <2> DEFINE t == [Closed EXCEPT !.at = "unlocked", !.task = "load"]
  <2>1. s.task = "schema"
    BY <1>3, <1>4, <1>6
  <2>2. session' = [session EXCEPT ![p] = t] /\ UNCHANGED <<memory, saved>>
    BY <1>1, <1>6, <2>1 DEF AfterCommit, Open
  <2>3. t \in Connection /\ t.at = "unlocked" /\ Sound(p, t)
    BY OpenedIs
  <2>. HIDE DEF t
  <2>4. /\ t.at \notin Writing /\ t.at \notin {"reserved", "pending", "height", "rows"}
        /\ t.at # "flushing"
    BY <2>3 DEF Writing
  <2>. QED  BY <1>1, <1>4, <1>5, <2>2, <2>3, <2>4, ConnectionStep
<1>7. CASE s.pages # file
  <2> DEFINE t == [s EXCEPT !.at = "pending"]
  <2>1. session' = [session EXCEPT ![p] = t] /\ UNCHANGED <<memory, saved>>
    BY <1>1, <1>7 DEF Proceed, StoreInv, StoreTypeOK
  <2>2. /\ t \in Connection /\ t.at = "pending" /\ t.pages = s.pages /\ t.task = s.task
        /\ t.after = s.after /\ t.got = s.got
    <3>. HIDE DEF s
    <3>. QED  BY <1>2 DEF Connection, Writing
  <2>. HIDE DEF s, t
  <2>3. PagesOf(t) = PagesOf(s)
    BY <2>2 DEF PagesOf
  <2>4. Sound(p, t)
    BY <1>1, <1>2, <2>2, <2>3 DEF Sound, Writing
  <2>. QED  BY <1>1, <1>2, <1>4, <1>5, <2>1, <2>2, <2>4, ConnectionStep
<1>. QED  BY <1>6, <1>7

LEMMA FlushKeeps ==
  ASSUME StoreInv, NEW p \in Process, Flush(p)
  PROVE  StoreInv'
<1> DEFINE s == session[p]
           t == [s EXCEPT !.at = "flushing"]
<1>1. /\ s.at = "pending" /\ s.at \in Writing
      /\ \A q \in Process \ {p} : session[q].at \notin Sharing
      /\ journal' = file /\ deleted' = NoJournal /\ file' = TornFile
      /\ session' = [session EXCEPT ![p] = t]
      /\ UNCHANGED <<memory, saved, storeLosses, storeKills>>
  BY DEF Flush, Others, Proceed, counters, Writing, StoreInv, StoreTypeOK
<1>2. journal = NoJournal /\ Committed = file
  BY <1>1 DEF StoreInv, LocksExclude, Committed
<1>3. Intact(Committed) /\ file # NoDatabase
  BY <1>1, ConnectionHasFile
<1>4. /\ journal' # NoJournal /\ Committed' = Committed
      /\ file' # NoDatabase
  BY <1>1, <1>2, <1>3, Files DEF Committed
<1>5. s \in Connection /\ Sound(p, s)
  BY DEF StoreInv, StoreTypeOK
<1>6. /\ t \in Connection /\ t.at = "flushing" /\ t.pages = s.pages /\ t.task = s.task
      /\ t.after = s.after /\ t.got = s.got
  <2>. HIDE DEF s
  <2>. QED  BY <1>5 DEF Connection, Writing
<1>. HIDE DEF t
<1>7. \A q \in Process : session'[q] = IF q = p THEN t ELSE session[q]
  BY <1>1 DEF StoreInv, StoreTypeOK
<1>8. StoreTypeOK'
  BY <1>1, <1>2, <1>3, <1>6 DEF StoreInv, StoreTypeOK
<1>9. Untouched'
  BY <1>4 DEF Untouched
<1>10. LocksExclude'
  BY <1>1, <1>4, <1>6, <1>7 DEF LocksExclude, Sharing, Writing
<1>11. MemoryIsCommitted'
  BY <1>1, <1>4 DEF StoreInv, MemoryIsCommitted
<1>12. SavesSurvive'
  BY <1>1, <1>3, <1>4 DEF StoreInv, SavesSurvive
<1>13. ASSUME NEW q \in Process PROVE Sound(q, session[q])'
  <2>1. \A r : PagesOf(r)' = PagesOf(r)
    BY <1>4 DEF PagesOf
  <2>2. CASE q = p
    <3>1. PagesOf(t) = PagesOf(s)
      BY <1>6 DEF PagesOf
    <3>2. Sound(p, t)
      <4>. HIDE DEF s
      <4>. QED  BY <1>1, <1>5, <1>6, <3>1 DEF Sound, Writing
    <3>. QED  BY <1>1, <1>4, <1>7, <2>1, <2>2, <3>2 DEF Sound
  <2>3. CASE q # p
    <3>1. Sound(q, session[q]) /\ session'[q] = session[q]
      BY <1>7, <2>3 DEF StoreInv
    <3>. QED  BY <1>1, <1>4, <2>1, <3>1 DEF Sound
  <2>. QED  BY <2>2, <2>3
<1>. QED  BY <1>8, <1>9, <1>10, <1>11, <1>12, <1>13 DEF StoreInv

LEMMA EndCommitKeeps ==
  ASSUME StoreInv, NEW p \in Process, EndCommit(p)
  PROVE  StoreInv'
<1> DEFINE s == session[p]
           c == Committed
           pages == PagesOf(s)
<1>1. /\ s.at = "flushing" /\ s.at \in Writing
      /\ file' = s.pages /\ journal' = NoJournal /\ deleted' = journal
      /\ AfterCommit(p) /\ UNCHANGED <<storeLosses, storeKills>>
  BY DEF EndCommit, counters, Writing
<1>2. journal # NoJournal /\ Committed = journal
  BY <1>1 DEF StoreInv, LocksExclude, Committed
<1>3. s.pages = pages /\ file' = pages
  BY <1>1 DEF StoreInv, Sound
<1>4. /\ Intact(pages) /\ file # NoDatabase /\ Intact(c)
      /\ s.task = "schema" =>
           /\ pages.height = c.height /\ pages.schema
           /\ \A snapshot : Holds(snapshot, c) => Holds(snapshot, pages)
      /\ s.task # "schema" =>
           /\ s.task = "save" /\ p = NodeProcess
           /\ Holds(s.got, pages) /\ pages.schema
           /\ Height(pages.height) = Height(c.height) + 1
  BY <1>1, PagesAreIntact
<1>5. s \in Connection /\ deleted' = c /\ Height(c.height) \in Nat
  BY <1>1, <1>2, <1>4, Files DEF StoreInv, StoreTypeOK
<1>. HIDE DEF pages
<1>6. Committed' = pages /\ file' # NoDatabase /\ file' # TornFile
  BY <1>1, <1>3, <1>4, Files DEF Committed
<1> DEFINE t == IF s.task = "schema" THEN [Closed EXCEPT !.at = "unlocked", !.task = "load"] ELSE Closed
<1>7. /\ session' = [session EXCEPT ![p] = t]
      /\ s.task = "schema" => UNCHANGED <<memory, saved>>
      /\ s.task # "schema" => memory' = s.got /\ saved' = s.got.height
  BY <1>1 DEF AfterCommit, Open, Close
<1>8. t \in Connection /\ t.at \in {"unlocked", "closed"} /\ Sound(p, t)
      /\ t.task \in {"load", "none"} /\ t.after = 0 /\ (t.at = "closed" => t = Closed)
  BY OpenedIs, ClosedIs
<1>. HIDE DEF t
<1>9. \A q \in Process : session'[q] = IF q = p THEN t ELSE session[q]
  BY <1>7 DEF StoreInv, StoreTypeOK
<1>10. \A q \in Process \ {p} :
         session[q].at \notin Writing /\ session[q].at \notin {"height", "rows"}
  BY <1>1, <1>2 DEF StoreInv, LocksExclude
<1>11. saved' \in 0 .. Len(BlockIndexes) /\ saved' \in Nat
  <2>1. CASE s.task = "schema"
    BY <1>7, <2>1, StoreBounds DEF StoreInv, StoreTypeOK
  <2>2. CASE s.task # "schema"
    <3>1. Height(pages.height) \in 0 .. Len(BlockIndexes)
      BY <1>4, IntactReads
    <3>. QED  BY <1>4, <1>7, <2>2, <3>1, StoreBounds DEF Holds
  <2>. QED  BY <2>1, <2>2
<1>12. StoreTypeOK'
  <2>1. session' \in [Process -> Connection]
    BY <1>7, <1>8 DEF StoreInv, StoreTypeOK
  <2>2. Intact(file)' /\ (deleted = NoJournal \/ Intact(deleted))'
    <3>1. Intact(file') /\ Intact(deleted')
      BY <1>3, <1>4, <1>5
    <3>. QED  BY <3>1 DEF Intact
  <2>3. memory' \in [height : Int, entries : Seq(StoredEntry)]
    <3>1. s.got \in [height : Int, entries : Seq(StoredEntry)]
      BY <1>5 DEF Connection
    <3>. QED  BY <1>7, <3>1 DEF StoreInv, StoreTypeOK
  <2>. QED  BY <1>1, <1>11, <2>1, <2>2, <2>3 DEF StoreInv, StoreTypeOK
<1>13. Untouched'
  BY <1>6 DEF Untouched
<1>14. LocksExclude'
  <2>1. \A q \in Process : /\ session'[q].at \notin Writing
                           /\ session'[q].at \notin {"reserved", "pending", "height", "rows"}
                           /\ session'[q].at # "flushing"
    BY <1>8, <1>9, <1>10 DEF Writing
  <2>. QED  BY <1>6, <2>1 DEF LocksExclude
<1>15. MemoryIsCommitted'
  <2>1. memory' # Down => pages.schema /\ Holds(memory', pages)
    BY <1>4, <1>7 DEF StoreInv, MemoryIsCommitted
  <2>. QED  BY <1>6, <2>1 DEF MemoryIsCommitted, Holds
<1>16. SavesSurvive'
  <2>1. /\ saved \in Nat /\ saved' \in Nat
        /\ Height(c.height) \in saved - 1 .. saved
        /\ storeLosses = 0 => Height(c.height) = saved
    BY <1>4, <1>11 DEF StoreInv, StoreTypeOK, SavesSurvive
  <2>2. /\ Height(pages.height) \in saved' - 1 .. saved'
        /\ storeLosses = 0 => Height(pages.height) = saved'
        /\ Height(c.height) \in saved' - 1 .. Height(pages.height)
    <3>1. CASE s.task = "schema"
      <4>1. saved' = saved /\ Height(pages.height) = Height(c.height)
        BY <1>4, <1>7, <3>1
      <4>. HIDE DEF c
      <4>. QED  BY <1>5, <2>1, <4>1
    <3>2. CASE s.task # "schema"
      <4>1. saved' = Height(c.height) + 1 /\ Height(pages.height) = Height(c.height) + 1
        BY <1>4, <1>7, <3>2 DEF Holds
      <4>. HIDE DEF c
      <4>. QED  BY <1>5, <2>1, <4>1
    <3>. QED  BY <3>1, <3>2
  <2>3. storeLosses' = storeLosses
    BY <1>1
  <2>. QED  BY <1>5, <1>6, <2>2, <2>3 DEF SavesSurvive, Height
<1>17. ASSUME NEW q \in Process PROVE Sound(q, session[q])'
  <2>1. CASE q = p
    <3>1. session'[q] = t
      BY <1>9, <2>1
    <3>. QED  BY <1>8, <3>1 DEF Sound, Writing
  <2>2. CASE q # p
    <3>1. Sound(q, session[q]) /\ session'[q] = session[q]
          /\ session[q].at \notin Writing /\ session[q].at \notin {"height", "rows"}
      BY <1>9, <1>10, <2>2 DEF StoreInv
    <3>2. session[q].task = "save" => UNCHANGED memory
      <4>1. session[q].task = "save" => q = NodeProcess
        BY <3>1 DEF Sound
      <4>. QED  BY <1>4, <1>7, <2>2, <4>1
    <3>. QED  BY <3>1, <3>2 DEF Sound
  <2>. QED  BY <2>1, <2>2
<1>. QED  BY <1>12, <1>13, <1>14, <1>15, <1>16, <1>17 DEF StoreInv

LEMMA RollBackKeeps ==
  ASSUME StoreInv, NEW p \in Process, RollBack(p)
  PROVE  StoreInv'
<1>1. /\ file' = journal /\ journal' = NoJournal /\ journal # NoJournal
      /\ \A q \in Process : session[q].at # "flushing"
      /\ UNCHANGED <<deleted, session, memory, saved, storeLosses, storeKills>>
  BY DEF RollBack, Hot, counters
<1>2. \A q \in Process : /\ session[q].at \notin {"reserved", "pending", "height", "rows"}
                         /\ session[q].at # "flushing" /\ session[q].at \notin Writing
  BY <1>1 DEF StoreInv, LocksExclude, Writing
<1>3. Intact(journal)
  BY <1>1 DEF StoreInv, StoreTypeOK
<1>4. Committed' = Committed /\ file' # NoDatabase /\ file' # TornFile
  BY <1>1, <1>3, Files DEF Committed
<1>5. StoreTypeOK'
  <2>1. Intact(file)'
    <3>1. Intact(file')
      BY <1>1, <1>3
    <3>. QED  BY <3>1 DEF Intact
  <2>. QED  BY <1>1, <2>1 DEF StoreInv, StoreTypeOK
<1>6. Untouched'
  BY <1>4 DEF Untouched
<1>7. LocksExclude'
  BY <1>1, <1>2, <1>4 DEF LocksExclude
<1>8. MemoryIsCommitted'
  BY <1>1, <1>4 DEF StoreInv, MemoryIsCommitted
<1>9. SavesSurvive'
  <2>1. file # NoDatabase
    BY <1>1 DEF StoreInv, Untouched
  <2>. QED  BY <1>1, <1>4, <2>1 DEF StoreInv, SavesSurvive
<1>10. ASSUME NEW q \in Process PROVE Sound(q, session[q])'
  BY <1>1, <1>2, <1>4 DEF StoreInv, Sound
<1>. QED  BY <1>5, <1>6, <1>7, <1>8, <1>9, <1>10 DEF StoreInv

LEMMA ReadHeightKeeps ==
  ASSUME StoreInv, NEW p \in Process, ReadHeight(p)
  PROVE  StoreInv'
<1> DEFINE s == session[p]
           t == [s EXCEPT !.at = "height", !.got.height = Height(file.height)]
<1>1. /\ s.at = "unlocked" /\ ~Hot /\ ~Others(p, {"pending", "flushing"}) /\ file.schema
      /\ UNCHANGED <<file, journal, deleted, memory, saved, storeLosses, storeKills>>
  BY DEF ReadHeight, counters
<1>2. journal = NoJournal
  <2>1. \A q \in Process : session[q].at # "flushing"
    BY <1>1 DEF Others
  <2>. QED  BY <1>1, <2>1 DEF Hot
<1>3. Committed = file /\ file # NoDatabase /\ Intact(file)
  BY <1>1, <1>2, ConnectionHasFile DEF Committed
<1>4. /\ s \in Connection /\ Sound(p, s) /\ Height(file.height) \in Int
  BY <1>3, Files DEF StoreInv, StoreTypeOK
<1>5. /\ t \in Connection /\ t.at = "height" /\ t.got.height = Height(file.height)
      /\ t.task = s.task /\ t.after = s.after
  <2>. HIDE DEF s
  <2>. QED  BY <1>4 DEF Connection
<1>6. session' = [session EXCEPT ![p] = t]
  BY DEF ReadHeight, StoreInv, StoreTypeOK
<1>7. Sound(p, t)
  <2>. HIDE DEF s, t
  <2>. QED  BY <1>1, <1>3, <1>4, <1>5 DEF Sound, Writing
<1>8. storeKills' \in Nat /\ t.at \notin Writing /\ t.at # "flushing"
  BY <1>1, <1>5 DEF StoreInv, StoreTypeOK, Writing
<1>. HIDE DEF t
<1>. QED  BY <1>1, <1>2, <1>3, <1>5, <1>6, <1>7, <1>8, ConnectionStep

LEMMA ReadRowsKeeps ==
  ASSUME StoreInv, NEW p \in Process, ReadRows(p)
  PROVE  StoreInv'
<1> DEFINE s == session[p]
           t == [s EXCEPT !.at = "rows", !.got.entries = Entries(file, s.after)]
<1>1. /\ s.at = "height"
      /\ UNCHANGED <<file, journal, deleted, memory, saved, storeLosses, storeKills>>
  BY DEF ReadRows, counters
<1>2. journal = NoJournal
  BY <1>1 DEF StoreInv, LocksExclude
<1>3. Committed = file /\ file # NoDatabase /\ Intact(file)
  BY <1>1, <1>2, ConnectionHasFile DEF Committed
<1>4. s \in Connection /\ Sound(p, s)
  BY DEF StoreInv, StoreTypeOK
<1>5. Entries(file, s.after) \in Seq(StoredEntry)
  <2>1. s.after \in Nat
    BY <1>4 DEF Connection
  <2>. HIDE DEF s
  <2>. QED  BY <1>3, <2>1, IntactReads
<1>6. /\ t \in Connection /\ t.at = "rows" /\ t.got.entries = Entries(file, s.after)
      /\ t.got.height = s.got.height /\ t.task = s.task /\ t.after = s.after
  <2>. HIDE DEF s
  <2>. QED  BY <1>4, <1>5 DEF Connection
<1>7. session' = [session EXCEPT ![p] = t]
  BY DEF ReadRows, StoreInv, StoreTypeOK
<1>8. Sound(p, t)
  <2>. HIDE DEF s, t
  <2>. QED  BY <1>1, <1>3, <1>4, <1>6 DEF Sound, Writing
<1>9. storeKills' \in Nat /\ t.at \notin Writing /\ t.at # "flushing"
  BY <1>1, <1>6 DEF StoreInv, StoreTypeOK, Writing
<1>. HIDE DEF t
<1>. QED  BY <1>1, <1>2, <1>3, <1>6, <1>7, <1>8, <1>9, ConnectionStep

\* A process that lets go of its connection, and with it, if it is the node's,
\* perhaps of its ledger.
LEMMA CloseKeeps ==
  ASSUME StoreInv, NEW p \in Process, Close(p),
         UNCHANGED <<file, journal, deleted, saved, storeLosses>>, storeKills' \in Nat,
         memory' = memory \/ p = NodeProcess,
         memory' = memory \/ memory' = Down \/ (Committed.schema /\ Holds(memory', Committed)),
         memory' \in [height : Int, entries : Seq(StoredEntry)],
         file # NoDatabase
  PROVE  StoreInv'
<1>1. session' = [session EXCEPT ![p] = Closed]
  BY DEF Close
<1>2. \A q \in Process : session'[q] = IF q = p THEN Closed ELSE session[q]
  BY <1>1 DEF StoreInv, StoreTypeOK
<1>3. Committed' = Committed /\ \A r : PagesOf(r)' = PagesOf(r)
  BY DEF Committed, PagesOf
<1>4. StoreTypeOK'
  BY <1>1, ClosedIs DEF StoreInv, StoreTypeOK
<1>5. Untouched'
  BY DEF Untouched
<1>6. LocksExclude'
  <2>1. \A q \in Process : session'[q].at = "closed" \/ session'[q] = session[q]
    BY <1>2, ClosedIs
  <2>2. \A q \in Process : session'[q].at \in Writing => session[q].at \in Writing
    BY <2>1 DEF Writing
  <2>. QED  BY <2>1, <2>2 DEF StoreInv, LocksExclude
<1>7. MemoryIsCommitted'
  <2>1. memory' # Down => Committed.schema /\ Holds(memory', Committed)
    BY DEF StoreInv, MemoryIsCommitted
  <2>. QED  BY <1>3, <2>1 DEF MemoryIsCommitted, Holds
<1>8. SavesSurvive'
  BY <1>3 DEF StoreInv, SavesSurvive
<1>9. ASSUME NEW q \in Process PROVE Sound(q, session[q])'
  <2>1. CASE q = p
    BY <1>2, <2>1, ClosedIs DEF Sound, Writing
  <2>2. CASE q # p
    <3>1. Sound(q, session[q]) /\ session'[q] = session[q]
      BY <1>2, <2>2 DEF StoreInv
    <3>2. session[q].task = "save" => UNCHANGED memory
      BY <2>2, <3>1 DEF Sound
    <3>. QED  BY <1>3, <3>1, <3>2 DEF Sound
  <2>. QED  BY <2>1, <2>2
<1>. QED  BY <1>4, <1>5, <1>6, <1>7, <1>8, <1>9 DEF StoreInv

LEMMA EndReadKeeps ==
  ASSUME StoreInv, NEW p \in Process, EndRead(p)
  PROVE  StoreInv'
<1> DEFINE s == session[p]
<1>1. /\ s.at = "rows" /\ Close(p)
      /\ memory' = IF p = NodeProcess THEN s.got ELSE memory
      /\ UNCHANGED <<file, journal, deleted, saved, storeLosses>> /\ storeKills' \in Nat
  BY DEF EndRead, counters, StoreInv, StoreTypeOK
<1>2. file # NoDatabase
  BY <1>1, ConnectionHasFile
<1>3. Sound(p, s) /\ (p = NodeProcess => p \notin Watchers)
  BY StoreConstants DEF StoreInv
<1>4. p = NodeProcess => Committed.schema /\ Holds(memory', Committed)
  <2>. HIDE DEF s
  <2>. QED  BY <1>1, <1>3 DEF Sound, Holds
<1>5. memory' \in [height : Int, entries : Seq(StoredEntry)]
  <2>1. s.got \in [height : Int, entries : Seq(StoredEntry)]
    BY DEF StoreInv, StoreTypeOK, Connection
  <2>. QED  BY <1>1, <2>1 DEF StoreInv, StoreTypeOK
<1>. QED  BY <1>1, <1>2, <1>4, <1>5, CloseKeeps

LEMMA FailKeeps ==
  ASSUME StoreInv, NEW p \in Process, Fail(p)
  PROVE  StoreInv'
<1>1. /\ Close(p) /\ session[p].at # "closed" /\ memory' = memory
      /\ UNCHANGED <<file, journal, deleted, saved, storeLosses>> /\ storeKills' \in Nat
  BY DEF Fail, Blocked, Unreadable, counters, StoreInv, StoreTypeOK
<1>2. file # NoDatabase
  BY <1>1, ConnectionHasFile
<1>. QED  BY <1>1, <1>2, CloseKeeps DEF StoreInv, StoreTypeOK

LEMMA KillProcessKeeps ==
  ASSUME StoreInv, NEW p \in Process, KillProcess(p)
  PROVE  StoreInv'
<1>1. /\ Close(p) /\ (memory' = memory \/ (p = NodeProcess /\ memory' = Down))
      /\ UNCHANGED <<file, journal, deleted, saved, storeLosses>> /\ storeKills' \in Nat
      /\ session[p] # Closed \/ memory # Down
  BY DEF KillProcess, StoreInv, StoreTypeOK
<1>2. file # NoDatabase
  BY <1>1 DEF StoreInv, Untouched
<1>. QED  BY <1>1, <1>2, ClosedIs, CloseKeeps DEF StoreInv, StoreTypeOK

LEMMA LosePowerKeeps ==
  ASSUME StoreInv, LosePower
  PROVE  StoreInv'
<1>1. /\ session' = [p \in Process |-> Closed] /\ memory' = Down
      /\ storeLosses' = storeLosses + 1
      /\ UNCHANGED <<file, deleted, saved, storeKills>>
      /\ journal' \in IF journal = NoJournal THEN {NoJournal, deleted} ELSE {journal}
  BY DEF LosePower
<1>2. \A q \in Process : session'[q] = Closed
  BY <1>1
<1>3. saved \in Nat /\ storeLosses \in Nat
  BY DEF StoreInv, StoreTypeOK
<1>4. StoreTypeOK'
  <2>1. storeLosses' \in Nat
    BY <1>1, <1>3
  <2>2. journal' = NoJournal \/ Intact(journal')
    BY <1>1 DEF StoreInv, StoreTypeOK
  <2>3. memory' \in [height : Int, entries : Seq(StoredEntry)]
    BY <1>1, ClosedIs
  <2>. QED  BY <1>1, <2>1, <2>2, <2>3, ClosedIs DEF StoreInv, StoreTypeOK, Intact
<1>5. Untouched'
  BY <1>1 DEF StoreInv, Untouched
<1>6. LocksExclude'
  <2>1. file = TornFile => journal' # NoJournal
    BY <1>1 DEF StoreInv, LocksExclude
  <2>. QED  BY <1>1, <1>2, <2>1, ClosedIs DEF LocksExclude, Writing
<1>7. SavesSurvive'
  <2>1. ASSUME file # NoDatabase
        PROVE  Committed' = Committed \/ (deleted # NoJournal /\ Committed' = deleted)
    <3>1. CASE journal' = journal
      BY <1>1, <3>1 DEF Committed
    <3>2. CASE journal = NoJournal /\ journal' = deleted /\ deleted # NoJournal
      BY <3>2 DEF Committed
    <3>3. CASE journal = NoJournal /\ journal' = deleted /\ deleted = NoJournal
      BY <1>1, <3>3 DEF Committed
    <3>. QED  BY <1>1, <3>1, <3>2, <3>3
  <2>2. /\ file # NoDatabase => Intact(Committed)
        /\ deleted # NoJournal => Intact(deleted)
    BY CommittedIsIntact DEF StoreInv, StoreTypeOK
  <2>3. ASSUME file # NoDatabase
        PROVE  /\ Height((Committed').height) \in saved - 1 .. saved
               /\ deleted # NoJournal => Height(deleted.height) \in saved - 1 .. Height((Committed').height)
    <3>1. /\ Height(Committed.height) \in saved - 1 .. saved
          /\ deleted # NoJournal => Height(deleted.height) \in saved - 1 .. Height(Committed.height)
      BY <2>3 DEF StoreInv, SavesSurvive
    <3>2. CASE Committed' = Committed
      BY <3>1, <3>2
    <3>3. CASE deleted # NoJournal /\ Committed' = deleted
      <4>1. Height(deleted.height) \in Nat /\ Height(Committed.height) \in Nat
        BY <2>2, <2>3, <3>3, Files
      <4>. QED  BY <1>3, <3>1, <3>3, <4>1
    <3>. QED  BY <2>1, <2>3, <3>2, <3>3
  <2>4. storeLosses' # 0
    BY <1>1, <1>3
  <2>5. deleted # NoJournal => file # NoDatabase
    BY DEF StoreInv, Untouched
  <2>. QED  BY <1>1, <2>3, <2>4, <2>5 DEF SavesSurvive, Height
<1>8. MemoryIsCommitted'
  BY <1>1 DEF MemoryIsCommitted
<1>9. ASSUME NEW q \in Process PROVE Sound(q, session[q])'
  BY <1>2, ClosedIs DEF Sound, Writing
<1>. QED  BY <1>4, <1>5, <1>6, <1>7, <1>8, <1>9 DEF StoreInv

LEMMA StoreSteps == StoreInv /\ [StoreNext]_storeVars => StoreInv'
<1>. SUFFICES ASSUME StoreInv, [StoreNext]_storeVars PROVE StoreInv'
  OBVIOUS
<1>1. CASE StartNode
  BY <1>1, StartNodeKeeps
<1>2. CASE SaveBlock
  BY <1>2, SaveBlockKeeps
<1>3. CASE LosePower
  BY <1>3, LosePowerKeeps
<1>4. ASSUME NEW p \in Queries, Query(p) PROVE StoreInv'
  BY <1>4, QueryKeeps
<1>5. ASSUME NEW p \in Watchers, Watch(p) PROVE StoreInv'
  BY <1>5, WatchKeeps
<1>6. ASSUME NEW p \in Process,
             BeginImmediate(p) \/ Commit(p) \/ Flush(p) \/ EndCommit(p) \/ RollBack(p)
      PROVE  StoreInv'
  BY <1>6, BeginImmediateKeeps, CommitKeeps, FlushKeeps, EndCommitKeeps, RollBackKeeps
<1>7. ASSUME NEW p \in Process,
             ReadHeight(p) \/ ReadRows(p) \/ EndRead(p) \/ Fail(p) \/ KillProcess(p)
      PROVE  StoreInv'
  BY <1>7, ReadHeightKeeps, ReadRowsKeeps, EndReadKeeps, FailKeeps, KillProcessKeeps
<1>8. CASE UNCHANGED storeVars
  BY <1>8 DEF storeVars, StoreInv, StoreTypeOK, Untouched, LocksExclude, MemoryIsCommitted,
              SavesSurvive, Sound, PagesOf, Committed
<1>. QED  BY <1>1, <1>2, <1>3, <1>4, <1>5, <1>6, <1>7, <1>8 DEF StoreNext

\* Whatever the node, the queries and the inspector do, and whenever they are
\* killed or power fails, every file is what SQLite's locks and its journal
\* make of it.
THEOREM StoreInvariance == StoreSpec => []StoreInv
BY StoreStarts, StoreSteps, PTL DEF StoreSpec

\* What is read is one committed state in consensus order, and what was saved
\* stays.
THEOREM StoreStaysConsistent == StoreSpec => []StoreIsConsistent
<1>1. StoreInv => StoreIsConsistent
  <2>. SUFFICES ASSUME StoreInv PROVE ReadsAreCommitted /\ SavesAreKept
    BY DEF StoreIsConsistent
  <2>1. ASSUME NEW p \in Process, session[p].at = "rows"
        PROVE  /\ session[p].got.height = Height(Committed.height)
               /\ Range(session[p].got.entries) =
                    UNION {Range(Decided(h)) : h \in session[p].after + 1 .. session[p].got.height}
               /\ InConsensusOrder(session[p].got.entries)
    <3>1. Intact(Committed) /\ session[p].after \in Nat
      BY <2>1, ConnectionHasFile DEF StoreInv, StoreTypeOK, Connection
    <3>2. /\ session[p].got.height = Height(Committed.height)
          /\ session[p].got.entries = Entries(Committed, session[p].after)
      BY <2>1 DEF StoreInv, Sound
    <3>. QED  BY <3>1, <3>2, IntactReads
  <2>2. ReadsAreCommitted
    BY <2>1 DEF ReadsAreCommitted
  <2>3. file # NoDatabase =>
          /\ Committed.rows = UNION {NewRows(Decided(h)) : h \in 1 .. Height(Committed.height)}
          /\ Height(Committed.height) \in saved - (IF storeLosses = 0 THEN 0 ELSE 1) .. saved
    <3>1. saved \in Int
      BY DEF StoreInv, StoreTypeOK
    <3>. QED  BY <3>1, CommittedIsIntact DEF StoreInv, SavesSurvive, Intact
  <2>4. ASSUME session[NodeProcess].task = "save", session[NodeProcess].at = "begin"
        PROVE  ExtendsPersisted(Persisted(Committed), session[NodeProcess].got)
    <3>1. NodeProcess \in Process
      BY DEF Process
    <3>2. /\ memory # Down /\ memory.height < Len(BlockIndexes)
          /\ session[NodeProcess].got = Following(memory)
      BY <2>4, <3>1 DEF StoreInv, Sound
    <3>3. Intact(Committed) /\ Holds(memory, Committed)
      BY <2>4, <3>1, <3>2, ConnectionHasFile DEF StoreInv, MemoryIsCommitted
    <3>4. ExtendsPersisted(Persisted(Committed), Following(memory))
      BY <3>2, <3>3, FollowingExtends
    <3>. QED  BY <3>2, <3>4
  <2>5. SavesAreKept
    BY <2>3, <2>4 DEF SavesAreKept
  <2>. QED  BY <2>2, <2>5
<1>. QED  BY <1>1, StoreInvariance, PTL

-----------------------------------------------------------------------------
(* The refinement of the register.                                         *)

\* Intact databases of one height hold one ledger.
LEMMA HeightGivesLedger ==
  ASSUME NEW c, Intact(c), NEW d, Intact(d), Height(c.height) = Height(d.height)
  PROVE  Persisted(c) = Persisted(d)
<1> DEFINE s == Entries(c, 0)
           t == Entries(d, 0)
<1>1. /\ s \in Seq(StoredEntry) /\ InConsensusOrder(s)
      /\ Range(s) = UNION {Range(Decided(h)) : h \in 0 + 1 .. Height(c.height)}
      /\ t \in Seq(StoredEntry) /\ InConsensusOrder(t)
      /\ Range(t) = UNION {Range(Decided(h)) : h \in 0 + 1 .. Height(d.height)}
  BY IntactReads
<1>. HIDE DEF s, t
<1>2. s = t
  BY <1>1, OneOrder
<1>. QED  BY <1>2 DEF Persisted, s, t

\* A database without rows and without a height holds the empty ledger.
LEMMA NothingPersisted ==
  ASSUME NEW db, db.rows = {}, db.height = NoHeight
  PROVE  Persisted(db) = [height |-> 0, entries |-> <<>>]
<1>1. Height(db.height) = 0
  BY HeightOf
<1> DEFINE E == {}
           s == Entries(db, 0)
<1>2. E \in SUBSET StoredEntry /\ IsFiniteSet(E) /\ 0 \in Int /\ db.rows = RowsOf(E)
  BY FS_EmptySet DEF RowsOf
<1>3. {e \in E : e.height > 0} = {}
  OBVIOUS
<1>. HIDE DEF E
<1>4. s \in Seq(StoredEntry) /\ Range(s) = {e \in E : e.height > 0}
  BY <1>2, EntriesAreSelected
<1>. HIDE DEF s
<1>5. s = <<>>
  <2>1. Len(s) \in Nat /\ DOMAIN s = 1 .. Len(s)
    BY <1>4, LenProperties
  <2>2. ~(1 \in DOMAIN s)
    BY <1>3, <1>4 DEF Range
  <2>3. Len(s) = 0
    BY <2>1, <2>2
  <2>. QED  BY <1>4, <2>3, EmptySeq
<1>. QED  BY <1>1, <1>5 DEF Persisted, s

\* The database with the first blocks is intact.
LEMMA WithBlocksIs ==
  ASSUME NEW n \in -1 .. Len(BlockIndexes)
  PROVE  /\ Intact(WithBlocks(n))
         /\ Height(WithBlocks(n).height) = IF n < 1 THEN 0 ELSE n
<1>1. n \in Int /\ n <= Len(BlockIndexes) /\ Len(BlockIndexes) \in Nat
  BY StoreBounds
<1> DEFINE w == WithBlocks(n)
           k == IF n < 1 THEN 0 ELSE n
<1>2. k \in 0 .. Len(BlockIndexes) /\ 1 .. k = 1 .. n
  BY <1>1
<1>3. /\ w.state = "whole" /\ w.schema = FALSE
      /\ w.height = IF n < 1 THEN NoHeight ELSE n
      /\ w.rows = UNION {NewRows(Decided(h)) : h \in 1 .. n}
      /\ w = [state |-> w.state, schema |-> w.schema, height |-> w.height, rows |-> w.rows]
  <2> DEFINE height == IF n < 1 THEN NoHeight ELSE n
             rows == UNION {NewRows(Decided(h)) : h \in 1 .. n}
  <2>1. w = [NewFile EXCEPT !.height = height, !.rows = rows]
    BY DEF WithBlocks
  <2>. HIDE DEF w, height, rows
  <2>2. w = [state |-> "whole", schema |-> FALSE, height |-> height, rows |-> rows]
    BY <2>1 DEF NewFile
  <2>. QED  BY <2>2 DEF height, rows
<1>4. Height(w.height) = k
  <2>. HIDE DEF w
  <2>. QED  BY <1>1, <1>3, HeightOf
<1>5. w.rows \in SUBSET (Nat \X Seq(Nat))
  <2>1. w.rows = RowsOf(DecidedUpTo(k)) /\ DecidedUpTo(k) \in SUBSET StoredEntry
    BY <1>2, <1>3, DecidedEntries
  <2>2. ASSUME NEW e \in StoredEntry PROVE RowOf(e) \in Nat \X Seq(Nat)
    BY RowTypes
  <2>. HIDE DEF w
  <2>. QED  BY <2>1, <2>2 DEF RowsOf
<1>6. w \in Database
  <2>1. w.height \in {NoHeight} \cup 1 .. Len(BlockIndexes)
    BY <1>1, <1>3
  <2>. HIDE DEF w
  <2>. QED  BY <1>3, <1>5, <2>1 DEF Database
<1>. QED  BY <1>2, <1>3, <1>4, <1>6 DEF Intact

\* The entries after a height are what follows it in the ledger.
LEMMA EntriesFollow ==
  ASSUME NEW db, Intact(db), NEW after \in Nat
  PROVE  LET s == Persisted(db).entries
         IN  \E k \in 0 .. Len(s) :
               /\ \A i \in DOMAIN s : i <= k <=> s[i].height <= after
               /\ Entries(db, after) = SubSeq(s, k + 1, Len(s))
<1> DEFINE n == Height(db.height)
           m == IF after <= n THEN after ELSE n
           s == Entries(db, 0)
           f == Entries(WithBlocks(m), 0)
           t == Entries(db, after)
           u == f \o t
<1>1. /\ n \in 0 .. Len(BlockIndexes) /\ s \in Seq(StoredEntry) /\ InConsensusOrder(s)
      /\ Range(s) = UNION {Range(Decided(h)) : h \in 0 + 1 .. n}
      /\ t \in Seq(StoredEntry) /\ InConsensusOrder(t)
      /\ Range(t) = UNION {Range(Decided(h)) : h \in after + 1 .. n}
  BY IntactReads
<1>. HIDE DEF n
<1>2. /\ Len(BlockIndexes) \in Nat /\ n \in Nat /\ m \in 0 .. Len(BlockIndexes) /\ m \in Nat
      /\ m <= n /\ m <= after /\ m \in -1 .. Len(BlockIndexes)
      /\ \A h \in Int : h \in 0 + 1 .. n <=> h \in 0 + 1 .. m \/ h \in after + 1 .. n
  BY <1>1, StoreBounds
<1>. HIDE DEF m
<1>3. Intact(WithBlocks(m)) /\ Height(WithBlocks(m).height) = m
  BY <1>2, WithBlocksIs
<1>4. /\ f \in Seq(StoredEntry) /\ InConsensusOrder(f)
      /\ Range(f) = UNION {Range(Decided(h)) : h \in 0 + 1 .. m}
  BY <1>3, IntactReads
<1>. HIDE DEF s, f, t
<1>5. \A h \in 1 .. Len(BlockIndexes) : \A e \in Range(Decided(h)) : e.height = h
  BY DecidedIs
<1>6. ASSUME NEW i \in DOMAIN f PROVE f[i].height <= after
  <2>1. f[i] \in Range(f)
    BY DEF Range
  <2>2. PICK h \in 0 + 1 .. m : f[i] \in Range(Decided(h))
    BY <1>4, <2>1
  <2>3. h \in 1 .. Len(BlockIndexes) /\ h <= after
    BY <1>2
  <2>. QED  BY <1>5, <2>2, <2>3
<1>7. ASSUME NEW i \in DOMAIN t PROVE t[i].height > after
  <2>1. t[i] \in Range(t)
    BY DEF Range
  <2>2. PICK h \in after + 1 .. n : t[i] \in Range(Decided(h))
    BY <1>1, <2>1
  <2>3. h \in 1 .. Len(BlockIndexes) /\ h > after
    BY <1>1, <1>2
  <2>. QED  BY <1>5, <2>2, <2>3
<1>8. /\ u \in Seq(StoredEntry) /\ InConsensusOrder(u) /\ Range(u) = Range(f) \cup Range(t)
      /\ SubSeq(u, Len(f) + 1, Len(u)) = t /\ Len(f) \in 0 .. Len(u)
      /\ \A i \in DOMAIN u : i <= Len(f) <=> u[i].height <= after
  BY <1>1, <1>4, <1>6, <1>7, ConcatAtHeight
<1>. HIDE DEF u
<1>9. Range(u) = Range(s)
  BY <1>1, <1>2, <1>4, <1>8
<1>10. u = s
  BY <1>1, <1>8, <1>9, OneOrder
<1>11. Persisted(db).entries = s
  BY DEF Persisted, s
<1>. QED  BY <1>8, <1>10, <1>11 DEF t

\* What a process has read changes with its connection.
LEMMA AnswersStep ==
  ASSUME session \in [Process -> Connection], NEW p \in Process, NEW t,
         session' = [session EXCEPT ![p] = t]
  PROVE  /\ Answers' = [Answers EXCEPT ![p] = AnswerOf(t)]
         /\ AnswerOf(t) = AnswerOf(session[p]) => Answers' = Answers
<1>1. \A q \in Process : session'[q] = IF q = p THEN t ELSE session[q]
  OBVIOUS
<1>2. Answers' = [q \in Process |-> AnswerOf(session'[q])]
  BY DEF Answers, AnswerOf, NothingRead
<1>3. Answers = [q \in Process |-> AnswerOf(session[q])]
  BY DEF Answers
<1>. QED  BY <1>1, <1>2, <1>3

\* The steps of which the register knows nothing.
LEMMA Unseen ==
  ASSUME StoreInv, NEW p \in Process, NEW t, session' = [session EXCEPT ![p] = t],
         session[p].at # "rows", t.at # "rows",
         UNCHANGED <<StoredLedger, LedgerBefore, memory>>
  PROVE  UNCHANGED Register!registerVars
<1>1. AnswerOf(t) = NothingRead /\ AnswerOf(session[p]) = NothingRead
  BY DEF AnswerOf
<1>2. Answers' = Answers
  BY <1>1, AnswersStep DEF StoreInv, StoreTypeOK
<1>. QED  BY <1>2 DEF Register!registerVars

\* The ledger and the one before depend on the committed database and on saved.
LEMMA SameLedger ==
  /\ Committed' = Committed => StoredLedger' = StoredLedger
  /\ saved' = saved => LedgerBefore' = LedgerBefore
BY DEF StoredLedger, LedgerBefore, Persisted, Entries, WithBlocks, NewRows, Decided

\* Connections are opened, locks taken and journals played back unseen.
LEMMA OpeningUnseen ==
  ASSUME StoreInv, StartNode \/ SaveBlock \/ (\E p \in Queries : Query(p)) \/ (\E p \in Watchers : Watch(p))
  PROVE  UNCHANGED Register!registerVars
<1>1. /\ UNCHANGED <<journal, memory, saved>>
      /\ \E p \in Process : \E t : /\ session' = [session EXCEPT ![p] = t]
                                   /\ session[p] = Closed /\ t.at # "rows"
  <2>1. CASE StartNode
    <3> DEFINE t == [Closed EXCEPT !.at = "begin", !.task = "schema"]
    <3>1. t.at # "rows"
      BY OpenedIs
    <3>. HIDE DEF t
    <3>. QED  BY <2>1, <3>1 DEF StartNode, Open, Process, t
  <2>2. CASE SaveBlock
    <3> DEFINE t == [Closed EXCEPT !.at = "begin", !.task = "save", !.got = Following(memory)]
    <3>1. t.at # "rows"
      BY ClosedIs DEF Connection
    <3>. HIDE DEF t
    <3>2. NodeProcess \in Process /\ session[NodeProcess] = Closed
          /\ session' = [session EXCEPT ![NodeProcess] = t]
      BY <2>2 DEF SaveBlock, Process, Following, t
    <3>. QED  BY <2>2, <3>1, <3>2 DEF SaveBlock
  <2>3. ASSUME NEW p \in Queries, Query(p)
        PROVE  \E t : session' = [session EXCEPT ![p] = t] /\ session[p] = Closed /\ t.at # "rows"
    <3> DEFINE t == [Closed EXCEPT !.at = "begin", !.task = "schema"]
    <3>1. t.at # "rows"
      BY OpenedIs
    <3>. HIDE DEF t
    <3>. QED  BY <2>3, <3>1 DEF Query, Open, t
  <2>4. ASSUME NEW p \in Watchers, Watch(p)
        PROVE  \E t : session' = [session EXCEPT ![p] = t] /\ session[p] = Closed /\ t.at # "rows"
    <3>1. PICK height \in 0 .. saved :
            session' = [session EXCEPT ![p] = [Closed EXCEPT !.at = "unlocked", !.after = height]]
      BY <2>4 DEF Watch
    <3> DEFINE t == [Closed EXCEPT !.at = "unlocked", !.after = height]
    <3>2. t.at # "rows"
      BY ClosedIs DEF Connection
    <3>. HIDE DEF t
    <3>. QED  BY <2>4, <3>1, <3>2 DEF Watch, t
  <2>5. Queries \subseteq Process /\ Watchers \subseteq Process
    BY DEF Process
  <2>6. UNCHANGED <<journal, memory, saved>>
    BY DEF StartNode, SaveBlock, Query, Watch
  <2>. QED  BY <2>1, <2>2, <2>3, <2>4, <2>5, <2>6
<1>2. StoredLedger' = StoredLedger
  <2>1. CASE file' = file
    <3>1. Committed' = Committed
      BY <1>1, <2>1 DEF Committed
    <3>. QED  BY <3>1, SameLedger
  <2>2. CASE file' # file
    <3>1. file = NoDatabase /\ file' = NewFile /\ journal = NoJournal
      BY <2>2 DEF StartNode, SaveBlock, Query, Watch, StoreInv, Untouched
    <3>2. Committed = NoDatabase /\ Committed' = NewFile
      BY <1>1, <3>1 DEF Committed
    <3>3. /\ NoDatabase.rows = {} /\ NoDatabase.height = NoHeight
          /\ NewFile.rows = {} /\ NewFile.height = NoHeight
      BY DEF NoDatabase, NewFile
    <3>4. Persisted(Committed') = Persisted(Committed)
      BY <3>2, <3>3, NothingPersisted
    <3>. QED  BY <3>4 DEF StoredLedger
  <2>. QED  BY <2>1, <2>2
<1>3. PICK p \in Process : \E t : /\ session' = [session EXCEPT ![p] = t]
                                  /\ session[p] = Closed /\ t.at # "rows"
  BY <1>1
<1>4. session[p].at # "rows"
  BY <1>3, ClosedIs
<1>. QED  BY <1>1, <1>2, <1>3, <1>4, SameLedger, Unseen

\* Creating the tables leaves the ledger alone.
LEMMA SchemaUnseen ==
  ASSUME NEW db, Intact(db)
  PROVE  Persisted([db EXCEPT !.schema = TRUE]) = Persisted(db)
<1> DEFINE new == [db EXCEPT !.schema = TRUE]
<1>1. new.height = db.height /\ Entries(new, 0) = Entries(db, 0)
  BY SchemaHolds
<1>. HIDE DEF new
<1>2. Persisted(new) = Persisted(db)
  BY <1>1 DEF Persisted
<1>. QED  BY <1>2 DEF new

\* A transaction that is under way is seen by nobody.
LEMMA TransactionUnseen ==
  ASSUME StoreInv, NEW p \in Process,
         BeginImmediate(p) \/ Commit(p) \/ Flush(p) \/ ReadHeight(p)
  PROVE  UNCHANGED Register!registerVars
<1> DEFINE s == session[p]
           t == session'[p]
<1>1. session \in [Process -> Connection] /\ s \in Connection /\ Sound(p, s)
  BY DEF StoreInv, StoreTypeOK
<1>2. /\ session' = [session EXCEPT ![p] = t] /\ s.at # "rows" /\ t.at # "rows"
      /\ UNCHANGED <<memory, saved>>
  <2>1. CASE BeginImmediate(p)
    BY <1>1, <2>1 DEF BeginImmediate, Connection
  <2>2. CASE Commit(p)
    <3>1. /\ s.at = "reserved" /\ s.at \in Writing
          /\ IF s.pages = file THEN AfterCommit(p)
                               ELSE Proceed(p, "pending") /\ UNCHANGED <<memory, saved>>
      BY <2>2 DEF Commit, Writing
    <3>2. s.pages = PagesOf(s) /\ Committed = file
      BY <1>1, <3>1 DEF Sound, StoreInv, LocksExclude, Committed
    <3>3. CASE s.pages = file
      <4>1. s.task = "schema"
        BY <3>1, <3>2, <3>3, PagesAreIntact
      <4>2. Open(p, "unlocked", "load") /\ UNCHANGED <<memory, saved>>
        BY <3>1, <3>3, <4>1 DEF AfterCommit
      <4>3. [Closed EXCEPT !.at = "unlocked", !.task = "load"].at # "rows"
        BY OpenedIs
      <4>. QED  BY <1>1, <3>1, <4>2, <4>3 DEF Open
    <3>4. CASE s.pages # file
      BY <1>1, <3>1, <3>4 DEF Proceed, Connection
    <3>. QED  BY <3>3, <3>4
  <2>3. CASE Flush(p)
    BY <1>1, <2>3 DEF Flush, Proceed, Connection
  <2>4. CASE ReadHeight(p)
    BY <1>1, <2>4 DEF ReadHeight, Connection
  <2>. QED  BY <2>1, <2>2, <2>3, <2>4
<1>3. Committed' = Committed
  <2>1. CASE UNCHANGED <<file, journal>>
    BY <2>1 DEF Committed
  <2>2. CASE Flush(p)
    <3>1. journal = NoJournal /\ journal' = file /\ Committed = file
      BY <2>2 DEF Flush, StoreInv, LocksExclude, Committed
    <3>2. Intact(Committed)
      BY <2>2, ConnectionHasFile DEF Flush
    <3>. QED  BY <3>1, <3>2, Files DEF Committed
  <2>. QED  BY <2>1, <2>2 DEF BeginImmediate, Commit, ReadHeight
<1>. HIDE DEF t
<1>. QED  BY <1>2, <1>3, SameLedger, Unseen

\* A journal that is played back was what a reader would have found.
LEMMA RollBackUnseen ==
  ASSUME StoreInv, NEW p \in Process, RollBack(p)
  PROVE  UNCHANGED Register!registerVars
<1>1. Committed' = Committed /\ UNCHANGED <<session, memory, saved>>
  BY DEF RollBack, Hot, Committed
<1>2. Answers' = Answers
  BY <1>1 DEF Answers, AnswerOf, NothingRead
<1>. QED  BY <1>1, <1>2, SameLedger DEF Register!registerVars

\* A snapshot that a database holds is what is persisted there.
LEMMA HeldIsPersisted ==
  ASSUME NEW snapshot \in [height : Int, entries : Seq(StoredEntry)], NEW db, Holds(snapshot, db)
  PROVE  snapshot = Persisted(db)
<1>1. snapshot = [height |-> snapshot.height, entries |-> snapshot.entries]
  OBVIOUS
<1>. QED  BY <1>1 DEF Holds, Persisted

\* The register changes when the journal of a save is deleted.
LEMMA EndCommitSaves ==
  ASSUME StoreInv, NEW p \in Process, EndCommit(p)
  PROVE  Register!Save \/ UNCHANGED Register!registerVars
<1> DEFINE s == session[p]
           t == session'[p]
           c == Committed
           pages == PagesOf(s)
<1>1. /\ s.at = "flushing" /\ s.at \in Writing
      /\ file' = s.pages /\ journal' = NoJournal /\ AfterCommit(p)
  BY DEF EndCommit, Writing
<1>2. session \in [Process -> Connection] /\ s \in Connection /\ Sound(p, s) /\ s.pages = pages
  BY <1>1 DEF StoreInv, StoreTypeOK, Sound
<1>3. Committed' = pages
  BY <1>1, <1>2 DEF Committed
<1>4. Intact(pages) /\ Intact(c)
  BY <1>1, PagesAreIntact
<1>5. /\ session' = [session EXCEPT ![p] = t] /\ s.at # "rows" /\ t.at # "rows"
      /\ s.task = "schema" => UNCHANGED <<memory, saved>>
      /\ s.task # "schema" => memory' = s.got /\ saved' = s.got.height
  <2>1. [Closed EXCEPT !.at = "unlocked", !.task = "load"].at # "rows"
    BY OpenedIs
  <2>. QED  BY <1>1, <1>2, <2>1, ClosedIs DEF AfterCommit, Open, Close
<1>. HIDE DEF t
<1>6. CASE s.task = "schema"
  <2>1. pages = [c EXCEPT !.schema = TRUE]
    BY <1>6 DEF PagesOf
  <2>2. Persisted(pages) = Persisted(c)
    BY <1>4, <2>1, SchemaUnseen
  <2>3. StoredLedger' = Persisted(Committed')
    BY DEF StoredLedger, Persisted, Entries
  <2>4. UNCHANGED <<StoredLedger, LedgerBefore, memory>>
    BY <1>3, <1>5, <1>6, <2>2, <2>3, SameLedger DEF StoredLedger
  <2>. QED  BY <1>5, <2>4, Unseen
<1>7. CASE s.task # "schema"
  <2>1. /\ s.task = "save" /\ p = NodeProcess /\ memory # Down
        /\ Holds(s.got, pages) /\ Height(pages.height) = Height(c.height) + 1
    BY <1>1, <1>7, PagesAreIntact
  <2>2. memory.height < Len(BlockIndexes) /\ s.got = Following(memory)
    BY <1>2, <2>1 DEF Sound
  <2>3. /\ memory \in [height : Int, entries : Seq(StoredEntry)] /\ Holds(memory, c)
        /\ s.got \in [height : Int, entries : Seq(StoredEntry)]
    BY <1>2, <2>1 DEF StoreInv, StoreTypeOK, MemoryIsCommitted, Connection
  <2>4. memory = StoredLedger
    BY <2>3, HeldIsPersisted DEF StoredLedger
  <2>5. StoredLedger' = s.got
    <3>1. Persisted(pages) = s.got
      BY <2>1, <2>3, HeldIsPersisted
    <3>2. StoredLedger' = Persisted(Committed')
      BY DEF StoredLedger, Persisted, Entries
    <3>. QED  BY <1>3, <3>1, <3>2
  <2>6. /\ memory.height = Height(c.height) /\ memory.height \in 0 .. Len(BlockIndexes)
        /\ memory.height + 1 \in 1 .. Len(BlockIndexes) /\ Len(BlockIndexes) \in Nat
    <3>1. memory.height = Height(c.height) /\ Height(c.height) \in 0 .. Len(BlockIndexes)
      BY <1>4, <2>3, IntactReads DEF Holds
    <3>. HIDE DEF c
    <3>. QED  BY <2>2, <3>1, StoreBounds
  <2>7. saved' = memory.height + 1
    <3>1. Following(memory).height = memory.height + 1
      BY DEF Following
    <3>2. saved' = s.got.height
      BY <1>5, <1>7
    <3>. QED  BY <2>2, <3>1, <3>2
  <2>8. LedgerBefore' = StoredLedger
    <3> DEFINE n == memory.height
    <3>1. LedgerBefore' = Persisted(WithBlocks(saved' - 1))
      BY DEF LedgerBefore, Persisted, Entries, WithBlocks, NewRows, Decided
    <3>2. saved' - 1 = n
      BY <2>6, <2>7
    <3>3. Intact(WithBlocks(n)) /\ Height(WithBlocks(n).height) = Height(c.height)
      <4>1. n \in -1 .. Len(BlockIndexes)
        BY <2>6
      <4>2. Intact(WithBlocks(n)) /\ Height(WithBlocks(n).height) = IF n < 1 THEN 0 ELSE n
        BY <4>1, WithBlocksIs
      <4>. HIDE DEF c
      <4>. QED  BY <2>6, <4>2
    <3>. HIDE DEF n
    <3>4. Persisted(WithBlocks(n)) = Persisted(c)
      BY <1>4, <3>3, HeightGivesLedger
    <3>. QED  BY <3>1, <3>2, <3>4 DEF StoredLedger
  <2>9. /\ Len(DecidedBlocks) = Len(BlockIndexes)
        /\ DecidedBlocks[memory.height + 1] = Decided(memory.height + 1)
    BY <2>6 DEF DecidedBlocks
  <2>10. Answers' = Answers
    <3>1. AnswerOf(t) = AnswerOf(s)
      BY <1>5 DEF AnswerOf
    <3>. QED  BY <1>2, <1>5, <3>1, AnswersStep
  <2>11. StoredLedger' = [height  |-> StoredLedger.height + 1,
                          entries |-> StoredLedger.entries \o DecidedBlocks[StoredLedger.height + 1]]
    BY <2>2, <2>4, <2>5, <2>9 DEF Following
  <2>12. memory' = StoredLedger'
    BY <1>5, <1>7, <2>5
  <2>. QED  BY <2>2, <2>4, <2>8, <2>9, <2>10, <2>11, <2>12 DEF Register!Save
<1>. QED  BY <1>6, <1>7

\* What a transaction reads is what it had found to be the height, and the
\* entries of that ledger.
LEMMA ReadRowsReads ==
  ASSUME StoreInv, NEW p \in Process, ReadRows(p)
  PROVE  \E after \in 0 .. Len(DecidedBlocks) : Register!Read(p, after)
<1> DEFINE s == session[p]
           t == session'[p]
           e == Entries(Committed, s.after)
<1>1. s.at = "height" /\ UNCHANGED <<file, journal, memory, saved>>
  BY DEF ReadRows
<1>2. session \in [Process -> Connection] /\ s \in Connection /\ Sound(p, s)
  BY DEF StoreInv, StoreTypeOK
<1>3. journal = NoJournal /\ Committed = file /\ Intact(Committed) /\ Committed' = Committed
  BY <1>1, ConnectionHasFile DEF StoreInv, LocksExclude, Committed
<1>4. s.got.height = Height(Committed.height)
  BY <1>1, <1>2 DEF Sound
<1>5. /\ session' = [session EXCEPT ![p] = t]
      /\ t.at = "rows" /\ t.after = s.after /\ t.got.height = s.got.height /\ t.got.entries = e
  BY <1>2, <1>3 DEF ReadRows, Connection
<1>6. s.after \in 0 .. Len(BlockIndexes) /\ s.after \in Nat /\ Len(DecidedBlocks) = Len(BlockIndexes)
  BY <1>2, StoreBounds DEF Connection, DecidedBlocks
<1>. HIDE DEF s, t, e
<1>7. Answers' = [Answers EXCEPT ![p] =
        [after |-> s.after, height |-> StoredLedger.height, entries |-> e]]
  <2>1. AnswerOf(t) = [after |-> s.after, height |-> StoredLedger.height, entries |-> e]
    BY <1>4, <1>5 DEF AnswerOf, StoredLedger, Persisted
  <2>2. Answers' = [Answers EXCEPT ![p] = AnswerOf(t)]
    BY <1>2, <1>5, AnswersStep
  <2>. QED  BY <2>1, <2>2
<1>8. \E k \in 0 .. Len(StoredLedger.entries) :
        /\ \A i \in DOMAIN StoredLedger.entries : i <= k <=> StoredLedger.entries[i].height <= s.after
        /\ e = SubSeq(StoredLedger.entries, k + 1, Len(StoredLedger.entries))
  BY <1>3, <1>6, EntriesFollow DEF StoredLedger, e
<1>9. UNCHANGED <<StoredLedger, LedgerBefore, memory>>
  BY <1>1, <1>3, SameLedger
<1>10. Register!Read(p, s.after)
  BY <1>7, <1>8, <1>9 DEF Register!Read
<1>. QED  BY <1>6, <1>10

\* A connection that is closed forgets what it read.
LEMMA CloseAnswers ==
  ASSUME StoreInv, NEW p \in Process, Close(p), UNCHANGED <<file, journal, saved>>
  PROVE  /\ Answers' = [Answers EXCEPT ![p] = NothingRead]
         /\ UNCHANGED <<StoredLedger, LedgerBefore>>
<1>1. AnswerOf(Closed) = NothingRead
  BY ClosedIs DEF AnswerOf
<1>2. Answers' = [Answers EXCEPT ![p] = AnswerOf(Closed)]
  BY AnswersStep DEF Close, StoreInv, StoreTypeOK
<1>3. Committed' = Committed
  BY DEF Committed
<1>. QED  BY <1>1, <1>2, <1>3, SameLedger

\* The node loads what is in the register; whoever else read leaves.
LEMMA EndReadLoads ==
  ASSUME StoreInv, NEW p \in Process, EndRead(p)
  PROVE  Register!Load \/ Register!Leave(p)
<1> DEFINE s == session[p]
<1>1. /\ s.at = "rows" /\ Close(p) /\ UNCHANGED <<file, journal, saved>>
      /\ memory' = IF p = NodeProcess THEN s.got ELSE memory
  BY DEF EndRead
<1>2. /\ Answers' = [Answers EXCEPT ![p] = NothingRead]
      /\ UNCHANGED <<StoredLedger, LedgerBefore>>
  BY <1>1, CloseAnswers
<1>3. CASE p = NodeProcess
  <2>1. /\ s.got \in [height : Int, entries : Seq(StoredEntry)]
        /\ s.after = 0 /\ s.got.height = Height(Committed.height)
        /\ s.got.entries = Entries(Committed, s.after)
    BY <1>1, <1>3, StoreConstants DEF StoreInv, StoreTypeOK, Connection, Sound
  <2>. HIDE DEF s
  <2>2. s.got = StoredLedger
    BY <2>1, HeldIsPersisted DEF Holds, StoredLedger
  <2>. QED  BY <1>1, <1>2, <1>3, <2>2 DEF Register!Load
<1>4. CASE p # NodeProcess
  BY <1>1, <1>2, <1>4 DEF Register!Leave
<1>. QED  BY <1>3, <1>4

\* An exception or a kill ends what a process did; the node's ledger dies with it.
LEMMA EndingLeaves ==
  ASSUME StoreInv, NEW p \in Process, Fail(p) \/ KillProcess(p)
  PROVE  Register!Leave(p) \/ Register!Stop
<1>1. Close(p) /\ UNCHANGED <<file, journal, saved>>
      /\ (memory' = memory \/ (p = NodeProcess /\ memory' = Down))
  BY DEF Fail, KillProcess
<1>2. /\ Answers' = [Answers EXCEPT ![p] = NothingRead]
      /\ UNCHANGED <<StoredLedger, LedgerBefore>>
  BY <1>1, CloseAnswers
<1>. QED  BY <1>1, <1>2 DEF Register!Leave, Register!Stop

\* A database that is one block behind holds the ledger before the last save.
LEMMA BlockBehind ==
  ASSUME StoreInv, NEW db, Intact(db), Height(db.height) = saved - 1
  PROVE  Persisted(db) = LedgerBefore
<1>1. saved \in 0 .. Len(BlockIndexes) /\ Len(BlockIndexes) \in Nat /\ Height(db.height) \in Nat
  BY StoreBounds, Files DEF StoreInv, StoreTypeOK
<1> DEFINE w == WithBlocks(saved - 1)
<1>2. Intact(w) /\ Height(w.height) = IF saved - 1 < 1 THEN 0 ELSE saved - 1
  <2>1. saved - 1 \in -1 .. Len(BlockIndexes)
    BY <1>1
  <2>. QED  BY <2>1, WithBlocksIs
<1>. HIDE DEF w
<1>3. Height(w.height) = Height(db.height)
  BY <1>1, <1>2
<1>. QED  BY <1>2, <1>3, HeightGivesLedger DEF LedgerBefore, w

\* A power loss leaves the ledger or brings the one before the last save back.
LEMMA LosePowerLoses ==
  ASSUME StoreInv, LosePower
  PROVE  Register!PowerLoss
<1>1. /\ session' = [p \in Process |-> Closed] /\ memory' = Down
      /\ UNCHANGED <<file, deleted, saved>>
      /\ journal' \in IF journal = NoJournal THEN {NoJournal, deleted} ELSE {journal}
  BY DEF LosePower
<1>2. Answers' = [p \in Process |-> NothingRead]
  <2>1. \A p \in Process : AnswerOf(session'[p]) = NothingRead
    BY <1>1, ClosedIs DEF AnswerOf
  <2>2. Answers' = [p \in Process |-> AnswerOf(session'[p])]
    BY DEF Answers, AnswerOf, NothingRead
  <2>. QED  BY <2>1, <2>2
<1>3. LedgerBefore' = LedgerBefore
  BY <1>1, SameLedger
<1>4. StoredLedger' \in {StoredLedger, LedgerBefore}
  <2>1. CASE Committed' = Committed
    BY <2>1, SameLedger
  <2>2. CASE Committed' # Committed
    <3>1. /\ journal = NoJournal /\ journal' = deleted /\ deleted # NoJournal
          /\ Committed = file /\ Committed' = deleted
      BY <1>1, <2>2 DEF Committed
    <3>2. Intact(deleted) /\ Intact(Committed)
      <4>1. file # NoDatabase
        BY <3>1 DEF StoreInv, Untouched
      <4>. QED  BY <3>1, <4>1, CommittedIsIntact DEF StoreInv, StoreTypeOK
    <3>3. /\ Height(deleted.height) \in saved - 1 .. Height(Committed.height)
          /\ Height(Committed.height) \in saved - 1 .. saved
      <4>1. file # NoDatabase
        BY <3>1 DEF StoreInv, Untouched
      <4>. QED  BY <3>1, <4>1 DEF StoreInv, SavesSurvive
    <3>4. saved \in Nat /\ Height(Committed.height) \in Nat /\ Height(deleted.height) \in Nat
      BY <3>2, Files DEF StoreInv, StoreTypeOK
    <3>5. StoredLedger' = Persisted(deleted)
      <4>1. StoredLedger' = Persisted(Committed')
        BY DEF StoredLedger, Persisted, Entries
      <4>. QED  BY <3>1, <4>1
    <3> DEFINE n == Height(Committed.height)
               m == Height(deleted.height)
    <3>6. /\ n \in Nat /\ m \in Nat /\ saved \in Nat
          /\ m \in saved - 1 .. n /\ n \in saved - 1 .. saved
      BY <3>3, <3>4
    <3>. HIDE DEF n, m
    <3>7. CASE m = saved - 1
      BY <3>2, <3>5, <3>7, BlockBehind DEF m
    <3>8. CASE m # saved - 1
      <4>1. m = n
        BY <3>6, <3>8
      <4>2. Persisted(deleted) = Persisted(Committed)
        BY <3>2, <4>1, HeightGivesLedger DEF m, n
      <4>. QED  BY <3>5, <4>2 DEF StoredLedger
    <3>. QED  BY <3>7, <3>8
  <2>. QED  BY <2>1, <2>2
<1>. QED  BY <1>1, <1>2, <1>3, <1>4 DEF Register!PowerLoss

\* Without a database the register is empty.
LEMMA RegisterStarts == StoreInit => Register!RegisterInit
<1>. SUFFICES ASSUME StoreInit PROVE Register!RegisterInit
  OBVIOUS
<1> DEFINE nothing == [height |-> 0, entries |-> <<>>]
           w == WithBlocks(saved - 1)
<1>1. /\ file = NoDatabase /\ journal = NoJournal /\ memory = Down /\ saved = 0
      /\ session = [p \in Process |-> Closed]
  BY DEF StoreInit
<1>2. StoredLedger = nothing
  <2>1. NoDatabase.rows = {} /\ NoDatabase.height = NoHeight
    BY DEF NoDatabase, NewFile
  <2>2. Committed = NoDatabase
    BY <1>1 DEF Committed
  <2>. QED  BY <2>1, <2>2, NothingPersisted DEF StoredLedger
<1>3. LedgerBefore = nothing
  <2>1. w = [NewFile EXCEPT !.height = NoHeight, !.rows = UNION {NewRows(Decided(h)) : h \in 1 .. -1}]
    BY <1>1 DEF WithBlocks
  <2>2. UNION {NewRows(Decided(h)) : h \in 1 .. -1} = {}
    OBVIOUS
  <2>3. w.rows = {} /\ w.height = NoHeight
    BY <2>1, <2>2 DEF NewFile
  <2>. HIDE DEF w
  <2>4. Persisted(w) = nothing
    BY <2>3, NothingPersisted
  <2>. QED  BY <2>4 DEF LedgerBefore, w
<1>4. Answers = [p \in Process |-> NothingRead]
  BY <1>1, ClosedIs DEF Answers, AnswerOf
<1>. QED  BY <1>1, <1>2, <1>3, <1>4 DEF Register!RegisterInit, Register!Empty

\* Every step of the processes is one of the register, or is not seen.
LEMMA RegisterSteps ==
  StoreInv /\ [StoreNext]_storeVars => [Register!RegisterNext]_Register!registerVars
<1> DEFINE Mapped == Register!RegisterNext \/ UNCHANGED Register!registerVars
<1>. SUFFICES ASSUME StoreInv, [StoreNext]_storeVars PROVE Mapped
  OBVIOUS
<1>1. ASSUME NEW p \in Process, Register!Leave(p) PROVE Mapped
  BY <1>1 DEF Register!RegisterNext
<1>2. CASE StartNode \/ SaveBlock \/ (\E p \in Queries : Query(p)) \/ (\E p \in Watchers : Watch(p))
  BY <1>2, OpeningUnseen
<1>3. CASE LosePower
  BY <1>3, LosePowerLoses DEF Register!RegisterNext
<1>4. ASSUME NEW p \in Process,
             BeginImmediate(p) \/ Commit(p) \/ Flush(p) \/ ReadHeight(p) \/ RollBack(p)
      PROVE  Mapped
  BY <1>4, TransactionUnseen, RollBackUnseen
<1>5. ASSUME NEW p \in Process, EndCommit(p) PROVE Mapped
  BY <1>5, EndCommitSaves DEF Register!RegisterNext
<1>6. ASSUME NEW p \in Process, ReadRows(p) PROVE Mapped
  BY <1>6, ReadRowsReads DEF Register!RegisterNext
<1>7. ASSUME NEW p \in Process, EndRead(p) PROVE Mapped
  BY <1>1, <1>7, EndReadLoads DEF Register!RegisterNext
<1>8. ASSUME NEW p \in Process, Fail(p) \/ KillProcess(p) PROVE Mapped
  BY <1>1, <1>8, EndingLeaves DEF Register!RegisterNext
<1>9. CASE UNCHANGED storeVars
  <2>1. Committed' = Committed /\ Answers' = Answers /\ UNCHANGED <<memory, saved>>
    BY <1>9 DEF storeVars, Committed, Answers, AnswerOf, NothingRead
  <2>. QED  BY <2>1, SameLedger DEF Register!registerVars
<1>. HIDE DEF Mapped
<1>. QED  BY <1>2, <1>3, <1>4, <1>5, <1>6, <1>7, <1>8, <1>9 DEF StoreNext

\* The node's store, the queries and the inspector share one atomic register of
\* ledgers, whatever transactions overlap, and whenever processes are killed or
\* power fails: no reader mixes two blocks, no save is half there, and only the
\* last one can be lost.
THEOREM StoreRefinesRegister == StoreSpec => StoreIsAtomic
<1>1. StoreInit => Register!RegisterInit
  BY RegisterStarts
<1>2. StoreInv /\ [StoreNext]_storeVars => [Register!RegisterNext]_Register!registerVars
  BY RegisterSteps
<1>. QED  BY <1>1, <1>2, StoreInvariance, PTL DEF StoreSpec, StoreIsAtomic, Register!RegisterSpec
=============================================================================
