---------------------------- MODULE LedgerRegister ----------------------------
(***************************************************************************)
(* What the processes that share the ledger's database may rely on, as     *)
(* ArtifactLedgerStore promises it (node/store/artifact_ledger_store.py):  *)
(* one register that holds the ledger of a number of blocks.  Its owner    *)
(* loads the ledger and replaces it by the one with the next block;        *)
(* everybody reads it at one instant.  A power loss may bring back the     *)
(* ledger before the last save, never an older one.                        *)
(***************************************************************************)
EXTENDS Integers, Sequences

CONSTANTS
  Owner,      \* the process of the node
  Client,     \* the processes, the owner among them
  Blocks,     \* the entries of each block
  Stopped,    \* the memory of an owner that has not loaded the ledger
  NoAnswer    \* what a process that is not reading has read

VARIABLES
  ledger,     \* the ledger in the register
  previous,   \* the one that the last save replaced
  memory,     \* what the owner holds
  answer      \* what each process has read

registerVars == <<ledger, previous, memory, answer>>

Empty == [height |-> 0, entries |-> <<>>]

RegisterInit ==
  /\ ledger = Empty /\ previous = Empty
  /\ memory = Stopped
  /\ answer = [c \in Client |-> NoAnswer]

\* A process reads the height and the entries of the blocks after the one it
\* knows, all of the same ledger.
Read(c, after) ==
  /\ \E k \in 0 .. Len(ledger.entries) :
       /\ \A i \in DOMAIN ledger.entries : i <= k <=> ledger.entries[i].height <= after
       /\ answer' = [answer EXCEPT ![c] =
            [after |-> after, height |-> ledger.height,
             entries |-> SubSeq(ledger.entries, k + 1, Len(ledger.entries))]]
  /\ UNCHANGED <<ledger, previous, memory>>

Leave(c) ==
  /\ answer' = [answer EXCEPT ![c] = NoAnswer]
  /\ UNCHANGED <<ledger, previous, memory>>

\* The owner starts from the ledger in the register ...
Load ==
  /\ memory' = ledger
  /\ answer' = [answer EXCEPT ![Owner] = NoAnswer]
  /\ UNCHANGED <<ledger, previous>>

\* ... and saves the one with the next block.
Save ==
  /\ memory = ledger /\ ledger.height < Len(Blocks)
  /\ ledger' = [height  |-> ledger.height + 1,
                entries |-> ledger.entries \o Blocks[ledger.height + 1]]
  /\ previous' = ledger /\ memory' = ledger'
  /\ UNCHANGED answer

Stop ==
  /\ memory' = Stopped
  /\ answer' = [answer EXCEPT ![Owner] = NoAnswer]
  /\ UNCHANGED <<ledger, previous>>

PowerLoss ==
  /\ ledger' \in {ledger, previous}
  /\ memory' = Stopped
  /\ answer' = [c \in Client |-> NoAnswer]
  /\ UNCHANGED previous

RegisterNext ==
  \/ \E c \in Client : Leave(c) \/ \E after \in 0 .. Len(Blocks) : Read(c, after)
  \/ Load \/ Save \/ Stop \/ PowerLoss

RegisterSpec == RegisterInit /\ [][RegisterNext]_registerVars
=============================================================================
