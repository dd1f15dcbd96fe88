-------------------------------- MODULE Ahci --------------------------------
(***************************************************************************)
(* The AHCI driver of src/kernel/ahci.c: a task finds a free command slot, *)
(* builds the command table of the slot, waits for the port and issues the *)
(* command by setting the slot's bit of ci, which the port (external)      *)
(* clears when it has done it.  The driver keeps no state of its own and   *)
(* takes no lock, and interrupts are on, so tasks interleave at every      *)
(* access to the port.  All accesses are of one sector.                    *)
(***************************************************************************)
EXTENDS Disks, FiniteSetsExt

CONSTANTS
  CapSlots,     \* the number of slots in the capabilities register
  MaxCommands   \* bound on the accesses of a behaviour

\* Five bits, which hold one less.
ASSUME AhciAssumption == CapSlots \in 1..32

VARIABLES
  platter,      \* the contents of the sectors
  hba,          \* ci, the error bit of is, BSY, and whether the port has halted
  table,        \* the command table of each slot
  command,      \* the access of each task
  commands      \* the number of accesses begun

ahciVars == <<platter, hba, table, command, commands>>

Slots == 0..31
NoCommand == [pc |-> "idle", op |-> "read", lba |-> SomeBlock, data |-> SomeWord,
              slot |-> 0, result |-> 0, alone |-> TRUE]
NoTable == [op |-> "read", lba |-> SomeBlock, data |-> SomeWord, task |-> CHOOSE t \in Tasks : TRUE]

AhciTypeOK ==
  /\ platter \in [Blocks -> Words]
  /\ hba.ci \subseteq Slots /\ hba.tfes \in BOOLEAN /\ hba.halted \in BOOLEAN
  /\ \A s \in hba.ci : s < CapSlots
  /\ \A t \in Tasks : command[t].result = 1 => command[t].pc \in {"done", "idle"}

AhciInit ==
  /\ platter = [b \in Blocks |-> SomeWord]
  /\ hba = [ci |-> {}, tfes |-> FALSE, halted |-> FALSE]
  /\ table = [s \in 0..(CapSlots - 1) |-> NoTable]
  /\ command = [t \in Tasks |-> NoCommand]
  /\ commands = 0

(***************************************************************************)
(* The port (external).                                                    *)
(***************************************************************************)

\* A command of the list is done: the data moves by DMA to the buffer of the
\* task that built the table, which may have given up on it.
PortCompletes(s) ==
  /\ s \in hba.ci /\ ~hba.halted
  /\ LET x == table[s] IN
       IF x.op = "read"
         THEN /\ command' = [command EXCEPT ![x.task].data = platter[x.lba]]
              /\ UNCHANGED platter
         ELSE /\ platter' = [platter EXCEPT ![x.lba] = x.data]
              /\ UNCHANGED command
  /\ hba' = [hba EXCEPT !.ci = @ \ {s}]
  /\ UNCHANGED <<table, commands>>

\* A command fails: the port stops with the bits of ci as they are, until it is
\* started again, which the driver never does.
PortFails(s) ==
  /\ s \in hba.ci /\ ~hba.halted
  /\ hba' = [hba EXCEPT !.tfes = TRUE, !.halted = TRUE]
  /\ UNCHANGED <<platter, table, command, commands>>

(***************************************************************************)
(* The driver: ahci_read and ahci_write.                                   *)
(***************************************************************************)

AhciBegin(t) ==
  /\ command[t].pc = "idle"
  /\ commands < MaxCommands
  /\ \E op \in Ops, lba \in Blocks, word \in Words :
       command' = [u \in Tasks |->
         IF u = t THEN [NoCommand EXCEPT !.pc = "clear", !.op = op, !.lba = lba,
                          !.data = Buffer(op, word), !.alone = \A v \in Tasks : command[v].pc = "idle"]
         ELSE [command[u] EXCEPT !.alone = FALSE]]
  /\ commands' = commands + 1
  /\ UNCHANGED <<platter, hba, table>>

\* is = -1: every bit of the interrupt status, another task's error too.
AhciClear(t) ==
  /\ command[t].pc = "clear"
  /\ hba' = [hba EXCEPT !.tfes = FALSE]
  /\ command' = [command EXCEPT ![t].pc = "slot"]
  /\ UNCHANGED <<platter, table, commands>>

\* Mutant: the field is read as the number of the last slot and one more.
KnownSlotsPast == {s \in Slots : s <= CapSlots}

\* The slots the driver knows of: four bits of the five-bit field, which holds
\* one less than the number.
KnownSlots == {s \in Slots : s < (CapSlots - 1) % 16}

\* ahci_find_cmdslot: the first slot with no bit in ci (or sact, which is 0), or
\* none, and the access fails.
ahci_find_cmdslot(t) ==
  /\ command[t].pc = "slot"
  /\ LET free == KnownSlots \ hba.ci IN
       command' = IF free = {} THEN [command EXCEPT ![t].pc = "done"]
                  ELSE [command EXCEPT ![t].pc = "build", ![t].slot = Min(free)]
  /\ UNCHANGED <<platter, hba, table, commands>>

\* The header and the command table of the slot.
AhciBuild(t) ==
  /\ command[t].pc = "build"
  /\ table' = [table EXCEPT ![command[t].slot] =
       [op |-> command[t].op, lba |-> command[t].lba, data |-> command[t].data, task |-> t]]
  /\ command' = [command EXCEPT ![t].pc = "issue"]
  /\ UNCHANGED <<platter, hba, commands>>

\* The port is not busy when it has halted or has nothing to do; the driver
\* looks a million times before it gives up.
AhciIssue(t) ==
  /\ command[t].pc = "issue"
  /\ \/ /\ hba.halted \/ hba.ci = {}
        /\ hba' = [hba EXCEPT !.ci = @ \cup {command[t].slot}]
        /\ command' = [command EXCEPT ![t].pc = "wait"]
     \/ /\ ~hba.halted /\ hba.ci # {}
        /\ command' = [command EXCEPT ![t].pc = "done"]
        /\ UNCHANGED hba
  /\ UNCHANGED <<platter, table, commands>>

\* Mutant: the end of the loop is taken for success.
AhciCompleteBlind(t) ==
  /\ command[t].pc = "wait"
  /\ command[t].slot \notin hba.ci \/ hba.tfes
  /\ command' = [command EXCEPT ![t].pc = "done", ![t].result = 1]
  /\ UNCHANGED <<platter, hba, table, commands>>

\* The loop ends when the bit of the slot is clear or there is an error.
AhciComplete(t) ==
  /\ command[t].pc = "wait"
  /\ command[t].slot \notin hba.ci \/ hba.tfes
  /\ command' = [command EXCEPT ![t].pc = "done", ![t].result = IF hba.tfes THEN 0 ELSE 1]
  /\ UNCHANGED <<platter, hba, table, commands>>

AhciReturn(t) ==
  /\ command[t].pc = "done"
  /\ command' = [command EXCEPT ![t] = NoCommand]
  /\ UNCHANGED <<platter, hba, table, commands>>

AhciStep(t) ==
  \/ AhciClear(t) \/ ahci_find_cmdslot(t) \/ AhciBuild(t) \/ AhciIssue(t)
  \/ AhciComplete(t) \/ AhciReturn(t)

AhciPort == \E s \in Slots : PortCompletes(s) \/ PortFails(s)

AhciNext == AhciPort \/ \E t \in Tasks : AhciBegin(t) \/ AhciStep(t)

\* Every task runs, and the port carries out its commands.
AhciSpec ==
  /\ AhciInit /\ [][AhciNext]_ahciVars
  /\ WF_ahciVars(AhciPort) /\ \A t \in Tasks : WF_ahciVars(AhciStep(t))

(***************************************************************************)
(* Properties.                                                             *)
(***************************************************************************)

\* What an access reports is true when no other task's overlapped it: a read
\* that succeeds holds the sector, a write that succeeds is on the disk.
AhciTellsTheTruth ==
  \A t \in Tasks : command[t].pc = "done" /\ command[t].result = 1 /\ command[t].alone
    => command[t].data = platter[command[t].lba]

\* Every access ends, also when tasks took the same slot, as long as no command
\* has failed.  (After a failed one the port is halted, and the next access
\* waits in its loop for ever.)
CommandsEnd ==
  \A t \in Tasks : command[t].pc # "idle" ~> command[t].pc = "idle" \/ hba.halted

=============================================================================
