-------------------------------- MODULE Disks --------------------------------
(***************************************************************************)
(* What the drivers of src/kernel have in common: the tasks that call      *)
(* storage_read and storage_write, and the sectors of the disk.  Every     *)
(* caller in storage.c passes a count of one sector.                       *)
(***************************************************************************)
EXTENDS Naturals, FiniteSets

CONSTANTS
  Tasks,        \* the tasks that use the disk
  Blocks,       \* the sectors
  Words,        \* the contents of a sector
  MaxAccesses   \* bound on the accesses of a behaviour

ASSUME DisksAssumption == Tasks # {} /\ Blocks # {} /\ Words # {}

Ops == {"read", "write"}

SomeBlock == CHOOSE b \in Blocks : TRUE
SomeWord == CHOOSE w \in Words : TRUE

\* The caller's buffer at the call: what it holds matters to a write only.
Buffer(op, word) == IF op = "read" THEN SomeWord ELSE word

=============================================================================
