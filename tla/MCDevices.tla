----------------------------- MODULE MCDevices -------------------------------
(***************************************************************************)
(* The disk drivers and the keyboard for TLC, side by side: a behaviour is *)
(* one part's, and the others stay in their initial states.                *)
(***************************************************************************)
EXTENDS Ata, Ahci, Ehci, Keyboard

VARIABLE part           \* the component that runs

MCInit ==
  /\ part \in {"ata", "ahci", "ehci", "keyboard"}
  /\ AtaInit /\ AhciInit /\ EhciInit
  /\ KeyInit /\ (part = "keyboard" \/ mode = "gets")

MCNext ==
  /\ UNCHANGED part
  /\ \/ part = "ata" /\ AtaNext /\ UNCHANGED <<ahciVars, ehciVars, keyVars>>
     \/ part = "ahci" /\ AhciNext /\ UNCHANGED <<ataVars, ehciVars, keyVars>>
     \/ part = "ehci" /\ EhciNext /\ UNCHANGED <<ataVars, ahciVars, keyVars>>
     \/ part = "keyboard" /\ KeyNext /\ UNCHANGED <<ataVars, ahciVars, ehciVars>>

MCVars == <<part, ataVars, ahciVars, ehciVars, keyVars>>

MCSpec ==
  /\ MCInit /\ [][MCNext]_MCVars
  /\ \A t \in Tasks : WF_ataVars(part = "ata" /\ AtaStep(t))
  /\ \A t \in Tasks : WF_ahciVars(part = "ahci" /\ AhciStep(t))
  /\ WF_ahciVars(part = "ahci" /\ AhciPort)
  /\ WF_keyVars(part = "keyboard" /\ Reader)

-----------------------------------------------------------------------------
(* Properties.                                                             *)

\* The variables of the drivers have their types: no slot the port does not have, no
\* more repetitions than the loops allow, no line past its buffer.
DevicesTypeOK == AtaTypeOK /\ AhciTypeOK /\ EhciTypeOK /\ KeyTypeOK

\* Every access to a disk ends, whatever other tasks do to the registers.
EveryAccessEnds == AccessesEnd /\ CommandsEnd

=============================================================================
