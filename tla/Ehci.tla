-------------------------------- MODULE Ehci --------------------------------
(***************************************************************************)
(* USB mass storage in src/kernel/ehci.c: a command is three bulk          *)
(* transfers, the command block, the data and the status, each given to    *)
(* the controller and waited for.  A transfer that is not done in time is  *)
(* left in the schedule, where the device (external) can still carry it    *)
(* out until the next one replaces it, and nothing resets the device: the  *)
(* next command finds it in the middle of the last one.                    *)
(*                                                                         *)
(* One task uses the device; its accesses are of one sector.  The toggle   *)
(* bits and the enumeration of devices are left out.                       *)
(***************************************************************************)
EXTENDS Disks

CONSTANT NoWord         \* the contents of a buffer nothing was read into

VARIABLES
  medium,       \* the contents of the sectors
  usb,          \* the device: what it expects, and its command
  transfer,     \* the transfer in the schedule, and the verdict it carried
  caller,       \* the access under way
  transfers     \* the number of accesses begun

ehciVars == <<medium, usb, transfer, caller, transfers>>

Parts == {"cbw", "data", "csw"}

NoCaller == [pc |-> "idle", op |-> "read", lba |-> SomeBlock, data |-> NoWord, result |-> 0]
NoDevice == [expects |-> "cbw", op |-> "read", lba |-> SomeBlock, good |-> TRUE]

EhciTypeOK ==
  /\ medium \in [Blocks -> Words]
  /\ usb \in [expects : Parts \cup {"stalled"}, op : Ops, lba : Blocks, good : BOOLEAN]
  /\ transfer \in [state : {"none", "active", "done", "error"}, part : Parts, bad : BOOLEAN]
  /\ caller.pc \in {"idle", "done"} \cup Parts
  /\ caller.pc \in Parts => transfer.part = caller.pc

EhciInit ==
  /\ medium = [b \in Blocks |-> SomeWord]
  /\ usb = NoDevice
  /\ transfer = [state |-> "none", part |-> "cbw", bad |-> FALSE]
  /\ caller = NoCaller
  /\ transfers = 0

(***************************************************************************)
(* The device (external).  It takes a transfer that goes in its direction, *)
(* whatever the driver meant by it, and leaves one that does not waiting.  *)
(***************************************************************************)

HostIn(part) == part = "csw" \/ (part = "data" /\ caller.op = "read")
UsbIn == usb.expects = "csw" \/ (usb.expects = "data" /\ usb.op = "read")

Takes == transfer.state = "active" /\ usb.expects # "stalled" /\ HostIn(transfer.part) = UsbIn

TransferDone == transfer' = [transfer EXCEPT !.state = "done"]

\* A command block, which the device will carry out or not.  Anything else that
\* arrives is refused.
TakesCommand ==
  /\ Takes /\ usb.expects = "cbw"
  /\ IF transfer.part = "cbw"
       THEN /\ \E good \in BOOLEAN :
                 usb' = [expects |-> "data", op |-> caller.op, lba |-> caller.lba, good |-> good]
            /\ TransferDone
       ELSE /\ usb' = [usb EXCEPT !.expects = "stalled"]
            /\ transfer' = [transfer EXCEPT !.state = "error"]
  /\ UNCHANGED <<medium, caller, transfers>>

\* The data of a read: more than a status block, which is an error.
SendsData ==
  /\ Takes /\ UsbIn /\ usb.expects = "data"
  /\ usb' = [usb EXCEPT !.expects = "csw"]
  /\ IF transfer.part = "data"
       THEN /\ \E w \in IF usb.good THEN {medium[usb.lba]} ELSE Words :
                 caller' = [caller EXCEPT !.data = w]
            /\ TransferDone
       ELSE transfer' = [transfer EXCEPT !.state = "error"] /\ UNCHANGED caller
  /\ UNCHANGED <<medium, transfers>>

\* The data of a write.  A command block is shorter: the device fails the
\* command, and the sector holds anything.
TakesData ==
  /\ Takes /\ ~UsbIn /\ usb.expects = "data"
  /\ LET good == usb.good /\ transfer.part = "data" IN
       /\ \E w \in IF good THEN {caller.data} ELSE Words :
            medium' = [medium EXCEPT ![usb.lba] = w]
       /\ usb' = [usb EXCEPT !.expects = "csw", !.good = good]
  /\ TransferDone
  /\ UNCHANGED <<caller, transfers>>

\* The status: into the buffer of the sector, when the driver reads that.
SendsStatus ==
  /\ Takes /\ usb.expects = "csw"
  /\ usb' = [usb EXCEPT !.expects = "cbw"]
  /\ caller' = IF transfer.part = "data" THEN [caller EXCEPT !.data = NoWord] ELSE caller
  /\ transfer' = [transfer EXCEPT !.state = "done", !.bad = ~usb.good]
  /\ UNCHANGED <<medium, transfers>>

\* The device stalls in place of the data.
DeviceStalls ==
  /\ transfer.state = "active"
  /\ usb.expects = "data"
  /\ usb' = [usb EXCEPT !.expects = "stalled"]
  /\ transfer' = [transfer EXCEPT !.state = "error"]
  /\ UNCHANGED <<medium, caller, transfers>>

(***************************************************************************)
(* The driver.                                                             *)
(***************************************************************************)

\* ehci_bulk_transfer: the transfer takes the place of the one before.
ehci_bulk_transfer(part) ==
  transfer' = [state |-> "active", part |-> part, bad |-> FALSE]

\* ehci_read or ehci_write is called.
BeginTransfer ==
  /\ caller.pc = "idle"
  /\ transfers < MaxAccesses
  /\ \E op \in Ops, lba \in Blocks, word \in Words :
       caller' = [pc |-> "cbw", op |-> op, lba |-> lba, result |-> 0,
                  data |-> IF op = "read" THEN NoWord ELSE word]
  /\ ehci_bulk_transfer("cbw")
  /\ transfers' = transfers + 1
  /\ UNCHANGED <<medium, usb>>

\* Mutant: the status block is read and not looked at.
PartDoneBlind ==
  /\ caller.pc \in Parts /\ transfer.state = "done"
  /\ CASE caller.pc = "cbw" ->
            caller' = [caller EXCEPT !.pc = "data"] /\ ehci_bulk_transfer("data")
       [] caller.pc = "data" ->
            caller' = [caller EXCEPT !.pc = "csw"] /\ ehci_bulk_transfer("csw")
       [] OTHER ->
            caller' = [caller EXCEPT !.pc = "done", !.result = 1] /\ UNCHANGED transfer
  /\ UNCHANGED <<medium, usb, transfers>>

\* The wait of ehci_bulk_transfer ends with the transfer done: the next part, or
\* the verdict of the status block.  How much was transferred is not looked at,
\* nor is the tag of the status, which is the same for every command.
PartDone ==
  /\ caller.pc \in Parts /\ transfer.state = "done"
  /\ CASE caller.pc = "cbw" ->
            caller' = [caller EXCEPT !.pc = "data"] /\ ehci_bulk_transfer("data")
       [] caller.pc = "data" ->
            caller' = [caller EXCEPT !.pc = "csw"] /\ ehci_bulk_transfer("csw")
       [] OTHER ->
            /\ caller' = [caller EXCEPT !.pc = "done", !.result = IF transfer.bad THEN 0 ELSE 1]
            /\ UNCHANGED transfer
  /\ UNCHANGED <<medium, usb, transfers>>

\* The wait ends with an error, or with the time over: the access fails, and a
\* transfer whose time is over stays in the schedule.
PartFails ==
  /\ caller.pc \in Parts /\ transfer.state \in {"active", "error"}
  /\ caller' = [caller EXCEPT !.pc = "done", !.result = 0]
  /\ UNCHANGED <<medium, usb, transfer, transfers>>

ReturnTransfer ==
  /\ caller.pc = "done"
  /\ caller' = [caller EXCEPT !.pc = "idle"]
  /\ UNCHANGED <<medium, usb, transfer, transfers>>

EhciNext ==
  \/ TakesCommand \/ SendsData \/ TakesData \/ SendsStatus \/ DeviceStalls
  \/ BeginTransfer \/ PartDone \/ PartFails \/ ReturnTransfer

EhciSpec == EhciInit /\ [][EhciNext]_ehciVars

(***************************************************************************)
(* Properties.                                                             *)
(***************************************************************************)

\* An access that succeeds has read or written its sector, although a command
\* that ran out of time leaves the device anywhere in it and the driver neither
\* resets the device nor checks lengths and tags.
EhciTellsTheTruth ==
  caller.pc = "done" /\ caller.result = 1 => caller.data = medium[caller.lba]

=============================================================================
