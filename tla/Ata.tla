--------------------------------- MODULE Ata ---------------------------------
(***************************************************************************)
(* The programmed I/O driver of src/kernel/ata.c and the retries of        *)
(* src/kernel/storage.c above it, against a disk that is slow, fails       *)
(* commands, and loses what it was doing when it is reset.  ata_wait       *)
(* sleeps between two looks at the status register, so the accesses of     *)
(* several tasks interleave there.  All accesses are of one sector, the    *)
(* only count storage.c passes.                                            *)
(***************************************************************************)
EXTENDS Disks

CONSTANTS
  AtaPolls,     \* the looks ata_wait takes (300)
  AtaRetries    \* the accesses read_sector repeats after the second (30)

ASSUME AtaAssumption == AtaPolls \in Nat /\ AtaRetries \in Nat

VARIABLES
  disk,         \* the contents of the sectors
  ata,          \* the disk's registers
  access,       \* the access of each task
  accesses      \* the number of accesses begun

ataVars == <<disk, ata, access, accesses>>

AtaTypeOK ==
  /\ disk \in [Blocks -> Words]
  /\ ata \in [state : {"idle", "busy", "drq", "commit"}, op : Ops, err : BOOLEAN,
                 lba : Blocks, data : Words]
  /\ access \in [Tasks ->
       [pc : {"idle", "free", "ready", "data", "end", "done"}, op : Ops,
        lba : Blocks, data : Words, polls : 0..AtaPolls, tries : 0..(AtaRetries + 1),
        result : {0, 1}, alone : BOOLEAN, late : BOOLEAN]]

\* No access; its fields are those of some access that is over.
NoAccess ==
  [pc |-> "idle", op |-> "read", lba |-> SomeBlock,
   data |-> SomeWord, polls |-> 0, tries |-> 0, result |-> 0,
   alone |-> TRUE, late |-> FALSE]

AtaInit ==
  /\ disk = [b \in Blocks |-> NoAccess.data]
  /\ ata = [state |-> "idle", op |-> "read", err |-> FALSE,
               lba |-> NoAccess.lba, data |-> NoAccess.data]
  /\ access = [t \in Tasks |-> NoAccess]
  /\ accesses = 0

AtaBusy == ata.state \in {"busy", "commit"}

(***************************************************************************)
(* The disk (external).                                                    *)
(***************************************************************************)

\* A command goes on: to the transfer, or from the transferred data to the
\* platter.
AtaAdvances ==
  /\ AtaBusy
  /\ IF ata.state = "busy"
       THEN /\ ata' = [ata EXCEPT !.state = "drq",
                            !.data = IF ata.op = "read" THEN disk[ata.lba] ELSE @]
            /\ UNCHANGED disk
       ELSE /\ ata' = [ata EXCEPT !.state = "idle"]
            /\ disk' = [disk EXCEPT ![ata.lba] = ata.data]
  /\ UNCHANGED <<access, accesses>>

\* A command fails.  (late: after the data was transferred.)
AtaFails ==
  /\ AtaBusy
  /\ ata' = [ata EXCEPT !.state = "idle", !.err = TRUE]
  /\ access' = [t \in Tasks |->
       [access[t] EXCEPT !.late = @ \/ ata.state = "commit"]]
  /\ UNCHANGED <<disk, accesses>>

(***************************************************************************)
(* The driver.                                                             *)
(***************************************************************************)

\* read_sector or write_sector is called.
AtaAccess(t) ==
  /\ access[t].pc = "idle"
  /\ accesses < MaxAccesses
  /\ \E op \in Ops, lba \in Blocks, word \in Words :
       access' = [u \in Tasks |->
         IF u = t THEN [access[t] EXCEPT !.pc = "free", !.op = op, !.lba = lba,
                          !.data = Buffer(op, word), !.polls = 0, !.tries = 0, !.late = FALSE,
                          !.alone = \A v \in Tasks : access[v].pc = "idle"]
         ELSE [access[u] EXCEPT !.alone = FALSE]]
  /\ accesses' = accesses + 1
  /\ UNCHANGED <<disk, ata>>

\* ata_wait: what each of the four waits is for.
AtaAwaited(pc) ==
  CASE pc \in {"free", "end"} -> ~AtaBusy
    [] pc = "ready" -> ~AtaBusy
    [] pc = "data" -> ata.state = "drq"

AtaWaits(t) == access[t].pc \in {"free", "ready", "data", "end"}

\* Mutant: ata_wait does not count its looks.
AtaSleepForever(t) ==
  /\ AtaWaits(t)
  /\ ~AtaAwaited(access[t].pc) /\ ~ata.err
  /\ UNCHANGED ataVars

\* ata_wait looks, does not find it, and sleeps.
AtaSleep(t) ==
  /\ AtaWaits(t)
  /\ ~AtaAwaited(access[t].pc) /\ ~ata.err /\ access[t].polls < AtaPolls
  /\ access' = [access EXCEPT ![t].polls = @ + 1]
  /\ UNCHANGED <<disk, ata, accesses>>

\* ata_wait gives up on an error or after the last look: ata_reset, and the
\* access fails.  storage.c repeats it.  A reset disk has written the data it
\* had taken, or not.
ata_reset(t) ==
  /\ AtaWaits(t)
  /\ ~AtaAwaited(access[t].pc) /\ (ata.err \/ access[t].polls = AtaPolls)
  /\ ata' = [ata EXCEPT !.state = "idle", !.err = FALSE]
  /\ \/ UNCHANGED disk
     \/ /\ ata.state = "commit"
        /\ disk' = [disk EXCEPT ![ata.lba] = ata.data]
  /\ access' = [access EXCEPT ![t].polls = 0,
                  ![t].tries = IF @ <= AtaRetries THEN @ + 1 ELSE @,
                  ![t].pc = IF access[t].tries <= AtaRetries THEN "free" ELSE "done",
                  ![t].result = 0]
  /\ UNCHANGED accesses

\* ata_begin selects the drive...
AtaSelect(t) ==
  /\ access[t].pc = "free" /\ AtaAwaited("free")
  /\ access' = [access EXCEPT ![t].pc = "ready", ![t].polls = 0]
  /\ UNCHANGED <<disk, ata, accesses>>

\* ...and, when it is ready, writes the registers and the command.
ata_begin(t) ==
  /\ access[t].pc = "ready" /\ AtaAwaited("ready")
  /\ ata' = [ata EXCEPT !.state = "busy", !.op = access[t].op, !.err = FALSE,
                              !.lba = access[t].lba]
  /\ access' = [access EXCEPT ![t].pc = "data", ![t].polls = 0]
  /\ UNCHANGED <<disk, accesses>>

\* ata_read takes the words the disk holds ready.  They are undefined when the
\* disk waits for those of somebody's write.
ata_read(t) ==
  /\ access[t].pc = "data" /\ access[t].op = "read" /\ AtaAwaited("data")
  /\ \E word \in IF ata.op = "read" THEN {ata.data} ELSE Words :
       access' = [access EXCEPT ![t].pc = "end", ![t].polls = 0, ![t].data = word]
  /\ ata' = [ata EXCEPT !.state = "idle"]
  /\ UNCHANGED <<disk, accesses>>

\* Mutant: ata_write returns when it has given the words.
ata_writeAndGo(t) ==
  /\ access[t].pc = "data" /\ access[t].op = "write" /\ AtaAwaited("data")
  /\ ata' = IF ata.op = "write"
                 THEN [ata EXCEPT !.state = "commit", !.data = access[t].data]
                 ELSE [ata EXCEPT !.state = "idle"]
  /\ access' = [access EXCEPT ![t].pc = "done", ![t].polls = 0, ![t].result = 1]
  /\ UNCHANGED <<disk, accesses>>

\* ata_write gives it the words to write.
ata_write(t) ==
  /\ access[t].pc = "data" /\ access[t].op = "write" /\ AtaAwaited("data")
  /\ ata' = IF ata.op = "write"
                 THEN [ata EXCEPT !.state = "commit", !.data = access[t].data]
                 ELSE [ata EXCEPT !.state = "idle"]
  /\ access' = [access EXCEPT ![t].pc = "end", ![t].polls = 0]
  /\ UNCHANGED <<disk, accesses>>

\* The last wait is for the disk to be idle, with or without an error.
AtaFinish(t) ==
  /\ access[t].pc = "end" /\ AtaAwaited("end")
  /\ access' = [access EXCEPT ![t].pc = "done", ![t].polls = 0, ![t].result = 1]
  /\ UNCHANGED <<disk, ata, accesses>>

AtaReturn(t) ==
  /\ access[t].pc = "done"
  /\ access' = [access EXCEPT ![t] = NoAccess]
  /\ UNCHANGED <<disk, ata, accesses>>

AtaStep(t) ==
  \/ AtaSleep(t) \/ ata_reset(t) \/ AtaSelect(t) \/ ata_begin(t)
  \/ ata_read(t) \/ ata_write(t) \/ AtaFinish(t) \/ AtaReturn(t)

AtaNext ==
  \/ AtaAdvances \/ AtaFails
  \/ \E t \in Tasks : AtaAccess(t) \/ AtaStep(t)

\* Every task runs; the disk may never answer.
AtaSpec == AtaInit /\ [][AtaNext]_ataVars /\ \A t \in Tasks : WF_ataVars(AtaStep(t))

(***************************************************************************)
(* Properties.                                                             *)
(***************************************************************************)

\* A read that succeeds returns the sector, however often it was repeated, as
\* long as no other task's access overlapped it.
ReadsWhatIsThere ==
  \A t \in Tasks :
    access[t].pc = "done" /\ access[t].result = 1 /\ access[t].op = "read"
      /\ access[t].alone
    => access[t].data = disk[access[t].lba]

\* A write that succeeds is on the disk, unless another task's access overlapped
\* it or the disk failed the command after taking the words: the last wait does
\* not look at the error bit.
WritesWhatItSays ==
  \A t \in Tasks :
    access[t].pc = "done" /\ access[t].result = 1 /\ access[t].op = "write"
      /\ access[t].alone /\ ~access[t].late
    => disk[access[t].lba] = access[t].data

\* What an access reports is true.
AtaTellsTheTruth == ReadsWhatIsThere /\ WritesWhatItSays

\* Every access ends, whatever the disk does and whatever other tasks do to it.
AccessesEnd == \A t \in Tasks : access[t].pc # "idle" ~> access[t].pc = "idle"

=============================================================================
