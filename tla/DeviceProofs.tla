---------------------------- MODULE DeviceProofs ----------------------------
(***************************************************************************)
(* Theorems about the disk drivers and the keyboard, for any number of     *)
(* tasks, sectors, command slots and keys and any number of looks and      *)
(* repetitions: what an access reports is true, from whatever state the    *)
(* accesses before it left the device in, and characters reach the reader  *)
(* once and in order.                                                      *)
(***************************************************************************)
EXTENDS MCDevices, TLAPS, WellFoundedInduction, SequenceTheorems

LEMMA SomeInSet == SomeBlock \in Blocks /\ SomeWord \in Words
BY DisksAssumption DEF SomeBlock, SomeWord

LEMMA BufferIsWord == ASSUME NEW op, NEW word \in Words PROVE Buffer(op, word) \in Words
BY SomeInSet DEF Buffer

(***************************************************************************)
(* The programmed I/O driver.                                              *)
(***************************************************************************)

AtaAccesses ==
  [pc : {"idle", "free", "ready", "data", "end", "done"}, op : Ops,
   lba : Blocks, data : Words, polls : 0..AtaPolls, tries : 0..(AtaRetries + 1),
   result : {0, 1}, alone : BOOLEAN, late : BOOLEAN]

Registers ==
  [state : {"idle", "busy", "drq", "commit"}, op : Ops, err : BOOLEAN,
   lba : Blocks, data : Words]

\* A command is under way only while a task waits for it.
AtaAttended ==
  /\ ata.state = "busy" => \E t \in Tasks : access[t].pc = "data"
  /\ ata.state = "commit" => \E t \in Tasks : access[t].pc = "end"

\* While an access that nothing has overlapped is under way, the others are idle.
AtaLone ==
  \A t \in Tasks : access[t].alone /\ access[t].pc # "idle"
    => \A u \in Tasks \ {t} : access[u].pc = "idle"

\* What access a has moved, when the disk will move nothing more.
AtaMoved(a) ==
  /\ ~AtaBusy
  /\ a.op = "read" => a.data = disk[a.lba]
  /\ a.op = "write" /\ ~a.late => disk[a.lba] = a.data

\* Access a after a step: what a step leaves alone is as it was.
Stepped(a, stop, data, polls, tries, result) ==
  [pc |-> stop, op |-> a.op, lba |-> a.lba, data |-> data, polls |-> polls, tries |-> tries,
   result |-> result, alone |-> a.alone, late |-> a.late]

\* How far the disk is with a lone access.
AtaFollows(a) ==
  /\ a.pc = "data" =>
       /\ ata.state # "commit" /\ ata.op = a.op /\ ata.lba = a.lba
       /\ ata.state = "drq" /\ a.op = "read" => ata.data = disk[a.lba]
  /\ a.pc = "end" =>
       \/ AtaMoved(a)
       \/ a.op = "write" /\ ata.state = "commit" /\ ata.lba = a.lba /\ ata.data = a.data
  /\ a.pc = "done" /\ a.result = 1 => AtaMoved(a)

AtaInv ==
  /\ AtaTypeOK
  /\ AtaAttended
  /\ AtaLone
  /\ \A t \in Tasks : access[t].alone => AtaFollows(access[t])

LEMMA AccessFields ==
  ASSUME NEW a \in AtaAccesses
  PROVE  /\ a = Stepped(a, a.pc, a.data, a.polls, a.tries, a.result)
         /\ a.pc \in {"idle", "free", "ready", "data", "end", "done"} /\ a.data \in Words
         /\ a.polls \in 0..AtaPolls /\ a.tries \in 0..(AtaRetries + 1) /\ a.result \in {0, 1}
         /\ a.op \in Ops /\ a.lba \in Blocks /\ a.alone \in BOOLEAN /\ a.late \in BOOLEAN
BY DEF Stepped, AtaAccesses

LEMMA AtaStart == AtaInit => AtaInv
<1> SUFFICES ASSUME AtaInit PROVE AtaInv
  OBVIOUS
<1>1. NoAccess \in AtaAccesses
  BY SomeInSet, AtaAssumption DEF NoAccess, AtaAccesses, Ops
<1>2. AtaTypeOK
  BY <1>1, SomeInSet DEF AtaInit, AtaTypeOK, AtaAccesses, NoAccess, Ops
<1> QED
  BY <1>2 DEF AtaInit, AtaInv, AtaAttended, AtaLone, AtaFollows, NoAccess

\* The disk's own steps.
LEMMA AtaDiskKeeps ==
  ASSUME AtaInv, AtaAdvances \/ AtaFails
  PROVE  AtaInv'
<1> USE DEF Ops
<1>0. /\ AtaTypeOK /\ AtaAttended /\ AtaLone
      /\ \A t \in Tasks : access[t].alone => AtaFollows(access[t])
  BY DEF AtaInv
<1>1. CASE AtaAdvances
  <2>1. AtaTypeOK'
    BY <1>0, <1>1 DEF AtaTypeOK, AtaAdvances
  <2>2. AtaAttended' /\ AtaLone'
    <3>1. ata'.state \in {"drq", "idle"} /\ access' = access
      BY <1>0, <1>1 DEF AtaTypeOK, AtaAdvances, AtaBusy
    <3> QED
      BY <1>0, <3>1 DEF AtaAttended, AtaLone
  <2>3. ASSUME NEW t \in Tasks, access'[t].alone PROVE AtaFollows(access[t])'
    <3> DEFINE a == access[t]
    <3>1. a' = a /\ a \in AtaAccesses /\ AtaFollows(a)
      BY <1>0, <1>1, <2>3 DEF AtaTypeOK, AtaAccesses, AtaAdvances
    <3>2. \A u \in Tasks \ {t} : a.pc # "idle" => access[u].pc = "idle"
      BY <1>0, <3>1, <2>3 DEF AtaLone
    <3>3. /\ ata.state = "busy" /\ a.pc # "idle" => a.pc = "data"
          /\ ata.state = "commit" /\ a.pc # "idle" => a.pc = "end"
      BY <1>0, <3>2 DEF AtaAttended
    <3>4. \/ /\ ata.state = "busy" /\ UNCHANGED disk
             /\ ata'.state = "drq" /\ ata'.op = ata.op /\ ata'.lba = ata.lba
             /\ ata.op = "read" => ata'.data = disk[ata.lba]
          \/ /\ ata.state = "commit" /\ ata'.state = "idle"
             /\ disk' = [disk EXCEPT ![ata.lba] = ata.data]
      BY <1>0, <1>1 DEF AtaTypeOK, AtaAdvances, AtaBusy
    <3>5. ata.lba \in Blocks /\ disk \in [Blocks -> Words]
      BY <1>0 DEF AtaTypeOK
    <3> SUFFICES AtaFollows(a)'
      OBVIOUS
    <3> HIDE DEF a
    <3> QED
      BY <3>1, <3>3, <3>4, <3>5 DEF AtaFollows, AtaMoved, AtaBusy
  <2> QED
    BY <2>1, <2>2, <2>3 DEF AtaInv
<1>2. CASE AtaFails
  <2>0. /\ ata'.state = "idle" /\ ata'.op = ata.op /\ ata'.lba = ata.lba /\ UNCHANGED disk
        /\ ata' \in Registers
    BY <1>0, <1>2 DEF AtaTypeOK, AtaFails, Registers
  <2>1. ASSUME NEW t \in Tasks
        PROVE  /\ access'[t] \in AtaAccesses
               /\ access'[t].pc = access[t].pc /\ access'[t].op = access[t].op
               /\ access'[t].lba = access[t].lba /\ access'[t].data = access[t].data
               /\ access'[t].result = access[t].result /\ access'[t].alone = access[t].alone
               /\ ata.state = "commit" => access'[t].late
               /\ access[t].late => access'[t].late
    <3>1. access[t] \in AtaAccesses
      BY <1>0 DEF AtaTypeOK, AtaAccesses
    <3>2. access'[t] = [access[t] EXCEPT !.late = access[t].late \/ ata.state = "commit"]
      BY <1>2 DEF AtaFails
    <3> DEFINE late == access[t].late \/ ata.state = "commit"
    <3>3. late \in BOOLEAN
      BY <3>1 DEF AtaAccesses
    <3>4. access'[t] = [access[t] EXCEPT !.late = late]
      BY <3>2
    <3>5. (ata.state = "commit" => late) /\ (access[t].late => late)
      OBVIOUS
    <3> HIDE DEF late
    <3>6. access'[t] \in AtaAccesses /\ access'[t].late = late
      BY <3>1, <3>3, <3>4 DEF AtaAccesses
    <3> QED
      BY <3>1, <3>4, <3>5, <3>6 DEF AtaAccesses
  <2>2. AtaTypeOK'
    <3>1. access' \in [Tasks -> AtaAccesses]
      BY <1>2, <2>1 DEF AtaFails
    <3> QED
      BY <1>0, <2>0, <3>1 DEF AtaTypeOK, AtaAccesses, Registers
  <2>3. \A t \in Tasks : access'[t].pc = access[t].pc /\ access'[t].alone = access[t].alone
    BY <2>1
  <2>4. AtaAttended' /\ AtaLone'
    BY <1>0, <2>0, <2>3 DEF AtaAttended, AtaLone
  <2>5. ASSUME NEW t \in Tasks, access'[t].alone PROVE AtaFollows(access[t])'
    <3> DEFINE a == access[t]
    <3>1. /\ a'.pc = a.pc /\ a'.op = a.op /\ a'.lba = a.lba /\ a'.data = a.data
          /\ a'.result = a.result
          /\ ata.state = "commit" => a'.late
          /\ a.late => a'.late
      BY <2>1
    <3>2. AtaFollows(a) /\ AtaBusy
      BY <1>0, <1>2, <2>3, <2>5 DEF AtaFails
    <3> SUFFICES AtaFollows(a)'
      OBVIOUS
    <3> HIDE DEF a
    <3> QED
      BY <2>0, <3>1, <3>2 DEF AtaFollows, AtaMoved, AtaBusy
  <2> QED
    BY <2>2, <2>4, <2>5 DEF AtaInv
<1> QED
  BY <1>1, <1>2

\* A call: the accesses under way are no longer alone.
LEMMA AtaCallKeeps ==
  ASSUME AtaInv, NEW t \in Tasks, AtaAccess(t)
  PROVE  AtaInv'
<1>0. /\ AtaTypeOK /\ AtaAttended /\ AtaLone
      /\ \A u \in Tasks : access[u].alone => AtaFollows(access[u])
  BY DEF AtaInv
<1>1. PICK op \in Ops, lba \in Blocks, word \in Words :
       access' = [u \in Tasks |->
         IF u = t THEN [access[t] EXCEPT !.pc = "free", !.op = op, !.lba = lba,
                          !.data = Buffer(op, word), !.polls = 0, !.tries = 0, !.late = FALSE,
                          !.alone = \A v \in Tasks : access[v].pc = "idle"]
         ELSE [access[u] EXCEPT !.alone = FALSE]]
  BY DEF AtaAccess
<1>2. access[t].pc = "idle" /\ UNCHANGED <<disk, ata>>
  BY DEF AtaAccess
<1>3. Buffer(op, word) \in Words
  BY BufferIsWord
<1>4. access \in [Tasks -> AtaAccesses]
  BY <1>0 DEF AtaTypeOK, AtaAccesses
<1>5. \A u \in Tasks \ {t} : access'[u].pc = access[u].pc /\ access'[u].alone = FALSE
  BY <1>1, <1>4 DEF AtaAccesses
<1>6. /\ access'[t].pc = "free"
      /\ access'[t].alone => \A v \in Tasks : access[v].pc = "idle"
  BY <1>1, <1>4 DEF AtaAccesses
<1>7. access' \in [Tasks -> AtaAccesses]
  <2>1. ASSUME NEW u \in Tasks PROVE access'[u] \in AtaAccesses
    <3>1. CASE u = t
      <4> DEFINE alone == \A v \in Tasks : access[v].pc = "idle"
      <4>1. access[t] \in AtaAccesses
        BY <1>4
      <4>2. access'[u] = [pc |-> "free", op |-> op, lba |-> lba, data |-> Buffer(op, word),
                          polls |-> 0, tries |-> 0, result |-> access[t].result,
                          alone |-> alone, late |-> FALSE]
        <5>1. access[t] = Stepped(access[t], access[t].pc, access[t].data, access[t].polls,
                                  access[t].tries, access[t].result)
          BY <4>1, AccessFields
        <5>2. access'[u] = [access[t] EXCEPT !.pc = "free", !.op = op, !.lba = lba,
                          !.data = Buffer(op, word), !.polls = 0, !.tries = 0, !.late = FALSE,
                          !.alone = alone]
          BY <1>1, <3>1
        <5> HIDE DEF alone
        <5> QED
          BY <5>1, <5>2 DEF Stepped
      <4>3. access[t].result \in {0, 1} /\ alone \in BOOLEAN
        BY <4>1 DEF AtaAccesses
      <4> HIDE DEF alone
      <4> QED
        BY <1>3, <4>2, <4>3, AtaAssumption DEF AtaAccesses
    <3>2. CASE u # t
      <4>1. access[u] \in AtaAccesses /\ access'[u] = [access[u] EXCEPT !.alone = FALSE]
        BY <1>1, <1>4, <3>2
      <4> QED
        BY <4>1 DEF AtaAccesses
    <3> QED
      BY <3>1, <3>2
  <2> QED
    BY <2>1, <1>1
<1>8. AtaTypeOK'
  BY <1>0, <1>2, <1>7 DEF AtaTypeOK, AtaAccesses
<1>9. AtaAttended' /\ AtaLone'
  BY <1>0, <1>2, <1>5, <1>6 DEF AtaAttended, AtaLone
<1>10. \A u \in Tasks : access'[u].alone => AtaFollows(access[u])'
  BY <1>5, <1>6 DEF AtaFollows
<1> QED
  BY <1>8, <1>9, <1>10 DEF AtaInv

\* A step of an access: the registers follow it when it is alone, and otherwise it
\* only has to keep its types and leave no command unattended.
LEMMA AtaStepKeeps ==
  ASSUME AtaInv, NEW t \in Tasks, AtaStep(t)
  PROVE  AtaInv'
<1> USE DEF Ops
<1>0. /\ AtaTypeOK /\ AtaAttended /\ AtaLone
      /\ \A u \in Tasks : access[u].alone => AtaFollows(access[u])
  BY DEF AtaInv
<1> DEFINE a == access[t]
<1>1. access \in [Tasks -> AtaAccesses]
  BY <1>0 DEF AtaTypeOK, AtaAccesses
<1>a. a \in AtaAccesses
  BY <1>1
<1>b. /\ a = Stepped(a, a.pc, a.data, a.polls, a.tries, a.result)
      /\ a.pc \in {"idle", "free", "ready", "data", "end", "done"} /\ a.data \in Words
      /\ a.polls \in 0..AtaPolls /\ a.tries \in 0..(AtaRetries + 1) /\ a.result \in {0, 1}
      /\ a.op \in Ops /\ a.lba \in Blocks /\ a.alone \in BOOLEAN /\ a.late \in BOOLEAN
  BY <1>a, AccessFields
<1>2. \A u \in Tasks \ {t} : access'[u] = access[u]
  BY <1>1 DEF AtaStep, AtaSleep, ata_reset, AtaSelect, ata_begin, ata_read, ata_write, AtaFinish, AtaReturn
<1>3. NoAccess \in AtaAccesses /\ NoAccess.pc = "idle"
  BY SomeInSet, AtaAssumption DEF NoAccess, AtaAccesses
<1>4. /\ a' \in AtaAccesses
      /\ ata' \in Registers /\ disk' \in [Blocks -> Words]
      /\ ata'.state = "busy" => a'.pc = "data" \/ (ata.state = "busy" /\ a.pc # "data")
      /\ ata'.state = "commit" => a'.pc = "end" \/ (ata.state = "commit" /\ a.pc # "end")
      /\ a'.pc # "idle" => a.pc # "idle" /\ a'.alone = a.alone
      /\ AtaFollows(a) => AtaFollows(a)'
  <2>0. ata \in Registers /\ disk \in [Blocks -> Words]
    BY <1>0 DEF AtaTypeOK, Registers
  <2>r. /\ ata = [state |-> ata.state, op |-> ata.op, err |-> ata.err, lba |-> ata.lba,
                  data |-> ata.data]
        /\ ata.op \in Ops /\ ata.lba \in Blocks /\ ata.data \in Words /\ ata.err \in BOOLEAN
    BY <2>0 DEF Registers
  <2> USE AtaAssumption DEF Registers
  <2>1. CASE AtaSleep(t)
    <3>1. a' = Stepped(a, a.pc, a.data, a.polls + 1, a.tries, a.result)
      BY <1>1, <1>b, <2>1 DEF AtaSleep, Stepped
    <3>2. UNCHANGED <<disk, ata>> /\ a.polls < AtaPolls
      BY <1>1, <1>a, <2>0, <2>1 DEF AtaSleep, AtaWaits, AtaAwaited, AtaBusy
    <3> HIDE DEF a
    <3>3. a' \in AtaAccesses
      BY <1>b, <3>1, <3>2 DEF Stepped, AtaAccesses
    <3> QED
      BY <1>a, <2>0, <3>1, <3>2, <3>3 DEF Stepped, AtaFollows, AtaMoved, AtaBusy
  <2>2. CASE ata_reset(t)
    <3>1. a' = Stepped(a, IF a.tries <= AtaRetries THEN "free" ELSE "done", a.data, 0,
                        IF a.tries <= AtaRetries THEN a.tries + 1 ELSE a.tries, 0)
      BY <1>1, <1>b, <2>2 DEF ata_reset, Stepped
    <3>2. /\ ata' \in Registers /\ ata'.state = "idle"
          /\ disk' \in [Blocks -> Words] /\ a.pc # "idle"
      BY <1>1, <1>a, <2>0, <2>2 DEF ata_reset, AtaWaits, AtaAwaited, AtaBusy
    <3> HIDE DEF a
    <3>3. a' \in AtaAccesses
      BY <1>b, <3>1, <3>2 DEF Stepped, AtaAccesses
    <3> QED
      BY <1>a, <2>0, <3>1, <3>2, <3>3 DEF Stepped, AtaFollows, AtaMoved, AtaBusy
  <2>3. CASE AtaSelect(t)
    <3>1. a' = Stepped(a, "ready", a.data, 0, a.tries, a.result)
      BY <1>1, <1>b, <2>3 DEF AtaSelect, Stepped
    <3>2. UNCHANGED <<disk, ata>> /\ a.pc = "free" /\ ~AtaBusy
      BY <1>1, <1>a, <2>0, <2>3 DEF AtaSelect, AtaWaits, AtaAwaited, AtaBusy
    <3> HIDE DEF a
    <3>3. a' \in AtaAccesses
      BY <1>b, <3>1, <3>2 DEF Stepped, AtaAccesses
    <3> QED
      BY <1>a, <2>0, <3>1, <3>2, <3>3 DEF Stepped, AtaFollows, AtaMoved, AtaBusy
  <2>4. CASE ata_begin(t)
    <3>1. a' = Stepped(a, "data", a.data, 0, a.tries, a.result)
      BY <1>1, <1>b, <2>4 DEF ata_begin, Stepped
    <3>2. /\ UNCHANGED disk /\ a.pc = "ready"
          /\ ata' \in Registers /\ ata'.state = "busy" /\ ata'.op = a.op /\ ata'.lba = a.lba
      <4>1. ata' = [state |-> "busy", op |-> a.op, err |-> FALSE, lba |-> a.lba,
                    data |-> ata.data]
        BY <2>r, <2>4 DEF ata_begin
      <4> QED
        BY <1>b, <2>r, <2>4, <4>1 DEF ata_begin
    <3> HIDE DEF a
    <3>3. a' \in AtaAccesses
      BY <1>b, <3>1, <3>2 DEF Stepped, AtaAccesses
    <3> QED
      BY <1>a, <2>0, <3>1, <3>2, <3>3 DEF Stepped, AtaFollows, AtaMoved, AtaBusy
  <2>5. CASE ata_read(t)
    <3>1. PICK word \in IF ata.op = "read" THEN {ata.data} ELSE Words :
             access' = [access EXCEPT ![t].pc = "end", ![t].polls = 0, ![t].data = word]
      BY <2>5 DEF ata_read
    <3>2. a' = Stepped(a, "end", word, 0, a.tries, a.result) /\ word \in Words
      BY <1>1, <1>b, <2>0, <3>1 DEF Stepped
    <3>3. /\ UNCHANGED disk /\ a.pc = "data" /\ a.op = "read" /\ ata.state = "drq"
          /\ ata' \in Registers /\ ata'.state = "idle"
      BY <1>1, <1>a, <2>0, <2>5 DEF ata_read, AtaAwaited
    <3> HIDE DEF a
    <3>4. a' \in AtaAccesses
      BY <1>b, <3>2 DEF Stepped, AtaAccesses
    <3> QED
      BY <1>a, <2>0, <3>1, <3>2, <3>3, <3>4 DEF Stepped, AtaFollows, AtaMoved, AtaBusy
  <2>6. CASE ata_write(t)
    <3>1. a' = Stepped(a, "end", a.data, 0, a.tries, a.result)
      BY <1>1, <1>b, <2>6 DEF ata_write, Stepped
    <3>2. /\ UNCHANGED disk /\ a.pc = "data" /\ a.op = "write" /\ ata.state = "drq"
          /\ ata' \in Registers
          /\ ata.op = "write" => ata'.state = "commit" /\ ata'.lba = ata.lba /\ ata'.data = a.data
          /\ ata.op # "write" => ata'.state = "idle"
      <4>1. ata' = [state |-> IF ata.op = "write" THEN "commit" ELSE "idle", op |-> ata.op,
                    err |-> ata.err, lba |-> ata.lba,
                    data |-> IF ata.op = "write" THEN a.data ELSE ata.data]
        BY <2>r, <2>6 DEF ata_write
      <4> QED
        BY <1>b, <2>r, <2>6, <4>1 DEF ata_write, AtaAwaited
    <3> HIDE DEF a
    <3>3. a' \in AtaAccesses
      BY <1>b, <3>1, <3>2 DEF Stepped, AtaAccesses
    <3> QED
      BY <1>a, <2>0, <3>1, <3>2, <3>3 DEF Stepped, AtaFollows, AtaMoved, AtaBusy
  <2>7. CASE AtaFinish(t)
    <3>1. a' = Stepped(a, "done", a.data, 0, a.tries, 1)
      BY <1>1, <1>b, <2>7 DEF AtaFinish, Stepped
    <3>2. UNCHANGED <<disk, ata>> /\ a.pc = "end" /\ ~AtaBusy
      BY <1>1, <1>a, <2>0, <2>7 DEF AtaFinish, AtaWaits, AtaAwaited, AtaBusy
    <3> HIDE DEF a
    <3>3. a' \in AtaAccesses
      BY <1>b, <3>1, <3>2 DEF Stepped, AtaAccesses
    <3> QED
      BY <1>a, <2>0, <3>1, <3>2, <3>3 DEF Stepped, AtaFollows, AtaMoved, AtaBusy
  <2>8. CASE AtaReturn(t)
    <3>1. a' = NoAccess /\ UNCHANGED <<disk, ata>> /\ a.pc = "done"
      BY <1>1, <2>8 DEF AtaReturn
    <3> QED
      BY <1>3, <2>0, <3>1 DEF AtaFollows
  <2> QED
    BY <2>1, <2>2, <2>3, <2>4, <2>5, <2>6, <2>7, <2>8 DEF AtaStep
<1>5. AtaTypeOK'
  <2>1. access' \in [Tasks -> AtaAccesses]
    BY <1>1, <1>4 DEF AtaStep, AtaSleep, ata_reset, AtaSelect, ata_begin, ata_read, ata_write,
      AtaFinish, AtaReturn
  <2> QED
    BY <1>4, <2>1 DEF AtaTypeOK, AtaAccesses, Registers
<1>6. AtaAttended'
  BY <1>0, <1>2, <1>4 DEF AtaAttended
<1>7. AtaLone'
  BY <1>0, <1>2, <1>4 DEF AtaLone
<1>8. ASSUME NEW u \in Tasks, access'[u].alone PROVE AtaFollows(access[u])'
  <2>1. CASE access'[u].pc = "idle"
    BY <2>1 DEF AtaFollows
  <2>2. CASE u = t /\ access'[u].pc # "idle"
    BY <1>0, <1>4, <1>8, <2>2
  <2>3. CASE u # t /\ access'[u].pc # "idle"
    <3>1. access[t].pc = "idle"
      BY <1>0, <1>2, <1>8, <2>3 DEF AtaLone
    <3> QED
      BY <3>1 DEF AtaStep, AtaSleep, ata_reset, AtaSelect, ata_begin, ata_read, ata_write, AtaFinish, AtaReturn, AtaWaits
  <2> QED
    BY <2>1, <2>2, <2>3
<1> QED
  BY <1>5, <1>6, <1>7, <1>8 DEF AtaInv

LEMMA AtaInductive == AtaInv /\ [AtaNext]_ataVars => AtaInv'
<1> SUFFICES ASSUME AtaInv, [AtaNext]_ataVars PROVE AtaInv'
  OBVIOUS
<1>1. CASE UNCHANGED ataVars
  BY <1>1 DEF ataVars, AtaInv, AtaTypeOK, AtaAttended, AtaLone, AtaFollows, AtaMoved, AtaBusy
<1> QED
  BY <1>1, AtaDiskKeeps, AtaCallKeeps, AtaStepKeeps DEF AtaNext

LEMMA AtaInvariant == AtaSpec => []AtaInv
<1>1. AtaInit => AtaInv
  BY AtaStart
<1>2. AtaInv /\ [AtaNext]_ataVars => AtaInv'
  BY AtaInductive
<1> QED
  BY <1>1, <1>2, PTL DEF AtaSpec

\* The registers and the accesses of src/kernel/ata.c are well typed: no access is
\* looked for or repeated more often than its loops allow.
THEOREM AtaTypes == AtaSpec => []AtaTypeOK
BY AtaInvariant, PTL DEF AtaInv

\* However slow the disk is, however often it fails and is reset, and whatever
\* accesses of other tasks left in its registers, an access that nothing overlaps
\* and that read_sector or write_sector reports as done has read or written its
\* sector.
THEOREM AtaIsTruthful == AtaSpec => []AtaTellsTheTruth
<1>1. AtaInv => AtaTellsTheTruth
  BY DEF AtaInv, AtaFollows, AtaMoved, AtaTellsTheTruth, ReadsWhatIsThere, WritesWhatItSays
<1> QED
  BY <1>1, AtaInvariant, PTL

(***************************************************************************)
(* AHCI.                                                                   *)
(***************************************************************************)

Pcs == {"idle", "clear", "slot", "build", "issue", "wait", "done"}

AhciAccesses ==
  [pc : Pcs, op : Ops, lba : Blocks, data : Words, slot : 0..(CapSlots - 1),
   result : {0, 1}, alone : BOOLEAN]

Tables == [op : Ops, lba : Blocks, data : Words, task : Tasks]

AhciTyped ==
  /\ AhciTypeOK
  /\ platter \in [Blocks -> Words]
  /\ hba \in [ci : SUBSET (0..(CapSlots - 1)), tfes : BOOLEAN, halted : BOOLEAN]
  /\ table \in [0..(CapSlots - 1) -> Tables]
  /\ command \in [Tasks -> AhciAccesses]

\* A port that runs has no command no task waits for.
AhciAttended ==
  /\ hba.tfes => hba.halted
  /\ ~hba.halted => \A s \in hba.ci : \E t \in Tasks : command[t].pc = "wait" /\ command[t].slot = s

\* While an access that nothing has overlapped is under way, the others are idle.
AhciLone ==
  \A t \in Tasks : command[t].alone /\ command[t].pc # "idle"
    => \A u \in Tasks \ {t} : command[u].pc = "idle"

\* The slot of access a holds it.
Holds(t, a) == table[a.slot] = [op |-> a.op, lba |-> a.lba, data |-> a.data, task |-> t]

\* How far the port is with a lone access.
AhciFollows(t, a) ==
  /\ a.pc = "issue" => Holds(t, a)
  /\ a.pc = "wait" => IF a.slot \in hba.ci THEN Holds(t, a) ELSE a.data = platter[a.lba]
  /\ a.pc = "done" /\ a.result = 1 => a.data = platter[a.lba]

AhciInv ==
  /\ AhciTyped
  /\ AhciAttended
  /\ AhciLone
  /\ \A t \in Tasks : command[t].alone => AhciFollows(t, command[t])
\* A set of numbers that is not empty has a least one.
LEMMA MinIsIn ==
  ASSUME NEW S \in SUBSET Nat, S # {}
  PROVE  Min(S) \in S
<1> DEFINE R == {ss \in Nat \X Nat : ss[1] < ss[2]}
<1>1. IsWellFoundedOn(R, Nat)
  BY NatLessThanWellFounded DEF OpToRel
<1>2. PICK x \in S : \A y \in S : <<y, x>> \notin R
  <2> HIDE DEF R
  <2> QED
    BY <1>1, WFMin
<1>3. ASSUME NEW y \in S PROVE x <= y
  <2>1. ~(y < x)
    <3>1. <<y, x>> \in Nat \X Nat /\ <<y, x>>[1] = y /\ <<y, x>>[2] = x
      OBVIOUS
    <3> QED
      BY <1>2, <3>1, Zenon
  <2> QED
    BY <2>1
<1> QED
  BY <1>3 DEF Min

\* Access a after a step.
Advanced(a, stop, slot, result) ==
  [pc |-> stop, op |-> a.op, lba |-> a.lba, data |-> a.data, slot |-> slot, result |-> result,
   alone |-> a.alone]

LEMMA CommandFields ==
  ASSUME NEW a \in AhciAccesses
  PROVE  /\ a = Advanced(a, a.pc, a.slot, a.result)
         /\ a.pc \in Pcs /\ a.op \in Ops /\ a.lba \in Blocks /\ a.data \in Words
         /\ a.slot \in 0..(CapSlots - 1) /\ a.result \in {0, 1} /\ a.alone \in BOOLEAN
BY DEF Advanced, AhciAccesses

LEMMA AhciStart == AhciInit => AhciInv
<1> SUFFICES ASSUME AhciInit PROVE AhciInv
  OBVIOUS
<1>1. NoCommand \in AhciAccesses
  BY SomeInSet, AhciAssumption DEF NoCommand, AhciAccesses, Pcs, Ops
<1>2. NoTable \in Tables
  BY SomeInSet, DisksAssumption DEF NoTable, Tables, Ops
<1>3. AhciTyped
  BY <1>1, <1>2, SomeInSet DEF AhciInit, AhciTyped, AhciTypeOK, NoCommand
<1> QED
  BY <1>3 DEF AhciInit, AhciInv, AhciAttended, AhciLone, AhciFollows, NoCommand

\* A command is carried out: it is of a task that waits, and when that task is alone
\* the slot holds its own access.
LEMMA PortCompletesKeeps ==
  ASSUME AhciInv, NEW s \in Slots, PortCompletes(s)
  PROVE  AhciInv'
<1>0. /\ AhciTyped /\ AhciAttended /\ AhciLone
      /\ \A u \in Tasks : command[u].alone => AhciFollows(u, command[u])
  BY DEF AhciInv
<1> DEFINE x == table[s]
<1>1. /\ s \in hba.ci /\ ~hba.halted /\ UNCHANGED table
      /\ hba' = [ci |-> hba.ci \ {s}, tfes |-> hba.tfes, halted |-> hba.halted]
  BY <1>0 DEF PortCompletes, AhciTyped
<1>2. s \in 0..(CapSlots - 1) /\ x \in Tables /\ command \in [Tasks -> AhciAccesses]
  BY <1>0, <1>1 DEF AhciTyped
<1>3. \/ /\ x.op = "read" /\ UNCHANGED platter
         /\ command' = [command EXCEPT ![x.task].data = platter[x.lba]]
      \/ /\ x.op = "write" /\ UNCHANGED command
         /\ platter' = [platter EXCEPT ![x.lba] = x.data]
  BY <1>2 DEF PortCompletes, Tables, Ops
<1>4. /\ x.lba \in Blocks /\ x.data \in Words /\ x.task \in Tasks
      /\ platter \in [Blocks -> Words] /\ platter' \in [Blocks -> Words]
  BY <1>0, <1>2, <1>3 DEF Tables, AhciTyped
<1> HIDE DEF x
<1>5. ASSUME NEW u \in Tasks
      PROVE  /\ command'[u] \in AhciAccesses
             /\ command'[u].pc = command[u].pc /\ command'[u].slot = command[u].slot
             /\ command'[u].op = command[u].op /\ command'[u].lba = command[u].lba
             /\ command'[u].alone = command[u].alone /\ command'[u].result = command[u].result
             /\ command'[u].data = IF x.op = "read" /\ u = x.task THEN platter[x.lba]
                                   ELSE command[u].data
  <2>1. command[u] \in AhciAccesses /\ platter[x.lba] \in Words
    BY <1>2, <1>4
  <2>2. CASE x.op = "read" /\ u = x.task
    <3>1. command'[u] = [command[u] EXCEPT !.data = platter[x.lba]]
      BY <1>2, <1>3, <2>2
    <3> QED
      BY <2>1, <2>2, <3>1 DEF AhciAccesses
  <2>3. CASE ~(x.op = "read" /\ u = x.task)
    <3>1. command'[u] = command[u]
      BY <1>2, <1>3, <1>4, <2>3
    <3> QED
      BY <2>1, <2>3, <3>1
  <2> QED
    BY <2>2, <2>3
<1>6. command' \in [Tasks -> AhciAccesses]
  BY <1>2, <1>3, <1>5
<1>7. AhciTyped'
  BY <1>0, <1>1, <1>4, <1>5, <1>6 DEF AhciTyped, AhciTypeOK
<1>8. AhciAttended' /\ AhciLone'
  BY <1>0, <1>1, <1>5 DEF AhciTyped, AhciAttended, AhciLone
<1>9. ASSUME NEW t \in Tasks, command'[t].alone PROVE AhciFollows(t, command[t])'
  <2> DEFINE a == command[t]
  <2>1. a.alone /\ AhciFollows(t, a) /\ a \in AhciAccesses
    BY <1>0, <1>2, <1>5, <1>9
  <2>2. a.pc = "idle" \/ (a.pc = "wait" /\ a.slot = s)
    BY <1>0, <1>1, <2>1 DEF AhciAttended, AhciLone
  <2>3. CASE a.pc = "idle"
    BY <1>5, <2>3 DEF AhciFollows
  <2>4. CASE a.pc = "wait" /\ a.slot = s
    <3>1. x = [op |-> a.op, lba |-> a.lba, data |-> a.data, task |-> t]
      BY <1>1, <2>1, <2>4 DEF AhciFollows, Holds, x
    <3>2. x.op = a.op /\ x.lba = a.lba /\ x.data = a.data /\ x.task = t
      BY <3>1
    <3>3. a'.pc = "wait" /\ a'.slot = s /\ a'.lba = a.lba /\ s \notin hba'.ci
      BY <1>1, <1>5, <2>4
    <3>4. a'.data = platter'[a.lba]
      BY <1>3, <1>4, <1>5, <3>2
    <3> QED
      BY <3>3, <3>4 DEF AhciFollows
  <2> QED
    BY <2>2, <2>3, <2>4
<1> QED
  BY <1>7, <1>8, <1>9 DEF AhciInv

LEMMA PortFailsKeeps ==
  ASSUME AhciInv, NEW s \in Slots, PortFails(s)
  PROVE  AhciInv'
<1>0. /\ AhciTyped /\ AhciAttended /\ AhciLone
      /\ \A u \in Tasks : command[u].alone => AhciFollows(u, command[u])
  BY DEF AhciInv
<1>1. /\ hba' = [ci |-> hba.ci, tfes |-> TRUE, halted |-> TRUE]
      /\ UNCHANGED <<platter, table, command>>
  BY <1>0 DEF PortFails, AhciTyped
<1>2. AhciTyped'
  BY <1>0, <1>1 DEF AhciTyped, AhciTypeOK
<1> QED
  BY <1>0, <1>1, <1>2 DEF AhciInv, AhciAttended, AhciLone, AhciFollows, Holds

\* A call: the accesses under way are no longer alone.
LEMMA AhciCallKeeps ==
  ASSUME AhciInv, NEW t \in Tasks, AhciBegin(t)
  PROVE  AhciInv'
<1>0. /\ AhciTyped /\ AhciAttended /\ AhciLone
      /\ \A u \in Tasks : command[u].alone => AhciFollows(u, command[u])
  BY DEF AhciInv
<1> DEFINE alone == \A v \in Tasks : command[v].pc = "idle"
<1>1. PICK op \in Ops, lba \in Blocks, word \in Words :
       command' = [u \in Tasks |->
         IF u = t THEN [NoCommand EXCEPT !.pc = "clear", !.op = op, !.lba = lba,
                          !.data = Buffer(op, word), !.alone = alone]
         ELSE [command[u] EXCEPT !.alone = FALSE]]
  BY DEF AhciBegin
<1>2. command[t].pc = "idle" /\ UNCHANGED <<platter, hba, table>>
  BY DEF AhciBegin
<1>3. alone => \A v \in Tasks : command[v].pc = "idle"
  OBVIOUS
<1>4. alone \in BOOLEAN
  OBVIOUS
<1>5. command \in [Tasks -> AhciAccesses]
  BY <1>0 DEF AhciTyped
<1> HIDE DEF alone
<1>6. command'[t] = [pc |-> "clear", op |-> op, lba |-> lba, data |-> Buffer(op, word),
                     slot |-> 0, result |-> 0, alone |-> alone]
  BY <1>1 DEF NoCommand
<1>7. ASSUME NEW u \in Tasks \ {t}
      PROVE  /\ command'[u] \in AhciAccesses /\ command'[u].alone = FALSE
             /\ command'[u].pc = command[u].pc /\ command'[u].slot = command[u].slot
             /\ command'[u].result = command[u].result
  <2>1. command[u] \in AhciAccesses /\ command'[u] = [command[u] EXCEPT !.alone = FALSE]
    BY <1>1, <1>5
  <2> QED
    BY <2>1 DEF AhciAccesses
<1>8. command'[t] \in AhciAccesses
  BY <1>4, <1>6, BufferIsWord, AhciAssumption DEF AhciAccesses, Pcs
<1>9. command' \in [Tasks -> AhciAccesses]
  BY <1>1, <1>7, <1>8
<1>a. /\ command'[t].pc = "clear" /\ command'[t].result = 0
      /\ command'[t].alone => \A v \in Tasks : command[v].pc = "idle"
  BY <1>3, <1>6
<1>10. AhciTyped'
  <2>1. \A u \in Tasks : command'[u].result = 1 => command'[u].pc \in {"done", "idle"}
    <3>1. \A u \in Tasks : command[u].result = 1 => command[u].pc \in {"done", "idle"}
      BY <1>0 DEF AhciTyped, AhciTypeOK
    <3>2. \A u \in Tasks \ {t} :
            command'[u].result = command[u].result /\ command'[u].pc = command[u].pc
      BY <1>7
    <3> QED
      BY <1>a, <3>1, <3>2
  <2> QED
    BY <1>0, <1>2, <1>9, <2>1 DEF AhciTyped, AhciTypeOK
<1>11. AhciAttended' /\ AhciLone'
  <2>1. \A u \in Tasks \ {t} : /\ ~command'[u].alone
                               /\ command'[u].pc = command[u].pc
                               /\ command'[u].slot = command[u].slot
    BY <1>7
  <2> QED
    BY <1>0, <1>2, <1>a, <2>1 DEF AhciAttended, AhciLone
<1>12. \A u \in Tasks : command'[u].alone => AhciFollows(u, command[u])'
  <2>1. \A u \in Tasks \ {t} : ~command'[u].alone
    BY <1>7
  <2>2. AhciFollows(t, command[t])'
    BY <1>a DEF AhciFollows
  <2> QED
    BY <2>1, <2>2
<1> QED
  BY <1>10, <1>11, <1>12 DEF AhciInv

\* A step of an access: the port follows it when it is alone, and otherwise it only
\* has to keep its types and leave no command unattended.
LEMMA AhciStepKeeps ==
  ASSUME AhciInv, NEW t \in Tasks, AhciStep(t)
  PROVE  AhciInv'
<1>0. /\ AhciTyped /\ AhciAttended /\ AhciLone
      /\ \A u \in Tasks : command[u].alone => AhciFollows(u, command[u])
  BY DEF AhciInv
<1> DEFINE a == command[t]
<1>1. command \in [Tasks -> AhciAccesses]
  BY <1>0 DEF AhciTyped
<1>2. /\ a = Advanced(a, a.pc, a.slot, a.result)
      /\ a.pc \in Pcs /\ a.op \in Ops /\ a.lba \in Blocks /\ a.data \in Words
      /\ a.slot \in 0..(CapSlots - 1) /\ a.result \in {0, 1} /\ a.alone \in BOOLEAN
  BY <1>1, CommandFields
<1>3. /\ hba = [ci |-> hba.ci, tfes |-> hba.tfes, halted |-> hba.halted]
      /\ hba.ci \subseteq 0..(CapSlots - 1) /\ hba.tfes \in BOOLEAN /\ hba.halted \in BOOLEAN
      /\ table \in [0..(CapSlots - 1) -> Tables] /\ platter \in [Blocks -> Words]
      /\ hba.tfes => hba.halted
      /\ a.result = 1 => a.pc \in {"done", "idle"}
  BY <1>0 DEF AhciTyped, AhciTypeOK, AhciAttended
<1>4. NoCommand \in AhciAccesses /\ NoCommand.pc = "idle" /\ NoCommand.result = 0
  BY SomeInSet, AhciAssumption DEF NoCommand, AhciAccesses, Pcs, Ops
<1>5. \A u \in Tasks \ {t} : command'[u] = command[u]
  BY <1>1 DEF AhciStep, AhciClear, ahci_find_cmdslot, AhciBuild, AhciIssue, AhciComplete, AhciReturn
<1>6. DOMAIN command' = Tasks /\ UNCHANGED platter
  BY <1>1 DEF AhciStep, AhciClear, ahci_find_cmdslot, AhciBuild, AhciIssue, AhciComplete, AhciReturn
\* What each step does to the access, to the list of commands and to the tables.
<1>7. /\ a' \in AhciAccesses /\ (a'.result = 1 => a'.pc \in {"done", "idle"})
      /\ a.pc # "idle" /\ (a'.pc # "idle" => a'.alone = a.alone)
      /\ hba' \in [ci : SUBSET (0..(CapSlots - 1)), tfes : BOOLEAN, halted : BOOLEAN]
      /\ table' \in [0..(CapSlots - 1) -> Tables]
      /\ (hba'.tfes => hba.tfes) /\ hba'.halted = hba.halted
      /\ \A s \in hba'.ci : s \in hba.ci \/ (a'.pc = "wait" /\ a'.slot = s)
      /\ ~hba.halted /\ a.pc = "wait" => a.slot \notin hba.ci
      /\ AhciFollows(t, a) => AhciFollows(t, a)'
  <2>1. CASE AhciClear(t)
    <3>1. a' = Advanced(a, "slot", a.slot, a.result) /\ a.pc = "clear"
      BY <1>1, <1>2, <2>1 DEF AhciClear, Advanced
    <3>2. hba' = [ci |-> hba.ci, tfes |-> FALSE, halted |-> hba.halted] /\ UNCHANGED table
      BY <1>3, <2>1 DEF AhciClear
    <3> HIDE DEF a
    <3> QED
      BY <1>2, <1>3, <3>1, <3>2 DEF Advanced, AhciAccesses, Pcs, AhciFollows
  <2>2. CASE ahci_find_cmdslot(t)
    <3> DEFINE free == KnownSlots \ hba.ci
               found == IF free = {} THEN a.slot ELSE Min(free)
    <3>1. a.pc = "slot" /\ UNCHANGED <<hba, table>>
      BY <2>2 DEF ahci_find_cmdslot
    <3>2. \/ a' = Advanced(a, "done", a.slot, a.result)
          \/ free # {} /\ a' = Advanced(a, "build", Min(free), a.result)
      BY <1>1, <1>2, <2>2 DEF ahci_find_cmdslot, Advanced
    <3>3. free # {} => Min(free) \in free
      BY MinIsIn DEF KnownSlots, Slots
    <3>4. free \subseteq 0..(CapSlots - 1)
      BY AhciAssumption DEF KnownSlots, Slots
    <3> HIDE DEF a, free
    <3> QED
      BY <1>2, <1>3, <3>1, <3>2, <3>3, <3>4 DEF Advanced, AhciAccesses, Pcs, AhciFollows
  <2>3. CASE AhciBuild(t)
    <3> DEFINE entry == [op |-> a.op, lba |-> a.lba, data |-> a.data, task |-> t]
    <3>1. a' = Advanced(a, "issue", a.slot, a.result) /\ a.pc = "build" /\ UNCHANGED hba
      BY <1>1, <1>2, <2>3 DEF AhciBuild, Advanced
    <3>2. table' = [table EXCEPT ![a.slot] = entry]
      BY <2>3 DEF AhciBuild
    <3>3. entry \in Tables
      BY <1>2 DEF Tables
    <3>4. table' \in [0..(CapSlots - 1) -> Tables] /\ table'[a.slot] = entry
      <4> HIDE DEF a, entry
      <4> QED
        BY <1>2, <1>3, <3>2, <3>3
    <3>5. Holds(t, a)'
      BY <3>1, <3>4 DEF Holds, Advanced
    <3> HIDE DEF a
    <3> QED
      BY <1>2, <1>3, <3>1, <3>4, <3>5 DEF Advanced, AhciAccesses, Pcs, AhciFollows
  <2>4. CASE AhciIssue(t)
    <3>1. a.pc = "issue" /\ UNCHANGED table
      BY <2>4 DEF AhciIssue
    <3>2. CASE a' = Advanced(a, "wait", a.slot, a.result)
               /\ hba' = [ci |-> hba.ci \cup {a.slot}, tfes |-> hba.tfes, halted |-> hba.halted]
      <4>1. a.slot \in hba'.ci
        BY <3>2
      <4> HIDE DEF a
      <4> QED
        BY <1>2, <1>3, <3>1, <3>2, <4>1 DEF Advanced, AhciAccesses, Pcs, AhciFollows, Holds
    <3>3. CASE a' = Advanced(a, "done", a.slot, a.result) /\ UNCHANGED hba
      <4> HIDE DEF a
      <4> QED
        BY <1>2, <1>3, <3>1, <3>3 DEF Advanced, AhciAccesses, Pcs, AhciFollows
    <3> QED
      BY <1>1, <1>2, <1>3, <2>4, <3>2, <3>3 DEF AhciIssue, Advanced
  <2>5. CASE AhciComplete(t)
    <3>1. a' = Advanced(a, "done", a.slot, IF hba.tfes THEN 0 ELSE 1)
      BY <1>1, <1>2, <2>5 DEF AhciComplete, Advanced
    <3>2. a.pc = "wait" /\ (a.slot \notin hba.ci \/ hba.tfes) /\ UNCHANGED <<hba, table>>
      BY <2>5 DEF AhciComplete
    <3> HIDE DEF a
    <3> QED
      BY <1>2, <1>3, <1>6, <3>1, <3>2 DEF Advanced, AhciAccesses, Pcs, AhciFollows
  <2>6. CASE AhciReturn(t)
    <3>1. a' = NoCommand /\ a.pc = "done" /\ UNCHANGED <<hba, table>>
      BY <1>1, <2>6 DEF AhciReturn
    <3> QED
      BY <1>3, <1>4, <3>1 DEF AhciFollows
  <2> QED
    BY <2>1, <2>2, <2>3, <2>4, <2>5, <2>6 DEF AhciStep
<1>8. AhciTyped'
  <2>1. \A u \in Tasks : command'[u] \in AhciAccesses
    BY <1>1, <1>5, <1>7
  <2>2. command' \in [Tasks -> AhciAccesses]
    <3>1. command' = [u \in Tasks |-> command'[u]]
      BY <1>1 DEF AhciStep, AhciClear, ahci_find_cmdslot, AhciBuild, AhciIssue, AhciComplete, AhciReturn
    <3> QED
      BY <2>1, <3>1
  <2>3. \A u \in Tasks : command'[u].result = 1 => command'[u].pc \in {"done", "idle"}
    BY <1>0, <1>5, <1>7 DEF AhciTyped, AhciTypeOK
  <2>4. \A s \in hba'.ci : s \in Slots /\ s < CapSlots
    <3>1. hba'.ci \subseteq 0..(CapSlots - 1)
      BY <1>7
    <3> QED
      BY <3>1, AhciAssumption DEF Slots
  <2> QED
    BY <1>3, <1>6, <1>7, <2>2, <2>3, <2>4 DEF AhciTyped, AhciTypeOK
<1>9. AhciAttended'
  <2>1. ASSUME ~hba'.halted, NEW s \in hba'.ci
        PROVE  \E u \in Tasks : command'[u].pc = "wait" /\ command'[u].slot = s
    <3>1. CASE s \in hba.ci
      <4>1. PICK u \in Tasks : command[u].pc = "wait" /\ command[u].slot = s
        BY <1>0, <1>7, <2>1, <3>1 DEF AhciAttended
      <4>2. u # t
        BY <1>7, <2>1, <3>1, <4>1
      <4> QED
        BY <1>5, <4>1, <4>2
    <3>2. CASE s \notin hba.ci
      BY <1>7, <3>2
    <3> QED
      BY <3>1, <3>2
  <2> QED
    BY <1>3, <1>7, <2>1 DEF AhciAttended
<1>10. AhciLone'
  BY <1>0, <1>5, <1>7 DEF AhciLone
<1>11. ASSUME NEW u \in Tasks, command'[u].alone PROVE AhciFollows(u, command[u])'
  <2>1. CASE command'[u].pc = "idle"
    BY <2>1 DEF AhciFollows
  <2>2. CASE u = t /\ command'[u].pc # "idle"
    BY <1>0, <1>7, <1>11, <2>2
  <2>3. CASE u # t /\ command'[u].pc # "idle"
    BY <1>0, <1>5, <1>7, <1>11, <2>3 DEF AhciLone
  <2> QED
    BY <2>1, <2>2, <2>3
<1> QED
  BY <1>8, <1>9, <1>10, <1>11 DEF AhciInv

LEMMA AhciInductive == AhciInv /\ [AhciNext]_ahciVars => AhciInv'
<1> SUFFICES ASSUME AhciInv, [AhciNext]_ahciVars PROVE AhciInv'
  OBVIOUS
<1>1. CASE UNCHANGED ahciVars
  BY <1>1 DEF ahciVars, AhciInv, AhciTyped, AhciTypeOK, AhciAttended, AhciLone, AhciFollows, Holds
<1> QED
  BY <1>1, PortCompletesKeeps, PortFailsKeeps, AhciCallKeeps, AhciStepKeeps DEF AhciNext, AhciPort

LEMMA AhciInvariant == AhciSpec => []AhciInv
<1>1. AhciInit => AhciInv
  BY AhciStart
<1>2. AhciInv /\ [AhciNext]_ahciVars => AhciInv'
  BY AhciInductive
<1> QED
  BY <1>1, <1>2, PTL DEF AhciSpec

\* The command list of src/kernel/ahci.c is well typed: no access takes a slot the
\* port does not have, and only an access that is over reports success.
THEOREM AhciTypes == AhciSpec => []AhciTypeOK
BY AhciInvariant, PTL DEF AhciInv, AhciTyped

\* Although tasks take the same slot and overwrite each other's command tables, and a
\* task may give up on a command the port still carries out, an access that nothing
\* overlaps and that ahci_read or ahci_write reports as done has read or written its
\* sector.
THEOREM AhciIsTruthful == AhciSpec => []AhciTellsTheTruth
<1>1. AhciInv => AhciTellsTheTruth
  BY DEF AhciInv, AhciFollows, AhciTellsTheTruth
<1> QED
  BY <1>1, AhciInvariant, PTL

(***************************************************************************)
(* USB mass storage.                                                       *)
(***************************************************************************)

Callers ==
  [pc : {"idle", "done"} \cup Parts, op : Ops, lba : Blocks, data : Words \cup {NoWord},
   result : {0, 1}]

\* What a write writes was read into its buffer.
EhciTyped ==
  /\ EhciTypeOK
  /\ caller \in Callers
  /\ caller.op = "write" => caller.data \in Words

\* The device has taken the command of the access; it has failed some command and
\* waits to say so; what it has moved is right if it says so.
Taken == usb.expects = "data" /\ usb.op = caller.op /\ usb.lba = caller.lba
Refused == usb.expects = "csw" /\ ~usb.good
Moved == usb.expects = "csw" /\ (usb.good => caller.data = medium[caller.lba])

\* How far the device is with the access.
EhciFollows ==
  /\ caller.pc = "cbw" /\ transfer.state = "done" => Taken \/ Refused
  /\ caller.pc = "data" /\ transfer.state = "active" => Taken \/ Refused
  /\ caller.pc = "data" /\ transfer.state = "done" => Moved \/ usb.expects = "cbw"
  /\ caller.pc = "csw" /\ transfer.state = "active" => Moved \/ usb.expects = "cbw"
  /\ caller.pc = "csw" /\ transfer.state = "done" /\ ~transfer.bad
       => caller.data = medium[caller.lba]
  /\ caller.pc = "done" /\ caller.result = 1
       => transfer.state = "done" /\ caller.data = medium[caller.lba]

EhciInv == EhciTyped /\ EhciFollows

LEMMA EhciFields ==
  ASSUME EhciTyped
  PROVE  /\ medium \in [Blocks -> Words]
         /\ usb = [expects |-> usb.expects, op |-> usb.op, lba |-> usb.lba, good |-> usb.good]
         /\ usb.expects \in Parts \cup {"stalled"} /\ usb.op \in Ops
         /\ usb.lba \in Blocks /\ usb.good \in BOOLEAN
         /\ transfer = [state |-> transfer.state, part |-> transfer.part, bad |-> transfer.bad]
         /\ transfer.state \in {"none", "active", "done", "error"}
         /\ transfer.part \in Parts /\ transfer.bad \in BOOLEAN
         /\ caller = [pc |-> caller.pc, op |-> caller.op, lba |-> caller.lba,
                      data |-> caller.data, result |-> caller.result]
         /\ caller.pc \in {"idle", "done"} \cup Parts /\ caller.op \in Ops
         /\ caller.lba \in Blocks /\ caller.data \in Words \cup {NoWord}
         /\ caller.result \in {0, 1}
         /\ caller.op = "write" => caller.data \in Words
         /\ caller.pc \in Parts => transfer.part = caller.pc
BY DEF EhciTyped, EhciTypeOK, Callers

LEMMA EhciStart == EhciInit => EhciInv
<1> SUFFICES ASSUME EhciInit PROVE EhciInv
  OBVIOUS
<1>1. EhciTyped
  BY SomeInSet DEF EhciInit, EhciTyped, EhciTypeOK, Callers, NoCaller, NoDevice, Ops, Parts
<1> QED
  BY <1>1 DEF EhciInit, EhciInv, EhciFollows, NoCaller

\* The device's steps.
LEMMA DeviceKeeps ==
  ASSUME EhciInv, TakesCommand \/ SendsData \/ TakesData \/ SendsStatus \/ DeviceStalls
  PROVE  EhciInv'
<1> USE EhciFields DEF Ops, Parts
<1>0. EhciTyped /\ EhciFollows
  BY DEF EhciInv
<1>1. transfer.state = "active"
  BY DEF TakesCommand, SendsData, TakesData, SendsStatus, DeviceStalls, Takes
<1>2. CASE TakesCommand
  <2>1. UNCHANGED <<medium, caller>> /\ usb.expects = "cbw" /\ transfer.part # "csw"
        /\ (transfer.part = "data" => caller.op # "read")
    BY <1>2 DEF TakesCommand, Takes, HostIn, UsbIn
  <2>2. CASE transfer.part = "cbw"
    <3>1. PICK good \in BOOLEAN :
            /\ usb' = [expects |-> "data", op |-> caller.op, lba |-> caller.lba, good |-> good]
            /\ transfer' = [state |-> "done", part |-> transfer.part, bad |-> transfer.bad]
      BY <1>0, <1>2, <2>2 DEF TakesCommand, TransferDone
    <3> QED
      BY <1>0, <1>1, <2>1, <2>2, <3>1
      DEF EhciInv, EhciTyped, EhciTypeOK, EhciFollows, Taken, Refused, Moved
  <2>3. CASE transfer.part # "cbw"
    <3>1. /\ usb' = [expects |-> "stalled", op |-> usb.op, lba |-> usb.lba, good |-> usb.good]
          /\ transfer' = [state |-> "error", part |-> transfer.part, bad |-> transfer.bad]
      BY <1>0, <1>2, <2>3 DEF TakesCommand
    <3> QED
      BY <1>0, <1>1, <2>1, <3>1
      DEF EhciInv, EhciTyped, EhciTypeOK, EhciFollows, Taken, Refused, Moved
  <2> QED
    BY <2>2, <2>3
<1>3. CASE SendsData
  <2>1. /\ usb' = [expects |-> "csw", op |-> usb.op, lba |-> usb.lba, good |-> usb.good]
        /\ usb.expects = "data" /\ transfer.part # "cbw" /\ UNCHANGED medium
    BY <1>0, <1>3 DEF SendsData, Takes, HostIn, UsbIn
  <2>2. CASE transfer.part = "data"
    <3>1. PICK w \in IF usb.good THEN {medium[usb.lba]} ELSE Words :
            caller' = [caller EXCEPT !.data = w]
      BY <1>3, <2>2 DEF SendsData
    <3>2. /\ caller' = [pc |-> caller.pc, op |-> caller.op, lba |-> caller.lba, data |-> w,
                        result |-> caller.result]
          /\ w \in Words
      BY <1>0, <3>1
    <3>3. transfer' = [state |-> "done", part |-> transfer.part, bad |-> transfer.bad]
      BY <1>0, <1>3, <2>2 DEF SendsData, TransferDone
    <3>4. EhciTyped'
      BY <1>0, <2>1, <3>2, <3>3 DEF EhciTyped, EhciTypeOK, Callers
    <3> QED
      BY <1>0, <1>1, <2>1, <2>2, <3>1, <3>2, <3>3, <3>4
      DEF EhciInv, EhciFollows, Taken, Refused, Moved
  <2>3. CASE transfer.part # "data"
    <3>1. /\ transfer' = [state |-> "error", part |-> transfer.part, bad |-> transfer.bad]
          /\ UNCHANGED caller
      BY <1>0, <1>3, <2>3 DEF SendsData
    <3> QED
      BY <1>0, <1>1, <2>1, <3>1
      DEF EhciInv, EhciTyped, EhciTypeOK, EhciFollows, Taken, Refused, Moved
  <2> QED
    BY <2>2, <2>3
<1>4. CASE TakesData
  <2> DEFINE good == usb.good /\ transfer.part = "data"
  <2>1. good \in BOOLEAN /\ (good => usb.good) /\ (good => transfer.part = "data")
        /\ (transfer.part = "data" => good = usb.good)
    BY <1>0
  <2>2. PICK w \in IF good THEN {caller.data} ELSE Words :
          medium' = [medium EXCEPT ![usb.lba] = w]
    BY <1>4 DEF TakesData
  <2>3. usb.expects = "data" /\ usb.op = "write" /\ UNCHANGED caller
    BY <1>0, <1>4 DEF TakesData, UsbIn
  <2>4. transfer.part = "cbw" \/ (transfer.part = "data" /\ caller.op = "write")
    BY <1>0, <1>4 DEF TakesData, Takes, HostIn
  <2>5. /\ usb' = [expects |-> "csw", op |-> usb.op, lba |-> usb.lba, good |-> good]
        /\ transfer' = [state |-> "done", part |-> transfer.part, bad |-> transfer.bad]
    BY <1>0, <1>4 DEF TakesData, TransferDone
  <2> HIDE DEF good
  <2>6. medium' \in [Blocks -> Words] /\ medium'[usb.lba] = w
    BY <1>0, <2>1, <2>2, <2>4
  <2>7. EhciTyped'
    BY <1>0, <2>1, <2>3, <2>5, <2>6 DEF EhciTyped, EhciTypeOK
  <2> QED
    BY <1>0, <1>1, <2>1, <2>2, <2>3, <2>4, <2>5, <2>6, <2>7
    DEF EhciInv, EhciFollows, Taken, Refused, Moved
<1>5. CASE SendsStatus
  <2>1. /\ usb.expects = "csw"
        /\ usb' = [expects |-> "cbw", op |-> usb.op, lba |-> usb.lba, good |-> usb.good]
        /\ UNCHANGED medium
    BY <1>0, <1>5 DEF SendsStatus
  <2>2. transfer' = [state |-> "done", part |-> transfer.part, bad |-> ~usb.good]
    BY <1>0, <1>5 DEF SendsStatus
  <2>3. transfer.part = "csw" \/ transfer.part = "data"
    BY <1>0, <1>5 DEF SendsStatus, Takes, HostIn, UsbIn
  <2>4. /\ caller'.pc = caller.pc /\ caller'.op = caller.op /\ caller'.lba = caller.lba
        /\ caller'.result = caller.result /\ caller' \in Callers
        /\ transfer.part = "csw" => UNCHANGED caller
        /\ caller.op = "write" => UNCHANGED caller
    BY <1>0, <1>5 DEF SendsStatus, Callers, Takes, HostIn, UsbIn
  <2>5. EhciTyped'
    BY <1>0, <2>1, <2>2, <2>4 DEF EhciTyped, EhciTypeOK
  <2> QED
    BY <1>0, <1>1, <2>1, <2>2, <2>3, <2>4, <2>5
    DEF EhciInv, EhciFollows, Taken, Refused, Moved
<1>6. CASE DeviceStalls
  <2>1. /\ usb' = [expects |-> "stalled", op |-> usb.op, lba |-> usb.lba, good |-> usb.good]
        /\ transfer' = [state |-> "error", part |-> transfer.part, bad |-> transfer.bad]
        /\ UNCHANGED <<medium, caller>>
    BY <1>0, <1>6 DEF DeviceStalls
  <2> QED
    BY <1>0, <1>1, <2>1 DEF EhciInv, EhciTyped, EhciTypeOK, EhciFollows, Taken, Refused, Moved
<1> QED
  BY <1>2, <1>3, <1>4, <1>5, <1>6

\* The driver's steps.
LEMMA DriverKeeps ==
  ASSUME EhciInv, BeginTransfer \/ PartDone \/ PartFails \/ ReturnTransfer
  PROVE  EhciInv'
<1> USE EhciFields DEF Ops, Parts
<1>0. EhciTyped /\ EhciFollows
  BY DEF EhciInv
<1>1. UNCHANGED <<medium, usb>>
  BY DEF BeginTransfer, PartDone, PartFails, ReturnTransfer
<1>2. CASE BeginTransfer
  <2>1. PICK op \in Ops, lba \in Blocks, word \in Words :
          caller' = [pc |-> "cbw", op |-> op, lba |-> lba, result |-> 0,
                     data |-> IF op = "read" THEN NoWord ELSE word]
    BY <1>2 DEF BeginTransfer
  <2>2. transfer' = [state |-> "active", part |-> "cbw", bad |-> FALSE]
    BY <1>2 DEF BeginTransfer, ehci_bulk_transfer
  <2> QED
    BY <1>0, <1>1, <2>1, <2>2 DEF EhciInv, EhciTyped, EhciTypeOK, Callers, EhciFollows
<1>3. CASE PartDone
  <2> DEFINE Next(stop, result) ==
        [pc |-> stop, op |-> caller.op, lba |-> caller.lba, data |-> caller.data,
         result |-> result]
  <2>1. /\ transfer.state = "done"
        /\ \/ /\ caller.pc = "cbw" /\ caller' = Next("data", caller.result)
              /\ transfer' = [state |-> "active", part |-> "data", bad |-> FALSE]
           \/ /\ caller.pc = "data" /\ caller' = Next("csw", caller.result)
              /\ transfer' = [state |-> "active", part |-> "csw", bad |-> FALSE]
           \/ /\ caller.pc = "csw" /\ UNCHANGED transfer
              /\ caller' = Next("done", IF transfer.bad THEN 0 ELSE 1)
    BY <1>0, <1>3 DEF PartDone, ehci_bulk_transfer
  <2>2. EhciTyped'
    <3>1. PICK stop \in {"data", "csw", "done"}, result \in {0, 1} :
            caller' = Next(stop, result)
      BY <1>0, <2>1
    <3>2. /\ caller' \in Callers
          /\ caller'.op = "write" => caller'.data \in Words
          /\ caller'.pc = stop
      BY <1>0, <3>1 DEF Callers
    <3> DEFINE Transfers == [state : {"none", "active", "done", "error"}, part : Parts,
                             bad : BOOLEAN]
    <3>3. transfer' \in Transfers
      <4>1. transfer \in Transfers
        BY <1>0 DEF EhciTyped, EhciTypeOK
      <4>2. \A which \in Parts : [state |-> "active", part |-> which, bad |-> FALSE] \in Transfers
        OBVIOUS
      <4> HIDE DEF Transfers
      <4> QED
        BY <2>1, <4>1, <4>2
    <3>4. caller'.pc \in Parts => transfer'.part = caller'.pc
      BY <1>0, <2>1
    <3> QED
      BY <1>0, <1>1, <3>2, <3>3, <3>4 DEF EhciTyped, EhciTypeOK, Callers
  <2> QED
    BY <1>0, <1>1, <2>1, <2>2 DEF EhciInv, EhciFollows, Taken, Refused, Moved
<1>4. CASE PartFails
  <2>1. /\ caller' = [pc |-> "done", op |-> caller.op, lba |-> caller.lba, data |-> caller.data,
                      result |-> 0]
        /\ UNCHANGED transfer
    BY <1>0, <1>4 DEF PartFails
  <2> QED
    BY <1>0, <1>1, <2>1 DEF EhciInv, EhciTyped, EhciTypeOK, Callers, EhciFollows
<1>5. CASE ReturnTransfer
  <2>1. /\ caller' = [pc |-> "idle", op |-> caller.op, lba |-> caller.lba, data |-> caller.data,
                      result |-> caller.result]
        /\ UNCHANGED transfer
    BY <1>0, <1>5 DEF ReturnTransfer
  <2> QED
    BY <1>0, <1>1, <2>1 DEF EhciInv, EhciTyped, EhciTypeOK, Callers, EhciFollows
<1> QED
  BY <1>2, <1>3, <1>4, <1>5

LEMMA EhciInductive == EhciInv /\ [EhciNext]_ehciVars => EhciInv'
<1> SUFFICES ASSUME EhciInv, [EhciNext]_ehciVars PROVE EhciInv'
  OBVIOUS
<1>1. CASE UNCHANGED ehciVars
  BY <1>1 DEF ehciVars, EhciInv, EhciTyped, EhciTypeOK, EhciFollows, Taken, Refused, Moved
<1> QED
  BY <1>1, DeviceKeeps, DriverKeeps DEF EhciNext

LEMMA EhciInvariant == EhciSpec => []EhciInv
<1>1. EhciInit => EhciInv
  BY EhciStart
<1>2. EhciInv /\ [EhciNext]_ehciVars => EhciInv'
  BY EhciInductive
<1> QED
  BY <1>1, <1>2, PTL DEF EhciSpec

\* The device, the transfer in the schedule and the access of src/kernel/ehci.c are
\* well typed, and the transfer is the one the access waits for.
THEOREM EhciTypes == EhciSpec => []EhciTypeOK
BY EhciInvariant, PTL DEF EhciInv, EhciTyped

\* Although a command that ran out of time leaves the device anywhere in it, and the
\* driver neither resets the device nor looks at lengths and tags, an access that
\* ehci_read or ehci_write reports as done has read or written its sector.
THEOREM EhciIsTruthful == EhciSpec => []EhciTellsTheTruth
<1>1. EhciInv => EhciTellsTheTruth
  BY DEF EhciInv, EhciFollows, EhciTellsTheTruth
<1> QED
  BY <1>1, EhciInvariant, PTL

(***************************************************************************)
(* The keyboard.                                                           *)
(***************************************************************************)

KeyTyped ==
  /\ KeyTypeOK
  /\ from \in [code : Nat, c : Nat, start : Nat]
  /\ typed \in Seq(Chars \cup {NoChar})
  /\ taken \in Seq(Nat)
  /\ mixed \in BOOLEAN

\* Who uses kbhit reads no lines; getsn has room for the character it waits for.
Reading ==
  /\ mode = "kbhit" => pc = "idle"
  /\ mode # "kbhit" => keys = {}
  /\ mode = "getsn" /\ pc \in {"poll", "code", "take", "status", "clear", "use"}
       => Len(line) < Limit

\* A code in the buffer is of a later press than the character read last, and that
\* than all the characters before it.
Later ==
  /\ from.c <= from.code /\ from.code <= Len(typed)
  /\ pc = "take" \/ (key_code # NoChar /\ pc \notin {"status", "clear"}) => from.c < from.code
  /\ \A i \in DOMAIN taken :
       taken[i] <= from.c /\ (pc \in {"status", "clear"} => taken[i] < from.c)

\* While keys are used one at a time, only the code in the buffer is in the table, and
\* it is that of the key held down.
OneKey ==
  ~mixed =>
    /\ key_shift = 0
    /\ \A k \in held : held = {k} /\ k \in Keys \ (Shifts \cup {Beyond})
    /\ keys \subseteq {key_code}
    /\ keys # {} => \E k \in held : Ascii(k, 0) = {key_code}

\* While key_shift is set, a shift key is down.
ShiftIsHeld == key_shift = 1 => held \cap Shifts # {}

KeyInv ==
  /\ KeyTyped
  /\ Reading
  /\ Later
  /\ TakenInOrderOnce
  /\ OneKey
  /\ ShiftIsHeld

LEMMA FrontIsShorter ==
  ASSUME NEW S, NEW seq \in Seq(S), seq # <<>>
  PROVE  Front(seq) \in Seq(S) /\ Len(Front(seq)) = Len(seq) - 1
<1>1. Len(seq) \in Nat /\ Len(seq) > 0
  BY EmptySeq
<1>2. 1 \in Int /\ Len(seq) - 1 \in Int
  BY <1>1
<1>3. \A i \in 1..Len(seq) - 1 : seq[i] \in S
  BY <1>1
<1> DEFINE front == SubSeq(seq, 1, Len(seq) - 1)
<1>4. /\ front \in Seq(S)
      /\ Len(front) = IF 1 <= Len(seq) - 1 THEN Len(seq) - 1 - 1 + 1 ELSE 0
  BY <1>2, <1>3, SubSeqProperties
<1>5. Front(seq) = front
  BY DEF Front
<1> HIDE DEF front
<1>6. Len(front) = Len(seq) - 1
  <2> DEFINE n == Len(seq)
  <2>1. n \in Nat /\ n > 0 /\ Len(front) = IF 1 <= n - 1 THEN n - 1 - 1 + 1 ELSE 0
    BY <1>1, <1>4
  <2> HIDE DEF n
  <2>2. Len(front) = n - 1
    BY <2>1
  <2> QED
    BY <2>2 DEF n
<1> QED
  BY <1>4, <1>5, <1>6

LEMMA AsciiChars ==
  ASSUME NEW k \in Keys, NEW shift
  PROVE  /\ Ascii(k, shift) \subseteq Chars \cup {NoChar}
         /\ k \notin Shifts \cup {Beyond} => \E char : Ascii(k, shift) = {char}
         /\ k \in Letters => Ascii(k, shift) = {[key |-> k, upper |-> shift = 1]}
<1> USE KeyboardAssumption DEF Keys, Ascii
<1>1. CASE k \in Letters
  <2>1. Ascii(k, shift) = {[key |-> k, upper |-> shift = 1]}
    BY <1>1
  <2>2. [key |-> k, upper |-> shift = 1] \in Chars
    <3>1. (shift = 1) \in BOOLEAN
      OBVIOUS
    <3> QED
      BY <1>1, <3>1 DEF Chars
  <2> QED
    BY <2>1, <2>2
<1>2. CASE k \in {Enter, Backspace}
  <2>1. Ascii(k, shift) = {[key |-> k, upper |-> FALSE]} /\ k \notin Letters
    BY <1>2
  <2>2. [key |-> k, upper |-> FALSE] \in Chars
    BY <1>2 DEF Chars
  <2> QED
    BY <2>1, <2>2
<1>3. CASE k = Silent
  <2>1. Ascii(k, shift) = {NoChar} /\ k \notin Letters
    BY <1>3
  <2> QED
    BY <2>1
<1>4. CASE k \in Shifts \cup {Beyond}
  <2>1. Ascii(k, shift) = Chars \cup {NoChar} /\ k \notin Letters
    BY <1>4
  <2> QED
    BY <1>4, <2>1
<1> QED
  BY <1>1, <1>2, <1>3, <1>4

LEMMA KeyStart == KeyInit => KeyInv
<1> SUFFICES ASSUME KeyInit PROVE KeyInv
  OBVIOUS
<1>1. KeyTypeOK /\ Reading
  BY KeyboardAssumption DEF KeyInit, KeyTypeOK, Reading, Readers, Stops
<1>3. KeyTyped
  <2>1. from = [code |-> 0, c |-> 0, start |-> 0] /\ typed = <<>> /\ taken = <<>> /\ mixed = FALSE
    BY DEF KeyInit
  <2>2. from \in [code : Nat, c : Nat, start : Nat]
    BY <2>1
  <2>3. typed \in Seq(Chars \cup {NoChar}) /\ taken \in Seq(Nat) /\ mixed \in BOOLEAN
    BY <2>1, EmptySeq
  <2> QED
    BY <1>1, <2>2, <2>3 DEF KeyTyped
<1>2. Later /\ TakenInOrderOnce /\ OneKey
  BY DEF KeyInit, Later, TakenInOrderOnce, OneKey
<1> QED
  BY <1>1, <1>2, <1>3 DEF KeyInv, KeyInit, ShiftIsHeld

LEMMA KeyTypes ==
  ASSUME KeyTyped, Reading, KeyNext
  PROVE  KeyTyped'
<1> DEFINE Char == Chars \cup {NoChar}
<1>0. /\ key_code \in Char /\ c \in Char
      /\ key_status \in {0, 1} /\ key_shift \in {0, 1}
      /\ keys \subseteq Char /\ held \subseteq Keys
      /\ pc \in Stops /\ mode \in Readers
      /\ line \in Seq(Char) /\ (mode # "gets" => Len(line) <= Limit)
      /\ from \in [code : Nat, c : Nat, start : Nat]
      /\ typed \in Seq(Char) /\ taken \in Seq(Nat) /\ mixed \in BOOLEAN
      /\ Limit \in Nat /\ Limit > 0
  BY KeyboardAssumption DEF KeyTyped, KeyTypeOK
<1>1. SUFFICES
      /\ key_code' \in Char /\ c' \in Char
      /\ key_status' \in {0, 1} /\ key_shift' \in {0, 1}
      /\ keys' \subseteq Char /\ held' \subseteq Keys
      /\ pc' \in Stops /\ mode' \in Readers
      /\ line' \in Seq(Char) /\ (mode' # "gets" => Len(line') <= Limit)
      /\ from' \in [code : Nat, c : Nat, start : Nat]
      /\ typed' \in Seq(Char) /\ taken' \in Seq(Nat) /\ mixed' \in BOOLEAN
  BY DEF KeyTyped, KeyTypeOK
<1>2. NoChar \in Char
  OBVIOUS
<1>3. mode = "getsn" /\ pc = "use" => Len(line) < Limit
  BY DEF Reading
<1> HIDE DEF Char
<1>4. ASSUME NEW k \in Keys, ShiftPressed(k) \/ keyboard_handler(k) \/ Released(k)
      PROVE  /\ key_code' \in Char /\ key_status' \in {0, 1} /\ key_shift' \in {0, 1}
             /\ keys' \subseteq Char /\ held' \subseteq Keys
             /\ from' \in [code : Nat, c : Nat, start : Nat]
             /\ typed' \in Seq(Char) /\ mixed' \in BOOLEAN
             /\ UNCHANGED <<readerVars, taken>>
  <2>1. CASE ShiftPressed(k)
    BY <1>0, <2>1 DEF ShiftPressed, kb_keydown
  <2>2. CASE keyboard_handler(k)
    <3>1. PICK code \in Ascii(k, key_shift) :
            /\ key_code' = code
            /\ typed' = Append(typed, code)
            /\ kb_keydown(code, FALSE)
      BY <2>2 DEF keyboard_handler
    <3>2. code \in Char
      BY AsciiChars, <3>1 DEF Char
    <3>3. keys' \subseteq Char
      BY <1>0, <3>1, <3>2 DEF kb_keydown
    <3>4. mixed' = (mixed \/ held \ {k} # {} \/ k = Beyond) /\ held' = held \cup {k}
      BY <2>2 DEF keyboard_handler
    <3>5. from' = [from EXCEPT !.code = Len(typed) + 1] /\ Len(typed) + 1 \in Nat
      BY <1>0, <2>2 DEF keyboard_handler
    <3>6. mixed' \in BOOLEAN
      BY <3>4
    <3>7. UNCHANGED <<key_shift, readerVars, taken>> /\ key_status' = 1
      BY <2>2 DEF keyboard_handler
    <3> QED
      BY <1>0, <3>1, <3>2, <3>3, <3>4, <3>5, <3>6, <3>7
  <2>3. CASE Released(k)
    BY <1>0, <2>3 DEF Released, kb_keydown, historyVars
  <2> QED
    BY <1>4, <2>1, <2>2, <2>3
<1>5. CASE reload_devices
  BY <1>0, <1>2, <1>5 DEF reload_devices, readerVars
<1>6. CASE Begin
  <2>1. from' = [from EXCEPT !.start = Len(typed)] /\ Len(typed) \in Nat
    BY <1>0, <1>6 DEF Begin
  <2>2. line' = <<>> /\ pc' = "poll" /\ UNCHANGED <<keyboardVars, mode, c, typed, taken, mixed>>
    BY <1>6 DEF Begin
  <2>3. from' \in [code : Nat, c : Nat, start : Nat]
    BY <1>0, <2>1
  <2>4. line' \in Seq(Char) /\ Len(line') = 0 /\ pc' \in Stops
    BY <2>2 DEF Stops
  <2>5. UNCHANGED <<key_code, key_status, key_shift, keys, held, mode, c, typed, taken, mixed>>
    BY <2>2 DEF keyboardVars
  <2> QED
    BY <1>0, <2>3, <2>4, <2>5
<1>7. ASSUME NEW char \in Chars, kbhit(char)
      PROVE  keys' \subseteq Char /\ UNCHANGED <<key_code, key_status, key_shift, held, readerVars, historyVars>>
  BY <1>0, <1>7 DEF kbhit
<1>8. CASE Poll \/ SeeCode
  BY <1>0, <1>8 DEF Poll, SeeCode, keyboardVars, historyVars, Stops
<1>9. CASE TakeCode \/ ClearStatus
  BY <1>0, <1>9 DEF TakeCode, ClearStatus, keyboardVars, historyVars, Stops
<1>10. CASE getchar
  <2>1. taken' \in Seq(Nat)
    BY <1>0, <1>10 DEF getchar
  <2> QED
    BY <1>0, <1>2, <2>1, <1>10 DEF getchar, Stops
<1>11. CASE gets
  <2>1. pc' \in Stops /\ UNCHANGED <<keyboardVars, mode, c, historyVars>>
    BY <1>11 DEF gets, Stops
  <2>2. /\ \/ line' = line
           \/ line # <<>> /\ line' = Front(line)
           \/ line' = Append(line, c)
        /\ pc = "use" /\ mode \in {"gets", "getsn"}
    BY <1>11 DEF gets
  <2>3. line' \in Seq(Char) /\ Len(line') <= Len(line) + 1
    <3>1. line # <<>> => Front(line) \in Seq(Char) /\ Len(Front(line)) = Len(line) - 1
      BY <1>0, FrontIsShorter
    <3>2. Append(line, c) \in Seq(Char) /\ Len(Append(line, c)) = Len(line) + 1
      BY <1>0, AppendProperties
    <3>3. Len(line) \in Nat
      BY <1>0
    <3>4. CASE line' = line
      BY <1>0, <3>3, <3>4
    <3>5. CASE line # <<>> /\ line' = Front(line)
      BY <3>1, <3>3, <3>5
    <3>6. CASE line' = Append(line, c)
      BY <3>2, <3>3, <3>6
    <3> QED
      BY <2>2, <3>4, <3>5, <3>6
  <2>4. mode' # "gets" => Len(line') <= Limit
    BY <1>0, <1>3, <2>1, <2>2, <2>3
  <2> QED
    BY <1>0, <2>1, <2>3, <2>4 DEF keyboardVars, historyVars
<1>12. CASE sys_read
  <2>1. pc' \in Stops /\ UNCHANGED <<keyboardVars, mode, c, historyVars>>
    BY <1>12 DEF sys_read, Stops
  <2>2. \/ line' = line
        \/ line # <<>> /\ line' = Front(line)
        \/ line' = Append(line, c) /\ ~(Len(line) >= Limit)
    BY <1>12 DEF sys_read
  <2>3. line' \in Seq(Char) /\ (Len(line) <= Limit => Len(line') <= Limit)
    <3>1. line # <<>> => Front(line) \in Seq(Char) /\ Len(Front(line)) = Len(line) - 1
      BY <1>0, FrontIsShorter
    <3>2. Append(line, c) \in Seq(Char) /\ Len(Append(line, c)) = Len(line) + 1
      BY <1>0, AppendProperties
    <3>3. Len(line) \in Nat
      BY <1>0
    <3>4. CASE line' = line
      BY <1>0, <3>3, <3>4
    <3>5. CASE line # <<>> /\ line' = Front(line)
      BY <1>0, <3>1, <3>3, <3>5
    <3>6. CASE line' = Append(line, c) /\ ~(Len(line) >= Limit)
      BY <1>0, <3>2, <3>3, <3>6
    <3> QED
      BY <2>2, <3>4, <3>5, <3>6
  <2> QED
    BY <1>0, <2>1, <2>3 DEF keyboardVars, historyVars
<1>13. CASE ClearCodeAgain \/ ClearStatusAgain
  BY <1>0, <1>2, <1>13 DEF ClearCodeAgain, ClearStatusAgain, historyVars, Stops
<1>14. CASE ResetCode \/ ResetShift \/ ResetStatus \/ Return
  BY <1>0, <1>2, <1>14 DEF ResetCode, ResetShift, ResetStatus, Return, keyboardVars, historyVars, Stops
<1> QED
  <2>1. CASE Interrupt
    <3>1. PICK k \in Keys : ShiftPressed(k) \/ keyboard_handler(k) \/ Released(k)
      BY <2>1 DEF Interrupt
    <3> QED
      BY <1>0, <1>4, <3>1 DEF readerVars
  <2>2. CASE \E char \in Chars : kbhit(char)
    BY <1>0, <1>7, <2>2 DEF readerVars, historyVars
  <2> QED
    BY <1>5, <1>6, <1>8, <1>9, <1>10, <1>11, <1>12, <1>13, <1>14, <2>1, <2>2 DEF KeyNext, Reader


LEMMA ReaderIsKept ==
  ASSUME KeyTyped, Reading, KeyNext
  PROVE  Reading'
<1> DEFINE room == {"poll", "code", "take", "status", "clear", "use"}
<1>0. /\ mode = "kbhit" => pc = "idle"
      /\ mode # "kbhit" => keys = {}
      /\ mode = "getsn" /\ pc \in room => Len(line) < Limit
      /\ mode # "gets" => Len(line) <= Limit
      /\ Len(line) \in Nat /\ Limit \in Nat /\ Limit > 0
  BY KeyboardAssumption DEF Reading, KeyTyped, KeyTypeOK
<1>1. SUFFICES
        /\ mode' = mode
        /\ mode = "kbhit" => pc' = "idle"
        /\ mode # "kbhit" => keys' = {}
        /\ mode = "getsn" /\ pc' \in room => Len(line') < Limit
  BY DEF Reading
<1>2. CASE Interrupt
  <2>1. PICK k \in Keys : ShiftPressed(k) \/ keyboard_handler(k) \/ Released(k)
    BY <1>2 DEF Interrupt
  <2>2. UNCHANGED readerVars /\ (mode # "kbhit" => keys' = keys)
    BY <2>1 DEF ShiftPressed, keyboard_handler, Released, kb_keydown
  <2> QED
    BY <1>0, <2>2 DEF readerVars
<1>3. CASE reload_devices \/ \E char \in Chars : kbhit(char)
  BY <1>0, <1>3 DEF reload_devices, kbhit, readerVars
<1>4. CASE Begin
  BY <1>0, <1>4 DEF Begin, keyboardVars
<1>5. CASE Poll \/ SeeCode \/ TakeCode \/ ClearStatus \/ getchar
  BY <1>0, <1>5 DEF Poll, SeeCode, TakeCode, ClearStatus, getchar, keyboardVars
<1>6. CASE gets
  <2>1. UNCHANGED <<keyboardVars, mode>> /\ pc = "use" /\ mode \in {"gets", "getsn"}
    BY <1>6 DEF gets
  <2>2. pc' \in {"poll", "code0"} /\ (pc' = "poll" => line' = line)
    <3>1. CASE c = NoChar \/ (c.key = Backspace /\ line = <<>>)
      <4>1. c = NoChar => c.key = Silent /\ Silent # Backspace
        BY KeyboardAssumption DEF NoChar
      <4> QED
        BY <1>6, <3>1, <4>1 DEF gets
    <3>2. CASE ~(c = NoChar \/ (c.key = Backspace /\ line = <<>>))
      BY <1>6, <3>2 DEF gets
    <3> QED
      BY <3>1, <3>2
  <2> QED
    BY <1>0, <2>1, <2>2 DEF keyboardVars
<1>7. CASE sys_read
  <2>1. UNCHANGED <<keyboardVars, mode>> /\ pc = "use" /\ mode = "read"
    BY <1>7 DEF sys_read
  <2> QED
    BY <1>0, <2>1 DEF keyboardVars
<1>8. CASE ClearCodeAgain
  BY <1>0, <1>8 DEF ClearCodeAgain
<1>9. CASE ClearStatusAgain
  <2>1. /\ UNCHANGED <<keys, mode, line>> /\ pc = "status0" /\ pc' \in {"done", "poll"}
        /\ mode = "getsn" /\ pc' = "poll" => Len(line) # Limit
    BY <1>9 DEF ClearStatusAgain
  <2> QED
    BY <1>0, <2>1
<1>10. CASE ResetCode \/ ResetShift \/ ResetStatus \/ Return
  BY <1>0, <1>10 DEF ResetCode, ResetShift, ResetStatus, Return, keyboardVars
<1> QED
  BY <1>2, <1>3, <1>4, <1>5, <1>6, <1>7, <1>8, <1>9, <1>10 DEF KeyNext, Reader

LEMMA CodesAreLater ==
  ASSUME KeyTyped, Later, TakenInOrderOnce, KeyNext
  PROVE  Later' /\ TakenInOrderOnce'
<1> DEFINE stamp == [code : Nat, c : Nat, start : Nat]
           full == pc = "take" \/ (key_code # NoChar /\ pc \notin {"status", "clear"})
<1>0. /\ from \in stamp /\ from.code \in Nat /\ from.c \in Nat /\ Len(typed) \in Nat
      /\ taken \in Seq(Nat) /\ from.c <= from.code /\ from.code <= Len(typed)
      /\ full => from.c < from.code
      /\ \A i \in DOMAIN taken :
           taken[i] <= from.c /\ (pc \in {"status", "clear"} => taken[i] < from.c)
      /\ \A i, j \in DOMAIN taken : i < j => taken[i] < taken[j]
      /\ \A i \in DOMAIN taken : taken[i] \in Nat
  BY DEF KeyTyped, Later, TakenInOrderOnce
<1>1. ASSUME UNCHANGED <<typed, from, taken>>,
             pc' \in {"status", "clear"} => pc \in {"status", "clear"},
             full' => full
      PROVE  Later' /\ TakenInOrderOnce'
  BY <1>0, <1>1 DEF Later, TakenInOrderOnce
<1>2. CASE Interrupt
  <2>1. PICK k \in Keys : ShiftPressed(k) \/ keyboard_handler(k) \/ Released(k)
    BY <1>2 DEF Interrupt
  <2>2. CASE ShiftPressed(k) \/ Released(k)
    <3>1. UNCHANGED <<key_code, pc, typed, from, taken>>
      BY <2>2 DEF ShiftPressed, Released, readerVars, historyVars
    <3> QED
      BY <1>1, <3>1
  <2>3. CASE keyboard_handler(k)
    <3>1. /\ from' = [from EXCEPT !.code = Len(typed) + 1]
          /\ UNCHANGED <<pc, taken>>
          /\ \E code : typed' = Append(typed, code) /\ code \in Ascii(k, key_shift)
      BY <2>3 DEF keyboard_handler, readerVars
    <3>2. from'.code = Len(typed) + 1 /\ from'.c = from.c
      BY <1>0, <3>1
    <3>3. Len(typed') = Len(typed) + 1
      <4>1. PICK code : typed' = Append(typed, code) /\ code \in Ascii(k, key_shift)
        BY <3>1
      <4>2. typed \in Seq(Chars \cup {NoChar}) /\ code \in Chars \cup {NoChar}
        BY <4>1, AsciiChars DEF KeyTyped
      <4> QED
        BY <4>1, <4>2
    <3> QED
      BY <1>0, <3>1, <3>2, <3>3 DEF Later, TakenInOrderOnce
  <2> QED
    BY <2>1, <2>2, <2>3
<1>3. CASE reload_devices \/ \E char \in Chars : kbhit(char)
  BY <1>1, <1>3 DEF reload_devices, kbhit, readerVars, historyVars
<1>4. CASE Begin
  <2>1. /\ from' = [from EXCEPT !.start = Len(typed)]
        /\ pc = "idle" /\ pc' = "poll"
        /\ UNCHANGED <<key_code, typed, taken>>
    BY <1>4 DEF Begin, keyboardVars
  <2>2. from'.code = from.code /\ from'.c = from.c
    BY <1>0, <2>1
  <2> QED
    BY <1>0, <2>1, <2>2 DEF Later, TakenInOrderOnce
<1>5. CASE Poll \/ SeeCode \/ ClearStatus
  BY <1>1, <1>5 DEF Poll, SeeCode, ClearStatus, keyboardVars, historyVars
<1>6. CASE TakeCode
  <2>1. /\ from' = [from EXCEPT !.c = from.code]
        /\ pc = "take" /\ pc' = "status"
        /\ UNCHANGED <<typed, taken>>
    BY <1>6 DEF TakeCode
  <2>2. from'.code = from.code /\ from'.c = from.code
    BY <1>0, <2>1
  <2> QED
    BY <1>0, <2>1, <2>2 DEF Later, TakenInOrderOnce
<1>7. CASE getchar
  <2>1. /\ taken' = Append(taken, from.c)
        /\ pc = "clear" /\ pc' = "use" /\ key_code' = NoChar
        /\ UNCHANGED <<typed, from>>
    BY <1>7 DEF getchar
  <2>2. /\ DOMAIN taken = 1..Len(taken) /\ Len(taken) \in Nat
        /\ DOMAIN taken' = 1..Len(taken) + 1
        /\ taken'[Len(taken) + 1] = from.c
        /\ \A i \in DOMAIN taken : taken'[i] = taken[i]
    <3>1. taken' \in Seq(Nat) /\ Len(taken') = Len(taken) + 1
      BY <1>0, <2>1, AppendProperties
    <3> QED
      BY <1>0, <2>1, <3>1, AppendProperties, LenProperties
  <2>3. \A i \in DOMAIN taken' : taken'[i] <= from.c
    BY <1>0, <2>2
  <2>4. \A i, j \in DOMAIN taken' : i < j => taken'[i] < taken'[j]
    <3> SUFFICES ASSUME NEW i \in DOMAIN taken', NEW j \in DOMAIN taken', i < j
                 PROVE  taken'[i] < taken'[j]
      OBVIOUS
    <3>1. i \in DOMAIN taken
      BY <2>2
    <3>2. CASE j \in DOMAIN taken
      BY <1>0, <2>2, <3>1, <3>2
    <3>3. CASE j = Len(taken) + 1
      BY <1>0, <2>1, <2>2, <3>1, <3>3
    <3> QED
      BY <2>2, <3>2, <3>3
  <2> QED
    BY <1>0, <2>1, <2>3, <2>4 DEF Later, TakenInOrderOnce
<1>8. CASE gets \/ sys_read
  BY <1>1, <1>8 DEF gets, sys_read, keyboardVars, historyVars
<1>9. CASE ClearCodeAgain \/ ClearStatusAgain \/ ResetCode \/ ResetShift \/ ResetStatus \/ Return
  BY <1>1, <1>9 DEF ClearCodeAgain, ClearStatusAgain, ResetCode, ResetShift, ResetStatus, Return,
     keyboardVars, historyVars
<1> QED
  BY <1>2, <1>3, <1>4, <1>5, <1>6, <1>7, <1>8, <1>9 DEF KeyNext, Reader

LEMMA OneKeyStays ==
  ASSUME KeyTyped, Reading, OneKey, KeyNext
  PROVE  OneKey'
<1>0. /\ mode = "kbhit" => pc = "idle"
      /\ mode # "kbhit" => keys = {}
      /\ mixed \in BOOLEAN
      /\ held \subseteq Keys
  BY DEF Reading, KeyTyped, KeyTypeOK
<1>1. ~mixed =>
        /\ key_shift = 0
        /\ \A k \in held : held = {k} /\ k \in Keys \ (Shifts \cup {Beyond})
        /\ keys \subseteq {key_code}
        /\ keys # {} => \E k \in held : Ascii(k, 0) = {key_code}
  BY DEF OneKey
<1>2. ASSUME mixed' = mixed, held' = held, key_shift' \in {0, key_shift},
             \/ keys' = {}
             \/ keys' \subseteq keys /\ key_code' = key_code
      PROVE  OneKey'
  BY <1>1, <1>2 DEF OneKey
<1>3. CASE Interrupt
  <2>1. PICK k \in Keys : ShiftPressed(k) \/ keyboard_handler(k) \/ Released(k)
    BY <1>3 DEF Interrupt
  <2>2. CASE ShiftPressed(k)
    BY <2>2 DEF ShiftPressed, OneKey
  <2>3. CASE keyboard_handler(k)
    <3> SUFFICES ASSUME ~mixed' PROVE OneKey'
      BY DEF OneKey
    <3>1. /\ ~mixed /\ held \ {k} = {} /\ k # Beyond /\ held' = {k}
          /\ k \in Keys \ (Shifts \cup {Beyond})
          /\ key_shift' = key_shift
      BY <2>3 DEF keyboard_handler
    <3>2. key_shift = 0
      BY <1>1, <3>1
    <3>3. PICK char : Ascii(k, 0) = {char}
      BY <3>1, AsciiChars
    <3>4. key_code' = char /\ kb_keydown(char, FALSE)
      BY <2>3, <3>2, <3>3 DEF keyboard_handler
    <3>5. keys # {} => key_code = char
      <4>1. \A k2 \in held : k2 = k
        BY <3>1
      <4> QED
        BY <1>1, <3>1, <3>3, <4>1
    <3>6. keys \subseteq {char}
      BY <1>1, <3>1, <3>5
    <3>7. keys' \subseteq {char}
      BY <3>4, <3>6 DEF kb_keydown
    <3> QED
      BY <3>1, <3>2, <3>3, <3>4, <3>7 DEF OneKey
  <2>4. CASE Released(k)
    <3> SUFFICES ASSUME ~mixed' PROVE OneKey'
      BY DEF OneKey
    <3>1. /\ mixed' = mixed /\ k \in held /\ held' = held \ {k}
          /\ key_shift' = IF k \in Shifts THEN 0 ELSE key_shift
          /\ kb_keydown(key_code, TRUE)
      BY <2>4 DEF Released, historyVars
    <3>2. held' = {} /\ key_shift' = 0
      BY <1>1, <3>1
    <3>3. keys' = {}
      BY <1>0, <1>1, <3>1 DEF kb_keydown
    <3> QED
      BY <3>2, <3>3 DEF OneKey
  <2> QED
    BY <2>1, <2>2, <2>3, <2>4
<1>4. CASE reload_devices
  BY <1>2, <1>4 DEF reload_devices
<1>5. CASE \E char \in Chars : kbhit(char)
  BY <1>2, <1>5 DEF kbhit, historyVars
<1>6. CASE Begin \/ Poll \/ SeeCode \/ TakeCode \/ ClearStatus
  BY <1>2, <1>6 DEF Begin, Poll, SeeCode, TakeCode, ClearStatus, keyboardVars, historyVars
<1>7. CASE getchar \/ ClearCodeAgain
  BY <1>0, <1>2, <1>7 DEF getchar, ClearCodeAgain, historyVars
<1>8. CASE gets \/ sys_read \/ Return
  BY <1>2, <1>8 DEF gets, sys_read, Return, keyboardVars, historyVars
<1>9. CASE ClearStatusAgain \/ ResetCode \/ ResetShift \/ ResetStatus
  BY <1>2, <1>9 DEF ClearStatusAgain, ResetCode, ResetShift, ResetStatus, historyVars
<1> QED
  BY <1>3, <1>4, <1>5, <1>6, <1>7, <1>8, <1>9 DEF KeyNext, Reader

LEMMA ShiftStaysHeld ==
  ASSUME ShiftIsHeld, KeyNext
  PROVE  ShiftIsHeld'
<1>1. ASSUME held' = held, key_shift' \in {0, key_shift}
      PROVE  ShiftIsHeld'
  BY <1>1 DEF ShiftIsHeld
<1>2. CASE Interrupt
  <2>1. PICK k \in Keys : ShiftPressed(k) \/ keyboard_handler(k) \/ Released(k)
    BY <1>2 DEF Interrupt
  <2>2. CASE ShiftPressed(k)
    BY <2>2 DEF ShiftPressed, ShiftIsHeld
  <2>3. CASE keyboard_handler(k)
    BY <2>3 DEF keyboard_handler, ShiftIsHeld
  <2>4. CASE Released(k)
    BY <2>4 DEF Released, ShiftIsHeld
  <2> QED
    BY <2>1, <2>2, <2>3, <2>4
<1>3. CASE reload_devices \/ Begin \/ \E char \in Chars : kbhit(char)
  BY <1>1, <1>3 DEF reload_devices, Begin, kbhit, keyboardVars
<1>4. CASE Reader
  BY <1>1, <1>4 DEF Reader, Poll, SeeCode, TakeCode, ClearStatus, getchar, gets, sys_read,
     ClearCodeAgain, ClearStatusAgain, ResetCode, ResetShift, ResetStatus, Return, keyboardVars
<1> QED
  BY <1>2, <1>3, <1>4 DEF KeyNext

LEMMA KeyInductive == KeyInv /\ [KeyNext]_keyVars => KeyInv'
<1> SUFFICES ASSUME KeyInv, [KeyNext]_keyVars PROVE KeyInv'
  OBVIOUS
<1>1. CASE UNCHANGED keyVars
  <2>1. /\ UNCHANGED <<key_code, key_status, key_shift, keys, held, pc, mode, c, line>>
        /\ UNCHANGED <<typed, from, taken, ahead, mixed>>
    BY <1>1 DEF keyVars, keyboardVars, readerVars, historyVars
  <2> QED
    BY <2>1 DEF KeyInv, KeyTyped, KeyTypeOK, Reading, Later, TakenInOrderOnce, OneKey, ShiftIsHeld
<1>2. CASE KeyNext
  BY <1>2, KeyTypes, ReaderIsKept, CodesAreLater, OneKeyStays, ShiftStaysHeld DEF KeyInv
<1> QED
  BY <1>1, <1>2

LEMMA KeyInvariant == KeySpec => []KeyInv
<1>1. KeyInit => KeyInv
  BY KeyStart
<1>2. KeyInv /\ [KeyNext]_keyVars => KeyInv'
  BY KeyInductive
<1> QED
  BY <1>1, <1>2, PTL DEF KeySpec

\* However the keyboard's interrupts cut the readers of src/kernel/fskrnl.c, which clear
\* the code and the status at different times, each key's character is read at most once
\* and in the order of the presses; and with one key used at a time, kbhit reports a key
\* only while one is down.
THEOREM KeysComeInOrder == KeySpec => [](KeyTypeOK /\ TakenInOrderOnce /\ HitKeyIsHeld)
<1>1. KeyInv => KeyTypeOK /\ TakenInOrderOnce /\ HitKeyIsHeld
  BY DEF KeyInv, KeyTyped, OneKey, HitKeyIsHeld
<1> QED
  BY <1>1, KeyInvariant, PTL

\* keyboard_handler takes a letter from the upper case table only with a shift key down,
\* whatever shift keys were pressed, released or forgotten before.
THEOREM UpperIsShifted == KeySpec => UpperNeedsShift
<1> DEFINE Shifted == \A k \in Letters :
                        keyboard_handler(k) /\ key_code'.upper => held \cap Shifts # {}
<1>1. KeyInv /\ [KeyNext]_keyVars => [Shifted]_keyVars
  <2> SUFFICES ASSUME KeyInv, NEW k \in Letters, keyboard_handler(k), key_code'.upper
               PROVE  held \cap Shifts # {}
    OBVIOUS
  <2>1. k \in Keys /\ Ascii(k, key_shift) = {[key |-> k, upper |-> key_shift = 1]}
    BY AsciiChars DEF Keys
  <2>2. key_code' = [key |-> k, upper |-> key_shift = 1]
    BY <2>1 DEF keyboard_handler
  <2>3. key_shift = 1
    <3> DEFINE up == key_shift = 1
    <3> HIDE DEF up
    <3>1. key_code'.upper = up
      BY <2>2 DEF up
    <3> QED
      BY <3>1 DEF up
  <2> QED
    BY <2>3 DEF KeyInv, ShiftIsHeld
<1>2. [][Shifted]_keyVars <=> UpperNeedsShift
  BY DEF UpperNeedsShift
<1> HIDE DEF Shifted
<1> QED
  BY <1>1, <1>2, KeyInvariant, PTL DEF KeySpec

(***************************************************************************)
(* The parts side by side.                                                 *)
(***************************************************************************)

\* The variables of the three drivers and of the keyboard keep their types, and so
\* their bounds: the slots of the port, the looks and repetitions of the loops and
\* the buffers of the lines.
THEOREM DevicesTypes == MCSpec => []DevicesTypeOK
<1> DEFINE Inv == AtaInv /\ AhciInv /\ EhciInv /\ KeyInv
<1>1. MCInit => Inv
  BY AtaStart, AhciStart, EhciStart, KeyStart DEF MCInit
<1>2. Inv /\ [MCNext]_MCVars => Inv'
  <2> SUFFICES ASSUME Inv, [MCNext]_MCVars PROVE Inv'
    OBVIOUS
  <2>1. [AtaNext]_ataVars /\ [AhciNext]_ahciVars /\ [EhciNext]_ehciVars /\ [KeyNext]_keyVars
    BY DEF MCNext, MCVars
  <2> QED
    BY <2>1, AtaInductive, AhciInductive, EhciInductive, KeyInductive
<1>3. Inv => DevicesTypeOK
  BY DEF AtaInv, AhciInv, AhciTyped, EhciInv, EhciTyped, KeyInv, KeyTyped, DevicesTypeOK
<1>4. MCSpec => MCInit /\ [][MCNext]_MCVars
  BY PTL DEF MCSpec
<1> HIDE DEF Inv
<1> QED
  BY <1>1, <1>2, <1>3, <1>4, PTL

=============================================================================
