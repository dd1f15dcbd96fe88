------------------------------ MODULE History ------------------------------
(***************************************************************************)
(* The shell's lines (src/kernel/fskrnl.c): main stores what was entered,  *)
(* and sh_keydown, called by the keyboard interrupt, recalls it with the   *)
(* arrow keys.  The loops of sh_keydown run with interrupts off until they *)
(* come to a line that is not empty.  The table is cleared at start, so    *)
(* every line first points to address 0; what lies there decides whether   *)
(* a buffer of its own is ever allocated.                                  *)
(***************************************************************************)
EXTENDS Integers, Sequences, SequencesExt

CONSTANTS
  Typed,            \* the lines a user enters
  MAXCMDLINES       \* 10

ASSUME HistoryAssumption ==
  /\ MAXCMDLINES \in Nat /\ MAXCMDLINES > 2
  /\ Typed \subseteq Seq(STRING) /\ <<>> \notin Typed

VARIABLES
  history,          \* for each line its buffer, 0 or its own, and whether it has a length
  memory,           \* the text in each buffer
  history_count, history_index,
  storing,          \* the line main is copying, or NoLine
  lastcmd,          \* the line an Enter on an empty line runs
  turning,          \* the loop that runs: "up", "down" or none
  turns,            \* history: its rounds
  entered           \* history: the lines stored

histVars == <<history, memory, history_count, history_index, storing, lastcmd, turning, turns,
              entered>>

NoLine == <<>>

Lines == 0..(MAXCMDLINES - 1)
Own(i) == i + 1
Vectors == <<"vectors">>    \* the interrupt vectors at address 0, where they are no empty text
Mixed == <<"mixed">>        \* a text whose start is already that of another

HistInit ==
  /\ history = [i \in Lines |-> [cmdline |-> 0, length |-> FALSE]]
  /\ memory \in {[b \in 0..MAXCMDLINES |-> <<>>],
                 [b \in 0..MAXCMDLINES |-> IF b = 0 THEN Vectors ELSE <<>>]}
  /\ history_count = 0 /\ history_index = 0 /\ storing = NoLine
  /\ lastcmd = <<>> /\ turning = "none" /\ turns = 0 /\ entered = {}

\* Mutant: the count goes on to the last line, and is 0 only after it.
WrappedLate(count) == IF count > MAXCMDLINES - 1 THEN 0 ELSE count

\* store_cmd_line_str and push_cmd_line: past the last line but one it starts again.
Wrapped(count) ==
  IF count >= MAXCMDLINES - 1 \/ history_index >= MAXCMDLINES - 1 THEN 0 ELSE count

store_cmd_line_str(line) ==
  LET at == Wrapped(history_count)
      buffer == IF memory[history[at].cmdline] = <<>> /\ history[at].cmdline = 0
                  THEN Own(at) ELSE history[at].cmdline
  IN /\ turning = "none" /\ storing = NoLine
     /\ storing' = line
     /\ history' = [history EXCEPT ![at].cmdline = buffer]
     /\ memory' = [memory EXCEPT ![buffer] = Mixed]
     /\ history_count' = at
     /\ UNCHANGED <<history_index, lastcmd, turning, turns, entered>>

\* The copy is complete; only now the line gets a length.
Stored ==
  /\ turning = "none" /\ storing # NoLine
  /\ storing' = NoLine
  /\ history' = [history EXCEPT ![history_count].length = TRUE]
  /\ memory' = [memory EXCEPT ![history[history_count].cmdline] = storing]
  /\ history_count' = Wrapped(history_count + 1)
  /\ entered' = entered \cup {storing}
  /\ UNCHANGED <<history_index, lastcmd, turning, turns>>

\* An arrow key: nothing happens while the count is 0, also when it is so because the
\* lines have just started again.
Arrow ==
  /\ turning = "none"
  /\ history_count # 0
  /\ turning' \in {"up", "down"}
  /\ UNCHANGED <<history, memory, history_count, history_index, storing, lastcmd, turns, entered>>

\* One round: the next line, and its text if it has a length.
load_cmd_line_str ==
  LET index == (history_index + (IF turning = "up" THEN MAXCMDLINES - 1 ELSE 1)) % MAXCMDLINES
      cmdline == IF history[index].length THEN memory[history[index].cmdline] ELSE <<>>
  IN /\ turning # "none"
     /\ history_index' = index
     /\ IF cmdline = <<>>
          THEN turns' = turns + 1 /\ UNCHANGED <<lastcmd, turning>>
          ELSE turns' = 0 /\ lastcmd' = cmdline /\ turning' = "none"
     /\ UNCHANGED <<history, memory, history_count, storing, entered>>

\* A '\b' behind the recalled line cuts it, or nothing if more was typed than that.
CutLast ==
  /\ turning = "none"
  /\ lastcmd # <<>>
  /\ \E n \in 0..(Len(lastcmd) - 1) : lastcmd' = SubSeq(lastcmd, 1, n)
  /\ UNCHANGED <<history, memory, history_count, history_index, storing, turning, turns, entered>>

\* main runs it, on an Enter with an empty line.
RunLast ==
  /\ turning = "none" /\ storing = NoLine
  /\ lastcmd # <<>>
  /\ lastcmd' = <<>>
  /\ UNCHANGED <<history, memory, history_count, history_index, storing, turning, turns, entered>>

HistNext ==
  \/ \E line \in Typed : store_cmd_line_str(line)
  \/ Stored \/ Arrow \/ load_cmd_line_str \/ CutLast \/ RunLast

HistSpec == HistInit /\ [][HistNext]_histVars

(***************************************************************************)
(* Properties.                                                             *)
(***************************************************************************)

\* The loop in the keyboard interrupt ends within one round of the lines, whatever was
\* stored and recalled before, and what it recalls, and an Enter then runs, is a line
\* that was entered or the start of one, or a mixture of two if the key came while main
\* was copying one over the other (sh_keydown, store_cmd_line_str).
RecallIsSound ==
  /\ turns < MAXCMDLINES
  /\ \E line \in entered \cup {<<>>, Mixed} : IsPrefix(lastcmd, line)
  /\ history_count \in 0..(MAXCMDLINES - 2)

=============================================================================
