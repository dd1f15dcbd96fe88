------------------------------ MODULE Keyboard ------------------------------
(***************************************************************************)
(* The keyboard of src/kernel/fskrnl.c: the interrupt handler, the one-    *)
(* character buffer it shares with the reader through volatile globals,    *)
(* and the three readers of a line (gets, getsn and the read system call). *)
(* An interrupt is atomic; the reader is cut at each access of a shared    *)
(* global, since interrupts are enabled while it waits.                    *)
(*                                                                         *)
(* One task reads at a time.  The serial console and the echo are left     *)
(* out; the lines sh_keydown recalls are in History.  A key is its pair of *)
(* scan codes; a character is a record, so that the two cases of one       *)
(* letter differ.                                                          *)
(***************************************************************************)
EXTENDS Naturals, Sequences, FiniteSets, SequencesExt

CONSTANTS
  Letters,      \* keys with a character in both tables
  Enter,        \* the key of '\n'
  Backspace,    \* the key of '\b'
  Silent,       \* a key whose entry of both tables is 0
  Beyond,       \* a key whose scan code lies past the end of the tables
  Shifts,       \* the two shift keys
  Limit,        \* the n of getsn, the count of read
  MaxPresses,   \* bound on the key presses of a behaviour
  MaxHeld       \* bound on the keys held down together

\* (getsn takes a Limit of 0 for none at all.)
ASSUME KeyboardAssumption ==
  /\ Letters \cap Shifts = {}
  /\ ({Enter, Backspace, Silent, Beyond} \cap (Letters \cup Shifts)) = {}
  /\ Enter \notin {Backspace, Silent, Beyond} /\ Backspace \notin {Silent, Beyond}
  /\ Silent # Beyond
  /\ Limit \in Nat \ {0}

VARIABLES
  key_code, key_status, key_shift,  \* the buffer
  keys,         \* the characters c with keys[c] = 1, for kbhit
  held,         \* the keys held down
  pc, mode,     \* where the reader is, and which reader the program uses
  c,            \* the local of getchar
  line,         \* the characters stored so far
  typed,        \* history: every character produced
  from,         \* history: the index in typed of key_code, of c, and the
                \* number of characters produced before this line
  taken,        \* history: the indices of the characters getchar returned
  ahead,        \* history: a key was pressed that the reader was not ready for
  mixed         \* history: a shift or a key past the tables was pressed, or a
                \* key while another was held

keyboardVars == <<key_code, key_status, key_shift, keys, held>>
readerVars == <<pc, mode, c, line>>
historyVars == <<typed, from, taken, ahead, mixed>>
keyVars == <<keyboardVars, readerVars, historyVars>>

Keys == Letters \cup Shifts \cup {Enter, Backspace, Silent, Beyond}
NoChar == [key |-> Silent, upper |-> FALSE]       \* the character 0
Chars == [key : Letters, upper : BOOLEAN]
           \cup [key : {Enter, Backspace}, upper : {FALSE}]

Readers == {"gets", "getsn", "read", "kbhit"}
Stops == {"idle", "poll", "code", "take", "status", "clear", "use",
          "code0", "status0", "reset", "resetshift", "resetstatus", "done"}

\* Types; gets has no bound of its own, getsn and read stay within theirs.
KeyTypeOK ==
  /\ key_code \in Chars \cup {NoChar}
  /\ c \in Chars \cup {NoChar}
  /\ key_status \in {0, 1}
  /\ key_shift \in {0, 1}
  /\ keys \subseteq Chars \cup {NoChar}
  /\ held \subseteq Keys
  /\ pc \in Stops
  /\ mode \in Readers
  /\ line \in Seq(Chars \cup {NoChar})
  /\ mode # "gets" => Len(line) <= Limit

KeyInit ==
  /\ key_code = NoChar /\ key_status = 0 /\ key_shift = 0
  /\ keys = {} /\ held = {}
  /\ pc = "idle" /\ mode \in Readers /\ c = NoChar /\ line = <<>>
  /\ typed = <<>> /\ from = [code |-> 0, c |-> 0, start |-> 0] /\ taken = <<>>
  /\ ahead = FALSE /\ mixed = FALSE

(***************************************************************************)
(* The interrupt handler.                                                  *)
(***************************************************************************)

\* The table entries of a key: asciiNonSh or asciiShift.  The scan codes
\* after the last entry read whatever lies behind the table.
Ascii(k, shift) ==
  CASE k \in Letters -> {[key |-> k, upper |-> shift = 1]}
    [] k \in {Enter, Backspace} -> {[key |-> k, upper |-> FALSE]}
    [] k = Silent -> {NoChar}
    [] OTHER -> Chars \cup {NoChar}

\* key_handler calls the registered kb_keydown with the code of the buffer,
\* which is not the code of the key when the scan code is a release or a shift.
\* (The table is followed in the programs that look at it, those with kbhit.)
kb_keydown(key, release) ==
  keys' = CASE mode # "kbhit" -> keys
            [] mode = "kbhit" /\ release -> keys \ {key}
            [] OTHER -> keys \cup {key}

\* keyboard_handler on the make code of a shift key.
ShiftPressed(k) ==
  /\ k \in Shifts
  /\ Cardinality(held \cup {k}) <= MaxHeld
  /\ held' = held \cup {k}
  /\ key_status' = 1
  /\ key_shift' = 1
  /\ kb_keydown(key_code, FALSE)
  /\ mixed' = TRUE
  /\ UNCHANGED <<key_code, readerVars, typed, from, taken, ahead>>

\* keyboard_handler on the make code of another key, or on its repetition.
keyboard_handler(k) ==
  /\ k \in Keys \ Shifts
  /\ Len(typed) < MaxPresses /\ Cardinality(held \cup {k}) <= MaxHeld
  /\ held' = held \cup {k}
  /\ key_status' = 1
  /\ \E code \in Ascii(k, key_shift) :
       /\ key_code' = code
       /\ typed' = Append(typed, code)
       /\ kb_keydown(code, FALSE)
  /\ from' = [from EXCEPT !.code = Len(typed) + 1]
  /\ ahead' = (ahead \/ pc \notin {"poll", "code"} \/ key_code # NoChar)
  /\ mixed' = (mixed \/ held \ {k} # {} \/ k = Beyond)
  /\ UNCHANGED <<key_shift, readerVars, taken>>

\* Mutant: a break code leaves the status clear.
ReleasedIdle(k) ==
  /\ k \in held
  /\ held' = held \ {k}
  /\ key_status' = 0
  /\ key_shift' = IF k \in Shifts THEN 0 ELSE key_shift
  /\ kb_keydown(key_code, TRUE)
  /\ UNCHANGED <<key_code, readerVars, historyVars>>

\* keyboard_handler on a break code: the code is kept, the status is set.
Released(k) ==
  /\ k \in held
  /\ held' = held \ {k}
  /\ key_status' = 1
  /\ key_shift' = IF k \in Shifts THEN 0 ELSE key_shift
  /\ kb_keydown(key_code, TRUE)
  /\ UNCHANGED <<key_code, readerVars, historyVars>>

\* reload_devices, when a module ends: keyboard_flush finds no data, so it
\* clears the code, and resetkeys clears the rest.
reload_devices ==
  /\ pc = "idle"
  /\ key_code' = NoChar /\ key_status' = 0 /\ key_shift' = 0 /\ keys' = {}
  /\ ahead' = (ahead \/ key_code # NoChar)
  /\ UNCHANGED <<held, readerVars, typed, from, taken, mixed>>

Interrupt == \E k \in Keys : ShiftPressed(k) \/ keyboard_handler(k) \/ Released(k)

(***************************************************************************)
(* The reader.                                                             *)
(***************************************************************************)

\* The program reads the next line.
Begin ==
  /\ pc = "idle" /\ mode # "kbhit"
  /\ pc' = "poll"
  /\ line' = <<>>
  /\ from' = [from EXCEPT !.start = Len(typed)]
  /\ ahead' = (ahead \/ key_code # NoChar)
  /\ UNCHANGED <<keyboardVars, mode, c, typed, taken, mixed>>

\* getchar reads the status, then the code, until both are set.
Poll ==
  /\ pc = "poll"
  /\ key_status = 1
  /\ pc' = "code"
  /\ UNCHANGED <<keyboardVars, mode, c, line, historyVars>>

SeeCode ==
  /\ pc = "code"
  /\ pc' = IF key_code # NoChar THEN "take" ELSE "poll"
  /\ UNCHANGED <<keyboardVars, mode, c, line, historyVars>>

\* getchar copies the code...
TakeCode ==
  /\ pc = "take"
  /\ c' = key_code
  /\ from' = [from EXCEPT !.c = from.code]
  /\ pc' = "status"
  /\ UNCHANGED <<keyboardVars, mode, line, typed, taken, ahead, mixed>>

\* ...then clears the status...
ClearStatus ==
  /\ pc = "status"
  /\ key_status' = 0
  /\ pc' = "clear"
  /\ UNCHANGED <<key_code, key_shift, keys, held, mode, c, line, historyVars>>

\* Mutant: getchar clears the status and not the code.
getcharKeeps ==
  /\ pc = "clear"
  /\ taken' = Append(taken, from.c)
  /\ pc' = "use"
  /\ UNCHANGED <<keyboardVars, mode, c, line, typed, from, ahead, mixed>>

\* ...then the code, and returns.
getchar ==
  /\ pc = "clear"
  /\ key_code' = NoChar
  /\ taken' = Append(taken, from.c)
  /\ pc' = "use"
  /\ UNCHANGED <<key_status, key_shift, keys, held, mode, c, line,
                 typed, from, ahead, mixed>>

\* gets and getsn: end the line, rub out, or store.  A rub-out of nothing
\* clears nothing; everything else clears the code and the status again.
gets ==
  /\ pc = "use"
  /\ mode \in {"gets", "getsn"}
  /\ line' = CASE c.key = Backspace /\ line # <<>> -> Front(line)
               [] \/ c.key = Enter \/ c = NoChar
                  \/ c.key = Backspace /\ line = <<>> -> line
               [] OTHER -> Append(line, c)
  /\ pc' = IF c = NoChar \/ (c.key = Backspace /\ line = <<>>)
             THEN "poll" ELSE "code0"
  /\ UNCHANGED <<keyboardVars, mode, c, historyVars>>

\* The read system call of descriptor 0: a key that finds the buffer full
\* ends the line and is dropped.
sys_read ==
  /\ pc = "use"
  /\ mode = "read"
  /\ LET ends == c.key = Enter \/ Len(line) >= Limit
     IN line' = CASE ends \/ (c.key = Backspace /\ line = <<>>) -> line
                  [] ~ends /\ c.key = Backspace /\ line # <<>> -> Front(line)
                  [] OTHER -> Append(line, c)
  /\ pc' = IF c.key = Enter \/ Len(line) >= Limit THEN "reset" ELSE "poll"
  /\ UNCHANGED <<keyboardVars, mode, c, historyVars>>

\* gets and getsn clear the code, then the status; both test for the end.
ClearCodeAgain ==
  /\ pc = "code0"
  /\ key_code' = NoChar
  /\ pc' = "status0"
  /\ UNCHANGED <<key_status, key_shift, keys, held, mode, c, line, historyVars>>

ClearStatusAgain ==
  /\ pc = "status0"
  /\ key_status' = 0
  /\ pc' = IF c.key = Enter \/ (mode = "getsn" /\ Len(line) = Limit)
             THEN "done" ELSE "poll"
  /\ UNCHANGED <<key_code, key_shift, keys, held, mode, c, line, historyVars>>

\* resetkeys after a read: the table and the code, the shift, the status.
ResetCode ==
  /\ pc = "reset"
  /\ keys' = {}
  /\ key_code' = NoChar
  /\ pc' = "resetshift"
  /\ UNCHANGED <<key_status, key_shift, held, mode, c, line, historyVars>>

ResetShift ==
  /\ pc = "resetshift"
  /\ key_shift' = 0
  /\ pc' = "resetstatus"
  /\ UNCHANGED <<key_code, key_status, keys, held, mode, c, line, historyVars>>

ResetStatus ==
  /\ pc = "resetstatus"
  /\ key_status' = 0
  /\ pc' = "done"
  /\ UNCHANGED <<key_code, key_shift, keys, held, mode, c, line, historyVars>>

\* The caller has its line.
Return ==
  /\ pc = "done"
  /\ pc' = "idle"
  /\ UNCHANGED <<keyboardVars, mode, c, line, historyVars>>

\* kbhit tests the table and clears the entry it finds set.
kbhit(char) ==
  /\ pc = "idle" /\ mode = "kbhit"
  /\ char \in keys
  /\ keys' = keys \ {char}
  /\ UNCHANGED <<key_code, key_status, key_shift, held, readerVars, historyVars>>

Reader ==
  \/ Poll \/ SeeCode \/ TakeCode \/ ClearStatus \/ getchar
  \/ gets \/ sys_read \/ ClearCodeAgain \/ ClearStatusAgain
  \/ ResetCode \/ ResetShift \/ ResetStatus \/ Return

KeyNext ==
  \/ Interrupt \/ Reader \/ reload_devices \/ Begin
  \/ \E char \in Chars : kbhit(char)

\* The reader's task runs again and again.
KeySpec == KeyInit /\ [][KeyNext]_keyVars /\ WF_keyVars(Reader)

(***************************************************************************)
(* Properties.                                                             *)
(***************************************************************************)

\* Characters reach the reader in the order of the presses and never twice:
\* releases set the status while an old code is still in the buffer, and the
\* code and the status are cleared at different times.
TakenInOrderOnce ==
  \A i, j \in DOMAIN taken : i < j => taken[i] < taken[j]

\* What editing the characters of keys gives: the reference for the readers.
Edited(chars) ==
  LET edit(text, char) ==
        CASE char.key = Backspace /\ text # <<>> -> Front(text)
          [] \/ char.key = Enter \/ char = NoChar
             \/ char.key = Backspace /\ text = <<>> -> text
          [] OTHER -> Append(text, char)
  IN FoldLeft(edit, <<>>, chars)

\* A line is the edit of everything typed for it when no key is pressed while
\* the reader is busy with the one before: no race between the handler and the
\* reader loses, repeats or reorders a key then.  (read drops the key that
\* finds the buffer full.)
SlowTypistGetsTheLine ==
  LET chars == [i \in 1..(Len(typed) - from.start) |-> typed[from.start + i]]
      read == IF mode = "read" /\ Len(line) = Limit THEN Front(chars) ELSE chars
  IN pc = "done" /\ ~ahead => line = Edited(read)

\* An upper case letter is typed with a shift key down, whatever the order in
\* which the two shift keys and the letters go down and up.  (The converse is
\* false: releasing one of two shift keys, or a read that ends, resets it.)
UpperNeedsShift ==
  [][\A k \in Letters : keyboard_handler(k) /\ key_code'.upper
                          => held \cap Shifts # {}]_keyVars

\* kbhit reports a key only while some key is down, as long as one key at a
\* time is used: a release clears the entry of the code in
\* the buffer, which is then the code of the key released.
HitKeyIsHeld == ~mixed => (keys # {} => held # {})

\* The keys reach their readers: each character once and in order, in the right
\* case, in the line it was typed for, and kbhit sees them while they are down.
KeysAreKept ==
  /\ [](TakenInOrderOnce /\ SlowTypistGetsTheLine /\ HitKeyIsHeld)
  /\ UpperNeedsShift

\* A key pressed while the reader waits for it is taken without another event
\* of the keyboard.  (One pressed while gets clears the buffer can stay there
\* with the status clear until some key goes down or up.)
NoKeyWaits ==
  (key_code # NoChar /\ pc \in {"poll", "code"} /\ ~ahead)
    ~> (key_code = NoChar \/ pc = "take")

=============================================================================
