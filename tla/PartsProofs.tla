---------------------------- MODULE PartsProofs ----------------------------
(***************************************************************************)
(* Theorems about the parts of the kernel that keep their state to         *)
(* themselves: the recall of lines, the mouse, the console and the 64-bit  *)
(* division, for every number of lines, every screen, every width of a     *)
(* word and every input.                                                   *)
(***************************************************************************)
EXTENDS History, Mouse, Console, Arith64, SequenceTheorems, FiniteSetTheorems,
        WellFoundedInduction, TLAPS

-----------------------------------------------------------------------------
(* The recall: the loop that the arrow keys start in the keyboard          *)
(* interrupt ends, and recalls what was entered.                           *)

Buffers == 0..MAXCMDLINES
Texts == Seq(STRING \cup {"mixed", "vectors"})

HistTypes ==
  /\ history \in [Lines -> [cmdline : Buffers, length : BOOLEAN]]
  /\ memory \in [Buffers -> Texts]
  /\ history_count \in 0..(MAXCMDLINES - 2)
  /\ history_index \in Lines
  /\ storing \in Typed \cup {NoLine}
  /\ lastcmd \in Texts
  /\ turning \in {"none", "up", "down"}
  /\ turns \in Nat
  /\ entered \subseteq Typed

\* A line that has a length shows a text that was entered, or one that is being copied
\* over it; the lines before the count have one.
LinesShow ==
  /\ \A i \in Lines : history[i].length => memory[history[i].cmdline] \in entered \cup {Mixed}
  /\ \A i \in Lines : i < history_count => history[i].length

\* The rounds it takes from one line to another.
Rounds(way, from, to) ==
  IF way = "up"
    THEN IF to < from THEN from - to ELSE from - to + MAXCMDLINES
    ELSE IF from < to THEN to - from ELSE to - from + MAXCMDLINES

\* A line with a length lies in the rounds that are left.
LineAhead ==
  /\ turning = "none" => turns = 0
  /\ turning # "none" =>
       \E i \in Lines :
         history[i].length /\ turns + Rounds(turning, history_index, i) <= MAXCMDLINES

Recalled == \E line \in entered \cup {<<>>, Mixed} : IsPrefix(lastcmd, line)

HistIInv == HistTypes /\ LinesShow /\ LineAhead /\ Recalled

-----------------------------------------------------------------------------
LEMMA MixedIsText == Mixed \in Texts /\ Mixed # <<>> /\ Vectors \in Texts
<1>2. Mixed \in Texts /\ Vectors \in Texts
  BY DEF Mixed, Vectors, Texts
<1>3. Len(<<"mixed">>) = 1 /\ Len(<<>>) = 0
  OBVIOUS
<1> QED BY <1>2, <1>3 DEF Mixed

LEMMA HistConstants ==
  /\ MAXCMDLINES \in Nat /\ MAXCMDLINES > 2
  /\ Typed \subseteq Texts /\ <<>> \notin Typed
  /\ NoLine = <<>> /\ <<>> \in Texts
BY HistoryAssumption DEF Texts, NoLine

LEMMA WholeIsPrefix ==
  ASSUME NEW s \in Texts
  PROVE  IsPrefix(s, s)
BY DEF IsPrefix, Texts

\* The start of a prefix is a prefix.
LEMMA CutIsPrefix ==
  ASSUME NEW s \in Texts, NEW t \in Texts, IsPrefix(s, t), NEW n \in 0..Len(s)
  PROVE  IsPrefix(SubSeq(s, 1, n), t) /\ SubSeq(s, 1, n) \in Texts
<1> DEFINE c == SubSeq(s, 1, n)
<1>1. c \in Texts /\ Len(c) = n
  BY DEF Texts
<1>2. Len(s) \in Nat /\ Len(t) \in Nat /\ Len(s) <= Len(t) /\ n \in Nat /\ n <= Len(s)
  BY DEF IsPrefix, Texts
<1>3. \A k \in 1..Len(s) : s[k] = t[k]
  <2> SUFFICES ASSUME NEW k \in 1..Len(s) PROVE s[k] = t[k]
    OBVIOUS
  <2>1. SubSeq(s, 1, Len(s))[k] = s[k] /\ SubSeq(t, 1, Len(s))[k] = t[k]
    BY <1>2 DEF Texts
  <2> QED BY <2>1 DEF IsPrefix
<1>4. SubSeq(c, 1, n) = SubSeq(t, 1, n)
  <2>1. SubSeq(c, 1, n) = [k \in 1..n |-> c[k]] /\ SubSeq(t, 1, n) = [k \in 1..n |-> t[k]]
    BY <1>1, <1>2 DEF Texts
  <2>2. \A k \in 1..n : c[k] = s[k]
    BY <1>2 DEF Texts
  <2> QED BY <2>1, <2>2, <1>2, <1>3
<1> QED BY <1>1, <1>2, <1>4 DEF IsPrefix

LEMMA WrappedCount ==
  ASSUME HistTypes, NEW c \in Nat, c <= MAXCMDLINES - 1
  PROVE  Wrapped(c) \in 0..(MAXCMDLINES - 2) /\ Wrapped(c) \in {0, c}
BY HistConstants DEF Wrapped, HistTypes

\* The next line, without the remainder.
LEMMA NextLine ==
  ASSUME HistTypes
  PROVE  /\ (history_index + (MAXCMDLINES - 1)) % MAXCMDLINES
              = IF history_index = 0 THEN MAXCMDLINES - 1 ELSE history_index - 1
         /\ (history_index + 1) % MAXCMDLINES
              = IF history_index = MAXCMDLINES - 1 THEN 0 ELSE history_index + 1
<1>1. \A n \in Nat : n < MAXCMDLINES => n % MAXCMDLINES = n
  BY HistConstants
<1>2. \A n \in Nat : n >= MAXCMDLINES /\ n < 2 * MAXCMDLINES
                       => n % MAXCMDLINES = n - MAXCMDLINES
  BY HistConstants
<1>3. history_index \in Nat /\ history_index <= MAXCMDLINES - 1
  BY HistConstants DEF HistTypes, Lines
<1> QED BY <1>1, <1>2, <1>3, HistConstants

-----------------------------------------------------------------------------
LEMMA HistStarts == ASSUME HistInit PROVE HistIInv
<1> USE HistConstants, MixedIsText
<1>1. HistTypes
  BY DEF HistInit, HistTypes, Lines, Buffers
<1>2. LinesShow /\ LineAhead
  BY DEF HistInit, LinesShow, LineAhead, Lines
<1>3. Recalled
  BY WholeIsPrefix DEF HistInit, Recalled
<1> QED BY <1>1, <1>2, <1>3 DEF HistIInv

LEMMA StoreKeeps ==
  ASSUME HistIInv, NEW line \in Typed, store_cmd_line_str(line)
  PROVE  HistIInv'
<1> USE HistConstants, MixedIsText
<1>0. HistTypes /\ LinesShow /\ LineAhead /\ Recalled
  BY DEF HistIInv
<1> DEFINE slot == Wrapped(history_count)
           buffer == IF memory[history[slot].cmdline] = <<>> /\ history[slot].cmdline = 0
                       THEN Own(slot) ELSE history[slot].cmdline
<1>1. slot \in 0..(MAXCMDLINES - 2) /\ slot \in {0, history_count} /\ slot \in Lines
  <2>1. history_count \in Nat /\ history_count <= MAXCMDLINES - 1
    BY <1>0 DEF HistTypes
  <2> QED BY <1>0, <2>1, WrappedCount DEF Lines
<1>2. buffer \in Buffers
  BY <1>0, <1>1 DEF HistTypes, Own, Buffers, Lines
<1>3. /\ turning = "none" /\ storing' = line
      /\ history' = [history EXCEPT ![slot].cmdline = buffer]
      /\ memory' = [memory EXCEPT ![buffer] = Mixed]
      /\ history_count' = slot
      /\ UNCHANGED <<history_index, lastcmd, turning, turns, entered>>
  BY DEF store_cmd_line_str
<1>4. \A i \in Lines : history'[i].length = history[i].length
  BY <1>0, <1>1, <1>3 DEF HistTypes
<1>5. \A i \in Lines : history'[i].cmdline = IF i = slot THEN buffer ELSE history[i].cmdline
  BY <1>0, <1>1, <1>3 DEF HistTypes
<1>6. HistTypes'
  BY <1>0, <1>1, <1>2, <1>3 DEF HistTypes
<1>7. \A k \in Buffers : memory'[k] = IF k = buffer THEN Mixed ELSE memory[k]
  BY <1>0, <1>2, <1>3 DEF HistTypes
<1>8. \A i \in Lines : history[i].cmdline \in Buffers
  BY <1>0 DEF HistTypes
<1> HIDE DEF slot, buffer
<1>9. LinesShow'
  BY <1>0, <1>1, <1>2, <1>3, <1>4, <1>5, <1>7, <1>8 DEF LinesShow, Lines, HistTypes
<1>10. LineAhead' /\ Recalled'
  BY <1>0, <1>3 DEF LineAhead, Recalled
<1> QED BY <1>6, <1>9, <1>10 DEF HistIInv

LEMMA StoredKeeps == ASSUME HistIInv, Stored PROVE HistIInv'
<1> USE HistConstants, MixedIsText
<1>0. HistTypes /\ LinesShow /\ LineAhead /\ Recalled
  BY DEF HistIInv
<1> DEFINE buffer == history[history_count].cmdline
           count == Wrapped(history_count + 1)
<1>1. history_count \in Lines /\ buffer \in Buffers /\ storing \in Typed
  BY <1>0 DEF HistTypes, Lines, Stored
<1>2. count \in 0..(MAXCMDLINES - 2) /\ count \in {0, history_count + 1}
  BY <1>0, WrappedCount DEF HistTypes
<1>3. /\ turning = "none" /\ storing' = NoLine
      /\ history' = [history EXCEPT ![history_count].length = TRUE]
      /\ memory' = [memory EXCEPT ![buffer] = storing]
      /\ history_count' = count
      /\ entered' = entered \cup {storing}
      /\ UNCHANGED <<history_index, lastcmd, turning, turns>>
  BY DEF Stored
<1>4. \A i \in Lines : /\ history'[i].cmdline = history[i].cmdline
                       /\ history'[i].length = (i = history_count \/ history[i].length)
  BY <1>0, <1>1, <1>3 DEF HistTypes
<1>5. \A k \in Buffers : memory'[k] = IF k = buffer THEN storing ELSE memory[k]
  BY <1>0, <1>1, <1>3 DEF HistTypes
<1>6. HistTypes'
  BY <1>0, <1>1, <1>2, <1>3 DEF HistTypes
<1>8. \A i \in Lines : history[i].cmdline \in Buffers
  BY <1>0 DEF HistTypes
<1>7. \A i \in Lines :
        history'[i].length => memory'[history'[i].cmdline] \in entered' \cup {Mixed}
  BY <1>0, <1>1, <1>3, <1>4, <1>5, <1>8 DEF LinesShow
<1> HIDE DEF buffer, count
<1>9. \A i \in Lines : i < history_count' => history'[i].length
  <2> SUFFICES ASSUME NEW i \in Lines, i < history_count' PROVE history'[i].length
    OBVIOUS
  <2>1. i = history_count \/ i < history_count
    BY <1>1, <1>2, <1>3 DEF Lines
  <2> QED BY <1>0, <1>4, <2>1 DEF LinesShow
<1>10. LineAhead' /\ Recalled'
  BY <1>0, <1>3 DEF LineAhead, Recalled
<1> QED BY <1>6, <1>7, <1>9, <1>10 DEF HistIInv, LinesShow

LEMMA ArrowKeeps == ASSUME HistIInv, Arrow PROVE HistIInv'
<1> USE HistConstants
<1>0. HistTypes /\ LinesShow /\ LineAhead /\ Recalled
  BY DEF HistIInv
<1>1. /\ turning = "none" /\ turns = 0 /\ turning' \in {"up", "down"} /\ history_count # 0
      /\ UNCHANGED <<history, memory, history_count, history_index, storing, lastcmd, turns,
                     entered>>
  BY <1>0 DEF Arrow, LineAhead
<1>2. HistTypes' /\ LinesShow' /\ Recalled'
  BY <1>0, <1>1 DEF HistTypes, LinesShow, Recalled
<1>3. 0 \in Lines /\ history[0].length
  BY <1>0, <1>1 DEF LinesShow, HistTypes, Lines
<1>5. turns' + Rounds(turning', history_index', 0) <= MAXCMDLINES
  BY <1>0, <1>1 DEF Rounds, HistTypes, Lines
<1>6. LineAhead'
  BY <1>1, <1>3, <1>5 DEF LineAhead
<1> QED BY <1>2, <1>6 DEF HistIInv

LEMMA LoadKeeps == ASSUME HistIInv, load_cmd_line_str PROVE HistIInv'
<1> USE HistConstants, MixedIsText
<1>0. HistTypes /\ LinesShow /\ LineAhead /\ Recalled
  BY DEF HistIInv
<1> DEFINE index == (history_index + (IF turning = "up" THEN MAXCMDLINES - 1 ELSE 1))
                      % MAXCMDLINES
           cmdline == IF history[index].length THEN memory[history[index].cmdline] ELSE <<>>
<1>1. /\ turning # "none" /\ history_index' = index
      /\ IF cmdline = <<>>
           THEN turns' = turns + 1 /\ UNCHANGED <<lastcmd, turning>>
           ELSE turns' = 0 /\ lastcmd' = cmdline /\ turning' = "none"
      /\ UNCHANGED <<history, memory, history_count, storing, entered>>
  BY DEF load_cmd_line_str
<1>2. index = IF turning = "up"
                THEN IF history_index = 0 THEN MAXCMDLINES - 1 ELSE history_index - 1
                ELSE IF history_index = MAXCMDLINES - 1 THEN 0 ELSE history_index + 1
  BY <1>0, NextLine
<1>3. history_index \in Nat /\ history_index <= MAXCMDLINES - 1 /\ turns \in Nat
  BY <1>0 DEF HistTypes, Lines
<1>4. index \in Lines
  BY <1>2, <1>3 DEF Lines
<1>5. cmdline \in Texts /\ (history[index].length => cmdline \in (entered \cup {Mixed}) /\ cmdline # <<>>)
  BY <1>0, <1>4 DEF HistTypes, LinesShow
<1> HIDE DEF cmdline
<1>6. HistTypes'
  BY <1>0, <1>1, <1>3, <1>4, <1>5 DEF HistTypes
<1>7. LinesShow'
  BY <1>0, <1>1 DEF LinesShow
<1>8. CASE cmdline # <<>>
  <2>1. history[index].length
    BY <1>8 DEF cmdline
  <2>2. LineAhead'
    BY <1>1, <1>8 DEF LineAhead
  <2>3. Recalled'
    BY <1>1, <1>5, <1>8, <2>1, WholeIsPrefix DEF Recalled
  <2> QED BY <1>6, <1>7, <2>2, <2>3 DEF HistIInv
<1>9. CASE cmdline = <<>>
  <2>1. PICK i \in Lines :
         history[i].length /\ turns + Rounds(turning, history_index, i) <= MAXCMDLINES
    BY <1>0, <1>1 DEF LineAhead
  <2>2. i # index
    BY <1>5, <1>9, <2>1
  <2>3. turning' = turning /\ turns' = turns + 1 /\ history_index' = index
    BY <1>1, <1>9
  <2>4. i \in Nat /\ i <= MAXCMDLINES - 1
    BY DEF Lines
  <2> HIDE DEF index
  <2>5. turns' + Rounds(turning', history_index', i) <= MAXCMDLINES
    BY <1>2, <1>3, <2>1, <2>2, <2>3, <2>4 DEF Rounds
  <2>6. LineAhead'
    BY <1>1, <2>1, <2>3, <2>5 DEF LineAhead
  <2>7. Recalled'
    BY <1>0, <1>1, <1>9 DEF Recalled
  <2> QED BY <1>6, <1>7, <2>6, <2>7 DEF HistIInv
<1> QED BY <1>8, <1>9

LEMMA CutKeeps == ASSUME HistIInv, CutLast PROVE HistIInv'
<1> USE HistConstants, MixedIsText
<1>0. HistTypes /\ LinesShow /\ LineAhead /\ Recalled
  BY DEF HistIInv
<1>1. PICK n \in 0..(Len(lastcmd) - 1) : lastcmd' = SubSeq(lastcmd, 1, n)
  BY DEF CutLast
<1>2. UNCHANGED <<history, memory, history_count, history_index, storing, turning, turns, entered>>
  BY DEF CutLast
<1>3. PICK line \in entered \cup {<<>>, Mixed} : IsPrefix(lastcmd, line)
  BY <1>0 DEF Recalled
<1>4. lastcmd \in Texts /\ line \in Texts
  BY <1>0 DEF HistTypes
<1>8. n \in 0..Len(lastcmd)
  BY <1>4 DEF Texts
<1>5. IsPrefix(lastcmd', line) /\ lastcmd' \in Texts
  BY <1>1, <1>3, <1>4, <1>8, CutIsPrefix
<1>6. Recalled'
  BY <1>2, <1>5 DEF Recalled
<1>7. HistTypes' /\ LinesShow' /\ LineAhead'
  BY <1>0, <1>2, <1>5 DEF HistTypes, LinesShow, LineAhead, Rounds
<1> QED BY <1>6, <1>7 DEF HistIInv

LEMMA RunKeeps == ASSUME HistIInv, RunLast PROVE HistIInv'
<1> USE HistConstants
<1>1. HistTypes' /\ LinesShow' /\ LineAhead'
  BY DEF HistIInv, RunLast, HistTypes, LinesShow, LineAhead
<1>2. Recalled'
  BY WholeIsPrefix DEF RunLast, Recalled
<1> QED BY <1>1, <1>2 DEF HistIInv

LEMMA HistKept == ASSUME HistIInv, [HistNext]_histVars PROVE HistIInv'
<1>1. CASE UNCHANGED histVars
  BY <1>1 DEF histVars, HistIInv, HistTypes, LinesShow, LineAhead, Rounds, Recalled
<1>2. CASE HistNext
  BY <1>2, StoreKeeps, StoredKeeps, ArrowKeeps, LoadKeeps, CutKeeps, RunKeeps DEF HistNext
<1> QED BY <1>1, <1>2

\* The loop of the keyboard interrupt ends within one round of the lines, and what an
\* arrow key recalls, and an Enter runs, is a line that was entered or the start of one,
\* or of the mixture a copy under way leaves (sh_keydown, store_cmd_line_str).
THEOREM RecallIsAlwaysSound == HistSpec => []RecallIsSound
<1>1. HistIInv => RecallIsSound
  <2> SUFFICES ASSUME HistIInv PROVE RecallIsSound
    OBVIOUS
  <2>1. turns < MAXCMDLINES
    BY HistConstants DEF HistIInv, LineAhead, HistTypes, Rounds, Lines
  <2> QED BY <2>1 DEF HistIInv, HistTypes, Recalled, RecallIsSound
<1> QED BY HistStarts, HistKept, <1>1, PTL DEF HistSpec

-----------------------------------------------------------------------------
(* The mouse: PacketsMoveAsSent, for every screen and every disturbance.   *)

Records == [ready : BOOLEAN, phase : 0..3, packet_size : {0, 3, 4}, packet : [1..4 -> Int],
            dx : Int, dy : Int, dw : Int, buttons : Int]

MouseTypes ==
  /\ mouse_state \in Records
  /\ pointer \in [x : Int, y : Int, b : Int, w : Int]
  /\ screen \in ScreenSizes
  /\ wire \in Seq(Int) /\ sent \in Seq(Int)
  /\ port \in Int /\ latched \in BOOLEAN
  /\ intact \in {-1, 0, 1} /\ lost \in Int

\* A driver that is ready awaits a byte of its packets; one that is not has read the
\* latched byte at most.
PhaseIsRight ==
  LET m == mouse_state
  IN /\ m.ready => m.packet_size \in {3, 4} /\ m.phase < m.packet_size
     /\ ~m.ready => m.packet_size = 0 /\ m.phase \in 0..1 /\ (latched => m.phase = 0)

\* What a packet says: its first byte, and its movements.
IsPacket(p) ==
  \E pressed \in Buttons, dx, dy \in Deltas :
    /\ p[1] = 8 + pressed + (IF dx < 0 THEN 16 ELSE 0) + (IF dy < 0 THEN 32 ELSE 0)
    /\ p[2] = dx % 256 /\ p[3] = dy % 256

Taken == Len(sent) - Len(wire)

\* What is on the wire is the end of a packet.
WireIsEnd ==
  wire # <<>> =>
    /\ mouse_state.ready /\ Len(sent) = mouse_state.packet_size /\ IsPacket(sent)
    /\ Len(wire) <= Len(sent)
    /\ \A i \in 1..Len(wire) : wire[i] = sent[Taken + i]

\* The driver is where the device is, or a packet of which no later byte looks like a
\* first one brings it there.
InStep ==
  LET m == mouse_state
  IN /\ wire = <<>> => (m.ready => intact # -1) /\ (intact = 1 => m.phase = 0)
     /\ wire # <<>> /\ intact = 1 =>
          m.phase = Taken /\ \A i \in 1..Taken : m.packet[i] = sent[i]
     /\ wire # <<>> /\ intact = 0 /\ Taken > 0 /\ Clean =>
          m.phase = 0 \/ m.phase >= Taken

MouseInv == MouseTypes /\ MouseTypeOK /\ PhaseIsRight /\ WireIsEnd /\ InStep

-----------------------------------------------------------------------------
LEMMA ClampedIs ==
  ASSUME screen \in ScreenSizes, NEW p \in [x : Int, y : Int, b : Int, w : Int]
  PROVE  /\ Clamped(p) \in [x : Int, y : Int, b : Int, w : Int]
         /\ Clamped(p).w \in -20..20 /\ Clamped(p).x >= -1 /\ Clamped(p).y >= -1
         /\ Clamped(p).b = p.b
         /\ \A q \in [x : Int, y : Int, b : Int, w : Int] :
              /\ q.x = p.x => Clamped(q).x = Clamped(p).x
              /\ q.y = p.y => Clamped(q).y = Clamped(p).y
<1> DEFINE Within(n, size) == IF n < 0 THEN (IF 0 >= size THEN size - 1 ELSE 0)
                              ELSE IF n >= size THEN size - 1 ELSE n
           Wheel(n) == IF n < -20 THEN -19 ELSE IF n > 20 THEN 19 ELSE n
           Points == [x : Int, y : Int, b : Int, w : Int]
<1>1. \A n \in Int, size \in Nat : Within(n, size) \in Int /\ Within(n, size) >= -1
  OBVIOUS
<1>2. \A n \in Int : Wheel(n) \in Int /\ Wheel(n) \in -20..20
  OBVIOUS
<1>3. screen.width \in Nat /\ screen.height \in Nat
  BY DEF ScreenSizes
<1>4. \A q \in Points : Clamped(q) = [q EXCEPT !.x = Within(q.x, screen.width),
                            !.y = Within(q.y, screen.height), !.w = Wheel(q.w)]
  BY DEF Clamped
<1> HIDE DEF Within, Wheel
<1>5. \A q \in Points : /\ Clamped(q).x = Within(q.x, screen.width)
                        /\ Clamped(q).y = Within(q.y, screen.height)
                        /\ Clamped(q).w = Wheel(q.w) /\ Clamped(q).b = q.b
  BY <1>4
<1>6. Clamped(p) \in Points
  <2> DEFINE x == Within(p.x, screen.width)
             y == Within(p.y, screen.height)
             w == Wheel(p.w)
  <2>1. x \in Int /\ y \in Int /\ w \in Int
    BY <1>1, <1>2, <1>3
  <2>2. Clamped(p) = [p EXCEPT !.x = x, !.y = y, !.w = w]
    BY <1>4
  <2> HIDE DEF x, y, w
  <2> QED BY <2>1, <2>2
<1> QED BY <1>1, <1>2, <1>3, <1>5, <1>6

\* The bits of the first byte of a packet.
LEMMA FirstByte ==
  ASSUME NEW pressed \in 0..7, NEW dx \in Int, NEW dy \in Int, NEW n,
         n = 8 + pressed + (IF dx < 0 THEN 16 ELSE 0) + (IF dy < 0 THEN 32 ELSE 0)
  PROVE  /\ n \in Int /\ Bit(n, 8) /\ ~Bit(n, 64) /\ ~Bit(n, 128)
         /\ (Bit(n, 16) <=> dx < 0) /\ (Bit(n, 32) <=> dy < 0) /\ n % 8 = pressed
BY DEF Bit

LEMMA SignedIs ==
  ASSUME NEW d \in -256..255
  PROVE  /\ d % 256 \in Int /\ SignedChar(d % 256) = EightBits(d) /\ EightBits(d) \in Int
         /\ (d % 256) - (IF d < 0 THEN 256 ELSE 0) = d
BY DEF SignedChar, EightBits

\* What the handler does with a byte, when the driver awaits one.
WithByte(data) ==
  [mouse_state EXCEPT !.packet[mouse_state.phase + 1] = data]

LEMMA StoredIs ==
  ASSUME mouse_state \in Records, NEW data \in Int
  PROVE  /\ WithByte(data) \in Records
         /\ WithByte(data).ready = mouse_state.ready /\ WithByte(data).phase = mouse_state.phase
         /\ WithByte(data).packet_size = mouse_state.packet_size
         /\ WithByte(data).packet[mouse_state.phase + 1] = data
         /\ \A i \in 1..4 : i # mouse_state.phase + 1
              => WithByte(data).packet[i] = mouse_state.packet[i]
BY DEF WithByte, Records

LEMMA DecodedIs ==
  ASSUME NEW m \in Records
  PROVE  /\ Decoded(m) \in Records
         /\ Decoded(m).ready = m.ready /\ Decoded(m).phase = 0
         /\ Decoded(m).packet_size = m.packet_size
         /\ Decoded(m).dx = SignedChar(IF Bit(m.packet[1], 64) THEN 0 ELSE m.packet[2])
         /\ Decoded(m).dy = SignedChar(IF Bit(m.packet[1], 128) THEN 0 ELSE m.packet[3])
         /\ Decoded(m).buttons = m.packet[1] % 8
<1>1. NoState.packet \in [1..4 -> Int]
  BY DEF NoState
<1>2. \A x \in Int : SignedChar(x) \in Int
  BY DEF SignedChar
<1>3. \A x \in Int : (x \div 16) % 16 \in Int /\ ((x \div 16) % 16) + 240 \in Int
  OBVIOUS
<1>4. m.packet[1] \in Int /\ m.packet[2] \in Int /\ m.packet[3] \in Int /\ m.packet[4] \in Int
  BY DEF Records
<1>5. m.packet[1] % 8 \in Int
  BY <1>4
<1> DEFINE dx == SignedChar(IF Bit(m.packet[1], 64) THEN 0 ELSE m.packet[2])
           dy == SignedChar(IF Bit(m.packet[1], 128) THEN 0 ELSE m.packet[3])
           nibble == (m.packet[4] \div 16) % 16
           dw == IF m.packet_size = 3 THEN m.dw
                 ELSE SignedChar(IF Bit(nibble, 8) THEN nibble + 240 ELSE nibble)
           pressed == m.packet[1] % 8
<1>6. dx \in Int /\ dy \in Int
  BY <1>2, <1>4
<1>7. dw \in Int
  BY <1>2, <1>3, <1>4 DEF Records
<1>8. Decoded(m) = [m EXCEPT !.phase = 0, !.packet = NoState.packet, !.dx = dx, !.dy = dy,
                             !.dw = dw, !.buttons = pressed]
  BY DEF Decoded
<1> HIDE DEF dx, dy, dw, pressed
<1>9. pressed \in Int
  BY <1>5 DEF pressed
<1> DEFINE none == NoState.packet
           d == [m EXCEPT !.phase = 0, !.packet = none, !.dx = dx, !.dy = dy,
                          !.dw = dw, !.buttons = pressed]
<1>10. Decoded(m) = d /\ none \in [1..4 -> Int]
  BY <1>1, <1>8
<1> HIDE DEF none
<1>11. d \in Records
  <2> DEFINE d1 == [m EXCEPT !.phase = 0, !.packet = none]
             d2 == [d1 EXCEPT !.dx = dx, !.dy = dy]
  <2>0. none \in [1..4 -> Int]
    BY <1>10
  <2>1. d1 \in Records
    <3> DEFINE d0 == [m EXCEPT !.phase = 0]
    <3>1. d0 \in Records
      BY DEF Records
    <3>2. d1 = [d0 EXCEPT !.packet = none]
      OBVIOUS
    <3> HIDE DEF d0, d1
    <3> QED BY <2>0, <3>1, <3>2 DEF Records
  <2>2. d = [d2 EXCEPT !.dw = dw, !.buttons = pressed]
    OBVIOUS
  <2> HIDE DEF d, d1
  <2>3. d2 \in Records
    BY <1>6, <2>1 DEF Records
  <2> HIDE DEF d2
  <2> QED BY <1>7, <1>9, <2>2, <2>3 DEF Records
<1>12. d.ready = m.ready /\ d.phase = 0 /\ d.packet_size = m.packet_size /\ d.dx = dx
       /\ d.dy = dy /\ d.buttons = pressed
  BY DEF Records
<1> HIDE DEF d
<1> QED BY <1>10, <1>11, <1>12 DEF dx, dy, pressed
LEMMA HandlerIs ==
  ASSUME MouseTypes, PhaseIsRight, NEW data \in Int
  PROVE  LET m == mouse_state
             h == mouse_input_handler(data)
         IN /\ h \in Records /\ h.ready = m.ready /\ h.packet_size = m.packet_size
            /\ m.phase = 0 /\ ~Bit(data, 8) => h = m
            /\ m.phase + 1 < m.packet_size /\ (m.phase = 0 => Bit(data, 8)) =>
                 h.phase = m.phase + 1 /\ h.packet = WithByte(data).packet
            /\ m.ready /\ m.phase + 1 = m.packet_size => h = Decoded(WithByte(data))
            /\ ~m.ready /\ m.phase = 0 => h.phase \in 0..1
<1> DEFINE m == mouse_state
           h == mouse_input_handler(data)
           s == WithByte(data)
<1>0. m \in Records /\ m.phase \in 0..3 /\ m.packet_size \in {0, 3, 4} /\ m.ready \in BOOLEAN
  BY DEF MouseTypes, Records
<1>1. /\ s \in Records /\ s.ready = m.ready /\ s.phase = m.phase
      /\ s.packet_size = m.packet_size
  BY <1>0, StoredIs
<1>2. h = IF m.phase = 0 /\ ~Bit(data, 8) THEN m
          ELSE IF m.phase < 2 \/ (m.phase = 2 /\ m.packet_size # 3)
            THEN [s EXCEPT !.phase = m.phase + 1]
          ELSE Decoded(s)
  BY Zenon DEF mouse_input_handler, WithByte
<1>3. /\ m.ready => m.packet_size \in {3, 4} /\ m.phase < m.packet_size
      /\ ~m.ready => m.packet_size = 0 /\ m.phase \in 0..1
  BY DEF PhaseIsRight
<1> HIDE DEF m, h, s
<1>4. CASE m.phase = 0 /\ ~Bit(data, 8)
  <2>1. h = m
    BY <1>2, <1>4
  <2>2. ~(m.phase + 1 < m.packet_size /\ (m.phase = 0 => Bit(data, 8)))
        /\ ~(m.ready /\ m.phase + 1 = m.packet_size)
    BY <1>0, <1>3, <1>4
  <2>3. m.phase \in 0..1
    BY <1>4
  <2> QED BY <1>0, <2>1, <2>2, <2>3 DEF m, h, s
<1>5. CASE /\ ~(m.phase = 0 /\ ~Bit(data, 8))
           /\ m.phase < 2 \/ (m.phase = 2 /\ m.packet_size # 3)
  <2>1. h = [s EXCEPT !.phase = m.phase + 1]
    BY <1>2, <1>5
  <2>2. m.phase + 1 \in 0..3
    BY <1>0, <1>5
  <2>3. h \in Records /\ h.ready = m.ready /\ h.packet_size = m.packet_size
        /\ h.phase = m.phase + 1 /\ h.packet = s.packet
    BY <1>1, <2>1, <2>2 DEF Records
  <2>4. ~(m.ready /\ m.phase + 1 = m.packet_size)
    BY <1>0, <1>3, <1>5
  <2>5. m.phase = 0 => m.phase + 1 \in 0..1
    OBVIOUS
  <2> QED BY <1>5, <2>3, <2>4, <2>5 DEF m, h, s
<1>6. CASE /\ ~(m.phase = 0 /\ ~Bit(data, 8))
           /\ ~(m.phase < 2 \/ (m.phase = 2 /\ m.packet_size # 3))
  <2>1. h = Decoded(s)
    BY <1>2, <1>6
  <2>2. h \in Records /\ h.ready = m.ready /\ h.packet_size = m.packet_size /\ h.phase = 0
    BY <1>1, <2>1, DecodedIs
  <2>3. m.phase # 0 /\ ~(m.phase + 1 < m.packet_size)
    BY <1>0, <1>6
  <2> QED BY <1>6, <2>1, <2>2, <2>3 DEF m, h, s
<1> QED BY <1>4, <1>5, <1>6

LEMMA HandledIs ==
  ASSUME MouseTypes, MouseTypeOK, PhaseIsRight, NEW data \in Int, Handled(data)
  PROVE  LET m == mouse_state
             h == mouse_input_handler(data)
         IN /\ mouse_state' \in Records /\ mouse_state'.ready = m.ready
            /\ mouse_state'.packet_size = m.packet_size
            /\ mouse_state'.phase = h.phase /\ mouse_state'.packet = h.packet
            /\ pointer' \in [x : Int, y : Int, b : Int, w : Int]
            /\ pointer'.w \in -20..20 /\ pointer'.x >= -1 /\ pointer'.y >= -1
            /\ port' \in Int
            /\ m.ready => pointer' = Clamped([x |-> pointer.x + h.dx, y |-> pointer.y - h.dy,
                                              b |-> h.buttons, w |-> pointer.w + h.dw])
<1> DEFINE m == mouse_state
           h == mouse_input_handler(data)
           still == [pointer EXCEPT !.b = 0]
           moved == [x |-> pointer.x + h.dx, y |-> pointer.y - h.dy, b |-> h.buttons,
                     w |-> pointer.w + h.dw]
<1>1. h \in Records /\ h.ready = m.ready /\ h.packet_size = m.packet_size
  BY HandlerIs
<1>2. /\ mouse_state' = IF h.ready THEN [h EXCEPT !.dx = 0, !.dy = 0, !.dw = 0] ELSE h
      /\ pointer' = Clamped(IF h.ready THEN moved ELSE still)
      /\ port' = IF latched THEN data ELSE port
  BY DEF Handled
<1>3. pointer \in [x : Int, y : Int, b : Int, w : Int] /\ port \in Int /\ screen \in ScreenSizes
  BY DEF MouseTypes
<1> HIDE DEF h
<1>4. moved \in [x : Int, y : Int, b : Int, w : Int]
  BY <1>1, <1>3 DEF Records
<1>5. still \in [x : Int, y : Int, b : Int, w : Int]
  BY <1>3
<1> HIDE DEF moved, still
<1>6. /\ pointer' \in [x : Int, y : Int, b : Int, w : Int]
      /\ pointer'.w \in -20..20 /\ pointer'.x >= -1 /\ pointer'.y >= -1
  <2>1. (IF h.ready THEN moved ELSE still) \in [x : Int, y : Int, b : Int, w : Int]
    BY <1>4, <1>5
  <2> QED BY <1>2, <1>3, <2>1, ClampedIs
<1>7. /\ mouse_state' \in Records /\ mouse_state'.ready = h.ready
      /\ mouse_state'.packet_size = h.packet_size
      /\ mouse_state'.phase = h.phase /\ mouse_state'.packet = h.packet
  <2>1. CASE h.ready
    <3> DEFINE g == [h EXCEPT !.dx = 0, !.dy = 0]
    <3>1. g \in Records /\ g.ready = h.ready /\ g.packet_size = h.packet_size
          /\ g.phase = h.phase /\ g.packet = h.packet
      <4> DEFINE f == [h EXCEPT !.dx = 0]
      <4>1. /\ f \in Records /\ f.ready = h.ready /\ f.packet_size = h.packet_size
            /\ f.phase = h.phase /\ f.packet = h.packet
        BY <1>1 DEF Records
      <4>2. g = [f EXCEPT !.dy = 0]
        OBVIOUS
      <4> HIDE DEF f, g
      <4> QED BY <4>1, <4>2 DEF Records
    <3>2. mouse_state' = [g EXCEPT !.dw = 0]
      BY <1>2, <2>1
    <3> HIDE DEF g
    <3> QED BY <3>1, <3>2 DEF Records
  <2>2. CASE ~h.ready
    BY <1>1, <1>2, <2>2
  <2> QED BY <2>1, <2>2
<1> QED BY <1>1, <1>2, <1>3, <1>6, <1>7 DEF h, moved
-----------------------------------------------------------------------------
NextIs ==
  /\ mouse_state.ready /\ Len(sent) = mouse_state.packet_size
  /\ mouse_state.packet_size \in {3, 4} /\ mouse_state.phase \in 0..Len(sent) - 1
  /\ Taken \in 0..Len(sent) - 1
  /\ Head(wire) = sent[Taken + 1] /\ Head(wire) \in Int
  /\ Tail(wire) \in Seq(Int) /\ Len(Tail(wire)) = Len(wire) - 1
  /\ Len(wire) \in Nat /\ Len(wire) > 0 /\ (Len(wire) = 1 <=> Taken + 1 = Len(sent))
  /\ Tail(wire) = <<>> <=> Len(wire) = 1
  /\ \A i \in 1..Len(wire) - 1 : Tail(wire)[i] = sent[Taken + 1 + i]
  /\ Bit(sent[1], 8)

LEMMA NextByte ==
  ASSUME MouseInv, wire # <<>>
  PROVE  NextIs
<1> DEFINE n == Len(sent)
           rest == Len(wire)
           k == Taken
           m == mouse_state
           t == Tail(wire)
<1>1. /\ m.ready /\ n = m.packet_size /\ m.packet_size \in {3, 4} /\ m.phase < m.packet_size
      /\ IsPacket(sent) /\ rest <= n /\ \A i \in 1..rest : wire[i] = sent[k + i]
  BY DEF MouseInv, WireIsEnd, PhaseIsRight
<1>2. m.phase \in 0..3 /\ wire \in Seq(Int)
  BY DEF MouseInv, MouseTypes, Records
<1>3. rest \in Nat /\ rest > 0
  BY <1>2
<1>4. k = n - rest
  BY DEF Taken
<1>5. Head(wire) = wire[1] /\ wire[1] \in Int /\ 1 \in 1..rest
  BY <1>2, <1>3
<1>6. t \in Seq(Int) /\ Len(t) = rest - 1 /\ \A i \in 1..rest - 1 : t[i] = wire[i + 1]
  BY <1>2, <1>3
<1>7. t = <<>> <=> rest = 1
  <2>1. t = <<>> <=> Len(t) = 0
    <3> HIDE DEF t
    <3> QED BY <1>6, EmptySeq
  <2> HIDE DEF t, rest
  <2> QED BY <1>3, <1>6, <2>1
<1> HIDE DEF rest, n, k, m, t
<1>8. k \in 0..n - 1 /\ (rest = 1 <=> k + 1 = n) /\ m.phase \in 0..n - 1
  <2>1. n \in {3, 4} /\ rest <= n /\ m.phase < n /\ m.phase \in 0..3
    BY <1>1, <1>2
  <2> QED BY <1>3, <1>4, <2>1
<1>9. \A i \in 1..rest - 1 : i + 1 \in 1..rest /\ k + (i + 1) = k + 1 + i
  BY <1>3, <1>8
<1>10. \A i \in 1..rest - 1 : t[i] = sent[k + 1 + i]
  BY <1>1, <1>6, <1>9
<1>11. Bit(sent[1], 8)
  <2>1. PICK pressed \in Buttons, dx, dy \in Deltas :
          sent[1] = 8 + pressed + (IF dx < 0 THEN 16 ELSE 0) + (IF dy < 0 THEN 32 ELSE 0)
    BY <1>1 DEF IsPacket
  <2>2. pressed \in 0..7 /\ dx \in Int /\ dy \in Int
    BY MouseAssumption
  <2> QED BY <2>1, <2>2, FirstByte
<1>12. Head(wire) = sent[k + 1] /\ Head(wire) \in Int
  BY <1>1, <1>5
<1> QED BY <1>1, <1>3, <1>6, <1>7, <1>8, <1>10, <1>11, <1>12 DEF NextIs, n, rest, k, m, t

\* What a byte does to a driver that is in step, or may come to be.
LEMMA PhaseStep ==
  ASSUME MouseInv, wire # <<>>
  PROVE  LET k == Taken + 1
             h == mouse_input_handler(Head(wire))
             s == WithByte(Head(wire))
         IN /\ h.phase < mouse_state.packet_size /\ h.phase \in 0..3
            /\ intact = 1 /\ k < Len(sent) =>
                 h.phase = k /\ \A i \in 1..k : h.packet[i] = sent[i]
            /\ intact = 1 /\ k = Len(sent) =>
                 h = Decoded(s) /\ h.phase = 0 /\ \A i \in 1..k : s.packet[i] = sent[i]
            /\ intact = 0 /\ Clean /\ k < Len(sent) => h.phase = 0 \/ h.phase >= k
            /\ intact = 0 /\ Clean /\ k = Len(sent) => h.phase = 0
<1> DEFINE m == mouse_state
           k == Taken + 1
           n == Len(sent)
           data == Head(wire)
           h == mouse_input_handler(data)
           s == WithByte(data)
           bit == Bit(data, 8)
<1>1. /\ m.ready /\ n = m.packet_size /\ n \in {3, 4} /\ m.phase \in 0..n - 1
      /\ k \in 1..n /\ data = sent[k] /\ data \in Int /\ (k = 1 => bit)
  <2>1. NextIs
    BY NextByte
  <2>2. /\ m.ready /\ n = m.packet_size /\ m.packet_size \in {3, 4} /\ m.phase \in 0..n - 1
        /\ Taken \in 0..n - 1 /\ data = sent[k] /\ data \in Int /\ Bit(sent[1], 8)
    BY <2>1 DEF NextIs
  <2> HIDE DEF m, n, data
  <2>3. k \in 1..n /\ n \in {3, 4}
    BY <2>2
  <2> QED BY <2>2, <2>3
<1>2. /\ h \in Records
      /\ m.phase = 0 /\ ~bit => h = m
      /\ m.phase + 1 < n /\ (m.phase = 0 => bit) => h.phase = m.phase + 1 /\ h.packet = s.packet
      /\ m.phase + 1 = n => h = Decoded(s)
  BY <1>1, HandlerIs DEF MouseInv
<1>3. /\ s \in Records /\ s.packet[m.phase + 1] = data
      /\ \A i \in 1..4 : i # m.phase + 1 => s.packet[i] = m.packet[i]
  BY <1>1, StoredIs DEF MouseInv, MouseTypes
<1>4. m.phase + 1 = n => h.phase = 0
  BY <1>2, <1>3, DecodedIs
<1>5. intact = 1 => m.phase = k - 1 /\ \A i \in 1..k - 1 : m.packet[i] = sent[i]
  <2>1. k - 1 = Taken
    <3>1. Taken \in Int
      BY NextByte DEF NextIs
    <3> QED BY <3>1
  <2> QED BY <2>1 DEF MouseInv, InStep
<1>6. intact = 0 /\ Clean /\ k > 1 => m.phase = 0 \/ m.phase >= k - 1
  <2>1. k - 1 = Taken /\ (k > 1 => Taken > 0)
    <3>1. Taken \in Int
      BY NextByte DEF NextIs
    <3> QED BY <3>1
  <2> QED BY <2>1 DEF MouseInv, InStep
<1>7. Clean /\ k > 1 => ~bit
  <2>1. k > 1 => k \in 2..n
    BY <1>1
  <2> QED BY <1>1, <2>1 DEF Clean
<1>8. h.phase \in 0..3
  BY <1>2 DEF Records
<1> HIDE DEF m, k, n, data, h, s, bit
<1>9. h.phase < n
  BY <1>1, <1>2, <1>4
<1>10. ASSUME intact = 1
       PROVE  \A i \in 1..k : s.packet[i] = sent[i]
  <2>1. TAKE i \in 1..k
  <2>2. CASE i = k
    BY <1>1, <1>3, <1>5, <1>10, <2>2
  <2>3. CASE i # k
    <3>1. i \in 1..k - 1 /\ i \in 1..4 /\ i # m.phase + 1
      BY <1>1, <1>5, <1>10, <2>3
    <3> QED BY <1>3, <1>5, <1>10, <3>1
  <2> QED BY <2>2, <2>3
<1>11. intact = 1 /\ k < n => h.phase = k /\ h.packet = s.packet
  BY <1>1, <1>2, <1>5
<1>12. intact = 1 /\ k = n => h = Decoded(s) /\ h.phase = 0
  BY <1>1, <1>2, <1>4, <1>5
<1>13. intact = 0 /\ Clean /\ k < n => h.phase = 0 \/ h.phase >= k
  BY <1>1, <1>2, <1>4, <1>6, <1>7
<1>14. intact = 0 /\ Clean /\ k = n => h.phase = 0
  BY <1>1, <1>2, <1>4, <1>6, <1>7
<1> QED BY <1>1, <1>8, <1>9, <1>10, <1>11, <1>12, <1>13, <1>14 DEF m, k, n, data, h, s
-----------------------------------------------------------------------------
(* Each action keeps MouseInv.                                             *)

LEMMA MouseStarts == MouseInit => MouseInv
<1> SUFFICES ASSUME MouseInit PROVE MouseInv
  OBVIOUS
<1>1. NoState \in Records
  <2>1. <<0, 0, 0, 0>> \in [1..4 -> Int]
    OBVIOUS
  <2> QED BY <2>1 DEF NoState, Records
<1>2. MouseTypes
  <2>1. [width |-> 0, height |-> 0] \in ScreenSizes
    BY DEF ScreenSizes
  <2>2. [x |-> 0, y |-> 0, b |-> 0, w |-> 0] \in [x : Int, y : Int, b : Int, w : Int]
    OBVIOUS
  <2>3. <<>> \in Seq(Int)
    BY EmptySeq
  <2>4. 0 \in Int /\ FALSE \in BOOLEAN /\ 1 \in {-1, 0, 1}
    OBVIOUS
  <2> QED BY <1>1, <2>1, <2>2, <2>3, <2>4 DEF MouseInit, MouseTypes
<1>3. MouseTypeOK /\ PhaseIsRight /\ WireIsEnd /\ InStep
  BY DEF MouseInit, MouseTypeOK, PhaseIsRight, WireIsEnd, InStep, NoState
<1> QED BY <1>2, <1>3 DEF MouseInv

LEMMA PacketIs ==
  ASSUME mouse_state.packet_size \in {3, 4},
         NEW pressed \in Buttons, NEW dx \in Deltas, NEW dy \in Deltas, NEW w \in Wheels
  PROVE  LET p == Packet(pressed, dx, dy, w)
         IN p \in Seq(Int) /\ Len(p) = mouse_state.packet_size /\ IsPacket(p)
<1> DEFINE first == 8 + pressed + (IF dx < 0 THEN 16 ELSE 0) + (IF dy < 0 THEN 32 ELSE 0)
           x == dx % 256
           y == dy % 256
           z == w % 256
           p == Packet(pressed, dx, dy, w)
<1>1. p = <<first, x, y>> \o (IF mouse_state.packet_size = 4 THEN <<z>> ELSE <<>>)
  BY DEF Packet
<1>2. first \in Int /\ x \in Int /\ y \in Int /\ z \in Int
  BY MouseAssumption
<1> HIDE DEF p
<1>3. p \in Seq(Int) /\ Len(p) = mouse_state.packet_size
      /\ p[1] = first /\ p[2] = x /\ p[3] = y
  <2> HIDE DEF first, x, y, z
  <2> QED BY <1>1, <1>2
<1>4. IsPacket(p)
  BY <1>3 DEF IsPacket
<1> QED BY <1>3, <1>4 DEF p

LEMMA MovesKeeps ==
  ASSUME MouseInv, DeviceMoves
  PROVE  MouseInv'
<1>1. PICK pressed \in Buttons, dx, dy \in Deltas, w \in Wheels :
        sent' = Packet(pressed, dx, dy, w) /\ wire' = sent'
  BY DEF DeviceMoves
<1>2. /\ mouse_state.ready /\ wire = <<>>
      /\ UNCHANGED <<mouse_state, mouse_initialized, pointer, screen, port, latched, intact, lost>>
  BY DEF DeviceMoves
<1>3. mouse_state.packet_size \in {3, 4}
  BY <1>2 DEF MouseInv, PhaseIsRight
<1>4. sent' \in Seq(Int) /\ Len(sent') = mouse_state.packet_size /\ IsPacket(sent')
  BY <1>1, <1>3, PacketIs
<1>5. Len(sent') \in Nat /\ wire' # <<>>
  <2>1. Len(sent') \in Nat /\ Len(sent') # 0
    BY <1>3, <1>4
  <2> QED BY <1>1, <1>4, <2>1, EmptySeq
<1>6. Len(wire') = Len(sent') /\ Taken' = 0
  BY <1>1, <1>5 DEF Taken
<1>7. MouseTypes'
  BY <1>1, <1>2, <1>4 DEF MouseInv, MouseTypes
<1>8. MouseTypeOK' /\ PhaseIsRight'
  BY <1>2 DEF MouseInv, MouseTypeOK, PhaseIsRight
<1>9. \A i \in 1..Len(wire') : wire'[i] = sent'[0 + i]
  BY <1>1
<1>10. WireIsEnd'
  BY <1>2, <1>4, <1>5, <1>6, <1>9 DEF WireIsEnd, IsPacket
<1>11. intact \in {-1, 0, 1} /\ intact # -1 /\ (intact = 1 => mouse_state.phase = 0)
  BY <1>2 DEF MouseInv, MouseTypes, InStep
<1>12. InStep'
  BY <1>2, <1>5, <1>6, <1>11 DEF InStep
<1> QED BY <1>7, <1>8, <1>10, <1>12 DEF MouseInv

\* The wire without its first byte is still the end of the packet.
LEMMA TailIsEnd ==
  ASSUME MouseInv, wire # <<>>, wire' = Tail(wire), UNCHANGED sent,
         mouse_state'.ready = mouse_state.ready,
         mouse_state'.packet_size = mouse_state.packet_size
  PROVE  WireIsEnd' /\ wire' \in Seq(Int) /\ Taken' = Taken + 1
<1>1. NextIs
  BY NextByte
<1>2. Len(wire) \in Nat /\ Len(wire') = Len(wire) - 1 /\ Len(sent) \in Nat
      /\ wire' \in Seq(Int) /\ Taken = Len(sent) - Len(wire) /\ Len(wire) <= Len(sent)
  <2>1. Len(sent) \in Nat /\ Len(wire) <= Len(sent)
    BY DEF MouseInv, MouseTypes, WireIsEnd
  <2> QED BY <1>1, <2>1 DEF NextIs, Taken
<1>3. Taken' = Taken + 1
  BY <1>2 DEF Taken
<1>4. \A i \in 1..Len(wire') : wire'[i] = sent[Taken' + i]
  BY <1>1, <1>2, <1>3 DEF NextIs
<1>5. IsPacket(sent') /\ Len(sent') = mouse_state'.packet_size /\ mouse_state'.ready
  BY DEF MouseInv, WireIsEnd, IsPacket
<1>6. Len(wire') <= Len(sent')
  BY <1>2
<1> QED BY <1>2, <1>3, <1>4, <1>5, <1>6 DEF WireIsEnd

LEMMA LoseKeeps ==
  ASSUME MouseInv, LoseByte
  PROVE  MouseInv'
<1>1. /\ wire # <<>> /\ wire' = Tail(wire) /\ intact' = (IF wire' = <<>> THEN 0 ELSE -1)
      /\ lost' = lost + 1
      /\ UNCHANGED <<mouse_state, mouse_initialized, pointer, screen, sent, port, latched>>
  BY DEF LoseByte
<1>2. WireIsEnd' /\ wire' \in Seq(Int)
  BY <1>1, TailIsEnd
<1>3. MouseTypes'
  BY <1>1, <1>2 DEF MouseInv, MouseTypes
<1>4. MouseTypeOK' /\ PhaseIsRight'
  BY <1>1 DEF MouseInv, MouseTypeOK, PhaseIsRight
<1>5. InStep'
  BY <1>1 DEF InStep
<1> QED BY <1>2, <1>3, <1>4, <1>5 DEF MouseInv

\* What the handler keeps of the types, whatever the byte.
LEMMA HandledKeeps ==
  ASSUME MouseInv, NEW data \in Int, Handled(data), UNCHANGED <<mouse_initialized, screen>>,
         mouse_state.ready \/ (latched /\ ~latched'),
         latched' \in BOOLEAN, wire' \in Seq(Int), sent' \in Seq(Int), intact' \in {-1, 0, 1},
         lost' \in Int,
         mouse_state.ready => mouse_input_handler(data).phase < mouse_state.packet_size
  PROVE  MouseTypes' /\ MouseTypeOK' /\ PhaseIsRight'
<1> DEFINE m == mouse_state
           h == mouse_input_handler(data)
<1>0. MouseTypes /\ MouseTypeOK /\ PhaseIsRight
  BY DEF MouseInv
<1>1. /\ mouse_state' \in Records /\ mouse_state'.ready = m.ready
      /\ mouse_state'.packet_size = m.packet_size /\ mouse_state'.phase = h.phase
      /\ pointer' \in [x : Int, y : Int, b : Int, w : Int]
      /\ pointer'.w \in -20..20 /\ pointer'.x >= -1 /\ pointer'.y >= -1 /\ port' \in Int
  BY <1>0, HandledIs
<1>2. MouseTypes'
  BY <1>0, <1>1 DEF MouseTypes
<1>3. mouse_state'.phase \in 0..3 /\ m.packet_size \in {0, 3, 4} /\ m.ready \in BOOLEAN
  BY <1>0, <1>1 DEF MouseTypes, Records
<1>4. CASE m.ready
  <2>1. h.phase < m.packet_size /\ m.packet_size \in {3, 4}
    BY <1>0, <1>4 DEF PhaseIsRight
  <2>2. MouseTypeOK'
    <3>1. mouse_state'.phase = 3 => mouse_state'.packet_size = 4
      BY <1>1, <1>3, <2>1
    <3>2. mouse_initialized' \in 0..2 /\ (mouse_state'.ready => mouse_initialized' = 1)
      BY <1>0, <1>1 DEF MouseTypeOK
    <3> QED BY <1>1, <1>3, <3>1, <3>2 DEF MouseTypeOK
  <2>3. PhaseIsRight'
    BY <1>1, <1>4, <2>1 DEF PhaseIsRight
  <2> QED BY <1>2, <2>2, <2>3
<1>5. CASE ~m.ready
  <2>1. m.packet_size = 0 /\ m.phase = 0
    BY <1>0, <1>5 DEF PhaseIsRight
  <2>2. h.phase \in 0..1
    BY <1>0, <1>5, <2>1, HandlerIs
  <2>3. MouseTypeOK'
    <3>1. mouse_initialized' \in 0..2 /\ ~mouse_state'.ready
      BY <1>0, <1>1, <1>5 DEF MouseTypeOK
    <3>2. mouse_state'.phase # 3
      BY <1>1, <2>2
    <3> QED BY <1>1, <1>3, <3>1, <3>2 DEF MouseTypeOK
  <2>4. ~latched'
    BY <1>5
  <2>5. PhaseIsRight'
    BY <1>1, <1>5, <2>1, <2>2, <2>4 DEF PhaseIsRight
  <2> QED BY <1>2, <2>3, <2>5
<1> QED BY <1>4, <1>5
LEMMA LatchedKeeps ==
  ASSUME MouseInv, LatchedInterrupt
  PROVE  MouseInv'
<1>1. /\ latched /\ Handled(port) /\ ~latched' /\ latched' \in BOOLEAN
      /\ intact' = (IF wire = <<>> THEN 0 ELSE -1) /\ lost' = lost + 1
      /\ UNCHANGED <<mouse_initialized, screen, wire, sent>>
  BY DEF LatchedInterrupt
<1>2. port \in Int /\ wire \in Seq(Int) /\ sent \in Seq(Int) /\ lost \in Int
  BY DEF MouseInv, MouseTypes
<1>3. MouseTypes /\ MouseTypeOK /\ PhaseIsRight
  BY DEF MouseInv
<1>4. mouse_state.ready => mouse_input_handler(port).phase < mouse_state.packet_size
  <2> SUFFICES ASSUME mouse_state.ready
               PROVE  mouse_input_handler(port).phase < mouse_state.packet_size
    OBVIOUS
  <2> DEFINE m == mouse_state
             h == mouse_input_handler(port)
             s == WithByte(port)
  <2>1. m.phase \in 0..3 /\ m.packet_size \in {3, 4} /\ m.phase < m.packet_size
    BY <1>3 DEF PhaseIsRight, MouseTypes, Records
  <2>2. /\ m.phase = 0 /\ ~Bit(port, 8) => h = m
        /\ m.phase + 1 < m.packet_size /\ (m.phase = 0 => Bit(port, 8)) => h.phase = m.phase + 1
        /\ m.phase + 1 = m.packet_size => h = Decoded(s)
    BY <1>2, <1>3, HandlerIs
  <2>3. Decoded(s).phase = 0
    BY <1>2, <1>3, StoredIs, DecodedIs DEF MouseTypes
  <2> HIDE DEF m, h, s
  <2>4. h.phase < m.packet_size
    BY <2>1, <2>2, <2>3
  <2> QED BY <2>4 DEF h, m
<1>5. MouseTypes' /\ MouseTypeOK' /\ PhaseIsRight'
  <2>1. wire' \in Seq(Int) /\ sent' \in Seq(Int) /\ intact' \in {-1, 0, 1} /\ lost' \in Int
    BY <1>1, <1>2
  <2> QED BY <1>1, <1>2, <1>4, <2>1, HandledKeeps
<1>6. mouse_state'.ready = mouse_state.ready
      /\ mouse_state'.packet_size = mouse_state.packet_size
  BY <1>1, <1>2, <1>3, HandledIs
<1>7. WireIsEnd'
  BY <1>1, <1>6 DEF MouseInv, WireIsEnd, Taken, IsPacket
<1>8. InStep'
  BY <1>1 DEF InStep
<1> QED BY <1>5, <1>7, <1>8 DEF MouseInv

LEMMA HandlerKeeps ==
  ASSUME MouseInv, mouse_handler
  PROVE  MouseInv'
<1> DEFINE k == Taken + 1
           n == Len(sent)
           h == mouse_input_handler(Head(wire))
<1>1. /\ wire # <<>> /\ Handled(Head(wire)) /\ wire' = Tail(wire)
      /\ sent' = (IF Len(wire) = 1 THEN <<>> ELSE sent)
      /\ intact' = IF Len(wire) > 1 THEN intact
                   ELSE IF intact = -1 THEN 0 ELSE IF Clean THEN 1 ELSE intact
      /\ UNCHANGED <<mouse_initialized, screen, latched, lost>>
  BY DEF mouse_handler
<1>2. NextIs
  BY <1>1, NextByte
<1>3. MouseTypes /\ MouseTypeOK /\ PhaseIsRight
  BY DEF MouseInv
<1>4. /\ h.phase < mouse_state.packet_size /\ h.phase \in 0..3
      /\ intact = 1 /\ k < n => h.phase = k /\ \A i \in 1..k : h.packet[i] = sent[i]
      /\ intact = 1 /\ k = n => h.phase = 0
      /\ intact = 0 /\ Clean /\ k < n => h.phase = 0 \/ h.phase >= k
      /\ intact = 0 /\ Clean /\ k = n => h.phase = 0
  BY <1>1, PhaseStep
<1>5. /\ mouse_state'.phase = h.phase /\ mouse_state'.packet = h.packet
      /\ mouse_state'.ready = mouse_state.ready
      /\ mouse_state'.packet_size = mouse_state.packet_size
  BY <1>1, <1>2, <1>3, HandledIs DEF NextIs
<1>6. intact \in {-1, 0, 1} /\ latched \in BOOLEAN /\ lost \in Int /\ sent \in Seq(Int)
  BY <1>3 DEF MouseTypes
<1>7. MouseTypes' /\ MouseTypeOK' /\ PhaseIsRight'
  <2>1. wire' \in Seq(Int) /\ mouse_state.ready /\ Head(wire) \in Int
    BY <1>1, <1>2 DEF NextIs
  <2>2. sent' \in Seq(Int)
    BY <1>1, <1>6, EmptySeq
  <2>3. intact' \in {-1, 0, 1}
    BY <1>1, <1>6
  <2> QED BY <1>1, <1>4, <1>6, <2>1, <2>2, <2>3, HandledKeeps
<1>8. /\ n \in {3, 4} /\ k \in 1..n /\ (Len(wire) = 1 <=> k = n)
      /\ (Tail(wire) = <<>> <=> Len(wire) = 1) /\ Len(wire) \in Nat /\ Len(wire) > 0
  <2>1. Taken \in 0..n - 1 /\ n \in {3, 4}
    BY <1>2 DEF NextIs
  <2> HIDE DEF n
  <2>2. k \in 1..n
    BY <2>1
  <2> QED BY <1>2, <2>1, <2>2 DEF NextIs, n
<1> HIDE DEF n, h
<1>9. CASE Len(wire) = 1
  <2>1. wire' = <<>> /\ k = n
    BY <1>1, <1>8, <1>9
  <2>2. WireIsEnd'
    BY <2>1 DEF WireIsEnd
  <2>3. intact' = IF intact = -1 THEN 0 ELSE IF Clean THEN 1 ELSE intact
    BY <1>1, <1>9
  <2>4. intact' # -1 /\ (intact' = 1 => h.phase = 0)
    BY <1>4, <1>6, <2>1, <2>3
  <2>5. InStep'
    BY <1>5, <2>1, <2>4 DEF InStep
  <2> QED BY <1>7, <2>2, <2>5 DEF MouseInv
<1>10. CASE Len(wire) # 1
  <2>1. wire' # <<>> /\ k < n /\ Len(wire) > 1
    <3>1. wire' # <<>>
      BY <1>1, <1>8, <1>10
    <3> QED BY <1>8, <1>10, <3>1
  <2>2. sent' = sent /\ intact' = intact
    BY <1>1, <1>10, <2>1
  <2>3. WireIsEnd' /\ Taken' = k
    BY <1>1, <1>5, <2>2, TailIsEnd
  <2>4. Clean' <=> Clean
    BY <2>2 DEF Clean
  <2>5. intact = 1 => mouse_state'.phase = Taken'
                      /\ \A i \in 1..Taken' : mouse_state'.packet[i] = sent'[i]
    BY <1>4, <1>5, <2>1, <2>2, <2>3
  <2>6. intact = 0 /\ Clean => mouse_state'.phase = 0 \/ mouse_state'.phase >= Taken'
    BY <1>4, <1>5, <2>1, <2>3
  <2>7. InStep'
    BY <2>1, <2>2, <2>4, <2>5, <2>6 DEF InStep
  <2> QED BY <1>7, <2>3, <2>7 DEF MouseInv
<1> QED BY <1>9, <1>10

LEMMA StartsAgain ==
  ASSUME MouseInv, init_mouse
  PROVE  MouseInv'
<1>1. PICK ok \in BOOLEAN, size \in {3, 4} :
        /\ mouse_state' = [NoState EXCEPT !.ready = ok, !.packet_size = IF ok THEN size ELSE 0]
        /\ mouse_initialized' = IF ok THEN 1 ELSE 2
  BY DEF init_mouse
<1>2. /\ latched' \in BOOLEAN /\ screen' = VideoMode /\ pointer' = Start(VideoMode)
      /\ wire' = <<>> /\ sent' = <<>> /\ port' = 250 /\ intact' = 1 /\ lost' = lost
  BY DEF init_mouse
<1> DEFINE none == <<0, 0, 0, 0>>
           size1 == IF ok THEN size ELSE 0
<1>3. mouse_state' = [ready |-> ok, phase |-> 0, packet_size |-> size1, packet |-> none,
                      dx |-> 0, dy |-> 0, dw |-> 0, buttons |-> 0]
  BY <1>1 DEF NoState
<1>4. none \in [1..4 -> Int] /\ size1 \in {0, 3, 4}
  OBVIOUS
<1>5. mouse_state' \in Records
  <2> HIDE DEF none, size1
  <2> QED BY <1>3, <1>4 DEF Records
<1>6. /\ pointer' \in [x : Int, y : Int, b : Int, w : Int] /\ pointer'.w = 0
      /\ pointer'.x >= -1 /\ pointer'.y >= -1
  <2>1. VideoMode.width \in Nat /\ VideoMode.height \in Nat
    BY MouseAssumption DEF ScreenSizes
  <2>2. \A d \in Nat : d \div 2 - 1 \in Int /\ d \div 2 - 1 >= -1
    OBVIOUS
  <2>3. pointer' = [x |-> VideoMode.width \div 2 - 1, y |-> VideoMode.height \div 2 - 1,
                    b |-> 0, w |-> 0]
    BY <1>2 DEF Start
  <2> QED BY <2>1, <2>2, <2>3
<1>7. MouseTypes'
  BY <1>2, <1>5, <1>6, MouseAssumption, EmptySeq DEF MouseInv, MouseTypes
<1>8. mouse_state'.ready = ok /\ mouse_state'.phase = 0 /\ mouse_state'.packet_size = size1
  BY <1>3
<1>9. MouseTypeOK'
  BY <1>1, <1>4, <1>6, <1>8 DEF MouseTypeOK
<1>10. PhaseIsRight'
  BY <1>8 DEF PhaseIsRight
<1>11. WireIsEnd' /\ InStep'
  BY <1>2, <1>8 DEF WireIsEnd, InStep
<1> QED BY <1>7, <1>9, <1>10, <1>11 DEF MouseInv

LEMMA ScreenKeeps ==
  ASSUME MouseInv, set_screen
  PROVE  MouseInv'
<1>1. /\ screen' \in ScreenSizes
      /\ UNCHANGED <<mouse_state, mouse_initialized, pointer, wire, sent, port, latched,
                     intact, lost>>
  BY MouseAssumption DEF set_screen
<1>2. MouseTypes'
  BY <1>1 DEF MouseInv, MouseTypes
<1>3. MouseTypeOK' /\ PhaseIsRight'
  BY <1>1 DEF MouseInv, MouseTypeOK, PhaseIsRight
<1>4. WireIsEnd' /\ InStep'
  BY <1>1 DEF MouseInv, WireIsEnd, InStep, Taken, Clean, IsPacket
<1> QED BY <1>2, <1>3, <1>4 DEF MouseInv

LEMMA UninitKeeps ==
  ASSUME MouseInv, mouse_uninit
  PROVE  MouseInv'
<1>1. /\ wire' = <<>> /\ sent' = <<>> /\ latched' = FALSE
      /\ UNCHANGED <<screen, port, intact, lost>>
  BY DEF mouse_uninit
<1>2. CASE mouse_state.ready
  <2>1. /\ mouse_state' = NoState /\ mouse_initialized' = 0
        /\ pointer' = [x |-> 0, y |-> 0, b |-> 0, w |-> 0]
    BY <1>2 DEF mouse_uninit
  <2>2. NoState \in Records
    <3>1. <<0, 0, 0, 0>> \in [1..4 -> Int]
      OBVIOUS
    <3> QED BY <3>1 DEF NoState, Records
  <2>3. MouseTypes'
    <3>1. [x |-> 0, y |-> 0, b |-> 0, w |-> 0] \in [x : Int, y : Int, b : Int, w : Int]
      OBVIOUS
    <3>2. <<>> \in Seq(Int) /\ FALSE \in BOOLEAN
      BY EmptySeq
    <3>3. screen' \in ScreenSizes'
      BY <1>1 DEF MouseInv, MouseTypes, ScreenSizes
    <3>4. port' \in Int /\ intact' \in {-1, 0, 1} /\ lost' \in Int
      BY <1>1 DEF MouseInv, MouseTypes
    <3> QED BY <1>1, <2>1, <2>2, <3>1, <3>2, <3>3, <3>4 DEF MouseTypes, Records, ScreenSizes
  <2>4. MouseTypeOK' /\ PhaseIsRight'
    BY <2>1 DEF MouseTypeOK, PhaseIsRight, NoState
  <2>5. ~mouse_state'.ready /\ mouse_state'.phase = 0
    BY <2>1 DEF NoState
  <2>6. WireIsEnd' /\ InStep'
    BY <1>1, <2>5 DEF WireIsEnd, InStep
  <2> QED BY <2>3, <2>4, <2>6 DEF MouseInv
<1>3. CASE ~mouse_state.ready
  <2>1. UNCHANGED <<mouse_state, mouse_initialized, pointer>>
    BY <1>3 DEF mouse_uninit
  <2>2. MouseTypes'
    BY <1>1, <2>1, EmptySeq DEF MouseInv, MouseTypes
  <2>3. MouseTypeOK' /\ PhaseIsRight'
    BY <1>1, <2>1 DEF MouseInv, MouseTypeOK, PhaseIsRight
  <2>4. wire = <<>>
    BY <1>3 DEF MouseInv, WireIsEnd
  <2>5. WireIsEnd' /\ InStep'
    BY <1>1, <2>1, <2>4 DEF MouseInv, WireIsEnd, InStep
  <2> QED BY <2>2, <2>3, <2>5 DEF MouseInv
<1> QED BY <1>2, <1>3

-----------------------------------------------------------------------------
\* Whatever is lost or read twice, the driver and the device keep MouseInv: it is
\* the inductive invariant under MouseTypeOK and PacketsMoveAsSent.
THEOREM MouseInvariant == MouseSpec => []MouseInv
<1>1. MouseInit => MouseInv
  BY MouseStarts
<1>2. MouseInv /\ [MouseNext]_mouseVars => MouseInv'
  <2> SUFFICES ASSUME MouseInv, [MouseNext]_mouseVars PROVE MouseInv'
    OBVIOUS
  <2>1. CASE DeviceMoves
    BY <2>1, MovesKeeps
  <2>2. CASE LoseByte
    BY <2>2, LoseKeeps
  <2>3. CASE LatchedInterrupt
    BY <2>3, LatchedKeeps
  <2>4. CASE mouse_handler
    BY <2>4, HandlerKeeps
  <2>5. CASE init_mouse
    BY <2>5, StartsAgain
  <2>6. CASE set_screen
    BY <2>6, ScreenKeeps
  <2>7. CASE mouse_uninit
    BY <2>7, UninitKeeps
  <2>8. CASE UNCHANGED mouseVars
    <3>1. UNCHANGED <<mouse_state, mouse_initialized, pointer, screen, wire, sent, port,
                      latched, intact, lost>>
      BY <2>8 DEF mouseVars
    <3>2. MouseTypes' /\ MouseTypeOK' /\ PhaseIsRight'
      BY <3>1 DEF MouseInv, MouseTypes, MouseTypeOK, PhaseIsRight, Records, ScreenSizes
    <3>3. WireIsEnd' /\ InStep'
      BY <3>1 DEF MouseInv, WireIsEnd, InStep, Taken, Clean, IsPacket, Bit
    <3> QED BY <3>2, <3>3 DEF MouseInv
  <2> QED BY <2>1, <2>2, <2>3, <2>4, <2>5, <2>6, <2>7, <2>8 DEF MouseNext
<1> QED BY <1>1, <1>2, PTL DEF MouseSpec

\* A step of the handler with the last byte of a packet that was not disturbed.
LEMMA LastByteMoves ==
  ASSUME MouseInv, Len(wire) = 1, intact = 1, mouse_handler
  PROVE  /\ pointer'.x = Meant(pointer).x /\ pointer'.y = Meant(pointer).y
         /\ pointer'.b = sent[1] % 8
<1> DEFINE n == Len(sent)
           data == Head(wire)
           h == mouse_input_handler(data)
           s == WithByte(data)
           Points == [x : Int, y : Int, b : Int, w : Int]
<1>1. MouseTypes /\ MouseTypeOK /\ PhaseIsRight /\ NextIs /\ wire # <<>> /\ Handled(data)
  <2>1. wire # <<>> /\ Handled(data)
    BY DEF mouse_handler
  <2> QED BY <2>1, NextByte DEF MouseInv
<1>2. n \in {3, 4} /\ Taken + 1 = n /\ mouse_state.ready /\ data \in Int
  BY <1>1 DEF NextIs
<1>3. h = Decoded(s) /\ \A i \in 1..n : s.packet[i] = sent[i]
  BY <1>1, <1>2, PhaseStep
<1>4. s.packet[1] = sent[1] /\ s.packet[2] = sent[2] /\ s.packet[3] = sent[3]
  <2>1. 1 \in 1..n /\ 2 \in 1..n /\ 3 \in 1..n
    BY <1>2
  <2> QED BY <1>3, <2>1
<1>5. PICK pressed \in Buttons, dx, dy \in Deltas :
        /\ sent[1] = 8 + pressed + (IF dx < 0 THEN 16 ELSE 0) + (IF dy < 0 THEN 32 ELSE 0)
        /\ sent[2] = dx % 256 /\ sent[3] = dy % 256
  BY <1>1 DEF MouseInv, WireIsEnd, IsPacket
<1>6. pressed \in 0..7 /\ dx \in -256..255 /\ dy \in -256..255
  BY MouseAssumption
<1>7. /\ ~Bit(sent[1], 64) /\ ~Bit(sent[1], 128)
      /\ (Bit(sent[1], 16) <=> dx < 0) /\ (Bit(sent[1], 32) <=> dy < 0) /\ sent[1] % 8 = pressed
  <2>1. dx \in Int /\ dy \in Int
    BY <1>6
  <2> QED BY <1>5, <1>6, <2>1, FirstByte
<1>8. h.dx = EightBits(dx) /\ h.dy = EightBits(dy) /\ h.buttons = sent[1] % 8
  <2>1. s \in Records
    BY <1>1, <1>2, StoredIs DEF MouseTypes
  <2>2. /\ h.dx = SignedChar(IF Bit(sent[1], 64) THEN 0 ELSE sent[2])
        /\ h.dy = SignedChar(IF Bit(sent[1], 128) THEN 0 ELSE sent[3])
        /\ h.buttons = sent[1] % 8
    BY <1>3, <1>4, <2>1, DecodedIs
  <2>3. SignedChar(dx % 256) = EightBits(dx) /\ SignedChar(dy % 256) = EightBits(dy)
    BY <1>6, SignedIs
  <2> QED BY <1>5, <1>7, <2>2, <2>3
<1> DEFINE moved == [x |-> pointer.x + h.dx, y |-> pointer.y - h.dy,
                     b |-> h.buttons, w |-> pointer.w + h.dw]
           mx == EightBits(dx)
           my == EightBits(dy)
           meant == [pointer EXCEPT !.x = @ + mx, !.y = @ - my]
<1>9. moved \in Points /\ pointer' = Clamped(moved)
  <2>1. pointer' = Clamped(moved)
    BY <1>1, <1>2, HandledIs
  <2>2. h \in Records
    BY <1>1, <1>2, HandlerIs
  <2>3. h.dx \in Int /\ h.dy \in Int /\ h.dw \in Int /\ h.buttons \in Int
    BY <2>2 DEF Records
  <2>4. pointer.x \in Int /\ pointer.y \in Int /\ pointer.w \in Int
    BY <1>1 DEF MouseTypes
  <2> HIDE DEF h
  <2>5. moved \in Points
    BY <2>3, <2>4
  <2> QED BY <2>1, <2>5 DEF h
<1>10. pointer \in Points
  BY <1>1 DEF MouseTypes
<1>11. meant \in Points /\ meant.x = pointer.x + mx /\ meant.y = pointer.y - my
  <2> DEFINE x == pointer.x + mx
             y == pointer.y - my
             first == [pointer EXCEPT !.x = x]
  <2>1. x \in Int /\ y \in Int
    BY <1>6, <1>10, SignedIs
  <2> HIDE DEF x, y
  <2>2. first \in Points /\ first.x = x /\ first.y = pointer.y
    BY <1>10, <2>1
  <2>3. meant = [first EXCEPT !.y = y]
    BY <1>10 DEF x, y
  <2> HIDE DEF first, meant
  <2>4. meant \in Points /\ meant.x = x /\ meant.y = y
    BY <2>1, <2>2, <2>3
  <2> QED BY <2>4 DEF x, y
<1>12. moved.x = meant.x /\ moved.y = meant.y /\ moved.b = h.buttons
  BY <1>8, <1>11
<1>13. Meant(pointer) = Clamped(meant)
  <2> DEFINE by2 == EightBits(Said(2, 16))
             by3 == EightBits(Said(3, 32))
  <2>1. by2 = mx
    BY <1>5, <1>6, <1>7, SignedIs DEF Said
  <2>2. by3 = my
    BY <1>5, <1>6, <1>7, SignedIs DEF Said
  <2>3. Meant(pointer) = Clamped([pointer EXCEPT !.x = @ + by2, !.y = @ - by3])
    BY DEF Meant
  <2> HIDE DEF by2, by3
  <2> QED BY <2>1, <2>2, <2>3
<1> HIDE DEF moved, meant, h
<1>14. screen \in ScreenSizes
  BY <1>1 DEF MouseTypes
<1>15. /\ Clamped(moved).x = Clamped(meant).x /\ Clamped(moved).y = Clamped(meant).y
       /\ Clamped(moved).b = moved.b
  BY <1>9, <1>11, <1>12, <1>14, ClampedIs
<1> QED BY <1>8, <1>9, <1>12, <1>13, <1>15

\* Every packet that was not disturbed moves the pointer by what it says, for every
\* screen and every movement of nine bits, but by 256 less, the other way, if it says
\* more than eight bits hold; and so does the next one after a disturbed packet none
\* of whose later bytes looks like a first one.
THEOREM PacketsMove == MouseSpec => PacketsMoveAsSent
<1>1. MouseInv /\ [MouseNext]_mouseVars =>
        [Len(wire) = 1 /\ intact = 1 /\ mouse_handler =>
           /\ pointer'.x = Meant(pointer).x /\ pointer'.y = Meant(pointer).y
           /\ pointer'.b = sent[1] % 8]_mouseVars
  BY LastByteMoves
<1> QED BY <1>1, MouseInvariant, PTL DEF MouseSpec, PacketsMoveAsSent

-----------------------------------------------------------------------------
(* The console: ConsoleIsSound, for every screen, text and sequence.       *)

Glyphs == Printable \cup {Blank}

\* The cursor and what it was, the screen, and the paper below it, which is empty.
ScreenInv ==
  /\ cell \in Nat /\ cell < 32768
  /\ saved \in [x : 0..(TEXT_COLS - 1), y : Nat]
  /\ saved.y * TEXT_COLS + saved.x < 32768
  /\ vga_memory \in [0..(Cells - 1) -> Glyphs]
  /\ paper \in [0..(Cells + MaxScrolls * TEXT_COLS - 1) -> Glyphs]
  /\ top \in 0..MaxScrolls
  /\ \A i \in 0..(Cells + MaxScrolls * TEXT_COLS - 1) :
       i >= top * TEXT_COLS + Cells => paper[i] = Blank
  /\ ScreenShowsPaper

\* tprintl shows text unless the last sequence was one it does not act on; within a
\* sequence it shows nothing.  tprint always does.
ParserInv ==
  /\ at \in Places /\ print_status \in {0, 1} /\ printk \in BOOLEAN /\ deaf \in BOOLEAN
  /\ number_code \in Nat /\ csi_code \in Nat
  /\ printk \/ at = "idle" => print_status = 0
  /\ at \in {"text", "skip"} => (print_status = 0 <=> ~deaf)
  /\ at \notin {"idle", "text", "skip"} => print_status = IF printk THEN 0 ELSE 1

ConInv == ScreenInv /\ ParserInv

-----------------------------------------------------------------------------
(* Cells, rows and columns.                                                *)

LEMMA DividedBy ==
  ASSUME NEW x \in Nat, NEW y \in Nat, y > 0
  PROVE  x \div y \in Nat /\ x % y \in 0..(y - 1) /\ x = y * (x \div y) + (x % y)
OBVIOUS

\* Only one quotient and one remainder make up a number.
LEMMA OneQuotient ==
  ASSUME NEW k \in Nat, k > 0, NEW q \in Int, NEW r \in 0..(k - 1)
  PROVE  (k * q + r) \div k = q /\ (k * q + r) % k = r
OBVIOUS

LEMMA Rows ==
  ASSUME NEW x \in Nat, NEW y \in Nat, NEW c \in Nat
  PROVE  /\ c * x \in Nat /\ c * x = x * c /\ c * (x + 1) = c * x + c
         /\ (x + y) * c = x * c + y * c /\ (x <= y => x * c <= y * c)
OBVIOUS

\* The screen's measures.
LEMMA Measures ==
  /\ TEXT_COLS \in Nat /\ TEXT_COLS > 0 /\ TEXT_COLS <= 127 /\ TEXT_ROWS \in Nat /\ TEXT_ROWS > 0
  /\ Cells \in Nat /\ Cells = TEXT_ROWS * TEXT_COLS /\ Cells >= TEXT_COLS
  /\ Cells + TEXT_COLS < 32768 /\ Short = 65536 /\ Short \div 2 = 32768
<1>1. TEXT_COLS \in Nat /\ TEXT_COLS > 0 /\ TEXT_COLS <= 127 /\ TEXT_ROWS \in Nat /\ TEXT_ROWS > 0
  BY ScreenAssumption
<1>2. Short = 65536 /\ Short \div 2 = 32768
  BY DEF Short
<1>3. TEXT_COLS * TEXT_ROWS \in Nat /\ TEXT_COLS * TEXT_ROWS = TEXT_ROWS * TEXT_COLS
      /\ TEXT_COLS * (TEXT_ROWS + 1) = TEXT_COLS * TEXT_ROWS + TEXT_COLS
      /\ 1 * TEXT_COLS <= TEXT_ROWS * TEXT_COLS
  BY <1>1, Rows
<1>4. 1 * TEXT_COLS = TEXT_COLS
  BY <1>1
<1> QED BY <1>1, <1>2, <1>3, <1>4, ScreenAssumption DEF Cells

\* A column and a row make up a cell, and only those do.
LEMMA RowAndColumn ==
  ASSUME NEW x \in 0..(TEXT_COLS - 1), NEW y \in Nat
  PROVE  LET c == y * TEXT_COLS + x
         IN /\ c \in Nat /\ c \div TEXT_COLS = y /\ c % TEXT_COLS = x
            /\ (c < Cells <=> y < TEXT_ROWS)
<1> DEFINE w == TEXT_COLS
           h == TEXT_ROWS
           c == y * w + x
<1>1. w \in Nat /\ w > 0 /\ h \in Nat /\ Cells = h * w
  BY Measures
<1> HIDE DEF w, h
<1>2. w * y \in Nat /\ w * y = y * w /\ y * w \in Nat
  BY <1>1, Rows
<1>3. x \in 0..(w - 1)
  BY DEF w
<1>4. c \in Nat /\ c = w * y + x
  BY <1>1, <1>2, <1>3
<1>5. c \div w = y /\ c % w = x
  BY <1>1, <1>3, <1>4, OneQuotient
<1>6. ASSUME y < h PROVE c < Cells
  <2>1. y + 1 \in Nat /\ y + 1 <= h
    BY <1>1, <1>6
  <2>2. (y + 1) * w <= h * w /\ (y + 1) * w = y * w + 1 * w
    BY <1>1, <2>1, Rows
  <2>3. h * w \in Nat /\ 1 * w = w
    BY <1>1, Rows
  <2> QED BY <1>1, <1>2, <1>3, <2>2, <2>3
<1>7. ASSUME ~(y < h) PROVE ~(c < Cells)
  <2>1. h * w <= y * w /\ h * w \in Nat
    BY <1>1, <1>7, Rows
  <2> QED BY <1>1, <1>2, <1>3, <2>1
<1> QED BY <1>4, <1>5, <1>6, <1>7 DEF w, h

\* Where the cursor is.
LEMMA Whereabouts ==
  ASSUME cell \in Nat /\ cell < 32768
  PROVE  /\ getcursor = 2 * cell
         /\ wherex \in 0..(TEXT_COLS - 1) /\ wherey \in Nat
         /\ cell = wherey * TEXT_COLS + wherex
         /\ (OnScreen(cell) <=> wherey < TEXT_ROWS)
         /\ (OnScreen(cell) <=> getcursor < 2 * Cells)
<1> DEFINE w == TEXT_COLS
           q == cell \div w
           r == cell % w
           d == 2 * w
<1>1. w \in Nat /\ w > 0 /\ Cells \in Nat
  BY Measures
<1>2. cell \in Nat /\ cell < 32768
  BY Measures
<1>3. getcursor = 2 * cell
  <2>1. getcursor = (2 * cell) % 65536
    BY DEF getcursor, Short
  <2>2. \A c \in Nat : c < 32768 => (2 * c) % 65536 = 2 * c
    OBVIOUS
  <2> QED BY <1>2, <2>1, <2>2
<1> HIDE DEF w
<1>4. q \in Nat /\ r \in 0..(w - 1) /\ cell = w * q + r
  BY <1>1, <1>2, DividedBy
<1> HIDE DEF q, r
<1>5. d \in Nat /\ d > 0 /\ 2 * r \in 0..(d - 1)
  BY <1>1, <1>4
<1>6. 2 * cell = d * q + 2 * r
  <2>1. w * q \in Nat /\ d * q = 2 * (w * q)
    BY <1>1, <1>4
  <2> QED BY <1>4, <2>1
<1> HIDE DEF d
<1>7. (2 * cell) \div d = q /\ (2 * cell) % d = 2 * r
  <2> DEFINE s == 2 * r
             twice == 2 * cell
  <2>1. s \in 0..(d - 1) /\ twice = d * q + s
    BY <1>5, <1>6
  <2> HIDE DEF s, twice
  <2>2. twice \div d = q /\ twice % d = s
    <3>1. d \in Nat /\ d > 0 /\ q \in Int /\ s \in 0..(d - 1) /\ twice = d * q + s
      BY <1>4, <1>5, <2>1
    <3> QED BY <3>1, OneQuotient
  <2> QED BY <2>2 DEF s, twice
<1>8. (2 * r) \div 2 = r
  BY <1>1, <1>4
<1>9. wherex = r /\ wherey = q
  BY <1>3, <1>7, <1>8 DEF wherex, wherey, d, w
<1>10. w * q = q * w
  BY <1>1, <1>4
<1>11. OnScreen(cell) <=> getcursor < 2 * Cells
  BY <1>1, <1>2, <1>3 DEF OnScreen
<1>12. r \in 0..(TEXT_COLS - 1) /\ cell = q * TEXT_COLS + r
  BY <1>4, <1>10 DEF w
<1>13. cell < Cells <=> q < TEXT_ROWS
  BY <1>4, <1>12, RowAndColumn
<1> QED BY <1>3, <1>4, <1>9, <1>11, <1>12, <1>13 DEF OnScreen

\* Where gotoxy goes.
LEMMA Goes ==
  ASSUME NEW x \in Nat, NEW y \in Nat, gotoxy(x, y), y * TEXT_COLS + x < 32768
  PROVE  /\ cell' = y * TEXT_COLS + x /\ cell' \in Nat /\ cell' < 32768
         /\ x < TEXT_COLS => (OnScreen(cell') <=> y < TEXT_ROWS)
<1> DEFINE c == y * TEXT_COLS + x
<1>1. c \in Nat
  <2>1. TEXT_COLS \in Nat /\ y * TEXT_COLS \in Nat
    BY Measures, Rows
  <2> QED BY <2>1
<1>2. cell' = c % Short /\ c < 32768 /\ Short = 65536 /\ Short \div 2 - 1 = 32767
  BY Measures DEF gotoxy, Short
<1>3. cell' = c /\ c \in Nat /\ c < 32768
  <2> HIDE DEF c
  <2>1. c % 65536 = c
    BY <1>1, <1>2
  <2> QED BY <1>1, <1>2, <2>1
<1>4. ASSUME x < TEXT_COLS PROVE c < Cells <=> y < TEXT_ROWS
  <2>1. x \in 0..(TEXT_COLS - 1)
    BY <1>4, Measures
  <2> QED BY <2>1, RowAndColumn
<1>5. x < TEXT_COLS => (OnScreen(cell') <=> y < TEXT_ROWS)
  BY <1>3, <1>4 DEF OnScreen
<1> HIDE DEF c
<1>6. cell' \in Nat /\ cell' < 32768
  BY <1>3
<1> QED BY <1>3, <1>5, <1>6 DEF c

-----------------------------------------------------------------------------
(* What the calls do to the screen and the paper.                          *)

LEMMA PaperRows ==
  ASSUME NEW t \in Nat
  PROVE  t * TEXT_COLS \in Nat /\ (t + 1) * TEXT_COLS = t * TEXT_COLS + TEXT_COLS
<1>1. TEXT_COLS \in Nat /\ 1 * TEXT_COLS = TEXT_COLS
  BY Measures
<1>2. TEXT_COLS * t \in Nat /\ TEXT_COLS * t = t * TEXT_COLS
      /\ (t + 1) * TEXT_COLS = t * TEXT_COLS + 1 * TEXT_COLS
  BY <1>1, Rows
<1> QED BY <1>1, <1>2

\* The screen lies on the paper.
LEMMA OnThePaper ==
  ASSUME NEW t \in 0..MaxScrolls
  PROVE  /\ t * TEXT_COLS \in Nat /\ MaxScrolls * TEXT_COLS \in Nat
         /\ t * TEXT_COLS <= MaxScrolls * TEXT_COLS
<1>1. t \in Nat /\ MaxScrolls \in Nat /\ t <= MaxScrolls /\ TEXT_COLS \in Nat
  BY ScreenAssumption, Measures
<1> QED BY <1>1, PaperRows, Rows

LEMMA ScreenStays ==
  ASSUME ScreenInv, UNCHANGED <<cursorVars, paperVars>>
  PROVE  ScreenInv'
<1>1. UNCHANGED <<cell, saved, vga_memory, paper, top, place>>
  BY DEF cursorVars, paperVars
<1> QED BY <1>1 DEF ScreenInv, ScreenShowsPaper, OnScreen, Cells

\* The cursor alone moves.
LEMMA MoveKeeps ==
  ASSUME ScreenInv, cell' \in Nat /\ cell' < 32768, PaperFollows, UNCHANGED <<saved, vga_memory>>
  PROVE  ScreenInv'
<1>1. UNCHANGED <<saved, vga_memory, paper, top>>
  BY DEF PaperFollows
<1>2. place' = IF OnScreen(cell') THEN top * TEXT_COLS + cell' ELSE place
  BY DEF PaperFollows
<1>3. ScreenShowsPaper'
  BY <1>1, <1>2 DEF ScreenInv, ScreenShowsPaper, OnScreen, Cells
<1> QED BY <1>1, <1>3 DEF ScreenInv, Cells

LEMMA SaveKeeps ==
  ASSUME ScreenInv, SaveCursor
  PROVE  ScreenInv'
<1>1. UNCHANGED <<cell, vga_memory, paper, top, place>> /\ saved' = [x |-> wherex, y |-> wherey]
  BY DEF SaveCursor, paperVars
<1>2. /\ wherex \in 0..(TEXT_COLS - 1) /\ wherey \in Nat
      /\ wherey * TEXT_COLS + wherex = cell /\ cell < 32768
  <2>1. cell \in Nat /\ cell < 32768
    BY DEF ScreenInv
  <2>2. cell < 32768
    BY <2>1, Measures
  <2>3. /\ wherex \in 0..(TEXT_COLS - 1) /\ wherey \in Nat
        /\ cell = wherey * TEXT_COLS + wherex
    BY <2>1, Whereabouts
  <2> QED BY <2>2, <2>3
<1> HIDE DEF wherex, wherey
<1>3. /\ saved' \in [x : 0..(TEXT_COLS - 1), y : Nat]
      /\ saved'.y * TEXT_COLS + saved'.x < 32768
  <2>1. saved'.x = wherex /\ saved'.y = wherey /\ saved' \in [x : 0..(TEXT_COLS - 1), y : Nat]
    BY <1>1, <1>2
  <2> QED BY <1>2, <2>1
<1> QED BY <1>1, <1>3 DEF ScreenInv, ScreenShowsPaper, OnScreen, Cells

LEMMA RestoreKeeps ==
  ASSUME ScreenInv, RestoreCursor
  PROVE  /\ ScreenInv'
         /\ gotoxy(saved.x, saved.y) /\ (~OnScreen(cell') => saved.y >= TEXT_ROWS)
<1>1. gotoxy(saved.x, saved.y) /\ PaperFollows /\ UNCHANGED <<saved, vga_memory>>
  BY DEF RestoreCursor
<1>2. saved.x \in 0..(TEXT_COLS - 1) /\ saved.y \in Nat
      /\ saved.y * TEXT_COLS + saved.x < 32768
  BY DEF ScreenInv
<1>3. saved.x \in Nat /\ saved.x < TEXT_COLS
  BY <1>2, Measures
<1>4. cell' \in Nat /\ cell' < 32768 /\ (OnScreen(cell') <=> saved.y < TEXT_ROWS)
  BY <1>1, <1>2, <1>3, Goes
<1>5. ScreenInv'
  BY <1>1, <1>4, MoveKeeps
<1> QED BY <1>1, <1>2, <1>4, <1>5, Measures

\* A move to a place on the screen.
LEMMA GoKeeps ==
  ASSUME ScreenInv, NEW x \in 0..(TEXT_COLS - 1), NEW y \in 0..(TEXT_ROWS - 1), gotoxy(x, y)
  PROVE  cell' \in Nat /\ cell' < 32768 /\ OnScreen(cell')
<1>1. x \in Nat /\ y \in Nat /\ x < TEXT_COLS /\ y < TEXT_ROWS
  BY Measures
<1>2. y * TEXT_COLS + x < Cells
  BY <1>1, RowAndColumn
<1>3. y * TEXT_COLS + x < 32768
  <2>1. y * TEXT_COLS + x \in Nat /\ Cells \in Nat /\ Cells < 32768 /\ Short \div 2 = 32768
    BY <1>1, Measures, RowAndColumn
  <2> DEFINE c == y * TEXT_COLS + x
  <2> HIDE DEF c
  <2>2. c \in Nat /\ c < Cells
    BY <1>2, <2>1 DEF c
  <2>3. c < 32768
    BY <2>1, <2>2
  <2> QED BY <2>3 DEF c
<1> QED BY <1>1, <1>3, Goes

\* The moves A to G.
LEMMA CursorMoves ==
  ASSUME ScreenInv, NEW final \in Moves, NEW n \in Nat, get_csi_cursor(final, n)
  PROVE  cell' \in Nat /\ cell' < 32768 /\ OnScreen(cell')
<1> DEFINE k == ansi_param(n)
           y == CASE final \in {"A", "F"} -> wherey - k
                  [] final \in {"B", "E"} -> wherey + k
                  [] OTHER -> wherey
           x == CASE final = "C" -> wherex + k
                  [] final = "D" -> wherex - k
                  [] final \in {"E", "F"} -> 0
                  [] final = "G" -> k - 1
                  [] OTHER -> wherex
<1>1. wherex \in Int /\ wherey \in Int
  <2>1. cell \in Nat /\ cell < 32768
    BY DEF ScreenInv
  <2>2. wherex \in 0..(TEXT_COLS - 1) /\ wherey \in Nat
    BY <2>1, Whereabouts
  <2> HIDE DEF wherex, wherey
  <2> QED BY <2>2
<1>2. k \in Int
  BY DEF ansi_param
<1>3. wherey - k \in Int /\ wherey + k \in Int /\ wherex + k \in Int /\ wherex - k \in Int
      /\ k - 1 \in Int /\ 0 \in Int
  <2> HIDE DEF k, wherex, wherey
  <2> QED BY <1>1, <1>2
<1>4. gotoxy(ansi_clamp_x(x), ansi_clamp_y(y))
  BY Zenon DEF get_csi_cursor
<1> HIDE DEF k, wherex, wherey
<1>5. y \in Int
  BY <1>1, <1>3
<1>6. x \in Int
  <2>1. CASE final \in {"A", "B"}
    BY <1>1, <2>1
  <2>2. CASE final \in {"C", "D", "E", "F", "G"}
    BY <1>3, <2>2
  <2> QED BY <2>1, <2>2 DEF Moves
<1> HIDE DEF x, y
<1>7. ansi_clamp_x(x) \in 0..(TEXT_COLS - 1)
  BY <1>6, Measures DEF ansi_clamp_x, AtMost
<1>8. ansi_clamp_y(y) \in 0..(TEXT_ROWS - 1)
  BY <1>5, Measures DEF ansi_clamp_y, AtMost
<1> QED BY <1>4, <1>7, <1>8, GoKeeps

\* An absolute position is outside the screen only if a parameter is.
LEMMA CursorJumps ==
  ASSUME ScreenInv, NEW sgr \in Nat, NEW csi \in Nat, get_sgr_cursor(sgr, csi)
  PROVE  /\ cell' \in Nat /\ cell' < 32768
         /\ cell' # cell /\ ~OnScreen(cell') => sgr >= TEXT_COLS \/ csi >= TEXT_ROWS
<1> DEFINE x == sgr % 256
           y == csi % 256
<1>1. x \in 0..255 /\ y \in 0..255 /\ x <= sgr /\ y <= csi
  OBVIOUS
<1>2. CASE x # 0
  <2>1. gotoxy(x, y)
    BY <1>2 DEF get_sgr_cursor
  <2> HIDE DEF x, y
  <2>2. x \in Nat /\ y \in Nat /\ y <= 255 /\ x <= 255
    BY <1>1
  <2>3. y * TEXT_COLS <= 255 * TEXT_COLS /\ y * TEXT_COLS \in Nat
    <3>1. TEXT_COLS * y \in Nat /\ TEXT_COLS * y = y * TEXT_COLS
          /\ y * TEXT_COLS <= 255 * TEXT_COLS
      BY <2>2, Measures, Rows
    <3> QED BY <3>1
  <2>4. y * TEXT_COLS + x < 32768
    <3> DEFINE p == y * TEXT_COLS
    <3>1. p <= 255 * TEXT_COLS /\ p \in Nat
      BY <2>3
    <3> HIDE DEF p
    <3>2. p + x < 32768
      BY <2>2, <3>1, Measures
    <3> QED BY <3>2 DEF p
  <2>5. /\ cell' \in Nat /\ cell' < 32768
        /\ x < TEXT_COLS => (OnScreen(cell') <=> y < TEXT_ROWS)
    BY <2>1, <2>2, <2>4, Goes
  <2> QED BY <1>1, <2>2, <2>5, Measures
<1>3. CASE x = 0
  <2>1. cell' = 0 \/ cell' = cell
    BY <1>3 DEF get_sgr_cursor
  <2>2. cell' \in Nat /\ cell' < 32768
    <3>1. 0 \in Nat /\ 0 < 32768
      OBVIOUS
    <3>2. cell \in Nat /\ cell < 32768
      BY DEF ScreenInv
    <3> QED BY <2>1, <3>1, <3>2
  <2>3. OnScreen(0)
    BY Measures DEF OnScreen
  <2> QED BY <2>1, <2>2, <2>3
<1> QED BY <1>2, <1>3

\* Where the paper is written next, with the cursor on the screen.
LEMMA PlaceIs ==
  ASSUME ScreenInv, OnScreen(cell)
  PROVE  /\ place = top * TEXT_COLS + cell /\ place \div TEXT_COLS = top + wherey
         /\ (place \div TEXT_COLS) * TEXT_COLS = top * TEXT_COLS + wherey * TEXT_COLS
<1> DEFINE w == TEXT_COLS
           x == wherex
           y == wherey
           t == top + y
           p == top * w
           r == y * w
<1>1. w \in Nat /\ x \in 0..(w - 1) /\ y \in Nat /\ cell = r + x /\ top \in Nat
  <2>1. cell \in Nat /\ cell < 32768
    BY DEF ScreenInv
  <2>2. top \in Nat
    BY ScreenAssumption DEF ScreenInv
  <2> QED BY <2>1, <2>2, Measures, Whereabouts
<1>2. place = p + cell
  BY DEF ScreenInv, ScreenShowsPaper
<1> HIDE DEF x, y
<1>3. t \in Nat /\ t * w = p + r
  BY <1>1, Rows
<1>4. p \in Nat /\ r \in Nat
  BY <1>1, PaperRows
<1>5. place = t * w + x
  <2> DEFINE q == t * w
  <2>1. q = p + r
    BY <1>3
  <2> HIDE DEF p, q, r
  <2>2. place = q + x
    BY <1>1, <1>2, <1>4, <2>1
  <2> QED BY <2>2 DEF q
<1> HIDE DEF t
<1>6. place \div w = t
  BY <1>1, <1>3, <1>5, RowAndColumn
<1> QED BY <1>2, <1>3, <1>6 DEF t, y

\* K blanks the cells of the same line on the screen and on the paper.
LEMMA EraseKeeps ==
  ASSUME ScreenInv, NEW mode, get_csi_erase_line(mode)
  PROVE  ScreenInv' /\ cell' = cell
<1> DEFINE w == TEXT_COLS
           erased == {i \in 0..(w - 1) : \/ mode = 0 /\ i >= wherex
                                         \/ mode = 1 /\ i <= wherex
                                         \/ mode = 2}
           Erase(f, first) == [i \in DOMAIN f |-> IF i - first \in erased THEN Blank ELSE f[i]]
           Screen == 0..(Cells - 1)
           Paper == 0..(Cells + MaxScrolls * w - 1)
           row == wherey * w
           line == (place \div w) * w
<1>1. /\ vga_memory' = Erase(vga_memory, row)
      /\ paper' = IF OnScreen(cell) THEN Erase(paper, line) ELSE paper
      /\ UNCHANGED <<cell, saved, top, place>>
  BY DEF get_csi_erase_line
<1>2. /\ vga_memory \in [Screen -> Glyphs] /\ paper \in [Paper -> Glyphs]
      /\ cell \in Nat /\ cell < 32768 /\ top \in 0..MaxScrolls
      /\ \A i \in Paper : i >= top * w + Cells => paper[i] = Blank
      /\ vga_memory = [i \in Screen |-> paper[top * w + i]]
      /\ OnScreen(cell) => place = top * w + cell
  BY DEF ScreenInv, ScreenShowsPaper
<1>3. erased \subseteq 0..(w - 1) /\ Blank \in Glyphs
  BY DEF Glyphs
<1>4. w \in Nat /\ w > 0 /\ Cells \in Nat
  BY Measures
<1>5. /\ wherex \in 0..(w - 1) /\ wherey \in Nat /\ cell = row + wherex
      /\ (OnScreen(cell) <=> wherey < TEXT_ROWS)
  BY <1>2, Whereabouts
<1>6. /\ row \in Nat /\ top * w \in Nat /\ MaxScrolls * w \in Nat
      /\ top * w <= MaxScrolls * w /\ top \in Nat
  <2>1. wherey * w \in Nat
    BY <1>5, PaperRows
  <2>2. top \in Nat
    BY <1>2, ScreenAssumption
  <2> QED BY <1>2, <2>1, <2>2, OnThePaper
<1> HIDE DEF erased
<1>7. vga_memory' \in [Screen -> Glyphs] /\ paper' \in [Paper -> Glyphs]
  BY <1>1, <1>2, <1>3
<1>8. \A i \in Paper : i >= top * w + Cells => paper'[i] = Blank
  BY <1>1, <1>2
<1>9. vga_memory' = [i \in Screen |-> paper'[top * w + i]]
  <2> SUFFICES ASSUME NEW i \in Screen PROVE vga_memory'[i] = paper'[top * w + i]
    BY <1>1, <1>2
  <2> DEFINE j == top * w + i
  <2>1. j \in Paper
    BY <1>4, <1>6
  <2>2. vga_memory[i] = paper[j] /\ vga_memory'[i] = IF i - row \in erased THEN Blank
                                                   ELSE vga_memory[i]
    BY <1>1, <1>2
  <2>3. CASE OnScreen(cell)
    <3>1. line = top * w + row
      BY <2>3, PlaceIs
    <3>2. j - line = i - row
      <4> DEFINE p == top * w
      <4>1. p \in Nat /\ line = p + row /\ j = p + i /\ row \in Nat /\ i \in Int
        BY <1>4, <1>6, <3>1
      <4> HIDE DEF p, row, j, line
      <4> QED BY <4>1
    <3>3. paper'[j] = IF j - line \in erased THEN Blank ELSE paper[j]
      BY <1>1, <1>2, <2>1, <2>3
    <3> HIDE DEF j, line, row
    <3>4. vga_memory'[i] = paper'[j]
      BY <2>2, <3>2, <3>3
    <3> QED BY <3>4 DEF j
  <2>4. CASE ~OnScreen(cell)
    <3>1. row >= Cells
      <4>1. wherey >= TEXT_ROWS /\ Cells = TEXT_ROWS * w /\ TEXT_ROWS \in Nat
        BY <1>5, <2>4, Measures
      <4> HIDE DEF wherey
      <4>2. TEXT_ROWS * w <= wherey * w
        BY <1>4, <1>5, <4>1, Rows
      <4> QED BY <4>1, <4>2
    <3>2. i - row \notin erased
      <4>1. i - row < 0
        <5> HIDE DEF row
        <5> QED BY <1>4, <1>6, <3>1
      <4>2. \A d \in erased : d >= 0
        BY <1>3, <1>4
      <4>3. i - row \in Int
        BY <1>4, <1>6
      <4> DEFINE d == i - row
      <4> HIDE DEF d
      <4>4. d < 0 /\ d \in Int
        BY <4>1, <4>3 DEF d
      <4>5. d \notin erased
        BY <4>2, <4>4
      <4> QED BY <4>5 DEF d
    <3> QED BY <1>1, <2>2, <2>4, <3>2
  <2> QED BY <2>3, <2>4
<1>10. cell' = cell
  BY <1>1
<1>11. ScreenInv'
  <2>1. /\ UNCHANGED <<cell, saved, top, place>> /\ vga_memory' \in [Screen -> Glyphs]
        /\ paper' \in [Paper -> Glyphs]
        /\ \A i \in Paper : i >= top * w + Cells => paper'[i] = Blank
        /\ vga_memory' = [i \in Screen |-> paper'[top * w + i]]
    BY <1>1, <1>7, <1>8, <1>9
  <2> HIDE DEF Paper, Screen
  <2>2. ScreenShowsPaper'
    <3>1. OnScreen(cell') => place' = top' * w + cell'
      BY <1>2, <2>1 DEF OnScreen
    <3>2. vga_memory' = [i \in Screen |-> paper'[top' * w + i]]
      BY <2>1
    <3> QED BY <3>1, <3>2 DEF ScreenShowsPaper, Screen, Cells
  <2>3. \A i \in Paper : i >= top' * w + Cells => paper'[i] = Blank
    BY <2>1
  <2>4. /\ cell' \in Nat /\ cell' < 32768 /\ saved' \in [x : 0..(w - 1), y : Nat]
        /\ saved'.y * w + saved'.x < 32768 /\ top' \in 0..MaxScrolls
    BY <2>1 DEF ScreenInv
  <2> QED BY <2>1, <2>2, <2>3, <2>4 DEF ScreenInv, Screen, Paper, Cells, Glyphs
<1> QED BY <1>10, <1>11

\* 2J blanks the screen, and the paper below its upper edge.
LEMMA ClearKeeps ==
  ASSUME ScreenInv, clearscreen
  PROVE  ScreenInv' /\ cell' = cell
<1> DEFINE w == TEXT_COLS
           Screen == 0..(Cells - 1)
           Paper == 0..(Cells + MaxScrolls * w - 1)
<1>1. /\ vga_memory' = [i \in DOMAIN vga_memory |-> Blank]
      /\ paper' = [i \in DOMAIN paper |-> IF i >= top * w THEN Blank ELSE paper[i]]
      /\ UNCHANGED <<cell, saved, top, place>>
  BY DEF clearscreen
<1>2. /\ vga_memory \in [Screen -> Glyphs] /\ paper \in [Paper -> Glyphs]
      /\ top \in 0..MaxScrolls
      /\ \A i \in Paper : i >= top * w + Cells => paper[i] = Blank
      /\ OnScreen(cell) => place = top * w + cell
  BY DEF ScreenInv, ScreenShowsPaper
<1>3. /\ w \in Nat /\ Cells \in Nat /\ top * w \in Nat /\ MaxScrolls * w \in Nat
      /\ top * w <= MaxScrolls * w
  BY <1>2, Measures, OnThePaper
<1>4. vga_memory' \in [Screen -> Glyphs] /\ paper' \in [Paper -> Glyphs]
  BY <1>1, <1>2 DEF Glyphs
<1>5. \A i \in Paper : i >= top * w + Cells => paper'[i] = Blank
  BY <1>1, <1>2
<1>6. vga_memory' = [i \in Screen |-> paper'[top * w + i]]
  <2> SUFFICES ASSUME NEW i \in Screen PROVE vga_memory'[i] = paper'[top * w + i]
    BY <1>1, <1>2
  <2>1. top * w + i \in Paper /\ top * w + i >= top * w
    BY <1>3
  <2> QED BY <1>1, <1>2, <2>1
<1>7. ScreenInv'
  <2>1. /\ UNCHANGED <<cell, saved, top, place>> /\ vga_memory' \in [Screen -> Glyphs]
        /\ paper' \in [Paper -> Glyphs]
        /\ \A i \in Paper : i >= top * w + Cells => paper'[i] = Blank
        /\ vga_memory' = [i \in Screen |-> paper'[top * w + i]]
    BY <1>1, <1>4, <1>5, <1>6
  <2> HIDE DEF Paper, Screen
  <2>2. ScreenShowsPaper'
    <3>1. OnScreen(cell') => place' = top' * w + cell'
      BY <1>2, <2>1 DEF OnScreen
    <3>2. vga_memory' = [i \in Screen |-> paper'[top' * w + i]]
      BY <2>1
    <3> QED BY <3>1, <3>2 DEF ScreenShowsPaper, Screen, Cells
  <2>3. \A i \in Paper : i >= top' * w + Cells => paper'[i] = Blank
    BY <2>1
  <2>4. /\ cell' \in Nat /\ cell' < 32768 /\ saved' \in [x : 0..(w - 1), y : Nat]
        /\ saved'.y * w + saved'.x < 32768 /\ top' \in 0..MaxScrolls
    BY <2>1 DEF ScreenInv
  <2> QED BY <2>1, <2>2, <2>3, <2>4 DEF ScreenInv, Screen, Paper, Cells, Glyphs
<1> QED BY <1>1, <1>7

\* Where a character leaves the cursor, and the paper: in the cell n, which is on the
\* screen or one row below it; unless a '\b' leaves the upper left corner.
LEMMA AdvancedIs ==
  ASSUME ScreenInv, OnScreen(cell), NEW ch \in Printable \cup Controls
  PROVE  /\ cell = 0 /\ ch = "backspace" => Advanced(ch) = 65534
         /\ ~(cell = 0 /\ ch = "backspace") =>
              \E n \in Nat : /\ Advanced(ch) = 2 * n /\ n < Cells + TEXT_COLS
                            /\ OnPaper(ch) = top * TEXT_COLS + n
<1> DEFINE w == TEXT_COLS
           x == wherex
           y == wherey
           r == y * w
           p == top * w
           g == getcursor
           Ends(n) == /\ n \in Nat /\ Advanced(ch) = 2 * n /\ n < Cells + w
                      /\ OnPaper(ch) = p + n
<1>1. /\ w \in Nat /\ w > 0 /\ x \in 0..(w - 1) /\ y \in Nat /\ cell = r + x /\ g = 2 * cell
      /\ cell \in Nat /\ cell < Cells /\ Cells \in Nat /\ Cells < 32768 /\ y < TEXT_ROWS
      /\ TabStop \in 1..w /\ TEXT_ROWS \in Nat /\ Cells = TEXT_ROWS * w
  <2>1. cell \in Nat /\ cell < 32768
    BY DEF ScreenInv
  <2>2. Cells \in Nat /\ Cells < 32768
    <3>1. Cells \in Nat /\ w \in Nat /\ Cells + w < 32768
      BY Measures
    <3> QED BY <3>1
  <2>3. cell < Cells
    BY DEF OnScreen
  <2>4. g = 2 * cell /\ x \in 0..(w - 1) /\ y \in Nat /\ cell = r + x /\ y < TEXT_ROWS
    BY <2>1, Whereabouts
  <2> QED BY <2>1, <2>2, <2>3, <2>4, Measures, ScreenAssumption
<1>2. /\ place = p + cell /\ place \div w = top + y /\ (place \div w) * w = p + r
  BY PlaceIs
<1>3. /\ p \in Nat /\ r \in Nat /\ (y + 1) * w = r + w /\ r + w <= Cells
      /\ (place \div w + 1) * w = p + r + w
  <2>1. top \in Nat
    BY ScreenAssumption DEF ScreenInv
  <2>2. p \in Nat /\ r \in Nat /\ (y + 1) * w = r + w
    BY <1>1, <2>1, PaperRows
  <2>3. r + w <= Cells
    <3>1. y + 1 \in Nat /\ y + 1 <= TEXT_ROWS
      BY <1>1
    <3>2. (y + 1) * w <= TEXT_ROWS * w
      BY <1>1, <3>1, Rows
    <3> QED BY <1>1, <2>2, <3>2
  <2>4. (place \div w + 1) * w = p + r + w
    <3> DEFINE q == place \div w
    <3>1. q \in Nat /\ q * w = p + r
      BY <1>1, <1>2, <2>1
    <3> HIDE DEF q
    <3>2. (q + 1) * w = q * w + w
      BY <3>1, PaperRows
    <3> QED BY <3>1, <3>2 DEF q
  <2> QED BY <2>2, <2>3, <2>4
<1> HIDE DEF x, y, g
<1>4. CASE ch = "newline"
  <2>1. Advanced(ch) = 2 * ((y + 1) * w + 0) /\ OnPaper(ch) = (place \div w + 1) * w
    BY Zenon, <1>4 DEF Advanced, OnPaper, textoffset, y
  <2> DEFINE n == r + w
  <2>2. Ends(n)
    <3>1. Advanced(ch) = 2 * (n + 0) /\ OnPaper(ch) = p + r + w
      BY <1>3, <2>1
    <3> HIDE DEF p, r
    <3>2. n \in Nat /\ n < Cells + w /\ p + r + w = p + n /\ 2 * (n + 0) = 2 * n
      BY <1>1, <1>3
    <3> QED BY <3>1, <3>2
  <2> QED BY <1>4, <2>2
<1>5. CASE ch = "return"
  <2>1. Advanced(ch) = 2 * (y * w + 0) /\ OnPaper(ch) = (place \div w) * w
    BY Zenon, <1>5 DEF Advanced, OnPaper, textoffset, y
  <2>2. Ends(r)
    <3>1. Advanced(ch) = 2 * (r + 0) /\ OnPaper(ch) = p + r
      BY <1>2, <2>1
    <3> HIDE DEF p, r
    <3>2. r < Cells + w /\ 2 * (r + 0) = 2 * r
      BY <1>1, <1>3
    <3> QED BY <1>3, <3>1, <3>2
  <2> QED BY <1>5, <2>2
<1>6. CASE ch = "tab"
  <2>1. Advanced(ch) = 2 * (y * w + (x + TabStop)) /\ OnPaper(ch) = place + TabStop
    BY Zenon, <1>6 DEF Advanced, OnPaper, textoffset, x, y
  <2> DEFINE n == cell + TabStop
  <2>2. Ends(n)
    <3>1. Advanced(ch) = 2 * (r + (x + TabStop)) /\ OnPaper(ch) = p + cell + TabStop
      BY <1>2, <2>1
    <3> HIDE DEF p, r
    <3>2. n \in Nat /\ n < Cells + w /\ p + cell + TabStop = p + n /\ r + (x + TabStop) = n
      BY <1>1, <1>3
    <3> QED BY <3>1, <3>2
  <2> QED BY <1>6, <2>2
<1>7. CASE ch = "backspace"
  <2>1. /\ Advanced(ch) = (2 * (y * w + (x - 1))) % Short /\ OnPaper(ch) = place - 1
    BY Zenon, <1>7 DEF Advanced, OnPaper, textoffset, x, y
  <2>2. y * w + (x - 1) = cell - 1
    <3> HIDE DEF r
    <3>1. r + (x - 1) = cell - 1
      BY <1>1, <1>3
    <3> QED BY <3>1 DEF r
  <2>3. Advanced(ch) = (2 * (cell - 1)) % 65536
    BY <2>1, <2>2 DEF Short
  <2>4. CASE cell = 0
    <3> DEFINE twice == 2 * (cell - 1)
    <3>1. twice \in Int /\ twice + 65536 = 65534
      BY <2>4
    <3> HIDE DEF twice
    <3>2. Advanced(ch) = 65534
      <4>1. twice % 65536 = 65534
        BY <3>1
      <4> QED BY <2>3, <4>1 DEF twice
    <3> QED BY <1>7, <2>4, <3>2
  <2>5. CASE cell # 0
    <3> DEFINE n == cell - 1
    <3>1. n \in Nat /\ n < Cells + w /\ n < 32768 /\ p + cell - 1 = p + n
      <4> HIDE DEF p
      <4> QED BY <1>1, <1>3, <2>5
    <3>2. Advanced(ch) = (2 * n) % 65536 /\ OnPaper(ch) = p + cell - 1
      <4>1. OnPaper(ch) = place - 1
        BY <2>1
      <4>2. Advanced(ch) = (2 * n) % 65536
        BY <2>3
      <4> HIDE DEF p, n
      <4>3. place - 1 = p + cell - 1
        <5>1. place = p + cell
          BY <1>2
        <5>2. p \in Nat /\ cell \in Nat
          BY <1>1, <1>3
        <5> QED BY <5>1, <5>2
      <4> QED BY <4>1, <4>2, <4>3
    <3> HIDE DEF n
    <3>3. (2 * n) % 65536 = 2 * n
      BY <3>1
    <3>4. Ends(n)
      BY <3>1, <3>2, <3>3
    <3> QED BY <2>5, <3>4
  <2> QED BY <2>4, <2>5
<1>8. CASE ch \notin Controls
  <2>1. Advanced(ch) = g + 2 /\ OnPaper(ch) = place + 1
    BY Zenon, <1>8 DEF Advanced, OnPaper, Controls, g
  <2> DEFINE n == cell + 1
  <2>2. Ends(n)
    <3>1. Advanced(ch) = 2 * cell + 2 /\ OnPaper(ch) = p + cell + 1
      BY <1>1, <1>2, <2>1
    <3> HIDE DEF p
    <3>2. n \in Nat /\ n < Cells + w /\ p + cell + 1 = p + n /\ 2 * cell + 2 = 2 * n
      BY <1>1, <1>3
    <3> QED BY <3>1, <3>2
  <2>3. ch # "backspace"
    BY <1>8 DEF Controls
  <2> QED BY <2>2, <2>3
<1> QED BY <1>4, <1>5, <1>6, <1>7, <1>8 DEF Controls

\* A character goes to the same place of the screen and of the paper, and the screen
\* moves down the paper by the row that scrolls off it.
LEMMA PutKeeps ==
  ASSUME ScreenInv, OnScreen(cell), NEW ch \in Printable \cup Controls, top < MaxScrolls,
         cputchar(ch), WriteOnPaper(ch), saved' = saved
  PROVE  ScreenInv' /\ (OnScreen(cell') \/ (cell = 0 /\ ch = "backspace"))
<1> DEFINE w == TEXT_COLS
           Screen == 0..(Cells - 1)
           Paper == 0..(Cells + MaxScrolls * w - 1)
           shown == IF ch \in Printable THEN [vga_memory EXCEPT ![cell] = ch] ELSE vga_memory
           offset == Advanced(ch)
           corner == cell = 0 /\ ch = "backspace"
           rows == OnPaper(ch) \div w
           p == top * w
           m == MaxScrolls * w
           Scrolled == [i \in Screen |-> IF i + w < Cells THEN shown[i + w] ELSE Blank]
<1>1. /\ vga_memory' = IF offset < 2 * Cells THEN shown ELSE Scrolled
      /\ cell' = (IF offset < 2 * Cells THEN offset ELSE offset - 2 * w) \div 2
  BY DEF cputchar
<1>2. /\ paper' = IF ch \in Printable THEN [paper EXCEPT ![place] = ch] ELSE paper
      /\ place' = IF corner THEN place ELSE OnPaper(ch)
      /\ top' = IF corner THEN top + 1
                ELSE IF rows >= top + TEXT_ROWS THEN rows - TEXT_ROWS + 1 ELSE top
  BY DEF WriteOnPaper
<1>3. /\ vga_memory \in [Screen -> Glyphs] /\ paper \in [Paper -> Glyphs]
      /\ cell \in Nat /\ cell < Cells /\ top \in 0..MaxScrolls
      /\ \A i \in Paper : i >= p + Cells => paper[i] = Blank
      /\ vga_memory = [i \in Screen |-> paper[p + i]] /\ place = p + cell
  BY DEF ScreenInv, ScreenShowsPaper, OnScreen
<1>4. /\ w \in Nat /\ w > 0 /\ Cells \in Nat /\ Cells + w < 32768 /\ TEXT_ROWS \in Nat
      /\ top \in Nat /\ MaxScrolls \in Nat /\ Cells = TEXT_ROWS * w
  BY <1>3, Measures, ScreenAssumption
<1>5. /\ p \in Nat /\ m \in Nat /\ p + w <= m /\ (top + 1) * w = p + w /\ top + 1 \in 0..MaxScrolls
  <2>1. p \in Nat /\ (top + 1) * w = p + w
    BY <1>4, PaperRows
  <2>2. top + 1 \in 0..MaxScrolls
    <3>1. top \in Nat /\ MaxScrolls \in Nat /\ top < MaxScrolls
      BY <1>4
    <3> HIDE DEF w, Screen, Paper, shown, offset, corner, rows, p, m, Scrolled
    <3> QED BY <3>1
  <2>3. (top + 1) * w <= m /\ m \in Nat
    BY <2>2, OnThePaper
  <2> QED BY <2>1, <2>2, <2>3
<1>6. Printable \subseteq Glyphs /\ Blank \in Glyphs /\ (ch \in Printable => ch # "backspace")
  BY ScreenAssumption DEF Glyphs, Controls
<1> HIDE DEF offset, rows, p, m
<1>7. place \in Paper /\ place < p + Cells /\ place \in Nat
  <2>1. place \in 0..(Cells + m - 1) /\ place < p + Cells
    <3>1. place = p + cell /\ cell \in Nat /\ cell < Cells
      BY <1>3
    <3>2. p \in Nat /\ m \in Nat /\ p + w <= m /\ w \in Nat /\ Cells \in Nat
      BY <1>4, <1>5
    <3> HIDE DEF Paper
    <3> QED BY <3>1, <3>2
  <2>2. place \in Nat
    BY <1>3, <1>5
  <2> QED BY <2>1, <2>2 DEF m
<1>8. shown \in [Screen -> Glyphs] /\ paper' \in [Paper -> Glyphs]
  BY <1>2, <1>3, <1>6
<1>9. \A i \in Paper : i >= p + Cells => paper'[i] = Blank
  <2> SUFFICES ASSUME NEW i \in Paper, i >= p + Cells PROVE paper'[i] = Blank
    OBVIOUS
  <2>1. i # place
    <3>1. p + Cells \in Nat
      BY <1>4, <1>5
    <3> QED BY <1>7, <3>1
  <2> QED BY <1>2, <1>3, <2>1
<1>10. ASSUME NEW i \in Screen
       PROVE  p + i \in Paper /\ shown[i] = paper'[p + i]
  <2>1. p + i \in Paper /\ i \in Nat
    BY <1>4, <1>5 DEF m
  <2>2. vga_memory[i] = paper[p + i]
    BY <1>3
  <2>3. cell \in Screen
    BY <1>3, <1>4
  <2>4. i = cell <=> p + i = place
    BY <1>3, <1>5, <2>1
  <2> QED BY <1>2, <1>3, <2>1, <2>2, <2>3, <2>4
<1> HIDE DEF shown
\* The screen one row further down.
<1>11. Scrolled \in [Screen -> Glyphs] /\ Scrolled = [i \in Screen |-> paper'[(p + w) + i]]
  <2>1. ASSUME NEW i \in Screen
        PROVE  Scrolled[i] = paper'[(p + w) + i] /\ Scrolled[i] \in Glyphs
    <3>1. (p + w) + i \in Paper /\ i \in Nat
      BY <1>4, <1>5 DEF m
    <3>2. CASE i + w < Cells
      <4>1. i + w \in Screen /\ p + (i + w) = (p + w) + i
        BY <1>4, <1>5, <3>1, <3>2
      <4>2. shown[i + w] = paper'[p + (i + w)]
        BY <1>10, <4>1
      <4>3. Scrolled[i] = shown[i + w] /\ shown[i + w] \in Glyphs
        BY <1>8, <3>2, <4>1
      <4> HIDE DEF Scrolled
      <4> QED BY <4>1, <4>2, <4>3
    <3>3. CASE ~(i + w < Cells)
      <4>1. (p + w) + i >= p + Cells
        BY <1>4, <1>5, <3>1, <3>3
      <4> QED BY <1>6, <1>9, <3>1, <3>3, <4>1
    <3> QED BY <3>2, <3>3
  <2> QED BY <2>1
\* What ScreenInv asks of a screen at a row of the paper.
<1>12. ASSUME cell' \in Nat, cell' < 32768, top' \in 0..MaxScrolls, top' * w >= p, top' * w \in Nat,
              vga_memory' \in [Screen -> Glyphs],
              vga_memory' = [i \in Screen |-> paper'[top' * w + i]],
              cell' < Cells => place' = top' * w + cell'
       PROVE  ScreenInv'
  <2>1. \A i \in Paper : i >= top' * w + Cells => paper'[i] = Blank
    <3> DEFINE q == top' * w
    <3>1. q \in Nat /\ q >= p
      BY <1>12
    <3> HIDE DEF q, Paper
    <3>2. \A i \in Paper : i >= q + Cells => i >= p + Cells
      <4>1. \A i \in Paper : i \in Int
        BY DEF Paper
      <4> QED BY <1>4, <1>5, <3>1, <4>1
    <3>3. \A i \in Paper : i >= q + Cells => paper'[i] = Blank
      BY <1>9, <3>2
    <3> QED BY <3>3 DEF q
  <2>2. saved' \in [x : 0..(w - 1), y : Nat] /\ saved'.y * w + saved'.x < 32768
    BY DEF ScreenInv
  <2> HIDE DEF Screen, Paper
  <2>3. ScreenShowsPaper'
    BY <1>12 DEF ScreenShowsPaper, OnScreen, Screen, Cells
  <2> QED BY <1>8, <1>12, <2>1, <2>2, <2>3 DEF ScreenInv, Screen, Paper, Cells, Glyphs
<1> HIDE DEF Screen, Paper, Scrolled
<1>13. CASE corner
  <2>1. offset = 65534
    BY <1>13, AdvancedIs DEF offset
  <2>2. ~(offset < 2 * Cells) /\ (offset - 2 * w) \div 2 = 32767 - w
    BY <1>4, <2>1
  <2>3. cell' = 32767 - w /\ vga_memory' = Scrolled
    BY <1>1, <2>2
  <2>4. cell' \in Nat /\ cell' < 32768 /\ ~(cell' < Cells)
    BY <1>4, <2>3
  <2>5. top' = top + 1 /\ top' * w = p + w
    BY <1>2, <1>5, <1>13
  <2>6. top' \in 0..MaxScrolls /\ top' * w \in Nat /\ top' * w >= p
    <3> DEFINE q == top' * w
    <3>1. q = p + w
      BY <2>5
    <3> HIDE DEF q
    <3>2. q \in Nat /\ q >= p
      BY <1>4, <1>5, <3>1
    <3> QED BY <1>5, <2>5, <3>2 DEF q
  <2>7. ScreenInv'
    BY <1>11, <1>12, <2>3, <2>4, <2>5, <2>6
  <2> QED BY <1>13, <2>7
<1>14. CASE ~corner
  <2>1. PICK n \in Nat : offset = 2 * n /\ n < Cells + w /\ OnPaper(ch) = p + n
    BY <1>14, AdvancedIs DEF offset, p
  <2>2. CASE n < Cells
    <3>1. offset < 2 * Cells /\ offset \div 2 = n
      BY <1>4, <2>1, <2>2
    <3>2. cell' = n /\ vga_memory' = shown
      BY <1>1, <3>1
    <3>3. rows < top + TEXT_ROWS /\ rows \in Nat
      <4> DEFINE q == n \div w
                 r == n % w
      <4>1. q \in Nat /\ r \in 0..(w - 1) /\ n = w * q + r
        BY <1>4, DividedBy
      <4> HIDE DEF q, r
      <4>2. w * q = q * w /\ q * w \in Nat /\ n = q * w + r
        <5>1. w * q = q * w /\ q * w \in Nat
          BY <1>4, <4>1, Rows
        <5> QED BY <4>1, <5>1
      <4>3. q < TEXT_ROWS
        BY <2>2, <4>1, <4>2, RowAndColumn
      <4>4. rows = top + q
        <5>1. (top + q) * w = top * w + q * w
          BY <1>4, <4>1, Rows
        <5> DEFINE t == top + q
                   u == t * w
                   v == q * w
        <5>2. t \in Nat /\ u = p + v
          BY <1>4, <4>1, <5>1 DEF p
        <5>3. OnPaper(ch) = p + (v + r) /\ v \in Nat
          BY <2>1, <4>2
        <5> HIDE DEF u, v
        <5>4. OnPaper(ch) = u + r
          BY <1>4, <1>5, <4>1, <5>2, <5>3
        <5> HIDE DEF t
        <5>5. OnPaper(ch) \div w = t
          BY <4>1, <5>2, <5>4, RowAndColumn DEF u
        <5> QED BY <5>5 DEF rows, t
      <4> QED BY <1>4, <4>1, <4>3, <4>4
    <3>4. top' = top /\ place' = p + n
      <4>1. ~(rows >= top + TEXT_ROWS)
        BY <1>4, <3>3
      <4> QED BY <1>2, <1>14, <2>1, <4>1
    <3>5. vga_memory' = [i \in Screen |-> paper'[p + i]]
      BY <1>8, <1>10, <3>2
    <3>6. cell' \in Nat /\ cell' < 32768
      BY <1>4, <2>2, <3>2
    <3>7. top' * w = p /\ p >= p
      BY <1>5, <3>4 DEF p
    <3>8. ScreenInv'
      BY <1>3, <1>5, <1>8, <1>12, <3>2, <3>4, <3>5, <3>6, <3>7
    <3> QED BY <2>2, <3>2, <3>8 DEF OnScreen
  <2>3. CASE ~(n < Cells)
    <3> DEFINE r == n - Cells
    <3>1. ~(offset < 2 * Cells) /\ (offset - 2 * w) \div 2 = n - w
      BY <1>4, <2>1, <2>3
    <3>2. cell' = n - w /\ vga_memory' = Scrolled
      BY <1>1, <3>1
    <3>3. rows = top + TEXT_ROWS
      <4>1. (top + TEXT_ROWS) * w = top * w + TEXT_ROWS * w
        BY <1>4, Rows
      <4> DEFINE t == top + TEXT_ROWS
                 u == t * w
      <4>2. t \in Nat /\ u = p + Cells
        BY <1>4, <4>1 DEF p
      <4>3. r \in 0..(w - 1)
        BY <1>4, <2>1, <2>3
      <4> HIDE DEF u
      <4>4. OnPaper(ch) = u + r
        BY <1>4, <1>5, <2>1, <4>2
      <4> HIDE DEF t, r
      <4>5. OnPaper(ch) \div w = t
        BY <4>2, <4>3, <4>4, RowAndColumn DEF u
      <4> QED BY <4>5 DEF rows, t
    <3>4. top' = top + 1 /\ place' = p + n
      <4>1. rows >= top + TEXT_ROWS /\ rows - TEXT_ROWS + 1 = top + 1
        BY <1>4, <3>3
      <4> QED BY <1>2, <1>14, <2>1, <4>1
    <3>5. cell' \in Nat /\ cell' < Cells /\ cell' < 32768
      BY <1>4, <2>1, <2>3, <3>2, Measures
    <3>6. top' * w = p + w
      BY <1>5, <3>4
    <3>7. top' * w \in Nat /\ top' * w >= p /\ place' = top' * w + cell'
      <4> DEFINE q == top' * w
      <4>1. q = p + w
        BY <3>6
      <4> HIDE DEF q
      <4>2. q \in Nat /\ q >= p /\ place' = q + cell'
        BY <1>4, <1>5, <2>1, <3>2, <3>4, <4>1
      <4> QED BY <4>2 DEF q
    <3>8. ScreenInv'
      BY <1>5, <1>11, <1>12, <3>2, <3>4, <3>5, <3>6, <3>7
    <3> QED BY <3>5, <3>8 DEF OnScreen
  <2> QED BY <2>2, <2>3
<1> QED BY <1>13, <1>14

-----------------------------------------------------------------------------
(* Each step of a call keeps ConInv, and the cursor on the screen.         *)

\* What a step may do to the cursor.
CursorStep ==
  cell' # cell /\ ~OnScreen(cell') =>
       \/ \E final \in {"H", "f"} :
            Final(final) /\ (number_code >= TEXT_COLS \/ csi_code >= TEXT_ROWS)
       \/ saved.y >= TEXT_ROWS /\ gotoxy(saved.x, saved.y)
       \/ cell = 0 /\ Text("backspace")

LEMMA ConStarts == ConInit => ConInv
<1> SUFFICES ASSUME ConInit PROVE ConInv
  OBVIOUS
<1>1. ParserInv
  BY DEF ConInit, ParserInv, Places
<1>2. /\ cell = 0 /\ saved = [x |-> 0, y |-> 0] /\ top = 0 /\ place = 0
      /\ vga_memory = [i \in 0..(Cells - 1) |-> Blank]
      /\ paper = [i \in 0..(Cells + MaxScrolls * TEXT_COLS - 1) |-> Blank]
  BY DEF ConInit
<1>3. TEXT_COLS \in Nat /\ TEXT_COLS > 0 /\ Cells \in Nat /\ 0 \in 0..MaxScrolls
      /\ MaxScrolls * TEXT_COLS \in Nat /\ 0 * TEXT_COLS = 0
  <2>1. 0 \in 0..MaxScrolls
    BY ScreenAssumption
  <2> QED BY <2>1, Measures, OnThePaper
<1>4. /\ cell \in Nat /\ cell < 32768 /\ top \in 0..MaxScrolls
      /\ saved \in [x : 0..(TEXT_COLS - 1), y : Nat] /\ saved.y * TEXT_COLS + saved.x < 32768
  BY <1>2, <1>3
<1> DEFINE m == MaxScrolls * TEXT_COLS
           none == 0 * TEXT_COLS
<1> HIDE DEF m
<1>5. /\ vga_memory \in [0..(Cells - 1) -> Glyphs] /\ paper \in [0..(Cells + m - 1) -> Glyphs]
      /\ \A i \in 0..(Cells + m - 1) : paper[i] = Blank
  BY <1>2 DEF Glyphs, m
<1>6. vga_memory = [i \in 0..(Cells - 1) |-> paper[0 + i]]
  <2>1. \A i \in 0..(Cells - 1) : 0 + i \in 0..(Cells + m - 1)
    BY <1>3 DEF m
  <2>2. \A i \in 0..(Cells - 1) : paper[0 + i] = Blank
    BY <1>5, <2>1
  <2> QED BY <1>2, <2>2
<1>7. ScreenShowsPaper
  <2>1. top * TEXT_COLS = 0
    BY <1>2, <1>3
  <2> DEFINE t == top * TEXT_COLS
  <2>2. t = 0
    BY <2>1
  <2> HIDE DEF t
  <2>3. vga_memory = [i \in 0..(Cells - 1) |-> paper[t + i]]
    BY Zenon, <1>6, <2>2
  <2>4. place = t + cell
    BY <1>2, <2>2
  <2> QED BY <2>3, <2>4 DEF ScreenShowsPaper, t
<1> QED BY <1>1, <1>4, <1>5, <1>7 DEF ConInv, ScreenInv, m

LEMMA TextKeeps ==
  ASSUME ConInv, NEW ch \in Printable \cup Controls, Text(ch)
  PROVE  ConInv' /\ CursorStep
<1>1. /\ at = "text" /\ top < MaxScrolls
      /\ IF print_status = 0 THEN Shown(ch) ELSE UNCHANGED <<cell, vga_memory>>
      /\ IF OnScreen(cell) /\ ~deaf THEN WriteOnPaper(ch) ELSE UNCHANGED paperVars
      /\ UNCHANGED <<saved, at, print_status, printk, private_code, number_code, csi_code, deaf>>
  BY DEF Text, More
<1>2. ParserInv'
  BY <1>1 DEF ConInv, ParserInv
<1>3. print_status = 0 <=> ~deaf
  BY <1>1 DEF ConInv, ParserInv
<1>4. ScreenInv /\ cell \in Nat /\ cell < 32768
  BY DEF ConInv, ScreenInv
<1>5. getcursor = 2 * cell /\ (OnScreen(cell) <=> getcursor < 2 * Cells)
  BY <1>4, Whereabouts
<1>6. CASE print_status = 0 /\ OnScreen(cell)
  <2>1. cputchar(ch)
    BY <1>1, <1>5, <1>6 DEF Shown
  <2>2. WriteOnPaper(ch) /\ saved' = saved
    BY <1>1, <1>3, <1>6
  <2>3. ScreenInv' /\ (OnScreen(cell') \/ (cell = 0 /\ ch = "backspace"))
    BY <1>1, <1>4, <1>6, <2>1, <2>2, PutKeeps
  <2> QED BY <1>2, <2>3 DEF ConInv, CursorStep
<1>7. CASE ~(print_status = 0 /\ OnScreen(cell))
  <2>1. cell' = cell /\ UNCHANGED vga_memory
    <3>1. CASE print_status = 0
      <4>1. cell' = getcursor \div 2 /\ UNCHANGED vga_memory
        BY <1>1, <1>5, <1>7, <3>1 DEF Shown
      <4>2. (2 * cell) \div 2 = cell
        BY <1>4
      <4> QED BY <1>5, <4>1, <4>2
    <3>2. CASE print_status # 0
      BY <1>1, <3>2
    <3> QED BY <3>1, <3>2
  <2>2. UNCHANGED paperVars
    BY <1>1, <1>3, <1>7
  <2>3. ScreenInv'
    BY <1>1, <1>4, <2>1, <2>2, ScreenStays DEF cursorVars
  <2> QED BY <1>2, <2>1, <2>3 DEF ConInv, CursorStep
<1> QED BY <1>6, <1>7

\* A sequence, complete.
LEMMA FinalKeeps ==
  ASSUME ConInv, NEW final \in Finals, Final(final)
  PROVE  ConInv' /\ CursorStep
<1>1. /\ at \in {"bracket", "question", "semicolon", "number", "next"}
      /\ at' = "text" /\ print_status' = Finished(final)
      /\ deaf' = (~printk /\ final \in {"l", "h", "other"})
      /\ Sequence(final, number_code, csi_code)
      /\ number_code' = 0 /\ csi_code' = 0 /\ printk' = printk
  BY DEF Final
<1>2. ParserInv'
  <2>1. print_status = IF printk THEN 0 ELSE 1
    BY <1>1 DEF ConInv, ParserInv
  <2>2. print_status' = IF ~printk /\ final \in {"l", "h", "other"} THEN 1 ELSE 0
    BY <1>1, <2>1 DEF Finished
  <2>3. printk \in BOOLEAN /\ "text" \in Places
    BY DEF ConInv, ParserInv, Places
  <2>4. CASE ~printk /\ final \in {"l", "h", "other"}
    <3>1. print_status' = 1 /\ deaf' = TRUE /\ printk' = FALSE
      BY <1>1, <2>2, <2>3, <2>4
    <3> QED BY <1>1, <2>3, <3>1 DEF ParserInv
  <2>5. CASE ~(~printk /\ final \in {"l", "h", "other"})
    <3>1. print_status' = 0 /\ deaf' = FALSE /\ printk' \in BOOLEAN
      BY <1>1, <2>2, <2>3, <2>5
    <3> QED BY <1>1, <2>3, <3>1 DEF ParserInv
  <2> QED BY <2>4, <2>5
<1>3. ScreenInv /\ number_code \in Nat /\ csi_code \in Nat
  BY DEF ConInv, ParserInv
<1>4. CASE final \in Moves
  <2>1. get_csi_cursor(final, number_code) /\ PaperFollows /\ UNCHANGED <<saved, vga_memory>>
    <3>1. final \notin {"H", "f"} /\ final # "K" /\ final # "J" /\ final # "s" /\ final # "u"
      BY <1>4 DEF Moves
    <3> QED BY <1>1, <1>4, <3>1, Zenon DEF Sequence
  <2>2. cell' \in Nat /\ cell' < 32768 /\ OnScreen(cell')
    BY <1>3, <1>4, <2>1, CursorMoves
  <2>3. ScreenInv'
    BY <1>3, <2>1, <2>2, MoveKeeps
  <2> QED BY <1>2, <2>2, <2>3 DEF ConInv, CursorStep
<1>5. CASE final \in {"H", "f"}
  <2>1. get_sgr_cursor(number_code, csi_code) /\ PaperFollows /\ UNCHANGED <<saved, vga_memory>>
    <3>1. final \notin Moves
      BY <1>5 DEF Moves
    <3> QED BY <1>1, <1>5, <3>1, Zenon DEF Sequence
  <2>2. /\ cell' \in Nat /\ cell' < 32768
        /\ cell' # cell /\ ~OnScreen(cell') =>
             number_code >= TEXT_COLS \/ csi_code >= TEXT_ROWS
    BY <1>3, <2>1, CursorJumps
  <2>3. ScreenInv'
    BY <1>3, <2>1, <2>2, MoveKeeps
  <2>4. CursorStep
    BY <1>5, <2>2 DEF CursorStep
  <2> QED BY <1>2, <2>3, <2>4 DEF ConInv
<1>6. CASE final \in Finals \ (Moves \cup {"H", "f"})
  <2>1. \/ get_csi_erase_line(number_code)
        \/ clearscreen
        \/ SaveCursor
        \/ RestoreCursor
        \/ UNCHANGED <<cursorVars, paperVars>>
    <3>1. final \notin Moves /\ final \notin {"H", "f"}
      BY <1>6
    <3>2. CASE final = "K"
      BY <1>1, <3>1, <3>2, Zenon DEF Sequence
    <3>3. CASE final = "J" /\ number_code % 256 = 2
      BY <1>1, <3>1, <3>3, Zenon DEF Sequence
    <3>4. CASE final = "s" /\ number_code % 256 = 0 /\ csi_code % 256 = 0
      BY <1>1, <3>1, <3>4, Zenon DEF Sequence
    <3>5. CASE final = "u" /\ number_code % 256 = 0 /\ csi_code % 256 = 0
      BY <1>1, <3>1, <3>5, Zenon DEF Sequence
    <3>6. CASE /\ final # "K" /\ ~(final = "J" /\ number_code % 256 = 2)
               /\ ~(final = "s" /\ number_code % 256 = 0 /\ csi_code % 256 = 0)
               /\ ~(final = "u" /\ number_code % 256 = 0 /\ csi_code % 256 = 0)
      BY <1>1, <3>1, <3>6, Zenon DEF Sequence
    <3> QED BY <3>2, <3>3, <3>4, <3>5, <3>6
  <2>2. CASE get_csi_erase_line(number_code)
    BY <1>2, <1>3, <2>2, EraseKeeps DEF ConInv, CursorStep
  <2>3. CASE clearscreen
    BY <1>2, <1>3, <2>3, ClearKeeps DEF ConInv, CursorStep
  <2>4. CASE SaveCursor
    <3>1. cell' = cell
      BY <2>4 DEF SaveCursor
    <3> QED BY <1>2, <1>3, <2>4, <3>1, SaveKeeps DEF ConInv, CursorStep
  <2>5. CASE RestoreCursor
    BY <1>2, <1>3, <2>5, RestoreKeeps DEF ConInv, CursorStep
  <2>6. CASE UNCHANGED <<cursorVars, paperVars>>
    <3>1. cell' = cell
      BY <2>6 DEF cursorVars
    <3> QED BY <1>2, <1>3, <2>6, <3>1, ScreenStays DEF ConInv, CursorStep
  <2> QED BY <2>1, <2>2, <2>3, <2>4, <2>5, <2>6
<1> QED BY <1>4, <1>5, <1>6

LEMMA AfterEscapeKeeps ==
  ASSUME ConInv, NEW ch \in {"[", "7", "8", "other"}, AfterEscape(ch)
  PROVE  ConInv' /\ CursorStep
<1>1. /\ at = "escape"
      /\ print_status' = IF ch \in {"7", "8"} THEN 0 ELSE print_status
      /\ deaf' = (~printk /\ ch \notin {"7", "8"})
      /\ UNCHANGED <<printk, number_code, csi_code>>
  BY DEF AfterEscape
<1>2. ScreenInv
  BY DEF ConInv
<1>3. /\ print_status = IF printk THEN 0 ELSE 1
      /\ printk \in BOOLEAN /\ number_code \in Nat /\ csi_code \in Nat
  BY <1>1 DEF ConInv, ParserInv
<1>4. CASE ch \in {"7", "8"}
  <2>1. at' = "skip"
    <3>1. ch # "["
      BY <1>4
    <3> QED BY <1>4, <3>1, Zenon DEF AfterEscape
  <2>2. print_status' = 0 /\ deaf' = FALSE
    BY <1>1, <1>4
  <2>3. ParserInv'
    BY <1>1, <1>3, <2>1, <2>2 DEF ParserInv, Places
  <2>4. SaveCursor \/ RestoreCursor
    <3>1. CASE ch = "7"
      BY <3>1, Zenon DEF AfterEscape
    <3>2. CASE ch = "8"
      <4>1. ch # "7"
        BY <3>2
      <4> QED BY <3>2, <4>1, Zenon DEF AfterEscape
    <3> QED BY <1>4, <3>1, <3>2
  <2>5. CASE SaveCursor
    <3>1. cell' = cell
      BY <2>5 DEF SaveCursor
    <3> QED BY <1>2, <2>3, <2>5, <3>1, SaveKeeps DEF ConInv, CursorStep
  <2>6. CASE RestoreCursor
    BY <1>2, <2>3, <2>6, RestoreKeeps DEF ConInv, CursorStep
  <2> QED BY <2>4, <2>5, <2>6
<1>5. CASE ch \notin {"7", "8"}
  <2>1. at' = "bracket" \/ at' = "text"
    <3>1. CASE ch = "["
      BY <3>1, Zenon DEF AfterEscape
    <3>2. CASE ch # "["
      BY <1>5, <3>2, Zenon DEF AfterEscape
    <3> QED BY <3>1, <3>2
  <2>2. print_status' = print_status /\ deaf' = ~printk
    BY <1>1, <1>3, <1>5
  <2>3. ParserInv'
    <3>1. CASE printk
      <4>1. printk' = TRUE /\ deaf' = FALSE /\ print_status' = 0
        BY <1>1, <1>3, <2>2, <3>1
      <4> QED BY <1>1, <1>3, <2>1, <4>1 DEF ParserInv, Places
    <3>2. CASE ~printk
      <4>1. printk' = FALSE /\ deaf' = TRUE /\ print_status' = 1
        BY <1>1, <1>3, <2>2, <3>2
      <4> QED BY <1>1, <1>3, <2>1, <4>1 DEF ParserInv, Places
    <3> QED BY <3>1, <3>2
  <2>4. UNCHANGED <<cursorVars, paperVars>>
    <3>1. ch # "7" /\ ch # "8"
      BY <1>5
    <3> QED BY <3>1, Zenon DEF AfterEscape
  <2>5. cell' = cell
    BY <2>4 DEF cursorVars
  <2> QED BY <1>2, <2>3, <2>4, <2>5, ScreenStays DEF ConInv, CursorStep
<1> QED BY <1>4, <1>5

\* The steps that touch neither the screen nor the paper.
LEMMA ParserKeeps ==
  ASSUME ConInv, Call \/ CallReturns \/ Escape \/ Skip \/ Parameter \/ UNCHANGED conVars
  PROVE  ConInv' /\ CursorStep
<1>1. UNCHANGED <<cursorVars, paperVars>>
  BY DEF Call, CallReturns, Escape, Skip, Parameter, conVars
<1>2. ScreenInv' /\ cell' = cell
  <2>1. cell' = cell
    BY <1>1 DEF cursorVars
  <2> QED BY <1>1, <2>1, ScreenStays DEF ConInv
<1>3. ParserInv
  BY DEF ConInv
<1>4. CASE Call
  <2>1. /\ at' = "text" /\ print_status' = 0 /\ printk' \in BOOLEAN /\ deaf' = FALSE
        /\ number_code' = number_code /\ csi_code' = csi_code
    BY <1>4 DEF Call
  <2> QED BY <1>2, <1>3, <2>1 DEF ConInv, ParserInv, CursorStep, Places
<1>5. CASE CallReturns
  <2>1. /\ at' = "idle" /\ print_status' = 0
        /\ UNCHANGED <<printk, deaf, number_code, csi_code>>
    BY <1>5 DEF CallReturns
  <2> QED BY <1>2, <1>3, <2>1 DEF ConInv, ParserInv, CursorStep, Places
<1>6. CASE Escape
  <2>1. /\ at' = "escape" /\ print_status' = (IF printk THEN 0 ELSE 1)
        /\ UNCHANGED <<printk, deaf>> /\ number_code' = 0 /\ csi_code' = 0
    BY <1>6 DEF Escape
  <2> QED BY <1>2, <1>3, <2>1 DEF ConInv, ParserInv, CursorStep, Places
<1>7. CASE Skip
  <2>1. /\ at = "skip" /\ at' = "text"
        /\ UNCHANGED <<print_status, printk, deaf, number_code, csi_code>>
    BY <1>7 DEF Skip
  <2> QED BY <1>2, <1>3, <2>1 DEF ConInv, ParserInv, CursorStep, Places
<1>8. CASE Parameter
  <2>1. /\ at \in {"bracket", "question", "semicolon", "number", "next"}
        /\ at' \in {"question", "semicolon", "number", "next"}
        /\ UNCHANGED <<print_status, printk, deaf>>
    BY <1>8 DEF Parameter
  <2>2. number_code' \in Nat /\ csi_code' \in Nat
    <3>1. number_code \in Nat /\ csi_code \in Nat /\ 0 \in Nat /\ Numbers \subseteq Nat
      BY <1>3, ScreenAssumption DEF ParserInv
    <3>2. /\ number_code' = number_code \/ number_code' \in Numbers \/ number_code' = 0
          /\ csi_code' = csi_code \/ csi_code' = number_code
      BY <1>8 DEF Parameter
    <3> QED BY <3>1, <3>2
  <2> QED BY <1>2, <1>3, <2>1, <2>2 DEF ConInv, ParserInv, CursorStep, Places
<1>9. CASE UNCHANGED conVars
  <2>1. UNCHANGED <<at, print_status, printk, deaf, number_code, csi_code>>
    BY <1>9 DEF conVars, parserVars
  <2> QED BY <1>2, <1>3, <2>1 DEF ConInv, ParserInv, CursorStep
<1> QED BY <1>4, <1>5, <1>6, <1>7, <1>8, <1>9

LEMMA ConSteps ==
  ASSUME ConInv, [ConNext]_conVars
  PROVE  ConInv' /\ CursorStep
<1>1. CASE \/ Call \/ CallReturns \/ Escape \/ Skip \/ Parameter \/ UNCHANGED conVars
  BY <1>1, ParserKeeps
<1>2. CASE \E ch \in Printable \cup Controls : Text(ch)
  BY <1>2, TextKeeps
<1>3. CASE \E ch \in {"[", "7", "8", "other"} : AfterEscape(ch)
  BY <1>3, AfterEscapeKeeps
<1>4. CASE \E final \in Finals : Final(final)
  BY <1>4, FinalKeeps
<1> QED BY <1>1, <1>2, <1>3, <1>4 DEF ConNext

\* Under ConTypeOK and ConsoleIsSound: the paper below the screen is empty, the cursor
\* is one that setcursor took whole, and the parser knows whether its text is shown.
THEOREM ConsoleInvariant == ConSpec => []ConInv
<1>1. ConInit => ConInv
  BY ConStarts
<1>2. ConInv /\ [ConNext]_conVars => ConInv'
  BY ConSteps
<1> QED BY <1>1, <1>2, PTL DEF ConSpec

\* On a screen of any size, whatever text and sequences tprint and tprintl are given,
\* the screen is a window on what was printed, and the cursor leaves the screen only
\* where it was sent (putchar_xy, cputchar_a, the escape sequences).
THEOREM ConsoleAlwaysSound == ConSpec => ConsoleIsSound
<1>1. ConInv => ScreenShowsPaper
  BY DEF ConInv, ScreenInv
<1>2. ConInv /\ [ConNext]_conVars =>
        [cell' # cell /\ ~OnScreen(cell') =>
           \/ \E final \in {"H", "f"} :
                Final(final) /\ (number_code >= TEXT_COLS \/ csi_code >= TEXT_ROWS)
           \/ saved.y >= TEXT_ROWS /\ gotoxy(saved.x, saved.y)
           \/ cell = 0 /\ Text("backspace")]_conVars
  BY ConSteps DEF CursorStep
<1>3. ConSpec => []ScreenShowsPaper
  BY <1>1, ConsoleInvariant, PTL
<1>4. ConSpec => CursorStaysOnScreen
  BY <1>2, ConsoleInvariant, PTL DEF ConSpec, CursorStaysOnScreen
<1> QED BY <1>3, <1>4 DEF ConsoleIsSound

-----------------------------------------------------------------------------
(* Numbers.                                                                *)

\* Powers of two.  The prover knows of them how many subsets a set has.
Pow(k) == 2^k

LEMMA PowIs ==
  /\ Pow(0) = 1
  /\ \A k \in Nat : Pow(k) \in Nat /\ Pow(k) >= 1 /\ Pow(k + 1) = 2 * Pow(k)
<1>1. \A m \in Nat : /\ IsFiniteSet(SUBSET (1..m)) /\ Cardinality(SUBSET (1..m)) = Pow(m)
                     /\ Pow(m) \in Nat
  <2> SUFFICES ASSUME NEW m \in Nat
               PROVE  /\ IsFiniteSet(SUBSET (1..m)) /\ Cardinality(SUBSET (1..m)) = Pow(m)
                      /\ Pow(m) \in Nat
    OBVIOUS
  <2>1. IsFiniteSet(1..m) /\ Cardinality(1..m) = m
    BY FS_Interval
  <2>2. IsFiniteSet(SUBSET (1..m)) /\ Cardinality(SUBSET (1..m)) = 2^Cardinality(1..m)
    BY <2>1, FS_SUBSET
  <2> QED
    BY <2>1, <2>2, FS_CardinalityType DEF Pow
<1>2. Pow(0) = 1
  BY DEF Pow
<1>3. ASSUME NEW k \in Nat PROVE Pow(k + 1) = 2 * Pow(k)
  <2> DEFINE A == SUBSET (1..k)
             B == {X \cup {k + 1} : X \in A}
             f == [X \in A |-> X \cup {k + 1}]
  <2>1. f \in Bijection(A, B)
    <3>1. f \in Surjection(A, B)
      BY DEF Surjection
    <3>2. f \in Injection(A, B)
      <4>1. ASSUME NEW X \in A, NEW Y \in A, f[X] = f[Y] PROVE X = Y
        <5>1. k + 1 \notin X /\ k + 1 \notin Y
          OBVIOUS
        <5> DEFINE z == k + 1
        <5>2. X \cup {z} = Y \cup {z}
          BY <4>1
        <5> HIDE DEF z
        <5>3. z \notin X /\ z \notin Y
          BY <5>1 DEF z
        <5>4. X \subseteq Y /\ Y \subseteq X
          BY <5>2, <5>3
        <5> QED
          BY <5>4
      <4>2. f \in [A -> B]
        OBVIOUS
      <4> HIDE DEF A, B, f
      <4> QED
        BY <4>1, <4>2 DEF Injection, IsInjective
    <3> QED
      BY <3>1, <3>2 DEF Bijection
  <2>2. IsFiniteSet(A) /\ Cardinality(A) = Pow(k) /\ Pow(k) \in Nat
    BY <1>1
  <2>3. IsFiniteSet(B) /\ Cardinality(B) = Pow(k)
    <3> HIDE DEF A, B, f
    <3> QED
      BY <2>1, <2>2, FS_Bijection DEF ExistsBijection
  <2>4. SUBSET (1..(k + 1)) = A \cup B
    <3>1. ASSUME NEW X \in A PROVE X \subseteq 1..(k + 1) /\ X \cup {k + 1} \subseteq 1..(k + 1)
      OBVIOUS
    <3>2. ASSUME NEW X \in SUBSET (1..(k + 1)) PROVE X \in A \cup B
      <4>1. CASE k + 1 \notin X
        <5>1. X \in A
          BY <4>1
        <5> QED
          BY <5>1
      <4>2. CASE k + 1 \in X
        <5>1. X \ {k + 1} \in A
          OBVIOUS
        <5>2. X = (X \ {k + 1}) \cup {k + 1}
          BY <4>2
        <5>3. X \in B
          BY <5>1, <5>2
        <5> QED
          BY <5>3
      <4> QED
        BY <4>1, <4>2
    <3>3. ASSUME NEW X \in A \cup B PROVE X \in SUBSET (1..(k + 1))
      <4>1. CASE X \in A
        BY <3>1, <4>1
      <4>2. CASE X \in B
        <5>1. PICK Y \in A : X = Y \cup {k + 1}
          BY <4>2
        <5> QED
          BY <3>1, <5>1
      <4> QED
        BY <4>1, <4>2
    <3> QED
      BY <3>2, <3>3
  <2>5. A \cap B = {}
    <3> SUFFICES ASSUME NEW X \in A, X \in B PROVE FALSE
      OBVIOUS
    <3>1. k + 1 \notin X
      OBVIOUS
    <3> QED
      BY <3>1
  <2>6. Cardinality(A \cup B) = Pow(k) + Pow(k) - 0
    <3> HIDE DEF A, B
    <3>1. Cardinality(A \cup B) = Cardinality(A) + Cardinality(B) - Cardinality(A \cap B)
      BY <2>2, <2>3, FS_Union
    <3>2. Cardinality(A \cap B) = 0
      BY <2>5, FS_EmptySet
    <3> QED
      BY <2>2, <2>3, <3>1, <3>2
  <2>7. Cardinality(SUBSET (1..(k + 1))) = Pow(k + 1)
    BY <1>1
  <2> HIDE DEF A, B
  <2>8. Pow(k + 1) = Pow(k) + Pow(k) - 0
    BY <2>4, <2>6, <2>7
  <2> QED
    BY <2>2, <2>8
<1>4. ASSUME NEW k \in Nat PROVE Pow(k) >= 1
  <2>1. IsFiniteSet(SUBSET (1..k)) /\ Cardinality(SUBSET (1..k)) = Pow(k) /\ Pow(k) \in Nat
    BY <1>1
  <2>2. SUBSET (1..k) # {}
    OBVIOUS
  <2> QED
    BY <2>1, <2>2, FS_EmptySet
<1> QED
  BY <1>1, <1>2, <1>3, <1>4

LEMMA LeastNumber ==
  ASSUME NEW S \in SUBSET Nat, S # {}
  PROVE  \E x \in S : \A y \in S : x <= y
<1> DEFINE R == {ss \in Nat \X Nat : ss[1] < ss[2]}
<1>1. IsWellFoundedOn(R, Nat)
  BY NatLessThanWellFounded DEF OpToRel
<1>2. PICK x \in S : \A y \in S : <<y, x>> \notin R
  <2> HIDE DEF R
  <2> QED
    BY <1>1, WFMin
<1>3. ASSUME NEW y \in S PROVE x <= y
  <2>1. ~(y < x)
    <3>1. <<y, x>> \in Nat \X Nat /\ <<y, x>>[1] = y /\ <<y, x>>[2] = x
      OBVIOUS
    <3> QED
      BY <1>2, <3>1, Zenon
  <2> QED
    BY <2>1
<1> QED
  BY <1>3

\* Induction over numbers.
LEMMA NumbersInTurn ==
  ASSUME NEW G, 0 \in G, \A k \in Nat : k \in G => k + 1 \in G
  PROVE  \A k \in Nat : k \in G
<1> DEFINE Bad == {k \in Nat : k \notin G}
<1> SUFFICES ASSUME Bad # {} PROVE FALSE
  OBVIOUS
<1>1. PICK x \in Bad : \A y \in Bad : x <= y
  <2>1. Bad \in SUBSET Nat
    OBVIOUS
  <2> HIDE DEF Bad
  <2> QED
    BY <2>1, LeastNumber
<1>2. x \in Nat /\ x # 0 /\ x \notin G
  OBVIOUS
<1>3. x - 1 \in Nat /\ x - 1 + 1 = x /\ ~(x <= x - 1)
  BY <1>2
<1>4. x - 1 \in G
  BY <1>1, <1>3
<1> QED
  BY <1>2, <1>3, <1>4

LEMMA Product ==
  ASSUME NEW m \in Nat, NEW n \in Nat, NEW k \in Nat
  PROVE  /\ m <= n => k * m <= k * n
         /\ k * m \in Nat /\ k * (m + 1) = k * m + k
OBVIOUS

LEMMA ProductOf ==
  ASSUME NEW m \in Int, NEW n \in Int, NEW k \in Int
  PROVE  /\ m * n \in Int /\ m * n = n * m /\ m * (n * k) = (m * n) * k
         /\ m * (n + k) = m * n + m * k /\ (m + n) * k = m * k + n * k
         /\ m * 1 = m /\ m * 0 = 0 /\ 0 * m = 0 /\ 1 * m = m
OBVIOUS

LEMMA QuotientOf ==
  ASSUME NEW k \in Nat, k > 0, NEW q \in Int, NEW r \in 0..(k - 1), NEW x, x = k * q + r
  PROVE  x \div k = q /\ x % k = r
BY OneQuotient

LEMMA SmallRest ==
  ASSUME NEW k \in Nat, k > 0, NEW r \in 0..(k - 1)
  PROVE  r \div k = 0 /\ r % k = r
<1>1. k * 0 + r = r
  OBVIOUS
<1> QED
  BY <1>1, OneQuotient

LEMMA NegativeRest ==
  ASSUME NEW k \in Nat, NEW r \in 1..(k - 1)
  PROVE  (-r) % k = k - r
<1>1. k > 0 /\ k - r \in 0..(k - 1) /\ k * (-1) + (k - r) = -r
  OBVIOUS
<1> QED
  BY <1>1, OneQuotient

LEMMA PowPlus == \A m \in Nat, n \in Nat : Pow(m + n) = Pow(m) * Pow(n)
<1> SUFFICES ASSUME NEW m \in Nat PROVE \A n \in Nat : Pow(m + n) = Pow(m) * Pow(n)
  OBVIOUS
<1> DEFINE G == {n \in Nat : Pow(m + n) = Pow(m) * Pow(n)}
<1>1. 0 \in G
  <2>1. m + 0 = m /\ Pow(m) * 1 = Pow(m)
    BY PowIs
  <2> QED
    BY <2>1, PowIs
<1>2. ASSUME NEW n \in Nat, n \in G PROVE n + 1 \in G
  <2>1. Pow(m + n) = Pow(m) * Pow(n)
    BY <1>2
  <2>2. m + n \in Nat /\ m + (n + 1) = (m + n) + 1
    OBVIOUS
  <2>3. Pow(m + (n + 1)) = 2 * Pow(m + n) /\ Pow(n + 1) = 2 * Pow(n)
    BY <2>2, PowIs
  <2> DEFINE v == Pow(m)
             w == Pow(n)
  <2>4. v \in Int /\ w \in Int
    BY PowIs
  <2> HIDE DEF v, w
  <2>5. v * (2 * w) = 2 * (v * w)
    BY <2>4
  <2> QED
    BY <2>1, <2>3, <2>5 DEF v, w
<1> HIDE DEF G
<1>3. \A n \in Nat : n \in G
  BY <1>1, <1>2, NumbersInTurn
<1> QED
  BY <1>3 DEF G

LEMMA PowOrder == \A m \in Nat, n \in Nat : m <= n => Pow(m) <= Pow(n)
<1> SUFFICES ASSUME NEW m \in Nat, NEW n \in Nat, m <= n PROVE Pow(m) <= Pow(n)
  OBVIOUS
<1>1. n - m \in Nat /\ m + (n - m) = n
  OBVIOUS
<1>2. Pow(n) = Pow(m) * Pow(n - m) /\ Pow(m) \in Nat /\ Pow(n - m) \in Nat /\ Pow(n - m) >= 1
  <2>1. Pow(m + (n - m)) = Pow(m) * Pow(n - m)
    BY <1>1, PowPlus, Zenon
  <2>2. Pow(m) \in Nat /\ Pow(n - m) \in Nat /\ Pow(n - m) >= 1
    BY <1>1, PowIs
  <2> QED
    BY <1>1, <2>1, <2>2, Zenon
<1> DEFINE v == Pow(m)
           w == Pow(n - m)
<1>3. v \in Nat /\ w \in Nat /\ 1 <= w
  BY <1>2
<1> HIDE DEF v, w
<1>4. v * 1 <= v * w /\ v * 1 = v
  BY <1>3, Product
<1> QED
  BY <1>2, <1>4 DEF v, w

\* What is less than a power and what is not, times another power.
LEMMA PowTimes ==
  ASSUME NEW x \in Nat, NEW m \in Nat, NEW n \in Nat
  PROVE  /\ x < Pow(m) => x * Pow(n) < Pow(m + n) /\ x * Pow(n) + Pow(n) <= Pow(m + n)
         /\ x >= Pow(m) => x * Pow(n) >= Pow(m + n)
<1> DEFINE v == Pow(m)
           w == Pow(n)
<1>1. v \in Nat /\ w \in Nat /\ w >= 1 /\ Pow(m + n) = v * w
  BY PowIs, PowPlus
<1> HIDE DEF v, w
<1>2. ASSUME x < v PROVE x * w + w <= v * w
  <2>1. w * (x + 1) <= w * v /\ w * (x + 1) = w * x + w
    BY <1>1, <1>2, Product
  <2> QED
    BY <1>1, <2>1
<1>3. ASSUME x >= v PROVE x * w >= v * w
  <2>1. w * v <= w * x
    BY <1>1, <1>3, Product
  <2> QED
    BY <1>1, <2>1
<1>4. x * w \in Nat
  BY <1>1
<1> QED
  BY <1>1, <1>2, <1>3, <1>4 DEF v, w

-----------------------------------------------------------------------------
(* Words.                                                                  *)

Half == Pow(Width - 1)
HalfWidth == Width \div 2

LEMMA WordsAre ==
  /\ Width \in Nat /\ Width >= 2 /\ \E i \in Nat : HalfWidth = Pow(i)
  /\ HalfWidth \in Nat /\ HalfWidth >= 1 /\ 2 * HalfWidth = Width
  /\ Modulus = Pow(Width) /\ Modulus = 2 * Half /\ Modulus \div 2 = Half
  /\ Half \in Nat /\ Half >= 2 /\ Modulus \in Nat
<1>1. PICK k \in 1..6 : Width = Pow(k)
  BY WidthAssumption DEF Pow
<1>2. k - 1 \in Nat /\ k - 1 + 1 = k
  OBVIOUS
<1>3. Width = 2 * Pow(k - 1) /\ Pow(k - 1) \in Nat /\ Pow(k - 1) >= 1
  BY <1>1, <1>2, PowIs
<1>4. HalfWidth = Pow(k - 1)
  <2> DEFINE v == Pow(k - 1)
  <2>1. Width = 2 * v /\ v \in Nat
    BY <1>3
  <2> HIDE DEF v
  <2>2. HalfWidth = v
    BY <2>1 DEF HalfWidth
  <2> QED
    BY <2>2 DEF v
<1>5. Width \in Nat /\ Width >= 2
  BY <1>3
<1>6. Modulus = Pow(Width)
  BY DEF Modulus, Pow
<1>7. Width - 1 \in Nat /\ Width - 1 + 1 = Width /\ Width - 2 \in Nat /\ Width - 2 + 1 = Width - 1
  BY <1>5
<1>8. Pow(Width) = 2 * Half /\ Half \in Nat /\ Half = 2 * Pow(Width - 2) /\ Pow(Width - 2) >= 1
      /\ Pow(Width - 2) \in Nat
  BY <1>7, PowIs DEF Half
<1>9. (2 * Half) \div 2 = Half /\ 2 * Half \in Nat /\ Half >= 2
  BY <1>8
<1> QED
  BY <1>2, <1>3, <1>4, <1>5, <1>6, <1>8, <1>9

LEMMA ShiftsAre ==
  ASSUME NEW x \in Word64, NEW n \in Nat
  PROVE  /\ Shl(x, n) = (x * Pow(n)) % Modulus /\ Shl(x, n) \in Word64
         /\ Shr(x, n) = x \div Pow(n)
         /\ x * Pow(n) < Modulus => Shl(x, n) = x * Pow(n)
<1>1. Shl(x, n) = (x * Pow(n)) % Modulus /\ Shr(x, n) = x \div Pow(n)
  BY DEF Shl, Shr, Pow
<1>2. x \in Nat /\ Pow(n) \in Nat /\ Modulus \in Nat /\ Modulus > 0
  BY WordsAre, PowIs DEF Word64
<1> DEFINE y == x * Pow(n)
<1>3. y \in Nat
  BY <1>2
<1> HIDE DEF y
<1>4. y % Modulus \in 0..(Modulus - 1) /\ (y < Modulus => y % Modulus = y)
  BY <1>2, <1>3, DividedBy, SmallRest
<1> QED
  BY <1>1, <1>4 DEF y, Word64

-----------------------------------------------------------------------------
(* The leading zero bits.                                                  *)

\* One halving, with f for the rest.
Halving(f, x, h) ==
  LET clear == x < 2^(Width - h)
      n == IF clear THEN h ELSE 0
  IN IF h = 1 THEN n ELSE n + f[h \div 2][Shl(x, n)]

ClzUpTo(f, k) == f = [h \in 1..k |-> [x \in Word64 |-> Halving(f, x, h)]]

LEMMA HalvingSame ==
  ASSUME NEW k \in Nat, k <= Width, NEW f, NEW g, NEW x \in Word64, NEW h \in 1..k,
         \A m \in 1..k : m < h => f[m] = g[m]
  PROVE  Halving(f, x, h) = Halving(g, x, h)
<1>1. CASE h = 1
  BY <1>1 DEF Halving
<1>2. CASE h # 1
  <2>1. h \div 2 \in 1..k /\ h \div 2 < h
    <3>1. h \in Nat /\ h >= 2 /\ h <= k
      BY <1>2
    <3> QED
      BY <3>1
  <2>2. f[h \div 2] = g[h \div 2]
    BY <2>1
  <2> QED
    BY <1>2, <2>2 DEF Halving
<1> QED
  BY <1>1, <1>2

LEMMA ClzExists == \E f : ClzUpTo(f, Width)
<1> DEFINE G == {k \in Nat : k <= Width => \E f : ClzUpTo(f, k)}
<1>1. 0 \in G
  <2>1. 1..0 = {}
    OBVIOUS
  <2> DEFINE f == [h \in 1..0 |-> [x \in Word64 |-> 0]]
  <2>2. f = [h \in 1..0 |-> [x \in Word64 |-> Halving(f, x, h)]]
    BY <2>1
  <2>3. ClzUpTo(f, 0)
    BY <2>2 DEF ClzUpTo
  <2> HIDE DEF f
  <2> QED
    BY <2>3
<1>2. ASSUME NEW k \in Nat, k \in G PROVE k + 1 \in G
  <2> SUFFICES ASSUME k + 1 <= Width PROVE \E f : ClzUpTo(f, k + 1)
    OBVIOUS
  <2>1. PICK f : ClzUpTo(f, k)
    BY <1>2, WordsAre
  <2>2. \A h \in 1..k : f[h] = [x \in Word64 |-> Halving(f, x, h)]
    BY <2>1 DEF ClzUpTo
  <2> DEFINE g == [h \in 1..(k + 1) |-> [x \in Word64 |-> Halving(f, x, h)]]
  <2>3. \A h \in 1..k : h \in 1..(k + 1) /\ g[h] = f[h]
    BY <2>2
  <2>4. ASSUME NEW h \in 1..(k + 1), NEW x \in Word64 PROVE Halving(f, x, h) = Halving(g, x, h)
    <3>1. \A m \in 1..(k + 1) : m < h => f[m] = g[m]
      <4>1. \A m \in 1..(k + 1) : m < h => m \in 1..k
        OBVIOUS
      <4> QED
        BY <2>3, <4>1
    <3> HIDE DEF g
    <3>2. k + 1 \in Nat
      OBVIOUS
    <3> QED
      BY <3>1, <3>2, HalvingSame
  <2>5. g = [h \in 1..(k + 1) |-> [x \in Word64 |-> Halving(g, x, h)]]
    BY <2>4
  <2>6. ClzUpTo(g, k + 1)
    BY <2>5 DEF ClzUpTo
  <2> HIDE DEF g
  <2> QED
    BY <2>6
<1>3. Width \in G
  <2> HIDE DEF G
  <2> QED
    BY <1>1, <1>2, NumbersInTurn, WordsAre
<1> QED
  BY <1>3

LEMMA ClzIs == \A x \in Word64, h \in 1..Width : clzdi2[h][x] = Halving(clzdi2, x, h)
<1>1. ClzUpTo(clzdi2, Width)
  <2>1. clzdi2 = CHOOSE f : ClzUpTo(f, Width)
    BY DEF clzdi2, ClzUpTo, Halving
  <2> QED
    BY <2>1, ClzExists
<1>2. clzdi2 = [h \in 1..Width |-> [x \in Word64 |-> Halving(clzdi2, x, h)]]
  BY <1>1 DEF ClzUpTo
<1> DEFINE g == [h \in 1..Width |-> [x \in Word64 |-> Halving(clzdi2, x, h)]]
<1>3. \A x \in Word64, h \in 1..Width : g[h][x] = Halving(clzdi2, x, h)
  OBVIOUS
<1>4. clzdi2 = g
  BY <1>2, Zenon
<1> HIDE DEF g
<1>5. \A x \in Word64, h \in 1..Width : clzdi2[h][x] = g[h][x]
  BY <1>4, Zenon
<1> QED
  BY <1>3, <1>5, Zenon

\* The word with its first one bit moved to the top.
FirstBit(x, c) == x * Pow(c) < Modulus /\ Modulus <= 2 * (x * Pow(c))

LEMMA HalvingIs ==
  ASSUME NEW h \in Nat, h >= 1, 2 * h <= Width, NEW x \in Word64, x >= Pow(Width - 2 * h)
  PROVE  LET n == IF x < 2^(Width - h) THEN h ELSE 0
         IN /\ n \in {0, h} /\ Shl(x, n) = x * Pow(n) /\ Shl(x, n) \in Word64
            /\ Shl(x, n) >= Pow(Width - h)
<1>1. /\ Width - h \in Nat /\ Width - h + h = Width
      /\ Width - 2 * h \in Nat /\ Width - 2 * h + h = Width - h
  BY WordsAre
<1>2. x \in Nat /\ Modulus = Pow(Width) /\ x < Modulus
  BY WordsAre DEF Word64
<1>3. 2^(Width - h) = Pow(Width - h) /\ Pow(Width - h) \in Nat
  BY <1>1, PowIs DEF Pow
<1>4. CASE x < Pow(Width - h)
  <2>1. x * Pow(h) < Pow(Width) /\ x * Pow(h) >= Pow(Width - h)
    <3>1. x * Pow(h) < Pow(Width - h + h)
      BY <1>1, <1>2, <1>4, PowTimes
    <3>2. x * Pow(h) >= Pow(Width - 2 * h + h)
      BY <1>1, <1>2, PowTimes
    <3> QED
      BY <1>1, <3>1, <3>2
  <2>2. Shl(x, h) = x * Pow(h) /\ Shl(x, h) \in Word64
    BY <1>2, <2>1, ShiftsAre
  <2> QED
    BY <1>3, <1>4, <2>1, <2>2
<1>5. CASE ~(x < Pow(Width - h))
  <2>1. x * Pow(0) = x
    BY <1>2, PowIs
  <2>2. Shl(x, 0) = x * Pow(0) /\ Shl(x, 0) \in Word64
    BY <1>2, <2>1, ShiftsAre
  <2>3. x >= Pow(Width - h)
    BY <1>2, <1>3, <1>5
  <2> QED
    BY <1>3, <1>5, <2>1, <2>2, <2>3
<1> QED
  BY <1>4, <1>5

ClzFinds(x, h) == clzdi2[h][x] \in 0..(2 * h - 1) /\ FirstBit(x, clzdi2[h][x])

LEMMA ClzFrom ==
  \A i \in Nat : 2 * Pow(i) <= Width =>
    \A x \in Word64 : x >= Pow(Width - 2 * Pow(i)) => ClzFinds(x, Pow(i))
<1> DEFINE G == {i \in Nat : 2 * Pow(i) <= Width =>
                   \A x \in Word64 : x >= Pow(Width - 2 * Pow(i)) => ClzFinds(x, Pow(i))}
<1>1. 0 \in G
  <2> SUFFICES ASSUME NEW x \in Word64, x >= Pow(Width - 2 * 1) PROVE ClzFinds(x, 1)
    BY PowIs
  <2> DEFINE n == IF x < 2^(Width - 1) THEN 1 ELSE 0
             y == Shl(x, n)
  <2>1. n \in {0, 1} /\ y = x * Pow(n) /\ y \in Word64 /\ y >= Half
    BY HalvingIs, WordsAre DEF Half
  <2>2. clzdi2[1][x] = n
    <3>1. 1 \in 1..Width
      BY WordsAre
    <3> QED
      BY <3>1, ClzIs DEF Halving
  <2> HIDE DEF n, y
  <2>3. FirstBit(x, n)
    <3>1. y < Modulus /\ Modulus <= 2 * y
      BY <2>1, WordsAre DEF Word64
    <3> QED
      BY <2>1, <3>1 DEF FirstBit
  <2> QED
    BY <2>1, <2>2, <2>3 DEF ClzFinds
<1>2. ASSUME NEW i \in Nat, i \in G PROVE i + 1 \in G
  <2> DEFINE g == Pow(i)
             h == Pow(i + 1)
  <2>1. h = 2 * g /\ g \in Nat /\ g >= 1 /\ i + 1 \in Nat
    BY PowIs
  <2> HIDE DEF g, h
  <2> SUFFICES ASSUME 2 * h <= Width, NEW x \in Word64, x >= Pow(Width - 2 * h)
               PROVE  ClzFinds(x, h)
    BY <2>1 DEF h
  <2>2. h \in 1..Width /\ h # 1 /\ h \div 2 = g /\ 2 * g <= Width /\ h \in Nat /\ h >= 1
    BY <2>1, WordsAre
  <2> DEFINE n == IF x < 2^(Width - h) THEN h ELSE 0
             y == Shl(x, n)
             d == clzdi2[g][y]
  <2>3. n \in {0, h} /\ y = x * Pow(n) /\ y \in Word64 /\ y >= Pow(Width - h)
    BY <2>2, HalvingIs
  <2>4. clzdi2[h][x] = n + d
    BY <2>2, ClzIs DEF Halving
  <2> HIDE DEF n, y
  <2>5. d \in 0..(2 * g - 1) /\ FirstBit(y, d)
    <3>1. \A v \in Word64 : v >= Pow(Width - 2 * g) => ClzFinds(v, g)
      BY <1>2, <2>2 DEF g
    <3>2. ClzFinds(y, g)
      BY <2>1, <2>3, <3>1
    <3> QED
      BY <3>2 DEF ClzFinds
  <2> HIDE DEF d
  <2>6. n \in Nat /\ d \in Nat /\ n + d \in 0..(2 * h - 1)
    BY <2>1, <2>3, <2>5
  <2>7. x * Pow(n + d) = y * Pow(d)
    <3>1. Pow(n + d) = Pow(n) * Pow(d) /\ Pow(n) \in Int /\ Pow(d) \in Int /\ x \in Int
      <4>1. Pow(n + d) = Pow(n) * Pow(d)
        BY <2>6, PowPlus, Zenon
      <4>2. Pow(n) \in Int /\ Pow(d) \in Int /\ x \in Int
        BY <2>6, PowIs DEF Word64
      <4> QED
        BY <4>1, <4>2, Zenon
    <3>2. x * (Pow(n) * Pow(d)) = (x * Pow(n)) * Pow(d)
      BY <3>1, ProductOf
    <3> QED
      BY <2>3, <3>1, <3>2
  <2> QED
    BY <2>4, <2>5, <2>6, <2>7 DEF ClzFinds, FirstBit
<1> HIDE DEF G
<1>3. \A i \in Nat : i \in G
  BY <1>1, <1>2, NumbersInTurn
<1> QED
  BY <1>3 DEF G

LEMMA ClzFindsFirst ==
  ASSUME NEW x \in Word64, x # 0
  PROVE  __clzdi2(x) \in 0..(Width - 1) /\ FirstBit(x, __clzdi2(x))
<1>1. PICK i \in Nat : HalfWidth = Pow(i)
  BY WordsAre
<1>2. 2 * HalfWidth = Width /\ Width - 2 * HalfWidth = 0
  BY WordsAre
<1>3. x >= Pow(0)
  BY PowIs, WordsAre DEF Word64
<1>4. ClzFinds(x, HalfWidth)
  BY <1>1, <1>2, <1>3, ClzFrom, WordsAre
<1> QED
  BY <1>2, <1>4 DEF ClzFinds, __clzdi2, HalfWidth

-----------------------------------------------------------------------------
(* The loop.                                                               *)

\* x is divided by y, n bits of it in the loop and k of these yet; u, m and w are a, rem
\* and wrap.  What is found so far and the bits to come, c, share u.
LoopIs(x, y, n, k, u, m, w) ==
  /\ n \in 1..(Width - 1) /\ k \in 0..n
  /\ w \in {0, Modulus - 1} /\ (k = n => w = 0)
  /\ (y >= Half => n = 1) /\ y <= x /\ m \in 0..(y - 1)
  /\ \E c \in 0..(Pow(k) - 1), q \in 0..(Pow(n - k) - 1) :
       u = c * Pow(Width - k) + q /\ ((2 * q + (w % 2)) * y + m) * Pow(k) + c = x

LEMMA LastBit ==
  /\ 0 % 2 = 0 /\ (Modulus - 1) % 2 = 1 /\ 0 \in Word64 /\ Modulus - 1 \in Word64
  /\ 0 # Modulus - 1
<1>1. Half \in Nat /\ Half >= 2 /\ Modulus = 2 * Half
  BY WordsAre
<1>2. 2 * (Half - 1) + 1 = Modulus - 1 /\ 1 \in 0..(2 - 1) /\ Half - 1 \in Int
  BY <1>1
<1>3. (2 * (Half - 1) + 1) % 2 = 1
  BY <1>2, OneQuotient
<1> QED
  BY <1>1, <1>2, <1>3 DEF Word64

LEMMA BitsAre ==
  ASSUME NEW x \in Word64, NEW y \in Word64, ~IsDirect(x, y)
  PROVE  /\ 2 <= y /\ y <= x /\ Bits(x, y) \in 1..(Width - 1)
         /\ (y >= Half => Bits(x, y) = 1) /\ x < y * Pow(Bits(x, y))
<1> DEFINE i == __clzdi2(x)
           j == __clzdi2(y)
           n == Bits(x, y)
<1>1. x \in Nat /\ y \in Nat /\ 2 <= y /\ y <= x
  BY DEF IsDirect, Word64
<1>2. /\ i \in 0..(Width - 1) /\ x * Pow(i) < Modulus /\ Modulus <= 2 * (x * Pow(i))
      /\ j \in 0..(Width - 1) /\ y * Pow(j) < Modulus /\ Modulus <= 2 * (y * Pow(j))
  BY <1>1, ClzFindsFirst DEF FirstBit
<1>3. n = j - i + 1
  BY DEF Bits
<1> HIDE DEF i, j, n
<1>4. i \in Nat /\ j \in Nat /\ Width \in Nat
  BY <1>2, WordsAre
<1>5. \A k \in Nat : Pow(k) \in Nat /\ Pow(k) >= 1 /\ y * Pow(k) \in Nat /\ x * Pow(k) \in Nat
                     /\ y * Pow(k) <= x * Pow(k)
  <2> SUFFICES ASSUME NEW k \in Nat
               PROVE  Pow(k) \in Nat /\ Pow(k) >= 1 /\ y * Pow(k) \in Nat /\ x * Pow(k) \in Nat
                      /\ y * Pow(k) <= x * Pow(k)
    OBVIOUS
  <2> DEFINE w == Pow(k)
  <2>1. w \in Nat /\ w >= 1
    BY PowIs
  <2> HIDE DEF w
  <2>2. w * y <= w * x
    BY <1>1, <2>1, Product
  <2>3. y * w \in Nat /\ x * w \in Nat /\ y * w <= x * w
    BY <1>1, <2>1, <2>2
  <2> QED
    BY <2>1, <2>3 DEF w
<1>6. i <= j
  <2> SUFFICES ASSUME j + 1 <= i PROVE FALSE
    BY <1>4
  <2>1. j + 1 \in Nat /\ Pow(j + 1) <= Pow(i) /\ Pow(j + 1) = 2 * Pow(j)
    BY <1>4, PowOrder, PowIs
  <2> DEFINE v == Pow(j)
             w == Pow(i)
  <2>2. v \in Nat /\ w \in Nat /\ 2 * v <= w /\ y * v <= x * v /\ y * v \in Nat
    BY <1>4, <1>5, <2>1
  <2> HIDE DEF v, w
  <2>3. x * (2 * v) <= x * w /\ x * (2 * v) = 2 * (x * v)
    BY <1>1, <2>2, Product
  <2>4. x * v \in Nat /\ x * w \in Nat
    BY <1>1, <2>2
  <2>5. 2 * (y * v) <= x * w
    BY <2>2, <2>3, <2>4
  <2>6. x * w < Modulus /\ Modulus <= 2 * (y * v)
    BY <1>2 DEF v, w
  <2> QED
    BY <2>2, <2>4, <2>5, <2>6, WordsAre
<1>7. j <= Width - 2
  <2> SUFFICES ASSUME j = Width - 1 PROVE FALSE
    BY <1>2, <1>4
  <2>1. y * Half < Modulus /\ Modulus = 2 * Half /\ Half \in Nat
    BY <1>2, WordsAre DEF Half
  <2>2. Half * 2 <= Half * y
    BY <1>1, <2>1, Product
  <2> QED
    BY <1>1, <2>1, <2>2
<1>8. n \in 1..(Width - 1)
  BY <1>3, <1>4, <1>6, <1>7
<1>9. ASSUME y >= Half PROVE n = 1
  <2>1. j = 0
    <3> SUFFICES ASSUME j >= 1 PROVE FALSE
      BY <1>4
    <3>1. Pow(1) = 2
      <4>1. Pow(0 + 1) = 2 * Pow(0)
        BY PowIs
      <4> QED
        BY <4>1, PowIs
    <3>2. Pow(1) <= Pow(j)
      BY <1>4, PowOrder
    <3> DEFINE v == Pow(j)
    <3>3. v \in Nat /\ 2 <= v /\ y * v < Modulus
      BY <1>2, <1>4, <1>5, <3>1, <3>2
    <3> HIDE DEF v
    <3>4. y * 2 <= y * v
      BY <1>1, <3>3, Product
    <3>5. y * v \in Nat
      BY <1>1, <3>3
    <3> QED
      BY <1>1, <1>9, <3>3, <3>4, <3>5, WordsAre
  <2> QED
    BY <1>3, <1>4, <1>6, <2>1
<1>10. x < y * Pow(n)
  <2>1. n \in Nat /\ n + i = j + 1
    BY <1>3, <1>4, <1>8
  <2>2. Pow(n) * Pow(i) = 2 * Pow(j)
    BY <1>4, <2>1, PowPlus, PowIs
  <2> DEFINE v == Pow(n)
             w == Pow(i)
             z == Pow(j)
  <2>3. v \in Nat /\ w \in Nat /\ z \in Nat /\ v * w = 2 * z /\ x * w < Modulus /\ Modulus <= 2 * (y * z)
    BY <1>2, <1>4, <2>1, <2>2, PowIs
  <2> HIDE DEF v, w, z
  <2>4. y * v \in Nat /\ y * (v * w) = (y * v) * w /\ y * (2 * z) = 2 * (y * z)
    BY <1>1, <2>3
  <2>5. ~(y * v <= x)
    <3> SUFFICES ASSUME y * v <= x PROVE FALSE
      OBVIOUS
    <3>1. w * (y * v) <= w * x
      BY <1>1, <2>3, <2>4, Product
    <3>2. w * (y * v) = (y * v) * w /\ w * x = x * w /\ x * w \in Nat
      BY <1>1, <2>3, <2>4
    <3>3. (y * v) * w = 2 * (y * z)
      BY <2>3, <2>4
    <3>4. 2 * (y * z) \in Nat
      BY <1>1, <2>3
    <3> QED
      BY <2>3, <3>1, <3>2, <3>3, <3>4, WordsAre
  <2> QED
    BY <1>1, <2>4, <2>5 DEF v
<1> QED
  BY <1>1, <1>8, <1>9, <1>10 DEF n

\* What the loop begins with.
LEMMA LoopStarts ==
  ASSUME NEW x \in Word64, NEW y \in Word64, ~IsDirect(x, y)
  PROVE  LET n == Bits(x, y)
         IN /\ n \in 0..(Width - 1) /\ Shr(x, n) \in Word64 /\ Shl(x, Width - n) \in Word64
            /\ LoopIs(x, y, n, n, Shl(x, Width - n), Shr(x, n), 0)
<1> DEFINE n == Bits(x, y)
           v == Pow(n)
           w == Pow(Width - n)
           m == x \div v
           c == x % v
<1>1. n \in 1..(Width - 1) /\ 2 <= y /\ y <= x /\ (y >= Half => n = 1) /\ x < y * v
  BY BitsAre
<1>2. x \in Nat /\ y \in Nat /\ x < Modulus /\ y < Modulus /\ Modulus = Pow(Width) /\ Modulus \in Nat
  BY WordsAre DEF Word64
<1> HIDE DEF n
<1>3. n \in Nat /\ Width - n \in Nat /\ n + (Width - n) = Width
  BY <1>1, WordsAre
<1>4. v \in Nat /\ v >= 1 /\ w \in Nat /\ w >= 1 /\ v * w = Modulus
  BY <1>2, <1>3, PowIs, PowPlus
<1>5. Shr(x, n) = m /\ Shl(x, Width - n) = (x * w) % Modulus /\ Shl(x, Width - n) \in Word64
  BY <1>3, ShiftsAre
<1> HIDE DEF v, w
<1>6. m \in Nat /\ c \in 0..(v - 1) /\ x = v * m + c
  BY <1>2, <1>4, DividedBy
<1> HIDE DEF m, c
<1>7. m \in 0..(y - 1)
  <2>1. ~(y <= m)
    <3> SUFFICES ASSUME y <= m PROVE FALSE
      OBVIOUS
    <3>1. v * y <= v * m /\ v * y = y * v /\ v * m \in Nat /\ v * y \in Nat
      BY <1>2, <1>4, <1>6, Product
    <3> QED
      BY <1>1, <1>2, <1>6, <3>1
  <2> QED
    BY <1>2, <1>6, <2>1
<1>8. (x * w) % Modulus = c * w
  <2>1. x * w = Modulus * m + c * w
    <3>1. x * w = (v * m) * w + c * w
      BY <1>4, <1>6
    <3>2. (v * m) * w = (v * w) * m
      BY <1>4, <1>6
    <3> QED
      BY <1>4, <3>1, <3>2
  <2>2. c * w \in 0..(Modulus - 1)
    <3>1. c \in Nat /\ c + 1 <= v
      BY <1>4, <1>6
    <3>2. w * (c + 1) <= w * v /\ w * (c + 1) = w * c + w /\ w * c = c * w /\ w * v = v * w
      BY <1>4, <3>1, Product
    <3>3. c * w \in Nat
      BY <1>4, <3>1
    <3> QED
      BY <1>2, <1>4, <3>2, <3>3
  <2> DEFINE e == x * w
             f == c * w
  <2>3. e = Modulus * m + f /\ f \in 0..(Modulus - 1) /\ Modulus \in Nat /\ Modulus > 0 /\ m \in Int
    BY <1>6, <2>1, <2>2, WordsAre
  <2> HIDE DEF e, f
  <2>4. e % Modulus = f
    BY <2>3, QuotientOf
  <2> QED
    BY <2>4 DEF e, f
<1>9. m \in Word64
  BY <1>2, <1>7 DEF Word64
<1>10. LoopIs(x, y, n, n, c * w, m, 0)
  <2>1. n - n = 0 /\ Pow(n - n) = 1
    BY <1>3, PowIs
  <2>2. 0 \in 0..(Pow(n - n) - 1) /\ c \in 0..(Pow(n) - 1) /\ n \in 0..n
    BY <1>3, <1>6, <2>1 DEF v
  <2>3. c * w = c * Pow(Width - n) + 0
    <3>1. c * w = c * w + 0
      BY <1>4, <1>6
    <3> QED
      BY <3>1 DEF w
  <2>4. ((2 * 0 + (0 % 2)) * y + m) * Pow(n) + c = x
    <3>1. (2 * 0 + 0) * y + m = m
      BY <1>2, <1>6
    <3>2. m * v + c = x
      BY <1>4, <1>6
    <3> QED
      BY <3>1, <3>2, LastBit DEF v
  <2> QED
    BY <1>1, <1>7, <2>2, <2>3, <2>4 DEF LoopIs
<1> QED
  BY <1>1, <1>3, <1>5, <1>8, <1>9, <1>10 DEF n

\* The sign of a difference tells which is less, for words that differ by less than half
\* the range.
LEMMA WrapIs ==
  ASSUME b \in Word64, NEW r \in Word64, r < b => b - r - 1 < Half, ~(r < b) => r - b < Half
  PROVE  Wrap(r) = IF r < b THEN 0 ELSE Modulus - 1
<1>1. /\ Half \in Nat /\ Half >= 2 /\ Modulus = 2 * Half /\ Modulus \div 2 = Half
      /\ b \in Nat /\ r \in Nat
  BY WordsAre DEF Word64
<1> DEFINE v == (b - r - 1) % Modulus
<1>2. Wrap(r) = IF SignedValue(v) < 0 THEN Modulus - 1 ELSE 0
  BY DEF Wrap
<1>3. SignedValue(v) = IF v >= Half THEN v - Modulus ELSE v
  BY <1>1 DEF SignedValue
<1>4. CASE r < b
  <2>1. b - r - 1 \in 0..(Modulus - 1) /\ b - r - 1 < Half /\ Modulus > 0 /\ Modulus \in Nat
    BY <1>1, <1>4
  <2>2. v = b - r - 1
    BY <2>1, SmallRest
  <2> HIDE DEF v
  <2>3. SignedValue(v) = v /\ ~(v < 0)
    BY <1>1, <1>3, <2>1, <2>2
  <2> QED
    BY <1>2, <1>4, <2>3
<1>5. CASE ~(r < b)
  <2> DEFINE d == r - b + 1
  <2>1. d \in 1..(Modulus - 1) /\ d <= Half /\ -d = b - r - 1
    BY <1>1, <1>5
  <2>2. v = Modulus - d
    <3> HIDE DEF d
    <3>1. (-d) % Modulus = Modulus - d
      BY <2>1, NegativeRest, WordsAre
    <3> QED
      BY <2>1, <3>1
  <2> HIDE DEF v, d
  <2>3. SignedValue(v) < 0
    BY <1>1, <1>3, <2>1, <2>2
  <2> QED
    BY <1>2, <1>5, <2>3
<1> QED
  BY <1>4, <1>5

\* The parts of u before and after a shift to the left.
LEMMA ShiftedPair ==
  ASSUME NEW n \in 1..(Width - 1), NEW k \in 1..n, NEW c \in 0..(Pow(k) - 1),
         NEW q \in 0..(Pow(n - k) - 1), NEW z \in {0, 1}
  PROVE  LET u == c * Pow(Width - k) + q
             high == c \div Pow(k - 1)
             rest == c % Pow(k - 1)
         IN /\ high \in {0, 1} /\ rest \in 0..(Pow(k - 1) - 1) /\ c = high * Pow(k - 1) + rest
            /\ 2 * q + z \in 0..(Pow(n - (k - 1)) - 1)
            /\ Shr(u, Width - 1) = high
            /\ Shl(u, 1) + z = rest * Pow(Width - (k - 1)) + (2 * q + z)
            /\ Shl(u, 1) + z \in Word64
<1> DEFINE u == c * Pow(Width - k) + q
           v == Pow(k - 1)
           w == Pow(Width - k)
           f == Pow(n - k)
           high == c \div v
           rest == c % v
<1>1. /\ Width \in Nat /\ n \in Nat /\ k \in Nat /\ k - 1 \in Nat /\ Width - k \in Nat
      /\ n - k \in Nat /\ k - 1 + 1 = k /\ Width - k + 1 = Width - (k - 1)
      /\ n - k + 1 = n - (k - 1) /\ n - k + 1 <= Width - k
      /\ (k - 1) + (Width - k) = Width - 1 /\ Width - 1 \in Nat /\ Width - (k - 1) \in Nat
  BY WordsAre
<1>2. /\ v \in Nat /\ v >= 1 /\ w \in Nat /\ w >= 1 /\ f \in Nat /\ f >= 1
      /\ Pow(k) = 2 * v /\ Pow(Width - (k - 1)) = 2 * w /\ Pow(n - (k - 1)) = 2 * f
      /\ v * w = Half
  <2>1. v \in Nat /\ v >= 1 /\ w \in Nat /\ w >= 1 /\ f \in Nat /\ f >= 1
    BY <1>1, PowIs
  <2>2. Pow(k) = 2 * v
    BY <1>1, PowIs
  <2>3. Pow(Width - (k - 1)) = 2 * w
    BY <1>1, PowIs
  <2>4. Pow(n - (k - 1)) = 2 * f
    BY <1>1, PowIs
  <2>5. v * w = Half
    BY <1>1, PowPlus DEF Half
  <2> QED
    BY <2>1, <2>2, <2>3, <2>4, <2>5
<1>3. 2 * f <= w
  <2>1. Pow(n - k + 1) <= Pow(Width - k)
    BY <1>1, PowOrder
  <2> QED
    BY <1>1, <1>2, <2>1
<1>4. c \in Nat /\ c < 2 * v /\ q \in Nat /\ q < f
  BY <1>2
<1>5. Modulus \in Nat /\ Modulus = 2 * Half /\ Half \in Nat /\ Half >= 2 /\ Half = Pow(Width - 1)
  BY WordsAre DEF Half
<1> HIDE DEF v, w, f
<1>6. high \in Nat /\ rest \in 0..(v - 1) /\ c = v * high + rest
  BY <1>2, <1>4, DividedBy
<1> HIDE DEF high, rest
<1>7. high \in {0, 1} /\ c = high * v + rest
  <2>1. ~(2 <= high)
    <3> SUFFICES ASSUME 2 <= high PROVE FALSE
      OBVIOUS
    <3>1. v * 2 <= v * high /\ v * high \in Nat
      BY <1>2, <1>6, Product
    <3> QED
      BY <1>2, <1>4, <1>6, <3>1
  <2>2. high * v = v * high
    BY <1>2, <1>6
  <2> QED
    BY <1>6, <2>1, <2>2
<1>8. 2 * q + z \in 0..(2 * f - 1) /\ 2 * q + z < w /\ q < w
  BY <1>2, <1>3, <1>4
<1>9. rest * w \in Nat /\ rest * w + w <= Half
  <2>1. rest \in Nat /\ rest + 1 <= v
    BY <1>2, <1>6
  <2>2. w * (rest + 1) <= w * v /\ w * (rest + 1) = w * rest + w /\ w * v = v * w /\ w * rest = rest * w
    BY <1>2, <2>1, Product
  <2>3. rest * w \in Nat
    BY <1>2, <2>1
  <2> QED
    BY <1>2, <2>2, <2>3
<1>10. u = Half * high + (rest * w + q)
  <2>1. u = c * w + q
    BY DEF w
  <2>2. rest \in Int
    BY <1>6
  <2>3. c * w = (v * high) * w + rest * w /\ (v * high) * w = (v * w) * high
    BY <1>2, <1>6, <2>2
  <2>4. (v * w) * high \in Int /\ rest * w \in Int
    BY <1>2, <1>6, <2>2
  <2>5. (v * w) * high = Half * high
    BY <1>2
  <2> DEFINE e == (v * w) * high
             d == rest * w
  <2>6. e \in Int /\ d \in Int /\ c * w = e + d
    BY <2>3, <2>4
  <2> HIDE DEF u, e, d
  <2>7. u = e + (d + q)
    BY <1>4, <2>1, <2>6
  <2> QED
    BY <2>5, <2>7 DEF e, d
<1> HIDE DEF u
<1> DEFINE d == rest * w
<1>11. d \in Nat /\ d + w <= Half /\ u = Half * high + (d + q)
  BY <1>9, <1>10
<1>12. rest * (2 * w) = 2 * d
  BY <1>2, <1>6
<1> HIDE DEF d
<1>13. d + q \in 0..(Half - 1) /\ 2 * (d + q) + z \in 0..(Modulus - 1) /\ 2 * (d + q) \in 0..(Modulus - 1)
  BY <1>2, <1>4, <1>5, <1>8, <1>11
<1>14. u \div Half = high /\ u \in Word64
  <2>1. u \div Half = high
    <3> DEFINE e == d + q
    <3>1. u = Half * high + e /\ e \in 0..(Half - 1) /\ Half \in Nat /\ Half > 0 /\ high \in Int
      BY <1>5, <1>7, <1>11, <1>13
    <3> HIDE DEF e
    <3> QED
      BY <3>1, QuotientOf
  <2>2. Half * high \in {0, Half}
    BY <1>5, <1>7
  <2> DEFINE e == Half * high
             h == d + q
  <2>3. u = e + h /\ e \in {0, Half} /\ h \in 0..(Half - 1)
    BY <1>11, <1>13, <2>2
  <2> HIDE DEF e, h
  <2>4. u \in Word64
    BY <1>5, <2>3 DEF Word64
  <2> QED
    BY <2>1, <2>4
<1>15. Shr(u, Width - 1) = high
  BY <1>1, <1>5, <1>14, ShiftsAre
<1>16. Shl(u, 1) = 2 * (d + q)
  <2>1. Pow(1) = 2
    <3>1. Pow(0 + 1) = 2 * Pow(0)
      BY PowIs
    <3> QED
      BY <3>1, PowIs
  <2>2. Shl(u, 1) = (u * 2) % Modulus
    BY <1>14, <2>1, ShiftsAre
  <2>3. u * 2 = Modulus * high + 2 * (d + q)
    BY <1>4, <1>5, <1>7, <1>11
  <2> DEFINE e == 2 * (d + q)
             h == u * 2
  <2>4. h = Modulus * high + e /\ e \in 0..(Modulus - 1) /\ Modulus \in Nat /\ Modulus > 0 /\ high \in Int
    BY <1>5, <1>7, <1>13, <2>3
  <2> HIDE DEF e, h
  <2>5. h % Modulus = e
    BY <2>4, QuotientOf
  <2> QED
    BY <2>2, <2>5 DEF e, h
<1>17. Shl(u, 1) + z = rest * Pow(Width - (k - 1)) + (2 * q + z)
  BY <1>2, <1>4, <1>11, <1>12, <1>16
<1>18. Shl(u, 1) + z \in Word64
  BY <1>4, <1>11, <1>13, <1>16 DEF Word64
<1> QED
  BY <1>2, <1>6, <1>7, <1>8, <1>15, <1>17, <1>18 DEF u, v, high, rest

\* The low bit of wrap.
LEMMA LowBit == \A w \in {0, Modulus - 1} : w % 2 \in {0, 1} /\ (w = 0 => w % 2 = 0) /\ (w # 0 => w % 2 = 1)
BY LastBit

\* One turn.
LEMMA LoopTurn ==
  ASSUME NEW x \in Word64, b \in Word64, NEW n, NEW k, NEW u, NEW m, NEW w,
         LoopIs(x, b, n, k, u, m, w), k # 0
  PROVE  LET r == (Shl(m, 1) + Shr(u, Width - 1)) % Modulus
             s == IF Wrap(r) = 0 THEN r ELSE (r - b) % Modulus
             t == Shl(u, 1) + (w % 2)
         IN t \in Word64 /\ s \in Word64 /\ Wrap(r) \in Word64 /\ LoopIs(x, b, n, k - 1, t, s, Wrap(r))
<1>1. /\ n \in 1..(Width - 1) /\ k \in 1..n
      /\ w \in {0, Modulus - 1} /\ (k = n => w = 0)
      /\ (b >= Half => n = 1) /\ b <= x /\ m \in 0..(b - 1)
  BY WordsAre DEF LoopIs
<1>2. PICK c \in 0..(Pow(k) - 1), q \in 0..(Pow(n - k) - 1) :
        u = c * Pow(Width - k) + q /\ ((2 * q + (w % 2)) * b + m) * Pow(k) + c = x
  BY DEF LoopIs
<1> DEFINE z == w % 2
           v == Pow(k - 1)
           high == c \div v
           rest == c % v
           t == Shl(u, 1) + z
           f == 2 * q + z
           p == 2 * m + high
           r == (Shl(m, 1) + Shr(u, Width - 1)) % Modulus
           s == IF Wrap(r) = 0 THEN r ELSE (r - b) % Modulus
<1>3. z \in {0, 1} /\ (k = n => z = 0)
  BY <1>1, LowBit
<1>4. /\ high \in {0, 1} /\ rest \in 0..(v - 1) /\ c = high * v + rest
      /\ f \in 0..(Pow(n - (k - 1)) - 1) /\ Shr(u, Width - 1) = high
      /\ t = rest * Pow(Width - (k - 1)) + f /\ t \in Word64
  <2> HIDE DEF z
  <2> QED
    BY <1>1, <1>2, <1>3, ShiftedPair
<1>5. /\ x \in Nat /\ x < Modulus /\ b \in Nat /\ b < Modulus /\ m \in Nat /\ m < b
      /\ Modulus \in Nat /\ Modulus = 2 * Half /\ Half \in Nat /\ Half >= 2 /\ Width \in Nat
  BY <1>1, WordsAre DEF Word64
<1>6. k - 1 \in Nat /\ k \in Nat /\ k - 1 + 1 = k /\ n \in Nat /\ n - k \in Nat /\ k - 1 \in 0..n
      /\ k - 1 # n
  BY <1>1, <1>5
<1>7. v \in Nat /\ v >= 1 /\ Pow(k) = 2 * v /\ Pow(n - k) \in Nat
  BY <1>6, PowIs
<1>8. q \in Nat /\ rest \in Nat /\ f \in Nat
  <2>1. q \in Nat /\ rest \in Nat
    BY <1>2, <1>4, <1>7
  <2> QED
    BY <1>3, <2>1
<1>9. Shl(m, 1) = (m * 2) % Modulus
  <2>1. Pow(1) = 2
    <3>1. Pow(0 + 1) = 2 * Pow(0)
      BY PowIs
    <3> QED
      BY <3>1, PowIs
  <2>2. m \in Word64
    BY <1>5 DEF Word64
  <2> QED
    BY <2>1, <2>2, ShiftsAre
<1>10. (f * b + m) * (2 * v) + (high * v + rest) = x
  <2>1. (f * b + m) * Pow(k) + c = x
    BY <1>2
  <2> QED
    BY <1>4, <1>7, <2>1
<1>11. k = n => f = 0
  <2> SUFFICES ASSUME k = n PROVE f = 0
    OBVIOUS
  <2>1. Pow(n - k) = 1
    BY <1>6, PowIs
  <2>2. q = 0
    BY <1>2, <2>1
  <2> QED
    BY <1>3, <2>2
<1> HIDE DEF z, v, high, rest, f, t
<1>12. f * b \in Nat /\ (2 * (f * b) + p) * v + rest = x /\ p \in Nat
  <2>1. f * b \in Nat /\ p \in Nat
    BY <1>4, <1>5, <1>8
  <2> DEFINE e == f * b
  <2>2. e \in Nat /\ (e + m) * (2 * v) + (high * v + rest) = x
    BY <1>10, <2>1
  <2> HIDE DEF e
  <2>3. (e + m) * (2 * v) = (2 * e + 2 * m) * v
    BY <1>5, <1>7, <2>2
  <2>4. (2 * e + 2 * m) * v + high * v = (2 * e + 2 * m + high) * v
    BY <1>4, <1>5, <1>7, <2>2
  <2>5. (e + m) * (2 * v) \in Int /\ high * v \in Int
    BY <1>4, <1>5, <1>7, <2>2
  <2>6. 2 * e + 2 * m + high = 2 * e + p
    BY <1>4, <1>5, <2>2
  <2> QED
    BY <1>8, <2>1, <2>2, <2>3, <2>4, <2>5, <2>6 DEF e
<1> DEFINE e == f * b
<1>13. e \in Nat /\ (2 * e + p) * v + rest = x /\ p \in Nat
  BY <1>12
<1> HIDE DEF p, e
<1>14. 2 * e + p <= x
  <2> DEFINE g == 2 * e + p
  <2>1. g \in Nat /\ g * v + rest = x
    BY <1>13
  <2> HIDE DEF g
  <2>2. g * 1 <= g * v /\ g * 1 = g /\ g * v \in Nat
    BY <1>7, <2>1, Product
  <2>3. g <= x
    BY <1>8, <2>1, <2>2
  <2> QED
    BY <2>3 DEF g
<1>15. p <= x /\ p < 2 * b /\ m * 2 \in 0..(Modulus - 1) /\ p \in 0..(Modulus - 1)
  BY <1>4, <1>5, <1>13, <1>14 DEF p
<1>16. r = p /\ r \in Word64
  <2>1. Shl(m, 1) = m * 2
    BY <1>5, <1>9, <1>15, SmallRest
  <2>2. Shl(m, 1) + Shr(u, Width - 1) = p
    BY <1>4, <1>5, <2>1 DEF p
  <2> QED
    BY <1>5, <1>15, <2>2, SmallRest DEF Word64
<1> HIDE DEF r
<1>17. (r < b => b - r - 1 < Half) /\ (~(r < b) => r - b < Half)
  <2>1. CASE b >= Half
    <3>1. n = 1 /\ k = n
      BY <1>1, <2>1
    <3>2. v = 1 /\ rest = 0
      <4>1. v = 1
        BY <3>1, PowIs DEF v
      <4> QED
        BY <1>4, <4>1
    <3>3. e = 0
      <4>1. 0 * b = 0
        BY <1>5
      <4> QED
        BY <1>11, <3>1, <4>1 DEF e
    <3>4. r = x
      BY <1>5, <1>13, <1>16, <3>2, <3>3
    <3> QED
      BY <1>1, <1>5, <2>1, <3>4
  <2>2. CASE ~(b >= Half)
    BY <1>5, <1>13, <1>15, <1>16, <2>2
  <2> QED
    BY <2>1, <2>2
<1>18. Wrap(r) = IF r < b THEN 0 ELSE Modulus - 1
  BY <1>16, <1>17, WrapIs
<1> DEFINE h == IF r < b THEN 0 ELSE 1
<1>19. /\ Wrap(r) \in {0, Modulus - 1} /\ Wrap(r) \in Word64 /\ Wrap(r) % 2 = h /\ h \in {0, 1}
       /\ s = r - h * b /\ s \in 0..(b - 1) /\ s \in Word64
  <2>1. CASE r < b
    <3>1. Wrap(r) = 0 /\ s = r /\ h = 0
      BY <1>18, <2>1
    <3> QED
      BY <1>5, <1>13, <1>16, <2>1, <3>1, LastBit DEF Word64
  <2>2. CASE ~(r < b)
    <3>1. Wrap(r) = Modulus - 1 /\ h = 1 /\ s = (r - b) % Modulus
      BY <1>18, <2>2, LastBit
    <3>2. r - b \in 0..(Modulus - 1) /\ r - b < b
      BY <1>5, <1>13, <1>15, <1>16, <2>2
    <3>3. s = r - b
      BY <1>5, <3>1, <3>2, SmallRest
    <3> QED
      BY <1>5, <1>13, <1>16, <3>1, <3>2, <3>3, LastBit DEF Word64
  <2> QED
    BY <2>1, <2>2
<1> HIDE DEF s, h
<1>20. ((2 * f + h) * b + s) * v + rest = x
  <2>1. (2 * f + h) * b = 2 * e + h * b
    BY <1>5, <1>8, <1>19 DEF e
  <2>2. h * b \in Int
    BY <1>5, <1>19
  <2>3. (2 * f + h) * b + s = 2 * e + p
    BY <1>13, <1>16, <1>19, <2>1, <2>2
  <2> QED
    BY <1>13, <2>3
<1>21. LoopIs(x, b, n, k - 1, t, s, Wrap(r))
  <2>1. rest \in 0..(Pow(k - 1) - 1)
    BY <1>4 DEF v
  <2>2. ((2 * f + (Wrap(r) % 2)) * b + s) * Pow(k - 1) + rest = x
    BY <1>19, <1>20 DEF v
  <2>3. \E c1 \in 0..(Pow(k - 1) - 1), q1 \in 0..(Pow(n - (k - 1)) - 1) :
          t = c1 * Pow(Width - (k - 1)) + q1 /\ ((2 * q1 + (Wrap(r) % 2)) * b + s) * Pow(k - 1) + c1 = x
    BY <1>4, <2>1, <2>2
  <2> QED
    BY <1>1, <1>6, <1>19, <2>3 DEF LoopIs
<1> QED
  BY <1>4, <1>19, <1>21 DEF t, z, s, r

\* What the loop leaves.
LEMMA LoopEnds ==
  ASSUME NEW x \in Word64, b \in Word64, NEW n, NEW u, NEW m, NEW w, LoopIs(x, b, n, 0, u, m, w)
  PROVE  /\ Shl(u, 1) + (w % 2) \in Word64 /\ m \in Word64 /\ b # 0
         /\ Shl(u, 1) + (w % 2) = x \div b /\ m = x % b
<1>1. /\ n \in 1..(Width - 1) /\ w \in {0, Modulus - 1} /\ b <= x /\ m \in 0..(b - 1)
  BY DEF LoopIs
<1>2. PICK c \in 0..(Pow(0) - 1), q \in 0..(Pow(n - 0) - 1) :
        u = c * Pow(Width - 0) + q /\ ((2 * q + (w % 2)) * b + m) * Pow(0) + c = x
  BY DEF LoopIs
<1> DEFINE z == w % 2
           f == 2 * q + z
<1>3. z \in {0, 1}
  BY <1>1, LowBit
<1>4. /\ x \in Nat /\ x < Modulus /\ b \in Nat /\ b < Modulus /\ m \in Nat /\ b > 0
      /\ Modulus \in Nat /\ Modulus = 2 * Half /\ Half \in Nat /\ Width \in Nat /\ Modulus = Pow(Width)
  BY <1>1, WordsAre DEF Word64
<1>5. Pow(0) = 1 /\ n - 0 = n /\ Pow(n) \in Nat /\ Pow(n) <= Half
  <2>1. n \in Nat /\ Width - 1 \in Nat /\ n <= Width - 1
    BY <1>1, <1>4
  <2> QED
    BY <2>1, PowIs, PowOrder DEF Half
<1>6. c = 0 /\ q \in Nat /\ q < Half
  BY <1>2, <1>4, <1>5
<1>7. u = q
  <2>1. 0 * Pow(Width - 0) = 0
    <3>1. Width - 0 = Width
      BY <1>4
    <3> QED
      BY <1>4, <3>1
  <2> QED
    BY <1>2, <1>6, <2>1
<1> HIDE DEF z
<1>8. f \in Nat /\ f * b + m = x
  <2>1. f \in Nat
    BY <1>3, <1>6
  <2>2. (f * b + m) * 1 + 0 = x
    BY <1>2, <1>5, <1>6 DEF z
  <2> HIDE DEF f
  <2>3. f * b \in Nat
    BY <1>4, <2>1
  <2> QED
    BY <1>4, <2>1, <2>2, <2>3
<1>9. f = x \div b /\ m = x % b
  <2> HIDE DEF f
  <2>1. f * b = b * f
    BY <1>4, <1>8
  <2> QED
    BY <1>1, <1>4, <1>8, <2>1, OneQuotient
<1>10. Shl(u, 1) = 2 * q
  <2>1. Pow(1) = 2
    <3>1. Pow(0 + 1) = 2 * Pow(0)
      BY PowIs
    <3> QED
      BY <3>1, PowIs
  <2>2. u \in Word64 /\ u * 2 < Modulus /\ u * 2 = 2 * q
    BY <1>4, <1>6, <1>7 DEF Word64
  <2> QED
    BY <2>1, <2>2, ShiftsAre
<1>11. f \in Word64 /\ m \in Word64
  BY <1>1, <1>3, <1>4, <1>6 DEF Word64
<1> QED
  BY <1>4, <1>9, <1>10, <1>11 DEF z

\* What is in the variables while it runs.
LEMMA LoopTells ==
  ASSUME NEW x \in Word64, NEW y \in Word64, NEW n, NEW k, NEW u, NEW m, NEW w, LoopIs(x, y, n, k, u, m, w)
  PROVE  /\ m < y
         /\ ((2 * (u % 2^(n - k)) + (w % 2)) * y + m) * 2^k + Shr(u, Width - k) = x
<1>1. n \in 1..(Width - 1) /\ k \in 0..n /\ m \in 0..(y - 1)
  BY DEF LoopIs
<1>2. PICK c \in 0..(Pow(k) - 1), q \in 0..(Pow(n - k) - 1) :
        u = c * Pow(Width - k) + q /\ ((2 * q + (w % 2)) * y + m) * Pow(k) + c = x
  BY DEF LoopIs
<1>3. /\ Width \in Nat /\ n \in Nat /\ k \in Nat /\ n - k \in Nat /\ Width - k \in Nat
      /\ Width - n \in Nat /\ (n - k) + (Width - n) = Width - k /\ n - k <= Width - k
  BY <1>1, WordsAre
<1> DEFINE f == Pow(n - k)
           g == Pow(Width - n)
           h == Pow(Width - k)
<1>4. f \in Nat /\ f >= 1 /\ g \in Nat /\ h \in Nat /\ h = f * g /\ f <= h
  BY <1>3, PowIs, PowPlus, PowOrder
<1>5. 2^(n - k) = f /\ 2^k = Pow(k) /\ 2^(Width - k) = h
  BY DEF Pow
<1>6. Pow(k) \in Nat
  BY <1>3, PowIs
<1> HIDE DEF f, g, h
<1>7. c \in Nat /\ q \in 0..(f - 1) /\ q \in 0..(h - 1) /\ u = c * h + q
  <2>1. q \in 0..(f - 1) /\ u = c * h + q
    BY <1>2 DEF f, h
  <2> QED
    BY <1>2, <1>4, <1>6, <2>1
<1>8. u \div h = c
  <2>1. u = h * c + q
    BY <1>4, <1>7
  <2> QED
    BY <1>4, <1>7, <2>1, OneQuotient
<1>9. u % f = q
  <2>1. c * (f * g) = f * (g * c) /\ g * c \in Nat
    BY <1>4, <1>7
  <2>2. u = f * (g * c) + q
    BY <1>4, <1>7, <2>1
  <2> DEFINE d == g * c
  <2>3. d \in Nat /\ u = f * d + q
    BY <2>1, <2>2
  <2> HIDE DEF d
  <2>4. f \in Nat /\ f > 0 /\ d \in Int /\ q \in 0..(f - 1) /\ u = f * d + q
    BY <1>4, <1>7, <2>3
  <2> QED
    BY <2>4, QuotientOf
<1>10. Shr(u, Width - k) = c
  BY <1>5, <1>8 DEF Shr
<1>11. m < y
  BY <1>1, WordsAre DEF Word64
<1>12. ((2 * (u % 2^(n - k)) + (w % 2)) * y + m) * 2^k + Shr(u, Width - k) = x
  BY <1>2, <1>5, <1>9, <1>10, Zenon
<1> QED
  BY <1>11, <1>12

-----------------------------------------------------------------------------
(* The functions.                                                          *)

LEMMA AbsIs ==
  ASSUME NEW x \in Word64
  PROVE  /\ SignedValue(x) \in Int /\ arith64_abs(x) \in Word64
         /\ arith64_abs(x) = Abs(SignedValue(x))
<1>1. /\ Modulus \in Nat /\ Modulus = 2 * Half /\ Half \in Nat /\ Half >= 2 /\ Modulus \div 2 = Half
      /\ x \in Nat /\ x < Modulus
  BY WordsAre DEF Word64
<1>2. SignedValue(x) = IF x >= Half THEN x - Modulus ELSE x
  BY <1>1 DEF SignedValue
<1>3. arith64_abs(x) = IF SignedValue(x) < 0 THEN (-x) % Modulus ELSE x
  BY DEF arith64_abs, arith64_neg
<1>4. CASE x >= Half
  <2>1. SignedValue(x) = x - Modulus /\ SignedValue(x) < 0 /\ -(x - Modulus) = Modulus - x
    BY <1>1, <1>2, <1>4
  <2>2. (-x) % Modulus = Modulus - x
    <3>1. x \in 1..(Modulus - 1)
      BY <1>1, <1>4
    <3> QED
      BY <1>1, <3>1, NegativeRest
  <2>3. arith64_abs(x) = Modulus - x /\ Abs(SignedValue(x)) = Modulus - x
    BY <1>3, <2>1, <2>2 DEF Abs
  <2> QED
    BY <1>1, <1>4, <2>1, <2>3 DEF Word64
<1>5. CASE ~(x >= Half)
  <2>1. SignedValue(x) = x /\ ~(x < 0)
    BY <1>1, <1>2, <1>5
  <2>2. arith64_abs(x) = x /\ Abs(SignedValue(x)) = x
    BY <1>3, <2>1 DEF Abs
  <2> QED
    BY <1>1, <2>1, <2>2
<1> QED
  BY <1>4, <1>5

\* The given words and what __divmoddi4 is called with, as numbers.
Called == function \in Signed \cup Unsigned /\ given \in Operands \X Operands

LEMMA ArgumentsAre ==
  ASSUME Called
  PROVE  /\ given[1] \in Word64 /\ given[2] \in Word64
         /\ Arguments[1] \in Word64 /\ Arguments[2] \in Word64
         /\ Value(given[1]) \in Int /\ Value(given[2]) \in Int
         /\ Arguments[1] = Abs(Value(given[1])) /\ Arguments[2] = Abs(Value(given[2]))
<1>1. given[1] \in Word64 /\ given[2] \in Word64
  BY OperandsAssumption DEF Called, Word64, Modulus
<1>2. CASE function \in Signed
  <2>1. Arguments[1] = arith64_abs(given[1]) /\ Arguments[2] = arith64_abs(given[2])
    BY <1>2 DEF Arguments
  <2>2. Value(given[1]) = SignedValue(given[1]) /\ Value(given[2]) = SignedValue(given[2])
    BY <1>2 DEF Value
  <2> QED
    BY <1>1, <2>1, <2>2, AbsIs
<1>3. CASE function \notin Signed
  <2>1. Arguments = given
    BY <1>3 DEF Arguments
  <2>2. Value(given[1]) = given[1] /\ Value(given[2]) = given[2]
    BY <1>3 DEF Value
  <2>3. \A x \in Word64 : x \in Int /\ Abs(x) = x
    BY WordsAre DEF Word64, Abs
  <2> QED
    BY <1>1, <2>1, <2>2, <2>3
<1> QED
  BY <1>2, <1>3

\* The signs of a division that rounds towards 0.
LEMMA SignsAre ==
  ASSUME NEW n \in Int, NEW d \in Int, d # 0
  PROVE  LET q == Sign(n) * Sign(d) * (Abs(n) \div Abs(d))
             r == Abs(n) % Abs(d)
         IN /\ Abs(n) \div Abs(d) \in Nat /\ r \in Nat
            /\ q = IF (n < 0) # (d < 0) THEN -(Abs(n) \div Abs(d)) ELSE Abs(n) \div Abs(d)
            /\ n - q * d = IF n < 0 THEN -r ELSE r
<1> DEFINE x == Abs(n)
           y == Abs(d)
           i == x \div y
           r == x % y
<1>1. /\ x \in Nat /\ y \in Nat /\ y > 0
      /\ (n < 0 => n = -x) /\ (~(n < 0) => n = x) /\ (d < 0 => d = -y) /\ (~(d < 0) => d = y)
  BY DEF Abs
<1> HIDE DEF x, y
<1>2. i \in Nat /\ r \in Nat /\ x = y * i + r
  BY <1>1, DividedBy
<1> HIDE DEF i, r
<1> DEFINE e == y * i
           q == Sign(n) * Sign(d) * i
<1>3. e \in Nat /\ x = e + r /\ e = i * y
  BY <1>1, <1>2
<1>4. (n < 0 => Sign(n) = -1) /\ (~(n < 0) => Sign(n) = 1) /\ (d < 0 => Sign(d) = -1) /\ (~(d < 0) => Sign(d) = 1)
  BY DEF Sign
<1> HIDE DEF e
<1>5. CASE n < 0 /\ d < 0
  <2>1. q = i
    BY <1>2, <1>4, <1>5
  <2>2. q * d = -e
    BY <1>1, <1>2, <1>3, <1>5, <2>1
  <2>3. n - q * d = -r
    BY <1>1, <1>2, <1>3, <1>5, <2>2
  <2> QED
    BY <1>2, <1>5, <2>1, <2>3 DEF i, r, x, y
<1>6. CASE n < 0 /\ ~(d < 0)
  <2>1. q = -i
    BY <1>2, <1>4, <1>6
  <2>2. q * d = -e
    BY <1>1, <1>2, <1>3, <1>6, <2>1
  <2>3. n - q * d = -r
    BY <1>1, <1>2, <1>3, <1>6, <2>2
  <2> QED
    BY <1>2, <1>6, <2>1, <2>3 DEF i, r, x, y
<1>7. CASE ~(n < 0) /\ d < 0
  <2>1. q = -i
    BY <1>2, <1>4, <1>7
  <2>2. q * d = e
    BY <1>1, <1>2, <1>3, <1>7, <2>1
  <2>3. n - q * d = r
    BY <1>1, <1>2, <1>3, <1>7, <2>2
  <2> QED
    BY <1>2, <1>7, <2>1, <2>3 DEF i, r, x, y
<1>8. CASE ~(n < 0) /\ ~(d < 0)
  <2>1. q = i
    BY <1>2, <1>4, <1>8
  <2>2. q * d = e
    BY <1>1, <1>2, <1>3, <1>8, <2>1
  <2>3. n - q * d = r
    BY <1>1, <1>2, <1>3, <1>8, <2>2
  <2> QED
    BY <1>2, <1>8, <2>1, <2>3 DEF i, r, x, y
<1> QED
  BY <1>5, <1>6, <1>7, <1>8

LEMMA ReturnedIs ==
  /\ function = "__divdi3" =>
       Returned = IF (SignedValue(given[1]) < 0) # (SignedValue(given[2]) < 0)
                    THEN (-quotient) % Modulus ELSE quotient
  /\ function = "__moddi3" => Returned = arith64_neg(remainder, given[1])
  /\ function = "__udivdi3" => Returned = quotient
  /\ function = "__umoddi3" => Returned = remainder
BY DEF Returned

-----------------------------------------------------------------------------
(* The inductive invariant: __divmoddi4 divides its arguments.             *)

DivInv ==
  /\ Called
  /\ DivTypeOK
  /\ step # "call" => b = Arguments[2]
  /\ step = "loop" => LoopIs(Arguments[1], b, Bits(Arguments[1], b), bits, a, rem, wrap)
  /\ step = "done" => b # 0 /\ quotient = Arguments[1] \div b /\ remainder = Arguments[1] % b

LEMMA DivStarts == DivInit => DivInv
<1> SUFFICES ASSUME DivInit PROVE DivInv
  OBVIOUS
<1>1. Called
  BY DEF DivInit, Called
<1>2. DivTypeOK
  <2>1. 0 \in Word64 /\ 0 \in 0..(Width - 1)
    BY WordsAre, LastBit
  <2> QED
    BY <2>1 DEF DivInit, DivTypeOK
<1>3. step = "call"
  BY DEF DivInit
<1> QED
  BY <1>1, <1>2, <1>3 DEF DivInv

\* What is kept by every step after the call.
LEMMA CalledKept ==
  ASSUME Called, UNCHANGED <<function, given>>
  PROVE  Called' /\ Arguments' = Arguments
BY DEF Called, Arguments

LEMMA CallKeeps ==
  ASSUME DivInv, DivCall
  PROVE  DivInv'
<1> DEFINE x == Arguments[1]
           y == Arguments[2]
<1>1. Called /\ x \in Word64 /\ y \in Word64
  BY ArgumentsAre DEF DivInv
<1>2. Called' /\ Arguments' = Arguments
  BY <1>1, CalledKept DEF DivCall
<1>3. b' = y /\ b' = Arguments[2]'
  BY <1>2 DEF DivCall
<1>4. /\ x \in Nat /\ y \in Nat /\ x < Modulus /\ Modulus \in Nat
      /\ a \in Word64 /\ rem \in Word64 /\ wrap \in Word64 /\ quotient \in Word64 /\ remainder \in Word64
      /\ bits \in 0..(Width - 1)
  BY <1>1, WordsAre DEF DivInv, DivTypeOK, Word64
<1>5. CASE IsDirect(x, y)
  <2>1. a' = x /\ Direct(x, y)
    BY <1>5 DEF DivCall
  <2> HIDE DEF x, y
  <2>2. ASSUME NEW q \in Word64, NEW r \in Word64, Answer(q, r), y # 0, q = x \div y, r = x % y
        PROVE  DivInv'
    <3>1. /\ step' = "done" /\ quotient' = q /\ remainder' = r
          /\ bits' = bits /\ rem' = rem /\ wrap' = wrap
      BY <2>2 DEF Answer
    <3>2. DivTypeOK'
      BY <1>1, <1>3, <1>4, <2>1, <3>1 DEF DivTypeOK
    <3>3. quotient' = Arguments[1]' \div b' /\ remainder' = Arguments[1]' % b' /\ b' # 0
      BY <1>2, <1>3, <2>2, <3>1 DEF x
    <3> QED
      BY <1>2, <1>3, <3>1, <3>2, <3>3 DEF DivInv
  <2>3. CASE y > x
    <3>1. x \in 0..(y - 1) /\ y > 0
      BY <1>4, <2>3
    <3>2. x \div y = 0 /\ x % y = x
      BY <1>4, <3>1, SmallRest
    <3>3. Answer(0, x)
      BY <2>1, <2>3 DEF Direct
    <3> QED
      BY <1>1, <1>4, <2>2, <3>1, <3>2, <3>3, LastBit
  <2>4. CASE ~(y > x) /\ y = 0
    <3>1. /\ step' = "fault" /\ bits' = bits /\ rem' = rem /\ wrap' = wrap
          /\ quotient' = quotient /\ remainder' = remainder
      BY <2>1, <2>4 DEF Direct
    <3>2. DivTypeOK'
      BY <1>1, <1>3, <1>4, <2>1, <3>1 DEF DivTypeOK
    <3> QED
      BY <1>2, <1>3, <3>1, <3>2 DEF DivInv
  <2>5. CASE ~(y > x) /\ y = 1
    <3>1. Answer(x, 0)
      BY <2>1, <2>5 DEF Direct
    <3>2. 1 * x + 0 = x /\ 0 \in 0..(1 - 1) /\ x \in Int
      BY <1>4
    <3>3. (1 * x + 0) \div 1 = x /\ (1 * x + 0) % 1 = 0
      BY <3>2, OneQuotient
    <3>4. x \div y = x /\ x % y = 0
      BY <2>5, <3>2, <3>3
    <3> QED
      BY <1>1, <2>2, <2>5, <3>1, <3>4, LastBit
  <2>6. CASE ~(y > x) /\ y # 0 /\ y # 1
    <3>1. Answer(x \div y, x % y)
      BY <2>1, <2>6 DEF Direct
    <3> DEFINE q == x \div y
               r == x % y
    <3>2. q \in Nat /\ r \in 0..(y - 1) /\ x = y * q + r
      BY <1>4, <2>6, DividedBy
    <3> HIDE DEF q, r
    <3>3. 1 * q <= y * q /\ 1 * q = q /\ y * q \in Nat
      <4>1. q * 1 <= q * y /\ q * 1 = q /\ q * y = y * q /\ q * y \in Nat
        BY <1>4, <2>6, <3>2, Product
      <4> QED
        BY <3>2, <4>1
    <3>4. q \in Word64 /\ r \in Word64
      BY <1>4, <2>6, <3>2, <3>3 DEF Word64
    <3>5. Answer(q, r) /\ q = x \div y /\ r = x % y
      BY <3>1 DEF q, r
    <3> QED
      BY <2>2, <2>6, <3>4, <3>5
  <2> QED
    BY <2>3, <2>4, <2>5, <2>6
<1>6. CASE ~IsDirect(x, y)
  <2> DEFINE n == Bits(x, y)
  <2>1. /\ bits' = n /\ rem' = Shr(x, n) /\ a' = Shl(x, Width - n) /\ wrap' = 0 /\ step' = "loop"
        /\ quotient' = quotient /\ remainder' = remainder
    BY <1>6 DEF DivCall
  <2>2. /\ n \in 0..(Width - 1) /\ Shr(x, n) \in Word64 /\ Shl(x, Width - n) \in Word64
        /\ LoopIs(x, y, n, n, Shl(x, Width - n), Shr(x, n), 0)
    <3> HIDE DEF x, y
    <3> QED
      BY <1>1, <1>6, LoopStarts
  <2>3. DivTypeOK'
    <3> HIDE DEF x, y, n
    <3> QED
      BY <1>1, <1>3, <1>4, <2>1, <2>2, LastBit DEF DivTypeOK
  <2>4. Bits(Arguments[1], b)' = n
    BY <1>2, <1>3 DEF Bits, __clzdi2
  <2>5. LoopIs(Arguments[1], b, Bits(Arguments[1], b), bits, a, rem, wrap)'
    <3>1. LoopIs(x, b', n, bits', a', rem', wrap')
      BY <1>3, <2>1, <2>2
    <3> QED
      BY <1>2, <2>4, <3>1 DEF LoopIs
  <2> QED
    BY <1>2, <1>3, <2>1, <2>3, <2>5 DEF DivInv
<1> QED
  BY <1>5, <1>6

LEMMA BitKeeps ==
  ASSUME DivInv, DivBit
  PROVE  DivInv'
<1> DEFINE x == Arguments[1]
           n == Bits(Arguments[1], b)
           r == (Shl(rem, 1) + Shr(a, Width - 1)) % Modulus
           s == IF Wrap(r) = 0 THEN r ELSE (r - b) % Modulus
           t == Shl(a, 1) + (wrap % 2)
<1>1. Called /\ x \in Word64 /\ b \in Word64 /\ b = Arguments[2]
  BY ArgumentsAre DEF DivInv, DivBit, DivTypeOK
<1>2. Called' /\ Arguments' = Arguments
  BY <1>1, CalledKept DEF DivBit
<1>3. LoopIs(x, b, n, bits, a, rem, wrap) /\ bits # 0 /\ bits \in 0..(Width - 1) /\ bits - 1 \in 0..(Width - 1)
  BY WordsAre DEF DivInv, DivBit, DivTypeOK
<1>4. /\ a' = t /\ wrap' = Wrap(r) /\ rem' = s /\ bits' = bits - 1 /\ b' = b /\ step' = "loop"
      /\ quotient' = quotient /\ remainder' = remainder
  BY DEF DivBit
<1>5. t \in Word64 /\ s \in Word64 /\ Wrap(r) \in Word64 /\ LoopIs(x, b, n, bits - 1, t, s, Wrap(r))
  <2> HIDE DEF x, n
  <2> QED
    BY <1>1, <1>3, LoopTurn
<1> HIDE DEF r, s, t
<1>6. DivTypeOK'
  BY <1>1, <1>3, <1>4, <1>5 DEF DivInv, DivTypeOK
<1>7. LoopIs(Arguments[1], b, Bits(Arguments[1], b), bits, a, rem, wrap)'
  <2>1. LoopIs(x, b', n, bits', a', rem', wrap')
    BY <1>4, <1>5
  <2>2. Bits(Arguments[1], b)' = n
    BY <1>2, <1>4 DEF Bits, __clzdi2
  <2> QED
    BY <1>2, <2>1, <2>2 DEF LoopIs
<1>8. b' = Arguments[2]' /\ step' # "done"
  BY <1>1, <1>2, <1>4
<1> QED
  BY <1>2, <1>6, <1>7, <1>8 DEF DivInv

LEMMA EndKeeps ==
  ASSUME DivInv, DivEnd
  PROVE  DivInv'
<1> DEFINE x == Arguments[1]
           n == Bits(Arguments[1], b)
<1>1. Called /\ x \in Word64 /\ b \in Word64 /\ b = Arguments[2]
  BY ArgumentsAre DEF DivInv, DivEnd, DivTypeOK
<1>2. Called' /\ Arguments' = Arguments
  BY <1>1, CalledKept DEF DivEnd
<1>3. LoopIs(x, b, n, 0, a, rem, wrap)
  BY DEF DivInv, DivEnd
<1>4. /\ quotient' = Shl(a, 1) + (wrap % 2) /\ remainder' = rem /\ step' = "done"
      /\ a' = a /\ b' = b /\ bits' = bits /\ rem' = rem /\ wrap' = wrap
  BY DEF DivEnd
<1>5. /\ Shl(a, 1) + (wrap % 2) \in Word64 /\ rem \in Word64 /\ b # 0
      /\ Shl(a, 1) + (wrap % 2) = x \div b /\ rem = x % b
  <2> HIDE DEF x, n
  <2> QED
    BY <1>1, <1>3, LoopEnds
<1>6. DivTypeOK'
  BY <1>4, <1>5 DEF DivInv, DivTypeOK
<1>7. b' = Arguments[2]' /\ b' # 0 /\ quotient' = Arguments[1]' \div b' /\ remainder' = Arguments[1]' % b'
  BY <1>1, <1>2, <1>4, <1>5
<1> QED
  BY <1>2, <1>4, <1>6, <1>7 DEF DivInv

LEMMA DivInvKept == DivInv /\ [DivNext]_divVars => DivInv'
<1> SUFFICES ASSUME DivInv, [DivNext]_divVars PROVE DivInv'
  OBVIOUS
<1>1. CASE DivCall
  BY <1>1, CallKeeps
<1>2. CASE DivBit
  BY <1>2, BitKeeps
<1>3. CASE DivEnd
  BY <1>3, EndKeeps
<1>4. CASE UNCHANGED divVars
  <2>1. Called' /\ Arguments' = Arguments
    BY <1>4, CalledKept DEF DivInv, divVars
  <2>2. /\ a' = a /\ b' = b /\ bits' = bits /\ rem' = rem /\ wrap' = wrap
        /\ quotient' = quotient /\ remainder' = remainder /\ step' = step
    BY <1>4 DEF divVars
  <2>3. DivTypeOK'
    BY <2>2 DEF DivInv, DivTypeOK
  <2>4. Bits(Arguments[1], b)' = Bits(Arguments[1], b)
    BY <2>1, <2>2 DEF Bits, __clzdi2
  <2>5. step' = "loop" => LoopIs(Arguments[1], b, Bits(Arguments[1], b), bits, a, rem, wrap)'
    BY <2>1, <2>2, <2>4 DEF DivInv, LoopIs
  <2> QED
    BY <2>1, <2>2, <2>3, <2>5 DEF DivInv
<1> QED
  BY <1>1, <1>2, <1>3, <1>4 DEF DivNext

LEMMA DivSound == DivInv => DivisionIsSound
<1> SUFFICES ASSUME DivInv PROVE DivisionIsSound
  OBVIOUS
<1> DEFINE n == Value(given[1])
           d == Value(given[2])
           q == Sign(n) * Sign(d) * (Abs(n) \div Abs(d))
           i == Abs(n) \div Abs(d)
           j == Abs(n) % Abs(d)
<1>1. /\ Called /\ given[1] \in Word64 /\ given[2] \in Word64
      /\ Arguments[1] \in Word64 /\ Arguments[2] \in Word64 /\ n \in Int /\ d \in Int
      /\ Arguments[1] = Abs(n) /\ Arguments[2] = Abs(d)
  BY ArgumentsAre DEF DivInv
<1>2. DividesRight
  <2> SUFFICES ASSUME step = "done"
               PROVE  IF function \in {"__divdi3", "__udivdi3"}
                        THEN Returned = q % Modulus
                        ELSE Returned = (n - q * d) % Modulus
    BY DEF DividesRight
  <2>1. b = Abs(d) /\ b # 0 /\ quotient = i /\ remainder = j
    BY <1>1 DEF DivInv
  <2>2. d # 0
    BY <2>1 DEF Abs
  <2>3. /\ i \in Nat /\ j \in Nat
        /\ q = IF (n < 0) # (d < 0) THEN -i ELSE i
        /\ n - q * d = IF n < 0 THEN -j ELSE j
    <3> HIDE DEF n, d
    <3> QED
      BY <1>1, <2>2, SignsAre
  <2>4. i \in Word64 /\ j \in Word64 /\ i % Modulus = i /\ j % Modulus = j
    <3>1. quotient \in Word64 /\ remainder \in Word64
      BY DEF DivInv, DivTypeOK
    <3>2. \A k \in Word64 : k % Modulus = k
      <4>1. Modulus \in Nat /\ Modulus > 0
        BY WordsAre
      <4> QED
        BY <4>1, SmallRest DEF Word64
    <3> HIDE DEF i, j
    <3> QED
      BY <2>1, <3>1, <3>2
  <2>5. function \in Signed => n = SignedValue(given[1]) /\ d = SignedValue(given[2])
    BY DEF Value
  <2>6. function \in Unsigned => ~(n < 0) /\ ~(d < 0)
    <3>1. function \in Unsigned => n = given[1] /\ d = given[2]
      BY DEF Value, Signed, Unsigned
    <3> HIDE DEF n, d
    <3> QED
      BY <1>1, <3>1, WordsAre DEF Word64
  <2> HIDE DEF n, d, i, j
  <2>7. CASE function = "__divdi3"
    <3>1. Returned = IF (n < 0) # (d < 0) THEN (-quotient) % Modulus ELSE quotient
      BY <2>5, <2>7, ReturnedIs DEF Signed
    <3>2. Returned = q % Modulus
      <4> HIDE DEF q
      <4>1. CASE (n < 0) # (d < 0)
        BY <2>1, <2>3, <3>1, <4>1
      <4>2. CASE ~((n < 0) # (d < 0))
        BY <2>1, <2>3, <2>4, <3>1, <4>2
      <4> QED
        BY <4>1, <4>2
    <3> QED
      BY <2>7, <3>2
  <2>8. CASE function = "__udivdi3"
    <3>1. ~(n < 0) /\ ~(d < 0)
      BY <2>6, <2>8 DEF Unsigned
    <3>2. Returned = q % Modulus
      <4> HIDE DEF q
      <4> QED
        BY <2>1, <2>3, <2>4, <2>8, <3>1, ReturnedIs
    <3> QED
      BY <2>8, <3>2
  <2>9. CASE function = "__moddi3"
    <3>1. Returned = IF n < 0 THEN (-remainder) % Modulus ELSE remainder
      BY <2>5, <2>9, ReturnedIs DEF Signed, arith64_neg
    <3>2. Returned = (n - q * d) % Modulus
      <4> DEFINE e == n - q * d
      <4>1. e = IF n < 0 THEN -j ELSE j
        BY <2>3
      <4> HIDE DEF e
      <4>2. Returned = e % Modulus
        BY <2>1, <2>4, <3>1, <4>1
      <4> QED
        BY <4>2 DEF e
    <3>3. function \notin {"__divdi3", "__udivdi3"}
      BY <2>9
    <3> QED
      BY <3>2, <3>3
  <2>10. CASE function = "__umoddi3"
    <3>1. ~(n < 0)
      BY <2>6, <2>10 DEF Unsigned
    <3>2. Returned = (n - q * d) % Modulus
      <4> DEFINE e == n - q * d
      <4>1. e = j
        BY <2>3, <3>1
      <4> HIDE DEF e
      <4>2. Returned = e % Modulus
        BY <2>1, <2>4, <2>10, <4>1, ReturnedIs
      <4> QED
        BY <4>2 DEF e
    <3>3. function \notin {"__divdi3", "__udivdi3"}
      BY <2>10
    <3> QED
      BY <3>2, <3>3
  <2>11. function \in {"__divdi3", "__udivdi3", "__moddi3", "__umoddi3"}
    BY <1>1 DEF Called, Signed, Unsigned
  <2> QED
    BY <2>7, <2>8, <2>9, <2>10, <2>11
<1>3. LoopInvariant
  <2> SUFFICES ASSUME step = "loop" PROVE LoopInvariant
    BY DEF LoopInvariant
  <2> DEFINE x == Arguments[1]
             k == Bits(Arguments[1], b)
  <2>1. LoopIs(x, b, k, bits, a, rem, wrap) /\ b \in Word64
    BY DEF DivInv, DivTypeOK
  <2>2. /\ rem < b
        /\ ((2 * (a % 2^(k - bits)) + (wrap % 2)) * b + rem) * 2^bits + Shr(a, Width - bits) = x
    <3> HIDE DEF x, k
    <3> QED
      BY <1>1, <2>1, LoopTells DEF x
  <2> QED
    BY <2>2 DEF LoopInvariant
<1> QED
  BY <1>2, <1>3 DEF DivisionIsSound

\* The four functions divide as C defines it, for every width that is a power of two and
\* every pair of words: the loop of __divmoddi4, one bit of the quotient at a time, and the
\* signs its callers give back.
THEOREM DivisionAlwaysSound == DivSpec => []DivisionIsSound
<1>1. DivInit => DivInv
  BY DivStarts
<1>2. DivInv /\ [DivNext]_divVars => DivInv'
  BY DivInvKept
<1>3. DivInv => DivisionIsSound
  BY DivSound
<1> QED
  BY <1>1, <1>2, <1>3, PTL DEF DivSpec

=============================================================================
