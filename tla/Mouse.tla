-------------------------------- MODULE Mouse --------------------------------
(***************************************************************************)
(* The PS/2 mouse of src/kernel/fskrnl.c: a packet of three or four bytes  *)
(* arrives one interrupt at a time, and the phase of mouse_state says      *)
(* which byte comes next.  The device, external, sends well-formed packets *)
(* on a wire that can lose a byte; an interrupt latched while the driver   *)
(* was initialising, with interrupts off, makes the handler read the last  *)
(* byte once more.  mouse_init runs with interrupts off and is one action. *)
(***************************************************************************)
EXTENDS Integers, Sequences

CONSTANTS
  Deltas,       \* the movements the device reports
  Wheels,       \* the wheel turns it reports
  Buttons,      \* the button masks it reports
  VideoMode,    \* the screen size of the video mode, [width, height]
  Screens,      \* the sizes a program sets
  MaxLost       \* bound on the bytes lost or read twice

VARIABLES
  mouse_state,        \* the driver's record
  mouse_initialized,  \* 0, 1, or 2 after a mouse_init that failed
  pointer,            \* mouse_x, mouse_y, mouse_b, mouse_w
  screen,             \* mouse_screen_width, mouse_screen_height
  wire,               \* the bytes of the packet still to come
  sent,               \* the packet under way
  port,               \* the last byte read from the data port, while latched
  latched,            \* an interrupt of the initialisation is still pending
  intact,             \* history: -1 a byte of this packet was lost or read twice,
                      \* 0 of an earlier one, 1 none since a packet without a
                      \* movement byte that looks like a first one
  lost                \* the number of disturbances

mouseVars == <<mouse_state, mouse_initialized, pointer, screen, wire, sent,
               port, latched, intact, lost>>

\* What the screen may measure.
ScreenSizes == [width : Nat, height : Nat]

\* A movement has nine bits in the packet: a byte, and a sign in the first byte.
ASSUME MouseAssumption ==
  /\ Deltas \subseteq -256..255 /\ Wheels \subseteq -8..7 /\ Buttons \subseteq 0..7
  /\ VideoMode \in ScreenSizes /\ Screens \subseteq ScreenSizes

\* byte & mask, for a mask of one bit.
Bit(byte, mask) == (byte \div mask) % 2 = 1
SignedChar(n) == ((n + 128) % 256) - 128

NoState == [ready |-> FALSE, phase |-> 0, packet_size |-> 0,
            packet |-> <<0, 0, 0, 0>>, dx |-> 0, dy |-> 0, dw |-> 0, buttons |-> 0]

Start(size) == [x |-> size.width \div 2 - 1, y |-> size.height \div 2 - 1,
                b |-> 0, w |-> 0]

\* Types; the pointer is never more than the -1 of a screen of no width off
\* the screen's upper left corner.
MouseTypeOK ==
  /\ mouse_state.phase \in 0..3
  /\ mouse_state.packet_size \in {0, 3, 4}
  /\ mouse_state.phase = 3 => mouse_state.packet_size = 4
  /\ mouse_initialized \in 0..2
  /\ mouse_state.ready => mouse_initialized = 1
  /\ pointer.w \in -20..20
  /\ pointer.x >= -1 /\ pointer.y >= -1

MouseInit ==
  /\ mouse_state = NoState /\ mouse_initialized = 0
  /\ screen = [width |-> 0, height |-> 0]
  /\ pointer = [x |-> 0, y |-> 0, b |-> 0, w |-> 0]
  /\ wire = <<>> /\ sent = <<>> /\ port = 0 /\ latched = FALSE
  /\ intact = 1 /\ lost = 0

(***************************************************************************)
(* The device.                                                             *)
(***************************************************************************)

\* A packet: buttons, the bit that is always set and the signs; x, y; wheel.
Packet(b, dx, dy, w) ==
  LET sign(d, bit) == IF d < 0 THEN bit ELSE 0
  IN <<8 + b + sign(dx, 16) + sign(dy, 32), dx % 256, dy % 256>>
       \o (IF mouse_state.packet_size = 4 THEN <<w % 256>> ELSE <<>>)

DeviceMoves ==
  /\ mouse_state.ready
  /\ wire = <<>>
  /\ \E b \in Buttons, dx, dy \in Deltas, w \in Wheels :
       /\ sent' = Packet(b, dx, dy, w)
       /\ wire' = sent'
  /\ UNCHANGED <<mouse_state, mouse_initialized, pointer, screen, port,
                 latched, intact, lost>>

\* A byte is lost on the way.
LoseByte ==
  /\ wire # <<>> /\ lost < MaxLost
  /\ wire' = Tail(wire)
  /\ intact' = IF wire' = <<>> THEN 0 ELSE -1
  /\ lost' = lost + 1
  /\ UNCHANGED <<mouse_state, mouse_initialized, pointer, screen, sent, port,
                 latched>>

(***************************************************************************)
(* The driver.                                                             *)
(***************************************************************************)

\* The packet that is complete: overflow bits cancel a movement, the signs are not
\* looked at, and the getters return a movement as a signed char.  (Its bytes are
\* not read again and forgotten.)
Decoded(m) ==
  LET delta(n, overflow) == IF Bit(m.packet[1], overflow) THEN 0 ELSE m.packet[n]
      nibble == (m.packet[4] \div 16) % 16
  IN [m EXCEPT !.phase = 0,
               !.packet = NoState.packet,
               !.dx = SignedChar(delta(2, 64)),
               !.dy = SignedChar(delta(3, 128)),
               !.dw = IF m.packet_size = 3 THEN @
                        ELSE SignedChar(IF Bit(nibble, 8) THEN nibble + 240 ELSE nibble),
               !.buttons = m.packet[1] % 8]

\* Mutant: any byte is accepted as a first one.
mouse_input_handlerAny(data) ==
  LET m == mouse_state
      stored == [m EXCEPT !.packet[m.phase + 1] = data]
  IN IF m.phase < 2 \/ (m.phase = 2 /\ m.packet_size # 3)
       THEN [stored EXCEPT !.phase = m.phase + 1] ELSE Decoded(stored)

\* mouse_input_handler: the byte is stored where the phase says; a first byte
\* without the bit that is always set is skipped.
mouse_input_handler(data) ==
  LET m == mouse_state
      stored == [m EXCEPT !.packet[m.phase + 1] = data]
  IN IF m.phase = 0 /\ ~Bit(data, 8) THEN m
     ELSE IF m.phase < 2 \/ (m.phase = 2 /\ m.packet_size # 3)
       THEN [stored EXCEPT !.phase = m.phase + 1]
     ELSE Decoded(stored)

\* Mutant: only the right and lower edges hold the pointer.
ClampedBelow(p) ==
  LET within(n, size) == IF n >= size THEN size - 1 ELSE n
  IN [p EXCEPT !.x = within(@, screen.width), !.y = within(@, screen.height),
               !.w = IF @ < -20 THEN -19 ELSE IF @ > 20 THEN 19 ELSE @]

\* The pointer stays on the screen, and the wheel within its range.
Clamped(p) ==
  LET within(n, size) == IF n < 0 THEN (IF 0 >= size THEN size - 1 ELSE 0)
                         ELSE IF n >= size THEN size - 1 ELSE n
  IN [p EXCEPT !.x = within(@, screen.width), !.y = within(@, screen.height),
               !.w = IF @ < -20 THEN -19 ELSE IF @ > 20 THEN 19 ELSE @]

\* mouse_handler: the byte, then the movement it completed, if any, which the
\* getters return and clear.
Handled(data) ==
  LET m == mouse_input_handler(data)
      moved == [x |-> pointer.x + m.dx, y |-> pointer.y - m.dy,
                b |-> m.buttons, w |-> pointer.w + m.dw]
      still == [pointer EXCEPT !.b = 0]
  IN /\ mouse_state' = IF m.ready THEN [m EXCEPT !.dx = 0, !.dy = 0, !.dw = 0] ELSE m
     /\ pointer' = Clamped(IF m.ready THEN moved ELSE still)
     /\ port' = IF latched THEN data ELSE port

Clean == \A i \in 2..Len(sent) : ~Bit(sent[i], 8)

mouse_handler ==
  /\ mouse_initialized # 0
  /\ wire # <<>>
  /\ Handled(Head(wire))
  /\ wire' = Tail(wire)
  /\ sent' = IF Len(wire) = 1 THEN <<>> ELSE sent
  /\ intact' = IF Len(wire) > 1 THEN intact
               ELSE IF intact = -1 THEN 0
               ELSE IF Clean THEN 1 ELSE intact
  /\ UNCHANGED <<mouse_initialized, screen, latched, lost>>

\* The interrupt latched during the initialisation: no new byte is there.
LatchedInterrupt ==
  /\ mouse_initialized # 0
  /\ latched /\ lost < MaxLost
  /\ Handled(port)
  /\ latched' = FALSE
  /\ intact' = IF wire = <<>> THEN 0 ELSE -1
  /\ lost' = lost + 1
  /\ UNCHANGED <<mouse_initialized, screen, wire, sent>>

\* init_mouse: 1 - mouse_init() is 2 when mouse_init fails, which counts as
\* initialised; the record is then not ready.  The device's last byte is the
\* acknowledgement of the command that enables it.
init_mouse ==
  /\ \E ok \in BOOLEAN, size \in {3, 4} :
       /\ mouse_state' = [NoState EXCEPT !.ready = ok,
                                         !.packet_size = IF ok THEN size ELSE 0]
       /\ mouse_initialized' = IF ok THEN 1 ELSE 2
  /\ latched' \in BOOLEAN
  /\ screen' = VideoMode
  /\ pointer' = Start(VideoMode)
  /\ wire' = <<>> /\ sent' = <<>>
  /\ port' = 250
  /\ intact' = 1
  /\ UNCHANGED lost

\* System call 515.
set_screen ==
  /\ screen' \in Screens
  /\ UNCHANGED <<mouse_state, mouse_initialized, pointer, wire, sent, port,
                 latched, intact, lost>>

\* System call 514: the handler is taken off; mouse_uninit does nothing if
\* mouse_init had failed.
mouse_uninit ==
  /\ mouse_initialized # 0
  /\ IF mouse_state.ready
       THEN /\ mouse_state' = NoState
            /\ mouse_initialized' = 0
            /\ pointer' = [x |-> 0, y |-> 0, b |-> 0, w |-> 0]
       ELSE UNCHANGED <<mouse_state, mouse_initialized, pointer>>
  /\ wire' = <<>> /\ sent' = <<>> /\ latched' = FALSE
  /\ UNCHANGED <<screen, port, intact, lost>>

MouseNext ==
  \/ DeviceMoves \/ LoseByte \/ LatchedInterrupt \/ mouse_handler
  \/ init_mouse \/ set_screen \/ mouse_uninit

MouseSpec == MouseInit /\ [][MouseNext]_mouseVars

(***************************************************************************)
(* Properties.                                                             *)
(***************************************************************************)

\* The movement the packet under way says, of nine bits, and what the driver makes
\* of it, which has no use for the ninth: more than 127 either way comes out as a
\* movement the other way.
Said(n, sign) == sent[n] - (IF Bit(sent[1], sign) THEN 256 ELSE 0)
EightBits(d) == IF d > 127 THEN d - 256 ELSE IF d < -128 THEN d + 256 ELSE d

Meant(p) == Clamped([p EXCEPT !.x = @ + EightBits(Said(2, 16)), !.y = @ - EightBits(Said(3, 32))])

\* Every packet moves the pointer, at its last byte, on the screen of that moment,
\* by what it says if that is in -128..127, and otherwise by 256 less, the other
\* way; and a lost byte, or one read twice, is forgotten after one complete packet
\* none of whose movement bytes looks like a first byte.  (Other movements can
\* keep the phase wrong for as long as they last.)
PacketsMoveAsSent ==
  [][Len(wire) = 1 /\ intact = 1 /\ mouse_handler =>
       /\ pointer'.x = Meant(pointer).x /\ pointer'.y = Meant(pointer).y
       /\ pointer'.b = sent[1] % 8]_mouseVars

=============================================================================
