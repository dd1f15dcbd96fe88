----------------------------- MODULE LongNames -----------------------------
(***************************************************************************)
(* How src/kernel/fat.c stores a name: the UTF-8 bytes a program gives     *)
(* become UTF-16 units (utf8_to_utf16), the units are cut into the parts   *)
(* that lie before the short entry (write_file_directory_entries), and a   *)
(* reader joins the parts (get_lfn_name) and makes bytes of the units      *)
(* again (utf16_to_utf8).  Beside it the alias of eight and three          *)
(* characters and its checksum.  Directory and Searches take all this as   *)
(* given and model where the parts lie.                                    *)
(***************************************************************************)
EXTENDS Integers, Sequences, SequencesExt

CONSTANTS
  WholePieces,      \* what names are made of: sequences of bytes that are characters...
  OddPieces,        \* ...and sequences that are none
  MaxPieces,        \* bound on the pieces of a name
  ForeignUnits,     \* the units of names that another system wrote
  MaxForeign,       \* bound on their number
  PartUnits,        \* units of a part (13)
  LFN_MAX_CHARS, LFN_MAX_ENTRIES,
  AliasChars,       \* the characters of names that are looked at for their alias
  MaxAlias,         \* bound on the length of those
  BaseLength, ExtensionLength   \* 8 and 3

VARIABLES
  phase,    \* what has happened to the name
  pieces,   \* the pieces a program gave, or the characters of a name for its alias
  utf16,    \* the units of the name
  parts,    \* the parts in the directory, as they lie there
  listed    \* the bytes a reader gets, or the name of the alias

nameVars == <<phase, pieces, utf16, parts, listed>>

LowSurrogates == 56320..57343      \* 0xDC00 to 0xDFFF
HighSurrogates == 55296..56319     \* 0xD800 to 0xDBFF
Surrogates == HighSurrogates \cup LowSurrogates
Filler == 65535                    \* 0xFFFF, after the end of a name

(***************************************************************************)
(* Bytes and units.                                                        *)
(***************************************************************************)

\* The bytes of a character, by its first one; 0: not a first byte.
CharWidth(byte) ==
  CASE byte < 128 -> 1
    [] byte \in 192..223 -> 2
    [] byte \in 224..239 -> 3
    [] byte \in 240..247 -> 4
    [] OTHER -> 0

Follows(byte) == byte \in 128..191

\* The code point of the character that starts at i.
CodePoint(src, i) ==
  LET bits == <<128, 32, 16, 8>>
      more == SubSeq(src, i + 1, i + CharWidth(src[i]) - 1)
  IN FoldLeft(LAMBDA cp, byte : cp * 64 + (byte % 64), src[i] % bits[CharWidth(src[i])], more)

\* A whole character, in the shortest form, that is a code point.
Decodes(src, i) ==
  LET w == CharWidth(src[i])
      cp == CodePoint(src, i)
  IN /\ w # 0
     /\ i + w - 1 <= Len(src)
     /\ \A k \in (i + 1)..(i + w - 1) : Follows(src[k])
     /\ cp >= <<0, 128, 2048, 65536>>[w]
     /\ cp \notin Surrogates
     /\ cp <= 1114111

Units(cp) ==
  IF cp <= 65535 THEN <<cp>>
  ELSE <<55296 + (cp - 65536) \div 1024, 56320 + (cp % 1024)>>

NoUnits == <<-1>>

\* The units from byte i on, or NoUnits at the first byte that does not decode.
UnitsFrom[src \in Seq(Nat), i \in Nat] ==
  IF i > Len(src) THEN <<>>
  ELSE IF ~Decodes(src, i) THEN NoUnits
  ELSE LET rest == UnitsFrom[src, i + CharWidth(src[i])]
       IN IF rest = NoUnits THEN NoUnits ELSE Units(CodePoint(src, i)) \o rest

\* The units of a name; none when it is refused.
utf8_to_utf16(src, max_units) ==
  LET all == UnitsFrom[src, 1]
  IN IF all = NoUnits \/ Len(all) > max_units THEN <<>> ELSE all

Bytes(cp) ==
  LET Later(n) == 128 + ((cp \div n) % 64)
  IN IF cp < 128 THEN <<cp>>
     ELSE IF cp < 2048 THEN <<192 + cp \div 64, Later(1)>>
     ELSE IF cp < 65536 THEN <<224 + cp \div 4096, Later(64), Later(1)>>
     ELSE <<240 + cp \div 262144, Later(4096), Later(64), Later(1)>>

\* The bytes of the units from i on.  A first half without a second is refused, a
\* second half without a first is taken for a character.
BytesFrom[src \in Seq(Nat), i \in Nat] ==
  IF i > Len(src) \/ src[i] \in {0, Filler} THEN <<>>
  ELSE IF src[i] \in HighSurrogates
    THEN IF i = Len(src) \/ src[i + 1] \notin LowSurrogates THEN NoUnits
         ELSE LET rest == BytesFrom[src, i + 2]
                  cp == 65536 + (src[i] - 55296) * 1024 + src[i + 1] - 56320
              IN IF rest = NoUnits THEN NoUnits ELSE Bytes(cp) \o rest
    ELSE LET rest == BytesFrom[src, i + 1]
         IN IF rest = NoUnits THEN NoUnits ELSE Bytes(src[i]) \o rest

\* None of the callers' buffers is too small for a name of LFN_MAX_CHARS units.
utf16_to_utf8(src) == IF BytesFrom[src, 1] = NoUnits THEN <<>> ELSE BytesFrom[src, 1]

(***************************************************************************)
(* Parts.                                                                  *)
(***************************************************************************)

lfn_entry_count(utf16_length) == (utf16_length + PartUnits - 1) \div PartUnits

\* Mutant: no 0 after the name.
write_lfn_entryOpen(units) ==
  [i \in 1..PartUnits |-> IF i <= Len(units) THEN units[i] ELSE units[Len(units)]]

\* The units of a part: what there is, a 0, and filler.
write_lfn_entry(units) ==
  [i \in 1..PartUnits |->
     CASE i <= Len(units) -> units[i]
       [] i = Len(units) + 1 -> 0
       [] OTHER -> Filler]

\* The parts of a name, the last one first.
write_file_directory_entries(units) ==
  LET count == lfn_entry_count(Len(units))
      Part(order) ==
        [order |-> order, last |-> order = count,
         units |-> write_lfn_entry(SubSeq(units, (order - 1) * PartUnits + 1,
                     IF order = count THEN Len(units) ELSE order * PartUnits))]
  IN [i \in 1..count |-> Part(count + 1 - i)]

\* The name that parts hold, each put where its order says.
get_lfn_name(entries) ==
  LET count == CHOOSE order \in 1..LFN_MAX_ENTRIES :
                 \E i \in DOMAIN entries : entries[i].last /\ entries[i].order = order
      chars == [k \in 1..(count * PartUnits) |->
                  LET of == {i \in DOMAIN entries :
                               entries[i].order = (k - 1) \div PartUnits + 1}
                  IN IF of = {} THEN Filler
                     ELSE entries[CHOOSE i \in of : TRUE].units[((k - 1) % PartUnits) + 1]]
  IN utf16_to_utf8(SubSeq(chars, 1, IF Len(chars) > LFN_MAX_CHARS THEN LFN_MAX_CHARS
                                    ELSE Len(chars)))

(***************************************************************************)
(* The alias.  Characters: "." and " " are themselves, lower-case letters  *)
(* are written as pairs of their capital and "low", and what the alias may *)
(* not hold is "odd".                                                      *)
(***************************************************************************)

Lower == [a |-> "A", b |-> "B", c |-> "C"]
toupper(c) == IF c \in DOMAIN Lower THEN Lower[c] ELSE c
InAlias(c) == IF c \in {"odd", " "} THEN "_" ELSE toupper(c)

AliasLength == BaseLength + ExtensionLength
Blanks == [i \in 1..AliasLength |-> " "]

\* The first "." moves to the extension, those after it are skipped; what does not fit
\* into the base goes on in the extension, which a "." then overwrites from its start.
strfilenamedos(source) ==
  LET Put(state, c) ==
        IF c = "."
          THEN IF state.extension THEN state
               ELSE [state EXCEPT !.extension = TRUE, !.pos = BaseLength]
          ELSE IF state.pos < AliasLength
            THEN [state EXCEPT !.pos = @ + 1, !.destination[state.pos + 1] = InAlias(c)]
            ELSE state
  IN FoldLeft(Put, [pos |-> 0, extension |-> FALSE, destination |-> Blanks],
              source).destination

\* The name of an alias: without its blanks, and a "." if the extension has a first
\* character.
getshortfilename(name11) ==
  LET Solid(part) == SelectSeq(part, LAMBDA c : c # " ")
      base == Solid(SubSeq(name11, 1, BaseLength))
      extension == Solid(SubSeq(name11, BaseLength + 1, AliasLength))
  IN IF name11[BaseLength + 1] = " " THEN base ELSE base \o <<".">> \o extension

\* The checksum a part carries: turned right by one bit, then the next byte added.
lfn_checksum(bytes) ==
  FoldLeft(LAMBDA sum, byte : ((sum % 2) * 128 + sum \div 2 + byte) % 256, 0, bytes)

(***************************************************************************)
(* A name on its way into a directory and out again.                       *)
(***************************************************************************)

NameInit ==
  /\ \/ phase = "given" /\ pieces \in BoundedSeq(WholePieces \cup OddPieces, MaxPieces)
        /\ utf16 = <<>>
     \/ phase = "foreign" /\ pieces = <<>>
        /\ utf16 \in BoundedSeq(ForeignUnits, MaxForeign) \ {<<>>}
     \/ phase = "alias" /\ pieces \in BoundedSeq(AliasChars, MaxAlias) /\ utf16 = <<>>
  /\ parts = <<>> /\ listed = <<>>

\* A program creates a file.
Create ==
  LET units == utf8_to_utf16(FlattenSeq(pieces), LFN_MAX_CHARS)
      count == lfn_entry_count(Len(units))
  IN /\ phase = "given"
     /\ IF count = 0 \/ count > LFN_MAX_ENTRIES
          THEN phase' = "refused" /\ UNCHANGED <<utf16, parts>>
          ELSE phase' = "stored" /\ utf16' = units
               /\ parts' = write_file_directory_entries(units)
     /\ UNCHANGED <<pieces, listed>>

\* Another system has written the name: what it may hold is not this code's choice.
Foreign ==
  /\ phase = "foreign"
  /\ phase' = "found"
  /\ parts' = write_file_directory_entries(utf16)
  /\ UNCHANGED <<pieces, utf16, listed>>

\* A directory is listed or searched; with no bytes the alias is shown instead.
List ==
  /\ phase \in {"stored", "found"}
  /\ phase' = IF phase = "stored" THEN "listed" ELSE "shown"
  /\ listed' = get_lfn_name(parts)
  /\ UNCHANGED <<pieces, utf16, parts>>

\* The alias of a name, and the name that is shown for it.
Shorten ==
  /\ phase = "alias"
  /\ phase' = "shortened"
  /\ parts' = strfilenamedos(pieces)
  /\ listed' = getshortfilename(strfilenamedos(pieces))
  /\ UNCHANGED <<pieces, utf16>>

NameNext == Create \/ Foreign \/ List \/ Shorten

(***************************************************************************)
(* Properties.                                                             *)
(***************************************************************************)

\* A name made of characters is refused only for its length, and a name that is not
\* refused is listed as it was given; only the unit 0xFFFF, which readers take for
\* filler, ends it early (utf8_to_utf16, utf16_to_utf8, get_lfn_name).
KeptAsGiven ==
  /\ phase = "refused" =>
       \/ pieces = <<>>
       \/ \E i \in DOMAIN pieces : pieces[i] \in OddPieces
       \/ Len(UnitsFrom[FlattenSeq(pieces), 1]) > LFN_MAX_CHARS
  /\ phase = "listed" =>
       LET kept == SelectInSeq(utf16, LAMBDA u : u = Filler)
       IN listed = IF kept = 0 THEN FlattenSeq(pieces)
                   ELSE utf16_to_utf8(SubSeq(utf16, 1, kept - 1))

\* What is shown of a name another system wrote can be given back, and then stands
\* for the same units up to a 0 or filler; but not if half a pair of units
\* is in it that is the second half (utf16_to_utf8 against utf8_to_utf16).
ShownCanBeGiven ==
  phase = "shown" /\ listed # <<>> =>
    LET end == SelectInSeq(utf16, LAMBDA u : u \in {0, Filler})
        units == IF end = 0 THEN utf16 ELSE SubSeq(utf16, 1, end - 1)
        Lone(i) == units[i] \in LowSurrogates
                   /\ (i = 1 \/ units[i - 1] \notin HighSurrogates)
    IN \/ utf8_to_utf16(listed, LFN_MAX_CHARS) = units
       \/ Len(units) > LFN_MAX_CHARS
       \/ \E i \in DOMAIN units : Lone(i)

\* A name that fits is shown in capitals as it is, the name shown for an alias
\* has that alias again, and one wrong byte is told by the checksum
\* (strfilenamedos, getshortfilename, lfn_checksum).
AliasIsStable ==
  phase = "shortened" =>
    LET dot == SelectInSeq(pieces, LAMBDA c : c = ".")
        base == IF dot = 0 THEN pieces ELSE SubSeq(pieces, 1, dot - 1)
        rest == IF dot = 0 THEN <<>> ELSE SubSeq(pieces, dot + 1, Len(pieces))
        Fits == /\ Len(base) <= BaseLength /\ Len(rest) \in 1..ExtensionLength
                /\ "." \notin ToSet(rest)
        Byte == [c \in {"A", "B", "C", "_", " "} |->
                   CASE c = "A" -> 65 [] c = "B" -> 66 [] c = "C" -> 67
                     [] c = "_" -> 95 [] OTHER -> 32]
        bytes == [i \in DOMAIN parts |-> Byte[parts[i]]]
    IN /\ Fits => listed = [i \in DOMAIN pieces |-> InAlias(pieces[i])]
       /\ strfilenamedos(listed) = parts
       /\ \A i \in DOMAIN bytes : \A byte \in {0, 33, 65, 67, 97, 193, 255} \ {bytes[i]} :
            lfn_checksum([bytes EXCEPT ![i] = byte]) # lfn_checksum(bytes)

=============================================================================
