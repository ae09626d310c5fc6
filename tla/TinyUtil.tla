------------------------------ MODULE TinyUtil ------------------------------
(***************************************************************************)
(* The codecs of src/cpp/cpp98/util/TinyUtil.cpp and their siblings in     *)
(* src/cpp/cpp98/src/util.c: octets to hexadecimal digits and back, octets *)
(* to Base64 and back.  A text is the sequence of the ASCII codes of a C   *)
(* string, without the zero that ends it; octets are a sequence over       *)
(* 0..255.                                                                 *)
(***************************************************************************)
EXTENDS Integers, Sequences, SequencesExt, FiniteSetsExt

CONSTANT
  MAX_PRINT_STRING_LEN  \* size of the static buffer of octet_string_hex_string

ASSUME PrintBufferAssumption == MAX_PRINT_STRING_LEN \in Nat \ {0}

Octet == 0 .. 255

(***************************************************************************)
(* Hexadecimal.                                                            *)
(***************************************************************************)

\* The digit of a nibble: '0'..'9', 'a'..'f'.
nibble_to_hex_char(n) == IF n < 10 THEN 48 + n ELSE 87 + n

\* The nibble of a digit of either case, -1 for any other character.
hex_char_to_nibble(c) ==
  CASE c \in 48 .. 57  -> c - 48
    [] c \in 97 .. 102 -> c - 87
    [] c \in 65 .. 70  -> c - 55
    [] OTHER           -> -1

\* How many octets are printed: all, or those that fit the static buffer.
OctetsPrinted(length) ==
  IF 2 * length > MAX_PRINT_STRING_LEN THEN MAX_PRINT_STRING_LEN \div 2 ELSE length

octet_string_hex_string(s) ==
  [i \in 1 .. 2 * OctetsPrinted(Len(s)) |->
     LET octet == s[(i + 1) \div 2]
     IN  nibble_to_hex_char(IF i % 2 = 1 THEN octet \div 16 ELSE octet % 16)]

\* The zero that ends the text falls into the static buffer; it falls one past
\* it when the digits fill the buffer, which a value too long does as well.
HexEnds(s) == 2 * OctetsPrinted(Len(s)) < MAX_PRINT_STRING_LEN

\* The digits before the first character that is none, or before the end.
LeadingDigits(hex) ==
  Max({n \in 0 .. Len(hex) : \A i \in 1 .. n : hex_char_to_nibble(hex[i]) # -1})

\* Two digits at a time while fewer than len digits are read; what is
\* returned is the number of digits read.
hex_string_to_octet_string(hex, len) ==
  LET wanted == 2 * ((len + 1) \div 2)
      read   == Min({wanted, LeadingDigits(hex)})
  IN  [ret |-> read,
       raw |-> [i \in 1 .. read \div 2 |-> 16 * hex_char_to_nibble(hex[2 * i - 1])
                                           + hex_char_to_nibble(hex[2 * i])]]

(***************************************************************************)
(* Base64.  Three octets make four sextets, and four sextets three octets; *)
(* the shifts and masks of the code are divisions and remainders.          *)
(***************************************************************************)
Pad == 61                                                       \* '='

base64str(sextet) ==
  CASE sextet < 26             -> 65 + sextet                   \* A .. Z
    [] sextet \in 26 .. 51     -> 71 + sextet                   \* a .. z
    [] sextet \in 52 .. 61     -> sextet - 4                    \* 0 .. 9
    [] sextet = 62             -> 43                            \* +
    [] sextet = 63             -> 47                            \* /

\* The inverse table, 255 for every character that is no digit of Base64.
BASE64_DECODE_TABLE(c) ==
  LET values == {v \in 0 .. 63 : base64str(v) = c}
  IN  IF values = {} THEN 255 ELSE CHOOSE v \in values : TRUE

\* The octets after the last of an incomplete group count as 0.
Sextets(s) ==
  LET octet(i) == IF i <= Len(s) THEN s[i] ELSE 0
      first(k) == 3 * ((k - 1) \div 4) + 1    \* where the group of sextet k begins
  IN  [k \in 1 .. (8 * Len(s) + 5) \div 6 |->
         CASE k % 4 = 1 -> octet(first(k)) \div 4
           [] k % 4 = 2 -> (octet(first(k)) % 4) * 16 + octet(first(k) + 1) \div 16
           [] k % 4 = 3 -> (octet(first(k) + 1) % 16) * 4 + octet(first(k) + 2) \div 64
           [] k % 4 = 0 -> octet(first(k) + 2) % 64]

\* nOutLen is the room of the output buffer; too small a room gives -1.
base64_encode(nOutLen, s) ==
  LET needed == ((Len(s) + 2) \div 3) * 4
      digits == Sextets(s)
  IN  IF Len(s) > 0 /\ nOutLen < needed
      THEN [ret |-> -1, text |-> << >>]
      ELSE [ret  |-> needed,
            text |-> [k \in 1 .. needed |-> IF k <= Len(digits) THEN base64str(digits[k]) ELSE Pad]]

\* The zero that ends the text falls into the room: the size check does not
\* count it, so a room of just what is needed has no place for it.
Base64Ends(nOutLen, s) == base64_encode(nOutLen, s).ret < nOutLen

\* The octets that n whole sextets hold; what is left of the last is dropped.
Octets(sextets) ==
  LET first(k) == 4 * ((k - 1) \div 3) + 1    \* where the group of octet k begins
  IN  [k \in 1 .. (6 * Len(sextets)) \div 8 |->
         CASE k % 3 = 1 -> sextets[first(k)] * 4 + sextets[first(k) + 1] \div 16
           [] k % 3 = 2 -> (sextets[first(k) + 1] % 16) * 16 + sextets[first(k) + 2] \div 4
           [] k % 3 = 0 -> (sextets[first(k) + 2] % 4) * 64 + sextets[first(k) + 3]]

\* The room the size check asks for, computed from the length of the text:
\* a length of 4k + 1 asks for one octet.
RoomAsked(nInLen) ==
  CASE nInLen % 4 = 0 -> (nInLen * 3) \div 4
    [] nInLen % 4 = 1 -> 1
    [] nInLen % 4 = 2 -> (nInLen * 3) \div 4 + 1
    [] nInLen % 4 = 3 -> (nInLen * 3) \div 4 + 2

\* The loop over the characters: one that is no digit of Base64 is skipped,
\* '=' included.
Kept(values) ==
  FlattenSeq([i \in DOMAIN values |-> IF values[i] = 255 THEN << >> ELSE << values[i] >>])

\* Mutant: decoding ends at the first character that is no digit.
base64_decodeStops(nOutLen, text) ==
  LET values  == [i \in DOMAIN text |-> BASE64_DECODE_TABLE(text[i])]
      foreign == {i \in DOMAIN text : values[i] = 255}
      octets  == Octets(IF foreign = {} THEN values ELSE SubSeq(values, 1, Min(foreign) - 1))
  IN  IF RoomAsked(Len(text)) > nOutLen
      THEN [ret |-> -1, raw |-> << >>]
      ELSE [ret |-> Len(octets), raw |-> octets]

base64_decode(nOutLen, text) ==
  LET values == [i \in DOMAIN text |-> BASE64_DECODE_TABLE(text[i])]
      octets == Octets(Kept(values))
  IN  IF RoomAsked(Len(text)) > nOutLen
      THEN [ret |-> -1, raw |-> << >>]
      ELSE [ret |-> Len(octets), raw |-> octets]

\* util.c: the number of characters of a block of four that are no digit,
\* and the octets stored for the block.
BlockPad(block) == Cardinality({i \in 1 .. 4 : BASE64_DECODE_TABLE(block[i]) = 255})

base64_block_to_octet_triple(block) ==
  LET sextets == [i \in 1 .. 4 |-> IF BASE64_DECODE_TABLE(block[i]) = 255
                                   THEN 0 ELSE BASE64_DECODE_TABLE(block[i])]
      stored  == IF BlockPad(block) >= 2 THEN 1 ELSE 3 - BlockPad(block)
  IN  SubSeq(Octets(sextets), 1, stored)

\* util.c: whole blocks, up to and including the first with a pad.
base64_string_to_octet_string(text) ==
  LET blocks == [b \in 1 .. Len(text) \div 4 |-> SubSeq(text, 4 * b - 3, 4 * b)]
      padded == {b \in DOMAIN blocks : BlockPad(blocks[b]) > 0}
      read   == IF padded = {} THEN Len(blocks) ELSE Min(padded)
  IN  IF Len(text) % 4 # 0
      THEN [ret |-> 0, raw |-> << >>, pad |-> 0]
      ELSE [ret |-> 4 * read,
            raw |-> FlattenSeq([b \in 1 .. read |-> base64_block_to_octet_triple(blocks[b])]),
            pad |-> IF read = 0 THEN 0 ELSE BlockPad(blocks[read])]
=============================================================================
