------------------------------- MODULE Codecs -------------------------------
(***************************************************************************)
(* A value that is encoded by one of the programs, travels as text, and is *)
(* decoded by another: the C++ codecs of TinyUtil and the Java ones of     *)
(* EncodeUtils side by side.  The hexadecimal text of either language may  *)
(* reach the decoder of either (AccountService stores passwords that way), *)
(* and the text may be broken into lines on the way.                       *)
(*   The C++ encoders leave a C string.  Where the zero that ends it falls  *)
(* past its buffer, the zero is in memory of something else, which may     *)
(* overwrite it before the text is read: the text then goes on to the next *)
(* zero.  What else that write destroys is not modelled.                   *)
(***************************************************************************)
EXTENDS TinyUtil, EncodeUtils

CONSTANTS
  Encodable,    \* the values encoded: sequences of octets or of code units
  Rooms,     \* the sizes of the callers' output buffers
  Beyond,    \* what memory behind a buffer may hold before the next zero
  MaxBreaks  \* the line breaks put into one text

ASSUME EncodableAssumption == Encodable \subseteq Seq(CodeUnit)
ASSUME RoomsAssumption  == Rooms \subseteq Nat
ASSUME BeyondAssumption == Beyond \subseteq Seq(Octet)
ASSUME BreaksAssumption == MaxBreaks \in Nat

VARIABLES
  data,    \* the value encoded
  text,    \* its text, as it travels
  form,    \* the encoder that made the text, or "none"
  ended,   \* the zero that ends the text is inside its buffer
  breaks,  \* line breaks put into the text so far
  outcome   \* what the decoder gave

codecVars == << data, text, form, ended, breaks, outcome >>

NoOutcome == [by |-> "none", asked |-> 0, ret |-> 0, raw |-> << >>, pad |-> 0]

IsHexText == form \in {"octet_string_hex_string", "byte2Hex"}
LineBreak == 10

CodecInit ==
  /\ data \in Encodable
  /\ text = << >>
  /\ form = "none"
  /\ ended = TRUE
  /\ breaks = 0
  /\ outcome = NoOutcome

Encoded(encoder, digits, fits) ==
  /\ form = "none"
  /\ form' = encoder
  /\ ended' = fits
  /\ \E tail \in IF fits THEN {<< >>} ELSE Beyond : text' = digits \o tail
  /\ UNCHANGED << data, breaks, outcome >>

\* The caller is told -1, and has no text, when its buffer is too small.
EncodeBase64 ==
  \E room \in Rooms :
    LET result == base64_encode(room, data)
    IN  /\ data \in Seq(Octet)
        /\ result.ret # -1
        /\ Encoded("base64_encode", result.text, Base64Ends(room, data))

EncodeHex ==
  /\ data \in Seq(Octet)
  /\ Encoded("octet_string_hex_string", octet_string_hex_string(data), HexEnds(data))

EncodeHexJava ==
  /\ data \in Seq(Octet)
  /\ Encoded("byte2Hex", byte2Hex(data), TRUE)

EncodeAscii == Encoded("native2ascii", native2ascii(data), TRUE)

\* A line break appears somewhere in a text of digits.
BreakLine ==
  /\ form = "base64_encode" \/ IsHexText
  /\ outcome = NoOutcome
  /\ breaks < MaxBreaks
  /\ \E at \in 1 .. Len(text) + 1 : text' = InsertAt(text, at, LineBreak)
  /\ breaks' = breaks + 1
  /\ UNCHANGED << data, form, ended, outcome >>

Decoded(by, asked, result, pad) ==
  /\ outcome = NoOutcome
  /\ outcome' = [by |-> by, asked |-> asked, ret |-> result.ret, raw |-> result.raw, pad |-> pad]
  /\ UNCHANGED << data, text, form, ended, breaks >>

\* A Java decoder gives an array or throws.
Java(raw) == [ret |-> IF raw = Thrown THEN -1 ELSE Len(raw), raw |-> raw]

\* The caller's room holds at least as many octets as the text has
\* characters (TinyUtilTest gives both buffers the same size).
DecodeBase64 ==
  \E room \in Rooms :
    /\ form = "base64_encode"
    /\ room >= Len(text)
    /\ Decoded("base64_decode", room, base64_decode(room, text), 0)

DecodeBlocks ==
  LET result == base64_string_to_octet_string(text)
  IN  /\ form = "base64_encode"
      /\ Decoded("base64_string_to_octet_string", Len(text), result, result.pad)

\* The caller asks for any number of digits.
DecodeHex ==
  \E len \in 0 .. Len(text) + 1 :
    /\ IsHexText
    /\ Decoded("hex_string_to_octet_string", len, hex_string_to_octet_string(text, len), 0)

DecodeHexJava ==
  /\ IsHexText
  /\ Decoded("hex2Byte", Len(text), Java(hex2Byte(text)), 0)

DecodeAscii ==
  /\ form = "native2ascii"
  /\ Decoded("ascii2native", Len(text), Java(ascii2native(text)), 0)

CodecNext ==
  \/ EncodeBase64 \/ EncodeHex \/ EncodeHexJava \/ EncodeAscii
  \/ BreakLine
  \/ DecodeBase64 \/ DecodeBlocks \/ DecodeHex \/ DecodeHexJava \/ DecodeAscii

CodecSpec == CodecInit /\ [][CodecNext]_codecVars

\* A text that ended inside its buffer: base64_decode gives back exactly the
\* octets base64_encode was given, wherever line breaks were put: the tail of
\* one or two octets is recovered from the digits alone, without counting the
\* '='.  Only the empty value, its text three line breaks long, is refused by a
\* room of three: the size check asks for four.  The block decoder of util.c
\* reads the whole of an unbroken text of that encoder, reports its padding,
\* and gives the same octets.
Base64RoundTrip ==
  /\ outcome.by = "base64_decode" /\ ended =>
       /\ outcome.raw = data
       /\ outcome.ret = IF data = << >> /\ Len(text) = 3 /\ outcome.asked = 3
                        THEN -1 ELSE Len(data)
  /\ outcome.by = "base64_string_to_octet_string" /\ ended /\ breaks = 0 =>
       /\ outcome.raw = data
       /\ outcome.ret = Len(text)
       /\ Len(data) = (3 * outcome.ret) \div 4 - outcome.pad

\* The octets whose digits the hexadecimal encoder in use writes: the C++ one
\* leaves out those whose digits its static buffer cannot hold.
Printed ==
  IF form = "byte2Hex" THEN data ELSE SubSeq(data, 1, OctetsPrinted(Len(data)))

\* Each decoder of hexadecimal text reads the digits of both encoders.  The
\* C++ one gives octets of the value from its start whatever number of digits
\* it is asked for, wherever the text is broken and whatever follows a text
\* whose zero fell past the buffer; it gives none besides if the zero did not,
\* and all of them when it is asked for their digits and the text is unbroken.
\* The Java one, of a text that ended, gives all octets, or throws and then
\* only for a broken text.  native2ascii leaves only ASCII, and
\* ascii2native gives the value back unless it held a backslash: the encoder
\* does not escape it.
TextRoundTrip ==
  /\ outcome.by = "hex_string_to_octet_string" =>
       /\ Len(outcome.raw) = outcome.ret \div 2
       /\ \A k \in 1 .. Len(Printed) : k <= Len(outcome.raw) => outcome.raw[k] = Printed[k]
       /\ ended => Len(outcome.raw) <= Len(Printed)
       /\ breaks = 0 /\ outcome.asked >= 2 * Len(Printed) => Len(outcome.raw) >= Len(Printed)
  /\ outcome.by = "hex2Byte" /\ ended =>
       IF breaks = 0 THEN outcome.raw = Printed ELSE outcome.raw = Thrown
  /\ form = "native2ascii" => \A i \in DOMAIN text : text[i] <= 126
  /\ outcome.by = "ascii2native" /\ (\A i \in DOMAIN data : data[i] # Backslash) =>
       outcome.raw = data
=============================================================================
