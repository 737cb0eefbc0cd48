------------------------------ MODULE Encoding -------------------------------
(***************************************************************************)
(* The namespaces Base64, Hex and Utf8 of src/core.ts and the helpers      *)
(* toHex, fromHex, toBase64, fromBase64, ... of src/utils.ts, between two  *)
(* programs: one encodes, the text travels and may be altered, the other   *)
(* decodes it, with whatever function of the family it chose.              *)
(***************************************************************************)
EXTENDS Codecs

CONSTANTS
  Messages,   \* the buffers that are encoded in Base64 and hex
  Strings,    \* the strings that are encoded in UTF-8
  NotAString, NotABuffer   \* arguments of the wrong type

ASSUME InputAssumption ==
  /\ Messages \subseteq Seq(Byte) /\ Strings \subseteq Seq(Unit)
  /\ \A x \in {NotAString, NotABuffer} :
       x \notin Seq(Byte) \cup Seq(Unit) \cup Seq(Utf8Byte) \cup Base64Text \cup HexText

VARIABLES
  pc,        \* "idle", "encoding", "sent", "decoding" or "answered"
  encoder, input,      \* the call that encodes
  sent, received,      \* its text, and what arrives of it
  decoder, reply       \* the call that decodes, and what either call ends with

vars == <<pc, encoder, input, sent, received, decoder, reply>>

None == "none"
NoText == <<>>
NoReply == [kind |-> "none"]
Thrown(error) == [kind |-> "error", error |-> error]

StandardEncoders == {"Base64.encode", "toBase64"}
UrlEncoders == {"Base64.encodeUrlSafe", "toBase64Url"}
LowerEncoders == {"Hex.encode", "toHex", "bufferToString"}
Base64Family == StandardEncoders \cup UrlEncoders
HexFamily == LowerEncoders \cup {"Hex.encodeUpper"}
Encoders == Base64Family \cup HexFamily \cup {"Utf8.encode"}

NodeBase64 == {"fromBase64", "fromBase64Url"}
Base64Decoders == {"Base64.decode", "Base64.decodeUrlSafe"} \cup NodeBase64
HexDecoders == {"Hex.decode", "Hex.isValid", "fromHex", "stringToBuffer"}
Utf8Decoders == {"Utf8.decode", "Utf8.isValid"}
Decoders == Base64Decoders \cup HexDecoders \cup Utf8Decoders

DecodersOf(e) ==
  IF e \in Base64Family THEN Base64Decoders
  ELSE IF e \in HexFamily THEN HexDecoders ELSE Utf8Decoders

(***************************************************************************)
(* The namespaces check the type of their argument; the helpers of utils   *)
(* do not, and are given the right one.                                    *)
(***************************************************************************)
ChecksType(f) == f \notin {"toBase64", "toBase64Url", "toHex", "bufferToString",
                           "fromBase64", "fromBase64Url", "fromHex", "stringToBuffer"}

-----------------------------------------------------------------------------
Init ==
  /\ pc = "idle"
  /\ encoder = None /\ input = NoText
  /\ sent = NoText /\ received = NoText
  /\ decoder = None /\ reply = NoReply

Request ==
  /\ pc = "idle"
  /\ encoder' \in Encoders
  /\ \/ encoder' = "Utf8.encode" /\ input' \in Strings \cup {NotAString}
     \/ encoder' # "Utf8.encode" /\ input' \in Messages
     \/ encoder' # "Utf8.encode" /\ ChecksType(encoder') /\ input' = NotABuffer
  /\ pc' = "encoding"
  /\ UNCHANGED <<sent, received, decoder, reply>>

WrongType == input \in {NotABuffer, NotAString}

encoded(e, v) ==
  IF e \in StandardEncoders THEN base64_encode(v)
  ELSE IF e \in UrlEncoders THEN base64_encode_url_safe(v)
  ELSE IF e \in LowerEncoders THEN hex_encode(v, "lower")
  ELSE IF e = "Hex.encodeUpper" THEN hex_encode(v, "upper")
  ELSE utf8_encode(v)

Encode ==
  /\ pc = "encoding"
  /\ IF WrongType
       THEN /\ reply' = Thrown("TypeError")
            /\ pc' = "answered"
            /\ UNCHANGED sent
       ELSE /\ sent' = encoded(encoder, input)
            /\ pc' = "sent"
            /\ UNCHANGED reply
  /\ UNCHANGED <<encoder, input, received, decoder>>

(***************************************************************************)
(* The text arrives as it is, with a character changed, lost at the end or *)
(* appended, or is no string (no buffer, for UTF-8) at all.  Where Node's  *)
(* decoders differ from version to version, on text after the padding, it  *)
(* is not given to them.                                                   *)
(***************************************************************************)
Wires(e) ==
  IF e \in Base64Family THEN Alphabet("standard") \cup Alphabet("url") \cup {Pad, Foreign}
  ELSE IF e \in HexFamily THEN HexAlphabet \cup {Foreign}
  ELSE Utf8Byte

Altered(text, characters) ==
  {[text EXCEPT ![i] = c] : i \in DOMAIN text, c \in characters}
    \cup {Append(text, c) : c \in characters}
    \cup {SubSeq(text, 1, Len(text) - 1) : n \in DOMAIN text}

PadsLast(text) == \A i, j \in DOMAIN text : i < j /\ text[i] = Pad => text[j] = Pad

Arrive ==
  /\ pc = "sent"
  /\ decoder' \in DecodersOf(encoder)
  /\ \/ received' \in {sent} \cup Altered(sent, Wires(encoder))
     \/ ChecksType(decoder') /\ received' =
          (IF encoder = "Utf8.encode" THEN NotABuffer ELSE NotAString)
  /\ decoder' \in NodeBase64 => PadsLast(received')
  /\ pc' = "decoding"
  /\ UNCHANGED <<encoder, input, sent, reply>>

decoded(d, text) ==
  CASE d = "Base64.decode" -> base64_decode(text)
    [] d = "Base64.decodeUrlSafe" -> base64_decode_url_safe(text)
    [] d \in NodeBase64 -> fromBase64(text)
    [] d = "Hex.decode" -> hex_decode(text)
    [] d = "Hex.isValid" -> Decoded(hex_is_valid(text))
    [] d = "fromHex" -> fromHex(text)
    [] d = "stringToBuffer" -> nodeHex(text)
    [] d = "Utf8.decode" -> utf8_decode(text)
    [] d = "Utf8.isValid" -> Decoded(utf8_is_valid(text))

Decode ==
  /\ pc = "decoding"
  /\ reply' = IF received \in {NotABuffer, NotAString} THEN Thrown("TypeError")
                                                      ELSE decoded(decoder, received)
  /\ pc' = "answered"
  /\ UNCHANGED <<encoder, input, sent, received, decoder>>

Again ==
  /\ pc = "answered"
  /\ pc' = "idle"
  /\ encoder' = None /\ input' = NoText
  /\ sent' = NoText /\ received' = NoText
  /\ decoder' = None /\ reply' = NoReply

Next == Request \/ Encode \/ Arrive \/ Decode \/ Again

Spec == Init /\ [][Next]_vars

-----------------------------------------------------------------------------
Got == pc = "answered" /\ decoder # None
Succeeded == Got /\ reply.kind = "returned"

(* Types; what a decoder of Base64 or hex returns is whole bytes.  Which   *)
(* of the errors a failed decoder throws is a question of its own.         *)
Validators == {"Hex.isValid", "Utf8.isValid"}

Results(d) ==
  IF d \in Validators THEN BOOLEAN
  ELSE IF d \in Utf8Decoders THEN Seq(Unit) ELSE Seq(Byte)

TypeOK ==
  /\ pc \in {"idle", "encoding", "sent", "decoding", "answered"}
  /\ encoder \in Encoders \cup {None} /\ decoder \in Decoders \cup {None}
  /\ reply.kind \in {"none", "returned", "error"}
  /\ Succeeded => reply.value \in Results(decoder)
  /\ reply.kind = "error" => reply.error \in {"TypeError", "RangeError", "Error"}

(* Text that arrives as it was sent is never decoded to anything but what  *)
(* was encoded, by no function of the family, and always by those of the   *)
(* same variant, and is valid; a UTF-8 string comes back with its lone     *)
(* surrogates replaced, so exactly the well-formed ones come back as they  *)
(* were.                                                                   *)
SameVariant ==
  \/ encoder \in StandardEncoders /\ decoder = "Base64.decode"
  \/ encoder \in UrlEncoders /\ decoder = "Base64.decodeUrlSafe"
  \/ decoder \notin {"Base64.decode", "Base64.decodeUrlSafe"}

RoundTrip ==
  Got /\ received = sent =>
    /\ SameVariant => Succeeded
    /\ Succeeded /\ decoder \notin Validators =>
         reply.value = (IF encoder = "Utf8.encode" THEN Replaced(input) ELSE input)
    /\ decoder \in Validators => reply.value

(* What a strict decoder accepts is the one text that stands for the bytes *)
(* it returns: nothing altered on the way passes for the original.  Hex    *)
(* alone has more than one text, which differ in case only.                *)
Lower(text) == [i \in DOMAIN text |-> HexChar(text[i].value, "lower")]

Canonical ==
  Succeeded =>
    /\ decoder = "Base64.decode" => received = base64_encode(reply.value)
    /\ decoder = "Base64.decodeUrlSafe" => received = base64_encode_url_safe(reply.value)
    /\ decoder \in {"Hex.decode", "fromHex"} => Lower(received) = hex_encode(reply.value, "lower")
    /\ decoder = "Utf8.decode" => received = utf8_encode(reply.value)

(* The library decodes twice, in Rust and through Node.  What the strict   *)
(* decoders accept, Node's decode to the same bytes, so a program may      *)
(* change from one to the other without reading its data differently.      *)
NodeAgrees ==
  Succeeded =>
    /\ decoder \in {"Base64.decode", "Base64.decodeUrlSafe"} => reply = fromBase64(received)
    /\ decoder = "Hex.decode" => reply = nodeHex(received)

(* Hex.isValid foretells Hex.decode, and fromHex, which validates with a   *)
(* regular expression and decodes with Node, answers as Hex.decode does.   *)
ValidatorsAgree ==
  Got /\ reply # Thrown("TypeError") =>
    /\ decoder = "Hex.isValid" => (reply.value <=> hex_decode(received).kind = "returned")
    /\ decoder = "fromHex" => reply = hex_decode(received)

(* "Every decode operation throws `RangeError`", says README.md of Base64, *)
(* hex and UTF-8, and the documentation of each of these functions in      *)
(* src/core.ts has @throws {RangeError}.                                   *)
StrictDecoders == {"Base64.decode", "Base64.decodeUrlSafe", "Hex.decode", "Utf8.decode"}

DecodersThrowRangeError ==
  /\ Got
  /\ decoder \in StrictDecoders /\ received \notin {NotAString, NotABuffer}
  /\ reply.kind = "error"
  => reply.error = "RangeError"
=============================================================================
