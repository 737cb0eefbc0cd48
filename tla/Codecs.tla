------------------------------- MODULE Codecs --------------------------------
(***************************************************************************)
(* The encodings of sc-encoding (Base64, hex, UTF-8) and the ones of Node  *)
(* that src/utils.ts uses.                                                 *)
(*                                                                         *)
(* The unit is two bits, a crumb: a byte is 4 crumbs, a Base64 symbol 3, a *)
(* hex digit 2, and to encode is to cut one stream of crumbs in pieces of  *)
(* another width.  A character stands for a symbol or digit, in a form:    *)
(* symbols 62 and 63 are written + / or - _, the digits a-f in two cases.  *)
(***************************************************************************)
EXTENDS Naturals, SequencesExt

CONSTANTS
  Crumb, Zero,      \* the values of two bits, and the one of two zero bits
  SpecialSymbols,   \* 62 and 63
  Letters           \* the digits a to f

Byte == [1..4 -> Crumb]
Symbol == [1..3 -> Crumb]
Digit == [1..2 -> Crumb]

ASSUME CrumbAssumption ==
  Zero \in Crumb /\ SpecialSymbols \subseteq Symbol /\ Letters \subseteq Digit

Flat(pieces, w) ==
  [k \in 1..(w * Len(pieces)) |-> pieces[((k - 1) \div w) + 1][((k - 1) % w) + 1]]

Group(crumbs, w) ==
  [i \in 1..(Len(crumbs) \div w) |-> [j \in 1..w |-> crumbs[w * (i - 1) + j]]]

\* Each element of s stands for a sequence of others, which f gives.
FlatMap(f, s) == FlattenSeq([i \in DOMAIN s |-> f[s[i]]])

-----------------------------------------------------------------------------
(***************************************************************************)
(* Characters.                                                             *)
(***************************************************************************)
Char(value, form, marked) ==
  [value |-> value, form |-> IF value \in marked THEN form ELSE "plain"]

Base64Char(s, form) == Char(s, form, SpecialSymbols)
HexChar(d, form) == Char(d, form, Letters)

Pad == [value |-> <<>>, form |-> "pad"]
Foreign == [value |-> <<>>, form |-> "foreign"]

Alphabet(form) == {Base64Char(s, form) : s \in Symbol}
HexAlphabet == {HexChar(d, form) : d \in Digit, form \in {"lower", "upper"}}

Base64Text == Seq(Alphabet("standard") \cup Alphabet("url") \cup {Pad, Foreign})
HexText == Seq(HexAlphabet \cup {Foreign})

values(text) == [i \in DOMAIN text |-> text[i].value]

Decoded(value) == [kind |-> "returned", value |-> value]
NotDecoded == [kind |-> "error", error |-> "Error"]

-----------------------------------------------------------------------------
(***************************************************************************)
(* Base64.  The stream is filled up to whole symbols with zero crumbs, and *)
(* standard text to whole groups of four characters with padding.          *)
(***************************************************************************)
\* Mutant: the last bytes are lost when they do not fill a symbol.
symbolsOf_DropsTail(bytes) == Group(Flat(bytes, 4), 3)

symbolsOf(bytes) ==
  LET crumbs == Flat(bytes, 4)
  IN  Group(crumbs \o [k \in 1..((3 - (Len(crumbs) % 3)) % 3) |-> Zero], 3)

text64(bytes, form) ==
  [i \in DOMAIN symbolsOf(bytes) |-> Base64Char(symbolsOf(bytes)[i], form)]

Padding(n) == [i \in 1..((4 - (n % 4)) % 4) |-> Pad]

base64_encode(bytes) == LET t == text64(bytes, "standard") IN t \o Padding(Len(t))

base64_encode_url_safe(bytes) == text64(bytes, "url")

\* Mutant: symbols are taken for bytes.
bytesOf_Symbols(symbols) == Group(Flat(symbols, 3), 3)

bytesOf(symbols) == Group(Flat(symbols, 3), 4)

(***************************************************************************)
(* Decoding is strict: only characters of the one alphabet, no group of a  *)
(* single character, nothing but zeros in the crumbs that make no byte.    *)
(***************************************************************************)
\* Mutant: the trailing crumbs are ignored.
trailingZeros_Ignored(symbols) == TRUE

trailingZeros(symbols) ==
  LET crumbs == Flat(symbols, 3)
  IN  \A k \in DOMAIN crumbs : k > 4 * (Len(crumbs) \div 4) => crumbs[k] = Zero

decode64(body, form) ==
  IF /\ body \in Seq(Alphabet(form)) /\ Len(body) % 4 # 1
     /\ trailingZeros(values(body))
  THEN Decoded(bytesOf(values(body)))
  ELSE NotDecoded

pads(text) ==
  LET n == Len(text)
  IN  IF n = 0 \/ text[n] # Pad THEN 0
      ELSE IF n = 1 \/ text[n - 1] # Pad THEN 1 ELSE 2

base64_decode(text) ==
  IF Len(text) % 4 = 0
  THEN decode64(SubSeq(text, 1, Len(text) - pads(text)), "standard")
  ELSE NotDecoded

base64_decode_url_safe(text) == decode64(text, "url")

(***************************************************************************)
(* Buffer.from(s, 'base64') takes both alphabets, passes over what is not  *)
(* in them, and drops what makes no byte.                                  *)
(***************************************************************************)
nodeAlphabet_Standard == Alphabet("standard")
nodeAlphabet == Alphabet("standard") \cup Alphabet("url")

kept == [c \in Alphabet("standard") \cup Alphabet("url") \cup {Pad, Foreign} |->
           IF c \in nodeAlphabet THEN <<c>> ELSE <<>>]

fromBase64(text) == Decoded(bytesOf(values(FlatMap(kept, text))))

-----------------------------------------------------------------------------
(***************************************************************************)
(* Hex.  sc-encoding and fromHex refuse what is not whole bytes of digits; *)
(* Buffer.from(s, 'hex') stops there without an error.                     *)
(***************************************************************************)
hex_encode(bytes, form) ==
  LET digits == Group(Flat(bytes, 4), 2)
  IN  [i \in DOMAIN digits |-> HexChar(digits[i], form)]

hexBytes(text) == Group(Flat(values(text), 2), 4)

hexError(text) == Len(text) % 2 # 0 \/ \E i \in DOMAIN text : text[i] \notin HexAlphabet

hex_decode(text) == IF hexError(text) THEN NotDecoded ELSE Decoded(hexBytes(text))

\* Mutant: the length is not looked at.
hex_is_valid_AnyLength(text) == \A i \in DOMAIN text : text[i] \in HexAlphabet

hex_is_valid(text) == Len(text) % 2 = 0 /\ \A i \in DOMAIN text : text[i] \in HexAlphabet

nodeHex(text) ==
  LET whole(n) == SubSeq(text, 1, 2 * n) \in Seq(HexAlphabet)
      n == CHOOSE n \in 0..(Len(text) \div 2) :
             whole(n) /\ \A m \in 0..(Len(text) \div 2) : whole(m) => m <= n
  IN  Decoded(hexBytes(SubSeq(text, 1, 2 * n)))

fromHex(text) ==
  IF \E i \in DOMAIN text : text[i] \notin HexAlphabet THEN NotDecoded
  ELSE IF Len(text) % 2 # 0 THEN NotDecoded
  ELSE nodeHex(text)

-----------------------------------------------------------------------------
(***************************************************************************)
(* UTF-8.  A byte is known by the least of those that decoders treat like  *)
(* it: "00" is ASCII; "80", "90" and "a0" continue a character, up to 8f,  *)
(* 9f and bf; "c2" leads one of two bytes, "e0", "e1" and "ed" one of      *)
(* three, "f0", "f1" and "f4" one of four; "ff", like c0, c1 and f5 on,    *)
(* occurs nowhere.                                                         *)
(***************************************************************************)
Cont == {"80", "90", "a0"}
Lead3 == {"e0", "e1", "ed"}
Lead4 == {"f0", "f1", "f4"}
Utf8Byte == {"00", "c2", "ff"} \cup Cont \cup Lead3 \cup Lead4

Extra(b) ==
  CASE b = "c2" -> 1
    [] b \in Lead3 -> 2
    [] b \in Lead4 -> 3
    [] OTHER -> 0

(***************************************************************************)
(* What may follow a lead byte: less than a0 after e0, or 90 after f0,     *)
(* would be an overlong form, more than 9f after ed a surrogate, more than *)
(* 8f after f4 beyond the last character.                                  *)
(***************************************************************************)
Second(b) ==
  CASE b = "e0" -> {"a0"}
    [] b = "ed" -> {"80", "90"}
    [] b = "f0" -> {"90", "a0"}
    [] b = "f4" -> {"80"}
    [] OTHER -> Cont

(***************************************************************************)
(* A JavaScript string is made of UTF-16 units, known by the bytes they    *)
(* are written as.  A character of four bytes takes two units, a high and  *)
(* a low surrogate, which have three bytes and one: the high one fixes the *)
(* upper two of the six bits of the third byte, all its class tells.       *)
(***************************************************************************)
Stems(leads) == {c \in leads \X Cont \X Cont : c[2] \in Second(c[1])}

Unit ==
  [kind : {"bmp"}, bytes : {<<"00">>} \cup ({"c2"} \X Cont) \cup Stems(Lead3)]
    \cup [kind : {"hi"}, bytes : Stems(Lead4)]
    \cup [kind : {"lo"}, bytes : {<<x>> : x \in Cont}]

(***************************************************************************)
(* The binding writes the replacement character, U+FFFD, for a surrogate   *)
(* that is not one of a pair.                                              *)
(***************************************************************************)
Replacement == [kind |-> "bmp", bytes |-> <<"e1", "a0", "a0">>]

Paired(t, i) == t[i].kind = "hi" /\ i < Len(t) /\ t[i + 1].kind = "lo"
Lone(t, i) ==
  \/ t[i].kind = "hi" /\ ~Paired(t, i)
  \/ t[i].kind = "lo" /\ ~(i > 1 /\ Paired(t, i - 1))

Replaced(t) == [i \in DOMAIN t |-> IF Lone(t, i) THEN Replacement ELSE t[i]]

unitBytes == [u \in Unit |-> u.bytes]

utf8_encode(t) == FlatMap(unitBytes, Replaced(t))

(***************************************************************************)
(* Each lead byte is followed by as many continuation bytes as it asks     *)
(* for, of which the first is one it allows, and nothing else is there.    *)
(***************************************************************************)
utf8_is_valid(bytes) ==
  /\ \A i \in DOMAIN bytes : bytes[i] # "ff"
  /\ \A i \in DOMAIN bytes :
       bytes[i] \notin Cont => i + Extra(bytes[i]) <= Len(bytes)
  /\ \A i \in DOMAIN bytes :
       bytes[i] \in Cont <=>
         \E j \in 1..(i - 1) : bytes[j] \notin Cont /\ i - j <= Extra(bytes[j])
  /\ \A i \in DOMAIN bytes :
       Extra(bytes[i]) > 0 => bytes[i + 1] \in Second(bytes[i])

codeUnits(c) ==
  IF Len(c) = 4
  THEN <<[kind |-> "hi", bytes |-> <<c[1], c[2], c[3]>>],
         [kind |-> "lo", bytes |-> <<c[4]>>]>>
  ELSE <<[kind |-> "bmp", bytes |-> c]>>

unitsAt(bytes, i) ==
  IF bytes[i] \in Cont THEN <<>>
  ELSE codeUnits(SubSeq(bytes, i, i + Extra(bytes[i])))

utf8_decode(bytes) ==
  IF utf8_is_valid(bytes)
  THEN Decoded(FlattenSeq([i \in DOMAIN bytes |-> unitsAt(bytes, i)]))
  ELSE NotDecoded
=============================================================================
