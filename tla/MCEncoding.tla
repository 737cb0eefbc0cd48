------------------------------ MODULE MCEncoding ------------------------------
(***************************************************************************)
(* A crumb is 0 or 1 here, which gives 8 symbols, 4 digits and 16 bytes,   *)
(* of which three are used: every length modulo 3 occurs with special      *)
(* symbols and with and without zeros at the end, up to two groups.  The   *)
(* strings have characters at every bound a lead byte sets for the byte    *)
(* after it, in pairs, and all patterns of three units with surrogates.    *)
(***************************************************************************)
EXTENDS Encoding

MCSpecialSymbols == {<<1, 1, 0>>, <<1, 1, 1>>}
MCLetters == {<<1, 0>>, <<1, 1>>}

Bytes == {<<0, 0, 0, 0>>, <<0, 1, 0, 1>>, <<1, 1, 1, 1>>}
MCMessages == UNION {[1..n -> Bytes] : n \in 0..3} \cup [1..4 -> {<<1, 1, 1, 1>>, <<0, 1, 0, 1>>}]

Bmp == {<<"00">>, <<"c2", "80">>, <<"e0", "a0", "80">>, <<"ed", "90", "80">>, <<"e1", "a0", "a0">>}
High == [kind |-> "hi", bytes |-> <<"f0", "90", "80">>]
Highest == [kind |-> "hi", bytes |-> <<"f4", "80", "a0">>]
Low == [kind |-> "lo", bytes |-> <<"a0">>]
MCUnits == [kind : {"bmp"}, bytes : Bmp] \cup {High, Highest, Low}
MCStrings ==
  UNION {[1..n -> MCUnits] : n \in 0..2}
    \cup [1..3 -> {[kind |-> "bmp", bytes |-> <<"00">>], High, Low}]
=============================================================================
