-------------------------------- MODULE MCAead --------------------------------
(***************************************************************************)
(* Two keys, a nonce of each size, additional data that is empty or not,   *)
(* and one message; two boxes may be sealed, so every context can differ   *)
(* from another in any one part.                                           *)
(***************************************************************************)
EXTENDS Aead

CONSTANTS key1, key2, nonce12, nonce24, header, empty, message

MCKeys == {key1, key2}
MCNonces12 == {nonce12}
MCNonces24 == {nonce24}
MCAads == {header, empty}
MCMessages == {message}
=============================================================================
