--------------------------- MODULE MCEncryptThenMac ---------------------------
(***************************************************************************)
(* One session for each MAC, all with the same two keys, and one with keys *)
(* of its own of which the MAC key has not the size BLAKE3 wants; two ivs, *)
(* a message of one block and one of two.  Two boxes are sealed, so blocks *)
(* of one can be presented with the tag of another.                        *)
(***************************************************************************)
EXTENDS EncryptThenMac

CONSTANTS sha256, sha512, blake3, odd, sharedKey, oddKey, iv1, iv2, brief, long

MCSessions == {sha256, sha512, blake3, odd}
MCKeys == {sharedKey, oddKey}
MCKey == [s \in MCSessions |-> IF s = odd THEN oddKey ELSE sharedKey]
MCOddKeys == {oddKey}
MCMacOf == [s \in MCSessions |->
  CASE s = sha256 -> "hmac_sha256" [] s = sha512 -> "hmac_sha512" [] OTHER -> "blake3"]
MCIvs == {iv1, iv2}
MCMessages == {brief, long}
MCBlocks == [m \in MCMessages |-> IF m = brief THEN 1 ELSE 2]
=============================================================================
