---------------------------- MODULE EncryptThenMac ----------------------------
(***************************************************************************)
(* AES_CBC is not authenticated; README.md and __tests__/index.test.ts     *)
(* pair it with HMAC and concat:                                           *)
(*   ct = AES_CBC.encrypt(encKey, iv, plaintext)                           *)
(*   tag = HMAC.sha256(macKey, concat([iv, ct]))                           *)
(*   if (HMAC.verifySha256(macKey, concat([iv, ct]), tag))                 *)
(*     AES_CBC.decrypt(encKey, iv, ct)                                     *)
(* The MAC of a session may as well be HMAC.sha512, or BLAKE3.keyedHash,   *)
(* which src/core.ts offers as an alternative.  This module composes the   *)
(* namespaces that way, one library call per step, and leaves iv, ct and   *)
(* tag to whoever carries them: pieces are dropped, replaced, moved from   *)
(* one buffer to the other and presented to another session.  Buffers are  *)
(* sequences of 16-byte blocks; what concat forgets is where one buffer    *)
(* ends and the next begins.                                               *)
(***************************************************************************)
EXTENDS FiniteSets, Naturals, SequencesExt

CONSTANTS
  Sessions,
  EncKeys, EncKey,   \* the AES key of each session
  MacKeys, MacKey,   \* its MAC key
  MacOf,             \* and the function it makes its tags with
  OddKeys,    \* the MAC keys that are not of 32 bytes
  Ivs,        \* initialization vectors, one block each
  Messages,   \* plaintexts
  Blocks,     \* how many blocks the ciphertext of each message has
  Mangled,    \* a block no call returned
  NoTag,      \* a tag no call returned
  Garbage,    \* what decryption makes of blocks that do not belong together
  MaxSealed   \* bound: how many boxes are sealed in a run

Macs == {"hmac_sha256", "hmac_sha512", "blake3"}

ASSUME BlocksAssumption == Blocks \in [Messages -> Nat \ {0}]
ASSUME SessionsAssumption ==
  /\ EncKey \in [Sessions -> EncKeys] /\ MacKey \in [Sessions -> MacKeys]
  /\ MacOf \in [Sessions -> Macs] /\ OddKeys \subseteq MacKeys
  /\ \A s, t \in Sessions : MacKey[s] = MacKey[t] /\ MacOf[s] = MacOf[t] => s = t

Box == [session : Sessions, iv : Ivs, msg : Messages]
Block == [key : EncKeys, iv : Ivs, msg : Messages, n : Nat] \cup Ivs \cup {Mangled}

ASSUME NoTagAssumption == NoTag \notin [mac : Macs, key : MacKeys, data : Seq(Block)]

VARIABLES
  sealed,  \* history: the boxes sealed so far
  pc,      \* the library call that is next, "idle" or "answered"
  call,    \* what the session's user does
  reply    \* what came of it

vars == <<sealed, pc, call, reply>>

NoCall == [op |-> "none"]
NoReply == [kind |-> "none"]
Ciphertext(b) == [kind |-> "ciphertext", box |-> b]
Plaintext(m) == [kind |-> "plaintext", msg |-> m]
Thrown(error) == [kind |-> "error", error |-> error]

-----------------------------------------------------------------------------
(***************************************************************************)
(* The primitives, ideal.  Block n of a CBC ciphertext depends on the key, *)
(* on everything before it and on the whole chain up to it.                *)
(***************************************************************************)
cbcEncrypt(b) ==
  [n \in 1..Blocks[b.msg] |-> [key |-> EncKey[b.session], iv |-> b.iv, msg |-> b.msg, n |-> n]]

chainOf(b) == <<b.iv>> \o cbcEncrypt(b)

(***************************************************************************)
(* CBC decryption chains each block to the one before: the last blocks of  *)
(* a chain decrypt, under the block before them, to the end of its         *)
(* message, padding intact.  Anything else decrypts to garbage whose       *)
(* padding may or may not be well formed; no blocks at all have none.      *)
(***************************************************************************)
TailOf(msg, n) == IF n = 1 THEN msg ELSE [tail |-> msg, from |-> n]

cbcDecrypt(session, iv, ct) ==
  LET chains == {b \in Box : EncKey[b.session] = EncKey[session] /\ IsSuffix(iv \o ct, chainOf(b))}
  IN  IF ct = << >> THEN {Thrown("CryptoError")}
      ELSE IF chains # {}
        THEN {Plaintext(TailOf(b.msg, Len(chainOf(b)) - Len(ct))) : b \in chains}
        ELSE {Plaintext(Garbage), Thrown("CryptoError")}

hmac_sha256(key, data) == [mac |-> "hmac_sha256", key |-> key, data |-> data]
hmac_sha512(key, data) == [mac |-> "hmac_sha512", key |-> key, data |-> data]
keyed_hash(key, data) == [mac |-> "blake3", key |-> key, data |-> data]

(***************************************************************************)
(* Each verification computes the tag again and compares all of it.        *)
(***************************************************************************)
verify(key, data, tag) == tag = hmac_sha256(key, data)
verify_sha512(key, data, tag) == tag = hmac_sha512(key, data)
keyed_hash_verify(key, data, tag) == tag = keyed_hash(key, data)

\* Mutant: the tag covers the ciphertext, not the iv.
macInput_NoIv(iv, ct) == ct

macInput(iv, ct) == iv \o ct

tagOf(b) ==
  LET key == MacKey[b.session]
      data == macInput(<<b.iv>>, cbcEncrypt(b))
  IN  CASE MacOf[b.session] = "hmac_sha256" -> hmac_sha256(key, data)
        [] MacOf[b.session] = "hmac_sha512" -> hmac_sha512(key, data)
        [] MacOf[b.session] = "blake3" -> keyed_hash(key, data)

-----------------------------------------------------------------------------
(***************************************************************************)
(* What may arrive of a sealed box: a piece of its blocks, one of them     *)
(* possibly replaced, cut anywhere into an iv and a ct, with the tag of    *)
(* any sealed box or one that is none.                                     *)
(***************************************************************************)
Pieces(b) == {SubSeq(chainOf(b), i, j) : i \in 1..Len(chainOf(b)), j \in 1..Len(chainOf(b))}
Changed(piece) == {piece} \cup {[piece EXCEPT ![i] = Mangled] : i \in DOMAIN piece}

Cuts(piece) ==
  {[iv |-> SubSeq(piece, 1, cut), ct |-> SubSeq(piece, cut + 1, Len(piece))] :
     cut \in 0..Len(piece)}

Deliveries ==
  {[op |-> "open", session |-> s, iv |-> c.iv, ct |-> c.ct, tag |-> t] :
     s \in Sessions,
     c \in UNION {Cuts(p) : p \in UNION {Changed(q) : q \in UNION {Pieces(b) : b \in sealed}}},
     t \in {tagOf(b) : b \in sealed} \cup {NoTag}}

Init ==
  /\ sealed = {}
  /\ pc = "idle"
  /\ call = NoCall
  /\ reply = NoReply

StartSealing ==
  /\ pc = "idle"
  /\ Cardinality(sealed) < MaxSealed
  /\ \E b \in Box : call' = [op |-> "seal", session |-> b.session, box |-> b]
  /\ pc' = "encrypt"
  /\ UNCHANGED <<sealed, reply>>

StartOpening ==
  /\ pc = "idle"
  /\ call' \in Deliveries
  /\ pc' = "verify"
  /\ UNCHANGED <<sealed, reply>>

Answer(r) ==
  /\ reply' = r
  /\ pc' = "answered"
  /\ UNCHANGED <<sealed, call>>

Continue ==
  /\ pc = "answered"
  /\ pc' = "idle"
  /\ call' = NoCall
  /\ reply' = NoReply
  /\ UNCHANGED sealed

-----------------------------------------------------------------------------
(***************************************************************************)
(* AES_CBC.encrypt cannot fail on the iv of a session.                     *)
(***************************************************************************)
Encrypt ==
  /\ pc = "encrypt"
  /\ pc' = "mac"
  /\ UNCHANGED <<sealed, call, reply>>

(***************************************************************************)
(* The tag over the concatenation (tagOf); only then are iv, ct and tag    *)
(* handed out.  HMAC takes any key.                                        *)
(***************************************************************************)
Tagged ==
  /\ sealed' = sealed \cup {call.box}
  /\ reply' = Ciphertext(call.box)
  /\ pc' = "answered"
  /\ UNCHANGED call

Uses(mac) == MacOf[call.session] = mac

HmacSha256 == pc = "mac" /\ Uses("hmac_sha256") /\ Tagged
HmacSha512 == pc = "mac" /\ Uses("hmac_sha512") /\ Tagged

(***************************************************************************)
(* BLAKE3.keyedHash, like its verification, insists on a key of 32 bytes.  *)
(***************************************************************************)
keyOk == MacKey[call.session] \notin OddKeys

KeyedHash ==
  /\ pc = "mac" /\ Uses("blake3")
  /\ IF keyOk THEN Tagged ELSE Answer(Thrown("ValidationError"))

(***************************************************************************)
(* The verification recomputes the tag; on false the user stops.           *)
(***************************************************************************)
Verified(ok) ==
  IF ok THEN pc' = "decrypt" /\ UNCHANGED <<sealed, call, reply>>
  ELSE Answer(Thrown("unverified"))

received == macInput(call.iv, call.ct)

\* Mutant: the user decrypts whatever verifySha256 says.
VerifySha256_Ignored == pc = "verify" /\ Uses("hmac_sha256") /\ Verified(TRUE)

VerifySha256 ==
  /\ pc = "verify" /\ Uses("hmac_sha256")
  /\ Verified(verify(MacKey[call.session], received, call.tag))

VerifySha512 ==
  /\ pc = "verify" /\ Uses("hmac_sha512")
  /\ Verified(verify_sha512(MacKey[call.session], received, call.tag))

KeyedHashVerify ==
  /\ pc = "verify" /\ Uses("blake3")
  /\ IF keyOk THEN Verified(keyed_hash_verify(MacKey[call.session], received, call.tag))
               ELSE Answer(Thrown("ValidationError"))

ivOk(iv) == Len(iv) = 1

(***************************************************************************)
(* AES_CBC.decrypt: wrapper and binding both insist on an iv of one block. *)
(***************************************************************************)
Decrypt ==
  /\ pc = "decrypt"
  /\ IF ivOk(call.iv)
       THEN \E r \in cbcDecrypt(call.session, call.iv, call.ct) : Answer(r)
       ELSE Answer(Thrown("ValidationError"))

Next ==
  \/ StartSealing \/ StartOpening \/ Continue
  \/ Encrypt \/ HmacSha256 \/ HmacSha512 \/ KeyedHash
  \/ VerifySha256 \/ VerifySha512 \/ KeyedHashVerify \/ Decrypt

Spec == Init /\ [][Next]_vars

-----------------------------------------------------------------------------
(* The pairing only ever holds these.                                      *)
TypeOK ==
  /\ sealed \subseteq Box
  /\ pc \in {"idle", "encrypt", "mac", "verify", "decrypt", "answered"}
  /\ pc \in {"encrypt", "mac"} => call.box \in Box
  /\ pc = "decrypt" => call.tag # NoTag
  /\ (reply = NoReply) = (pc # "answered")

(***************************************************************************)
(* What the user of a session asks of ideal authenticated encryption.      *)
(***************************************************************************)
Genuine(b) ==
  /\ b.session = call.session
  /\ call.iv = <<b.iv>> /\ call.ct = cbcEncrypt(b)
  /\ call.tag = tagOf(b)

request ==
  IF pc \in {"idle", "answered"} THEN [op |-> "idle"]
  ELSE IF Uses("blake3") /\ ~keyOk THEN [op |-> "bogus"]
  ELSE IF call.op = "seal" THEN [op |-> "seal", box |-> call.box]
  ELSE IF \E b \in Box : Genuine(b)
    THEN [op |-> "open", box |-> CHOOSE b \in Box : Genuine(b)]
  ELSE [op |-> "bogus"]

answer == IF reply.kind = "error" THEN [kind |-> "refused"] ELSE reply

Ideal == INSTANCE AeadIdeal WITH Boxes <- Box, reply <- answer

(* The pairing implements ideal authenticated encryption, the same         *)
(* specification the AEAD namespaces implement: what opens is what was     *)
(* sealed, even though the MAC does not see where the iv ends.             *)
ImplementsIdeal == Ideal!Spec

(* Whoever sends changed bytes learns nothing about their padding: the     *)
(* CryptoError of AES_CBC.decrypt never reaches anybody.                   *)
NoPaddingError == reply # Thrown("CryptoError")
=============================================================================
