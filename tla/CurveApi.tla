------------------------------- MODULE CurveApi -------------------------------
(***************************************************************************)
(* The namespaces Curve25519, Ed25519 and XEd25519 of src/core.ts, one     *)
(* call after another: the TypeScript wrapper checks the arguments, the    *)
(* binding calls the crate.  Signatures and public keys travel freely:     *)
(* verify is given any bytes under any key for any message, and the peer   *)
(* of a key agreement may send any u coordinate.                           *)
(***************************************************************************)
EXTENDS CurveSchemes, FiniteSets

CONSTANTS
  Malformed,   \* an argument that is no Buffer, or one of the wrong length
  MaxSigned    \* bound: how many signatures are made in a run

ASSUME MalformedAssumption ==
  /\ Malformed \notin PrivateKeys /\ Malformed \notin Messages /\ Malformed \notin Randoms
  /\ Malformed \notin Encodings /\ Malformed \notin Us /\ Malformed \notin Signature

VARIABLES
  signed,  \* history: who signed what, and the signature that was returned
  pc,      \* "idle", "wrapper", "native" or "answered"
  call,    \* the call being served: namespace, operation and arguments
  reply    \* what it returned or threw

vars == <<signed, pc, call, reply>>

NoCall == [op |-> "none"]
NoReply == [kind |-> "none"]
Returned(value) == [kind |-> "returned", value |-> value]
Thrown(error) == [kind |-> "error", error |-> error]

Or(S) == S \cup {Malformed}

Making ==
  [ns : {"Curve25519", "Ed25519"}, op : {"generateKeyPair"}, privateKey : PrivateKeys]
    \cup [ns : {"Curve25519", "Ed25519"}, op : {"publicFromPrivate"}, privateKey : Or(PrivateKeys)]
    \cup [ns : {"Ed25519"}, op : {"keyPairFromSeed"}, privateKey : Or(PrivateKeys)]

Agreeing == [ns : {"Curve25519"}, op : {"diffieHellman"},
             privateKey : Or(PrivateKeys), peerPublicKey : Or(Us)]

Signing ==
  [ns : {"Ed25519"}, op : {"sign"}, privateKey : Or(PrivateKeys), message : Or(Messages)]
    \cup [ns : {"XEd25519"}, op : {"sign"}, privateKey : Or(PrivateKeys),
          message : Or(Messages), random : Randoms]
    \cup [ns : {"XEd25519"}, op : {"signWithRandom"}, privateKey : Or(PrivateKeys),
          message : Or(Messages), random : Or(Randoms)]

VerifyingOf(ns, publicKeys) ==
  [ns : {ns}, op : {"verify", "verifyBool"}, publicKey : Or(publicKeys),
   message : Or(Messages), signature : Or(Signature)]
Verifying == VerifyingOf("Ed25519", Encodings) \cup VerifyingOf("XEd25519", Us)

Calls == Making \cup Agreeing \cup Signing \cup Verifying

-----------------------------------------------------------------------------
Init ==
  /\ signed = {}
  /\ pc = "idle"
  /\ call = NoCall
  /\ reply = NoReply

(***************************************************************************)
(* Somebody calls; where a function draws random bytes, the call holds     *)
(* what it will draw.                                                      *)
(***************************************************************************)
Issue ==
  /\ pc = "idle"
  /\ \/ call' \in Making \cup Agreeing \cup Verifying
     \/ call' \in Signing /\ Cardinality(signed) < MaxSigned
  /\ pc' = "wrapper"
  /\ UNCHANGED <<signed, reply>>

Continue ==
  /\ pc = "answered"
  /\ pc' = "idle"
  /\ call' = NoCall
  /\ reply' = NoReply
  /\ UNCHANGED signed

Answer(r) ==
  /\ reply' = r
  /\ pc' = "answered"
  /\ UNCHANGED call

(***************************************************************************)
(* The wrappers check every argument before the binding is called.         *)
(***************************************************************************)
MalformedCall == \E argument \in DOMAIN call \ {"ns", "op"} : call[argument] = Malformed

Refusal == IF call.op = "verifyBool" THEN Returned("false") ELSE Thrown("ValidationError")

Wrapper ==
  /\ pc = "wrapper"
  /\ IF MalformedCall THEN Answer(Refusal) ELSE pc' = "native" /\ UNCHANGED <<call, reply>>
  /\ UNCHANGED signed

Native(ops) == pc = "native" /\ call.op \in ops

NativeKeyPair ==
  /\ Native({"generateKeyPair", "keyPairFromSeed"})
  /\ Answer(Returned(IF call.ns = "Ed25519" THEN ed25519_from_seed(call.privateKey)
                                            ELSE generateKeyPair(call.privateKey)))
  /\ UNCHANGED signed

NativePublicFromPrivate ==
  /\ Native({"publicFromPrivate"})
  /\ Answer(Returned(IF call.ns = "Ed25519" THEN ed25519_public_key(call.privateKey)
                                            ELSE publicFromPrivate(call.privateKey)))
  /\ UNCHANGED signed

NativeDiffieHellman ==
  /\ Native({"diffieHellman"})
  /\ Answer(Returned(diffieHellman(call.privateKey, call.peerPublicKey)))
  /\ UNCHANGED signed

NativeSign ==
  /\ Native({"sign", "signWithRandom"})
  /\ LET sig == IF call.ns = "Ed25519"
                  THEN ed25519_sign(call.privateKey, call.message)
                  ELSE xed25519_sign(call.privateKey, call.message, call.random)
     IN  /\ signed' = signed \cup {[ns |-> call.ns, privateKey |-> call.privateKey,
                                    message |-> call.message, signature |-> sig]}
         /\ Answer(Returned(sig))

Verifies(m) ==
  IF call.ns = "Ed25519" THEN ed25519_verify(call.publicKey, m, call.signature)
                         ELSE xed25519_verify(call.publicKey, m, call.signature)

(***************************************************************************)
(* verify throws, and the wrapper renames whatever it was to a             *)
(* SignatureError; verifyBool turns every failure into false.              *)
(***************************************************************************)
NativeVerify ==
  /\ Native({"verify"})
  /\ Answer(IF Verifies(call.message) THEN Returned("undefined") ELSE Thrown("SignatureError"))
  /\ UNCHANGED signed

NativeVerifyBool ==
  /\ Native({"verifyBool"})
  /\ Answer(Returned(IF Verifies(call.message) THEN "true" ELSE "false"))
  /\ UNCHANGED signed

Next ==
  \/ Issue \/ Continue \/ Wrapper
  \/ NativeKeyPair \/ NativePublicFromPrivate \/ NativeDiffieHellman
  \/ NativeSign \/ NativeVerify \/ NativeVerifyBool

Spec == Init /\ [][Next]_vars

-----------------------------------------------------------------------------
(* Types; in particular S of a signature that was made is canonical.       *)
TypeOK ==
  /\ signed \subseteq [ns : {"Ed25519", "XEd25519"}, privateKey : PrivateKeys,
                       message : Messages, signature : [R : Encodings, S : Scalars]]
  /\ pc \in {"idle", "wrapper", "native", "answered"}
  /\ IF pc = "idle" THEN call = NoCall ELSE call \in Calls
  /\ pc = "answered" <=> reply # NoReply

Judged == pc = "answered" /\ call.op \in {"verify", "verifyBool"}

Accepted == Judged /\ reply \in {Returned("undefined"), Returned("true")}

(***************************************************************************)
(* The public key that belongs to a signature, and the encoding of it that *)
(* is hashed.                                                              *)
(***************************************************************************)
PublicKeyOf(s) ==
  IF s.ns = "Ed25519" THEN ed25519_public_key(s.privateKey) ELSE publicFromPrivate(s.privateKey)

UnderKeyOf(s) == call.ns = s.ns /\ call.publicKey = PublicKeyOf(s)

Hashed ==
  IF call.ns = "Ed25519" THEN call.publicKey ELSE montgomery_to_edwards(call.publicKey)

(* Every signature the library makes is accepted, by both functions, under *)
(* the public key made from the private key: for XEd25519 the one          *)
(* Curve25519 derives, whatever the sign of its point and whether or not   *)
(* the private key was clamped.  The one exception is Ed25519's own        *)
(* strictness, which refuses the R of a nonce that hashed to zero.         *)
SignaturesVerify ==
  Judged /\ ~Accepted =>
    \A s \in signed :
      UnderKeyOf(s) /\ call.message = s.message /\ call.signature = s.signature
        => s.ns = "Ed25519" /\ SeedNonce(s.privateKey, s.message) = Zero

(* Nobody can rework a signature: with the point R of one that was made,   *)
(* under its key, R is accepted in one encoding, and S for exactly the     *)
(* messages that share the challenge.  XEd25519, which is not strict, lets *)
(* an R of small order have a second encoding.                             *)
NoMauling ==
  Accepted =>
    \A s \in signed :
      UnderKeyOf(s) /\ decompress(call.signature.R) = decompress(s.signature.R) =>
        \/ /\ call.signature.R = s.signature.R
           /\ (call.signature.S = s.signature.S)
                <=> Challenge(s.signature.R, Hashed, call.message)
                      = Challenge(s.signature.R, Hashed, s.message)
        \/ call.ns = "XEd25519" /\ IsSmallOrder(decompress(s.signature.R))

(* A signature that is accepted binds its message, whoever made the key    *)
(* and the signature and however: it is accepted for no message with       *)
(* another challenge.  Of XEd25519 this is true unless the key has small   *)
(* order: only verify_strict refuses such keys.                            *)
BindsMessage ==
  Accepted =>
    \A m \in Messages :
      Verifies(m) =>
        \/ Challenge(call.signature.R, Hashed, m)
             = Challenge(call.signature.R, Hashed, call.message)
        \/ call.ns = "XEd25519" /\ IsSmallOrder(decompress(Hashed))

Agreed == pc = "answered" /\ call.op = "diffieHellman" /\ reply.kind = "returned"

(* Whoever holds the private key of the peer's public key computes the     *)
(* same secret from the public key of this side, whichever of the private  *)
(* keys were clamped when they were handed in.                             *)
SecretsAgree ==
  Agreed => \A k \in PrivateKeys :
              call.peerPublicKey = publicFromPrivate(k)
                => reply.value = diffieHellman(k, publicFromPrivate(call.privateKey))

(* The secret is the all-zero one, the same for every private key, exactly *)
(* when the peer's key has small order, and nothing but the secret shows   *)
(* it; no public key the library makes is of that kind.                    *)
ZeroSecretFromSmallOrder ==
  Agreed => /\ reply.value = ZeroU <=> call.peerPublicKey \in SmallUs
            /\ call.peerPublicKey \in SmallUs =>
                 \A k \in PrivateKeys : call.peerPublicKey # publicFromPrivate(k)
=============================================================================
