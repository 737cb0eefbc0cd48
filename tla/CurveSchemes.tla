----------------------------- MODULE CurveSchemes -----------------------------
(***************************************************************************)
(* The three schemes on the curve, as the crates compute them.             *)
(*                                                                         *)
(* Curve25519: keys and Diffie-Hellman on Montgomery u coordinates.  u and *)
(* y determine one another, so a u is written as the y it belongs to; the  *)
(* one point without a u is the neutral one.                               *)
(*                                                                         *)
(* Ed25519 (RFC 8032): keys made from a seed, deterministic signatures,    *)
(* strict verification.                                                    *)
(*                                                                         *)
(* XEd25519 (XEdDSA): signatures with the keys of Curve25519.  A u has     *)
(* lost the sign of the point, so the signer signs with the scalar whose   *)
(* point has sign 0, and the verifier rebuilds the point with sign 0.      *)
(*                                                                         *)
(* Hashes are operators into the scalars that may collide or be zero.      *)
(***************************************************************************)
EXTENDS Curve, Naturals

CONSTANTS
  PrivateKeys,        \* 32 bytes: a Curve25519 key, clamped or not, or a seed
  Messages,
  Randoms,            \* the 64 random bytes of an XEd25519 signature
  ScalarBytes,        \* what 32 bytes may encode; the canonical ones are Scalars
  ScalarOf(_),        \* Scalar::from_bytes_mod_order of a clamped key
  SeedScalar(_),      \* the lower half of SHA-512(seed), clamped, mod L
  SeedNonce(_, _),    \* H(upper half of SHA-512(seed) || M) mod L
  RandomNonce(_, _, _), \* H(prefix || s || M || Z) mod L
  Challenge(_, _, _), \* H(R || A || M) mod L, on encodings
  Us, SmallUs, ZeroU, \* u coordinates, those of small order, u = 0
  Ladder(_, _)        \* MontgomeryPoint::mul_clamped: clamped key times u

(***************************************************************************)
(* A key is its three lowest bits, its two highest bits and the rest.      *)
(***************************************************************************)
KeyBytes == [low : 0..7, rest : Nat, high : 0..3]

clamp(k) == [k EXCEPT !.low = 0, !.high = 1]

ASSUME KeyAssumption ==
  /\ PrivateKeys \subseteq KeyBytes
  /\ \A k \in PrivateKeys : /\ clamp(k) \in PrivateKeys
                            /\ ScalarOf(clamp(k)) \in Scalars \ {Zero}
                            /\ SeedScalar(k) \in Scalars \ {Zero}
  /\ Scalars \subseteq ScalarBytes

ASSUME HashAssumption ==
  /\ \A k \in PrivateKeys, m \in Messages : SeedNonce(k, m) \in Scalars
  /\ \A s \in Scalars, m \in Messages, z \in Randoms : RandomNonce(s, m, z) \in Scalars
  /\ \A R, A \in Encodings, m \in Messages : Challenge(R, A, m) \in Scalars

(***************************************************************************)
(* The ladder on clamped keys: it commutes, agrees with the multiplication *)
(* of the base point, which the code does on the Edwards form, and yields  *)
(* zero for the points of small order and no other.                        *)
(***************************************************************************)
ASSUME LadderLaws ==
  /\ SmallUs \subseteq Us /\ ZeroU \in Us /\ Us \subseteq Ys
  /\ \A P \in Points : ~IsSmallOrder(P) => Y(P) \in Us \ SmallUs
  /\ \A j, k \in PrivateKeys, u \in Us :
       /\ Ladder(clamp(k), u) \in Us
       /\ Ladder(clamp(k), Y(Base)) = Y(Mult(ScalarOf(clamp(k)), Base))
       /\ Ladder(clamp(j), Ladder(clamp(k), u)) = Ladder(clamp(k), Ladder(clamp(j), u))
       /\ Ladder(clamp(k), u) = ZeroU <=> u \in SmallUs

Signature == [R : Encodings, S : ScalarBytes]

-----------------------------------------------------------------------------
(***************************************************************************)
(* sc_curve25519: a key is clamped when it is taken in, and kept clamped.  *)
(***************************************************************************)
publicFromPrivate(k) == Y(Mult(ScalarOf(clamp(k)), Base))

generateKeyPair(k) == [privateKey |-> clamp(k), publicKey |-> publicFromPrivate(k)]

\* Mutant: the bytes are used as they came.
diffieHellman_Raw(k, u) == Ladder(k, u)

diffieHellman(k, u) == Ladder(clamp(k), u)

(***************************************************************************)
(* What both signature schemes compute: s is the secret scalar, r the      *)
(* nonce, A the public key that is hashed.                                 *)
(***************************************************************************)
\* Mutant: S is not reduced.
signature_Unreduced(s, r, A, m) ==
  [R |-> compress(Mult(r, Base)), S |-> CHOOSE b \in ScalarBytes : b \notin Scalars]

signature(s, r, A, m) ==
  LET R == compress(Mult(r, Base))
      h == Challenge(R, A, m)
  IN  [R |-> R, S |-> SAdd(r, SMul(h, s))]

\* Mutant: S is reduced instead of checked.
canonical_Reduced(S) == TRUE

canonical(S) == S \in Scalars

equation(A, m, sig) ==
  LET h == Challenge(sig.R, A, m)
  IN  /\ OnCurve(A) /\ OnCurve(sig.R) /\ canonical(sig.S)
      /\ Mult(sig.S, Base) = Add(decompress(sig.R), Mult(h, decompress(A)))

(***************************************************************************)
(* sc_ed25519 and the dalek signing key behind it.  VerifyingKey::         *)
(* from_bytes wants a point, and verify_strict refuses an S that is not    *)
(* reduced and an R or A of small order.                                   *)
(***************************************************************************)
ed25519_public_key(k) == compress(Mult(SeedScalar(k), Base))

ed25519_from_seed(k) == [privateKey |-> k, publicKey |-> ed25519_public_key(k)]

ed25519_sign(k, m) == signature(SeedScalar(k), SeedNonce(k, m), ed25519_public_key(k), m)

\* Mutant: verify is called in place of verify_strict.
strict_Not(P) == TRUE

strict(P) == ~IsSmallOrder(P)

ed25519_verify(A, m, sig) ==
  /\ equation(A, m, sig)
  /\ strict(decompress(A)) /\ strict(decompress(sig.R))

(***************************************************************************)
(* sc_xed25519.                                                            *)
(***************************************************************************)
private_to_scalar(k) == ScalarOf(clamp(k))

\* Mutant: the sign of A is dropped from the encoding, not from the scalar.
signingScalar_KeepsSign(k) == private_to_scalar(k)

signingScalar(k) ==
  LET a == private_to_scalar(k)
  IN  IF IsNegative(Mult(a, Base)) THEN SNeg(a) ELSE a

xed25519_sign(k, m, z) ==
  LET a_positive == [compress(Mult(private_to_scalar(k), Base)) EXCEPT !.sign = 0]
      s == signingScalar(k)
  IN  signature(s, RandomNonce(s, m, z), a_positive, m)

montgomery_to_edwards(u) == [y |-> u, sign |-> 0]

xed25519_verify(u, m, sig) == equation(montgomery_to_edwards(u), m, sig)
=============================================================================
