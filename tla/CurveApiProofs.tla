---------------------------- MODULE CurveApiProofs ----------------------------
(***************************************************************************)
(* Proofs about the three namespaces for every curve, ladder, key set and  *)
(* hash that satisfy the laws of modules Curve and CurveSchemes.  Both     *)
(* signature schemes sign with a scalar s and a nonce r, under a hashed    *)
(* key that is the encoding of s times Base (MadeWith): what the verifier's*)
(* equation says of such a signature is one lemma, EquationHolds.  For     *)
(* XEd25519 that the hashed key is that encoding is the point of the       *)
(* scheme (SameKeyOnBothSides).                                            *)
(***************************************************************************)
EXTENDS CurveApi, TLAPS

(***************************************************************************)
(* What decoding finds.                                                    *)
(***************************************************************************)
LEMMA Decoded ==
  ASSUME NEW e \in Encodings, OnCurve(e)
  PROVE  /\ decompress(e) \in Points
         /\ Y(decompress(e)) = e.y
         /\ decompress(e) # Neg(decompress(e)) =>
              IsNegative(decompress(e)) = (e.sign = 1)
<1> DEFINE Decodes(Q) == Y(Q) = e.y /\ (Q # Neg(Q) => IsNegative(Q) = (e.sign = 1))
<1>1. PICK P \in Points : Y(P) = e.y
  BY DEF OnCurve
<1>2. Neg(P) \in Points /\ Y(Neg(P)) = e.y /\ Neg(Neg(P)) = P
  BY <1>1, PointLaws, CoordinateLaws
<1>3. P # Neg(P) => IsNegative(P) # IsNegative(Neg(P))
  BY CoordinateLaws
<1>4. IsNegative(P) \in BOOLEAN /\ IsNegative(Neg(P)) \in BOOLEAN
  BY <1>2, CoordinateLaws
<1>5. \E Q \in Points : Decodes(Q)
  <2>1. CASE P = Neg(P)
    BY <1>1, <2>1
  <2>2. CASE P # Neg(P)
    <3>1. Decodes(P) \/ Decodes(Neg(P))
      BY <1>1, <1>2, <1>3, <1>4, <2>2
    <3> QED
      BY <1>2, <3>1
  <2> QED
    BY <2>1, <2>2
<1>6. decompress(e) = CHOOSE Q \in Points : Decodes(Q)
  BY DEF decompress
<1>7. decompress(e) \in Points /\ Decodes(decompress(e))
  <2> HIDE DEF Decodes
  <2> QED
    BY <1>5, <1>6
<1> QED
  BY <1>7

(***************************************************************************)
(* Compression loses nothing, and a point that is not its own negation has *)
(* no other encoding.                                                      *)
(***************************************************************************)
LEMMA Roundtrip ==
  ASSUME NEW P \in Points
  PROVE  /\ compress(P) \in Encodings
         /\ OnCurve(compress(P))
         /\ decompress(compress(P)) = P
<1> DEFINE e == compress(P)
           Q == decompress(e)
<1>1. e.y = Y(P) /\ e.sign \in {0, 1} /\ (e.sign = 1 <=> IsNegative(P)) /\ e \in Encodings
  BY DEF compress, Encodings, Ys
<1>2. OnCurve(e)
  BY <1>1 DEF OnCurve
<1>3. Q \in Points /\ Y(Q) = Y(P) /\ (Q # Neg(Q) => (IsNegative(Q) = (e.sign = 1)))
  BY <1>1, <1>2, Decoded
<1> HIDE DEF Q, e
<1>4. Q = P \/ Q = Neg(P)
  BY <1>3, CoordinateLaws
<1>5. CASE Q = Neg(P) /\ P # Neg(P)
  <2>1. Neg(P) \in Points /\ Neg(Neg(P)) = P
    BY PointLaws
  <2>2. IsNegative(P) # IsNegative(Q) /\ IsNegative(P) \in BOOLEAN /\ IsNegative(Q) \in BOOLEAN
    BY <1>5, <2>1, CoordinateLaws
  <2> QED
    BY <1>1, <1>3, <1>5, <2>1, <2>2
<1> QED
  BY <1>1, <1>2, <1>4, <1>5 DEF Q, e

LEMMA OneEncoding ==
  ASSUME NEW e \in Encodings, OnCurve(e), decompress(e) # Neg(decompress(e))
  PROVE  e = compress(decompress(e))
<1> DEFINE P == decompress(e)
<1>1. P \in Points /\ Y(P) = e.y /\ IsNegative(P) = (e.sign = 1)
  BY Decoded
<1>2. e.sign \in {0, 1} /\ e = [y |-> e.y, sign |-> e.sign]
  BY DEF Encodings
<1> HIDE DEF P
<1>3. compress(P) = [y |-> e.y, sign |-> e.sign]
  <2>1. (IF IsNegative(P) THEN 1 ELSE 0) = e.sign
    BY <1>1, <1>2
  <2> QED
    BY <1>1, <2>1 DEF compress
<1> QED
  BY <1>2, <1>3 DEF P

(***************************************************************************)
(* The scalar that signs is not zero, and its point is the one with the    *)
(* public key's coordinate and sign 0.                                     *)
(***************************************************************************)
LEMMA SameKeyOnBothSides ==
  ASSUME NEW k \in PrivateKeys
  PROVE  LET A == montgomery_to_edwards(publicFromPrivate(k))
         IN  /\ signingScalar(k) \in Scalars \ {Zero}
             /\ A = compress(Mult(signingScalar(k), Base))
             /\ A = [compress(Mult(private_to_scalar(k), Base)) EXCEPT !.sign = 0]
<1> DEFINE a == private_to_scalar(k)
           P == Mult(a, Base)
           s == signingScalar(k)
<1>1. a \in Scalars /\ a # Zero /\ a = ScalarOf(clamp(k))
  BY KeyAssumption DEF private_to_scalar
<1>2. P \in Points
  BY <1>1, PointLaws
<1>3. publicFromPrivate(k) = Y(P)
  BY <1>1 DEF publicFromPrivate
<1>4. /\ s \in Scalars /\ s # Zero
      /\ Y(Mult(s, Base)) = Y(P) /\ ~IsNegative(Mult(s, Base))
  <2>1. CASE IsNegative(P)
    <3>1. s = SNeg(a) /\ Mult(s, Base) = Neg(P)
      BY <1>1, <2>1, BaseLaws DEF signingScalar
    <3>2. P # Neg(P)
      BY <1>2, <2>1, CoordinateLaws
    <3>3. Y(Neg(P)) = Y(P) /\ ~IsNegative(Neg(P))
      <4>1. Neg(P) \in Points
        BY <1>2, PointLaws
      <4> QED
        BY <1>2, <2>1, <3>2, <4>1, CoordinateLaws
    <3> QED
      BY <1>1, <3>1, <3>3, ScalarLaws
  <2>2. CASE ~IsNegative(P)
    <3>1. s = a
      BY <2>2 DEF signingScalar
    <3> QED
      BY <1>1, <2>2, <3>1
  <2> QED
    BY <2>1, <2>2
<1>5. compress(Mult(s, Base)) = [y |-> Y(P), sign |-> 0]
  BY <1>4 DEF compress
<1>6. [compress(P) EXCEPT !.sign = 0] = [y |-> Y(P), sign |-> 0]
  BY DEF compress
<1>7. montgomery_to_edwards(publicFromPrivate(k)) = [y |-> Y(P), sign |-> 0]
  BY <1>3 DEF montgomery_to_edwards
<1> QED
  BY <1>4, <1>5, <1>6, <1>7

(***************************************************************************)
(* The verifier's equation, for any encoding R of the point of a nonce r   *)
(* and the encoding A of the point of s: it determines S.                  *)
(***************************************************************************)
LEMMA EquationHolds ==
  ASSUME NEW s \in Scalars, NEW r \in Scalars, NEW A, A = compress(Mult(s, Base)),
         NEW R \in Encodings, OnCurve(R), decompress(R) = Mult(r, Base),
         NEW m \in Messages, NEW S
  PROVE  LET h == Challenge(R, A, m)
         IN  /\ h \in Scalars /\ SAdd(r, SMul(h, s)) \in Scalars
             /\ equation(A, m, [R |-> R, S |-> S]) <=> S = SAdd(r, SMul(h, s))
<1> DEFINE h == Challenge(R, A, m)
           w == SAdd(r, SMul(h, s))
<1>1. A \in Encodings /\ OnCurve(A) /\ decompress(A) = Mult(s, Base)
  BY PointLaws, Roundtrip
<1>2. h \in Scalars
  BY <1>1, HashAssumption
<1>3. w \in Scalars /\ Mult(w, Base) = Add(Mult(r, Base), Mult(h, Mult(s, Base)))
  BY <1>2, ScalarLaws, BaseLaws
<1>4. S \in Scalars => (Mult(S, Base) = Mult(w, Base) <=> S = w)
  BY <1>3, BaseLaws
<1>5. equation(A, m, [R |-> R, S |-> S])
        <=> S \in Scalars /\ Mult(S, Base) = Add(Mult(r, Base), Mult(h, Mult(s, Base)))
  BY <1>1 DEF equation, canonical
<1> HIDE DEF h, w
<1>6. equation(A, m, [R |-> R, S |-> S]) <=> S = w
  BY <1>3, <1>4, <1>5
<1> QED
  BY <1>2, <1>3, <1>6 DEF h, w

(***************************************************************************)
(* S determines the challenge.                                             *)
(***************************************************************************)
LEMMA OneChallenge ==
  ASSUME NEW s \in Scalars \ {Zero}, NEW r \in Scalars, NEW g \in Scalars, NEW h \in Scalars,
         SAdd(r, SMul(g, s)) = SAdd(r, SMul(h, s))
  PROVE  g = h
<1>1. Add(Mult(r, Base), Mult(g, Mult(s, Base))) = Add(Mult(r, Base), Mult(h, Mult(s, Base)))
  BY BaseLaws
<1>2. /\ Mult(r, Base) \in Points /\ Mult(s, Base) \in Points
      /\ Mult(g, Mult(s, Base)) \in Points /\ Mult(h, Mult(s, Base)) \in Points
  BY PointLaws
<1>3. Mult(g, Mult(s, Base)) = Mult(h, Mult(s, Base))
  BY <1>1, <1>2, PointLaws
<1>4. ~IsSmallOrder(Mult(s, Base))
  BY SmallOrderLaws
<1> QED
  BY <1>2, <1>3, <1>4, SmallOrderLaws

(***************************************************************************)
(* What is signed: the secret scalar and nonce behind a signature.         *)
(***************************************************************************)
HashedKey(ns, publicKey) ==
  IF ns = "Ed25519" THEN publicKey ELSE montgomery_to_edwards(publicKey)

MadeWith(x, s, r) ==
  LET A == HashedKey(x.ns, PublicKeyOf(x))
  IN  /\ A = compress(Mult(s, Base))
      /\ x.signature = signature(s, r, A, x.message)
      /\ x.ns = "Ed25519" => r = SeedNonce(x.privateKey, x.message)

LEMMA SignatureMade ==
  ASSUME NEW x, NEW s \in Scalars, NEW r \in Scalars, MadeWith(x, s, r), x.message \in Messages
  PROVE  /\ x.signature \in [R : Encodings, S : Scalars]
         /\ x.signature.R = compress(Mult(r, Base))
         /\ x.signature.R \in Encodings /\ OnCurve(x.signature.R)
         /\ decompress(x.signature.R) = Mult(r, Base)
         /\ x.signature.S =
              SAdd(r, SMul(Challenge(x.signature.R, HashedKey(x.ns, PublicKeyOf(x)), x.message), s))
<1> DEFINE A == HashedKey(x.ns, PublicKeyOf(x))
           R == compress(Mult(r, Base))
           S == SAdd(r, SMul(Challenge(R, A, x.message), s))
<1>1. A = compress(Mult(s, Base)) /\ x.signature = [R |-> R, S |-> S]
  BY DEF MadeWith, signature
<1>2. R \in Encodings /\ OnCurve(R) /\ decompress(R) = Mult(r, Base)
  BY PointLaws, Roundtrip
<1>3. S \in Scalars
  BY <1>1, <1>2, EquationHolds
<1> QED
  BY <1>1, <1>2, <1>3

-----------------------------------------------------------------------------
(***************************************************************************)
(* The inductive invariant: what is signed was made with a scalar and a    *)
(* nonce, a call in the native layer is well formed, a verdict is that of  *)
(* the crate, and so is a shared secret.                                   *)
(***************************************************************************)
Made == \A x \in signed : \E s \in Scalars \ {Zero}, r \in Scalars : MadeWith(x, s, r)

MakingOps == {"generateKeyPair", "keyPairFromSeed", "publicFromPrivate"}
SigningOps == {"sign", "signWithRandom"}
VerifyingOps == {"verify", "verifyBool"}
Schemes == {"Ed25519", "XEd25519"}

WellFormed ==
  /\ call.op = "diffieHellman" => call.privateKey \in PrivateKeys /\ call.peerPublicKey \in Us
  /\ call.op \in SigningOps =>
       /\ call.ns \in Schemes /\ call.privateKey \in PrivateKeys /\ call.message \in Messages
       /\ call.ns = "XEd25519" => call.random \in Randoms
  /\ call.op \in VerifyingOps =>
       /\ call.ns \in Schemes /\ call.message \in Messages /\ call.signature \in Signature
       /\ call.publicKey \in (IF call.ns = "Ed25519" THEN Encodings ELSE Us)

Checked == pc = "native" => WellFormed

Accepting == {Returned("undefined"), Returned("true")}

Verdict == Judged => (Accepted <=> WellFormed /\ Verifies(call.message))

Secret == Agreed => WellFormed /\ reply.value = diffieHellman(call.privateKey, call.peerPublicKey)

Inv == TypeOK /\ Made /\ Checked /\ Verdict /\ Secret

(***************************************************************************)
(* A call passes its wrapper's checks exactly when it is well formed.      *)
(***************************************************************************)
LEMMA CallFields ==
  ASSUME call \in Calls
  PROVE  /\ ~MalformedCall => WellFormed
         /\ call.op \in VerifyingOps => (WellFormed <=> ~MalformedCall)
<1>1. CASE call \in Making
  <2>1. call.op \in MakingOps
    BY <1>1 DEF Making, MakingOps
  <2> QED
    BY <2>1 DEF WellFormed, MakingOps, SigningOps, VerifyingOps
<1>2. CASE call \in Agreeing
  <2>1. /\ call.op = "diffieHellman"
        /\ DOMAIN call = {"ns", "op", "privateKey", "peerPublicKey"}
        /\ call.privateKey \in PrivateKeys \cup {Malformed}
        /\ call.peerPublicKey \in Us \cup {Malformed}
    BY <1>2 DEF Agreeing, Or
  <2>2. ~MalformedCall => call.privateKey # Malformed /\ call.peerPublicKey # Malformed
    BY <2>1 DEF MalformedCall
  <2> QED
    BY <2>1, <2>2 DEF WellFormed, SigningOps, VerifyingOps
<1>3. CASE call \in Signing
  <2>1. /\ call.op \in SigningOps /\ call.ns \in Schemes
        /\ {"privateKey", "message"} \subseteq DOMAIN call
        /\ call.privateKey \in PrivateKeys \cup {Malformed}
        /\ call.message \in Messages \cup {Malformed}
        /\ call.ns = "XEd25519" => "random" \in DOMAIN call
                                   /\ call.random \in Randoms \cup {Malformed}
    BY <1>3 DEF Signing, SigningOps, Schemes, Or
  <2>2. ~MalformedCall => /\ call.privateKey # Malformed /\ call.message # Malformed
                          /\ call.ns = "XEd25519" => call.random # Malformed
    BY <2>1 DEF MalformedCall
  <2>3. call.op # "diffieHellman" /\ call.op \notin VerifyingOps
    BY <2>1 DEF SigningOps, VerifyingOps
  <2> QED
    BY <2>1, <2>2, <2>3 DEF WellFormed
<1>4. CASE call \in Verifying
  <2> DEFINE Keys == IF call.ns = "Ed25519" THEN Encodings ELSE Us
  <2>1. /\ call.op \in VerifyingOps /\ call.ns \in Schemes
        /\ DOMAIN call = {"ns", "op", "publicKey", "message", "signature"}
        /\ call.publicKey \in Keys \cup {Malformed}
        /\ call.message \in Messages \cup {Malformed}
        /\ call.signature \in Signature \cup {Malformed}
    BY <1>4 DEF Verifying, VerifyingOf, VerifyingOps, Schemes, Or
  <2>2. ~MalformedCall <=> /\ call.publicKey # Malformed /\ call.message # Malformed
                           /\ call.signature # Malformed
    BY <2>1 DEF MalformedCall
  <2>3. call.op # "diffieHellman" /\ call.op \notin SigningOps
    BY <2>1 DEF SigningOps, VerifyingOps
  <2>4. Malformed \notin Keys /\ Malformed \notin Messages /\ Malformed \notin Signature
    BY MalformedAssumption
  <2> QED
    BY <2>1, <2>2, <2>3, <2>4 DEF WellFormed
<1> QED
  BY <1>1, <1>2, <1>3, <1>4 DEF Calls

(***************************************************************************)
(* Initially, and by every step.                                           *)
(***************************************************************************)
LEMMA InitInv == Init => Inv
<1> SUFFICES ASSUME Init PROVE Inv
  OBVIOUS
<1>1. TypeOK
  BY DEF Init, TypeOK, NoCall, NoReply
<1> QED
  BY <1>1 DEF Init, Inv, Made, Checked, Verdict, Secret, Judged, Agreed

LEMMA Replies ==
  /\ \A e : Thrown(e) \notin Accepting /\ Thrown(e) # NoReply /\ Thrown(e).kind = "error"
  /\ Returned("false") \notin Accepting
  /\ \A v : Returned(v) # NoReply /\ Returned(v).value = v
BY DEF Thrown, Returned, NoReply, Accepting

LEMMA Answered ==
  ASSUME Inv, NEW r, pc \in {"wrapper", "native"}, Answer(r), signed' = signed, r # NoReply,
         call.op \in VerifyingOps => (r \in Accepting <=> WellFormed /\ Verifies(call.message)),
         call.op = "diffieHellman" /\ r.kind = "returned" =>
           WellFormed /\ r.value = diffieHellman(call.privateKey, call.peerPublicKey)
  PROVE  Inv'
<1>1. call' = call /\ reply' = r /\ pc' = "answered"
  BY DEF Answer
<1>2. Made' /\ Checked'
  BY <1>1 DEF Inv, Made, Checked
<1>3. TypeOK'
  BY <1>1 DEF Inv, TypeOK
<1>4. (WellFormed' <=> WellFormed) /\ (Verifies(call.message)' <=> Verifies(call.message))
  BY <1>1 DEF WellFormed, Verifies
<1>5. Verdict'
  BY <1>1, <1>4 DEF Verdict, Accepted, Judged, VerifyingOps, Accepting
<1>6. Secret'
  BY <1>1, <1>4 DEF Secret, Agreed
<1> QED
  BY <1>2, <1>3, <1>5, <1>6 DEF Inv

LEMMA SignedBy ==
  ASSUME WellFormed, call.op \in SigningOps,
         NEW x, x.ns = call.ns, x.privateKey = call.privateKey, x.message = call.message,
         x.signature = (IF call.ns = "Ed25519"
                          THEN ed25519_sign(call.privateKey, call.message)
                          ELSE xed25519_sign(call.privateKey, call.message, call.random))
  PROVE  \E s \in Scalars \ {Zero}, r \in Scalars : MadeWith(x, s, r)
<1> DEFINE k == call.privateKey
           m == call.message
<1>1. call.ns \in Schemes /\ k \in PrivateKeys /\ m \in Messages
  BY DEF WellFormed
<1>2. CASE call.ns = "Ed25519"
  <2>1. SeedScalar(k) \in Scalars \ {Zero} /\ SeedNonce(k, m) \in Scalars
    BY <1>1, KeyAssumption, HashAssumption
  <2>2. HashedKey(x.ns, PublicKeyOf(x)) = ed25519_public_key(k)
    BY <1>2 DEF HashedKey, PublicKeyOf
  <2>3. MadeWith(x, SeedScalar(k), SeedNonce(k, m))
    BY <1>2, <2>2 DEF MadeWith, ed25519_sign, ed25519_public_key
  <2> QED
    BY <2>1, <2>3
<1>3. CASE call.ns = "XEd25519"
  <2> DEFINE s == signingScalar(k)
             r == RandomNonce(s, m, call.random)
             A == montgomery_to_edwards(publicFromPrivate(k))
  <2>1. /\ s \in Scalars \ {Zero} /\ A = compress(Mult(s, Base))
        /\ A = [compress(Mult(private_to_scalar(k), Base)) EXCEPT !.sign = 0]
    BY <1>1, SameKeyOnBothSides
  <2>2. r \in Scalars
    BY <1>1, <1>3, <2>1, HashAssumption DEF WellFormed
  <2>3. HashedKey(x.ns, PublicKeyOf(x)) = A
    BY <1>3 DEF HashedKey, PublicKeyOf
  <2>4. x.signature = signature(s, r, A, m)
    BY <1>3, <2>1 DEF xed25519_sign
  <2> HIDE DEF s, r, A
  <2>5. MadeWith(x, s, r)
    BY <1>3, <2>1, <2>3, <2>4 DEF MadeWith
  <2> QED
    BY <2>1, <2>2, <2>5
<1> QED
  BY <1>1, <1>2, <1>3 DEF Schemes

LEMMA NextInv == Inv /\ [Next]_vars => Inv'
<1> SUFFICES ASSUME Inv, [Next]_vars PROVE Inv'
  OBVIOUS
<1>f. pc # "idle" => call \in Calls
  BY DEF Inv, TypeOK
<1>1. CASE UNCHANGED vars
  BY <1>1 DEF Inv, TypeOK, Made, Checked, Verdict, Secret, Judged, Agreed, Accepted, WellFormed,
              Verifies, vars
<1>2. CASE Issue
  <2>1. call' \in Calls /\ pc' = "wrapper" /\ signed' = signed /\ reply' = reply
    BY <1>2 DEF Issue, Calls
  <2>2. reply = NoReply
    BY <1>2 DEF Issue, Inv, TypeOK
  <2> QED
    BY <2>1, <2>2 DEF Inv, TypeOK, Made, Checked, Verdict, Secret, Judged, Agreed
<1>3. CASE Continue
  BY <1>3 DEF Continue, Inv, TypeOK, Made, Checked, Verdict, Secret, Judged, Agreed
<1>4. CASE Wrapper
  <2>1. pc = "wrapper" /\ signed' = signed /\ call \in Calls
    BY <1>4, <1>f DEF Wrapper
  <2>2. CASE MalformedCall
    <3>1. Answer(Refusal)
      BY <1>4, <2>2 DEF Wrapper
    <3>2. Refusal # NoReply /\ Refusal \notin Accepting
      BY Replies DEF Refusal
    <3>3. call.op = "diffieHellman" => Refusal.kind = "error"
      BY Replies DEF Refusal
    <3>4. call.op \in VerifyingOps => ~WellFormed
      BY <2>1, <2>2, CallFields
    <3> HIDE DEF Refusal
    <3> QED
      BY <2>1, <3>1, <3>2, <3>3, <3>4, Answered
  <2>3. CASE ~MalformedCall
    <3>1. WellFormed
      BY <2>1, <2>3, CallFields
    <3>2. pc' = "native" /\ call' = call /\ reply' = reply
      BY <1>4, <2>3 DEF Wrapper
    <3> QED
      BY <2>1, <3>1, <3>2 DEF Inv, TypeOK, Made, Checked, Verdict, Secret, Judged, Agreed, WellFormed
  <2> QED
    BY <2>2, <2>3
<1>5. CASE NativeKeyPair \/ NativePublicFromPrivate
  <2>1. PICK v : Answer(Returned(v)) /\ signed' = signed /\ pc = "native" /\ call.op \in MakingOps
    BY <1>5 DEF NativeKeyPair, NativePublicFromPrivate, Native, MakingOps
  <2>2. call.op \notin VerifyingOps /\ call.op # "diffieHellman"
    BY <2>1 DEF MakingOps, VerifyingOps
  <2> QED
    BY <2>1, <2>2, Answered, Replies
<1>6. CASE NativeDiffieHellman
  <2> DEFINE v == diffieHellman(call.privateKey, call.peerPublicKey)
  <2>1. Answer(Returned(v)) /\ signed' = signed /\ pc = "native" /\ call.op = "diffieHellman"
    BY <1>6 DEF NativeDiffieHellman, Native
  <2>2. WellFormed /\ call.op \notin VerifyingOps
    BY <2>1 DEF Inv, Checked, VerifyingOps
  <2>3. Returned(v) # NoReply /\ Returned(v).value = v
    BY Replies
  <2> QED
    BY <2>1, <2>2, <2>3, Answered
<1>7. CASE NativeSign
  <2> DEFINE sig == IF call.ns = "Ed25519"
                      THEN ed25519_sign(call.privateKey, call.message)
                      ELSE xed25519_sign(call.privateKey, call.message, call.random)
             new == [ns |-> call.ns, privateKey |-> call.privateKey,
                     message |-> call.message, signature |-> sig]
  <2>1. /\ pc = "native" /\ call.op \in SigningOps
        /\ signed' = signed \cup {new}
        /\ call' = call /\ reply' = Returned(sig) /\ pc' = "answered"
    BY <1>7 DEF NativeSign, Native, Answer, SigningOps
  <2>2. WellFormed
    BY <2>1 DEF Inv, Checked
  <2>3. PICK s \in Scalars \ {Zero}, r \in Scalars : MadeWith(new, s, r)
    BY <2>1, <2>2, SignedBy
  <2>4. new \in [ns : Schemes, privateKey : PrivateKeys, message : Messages,
                 signature : [R : Encodings, S : Scalars]]
    <3>1. call.ns \in Schemes /\ call.privateKey \in PrivateKeys /\ call.message \in Messages
      BY <2>1, <2>2 DEF WellFormed
    <3>2. new.signature \in [R : Encodings, S : Scalars]
      <4>1. new.message \in Messages
        BY <3>1
      <4> HIDE DEF new
      <4> QED
        BY <2>3, <4>1, SignatureMade
    <3> HIDE DEF sig
    <3> QED
      BY <3>1, <3>2
  <2> HIDE DEF new, sig
  <2>5. Made'
    BY <2>1, <2>3 DEF Inv, Made
  <2>6. TypeOK'
    BY <1>f, <2>1, <2>4, Replies DEF Inv, TypeOK, Schemes
  <2>7. call.op \notin VerifyingOps /\ call.op # "diffieHellman"
    BY <2>1 DEF SigningOps, VerifyingOps
  <2> QED
    BY <2>1, <2>5, <2>6, <2>7 DEF Inv, Checked, Verdict, Secret, Judged, Agreed, VerifyingOps
<1>8. CASE NativeVerify \/ NativeVerifyBool
  <2> DEFINE ok == Verifies(call.message)
  <2>1. pc = "native" /\ call.op \in VerifyingOps /\ signed' = signed
    BY <1>8 DEF NativeVerify, NativeVerifyBool, Native, VerifyingOps
  <2>2. WellFormed /\ call.op # "diffieHellman"
    BY <2>1 DEF Inv, Checked, VerifyingOps
  <2>3. PICK r : Answer(r) /\ r # NoReply /\ (r \in Accepting <=> ok)
    <3> HIDE DEF ok
    <3>1. CASE ok
      BY <1>8, <3>1, Replies DEF NativeVerify, NativeVerifyBool, ok, Accepting
    <3>2. CASE ~ok
      BY <1>8, <3>2, Replies DEF NativeVerify, NativeVerifyBool, ok
    <3> QED
      BY <3>1, <3>2
  <2> QED
    BY <2>1, <2>2, <2>3, Answered
<1> QED
  BY <1>1, <1>2, <1>3, <1>4, <1>5, <1>6, <1>7, <1>8 DEF Next

(***************************************************************************)
(* The invariant holds in every reachable state.                           *)
(***************************************************************************)
THEOREM InvHolds == Spec => []Inv
BY InitInv, NextInv, PTL DEF Spec

(***************************************************************************)
(* Every call, reply and signature keeps its type; in particular S of a    *)
(* signature that was made is canonical.                                   *)
(***************************************************************************)
THEOREM TypeCorrect == Spec => []TypeOK
<1>1. Inv => TypeOK
  BY DEF Inv
<1> QED
  BY <1>1, InvHolds, PTL

-----------------------------------------------------------------------------
(***************************************************************************)
(* A verdict, taken apart.                                                 *)
(***************************************************************************)
LEMMA JudgedCall ==
  ASSUME Inv, Judged, WellFormed
  PROVE  /\ call.ns \in Schemes /\ call.message \in Messages
         /\ call.signature.R \in Encodings
         /\ call.signature = [R |-> call.signature.R, S |-> call.signature.S]
         /\ Hashed = HashedKey(call.ns, call.publicKey) /\ Hashed \in Encodings
<1>1. call.op \in VerifyingOps
  BY DEF Judged, VerifyingOps
<1>2. Us \subseteq Ys
  BY LadderLaws
<1> QED
  BY <1>1, <1>2 DEF WellFormed, Signature, Hashed, HashedKey, montgomery_to_edwards, Encodings, Schemes

LEMMA VerifiesEquation ==
  ASSUME NEW m, call.ns \in Schemes
  PROVE  Verifies(m) <=>
           /\ equation(Hashed, m, call.signature)
           /\ call.ns = "Ed25519" => /\ ~IsSmallOrder(decompress(Hashed))
                                     /\ ~IsSmallOrder(decompress(call.signature.R))
BY DEF Verifies, Hashed, ed25519_verify, xed25519_verify, strict, Schemes

(***************************************************************************)
(* A call that presents a signature of a message that was signed, under    *)
(* the key it was made with, is well formed.                               *)
(***************************************************************************)
LEMMA PresentedWellFormed ==
  ASSUME Inv, Judged, NEW x \in signed, UnderKeyOf(x), call.message = x.message,
         call.signature = x.signature
  PROVE  WellFormed
<1>1. /\ x.ns \in Schemes /\ x.privateKey \in PrivateKeys /\ x.message \in Messages
      /\ x.signature \in [R : Encodings, S : Scalars]
  BY DEF Inv, TypeOK, Schemes
<1>2. x.signature \in Signature
  BY <1>1, KeyAssumption DEF Signature
<1>3. CASE x.ns = "Ed25519"
  <2>1. ed25519_public_key(x.privateKey) \in Encodings
    BY <1>1, KeyAssumption, PointLaws, Roundtrip DEF ed25519_public_key
  <2> QED
    BY <1>1, <1>2, <1>3, <2>1
    DEF WellFormed, UnderKeyOf, PublicKeyOf, Judged, SigningOps, VerifyingOps
<1>4. CASE x.ns = "XEd25519"
  <2> DEFINE s == ScalarOf(clamp(x.privateKey))
  <2>1. s \in Scalars \ {Zero}
    BY <1>1, KeyAssumption
  <2>2. Mult(s, Base) \in Points /\ ~IsSmallOrder(Mult(s, Base))
    BY <2>1, PointLaws, SmallOrderLaws
  <2>3. publicFromPrivate(x.privateKey) \in Us
    BY <2>2, LadderLaws DEF publicFromPrivate
  <2> QED
    BY <1>1, <1>2, <1>4, <2>3
    DEF WellFormed, UnderKeyOf, PublicKeyOf, Judged, SigningOps, VerifyingOps, Schemes
<1> QED
  BY <1>1, <1>3, <1>4 DEF Schemes

(***************************************************************************)
(* A signature that was made is accepted under its key, by both functions, *)
(* whatever the sign of the key's point; Ed25519 alone refuses one, whose  *)
(* nonce hashed to zero.                                                   *)
(***************************************************************************)
THEOREM SignaturesAlwaysVerify == Spec => []SignaturesVerify
<1>1. Inv => SignaturesVerify
  <2> SUFFICES ASSUME Inv, Judged, ~Accepted, NEW x \in signed, UnderKeyOf(x),
                      call.message = x.message, call.signature = x.signature
               PROVE  x.ns = "Ed25519" /\ SeedNonce(x.privateKey, x.message) = Zero
    BY DEF SignaturesVerify
  <2>1. PICK s \in Scalars \ {Zero}, r \in Scalars : MadeWith(x, s, r)
    BY DEF Inv, Made
  <2>2. WellFormed
    BY PresentedWellFormed
  <2>3. ~Verifies(call.message)
    BY <2>2 DEF Inv, Verdict
  <2>4. /\ x.ns = call.ns /\ call.ns \in Schemes /\ x.message \in Messages
        /\ Hashed = HashedKey(x.ns, PublicKeyOf(x)) /\ Hashed = compress(Mult(s, Base))
    BY <2>1, <2>2, JudgedCall DEF UnderKeyOf, MadeWith
  <2>5. /\ x.signature.R \in Encodings /\ OnCurve(x.signature.R)
        /\ decompress(x.signature.R) = Mult(r, Base)
        /\ x.signature.S = SAdd(r, SMul(Challenge(x.signature.R, Hashed, x.message), s))
        /\ x.signature = [R |-> x.signature.R, S |-> x.signature.S]
    <3>1. x.signature \in [R : Encodings, S : Scalars]
      BY <2>1, <2>4, SignatureMade
    <3>2. x.signature = [R |-> x.signature.R, S |-> x.signature.S]
      BY <3>1
    <3>3. /\ x.signature.R \in Encodings /\ OnCurve(x.signature.R)
          /\ decompress(x.signature.R) = Mult(r, Base)
      BY <2>1, <2>4, SignatureMade
    <3>4. x.signature.S
            = SAdd(r, SMul(Challenge(x.signature.R, HashedKey(x.ns, PublicKeyOf(x)), x.message), s))
      BY <2>1, <2>4, SignatureMade
    <3> QED
      BY <2>4, <3>2, <3>3, <3>4
  <2>6. equation(Hashed, x.message, [R |-> x.signature.R, S |-> x.signature.S])
    BY <2>4, <2>5, EquationHolds
  <2>7. equation(Hashed, call.message, call.signature)
    BY <2>5, <2>6
  <2>8. ~IsSmallOrder(decompress(Hashed))
    BY <2>4, Roundtrip, PointLaws, SmallOrderLaws
  <2>9. call.ns = "Ed25519" /\ IsSmallOrder(Mult(r, Base))
    BY <2>3, <2>4, <2>5, <2>7, <2>8, VerifiesEquation
  <2>10. r = Zero
    BY <2>9, SmallOrderLaws
  <2> QED
    BY <2>1, <2>4, <2>9, <2>10 DEF MadeWith
<1> QED
  BY <1>1, InvHolds, PTL

(***************************************************************************)
(* A signature cannot be reworked: its point R is accepted in the encoding *)
(* the signer gave it, save one of small order by XEd25519, and S is the   *)
(* signer's exactly for the messages with the same challenge.              *)
(***************************************************************************)
THEOREM SignaturesAreNotMauled == Spec => []NoMauling
<1>1. Inv => NoMauling
  <2> SUFFICES ASSUME Inv, Accepted, NEW x \in signed, UnderKeyOf(x),
                      decompress(call.signature.R) = decompress(x.signature.R),
                      ~(call.ns = "XEd25519" /\ IsSmallOrder(decompress(x.signature.R)))
               PROVE  /\ call.signature.R = x.signature.R
                      /\ (call.signature.S = x.signature.S)
                           <=> Challenge(x.signature.R, Hashed, call.message)
                                 = Challenge(x.signature.R, Hashed, x.message)
    BY DEF NoMauling
  <2> DEFINE R == x.signature.R
             h == Challenge(R, Hashed, x.message)
             h2 == Challenge(R, Hashed, call.message)
  <2>1. PICK s \in Scalars \ {Zero}, r \in Scalars : MadeWith(x, s, r)
    BY DEF Inv, Made
  <2>2. WellFormed /\ Verifies(call.message) /\ Judged
    BY DEF Inv, Verdict, Accepted
  <2>3. /\ x.ns = call.ns /\ call.ns \in Schemes /\ x.message \in Messages
        /\ Hashed = HashedKey(x.ns, PublicKeyOf(x)) /\ Hashed = compress(Mult(s, Base))
    BY <2>1, <2>2, JudgedCall DEF UnderKeyOf, MadeWith, Inv, TypeOK
  <2>4. /\ call.message \in Messages /\ call.signature.R \in Encodings
        /\ call.signature = [R |-> call.signature.R, S |-> call.signature.S]
        /\ equation(Hashed, call.message, call.signature)
        /\ OnCurve(call.signature.R)
        /\ ~IsSmallOrder(decompress(call.signature.R))
    <3>1. equation(Hashed, call.message, call.signature)
      BY <2>2, <2>3, VerifiesEquation
    <3>2. OnCurve(call.signature.R)
      BY <3>1 DEF equation
    <3>3. ~IsSmallOrder(decompress(call.signature.R))
      BY <2>2, <2>3, VerifiesEquation DEF Schemes
    <3> QED
      BY <2>2, <3>1, <3>2, <3>3, JudgedCall
  <2>5. /\ R = compress(Mult(r, Base)) /\ R \in Encodings /\ OnCurve(R)
        /\ decompress(R) = Mult(r, Base)
        /\ x.signature.S = SAdd(r, SMul(h, s))
    <3>1. s \in Scalars /\ MadeWith(x, s, r) /\ x.message \in Messages
      BY <2>1, <2>3
    <3>2. /\ R = compress(Mult(r, Base)) /\ R \in Encodings /\ OnCurve(R)
          /\ decompress(R) = Mult(r, Base)
      BY <3>1, SignatureMade
    <3>3. x.signature.S =
            SAdd(r, SMul(Challenge(R, HashedKey(x.ns, PublicKeyOf(x)), x.message), s))
      BY <3>1, SignatureMade
    <3> QED
      BY <2>3, <3>2, <3>3
  <2>6. call.signature.R = R
    <3> DEFINE P == decompress(call.signature.R)
    <3>1. P \in Points
      BY <2>4, Decoded
    <3>2. P # Neg(P)
      BY <2>4, <3>1, SmallOrderLaws
    <3>3. call.signature.R = compress(P)
      BY <2>4, <3>2, OneEncoding
    <3> QED
      BY <2>5, <3>3
  <2>7. h \in Scalars
    BY <2>2, <2>3, <2>5, JudgedCall, HashAssumption
  <2>8. h2 \in Scalars /\ call.signature.S = SAdd(r, SMul(h2, s))
    <3>1. equation(Hashed, call.message, [R |-> R, S |-> call.signature.S])
      BY <2>4, <2>6
    <3> QED
      BY <2>3, <2>4, <2>5, <3>1, EquationHolds
  <2> HIDE DEF h, h2, R
  <2>9. call.signature.S = x.signature.S <=> h2 = h
    BY <2>5, <2>7, <2>8, OneChallenge
  <2> QED
    BY <2>6, <2>9 DEF h, h2, R
<1> QED
  BY <1>1, InvHolds, PTL

(***************************************************************************)
(* What is accepted is accepted for no message with another challenge,     *)
(* whoever made the key and the signature, unless an XEd25519 key has      *)
(* small order.                                                            *)
(***************************************************************************)
THEOREM AcceptedBindsMessage == Spec => []BindsMessage
<1>1. Inv => BindsMessage
  <2> SUFFICES ASSUME Inv, Accepted, NEW m \in Messages, Verifies(m),
                      ~(call.ns = "XEd25519" /\ IsSmallOrder(decompress(Hashed)))
               PROVE  Challenge(call.signature.R, Hashed, m)
                        = Challenge(call.signature.R, Hashed, call.message)
    BY DEF BindsMessage
  <2> DEFINE A == decompress(Hashed)
             R == decompress(call.signature.R)
             h == Challenge(call.signature.R, Hashed, m)
             h2 == Challenge(call.signature.R, Hashed, call.message)
             S == call.signature.S
  <2>1. WellFormed /\ Verifies(call.message) /\ Judged
    BY DEF Inv, Verdict, Accepted
  <2>2. /\ call.ns \in Schemes /\ call.message \in Messages
        /\ Hashed \in Encodings /\ call.signature.R \in Encodings
    BY <2>1, JudgedCall
  <2>3. h \in Scalars /\ h2 \in Scalars
    BY <2>2, HashAssumption
  <2>4. /\ equation(Hashed, m, call.signature)
        /\ equation(Hashed, call.message, call.signature)
        /\ ~IsSmallOrder(A)
    BY <2>1, <2>2, VerifiesEquation DEF Schemes
  <2>5. /\ OnCurve(Hashed) /\ OnCurve(call.signature.R)
        /\ Mult(S, Base) = Add(R, Mult(h, A))
        /\ Mult(S, Base) = Add(R, Mult(h2, A))
    BY <2>4 DEF equation
  <2>6. A \in Points /\ R \in Points
    BY <2>2, <2>5, Decoded
  <2> HIDE DEF A, R, h, h2, S
  <2>7. Mult(h, A) \in Points /\ Mult(h2, A) \in Points
    BY <2>3, <2>6, PointLaws
  <2>8. Mult(h, A) = Mult(h2, A)
    BY <2>5, <2>6, <2>7, PointLaws
  <2>9. h = h2
    BY <2>3, <2>4, <2>6, <2>8, SmallOrderLaws
  <2> QED
    BY <2>9 DEF h, h2
<1> QED
  BY <1>1, InvHolds, PTL

-----------------------------------------------------------------------------
(***************************************************************************)
(* A public key is the ladder's multiple of the base point, and not of     *)
(* small order.                                                            *)
(***************************************************************************)
LEMMA PublicKey ==
  ASSUME NEW k \in PrivateKeys
  PROVE  /\ publicFromPrivate(k) \in Us \ SmallUs
         /\ publicFromPrivate(k) = Ladder(clamp(k), Y(Base))
<1>1. ScalarOf(clamp(k)) \in Scalars \ {Zero}
  BY KeyAssumption
<1>2. Mult(ScalarOf(clamp(k)), Base) \in Points /\ ~IsSmallOrder(Mult(ScalarOf(clamp(k)), Base))
  BY <1>1, PointLaws, SmallOrderLaws
<1>3. Y(Mult(ScalarOf(clamp(k)), Base)) \in Us \ SmallUs
  BY <1>2, LadderLaws
<1> QED
  BY <1>3, LadderLaws DEF publicFromPrivate

LEMMA BaseHasU == Y(Base) \in Us
<1>1. Base \in Points /\ ~IsSmallOrder(Base)
  BY PointLaws, SmallOrderLaws
<1> QED
  BY <1>1, LadderLaws

(***************************************************************************)
(* The two sides of a key agreement compute the same secret.               *)
(***************************************************************************)
THEOREM SecretsAlwaysAgree == Spec => []SecretsAgree
<1>1. Inv => SecretsAgree
  <2> SUFFICES ASSUME Inv, Agreed, NEW k \in PrivateKeys,
                      call.peerPublicKey = publicFromPrivate(k)
               PROVE  reply.value = diffieHellman(k, publicFromPrivate(call.privateKey))
    BY DEF SecretsAgree
  <2> DEFINE j == call.privateKey
  <2>1. j \in PrivateKeys /\ reply.value = Ladder(clamp(j), publicFromPrivate(k))
    BY DEF Inv, Secret, Agreed, WellFormed, diffieHellman
  <2>2. /\ publicFromPrivate(k) = Ladder(clamp(k), Y(Base))
        /\ publicFromPrivate(j) = Ladder(clamp(j), Y(Base))
    BY <2>1, PublicKey
  <2>3. Ladder(clamp(j), Ladder(clamp(k), Y(Base))) = Ladder(clamp(k), Ladder(clamp(j), Y(Base)))
    BY <2>1, BaseHasU, LadderLaws
  <2> HIDE DEF j
  <2>4. diffieHellman(k, publicFromPrivate(j)) = Ladder(clamp(k), publicFromPrivate(j))
    BY DEF diffieHellman
  <2> QED
    BY <2>1, <2>2, <2>3, <2>4 DEF j
<1> QED
  BY <1>1, InvHolds, PTL

(***************************************************************************)
(* The all-zero secret comes of the peer keys of small order and of no     *)
(* other, and the library makes none of those.                             *)
(***************************************************************************)
THEOREM ZeroSecretsAreSmallOrder == Spec => []ZeroSecretFromSmallOrder
<1>1. Inv => ZeroSecretFromSmallOrder
  <2> SUFFICES ASSUME Inv, Agreed PROVE ZeroSecretFromSmallOrder
    BY DEF ZeroSecretFromSmallOrder
  <2>1. /\ call.privateKey \in PrivateKeys /\ call.peerPublicKey \in Us
        /\ reply.value = Ladder(clamp(call.privateKey), call.peerPublicKey)
    BY DEF Inv, Secret, Agreed, WellFormed, diffieHellman
  <2>2. reply.value = ZeroU <=> call.peerPublicKey \in SmallUs
    BY <2>1, LadderLaws
  <2>3. \A k \in PrivateKeys : publicFromPrivate(k) \notin SmallUs
    BY PublicKey
  <2> QED
    BY <2>2, <2>3 DEF ZeroSecretFromSmallOrder
<1> QED
  BY <1>1, InvHolds, PTL
=============================================================================
