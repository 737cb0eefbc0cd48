--------------------------------- MODULE Aead ---------------------------------
(***************************************************************************)
(* The three AEAD namespaces of src/core.ts (AES_GCM, ChaCha20Poly1305,    *)
(* XChaCha20Poly1305) over their bindings and crates, serving one caller   *)
(* after another.  A call passes the TypeScript wrapper, which refuses     *)
(* wrong arguments with errors of its own kind, the native layer, which    *)
(* checks again and runs the cipher, and, on the way back, the wrapper's   *)
(* catch clause if it has one.                                             *)
(*                                                                         *)
(* The ciphers are ideal: a ciphertext opens in the context it was made    *)
(* in, and no other bytes open.  What is checked is everything around      *)
(* them.  What happens to ciphertexts between calls (lost, reordered,      *)
(* presented twice or to another key, changed, cut off) is up to whoever   *)
(* holds them: decrypt may be given any of those.                          *)
(***************************************************************************)
EXTENDS FiniteSets, Naturals

CONSTANTS
  Keys,       \* buffers of KEY_SIZE bytes
  Nonces12,   \* buffers of 12 bytes
  Nonces24,   \* buffers of 24 bytes
  Aads,       \* buffers of additional data
  EmptyAad,   \* the empty one
  Messages,   \* plaintexts
  Malformed,  \* no Buffer, or a Buffer of a length no cipher takes
  Altered,    \* a ciphertext of at least TAG_SIZE bytes that no call returned
  Short,      \* a ciphertext of fewer than TAG_SIZE bytes
  MaxSealed   \* bound: how many boxes are sealed in a run

ASSUME AadAssumption == EmptyAad \in Aads
ASSUME MalformedAssumption ==
  Malformed \notin Keys \cup Nonces12 \cup Nonces24 \cup Aads \cup Messages
ASSUME NonceAssumption == Nonces12 \cap Nonces24 = {}

AesGcm == {"aes256gcm"}
ChaChas == {"chacha20poly1305", "xchacha20poly1305"}
Ciphers == AesGcm \cup ChaChas

NoncesOf(cipher) == IF cipher = "xchacha20poly1305" THEN Nonces24 ELSE Nonces12

Box == {b \in [cipher : Ciphers, key : Keys, nonce : Nonces12 \cup Nonces24,
               aad : Aads, msg : Messages] : b.nonce \in NoncesOf(b.cipher)}

Whole(b) == [box |-> b]
WholeCiphertexts == [box : Box]
Others == {Altered, Short, Malformed}

ASSUME OthersAssumption ==
  /\ Others \cap WholeCiphertexts = {}
  /\ Altered # Short /\ Altered # Malformed /\ Short # Malformed

(***************************************************************************)
(* A call: withAad tells encryptWithAad from encrypt, data is the          *)
(* plaintext or the ciphertext.                                            *)
(***************************************************************************)
CallWith(op, payloads) ==
  [op : {op}, cipher : Ciphers, withAad : BOOLEAN, key : Keys \cup {Malformed},
   nonce : Nonces12 \cup Nonces24 \cup {Malformed}, aad : Aads \cup {Malformed},
   data : payloads]

Call == CallWith("encrypt", Messages \cup {Malformed})
          \cup CallWith("decrypt", WholeCiphertexts \cup Others)

VARIABLES
  sealed,  \* history: the boxes whose ciphertext some call returned
  pc,      \* "idle", "wrapper", "native" or "answered"
  call,    \* the call being served
  reply    \* what it returned or threw

vars == <<sealed, pc, call, reply>>

NoCall == [op |-> "none"]
NoReply == [kind |-> "none"]
Ciphertext(b) == [kind |-> "ciphertext", box |-> b]
Plaintext(m) == [kind |-> "plaintext", msg |-> m]
Thrown(error) == [kind |-> "error", error |-> error]

Errors == {"ValidationError", "CryptoError", "AuthenticationError", "RangeError",
           "TypeError", "NativeError"}
Reply == {Ciphertext(b) : b \in Box} \cup {Plaintext(m) : m \in Messages}
           \cup {Thrown(e) : e \in Errors}

-----------------------------------------------------------------------------
Init ==
  /\ sealed = {}
  /\ pc = "idle"
  /\ call = NoCall
  /\ reply = NoReply

(***************************************************************************)
(* Somebody calls.  Calls that differ in an argument they do not have are  *)
(* the same call.                                                          *)
(***************************************************************************)
Issue ==
  /\ pc = "idle"
  /\ \/ /\ Cardinality(sealed) < MaxSealed
        /\ call' \in CallWith("encrypt", Messages \cup {Malformed})
     \/ call' \in CallWith("decrypt", {Whole(b) : b \in sealed} \cup Others)
  /\ ~call'.withAad => call'.aad = EmptyAad
  /\ pc' = "wrapper"
  /\ UNCHANGED <<sealed, reply>>

(***************************************************************************)
(* The caller goes on; the library remembers nothing of the call.          *)
(***************************************************************************)
Continue ==
  /\ pc = "answered"
  /\ pc' = "idle"
  /\ call' = NoCall
  /\ reply' = NoReply
  /\ UNCHANGED sealed

Answer(r) ==
  /\ reply' = r
  /\ pc' = "answered"
  /\ UNCHANGED call

Throw(error) == Answer(Thrown(error)) /\ UNCHANGED sealed

ToNative == pc' = "native" /\ UNCHANGED <<sealed, call, reply>>

In(layer, ciphers, op) == pc = layer /\ call.cipher \in ciphers /\ call.op = op

KeyAndNonceOk == call.key \in Keys /\ call.nonce \in NoncesOf(call.cipher)

\* Mutant: additional data is passed on unchecked.
PayloadOk_AnyAad == call.data # Malformed

PayloadOk == call.data # Malformed /\ (call.withAad => call.aad # Malformed)

-----------------------------------------------------------------------------
(***************************************************************************)
(* The wrappers.  AES_GCM uses the validators of src/validators.ts and     *)
(* tells a ciphertext without room for a tag apart.                        *)
(***************************************************************************)
AesGcmEncrypt ==
  /\ In("wrapper", AesGcm, "encrypt")
  /\ IF KeyAndNonceOk /\ PayloadOk THEN ToNative ELSE Throw("ValidationError")

\* Mutant: the tag-size check is left to the cipher.
AesGcmDecrypt_NoTagCheck ==
  /\ In("wrapper", AesGcm, "decrypt")
  /\ IF KeyAndNonceOk /\ PayloadOk THEN ToNative ELSE Throw("ValidationError")

AesGcmDecrypt ==
  /\ In("wrapper", AesGcm, "decrypt")
  /\ IF ~(KeyAndNonceOk /\ PayloadOk) THEN Throw("ValidationError")
     ELSE IF call.data = Short THEN Throw("CryptoError")
     ELSE ToNative

(***************************************************************************)
(* ChaCha20Poly1305 and XChaCha20Poly1305 check by hand, with the built-in *)
(* error classes of JavaScript.                                            *)
(***************************************************************************)
ChaChaEncrypt ==
  /\ In("wrapper", ChaChas, "encrypt")
  /\ IF ~KeyAndNonceOk THEN Throw("RangeError")
     ELSE IF ~PayloadOk THEN Throw("TypeError")
     ELSE ToNative

ChaChaDecrypt ==
  /\ In("wrapper", ChaChas, "decrypt")
  /\ IF ~KeyAndNonceOk THEN Throw("RangeError")
     ELSE IF ~PayloadOk THEN Throw("TypeError")
     ELSE ToNative

-----------------------------------------------------------------------------
(***************************************************************************)
(* The native layer.  Without additional data the ciphers run on b"".      *)
(***************************************************************************)
\* Mutant: additional data never reaches the cipher.
effectiveAad_Dropped == EmptyAad

effectiveAad == IF call.withAad THEN call.aad ELSE EmptyAad

boxOf(msg) == [cipher |-> call.cipher, key |-> call.key, nonce |-> call.nonce,
               aad |-> effectiveAad, msg |-> msg]

(***************************************************************************)
(* The ideal cipher of the RustCrypto crates: a ciphertext opens exactly   *)
(* in the context it was sealed in.                                        *)
(***************************************************************************)
Opens == call.data \in WholeCiphertexts /\ call.data.box = boxOf(call.data.box.msg)

\* The size checks repeated below the wrapper; each cipher has its own nonces.
sizesOk(nonces) == call.key \in Keys /\ call.nonce \in nonces

sealWith(nonces) ==
  IF sizesOk(nonces)
    THEN /\ sealed' = sealed \cup {boxOf(call.data)}
         /\ Answer(Ciphertext(boxOf(call.data)))
    ELSE Throw("NativeError")

openWith(nonces, error) ==
  IF sizesOk(nonces) /\ Opens
    THEN /\ Answer(Plaintext(call.data.box.msg))
         /\ UNCHANGED sealed
    ELSE Throw(error)

(***************************************************************************)
(* AES-256-GCM: the binding checks the sizes; the wrapper turns whatever   *)
(* decryption fails with into an AuthenticationError.                      *)
(***************************************************************************)
Aes256GcmEncrypt ==
  /\ In("native", AesGcm, "encrypt")
  /\ sealWith(Nonces12)

Aes256GcmDecrypt ==
  /\ In("native", AesGcm, "decrypt")
  /\ openWith(Nonces12, "AuthenticationError")

(***************************************************************************)
(* ChaCha20-Poly1305 and its extended-nonce variant: two types of the      *)
(* crate, each with its nonce size.  Nobody catches their errors, so they  *)
(* reach the caller as they are.                                           *)
(***************************************************************************)
chacha_encrypt == sealWith(Nonces12)
chacha_decrypt == openWith(Nonces12, "NativeError")

xchacha_encrypt == sealWith(Nonces24)
xchacha_decrypt == openWith(Nonces24, "NativeError")

Chacha20Poly1305Encrypt ==
  /\ In("native", {"chacha20poly1305"}, "encrypt")
  /\ chacha_encrypt

Chacha20Poly1305Decrypt ==
  /\ In("native", {"chacha20poly1305"}, "decrypt")
  /\ chacha_decrypt

Xchacha20Poly1305Encrypt ==
  /\ In("native", {"xchacha20poly1305"}, "encrypt")
  /\ xchacha_encrypt

Xchacha20Poly1305Decrypt ==
  /\ In("native", {"xchacha20poly1305"}, "decrypt")
  /\ xchacha_decrypt

Next ==
  \/ Issue \/ Continue
  \/ AesGcmEncrypt \/ AesGcmDecrypt
  \/ ChaChaEncrypt \/ ChaChaDecrypt
  \/ Aes256GcmEncrypt \/ Aes256GcmDecrypt
  \/ Chacha20Poly1305Encrypt \/ Chacha20Poly1305Decrypt
  \/ Xchacha20Poly1305Encrypt \/ Xchacha20Poly1305Decrypt

Spec == Init /\ [][Next]_vars

-----------------------------------------------------------------------------
(* The code holds these.                                                   *)
TypeOK ==
  /\ sealed \subseteq Box
  /\ pc \in {"idle", "wrapper", "native", "answered"}
  /\ IF pc = "idle" THEN call = NoCall ELSE call \in Call
  /\ reply \in IF pc = "answered" THEN Reply ELSE {NoReply}

(***************************************************************************)
(* The refinement: what the caller asks of the ideal specification.  The   *)
(* additional data of encrypt and decrypt is the empty buffer, so a box    *)
(* sealed by one variant opens with the other.                             *)
(***************************************************************************)
WellFormed == KeyAndNonceOk /\ PayloadOk
requestedBox(msg) ==
  [cipher |-> call.cipher, key |-> call.key, nonce |-> call.nonce,
   aad |-> IF call.withAad THEN call.aad ELSE EmptyAad, msg |-> msg]
Genuine ==
  /\ call.data \in WholeCiphertexts
  /\ call.data.box = requestedBox(call.data.box.msg)

request ==
  IF pc \in {"idle", "answered"} THEN [op |-> "idle"]
  ELSE IF WellFormed /\ call.op = "encrypt" THEN [op |-> "seal", box |-> requestedBox(call.data)]
  ELSE IF WellFormed /\ Genuine THEN [op |-> "open", box |-> call.data.box]
  ELSE [op |-> "bogus"]

answer == IF reply.kind = "error" THEN [kind |-> "refused"] ELSE reply

Ideal == INSTANCE AeadIdeal WITH Boxes <- Box, reply <- answer

(* The three namespaces implement ideal authenticated encryption: every    *)
(* well-formed encryption is answered with a ciphertext of that box, every *)
(* genuine ciphertext opens to the message that was sealed, by either      *)
(* variant and however often it is presented, and nothing else opens.      *)
ImplementsIdeal == Ideal!Spec

(* The class of the error tells the caller what was wrong.  In particular  *)
(* AES_GCM's catch clause, which renames everything it catches, never      *)
(* reports a mistaken argument as a failed authentication, and no error at *)
(* all means a genuine ciphertext.  The ChaCha wrappers throw none of the  *)
(* classes that README.md wants all errors to be of.                       *)
ErrorsTellTheTruth ==
  reply.kind = "error" =>
    CASE reply.error = "ValidationError" -> call.cipher \in AesGcm /\ ~WellFormed
      [] reply.error = "CryptoError" -> WellFormed /\ call.data = Short
      [] reply.error = "AuthenticationError" ->
           WellFormed /\ call.op = "decrypt" /\ call.data # Short /\ ~Genuine
      [] reply.error = "RangeError" -> ~KeyAndNonceOk
      [] reply.error = "TypeError" -> KeyAndNonceOk /\ ~PayloadOk
      [] reply.error = "NativeError" ->
           WellFormed /\ call.op = "decrypt" /\ ~Genuine
=============================================================================
