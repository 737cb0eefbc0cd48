------------------------------ MODULE AeadProofs ------------------------------
(***************************************************************************)
(* Proofs about Aead for every set of keys, nonces, additional data and    *)
(* messages.  The argument: a call that reached the native layer passed    *)
(* every check (Checked), a whole ciphertext in somebody's hands was       *)
(* returned by an earlier call (Held), and the box the cipher is run on    *)
(* is the box the caller asked for (the data-free variants run on b"").    *)
(***************************************************************************)
EXTENDS Aead, TLAPS

Checked == pc = "native" => WellFormed

Held ==
  (pc # "idle" /\ call.op = "decrypt" /\ call.data \in WholeCiphertexts)
    => call.data.box \in sealed

Inv == TypeOK /\ Checked /\ Held /\ ErrorsTellTheTruth

(***************************************************************************)
(* The fields of a call have the types CallWith gives them.                *)
(***************************************************************************)
LEMMA CallFields ==
  ASSUME call \in Call
  PROVE  /\ call.op \in {"encrypt", "decrypt"} /\ call.cipher \in Ciphers
         /\ call.withAad \in BOOLEAN
         /\ call.key \in Keys \cup {Malformed}
         /\ call.nonce \in Nonces12 \cup Nonces24 \cup {Malformed}
         /\ call.aad \in Aads \cup {Malformed}
         /\ call.op = "encrypt" => call.data \in Messages \cup {Malformed}
         /\ call.op = "decrypt" => call.data \in WholeCiphertexts \cup Others
BY DEF Call, CallWith

(***************************************************************************)
(* A well-formed call asks for a box.                                      *)
(***************************************************************************)
LEMMA RequestedBoxes ==
  ASSUME call \in Call, WellFormed
  PROVE  /\ \A msg \in Messages : requestedBox(msg) \in Box
         /\ call.op = "encrypt" => call.data \in Messages
<1>1. /\ call.cipher \in Ciphers /\ call.key \in Keys
      /\ call.nonce \in NoncesOf(call.cipher)
      /\ call.withAad => call.aad \in Aads
  BY CallFields DEF WellFormed, KeyAndNonceOk, PayloadOk
<1>2. call.op = "encrypt" => call.data \in Messages
  BY CallFields DEF WellFormed, PayloadOk
<1> QED
  BY <1>1, <1>2, AadAssumption DEF requestedBox, Box, NoncesOf

(***************************************************************************)
(* The native layer seals and opens what was asked for.                    *)
(***************************************************************************)
LEMMA NativeDoesWhatWasAsked ==
  /\ \A msg : boxOf(msg) = requestedBox(msg)
  /\ Opens <=> Genuine
BY DEF boxOf, requestedBox, effectiveAad, Opens, Genuine

-----------------------------------------------------------------------------
(***************************************************************************)
(* The steps that every wrapper and every native function is made of.  A   *)
(* wrapper or binding that throws the right class of error, for one.       *)
(***************************************************************************)
LEMMA ThrowKeepsInv ==
  ASSUME Inv, pc \in {"wrapper", "native"}, NEW e \in Errors, Throw(e),
         CASE e = "ValidationError" -> call.cipher \in AesGcm /\ ~WellFormed
           [] e = "CryptoError" -> WellFormed /\ call.data = Short
           [] e = "AuthenticationError" ->
                WellFormed /\ call.op = "decrypt" /\ call.data # Short /\ ~Genuine
           [] e = "RangeError" -> ~KeyAndNonceOk
           [] e = "TypeError" -> KeyAndNonceOk /\ ~PayloadOk
           [] e = "NativeError" ->
                WellFormed /\ call.op = "decrypt" /\ ~Genuine
  PROVE  Inv'
<1>1. /\ sealed' = sealed /\ call' = call /\ pc' = "answered" /\ reply' = Thrown(e)
  BY DEF Throw, Answer
<1>2. Thrown(e) \in Reply /\ Thrown(e).kind = "error" /\ Thrown(e).error = e
  BY DEF Reply, Thrown
<1>3. TypeOK'
  BY <1>1, <1>2 DEF Inv, TypeOK
<1>4. Checked' /\ Held'
  BY <1>1 DEF Inv, Checked, Held
<1>5. ErrorsTellTheTruth'
  BY <1>1, <1>2 DEF ErrorsTellTheTruth, WellFormed, KeyAndNonceOk, PayloadOk, Genuine,
                    requestedBox
<1> QED
  BY <1>3, <1>4, <1>5 DEF Inv

(***************************************************************************)
(* Only a well-formed call is handed on.                                   *)
(***************************************************************************)
LEMMA ToNativeKeepsInv ==
  ASSUME Inv, pc = "wrapper", WellFormed, ToNative
  PROVE  Inv'
<1>1. /\ sealed' = sealed /\ call' = call /\ pc' = "native" /\ reply' = reply
      /\ reply = NoReply
  BY DEF ToNative, Inv, TypeOK
<1>2. TypeOK'
  BY <1>1 DEF Inv, TypeOK
<1>3. Checked' /\ Held'
  BY <1>1 DEF Inv, Checked, Held, WellFormed, KeyAndNonceOk, PayloadOk
<1>4. ErrorsTellTheTruth'
  BY <1>1 DEF ErrorsTellTheTruth, NoReply
<1> QED
  BY <1>2, <1>3, <1>4 DEF Inv

(***************************************************************************)
(* Encryption answers with a ciphertext of the requested box.              *)
(***************************************************************************)
LEMMA EncryptingKeepsInv ==
  ASSUME Inv, pc = "native", call.op = "encrypt", sealWith(NoncesOf(call.cipher))
  PROVE  /\ Inv'
         /\ sealed' = sealed \cup {requestedBox(call.data)}
         /\ reply' = Ciphertext(requestedBox(call.data))
         /\ pc' = "answered"
<1>0. WellFormed /\ call \in Call
  BY DEF Inv, Checked, TypeOK
<1>1. /\ sealed' = sealed \cup {requestedBox(call.data)}
      /\ reply' = Ciphertext(requestedBox(call.data))
      /\ pc' = "answered" /\ call' = call
  BY <1>0, NativeDoesWhatWasAsked DEF sealWith, sizesOk, WellFormed, KeyAndNonceOk, Answer
<1>2. requestedBox(call.data) \in Box
  BY <1>0, RequestedBoxes
<1>3. Ciphertext(requestedBox(call.data)) \in Reply
      /\ Ciphertext(requestedBox(call.data)).kind = "ciphertext"
  BY <1>2 DEF Reply, Ciphertext
<1>4. TypeOK'
  BY <1>0, <1>1, <1>2, <1>3 DEF Inv, TypeOK
<1>5. Checked' /\ Held' /\ ErrorsTellTheTruth'
  BY <1>1, <1>3 DEF Checked, Held, ErrorsTellTheTruth
<1> QED
  BY <1>1, <1>4, <1>5 DEF Inv

(***************************************************************************)
(* Decryption answers genuine ciphertexts with their message and throws on *)
(* all others.                                                             *)
(***************************************************************************)
LEMMA DecryptingKeepsInv ==
  ASSUME Inv, pc = "native", call.op = "decrypt",
         NEW e \in {"AuthenticationError", "NativeError"},
         e = "AuthenticationError" => call.data # Short,
         openWith(NoncesOf(call.cipher), e)
  PROVE  /\ Inv'
         /\ sealed' = sealed /\ pc' = "answered"
         /\ reply' = IF Genuine THEN Plaintext(call.data.box.msg) ELSE Thrown(e)
<1>0. WellFormed /\ call \in Call /\ KeyAndNonceOk
  BY DEF Inv, Checked, TypeOK, WellFormed
<1>1. CASE Genuine
  <2>1. /\ sealed' = sealed /\ pc' = "answered" /\ call' = call
        /\ reply' = Plaintext(call.data.box.msg)
    BY <1>0, <1>1, NativeDoesWhatWasAsked DEF openWith, sizesOk, KeyAndNonceOk, Answer
  <2>2. call.data.box \in Box
    BY <1>1 DEF Genuine, WholeCiphertexts
  <2>3. Plaintext(call.data.box.msg) \in Reply /\ Plaintext(call.data.box.msg).kind = "plaintext"
    BY <2>2 DEF Box, Reply, Plaintext
  <2>4. TypeOK'
    BY <1>0, <2>1, <2>3 DEF Inv, TypeOK
  <2>5. Checked' /\ Held' /\ ErrorsTellTheTruth'
    BY <2>1, <2>3 DEF Inv, Checked, Held, ErrorsTellTheTruth
  <2> QED
    BY <1>1, <2>1, <2>4, <2>5 DEF Inv
<1>2. CASE ~Genuine
  <2>1. Throw(e) /\ e \in Errors
    BY <1>0, <1>2, NativeDoesWhatWasAsked DEF openWith, sizesOk, KeyAndNonceOk, Errors
  <2>2. Inv'
    BY <1>0, <1>2, <2>1, ThrowKeepsInv
  <2> QED
    BY <1>2, <2>1, <2>2 DEF Throw, Answer
<1> QED
  BY <1>1, <1>2

-----------------------------------------------------------------------------
(***************************************************************************)
(* The bookkeeping of a call that is issued, and of one that is over.      *)
(***************************************************************************)
LEMMA IssueKeepsInv ==
  ASSUME Inv, Issue
  PROVE  Inv'
<1>1. /\ sealed' = sealed /\ reply' = reply /\ pc' = "wrapper"
      /\ sealed \subseteq Box /\ reply = NoReply
  BY DEF Issue, Inv, TypeOK
<1>2. /\ call' \in Call
      /\ call'.op = "decrypt" /\ call'.data \in WholeCiphertexts => call'.data.box \in sealed
  <2>1. CASE call' \in CallWith("encrypt", Messages \cup {Malformed})
    BY <2>1 DEF Call, CallWith
  <2>2. CASE call' \in CallWith("decrypt", {Whole(b) : b \in sealed} \cup Others)
    <3>1. {Whole(b) : b \in sealed} \subseteq WholeCiphertexts
      BY <1>1 DEF Whole, WholeCiphertexts
    <3>2. call' \in CallWith("decrypt", WholeCiphertexts \cup Others)
      BY <2>2, <3>1 DEF CallWith
    <3>3. call'.data \in {Whole(b) : b \in sealed} \cup Others
      BY <2>2 DEF CallWith
    <3>4. call'.data \in WholeCiphertexts => call'.data.box \in sealed
      BY <3>3, OthersAssumption DEF Whole
    <3> QED
      BY <3>2, <3>4 DEF Call
  <2> QED
    BY <2>1, <2>2 DEF Issue
<1>3. TypeOK'
  BY <1>1, <1>2 DEF Inv, TypeOK
<1>4. Checked' /\ Held'
  BY <1>1, <1>2 DEF Checked, Held
<1>5. ErrorsTellTheTruth'
  BY <1>1 DEF ErrorsTellTheTruth, NoReply
<1> QED
  BY <1>3, <1>4, <1>5 DEF Inv

(***************************************************************************)
(* A call that is over leaves nothing behind.                              *)
(***************************************************************************)
LEMMA ContinueKeepsInv ==
  ASSUME Inv, Continue
  PROVE  Inv'
BY DEF Continue, Inv, TypeOK, Checked, Held, ErrorsTellTheTruth, NoReply

(***************************************************************************)
(* The wrappers: each throws the error the arguments call for, or hands a  *)
(* well-formed call on.                                                    *)
(***************************************************************************)
WrapperStep ==
  AesGcmEncrypt \/ AesGcmDecrypt \/ ChaChaEncrypt \/ ChaChaDecrypt

LEMMA WrappersKeepInv ==
  ASSUME Inv, WrapperStep
  PROVE  /\ Inv'
         /\ pc = "wrapper"
         /\ \/ ToNative
            \/ ~(WellFormed /\ (call.op = "encrypt" \/ Genuine)) /\ \E e \in Errors : Throw(e)
<1>0. Short \notin WholeCiphertexts
  BY OthersAssumption DEF Others
<1>1. CASE AesGcmEncrypt
  <2>1. pc = "wrapper" /\ call.cipher \in AesGcm
    BY <1>1 DEF AesGcmEncrypt, In
  <2>2. CASE WellFormed
    BY <1>1, <2>1, <2>2, ToNativeKeepsInv DEF AesGcmEncrypt, WellFormed
  <2>3. CASE ~WellFormed
    <3>1. Throw("ValidationError") /\ "ValidationError" \in Errors
      BY <1>1, <2>3 DEF AesGcmEncrypt, WellFormed, Errors
    <3>2. Inv'
      BY <2>1, <2>3, <3>1, ThrowKeepsInv
    <3> QED
      BY <2>1, <2>3, <3>1, <3>2
  <2> QED
    BY <2>2, <2>3
<1>2. CASE AesGcmDecrypt
  <2>1. pc = "wrapper" /\ call.cipher \in AesGcm /\ call.op = "decrypt"
    BY <1>2 DEF AesGcmDecrypt, In
  <2>2. CASE ~WellFormed
    <3>1. Throw("ValidationError") /\ "ValidationError" \in Errors
      BY <1>2, <2>2 DEF AesGcmDecrypt, WellFormed, Errors
    <3>2. Inv'
      BY <2>1, <2>2, <3>1, ThrowKeepsInv
    <3> QED
      BY <2>1, <2>2, <3>1, <3>2
  <2>3. CASE WellFormed /\ call.data = Short
    <3>1. Throw("CryptoError") /\ "CryptoError" \in Errors
      BY <1>2, <2>3 DEF AesGcmDecrypt, WellFormed, Errors
    <3>2. Inv'
      BY <2>1, <2>3, <3>1, ThrowKeepsInv
    <3>3. ~Genuine /\ call.op # "encrypt"
      BY <1>0, <2>1, <2>3 DEF Genuine
    <3> QED
      BY <2>1, <3>1, <3>2, <3>3
  <2>4. CASE WellFormed /\ call.data # Short
    BY <1>2, <2>1, <2>4, ToNativeKeepsInv DEF AesGcmDecrypt, WellFormed
  <2> QED
    BY <2>2, <2>3, <2>4
<1>3. CASE ChaChaEncrypt \/ ChaChaDecrypt
  <2>1. pc = "wrapper"
    BY <1>3 DEF ChaChaEncrypt, ChaChaDecrypt, In
  <2>2. CASE ~KeyAndNonceOk
    <3>1. Throw("RangeError") /\ "RangeError" \in Errors
      BY <1>3, <2>2 DEF ChaChaEncrypt, ChaChaDecrypt, Errors
    <3>2. Inv'
      BY <2>1, <2>2, <3>1, ThrowKeepsInv
    <3> QED
      BY <2>1, <2>2, <3>1, <3>2 DEF WellFormed
  <2>3. CASE KeyAndNonceOk /\ ~PayloadOk
    <3>1. Throw("TypeError") /\ "TypeError" \in Errors
      BY <1>3, <2>3 DEF ChaChaEncrypt, ChaChaDecrypt, Errors
    <3>2. Inv'
      BY <2>1, <2>3, <3>1, ThrowKeepsInv
    <3> QED
      BY <2>1, <2>3, <3>1, <3>2 DEF WellFormed
  <2>4. CASE WellFormed
    <3>1. ToNative
      BY <1>3, <2>4 DEF ChaChaEncrypt, ChaChaDecrypt, WellFormed
    <3> QED
      BY <2>1, <2>4, <3>1, ToNativeKeepsInv
  <2> QED
    BY <2>2, <2>3, <2>4 DEF WellFormed
<1> QED
  BY <1>1, <1>2, <1>3 DEF WrapperStep

(***************************************************************************)
(* The native functions.                                                   *)
(***************************************************************************)
NativeStep ==
  \/ Aes256GcmEncrypt \/ Aes256GcmDecrypt
  \/ Chacha20Poly1305Encrypt \/ Chacha20Poly1305Decrypt
  \/ Xchacha20Poly1305Encrypt \/ Xchacha20Poly1305Decrypt

(***************************************************************************)
(* Short ciphertexts stop at AES_GCM's wrapper; elsewhere the cipher       *)
(* refuses them.                                                           *)
(***************************************************************************)
ShortStopped ==
  (pc = "native" /\ call.op = "decrypt" /\ call.cipher \in AesGcm) => call.data # Short

(***************************************************************************)
(* The wrapper's tag-size check is what keeps them out.                    *)
(***************************************************************************)
LEMMA ShortStoppedKept ==
  ASSUME ShortStopped, [Next]_vars
  PROVE  ShortStopped'
<1>1. CASE ToNative /\ (AesGcmEncrypt \/ ChaChaEncrypt \/ ChaChaDecrypt)
  <2>1. AesGcm \cap ChaChas = {}
    BY DEF AesGcm, ChaChas
  <2> QED
    BY <1>1, <2>1 DEF AesGcmEncrypt, ChaChaEncrypt, ChaChaDecrypt, In, ToNative, ShortStopped
<1>2. CASE ToNative /\ AesGcmDecrypt
  BY <1>2 DEF AesGcmDecrypt, In, ToNative, ShortStopped, Throw, Answer
<1>3. CASE pc' # "native"
  BY <1>3 DEF ShortStopped
<1>4. CASE UNCHANGED vars
  BY <1>4 DEF vars, ShortStopped
<1> QED
  BY <1>1, <1>2, <1>3, <1>4
  DEF Next, Issue, Continue, AesGcmEncrypt, AesGcmDecrypt, ChaChaEncrypt, ChaChaDecrypt,
      Aes256GcmEncrypt, Aes256GcmDecrypt, Chacha20Poly1305Encrypt, Chacha20Poly1305Decrypt,
      Xchacha20Poly1305Encrypt, Xchacha20Poly1305Decrypt,
      chacha_encrypt, chacha_decrypt, xchacha_encrypt, xchacha_decrypt,
      sealWith, openWith, Throw, Answer

(***************************************************************************)
(* What a native function answers is what the request deserves.            *)
(***************************************************************************)
LEMMA NativeKeepsInv ==
  ASSUME Inv, ShortStopped, NativeStep
  PROVE  /\ Inv' /\ pc = "native" /\ pc' = "answered"
         /\ \/ /\ call.op = "encrypt"
               /\ sealed' = sealed \cup {requestedBox(call.data)}
               /\ reply' = Ciphertext(requestedBox(call.data))
            \/ /\ call.op = "decrypt" /\ Genuine
               /\ sealed' = sealed /\ reply' = Plaintext(call.data.box.msg)
            \/ /\ call.op = "decrypt" /\ ~Genuine
               /\ sealed' = sealed /\ \E e \in Errors : reply' = Thrown(e)
<1>1. CASE Aes256GcmEncrypt \/ Chacha20Poly1305Encrypt \/ Xchacha20Poly1305Encrypt
  <2>1. pc = "native" /\ call.op = "encrypt" /\ sealWith(NoncesOf(call.cipher))
    BY <1>1 DEF Aes256GcmEncrypt, Chacha20Poly1305Encrypt, Xchacha20Poly1305Encrypt, In,
                AesGcm, NoncesOf, chacha_encrypt, xchacha_encrypt
  <2> QED
    BY <2>1, EncryptingKeepsInv
<1>2. CASE Aes256GcmDecrypt
  <2>1. /\ pc = "native" /\ call.op = "decrypt" /\ call.cipher \in AesGcm
        /\ openWith(NoncesOf(call.cipher), "AuthenticationError")
    BY <1>2 DEF Aes256GcmDecrypt, In, AesGcm, NoncesOf
  <2>2. call.data # Short /\ "AuthenticationError" \in Errors
    BY <2>1 DEF ShortStopped, Errors
  <2> QED
    BY <2>1, <2>2, DecryptingKeepsInv
<1>3. CASE Chacha20Poly1305Decrypt \/ Xchacha20Poly1305Decrypt
  <2>1. pc = "native" /\ call.op = "decrypt" /\ openWith(NoncesOf(call.cipher), "NativeError")
        /\ "NativeError" \in Errors
    BY <1>3 DEF Chacha20Poly1305Decrypt, Xchacha20Poly1305Decrypt, In, Errors,
                NoncesOf, chacha_decrypt, xchacha_decrypt
  <2> QED
    BY <2>1, DecryptingKeepsInv
<1> QED
  BY <1>1, <1>2, <1>3 DEF NativeStep

-----------------------------------------------------------------------------
(***************************************************************************)
(* The invariant holds of every reachable state.                           *)
(***************************************************************************)
THEOREM InvHolds == Spec => [](Inv /\ ShortStopped)
<1>1. Init => Inv /\ ShortStopped
  BY DEF Init, Inv, TypeOK, Checked, Held, ErrorsTellTheTruth, NoReply, ShortStopped
<1>2. Inv /\ ShortStopped /\ [Next]_vars => (Inv /\ ShortStopped)'
  <2> SUFFICES ASSUME Inv, ShortStopped, [Next]_vars
               PROVE  Inv'
    BY ShortStoppedKept
  <2>1. CASE UNCHANGED vars
    BY <2>1 DEF vars, Inv, TypeOK, Checked, Held, ErrorsTellTheTruth, WellFormed,
                KeyAndNonceOk, PayloadOk, Genuine, requestedBox
  <2>2. CASE Issue
    BY <2>2, IssueKeepsInv
  <2>3. CASE Continue
    BY <2>3, ContinueKeepsInv
  <2>4. CASE WrapperStep
    BY <2>4, WrappersKeepInv
  <2>5. CASE NativeStep
    BY <2>5, NativeKeepsInv
  <2> QED
    BY <2>1, <2>2, <2>3, <2>4, <2>5 DEF Next, WrapperStep, NativeStep
<1> QED
  BY <1>1, <1>2, PTL DEF Spec

(***************************************************************************)
(* Type correctness of every call.                                         *)
(***************************************************************************)
THEOREM TypeCorrect == Spec => []TypeOK
<1>1. Inv => TypeOK
  BY DEF Inv
<1> QED
  BY <1>1, InvHolds, PTL

(***************************************************************************)
(* The error a caller sees says what was wrong, so a failed authentication *)
(* reported by AES_GCM is one.                                             *)
(***************************************************************************)
THEOREM ErrorsAreTruthful == Spec => []ErrorsTellTheTruth
<1>1. Inv => ErrorsTellTheTruth
  BY DEF Inv
<1> QED
  BY <1>1, InvHolds, PTL

-----------------------------------------------------------------------------
(***************************************************************************)
(* What the refinement mapping makes of the phases of a call.              *)
(***************************************************************************)
LEMMA Mapping ==
  /\ pc \in {"idle", "answered"} => request = Ideal!Idle
  /\ (pc \in {"wrapper", "native"} /\ WellFormed /\ call.op = "encrypt")
       => request = Ideal!Sealing(requestedBox(call.data))
  /\ (pc \in {"wrapper", "native"} /\ WellFormed /\ call.op # "encrypt" /\ Genuine)
       => request = Ideal!Opening(call.data.box)
  /\ (pc \in {"wrapper", "native"} /\ ~(WellFormed /\ (call.op = "encrypt" \/ Genuine)))
       => request = Ideal!Bogus
BY DEF request, Ideal!Idle, Ideal!Sealing, Ideal!Opening, Ideal!Bogus

(***************************************************************************)
(* What it makes of the replies.                                           *)
(***************************************************************************)
LEMMA Answers ==
  /\ reply = NoReply => answer = Ideal!NoReply
  /\ \A e : reply = Thrown(e) => answer = Ideal!Refused
  /\ \A b : reply = Ciphertext(b) => answer = Ideal!Ciphertext(b)
  /\ \A m : reply = Plaintext(m) => answer = Ideal!Plaintext(m)
BY DEF answer, NoReply, Thrown, Ciphertext, Plaintext, Ideal!NoReply, Ideal!Refused,
       Ideal!Ciphertext, Ideal!Plaintext

(***************************************************************************)
(* Issuing a call is asking the ideal specification.                       *)
(***************************************************************************)
LEMMA IssueAsks ==
  ASSUME Inv, Issue, Inv'
  PROVE  Ideal!Ask
<1>1. /\ pc = "idle" /\ pc' = "wrapper" /\ sealed' = sealed /\ reply' = reply
      /\ reply = NoReply
  BY DEF Issue, Inv, TypeOK
<1>2. request = Ideal!Idle /\ answer = Ideal!NoReply /\ answer' = answer
  BY <1>1, Mapping, Answers DEF answer
<1>3. CASE WellFormed' /\ call'.op = "encrypt"
  <2>1. request' = Ideal!Sealing(requestedBox(call.data)')
    BY <1>1, <1>3 DEF request, Ideal!Sealing
  <2>2. requestedBox(call.data)' \in Box
    <3>1. call' \in Call
      BY <1>1 DEF Inv, TypeOK
    <3>2. /\ call'.cipher \in Ciphers /\ call'.key \in Keys
          /\ call'.nonce \in NoncesOf(call'.cipher)
          /\ (call'.withAad => call'.aad \in Aads)
          /\ call'.data \in Messages
      BY <1>3, <3>1 DEF Call, CallWith, WellFormed, KeyAndNonceOk, PayloadOk
    <3> QED
      BY <3>2, AadAssumption DEF requestedBox, Box, NoncesOf
  <2> QED
    BY <1>1, <1>2, <2>1, <2>2 DEF Ideal!Ask
<1>4. CASE WellFormed' /\ call'.op # "encrypt" /\ Genuine'
  <2>1. request' = Ideal!Opening(call'.data.box)
    BY <1>1, <1>4 DEF request, Ideal!Opening
  <2>2. call'.data.box \in sealed
    <3>1. call'.op = "decrypt"
      BY <1>1, <1>4 DEF Inv, TypeOK, Call, CallWith
    <3> QED
      BY <1>1, <1>4, <3>1 DEF Inv, Held, Genuine
  <2> QED
    BY <1>1, <1>2, <2>1, <2>2 DEF Ideal!Ask
<1>5. CASE ~(WellFormed' /\ (call'.op = "encrypt" \/ Genuine'))
  <2>1. request' = Ideal!Bogus
    BY <1>1, <1>5 DEF request, Ideal!Bogus
  <2> QED
    BY <1>1, <1>2, <2>1 DEF Ideal!Ask
<1> QED
  BY <1>3, <1>4, <1>5

(***************************************************************************)
(* Every step of the library is a step of the ideal specification or none. *)
(***************************************************************************)
LEMMA StepSimulation ==
  ASSUME Inv, ShortStopped, Inv', [Next]_vars
  PROVE  [Ideal!Next]_(Ideal!vars)
<1>1. CASE UNCHANGED vars
  <2>1. UNCHANGED <<sealed, request, answer>>
    BY <1>1 DEF vars, request, answer, WellFormed, KeyAndNonceOk, PayloadOk, Genuine,
                requestedBox
  <2> QED
    BY <2>1 DEF Ideal!vars
<1>2. CASE Issue
  BY <1>2, IssueAsks DEF Ideal!Next
<1>3. CASE Continue
  <2>1. pc = "answered" /\ pc' = "idle" /\ reply' = NoReply /\ sealed' = sealed
    BY <1>3 DEF Continue
  <2>2. request = Ideal!Idle /\ request' = Ideal!Idle
    BY <2>1 DEF request, Ideal!Idle
  <2>3. answer' = Ideal!NoReply
    BY <2>1 DEF answer, NoReply, Ideal!NoReply
  <2>4. answer # Ideal!NoReply
    <3>1. reply \in Reply
      BY <2>1 DEF Inv, TypeOK
    <3>2. answer.kind \in {"refused", "ciphertext", "plaintext"}
      BY <3>1 DEF Reply, answer, Thrown, Ciphertext, Plaintext
    <3> QED
      BY <3>2 DEF Ideal!NoReply
  <2> QED
    BY <2>1, <2>2, <2>3, <2>4 DEF Ideal!Take, Ideal!Next
<1>4. ASSUME pc \in {"wrapper", "native"}, pc' = "answered", sealed' = sealed,
             ~(WellFormed /\ (call.op = "encrypt" \/ Genuine)),
             NEW e \in Errors, reply' = Thrown(e)
      PROVE  Ideal!Refuse
  <2>1. request = Ideal!Bogus
    BY <1>4, Mapping
  <2>2. request' = Ideal!Idle /\ answer' = Ideal!Refused
    BY <1>4 DEF request, answer, Thrown, Ideal!Idle, Ideal!Refused
  <2> QED
    BY <1>4, <2>1, <2>2 DEF Ideal!Refuse
<1>5. CASE WrapperStep
  <2>1. CASE ToNative
    <3>1. pc = "wrapper" /\ pc' = "native" /\ UNCHANGED <<sealed, call, reply>>
      BY <1>5, <2>1, WrappersKeepInv DEF ToNative
    <3>2. request' = request /\ answer' = answer
      BY <3>1 DEF request, answer, WellFormed, KeyAndNonceOk, PayloadOk, Genuine, requestedBox
    <3> QED
      BY <3>1, <3>2 DEF Ideal!vars
  <2>2. CASE ~(WellFormed /\ (call.op = "encrypt" \/ Genuine)) /\ \E e \in Errors : Throw(e)
    <3>1. PICK e \in Errors : Throw(e)
      BY <2>2
    <3>2. pc = "wrapper" /\ pc' = "answered" /\ sealed' = sealed /\ reply' = Thrown(e)
      BY <1>5, <3>1, WrappersKeepInv DEF Throw, Answer
    <3> QED
      BY <1>4, <2>2, <3>2 DEF Ideal!Next
  <2> QED
    BY <1>5, <2>1, <2>2, WrappersKeepInv
<1>6. CASE NativeStep
  <2>1. pc = "native" /\ pc' = "answered" /\ WellFormed /\ call \in Call
    BY <1>6, NativeKeepsInv DEF Inv, Checked, TypeOK
  <2>2. request' = Ideal!Idle
    BY <2>1 DEF request, Ideal!Idle
  <2>3. CASE /\ call.op = "encrypt"
             /\ sealed' = sealed \cup {requestedBox(call.data)}
             /\ reply' = Ciphertext(requestedBox(call.data))
    <3>1. requestedBox(call.data) \in Box
      BY <2>1, <2>3, RequestedBoxes
    <3>2. request = Ideal!Sealing(requestedBox(call.data))
      BY <2>1, <2>3, Mapping
    <3>3. answer' = Ideal!Ciphertext(requestedBox(call.data))
      BY <2>3 DEF answer, Ciphertext, Ideal!Ciphertext
    <3>4. Ideal!Seal(requestedBox(call.data))
      BY <2>2, <2>3, <3>2, <3>3 DEF Ideal!Seal
    <3> QED
      BY <3>1, <3>4 DEF Ideal!Next
  <2>4. CASE /\ call.op = "decrypt" /\ Genuine
             /\ sealed' = sealed /\ reply' = Plaintext(call.data.box.msg)
    <3>1. call.data.box \in Box
      BY <2>4 DEF Genuine, WholeCiphertexts
    <3>2. request = Ideal!Opening(call.data.box)
      BY <2>1, <2>4, Mapping
    <3>3. answer' = Ideal!Plaintext(call.data.box.msg)
      BY <2>4 DEF answer, Plaintext, Ideal!Plaintext
    <3>4. Ideal!Open(call.data.box)
      BY <2>2, <2>4, <3>2, <3>3 DEF Ideal!Open
    <3> QED
      BY <3>1, <3>4 DEF Ideal!Next
  <2>5. CASE /\ call.op = "decrypt" /\ ~Genuine
             /\ sealed' = sealed /\ \E e \in Errors : reply' = Thrown(e)
    BY <1>4, <2>1, <2>5 DEF Ideal!Next
  <2> QED
    BY <1>6, <2>3, <2>4, <2>5, NativeKeepsInv
<1> QED
  BY <1>1, <1>2, <1>3, <1>5, <1>6 DEF Next, WrapperStep, NativeStep

(***************************************************************************)
(* The AEAD namespaces implement ideal authenticated encryption.           *)
(***************************************************************************)
THEOREM AeadImplementsIdeal == Spec => ImplementsIdeal
<1>1. Init => Ideal!Init
  BY DEF Init, request, answer, NoReply, Ideal!Init, Ideal!Idle, Ideal!NoReply
<1>2. Inv /\ ShortStopped /\ Inv' /\ [Next]_vars => [Ideal!Next]_(Ideal!vars)
  BY StepSimulation
<1> QED
  BY <1>1, <1>2, InvHolds, PTL DEF Spec, ImplementsIdeal, Ideal!Spec
=============================================================================
