------------------------------ MODULE KdfProofs ------------------------------
(***************************************************************************)
(* Proofs about Kdf, for every width, every limit and every set of calls.  *)
(* The argument: what a wrapper has accepted are natural numbers           *)
(* (Accepted), the conversion to u32 is the identity exactly on those      *)
(* below the width (AsU32Range), and HkdfMax is below it, so HKDF loses    *)
(* nothing on the way; PBKDF2, Argon2id and the random generator are safe  *)
(* because the crate checks the converted numbers again.                   *)
(***************************************************************************)
EXTENDS Kdf, TLAPS

(***************************************************************************)
(* The conversion to u32 lands below the width and keeps what was there.   *)
(***************************************************************************)
LEMMA AsU32Range ==
  \A n \in Nat : /\ AsU32(n) \in Nat
                 /\ n < Modulus => AsU32(n) = n
<1> SUFFICES ASSUME NEW n \in Nat
             PROVE  /\ AsU32(n) \in Nat
                    /\ n < Modulus => AsU32(n) = n
  OBVIOUS
<1>1. Modulus \in Nat /\ Modulus > 0
  BY WidthAssumption
<1>2. n % Modulus \in Nat
  BY <1>1
<1>3. n < Modulus => n % Modulus = n
  BY <1>1
<1> QED
  BY <1>2, <1>3 DEF AsU32

-----------------------------------------------------------------------------
(***************************************************************************)
(* What the wrapper has let through, by the time the native layer runs.    *)
(***************************************************************************)
Accepted ==
  pc \in {"validated", "returned"} =>
    /\ call.op \notin OneSize => call.len \in Nat
    /\ call.op = "blake3DeriveKey" => call.salt >= 1
    /\ call.op = "hkdfExpand" => call.prk = PrkSize
    /\ call.op \in {"hkdfExpand", "hkdfDerive"} => call.len \in 1..HkdfMax
    /\ call.op \in {"pbkdf2", "argon2id"} => call.rounds \in Nat
    /\ call.op = "argon2id" => call.memory \in Nat /\ call.lanes \in Nat

(***************************************************************************)
(* What a returned key is made of: the converted numbers.                  *)
(***************************************************************************)
Computed ==
  pc = "returned" =>
    /\ call.op \notin OneSize => key.len = AsU32(call.len)
    /\ call.op \in {"pbkdf2", "argon2id"} =>
         key.rounds = AsU32(call.rounds) /\ key.salt = call.salt

Inv ==
  /\ TypeOK
  /\ Accepted
  /\ Computed
  /\ HkdfExact
  /\ NoWeakKey
  /\ RefusesOnlyArgon2Minima

(***************************************************************************)
(* The fields of a call have the types Call gives them.                    *)
(***************************************************************************)
LEMMA CallFields ==
  ASSUME call \in Calls
  PROVE  /\ call.op \in Operations /\ call.prk \in Nat /\ call.salt \in Nat
         /\ call.len \in Number /\ call.rounds \in Number
         /\ call.memory \in Number /\ call.lanes \in Number
BY CallsAssumption DEF Call

(***************************************************************************)
(* A wrapper either throws, on a call that is not documented to work, or   *)
(* accepts one that is fit for the native layer.                           *)
(***************************************************************************)
LEMMA WrapperKeepsInv ==
  ASSUME Inv, pc = "called", NEW e \in Errors, Validated(e),
         e # "NativeError",
         e # "none" => ~Documented(call),
         e = "none" =>
           /\ call.op \notin OneSize => call.len \in Nat
           /\ call.op = "blake3DeriveKey" => call.salt >= 1
           /\ call.op = "hkdfExpand" => call.prk = PrkSize
           /\ call.op \in {"hkdfExpand", "hkdfDerive"} => call.len \in 1..HkdfMax
           /\ call.op \in {"pbkdf2", "argon2id"} => call.rounds \in Nat
           /\ call.op = "argon2id" => call.memory \in Nat /\ call.lanes \in Nat
  PROVE  Inv'
<1>1. call' = call /\ key' = key /\ error' \in {e, "none"} /\ error' = e
  BY DEF Validated, Throw, Inv, TypeOK
<1>2. pc' = IF e = "none" THEN "validated" ELSE "threw"
  BY DEF Validated, Throw
<1>3. TypeOK'
  BY <1>1, <1>2 DEF Inv, TypeOK
<1>4. Accepted' /\ Computed' /\ NoWeakKey'
  BY <1>1, <1>2 DEF Accepted, Computed, NoWeakKey
<1>5. HkdfExact'
  BY <1>1, <1>2 DEF HkdfExact
<1>6. RefusesOnlyArgon2Minima'
  BY <1>1, <1>2 DEF RefusesOnlyArgon2Minima, Documented
<1> QED
  BY <1>3, <1>4, <1>5, <1>6 DEF Inv

(***************************************************************************)
(* A crate that refuses only what is not documented to work, or what is    *)
(* below the minima of the argon2 crate, keeps the invariant; the          *)
(* HKDF-SHA256 crate must refuse nothing it can be handed.                 *)
(***************************************************************************)
LEMMA RefusalKeepsInv ==
  ASSUME Inv, pc = "validated", Throw("NativeError"),
         Documented(call) =>
           call.op = "argon2id" /\ (call.len < MinTag \/ ~LanesFit(call)),
         call.op \notin {"hkdfExpand", "hkdfDerive"}
  PROVE  Inv'
<1>1. call' = call /\ key' = key /\ error' = "NativeError" /\ pc' = "threw"
  BY DEF Throw
<1>2. TypeOK'
  BY <1>1 DEF Inv, TypeOK, Errors
<1>3. Accepted' /\ Computed' /\ NoWeakKey' /\ HkdfExact'
  BY <1>1 DEF Accepted, Computed, NoWeakKey, HkdfExact
<1>4. RefusesOnlyArgon2Minima'
  BY <1>1 DEF RefusesOnlyArgon2Minima, Documented, LanesFit
<1> QED
  BY <1>2, <1>3, <1>4 DEF Inv

(***************************************************************************)
(* A crate that computes from the converted numbers keeps the invariant.   *)
(***************************************************************************)
LEMMA ProductKeepsInv ==
  ASSUME Inv, pc = "validated", NEW len \in Nat, NEW salt \in Nat, NEW rounds \in Nat,
         Produce(len, salt, rounds),
         call.op \notin OneSize => len = AsU32(call.len),
         call.op = "hkdfExtract" => len = PrkSize,
         call.op = "blake3DeriveKey" => salt >= 1,
         call.op \in {"pbkdf2", "argon2id"} =>
           rounds = AsU32(call.rounds) /\ salt = call.salt /\ salt >= 1,
         call.op \in {"pbkdf2", "argon2id", "nativeSecureRandom"} => len >= 1 /\ rounds >= 1,
         call.op = "nativeSecureRandom" => len <= MaxRandom,
         call.op \in {"hkdfExpand", "hkdfDerive"} => len = call.len
  PROVE  Inv'
<1>1. /\ call' = call /\ error' = error /\ pc' = "returned"
      /\ key' = [len |-> len, salt |-> salt, rounds |-> rounds]
  BY DEF Produce
<1>2. key'.len = len /\ key'.salt = salt /\ key'.rounds = rounds
  BY <1>1
<1>3. TypeOK'
  BY <1>1 DEF Inv, TypeOK
<1>4. Accepted'
  BY <1>1 DEF Inv, Accepted
<1>5. Computed'
  BY <1>1, <1>2 DEF Computed, AsU32
<1>6. NoWeakKey'
  BY <1>1, <1>2 DEF NoWeakKey
<1>7. HkdfExact'
  BY <1>1, <1>2 DEF Inv, HkdfExact, Accepted
<1>8. RefusesOnlyArgon2Minima'
  BY <1>1 DEF RefusesOnlyArgon2Minima
<1> QED
  BY <1>3, <1>4, <1>5, <1>6, <1>7, <1>8 DEF Inv

-----------------------------------------------------------------------------
(***************************************************************************)
(* The inductive invariant.                                                *)
(***************************************************************************)
LEMMA Inductive == Inv /\ [Next]_vars => Inv'
<1> SUFFICES ASSUME Inv, [Next]_vars
             PROVE  Inv'
  OBVIOUS
<1>0. /\ call.op \in Operations /\ call.prk \in Nat /\ call.salt \in Nat
      /\ call.len \in Number /\ call.rounds \in Number
      /\ call.memory \in Number /\ call.lanes \in Number
  BY CallFields DEF Inv, TypeOK
<1>a. ASSUME pc = "validated", call.op \notin OneSize
      PROVE  /\ call.len \in Nat /\ AsU32(call.len) \in Nat
             /\ call.len < Modulus => AsU32(call.len) = call.len
             /\ call.op = "hkdfExpand" => call.prk = PrkSize
             /\ call.op \in {"hkdfExpand", "hkdfDerive"} =>
                  AsU32(call.len) = call.len /\ call.len \in 1..HkdfMax
  <2>1. /\ call.len \in Nat /\ Modulus \in Nat /\ HkdfMax \in Nat /\ HkdfMax < Modulus
        /\ call.op \in {"hkdfExpand", "hkdfDerive"} => call.len \in 1..HkdfMax
        /\ call.op = "hkdfExpand" => call.prk = PrkSize
    BY <1>a, WidthAssumption DEF Inv, Accepted
  <2> QED
    BY <2>1, AsU32Range
<1>b. ASSUME pc = "validated", call.op \in {"pbkdf2", "argon2id"}
      PROVE  call.rounds \in Nat /\ AsU32(call.rounds) \in Nat
             /\ (call.rounds < Modulus => AsU32(call.rounds) = call.rounds)
  BY <1>b, AsU32Range DEF Inv, Accepted
<1>1. CASE HkdfExpand
  <2> DEFINE e == IF ~call.buffers \/ call.prk # PrkSize THEN "ValidationError"
                  ELSE assertHkdfLength(call.len)
  <2>1. Validated(e) /\ pc = "called" /\ call.op = "hkdfExpand"
    BY <1>1 DEF HkdfExpand, Enter
  <2>2. e \in Errors /\ e # "NativeError"
    BY DEF Errors, assertHkdfLength
  <2>3. e # "none" => ~Documented(call)
    BY <2>1, WidthAssumption DEF Documented, OneSize, assertHkdfLength, assertPositiveInteger
  <2>4. e = "none" => call.prk = PrkSize /\ call.len \in Nat /\ call.len \in 1..HkdfMax
    BY WidthAssumption DEF assertHkdfLength, assertPositiveInteger
  <2> HIDE DEF e
  <2> QED
    BY <2>1, <2>2, <2>3, <2>4, WrapperKeepsInv DEF OneSize
<1>2. CASE HkdfDerive
  <2> DEFINE e == IF ~call.buffers THEN "ValidationError" ELSE assertHkdfLength(call.len)
  <2>1. Validated(e) /\ pc = "called" /\ call.op = "hkdfDerive"
    BY <1>2 DEF HkdfDerive, Enter
  <2>2. e \in Errors /\ e # "NativeError"
    BY DEF Errors, assertHkdfLength
  <2>3. e # "none" => ~Documented(call)
    BY <2>1, WidthAssumption DEF Documented, OneSize, assertHkdfLength, assertPositiveInteger
  <2>4. e = "none" => call.len \in Nat /\ call.len \in 1..HkdfMax
    BY WidthAssumption DEF assertHkdfLength, assertPositiveInteger
  <2> HIDE DEF e
  <2> QED
    BY <2>1, <2>2, <2>3, <2>4, WrapperKeepsInv DEF OneSize
<1>3. CASE DeriveSha512
  <2> DEFINE e == IF ~call.buffers THEN "ValidationError"
                  ELSE IF ~assertPositiveInteger(call.len) THEN "ValidationError"
                  ELSE IF call.len = 0 THEN "LengthError" ELSE "none"
  <2>1. Validated(e) /\ pc = "called" /\ call.op = "deriveSha512"
    BY <1>3 DEF DeriveSha512, Enter
  <2>2. e \in Errors /\ e # "NativeError"
    BY DEF Errors
  <2>3. e # "none" => ~Documented(call)
    BY <2>1, WidthAssumption DEF Documented, OneSize, assertPositiveInteger
  <2>4. e = "none" => call.len \in Nat
    BY DEF assertPositiveInteger
  <2> HIDE DEF e
  <2> QED
    BY <2>1, <2>2, <2>3, <2>4, WrapperKeepsInv DEF OneSize
<1>4. CASE Pbkdf2
  <2> DEFINE e == IF /\ call.buffers
                     /\ assertPositiveInteger(call.rounds)
                     /\ assertPositiveInteger(call.len)
                    THEN "none" ELSE "ValidationError"
  <2>1. Validated(e) /\ pc = "called" /\ call.op = "pbkdf2"
    BY <1>4 DEF Pbkdf2, Enter
  <2>2. e \in Errors /\ e # "NativeError"
    BY DEF Errors
  <2>3. e # "none" => ~Documented(call)
    BY <2>1, WidthAssumption DEF Documented, OneSize, assertPositiveInteger
  <2>4. e = "none" => call.len \in Nat /\ call.rounds \in Nat
    BY DEF assertPositiveInteger
  <2> HIDE DEF e
  <2> QED
    BY <2>1, <2>2, <2>3, <2>4, WrapperKeepsInv DEF OneSize
<1>5. CASE Argon2id
  <2> DEFINE e == IF /\ call.buffers
                     /\ \A n \in {call.memory, call.rounds, call.lanes, call.len} :
                          assertPositiveInteger(n)
                    THEN "none" ELSE "ValidationError"
  <2>1. Validated(e) /\ pc = "called" /\ call.op = "argon2id"
    BY <1>5 DEF Argon2id, Enter
  <2>2. e \in Errors /\ e # "NativeError"
    BY DEF Errors
  <2>3. e # "none" => ~Documented(call)
    <3> SUFFICES ASSUME Documented(call)
                 PROVE  e = "none"
      OBVIOUS
    <3>1. /\ call.buffers /\ call.len \in Nat /\ call.rounds \in Nat
          /\ call.lanes \in Nat /\ call.memory \in Nat
      BY <2>1, WidthAssumption DEF Documented, OneSize
    <3> QED
      BY <3>1 DEF assertPositiveInteger
  <2>4. e = "none" => /\ call.len \in Nat /\ call.rounds \in Nat
                      /\ call.memory \in Nat /\ call.lanes \in Nat
    BY DEF assertPositiveInteger
  <2> HIDE DEF e
  <2> QED
    BY <2>1, <2>2, <2>3, <2>4, WrapperKeepsInv DEF OneSize
<1>6. CASE NativeSecureRandom
  <2> DEFINE e == IF call.len \notin Nat \/ call.len = 0 THEN "RangeError" ELSE "none"
  <2>1. Validated(e) /\ pc = "called" /\ call.op = "nativeSecureRandom"
    BY <1>6 DEF NativeSecureRandom, Enter
  <2>2. e \in Errors /\ e # "NativeError"
    BY DEF Errors
  <2>3. e # "none" => ~Documented(call)
    BY <2>1, WidthAssumption DEF Documented, OneSize
  <2>4. e = "none" => call.len \in Nat
    OBVIOUS
  <2> HIDE DEF e
  <2> QED
    BY <2>1, <2>2, <2>3, <2>4, WrapperKeepsInv DEF OneSize
<1>7. CASE NativeHkdfExpand
  <2>1. pc = "validated" /\ call.op = "hkdfExpand"
    BY <1>7 DEF NativeHkdfExpand, EnterNative
  <2>2. /\ AsU32(call.len) \in Nat /\ AsU32(call.len) = call.len
        /\ call.len \in 1..HkdfMax /\ call.prk = PrkSize
    BY <1>a, <2>1 DEF OneSize
  <2>3. Produce(AsU32(call.len), call.salt, 1)
    BY <1>7, <2>2, WidthAssumption DEF NativeHkdfExpand
  <2> QED
    BY <1>0, <2>1, <2>2, <2>3, ProductKeepsInv DEF OneSize
<1>8. CASE NativeHkdfDerive
  <2>1. pc = "validated" /\ call.op = "hkdfDerive"
    BY <1>8 DEF NativeHkdfDerive, EnterNative
  <2>2. /\ AsU32(call.len) \in Nat /\ AsU32(call.len) = call.len
        /\ call.len \in 1..HkdfMax
    BY <1>a, <2>1 DEF OneSize
  <2>3. Produce(AsU32(call.len), call.salt, 1)
    BY <1>8, <2>2, WidthAssumption DEF NativeHkdfDerive
  <2> QED
    BY <1>0, <2>1, <2>2, <2>3, ProductKeepsInv DEF OneSize
<1>9. CASE NativeHkdfSha512Derive
  <2>1. pc = "validated" /\ call.op = "deriveSha512"
    BY <1>9 DEF NativeHkdfSha512Derive, EnterNative
  <2>2. call.len \in Nat /\ AsU32(call.len) \in Nat
        /\ (call.len < Modulus => AsU32(call.len) = call.len)
    BY <1>a, <2>1 DEF OneSize
  <2>3. CASE AsU32(call.len) > Sha512Max
    <3>1. Throw("NativeError")
      BY <1>9, <2>3 DEF NativeHkdfSha512Derive
    <3>2. ~Documented(call)
      BY <2>1, <2>2, <2>3, WidthAssumption DEF Documented, OneSize
    <3> QED
      BY <2>1, <3>1, <3>2, RefusalKeepsInv DEF OneSize
  <2>4. CASE ~(AsU32(call.len) > Sha512Max)
    <3>1. Produce(AsU32(call.len), call.salt, 1)
      BY <1>9, <2>4 DEF NativeHkdfSha512Derive
    <3> QED
      BY <1>0, <2>1, <2>2, <3>1, ProductKeepsInv DEF OneSize
  <2> QED
    BY <2>3, <2>4
<1>10. CASE NativePbkdf2Derive
  <2>1. pc = "validated" /\ call.op = "pbkdf2"
    BY <1>10 DEF NativePbkdf2Derive, EnterNative
  <2>2. /\ call.len \in Nat /\ AsU32(call.len) \in Nat
        /\ call.len < Modulus => AsU32(call.len) = call.len
        /\ call.rounds \in Nat /\ AsU32(call.rounds) \in Nat
        /\ call.rounds < Modulus => AsU32(call.rounds) = call.rounds
    BY <1>a, <1>b, <2>1 DEF OneSize
  <2> DEFINE refused == AsU32(call.rounds) = 0 \/ AsU32(call.len) = 0 \/ call.salt = 0
  <2>3. CASE refused
    <3>1. Throw("NativeError")
      BY <1>10, <2>3 DEF NativePbkdf2Derive
    <3>2. ~Documented(call)
      BY <1>0, <2>1, <2>2, <2>3, WidthAssumption DEF Documented, OneSize
    <3> QED
      BY <2>1, <3>1, <3>2, RefusalKeepsInv DEF OneSize
  <2>4. CASE ~refused
    <3>1. Produce(AsU32(call.len), call.salt, AsU32(call.rounds))
      BY <1>10, <2>4 DEF NativePbkdf2Derive
    <3>2. AsU32(call.rounds) >= 1 /\ AsU32(call.len) >= 1 /\ call.salt >= 1
      BY <1>0, <2>2, <2>4
    <3> QED
      BY <1>0, <2>1, <2>2, <3>1, <3>2, ProductKeepsInv DEF OneSize
  <2> QED
    BY <2>3, <2>4
<1>11. CASE NativeArgon2idDerive
  <2>1. pc = "validated" /\ call.op = "argon2id"
    BY <1>11 DEF NativeArgon2idDerive, EnterNative
  <2>2. /\ call.len \in Nat /\ AsU32(call.len) \in Nat
        /\ call.len < Modulus => AsU32(call.len) = call.len
        /\ call.rounds \in Nat /\ AsU32(call.rounds) \in Nat
        /\ call.rounds < Modulus => AsU32(call.rounds) = call.rounds
    BY <1>a, <1>b, <2>1 DEF OneSize
  <2> DEFINE refused ==
        \/ call.salt = 0
        \/ AsU32(call.len) = 0
        \/ Argon2ParamsRefused(AsU32(call.memory), AsU32(call.rounds),
                               AsU32(call.lanes), AsU32(call.len))
        \/ call.salt < MinSalt
  <2>3. CASE refused
    <3>1. Throw("NativeError")
      BY <1>11, <2>3 DEF NativeArgon2idDerive
    <3>2. Documented(call) => call.len < MinTag \/ ~LanesFit(call)
      <4> SUFFICES ASSUME Documented(call), call.len >= MinTag, LanesFit(call)
                   PROVE  ~refused
        BY <2>2, <2>3, Argon2Assumption
      <4>1. /\ call.salt >= MinSalt /\ call.lanes \in 1..(Modulus - 1)
            /\ call.memory \in 1..(Modulus - 1)
            /\ call.len \in 1..(Modulus - 1) /\ call.rounds \in 1..(Modulus - 1)
        BY <2>1 DEF Documented, OneSize
      <4>2. AsU32(call.memory) = call.memory /\ AsU32(call.lanes) = call.lanes
        BY <4>1, AsU32Range, WidthAssumption
      <4>3. AsU32(call.len) = call.len /\ AsU32(call.rounds) = call.rounds
        BY <2>2, <4>1, WidthAssumption
      <4>4. call.lanes <= MaxLanes /\ ~(call.memory < LaneBlocks * call.lanes)
        <5>1. LaneBlocks * call.lanes \in Nat
          BY <4>1, Argon2Assumption
        <5> QED
          BY <4>1, <5>1 DEF LanesFit
      <4> QED
        BY <1>0, <4>1, <4>2, <4>3, <4>4, Argon2Assumption DEF Argon2ParamsRefused
    <3> QED
      BY <2>1, <3>1, <3>2, RefusalKeepsInv DEF OneSize
  <2>4. CASE ~refused
    <3>1. Produce(AsU32(call.len), call.salt, AsU32(call.rounds))
      BY <1>11, <2>4 DEF NativeArgon2idDerive
    <3>2. AsU32(call.rounds) >= 1 /\ AsU32(call.len) >= 1 /\ call.salt >= 1
      BY <1>0, <2>2, <2>4 DEF Argon2ParamsRefused
    <3> QED
      BY <1>0, <2>1, <2>2, <3>1, <3>2, ProductKeepsInv DEF OneSize
  <2> QED
    BY <2>3, <2>4
<1>12. CASE SecureRandom
  <2>1. pc = "validated" /\ call.op = "nativeSecureRandom"
    BY <1>12 DEF SecureRandom, EnterNative
  <2>2. call.len \in Nat /\ AsU32(call.len) \in Nat
        /\ (call.len < Modulus => AsU32(call.len) = call.len)
    BY <1>a, <2>1 DEF OneSize
  <2>3. CASE AsU32(call.len) = 0 \/ AsU32(call.len) > MaxRandom
    <3>1. Throw("NativeError")
      BY <1>12, <2>3 DEF SecureRandom
    <3>2. ~Documented(call)
      BY <2>1, <2>2, <2>3, WidthAssumption DEF Documented, OneSize
    <3> QED
      BY <2>1, <3>1, <3>2, RefusalKeepsInv DEF OneSize
  <2>4. CASE ~(AsU32(call.len) = 0 \/ AsU32(call.len) > MaxRandom)
    <3>1. Produce(AsU32(call.len), 0, 1)
      BY <1>12, <2>4 DEF SecureRandom
    <3>2. AsU32(call.len) >= 1 /\ AsU32(call.len) <= MaxRandom
      BY <2>2, <2>4, WidthAssumption
    <3> QED
      BY <2>1, <2>2, <3>1, <3>2, ProductKeepsInv DEF OneSize
  <2> QED
    BY <2>3, <2>4
<1>14. CASE HkdfExtract
  <2> DEFINE e == IF call.buffers THEN "none" ELSE "ValidationError"
  <2>1. Validated(e) /\ pc = "called" /\ call.op = "hkdfExtract"
    BY <1>14 DEF HkdfExtract, Enter
  <2>2. e \in Errors /\ e # "NativeError" /\ (e # "none" => ~Documented(call))
    BY <2>1 DEF Errors, Documented
  <2> HIDE DEF e
  <2> QED
    BY <2>1, <2>2, WrapperKeepsInv DEF OneSize
<1>15. CASE NativeHkdfExtract
  <2>1. pc = "validated" /\ call.op = "hkdfExtract" /\ Produce(PrkSize, call.salt, 1)
    BY <1>15 DEF NativeHkdfExtract, EnterNative
  <2> QED
    BY <1>0, <2>1, WidthAssumption, ProductKeepsInv DEF OneSize
<1>16. CASE Blake3DeriveKey
  <2> DEFINE e == IF call.salt = 0 THEN "TypeError"
                  ELSE IF ~call.buffers THEN "ValidationError" ELSE "none"
  <2>1. Validated(e) /\ pc = "called" /\ call.op = "blake3DeriveKey"
    BY <1>16 DEF Blake3DeriveKey, Enter
  <2>2. e \in Errors /\ e # "NativeError" /\ (e # "none" => ~Documented(call))
    BY <2>1 DEF Errors, Documented
  <2>3. e = "none" => call.salt >= 1
    BY <1>0
  <2> HIDE DEF e
  <2> QED
    BY <2>1, <2>2, <2>3, WrapperKeepsInv DEF OneSize
<1>17. CASE NativeBlake3DeriveKey
  <2>1. /\ pc = "validated" /\ call.op = "blake3DeriveKey"
        /\ Produce(Blake3Size, call.salt, 1)
    BY <1>17 DEF NativeBlake3DeriveKey, EnterNative
  <2>2. call.salt >= 1
    BY <2>1 DEF Inv, Accepted
  <2> QED
    BY <1>0, <2>1, <2>2, WidthAssumption, ProductKeepsInv DEF OneSize
<1>13. CASE Finished \/ UNCHANGED vars
  BY <1>13 DEF Finished, vars, Inv, TypeOK, Accepted, Computed, HkdfExact, NoWeakKey,
               RefusesOnlyArgon2Minima, Documented, AsU32
<1> QED
  BY <1>1, <1>2, <1>3, <1>4, <1>5, <1>6, <1>7, <1>8, <1>9, <1>10, <1>11, <1>12,
     <1>13, <1>14, <1>15, <1>16, <1>17 DEF Next

(***************************************************************************)
(* The invariant holds of every reachable state.                           *)
(***************************************************************************)
THEOREM InvHolds == Spec => []Inv
<1>1. Init => Inv
  BY DEF Init, Inv, TypeOK, Errors, NoKey, Accepted, Computed, HkdfExact, NoWeakKey,
         RefusesOnlyArgon2Minima
<1> QED
  BY <1>1, Inductive, PTL DEF Spec

(***************************************************************************)
(* Type correctness of every call.                                         *)
(***************************************************************************)
THEOREM TypeCorrect == Spec => []TypeOK
<1>1. Inv => TypeOK
  BY DEF Inv
<1> QED
  BY <1>1, InvHolds, PTL

(***************************************************************************)
(* HKDF-SHA256 is exact on every request: the maximum is far below the     *)
(* width, so nothing that passes assertHkdfLength can wrap or be refused.  *)
(***************************************************************************)
THEOREM HkdfAlwaysExact == Spec => []HkdfExact
<1>1. Inv => HkdfExact
  BY DEF Inv
<1> QED
  BY <1>1, InvHolds, PTL

(***************************************************************************)
(* The crate's own checks keep even wrapped numbers from yielding a key    *)
(* without salt, without work, or empty.                                   *)
(***************************************************************************)
THEOREM NeverAWeakKey == Spec => []NoWeakKey
<1>1. Inv => NoWeakKey
  BY DEF Inv
<1> QED
  BY <1>1, InvHolds, PTL

(***************************************************************************)
(* Below the width every request is honoured to the letter.                *)
(***************************************************************************)
THEOREM HonouredBelow == Spec => []HonouredBelowWidth
<1>1. Inv => HonouredBelowWidth
  <2> SUFFICES ASSUME Inv, pc = "returned",
                      {call.len, call.rounds, call.memory, call.lanes} \subseteq 0..(Modulus - 1)
               PROVE  Honoured
    BY DEF HonouredBelowWidth
  <2>1. /\ call.len \in Nat /\ call.len < Modulus
        /\ call.rounds \in Nat /\ call.rounds < Modulus
    BY WidthAssumption
  <2>2. AsU32(call.len) = call.len /\ AsU32(call.rounds) = call.rounds
    BY <2>1, AsU32Range
  <2> QED
    BY <2>2 DEF Inv, Computed, Honoured
<1> QED
  BY <1>1, InvHolds, PTL

(***************************************************************************)
(* A documented request is refused for the minima of the argon2 crate      *)
(* only, through all layers of all functions and with any limits.          *)
(***************************************************************************)
THEOREM DocumentedIsRefusedForMinimaOnly == Spec => []RefusesOnlyArgon2Minima
<1>1. Inv => RefusesOnlyArgon2Minima
  BY DEF Inv
<1> QED
  BY <1>1, InvHolds, PTL

=============================================================================
