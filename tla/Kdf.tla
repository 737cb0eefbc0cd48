--------------------------------- MODULE Kdf ---------------------------------
(***************************************************************************)
(* One call of a key-derivation or random-bytes function, through the      *)
(* layers that each check part of its numbers:                             *)
(*   called    the wrapper in src/core.ts validates JavaScript numbers;    *)
(*   validated the napi binding converts them to u32, and the Rust crate   *)
(*             checks what it was handed and computes;                     *)
(*   returned / threw.                                                     *)
(* The layers disagree about what a number is: the wrapper sees an integer *)
(* of any size, the crate sees it modulo 2^32.  Buffers are their lengths, *)
(* a key is its length and the work that went into it.                     *)
(***************************************************************************)
EXTENDS Integers

CONSTANTS
  Calls,        \* the calls to consider, a subset of Call below
  NaN,          \* stands for every JavaScript number that is no integer
  Modulus,      \* 2^32
  HkdfMax,      \* 255 * 32, HKDF_MAX_OUTPUT_SIZE and the crate's own limit
  Sha512Max,    \* 255 * 64
  MaxRandom,    \* MAX_RANDOM_BYTES of sc-utils
  PrkSize,      \* HKDF_PRK_SIZE
  Blake3Size,   \* BLAKE3.OUTPUT_SIZE
  MinSalt,      \* shortest salt of the argon2 crate, which src/core.ts documents
  MinTag,       \* shortest output of the argon2 crate, documented nowhere
  LaneBlocks,   \* memory blocks the argon2 crate wants per lane
  MaxLanes      \* most lanes of the argon2 crate

OneSize == {"hkdfExtract", "blake3DeriveKey"}
Operations == OneSize \cup {"hkdfExpand", "hkdfDerive", "deriveSha512", "pbkdf2",
                           "argon2id", "nativeSecureRandom"}
Number == Int \cup {NaN}

(***************************************************************************)
(* What a caller passes.  buffers says whether every Buffer parameter got  *)
(* a Buffer; an operation ignores the fields it has no parameter for, and  *)
(* those of OneSize have none for the length.  The salt of                 *)
(* blake3DeriveKey is its context, empty if it is no string.               *)
(***************************************************************************)
Call == [op : Operations, buffers : BOOLEAN, prk : Nat, salt : Nat,
         rounds : Number, memory : Number, lanes : Number, len : Number]

ASSUME CallsAssumption == Calls \subseteq Call
ASSUME NaNAssumption == NaN \notin Int
ASSUME WidthAssumption ==
  /\ Modulus \in Nat /\ HkdfMax \in Nat /\ Sha512Max \in Nat
  /\ MaxRandom \in Nat /\ PrkSize \in Nat /\ Blake3Size \in Nat
  /\ HkdfMax < Modulus /\ Sha512Max < Modulus /\ MaxRandom < Modulus
ASSUME Argon2Assumption ==
  /\ MinSalt \in Nat \ {0} /\ MinTag \in Nat \ {0}
  /\ LaneBlocks \in Nat \ {0} /\ MaxLanes \in Nat

VARIABLES
  call,    \* the call
  pc,      \* the layer it has reached
  error,   \* what it threw, "none" if it did not
  key      \* what it returned: length, salt and rounds that went into it

vars == <<call, pc, error, key>>

NoKey == [len |-> 0, salt |-> 0, rounds |-> 0]
Errors == {"none", "ValidationError", "LengthError", "RangeError", "TypeError",
           "NativeError"}

-----------------------------------------------------------------------------
(***************************************************************************)
(* The validators: assertPositiveInteger (it accepts zero) holds or throws *)
(* ValidationError; assertHkdfLength is the error it throws, or "none".    *)
(***************************************************************************)
assertPositiveInteger(n) == n \in Nat

\* Mutant: one byte more than the documented maximum passes.
assertHkdfLength_OffByOne(n) ==
  IF ~assertPositiveInteger(n) THEN "ValidationError"
  ELSE IF n > HkdfMax + 1 \/ n = 0 THEN "LengthError"
  ELSE "none"

assertHkdfLength(n) ==
  IF ~assertPositiveInteger(n) THEN "ValidationError"
  ELSE IF n > HkdfMax \/ n = 0 THEN "LengthError"
  ELSE "none"

\* Mutant: an i32 that loses its sign, the parameter type before u32.
AsU32_Signed(n) == IF n % Modulus >= Modulus \div 2 THEN Modulus - (n % Modulus)
                   ELSE n % Modulus

(* napi reads a u32 parameter with ToUint32: the integer modulo 2^32.      *)
AsU32(n) == n % Modulus

Init ==
  /\ call \in Calls
  /\ pc = "called"
  /\ error = "none"
  /\ key = NoKey

Throw(e) ==
  /\ pc' = "threw"
  /\ error' = e
  /\ UNCHANGED <<call, key>>

\* Mutant: the wrapper carries on after reporting the error.
Validated_CarriesOn(e) ==
  /\ pc' = "validated"
  /\ error' = e
  /\ UNCHANGED <<call, key>>

Validated(e) ==
  IF e = "none"
    THEN pc' = "validated" /\ UNCHANGED <<call, error, key>>
    ELSE Throw(e)

Enter(op) == pc = "called" /\ call.op = op
EnterNative(op) == pc = "validated" /\ call.op = op

Produce(len, salt, rounds) ==
  /\ pc' = "returned"
  /\ key' = [len |-> len, salt |-> salt, rounds |-> rounds]
  /\ UNCHANGED <<call, error>>

-----------------------------------------------------------------------------
(***************************************************************************)
(* HKDF.extract and BLAKE3.deriveKey take everything of the right type;    *)
(* BLAKE3 wants a context.                                                 *)
(***************************************************************************)
HkdfExtract ==
  /\ Enter("hkdfExtract")
  /\ Validated(IF call.buffers THEN "none" ELSE "ValidationError")

NativeHkdfExtract ==
  /\ EnterNative("hkdfExtract")
  /\ Produce(PrkSize, call.salt, 1)

Blake3DeriveKey ==
  /\ Enter("blake3DeriveKey")
  /\ Validated(IF call.salt = 0 THEN "TypeError"
               ELSE IF ~call.buffers THEN "ValidationError" ELSE "none")

NativeBlake3DeriveKey ==
  /\ EnterNative("blake3DeriveKey")
  /\ Produce(Blake3Size, call.salt, 1)

(***************************************************************************)
(* HKDF-SHA256.  expand also wants a PRK of the right size, which both     *)
(* layers check.  The crate refuses more than HkdfMax and accepts zero.    *)
(***************************************************************************)
HkdfExpand ==
  /\ Enter("hkdfExpand")
  /\ Validated(IF ~call.buffers \/ call.prk # PrkSize THEN "ValidationError"
               ELSE assertHkdfLength(call.len))

HkdfDerive ==
  /\ Enter("hkdfDerive")
  /\ Validated(IF ~call.buffers THEN "ValidationError"
               ELSE assertHkdfLength(call.len))

NativeHkdfExpand ==
  /\ EnterNative("hkdfExpand")
  /\ IF call.prk # PrkSize \/ AsU32(call.len) > HkdfMax
       THEN Throw("NativeError")
       ELSE Produce(AsU32(call.len), call.salt, 1)

NativeHkdfDerive ==
  /\ EnterNative("hkdfDerive")
  /\ IF AsU32(call.len) > HkdfMax
       THEN Throw("NativeError")
       ELSE Produce(AsU32(call.len), call.salt, 1)

(***************************************************************************)
(* HKDF-SHA512: the wrapper refuses zero and leaves the upper bound to the *)
(* crate.                                                                  *)
(***************************************************************************)
DeriveSha512 ==
  /\ Enter("deriveSha512")
  /\ Validated(IF ~call.buffers THEN "ValidationError"
               ELSE IF ~assertPositiveInteger(call.len) THEN "ValidationError"
               ELSE IF call.len = 0 THEN "LengthError" ELSE "none")

\* Mutant: the SHA-256 limit copied to SHA-512.
NativeHkdfSha512Derive_Sha256Limit ==
  /\ EnterNative("deriveSha512")
  /\ IF AsU32(call.len) > HkdfMax
       THEN Throw("NativeError")
       ELSE Produce(AsU32(call.len), call.salt, 1)

NativeHkdfSha512Derive ==
  /\ EnterNative("deriveSha512")
  /\ IF AsU32(call.len) > Sha512Max
       THEN Throw("NativeError")
       ELSE Produce(AsU32(call.len), call.salt, 1)

(***************************************************************************)
(* PBKDF2: the wrapper accepts zeros, the crate refuses zero iterations, a *)
(* zero length and an empty salt.                                          *)
(***************************************************************************)
Pbkdf2 ==
  /\ Enter("pbkdf2")
  /\ Validated(IF /\ call.buffers
                  /\ assertPositiveInteger(call.rounds)
                  /\ assertPositiveInteger(call.len)
                 THEN "none" ELSE "ValidationError")

\* Mutant: the crate trusts the wrapper and checks the salt only.
NativePbkdf2Derive_Trusting ==
  /\ EnterNative("pbkdf2")
  /\ IF call.salt = 0
       THEN Throw("NativeError")
       ELSE Produce(AsU32(call.len), call.salt, AsU32(call.rounds))

NativePbkdf2Derive ==
  /\ EnterNative("pbkdf2")
  /\ IF AsU32(call.rounds) = 0 \/ AsU32(call.len) = 0 \/ call.salt = 0
       THEN Throw("NativeError")
       ELSE Produce(AsU32(call.len), call.salt, AsU32(call.rounds))

(***************************************************************************)
(* Argon2id: as PBKDF2, with the limits of the argon2 crate on top         *)
(* (Params::new, hash_password_into).                                      *)
(***************************************************************************)
Argon2id ==
  /\ Enter("argon2id")
  /\ Validated(IF /\ call.buffers
                  /\ \A n \in {call.memory, call.rounds, call.lanes, call.len} :
                       assertPositiveInteger(n)
                 THEN "none" ELSE "ValidationError")

Argon2ParamsRefused(memory, rounds, lanes, len) ==
  \/ memory < LaneBlocks * lanes
  \/ rounds = 0
  \/ lanes = 0 \/ lanes > MaxLanes
  \/ len < MinTag

NativeArgon2idDerive ==
  /\ EnterNative("argon2id")
  /\ IF \/ call.salt = 0
        \/ AsU32(call.len) = 0
        \/ Argon2ParamsRefused(AsU32(call.memory), AsU32(call.rounds),
                               AsU32(call.lanes), AsU32(call.len))
        \/ call.salt < MinSalt
       THEN Throw("NativeError")
       ELSE Produce(AsU32(call.len), call.salt, AsU32(call.rounds))

(***************************************************************************)
(* nativeSecureRandom: both layers refuse zero, the crate a large size.    *)
(***************************************************************************)
NativeSecureRandom ==
  /\ Enter("nativeSecureRandom")
  /\ Validated(IF call.len \notin Nat \/ call.len = 0 THEN "RangeError" ELSE "none")

SecureRandom ==
  /\ EnterNative("nativeSecureRandom")
  /\ IF AsU32(call.len) = 0 \/ AsU32(call.len) > MaxRandom
       THEN Throw("NativeError")
       ELSE Produce(AsU32(call.len), 0, 1)

-----------------------------------------------------------------------------
Finished ==
  /\ pc \in {"returned", "threw"}
  /\ UNCHANGED vars

Next ==
  \/ HkdfExtract \/ NativeHkdfExtract
  \/ Blake3DeriveKey \/ NativeBlake3DeriveKey
  \/ HkdfExpand \/ NativeHkdfExpand
  \/ HkdfDerive \/ NativeHkdfDerive
  \/ DeriveSha512 \/ NativeHkdfSha512Derive
  \/ Pbkdf2 \/ NativePbkdf2Derive
  \/ Argon2id \/ NativeArgon2idDerive
  \/ NativeSecureRandom \/ SecureRandom
  \/ Finished

Spec == Init /\ [][Next]_vars

-----------------------------------------------------------------------------
(* A call is in one of four phases, holds an error only if it threw.       *)
TypeOK ==
  /\ call \in Calls
  /\ pc \in {"called", "validated", "returned", "threw"}
  /\ error \in Errors
  /\ key \in [len : Nat, salt : Nat, rounds : Nat]
  /\ (pc = "threw") = (error # "none")

(* HKDF-SHA256 returns exactly as many bytes as were asked for, 1 to       *)
(* HkdfMax, and the binding never fails: "native cannot fail" say the      *)
(* comments at its two calls in src/core.ts, which catch nothing.  What    *)
(* extract returns has the size expand takes.                              *)
HkdfExact ==
  /\ call.op \in {"hkdfExpand", "hkdfDerive"} =>
       /\ error # "NativeError"
       /\ pc = "returned" => key.len = call.len /\ key.len \in 1..HkdfMax
  /\ call.op = "hkdfExtract" /\ pc = "returned" => key.len = PrkSize

(* Every number below 2^32 survives the layers: the key has the length,    *)
(* the work factor and the salt the caller asked for.                      *)
Honoured ==
  /\ call.op \notin OneSize => key.len = call.len
  /\ call.op \in {"pbkdf2", "argon2id"} =>
       key.rounds = call.rounds /\ key.salt = call.salt

HonouredBelowWidth ==
  (pc = "returned" /\ {call.len, call.rounds, call.memory, call.lanes} \subseteq 0..(Modulus - 1))
    => Honoured

(* Whatever numbers arrive, also those that wrap, no password key comes    *)
(* out without salt, without work or empty, no empty random buffer, and no *)
(* subkey of an empty context.                                             *)
NoWeakKey ==
  pc = "returned" =>
    /\ call.op \in {"pbkdf2", "argon2id", "nativeSecureRandom"} =>
         key.len >= 1 /\ key.rounds >= 1
    /\ call.op \in {"pbkdf2", "argon2id", "blake3DeriveKey"} => key.salt >= 1
    /\ call.op = "nativeSecureRandom" => key.len <= MaxRandom

(* What the comments of src/core.ts allow, of random_bytes for the random  *)
(* generator.  Of argon2id they only want a salt of MinSalt bytes and      *)
(* numbers that are positive.  Numbers stay below 2^32 here: what becomes  *)
(* of others is the question of RequestHonoured.                           *)
Documented(c) ==
  /\ c.op # "nativeSecureRandom" => c.buffers
  /\ c.op \notin OneSize => c.len \in 1..(Modulus - 1)
  /\ c.op = "blake3DeriveKey" => c.salt >= 1
  /\ c.op = "hkdfExpand" => c.prk = PrkSize
  /\ c.op \in {"hkdfExpand", "hkdfDerive"} => c.len <= HkdfMax
  /\ c.op = "deriveSha512" => c.len <= Sha512Max
  /\ c.op = "nativeSecureRandom" => c.len <= MaxRandom
  /\ c.op \in {"pbkdf2", "argon2id"} => c.salt >= 1 /\ c.rounds \in 1..(Modulus - 1)
  /\ c.op = "argon2id" =>
       c.salt >= MinSalt /\ {c.lanes, c.memory} \subseteq 1..(Modulus - 1)

(* The argon2 crate wants LaneBlocks KiB for every lane, of which only the *)
(* comment of sc-argon2 tells.                                             *)
LanesFit(c) == c.lanes <= MaxLanes /\ c.memory >= LaneBlocks * c.lanes

(* No layer adds a limit of its own to what src/core.ts documents: a call  *)
(* within the documented ranges is refused for nothing but the minima of   *)
(* the argon2 crate, the memory of its lanes and the length of its output, *)
(* of which src/core.ts says only that it is ">=1".                        *)
RefusesOnlyArgon2Minima ==
  pc = "threw" /\ Documented(call) =>
    call.op = "argon2id" /\ (call.len < MinTag \/ ~LanesFit(call))

(* What the documentation of every one of these functions promises of a    *)
(* call that returns, whatever integer it was given.                       *)
RequestHonoured == pc = "returned" => Honoured

=============================================================================
