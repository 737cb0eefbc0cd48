# Formal models of signalis-core

signalis-core is a library of cryptographic primitives for Node.js: Rust crates,
a native binding (`crates/sc-node`) and TypeScript wrappers (`src/*.ts`) that
validate arguments and name errors. This directory holds TLA+ modules for the
parts of it that have something to get wrong between the primitives, the TLC
runs that check them and the proofs that hold for every value of their constants.
The primitives themselves (AES, the hash functions, curve25519-dalek) are external
and appear as ideal operators with the laws the code relies on.

Source paths below are relative to the repository root.

## 1. Inventory

| component | source | state it keeps | operations |
| --- | --- | --- | --- |
| byte helpers | `src/utils.ts` | none of its own; buffers of the caller, which may share memory | `secureRandom`, `concat`, `concatBytes`, `split`, `splitBytes`, `xor`, `zeroize`, `constantTimeEqual`, `bytesEqual`, hex |
| validators | `src/validators.ts` | none | `assertBuffer`, `assertBufferLength`, `assertBufferOfSize`, `assertHkdfLength`, `assertPositiveInteger` |
| errors | `src/errors.ts` | none | five classes, each with a code and fields |
| wrappers | `src/core.ts` | none | 14 namespaces, from `Curve25519` to `Utf8` |
| native binding | `crates/sc-node/src/lib.rs` | none | one napi function per operation; reads `u32` parameters modulo 2^32 |
| key derivation | `sc-hkdf`, `sc-blake3`, `sc-pbkdf2`, `sc-argon2`, `sc-utils` | none | HKDF-SHA256 extract, expand, derive; HKDF-SHA512; `BLAKE3.deriveKey`; PBKDF2; Argon2id; random bytes |
| authenticated encryption | `sc-aes`, `sc-chacha20poly1305` | none; the cipher objects hold a key for one call | AES-256-GCM, ChaCha20-Poly1305, XChaCha20-Poly1305, each with and without additional data |
| AES-CBC and MACs | `sc-aes`, `sc-hmac`, `sc-blake3` | none | `AES_CBC.encrypt/decrypt`; `HMAC.sha256`, `verifySha256` and their SHA-512 forms; `BLAKE3.keyedHash`, `keyedHashVerify` |
| XEd25519 | `sc-xed25519` | none | `sign`, `signWithRandom`, `verify`, `verifyBool` |
| Curve25519 | `sc-curve25519` | none | key pairs, `publicFromPrivate`, `diffieHellman` |
| Ed25519 | `sc-ed25519` | none | key pairs, `sign`, `verify`, `verifyBool` |
| hashes | `sc-sha256`, `sc-sha3`, `sc-blake3` | none | one-shot digests |
| encodings | `sc-encoding`, `src/utils.ts` | none | `Base64`, `Hex`, `Utf8`, each in Rust; `toBase64`, `fromBase64`, `toHex`, `fromHex` and their likes through Node's `Buffer` |
| release pipeline | `.github/workflows/release.yml`, `scripts/create-npm-dirs.js` | the npm registry and the GitHub releases | build matrix, publish sub-packages, publish main package, create the release |

**How they interact.** A call enters a wrapper in `src/core.ts`. The wrapper
checks its arguments and throws an error of its own, or calls the binding. The
binding converts (a JavaScript number becomes a `u32`), checks again and calls the
crate, which checks once more. On the way back some wrappers catch what the
binding threw and rename it, others do not. No call leaves state in the library:
what ties calls to each other is what the caller carries between them, that is
keys, ciphertexts, tags, signatures, and buffers that are views of one another.

**What is hard.** Nothing in the library is concurrent, and every call is
synchronous; there are no callbacks, locks or timers. What is concurrent is the
release workflow: runs of it, and the jobs of a run, share the npm registry, and
any step may fail. In the library the difficulties are:

- *layers that disagree*: which layer refuses zero, which an upper bound, and what
  a number is on either side of the binding;
- *protocol sequences*: what one call returns reaches another call altered, cut,
  swapped or in another context;
- *boundaries*: offsets into buffers where a bad index raises no error;
- *aliasing*: some helpers copy and some return views, and a wipe reaches one and
  not the other;
- *algebra with exceptional cases*: the sign an XEd25519 key has lost, points of
  small order, scalars that are not reduced;
- *two implementations of one format*: texts are decoded strictly in Rust and
  leniently by Node, and an alphabet, a padding or a trailing bit may tell them apart;
- *errors as an interface*: the class of an error is what a caller decides by.

The hazards, each with its line, are in `PROJECT.json`.

**What makes each component correct.** Byte helpers: segments tile the buffer,
and buffers share memory exactly where the documentation says. Key derivation:
a key has the length and the work factor asked for, or there is an error, and no
layer has limits that the documentation does not give. Authenticated encryption, and the encrypt-then-MAC
pairing: an ideal sealed box. XEd25519 and Ed25519: what was signed verifies and
cannot be reworked; under Ed25519 also a key made by somebody else binds its
owner. Key agreement: both sides derive the same secret, and which public keys
make it trivial. Encodings: decoding inverts encoding, a strict decoder takes one
text per value, and the decoders of Rust and of Node never read one text as two.
Release: the published main package depends on packages that exist, a GitHub
release shows what is on npm, and a release that was interrupted can be finished.

## 2. The plan

Order of work, the most important behaviour first. "Done" means modelled,
checked and, where a proof module is named, proved.

1. `Slicing`, `SlicingProofs`, and `Tiling`, which `Memory` shares: the loops of `split`, `splitBytes`, `deriveMultiple`. Done.
2. `Kdf`, `KdfProofs`: numbers through the layers of the key derivations. Done.
3. `AeadIdeal`, the abstract specification of a sealed box; `Aead`, `AeadProofs`:
   three ciphers implement it. Done.
4. `EncryptThenMac`, `EncryptThenMacProofs`: composes `AES_CBC`, `concat` and a
   MAC (HMAC-SHA256, HMAC-SHA512 or BLAKE3), implements the same `AeadIdeal`. Done.
5. `Curve`, the laws of the group; `CurveSchemes`, the primitives of Curve25519,
   Ed25519 and XEd25519; `CurveApi`, `CurveApiProofs`: the three namespaces, key
   agreement and public keys of small order included. Done.
6. `Memory`, `MemoryProofs`: which buffers share memory. Done.
7. `Codecs`, `Encoding`, `EncodingProofs`: encodings between two programs. Done.
8. `Release`, `ReleaseProofs`: the release workflow, its overlapping and repeated
   runs. Done; that a repeated run finishes a release is model-checked.
9. Left: dist-tags, and the relation between the name of a git tag and the version
   in `package.json`.

## 3. The modules and the code

### Slicing

One call of `split`, `splitBytes` (`src/utils.ts:220`, `:287`) or
`HKDF.deriveMultiple` (`src/core.ts:245`), one loop iteration per step.
`sizes`, `total`, `offset` and `segs` are the code's variables; `bufLen` is the
length of the buffer that is cut, `next` the index of the loop, `sums` a history
variable. `Subarray` is `TypedArray.prototype.subarray`, with its negative and
clamped indices. `SumSize`/`ReduceLength` are the first loops (the second checks
nothing), `CheckTotal`/`DeriveOkm` what stands between the loops, `PushSegment`
the second loop and `Return` the remainder.

JavaScript numbers that are not integers are left out: `split` refuses them like
negative ones, and `deriveMultiple` with a sum that is not an integer throws.

### Kdf

One call of `HKDF.extract`, `expand`, `derive`, `deriveSha512`, `BLAKE3.deriveKey`,
`PBKDF2.derive`, `Argon2id.derive` or `nativeSecureRandom` through two layers. `pc`
is the layer;
actions named as the wrapper (`HkdfExpand`) take `called` to `validated`, actions
named `Native...` take `validated` to `returned`, and either may throw. Every
check of every layer is there, in the order of the code; `AsU32` is the
conversion of the binding. A key is its length with the salt and the rounds that
went into it: the bytes belong to the crates. `NaN` stands for all JavaScript
numbers that are no integer. The number-theoretic limits are constants
(`Modulus` for 2^32, `HkdfMax` for 8160 and so on), so that TLC can run on small
ones with the same order. `Documented` is what the comments of `src/core.ts` allow
and nothing more; the minima of the argon2 crate (`MinTag`, `LaneBlocks` KiB for
each lane) are in `Argon2ParamsRefused`. There the code is stricter than its
documentation: `src/core.ts:375` has "desired key length in bytes (≥1)" for
`Argon2id.derive`, but lengths 1 to 3 are refused, and so are lanes without 8 KiB
each, which `src/core.ts` does not mention. `RefusesOnlyArgon2Minima` says so, and
that nothing else is refused. These exceptions are a disagreement of code and
documentation, not an intended part of the contract.

### AeadIdeal and Aead

`AeadIdeal` says what authenticated encryption promises and nothing of how: a
set of sealed boxes, requests to seal or to open one, and a refusal for all
other requests.

`Aead` serves one call after another of the three namespaces `AES_GCM`,
`ChaCha20Poly1305` and `XChaCha20Poly1305`. `pc` says how deep a call is
(`wrapper`, `native`, `answered`). `Issue` is the caller, who may present any
ciphertext ever returned, in any context, an altered one, one too short for a
tag, or arguments of the wrong kind. The wrappers are `AesGcm...` (with
`validators.ts` and a catch clause that renames) and `ChaCha...` (checks by hand,
JavaScript's own error classes, nothing caught). Below them `Aes256Gcm...`,
`Chacha20Poly1305...` and `Xchacha20Poly1305...` are the functions of the binding,
`chacha_encrypt` and its three siblings the methods of the two types in
`sc-chacha20poly1305`; each checks the sizes again (`sizesOk`) and runs the ideal
cipher (`sealWith`, `openWith`, `Opens`). That "all errors extend `SignalisError`"
(`README.md:851`) is not so for the ChaCha wrappers: `ErrorsTellTheTruth` has the
classes they throw, JavaScript's own and the plain error of the binding. The
refinement mapping (`request`, `answer`) reads off a call which box it asks for.

### EncryptThenMac

`AES_CBC` paired with `concat` and a MAC as `README.md` and the tests of the
repository do it with `HMAC.sha256`; `HMAC.sha512` and `BLAKE3.keyedHash`, which
`src/core.ts:809` offers as an alternative, are the other MACs a session may have.
Sessions may share either key, so a tag of one function reaches the verification
of another. One library call per step: `Encrypt`, then `HmacSha256`, `HmacSha512` or
`KeyedHash` when sealing; `VerifySha256`, `VerifySha512` or `KeyedHashVerify`, then
`Decrypt` when opening. BLAKE3 alone insists on a MAC key of 32 bytes (`keyOk`,
`OddKeys`), in both directions. Buffers are sequences of 16-byte blocks;
`cbcDecrypt` is what CBC does with blocks that were cut, moved or replaced, which
includes that the end of a chain decrypts well under the block before it.
`Deliveries` is everything that may arrive: any run of blocks of a sealed box,
one of them possibly replaced, cut at any place into iv and ciphertext, under any
session, with any tag that exists or one that does not. It implements `AeadIdeal`
with a mapping of its own.

### Curve, CurveSchemes and CurveApi

`Curve` declares a group with scalars, the coordinate `Y` and the sign of a
point, the predicate `IsSmallOrder`, and assumes their laws: of the base point's
multiples only zero has small order, a point that is its own negation has, and a
point that has not determines the scalar it is multiplied by. `compress` and
`decompress` are the encodings of curve25519-dalek.

`CurveSchemes` holds what the three crates compute. Curve25519: clamping, public
keys, Diffie-Hellman as the Montgomery ladder, of which it is assumed that it
commutes on clamped keys, agrees with the multiplication of the base point and
yields zero for small order and nothing else. Both signature schemes share
`signature` and `equation`, with the check that S is reduced (`canonical`).
Ed25519: a private key is its seed, nonces are hashed from it, and
`verify_strict` refuses an R or A of small order (`strict`). XEd25519: the scalar
whose point has sign 0 (`signingScalar`), a nonce hashed with random bytes, the
key rebuilt from u. Hashes are operators into the scalars that may collide.

`CurveApi` is the namespaces `Curve25519`, `Ed25519` and `XEd25519` of `src/core.ts`
and their bindings. `Wrapper` is the checks of every wrapper, after which one
`Native...` action per kind of operation answers. `verify` throws where
`verifyBool` answers `false`, also for malformed arguments. A verification may be
given any bytes under any key, a key agreement any u, so the signer or the peer
may be anybody. Met while modelling: `diffieHellman` documents a `CryptoError`
(`src/core.ts:127`) that nothing throws; XEd25519 is not strict where Ed25519
is, which `NoMauling` and `BindsMessage` state. Of the promises of `README.md:452`
encodings of a y that is not reduced modulo the field's prime are left out.

### Codecs and Encoding

`Codecs` is the codecs of `sc-encoding` and those of Node's `Buffer` as pure
operators. The unit is a *crumb* of two bits: a byte is four, a Base64 symbol three,
a hex digit two, and to encode is to cut one stream of crumbs into pieces of
another width (`Flat`, `Group`). A character is a symbol or digit in a form, `+/` or
`-_` for the symbols 62 and 63, upper or lower case for a to f; `Pad` and `Foreign`
are the characters that stand for none. The decoders in Rust are strict
(alphabet, length, padding, `trailingZeros`); Node's skip what they do not know
(`fromBase64`) or stop there (`nodeHex`), and `fromHex` checks by itself before it
asks Node. `FlatMap` goes through a text one element after the other, `kept`,
`unitBytes` being what each stands for.

A byte of UTF-8 is known by its class, of which there are twelve: ASCII, three
ranges of continuation bytes, the lead bytes that decoders treat alike, and the
bytes that occur nowhere. `Second` has the bounds a lead byte sets for the byte after
it, so overlong forms (`e0 80`, `f0 80`), encoded surrogates (`ed a0`) and code points
beyond the last (`f4 90`) can all be written down, and `utf8_is_valid` refuses them.
UTF-16 units are characters of one to three bytes and the two kinds of surrogates;
`codeUnits` splits a character of four bytes in two of them. A surrogate without
its partner becomes the replacement character in the binding (`Replaced`).

`Encoding` is two programs: one encodes with any function of a family (`Request`,
`Encode`), the text arrives as it is, with one character replaced, appended or
lost, or as no text at all (`Arrive`), and the other decodes with any function of
the family (`Decode`). Node's decoders are given `=` only at the end of a text
(`PadsLast`): what they do with text behind it depends on their version. What a
strict decoder throws is the binding's plain `Error` (`NotDecoded`), where
`README.md:738` and the comments of all four decoders have `RangeError`; the run
`encoding_errors` shows it.

### Memory

`heap` holds the allocations, `bufs` the buffers the program has been given: each
a stretch of an allocation. `given` is a history variable with what each buffer
held when it was returned and the memory it is documented to share. A byte is the
set of secret bytes it is the exclusive or of, so that `xor` is exact and a zero
byte is recognised. `concat`, `xor`, `split`, `deriveMultiple` and `zeroize` are
the functions of that name (`split` and `concat` stand for `splitBytes` and
`concatBytes` too, which do the same to memory), `NewSecret` is any function that
returns new random or derived bytes. Where the cuts lie is the subject of
`Slicing`: here any tiling may be returned. `Tiling` defines `Tiles`, what `Slicing`
proves of the segments the code returns, and `TilingsAreTiles` proves that the
tilings here are those sequences and no others (`MCMemory` has TLC compare them). Copies that V8 or the Rust
side may keep are not in this model; it is about the buffers JavaScript sees.

### Release

`.github/workflows/release.yml` with `scripts/create-npm-dirs.js`. A run has the
tag and the commit it was started for, the state of its matrix jobs (`builds`),
the `artifacts` they uploaded and the phase of its `publish` job; `todo` is what
the loop over `npm/*/` has left, `warned` what the log of the run reported. `tagAt`,
`registry` and `releases` are shared by all runs. `PushTag` and `RerunFailedJobs` are the
maintainer; the other actions are jobs and steps: `Build`, `StartPublish` and
`SkipPublish` (`needs: build`), `Prepare` (all steps before anything is published),
`PublishPlatform` (one turn of the loop, whose `|| echo` swallows the failure),
`PublishMain`, `CreateRelease`, and `JobFails`.

A GitHub release is made for a tag and no commit (the step passes no
`target_commitish`), so `releases` is a set of tags, and what a release shows is
`tagAt`, which `PushTag` may move at any time, also while runs for the tag go on and
after the release was made. A run keeps the commit it was started for.

`outage` is whether npm, GitHub or a runner may still fail a step: only then may
`npm publish` fail on a free version, or store a package although its caller sees
an error. A version that exists is refused at all times, and builds and the steps
of `Prepare` may fail for reasons of their own. `OutageEnds` is the last one.

The platforms appear three times in the repository (the matrix, `PLATFORMS`,
`optionalDependencies`) and once in the model, the ten entries of the three being
the same. "Re-run all jobs", the deletion of a tag, dist-tags, and the relation
between the name of a tag and the version in `package.json` are left out. A run whose
main package is published and whose release step fails can never make the release
when repeated, since the main package is then refused (`CONTRIBUTING.md` leaves
it to the maintainer to publish a release by hand); that hazard is listed without a
property.

## 4. The runs

| run | cfg | what it shows |
| --- | --- | --- |
| `slicing` | `MCSlicing.cfg` | For sizes that are not negative the views tile the buffer and have the sizes requested; a call throws on exactly the bad inputs. |
| `derive_multiple` | `MCDeriveMultiple.cfg` | *Violated:* "one per requested length" (`src/core.ts:243`) fails for lengths of which some are negative and the sum is not. |
| `kdf` | `MCKdf.cfg` | HKDF-SHA256 is exact for every number; below 2^32 every function honours its numbers; no number whatever gives a password key without salt, rounds or length; of what is documented only Argon2id refuses anything, namely keys of fewer than 4 bytes and lanes without 8 KiB each. |
| `kdf_wrap` | `MCKdfWrap.cfg` | *Violated:* numbers of 2^32 and more reach the crate modulo 2^32, so the native layer does not "enforce the upper bound" (`src/core.ts:300`). |
| `aead` | `MCAead.cfg` | The three ciphers with their wrappers implement `AeadIdeal`, and the class of an error tells what was wrong. |
| `encrypt_then_mac` | `MCEncryptThenMac.cfg` | With each of the three MACs, and with sessions that share keys, the pairing implements `AeadIdeal`; the padding error of `AES_CBC.decrypt` cannot be reached, so there is no padding oracle. |
| `curve` | `MCCurveApi.cfg` | Signatures verify whatever the sign of the key's point and whether or not the key was clamped; with the R of a signature that was made no other S is accepted, and S for exactly the messages with the same challenge; an accepted signature binds its message whoever made the key; both sides of a key agreement get one secret, which is zero exactly for peers of small order. |
| `encoding` | `MCEncoding.cfg` | Texts come back as they were encoded; a strict decoder takes one text per value, so no altered text passes for the original; Rust and Node agree on what both accept; `Hex.isValid` and `fromHex` answer as `Hex.decode` does. |
| `encoding_errors` | `MCEncodingErrors.cfg` | *Violated:* "Every decode operation throws `RangeError`" (`README.md:738`): what all four throw is a plain `Error`. |
| `memory` | `MCMemory.cfg` | A buffer changes only when it, or a buffer it is documented to share memory with, is wiped; when everything handed out has been wiped, no secret byte is left. |
| `release` | `MCRelease.cfg` | Nothing is published before its commit is built for every platform; a platform package that is missing, or of another commit than the main package, was reported in a log; a GitHub release shows the commit on npm, unless its tag was moved away from it after a run for it had published; one run per version succeeds; once the outage is over a run that publishes a free version leads to a success. |
| `release_ships` | `MCReleaseShips.cfg` | *Violated:* "ships prebuilt native binaries for 10 platforms" (`README.md:173`): the main package is published after a platform package failed. |

Each property of a passing run has a mutant, an operator next to the definition
it replaces: a plausible mistake in that place of the code which the run finds.

### Bounds, and why they are enough

- `slicing`: all arrays of at most three integers of -2..3, buffers of at most 5
  bytes, at most 5 bytes of OKM. Three sizes give a first, a middle and a last
  segment; the values include zero, negatives that another size outweighs, sums
  at, below and above every limit. The proofs cover all arrays.
- `kdf`: 2^32 becomes 32 and the other limits shrink in the same order. The
  numbers lie on both sides of every limit, and each also shifted by the width.
- `aead`: two keys, a nonce of each size, empty and non-empty additional data,
  one message, at most two sealed boxes: two contexts can differ in any one part,
  which is all that the ideal cipher compares.
- `encrypt_then_mac`: four sessions, one per MAC with the same two keys and a
  BLAKE3 one whose MAC key has the wrong size, two ivs, a message of one block and
  one of two, at most two sealed boxes: blocks of one box can meet the tag or the
  session of the other, a tag of one MAC the verification of another, and a chain
  has a first, a middle and a last block. Splices that mix the blocks of two boxes
  decrypt like a replaced block, and are covered by it.
- `curve`: the group Z_5 x Z_2, of which the second factor is the cofactor; three
  private keys with points of either sign, clamped and not, one with a zero nonce
  for a message; challenges that collide; every encoding as public key and as R,
  every S reduced and not, every u and one that is on no curve. One signature is
  made, every verification is tried against it; no property relates two signatures.
- `encoding`: a crumb is 0 or 1, which leaves 8 symbols, 4 digits and 16 bytes. Of
  the bytes three are used, in messages of at most three and some of four: every
  length modulo three, zeros and ones at the end, special symbols and letters.
  Strings of at most two units have characters at every bound that a lead byte
  sets for its second byte, and surrogates; those of three have every pattern of
  surrogates. Every byte of their text is replaced by every class of bytes, from
  which overlong forms and encoded surrogates arise.
- `memory`: at most four buffers (a secret, something made of it, pieces, and one
  more), secrets of at most two bytes, at most three pieces per call.
- `release`: two runs, of which each may be repeated once, on two commits of the
  same version: runs collide only within a version. One tag, which thereby moves,
  before, between and after the steps of the run it was pushed for first.
  Two platforms, so that one may be published and the other not. More runs only
  repeat these encounters, each being between two runs and one place of the
  registry.

None of the bounds is part of the proofs' results, except that the bounds
themselves are constants of the modules, of any value.

### Deadlock and fairness

TLC checks for deadlock in every run of the library's modules; a call that has
ended stutters in `Finished`, and in `Aead`, `EncryptThenMac`, `CurveApi`,
`Encoding` and `Memory` there is always a next call. Their specifications state no
fairness, and there is no liveness property: every function of the library is synchronous code
whose loops are bounded by the length of their argument, a caller owes nobody a
next call, and nothing waits for anything. That each call comes to its end is
visible as the absence of deadlock, each step of a call moving `pc` or `next`
forward.

The release workflow does wait, its publish job for the matrix. `Release` assumes
weak fairness of the jobs of each run: GitHub starts a job that can start and
ends, by its time limit at the latest, one that has started. Success is never
assumed, and nothing of the maintainer; that an outage ends is not assumed
either, it is a condition of `RepeatReleases`. That a run ends at all would follow
from GitHub's scheduler and this fairness alone, so it is no property here; what the
workflow itself contributes is that an interrupted release can be repeated:
packages that are already there stop neither the loop nor, if it is free, the main
package. When all runs have ended and none is repeated, the model stops as the
system does, so its runs do not check for deadlock.

## 5. What is proved

All proofs are checked by TLAPS from the named assumptions on the constants.

- **SlicingProofs** (sizes are sequences of integers, buffers any length).
  `TypeCorrect`; `SegmentsAlwaysTile` and, from it, `SizesAlwaysHonoured`;
  `ThrowsExactly`. The invariant `TilingInv` is the loop invariant the code leaves unsaid: after k
  sizes `offset` is the k-th prefix total the first loop computed, prefix totals
  never decrease, and the last was compared with the buffer. The properties alone
  speak of a finished call and are not inductive. For `ThrowsExactly` the
  invariant `ChecksInv` compares the code's `total` with the sum of the sizes seen
  so far, which `PrefixSums` defines by recursion and without the code's loop; that
  the recursion unfolds is `PrefixSumsUnfold`.
- **KdfProofs** (any limits below the width, any set of calls). `Inv` says of a
  validated call what its wrapper has established, and of a returned one what the
  crate has; from it follow `HkdfAlwaysExact`, `HonouredBelow`, `NeverAWeakKey`
  and `DocumentedIsRefusedForMinimaOnly`, the documented ranges being those of
  `src/core.ts` and the two exceptions those of the argon2 crate, by name.
- **AeadProofs** (any keys, nonces, additional data, messages). `Inv` says what a
  wrapper has checked once a call is in the native layer, and that a ciphertext
  in flight was sealed; it yields `TypeCorrect` and `ErrorsAreTruthful`.
  `AeadImplementsIdeal` is the refinement: the initial states correspond, and
  every step is a step of `AeadIdeal` or a stutter (`StepSimulation`).
- **EncryptThenMacProofs** (any sessions, keys, ivs and messages, MAC keys of any
  size). A tag that verifies was made over the same key and bytes, hence by a
  session that equals the receiver's, and bytes of the same first block and the
  same rest are the same iv and ciphertext. `Inv` carries to `Decrypt` that the
  call's tag is the tag of a sealed box; from it `PaddingErrorsAreUnreachable`, and
  `PairingImplementsIdeal` step by step.
- **CurveApiProofs** (any group with the laws of `Curve` and a ladder with those of
  `CurveSchemes`). The point an XEd25519 verifier rebuilds from u is the signer's
  scalar times the base point; with the R of a signature made, the equation holds
  for exactly one reduced S per challenge; an R that passes strict verification is
  not its own negation, hence has one encoding; a key that is not of small order
  fixes the challenge. `Inv` says of each signature how it was made and of each
  answer what was judged. Results: `SignaturesAlwaysVerify`,
  `SignaturesAreNotMauled`, `AcceptedBindsMessage`, `SecretsAlwaysAgree`,
  `ZeroSecretsAreSmallOrder`.
- **EncodingProofs** (any crumbs, messages and strings of any length). The lemmas
  `Positions`, `GroupFlat`, `FlatGroup` say that cutting and joining a stream of crumbs
  undo each other where the lengths divide; `BytesOfSymbols` and `SymbolsOfBytes`
  extend it to the zeros that fill the last symbol. From these, for texts of any
  length, `UrlSafeRoundTrip`, `Base64RoundTrip`, `HexRoundTrip`, the `...Canonical` and
  `NodeReadsHexAlike`. Node's Base64 and UTF-8 go through a text element by element
  (`FlatMap`). Of the elements Node keeps, an encoded text has all but its padding
  (`KeepsText`, `DropsPads`), hence `NodeReadsBase64Alike`. In UTF-8, well-formed
  strings and valid bytes are both spelt by a sequence of characters
  (`WellFormedSpelt`, `ValidBytesSpelt`), over all classes of bytes with the bounds
  of `Second`: a shortest one that is not would lose its last character (`LastCode`,
  `LastCharacter`) and be shorter still. Hence `Utf8RoundTrip` and `Utf8Canonical`.
  `Inv` says what each text and answer was computed from, and that every text is of
  its family (`EncodedText`, `AlteredText`); it turns these facts into `TypeCorrect`,
  `AlwaysRoundTrip`, `TextsAreCanonical`, `NodeAlwaysAgrees` and
  `ValidatorsAlwaysAgree`, for every function of the three families.
- **MemoryProofs** (any number of secrets, buffers and pieces). `Inv` adds to the
  property that memory is shared where it is documented to be (`Placed`) and that
  every allocated byte is in a buffer the program holds (`Reachable`), without
  which `NothingLeftBehind` could not be proved. That the pieces of an OKM cover it
  (`TilingCovers`) takes the least cut beyond a byte, from the well-foundedness of
  the natural numbers. Results: `AlwaysAsDocumented`, `NothingIsLeftBehind`, and
  `TilingsAreTiles`, which with `SegmentsAlwaysTile` ties the module to `Slicing`.
- **ReleaseProofs** (any number of runs, commits, versions, platforms, attempts).
  Two lemmas about every step, `RunsKeep` and `RegistryStep` (the registry changes
  only where it was empty, by a run that is publishing), carry `Inv`: artifacts
  match succeeded jobs (`Uploaded`), what the loop has passed is published or
  reported (`Attempted`), a run past the main package owns its version (`Owner`),
  and a tag that has a release has a run that published main from the commit it was
  started for (`Released`). Without these the properties are not inductive: they speak
  of the registry and of where tags point now, and the reason lies in the phase of a
  run or in where a tag was. Results: `AlwaysBuiltFirst`, `MismatchesAreWarned`, `ReleasesAnnounceMain`, `OneSuccess`.

Assumptions: the ciphers and MACs are ideal; the group satisfies the laws `Curve`
lists, the ladder those of `CurveSchemes`; u and y determine each other; limits
lie below 2^32. TLC evaluates all of them on the instances.

*Induction over data.* The induction theorems of the library take an operator as a
parameter, which the provers cannot instantiate. Where a proof needs induction
over a sequence or over a recursive function, it takes a least counterexample
instead: a non-empty set of naturals has a least element (`LeastNatural`, from the
well-foundedness of `<`). `AppendInduction` is that argument for sequences, and
`FlattenIs` rests on it: the recursive function in `FlattenSeq` is the one that joins
piece after piece.

**Only model-checked:** liveness, which like ENABLED is out of the prover's reach
(`RepeatReleases`), and the four violations, which are counterexamples. Every
invariant a run checks and both refinements are proved.

## 6. What is not modelled

- *What the primitives compute*: external crates, represented by their laws. The
  hashes have no other behaviour and are left out entirely.
- *Timing.* That a comparison is constant-time is no property of states.
- *Secrets in Rust.* What a drop wipes depends on the copies the compiler makes of
  arrays, which the source does not fix: a model of the copies the source names
  would show less than is left in memory.
- *dist-tags and version numbers* of the release, see the plan.
- *Messages of errors*, their codes and fields; *types*, fuzz targets, benchmarks.

## 7. Running

    tlc -config MCAead.cfg MCAead        # a run
    tlapm AeadProofs.tla                 # the proofs of a module
