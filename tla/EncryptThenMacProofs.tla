------------------------- MODULE EncryptThenMacProofs -------------------------
(***************************************************************************)
(* Proofs about EncryptThenMac for every set of sessions, ivs and messages *)
(* of any length.  The argument: a tag names its MAC, its key and all of   *)
(* its data, so a tag that verifies is the one a sealed box was given, and *)
(* the data that arrived is the chain of that box (Verifiable); cut after  *)
(* one block, which AES_CBC insists on, it is iv and ciphertext of the     *)
(* box, and a whole ciphertext decrypts to its message.                    *)
(***************************************************************************)
EXTENDS EncryptThenMac, SequenceTheorems, TLAPS

SealCalls == {[op |-> "seal", session |-> b.session, box |-> b] : b \in Box}

OpenCalls ==
  [op : {"open"}, session : Sessions, iv : Seq(Block), ct : Seq(Block),
   tag : {tagOf(b) : b \in sealed} \cup {NoTag}]

Arrived(b) == b.session = call.session /\ call.iv \o call.ct = chainOf(b)

Replies ==
  {Ciphertext(b) : b \in Box} \cup {Plaintext(m) : m \in Messages}
    \cup {Thrown("unverified"), Thrown("ValidationError")}

Serves == ~(Uses("blake3") /\ ~keyOk)

Calls ==
  /\ pc \in {"encrypt", "mac"} => call \in SealCalls
  /\ pc \in {"verify", "decrypt"} => call \in OpenCalls

Verifiable ==
  pc = "decrypt" => Serves /\ \E b \in sealed : Arrived(b) /\ call.tag = tagOf(b)

Inv == TypeOK /\ Calls /\ Verifiable /\ (pc = "answered" => reply \in Replies)

-----------------------------------------------------------------------------
(***************************************************************************)
(* A chain is one block longer than its message and ends in the block of   *)
(* that number.                                                            *)
(***************************************************************************)
LEMMA Chains ==
  ASSUME NEW b \in Box
  PROVE  /\ cbcEncrypt(b) \in Seq(Block) /\ <<b.iv>> \in Seq(Block)
         /\ Len(cbcEncrypt(b)) = Blocks[b.msg] /\ Blocks[b.msg] \in Nat \ {0}
         /\ chainOf(b) \in Seq(Block) /\ Len(chainOf(b)) = Blocks[b.msg] + 1
         /\ chainOf(b)[Blocks[b.msg] + 1]
              = [key |-> EncKey[b.session], iv |-> b.iv, msg |-> b.msg, n |-> Blocks[b.msg]]
<1>1. b.session \in Sessions /\ b.iv \in Ivs /\ b.msg \in Messages
  BY DEF Box
<1>2. Blocks[b.msg] \in Nat \ {0} /\ EncKey[b.session] \in EncKeys
  BY <1>1, BlocksAssumption, SessionsAssumption
<1>3. \A n \in 1..Blocks[b.msg] :
        [key |-> EncKey[b.session], iv |-> b.iv, msg |-> b.msg, n |-> n] \in Block
  BY <1>1, <1>2 DEF Block
<1>4. /\ cbcEncrypt(b) \in Seq(Block) /\ Len(cbcEncrypt(b)) = Blocks[b.msg]
      /\ \A n \in 1..Blocks[b.msg] : cbcEncrypt(b)[n]
           = [key |-> EncKey[b.session], iv |-> b.iv, msg |-> b.msg, n |-> n]
  BY <1>2, <1>3 DEF cbcEncrypt
<1>5. <<b.iv>> \in Seq(Block) /\ Len(<<b.iv>>) = 1
  BY <1>1 DEF Block
<1>6. /\ chainOf(b) \in Seq(Block) /\ Len(chainOf(b)) = 1 + Blocks[b.msg]
      /\ \A i \in 1..(1 + Blocks[b.msg]) :
           chainOf(b)[i] = IF i <= 1 THEN <<b.iv>>[i] ELSE cbcEncrypt(b)[i - 1]
  BY <1>4, <1>5, ConcatProperties DEF chainOf
<1> QED
  BY <1>2, <1>4, <1>5, <1>6

(***************************************************************************)
(* A tag names the function and the key it was made with, and its data.    *)
(***************************************************************************)
LEMMA Tags ==
  ASSUME NEW b \in Box
  PROVE  tagOf(b) = [mac |-> MacOf[b.session], key |-> MacKey[b.session], data |-> chainOf(b)]
<1>1. MacOf[b.session] \in Macs
  BY SessionsAssumption DEF Box
<1> QED
  BY <1>1 DEF tagOf, Macs, hmac_sha256, hmac_sha512, keyed_hash, macInput, chainOf

LEMMA TagsTellSessions ==
  ASSUME NEW b \in Box, NEW s \in Sessions,
         tagOf(b).mac = MacOf[s], tagOf(b).key = MacKey[s]
  PROVE  b.session = s
<1>1. b.session \in Sessions
  BY DEF Box
<1> QED
  BY <1>1, Tags, SessionsAssumption

(***************************************************************************)
(* A tag that verifies belongs to a sealed box, whose chain arrived.       *)
(***************************************************************************)
Valid ==
  call.tag = [mac |-> MacOf[call.session], key |-> MacKey[call.session],
              data |-> call.iv \o call.ct]

LEMMA ValidTags ==
  ASSUME sealed \subseteq Box, call \in OpenCalls, Valid
  PROVE  \E b \in sealed : Arrived(b) /\ call.tag = tagOf(b)
<1>1. /\ call.session \in Sessions /\ call.iv \in Seq(Block) /\ call.ct \in Seq(Block)
      /\ call.tag \in {tagOf(b) : b \in sealed} \cup {NoTag}
  BY DEF OpenCalls
<1>2. call.iv \o call.ct \in Seq(Block)
  BY <1>1, ConcatProperties
<1>3. MacOf[call.session] \in Macs /\ MacKey[call.session] \in MacKeys
  BY <1>1, SessionsAssumption
<1>4. call.tag \in [mac : Macs, key : MacKeys, data : Seq(Block)]
  BY <1>2, <1>3 DEF Valid
<1>5. PICK b \in sealed : call.tag = tagOf(b)
  BY <1>1, <1>4, NoTagAssumption
<1>6. b \in Box
  BY <1>5
<1>7. /\ MacOf[b.session] = MacOf[call.session] /\ MacKey[b.session] = MacKey[call.session]
      /\ chainOf(b) = call.iv \o call.ct
  <2>1. [mac |-> MacOf[b.session], key |-> MacKey[b.session], data |-> chainOf(b)]
          = [mac |-> MacOf[call.session], key |-> MacKey[call.session],
             data |-> call.iv \o call.ct]
    BY <1>5, <1>6, Tags DEF Valid
  <2> QED
    BY <2>1
<1>8. b.session = call.session
  BY <1>1, <1>5, <1>6, <1>7, Tags, TagsTellSessions
<1> QED
  BY <1>5, <1>7, <1>8 DEF Arrived

(***************************************************************************)
(* Cut after its first block, a chain is the iv and the ciphertext.        *)
(***************************************************************************)
LEMMA CutAfterIv ==
  ASSUME NEW b \in Box, NEW iv \in Seq(Block), NEW ct \in Seq(Block),
         iv \o ct = chainOf(b), ivOk(iv)
  PROVE  iv = <<b.iv>> /\ ct = cbcEncrypt(b)
<1> DEFINE c == cbcEncrypt(b)
<1>1. c \in Seq(Block) /\ <<b.iv>> \in Seq(Block) /\ Len(<<b.iv>>) = 1
  BY Chains
<1>2. /\ Len(iv \o ct) = 1 + Len(ct)
      /\ \A i \in 1..(1 + Len(ct)) : (iv \o ct)[i] = IF i <= 1 THEN iv[i] ELSE ct[i - 1]
  <2>1. Len(iv) = 1 /\ Len(ct) \in Nat
    BY DEF ivOk
  <2>2. /\ Len(iv \o ct) = Len(iv) + Len(ct)
        /\ \A i \in 1..(Len(iv) + Len(ct)) :
             (iv \o ct)[i] = IF i <= Len(iv) THEN iv[i] ELSE ct[i - Len(iv)]
    BY ConcatProperties
  <2> QED
    BY <2>1, <2>2
<1>3. /\ Len(<<b.iv>> \o c) = 1 + Len(c)
      /\ \A i \in 1..(1 + Len(c)) : (<<b.iv>> \o c)[i] = IF i <= 1 THEN <<b.iv>>[i] ELSE c[i - 1]
  BY <1>1, ConcatProperties
<1>4. iv \o ct = <<b.iv>> \o c
  BY DEF chainOf
<1>5. Len(ct) = Len(c) /\ Len(ct) \in Nat /\ Len(c) \in Nat
  BY <1>1, <1>2, <1>3, <1>4
<1>6. iv[1] = b.iv
  BY <1>2, <1>3, <1>4, <1>5
<1>7. \A j \in 1..Len(ct) : ct[j] = c[j]
  <2> SUFFICES ASSUME NEW j \in 1..Len(ct)
               PROVE  ct[j] = c[j]
    OBVIOUS
  <2>1. j + 1 \in 1..(1 + Len(ct)) /\ ~(j + 1 <= 1) /\ (j + 1) - 1 = j
    BY <1>5
  <2> QED
    BY <1>2, <1>3, <1>4, <1>5, <2>1
<1>8. iv = <<b.iv>>
  BY <1>6 DEF ivOk
<1>9. ct = c
  BY <1>1, <1>5, <1>7, SeqEqual
<1> QED
  BY <1>8, <1>9

LEMMA LastBlock ==
  ASSUME NEW b \in Box
  PROVE  /\ chainOf(b) \in Seq(Block) /\ Len(chainOf(b)) \in Nat /\ Len(chainOf(b)) >= 1
         /\ Len(chainOf(b)) = Blocks[b.msg] + 1 /\ chainOf(b)[Len(chainOf(b))].msg = b.msg
<1>1. /\ chainOf(b) \in Seq(Block) /\ Len(chainOf(b)) = Blocks[b.msg] + 1
      /\ Blocks[b.msg] \in Nat \ {0}
  BY Chains
<1>2. chainOf(b)[Blocks[b.msg] + 1]
        = [key |-> EncKey[b.session], iv |-> b.iv, msg |-> b.msg, n |-> Blocks[b.msg]]
  BY Chains
<1>3. chainOf(b)[Blocks[b.msg] + 1].msg = b.msg
  BY <1>2
<1> QED
  BY <1>1, <1>3

LEMMA Reversed ==
  ASSUME NEW S, NEW u \in Seq(S), Len(u) >= 1
  PROVE  /\ Len(Reverse(u)) = Len(u) /\ Reverse(u)[1] = u[Len(u)]
         /\ \A i \in 1..Len(u) : Reverse(u)[i] \in S
<1>1. Len(u) \in Nat /\ Reverse(u) = [i \in 1..Len(u) |-> u[(Len(u) - i) + 1]]
  BY DEF Reverse
<1>2. Len([i \in 1..Len(u) |-> u[(Len(u) - i) + 1]]) = Len(u)
  BY <1>1
<1>3. Reverse(u)[1] = u[Len(u)]
  BY <1>1
<1>4. \A i \in 1..Len(u) : Reverse(u)[i] = u[(Len(u) - i) + 1] /\ (Len(u) - i) + 1 \in 1..Len(u)
  BY <1>1
<1> QED
  BY <1>1, <1>2, <1>3, <1>4

(***************************************************************************)
(* The last block of a chain determines the message and its length.        *)
(***************************************************************************)
LEMMA SuffixesEndAlike ==
  ASSUME NEW b \in Box, NEW c \in Box, IsSuffix(chainOf(b), chainOf(c))
  PROVE  c.msg = b.msg /\ Len(chainOf(c)) = Len(chainOf(b))
<1> DEFINE s == chainOf(b)
           t == chainOf(c)
<1>1. /\ /\ s \in Seq(Block) /\ Len(s) \in Nat /\ Len(s) >= 1
         /\ Len(s) = Blocks[b.msg] + 1 /\ s[Len(s)].msg = b.msg
      /\ /\ t \in Seq(Block) /\ Len(t) \in Nat /\ Len(t) >= 1
         /\ Len(t) = Blocks[c.msg] + 1 /\ t[Len(t)].msg = c.msg
  BY LastBlock
<1>2. /\ Len(Reverse(s)) = Len(s) /\ Len(Reverse(t)) = Len(t)
      /\ Reverse(s)[1] = s[Len(s)] /\ Reverse(t)[1] = t[Len(t)]
      /\ \A i \in 1..Len(s) : Reverse(s)[i] \in Block
      /\ \A i \in 1..Len(t) : Reverse(t)[i] \in Block
  BY <1>1, Reversed
<1>3. /\ Len(s) <= Len(t)
      /\ SubSeq(Reverse(s), 1, Len(s)) = SubSeq(Reverse(t), 1, Len(s))
  BY <1>2 DEF IsSuffix, IsPrefix
<1>4. SubSeq(Reverse(s), 1, Len(s))[1] = Reverse(s)[1]
  BY <1>1, <1>2, SubSeqProperties
<1>5. SubSeq(Reverse(t), 1, Len(s))[1] = Reverse(t)[1]
  BY <1>1, <1>2, <1>3, SubSeqProperties
<1> QED
  BY <1>1, <1>2, <1>3, <1>4, <1>5

(***************************************************************************)
(* A whole ciphertext decrypts to its message.                             *)
(***************************************************************************)
LEMMA WholeDecrypts ==
  ASSUME NEW b \in Box
  PROVE  cbcDecrypt(b.session, <<b.iv>>, cbcEncrypt(b)) = {Plaintext(b.msg)}
<1> DEFINE chains == {c \in Box : EncKey[c.session] = EncKey[b.session]
                                    /\ IsSuffix(<<b.iv>> \o cbcEncrypt(b), chainOf(c))}
<1>1. cbcEncrypt(b) # << >>
  BY Chains
<1>2. b \in chains
  BY DEF IsSuffix, IsPrefix, chainOf
<1>3. ASSUME NEW c \in chains
      PROVE  Plaintext(TailOf(c.msg, Len(chainOf(c)) - Len(cbcEncrypt(b)))) = Plaintext(b.msg)
  <2>1. c.msg = b.msg /\ Len(chainOf(c)) = Len(chainOf(b))
    BY <1>3, SuffixesEndAlike DEF chainOf
  <2>2. Len(chainOf(c)) - Len(cbcEncrypt(b)) = 1
    <3>1. /\ Len(chainOf(b)) = Blocks[b.msg] + 1 /\ Len(cbcEncrypt(b)) = Blocks[b.msg]
          /\ Blocks[b.msg] \in Nat
      BY Chains
    <3> QED
      BY <2>1, <3>1
  <2> QED
    BY <2>1, <2>2 DEF TailOf
<1> QED
  BY <1>1, <1>2, <1>3 DEF cbcDecrypt

-----------------------------------------------------------------------------
(***************************************************************************)
(* What is delivered is made of blocks.                                    *)
(***************************************************************************)
LEMMA DeliveriesTyped ==
  ASSUME sealed \subseteq Box, NEW d \in Deliveries
  PROVE  d \in [op : {"open"}, session : Sessions, iv : Seq(Block), ct : Seq(Block),
                tag : {tagOf(b) : b \in sealed} \cup {NoTag}]
<1>1. ASSUME NEW b \in sealed, NEW q \in Pieces(b), NEW p \in Changed(q), NEW c \in Cuts(p)
      PROVE  c.iv \in Seq(Block) /\ c.ct \in Seq(Block)
  <2>1. chainOf(b) \in Seq(Block)
    BY Chains
  <2>2. q \in Seq(Block)
    <3>1. PICK i \in 1..Len(chainOf(b)), j \in 1..Len(chainOf(b)) : q = SubSeq(chainOf(b), i, j)
      BY DEF Pieces
    <3>2. \A k \in i..j : chainOf(b)[k] \in Block
      BY <2>1, <3>1
    <3> QED
      BY <3>1, <3>2, SubSeqProperties
  <2>3. p \in Seq(Block)
    BY <2>2 DEF Changed, Block
  <2>4. PICK cut \in 0..Len(p) :
          c = [iv |-> SubSeq(p, 1, cut), ct |-> SubSeq(p, cut + 1, Len(p))]
    BY DEF Cuts
  <2>5. SubSeq(p, 1, cut) \in Seq(Block)
    <3>1. \A i \in 1..cut : p[i] \in Block
      BY <2>3
    <3> QED
      BY <3>1, SubSeqProperties
  <2>6. SubSeq(p, cut + 1, Len(p)) \in Seq(Block)
    <3>1. Len(p) \in Int /\ cut + 1 \in Int /\ \A i \in (cut + 1)..Len(p) : p[i] \in Block
      BY <2>3
    <3> QED
      BY <3>1, SubSeqProperties
  <2> QED
    BY <2>4, <2>5, <2>6
<1>2. PICK s \in Sessions,
           c \in UNION {Cuts(p) : p \in UNION {Changed(q) : q \in UNION {Pieces(b) : b \in sealed}}},
           t \in {tagOf(b) : b \in sealed} \cup {NoTag} :
        d = [op |-> "open", session |-> s, iv |-> c.iv, ct |-> c.ct, tag |-> t]
  BY DEF Deliveries
<1>3. c.iv \in Seq(Block) /\ c.ct \in Seq(Block)
  BY <1>1, <1>2
<1> QED
  BY <1>2, <1>3

LEMMA StartingKeepsInv ==
  ASSUME Inv, StartSealing \/ StartOpening
  PROVE  Inv' /\ pc = "idle" /\ sealed' = sealed /\ reply' = reply
         /\ reply = NoReply
<1>1. sealed \subseteq Box /\ reply = NoReply /\ pc = "idle" /\ sealed' = sealed /\ reply' = reply
  BY DEF Inv, TypeOK, StartSealing, StartOpening
<1>2. CASE StartSealing
  <2>1. pc' = "encrypt" /\ \E b \in Box : call' = [op |-> "seal", session |-> b.session, box |-> b]
    BY <1>2 DEF StartSealing
  <2>2. call' \in SealCalls /\ call'.box \in Box
    BY <2>1 DEF SealCalls
  <2> QED
    BY <1>1, <2>1, <2>2 DEF Inv, TypeOK, Calls, Verifiable, SealCalls
<1>3. CASE StartOpening
  <2>1. pc' = "verify" /\ call' \in Deliveries
    BY <1>3 DEF StartOpening
  <2>2. call' \in OpenCalls'
    BY <1>1, <2>1, DeliveriesTyped DEF OpenCalls
  <2> QED
    BY <1>1, <2>1, <2>2 DEF Inv, TypeOK, Calls, Verifiable
<1> QED
  BY <1>2, <1>3

(***************************************************************************)
(* The steps inside a call.  Whatever step answers, answers one of these.  *)
(***************************************************************************)
Sealed ==
  /\ pc = "mac" /\ Serves /\ call \in SealCalls
  /\ sealed' = sealed \cup {call.box} /\ reply' = Ciphertext(call.box)

Opened ==
  /\ pc = "decrypt" /\ Serves /\ sealed' = sealed
  /\ \E b \in sealed : Genuine(b) /\ reply' = Plaintext(b.msg)

Refused ==
  /\ sealed' = sealed
  /\ reply' \in {Thrown("unverified"), Thrown("ValidationError")}
  /\ ~Serves \/ (call.op # "seal" /\ \A b \in Box : ~Genuine(b))

Answering ==
  /\ pc \in {"mac", "verify", "decrypt"} /\ pc' = "answered" /\ call' = call
  /\ Sealed \/ Opened \/ Refused

LEMMA MacAnswers ==
  ASSUME Inv, HmacSha256 \/ HmacSha512 \/ KeyedHash
  PROVE  Answering
<1>1. pc = "mac" /\ call \in SealCalls
  BY DEF Inv, Calls, HmacSha256, HmacSha512, KeyedHash
<1>2. CASE HmacSha256 \/ HmacSha512
  <2>1. Serves /\ Tagged
    BY <1>2 DEF HmacSha256, HmacSha512, Uses, Serves
  <2> QED
    BY <1>1, <2>1 DEF Tagged, Answering, Sealed
<1>3. CASE KeyedHash
  BY <1>1, <1>3 DEF KeyedHash, Tagged, Answer, Serves, Answering, Sealed, Refused
<1> QED
  BY <1>2, <1>3

(***************************************************************************)
(* Three verifications, one meaning.                                       *)
(***************************************************************************)
Verification == VerifySha256 \/ VerifySha512 \/ KeyedHashVerify

LEMMA VerificationDecides ==
  ASSUME Inv, Verification
  PROVE  /\ pc = "verify" /\ call \in OpenCalls /\ call' = call /\ sealed' = sealed
         /\ \/ Serves /\ Valid /\ pc' = "decrypt" /\ reply' = reply
            \/ /\ ~(Serves /\ Valid) /\ pc' = "answered"
               /\ reply' \in {Thrown("unverified"), Thrown("ValidationError")}
<1>1. pc = "verify" /\ call \in OpenCalls
  BY DEF Inv, Calls, Verification, VerifySha256, VerifySha512, KeyedHashVerify
<1>2. CASE VerifySha256
  <2>1. Serves /\ (verify(MacKey[call.session], received, call.tag) <=> Valid)
    BY <1>2 DEF VerifySha256, Uses, Serves, verify, hmac_sha256, received, macInput, Valid
  <2> QED
    BY <1>1, <1>2, <2>1 DEF VerifySha256, Verified, Answer
<1>3. CASE VerifySha512
  <2>1. Serves /\ (verify_sha512(MacKey[call.session], received, call.tag) <=> Valid)
    BY <1>3 DEF VerifySha512, Uses, Serves, verify_sha512, hmac_sha512, received, macInput, Valid
  <2> QED
    BY <1>1, <1>3, <2>1 DEF VerifySha512, Verified, Answer
<1>4. CASE KeyedHashVerify
  <2>1. /\ Serves <=> keyOk
        /\ keyed_hash_verify(MacKey[call.session], received, call.tag) <=> Valid
    BY <1>4 DEF KeyedHashVerify, Uses, Serves, keyed_hash_verify, keyed_hash, received, macInput,
                Valid
  <2> QED
    BY <1>1, <1>4, <2>1 DEF KeyedHashVerify, Verified, Answer
<1> QED
  BY <1>2, <1>3, <1>4 DEF Verification

(***************************************************************************)
(* A genuine ciphertext verifies.                                          *)
(***************************************************************************)
LEMMA GenuineIsValid ==
  ASSUME NEW b \in Box, Genuine(b)
  PROVE  Valid
BY Tags DEF Genuine, Valid, chainOf

LEMMA VerificationAnswers ==
  ASSUME Inv, Verification
  PROVE  Answering \/ (pc' = "decrypt" /\ pc = "verify" /\ Serves /\ call' = call /\ sealed' = sealed
                        /\ reply' = reply /\ call \in OpenCalls
                        /\ \E b \in sealed : Arrived(b) /\ call.tag = tagOf(b))
<1>1. CASE Serves /\ Valid /\ pc' = "decrypt" /\ reply' = reply
  BY <1>1, VerificationDecides, ValidTags DEF Inv, TypeOK
<1>2. CASE ~(Serves /\ Valid) /\ pc' = "answered"
  <2>1. call.op # "seal"
    BY VerificationDecides DEF OpenCalls
  <2>2. ~Serves \/ \A b \in Box : ~Genuine(b)
    BY <1>2, GenuineIsValid
  <2> QED
    BY <1>2, <2>1, <2>2, VerificationDecides DEF Answering, Refused
<1> QED
  BY <1>1, <1>2, VerificationDecides

LEMMA DecryptAnswers ==
  ASSUME Inv, Decrypt
  PROVE  Answering
<1>1. /\ pc = "decrypt" /\ call \in OpenCalls /\ sealed \subseteq Box /\ Serves
      /\ call.op # "seal"
  BY DEF Inv, TypeOK, Calls, Verifiable, Decrypt, OpenCalls
<1>2. PICK b \in sealed : Arrived(b) /\ call.tag = tagOf(b)
  BY <1>1 DEF Inv, Verifiable
<1>3. b \in Box /\ call.iv \in Seq(Block) /\ call.ct \in Seq(Block)
  BY <1>1, <1>2 DEF OpenCalls
<1>4. CASE ivOk(call.iv)
  <2>1. call.iv = <<b.iv>> /\ call.ct = cbcEncrypt(b) /\ b.session = call.session
    BY <1>2, <1>3, <1>4, CutAfterIv DEF Arrived
  <2>2. Genuine(b)
    BY <1>2, <2>1 DEF Genuine
  <2>3. cbcDecrypt(call.session, call.iv, call.ct) = {Plaintext(b.msg)}
    BY <1>3, <2>1, WholeDecrypts
  <2>4. Answer(Plaintext(b.msg))
    BY <1>4, <2>3 DEF Decrypt
  <2> QED
    BY <1>1, <1>2, <2>2, <2>4 DEF Answer, Answering, Opened
<1>5. CASE ~ivOk(call.iv)
  <2>1. \A c \in Box : ~Genuine(c)
    BY <1>5 DEF Genuine, ivOk
  <2>2. Answer(Thrown("ValidationError"))
    BY <1>5 DEF Decrypt
  <2> QED
    BY <1>1, <2>1, <2>2 DEF Answer, Answering, Refused
<1> QED
  BY <1>4, <1>5

LEMMA AnsweringKeepsInv ==
  ASSUME Inv, Answering
  PROVE  Inv'
<1>1. sealed \subseteq Box /\ pc' = "answered"
  BY DEF Inv, TypeOK, Answering
<1>2. CASE Sealed
  <2>1. call.box \in Box
    BY <1>2 DEF Sealed, SealCalls
  <2>2. reply' \in Replies /\ reply' # NoReply /\ sealed' \subseteq Box
    BY <1>1, <1>2, <2>1 DEF Sealed, Replies, Ciphertext, NoReply
  <2> QED
    BY <1>1, <2>2 DEF Inv, TypeOK, Calls, Verifiable
<1>3. CASE Opened
  <2>1. reply' \in Replies /\ reply' # NoReply /\ sealed' = sealed
    BY <1>1, <1>3 DEF Opened, Replies, Plaintext, NoReply, Box
  <2> QED
    BY <1>1, <2>1 DEF Inv, TypeOK, Calls, Verifiable
<1>4. CASE Refused
  <2>1. reply' \in Replies /\ reply' # NoReply /\ sealed' = sealed
    BY <1>4 DEF Refused, Replies, Thrown, NoReply
  <2> QED
    BY <1>1, <2>1 DEF Inv, TypeOK, Calls, Verifiable
<1> QED
  BY <1>2, <1>3, <1>4 DEF Answering

-----------------------------------------------------------------------------
(***************************************************************************)
(* The invariant holds of every reachable state.                           *)
(***************************************************************************)
LEMMA EncryptKeepsInv ==
  ASSUME Inv, Encrypt
  PROVE  Inv' /\ pc = "encrypt" /\ pc' = "mac" /\ UNCHANGED <<sealed, call, reply>>
BY DEF Inv, TypeOK, Calls, Verifiable, Encrypt, SealCalls

LEMMA ContinueKeepsInv ==
  ASSUME Inv, Continue
  PROVE  Inv'
BY DEF Inv, TypeOK, Calls, Verifiable, Continue

LEMMA VerifyingKeepsInv ==
  ASSUME Inv, pc' = "decrypt", pc = "verify", Serves, call' = call, sealed' = sealed,
         reply' = reply, call \in OpenCalls,
         \E b \in sealed : Arrived(b) /\ call.tag = tagOf(b)
  PROVE  Inv'
<1>1. PICK b \in sealed : Arrived(b) /\ call.tag = tagOf(b)
  OBVIOUS
<1>2. Serves' /\ Arrived(b)' /\ (call.tag = tagOf(b))'
  BY <1>1 DEF Serves, Uses, keyOk, Arrived
<1>3. Verifiable'
  BY <1>2 DEF Verifiable
<1>4. call' \in OpenCalls'
  BY DEF OpenCalls
<1>5. call.tag # NoTag
  <2>1. b \in Box
    BY DEF Inv, TypeOK
  <2>2. tagOf(b) \in [mac : Macs, key : MacKeys, data : Seq(Block)]
    <3>1. chainOf(b) \in Seq(Block) /\ MacOf[b.session] \in Macs /\ MacKey[b.session] \in MacKeys
      BY <2>1, Chains, SessionsAssumption DEF Box
    <3> QED
      BY <2>1, <3>1, Tags
  <2> QED
    BY <1>1, <2>2, NoTagAssumption
<1> QED
  BY <1>3, <1>4, <1>5 DEF Inv, TypeOK, Calls

THEOREM InvHolds == Spec => []Inv
<1>1. Init => Inv
  BY DEF Init, Inv, TypeOK, Calls, Verifiable
<1>2. Inv /\ [Next]_vars => Inv'
  <2> SUFFICES ASSUME Inv, [Next]_vars
               PROVE  Inv'
    OBVIOUS
  <2>1. CASE StartSealing \/ StartOpening
    BY <2>1, StartingKeepsInv
  <2>2. CASE Continue
    BY <2>2, ContinueKeepsInv
  <2>3. CASE Encrypt
    BY <2>3, EncryptKeepsInv
  <2>4. CASE HmacSha256 \/ HmacSha512 \/ KeyedHash
    BY <2>4, MacAnswers, AnsweringKeepsInv
  <2>5. CASE Verification
    BY <2>5, VerificationAnswers, VerifyingKeepsInv, AnsweringKeepsInv
  <2>6. CASE Decrypt
    BY <2>6, DecryptAnswers, AnsweringKeepsInv
  <2>7. CASE UNCHANGED vars
    BY <2>7 DEF vars, Inv, TypeOK, Calls, Verifiable, OpenCalls, Serves, Uses, keyOk, Arrived
  <2> QED
    BY <2>1, <2>2, <2>3, <2>4, <2>5, <2>6, <2>7 DEF Next, Verification
<1> QED
  BY <1>1, <1>2, PTL DEF Spec

(***************************************************************************)
(* Types, for every set of sessions.                                       *)
(***************************************************************************)
THEOREM TypeCorrect == Spec => []TypeOK
<1>1. Inv => TypeOK
  BY DEF Inv
<1> QED
  BY <1>1, InvHolds, PTL

(***************************************************************************)
(* What AES_CBC.decrypt says of a padding never reaches anybody.           *)
(***************************************************************************)
THEOREM PaddingErrorsAreUnreachable == Spec => []NoPaddingError
<1>1. Inv => NoPaddingError
  BY DEF Inv, TypeOK, NoPaddingError, Replies, Thrown, Ciphertext, Plaintext, NoReply
<1> QED
  BY <1>1, InvHolds, PTL

-----------------------------------------------------------------------------
(***************************************************************************)
(* The refinement.  Within a call the request is the same from its first   *)
(* step to its last.                                                       *)
(***************************************************************************)
LEMMA Mapping ==
  /\ pc \in {"idle", "answered"} => request = Ideal!Idle
  /\ (pc \notin {"idle", "answered"} /\ ~Serves) => request = Ideal!Bogus
  /\ (pc \notin {"idle", "answered"} /\ Serves /\ call.op = "seal")
       => request = Ideal!Sealing(call.box)
  /\ (pc \notin {"idle", "answered"} /\ Serves /\ call.op # "seal" /\ \A b \in Box : ~Genuine(b))
       => request = Ideal!Bogus
BY DEF request, Serves, Ideal!Idle, Ideal!Bogus, Ideal!Sealing

(***************************************************************************)
(* Two boxes never have one tag, so a tag that arrives is of a sealed box. *)
(***************************************************************************)
LEMMA TagsDiffer ==
  ASSUME NEW b \in Box, NEW c \in Box, tagOf(b) = tagOf(c)
  PROVE  b = c
<1>1. [mac |-> MacOf[b.session], key |-> MacKey[b.session], data |-> chainOf(b)]
        = [mac |-> MacOf[c.session], key |-> MacKey[c.session], data |-> chainOf(c)]
  BY Tags
<1>2. b.session = c.session /\ chainOf(b) = chainOf(c)
  BY <1>1, SessionsAssumption DEF Box
<1>3. b.msg = c.msg
  BY <1>2, LastBlock
<1>4. b.iv = c.iv
  <2>1. ASSUME NEW d \in Box
        PROVE  chainOf(d)[Len(chainOf(d))].iv = d.iv
    <3>1. chainOf(d)[Blocks[d.msg] + 1]
            = [key |-> EncKey[d.session], iv |-> d.iv, msg |-> d.msg, n |-> Blocks[d.msg]]
      BY Chains
    <3>2. chainOf(d)[Blocks[d.msg] + 1].iv = d.iv
      BY <3>1
    <3> QED
      BY <3>2, LastBlock
  <2> QED
    BY <1>2, <2>1
<1> QED
  BY <1>2, <1>3, <1>4 DEF Box

LEMMA TagsAreOfSealed ==
  ASSUME NEW S \in SUBSET Box, NEW t \in {tagOf(c) : c \in S} \cup {NoTag},
         NEW b \in Box, t = tagOf(b)
  PROVE  b \in S
<1>1. t \in [mac : Macs, key : MacKeys, data : Seq(Block)]
  <2>1. chainOf(b) \in Seq(Block) /\ MacOf[b.session] \in Macs /\ MacKey[b.session] \in MacKeys
    BY Chains, SessionsAssumption DEF Box
  <2> QED
    BY <2>1, Tags
<1>2. PICK c \in S : t = tagOf(c)
  BY <1>1, NoTagAssumption
<1> QED
  BY <1>2, TagsDiffer

LEMMA OpeningRequest ==
  ASSUME NEW b \in Box, Genuine(b), Serves, call.op # "seal",
         pc \notin {"idle", "answered"}
  PROVE  request = Ideal!Opening(b)
<1>1. \A c \in Box : Genuine(c) <=> c = b
  BY TagsDiffer DEF Genuine
<1>2. (CHOOSE c \in Box : Genuine(c)) = b
  BY <1>1
<1> QED
  BY <1>2 DEF request, Serves, Ideal!Opening

LEMMA StartingAsks ==
  ASSUME Inv, StartSealing \/ StartOpening
  PROVE  Ideal!Ask
<1>1. /\ Inv' /\ pc = "idle" /\ sealed' = sealed /\ reply' = reply /\ reply = NoReply
  BY StartingKeepsInv
<1>2. /\ request = Ideal!Idle /\ answer = Ideal!NoReply /\ answer' = answer
  BY <1>1, Mapping DEF answer, NoReply, Ideal!NoReply
<1>3. CASE StartSealing
  <2>1. pc' = "encrypt" /\ call' \in SealCalls'
    BY <1>1, <1>3 DEF StartSealing, Inv, Calls
  <2>2. call'.op = "seal" /\ call'.box \in Box
    BY <2>1 DEF SealCalls
  <2>3. request' = Ideal!Sealing(call'.box) \/ request' = Ideal!Bogus
    BY <2>1, <2>2 DEF request, Ideal!Sealing, Ideal!Bogus
  <2> QED
    BY <1>1, <1>2, <2>2, <2>3 DEF Ideal!Ask
<1>4. CASE StartOpening
  <2>1. pc' = "verify" /\ call' \in OpenCalls' /\ sealed' \subseteq Box
    BY <1>1, <1>4 DEF StartOpening, Inv, TypeOK, Calls
  <2>2. call'.op # "seal"
    BY <2>1 DEF OpenCalls
  <2>3. CASE Serves' /\ \E b \in Box : Genuine(b)'
    <3>1. PICK b \in Box : Genuine(b)'
      BY <2>3
    <3>2. \A c \in Box : Genuine(c)' <=> c = b
      BY <3>1, TagsDiffer DEF Genuine
    <3>3. (CHOOSE c \in Box : Genuine(c)') = b
      BY <3>2
    <3>4. request' = Ideal!Opening(b)
      BY <2>1, <2>2, <2>3, <3>3 DEF request, Serves, Ideal!Opening
    <3>5. b \in sealed
      BY <1>1, <2>1, <3>1, TagsAreOfSealed DEF Genuine, OpenCalls
    <3> QED
      BY <1>1, <1>2, <3>4, <3>5 DEF Ideal!Ask
  <2>4. CASE ~Serves' \/ \A b \in Box : ~Genuine(b)'
    <3>1. request' = Ideal!Bogus
      BY <2>1, <2>2, <2>4 DEF request, Serves, Ideal!Bogus
    <3> QED
      BY <1>1, <1>2, <3>1 DEF Ideal!Ask
  <2> QED
    BY <2>3, <2>4
<1> QED
  BY <1>3, <1>4

(***************************************************************************)
(* Every answer is the one the ideal specification gives.                  *)
(***************************************************************************)
LEMMA AnsweringSimulates ==
  ASSUME Inv, Answering
  PROVE  Ideal!Next
<1>1. /\ pc \notin {"idle", "answered"} /\ pc' = "answered" /\ sealed \subseteq Box
      /\ request' = Ideal!Idle
  BY DEF Inv, TypeOK, Answering, request, Ideal!Idle
<1>2. CASE Sealed
  <2>1. call.op = "seal" /\ call.box \in Box
    BY <1>2 DEF Sealed, SealCalls
  <2>2. request = Ideal!Sealing(call.box)
    BY <1>1, <1>2, <2>1, Mapping DEF Sealed
  <2>3. answer' = Ideal!Ciphertext(call.box)
    BY <1>2 DEF Sealed, answer, Ciphertext, Ideal!Ciphertext
  <2>4. Ideal!Seal(call.box)
    BY <1>1, <1>2, <2>2, <2>3 DEF Sealed, Ideal!Seal
  <2> QED
    BY <2>1, <2>4 DEF Ideal!Next
<1>3. CASE Opened
  <2>1. PICK b \in sealed : Genuine(b) /\ reply' = Plaintext(b.msg)
    BY <1>3 DEF Opened
  <2>2. b \in Box /\ call.op # "seal" /\ Serves /\ sealed' = sealed
    BY <1>1, <1>3 DEF Opened, Inv, Calls, OpenCalls
  <2>3. request = Ideal!Opening(b)
    BY <1>1, <2>1, <2>2, OpeningRequest
  <2>4. answer' = Ideal!Plaintext(b.msg)
    BY <2>1 DEF answer, Plaintext, Ideal!Plaintext
  <2>5. Ideal!Open(b)
    BY <1>1, <2>2, <2>3, <2>4 DEF Ideal!Open
  <2> QED
    BY <2>2, <2>5 DEF Ideal!Next
<1>4. CASE Refused
  <2>1. request = Ideal!Bogus /\ sealed' = sealed
    BY <1>1, <1>4, Mapping DEF Refused
  <2>2. answer' = Ideal!Refused
    BY <1>4 DEF Refused, answer, Thrown, Ideal!Refused
  <2> QED
    BY <1>1, <2>1, <2>2 DEF Ideal!Refuse, Ideal!Next
<1> QED
  BY <1>2, <1>3, <1>4 DEF Answering

(***************************************************************************)
(* A step inside a call leaves the ideal specification as it is.           *)
(***************************************************************************)
LEMMA InnerStutters ==
  ASSUME UNCHANGED <<sealed, call, reply>>,
         pc \notin {"idle", "answered"}, pc' \notin {"idle", "answered"}
  PROVE  UNCHANGED (Ideal!vars)
BY DEF request, answer, Genuine, Uses, keyOk, Ideal!vars

LEMMA ContinueTakes ==
  ASSUME Inv, Continue
  PROVE  Ideal!Take
<1>1. /\ pc = "answered" /\ pc' = "idle" /\ reply' = NoReply /\ sealed' = sealed
      /\ reply \in Replies
  BY DEF Inv, Continue
<1>2. request = Ideal!Idle /\ request' = Ideal!Idle
  BY <1>1 DEF request, Ideal!Idle
<1>3. answer # Ideal!NoReply /\ answer' = Ideal!NoReply
  BY <1>1 DEF answer, Replies, Ciphertext, Plaintext, Thrown, NoReply, Ideal!NoReply
<1> QED
  BY <1>1, <1>2, <1>3 DEF Ideal!Take

LEMMA StepSimulation ==
  ASSUME Inv, [Next]_vars
  PROVE  [Ideal!Next]_(Ideal!vars)
<1>1. CASE StartSealing \/ StartOpening
  BY <1>1, StartingAsks DEF Ideal!Next
<1>2. CASE Continue
  BY <1>2, ContinueTakes DEF Ideal!Next
<1>3. CASE Encrypt
  BY <1>3, EncryptKeepsInv, InnerStutters
<1>4. CASE HmacSha256 \/ HmacSha512 \/ KeyedHash
  BY <1>4, MacAnswers, AnsweringSimulates
<1>5. CASE Verification
  BY <1>5, VerificationAnswers, AnsweringSimulates, InnerStutters
<1>6. CASE Decrypt
  BY <1>6, DecryptAnswers, AnsweringSimulates
<1>7. CASE UNCHANGED vars
  <2>1. UNCHANGED <<sealed, request, answer>>
    BY <1>7 DEF vars, request, answer, Genuine, Uses, keyOk
  <2> QED
    BY <2>1 DEF Ideal!vars
<1> QED
  BY <1>1, <1>2, <1>3, <1>4, <1>5, <1>6, <1>7 DEF Next, Verification

(***************************************************************************)
(* AES-CBC paired with any of the three MACs is authenticated encryption.  *)
(***************************************************************************)
THEOREM PairingImplementsIdeal == Spec => ImplementsIdeal
<1>1. Init => Ideal!Init
  BY DEF Init, request, answer, NoReply, Ideal!Init, Ideal!Idle, Ideal!NoReply
<1>2. Inv /\ [Next]_vars => [Ideal!Next]_(Ideal!vars)
  BY StepSimulation
<1> QED
  BY <1>1, <1>2, InvHolds, PTL DEF Spec, ImplementsIdeal, Ideal!Spec
=============================================================================
