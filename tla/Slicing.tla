------------------------------- MODULE Slicing -------------------------------
(***************************************************************************)
(* How one buffer is cut into consecutive views, one loop iteration per    *)
(* step.  Three functions of the library do it:                            *)
(*   - split and splitBytes (src/utils.ts), which check every size, then   *)
(*     the total against the buffer, and return the unrequested tail as    *)
(*     one more segment;                                                   *)
(*   - HKDF.deriveMultiple (src/core.ts), which checks only the SUM of the *)
(*     requested lengths, derives that many bytes and cuts them.           *)
(* All cut with TypedArray.prototype.subarray, whose negative and          *)
(* out-of-range arguments are legal, so an offset that goes wrong raises   *)
(* no error: it silently selects other bytes.                              *)
(***************************************************************************)
EXTENDS Integers, Sequences, Tiling

CONSTANTS
  SizeArrays,   \* the arrays of integers a caller may pass
  BufferSizes,  \* the lengths of the buffers a caller may have split
  HkdfMax       \* HKDF_MAX_OUTPUT_SIZE of src/constants.ts

ASSUME SizeArraysAssumption == SizeArrays \subseteq Seq(Int)
ASSUME BufferSizesAssumption == BufferSizes \subseteq Nat
ASSUME HkdfMaxAssumption == HkdfMax \in Nat

VARIABLES
  fn,      \* the function called
  sizes,   \* its sizes (or lengths) argument
  bufLen,  \* byte length of the buffer that is cut
  pc,      \* where the call is
  next,    \* index in sizes the current loop looks at
  total,   \* the code's total
  offset,  \* the code's offset
  segs,    \* the views pushed so far: where each starts, how long it is
  sums     \* history: sums[k + 1] is the total after k sizes

vars == <<fn, sizes, bufLen, pc, next, total, offset, segs, sums>>
args == <<fn, sizes, bufLen>>

Cutters == {"split", "splitBytes", "deriveMultiple"}
Splits == {"split", "splitBytes"}
Phases == {"adding", "slicing", "returned", "threw"}
Segment == [off : Nat, len : Nat]

(***************************************************************************)
(* TypedArray.prototype.subarray(begin, end) on n bytes (ECMAScript): a    *)
(* negative index counts from the end, both are clamped to 0..n, and an    *)
(* end before its begin gives an empty view.                               *)
(***************************************************************************)
Clamp(n, index) ==
  IF index < 0
    THEN IF n + index < 0 THEN 0 ELSE n + index
    ELSE IF index > n THEN n ELSE index

Subarray(n, begin, end) ==
  LET first == Clamp(n, begin)
      last == Clamp(n, end)
  IN  [off |-> first, len |-> IF last < first THEN 0 ELSE last - first]

-----------------------------------------------------------------------------
(***************************************************************************)
(* A call.  deriveMultiple is given no buffer: it cuts the OKM it derives, *)
(* 0 bytes until then.                                                     *)
(***************************************************************************)
Init ==
  /\ fn \in Cutters
  /\ sizes \in SizeArrays
  /\ bufLen \in IF fn \in Splits THEN BufferSizes ELSE {0}
  /\ pc = "adding"
  /\ next = 1
  /\ total = 0
  /\ offset = 0
  /\ segs = << >>
  /\ sums = <<0>>

Throw ==
  /\ pc' = "threw"
  /\ UNCHANGED <<fn, sizes, bufLen, next, total, offset, segs, sums>>

\* Mutant: a loop that forgets the first size.
AddToTotal_Skips ==
  /\ total' = IF next = 1 THEN 0 ELSE total + sizes[next]
  /\ sums' = Append(sums, total + sizes[next])
  /\ next' = next + 1
  /\ UNCHANGED <<fn, sizes, bufLen, pc, offset, segs>>

AddToTotal ==
  /\ total' = total + sizes[next]
  /\ sums' = Append(sums, total + sizes[next])
  /\ next' = next + 1
  /\ UNCHANGED <<fn, sizes, bufLen, pc, offset, segs>>

(***************************************************************************)
(* One iteration of the validating loop of split and splitBytes.           *)
(***************************************************************************)
SumSize ==
  /\ pc = "adding"
  /\ fn \in Splits
  /\ next <= Len(sizes)
  /\ IF sizes[next] < 0 THEN Throw ELSE AddToTotal

(***************************************************************************)
(* One application of deriveMultiple's reducer: nothing is checked.        *)
(***************************************************************************)
ReduceLength ==
  /\ pc = "adding"
  /\ fn = "deriveMultiple"
  /\ next <= Len(sizes)
  /\ AddToTotal

StartSlicing(n) ==
  /\ pc' = "slicing"
  /\ bufLen' = n
  /\ next' = 1
  /\ UNCHANGED <<fn, sizes, total, offset, segs, sums>>

(***************************************************************************)
(* split and splitBytes compare the total with the buffer.                 *)
(***************************************************************************)
CheckTotal ==
  /\ pc = "adding"
  /\ fn \in Splits
  /\ next > Len(sizes)
  /\ IF total > bufLen THEN Throw ELSE StartSlicing(bufLen)

\* Mutant: only the maximum is checked.
DeriveOkm_MaximumOnly ==
  /\ pc = "adding"
  /\ fn = "deriveMultiple"
  /\ next > Len(sizes)
  /\ IF sizes = << >> \/ total > HkdfMax
       THEN Throw
       ELSE StartSlicing(total)

(***************************************************************************)
(* deriveMultiple refuses an empty array, runs assertHkdfLength on the     *)
(* total (negative, above the maximum and zero all throw), then derives an *)
(* OKM of total bytes.                                                     *)
(***************************************************************************)
DeriveOkm ==
  /\ pc = "adding"
  /\ fn = "deriveMultiple"
  /\ next > Len(sizes)
  /\ IF sizes = << >> \/ total < 0 \/ total > HkdfMax \/ total = 0
       THEN Throw
       ELSE StartSlicing(total)

\* Mutant: the size is passed where subarray takes an end.
PushSegment_SizeAsEnd ==
  /\ pc = "slicing"
  /\ next <= Len(sizes)
  /\ segs' = Append(segs, Subarray(bufLen, offset, sizes[next]))
  /\ offset' = offset + sizes[next]
  /\ next' = next + 1
  /\ UNCHANGED <<fn, sizes, bufLen, pc, total, sums>>

(***************************************************************************)
(* One iteration of the slicing loop all three share.                      *)
(***************************************************************************)
PushSegment ==
  /\ pc = "slicing"
  /\ next <= Len(sizes)
  /\ segs' = Append(segs, Subarray(bufLen, offset, offset + sizes[next]))
  /\ offset' = offset + sizes[next]
  /\ next' = next + 1
  /\ UNCHANGED <<fn, sizes, bufLen, pc, total, sums>>

\* Mutant: the unrequested tail is dropped.
Return_DropsTail ==
  /\ pc = "slicing"
  /\ next > Len(sizes)
  /\ pc' = "returned"
  /\ UNCHANGED <<fn, sizes, bufLen, next, total, offset, segs, sums>>

(***************************************************************************)
(* The call returns; split and splitBytes first push the bytes nobody      *)
(* asked for, if there are any.                                            *)
(***************************************************************************)
Return ==
  /\ pc = "slicing"
  /\ next > Len(sizes)
  /\ segs' = IF fn \in Splits /\ offset < bufLen
               THEN Append(segs, Subarray(bufLen, offset, bufLen))
               ELSE segs
  /\ pc' = "returned"
  /\ UNCHANGED <<fn, sizes, bufLen, next, total, offset, sums>>

Finished ==
  /\ pc \in {"returned", "threw"}
  /\ UNCHANGED vars

Next ==
  \/ SumSize
  \/ ReduceLength
  \/ CheckTotal
  \/ DeriveOkm
  \/ PushSegment
  \/ Return
  \/ Finished

Spec == Init /\ [][Next]_vars

-----------------------------------------------------------------------------
(* The code and its history variable only ever hold these.  The buffer     *)
(* that is cut has a length: no OKM of a negative total is ever derived.   *)
TypeOK ==
  /\ fn \in Cutters
  /\ sizes \in SizeArrays
  /\ bufLen \in Nat
  /\ pc \in Phases
  /\ next \in Nat \ {0}
  /\ total \in Int
  /\ offset \in Int
  /\ segs \in Seq(Segment)
  /\ sums \in Seq(Int)

(* What a caller ought to pass: no negative number.                        *)
NoNegativeSize == \A k \in DOMAIN sizes : sizes[k] >= 0

(* "The inverse of concat" (src/utils.ts): the segments a call returns     *)
(* tile the buffer, so they never overlap and no byte is lost.  For        *)
(* deriveMultiple this needs lengths that are not negative: two keys never *)
(* share a byte and together they are the whole OKM.                       *)
SegmentsTile ==
  (pc = "returned" /\ NoNegativeSize) => Tiles(segs, bufLen)

(* The k-th segment has the k-th requested size, and only a non-empty      *)
(* unrequested tail may follow the requested ones.                         *)
SizesHonoured ==
  (pc = "returned" /\ NoNegativeSize) =>
    /\ Len(segs) \in {Len(sizes), Len(sizes) + 1}
    /\ \A k \in DOMAIN sizes : segs[k].len = sizes[k]
    /\ Len(segs) > Len(sizes) => fn \in Splits /\ segs[Len(segs)].len > 0

(* PrefixSums(s)[k] is the sum of the first k members of s.                *)
PrefixSums(s) ==
  LET sum[k \in 0..Len(s)] == IF k = 0 THEN 0 ELSE sum[k - 1] + s[k]
  IN  sum

BadInput ==
  LET sum == PrefixSums(sizes)[Len(sizes)]
  IN  IF fn \in Splits
        THEN ~NoNegativeSize \/ sum > bufLen
        ELSE sum \notin 1..HkdfMax

(* A call throws on a bad argument and on nothing else.  split and         *)
(* splitBytes: a negative size, or sizes that exceed the buffer.           *)
(* deriveMultiple: a sum outside 1..HkdfMax.                               *)
ThrowsExactlyOnBadInput ==
  /\ pc = "threw" => BadInput
  /\ pc = "returned" => ~BadInput

(* What the comment over deriveMultiple promises: one key per requested    *)
(* length, as long as requested.                                           *)
OneKeyPerRequestedLength ==
  (pc = "returned" /\ fn = "deriveMultiple") =>
    /\ Len(segs) = Len(sizes)
    /\ \A k \in DOMAIN sizes : segs[k].len = sizes[k]

=============================================================================
