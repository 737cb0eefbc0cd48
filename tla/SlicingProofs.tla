---------------------------- MODULE SlicingProofs ----------------------------
(***************************************************************************)
(* Proofs about Slicing, for every array of integers, every buffer length  *)
(* and every maximum.  The argument is the loop invariant nobody wrote     *)
(* down: after k sizes the offset equals the k-th prefix total computed by *)
(* the first loop (the history variable sums), prefix totals never         *)
(* decrease when no size is negative, and the last one is the total that   *)
(* was compared with the buffer.                                           *)
(***************************************************************************)
EXTENDS Slicing, WellFoundedInduction, TLAPS

(***************************************************************************)
(* subarray on non-negative, ordered, in-range indices selects exactly the *)
(* bytes asked for.                                                        *)
(***************************************************************************)
LEMMA SubarrayExact ==
  ASSUME NEW n \in Nat, NEW b \in Int, NEW e \in Int,
         0 <= b, b <= e, e <= n
  PROVE  Subarray(n, b, e) = [off |-> b, len |-> e - b]
BY DEF Subarray, Clamp

(***************************************************************************)
(* subarray on any integers selects bytes of the buffer only.              *)
(***************************************************************************)
LEMMA SubarrayInBounds ==
  \A n \in Nat : \A b, e \in Int :
    /\ Subarray(n, b, e) \in Segment
    /\ Subarray(n, b, e).off + Subarray(n, b, e).len <= n
BY DEF Subarray, Clamp, Segment

(***************************************************************************)
(* The size a loop looks at is an integer.                                 *)
(***************************************************************************)
LEMMA SizesAreIntegers ==
  ASSUME TypeOK
  PROVE  sizes \in Seq(Int) /\ (next <= Len(sizes) => sizes[next] \in Int)
<1>1. sizes \in Seq(Int)
  BY SizeArraysAssumption DEF TypeOK
<1> QED
  BY <1>1 DEF TypeOK

-----------------------------------------------------------------------------
(***************************************************************************)
(* Type correctness of every call.                                         *)
(***************************************************************************)
THEOREM TypeCorrect == Spec => []TypeOK
<1>1. Init => TypeOK
  BY BufferSizesAssumption DEF Init, TypeOK, Phases, Splits, Segment
<1>2. TypeOK /\ [Next]_vars => TypeOK'
  <2> SUFFICES ASSUME TypeOK, [Next]_vars
               PROVE  TypeOK'
    OBVIOUS
  <2>0. sizes \in Seq(Int) /\ (next <= Len(sizes) => sizes[next] \in Int)
    BY SizesAreIntegers
  <2> USE DEF TypeOK, Phases
  <2>1. CASE SumSize
    <3>1. next + 1 \in Nat \ {0}
      OBVIOUS
    <3>2. CASE AddToTotal
      <4>1. sums' \in Seq(Int) /\ total' \in Int
        BY <2>0, <2>1, <3>2 DEF SumSize, AddToTotal
      <4> QED
        BY <3>1, <3>2, <4>1 DEF AddToTotal
    <3>3. CASE Throw
      BY <3>3 DEF Throw
    <3> QED
      BY <2>1, <3>2, <3>3 DEF SumSize
  <2>2. CASE ReduceLength
    BY <2>0, <2>2 DEF ReduceLength, AddToTotal
  <2>3. CASE CheckTotal
    BY <2>3 DEF CheckTotal, Throw, StartSlicing
  <2>4. CASE DeriveOkm
    BY <2>4 DEF DeriveOkm, Throw, StartSlicing
  <2>5. CASE PushSegment
    <3>1. sizes[next] \in Int
      BY <2>0, <2>5 DEF PushSegment
    <3>2. offset + sizes[next] \in Int
      BY <3>1
    <3>3. Subarray(bufLen, offset, offset + sizes[next]) \in Segment
      BY <3>2, SubarrayInBounds
    <3> QED
      BY <2>5, <3>1, <3>3 DEF PushSegment
  <2>6. CASE Return
    <3>1. Subarray(bufLen, offset, bufLen) \in Segment
      <4>1. bufLen \in Nat /\ bufLen \in Int /\ offset \in Int
        OBVIOUS
      <4> QED
        BY <4>1, SubarrayInBounds
    <3> QED
      BY <2>6, <3>1 DEF Return
  <2>7. CASE Finished
    BY <2>7 DEF Finished, vars
  <2>8. CASE UNCHANGED vars
    BY <2>8 DEF vars
  <2> QED
    BY <2>1, <2>2, <2>3, <2>4, <2>5, <2>6, <2>7, <2>8 DEF Next
<1> QED
  BY <1>1, <1>2, PTL DEF Spec

-----------------------------------------------------------------------------
(***************************************************************************)
(* The loop invariant.  sums are the prefix totals of sizes, complete when *)
(* slicing starts; while slicing, offset is the prefix total of the sizes  *)
(* already cut and, without a negative size, the segments lie between      *)
(* consecutive prefix totals, the last of which the buffer can hold.       *)
(***************************************************************************)
PrefixTotals ==
  /\ Len(sums) \in 1..(Len(sizes) + 1)
  /\ sums[1] = 0
  /\ \A k \in 1..(Len(sums) - 1) : sums[k + 1] = sums[k] + sizes[k]
  /\ NoNegativeSize =>
       \A j, k \in 1..Len(sums) : j <= k => sums[j] <= sums[k]

Adding ==
  /\ Len(sums) = next
  /\ total = sums[next]
  /\ offset = 0
  /\ segs = << >>

Cutting ==
  /\ Len(sums) = Len(sizes) + 1
  /\ next <= Len(sizes) + 1
  /\ offset = sums[next]
  /\ sums[Len(sizes) + 1] <= bufLen
  /\ fn \notin Splits => sums[Len(sizes) + 1] = bufLen
  /\ Len(segs) = next - 1
  /\ NoNegativeSize =>
       \A k \in 1..(next - 1) : segs[k] = [off |-> sums[k], len |-> sizes[k]]

TilingInv ==
  /\ PrefixTotals
  /\ pc = "adding" => Adding
  /\ pc = "slicing" => Cutting
  /\ SegmentsTile
  /\ SizesHonoured

(***************************************************************************)
(* Both summing loops extend the prefix totals by one.                     *)
(***************************************************************************)
LEMMA AddingKeepsPrefixTotals ==
  ASSUME TypeOK, TilingInv, pc = "adding", next <= Len(sizes), AddToTotal
  PROVE  TilingInv'
<1>0. sizes \in Seq(Int) /\ sizes[next] \in Int /\ next \in 1..Len(sizes)
  BY SizesAreIntegers DEF TypeOK
<1>1. sums \in Seq(Int) /\ Len(sums) = next /\ total = sums[next] /\ total \in Int
  BY DEF TilingInv, Adding, TypeOK
<1>2. /\ Len(sums') = next + 1
      /\ \A k \in 1..next : sums'[k] = sums[k]
      /\ sums'[next + 1] = sums[next] + sizes[next]
      /\ sums' \in Seq(Int)
  BY <1>0, <1>1 DEF AddToTotal
<1>3. /\ pc' = "adding" /\ sizes' = sizes /\ next' = next + 1
      /\ total' = sums[next] + sizes[next]
      /\ segs' = segs /\ offset' = offset
  BY <1>1 DEF AddToTotal
<1>4. NoNegativeSize' => \A j, k \in 1..Len(sums') : j <= k => sums'[j] <= sums'[k]
  <2> SUFFICES ASSUME NoNegativeSize,
                      NEW j \in 1..(next + 1), NEW k \in 1..(next + 1), j <= k
               PROVE  sums'[j] <= sums'[k]
    BY <1>2, <1>3 DEF NoNegativeSize
  <2>1. sizes[next] >= 0
    BY <1>0 DEF NoNegativeSize
  <2>2. \A i \in 1..next : sums[i] <= sums[next] /\ sums[i] \in Int
    BY <1>0, <1>1 DEF TilingInv, PrefixTotals
  <2>3. CASE k <= next
    <3>1. j \in 1..next /\ k \in 1..next
      BY <1>0, <2>3
    <3>2. sums[j] <= sums[k]
      BY <1>1, <3>1 DEF TilingInv, PrefixTotals
    <3> QED
      BY <1>2, <3>1, <3>2
  <2>4. CASE k = next + 1 /\ j <= next
    BY <1>0, <1>2, <2>1, <2>2, <2>4
  <2>5. CASE k = next + 1 /\ j = next + 1
    BY <1>0, <1>1, <1>2, <2>2, <2>5
  <2> QED
    BY <1>0, <2>3, <2>4, <2>5
<1>5. PrefixTotals'
  <2>1. Len(sums') \in 1..(Len(sizes') + 1) /\ sums'[1] = 0
    BY <1>0, <1>2, <1>3 DEF TilingInv, PrefixTotals
  <2>2. \A k \in 1..(Len(sums') - 1) : sums'[k + 1] = sums'[k] + sizes'[k]
    <3> SUFFICES ASSUME NEW k \in 1..next
                 PROVE  sums'[k + 1] = sums'[k] + sizes[k]
      BY <1>0, <1>2, <1>3
    <3>1. CASE k = next
      BY <1>2, <3>1
    <3>2. CASE k < next
      BY <1>0, <1>1, <1>2, <3>2 DEF TilingInv, PrefixTotals
    <3> QED
      BY <1>0, <3>1, <3>2
  <2> QED
    BY <1>4, <2>1, <2>2 DEF PrefixTotals
<1>6. Adding'
  BY <1>1, <1>2, <1>3 DEF TilingInv, Adding
<1> QED
  BY <1>3, <1>5, <1>6 DEF TilingInv, SegmentsTile, SizesHonoured

(***************************************************************************)
(* One turn of the slicing loop cuts exactly between two prefix totals.    *)
(***************************************************************************)
LEMMA PushingKeepsTiling ==
  ASSUME TypeOK, TilingInv, PushSegment
  PROVE  TilingInv'
<1>0. sizes \in Seq(Int) /\ sizes[next] \in Int /\ next \in 1..Len(sizes)
  BY SizesAreIntegers DEF TypeOK, PushSegment
<1>1. Cutting /\ PrefixTotals
  BY DEF TilingInv, PushSegment
<1>2. /\ sums \in Seq(Int) /\ sums[next] \in Int
      /\ sums[next + 1] \in Int /\ sums[next + 1] = sums[next] + sizes[next]
      /\ sums[1] = 0
  <2>1. sums \in Seq(Int) /\ Len(sums) = Len(sizes) + 1
    BY <1>1 DEF Cutting, TypeOK
  <2>2. next \in 1..(Len(sums) - 1) /\ next \in 1..Len(sums) /\ next + 1 \in 1..Len(sums)
    BY <1>0, <2>1
  <2> QED
    BY <1>1, <2>1, <2>2 DEF PrefixTotals
<1>3. /\ pc' = "slicing" /\ sizes' = sizes /\ sums' = sums /\ fn' = fn
      /\ bufLen' = bufLen /\ next' = next + 1 /\ offset' = sums[next + 1]
  BY <1>0, <1>1, <1>2 DEF PushSegment, Cutting
<1>4. /\ segs' \in Seq(Segment)
      /\ Len(segs') = next
      /\ \A k \in 1..(next - 1) : segs'[k] = segs[k]
      /\ segs'[next] = Subarray(bufLen, offset, offset + sizes[next])
  <2>1. bufLen \in Nat /\ offset \in Int /\ offset + sizes[next] \in Int
    BY <1>0 DEF TypeOK
  <2>2. Subarray(bufLen, offset, offset + sizes[next]) \in Segment
    BY <2>1, SubarrayInBounds
  <2>3. segs \in Seq(Segment) /\ Len(segs) = next - 1
    BY <1>1 DEF Cutting, TypeOK
  <2>4. segs' = Append(segs, Subarray(bufLen, offset, offset + sizes[next]))
    BY DEF PushSegment
  <2> QED
    BY <1>0, <2>2, <2>3, <2>4
<1>5. NoNegativeSize => segs'[next] = [off |-> sums[next], len |-> sizes[next]]
  <2> SUFFICES ASSUME NoNegativeSize
               PROVE  segs'[next] = [off |-> sums[next], len |-> sizes[next]]
    OBVIOUS
  <2>1. 0 <= sums[next]
    BY <1>0, <1>1, <1>2 DEF PrefixTotals, Cutting
  <2>2. sizes[next] >= 0
    BY <1>0 DEF NoNegativeSize
  <2>3. sums[next + 1] <= sums[Len(sizes) + 1]
    BY <1>0, <1>1 DEF PrefixTotals, Cutting
  <2>4. sums[next + 1] <= bufLen
    <3>1. sums[Len(sizes) + 1] \in Int
      <4>1. Len(sizes) + 1 \in 1..Len(sums)
        BY <1>0, <1>1 DEF Cutting
      <4> QED
        BY <1>2, <4>1
    <3>2. sums[Len(sizes) + 1] <= bufLen /\ bufLen \in Nat
      BY <1>1 DEF Cutting, TypeOK
    <3> QED
      BY <1>2, <2>3, <3>1, <3>2
  <2>5. Subarray(bufLen, sums[next], sums[next + 1])
          = [off |-> sums[next], len |-> sums[next + 1] - sums[next]]
    <3>1. bufLen \in Nat /\ sums[next] <= sums[next + 1]
      BY <1>0, <1>2, <2>2 DEF TypeOK
    <3> QED
      BY <1>2, <2>1, <2>4, <3>1, SubarrayExact
  <2> QED
    BY <1>0, <1>1, <1>2, <1>4, <2>5 DEF Cutting
<1>6. Cutting'
  <2>1. NoNegativeSize' =>
          \A k \in 1..(next' - 1) : segs'[k] = [off |-> sums'[k], len |-> sizes'[k]]
    <3> SUFFICES ASSUME NoNegativeSize, NEW k \in 1..next
                 PROVE  segs'[k] = [off |-> sums[k], len |-> sizes[k]]
      BY <1>0, <1>3 DEF NoNegativeSize
    <3>1. CASE k = next
      BY <1>5, <3>1
    <3>2. CASE k \in 1..(next - 1)
      BY <1>1, <1>4, <3>2 DEF Cutting
    <3> QED
      BY <1>0, <3>1, <3>2
  <2> QED
    BY <1>0, <1>1, <1>3, <1>4, <2>1 DEF Cutting
<1>7. PrefixTotals'
  BY <1>1, <1>3 DEF PrefixTotals, NoNegativeSize
<1> QED
  BY <1>3, <1>6, <1>7 DEF TilingInv, SegmentsTile, SizesHonoured

(***************************************************************************)
(* Returning, with or without the unrequested tail, leaves a tiling.       *)
(***************************************************************************)
LEMMA ReturningTiles ==
  ASSUME TypeOK, TilingInv, Return
  PROVE  TilingInv'
<1>0. sizes \in Seq(Int) /\ next = Len(sizes) + 1
  BY SizesAreIntegers DEF TypeOK, Return, TilingInv, Cutting
<1>1. Cutting /\ PrefixTotals
  BY DEF TilingInv, Return
<1>2. /\ pc' = "returned" /\ sizes' = sizes /\ sums' = sums /\ fn' = fn
      /\ bufLen' = bufLen
  BY DEF Return
<1>3. /\ bufLen \in Nat /\ offset \in Int /\ sums \in Seq(Int)
      /\ segs \in Seq(Segment) /\ Len(segs) = Len(sizes)
      /\ offset = sums[Len(sizes) + 1] /\ offset <= bufLen
      /\ fn \notin Splits => offset = bufLen
  BY <1>0, <1>1 DEF TypeOK, Cutting
<1>4. PrefixTotals'
  BY <1>1, <1>2 DEF PrefixTotals, NoNegativeSize
<1>5. ASSUME NoNegativeSize
      PROVE  /\ Tiles(segs', bufLen)
             /\ Len(segs') \in {Len(sizes), Len(sizes) + 1}
             /\ \A k \in DOMAIN sizes : segs'[k].len = sizes[k]
             /\ Len(segs') > Len(sizes) => fn \in Splits /\ segs'[Len(segs')].len > 0
  <2>1. \A k \in 1..Len(sizes) :
          /\ segs[k].off = sums[k] /\ segs[k].len = sizes[k]
          /\ sums[k + 1] = sums[k] + sizes[k]
    <3> SUFFICES ASSUME NEW k \in 1..Len(sizes)
                 PROVE  /\ segs[k].off = sums[k] /\ segs[k].len = sizes[k]
                        /\ sums[k + 1] = sums[k] + sizes[k]
      OBVIOUS
    <3>1. k \in 1..(next - 1) /\ k \in 1..(Len(sums) - 1)
      BY <1>0, <1>1 DEF Cutting
    <3>2. segs[k] = [off |-> sums[k], len |-> sizes[k]]
      BY <1>1, <1>5, <3>1 DEF Cutting
    <3> QED
      BY <1>1, <3>1, <3>2 DEF PrefixTotals
  <2>2. \A k \in 1..Len(sizes) :
          segs[k].off = IF k = 1 THEN 0 ELSE segs[k - 1].off + segs[k - 1].len
    <3> SUFFICES ASSUME NEW k \in 1..Len(sizes)
                 PROVE  segs[k].off = IF k = 1 THEN 0
                                      ELSE segs[k - 1].off + segs[k - 1].len
      OBVIOUS
    <3>1. CASE k = 1
      BY <1>1, <2>1, <3>1 DEF PrefixTotals
    <3>2. CASE k - 1 \in 1..Len(sizes)
      <4>1. segs[k].off = sums[k]
        BY <2>1
      <4>2. /\ segs[k - 1].off = sums[k - 1] /\ segs[k - 1].len = sizes[k - 1]
            /\ sums[(k - 1) + 1] = sums[k - 1] + sizes[k - 1]
        BY <2>1, <3>2
      <4> QED
        BY <1>0, <3>2, <4>1, <4>2
    <3> QED
      BY <1>0, <3>1, <3>2
  <2>3. segs # << >> => segs[Len(segs)].off + segs[Len(segs)].len = offset
    <3> SUFFICES ASSUME segs # << >>
                 PROVE  segs[Len(sizes)].off + segs[Len(sizes)].len = offset
      BY <1>3
    <3>1. Len(sizes) \in 1..Len(sizes)
      BY <1>0, <1>3
    <3> QED
      BY <1>3, <2>1, <3>1
  <2>4. segs = << >> => offset = 0
    BY <1>0, <1>1, <1>3 DEF PrefixTotals
  <2>5. CASE fn \in Splits /\ offset < bufLen
    <3> DEFINE tail == [off |-> offset, len |-> bufLen - offset]
    <3>1. 0 <= offset
      BY <1>0, <1>1, <1>3, <1>5 DEF PrefixTotals, Cutting
    <3>2. segs' = Append(segs, tail) /\ tail \in Segment
      <4>1. Subarray(bufLen, offset, bufLen) = tail
        <5>1. bufLen \in Nat /\ bufLen \in Int /\ offset \in Int
              /\ 0 <= offset /\ offset <= bufLen /\ bufLen <= bufLen
          BY <1>3, <3>1
        <5> QED
          BY <5>1, SubarrayExact
      <4> QED
        BY <1>0, <1>3, <2>5, <3>1, <4>1 DEF Return, Segment
    <3>3. /\ Len(segs') = Len(sizes) + 1
          /\ \A k \in 1..Len(sizes) : segs'[k] = segs[k]
          /\ segs'[Len(sizes) + 1] = tail
          /\ segs' # << >>
          /\ DOMAIN segs' = 1..(Len(sizes) + 1)
      BY <1>3, <3>2
    <3>4. \A k \in DOMAIN segs' :
            segs'[k].off = IF k = 1 THEN 0 ELSE segs'[k - 1].off + segs'[k - 1].len
      <4> SUFFICES ASSUME NEW k \in 1..(Len(sizes) + 1)
                   PROVE  segs'[k].off = IF k = 1 THEN 0
                                         ELSE segs'[k - 1].off + segs'[k - 1].len
        BY <3>3
      <4>1. CASE k <= Len(sizes)
        BY <1>0, <2>2, <3>3, <4>1
      <4>2. CASE k = Len(sizes) + 1
        <5>1. k - 1 = Len(sizes) /\ Len(sizes) \in Nat /\ segs'[k].off = offset
          BY <1>0, <3>3, <4>2
        <5>2. CASE Len(sizes) = 0
          BY <1>3, <2>4, <4>2, <5>1, <5>2
        <5>3. CASE Len(sizes) > 0
          <6>1. segs # << >> /\ k # 1 /\ Len(sizes) \in 1..Len(sizes)
            BY <1>3, <4>2, <5>1, <5>3
          <6>2. segs'[k - 1] = segs[Len(segs)]
            BY <1>3, <3>3, <5>1, <6>1
          <6> QED
            BY <2>3, <5>1, <6>1, <6>2
        <5> QED
          BY <5>1, <5>2, <5>3
      <4> QED
        BY <1>0, <4>1, <4>2
    <3>5. Tiles(segs', bufLen)
      BY <1>3, <3>3, <3>4 DEF Tiles
    <3>6. \A k \in DOMAIN sizes : segs'[k].len = sizes[k]
      <4>1. DOMAIN sizes = 1..Len(sizes)
        BY <1>0
      <4>2. \A k \in 1..Len(sizes) : segs'[k] = segs[k] /\ segs[k].len = sizes[k]
        BY <2>1, <3>3
      <4> QED
        BY <4>1, <4>2
    <3>7. segs'[Len(segs')].len > 0
      BY <1>3, <2>5, <3>1, <3>3
    <3> QED
      BY <2>5, <3>3, <3>5, <3>6, <3>7
  <2>6. CASE ~(fn \in Splits /\ offset < bufLen)
    <3>1. segs' = segs /\ offset = bufLen
      BY <1>3, <2>6 DEF Return
    <3>2. Tiles(segs, bufLen)
      BY <1>3, <2>2, <2>3, <2>4, <3>1 DEF Tiles
    <3>3. \A k \in DOMAIN sizes : segs[k].len = sizes[k]
      BY <1>0, <2>1
    <3>4. ~(Len(segs) > Len(sizes)) /\ Len(segs) \in {Len(sizes), Len(sizes) + 1}
      BY <1>0, <1>3
    <3> QED
      BY <3>1, <3>2, <3>3, <3>4
  <2> QED
    BY <2>5, <2>6
<1> QED
  BY <1>2, <1>4, <1>5 DEF TilingInv, SegmentsTile, SizesHonoured, NoNegativeSize

(***************************************************************************)
(* For every buffer and every array without a negative number the segments *)
(* returned tile the buffer, each as long as requested, so two keys of one *)
(* deriveMultiple call never share a byte.                                 *)
(***************************************************************************)
THEOREM SegmentsAlwaysTile == Spec => [](SegmentsTile /\ SizesHonoured)
<1>1. Init => TilingInv
  <2> SUFFICES ASSUME Init
               PROVE  TilingInv
    OBVIOUS
  <2>1. sizes \in Seq(Int) /\ sums = <<0>> /\ next = 1 /\ total = 0
        /\ offset = 0 /\ segs = << >> /\ pc = "adding"
    BY SizeArraysAssumption DEF Init
  <2>2. Len(sums) = 1 /\ sums[1] = 0 /\ Len(sizes) \in Nat
    BY <2>1
  <2>3. PrefixTotals
    BY <2>1, <2>2 DEF PrefixTotals
  <2> QED
    BY <2>1, <2>2, <2>3 DEF TilingInv, Adding, SegmentsTile, SizesHonoured
<1>2. TypeOK /\ TilingInv /\ [Next]_vars => TilingInv'
  <2> SUFFICES ASSUME TypeOK, TilingInv, [Next]_vars
               PROVE  TilingInv'
    OBVIOUS
  <2>0. ASSUME Throw
        PROVE  TilingInv'
    <3>1. PrefixTotals'
      BY <2>0 DEF Throw, TilingInv, PrefixTotals, NoNegativeSize
    <3> QED
      BY <2>0, <3>1 DEF Throw, TilingInv, SegmentsTile, SizesHonoured
  <2>1. CASE SumSize
    BY <2>0, <2>1, AddingKeepsPrefixTotals DEF SumSize
  <2>2. CASE ReduceLength
    BY <2>2, AddingKeepsPrefixTotals DEF ReduceLength
  <2>3. ASSUME pc = "adding", next > Len(sizes), NEW n \in Nat, StartSlicing(n),
               total <= n, fn \notin Splits => total = n
        PROVE  TilingInv'
    <3>1. /\ PrefixTotals /\ Adding
          /\ sizes \in Seq(Int) /\ sums \in Seq(Int)
      BY <2>3, SizesAreIntegers DEF TilingInv, TypeOK
    <3>2. next = Len(sizes) + 1 /\ Len(sums) = Len(sizes) + 1
          /\ total = sums[Len(sizes) + 1]
      BY <2>3, <3>1 DEF PrefixTotals, Adding, TypeOK
    <3>3. PrefixTotals'
      BY <2>3, <3>1 DEF StartSlicing, PrefixTotals, NoNegativeSize
    <3>4. Cutting'
      BY <2>3, <3>1, <3>2 DEF StartSlicing, Cutting, Adding, PrefixTotals
    <3> QED
      BY <2>3, <3>3, <3>4 DEF StartSlicing, TilingInv, SegmentsTile, SizesHonoured
  <2>4. CASE CheckTotal
    <3>1. CASE Throw
      BY <2>0, <3>1
    <3>2. CASE StartSlicing(bufLen) /\ total <= bufLen
      BY <2>3, <2>4, <3>2 DEF CheckTotal, TypeOK
    <3> QED
      BY <2>4, <3>1, <3>2 DEF CheckTotal, TypeOK
  <2>5. CASE DeriveOkm
    <3>1. CASE Throw
      BY <2>0, <3>1
    <3>2. CASE StartSlicing(total) /\ total >= 0
      BY <2>3, <2>5, <3>2 DEF DeriveOkm, TypeOK
    <3> QED
      BY <2>5, <3>1, <3>2 DEF DeriveOkm, TypeOK
  <2>6. CASE PushSegment
    BY <2>6, PushingKeepsTiling
  <2>7. CASE Return
    BY <2>7, ReturningTiles
  <2>8. CASE Finished \/ UNCHANGED vars
    BY <2>8 DEF Finished, vars, TilingInv, PrefixTotals, Adding, Cutting,
                SegmentsTile, SizesHonoured, NoNegativeSize
  <2> QED
    BY <2>1, <2>2, <2>4, <2>5, <2>6, <2>7, <2>8 DEF Next
<1> QED
  BY <1>1, <1>2, TypeCorrect, PTL DEF Spec, TilingInv

(***************************************************************************)
(* Of it, what the callers of split count on: the k-th segment has the     *)
(* k-th size, and at most one segment, the rest, follows.                  *)
(***************************************************************************)
THEOREM SizesAlwaysHonoured == Spec => []SizesHonoured
BY SegmentsAlwaysTile, PTL

-----------------------------------------------------------------------------
(***************************************************************************)
(* A non-empty set of natural numbers has a least element.  Applied to a   *)
(* set of counterexamples, this is the induction the proofs below need.    *)
(***************************************************************************)
LEMMA LeastNatural ==
  ASSUME NEW T, T \subseteq Nat, T # {}
  PROVE  \E x \in T : \A y \in T : x <= y
<1> DEFINE R == {ss \in Nat \X Nat : ss[1] < ss[2]}
<1>1. IsWellFoundedOn(R, Nat)
  BY NatLessThanWellFounded DEF OpToRel
<1>2. PICK x \in T : \A y \in T : ~ (<<y, x>> \in R)
  BY <1>1, WFMin
<1>3. ASSUME NEW y \in T PROVE x <= y
  <2>1. <<y, x>> \in Nat \X Nat /\ <<y, x>>[1] = y /\ <<y, x>>[2] = x
    OBVIOUS
  <2>2. ~ (<<y, x>>[1] < <<y, x>>[2])
    BY <1>2, <2>1
  <2> QED
    BY <2>1, <2>2
<1> QED
  BY <1>3

(***************************************************************************)
(* The recursive function PrefixSums exists, whatever the array: it is     *)
(* built one size at a time, and a shortest array for which it could not   *)
(* be built would be one size longer than one for which it can.            *)
(***************************************************************************)
SumsUpTo(f, s, n) ==
  /\ f \in [0..n -> Int]
  /\ f[0] = 0
  /\ \A k \in 1..n : f[k] = f[k - 1] + s[k]

LEMMA PrefixSumsUnfold ==
  ASSUME NEW s \in Seq(Int)
  PROVE  SumsUpTo(PrefixSums(s), s, Len(s))
<1> DEFINE Missing == {n \in 0..Len(s) : ~\E f : SumsUpTo(f, s, n)}
<1>0. Len(s) \in Nat
  OBVIOUS
<1>1. Missing = {}
  <2> SUFFICES ASSUME Missing # {}
               PROVE  FALSE
    OBVIOUS
  <2>1. PICK n \in Missing : \A m \in Missing : n <= m
    <3>1. Missing \subseteq Nat
      BY <1>0
    <3> QED
      BY <3>1, LeastNatural
  <2>2. n # 0
    <3> DEFINE g == [k \in 0..0 |-> 0]
    <3>1. SumsUpTo(g, s, 0)
      BY DEF SumsUpTo
    <3> HIDE DEF g
    <3> QED
      BY <2>1, <3>1
  <2>3. n \in 1..Len(s) /\ n - 1 \in 0..Len(s) /\ n - 1 \notin Missing
    <3>1. n \in 0..Len(s)
      BY <2>1
    <3> HIDE DEF Missing
    <3>2. n \in 1..Len(s) /\ n - 1 \in 0..Len(s) /\ ~(n <= n - 1)
      BY <1>0, <2>2, <3>1
    <3> QED
      BY <2>1, <3>2
  <2>4. PICK f : SumsUpTo(f, s, n - 1)
    BY <2>3
  <2> DEFINE g == [k \in 0..n |-> IF k = n THEN f[n - 1] + s[n] ELSE f[k]]
  <2>5. f[n - 1] \in Int /\ s[n] \in Int
    BY <2>3, <2>4 DEF SumsUpTo
  <2>6. SumsUpTo(g, s, n)
    <3>1. g \in [0..n -> Int]
      BY <2>3, <2>4, <2>5 DEF SumsUpTo
    <3>2. g[0] = 0
      BY <2>3, <2>4 DEF SumsUpTo
    <3>3. ASSUME NEW k \in 1..n
          PROVE  g[k] = g[k - 1] + s[k]
      <4>1. CASE k = n
        BY <2>3, <4>1
      <4>2. CASE k \in 1..(n - 1)
        BY <2>3, <2>4, <4>2 DEF SumsUpTo
      <4> QED
        BY <2>3, <4>1, <4>2
    <3> QED
      BY <3>1, <3>2, <3>3 DEF SumsUpTo
  <2> HIDE DEF g
  <2> QED
    BY <2>1, <2>6
<1>2. PICK f : SumsUpTo(f, s, Len(s))
  BY <1>0, <1>1
<1> DEFINE body(g) == [k \in 0..Len(s) |-> IF k = 0 THEN 0 ELSE g[k - 1] + s[k]]
<1>3. f = body(f)
  BY <1>0, <1>2 DEF SumsUpTo
<1>4. PrefixSums(s) = body(PrefixSums(s))
  <2>1. PrefixSums(s) = CHOOSE g : g = body(g)
    BY DEF PrefixSums
  <2> HIDE DEF body
  <2> QED
    BY <1>3, <2>1
<1> DEFINE p == PrefixSums(s)
<1>5. /\ DOMAIN p = 0..Len(s) /\ p[0] = 0
      /\ \A k \in 1..Len(s) : p[k] = p[k - 1] + s[k]
  <2> HIDE DEF p
  <2>1. p = body(p)
    BY <1>4 DEF p
  <2> QED
    BY <1>0, <2>1
<1> HIDE DEF p, body
<1>6. \A k \in 0..Len(s) : p[k] \in Int
  <2> DEFINE Odd == {k \in 0..Len(s) : p[k] \notin Int}
  <2> SUFFICES ASSUME Odd # {}
               PROVE  FALSE
    OBVIOUS
  <2>1. PICK k \in Odd : \A j \in Odd : k <= j
    <3>1. Odd \subseteq Nat
      BY <1>0
    <3> QED
      BY <3>1, LeastNatural
  <2>2. k \in 1..Len(s)
    BY <1>0, <1>5, <2>1
  <2>3. p[k - 1] \in Int /\ s[k] \in Int
    BY <1>0, <2>1, <2>2
  <2> QED
    BY <1>5, <2>1, <2>2, <2>3
<1>7. p = [k \in 0..Len(s) |-> p[k]]
  BY <1>4 DEF p, body
<1> QED
  BY <1>5, <1>6, <1>7 DEF SumsUpTo, p

(***************************************************************************)
(* While the code adds, its total is the sum of the sizes it has seen and  *)
(* split has seen no negative one.  The final checks therefore decide on   *)
(* the sum of all of them, and nothing they looked at changes afterwards   *)
(* in a way that would make them wrong: the buffer deriveMultiple cuts has *)
(* the length that was checked.                                            *)
(***************************************************************************)
AddingSums ==
  /\ next \in 1..(Len(sizes) + 1)
  /\ total = PrefixSums(sizes)[next - 1]
  /\ fn \in Splits => \A k \in 1..(next - 1) : sizes[k] >= 0

ChecksInv ==
  /\ pc = "adding" => AddingSums
  /\ pc \in {"slicing", "returned"} => ~BadInput
  /\ pc = "threw" => BadInput

(***************************************************************************)
(* Neither summing loop loses a size.                                      *)
(***************************************************************************)
LEMMA AddingKeepsSums ==
  ASSUME TypeOK, ChecksInv, pc = "adding", next <= Len(sizes), AddToTotal,
         fn \in Splits => sizes[next] >= 0
  PROVE  ChecksInv'
<1>0. sizes \in Seq(Int) /\ next \in 1..Len(sizes) /\ AddingSums
  BY SizesAreIntegers DEF TypeOK, ChecksInv
<1>1. /\ pc' = "adding" /\ sizes' = sizes /\ fn' = fn /\ next' = next + 1
      /\ total' = total + sizes[next]
  BY DEF AddToTotal
<1>2. PrefixSums(sizes)[next] = PrefixSums(sizes)[next - 1] + sizes[next]
  BY <1>0, PrefixSumsUnfold DEF SumsUpTo
<1>3. total' = PrefixSums(sizes')[next' - 1]
  <2>1. next' - 1 = next
    BY <1>0, <1>1
  <2> QED
    BY <1>0, <1>1, <1>2, <2>1 DEF AddingSums
<1>4. next' \in 1..(Len(sizes') + 1)
  BY <1>0, <1>1
<1>5. fn' \in Splits => \A k \in 1..(next' - 1) : sizes'[k] >= 0
  <2> SUFFICES ASSUME fn \in Splits, NEW k \in 1..next
               PROVE  sizes[k] >= 0
    BY <1>0, <1>1
  <2> QED
    BY <1>0 DEF AddingSums
<1> QED
  BY <1>1, <1>3, <1>4, <1>5 DEF ChecksInv, AddingSums

(***************************************************************************)
(* A call throws on a bad argument and on nothing else, for every array of *)
(* integers: split and splitBytes on a negative size or on more than the   *)
(* buffer, deriveMultiple on a sum outside 1..HkdfMax.                     *)
(***************************************************************************)
THEOREM ThrowsExactly == Spec => []ThrowsExactlyOnBadInput
<1>1. Init => ChecksInv
  <2> SUFFICES ASSUME Init
               PROVE  ChecksInv
    OBVIOUS
  <2>1. sizes \in Seq(Int) /\ pc = "adding" /\ next = 1 /\ total = 0
    BY SizeArraysAssumption DEF Init
  <2>2. PrefixSums(sizes)[0] = 0
    BY <2>1, PrefixSumsUnfold DEF SumsUpTo
  <2> QED
    BY <2>1, <2>2 DEF ChecksInv, AddingSums
<1>2. TypeOK /\ ChecksInv /\ [Next]_vars => ChecksInv'
  <2> SUFFICES ASSUME TypeOK, ChecksInv, [Next]_vars
               PROVE  ChecksInv'
    OBVIOUS
  <2>0. sizes \in Seq(Int) /\ Len(sizes) \in Nat /\ next \in Nat
    BY SizesAreIntegers DEF TypeOK
  <2>1. CASE SumSize
    <3>1. CASE sizes[next] < 0 /\ Throw
      <4>1. next \in DOMAIN sizes /\ fn \in Splits /\ ~NoNegativeSize
        BY <2>0, <2>1, <3>1 DEF SumSize, NoNegativeSize, TypeOK
      <4>2. /\ pc' = "threw" /\ fn' \in Splits /\ ~NoNegativeSize'
        BY <3>1, <4>1 DEF Throw, NoNegativeSize
      <4> QED
        BY <4>2 DEF ChecksInv, BadInput
    <3>2. CASE ~(sizes[next] < 0) /\ AddToTotal
      <4>1. sizes[next] >= 0
        BY <2>0, <2>1, <3>2, SizesAreIntegers DEF SumSize
      <4> QED
        BY <2>1, <3>2, <4>1, AddingKeepsSums DEF SumSize
    <3> QED
      BY <2>1, <3>1, <3>2 DEF SumSize
  <2>2. CASE ReduceLength
    <3>1. fn \notin Splits
      BY <2>2 DEF ReduceLength, Splits
    <3> QED
      BY <2>2, <3>1, AddingKeepsSums DEF ReduceLength
  <2>3. ASSUME pc = "adding", next > Len(sizes)
        PROVE  /\ total = PrefixSums(sizes)[Len(sizes)] /\ total \in Int
               /\ fn \in Splits => NoNegativeSize
    <3>1. AddingSums /\ next = Len(sizes) + 1
      BY <2>0, <2>3 DEF ChecksInv, AddingSums
    <3> QED
      BY <2>0, <3>1 DEF AddingSums, NoNegativeSize, TypeOK
  <2>4. CASE CheckTotal
    <3>1. /\ fn \in Splits /\ total = PrefixSums(sizes)[Len(sizes)] /\ NoNegativeSize
          /\ total \in Int /\ bufLen \in Nat
      BY <2>3, <2>4 DEF CheckTotal, TypeOK
    <3>2. CASE total > bufLen /\ Throw
      <4>1. BadInput
        BY <3>1, <3>2 DEF BadInput
      <4> QED
        BY <3>2, <4>1 DEF Throw, ChecksInv, BadInput, NoNegativeSize
    <3>3. CASE ~(total > bufLen) /\ StartSlicing(bufLen)
      <4>1. ~BadInput
        BY <3>1, <3>3 DEF BadInput
      <4> QED
        BY <3>3, <4>1 DEF StartSlicing, ChecksInv, BadInput, NoNegativeSize
    <3> QED
      BY <2>4, <3>2, <3>3 DEF CheckTotal
  <2>5. CASE DeriveOkm
    <3>1. /\ fn \notin Splits /\ total = PrefixSums(sizes)[Len(sizes)] /\ total \in Int
      BY <2>3, <2>5 DEF DeriveOkm, Splits
    <3>2. CASE Throw /\ (sizes = << >> \/ total < 0 \/ total > HkdfMax \/ total = 0)
      <4>1. sizes = << >> => total = 0
        BY <2>0, <3>1, PrefixSumsUnfold DEF SumsUpTo
      <4>2. BadInput
        BY <3>1, <3>2, <4>1, HkdfMaxAssumption DEF BadInput
      <4> QED
        BY <3>2, <4>2 DEF Throw, ChecksInv, BadInput, NoNegativeSize
    <3>3. CASE StartSlicing(total) /\ ~(total < 0 \/ total > HkdfMax \/ total = 0)
      <4>1. total \in 1..HkdfMax
        BY <3>1, <3>3, HkdfMaxAssumption
      <4>2. fn' \notin Splits /\ sizes' = sizes /\ pc' = "slicing"
        BY <3>1, <3>3 DEF StartSlicing
      <4> QED
        BY <3>1, <4>1, <4>2 DEF ChecksInv, BadInput
    <3> QED
      BY <2>5, <3>2, <3>3 DEF DeriveOkm
  <2>6. CASE PushSegment
    BY <2>6 DEF PushSegment, ChecksInv, BadInput, NoNegativeSize
  <2>7. CASE Return
    BY <2>7 DEF Return, ChecksInv, BadInput, NoNegativeSize
  <2>8. CASE Finished \/ UNCHANGED vars
    BY <2>8 DEF Finished, vars, ChecksInv, AddingSums, BadInput, NoNegativeSize
  <2> QED
    BY <2>1, <2>2, <2>4, <2>5, <2>6, <2>7, <2>8 DEF Next
<1>3. ChecksInv => ThrowsExactlyOnBadInput
  BY DEF ChecksInv, ThrowsExactlyOnBadInput
<1> QED
  BY <1>1, <1>2, <1>3, TypeCorrect, PTL DEF Spec
=============================================================================
