----------------------------- MODULE MemoryProofs -----------------------------
(***************************************************************************)
(* Proofs about Memory for secrets of every length, any number of buffers  *)
(* and of pieces.  Three facts carry them: the memory a buffer shares is   *)
(* the memory it is documented to share (Placed), every allocated byte is  *)
(* in some buffer the program holds (Reachable), and every byte of a       *)
(* tiling is in one of its segments (TilingCovers), for which the least    *)
(* cut beyond the byte is taken.                                           *)
(***************************************************************************)
EXTENDS Memory, Tiling, WellFoundedInduction, TLAPS

(***************************************************************************)
(* A non-empty set of natural numbers has a least element.                 *)
(***************************************************************************)
LEMMA LeastNatural ==
  ASSUME NEW T, T \subseteq Nat, T # {}
  PROVE  \E x \in T : \A y \in T : x <= y
<1> DEFINE R == {ss \in Nat \X Nat : ss[1] < ss[2]}
<1>1. IsWellFoundedOn(R, Nat)
  BY NatLessThanWellFounded DEF OpToRel
<1>2. PICK x \in T : \A y \in T : ~ (<<y, x>> \in R)
  BY <1>1, WFMin
<1>3. ASSUME NEW y \in T PROVE x <= y
  <2>1. <<y, x>> \in Nat \X Nat /\ <<y, x>>[1] = y /\ <<y, x>>[2] = x
    OBVIOUS
  <2>2. ~ (<<y, x>>[1] < <<y, x>>[2])
    BY <1>2, <2>1
  <2> QED
    BY <2>1, <2>2
<1> QED
  BY <1>3

Segment == [off : Nat, len : Nat]

(***************************************************************************)
(* Segments lie in the buffer and leave no byte of it out.                 *)
(***************************************************************************)
LEMMA TilingCovers ==
  ASSUME NEW n \in Nat, NEW s \in Tilings(n)
  PROVE  /\ s \in Seq(Segment)
         /\ \A k \in DOMAIN s : s[k].off + s[k].len <= n
         /\ \A i \in 1..n : \E k \in DOMAIN s : Holds(s[k], i)
<1>1. PICK m \in 0..MaxPieces : \E c \in Cuts(m, n) : s = Segments(c, m)
  BY DEF Tilings
<1>2. PICK c \in Cuts(m, n) : s = Segments(c, m)
  BY <1>1
<1>3. /\ m \in Nat
      /\ c \in [0..m -> 0..n] /\ c[0] = 0 /\ c[m] = n
      /\ \A j, k \in 0..m : j <= k => c[j] <= c[k]
  BY <1>1, BoundsAssumption DEF Cuts
<1>4. ASSUME NEW k \in 1..m
      PROVE  /\ s[k] = [off |-> c[k - 1], len |-> c[k] - c[k - 1]]
             /\ s[k] \in Segment
             /\ s[k].off + s[k].len = c[k] /\ c[k] <= n
  <2>1. k - 1 \in 0..m /\ k \in 0..m /\ k - 1 <= k
    BY <1>3
  <2>2. c[k - 1] \in 0..n /\ c[k] \in 0..n /\ c[k - 1] <= c[k]
    BY <1>3, <2>1
  <2>3. s[k] = [off |-> c[k - 1], len |-> c[k] - c[k - 1]]
    BY <1>2 DEF Segments
  <2> QED
    BY <2>2, <2>3 DEF Segment
<1>5. DOMAIN s = 1..m /\ s \in Seq(Segment)
  <2>1. s = [k \in 1..m |-> s[k]]
    BY <1>2 DEF Segments
  <2>2. \A k \in 1..m : s[k] \in Segment
    BY <1>4
  <2>3. s \in Seq(Segment)
    BY <1>3, <2>1, <2>2
  <2>4. DOMAIN s = 1..m
    BY <2>1
  <2> QED
    BY <2>3, <2>4
<1>6. ASSUME NEW i \in 1..n PROVE \E k \in DOMAIN s : Holds(s[k], i)
  <2> DEFINE Beyond == {k \in 0..m : i <= c[k]}
  <2>1. m \in Beyond /\ Beyond \subseteq Nat
    BY <1>3
  <2>2. PICK k \in Beyond : \A y \in Beyond : k <= y
    BY <2>1, LeastNatural
  <2>3. k \in 1..m /\ k - 1 \in 0..m /\ k - 1 \notin Beyond
    BY <1>3, <2>2
  <2>4. c[k - 1] < i /\ i <= c[k]
    BY <1>3, <2>2, <2>3
  <2>5. s[k].off = c[k - 1] /\ s[k].off + s[k].len = c[k] /\ k \in DOMAIN s
    BY <1>4, <1>5, <2>3
  <2>6. Holds(s[k], i)
    BY <2>4, <2>5 DEF Holds
  <2> QED
    BY <2>5, <2>6
<1> QED
  BY <1>4, <1>5, <1>6

(***************************************************************************)
(* The tilings are the sequences of consecutive segments that cover the    *)
(* buffer, which is what split and deriveMultiple return by the theorem    *)
(* SegmentsAlwaysTile of SlicingProofs: nothing that the code may return   *)
(* is missing here, and nothing more is there.                             *)
(***************************************************************************)
THEOREM TilingsAreTiles ==
  ASSUME NEW n \in Nat, NEW s \in Seq(Segment)
  PROVE  s \in Tilings(n) <=> Len(s) <= MaxPieces /\ Tiles(s, n)
<1> DEFINE m == Len(s)
<1>1. /\ m \in Nat /\ DOMAIN s = 1..m /\ s = [k \in 1..m |-> s[k]] /\ MaxPieces \in Nat
      /\ \A k \in 1..m : s[k] \in Segment
      /\ s = << >> <=> m = 0
  BY BoundsAssumption
<1> HIDE DEF m
<1>2. ASSUME s \in Tilings(n)
      PROVE  m <= MaxPieces /\ Tiles(s, n)
  <2>1. PICK p \in 0..MaxPieces : \E c \in Cuts(p, n) : s = Segments(c, p)
    BY <1>2 DEF Tilings
  <2>2. PICK c \in Cuts(p, n) : s = Segments(c, p)
    BY <2>1
  <2>3. /\ c \in [0..p -> 0..n] /\ c[0] = 0 /\ c[p] = n
        /\ s = [k \in 1..p |-> [off |-> c[k - 1], len |-> c[k] - c[k - 1]]]
    BY <2>2 DEF Cuts, Segments
  <2>4. p = m
    BY <1>1, <2>1, <2>3
  <2>5. ASSUME NEW k \in 1..m
        PROVE  s[k].off = c[k - 1] /\ s[k].off + s[k].len = c[k]
    <3>1. c[k - 1] \in 0..n /\ c[k] \in 0..n
      <4>1. k - 1 \in 0..p /\ k \in 0..p
        BY <1>1, <2>4
      <4> QED
        BY <2>3, <4>1
    <3>2. s[k] = [off |-> c[k - 1], len |-> c[k] - c[k - 1]]
      BY <2>3, <2>4
    <3> QED
      BY <3>1, <3>2
  <2>6. ASSUME NEW k \in DOMAIN s
        PROVE  s[k].off = IF k = 1 THEN 0 ELSE s[k - 1].off + s[k - 1].len
    <3>1. k \in 1..m /\ (k # 1 => k - 1 \in 1..m)
      BY <1>1
    <3>2. k = 1 => c[k - 1] = 0
      BY <2>3
    <3> QED
      BY <2>5, <3>1, <3>2
  <2>7. IF s = << >> THEN n = 0 ELSE s[m].off + s[m].len = n
    <3>1. CASE s = << >>
      BY <1>1, <2>3, <2>4, <3>1
    <3>2. CASE s # << >>
      <4>1. m \in 1..m
        BY <1>1, <3>2
      <4> QED
        BY <2>3, <2>4, <2>5, <3>2, <4>1
    <3> QED
      BY <3>1, <3>2
  <2> QED
    BY <2>1, <2>4, <2>6, <2>7 DEF Tiles, m
<1>3. ASSUME m <= MaxPieces, Tiles(s, n)
      PROVE  s \in Tilings(n)
  <2> DEFINE c == [k \in 0..m |-> IF k = 0 THEN 0 ELSE s[k].off + s[k].len]
  <2>0. \A x \in Segment : x.off \in Nat /\ x.len \in Nat /\ x = [off |-> x.off, len |-> x.len]
    BY DEF Segment
  <2>1. \A k \in 1..m : s[k].off \in Nat /\ s[k].len \in Nat /\ s[k] = [off |-> s[k].off, len |-> s[k].len]
    BY <1>1, <2>0
  <2>2. c[0] = 0 /\ \A k \in 1..m : c[k] = s[k].off + s[k].len
    BY <1>1
  <2>3. c[m] = n
    BY <1>1, <1>3, <2>2 DEF Tiles
  <2> HIDE DEF c
  <2>4. ASSUME NEW k \in 1..m
        PROVE  s[k].off = c[k - 1]
    <3>1. s[k].off = IF k = 1 THEN 0 ELSE s[k - 1].off + s[k - 1].len
      BY <1>1, <1>3 DEF Tiles
    <3>2. CASE k = 1
      BY <2>2, <3>1, <3>2
    <3>3. CASE k # 1
      <4>1. k - 1 \in 1..m
        BY <1>1, <3>3
      <4> QED
        BY <2>2, <3>1, <3>3, <4>1
    <3> QED
      BY <3>2, <3>3
  <2>5. \A k \in 0..m : c[k] \in Nat
    <3>1. \A k \in 0..m : k = 0 \/ k \in 1..m
      BY <1>1
    <3>2. ASSUME NEW k \in 1..m
          PROVE  s[k].off + s[k].len \in Nat
      <4>1. s[k].off \in Nat /\ s[k].len \in Nat
        BY <2>1
      <4> QED
        BY <4>1
    <3> QED
      BY <2>2, <3>1, <3>2
  <2>6. \A j, k \in 0..m : j <= k => c[j] <= c[k]
    <3> SUFFICES ASSUME NEW j \in 0..m
                 PROVE  \A k \in 0..m : j <= k => c[j] <= c[k]
      OBVIOUS
    <3> DEFINE Below == {k \in 0..m : j <= k /\ ~(c[j] <= c[k])}
    <3> SUFFICES ASSUME Below # {}
                 PROVE  FALSE
      OBVIOUS
    <3>1. Below \subseteq Nat
      BY <1>1
    <3>2. PICK k \in Below : \A y \in Below : k <= y
      BY <3>1, LeastNatural
    <3>3. k # j
      BY <2>5, <3>2
    <3>4. k \in 1..m /\ k - 1 \in 0..m /\ j <= k - 1 /\ k - 1 \notin Below
      BY <1>1, <3>2, <3>3
    <3>5. c[j] <= c[k - 1]
      BY <3>4
    <3>6. c[k] = c[k - 1] + s[k].len
      BY <2>2, <2>4, <3>4
    <3>7. s[k].len \in Nat /\ c[k] \in Nat /\ c[k - 1] \in Nat /\ c[j] \in Nat
      BY <2>1, <2>5, <3>4
    <3>8. ~(c[j] <= c[k])
      BY <3>2
    <3> QED
      BY <3>5, <3>6, <3>7, <3>8
  <2>7. c \in Cuts(m, n)
    <3>1. \A k \in 0..m : c[k] \in 0..n
      BY <1>1, <2>3, <2>5, <2>6
    <3>2. c \in [0..m -> 0..n]
      BY <3>1 DEF c
    <3> QED
      BY <2>2, <2>3, <2>6, <3>2 DEF Cuts
  <2>8. s = Segments(c, m)
    <3>1. s = [k \in 1..m |-> s[k]]
      BY <1>1
    <3>2. ASSUME NEW k \in 1..m
          PROVE  s[k] = [off |-> c[k - 1], len |-> c[k] - c[k - 1]]
      <4>1. /\ s[k].off \in Nat /\ s[k].len \in Nat
            /\ s[k] = [off |-> s[k].off, len |-> s[k].len]
        BY <2>1
      <4>2. c[k] = s[k].off + s[k].len /\ s[k].off = c[k - 1]
        BY <2>2, <2>4
      <4>3. s[k].len = c[k] - c[k - 1]
        BY <4>1, <4>2
      <4> QED
        BY <4>1, <4>2, <4>3
    <3> QED
      BY <3>1, <3>2 DEF Segments
  <2> QED
    BY <1>1, <1>3, <2>7, <2>8 DEF Tilings
<1> QED
  BY <1>2, <1>3 DEF m

(***************************************************************************)
(* Where the elements of a concatenation are.                              *)
(***************************************************************************)
LEMMA Concatenation ==
  ASSUME NEW S, NEW s \in Seq(S), NEW t \in Seq(S)
  PROVE  /\ s \o t \in Seq(S)
         /\ Len(s) \in Nat /\ Len(t) \in Nat
         /\ Len(s \o t) = Len(s) + Len(t)
         /\ DOMAIN s = 1..Len(s) /\ DOMAIN t = 1..Len(t)
         /\ DOMAIN (s \o t) = 1..(Len(s) + Len(t))
         /\ \A k \in DOMAIN s : k \in DOMAIN (s \o t) /\ (s \o t)[k] = s[k]
         /\ \A q \in 1..Len(t) : (s \o t)[Len(s) + q] = t[q]
OBVIOUS

(***************************************************************************)
(* Appending is concatenating a sequence of one element.                   *)
(***************************************************************************)
LEMMA AppendConcatenates ==
  ASSUME NEW S, NEW s \in Seq(S), NEW e \in S
  PROVE  Append(s, e) = s \o <<e>>
OBVIOUS

(***************************************************************************)
(* A function on 1..n with values in a set is a sequence over the set.     *)
(***************************************************************************)
LEMMA FunctionIsSequence ==
  ASSUME NEW S, NEW n \in Nat, NEW f \in [1..n -> S]
  PROVE  f \in Seq(S) /\ Len(f) = n /\ DOMAIN f = 1..n
OBVIOUS

-----------------------------------------------------------------------------
(***************************************************************************)
(* The inductive invariant.                                                *)
(***************************************************************************)
Placed ==
  \A k \in DOMAIN bufs : /\ given[k].shared = bufs[k].arr
                         /\ given[k].at = bufs[k].off
                         /\ Len(given[k].bytes) = bufs[k].len

Reachable ==
  \A a \in DOMAIN heap : \A p \in DOMAIN heap[a] :
    \E k \in DOMAIN bufs : bufs[k].arr = a /\ Holds(bufs[k], p)

Inv == TypeOK /\ Placed /\ Reachable /\ ContentsAsDocumented

(***************************************************************************)
(* ContentsAsDocumented in terms of the memory.                            *)
(***************************************************************************)
WipedAt(a, p) == \E w \in wiped : bufs[w].arr = a /\ Holds(bufs[w], p)

HeapAsDocumented ==
  \A k \in DOMAIN bufs : \A i \in 1..bufs[k].len :
    heap[bufs[k].arr][bufs[k].off + i] =
      IF WipedAt(bufs[k].arr, bufs[k].off + i) THEN ZeroByte ELSE given[k].bytes[i]

LEMMA SameThing ==
  TypeOK /\ Placed => (ContentsAsDocumented <=> HeapAsDocumented)
<1> SUFFICES ASSUME TypeOK, Placed
             PROVE  ContentsAsDocumented <=> HeapAsDocumented
  OBVIOUS
<1>1. ASSUME NEW k \in DOMAIN bufs, NEW i \in 1..bufs[k].len
      PROVE  /\ (\E w \in wiped : WipedThrough(w, k, i)) <=> WipedAt(bufs[k].arr, bufs[k].off + i)
             /\ Contents(k)[i] = heap[bufs[k].arr][bufs[k].off + i]
  <2>1. \A w \in wiped : WipedThrough(w, k, i)
          <=> (bufs[w].arr = bufs[k].arr /\ Holds(bufs[w], bufs[k].off + i))
    <3> SUFFICES ASSUME NEW w \in wiped
                 PROVE  WipedThrough(w, k, i)
                          <=> (bufs[w].arr = bufs[k].arr /\ Holds(bufs[w], bufs[k].off + i))
      OBVIOUS
    <3>1. w \in DOMAIN bufs /\ bufs[w] \in Stretch /\ bufs[k] \in Stretch
      BY DEF TypeOK
    <3>2. /\ given[w].shared = bufs[w].arr /\ given[w].at = bufs[w].off
          /\ given[k].shared = bufs[k].arr /\ given[k].at = bufs[k].off
      BY <3>1 DEF Placed
    <3> QED
      BY <3>1, <3>2 DEF WipedThrough, Holds, Stretch
  <2> QED
    BY <2>1 DEF WipedAt, Contents
<1> QED
  BY <1>1 DEF ContentsAsDocumented, HeapAsDocumented

(***************************************************************************)
(* Buffers are returned, at most one allocation is made for them: what a   *)
(* call has to see to.                                                     *)
(***************************************************************************)
LEMMA ReturningKeepsInv ==
  ASSUME Inv,
         NEW H \in Seq(Seq(Byte)), NEW B \in Seq(Stretch), NEW G \in Seq(Origin),
         heap' = heap \o H, bufs' = bufs \o B, given' = given \o G, wiped' = wiped,
         Len(G) = Len(B),
         \A q \in 1..Len(B) :
           /\ B[q].arr \in DOMAIN heap'
           /\ B[q].off + B[q].len <= Len(heap'[B[q].arr])
           /\ G[q].shared = B[q].arr /\ G[q].at = B[q].off /\ Len(G[q].bytes) = B[q].len
           /\ \A i \in 1..B[q].len :
                /\ heap'[B[q].arr][B[q].off + i] = G[q].bytes[i]
                /\ WipedAt(B[q].arr, B[q].off + i) => G[q].bytes[i] = ZeroByte,
         \A a \in 1..Len(H) : \A p \in DOMAIN H[a] :
           \E q \in 1..Len(B) : B[q].arr = Len(heap) + a /\ Holds(B[q], p)
  PROVE  Inv'
<1>0. TypeOK /\ Placed /\ Reachable /\ HeapAsDocumented
  BY SameThing DEF Inv
<1>1. /\ heap \in Seq(Seq(Byte)) /\ heap' \in Seq(Seq(Byte))
      /\ DOMAIN heap' = 1..(Len(heap) + Len(H))
      /\ \A a \in DOMAIN heap : a \in DOMAIN heap' /\ heap'[a] = heap[a]
      /\ \A a \in 1..Len(H) : heap'[Len(heap) + a] = H[a]
  <2>1. heap \in Seq(Seq(Byte))
    BY <1>0 DEF TypeOK
  <2> QED
    BY <2>1, Concatenation
<1>2. /\ bufs \in Seq(Stretch) /\ bufs' \in Seq(Stretch)
      /\ DOMAIN bufs' = 1..(Len(bufs) + Len(B)) /\ Len(bufs') = Len(bufs) + Len(B)
      /\ \A k \in DOMAIN bufs : k \in DOMAIN bufs' /\ bufs'[k] = bufs[k]
      /\ \A q \in 1..Len(B) : bufs'[Len(bufs) + q] = B[q]
  <2>1. bufs \in Seq(Stretch)
    BY <1>0 DEF TypeOK
  <2> QED
    BY <2>1, Concatenation
<1>3. /\ given' \in Seq(Origin) /\ Len(given') = Len(bufs')
      /\ \A k \in DOMAIN bufs : given'[k] = given[k]
      /\ \A q \in 1..Len(B) : given'[Len(bufs) + q] = G[q]
  <2>1. given \in Seq(Origin) /\ Len(given) = Len(bufs) /\ DOMAIN bufs = 1..Len(bufs)
    BY <1>0 DEF TypeOK
  <2>2. given \in Seq(Origin) /\ given' = given \o G
    BY <2>1
  <2>3. /\ given \o G \in Seq(Origin)
        /\ Len(given \o G) = Len(given) + Len(G)
    <3>1. G \in Seq(Origin)
      OBVIOUS
    <3>2. given \o G \in Seq(Origin)
      BY <2>2, <3>1
    <3>3. ASSUME NEW S, NEW s \in Seq(S), NEW t \in Seq(S) PROVE Len(s \o t) = Len(s) + Len(t)
      OBVIOUS
    <3>4. given \in Seq(Origin)
      BY <2>1
    <3> QED
      BY <3>1, <3>2, <3>3, <3>4
  <2>4. \A k \in DOMAIN given : (given \o G)[k] = given[k]
    BY <2>2, Concatenation
  <2>5. \A q \in 1..Len(G) : (given \o G)[Len(given) + q] = G[q]
    BY <2>2, Concatenation
  <2>6. DOMAIN given = 1..Len(given)
    BY <2>2
  <2> QED
    BY <1>2, <2>1, <2>2, <2>3, <2>4, <2>5, <2>6
<1>4. ASSUME NEW k \in DOMAIN bufs' 
      PROVE  k \in DOMAIN bufs \/ \E q \in 1..Len(B) : k = Len(bufs) + q
  <2>1. k \in 1..(Len(bufs) + Len(B)) /\ Len(bufs) \in Nat /\ Len(B) \in Nat
    BY <1>2
  <2>2. CASE k <= Len(bufs)
    BY <1>2, <2>1, <2>2
  <2>3. CASE k > Len(bufs)
    <3>1. k - Len(bufs) \in 1..Len(B) /\ k = Len(bufs) + (k - Len(bufs))
      BY <2>1, <2>3
    <3> QED
      BY <3>1
  <2> QED
    BY <2>1, <2>2, <2>3
<1>5. TypeOK'
  <2>1. ASSUME NEW k \in DOMAIN bufs'
        PROVE  /\ bufs'[k].arr \in DOMAIN heap'
               /\ bufs'[k].off + bufs'[k].len <= Len(heap'[bufs'[k].arr])
    <3>1. CASE k \in DOMAIN bufs
      BY <1>0, <1>1, <1>2, <3>1 DEF TypeOK
    <3>2. CASE \E q \in 1..Len(B) : k = Len(bufs) + q
      BY <1>2, <3>2
    <3> QED
      BY <1>4, <3>1, <3>2
  <2>2. wiped' \subseteq DOMAIN bufs'
    BY <1>0, <1>2 DEF TypeOK
  <2> QED
    BY <1>1, <1>2, <1>3, <2>1, <2>2 DEF TypeOK
<1>6. Placed'
  <2> SUFFICES ASSUME NEW k \in DOMAIN bufs'
               PROVE  /\ given'[k].shared = bufs'[k].arr /\ given'[k].at = bufs'[k].off
                      /\ Len(given'[k].bytes) = bufs'[k].len
    BY DEF Placed
  <2>1. CASE k \in DOMAIN bufs
    <3>1. bufs'[k] = bufs[k] /\ given'[k] = given[k]
      BY <1>2, <1>3, <2>1
    <3>2. /\ given[k].shared = bufs[k].arr /\ given[k].at = bufs[k].off
          /\ Len(given[k].bytes) = bufs[k].len
      BY <1>0, <2>1 DEF Placed
    <3> QED
      BY <3>1, <3>2
  <2>2. CASE \E q \in 1..Len(B) : k = Len(bufs) + q
    <3>1. PICK q \in 1..Len(B) : k = Len(bufs) + q
      BY <2>2
    <3>2. bufs'[k] = B[q] /\ given'[k] = G[q]
      BY <1>2, <1>3, <3>1
    <3> QED
      BY <3>2
  <2> QED
    BY <1>4, <2>1, <2>2
<1>7. Reachable'
  <2> SUFFICES ASSUME NEW a \in DOMAIN heap', NEW p \in DOMAIN heap'[a]
               PROVE  \E k \in DOMAIN bufs' : bufs'[k].arr = a /\ Holds(bufs'[k], p)
    BY DEF Reachable
  <2>1. CASE a \in DOMAIN heap
    <3>1. PICK k \in DOMAIN bufs : bufs[k].arr = a /\ Holds(bufs[k], p)
      BY <1>0, <1>1, <2>1 DEF Reachable
    <3> QED
      BY <1>2, <3>1
  <2>2. CASE a \notin DOMAIN heap
    <3>1. a - Len(heap) \in 1..Len(H) /\ a = Len(heap) + (a - Len(heap))
      BY <1>1, <2>2
    <3>2. p \in DOMAIN H[a - Len(heap)]
      BY <1>1, <3>1
    <3>3. PICK q \in 1..Len(B) : B[q].arr = a /\ Holds(B[q], p)
      BY <3>1, <3>2
    <3>4. Len(bufs) + q \in DOMAIN bufs' /\ bufs'[Len(bufs) + q] = B[q]
      BY <1>2
    <3> QED
      BY <3>3, <3>4
  <2> QED
    BY <2>1, <2>2
<1>8. ASSUME NEW a, NEW p PROVE WipedAt(a, p)' <=> WipedAt(a, p)
  BY <1>0, <1>2 DEF WipedAt, TypeOK
<1>9. HeapAsDocumented'
  <2> SUFFICES ASSUME NEW k \in DOMAIN bufs', NEW i \in 1..bufs'[k].len
               PROVE  heap'[bufs'[k].arr][bufs'[k].off + i] =
                        IF WipedAt(bufs'[k].arr, bufs'[k].off + i)
                          THEN ZeroByte ELSE given'[k].bytes[i]
    BY <1>8 DEF HeapAsDocumented
  <2>1. CASE k \in DOMAIN bufs
    <3>1. bufs'[k] = bufs[k] /\ given'[k] = given[k] /\ heap'[bufs[k].arr] = heap[bufs[k].arr]
      BY <1>0, <1>1, <1>2, <1>3, <2>1 DEF TypeOK
    <3> QED
      BY <1>0, <2>1, <3>1 DEF HeapAsDocumented
  <2>2. CASE \E q \in 1..Len(B) : k = Len(bufs) + q
    <3>1. PICK q \in 1..Len(B) : k = Len(bufs) + q
      BY <2>2
    <3>2. bufs'[k] = B[q] /\ given'[k] = G[q] /\ i \in 1..B[q].len
      BY <1>2, <1>3, <3>1
    <3> QED
      BY <3>2
  <2> QED
    BY <1>4, <2>1, <2>2
<1>10. ContentsAsDocumented'
  <2>1. (TypeOK /\ Placed => (ContentsAsDocumented <=> HeapAsDocumented))'
    BY SameThing, PTL
  <2> QED
    BY <1>5, <1>6, <1>9, <2>1
<1> QED
  BY <1>5, <1>6, <1>7, <1>10 DEF Inv
-----------------------------------------------------------------------------
(***************************************************************************)
(* One buffer with an allocation of its own.                               *)
(***************************************************************************)
LEMMA FreshKeepsInv ==
  ASSUME Inv, NEW bytes \in Seq(Byte), ReturnFresh(bytes)
  PROVE  Inv'
<1>1. TypeOK /\ heap \in Seq(Seq(Byte)) /\ bufs \in Seq(Stretch) /\ given \in Seq(Origin)
  BY DEF Inv, TypeOK
<1>2. PICK b : b = [arr |-> Len(heap) + 1, off |-> 0, len |-> Len(bytes)]
  OBVIOUS
<1>3. PICK g : g = [bytes |-> bytes, shared |-> Len(heap) + 1, at |-> 0]
  OBVIOUS
<1>4. b \in Stretch /\ g \in Origin
  BY <1>1, <1>2, <1>3 DEF Stretch, Origin
<1>5. PICK H : H = <<bytes>>
  OBVIOUS
<1>6. PICK B : B = <<b>>
  OBVIOUS
<1>7. PICK G : G = <<g>>
  OBVIOUS
<1>8. /\ H \in Seq(Seq(Byte)) /\ Len(H) = 1 /\ H[1] = bytes
      /\ B \in Seq(Stretch) /\ Len(B) = 1 /\ B[1] = b
      /\ G \in Seq(Origin) /\ Len(G) = 1 /\ G[1] = g
  <2>1. H \in Seq(Seq(Byte)) /\ Len(H) = 1 /\ H[1] = bytes
    BY <1>5
  <2>2. B \in Seq(Stretch) /\ Len(B) = 1 /\ B[1] = b
    BY <1>4, <1>6
  <2>3. G \in Seq(Origin) /\ Len(G) = 1 /\ G[1] = g
    BY <1>4, <1>7
  <2> QED
    BY <2>1, <2>2, <2>3
<1>9. heap' = heap \o H /\ bufs' = bufs \o B /\ given' = given \o G /\ wiped' = wiped
  <2>1. heap' = Append(heap, bytes) /\ bufs' = Append(bufs, b) /\ given' = Append(given, g)
        /\ wiped' = wiped
    BY <1>2, <1>3 DEF ReturnFresh
  <2>2. heap' = heap \o H
    BY <1>1, <1>5, <2>1, AppendConcatenates
  <2>3. bufs' = bufs \o B
    BY <1>1, <1>4, <1>6, <2>1, AppendConcatenates
  <2>4. given' = given \o G
    BY <1>1, <1>4, <1>7, <2>1, AppendConcatenates
  <2> QED
    BY <2>1, <2>2, <2>3, <2>4
<1>10. Len(heap) + 1 \in DOMAIN heap' /\ heap'[Len(heap) + 1] = bytes
  BY <1>1 DEF ReturnFresh
<1>11. ASSUME NEW p PROVE ~ WipedAt(Len(heap) + 1, p)
  BY <1>1 DEF WipedAt, TypeOK
<1>12. ASSUME NEW q \in 1..Len(B)
       PROVE  /\ B[q].arr \in DOMAIN heap'
              /\ B[q].off + B[q].len <= Len(heap'[B[q].arr])
              /\ G[q].shared = B[q].arr /\ G[q].at = B[q].off
              /\ Len(G[q].bytes) = B[q].len
              /\ \A i \in 1..B[q].len :
                   /\ heap'[B[q].arr][B[q].off + i] = G[q].bytes[i]
                   /\ WipedAt(B[q].arr, B[q].off + i) => G[q].bytes[i] = ZeroByte
  <2>1. B[q] = b /\ G[q] = g
    BY <1>8
  <2> QED
    BY <1>2, <1>3, <1>10, <1>11, <2>1
<1>13. ASSUME NEW a \in 1..Len(H), NEW p \in DOMAIN H[a]
       PROVE  \E q \in 1..Len(B) : B[q].arr = Len(heap) + a /\ Holds(B[q], p)
  BY <1>2, <1>8 DEF Holds
<1> QED
  BY <1>8, <1>9, <1>12, <1>13, ReturningKeepsInv

(***************************************************************************)
(* What a buffer holds is a sequence of bytes.                             *)
(***************************************************************************)
LEMMA ContentsAreBytes ==
  ASSUME TypeOK, NEW k \in DOMAIN bufs
  PROVE  Contents(k) \in Seq(Byte) /\ Len(Contents(k)) = bufs[k].len /\ bufs[k].len \in Nat
<1>1. /\ bufs[k] \in Stretch /\ bufs[k].arr \in DOMAIN heap
      /\ heap[bufs[k].arr] \in Seq(Byte)
      /\ bufs[k].off + bufs[k].len <= Len(heap[bufs[k].arr])
  BY DEF TypeOK
<1>2. bufs[k].len \in Nat /\ bufs[k].off \in Nat
  BY <1>1 DEF Stretch
<1>3. \A i \in 1..bufs[k].len : heap[bufs[k].arr][bufs[k].off + i] \in Byte
  BY <1>1, <1>2
<1> QED
  BY <1>2, <1>3 DEF Contents

(***************************************************************************)
(* A new secret is a sequence of bytes.                                    *)
(***************************************************************************)
LEMMA SecretIsBytes ==
  ASSUME TypeOK, NEW n \in Nat
  PROVE  Secret(n) \in Seq(Byte) /\ Len(Secret(n)) = n
<1>1. Len(heap) + 1 \in Nat
  BY DEF TypeOK
<1>2. \A i \in 1..n : {<<Len(heap) + 1, i>>} \in Byte
  BY <1>1 DEF Byte
<1> QED
  BY <1>2 DEF Secret

(***************************************************************************)
(* Segments of an allocation that are returned as views, and what is given *)
(* with them: a buffer and an origin for each segment, at the same place.  *)
(***************************************************************************)
AreViews(B, G, segs, arr, off, bytes) ==
  /\ B \in Seq(Stretch) /\ G \in Seq(Origin)
  /\ Len(B) = Len(segs) /\ Len(G) = Len(segs) /\ DOMAIN segs = 1..Len(segs)
  /\ \A q \in 1..Len(segs) :
       /\ segs[q].off \in Nat /\ segs[q].len \in Nat
       /\ B[q].arr = arr /\ B[q].off = off + segs[q].off /\ B[q].len = segs[q].len
       /\ G[q].shared = arr /\ G[q].at = off + segs[q].off
       /\ Len(G[q].bytes) = segs[q].len
       /\ \A i \in 1..segs[q].len : G[q].bytes[i] = bytes[segs[q].off + i]

LEMMA ViewsAreStretches ==
  ASSUME NEW segs \in Seq(Segment), NEW bytes \in Seq(Byte),
         NEW arr \in Nat, NEW off \in Nat,
         \A k \in DOMAIN segs : segs[k].off + segs[k].len <= Len(bytes)
  PROVE  AreViews(Views(segs, arr, off), Origins(segs, arr, off, bytes), segs, arr, off, bytes)
<1> DEFINE piece(q) == [i \in 1..segs[q].len |-> bytes[segs[q].off + i]]
           stretch(q) == [arr |-> arr, off |-> off + segs[q].off, len |-> segs[q].len]
           origin(q) == [bytes |-> piece(q), shared |-> arr, at |-> off + segs[q].off]
<1>1. Len(segs) \in Nat /\ DOMAIN segs = 1..Len(segs)
  OBVIOUS
<1>2. ASSUME NEW q \in 1..Len(segs)
      PROVE  segs[q].off \in Nat /\ segs[q].len \in Nat
  <2>1. segs[q] \in Segment
    OBVIOUS
  <2> QED
    BY <2>1 DEF Segment
<1>3. ASSUME NEW q \in 1..Len(segs)
      PROVE  piece(q) \in Seq(Byte) /\ Len(piece(q)) = segs[q].len
  <2>1. ASSUME NEW i \in 1..segs[q].len PROVE bytes[segs[q].off + i] \in Byte
    <3>1. segs[q].off + segs[q].len <= Len(bytes) /\ Len(bytes) \in Nat
      BY <1>1
    <3>2. segs[q].off + i \in 1..Len(bytes)
      BY <1>2, <3>1
    <3> QED
      BY <3>2
  <2>2. piece(q) \in [1..segs[q].len -> Byte]
    BY <2>1
  <2> QED
    BY <1>2, <2>2, FunctionIsSequence
<1>4. ASSUME NEW q \in 1..Len(segs)
      PROVE  stretch(q) \in Stretch /\ origin(q) \in Origin
  <2>1. off + segs[q].off \in Nat /\ segs[q].len \in Nat
    BY <1>2
  <2> HIDE DEF piece
  <2> QED
    BY <1>3, <2>1 DEF Stretch, Origin
<1>5. /\ Views(segs, arr, off) = [q \in 1..Len(segs) |-> stretch(q)]
      /\ Origins(segs, arr, off, bytes) = [q \in 1..Len(segs) |-> origin(q)]
  BY <1>1 DEF Views, Origins
<1>6. ASSUME NEW q \in 1..Len(segs)
      PROVE  /\ stretch(q).arr = arr /\ stretch(q).off = off + segs[q].off
             /\ stretch(q).len = segs[q].len
             /\ origin(q).shared = arr /\ origin(q).at = off + segs[q].off
             /\ origin(q).bytes = piece(q)
  OBVIOUS
<1>7. ASSUME NEW q \in 1..Len(segs), NEW i \in 1..segs[q].len
      PROVE  piece(q)[i] = bytes[segs[q].off + i]
  OBVIOUS
<1> HIDE DEF piece, stretch, origin
<1>8. /\ Views(segs, arr, off) \in [1..Len(segs) -> Stretch]
      /\ Origins(segs, arr, off, bytes) \in [1..Len(segs) -> Origin]
  BY <1>4, <1>5
<1>9. /\ Views(segs, arr, off) \in Seq(Stretch) /\ Len(Views(segs, arr, off)) = Len(segs)
      /\ Origins(segs, arr, off, bytes) \in Seq(Origin)
      /\ Len(Origins(segs, arr, off, bytes)) = Len(segs)
  BY <1>1, <1>8, FunctionIsSequence
<1>10. ASSUME NEW q \in 1..Len(segs)
       PROVE  Views(segs, arr, off)[q] = stretch(q) /\ Origins(segs, arr, off, bytes)[q] = origin(q)
  BY <1>5
<1> QED
  BY <1>1, <1>2, <1>3, <1>6, <1>7, <1>9, <1>10 DEF AreViews

-----------------------------------------------------------------------------
(***************************************************************************)
(* The actions.                                                            *)
(***************************************************************************)
LEMMA NewSecretKeepsInv ==
  ASSUME Inv, NewSecret
  PROVE  Inv'
<1>1. PICK n \in Lengths : ReturnFresh(Secret(n))
  BY DEF NewSecret
<1>2. Secret(n) \in Seq(Byte)
  BY LengthsAssumption, SecretIsBytes DEF Inv
<1> QED
  BY <1>1, <1>2, FreshKeepsInv

LEMMA ConcatKeepsInv ==
  ASSUME Inv, concat
  PROVE  Inv'
<1>1. CASE \E j \in DOMAIN bufs : ReturnFresh(Contents(j))
  BY <1>1, ContentsAreBytes, FreshKeepsInv DEF Inv
<1>2. CASE \E j, k \in DOMAIN bufs : ReturnFresh(Contents(j) \o Contents(k))
  <2>1. PICK j \in DOMAIN bufs, k \in DOMAIN bufs : ReturnFresh(Contents(j) \o Contents(k))
    BY <1>2
  <2>2. Contents(j) \in Seq(Byte) /\ Contents(k) \in Seq(Byte)
    BY ContentsAreBytes DEF Inv
  <2>3. Contents(j) \o Contents(k) \in Seq(Byte)
    BY <2>2
  <2> QED
    BY <2>1, <2>3, FreshKeepsInv
<1> QED
  BY <1>1, <1>2 DEF concat

LEMMA XorKeepsInv ==
  ASSUME Inv, xor
  PROVE  Inv'
<1>1. PICK j \in DOMAIN bufs, k \in DOMAIN bufs :
        /\ bufs[j].len = bufs[k].len
        /\ ReturnFresh([i \in 1..bufs[j].len |-> XorByte(Contents(j)[i], Contents(k)[i])])
  BY DEF xor
<1>2. /\ Contents(j) \in Seq(Byte) /\ Len(Contents(j)) = bufs[j].len
      /\ Contents(k) \in Seq(Byte) /\ Len(Contents(k)) = bufs[j].len
      /\ bufs[j].len \in Nat
  BY <1>1, ContentsAreBytes DEF Inv
<1>3. ASSUME NEW i \in 1..bufs[j].len
      PROVE  XorByte(Contents(j)[i], Contents(k)[i]) \in Byte
  <2>1. Contents(j)[i] \in Byte /\ Contents(k)[i] \in Byte
    BY <1>2
  <2> QED
    BY <2>1 DEF XorByte, Byte
<1>4. [i \in 1..bufs[j].len |-> XorByte(Contents(j)[i], Contents(k)[i])] \in [1..bufs[j].len -> Byte]
  BY <1>3
<1>5. [i \in 1..bufs[j].len |-> XorByte(Contents(j)[i], Contents(k)[i])] \in Seq(Byte)
  BY <1>2, <1>4, FunctionIsSequence
<1> QED
  BY <1>1, <1>5, FreshKeepsInv

(***************************************************************************)
(* A piece of a view is a view of the same allocation.                     *)
(***************************************************************************)
LEMMA SplitKeepsInv ==
  ASSUME Inv, split
  PROVE  Inv'
<1>1. PICK j \in DOMAIN bufs : \E segs \in Tilings(bufs[j].len) :
        /\ ReturnViews(segs, bufs[j].arr, bufs[j].off, given[j].shared, given[j].at, Contents(j))
        /\ UNCHANGED heap
  BY DEF split
<1>2. PICK segs \in Tilings(bufs[j].len) :
        /\ ReturnViews(segs, bufs[j].arr, bufs[j].off, given[j].shared, given[j].at, Contents(j))
        /\ UNCHANGED heap
  BY <1>1
<1>3. TypeOK /\ Placed /\ HeapAsDocumented
  BY SameThing DEF Inv
<1>4. /\ bufs[j].arr \in Nat /\ bufs[j].off \in Nat /\ bufs[j].len \in Nat
      /\ bufs[j].arr \in DOMAIN heap /\ Len(heap[bufs[j].arr]) \in Nat
      /\ bufs[j].off + bufs[j].len <= Len(heap[bufs[j].arr])
      /\ given[j].shared = bufs[j].arr /\ given[j].at = bufs[j].off
  <2>1. /\ bufs[j] \in Stretch /\ bufs[j].arr \in DOMAIN heap /\ heap \in Seq(Seq(Byte))
        /\ bufs[j].off + bufs[j].len <= Len(heap[bufs[j].arr])
    BY <1>3 DEF TypeOK
  <2>2. bufs[j].arr \in Nat /\ bufs[j].off \in Nat /\ bufs[j].len \in Nat
    BY <2>1 DEF Stretch
  <2>3. heap[bufs[j].arr] \in Seq(Byte)
    BY <2>1
  <2>4. Len(heap[bufs[j].arr]) \in Nat
    BY <2>3
  <2> QED
    BY <1>3, <2>1, <2>2, <2>4 DEF Placed
<1>5. Contents(j) \in Seq(Byte) /\ Len(Contents(j)) = bufs[j].len
  BY <1>3, ContentsAreBytes
<1>6. /\ segs \in Seq(Segment)
      /\ \A k \in DOMAIN segs : segs[k].off + segs[k].len <= Len(Contents(j))
  BY <1>4, <1>5, TilingCovers
<1>7. PICK B : B = Views(segs, bufs[j].arr, bufs[j].off)
  OBVIOUS
<1>8. PICK G : G = Origins(segs, bufs[j].arr, bufs[j].off, Contents(j))
  OBVIOUS
<1>9. AreViews(B, G, segs, bufs[j].arr, bufs[j].off, Contents(j))
  BY <1>4, <1>5, <1>6, <1>7, <1>8, ViewsAreStretches
<1>10. bufs' = bufs \o B /\ given' = given \o G /\ wiped' = wiped /\ heap' = heap
  BY <1>2, <1>4, <1>7, <1>8 DEF ReturnViews
<1>11. PICK H : H = << >>
  OBVIOUS
<1>12. heap' = heap \o H /\ H \in Seq(Seq(Byte)) /\ Len(H) = 0
  BY <1>3, <1>10, <1>11 DEF TypeOK
<1>13. ASSUME NEW q \in 1..Len(B)
       PROVE  /\ B[q].arr \in DOMAIN heap'
              /\ B[q].off + B[q].len <= Len(heap'[B[q].arr])
              /\ G[q].shared = B[q].arr /\ G[q].at = B[q].off /\ Len(G[q].bytes) = B[q].len
              /\ \A i \in 1..B[q].len :
                   /\ heap'[B[q].arr][B[q].off + i] = G[q].bytes[i]
                   /\ WipedAt(B[q].arr, B[q].off + i) => G[q].bytes[i] = ZeroByte
  <2>1. /\ segs[q].off \in Nat /\ segs[q].len \in Nat
        /\ B[q].arr = bufs[j].arr /\ B[q].off = bufs[j].off + segs[q].off /\ B[q].len = segs[q].len
        /\ G[q].shared = bufs[j].arr /\ G[q].at = bufs[j].off + segs[q].off
        /\ Len(G[q].bytes) = segs[q].len
        /\ \A i \in 1..segs[q].len : G[q].bytes[i] = Contents(j)[segs[q].off + i]
        /\ segs[q].off + segs[q].len <= bufs[j].len
    BY <1>5, <1>6, <1>9 DEF AreViews
  <2>2. B[q].off + B[q].len <= Len(heap[bufs[j].arr])
    BY <1>4, <2>1
  <2>3. ASSUME NEW i \in 1..B[q].len
        PROVE  /\ heap[bufs[j].arr][B[q].off + i] = G[q].bytes[i]
               /\ WipedAt(bufs[j].arr, B[q].off + i) => G[q].bytes[i] = ZeroByte
    <3>1. i \in 1..segs[q].len /\ segs[q].off + i \in 1..bufs[j].len
      <4>1. /\ segs[q].off \in Nat /\ segs[q].len \in Nat /\ B[q].len = segs[q].len
            /\ segs[q].off + segs[q].len <= bufs[j].len /\ bufs[j].len \in Nat
        BY <1>4, <2>1
      <4> QED
        BY <4>1
    <3>2. bufs[j].off + (segs[q].off + i) = B[q].off + i
      BY <1>4, <2>1
    <3>3. G[q].bytes[i] = heap[bufs[j].arr][B[q].off + i]
      BY <2>1, <3>1, <3>2 DEF Contents
    <3>4. WipedAt(bufs[j].arr, B[q].off + i) => heap[bufs[j].arr][B[q].off + i] = ZeroByte
      BY <1>3, <3>1, <3>2 DEF HeapAsDocumented
    <3> QED
      BY <3>3, <3>4
  <2> QED
    BY <1>4, <1>10, <2>1, <2>2, <2>3
<1>14. \A a \in 1..Len(H) : \A p \in DOMAIN H[a] :
         \E q \in 1..Len(B) : B[q].arr = Len(heap) + a /\ Holds(B[q], p)
  BY <1>12
<1> QED
  <2>1. bufs' = bufs \o B /\ given' = given \o G /\ wiped' = wiped /\ Len(G) = Len(B)
        /\ B \in Seq(Stretch) /\ G \in Seq(Origin)
    BY <1>9, <1>10 DEF AreViews
  <2> QED
    BY <1>12, <1>13, <1>14, <2>1, ReturningKeepsInv

(***************************************************************************)
(* The pieces of an OKM cover it, so that it is reachable although it is   *)
(* not handed out.                                                         *)
(***************************************************************************)
LEMMA DeriveMultipleKeepsInv ==
  ASSUME Inv, deriveMultiple
  PROVE  Inv'
<1> DEFINE okm == Len(heap) + 1
<1>1. PICK n \in Lengths \ {0} : \E segs \in Tilings(n) :
        /\ heap' = Append(heap, Secret(n))
        /\ ReturnViews(segs, okm, 0, okm, 0, Secret(n))
  BY DEF deriveMultiple
<1>2. PICK segs \in Tilings(n) :
        /\ heap' = Append(heap, Secret(n))
        /\ ReturnViews(segs, okm, 0, okm, 0, Secret(n))
  BY <1>1
<1>3. /\ TypeOK /\ heap \in Seq(Seq(Byte)) /\ bufs \in Seq(Stretch) /\ okm \in Nat
      /\ n \in Nat /\ Len(heap) \in Nat
  BY LengthsAssumption DEF Inv, TypeOK
<1>4. Secret(n) \in Seq(Byte) /\ Len(Secret(n)) = n
  BY <1>3, SecretIsBytes
<1>5. /\ segs \in Seq(Segment)
      /\ \A k \in DOMAIN segs : segs[k].off + segs[k].len <= n
      /\ \A i \in 1..n : \E k \in DOMAIN segs : Holds(segs[k], i)
  BY <1>3, TilingCovers
<1>6. PICK B : B = Views(segs, okm, 0)
  OBVIOUS
<1>7. PICK G : G = Origins(segs, okm, 0, Secret(n))
  OBVIOUS
<1> HIDE DEF okm
<1>8. AreViews(B, G, segs, okm, 0, Secret(n))
  BY <1>3, <1>4, <1>5, <1>6, <1>7, ViewsAreStretches
<1>9. PICK H : H = <<Secret(n)>>
  OBVIOUS
<1>10. H \in Seq(Seq(Byte)) /\ Len(H) = 1 /\ H[1] = Secret(n)
  BY <1>4, <1>9
<1>11. heap' = heap \o H
  <2>1. heap' = Append(heap, Secret(n))
    BY <1>2
  <2> QED
    BY <1>3, <1>4, <1>9, <2>1, AppendConcatenates
<1>12. /\ bufs' = bufs \o B /\ given' = given \o G /\ wiped' = wiped
       /\ B \in Seq(Stretch) /\ G \in Seq(Origin) /\ Len(G) = Len(B)
  BY <1>2, <1>6, <1>7, <1>8 DEF ReturnViews, AreViews
<1>13. okm \in DOMAIN heap' /\ heap'[okm] = Secret(n)
  <2>1. heap' = Append(heap, Secret(n))
    BY <1>2
  <2> QED
    BY <1>3, <1>4, <2>1 DEF okm
<1>14. ASSUME NEW p PROVE ~ WipedAt(okm, p)
  BY <1>3 DEF WipedAt, TypeOK, okm
<1>15. ASSUME NEW q \in 1..Len(B)
       PROVE  /\ q \in DOMAIN segs /\ segs[q].off \in Nat /\ segs[q].len \in Nat
              /\ B[q].arr = okm /\ B[q].off = segs[q].off /\ B[q].len = segs[q].len
              /\ segs[q].off + segs[q].len <= n
              /\ G[q].shared = okm /\ G[q].at = segs[q].off
              /\ Len(G[q].bytes) = segs[q].len
              /\ \A i \in 1..segs[q].len : G[q].bytes[i] = Secret(n)[segs[q].off + i]
  <2>1. q \in DOMAIN segs
    BY <1>8 DEF AreViews
  <2>2. segs[q].off \in Nat /\ segs[q].len \in Nat
    BY <1>8 DEF AreViews
  <2>3. segs[q].off + segs[q].len <= n
    BY <1>5, <2>1
  <2>4. /\ B[q].arr = okm /\ B[q].off = segs[q].off /\ B[q].len = segs[q].len
        /\ G[q].shared = okm /\ G[q].at = segs[q].off
        /\ Len(G[q].bytes) = segs[q].len
    BY <1>8, <2>2 DEF AreViews
  <2>5. \A i \in 1..segs[q].len : G[q].bytes[i] = Secret(n)[segs[q].off + i]
    BY <1>8 DEF AreViews
  <2> QED
    BY <2>1, <2>2, <2>3, <2>4, <2>5
<1>16. ASSUME NEW q \in 1..Len(B)
       PROVE  /\ B[q].arr \in DOMAIN heap'
              /\ B[q].off + B[q].len <= Len(heap'[B[q].arr])
              /\ G[q].shared = B[q].arr /\ G[q].at = B[q].off /\ Len(G[q].bytes) = B[q].len
              /\ \A i \in 1..B[q].len :
                   /\ heap'[B[q].arr][B[q].off + i] = G[q].bytes[i]
                   /\ WipedAt(B[q].arr, B[q].off + i) => G[q].bytes[i] = ZeroByte
  <2>1. /\ segs[q].off \in Nat /\ segs[q].len \in Nat /\ segs[q].off + segs[q].len <= n
        /\ B[q].arr = okm /\ B[q].off = segs[q].off /\ B[q].len = segs[q].len
        /\ G[q].shared = okm /\ G[q].at = segs[q].off /\ Len(G[q].bytes) = segs[q].len
    BY <1>15
  <2>2. \A i \in 1..segs[q].len : G[q].bytes[i] = Secret(n)[segs[q].off + i]
    BY <1>15
  <2>3. B[q].off + B[q].len <= Len(heap'[B[q].arr])
    BY <1>4, <1>13, <2>1
  <2>4. \A i \in 1..B[q].len : heap'[B[q].arr][B[q].off + i] = G[q].bytes[i]
    BY <1>13, <2>1, <2>2
  <2>5. \A i \in 1..B[q].len : ~ WipedAt(B[q].arr, B[q].off + i)
    BY <1>14, <2>1
  <2> QED
    BY <1>13, <2>1, <2>3, <2>4, <2>5
<1>17. ASSUME NEW a \in 1..Len(H), NEW p \in DOMAIN H[a]
       PROVE  \E q \in 1..Len(B) : B[q].arr = Len(heap) + a /\ Holds(B[q], p)
  <2>1. a = 1 /\ p \in 1..n
    BY <1>3, <1>4, <1>10
  <2>2. PICK q \in DOMAIN segs : Holds(segs[q], p)
    BY <1>5, <2>1
  <2>3. q \in 1..Len(B)
    BY <1>8 DEF AreViews
  <2>4. B[q].arr = Len(heap) + a /\ Holds(B[q], p)
    BY <1>15, <2>1, <2>2, <2>3 DEF Holds, okm
  <2> QED
    BY <2>3, <2>4
<1> QED
  BY <1>10, <1>11, <1>12, <1>16, <1>17, ReturningKeepsInv

LEMMA ZeroizeKeepsInv ==
  ASSUME Inv, zeroize
  PROVE  Inv'
<1>1. TypeOK /\ Placed /\ Reachable /\ HeapAsDocumented
  BY SameThing DEF Inv
<1>2. PICK j \in DOMAIN bufs :
        /\ heap' = [heap EXCEPT ![bufs[j].arr] =
                      [i \in DOMAIN @ |-> IF Holds(bufs[j], i) THEN ZeroByte ELSE @[i]]]
        /\ wiped' = wiped \cup {j}
        /\ bufs' = bufs /\ given' = given
  BY DEF zeroize
<1> DEFINE cleared == [i \in DOMAIN heap[bufs[j].arr] |->
                         IF Holds(bufs[j], i) THEN ZeroByte ELSE heap[bufs[j].arr][i]]
<1>3. heap \in Seq(Seq(Byte)) /\ bufs[j].arr \in DOMAIN heap
  BY <1>1 DEF TypeOK
<1>4. heap[bufs[j].arr] \in Seq(Byte)
  BY <1>3
<1>5. cleared \in Seq(Byte) /\ DOMAIN cleared = DOMAIN heap[bufs[j].arr]
      /\ Len(cleared) = Len(heap[bufs[j].arr])
  <2>1. DOMAIN heap[bufs[j].arr] = 1..Len(heap[bufs[j].arr]) /\ Len(heap[bufs[j].arr]) \in Nat
    BY <1>4
  <2>2. ASSUME NEW i \in 1..Len(heap[bufs[j].arr])
        PROVE  heap[bufs[j].arr][i] \in Byte /\ ZeroByte \in Byte
    BY <1>4 DEF Byte, ZeroByte
  <2>3. cleared \in [1..Len(heap[bufs[j].arr]) -> Byte]
    BY <2>1, <2>2
  <2> HIDE DEF cleared
  <2> QED
    BY <2>1, <2>3, FunctionIsSequence
<1>6. /\ heap' = [heap EXCEPT ![bufs[j].arr] = cleared]
      /\ \A p \in DOMAIN heap[bufs[j].arr] :
           cleared[p] = IF Holds(bufs[j], p) THEN ZeroByte ELSE heap[bufs[j].arr][p]
  BY <1>2, <1>3
<1> HIDE DEF cleared
<1>7. /\ heap' \in Seq(Seq(Byte)) /\ DOMAIN heap' = DOMAIN heap
      /\ \A a \in DOMAIN heap :
           DOMAIN heap'[a] = DOMAIN heap[a] /\ Len(heap'[a]) = Len(heap[a])
  BY <1>3, <1>5, <1>6
<1>8. ASSUME NEW a \in DOMAIN heap, NEW p \in DOMAIN heap[a]
      PROVE  heap'[a][p] = IF a = bufs[j].arr /\ Holds(bufs[j], p) THEN ZeroByte ELSE heap[a][p]
  BY <1>3, <1>6
<1>9. TypeOK'
  BY <1>1, <1>2, <1>7 DEF TypeOK
<1>10. Placed'
  BY <1>1, <1>2 DEF Placed
<1>11. Reachable'
  BY <1>1, <1>2, <1>7 DEF Reachable
<1>12. HeapAsDocumented'
  <2> SUFFICES ASSUME NEW k \in DOMAIN bufs, NEW i \in 1..bufs[k].len
               PROVE  heap'[bufs[k].arr][bufs[k].off + i] =
                        IF \E w \in wiped \cup {j} : /\ bufs[w].arr = bufs[k].arr
                                                    /\ Holds(bufs[w], bufs[k].off + i)
                          THEN ZeroByte ELSE given[k].bytes[i]
    BY <1>2 DEF HeapAsDocumented, WipedAt
  <2> DEFINE a == bufs[k].arr
             p == bufs[k].off + i
  <2>1. a \in DOMAIN heap /\ p \in DOMAIN heap[a]
    <3>1. bufs[k] \in Stretch /\ a \in DOMAIN heap /\ bufs[k].off + bufs[k].len <= Len(heap[a])
      BY <1>1 DEF TypeOK
    <3>2. bufs[k].off \in Nat /\ bufs[k].len \in Nat
      BY <3>1 DEF Stretch
    <3>3. heap[a] \in Seq(Byte)
      BY <1>3, <3>1
    <3> QED
      BY <3>1, <3>2, <3>3
  <2>2. heap'[a][p] = IF a = bufs[j].arr /\ Holds(bufs[j], p) THEN ZeroByte ELSE heap[a][p]
    BY <1>8, <2>1
  <2>3. heap[a][p] = IF \E w \in wiped : bufs[w].arr = a /\ Holds(bufs[w], p)
                       THEN ZeroByte ELSE given[k].bytes[i]
    BY <1>1 DEF HeapAsDocumented, WipedAt
  <2> HIDE DEF a, p
  <2>4. (\E w \in wiped \cup {j} : bufs[w].arr = a /\ Holds(bufs[w], p))
          <=> \/ \E w \in wiped : bufs[w].arr = a /\ Holds(bufs[w], p)
              \/ a = bufs[j].arr /\ Holds(bufs[j], p)
    OBVIOUS
  <2>5. heap'[a][p] = IF \E w \in wiped \cup {j} : bufs[w].arr = a /\ Holds(bufs[w], p)
                        THEN ZeroByte ELSE given[k].bytes[i]
    BY <2>2, <2>3, <2>4
  <2> QED
    BY <2>5 DEF a, p
<1>13. ContentsAsDocumented'
  <2>1. (TypeOK /\ Placed => (ContentsAsDocumented <=> HeapAsDocumented))'
    BY SameThing, PTL
  <2> QED
    BY <1>9, <1>10, <1>12, <2>1
<1> QED
  BY <1>9, <1>10, <1>11, <1>13 DEF Inv

-----------------------------------------------------------------------------
(***************************************************************************)
(* The invariant holds: buffers share the memory they are documented to    *)
(* share, nothing is allocated that the program cannot reach, and contents *)
(* are as documented.                                                      *)
(***************************************************************************)
THEOREM InvHolds == Spec => []Inv
<1>1. Init => Inv
  <2> SUFFICES ASSUME Init
               PROVE  Inv
    OBVIOUS
  <2>1. heap = << >> /\ bufs = << >> /\ given = << >> /\ wiped = {}
    BY DEF Init
  <2>2. TypeOK
    BY <2>1 DEF TypeOK
  <2>3. Placed /\ Reachable /\ ContentsAsDocumented
    BY <2>1 DEF Placed, Reachable, ContentsAsDocumented
  <2> QED
    BY <2>2, <2>3 DEF Inv
<1>2. Inv /\ [Next]_vars => Inv'
  <2> SUFFICES ASSUME Inv, [Next]_vars
               PROVE  Inv'
    OBVIOUS
  <2>1. CASE NewSecret
    BY <2>1, NewSecretKeepsInv
  <2>2. CASE concat
    BY <2>2, ConcatKeepsInv
  <2>3. CASE xor
    BY <2>3, XorKeepsInv
  <2>4. CASE split
    BY <2>4, SplitKeepsInv
  <2>5. CASE deriveMultiple
    BY <2>5, DeriveMultipleKeepsInv
  <2>6. CASE zeroize
    BY <2>6, ZeroizeKeepsInv
  <2>7. CASE UNCHANGED vars
    <3> USE <2>7 DEF vars, Inv
    <3>1. TypeOK'
      BY DEF TypeOK
    <3>2. Placed' /\ Reachable'
      BY DEF Placed, Reachable
    <3>3. ContentsAsDocumented'
      BY DEF ContentsAsDocumented, Contents, WipedThrough
    <3> QED
      BY <3>1, <3>2, <3>3
  <2> QED
    BY <2>1, <2>2, <2>3, <2>4, <2>5, <2>6, <2>7 DEF Next
<1> QED
  BY <1>1, <1>2, PTL DEF Spec

(***************************************************************************)
(* Type correctness: every buffer the byte helpers return lies inside its  *)
(* allocation.                                                             *)
(***************************************************************************)
THEOREM TypeCorrect == Spec => []TypeOK
<1>1. Inv => TypeOK
  BY DEF Inv
<1> QED
  BY <1>1, InvHolds, PTL

(***************************************************************************)
(* Whatever is concatenated, split, derived and wiped in whatever order, a *)
(* buffer changes only through the buffers it is documented to share       *)
(* memory with.                                                            *)
(***************************************************************************)
THEOREM AlwaysAsDocumented == Spec => []ContentsAsDocumented
<1>1. Inv => ContentsAsDocumented
  BY DEF Inv
<1> QED
  BY <1>1, InvHolds, PTL

(***************************************************************************)
(* Wiping everything one was given wipes everything.                       *)
(***************************************************************************)
THEOREM NothingIsLeftBehind == Spec => []NothingLeftBehind
<1>1. Inv => NothingLeftBehind
  <2> SUFFICES ASSUME Inv, DOMAIN bufs \subseteq wiped,
                      NEW a \in DOMAIN heap, NEW p \in DOMAIN heap[a]
               PROVE  heap[a][p] = ZeroByte
    BY DEF NothingLeftBehind
  <2>1. TypeOK /\ Reachable /\ HeapAsDocumented
    BY SameThing DEF Inv
  <2>2. PICK k \in DOMAIN bufs : bufs[k].arr = a /\ Holds(bufs[k], p)
    BY <2>1 DEF Reachable
  <2>3. WipedAt(a, p)
    BY <2>2 DEF WipedAt
  <2>4. /\ bufs[k].off \in Nat /\ bufs[k].len \in Nat
        /\ p \in Nat
    <3>1. bufs[k] \in Stretch /\ heap[a] \in Seq(Byte)
      BY <2>1 DEF TypeOK
    <3> QED
      BY <3>1 DEF Stretch
  <2>5. p - bufs[k].off \in 1..bufs[k].len /\ bufs[k].off + (p - bufs[k].off) = p
    BY <2>2, <2>4 DEF Holds
  <2> QED
    BY <2>1, <2>2, <2>3, <2>5 DEF HeapAsDocumented
<1> QED
  BY <1>1, InvHolds, PTL
=============================================================================
