---------------------------- MODULE EncodingProofs ----------------------------
(***************************************************************************)
(* Proofs about the encodings of Codecs and the two programs of Encoding,  *)
(* for texts of every length.  The argument for Base64 and hex: cutting a  *)
(* stream of crumbs in pieces and joining them again is the identity, up   *)
(* to the crumbs that fill the last symbol, and those are zeros on both    *)
(* sides.  For UTF-8, and for what Node skips, the texts are gone through  *)
(* one element after the other, so the argument is an induction over them: *)
(* of the texts that break the law there would be a shortest.              *)
(***************************************************************************)
EXTENDS Encoding, SequenceTheorems, WellFoundedInduction, TLAPS

-----------------------------------------------------------------------------
(***************************************************************************)
(* Induction.  A non-empty set of natural numbers has a least element, so  *)
(* a set that holds the empty sequence, and with a sequence every longer   *)
(* one by an element, holds them all: of the sequences it lacks there      *)
(* would be a shortest.                                                    *)
(***************************************************************************)
LEMMA LeastNatural ==
  ASSUME NEW T, T \subseteq Nat, T # {}
  PROVE  \E x \in T : \A y \in T : x <= y
<1> DEFINE R == {ss \in Nat \X Nat : ss[1] < ss[2]}
<1>1. IsWellFoundedOn(R, Nat)
  BY NatLessThanWellFounded DEF OpToRel
<1>2. PICK x \in T : \A y \in T : ~ (<<y, x>> \in R)
  BY <1>1, WFMin
<1>3. ASSUME NEW y \in T PROVE x <= y
  <2>1. <<y, x>> \in Nat \X Nat /\ <<y, x>>[1] = y /\ <<y, x>>[2] = x
    OBVIOUS
  <2>2. ~ (<<y, x>>[1] < <<y, x>>[2])
    BY <1>2, <2>1
  <2> QED
    BY <2>1, <2>2
<1> QED
  BY <1>3

LEMMA Shortest ==
  ASSUME NEW A, NEW S, S \subseteq Seq(A), S # {}
  PROVE  \E s \in S : \A r \in S : Len(s) <= Len(r)
<1> DEFINE lengths == {Len(s) : s \in S}
<1>1. lengths \subseteq Nat /\ lengths # {}
  <2>1. \A s \in S : Len(s) \in Nat
    BY LenProperties
  <2> QED
    BY <2>1
<1>2. PICK n \in lengths : \A m \in lengths : n <= m
  BY <1>1, LeastNatural
<1> QED
  BY <1>2

LEMMA LastOff ==
  ASSUME NEW A, NEW s \in Seq(A), s # << >>
  PROVE  \E h \in Seq(A), e \in A : Len(h) + 1 = Len(s) /\ s = Append(h, e)
<1> DEFINE n == Len(s)
           h == [k \in 1..(n - 1) |-> s[k]]
           a == Append(h, s[n])
<1>1. n \in Nat \ {0} /\ \A k \in 1..n : s[k] \in A
  BY EmptySeq
<1> HIDE DEF n
<1>2. n - 1 \in Nat /\ h \in Seq(A) /\ Len(h) = n - 1 /\ s[n] \in A
  BY <1>1
<1>3. \A k \in 1..(n - 1) : h[k] = s[k]
  OBVIOUS
<1> HIDE DEF h
<1>4. /\ a \in Seq(A) /\ Len(a) = n
      /\ \A k \in 1..(n - 1) : a[k] = h[k]
      /\ a[n] = s[n]
  BY <1>1, <1>2
<1>5. ASSUME NEW k \in 1..n
      PROVE  s[k] = a[k]
  <2>1. k = n \/ k \in 1..(n - 1)
    BY <1>1
  <2> QED
    BY <1>3, <1>4, <2>1
<1> HIDE DEF a
<1>6. s = a
  BY <1>4, <1>5, SeqEqual DEF n
<1> QED
  BY <1>1, <1>2, <1>6 DEF n, a

LEMMA AppendInduction ==
  ASSUME NEW A, NEW S, << >> \in S,
         \A s \in Seq(A), e \in A : s \in S => Append(s, e) \in S
  PROVE  Seq(A) \subseteq S
<1> SUFFICES ASSUME Seq(A) \ S # {}
             PROVE  FALSE
  OBVIOUS
<1>1. PICK s \in Seq(A) \ S : \A r \in Seq(A) \ S : Len(s) <= Len(r)
  BY Shortest
<1>2. PICK h \in Seq(A), e \in A : Len(h) + 1 = Len(s) /\ s = Append(h, e)
  BY <1>1, LastOff
<1>3. ~(Len(s) <= Len(h))
  <2>1. Len(h) \in Nat
    BY LenProperties
  <2> QED
    BY <1>2, <2>1
<1> QED
  BY <1>1, <1>2, <1>3

-----------------------------------------------------------------------------
(***************************************************************************)
(* FlattenSeq is a recursive function, and the prover sees only that it    *)
(* was chosen.  Some function satisfies its equation, and any two agree,   *)
(* so it has the value one computes by joining the pieces in order.        *)
(***************************************************************************)
Joins(f, s, A) ==
  /\ f \in [1..Len(s) -> Seq(A)]
  /\ \A k \in 1..Len(s) : f[k] = IF k = 1 THEN s[1] ELSE f[k - 1] \o s[k]

LEMMA FlattenByJoining ==
  ASSUME NEW A, NEW s \in Seq(Seq(A)), Len(s) # 0, NEW f, Joins(f, s, A)
  PROVE  FlattenSeq(s) = f[Len(s)]
<1> DEFINE body(g) == [i \in 1..Len(s) |-> IF i = 1 THEN s[i] ELSE g[i - 1] \o s[i]]
           c == CHOOSE g : g = body(g)
<1>0. Len(s) \in Nat
  OBVIOUS
<1>1. FlattenSeq(s) = c[Len(s)]
  BY DEF FlattenSeq
<1>2. f = body(f)
  BY DEF Joins
<1>3. c = body(c)
  <2> HIDE DEF body
  <2> QED
    BY <1>2
<1> HIDE DEF c
<1>4. \A k \in 1..Len(s) : c[k] = IF k = 1 THEN s[k] ELSE c[k - 1] \o s[k]
  BY <1>3
<1>5. \A k \in 1..Len(s) : c[k] = f[k]
  <2> DEFINE Differ == {k \in 1..Len(s) : c[k] # f[k]}
  <2> SUFFICES ASSUME Differ # {}
               PROVE  FALSE
    OBVIOUS
  <2>1. PICK k \in Differ : \A j \in Differ : k <= j
    <3>1. Differ \subseteq Nat
      BY <1>0
    <3> QED
      BY <3>1, LeastNatural
  <2>2. CASE k = 1
    BY <1>4, <2>1, <2>2 DEF Joins
  <2>3. CASE k # 1
    <3>0. k \in 1..Len(s)
      BY <2>1
    <3>1. k - 1 \in 1..Len(s) /\ k \in 1..Len(s) /\ k - 1 \notin Differ
      <4> HIDE DEF Differ
      <4>1. k - 1 \in 1..Len(s) /\ ~(k <= k - 1)
        BY <1>0, <2>3, <3>0
      <4> QED
        BY <2>1, <3>0, <4>1
    <3>2. c[k - 1] = f[k - 1]
      BY <3>1
    <3>3. c[k] = c[k - 1] \o s[k]
      BY <1>4, <2>3, <3>0
    <3>4. f[k] = f[k - 1] \o s[k]
      BY <2>3, <3>0 DEF Joins
    <3> QED
      BY <2>1, <3>2, <3>3, <3>4
  <2> QED
    BY <2>2, <2>3
<1> QED
  BY <1>0, <1>1, <1>5

LEMMA JoiningExists ==
  ASSUME NEW A
  PROVE  \A s \in Seq(Seq(A)) : \E f : Joins(f, s, A)
<1> DEFINE S == {s \in Seq(Seq(A)) : \E f : Joins(f, s, A)}
<1>1. << >> \in S
  <2> DEFINE f == [k \in 1..0 |-> << >>]
  <2>1. Joins(f, << >>, A)
    BY DEF Joins
  <2> QED
    BY <2>1
<1>2. ASSUME NEW s \in Seq(Seq(A)), NEW p \in Seq(A), s \in S
      PROVE  Append(s, p) \in S
  <2>1. PICK f : Joins(f, s, A)
    BY <1>2
  <2> DEFINE t == Append(s, p)
             n == Len(s)
             g == [k \in 1..(n + 1) |-> IF k <= n THEN f[k] ELSE IF n = 0 THEN p ELSE f[n] \o p]
  <2>2. /\ t \in Seq(Seq(A)) /\ Len(t) = n + 1 /\ n \in Nat
        /\ \A k \in 1..n : t[k] = s[k]
        /\ t[n + 1] = p
    OBVIOUS
  <2>3. \A k \in 1..n : f[k] \in Seq(A)
    BY <2>1 DEF Joins
  <2>4. n # 0 => f[n] \o p \in Seq(A)
    BY <2>2, <2>3, ConcatProperties
  <2>5. g \in [1..Len(t) -> Seq(A)]
    BY <2>2, <2>3, <2>4
  <2>6. ASSUME NEW k \in 1..(n + 1)
        PROVE  g[k] = IF k = 1 THEN t[1] ELSE g[k - 1] \o t[k]
    <3>1. CASE k = n + 1
      <4>1. CASE n = 0
        BY <2>2, <3>1, <4>1
      <4>2. CASE n # 0
        <5>1. k # 1 /\ k - 1 = n /\ n \in 1..(n + 1) /\ ~(k <= n)
          BY <2>2, <3>1, <4>2
        <5>2. g[k] = f[n] \o p /\ g[k - 1] = f[n] /\ t[k] = p
          BY <2>2, <3>1, <4>2, <5>1
        <5> QED
          BY <5>1, <5>2
      <4> QED
        BY <4>1, <4>2
    <3>2. CASE k \in 1..n
      <4>1. f[k] = IF k = 1 THEN s[1] ELSE f[k - 1] \o s[k]
        BY <2>1, <3>2 DEF Joins
      <4>2. g[k] = f[k] /\ t[k] = s[k] /\ t[1] = s[1]
        BY <2>2, <3>2
      <4>3. k # 1 => g[k - 1] = f[k - 1]
        BY <2>2, <3>2
      <4> QED
        BY <4>1, <4>2, <4>3
    <3> QED
      BY <2>2, <3>1, <3>2
  <2> HIDE DEF t, g
  <2>7. Joins(g, t, A)
    BY <2>2, <2>5, <2>6 DEF Joins
  <2> QED
    BY <2>2, <2>7 DEF t
<1> HIDE DEF S
<1>3. Seq(Seq(A)) \subseteq S
  BY <1>1, <1>2, AppendInduction
<1> QED
  BY <1>3 DEF S

LEMMA FlattenIs ==
  ASSUME NEW A
  PROVE  /\ FlattenSeq(<< >>) = << >>
         /\ \A s \in Seq(Seq(A)) : FlattenSeq(s) \in Seq(A)
         /\ \A s \in Seq(Seq(A)), p \in Seq(A) :
              FlattenSeq(Append(s, p)) = FlattenSeq(s) \o p
<1>1. FlattenSeq(<< >>) = << >>
  BY DEF FlattenSeq
<1>2. ASSUME NEW s \in Seq(Seq(A))
      PROVE  FlattenSeq(s) \in Seq(A)
  <2>1. CASE Len(s) = 0
    BY <1>1, <2>1, EmptySeq
  <2>2. CASE Len(s) # 0
    <3>1. PICK f : Joins(f, s, A)
      BY JoiningExists
    <3>2. FlattenSeq(s) = f[Len(s)]
      BY <2>2, <3>1, FlattenByJoining
    <3>3. Len(s) \in 1..Len(s)
      BY <2>2, LenProperties
    <3> QED
      BY <3>1, <3>2, <3>3 DEF Joins
  <2> QED
    BY <2>1, <2>2
<1>3. ASSUME NEW s \in Seq(Seq(A)), NEW p \in Seq(A)
      PROVE  FlattenSeq(Append(s, p)) = FlattenSeq(s) \o p
  <2> DEFINE t == Append(s, p)
             n == Len(s)
  <2>1. /\ t \in Seq(Seq(A)) /\ Len(t) = n + 1 /\ n \in Nat
        /\ \A k \in 1..n : t[k] = s[k]
        /\ t[n + 1] = p
    OBVIOUS
  <2> HIDE DEF t
  <2>2. PICK f : Joins(f, t, A)
    BY <2>1, JoiningExists
  <2>3. FlattenSeq(t) = f[n + 1]
    BY <2>1, <2>2, FlattenByJoining
  <2> HIDE DEF n
  <2>7. \A k \in 1..(n + 1) : f[k] \in Seq(A) /\ f[k] = IF k = 1 THEN t[1] ELSE f[k - 1] \o t[k]
    BY <2>1, <2>2 DEF Joins
  <2>4. f[n + 1] = IF n + 1 = 1 THEN t[1] ELSE f[(n + 1) - 1] \o t[n + 1]
    BY <2>1, <2>7
  <2>5. CASE n = 0
    <3>1. s = << >>
      BY <2>5, EmptySeq DEF n
    <3>2. << >> \o p = p
      BY ConcatEmptySeq
    <3> QED
      BY <1>1, <2>1, <2>3, <2>4, <2>5, <3>1, <3>2 DEF t
  <2>6. CASE n # 0
    <3> DEFINE g == [k \in 1..n |-> f[k]]
    <3>1. /\ g \in [1..n -> Seq(A)]
          /\ \A k \in 1..n : g[k] = IF k = 1 THEN s[1] ELSE g[k - 1] \o s[k]
      <4>1. \A k \in 1..n : f[k] \in Seq(A) /\ f[k] = IF k = 1 THEN t[1] ELSE f[k - 1] \o t[k]
        BY <2>1, <2>7
      <4>2. \A k \in 1..n : k # 1 => k - 1 \in 1..n
        BY <2>1
      <4>3. 1 \in 1..n
        BY <2>1, <2>6
      <4> QED
        BY <2>1, <4>1, <4>2, <4>3
    <3> HIDE DEF g
    <3>2. FlattenSeq(s) = g[n]
      BY <2>6, <3>1, FlattenByJoining DEF Joins, n
    <3>3. g[n] = f[n] /\ (n + 1) - 1 = n /\ n + 1 # 1
      BY <2>1, <2>6 DEF g
    <3> QED
      BY <2>1, <2>3, <2>4, <3>2, <3>3 DEF t
  <2> QED
    BY <2>5, <2>6
<1> QED
  BY <1>1, <1>2, <1>3

(***************************************************************************)
(* FlatMap goes through a text one element after the other.                *)
(***************************************************************************)
Maps(f, A, B) == \A e \in A : f[e] \in Seq(B)

LEMMA FlatMapIs ==
  ASSUME NEW A, NEW B, NEW f, Maps(f, A, B)
  PROVE  /\ FlatMap(f, << >>) = << >>
         /\ \A s \in Seq(A) : FlatMap(f, s) \in Seq(B)
         /\ \A s \in Seq(A), e \in A : FlatMap(f, Append(s, e)) = FlatMap(f, s) \o f[e]
<1> DEFINE images(s) == [i \in 1..Len(s) |-> f[s[i]]]
<1>1. ASSUME NEW s \in Seq(A)
      PROVE  FlatMap(f, s) = FlattenSeq(images(s)) /\ images(s) \in Seq(Seq(B))
  <2>1. DOMAIN s = 1..Len(s) /\ Len(s) \in Nat /\ \A i \in 1..Len(s) : f[s[i]] \in Seq(B)
    BY LenProperties DEF Maps
  <2> QED
    BY <2>1 DEF FlatMap
<1>2. FlatMap(f, << >>) = << >>
  <2>1. << >> \in Seq(A) /\ Len(<< >>) = 0
    BY EmptySeq
  <2>2. images(<< >>) \in Seq(Seq(B)) /\ Len(images(<< >>)) = 0
    BY <2>1
  <2>3. images(<< >>) = << >>
    <3> HIDE DEF images
    <3> QED
      BY <2>2, EmptySeq
  <2> QED
    BY <1>1, <2>1, <2>3, FlattenIs
<1>3. ASSUME NEW s \in Seq(A)
      PROVE  FlatMap(f, s) \in Seq(B)
  <2> HIDE DEF images
  <2> QED
    BY <1>1, FlattenIs
<1>4. ASSUME NEW s \in Seq(A), NEW e \in A
      PROVE  FlatMap(f, Append(s, e)) = FlatMap(f, s) \o f[e]
  <2> DEFINE t == Append(s, e)
             n == Len(s)
  <2>1. /\ t \in Seq(A) /\ Len(t) = n + 1 /\ n \in Nat
        /\ \A k \in 1..n : t[k] = s[k]
        /\ t[n + 1] = e
    OBVIOUS
  <2> HIDE DEF t
  <2> DEFINE a == images(s)
             b == images(t)
             c == Append(a, f[e])
  <2>2. a \in Seq(Seq(B)) /\ b \in Seq(Seq(B)) /\ f[e] \in Seq(B)
    BY <1>1, <2>1 DEF Maps
  <2>3. Len(a) = n /\ \A k \in 1..n : a[k] = f[s[k]]
    BY <2>1
  <2>4. Len(b) = n + 1 /\ \A k \in 1..(n + 1) : b[k] = f[t[k]]
    BY <2>1
  <2> HIDE DEF a, b, n, images
  <2>5. /\ c \in Seq(Seq(B)) /\ Len(c) = n + 1
        /\ \A k \in 1..n : c[k] = a[k]
        /\ c[n + 1] = f[e]
    BY <2>2, <2>3
  <2> HIDE DEF c
  <2>6. ASSUME NEW k \in 1..(n + 1)
        PROVE  b[k] = c[k]
    <3>1. CASE k \in 1..n
      <4>1. b[k] = f[t[k]] /\ t[k] = s[k]
        BY <2>1, <2>4, <3>1
      <4>2. c[k] = a[k] /\ a[k] = f[s[k]]
        BY <2>3, <2>5, <3>1
      <4> QED
        BY <4>1, <4>2
    <3>2. CASE k = n + 1
      BY <2>1, <2>4, <2>5, <3>2
    <3> QED
      BY <2>1, <3>1, <3>2
  <2>7. b = c
    BY <2>2, <2>4, <2>5, <2>6, SeqEqual
  <2>8. FlattenSeq(c) = FlattenSeq(a) \o f[e]
    BY <2>2, FlattenIs DEF c
  <2>9. FlatMap(f, s) = FlattenSeq(a) /\ FlatMap(f, t) = FlattenSeq(b)
    BY <1>1, <2>1 DEF a, b
  <2> QED
    BY <2>7, <2>8, <2>9 DEF t
<1> QED
  BY <1>2, <1>3, <1>4

LEMMA ConcatAppend ==
  ASSUME NEW A, NEW s \in Seq(A), NEW t \in Seq(A), NEW e \in A
  PROVE  s \o Append(t, e) = Append(s \o t, e) /\ Append(t, e) = t \o <<e>>
<1>1. <<e>> \in Seq(A)
  OBVIOUS
<1>2. \A r \in Seq(A) : Append(r, e) = r \o <<e>>
  OBVIOUS
<1>3. s \o t \in Seq(A)
  BY ConcatProperties
<1> QED
  BY <1>1, <1>2, <1>3, ConcatAssociative

LEMMA FlatMapConcat ==
  ASSUME NEW A, NEW B, NEW f, Maps(f, A, B), NEW s \in Seq(A)
  PROVE  \A t \in Seq(A) : FlatMap(f, s \o t) = FlatMap(f, s) \o FlatMap(f, t)
<1> DEFINE S == {t \in Seq(A) : FlatMap(f, s \o t) = FlatMap(f, s) \o FlatMap(f, t)}
<1>0. /\ FlatMap(f, << >>) = << >>
      /\ \A t \in Seq(A) : FlatMap(f, t) \in Seq(B)
      /\ \A t \in Seq(A), e \in A : FlatMap(f, Append(t, e)) = FlatMap(f, t) \o f[e]
  BY FlatMapIs
<1>1. << >> \in S
  <2>1. FlatMap(f, << >>) = << >> /\ << >> \in Seq(A)
    BY <1>0, EmptySeq
  <2>2. s \o << >> = s /\ FlatMap(f, s) \o << >> = FlatMap(f, s)
    BY <1>0, ConcatEmptySeq
  <2> QED
    BY <2>1, <2>2
<1>2. ASSUME NEW t \in Seq(A), NEW e \in A, t \in S
      PROVE  Append(t, e) \in S
  <2>1. s \o Append(t, e) = Append(s \o t, e) /\ s \o t \in Seq(A) /\ Append(t, e) \in Seq(A)
    BY ConcatAppend, ConcatProperties
  <2>2. FlatMap(f, Append(s \o t, e)) = FlatMap(f, s \o t) \o f[e]
    BY <1>0, <2>1
  <2>3. FlatMap(f, s \o t) = FlatMap(f, s) \o FlatMap(f, t)
    BY <1>2
  <2>4. (FlatMap(f, s) \o FlatMap(f, t)) \o f[e] = FlatMap(f, s) \o (FlatMap(f, t) \o f[e])
    <3>1. FlatMap(f, s) \in Seq(B) /\ FlatMap(f, t) \in Seq(B) /\ f[e] \in Seq(B)
      BY <1>0 DEF Maps
    <3>2. \A x, y, z \in Seq(B) : (x \o y) \o z = x \o (y \o z)
      BY ConcatAssociative
    <3> QED
      BY <3>1, <3>2, Zenon
  <2>5. FlatMap(f, Append(t, e)) = FlatMap(f, t) \o f[e]
    BY <1>0
  <2> QED
    BY <2>1, <2>2, <2>3, <2>4, <2>5
<1> HIDE DEF S
<1>3. Seq(A) \subseteq S
  BY <1>1, <1>2, AppendInduction
<1> QED
  BY <1>3 DEF S

LEMMA FlatMapOne ==
  ASSUME NEW A, NEW B, NEW f, Maps(f, A, B), NEW e \in A
  PROVE  FlatMap(f, <<e>>) = f[e]
<1>1. << >> \in Seq(A) /\ Append(<< >>, e) = <<e>>
  BY EmptySeq
<1>0. /\ FlatMap(f, << >>) = << >>
      /\ \A s \in Seq(A), d \in A : FlatMap(f, Append(s, d)) = FlatMap(f, s) \o f[d]
  BY FlatMapIs
<1>2. FlatMap(f, << >>) = << >> /\ FlatMap(f, Append(<< >>, e)) = FlatMap(f, << >>) \o f[e]
  BY <1>0, <1>1
<1>3. << >> \o f[e] = f[e]
  BY ConcatEmptySeq DEF Maps
<1> QED
  BY <1>1, <1>2, <1>3
-----------------------------------------------------------------------------
Widths == {2, 3, 4}
Piece(w) == [1..w -> Crumb]

-----------------------------------------------------------------------------
(***************************************************************************)
(* Arithmetic: position k of the stream is crumb j of piece i.             *)
(***************************************************************************)
LEMMA Positions ==
  ASSUME NEW w \in Widths, NEW n \in Nat
  PROVE  /\ \A k \in 1..(w * n) : ((k - 1) \div w) + 1 \in 1..n /\ ((k - 1) % w) + 1 \in 1..w
                /\ k = w * ((((k - 1) \div w) + 1) - 1) + (((k - 1) % w) + 1)
         /\ \A i \in 1..n, j \in 1..w : w * (i - 1) + j \in 1..(w * n)
                /\ ((w * (i - 1) + j) - 1) \div w = i - 1
                /\ ((w * (i - 1) + j) - 1) % w = j - 1
<1>1. CASE w = 2
  BY <1>1
<1>2. CASE w = 3
  BY <1>2
<1>3. CASE w = 4
  BY <1>3
<1> QED
  BY <1>1, <1>2, <1>3 DEF Widths

LEMMA Quotients ==
  ASSUME NEW w \in Widths, NEW n \in Nat
  PROVE  /\ n \div w \in Nat /\ w * (n \div w) <= n /\ n < w * (n \div w) + w
         /\ n % w \in 0..(w - 1) /\ n = w * (n \div w) + (n % w)
         /\ (w * n) \div w = n /\ w * n \in Nat
<1>1. CASE w = 2
  BY <1>1
<1>2. CASE w = 3
  BY <1>2
<1>3. CASE w = 4
  BY <1>3
<1> QED
  BY <1>1, <1>2, <1>3 DEF Widths

LEMMA PieceFields ==
  ASSUME NEW w, NEW p \in Seq(Piece(w)), NEW i \in 1..Len(p), NEW j \in 1..w
  PROVE  p[i][j] \in Crumb
<1>1. p[i] \in Piece(w)
  OBVIOUS
<1> QED
  BY <1>1 DEF Piece

LEMMA PiecesEqual ==
  ASSUME NEW w, NEW a \in Piece(w), NEW b \in Piece(w), \A j \in 1..w : a[j] = b[j]
  PROVE  a = b
<1>1. a = [j \in 1..w |-> a[j]] /\ b = [j \in 1..w |-> b[j]]
  BY DEF Piece
<1>2. [j \in 1..w |-> a[j]] = [j \in 1..w |-> b[j]]
  OBVIOUS
<1> QED
  BY <1>1, <1>2, Zenon

(***************************************************************************)
(* What Flat and Group return.                                             *)
(***************************************************************************)
LEMMA FlatIs ==
  ASSUME NEW w \in Widths, NEW p \in Seq(Piece(w))
  PROVE  /\ Flat(p, w) \in Seq(Crumb) /\ Len(Flat(p, w)) = w * Len(p)
         /\ w * Len(p) \in Nat
         /\ \A k \in 1..(w * Len(p)) :
              Flat(p, w)[k] = p[((k - 1) \div w) + 1][((k - 1) % w) + 1]
         /\ \A i \in 1..Len(p), j \in 1..w : Flat(p, w)[w * (i - 1) + j] = p[i][j]
<1>0. Len(p) \in Nat /\ w * Len(p) \in Nat
  BY Quotients
<1>1. \A k \in 1..(w * Len(p)) : p[((k - 1) \div w) + 1][((k - 1) % w) + 1] \in Crumb
  <2>1. \A i \in 1..Len(p), j \in 1..w : p[i][j] \in Crumb
    BY PieceFields
  <2> QED
    BY <1>0, <2>1, Positions
<1>2. \A k \in 1..(w * Len(p)) : Flat(p, w)[k] = p[((k - 1) \div w) + 1][((k - 1) % w) + 1]
  BY DEF Flat
<1>3. Flat(p, w) \in Seq(Crumb) /\ Len(Flat(p, w)) = w * Len(p)
  <2> DEFINE m == w * Len(p)
             f == [k \in 1..m |-> p[((k - 1) \div w) + 1][((k - 1) % w) + 1]]
  <2>1. m \in Nat /\ \A k \in 1..m : f[k] \in Crumb
    BY <1>0, <1>1
  <2> HIDE DEF m
  <2>2. f \in Seq(Crumb) /\ Len(f) = m
    BY <2>1
  <2> QED
    BY <2>2 DEF Flat, m
<1>4. ASSUME NEW i \in 1..Len(p), NEW j \in 1..w
      PROVE  Flat(p, w)[w * (i - 1) + j] = p[i][j]
  <2>1. /\ w * (i - 1) + j \in 1..(w * Len(p))
        /\ ((w * (i - 1) + j) - 1) \div w = i - 1 /\ ((w * (i - 1) + j) - 1) % w = j - 1
    BY <1>0, Positions
  <2>2. (i - 1) + 1 = i /\ (j - 1) + 1 = j
    BY DEF Widths
  <2> QED
    BY <1>2, <2>1, <2>2
<1> QED
  BY <1>0, <1>2, <1>3, <1>4

LEMMA GroupIs ==
  ASSUME NEW w \in Widths, NEW c \in Seq(Crumb)
  PROVE  /\ Group(c, w) \in Seq(Piece(w)) /\ Len(Group(c, w)) = Len(c) \div w
         /\ Len(c) \div w \in Nat
         /\ \A i \in 1..(Len(c) \div w) :
              /\ Group(c, w)[i] \in Piece(w)
              /\ \A j \in 1..w : w * (i - 1) + j \in 1..Len(c) /\ Group(c, w)[i][j] = c[w * (i - 1) + j]
<1> DEFINE n == Len(c) \div w
<1>0. Len(c) \in Nat /\ n \in Nat /\ w * n <= Len(c)
  BY Quotients
<1>1. \A i \in 1..n, j \in 1..w : w * (i - 1) + j \in 1..Len(c)
  <2>1. \A i \in 1..n, j \in 1..w : w * (i - 1) + j \in 1..(w * n)
    BY <1>0, Positions
  <2>2. w * n \in Nat
    BY <1>0, Quotients
  <2> QED
    BY <1>0, <2>1, <2>2
<1>2. \A i \in 1..n : [j \in 1..w |-> c[w * (i - 1) + j]] \in Piece(w)
  BY <1>0, <1>1 DEF Piece
<1>3. Group(c, w) = [i \in 1..n |-> [j \in 1..w |-> c[w * (i - 1) + j]]]
  BY DEF Group
<1>4. Group(c, w) \in Seq(Piece(w)) /\ Len(Group(c, w)) = n
  BY <1>0, <1>2, <1>3
<1> QED
  BY <1>0, <1>1, <1>2, <1>3, <1>4

(***************************************************************************)
(* Joining what was cut, and cutting what was joined.                      *)
(***************************************************************************)
LEMMA GroupFlat ==
  ASSUME NEW w \in Widths, NEW p \in Seq(Piece(w))
  PROVE  Group(Flat(p, w), w) = p
<1> DEFINE c == Flat(p, w)
           g == Group(c, w)
<1>1. c \in Seq(Crumb) /\ Len(c) = w * Len(p) /\ Len(p) \in Nat
  BY FlatIs
<1>2. Len(c) \div w = Len(p)
  BY <1>1, Quotients
<1>3. /\ g \in Seq(Piece(w)) /\ Len(g) = Len(p)
      /\ \A i \in 1..Len(p) : /\ g[i] \in Piece(w)
                              /\ \A j \in 1..w : g[i][j] = c[w * (i - 1) + j]
  BY <1>1, <1>2, GroupIs
<1>4. ASSUME NEW i \in 1..Len(p)
      PROVE  g[i] = p[i]
  <2>1. g[i] \in Piece(w) /\ p[i] \in Piece(w)
    BY <1>3
  <2>2. \A j \in 1..w : g[i][j] = p[i][j]
    BY <1>3, FlatIs
  <2> QED
    BY <2>1, <2>2, PiecesEqual
<1> QED
  BY <1>3, <1>4, SeqEqual

LEMMA FlatGroup ==
  ASSUME NEW w \in Widths, NEW c \in Seq(Crumb)
  PROVE  /\ Flat(Group(c, w), w) \in Seq(Crumb)
         /\ Len(Flat(Group(c, w), w)) = w * (Len(c) \div w)
         /\ \A k \in 1..(w * (Len(c) \div w)) : Flat(Group(c, w), w)[k] = c[k]
<1> DEFINE n == Len(c) \div w
           g == Group(c, w)
<1>1. n \in Nat /\ Len(g) = n /\ g \in Seq(Piece(w))
  BY GroupIs
<1>2. ASSUME NEW k \in 1..(w * n)
      PROVE  Flat(g, w)[k] = c[k]
  <2>1. PICK i \in 1..n, j \in 1..w : k = w * (i - 1) + j
    BY <1>1, Positions
  <2>2. Flat(g, w)[k] = g[i][j]
    BY <1>1, <2>1, FlatIs
  <2>3. g[i][j] = c[w * (i - 1) + j]
    BY <2>1, GroupIs
  <2> QED
    BY <2>1, <2>2, <2>3
<1> QED
  BY <1>1, <1>2, FlatIs

LEMMA FlatGroupExact ==
  ASSUME NEW w \in Widths, NEW c \in Seq(Crumb), Len(c) % w = 0
  PROVE  Flat(Group(c, w), w) = c
<1>1. w * (Len(c) \div w) = Len(c)
  <2>1. Len(c) \in Nat /\ w \in Nat /\ Len(c) \div w \in Nat
    BY Quotients DEF Widths
  <2> QED
    BY <2>1, Quotients
<1> QED
  BY <1>1, FlatGroup, SeqEqual

LEMMA GroupPrefix ==
  ASSUME NEW w \in Widths, NEW c \in Seq(Crumb), NEW d \in Seq(Crumb), NEW n,
         Len(c) \div w = n, Len(d) \div w = n, \A k \in 1..(w * n) : d[k] = c[k]
  PROVE  Group(d, w) = Group(c, w)
<1> DEFINE g == Group(c, w)
           h == Group(d, w)
<1>1. /\ n \in Nat /\ g \in Seq(Piece(w)) /\ Len(g) = n
      /\ \A i \in 1..n : g[i] \in Piece(w) /\ \A j \in 1..w : g[i][j] = c[w * (i - 1) + j]
  BY GroupIs
<1>2. /\ h \in Seq(Piece(w)) /\ Len(h) = n
      /\ \A i \in 1..n : h[i] \in Piece(w) /\ \A j \in 1..w : h[i][j] = d[w * (i - 1) + j]
  BY GroupIs
<1>3. ASSUME NEW i \in 1..n
      PROVE  h[i] = g[i]
  <2>1. \A j \in 1..w : w * (i - 1) + j \in 1..(w * n)
    BY <1>1, Positions
  <2>2. \A j \in 1..w : h[i][j] = g[i][j]
    BY <1>1, <1>2, <2>1
  <2> QED
    BY <1>1, <1>2, <2>2, PiecesEqual
<1> QED
  BY <1>1, <1>2, <1>3, SeqEqual

-----------------------------------------------------------------------------
(***************************************************************************)
(* Base64.  n bytes are 4n crumbs, filled up to whole symbols.             *)
(***************************************************************************)
LEMMA ByteIsPiece == Byte = Piece(4) /\ Symbol = Piece(3) /\ Digit = Piece(2)
BY DEF Byte, Symbol, Digit, Piece

Missing(n) == (3 - (n % 3)) % 3
Zeros(n) == [k \in 1..Missing(n) |-> Zero]
Filled(crumbs) == crumbs \o Zeros(Len(crumbs))

LEMMA FilledIs ==
  ASSUME NEW c \in Seq(Crumb)
  PROVE  /\ Missing(Len(c)) \in 0..2 /\ (Len(c) + Missing(Len(c))) % 3 = 0
         /\ Filled(c) \in Seq(Crumb) /\ Len(Filled(c)) = Len(c) + Missing(Len(c))
         /\ \A k \in 1..(Len(c) + Missing(Len(c))) :
              Filled(c)[k] = IF k <= Len(c) THEN c[k] ELSE Zero
<1>1. Len(c) \in Nat
  OBVIOUS
<1>2. Missing(Len(c)) \in 0..2
  BY <1>1 DEF Missing
<1>6. (Len(c) + Missing(Len(c))) % 3 = 0
  BY <1>1 DEF Missing
<1>3. /\ Zeros(Len(c)) \in Seq(Crumb) /\ Len(Zeros(Len(c))) = Missing(Len(c))
      /\ \A k \in 1..Missing(Len(c)) : Zeros(Len(c))[k] = Zero
  <2> DEFINE m == Missing(Len(c))
  <2>1. m \in Nat /\ Zero \in Crumb
    <3>1. Zero \in Crumb
      BY CrumbAssumption
    <3> QED
      BY <1>2, <3>1
  <2>2. Zeros(Len(c)) = [k \in 1..m |-> Zero]
    BY DEF Zeros
  <2> HIDE DEF m
  <2>3. [k \in 1..m |-> Zero] \in Seq(Crumb) /\ Len([k \in 1..m |-> Zero]) = m
    BY <2>1
  <2> QED
    BY <2>2, <2>3 DEF m
<1>4. /\ Filled(c) \in Seq(Crumb) /\ Len(Filled(c)) = Len(c) + Missing(Len(c))
      /\ \A k \in 1..(Len(c) + Missing(Len(c))) :
           Filled(c)[k] = IF k <= Len(c) THEN c[k] ELSE Zeros(Len(c))[k - Len(c)]
  BY <1>3, ConcatProperties DEF Filled
<1>5. \A k \in 1..(Len(c) + Missing(Len(c))) : ~(k <= Len(c)) => k - Len(c) \in 1..Missing(Len(c))
  BY <1>1, <1>2
<1> QED
  BY <1>2, <1>3, <1>4, <1>5, <1>6

LEMMA SymbolsOfIs ==
  ASSUME NEW bytes \in Seq(Byte)
  PROVE  symbolsOf(bytes) = Group(Filled(Flat(bytes, 4)), 3)
BY DEF symbolsOf, Filled, Zeros, Missing

(***************************************************************************)
(* The symbols of a message carry its crumbs, zeros to the last symbol,    *)
(* and never a single symbol in the last group of four.                    *)
(***************************************************************************)
LEMMA SymbolsCarryBytes ==
  ASSUME NEW bytes \in Seq(Byte)
  PROVE  /\ symbolsOf(bytes) \in Seq(Symbol)
         /\ Flat(symbolsOf(bytes), 3) = Filled(Flat(bytes, 4))
         /\ Len(symbolsOf(bytes)) % 4 # 1
<1> DEFINE c == Flat(bytes, 4)
           n == Len(bytes)
<1>1. c \in Seq(Crumb) /\ Len(c) = 4 * n /\ n \in Nat
  BY FlatIs, ByteIsPiece DEF Widths
<1>2. Filled(c) \in Seq(Crumb) /\ Len(Filled(c)) = Len(c) + Missing(Len(c))
      /\ Len(Filled(c)) % 3 = 0
  BY <1>1, FilledIs
<1>3. symbolsOf(bytes) = Group(Filled(c), 3)
  BY SymbolsOfIs
<1>4. Len(symbolsOf(bytes)) = (4 * n + Missing(4 * n)) \div 3 /\ symbolsOf(bytes) \in Seq(Symbol)
  BY <1>1, <1>2, <1>3, GroupIs, ByteIsPiece DEF Widths
<1>5. ((4 * n + Missing(4 * n)) \div 3) % 4 # 1
  BY <1>1 DEF Missing
<1> QED
  BY <1>2, <1>3, <1>4, <1>5, FlatGroupExact DEF Widths

(***************************************************************************)
(* Reading the symbols of a message gives it back, with zeros left over.   *)
(***************************************************************************)
LEMMA BytesOfSymbols ==
  ASSUME NEW bytes \in Seq(Byte)
  PROVE  bytesOf(symbolsOf(bytes)) = bytes /\ trailingZeros(symbolsOf(bytes))
<1> DEFINE c == Flat(bytes, 4)
           f == Filled(c)
           n == Len(bytes)
<1>1. c \in Seq(Crumb) /\ Len(c) = 4 * n /\ n \in Nat
  BY FlatIs, ByteIsPiece DEF Widths
<1>2. /\ f \in Seq(Crumb) /\ Len(f) = 4 * n + Missing(Len(c)) /\ Missing(Len(c)) \in 0..2
      /\ \A k \in 1..Len(f) : f[k] = IF k <= 4 * n THEN c[k] ELSE Zero
  BY <1>1, FilledIs
<1>3. Len(f) \div 4 = n
  BY <1>1, <1>2
<1>4. Flat(symbolsOf(bytes), 3) = f
  BY SymbolsCarryBytes
<1>5. Group(f, 4) = Group(c, 4)
  <2>1. Len(c) \div 4 = n /\ 4 * n <= Len(f)
    BY <1>1, <1>2
  <2>2. \A k \in 1..(4 * (Len(c) \div 4)) : f[k] = c[k]
    BY <1>1, <1>2, <2>1
  <2> HIDE DEF c, f
  <2> QED
    BY <1>1, <1>2, <1>3, <2>1, <2>2, GroupPrefix DEF Widths
<1>6. bytesOf(symbolsOf(bytes)) = bytes
  BY <1>4, <1>5, GroupFlat, ByteIsPiece DEF bytesOf, Widths
<1>7. trailingZeros(symbolsOf(bytes))
  BY <1>1, <1>2, <1>3, <1>4 DEF trailingZeros
<1> QED
  BY <1>6, <1>7

(***************************************************************************)
(* Symbols that pass the checks of the decoder are the ones of the bytes   *)
(* they decode to.                                                         *)
(***************************************************************************)
LEMMA SymbolsOfBytes ==
  ASSUME NEW s \in Seq(Symbol), Len(s) % 4 # 1, trailingZeros(s)
  PROVE  bytesOf(s) \in Seq(Byte) /\ symbolsOf(bytesOf(s)) = s
<1> DEFINE c == Flat(s, 3)
           b == Group(c, 4)
           m == Len(s)
           n == Len(c) \div 4
<1>1. c \in Seq(Crumb) /\ Len(c) = 3 * m /\ m \in Nat
  BY FlatIs, ByteIsPiece DEF Widths
<1>2. b \in Seq(Byte) /\ bytesOf(s) = b
  BY <1>1, GroupIs, ByteIsPiece DEF Widths, bytesOf
<1>3. /\ Flat(b, 4) \in Seq(Crumb) /\ Len(Flat(b, 4)) = 4 * n /\ n \in Nat
      /\ \A k \in 1..(4 * n) : Flat(b, 4)[k] = c[k]
  BY <1>1, FlatGroup, GroupIs DEF Widths
<1>4. 4 * n + Missing(4 * n) = 3 * m
  BY <1>1 DEF Missing
<1>5. /\ Filled(Flat(b, 4)) \in Seq(Crumb) /\ Len(Filled(Flat(b, 4))) = 3 * m
      /\ \A k \in 1..(3 * m) : Filled(Flat(b, 4))[k] = IF k <= 4 * n THEN Flat(b, 4)[k] ELSE Zero
  BY <1>3, <1>4, FilledIs
<1>6. ASSUME NEW k \in 1..(3 * m)
      PROVE  Filled(Flat(b, 4))[k] = c[k]
  <2>1. CASE k <= 4 * n
    BY <1>1, <1>3, <1>5, <2>1
  <2>2. CASE k > 4 * n
    BY <1>1, <1>3, <1>5, <2>2 DEF trailingZeros
  <2> QED
    BY <1>1, <1>3, <2>1, <2>2
<1>7. Filled(Flat(b, 4)) = c
  BY <1>1, <1>5, <1>6, SeqEqual
<1>8. symbolsOf(b) = Group(c, 3)
  BY <1>2, <1>7, SymbolsOfIs
<1> QED
  BY <1>2, <1>8, GroupFlat, ByteIsPiece DEF Widths

(***************************************************************************)
(* Characters: a text carries its symbols, in the one form of its alphabet.*)
(***************************************************************************)
Forms == {"standard", "url"}

LEMMA Characters ==
  ASSUME NEW form \in Forms
  PROVE  /\ \A s \in Symbol : /\ Base64Char(s, form) \in Alphabet(form)
                              /\ Base64Char(s, form).value = s
         /\ \A c \in Alphabet(form) : /\ c.value \in Symbol /\ c = Base64Char(c.value, form)
                                      /\ c # Pad
BY DEF Forms, Alphabet, Base64Char, Char, Pad

LEMMA TextOfSymbols ==
  ASSUME NEW bytes \in Seq(Byte), NEW form \in Forms
  PROVE  /\ text64(bytes, form) \in Seq(Alphabet(form))
         /\ Len(text64(bytes, form)) = Len(symbolsOf(bytes))
         /\ values(text64(bytes, form)) = symbolsOf(bytes)
<1> DEFINE s == symbolsOf(bytes)
           t == text64(bytes, form)
<1>1. s \in Seq(Symbol)
  BY SymbolsCarryBytes
<1>2. t = [i \in 1..Len(s) |-> Base64Char(s[i], form)]
  BY <1>1 DEF text64
<1> HIDE DEF s, t
<1>3. \A i \in 1..Len(s) : s[i] \in Symbol
  BY <1>1
<1>4. \A i \in 1..Len(s) : t[i] \in Alphabet(form) /\ t[i].value = s[i]
  BY <1>2, <1>3, Characters
<1>5. t \in Seq(Alphabet(form)) /\ Len(t) = Len(s)
  BY <1>1, <1>2, <1>4
<1>6. values(t) = [i \in 1..Len(s) |-> t[i].value]
  BY <1>5 DEF values
<1>7. values(t) \in Seq(Symbol) /\ Len(values(t)) = Len(s)
  BY <1>1, <1>3, <1>4, <1>6
<1>8. values(t) = s
  BY <1>1, <1>4, <1>6, <1>7, SeqEqual
<1> QED
  BY <1>5, <1>8 DEF s, t

LEMMA ValuesOfText ==
  ASSUME NEW form \in Forms, NEW text \in Seq(Alphabet(form))
  PROVE  /\ values(text) \in Seq(Symbol) /\ Len(values(text)) = Len(text)
         /\ \A i \in 1..Len(text) : text[i] = Base64Char(values(text)[i], form)
<1>1. \A i \in 1..Len(text) : text[i] \in Alphabet(form)
  OBVIOUS
<1>2. values(text) = [i \in 1..Len(text) |-> text[i].value]
  BY DEF values
<1>3. \A i \in 1..Len(text) : text[i].value \in Symbol /\ text[i] = Base64Char(text[i].value, form)
  BY <1>1, Characters
<1>4. values(text) \in Seq(Symbol) /\ Len(values(text)) = Len(text)
  BY <1>2, <1>3
<1> QED
  BY <1>2, <1>3, <1>4

(***************************************************************************)
(* Without padding: what is encoded is decoded, and what is decoded is the *)
(* encoding of what comes out.                                             *)
(***************************************************************************)
LEMMA Decode64Encoded ==
  ASSUME NEW bytes \in Seq(Byte), NEW form \in Forms
  PROVE  decode64(text64(bytes, form), form) = Decoded(bytes)
<1>1. /\ text64(bytes, form) \in Seq(Alphabet(form))
      /\ Len(text64(bytes, form)) = Len(symbolsOf(bytes))
      /\ values(text64(bytes, form)) = symbolsOf(bytes)
  BY TextOfSymbols
<1>2. /\ Len(symbolsOf(bytes)) % 4 # 1
      /\ bytesOf(symbolsOf(bytes)) = bytes /\ trailingZeros(symbolsOf(bytes))
  BY SymbolsCarryBytes, BytesOfSymbols
<1> QED
  BY <1>1, <1>2 DEF decode64

LEMMA Decode64Canonical ==
  ASSUME NEW body, NEW form \in Forms, decode64(body, form).kind = "returned"
  PROVE  /\ decode64(body, form).value \in Seq(Byte)
         /\ body \in Seq(Alphabet(form))
         /\ body = text64(decode64(body, form).value, form)
         /\ Len(body) % 4 # 1
<1> DEFINE v == values(body)
           b == bytesOf(v)
<1>1. /\ body \in Seq(Alphabet(form)) /\ Len(body) % 4 # 1 /\ trailingZeros(v)
      /\ decode64(body, form) = Decoded(b)
  BY DEF decode64, NotDecoded, Decoded
<1>2. decode64(body, form).value = b
  BY <1>1 DEF Decoded
<1>3. /\ v \in Seq(Symbol) /\ Len(v) = Len(body)
      /\ \A i \in 1..Len(body) : body[i] = Base64Char(v[i], form)
  BY <1>1, ValuesOfText
<1>4. b \in Seq(Byte) /\ symbolsOf(b) = v
  BY <1>1, <1>3, SymbolsOfBytes
<1>5. text64(b, form) = [i \in 1..Len(v) |-> Base64Char(v[i], form)]
  BY <1>3, <1>4 DEF text64
<1>6. text64(b, form) \in Seq(Alphabet(form)) /\ Len(text64(b, form)) = Len(v)
  BY <1>4, TextOfSymbols
<1>7. \A i \in 1..Len(body) : text64(b, form)[i] = body[i]
  BY <1>3, <1>5
<1>8. text64(b, form) = body
  BY <1>1, <1>3, <1>6, <1>7, SeqEqual
<1> QED
  BY <1>1, <1>2, <1>4, <1>8

(***************************************************************************)
(* Base64.decodeUrlSafe undoes Base64.encodeUrlSafe, and what it accepts   *)
(* is the one text that stands for the bytes it returns.                   *)
(***************************************************************************)
THEOREM UrlSafeRoundTrip ==
  ASSUME NEW bytes \in Seq(Byte)
  PROVE  base64_decode_url_safe(base64_encode_url_safe(bytes)) = Decoded(bytes)
BY Decode64Encoded DEF base64_decode_url_safe, base64_encode_url_safe, Forms

THEOREM UrlSafeCanonical ==
  ASSUME NEW text, base64_decode_url_safe(text).kind = "returned"
  PROVE  /\ base64_decode_url_safe(text).value \in Seq(Byte)
         /\ text = base64_encode_url_safe(base64_decode_url_safe(text).value)
BY Decode64Canonical DEF base64_decode_url_safe, base64_encode_url_safe, Forms

(***************************************************************************)
(* Padding fills the last group of four, and is what pads counts.          *)
(***************************************************************************)
LEMMA PaddedText ==
  ASSUME NEW t \in Seq(Alphabet("standard")), Len(t) % 4 # 1
  PROVE  /\ Len(t \o Padding(Len(t))) % 4 = 0
         /\ SubSeq(t \o Padding(Len(t)), 1,
                   Len(t \o Padding(Len(t))) - pads(t \o Padding(Len(t)))) = t
<1> DEFINE n == Len(t)
           m == (4 - (n % 4)) % 4
           p == Padding(n)
           u == t \o p
           A == Alphabet("standard") \cup {Pad}
<1>1. n \in Nat /\ m \in 0..2 /\ (n + m) % 4 = 0
  OBVIOUS
<1>2. /\ p \in Seq(A) /\ Len(p) = m /\ \A k \in 1..m : p[k] = Pad
  <2> HIDE DEF m
  <2>1. [i \in 1..m |-> Pad] \in Seq(A) /\ Len([i \in 1..m |-> Pad]) = m
    BY <1>1
  <2> QED
    BY <2>1 DEF Padding, m
<1>3. t \in Seq(A)
  OBVIOUS
<1>4. /\ u \in Seq(A) /\ Len(u) = n + m
      /\ \A k \in 1..(n + m) : u[k] = IF k <= n THEN t[k] ELSE p[k - n]
  BY <1>2, <1>3, ConcatProperties
<1>5. \A k \in 1..n : t[k] # Pad
  <2>1. \A k \in 1..n : t[k] \in Alphabet("standard")
    OBVIOUS
  <2> QED
    BY <2>1, Characters DEF Forms
<1>6. pads(u) = m
  <2>1. /\ n >= 1 /\ m = 0 => u[n + m] # Pad
        /\ m >= 1 => u[n + m] = Pad /\ n + m > 1
        /\ m = 1 => u[n + m - 1] # Pad
        /\ m = 2 => u[n + m - 1] = Pad
        /\ n = 0 => m = 0
    <3>1. n >= 1 /\ m = 0 => u[n + m] # Pad
      BY <1>1, <1>4, <1>5
    <3>2. m >= 1 => u[n + m] = Pad /\ n + m > 1
      <4>1. m >= 1 => n >= 2
        BY <1>1
      <4> QED
        BY <1>1, <1>2, <1>4, <4>1
    <3>3. m = 1 => u[n + m - 1] # Pad
      BY <1>1, <1>4, <1>5, <3>2
    <3>4. m = 2 => u[n + m - 1] = Pad
      BY <1>1, <1>2, <1>4
    <3>5. n = 0 => m = 0
      BY <1>1
    <3> QED
      BY <3>1, <3>2, <3>3, <3>4, <3>5
  <2> HIDE DEF m, n, u
  <2> QED
    BY <1>1, <1>4, <2>1 DEF pads
<1>7. SubSeq(u, 1, n) = t
  BY <1>1, <1>2, <1>4, SeqEqual
<1> QED
  BY <1>1, <1>4, <1>6, <1>7

(***************************************************************************)
(* Base64.decode undoes Base64.encode, and what it accepts is the one text *)
(* that stands for the bytes it returns, padding included.                 *)
(***************************************************************************)
THEOREM Base64RoundTrip ==
  ASSUME NEW bytes \in Seq(Byte)
  PROVE  base64_decode(base64_encode(bytes)) = Decoded(bytes)
<1> DEFINE t == text64(bytes, "standard")
<1>1. t \in Seq(Alphabet("standard")) /\ Len(t) % 4 # 1
  BY TextOfSymbols, SymbolsCarryBytes DEF Forms
<1>2. base64_encode(bytes) = t \o Padding(Len(t))
  BY DEF base64_encode
<1>3. decode64(t, "standard") = Decoded(bytes)
  BY Decode64Encoded DEF Forms
<1> QED
  BY <1>1, <1>2, <1>3, PaddedText DEF base64_decode

THEOREM Base64Canonical ==
  ASSUME NEW text \in Base64Text, base64_decode(text).kind = "returned"
  PROVE  /\ base64_decode(text).value \in Seq(Byte)
         /\ text = base64_encode(base64_decode(text).value)
<1> DEFINE n == Len(text)
           m == pads(text)
           body == SubSeq(text, 1, n - m)
           b == decode64(body, "standard").value
<1>1. n \in Nat /\ n % 4 = 0 /\ base64_decode(text) = decode64(body, "standard")
  BY DEF base64_decode, NotDecoded, Base64Text
<1>2. /\ b \in Seq(Byte) /\ body \in Seq(Alphabet("standard"))
      /\ body = text64(b, "standard") /\ Len(body) % 4 # 1
  BY <1>1, Decode64Canonical DEF Forms
<1>3. m \in 0..2 /\ m <= n /\ \A k \in 1..n : k > n - m => text[k] = Pad
  BY <1>1 DEF pads
<1>4. Len(body) = n - m /\ \A k \in 1..(n - m) : body[k] = text[k]
  <2> HIDE DEF m
  <2> QED
    BY <1>1, <1>3 DEF Base64Text
<1>5. (4 - (Len(body) % 4)) % 4 = m
  <2>1. \A k \in Nat, l \in Nat, d \in 0..2 :
          k % 4 = 0 /\ l % 4 # 1 /\ l = k - d => (4 - (l % 4)) % 4 = d
    OBVIOUS
  <2>2. Len(body) \in Nat
    BY <1>2
  <2> QED
    BY <1>1, <1>2, <1>3, <1>4, <2>1, <2>2
<1>6. base64_encode(b) = body \o Padding(Len(body))
  BY <1>2 DEF base64_encode
<1>7. Padding(Len(body)) = [k \in 1..m |-> Pad]
  BY <1>5 DEF Padding
<1> HIDE DEF m, n, body, b
<1> DEFINE A == Alphabet("standard") \cup Alphabet("url") \cup {Pad, Foreign}
           p == [k \in 1..m |-> Pad]
<1>8. p \in Seq(A) /\ Len(p) = m /\ body \in Seq(A) /\ text \in Seq(A)
  <2>1. Pad \in A /\ Alphabet("standard") \subseteq A /\ m \in Nat
    BY <1>3
  <2>2. text \in Seq(A)
    BY DEF Base64Text
  <2> HIDE DEF A
  <2> QED
    BY <1>2, <2>1, <2>2
<1> HIDE DEF A, p
<1>9. /\ body \o p \in Seq(A) /\ Len(body \o p) = n
      /\ \A k \in 1..n : (body \o p)[k] = IF k <= n - m THEN body[k] ELSE p[k - (n - m)]
  <2>1. n \in Nat /\ m \in Nat /\ Len(body) + Len(p) = n
    BY <1>1, <1>3, <1>4, <1>8
  <2>2. /\ body \o p \in Seq(A) /\ Len(body \o p) = Len(body) + Len(p)
        /\ \A k \in 1..(Len(body) + Len(p)) :
             (body \o p)[k] = IF k <= Len(body) THEN body[k] ELSE p[k - Len(body)]
    BY <1>8, ConcatProperties
  <2> QED
    BY <1>4, <2>1, <2>2
<1>10. \A k \in 1..m : p[k] = Pad
  BY DEF p
<1>11. ASSUME NEW k \in 1..n
       PROVE  (body \o p)[k] = text[k]
  <2>1. CASE k <= n - m
    BY <1>1, <1>3, <1>4, <1>9, <2>1
  <2>2. CASE k > n - m
    <3>1. k - (n - m) \in 1..m /\ ~(k <= n - m)
      BY <1>1, <1>3, <2>2
    <3> QED
      BY <1>3, <1>9, <1>10, <2>2, <3>1
  <2>3. \A i, j \in Int : i <= j \/ i > j
    OBVIOUS
  <2>4. k \in Int /\ n - m \in Int
    BY <1>1, <1>3
  <2>5. k <= n - m \/ k > n - m
    BY <2>3, <2>4, Zenon
  <2> QED
    BY <2>1, <2>2, <2>5, Zenon
<1>12. body \o p = text
  <2>1. Len(text) = n
    BY DEF n
  <2> QED
    BY <1>8, <1>9, <1>11, <2>1, SeqEqual
<1> QED
  BY <1>1, <1>2, <1>6, <1>7, <1>12 DEF b, p

-----------------------------------------------------------------------------
(***************************************************************************)
(* Hex.  Two digits a byte, nothing to fill up; the case of a digit is     *)
(* lost when it is read.                                                   *)
(***************************************************************************)
Cases == {"lower", "upper"}

LEMMA HexCharacters ==
  /\ \A d \in Digit, form \in Cases : HexChar(d, form) \in HexAlphabet /\ HexChar(d, form).value = d
  /\ \A c \in HexAlphabet : c.value \in Digit
BY DEF Cases, HexAlphabet, HexChar, Char

LEMMA HexDigits ==
  ASSUME NEW bytes \in Seq(Byte)
  PROVE  /\ Group(Flat(bytes, 4), 2) \in Seq(Digit)
         /\ Len(Group(Flat(bytes, 4), 2)) = 2 * Len(bytes)
         /\ Flat(Group(Flat(bytes, 4), 2), 2) = Flat(bytes, 4)
<1> DEFINE c == Flat(bytes, 4)
           n == Len(bytes)
<1>1. c \in Seq(Crumb) /\ Len(c) = 4 * n /\ n \in Nat
  BY FlatIs, ByteIsPiece DEF Widths
<1>2. Len(c) % 2 = 0 /\ Len(c) \div 2 = 2 * n
  BY <1>1
<1> QED
  BY <1>1, <1>2, GroupIs, FlatGroupExact, ByteIsPiece DEF Widths

LEMMA HexTextOfBytes ==
  ASSUME NEW bytes \in Seq(Byte), NEW form \in Cases
  PROVE  /\ hex_encode(bytes, form) \in Seq(HexAlphabet)
         /\ Len(hex_encode(bytes, form)) = 2 * Len(bytes)
         /\ values(hex_encode(bytes, form)) = Group(Flat(bytes, 4), 2)
<1> DEFINE d == Group(Flat(bytes, 4), 2)
           t == hex_encode(bytes, form)
<1>1. d \in Seq(Digit) /\ Len(d) = 2 * Len(bytes)
  BY HexDigits
<1>2. t = [i \in 1..Len(d) |-> HexChar(d[i], form)]
  BY <1>1 DEF hex_encode
<1> HIDE DEF d, t
<1>3. \A i \in 1..Len(d) : d[i] \in Digit
  BY <1>1
<1>4. \A i \in 1..Len(d) : t[i] \in HexAlphabet /\ t[i].value = d[i]
  BY <1>2, <1>3, HexCharacters
<1>5. t \in Seq(HexAlphabet) /\ Len(t) = Len(d)
  BY <1>1, <1>2, <1>4
<1>6. values(t) = [i \in 1..Len(d) |-> t[i].value]
  BY <1>5 DEF values
<1>7. values(t) \in Seq(Digit) /\ Len(values(t)) = Len(d)
  BY <1>1, <1>3, <1>4, <1>6
<1>8. values(t) = d
  BY <1>1, <1>4, <1>6, <1>7, SeqEqual
<1> QED
  BY <1>1, <1>5, <1>8 DEF d, t

LEMMA HexValues ==
  ASSUME NEW text \in Seq(HexAlphabet)
  PROVE  /\ values(text) \in Seq(Digit) /\ Len(values(text)) = Len(text)
         /\ \A i \in 1..Len(text) : values(text)[i] = text[i].value
<1>1. \A i \in 1..Len(text) : text[i].value \in Digit
  <2>1. \A i \in 1..Len(text) : text[i] \in HexAlphabet
    OBVIOUS
  <2> QED
    BY <2>1, HexCharacters
<1>2. values(text) = [i \in 1..Len(text) |-> text[i].value]
  BY DEF values
<1> QED
  BY <1>1, <1>2

(***************************************************************************)
(* Hex.decode undoes Hex.encode and Hex.encodeUpper, and what it accepts   *)
(* is the text of the bytes it returns, up to the case of the digits.      *)
(***************************************************************************)
THEOREM HexRoundTrip ==
  ASSUME NEW bytes \in Seq(Byte), NEW form \in Cases
  PROVE  hex_decode(hex_encode(bytes, form)) = Decoded(bytes)
<1> DEFINE t == hex_encode(bytes, form)
<1>1. /\ t \in Seq(HexAlphabet) /\ Len(t) = 2 * Len(bytes)
      /\ values(t) = Group(Flat(bytes, 4), 2)
  BY HexTextOfBytes
<1>2. ~hexError(t)
  <2>1. Len(t) % 2 = 0
    BY <1>1
  <2>2. \A i \in DOMAIN t : t[i] \in HexAlphabet
    BY <1>1
  <2> QED
    BY <2>1, <2>2 DEF hexError
<1>3. hexBytes(t) = bytes
  BY <1>1, HexDigits, GroupFlat, ByteIsPiece DEF hexBytes, Widths
<1> QED
  BY <1>2, <1>3 DEF hex_decode

THEOREM HexCanonical ==
  ASSUME NEW text \in HexText, hex_decode(text).kind = "returned"
  PROVE  /\ hex_decode(text).value \in Seq(Byte)
         /\ Lower(text) = hex_encode(hex_decode(text).value, "lower")
<1> DEFINE v == values(text)
           c == Flat(v, 2)
           b == Group(c, 4)
<1>1. ~hexError(text) /\ hex_decode(text) = Decoded(b)
  BY DEF hex_decode, NotDecoded, hexBytes
<1>2. text \in Seq(HexAlphabet) /\ Len(text) \in Nat /\ Len(text) % 2 = 0
  <2>1. \A i \in 1..Len(text) : text[i] \in HexAlphabet
    BY <1>1 DEF hexError, HexText
  <2>2. text \in Seq(HexAlphabet \cup {Foreign})
    BY DEF HexText
  <2>3. text \in Seq(HexAlphabet)
    <3>1. text = [i \in 1..Len(text) |-> text[i]] /\ Len(text) \in Nat
      BY <2>2
    <3> QED
      BY <2>1, <3>1
  <2> QED
    BY <1>1, <2>2, <2>3 DEF hexError
<1>3. v \in Seq(Digit) /\ Len(v) = Len(text) /\ \A i \in 1..Len(text) : v[i] = text[i].value
  BY <1>2, HexValues
<1>4. c \in Seq(Crumb) /\ Len(c) = 2 * Len(text)
  BY <1>3, FlatIs, ByteIsPiece DEF Widths
<1>5. Len(c) % 4 = 0
  BY <1>2, <1>4
<1>6. b \in Seq(Byte) /\ Flat(b, 4) = c
  BY <1>4, <1>5, GroupIs, FlatGroupExact, ByteIsPiece DEF Widths
<1>7. Group(c, 2) = v
  BY <1>3, GroupFlat, ByteIsPiece DEF Widths
<1>8. hex_encode(b, "lower") = [i \in 1..Len(text) |-> HexChar(v[i], "lower")]
  BY <1>3, <1>6, <1>7 DEF hex_encode
<1>9. Lower(text) = [i \in 1..Len(text) |-> HexChar(text[i].value, "lower")]
  BY <1>2 DEF Lower
<1>10. hex_encode(b, "lower") = Lower(text)
  <2> HIDE DEF v, c, b
  <2> QED
    BY <1>3, <1>8, <1>9
<1>11. hex_decode(text).value = b
  BY <1>1 DEF Decoded
<1> QED
  BY <1>6, <1>10, <1>11

(***************************************************************************)
(* Node reads a text of whole bytes of digits to its end, so fromHex and   *)
(* Hex.decode answer every text alike.                                     *)
(***************************************************************************)
THEOREM NodeReadsHexAlike ==
  ASSUME NEW text \in HexText
  PROVE  /\ hex_decode(text).kind = "returned" => nodeHex(text) = hex_decode(text)
         /\ fromHex(text) = hex_decode(text)
<1>1. ASSUME ~hexError(text)
      PROVE  nodeHex(text) = Decoded(hexBytes(text))
  <2> DEFINE whole(n) == SubSeq(text, 1, 2 * n) \in Seq(HexAlphabet)
             last == Len(text) \div 2
             P(n) == whole(n) /\ \A m \in 0..last : whole(m) => m <= n
             n == CHOOSE n \in 0..last : P(n)
  <2>1. /\ Len(text) \in Nat /\ Len(text) % 2 = 0 /\ last \in Nat /\ 2 * last = Len(text)
        /\ \A i \in 1..Len(text) : text[i] \in HexAlphabet
    BY <1>1 DEF hexError, HexText
  <2>2. text \in Seq(HexAlphabet) /\ SubSeq(text, 1, Len(text)) = text
    <3>1. text = [i \in 1..Len(text) |-> text[i]] /\ text \in Seq(HexAlphabet \cup {Foreign})
      BY DEF HexText
    <3>2. text \in Seq(HexAlphabet)
      BY <2>1, <3>1
    <3> QED
      BY <2>1, <3>1, <3>2, SeqEqual
  <2>3. SubSeq(text, 1, 2 * last) = text
    BY <2>1, <2>2
  <2>4. whole(last) /\ last \in 0..last
    BY <2>1, <2>2, <2>3
  <2> HIDE DEF last, whole
  <2>5. P(last)
    BY <2>1, <2>4
  <2>6. n \in 0..last /\ P(n)
    BY <2>4, <2>5
  <2>7. n = last
    BY <2>1, <2>4, <2>6
  <2>8. nodeHex(text) = Decoded(hexBytes(SubSeq(text, 1, 2 * n)))
    BY DEF nodeHex, last, whole
  <2> QED
    BY <2>3, <2>7, <2>8
<1>2. hexError(text) <=> (\E i \in DOMAIN text : text[i] \notin HexAlphabet) \/ Len(text) % 2 # 0
  BY DEF hexError
<1> QED
  BY <1>1, <1>2 DEF hex_decode, fromHex, NotDecoded

-----------------------------------------------------------------------------
(***************************************************************************)
(* The two alphabets differ in form only: a text that both variants take   *)
(* stands for the same bytes in both.                                      *)
(***************************************************************************)
LEMMA FormsShareBytes ==
  ASSUME NEW a \in Seq(Byte), NEW b \in Seq(Byte), NEW f \in Forms, NEW g \in Forms,
         text64(a, f) = text64(b, g)
  PROVE  a = b
<1>1. symbolsOf(a) = symbolsOf(b)
  BY TextOfSymbols
<1> QED
  BY <1>1, BytesOfSymbols

LEMMA UnpaddedIsWhole ==
  ASSUME NEW bytes \in Seq(Byte), base64_encode(bytes) \in Seq(Alphabet("url"))
  PROVE  base64_encode(bytes) = text64(bytes, "standard")
<1> DEFINE t == text64(bytes, "standard")
           p == Padding(Len(t))
           A == Alphabet("standard") \cup {Pad}
           m == (4 - (Len(t) % 4)) % 4
<1>1. t \in Seq(Alphabet("standard")) /\ Len(t) \in Nat
  BY TextOfSymbols DEF Forms
<1>2. m \in Nat
  BY <1>1
<1>3. p = [k \in 1..m |-> Pad]
  BY DEF Padding
<1> HIDE DEF t, m
<1>4. p \in Seq(A) /\ Len(p) = m /\ \A k \in 1..m : p[k] = Pad
  BY <1>2, <1>3
<1>5. t \in Seq(A)
  BY <1>1
<1>6. base64_encode(bytes) = t \o p
  BY DEF base64_encode, t
<1>7. m = 0
  <2>1. SUFFICES ASSUME m # 0 PROVE FALSE
    OBVIOUS
  <2>2. Len(t \o p) = Len(t) + m /\ (t \o p)[Len(t) + 1] = Pad
    <3>1. /\ Len(t \o p) = Len(t) + Len(p)
          /\ \A k \in 1..(Len(t) + Len(p)) : (t \o p)[k] = IF k <= Len(t) THEN t[k] ELSE p[k - Len(t)]
      BY <1>4, <1>5, ConcatProperties
    <3>2. Len(t) + 1 \in 1..(Len(t) + m) /\ ~(Len(t) + 1 <= Len(t)) /\ (Len(t) + 1) - Len(t) = 1 /\ 1 \in 1..m
      BY <1>1, <1>2, <2>1
    <3> QED
      BY <1>4, <3>1, <3>2
  <2>3. Len(t) + 1 \in 1..Len(t \o p) /\ t \o p \in Seq(Alphabet("url"))
    BY <1>1, <1>2, <1>6, <2>1, <2>2
  <2>4. Pad \in Alphabet("url")
    BY <2>2, <2>3
  <2> QED
    BY <2>4, Characters DEF Forms
<1>8. p = <<>>
  BY <1>4, <1>7
<1> QED
  BY <1>1, <1>6, <1>8 DEF t

(***************************************************************************)
(* A text of one variant that the decoder of the other accepts.            *)
(***************************************************************************)
LEMMA OtherVariant ==
  ASSUME NEW bytes \in Seq(Byte)
  PROVE  /\ base64_decode_url_safe(base64_encode(bytes)).kind = "returned" =>
              base64_decode_url_safe(base64_encode(bytes)).value = bytes
         /\ base64_decode(base64_encode_url_safe(bytes)).kind = "returned" =>
              base64_decode(base64_encode_url_safe(bytes)).value = bytes
<1>1. ASSUME base64_decode_url_safe(base64_encode(bytes)).kind = "returned"
      PROVE  base64_decode_url_safe(base64_encode(bytes)).value = bytes
  <2> DEFINE t == base64_encode(bytes)
             v == base64_decode_url_safe(t).value
  <2>1. v \in Seq(Byte) /\ t = text64(v, "url")
    BY <1>1, UrlSafeCanonical DEF base64_encode_url_safe
  <2>2. t \in Seq(Alphabet("url"))
    BY <2>1, TextOfSymbols DEF Forms
  <2>3. t = text64(bytes, "standard")
    BY <2>2, UnpaddedIsWhole
  <2> QED
    BY <2>1, <2>3, FormsShareBytes DEF Forms
<1>2. ASSUME base64_decode(base64_encode_url_safe(bytes)).kind = "returned"
      PROVE  base64_decode(base64_encode_url_safe(bytes)).value = bytes
  <2> DEFINE t == base64_encode_url_safe(bytes)
             v == base64_decode(t).value
  <2>1. t = text64(bytes, "url") /\ t \in Seq(Alphabet("url"))
    BY TextOfSymbols DEF base64_encode_url_safe, Forms
  <2>2. t \in Base64Text
    BY <2>1 DEF Base64Text
  <2>3. v \in Seq(Byte) /\ t = base64_encode(v)
    BY <1>2, <2>2, Base64Canonical
  <2>4. t = text64(v, "standard")
    BY <2>1, <2>3, UnpaddedIsWhole
  <2> QED
    BY <2>1, <2>3, <2>4, FormsShareBytes DEF Forms
<1> QED
  BY <1>1, <1>2

-----------------------------------------------------------------------------
(***************************************************************************)
(* Node's Base64.  What it keeps of a text are the characters of the two   *)
(* alphabets, so what it makes of a text is what the symbols stand for,    *)
(* the padding after them left aside.                                      *)
(***************************************************************************)
Base64Wire == Alphabet("standard") \cup Alphabet("url") \cup {Pad, Foreign}

LEMMA KeptMaps ==
  /\ nodeAlphabet \subseteq Base64Wire /\ Pad \in Base64Wire /\ Pad \notin nodeAlphabet
  /\ Alphabet("standard") \subseteq nodeAlphabet /\ Alphabet("url") \subseteq nodeAlphabet
  /\ \A c \in nodeAlphabet : kept[c] = <<c>>
  /\ \A c \in Base64Wire \ nodeAlphabet : kept[c] = << >>
  /\ Maps(kept, Base64Wire, nodeAlphabet) /\ Base64Text = Seq(Base64Wire)
<1>1. nodeAlphabet \subseteq Base64Wire /\ Pad \in Base64Wire
  BY DEF nodeAlphabet, Base64Wire
<1>2. Pad \notin nodeAlphabet
  BY Characters DEF nodeAlphabet, Forms
<1>3. \A c \in Base64Wire : kept[c] = IF c \in nodeAlphabet THEN <<c>> ELSE << >>
  BY DEF kept, Base64Wire
<1>4. Maps(kept, Base64Wire, nodeAlphabet)
  <2>1. \A c \in nodeAlphabet : <<c>> \in Seq(nodeAlphabet)
    OBVIOUS
  <2>2. << >> \in Seq(nodeAlphabet)
    BY EmptySeq
  <2> QED
    BY <1>3, <2>1, <2>2 DEF Maps
<1>5. Base64Text = Seq(Base64Wire)
  BY DEF Base64Text, Base64Wire
<1> QED
  BY <1>1, <1>2, <1>3, <1>4, <1>5 DEF nodeAlphabet

LEMMA KeepsText ==
  \A t \in Seq(nodeAlphabet) : FlatMap(kept, t) = t
<1> DEFINE S == {t \in Seq(nodeAlphabet) : FlatMap(kept, t) = t}
<1>0. /\ FlatMap(kept, << >>) = << >>
      /\ \A t \in Seq(Base64Wire), c \in Base64Wire :
           FlatMap(kept, Append(t, c)) = FlatMap(kept, t) \o kept[c]
  BY KeptMaps, FlatMapIs
<1>1. << >> \in S
  BY <1>0, EmptySeq
<1>2. ASSUME NEW t \in Seq(nodeAlphabet), NEW c \in nodeAlphabet, t \in S
      PROVE  Append(t, c) \in S
  <2>1. t \in Seq(Base64Wire) /\ c \in Base64Wire
    BY KeptMaps, SeqMonotonic
  <2>2. FlatMap(kept, Append(t, c)) = t \o <<c>>
    BY <1>0, <1>2, <2>1, KeptMaps
  <2>3. Append(t, c) = t \o <<c>> /\ Append(t, c) \in Seq(nodeAlphabet)
    BY ConcatAppend
  <2> QED
    BY <2>2, <2>3
<1> HIDE DEF S
<1>3. Seq(nodeAlphabet) \subseteq S
  BY <1>1, <1>2, AppendInduction
<1> QED
  BY <1>3 DEF S

LEMMA DropsPads ==
  \A p \in Seq({Pad}) : FlatMap(kept, p) = << >>
<1> DEFINE S == {p \in Seq({Pad}) : FlatMap(kept, p) = << >>}
<1>0. /\ FlatMap(kept, << >>) = << >>
      /\ \A t \in Seq(Base64Wire), c \in Base64Wire :
           FlatMap(kept, Append(t, c)) = FlatMap(kept, t) \o kept[c]
  BY KeptMaps, FlatMapIs
<1>1. << >> \in S
  BY <1>0, EmptySeq
<1>2. ASSUME NEW p \in Seq({Pad}), NEW c \in {Pad}, p \in S
      PROVE  Append(p, c) \in S
  <2>1. p \in Seq(Base64Wire) /\ c \in Base64Wire /\ kept[c] = << >>
    BY KeptMaps, SeqMonotonic
  <2>2. FlatMap(kept, Append(p, c)) = << >> \o << >>
    BY <1>0, <1>2, <2>1
  <2>3. << >> \o << >> = << >> /\ Append(p, c) \in Seq({Pad})
    BY EmptySeq, ConcatEmptySeq
  <2> QED
    BY <2>2, <2>3
<1> HIDE DEF S
<1>3. Seq({Pad}) \subseteq S
  BY <1>1, <1>2, AppendInduction
<1> QED
  BY <1>3 DEF S

LEMMA PaddingIsPads ==
  \A n \in Nat : Padding(n) \in Seq({Pad})
<1> TAKE n \in Nat
<1> DEFINE m == (4 - (n % 4)) % 4
<1>1. m \in Nat
  OBVIOUS
<1> HIDE DEF m
<1>2. [i \in 1..m |-> Pad] \in Seq({Pad})
  BY <1>1
<1> QED
  BY <1>2 DEF Padding, m

(***************************************************************************)
(* Node reads what either encoder of Base64 makes of bytes back to them.   *)
(***************************************************************************)
LEMMA NodeReadsEncoded ==
  ASSUME NEW bytes \in Seq(Byte)
  PROVE  /\ fromBase64(base64_encode(bytes)) = Decoded(bytes)
         /\ fromBase64(base64_encode_url_safe(bytes)) = Decoded(bytes)
<1>1. ASSUME NEW form \in Forms
      PROVE  /\ text64(bytes, form) \in Seq(nodeAlphabet)
             /\ FlatMap(kept, text64(bytes, form)) = text64(bytes, form)
             /\ bytesOf(values(text64(bytes, form))) = bytes
  <2>1. /\ text64(bytes, form) \in Seq(Alphabet(form))
        /\ values(text64(bytes, form)) = symbolsOf(bytes)
    BY TextOfSymbols
  <2>2. Alphabet(form) \subseteq nodeAlphabet
    BY KeptMaps DEF Forms
  <2>3. text64(bytes, form) \in Seq(nodeAlphabet)
    BY <2>1, <2>2, SeqMonotonic
  <2> QED
    BY <2>1, <2>3, KeepsText, BytesOfSymbols
<1>2. fromBase64(base64_encode_url_safe(bytes)) = Decoded(bytes)
  BY <1>1 DEF fromBase64, base64_encode_url_safe, Forms
<1>3. fromBase64(base64_encode(bytes)) = Decoded(bytes)
  <2> DEFINE t == text64(bytes, "standard")
             p == Padding(Len(t))
  <2>1. t \in Seq(nodeAlphabet) /\ FlatMap(kept, t) = t /\ bytesOf(values(t)) = bytes
    BY <1>1 DEF Forms
  <2>2. base64_encode(bytes) = t \o p
    BY DEF base64_encode
  <2> HIDE DEF t
  <2>3. p \in Seq({Pad}) /\ FlatMap(kept, p) = << >>
    BY <2>1, PaddingIsPads, DropsPads, LenProperties
  <2> HIDE DEF p
  <2>4. t \in Seq(Base64Wire) /\ p \in Seq(Base64Wire)
    BY <2>1, <2>3, KeptMaps, SeqMonotonic
  <2>5. FlatMap(kept, t \o p) = FlatMap(kept, t) \o FlatMap(kept, p)
    BY <2>4, KeptMaps, FlatMapConcat
  <2>6. t \o << >> = t
    BY <2>1, ConcatEmptySeq
  <2>7. FlatMap(kept, t \o p) = t
    BY <2>1, <2>3, <2>5, <2>6
  <2> QED
    BY <2>1, <2>2, <2>7 DEF fromBase64
<1> QED
  BY <1>2, <1>3

(***************************************************************************)
(* What the strict decoders of Base64 accept, Node reads to the same       *)
(* bytes; and what Node reads, whatever the text, is whole bytes.          *)
(***************************************************************************)
THEOREM NodeReadsBase64Alike ==
  ASSUME NEW text \in Base64Text
  PROVE  /\ base64_decode(text).kind = "returned" => fromBase64(text) = base64_decode(text)
         /\ base64_decode_url_safe(text).kind = "returned" =>
              fromBase64(text) = base64_decode_url_safe(text)
<1>1. ASSUME base64_decode(text).kind = "returned"
      PROVE  fromBase64(text) = base64_decode(text)
  <2>1. PICK v \in Seq(Byte) : text = base64_encode(v)
    BY <1>1, Base64Canonical
  <2> QED
    BY <2>1, NodeReadsEncoded, Base64RoundTrip
<1>2. ASSUME base64_decode_url_safe(text).kind = "returned"
      PROVE  fromBase64(text) = base64_decode_url_safe(text)
  <2>1. PICK v \in Seq(Byte) : text = base64_encode_url_safe(v)
    BY <1>2, UrlSafeCanonical
  <2> QED
    BY <2>1, NodeReadsEncoded, UrlSafeRoundTrip
<1> QED
  BY <1>1, <1>2

LEMMA NodeBase64Type ==
  ASSUME NEW text \in Base64Text
  PROVE  \E b \in Seq(Byte) : fromBase64(text) = Decoded(b)
<1> DEFINE k == FlatMap(kept, text)
           v == values(k)
           c == Flat(v, 3)
<1>1. k \in Seq(nodeAlphabet)
  BY KeptMaps, FlatMapIs
<1> HIDE DEF k
<1>2. v \in Seq(Symbol)
  <2>1. \A i \in 1..Len(k) : k[i].value \in Symbol
    <3>1. \A i \in 1..Len(k) : k[i] \in nodeAlphabet
      BY <1>1
    <3> QED
      BY <3>1, Characters DEF nodeAlphabet, Forms
  <2>2. v = [i \in 1..Len(k) |-> k[i].value] /\ Len(k) \in Nat
    BY <1>1 DEF values
  <2> QED
    BY <2>1, <2>2
<1>3. c \in Seq(Crumb)
  BY <1>2, FlatIs, ByteIsPiece DEF Widths
<1>4. Group(c, 4) \in Seq(Byte)
  BY <1>3, GroupIs, ByteIsPiece DEF Widths
<1>5. fromBase64(text) = Decoded(Group(c, 4))
  BY DEF fromBase64, bytesOf, k
<1> QED
  BY <1>4, <1>5

(***************************************************************************)
(* Node's hex stops at the longest run of whole bytes, which there always  *)
(* is, if only the empty one, and returns those.                           *)
(***************************************************************************)
LEMMA GreatestNatural ==
  ASSUME NEW n \in Nat, NEW T, T \subseteq 0..n, T # {}
  PROVE  \E x \in T : \A y \in T : y <= x
<1> DEFINE U == {n - x : x \in T}
<1>1. U \subseteq Nat /\ U # {}
  <2>1. \A x \in T : n - x \in Nat
    OBVIOUS
  <2> QED
    BY <2>1
<1>2. PICK u \in U : \A v \in U : u <= v
  BY <1>1, LeastNatural
<1>3. PICK x \in T : u = n - x
  BY <1>2
<1>4. ASSUME NEW y \in T
      PROVE  y <= x
  <2>1. n - y \in U /\ x \in Int /\ y \in Int
    OBVIOUS
  <2>2. n - x <= n - y
    BY <1>2, <1>3, <2>1
  <2> QED
    BY <2>1, <2>2
<1> QED
  BY <1>4

LEMMA HexBytesType ==
  ASSUME NEW text \in Seq(HexAlphabet)
  PROVE  hexBytes(text) \in Seq(Byte)
<1>1. values(text) \in Seq(Digit)
  BY HexValues
<1>2. Flat(values(text), 2) \in Seq(Crumb)
  BY <1>1, FlatIs, ByteIsPiece DEF Widths
<1> QED
  BY <1>2, GroupIs, ByteIsPiece DEF Widths, hexBytes

LEMMA NodeHexType ==
  ASSUME NEW text \in HexText
  PROVE  \E b \in Seq(Byte) : nodeHex(text) = Decoded(b)
<1> DEFINE whole(n) == SubSeq(text, 1, 2 * n) \in Seq(HexAlphabet)
           last == Len(text) \div 2
           P(n) == whole(n) /\ \A m \in 0..last : whole(m) => m <= n
           n == CHOOSE n \in 0..last : P(n)
           T == {m \in 0..last : whole(m)}
<1>1. last \in Nat
  BY DEF HexText
<1>2. SubSeq(text, 1, 2 * 0) \in Seq(HexAlphabet)
  <2>1. SubSeq(text, 1, 0) = << >>
    BY SubSeqEmpty
  <2> QED
    BY <2>1, EmptySeq
<1> HIDE DEF whole, last
<1>3. T # {} /\ T \subseteq 0..last
  <2>1. whole(0)
    BY <1>2 DEF whole
  <2> QED
    BY <1>1, <2>1
<1>4. \E x \in 0..last : P(x)
  <2>1. PICK x \in T : \A y \in T : y <= x
    BY <1>1, <1>3, GreatestNatural
  <2> QED
    BY <2>1
<1>5. whole(n)
  BY <1>4
<1>6. nodeHex(text) = Decoded(hexBytes(SubSeq(text, 1, 2 * n)))
  BY DEF nodeHex, last, whole
<1> QED
  BY <1>5, <1>6, HexBytesType DEF whole

-----------------------------------------------------------------------------
(***************************************************************************)
(* UTF-8.  A string without lone surrogates and the bytes that stand for   *)
(* it are spelt by the same sequence of characters, each given by its own  *)
(* bytes: that is what both directions come down to.                       *)
(***************************************************************************)
Lead == {"00", "c2"} \cup Lead3 \cup Lead4

Code == {c \in Seq(Utf8Byte) :
  /\ c # << >> /\ c[1] \in Lead /\ Len(c) = 1 + Extra(c[1])
  /\ \A k \in 2..Len(c) : c[k] \in Cont
  /\ Extra(c[1]) > 0 => c[2] \in Second(c[1])}

Spell == [c \in Code |-> c]
CodeUnits == [c \in Code |-> codeUnits(c)]
bytesSpelt(cs) == FlatMap(Spell, cs)
unitsSpelt(cs) == FlatMap(CodeUnits, cs)

LEMMA ExtraIs ==
  /\ \A e \in Utf8Byte : Extra(e) \in 0..3
  /\ \A e \in Cont \cup {"00", "ff"} : Extra(e) = 0
  /\ Extra("c2") = 1
  /\ \A e \in Lead3 : Extra(e) = 2
  /\ \A e \in Lead4 : Extra(e) = 3
  /\ Utf8Byte = Lead \cup Cont \cup {"ff"} /\ Lead \cap (Cont \cup {"ff"}) = {}
BY DEF Extra, Utf8Byte, Lead, Lead3, Lead4, Cont

LEMMA CodeIs ==
  ASSUME NEW c \in Code
  PROVE  /\ c \in Seq(Utf8Byte) /\ Len(c) = 1 + Extra(c[1])
         /\ Extra(c[1]) \in 0..3 /\ c[1] \in Lead
         /\ \A k \in 2..(1 + Extra(c[1])) : c[k] \in Cont
         /\ Extra(c[1]) > 0 => c[2] \in Second(c[1])
<1>1. /\ c \in Seq(Utf8Byte) /\ c[1] \in Lead /\ Len(c) = 1 + Extra(c[1])
      /\ \A k \in 2..Len(c) : c[k] \in Cont
      /\ Extra(c[1]) > 0 => c[2] \in Second(c[1])
  BY DEF Code
<1>2. Extra(c[1]) \in 0..3
  BY <1>1, ExtraIs
<1> QED
  BY <1>1, <1>2

LEMMA ShortTuples ==
  ASSUME NEW S, NEW c \in Seq(S)
  PROVE  /\ Len(c) = 1 => c = <<c[1]>>
         /\ Len(c) = 2 => c = <<c[1], c[2]>>
<1>1. ASSUME Len(c) = 1
      PROVE  c = <<c[1]>>
  <2>1. c[1] \in S
    BY <1>1
  <2> DEFINE d == <<c[1]>>
  <2>2. d \in Seq(S) /\ Len(d) = 1 /\ d[1] = c[1]
    BY <2>1
  <2> HIDE DEF d
  <2>3. c = d
    BY <1>1, <2>2, SeqEqual
  <2> QED
    BY <2>3 DEF d
<1>2. ASSUME Len(c) = 2
      PROVE  c = <<c[1], c[2]>>
  <2>1. c[1] \in S /\ c[2] \in S
    BY <1>2
  <2> DEFINE d == <<c[1], c[2]>>
  <2>2. d \in Seq(S) /\ Len(d) = 2 /\ d[1] = c[1] /\ d[2] = c[2]
    BY <2>1
  <2> HIDE DEF d
  <2>3. c = d
    BY <1>2, <2>2, SeqEqual
  <2> QED
    BY <2>3 DEF d
<1> QED
  BY <1>1, <1>2

(***************************************************************************)
(* A character has one of four forms, which are those of the units.        *)
(***************************************************************************)
LEMMA CodeForms ==
  ASSUME NEW c \in Code
  PROVE  \/ c = <<"00">>
         \/ \E x \in Cont : c = <<"c2", x>>
         \/ \E l \in Lead3, x, y \in Cont : x \in Second(l) /\ c = <<l, x, y>>
         \/ \E l \in Lead4, x, y, z \in Cont : x \in Second(l) /\ c = <<l, x, y, z>>
<1>1. /\ c \in Seq(Utf8Byte) /\ Len(c) = 1 + Extra(c[1]) /\ c[1] \in Lead
      /\ \A k \in 2..(1 + Extra(c[1])) : c[k] \in Cont
      /\ Extra(c[1]) > 0 => c[2] \in Second(c[1])
  BY CodeIs
<1>2. CASE c[1] = "00"
  <2>1. Len(c) = 1
    BY <1>1, <1>2, ExtraIs
  <2>2. c = <<"00">>
    BY <1>1, <1>2, <2>1, ShortTuples
  <2> QED
    BY <2>2
<1>3. CASE c[1] = "c2"
  <2>1. Len(c) = 2 /\ c[2] \in Cont
    BY <1>1, <1>3, ExtraIs
  <2>2. c = <<"c2", c[2]>>
    BY <1>1, <1>3, <2>1, ShortTuples
  <2> QED
    BY <2>1, <2>2
<1>4. CASE c[1] \in Lead3
  <2>1. Len(c) = 3 /\ c[2] \in Cont /\ c[3] \in Cont /\ c[2] \in Second(c[1])
    BY <1>1, <1>4, ExtraIs
  <2>2. c = <<c[1], c[2], c[3]>>
    BY <1>1, <2>1
  <2> QED
    BY <1>4, <2>1, <2>2
<1>5. CASE c[1] \in Lead4
  <2>1. Len(c) = 4 /\ c[2] \in Cont /\ c[3] \in Cont /\ c[4] \in Cont /\ c[2] \in Second(c[1])
    BY <1>1, <1>5, ExtraIs
  <2>2. c = <<c[1], c[2], c[3], c[4]>>
    BY <1>1, <2>1
  <2> QED
    BY <1>5, <2>1, <2>2
<1> QED
  BY <1>1, <1>2, <1>3, <1>4, <1>5 DEF Lead

LEMMA FormsAreCodes ==
  /\ <<"00">> \in Code
  /\ \A x \in Cont : <<"c2", x>> \in Code
  /\ \A l \in Lead3, x, y \in Cont : x \in Second(l) => <<l, x, y>> \in Code
  /\ \A l \in Lead4, x, y, z \in Cont : x \in Second(l) => <<l, x, y, z>> \in Code
<1>1. /\ Cont \subseteq Utf8Byte /\ Lead3 \subseteq Utf8Byte /\ Lead4 \subseteq Utf8Byte
      /\ "00" \in Utf8Byte /\ "c2" \in Utf8Byte
      /\ Lead3 \subseteq Lead /\ Lead4 \subseteq Lead /\ "00" \in Lead /\ "c2" \in Lead
  BY DEF Utf8Byte, Lead
<1>2. <<"00">> \in Code
  <2>1. <<"00">> \in Seq(Utf8Byte) /\ <<"00">> # << >> /\ Len(<<"00">>) = 1
    BY <1>1
  <2> QED
    BY <1>1, <2>1, ExtraIs DEF Code
<1>3. ASSUME NEW x \in Cont
      PROVE  <<"c2", x>> \in Code
  <2>1. <<"c2", x>> \in Seq(Utf8Byte) /\ <<"c2", x>> # << >> /\ Len(<<"c2", x>>) = 2
    BY <1>1
  <2>2. Second("c2") = Cont
    BY DEF Second
  <2>3. \A k \in 2..2 : <<"c2", x>>[k] \in Cont
    OBVIOUS
  <2> QED
    BY <1>1, <2>1, <2>2, <2>3, ExtraIs DEF Code
<1>4. ASSUME NEW l \in Lead3, NEW x \in Cont, NEW y \in Cont, x \in Second(l)
      PROVE  <<l, x, y>> \in Code
  <2>1. <<l, x, y>> \in Seq(Utf8Byte) /\ <<l, x, y>> # << >> /\ Len(<<l, x, y>>) = 3
    BY <1>1
  <2>2. \A k \in 2..3 : <<l, x, y>>[k] \in Cont
    OBVIOUS
  <2> QED
    BY <1>1, <1>4, <2>1, <2>2, ExtraIs DEF Code
<1>5. ASSUME NEW l \in Lead4, NEW x \in Cont, NEW y \in Cont, NEW z \in Cont, x \in Second(l)
      PROVE  <<l, x, y, z>> \in Code
  <2>1. <<l, x, y, z>> \in Seq(Utf8Byte) /\ <<l, x, y, z>> # << >> /\ Len(<<l, x, y, z>>) = 4
    BY <1>1
  <2>2. \A k \in 2..4 : <<l, x, y, z>>[k] \in Cont
    OBVIOUS
  <2> QED
    BY <1>1, <1>5, <2>1, <2>2, ExtraIs DEF Code
<1> QED
  BY <1>2, <1>3, <1>4, <1>5

LEMMA UnitIs ==
  /\ \A u \in Unit : u.kind \in {"bmp", "hi", "lo"} /\ u = [kind |-> u.kind, bytes |-> u.bytes]
  /\ \A u \in Unit : u.kind = "bmp" =>
       u.bytes \in {<<"00">>} \cup ({"c2"} \X Cont) \cup Stems(Lead3)
  /\ \A u \in Unit : u.kind = "hi" => u.bytes \in Stems(Lead4)
  /\ \A u \in Unit : u.kind = "lo" => \E x \in Cont : u.bytes = <<x>>
BY DEF Unit

LEMMA StemsIs ==
  ASSUME NEW L, NEW c
  PROVE  c \in Stems(L) <=> \E l \in L, x, y \in Cont : x \in Second(l) /\ c = <<l, x, y>>
BY DEF Stems

(***************************************************************************)
(* The units of a character, and the character of one or two units.        *)
(***************************************************************************)
LEMMA CodeUnitsAre ==
  ASSUME NEW c \in Code
  PROVE  /\ codeUnits(c) \in Seq(Unit)
         /\ \/ /\ codeUnits(c) = <<[kind |-> "bmp", bytes |-> c]>>
               /\ [kind |-> "bmp", bytes |-> c] \in Unit
            \/ \E h \in Stems(Lead4), z \in Cont :
                 /\ codeUnits(c) = <<[kind |-> "hi", bytes |-> h], [kind |-> "lo", bytes |-> <<z>>]>>
                 /\ [kind |-> "hi", bytes |-> h] \in Unit /\ [kind |-> "lo", bytes |-> <<z>>] \in Unit
                 /\ c = h \o <<z>>
<1>1. CASE \/ c = <<"00">>
           \/ \E x \in Cont : c = <<"c2", x>>
           \/ \E l \in Lead3, x, y \in Cont : x \in Second(l) /\ c = <<l, x, y>>
  <2>1. Len(c) # 4
    BY <1>1
  <2>2. c \in {<<"00">>} \cup ({"c2"} \X Cont) \cup Stems(Lead3)
    BY <1>1, StemsIs
  <2>3. [kind |-> "bmp", bytes |-> c] \in Unit
    BY <2>2 DEF Unit
  <2>4. codeUnits(c) = <<[kind |-> "bmp", bytes |-> c]>>
    BY <2>1 DEF codeUnits
  <2> QED
    BY <2>3, <2>4
<1>2. ASSUME NEW l \in Lead4, NEW x \in Cont, NEW y \in Cont, NEW z \in Cont,
             x \in Second(l), c = <<l, x, y, z>>
      PROVE  /\ codeUnits(c) \in Seq(Unit)
             /\ \E h \in Stems(Lead4) :
                 /\ codeUnits(c) = <<[kind |-> "hi", bytes |-> h], [kind |-> "lo", bytes |-> <<z>>]>>
                 /\ [kind |-> "hi", bytes |-> h] \in Unit /\ [kind |-> "lo", bytes |-> <<z>>] \in Unit
                 /\ c = h \o <<z>>
  <2> DEFINE h == <<l, x, y>>
             hi == [kind |-> "hi", bytes |-> h]
             lo == [kind |-> "lo", bytes |-> <<z>>]
  <2>1. h \in Stems(Lead4) /\ c = h \o <<z>>
    BY <1>2, StemsIs
  <2>2. codeUnits(c) = <<hi, lo>>
    <3>1. Len(c) = 4 /\ c[1] = l /\ c[2] = x /\ c[3] = y /\ c[4] = z
      BY <1>2
    <3> QED
      BY <3>1 DEF codeUnits
  <2>3. hi \in Unit /\ lo \in Unit
    BY <2>1 DEF Unit
  <2> HIDE DEF h, hi, lo
  <2>4. <<hi, lo>> \in Seq(Unit)
    BY <2>3
  <2> QED
    BY <2>1, <2>2, <2>3, <2>4 DEF hi, lo
<1>3. CASE \E l \in Lead4, x, y, z \in Cont : x \in Second(l) /\ c = <<l, x, y, z>>
  <2>1. PICK l \in Lead4, x \in Cont, y \in Cont, z \in Cont :
          x \in Second(l) /\ c = <<l, x, y, z>>
    BY <1>3
  <2> QED
    BY <1>2, <2>1
<1>4. \/ \/ c = <<"00">>
         \/ \E x \in Cont : c = <<"c2", x>>
         \/ \E l \in Lead3, x, y \in Cont : x \in Second(l) /\ c = <<l, x, y>>
      \/ \E l \in Lead4, x, y, z \in Cont : x \in Second(l) /\ c = <<l, x, y, z>>
  BY CodeForms
<1> QED
  BY <1>1, <1>3, <1>4

LEMMA UnitsOfCode ==
  /\ \A u \in Unit : u.kind = "bmp" => u.bytes \in Code /\ codeUnits(u.bytes) = <<u>>
  /\ \A h, l \in Unit : h.kind = "hi" /\ l.kind = "lo" => \E c \in Code : codeUnits(c) = <<h, l>>
<1>1. ASSUME NEW u \in Unit, u.kind = "bmp"
      PROVE  u.bytes \in Code /\ codeUnits(u.bytes) = <<u>>
  <2> DEFINE c == u.bytes
  <2>1. c \in {<<"00">>} \cup ({"c2"} \X Cont) \cup Stems(Lead3)
    BY <1>1, UnitIs
  <2>2. \/ c = <<"00">>
        \/ \E x \in Cont : c = <<"c2", x>>
        \/ \E l \in Lead3, x, y \in Cont : x \in Second(l) /\ c = <<l, x, y>>
    BY <2>1, StemsIs
  <2> HIDE DEF c
  <2>3. Len(c) # 4 /\ c \in Code
    <3>1. Len(c) # 4
      BY <2>2
    <3>2. c \in Code
      BY <2>2, FormsAreCodes
    <3> QED
      BY <3>1, <3>2
  <2>4. codeUnits(c) = <<[kind |-> "bmp", bytes |-> c]>>
    BY <2>3 DEF codeUnits
  <2>5. u = [kind |-> "bmp", bytes |-> c]
    BY <1>1, UnitIs DEF c
  <2> QED
    BY <2>3, <2>4, <2>5 DEF c
<1>2. ASSUME NEW h \in Unit, NEW l \in Unit, h.kind = "hi", l.kind = "lo"
      PROVE  \E c \in Code : codeUnits(c) = <<h, l>>
  <2>1. PICK b \in Lead4, x \in Cont, y \in Cont : x \in Second(b) /\ h.bytes = <<b, x, y>>
    BY <1>2, UnitIs, StemsIs
  <2>2. PICK z \in Cont : l.bytes = <<z>>
    BY <1>2, UnitIs
  <2> DEFINE c == <<b, x, y, z>>
  <2>3. c \in Code
    BY <2>1, FormsAreCodes
  <2>4. /\ h = [kind |-> "hi", bytes |-> <<b, x, y>>]
        /\ l = [kind |-> "lo", bytes |-> <<z>>]
    BY <1>2, <2>1, <2>2, UnitIs
  <2>5. Len(c) = 4 /\ c[1] = b /\ c[2] = x /\ c[3] = y /\ c[4] = z
    OBVIOUS
  <2> HIDE DEF c
  <2>6. codeUnits(c) = <<h, l>>
    BY <2>4, <2>5 DEF codeUnits
  <2> QED
    BY <2>3, <2>6
<1> QED
  BY <1>1, <1>2

LEMMA Utf8Maps ==
  /\ Maps(unitBytes, Unit, Utf8Byte)
  /\ Maps(Spell, Code, Utf8Byte) /\ Maps(CodeUnits, Code, Unit)
  /\ \A u \in Unit : unitBytes[u] = u.bytes
<1>1. /\ Cont \subseteq Utf8Byte /\ Lead3 \subseteq Utf8Byte /\ Lead4 \subseteq Utf8Byte
      /\ "00" \in Utf8Byte /\ "c2" \in Utf8Byte
  BY DEF Utf8Byte
<1>2. \A u \in Unit : unitBytes[u] = u.bytes
  BY DEF unitBytes
<1>3. ASSUME NEW u \in Unit
      PROVE  u.bytes \in Seq(Utf8Byte)
  <2>1. CASE u.kind = "bmp"
    BY <2>1, UnitsOfCode, CodeIs
  <2>2. CASE u.kind = "hi"
    <3>1. PICK b \in Lead4, x \in Cont, y \in Cont : u.bytes = <<b, x, y>>
      BY <2>2, UnitIs, StemsIs
    <3> QED
      BY <1>1, <3>1
  <2>3. CASE u.kind = "lo"
    <3>1. PICK z \in Cont : u.bytes = <<z>>
      BY <2>3, UnitIs
    <3> QED
      BY <1>1, <3>1
  <2> QED
    BY <2>1, <2>2, <2>3, UnitIs
<1>4. Maps(Spell, Code, Utf8Byte) /\ Maps(CodeUnits, Code, Unit)
  BY CodeIs, CodeUnitsAre DEF Maps, Spell, CodeUnits
<1> QED
  BY <1>2, <1>3, <1>4 DEF Maps

(***************************************************************************)
(* Valid bytes stay valid with one more character, and are what is left    *)
(* when the last character, whose lead byte is the last one there is, is   *)
(* taken off.                                                              *)
(***************************************************************************)
LEMMA ValidIs ==
  ASSUME NEW b \in Seq(Utf8Byte)
  PROVE  utf8_is_valid(b) <=>
           \A i \in 1..Len(b) :
             /\ b[i] # "ff"
             /\ b[i] \notin Cont => i + Extra(b[i]) <= Len(b)
             /\ b[i] \in Cont <=>
                  \E j \in 1..(i - 1) : b[j] \notin Cont /\ i - j <= Extra(b[j])
             /\ Extra(b[i]) > 0 => b[i + 1] \in Second(b[i])
<1>1. DOMAIN b = 1..Len(b)
  BY LenProperties
<1> QED
  BY <1>1 DEF utf8_is_valid

LEMMA CodeKeepsValid ==
  ASSUME NEW b \in Seq(Utf8Byte), utf8_is_valid(b), NEW c \in Code
  PROVE  b \o c \in Seq(Utf8Byte) /\ utf8_is_valid(b \o c)
<1> DEFINE n == Len(b)
           e == Extra(c[1])
           x == b \o c
<1>1. /\ n \in Nat /\ e \in 0..3 /\ c[1] \notin Cont \cup {"ff"}
      /\ e > 0 => c[2] \in Second(c[1])
  BY CodeIs, ExtraIs, LenProperties
<1>2. /\ x \in Seq(Utf8Byte) /\ Len(x) = n + 1 + e
      /\ \A i \in 1..n : x[i] = b[i]
      /\ x[n + 1] = c[1] /\ (e > 0 => x[n + 2] = c[2])
      /\ \A i \in (n + 2)..(n + 1 + e) : x[i] \in Cont
  <2>1. /\ x \in Seq(Utf8Byte) /\ Len(x) = n + (1 + e)
        /\ \A i \in 1..(n + (1 + e)) : x[i] = IF i <= n THEN b[i] ELSE c[i - n]
    <3>1. c \in Seq(Utf8Byte) /\ Len(c) = 1 + e
      BY CodeIs
    <3> HIDE DEF e
    <3> QED
      BY <3>1, ConcatProperties
  <2> HIDE DEF n, e, x
  <2>2. \A k \in 2..(1 + e) : c[k] \in Cont
    BY CodeIs DEF e
  <2>3. \A i \in 1..n : x[i] = b[i]
    BY <1>1, <2>1
  <2>4. x[n + 1] = c[1]
    <3>1. n + 1 \in 1..(n + (1 + e)) /\ ~(n + 1 <= n) /\ (n + 1) - n = 1
      BY <1>1
    <3> QED
      BY <2>1, <3>1
  <2>5. e > 0 => x[n + 2] = c[2]
    <3>1. e > 0 => n + 2 \in 1..(n + (1 + e)) /\ ~(n + 2 <= n) /\ (n + 2) - n = 2
      BY <1>1
    <3> QED
      BY <2>1, <3>1
  <2>6. ASSUME NEW i \in (n + 2)..(n + 1 + e)
        PROVE  x[i] \in Cont
    <3>1. i \in 1..(n + (1 + e)) /\ ~(i <= n) /\ i - n \in 2..(1 + e)
      BY <1>1
    <3> QED
      BY <2>1, <2>2, <3>1
  <2> QED
    BY <1>1, <2>1, <2>3, <2>4, <2>5, <2>6
<1>3. \A i \in 1..n :
        /\ b[i] # "ff" /\ b[i] \in Utf8Byte /\ Extra(b[i]) \in 0..3
        /\ b[i] \notin Cont => i + Extra(b[i]) <= n
        /\ b[i] \in Cont <=>
             \E j \in 1..(i - 1) : b[j] \notin Cont /\ i - j <= Extra(b[j])
        /\ Extra(b[i]) > 0 => b[i + 1] \in Second(b[i])
  BY ValidIs, ExtraIs
<1>4. \A i \in 1..n : b[i] \in Cont => Extra(b[i]) = 0
  BY ExtraIs
<1> HIDE DEF n, x
<1>5. ASSUME NEW i \in 1..(n + 1 + e)
      PROVE  /\ x[i] # "ff"
             /\ x[i] \notin Cont => i + Extra(x[i]) <= n + 1 + e
             /\ x[i] \in Cont <=>
                  \E j \in 1..(i - 1) : x[j] \notin Cont /\ i - j <= Extra(x[j])
             /\ Extra(x[i]) > 0 => x[i + 1] \in Second(x[i])
  <2>1. CASE i \in 1..n
    <3>1. x[i] = b[i] /\ \A j \in 1..(i - 1) : j \in 1..n /\ x[j] = b[j]
      BY <1>1, <1>2, <2>1
    <3>2. b[i] \notin Cont => i + Extra(b[i]) <= n + 1 + e
      BY <1>1, <1>3, <2>1
    <3>3. b[i] \in Cont <=> \E j \in 1..(i - 1) : b[j] \notin Cont /\ i - j <= Extra(b[j])
      BY <1>3, <2>1
    <3>4. Extra(b[i]) > 0 => i + 1 \in 1..n
      <4>1. Extra(b[i]) > 0 => i + Extra(b[i]) <= n /\ Extra(b[i]) \in 0..3
        BY <1>3, <1>4, <2>1
      <4> QED
        BY <1>1, <2>1, <4>1
    <3>5. Extra(b[i]) > 0 => x[i + 1] = b[i + 1]
      BY <1>2, <3>4
    <3> QED
      BY <1>3, <2>1, <3>1, <3>2, <3>3, <3>5
  <2>2. CASE i = n + 1
    <3>1. x[i] = c[1] /\ Extra(x[i]) = e /\ (e > 0 => x[i + 1] = c[2])
      <4>1. i + 1 = n + 2
        BY <1>1, <2>2
      <4> QED
        BY <1>2, <2>2, <4>1
    <3>2. ASSUME NEW j \in 1..n, b[j] \notin Cont, i - j <= Extra(b[j])
          PROVE  FALSE
      <4>1. j + Extra(b[j]) <= n /\ Extra(b[j]) \in 0..3
        BY <1>3, <3>2
      <4> HIDE DEF e
      <4> QED
        BY <1>1, <2>2, <3>2, <4>1
    <3>3. \A j \in 1..(i - 1) : j \in 1..n /\ x[j] = b[j]
      BY <1>1, <1>2, <2>2
    <3>4. ~\E j \in 1..(i - 1) : x[j] \notin Cont /\ i - j <= Extra(x[j])
      BY <3>2, <3>3
    <3>5. i + Extra(x[i]) <= n + 1 + e
      BY <1>1, <2>2, <3>1
    <3> QED
      BY <1>1, <3>1, <3>4, <3>5
  <2>3. CASE i \in (n + 2)..(n + 1 + e)
    <3>1. x[i] \in Cont /\ Extra(x[i]) = 0
      BY <1>2, <2>3, ExtraIs
    <3>2. n + 1 \in 1..(i - 1) /\ i - (n + 1) <= e
      BY <1>1, <2>3
    <3>3. x[n + 1] \notin Cont /\ Extra(x[n + 1]) = e
      BY <1>1, <1>2
    <3>4. x[i] # "ff" /\ ~(Extra(x[i]) > 0)
      BY <3>1 DEF Cont
    <3> QED
      BY <3>1, <3>2, <3>3, <3>4
  <2> QED
    BY <1>1, <2>1, <2>2, <2>3
<1>6. utf8_is_valid(x)
  BY <1>2, <1>5, ValidIs
<1> QED
  BY <1>2, <1>6 DEF x

LEMMA LastCode ==
  ASSUME NEW b \in Seq(Utf8Byte), utf8_is_valid(b), b # << >>
  PROVE  \E h \in Seq(Utf8Byte), c \in Code :
           utf8_is_valid(h) /\ b = h \o c /\ Len(h) < Len(b)
<1> DEFINE n == Len(b)
           Leads == {i \in 1..n : b[i] \notin Cont}
<1>1. n \in Nat \ {0} /\ \A i \in 1..n : b[i] \in Utf8Byte
  BY EmptySeq, LenProperties
<1>2. \A i \in 1..n :
        /\ b[i] # "ff" /\ Extra(b[i]) \in 0..3
        /\ b[i] \notin Cont => i + Extra(b[i]) <= n
        /\ b[i] \in Cont <=>
             \E j \in 1..(i - 1) : b[j] \notin Cont /\ i - j <= Extra(b[j])
        /\ Extra(b[i]) > 0 => b[i + 1] \in Second(b[i])
        /\ b[i] \in Cont => Extra(b[i]) = 0
  BY <1>1, ExtraIs, ValidIs
<1> HIDE DEF n
<1>3. 1 \in Leads /\ Leads \subseteq 0..n
  <2>1. 1 \in 1..n /\ ~\E j \in 1..(1 - 1) : TRUE
    BY <1>1
  <2> QED
    BY <1>1, <1>2, <2>1
<1>4. PICK j \in Leads : \A i \in Leads : i <= j
  BY <1>1, <1>3, GreatestNatural
<1> DEFINE e == Extra(b[j])
           h == [k \in 1..(j - 1) |-> b[k]]
           c == [k \in 1..(1 + e) |-> b[(j - 1) + k]]
<1>5. j \in 1..n /\ b[j] \in Lead /\ e \in 0..3 /\ j + e <= n
  BY <1>1, <1>2, <1>4, ExtraIs
<1>6. \A i \in (j + 1)..n : b[i] \in Cont
  <2> SUFFICES ASSUME NEW i \in (j + 1)..n, b[i] \notin Cont
               PROVE  FALSE
    OBVIOUS
  <2>1. i \in Leads /\ ~(i <= j)
    BY <1>1, <1>5
  <2> QED
    BY <1>4, <2>1
<1>7. ASSUME NEW i \in 1..(j - 1), b[i] \notin Cont
      PROVE  i + Extra(b[i]) <= j - 1
  <2>1. ~(j - i <= Extra(b[i]))
    BY <1>2, <1>4, <1>5, <1>7
  <2>2. i \in 1..n /\ Extra(b[i]) \in 0..3
    BY <1>1, <1>2, <1>5
  <2> QED
    BY <1>1, <1>5, <2>1, <2>2
<1> HIDE DEF Leads
<1>8. n = j + e
  <2> SUFFICES ASSUME n > j + e
               PROVE  FALSE
    BY <1>1, <1>5
  <2>1. n \in (j + 1)..n /\ n \in 1..n
    BY <1>1, <1>5
  <2>2. PICK i \in 1..(n - 1) : b[i] \notin Cont /\ n - i <= Extra(b[i])
    BY <1>2, <1>6, <2>1
  <2> HIDE DEF e, h, c
  <2>3. CASE i = j
    BY <1>1, <1>5, <2>2, <2>3 DEF e
  <2>4. CASE i \in 1..(j - 1)
    <3>1. i + Extra(b[i]) <= j - 1 /\ Extra(b[i]) \in 0..3
      BY <1>1, <1>2, <1>5, <1>7, <2>2, <2>4
    <3> QED
      BY <1>1, <1>5, <2>2, <3>1
  <2>5. CASE i \in (j + 1)..n
    BY <1>6, <2>2, <2>5
  <2> QED
    BY <1>1, <1>5, <2>3, <2>4, <2>5
<1>9. h \in Seq(Utf8Byte) /\ Len(h) = j - 1 /\ \A k \in 1..(j - 1) : h[k] = b[k]
  <2>1. j - 1 \in Nat /\ \A k \in 1..(j - 1) : b[k] \in Utf8Byte
    BY <1>1, <1>5
  <2> HIDE DEF c, e
  <2> QED
    BY <2>1
<1>10. /\ c \in Seq(Utf8Byte) /\ Len(c) = 1 + e
       /\ \A k \in 1..(1 + e) : c[k] = b[(j - 1) + k]
  <2>1. 1 + e \in Nat /\ \A k \in 1..(1 + e) : (j - 1) + k \in 1..n
    BY <1>1, <1>5
  <2> HIDE DEF e, h
  <2>2. \A k \in 1..(1 + e) : b[(j - 1) + k] \in Utf8Byte
    BY <1>1, <2>1
  <2> QED
    BY <2>1, <2>2
<1>11. c \in Code
  <2> HIDE DEF c, h
  <2>1. c[1] = b[j]
    <3>1. 1 \in 1..(1 + e) /\ (j - 1) + 1 = j
      BY <1>5
    <3> QED
      BY <1>10, <3>1
  <2>2. \A k \in 2..Len(c) : c[k] \in Cont
    <3>1. \A k \in 2..(1 + e) : k \in 1..(1 + e) /\ (j - 1) + k \in (j + 1)..n
      BY <1>1, <1>5, <1>8
    <3> QED
      BY <1>6, <1>10, <3>1
  <2>3. Extra(c[1]) > 0 => c[2] \in Second(c[1])
    <3>1. e > 0 => 2 \in 1..(1 + e) /\ (j - 1) + 2 = j + 1
      BY <1>5
    <3> QED
      BY <1>2, <1>5, <1>10, <2>1, <3>1
  <2>4. c # << >>
    BY <1>5, <1>10, EmptySeq
  <2> QED
    BY <1>5, <1>10, <2>1, <2>2, <2>3, <2>4 DEF Code
<1> HIDE DEF c, e, h
<1>12. utf8_is_valid(h)
  <2>1. ASSUME NEW i \in 1..(j - 1)
        PROVE  /\ h[i] # "ff"
               /\ h[i] \notin Cont => i + Extra(h[i]) <= j - 1
               /\ h[i] \in Cont <=>
                    \E k \in 1..(i - 1) : h[k] \notin Cont /\ i - k <= Extra(h[k])
               /\ Extra(h[i]) > 0 => h[i + 1] \in Second(h[i])
    <3>1. i \in 1..n /\ h[i] = b[i] /\ \A k \in 1..(i - 1) : h[k] = b[k]
      BY <1>1, <1>5, <1>9
    <3>2. Extra(b[i]) > 0 => i + Extra(b[i]) <= j - 1 /\ Extra(b[i]) \in 0..3
      BY <1>2, <1>7, <3>1
    <3>3. Extra(b[i]) > 0 => i + 1 \in 1..(j - 1)
      BY <1>5, <3>2
    <3> QED
      BY <1>2, <1>7, <1>9, <3>1, <3>3
  <2> QED
    BY <1>9, <2>1, ValidIs
<1>13. b = h \o c
  <2> DEFINE x == h \o c
  <2>1. /\ x \in Seq(Utf8Byte) /\ Len(x) = Len(h) + Len(c)
        /\ \A i \in 1..(Len(h) + Len(c)) :
             x[i] = IF i <= Len(h) THEN h[i] ELSE c[i - Len(h)]
    BY <1>9, <1>10, ConcatProperties
  <2> HIDE DEF x
  <2>2. Len(h) + Len(c) = n
    BY <1>1, <1>5, <1>8, <1>9, <1>10
  <2>3. ASSUME NEW i \in 1..n
        PROVE  b[i] = x[i]
    <3>1. x[i] = IF i <= j - 1 THEN h[i] ELSE c[i - (j - 1)]
      BY <1>9, <2>1, <2>2
    <3>2. CASE i \in 1..(j - 1)
      BY <1>5, <1>9, <3>1, <3>2
    <3>3. CASE i \in j..n
      <4>1. ~(i <= j - 1) /\ i - (j - 1) \in 1..(1 + e) /\ (j - 1) + (i - (j - 1)) = i
        BY <1>1, <1>5, <1>8, <3>3
      <4> QED
        BY <1>10, <3>1, <4>1
    <3> QED
      BY <1>1, <1>5, <3>2, <3>3
  <2>4. Len(x) = Len(b)
    BY <2>1, <2>2 DEF n
  <2> QED
    BY <2>1, <2>3, <2>4, SeqEqual DEF x, n
<1>14. Len(h) < Len(b)
  BY <1>1, <1>5, <1>9 DEF n
<1> QED
  BY <1>9, <1>11, <1>12, <1>13, <1>14

LEMMA FlatMapProperties ==
  ASSUME NEW A, NEW B, NEW f, Maps(f, A, B)
  PROVE  /\ FlatMap(f, << >>) = << >>
         /\ \A e \in A : FlatMap(f, <<e>>) = f[e] /\ f[e] \in Seq(B)
         /\ \A s \in Seq(A) : FlatMap(f, s) \in Seq(B)
         /\ \A s, t \in Seq(A) : FlatMap(f, s \o t) = FlatMap(f, s) \o FlatMap(f, t)
<1>1. FlatMap(f, << >>) = << >> /\ \A s \in Seq(A) : FlatMap(f, s) \in Seq(B)
  BY FlatMapIs
<1>2. \A e \in A : FlatMap(f, <<e>>) = f[e] /\ f[e] \in Seq(B)
  BY FlatMapOne DEF Maps
<1>3. \A s, t \in Seq(A) : FlatMap(f, s \o t) = FlatMap(f, s) \o FlatMap(f, t)
  BY FlatMapConcat
<1> QED
  BY <1>1, <1>2, <1>3

LEMMA EncodeMap ==
  /\ FlatMap(unitBytes, << >>) = << >>
  /\ \A e \in Unit : FlatMap(unitBytes, <<e>>) = e.bytes /\ e.bytes \in Seq(Utf8Byte)
  /\ \A s \in Seq(Unit) : FlatMap(unitBytes, s) \in Seq(Utf8Byte)
  /\ \A s, t \in Seq(Unit) :
       FlatMap(unitBytes, s \o t) = FlatMap(unitBytes, s) \o FlatMap(unitBytes, t)
<1>1. Maps(unitBytes, Unit, Utf8Byte) /\ \A u \in Unit : unitBytes[u] = u.bytes
  BY Utf8Maps
<1> QED
  BY <1>1, FlatMapProperties

LEMMA SpeltIs ==
  /\ bytesSpelt(<< >>) = << >> /\ unitsSpelt(<< >>) = << >>
  /\ \A cs \in Seq(Code) : bytesSpelt(cs) \in Seq(Utf8Byte) /\ unitsSpelt(cs) \in Seq(Unit)
  /\ \A cs \in Seq(Code), c \in Code :
       /\ bytesSpelt(Append(cs, c)) = bytesSpelt(cs) \o c
       /\ unitsSpelt(Append(cs, c)) = unitsSpelt(cs) \o codeUnits(c)
<1>1. /\ FlatMap(Spell, << >>) = << >>
      /\ \A cs \in Seq(Code) : FlatMap(Spell, cs) \in Seq(Utf8Byte)
      /\ \A cs \in Seq(Code), c \in Code :
           FlatMap(Spell, Append(cs, c)) = FlatMap(Spell, cs) \o Spell[c]
  BY Utf8Maps, FlatMapIs
<1>2. /\ FlatMap(CodeUnits, << >>) = << >>
      /\ \A cs \in Seq(Code) : FlatMap(CodeUnits, cs) \in Seq(Unit)
      /\ \A cs \in Seq(Code), c \in Code :
           FlatMap(CodeUnits, Append(cs, c)) = FlatMap(CodeUnits, cs) \o CodeUnits[c]
  BY Utf8Maps, FlatMapIs
<1>3. \A c \in Code : Spell[c] = c /\ CodeUnits[c] = codeUnits(c)
  BY DEF Spell, CodeUnits
<1> QED
  BY <1>1, <1>2, <1>3 DEF bytesSpelt, unitsSpelt

(***************************************************************************)
(* The valid bytes are the ones that some characters spell.                *)
(***************************************************************************)
LEMMA SpeltBytesValid ==
  \A cs \in Seq(Code) : utf8_is_valid(bytesSpelt(cs))
<1> DEFINE S == {cs \in Seq(Code) : utf8_is_valid(bytesSpelt(cs))}
<1>1. << >> \in S
  <2>1. DOMAIN << >> = {}
    OBVIOUS
  <2>2. utf8_is_valid(<< >>)
    BY <2>1 DEF utf8_is_valid
  <2> QED
    BY <2>2, SpeltIs, EmptySeq
<1>2. ASSUME NEW cs \in Seq(Code), NEW c \in Code, cs \in S
      PROVE  Append(cs, c) \in S
  <2>1. Append(cs, c) \in Seq(Code)
    OBVIOUS
  <2> QED
    BY <1>2, <2>1, SpeltIs, CodeKeepsValid
<1> HIDE DEF S
<1>3. Seq(Code) \subseteq S
  BY <1>1, <1>2, AppendInduction
<1> QED
  BY <1>3 DEF S

LEMMA ValidBytesSpelt ==
  ASSUME NEW b \in Seq(Utf8Byte), utf8_is_valid(b)
  PROVE  \E cs \in Seq(Code) : b = bytesSpelt(cs)
<1> DEFINE Odd == {x \in Seq(Utf8Byte) :
                     utf8_is_valid(x) /\ ~\E cs \in Seq(Code) : x = bytesSpelt(cs)}
<1> SUFFICES ASSUME Odd # {}
             PROVE  FALSE
  OBVIOUS
<1>1. PICK x \in Odd : \A y \in Odd : Len(x) <= Len(y)
  <2>1. Odd \subseteq Seq(Utf8Byte)
    OBVIOUS
  <2> HIDE DEF Odd
  <2> QED
    BY <2>1, Shortest
<1>2. x # << >>
  BY <1>1, SpeltIs, EmptySeq
<1>3. PICK h \in Seq(Utf8Byte), c \in Code :
        utf8_is_valid(h) /\ x = h \o c /\ Len(h) < Len(x)
  BY <1>2, LastCode
<1>4. h \notin Odd
  <2>1. Len(h) \in Nat /\ Len(x) \in Nat
    BY LenProperties
  <2> QED
    BY <1>1, <1>3, <2>1
<1>5. PICK cs \in Seq(Code) : h = bytesSpelt(cs)
  BY <1>3, <1>4
<1>6. x = bytesSpelt(Append(cs, c))
  <2>1. bytesSpelt(Append(cs, c)) = bytesSpelt(cs) \o c
    BY SpeltIs
  <2> QED
    BY <1>3, <1>5, <2>1
<1>7. Append(cs, c) \in Seq(Code)
  OBVIOUS
<1> QED
  BY <1>1, <1>6, <1>7

(***************************************************************************)
(* Decoding goes through the bytes one character after the other.          *)
(***************************************************************************)
pieces(b) == [i \in 1..Len(b) |-> unitsAt(b, i)]
decodedUnits(b) == FlattenSeq(pieces(b))
Piecewise == [kind : {"bmp", "hi", "lo"}, bytes : Seq(Utf8Byte)]

LEMMA PiecesIs ==
  ASSUME NEW b \in Seq(Utf8Byte), utf8_is_valid(b)
  PROVE  /\ pieces(b) \in Seq(Seq(Piecewise)) /\ Len(pieces(b)) = Len(b)
         /\ \A i \in 1..Len(b) : pieces(b)[i] = unitsAt(b, i)
<1>1. Len(b) \in Nat
  BY LenProperties
<1>2. ASSUME NEW s \in Seq(Utf8Byte)
      PROVE  codeUnits(s) \in Seq(Piecewise)
  <2>1. CASE Len(s) = 4
    <3>1. s[1] \in Utf8Byte /\ s[2] \in Utf8Byte /\ s[3] \in Utf8Byte /\ s[4] \in Utf8Byte
      <4>1. \A k \in 1..Len(s) : s[k] \in Utf8Byte
        BY ElementOfSeq
      <4>2. 1 \in 1..4 /\ 2 \in 1..4 /\ 3 \in 1..4 /\ 4 \in 1..4
        OBVIOUS
      <4> QED
        BY <2>1, <4>1, <4>2
    <3>2. <<s[1], s[2], s[3]>> \in Seq(Utf8Byte) /\ <<s[4]>> \in Seq(Utf8Byte)
      BY <3>1
    <3>3. /\ [kind |-> "hi", bytes |-> <<s[1], s[2], s[3]>>] \in Piecewise
          /\ [kind |-> "lo", bytes |-> <<s[4]>>] \in Piecewise
      BY <3>2 DEF Piecewise
    <3> QED
      BY <2>1, <3>3 DEF codeUnits
  <2>2. CASE Len(s) # 4
    <3>1. [kind |-> "bmp", bytes |-> s] \in Piecewise
      BY DEF Piecewise
    <3> QED
      BY <2>2, <3>1 DEF codeUnits
  <2> QED
    BY <2>1, <2>2
<1>3. ASSUME NEW i \in 1..Len(b)
      PROVE  unitsAt(b, i) \in Seq(Piecewise)
  <2>1. CASE b[i] \in Cont
    BY <2>1, EmptySeq DEF unitsAt
  <2>2. CASE b[i] \notin Cont
    <3> DEFINE e == Extra(b[i])
    <3>1. i + e <= Len(b) /\ e \in 0..3
      BY <2>2, ExtraIs, ValidIs
    <3>2. SubSeq(b, i, i + e) \in Seq(Utf8Byte)
      <4>1. \A k \in i..(i + e) : b[k] \in Utf8Byte
        BY <1>1, <3>1
      <4> HIDE DEF e
      <4> QED
        BY <1>1, <3>1, <4>1, SubSeqProperties
    <3> QED
      BY <1>2, <2>2, <3>2 DEF unitsAt
  <2> QED
    BY <2>1, <2>2
<1> QED
  BY <1>1, <1>3 DEF pieces

LEMMA DecodesPieces ==
  ASSUME NEW b \in Seq(Utf8Byte)
  PROVE  utf8_decode(b) = IF utf8_is_valid(b) THEN Decoded(decodedUnits(b)) ELSE NotDecoded
<1>1. DOMAIN b = 1..Len(b)
  BY LenProperties
<1> QED
  BY <1>1 DEF utf8_decode, decodedUnits, pieces

LEMMA FlattenDropsEmpty ==
  ASSUME NEW A, NEW s \in Seq(Seq(A))
  PROVE  FlattenSeq(Append(s, << >>)) = FlattenSeq(s)
<1>1. << >> \in Seq(A) /\ FlattenSeq(s) \in Seq(A)
  BY EmptySeq, FlattenIs
<1>2. FlattenSeq(Append(s, << >>)) = FlattenSeq(s) \o << >>
  BY <1>1, FlattenIs
<1> QED
  BY <1>1, <1>2, ConcatEmptySeq

LEMMA DecodesOneMore ==
  ASSUME NEW b \in Seq(Utf8Byte), utf8_is_valid(b), NEW c \in Code
  PROVE  decodedUnits(b \o c) = decodedUnits(b) \o codeUnits(c)
<1> DEFINE n == Len(b)
           e == Extra(c[1])
           x == b \o c
           m == n + 1 + e
           p == pieces(x)
<1>1. /\ n \in Nat /\ e \in 0..3 /\ Len(c) = 1 + e /\ c \in Seq(Utf8Byte)
      /\ c[1] \notin Cont /\ \A k \in 2..(1 + e) : c[k] \in Cont
  BY CodeIs, ExtraIs, LenProperties
<1>2. x \in Seq(Utf8Byte) /\ utf8_is_valid(x)
  BY CodeKeepsValid
<1>3. Len(x) = m /\ \A i \in 1..m : x[i] = IF i <= n THEN b[i] ELSE c[i - n]
  BY <1>1, ConcatProperties
<1>4. /\ p \in Seq(Seq(Piecewise)) /\ Len(p) = m
      /\ \A i \in 1..m : p[i] = unitsAt(x, i)
  BY <1>2, <1>3, PiecesIs
<1>5. /\ pieces(b) \in Seq(Seq(Piecewise)) /\ Len(pieces(b)) = n
      /\ \A i \in 1..n : pieces(b)[i] = unitsAt(b, i)
  BY PiecesIs
<1> HIDE DEF x, p, e, n
<1>6. ASSUME NEW i \in 1..n
      PROVE  p[i] = pieces(b)[i]
  <2>1. x[i] = b[i]
    BY <1>1, <1>3
  <2>0. i \in 1..m
    BY <1>1
  <2>2. CASE b[i] \in Cont
    <3>1. unitsAt(x, i) = << >> /\ unitsAt(b, i) = << >>
      BY <2>1, <2>2 DEF unitsAt
    <3> QED
      BY <1>4, <1>5, <2>0, <3>1
  <2>3. CASE b[i] \notin Cont
    <3> DEFINE f == Extra(b[i])
    <3>1. f \in 0..3 /\ i + f <= n
      <4>1. b[i] \in Utf8Byte
        BY DEF n
      <4> QED
        BY <2>3, <4>1, ExtraIs, ValidIs DEF n
    <3> HIDE DEF f
    <3>2. \A k \in i..(i + f) : x[k] = b[k]
      BY <1>1, <1>3, <3>1
    <3>3. SubSeq(x, i, i + f) = SubSeq(b, i, i + f)
      <4> DEFINE xs == SubSeq(x, i, i + f)
                 bs == SubSeq(b, i, i + f)
      <4>1. /\ i \in Int /\ i + f \in Int /\ i <= i + f
            /\ (i + f) - i + 1 = 1 + f
        BY <3>1
      <4>2. \A k \in i..(i + f) : b[k] \in Utf8Byte
        BY <3>1 DEF n
      <4>3. \A k \in i..(i + f) : x[k] \in Utf8Byte
        BY <3>2, <4>2
      <4>4. /\ xs \in Seq(Utf8Byte) /\ Len(xs) = 1 + f
            /\ \A k \in 1..(1 + f) : xs[k] = x[i + k - 1]
        BY <4>1, <4>3, SubSeqProperties
      <4>5. /\ bs \in Seq(Utf8Byte) /\ Len(bs) = 1 + f
            /\ \A k \in 1..(1 + f) : bs[k] = b[i + k - 1]
        BY <4>1, <4>2, SubSeqProperties
      <4> HIDE DEF xs, bs
      <4>6. ASSUME NEW k \in 1..(1 + f)
            PROVE  xs[k] = bs[k]
        <5>1. i + k - 1 \in i..(i + f)
          BY <3>1
        <5> QED
          BY <3>2, <4>4, <4>5, <5>1
      <4>7. xs = bs
        BY <4>4, <4>5, <4>6, SeqEqual
      <4> QED
        BY <4>7 DEF xs, bs
    <3>4. unitsAt(x, i) = unitsAt(b, i)
      BY <2>1, <2>3, <3>3 DEF unitsAt, f
    <3> QED
      BY <1>4, <1>5, <2>0, <3>4
  <2> QED
    BY <2>2, <2>3
<1>7. p[n + 1] = codeUnits(c)
  <2>1. x[n + 1] = c[1] /\ n + 1 \in 1..m
    <3>1. n + 1 \in 1..m /\ ~(n + 1 <= n) /\ (n + 1) - n = 1
      BY <1>1
    <3> QED
      BY <1>3, <3>1
  <2> DEFINE y == SubSeq(x, n + 1, n + 1 + e)
  <2>2. y = c
    <3>1. \A k \in (n + 1)..(n + 1 + e) : x[k] \in Utf8Byte
      BY <1>1, <1>2, <1>3
    <3>2. /\ y \in Seq(Utf8Byte) /\ Len(y) = 1 + e
          /\ \A k \in 1..(1 + e) : y[k] = x[n + k]
      <4>1. /\ y \in Seq(Utf8Byte) /\ Len(y) = (n + 1 + e) - (n + 1) + 1
            /\ \A k \in 1..((n + 1 + e) - (n + 1) + 1) : y[k] = x[(n + 1) + k - 1]
        BY <1>1, <3>1, SubSeqProperties
      <4> HIDE DEF y
      <4>2. (n + 1 + e) - (n + 1) + 1 = 1 + e /\ \A k \in 1..(1 + e) : (n + 1) + k - 1 = n + k
        BY <1>1
      <4> QED
        BY <4>1, <4>2
    <3> HIDE DEF y
    <3>3. ASSUME NEW k \in 1..(1 + e)
          PROVE  y[k] = c[k]
      <4>1. n + k \in 1..m /\ ~(n + k <= n) /\ (n + k) - n = k
        BY <1>1
      <4> QED
        BY <1>3, <3>2, <4>1
    <3> QED
      BY <1>1, <3>2, <3>3, SeqEqual
  <2> HIDE DEF y
  <2>3. unitsAt(x, n + 1) = codeUnits(y)
    BY <1>1, <2>1 DEF unitsAt, y, e
  <2> QED
    BY <1>4, <2>1, <2>2, <2>3
<1>8. ASSUME NEW i \in (n + 2)..m
      PROVE  p[i] = << >>
  <2>1. i \in 1..m /\ ~(i <= n) /\ i - n \in 2..(1 + e)
    BY <1>1
  <2>2. x[i] \in Cont
    BY <1>1, <1>3, <2>1
  <2> QED
    BY <1>4, <2>1, <2>2 DEF unitsAt
<1> DEFINE q(k) == [i \in 1..(n + 1 + k) |-> p[i]]
<1>9. ASSUME NEW k \in 0..e
      PROVE  /\ q(k) \in Seq(Seq(Piecewise)) /\ Len(q(k)) = n + 1 + k
             /\ \A i \in 1..(n + 1 + k) : q(k)[i] = p[i]
  <2>1. n + 1 + k \in Nat /\ \A i \in 1..(n + 1 + k) : i \in 1..m
    BY <1>1
  <2>2. \A i \in 1..(n + 1 + k) : p[i] \in Seq(Piecewise)
    BY <1>4, <2>1
  <2> QED
    BY <2>1, <2>2
<1> HIDE DEF q
<1>10. FlattenSeq(q(0)) = decodedUnits(b) \o codeUnits(c)
  <2>1. codeUnits(c) \in Seq(Piecewise)
    <3>1. n + 1 \in 1..m
      BY <1>1
    <3> QED
      BY <1>4, <1>7, <3>1
  <2> DEFINE a == Append(pieces(b), codeUnits(c))
  <2>2. /\ a \in Seq(Seq(Piecewise)) /\ Len(a) = n + 1
        /\ \A i \in 1..n : a[i] = pieces(b)[i]
        /\ a[n + 1] = codeUnits(c)
    BY <1>1, <1>5, <2>1
  <2> HIDE DEF a
  <2>3. 0 \in 0..e /\ n + 1 + 0 = n + 1
    BY <1>1
  <2>4. q(0) \in Seq(Seq(Piecewise)) /\ Len(q(0)) = n + 1 /\ \A i \in 1..(n + 1) : q(0)[i] = p[i]
    BY <1>9, <2>3
  <2>5. ASSUME NEW i \in 1..(n + 1)
        PROVE  q(0)[i] = a[i]
    <3>1. i \in 1..n \/ i = n + 1
      BY <1>1
    <3> QED
      BY <1>6, <1>7, <2>2, <2>4, <3>1
  <2>6. q(0) = a
    BY <2>2, <2>4, <2>5, SeqEqual
  <2>7. FlattenSeq(a) = FlattenSeq(pieces(b)) \o codeUnits(c)
    BY <1>5, <2>1, FlattenIs DEF a
  <2> QED
    BY <2>6, <2>7 DEF decodedUnits
<1>11. ASSUME NEW k \in 1..e
       PROVE  FlattenSeq(q(k)) = FlattenSeq(q(k - 1))
  <2>1. k \in 0..e /\ k - 1 \in 0..e /\ n + 1 + (k - 1) = n + k /\ n + 1 + k \in (n + 2)..m
    BY <1>1
  <2>2. /\ q(k) \in Seq(Seq(Piecewise)) /\ Len(q(k)) = n + 1 + k
        /\ \A i \in 1..(n + 1 + k) : q(k)[i] = p[i]
    BY <1>9, <2>1
  <2>3. /\ q(k - 1) \in Seq(Seq(Piecewise)) /\ Len(q(k - 1)) = n + k
        /\ \A i \in 1..(n + k) : q(k - 1)[i] = p[i]
    <3>1. /\ q(k - 1) \in Seq(Seq(Piecewise)) /\ Len(q(k - 1)) = n + 1 + (k - 1)
          /\ \A i \in 1..(n + 1 + (k - 1)) : q(k - 1)[i] = p[i]
      BY <1>9, <2>1
    <3> QED
      BY <2>1, <3>1
  <2> DEFINE a == Append(q(k - 1), << >>)
  <2>4. << >> \in Seq(Piecewise)
    BY EmptySeq
  <2>5. /\ a \in Seq(Seq(Piecewise)) /\ Len(a) = n + k + 1
        /\ \A i \in 1..(n + k) : a[i] = q(k - 1)[i]
        /\ a[n + k + 1] = << >>
    BY <2>3, <2>4, AppendProperties
  <2> HIDE DEF a
  <2>6. ASSUME NEW i \in 1..(n + 1 + k)
        PROVE  q(k)[i] = a[i]
    <3>1. i \in 1..(n + k) \/ (i = n + k + 1 /\ i = n + 1 + k)
      BY <1>1
    <3> QED
      BY <1>8, <2>1, <2>2, <2>3, <2>5, <3>1
  <2>7. n + k + 1 = n + 1 + k
    BY <1>1
  <2>8. q(k) = a
    BY <2>2, <2>5, <2>6, <2>7, SeqEqual
  <2> QED
    BY <2>3, <2>8, FlattenDropsEmpty DEF a
<1>12. q(e) = p
  <2>1. e \in 0..e
    BY <1>1
  <2>2. q(e) \in Seq(Seq(Piecewise)) /\ Len(q(e)) = m /\ \A i \in 1..m : q(e)[i] = p[i]
    BY <1>9, <2>1
  <2> QED
    BY <1>4, <2>2, SeqEqual
<1>13. FlattenSeq(q(e)) = FlattenSeq(q(0))
  <2>1. CASE e = 0
    BY <2>1
  <2>2. CASE e = 1
    BY <1>11, <2>2
  <2>3. CASE e = 2
    <3>1. FlattenSeq(q(2)) = FlattenSeq(q(2 - 1)) /\ FlattenSeq(q(1)) = FlattenSeq(q(1 - 1))
      BY <1>11, <2>3
    <3> QED
      BY <2>3, <3>1
  <2>4. CASE e = 3
    <3>1. /\ FlattenSeq(q(3)) = FlattenSeq(q(3 - 1)) /\ FlattenSeq(q(2)) = FlattenSeq(q(2 - 1))
          /\ FlattenSeq(q(1)) = FlattenSeq(q(1 - 1))
      BY <1>11, <2>4
    <3> QED
      BY <2>4, <3>1
  <2> QED
    BY <1>1, <2>1, <2>2, <2>3, <2>4
<1> QED
  BY <1>10, <1>12, <1>13 DEF decodedUnits, p, x

(***************************************************************************)
(* Encoding the units of one character.                                    *)
(***************************************************************************)
LEMMA EncodesOne ==
  ASSUME NEW c \in Code
  PROVE  FlatMap(unitBytes, codeUnits(c)) = c
<1>1. CASE /\ codeUnits(c) = <<[kind |-> "bmp", bytes |-> c]>>
           /\ [kind |-> "bmp", bytes |-> c] \in Unit
  <2> DEFINE u == [kind |-> "bmp", bytes |-> c]
  <2>1. u \in Unit /\ u.bytes = c
    BY <1>1
  <2>2. FlatMap(unitBytes, <<u>>) = u.bytes
    BY <2>1, EncodeMap
  <2> QED
    BY <1>1, <2>1, <2>2
<1>2. ASSUME NEW h \in Stems(Lead4), NEW z \in Cont,
             codeUnits(c) = <<[kind |-> "hi", bytes |-> h], [kind |-> "lo", bytes |-> <<z>>]>>,
             [kind |-> "hi", bytes |-> h] \in Unit, [kind |-> "lo", bytes |-> <<z>>] \in Unit,
             c = h \o <<z>>
      PROVE  FlatMap(unitBytes, codeUnits(c)) = c
  <2> DEFINE hi == [kind |-> "hi", bytes |-> h]
             lo == [kind |-> "lo", bytes |-> <<z>>]
  <2>1. hi \in Unit /\ lo \in Unit /\ hi.bytes = h /\ lo.bytes = <<z>>
    BY <1>2
  <2>2. codeUnits(c) = <<hi, lo>>
    BY <1>2
  <2> HIDE DEF hi, lo
  <2>3. <<hi>> \in Seq(Unit) /\ <<lo>> \in Seq(Unit) /\ <<hi, lo>> = <<hi>> \o <<lo>>
    <3>1. <<hi>> \in Seq(Unit) /\ <<lo>> \in Seq(Unit) /\ <<hi, lo>> = Append(<<hi>>, lo)
      BY <2>1
    <3> QED
      BY <2>1, <3>1, AppendIsConcat
  <2>4. FlatMap(unitBytes, <<hi>> \o <<lo>>) = FlatMap(unitBytes, <<hi>>) \o FlatMap(unitBytes, <<lo>>)
    BY <2>3, EncodeMap
  <2>5. FlatMap(unitBytes, <<hi>>) = h /\ FlatMap(unitBytes, <<lo>>) = <<z>>
    BY <2>1, EncodeMap
  <2> QED
    BY <1>2, <2>2, <2>3, <2>4, <2>5
<1> QED
  BY <1>1, <1>2, CodeUnitsAre

LEMMA SpeltDecodes ==
  \A cs \in Seq(Code) : /\ decodedUnits(bytesSpelt(cs)) = unitsSpelt(cs)
                        /\ FlatMap(unitBytes, unitsSpelt(cs)) = bytesSpelt(cs)
<1> DEFINE S == {cs \in Seq(Code) : /\ decodedUnits(bytesSpelt(cs)) = unitsSpelt(cs)
                                    /\ FlatMap(unitBytes, unitsSpelt(cs)) = bytesSpelt(cs)}
<1>0. /\ FlatMap(unitBytes, << >>) = << >>
      /\ \A x, y \in Seq(Unit) :
           FlatMap(unitBytes, x \o y) = FlatMap(unitBytes, x) \o FlatMap(unitBytes, y)
  BY EncodeMap
<1>1. << >> \in S
  <2>1. pieces(<< >>) = << >>
    BY DEF pieces
  <2>2. FlattenSeq(<< >>) = << >>
    BY FlattenIs
  <2> QED
    BY <1>0, <2>1, <2>2, SpeltIs, EmptySeq DEF decodedUnits
<1>2. ASSUME NEW cs \in Seq(Code), NEW c \in Code, cs \in S
      PROVE  Append(cs, c) \in S
  <2>1. Append(cs, c) \in Seq(Code)
    OBVIOUS
  <2>2. /\ bytesSpelt(cs) \in Seq(Utf8Byte) /\ utf8_is_valid(bytesSpelt(cs))
        /\ unitsSpelt(cs) \in Seq(Unit) /\ codeUnits(c) \in Seq(Unit)
    BY SpeltIs, SpeltBytesValid, CodeUnitsAre
  <2>3. /\ bytesSpelt(Append(cs, c)) = bytesSpelt(cs) \o c
        /\ unitsSpelt(Append(cs, c)) = unitsSpelt(cs) \o codeUnits(c)
    BY SpeltIs
  <2>4. decodedUnits(bytesSpelt(cs) \o c) = decodedUnits(bytesSpelt(cs)) \o codeUnits(c)
    BY <2>2, DecodesOneMore
  <2>5. FlatMap(unitBytes, unitsSpelt(cs) \o codeUnits(c))
          = FlatMap(unitBytes, unitsSpelt(cs)) \o FlatMap(unitBytes, codeUnits(c))
    BY <1>0, <2>2
  <2>6. /\ decodedUnits(bytesSpelt(cs)) = unitsSpelt(cs)
        /\ FlatMap(unitBytes, unitsSpelt(cs)) = bytesSpelt(cs)
    BY <1>2
  <2>7. FlatMap(unitBytes, codeUnits(c)) = c
    BY EncodesOne
  <2> QED
    BY <2>1, <2>3, <2>4, <2>5, <2>6, <2>7
<1> HIDE DEF S
<1>3. Seq(Code) \subseteq S
  BY <1>1, <1>2, AppendInduction
<1> QED
  BY <1>3 DEF S

(***************************************************************************)
(* The strings without a lone surrogate are the ones that some characters  *)
(* spell.  What the binding makes of a string is one of them, and it makes *)
(* nothing else of one of them.                                            *)
(***************************************************************************)
WellFormed(u) == \A i \in DOMAIN u : ~Lone(u, i)

LEMMA WellFormedIs ==
  ASSUME NEW u \in Seq(Unit)
  PROVE  WellFormed(u) <=>
           \A i \in 1..Len(u) :
             /\ u[i].kind = "hi" => i < Len(u) /\ u[i + 1].kind = "lo"
             /\ u[i].kind = "lo" => i > 1 /\ u[i - 1].kind = "hi"
<1>1. DOMAIN u = 1..Len(u) /\ Len(u) \in Nat
  BY LenProperties
<1>2. ASSUME NEW i \in 1..Len(u)
      PROVE  i > 1 => (Paired(u, i - 1) <=> u[i - 1].kind = "hi" /\ u[i].kind = "lo")
  <2>1. (i - 1) + 1 = i /\ i - 1 < Len(u)
    BY <1>1
  <2> QED
    BY <2>1 DEF Paired
<1> QED
  BY <1>1, <1>2 DEF WellFormed, Lone, Paired

LEMMA ReplacedIs ==
  ASSUME NEW t \in Seq(Unit)
  PROVE  /\ Replaced(t) \in Seq(Unit) /\ WellFormed(Replaced(t))
         /\ WellFormed(t) => Replaced(t) = t
<1> DEFINE n == Len(t)
           u == Replaced(t)
<1>0. Replacement \in Unit /\ Replacement.kind = "bmp"
  <2>1. "e1" \in Lead3 /\ "a0" \in Cont /\ Second("e1") = Cont
    BY DEF Lead3, Cont, Second
  <2>2. <<"e1", "a0", "a0">> \in Stems(Lead3)
    BY <2>1, StemsIs
  <2> QED
    BY <2>2 DEF Replacement, Unit
<1>1. n \in Nat /\ DOMAIN t = 1..n /\ t = [i \in 1..n |-> t[i]] /\ \A i \in 1..n : t[i] \in Unit
  BY LenProperties
<1>2. u = [i \in 1..n |-> IF Lone(t, i) THEN Replacement ELSE t[i]]
  BY <1>1 DEF Replaced
<1> HIDE DEF n, u
<1>3. /\ \A i \in 1..n : u[i] = IF Lone(t, i) THEN Replacement ELSE t[i]
      /\ \A i \in 1..n : u[i] \in Unit
  BY <1>0, <1>1, <1>2
<1>4. u \in Seq(Unit) /\ Len(u) = n
  <2>1. u \in [1..n -> Unit]
    BY <1>2, <1>3
  <2> QED
    BY <1>1, <2>1
<1>5. ASSUME NEW i \in 1..n, u[i].kind = "hi"
      PROVE  i < n /\ u[i + 1].kind = "lo"
  <2>1. t[i].kind = "hi" /\ Paired(t, i)
    BY <1>0, <1>3, <1>5 DEF Lone
  <2>2. i < n /\ t[i + 1].kind = "lo" /\ i + 1 \in 1..n /\ i + 1 > 1 /\ (i + 1) - 1 = i
    BY <1>1, <2>1 DEF Paired, n
  <2>3. ~Lone(t, i + 1)
    BY <2>1, <2>2 DEF Lone
  <2> QED
    BY <1>3, <2>2, <2>3
<1>6. ASSUME NEW i \in 1..n, u[i].kind = "lo"
      PROVE  i > 1 /\ u[i - 1].kind = "hi"
  <2>1. t[i].kind = "lo" /\ i > 1 /\ Paired(t, i - 1)
    BY <1>0, <1>3, <1>6 DEF Lone
  <2>2. t[i - 1].kind = "hi" /\ i - 1 \in 1..n
    BY <1>1, <2>1 DEF Paired
  <2>3. ~Lone(t, i - 1)
    BY <2>1, <2>2 DEF Lone
  <2> QED
    BY <1>3, <2>1, <2>2, <2>3
<1>7. WellFormed(u)
  BY <1>4, <1>5, <1>6, WellFormedIs
<1>8. WellFormed(t) => u = t
  <2> SUFFICES ASSUME WellFormed(t)
               PROVE  u = t
    OBVIOUS
  <2>1. \A i \in 1..n : u[i] = t[i]
    BY <1>1, <1>3 DEF WellFormed
  <2> QED
    BY <1>4, <2>1, SeqEqual DEF n
<1> QED
  BY <1>4, <1>7, <1>8 DEF u

LEMMA CharacterKeepsWellFormed ==
  ASSUME NEW u \in Seq(Unit), WellFormed(u), NEW c \in Code
  PROVE  WellFormed(u \o codeUnits(c))
<1> DEFINE n == Len(u)
           a == codeUnits(c)
           m == Len(a)
           x == u \o a
<1>1. n \in Nat /\ a \in Seq(Unit) /\ m \in Nat
  BY LenProperties, CodeUnitsAre
<1>2. /\ m \in 1..2
      /\ m = 1 => a[1].kind = "bmp"
      /\ m = 2 => a[1].kind = "hi" /\ a[2].kind = "lo"
  <2>1. \/ a = <<[kind |-> "bmp", bytes |-> c]>>
        \/ \E h, l : a = <<[kind |-> "hi", bytes |-> h], [kind |-> "lo", bytes |-> l]>>
    BY CodeUnitsAre
  <2> HIDE DEF a
  <2> QED
    BY <2>1
<1>3. /\ x \in Seq(Unit) /\ Len(x) = n + m
      /\ \A i \in 1..(n + m) : x[i] = IF i <= n THEN u[i] ELSE a[i - n]
  BY <1>1, ConcatProperties
<1>4. \A i \in 1..n : /\ u[i].kind = "hi" => i < n /\ u[i + 1].kind = "lo"
                      /\ u[i].kind = "lo" => i > 1 /\ u[i - 1].kind = "hi"
  BY WellFormedIs
<1> HIDE DEF n, a, m, x
<1>5. ASSUME NEW i \in 1..(n + m)
      PROVE  /\ x[i].kind = "hi" => i < n + m /\ x[i + 1].kind = "lo"
             /\ x[i].kind = "lo" => i > 1 /\ x[i - 1].kind = "hi"
  <2>1. CASE i \in 1..n
    <3>1. x[i] = u[i] /\ (i < n => x[i + 1] = u[i + 1]) /\ (i > 1 => x[i - 1] = u[i - 1])
      BY <1>1, <1>3, <2>1
    <3> QED
      BY <1>1, <1>4, <2>1, <3>1
  <2>2. CASE i = n + 1
    <3>1. x[i] = a[1] /\ (m = 2 => x[i + 1] = a[2])
      <4>1. ~(i <= n) /\ i - n = 1 /\ ~(i + 1 <= n) /\ (i + 1) - n = 2 /\ (m = 2 => i + 1 \in 1..(n + m))
        BY <1>1, <2>2
      <4> QED
        BY <1>3, <4>1
    <3> QED
      BY <1>1, <1>2, <2>2, <3>1
  <2>3. CASE i = n + 2
    <3>1. m = 2 /\ x[i] = a[2] /\ x[i - 1] = a[1]
      <4>1. /\ ~(i <= n) /\ i - n = 2 /\ ~(i - 1 <= n) /\ (i - 1) - n = 1 /\ i - 1 \in 1..(n + m)
            /\ m = 2
        BY <1>1, <1>2, <2>3
      <4> QED
        BY <1>3, <4>1
    <3> QED
      BY <1>1, <1>2, <2>3, <3>1
  <2> QED
    BY <1>1, <1>2, <2>1, <2>2, <2>3
<1>6. WellFormed(x)
  BY <1>3, <1>5, WellFormedIs
<1> QED
  BY <1>6 DEF x, a

LEMMA LastCharacter ==
  ASSUME NEW u \in Seq(Unit), WellFormed(u), u # << >>
  PROVE  \E h \in Seq(Unit), c \in Code :
           WellFormed(h) /\ u = h \o codeUnits(c) /\ Len(h) < Len(u)
<1> DEFINE n == Len(u)
<1>1. n \in Nat \ {0} /\ \A i \in 1..n : u[i] \in Unit
  BY EmptySeq, LenProperties
<1>2. \A i \in 1..n : /\ u[i].kind = "hi" => i < n /\ u[i + 1].kind = "lo"
                      /\ u[i].kind = "lo" => i > 1 /\ u[i - 1].kind = "hi"
  BY WellFormedIs
<1> HIDE DEF n
<1>3. PICK c \in Code, m \in 1..2 :
        /\ m <= n /\ Len(codeUnits(c)) = m
        /\ \A k \in 1..m : codeUnits(c)[k] = u[(n - m) + k]
        /\ n - m >= 1 => u[n - m].kind # "hi"
  <2>1. u[n].kind \in {"bmp", "lo"} /\ n \in 1..n /\ u[n] \in Unit
    BY <1>1, <1>2, UnitIs
  <2>2. CASE u[n].kind = "bmp"
    <3>1. PICK c \in Code : codeUnits(c) = <<u[n]>>
      BY <2>1, <2>2, UnitsOfCode
    <3>2. n - 1 >= 1 => u[n - 1].kind # "hi"
      <4>1. n - 1 >= 1 => n - 1 \in 1..n /\ (n - 1) + 1 = n
        BY <1>1
      <4> QED
        BY <1>2, <2>2, <4>1
    <3>3. (n - 1) + 1 = n /\ 1 \in 1..2 /\ 1 <= n
      BY <1>1
    <3>4. Len(codeUnits(c)) = 1 /\ \A k \in 1..1 : codeUnits(c)[k] = u[(n - 1) + k]
      BY <3>1, <3>3
    <3> QED
      BY <3>2, <3>3, <3>4
  <2>3. CASE u[n].kind = "lo"
    <3>1. n > 1 /\ u[n - 1].kind = "hi"
      BY <1>2, <2>1, <2>3
    <3>2. n - 2 >= 1 => u[n - 2].kind # "hi"
      <4>1. n - 2 >= 1 => n - 2 \in 1..n /\ (n - 2) + 1 = n - 1
        BY <1>1
      <4> QED
        BY <1>2, <3>1, <4>1
    <3>3. (n - 2) + 1 = n - 1 /\ (n - 2) + 2 = n /\ 2 \in 1..2 /\ 2 <= n
      BY <1>1, <3>1
    <3>4. PICK c \in Code : codeUnits(c) = <<u[n - 1], u[n]>>
      <4>1. u[n - 1] \in Unit
        BY <1>1, <3>1
      <4> QED
        BY <2>1, <2>3, <3>1, <4>1, UnitsOfCode
    <3>5. Len(codeUnits(c)) = 2 /\ \A k \in 1..2 : codeUnits(c)[k] = u[(n - 2) + k]
      BY <3>3, <3>4
    <3> QED
      BY <3>2, <3>3, <3>4, <3>5
  <2> QED
    BY <2>1, <2>2, <2>3
<1> DEFINE h == [i \in 1..(n - m) |-> u[i]]
<1>4. h \in Seq(Unit) /\ Len(h) = n - m /\ \A i \in 1..(n - m) : h[i] = u[i]
  <2>1. n - m \in Nat /\ \A i \in 1..(n - m) : u[i] \in Unit
    BY <1>1, <1>3
  <2> QED
    BY <2>1
<1> HIDE DEF h
<1>5. WellFormed(h)
  <2>1. ASSUME NEW i \in 1..(n - m)
        PROVE  /\ h[i].kind = "hi" => i < n - m /\ h[i + 1].kind = "lo"
               /\ h[i].kind = "lo" => i > 1 /\ h[i - 1].kind = "hi"
    <3>1. i \in 1..n /\ h[i] = u[i]
      BY <1>1, <1>4
    <3>2. h[i].kind = "hi" => i < n - m /\ h[i + 1].kind = "lo"
      <4>1. h[i].kind = "hi" => i # n - m /\ u[i + 1].kind = "lo"
        <5>1. i = n - m => n - m >= 1
          OBVIOUS
        <5> QED
          BY <1>2, <1>3, <3>1, <5>1
      <4>2. i # n - m => i < n - m /\ i + 1 \in 1..(n - m)
        BY <1>1, <1>3
      <4> QED
        BY <1>4, <4>1, <4>2
    <3>3. h[i].kind = "lo" => i > 1 /\ h[i - 1].kind = "hi"
      <4>1. h[i].kind = "lo" => i > 1 /\ u[i - 1].kind = "hi"
        BY <1>2, <3>1
      <4>2. i > 1 => i - 1 \in 1..(n - m)
        BY <1>1, <1>3
      <4> QED
        BY <1>4, <4>1, <4>2
    <3> QED
      BY <3>2, <3>3
  <2> QED
    BY <1>4, <2>1, WellFormedIs
<1>6. u = h \o codeUnits(c)
  <2> DEFINE a == codeUnits(c)
             x == h \o a
  <2>1. a \in Seq(Unit) /\ Len(a) = m
    BY <1>3, CodeUnitsAre
  <2>2. /\ x \in Seq(Unit) /\ Len(x) = (n - m) + m
        /\ \A i \in 1..((n - m) + m) : x[i] = IF i <= n - m THEN h[i] ELSE a[i - (n - m)]
    BY <1>4, <2>1, ConcatProperties
  <2>3. (n - m) + m = n
    BY <1>1
  <2> HIDE DEF a, x
  <2>4. ASSUME NEW i \in 1..n
        PROVE  u[i] = x[i]
    <3>1. CASE i <= n - m
      BY <1>1, <1>4, <2>2, <2>3, <3>1
    <3>2. CASE ~(i <= n - m)
      <4>1. i - (n - m) \in 1..m /\ (n - m) + (i - (n - m)) = i
        BY <1>1, <3>2
      <4> QED
        BY <1>3, <2>2, <2>3, <3>2, <4>1 DEF a
    <3> QED
      BY <3>1, <3>2
  <2>5. u = x
    BY <2>2, <2>3, <2>4, SeqEqual DEF n
  <2> QED
    BY <2>5 DEF x, a
<1>7. Len(h) < Len(u)
  BY <1>1, <1>3, <1>4 DEF n
<1> QED
  BY <1>4, <1>5, <1>6, <1>7

LEMMA SpeltUnitsWellFormed ==
  \A cs \in Seq(Code) : WellFormed(unitsSpelt(cs))
<1> DEFINE S == {cs \in Seq(Code) : WellFormed(unitsSpelt(cs))}
<1>1. << >> \in S
  <2>1. DOMAIN << >> = {}
    OBVIOUS
  <2> QED
    BY <2>1, SpeltIs, EmptySeq DEF WellFormed
<1>2. ASSUME NEW cs \in Seq(Code), NEW c \in Code, cs \in S
      PROVE  Append(cs, c) \in S
  <2>1. Append(cs, c) \in Seq(Code)
    OBVIOUS
  <2>2. unitsSpelt(Append(cs, c)) = unitsSpelt(cs) \o codeUnits(c) /\ unitsSpelt(cs) \in Seq(Unit)
    BY SpeltIs
  <2> QED
    BY <1>2, <2>1, <2>2, CharacterKeepsWellFormed
<1> HIDE DEF S
<1>3. Seq(Code) \subseteq S
  BY <1>1, <1>2, AppendInduction
<1> QED
  BY <1>3 DEF S

LEMMA WellFormedSpelt ==
  ASSUME NEW u \in Seq(Unit), WellFormed(u)
  PROVE  \E cs \in Seq(Code) : u = unitsSpelt(cs)
<1> DEFINE Odd == {x \in Seq(Unit) : WellFormed(x) /\ ~\E cs \in Seq(Code) : x = unitsSpelt(cs)}
<1> SUFFICES ASSUME Odd # {}
             PROVE  FALSE
  OBVIOUS
<1>1. PICK x \in Odd : \A y \in Odd : Len(x) <= Len(y)
  <2>1. Odd \subseteq Seq(Unit)
    OBVIOUS
  <2> HIDE DEF Odd
  <2> QED
    BY <2>1, Shortest
<1>2. x # << >>
  BY <1>1, SpeltIs, EmptySeq
<1>3. PICK h \in Seq(Unit), c \in Code :
        WellFormed(h) /\ x = h \o codeUnits(c) /\ Len(h) < Len(x)
  BY <1>2, LastCharacter
<1>4. h \notin Odd
  <2>1. Len(h) \in Nat /\ Len(x) \in Nat
    BY LenProperties
  <2> QED
    BY <1>1, <1>3, <2>1
<1>5. PICK cs \in Seq(Code) : h = unitsSpelt(cs)
  BY <1>3, <1>4
<1>6. x = unitsSpelt(Append(cs, c))
  <2>1. unitsSpelt(Append(cs, c)) = unitsSpelt(cs) \o codeUnits(c)
    BY SpeltIs
  <2> QED
    BY <1>3, <1>5, <2>1
<1>7. Append(cs, c) \in Seq(Code)
  OBVIOUS
<1> QED
  BY <1>1, <1>6, <1>7

(***************************************************************************)
(* Utf8.decode gives back the string Utf8.encode was given, with its lone  *)
(* surrogates replaced, and what it accepts is the one encoding of the     *)
(* string it returns.                                                      *)
(***************************************************************************)
THEOREM Utf8RoundTrip ==
  ASSUME NEW t \in Seq(Unit)
  PROVE  /\ utf8_encode(t) \in Seq(Utf8Byte) /\ utf8_is_valid(utf8_encode(t))
         /\ utf8_decode(utf8_encode(t)) = Decoded(Replaced(t))
<1>1. PICK cs \in Seq(Code) : Replaced(t) = unitsSpelt(cs)
  BY ReplacedIs, WellFormedSpelt
<1>2. utf8_encode(t) = bytesSpelt(cs)
  BY <1>1, SpeltDecodes DEF utf8_encode
<1>3. utf8_is_valid(bytesSpelt(cs)) /\ bytesSpelt(cs) \in Seq(Utf8Byte)
  BY SpeltBytesValid, SpeltIs
<1> QED
  BY <1>1, <1>2, <1>3, SpeltDecodes, DecodesPieces

THEOREM Utf8Canonical ==
  ASSUME NEW bytes \in Seq(Utf8Byte), utf8_decode(bytes).kind = "returned"
  PROVE  /\ utf8_decode(bytes).value \in Seq(Unit)
         /\ bytes = utf8_encode(utf8_decode(bytes).value)
<1>1. utf8_is_valid(bytes) /\ utf8_decode(bytes).value = decodedUnits(bytes)
  BY DecodesPieces DEF Decoded, NotDecoded
<1>2. PICK cs \in Seq(Code) : bytes = bytesSpelt(cs)
  BY <1>1, ValidBytesSpelt
<1>3. utf8_decode(bytes).value = unitsSpelt(cs) /\ unitsSpelt(cs) \in Seq(Unit)
  BY <1>1, <1>2, SpeltDecodes, SpeltIs
<1>4. Replaced(unitsSpelt(cs)) = unitsSpelt(cs)
  BY <1>3, ReplacedIs, SpeltUnitsWellFormed
<1>5. utf8_encode(unitsSpelt(cs)) = bytesSpelt(cs)
  BY <1>4, SpeltDecodes DEF utf8_encode
<1> QED
  BY <1>2, <1>3, <1>5

-----------------------------------------------------------------------------
(***************************************************************************)
(* The two programs.  Inv says what each answer was computed from; the     *)
(* properties then follow from the facts above.                            *)
(***************************************************************************)
WrongTypes == {NotABuffer, NotAString}

Plain(e) == IF e = "Utf8.encode" THEN Seq(Unit) ELSE Seq(Byte)

Asked ==
  /\ encoder \in Encoders \cup {None}
  /\ pc # "idle" =>
       /\ encoder \in Encoders
       /\ input \in Plain(encoder) \cup WrongTypes

Sent == pc \in {"sent", "decoding"} \/ Got =>
  ~WrongType /\ sent = encoded(encoder, input)

Arrived ==
  /\ decoder \in Decoders \cup {None}
  /\ pc = "decoding" \/ Got =>
       /\ decoder \in DecodersOf(encoder)
       /\ received \in Seq(Wires(encoder)) \cup WrongTypes

Answered ==
  /\ ~Got => reply \in {NoReply, Thrown("TypeError")}
  /\ Got => reply = IF received \in WrongTypes THEN Thrown("TypeError")
                                               ELSE decoded(decoder, received)

Inv ==
  /\ pc \in {"idle", "encoding", "sent", "decoding", "answered"}
  /\ pc \in {"idle", "encoding", "sent"} => decoder = None
  /\ Asked /\ Sent /\ Arrived /\ Answered

LEMMA AlteredText ==
  ASSUME NEW S, NEW text \in Seq(S)
  PROVE  Altered(text, S) \subseteq Seq(S)
<1>1. \A i \in DOMAIN text, c \in S : [text EXCEPT ![i] = c] \in Seq(S)
  OBVIOUS
<1>2. \A c \in S : Append(text, c) \in Seq(S)
  OBVIOUS
<1>3. \A n \in DOMAIN text : SubSeq(text, 1, Len(text) - 1) \in Seq(S)
  OBVIOUS
<1> QED
  BY <1>1, <1>2, <1>3 DEF Altered

(***************************************************************************)
(* What an encoder makes of its argument is a text of its family.          *)
(***************************************************************************)
LEMMA EncodedText ==
  ASSUME NEW e \in Encoders, NEW v \in Plain(e)
  PROVE  encoded(e, v) \in Seq(Wires(e))
<1>1. CASE e \in StandardEncoders
  <2>1. encoded(e, v) = base64_encode(v) /\ v \in Seq(Byte)
    BY <1>1 DEF encoded, StandardEncoders, Plain
  <2>2. text64(v, "standard") \in Seq(Alphabet("standard"))
    BY <2>1, TextOfSymbols DEF Forms
  <2>3. text64(v, "standard") \in Seq(Wires(e))
    BY <1>1, <2>2 DEF Wires, Base64Family
  <2>4. Padding(Len(text64(v, "standard"))) \in Seq(Wires(e))
    <3>1. Pad \in Wires(e)
      BY <1>1 DEF Wires, Base64Family
    <3>2. Padding(Len(text64(v, "standard"))) \in Seq({Pad})
      BY <2>2, PaddingIsPads, LenProperties
    <3> QED
      BY <3>1, <3>2, SeqMonotonic
  <2> QED
    BY <2>1, <2>3, <2>4, ConcatProperties DEF base64_encode
<1>2. CASE e \in UrlEncoders
  <2>1. encoded(e, v) = text64(v, "url") /\ v \in Seq(Byte)
    BY <1>2 DEF encoded, StandardEncoders, UrlEncoders, base64_encode_url_safe, Plain
  <2>2. text64(v, "url") \in Seq(Alphabet("url"))
    BY <2>1, TextOfSymbols DEF Forms
  <2> QED
    BY <1>2, <2>1, <2>2 DEF Wires, Base64Family
<1>3. CASE e \in HexFamily
  <2>0. v \in Seq(Byte)
    BY <1>3 DEF Plain, HexFamily, LowerEncoders
  <2>1. PICK form \in Cases : encoded(e, v) = hex_encode(v, form)
    BY <1>3 DEF encoded, HexFamily, LowerEncoders, StandardEncoders, UrlEncoders, Cases
  <2>2. hex_encode(v, form) \in Seq(HexAlphabet)
    BY <2>0, HexTextOfBytes
  <2>3. Wires(e) = HexAlphabet \cup {Foreign}
    BY <1>3 DEF Wires, HexFamily, LowerEncoders, Base64Family, StandardEncoders, UrlEncoders
  <2> QED
    BY <2>1, <2>2, <2>3
<1>4. CASE e = "Utf8.encode"
  <2>1. v \in Seq(Unit) /\ Wires(e) = Utf8Byte
    BY <1>4 DEF Plain, Wires, Base64Family, HexFamily, StandardEncoders, UrlEncoders, LowerEncoders
  <2>2. encoded(e, v) = utf8_encode(v)
    BY <1>4 DEF encoded, StandardEncoders, UrlEncoders, LowerEncoders
  <2> QED
    BY <2>1, <2>2, Utf8RoundTrip
<1> QED
  BY <1>1, <1>2, <1>3, <1>4 DEF Encoders, Base64Family

(***************************************************************************)
(* The inductive step, one action at a time.                               *)
(***************************************************************************)
LEMMA RequestKeepsInv == ASSUME Inv, Request PROVE Inv'
<1>1. /\ pc = "idle" /\ pc' = "encoding" /\ encoder' \in Encoders
      /\ decoder = None /\ decoder' = None /\ reply' = reply
  BY DEF Inv, Request
<1>2. input' \in Plain(encoder') \cup WrongTypes
  BY InputAssumption DEF Request, Plain, WrongTypes
<1> QED
  BY <1>1, <1>2 DEF Inv, Asked, Sent, Arrived, Answered, Got

LEMMA EncodeKeepsInv == ASSUME Inv, Encode PROVE Inv'
<1>1. /\ pc = "encoding" /\ pc' \in {"sent", "answered"} /\ UNCHANGED <<encoder, input, decoder>>
      /\ decoder = None /\ ~Got /\ ~Got'
  BY DEF Inv, Encode, Got
<1>2. Asked'
  BY <1>1 DEF Inv, Asked
<1>3. Sent'
  BY <1>1 DEF Encode, Sent, WrongType
<1>4. reply' \in {NoReply, Thrown("TypeError")}
  BY <1>1 DEF Inv, Encode, Answered
<1> QED
  BY <1>1, <1>2, <1>3, <1>4 DEF Inv, Arrived, Answered

LEMMA ArriveKeepsInv == ASSUME Inv, Arrive PROVE Inv'
<1>1. /\ pc = "sent" /\ pc' = "decoding" /\ UNCHANGED <<encoder, input, sent, reply>>
      /\ ~Got /\ ~Got' /\ encoder \in Encoders
  BY DEF Inv, Arrive, Asked, Got
<1>2. Asked' /\ Sent'
  BY <1>1 DEF Inv, Asked, Sent, WrongType
<1>3. received' \in Seq(Wires(encoder)) \cup WrongTypes
  <2>1. input \in Plain(encoder) /\ sent = encoded(encoder, input)
    BY <1>1 DEF Inv, Asked, Sent, WrongType, WrongTypes
  <2>2. sent \in Seq(Wires(encoder))
    BY <1>1, <2>1, EncodedText
  <2> QED
    BY <2>2, AlteredText DEF Arrive, WrongTypes
<1>4. decoder' \in DecodersOf(encoder) /\ decoder' \in Decoders
  BY DEF Arrive, DecodersOf, Decoders
<1> QED
  BY <1>1, <1>2, <1>3, <1>4 DEF Inv, Arrived, Answered

LEMMA DecodeKeepsInv == ASSUME Inv, Decode PROVE Inv'
<1>1. /\ pc = "decoding" /\ pc' = "answered"
      /\ UNCHANGED <<encoder, input, sent, received, decoder>>
  BY DEF Decode
<1>2. Asked' /\ Sent' /\ Arrived'
  BY <1>1 DEF Inv, Asked, Sent, Arrived, WrongType, Got
<1>3. decoder # None
  BY <1>1 DEF Inv, Arrived, DecodersOf, Base64Decoders, NodeBase64, HexDecoders, Utf8Decoders, None
<1>4. Answered'
  BY <1>1, <1>3 DEF Decode, Answered, Got, WrongTypes
<1> QED
  BY <1>1, <1>2, <1>4 DEF Inv

LEMMA InvInductive == ASSUME Inv, [Next]_vars PROVE Inv'
<1>1. CASE Request
  BY <1>1, RequestKeepsInv
<1>2. CASE Encode
  BY <1>2, EncodeKeepsInv
<1>3. CASE Arrive
  BY <1>3, ArriveKeepsInv
<1>4. CASE Decode
  BY <1>4, DecodeKeepsInv
<1>5. CASE Again
  BY <1>5 DEF Inv, Again, Asked, Sent, Arrived, Answered, Got
<1>6. CASE UNCHANGED vars
  BY <1>6 DEF Inv, vars, Asked, Sent, Arrived, Answered, Got, WrongType
<1> QED
  BY <1>1, <1>2, <1>3, <1>4, <1>5, <1>6 DEF Next

(***************************************************************************)
(* The invariant holds: every answer is what the decoder makes of a text   *)
(* of the family, sent by an encoder of it.                                *)
(***************************************************************************)
THEOREM InvHolds == Spec => []Inv
<1>1. Init => Inv
  BY DEF Init, Inv, Asked, Sent, Arrived, Answered, Got
<1>2. Inv /\ [Next]_vars => Inv'
  BY InvInductive
<1> QED
  BY <1>1, <1>2, PTL DEF Spec

-----------------------------------------------------------------------------
(***************************************************************************)
(* What a decoder was given and what it answered.                          *)
(***************************************************************************)
LEMMA Families ==
  ASSUME NEW e \in Encoders, NEW d \in DecodersOf(e)
  PROVE  /\ d \in Decoders
         /\ d \in Base64Decoders => e \in Base64Family /\ Seq(Wires(e)) = Base64Text
         /\ d \in HexDecoders => e \in HexFamily /\ Seq(Wires(e)) = HexText
         /\ d \in Utf8Decoders => e = "Utf8.encode" /\ Seq(Wires(e)) = Seq(Utf8Byte)
<1>1. CASE e \in Base64Family
  <2>1. d \in Base64Decoders /\ d \notin HexDecoders /\ d \notin Utf8Decoders
    BY <1>1 DEF DecodersOf, Base64Decoders, NodeBase64, HexDecoders, Utf8Decoders
  <2> QED
    BY <1>1, <2>1 DEF Wires, Base64Text, Decoders
<1>2. CASE e \in HexFamily
  <2>1. e \notin Base64Family
    BY <1>2 DEF HexFamily, LowerEncoders, Base64Family, StandardEncoders, UrlEncoders
  <2>2. d \in HexDecoders /\ d \notin Base64Decoders /\ d \notin Utf8Decoders
    BY <1>2, <2>1 DEF DecodersOf, Base64Decoders, NodeBase64, HexDecoders, Utf8Decoders
  <2> QED
    BY <1>2, <2>1, <2>2 DEF Wires, HexText, Decoders
<1>3. CASE e = "Utf8.encode"
  <2>1. e \notin Base64Family /\ e \notin HexFamily
    BY <1>3 DEF HexFamily, LowerEncoders, Base64Family, StandardEncoders, UrlEncoders
  <2>2. d \in Utf8Decoders /\ d \notin Base64Decoders /\ d \notin HexDecoders
    BY <2>1 DEF DecodersOf, Base64Decoders, NodeBase64, HexDecoders, Utf8Decoders
  <2> QED
    BY <1>3, <2>1, <2>2 DEF Wires, Decoders
<1> QED
  BY <1>1, <1>2, <1>3 DEF Encoders

LEMMA Answers ==
  ASSUME Inv, Got
  PROVE  /\ encoder \in Encoders /\ decoder \in DecodersOf(encoder)
         /\ input \in Plain(encoder)
         /\ sent = encoded(encoder, input) /\ sent \in Seq(Wires(encoder)) /\ sent \notin WrongTypes
         /\ received \in WrongTypes => reply = Thrown("TypeError")
         /\ received \notin WrongTypes =>
              received \in Seq(Wires(encoder)) /\ reply = decoded(decoder, received)
<1>1. /\ encoder \in Encoders /\ decoder \in DecodersOf(encoder)
      /\ input \in Plain(encoder) /\ sent = encoded(encoder, input)
  BY DEF Inv, Asked, Sent, Arrived, Got, WrongType, WrongTypes
<1>2. sent \in Seq(Wires(encoder))
  BY <1>1, EncodedText
<1>3. \A x \in WrongTypes : x \notin Seq(Wires(encoder))
  <2>1. Seq(Wires(encoder)) \in {Base64Text, HexText, Seq(Utf8Byte)}
    BY DEF Wires, Base64Text, HexText
  <2> QED
    BY <2>1, InputAssumption DEF WrongTypes
<1>4. /\ received \in WrongTypes => reply = Thrown("TypeError")
      /\ received \notin WrongTypes =>
           received \in Seq(Wires(encoder)) /\ reply = decoded(decoder, received)
  BY DEF Inv, Arrived, Answered
<1> QED
  BY <1>1, <1>2, <1>3, <1>4

LEMMA DecodedType ==
  ASSUME NEW e \in Encoders, NEW d \in DecodersOf(e), NEW text \in Seq(Wires(e))
  PROVE  decoded(d, text) = NotDecoded \/ \E v \in Results(d) : decoded(d, text) = Decoded(v)
<1>1. CASE d \in Base64Decoders
  <2>1. text \in Base64Text /\ Results(d) = Seq(Byte)
    BY <1>1, Families DEF Base64Decoders, NodeBase64, Results, Validators, Utf8Decoders
  <2>2. ASSUME d = "Base64.decode"
        PROVE  decoded(d, text) = NotDecoded \/ \E v \in Seq(Byte) : decoded(d, text) = Decoded(v)
    <3>1. decoded(d, text) = base64_decode(text)
      BY <2>2 DEF decoded, NodeBase64
    <3>2. \/ base64_decode(text) = NotDecoded
          \/ base64_decode(text).kind = "returned" /\ base64_decode(text) = Decoded(base64_decode(text).value)
      BY DEF base64_decode, decode64, Decoded, NotDecoded
    <3> QED
      BY <2>1, <3>1, <3>2, Base64Canonical
  <2>3. ASSUME d = "Base64.decodeUrlSafe"
        PROVE  decoded(d, text) = NotDecoded \/ \E v \in Seq(Byte) : decoded(d, text) = Decoded(v)
    <3>1. decoded(d, text) = base64_decode_url_safe(text)
      BY <2>3 DEF decoded, NodeBase64
    <3>2. \/ base64_decode_url_safe(text) = NotDecoded
          \/ /\ base64_decode_url_safe(text).kind = "returned"
             /\ base64_decode_url_safe(text) = Decoded(base64_decode_url_safe(text).value)
      BY DEF base64_decode_url_safe, decode64, Decoded, NotDecoded
    <3> QED
      BY <2>1, <3>1, <3>2, UrlSafeCanonical
  <2>4. ASSUME d \in NodeBase64
        PROVE  \E v \in Seq(Byte) : decoded(d, text) = Decoded(v)
    <3>1. decoded(d, text) = fromBase64(text)
      BY <2>4 DEF decoded, NodeBase64
    <3> QED
      BY <2>1, <3>1, NodeBase64Type
  <2> QED
    BY <1>1, <2>1, <2>2, <2>3, <2>4 DEF Base64Decoders
<1>2. CASE d \in HexDecoders
  <2>1. text \in HexText
    BY <1>2, Families
  <2>2. ASSUME d = "Hex.isValid"
        PROVE  \E v \in Results(d) : decoded(d, text) = Decoded(v)
    <3>1. decoded(d, text) = Decoded(hex_is_valid(text))
      BY <2>2 DEF decoded, NodeBase64
    <3>2. hex_is_valid(text) \in BOOLEAN /\ Results(d) = BOOLEAN
      BY <2>2 DEF hex_is_valid, Results, Validators
    <3> QED
      BY <3>1, <3>2
  <2>3. ASSUME d # "Hex.isValid"
        PROVE  Results(d) = Seq(Byte)
    BY <1>2, <2>3 DEF HexDecoders, Results, Validators, Utf8Decoders
  <2>4. hex_decode(text) = NotDecoded \/ \E v \in Seq(Byte) : hex_decode(text) = Decoded(v)
    <3>1. \/ hex_decode(text) = NotDecoded
          \/ hex_decode(text).kind = "returned" /\ hex_decode(text) = Decoded(hex_decode(text).value)
      BY DEF hex_decode, Decoded, NotDecoded
    <3> QED
      BY <2>1, <3>1, HexCanonical
  <2>5. ASSUME d \in {"Hex.decode", "fromHex"}
        PROVE  decoded(d, text) = hex_decode(text)
    <3>1. decoded("Hex.decode", text) = hex_decode(text) /\ decoded("fromHex", text) = fromHex(text)
      BY DEF decoded, NodeBase64
    <3> QED
      BY <2>1, <2>5, <3>1, NodeReadsHexAlike
  <2>6. ASSUME d = "stringToBuffer"
        PROVE  \E v \in Seq(Byte) : decoded(d, text) = Decoded(v)
    <3>1. decoded(d, text) = nodeHex(text)
      BY <2>6 DEF decoded, NodeBase64
    <3> QED
      BY <2>1, <3>1, NodeHexType
  <2>7. d \in {"Hex.isValid", "Hex.decode", "fromHex", "stringToBuffer"}
    BY <1>2 DEF HexDecoders
  <2> QED
    BY <2>2, <2>3, <2>4, <2>5, <2>6, <2>7
<1>3. CASE d \in Utf8Decoders
  <2>1. text \in Seq(Utf8Byte)
    BY <1>3, Families
  <2>2. ASSUME d = "Utf8.isValid"
        PROVE  \E v \in Results(d) : decoded(d, text) = Decoded(v)
    <3>1. decoded(d, text) = Decoded(utf8_is_valid(text))
      BY <2>2 DEF decoded, NodeBase64
    <3>2. utf8_is_valid(text) \in BOOLEAN /\ Results(d) = BOOLEAN
      BY <2>2 DEF utf8_is_valid, Results, Validators
    <3> QED
      BY <3>1, <3>2
  <2>3. ASSUME d = "Utf8.decode"
        PROVE  decoded(d, text) = NotDecoded \/ \E v \in Results(d) : decoded(d, text) = Decoded(v)
    <3>1. decoded(d, text) = utf8_decode(text) /\ Results(d) = Seq(Unit)
      BY <2>3 DEF decoded, NodeBase64, Results, Validators, Utf8Decoders
    <3>2. \/ utf8_decode(text) = NotDecoded
          \/ utf8_decode(text).kind = "returned" /\ utf8_decode(text) = Decoded(utf8_decode(text).value)
      BY DEF utf8_decode, Decoded, NotDecoded
    <3> QED
      BY <2>1, <3>1, <3>2, Utf8Canonical
  <2> QED
    BY <1>3, <2>2, <2>3 DEF Utf8Decoders
<1> QED
  BY <1>1, <1>2, <1>3, Families DEF Decoders

(***************************************************************************)
(* Types.  A decoder that succeeds returns what its family is made of,     *)
(* whole bytes, a string or a verdict, whatever happened to the text; one  *)
(* that fails throws one of the language's errors.                         *)
(***************************************************************************)
THEOREM TypeCorrect == Spec => []TypeOK
<1>1. Inv => TypeOK
  <2> SUFFICES ASSUME Inv
               PROVE  /\ reply.kind \in {"none", "returned", "error"}
                      /\ Succeeded => reply.value \in Results(decoder)
                      /\ reply.kind = "error" => reply.error \in {"TypeError", "RangeError", "Error"}
    BY DEF Inv, Asked, Arrived, TypeOK
  <2>1. CASE ~Got
    BY <2>1 DEF Inv, Answered, NoReply, Thrown, Succeeded
  <2>2. CASE Got
    <3>1. CASE received \in WrongTypes
      BY <2>2, <3>1, Answers DEF Thrown, Succeeded
    <3>2. CASE received \notin WrongTypes
      <4>1. reply = NotDecoded \/ \E v \in Results(decoder) : reply = Decoded(v)
        BY <2>2, <3>2, Answers, DecodedType
      <4> QED
        BY <4>1 DEF NotDecoded, Decoded, Succeeded
    <3> QED
      BY <3>1, <3>2
  <2> QED
    BY <2>1, <2>2
<1> QED
  BY <1>1, InvHolds, PTL

(***************************************************************************)
(* Hex.isValid foretells Hex.decode, and fromHex answers every text as     *)
(* Hex.decode does.                                                        *)
(***************************************************************************)
THEOREM ValidatorsAlwaysAgree == Spec => []ValidatorsAgree
<1>1. Inv => ValidatorsAgree
  <2> SUFFICES ASSUME Inv, Got, reply # Thrown("TypeError")
               PROVE  /\ decoder = "Hex.isValid" =>
                           (reply.value <=> hex_decode(received).kind = "returned")
                      /\ decoder = "fromHex" => reply = hex_decode(received)
    BY DEF ValidatorsAgree
  <2>1. reply = decoded(decoder, received)
    BY DEF Inv, Answered
  <2>2. ASSUME decoder = "Hex.isValid"
        PROVE  reply.value <=> hex_decode(received).kind = "returned"
    <3>1. reply.value = hex_is_valid(received)
      BY <2>1, <2>2 DEF decoded, Decoded, NodeBase64
    <3>2. hex_is_valid(received) <=> ~hexError(received)
      BY DEF hex_is_valid, hexError
    <3> QED
      BY <3>1, <3>2 DEF hex_decode, Decoded, NotDecoded
  <2>3. ASSUME decoder = "fromHex"
        PROVE  reply = hex_decode(received)
    <3>1. reply = fromHex(received)
      BY <2>1, <2>3 DEF decoded, NodeBase64
    <3>2. received \in HexText
      BY <2>3, Answers, Families DEF HexDecoders
    <3> QED
      BY <3>1, <3>2, NodeReadsHexAlike
  <2> QED
    BY <2>2, <2>3
<1> QED
  BY <1>1, InvHolds, PTL

LEMMA Successes ==
  ASSUME Inv, Succeeded
  PROVE  /\ Got /\ encoder \in Encoders /\ decoder \in DecodersOf(encoder)
         /\ received \in Seq(Wires(encoder))
         /\ reply = decoded(decoder, received) /\ reply.kind = "returned"
<1>1. Got /\ reply.kind = "returned"
  BY DEF Succeeded
<1>2. received \notin WrongTypes
  BY <1>1, Answers DEF Thrown
<1> QED
  BY <1>1, <1>2, Answers

(***************************************************************************)
(* Nothing altered on the way passes for the original: what a strict       *)
(* decoder accepts is the one text of what it returns (for hex, but for    *)
(* the case of the digits).                                                *)
(***************************************************************************)
THEOREM TextsAreCanonical == Spec => []Canonical
<1>1. Inv => Canonical
  <2> SUFFICES ASSUME Inv, Succeeded
               PROVE  /\ decoder = "Base64.decode" => received = base64_encode(reply.value)
                      /\ decoder = "Base64.decodeUrlSafe" =>
                           received = base64_encode_url_safe(reply.value)
                      /\ decoder \in {"Hex.decode", "fromHex"} =>
                           Lower(received) = hex_encode(reply.value, "lower")
                      /\ decoder = "Utf8.decode" => received = utf8_encode(reply.value)
    BY DEF Canonical
  <2>1. /\ encoder \in Encoders /\ decoder \in DecodersOf(encoder)
        /\ received \in Seq(Wires(encoder))
        /\ reply = decoded(decoder, received) /\ reply.kind = "returned"
    BY Successes
  <2>2. ASSUME decoder = "Base64.decode"
        PROVE  received = base64_encode(reply.value)
    <3>1. received \in Base64Text /\ reply = base64_decode(received)
      BY <2>1, <2>2, Families DEF decoded, NodeBase64, Base64Decoders
    <3> QED
      BY <2>1, <3>1, Base64Canonical
  <2>3. ASSUME decoder = "Base64.decodeUrlSafe"
        PROVE  received = base64_encode_url_safe(reply.value)
    <3>1. reply = base64_decode_url_safe(received)
      BY <2>1, <2>3 DEF decoded, NodeBase64
    <3> QED
      BY <2>1, <3>1, UrlSafeCanonical
  <2>4. ASSUME decoder \in {"Hex.decode", "fromHex"}
        PROVE  Lower(received) = hex_encode(reply.value, "lower")
    <3>1. received \in HexText
      BY <2>1, <2>4, Families DEF HexDecoders
    <3>2. reply = hex_decode(received)
      BY <2>1, <2>4, <3>1, NodeReadsHexAlike DEF decoded, NodeBase64
    <3> QED
      BY <2>1, <3>1, <3>2, HexCanonical
  <2>5. ASSUME decoder = "Utf8.decode"
        PROVE  received = utf8_encode(reply.value)
    <3>1. received \in Seq(Utf8Byte) /\ reply = utf8_decode(received)
      BY <2>1, <2>5, Families DEF decoded, NodeBase64, Utf8Decoders
    <3> QED
      BY <2>1, <3>1, Utf8Canonical
  <2> QED
    BY <2>2, <2>3, <2>4, <2>5
<1> QED
  BY <1>1, InvHolds, PTL

(***************************************************************************)
(* Base64 and hex that the strict decoders accept are read by Node to the  *)
(* same bytes.                                                             *)
(***************************************************************************)
THEOREM NodeAlwaysAgrees == Spec => []NodeAgrees
<1>1. Inv => NodeAgrees
  <2> SUFFICES ASSUME Inv, Succeeded
               PROVE  /\ decoder \in {"Base64.decode", "Base64.decodeUrlSafe"} =>
                           reply = fromBase64(received)
                      /\ decoder = "Hex.decode" => reply = nodeHex(received)
    BY DEF NodeAgrees
  <2>1. /\ encoder \in Encoders /\ decoder \in DecodersOf(encoder)
        /\ received \in Seq(Wires(encoder))
        /\ reply = decoded(decoder, received) /\ reply.kind = "returned"
    BY Successes
  <2>2. ASSUME decoder \in {"Base64.decode", "Base64.decodeUrlSafe"}
        PROVE  reply = fromBase64(received)
    <3>1. received \in Base64Text
      BY <2>1, <2>2, Families DEF Base64Decoders
    <3>2. /\ decoder = "Base64.decode" => reply = base64_decode(received)
          /\ decoder = "Base64.decodeUrlSafe" => reply = base64_decode_url_safe(received)
      BY <2>1 DEF decoded, NodeBase64
    <3> QED
      BY <2>1, <2>2, <3>1, <3>2, NodeReadsBase64Alike
  <2>3. ASSUME decoder = "Hex.decode"
        PROVE  reply = nodeHex(received)
    <3>1. received \in HexText /\ reply = hex_decode(received)
      BY <2>1, <2>3, Families DEF decoded, NodeBase64, HexDecoders
    <3> QED
      BY <2>1, <3>1, NodeReadsHexAlike
  <2> QED
    BY <2>2, <2>3
<1> QED
  BY <1>1, InvHolds, PTL

(***************************************************************************)
(* What arrives as it was sent gives back what it was made of, and fails   *)
(* only between the two variants of Base64; a string comes back with its   *)
(* lone surrogates replaced; the validators say yes.                       *)
(***************************************************************************)
THEOREM AlwaysRoundTrip == Spec => []RoundTrip
<1>1. Inv => RoundTrip
  <2> DEFINE original == IF encoder = "Utf8.encode" THEN Replaced(input) ELSE input
  <2> SUFFICES ASSUME Inv, Got, received = sent
               PROVE  /\ SameVariant => reply.kind = "returned"
                      /\ reply.kind = "returned" /\ decoder \notin Validators =>
                           reply.value = original
                      /\ decoder \in Validators => reply.value
    BY DEF RoundTrip, Succeeded
  <2>1. /\ encoder \in Encoders /\ decoder \in DecodersOf(encoder) /\ input \in Plain(encoder)
        /\ sent = encoded(encoder, input) /\ sent \in Seq(Wires(encoder))
        /\ reply = decoded(decoder, sent)
    BY Answers
  <2>2. CASE encoder \in Base64Family
    <3>1. input \in Seq(Byte) /\ original = input /\ decoder \in Base64Decoders
      BY <2>1, <2>2 DEF Plain, Base64Family, StandardEncoders, UrlEncoders, DecodersOf
    <3>0. decoder \notin Validators
      BY <3>1 DEF Base64Decoders, NodeBase64, Validators
    <3>2. \/ encoder \in StandardEncoders /\ sent = base64_encode(input)
          \/ /\ encoder \in UrlEncoders /\ encoder \notin StandardEncoders
             /\ sent = base64_encode_url_safe(input)
      BY <2>1, <2>2 DEF encoded, Base64Family, StandardEncoders, UrlEncoders
    <3>3. CASE decoder \in NodeBase64
      <4>1. reply = fromBase64(sent)
        BY <2>1, <3>3 DEF decoded, NodeBase64
      <4> QED
        BY <3>0, <3>1, <3>2, <4>1, NodeReadsEncoded DEF Decoded
    <3>4. CASE decoder = "Base64.decode"
      <4>1. reply = base64_decode(sent)
        BY <2>1, <3>4 DEF decoded, NodeBase64
      <4>2. SameVariant => encoder \in StandardEncoders
        BY <3>4 DEF SameVariant
      <4> QED
        BY <3>0, <3>1, <3>2, <4>1, <4>2, Base64RoundTrip, OtherVariant DEF Decoded
    <3>5. CASE decoder = "Base64.decodeUrlSafe"
      <4>1. reply = base64_decode_url_safe(sent)
        BY <2>1, <3>5 DEF decoded, NodeBase64
      <4>2. SameVariant => encoder \in UrlEncoders /\ encoder \notin StandardEncoders
        BY <3>5 DEF SameVariant, StandardEncoders, UrlEncoders
      <4> QED
        BY <3>0, <3>1, <3>2, <4>1, <4>2, UrlSafeRoundTrip, OtherVariant DEF Decoded
    <3> QED
      BY <3>1, <3>3, <3>4, <3>5 DEF Base64Decoders
  <2>3. CASE encoder \in HexFamily
    <3>0. encoder \notin Base64Family /\ encoder # "Utf8.encode"
      BY <2>3 DEF HexFamily, LowerEncoders, Base64Family, StandardEncoders, UrlEncoders
    <3>1. input \in Seq(Byte) /\ original = input /\ decoder \in HexDecoders
      BY <2>1, <2>3, <3>0 DEF Plain, DecodersOf
    <3>2. PICK form \in Cases : sent = hex_encode(input, form)
      BY <2>1, <2>3 DEF encoded, HexFamily, LowerEncoders, StandardEncoders, UrlEncoders, Cases
    <3>3. sent \in HexText
      BY <2>1, <3>1, Families
    <3>4. hex_decode(sent) = Decoded(input)
      BY <3>1, <3>2, HexRoundTrip
    <3>5. fromHex(sent) = Decoded(input) /\ nodeHex(sent) = Decoded(input)
      BY <3>3, <3>4, NodeReadsHexAlike DEF Decoded
    <3>6. CASE decoder = "Hex.isValid"
      <4>1. reply = Decoded(hex_is_valid(sent))
        BY <2>1, <3>6 DEF decoded, NodeBase64
      <4>2. hex_is_valid(sent) = TRUE
        BY <3>4 DEF hex_decode, hexError, hex_is_valid, Decoded, NotDecoded
      <4>3. reply = Decoded(TRUE) /\ decoder \in Validators
        BY <3>6, <4>1, <4>2, Zenon DEF Validators
      <4>4. reply.kind = "returned" /\ reply.value
        BY <4>3 DEF Decoded
      <4> QED
        BY <4>3, <4>4
    <3>7. CASE decoder \in {"Hex.decode", "fromHex", "stringToBuffer"}
      <4>1. reply \in {hex_decode(sent), fromHex(sent), nodeHex(sent)}
        BY <2>1, <3>7 DEF decoded, NodeBase64
      <4>2. decoder \notin Validators
        BY <3>7 DEF Validators
      <4> QED
        BY <3>1, <3>4, <3>5, <4>1, <4>2 DEF Decoded
    <3> QED
      BY <3>1, <3>6, <3>7 DEF HexDecoders
  <2>4. CASE encoder = "Utf8.encode"
    <3>1. input \in Seq(Unit) /\ original = Replaced(input) /\ decoder \in Utf8Decoders
      BY <2>1, <2>4 DEF Plain, DecodersOf, HexFamily, LowerEncoders, Base64Family,
                        StandardEncoders, UrlEncoders
    <3>2. sent = utf8_encode(input)
      BY <2>1, <2>4 DEF encoded, StandardEncoders, UrlEncoders, LowerEncoders
    <3>3. CASE decoder = "Utf8.decode"
      <4>1. reply = utf8_decode(sent)
        BY <2>1, <3>3 DEF decoded, NodeBase64
      <4>2. decoder \notin Validators
        BY <3>3 DEF Validators
      <4> QED
        BY <3>1, <3>2, <4>1, <4>2, Utf8RoundTrip DEF Decoded
    <3>4. CASE decoder = "Utf8.isValid"
      <4>1. reply = Decoded(utf8_is_valid(sent)) /\ decoder \in Validators
        BY <2>1, <3>4 DEF decoded, NodeBase64, Validators
      <4>2. utf8_is_valid(sent) = TRUE
        BY <3>1, <3>2, Utf8RoundTrip DEF utf8_is_valid
      <4>3. reply = Decoded(TRUE)
        BY <4>1, <4>2, Zenon
      <4>4. reply.kind = "returned" /\ reply.value
        BY <4>3 DEF Decoded
      <4> QED
        BY <4>1, <4>4
    <3> QED
      BY <3>1, <3>3, <3>4 DEF Utf8Decoders
  <2> QED
    BY <2>1, <2>2, <2>3, <2>4 DEF Encoders
<1> QED
  BY <1>1, InvHolds, PTL
=============================================================================
