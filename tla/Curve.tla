-------------------------------- MODULE Curve --------------------------------
(***************************************************************************)
(* What the code takes from curve25519-dalek: a group of points, written   *)
(* additively, a base point of prime order with its field of scalars, and  *)
(* the encoding of a point as its y coordinate and a sign bit.  Only the   *)
(* laws the code relies on are assumed; the group has cofactor points, to  *)
(* which no law of the base point extends.                                 *)
(***************************************************************************)

CONSTANTS
  Scalars, Zero,            \* integers modulo the order of Base
  SAdd(_, _), SMul(_, _), SNeg(_),
  Points, Base,             \* the whole curve, the generator
  Add(_, _), Neg(_),
  Mult(_, _),               \* scalar times point
  IsSmallOrder(_),          \* EdwardsPoint::is_small_order
  Y(_),                     \* the y coordinate, which P and Neg(P) share
  IsNegative(_),            \* the parity of the x coordinate
  OffCurve                  \* a y that belongs to no point

ASSUME ScalarLaws ==
  /\ Zero \in Scalars
  /\ \A r, s \in Scalars : SAdd(r, s) \in Scalars /\ SMul(r, s) \in Scalars
  /\ \A s \in Scalars : SNeg(s) \in Scalars /\ (s # Zero => SNeg(s) # Zero)

ASSUME PointLaws ==
  /\ Base \in Points
  /\ \A P \in Points : Neg(P) \in Points /\ Neg(Neg(P)) = P
  /\ \A P, Q \in Points : Add(P, Q) \in Points
  /\ \A P, Q, R \in Points : Add(P, Q) = Add(P, R) => Q = R
  /\ \A s \in Scalars, P \in Points : Mult(s, P) \in Points

ASSUME BaseLaws ==
  /\ \A r, h, s \in Scalars :
       Mult(SAdd(r, SMul(h, s)), Base) = Add(Mult(r, Base), Mult(h, Mult(s, Base)))
  /\ \A s \in Scalars : Mult(SNeg(s), Base) = Neg(Mult(s, Base))
  /\ \A r, s \in Scalars : Mult(r, Base) = Mult(s, Base) => r = s

ASSUME SmallOrderLaws ==
  /\ ~IsSmallOrder(Base)
  /\ \A s \in Scalars : IsSmallOrder(Mult(s, Base)) <=> s = Zero
  /\ \A P \in Points : P = Neg(P) => IsSmallOrder(P)
  /\ \A P \in Points : IsSmallOrder(P) <=> IsSmallOrder(Neg(P))
  /\ \A P \in Points, r, h \in Scalars :
       ~IsSmallOrder(P) /\ Mult(r, P) = Mult(h, P) => r = h

ASSUME CoordinateLaws ==
  /\ \A P, Q \in Points : Y(P) = Y(Q) <=> (Q = P \/ Q = Neg(P))
  /\ \A P \in Points : /\ IsNegative(P) \in BOOLEAN /\ Y(P) # OffCurve
                       /\ P = Neg(P) => ~IsNegative(P)
                       /\ P # Neg(P) => IsNegative(P) # IsNegative(Neg(P))

(***************************************************************************)
(* CompressedEdwardsY: 255 bits of y and a sign bit.  Decompression finds  *)
(* no point for some y; the sign bit of a point that is its own negation   *)
(* is ignored, so such a point has two encodings.                          *)
(***************************************************************************)
Ys == {Y(P) : P \in Points} \cup {OffCurve}
Encodings == [y : Ys, sign : {0, 1}]

compress(P) == [y |-> Y(P), sign |-> IF IsNegative(P) THEN 1 ELSE 0]

OnCurve(e) == \E P \in Points : Y(P) = e.y

decompress(e) ==
  CHOOSE P \in Points :
    /\ Y(P) = e.y
    /\ P # Neg(P) => IsNegative(P) = (e.sign = 1)
=============================================================================
