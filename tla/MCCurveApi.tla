------------------------------ MODULE MCCurveApi ------------------------------
(***************************************************************************)
(* A toy curve that satisfies every law assumed: Z_5 (the order of the     *)
(* base point) times Z_2 (the cofactor).  A point is <<i, t>>; its y is    *)
(* the smaller of i and 5 - i with t; small order is i = 0, and a point    *)
(* with t = 1 has a component of small order.  Keys whose points are       *)
(* positive and negative, clamped and not; a nonce that hashes to zero,    *)
(* and challenges that collide for some R.                                 *)
(***************************************************************************)
EXTENDS CurveApi

L == 5
C == 2

MCScalars == 0..(L - 1)
MCSAdd(r, s) == (r + s) % L
MCSMul(r, s) == (r * s) % L
MCSNeg(s) == (L - s) % L

MCPoints == (0..(L - 1)) \X (0..(C - 1))
MCBase == <<1, 0>>
MCAdd(P, Q) == <<(P[1] + Q[1]) % L, (P[2] + Q[2]) % C>>
MCNeg(P) == <<(L - P[1]) % L, (C - P[2]) % C>>
MCMult(n, P) == <<(n * P[1]) % L, (n * P[2]) % C>>
MCIsSmallOrder(P) == P[1] = 0
MCIsNegative(P) == 2 * P[1] > L
MCY(P) == IF MCIsNegative(P) THEN MCNeg(P) ELSE P
MCOffCurve == <<9, 9>>

MCPrivateKeys == {[low |-> 0, rest |-> 1, high |-> 1],
                  [low |-> 5, rest |-> 1, high |-> 2],
                  [low |-> 0, rest |-> 2, high |-> 1]}
MCScalarOf(k) == (k.low + 3 * k.rest + k.high) % L
MCSeedScalar(k) == (2 * k.rest + k.low) % L

MCMessages == {1, 2}
MCRandoms == {0, 1}
MCScalarBytes == 0..(2 * L - 1)
MCSeedNonce(k, m) == (k.low + k.rest + 2 * m) % L
MCRandomNonce(s, m, z) == (2 * s + m + z) % L
MCChallenge(R, A, m) == (R.y[1] * m + 2 * R.sign + 3 * A.y[1] + R.y[2]) % L

(***************************************************************************)
(* The ladder multiplies by a multiple of the cofactor, so t is lost; the  *)
(* one point of the twist is a fixed point of it.                          *)
(***************************************************************************)
MCZeroU == <<0, 1>>
MCUs == {MCY(P) : P \in MCPoints \ {<<0, 0>>}} \cup {MCOffCurve}
MCSmallUs == {MCZeroU}
MCLadder(k, u) ==
  IF u = MCOffCurve THEN u
  ELSE LET i == (MCScalarOf(k) * u[1]) % L IN IF i = 0 THEN MCZeroU ELSE MCY(<<i, 0>>)
=============================================================================
