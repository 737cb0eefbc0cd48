------------------------------- MODULE MCMemory -------------------------------
(***************************************************************************)
(* Module Memory with a few short secrets, and the link to module Slicing: *)
(* the tilings considered here are those its invariant SegmentsTile speaks *)
(* of.                                                                     *)
(***************************************************************************)
EXTENDS Memory, Tiling

ASSUME TilingsAreTiles ==
  \A n \in 0..3 :
    Tilings(n) = {s \in UNION {[1..k -> [off : 0..n, len : 0..n]] : k \in 0..MaxPieces} :
                    Tiles(s, n)}

MCLengths == {0, 1, 2}
=============================================================================
