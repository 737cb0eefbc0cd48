------------------------------ MODULE MCSlicing ------------------------------
(***************************************************************************)
(* Small instances of Slicing: every array of at most three integers of    *)
(* -2..3, every buffer of at most 5 bytes, and a maximum of 5 bytes of OKM.*)
(***************************************************************************)
EXTENDS Slicing

MCSizeArrays == UNION {[1..n -> -2..3] : n \in 0..3}
MCBufferSizes == 0..5
=============================================================================
