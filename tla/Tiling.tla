-------------------------------- MODULE Tiling --------------------------------
(***************************************************************************)
(* What modules Slicing and Memory both say of the pieces of a buffer: the *)
(* one shows that the code cuts a buffer so, the other what follows for    *)
(* the memory.                                                             *)
(***************************************************************************)
EXTENDS Naturals, Sequences

(* Consecutive segments that start at 0 and end at n: between them they    *)
(* hold every byte exactly once.                                           *)
Tiles(s, n) ==
  /\ \A k \in DOMAIN s : s[k].off = IF k = 1 THEN 0 ELSE s[k - 1].off + s[k - 1].len
  /\ IF s = << >> THEN n = 0 ELSE s[Len(s)].off + s[Len(s)].len = n
=============================================================================
