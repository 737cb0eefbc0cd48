-------------------------------- MODULE MCKdf --------------------------------
(***************************************************************************)
(* Scaled-down limits (2^32 becomes 32, 8160 becomes 8 and so on) and      *)
(* numbers on both sides of every limit, each also shifted past the width. *)
(***************************************************************************)
EXTENDS Kdf

MCLengths == {NaN, -1, 0, 1, 2, 3, 8, 9, 16, 17, 20, 21, 31, 32, 33, 34, 40, 41, 48, 49, 64}
MCRounds == {NaN, -1, 0, 1, 2, 31, 32, 33}
MCMemory == {NaN, -1, 0, 1, 2, 3, 4, 31, 32, 34, 36}
MCLanes == {NaN, -1, 0, 1, 2, 3, 32, 33}

MCCalls ==
  [op : OneSize, buffers : BOOLEAN, prk : {0}, salt : {0, 1}, rounds : {1}, memory : {0},
   lanes : {0}, len : {0}]
  \cup
  [op : {"hkdfExpand", "hkdfDerive", "deriveSha512", "nativeSecureRandom"},
   buffers : BOOLEAN, prk : 3..5, salt : {0, 1}, rounds : {1}, memory : {0},
   lanes : {0}, len : MCLengths]
  \cup
  [op : {"pbkdf2"}, buffers : BOOLEAN, prk : {0}, salt : 0..2, rounds : MCRounds,
   memory : {0}, lanes : {0}, len : MCLengths]
  \cup
  [op : {"argon2id"}, buffers : {TRUE}, prk : {0}, salt : 0..3, rounds : MCRounds,
   memory : MCMemory, lanes : MCLanes, len : {-1, 0, 1, 2, 8, 31, 32, 33, 34}]
=============================================================================
