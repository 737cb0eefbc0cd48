-------------------------------- MODULE Memory --------------------------------
(***************************************************************************)
(* Which buffers share memory.  concat, concatBytes and xor return copies; *)
(* split, splitBytes and deriveMultiple return views; zeroize writes in    *)
(* place.  A program that handles secrets relies on both: wiping an input  *)
(* must not destroy what was copied from it, and wiping the pieces must    *)
(* wipe the whole.                                                         *)
(*                                                                         *)
(* A byte is the set of the secret bytes it is the exclusive or of, so the *)
(* empty set is a zero byte and xor is exact.  Where the segments of split *)
(* lie is the subject of module Slicing; any tiling is possible here.      *)
(***************************************************************************)
EXTENDS Integers, Sequences, FiniteSets

CONSTANTS
  Lengths,    \* lengths of the secrets that enter the program
  MaxPieces,  \* bound: the most segments one call returns
  MaxBytes,   \* bound: the longest buffer concat returns
  MaxBuffers  \* bound: how many buffers the program holds

ASSUME LengthsAssumption == Lengths \subseteq Nat
ASSUME BoundsAssumption == MaxPieces \in Nat /\ MaxBuffers \in Nat /\ MaxBytes \in Nat

VARIABLES
  heap,   \* the allocations: each a sequence of bytes
  bufs,   \* the buffers the program holds: a stretch of an allocation each
  given,  \* history: what each buffer held when it was returned, the
          \* allocation it is documented to share and where in it
  wiped   \* history: the buffers zeroize was called on

vars == <<heap, bufs, given, wiped>>

Byte == SUBSET (Nat \X Nat)
ZeroByte == {}
XorByte(b, c) == (b \ c) \cup (c \ b)

Stretch == [arr : Nat, off : Nat, len : Nat]
Origin == [bytes : Seq(Byte), shared : Nat, at : Nat]

Contents(k) == [i \in 1..bufs[k].len |-> heap[bufs[k].arr][bufs[k].off + i]]

Holds(segment, i) == segment.off < i /\ i <= segment.off + segment.len

(***************************************************************************)
(* The ways to cut n bytes into consecutive segments, given by where the   *)
(* cuts are: the prefix totals of the sizes (sums in module Slicing), with *)
(* the remainder as one more size.                                         *)
(***************************************************************************)
Cuts(m, n) ==
  {c \in [0..m -> 0..n] :
     c[0] = 0 /\ c[m] = n /\ \A j, k \in 0..m : j <= k => c[j] <= c[k]}

Segments(c, m) == [k \in 1..m |-> [off |-> c[k - 1], len |-> c[k] - c[k - 1]]]

Tilings(n) == UNION {{Segments(c, m) : c \in Cuts(m, n)} : m \in 0..MaxPieces}

-----------------------------------------------------------------------------
Init ==
  /\ heap = << >>
  /\ bufs = << >>
  /\ given = << >>
  /\ wiped = {}

\* Mutant: one byte too few is allocated.
ReturnFresh_Short(bytes) ==
  /\ heap' = Append(heap, [i \in 1..(Len(bytes) - 1) |-> bytes[i]])
  /\ bufs' = Append(bufs, [arr |-> Len(heap) + 1, off |-> 0, len |-> Len(bytes)])
  /\ given' = Append(given, [bytes |-> bytes, shared |-> Len(heap) + 1, at |-> 0])
  /\ UNCHANGED wiped

(***************************************************************************)
(* A buffer with an allocation of its own is returned.                     *)
(***************************************************************************)
ReturnFresh(bytes) ==
  /\ heap' = Append(heap, bytes)
  /\ bufs' = Append(bufs, [arr |-> Len(heap) + 1, off |-> 0, len |-> Len(bytes)])
  /\ given' = Append(given, [bytes |-> bytes, shared |-> Len(heap) + 1, at |-> 0])
  /\ UNCHANGED wiped

(***************************************************************************)
(* Views of an allocation are returned, bytes being what it holds.         *)
(***************************************************************************)
Views(segs, arr, off) ==
  [k \in DOMAIN segs |-> [arr |-> arr, off |-> off + segs[k].off, len |-> segs[k].len]]

Origins(segs, shared, at, bytes) ==
  [k \in DOMAIN segs |->
     [bytes |-> [i \in 1..segs[k].len |-> bytes[segs[k].off + i]],
      shared |-> shared, at |-> at + segs[k].off]]

ReturnViews(segs, arr, off, shared, at, bytes) ==
  /\ bufs' = bufs \o Views(segs, arr, off)
  /\ given' = given \o Origins(segs, shared, at, bytes)
  /\ UNCHANGED wiped

Secret(n) == [i \in 1..n |-> {<<Len(heap) + 1, i>>}]

(***************************************************************************)
(* randomKey, generateKeyPair, diffieHellman, HKDF.derive: a new secret.   *)
(***************************************************************************)
NewSecret ==
  /\ Len(bufs) < MaxBuffers
  /\ \E n \in Lengths : ReturnFresh(Secret(n))

\* Mutant: concat of a single buffer returns that buffer.
concat_NoCopy ==
  /\ Len(bufs) < MaxBuffers
  /\ \E j \in DOMAIN bufs :
       /\ bufs' = Append(bufs, bufs[j])
       /\ given' = Append(given, [bytes |-> Contents(j), shared |-> Len(heap) + 1, at |-> 0])
       /\ heap' = Append(heap, << >>)
       /\ UNCHANGED wiped

(***************************************************************************)
(* concat and concatBytes: one buffer or two, the same one twice included. *)
(***************************************************************************)
concat ==
  /\ Len(bufs) < MaxBuffers
  /\ \/ \E j \in DOMAIN bufs : ReturnFresh(Contents(j))
     \/ \E j, k \in DOMAIN bufs :
          /\ bufs[j].len + bufs[k].len <= MaxBytes
          /\ ReturnFresh(Contents(j) \o Contents(k))

(***************************************************************************)
(* xor: a throw for unequal lengths changes nothing.                       *)
(***************************************************************************)
xor ==
  /\ Len(bufs) < MaxBuffers
  /\ \E j, k \in DOMAIN bufs :
       /\ bufs[j].len = bufs[k].len
       /\ ReturnFresh([i \in 1..bufs[j].len |-> XorByte(Contents(j)[i], Contents(k)[i])])

(***************************************************************************)
(* split and splitBytes, of a buffer that may be a view itself.            *)
(***************************************************************************)
split ==
  \E j \in DOMAIN bufs : \E segs \in Tilings(bufs[j].len) :
    /\ Len(bufs) + Len(segs) <= MaxBuffers
    /\ ReturnViews(segs, bufs[j].arr, bufs[j].off, given[j].shared, given[j].at, Contents(j))
    /\ UNCHANGED heap

\* Mutant: each key is copied out of the OKM, which stays behind.
deriveMultiple_Copies ==
  \E n \in Lengths \ {0} : \E segs \in Tilings(n) :
    /\ Len(bufs) + Len(segs) <= MaxBuffers
    /\ heap' = heap \o << Secret(n) >> \o
         [k \in DOMAIN segs |-> [i \in 1..segs[k].len |-> Secret(n)[segs[k].off + i]]]
    /\ bufs' = bufs \o
         [k \in DOMAIN segs |-> [arr |-> Len(heap) + 1 + k, off |-> 0, len |-> segs[k].len]]
    /\ given' = given \o
         [k \in DOMAIN segs |->
            [bytes |-> [i \in 1..segs[k].len |-> Secret(n)[segs[k].off + i]],
             shared |-> Len(heap) + 1 + k, at |-> 0]]
    /\ UNCHANGED wiped

(***************************************************************************)
(* HKDF.deriveMultiple with lengths that are not negative: the OKM is not  *)
(* handed out, the views of it are.  An OKM is not empty.                  *)
(***************************************************************************)
deriveMultiple ==
  \E n \in Lengths \ {0} : \E segs \in Tilings(n) :
    /\ Len(bufs) + Len(segs) <= MaxBuffers
    /\ heap' = Append(heap, Secret(n))
    /\ ReturnViews(segs, Len(heap) + 1, 0, Len(heap) + 1, 0, Secret(n))

\* Mutant: zeroize misses the last byte.
zeroize_OffByOne ==
  \E j \in DOMAIN bufs :
    /\ heap' = [heap EXCEPT ![bufs[j].arr] =
         [i \in DOMAIN @ |-> IF bufs[j].off < i /\ i < bufs[j].off + bufs[j].len
                               THEN ZeroByte ELSE @[i]]]
    /\ wiped' = wiped \cup {j}
    /\ UNCHANGED <<bufs, given>>

zeroize ==
  \E j \in DOMAIN bufs :
    /\ heap' = [heap EXCEPT ![bufs[j].arr] =
                  [i \in DOMAIN @ |-> IF Holds(bufs[j], i) THEN ZeroByte ELSE @[i]]]
    /\ wiped' = wiped \cup {j}
    /\ UNCHANGED <<bufs, given>>

Next == NewSecret \/ concat \/ xor \/ split \/ deriveMultiple \/ zeroize

Spec == Init /\ [][Next]_vars

-----------------------------------------------------------------------------
(* Every buffer lies inside its allocation.                                *)
TypeOK ==
  /\ heap \in Seq(Seq(Byte))
  /\ bufs \in Seq(Stretch)
  /\ given \in Seq(Origin)
  /\ Len(given) = Len(bufs)
  /\ wiped \subseteq DOMAIN bufs
  /\ \A k \in DOMAIN bufs : /\ bufs[k].arr \in DOMAIN heap
                            /\ bufs[k].off + bufs[k].len <= Len(heap[bufs[k].arr])

(* Byte i of buffer k, as the documentation has it, was wiped through      *)
(* buffer w: w shares its memory and holds that byte.                      *)
WipedThrough(w, k, i) ==
  /\ given[w].shared = given[k].shared
  /\ given[w].at < given[k].at + i /\ given[k].at + i <= given[w].at + bufs[w].len

(* A buffer holds what it was given, except for the bytes that were wiped  *)
(* through it or through a buffer it is documented to share memory with: a *)
(* view sees the wipe of its parent and of its pieces, a copy sees none.   *)
ContentsAsDocumented ==
  \A k \in DOMAIN bufs : \A i \in 1..bufs[k].len :
    Contents(k)[i] = IF \E w \in wiped : WipedThrough(w, k, i)
                       THEN ZeroByte ELSE given[k].bytes[i]

(* The library keeps no copy of its own: as soon as the program has wiped  *)
(* every buffer it was ever given, no secret byte is left, not even of an  *)
(* OKM it was only given the pieces of.                                    *)
NothingLeftBehind ==
  (DOMAIN bufs \subseteq wiped) =>
    \A a \in DOMAIN heap : \A i \in DOMAIN heap[a] : heap[a][i] = ZeroByte
=============================================================================
