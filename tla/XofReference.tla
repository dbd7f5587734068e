---------------------------- MODULE XofReference ----------------------------
(***************************************************************************)
(* The output of SHAKE and SHA3 for a message, as FIPS 202 defines it over *)
(* a permutation that is left free.  A byte that has not been permuted is  *)
(* the set of symbols it is the exclusive or of: byte i of the message is  *)
(* {i}, the suffix of the function {0} (SHAKE) or {-2} (SHA3), the last    *)
(* bit of the padding {-1}.  A byte of output is named by the blocks that  *)
(* went through the permutation before it, its place in the state, and     *)
(* what has been added there since.                                        *)
(***************************************************************************)
EXTENDS Integers, Sequences

CONSTANTS
  StateBytes   \* the bytes of the state (200)

SHAKE == 0
SHA3 == -2
PadEnd == -1

\* The padded message, as the bytes 0, 1, ... .
PaddedByte(r, sfx, n, i) ==
  (IF i < n THEN {i + 1} ELSE IF i = n THEN {sfx} ELSE {})
  \cup (IF i = r * (n \div r) + r - 1 /\ i >= n THEN {PadEnd} ELSE {})

\* Block k of it, on the whole state.
PaddedBlock(r, sfx, n, k) ==
  [p \in 0 .. StateBytes - 1 |-> IF p < r THEN PaddedByte(r, sfx, n, r * (k - 1) + p) ELSE {}]

Blank == [p \in 0 .. StateBytes - 1 |-> {}]

\* Byte j of the output, counted from 1.
XofByte(r, sfx, n, j) ==
  LET blocks == [k \in 1 .. (n \div r) + 1 |-> PaddedBlock(r, sfx, n, k)]
      squeezed == [k \in 1 .. (j - 1) \div r |-> Blank]
  IN  [base |-> blocks \o squeezed, at |-> (j - 1) % r, add |-> {}]

XofBytes(r, sfx, n, len) == [j \in 1 .. len |-> XofByte(r, sfx, n, j)]
=============================================================================
