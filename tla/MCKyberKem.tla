----------------------------- MODULE MCKyberKem -----------------------------
(***************************************************************************)
(* Small choices of noise and matrix: every noise is in -2 .. 2, as that   *)
(* of a centered binomial with parameter 2, and samples are spread over    *)
(* all that rej_uniform accepts.                                           *)
(***************************************************************************)
EXTENDS KyberKem, Sequences

MCRands == {<<0>>, <<1>>}
MCFill == {12345}
MCMessage(r) == 1 - r[1]

Number(seed) ==
  LET x == seed[2]
  IN  x[1] + (IF seed[1] = "Ga" THEN 3 ELSE 0)
           + (IF Len(x) = 2 THEN 3 * x[2][2].t[0] ELSE 0)

MCNoise(seed, nonce) == ((7 * Number(seed) + 3 * nonce * nonce + nonce) % 5) - 2
MCSample(seed, x, y) ==
  (8191 * Number(seed) + 12345 * (x + 1) * (y + 2) + 777) % SampleBound
=============================================================================
