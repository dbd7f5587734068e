---------------------------- MODULE HintEncoding ----------------------------
(***************************************************************************)
(* The packed hints of a Dilithium signature: OMEGA bytes for the          *)
(* positions of the hints, polynomial after polynomial, and one byte for   *)
(* each polynomial with the number of hints up to its end.  How the        *)
(* verifying warp reads them (verify.cu).                                  *)
(***************************************************************************)
EXTENDS Integers, FiniteSets

CONSTANTS
  Lanes,         \* threads of a warp (32)
  K,             \* DILITHIUM_K
  N,             \* DILITHIUM_N
  OMEGA

ASSUME EncodingAssumption == {Lanes, K, N, OMEGA} \subseteq Nat \ {0}

\* A hint is a polynomial and a position.
Hints == (0 .. K - 1) \X (0 .. N - 1)
HintBytes == 0 .. OMEGA + K - 1

Before(g, h) == g[1] < h[1] \/ (g[1] = h[1] /\ g[2] < h[2])
Rank(hints, h) == Cardinality({g \in hints : Before(g, h)})

\* The encoding of FIPS 204 of a set of at most OMEGA hints.
HintBitPack(hints) ==
  [i \in HintBytes |->
     IF i >= OMEGA THEN Cardinality({h \in hints : h[1] <= i - OMEGA})
     ELSE IF i < Cardinality(hints)
     THEN (CHOOSE h \in hints : Rank(hints, h) = i)[2]
     ELSE 0]

-----------------------------------------------------------------------------
(* Thread t of the warp looks at indices from + t, from + t + Lanes, ...   *)
(* Every round of votes is added to the mask by exclusive or, which        *)
(* thread 0 passes on: it votes in every round.                            *)
FailMask(from, to, Bad(_)) ==
  {t \in 0 .. Lanes - 1 :
     Cardinality({i \in from .. to - 1 : (i - from) % Lanes = t /\ Bad(i)}) % 2 = 1}

First(b, k) == IF k = 0 THEN 0 ELSE b[OMEGA + k - 1]
End(b, k) == b[OMEGA + k]

PolyFails(b, k) ==
  \/ End(b, k) < First(b, k)
  \/ End(b, k) > OMEGA
  \/ FailMask(First(b, k), End(b, k), LAMBDA i : i > First(b, k) /\ b[i] <= b[i - 1]) # {}
ExtraFails(b) == FailMask(End(b, K - 1), OMEGA, LAMBDA i : b[i] # 0) # {}

\* A failure of a polynomial ends the loop before the bytes of the next.
HintsAccepted(b) == ~(\E k \in 0 .. K - 1 : PolyFails(b, k)) /\ ~ExtraFails(b)
HintsOf(b) ==
  UNION {{<<k, b[i]>> : i \in First(b, k) .. End(b, k) - 1} : k \in 0 .. K - 1}
=============================================================================
