------------------------------ MODULE Sampling ------------------------------
(***************************************************************************)
(* Rejection sampling by a warp: the rows of the matrix (sign.cu,          *)
(* verify.cu, keypair.cu) and the short vectors (keypair.cu).  In a round  *)
(* every thread takes one sample of the hash output; a vote gives each     *)
(* good one its place behind those of the threads below.  And the sampling *)
(* of the matrix of Kyber by one thread (indcpa.cu), in calls of           *)
(* rej_uniform.  A sample is named by its place in the hash output; which  *)
(* ones are good is free.                                                  *)
(***************************************************************************)
EXTENDS Integers, FiniteSets, Sequences

CONSTANTS
  WarpThreads,    \* threads of the warp (32)
  Rounds,         \* rounds that suffice if every sample is good (8)
  MatrixSamples,  \* samples in POLY_UNIFORM_NBLOCKS blocks (280)
  EtaRounds,      \* whole rounds in POLY_UNIFORM_ETA_BUFLEN bytes (17 or 25)
  BlockSamples,   \* Kyber: samples in a block of SHAKE128 (84)
  FirstBlocks,    \* Kyber: blocks of the first call, maxnblocks (4)
  MoreBlocks      \* bound of the model: blocks after that

DILITHIUM_N == Rounds * WarpThreads

ASSUME SamplingAssumption ==
  /\ {WarpThreads, Rounds, MatrixSamples, EtaRounds} \subseteq Nat \ {0}
  /\ MatrixSamples \in DILITHIUM_N .. DILITHIUM_N + WarpThreads
  /\ EtaRounds >= Rounds
  /\ {BlockSamples, FirstBlocks, MoreBlocks} \subseteq Nat \ {0}

VARIABLES
  sampler,   \* "matrix", "eta" or "gen_matrix_n" of Kyber
  good,      \* the good samples
  ctr, round,
  poly       \* the sample at each position; -1: none yet

samplingVars == <<sampler, good, ctr, round, poly>>

\* Samples the buffer holds.  Behind it a thread reads whatever is there; in
\* Kyber it fills the buffer with one more block.
Samples ==
  CASE sampler = "matrix" -> MatrixSamples
    [] sampler = "eta" -> EtaRounds * WarpThreads
    [] sampler = "gen_matrix_n" -> FirstBlocks * BlockSamples
Read ==
  CASE sampler = "matrix" -> (Rounds + 1) * WarpThreads
    [] sampler = "eta" -> EtaRounds * WarpThreads
    [] sampler = "gen_matrix_n" -> (FirstBlocks + MoreBlocks) * BlockSamples

SamplingInit ==
  /\ sampler \in {"matrix", "eta", "gen_matrix_n"}
  /\ good \in SUBSET (0 .. Read - 1)
  /\ ctr = 0 /\ round = 0
  /\ poly = [i \in 0 .. DILITHIUM_N - 1 |-> -1]

\* The good samples of this round, at the threads that took them.
GoodLanes == {t \in 0 .. WarpThreads - 1 : round * WarpThreads + t \in good}
InclusiveUnshifted(t) == Cardinality(GoodLanes)
Inclusive(t) == Cardinality({u \in GoodLanes : u <= t})

\* Where thread t stores its sample, if it has a good one.
Stored(t) == ctr + Inclusive(t) - 1
Compacts ==
  poly' = [i \in DOMAIN poly |->
    IF \E t \in GoodLanes : ctr + Inclusive(t) <= DILITHIUM_N /\ Stored(t) = i
    THEN round * WarpThreads + (CHOOSE t \in GoodLanes : Stored(t) = i)
    ELSE poly[i]]

\* When all threads have a good sample, they store without counting.
AllGood ==
  /\ sampler = "matrix" /\ round < Rounds
  /\ GoodLanes = 0 .. WarpThreads - 1
  /\ poly' = [i \in DOMAIN poly |->
       IF i - ctr \in 0 .. WarpThreads - 1 THEN round * WarpThreads + (i - ctr) ELSE poly[i]]
  /\ ctr' = ctr + WarpThreads
  /\ round' = round + 1
  /\ UNCHANGED <<sampler, good>>

SomeGood ==
  /\ sampler = "matrix" /\ round < Rounds
  /\ GoodLanes # 0 .. WarpThreads - 1
  /\ Compacts
  /\ ctr' = ctr + Cardinality(GoodLanes)
  /\ round' = round + 1
  /\ UNCHANGED <<sampler, good>>

\* One more round, the end of which lies behind the buffer.
LastRound ==
  /\ sampler = "matrix" /\ round = Rounds
  /\ ctr < DILITHIUM_N
  /\ Compacts
  /\ round' = round + 1
  /\ UNCHANGED <<sampler, good, ctr>>

EtaRound ==
  /\ sampler = "eta"
  /\ ctr < DILITHIUM_N /\ round < EtaRounds
  /\ Compacts
  /\ ctr' = ctr + Cardinality(GoodLanes)
  /\ round' = round + 1
  /\ UNCHANGED <<sampler, good>>

\* The good samples of n blocks one after the other, until there are len.
rej_uniform(len, block, n) ==
  LET taken[pos \in 0 .. n * BlockSamples] ==
        IF pos = 0 THEN << >>
        ELSE IF block * BlockSamples + pos - 1 \in good /\ Len(taken[pos - 1]) < len
             THEN Append(taken[pos - 1], block * BlockSamples + pos - 1)
             ELSE taken[pos - 1]
  IN  taken[n * BlockSamples]

\* The polynomial with samples stored from its first coefficient on.
FromStart(taken) ==
  [i \in DOMAIN poly |-> IF i + 1 \in DOMAIN taken THEN taken[i + 1] ELSE poly[i]]

\* round counts the blocks.
FirstSamples ==
  /\ sampler = "gen_matrix_n" /\ round = 0
  /\ LET taken == rej_uniform(DILITHIUM_N, 0, FirstBlocks)
     IN  poly' = FromStart(taken) /\ ctr' = Len(taken)
  /\ round' = FirstBlocks
  /\ UNCHANGED <<sampler, good>>

\* One more block.  What it gives is stored ctr * N_TESTS polynomials further
\* on, outside of the matrix unless ctr is 0.
MoreSamples ==
  /\ sampler = "gen_matrix_n" /\ round \in FirstBlocks .. FirstBlocks + MoreBlocks - 1
  /\ ctr < DILITHIUM_N
  /\ LET taken == rej_uniform(DILITHIUM_N - ctr, round, 1)
     IN  /\ poly' = IF ctr = 0 THEN FromStart(taken) ELSE poly
         /\ ctr' = ctr + Len(taken)
  /\ round' = round + 1
  /\ UNCHANGED <<sampler, good>>

SamplingNext ==
  AllGood \/ SomeGood \/ LastRound \/ EtaRound \/ FirstSamples \/ MoreSamples

SamplingSpec == SamplingInit /\ [][SamplingNext]_samplingVars

-----------------------------------------------------------------------------
\* The i-th good sample.
Nth(i) == CHOOSE s \in good : Cardinality({r \in good : r < s}) = i

SamplingEnded ==
  \/ sampler = "matrix" /\ (round > Rounds \/ (round = Rounds /\ ctr >= DILITHIUM_N))
  \/ sampler = "eta" /\ (round = EtaRounds \/ ctr >= DILITHIUM_N)
  \/ sampler = "gen_matrix_n" /\ (round = FirstBlocks + MoreBlocks \/ ctr >= DILITHIUM_N)

\* The warp and the thread find the polynomial that taking the good samples
\* one after the other gives, as Kyber and FIPS 204 prescribe, whenever the
\* buffer, in Kyber the first blocks, holds enough of them: nothing read
\* behind the buffer gets into it.
SamplesInOrder ==
  SamplingEnded /\ Cardinality({s \in good : s < Samples}) >= DILITHIUM_N =>
    \A i \in 0 .. DILITHIUM_N - 1 : poly[i] = Nth(i)
=============================================================================
