------------------------------- MODULE Keccak -------------------------------
(***************************************************************************)
(* The permutation Keccak-f[1600], which the repository has three times:   *)
(* unrolled over two rounds for the host (fips202_cpu), as loops for one   *)
(* CUDA thread (fips202_cuda/thread) and with one lane per thread and warp *)
(* shuffles (fips202_cuda/warp).  Each runs next to the definition of      *)
(* FIPS 202.  A lane is the set of its bits that are 1; state[i] of the    *)
(* code is element i + 1 of a tuple of 25 lanes.                           *)
(***************************************************************************)
EXTENDS Integers, Sequences

CONSTANTS
  Starts   \* the states from which the permutation is run

Bits == 0 .. 63
States == [1 .. 25 -> SUBSET Bits]

ASSUME StartsAssumption == Starts \subseteq States

VARIABLES
  impl,      \* the implementation that runs
  round,     \* the rounds it has done
  lanes,     \* its lanes
  expected   \* history: the lanes by FIPS 202

keccakVars == <<impl, round, lanes, expected>>

-----------------------------------------------------------------------------
\* Five columns, and 25 lanes, by a formula for the index that counts from 0.
Columns(Op(_)) == <<Op(0), Op(1), Op(2), Op(3), Op(4)>>
Lanes(Op(_)) ==
  <<Op(0), Op(1), Op(2), Op(3), Op(4), Op(5), Op(6), Op(7), Op(8), Op(9),
    Op(10), Op(11), Op(12), Op(13), Op(14), Op(15), Op(16), Op(17), Op(18), Op(19),
    Op(20), Op(21), Op(22), Op(23), Op(24)>>

\* Column and row of lane i; the lane n places further in its row.
X(i) == i % 5
Y(i) == i \div 5
InRow(i, n) == 5 * Y(i) + ((X(i) + n) % 5)

(***************************************************************************)
(* 64-bit words.  A shift by 64 gives 0 on the GPU.                        *)
(***************************************************************************)
XOR(v, w) == (v \ w) \cup (w \ v)
XOR5(v1, v2, v3, v4, v5) == XOR(XOR(XOR(XOR(v1, v2), v3), v4), v5)
Shl(v, n) == {i + n : i \in {j \in v : j + n <= 63}}
Shr(v, n) == {i - n : i \in {j \in v : j >= n}}
ROL(v, n) == XOR(Shl(v, n), Shr(v, 64 - n))

\* a ^ (~b & c)
ChiOf(v1, v2, v3) == XOR(v1, (Bits \ v2) \cap v3)

\* KeccakF_RoundConstants, the same in all three.
RoundConstants ==
  <<{0}, {1, 7, 15}, {1, 3, 7, 15, 63}, {15, 31, 63}, {0, 1, 3, 7, 15}, {0, 31},
    {0, 7, 15, 31, 63}, {0, 3, 15, 63}, {1, 3, 7}, {3, 7}, {0, 3, 15, 31},
    {1, 3, 31}, {0, 1, 3, 7, 15, 31}, {0, 1, 3, 7, 63}, {0, 3, 7, 15, 63},
    {0, 1, 15, 63}, {1, 15, 63}, {7, 63}, {1, 3, 15}, {1, 3, 31, 63},
    {0, 7, 15, 31, 63}, {7, 15, 63}, {0, 31}, {3, 15, 31, 63}>>

Iota(s, r) == [s EXCEPT ![1] = XOR(@, RoundConstants[r + 1])]

\* Column x of s.
Parity(s, x) == XOR5(s[x + 1], s[x + 6], s[x + 11], s[x + 16], s[x + 21])

-----------------------------------------------------------------------------
(***************************************************************************)
(* The host: both rounds of an iteration in registers, row by row.  A row  *)
(* of the result takes these five lanes, rotated.                          *)
(***************************************************************************)
CpuRows ==
  << << <<0, 0>>,  <<6, 44>>, <<12, 43>>, <<18, 21>>, <<24, 14>> >>,
     << <<3, 28>>, <<9, 20>>, <<10, 3>>,  <<16, 45>>, <<22, 61>> >>,
     << <<1, 1>>,  <<7, 6>>,  <<13, 25>>, <<19, 8>>,  <<20, 18>> >>,
     << <<4, 27>>, <<5, 36>>, <<11, 10>>, <<17, 15>>, <<23, 56>> >>,
     << <<2, 62>>, <<8, 55>>, <<14, 39>>, <<15, 41>>, <<21, 2>> >> >>

\* Da, De, Di, Do, Du.
CpuD(A) ==
  LET BCof(x) == Parity(A, x)
      BC == Columns(BCof)
      Dof(x) == XOR(BC[((x + 4) % 5) + 1], ROL(BC[((x + 1) % 5) + 1], 1))
  IN  Columns(Dof)

\* BCa .. BCu of each row.
CpuBC(A, D) ==
  LET Taken(i) ==
        LET from == CpuRows[Y(i) + 1][X(i) + 1]
        IN  ROL(XOR(A[from[1] + 1], D[X(from[1]) + 1]), from[2])
  IN  Lanes(Taken)

\* ~BCe & BCi, for each lane of the rows.
CpuChi(BC) ==
  LET E(i) == ChiOf(BC[i + 1], BC[InRow(i, 1) + 1], BC[InRow(i, 2) + 1])
  IN  Lanes(E)

\* thetaRhoPiChiIotaPrepareTheta(round, A, E)
CpuHalf(A, r) == Iota(CpuChi(CpuBC(A, CpuD(A))), r)

\* Mutation of CpuIteration: the second half takes the constant of the first.
CpuIterationSameConstant(A, r) == CpuHalf(CpuHalf(A, r), r)
CpuIteration(A, r) == CpuHalf(CpuHalf(A, r), r + 1)

-----------------------------------------------------------------------------
(***************************************************************************)
(* One thread: the lanes are permuted in place, t carries the lane that    *)
(* was overwritten last.                                                   *)
(***************************************************************************)
keccakf_rotc == <<1, 3, 6, 10, 15, 21, 28, 36, 45, 55, 2, 14,
                  27, 41, 56, 8, 25, 43, 62, 18, 39, 61, 20, 44>>
keccakf_piln == <<10, 7, 11, 17, 18, 3, 5, 16, 8, 21, 24, 4,
                  15, 23, 19, 13, 12, 2, 20, 14, 22, 9, 6, 1>>

ThreadTheta(st) ==
  LET bcOf(x) == Parity(st, x)
      bc == Columns(bcOf)
      t(x) == XOR(bc[((x + 4) % 5) + 1], ROL(bc[((x + 1) % 5) + 1], 1))
      ts == Columns(t)
      Changed(i) == XOR(st[i + 1], ts[X(i) + 1])
  IN  Lanes(Changed)

\* The lanes and t after the first steps of the loop.
RhoPiStep(q, i) ==
  LET j == keccakf_piln[i] + 1
  IN  [st |-> [q.st EXCEPT ![j] = ROL(q.t, keccakf_rotc[i])], t |-> q.st[j]]

ThreadRhoPi(st) ==
  LET after[i \in 0 .. 24] ==
        IF i = 0 THEN [st |-> st, t |-> st[2]] ELSE RhoPiStep(after[i - 1], i)
  IN  after[24].st

ThreadChi(st) ==
  LET Changed(i) == ChiOf(st[i + 1], st[InRow(i, 1) + 1], st[InRow(i, 2) + 1])
  IN  Lanes(Changed)

ThreadRound(st, r) == Iota(ThreadChi(ThreadRhoPi(ThreadTheta(st))), r)

-----------------------------------------------------------------------------
(***************************************************************************)
(* A warp: thread i < 25 keeps lane i, Shfl(f, i) is the register f of     *)
(* thread i.                                                               *)
(***************************************************************************)
Shfl(f, i) == f[i + 1]

offset_constants ==
  <<0, 1, 62, 28, 27, 36, 44, 6, 55, 20, 3, 10, 43, 25, 39,
    41, 45, 15, 21, 8, 18, 2, 61, 56, 14>>

\* The parameters a thread computes once from its index.
theta1(i) == (X(i) + 1) % 5
theta4(i) == (X(i) + 4) % 5
rp(i) == ((X(i) + 3 * Y(i)) % 5) + 5 * X(i)
chi1(i) == i - X(i) + theta1(i)
chi2(i) == i - X(i) + ((X(i) + 2) % 5)

WarpTheta(s) ==
  LET cOf(i) == XOR5(Shfl(s, X(i)), Shfl(s, X(i) + 5), Shfl(s, X(i) + 10),
                     Shfl(s, X(i) + 15), Shfl(s, X(i) + 20))
      c == Lanes(cOf)
      Changed(i) == XOR(s[i + 1], XOR(Shfl(c, theta4(i)), ROL(Shfl(c, theta1(i)), 1)))
  IN  Lanes(Changed)

WarpRhoPi(s) ==
  LET Rotated(i) == ROL(s[i + 1], offset_constants[i + 1])
      rotated == Lanes(Rotated)
      Fetched(i) == Shfl(rotated, rp(i))
  IN  Lanes(Fetched)

WarpChi(c) ==
  LET Changed(i) == ChiOf(c[i + 1], Shfl(c, chi1(i)), Shfl(c, chi2(i)))
  IN  Lanes(Changed)

WarpRound(s, r) == Iota(WarpChi(WarpRhoPi(WarpTheta(s))), r)

-----------------------------------------------------------------------------
(***************************************************************************)
(* FIPS 202, by the formulas of the standard.                              *)
(***************************************************************************)
LaneAt(A, x, y) == A[(x % 5) + 5 * (y % 5) + 1]

\* Where the walk of rho is after t steps.
WalkStep(p) == <<p[2], (2 * p[1] + 3 * p[2]) % 5>>
Walk[t \in 0 .. 23] == IF t = 0 THEN <<1, 0>> ELSE WalkStep(Walk[t - 1])

RhoOffset(i) ==
  IF i = 0 THEN 0
  ELSE LET t == CHOOSE n \in 0 .. 23 : Walk[n] = <<X(i), Y(i)>>
       IN  (((t + 1) * (t + 2)) \div 2) % 64
RhoOffsets == Lanes(RhoOffset)

\* The register of the generator of round constants after t steps.
RegisterStep(R) ==
  LET moved == {i + 1 : i \in R}
  IN  IF 8 \in moved THEN XOR(moved \ {8}, {0, 4, 5, 6}) ELSE moved
Register[t \in 0 .. 254] == IF t = 0 THEN {0} ELSE RegisterStep(Register[t - 1])

\* Bit j of the generator goes to bit 2^j - 1 of the lane.
IotaBits == <<0, 1, 3, 7, 15, 31, 63>>
IotaConstant(r) == {IotaBits[j + 1] : j \in {n \in 0 .. 6 : 0 \in Register[n + 7 * r]}}

Rotate(v, n) == {(z + n) % 64 : z \in v}

Theta(A) ==
  LET Cof(x) == XOR5(LaneAt(A, x, 0), LaneAt(A, x, 1), LaneAt(A, x, 2),
                     LaneAt(A, x, 3), LaneAt(A, x, 4))
      C == Columns(Cof)
      Dof(x) == XOR(C[((x + 4) % 5) + 1], Rotate(C[((x + 1) % 5) + 1], 1))
      D == Columns(Dof)
      Changed(i) == XOR(A[i + 1], D[X(i) + 1])
  IN  Lanes(Changed)

Rho(A) ==
  LET Rotated(i) == Rotate(A[i + 1], RhoOffsets[i + 1])
  IN  Lanes(Rotated)

Pi(A) ==
  LET Moved(i) == LaneAt(A, X(i) + 3 * Y(i), X(i))
  IN  Lanes(Moved)

Chi(A) ==
  LET Changed(i) == XOR(A[i + 1], {z \in Bits : /\ z \notin LaneAt(A, X(i) + 1, Y(i))
                                                /\ z \in LaneAt(A, X(i) + 2, Y(i))})
  IN  Lanes(Changed)

FipsRound(A, r) ==
  LET S == Chi(Pi(Rho(Theta(A))))
  IN  [S EXCEPT ![1] = XOR(@, IotaConstant(r))]

-----------------------------------------------------------------------------
KeccakInit ==
  /\ impl \in {"cpu", "thread", "warp"}
  /\ round = 0
  /\ lanes \in Starts
  /\ expected = lanes

CpuStep ==
  /\ impl = "cpu" /\ round < 24
  /\ lanes' = CpuIteration(lanes, round)
  /\ round' = round + 2
  /\ expected' = FipsRound(FipsRound(expected, round), round + 1)
  /\ UNCHANGED impl

ThreadStep ==
  /\ impl = "thread" /\ round < 24
  /\ lanes' = ThreadRound(lanes, round)
  /\ round' = round + 1
  /\ expected' = FipsRound(expected, round)
  /\ UNCHANGED impl

WarpStep ==
  /\ impl = "warp" /\ round < 24
  /\ lanes' = WarpRound(lanes, round)
  /\ round' = round + 1
  /\ expected' = FipsRound(expected, round)
  /\ UNCHANGED impl

KeccakNext == CpuStep \/ ThreadStep \/ WarpStep

KeccakSpec == KeccakInit /\ [][KeccakNext]_keccakVars

-----------------------------------------------------------------------------
\* The three implementations of the permutation, each laid out in its own way
\* with its own tables, compute after every iteration of their loop what
\* FIPS 202 defines.
Permutes == lanes = expected
=============================================================================
