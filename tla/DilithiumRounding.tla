--------------------------- MODULE DilithiumRounding ---------------------------
(***************************************************************************)
(* One coefficient of a Dilithium key, and of a signature and its          *)
(* verification (rounding.cuh, reduce.cuh and the kernels that call them). *)
(* The inverse transform leaves some representative between -Q and Q; the  *)
(* products of the challenge with s2 and t0 are any numbers of their size. *)
(***************************************************************************)
EXTENDS Integers

CONSTANTS
  Coefficients,  \* values of w, and of t - s2, modulo Q
  ProductsS2,    \* values of a coefficient of c * s2 and ...
  ProductsT0     \* of c * t0

DILITHIUM_Q == 8380417

ASSUME CoefficientsAssumption ==
  /\ Coefficients \subseteq {x \in Nat : x < DILITHIUM_Q}
  /\ ProductsS2 \subseteq Int /\ ProductsT0 \subseteq Int

VARIABLES
  mode,     \* DILITHIUM_MODE
  stage,    \* how far the coefficient has come
  coeff,    \* of w, or of t - s2
  s2, t0,   \* coefficients of c * s2 and c * t0; of a key, s2 alone
  low,      \* the register of the low part
  high,     \* w1, or t1
  hint,     \* of the signature
  w1prime   \* what the verifier recovers

roundingVars == <<mode, stage, coeff, s2, t0, low, high, hint, w1prime>>

-----------------------------------------------------------------------------
GAMMA2(d) == IF d = 2 THEN 95232 ELSE 261888
BETA(d) == IF d = 2 THEN 78 ELSE IF d = 3 THEN 196 ELSE 120
ETA(d) == IF d = 3 THEN 4 ELSE 2
TAU(d) == IF d = 2 THEN 39 ELSE IF d = 3 THEN 49 ELSE 60

reduce32(a) == a - ((a + 4194304) \div 8388608) * DILITHIUM_Q
caddq(a) == IF a < 0 THEN a + DILITHIUM_Q ELSE a
chknorm(b, a) == a >= b \/ -a >= b

power2round(a) ==
  LET a1 == (a + 4095) \div 8192
  IN  [a1 |-> a1, a0 |-> a - a1 * 8192]

decompose(d, a) ==
  LET b == (a + 127) \div 128
      rounded == IF d = 2 THEN (b * 11275 + 8388608) \div 16777216
                 ELSE (b * 1025 + 2097152) \div 4194304
      a1 == IF d = 2 THEN (IF rounded > 43 THEN 0 ELSE rounded) ELSE rounded % 16
      a0 == a - a1 * (2 * GAMMA2(d))
  IN  [a1 |-> a1, a0 |-> IF a0 > 4190208 THEN a0 - DILITHIUM_Q ELSE a0]

make_hintWithoutCorner(d, a0, a1) == a0 > GAMMA2(d) \/ a0 < -GAMMA2(d)
make_hint(d, a0, a1) ==
  a0 > GAMMA2(d) \/ a0 < -GAMMA2(d) \/ (a0 = -GAMMA2(d) /\ a1 # 0)

Highest(d) == IF d = 2 THEN 43 ELSE 15
use_hint(d, a, h) ==
  LET r == decompose(d, a)
  IN  IF ~h THEN r.a1
      ELSE IF r.a0 > 0 THEN (IF r.a1 = Highest(d) THEN 0 ELSE r.a1 + 1)
      ELSE (IF r.a1 = 0 THEN Highest(d) ELSE r.a1 - 1)

\* What the inverse transform may leave of a number modulo Q: its last step
\* is a Montgomery multiplication, known to end between -Q and Q.
Representatives(x) ==
  {r \in {x - DILITHIUM_Q, x, x + DILITHIUM_Q} : -DILITHIUM_Q < r /\ r < DILITHIUM_Q}

\* A coefficient of a product with the challenge, which has TAU entries +-1.
Within(products, bound) == {x \in products : -bound <= x /\ x <= bound}

-----------------------------------------------------------------------------
RoundingInit ==
  /\ mode \in {2, 3, 5} /\ coeff \in Coefficients
  /\ stage = "start" /\ s2 = 0 /\ t0 = 0 /\ low = 0 /\ high = 0
  /\ hint = FALSE /\ w1prime = 0

\* gpu_keypair adds s2, rounds and packs t1 in 10 and t0 in 13 bits, which
\* the kernels of signing and verification unpack.
RoundKey ==
  /\ stage = "start"
  /\ \E r \in Representatives(coeff), e \in -ETA(mode) .. ETA(mode) :
       LET t == power2round(caddq(r + e))
       IN  /\ s2' = e
           /\ high' = t.a1 % 1024
           /\ low' = 4096 - ((4096 - t.a0) % 8192)
  /\ stage' = "key"
  /\ UNCHANGED <<mode, coeff, t0, hint, w1prime>>

ComputeW ==
  /\ stage = "start"
  /\ \E r \in Representatives(coeff) :
       LET w == decompose(mode, caddq(r))
       IN  high' = w.a1 /\ low' = w.a0
  /\ stage' = "w"
  /\ UNCHANGED <<mode, coeff, s2, t0, hint, w1prime>>

SubtractS2 ==
  /\ stage = "w"
  /\ \E p \in Within(ProductsS2, BETA(mode)) : \E r \in Representatives(p) :
       /\ s2' = p
       /\ low' = reduce32(low - r)
  /\ stage' = IF chknorm(GAMMA2(mode) - BETA(mode), low') THEN "rejected" ELSE "s2"
  /\ UNCHANGED <<mode, coeff, t0, high, hint, w1prime>>

AddT0 ==
  /\ stage = "s2"
  /\ \E p \in Within(ProductsT0, TAU(mode) * 4096) : \E r \in Representatives(p) :
       LET ct0 == reduce32(r)
       IN  /\ t0' = p
           /\ stage' = IF chknorm(GAMMA2(mode), ct0) THEN "rejected" ELSE "t0"
           /\ low' = low + ct0
  /\ UNCHANGED <<mode, coeff, s2, high, hint, w1prime>>

MakeHint ==
  /\ stage = "t0"
  /\ hint' = make_hint(mode, low, high)
  /\ stage' = "signed"
  /\ UNCHANGED <<mode, coeff, s2, t0, low, high, w1prime>>

\* A z - c t1 2^d is w - c s2 + c t0.
Verify ==
  /\ stage = "signed"
  /\ \E r \in Representatives((coeff - s2 + t0) % DILITHIUM_Q) :
       w1prime' = use_hint(mode, caddq(r), hint)
  /\ stage' = "verified"
  /\ UNCHANGED <<mode, coeff, s2, t0, low, high, hint>>

RoundingNext == RoundKey \/ ComputeW \/ SubtractS2 \/ AddT0 \/ MakeHint \/ Verify

RoundingSpec == RoundingInit /\ [][RoundingNext]_roundingVars

-----------------------------------------------------------------------------
\* The verifier recovers the w1 the signer has hashed, whichever
\* representatives the transforms leave; an attempt is rejected only if its
\* low part or c * t0 really is too large; and the parts of a key, packed and
\* unpacked, give the coefficient again.
CoefficientsRecovered ==
  /\ stage = "verified" => w1prime = high
  /\ stage = "rejected" =>
       \/ chknorm(GAMMA2(mode) - BETA(mode), decompose(mode, coeff).a0 - s2)
       \/ chknorm(GAMMA2(mode), t0)
  /\ stage = "key" => (high * 8192 + low - (coeff + s2)) % DILITHIUM_Q = 0
=============================================================================
