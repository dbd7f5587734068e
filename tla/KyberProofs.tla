---------------------------- MODULE KyberProofs -----------------------------
(***************************************************************************)
(* The Kyber1024 KEM, for every batch, rank up to nine and content of      *)
(* fresh memory, if the samplers keep their ranges (Samplers).             *)
(*                                                                         *)
(* What the reductions compute, for every number they can be given, and    *)
(* the ranges that keep sums within 16 bits.  With them every kernel is    *)
(* congruent modulo q to the formula it stands for, and small enough for   *)
(* the next one: so the pipelines give keys and ciphertexts of the         *)
(* reference, whatever the workspace holds.                                *)
(*                                                                         *)
(* Decryption finds the message: the products with the matrix cancel, and  *)
(* noise and compression stay below a quarter of q.  Hence a ciphertext    *)
(* has one message at most, and decapsulation accepts what encapsulation   *)
(* can make.  The invariant (KemInv) says of each buffer where it is from. *)
(***************************************************************************)
EXTENDS KyberKem, Induction

(***************************************************************************)
(* Kyber: reductions and ranges.                                           *)
(***************************************************************************)
\* x and y are congruent modulo m.
Congruent(x, y, m) == (x - y) % m = 0

\* The constants of reduce.cu as numbers.
LEMMA Constants ==
  /\ KyberQ = 3329 /\ BarrettFactor = 20159 /\ QInv = -3327
  /\ SampleBound = 63251
BY SMTT(20) DEF KyberQ, BarrettFactor, QInv, Int16, SampleBound

\* Conversion to int16_t takes away a multiple of 2^16, and nothing from a
\* number that fits.
LEMMA Int16Range ==
  ASSUME NEW x \in Int
  PROVE  /\ Int16(x) \in Int16s
         /\ \E k \in Int : Int16(x) = x + 65536 * k
         /\ x \in Int16s => Int16(x) = x
<1>1. (x + 32768) % 65536 = (x + 32768) - 65536 * ((x + 32768) \div 65536)
  BY SMTT(20)
<1>2. -((x + 32768) \div 65536) \in Int
  BY SMTT(20)
<1>3. Int16(x) = x + 65536 * (-((x + 32768) \div 65536))
  BY SMTT(20), <1>1 DEF Int16
<1>4. Int16(x) \in Int16s
  BY SMTT(20) DEF Int16, Int16s
<1>5. ASSUME x \in Int16s PROVE Int16(x) = x
  BY SMTT(20), <1>5 DEF Int16, Int16s
<1> QED
  BY SMTT(20), <1>2, <1>3, <1>4, <1>5

\* barrett_reduce gives, for every int16_t, a congruent number in 0 .. q, as
\* its comment at reduce.cu:37 says.
THEOREM BarrettCorrect ==
  ASSUME NEW a \in Int16s
  PROVE  BarrettReduce(a) \in 0 .. KyberQ /\ Congruent(BarrettReduce(a), a, KyberQ)
<1>1. a \in Int /\ -32768 <= a /\ a <= 32767
  BY SMTT(20) DEF Int16s
<1> DEFINE t == (20159 * a) \div 67108864
<1>2. t \in Int /\ 67108864 * t <= 20159 * a /\ 20159 * a < 67108864 * t + 67108864
  BY SMTT(20), <1>1
<1>3. BarrettReduce(a) = a - t * 3329
  BY SMTT(20), Constants DEF BarrettReduce
<1>4. a - t * 3329 \in 0 .. 3329
  BY SMTT(20), <1>1, <1>2
<1>5. ((a - t * 3329) - a) % 3329 = 0
  BY SMTT(20), <1>1, <1>2
<1>6. KyberQ = 3329
  BY Constants
<1> DEFINE r == a - t * 3329
<1>7. Congruent(r, a, 3329)
  BY <1>5 DEF Congruent
<1> HIDE DEF t
<1>8. BarrettReduce(a) = r /\ r \in 0 .. 3329
  BY ONLY <1>3, <1>4
<1> HIDE DEF r
<1> QED
  BY ONLY <1>6, <1>7, <1>8

\* csubq makes canonical what barrett_reduce leaves.
THEOREM CsubqCorrect ==
  ASSUME NEW a \in 0 .. KyberQ
  PROVE  Csubq(a) \in 0 .. KyberQ - 1 /\ Congruent(Csubq(a), a, KyberQ)
BY SMTT(20) DEF Csubq, KyberQ, Congruent

\* montgomery_reduce divides by 2^16 modulo q, and its result is in the range
\* of its comment at reduce.cu:19, although it looks at the lower half of a
\* only.
THEOREM MontgomeryCorrect ==
  ASSUME NEW a \in Int, -(KyberQ * 32768) <= a, a < KyberQ * 32768
  PROVE  /\ MontgomeryReduce(a) \in -(KyberQ - 1) .. KyberQ - 1
         /\ Congruent(65536 * MontgomeryReduce(a), a, KyberQ)
<1>1. -109084672 <= a /\ a <= 109084671
  BY SMTT(20), Constants
<1>2. PICK k \in Int : Int16(a) = a + 65536 * k
  BY SMTT(20), <1>1, Int16Range
<1>3. PICK u \in Int16s : u = Int16(Int16(a) * QInv)
  BY SMTT(20), <1>1, <1>2, Constants, Int16Range
<1>4. PICK l \in Int : u = (a + 65536 * k) * (-3327) + 65536 * l
  BY SMTT(20), <1>1, <1>2, <1>3, Constants, Int16Range
<1>5. PICK r \in Int : r = 169 * a + 11075583 * k - 3329 * l
  BY SMTT(20), <1>1
<1>6. a - u * 3329 = 65536 * r
  BY SMTT(20), <1>1, <1>4, <1>5
<1>7. MontgomeryReduce(a) = r
  BY SMTT(20), <1>3, <1>5, <1>6, Constants DEF MontgomeryReduce
<1>8. u \in Int /\ -32768 <= u /\ u <= 32767
  BY SMTT(20), <1>3 DEF Int16s
<1>9. r \in -3328 .. 3328
  BY SMTT(20), <1>1, <1>5, <1>6, <1>8
<1>10. (65536 * r - a) % 3329 = 0
  BY SMTT(20), <1>1, <1>5, <1>6, <1>8
<1> QED
  BY SMTT(20), <1>7, <1>9, <1>10, Constants DEF Congruent
\* The product of an int16_t and a number below q in size is in the range of
\* montgomery_reduce, so that fqmul needs no reduced first factor: gen_matrix
\* gives it numbers up to four times q.
THEOREM FqMulCorrect ==
  ASSUME NEW a \in Int16s, NEW b \in -(KyberQ - 1) .. KyberQ - 1
  PROVE  /\ FqMul(a, b) \in -(KyberQ - 1) .. KyberQ - 1
         /\ Congruent(65536 * FqMul(a, b), a * b, KyberQ)
<1>1. b \in Int /\ -3328 <= b /\ b <= 3328
  BY SMTT(20), Constants
<1>2. a \in Int /\ -32768 <= a /\ a <= 32767
  BY SMTT(20) DEF Int16s
<1>3. PICK p \in Int : p = a * b
  BY SMTT(20), <1>1, <1>2
<1>4. -(3329 * 32768) <= p /\ p < 3329 * 32768
  BY SMTT(60), <1>1, <1>2, <1>3
<1>5. -(KyberQ * 32768) <= p /\ p < KyberQ * 32768
  BY SMTT(20), <1>4, Constants
<1>6. FqMul(a, b) = MontgomeryReduce(p)
  BY SMTT(20), <1>3 DEF FqMul
<1>7. /\ MontgomeryReduce(p) \in -(KyberQ - 1) .. KyberQ - 1
      /\ Congruent(65536 * MontgomeryReduce(p), p, KyberQ)
  BY SMTT(20), <1>5, MontgomeryCorrect
<1> QED
  BY SMTT(20), <1>3, <1>6, <1>7

\* What rej_uniform stores of a sample: a congruent number below 14834.
Replaced(val) == Uniform(val) \in 0 .. 14833 /\ Congruent(Uniform(val), val, KyberQ)

LEMMA SampleReplaced ==
  ASSUME NEW val \in Int, 0 <= val, val <= 63250
  PROVE  Replaced(val)
<1>0. KyberQ = 3329
  BY Constants
<1>1. PICK k \in Int : k = val \div 4096
  BY SMTT(20)
<1>2. 4096 * k <= val /\ val < 4096 * k + 4096
  BY SMTT(20), <1>1
<1> DEFINE r == val - k * 3329
<1>3. Uniform(val) = r
  BY SMTT(20), <1>0, <1>1 DEF Uniform
<1>4. r \in 0 .. 14833
  BY SMTT(20), <1>2
<1>5. Congruent(r, val, 3329)
  BY SMTT(20), <1>2 DEF Congruent
<1> HIDE DEF r
<1> QED
  BY ONLY <1>0, <1>3, <1>4, <1>5 DEF Replaced

\* The samples that rej_uniform accepts.
LEMMA SampleRange == \A val \in 0 .. SampleBound - 1 : val \in Int /\ 0 <= val /\ val <= 63250
<1>1. SampleBound - 1 = 63250
  BY SMTT(20), Constants
<1> QED
  BY ONLY <1>1

\* rej_uniform stores a number congruent to the sample, and small enough for
\* int16_t, for every sample it accepts.
THEOREM UniformCorrect ==
  ASSUME NEW val \in 0 .. SampleBound - 1
  PROVE  Replaced(val)
BY ONLY SampleReplaced, SampleRange, val \in 0 .. SampleBound - 1, SMTT(20)

\* The sums of polyvec_pointwise_acc_n do not overflow: the partial sum of n
\* products, for as many as nine, stays within n (q - 1), and the next product
\* is added exactly.
THEOREM AccumulationExact ==
  ASSUME NEW n \in 0 .. 8, NEW x \in Int, NEW y \in Int,
         -(n * 3328) <= x, x <= n * 3328, -3328 <= y, y <= 3328
  PROVE  /\ Int16(x + y) = x + y
         /\ -((n + 1) * 3328) <= x + y /\ x + y <= (n + 1) * 3328
<1>1. x + y \in Int16s
  BY SMTT(20) DEF Int16s
<1>2. Int16(x + y) = x + y
  BY SMTT(20), <1>1, Int16Range
<1> QED
  BY SMTT(20), <1>2

\* A butterfly of invntt_p keeps a layer in -q .. q: the sum is reduced, and
\* the difference, which need not be, is a factor of fqmul.
THEOREM ButterflyInRange ==
  ASSUME NEW x \in -KyberQ .. KyberQ, NEW y \in -KyberQ .. KyberQ,
         NEW zeta \in -(KyberQ - 1) .. KyberQ - 1
  PROVE  /\ Int16(x + y) = x + y /\ Int16(x - y) = x - y
         /\ BarrettReduce(x + y) \in -KyberQ .. KyberQ
         /\ FqMul(x - y, zeta) \in -KyberQ .. KyberQ
<1>0. KyberQ = 3329
  BY Constants
<1>x. /\ x \in Int /\ -3329 <= x /\ x <= 3329
      /\ y \in Int /\ -3329 <= y /\ y <= 3329
  BY ONLY <1>0, x \in -KyberQ .. KyberQ, y \in -KyberQ .. KyberQ
<1>1. x + y \in Int16s /\ x - y \in Int16s
  BY ONLY SMTT(20), <1>x DEF Int16s
<1>2. Int16(x + y) = x + y /\ Int16(x - y) = x - y
  BY SMTT(20), <1>1, Int16Range DEF Int16s
<1>3. BarrettReduce(x + y) \in 0 .. KyberQ
  BY SMTT(20), <1>1, BarrettCorrect
<1>4. FqMul(x - y, zeta) \in -(KyberQ - 1) .. KyberQ - 1
  BY SMTT(20), <1>1, FqMulCorrect
<1>5. ASSUME NEW b \in Int, b \in 0 .. KyberQ \/ b \in -(KyberQ - 1) .. KyberQ - 1
      PROVE  b \in -KyberQ .. KyberQ
  BY ONLY <1>0, <1>5
<1>6. (0 .. KyberQ) \subseteq Int /\ (-(KyberQ - 1) .. KyberQ - 1) \subseteq Int
  BY ONLY <1>0
<1> DEFINE u == BarrettReduce(x + y)
           v == FqMul(x - y, zeta)
<1>7. u \in 0 .. KyberQ /\ v \in -(KyberQ - 1) .. KyberQ - 1
  BY <1>3, <1>4
<1> HIDE DEF u, v
<1>8. u \in -KyberQ .. KyberQ /\ v \in -KyberQ .. KyberQ
  BY ONLY <1>5, <1>6, <1>7
<1> QED
  BY <1>2, <1>8 DEF u, v

\* barrett_reduce and csubq make a canonical number by adding a multiple of q.
LEMMA Canonical ==
  ASSUME NEW x \in Int16s
  PROVE  \E k \in Int : /\ Csubq(BarrettReduce(x)) = x + KyberQ * k
                        /\ Csubq(BarrettReduce(x)) \in 0 .. KyberQ - 1
<1>1. x \in Int /\ -32768 <= x /\ x <= 32767
  BY SMTT(20) DEF Int16s
<1>2. PICK t \in Int : t = (20159 * x) \div 67108864
  BY SMTT(20), <1>1
<1>3. 67108864 * t <= 20159 * x /\ 20159 * x < 67108864 * t + 67108864
  BY SMTT(20), <1>1, <1>2
<1>4. PICK b \in Int : b = x - 3329 * t
  BY SMTT(20), <1>1
<1>5. BarrettReduce(x) = b
  BY SMTT(20), <1>1, <1>2, <1>4, Constants DEF BarrettReduce
<1>6. 0 <= b /\ b <= 3329
  BY SMTT(20), <1>1, <1>3, <1>4
<1>7. CASE b = 3329
  <2>1. PICK k \in Int : k = -t - 1
    BY SMTT(20)
  <2>2. Csubq(b) = x + KyberQ * k /\ Csubq(b) \in 0 .. KyberQ - 1
    BY SMTT(20), <1>1, <1>4, <1>7, <2>1 DEF Csubq, KyberQ
  <2> QED
    BY <1>5, <2>2, Zenon
<1>8. CASE b < 3329
  <2>1. PICK k \in Int : k = -t
    BY SMTT(20)
  <2>2. Csubq(b) = x + KyberQ * k /\ Csubq(b) \in 0 .. KyberQ - 1
    BY SMTT(20), <1>1, <1>4, <1>6, <1>8, <2>1 DEF Csubq, KyberQ
  <2> QED
    BY <1>5, <2>2, Zenon
<1> QED
  BY SMTT(20), <1>6, <1>7, <1>8

\* A message bit survives any error up to a quarter of q: poly_tomsg_n gives
\* back what poly_frommsg_n encoded, after the reduction of the sum.
THEOREM MessageSurvives ==
  ASSUME NEW bit \in {0, 1}, NEW e \in Int, -832 <= e, e <= 831
  PROVE  ToMsg(Csubq(BarrettReduce(FromMsg(bit) + e))) = bit
<1>1. PICK x \in Int : x = 1665 * bit + e
  BY SMTT(20)
<1>2. FromMsg(bit) + e = x
  BY SMTT(20), <1>1 DEF FromMsg, KyberQ
<1>3. x \in Int16s
  BY SMTT(20), <1>1 DEF Int16s
<1>4. PICK k \in Int : /\ Csubq(BarrettReduce(x)) = x + KyberQ * k
                      /\ Csubq(BarrettReduce(x)) \in 0 .. KyberQ - 1
  BY <1>3, Canonical, Zenon
<1>5. PICK y \in Int : y = x + 3329 * k
  BY SMTT(20)
<1>6. 0 <= y /\ y <= 3328 /\ Csubq(BarrettReduce(x)) = y
  BY SMTT(20), <1>4, <1>5 DEF KyberQ
<1>7. ToMsg(y) = ((2 * y + 1664) \div 3329) % 2
  BY SMTT(20), <1>5 DEF ToMsg, KyberQ
<1>8. CASE bit = 0
  <2>1. k = 0 \/ k = 1
    BY SMTT(20), <1>1, <1>5, <1>6, <1>8
  <2>2. y <= 832 \/ y >= 2497
    BY SMTT(20), <1>1, <1>5, <1>6, <1>8, <2>1
  <2> QED
    BY SMTT(20), <1>2, <1>6, <1>7, <1>8, <2>2
<1>9. CASE bit = 1
  <2>1. k = 0
    BY SMTT(20), <1>1, <1>5, <1>6, <1>9
  <2>2. 833 <= y /\ y <= 2496
    BY SMTT(20), <1>1, <1>5, <1>9, <2>1
  <2> QED
    BY SMTT(20), <1>2, <1>6, <1>7, <1>9, <2>2
<1> QED
  BY <1>8, <1>9, Zenon

\* What v loses in five bits: poly_compress and poly_decompress move a
\* coefficient by at most 52, modulo q.
THEOREM VectorError ==
  ASSUME NEW x \in Int, 0 <= x, x <= KyberQ - 1
  PROVE  \E e \in Int : /\ -52 <= e /\ e <= 52
                        /\ \E k \in {0, 1} : Decompress(Compress(x, 5), 5) = x + e - k * KyberQ
<1>1. 2^5 = 32 /\ 2^(5 - 1) = 16
  BY SMTT(20)
<1>2. x <= 3328
  BY SMTT(20) DEF KyberQ
<1>3. PICK c \in Int : c = (x * 32 + 1664) \div 3329
  BY SMTT(20)
<1>4. 3329 * c <= x * 32 + 1664 /\ x * 32 + 1664 < 3329 * c + 3329
  BY SMTT(20), <1>3
<1>5. 0 <= c /\ c <= 32
  BY SMTT(20), <1>2, <1>4
<1>6. Compress(x, 5) = c % 32
  BY SMTT(20), <1>1, <1>3 DEF Compress, KyberQ
<1>7. CASE c = 32
  <2>1. Decompress(Compress(x, 5), 5) = 0
    BY SMTT(20), <1>1, <1>6, <1>7 DEF Decompress, KyberQ
  <2>2. -52 <= 3329 - x /\ 3329 - x <= 52
    BY SMTT(20), <1>2, <1>4, <1>7
  <2>3. x + (3329 - x) - 1 * KyberQ = 0
    BY SMTT(20) DEF KyberQ
  <2> QED
    BY SMTT(20), <2>1, <2>2, <2>3
<1>8. CASE c < 32
  <2>1. PICK y \in Int : y = (c * 3329 + 16) \div 32
    BY SMTT(20), <1>5
  <2>2. 32 * y <= c * 3329 + 16 /\ c * 3329 + 16 < 32 * y + 32
    BY SMTT(20), <1>5, <2>1
  <2>3. Decompress(Compress(x, 5), 5) = y
    <3>1. Compress(x, 5) = c
      BY SMTT(20), <1>5, <1>6, <1>8
    <3>2. Decompress(c, 5) = y
      BY SMTT(20), <1>1, <2>1 DEF Decompress, KyberQ
    <3> QED
      BY <3>1, <3>2, Zenon
  <2>4. -52 <= y - x /\ y - x <= 52
    BY SMTT(20), <1>4, <2>2
  <2>5. x + (y - x) - 0 * KyberQ = y
    BY SMTT(20) DEF KyberQ
  <2> QED
    BY SMTT(20), <2>3, <2>4, <2>5
<1> QED
  BY SMTT(20), <1>5, <1>7, <1>8

(***************************************************************************)
(* Sums over the components of a vector.                                   *)
(***************************************************************************)
\* T holds the sums of the first components of f.
IsSum(f, T) ==
  /\ T \in [0 .. KyberK -> Int] /\ T[0] = 0
  /\ \A n \in Ks : T[n + 1] = T[n] + f[n]

\* The sums of a vector, by their defining equations.
Partial(f) == CHOOSE T : IsSum(f, T)

LEMMA KFacts == KyberK \in Nat /\ 1 <= KyberK /\ KyberK <= 9 /\ 0 \in Ks /\ KyberK - 1 \in Ks
BY SizesAssumption DEF Ks

LEMMA PartialLemma ==
  ASSUME NEW f \in [Ks -> Int]
  PROVE  IsSum(f, Partial(f))
<1> DEFINE step == [xi \in Int \X (1 .. KyberK) |-> xi[1] + f[xi[2] - 1]]
<1>1. step \in [Int \X (1 .. KyberK) -> Int]
  <2>1. \A xi \in Int \X (1 .. KyberK) : xi[1] + f[xi[2] - 1] \in Int
    <3> TAKE xi \in Int \X (1 .. KyberK)
    <3>1. xi[1] \in Int /\ xi[2] - 1 \in Ks
      BY KFacts DEF Ks
    <3> QED BY <3>1
  <2> QED BY <2>1
<1>2. PICK T \in [0 .. KyberK -> Int] : Recursion(T, 0, step, KyberK)
  <2>1. KyberK \in Nat /\ 0 \in Int
    BY KFacts
  <2> HIDE DEF step
  <2> QED BY ONLY <1>1, <2>1, RecursiveFunction
<1>3. \A n \in Ks : T[n + 1] = T[n] + f[n]
  <2> TAKE n \in Ks
  <2>1. n + 1 \in 1 .. KyberK /\ n \in 0 .. KyberK /\ (n + 1) - 1 = n
    BY KFacts DEF Ks
  <2>2. T[n + 1] = step[<<T[(n + 1) - 1], n + 1>>]
    BY <1>2, <2>1 DEF Recursion
  <2>3. <<T[n], n + 1>> \in Int \X (1 .. KyberK)
    BY <2>1
  <2> QED BY <2>1, <2>2, <2>3
<1>4. IsSum(f, T)
  BY <1>2, <1>3 DEF IsSum, Recursion
<1> QED BY <1>4 DEF Partial

\* The reference adds up a vector in the same way.
LEMMA SumLemma ==
  ASSUME NEW f \in [Ks -> Int]
  PROVE  Reference!Sum(f) = Partial(f)[KyberK] /\ Reference!Sum(f) \in Int
<1> DEFINE Is(g) == g = [n \in 0 .. KyberK |-> IF n = 0 THEN 0 ELSE g[n - 1] + f[n - 1]]
           s == CHOOSE g : Is(g)
           T == Partial(f)
<1>1. IsSum(f, T)
  BY PartialLemma
<1>2. KyberK \in Nat
  BY KFacts
<1> HIDE DEF T
<1>3. \A n \in 0 .. KyberK : n # 0 => n - 1 \in Ks /\ (n - 1) + 1 = n
  BY <1>2 DEF Ks
<1>4. Is(T)
  <2>1. \A n \in 0 .. KyberK : T[n] = IF n = 0 THEN 0 ELSE T[n - 1] + f[n - 1]
    <3> TAKE n \in 0 .. KyberK
    <3>1. CASE n = 0
      BY <1>1, <3>1 DEF IsSum
    <3>2. CASE n # 0
      <4>1. n - 1 \in Ks /\ (n - 1) + 1 = n
        BY <1>3, <3>2
      <4>2. T[(n - 1) + 1] = T[n - 1] + f[n - 1]
        BY ONLY <1>1, <4>1 DEF IsSum
      <4> QED BY ONLY <3>2, <4>1, <4>2
    <3> QED BY <3>1, <3>2
  <2> QED BY <1>1, <2>1 DEF IsSum
<1>5. Is(s)
  <2> HIDE DEF Is
  <2> QED BY <1>4
<1>6. \A n \in 0 .. KyberK : s[n] = T[n]
  <2> DEFINE Good == {n \in Nat : n <= KyberK => s[n] = T[n]}
  <2>0. \A n \in 0 .. KyberK : s[n] = IF n = 0 THEN 0 ELSE s[n - 1] + f[n - 1]
    <3> HIDE DEF s
    <3> QED BY <1>5
  <2> HIDE DEF s
  <2>1. 0 \in Good
    BY <1>1, <1>2, <2>0 DEF IsSum
  <2>2. ASSUME NEW n \in Nat, n \in Good
        PROVE  n + 1 \in Good
    <3> SUFFICES ASSUME n + 1 <= KyberK PROVE s[n + 1] = T[n + 1]
      OBVIOUS
    <3>1. n \in Ks /\ n + 1 \in 0 .. KyberK /\ n + 1 # 0 /\ (n + 1) - 1 = n /\ n <= KyberK
      BY <1>2 DEF Ks
    <3>2. s[n] = T[n]
      BY <2>2, <3>1
    <3>3. T[n + 1] = T[n] + f[n]
      BY ONLY <1>1, <3>1 DEF IsSum
    <3>4. s[n + 1] = s[(n + 1) - 1] + f[(n + 1) - 1]
      BY ONLY <2>0, <3>1
    <3> QED BY ONLY <3>1, <3>2, <3>3, <3>4
  <2> HIDE DEF Good
  <2>3. \A n \in Nat : n \in Good
    BY ONLY <2>1, <2>2, SetInduction
  <2> QED BY <1>2, <2>3 DEF Good
<1>7. Reference!Sum(f) = s[KyberK]
  BY DEF Reference!Sum
<1>8. T[KyberK] \in Int /\ s[KyberK] = T[KyberK]
  <2> HIDE DEF s
  <2> QED BY <1>1, <1>2, <1>6 DEF IsSum
<1> QED BY <1>7, <1>8 DEF T

\* A statement about the first components of a vector, by induction on their number.
LEMMA KInduction ==
  ASSUME NEW Good, 0 \in Good, \A n \in Ks : n \in Good => n + 1 \in Good
  PROVE  KyberK \in Good /\ \A n \in 0 .. KyberK : n \in Good
<1>1. 0 \in Int /\ KyberK \in Int /\ KyberK \in 0 .. KyberK
  BY KFacts
<1>2. \A i \in 0 .. KyberK - 1 : i \in Good => i + 1 \in Good
  BY DEF Ks
<1>3. \A n \in 0 .. KyberK : n \in Good
  BY ONLY <1>1, <1>2, 0 \in Good, IntervalInduction
<1> QED BY ONLY <1>1, <1>3

Total(f) == Partial(f)[KyberK]

LEMMA TotalInt ==
  ASSUME NEW f \in [Ks -> Int]
  PROVE  Total(f) \in Int /\ Reference!Sum(f) = Total(f)
BY SumLemma DEF Total

\* The sum of two vectors.
LEMMA TotalAdd ==
  ASSUME NEW f \in [Ks -> Int], NEW g \in [Ks -> Int], NEW h \in [Ks -> Int],
         \A i \in Ks : h[i] = f[i] + g[i]
  PROVE  Total(h) = Total(f) + Total(g)
<1> DEFINE Good == {n \in 0 .. KyberK : Partial(h)[n] = Partial(f)[n] + Partial(g)[n]}
<1>1. IsSum(f, Partial(f)) /\ IsSum(g, Partial(g)) /\ IsSum(h, Partial(h))
  BY PartialLemma
<1>2. 0 \in Good
  BY <1>1, KFacts DEF IsSum
<1>3. ASSUME NEW n \in Ks, n \in Good
      PROVE  n + 1 \in Good
  <2>1. n + 1 \in 0 .. KyberK /\ n \in 0 .. KyberK
    BY KFacts DEF Ks
  <2>2. /\ Partial(h)[n + 1] = Partial(h)[n] + h[n] /\ Partial(f)[n + 1] = Partial(f)[n] + f[n]
        /\ Partial(g)[n + 1] = Partial(g)[n] + g[n] /\ Partial(f)[n] \in Int /\ Partial(g)[n] \in Int
        /\ f[n] \in Int /\ g[n] \in Int
    BY <1>1, <2>1 DEF IsSum
  <2>3. Partial(h)[n] = Partial(f)[n] + Partial(g)[n]
    BY <1>3
  <2>4. h[n] = f[n] + g[n]
    OBVIOUS
  <2>5. Partial(h)[n + 1] = Partial(f)[n + 1] + Partial(g)[n + 1]
    BY ONLY <2>2, <2>3, <2>4
  <2> QED BY <2>1, <2>5
<1> HIDE DEF Good
<1>4. KyberK \in Good
  BY ONLY <1>2, <1>3, KInduction
<1> QED BY <1>4 DEF Total, Good

\* A multiple of a vector.
LEMMA TotalScale ==
  ASSUME NEW c \in Int, NEW f \in [Ks -> Int], NEW h \in [Ks -> Int],
         \A i \in Ks : h[i] = c * f[i]
  PROVE  Total(h) = c * Total(f)
<1> DEFINE Good == {n \in 0 .. KyberK : Partial(h)[n] = c * Partial(f)[n]}
<1>1. IsSum(f, Partial(f)) /\ IsSum(h, Partial(h))
  BY PartialLemma
<1>2. 0 \in Good
  BY <1>1, KFacts DEF IsSum
<1>3. ASSUME NEW n \in Ks, n \in Good
      PROVE  n + 1 \in Good
  <2>1. n + 1 \in 0 .. KyberK /\ n \in 0 .. KyberK
    BY KFacts DEF Ks
  <2>2. /\ Partial(h)[n + 1] = Partial(h)[n] + h[n] /\ Partial(f)[n + 1] = Partial(f)[n] + f[n]
        /\ Partial(f)[n] \in Int /\ f[n] \in Int
    BY <1>1, <2>1 DEF IsSum
  <2>3. Partial(h)[n] = c * Partial(f)[n]
    BY <1>3
  <2>4. h[n] = c * f[n] /\ c \in Int
    OBVIOUS
  <2> DEFINE x == Partial(f)[n]
             y == f[n]
  <2>5. c * (x + y) = c * x + c * y
    <3>1. x \in Int /\ y \in Int
      BY <2>2
    <3> HIDE DEF x, y
    <3> QED BY ONLY <2>4, <3>1
  <2>6. Partial(h)[n + 1] = c * Partial(f)[n + 1]
    BY ONLY <2>2, <2>3, <2>4, <2>5
  <2> QED BY <2>1, <2>6
<1> HIDE DEF Good
<1>4. KyberK \in Good
  BY ONLY <1>2, <1>3, KInduction
<1> QED BY <1>4 DEF Total, Good

\* Vectors that are equal in their components have one sum.
LEMMA TotalSame ==
  ASSUME NEW f \in [Ks -> Int], NEW h \in [Ks -> Int], \A i \in Ks : h[i] = f[i]
  PROVE  Total(h) = Total(f)
<1>1. h = f
  OBVIOUS
<1> QED BY <1>1

\* Small components have a small sum.
LEMMA PartialBound ==
  ASSUME NEW b \in Nat, NEW f \in [Ks -> Int], \A i \in Ks : -b <= f[i] /\ f[i] <= b
  PROVE  \A n \in 0 .. KyberK :
           Partial(f)[n] \in Int /\ -(n * b) <= Partial(f)[n] /\ Partial(f)[n] <= n * b
<1> DEFINE at(n) == n * b
           Good == {n \in 0 .. KyberK : -at(n) <= Partial(f)[n] /\ Partial(f)[n] <= at(n)}
<1>0. at(0) = 0 /\ \A n \in Nat : at(n) \in Nat /\ at(n + 1) = at(n) + b
  OBVIOUS
<1> HIDE DEF at
<1>1. IsSum(f, Partial(f))
  BY PartialLemma
<1>2. 0 \in Good
  BY <1>0, <1>1, KFacts DEF IsSum
<1>3. ASSUME NEW n \in Ks, n \in Good
      PROVE  n + 1 \in Good
  <2>1. n + 1 \in 0 .. KyberK /\ n \in 0 .. KyberK /\ n \in Nat
    BY KFacts DEF Ks
  <2>2. /\ Partial(f)[n + 1] = Partial(f)[n] + f[n]
        /\ Partial(f)[n] \in Int /\ f[n] \in Int
    BY <1>1, <2>1 DEF IsSum
  <2>3. -at(n) <= Partial(f)[n] /\ Partial(f)[n] <= at(n)
    BY <1>3
  <2>4. -b <= f[n] /\ f[n] <= b /\ b \in Nat
    OBVIOUS
  <2>5. at(n) \in Nat /\ at(n + 1) = at(n) + b
    BY <1>0, <2>1
  <2>6. -at(n + 1) <= Partial(f)[n + 1] /\ Partial(f)[n + 1] <= at(n + 1)
    BY ONLY <2>2, <2>3, <2>4, <2>5
  <2> QED BY <2>1, <2>6
<1> HIDE DEF Good
<1>4. \A n \in 0 .. KyberK : n \in Good
  BY ONLY <1>2, <1>3, KInduction
<1>5. \A n \in 0 .. KyberK : Partial(f)[n] \in Int
  BY <1>1 DEF IsSum
<1> QED BY <1>4, <1>5 DEF Good, at

LEMMA TotalBound ==
  ASSUME NEW b \in Nat, NEW f \in [Ks -> Int], \A i \in Ks : -b <= f[i] /\ f[i] <= b
  PROVE  -(KyberK * b) <= Total(f) /\ Total(f) <= KyberK * b
<1>1. KyberK \in 0 .. KyberK
  BY KFacts
<1> QED BY <1>1, PartialBound DEF Total

\* A matrix, its transpose, and the sums of the rows of both.
Sums(a, b, rows, cols) ==
  /\ a \in [Ks -> [Ks -> Int]] /\ b \in [Ks -> [Ks -> Int]]
  /\ rows \in [Ks -> Int] /\ cols \in [Ks -> Int]
  /\ \A i \in Ks : rows[i] = Total(a[i])
  /\ \A j \in Ks : cols[j] = Total(b[j])
  /\ \A i, j \in Ks : b[j][i] = a[i][j]

\* The sum of a matrix, row by row or column by column.
LEMMA TotalSwap ==
  ASSUME NEW a, NEW b, NEW rows, NEW cols, Sums(a, b, rows, cols)
  PROVE  Total(rows) = Total(cols)
<1>0. /\ a \in [Ks -> [Ks -> Int]] /\ b \in [Ks -> [Ks -> Int]]
      /\ rows \in [Ks -> Int] /\ cols \in [Ks -> Int]
      /\ \A i \in Ks : rows[i] = Total(a[i])
      /\ \A j \in Ks : cols[j] = Total(b[j])
      /\ \A i, j \in Ks : b[j][i] = a[i][j]
  BY DEF Sums
<1> DEFINE column(j) == b[j]
           above(n) == [j \in Ks |-> Partial(column(j))[n]]
           Good == {n \in 0 .. KyberK : Partial(rows)[n] = Total(above(n))}
<1>1. \A j \in Ks : column(j) \in [Ks -> Int]
  BY <1>0
<1>2. \A j \in Ks : IsSum(column(j), Partial(column(j)))
  <2> HIDE DEF column
  <2> QED BY <1>1, PartialLemma
<1>3. \A n \in 0 .. KyberK : above(n) \in [Ks -> Int]
  <2> HIDE DEF column
  <2> QED BY <1>2 DEF IsSum
<1>4. IsSum(rows, Partial(rows))
  BY <1>0, PartialLemma
<1>5. 0 \in Good
  <2>1. 0 \in 0 .. KyberK /\ 0 \in Int
    BY KFacts
  <2>2. above(0) \in [Ks -> Int]
    BY <1>3, <2>1
  <2>3. \A j \in Ks : above(0)[j] = 0 * above(0)[j]
    <3> TAKE j \in Ks
    <3>1. above(0)[j] = 0
      BY <1>2 DEF IsSum
    <3> HIDE DEF above
    <3> QED BY ONLY <3>1
  <2> HIDE DEF above
  <2>4. Total(above(0)) = 0 * Total(above(0)) /\ Total(above(0)) \in Int
    BY ONLY <2>1, <2>2, <2>3, TotalScale, TotalInt
  <2>5. Total(above(0)) = 0
    BY ONLY <2>4
  <2> QED BY <1>4, <2>1, <2>5 DEF IsSum
<1>6. ASSUME NEW n \in Ks, n \in Good
      PROVE  n + 1 \in Good
  <2>1. n + 1 \in 0 .. KyberK /\ n \in 0 .. KyberK
    BY KFacts DEF Ks
  <2>2. above(n) \in [Ks -> Int] /\ above(n + 1) \in [Ks -> Int] /\ a[n] \in [Ks -> Int]
    BY <1>0, <1>3, <2>1
  <2>3. \A j \in Ks : above(n + 1)[j] = above(n)[j] + a[n][j]
    <3> TAKE j \in Ks
    <3>1. column(j)[n] = a[n][j]
      BY <1>0
    <3> HIDE DEF column
    <3>2. Partial(column(j))[n + 1] = Partial(column(j))[n] + column(j)[n]
      BY <1>2 DEF IsSum
    <3> QED BY <3>1, <3>2
  <2> HIDE DEF above
  <2>4. Total(above(n + 1)) = Total(above(n)) + Total(a[n])
    BY ONLY <2>2, <2>3, TotalAdd
  <2>5. Partial(rows)[n + 1] = Partial(rows)[n] + rows[n] /\ rows[n] = Total(a[n])
    BY <1>0, <1>4 DEF IsSum
  <2>6. Partial(rows)[n] = Total(above(n))
    BY <1>6
  <2> QED BY <2>1, <2>4, <2>5, <2>6
<1>7. above(KyberK) = cols
  <2>1. \A j \in Ks : cols[j] = Partial(column(j))[KyberK]
    BY <1>0 DEF Total
  <2> HIDE DEF column
  <2> QED BY <1>0, <2>1
<1> HIDE DEF Good
<1>8. KyberK \in Good
  BY ONLY <1>5, <1>6, KInduction
<1> HIDE DEF above
<1> QED BY <1>7, <1>8 DEF Total, Good

(***************************************************************************)
(* Numbers modulo q.                                                       *)
(***************************************************************************)
Cong(x, y) == \E k \in Int : x = y + 3329 * k

\* The ranges of a reduced number, a canonical one, what fqmul gives, and what
\* its second factor may be.
Reduced(x) == x \in Int /\ 0 <= x /\ x <= 3329
Canon(x) == x \in Int /\ 0 <= x /\ x <= 3328
Small(x) == x \in Int /\ -3328 <= x /\ x <= 3328
Second(x) == x \in Int /\ -3328 <= x /\ x <= 3329

LEMMA CongRefl == ASSUME NEW x \in Int PROVE Cong(x, x)
<1>1. x = x + 3329 * 0
  OBVIOUS
<1> QED BY <1>1 DEF Cong

LEMMA CongSym ==
  ASSUME NEW x \in Int, NEW y \in Int, Cong(x, y)
  PROVE  Cong(y, x)
<1>1. PICK k \in Int : x = y + 3329 * k
  BY DEF Cong
<1>2. y = x + 3329 * (-k) /\ -k \in Int
  BY <1>1
<1> QED BY <1>2 DEF Cong

LEMMA CongTrans ==
  ASSUME NEW x \in Int, NEW y \in Int, NEW z \in Int, Cong(x, y), Cong(y, z)
  PROVE  Cong(x, z)
<1>1. PICK k \in Int : x = y + 3329 * k
  BY DEF Cong
<1>2. PICK l \in Int : y = z + 3329 * l
  BY DEF Cong
<1>3. PICK m \in Int : m = k + l
  OBVIOUS
<1>4. x = z + 3329 * m
  BY <1>1, <1>2, <1>3
<1> QED BY ONLY <1>4, m \in Int DEF Cong

LEMMA CongAdd ==
  ASSUME NEW x \in Int, NEW y \in Int, NEW u \in Int, NEW v \in Int, Cong(x, y), Cong(u, v)
  PROVE  Cong(x + u, y + v) /\ Cong(x - u, y - v)
<1>1. PICK k \in Int : x = y + 3329 * k
  BY DEF Cong
<1>2. PICK l \in Int : u = v + 3329 * l
  BY DEF Cong
<1>3. PICK m \in Int : m = k + l
  OBVIOUS
<1>4. PICK n \in Int : n = k - l
  OBVIOUS
<1>5. x + u = (y + v) + 3329 * m /\ x - u = (y - v) + 3329 * n
  BY <1>1, <1>2, <1>3, <1>4
<1>6. Cong(x + u, y + v)
  BY ONLY <1>5, m \in Int DEF Cong
<1>7. Cong(x - u, y - v)
  BY ONLY <1>5, n \in Int DEF Cong
<1> QED BY <1>6, <1>7

LEMMA CongMul ==
  ASSUME NEW x \in Int, NEW y \in Int, NEW c \in Int, Cong(x, y)
  PROVE  Cong(c * x, c * y) /\ Cong(x * c, y * c)
<1>1. PICK k \in Int : x = y + 3329 * k
  BY DEF Cong
<1>2. c * x = c * y + 3329 * (c * k) /\ c * k \in Int /\ x * c = c * x /\ y * c = c * y
  BY <1>1
<1> QED BY <1>2 DEF Cong

\* The Montgomery factor has an inverse.
LEMMA CongCancel ==
  ASSUME NEW x \in Int, NEW y \in Int, Cong(65536 * x, 65536 * y)
  PROVE  Cong(x, y)
<1>1. PICK k \in Int : 65536 * x = 65536 * y + 3329 * k
  BY DEF Cong
<1> DEFINE m == 169 * k - 3327 * (x - y)
<1>2. m \in Int /\ x = y + 3329 * m
  BY <1>1
<1> HIDE DEF m
<1> QED BY <1>2 DEF Cong

LEMMA CongMod ==
  ASSUME NEW x \in Int
  PROVE  x % 3329 \in 0 .. 3328 /\ Cong(x % 3329, x) /\ Cong(x, x % 3329)
<1>1. PICK d \in Int : x = (x % 3329) + 3329 * d
  OBVIOUS
<1>2. x % 3329 \in 0 .. 3328
  OBVIOUS
<1>3. (x % 3329) = x + 3329 * (-d) /\ -d \in Int
  BY <1>1, <1>2
<1> QED BY <1>1, <1>2, <1>3 DEF Cong

\* A canonical number is the remainder of all that are congruent to it.
LEMMA CongCanonical ==
  ASSUME NEW x, Canon(x), NEW y \in Int, Cong(x, y)
  PROVE  x = y % 3329
<1>1. PICK k \in Int : x = y + 3329 * k
  BY DEF Cong
<1> QED BY <1>1 DEF Canon

\* Congruent, as the lemmas above state it.
LEMMA CongIs ==
  ASSUME NEW x \in Int, NEW y \in Int, Congruent(x, y, 3329)
  PROVE  Cong(x, y)
<1>1. (x - y) % 3329 = 0
  BY DEF Congruent
<1>2. x - y \in Int
  OBVIOUS
<1>3. PICK d \in Int : x - y = ((x - y) % 3329) + 3329 * d
  BY <1>2, CongMod DEF Cong
<1>4. x = y + 3329 * d
  BY <1>1, <1>2, <1>3
<1> QED BY <1>4 DEF Cong

\* Sums of congruent vectors.
LEMMA TotalCong ==
  ASSUME NEW f \in [Ks -> Int], NEW g \in [Ks -> Int], \A i \in Ks : Cong(f[i], g[i])
  PROVE  Cong(Total(f), Total(g))
<1> DEFINE Good == {n \in 0 .. KyberK : Cong(Partial(f)[n], Partial(g)[n])}
<1>1. IsSum(f, Partial(f)) /\ IsSum(g, Partial(g))
  BY PartialLemma
<1>2. 0 \in Good
  <2>1. Partial(f)[0] = 0 /\ Partial(g)[0] = 0 /\ 0 \in 0 .. KyberK /\ 0 \in Int
    BY <1>1, KFacts DEF IsSum
  <2> QED BY <2>1, CongRefl
<1>3. ASSUME NEW n \in Ks, n \in Good
      PROVE  n + 1 \in Good
  <2>1. n + 1 \in 0 .. KyberK /\ n \in 0 .. KyberK
    BY KFacts DEF Ks
  <2>2. /\ Partial(f)[n + 1] = Partial(f)[n] + f[n] /\ Partial(g)[n + 1] = Partial(g)[n] + g[n]
        /\ Partial(f)[n] \in Int /\ Partial(g)[n] \in Int /\ f[n] \in Int /\ g[n] \in Int
    BY <1>1, <2>1 DEF IsSum
  <2>3. Cong(Partial(f)[n], Partial(g)[n]) /\ Cong(f[n], g[n])
    BY <1>3
  <2>4. Cong(Partial(f)[n] + f[n], Partial(g)[n] + g[n])
    BY ONLY <2>2, <2>3, CongAdd
  <2> QED BY <2>1, <2>2, <2>4
<1> HIDE DEF Good
<1>4. KyberK \in Good
  BY ONLY <1>2, <1>3, KInduction
<1> QED BY <1>4 DEF Total, Good

(***************************************************************************)
(* The kernels, modulo q.                                                  *)
(***************************************************************************)
LEMMA SixteenBits == \A a : a \in Int16s <=> a \in Int /\ -32768 <= a /\ a <= 32767
BY DEF Int16s

\* poly_ntt, and every other reduction.
LEMMA BarrettCong ==
  ASSUME NEW a \in Int16s
  PROVE  Reduced(BarrettReduce(a)) /\ Cong(BarrettReduce(a), a)
<1> DEFINE r == BarrettReduce(a)
<1>1. r \in 0 .. 3329 /\ Congruent(r, a, 3329)
  BY ONLY a \in Int16s, BarrettCorrect, Constants
<1> HIDE DEF r
<1>2. a \in Int /\ r \in Int /\ Reduced(r)
  BY <1>1, SixteenBits DEF Reduced
<1>3. Cong(r, a)
  BY ONLY <1>1, <1>2, CongIs
<1> QED BY <1>2, <1>3 DEF r

\* A reduction and csubq give the remainder.
LEMMA Remainder ==
  ASSUME NEW a \in Int16s
  PROVE  Csubq(BarrettReduce(a)) = a % 3329 /\ a % 3329 \in 0 .. 3328
<1>1. a \in Int
  BY SixteenBits
<1>2. PICK k \in Int : /\ Csubq(BarrettReduce(a)) = a + KyberQ * k
                      /\ Csubq(BarrettReduce(a)) \in 0 .. KyberQ - 1
  BY ONLY a \in Int16s, Canonical
<1> DEFINE c == Csubq(BarrettReduce(a))
<1>3. c \in 0 .. 3328 /\ c = a + 3329 * k
  BY <1>2, Constants
<1> HIDE DEF c
<1>4. c = a % 3329
  BY ONLY <1>1, <1>3, k \in Int
<1> QED BY <1>3, <1>4 DEF c

LEMMA MontgomeryCong ==
  ASSUME NEW a \in Int, -(3329 * 32768) <= a, a < 3329 * 32768
  PROVE  Small(MontgomeryReduce(a)) /\ Cong(65536 * MontgomeryReduce(a), a)
<1>1. -(KyberQ * 32768) <= a /\ a < KyberQ * 32768
  BY Constants
<1>2. /\ MontgomeryReduce(a) \in -3328 .. 3328
      /\ Congruent(65536 * MontgomeryReduce(a), a, 3329)
  BY ONLY a \in Int, <1>1, MontgomeryCorrect, Constants
<1> DEFINE r == MontgomeryReduce(a)
<1> HIDE DEF r
<1>3. r \in -3328 .. 3328 /\ Congruent(65536 * r, a, 3329)
  BY <1>2 DEF r
<1>4. 65536 * r \in Int
  BY ONLY <1>3
<1>5. Cong(65536 * r, a)
  BY ONLY a \in Int, <1>3, <1>4, CongIs
<1>6. Small(r)
  BY ONLY <1>3 DEF Small
<1> QED BY <1>5, <1>6 DEF r

\* fqmul, on a second factor that may be q itself.
LEMMA FqMulCong ==
  ASSUME NEW a \in Int16s, NEW b, Second(b)
  PROVE  Small(FqMul(a, b)) /\ Cong(65536 * FqMul(a, b), a * b)
<1>1. a \in Int /\ -32768 <= a /\ a <= 32767 /\ b \in Int /\ -3328 <= b /\ b <= 3329
  BY SixteenBits DEF Second
<1>2. PICK p \in Int : p = a * b
  BY <1>1
<1>3. -(3329 * 32768) <= p /\ p < 3329 * 32768
  BY ONLY SMTT(60), <1>1, <1>2
<1>4. Small(MontgomeryReduce(p)) /\ Cong(65536 * MontgomeryReduce(p), p)
  BY ONLY p \in Int, <1>3, MontgomeryCong
<1> QED BY <1>2, <1>4 DEF FqMul

\* Vectors whose components may be a first, and a second factor of fqmul.
Firsts(v) == \A i \in Ks : v[i] \in Int16s
Seconds(w) == \A i \in Ks : Second(w[i])
Products(v, w) == [i \in Ks |-> v[i] * w[i]]

LEMMA ProductsType ==
  ASSUME NEW v, NEW w, Firsts(v), Seconds(w)
  PROVE  Products(v, w) \in [Ks -> Int]
<1>1. \A i \in Ks : v[i] * w[i] \in Int
  <2> TAKE i \in Ks
  <2>1. v[i] \in Int /\ w[i] \in Int
    BY SixteenBits DEF Firsts, Seconds, Second
  <2> QED BY <2>1
<1> QED BY <1>1 DEF Products

LEMMA TermCong ==
  ASSUME NEW v, NEW w, Firsts(v), Seconds(w), NEW i \in Ks
  PROVE  /\ Small(Term(v, w, i)) /\ Term(v, w, i) \in Int16s
         /\ Cong(65536 * Term(v, w, i), v[i] * w[i])
<1>1. v[i] \in Int16s /\ Second(w[i])
  BY DEF Firsts, Seconds
<1>2. Small(FqMul(v[i], w[i])) /\ Cong(65536 * FqMul(v[i], w[i]), v[i] * w[i])
  BY ONLY <1>1, FqMulCong
<1>3. FqMul(v[i], w[i]) \in Int16s
  BY <1>2, SixteenBits DEF Small
<1> QED BY ONLY <1>2, <1>3 DEF Term

\* An addition that stays within 16 bits.
LEMMA AddExact ==
  ASSUME NEW x \in Int, NEW y \in Int, -32768 <= x + y, x + y <= 32767
  PROVE  Add(x, y) = x + y /\ Add(x, y) \in Int16s
<1> DEFINE s == x + y
<1>1. s \in Int /\ -32768 <= s /\ s <= 32767
  OBVIOUS
<1> HIDE DEF s
<1>2. s \in Int16s
  BY ONLY <1>1, SixteenBits
<1>3. Int16(s) = s
  BY ONLY <1>1, <1>2, Int16Range
<1> QED BY <1>2, <1>3 DEF Add, s

\* Every addition gives an int16_t.
LEMMA AddType ==
  ASSUME NEW x \in Int, NEW y \in Int
  PROVE  Add(x, y) \in Int16s
<1>1. x + y \in Int
  OBVIOUS
<1> QED BY ONLY <1>1, Int16Range DEF Add

\* polyvec_pointwise_acc_n never overflows, and multiplies the vectors, up to a
\* Montgomery factor.
LEMMA PointwiseCong ==
  ASSUME NEW v, NEW w, Firsts(v), Seconds(w)
  PROVE  /\ Reduced(PointwiseAcc(v, w))
         /\ Cong(65536 * PointwiseAcc(v, w), Total(Products(v, w)))
<1> DEFINE f == [i \in Ks |-> Term(v, w, i)]
           P == Partial(f)
           S == [n \in Ks |-> P[n + 1]]
           Is(g) == g = [n \in Ks |-> IF n = 0 THEN Term(v, w, 0) ELSE Add(g[n - 1], Term(v, w, n))]
           s == CHOOSE g : Is(g)
<1>1. f \in [Ks -> Int] /\ \A i \in Ks : f[i] = Term(v, w, i) /\ -3328 <= f[i] /\ f[i] <= 3328
  <2>1. \A i \in Ks : Term(v, w, i) \in Int /\ -3328 <= Term(v, w, i) /\ Term(v, w, i) <= 3328
    BY TermCong DEF Small
  <2> QED BY <2>1
<1> HIDE DEF f
<1>2. IsSum(f, P)
  BY <1>1, PartialLemma
<1>3. \A n \in 0 .. KyberK : P[n] \in Int /\ -29952 <= P[n] /\ P[n] <= 29952
  <2>1. 3328 \in Nat
    OBVIOUS
  <2>2. \A n \in 0 .. KyberK : P[n] \in Int /\ -(n * 3328) <= P[n] /\ P[n] <= n * 3328
    BY ONLY <1>1, <2>1, PartialBound
  <2>3. \A n \in 0 .. KyberK : n \in Int /\ 0 <= n /\ n <= 9
    BY KFacts
  <2> HIDE DEF P
  <2> QED BY ONLY <2>2, <2>3
<1> HIDE DEF P
<1>4. \A n \in Ks : n # 0 => n - 1 \in Ks /\ (n - 1) + 1 = n
  BY KFacts DEF Ks
<1>5. \A n \in Ks : n \in 0 .. KyberK /\ n + 1 \in 0 .. KyberK
  BY KFacts DEF Ks
<1>6. \A n \in Ks : n # 0 => Add(P[n], f[n]) = P[n + 1]
  <2> SUFFICES ASSUME NEW n \in Ks PROVE Add(P[n], f[n]) = P[n + 1]
    OBVIOUS
  <2>1. P[n] \in Int /\ f[n] \in Int /\ P[n + 1] \in Int
        /\ -29952 <= P[n + 1] /\ P[n + 1] <= 29952
    BY <1>1, <1>3, <1>5
  <2>2. P[n + 1] = P[n] + f[n]
    BY <1>2 DEF IsSum
  <2>3. -32768 <= P[n] + f[n] /\ P[n] + f[n] <= 32767
    BY ONLY <2>1, <2>2
  <2> DEFINE x == P[n]
             y == f[n]
  <2>4. x \in Int /\ y \in Int /\ -32768 <= x + y /\ x + y <= 32767
    BY <2>1, <2>3
  <2>5. P[n + 1] = x + y
    BY <2>2
  <2> HIDE DEF x, y
  <2>6. Add(x, y) = x + y
    BY ONLY <2>4, AddExact
  <2> QED BY <2>5, <2>6 DEF x, y
<1>7. \A n \in Ks : S[n] = IF n = 0 THEN Term(v, w, 0) ELSE Add(S[n - 1], Term(v, w, n))
  <2> TAKE n \in Ks
  <2>1. CASE n = 0
    <3>1. P[0 + 1] = P[0] + f[0] /\ P[0] = 0 /\ f[0] \in Int /\ f[0] = Term(v, w, 0) /\ 0 \in Ks
      BY <1>1, <1>2, KFacts DEF IsSum
    <3> QED BY <2>1, <3>1
  <2>2. CASE n # 0
    <3>1. S[n] = P[n + 1] /\ S[n - 1] = P[n]
      BY <1>4, <2>2
    <3> HIDE DEF S
    <3> QED BY <1>1, <1>6, <2>2, <3>1
  <2> QED BY <2>1, <2>2
<1>8. Is(S)
  BY <1>7
<1>9. Is(s)
  <2> HIDE DEF Is
  <2> QED BY <1>8
<1>10. \A n \in Ks : s[n] = IF n = 0 THEN Term(v, w, 0) ELSE Add(s[n - 1], Term(v, w, n))
  <2> HIDE DEF s
  <2> QED BY <1>9
<1> HIDE DEF s, S, Is
<1>11. \A n \in Ks : s[n] = S[n]
  <2> DEFINE Good == {n \in 0 .. KyberK : n \in Ks => s[n] = S[n]}
  <2>1. 0 \in Good
    BY <1>7, <1>10, KFacts
  <2>2. ASSUME NEW n \in Ks, n \in Good
        PROVE  n + 1 \in Good
    <3> SUFFICES ASSUME n + 1 \in Ks PROVE s[n + 1] = S[n + 1]
      BY <1>5
    <3>1. s[n] = S[n]
      BY <2>2
    <3>2. n + 1 # 0 /\ (n + 1) - 1 = n
      BY KFacts DEF Ks
    <3>3. s[n + 1] = Add(s[n], Term(v, w, n + 1))
      BY ONLY <1>10, <3>2, n + 1 \in Ks
    <3>4. S[n + 1] = Add(S[n], Term(v, w, n + 1))
      BY ONLY <1>7, <3>2, n + 1 \in Ks
    <3> QED BY ONLY <3>1, <3>3, <3>4
  <2> HIDE DEF Good
  <2>3. \A n \in 0 .. KyberK : n \in Good
    BY ONLY <2>1, <2>2, KInduction
  <2> QED BY <1>5, <2>3 DEF Good
<1>12. PointwiseAcc(v, w) = BarrettReduce(Total(f))
  <2>1. PointwiseAcc(v, w) = BarrettReduce(s[KyberK - 1])
    BY DEF PointwiseAcc, s, Is
  <2>2. s[KyberK - 1] = P[KyberK]
    BY <1>4, <1>11, KFacts DEF S
  <2> QED BY <2>1, <2>2 DEF P, Total
<1>13. Total(f) \in Int16s /\ Total(f) \in Int
  <2>1. KyberK \in 0 .. KyberK
    BY KFacts
  <2> QED BY <1>3, <2>1, SixteenBits DEF P, Total
<1>14. Reduced(BarrettReduce(Total(f))) /\ Cong(BarrettReduce(Total(f)), Total(f))
  BY ONLY <1>13, BarrettCong
<1> DEFINE b == BarrettReduce(Total(f))
           h == [i \in Ks |-> 65536 * f[i]]
<1>15. h \in [Ks -> Int] /\ \A i \in Ks : h[i] = 65536 * f[i]
  BY <1>1
<1>16. Products(v, w) \in [Ks -> Int] /\ \A i \in Ks : Products(v, w)[i] = v[i] * w[i]
  BY ProductsType DEF Products
<1> HIDE DEF b, h
<1>17. Total(h) = 65536 * Total(f)
  BY ONLY <1>1, <1>15, TotalScale
<1>18. \A i \in Ks : Cong(h[i], Products(v, w)[i])
  BY <1>1, <1>15, <1>16, TermCong
<1>19. Cong(Total(h), Total(Products(v, w)))
  BY ONLY <1>15, <1>16, <1>18, TotalCong
<1>20. b \in Int /\ Reduced(b) /\ Cong(b, Total(f))
  BY <1>14 DEF b, Reduced
<1>21. Cong(65536 * b, 65536 * Total(f))
  BY ONLY <1>13, <1>20, CongMul
<1>22. Cong(65536 * b, Total(Products(v, w)))
  <2>1. 65536 * b \in Int /\ 65536 * Total(f) \in Int /\ Total(Products(v, w)) \in Int
    BY <1>13, <1>16, <1>20, TotalInt
  <2> QED BY ONLY <1>17, <1>19, <1>21, <2>1, CongTrans
<1> QED BY <1>12, <1>20, <1>22 DEF b

(***************************************************************************)
(* The transforms and products, modulo q.                                  *)
(***************************************************************************)
\* A level of invntt_p doubles a constant.
LEMMA DoubleCong ==
  ASSUME NEW x, Reduced(x)
  PROVE  LET y == BarrettReduce(Int16(2 * x)) IN Reduced(y) /\ Cong(y, 2 * x)
<1>1. 2 * x \in Int /\ -32768 <= 2 * x /\ 2 * x <= 32767
  BY DEF Reduced
<1> DEFINE z == 2 * x
<1> HIDE DEF z
<1>2. z \in Int16s /\ z \in Int
  BY <1>1, SixteenBits DEF z
<1>3. Int16(z) = z
  BY ONLY <1>2, Int16Range
<1> QED BY <1>2, <1>3, BarrettCong DEF z

\* The seven levels.
LEMMA LevelsCong ==
  ASSUME NEW x, Reduced(x)
  PROVE  \E y : Reduced(y) /\ Cong(y, 128 * x) /\ InvNtt(x) = FqMul(y, 1441)
<1> DEFINE Up(y) == BarrettReduce(Int16(2 * y))
           Is(g) == g = [n \in 0 .. 7 |-> IF n = 0 THEN x ELSE Up(g[n - 1])]
           s == CHOOSE g : Is(g)
           step == [xi \in Int \X (1 .. 7) |-> Up(xi[1])]
<1>0. x \in Int
  BY DEF Reduced
<1>1. \A y \in Int : Up(y) \in Int
  <2> TAKE y \in Int
  <2>1. 2 * y \in Int
    OBVIOUS
  <2>2. Int16(2 * y) \in Int16s
    BY ONLY <2>1, Int16Range
  <2>3. Reduced(Up(y))
    BY ONLY <2>2, BarrettCong
  <2> QED BY <2>3 DEF Reduced
<1> HIDE DEF Up
<1>2. step \in [Int \X (1 .. 7) -> Int]
  BY <1>1
<1>3. PICK T \in [0 .. 7 -> Int] : Recursion(T, x, step, 7)
  <2> HIDE DEF step
  <2> QED BY ONLY <1>0, <1>2, 7 \in Nat, RecursiveFunction
<1>4. \A n \in 0 .. 7 : T[n] = IF n = 0 THEN x ELSE Up(T[n - 1])
  <2> TAKE n \in 0 .. 7
  <2>1. CASE n = 0
    BY <1>3, <2>1 DEF Recursion
  <2>2. CASE n # 0
    <3>1. n \in 1 .. 7 /\ n - 1 \in 0 .. 7
      BY <2>2
    <3>2. T[n] = step[<<T[n - 1], n>>] /\ T[n - 1] \in Int
      BY <1>3, <3>1 DEF Recursion
    <3> QED BY <2>2, <3>1, <3>2
  <2> QED BY <2>1, <2>2
<1>5. Is(T)
  BY <1>4
<1>6. Is(s)
  <2> HIDE DEF Is
  <2> QED BY <1>5
<1>7. InvNtt(x) = FqMul(s[7], 1441)
  BY DEF InvNtt, s, Is, Up
<1> HIDE DEF s, Is
<1>8. /\ s[0] = x /\ s[1] = Up(s[0]) /\ s[2] = Up(s[1]) /\ s[3] = Up(s[2])
      /\ s[4] = Up(s[3]) /\ s[5] = Up(s[4]) /\ s[6] = Up(s[5]) /\ s[7] = Up(s[6])
  BY <1>6 DEF Is
<1>9. \A y, m : Reduced(y) /\ m \in Int /\ Cong(y, m * x) =>
        Reduced(Up(y)) /\ Cong(Up(y), (2 * m) * x)
  <2> SUFFICES ASSUME NEW y, NEW m, Reduced(y), m \in Int, Cong(y, m * x)
               PROVE  Reduced(Up(y)) /\ Cong(Up(y), (2 * m) * x)
    OBVIOUS
  <2>1. Reduced(Up(y)) /\ Cong(Up(y), 2 * y)
    BY ONLY Reduced(y), DoubleCong DEF Up
  <2>2. y \in Int /\ m * x \in Int
    BY <1>0 DEF Reduced
  <2>3. Cong(2 * y, 2 * (m * x)) /\ 2 * (m * x) = (2 * m) * x
    BY ONLY <1>0, <2>2, m \in Int, Cong(y, m * x), CongMul
  <2>4. Up(y) \in Int /\ 2 * y \in Int /\ 2 * (m * x) \in Int
    BY <2>1, <2>2 DEF Reduced
  <2>5. Cong(Up(y), 2 * (m * x))
    BY ONLY <2>1, <2>3, <2>4, CongTrans
  <2> QED BY ONLY <2>1, <2>3, <2>5
<1>10. Cong(s[0], 1 * x) /\ Reduced(s[0])
  BY <1>0, <1>8, CongRefl
<1>11. Reduced(s[1]) /\ Cong(s[1], 2 * x)
  <2>1. 1 \in Int /\ 2 * 1 = 2
    OBVIOUS
  <2> QED BY ONLY <1>8, <1>9, <1>10, <2>1
<1>12. Reduced(s[2]) /\ Cong(s[2], 4 * x)
  <2>1. 2 \in Int /\ 2 * 2 = 4
    OBVIOUS
  <2> QED BY ONLY <1>8, <1>9, <1>11, <2>1
<1>13. Reduced(s[3]) /\ Cong(s[3], 8 * x)
  <2>1. 4 \in Int /\ 2 * 4 = 8
    OBVIOUS
  <2> QED BY ONLY <1>8, <1>9, <1>12, <2>1
<1>14. Reduced(s[4]) /\ Cong(s[4], 16 * x)
  <2>1. 8 \in Int /\ 2 * 8 = 16
    OBVIOUS
  <2> QED BY ONLY <1>8, <1>9, <1>13, <2>1
<1>15. Reduced(s[5]) /\ Cong(s[5], 32 * x)
  <2>1. 16 \in Int /\ 2 * 16 = 32
    OBVIOUS
  <2> QED BY ONLY <1>8, <1>9, <1>14, <2>1
<1>16. Reduced(s[6]) /\ Cong(s[6], 64 * x)
  <2>1. 32 \in Int /\ 2 * 32 = 64
    OBVIOUS
  <2> QED BY ONLY <1>8, <1>9, <1>15, <2>1
<1>17. Reduced(s[7]) /\ Cong(s[7], 128 * x)
  <2>1. 64 \in Int /\ 2 * 64 = 128
    OBVIOUS
  <2> QED BY ONLY <1>8, <1>9, <1>16, <2>1
<1> QED BY <1>7, <1>17

\* invntt_p scales a constant by the Montgomery factor.
LEMMA InvNttCong ==
  ASSUME NEW x, Reduced(x)
  PROVE  Small(InvNtt(x)) /\ Cong(InvNtt(x), 65536 * x)
<1>0. x \in Int
  BY DEF Reduced
<1>1. PICK y : Reduced(y) /\ Cong(y, 128 * x) /\ InvNtt(x) = FqMul(y, 1441)
  BY LevelsCong
<1>2. y \in Int16s /\ y \in Int /\ Second(1441) /\ 128 * x \in Int
  BY <1>0, <1>1, SixteenBits DEF Reduced, Second
<1> DEFINE z == FqMul(y, 1441)
<1>3. Small(z) /\ Cong(65536 * z, y * 1441)
  BY <1>2, FqMulCong
<1> HIDE DEF z
<1>4. z \in Int
  BY <1>3 DEF Small
<1>5. PICK k \in Int : 65536 * z = y * 1441 + 3329 * k
  BY <1>3 DEF Cong
<1>6. PICK l \in Int : y = 128 * x + 3329 * l
  BY <1>1 DEF Cong
<1>7. PICK m \in Int : m = k + 1441 * l - 1290112 * x
  BY <1>0
<1>8. 65536 * z = 65536 * (65536 * x) + 3329 * m
  BY <1>0, <1>4, <1>5, <1>6, <1>7
<1>9. 65536 * x \in Int
  BY <1>0
<1>10. Cong(65536 * z, 65536 * (65536 * x))
  BY ONLY <1>8, m \in Int DEF Cong
<1>11. Cong(z, 65536 * x)
  BY ONLY <1>4, <1>9, <1>10, CongCancel
<1> QED BY <1>1, <1>3, <1>11 DEF z

\* FromMont does the same.
LEMMA FromMontCong ==
  ASSUME NEW x, Reduced(x)
  PROVE  Small(FromMont(x)) /\ Cong(FromMont(x), 65536 * x)
<1>0. x \in Int /\ 0 <= x /\ x <= 3329
  BY DEF Reduced
<1>1. PICK y \in Int : y = x * 1353
  BY <1>0
<1>2. -(3329 * 32768) <= y /\ y < 3329 * 32768
  BY <1>0, <1>1
<1> DEFINE z == MontgomeryReduce(y)
<1>3. Small(z) /\ Cong(65536 * z, y)
  BY ONLY y \in Int, <1>2, MontgomeryCong
<1>4. FromMont(x) = z
  BY <1>1 DEF FromMont
<1> HIDE DEF z
<1>5. z \in Int
  BY <1>3 DEF Small
<1>6. PICK k \in Int : 65536 * z = y + 3329 * k
  BY <1>3 DEF Cong
<1>7. PICK m \in Int : m = k - 1290167 * x
  BY <1>0
<1>8. 65536 * z = 65536 * (65536 * x) + 3329 * m
  BY <1>0, <1>1, <1>5, <1>6, <1>7
<1>9. 65536 * x \in Int
  BY <1>0
<1>10. Cong(65536 * z, 65536 * (65536 * x))
  BY ONLY <1>8, m \in Int DEF Cong
<1>11. Cong(z, 65536 * x)
  BY ONLY <1>5, <1>9, <1>10, CongCancel
<1> QED BY <1>3, <1>4, <1>11

\* Both undo the factor of a product of vectors.
LEMMA ProductCong ==
  ASSUME NEW v, NEW w, Firsts(v), Seconds(w)
  PROVE  LET p == PointwiseAcc(v, w)
         IN  /\ Small(FromMont(p)) /\ Cong(FromMont(p), Total(Products(v, w)))
             /\ Small(InvNtt(p)) /\ Cong(InvNtt(p), Total(Products(v, w)))
<1> DEFINE p == PointwiseAcc(v, w)
           t == Total(Products(v, w))
<1>1. Reduced(p) /\ Cong(65536 * p, t)
  BY PointwiseCong
<1>2. t \in Int
  BY ProductsType, TotalInt
<1> HIDE DEF p, t
<1>3. 65536 * p \in Int
  BY <1>1 DEF Reduced
<1>4. /\ Small(FromMont(p)) /\ Cong(FromMont(p), 65536 * p)
      /\ Small(InvNtt(p)) /\ Cong(InvNtt(p), 65536 * p)
  BY <1>1, FromMontCong, InvNttCong
<1> DEFINE f == FromMont(p)
           i == InvNtt(p)
<1>5. f \in Int /\ i \in Int
  BY <1>4 DEF Small
<1>6. Cong(f, 65536 * p) /\ Cong(i, 65536 * p)
  BY <1>4
<1> HIDE DEF f, i
<1>7. Cong(f, t) /\ Cong(i, t)
  BY ONLY <1>1, <1>2, <1>3, <1>5, <1>6, CongTrans
<1> QED BY <1>4, <1>7 DEF p, t, f, i

(***************************************************************************)
(* Compression.                                                            *)
(***************************************************************************)
\* poly_compress and polyvec_compress round to the nearest multiple.
LEMMA CompressIsRounded ==
  ASSUME NEW x \in Int
  PROVE  /\ Compress(x % 3329, 11) = Reference!Rounded(x, 11)
         /\ Compress(x % 3329, 5) = Reference!Rounded(x, 5)
<1>1. 2^11 = 2048 /\ 2^5 = 32
  BY SMTT(20)
<1>2. PICK a \in Int : a = x % 3329 /\ 0 <= a /\ a <= 3328
  BY CongMod
<1>3. (a * 2048 + 1664) \div 3329 = (2 * 2048 * a + 3329) \div 6658
  BY ONLY SMTT(20), <1>2
<1>4. (a * 32 + 1664) \div 3329 = (2 * 32 * a + 3329) \div 6658
  BY ONLY SMTT(20), <1>2
<1>5. Compress(a, 11) = ((a * 2048 + 1664) \div 3329) % 2048
      /\ Compress(a, 5) = ((a * 32 + 1664) \div 3329) % 32
  BY <1>1, <1>2 DEF Compress, KyberQ
<1>6. Reference!Rounded(x, 11) = ((2 * 2048 * a + 3329) \div 6658) % 2048
      /\ Reference!Rounded(x, 5) = ((2 * 32 * a + 3329) \div 6658) % 32
  BY <1>1, <1>2 DEF Reference!Rounded, Reference!Q
<1> QED BY <1>2, <1>3, <1>4, <1>5, <1>6

\* What u loses in eleven bits: at most 1, modulo q.
LEMMA ComponentError ==
  ASSUME NEW x, Canon(x)
  PROVE  \E e \in Int : -1 <= e /\ e <= 1 /\ Cong(Decompress(Compress(x, 11), 11), x + e)
<1>1. 2^11 = 2048 /\ 2^(11 - 1) = 1024
  BY SMTT(20)
<1>2. x \in Int /\ 0 <= x /\ x <= 3328
  BY DEF Canon
<1>3. PICK c \in Int : c = (x * 2048 + 1664) \div 3329
  BY <1>2
<1>4. 3329 * c <= x * 2048 + 1664 /\ x * 2048 + 1664 < 3329 * c + 3329
  BY SMTT(20), <1>2, <1>3
<1>5. 0 <= c /\ c <= 2048
  BY SMTT(20), <1>2, <1>4
<1>6. Compress(x, 11) = c % 2048
  BY SMTT(20), <1>1, <1>3 DEF Compress, KyberQ
<1>7. CASE c = 2048
  <2>1. Compress(x, 11) = 0
    BY <1>6, <1>7
  <2>2. Decompress(0, 11) = 0
    BY SMTT(20), <1>1 DEF Decompress, KyberQ
  <2>3. PICK e \in Int : e = 3329 - x
    BY <1>2
  <2>4. -1 <= e /\ e <= 1
    BY SMTT(20), <1>2, <1>4, <1>7, <2>3
  <2>5. PICK m \in Int : m = -1
    OBVIOUS
  <2>6. 0 = (x + e) + 3329 * m
    BY ONLY <1>2, <2>3, <2>5
  <2>7. Cong(0, x + e)
    BY ONLY <2>6, m \in Int DEF Cong
  <2> QED BY <2>1, <2>2, <2>4, <2>7
<1>8. CASE c < 2048
  <2>1. PICK y \in Int : y = (c * 3329 + 1024) \div 2048
    BY SMTT(20), <1>5
  <2>2. 2048 * y <= c * 3329 + 1024 /\ c * 3329 + 1024 < 2048 * y + 2048
    BY SMTT(20), <1>5, <2>1
  <2>3. Compress(x, 11) = c
    BY SMTT(20), <1>5, <1>6, <1>8
  <2>4. Decompress(c, 11) = y
    BY SMTT(20), <1>1, <2>1 DEF Decompress, KyberQ
  <2>5. PICK e \in Int : e = y - x
    BY <1>2
  <2>6. -1 <= e /\ e <= 1
    BY SMTT(20), <1>2, <1>4, <2>2, <2>5
  <2>7. x + e = y
    BY ONLY <1>2, y \in Int, <2>5
  <2>8. Cong(y, x + e)
    BY ONLY <2>7, y \in Int, CongRefl
  <2> QED BY <2>3, <2>4, <2>6, <2>8
<1> QED BY <1>5, <1>7, <1>8

\* The same for v, from VectorError.
LEMMA MessageError ==
  ASSUME NEW x, Canon(x)
  PROVE  \E e \in Int : -52 <= e /\ e <= 52 /\ Cong(Decompress(Compress(x, 5), 5), x + e)
<1>1. x \in Int /\ 0 <= x /\ x <= 3328 /\ KyberQ = 3329
  BY Constants DEF Canon
<1>2. PICK e \in Int : /\ -52 <= e /\ e <= 52
                      /\ \E k \in {0, 1} : Decompress(Compress(x, 5), 5) = x + e - k * 3329
  BY ONLY <1>1, VectorError
<1>3. PICK k \in {0, 1} : Decompress(Compress(x, 5), 5) = x + e - k * 3329
  BY <1>2
<1> DEFINE d == Decompress(Compress(x, 5), 5)
<1>4. d = x + e - k * 3329
  BY <1>3
<1> HIDE DEF d
<1>5. PICK m \in Int : m = -k
  OBVIOUS
<1>6. d = (x + e) + 3329 * m
  BY ONLY <1>1, <1>4, <1>5, e \in Int, k \in {0, 1}
<1>7. Cong(d, x + e)
  BY ONLY <1>6, m \in Int DEF Cong
<1> QED BY <1>2, <1>7 DEF d

\* What a ciphertext in its bits is, and decompresses to.
LEMMA RoundedRange ==
  ASSUME NEW x \in Int
  PROVE  /\ Reference!Rounded(x, 11) \in Int
         /\ 0 <= Reference!Rounded(x, 11) /\ Reference!Rounded(x, 11) <= 2047
         /\ Reference!Rounded(x, 5) \in Int
         /\ 0 <= Reference!Rounded(x, 5) /\ Reference!Rounded(x, 5) <= 31
<1>1. 2^11 = 2048 /\ 2^5 = 32
  BY SMTT(20)
<1>2. PICK a \in Int : a = x % 3329 /\ 0 <= a /\ a <= 3328
  BY CongMod
<1>3. PICK k \in Int : k = (2 * 2048 * a + 3329) \div 6658
  BY <1>2
<1>4. PICK l \in Int : l = (2 * 32 * a + 3329) \div 6658
  BY <1>2
<1>5. PICK p \in 0 .. 2047 : p = k % 2048
  OBVIOUS
<1>6. PICK r \in 0 .. 31 : r = l % 32
  OBVIOUS
<1>7. Reference!Rounded(x, 11) = p /\ Reference!Rounded(x, 5) = r
  BY <1>1, <1>2, <1>3, <1>4, <1>5, <1>6 DEF Reference!Rounded, Reference!Q
<1>8. p \in Int /\ 0 <= p /\ p <= 2047 /\ r \in Int /\ 0 <= r /\ r <= 31
  OBVIOUS
<1> QED BY ONLY <1>7, <1>8

\* A decompressed number is canonical.
LEMMA DecompressRange ==
  ASSUME NEW y \in Int, 0 <= y
  PROVE  /\ y <= 2047 => Canon(Decompress(y, 11))
         /\ y <= 31 => Canon(Decompress(y, 5))
<1>1. 2^11 = 2048 /\ 2^(11 - 1) = 1024 /\ 2^5 = 32 /\ 2^(5 - 1) = 16
  BY SMTT(20)
<1>2. PICK u \in Int : u = (y * 3329 + 1024) \div 2048
  OBVIOUS
<1>3. PICK v \in Int : v = (y * 3329 + 16) \div 32
  OBVIOUS
<1>4. Decompress(y, 11) = u /\ Decompress(y, 5) = v
  BY SMTT(20), <1>1, <1>2, <1>3 DEF Decompress, KyberQ
<1>5. y <= 2047 => 0 <= u /\ u <= 3328
  BY SMTT(20), <1>2
<1>6. y <= 31 => 0 <= v /\ v <= 3328
  BY SMTT(20), <1>3
<1> QED BY <1>4, <1>5, <1>6 DEF Canon

(***************************************************************************)
(* What each call leaves in an item's column.                              *)
(***************************************************************************)
Column(w) ==
  DOMAIN w = {"a", "b", "c", "d", "av", "bv", "cv", "dv", "AV", "seed"}

\* Transformed noise, and the sums of the two halves of the scheme.
NttVec(seed, n) == [i \in Ks |-> Ntt(Noise(seed, n + i))]
KeySum(M, c, e) ==
  [i \in Ks |-> Csubq(BarrettReduce(Add(FromMont(PointwiseAcc(M[i], c)), e[i])))]
EncSum(M, r, e) ==
  [i \in Ks |-> Csubq(BarrettReduce(Add(InvNtt(PointwiseAcc(M[i], r)), e[i])))]
Unpacked(u) == [i \in Ks |-> Ntt(Decompress(u[i], 11))]
Canonicals(v) == [i \in Ks |-> Csubq(v[i])]

\* What indcpa_keypair leaves in a column.
LEMMA KeyColumn ==
  ASSUME NEW w, Column(w), NEW r
  PROVE  LET new == IndcpaKeypair(w, r)
             s == Seed(r)
             c == NttVec(s.noise, 0)
             e == NttVec(s.noise, KyberK)
             M == Matrix(s.public, FALSE)
         IN  /\ Column(new)
             /\ new.AV = M /\ new.av = e /\ new.seed = s
             /\ new.cv = Canonicals(c) /\ new.bv = KeySum(M, c, e)
             /\ new.a = LastTerm(M[KyberK - 1], c, w.a)
             /\ new.b = w.b /\ new.c = w.c /\ new.d = w.d /\ new.dv = w.dv
<1> DEFINE s == Seed(r)
           M == Matrix(s.public, FALSE)
           c(i) == Ntt(Noise(s.noise, 0 + i))
           e(i) == Ntt(Noise(s.noise, KyberK + i))
           b(i) == FromMont(PointwiseAcc(M[i], [j \in Ks |-> c(j)]))
           w1 == KeySample(w, s)
           w2 == KeyTransform(w1)
           w3 == KeyProducts(w2)
           w4 == KeySums(w3)
           w5 == PackKeys(w4)
<1>1. /\ Column(w1) /\ w1.AV = M /\ w1.seed = s /\ w1.cv = NoiseVec(s.noise, 0)
      /\ w1.av = NoiseVec(s.noise, KyberK)
      /\ w1.a = w.a /\ w1.b = w.b /\ w1.c = w.c /\ w1.d = w.d /\ w1.dv = w.dv
  BY DEF KeySample, Column
<1> HIDE DEF w1
<1>2. /\ Column(w2) /\ w2.AV = M /\ w2.seed = s
      /\ w2.cv = [i \in Ks |-> c(i)] /\ w2.av = [i \in Ks |-> e(i)]
      /\ w2.a = w.a /\ w2.b = w.b /\ w2.c = w.c /\ w2.d = w.d /\ w2.dv = w.dv
  <2>1. /\ Column(w2) /\ w2.AV = M /\ w2.seed = s
        /\ w2.cv = Map(Ntt, w1.cv) /\ w2.av = Map(Ntt, w1.av)
        /\ w2.a = w.a /\ w2.b = w.b /\ w2.c = w.c /\ w2.d = w.d /\ w2.dv = w.dv
    BY <1>1 DEF KeyTransform, Column
  <2>2. \A i \in Ks : w1.cv[i] = Noise(s.noise, 0 + i) /\ w1.av[i] = Noise(s.noise, KyberK + i)
    BY <1>1 DEF NoiseVec
  <2>3. Map(Ntt, w1.cv) = [i \in Ks |-> c(i)] /\ Map(Ntt, w1.av) = [i \in Ks |-> e(i)]
    BY <2>2 DEF Map
  <2> QED BY ONLY <2>1, <2>3
<1> HIDE DEF w2, c, e, M
<1>3. /\ Column(w3) /\ w3.AV = M /\ w3.seed = s
      /\ w3.cv = [i \in Ks |-> c(i)] /\ w3.av = [i \in Ks |-> e(i)]
      /\ w3.bv = [i \in Ks |-> b(i)]
      /\ w3.a = LastTerm(M[KyberK - 1], [j \in Ks |-> c(j)], w.a)
      /\ w3.b = w.b /\ w3.c = w.c /\ w3.d = w.d /\ w3.dv = w.dv
  BY <1>2 DEF KeyProducts, Column
<1> HIDE DEF w3, b
<1>4. /\ Column(w4) /\ w4.AV = M /\ w4.seed = s
      /\ w4.cv = [i \in Ks |-> c(i)] /\ w4.av = [i \in Ks |-> e(i)]
      /\ w4.bv = [i \in Ks |-> BarrettReduce(Add(b(i), e(i)))]
      /\ w4.a = w3.a /\ w4.b = w.b /\ w4.c = w.c /\ w4.d = w.d /\ w4.dv = w.dv
  <2>1. /\ Column(w4) /\ w4.AV = M /\ w4.seed = s /\ w4.cv = w3.cv /\ w4.av = w3.av
        /\ w4.bv = Map(BarrettReduce, VecAdd(w3.bv, w3.av))
        /\ w4.a = w3.a /\ w4.b = w.b /\ w4.c = w.c /\ w4.d = w.d /\ w4.dv = w.dv
    BY <1>3 DEF KeySums, Column
  <2>2. \A i \in Ks : VecAdd(w3.bv, w3.av)[i] = Add(b(i), e(i))
    BY <1>3 DEF VecAdd
  <2>3. Map(BarrettReduce, VecAdd(w3.bv, w3.av)) = [i \in Ks |-> BarrettReduce(Add(b(i), e(i)))]
    BY <2>2 DEF Map
  <2> QED BY ONLY <1>3, <2>1, <2>3
<1> HIDE DEF w4
<1>5. /\ Column(w5) /\ w5.AV = M /\ w5.seed = s
      /\ w5.cv = [i \in Ks |-> Csubq(c(i))] /\ w5.av = [i \in Ks |-> e(i)]
      /\ w5.bv = [i \in Ks |-> Csubq(BarrettReduce(Add(b(i), e(i))))]
      /\ w5.a = w3.a /\ w5.b = w.b /\ w5.c = w.c /\ w5.d = w.d /\ w5.dv = w.dv
  <2>1. /\ Column(w5) /\ w5.AV = M /\ w5.seed = s /\ w5.av = w4.av
        /\ w5.cv = Map(Csubq, w4.cv) /\ w5.bv = Map(Csubq, w4.bv)
        /\ w5.a = w3.a /\ w5.b = w.b /\ w5.c = w.c /\ w5.d = w.d /\ w5.dv = w.dv
    BY <1>4 DEF PackKeys, Column
  <2>2. /\ Map(Csubq, w4.cv) = [i \in Ks |-> Csubq(c(i))]
        /\ Map(Csubq, w4.bv) = [i \in Ks |-> Csubq(BarrettReduce(Add(b(i), e(i))))]
    BY <1>4 DEF Map
  <2> QED BY ONLY <1>4, <2>1, <2>2
<1>6. IndcpaKeypair(w, r) = w5
  BY DEF IndcpaKeypair, w4, w3, w2, w1
<1>7. [j \in Ks |-> c(j)] = NttVec(s.noise, 0) /\ [j \in Ks |-> e(j)] = NttVec(s.noise, KyberK)
  BY DEF NttVec, c, e
<1>8. \A j \in Ks : NttVec(s.noise, 0)[j] = c(j) /\ NttVec(s.noise, KyberK)[j] = e(j)
  BY ONLY <1>7
<1>9. [j \in Ks |-> Csubq(c(j))] = Canonicals(NttVec(s.noise, 0))
  BY ONLY <1>8 DEF Canonicals
<1>10. [i \in Ks |-> Csubq(BarrettReduce(Add(b(i), e(i))))]
         = KeySum(M, NttVec(s.noise, 0), NttVec(s.noise, KyberK))
  BY ONLY <1>7, <1>8 DEF KeySum, b
<1> HIDE DEF w5, s
<1> QED BY ONLY <1>3, <1>5, <1>6, <1>7, <1>9, <1>10 DEF s, M

\* The same for indcpa_enc.
EncDone(new, w, m, key, coins) ==
  LET M == Matrix(key.seed, TRUE)
      r == NttVec(coins, 0)
      e == NoiseVec(coins, KyberK)
      e2 == Noise(coins, KyberK + KyberK)
  IN  /\ Column(new)
      /\ new.AV = M /\ new.av = r /\ new.bv = key.t /\ new.cv = e
      /\ new.b = FromMsg(m) /\ new.c = e2
      /\ new.d = LastTerm(key.t, r, w.d)
      /\ new.dv = EncSum(M, r, e)
      /\ new.a = Csubq(BarrettReduce(
           Add(Add(InvNtt(PointwiseAcc(key.t, r)), e2), FromMsg(m))))

\* What indcpa_enc leaves in the column.
LEMMA EncColumn ==
  ASSUME NEW w, Column(w), NEW m, NEW key, NEW coins
  PROVE  EncDone(IndcpaEnc(w, m, key, coins), w, m, key, coins)
<1> DEFINE M == Matrix(key.seed, TRUE)
           r == NttVec(coins, 0)
           e(i) == Noise(coins, KyberK + i)
           e2 == Noise(coins, KyberK + KyberK)
           p(i) == PointwiseAcc(M[i], r)
           q == PointwiseAcc(key.t, r)
           bit == FromMsg(m)
           last == LastTerm(key.t, r, w.d)
           Fixed(x) == /\ Column(x) /\ x.AV = M /\ x.av = r /\ x.bv = key.t
                       /\ x.cv = [i \in Ks |-> e(i)] /\ x.b = bit /\ x.c = e2
           w1 == EncSample(w, m, key, coins)
           w2 == EncTransform(w1)
           w3 == EncProducts(w2)
           w4 == EncInverse(w3)
           w5 == EncSums(w4)
           w6 == PackCiphertext(w5)
<1>1. /\ Column(w1) /\ w1.AV = M /\ w1.av = NoiseVec(coins, 0) /\ w1.bv = key.t
      /\ w1.cv = [i \in Ks |-> e(i)] /\ w1.b = bit /\ w1.c = e2 /\ w1.d = w.d
  BY DEF EncSample, Column, NoiseVec
<1> HIDE DEF w1
<1>2. Fixed(w2) /\ w2.d = w.d
  <2>1. /\ Column(w2) /\ w2.AV = M /\ w2.av = Map(Ntt, w1.av) /\ w2.bv = key.t
        /\ w2.cv = [i \in Ks |-> e(i)] /\ w2.b = bit /\ w2.c = e2 /\ w2.d = w.d
    BY <1>1 DEF EncTransform, Column
  <2>2. Map(Ntt, w1.av) = r
    BY <1>1 DEF Map, NoiseVec, NttVec
  <2> QED BY ONLY <2>1, <2>2
<1> HIDE DEF w2, M, r, e, e2, bit
<1>3. Fixed(w3) /\ w3.dv = [i \in Ks |-> p(i)] /\ w3.a = q /\ w3.d = last
  BY <1>2 DEF EncProducts, Column
<1> HIDE DEF w3, p, q, last
<1>4. Fixed(w4) /\ w4.dv = [i \in Ks |-> InvNtt(p(i))] /\ w4.a = InvNtt(q) /\ w4.d = last
  <2>1. Fixed(w4) /\ w4.dv = Map(InvNtt, w3.dv) /\ w4.a = InvNtt(q) /\ w4.d = last
    BY <1>3 DEF EncInverse, Column
  <2>2. Map(InvNtt, w3.dv) = [i \in Ks |-> InvNtt(p(i))]
    BY <1>3 DEF Map
  <2> QED BY ONLY <2>1, <2>2
<1> HIDE DEF w4
<1>5. /\ Fixed(w5) /\ w5.dv = [i \in Ks |-> BarrettReduce(Add(InvNtt(p(i)), e(i)))]
      /\ w5.a = BarrettReduce(Add(Add(InvNtt(q), e2), bit)) /\ w5.d = last
  <2>1. /\ Fixed(w5) /\ w5.dv = Map(BarrettReduce, VecAdd(w4.dv, w4.cv))
        /\ w5.a = BarrettReduce(Add(Add(InvNtt(q), e2), bit)) /\ w5.d = last
    BY <1>4 DEF EncSums, Column
  <2>2. \A i \in Ks : VecAdd(w4.dv, w4.cv)[i] = Add(InvNtt(p(i)), e(i))
    BY <1>4 DEF VecAdd
  <2>3. Map(BarrettReduce, VecAdd(w4.dv, w4.cv))
          = [i \in Ks |-> BarrettReduce(Add(InvNtt(p(i)), e(i)))]
    BY <2>2 DEF Map
  <2> QED BY ONLY <2>1, <2>3
<1> HIDE DEF w5
<1>6. /\ Fixed(w6) /\ w6.dv = [i \in Ks |-> Csubq(BarrettReduce(Add(InvNtt(p(i)), e(i))))]
      /\ w6.a = Csubq(BarrettReduce(Add(Add(InvNtt(q), e2), bit))) /\ w6.d = last
  <2>1. /\ Fixed(w6) /\ w6.dv = Map(Csubq, w5.dv)
        /\ w6.a = Csubq(BarrettReduce(Add(Add(InvNtt(q), e2), bit))) /\ w6.d = last
    BY <1>5 DEF PackCiphertext, Column
  <2>2. Map(Csubq, w5.dv) = [i \in Ks |-> Csubq(BarrettReduce(Add(InvNtt(p(i)), e(i))))]
    BY <1>5 DEF Map
  <2> QED BY ONLY <2>1, <2>2
<1>7. IndcpaEnc(w, m, key, coins) = w6
  BY DEF IndcpaEnc, w5, w4, w3, w2, w1
<1>8. [i \in Ks |-> e(i)] = NoiseVec(coins, KyberK)
  BY DEF e, NoiseVec
<1>9. \A i \in Ks : NoiseVec(coins, KyberK)[i] = e(i)
  BY ONLY <1>8
<1>10. [i \in Ks |-> Csubq(BarrettReduce(Add(InvNtt(p(i)), e(i))))]
         = EncSum(M, r, NoiseVec(coins, KyberK))
  BY ONLY <1>9 DEF EncSum, p
<1> HIDE DEF w6
<1> QED BY ONLY <1>6, <1>7, <1>8, <1>10 DEF EncDone, q, last, M, r, e2, bit

\* And indcpa_dec.
DecDone(new, w, c, key) ==
  LET u == Unpacked(c.u)
      v == Decompress(c.v, 5)
  IN  /\ Column(new)
      /\ new.AV = w.AV /\ new.av = u /\ new.bv = key /\ new.cv = w.cv /\ new.dv = w.dv
      /\ new.a = v /\ new.d = w.d
      /\ new.b = Csubq(BarrettReduce(Int16(v - InvNtt(PointwiseAcc(key, u)))))
      /\ new.c = LastTerm(key, u, w.c)

\* What indcpa_dec leaves in the column.
LEMMA DecColumn ==
  ASSUME NEW w, Column(w), NEW c, NEW key
  PROVE  DecDone(IndcpaDec(w, c, key), w, c, key)
<1> DEFINE u == Unpacked(c.u)
           v == Decompress(c.v, 5)
           p == PointwiseAcc(key, u)
           last == LastTerm(key, u, w.c)
           Fixed(x) == /\ Column(x) /\ x.AV = w.AV /\ x.av = u /\ x.bv = key /\ x.cv = w.cv
                       /\ x.dv = w.dv /\ x.a = v /\ x.d = w.d
           w1 == DecUnpack(w, c, key)
           w2 == DecProduct(w1)
           w3 == DecMessage(w2)
<1>1. Fixed(w1) /\ w1.c = w.c
  BY DEF DecUnpack, Column, Unpacked
<1> HIDE DEF w1, u, v
<1>2. Fixed(w2) /\ w2.b = InvNtt(p) /\ w2.c = last
  BY <1>1 DEF DecProduct, Column
<1> HIDE DEF w2, p, last
<1>3. Fixed(w3) /\ w3.b = Csubq(BarrettReduce(Int16(v - InvNtt(p)))) /\ w3.c = last
  BY <1>2 DEF DecMessage, Column
<1>4. IndcpaDec(w, c, key) = w3
  BY DEF IndcpaDec, w2, w1
<1> HIDE DEF w3
<1> QED BY <1>3, <1>4 DEF DecDone, u, v, p, last

(***************************************************************************)
(* The reference, by the sums of this module.                              *)
(***************************************************************************)
\* The names of the reference.
LEMMA ReferenceNames ==
  /\ Reference!Ks = Ks /\ Reference!Items = Items /\ Reference!Q = 3329
  /\ \A n : Reference!In(n) = In(n)
  /\ \A x : Reference!H(x) = H(x) /\ Reference!G(x) = G(x)
  /\ \A k, c : Reference!Kdf(k, c) = Kdf(k, c)
BY DEF Reference!Ks, Reference!Items, Reference!Q, Reference!In, Reference!H, Reference!G,
       Reference!Kdf, Ks, Items, In, H, G, Kdf

\* A row and a column of the matrix, modulo q.
Row(seed, i) == [j \in Ks |-> Sample(seed, j, i) % 3329]
Col(seed, i) == [j \in Ks |-> Sample(seed, i, j) % 3329]

\* What the theorems assume of the samplers, as numbers.
LEMMA SamplersType ==
  ASSUME Samplers
  PROVE  /\ \A seed, x : /\ Noise(seed, x) \in Int16s /\ Noise(seed, x) \in Int
                         /\ -2 <= Noise(seed, x) /\ Noise(seed, x) <= 2
         /\ \A seed, x, y : /\ Uniform(Sample(seed, x, y)) \in Int16s
                            /\ Sample(seed, x, y) \in Int
                            /\ Cong(Uniform(Sample(seed, x, y)), Sample(seed, x, y) % 3329)
<1>1. ASSUME NEW seed, NEW x
      PROVE  /\ Noise(seed, x) \in Int16s /\ Noise(seed, x) \in Int
             /\ -2 <= Noise(seed, x) /\ Noise(seed, x) <= 2
  <2> DEFINE n == Noise(seed, x)
  <2>1. n \in -KyberEta .. KyberEta
    BY DEF Samplers
  <2> HIDE DEF n
  <2>2. n \in Int /\ -2 <= n /\ n <= 2
    BY <2>1 DEF KyberEta
  <2> QED BY <2>2, SixteenBits DEF n
<1>2. ASSUME NEW seed, NEW x, NEW y
      PROVE  /\ Uniform(Sample(seed, x, y)) \in Int16s /\ Sample(seed, x, y) \in Int
             /\ Cong(Uniform(Sample(seed, x, y)), Sample(seed, x, y) % 3329)
  <2> DEFINE s == Sample(seed, x, y)
             u == Uniform(s)
  <2>1. s \in 0 .. SampleBound - 1
    BY DEF Samplers
  <2> HIDE DEF s
  <2>2. s \in Int
    BY <2>1, SampleRange
  <2>8. Replaced(s)
    BY ONLY <2>1, UniformCorrect
  <2>9. u \in 0 .. 14833 /\ Congruent(u, s, KyberQ)
    BY ONLY <2>8 DEF Replaced
  <2> HIDE DEF u
  <2>3. u \in 0 .. 14833 /\ Congruent(u, s, 3329)
    BY ONLY <2>9, Constants
  <2>4. u \in Int /\ 0 <= u /\ u <= 14833
    BY <2>3
  <2>5. Cong(u, s)
    BY ONLY <2>2, <2>3, <2>4, CongIs
  <2>6. s % 3329 \in Int /\ Cong(s, s % 3329)
    BY <2>2, CongMod
  <2>7. Cong(u, s % 3329)
    BY ONLY <2>2, <2>4, <2>5, <2>6, CongTrans
  <2> QED BY <2>2, <2>4, <2>7, SixteenBits DEF s, u
<1> QED BY <1>1, <1>2

\* Rows, columns and noise are vectors of numbers.
LEMMA VectorTypes ==
  ASSUME Samplers
  PROVE  /\ \A seed, i : Row(seed, i) \in [Ks -> Int] /\ Col(seed, i) \in [Ks -> Int]
         /\ \A seed, n : NoiseVec(seed, n) \in [Ks -> Int]
<1>1. \A seed, x, y : Sample(seed, x, y) % 3329 \in Int
  BY SamplersType
<1> QED BY <1>1, SamplersType DEF Row, Col, NoiseVec

SecretOf(r) == NoiseVec(G(r).second, 0)
TOf(r, i) ==
  Total(Products(Row(G(r).first, i), SecretOf(r))) + NoiseVec(G(r).second, KyberK)[i]
UOf(seed, coins, i) ==
  Total(Products(Col(seed, i), NoiseVec(coins, 0))) + NoiseVec(coins, KyberK)[i]
VOf(t, coins, m) ==
  Total(Products(t, NoiseVec(coins, 0))) + Noise(coins, KyberK + KyberK) + m * 1665

\* The products of two vectors and their sum are numbers.
LEMMA VectorProducts ==
  ASSUME NEW v \in [Ks -> Int], NEW w \in [Ks -> Int]
  PROVE  Products(v, w) \in [Ks -> Int] /\ Total(Products(v, w)) \in Int
<1>1. Products(v, w) \in [Ks -> Int]
  BY DEF Products
<1> QED BY <1>1, TotalInt

\* The sums of the reference are numbers.
LEMMA SumsType ==
  ASSUME Samplers
  PROVE  /\ \A r : \A i \in Ks : TOf(r, i) \in Int
         /\ \A seed, coins : \A i \in Ks : UOf(seed, coins, i) \in Int
         /\ \A t, coins, m : t \in [Ks -> Int] /\ m \in Int => VOf(t, coins, m) \in Int
<1>1. ASSUME NEW r, NEW i \in Ks PROVE TOf(r, i) \in Int
  BY VectorTypes, VectorProducts DEF TOf, SecretOf
<1>2. ASSUME NEW seed, NEW coins, NEW i \in Ks PROVE UOf(seed, coins, i) \in Int
  BY VectorTypes, VectorProducts DEF UOf
<1>3. ASSUME NEW t \in [Ks -> Int], NEW coins, NEW m \in Int PROVE VOf(t, coins, m) \in Int
  <2>1. Total(Products(t, NoiseVec(coins, 0))) \in Int /\ Noise(coins, KyberK + KyberK) \in Int
    BY VectorTypes, VectorProducts, SamplersType
  <2> QED BY <2>1 DEF VOf
<1> QED BY <1>1, <1>2, <1>3

\* The keys of the reference, with the sums of this module.
LEMMA ReferenceKeys ==
  ASSUME Samplers, NEW r
  PROVE  Reference!KeyPair(r) =
           [pk |-> [t |-> [i \in Ks |-> TOf(r, i) % 3329], seed |-> G(r).first],
            s |-> [i \in Ks |-> SecretOf(r)[i] % 3329]]
<1> DEFINE f(i) == [j \in Ks |-> (Sample(G(r).first, j, i) % 3329) * Noise(G(r).second, j)]
<1>1. \A i \in Ks : f(i) = Products(Row(G(r).first, i), SecretOf(r))
  <2> TAKE i \in Ks
  <2>1. \A j \in Ks : j \in Int /\ 0 + j = j
    BY DEF Ks
  <2> QED BY <2>1 DEF Products, Row, SecretOf, NoiseVec
<1>2. \A i \in Ks : Reference!Sum(f(i)) = Total(Products(Row(G(r).first, i), SecretOf(r)))
  <2> HIDE DEF f
  <2> QED BY <1>1, VectorTypes, VectorProducts, TotalInt DEF SecretOf
<1>3. \A i \in Ks : /\ i \in Int /\ Noise(G(r).second, KyberK + i) = NoiseVec(G(r).second, KyberK)[i]
                    /\ Noise(G(r).second, i) = SecretOf(r)[i]
  BY DEF NoiseVec, SecretOf, Ks
<1>4. Reference!KeyPair(r) =
        [pk |-> [t |-> [i \in Ks |-> (Reference!Sum(f(i)) + Noise(G(r).second, KyberK + i)) % 3329],
                 seed |-> G(r).first],
         s |-> [i \in Ks |-> Noise(G(r).second, i) % 3329]]
  BY ONLY TRUE DEF Reference!KeyPair, Reference!A, Reference!Ks, Reference!Q, Reference!G, Ks, G, f
<1> HIDE DEF f
<1>5. \A i \in Ks : (Reference!Sum(f(i)) + Noise(G(r).second, KyberK + i)) % 3329 = TOf(r, i) % 3329
  BY <1>2, <1>3 DEF TOf
<1> QED BY <1>3, <1>4, <1>5

\* The ciphertext of the reference, with the sums of this module.
LEMMA ReferenceEncrypt ==
  ASSUME Samplers, NEW key, key.t \in [Ks -> Int], NEW m \in Int, NEW coins
  PROVE  Reference!Encrypt(key, m, coins) =
           [u |-> [i \in Ks |-> Reference!Rounded(UOf(key.seed, coins, i), 11)],
            v |-> Reference!Rounded(VOf(key.t, coins, m), 5)]
<1> DEFINE f(i) == [j \in Ks |-> (Sample(key.seed, i, j) % 3329) * Noise(coins, j)]
           g == [j \in Ks |-> key.t[j] * Noise(coins, j)]
<1>1. g = Products(key.t, NoiseVec(coins, 0)) /\ \A i \in Ks : f(i) = Products(Col(key.seed, i), NoiseVec(coins, 0))
  <2>1. \A j \in Ks : j \in Int /\ 0 + j = j
    BY DEF Ks
  <2> QED BY <2>1 DEF Products, Col, NoiseVec
<1>2. \A i \in Ks : Reference!Sum(f(i)) = Total(Products(Col(key.seed, i), NoiseVec(coins, 0)))
  <2> HIDE DEF f
  <2> QED BY <1>1, VectorTypes, VectorProducts, TotalInt
<1>3. Reference!Sum(g) = Total(Products(key.t, NoiseVec(coins, 0)))
  <2> HIDE DEF g
  <2> QED BY <1>1, VectorTypes, VectorProducts, TotalInt
<1>4. \A i \in Ks : Noise(coins, KyberK + i) = NoiseVec(coins, KyberK)[i]
  BY DEF NoiseVec
<1>5. (3329 + 1) \div 2 = 1665 /\ 2 * KyberK = KyberK + KyberK
  BY KFacts
<1>6. Reference!Encrypt(key, m, coins) =
        [u |-> [i \in Ks |-> Reference!Rounded(Reference!Sum(f(i)) + Noise(coins, KyberK + i), 11)],
         v |-> Reference!Rounded(
                 Reference!Sum(g) + Noise(coins, 2 * KyberK) + m * ((3329 + 1) \div 2), 5)]
  BY ONLY TRUE DEF Reference!Encrypt, Reference!A, Reference!Ks, Reference!Q, Ks, f, g
<1> HIDE DEF f, g
<1>7. \A i \in Ks : Reference!Sum(f(i)) + Noise(coins, KyberK + i) = UOf(key.seed, coins, i)
  BY <1>2, <1>4 DEF UOf
<1>8. Reference!Sum(g) + Noise(coins, 2 * KyberK) + m * ((3329 + 1) \div 2)
        = VOf(key.t, coins, m)
  BY <1>3, <1>5 DEF VOf
<1> QED BY <1>6, <1>7, <1>8

(***************************************************************************)
(* indcpa_keypair and indcpa_enc give what the reference gives.            *)
(***************************************************************************)
\* Products of congruent vectors.
LEMMA ProductsCong ==
  ASSUME NEW v, NEW w, Firsts(v), Seconds(w), NEW x \in [Ks -> Int], NEW y \in [Ks -> Int],
         \A i \in Ks : Cong(v[i], x[i]) /\ Cong(w[i], y[i])
  PROVE  Cong(Total(Products(v, w)), Total(Products(x, y)))
<1>1. Products(v, w) \in [Ks -> Int] /\ Products(x, y) \in [Ks -> Int]
  BY ProductsType, VectorProducts
<1>2. ASSUME NEW i \in Ks
      PROVE  Cong(Products(v, w)[i], Products(x, y)[i])
  <2>1. /\ v[i] \in Int /\ w[i] \in Int /\ x[i] \in Int /\ y[i] \in Int
        /\ Cong(v[i], x[i]) /\ Cong(w[i], y[i])
    BY SixteenBits DEF Firsts, Seconds, Second
  <2> DEFINE a == v[i]
             b == w[i]
             c == x[i]
             d == y[i]
  <2>2. Products(v, w)[i] = a * b /\ Products(x, y)[i] = c * d
    BY DEF Products
  <2>3. /\ a \in Int /\ b \in Int /\ c \in Int /\ d \in Int /\ Cong(a, c) /\ Cong(b, d)
    BY <2>1
  <2> HIDE DEF a, b, c, d
  <2>4. Cong(a * b, a * d) /\ Cong(a * d, c * d)
    BY ONLY <2>3, CongMul
  <2>5. a * b \in Int /\ a * d \in Int /\ c * d \in Int
    BY ONLY <2>3
  <2>6. Cong(a * b, c * d)
    BY ONLY <2>4, <2>5, CongTrans
  <2> QED BY <2>2, <2>6
<1> QED BY ONLY <1>1, <1>2, TotalCong

\* The samplers give factors for fqmul: the matrix the first ones, the
\* transformed noise the second ones.
LEMMA Factors ==
  ASSUME Samplers
  PROVE  /\ \A seed, tr : \A i \in Ks : Firsts(Matrix(seed, tr)[i])
         /\ \A seed : \A i, j \in Ks :
              /\ Cong(Matrix(seed, FALSE)[i][j], Row(seed, i)[j])
              /\ Cong(Matrix(seed, TRUE)[i][j], Col(seed, i)[j])
         /\ \A seed, n : \A i \in Ks :
              /\ Reduced(NttVec(seed, n)[i]) /\ Second(NttVec(seed, n)[i])
              /\ Cong(NttVec(seed, n)[i], NoiseVec(seed, n)[i])
<1>1. ASSUME NEW seed, NEW tr, NEW i \in Ks PROVE Firsts(Matrix(seed, tr)[i])
  BY SamplersType DEF Firsts, Matrix
<1>2. ASSUME NEW seed, NEW i \in Ks, NEW j \in Ks
      PROVE  /\ Cong(Matrix(seed, FALSE)[i][j], Row(seed, i)[j])
             /\ Cong(Matrix(seed, TRUE)[i][j], Col(seed, i)[j])
  <2> DEFINE a == Sample(seed, j, i) % 3329
             b == Sample(seed, i, j) % 3329
             c == Uniform(Sample(seed, j, i))
             d == Uniform(Sample(seed, i, j))
  <2>1. Matrix(seed, FALSE)[i][j] = c /\ Matrix(seed, TRUE)[i][j] = d
    BY DEF Matrix
  <2>2. Row(seed, i)[j] = a /\ Col(seed, i)[j] = b
    BY DEF Row, Col
  <2>3. Cong(c, a) /\ Cong(d, b)
    BY ONLY Samplers, SamplersType
  <2> HIDE DEF a, b, c, d
  <2> QED BY ONLY <2>1, <2>2, <2>3
<1>3. ASSUME NEW seed, NEW n, NEW i \in Ks
      PROVE  /\ Reduced(NttVec(seed, n)[i]) /\ Second(NttVec(seed, n)[i])
             /\ Cong(NttVec(seed, n)[i], NoiseVec(seed, n)[i])
  <2> DEFINE x == Noise(seed, n + i)
  <2>1. x \in Int16s /\ NoiseVec(seed, n)[i] = x
    BY SamplersType DEF NoiseVec
  <2> HIDE DEF x
  <2>2. Reduced(Ntt(x)) /\ Cong(Ntt(x), x)
    BY <2>1, BarrettCong DEF Ntt
  <2>3. Second(Ntt(x))
    BY ONLY <2>2 DEF Reduced, Second
  <2>4. NttVec(seed, n)[i] = Ntt(x)
    BY DEF NttVec, x
  <2> QED BY ONLY <2>1, <2>2, <2>3, <2>4
<1> QED BY <1>1, <1>2, <1>3

\* A reduced sum is the remainder of what it is congruent to.
LEMMA SumRemainder ==
  ASSUME NEW x, Small(x), NEW e \in Int, -3500 <= e, e <= 3500, NEW t \in Int, Cong(x, t)
  PROVE  /\ Csubq(BarrettReduce(Add(x, e))) = (t + e) % 3329 /\ Canon((t + e) % 3329)
         /\ Add(x, e) = x + e
<1>1. x \in Int /\ -3328 <= x /\ x <= 3328
  BY DEF Small
<1>2. -32768 <= x + e /\ x + e <= 32767
  BY <1>1
<1>3. Add(x, e) = x + e /\ Add(x, e) \in Int16s
  BY ONLY <1>1, <1>2, e \in Int, AddExact
<1>4. PICK s \in Int : s = x + e
  BY <1>1
<1>5. PICK u \in Int : u = t + e
  OBVIOUS
<1>6. Cong(e, e)
  BY CongRefl
<1>7. Cong(s, u)
  BY ONLY <1>1, <1>4, <1>5, <1>6, e \in Int, t \in Int, Cong(x, t), CongAdd
<1>8. Csubq(BarrettReduce(s)) = s % 3329 /\ s % 3329 \in 0 .. 3328
  BY ONLY <1>3, <1>4, Remainder
<1>9. PICK r \in Int : r = s % 3329 /\ 0 <= r /\ r <= 3328
  BY <1>8
<1>10. Cong(r, s)
  BY ONLY <1>9, s \in Int, CongMod
<1>11. Cong(r, u)
  BY ONLY <1>7, <1>10, r \in Int, s \in Int, u \in Int, CongTrans
<1>14. Canon(r)
  BY <1>9 DEF Canon
<1>12. r = u % 3329
  BY ONLY <1>11, <1>14, r \in Int, u \in Int, CongCanonical
<1> QED BY <1>3, <1>4, <1>5, <1>8, <1>9, <1>12, <1>14

\* indcpa_keypair gives the reference's keys, on any column.
LEMMA KeypairLemma ==
  ASSUME Samplers, NEW w, Column(w), NEW r
  PROVE  LET new == IndcpaKeypair(w, r)
         IN  /\ CpaPublic(new) = Reference!KeyPair(r).pk
             /\ CpaSecret(new) = Reference!KeyPair(r).s
<1> DEFINE new == IndcpaKeypair(w, r)
           s == Seed(r)
           cs == NttVec(s.noise, 0)
           es == NttVec(s.noise, KyberK)
           c(i) == cs[i]
           e(i) == es[i]
           M == Matrix(s.public, FALSE)
           b(i) == FromMont(PointwiseAcc(M[i], cs))
           T(i) == Total(Products(Row(G(r).first, i), SecretOf(r)))
<1>1. /\ new.seed = s
      /\ new.cv = [i \in Ks |-> Csubq(c(i))]
      /\ new.bv = [i \in Ks |-> Csubq(BarrettReduce(Add(b(i), e(i))))]
  <2>1. new.seed = s /\ new.cv = Canonicals(cs) /\ new.bv = KeySum(M, cs, es)
    BY KeyColumn
  <2> HIDE DEF new, s, M, cs, es
  <2> QED BY <2>1 DEF Canonicals, KeySum
<1>2. s.public = G(r).first /\ s.noise = G(r).second
  BY DEF Seed
<1>3. \A i \in Ks : /\ Firsts(M[i]) /\ Reduced(c(i)) /\ Second(c(i)) /\ Reduced(e(i))
                    /\ Cong(c(i), SecretOf(r)[i]) /\ Cong(e(i), NoiseVec(G(r).second, KyberK)[i])
  BY <1>2, Factors DEF SecretOf
<1>4. \A i \in Ks : T(i) \in Int
  BY VectorTypes, VectorProducts DEF SecretOf
<1>5. Seconds(cs)
  BY <1>3 DEF Seconds
<1>6. \A i, j \in Ks : Cong(M[i][j], Row(G(r).first, i)[j])
  BY <1>2, Factors
<1>7. \A i \in Ks : Cong(Total(Products(M[i], cs)), T(i))
  <2> TAKE i \in Ks
  <2>1. Firsts(M[i]) /\ \A j \in Ks : Cong(M[i][j], Row(G(r).first, i)[j]) /\ Cong(cs[j], SecretOf(r)[j])
    BY <1>3, <1>6
  <2>2. Row(G(r).first, i) \in [Ks -> Int] /\ SecretOf(r) \in [Ks -> Int]
    BY VectorTypes DEF SecretOf
  <2> HIDE DEF M, cs
  <2> QED BY ONLY <1>5, <2>1, <2>2, ProductsCong
<1> HIDE DEF M, cs, es
<1>8. \A i \in Ks : Small(b(i)) /\ Cong(b(i), T(i))
  <2> TAKE i \in Ks
  <2> DEFINE p == Total(Products(M[i], cs))
  <2>1. Small(b(i)) /\ Cong(b(i), p) /\ p \in Int
    BY <1>3, <1>5, ProductCong, ProductsType, TotalInt
  <2>2. b(i) \in Int /\ T(i) \in Int
    BY <1>4, <2>1 DEF Small
  <2>3. Cong(p, T(i))
    BY <1>7
  <2> HIDE DEF b, p, T
  <2> QED BY ONLY <2>1, <2>2, <2>3, CongTrans
<1> HIDE DEF b, c, T, e
<1>9. \A i \in Ks : Csubq(BarrettReduce(Add(b(i), e(i)))) = TOf(r, i) % 3329
  <2> TAKE i \in Ks
  <2> DEFINE f == NoiseVec(G(r).second, KyberK)[i]
             x == b(i)
             y == e(i)
             t == T(i)
  <2>1. Small(x) /\ Cong(x, t) /\ t \in Int /\ Cong(y, f) /\ Reduced(y) /\ f \in Int
    BY <1>3, <1>4, <1>8, VectorTypes
  <2>2. TOf(r, i) = t + f
    BY DEF TOf, T
  <2> HIDE DEF f, x, y, t
  <2>3. y \in Int /\ -3500 <= y /\ y <= 3500
    BY ONLY <2>1 DEF Reduced
  <2>4. Csubq(BarrettReduce(Add(x, y))) = (t + y) % 3329
    BY ONLY <2>1, <2>3, SumRemainder
  <2>5. (t + y) % 3329 = (t + f) % 3329
    <3>1. PICK u \in Int : u = t + y
      BY <2>1, <2>3
    <3>2. PICK v \in Int : v = t + f
      BY <2>1
    <3>3. Cong(t, t)
      BY <2>1, CongRefl
    <3>4. Cong(u, v)
      BY ONLY <2>1, <2>3, <3>1, <3>2, <3>3, CongAdd
    <3>5. PICK p \in Int : p = u % 3329 /\ Cong(p, u) /\ Canon(p)
      <4>1. u % 3329 \in 0 .. 3328 /\ Cong(u % 3329, u)
        BY CongMod
      <4> DEFINE p == u % 3329
      <4>2. p \in 0 .. 3328 /\ Cong(p, u)
        BY <4>1
      <4> HIDE DEF p
      <4>3. p \in Int /\ Cong(p, u) /\ Canon(p)
        BY ONLY <4>2 DEF Canon
      <4> QED BY <4>3 DEF p
    <3>6. Cong(p, v)
      BY ONLY <3>4, <3>5, p \in Int, u \in Int, v \in Int, CongTrans
    <3>7. p = v % 3329
      BY ONLY <3>5, <3>6, v \in Int, CongCanonical
    <3> QED BY ONLY <3>1, <3>2, <3>5, <3>7
  <2> QED BY <2>2, <2>4, <2>5 DEF x, y
<1>10. \A i \in Ks : Csubq(c(i)) = SecretOf(r)[i] % 3329
  <2> TAKE i \in Ks
  <2>1. SecretOf(r)[i] = Noise(s.noise, 0 + i) /\ Noise(s.noise, 0 + i) \in Int16s
    BY <1>2, SamplersType DEF SecretOf, NoiseVec
  <2> QED BY <2>1, Remainder DEF c, cs, NttVec, Ntt
<1>11. /\ new.bv = [i \in Ks |-> TOf(r, i) % 3329]
       /\ new.cv = [i \in Ks |-> SecretOf(r)[i] % 3329]
  BY <1>1, <1>9, <1>10
<1> HIDE DEF new
<1>12. CpaPublic(new) = Reference!KeyPair(r).pk /\ CpaSecret(new) = Reference!KeyPair(r).s
  BY <1>1, <1>2, <1>11, ReferenceKeys DEF CpaPublic, CpaSecret
<1> QED BY <1>12 DEF new

\* The vectors of a public and of a CPA secret key, and of a ciphertext.
Key(t) == t \in [Ks -> Int] /\ \A i \in Ks : Canon(t[i])

\* Keys are small enough to be factors of a product.
LEMMA KeyFactors ==
  ASSUME NEW t, Key(t)
  PROVE  Firsts(t) /\ Seconds(t)
<1>1. \A i \in Ks : t[i] \in Int /\ 0 <= t[i] /\ t[i] <= 3328
  BY DEF Key, Canon
<1> QED BY <1>1, SixteenBits DEF Firsts, Seconds, Second

\* indcpa_enc gives the reference's ciphertext, on any column.
LEMMA EncLemma ==
  ASSUME Samplers, NEW w, Column(w), NEW m \in {0, 1}, NEW key, Key(key.t), NEW coins
  PROVE  Ciphertext(IndcpaEnc(w, m, key, coins)) = Reference!Encrypt(key, m, coins)
<1> DEFINE new == IndcpaEnc(w, m, key, coins)
           M == Matrix(key.seed, TRUE)
           r == NttVec(coins, 0)
           e == NoiseVec(coins, KyberK)
           e2 == Noise(coins, KyberK + KyberK)
           x(i) == InvNtt(PointwiseAcc(M[i], r))
           y == InvNtt(PointwiseAcc(key.t, r))
           U(i) == Total(Products(Col(key.seed, i), NoiseVec(coins, 0)))
           V == Total(Products(key.t, NoiseVec(coins, 0)))
<1>1. new.dv = EncSum(M, r, e) /\ new.a = Csubq(BarrettReduce(Add(Add(y, e2), FromMsg(m))))
  <2>1. EncDone(new, w, m, key, coins)
    BY ONLY Column(w), EncColumn
  <2> HIDE DEF new
  <2> QED BY ONLY <2>1 DEF EncDone
<1>2. /\ NoiseVec(coins, 0) \in [Ks -> Int] /\ key.t \in [Ks -> Int]
      /\ \A i \in Ks : Col(key.seed, i) \in [Ks -> Int]
      /\ e2 \in Int /\ -2 <= e2 /\ e2 <= 2
  BY VectorTypes, SamplersType DEF Key
<1>3. Seconds(r) /\ \A i \in Ks : Cong(r[i], NoiseVec(coins, 0)[i])
  BY Factors DEF Seconds
<1>4. V \in Int /\ \A i \in Ks : U(i) \in Int
  BY <1>2, VectorProducts
<1>5. ASSUME NEW i \in Ks
      PROVE  Small(x(i)) /\ Cong(x(i), U(i))
  <2>1. Firsts(M[i]) /\ \A j \in Ks : Cong(M[i][j], Col(key.seed, i)[j])
    BY Factors
  <2> DEFINE v == M[i]
             c == Col(key.seed, i)
             n == NoiseVec(coins, 0)
             s == Total(Products(v, r))
             p == InvNtt(PointwiseAcc(v, r))
             u == Total(Products(c, n))
  <2>2. /\ Firsts(v) /\ \A j \in Ks : Cong(v[j], c[j])
        /\ c \in [Ks -> Int] /\ n \in [Ks -> Int] /\ \A j \in Ks : Cong(r[j], n[j])
    BY <1>2, <1>3, <2>1
  <2>3. Small(p) /\ Cong(p, s) /\ s \in Int
    BY <1>3, <2>2, ProductCong, ProductsType, TotalInt
  <2> HIDE DEF v, c, n, r
  <2>4. Cong(s, u)
    BY ONLY <1>3, <2>2, ProductsCong
  <2>5. u \in Int
    BY <2>2, VectorProducts
  <2> HIDE DEF s, u, p
  <2>6. p \in Int
    BY <2>3 DEF Small
  <2>7. Small(p) /\ Cong(p, u)
    BY ONLY <2>3, <2>4, <2>5, <2>6, CongTrans
  <2> QED BY <2>7 DEF p, u, v, c, n
<1>6. Small(y) /\ Cong(y, V)
  <2> DEFINE v == key.t
             n == NoiseVec(coins, 0)
             s == Total(Products(v, r))
             p == InvNtt(PointwiseAcc(v, r))
             u == Total(Products(v, n))
  <2>1. Firsts(v) /\ \A j \in Ks : Cong(v[j], v[j])
    BY <1>2, KeyFactors, CongRefl
  <2>2. v \in [Ks -> Int] /\ n \in [Ks -> Int] /\ \A j \in Ks : Cong(r[j], n[j])
    BY <1>2, <1>3
  <2>3. Small(p) /\ Cong(p, s) /\ s \in Int
    BY <1>3, <2>1, ProductCong, ProductsType, TotalInt
  <2> HIDE DEF v, n, r
  <2>4. Cong(s, u)
    BY ONLY <1>3, <2>1, <2>2, ProductsCong
  <2>5. u \in Int
    BY <2>2, VectorProducts
  <2> HIDE DEF s, u, p
  <2>6. p \in Int
    BY <2>3 DEF Small
  <2>7. Small(p) /\ Cong(p, u)
    BY ONLY <2>3, <2>4, <2>5, <2>6, CongTrans
  <2> QED BY <2>7 DEF p, u, v, n
<1>7. ASSUME NEW i \in Ks
      PROVE  new.dv[i] = UOf(key.seed, coins, i) % 3329
  <2> DEFINE p == x(i)
             u == U(i)
             d == e[i]
  <2>1. new.dv[i] = Csubq(BarrettReduce(Add(p, d)))
    BY <1>1 DEF EncSum
  <2>2. d \in Int /\ -2 <= d /\ d <= 2
    BY SamplersType DEF NoiseVec
  <2>3. UOf(key.seed, coins, i) = u + d
    BY DEF UOf
  <2>4. Small(p) /\ Cong(p, u) /\ u \in Int
    BY <1>4, <1>5
  <2> HIDE DEF p, u, d
  <2>5. -3500 <= d /\ d <= 3500
    BY <2>2
  <2>6. Csubq(BarrettReduce(Add(p, d))) = (u + d) % 3329
    BY ONLY <2>2, <2>4, <2>5, SumRemainder
  <2> QED BY <2>1, <2>3, <2>6
<1>8. new.a = VOf(key.t, coins, m) % 3329
  <2> HIDE DEF y, V, e2, x, U
  <2>1. PICK d \in Int : d = e2 + m * 1665
    BY <1>2
  <2>2. -3500 <= d /\ d <= 3500 /\ FromMsg(m) = m * 1665
    BY <1>2, <2>1 DEF FromMsg, KyberQ
  <2>3. Csubq(BarrettReduce(Add(y, d))) = (V + d) % 3329
    BY ONLY <1>4, <1>6, <2>2, d \in Int, SumRemainder
  <2>4. Add(y, e2) = y + e2
    <3>1. -3500 <= e2 /\ e2 <= 3500
      BY <1>2
    <3> QED BY ONLY <1>2, <1>4, <1>6, <3>1, SumRemainder
  <2>5. y \in Int
    BY <1>6 DEF Small
  <2>6. Add(Add(y, e2), FromMsg(m)) = Add(y, d)
    <3>1. (y + e2) + m * 1665 = y + d
      BY <1>2, <2>1, <2>5
    <3> QED BY ONLY <2>2, <2>4, <3>1 DEF Add
  <2>7. VOf(key.t, coins, m) = V + d
    BY <1>2, <1>4, <2>1 DEF VOf, V, e2
  <2> QED BY ONLY <1>1, <2>3, <2>6, <2>7
<1> HIDE DEF new
<1>9. m \in Int
  OBVIOUS
<1> DEFINE u(i) == UOf(key.seed, coins, i)
           v == VOf(key.t, coins, m)
<1>10. v \in Int /\ \A i \in Ks : u(i) \in Int
  BY ONLY <1>2, <1>9, Samplers, SumsType
<1> HIDE DEF u, v
<1>11. Compress(new.a, 5) = Reference!Rounded(v, 5)
  BY ONLY <1>8, <1>10, CompressIsRounded DEF v
<1>12. \A i \in Ks : Compress(new.dv[i], 11) = Reference!Rounded(u(i), 11)
  <2>1. \A i \in Ks : new.dv[i] = u(i) % 3329
    BY ONLY <1>7 DEF u
  <2> QED BY ONLY <1>10, <2>1, CompressIsRounded
<1>13. Ciphertext(new) = [u |-> [i \in Ks |-> Reference!Rounded(u(i), 11)],
                          v |-> Reference!Rounded(v, 5)]
  BY ONLY <1>11, <1>12 DEF Ciphertext
<1>14. Reference!Encrypt(key, m, coins) = [u |-> [i \in Ks |-> Reference!Rounded(u(i), 11)],
                                           v |-> Reference!Rounded(v, 5)]
  BY ONLY <1>2, <1>9, Samplers, ReferenceEncrypt DEF u, v
<1> QED BY ONLY <1>13, <1>14 DEF new

(***************************************************************************)
(* Decryption: what the noise leaves of a message.                         *)
(***************************************************************************)
\* Congruent numbers have the same remainder.
LEMMA SameRemainder ==
  ASSUME NEW x \in Int, NEW y \in Int, Cong(x, y)
  PROVE  x % 3329 = y % 3329
<1>1. PICK r \in Int : r = x % 3329 /\ 0 <= r /\ r <= 3328
  BY CongMod
<1>2. Cong(r, x)
  BY ONLY <1>1, x \in Int, CongMod
<1>3. Cong(r, y)
  BY ONLY <1>2, r \in Int, x \in Int, y \in Int, Cong(x, y), CongTrans
<1>4. Canon(r)
  BY <1>1 DEF Canon
<1>5. r = y % 3329
  BY ONLY <1>3, <1>4, y \in Int, CongCanonical
<1> QED BY <1>1, <1>5

\* A sum of products, where one of the vectors is a sum.
LEMMA ProductsAdd ==
  ASSUME NEW w \in [Ks -> Int], NEW x \in [Ks -> Int], NEW y \in [Ks -> Int],
         NEW z \in [Ks -> Int], \A i \in Ks : z[i] = x[i] + y[i]
  PROVE  /\ Total(Products(w, z)) = Total(Products(w, x)) + Total(Products(w, y))
         /\ Total(Products(z, w)) = Total(Products(x, w)) + Total(Products(y, w))
<1>1. ASSUME NEW i \in Ks
      PROVE  /\ Products(w, z)[i] = Products(w, x)[i] + Products(w, y)[i]
             /\ Products(z, w)[i] = Products(x, w)[i] + Products(y, w)[i]
  <2> DEFINE a == w[i]
             b == x[i]
             c == y[i]
             d == z[i]
  <2>1. a \in Int /\ b \in Int /\ c \in Int /\ d = b + c
    OBVIOUS
  <2>2. /\ Products(w, z)[i] = a * d /\ Products(w, x)[i] = a * b /\ Products(w, y)[i] = a * c
        /\ Products(z, w)[i] = d * a /\ Products(x, w)[i] = b * a /\ Products(y, w)[i] = c * a
    BY DEF Products
  <2> HIDE DEF a, b, c, d
  <2>3. a * d = a * b + a * c /\ d * a = b * a + c * a
    BY ONLY <2>1
  <2> QED BY ONLY <2>2, <2>3
<1>2. /\ Products(w, z) \in [Ks -> Int] /\ Products(w, x) \in [Ks -> Int]
      /\ Products(w, y) \in [Ks -> Int] /\ Products(z, w) \in [Ks -> Int]
      /\ Products(x, w) \in [Ks -> Int] /\ Products(y, w) \in [Ks -> Int]
  BY VectorProducts
<1>3. Total(Products(w, z)) = Total(Products(w, x)) + Total(Products(w, y))
  BY ONLY <1>1, <1>2, TotalAdd
<1>4. Total(Products(z, w)) = Total(Products(x, w)) + Total(Products(y, w))
  BY ONLY <1>1, <1>2, TotalAdd
<1> QED BY <1>3, <1>4

\* A sum of products of noise is small.
LEMMA NoiseProducts ==
  ASSUME NEW x \in [Ks -> Int], NEW y \in [Ks -> Int],
         \A i \in Ks : -2 <= x[i] /\ x[i] <= 2 /\ -2 <= y[i] /\ y[i] <= 2
  PROVE  -36 <= Total(Products(x, y)) /\ Total(Products(x, y)) <= 36
<1>1. ASSUME NEW i \in Ks
      PROVE  -4 <= Products(x, y)[i] /\ Products(x, y)[i] <= 4
  <2> DEFINE a == x[i]
             b == y[i]
  <2>1. a \in Int /\ b \in Int /\ -2 <= a /\ a <= 2 /\ -2 <= b /\ b <= 2
    OBVIOUS
  <2>2. Products(x, y)[i] = a * b
    BY DEF Products
  <2> HIDE DEF a, b
  <2>3. a \in -2 .. 2
    BY <2>1
  <2>4. -4 <= a * b /\ a * b <= 4
    BY ONLY <2>1, <2>3
  <2> QED BY ONLY <2>2, <2>4
<1>2. Products(x, y) \in [Ks -> Int] /\ Total(Products(x, y)) \in Int
  BY VectorProducts
<1> DEFINE t == Total(Products(x, y))
<1>3. 4 \in Nat
  OBVIOUS
<1>4. -(KyberK * 4) <= t /\ t <= KyberK * 4
  BY ONLY <1>1, <1>2, <1>3, TotalBound
<1>5. t \in Int
  BY <1>2
<1> HIDE DEF t
<1>6. -36 <= t /\ t <= 36
  BY ONLY <1>4, <1>5, KFacts
<1> QED BY <1>6 DEF t

\* A matrix and its transpose, two vectors, and their products with these.
Between(A, B, s, n, p, q) ==
  /\ A \in [Ks -> [Ks -> Int]] /\ B \in [Ks -> [Ks -> Int]]
  /\ s \in [Ks -> Int] /\ n \in [Ks -> Int] /\ p \in [Ks -> Int] /\ q \in [Ks -> Int]
  /\ \A i, j \in Ks : B[j][i] = A[i][j]
  /\ \A i \in Ks : p[i] = Total(Products(A[i], n))
  /\ \A j \in Ks : q[j] = Total(Products(B[j], s))

\* A matrix between two vectors, from the left and from the right.
LEMMA ProductsSwap ==
  ASSUME NEW A, NEW B, NEW s, NEW n, NEW p, NEW q, Between(A, B, s, n, p, q)
  PROVE  Total(Products(s, p)) = Total(Products(q, n))
<1> USE DEF Between
<1> DEFINE m == [i \in Ks |-> [j \in Ks |-> s[i] * (A[i][j] * n[j])]]
           rows == Products(s, p)
           cols == Products(q, n)
           mt == [j \in Ks |-> [i \in Ks |-> m[i][j]]]
           column(j) == mt[j]
<1>1. m \in [Ks -> [Ks -> Int]] /\ \A i, j \in Ks : m[i][j] = s[i] * (A[i][j] * n[j])
  <2>1. \A i, j \in Ks : s[i] * (A[i][j] * n[j]) \in Int
    <3> TAKE i, j \in Ks
    <3> DEFINE a == s[i]
               b == A[i][j]
               c == n[j]
    <3>1. a \in Int /\ b \in Int /\ c \in Int
      OBVIOUS
    <3> HIDE DEF a, b, c
    <3>2. a * (b * c) \in Int
      BY ONLY <3>1
    <3> QED BY <3>2 DEF a, b, c
  <2> QED BY <2>1
<1>2. rows \in [Ks -> Int] /\ cols \in [Ks -> Int]
  BY VectorProducts
<1>3. \A i \in Ks : rows[i] = s[i] * p[i] /\ cols[i] = q[i] * n[i]
  BY DEF Products
<1> HIDE DEF m, rows, cols
<1>4. /\ mt \in [Ks -> [Ks -> Int]] /\ \A i, j \in Ks : mt[j][i] = m[i][j]
      /\ \A j \in Ks : column(j) \in [Ks -> Int]
  BY <1>1
<1> HIDE DEF mt
<1>5. \A i \in Ks : rows[i] = Total(m[i])
  <2> TAKE i \in Ks
  <2> DEFINE f == Products(A[i], n)
             h == m[i]
             c == s[i]
  <2>1. f \in [Ks -> Int] /\ h \in [Ks -> Int] /\ c \in Int
    BY <1>1, VectorProducts
  <2>2. \A j \in Ks : h[j] = c * f[j]
    BY <1>1 DEF Products
  <2>3. rows[i] = c * Total(f)
    BY <1>3
  <2> HIDE DEF f, h, c
  <2>4. Total(h) = c * Total(f)
    BY ONLY <2>1, <2>2, TotalScale
  <2> QED BY <2>3, <2>4 DEF h
<1>6. \A j \in Ks : cols[j] = Total(column(j))
  <2> TAKE j \in Ks
  <2> DEFINE f == Products(B[j], s)
             h == column(j)
             c == n[j]
  <2>1. f \in [Ks -> Int] /\ h \in [Ks -> Int] /\ c \in Int
    BY <1>4, VectorProducts
  <2>2. \A i \in Ks : h[i] = c * f[i]
    <3> TAKE i \in Ks
    <3> DEFINE x == s[i]
               y == A[i][j]
    <3>1. x \in Int /\ y \in Int /\ B[j][i] = y
      OBVIOUS
    <3>2. h[i] = x * (y * c) /\ f[i] = B[j][i] * x
      BY <1>1, <1>4 DEF Products
    <3> HIDE DEF x, y, h, f, c
    <3>3. x * (y * c) = c * (y * x)
      BY ONLY <2>1, <3>1
    <3> QED BY ONLY <3>1, <3>2, <3>3
  <2>3. cols[j] = Total(f) * c /\ Total(f) \in Int
    BY <1>3, <2>1, TotalInt
  <2> HIDE DEF f, h, c
  <2>4. Total(h) = c * Total(f)
    BY ONLY <2>1, <2>2, TotalScale
  <2> DEFINE t == Total(f)
  <2>5. t * c = c * t
    <3>1. t \in Int
      BY <2>3
    <3> HIDE DEF t
    <3> QED BY ONLY <2>1, <3>1
  <2> QED BY <2>3, <2>4, <2>5 DEF h
<1> HIDE DEF column
<1>8. /\ \A i \in Ks : rows[i] = Total(m[i])
      /\ \A j \in Ks : cols[j] = Total(mt[j])
  BY <1>5, <1>6 DEF column
<1>9. /\ m \in [Ks -> [Ks -> Int]] /\ mt \in [Ks -> [Ks -> Int]]
      /\ \A i, j \in Ks : mt[j][i] = m[i][j]
  BY <1>1, <1>4
<1>10. Sums(m, mt, rows, cols)
  BY ONLY <1>2, <1>8, <1>9 DEF Sums
<1>7. Total(rows) = Total(cols)
  BY ONLY <1>10, TotalSwap
<1> QED BY <1>7 DEF rows, cols

\* What decompression gives back of a rounded number.
LEMMA BackU ==
  ASSUME NEW x \in Int
  PROVE  LET y == Decompress(Reference!Rounded(x, 11), 11)
         IN  /\ y \in Int16s /\ Reduced(Ntt(y))
             /\ \E e \in Int : -2 <= e /\ e <= 2 /\ Cong(Ntt(y), x + e)
<1> DEFINE z == Reference!Rounded(x, 11)
           y == Decompress(z, 11)
           t == Ntt(y)
<1>1. PICK r \in Int : r = x % 3329 /\ 0 <= r /\ r <= 3328
  BY CongMod
<1>2. Canon(r) /\ Cong(r, x)
  BY ONLY <1>1, x \in Int, CongMod DEF Canon
<1>3. z = Compress(r, 11)
  BY ONLY <1>1, x \in Int, CompressIsRounded
<1>5. z \in Int /\ 0 <= z /\ z <= 2047
  BY ONLY x \in Int, RoundedRange
<1> HIDE DEF z
<1>6. Canon(y)
  BY ONLY <1>5, DecompressRange
<1>7. PICK e \in Int : -1 <= e /\ e <= 1 /\ Cong(y, r + e)
  BY ONLY <1>2, <1>3, ComponentError
<1> HIDE DEF y
<1>8. y \in Int /\ y \in Int16s
  BY <1>6, SixteenBits DEF Canon
<1>9. Reduced(t) /\ Cong(t, y)
  BY <1>8, BarrettCong DEF Ntt
<1> HIDE DEF t
<1>10. t \in Int
  BY ONLY <1>9 DEF Reduced
<1>11. PICK a \in Int : a = r + e
  OBVIOUS
<1>12. PICK b \in Int : b = x + e
  OBVIOUS
<1>13. Cong(e, e)
  BY CongRefl
<1>14. Cong(a, b)
  BY ONLY <1>2, <1>11, <1>12, <1>13, r \in Int, x \in Int, e \in Int, CongAdd
<1>15. Cong(y, a)
  BY ONLY <1>7, <1>11
<1>16. Cong(y, b)
  BY ONLY <1>8, <1>14, <1>15, a \in Int, b \in Int, CongTrans
<1>17. Cong(t, b)
  BY ONLY <1>8, <1>9, <1>10, <1>16, b \in Int, CongTrans
<1>18. -2 <= e /\ e <= 2
  BY <1>7
<1>19. \E d \in Int : -2 <= d /\ d <= 2 /\ Cong(t, x + d)
  BY ONLY <1>12, <1>17, <1>18, e \in Int
<1> QED BY ONLY <1>8, <1>9, <1>19 DEF t, y, z

\* The same for the five bits of v.
LEMMA BackV ==
  ASSUME NEW x \in Int
  PROVE  LET y == Decompress(Reference!Rounded(x, 5), 5)
         IN  Canon(y) /\ \E e \in Int : -52 <= e /\ e <= 52 /\ Cong(y, x + e)
<1> DEFINE z == Reference!Rounded(x, 5)
           y == Decompress(z, 5)
<1>1. PICK r \in Int : r = x % 3329 /\ 0 <= r /\ r <= 3328
  BY CongMod
<1>2. Canon(r) /\ Cong(r, x)
  BY ONLY <1>1, x \in Int, CongMod DEF Canon
<1>3. z = Compress(r, 5)
  BY ONLY <1>1, x \in Int, CompressIsRounded
<1>5. z \in Int /\ 0 <= z /\ z <= 31
  BY ONLY x \in Int, RoundedRange
<1> HIDE DEF z
<1>6. Canon(y)
  BY ONLY <1>5, DecompressRange
<1>7. PICK e \in Int : -52 <= e /\ e <= 52 /\ Cong(y, r + e)
  BY ONLY <1>2, <1>3, MessageError
<1> HIDE DEF y
<1>8. y \in Int
  BY ONLY <1>6 DEF Canon
<1>11. PICK a \in Int : a = r + e
  OBVIOUS
<1>12. PICK b \in Int : b = x + e
  OBVIOUS
<1>13. Cong(e, e)
  BY CongRefl
<1>14. Cong(a, b)
  BY ONLY <1>2, <1>11, <1>12, <1>13, r \in Int, x \in Int, e \in Int, CongAdd
<1>15. Cong(y, a)
  BY ONLY <1>7, <1>11
<1>16. Cong(y, b)
  BY ONLY <1>8, <1>14, <1>15, a \in Int, b \in Int, CongTrans
<1>19. \E d \in Int : -52 <= d /\ d <= 52 /\ Cong(y, x + d)
  BY ONLY <1>7, <1>12, <1>16, e \in Int
<1> QED BY ONLY <1>6, <1>19 DEF y, z

\* The message that decryption finds, once the noise around it is known small.
LEMMA MessageFound ==
  ASSUME NEW v, Canon(v), NEW p, Small(p), NEW m \in {0, 1}, NEW e \in Int, -832 <= e, e <= 831,
         Cong(v - p, m * 1665 + e)
  PROVE  ToMsg(Csubq(BarrettReduce(Int16(v - p)))) = m
<1>1. v \in Int /\ p \in Int /\ -32768 <= v - p /\ v - p <= 32767
  BY DEF Canon, Small
<1>2. PICK d \in Int : d = v - p
  BY <1>1
<1>3. d \in Int16s
  BY ONLY <1>1, <1>2, SixteenBits
<1>4. Int16(d) = d
  BY ONLY <1>3, d \in Int, Int16Range
<1>5. PICK g \in Int : g = m * 1665 + e
  OBVIOUS
<1>6. FromMsg(m) + e = g /\ -32768 <= g /\ g <= 32767
  BY <1>5 DEF FromMsg, KyberQ
<1>7. g \in Int16s
  BY ONLY <1>6, g \in Int, SixteenBits
<1>8. Cong(d, g)
  BY ONLY <1>2, <1>5, Cong(v - p, m * 1665 + e)
<1>9. d % 3329 = g % 3329
  BY ONLY <1>8, d \in Int, g \in Int, SameRemainder
<1>10. Csubq(BarrettReduce(d)) = d % 3329 /\ Csubq(BarrettReduce(g)) = g % 3329
  BY ONLY <1>3, <1>7, Remainder
<1>11. PICK x \in Int : x = g % 3329
  OBVIOUS
<1>12. Csubq(BarrettReduce(d)) = x /\ Csubq(BarrettReduce(g)) = x
  BY ONLY <1>9, <1>10, <1>11
<1>13. ToMsg(Csubq(BarrettReduce(FromMsg(m) + e))) = m
  BY ONLY m \in {0, 1}, e \in Int, -832 <= e, e <= 831, MessageSurvives
<1>14. ToMsg(x) = m
  BY ONLY <1>6, <1>12, <1>13
<1> QED BY ONLY <1>2, <1>4, <1>12, <1>14

\* indcpa_dec finds the message that the reference encrypts for the key, on any
\* column: the noise that is left is far below a quarter of q.
THEOREM DecryptionCorrect ==
  ASSUME Samplers, NEW w, Column(w), NEW r, NEW m \in {0, 1}, NEW coins
  PROVE  LET k == Reference!KeyPair(r)
             c == Reference!Encrypt(k.pk, m, coins)
         IN  Decrypted(IndcpaDec(w, c, k.s)) = m
<1> DEFINE k == Reference!KeyPair(r)
           c == Reference!Encrypt(k.pk, m, coins)
           seed == G(r).first
           S == SecretOf(r)
           E == NoiseVec(G(r).second, KyberK)
           N == NoiseVec(coins, 0)
           E1 == NoiseVec(coins, KyberK)
           e2 == Noise(coins, KyberK + KyberK)
           A == [i \in Ks |-> Col(seed, i)]
           B == [j \in Ks |-> Row(seed, j)]
           P == [i \in Ks |-> Total(Products(A[i], N))]
           Q == [j \in Ks |-> Total(Products(B[j], S))]
           T == [j \in Ks |-> TOf(r, j)]
           U == [i \in Ks |-> UOf(seed, coins, i)]
           t == [i \in Ks |-> TOf(r, i) % 3329]
           s == [i \in Ks |-> S[i] % 3329]
           V == VOf(t, coins, m)
           Off(i, e) == -2 <= e /\ e <= 2 /\ Cong(Ntt(Decompress(c.u[i], 11)), U[i] + e)
           D == [i \in Ks |-> CHOOSE e \in Int : Off(i, e)]
           X == [i \in Ks |-> U[i] + D[i]]
           u == Unpacked(c.u)
           v == Decompress(c.v, 5)
           p == InvNtt(PointwiseAcc(s, u))
<1>1. /\ S \in [Ks -> Int] /\ E \in [Ks -> Int] /\ N \in [Ks -> Int] /\ E1 \in [Ks -> Int]
      /\ e2 \in Int /\ -2 <= e2 /\ e2 <= 2 /\ m \in Int
      /\ \A i \in Ks : /\ -2 <= S[i] /\ S[i] <= 2 /\ -2 <= E[i] /\ E[i] <= 2
                       /\ -2 <= N[i] /\ N[i] <= 2 /\ -2 <= E1[i] /\ E1[i] <= 2
  BY VectorTypes, SamplersType DEF SecretOf, NoiseVec
<1>2. A \in [Ks -> [Ks -> Int]] /\ B \in [Ks -> [Ks -> Int]] /\ \A i, j \in Ks : B[j][i] = A[i][j]
  <2>1. A \in [Ks -> [Ks -> Int]] /\ B \in [Ks -> [Ks -> Int]]
    BY VectorTypes
  <2>2. \A i, j \in Ks : Row(seed, j)[i] = Col(seed, i)[j]
    BY DEF Row, Col
  <2> QED BY <2>1, <2>2
<1>3. T \in [Ks -> Int] /\ U \in [Ks -> Int]
  <2>1. \A i \in Ks : TOf(r, i) \in Int /\ UOf(seed, coins, i) \in Int
    BY SumsType
  <2> QED BY ONLY <2>1
<1>4. \A i \in Ks : T[i] = Q[i] + E[i] /\ U[i] = P[i] + E1[i]
  BY DEF TOf, UOf
<1>5. /\ t \in [Ks -> Int] /\ \A i \in Ks : Canon(t[i]) /\ Cong(t[i], T[i])
      /\ s \in [Ks -> Int] /\ \A i \in Ks : Canon(s[i]) /\ Cong(s[i], S[i])
  <2>1. \A x \in Int : x % 3329 \in Int /\ Canon(x % 3329) /\ Cong(x % 3329, x)
    <3> TAKE x \in Int
    <3>1. PICK y \in Int : y = x % 3329 /\ 0 <= y /\ y <= 3328
      BY CongMod
    <3>2. Canon(y) /\ Cong(y, x)
      BY ONLY <3>1, x \in Int, CongMod DEF Canon
    <3> QED BY ONLY <3>1, <3>2, y \in Int
  <2>2. \A i \in Ks : TOf(r, i) \in Int /\ T[i] = TOf(r, i)
    BY SumsType
  <2> HIDE DEF S, T
  <2>3. \A i \in Ks : S[i] \in Int
    BY <1>1
  <2> QED BY ONLY <2>1, <2>2, <2>3
<1>6. k = [pk |-> [t |-> t, seed |-> seed], s |-> s]
  BY ReferenceKeys
<1>7. P \in [Ks -> Int] /\ Q \in [Ks -> Int]
  <2> HIDE DEF A, B, N, S
  <2>1. \A i \in Ks : Total(Products(A[i], N)) \in Int /\ Total(Products(B[i], S)) \in Int
    BY <1>1, <1>2, VectorProducts
  <2> QED BY ONLY <2>1
<1>8. V \in Int /\ V = Total(Products(t, N)) + e2 + m * 1665
  <2> HIDE DEF t
  <2>1. V \in Int
    BY ONLY <1>1, <1>5, Samplers, SumsType
  <2>2. V = Total(Products(t, N)) + e2 + m * 1665
    BY ONLY TRUE DEF VOf, V, N, e2
  <2> QED BY ONLY <2>1, <2>2
<1>9. c = [u |-> [i \in Ks |-> Reference!Rounded(U[i], 11)], v |-> Reference!Rounded(V, 5)]
  <2>1. k.pk.t = t /\ k.pk.seed = seed
    BY <1>6
  <2>2. \A i \in Ks : U[i] = UOf(seed, coins, i)
    OBVIOUS
  <2>3. c = [u |-> [i \in Ks |-> Reference!Rounded(UOf(seed, coins, i), 11)], v |-> Reference!Rounded(V, 5)]
    BY <1>1, <1>5, <2>1, ReferenceEncrypt
  <2> HIDE DEF U, V
  <2> QED BY ONLY <2>2, <2>3
<1> HIDE DEF k, S, E, N, E1, e2, A, B, T, U, t, s, V, c
<1>10. Total(Products(S, P)) = Total(Products(Q, N))
  <2>1. Between(A, B, S, N, P, Q)
    BY <1>1, <1>2, <1>7 DEF Between
  <2> HIDE DEF P, Q
  <2> QED BY ONLY <2>1, ProductsSwap
<1> HIDE DEF P, Q
<1>11. \A i \in Ks : /\ c.u[i] = Reference!Rounded(U[i], 11)
                     /\ Reduced(Ntt(Decompress(c.u[i], 11))) /\ \E e \in Int : Off(i, e)
  <2> TAKE i \in Ks
  <2>1. U[i] \in Int /\ c.u[i] = Reference!Rounded(U[i], 11)
    BY <1>3, <1>9
  <2> QED BY ONLY <2>1, BackU
<1>12. /\ D \in [Ks -> Int] /\ X \in [Ks -> Int]
       /\ \A i \in Ks : -2 <= D[i] /\ D[i] <= 2 /\ X[i] = U[i] + D[i]
       /\ \A i \in Ks : Cong(u[i], X[i])
  <2>1. \A i \in Ks : (CHOOSE e \in Int : Off(i, e)) \in Int /\ Off(i, CHOOSE e \in Int : Off(i, e))
    <3> HIDE DEF Off
    <3> QED BY ONLY <1>11
  <2>2. \A i \in Ks : D[i] \in Int /\ Off(i, D[i])
    <3> HIDE DEF Off
    <3> QED BY ONLY <2>1
  <2>3. D \in [Ks -> Int]
    <3> HIDE DEF Off
    <3> QED BY ONLY <2>1
  <2> HIDE DEF D
  <2>4. X \in [Ks -> Int] /\ \A i \in Ks : X[i] = U[i] + D[i]
    BY <1>3, <2>2
  <2>5. \A i \in Ks : u[i] = Ntt(Decompress(c.u[i], 11))
    BY DEF Unpacked
  <2> QED BY ONLY <2>2, <2>3, <2>4, <2>5
<1>13. Seconds(u)
  <2>1. \A i \in Ks : u[i] = Ntt(Decompress(c.u[i], 11))
    BY DEF Unpacked
  <2> HIDE DEF u
  <2> QED BY ONLY <1>11, <2>1 DEF Seconds, Second, Reduced
<1>14. Firsts(s)
  BY ONLY <1>5, KeyFactors DEF Key
<1> HIDE DEF D, X, u
<1>15. Small(p) /\ Cong(p, Total(Products(S, X)))
  <2> DEFINE a == Total(Products(s, u))
             b == Total(Products(S, X))
  <2>1. Small(p) /\ Cong(p, a)
    BY ONLY <1>13, <1>14, ProductCong
  <2>2. Cong(a, b)
    BY ONLY <1>1, <1>5, <1>12, <1>13, <1>14, ProductsCong
  <2>3. a \in Int /\ b \in Int
    BY ONLY <1>1, <1>12, <1>13, <1>14, ProductsType, TotalInt, VectorProducts
  <2> HIDE DEF p, a, b
  <2>4. p \in Int
    BY ONLY <2>1 DEF Small
  <2>5. Cong(p, b)
    BY ONLY <2>1, <2>2, <2>3, <2>4, CongTrans
  <2> QED BY <2>1, <2>5 DEF b
<1>16. Canon(v) /\ \E e \in Int : -52 <= e /\ e <= 52 /\ Cong(v, V + e)
  <2>1. c.v = Reference!Rounded(V, 5)
    BY <1>9
  <2> DEFINE y == Decompress(Reference!Rounded(V, 5), 5)
  <2>2. V \in Int
    BY <1>8
  <2>3. Canon(y) /\ \E e \in Int : -52 <= e /\ e <= 52 /\ Cong(y, V + e)
    BY ONLY <2>2, BackV
  <2>4. v = y
    BY ONLY <2>1
  <2> HIDE DEF v, y
  <2> QED BY ONLY <2>3, <2>4
<1> HIDE DEF p, v
<1>17. PICK e \in Int : -52 <= e /\ e <= 52 /\ Cong(v, V + e)
  BY <1>16
<1> DEFINE SX == Total(Products(S, X))
           SU == Total(Products(S, U))
           SD == Total(Products(S, D))
           SP == Total(Products(S, P))
           SE == Total(Products(S, E1))
           TN == Total(Products(T, N))
           tN == Total(Products(t, N))
           QN == Total(Products(Q, N))
           EN == Total(Products(E, N))
<1>18. /\ SX \in Int /\ SU \in Int /\ SD \in Int /\ SP \in Int /\ SE \in Int
       /\ TN \in Int /\ tN \in Int /\ QN \in Int /\ EN \in Int
  BY <1>1, <1>3, <1>5, <1>7, <1>12, VectorProducts
<1>19. SX = SU + SD
  BY ONLY <1>1, <1>3, <1>12, ProductsAdd
<1>20. SU = SP + SE
  BY ONLY <1>1, <1>3, <1>4, <1>7, ProductsAdd
<1>21. TN = QN + EN
  BY ONLY <1>1, <1>3, <1>4, <1>7, ProductsAdd
<1>22. Cong(tN, TN)
  <2>1. Firsts(t) /\ Seconds(N)
    <3>1. Firsts(t)
      BY ONLY <1>5, KeyFactors DEF Key
    <3>2. Seconds(N)
      BY <1>1 DEF Seconds, Second
    <3> QED BY <3>1, <3>2
  <2>2. \A i \in Ks : Cong(t[i], T[i]) /\ Cong(N[i], N[i])
    BY <1>1, <1>5, CongRefl
  <2> QED BY ONLY <1>1, <1>3, <2>1, <2>2, ProductsCong
<1>23. /\ -36 <= SD /\ SD <= 36 /\ -36 <= SE /\ SE <= 36 /\ -36 <= EN /\ EN <= 36
  <2>1. -36 <= SD /\ SD <= 36
    BY ONLY <1>1, <1>12, NoiseProducts
  <2>2. -36 <= SE /\ SE <= 36
    BY ONLY <1>1, NoiseProducts
  <2>3. -36 <= EN /\ EN <= 36
    BY ONLY <1>1, NoiseProducts
  <2> QED BY ONLY <2>1, <2>2, <2>3
<1>24. SP = QN /\ V = tN + e2 + m * 1665 /\ Cong(p, SX)
  BY <1>8, <1>10, <1>15
<1> HIDE DEF SX, SU, SD, SP, SE, TN, tN, QN, EN
<1> DEFINE err == EN + e2 + e - SE - SD
<1>25. err \in Int /\ -832 <= err /\ err <= 831
  BY ONLY <1>1, <1>17, <1>18, <1>23, e \in Int
<1>26. Cong(v - p, m * 1665 + err)
  <2>1. PICK a \in Int : tN = TN + 3329 * a
    BY ONLY <1>22 DEF Cong
  <2>2. PICK b \in Int : v = V + e + 3329 * b
    BY <1>17 DEF Cong
  <2>3. PICK d \in Int : p = SX + 3329 * d
    BY ONLY <1>24 DEF Cong
  <2>4. PICK g \in Int : g = a + b - d
    OBVIOUS
  <2>5. v \in Int /\ p \in Int
    BY <1>15, <1>16 DEF Canon, Small
  <2>6. v - p = (m * 1665 + err) + 3329 * g
    BY ONLY <1>1, <1>8, <1>18, <1>19, <1>20, <1>21, <1>24, <2>1, <2>2, <2>3, <2>4, <2>5, e \in Int,
            a \in Int, b \in Int, d \in Int
  <2> QED BY ONLY <2>6, g \in Int DEF Cong
<1> HIDE DEF err
<1>27. ToMsg(Csubq(BarrettReduce(Int16(v - p)))) = m
  BY ONLY <1>15, <1>16, <1>25, <1>26, m \in {0, 1}, MessageFound
<1> DEFINE new == IndcpaDec(w, c, k.s)
<1>28. new.b = Csubq(BarrettReduce(Int16(v - p)))
  <2>1. DecDone(new, w, c, s)
    BY ONLY <1>6, Column(w), DecColumn
  <2> HIDE DEF new
  <2> QED BY ONLY <2>1 DEF DecDone, v, p, u
<1> HIDE DEF new
<1>29. Decrypted(new) = m
  BY ONLY <1>27, <1>28 DEF Decrypted
<1> QED BY <1>29 DEF new, c, k

(***************************************************************************)
(* Every number of a column fits 16 bits.                                  *)
(***************************************************************************)
\* Every range of this section is within 16 bits.
LEMMA Fits ==
  \A x : Reduced(x) \/ Canon(x) \/ Small(x) => x \in Int16s /\ x \in Int
BY SixteenBits DEF Reduced, Canon, Small

\* A number that is reduced and corrected is canonical.
LEMMA CanonFits ==
  ASSUME NEW x \in Int16s
  PROVE  Canon(Csubq(BarrettReduce(x))) /\ Csubq(BarrettReduce(x)) \in Int16s
<1> DEFINE y == Csubq(BarrettReduce(x))
<1>1. PICK r \in Int : r = x % 3329 /\ 0 <= r /\ r <= 3328
  BY SixteenBits, CongMod
<1>2. y = r
  BY ONLY <1>1, x \in Int16s, Remainder
<1> HIDE DEF y
<1>3. Canon(y)
  BY ONLY <1>1, <1>2, r \in Int DEF Canon
<1> QED BY <1>3, Fits DEF y

\* What a product leaves in its temporary fits 16 bits.
LEMMA LastFits ==
  ASSUME NEW v, NEW w, Firsts(v), Seconds(w), NEW old \in Int16s
  PROVE  LastTerm(v, w, old) \in Int16s
<1>1. KyberK - 1 \in Ks
  BY KFacts
<1> DEFINE k == KyberK - 1
<1>2. Term(v, w, k) \in Int16s
  BY <1>1, TermCong
<1> HIDE DEF k
<1>3. Term(v, w, KyberK - 1) \in Int16s
  BY <1>2 DEF k
<1> QED BY <1>3 DEF LastTerm

\* What the inverse transform of a product gives.
LEMMA InverseInt ==
  \A v, w : Firsts(v) /\ Seconds(w) => InvNtt(PointwiseAcc(v, w)) \in Int
<1> TAKE v, w
<1> HAVE Firsts(v) /\ Seconds(w)
<1>1. Small(InvNtt(PointwiseAcc(v, w)))
  BY ProductCong
<1> QED BY ONLY <1>1 DEF Small

\* Matrix and noise fit 16 bits.
LEMMA VectorFits ==
  ASSUME Samplers
  PROVE  /\ \A seed, tr : \A i, j \in Ks : Matrix(seed, tr)[i][j] \in Int16s
         /\ \A seed, n : \A i \in Ks : NttVec(seed, n)[i] \in Int16s /\ NoiseVec(seed, n)[i] \in Int16s
         /\ \A seed, n : Seconds(NttVec(seed, n))
<1>1. \A seed, tr : \A i, j \in Ks : Matrix(seed, tr)[i][j] \in Int16s
  BY Factors DEF Firsts
<1>2. \A seed, n : \A i \in Ks : NttVec(seed, n)[i] \in Int16s
  BY Factors, Fits
<1>3. \A seed, n : \A i \in Ks : NoiseVec(seed, n)[i] \in Int16s
  BY SamplersType DEF NoiseVec
<1>4. \A seed, n : Seconds(NttVec(seed, n))
  BY Factors DEF Seconds
<1> QED BY <1>1, <1>2, <1>3, <1>4

\* The keys of the reference are canonical.
LEMMA KeyPairType ==
  ASSUME Samplers, NEW r
  PROVE  Key(Reference!KeyPair(r).pk.t) /\ Key(Reference!KeyPair(r).s)
<1> DEFINE t == [i \in Ks |-> TOf(r, i) % 3329]
           s == [i \in Ks |-> SecretOf(r)[i] % 3329]
<1>1. \A x \in Int : x % 3329 \in Int /\ Canon(x % 3329)
  <2> TAKE x \in Int
  <2>1. PICK y \in Int : y = x % 3329 /\ 0 <= y /\ y <= 3328
    BY CongMod
  <2>2. Canon(y)
    BY <2>1 DEF Canon
  <2> QED BY <2>1, <2>2
<1>2. \A i \in Ks : TOf(r, i) \in Int /\ SecretOf(r)[i] \in Int
  BY SumsType, VectorTypes DEF SecretOf
<1>3. Key(t) /\ Key(s)
  BY ONLY <1>1, <1>2 DEF Key
<1>4. Reference!KeyPair(r).pk.t = t /\ Reference!KeyPair(r).s = s
  BY ReferenceKeys
<1> HIDE DEF t, s
<1> QED BY ONLY <1>3, <1>4

\* What the calls leave in a column are 16-bit numbers again.
LEMMA KeyCells ==
  ASSUME Samplers, NEW w, Column(w), CellOK(w), NEW r
  PROVE  Column(IndcpaKeypair(w, r)) /\ CellOK(IndcpaKeypair(w, r))
<1> DEFINE new == IndcpaKeypair(w, r)
           s == Seed(r)
           c == NttVec(s.noise, 0)
           e == NttVec(s.noise, KyberK)
           M == Matrix(s.public, FALSE)
<1>1. /\ Column(new) /\ new.AV = M /\ new.av = e
      /\ new.a = LastTerm(M[KyberK - 1], c, w.a)
      /\ new.b = w.b /\ new.c = w.c /\ new.d = w.d /\ new.dv = w.dv
  BY ONLY Column(w), KeyColumn
<1>2. new.bv = Reference!KeyPair(r).pk.t /\ new.cv = Reference!KeyPair(r).s
  <2>1. CpaPublic(new) = Reference!KeyPair(r).pk /\ CpaSecret(new) = Reference!KeyPair(r).s
    BY ONLY Samplers, Column(w), KeypairLemma
  <2> HIDE DEF new
  <2> QED BY <2>1 DEF CpaPublic, CpaSecret
<1>3. Key(new.bv) /\ Key(new.cv)
  BY ONLY <1>2, Samplers, KeyPairType
<1> HIDE DEF new
<1>4. \A i \in Ks : new.bv[i] \in Int16s /\ new.cv[i] \in Int16s
  BY ONLY <1>3, Fits DEF Key
<1>5. /\ w.a \in Int16s /\ new.b \in Int16s /\ new.c \in Int16s /\ new.d \in Int16s
      /\ \A i \in Ks : new.dv[i] \in Int16s
  BY <1>1 DEF CellOK
<1>6. new.a \in Int16s
  <2>1. Firsts(M[KyberK - 1]) /\ Seconds(c)
    BY Factors, VectorFits, KFacts
  <2> HIDE DEF M, c
  <2> QED BY ONLY <1>1, <1>5, <2>1, LastFits
<1>7. (\A i \in Ks : new.av[i] \in Int16s) /\ \A i, j \in Ks : new.AV[i][j] \in Int16s
  BY <1>1, VectorFits
<1> QED BY ONLY <1>1, <1>4, <1>5, <1>6, <1>7 DEF CellOK, new

\* indcpa_enc keeps the column within 16 bits.
LEMMA EncCells ==
  ASSUME Samplers, NEW w, Column(w), CellOK(w), NEW m \in {0, 1}, NEW key, Key(key.t), NEW coins
  PROVE  Column(IndcpaEnc(w, m, key, coins)) /\ CellOK(IndcpaEnc(w, m, key, coins))
<1> DEFINE new == IndcpaEnc(w, m, key, coins)
           M == Matrix(key.seed, TRUE)
           r == NttVec(coins, 0)
           e == NoiseVec(coins, KyberK)
           e2 == Noise(coins, KyberK + KyberK)
           y == InvNtt(PointwiseAcc(key.t, r))
           x(i) == InvNtt(PointwiseAcc(M[i], r))
<1>1. EncDone(new, w, m, key, coins)
  BY ONLY Column(w), EncColumn
<1> HIDE DEF new
<1>2. /\ Column(new) /\ new.AV = M /\ new.av = r /\ new.bv = key.t /\ new.cv = e
      /\ new.b = FromMsg(m) /\ new.c = e2 /\ new.d = LastTerm(key.t, r, w.d)
      /\ new.dv = EncSum(M, r, e)
      /\ new.a = Csubq(BarrettReduce(Add(Add(y, e2), FromMsg(m))))
  BY ONLY <1>1 DEF EncDone
<1>3. Firsts(key.t) /\ Seconds(r) /\ \A i \in Ks : Firsts(M[i])
  BY KeyFactors, VectorFits, Factors
<1>4. e2 \in Int /\ e2 \in Int16s /\ \A i \in Ks : e[i] \in Int
  BY SamplersType, VectorTypes
<1>5. FromMsg(m) \in Int /\ FromMsg(m) \in Int16s
  <2>1. PICK b \in Int : b = m * 1665
    OBVIOUS
  <2>2. FromMsg(m) = b
    BY <2>1 DEF FromMsg, KyberQ
  <2>3. b \in Int16s
    BY <2>1, SixteenBits
  <2> QED BY <2>2, <2>3
<1>6. y \in Int /\ \A i \in Ks : x(i) \in Int
  BY ONLY <1>3, InverseInt
<1> HIDE DEF y, x
<1>7. new.a \in Int16s
  <2>1. Add(y, e2) \in Int
    BY <1>4, <1>6, AddType, SixteenBits
  <2>2. Add(Add(y, e2), FromMsg(m)) \in Int16s
    BY <1>5, <2>1, AddType
  <2> QED BY ONLY <1>2, <2>2, CanonFits
<1>8. \A i \in Ks : new.dv[i] \in Int16s
  <2> TAKE i \in Ks
  <2>1. new.dv[i] = Csubq(BarrettReduce(Add(x(i), e[i])))
    BY <1>2 DEF EncSum, x
  <2>2. Add(x(i), e[i]) \in Int16s
    BY <1>4, <1>6, AddType
  <2> QED BY ONLY <2>1, <2>2, CanonFits
<1>9. new.d \in Int16s
  <2>1. w.d \in Int16s
    BY DEF CellOK
  <2> QED BY ONLY <1>2, <1>3, <2>1, LastFits
<1>10. \A i \in Ks : new.bv[i] \in Int16s
  BY ONLY <1>2, Key(key.t), Fits DEF Key
<1>11. /\ \A i \in Ks : new.av[i] \in Int16s /\ new.cv[i] \in Int16s
       /\ \A i, j \in Ks : new.AV[i][j] \in Int16s
  BY <1>2, VectorFits
<1>12. new.b \in Int16s /\ new.c \in Int16s
  BY <1>2, <1>4, <1>5
<1> QED BY ONLY <1>2, <1>7, <1>8, <1>9, <1>10, <1>11, <1>12 DEF CellOK, new

\* Ciphertexts in their bits.
Ciphertexts == [u : [Ks -> 0 .. 2047], v : 0 .. 31]

\* The components of a compressed vector.
LEMMA ElevenBits ==
  ASSUME NEW S, NEW d \in [S -> 0 .. 2047]
  PROVE  \A i \in S : d[i] \in Int /\ 0 <= d[i] /\ d[i] <= 2047
OBVIOUS

\* indcpa_dec keeps the column within 16 bits.
LEMMA DecCells ==
  ASSUME NEW w, Column(w), CellOK(w), NEW c \in Ciphertexts, NEW key, Key(key)
  PROVE  Column(IndcpaDec(w, c, key)) /\ CellOK(IndcpaDec(w, c, key))
<1> DEFINE new == IndcpaDec(w, c, key)
           u == Unpacked(c.u)
           v == Decompress(c.v, 5)
           p == InvNtt(PointwiseAcc(key, u))
<1>1. DecDone(new, w, c, key)
  BY ONLY Column(w), DecColumn
<1> HIDE DEF new
<1>2. /\ Column(new)
      /\ new.AV = w.AV /\ new.av = u /\ new.bv = key /\ new.cv = w.cv /\ new.dv = w.dv
      /\ new.a = v /\ new.d = w.d
      /\ new.b = Csubq(BarrettReduce(Int16(v - p)))
      /\ new.c = LastTerm(key, u, w.c)
  BY ONLY <1>1 DEF DecDone
<1>3. \A i \in Ks : c.u[i] \in Int /\ 0 <= c.u[i] /\ c.u[i] <= 2047
  <2> DEFINE d == c.u
  <2>1. d \in [Ks -> 0 .. 2047]
    BY DEF Ciphertexts
  <2> HIDE DEF d
  <2>2. \A i \in Ks : d[i] \in Int /\ 0 <= d[i] /\ d[i] <= 2047
    BY ONLY <2>1, ElevenBits
  <2> QED BY <2>2 DEF d
<1>4. c.v \in Int /\ 0 <= c.v /\ c.v <= 31
  BY DEF Ciphertexts
<1>5. Canon(v)
  BY ONLY <1>4, DecompressRange
<1>6. \A i \in Ks : Reduced(u[i])
  <2> TAKE i \in Ks
  <2>1. u[i] = Ntt(Decompress(c.u[i], 11))
    BY DEF Unpacked
  <2>2. Canon(Decompress(c.u[i], 11))
    BY ONLY <1>3, DecompressRange
  <2>3. Decompress(c.u[i], 11) \in Int16s
    BY ONLY <2>2, Fits
  <2> QED BY ONLY <2>1, <2>3, BarrettCong DEF Ntt
<1>7. Firsts(key) /\ Seconds(u)
  BY <1>6, KeyFactors DEF Seconds, Second, Reduced
<1> HIDE DEF u
<1>8. p \in Int /\ v \in Int /\ v \in Int16s
  BY ONLY <1>5, <1>7, InverseInt, Fits
<1>9. new.b \in Int16s
  <2> HIDE DEF p, v
  <2>1. v - p \in Int
    BY ONLY <1>8
  <2>2. Int16(v - p) \in Int16s
    BY ONLY <2>1, Int16Range
  <2> QED BY ONLY <1>2, <2>2, CanonFits
<1>10. new.c \in Int16s
  <2>1. w.c \in Int16s
    BY DEF CellOK
  <2> QED BY ONLY <1>2, <1>7, <2>1, LastFits
<1>11. \A i \in Ks : new.bv[i] \in Int16s /\ new.av[i] \in Int16s
  BY ONLY <1>2, <1>6, Key(key), Fits DEF Key
<1>12. new.a \in Int16s
  BY ONLY <1>2, <1>8
<1>13. /\ new.d \in Int16s /\ \A i \in Ks : new.cv[i] \in Int16s /\ new.dv[i] \in Int16s
       /\ \A i, j \in Ks : new.AV[i][j] \in Int16s
  BY <1>2 DEF CellOK
<1> QED BY ONLY <1>2, <1>9, <1>10, <1>11, <1>12, <1>13 DEF CellOK, new

(***************************************************************************)
(* Decapsulation of one item.                                              *)
(***************************************************************************)
\* A ciphertext fits its bits.
LEMMA EncryptType ==
  ASSUME Samplers, NEW key, Key(key.t), NEW m \in {0, 1}, NEW coins
  PROVE  Reference!Encrypt(key, m, coins) \in Ciphertexts
<1> DEFINE u(i) == Reference!Rounded(UOf(key.seed, coins, i), 11)
           v == Reference!Rounded(VOf(key.t, coins, m), 5)
<1>1. m \in Int /\ key.t \in [Ks -> Int]
  BY DEF Key
<1>2. Reference!Encrypt(key, m, coins) = [u |-> [i \in Ks |-> u(i)], v |-> v]
  BY ONLY <1>1, Samplers, ReferenceEncrypt
<1>3. VOf(key.t, coins, m) \in Int /\ \A i \in Ks : UOf(key.seed, coins, i) \in Int
  BY ONLY <1>1, Samplers, SumsType
<1>4. /\ v \in Int /\ 0 <= v /\ v <= 31
      /\ \A i \in Ks : u(i) \in Int /\ 0 <= u(i) /\ u(i) <= 2047
  BY ONLY <1>3, RoundedRange
<1> HIDE DEF u, v
<1>5. v \in 0 .. 31 /\ \A i \in Ks : u(i) \in 0 .. 2047
  BY ONLY <1>4
<1> QED BY ONLY <1>2, <1>5 DEF Ciphertexts

\* What decapsulate_batch does with an item's column, ciphertext and key.
Opened(w, c, key) == IndcpaDec(w, c, key.s)
Bit(w, c, key) == Decrypted(Opened(w, c, key))
Again(w, c, key) ==
  IndcpaEnc(Opened(w, c, key), Bit(w, c, key), key.pk, G(<<Bit(w, c, key), key.hpk>>).second)
SecretFor(w, c, key) ==
  Kdf(IF Different(Ciphertext(Again(w, c, key)), c)
        THEN key.z ELSE G(<<Bit(w, c, key), key.hpk>>).first, c)

\* A secret key that keypair_batch made for item i.
SecretKey(key, r, i) ==
  /\ key.s = Reference!KeyPair(r).s /\ key.pk = Reference!KeyPair(r).pk
  /\ key.hpk = H(key.pk) /\ key.z = Fallback(i)

\* decapsulate_batch encrypts again what it decrypted, and only one message can
\* have made the ciphertext.
LEMMA OpenLemma ==
  ASSUME Samplers, NEW w, Column(w), CellOK(w), NEW c \in Ciphertexts,
         NEW key, NEW r, NEW i, SecretKey(key, r, i)
  PROVE  /\ Bit(w, c, key) \in {0, 1}
         /\ Column(Again(w, c, key)) /\ CellOK(Again(w, c, key))
         /\ Ciphertext(Again(w, c, key)) = Reference!Ciphertext(key.pk, Bit(w, c, key))
         /\ \A m \in {0, 1} : Reference!Ciphertext(key.pk, m) = c => m = Bit(w, c, key)
<1> DEFINE k == Reference!KeyPair(r)
           dec == IndcpaDec(w, c, key.s)
           b == Decrypted(dec)
<1>1. key.s = k.s /\ key.pk = k.pk /\ key.hpk = H(key.pk)
  BY DEF SecretKey
<1>2. Key(k.pk.t) /\ Key(k.s)
  BY KeyPairType
<1> HIDE DEF k
<1>3. Column(dec) /\ CellOK(dec)
  BY ONLY <1>1, <1>2, Column(w), CellOK(w), c \in Ciphertexts, DecCells
<1>4. b \in {0, 1}
  <2>1. dec.b \in Int
    BY <1>3, SixteenBits DEF CellOK
  <2> DEFINE x == dec.b
  <2>2. b = ((x * 2 + 3329 \div 2) \div 3329) % 2
    BY DEF Decrypted, ToMsg, KyberQ
  <2> HIDE DEF b, dec, x
  <2>3. x \in Int
    BY <2>1 DEF x
  <2> QED BY ONLY <2>2, <2>3
<1>5. Bit(w, c, key) = b /\ Opened(w, c, key) = dec
  BY DEF Bit, Opened
<1> HIDE DEF dec, b
<1> DEFINE coins == G(<<b, H(key.pk)>>).second
           enc == IndcpaEnc(dec, b, key.pk, coins)
<1>6. Again(w, c, key) = enc
  BY <1>1, <1>5 DEF Again
<1>7. Key(key.pk.t)
  BY ONLY <1>1, <1>2
<1> HIDE DEF coins
<1>8. Column(enc) /\ CellOK(enc)
  BY ONLY <1>3, <1>4, <1>7, Samplers, EncCells
<1>9. Ciphertext(enc) = Reference!Encrypt(key.pk, b, coins)
  BY ONLY <1>3, <1>4, <1>7, Samplers, EncLemma
<1>10. Reference!Encrypt(key.pk, b, coins) = Reference!Ciphertext(key.pk, b)
  BY ReferenceNames DEF Reference!Ciphertext, coins
<1>11. ASSUME NEW m \in {0, 1}, Reference!Ciphertext(key.pk, m) = c
       PROVE  m = b
  <2> DEFINE d == Reference!G(<<m, Reference!H(key.pk)>>).second
  <2>1. Reference!Encrypt(k.pk, m, d) = c
    BY <1>1, <1>11 DEF Reference!Ciphertext
  <2> HIDE DEF d
  <2>2. Decrypted(IndcpaDec(w, Reference!Encrypt(k.pk, m, d), k.s)) = m
    BY ONLY Samplers, Column(w), m \in {0, 1}, DecryptionCorrect DEF k
  <2> QED BY ONLY <1>1, <2>1, <2>2 DEF dec, b
<1> QED BY ONLY <1>4, <1>5, <1>6, <1>8, <1>9, <1>10, <1>11

\* The secret is the reference's.
LEMMA SecretLemma ==
  ASSUME Samplers, NEW w, Column(w), CellOK(w), NEW c \in Ciphertexts,
         NEW key, NEW r, NEW i, SecretKey(key, r, i)
  PROVE  SecretFor(w, c, key) = Reference!Secret(key, c)
<1> DEFINE b == Bit(w, c, key)
           sources == {m \in {0, 1} : Reference!Ciphertext(key.pk, m) = c}
<1>1. /\ b \in {0, 1}
      /\ Ciphertext(Again(w, c, key)) = Reference!Ciphertext(key.pk, b)
      /\ \A m \in {0, 1} : Reference!Ciphertext(key.pk, m) = c => m = b
  BY OpenLemma
<1>2. key.hpk = H(key.pk)
  BY DEF SecretKey
<1>3. Reference!Secret(key, c) =
        IF sources = {} THEN Kdf(key.z, c)
        ELSE Kdf(G(<<CHOOSE m \in sources : TRUE, H(key.pk)>>).first, c)
  BY ONLY TRUE DEF Reference!Secret, Reference!Kdf, Reference!G, Reference!H, Kdf, G, H, sources
<1>4. SecretFor(w, c, key) =
        Kdf(IF Different(Ciphertext(Again(w, c, key)), c)
              THEN key.z ELSE G(<<b, H(key.pk)>>).first, c)
  BY <1>2 DEF SecretFor
<1> HIDE DEF b
<1>5. CASE Reference!Ciphertext(key.pk, b) = c
  <2>1. sources = {b}
    BY ONLY <1>1, <1>5
  <2>2. (CHOOSE m \in {b} : TRUE) = b
    OBVIOUS
  <2>3. Reference!Secret(key, c) = Kdf(G(<<b, H(key.pk)>>).first, c)
    <3> HIDE DEF sources
    <3>1. sources # {} /\ (CHOOSE m \in sources : TRUE) = b
      BY ONLY <2>1, <2>2
    <3> QED BY ONLY <1>3, <3>1
  <2> QED BY ONLY <1>1, <1>4, <1>5, <2>3 DEF Different
<1>6. CASE Reference!Ciphertext(key.pk, b) # c
  <2>1. sources = {}
    BY ONLY <1>1, <1>6
  <2> HIDE DEF sources
  <2> QED BY ONLY <1>1, <1>3, <1>4, <1>6, <2>1 DEF Different
<1> QED BY <1>5, <1>6

(***************************************************************************)
(* The inductive invariant.                                                *)
(***************************************************************************)
\* The parts of the inductive invariant.
ColumnsOK == \A i \in Items : Column(ws[i]) /\ CellOK(ws[i])
PublicOK == \A i \in Items : pk[i] # None => Key(pk[i].t)
SecretsOK == \A i \in Items : sk[i] # None => \E r \in Rands : SecretKey(sk[i], r, i)
CtOK == DOMAIN ct = Items /\ \A i \in Items : ct[i] # None => ct[i] \in Ciphertexts
SentOK ==
  \A i \in Items : sent[i] # None =>
    /\ sent[i].m \in {0, 1}
    /\ sent[i].ct \in Ciphertexts
    /\ sent[i].ct = Reference!Ciphertext(sent[i].pk, sent[i].m)
    /\ sent[i].ss = Kdf(G(<<sent[i].m, H(sent[i].pk)>>).first, sent[i].ct)
CallOK ==
  /\ DOMAIN call = {"name", "batch", "ret", "count"}
  /\ call.batch \in 0 .. Capacity /\ call.ret \in {0, -1}

KemInv ==
  ColumnsOK /\ PublicOK /\ SecretsOK /\ CtOK /\ SentOK /\ CallOK /\ SecretsMatch

\* A call changes the items of its batch alone.
LEMMA PatchLemma ==
  ASSUME NEW old, NEW n, NEW new
  PROVE  /\ DOMAIN Patch(old, n, new) = Items
         /\ \A i \in Items : Patch(old, n, new)[i] = IF i \in In(n) THEN new[i] ELSE old[i]
BY DEF Patch

\* A batch has at most Capacity items.
LEMMA BatchLemma ==
  ASSUME NEW n \in 1 .. Capacity
  PROVE  /\ n \in 0 .. Capacity /\ \A i \in In(n) : i \in Items
BY SizesAssumption DEF In, Items

\* An item of a successful call, as the calls describe it.
LEMMA KeypairStep ==
  ASSUME KeypairBatch
  PROVE  \E n \in 1 .. Capacity : \E r \in [In(n) -> Rands] :
           /\ \A i \in Items :
                IF i \in In(n)
                  THEN LET new == IndcpaKeypair(ws[i], r[i])
                       IN  /\ ws'[i] = new /\ pk'[i] = CpaPublic(new)
                           /\ sk'[i] = [s |-> CpaSecret(new), pk |-> CpaPublic(new),
                                        hpk |-> H(CpaPublic(new)), z |-> Fallback(i)]
                  ELSE ws'[i] = ws[i] /\ pk'[i] = pk[i] /\ sk'[i] = sk[i]
           /\ Answered("keypair", n, 0) /\ UNCHANGED <<ct, ss, sent>>
<1>0. PICK n \in 1 .. Capacity : \E r \in [In(n) -> Rands] :
        LET done == [i \in In(n) |-> IndcpaKeypair(ws[i], r[i])]
        IN  /\ ws' = Patch(ws, n, done)
            /\ pk' = Patch(pk, n, [i \in In(n) |-> CpaPublic(done[i])])
            /\ sk' = Patch(sk, n, [i \in In(n) |->
                       [s |-> CpaSecret(done[i]), pk |-> CpaPublic(done[i]),
                        hpk |-> H(CpaPublic(done[i])), z |-> Fallback(i)]])
            /\ Answered("keypair", n, 0)
            /\ UNCHANGED <<ct, ss, sent>>
  BY DEF KeypairBatch
<1>1. PICK r \in [In(n) -> Rands] :
        LET done == [i \in In(n) |-> IndcpaKeypair(ws[i], r[i])]
        IN  /\ ws' = Patch(ws, n, done)
            /\ pk' = Patch(pk, n, [i \in In(n) |-> CpaPublic(done[i])])
            /\ sk' = Patch(sk, n, [i \in In(n) |->
                       [s |-> CpaSecret(done[i]), pk |-> CpaPublic(done[i]),
                        hpk |-> H(CpaPublic(done[i])), z |-> Fallback(i)]])
            /\ Answered("keypair", n, 0)
            /\ UNCHANGED <<ct, ss, sent>>
  BY <1>0
<1> DEFINE done == [i \in In(n) |-> IndcpaKeypair(ws[i], r[i])]
           public == [i \in In(n) |-> CpaPublic(done[i])]
           secret == [i \in In(n) |->
                       [s |-> CpaSecret(done[i]), pk |-> CpaPublic(done[i]),
                        hpk |-> H(CpaPublic(done[i])), z |-> Fallback(i)]]
<1>2. /\ ws' = Patch(ws, n, done) /\ pk' = Patch(pk, n, public) /\ sk' = Patch(sk, n, secret)
      /\ Answered("keypair", n, 0) /\ UNCHANGED <<ct, ss, sent>>
  BY <1>1
<1>3. \A i \in In(n) :
        LET new == IndcpaKeypair(ws[i], r[i])
        IN  /\ done[i] = new /\ public[i] = CpaPublic(new)
            /\ secret[i] = [s |-> CpaSecret(new), pk |-> CpaPublic(new),
                            hpk |-> H(CpaPublic(new)), z |-> Fallback(i)]
  OBVIOUS
<1> HIDE DEF done, public, secret
<1>4. \A i \in Items :
        IF i \in In(n)
          THEN ws'[i] = done[i] /\ pk'[i] = public[i] /\ sk'[i] = secret[i]
          ELSE ws'[i] = ws[i] /\ pk'[i] = pk[i] /\ sk'[i] = sk[i]
  BY ONLY <1>2, PatchLemma
<1>5. \A i \in Items :
        IF i \in In(n)
          THEN LET new == IndcpaKeypair(ws[i], r[i])
               IN  /\ ws'[i] = new /\ pk'[i] = CpaPublic(new)
                   /\ sk'[i] = [s |-> CpaSecret(new), pk |-> CpaPublic(new),
                                hpk |-> H(CpaPublic(new)), z |-> Fallback(i)]
          ELSE ws'[i] = ws[i] /\ pk'[i] = pk[i] /\ sk'[i] = sk[i]
  BY ONLY <1>3, <1>4
<1> QED BY ONLY <1>2, <1>5, n \in 1 .. Capacity, r \in [In(n) -> Rands]

\* The same for encapsulate_batch.
LEMMA EncapsulateStep ==
  ASSUME EncapsulateBatch
  PROVE  \E n \in 1 .. Capacity : \E r \in [In(n) -> Rands] :
           /\ \A i \in In(n) : pk[i] # None
           /\ \A i \in Items :
                IF i \in In(n)
                  THEN LET m == Message(r[i])
                           kr == G(<<m, H(pk[i])>>)
                           new == IndcpaEnc(ws[i], m, pk[i], kr.second)
                       IN  /\ ws'[i] = new /\ ct'[i] = Ciphertext(new)
                           /\ sent'[i] = [pk |-> pk[i], m |-> m, ct |-> Ciphertext(new),
                                          ss |-> Kdf(kr.first, Ciphertext(new))]
                  ELSE ws'[i] = ws[i] /\ ct'[i] = ct[i] /\ sent'[i] = sent[i]
           /\ DOMAIN ct' = Items
           /\ Answered("encapsulate", n, 0) /\ UNCHANGED <<pk, sk, ss>>
<1>0. PICK n \in 1 .. Capacity : \E r \in [In(n) -> Rands] :
       /\ \A i \in In(n) : pk[i] # None
       /\ LET m(i) == Message(r[i])
              kr(i) == G(<<m(i), H(pk[i])>>)
              done == [i \in In(n) |-> IndcpaEnc(ws[i], m(i), pk[i], kr(i).second)]
              c == [i \in In(n) |-> Ciphertext(done[i])]
          IN  /\ ws' = Patch(ws, n, done)
              /\ ct' = Patch(ct, n, c)
              /\ sent' = Patch(sent, n, [i \in In(n) |->
                           [pk |-> pk[i], m |-> m(i), ct |-> c[i],
                            ss |-> Kdf(kr(i).first, c[i])]])
              /\ Answered("encapsulate", n, 0)
              /\ UNCHANGED <<pk, sk, ss>>
  BY DEF EncapsulateBatch
<1>1. PICK r \in [In(n) -> Rands] :
       /\ \A i \in In(n) : pk[i] # None
       /\ LET m(i) == Message(r[i])
              kr(i) == G(<<m(i), H(pk[i])>>)
              done == [i \in In(n) |-> IndcpaEnc(ws[i], m(i), pk[i], kr(i).second)]
              c == [i \in In(n) |-> Ciphertext(done[i])]
          IN  /\ ws' = Patch(ws, n, done)
              /\ ct' = Patch(ct, n, c)
              /\ sent' = Patch(sent, n, [i \in In(n) |->
                           [pk |-> pk[i], m |-> m(i), ct |-> c[i],
                            ss |-> Kdf(kr(i).first, c[i])]])
              /\ Answered("encapsulate", n, 0)
              /\ UNCHANGED <<pk, sk, ss>>
  BY <1>0
<1> DEFINE m(i) == Message(r[i])
           kr(i) == G(<<m(i), H(pk[i])>>)
           done == [i \in In(n) |-> IndcpaEnc(ws[i], m(i), pk[i], kr(i).second)]
           c == [i \in In(n) |-> Ciphertext(done[i])]
           gone == [i \in In(n) |->
                      [pk |-> pk[i], m |-> m(i), ct |-> c[i], ss |-> Kdf(kr(i).first, c[i])]]
<1>2. /\ ws' = Patch(ws, n, done) /\ ct' = Patch(ct, n, c) /\ sent' = Patch(sent, n, gone)
      /\ Answered("encapsulate", n, 0) /\ UNCHANGED <<pk, sk, ss>>
  BY <1>1
<1> DEFINE Is(i, x, y, z) ==
             LET new == IndcpaEnc(ws[i], m(i), pk[i], kr(i).second)
             IN  /\ x = new /\ y = Ciphertext(new)
                 /\ z = [pk |-> pk[i], m |-> m(i), ct |-> Ciphertext(new),
                         ss |-> Kdf(kr(i).first, Ciphertext(new))]
<1>3. \A i \in In(n) : Is(i, done[i], c[i], gone[i])
  OBVIOUS
<1> HIDE DEF done, c, gone, Is
<1>4. \A i \in Items :
        IF i \in In(n)
          THEN ws'[i] = done[i] /\ ct'[i] = c[i] /\ sent'[i] = gone[i]
          ELSE ws'[i] = ws[i] /\ ct'[i] = ct[i] /\ sent'[i] = sent[i]
  BY ONLY <1>2, PatchLemma
<1>5. \A i \in Items :
        IF i \in In(n)
          THEN Is(i, ws'[i], ct'[i], sent'[i])
          ELSE ws'[i] = ws[i] /\ ct'[i] = ct[i] /\ sent'[i] = sent[i]
  BY ONLY <1>3, <1>4
<1>6. DOMAIN ct' = Items
  BY ONLY <1>2, PatchLemma
<1> QED BY ONLY <1>1, <1>2, <1>5, <1>6, n \in 1 .. Capacity, r \in [In(n) -> Rands] DEF Is

\* The same for decapsulate_batch.
LEMMA DecapsulateStep ==
  ASSUME DecapsulateBatch
  PROVE  \E n \in 1 .. Capacity :
           /\ \A i \in In(n) : sk[i] # None /\ ct[i] # None
           /\ \A i \in Items :
                IF i \in In(n)
                  THEN /\ ws'[i] = Again(ws[i], ct[i], sk[i])
                       /\ ss'[i] = SecretFor(ws[i], ct[i], sk[i])
                  ELSE ws'[i] = ws[i] /\ ss'[i] = ss[i]
           /\ Answered("decapsulate", n, 0) /\ UNCHANGED <<pk, sk, ct, sent>>
<1>1. PICK n \in 1 .. Capacity :
       /\ \A i \in In(n) : sk[i] # None /\ ct[i] # None
       /\ LET dec == [i \in In(n) |-> IndcpaDec(ws[i], ct[i], sk[i].s)]
              m(i) == Decrypted(dec[i])
              kr == [i \in In(n) |-> G(<<m(i), sk[i].hpk>>)]
              enc == [i \in In(n) |-> IndcpaEnc(dec[i], m(i), sk[i].pk, kr[i].second)]
          IN  /\ ws' = Patch(ws, n, enc)
              /\ ss' = Patch(ss, n, [i \in In(n) |->
                         Kdf(IF Different(Ciphertext(enc[i]), ct[i])
                               THEN sk[i].z ELSE kr[i].first,
                             ct[i])])
              /\ Answered("decapsulate", n, 0)
              /\ UNCHANGED <<pk, sk, ct, sent>>
  BY DEF DecapsulateBatch
<1> DEFINE dec == [i \in In(n) |-> IndcpaDec(ws[i], ct[i], sk[i].s)]
           m(i) == Decrypted(dec[i])
           kr == [i \in In(n) |-> G(<<m(i), sk[i].hpk>>)]
           enc == [i \in In(n) |-> IndcpaEnc(dec[i], m(i), sk[i].pk, kr[i].second)]
           secrets == [i \in In(n) |->
                         Kdf(IF Different(Ciphertext(enc[i]), ct[i])
                               THEN sk[i].z ELSE kr[i].first,
                             ct[i])]
<1>2. /\ ws' = Patch(ws, n, enc) /\ ss' = Patch(ss, n, secrets)
      /\ Answered("decapsulate", n, 0) /\ UNCHANGED <<pk, sk, ct, sent>>
  BY <1>1
<1>3. \A i \in In(n) : /\ enc[i] = Again(ws[i], ct[i], sk[i])
                       /\ secrets[i] = SecretFor(ws[i], ct[i], sk[i])
  <2> TAKE i \in In(n)
  <2>1. dec[i] = Opened(ws[i], ct[i], sk[i])
    BY DEF Opened
  <2> HIDE DEF dec
  <2>2. m(i) = Bit(ws[i], ct[i], sk[i])
    BY <2>1 DEF Bit
  <2> HIDE DEF m
  <2>3. kr[i] = G(<<Bit(ws[i], ct[i], sk[i]), sk[i].hpk>>)
    BY <2>2
  <2> HIDE DEF kr
  <2>4. enc[i] = Again(ws[i], ct[i], sk[i])
    BY <2>1, <2>2, <2>3 DEF Again
  <2> HIDE DEF enc
  <2>5. secrets[i] = SecretFor(ws[i], ct[i], sk[i])
    BY <2>3, <2>4 DEF SecretFor
  <2> QED BY <2>4, <2>5
<1> HIDE DEF enc, secrets
<1>4. \A i \in Items :
        IF i \in In(n)
          THEN ws'[i] = enc[i] /\ ss'[i] = secrets[i]
          ELSE ws'[i] = ws[i] /\ ss'[i] = ss[i]
  BY ONLY <1>2, PatchLemma
<1>5. \A i \in Items :
        IF i \in In(n)
          THEN /\ ws'[i] = Again(ws[i], ct[i], sk[i])
               /\ ss'[i] = SecretFor(ws[i], ct[i], sk[i])
          ELSE ws'[i] = ws[i] /\ ss'[i] = ss[i]
  BY ONLY <1>3, <1>4
<1> QED BY ONLY <1>1, <1>2, <1>5, n \in 1 .. Capacity

\* Unwritten memory holds numbers of 16 bits.
LEMMA CellsOK ==
  ASSUME NEW x \in Fill
  PROVE  Column(Cells(x)) /\ CellOK(Cells(x))
<1>1. x \in Int16s
  BY FillAssumption
<1> QED BY <1>1 DEF Cells, Column, CellOK

\* The invariant holds before the first call.
LEMMA InitInv == Init => KemInv
<1> SUFFICES ASSUME Init PROVE KemInv
  OBVIOUS
<1>1. PICK x \in Fill : ws = [i \in Items |-> Cells(x)]
  BY DEF Init
<1>2. ColumnsOK
  BY <1>1, CellsOK DEF ColumnsOK
<1>3. PublicOK /\ SecretsOK /\ CtOK /\ SentOK
  BY DEF Init, PublicOK, SecretsOK, CtOK, SentOK
<1>4. CallOK
  BY SizesAssumption DEF Init, CallOK
<1>5. SecretsMatch
  BY DEF Init, SecretsMatch
<1> QED BY <1>2, <1>3, <1>4, <1>5 DEF KemInv

\* What a call answers.
LEMMA AnsweredLemma ==
  ASSUME NEW name, NEW n \in 1 .. Capacity, NEW ret \in {0, -1}, Answered(name, n, ret)
  PROVE  CallOK' /\ call'.name = name /\ call'.batch = n /\ call'.ret = ret
<1>1. n \in 0 .. Capacity
  BY BatchLemma
<1> QED BY <1>1 DEF Answered, CallOK

\* Nothing was decapsulated in a step of another name, or in one that failed.
LEMMA NotDecapsulated ==
  ASSUME call'.name # "decapsulate" \/ call'.ret # 0
  PROVE  SecretsMatch'
BY DEF SecretsMatch

\* keypair_batch keeps the invariant: the keys are those of the reference.
LEMMA KeypairInv ==
  ASSUME Samplers, KemInv, KeypairBatch
  PROVE  KemInv'
<1> USE DEF KemInv
<1>1. PICK n \in 1 .. Capacity : \E r \in [In(n) -> Rands] :
           /\ \A i \in Items :
                IF i \in In(n)
                  THEN LET new == IndcpaKeypair(ws[i], r[i])
                       IN  /\ ws'[i] = new /\ pk'[i] = CpaPublic(new)
                           /\ sk'[i] = [s |-> CpaSecret(new), pk |-> CpaPublic(new),
                                        hpk |-> H(CpaPublic(new)), z |-> Fallback(i)]
                  ELSE ws'[i] = ws[i] /\ pk'[i] = pk[i] /\ sk'[i] = sk[i]
           /\ Answered("keypair", n, 0) /\ UNCHANGED <<ct, ss, sent>>
  BY KeypairStep
<1>2. PICK r \in [In(n) -> Rands] :
           /\ \A i \in Items :
                IF i \in In(n)
                  THEN LET new == IndcpaKeypair(ws[i], r[i])
                       IN  /\ ws'[i] = new /\ pk'[i] = CpaPublic(new)
                           /\ sk'[i] = [s |-> CpaSecret(new), pk |-> CpaPublic(new),
                                        hpk |-> H(CpaPublic(new)), z |-> Fallback(i)]
                  ELSE ws'[i] = ws[i] /\ pk'[i] = pk[i] /\ sk'[i] = sk[i]
           /\ Answered("keypair", n, 0) /\ UNCHANGED <<ct, ss, sent>>
  BY <1>1
<1>3. \A i \in Items : i \in In(n) =>
        LET new == IndcpaKeypair(ws[i], r[i])
        IN  /\ Column(new) /\ CellOK(new)
            /\ CpaPublic(new) = Reference!KeyPair(r[i]).pk
            /\ CpaSecret(new) = Reference!KeyPair(r[i]).s
            /\ Key(Reference!KeyPair(r[i]).pk.t)
  <2> TAKE i \in Items
  <2>1. Column(ws[i]) /\ CellOK(ws[i])
    BY DEF ColumnsOK
  <2> QED BY ONLY <2>1, Samplers, KeyCells, KeypairLemma, KeyPairType
<1>4. ColumnsOK'
  <2>1. ASSUME NEW i \in Items PROVE Column(ws'[i]) /\ CellOK(ws'[i])
    BY <1>2, <1>3 DEF ColumnsOK
  <2> QED BY <2>1 DEF ColumnsOK
<1>5. PublicOK'
  <2>1. ASSUME NEW i \in Items, pk'[i] # None PROVE Key(pk'[i].t)
    <3>1. CASE i \in In(n)
      <4>1. pk'[i] = Reference!KeyPair(r[i]).pk
        BY <1>2, <1>3, <3>1
      <4> QED BY ONLY <1>3, <3>1, <4>1, i \in Items
    <3>2. CASE i \notin In(n)
      BY <1>2, <2>1, <3>2 DEF PublicOK
    <3> QED BY <3>1, <3>2
  <2> QED BY <2>1 DEF PublicOK
<1>6. SecretsOK'
  <2>1. ASSUME NEW i \in Items, sk'[i] # None PROVE \E x \in Rands : SecretKey(sk'[i], x, i)
    <3>1. CASE i \in In(n)
      <4> DEFINE new == IndcpaKeypair(ws[i], r[i])
      <4>1. /\ sk'[i] = [s |-> CpaSecret(new), pk |-> CpaPublic(new),
                         hpk |-> H(CpaPublic(new)), z |-> Fallback(i)]
            /\ CpaPublic(new) = Reference!KeyPair(r[i]).pk
            /\ CpaSecret(new) = Reference!KeyPair(r[i]).s
        BY <1>2, <1>3, <3>1
      <4> HIDE DEF new
      <4>2. SecretKey(sk'[i], r[i], i)
        BY ONLY <4>1 DEF SecretKey
      <4>3. r[i] \in Rands
        BY <3>1
      <4> QED BY <4>2, <4>3
    <3>2. CASE i \notin In(n)
      BY <1>2, <2>1, <3>2 DEF SecretsOK
    <3> QED BY <3>1, <3>2
  <2> QED BY <2>1 DEF SecretsOK
<1>7. CtOK' /\ SentOK'
  BY <1>2 DEF CtOK, SentOK
<1>8. CallOK' /\ SecretsMatch'
  BY <1>2, AnsweredLemma, NotDecapsulated
<1> QED BY <1>4, <1>5, <1>6, <1>7, <1>8

\* encapsulate_batch keeps the invariant: the ciphertexts are those of the reference.
LEMMA EncapsulateInv ==
  ASSUME Samplers, KemInv, EncapsulateBatch
  PROVE  KemInv'
<1> USE DEF KemInv
<1> DEFINE Step(n, r) ==
           /\ \A i \in In(n) : pk[i] # None
           /\ \A i \in Items :
                IF i \in In(n)
                  THEN LET m == Message(r[i])
                           kr == G(<<m, H(pk[i])>>)
                           new == IndcpaEnc(ws[i], m, pk[i], kr.second)
                       IN  /\ ws'[i] = new /\ ct'[i] = Ciphertext(new)
                           /\ sent'[i] = [pk |-> pk[i], m |-> m, ct |-> Ciphertext(new),
                                          ss |-> Kdf(kr.first, Ciphertext(new))]
                  ELSE ws'[i] = ws[i] /\ ct'[i] = ct[i] /\ sent'[i] = sent[i]
           /\ DOMAIN ct' = Items
           /\ Answered("encapsulate", n, 0) /\ UNCHANGED <<pk, sk, ss>>
<1>1. PICK n \in 1 .. Capacity : \E r \in [In(n) -> Rands] : Step(n, r)
  BY EncapsulateStep
<1>2. PICK r \in [In(n) -> Rands] : Step(n, r)
  BY <1>1
<1> DEFINE m(i) == Message(r[i])
           coins(i) == G(<<m(i), H(pk[i])>>).second
           new(i) == IndcpaEnc(ws[i], m(i), pk[i], coins(i))
           c(i) == Ciphertext(new(i))
<1>3. \A i \in Items : i \in In(n) =>
        /\ m(i) \in {0, 1} /\ Column(new(i)) /\ CellOK(new(i))
        /\ c(i) = Reference!Ciphertext(pk[i], m(i)) /\ c(i) \in Ciphertexts
  <2> SUFFICES ASSUME NEW i \in Items, i \in In(n)
               PROVE  /\ m(i) \in {0, 1} /\ Column(new(i)) /\ CellOK(new(i))
                      /\ c(i) = Reference!Ciphertext(pk[i], m(i)) /\ c(i) \in Ciphertexts
    OBVIOUS
  <2>1. Column(ws[i]) /\ CellOK(ws[i]) /\ Key(pk[i].t)
    BY <1>2 DEF ColumnsOK, PublicOK
  <2>2. m(i) \in {0, 1}
    <3>1. r[i] \in Rands
      OBVIOUS
    <3> QED BY <3>1, MessageAssumption
  <2>3. Reference!Encrypt(pk[i], m(i), coins(i)) = Reference!Ciphertext(pk[i], m(i))
    BY ReferenceNames DEF Reference!Ciphertext
  <2> HIDE DEF m, coins
  <2>4. Column(new(i)) /\ CellOK(new(i)) /\ c(i) = Reference!Encrypt(pk[i], m(i), coins(i))
    BY ONLY <2>1, <2>2, Samplers, EncCells, EncLemma
  <2>5. Reference!Encrypt(pk[i], m(i), coins(i)) \in Ciphertexts
    BY ONLY <2>1, <2>2, Samplers, EncryptType
  <2> HIDE DEF new, c
  <2> QED BY ONLY <2>2, <2>3, <2>4, <2>5
<1>4. \A i \in Items :
        IF i \in In(n)
          THEN /\ ws'[i] = new(i) /\ ct'[i] = c(i)
               /\ sent'[i] = [pk |-> pk[i], m |-> m(i), ct |-> c(i),
                              ss |-> Kdf(G(<<m(i), H(pk[i])>>).first, c(i))]
          ELSE ws'[i] = ws[i] /\ ct'[i] = ct[i] /\ sent'[i] = sent[i]
  BY <1>2
<1>5. /\ DOMAIN ct' = Items
      /\ Answered("encapsulate", n, 0) /\ UNCHANGED <<pk, sk, ss>>
  BY <1>2
<1> HIDE DEF Step, new, c, m
<1>6. ColumnsOK'
  <2>1. ASSUME NEW i \in Items PROVE Column(ws'[i]) /\ CellOK(ws'[i])
    BY <1>3, <1>4 DEF ColumnsOK
  <2> QED BY <2>1 DEF ColumnsOK
<1>7. PublicOK' /\ SecretsOK'
  BY <1>5 DEF PublicOK, SecretsOK
<1>8. CtOK'
  <2>1. ASSUME NEW i \in Items, ct'[i] # None PROVE ct'[i] \in Ciphertexts
    BY <1>3, <1>4, <2>1 DEF CtOK
  <2> QED BY <1>5, <2>1 DEF CtOK
<1>9. SentOK'
  <2>1. ASSUME NEW i \in Items, sent'[i] # None
        PROVE  /\ sent'[i].m \in {0, 1} /\ sent'[i].ct \in Ciphertexts
               /\ sent'[i].ct = Reference!Ciphertext(sent'[i].pk, sent'[i].m)
               /\ sent'[i].ss = Kdf(G(<<sent'[i].m, H(sent'[i].pk)>>).first, sent'[i].ct)
    <3>1. CASE i \in In(n)
      <4> DEFINE key == Kdf(G(<<m(i), H(pk[i])>>).first, c(i))
                 x == sent'[i]
      <4>1. x = [pk |-> pk[i], m |-> m(i), ct |-> c(i), ss |-> key]
        BY ONLY <1>4, <3>1, i \in Items
      <4> HIDE DEF key, x
      <4>2. x.m = m(i) /\ x.pk = pk[i] /\ x.ct = c(i) /\ x.ss = key
        BY ONLY <4>1
      <4>3. sent'[i].m = m(i) /\ sent'[i].pk = pk[i] /\ sent'[i].ct = c(i)
            /\ sent'[i].ss = Kdf(G(<<m(i), H(pk[i])>>).first, c(i))
        BY ONLY <4>2 DEF x, key
      <4> QED BY ONLY <1>3, <3>1, <4>3, i \in Items
    <3>2. CASE i \notin In(n)
      BY <1>4, <2>1, <3>2 DEF SentOK
    <3> QED BY <3>1, <3>2
  <2> QED BY <2>1 DEF SentOK
<1>10. CallOK' /\ SecretsMatch'
  BY <1>5, AnsweredLemma, NotDecapsulated
<1> QED BY <1>6, <1>7, <1>8, <1>9, <1>10

(***************************************************************************)
(* The secrets agree.                                                      *)
(***************************************************************************)
\* Two applications of a hash function agree exactly on equal arguments.
LEMMA KdfInjective ==
  ASSUME NEW k, NEW c, NEW k2, NEW c2
  PROVE  Kdf(k, c) = Kdf(k2, c2) <=> k = k2 /\ c = c2
BY DEF Kdf, H

\* The first half of SHA3-512.
LEMMA GInjective ==
  ASSUME NEW x, NEW y
  PROVE  G(x).first = G(y).first <=> x = y
BY DEF G

\* The random number of a bad ciphertext is no half of SHA3-512.
LEMMA FallbackIsNone ==
  ASSUME NEW i, NEW x
  PROVE  Fallback(i) # G(x).first
BY DEF Fallback, G

\* An item of a batch that can be decapsulated, and one that was encapsulated.
Ready(w, c, key) ==
  Column(w) /\ CellOK(w) /\ c \in Ciphertexts /\ \E r, i : SecretKey(key, r, i)
Sender(s) ==
  /\ s.m \in {0, 1} /\ s.ct = Reference!Ciphertext(s.pk, s.m)
  /\ s.ss = Kdf(G(<<s.m, H(s.pk)>>).first, s.ct)

\* For one item: the secrets agree exactly if the ciphertext and the key do.
LEMMA MatchLemma ==
  ASSUME Samplers, NEW w, NEW c, NEW key, Ready(w, c, key), NEW s, Sender(s)
  PROVE  SecretFor(w, c, key) = s.ss <=> c = s.ct /\ key.pk = s.pk
<1> DEFINE b == Bit(w, c, key)
           m == s.m
           pub == s.pk
           sec == s.ss
           d == s.ct
           again == Reference!Ciphertext(key.pk, b)
           first == IF again # c THEN key.z ELSE G(<<b, H(key.pk)>>).first
<1>0. PICK r, i : SecretKey(key, r, i)
  BY DEF Ready
<1>1. /\ Ciphertext(Again(w, c, key)) = again
      /\ \A x \in {0, 1} : Reference!Ciphertext(key.pk, x) = c => x = b
  BY <1>0, OpenLemma DEF Ready
<1>8. m \in {0, 1} /\ sec = Kdf(G(<<m, H(pub)>>).first, d) /\ d = Reference!Ciphertext(pub, m)
  BY DEF Sender
<1> HIDE DEF m, pub, sec, d
<1>2. key.hpk = H(key.pk) /\ key.z = Fallback(i)
  BY <1>0 DEF SecretKey
<1>3. SecretFor(w, c, key) = Kdf(first, c)
  BY <1>1, <1>2 DEF SecretFor, Different
<1>4. SecretFor(w, c, key) = sec <=> first = G(<<m, H(pub)>>).first /\ c = d
  <2> DEFINE x == G(<<m, H(pub)>>).first
  <2>1. sec = Kdf(x, d)
    BY <1>8
  <2> HIDE DEF first, x
  <2>2. SecretFor(w, c, key) = sec <=> first = x /\ c = d
    BY ONLY <1>3, <2>1, KdfInjective
  <2> QED BY ONLY <2>2 DEF x
<1>5. ASSUME first = G(<<m, H(pub)>>).first, c = d
      PROVE  key.pk = pub
  <2>1. again = c
    <3>1. CASE again # c
      <4>1. Fallback(i) = G(<<m, H(pub)>>).first
        BY ONLY <1>2, <1>5, <3>1
      <4> QED BY ONLY <4>1, FallbackIsNone
    <3> QED BY ONLY <3>1
  <2>2. G(<<b, H(key.pk)>>).first = G(<<m, H(pub)>>).first
    BY ONLY <1>5, <2>1
  <2>3. <<b, H(key.pk)>> = <<m, H(pub)>>
    BY ONLY <2>2, GInjective
  <2>4. H(key.pk) = H(pub)
    BY ONLY <2>3
  <2> QED BY ONLY <2>4 DEF H
<1>6. ASSUME c = d, key.pk = pub
      PROVE  first = G(<<m, H(pub)>>).first
  <2>1. m = b
    BY ONLY <1>1, <1>6, <1>8
  <2>2. again = c
    BY ONLY <1>6, <1>8, <2>1
  <2> QED BY ONLY <1>6, <2>1, <2>2
<1> HIDE DEF first
<1>7. SecretFor(w, c, key) = sec <=> c = d /\ key.pk = pub
  BY ONLY <1>4, <1>5, <1>6
<1> QED BY ONLY <1>7 DEF d, pub, sec

\* decapsulate_batch keeps the invariant: its secrets are those of the encapsulation
\* exactly for its ciphertexts and keys.
LEMMA DecapsulateInv ==
  ASSUME Samplers, KemInv, DecapsulateBatch
  PROVE  KemInv'
<1> USE DEF KemInv
<1>1. PICK n \in 1 .. Capacity :
           /\ \A i \in In(n) : sk[i] # None /\ ct[i] # None
           /\ \A i \in Items :
                IF i \in In(n)
                  THEN /\ ws'[i] = Again(ws[i], ct[i], sk[i])
                       /\ ss'[i] = SecretFor(ws[i], ct[i], sk[i])
                  ELSE ws'[i] = ws[i] /\ ss'[i] = ss[i]
           /\ Answered("decapsulate", n, 0) /\ UNCHANGED <<pk, sk, ct, sent>>
  BY DecapsulateStep
<1>2. ASSUME NEW i \in Items, i \in In(n)
      PROVE  /\ Column(ws[i]) /\ CellOK(ws[i]) /\ ct[i] \in Ciphertexts
             /\ \E r \in Rands : SecretKey(sk[i], r, i)
  BY <1>1, <1>2 DEF ColumnsOK, CtOK, SecretsOK
<1>3. ColumnsOK'
  <2>1. ASSUME NEW i \in Items PROVE Column(ws'[i]) /\ CellOK(ws'[i])
    <3>1. CASE i \in In(n)
      <4>1. PICK r \in Rands : SecretKey(sk[i], r, i)
        BY <1>2, <3>1
      <4>2. Column(ws[i]) /\ CellOK(ws[i]) /\ ct[i] \in Ciphertexts
        BY <1>2, <3>1
      <4>3. Column(Again(ws[i], ct[i], sk[i])) /\ CellOK(Again(ws[i], ct[i], sk[i]))
        BY ONLY <4>1, <4>2, Samplers, OpenLemma
      <4> QED BY <1>1, <3>1, <4>3
    <3>2. CASE i \notin In(n)
      BY <1>1, <3>2 DEF ColumnsOK
    <3> QED BY <3>1, <3>2
  <2> QED BY <2>1 DEF ColumnsOK
<1>4. PublicOK' /\ SecretsOK' /\ CtOK' /\ SentOK'
  BY <1>1 DEF PublicOK, SecretsOK, CtOK, SentOK
<1>5. CallOK' /\ call'.batch = n
  BY <1>1, AnsweredLemma
<1>6. SecretsMatch'
  <2>1. ASSUME NEW i \in In(n), sent[i] # None
        PROVE  SecretFor(ws[i], ct[i], sk[i]) = sent[i].ss
                 <=> ct[i] = sent[i].ct /\ sk[i].pk = sent[i].pk
    <3>1. i \in Items
      BY BatchLemma
    <3>2. Ready(ws[i], ct[i], sk[i])
      BY <1>2, <3>1 DEF Ready
    <3>3. Sender(sent[i])
      BY <2>1, <3>1 DEF SentOK, Sender
    <3> QED BY ONLY Samplers, <3>2, <3>3, MatchLemma
  <2>2. ASSUME NEW i \in In(n)
        PROVE  /\ ss'[i] = SecretFor(ws[i], ct[i], sk[i])
               /\ ct'[i] = ct[i] /\ sk'[i] = sk[i] /\ sent'[i] = sent[i]
    BY <1>1, BatchLemma
  <2>3. \A i \in In(n) :
          sent'[i] # None =>
            (ss'[i] = sent'[i].ss <=> ct'[i] = sent'[i].ct /\ sk'[i].pk = sent'[i].pk)
    <3> TAKE i \in In(n)
    <3> QED BY ONLY <2>1, <2>2, i \in In(n)
  <2> QED BY ONLY <1>5, <2>3 DEF SecretsMatch
<1> QED BY <1>3, <1>4, <1>5, <1>6

(***************************************************************************)
(* Failed calls and the way of ciphertexts.                                *)
(***************************************************************************)
\* A failed call leaves columns of 16-bit numbers.
LEMMA LeftoverLemma ==
  ASSUME ColumnsOK, NEW n \in 1 .. Capacity, Leftover(n)
  PROVE  ColumnsOK'
<1>1. PICK x \in Fill : ws' \in {ws, Patch(ws, n, [i \in Items |-> Cells(x)])}
  BY DEF Leftover
<1> DEFINE cells == [i \in Items |-> Cells(x)]
<1>2. \A i \in Items : cells[i] = Cells(x)
  OBVIOUS
<1> HIDE DEF cells
<1>3. \A i \in Items : ws'[i] = ws[i] \/ ws'[i] = Cells(x)
  <2>1. CASE ws' = ws
    BY <2>1
  <2>2. CASE ws' = Patch(ws, n, cells)
    BY ONLY <1>2, <2>2, PatchLemma
  <2> QED BY <1>1, <2>1, <2>2 DEF cells
<1>4. Column(Cells(x)) /\ CellOK(Cells(x))
  BY CellsOK
<1>5. \A i \in Items : Column(ws'[i]) /\ CellOK(ws'[i])
  <2> TAKE i \in Items
  <2>1. Column(ws[i]) /\ CellOK(ws[i])
    BY DEF ColumnsOK
  <2> QED BY ONLY <1>3, <1>4, <2>1, i \in Items
<1> QED BY ONLY <1>5 DEF ColumnsOK

\* Buffers of no use hold nothing.
LEMMA UselessLemma ==
  ASSUME NEW old, NEW n, NEW i \in Items
  PROVE  Patch(old, n, Useless)[i] = old[i] \/ Patch(old, n, Useless)[i] = None
BY PatchLemma DEF Useless

\* A keypair_batch that fails keeps the invariant.
LEMMA FailsKeypairInv ==
  ASSUME Samplers, KemInv, FailsKeypair
  PROVE  KemInv'
<1> USE DEF KemInv
<1>1. PICK n \in 1 .. Capacity, r \in Rands :
       /\ pk' \in {pk, Patch(pk, n, Useless),
                  Patch(pk, n, [i \in In(n) |-> CpaPublic(IndcpaKeypair(ws[i], r))])}
       /\ Leftover(n)
       /\ Answered("keypair", n, -1)
  BY DEF FailsKeypair
<1>2. UNCHANGED <<sk, ct, ss, sent>>
  BY DEF FailsKeypair
<1>3. ColumnsOK'
  BY <1>1, LeftoverLemma
<1>4. PublicOK'
  <2> DEFINE done == [i \in In(n) |-> CpaPublic(IndcpaKeypair(ws[i], r))]
  <2>1. ASSUME NEW i \in In(n) PROVE Key(done[i].t)
    <3>1. Column(ws[i])
      BY BatchLemma DEF ColumnsOK
    <3>2. CpaPublic(IndcpaKeypair(ws[i], r)) = Reference!KeyPair(r).pk
      BY ONLY <3>1, Samplers, KeypairLemma
    <3>3. done[i] = CpaPublic(IndcpaKeypair(ws[i], r))
      OBVIOUS
    <3>4. done[i] = Reference!KeyPair(r).pk
      BY ONLY <3>2, <3>3
    <3> HIDE DEF done
    <3> QED BY ONLY <3>4, Samplers, KeyPairType
  <2>2. pk' \in {pk, Patch(pk, n, Useless), Patch(pk, n, done)}
    BY <1>1
  <2> HIDE DEF done
  <2>3. ASSUME NEW i \in Items, pk'[i] # None PROVE Key(pk'[i].t)
    <3>1. pk[i] # None => Key(pk[i].t)
      BY DEF PublicOK
    <3>2. CASE pk' = pk
      BY ONLY <2>3, <3>1, <3>2
    <3>3. CASE pk' = Patch(pk, n, Useless)
      <4>1. pk'[i] = pk[i] \/ pk'[i] = None
        BY ONLY <3>3, UselessLemma, i \in Items
      <4> QED BY ONLY <2>3, <3>1, <4>1
    <3>4. CASE pk' = Patch(pk, n, done)
      <4>1. pk'[i] = IF i \in In(n) THEN done[i] ELSE pk[i]
        BY ONLY <3>4, PatchLemma, i \in Items
      <4> QED BY ONLY <2>1, <2>3, <3>1, <4>1
    <3> QED BY ONLY <2>2, <3>2, <3>3, <3>4
  <2> QED BY ONLY <2>3 DEF PublicOK
<1>5. SecretsOK' /\ CtOK' /\ SentOK'
  BY <1>2 DEF SecretsOK, CtOK, SentOK
<1>6. CallOK' /\ SecretsMatch'
  BY <1>1, AnsweredLemma, NotDecapsulated
<1> QED BY <1>3, <1>4, <1>5, <1>6

\* An encapsulate_batch that fails keeps the invariant.
LEMMA FailsEncapsulateInv ==
  ASSUME KemInv, FailsEncapsulate
  PROVE  KemInv'
<1> USE DEF KemInv
<1>1. PICK n \in 1 .. Capacity :
       /\ ct' \in {ct, Patch(ct, n, Useless)}
       /\ Leftover(n)
       /\ Answered("encapsulate", n, -1)
  BY DEF FailsEncapsulate
<1>2. UNCHANGED <<pk, sk, ss, sent>>
  BY DEF FailsEncapsulate
<1>3. ColumnsOK'
  BY <1>1, LeftoverLemma
<1>4. CtOK'
  <2>1. CASE ct' = ct
    BY <2>1 DEF CtOK
  <2>2. CASE ct' = Patch(ct, n, Useless)
    <3>1. DOMAIN ct' = Items
      BY ONLY <2>2, PatchLemma
    <3>2. ASSUME NEW i \in Items, ct'[i] # None PROVE ct'[i] \in Ciphertexts
      <4>1. ct'[i] = ct[i]
        BY ONLY <2>2, <3>2, UselessLemma, i \in Items
      <4> QED BY <3>2, <4>1 DEF CtOK
    <3> QED BY <3>1, <3>2 DEF CtOK
  <2> QED BY <1>1, <2>1, <2>2
<1>5. PublicOK' /\ SecretsOK' /\ SentOK'
  BY <1>2 DEF PublicOK, SecretsOK, SentOK
<1>6. CallOK' /\ SecretsMatch'
  BY <1>1, AnsweredLemma, NotDecapsulated
<1> QED BY <1>3, <1>4, <1>5, <1>6

\* A decapsulate_batch that fails keeps the invariant.
LEMMA FailsDecapsulateInv ==
  ASSUME KemInv, FailsDecapsulate
  PROVE  KemInv'
<1> USE DEF KemInv
<1>1. PICK n \in 1 .. Capacity : Leftover(n) /\ Answered("decapsulate", n, -1)
  BY DEF FailsDecapsulate
<1>2. UNCHANGED <<pk, sk, ct, sent>>
  BY DEF FailsDecapsulate
<1>3. ColumnsOK'
  BY <1>1, LeftoverLemma
<1>4. PublicOK' /\ SecretsOK' /\ CtOK' /\ SentOK'
  BY <1>2 DEF PublicOK, SecretsOK, CtOK, SentOK
<1>5. CallOK' /\ SecretsMatch'
  BY <1>1, AnsweredLemma, NotDecapsulated
<1> QED BY <1>3, <1>4, <1>5

\* A changed component of a ciphertext.
LEMMA ChangedRecord ==
  ASSUME NEW D, NEW S, NEW T, NEW c \in [u : [D -> S], v : T]
  PROVE  /\ \A x \in S : [c EXCEPT !.u[0] = x] \in [u : [D -> S], v : T]
         /\ \A y \in T : [c EXCEPT !.v = y] \in [u : [D -> S], v : T]
<1>1. ASSUME NEW x \in S PROVE [c EXCEPT !.u[0] = x] \in [u : [D -> S], v : T]
  OBVIOUS
<1>2. ASSUME NEW y \in T PROVE [c EXCEPT !.v = y] \in [u : [D -> S], v : T]
  OBVIOUS
<1> QED BY <1>1, <1>2

\* A changed ciphertext still fits its bits.
LEMMA AlteredLemma ==
  ASSUME NEW c \in Ciphertexts, NEW d \in Altered(c)
  PROVE  d \in Ciphertexts
<1>1. 0 \in Ks
  BY SizesAssumption DEF Ks
<1>2. c.u[0] \in 0 .. 2047 /\ c.v \in 0 .. 31
  BY <1>1 DEF Ciphertexts
<1>3. PICK y \in 0 .. 31 : y = (c.v + 1) % 32
  <2>1. \A z \in 0 .. 31 : (z + 1) % 32 \in 0 .. 31
    OBVIOUS
  <2> QED BY ONLY <1>2, <2>1
<1>4. PICK n \in 0 .. 2047 : n = c.u[0]
  BY ONLY <1>2
<1> DEFINE x == (n + 1024) % 2048
<1>5. x \in 0 .. 2047
  BY ONLY n \in 0 .. 2047
<1>6. d = [c EXCEPT !.v = y] \/ d = [c EXCEPT !.u[0] = x]
  BY <1>3, <1>4 DEF Altered
<1> HIDE DEF x
<1> QED BY <1>5, <1>6, ChangedRecord DEF Ciphertexts

\* What happens to ciphertexts between two calls keeps the invariant.
LEMMA TransitInv ==
  ASSUME KemInv, Transit
  PROVE  KemInv'
<1> USE DEF KemInv
<1>1. UNCHANGED <<ws, pk, sk, ss, sent>> /\ call' = [call EXCEPT !.name = "transit", !.ret = 0]
  BY DEF Transit
<1>2. CtOK'
  <2>1. CASE \E i \in Items :
               /\ sent[i] # None /\ ct[i] = sent[i].ct
               /\ \E c \in Altered(ct[i]) : ct' = [ct EXCEPT ![i] = c]
    <3>1. PICK i \in Items :
            /\ sent[i] # None /\ ct[i] = sent[i].ct
            /\ \E c \in Altered(ct[i]) : ct' = [ct EXCEPT ![i] = c]
      BY <2>1
    <3>2. PICK c \in Altered(ct[i]) : ct' = [ct EXCEPT ![i] = c]
      BY <3>1
    <3>3. c \in Ciphertexts
      <4>1. ct[i] \in Ciphertexts
        BY <3>1 DEF SentOK
      <4> QED BY <4>1, AlteredLemma
    <3> QED BY <3>2, <3>3 DEF CtOK
  <2>2. CASE \E i, j \in Items :
               /\ ct[i] # ct[j]
               /\ ct' = [ct EXCEPT ![i] = ct[j], ![j] = ct[i]]
    BY <2>2 DEF CtOK
  <2> QED BY <2>1, <2>2 DEF Transit
<1>3. ColumnsOK' /\ PublicOK' /\ SecretsOK' /\ SentOK'
  BY <1>1 DEF ColumnsOK, PublicOK, SecretsOK, SentOK
<1>4. CallOK' /\ call'.name = "transit"
  BY <1>1 DEF CallOK
<1>5. SecretsMatch'
  BY <1>4, NotDecapsulated
<1> QED BY <1>2, <1>3, <1>4, <1>5

\* Every step keeps the invariant.
LEMMA NextInv ==
  ASSUME Samplers, KemInv, [Next]_vars
  PROVE  KemInv'
<1>1. CASE UNCHANGED vars
  BY <1>1 DEF vars, KemInv, ColumnsOK, PublicOK, SecretsOK, CtOK, SentOK, CallOK, SecretsMatch
<1>2. CASE Fails
  BY <1>2, FailsKeypairInv, FailsEncapsulateInv, FailsDecapsulateInv DEF Fails
<1> QED BY <1>1, <1>2, KeypairInv, EncapsulateInv, DecapsulateInv, TransitInv DEF Next

(***************************************************************************)
(* The theorems.                                                           *)
(***************************************************************************)
\* The invariant gives the types.
LEMMA InvType == Samplers /\ KemInv => TypeOK
<1> SUFFICES ASSUME Samplers, KemInv PROVE TypeOK
  OBVIOUS
<1> USE DEF KemInv
<1>1. \A t, j : Key(t) /\ j \in Ks => t[j] \in 0 .. KyberQ - 1
  BY DEF Key, Canon, KyberQ
<1>2. ASSUME NEW i \in Items, pk[i] # None, NEW j \in Ks
      PROVE  pk[i].t[j] \in 0 .. KyberQ - 1
  BY <1>1, <1>2 DEF PublicOK
<1>3. ASSUME NEW i \in Items, sk[i] # None, NEW j \in Ks
      PROVE  sk[i].s[j] \in 0 .. KyberQ - 1
  <2>1. PICK r \in Rands : SecretKey(sk[i], r, i)
    BY <1>3 DEF SecretsOK
  <2>2. Key(sk[i].s)
    BY <2>1, KeyPairType DEF SecretKey
  <2> QED BY <1>1, <2>2
<1>4. ASSUME NEW i \in Items, ct[i] # None
      PROVE  ct[i].v \in 0 .. 31 /\ \A j \in Ks : ct[i].u[j] \in 0 .. 2047
  BY <1>4 DEF CtOK, Ciphertexts
<1>5. \A i \in Items : CellOK(ws[i])
  BY DEF ColumnsOK
<1>6. call.batch \in 0 .. Capacity /\ call.ret \in {0, -1}
  BY DEF CallOK
<1> QED BY ONLY <1>2, <1>3, <1>4, <1>5, <1>6 DEF TypeOK

\* The invariant holds always.
LEMMA InvAlways ==
  ASSUME Samplers
  PROVE  Spec => []KemInv
<1>1. KemInv /\ [Next]_vars => KemInv'
  BY NextInv
<1> QED BY <1>1, InitInv, PTL DEF Spec

\* TypeOK: whatever the calls, their batches and what unwritten memory holds,
\* every component stays in 16 bits and what is packed in its range.
THEOREM KemTypes ==
  ASSUME Samplers
  PROVE  Spec => []TypeOK
<1>1. KemInv => TypeOK
  BY InvType
<1> QED BY <1>1, InvAlways, PTL

\* SecretsMatch: decapsulate_batch delivers the secret of an encapsulation
\* exactly for its ciphertext and its key.
THEOREM KemSecretsMatch ==
  ASSUME Samplers
  PROVE  Spec => []SecretsMatch
<1>1. KemInv => SecretsMatch
  BY DEF KemInv
<1> QED BY <1>1, InvAlways, PTL

-----------------------------------------------------------------------------
\* The kernels implement the formulas of Kyber: every call of the batch is one
\* of KyberReference.
LEMMA AnsweredName ==
  ASSUME NEW name, NEW n \in 1 .. Capacity, NEW ret, Answered(name, n, ret)
  PROVE  call'.name = name /\ call'.batch = n /\ call'.ret = ret
BY DEF Answered

\* keypair_batch is a Keypair of the reference.
LEMMA KeypairRefines ==
  ASSUME Samplers, KemInv, KeypairBatch
  PROVE  Reference!Keypair
<1> USE DEF KemInv
<1> DEFINE Step(n, r) ==
           /\ \A i \in Items :
                IF i \in In(n)
                  THEN LET new == IndcpaKeypair(ws[i], r[i])
                       IN  /\ ws'[i] = new /\ pk'[i] = CpaPublic(new)
                           /\ sk'[i] = [s |-> CpaSecret(new), pk |-> CpaPublic(new),
                                        hpk |-> H(CpaPublic(new)), z |-> Fallback(i)]
                  ELSE ws'[i] = ws[i] /\ pk'[i] = pk[i] /\ sk'[i] = sk[i]
           /\ Answered("keypair", n, 0) /\ UNCHANGED <<ct, ss, sent>>
<1>1. PICK n \in 1 .. Capacity : \E r \in [In(n) -> Rands] : Step(n, r)
  BY KeypairStep
<1>2. PICK r \in [In(n) -> Rands] : Step(n, r)
  BY <1>1
<1>3. call'.name = "keypair" /\ call'.batch = n /\ call'.ret = 0 /\ UNCHANGED <<ct, ss>>
  BY <1>2, AnsweredName
<1>4. ASSUME NEW i \in In(n)
      PROVE  \E x \in Rands :
               LET k == Reference!KeyPair(x)
               IN  /\ pk'[i] = k.pk
                   /\ sk'[i] = [s |-> k.s, pk |-> k.pk, hpk |-> H(k.pk), z |-> <<"z", i>>]
  <2>1. i \in Items /\ Column(ws[i]) /\ r[i] \in Rands
    BY BatchLemma DEF ColumnsOK
  <2> DEFINE new == IndcpaKeypair(ws[i], r[i])
             k == Reference!KeyPair(r[i])
  <2>2. CpaPublic(new) = k.pk /\ CpaSecret(new) = k.s
    BY ONLY <2>1, Samplers, KeypairLemma
  <2>3. /\ pk'[i] = CpaPublic(new)
        /\ sk'[i] = [s |-> CpaSecret(new), pk |-> CpaPublic(new),
                     hpk |-> H(CpaPublic(new)), z |-> Fallback(i)]
    BY <1>2, <2>1
  <2> HIDE DEF new, k
  <2>4. pk'[i] = k.pk /\ sk'[i] = [s |-> k.s, pk |-> k.pk, hpk |-> H(k.pk), z |-> <<"z", i>>]
    BY ONLY <2>2, <2>3 DEF Fallback
  <2> QED BY ONLY <2>1, <2>4 DEF k
<1>5. \A i \in Items \ In(n) : pk'[i] = pk[i] /\ sk'[i] = sk[i]
  BY <1>2
<1> HIDE DEF Step
<1>6. /\ Reference!Succeeds("keypair")
      /\ Reference!Untouched(pk', pk, n) /\ Reference!Untouched(sk', sk, n)
  BY ONLY <1>3, <1>5, ReferenceNames, n \in 1 .. Capacity
     DEF Reference!Succeeds, Reference!Untouched
<1> QED BY ONLY <1>3, <1>4, <1>6, ReferenceNames DEF Reference!Keypair

\* encapsulate_batch is an Encapsulate of the reference.
LEMMA EncapsulateRefines ==
  ASSUME Samplers, KemInv, EncapsulateBatch
  PROVE  Reference!Encapsulate
<1> USE DEF KemInv
<1> DEFINE Step(n, r) ==
           /\ \A i \in In(n) : pk[i] # None
           /\ \A i \in Items :
                IF i \in In(n)
                  THEN LET m == Message(r[i])
                           kr == G(<<m, H(pk[i])>>)
                           new == IndcpaEnc(ws[i], m, pk[i], kr.second)
                       IN  /\ ws'[i] = new /\ ct'[i] = Ciphertext(new)
                           /\ sent'[i] = [pk |-> pk[i], m |-> m, ct |-> Ciphertext(new),
                                          ss |-> Kdf(kr.first, Ciphertext(new))]
                  ELSE ws'[i] = ws[i] /\ ct'[i] = ct[i] /\ sent'[i] = sent[i]
           /\ DOMAIN ct' = Items
           /\ Answered("encapsulate", n, 0) /\ UNCHANGED <<pk, sk, ss>>
<1>1. PICK n \in 1 .. Capacity : \E r \in [In(n) -> Rands] : Step(n, r)
  BY EncapsulateStep
<1>2. PICK r \in [In(n) -> Rands] : Step(n, r)
  BY <1>1
<1>3. call'.name = "encapsulate" /\ call'.batch = n /\ call'.ret = 0 /\ UNCHANGED <<pk, sk, ss>>
  BY <1>2, AnsweredName
<1>4. ASSUME NEW i \in In(n)
      PROVE  \E x \in Rands : ct'[i] = Reference!Ciphertext(pk[i], Message(x))
  <2> DEFINE m == Message(r[i])
             coins == G(<<m, H(pk[i])>>).second
             new == IndcpaEnc(ws[i], m, pk[i], coins)
  <2>1. i \in Items /\ r[i] \in Rands
    BY BatchLemma
  <2>2. Column(ws[i]) /\ Key(pk[i].t)
    BY <1>2, <2>1 DEF ColumnsOK, PublicOK
  <2>3. ct'[i] = Ciphertext(new)
    BY <1>2, <2>1
  <2>4. Reference!Ciphertext(pk[i], m) = Reference!Encrypt(pk[i], m, coins)
    BY ReferenceNames DEF Reference!Ciphertext
  <2>5. m \in {0, 1}
    BY <2>1, MessageAssumption
  <2> HIDE DEF m, coins
  <2>6. Ciphertext(new) = Reference!Encrypt(pk[i], m, coins)
    BY ONLY <2>2, <2>5, Samplers, EncLemma
  <2> HIDE DEF new
  <2>7. ct'[i] = Reference!Ciphertext(pk[i], m)
    BY ONLY <2>3, <2>4, <2>6
  <2> QED BY ONLY <2>1, <2>7 DEF m
<1>5. \A i \in Items \ In(n) : ct'[i] = ct[i]
  BY <1>2
<1> HIDE DEF Step
<1>6. Reference!Succeeds("encapsulate") /\ Reference!Untouched(ct', ct, n)
  BY ONLY <1>3, <1>5, ReferenceNames, n \in 1 .. Capacity
     DEF Reference!Succeeds, Reference!Untouched
<1> QED BY ONLY <1>3, <1>4, <1>6, ReferenceNames DEF Reference!Encapsulate

\* decapsulate_batch is a Decapsulate of the reference.
LEMMA DecapsulateRefines ==
  ASSUME Samplers, KemInv, DecapsulateBatch
  PROVE  Reference!Decapsulate
<1> USE DEF KemInv
<1>1. PICK n \in 1 .. Capacity :
           /\ \A i \in In(n) : sk[i] # None /\ ct[i] # None
           /\ \A i \in Items :
                IF i \in In(n)
                  THEN /\ ws'[i] = Again(ws[i], ct[i], sk[i])
                       /\ ss'[i] = SecretFor(ws[i], ct[i], sk[i])
                  ELSE ws'[i] = ws[i] /\ ss'[i] = ss[i]
           /\ Answered("decapsulate", n, 0) /\ UNCHANGED <<pk, sk, ct, sent>>
  BY DecapsulateStep
<1>2. call'.name = "decapsulate" /\ call'.batch = n /\ call'.ret = 0 /\ UNCHANGED <<pk, sk, ct>>
  BY <1>1, AnsweredName
<1>3. ASSUME NEW i \in In(n)
      PROVE  ss'[i] = Reference!Secret(sk[i], ct[i])
  <2>1. i \in Items
    BY BatchLemma
  <2>2. Column(ws[i]) /\ CellOK(ws[i]) /\ ct[i] \in Ciphertexts
    BY <1>1, <2>1 DEF ColumnsOK, CtOK
  <2>3. PICK r \in Rands : SecretKey(sk[i], r, i)
    BY <1>1, <2>1 DEF SecretsOK
  <2>4. SecretFor(ws[i], ct[i], sk[i]) = Reference!Secret(sk[i], ct[i])
    BY ONLY <2>2, <2>3, Samplers, SecretLemma
  <2> QED BY <1>1, <2>1, <2>4
<1>4. \A i \in Items \ In(n) : ss'[i] = ss[i]
  BY <1>1
<1>5. Reference!Succeeds("decapsulate") /\ Reference!Untouched(ss', ss, n)
  BY ONLY <1>2, <1>4, ReferenceNames, n \in 1 .. Capacity
     DEF Reference!Succeeds, Reference!Untouched
<1> QED BY ONLY <1>2, <1>3, <1>5, ReferenceNames DEF Reference!Decapsulate

\* Failures and changes on the way are the disturbances of the reference.
LEMMA DisturbRefines ==
  ASSUME KemInv, Fails \/ Transit
  PROVE  Reference!Disturb
<1>1. ASSUME Fails PROVE Reference!Disturb
  <2>1. call'.ret = -1 /\ UNCHANGED <<sk, ss>>
    BY <1>1, AnsweredName DEF Fails, FailsKeypair, FailsEncapsulate, FailsDecapsulate
  <2> QED BY ONLY <2>1 DEF Reference!Disturb
<1>2. ASSUME Transit PROVE Reference!Disturb
  <2>1. call'.name = "transit" /\ UNCHANGED <<sk, ss>>
    BY <1>2 DEF Transit, KemInv, CallOK
  <2> QED BY ONLY <2>1 DEF Reference!Disturb
<1> QED BY <1>1, <1>2

\* Every step is one of the reference, or changes nothing it sees.
LEMMA NextRefines ==
  ASSUME Samplers, KemInv, [Next]_vars
  PROVE  [Reference!Next]_(<<pk, sk, ct, ss, call>>)
<1>1. CASE UNCHANGED vars
  BY <1>1 DEF vars
<1>2. CASE KeypairBatch
  BY <1>2, KeypairRefines DEF Reference!Next
<1>3. CASE EncapsulateBatch
  BY <1>3, EncapsulateRefines DEF Reference!Next
<1>4. CASE DecapsulateBatch
  BY <1>4, DecapsulateRefines DEF Reference!Next
<1>5. CASE Fails \/ Transit
  BY <1>5, DisturbRefines DEF Reference!Next
<1> QED BY <1>1, <1>2, <1>3, <1>4, <1>5 DEF Next

\* ImplementsReference: with every reduction, Montgomery factor and reused
\* buffer, the calls are those of the scheme over the ring.
THEOREM KemImplementsReference ==
  ASSUME Samplers
  PROVE  Spec => ImplementsReference
<1>1. Init => Reference!Init
  BY ReferenceNames DEF Init, Reference!Init
<1>2. KemInv /\ [Next]_vars => [Reference!Next]_(<<pk, sk, ct, ss, call>>)
  BY NextRefines
<1> QED BY <1>1, <1>2, InvAlways, PTL DEF Spec, ImplementsReference, Reference!Spec
=============================================================================
