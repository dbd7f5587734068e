----------------------------- MODULE KyberArith -----------------------------
(***************************************************************************)
(* The arithmetic of the Kyber1024 kernels on one coefficient, with the    *)
(* widths of the code: coefficients are int16_t, products int32_t, and a   *)
(* shift to the right of a negative number rounds down.                    *)
(***************************************************************************)
EXTENDS Integers

KyberQ == 3329

\* The numbers of int16_t, and the conversion to it.
Int16s == {x \in Int : -32768 <= x /\ x <= 32767}
Int16(x) == ((x + 32768) % 65536) - 32768

\* QINV, the inverse of q modulo 2^16, as an int16_t.
QInv == Int16(62209)

\* montgomery_reduce: u takes the lower halves of its factors only.
MontgomeryReduce(a) ==
  LET u == Int16(Int16(a) * QInv)
  IN  (a - u * KyberQ) \div 65536

FqMul(a, b) == MontgomeryReduce(a * b)

BarrettFactor == 67108864 \div KyberQ + 1
BarrettReduce(a) == a - ((BarrettFactor * a) \div 67108864) * KyberQ

\* The mask a >> 15 adds q again to a negative number.
Csubq(a) == IF a >= KyberQ THEN a - KyberQ ELSE a

\* From the Montgomery domain: f is 2^32 mod q.
FromMont(a) == MontgomeryReduce(a * 1353)

\* rej_uniform accepts 16-bit samples below this bound, and takes from each a
\* congruent number, which may still be larger than q.
SampleBound == 19 * KyberQ
Uniform(val) == val - (val \div 4096) * KyberQ

\* Compression to d bits of a number below q, and back.
Compress(a, d) == ((a * 2^d + KyberQ \div 2) \div KyberQ) % 2^d
Decompress(y, d) == (y * KyberQ + 2^(d - 1)) \div 2^d

\* One bit of a message.
FromMsg(bit) == bit * ((KyberQ + 1) \div 2)
ToMsg(a) == ((a * 2 + KyberQ \div 2) \div KyberQ) % 2
=============================================================================
