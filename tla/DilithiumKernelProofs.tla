------------------------ MODULE DilithiumKernelProofs ------------------------
(***************************************************************************)
(* The kernels of Dilithium: the instructions that decide on an attempt,   *)
(* the rounding of coefficients, and the samplers, which Kyber has too.    *)
(*                                                                         *)
(* The kernels that decide on an attempt, for every number of warps, lanes *)
(* and polynomials and every attempt:                                      *)
(* both programs have a shape (Shape): where there is a barrier between    *)
(* instructions that touch the same shared variables, which hints are      *)
(* taken in before an instruction, that all are covered.  An attempt ends  *)
(* at the first instruction where a check rejects it or a bound is         *)
(* exceeded (Fate), a matter of the program and the attempt alone.  The    *)
(* invariant (RejInv) says that no warp is past that instruction, that no  *)
(* warp has passed a barrier another has not reached, and what the shared  *)
(* variables hold as far as a warp that reads them can tell.               *)
(*                                                                         *)
(* The verifier recovers the high parts that the signer has hashed, for    *)
(* every coefficient, every product that passes the checks and the three   *)
(* parameter sets; the parts of a key give the coefficient again.          *)
(*                                                                         *)
(* Rejection sampling stores the good samples in their order, for every    *)
(* number of lanes and rounds and every choice of good samples.            *)
(***************************************************************************)
EXTENDS RejectionKernels, DilithiumRounding, Sampling, Induction

(***************************************************************************)
(* The kernels that decide on an attempt.                                  *)
(***************************************************************************)
(* The instructions of the kernels.  Repeat concatenates parts of a length; *)
(* an index is a part and a place in it.                                   *)
\* Of n parts of length c, part i begins behind the i parts before it.
IsRepeated(r, S, c, n, parts) ==
  /\ r \in Seq(S) /\ Len(r) = c * n
  /\ \A i \in 0 .. n - 1, j \in 1 .. c : r[c * i + j] = parts[i][j]

\* By induction over the number of parts.
LEMMA RepeatLemma ==
  ASSUME NEW S, NEW c \in Nat \ {0}, NEW n \in Nat, NEW parts,
         \A i \in 0 .. n - 1 : parts[i] \in Seq(S) /\ Len(parts[i]) = c
  PROVE  IsRepeated(Repeat(parts, n), S, c, n, parts)
<1> DEFINE V == Seq(S)
           empty == << >>
           step == [xi \in V \X (1 .. n) |-> xi[1] \o parts[xi[2] - 1]]
<1>1. empty \in V /\ step \in [V \X (1 .. n) -> V]
  <2>1. ASSUME NEW x \in V, NEW i \in 1 .. n
        PROVE  x \o parts[i - 1] \in V
    <3>1. i - 1 \in 0 .. n - 1
      OBVIOUS
    <3>2. parts[i - 1] \in Seq(S)
      BY <3>1
    <3> QED BY <3>2
  <2>2. \A xi \in V \X (1 .. n) : xi[1] \o parts[xi[2] - 1] \in V
    BY <2>1
  <2> QED BY <2>2
<1>2. \E f \in [0 .. n -> V] : Recursion(f, empty, step, n)
  <2> HIDE DEF V, empty, step
  <2> QED BY ONLY n \in Nat, <1>1, RecursiveFunction
<1> DEFINE Is(f) == f = [i \in 0 .. n |-> IF i = 0 THEN << >> ELSE f[i - 1] \o parts[i - 1]]
           g == CHOOSE f : Is(f)
<1>3. \E f : Is(f)
  <2>1. PICK f \in [0 .. n -> V] : Recursion(f, empty, step, n)
    BY <1>2
  <2>2. \A i \in 1 .. n : f[i] = f[i - 1] \o parts[i - 1]
    <3> TAKE i \in 1 .. n
    <3>1. f[i] = step[<<f[i - 1], i>>]
      BY <2>1 DEF Recursion
    <3>2. i - 1 \in 0 .. n
      OBVIOUS
    <3>3. <<f[i - 1], i>> \in V \X (1 .. n)
      BY <3>2
    <3> QED BY <3>1, <3>3
  <2>3. f = [i \in 0 .. n |-> f[i]] /\ f[0] = << >> /\ \A i \in 0 .. n : i # 0 => i \in 1 .. n
    BY <2>1 DEF Recursion
  <2>4. Is(f)
    <3> HIDE DEF V, step
    <3> QED BY <2>2, <2>3
  <2> QED BY <2>4
<1>4. Is(g)
  <2> HIDE DEF Is
  <2> QED BY <1>3
<1>5. Repeat(parts, n) = g[n]
  BY DEF Repeat
<1> HIDE DEF g
<1>6. g[0] = << >> /\ \A i \in 0 .. n - 1 : g[i + 1] = g[i] \o parts[i]
  <2>1. g[0] = << >>
    <3>1. 0 \in 0 .. n
      OBVIOUS
    <3> QED BY <1>4, <3>1
  <2>2. ASSUME NEW i \in 0 .. n - 1
        PROVE  g[i + 1] = g[i] \o parts[i]
    <3>1. i + 1 \in 0 .. n /\ i + 1 # 0 /\ (i + 1) - 1 = i
      OBVIOUS
    <3> QED BY <1>4, <3>1
  <2> QED BY <2>1, <2>2
<1>7. c * 0 = 0 /\ \A i \in Nat : c * i \in Nat /\ c * (i + 1) = c * i + c
  BY Multiples
<1> DEFINE at(i) == c * i
           Good(m) == /\ g[m] \in V /\ Len(g[m]) = at(m)
                      /\ \A i \in 0 .. m - 1, j \in 1 .. c : g[m][at(i) + j] = parts[i][j]
           H == {m \in 0 .. n : Good(m)}
<1>8. /\ at(0) = 0
      /\ \A i \in Nat : at(i) \in Nat /\ at(i + 1) = at(i) + c
      /\ \A i, j \in Nat : i < j => at(i) + c <= at(j)
  BY Multiples
<1> HIDE DEF at
<1>9. 0 \in H
  <2>1. g[0] \in V /\ Len(g[0]) = 0 /\ 0 \in 0 .. n
    BY <1>1, <1>6
  <2>2. \A i \in 0 .. 0 - 1 : FALSE
    OBVIOUS
  <2> HIDE DEF V
  <2> QED BY <1>8, <2>1, <2>2
<1>10. \A m \in 0 .. n - 1 : m \in H => m + 1 \in H
  <2> SUFFICES ASSUME NEW m \in 0 .. n - 1, Good(m) PROVE Good(m + 1)
    OBVIOUS
  <2>0. m \in Nat
    OBVIOUS
  <2>1. /\ parts[m] \in Seq(S) /\ Len(parts[m]) = c /\ g[m] \in Seq(S) /\ Len(g[m]) = at(m)
        /\ g[m + 1] = g[m] \o parts[m] /\ at(m) \in Nat /\ at(m + 1) = at(m) + c
    BY <1>6, <1>8, <2>0
  <2>2. /\ g[m + 1] \in V /\ Len(g[m + 1]) = at(m + 1)
        /\ \A j \in 1 .. at(m) : g[m + 1][j] = g[m][j]
        /\ \A j \in 1 .. c : g[m + 1][at(m) + j] = parts[m][j]
    <3> DEFINE a == g[m]
               b == parts[m]
               l == at(m)
    <3>1. a \in Seq(S) /\ b \in Seq(S) /\ Len(a) = l /\ Len(b) = c /\ l \in Nat
      BY <2>1
    <3>2. g[m + 1] = a \o b /\ at(m + 1) = l + c
      BY <2>1
    <3> HIDE DEF a, b, l
    <3>3. /\ a \o b \in Seq(S) /\ Len(a \o b) = l + c
          /\ \A j \in 1 .. l : (a \o b)[j] = a[j]
          /\ \A j \in 1 .. c : (a \o b)[l + j] = b[j]
      BY ONLY <3>1, c \in Nat
    <3> QED BY <3>2, <3>3 DEF a, b, l
  <2>3. ASSUME NEW i \in 0 .. m, NEW j \in 1 .. c
        PROVE  g[m + 1][at(i) + j] = parts[i][j]
    <3>1. CASE i = m
      BY <2>2, <3>1
    <3>2. CASE i < m
      <4>0. i \in Nat /\ i \in 0 .. m - 1
        BY <2>0, <3>2
      <4>1. at(i) + c <= at(m) /\ at(i) \in Nat /\ i \in 0 .. m - 1
        BY <1>8, <2>0, <3>2, <4>0
      <4>2. at(i) + j \in 1 .. at(m)
        BY <2>1, <4>1
      <4> QED BY <2>2, <4>1, <4>2
    <3> QED BY <3>1, <3>2
  <2>4. (m + 1) - 1 = m
    OBVIOUS
  <2> QED BY <2>2, <2>3, <2>4
<1>11. \A m \in 0 .. n : m \in H
  <2> HIDE DEF H
  <2>1. 0 \in Int /\ n \in Int /\ (0 <= n => 0 \in H)
    BY <1>9
  <2> QED BY <1>10, <2>1, IntervalInduction
<1>12. Good(n)
  BY <1>11
<1> QED BY <1>5, <1>12 DEF at, IsRepeated

\* The instructions.
Ops ==
  {<<"init">>, <<"sync">>, <<"check">>, <<"sum">>, <<"bound">>, <<"advance">>, <<"copy">>, <<"done">>}
  \cup {<<"vote", c>> : c \in CheckNames}
  \cup {<<"count", k, half>> : k \in 0 .. K - 1, half \in {0, 1}}
  \cup {<<"place", k, half>> : k \in 0 .. K - 1, half \in {0, 1}}
  \cup {<<"chunk", k, i>> : k \in 0 .. K - 1, i \in 0 .. Chunks - 1}
  \cup {<<"last", k>> : k \in 0 .. K - 1}

\* The instructions of a check of a block,
LEMMA Check128Lemma ==
  ASSUME NEW c \in CheckNames
  PROVE  /\ Check128(c) \in Seq(Ops) /\ Len(Check128(c)) = 4
         /\ Check128(c)[1] = <<"sync">> /\ Check128(c)[2] = <<"vote", c>>
         /\ Check128(c)[3] = <<"sync">> /\ Check128(c)[4] = <<"check">>
<1>1. {<<"sync">>, <<"vote", c>>, <<"check">>} \subseteq Ops
  BY DEF Ops
<1> QED BY <1>1 DEF Check128, Sync

\* of a half of the hints of a polynomial,
LEMMA Hints128Lemma ==
  ASSUME NEW k \in 0 .. K - 1, NEW half \in {0, 1}
  PROVE  LET h == Hints128(k, half)
         IN  /\ h \in Seq(Ops) /\ Len(h) = 8
             /\ h[1] = <<"count", k, half>> /\ h[2] = <<"sync">> /\ h[3] = <<"sum">>
             /\ h[4] = <<"sync">> /\ h[5] = <<"bound">> /\ h[6] = <<"place", k, half>>
             /\ h[7] = <<"sync">> /\ h[8] = <<"advance">>
<1>1. {<<"sync">>, <<"sum">>, <<"bound">>, <<"advance">>} \subseteq Ops
  BY DEF Ops
<1>2. <<"count", k, half>> \in Ops
  BY DEF Ops
<1>3. <<"place", k, half>> \in Ops
  BY DEF Ops
<1> QED BY <1>1, <1>2, <1>3 DEF Hints128, Sync

\* and of a polynomial.
LEMMA Poly128Lemma ==
  ASSUME NEW k \in 0 .. K - 1
  PROVE  LET p == Poly128(k)
         IN  /\ p \in Seq(Ops) /\ Len(p) = 26
             /\ p[1] = <<"sync">> /\ p[2] = <<"vote", <<"s2", k>>>>
             /\ p[3] = <<"sync">> /\ p[4] = <<"check">>
             /\ p[5] = <<"sync">> /\ p[6] = <<"vote", <<"t0", k>>>>
             /\ p[7] = <<"sync">> /\ p[8] = <<"check">>
             /\ p[9] = <<"count", k, 0>> /\ p[10] = <<"sync">> /\ p[11] = <<"sum">>
             /\ p[12] = <<"sync">> /\ p[13] = <<"bound">> /\ p[14] = <<"place", k, 0>>
             /\ p[15] = <<"sync">> /\ p[16] = <<"advance">>
             /\ p[17] = <<"count", k, 1>> /\ p[18] = <<"sync">> /\ p[19] = <<"sum">>
             /\ p[20] = <<"sync">> /\ p[21] = <<"bound">> /\ p[22] = <<"place", k, 1>>
             /\ p[23] = <<"sync">> /\ p[24] = <<"advance">>
             /\ p[25] = <<"last", k>> /\ p[26] = <<"sync">>
<1> DEFINE a == Check128(<<"s2", k>>)
           b == Check128(<<"t0", k>>)
           h0 == Hints128(k, 0)
           h1 == Hints128(k, 1)
           e == <<<<"last", k>>, Sync>>
<1>1. <<"s2", k>> \in CheckNames /\ <<"t0", k>> \in CheckNames
  BY DEF CheckNames
<1>2. /\ a \in Seq(Ops) /\ Len(a) = 4 /\ a[1] = <<"sync">> /\ a[2] = <<"vote", <<"s2", k>>>>
      /\ a[3] = <<"sync">> /\ a[4] = <<"check">>
      /\ b \in Seq(Ops) /\ Len(b) = 4 /\ b[1] = <<"sync">> /\ b[2] = <<"vote", <<"t0", k>>>>
      /\ b[3] = <<"sync">> /\ b[4] = <<"check">>
  BY <1>1, Check128Lemma
<1>3. /\ h0 \in Seq(Ops) /\ Len(h0) = 8
      /\ h0[1] = <<"count", k, 0>> /\ h0[2] = <<"sync">> /\ h0[3] = <<"sum">>
      /\ h0[4] = <<"sync">> /\ h0[5] = <<"bound">> /\ h0[6] = <<"place", k, 0>>
      /\ h0[7] = <<"sync">> /\ h0[8] = <<"advance">>
  BY Hints128Lemma
<1>4. /\ h1 \in Seq(Ops) /\ Len(h1) = 8
      /\ h1[1] = <<"count", k, 1>> /\ h1[2] = <<"sync">> /\ h1[3] = <<"sum">>
      /\ h1[4] = <<"sync">> /\ h1[5] = <<"bound">> /\ h1[6] = <<"place", k, 1>>
      /\ h1[7] = <<"sync">> /\ h1[8] = <<"advance">>
  BY Hints128Lemma
<1>5. e \in Seq(Ops) /\ Len(e) = 2 /\ e[1] = <<"last", k>> /\ e[2] = <<"sync">>
  <2>1. <<"last", k>> \in Ops
    BY DEF Ops
  <2>2. Sync \in Ops
    BY DEF Ops, Sync
  <2> QED BY <2>1, <2>2 DEF Sync
<1>6. Poly128(k) = (((a \o b) \o h0) \o h1) \o e
  BY DEF Poly128
<1> HIDE DEF a, b, h0, h1, e
<1> DEFINE ab == a \o b
           abh == ab \o h0
           abhh == abh \o h1
           p == abhh \o e
<1>7. IsJoined(ab, Ops, a, b, 4, 4)
  <2>1. IsJoined(a \o b, Ops, a, b, Len(a), Len(b))
    BY ONLY <1>2, Joined
  <2> QED BY ONLY <1>2, <2>1
<1>20. ab \in Seq(Ops) /\ Len(ab) = 8
  BY ONLY <1>7 DEF IsJoined
<1> HIDE DEF ab
<1>8. IsJoined(abh, Ops, ab, h0, 8, 8)
  <2>1. IsJoined(ab \o h0, Ops, ab, h0, Len(ab), Len(h0))
    BY ONLY <1>3, <1>20, Joined
  <2> QED BY ONLY <1>3, <1>20, <2>1
<1>21. abh \in Seq(Ops) /\ Len(abh) = 16
  BY ONLY <1>8 DEF IsJoined
<1> HIDE DEF abh
<1>9. IsJoined(abhh, Ops, abh, h1, 16, 8)
  <2>1. IsJoined(abh \o h1, Ops, abh, h1, Len(abh), Len(h1))
    BY ONLY <1>4, <1>21, Joined
  <2> QED BY ONLY <1>4, <1>21, <2>1
<1>22. abhh \in Seq(Ops) /\ Len(abhh) = 24
  BY ONLY <1>9 DEF IsJoined
<1> HIDE DEF abhh
<1>10. IsJoined(p, Ops, abhh, e, 24, 2)
  <2>1. IsJoined(abhh \o e, Ops, abhh, e, Len(abhh), Len(e))
    BY ONLY <1>5, <1>22, Joined
  <2> QED BY ONLY <1>5, <1>22, <2>1
<1>23. p \in Seq(Ops) /\ Len(p) = 26
  BY ONLY <1>10 DEF IsJoined
<1>24. Poly128(k) = p
  BY <1>6 DEF ab, abh, abhh
<1> HIDE DEF p
<1>30. /\ \A j \in 1 .. 4 : ab[j] = a[j]
       /\ \A j \in 1 .. 4 : ab[4 + j] = b[j]
  BY ONLY <1>7 DEF IsJoined
<1>31. /\ \A j \in 1 .. 8 : abh[j] = ab[j]
       /\ \A j \in 1 .. 8 : abh[8 + j] = h0[j]
  BY ONLY <1>8 DEF IsJoined
<1>32. /\ \A j \in 1 .. 16 : abhh[j] = abh[j]
       /\ \A j \in 1 .. 8 : abhh[16 + j] = h1[j]
  BY ONLY <1>9 DEF IsJoined
<1>33. \A j \in 1 .. 24 : p[j] = abhh[j]
  BY ONLY <1>10 DEF IsJoined
<1>34. \A j \in 1 .. 16 : p[j] = abh[j]
  BY ONLY <1>32, <1>33
<1>35. \A j \in 1 .. 8 : p[j] = ab[j]
  BY ONLY <1>31, <1>34
<1>11. /\ \A j \in 1 .. 4 : p[j] = a[j]
       /\ \A j \in 1 .. 4 : p[4 + j] = b[j]
  <2>1. \A j \in 1 .. 4 : p[j] = ab[j] /\ p[4 + j] = ab[4 + j]
    BY ONLY <1>35
  <2> QED BY ONLY <1>30, <2>1
<1>12. \A j \in 1 .. 8 : p[8 + j] = h0[j]
  <2>1. \A j \in 1 .. 8 : p[8 + j] = abh[8 + j]
    BY ONLY <1>34
  <2> QED BY ONLY <1>31, <2>1
<1>13. \A j \in 1 .. 8 : p[16 + j] = h1[j]
  <2>1. \A j \in 1 .. 8 : p[16 + j] = abhh[16 + j]
    BY ONLY <1>33
  <2> QED BY ONLY <1>32, <2>1
<1>14. /\ p[1] = a[1] /\ p[2] = a[2] /\ p[3] = a[3] /\ p[4] = a[4]
       /\ p[5] = b[1] /\ p[6] = b[2] /\ p[7] = b[3] /\ p[8] = b[4]
  BY ONLY <1>11
<1>15. /\ p[9] = h0[1] /\ p[10] = h0[2] /\ p[11] = h0[3] /\ p[12] = h0[4]
       /\ p[13] = h0[5] /\ p[14] = h0[6] /\ p[15] = h0[7] /\ p[16] = h0[8]
  BY ONLY <1>12
<1>16. /\ p[17] = h1[1] /\ p[18] = h1[2] /\ p[19] = h1[3] /\ p[20] = h1[4]
       /\ p[21] = h1[5] /\ p[22] = h1[6] /\ p[23] = h1[7] /\ p[24] = h1[8]
  BY ONLY <1>13
<1>17. p[25] = e[1] /\ p[26] = e[2]
  BY ONLY <1>10 DEF IsJoined
<1> QED BY ONLY <1>2, <1>3, <1>4, <1>5, <1>14, <1>15, <1>16, <1>17, <1>23, <1>24

\* Where the parts of a program are: the beginning a, the checks of z from z
\* on, the polynomials from y on, and the end.
HasParts(P, a, z, cz, y, cy, e) ==
  LET lz == a + cz * L
      at(k) == lz + cy * k
  IN  /\ P \in Seq(Ops)
      /\ Len(P) = at(K) + 2
      /\ \A l \in 0 .. L - 1, j \in 1 .. cz : P[a + (cz * l + j)] = z[l][j]
      /\ \A k \in 0 .. K - 1, j \in 1 .. cy : P[at(k) + j] = y[k][j]
      /\ \A j \in 1 .. 2 : P[at(K) + j] = e[j]
      /\ \A p \in 1 .. Len(P) :
           \/ p \in 1 .. a
           \/ \E l \in 0 .. L - 1, j \in 1 .. cz : p = a + (cz * l + j)
           \/ \E k \in 0 .. K - 1, j \in 1 .. cy : p = at(k) + j
           \/ p \in at(K) + 1 .. at(K) + 2

AreParts(parts, n, c) == \A i \in 0 .. n - 1 : parts[i] \in Seq(Ops) /\ Len(parts[i]) = c

IsProgram(P, a, z, cz, y, cy, e) ==
  /\ HasParts(P, Len(a), z, cz, y, cy, e)
  /\ \A j \in 1 .. Len(a) : P[j] = a[j]

\* A kernel is put together of a beginning, checks, polynomials and an end.
LEMMA PartsLemma ==
  ASSUME NEW a, NEW e, NEW z, NEW cz, NEW y, NEW cy,
         a \in Seq(Ops), e \in Seq(Ops), Len(e) = 2,
         cz \in Nat \ {0}, AreParts(z, L, cz),
         cy \in Nat \ {0}, AreParts(y, K, cy)
  PROVE  IsProgram(((a \o Repeat(z, L)) \o Repeat(y, K)) \o e, a, z, cz, y, cy, e)
<1> DEFINE rz == Repeat(z, L)
           ry == Repeat(y, K)
           la == Len(a)
           lz == la + cz * L
           at(k) == lz + cy * k
<1>0. L \in Nat /\ K \in Nat
  BY RejAssumption, EncodingAssumption
<1>30. \A l \in 0 .. L - 1 : z[l] \in Seq(Ops) /\ Len(z[l]) = cz
  BY DEF AreParts
<1>31. \A k \in 0 .. K - 1 : y[k] \in Seq(Ops) /\ Len(y[k]) = cy
  BY DEF AreParts
<1>1. /\ rz \in Seq(Ops) /\ Len(rz) = cz * L
      /\ \A l \in 0 .. L - 1, j \in 1 .. cz : rz[cz * l + j] = z[l][j]
  <2>1. L \in Nat /\ cz \in Nat \ {0} /\ \A i \in 0 .. L - 1 : z[i] \in Seq(Ops) /\ Len(z[i]) = cz
    BY <1>0, <1>30
  <2>2. IsRepeated(rz, Ops, cz, L, z)
    BY ONLY <2>1, RepeatLemma
  <2> QED BY ONLY <2>2 DEF IsRepeated
<1>2. /\ ry \in Seq(Ops) /\ Len(ry) = cy * K
      /\ \A k \in 0 .. K - 1, j \in 1 .. cy : ry[cy * k + j] = y[k][j]
  <2>1. K \in Nat /\ cy \in Nat \ {0} /\ \A i \in 0 .. K - 1 : y[i] \in Seq(Ops) /\ Len(y[i]) = cy
    BY <1>0, <1>31
  <2>2. IsRepeated(ry, Ops, cy, K, y)
    BY ONLY <2>1, RepeatLemma
  <2> QED BY ONLY <2>2 DEF IsRepeated
<1>3. \A q \in 1 .. cz * L : \E l \in 0 .. L - 1, j \in 1 .. cz : q = cz * l + j
  BY <1>0, PlaceLemma
<1>4. \A q \in 1 .. cy * K : \E k \in 0 .. K - 1, j \in 1 .. cy : q = cy * k + j
  BY <1>0, PlaceLemma
<1> DEFINE mz(l) == cz * l
           my(k) == cy * k
<1>5. /\ \A l \in Nat : mz(l) \in Nat /\ mz(l + 1) = mz(l) + cz
      /\ \A l \in 0 .. L - 1 : mz(l) + cz <= mz(L)
      /\ \A k \in Nat : my(k) \in Nat /\ my(k + 1) = my(k) + cy
      /\ \A k \in 0 .. K - 1 : my(k) + cy <= my(K)
      /\ mz(0) = 0 /\ my(0) = 0
  <2>1. \A l \in 0 .. L - 1 : cz * l + cz <= cz * L
    <3> TAKE l \in 0 .. L - 1
    <3>1. l \in Nat /\ L \in Nat /\ l < L
      BY <1>0
    <3> QED BY <3>1, Multiples
  <2>2. \A k \in 0 .. K - 1 : cy * k + cy <= cy * K
    <3> TAKE k \in 0 .. K - 1
    <3>1. k \in Nat /\ K \in Nat /\ k < K
      BY <1>0
    <3> QED BY <3>1, Multiples
  <2> QED BY <2>1, <2>2, Multiples
<1>6. la \in Nat
  OBVIOUS
<1> DEFINE az == a \o rz
           azy == az \o ry
           P == azy \o e
<1> HIDE DEF rz, ry
<1>7. IsJoined(az, Ops, a, rz, la, mz(L))
  <2>1. IsJoined(a \o rz, Ops, a, rz, Len(a), Len(rz))
    BY ONLY <1>1, a \in Seq(Ops), Joined
  <2> QED BY <1>1, <2>1
<1> HIDE DEF mz, my
<1>8. az \in Seq(Ops) /\ Len(az) = la + mz(L) /\ la + mz(L) \in Nat
  <2>1. mz(L) \in Nat
    BY <1>0, <1>5
  <2>2. az \in Seq(Ops) /\ Len(az) = la + mz(L)
    BY ONLY <1>7 DEF IsJoined
  <2> QED BY <1>6, <2>1, <2>2
<1> HIDE DEF az
<1>9. IsJoined(azy, Ops, az, ry, la + mz(L), my(K))
  <2>1. IsJoined(az \o ry, Ops, az, ry, Len(az), Len(ry))
    BY ONLY <1>2, <1>8, Joined
  <2>2. Len(ry) = my(K)
    BY <1>2 DEF my
  <2> QED BY <1>8, <2>1, <2>2
<1>10. azy \in Seq(Ops) /\ Len(azy) = (la + mz(L)) + my(K) /\ (la + mz(L)) + my(K) \in Nat
  <2>1. my(K) \in Nat
    BY <1>0, <1>5
  <2>2. azy \in Seq(Ops) /\ Len(azy) = (la + mz(L)) + my(K)
    BY ONLY <1>9 DEF IsJoined
  <2> QED BY <1>8, <2>1, <2>2
<1> HIDE DEF azy
<1>11. IsJoined(P, Ops, azy, e, (la + mz(L)) + my(K), 2)
  <2>1. IsJoined(azy \o e, Ops, azy, e, Len(azy), Len(e))
    BY ONLY <1>10, e \in Seq(Ops), Joined
  <2> QED BY <1>10, <2>1
<1>12. P = ((a \o Repeat(z, L)) \o Repeat(y, K)) \o e
  BY DEF P, azy, az, rz, ry
<1> HIDE DEF P, la
<1> DEFINE b == la + mz(L)
           d == b + my(K)
<1>13. b \in Nat /\ d \in Nat
  BY <1>8, <1>10
<1>14. /\ \A j \in 1 .. la : az[j] = a[j]
       /\ \A j \in 1 .. mz(L) : az[la + j] = rz[j]
  BY ONLY <1>7 DEF IsJoined
<1>15. /\ \A j \in 1 .. b : azy[j] = az[j]
       /\ \A j \in 1 .. my(K) : azy[b + j] = ry[j]
  BY ONLY <1>9 DEF IsJoined
<1>16. /\ P \in Seq(Ops) /\ Len(P) = d + 2
       /\ \A j \in 1 .. d : P[j] = azy[j]
       /\ \A j \in 1 .. 2 : P[d + j] = e[j]
  BY ONLY <1>11 DEF IsJoined
<1>17. mz(L) \in Nat /\ my(K) \in Nat /\ la \in Nat
  BY <1>0, <1>5, <1>6
<1>18. \A j \in 1 .. b : P[j] = az[j]
  BY ONLY <1>13, <1>15, <1>16, <1>17
<1>19. \A j \in 1 .. la : P[j] = a[j]
  BY ONLY <1>14, <1>17, <1>18
<1>20. \A j \in 1 .. mz(L) : P[la + j] = rz[j]
  <2> TAKE j \in 1 .. mz(L)
  <2>1. la + j \in 1 .. b
    BY <1>17
  <2> QED BY <1>14, <1>18, <2>1
<1>21. \A j \in 1 .. my(K) : P[b + j] = ry[j]
  <2> TAKE j \in 1 .. my(K)
  <2>1. b + j \in 1 .. d
    BY <1>13, <1>17
  <2> QED BY <1>15, <1>16, <2>1
<1>22. \A l \in 0 .. L - 1, j \in 1 .. cz : P[la + (mz(l) + j)] = z[l][j]
  <2> TAKE l \in 0 .. L - 1, j \in 1 .. cz
  <2>0. l \in Nat
    OBVIOUS
  <2>3. mz(l) \in Nat /\ mz(l) + cz <= mz(L)
    BY <1>5, <2>0
  <2>1. mz(l) + j \in 1 .. mz(L)
    BY <1>17, <2>3
  <2>2. rz[mz(l) + j] = z[l][j]
    BY <1>1 DEF mz
  <2> QED BY <1>20, <2>1, <2>2
<1>23. \A k \in 0 .. K - 1, j \in 1 .. cy : P[(b + my(k)) + j] = y[k][j]
  <2> TAKE k \in 0 .. K - 1, j \in 1 .. cy
  <2>0. k \in Nat
    OBVIOUS
  <2>3. my(k) \in Nat /\ my(k) + cy <= my(K)
    BY <1>5, <2>0
  <2>1. my(k) + j \in 1 .. my(K) /\ (b + my(k)) + j = b + (my(k) + j)
    <3>1. b \in Nat /\ cy \in Nat /\ my(K) \in Nat /\ j \in 1 .. cy
      BY <1>13, <1>17
    <3> HIDE DEF my, b
    <3> QED BY ONLY <2>3, <3>1
  <2>2. ry[my(k) + j] = y[k][j]
    BY <1>2 DEF my
  <2> QED BY <1>21, <2>1, <2>2
<1>24. ASSUME NEW p \in 1 .. Len(P)
       PROVE  \/ p \in 1 .. la
              \/ \E l \in 0 .. L - 1, j \in 1 .. cz : p = la + (mz(l) + j)
              \/ \E k \in 0 .. K - 1, j \in 1 .. cy : p = (b + my(k)) + j
              \/ p \in d + 1 .. d + 2
  <2>1. CASE p <= la
    BY <1>17, <2>1
  <2>2. CASE la < p /\ p <= b
    <3>1. p - la \in 1 .. mz(L)
      BY <1>13, <1>17, <2>2
    <3>2. PICK l \in 0 .. L - 1, j \in 1 .. cz : p - la = mz(l) + j
      BY <1>3, <3>1 DEF mz
    <3>3. p = la + (mz(l) + j)
      <4>1. mz(l) \in Nat /\ p \in Int /\ j \in Int
        BY <1>5
      <4> QED BY <1>17, <3>2, <4>1
    <3> QED BY <3>3
  <2>3. CASE b < p /\ p <= d
    <3>1. p - b \in 1 .. my(K)
      BY <1>13, <1>17, <2>3
    <3>2. PICK k \in 0 .. K - 1, j \in 1 .. cy : p - b = my(k) + j
      BY <1>4, <3>1 DEF my
    <3>3. p = (b + my(k)) + j
      <4>1. my(k) \in Nat /\ p \in Int /\ j \in Int
        BY <1>5
      <4>2. b \in Int /\ my(k) \in Int
        BY <1>13, <4>1
      <4> DEFINE u == my(k)
      <4> HIDE DEF b, u
      <4>3. u \in Int /\ b \in Int /\ p - b = u + j
        BY <3>2, <4>2 DEF u
      <4>4. p = (b + u) + j
        BY ONLY <4>1, <4>3
      <4> QED BY <4>4 DEF u
    <3> QED BY <3>3
  <2>4. CASE d < p
    BY <1>13, <1>16, <2>4
  <2>5. p <= la \/ (la < p /\ p <= b) \/ (b < p /\ p <= d) \/ d < p
    BY <1>13, <1>17
  <2> QED BY <2>1, <2>2, <2>3, <2>4, <2>5
<1>25. HasParts(P, la, z, cz, y, cy, e)
  BY ONLY <1>16, <1>22, <1>23, <1>24 DEF HasParts, mz, my
<1> QED BY <1>12, <1>19, <1>25 DEF la, IsProgram

-----------------------------------------------------------------------------
(* The instructions of rej_loop_128t, by index.                            *)
Code128 == Programs["rej_loop_128t"]
\* Where the check of z[l] begins, and where polynomial k does.
AtCheck(l) == 2 + 4 * l
At128(k) == 2 + 4 * L + 26 * k

\* The instructions of a polynomial.
PolyTable(P, a, k) ==
  /\ P[a + 1] = <<"sync">> /\ P[a + 2] = <<"vote", <<"s2", k>>>>
  /\ P[a + 3] = <<"sync">> /\ P[a + 4] = <<"check">>
  /\ P[a + 5] = <<"sync">> /\ P[a + 6] = <<"vote", <<"t0", k>>>>
  /\ P[a + 7] = <<"sync">> /\ P[a + 8] = <<"check">>
  /\ P[a + 9] = <<"count", k, 0>> /\ P[a + 10] = <<"sync">> /\ P[a + 11] = <<"sum">>
  /\ P[a + 12] = <<"sync">> /\ P[a + 13] = <<"bound">> /\ P[a + 14] = <<"place", k, 0>>
  /\ P[a + 15] = <<"sync">> /\ P[a + 16] = <<"advance">>
  /\ P[a + 17] = <<"count", k, 1>> /\ P[a + 18] = <<"sync">> /\ P[a + 19] = <<"sum">>
  /\ P[a + 20] = <<"sync">> /\ P[a + 21] = <<"bound">> /\ P[a + 22] = <<"place", k, 1>>
  /\ P[a + 23] = <<"sync">> /\ P[a + 24] = <<"advance">>
  /\ P[a + 25] = <<"last", k>> /\ P[a + 26] = <<"sync">>

\* Every instruction of rej_loop_128t.
LEMMA Table128 ==
  LET P == Code128
  IN  /\ P \in Seq(Ops) /\ Len(P) = At128(K) + 2
      /\ P[1] = <<"init">> /\ P[2] = <<"sync">>
      /\ \A l \in 0 .. L - 1 :
           /\ P[AtCheck(l) + 1] = <<"sync">> /\ P[AtCheck(l) + 2] = <<"vote", <<"z", l>>>>
           /\ P[AtCheck(l) + 3] = <<"sync">> /\ P[AtCheck(l) + 4] = <<"check">>
      /\ \A k \in 0 .. K - 1 : PolyTable(P, At128(k), k)
      /\ P[At128(K) + 1] = <<"copy">> /\ P[At128(K) + 2] = <<"done">>
      /\ \A p \in 1 .. Len(P) :
           \/ p \in {1, 2}
           \/ \E l \in 0 .. L - 1, j \in 1 .. 4 : p = AtCheck(l) + j
           \/ \E k \in 0 .. K - 1, j \in 1 .. 26 : p = At128(k) + j
           \/ p \in {At128(K) + 1, At128(K) + 2}
<1> DEFINE a == <<<<"init">>, Sync>>
           z == [l \in 0 .. L - 1 |-> Check128(<<"z", l>>)]
           y == [k \in 0 .. K - 1 |-> Poly128(k)]
           e == <<<<"copy">>, <<"done">>>>
           P == ((a \o Repeat(z, L)) \o Repeat(y, K)) \o e
<1>0. L \in Nat /\ K \in Nat
  BY RejAssumption, EncodingAssumption
<1>1. a \in Seq(Ops) /\ Len(a) = 2 /\ a[1] = <<"init">> /\ a[2] = <<"sync">>
  <2>1. <<"init">> \in Ops /\ <<"sync">> \in Ops
    BY DEF Ops
  <2> QED BY <2>1 DEF Sync
<1>2. e \in Seq(Ops) /\ Len(e) = 2 /\ e[1] = <<"copy">> /\ e[2] = <<"done">>
  <2>1. <<"copy">> \in Ops /\ <<"done">> \in Ops
    BY DEF Ops
  <2> QED BY <2>1
<1>3. \A l \in 0 .. L - 1 :
        /\ z[l] \in Seq(Ops) /\ Len(z[l]) = 4
        /\ z[l][1] = <<"sync">> /\ z[l][2] = <<"vote", <<"z", l>>>>
        /\ z[l][3] = <<"sync">> /\ z[l][4] = <<"check">>
  <2> TAKE l \in 0 .. L - 1
  <2>1. <<"z", l>> \in CheckNames
    BY DEF CheckNames
  <2>2. z[l] = Check128(<<"z", l>>)
    OBVIOUS
  <2> QED BY <2>1, <2>2, Check128Lemma
<1>4. \A k \in 0 .. K - 1 : y[k] \in Seq(Ops) /\ Len(y[k]) = 26 /\ y[k] = Poly128(k)
  <2> TAKE k \in 0 .. K - 1
  <2>1. y[k] = Poly128(k)
    OBVIOUS
  <2> QED BY <2>1, Poly128Lemma
<1>5. Code128 = P
  BY DEF Code128, Programs
<1> HIDE DEF a, z, y, e
<1>6. HasParts(P, Len(a), z, 4, y, 26, e) /\ \A j \in 1 .. Len(a) : P[j] = a[j]
  <2>1. 4 \in Nat \ {0} /\ 26 \in Nat \ {0}
    OBVIOUS
  <2>2. AreParts(z, L, 4)
    BY <1>3 DEF AreParts
  <2>3. AreParts(y, K, 26)
    BY <1>4 DEF AreParts
  <2>5. a \in Seq(Ops) /\ e \in Seq(Ops) /\ Len(e) = 2
    BY <1>1, <1>2
  <2>4. IsProgram(((a \o Repeat(z, L)) \o Repeat(y, K)) \o e, a, z, 4, y, 26, e)
    BY ONLY <2>1, <2>2, <2>3, <2>5, PartsLemma
  <2>6. IsProgram(P, a, z, 4, y, 26, e)
    BY <2>4
  <2> HIDE DEF P
  <2> QED BY <2>6 DEF IsProgram
<1> HIDE DEF P
<1>7. HasParts(P, 2, z, 4, y, 26, e) /\ \A j \in 1 .. 2 : P[j] = a[j]
  BY <1>1, <1>6
<1>8. P \in Seq(Ops) /\ Len(P) = At128(K) + 2
  BY <1>7 DEF HasParts, At128
<1>9. P[1] = <<"init">> /\ P[2] = <<"sync">>
  BY <1>1, <1>7
<1>10. \A l \in 0 .. L - 1 :
           /\ P[AtCheck(l) + 1] = <<"sync">> /\ P[AtCheck(l) + 2] = <<"vote", <<"z", l>>>>
           /\ P[AtCheck(l) + 3] = <<"sync">> /\ P[AtCheck(l) + 4] = <<"check">>
  <2>1. \A l \in 0 .. L - 1, j \in 1 .. 4 : P[2 + (4 * l + j)] = z[l][j]
    BY <1>7 DEF HasParts
  <2>2. \A l \in 0 .. L - 1, j \in 1 .. 4 : P[AtCheck(l) + j] = z[l][j]
    <3> TAKE l \in 0 .. L - 1, j \in 1 .. 4
    <3>1. AtCheck(l) + j = 2 + (4 * l + j)
      BY DEF AtCheck
    <3> QED BY <2>1, <3>1
  <2> TAKE l \in 0 .. L - 1
  <2> DEFINE at == AtCheck(l)
             q == z[l]
  <2>3. \A j \in 1 .. 4 : P[at + j] = q[j]
    BY <2>2
  <2>4. q[1] = <<"sync">> /\ q[2] = <<"vote", <<"z", l>>>> /\ q[3] = <<"sync">> /\ q[4] = <<"check">>
    BY <1>3
  <2> HIDE DEF at, q
  <2>5. P[at + 1] = q[1] /\ P[at + 2] = q[2] /\ P[at + 3] = q[3] /\ P[at + 4] = q[4]
    BY ONLY <2>3
  <2> QED BY <2>4, <2>5 DEF at
<1>11. \A k \in 0 .. K - 1 : PolyTable(P, At128(k), k)
  <2> TAKE k \in 0 .. K - 1
  <2>1. \A j \in 1 .. 26 : P[At128(k) + j] = Poly128(k)[j]
    <3>1. \A j \in 1 .. 26 : P[(2 + 4 * L) + 26 * k + j] = y[k][j]
      BY ONLY <1>7 DEF HasParts
    <3>2. y[k] = Poly128(k)
      BY <1>4
    <3> QED BY <3>1, <3>2 DEF At128
  <2> DEFINE at == At128(k)
             q == Poly128(k)
  <2>2. \A j \in 1 .. 26 : P[at + j] = q[j]
    BY <2>1
  <2> HIDE DEF at, q
  <2>3. /\ P[at + 1] = q[1] /\ P[at + 2] = q[2] /\ P[at + 3] = q[3] /\ P[at + 4] = q[4]
        /\ P[at + 5] = q[5] /\ P[at + 6] = q[6] /\ P[at + 7] = q[7] /\ P[at + 8] = q[8]
        /\ P[at + 9] = q[9] /\ P[at + 10] = q[10] /\ P[at + 11] = q[11] /\ P[at + 12] = q[12]
        /\ P[at + 13] = q[13] /\ P[at + 14] = q[14] /\ P[at + 15] = q[15] /\ P[at + 16] = q[16]
        /\ P[at + 17] = q[17] /\ P[at + 18] = q[18] /\ P[at + 19] = q[19] /\ P[at + 20] = q[20]
        /\ P[at + 21] = q[21] /\ P[at + 22] = q[22] /\ P[at + 23] = q[23] /\ P[at + 24] = q[24]
        /\ P[at + 25] = q[25] /\ P[at + 26] = q[26]
    BY ONLY <2>2
  <2> QED BY <2>3, Poly128Lemma DEF PolyTable, at, q
<1>12. P[At128(K) + 1] = <<"copy">> /\ P[At128(K) + 2] = <<"done">>
  BY <1>2, <1>7 DEF HasParts, At128
<1>13. \A p \in 1 .. Len(P) :
           \/ p \in {1, 2}
           \/ \E l \in 0 .. L - 1, j \in 1 .. 4 : p = AtCheck(l) + j
           \/ \E k \in 0 .. K - 1, j \in 1 .. 26 : p = At128(k) + j
           \/ p \in {At128(K) + 1, At128(K) + 2}
  <2> TAKE p \in 1 .. Len(P)
  <2>1. \/ p \in 1 .. 2
        \/ \E l \in 0 .. L - 1, j \in 1 .. 4 : p = 2 + (4 * l + j)
        \/ \E k \in 0 .. K - 1, j \in 1 .. 26 : p = At128(k) + j
        \/ p \in At128(K) + 1 .. At128(K) + 2
    BY <1>7 DEF HasParts, At128
  <2>2. ASSUME NEW l \in 0 .. L - 1, NEW j \in 1 .. 4, p = 2 + (4 * l + j)
        PROVE  p = AtCheck(l) + j
    BY <2>2 DEF AtCheck
  <2>3. ASSUME p \in At128(K) + 1 .. At128(K) + 2
        PROVE  p \in {At128(K) + 1, At128(K) + 2}
    <3>1. At128(K) \in Nat
      BY <1>0 DEF At128
    <3> QED BY <2>3, <3>1
  <2>4. p \in 1 .. 2 => p \in {1, 2}
    OBVIOUS
  <2> QED BY <2>1, <2>2, <2>3, <2>4
<1> QED BY ONLY <1>5, <1>8, <1>9, <1>10, <1>11, <1>12, <1>13

-----------------------------------------------------------------------------
(* The instructions of rej_loop_32t, by index.                             *)
Code32 == Programs["rej_loop_32t"]
\* Where the check of z[l] begins, and where polynomial k does.
AtVote(l) == 1 + 2 * l
At32(k) == (1 + 2 * L) + (Chunks + 5) * k

\* The sizes: a polynomial is two halves, a half is a warp of lanes often enough.
LEMMA ChunksLemma == /\ Lanes \in Nat \ {0} /\ NWarps \in Nat \ {0} /\ L \in Nat
                     /\ K \in Nat \ {0} /\ N \in Nat \ {0} /\ OMEGA \in Nat \ {0}
                     /\ BlockDim \in Nat \ {0} /\ N = BlockDim + BlockDim
                     /\ BlockDim = Lanes * NWarps
                     /\ Chunks = NWarps + NWarps /\ Chunks \in Nat \ {0} /\ N = Lanes * Chunks
<1>1. /\ Lanes \in Nat \ {0} /\ NWarps \in Nat \ {0} /\ L \in Nat
      /\ K \in Nat \ {0} /\ N \in Nat \ {0} /\ OMEGA \in Nat \ {0}
      /\ N = BlockDim + BlockDim
  BY EncodingAssumption, RejAssumption
<1>2. BlockDim = Lanes * NWarps
  BY <1>1 DEF BlockDim
<1>3. N = Lanes * (NWarps + NWarps)
  BY <1>1, <1>2
<1>4. Chunks = NWarps + NWarps
  <2>1. \A x, q \in Nat, d \in Nat \ {0} : x = d * q => x \div d = q
    OBVIOUS
  <2> QED BY <1>1, <1>3, <2>1 DEF Chunks
<1>5. BlockDim \in Nat
  BY <1>1, <1>2
<1>6. BlockDim # 0
  BY <1>1, <1>5
<1> QED BY <1>1, <1>2, <1>3, <1>4, <1>5, <1>6

\* The instructions of a check of one warp,
LEMMA Check32Lemma ==
  ASSUME NEW c \in CheckNames
  PROVE  /\ Check32(c) \in Seq(Ops) /\ Len(Check32(c)) = 2
         /\ Check32(c)[1] = <<"vote", c>> /\ Check32(c)[2] = <<"check">>
<1>1. {<<"vote", c>>, <<"check">>} \subseteq Ops
  BY DEF Ops
<1> QED BY <1>1 DEF Check32

\* and of a polynomial.
LEMMA Poly32Lemma ==
  ASSUME NEW k \in 0 .. K - 1
  PROVE  LET p == Poly32(k)
         IN  /\ p \in Seq(Ops) /\ Len(p) = Chunks + 5
             /\ p[1] = <<"vote", <<"s2", k>>>> /\ p[2] = <<"check">>
             /\ p[3] = <<"vote", <<"t0", k>>>> /\ p[4] = <<"check">>
             /\ \A i \in 1 .. Chunks : p[4 + i] = <<"chunk", k, i - 1>>
             /\ p[Chunks + 5] = <<"last", k>>
<1> DEFINE a == Check32(<<"s2", k>>)
           b == Check32(<<"t0", k>>)
           c == Chunk32(k)
           e == <<<<"last", k>>>>
           n == Chunks
<1>0. n \in Nat
  BY ChunksLemma
<1>1. <<"s2", k>> \in CheckNames /\ <<"t0", k>> \in CheckNames
  BY DEF CheckNames
<1>2. /\ a \in Seq(Ops) /\ Len(a) = 2 /\ a[1] = <<"vote", <<"s2", k>>>> /\ a[2] = <<"check">>
      /\ b \in Seq(Ops) /\ Len(b) = 2 /\ b[1] = <<"vote", <<"t0", k>>>> /\ b[2] = <<"check">>
  BY <1>1, Check32Lemma
<1>3. /\ c \in Seq(Ops) /\ Len(c) = n
      /\ \A i \in 1 .. n : c[i] = <<"chunk", k, i - 1>>
  <2>1. \A i \in 1 .. n : <<"chunk", k, i - 1>> \in Ops
    <3> TAKE i \in 1 .. n
    <3>1. i - 1 \in 0 .. Chunks - 1
      BY <1>0
    <3> QED BY <3>1 DEF Ops
  <2>2. c = [i \in 1 .. n |-> <<"chunk", k, i - 1>>]
    BY DEF Chunk32
  <2> HIDE DEF c, n
  <2>3. c \in [1 .. n -> Ops]
    BY <2>1, <2>2
  <2> QED BY <1>0, <2>2, <2>3
<1>4. e \in Seq(Ops) /\ Len(e) = 1 /\ e[1] = <<"last", k>>
  <2>1. <<"last", k>> \in Ops
    BY DEF Ops
  <2> QED BY <2>1
<1>5. Poly32(k) = ((a \o b) \o c) \o e
  BY DEF Poly32
<1> HIDE DEF a, b, c, e
<1> DEFINE ab == a \o b
           abc == ab \o c
           p == abc \o e
<1>6. IsJoined(ab, Ops, a, b, 2, 2)
  <2>1. IsJoined(a \o b, Ops, a, b, Len(a), Len(b))
    BY ONLY <1>2, Joined
  <2> QED BY ONLY <1>2, <2>1
<1>7. ab \in Seq(Ops) /\ Len(ab) = 4
  BY ONLY <1>6 DEF IsJoined
<1> HIDE DEF ab, n
<1>8. IsJoined(abc, Ops, ab, c, 4, n)
  <2>1. IsJoined(ab \o c, Ops, ab, c, Len(ab), Len(c))
    BY ONLY <1>3, <1>7, Joined
  <2> QED BY ONLY <1>3, <1>7, <2>1
<1>9. abc \in Seq(Ops) /\ Len(abc) = 4 + n
  BY ONLY <1>8 DEF IsJoined
<1> HIDE DEF abc
<1>10. IsJoined(p, Ops, abc, e, 4 + n, 1)
  <2>1. IsJoined(abc \o e, Ops, abc, e, Len(abc), Len(e))
    BY ONLY <1>4, <1>9, Joined
  <2> QED BY ONLY <1>4, <1>9, <2>1
<1>11. p \in Seq(Ops) /\ Len(p) = n + 5
  <2>1. p \in Seq(Ops) /\ Len(p) = (4 + n) + 1
    BY ONLY <1>10 DEF IsJoined
  <2> QED BY <1>0, <2>1
<1>12. Poly32(k) = p
  BY <1>5 DEF ab, abc
<1> HIDE DEF p
<1>13. /\ \A j \in 1 .. 2 : ab[j] = a[j]
       /\ \A j \in 1 .. 2 : ab[2 + j] = b[j]
  BY ONLY <1>6 DEF IsJoined
<1>14. /\ \A j \in 1 .. 4 : abc[j] = ab[j]
       /\ \A j \in 1 .. n : abc[4 + j] = c[j]
  BY ONLY <1>8 DEF IsJoined
<1>15. /\ \A j \in 1 .. 4 + n : p[j] = abc[j]
       /\ \A j \in 1 .. 1 : p[(4 + n) + j] = e[j]
  BY ONLY <1>10 DEF IsJoined
<1>16. p[1] = a[1] /\ p[2] = a[2] /\ p[3] = b[1] /\ p[4] = b[2]
  <2>1. ab[1] = a[1] /\ ab[2] = a[2] /\ ab[3] = b[1] /\ ab[4] = b[2]
    BY ONLY <1>13
  <2>2. abc[1] = ab[1] /\ abc[2] = ab[2] /\ abc[3] = ab[3] /\ abc[4] = ab[4]
    BY ONLY <1>14
  <2>3. p[1] = abc[1] /\ p[2] = abc[2] /\ p[3] = abc[3] /\ p[4] = abc[4]
    BY ONLY <1>0, <1>15
  <2> QED BY ONLY <2>1, <2>2, <2>3
<1>17. \A i \in 1 .. n : p[4 + i] = <<"chunk", k, i - 1>>
  <2>1. \A i \in 1 .. n : p[4 + i] = abc[4 + i]
    BY ONLY <1>0, <1>15
  <2> QED BY ONLY <1>3, <1>14, <2>1
<1>18. p[n + 5] = <<"last", k>>
  <2>1. p[(4 + n) + 1] = e[1]
    BY ONLY <1>15
  <2>2. (4 + n) + 1 = n + 5
    BY <1>0
  <2> QED BY ONLY <1>4, <2>1, <2>2
<1> QED BY ONLY <1>2, <1>11, <1>12, <1>16, <1>17, <1>18 DEF n

PolyTable32(P, a, k) ==
  /\ P[a + 1] = <<"vote", <<"s2", k>>>> /\ P[a + 2] = <<"check">>
  /\ P[a + 3] = <<"vote", <<"t0", k>>>> /\ P[a + 4] = <<"check">>
  /\ \A i \in 1 .. Chunks : P[a + (4 + i)] = <<"chunk", k, i - 1>>
  /\ P[a + (Chunks + 5)] = <<"last", k>>

\* Every instruction of rej_loop_32t.
LEMMA Table32 ==
  LET P == Code32
  IN  /\ P \in Seq(Ops) /\ Len(P) = At32(K) + 2
      /\ P[1] = <<"init">>
      /\ \A l \in 0 .. L - 1 :
           P[AtVote(l) + 1] = <<"vote", <<"z", l>>>> /\ P[AtVote(l) + 2] = <<"check">>
      /\ \A k \in 0 .. K - 1 : PolyTable32(P, At32(k), k)
      /\ P[At32(K) + 1] = <<"copy">> /\ P[At32(K) + 2] = <<"done">>
      /\ \A p \in 1 .. Len(P) :
           \/ p = 1
           \/ \E l \in 0 .. L - 1, j \in 1 .. 2 : p = AtVote(l) + j
           \/ \E k \in 0 .. K - 1, j \in 1 .. Chunks + 5 : p = At32(k) + j
           \/ p \in {At32(K) + 1, At32(K) + 2}
<1> DEFINE a == <<<<"init">>>>
           z == [l \in 0 .. L - 1 |-> Check32(<<"z", l>>)]
           y == [k \in 0 .. K - 1 |-> Poly32(k)]
           e == <<<<"copy">>, <<"done">>>>
           P == ((a \o Repeat(z, L)) \o Repeat(y, K)) \o e
           n == Chunks + 5
<1>0. L \in Nat /\ K \in Nat /\ Chunks \in Nat /\ n \in Nat \ {0}
  BY ChunksLemma
<1>1. a \in Seq(Ops) /\ Len(a) = 1 /\ a[1] = <<"init">>
  <2>1. <<"init">> \in Ops
    BY DEF Ops
  <2> QED BY <2>1
<1>2. e \in Seq(Ops) /\ Len(e) = 2 /\ e[1] = <<"copy">> /\ e[2] = <<"done">>
  <2>1. <<"copy">> \in Ops /\ <<"done">> \in Ops
    BY DEF Ops
  <2> QED BY <2>1
<1>3. \A l \in 0 .. L - 1 :
        /\ z[l] \in Seq(Ops) /\ Len(z[l]) = 2
        /\ z[l][1] = <<"vote", <<"z", l>>>> /\ z[l][2] = <<"check">>
  <2> TAKE l \in 0 .. L - 1
  <2>1. <<"z", l>> \in CheckNames
    BY DEF CheckNames
  <2>2. z[l] = Check32(<<"z", l>>)
    OBVIOUS
  <2> QED BY <2>1, <2>2, Check32Lemma
<1>4. \A k \in 0 .. K - 1 : y[k] \in Seq(Ops) /\ Len(y[k]) = n /\ y[k] = Poly32(k)
  <2> TAKE k \in 0 .. K - 1
  <2>1. y[k] = Poly32(k)
    OBVIOUS
  <2> QED BY <2>1, Poly32Lemma
<1>5. Code32 = P
  BY DEF Code32, Programs
<1> HIDE DEF a, z, y, e
<1>6. IsProgram(P, a, z, 2, y, n, e)
  <2>1. 2 \in Nat \ {0} /\ n \in Nat \ {0}
    BY <1>0
  <2>2. AreParts(z, L, 2)
    BY <1>3 DEF AreParts
  <2>3. AreParts(y, K, n)
    BY <1>4 DEF AreParts
  <2>5. a \in Seq(Ops) /\ e \in Seq(Ops) /\ Len(e) = 2
    BY <1>1, <1>2
  <2> HIDE DEF n
  <2>4. IsProgram(((a \o Repeat(z, L)) \o Repeat(y, K)) \o e, a, z, 2, y, n, e)
    BY ONLY <2>1, <2>2, <2>3, <2>5, PartsLemma
  <2> QED BY <2>4
<1> HIDE DEF P
<1>7. HasParts(P, 1, z, 2, y, n, e) /\ \A j \in 1 .. 1 : P[j] = a[j]
  BY <1>1, <1>6 DEF IsProgram
<1> HIDE DEF n
<1>20. \A k : (1 + 2 * L) + n * k = At32(k)
  BY DEF At32, n
<1>8. P \in Seq(Ops) /\ Len(P) = At32(K) + 2
  BY <1>7, <1>20 DEF HasParts
<1>9. P[1] = <<"init">>
  BY <1>1, <1>7
<1>10. \A l \in 0 .. L - 1 :
         P[AtVote(l) + 1] = <<"vote", <<"z", l>>>> /\ P[AtVote(l) + 2] = <<"check">>
  <2>1. \A l \in 0 .. L - 1, j \in 1 .. 2 : P[1 + (2 * l + j)] = z[l][j]
    BY <1>7 DEF HasParts
  <2>2. \A l \in 0 .. L - 1, j \in 1 .. 2 : P[AtVote(l) + j] = z[l][j]
    <3> TAKE l \in 0 .. L - 1, j \in 1 .. 2
    <3>1. AtVote(l) + j = 1 + (2 * l + j)
      BY DEF AtVote
    <3> QED BY <2>1, <3>1
  <2> TAKE l \in 0 .. L - 1
  <2> DEFINE at == AtVote(l)
             q == z[l]
  <2>3. \A j \in 1 .. 2 : P[at + j] = q[j]
    BY <2>2
  <2>4. q[1] = <<"vote", <<"z", l>>>> /\ q[2] = <<"check">>
    BY <1>3
  <2> HIDE DEF at, q
  <2>5. P[at + 1] = q[1] /\ P[at + 2] = q[2]
    BY ONLY <2>3
  <2> QED BY <2>4, <2>5 DEF at
<1>21. \A k \in 0 .. K - 1, j \in 1 .. n : P[At32(k) + j] = y[k][j]
  <2>1. \A k \in 0 .. K - 1, j \in 1 .. n : P[(1 + 2 * L) + n * k + j] = y[k][j]
    BY ONLY <1>7 DEF HasParts
  <2> QED BY ONLY <1>20, <2>1
<1>11. \A k \in 0 .. K - 1 : PolyTable32(P, At32(k), k)
  <2> TAKE k \in 0 .. K - 1
  <2> DEFINE at == At32(k)
             q == Poly32(k)
             m == Chunks
  <2>1. \A j \in 1 .. n : P[at + j] = q[j]
    BY <1>4, <1>21
  <2>2. m \in Nat /\ n = m + 5
    BY <1>0 DEF n
  <2>4. /\ q[1] = <<"vote", <<"s2", k>>>> /\ q[2] = <<"check">>
        /\ q[3] = <<"vote", <<"t0", k>>>> /\ q[4] = <<"check">>
        /\ \A i \in 1 .. m : q[4 + i] = <<"chunk", k, i - 1>>
        /\ q[m + 5] = <<"last", k>>
    BY Poly32Lemma
  <2> HIDE DEF at, q, m
  <2>3. /\ P[at + 1] = q[1] /\ P[at + 2] = q[2] /\ P[at + 3] = q[3] /\ P[at + 4] = q[4]
    BY ONLY <2>1, <2>2
  <2>5. P[at + (m + 5)] = q[m + 5]
    BY ONLY <2>1, <2>2
  <2>6. \A i \in 1 .. m : P[at + (4 + i)] = q[4 + i]
    <3> TAKE i \in 1 .. m
    <3>1. 4 + i \in 1 .. n
      BY <2>2
    <3> QED BY <2>1, <3>1
  <2> QED BY <2>3, <2>4, <2>5, <2>6 DEF PolyTable32, at, m
<1>12. P[At32(K) + 1] = <<"copy">> /\ P[At32(K) + 2] = <<"done">>
  <2>1. \A j \in 1 .. 2 : P[((1 + 2 * L) + n * K) + j] = e[j]
    BY ONLY <1>7 DEF HasParts
  <2>2. \A j \in 1 .. 2 : P[At32(K) + j] = e[j]
    BY <1>20, <2>1
  <2> QED BY <1>2, <2>2
<1>13. \A p \in 1 .. Len(P) :
           \/ p = 1
           \/ \E l \in 0 .. L - 1, j \in 1 .. 2 : p = AtVote(l) + j
           \/ \E k \in 0 .. K - 1, j \in 1 .. n : p = At32(k) + j
           \/ p \in {At32(K) + 1, At32(K) + 2}
  <2> TAKE p \in 1 .. Len(P)
  <2>1. \/ p \in 1 .. 1
        \/ \E l \in 0 .. L - 1, j \in 1 .. 2 : p = 1 + (2 * l + j)
        \/ \E k \in 0 .. K - 1, j \in 1 .. n : p = At32(k) + j
        \/ p \in At32(K) + 1 .. At32(K) + 2
    BY <1>7, <1>20 DEF HasParts
  <2>2. ASSUME NEW l \in 0 .. L - 1, NEW j \in 1 .. 2, p = 1 + (2 * l + j)
        PROVE  p = AtVote(l) + j
    BY <2>2 DEF AtVote
  <2>3. ASSUME p \in At32(K) + 1 .. At32(K) + 2
        PROVE  p \in {At32(K) + 1, At32(K) + 2}
    <3>1. At32(K) \in Nat
      <4>1. n * K \in Nat /\ At32(K) = (1 + 2 * L) + n * K
        BY <1>0, <1>20
      <4> QED BY <1>0, <4>1
    <3> QED BY <2>3, <3>1
  <2>4. p \in 1 .. 1 => p = 1
    OBVIOUS
  <2> QED BY <2>1, <2>2, <2>3, <2>4
<1> QED BY ONLY <1>5, <1>8, <1>9, <1>10, <1>11, <1>12, <1>13 DEF n

-----------------------------------------------------------------------------
(* What both programs have in common: their shape.                         *)

\* A half of polynomial k of a block begins at c.
IsHalf(P, c, k, half) ==
  /\ c \in 1 .. Len(P) /\ c + 7 \in 1 .. Len(P)
  /\ k \in 0 .. K - 1 /\ half \in {0, 1}
  /\ P[c] = <<"count", k, half>> /\ P[c + 1] = <<"sync">> /\ P[c + 2] = <<"sum">>
  /\ P[c + 3] = <<"sync">> /\ P[c + 4] = <<"bound">> /\ P[c + 5] = <<"place", k, half>>
  /\ P[c + 6] = <<"sync">> /\ P[c + 7] = <<"advance">>

\* The codes of the positions of a polynomial begin with Start(k).
Start(k) == k * N
HalfStart(k, half) == Start(k) + (IF half = 0 THEN 0 ELSE BlockDim)
ChunkStart(k, i) == Start(k) + Lanes * i

\* Up to which code an instruction takes in hints.
Advancing(P, q) == P[q] = <<"advance">> \/ \E k \in 0 .. K - 1, i \in 0 .. Chunks - 1 : P[q] = <<"chunk", k, i>>
Ends(P, q, s) ==
  \/ \E c, k, half : IsHalf(P, c, k, half) /\ q = c + 7 /\ s = HalfStart(k, half) + BlockDim
  \/ \E k \in 0 .. K - 1, i \in 0 .. Chunks - 1 : P[q] = <<"chunk", k, i>> /\ s = ChunkStart(k, i) + Lanes
\* The hints up to code s are taken in before p.
Preceded(P, p, s) ==
  \/ s = 0 /\ \A q \in 1 .. p - 1 : ~Advancing(P, q)
  \/ \E a \in 1 .. p - 1 : Ends(P, a, s) /\ \A q \in a .. p - 1 : Advancing(P, q) => q = a

\* The instructions of a block.
Kinds128(P, p) ==
  \/ p = 1 /\ P[p] = <<"init">>
  \/ P[p] = <<"sync">>
  \/ \E c \in CheckNames : P[p] = <<"vote", c>> /\ p > 2 /\ P[p - 1] = <<"sync">>
  \/ P[p] = <<"check">> /\ p > 2 /\ P[p - 1] = <<"sync">>
  \/ \E c, k, half : IsHalf(P, c, k, half) /\ c = At128(k) + 9 + 8 * half /\ p \in {c, c + 2, c + 4, c + 5, c + 7}
  \/ \E k \in 0 .. K - 1 : P[p] = <<"last", k>> /\ p = At128(k) + 25
  \/ P[p] = <<"copy">> /\ p = Len(P) - 1 /\ p > 2 /\ P[p - 1] = <<"sync">>
  \/ P[p] = <<"done">> /\ p = Len(P)

\* The halves of rej_loop_128t.
LEMMA HalvesLemma ==
  \A k \in 0 .. K - 1, half \in {0, 1} : IsHalf(Code128, At128(k) + 9 + 8 * half, k, half)
<1> DEFINE P == Code128
<1> SUFFICES ASSUME NEW k \in 0 .. K - 1, NEW half \in {0, 1}
             PROVE  IsHalf(P, At128(k) + 9 + 8 * half, k, half)
  OBVIOUS
<1>1. PolyTable(P, At128(k), k) /\ Len(P) = At128(K) + 2
  BY Table128
<1>2. At128(k) \in Nat /\ At128(k) + 26 <= At128(K)
  <2>1. k \in Nat /\ K \in Nat /\ L \in Nat /\ k + 1 <= K
    BY ChunksLemma
  <2> QED BY <2>1 DEF At128
<1> DEFINE a == At128(k)
<1>3. \A j \in 1 .. 26 : a + j \in 1 .. Len(P)
  <2> DEFINE b == At128(K)
  <2>1. b \in Int
    BY ChunksLemma DEF At128
  <2>2. a \in Nat /\ a + 26 <= b /\ Len(P) = b + 2
    BY <1>1, <1>2
  <2> HIDE DEF a, b, P
  <2> QED BY <2>1, <2>2
<1>4. a \in Nat /\ PolyTable(P, a, k)
  BY <1>1, <1>2
<1> HIDE DEF P, a
<1>5. CASE half = 0
  <2> DEFINE c == a + 9
  <2>1. /\ c = a + 9 + 8 * half /\ c + 1 = a + 10 /\ c + 2 = a + 11 /\ c + 3 = a + 12
        /\ c + 4 = a + 13 /\ c + 5 = a + 14 /\ c + 6 = a + 15 /\ c + 7 = a + 16
    BY <1>4, <1>5
  <2>2. c \in 1 .. Len(P) /\ c + 7 \in 1 .. Len(P)
    BY <1>3, <2>1
  <2> HIDE DEF c
  <2>3. /\ P[c] = <<"count", k, 0>> /\ P[c + 1] = <<"sync">> /\ P[c + 2] = <<"sum">>
        /\ P[c + 3] = <<"sync">> /\ P[c + 4] = <<"bound">> /\ P[c + 5] = <<"place", k, 0>>
        /\ P[c + 6] = <<"sync">> /\ P[c + 7] = <<"advance">>
    BY ONLY <1>4, <2>1 DEF PolyTable, c
  <2>4. IsHalf(P, c, k, half)
    BY <1>5, <2>2, <2>3 DEF IsHalf
  <2> QED BY <2>1, <2>4 DEF a
<1>6. CASE half = 1
  <2> DEFINE c == a + 17
  <2>1. /\ c = a + 9 + 8 * half /\ c + 1 = a + 18 /\ c + 2 = a + 19 /\ c + 3 = a + 20
        /\ c + 4 = a + 21 /\ c + 5 = a + 22 /\ c + 6 = a + 23 /\ c + 7 = a + 24
    BY <1>4, <1>6
  <2>2. c \in 1 .. Len(P) /\ c + 7 \in 1 .. Len(P)
    BY <1>3, <2>1
  <2> HIDE DEF c
  <2>3. /\ P[c] = <<"count", k, 1>> /\ P[c + 1] = <<"sync">> /\ P[c + 2] = <<"sum">>
        /\ P[c + 3] = <<"sync">> /\ P[c + 4] = <<"bound">> /\ P[c + 5] = <<"place", k, 1>>
        /\ P[c + 6] = <<"sync">> /\ P[c + 7] = <<"advance">>
    BY ONLY <1>4, <2>1 DEF PolyTable, c
  <2>4. IsHalf(P, c, k, half)
    BY <1>6, <2>2, <2>3 DEF IsHalf
  <2> QED BY <2>1, <2>4 DEF a
<1> QED BY <1>5, <1>6

\* The kind of an instruction of rej_loop_128t says where it is.
LEMMA Kinds128Lemma == \A p \in 1 .. Len(Code128) : Kinds128(Code128, p)
<1> DEFINE P == Code128
<1> SUFFICES ASSUME NEW p \in 1 .. Len(P) PROVE Kinds128(P, p)
  OBVIOUS
<1>0. L \in Nat /\ K \in Nat \ {0} /\ 0 \in 0 .. K - 1 /\ K - 1 \in 0 .. K - 1
  BY ChunksLemma
<1>1. P \in Seq(Ops) /\ Len(P) = At128(K) + 2 /\ P[1] = <<"init">> /\ P[2] = <<"sync">>
      /\ P[At128(K) + 1] = <<"copy">> /\ P[At128(K) + 2] = <<"done">>
  BY Table128
<1>2. ASSUME NEW l \in 0 .. L - 1
      PROVE  /\ P[AtCheck(l) + 1] = <<"sync">> /\ P[AtCheck(l) + 2] = <<"vote", <<"z", l>>>>
             /\ P[AtCheck(l) + 3] = <<"sync">> /\ P[AtCheck(l) + 4] = <<"check">>
             /\ AtCheck(l) \in Nat /\ AtCheck(l) >= 2 /\ <<"z", l>> \in CheckNames
  <2>1. AtCheck(l) \in Nat /\ AtCheck(l) >= 2
    BY DEF AtCheck
  <2>2. <<"z", l>> \in CheckNames
    BY DEF CheckNames
  <2> QED BY <2>1, <2>2, Table128
<1>3. ASSUME NEW k \in 0 .. K - 1
      PROVE  /\ PolyTable(P, At128(k), k) /\ At128(k) \in Nat /\ At128(k) >= 2
             /\ <<"s2", k>> \in CheckNames /\ <<"t0", k>> \in CheckNames
             /\ IsHalf(P, At128(k) + 9 + 8 * 0, k, 0) /\ IsHalf(P, At128(k) + 9 + 8 * 1, k, 1)
  <2>1. At128(k) \in Nat /\ At128(k) >= 2
    BY <1>0 DEF At128
  <2>2. <<"s2", k>> \in CheckNames /\ <<"t0", k>> \in CheckNames
    BY DEF CheckNames
  <2> QED BY <2>1, <2>2, Table128, HalvesLemma
<1>4. \/ p \in {1, 2}
      \/ \E l \in 0 .. L - 1, j \in 1 .. 4 : p = AtCheck(l) + j
      \/ \E k \in 0 .. K - 1, j \in 1 .. 26 : p = At128(k) + j
      \/ p \in {At128(K) + 1, At128(K) + 2}
  BY Table128
<1> HIDE DEF P
<1>5. CASE p \in {1, 2}
  BY <1>1, <1>5 DEF Kinds128
<1>6. ASSUME NEW l \in 0 .. L - 1, NEW j \in 1 .. 4, p = AtCheck(l) + j
      PROVE  Kinds128(P, p)
  <2> DEFINE a == AtCheck(l)
  <2>1. /\ P[a + 1] = <<"sync">> /\ P[a + 2] = <<"vote", <<"z", l>>>>
        /\ P[a + 3] = <<"sync">> /\ P[a + 4] = <<"check">>
        /\ a \in Nat /\ a >= 2 /\ <<"z", l>> \in CheckNames /\ p = a + j
    BY <1>2, <1>6
  <2> HIDE DEF a
  <2>2. j = 1 \/ j = 2 \/ j = 3 \/ j = 4
    OBVIOUS
  <2>3. CASE j = 1 \/ j = 3
    BY <2>1, <2>3 DEF Kinds128
  <2>4. CASE j = 2
    <3>1. p > 2 /\ p - 1 = a + 1
      BY <2>1, <2>4
    <3> QED BY <2>1, <2>4, <3>1 DEF Kinds128
  <2>5. CASE j = 4
    <3>1. p > 2 /\ p - 1 = a + 3
      BY <2>1, <2>5
    <3> QED BY <2>1, <2>5, <3>1 DEF Kinds128
  <2> QED BY <2>2, <2>3, <2>4, <2>5
<1>7. ASSUME NEW k \in 0 .. K - 1, NEW j \in 1 .. 26, p = At128(k) + j
      PROVE  Kinds128(P, p)
  <2> DEFINE a == At128(k)
  <2>1. /\ PolyTable(P, a, k) /\ a \in Nat /\ a >= 2 /\ p = a + j
        /\ <<"s2", k>> \in CheckNames /\ <<"t0", k>> \in CheckNames
        /\ IsHalf(P, a + 9 + 8 * 0, k, 0) /\ IsHalf(P, a + 9 + 8 * 1, k, 1)
    BY <1>3, <1>7
  <2>2. CASE j \in {1, 3, 5, 7, 10, 12, 15, 18, 20, 23, 26}
    <3>1. P[p] = <<"sync">>
      <4> HIDE DEF a
      <4> QED BY <2>1, <2>2 DEF PolyTable
    <3> QED BY <3>1 DEF Kinds128
  <2>3. CASE j = 2 \/ j = 6
    <3> HIDE DEF a
    <3>1. p > 2 /\ (j = 2 => p - 1 = a + 1) /\ (j = 6 => p - 1 = a + 5)
      BY <2>1, <2>3
    <3> QED BY <2>1, <2>3, <3>1 DEF Kinds128, PolyTable
  <2>4. CASE j = 4 \/ j = 8
    <3> HIDE DEF a
    <3>1. p > 2 /\ (j = 4 => p - 1 = a + 3) /\ (j = 8 => p - 1 = a + 7)
      BY <2>1, <2>4
    <3> QED BY <2>1, <2>4, <3>1 DEF Kinds128, PolyTable
  <2>5. CASE j \in {9, 11, 13, 14, 16}
    <3>1. PICK c : c = a + 9 + 8 * 0
      OBVIOUS
    <3>2. IsHalf(P, c, k, 0) /\ c = At128(k) + 9 + 8 * 0
      BY <2>1, <3>1
    <3>4. c = a + 9
      BY <2>1, <3>1
    <3> HIDE DEF a
    <3>3. p \in {c, c + 2, c + 4, c + 5, c + 7}
      BY <2>1, <2>5, <3>4
    <3> QED BY <3>2, <3>3 DEF Kinds128
  <2>6. CASE j \in {17, 19, 21, 22, 24}
    <3>1. PICK c : c = a + 9 + 8 * 1
      OBVIOUS
    <3>2. IsHalf(P, c, k, 1) /\ c = At128(k) + 9 + 8 * 1
      BY <2>1, <3>1
    <3>4. c = a + 17
      BY <2>1, <3>1
    <3> HIDE DEF a
    <3>3. p \in {c, c + 2, c + 4, c + 5, c + 7}
      BY <2>1, <2>6, <3>4
    <3> QED BY <3>2, <3>3 DEF Kinds128
  <2>7. CASE j = 25
    <3>1. P[p] = <<"last", k>>
      <4> HIDE DEF a
      <4> QED BY <2>1, <2>7 DEF PolyTable
    <3> QED BY <1>7, <2>7, <3>1 DEF Kinds128
  <2>8. j \in {1, 3, 5, 7, 10, 12, 15, 18, 20, 23, 26} \/ j = 2 \/ j = 6 \/ j = 4 \/ j = 8
        \/ j \in {9, 11, 13, 14, 16} \/ j \in {17, 19, 21, 22, 24} \/ j = 25
    OBVIOUS
  <2> QED BY <2>2, <2>3, <2>4, <2>5, <2>6, <2>7, <2>8
<1>8. CASE p \in {At128(K) + 1, At128(K) + 2}
  <2>1. At128(K) \in Nat /\ At128(K - 1) + 26 = At128(K) /\ At128(K - 1) >= 2 /\ At128(K - 1) \in Nat
    BY <1>0 DEF At128
  <2>2. P[At128(K - 1) + 26] = <<"sync">>
    BY <1>0, <1>3 DEF PolyTable
  <2>3. p = At128(K) + 1 => p - 1 = At128(K) /\ p = Len(P) - 1 /\ p > 2
    BY <1>1, <2>1
  <2>4. p = At128(K) + 2 => p = Len(P)
    BY <1>1
  <2> QED BY <1>1, <1>8, <2>1, <2>2, <2>3, <2>4 DEF Kinds128
<1> QED BY <1>4, <1>5, <1>6, <1>7, <1>8

\* Every warp is at a barrier between q and p, or there is only one warp.
Apart(kn, P, q, p) ==
  kn = "rej_loop_32t" \/ \E s \in q + 1 .. p - 1 : P[s] = <<"sync">>

\* Instructions of which one may write what the other reads or writes.
Conflict(x, y) ==
  \/ x = "init" /\ y # "init" /\ y # "sync"
  \/ y = "copy" /\ x # "sync"
  \/ x = "vote" /\ y = "check"
  \/ x = "check" /\ y = "vote"
  \/ x = "count" /\ (y = "sum" \/ y = "place")
  \/ (x = "sum" \/ x = "place") /\ y = "count"
  \/ x = "sum" /\ y = "bound"
  \/ x = "bound" /\ y = "sum"

\* Between instructions in conflict is a barrier, if there are several warps.
Ordered(kn, P) ==
  \A q, p \in 1 .. Len(P) : q < p /\ Conflict(P[q][1], P[p][1]) => Apart(kn, P, q, p)

\* Where a kernel begins and ends.
Once(P) ==
  \A p \in 1 .. Len(P) : /\ P[p][1] = "init" <=> p = 1
                         /\ P[p][1] = "copy" <=> p = Len(P) - 1
                         /\ P[p][1] = "done" <=> p = Len(P)

\* Every check follows its vote.
Checked(P) ==
  /\ \A c \in CheckNames :
       \E q, p \in 1 .. Len(P) : q < p /\ P[q] = <<"vote", c>> /\ P[p] = <<"check">>
  /\ \A p \in 1 .. Len(P) : P[p][1] = "vote" => \E c \in CheckNames : P[p] = <<"vote", c>>

InHalf(kn, P, p) ==
  \E c, k, half : /\ IsHalf(P, c, k, half)
                  /\ P[p][1] = "count" => p = c
                  /\ P[p][1] = "sum" => p = c + 2
                  /\ P[p][1] = "bound" => p = c + 4
                  /\ P[p][1] = "place" => p = c + 5
                  /\ P[p][1] = "advance" => p = c + 7
\* The instructions that concern a half are those of the half.
Halves(kn, P) ==
  /\ \A p \in 1 .. Len(P) :
       P[p][1] \in {"count", "sum", "bound", "place", "advance"} => kn = "rej_loop_128t" /\ InHalf(kn, P, p)
  /\ \A c, k, half : IsHalf(P, c, k, half) => Preceded(P, c, HalfStart(k, half))

InChunk(P, p) ==
  \E k \in 0 .. K - 1, i \in 0 .. Chunks - 1 :
    P[p] = <<"chunk", k, i>> /\ Preceded(P, p, ChunkStart(k, i))
InChunks(kn, P) ==
  \A p \in 1 .. Len(P) : P[p][1] = "chunk" => kn = "rej_loop_32t" /\ InChunk(P, p)

InLast(P, p) ==
  \E k \in 0 .. K - 1 : P[p] = <<"last", k>> /\ Preceded(P, p, Start(k) + N)
\* The last byte of a polynomial is written behind its hints.
Lasts(P) ==
  /\ \A p \in 1 .. Len(P) : P[p][1] = "last" => InLast(P, p)
  /\ \A k \in 0 .. K - 1 : \E p \in 1 .. Len(P) : P[p] = <<"last", k>>

\* The warps of a kernel.
WarpsOf(kn) == IF kn = "rej_loop_32t" THEN {0} ELSE AllWarps
\* Where a half begins.
Half(half) == IF half = 0 THEN 0 ELSE BlockDim
\* p places the hint of polynomial k at x, if warp w executes it.
Covers(P, p, w, k, x) ==
  \/ \E half \in {0, 1}, t \in w * Lanes .. w * Lanes + Lanes - 1 :
       P[p] = <<"place", k, half>> /\ x = Half(half) + t
  \/ \E i \in 0 .. Chunks - 1, t \in 0 .. Lanes - 1 :
       P[p] = <<"chunk", k, i>> /\ x = Lanes * i + t
\* p bounds the number of the hints up to code e.
Limits(P, p, e) ==
  \/ \E c, k, half : IsHalf(P, c, k, half) /\ p = c + 4 /\ e = HalfStart(k, half) + BlockDim
  \/ \E k \in 0 .. K - 1, i \in 0 .. Chunks - 1 : P[p] = <<"chunk", k, i>> /\ e = ChunkStart(k, i) + Lanes
\* Every position is covered, and the last bound is for all.
Complete(kn, P) ==
  /\ \A k \in 0 .. K - 1, x \in 0 .. N - 1 :
       \E p \in 1 .. Len(P), w \in WarpsOf(kn) : Covers(P, p, w, k, x)
  /\ \E p \in 1 .. Len(P) : Limits(P, p, Start(K))

\* The shape of a program: all that the proof uses of it.
Shape(kn, P) ==
  /\ P \in Seq(Ops) /\ Len(P) \in Nat /\ Len(P) >= 2
  /\ Ordered(kn, P) /\ Once(P) /\ Checked(P) /\ Halves(kn, P) /\ InChunks(kn, P)
  /\ Lasts(P) /\ Complete(kn, P)

-----------------------------------------------------------------------------

\* The codes of a polynomial follow those of the one before.
LEMMA StartLemma ==
  /\ Start(0) = 0
  /\ \A k \in Nat : Start(k) \in Nat /\ Start(k + 1) = Start(k) + N
  /\ \A j, k \in Nat : j < k => Start(j) + N <= Start(k)
<1>1. N \in Nat
  BY ChunksLemma
<1>2. \A k \in Nat : N * k = Start(k)
  BY <1>1 DEF Start
<1>3. Start(0) = 0
  BY <1>1 DEF Start
<1>4. \A k \in Nat : Start(k) \in Nat /\ Start(k + 1) = Start(k) + N
  BY <1>1, <1>2, Multiples
<1>5. \A j, k \in Nat : j < k => Start(j) + N <= Start(k)
  BY <1>1, <1>2, Multiples
<1> QED BY <1>3, <1>4, <1>5

\* The same, from the name of the instruction.
Facts128(P, p) ==
  /\ P[p][1] = "init" => p = 1
  /\ P[p][1] = "copy" => p = Len(P) - 1 /\ P[p - 1] = <<"sync">> /\ p > 2
  /\ P[p][1] = "done" => p = Len(P)
  /\ P[p][1] = "vote" => P[p - 1] = <<"sync">> /\ p > 2 /\ \E c \in CheckNames : P[p] = <<"vote", c>>
  /\ P[p][1] = "check" => P[p - 1] = <<"sync">> /\ p > 2
  /\ P[p][1] = "last" => \E k \in 0 .. K - 1 : P[p] = <<"last", k>> /\ p = At128(k) + 25
  /\ P[p][1] # "chunk"
  /\ P[p][1] \in {"count", "sum", "bound", "place", "advance"} =>
       \E c, k, half : /\ IsHalf(P, c, k, half)
                       /\ c = At128(k) + 9 + 8 * half
                       /\ P[p][1] = "count" => p = c
                       /\ P[p][1] = "sum" => p = c + 2
                       /\ P[p][1] = "bound" => p = c + 4
                       /\ P[p][1] = "place" => p = c + 5
                       /\ P[p][1] = "advance" => p = c + 7

\* What follows from the kind.
LEMMA Facts128Lemma ==
  ASSUME NEW P, NEW p, Kinds128(P, p)
  PROVE  Facts128(P, p)
<1>1. CASE p = 1 /\ P[p] = <<"init">>
  BY <1>1 DEF Facts128
<1>2. CASE P[p] = <<"sync">>
  BY <1>2 DEF Facts128
<1>3. CASE \E c \in CheckNames : P[p] = <<"vote", c>> /\ p > 2 /\ P[p - 1] = <<"sync">>
  BY <1>3 DEF Facts128
<1>4. CASE P[p] = <<"check">> /\ p > 2 /\ P[p - 1] = <<"sync">>
  BY <1>4 DEF Facts128
<1>5. CASE \E c, k, half : IsHalf(P, c, k, half) /\ c = At128(k) + 9 + 8 * half /\ p \in {c, c + 2, c + 4, c + 5, c + 7}
  <2>1. PICK c, k, half : IsHalf(P, c, k, half) /\ c = At128(k) + 9 + 8 * half /\ p \in {c, c + 2, c + 4, c + 5, c + 7}
    BY <1>5
  <2>2. CASE p = c
    <3>1. P[p] = <<"count", k, half>>
      BY <2>1, <2>2 DEF IsHalf
    <3> QED BY <2>1, <2>2, <3>1 DEF Facts128
  <2>3. CASE p = c + 2
    <3>1. P[p] = <<"sum">>
      BY <2>1, <2>3 DEF IsHalf
    <3> QED BY <2>1, <2>3, <3>1 DEF Facts128
  <2>4. CASE p = c + 4
    <3>1. P[p] = <<"bound">>
      BY <2>1, <2>4 DEF IsHalf
    <3> QED BY <2>1, <2>4, <3>1 DEF Facts128
  <2>5. CASE p = c + 5
    <3>1. P[p] = <<"place", k, half>>
      BY <2>1, <2>5 DEF IsHalf
    <3> QED BY <2>1, <2>5, <3>1 DEF Facts128
  <2>6. CASE p = c + 7
    <3>1. P[p] = <<"advance">>
      BY <2>1, <2>6 DEF IsHalf
    <3> QED BY <2>1, <2>6, <3>1 DEF Facts128
  <2> QED BY <2>1, <2>2, <2>3, <2>4, <2>5, <2>6
<1>6. CASE \E k \in 0 .. K - 1 : P[p] = <<"last", k>> /\ p = At128(k) + 25
  BY <1>6 DEF Facts128
<1>7. CASE P[p] = <<"copy">> /\ p = Len(P) - 1 /\ p > 2 /\ P[p - 1] = <<"sync">>
  BY <1>7 DEF Facts128
<1>8. CASE P[p] = <<"done">> /\ p = Len(P)
  BY <1>8 DEF Facts128
<1> QED BY <1>1, <1>2, <1>3, <1>4, <1>5, <1>6, <1>7, <1>8 DEF Kinds128

\* The instructions of rej_loop_128t by their names.
LEMMA Program128Lemma ==
  LET P == Code128
  IN  /\ P \in Seq(Ops) /\ Len(P) \in Nat /\ Len(P) >= 28 /\ Len(P) = At128(K) + 2
      /\ P[1] = <<"init">> /\ P[2] = <<"sync">>
      /\ P[Len(P) - 1] = <<"copy">> /\ P[Len(P)] = <<"done">>
      /\ \A p \in 1 .. Len(P) : Facts128(P, p)
<1>1. At128(K) \in Nat /\ At128(K) >= 28
  BY ChunksLemma DEF At128
<1>2. Len(Code128) = At128(K) + 2
  BY Table128
<1>3. Len(Code128) - 1 = At128(K) + 1 /\ Len(Code128) >= 28 /\ Len(Code128) \in Nat
  BY <1>1, <1>2
<1>4. \A p \in 1 .. Len(Code128) : Facts128(Code128, p)
  BY Kinds128Lemma, Facts128Lemma
<1> QED BY <1>2, <1>3, <1>4, Table128

\* The barriers of rej_loop_128t are enough.
LEMMA Ordered128 == Ordered("rej_loop_128t", Code128)
<1> DEFINE P == Code128
<1> SUFFICES ASSUME NEW q \in 1 .. Len(P), NEW p \in 1 .. Len(P), q < p,
                    Conflict(P[q][1], P[p][1])
             PROVE  \E s \in q + 1 .. p - 1 : P[s] = <<"sync">>
  BY DEF Ordered, Apart
<1>1. Facts128(P, q) /\ Facts128(P, p) /\ P[2] = <<"sync">> /\ P[1] = <<"init">>
  BY Program128Lemma
<1>2. q \in Int /\ p \in Int
  OBVIOUS
<1> HIDE DEF P
<1>3. \A r : P[r] = <<"sync">> => P[r][1] = "sync"
  OBVIOUS
<1>4. ASSUME P[p - 1] = <<"sync">>, P[q][1] # "sync"
      PROVE  \E s \in q + 1 .. p - 1 : P[s] = <<"sync">>
  <2>1. q # p - 1
    BY <1>3, <1>4
  <2>2. p - 1 \in q + 1 .. p - 1
    BY <1>2, <2>1
  <2> QED BY <1>4, <2>2
<1>5. ASSUME P[q + 1] = <<"sync">>, P[p][1] # "sync"
      PROVE  \E s \in q + 1 .. p - 1 : P[s] = <<"sync">>
  <2>1. p # q + 1
    BY <1>3, <1>5
  <2>2. q + 1 \in q + 1 .. p - 1
    BY <1>2, <2>1
  <2> QED BY <1>5, <2>2
<1>6. CASE P[q][1] = "init" /\ P[p][1] # "sync"
  <2>1. q = 1
    BY <1>1, <1>6 DEF Facts128
  <2> QED BY <1>1, <1>5, <1>6, <2>1
<1>7. CASE P[p][1] \in {"copy", "check", "vote"} /\ P[q][1] # "sync"
  <2>1. P[p - 1] = <<"sync">>
    BY <1>1, <1>7 DEF Facts128
  <2> QED BY <1>4, <1>7, <2>1
<1>8. CASE P[p][1] \in {"sum", "bound"} /\ P[q][1] # "sync"
  <2>1. PICK c, k, half : IsHalf(P, c, k, half) /\ (P[p][1] = "sum" => p = c + 2) /\ (P[p][1] = "bound" => p = c + 4)
    BY <1>1, <1>8 DEF Facts128
  <2>4. c \in Int
    BY <2>1 DEF IsHalf
  <2>2. (p = c + 2 => p - 1 = c + 1) /\ (p = c + 4 => p - 1 = c + 3)
    BY <2>4
  <2>3. P[p - 1] = <<"sync">>
    BY <1>8, <2>1, <2>2 DEF IsHalf
  <2> QED BY <1>4, <1>8, <2>3
<1>9. CASE P[q][1] \in {"sum", "place"} /\ P[p][1] # "sync"
  <2>1. PICK c, k, half : IsHalf(P, c, k, half) /\ (P[q][1] = "sum" => q = c + 2) /\ (P[q][1] = "place" => q = c + 5)
    BY <1>1, <1>9 DEF Facts128
  <2>4. c \in Int
    BY <2>1 DEF IsHalf
  <2>2. (q = c + 2 => q + 1 = c + 3) /\ (q = c + 5 => q + 1 = c + 6)
    BY <2>4
  <2>3. P[q + 1] = <<"sync">>
    BY <1>9, <2>1, <2>2 DEF IsHalf
  <2> QED BY <1>5, <1>9, <2>3
<1>10. CASE P[q][1] = "count" /\ P[p][1] = "place"
  <2>1. PICK c, k, half : IsHalf(P, c, k, half) /\ p = c + 5
    BY <1>1, <1>10 DEF Facts128
  <2>2. c \in Int /\ P[c + 3] = <<"sync">> /\ P[c + 4] = <<"bound">>
    BY <2>1 DEF IsHalf
  <2>3. q # c + 3 /\ q # c + 4
    BY <1>10, <2>2
  <2>4. c + 3 \in q + 1 .. p - 1
    BY <1>2, <2>1, <2>2, <2>3
  <2> QED BY <2>2, <2>4
<1> QED BY <1>6, <1>7, <1>8, <1>9, <1>10 DEF Conflict

\* It begins and ends once.
LEMMA Once128 == Once(Code128)
<1> DEFINE P == Code128
<1> SUFFICES ASSUME NEW p \in 1 .. Len(P)
             PROVE  /\ P[p][1] = "init" <=> p = 1
                    /\ P[p][1] = "copy" <=> p = Len(P) - 1
                    /\ P[p][1] = "done" <=> p = Len(P)
  BY DEF Once
<1>1. Facts128(P, p) /\ P[1] = <<"init">> /\ P[Len(P) - 1] = <<"copy">> /\ P[Len(P)] = <<"done">>
  BY Program128Lemma
<1> HIDE DEF P
<1>2. P[1][1] = "init" /\ P[Len(P) - 1][1] = "copy" /\ P[Len(P)][1] = "done"
  BY <1>1
<1> QED BY <1>1, <1>2 DEF Facts128

\* Its checks follow their votes.
LEMMA Checked128 == Checked(Code128)
<1> DEFINE P == Code128
<1>1. \A p \in 1 .. Len(P) : P[p][1] = "vote" => \E c \in CheckNames : P[p] = <<"vote", c>>
  BY Program128Lemma DEF Facts128
<1>2. ASSUME NEW a \in Nat, NEW c, a + 4 \in 1 .. Len(P), P[a + 2] = <<"vote", c>>, P[a + 4] = <<"check">>
      PROVE  \E q, p \in 1 .. Len(P) : q < p /\ P[q] = <<"vote", c>> /\ P[p] = <<"check">>
  <2>1. a + 2 \in 1 .. Len(P) /\ a + 2 < a + 4
    BY <1>2, Program128Lemma
  <2> QED BY <1>2, <2>1
<1>5. L \in Nat /\ K \in Nat /\ At128(K) \in Nat /\ Len(P) = At128(K) + 2
  BY ChunksLemma, Program128Lemma DEF At128
<1>3. ASSUME NEW l \in 0 .. L - 1
      PROVE  \E q, p \in 1 .. Len(P) : q < p /\ P[q] = <<"vote", <<"z", l>>>> /\ P[p] = <<"check">>
  <2>1. AtCheck(l) \in Nat /\ AtCheck(l) + 4 <= At128(K)
    BY <1>5 DEF AtCheck, At128
  <2>2. AtCheck(l) + 4 \in 1 .. Len(P)
    BY <1>5, <2>1
  <2>3. P[AtCheck(l) + 2] = <<"vote", <<"z", l>>>> /\ P[AtCheck(l) + 4] = <<"check">>
    BY Table128
  <2> HIDE DEF P
  <2> QED BY <1>2, <2>1, <2>2, <2>3
<1>4. ASSUME NEW k \in 0 .. K - 1
      PROVE  /\ \E q, p \in 1 .. Len(P) : q < p /\ P[q] = <<"vote", <<"s2", k>>>> /\ P[p] = <<"check">>
             /\ \E q, p \in 1 .. Len(P) : q < p /\ P[q] = <<"vote", <<"t0", k>>>> /\ P[p] = <<"check">>
  <2> DEFINE a == At128(k)
             b == a + 4
  <2>1. a \in Nat /\ a + 26 <= At128(K)
    BY <1>5 DEF At128
  <2>2. a + 4 \in 1 .. Len(P) /\ b + 4 \in 1 .. Len(P) /\ b \in Nat /\ b + 2 = a + 6 /\ b + 4 = a + 8
    BY <1>5, <2>1
  <2>3. PolyTable(P, a, k)
    BY Table128
  <2> HIDE DEF P, a
  <2>4. /\ P[a + 2] = <<"vote", <<"s2", k>>>> /\ P[a + 4] = <<"check">>
        /\ P[b + 2] = <<"vote", <<"t0", k>>>> /\ P[b + 4] = <<"check">>
    BY <2>2, <2>3 DEF PolyTable
  <2> HIDE DEF b
  <2> QED BY <1>2, <2>1, <2>2, <2>4
<1>6. ASSUME NEW c \in CheckNames
      PROVE  \E q, p \in 1 .. Len(P) : q < p /\ P[q] = <<"vote", c>> /\ P[p] = <<"check">>
  <2> HIDE DEF P
  <2>1. \/ \E l \in 0 .. L - 1 : c = <<"z", l>>
        \/ \E k \in 0 .. K - 1 : c = <<"s2", k>> \/ c = <<"t0", k>>
    BY DEF CheckNames
  <2> DEFINE Votes1(d) == \E q, p \in 1 .. Len(P) : q < p /\ P[q] = <<"vote", d>> /\ P[p] = <<"check">>
  <2>2. \A l \in 0 .. L - 1 : Votes1(<<"z", l>>)
    BY <1>3
  <2>3. \A k \in 0 .. K - 1 : Votes1(<<"s2", k>>) /\ Votes1(<<"t0", k>>)
    BY <1>4
  <2>4. Votes1(c)
    <3> HIDE DEF Votes1
    <3> QED BY <2>1, <2>2, <2>3
  <2> QED BY <2>4
<1> QED BY <1>1, <1>6 DEF Checked

\* Where a half of it is.
LEMMA HalfPlace128 ==
  \A c, k, half : IsHalf(Code128, c, k, half) =>
    /\ k \in 0 .. K - 1 /\ half \in {0, 1} /\ c = At128(k) + 9 + 8 * half
    /\ c \in 1 .. Len(Code128) /\ c + 7 \in 1 .. Len(Code128)
<1> DEFINE P == Code128
<1> SUFFICES ASSUME NEW c, NEW k, NEW half, IsHalf(P, c, k, half)
             PROVE  /\ k \in 0 .. K - 1 /\ half \in {0, 1} /\ c = At128(k) + 9 + 8 * half
                    /\ c \in 1 .. Len(P) /\ c + 7 \in 1 .. Len(P)
  OBVIOUS
<1>1. /\ c \in 1 .. Len(P) /\ c + 7 \in 1 .. Len(P) /\ P[c] = <<"count", k, half>>
      /\ k \in 0 .. K - 1 /\ half \in {0, 1}
  BY DEF IsHalf
<1>2. Facts128(P, c)
  BY <1>1, Program128Lemma
<1> HIDE DEF P
<1>3. PICK b, j, h : IsHalf(P, b, j, h) /\ b = At128(j) + 9 + 8 * h /\ b = c
  BY <1>1, <1>2 DEF Facts128
<1>4. P[c] = <<"count", j, h>>
  BY <1>3 DEF IsHalf
<1>5. j = k /\ h = half
  BY <1>1, <1>4
<1> QED BY <1>1, <1>3, <1>5

\* Where it takes in hints.
LEMMA Advancing128 ==
  \A q \in 1 .. Len(Code128) : Advancing(Code128, q) =>
    \E k \in 0 .. K - 1, half \in {0, 1} : q = At128(k) + 16 + 8 * half
<1> DEFINE P == Code128
<1> SUFFICES ASSUME NEW q \in 1 .. Len(P), Advancing(P, q)
             PROVE  \E k \in 0 .. K - 1, half \in {0, 1} : q = At128(k) + 16 + 8 * half
  OBVIOUS
<1>1. Facts128(P, q)
  BY Program128Lemma
<1>2. \A c, k, half : IsHalf(P, c, k, half) =>
        k \in 0 .. K - 1 /\ half \in {0, 1} /\ c = At128(k) + 9 + 8 * half /\ c \in 1 .. Len(P)
  BY HalfPlace128
<1> HIDE DEF P
<1>3. P[q][1] # "chunk"
  BY <1>1 DEF Facts128
<1>4. P[q] = <<"advance">>
  BY <1>3 DEF Advancing
<1>5. PICK c, k, half : IsHalf(P, c, k, half) /\ q = c + 7
  BY <1>1, <1>4 DEF Facts128
<1>6. k \in 0 .. K - 1 /\ half \in {0, 1} /\ c = At128(k) + 9 + 8 * half /\ c \in Int
  BY <1>2, <1>5
<1>7. At128(k) \in Int
  BY <1>6, ChunksLemma DEF At128
<1>8. At128(k) + 9 + 8 * half + 7 = At128(k) + 16 + 8 * half
  BY <1>6, <1>7
<1> QED BY <1>5, <1>6, <1>8

\* Between the places p and q of a half and what comes next nothing advances.
LEMMA After128 ==
  ASSUME NEW k \in 0 .. K - 1, NEW half \in {0, 1},
         NEW p \in 1 .. Len(Code128),
         At128(k) + 16 + 8 * half < p,
         p <= At128(k) + 24 + 18 * half
  PROVE  Preceded(Code128, p, HalfStart(k, half) + BlockDim)
<1> DEFINE P == Code128
           a == At128(k) + 16 + 8 * half
<1>1. K \in Nat /\ L \in Nat /\ At128(k) \in Nat /\ p \in Int /\ a \in Int
  BY ChunksLemma DEF At128
<1>2. IsHalf(P, At128(k) + 9 + 8 * half, k, half)
  BY HalvesLemma
<1>3. At128(k) + 9 + 8 * half + 7 = a
  BY <1>1
<1>4. Ends(P, a, HalfStart(k, half) + BlockDim)
  <2>1. IsHalf(P, At128(k) + 9 + 8 * half, k, half) /\ a = (At128(k) + 9 + 8 * half) + 7
    BY <1>2, <1>3
  <2> HIDE DEF P, a
  <2> QED BY <2>1 DEF Ends
<1>5. a \in 1 .. p - 1
  BY <1>1
<1>6. ASSUME NEW q \in a .. p - 1, Advancing(P, q)
      PROVE  q = a
  <2>1. q \in 1 .. Len(P)
    BY <1>1, <1>5
  <2>2. PICK j \in 0 .. K - 1, h \in {0, 1} : q = At128(j) + 16 + 8 * h
    BY <1>6, <2>1, Advancing128
  <2>3. At128(j) = 2 + 4 * L + 26 * j /\ At128(k) = 2 + 4 * L + 26 * k /\ j \in Int /\ k \in Int
    BY DEF At128
  <2> HIDE DEF P
  <2>4. q >= a /\ q < p /\ q \in Int
    BY <1>1
  <2>5. q < At128(k) + 24 + 18 * half
    BY <1>1, <2>4
  <2>6. half = 0 \/ half = 1
    OBVIOUS
  <2>7. h = 0 \/ h = 1
    OBVIOUS
  <2>8. j = k
    BY ONLY <1>1, <2>2, <2>3, <2>4, <2>5, <2>6, <2>7
  <2>9. h = half
    BY ONLY <1>1, <2>2, <2>3, <2>4, <2>5, <2>6, <2>7, <2>8
  <2> QED BY <2>2, <2>8, <2>9
<1> HIDE DEF P, a
<1> QED BY <1>4, <1>5, <1>6 DEF Preceded, P

\* The codes of the halves of a polynomial.
LEMMA HalfStartLemma ==
  \A k \in Nat : /\ HalfStart(k, 0) = Start(k) /\ HalfStart(k, 1) = Start(k) + BlockDim
                 /\ HalfStart(k, 0) + BlockDim = HalfStart(k, 1)
                 /\ HalfStart(k, 1) + BlockDim = Start(k) + N
                 /\ Start(k) + N = Start(k + 1)
                 /\ Start(k) \in Nat /\ BlockDim \in Nat
<1>1. \A k \in Nat : Start(k) \in Nat /\ Start(k + 1) = Start(k) + N
  BY StartLemma
<1>2. BlockDim \in Nat /\ N = BlockDim + BlockDim
  BY ChunksLemma
<1> HIDE DEF Start
<1> QED BY <1>1, <1>2 DEF HalfStart

\* Its halves follow each other.
LEMMA Halves128 == Halves("rej_loop_128t", Code128)
<1> DEFINE P == Code128
<1>1. \A p \in 1 .. Len(P) :
        P[p][1] \in {"count", "sum", "bound", "place", "advance"} => InHalf("rej_loop_128t", P, p)
  <2> TAKE p \in 1 .. Len(P)
  <2>1. Facts128(P, p)
    BY Program128Lemma
  <2> HIDE DEF P
  <2> QED BY <2>1 DEF Facts128, InHalf
<1>2. ASSUME NEW c, NEW k, NEW half, IsHalf(P, c, k, half)
      PROVE  Preceded(P, c, HalfStart(k, half))
  <2>1. /\ k \in 0 .. K - 1 /\ half \in {0, 1} /\ c = At128(k) + 9 + 8 * half
        /\ c \in 1 .. Len(Code128) /\ K \in Nat /\ L \in Nat
    BY <1>2, HalfPlace128, ChunksLemma
  <2>2. CASE half = 1
    <3>1. At128(k) \in Int
      BY <2>1 DEF At128
    <3>2. At128(k) + 16 + 8 * 0 < c /\ c <= At128(k) + 24 + 18 * 0
      BY <2>1, <2>2, <3>1
    <3>3. Preceded(P, c, HalfStart(k, 0) + BlockDim)
      BY <2>1, <3>2, After128
    <3>4. k \in Nat
      BY <2>1
    <3>5. HalfStart(k, 0) + BlockDim = HalfStart(k, 1)
      BY <3>4, HalfStartLemma
    <3> QED BY <2>2, <3>3, <3>5
  <2>3. CASE half = 0 /\ k # 0
    <3> DEFINE j == k - 1
    <3>1. j \in 0 .. K - 1 /\ j \in Nat /\ j + 1 = k /\ At128(k) = At128(j) + 26 /\ At128(j) \in Nat
      BY <2>1, <2>3 DEF At128
    <3> HIDE DEF j
    <3>2. At128(j) + 16 + 8 * 1 < c /\ c <= At128(j) + 24 + 18 * 1
      BY <2>1, <2>3, <3>1
    <3>3. Preceded(P, c, HalfStart(j, 1) + BlockDim)
      BY <2>1, <3>1, <3>2, After128
    <3>4. k \in Nat
      BY <2>1
    <3>5. HalfStart(j, 1) + BlockDim = HalfStart(k, 0)
      BY <3>1, <3>4, HalfStartLemma
    <3> QED BY <2>3, <3>3, <3>5
  <2>4. CASE half = 0 /\ k = 0
    <3>1. c = At128(0) + 9 /\ At128(0) \in Int
      BY <2>1, <2>4 DEF At128
    <3>2. ASSUME NEW q \in 1 .. c - 1, Advancing(P, q)
          PROVE  FALSE
      <4>1. q \in 1 .. Len(P) /\ q < c
        BY <2>1, <3>1
      <4>2. PICK j \in 0 .. K - 1, h \in {0, 1} : q = At128(j) + 16 + 8 * h
        BY <3>2, <4>1, Advancing128
      <4>3. At128(j) = 2 + 4 * L + 26 * j /\ At128(0) = 2 + 4 * L + 26 * 0 /\ j \in Nat
        BY DEF At128
      <4> HIDE DEF P
      <4>4. h = 0 \/ h = 1
        OBVIOUS
      <4>5. L \in Nat /\ q \in Int
        BY <2>1
      <4> QED BY ONLY <3>1, <4>1, <4>2, <4>3, <4>4, <4>5
    <3>3. HalfStart(k, half) = 0
      BY <2>4, HalfStartLemma, StartLemma
    <3> HIDE DEF P
    <3> QED BY <3>2, <3>3 DEF Preceded
  <2> QED BY <2>1, <2>2, <2>3, <2>4
<1> QED BY <1>1, <1>2 DEF Halves

\* It has no chunks.
LEMMA InChunks128 == InChunks("rej_loop_128t", Code128)
BY Program128Lemma DEF InChunks, Facts128

\* It writes the last bytes behind the hints.
LEMMA Lasts128 == Lasts(Code128)
<1> DEFINE P == Code128
<1>0. K \in Nat /\ L \in Nat /\ Len(P) = At128(K) + 2
  BY ChunksLemma, Program128Lemma
<1>1. ASSUME NEW p \in 1 .. Len(P), P[p][1] = "last"
      PROVE  InLast(P, p)
  <2>1. PICK k \in 0 .. K - 1 : P[p] = <<"last", k>> /\ p = At128(k) + 25
    BY <1>1, Program128Lemma DEF Facts128
  <2>2. At128(k) \in Int
    BY <1>0 DEF At128
  <2>3. At128(k) + 16 + 8 * 1 < p /\ p <= At128(k) + 24 + 18 * 1
    BY <2>1, <2>2
  <2>4. Preceded(P, p, HalfStart(k, 1) + BlockDim)
    BY <2>3, After128
  <2>5. HalfStart(k, 1) + BlockDim = Start(k) + N
    BY HalfStartLemma
  <2> QED BY <2>1, <2>4, <2>5 DEF InLast
<1>2. ASSUME NEW k \in 0 .. K - 1
      PROVE  \E p \in 1 .. Len(P) : P[p] = <<"last", k>>
  <2>1. At128(k) \in Nat /\ At128(k) + 26 <= At128(K) /\ At128(K) \in Nat
    BY <1>0 DEF At128
  <2>2. At128(k) + 25 \in 1 .. Len(P)
    BY <1>0, <2>1
  <2>3. P[At128(k) + 25] = <<"last", k>>
    BY Table128 DEF PolyTable
  <2> QED BY <2>2, <2>3
<1> QED BY <1>1, <1>2 DEF Lasts

\* A place in a polynomial is in a chunk of Lanes.
LEMMA ChunkOf ==
  \A x \in 0 .. N - 1 : \E i \in 0 .. Chunks - 1, t \in 0 .. Lanes - 1 : x = Lanes * i + t
<1>1. Lanes \in Nat \ {0} /\ Chunks \in Nat /\ N = Lanes * Chunks /\ N \in Nat
  BY ChunksLemma
<1> TAKE x \in 0 .. N - 1
<1>2. x + 1 \in 1 .. Lanes * Chunks
  BY <1>1
<1>3. PICK i \in 0 .. Chunks - 1, j \in 1 .. Lanes : x + 1 = Lanes * i + j
  BY <1>1, <1>2, PlaceLemma
<1> DEFINE y == Lanes * i
<1>4. y \in Int /\ j \in Int
  BY <1>1
<1>5. x + 1 = y + j
  BY <1>3
<1> HIDE DEF y
<1>6. x = y + (j - 1) /\ j - 1 \in 0 .. Lanes - 1
  BY <1>1, <1>4, <1>5
<1> QED BY <1>6 DEF y

\* It covers every position.
LEMMA Complete128 == Complete("rej_loop_128t", Code128)
<1> DEFINE P == Code128
<1>0. K \in Nat \ {0} /\ NWarps \in Nat \ {0} /\ Lanes \in Nat \ {0} /\ BlockDim = Lanes * NWarps
      /\ Chunks = NWarps + NWarps /\ BlockDim \in Nat
  BY ChunksLemma
<1>1. ASSUME NEW k \in 0 .. K - 1, NEW x \in 0 .. N - 1
      PROVE  \E p \in 1 .. Len(P), w \in AllWarps : Covers(P, p, w, k, x)
  <2>1. PICK i \in 0 .. Chunks - 1, u \in 0 .. Lanes - 1 : x = Lanes * i + u
    BY ChunkOf
  <2>2. \A half \in {0, 1} : \E c : IsHalf(P, c, k, half)
    BY HalvesLemma
  <2> HIDE DEF P
  <2>3. CASE i < NWarps
    <3>1. PICK c : IsHalf(P, c, k, 0)
      BY <2>2
    <3>2. P[c + 5] = <<"place", k, 0>> /\ c + 5 \in 1 .. Len(P)
      BY <3>1 DEF IsHalf
    <3>3. i \in AllWarps
      BY <1>0, <2>3 DEF AllWarps
    <3> DEFINE y == Lanes * i
    <3>4. y \in Int /\ y = i * Lanes /\ x = y + u
      BY <1>0, <2>1
    <3> HIDE DEF y
    <3>5. x \in y .. y + Lanes - 1 /\ x = 0 + x
      BY <1>0, <3>4
    <3>6. Covers(P, c + 5, i, k, x)
      BY <3>2, <3>4, <3>5 DEF Covers, Half
    <3> QED BY <3>2, <3>3, <3>6
  <2>4. CASE ~(i < NWarps)
    <3>1. PICK c : IsHalf(P, c, k, 1)
      BY <2>2
    <3>2. P[c + 5] = <<"place", k, 1>> /\ c + 5 \in 1 .. Len(P)
      BY <3>1 DEF IsHalf
    <3> DEFINE w == i - NWarps
               y == Lanes * w
    <3>3. w \in AllWarps /\ w \in Nat /\ i = NWarps + w
      BY <1>0, <2>4 DEF AllWarps
    <3> HIDE DEF w
    <3>4. y \in Int /\ y = w * Lanes /\ x = (BlockDim + y) + u
      <4>1. Lanes * i = Lanes * NWarps + Lanes * w
        BY <1>0, <3>3
      <4> QED BY <1>0, <2>1, <3>3, <4>1
    <3> HIDE DEF y
    <3>5. y + u \in y .. y + Lanes - 1 /\ x = BlockDim + (y + u)
      BY <1>0, <3>4
    <3>6. Covers(P, c + 5, w, k, x)
      BY <3>2, <3>4, <3>5 DEF Covers, Half
    <3> QED BY <3>2, <3>3, <3>6
  <2> QED BY <2>3, <2>4
<1>2. \E p \in 1 .. Len(P) : Limits(P, p, Start(K))
  <2>1. K - 1 \in 0 .. K - 1 /\ K - 1 \in Nat /\ (K - 1) + 1 = K
    BY <1>0
  <2>2. PICK c : IsHalf(P, c, K - 1, 1)
    BY <2>1, HalvesLemma
  <2>3. HalfStart(K - 1, 1) + BlockDim = Start(K)
    BY <2>1, HalfStartLemma
  <2>4. Limits(P, c + 4, Start(K))
    <3> HIDE DEF P
    <3> QED BY <2>2, <2>3 DEF Limits
  <2>5. c + 4 \in 1 .. Len(P)
    <3> DEFINE n == Len(P)
    <3>1. c \in 1 .. n /\ c + 7 \in 1 .. n /\ n \in Nat
      BY <2>2, Program128Lemma DEF IsHalf
    <3> HIDE DEF n
    <3>2. c + 4 \in 1 .. n
      BY ONLY <3>1
    <3> QED BY ONLY <3>2 DEF n
  <2> QED BY <2>4, <2>5
<1> QED BY <1>1, <1>2 DEF Complete, WarpsOf

\* rej_loop_128t has the shape.
LEMMA Shape128 == Shape("rej_loop_128t", Code128)
BY Program128Lemma, Ordered128, Once128, Checked128, Halves128, InChunks128, Lasts128, Complete128
   DEF Shape

\* The polynomials of rej_loop_32t follow each other.
LEMMA At32Lemma ==
  /\ \A k \in Nat : At32(k) \in Nat /\ At32(k) >= 1 + 2 * L /\ At32(k + 1) = At32(k) + (Chunks + 5)
  /\ \A j, k \in Nat : j < k => At32(j) + (Chunks + 5) <= At32(k)
  /\ At32(0) = 1 + 2 * L
<1> DEFINE n == Chunks + 5
           y(k) == n * k
           b == 1 + 2 * L
<1>1. n \in Nat /\ b \in Nat
  BY ChunksLemma
<1>2. \A k : At32(k) = b + y(k)
  BY DEF At32
<1> HIDE DEF n, b
<1>3. /\ y(0) = 0 /\ \A k \in Nat : y(k) \in Nat /\ y(k + 1) = y(k) + n
      /\ \A j, k \in Nat : j < k => y(j) + n <= y(k)
  BY <1>1, Multiples
<1> HIDE DEF y
<1>4. /\ \A k \in Nat : At32(k) \in Nat /\ At32(k) >= b /\ At32(k + 1) = At32(k) + n
      /\ \A j, k \in Nat : j < k => At32(j) + n <= At32(k)
      /\ At32(0) = b
  <2>1. \A k \in Nat : At32(k) \in Nat /\ At32(k) >= b /\ At32(k + 1) = At32(k) + n
    <3> TAKE k \in Nat
    <3>1. y(k) \in Nat /\ y(k + 1) = y(k) + n
      BY <1>3
    <3>2. At32(k) = b + y(k) /\ At32(k + 1) = b + y(k + 1)
      BY <1>2
    <3> QED BY <1>1, <3>1, <3>2
  <2>2. \A j, k \in Nat : j < k => At32(j) + n <= At32(k)
    <3> TAKE j, k \in Nat
    <3>1. y(k) \in Nat /\ y(j) \in Nat /\ (j < k => y(j) + n <= y(k))
      BY <1>3
    <3>2. At32(k) = b + y(k) /\ At32(j) = b + y(j)
      BY <1>2
    <3> QED BY <1>1, <3>1, <3>2
  <2>3. At32(0) = b
    BY <1>1, <1>2, <1>3
  <2> QED BY <2>1, <2>2, <2>3
<1> QED BY <1>4 DEF n, b

\* The instructions of one warp.
Facts32(P, p) ==
  /\ P[p][1] \in {"init", "vote", "check", "chunk", "last", "copy", "done"}
  /\ P[p][1] = "init" => p = 1
  /\ P[p][1] = "copy" => p = Len(P) - 1
  /\ P[p][1] = "done" => p = Len(P)
  /\ P[p][1] = "vote" => \E c \in CheckNames : P[p] = <<"vote", c>>
  /\ P[p][1] = "last" => \E k \in 0 .. K - 1 : P[p] = <<"last", k>> /\ p = At32(k) + (Chunks + 5)
  /\ P[p][1] = "chunk" =>
       \E k \in 0 .. K - 1, i \in 0 .. Chunks - 1 : P[p] = <<"chunk", k, i>> /\ p = At32(k) + (5 + i)

\* By the table.
LEMMA Facts32Lemma == \A p \in 1 .. Len(Code32) : Facts32(Code32, p)
<1> DEFINE P == Code32
<1> SUFFICES ASSUME NEW p \in 1 .. Len(P) PROVE Facts32(P, p)
  OBVIOUS
<1>0. Chunks \in Nat /\ K \in Nat /\ At32(K) \in Nat
  BY ChunksLemma, At32Lemma
<1>1. \/ p = 1
      \/ \E l \in 0 .. L - 1, j \in 1 .. 2 : p = AtVote(l) + j
      \/ \E k \in 0 .. K - 1, j \in 1 .. Chunks + 5 : p = At32(k) + j
      \/ p \in {At32(K) + 1, At32(K) + 2}
  BY Table32
<1>2. /\ P[1] = <<"init">> /\ Len(P) = At32(K) + 2
      /\ \A l \in 0 .. L - 1 :
           P[AtVote(l) + 1] = <<"vote", <<"z", l>>>> /\ P[AtVote(l) + 2] = <<"check">>
      /\ \A k \in 0 .. K - 1 : PolyTable32(P, At32(k), k)
      /\ P[At32(K) + 1] = <<"copy">> /\ P[At32(K) + 2] = <<"done">>
  BY Table32
<1> HIDE DEF P
<1>3. CASE p = 1
  BY <1>2, <1>3 DEF Facts32
<1>4. ASSUME NEW l \in 0 .. L - 1, NEW j \in 1 .. 2, p = AtVote(l) + j
      PROVE  Facts32(P, p)
  <2>1. <<"z", l>> \in CheckNames
    BY DEF CheckNames
  <2>2. P[p] = <<"vote", <<"z", l>>>> \/ P[p] = <<"check">>
    <3>1. j = 1 \/ j = 2
      OBVIOUS
    <3> QED BY <1>2, <1>4, <3>1
  <2> QED BY <2>1, <2>2 DEF Facts32
<1>5. ASSUME NEW k \in 0 .. K - 1, NEW j \in 1 .. Chunks + 5, p = At32(k) + j
      PROVE  Facts32(P, p)
  <2> DEFINE a == At32(k)
             n == Chunks
  <2>1. PolyTable32(P, a, k) /\ p = a + j /\ j \in Int /\ n \in Nat
    BY <1>0, <1>2, <1>5
  <2>2. <<"s2", k>> \in CheckNames /\ <<"t0", k>> \in CheckNames
    BY DEF CheckNames
  <2> HIDE DEF a
  <2>3. CASE j \in {1, 2, 3, 4}
    <3>1. \E c \in CheckNames : P[p] = <<"vote", c>> \/ P[p] = <<"check">>
      BY <2>1, <2>2, <2>3 DEF PolyTable32
    <3> QED BY <3>1 DEF Facts32
  <2>4. CASE j = n + 5
    <3>1. P[p] = <<"last", k>>
      BY <2>1, <2>4 DEF PolyTable32
    <3> QED BY <1>5, <2>4, <3>1 DEF Facts32
  <2>5. CASE j > 4 /\ j < n + 5
    <3> DEFINE i == j - 5
    <3>1. i + 1 \in 1 .. n /\ j = 4 + (i + 1) /\ i \in 0 .. n - 1 /\ j = 5 + i /\ (i + 1) - 1 = i
      BY <2>1, <2>5
    <3> HIDE DEF i
    <3>2. P[a + (4 + (i + 1))] = <<"chunk", k, (i + 1) - 1>>
      BY <2>1, <3>1 DEF PolyTable32
    <3>3. P[p] = <<"chunk", k, i>>
      BY <2>1, <3>1, <3>2
    <3>4. p = At32(k) + (5 + i)
      BY <1>5, <3>1
    <3> QED BY <3>1, <3>3, <3>4 DEF Facts32
  <2>6. j \in {1, 2, 3, 4} \/ j = n + 5 \/ (j > 4 /\ j < n + 5)
    BY <2>1
  <2> QED BY <2>3, <2>4, <2>5, <2>6
<1>6. CASE p \in {At32(K) + 1, At32(K) + 2}
  <2>1. At32(K) + 1 = Len(P) - 1
    BY <1>0, <1>2
  <2> QED BY <1>2, <1>6, <2>1 DEF Facts32
<1> QED BY <1>1, <1>3, <1>4, <1>5, <1>6

\* Its beginning and end.
LEMMA Program32Lemma ==
  LET P == Code32
  IN  /\ P \in Seq(Ops) /\ Len(P) \in Nat /\ Len(P) >= 2 /\ Len(P) = At32(K) + 2
      /\ P[1] = <<"init">>
      /\ P[Len(P) - 1] = <<"copy">> /\ P[Len(P)] = <<"done">>
<1>1. At32(K) \in Nat
  BY ChunksLemma, At32Lemma
<1>2. Len(Code32) = At32(K) + 2
  BY Table32
<1>3. Len(Code32) - 1 = At32(K) + 1 /\ Len(Code32) >= 2 /\ Len(Code32) \in Nat
  BY <1>1, <1>2
<1> QED BY <1>2, <1>3, Table32

\* It begins and ends once.
LEMMA Once32 == Once(Code32)
<1> DEFINE P == Code32
<1> SUFFICES ASSUME NEW p \in 1 .. Len(P)
             PROVE  /\ P[p][1] = "init" <=> p = 1
                    /\ P[p][1] = "copy" <=> p = Len(P) - 1
                    /\ P[p][1] = "done" <=> p = Len(P)
  BY DEF Once
<1>1. Facts32(P, p) /\ P[1] = <<"init">> /\ P[Len(P) - 1] = <<"copy">> /\ P[Len(P)] = <<"done">>
  BY Program32Lemma, Facts32Lemma
<1> HIDE DEF P
<1>2. P[1][1] = "init" /\ P[Len(P) - 1][1] = "copy" /\ P[Len(P)][1] = "done"
  BY <1>1
<1> QED BY <1>1, <1>2 DEF Facts32

\* Its checks follow their votes.
LEMMA Checked32 == Checked(Code32)
<1> DEFINE P == Code32
           Voted(d) == \E q, p \in 1 .. Len(P) : q < p /\ P[q] = <<"vote", d>> /\ P[p] = <<"check">>
<1>1. \A p \in 1 .. Len(P) : P[p][1] = "vote" => \E c \in CheckNames : P[p] = <<"vote", c>>
  BY Facts32Lemma DEF Facts32
<1>2. ASSUME NEW a \in Nat, NEW c, a + 2 \in 1 .. Len(P), P[a + 1] = <<"vote", c>>, P[a + 2] = <<"check">>
      PROVE  Voted(c)
  <2>1. a + 1 \in 1 .. Len(P) /\ a + 1 < a + 2
    BY <1>2, Program32Lemma
  <2> QED BY <1>2, <2>1
<1>5. L \in Nat /\ K \in Nat /\ At32(K) \in Nat /\ At32(K) >= 1 + 2 * L /\ Len(P) = At32(K) + 2 /\ Chunks \in Nat
  BY ChunksLemma, Program32Lemma, At32Lemma
<1>3. \A l \in 0 .. L - 1 : Voted(<<"z", l>>)
  <2> TAKE l \in 0 .. L - 1
  <2>1. AtVote(l) \in Nat /\ AtVote(l) + 2 <= At32(K)
    BY <1>5 DEF AtVote
  <2>2. AtVote(l) + 2 \in 1 .. Len(P)
    BY <1>5, <2>1
  <2>3. P[AtVote(l) + 1] = <<"vote", <<"z", l>>>> /\ P[AtVote(l) + 2] = <<"check">>
    BY Table32
  <2> HIDE DEF P, Voted
  <2> QED BY <1>2, <2>1, <2>2, <2>3
<1>4. \A k \in 0 .. K - 1 : Voted(<<"s2", k>>) /\ Voted(<<"t0", k>>)
  <2> TAKE k \in 0 .. K - 1
  <2> DEFINE a == At32(k)
             b == a + 2
  <2>1. a \in Nat /\ a + (Chunks + 5) <= At32(K)
    <3>1. k \in Nat /\ k < K
      BY <1>5
    <3> QED BY <1>5, <3>1, At32Lemma
  <2>2. a + 2 \in 1 .. Len(P) /\ b + 2 \in 1 .. Len(P) /\ b \in Nat /\ b + 1 = a + 3 /\ b + 2 = a + 4
    BY <1>5, <2>1
  <2>3. PolyTable32(P, a, k)
    BY Table32
  <2> HIDE DEF P, a
  <2>4. /\ P[a + 1] = <<"vote", <<"s2", k>>>> /\ P[a + 2] = <<"check">>
        /\ P[b + 1] = <<"vote", <<"t0", k>>>> /\ P[b + 2] = <<"check">>
    BY <2>2, <2>3 DEF PolyTable32
  <2> HIDE DEF b, Voted
  <2> QED BY <1>2, <2>1, <2>2, <2>4
<1>6. \A c \in CheckNames : Voted(c)
  <2> HIDE DEF P, Voted
  <2> TAKE c \in CheckNames
  <2>1. \/ \E l \in 0 .. L - 1 : c = <<"z", l>>
        \/ \E k \in 0 .. K - 1 : c = <<"s2", k>> \/ c = <<"t0", k>>
    BY DEF CheckNames
  <2> QED BY <1>3, <1>4, <2>1
<1> QED BY <1>1, <1>6 DEF Checked

\* It has no halves.
LEMMA NoHalf32 == \A c, k, half : ~IsHalf(Code32, c, k, half)
<1> DEFINE P == Code32
<1> SUFFICES ASSUME NEW c, NEW k, NEW half, IsHalf(P, c, k, half) PROVE FALSE
  OBVIOUS
<1>1. c \in 1 .. Len(P) /\ P[c] = <<"count", k, half>>
  BY DEF IsHalf
<1>2. Facts32(P, c)
  BY <1>1, Facts32Lemma
<1> HIDE DEF P
<1> QED BY <1>1, <1>2 DEF Facts32

\* So nothing of it concerns one.
LEMMA Halves32 == Halves("rej_loop_32t", Code32)
<1>1. \A p \in 1 .. Len(Code32) : Code32[p][1] \notin {"count", "sum", "bound", "place", "advance"}
  BY Facts32Lemma DEF Facts32
<1> QED BY <1>1, NoHalf32 DEF Halves

\* Where it takes in hints.
LEMMA Advancing32 ==
  \A q \in 1 .. Len(Code32) : Advancing(Code32, q) =>
    \E k \in 0 .. K - 1, i \in 0 .. Chunks - 1 : q = At32(k) + (5 + i)
<1> DEFINE P == Code32
<1> SUFFICES ASSUME NEW q \in 1 .. Len(P), Advancing(P, q)
             PROVE  \E k \in 0 .. K - 1, i \in 0 .. Chunks - 1 : q = At32(k) + (5 + i)
  OBVIOUS
<1>1. Facts32(P, q)
  BY Facts32Lemma
<1> HIDE DEF P
<1>2. P[q][1] = "chunk"
  BY <1>1 DEF Advancing, Facts32
<1> QED BY <1>1, <1>2 DEF Facts32

\* Behind chunk i of polynomial k nothing advances until the next.
LEMMA After32 ==
  ASSUME NEW k \in 0 .. K - 1, NEW i \in 0 .. Chunks - 1,
         NEW p \in 1 .. Len(Code32),
         At32(k) + (5 + i) < p,
         p <= At32(k) + (6 + i) \/ (i = Chunks - 1 /\ p <= At32(k) + (Chunks + 5) + 5)
  PROVE  Preceded(Code32, p, ChunkStart(k, i) + Lanes)
<1> DEFINE P == Code32
           n == Chunks
           a == At32(k) + (5 + i)
<1>1. n \in Nat /\ k \in Nat /\ i \in Nat /\ i < n /\ K \in Nat /\ p \in Int
      /\ At32(k) \in Nat /\ a \in Nat
  <2>1. n \in Nat /\ k \in Nat /\ i \in Nat /\ i < n /\ K \in Nat /\ p \in Int
    BY ChunksLemma
  <2>2. At32(k) \in Nat
    BY <2>1, At32Lemma
  <2> QED BY <2>1, <2>2
<1>2. P[a] = <<"chunk", k, i>>
  <2>1. PolyTable32(P, At32(k), k)
    BY Table32
  <2>2. i + 1 \in 1 .. n /\ (i + 1) - 1 = i /\ 4 + (i + 1) = 5 + i
    BY <1>1
  <2>3. P[At32(k) + (4 + (i + 1))] = <<"chunk", k, (i + 1) - 1>>
    BY <2>1, <2>2 DEF PolyTable32
  <2> QED BY <2>2, <2>3
<1>4. Ends(P, a, ChunkStart(k, i) + Lanes)
  <2> HIDE DEF P, a
  <2> QED BY <1>2 DEF Ends
<1>5. a \in 1 .. p - 1
  BY <1>1
<1>6. ASSUME NEW q \in a .. p - 1, Advancing(P, q)
      PROVE  q = a
  <2>1. q \in 1 .. Len(P)
    BY <1>1, <1>5
  <2>2. PICK j \in 0 .. K - 1, h \in 0 .. Chunks - 1 : q = At32(j) + (5 + h)
    BY <1>6, <2>1, Advancing32
  <2> DEFINE b == At32(k)
             d == At32(j)
  <2>3. /\ j \in Nat /\ d \in Nat /\ h \in Int /\ 0 <= h /\ h < n
        /\ j < k => d + (n + 5) <= b
        /\ k < j => b + (n + 5) <= d
        /\ j = k => d = b
    <3>1. j \in Nat /\ h \in Int /\ 0 <= h /\ h < n
      BY <1>1
    <3>2. /\ d \in Nat
          /\ j < k => d + (n + 5) <= b
          /\ k < j => b + (n + 5) <= d
      BY <1>1, <3>1, At32Lemma
    <3> QED BY <3>1, <3>2
  <2>4. /\ q >= a /\ q < p /\ q \in Int /\ q = d + (5 + h) /\ a = b + (5 + i)
        /\ p <= b + (6 + i) \/ (i = n - 1 /\ p <= b + (n + 5) + 5)
    BY <1>1, <2>2
  <2>5. n \in Nat /\ k \in Nat /\ i \in Nat /\ i < n /\ p \in Int /\ b \in Nat
    BY <1>1
  <2> HIDE DEF P, a, b, d, n
  <2>6. ~(j < k)
    BY <2>3, <2>4, <2>5
  <2>7. ~(k < j)
    BY <2>3, <2>4, <2>5
  <2>8. d = b
    BY <2>3, <2>5, <2>6, <2>7
  <2> QED BY <2>3, <2>4, <2>5, <2>8
<1> HIDE DEF P, a
<1> QED BY <1>4, <1>5, <1>6 DEF Preceded, P

\* The codes of the chunks of a polynomial.
LEMMA ChunkStartLemma ==
  \A k \in Nat :
    /\ ChunkStart(k, 0) = Start(k)
    /\ \A i \in 0 .. Chunks - 1 :
         /\ ChunkStart(k, i) \in Nat
         /\ ChunkStart(k, i) + Lanes = ChunkStart(k, i + 1)
         /\ i = Chunks - 1 => ChunkStart(k, i) + Lanes = Start(k) + N
<1> TAKE k \in Nat
<1>1. Lanes \in Nat /\ Chunks \in Nat /\ N = Lanes * Chunks /\ Start(k) \in Nat
  BY ChunksLemma, StartLemma
<1> DEFINE y(i) == Lanes * i
<1>2. y(0) = 0 /\ \A i \in Nat : y(i) \in Nat /\ y(i + 1) = y(i) + Lanes
  BY <1>1, Multiples
<1>3. \A i : ChunkStart(k, i) = Start(k) + y(i)
  BY DEF ChunkStart
<1>4. N = y(Chunks)
  BY <1>1
<1> HIDE DEF y
<1>5. ChunkStart(k, 0) = Start(k)
  BY <1>1, <1>2, <1>3
<1>6. ASSUME NEW i \in 0 .. Chunks - 1
      PROVE  /\ ChunkStart(k, i) \in Nat
             /\ ChunkStart(k, i) + Lanes = ChunkStart(k, i + 1)
             /\ i = Chunks - 1 => ChunkStart(k, i) + Lanes = Start(k) + N
  <2>1. i \in Nat /\ (i = Chunks - 1 => i + 1 = Chunks)
    BY <1>1
  <2>2. y(i) \in Nat /\ y(i) + Lanes = y(i + 1)
    BY <1>2, <2>1
  <2>3. ChunkStart(k, i) = Start(k) + y(i) /\ ChunkStart(k, i + 1) = Start(k) + y(i + 1)
    BY ONLY <1>3
  <2>4. i = Chunks - 1 => y(i + 1) = N
    BY <1>4, <2>1
  <2>5. Start(k) \in Nat /\ Lanes \in Nat /\ y(i + 1) \in Int
    BY <1>1, <2>2
  <2> QED BY ONLY <2>2, <2>3, <2>4, <2>5
<1> QED BY <1>5, <1>6

\* Its chunks follow each other.
LEMMA InChunks32 == InChunks("rej_loop_32t", Code32)
<1> DEFINE P == Code32
<1> SUFFICES ASSUME NEW p \in 1 .. Len(P), P[p][1] = "chunk"
             PROVE  InChunk(P, p)
  BY DEF InChunks
<1>0. Facts32(P, p) /\ Chunks \in Nat \ {0} /\ K \in Nat
  BY Facts32Lemma, ChunksLemma
<1>1. PICK k \in 0 .. K - 1, i \in 0 .. Chunks - 1 : P[p] = <<"chunk", k, i>> /\ p = At32(k) + (5 + i)
  <2> HIDE DEF P
  <2> QED BY <1>0 DEF Facts32
<1>2. k \in Nat /\ i \in Nat /\ At32(k) \in Nat /\ At32(0) \in Nat
  <2>1. k \in Nat /\ i \in Nat /\ 0 \in Nat
    BY <1>0
  <2>2. \A j \in Nat : At32(j) \in Nat
    BY At32Lemma
  <2> QED BY <2>1, <2>2
<1>3. CASE i # 0
  <2> DEFINE j == i - 1
  <2>1. j \in 0 .. Chunks - 1 /\ j + 1 = i
    BY <1>0, <1>2, <1>3
  <2> HIDE DEF j
  <2>2. At32(k) + (5 + j) < p /\ p <= At32(k) + (6 + j)
    BY <1>1, <1>2, <2>1
  <2>3. Preceded(P, p, ChunkStart(k, j) + Lanes)
    BY <2>1, <2>2, After32
  <2>4. ChunkStart(k, j) + Lanes = ChunkStart(k, i)
    BY <1>2, <2>1, ChunkStartLemma
  <2> QED BY <1>1, <2>3, <2>4 DEF InChunk
<1>4. CASE i = 0 /\ k # 0
  <2> DEFINE j == k - 1
             h == Chunks - 1
  <2>1. j \in 0 .. K - 1 /\ j + 1 = k /\ j \in Nat /\ h \in 0 .. Chunks - 1 /\ h \in Nat /\ h = Chunks - 1
    BY <1>0, <1>2, <1>4
  <2>2. At32(k) = At32(j) + (Chunks + 5) /\ At32(j) \in Nat
    BY <2>1, At32Lemma
  <2>3. At32(j) + (5 + h) < p /\ p <= At32(j) + (Chunks + 5) + 5 /\ h = Chunks - 1
    BY <1>0, <1>1, <1>2, <1>4, <2>1, <2>2
  <2> HIDE DEF j, h
  <2>4. Preceded(P, p, ChunkStart(j, h) + Lanes)
    BY <2>1, <2>3, After32
  <2>5. ChunkStart(j, h) + Lanes = Start(j) + N
    BY <2>1, <2>3, ChunkStartLemma
  <2>6. Start(j) + N = Start(k) /\ ChunkStart(k, i) = Start(k)
    BY <1>2, <1>4, <2>1, StartLemma, ChunkStartLemma
  <2> QED BY <1>1, <2>4, <2>5, <2>6 DEF InChunk
<1>5. CASE i = 0 /\ k = 0
  <2>1. p = At32(0) + 5
    BY <1>1, <1>2, <1>5
  <2>2. ASSUME NEW q \in 1 .. p - 1, Advancing(P, q)
        PROVE  FALSE
    <3>1. q \in 1 .. Len(P)
      BY <1>2, <2>1, Program32Lemma
    <3>2. PICK j \in 0 .. K - 1, h \in 0 .. Chunks - 1 : q = At32(j) + (5 + h)
      BY <2>2, <3>1, Advancing32
    <3>3. j \in Nat /\ h \in Nat /\ At32(j) \in Nat /\ (0 < j => At32(0) <= At32(j))
      <4>1. j \in Nat /\ h \in Nat /\ 0 \in Nat
        BY <1>0
      <4>2. At32(j) \in Nat /\ (0 < j => At32(0) + (Chunks + 5) <= At32(j))
        BY <4>1, At32Lemma
      <4> QED BY <1>0, <1>2, <4>1, <4>2
    <3>4. At32(0) <= At32(j)
      <4>1. j = 0 \/ 0 < j
        BY <3>3
      <4> QED BY <1>2, <3>3, <4>1
    <3>5. At32(0) \in Nat /\ At32(j) \in Nat /\ h \in Nat
      BY <1>2, <3>3
    <3>6. q < At32(0) + 5
      BY <1>2, <2>1, <1>5
    <3> QED BY ONLY <3>2, <3>4, <3>5, <3>6
  <2>3. ChunkStart(k, i) = 0
    BY <1>5, StartLemma, ChunkStartLemma
  <2>4. Preceded(P, p, 0)
    <3> HIDE DEF P
    <3> QED BY <2>2 DEF Preceded
  <2> QED BY <1>1, <2>3, <2>4 DEF InChunk
<1> QED BY <1>3, <1>4, <1>5

\* It writes the last bytes behind the hints.
LEMMA Lasts32 == Lasts(Code32)
<1> DEFINE P == Code32
<1>0. K \in Nat /\ Chunks \in Nat \ {0} /\ Len(P) = At32(K) + 2 /\ At32(K) \in Nat
  BY ChunksLemma, Program32Lemma, At32Lemma
<1>1. ASSUME NEW p \in 1 .. Len(P), P[p][1] = "last"
      PROVE  InLast(P, p)
  <2>1. PICK k \in 0 .. K - 1 : P[p] = <<"last", k>> /\ p = At32(k) + (Chunks + 5)
    BY <1>1, Facts32Lemma DEF Facts32
  <2> DEFINE h == Chunks - 1
  <2>7. k \in Nat /\ h \in 0 .. Chunks - 1
    BY <1>0
  <2>8. \A j \in Nat : At32(j) \in Nat
    BY At32Lemma
  <2>2. At32(k) \in Nat /\ k \in Nat /\ h \in 0 .. Chunks - 1
    BY <2>7, <2>8
  <2>3. At32(k) + (5 + h) < p /\ p <= At32(k) + (Chunks + 5) + 5 /\ h = Chunks - 1
    BY <1>0, <2>1, <2>2
  <2> HIDE DEF h
  <2>4. Preceded(P, p, ChunkStart(k, h) + Lanes)
    BY <2>2, <2>3, After32
  <2>5. ChunkStart(k, h) + Lanes = Start(k) + N
    BY <2>2, <2>3, ChunkStartLemma
  <2> QED BY <2>1, <2>4, <2>5 DEF InLast
<1>2. ASSUME NEW k \in 0 .. K - 1
      PROVE  \E p \in 1 .. Len(P) : P[p] = <<"last", k>>
  <2>1. At32(k) \in Nat /\ At32(k) + (Chunks + 5) <= At32(K)
    <3>1. k \in Nat /\ k < K
      BY <1>0
    <3> QED BY <1>0, <3>1, At32Lemma
  <2>2. At32(k) + (Chunks + 5) \in 1 .. Len(P)
    BY <1>0, <2>1
  <2>3. P[At32(k) + (Chunks + 5)] = <<"last", k>>
    BY Table32 DEF PolyTable32
  <2> QED BY <2>2, <2>3
<1> QED BY <1>1, <1>2 DEF Lasts

\* It covers every position.
LEMMA Complete32 == Complete("rej_loop_32t", Code32)
<1> DEFINE P == Code32
<1>0. K \in Nat \ {0} /\ Chunks \in Nat \ {0} /\ Len(P) = At32(K) + 2 /\ At32(K) \in Nat /\ Lanes \in Nat
  BY ChunksLemma, Program32Lemma, At32Lemma
<1>1. ASSUME NEW k \in 0 .. K - 1, NEW i \in 0 .. Chunks - 1
      PROVE  \E p \in 1 .. Len(P) : P[p] = <<"chunk", k, i>>
  <2>1. At32(k) \in Nat /\ At32(k) + (Chunks + 5) <= At32(K)
    <3>1. k \in Nat /\ k < K
      BY <1>0
    <3> QED BY <1>0, <3>1, At32Lemma
  <2>2. At32(k) + (4 + (i + 1)) \in 1 .. Len(P) /\ i + 1 \in 1 .. Chunks /\ (i + 1) - 1 = i
    BY <1>0, <2>1
  <2>3. P[At32(k) + (4 + (i + 1))] = <<"chunk", k, (i + 1) - 1>>
    BY <2>2, Table32 DEF PolyTable32
  <2> QED BY <2>2, <2>3
<1>2. ASSUME NEW k \in 0 .. K - 1, NEW x \in 0 .. N - 1
      PROVE  \E p \in 1 .. Len(P), w \in {0} : Covers(P, p, w, k, x)
  <2>1. PICK i \in 0 .. Chunks - 1, u \in 0 .. Lanes - 1 : x = Lanes * i + u
    BY ChunkOf
  <2>2. PICK p \in 1 .. Len(P) : P[p] = <<"chunk", k, i>>
    BY <1>1
  <2>3. Covers(P, p, 0, k, x)
    <3> HIDE DEF P
    <3> QED BY <2>1, <2>2 DEF Covers
  <2> QED BY <2>3
<1>3. \E p \in 1 .. Len(P) : Limits(P, p, Start(K))
  <2> DEFINE j == K - 1
             h == Chunks - 1
  <2>1. j \in 0 .. K - 1 /\ j \in Nat /\ j + 1 = K /\ h \in 0 .. Chunks - 1 /\ h = Chunks - 1
    BY <1>0
  <2> HIDE DEF j, h
  <2>2. PICK p \in 1 .. Len(P) : P[p] = <<"chunk", j, h>>
    BY <1>1, <2>1
  <2>3. ChunkStart(j, h) + Lanes = Start(K)
    BY <2>1, ChunkStartLemma, StartLemma
  <2>4. Limits(P, p, Start(K))
    <3> HIDE DEF P
    <3> QED BY <2>1, <2>2, <2>3 DEF Limits
  <2> QED BY <2>4
<1> QED BY <1>2, <1>3 DEF Complete, WarpsOf

\* rej_loop_32t has the shape.
LEMMA Shape32 == Shape("rej_loop_32t", Code32)
<1>1. Ordered("rej_loop_32t", Code32)
  BY DEF Ordered, Apart
<1> QED BY <1>1, Program32Lemma, Once32, Checked32, Halves32, InChunks32, Lasts32, Complete32
        DEF Shape

-----------------------------------------------------------------------------
(* The encoding.  The code of a hint is its place among all positions; ranks *)
(* are counts of smaller codes.                                            *)
\* The code of a hint, and the codes of a set of hints.
CodeOf(h) == Start(h[1]) + h[2]
Codes(hints) == {CodeOf(h) : h \in hints}

\* Codes are different, and ordered as the hints are.
LEMMA CodeLemma ==
  /\ \A h \in Hints : /\ h[1] \in Nat /\ h[1] < K /\ h[2] \in Nat /\ h[2] < N
                      /\ h = <<h[1], h[2]>>
                      /\ CodeOf(h) \in Nat /\ Start(h[1]) <= CodeOf(h)
                      /\ CodeOf(h) < Start(h[1]) + N /\ CodeOf(h) < Start(K)
  /\ \A g, h \in Hints : Before(g, h) <=> CodeOf(g) < CodeOf(h)
  /\ \A g, h \in Hints : CodeOf(g) = CodeOf(h) => g = h
<1>1. K \in Nat /\ N \in Nat
  BY ChunksLemma
<1>2. ASSUME NEW h \in Hints
      PROVE  /\ h[1] \in Nat /\ h[1] < K /\ h[2] \in Nat /\ h[2] < N /\ h = <<h[1], h[2]>>
             /\ CodeOf(h) \in Nat /\ Start(h[1]) <= CodeOf(h) /\ Start(h[1]) \in Nat
             /\ CodeOf(h) < Start(h[1]) + N /\ CodeOf(h) < Start(K)
  <2>1. h[1] \in Nat /\ h[1] < K /\ h[2] \in Nat /\ h[2] < N /\ h = <<h[1], h[2]>>
    BY <1>1 DEF Hints
  <2>2. Start(h[1]) \in Nat /\ Start(h[1]) + N <= Start(K) /\ Start(K) \in Nat
    BY <1>1, <2>1, StartLemma
  <2> DEFINE s == Start(h[1])
             x == h[2]
  <2>3. CodeOf(h) = s + x /\ s \in Nat /\ x \in Nat /\ x < N
    BY <2>1, <2>2 DEF CodeOf
  <2> HIDE DEF s, x
  <2>4. CodeOf(h) \in Nat /\ s <= CodeOf(h) /\ CodeOf(h) < s + N
    BY <1>1, <2>3
  <2> QED BY <1>1, <2>1, <2>2, <2>4 DEF s
<1>3. ASSUME NEW g \in Hints, NEW h \in Hints
      PROVE  (Before(g, h) <=> CodeOf(g) < CodeOf(h)) /\ (CodeOf(g) = CodeOf(h) => g = h)
  <2>1. /\ g[1] \in Nat /\ h[1] \in Nat /\ g[2] \in Nat /\ h[2] \in Nat
        /\ CodeOf(g) \in Nat /\ CodeOf(h) \in Nat /\ Start(g[1]) <= CodeOf(g) /\ Start(h[1]) <= CodeOf(h)
        /\ CodeOf(g) < Start(g[1]) + N /\ CodeOf(h) < Start(h[1]) + N
        /\ g = <<g[1], g[2]>> /\ h = <<h[1], h[2]>>
        /\ Start(g[1]) \in Nat /\ Start(h[1]) \in Nat
    BY <1>2
  <2>2. g[1] < h[1] => Start(g[1]) + N <= Start(h[1])
    BY <2>1, StartLemma
  <2>3. h[1] < g[1] => Start(h[1]) + N <= Start(g[1])
    BY <2>1, StartLemma
  <2>4. CASE g[1] < h[1]
    <3>1. CodeOf(g) < CodeOf(h)
      BY <1>1, <2>1, <2>2, <2>4
    <3>2. Before(g, h)
      BY <2>4 DEF Before
    <3> QED BY <2>1, <3>1, <3>2
  <2>5. CASE h[1] < g[1]
    <3>1. CodeOf(h) < CodeOf(g)
      BY <1>1, <2>1, <2>3, <2>5
    <3>2. ~Before(g, h)
      BY <2>1, <2>5 DEF Before
    <3> QED BY <2>1, <3>1, <3>2
  <2>6. CASE g[1] = h[1]
    <3>1. CodeOf(g) = Start(g[1]) + g[2] /\ CodeOf(h) = Start(g[1]) + h[2]
      BY <2>6 DEF CodeOf
    <3>2. Before(g, h) <=> g[2] < h[2]
      BY <2>1, <2>6 DEF Before
    <3>3. (CodeOf(g) < CodeOf(h) <=> g[2] < h[2]) /\ (CodeOf(g) = CodeOf(h) => g[2] = h[2])
      BY <2>1, <3>1
    <3> QED BY <2>1, <2>6, <3>2, <3>3
  <2> QED BY <2>1, <2>4, <2>5, <2>6
<1> QED BY <1>2, <1>3

\* The codes of a set of hints tell which hints are in it.
LEMMA CodesLemma ==
  ASSUME NEW hints, hints \subseteq Hints
  PROVE  /\ \A x \in Codes(hints) : x \in Nat /\ x < Start(K)
         /\ \A k \in 0 .. K - 1, x \in 0 .. N - 1 : Start(k) + x \in Codes(hints) <=> <<k, x>> \in hints
<1>1. \A x \in Codes(hints) : x \in Nat /\ x < Start(K)
  <2>1. \A h \in hints : CodeOf(h) \in Nat /\ CodeOf(h) < Start(K)
    BY CodeLemma
  <2> QED BY <2>1 DEF Codes
<1>2. ASSUME NEW k \in 0 .. K - 1, NEW x \in 0 .. N - 1
      PROVE  Start(k) + x \in Codes(hints) <=> <<k, x>> \in hints
  <2> DEFINE g == <<k, x>>
  <2>1. g \in Hints /\ CodeOf(g) = Start(k) + x
    BY DEF Hints, CodeOf
  <2> HIDE DEF g
  <2>2. \A h \in hints : CodeOf(h) = CodeOf(g) => h = g
    BY <2>1, CodeLemma
  <2>3. CodeOf(g) \in Codes(hints) <=> g \in hints
    BY <2>2 DEF Codes
  <2> QED BY <2>1, <2>3 DEF g
<1> QED BY <1>1, <1>2

\* Hints and their codes are as many.
LEMMA SameNumber ==
  ASSUME NEW hints, hints \subseteq Hints, NEW A, A \subseteq hints
  PROVE  IsFiniteSet(A) /\ Cardinality(A) = Cardinality({CodeOf(h) : h \in A})
<1> DEFINE B == {CodeOf(h) : h \in A}
           f == [h \in A |-> CodeOf(h)]
<1>1. f \in Bijection(A, B)
  <2>1. f \in [A -> B]
    OBVIOUS
  <2>2. \A g, h \in A : f[g] = f[h] => g = h
    <3>1. \A h \in A : h \in Hints /\ f[h] = CodeOf(h)
      OBVIOUS
    <3> HIDE DEF f
    <3> QED BY <3>1, CodeLemma
  <2>3. \A b \in B : \E h \in A : f[h] = b
    OBVIOUS
  <2> QED BY <2>1, <2>2, <2>3 DEF Bijection, Injection, Surjection, IsInjective
<1>2. ExistsBijection(A, B)
  BY <1>1 DEF ExistsBijection
<1>3. IsFiniteSet(A)
  <2>1. IsFiniteSet(0 .. K - 1) /\ IsFiniteSet(0 .. N - 1)
    BY ChunksLemma, FS_Interval
  <2>2. IsFiniteSet(Hints)
    BY <2>1, FS_Product DEF Hints
  <2> QED BY <2>2, FS_Subset
<1> HIDE DEF B
<1> QED BY <1>2, <1>3, FS_Bijection DEF B

\* Numbers of hints are numbers of smaller codes.
LEMMA NumberLemma ==
  ASSUME NEW hints, hints \subseteq Hints
  PROVE  /\ Cardinality(hints) = CountIn(Codes(hints), Start(K))
         /\ \A h \in Hints : Rank(hints, h) = CountIn(Codes(hints), CodeOf(h))
         /\ \A k \in 0 .. K - 1 : Cardinality({h \in hints : h[1] <= k}) = CountIn(Codes(hints), Start(k) + N)
<1>0. ASSUME NEW A, A \subseteq hints, NEW m, \A h \in hints : h \in A <=> CodeOf(h) < m
      PROVE  Cardinality(A) = CountIn(Codes(hints), m)
  <2>1. {CodeOf(h) : h \in A} = Below(Codes(hints), m)
    <3>1. \A x : x \in {CodeOf(h) : h \in A} <=> x \in Below(Codes(hints), m)
      BY <1>0 DEF Below, Codes
    <3> QED BY ONLY <3>1
  <2>2. Cardinality(A) = Cardinality({CodeOf(h) : h \in A})
    BY <1>0, SameNumber
  <2> QED BY <2>1, <2>2 DEF CountIn
<1>1. Cardinality(hints) = CountIn(Codes(hints), Start(K))
  <2>1. \A h \in hints : h \in hints <=> CodeOf(h) < Start(K)
    BY CodeLemma
  <2> QED BY <1>0, <2>1
<1>2. ASSUME NEW h \in Hints
      PROVE  Rank(hints, h) = CountIn(Codes(hints), CodeOf(h))
  <2> DEFINE A == {g \in hints : Before(g, h)}
  <2>1. \A g \in hints : g \in A <=> CodeOf(g) < CodeOf(h)
    BY CodeLemma
  <2>2. Cardinality(A) = CountIn(Codes(hints), CodeOf(h))
    BY <1>0, <2>1
  <2> QED BY <2>2 DEF Rank
<1>3. ASSUME NEW k \in 0 .. K - 1
      PROVE  Cardinality({h \in hints : h[1] <= k}) = CountIn(Codes(hints), Start(k) + N)
  <2> DEFINE A == {h \in hints : h[1] <= k}
             m == Start(k) + N
  <2>9. k \in Nat /\ N \in Nat
    BY ChunksLemma
  <2>0. k \in Nat /\ Start(k) \in Nat /\ N \in Nat
    BY <2>9, StartLemma
  <2>1. \A g \in hints : g \in A <=> CodeOf(g) < m
    <3> TAKE g \in hints
    <3>1. /\ g[1] \in Nat /\ CodeOf(g) \in Nat /\ Start(g[1]) <= CodeOf(g)
          /\ CodeOf(g) < Start(g[1]) + N /\ Start(g[1]) \in Nat
      BY CodeLemma, StartLemma
    <3>2. (g[1] < k => Start(g[1]) + N <= Start(k)) /\ (k < g[1] => Start(k) + N <= Start(g[1]))
      BY <2>0, <3>1, StartLemma
    <3>3. g \in A <=> g[1] <= k
      OBVIOUS
    <3>4. g[1] < k \/ k < g[1] \/ (g[1] = k /\ Start(g[1]) = Start(k))
      BY <2>0, <3>1
    <3> HIDE DEF A
    <3> QED BY <2>0, <3>1, <3>2, <3>3, <3>4
  <2>2. Cardinality(A) = CountIn(Codes(hints), m)
    <3> HIDE DEF m
    <3> QED BY <1>0, <2>1
  <2> QED BY <2>2
<1> QED BY <1>1, <1>2, <1>3

\* The hint after i others.
IsNth(hints, i, h) == h \in hints /\ CountIn(Codes(hints), CodeOf(h)) = i

\* What HintBitPack puts into each byte.
LEMMA PackLemma ==
  ASSUME NEW hints, hints \subseteq Hints, Cardinality(hints) <= OMEGA
  PROVE  /\ CountIn(Codes(hints), Start(K)) <= OMEGA
         /\ \A k \in 0 .. K - 1 : HintBitPack(hints)[OMEGA + k] = CountIn(Codes(hints), Start(k) + N)
         /\ \A h \in hints : /\ CountIn(Codes(hints), CodeOf(h)) \in 0 .. CountIn(Codes(hints), Start(K)) - 1
                             /\ HintBitPack(hints)[CountIn(Codes(hints), CodeOf(h))] = h[2]
         /\ \A i \in Nat : i < OMEGA /\ ~(i < CountIn(Codes(hints), Start(K))) => HintBitPack(hints)[i] = 0
         /\ \A i \in Nat : i < CountIn(Codes(hints), Start(K)) => \E h : IsNth(hints, i, h)
<1> DEFINE G == Codes(hints)
           n == CountIn(G, Start(K))
           b == HintBitPack(hints)
<1>0. K \in Nat \ {0} /\ OMEGA \in Nat \ {0} /\ Start(K) \in Nat
  <2>1. K \in Nat \ {0} /\ OMEGA \in Nat \ {0}
    BY ChunksLemma
  <2> QED BY <2>1, StartLemma
<1>1. \A x \in G : x \in Nat /\ x < Start(K)
  BY CodesLemma
<1>2. n = Cardinality(hints) /\ n \in Nat /\ n <= OMEGA
  <2>1. n = Cardinality(hints)
    BY NumberLemma
  <2>2. n \in Nat
    BY <1>0, <1>1, CountLemma
  <2> QED BY <2>1, <2>2
<1>3. ASSUME NEW k \in 0 .. K - 1
      PROVE  b[OMEGA + k] = CountIn(G, Start(k) + N)
  <2>1. OMEGA + k \in HintBytes /\ OMEGA + k >= OMEGA /\ (OMEGA + k) - OMEGA = k
    BY <1>0 DEF HintBytes
  <2>2. b[OMEGA + k] = Cardinality({h \in hints : h[1] <= k})
    BY <2>1 DEF HintBitPack
  <2> QED BY <2>2, NumberLemma
<1>4. ASSUME NEW h \in hints
      PROVE  CountIn(G, CodeOf(h)) \in 0 .. n - 1 /\ b[CountIn(G, CodeOf(h))] = h[2]
  <2> DEFINE i == CountIn(G, CodeOf(h))
  <2>1. CodeOf(h) \in G /\ CodeOf(h) \in Nat /\ CodeOf(h) < Start(K)
    BY CodeLemma DEF Codes
  <2>2. i \in Nat /\ i + 1 <= n
    BY <1>0, <1>1, <2>1, CountLemma, CountStrict
  <2>3. i \in HintBytes /\ ~(i >= OMEGA) /\ i < Cardinality(hints)
    BY <1>0, <1>2, <2>2 DEF HintBytes
  <2>4. b[i] = (CHOOSE g \in hints : Rank(hints, g) = i)[2]
    BY <2>3 DEF HintBitPack
  <2>5. Rank(hints, h) = i
    BY NumberLemma
  <2> DEFINE g == CHOOSE g \in hints : Rank(hints, g) = i
  <2>6. g \in hints /\ Rank(hints, g) = i
    BY <2>5
  <2>8. b[i] = g[2]
    BY <2>4
  <2> HIDE DEF g
  <2>7. g = h
    <3>1. CountIn(G, CodeOf(g)) = i /\ CodeOf(g) \in G
      BY <2>6, NumberLemma DEF Codes
    <3>2. NthIn(G, i) = CodeOf(g)
      BY <1>1, <3>1, NthLemma
    <3>3. NthIn(G, i) = CodeOf(h)
      BY <1>1, <2>1, NthLemma
    <3> QED BY <2>6, <3>2, <3>3, CodeLemma
  <2> QED BY <1>0, <1>2, <2>2, <2>7, <2>8
<1>5. ASSUME NEW i \in Nat, i < OMEGA, ~(i < n)
      PROVE  b[i] = 0
  <2>1. i \in HintBytes /\ ~(i >= OMEGA) /\ ~(i < Cardinality(hints))
    BY <1>0, <1>2, <1>5 DEF HintBytes
  <2> QED BY <2>1 DEF HintBitPack
<1>6. ASSUME NEW i \in Nat, i < n
      PROVE  \E h : IsNth(hints, i, h)
  <2>1. PICK s \in G : CountIn(G, s) = i
    BY <1>0, <1>1, <1>6, NthExists
  <2>2. PICK h \in hints : s = CodeOf(h)
    BY DEF Codes
  <2> QED BY <2>1, <2>2 DEF IsNth
<1> QED BY <1>2, <1>3, <1>4, <1>5, <1>6

\* The verifier accepts the encoding of at most OMEGA hints, and reads them
\* back from it.
THEOREM HintEncodingTheorem ==
  ASSUME NEW hints, hints \subseteq Hints, Cardinality(hints) <= OMEGA
  PROVE  HintsAccepted(HintBitPack(hints)) /\ HintsOf(HintBitPack(hints)) = hints
<1> DEFINE G == Codes(hints)
           n == CountIn(G, Start(K))
           b == HintBitPack(hints)
<1>0. K \in Nat \ {0} /\ OMEGA \in Nat \ {0} /\ N \in Nat /\ Start(K) \in Nat /\ Start(0) = 0
  <2>1. K \in Nat \ {0} /\ OMEGA \in Nat \ {0} /\ N \in Nat
    BY ChunksLemma
  <2> QED BY <2>1, StartLemma
<1>1. \A x \in G : x \in Nat /\ x < Start(K)
  BY CodesLemma
<1>2. /\ n <= OMEGA
      /\ \A k \in 0 .. K - 1 : b[OMEGA + k] = CountIn(G, Start(k) + N)
      /\ \A h \in hints : CountIn(G, CodeOf(h)) \in 0 .. n - 1 /\ b[CountIn(G, CodeOf(h))] = h[2]
      /\ \A i \in Nat : i < OMEGA /\ ~(i < n) => b[i] = 0
      /\ \A i \in Nat : i < n => \E h : IsNth(hints, i, h)
  BY PackLemma
<1> HIDE DEF b
<1>3. n \in Nat
  BY <1>0, <1>1, CountLemma
<1>4. \A k \in 0 .. K - 1 : /\ Start(k) \in Nat /\ Start(k) + N \in Nat /\ Start(k) + N <= Start(K)
                            /\ k # 0 => k - 1 \in 0 .. K - 1 /\ Start(k - 1) + N = Start(k)
  <2> TAKE k \in 0 .. K - 1
  <2>1. k \in Nat /\ K \in Nat /\ k < K /\ (k # 0 => k - 1 \in Nat /\ (k - 1) + 1 = k)
    BY <1>0
  <2>2. Start(k) \in Nat /\ Start(k) + N <= Start(K)
    BY <2>1, StartLemma
  <2>3. k # 0 => Start(k - 1) + N = Start(k)
    BY <2>1, StartLemma
  <2> QED BY <1>0, <2>1, <2>2, <2>3
<1>5. ASSUME NEW k \in 0 .. K - 1
      PROVE  /\ First(b, k) = CountIn(G, Start(k)) /\ End(b, k) = CountIn(G, Start(k) + N)
             /\ First(b, k) \in Nat /\ End(b, k) \in Nat
             /\ First(b, k) <= End(b, k) /\ End(b, k) <= n
  <2>1. End(b, k) = CountIn(G, Start(k) + N)
    BY <1>2 DEF End
  <2>2. First(b, k) = CountIn(G, Start(k))
    <3>1. CASE k = 0
      <4>1. CountIn(G, 0) = 0
        BY <1>1, CountLemma
      <4> QED BY <1>0, <3>1, <4>1 DEF First
    <3>2. CASE k # 0
      <4>1. First(b, k) = b[OMEGA + k - 1]
        BY <3>2 DEF First
      <4>2. OMEGA + k - 1 = OMEGA + (k - 1) /\ k - 1 \in 0 .. K - 1
        BY <1>0, <1>4, <3>2
      <4>3. b[OMEGA + (k - 1)] = CountIn(G, Start(k - 1) + N)
        BY <1>2, <4>2
      <4> QED BY <1>4, <3>2, <4>1, <4>2, <4>3
    <3> QED BY <3>1, <3>2
  <2>3. /\ Start(k) \in Nat /\ Start(k) + N \in Nat /\ Start(k) <= Start(k) + N
        /\ Start(k) + N <= Start(K)
    BY <1>0, <1>4
  <2>4. CountIn(G, Start(k)) \in Nat /\ CountIn(G, Start(k) + N) \in Nat
    BY <1>1, <2>3, CountLemma
  <2>5. CountIn(G, Start(k)) <= CountIn(G, Start(k) + N)
    BY <1>1, <2>3, CountGrows
  <2>6. CountIn(G, Start(k) + N) <= n
    BY <1>0, <1>1, <2>3, CountGrows
  <2> QED BY <2>1, <2>2, <2>4, <2>5, <2>6
<1>6. \* A byte of polynomial k is the position of one of its hints.
      ASSUME NEW k \in 0 .. K - 1, NEW i \in First(b, k) .. End(b, k) - 1
      PROVE  \E h \in hints : /\ CountIn(G, CodeOf(h)) = i /\ b[i] = h[2] /\ h[1] = k
  <2>1. i \in Nat /\ i < n /\ First(b, k) <= i /\ i < End(b, k)
    BY <1>3, <1>5
  <2>2. PICK h : IsNth(hints, i, h)
    BY <1>2, <2>1
  <2>3. h \in hints /\ CountIn(G, CodeOf(h)) = i
    BY <2>2 DEF IsNth
  <2>4. b[i] = h[2]
    BY <1>2, <2>3
  <2>5. /\ h[1] \in Nat /\ CodeOf(h) \in Nat /\ Start(h[1]) <= CodeOf(h)
        /\ CodeOf(h) < Start(h[1]) + N /\ CodeOf(h) \in G /\ Start(h[1]) \in Nat
    BY <2>3, CodeLemma, StartLemma DEF Codes
  <2>6. Start(k) \in Nat /\ Start(k) + N \in Nat
    BY <1>4
  <2>7. CodeOf(h) >= Start(k)
    <3> SUFFICES ASSUME CodeOf(h) < Start(k) PROVE FALSE
      BY <2>5, <2>6
    <3>1. i + 1 <= CountIn(G, Start(k))
      BY <1>1, <2>3, <2>5, <2>6, CountStrict
    <3> QED BY <1>5, <2>1, <3>1
  <2>8. CodeOf(h) < Start(k) + N
    <3> SUFFICES ASSUME Start(k) + N <= CodeOf(h) PROVE FALSE
      BY <2>5, <2>6
    <3>1. CountIn(G, Start(k) + N) <= i
      BY <1>1, <2>3, <2>5, <2>6, CountGrows
    <3> QED BY <1>5, <2>1, <3>1
  <2>9. k \in Nat
    BY <1>0
  <2>10. (h[1] < k => Start(h[1]) + N <= Start(k)) /\ (k < h[1] => Start(k) + N <= Start(h[1]))
    BY <2>5, <2>9, StartLemma
  <2>11. h[1] = k
    BY <1>0, <2>5, <2>6, <2>7, <2>8, <2>9, <2>10
  <2> QED BY <2>3, <2>4, <2>11
<1>7. ASSUME NEW k \in 0 .. K - 1
      PROVE  ~PolyFails(b, k)
  <2>1. \A i \in First(b, k) .. End(b, k) - 1 : ~(i > First(b, k) /\ b[i] <= b[i - 1])
    <3> SUFFICES ASSUME NEW i \in First(b, k) .. End(b, k) - 1, i > First(b, k)
                 PROVE  ~(b[i] <= b[i - 1])
      OBVIOUS
    <3>1. i \in Nat /\ i - 1 \in First(b, k) .. End(b, k) - 1 /\ i - 1 < i
      BY <1>5
    <3>2. PICK h \in hints : CountIn(G, CodeOf(h)) = i /\ b[i] = h[2] /\ h[1] = k
      BY <1>6
    <3>3. PICK g \in hints : CountIn(G, CodeOf(g)) = i - 1 /\ b[i - 1] = g[2] /\ g[1] = k
      BY <1>6, <3>1
    <3>4. CodeOf(g) \in Nat /\ CodeOf(h) \in Nat /\ CodeOf(h) = Start(k) + h[2]
          /\ CodeOf(g) = Start(k) + g[2] /\ g[2] \in Nat /\ h[2] \in Nat /\ Start(k) \in Nat
      BY <1>4, <3>2, <3>3, CodeLemma DEF CodeOf
    <3>5. CodeOf(g) < CodeOf(h)
      <4> SUFFICES ASSUME CodeOf(h) <= CodeOf(g) PROVE FALSE
        BY <3>4
      <4>1. CountIn(G, CodeOf(h)) <= CountIn(G, CodeOf(g))
        BY <1>1, <3>4, CountGrows
      <4> QED BY <3>1, <3>2, <3>3, <4>1
    <3> QED BY <3>2, <3>3, <3>4, <3>5
  <2>2. FailMask(First(b, k), End(b, k), LAMBDA i : i > First(b, k) /\ b[i] <= b[i - 1]) = {}
    <3>1. \A t : {i \in First(b, k) .. End(b, k) - 1 :
                   (i - First(b, k)) % Lanes = t /\ (i > First(b, k) /\ b[i] <= b[i - 1])} = {}
      BY <2>1
    <3>2. Cardinality({}) % 2 # 1
      BY FS_EmptySet
    <3> QED BY <3>1, <3>2 DEF FailMask
  <2>3. ~(End(b, k) < First(b, k)) /\ ~(End(b, k) > OMEGA)
    BY <1>0, <1>2, <1>3, <1>5
  <2> QED BY <2>2, <2>3 DEF PolyFails
<1>8. ~ExtraFails(b)
  <2>1. K - 1 \in 0 .. K - 1 /\ K - 1 \in Nat /\ (K - 1) + 1 = K
    BY <1>0
  <2>2. End(b, K - 1) = n
    <3>1. Start(K - 1) + N = Start(K)
      BY <2>1, StartLemma
    <3> QED BY <1>5, <2>1, <3>1
  <2>3. \A i \in n .. OMEGA - 1 : b[i] = 0
    BY <1>0, <1>2, <1>3
  <2>4. FailMask(n, OMEGA, LAMBDA i : b[i] # 0) = {}
    <3>1. \A t : {i \in n .. OMEGA - 1 : (i - n) % Lanes = t /\ b[i] # 0} = {}
      BY <2>3
    <3>2. Cardinality({}) % 2 # 1
      BY FS_EmptySet
    <3> HIDE DEF n
    <3> QED BY <3>1, <3>2 DEF FailMask
  <2> QED BY <2>2, <2>4 DEF ExtraFails
<1>9. HintsOf(b) = hints
  <2>1. ASSUME NEW k \in 0 .. K - 1, NEW i \in First(b, k) .. End(b, k) - 1
        PROVE  <<k, b[i]>> \in hints
    <3>1. PICK h \in hints : b[i] = h[2] /\ h[1] = k
      BY <1>6
    <3>2. h = <<h[1], h[2]>>
      BY CodeLemma
    <3> QED BY <3>1, <3>2
  <2>2. ASSUME NEW h \in hints
        PROVE  \E k \in 0 .. K - 1 : \E i \in First(b, k) .. End(b, k) - 1 : h = <<k, b[i]>>
    <3> DEFINE k == h[1]
               i == CountIn(G, CodeOf(h))
    <3>1. /\ k \in 0 .. K - 1 /\ h = <<k, h[2]>> /\ CodeOf(h) \in G /\ CodeOf(h) \in Nat
          /\ Start(k) <= CodeOf(h) /\ CodeOf(h) < Start(k) + N
      BY <1>0, CodeLemma DEF Codes
    <3>2. b[i] = h[2] /\ i \in Nat
      BY <1>1, <1>2, <3>1, CountLemma
    <3>3. Start(k) \in Nat /\ Start(k) + N \in Nat
      BY <1>4, <3>1
    <3>4. CountIn(G, Start(k)) <= i
      BY <1>1, <3>1, <3>3, CountGrows
    <3>5. i + 1 <= CountIn(G, Start(k) + N)
      BY <1>1, <3>1, <3>3, CountStrict
    <3>6. i \in First(b, k) .. End(b, k) - 1
      BY <1>5, <3>1, <3>2, <3>4, <3>5
    <3> QED BY <3>1, <3>2, <3>6
  <2>3. \A h : h \in HintsOf(b) <=> h \in hints
    BY <2>1, <2>2 DEF HintsOf
  <2> QED BY ONLY <2>3
<1>10. HintsAccepted(b)
  BY <1>7, <1>8 DEF HintsAccepted
<1> QED BY <1>9, <1>10 DEF b

-----------------------------------------------------------------------------
(* Counting by warps, and where an attempt ends.                           *)
\* The members of G from base + a to base + b - 1, counted from base.
Span(G, base, a, b) == {t \in a .. b - 1 : base + t \in G}

\* By definition.
LEMMA SpanMembers ==
  ASSUME NEW G, NEW base, NEW a, NEW b, NEW t
  PROVE  t \in Span(G, base, a, b) <=> t \in a .. b - 1 /\ base + t \in G
  BY DEF Span

\* Their number.
LEMMA SpanLemma ==
  ASSUME NEW G, \A x \in G : x \in Nat, NEW base \in Nat, NEW a \in Nat, NEW b \in Nat, a <= b
  PROVE  /\ IsFiniteSet(Span(G, base, a, b))
         /\ Cardinality(Span(G, base, a, b)) = CountIn(G, base + b) - CountIn(G, base + a)
<1> DEFINE S(t) == Span(G, base, a, t)
           H == {t \in a .. b : /\ IsFiniteSet(S(t))
                                /\ Cardinality(S(t)) = CountIn(G, base + t) - CountIn(G, base + a)}
<1>1. a \in H
  <2>1. S(a) = {}
    BY DEF Span
  <2>2. base + a \in Nat
    OBVIOUS
  <2>3. CountIn(G, base + a) \in Nat
    BY <2>2, CountLemma
  <2>4. a \in a .. b
    OBVIOUS
  <2> HIDE DEF S
  <2> QED BY <2>1, <2>3, <2>4, FS_EmptySet
<1>2. \A t \in a .. b - 1 : t \in H => t + 1 \in H
  <2> SUFFICES ASSUME NEW t \in a .. b - 1, t \in H PROVE t + 1 \in H
    OBVIOUS
  <2>0. base + t \in Nat /\ base + (t + 1) = (base + t) + 1 /\ base + a \in Nat /\ t + 1 \in a .. b
    OBVIOUS
  <2>1. CountIn(G, base + t) \in Nat /\ CountIn(G, base + a) \in Nat
    BY <2>0, CountLemma
  <2>2. CASE base + t \in G
    <3>1. \A u : u \in S(t + 1) <=> u \in S(t) \cup {t}
      BY <2>2 DEF Span
    <3>2. S(t + 1) = S(t) \cup {t}
      BY ONLY <3>1
    <3>3. t \notin S(t)
      BY DEF Span
    <3> HIDE DEF S
    <3>4. IsFiniteSet(S(t + 1)) /\ Cardinality(S(t + 1)) = Cardinality(S(t)) + 1
      BY <3>2, <3>3, FS_AddElement
    <3>5. CountIn(G, base + (t + 1)) = CountIn(G, base + t) + 1
      BY <2>0, <2>2, CountLemma
    <3> QED BY <2>0, <2>1, <3>4, <3>5
  <2>3. CASE base + t \notin G
    <3>1. \A u : u \in S(t + 1) <=> u \in S(t)
      BY <2>3 DEF Span
    <3>2. S(t + 1) = S(t)
      BY ONLY <3>1
    <3> HIDE DEF S
    <3>3. CountIn(G, base + (t + 1)) = CountIn(G, base + t)
      BY <2>0, <2>3, CountLemma
    <3> QED BY <2>0, <2>1, <3>2, <3>3
  <2> QED BY <2>2, <2>3
<1>3. \A t \in a .. b : t \in H
  <2> HIDE DEF H
  <2>1. a \in Int /\ b \in Int
    OBVIOUS
  <2> QED BY <1>1, <1>2, <2>1, IntervalInduction
<1>4. b \in a .. b
  OBVIOUS
<1> QED BY <1>3, <1>4

\* The hints of a warp in a half.
LEMMA InWarpLemma ==
  ASSUME attempt.hints \subseteq Hints,
         NEW k \in 0 .. K - 1, NEW half \in {0, 1}, NEW w \in AllWarps
  PROVE  /\ InWarp(k, half, w) = Span(Codes(attempt.hints), HalfStart(k, half), w * Lanes, w * Lanes + Lanes)
         /\ w * Lanes \in Nat /\ w * Lanes + Lanes \in Nat /\ w * Lanes + Lanes <= BlockDim
         /\ HalfStart(k, half) \in Nat
         /\ \A t \in w * Lanes .. w * Lanes + Lanes - 1 :
              /\ half * BlockDim + t = Half(half) + t /\ Half(half) + t \in 0 .. N - 1
              /\ HalfStart(k, half) + t = Start(k) + (Half(half) + t)
<1> DEFINE a == w * Lanes
           G == Codes(attempt.hints)
<1>1. Lanes \in Nat \ {0} /\ NWarps \in Nat /\ BlockDim \in Nat /\ N = BlockDim + BlockDim /\ K \in Nat
      /\ BlockDim = Lanes * NWarps
  BY ChunksLemma
<1>2. a \in Nat /\ a + Lanes \in Nat /\ a + Lanes <= BlockDim
  <2>1. w \in Nat /\ w < NWarps /\ a = Lanes * w
    BY <1>1 DEF AllWarps
  <2>2. Lanes * w + Lanes <= Lanes * NWarps
    BY <1>1, <2>1, Multiples
  <2>3. Lanes * w \in Nat
    BY <1>1, <2>1
  <2> QED BY <1>1, <2>1, <2>2, <2>3
<1>3. k \in Nat
  BY <1>1
<1>4. Start(k) \in Nat
  BY <1>3, StartLemma
<1> HIDE DEF a
<1>5. HalfStart(k, half) = Start(k) + Half(half) /\ half * BlockDim = Half(half) /\ Half(half) \in Nat
      /\ Half(half) <= BlockDim
  BY <1>1 DEF HalfStart, Half
<1>6. \A t \in a .. a + Lanes - 1 :
        /\ half * BlockDim + t = Half(half) + t /\ Half(half) + t \in 0 .. N - 1
        /\ HalfStart(k, half) + t = Start(k) + (Half(half) + t)
  BY <1>1, <1>2, <1>4, <1>5
<1>7. \A t \in a .. a + Lanes - 1 : Hint(k, half * BlockDim + t) <=> HalfStart(k, half) + t \in G
  <2> TAKE t \in a .. a + Lanes - 1
  <2> DEFINE x == Half(half) + t
  <2>1. x \in 0 .. N - 1 /\ half * BlockDim + t = x /\ HalfStart(k, half) + t = Start(k) + x
    BY <1>6
  <2> HIDE DEF x, G
  <2>2. Start(k) + x \in Codes(attempt.hints) <=> <<k, x>> \in attempt.hints
    BY <2>1, CodesLemma
  <2> QED BY <2>1, <2>2 DEF Hint, G
<1>8. \A t : t \in InWarp(k, half, w) <=> t \in Span(G, HalfStart(k, half), a, a + Lanes)
  <2> DEFINE iv == a .. a + Lanes - 1
             base == HalfStart(k, half)
             off == half * BlockDim
  <2>1. \A t : t \in InWarp(k, half, w) <=> t \in iv /\ Hint(k, off + t)
    BY DEF InWarp, a
  <2> HIDE DEF off
  <2>2. \A t : t \in Span(G, base, a, a + Lanes) <=> t \in iv /\ base + t \in G
    <3> HIDE DEF base, G
    <3>1. \A b : b = a + Lanes => \A t : t \in Span(G, base, a, b) <=> t \in a .. b - 1 /\ base + t \in G
      BY ONLY SpanMembers
    <3>2. a + Lanes - 1 = (a + Lanes) - 1
      BY <1>1, <1>2
    <3> QED BY ONLY <3>1, <3>2, Zenon
  <2>3. \A t \in iv : Hint(k, off + t) <=> base + t \in G
    BY ONLY <1>7, Zenon DEF off
  <2> HIDE DEF iv, base
  <2>5. \A t : t \in InWarp(k, half, w) <=> t \in Span(G, base, a, a + Lanes)
    BY ONLY <2>1, <2>2, <2>3
  <2> QED BY <2>5 DEF base
<1>9. InWarp(k, half, w) = Span(G, HalfStart(k, half), a, a + Lanes)
  BY ONLY <1>8
<1> QED BY <1>2, <1>4, <1>5, <1>6, <1>9 DEF a

\* What warp v counts from base on.
WarpCount(G, base, v) == CountIn(G, base + (v * Lanes + Lanes)) - CountIn(G, base + v * Lanes)

\* The sum of the first n counts.
LEMMA CountedLemma ==
  ASSUME NEW G, \A x \in G : x \in Nat, NEW base \in Nat, NEW n \in Nat, n <= NWarps,
         \A v \in 0 .. n - 1 : s_hint_count[v] = WarpCount(G, base, v)
  PROVE  Counted(n) = CountIn(G, base + n * Lanes) - CountIn(G, base)
<1> DEFINE V == Int
           step == [xi \in Int \X (1 .. n) |-> xi[1] + WarpCount(G, base, xi[2] - 1)]
           Is(f) == f = [v \in 0 .. n |-> IF v = 0 THEN 0 ELSE f[v - 1] + s_hint_count[v - 1]]
           g == CHOOSE f : Is(f)
           at(v) == v * Lanes
<1>0. at(0) = 0 /\ \A v \in Nat : at(v) \in Nat /\ at(v + 1) = at(v) + Lanes
  <2>1. Lanes \in Nat
    BY ChunksLemma
  <2>2. \A v \in Nat : Lanes * v = v * Lanes
    BY <2>1
  <2> QED BY <2>1, <2>2, Multiples
<1>1. \A v \in Nat : CountIn(G, base + at(v)) \in Nat
  <2> TAKE v \in Nat
  <2>1. base + at(v) \in Nat
    BY <1>0
  <2> HIDE DEF at
  <2> QED BY <2>1, CountLemma
<1>2. \A v \in Nat : WarpCount(G, base, v) = CountIn(G, base + at(v + 1)) - CountIn(G, base + at(v))
                     /\ WarpCount(G, base, v) \in Int
  <2> TAKE v \in Nat
  <2>1. WarpCount(G, base, v) = CountIn(G, base + at(v + 1)) - CountIn(G, base + at(v))
    BY <1>0 DEF WarpCount
  <2>2. CountIn(G, base + at(v + 1)) \in Nat /\ CountIn(G, base + at(v)) \in Nat
    BY <1>1
  <2> HIDE DEF at
  <2> QED BY <2>1, <2>2
<1> HIDE DEF at
<1>3. \E f : Is(f)
  <2>1. step \in [Int \X (1 .. n) -> Int]
    <3>1. \A xi \in Int \X (1 .. n) : xi[1] + WarpCount(G, base, xi[2] - 1) \in Int
      <4> TAKE xi \in Int \X (1 .. n)
      <4>1. xi[1] \in Int /\ xi[2] - 1 \in Nat
        OBVIOUS
      <4>2. WarpCount(G, base, xi[2] - 1) \in Int
        BY <1>2, <4>1
      <4> QED BY <4>1, <4>2
    <3> QED BY <3>1
  <2>2. 0 \in Int
    OBVIOUS
  <2>3. \E f \in [0 .. n -> Int] : Recursion(f, 0, step, n)
    <3> HIDE DEF step
    <3> QED BY ONLY n \in Nat, <2>1, <2>2, RecursiveFunction
  <2>4. PICK f \in [0 .. n -> Int] : Recursion(f, 0, step, n)
    BY <2>3
  <2>5. \A v \in 1 .. n : f[v] = f[v - 1] + s_hint_count[v - 1]
    <3> TAKE v \in 1 .. n
    <3>1. v - 1 \in 0 .. n /\ v - 1 \in 0 .. n - 1
      OBVIOUS
    <3>2. f[v] = step[<<f[v - 1], v>>]
      BY <2>4 DEF Recursion
    <3>3. <<f[v - 1], v>> \in Int \X (1 .. n)
      BY <3>1
    <3>4. step[<<f[v - 1], v>>] = f[v - 1] + WarpCount(G, base, v - 1)
      BY <3>3
    <3> HIDE DEF step
    <3> QED BY <3>1, <3>2, <3>4
  <2>6. f = [v \in 0 .. n |-> f[v]] /\ f[0] = 0 /\ \A v \in 0 .. n : v # 0 => v \in 1 .. n
    BY <2>4 DEF Recursion
  <2>7. Is(f)
    <3> HIDE DEF step
    <3> QED BY <2>5, <2>6
  <2> QED BY <2>7
<1>4. Is(g)
  <2> HIDE DEF Is
  <2> QED BY <1>3
<1>5. Counted(n) = g[n]
  BY DEF Counted
<1> HIDE DEF g
<1>6. g[0] = 0 /\ \A v \in 0 .. n - 1 : g[v + 1] = g[v] + s_hint_count[v]
  <2>1. g[0] = 0
    <3>1. 0 \in 0 .. n
      OBVIOUS
    <3> QED BY <1>4, <3>1
  <2>2. ASSUME NEW v \in 0 .. n - 1
        PROVE  g[v + 1] = g[v] + s_hint_count[v]
    <3>1. v + 1 \in 0 .. n /\ v + 1 # 0 /\ (v + 1) - 1 = v
      OBVIOUS
    <3> QED BY <1>4, <3>1
  <2> QED BY <2>1, <2>2
<1> DEFINE H == {v \in 0 .. n : g[v] = CountIn(G, base + at(v)) - CountIn(G, base)}
<1>7. CountIn(G, base) \in Nat
  BY CountLemma
<1>8. 0 \in H
  <2>1. base + at(0) = base /\ 0 \in 0 .. n
    BY <1>0
  <2> QED BY <1>6, <1>7, <2>1
<1>9. \A v \in 0 .. n - 1 : v \in H => v + 1 \in H
  <2> SUFFICES ASSUME NEW v \in 0 .. n - 1, g[v] = CountIn(G, base + at(v)) - CountIn(G, base)
               PROVE  g[v + 1] = CountIn(G, base + at(v + 1)) - CountIn(G, base)
    OBVIOUS
  <2>1. g[v + 1] = g[v] + WarpCount(G, base, v) /\ v \in Nat /\ v + 1 \in Nat
    BY <1>6
  <2>2. /\ WarpCount(G, base, v) = CountIn(G, base + at(v + 1)) - CountIn(G, base + at(v))
        /\ CountIn(G, base + at(v + 1)) \in Nat /\ CountIn(G, base + at(v)) \in Nat
    BY <1>1, <1>2, <2>1
  <2> QED BY <1>7, <2>1, <2>2
<1>10. \A v \in 0 .. n : v \in H
  <2> HIDE DEF H
  <2>1. 0 \in Int /\ n \in Int /\ (0 <= n => 0 \in H)
    BY <1>8
  <2> QED BY <1>9, <2>1, IntervalInduction
<1>11. n \in H
  <2>1. n \in 0 .. n
    OBVIOUS
  <2> QED BY <1>10, <2>1
<1> QED BY <1>5, <1>11 DEF at

-----------------------------------------------------------------------------
(* Where a kernel stops.                                                   *)
FailsCheck(a, c) == \E part \in AllWarps : <<c, part>> \in a.failed
\* The check at p sees a vote of a warp that fails.
Rejects(P, a, p) ==
  P[p][1] = "check" /\ \E q \in 1 .. p - 1, c \in CheckNames : P[q] = <<"vote", c>> /\ FailsCheck(a, c)
\* The bound at p is exceeded.
Exceeds(P, a, p) == \E e : Limits(P, p, e) /\ CountIn(Codes(a.hints), e) > OMEGA
Stops(P, a, p) == Rejects(P, a, p) \/ Exceeds(P, a, p)
\* f is the first instruction where attempt a ends, or behind the last.
IsFate(P, a, f) ==
  /\ f \in 1 .. Len(P) + 1
  /\ f <= Len(P) => Stops(P, a, f)
  /\ \A p \in 1 .. f - 1 : ~Stops(P, a, p)
Fate(P, a) == CHOOSE f : IsFate(P, a, f)

\* There is one.
LEMMA FateLemma ==
  ASSUME NEW P, NEW a, Len(P) \in Nat
  PROVE  IsFate(P, a, Fate(P, a))
<1> DEFINE n == Len(P)
           T == {p \in 1 .. n : Stops(P, a, p)}
<1>0. n \in Nat
  OBVIOUS
<1> HIDE DEF n
<1>1. CASE T = {}
  <2>1. IsFate(P, a, n + 1)
    <3>1. n + 1 \in 1 .. n + 1 /\ ~(n + 1 <= n) /\ \A p \in 1 .. (n + 1) - 1 : p \in 1 .. n
      BY <1>0
    <3> QED BY <1>1, <3>1 DEF IsFate, n
  <2> QED BY <2>1 DEF Fate
<1>2. CASE T # {}
  <2>1. T \subseteq Nat
    OBVIOUS
  <2>2. PICK f \in T : \A y \in T : f <= y
    <3> HIDE DEF T
    <3> QED BY <1>2, <2>1, LeastNatural
  <2>3. f \in 1 .. n /\ Stops(P, a, f)
    OBVIOUS
  <2>4. ASSUME NEW p \in 1 .. f - 1, Stops(P, a, p)
        PROVE  FALSE
    <3>1. p \in 1 .. n /\ p < f
      BY <1>0, <2>3
    <3> QED BY <2>2, <2>4, <3>1
  <2>5. IsFate(P, a, f)
    <3>1. f \in 1 .. n + 1
      BY <1>0, <2>3
    <3> QED BY <2>3, <2>4, <3>1 DEF IsFate, n
  <2> QED BY <2>5 DEF Fate
<1> QED BY <1>1, <1>2

-----------------------------------------------------------------------------
(* The inductive invariant.                                                *)

\* Every warp that returns does so at the same instruction.
Stop == Fate(program, attempt)
Reach(w) == IF pc[w] = Returned THEN Stop ELSE pc[w]
HintCodes == Codes(attempt.hints)

\* c is the last instruction of its kind before r.
Recent(P, op, c, r) ==
  c \in 1 .. r - 1 /\ P[c][1] = op /\ \A q \in c .. r - 1 : P[q][1] = op => q = c

\* The types of the variables.
Typed ==
  /\ kernel \in DOMAIN Programs /\ attempt \in Attempts
  /\ pc \in [Warps -> Nat]
  /\ DOMAIN pos = Warps /\ DOMAIN total = Warps /\ DOMAIN s_hint_count = Warps
  /\ s_hint = [i \in HintBytes |-> s_hint[i]] /\ g_hint = [i \in HintBytes |-> g_hint[i]]
  /\ s_rej_flag \in BOOLEAN /\ g_done \in BOOLEAN

\* No warp is past the instruction where the attempt ends.
Reached ==
  \A w \in Warps : /\ Reach(w) \in 1 .. Stop
                   /\ pc[w] = Returned => Stop <= Len(program)

\* No warp has passed a barrier that another has not reached.
Waited ==
  \A v, w \in Warps, s \in 1 .. Len(program) :
    program[s] = Sync /\ s < Reach(v) => s <= Reach(w)

\* Warp v has voted at q against check c.
HasVoted(v, q, c) == q < Reach(v) /\ program[q] = <<"vote", c>> /\ Fails(v, c)
\* The flag is the or of the votes so far, since warp 0 has cleared it.
Flagged ==
  1 < Reach(0) =>
    (s_rej_flag <=> \E v \in Warps, q \in 1 .. Len(program), c \in CheckNames : HasVoted(v, q, c))

\* Each warp has its number of hints of the half.
WarpsCounted ==
  \A v \in Warps : \A c, k, half :
    IsHalf(program, c, k, half) /\ Recent(program, "count", c, Reach(v)) =>
      s_hint_count[v] = WarpCount(HintCodes, HalfStart(k, half), v)

\* The hints of a half.
HalfCount(k, half) ==
  CountIn(HintCodes, HalfStart(k, half) + BlockDim) - CountIn(HintCodes, HalfStart(k, half))
\* Their sum is the number of hints of the half.
BlockCounted ==
  \A c, k, half :
    IsHalf(program, c, k, half) /\ Recent(program, "sum", c + 2, Reach(0)) =>
      s_hint_count_sum = HalfCount(k, half)
\* A warp that goes on has read that number.
Totalled ==
  \A w \in Warps : \A c, k, half :
    /\ pc[w] # Returned
    /\ IsHalf(program, c, k, half) /\ Recent(program, "bound", c + 4, Reach(w))
    => total[w] = HalfCount(k, half)

\* The position of a warp is the number of the hints it has passed.
Positioned ==
  \A w \in Warps : \A s : Preceded(program, Reach(w), s) => pos[w] = CountIn(HintCodes, s)

\* Where a hint belongs.
Index(k, x) == CountIn(HintCodes, Start(k) + x)
\* Hints that have been placed are where they belong, and stay there.
Placed ==
  \A w \in Warps, p \in 1 .. Len(program), k \in 0 .. K - 1, x \in 0 .. N - 1 :
    p < Reach(w) /\ Covers(program, p, w, k, x) /\ <<k, x>> \in attempt.hints =>
      s_hint[Index(k, x)] = x
\* Bytes behind the hints are zero since they were cleared.
Cleared ==
  \A w \in Warps : \A i \in Bytes(w) :
    1 < Reach(w) /\ i < OMEGA /\ CountIn(HintCodes, Start(K)) <= i => s_hint[i] = 0
\* The last byte of a polynomial is the number of the hints up to its end.
LastsSet ==
  \A p \in 1 .. Len(program), k \in 0 .. K - 1 :
    program[p] = <<"last", k>> /\ p < Reach(0) =>
      s_hint[OMEGA + k] = CountIn(HintCodes, Start(k) + N)
\* What is copied is packed.
Copied ==
  \A w \in Warps : \A i \in Bytes(w) :
    Len(program) - 1 < Reach(w) => g_hint[i] = HintBitPack(attempt.hints)[i]
\* An attempt is done when warp 0 has gone through to the end.
DoneSet == g_done <=> Len(program) < Reach(0)

Control == Typed /\ Reached /\ Waited
Decision == Flagged /\ WarpsCounted /\ BlockCounted /\ Totalled /\ Positioned
Result == Placed /\ Cleared /\ LastsSet /\ Copied /\ DoneSet
RejInv == Control /\ Decision /\ Result

\* Both programs have the shape.
LEMMA ShapeLemma ==
  ASSUME kernel \in DOMAIN Programs
  PROVE  /\ Shape(kernel, program)
         /\ kernel = "rej_loop_32t" => Warps = {0}
         /\ kernel # "rej_loop_32t" => Warps = AllWarps
         /\ Warps = WarpsOf(kernel)
         /\ 0 \in Warps /\ Warps \subseteq AllWarps /\ AllWarps \subseteq Nat
<1>1. DOMAIN Programs = {"rej_loop_128t", "rej_loop_32t"}
  BY DEF Programs
<1>2. kernel = "rej_loop_128t" \/ kernel = "rej_loop_32t"
  BY <1>1
<1>3. Shape(kernel, program)
  BY <1>2, Shape128, Shape32 DEF program, Code128, Code32
<1>4. 0 \in AllWarps /\ AllWarps \subseteq Nat
  BY ChunksLemma DEF AllWarps
<1> QED BY <1>3, <1>4 DEF Warps, WarpsOf

\* What an instruction that is not of a kind leaves the last one of the kind.
LEMMA RecentStep ==
  ASSUME NEW P, NEW op, NEW c, NEW r \in Nat \ {0}, Recent(P, op, c, r + 1)
  PROVE  /\ P[r][1] # op => Recent(P, op, c, r)
         /\ P[r][1] = op => c = r
<1>1. r \in c .. (r + 1) - 1 /\ c \in 1 .. r
  BY DEF Recent
<1>2. ASSUME P[r][1] # op PROVE Recent(P, op, c, r)
  <2>1. c # r
    BY <1>2 DEF Recent
  <2>2. c \in 1 .. r - 1 /\ \A q \in c .. r - 1 : q \in c .. (r + 1) - 1
    BY <1>1, <2>1
  <2> QED BY <2>2 DEF Recent
<1>3. ASSUME P[r][1] = op PROVE c = r
  BY <1>1, <1>3 DEF Recent
<1> QED BY <1>2, <1>3

\* By definition.
LEMMA EndsAdvance ==
  ASSUME NEW P, NEW q, NEW s, Ends(P, q, s)
  PROVE  Advancing(P, q)
BY DEF Ends, IsHalf, Advancing

\* What is taken in before an instruction and before the next,
LEMMA PrecededStep ==
  ASSUME NEW P, NEW r \in Nat \ {0}, NEW s, Preceded(P, r + 1, s)
  PROVE  /\ ~Advancing(P, r) => Preceded(P, r, s)
         /\ Advancing(P, r) => Ends(P, r, s)
<1>0. r \in 1 .. (r + 1) - 1 /\ \A q \in 1 .. r - 1 : q \in 1 .. (r + 1) - 1
  OBVIOUS
<1>1. CASE s = 0 /\ \A q \in 1 .. (r + 1) - 1 : ~Advancing(P, q)
  BY <1>0, <1>1 DEF Preceded
<1>2. CASE \E a \in 1 .. (r + 1) - 1 : Ends(P, a, s) /\ \A q \in a .. (r + 1) - 1 : Advancing(P, q) => q = a
  <2>1. PICK a \in 1 .. (r + 1) - 1 : Ends(P, a, s) /\ \A q \in a .. (r + 1) - 1 : Advancing(P, q) => q = a
    BY <1>2
  <2>2. r \in a .. (r + 1) - 1 /\ \A q \in a .. r - 1 : q \in a .. (r + 1) - 1
    OBVIOUS
  <2>3. ASSUME ~Advancing(P, r) PROVE Preceded(P, r, s)
    <3>1. a # r
      BY <2>1, <2>3, EndsAdvance
    <3>2. a \in 1 .. r - 1
      BY <3>1
    <3> QED BY <2>1, <2>2, <3>2 DEF Preceded
  <2> QED BY <2>1, <2>2, <2>3
<1> QED BY <1>1, <1>2 DEF Preceded

\* and before a later one.
LEMMA PrecededOn ==
  ASSUME NEW P, NEW p \in Nat \ {0}, NEW q \in Nat, NEW s, Preceded(P, p, s), p <= q,
         \A u \in p .. q - 1 : ~Advancing(P, u)
  PROVE  Preceded(P, q, s)
<1>1. CASE s = 0 /\ \A u \in 1 .. p - 1 : ~Advancing(P, u)
  <2>1. \A u \in 1 .. q - 1 : u \in 1 .. p - 1 \/ u \in p .. q - 1
    OBVIOUS
  <2> QED BY <1>1, <2>1 DEF Preceded
<1>2. CASE \E a \in 1 .. p - 1 : Ends(P, a, s) /\ \A u \in a .. p - 1 : Advancing(P, u) => u = a
  <2>1. PICK a \in 1 .. p - 1 : Ends(P, a, s) /\ \A u \in a .. p - 1 : Advancing(P, u) => u = a
    BY <1>2
  <2>2. a \in 1 .. q - 1 /\ \A u \in a .. q - 1 : u \in a .. p - 1 \/ u \in p .. q - 1
    OBVIOUS
  <2> QED BY <2>1, <2>2 DEF Preceded
<1> QED BY <1>1, <1>2 DEF Preceded

-----------------------------------------------------------------------------
(* Steps.                                                                  *)
Moves(w) ==
  /\ pc[w] \in 1 .. Len(program) /\ pc[w] < Stop
  /\ Continue(w) /\ UNCHANGED <<kernel, attempt>>
Leaves(w) ==
  /\ pc[w] \in 1 .. Len(program) /\ pc[w] = Stop
  /\ Return(w) /\ UNCHANGED <<kernel, attempt>>

\* The attempt and the program do not change.
LEMMA SameLemma ==
  ASSUME UNCHANGED <<kernel, attempt>>
  PROVE  /\ kernel' = kernel /\ attempt' = attempt
         /\ program' = program /\ Warps' = Warps /\ Stop' = Stop /\ HintCodes' = HintCodes
         /\ \A v, c : Fails(v, c)' <=> Fails(v, c)
         /\ \A v : Bytes(v)' = Bytes(v)
<1>1. program' = program /\ Warps' = Warps
  BY DEF program, Warps
<1> QED BY <1>1 DEF Stop, HintCodes, Fails, Bytes

\* A warp that goes on,
LEMMA MovesLemma ==
  ASSUME Typed, NEW w \in Warps, Moves(w)
  PROVE  /\ Reach(w) = pc[w] /\ Reach(w)' = pc[w] + 1 /\ pc[w] \in Nat \ {0}
         /\ \A v \in Warps : v # w => Reach(v)' = Reach(v)
         /\ \A v \in Warps : v # w => pc'[v] = pc[v]
         /\ pc' \in [Warps -> Nat] /\ pc'[w] = pc[w] + 1
<1>0. Len(program) \in Nat
  BY ShapeLemma DEF Typed, Shape
<1>1. pc[w] \in Nat \ {0} /\ pc[w] + 1 # 0 /\ pc[w] + 1 \in Nat
  BY <1>0 DEF Moves
<1>2. pc \in [Warps -> Nat] /\ pc' = [pc EXCEPT ![w] = pc[w] + 1]
  BY DEF Typed, Moves, Continue
<1>3. pc' \in [Warps -> Nat] /\ pc'[w] = pc[w] + 1 /\ \A v \in Warps : v # w => pc'[v] = pc[v]
  BY <1>1, <1>2
<1>4. Stop' = Stop
  BY SameLemma DEF Moves
<1> QED BY <1>1, <1>3, <1>4 DEF Reach, Returned

\* and one that returns.
LEMMA LeavesLemma ==
  ASSUME Typed, NEW w \in Warps, Leaves(w)
  PROVE  /\ Reach(w) = pc[w] /\ pc[w] \in Nat \ {0}
         /\ \A v \in Warps : Reach(v)' = Reach(v)
         /\ \A v \in Warps : v # w => pc'[v] = pc[v]
         /\ pc' \in [Warps -> Nat] /\ pc'[w] = Returned
<1>0. Len(program) \in Nat
  BY ShapeLemma DEF Typed, Shape
<1>1. pc[w] \in Nat \ {0}
  BY <1>0 DEF Leaves
<1>2. pc \in [Warps -> Nat] /\ pc' = [pc EXCEPT ![w] = 0]
  BY DEF Typed, Leaves, Return, Returned
<1>3. pc' \in [Warps -> Nat] /\ pc'[w] = 0 /\ \A v \in Warps : v # w => pc'[v] = pc[v]
  BY <1>2
<1>4. Stop' = Stop
  BY SameLemma DEF Leaves
<1> QED BY <1>1, <1>3, <1>4 DEF Reach, Returned, Leaves

\* A warp behind a conflicting instruction has left the earlier one behind.
LEMMA Behind ==
  ASSUME Control, NEW v \in Warps, NEW w \in Warps,
         NEW q \in 1 .. Len(program), NEW p \in 1 .. Len(program),
         q < p, Conflict(program[q][1], program[p][1]), p <= Reach(v)
  PROVE  q < Reach(w)
<1>1. Shape(kernel, program) /\ (kernel = "rej_loop_32t" => Warps = {0})
  BY ShapeLemma DEF Control, Typed
<1>2. Apart(kernel, program, q, p) /\ Len(program) \in Nat
  BY <1>1 DEF Shape, Ordered
<1>3. Reach(v) \in Nat /\ Reach(w) \in Nat
  <2>1. IsFate(program, attempt, Stop)
    BY <1>2, FateLemma DEF Stop
  <2>2. Stop \in Nat
    BY <1>2, <2>1 DEF IsFate
  <2> QED BY <2>2 DEF Control, Reached
<1>4. CASE kernel = "rej_loop_32t"
  <2>1. v = w
    BY <1>1, <1>4
  <2> QED BY <1>3, <2>1
<1>5. CASE kernel # "rej_loop_32t"
  <2>1. PICK s \in q + 1 .. p - 1 : program[s] = <<"sync">>
    BY <1>2, <1>5 DEF Apart
  <2>2. s \in 1 .. Len(program) /\ s < Reach(v) /\ program[s] = Sync
    BY <1>3, <2>1 DEF Sync
  <2>3. s <= Reach(w)
    BY <2>2 DEF Control, Waited
  <2> QED BY <1>3, <2>1, <2>3
<1> QED BY <1>4, <1>5

\* Where the warps are.
LEMMA ReachLemma ==
  ASSUME Control
  PROVE  /\ Len(program) \in Nat /\ Stop \in 1 .. Len(program) + 1 /\ Stop \in Nat
         /\ \A w \in Warps : Reach(w) \in Nat /\ 1 <= Reach(w) /\ Reach(w) <= Stop
         /\ Stop <= Len(program) => Stops(program, attempt, Stop)
         /\ \A p \in 1 .. Stop - 1 : ~Stops(program, attempt, p)
<1>1. Len(program) \in Nat
  BY ShapeLemma DEF Control, Typed, Shape
<1>2. IsFate(program, attempt, Stop)
  BY <1>1, FateLemma DEF Stop
<1>3. Stop \in 1 .. Len(program) + 1 /\ Stop \in Nat
  BY <1>1, <1>2 DEF IsFate
<1> QED BY <1>1, <1>2, <1>3 DEF IsFate, Control, Reached

-----------------------------------------------------------------------------
(* Frames: what an instruction of another kind leaves as it is.            *)
\* The first instruction, the last two and the others.
LEMMA PlaceLemmaOf ==
  ASSUME Control, NEW w \in Warps, Moves(w)
  PROVE  LET r == pc[w]
         IN  /\ program[r][1] = "init" <=> r = 1
             /\ program[r][1] = "copy" <=> r = Len(program) - 1
             /\ program[r][1] = "done" <=> r = Len(program)
BY ShapeLemma DEF Control, Typed, Shape, Once, Moves

\* A warp that goes on waits where it must.
LEMMA MovesControl ==
  ASSUME Control, NEW w \in Warps, Moves(w),
         program[pc[w]] = Sync => \A v \in Warps : pc[v] = Returned \/ pc[v] >= pc[w]
  PROVE  Reached' /\ Waited'
<1>1. /\ Reach(w) = pc[w] /\ Reach(w)' = pc[w] + 1 /\ pc[w] \in Nat \ {0} /\ pc'[w] = pc[w] + 1
      /\ \A v \in Warps : v # w => Reach(v)' = Reach(v) /\ pc'[v] = pc[v]
  BY MovesLemma DEF Control
<1>2. program' = program /\ Warps' = Warps /\ Stop' = Stop
  BY SameLemma DEF Moves
<1>3. /\ Len(program) \in Nat /\ Stop \in Nat
      /\ \A v \in Warps : Reach(v) \in Nat /\ 1 <= Reach(v) /\ Reach(v) <= Stop
  BY ReachLemma
<1>4. Reached'
  <2> SUFFICES ASSUME NEW v \in Warps
               PROVE  Reach(v)' \in 1 .. Stop /\ (pc'[v] = Returned => Stop <= Len(program))
    BY <1>2 DEF Reached, Returned
  <2>1. CASE v = w
    BY <1>1, <1>3, <2>1 DEF Moves, Returned
  <2>2. CASE v # w
    BY <1>1, <2>2 DEF Control, Reached
  <2> QED BY <2>1, <2>2
<1>5. Waited'
  <2> SUFFICES ASSUME NEW v \in Warps, NEW u \in Warps, NEW s \in 1 .. Len(program),
                      program[s] = Sync, s < Reach(v)'
               PROVE  s <= Reach(u)'
    BY <1>2 DEF Waited, Sync
  <2>1. Reach(u) <= Reach(u)' /\ Reach(u)' \in Nat
    BY <1>1, <1>3
  <2>2. CASE s < Reach(v)
    <3>1. s <= Reach(u)
      BY <2>2 DEF Control, Waited
    <3> QED BY <1>3, <2>1, <3>1
  <2>3. CASE ~(s < Reach(v))
    <3>1. v = w
      BY <1>1, <2>3
    <3>2. s = pc[w]
      BY <1>1, <2>3, <3>1
    <3>3. pc[u] = Returned \/ pc[u] >= pc[w]
      BY <3>2
    <3>4. pc[w] <= Reach(u)
      <4>1. CASE pc[u] = Returned
        <5>1. Reach(u) = Stop
          BY <4>1 DEF Reach
        <5> QED BY <1>1, <1>3, <5>1
      <4>2. CASE pc[u] # Returned
        BY <3>3, <4>2 DEF Reach
      <4> QED BY <4>1, <4>2
    <3> QED BY <1>1, <1>3, <2>1, <3>2, <3>4
  <2> QED BY <2>2, <2>3
<1> QED BY <1>4, <1>5

\* A warp that returns has nothing to wait for.
LEMMA LeavesControl ==
  ASSUME Control, NEW w \in Warps, Leaves(w)
  PROVE  Reached' /\ Waited'
<1>1. /\ Reach(w) = pc[w]
      /\ \A v \in Warps : Reach(v)' = Reach(v)
      /\ \A v \in Warps : v # w => pc'[v] = pc[v]
  BY LeavesLemma DEF Control
<1>2. program' = program /\ Warps' = Warps /\ Stop' = Stop
  BY SameLemma DEF Leaves
<1>3. Reached'
  <2> SUFFICES ASSUME NEW v \in Warps
               PROVE  Reach(v)' \in 1 .. Stop /\ (pc'[v] = Returned => Stop <= Len(program))
    BY <1>2 DEF Reached, Returned
  <2>1. Reach(v)' \in 1 .. Stop
    BY <1>1 DEF Control, Reached
  <2>2. Stop <= Len(program) \/ v # w
    BY ReachLemma DEF Leaves
  <2>3. v # w => (pc'[v] = Returned => Stop <= Len(program))
    BY <1>1 DEF Control, Reached
  <2> QED BY <2>1, <2>2, <2>3
<1>4. Waited'
  BY <1>1, <1>2 DEF Control, Waited, Sync
<1> QED BY <1>3, <1>4

-----------------------------------------------------------------------------
(* What an instruction of another kind leaves as it is.                    *)
\* The flag.
LEMMA FlagFrame ==
  ASSUME Control, Flagged, NEW w \in Warps, Moves(w),
         program[pc[w]][1] # "init", program[pc[w]][1] # "vote", s_rej_flag' = s_rej_flag
  PROVE  Flagged'
<1>1. /\ Reach(w) = pc[w] /\ Reach(w)' = pc[w] + 1 /\ pc[w] \in Nat \ {0}
      /\ \A v \in Warps : v # w => Reach(v)' = Reach(v)
  BY MovesLemma DEF Control
<1>2. program' = program /\ Warps' = Warps /\ \A v, c : Fails(v, c)' <=> Fails(v, c)
  BY SameLemma DEF Moves
<1>3. 0 \in Warps /\ \A v \in Warps : Reach(v) \in Nat
  BY ShapeLemma, ReachLemma DEF Control, Typed
<1>4. 1 < Reach(0)' => 1 < Reach(0)
  <2>1. pc[w] # 1
    BY PlaceLemmaOf
  <2> QED BY <1>1, <1>3, <2>1
<1>5. \A v \in Warps, q \in 1 .. Len(program), c \in CheckNames : HasVoted(v, q, c)' <=> HasVoted(v, q, c)
  <2> TAKE v \in Warps, q \in 1 .. Len(program), c \in CheckNames
  <2>1. HasVoted(v, q, c)' <=> q < Reach(v)' /\ program[q] = <<"vote", c>> /\ Fails(v, c)
    BY <1>2 DEF HasVoted
  <2>2. program[q] = <<"vote", c>> => q # pc[w]
    OBVIOUS
  <2>3. v # w => Reach(v)' = Reach(v)
    BY <1>1
  <2>4. v = w => Reach(v)' = pc[w] + 1 /\ Reach(v) = pc[w]
    BY <1>1
  <2>5. program[q] = <<"vote", c>> => (q < Reach(v)' <=> q < Reach(v))
    BY <1>1, <2>2, <2>3, <2>4
  <2> QED BY <2>1, <2>5 DEF HasVoted
<1> QED BY <1>2, <1>4, <1>5 DEF Flagged

\* Likewise the counts,
LEMMA CountFrame ==
  ASSUME Control, WarpsCounted, NEW w \in Warps, Moves(w),
         program[pc[w]][1] # "count", s_hint_count' = s_hint_count
  PROVE  WarpsCounted'
<1>1. /\ Reach(w) = pc[w] /\ Reach(w)' = pc[w] + 1 /\ pc[w] \in Nat \ {0}
      /\ \A v \in Warps : v # w => Reach(v)' = Reach(v)
  BY MovesLemma DEF Control
<1>2. program' = program /\ Warps' = Warps /\ HintCodes' = HintCodes
  BY SameLemma DEF Moves
<1> SUFFICES ASSUME NEW v \in Warps, NEW c, NEW k, NEW half,
                    IsHalf(program, c, k, half), Recent(program, "count", c, Reach(v)')
             PROVE  s_hint_count[v] = WarpCount(HintCodes, HalfStart(k, half), v)
  BY <1>2 DEF WarpsCounted
<1>3. Recent(program, "count", c, Reach(v))
  <2>1. CASE v = w
    BY <1>1, <2>1, RecentStep
  <2> QED BY <1>1, <2>1
<1> QED BY <1>3 DEF WarpsCounted

\* their sum,
LEMMA SumFrame ==
  ASSUME Control, BlockCounted, NEW w \in Warps, Moves(w),
         w = 0 => program[pc[w]][1] # "sum", s_hint_count_sum' = s_hint_count_sum
  PROVE  BlockCounted'
<1>1. /\ Reach(w) = pc[w] /\ Reach(w)' = pc[w] + 1 /\ pc[w] \in Nat \ {0}
      /\ \A v \in Warps : v # w => Reach(v)' = Reach(v)
  BY MovesLemma DEF Control
<1>2. program' = program /\ HintCodes' = HintCodes /\ 0 \in Warps
      /\ \A k, half : HalfCount(k, half)' = HalfCount(k, half)
  BY SameLemma, ShapeLemma DEF Moves, Control, Typed, HalfCount
<1> SUFFICES ASSUME NEW c, NEW k, NEW half,
                    IsHalf(program, c, k, half), Recent(program, "sum", c + 2, Reach(0)')
             PROVE  s_hint_count_sum = HalfCount(k, half)
  BY <1>2 DEF BlockCounted
<1>3. Recent(program, "sum", c + 2, Reach(0))
  <2>1. CASE w = 0
    <3>1. Recent(program, "sum", c + 2, pc[w] + 1)
      BY <1>1, <2>1
    <3>2. program[pc[w]][1] # "sum"
      BY <2>1
    <3> QED BY <1>1, <2>1, <3>1, <3>2, RecentStep
  <2>2. CASE w # 0
    BY <1>1, <1>2, <2>2
  <2> QED BY <2>1, <2>2
<1> QED BY <1>3 DEF BlockCounted

\* the totals,
LEMMA TotalFrame ==
  ASSUME Control, Totalled, NEW w \in Warps, Moves(w),
         program[pc[w]][1] # "bound", total' = total
  PROVE  Totalled'
<1>1. /\ Reach(w) = pc[w] /\ Reach(w)' = pc[w] + 1 /\ pc[w] \in Nat \ {0}
      /\ \A v \in Warps : v # w => Reach(v)' = Reach(v) /\ pc'[v] = pc[v]
  BY MovesLemma DEF Control
<1>2. program' = program /\ Warps' = Warps
      /\ \A k, half : HalfCount(k, half)' = HalfCount(k, half)
  BY SameLemma DEF Moves, HalfCount
<1> SUFFICES ASSUME NEW v \in Warps, NEW c, NEW k, NEW half, pc'[v] # Returned,
                    IsHalf(program, c, k, half), Recent(program, "bound", c + 4, Reach(v)')
             PROVE  total[v] = HalfCount(k, half)
  BY <1>2 DEF Totalled, Returned
<1>3. pc[v] # Returned /\ Recent(program, "bound", c + 4, Reach(v))
  <2>1. CASE v = w
    <3>1. Recent(program, "bound", c + 4, pc[w] + 1)
      BY <1>1, <2>1
    <3> QED BY <1>1, <2>1, <3>1, RecentStep DEF Returned
  <2>2. CASE v # w
    BY <1>1, <2>2
  <2> QED BY <2>1, <2>2
<1> QED BY <1>3 DEF Totalled

\* the positions,
LEMMA PosFrame ==
  ASSUME Control, Positioned, NEW w \in Warps, Moves(w),
         ~Advancing(program, pc[w]), pos' = pos
  PROVE  Positioned'
<1>1. /\ Reach(w) = pc[w] /\ Reach(w)' = pc[w] + 1 /\ pc[w] \in Nat \ {0}
      /\ \A v \in Warps : v # w => Reach(v)' = Reach(v)
  BY MovesLemma DEF Control
<1>2. program' = program /\ Warps' = Warps /\ HintCodes' = HintCodes
  BY SameLemma DEF Moves
<1> SUFFICES ASSUME NEW v \in Warps, NEW s, Preceded(program, Reach(v)', s)
             PROVE  pos[v] = CountIn(HintCodes, s)
  BY <1>2 DEF Positioned
<1>3. Preceded(program, Reach(v), s)
  <2>1. CASE v = w
    BY <1>1, <2>1, PrecededStep
  <2>2. CASE v # w
    BY <1>1, <2>2
  <2> QED BY <2>1, <2>2
<1> QED BY <1>3 DEF Positioned

\* which advance and chunk change,
LEMMA NotAdvancing ==
  ASSUME NEW P, NEW q, P[q][1] # "advance", P[q][1] # "chunk"
  PROVE  ~Advancing(P, q)
BY DEF Advancing

-----------------------------------------------------------------------------
\* What is executed after an instruction that is not of a kind, had been before.
LEMMA ExecutedStep ==
  ASSUME Control, NEW w \in Warps, Moves(w), NEW v \in Warps, NEW p \in 1 .. Len(program),
         p < Reach(v)'
  PROVE  p < Reach(v) \/ (v = w /\ p = pc[w])
<1>1. /\ Reach(w) = pc[w] /\ Reach(w)' = pc[w] + 1 /\ pc[w] \in Nat \ {0}
      /\ v # w => Reach(v)' = Reach(v)
  BY MovesLemma DEF Control
<1> QED BY <1>1

\* The buffer of hints.
LEMMA HintFrame ==
  ASSUME Control, Placed, Cleared, LastsSet, NEW w \in Warps, Moves(w),
         program[pc[w]][1] \notin {"init", "place", "chunk", "last"}, s_hint' = s_hint
  PROVE  Placed' /\ Cleared' /\ LastsSet'
<1>1. /\ Reach(w) = pc[w] /\ Reach(w)' = pc[w] + 1 /\ pc[w] \in Nat \ {0}
      /\ \A v \in Warps : v # w => Reach(v)' = Reach(v)
  BY MovesLemma DEF Control
<1>2. /\ program' = program /\ Warps' = Warps /\ HintCodes' = HintCodes /\ attempt' = attempt
      /\ \A v : Bytes(v)' = Bytes(v)
      /\ \A k, x : Index(k, x)' = Index(k, x)
  BY SameLemma DEF Moves, Index
<1>3. Placed'
  <2> SUFFICES ASSUME NEW v \in Warps, NEW p \in 1 .. Len(program), NEW k \in 0 .. K - 1, NEW x \in 0 .. N - 1,
                      p < Reach(v)', Covers(program, p, v, k, x), <<k, x>> \in attempt.hints
               PROVE  s_hint[Index(k, x)] = x
    BY <1>2 DEF Placed
  <2>1. program[p][1] \in {"place", "chunk"}
    BY DEF Covers
  <2>2. p # pc[w]
    BY <2>1
  <2>3. p < Reach(v)
    BY <2>2, ExecutedStep
  <2> QED BY <2>3 DEF Placed
<1>4. Cleared'
  <2> SUFFICES ASSUME NEW v \in Warps, NEW i \in Bytes(v),
                      1 < Reach(v)', i < OMEGA, CountIn(HintCodes, Start(K)) <= i
               PROVE  s_hint[i] = 0
    BY <1>2 DEF Cleared
  <2>1. pc[w] # 1
    BY PlaceLemmaOf
  <2>2. 1 < Reach(v)
    BY <1>1, <2>1
  <2> QED BY <2>2 DEF Cleared
<1>5. LastsSet'
  <2> SUFFICES ASSUME NEW p \in 1 .. Len(program), NEW k \in 0 .. K - 1,
                      program[p] = <<"last", k>>, p < Reach(0)'
               PROVE  s_hint[OMEGA + k] = CountIn(HintCodes, Start(k) + N)
    BY <1>2 DEF LastsSet
  <2>1. p # pc[w] /\ 0 \in Warps
    BY ShapeLemma DEF Control, Typed
  <2>2. p < Reach(0)
    BY <2>1, ExecutedStep
  <2> QED BY <2>2 DEF LastsSet
<1> QED BY <1>3, <1>4, <1>5

\* The copy.
LEMMA CopyFrame ==
  ASSUME Control, Copied, NEW w \in Warps, Moves(w),
         program[pc[w]][1] # "copy", g_hint' = g_hint
  PROVE  Copied'
<1>1. /\ Reach(w) = pc[w] /\ Reach(w)' = pc[w] + 1 /\ pc[w] \in Nat \ {0}
      /\ \A v \in Warps : v # w => Reach(v)' = Reach(v)
  BY MovesLemma DEF Control
<1>2. /\ program' = program /\ Warps' = Warps /\ attempt' = attempt
      /\ \A v : Bytes(v)' = Bytes(v)
  BY SameLemma DEF Moves
<1> SUFFICES ASSUME NEW v \in Warps, NEW i \in Bytes(v), Len(program) - 1 < Reach(v)'
             PROVE  g_hint[i] = HintBitPack(attempt.hints)[i]
  BY <1>2 DEF Copied
<1>3. pc[w] # Len(program) - 1
  BY PlaceLemmaOf
<1>4. Len(program) - 1 < Reach(v)
  <2>1. Len(program) \in Nat
    BY ReachLemma
  <2> QED BY <1>1, <1>3, <2>1
<1> QED BY <1>4 DEF Copied

\* The end.
LEMMA DoneFrame ==
  ASSUME Control, DoneSet, NEW w \in Warps, Moves(w),
         w = 0 => program[pc[w]][1] # "done", g_done' = g_done
  PROVE  DoneSet'
<1>1. /\ Reach(w) = pc[w] /\ Reach(w)' = pc[w] + 1 /\ pc[w] \in Nat \ {0}
      /\ \A v \in Warps : v # w => Reach(v)' = Reach(v)
  BY MovesLemma DEF Control
<1>2. program' = program /\ 0 \in Warps /\ Len(program) \in Nat
  BY SameLemma, ReachLemma, ShapeLemma DEF Moves, Control, Typed
<1>3. w = 0 => pc[w] # Len(program)
  BY PlaceLemmaOf
<1>4. Len(program) < Reach(0)' <=> Len(program) < Reach(0)
  <2>1. CASE w = 0
    BY <1>1, <1>2, <1>3, <2>1
  <2>2. CASE w # 0
    BY <1>1, <1>2, <2>2
  <2> QED BY <2>1, <2>2
<1> QED BY <1>2, <1>4 DEF DoneSet

-----------------------------------------------------------------------------
(* Barriers, votes and checks.                                             *)
\* Only a check, a bound and a chunk can stop a kernel.
LEMMA PlainOps ==
  ASSUME NEW P, NEW a, NEW p, P[p][1] \notin {"check", "bound", "chunk"}
  PROVE  ~Stops(P, a, p)
<1>1. ~Rejects(P, a, p)
  BY DEF Rejects
<1>2. \A e : ~Limits(P, p, e)
  <2>1. \A c, k, half : IsHalf(P, c, k, half) /\ p = c + 4 => P[p][1] = "bound"
    BY DEF IsHalf
  <2>2. \A k, i : P[p] = <<"chunk", k, i>> => P[p][1] = "chunk"
    OBVIOUS
  <2> QED BY <2>1, <2>2 DEF Limits
<1> QED BY <1>1, <1>2 DEF Stops, Exceeds

\* A warp that executes an instruction is at most where the attempt ends.
LEMMA ExecutesLemma ==
  ASSUME Control, NEW w \in Warps, NEW op, Executes(w, op)
  PROVE  /\ pc[w] \in 1 .. Len(program) /\ program[pc[w]][1] = op
         /\ pc[w] # Returned /\ Reach(w) = pc[w] /\ pc[w] <= Stop
         /\ UNCHANGED <<kernel, attempt>>
         /\ Stops(program, attempt, pc[w]) => pc[w] = Stop
         /\ ~Stops(program, attempt, pc[w]) => pc[w] < Stop
<1>1. Len(program) \in Nat /\ pc[w] \in Nat
  BY ReachLemma DEF Control, Typed
<1>2. pc[w] \in 1 .. Len(program) /\ program[pc[w]][1] = op /\ pc[w] # Returned /\ UNCHANGED <<kernel, attempt>>
  BY <1>1 DEF Executes, Ended, Returned
<1>3. Reach(w) = pc[w]
  BY <1>2 DEF Reach
<1>4. pc[w] <= Stop /\ Stop \in Nat
  BY <1>3, ReachLemma
<1>5. Stops(program, attempt, pc[w]) => pc[w] = Stop
  <2>1. pc[w] \in 1 .. Stop - 1 \/ pc[w] = Stop
    BY <1>2, <1>4
  <2> QED BY <2>1, ReachLemma
<1>6. ~Stops(program, attempt, pc[w]) => pc[w] < Stop
  <2>1. pc[w] = Stop => Stops(program, attempt, pc[w])
    BY <1>2, ReachLemma
  <2> QED BY <1>1, <1>4, <2>1
<1> QED BY <1>2, <1>3, <1>4, <1>5, <1>6

\* Most instructions never end an attempt.
LEMMA PlainMoves ==
  ASSUME Control, NEW w \in Warps, NEW op, Executes(w, op), Continue(w),
         op \notin {"check", "bound", "chunk"}
  PROVE  Moves(w) /\ program[pc[w]][1] = op
<1>1. pc[w] \in 1 .. Len(program) /\ program[pc[w]][1] = op /\ UNCHANGED <<kernel, attempt>>
      /\ (~Stops(program, attempt, pc[w]) => pc[w] < Stop)
  BY ExecutesLemma
<1>2. ~Stops(program, attempt, pc[w])
  BY <1>1, PlainOps
<1> QED BY <1>1, <1>2 DEF Moves

\* The control part of a step that is not a barrier.
LEMMA PlainControl ==
  ASSUME Control, NEW w \in Warps, Moves(w), program[pc[w]][1] # "sync",
         DOMAIN pos' = Warps, DOMAIN total' = Warps, DOMAIN s_hint_count' = Warps,
         s_hint' = [i \in HintBytes |-> s_hint'[i]], g_hint' = [i \in HintBytes |-> g_hint'[i]],
         s_rej_flag' \in BOOLEAN, g_done' \in BOOLEAN
  PROVE  Control'
<1>1. Reached' /\ Waited'
  <2>1. program[pc[w]] # Sync
    BY DEF Sync
  <2> QED BY <2>1, MovesControl
<1>2. Typed'
  <2>1. pc' \in [Warps -> Nat]
    BY MovesLemma DEF Control
  <2>2. kernel' = kernel /\ attempt' = attempt /\ Warps' = Warps
    BY SameLemma DEF Moves
  <2> QED BY <2>1, <2>2 DEF Typed, Control
<1> QED BY <1>1, <1>2 DEF Control

\* A barrier keeps the invariant.
LEMMA SyncStep ==
  ASSUME RejInv, NEW w \in Warps, Synchronizes(w)
  PROVE  RejInv'
<1>1. Moves(w) /\ program[pc[w]][1] = "sync" /\ Control
  BY PlainMoves DEF Synchronizes, RejInv
<1>2. \A v \in Warps : pc[v] = Returned \/ pc[v] >= pc[w]
  BY DEF Synchronizes
<1>3. UNCHANGED <<pos, total, s_rej_flag, s_hint_count, s_hint_count_sum, s_hint, g_hint, g_done>>
  BY DEF Synchronizes
<1>4. Reached' /\ Waited'
  BY <1>1, <1>2, MovesControl
<1>5. Typed'
  <2>1. pc' \in [Warps -> Nat]
    BY <1>1, MovesLemma DEF Control
  <2>2. kernel' = kernel /\ attempt' = attempt /\ Warps' = Warps
    BY <1>1, SameLemma DEF Moves
  <2> QED BY <1>1, <1>3, <2>1, <2>2 DEF Typed, Control
<1>6. ~Advancing(program, pc[w])
  BY <1>1, NotAdvancing
<1>7. Decision'
  BY <1>1, <1>3, <1>6, FlagFrame, CountFrame, SumFrame, TotalFrame, PosFrame DEF RejInv, Decision
<1>8. Result'
  BY <1>1, <1>3, HintFrame, CopyFrame, DoneFrame DEF RejInv, Result
<1> QED BY <1>4, <1>5, <1>7, <1>8 DEF RejInv, Control

\* The instructions behind the first one.
LEMMA AfterInit ==
  ASSUME Control, NEW v \in Warps, NEW p \in 1 .. Len(program), p <= Reach(v),
         program[p][1] # "init", program[p][1] # "sync", NEW w \in Warps
  PROVE  1 < Reach(w)
<1>1. 1 \in 1 .. Len(program) /\ program[1][1] = "init" /\ p # 1
  BY ShapeLemma DEF Control, Typed, Shape, Once
<1>2. 1 < p
  BY <1>1
<1> QED BY <1>1, <1>2, Behind DEF Conflict

\* A vote keeps the invariant.
LEMMA VoteStep ==
  ASSUME RejInv, NEW w \in Warps, Votes(w)
  PROVE  RejInv'
<1>1. Moves(w) /\ program[pc[w]][1] = "vote" /\ Control
  BY PlainMoves DEF Votes, RejInv
<1>2. s_rej_flag' = (s_rej_flag \/ Fails(w, program[pc[w]][2]))
  BY DEF Votes, Operand
<1>3. UNCHANGED <<pos, total, s_hint_count, s_hint_count_sum, s_hint, g_hint, g_done>>
  BY DEF Votes
<1>4. Control'
  BY <1>1, <1>2, <1>3, PlainControl DEF Control, Typed
<1>5. ~Advancing(program, pc[w])
  BY <1>1, NotAdvancing
<1>6. Flagged'
  <2>1. /\ Reach(w) = pc[w] /\ Reach(w)' = pc[w] + 1 /\ pc[w] \in Nat \ {0}
        /\ \A v \in Warps : v # w => Reach(v)' = Reach(v)
    BY <1>1, MovesLemma DEF Control
  <2>2. program' = program /\ Warps' = Warps /\ \A v, c : Fails(v, c)' <=> Fails(v, c)
    BY <1>1, SameLemma DEF Moves
  <2>3. 0 \in Warps /\ pc[w] \in 1 .. Len(program)
    BY <1>1, ShapeLemma DEF Control, Typed, Moves
  <2>4. 1 < Reach(0)
    BY <1>1, <2>1, <2>3, AfterInit
  <2>5. s_rej_flag <=> \E v \in Warps, q \in 1 .. Len(program), c \in CheckNames : HasVoted(v, q, c)
    BY <2>4 DEF RejInv, Decision, Flagged
  <2>6. PICK d \in CheckNames : program[pc[w]] = <<"vote", d>>
    BY <1>1, <2>3, ShapeLemma DEF Control, Typed, Shape, Checked
  <2>7. s_rej_flag' = (s_rej_flag \/ Fails(w, d))
    BY <1>2, <2>6
  <2>8. \A v \in Warps, q \in 1 .. Len(program), c \in CheckNames :
          HasVoted(v, q, c)' <=> HasVoted(v, q, c) \/ (v = w /\ q = pc[w] /\ c = d /\ Fails(w, d))
    <3> TAKE v \in Warps, q \in 1 .. Len(program), c \in CheckNames
    <3>1. HasVoted(v, q, c)' <=> q < Reach(v)' /\ program[q] = <<"vote", c>> /\ Fails(v, c)
      BY <2>2 DEF HasVoted
    <3>2. q < Reach(v)' <=> q < Reach(v) \/ (v = w /\ q = pc[w])
      <4>1. CASE v = w
        BY <2>1, <4>1
      <4>2. CASE v # w
        BY <2>1, <4>2
      <4> QED BY <4>1, <4>2
    <3>3. program[pc[w]] = <<"vote", c>> <=> c = d
      BY <2>6
    <3> QED BY <3>1, <3>2, <3>3 DEF HasVoted
  <2>9. s_rej_flag' <=> \E v \in Warps, q \in 1 .. Len(program), c \in CheckNames : HasVoted(v, q, c)'
    BY <2>3, <2>5, <2>7, <2>8
  <2> QED BY <2>2, <2>9 DEF Flagged
<1>7. Decision'
  BY <1>1, <1>3, <1>5, <1>6, CountFrame, SumFrame, TotalFrame, PosFrame DEF RejInv, Decision
<1>8. Result'
  BY <1>1, <1>3, HintFrame, CopyFrame, DoneFrame DEF RejInv, Result
<1> QED BY <1>4, <1>7, <1>8 DEF RejInv

\* A warp that leaves changes nothing else.
LEMMA LeaveStep ==
  ASSUME RejInv, NEW w \in Warps, Leaves(w),
         UNCHANGED <<pos, s_rej_flag, s_hint_count, s_hint_count_sum, s_hint, g_hint, g_done>>,
         DOMAIN total' = Warps, \A v \in Warps : v # w => total'[v] = total[v]
  PROVE  RejInv'
<1>0. Control
  BY DEF RejInv
<1>1. /\ Reach(w) = pc[w]
      /\ \A v \in Warps : Reach(v)' = Reach(v)
      /\ \A v \in Warps : v # w => pc'[v] = pc[v]
      /\ pc' \in [Warps -> Nat] /\ pc'[w] = Returned
  BY <1>0, LeavesLemma DEF Control
<1>2. /\ kernel' = kernel /\ attempt' = attempt
      /\ program' = program /\ Warps' = Warps /\ Stop' = Stop /\ HintCodes' = HintCodes
      /\ \A v, c : Fails(v, c)' <=> Fails(v, c)
      /\ \A v : Bytes(v)' = Bytes(v)
  BY SameLemma DEF Leaves
<1>3. /\ 0 \in Warps /\ \A k, half : HalfCount(k, half)' = HalfCount(k, half)
      /\ \A k, x : Index(k, x)' = Index(k, x)
  BY <1>0, <1>2, ShapeLemma DEF HalfCount, Index, Control, Typed
<1>4. Control'
  <2>1. Typed'
    BY <1>0, <1>1, <1>2 DEF Typed, Control
  <2> QED BY <1>0, <2>1, LeavesControl DEF Control
<1>5. Decision'
  <2>1. Flagged'
    <3>1. \A v \in Warps, q \in 1 .. Len(program), c \in CheckNames : HasVoted(v, q, c)' <=> HasVoted(v, q, c)
      BY <1>1, <1>2 DEF HasVoted
    <3> QED BY <1>1, <1>2, <1>3, <3>1 DEF Flagged, RejInv, Decision
  <2>2. WarpsCounted'
    BY <1>1, <1>2 DEF WarpsCounted, RejInv, Decision
  <2>3. BlockCounted'
    BY <1>1, <1>2, <1>3 DEF BlockCounted, RejInv, Decision
  <2>4. Totalled'
    <3> SUFFICES ASSUME NEW v \in Warps, NEW c, NEW k, NEW half, pc'[v] # Returned,
                        IsHalf(program, c, k, half), Recent(program, "bound", c + 4, Reach(v))
                 PROVE  total'[v] = HalfCount(k, half)
      BY <1>1, <1>2, <1>3 DEF Totalled, Returned
    <3>1. v # w
      BY <1>1
    <3> QED BY <1>1, <3>1 DEF Totalled, RejInv, Decision
  <2>5. Positioned'
    BY <1>1, <1>2 DEF Positioned, RejInv, Decision
  <2> QED BY <2>1, <2>2, <2>3, <2>4, <2>5 DEF Decision
<1>6. Result'
  <2>1. Placed'
    BY <1>1, <1>2, <1>3 DEF Placed, RejInv, Result
  <2>2. Cleared'
    BY <1>1, <1>2 DEF Cleared, RejInv, Result
  <2>3. LastsSet'
    BY <1>1, <1>2, <1>3 DEF LastsSet, RejInv, Result
  <2>4. Copied'
    BY <1>1, <1>2 DEF Copied, RejInv, Result
  <2>5. DoneSet'
    BY <1>1, <1>2, <1>3 DEF DoneSet, RejInv, Result
  <2> QED BY <2>1, <2>2, <2>3, <2>4, <2>5 DEF Result
<1> QED BY <1>4, <1>5, <1>6 DEF RejInv

\* The instructions of a half that name it, and those that only a half has.
LEMMA HalfNames ==
  ASSUME NEW c, NEW k, NEW half, IsHalf(program, c, k, half)
  PROVE  program[c] = <<"count", k, half>> /\ program[c + 5] = <<"place", k, half>>
BY DEF IsHalf

LEMMA HalfMarks ==
  ASSUME NEW c, NEW k, NEW half, IsHalf(program, c, k, half)
  PROVE  program[c + 4][1] = "bound" /\ program[c + 7][1] = "advance"
BY DEF IsHalf

\* A check sees the flag exactly when the kernel stops there.
LEMMA FlagDecides ==
  ASSUME Control, Flagged, NEW w \in Warps, Executes(w, "check")
  PROVE  s_rej_flag <=> Stops(program, attempt, pc[w])
<1> DEFINE r == pc[w]
           P == program
<1>1. r \in 1 .. Len(P) /\ P[r][1] = "check" /\ Reach(w) = r
  BY ExecutesLemma
<1>2. /\ 0 \in Warps /\ Checked(P) /\ Warps \subseteq AllWarps
      /\ (Warps = {0} \/ Warps = AllWarps)
      /\ \A v \in Warps : Reach(v) \in Nat
  BY ShapeLemma, ReachLemma DEF Control, Typed, Shape
<1>3. 1 < Reach(0)
  BY <1>1, <1>2, AfterInit
<1>4. s_rej_flag <=> \E v \in Warps, q \in 1 .. Len(P), c \in CheckNames : HasVoted(v, q, c)
  BY <1>3 DEF Flagged
<1>5. Stops(P, attempt, r) <=> Rejects(P, attempt, r)
  <2>1. \A e : ~Limits(P, r, e)
    <3>1. \A c, k, half : IsHalf(P, c, k, half) /\ r = c + 4 => P[r][1] = "bound"
      <4> SUFFICES ASSUME NEW c, NEW k, NEW half, IsHalf(P, c, k, half), r = c + 4
                   PROVE  P[r][1] = "bound"
        OBVIOUS
      <4>1. P[c + 4][1] = "bound"
        BY ONLY IsHalf(P, c, k, half), HalfMarks
      <4> QED BY ONLY <4>1, r = c + 4
    <3>2. \A k, i : P[r] = <<"chunk", k, i>> => P[r][1] = "chunk"
      OBVIOUS
    <3> QED BY <1>1, <3>1, <3>2 DEF Limits
  <2> QED BY <2>1 DEF Stops, Exceeds
<1>6. ASSUME s_rej_flag
      PROVE  Rejects(P, attempt, r)
  <2>1. PICK v \in Warps, q \in 1 .. Len(P), c \in CheckNames : HasVoted(v, q, c)
    BY <1>4, <1>6
  <2>2. q < Reach(v) /\ P[q] = <<"vote", c>> /\ Fails(v, c)
    BY <2>1 DEF HasVoted
  <2>3. P[q][1] = "vote" /\ q # r
    BY <1>1, <2>2
  <2>4. ~(r < q)
    <3> SUFFICES ASSUME r < q PROVE FALSE
      OBVIOUS
    <3>1. Conflict(P[r][1], P[q][1]) /\ q <= Reach(v)
      BY <1>1, <1>2, <2>2, <2>3 DEF Conflict
    <3>2. r < Reach(w)
      BY <1>1, <3>1, Behind
    <3> QED BY <1>1, <3>2
  <2>5. q \in 1 .. r - 1
    BY <1>1, <2>3, <2>4
  <2>6. FailsCheck(attempt, c)
    BY <2>2 DEF Fails, FailsCheck
  <2> QED BY <1>1, <2>2, <2>5, <2>6 DEF Rejects
<1>7. ASSUME Rejects(P, attempt, r)
      PROVE  s_rej_flag
  <2>1. PICK q \in 1 .. r - 1, c \in CheckNames : P[q] = <<"vote", c>> /\ FailsCheck(attempt, c)
    BY <1>7 DEF Rejects
  <2>2. PICK part \in AllWarps : <<c, part>> \in attempt.failed
    BY <2>1 DEF FailsCheck
  <2>3. PICK v \in Warps : Fails(v, c)
    <3>1. CASE Warps = {0}
      BY <1>2, <2>2, <3>1 DEF Fails
    <3>2. CASE Warps = AllWarps
      BY <2>2, <3>2 DEF Fails
    <3> QED BY <1>2, <3>1, <3>2
  <2>4. q \in 1 .. Len(P) /\ q < r /\ P[q][1] = "vote"
    BY <1>1, <2>1
  <2>5. q < Reach(v)
    <3>1. Conflict(P[q][1], P[r][1]) /\ r <= Reach(w)
      BY <1>1, <2>4 DEF Conflict
    <3> QED BY <1>1, <2>4, <3>1, Behind
  <2>6. HasVoted(v, q, c)
    BY <2>1, <2>3, <2>5 DEF HasVoted
  <2> QED BY <1>4, <2>4, <2>6
<1> QED BY <1>5, <1>6, <1>7

\* A check keeps the invariant.
LEMMA CheckStep ==
  ASSUME RejInv, NEW w \in Warps, Checks(w)
  PROVE  RejInv'
<1>1. Executes(w, "check") /\ Control /\ Flagged
  BY DEF Checks, RejInv, Decision
<1>2. s_rej_flag <=> Stops(program, attempt, pc[w])
  BY <1>1, FlagDecides
<1>3. /\ pc[w] \in 1 .. Len(program) /\ program[pc[w]][1] = "check" /\ UNCHANGED <<kernel, attempt>>
      /\ (Stops(program, attempt, pc[w]) => pc[w] = Stop)
      /\ (~Stops(program, attempt, pc[w]) => pc[w] < Stop)
  BY <1>1, ExecutesLemma
<1>4. UNCHANGED <<pos, total, s_rej_flag, s_hint_count, s_hint_count_sum, s_hint, g_hint, g_done>>
  BY DEF Checks
<1>5. CASE s_rej_flag
  <2>1. Leaves(w)
    BY <1>2, <1>3, <1>5 DEF Checks, Leaves
  <2> QED BY <1>1, <1>4, <2>1, LeaveStep DEF Control, Typed
<1>6. CASE ~s_rej_flag
  <2>1. Moves(w)
    BY <1>2, <1>3, <1>6 DEF Checks, Moves
  <2>2. Control'
    BY <1>1, <1>3, <1>4, <2>1, PlainControl DEF Control, Typed
  <2>3. ~Advancing(program, pc[w])
    BY <1>3, NotAdvancing
  <2>4. Decision'
    BY <1>1, <1>3, <1>4, <2>1, <2>3, FlagFrame, CountFrame, SumFrame, TotalFrame, PosFrame DEF RejInv, Decision
  <2>5. Result'
    BY <1>1, <1>3, <1>4, <2>1, HintFrame, CopyFrame, DoneFrame DEF RejInv, Result
  <2> QED BY <2>2, <2>4, <2>5 DEF RejInv
<1> QED BY <1>5, <1>6

-----------------------------------------------------------------------------
(* Counting and summing the hints of a half.                               *)
\* The hints of an attempt.
LEMMA HintsLemma ==
  ASSUME Control
  PROVE  /\ attempt.hints \subseteq Hints /\ attempt.failed \subseteq CheckNames \X AllWarps
         /\ \A x \in HintCodes : x \in Nat /\ x < Start(K)
         /\ \A k \in 0 .. K - 1, x \in 0 .. N - 1 : Start(k) + x \in HintCodes <=> <<k, x>> \in attempt.hints
<1>1. attempt \in [hints : SUBSET Hints, failed : SUBSET (CheckNames \X AllWarps)]
  BY RejAssumption DEF Control, Typed
<1>2. attempt.hints \subseteq Hints /\ attempt.failed \subseteq CheckNames \X AllWarps
  BY <1>1
<1> QED BY <1>2, CodesLemma DEF HintCodes

\* Where a half is.
LEMMA HalfLemma ==
  ASSUME Control, NEW c, NEW k, NEW half, IsHalf(program, c, k, half)
  PROVE  /\ Warps = AllWarps /\ k \in 0 .. K - 1 /\ half \in {0, 1}
         /\ c \in Nat \ {0} /\ c + 7 \in 1 .. Len(program)
         /\ c \in 1 .. Len(program) /\ c + 2 \in 1 .. Len(program) /\ c + 4 \in 1 .. Len(program)
         /\ HalfStart(k, half) \in Nat /\ BlockDim \in Nat
         /\ Preceded(program, c, HalfStart(k, half))
         /\ program[c] = <<"count", k, half>> /\ program[c + 1][1] = "sync" /\ program[c + 2][1] = "sum"
         /\ program[c + 3][1] = "sync" /\ program[c + 4][1] = "bound"
         /\ program[c][1] = "count" /\ program[c + 5][1] = "place"
         /\ program[c + 5] = <<"place", k, half>>
         /\ program[c + 6][1] = "sync" /\ program[c + 7][1] = "advance"
<1>1. /\ c \in 1 .. Len(program) /\ c + 7 \in 1 .. Len(program)
      /\ k \in 0 .. K - 1 /\ half \in {0, 1}
      /\ program[c] = <<"count", k, half>> /\ program[c + 1][1] = "sync" /\ program[c + 2][1] = "sum"
      /\ program[c + 3][1] = "sync" /\ program[c + 4][1] = "bound"
      /\ program[c + 5] = <<"place", k, half>>
      /\ program[c + 6][1] = "sync" /\ program[c + 7][1] = "advance"
  BY DEF IsHalf
<1>2. Len(program) \in Nat /\ Halves(kernel, program)
  BY ShapeLemma DEF Control, Typed, Shape
<1>3. program[c][1] = "count" /\ program[c + 5][1] = "place"
  BY <1>1
<1>4. kernel = "rej_loop_128t"
  BY <1>1, <1>2, <1>3 DEF Halves
<1>5. Warps = AllWarps
  BY <1>4, ShapeLemma DEF Control, Typed
<1>6. Preceded(program, c, HalfStart(k, half))
  BY <1>2 DEF Halves
<1>7. HalfStart(k, half) \in Nat /\ BlockDim \in Nat
  <2>1. K \in Nat
    BY ChunksLemma
  <2>2. k \in Nat
    BY <1>1, <2>1
  <2>3. Start(k) \in Nat /\ BlockDim \in Nat
    BY <2>2, StartLemma, ChunksLemma
  <2> QED BY <2>3 DEF HalfStart
<1>8. c \in Nat \ {0} /\ c + 2 \in 1 .. Len(program) /\ c + 4 \in 1 .. Len(program)
  BY <1>1, <1>2
<1> QED BY <1>1, <1>3, <1>5, <1>6, <1>7, <1>8

\* Where its instructions stand.
LEMMA HalfWhere ==
  ASSUME Control, NEW c, NEW k, NEW half, IsHalf(program, c, k, half)
  PROVE  c \in Nat \ {0} /\ k \in 0 .. K - 1 /\ half \in {0, 1} /\ Warps = AllWarps
BY HalfLemma

\* The codes of a half begin with its start.
LEMMA HalfStarts ==
  ASSUME Control, NEW c, NEW k, NEW half, IsHalf(program, c, k, half)
  PROVE  HalfStart(k, half) \in Nat /\ BlockDim \in Nat
BY HalfLemma

\* The half that an instruction belongs to.
LEMMA HalfOf ==
  ASSUME Control, NEW p \in 1 .. Len(program),
         program[p][1] \in {"count", "sum", "bound", "place", "advance"}
  PROVE  InHalf(kernel, program, p) /\ Warps = AllWarps
<1>1. kernel = "rej_loop_128t" /\ InHalf(kernel, program, p)
  BY ShapeLemma DEF Control, Typed, Shape, Halves
<1> QED BY <1>1, ShapeLemma DEF Control, Typed

\* Counting keeps the invariant.
LEMMA CountStep ==
  ASSUME RejInv, NEW w \in Warps, Counts(w)
  PROVE  RejInv'
<1>1. Moves(w) /\ program[pc[w]][1] = "count" /\ Control
  BY PlainMoves DEF Counts, RejInv
<1>2. s_hint_count' = [s_hint_count EXCEPT ![w] = Cardinality(InWarp(program[pc[w]][2], program[pc[w]][3], w))]
  BY DEF Counts, Operand
<1>3. UNCHANGED <<pos, total, s_rej_flag, s_hint_count_sum, s_hint, g_hint, g_done>>
  BY DEF Counts
<1>4. Control'
  BY <1>1, <1>2, <1>3, PlainControl DEF Control, Typed
<1>5. ~Advancing(program, pc[w])
  BY <1>1, NotAdvancing
<1>6. WarpsCounted'
  <2>1. /\ Reach(w) = pc[w] /\ Reach(w)' = pc[w] + 1 /\ pc[w] \in Nat \ {0}
        /\ \A v \in Warps : v # w => Reach(v)' = Reach(v)
    BY <1>1, MovesLemma DEF Control
  <2>2. program' = program /\ Warps' = Warps /\ HintCodes' = HintCodes
    BY <1>1, SameLemma DEF Moves
  <2> SUFFICES ASSUME NEW v \in Warps, NEW c, NEW k, NEW half,
                      IsHalf(program, c, k, half), Recent(program, "count", c, Reach(v)')
               PROVE  s_hint_count'[v] = WarpCount(HintCodes, HalfStart(k, half), v)
    BY <2>2 DEF WarpsCounted
  <2>3. DOMAIN s_hint_count = Warps
    BY <1>1 DEF Control, Typed
  <2>4. CASE v # w
    <3>1. s_hint_count'[v] = s_hint_count[v] /\ Reach(v)' = Reach(v)
      BY <1>2, <2>1, <2>3, <2>4
    <3> QED BY <3>1 DEF RejInv, Decision, WarpsCounted
  <2>5. CASE v = w
    <3>1. c = pc[w]
      BY <1>1, <2>1, <2>5, RecentStep
    <3>2. program[c] = <<"count", k, half>> /\ k \in 0 .. K - 1 /\ half \in {0, 1} /\ Warps = AllWarps
      <4>1. Control /\ IsHalf(program, c, k, half)
        BY <1>1
      <4>2. program[c] = <<"count", k, half>>
        BY ONLY <4>1, HalfNames
      <4>3. k \in 0 .. K - 1 /\ half \in {0, 1} /\ Warps = AllWarps
        BY ONLY <4>1, HalfWhere
      <4> QED BY ONLY <4>2, <4>3
    <3>3. s_hint_count'[v] = Cardinality(InWarp(k, half, w))
      BY <1>2, <2>3, <2>5, <3>1, <3>2
    <3> DEFINE base == HalfStart(k, half)
               a == w * Lanes
               b == w * Lanes + Lanes
    <3>4. /\ InWarp(k, half, w) = Span(Codes(attempt.hints), base, a, b)
          /\ a \in Nat /\ b \in Nat /\ base \in Nat
      BY <1>1, <3>2, HintsLemma, InWarpLemma
    <3>5. a <= b
      BY <3>4, ChunksLemma
    <3>6. \A x \in HintCodes : x \in Nat
      BY <1>1, HintsLemma
    <3>7. WarpCount(HintCodes, base, w) = CountIn(HintCodes, base + b) - CountIn(HintCodes, base + a)
      BY DEF WarpCount
    <3>8. InWarp(k, half, w) = Span(HintCodes, base, a, b)
      BY <3>4 DEF HintCodes
    <3> HIDE DEF base, a, b
    <3>9. Cardinality(Span(HintCodes, base, a, b)) = CountIn(HintCodes, base + b) - CountIn(HintCodes, base + a)
      BY ONLY <3>4, <3>5, <3>6, SpanLemma
    <3>10. s_hint_count'[v] = WarpCount(HintCodes, base, w)
      BY <3>3, <3>7, <3>8, <3>9
    <3> QED BY <2>5, <3>10 DEF base
  <2> QED BY <2>4, <2>5
<1>7. Decision'
  BY <1>1, <1>3, <1>5, <1>6, FlagFrame, SumFrame, TotalFrame, PosFrame DEF RejInv, Decision
<1>8. Result'
  BY <1>1, <1>3, HintFrame, CopyFrame, DoneFrame DEF RejInv, Result
<1> QED BY <1>4, <1>7, <1>8 DEF RejInv

\* Behind the barrier after its votes, every warp has counted the same half.
LEMMA AllCounted ==
  ASSUME Control, WarpsCounted, NEW c, NEW k, NEW half, IsHalf(program, c, k, half),
         NEW u \in Warps, c + 2 <= Reach(u),
         \A q \in c + 3 .. Len(program) : program[q][1] = "count" => \A v \in Warps : Reach(v) <= q
  PROVE  \A v \in AllWarps : s_hint_count[v] = WarpCount(HintCodes, HalfStart(k, half), v)
<1>1. /\ Warps = AllWarps /\ c \in Nat \ {0} /\ program[c][1] = "count" /\ program[c + 1][1] = "sync"
      /\ program[c + 2][1] = "sum" /\ c \in 1 .. Len(program) /\ c + 2 \in 1 .. Len(program)
  BY HalfLemma
<1>2. \A v \in Warps : Reach(v) \in Nat /\ Reach(v) <= Stop /\ Stop \in 1 .. Len(program) + 1 /\ Len(program) \in Nat
  BY ReachLemma
<1> SUFFICES ASSUME NEW v \in Warps
             PROVE  s_hint_count[v] = WarpCount(HintCodes, HalfStart(k, half), v)
  BY <1>1
<1>3. c < Reach(v)
  <2>1. Conflict(program[c][1], program[c + 2][1]) /\ c < c + 2
    BY <1>1 DEF Conflict
  <2> QED BY <1>1, <2>1, Behind
<1>4. ASSUME NEW q \in c .. Reach(v) - 1, program[q][1] = "count"
      PROVE  q = c
  <2>1. q \in Nat /\ q < Reach(v) /\ q \in 1 .. Len(program)
    BY <1>1, <1>2
  <2>2. q # c + 1 /\ q # c + 2
    BY <1>1, <1>4
  <2>3. ~(q \in c + 3 .. Len(program))
    BY <1>2, <1>4, <2>1
  <2> QED BY <1>1, <1>4, <2>1, <2>2, <2>3
<1>5. Recent(program, "count", c, Reach(v))
  BY <1>1, <1>2, <1>3, <1>4 DEF Recent
<1> QED BY <1>5 DEF WarpsCounted

\* A later instruction that conflicts with the next one of a warp is not reached.
LEMMA Ahead ==
  ASSUME Control, NEW w \in Warps, NEW p \in 1 .. Len(program), Reach(w) = p,
         NEW q \in 1 .. Len(program), p < q, Conflict(program[p][1], program[q][1]), NEW v \in Warps
  PROVE  Reach(v) < q
<1>1. Reach(v) \in Nat
  BY ReachLemma
<1>2. q <= Reach(v) => p < Reach(w)
  BY Behind
<1> QED BY <1>1, <1>2

\* Summing keeps the invariant.
LEMMA SumStep ==
  ASSUME RejInv, NEW w \in Warps, Sums(w)
  PROVE  RejInv'
<1>1. Moves(w) /\ program[pc[w]][1] = "sum" /\ Control
  BY PlainMoves DEF Sums, RejInv
<1>2. s_hint_count_sum' = IF w = 0 THEN Counted(NWarps) ELSE s_hint_count_sum
  BY DEF Sums
<1>3. UNCHANGED <<pos, total, s_rej_flag, s_hint_count, s_hint, g_hint, g_done>>
  BY DEF Sums
<1>4. Control'
  BY <1>1, <1>2, <1>3, PlainControl DEF Control, Typed
<1>5. ~Advancing(program, pc[w])
  BY <1>1, NotAdvancing
<1>6. BlockCounted'
  <2>1. CASE w # 0
    BY <1>1, <1>2, <2>1, SumFrame DEF RejInv, Decision
  <2>2. CASE w = 0
    <3>1. /\ Reach(w) = pc[w] /\ Reach(w)' = pc[w] + 1 /\ pc[w] \in Nat \ {0}
      BY <1>1, MovesLemma DEF Control
    <3>2. program' = program /\ HintCodes' = HintCodes /\ \A k, half : HalfCount(k, half)' = HalfCount(k, half)
      BY <1>1, SameLemma DEF Moves, HalfCount
    <3> SUFFICES ASSUME NEW c, NEW k, NEW half,
                        IsHalf(program, c, k, half), Recent(program, "sum", c + 2, Reach(0)')
                 PROVE  Counted(NWarps) = HalfCount(k, half)
      BY <1>2, <2>2, <3>2 DEF BlockCounted
    <3>3. c + 2 = pc[w]
      BY <1>1, <2>2, <3>1, RecentStep
    <3>4. HalfStart(k, half) \in Nat /\ c + 2 \in 1 .. Len(program) /\ c \in Nat
      BY <1>1, HalfLemma
    <3>5. \A q \in c + 3 .. Len(program) : program[q][1] = "count" => \A v \in Warps : Reach(v) <= q
      <4> TAKE q \in c + 3 .. Len(program)
      <4> HAVE program[q][1] = "count"
      <4> TAKE v \in Warps
      <4>1. q \in 1 .. Len(program) /\ c + 2 < q /\ Reach(w) = c + 2
        BY <3>1, <3>3, <3>4
      <4>2. Conflict(program[c + 2][1], program[q][1])
        BY <1>1, <3>3 DEF Conflict
      <4>3. Reach(v) < q
        BY <1>1, <3>4, <4>1, <4>2, Ahead
      <4> QED BY <1>1, <4>1, <4>3, ReachLemma
    <3>6. \A v \in AllWarps : s_hint_count[v] = WarpCount(HintCodes, HalfStart(k, half), v)
      <4>1. c + 2 <= Reach(w)
        BY <3>1, <3>3
      <4> QED BY <1>1, <3>5, <4>1, AllCounted DEF RejInv, Decision
    <3>7. \A x \in HintCodes : x \in Nat
      BY <1>1, HintsLemma
    <3>8. NWarps \in Nat /\ BlockDim = NWarps * Lanes
      BY ChunksLemma DEF BlockDim
    <3> DEFINE base == HalfStart(k, half)
    <3>9. base \in Nat /\ \A v \in 0 .. NWarps - 1 : s_hint_count[v] = WarpCount(HintCodes, base, v)
      BY <3>4, <3>6 DEF AllWarps
    <3>10. Counted(NWarps) = CountIn(HintCodes, base + NWarps * Lanes) - CountIn(HintCodes, base)
      <4> HIDE DEF base
      <4>1. NWarps <= NWarps
        BY <3>8
      <4> QED BY <3>7, <3>8, <3>9, <4>1, CountedLemma
    <3> QED BY <3>8, <3>10 DEF HalfCount
  <2> QED BY <2>1, <2>2
<1>7. Decision'
  BY <1>1, <1>3, <1>5, <1>6, FlagFrame, CountFrame, TotalFrame, PosFrame DEF RejInv, Decision
<1>8. Result'
  BY <1>1, <1>3, HintFrame, CopyFrame, DoneFrame DEF RejInv, Result
<1> QED BY <1>4, <1>7, <1>8 DEF RejInv

-----------------------------------------------------------------------------
(* Bounding a half and advancing.                                          *)
\* The position of a warp during a half.
LEMMA PosInHalf ==
  ASSUME Control, Positioned, NEW w \in Warps, NEW c, NEW k, NEW half, IsHalf(program, c, k, half),
         NEW j \in 0 .. 7, Reach(w) = c + j
  PROVE  pos[w] = CountIn(HintCodes, HalfStart(k, half)) /\ pos[w] \in Nat
<1>1. /\ c \in Nat \ {0} /\ Preceded(program, c, HalfStart(k, half)) /\ HalfStart(k, half) \in Nat
      /\ program[c][1] = "count" /\ program[c + 1][1] = "sync" /\ program[c + 2][1] = "sum"
      /\ program[c + 3][1] = "sync" /\ program[c + 4][1] = "bound" /\ program[c + 5][1] = "place"
      /\ program[c + 6][1] = "sync"
  BY HalfLemma
<1>2. \A u \in c .. (c + j) - 1 : ~Advancing(program, u)
  <2> TAKE u \in c .. (c + j) - 1
  <2>0. u \in Int /\ c <= u /\ u <= c + 6
    BY <1>1
  <2>1. u = c \/ u = c + 1 \/ u = c + 2 \/ u = c + 3 \/ u = c + 4 \/ u = c + 5 \/ u = c + 6
    BY <1>1, <2>0
  <2>2. program[u][1] # "advance" /\ program[u][1] # "chunk"
    BY <1>1, <2>1
  <2> QED BY <2>2, NotAdvancing
<1>3. c + j \in Nat /\ c <= c + j
  BY <1>1
<1>4. Preceded(program, c + j, HalfStart(k, half))
  BY <1>1, <1>2, <1>3, PrecededOn
<1>5. pos[w] = CountIn(HintCodes, HalfStart(k, half))
  BY <1>4 DEF Positioned
<1>6. \A x \in HintCodes : x \in Nat
  BY HintsLemma
<1> QED BY <1>1, <1>5, <1>6, CountLemma

\* The sum that a warp reads.
LEMMA SumKnown ==
  ASSUME Control, BlockCounted, NEW w \in Warps, NEW c, NEW k, NEW half, IsHalf(program, c, k, half),
         Reach(w) = c + 4
  PROVE  s_hint_count_sum = HalfCount(k, half)
<1>1. /\ c \in Nat \ {0} /\ c + 2 \in 1 .. Len(program) /\ c + 4 \in 1 .. Len(program)
      /\ program[c + 2][1] = "sum" /\ program[c + 3][1] = "sync" /\ program[c + 4][1] = "bound"
  BY HalfLemma
<1>2. Reach(0) \in Nat /\ Reach(0) <= Len(program) + 1 /\ Len(program) \in Nat /\ 0 \in Warps
  <2>1. 0 \in Warps
    BY ShapeLemma DEF Control, Typed
  <2> QED BY <2>1, ReachLemma
<1>3. c + 2 < Reach(0)
  <2>1. Conflict(program[c + 2][1], program[c + 4][1]) /\ c + 2 < c + 4 /\ c + 4 <= Reach(w)
    BY <1>1 DEF Conflict
  <2> QED BY <1>1, <1>2, <2>1, Behind
<1>4. ASSUME NEW q \in c + 2 .. Reach(0) - 1, program[q][1] = "sum"
      PROVE  q = c + 2
  <2>1. q \in 1 .. Len(program) /\ q < Reach(0)
    BY <1>1, <1>2
  <2>2. q # c + 3 /\ q # c + 4
    BY <1>1, <1>4
  <2>3. ~(c + 4 < q)
    <3> SUFFICES ASSUME c + 4 < q PROVE FALSE
      OBVIOUS
    <3>1. Conflict(program[c + 4][1], program[q][1])
      BY <1>1, <1>4 DEF Conflict
    <3>2. Reach(0) < q
      BY <1>1, <1>2, <2>1, <3>1, Ahead
    <3> QED BY <1>2, <2>1, <3>2
  <2> QED BY <1>1, <2>1, <2>2, <2>3
<1>5. Recent(program, "sum", c + 2, Reach(0))
  BY <1>1, <1>2, <1>3, <1>4 DEF Recent
<1> QED BY <1>5 DEF BlockCounted

\* The hints up to the end of a half, and whether they are too many.
LEMMA HalfDecides ==
  ASSUME Control, NEW c, NEW k, NEW half, IsHalf(program, c, k, half)
  PROVE  /\ HalfCount(k, half) \in Int
         /\ CountIn(HintCodes, HalfStart(k, half)) + HalfCount(k, half)
              = CountIn(HintCodes, HalfStart(k, half) + BlockDim)
         /\ Stops(program, attempt, c + 4) <=> CountIn(HintCodes, HalfStart(k, half) + BlockDim) > OMEGA
<1>1. /\ c \in Nat \ {0} /\ HalfStart(k, half) \in Nat /\ BlockDim \in Nat
      /\ program[c] = <<"count", k, half>> /\ program[c + 4][1] = "bound"
  BY HalfWhere, HalfStarts, HalfNames, HalfMarks
<1>2. \A x \in HintCodes : x \in Nat
  BY HintsLemma
<1> DEFINE s == HalfStart(k, half)
           e == HalfStart(k, half) + BlockDim
<1>3. CountIn(HintCodes, s) \in Nat /\ CountIn(HintCodes, e) \in Nat
  <2>1. s \in Nat /\ e \in Nat
    BY <1>1
  <2> HIDE DEF s, e
  <2> QED BY <1>2, <2>1, CountLemma
<1>4. \A d : Limits(program, c + 4, d) <=> d = e
  <2>1. Limits(program, c + 4, e)
    BY DEF Limits
  <2>2. ASSUME NEW d, Limits(program, c + 4, d)
        PROVE  d = e
    <3>1. \A i, m : program[c + 4] # <<"chunk", i, m>>
      BY <1>1
    <3>2. PICK b, i, h : IsHalf(program, b, i, h) /\ c + 4 = b + 4 /\ d = HalfStart(i, h) + BlockDim
      BY <2>2, <3>1 DEF Limits
    <3>3. b \in Nat /\ program[b] = <<"count", i, h>>
      <4>1. IsHalf(program, b, i, h)
        BY <3>2
      <4> HIDE DEF e
      <4>2. b \in Nat
        BY ONLY Control, <4>1, HalfWhere
      <4>3. program[b] = <<"count", i, h>>
        BY ONLY <4>1, HalfNames
      <4> QED BY ONLY <4>2, <4>3
    <3>4. b = c
      BY <1>1, <3>2, <3>3
    <3>5. i = k /\ h = half
      BY <1>1, <3>3, <3>4
    <3> QED BY <3>2, <3>5
  <2> HIDE DEF e
  <2> QED BY <2>1, <2>2
<1>5. Stops(program, attempt, c + 4) <=> CountIn(HintCodes, e) > OMEGA
  <2>1. ~Rejects(program, attempt, c + 4)
    BY <1>1 DEF Rejects
  <2> HIDE DEF e
  <2>2. Exceeds(program, attempt, c + 4) <=> CountIn(HintCodes, e) > OMEGA
    <3>1. Exceeds(program, attempt, c + 4) <=>
            \E d : Limits(program, c + 4, d) /\ CountIn(HintCodes, d) > OMEGA
      BY DEF Exceeds, HintCodes
    <3> QED BY ONLY <1>4, <3>1
  <2> QED BY <2>1, <2>2 DEF Stops
<1>6. HalfCount(k, half) = CountIn(HintCodes, e) - CountIn(HintCodes, s)
  BY DEF HalfCount
<1> HIDE DEF s
<1>7. CountIn(HintCodes, s) + HalfCount(k, half) = CountIn(HintCodes, e) /\ HalfCount(k, half) \in Int
  <2> HIDE DEF e
  <2> QED BY <1>3, <1>6
<1> QED BY <1>5, <1>7 DEF s

\* The bound keeps the invariant.
LEMMA BoundStep ==
  ASSUME RejInv, NEW w \in Warps, Bounds(w)
  PROVE  RejInv'
<1>1. Executes(w, "bound") /\ Control /\ BlockCounted /\ Positioned
  BY DEF Bounds, RejInv, Decision
<1>2. /\ pc[w] \in 1 .. Len(program) /\ program[pc[w]][1] = "bound" /\ UNCHANGED <<kernel, attempt>>
      /\ Reach(w) = pc[w]
      /\ (Stops(program, attempt, pc[w]) => pc[w] = Stop)
      /\ (~Stops(program, attempt, pc[w]) => pc[w] < Stop)
  BY <1>1, ExecutesLemma
<1>3. total' = [total EXCEPT ![w] = s_hint_count_sum] /\ DOMAIN total = Warps
  BY <1>1 DEF Bounds, Control, Typed
<1>4. UNCHANGED <<pos, s_rej_flag, s_hint_count, s_hint_count_sum, s_hint, g_hint, g_done>>
  BY DEF Bounds
<1>5. PICK c, k, half : IsHalf(program, c, k, half) /\ pc[w] = c + 4
  BY <1>1, <1>2, HalfOf DEF InHalf
<1>6. pos[w] = CountIn(HintCodes, HalfStart(k, half)) /\ pos[w] \in Nat
  <2>1. 4 \in 0 .. 7 /\ Reach(w) = c + 4
    BY <1>2, <1>5
  <2> QED BY <1>1, <1>5, <2>1, PosInHalf
<1>7. s_hint_count_sum = HalfCount(k, half)
  BY <1>1, <1>2, <1>5, SumKnown
<1>8. Stops(program, attempt, pc[w]) <=> pos[w] + s_hint_count_sum > OMEGA
  BY <1>1, <1>5, <1>6, <1>7, HalfDecides
<1>9. CASE pos[w] + s_hint_count_sum > OMEGA
  <2>1. Leaves(w)
    BY <1>2, <1>8, <1>9 DEF Bounds, Leaves
  <2> QED BY <1>3, <1>4, <2>1, LeaveStep
<1>10. CASE ~(pos[w] + s_hint_count_sum > OMEGA)
  <2>1. Moves(w)
    BY <1>2, <1>8, <1>10 DEF Bounds, Moves
  <2>2. Control'
    BY <1>1, <1>2, <1>3, <1>4, <2>1, PlainControl DEF Control, Typed
  <2>3. ~Advancing(program, pc[w])
    BY <1>2, NotAdvancing
  <2>4. Totalled'
    <3>1. /\ Reach(w)' = pc[w] + 1 /\ pc[w] \in Nat \ {0}
          /\ \A v \in Warps : v # w => Reach(v)' = Reach(v) /\ pc'[v] = pc[v]
      BY <1>1, <2>1, MovesLemma DEF Control
    <3>2. program' = program /\ Warps' = Warps
          /\ \A i, h : HalfCount(i, h)' = HalfCount(i, h)
      BY <1>2, SameLemma DEF HalfCount
    <3> SUFFICES ASSUME NEW v \in Warps, NEW b, NEW i, NEW h, pc'[v] # Returned,
                        IsHalf(program, b, i, h), Recent(program, "bound", b + 4, Reach(v)')
                 PROVE  total'[v] = HalfCount(i, h)
      BY <3>2 DEF Totalled, Returned
    <3>3. CASE v = w
      <4>1. b + 4 = pc[w]
        <5>1. Recent(program, "bound", b + 4, pc[w] + 1)
          BY <3>1, <3>3
        <5>2. pc[w] \in Nat \ {0} /\ program[pc[w]][1] = "bound"
          BY <1>2, <3>1
        <5> QED BY ONLY <5>1, <5>2, RecentStep
      <4>2. s_hint_count_sum = HalfCount(i, h)
        BY <1>1, <1>2, <4>1, SumKnown
      <4> QED BY <1>3, <3>3, <4>2
    <3>4. CASE v # w
      <4>1. total'[v] = total[v]
        BY <1>3, <3>4
      <4> QED BY <3>1, <3>4, <4>1 DEF Totalled, RejInv, Decision
    <3> QED BY <3>3, <3>4
  <2>5. Decision'
    BY <1>1, <1>2, <1>4, <2>1, <2>3, <2>4, FlagFrame, CountFrame, SumFrame, PosFrame DEF RejInv, Decision
  <2>6. Result'
    BY <1>1, <1>2, <1>4, <2>1, HintFrame, CopyFrame, DoneFrame DEF RejInv, Result
  <2> QED BY <2>2, <2>5, <2>6 DEF RejInv
<1> QED BY <1>9, <1>10

\* Advancing keeps the invariant.
LEMMA AdvanceStep ==
  ASSUME RejInv, NEW w \in Warps, Advances(w)
  PROVE  RejInv'
<1>1. Moves(w) /\ program[pc[w]][1] = "advance" /\ Control
  BY PlainMoves DEF Advances, RejInv
<1>2. pos' = [pos EXCEPT ![w] = pos[w] + total[w]] /\ DOMAIN pos = Warps
  BY <1>1 DEF Advances, Control, Typed
<1>3. UNCHANGED <<total, s_rej_flag, s_hint_count, s_hint_count_sum, s_hint, g_hint, g_done>>
  BY DEF Advances
<1>4. Control'
  BY <1>1, <1>2, <1>3, PlainControl DEF Control, Typed
<1>5. Positioned'
  <2>1. /\ Reach(w) = pc[w] /\ Reach(w)' = pc[w] + 1 /\ pc[w] \in Nat \ {0}
        /\ \A v \in Warps : v # w => Reach(v)' = Reach(v)
    BY <1>1, MovesLemma DEF Control
  <2>2. program' = program /\ Warps' = Warps /\ HintCodes' = HintCodes
    BY <1>1, SameLemma DEF Moves
  <2> SUFFICES ASSUME NEW v \in Warps, NEW s, Preceded(program, Reach(v)', s)
               PROVE  pos'[v] = CountIn(HintCodes, s)
    BY <2>2 DEF Positioned
  <2>3. CASE v # w
    <3>1. pos'[v] = pos[v] /\ Reach(v)' = Reach(v)
      BY <1>2, <2>1, <2>3
    <3> QED BY <3>1 DEF Positioned, RejInv, Decision
  <2>4. CASE v = w
    <3>1. Ends(program, pc[w], s)
      <4>1. Preceded(program, pc[w] + 1, s)
        BY <2>1, <2>4
      <4>2. Advancing(program, pc[w])
        <5>1. \/ Ends(program, pc[w], s)
              \/ ~Advancing(program, pc[w])
          BY <2>1, <4>1, PrecededStep
        <5>2. InHalf(kernel, program, pc[w]) /\ pc[w] \in 1 .. Len(program)
          BY <1>1, HalfOf DEF Moves
        <5>3. PICK c, k, half : IsHalf(program, c, k, half) /\ pc[w] = c + 7
          BY <1>1, <5>2 DEF InHalf
        <5> QED BY <5>3 DEF IsHalf, Advancing
      <4> QED BY <2>1, <4>1, <4>2, PrecededStep
    <3>2. PICK c, k, half : IsHalf(program, c, k, half) /\ pc[w] = c + 7 /\ s = HalfStart(k, half) + BlockDim
      <4>1. \A i, m : program[pc[w]] # <<"chunk", i, m>>
        BY <1>1
      <4> QED BY <3>1, <4>1 DEF Ends
    <3>3. pos[w] = CountIn(HintCodes, HalfStart(k, half))
      <4>1. 7 \in 0 .. 7 /\ Reach(w) = c + 7
        BY <2>1, <3>2
      <4> QED BY <1>1, <3>2, <4>1, PosInHalf DEF RejInv, Decision
    <3>4. total[w] = HalfCount(k, half)
      <4>1. /\ c \in Nat \ {0} /\ program[c + 4][1] = "bound" /\ program[c + 5][1] = "place"
            /\ program[c + 6][1] = "sync"
        BY <1>1, <3>2, HalfLemma
      <4>2. ASSUME NEW q \in c + 4 .. (c + 7) - 1, program[q][1] = "bound"
            PROVE  q = c + 4
        <5>1. q = c + 4 \/ q = c + 5 \/ q = c + 6
          BY <4>1
        <5> QED BY <4>1, <4>2, <5>1
      <4>3. Recent(program, "bound", c + 4, Reach(w))
        <5>1. c + 4 \in 1 .. (c + 7) - 1
          BY <4>1
        <5> QED BY <2>1, <3>2, <4>1, <4>2, <5>1 DEF Recent
      <4>4. pc[w] # Returned
        BY <2>1 DEF Returned
      <4> QED BY <3>2, <4>3, <4>4 DEF Totalled, RejInv, Decision
    <3>5. pos'[v] = pos[w] + total[w]
      BY <1>2, <2>4
    <3> QED BY <1>1, <3>2, <3>3, <3>4, <3>5, HalfDecides
  <2> QED BY <2>3, <2>4
<1>6. Decision'
  BY <1>1, <1>3, <1>5, FlagFrame, CountFrame, SumFrame, TotalFrame DEF RejInv, Decision
<1>7. Result'
  BY <1>1, <1>3, HintFrame, CopyFrame, DoneFrame DEF RejInv, Result
<1> QED BY <1>4, <1>6, <1>7 DEF RejInv

-----------------------------------------------------------------------------
(* What the instructions write that place hints.                           *)
\* The code and the index of a hint.
LEMMA CodesOf ==
  ASSUME Control, NEW k \in 0 .. K - 1, NEW x \in 0 .. N - 1, <<k, x>> \in attempt.hints
  PROVE  /\ Start(k) + x \in HintCodes /\ Start(k) + x \in Nat
         /\ Index(k, x) \in Nat /\ Index(k, x) + 1 = CountIn(HintCodes, (Start(k) + x) + 1)
         /\ \A e \in Nat : Start(k) + x < e => Index(k, x) + 1 <= CountIn(HintCodes, e)
         /\ Index(k, x) + 1 <= CountIn(HintCodes, Start(K))
<1> DEFINE s == Start(k) + x
<1>1. s \in HintCodes /\ s < Start(K) /\ \A y \in HintCodes : y \in Nat
  BY HintsLemma
<1>2. Index(k, x) = CountIn(HintCodes, s)
  BY DEF Index
<1>3. Start(K) \in Nat
  BY StartLemma, ChunksLemma
<1> HIDE DEF s
<1>4. Index(k, x) \in Nat /\ Index(k, x) + 1 = CountIn(HintCodes, s + 1)
  BY <1>1, <1>2, CountLemma
<1>5. \A e \in Nat : s < e => Index(k, x) + 1 <= CountIn(HintCodes, e)
  BY <1>1, <1>2, CountStrict
<1>6. s \in HintCodes /\ s \in Nat
  BY <1>1
<1> QED BY <1>1, <1>3, <1>4, <1>5, <1>6 DEF s

\* Two hints that are placed at the same index.
Collide(i, x, j, y) ==
  /\ i \in 0 .. K - 1 /\ x \in 0 .. N - 1 /\ <<i, x>> \in attempt.hints
  /\ j \in 0 .. K - 1 /\ y \in 0 .. N - 1 /\ <<j, y>> \in attempt.hints
  /\ Index(i, x) = Index(j, y)

\* There are none.
LEMMA Distinct ==
  ASSUME Control, NEW i, NEW x, NEW j, NEW y, Collide(i, x, j, y)
  PROVE  i = j /\ x = y
<1>0. /\ i \in 0 .. K - 1 /\ x \in 0 .. N - 1 /\ <<i, x>> \in attempt.hints
      /\ j \in 0 .. K - 1 /\ y \in 0 .. N - 1 /\ <<j, y>> \in attempt.hints
      /\ Index(i, x) = Index(j, y)
  BY DEF Collide
<1> DEFINE s == Start(i) + x
           t == Start(j) + y
<1>1. /\ s \in HintCodes /\ s \in Nat /\ t \in HintCodes /\ t \in Nat
      /\ \A e \in Nat : s < e => Index(i, x) + 1 <= CountIn(HintCodes, e)
      /\ \A e \in Nat : t < e => Index(j, y) + 1 <= CountIn(HintCodes, e)
      /\ Index(i, x) = CountIn(HintCodes, s) /\ Index(j, y) = CountIn(HintCodes, t) /\ Index(i, x) \in Nat
  BY <1>0, CodesOf DEF Index
<1>2. s = t
  <2> HIDE DEF s, t
  <2>0. CountIn(HintCodes, s) = CountIn(HintCodes, t) /\ CountIn(HintCodes, s) \in Nat
        /\ Index(i, x) = CountIn(HintCodes, s) /\ Index(j, y) = CountIn(HintCodes, s)
    BY <1>0, <1>1
  <2>1. ASSUME s < t PROVE FALSE
    <3>1. Index(i, x) + 1 <= CountIn(HintCodes, t)
      BY <1>1, <2>1
    <3>2. CountIn(HintCodes, s) + 1 <= CountIn(HintCodes, s)
      BY ONLY <2>0, <3>1
    <3> QED BY ONLY <2>0, <3>2
  <2>2. ASSUME t < s PROVE FALSE
    <3>1. Index(j, y) + 1 <= CountIn(HintCodes, s)
      BY <1>1, <2>2
    <3>2. CountIn(HintCodes, s) + 1 <= CountIn(HintCodes, s)
      BY ONLY <2>0, <3>1
    <3> QED BY ONLY <2>0, <3>2
  <2> QED BY <1>1, <2>1, <2>2
<1>3. <<i, x>> \in Hints /\ <<j, y>> \in Hints /\ CodeOf(<<i, x>>) = s /\ CodeOf(<<j, y>>) = t
  BY <1>0 DEF Hints, CodeOf
<1>4. <<i, x>> = <<j, y>>
  <2> HIDE DEF s, t
  <2> QED BY <1>2, <1>3, CodeLemma
<1> QED BY <1>4

\* A chunk of the hints of a polynomial.
LEMMA ChunkDecides ==
  ASSUME Control, NEW p \in 1 .. Len(program), NEW k \in 0 .. K - 1, NEW i \in 0 .. Chunks - 1,
         program[p] = <<"chunk", k, i>>
  PROVE  /\ ChunkStart(k, i) \in Nat /\ Lanes \in Nat \ {0}
         /\ Warps = {0} /\ Preceded(program, p, ChunkStart(k, i))
         /\ \A t \in 0 .. Lanes - 1 : /\ Lanes * i + t \in 0 .. N - 1
                                      /\ Start(k) + (Lanes * i + t) = ChunkStart(k, i) + t
         /\ Stops(program, attempt, p) <=> CountIn(HintCodes, ChunkStart(k, i) + Lanes) > OMEGA
<1>1. Lanes \in Nat \ {0} /\ Chunks \in Nat \ {0} /\ N = Lanes * Chunks /\ K \in Nat
  BY ChunksLemma
<1>2. k \in Nat /\ i \in Nat /\ i < Chunks
  BY <1>1
<1>3. Start(k) \in Nat /\ ChunkStart(k, i) \in Nat
  BY <1>2, StartLemma, ChunkStartLemma
<1> DEFINE o == Lanes * i
<1>4. o \in Nat /\ o + Lanes <= N /\ ChunkStart(k, i) = Start(k) + o
  BY <1>1, <1>2, Multiples DEF ChunkStart
<1>5. kernel = "rej_loop_32t" /\ InChunk(program, p)
  <2>1. program[p][1] = "chunk"
    OBVIOUS
  <2> QED BY <2>1, ShapeLemma DEF Control, Typed, Shape, InChunks
<1>6. Warps = {0} /\ Preceded(program, p, ChunkStart(k, i))
  BY <1>5, ShapeLemma DEF Control, Typed, InChunk
<1>7. \A t \in 0 .. Lanes - 1 : o + t \in 0 .. N - 1 /\ Start(k) + (o + t) = ChunkStart(k, i) + t
  <2>1. N \in Nat
    BY ChunksLemma
  <2> HIDE DEF o
  <2> QED BY <1>1, <1>3, <1>4, <2>1
<1>8. \A e : Limits(program, p, e) <=> e = ChunkStart(k, i) + Lanes
  <2>1. \A c, j, h : IsHalf(program, c, j, h) /\ p = c + 4 => program[p][1] = "bound"
    BY DEF IsHalf
  <2>2. \A j, m : program[p] = <<"chunk", j, m>> <=> j = k /\ m = i
    OBVIOUS
  <2> QED BY <2>1, <2>2 DEF Limits
<1>9. Stops(program, attempt, p) <=> CountIn(HintCodes, ChunkStart(k, i) + Lanes) > OMEGA
  <2>1. ~Rejects(program, attempt, p)
    BY DEF Rejects
  <2>2. Exceeds(program, attempt, p) <=> \E d : Limits(program, p, d) /\ CountIn(HintCodes, d) > OMEGA
    BY DEF Exceeds, HintCodes
  <2>3. Exceeds(program, attempt, p) <=> CountIn(HintCodes, ChunkStart(k, i) + Lanes) > OMEGA
    BY ONLY <1>8, <2>2
  <2> QED BY <2>1, <2>3 DEF Stops
<1> QED BY <1>1, <1>3, <1>6, <1>7, <1>9

\* The positions that a place instruction covers.
LEMMA PlaceDecides ==
  ASSUME Control, NEW p \in 1 .. Len(program), program[p][1] = "place"
  PROVE  /\ p - 5 \in Nat
         /\ \E k, half : IsHalf(program, p - 5, k, half) /\ program[p] = <<"place", k, half>>
<1>1. PICK c, k, half : IsHalf(program, c, k, half) /\ p = c + 5
  BY HalfOf DEF InHalf
<1>2. c \in Nat \ {0} /\ program[c + 5] = <<"place", k, half>>
  <2>1. IsHalf(program, c, k, half)
    BY <1>1
  <2>2. c \in Nat \ {0}
    BY ONLY Control, <2>1, HalfWhere
  <2>3. program[c + 5] = <<"place", k, half>>
    BY ONLY <2>1, HalfNames
  <2> QED BY ONLY <2>2, <2>3
<1>3. p - 5 = c
  BY <1>1, <1>2
<1> QED BY <1>1, <1>2, <1>3

\* Where an instruction places a hint is before OMEGA.
LEMMA RoomLemma ==
  ASSUME Control, NEW w \in Warps, NEW p \in 1 .. Len(program), p < Stop,
         NEW k \in 0 .. K - 1, NEW x \in 0 .. N - 1,
         Covers(program, p, w, k, x), <<k, x>> \in attempt.hints
  PROVE  Index(k, x) \in Nat /\ Index(k, x) < OMEGA /\ Index(k, x) \in HintBytes
<1>1. /\ Index(k, x) \in Nat
      /\ \A e \in Nat : Start(k) + x < e => Index(k, x) + 1 <= CountIn(HintCodes, e)
  BY CodesOf
<1>2. /\ \A q \in 1 .. Stop - 1 : ~Stops(program, attempt, q)
      /\ Stop \in Nat /\ OMEGA \in Nat \ {0} /\ K \in Nat
      /\ \A y \in HintCodes : y \in Nat
  BY ReachLemma, ChunksLemma, HintsLemma
<1>3. PICK e \in Nat : Start(k) + x < e /\ ~(CountIn(HintCodes, e) > OMEGA)
  <2>1. CASE \E half \in {0, 1}, t \in w * Lanes .. w * Lanes + Lanes - 1 :
               program[p] = <<"place", k, half>> /\ x = Half(half) + t
    <3>1. PICK half \in {0, 1}, t \in w * Lanes .. w * Lanes + Lanes - 1 :
            program[p] = <<"place", k, half>> /\ x = Half(half) + t
      BY <2>1
    <3>2. PICK j, h : IsHalf(program, p - 5, j, h) /\ program[p] = <<"place", j, h>>
      BY <3>1, PlaceDecides
    <3>3. IsHalf(program, p - 5, k, half)
      BY <3>1, <3>2
    <3> DEFINE e == HalfStart(k, half) + BlockDim
    <3>4. /\ Stops(program, attempt, (p - 5) + 4) <=> CountIn(HintCodes, e) > OMEGA
          /\ p - 5 \in Nat \ {0} /\ HalfStart(k, half) \in Nat /\ BlockDim \in Nat /\ Warps = AllWarps
      BY <3>3, HalfDecides, HalfWhere, HalfStarts
    <3>5. (p - 5) + 4 \in 1 .. Stop - 1
      <4>1. p - 5 \in Nat \ {0}
        BY <3>4
      <4>2. p < Stop /\ Stop \in Nat
        BY <1>2
      <4> HIDE DEF e
      <4> QED BY ONLY <4>1, <4>2
    <3>6. Start(k) + x = HalfStart(k, half) + t /\ t < BlockDim /\ t \in Nat
      <4>1. w \in AllWarps /\ attempt.hints \subseteq Hints
        BY <3>4, HintsLemma
      <4>2. /\ w * Lanes \in Nat /\ w * Lanes + Lanes \in Nat /\ w * Lanes + Lanes <= BlockDim
            /\ HalfStart(k, half) + t = Start(k) + (Half(half) + t)
        BY <4>1, InWarpLemma
      <4>3. t < BlockDim /\ t \in Nat
        <5>1. Lanes \in Nat
          BY ChunksLemma
        <5>2. BlockDim \in Nat /\ t \in w * Lanes .. w * Lanes + Lanes - 1
          BY <3>1, <3>4
        <5> DEFINE a == w * Lanes
        <5>3. a \in Nat /\ a + Lanes <= BlockDim /\ t \in a .. a + Lanes - 1
          BY <4>2, <5>2
        <5> HIDE DEF a, e
        <5> QED BY ONLY <5>1, <5>2, <5>3
      <4> QED BY <3>1, <4>2, <4>3
    <3>7. e \in Nat /\ Start(k) + x < e
      BY <3>4, <3>6
    <3>8. ~(CountIn(HintCodes, e) > OMEGA)
      BY <1>2, <3>4, <3>5
    <3> QED BY <3>7, <3>8
  <2>2. CASE \E i \in 0 .. Chunks - 1, t \in 0 .. Lanes - 1 :
               program[p] = <<"chunk", k, i>> /\ x = Lanes * i + t
    <3>1. PICK i \in 0 .. Chunks - 1, t \in 0 .. Lanes - 1 :
            program[p] = <<"chunk", k, i>> /\ x = Lanes * i + t
      BY <2>2
    <3> DEFINE e == ChunkStart(k, i) + Lanes
    <3>2. /\ ChunkStart(k, i) \in Nat /\ Lanes \in Nat
          /\ Start(k) + x = ChunkStart(k, i) + t
          /\ Stops(program, attempt, p) <=> CountIn(HintCodes, e) > OMEGA
      BY <3>1, ChunkDecides
    <3>3. p \in 1 .. Stop - 1
      BY <1>2
    <3>4. e \in Nat /\ Start(k) + x < e
      BY <3>2
    <3>5. ~(CountIn(HintCodes, e) > OMEGA)
      BY <1>2, <3>2, <3>3
    <3> QED BY <3>4, <3>5
  <2> QED BY <2>1, <2>2 DEF Covers
<1>4. CountIn(HintCodes, e) \in Nat
  BY <1>2, CountLemma
<1>5. Index(k, x) + 1 <= CountIn(HintCodes, e)
  BY <1>1, <1>3
<1> QED BY <1>1, <1>2, <1>3, <1>4, <1>5 DEF HintBytes

\* Instruction p of warp w turns the buffer into h.
Effect(w, p, h) ==
  /\ h = [i \in HintBytes |-> h[i]]
  /\ \A k \in 0 .. K - 1, x \in 0 .. N - 1 :
       Covers(program, p, w, k, x) /\ <<k, x>> \in attempt.hints => h[Index(k, x)] = x
  /\ \A i \in HintBytes :
       \/ h[i] = s_hint[i]
       \/ \E k \in 0 .. K - 1, x \in 0 .. N - 1 :
            Covers(program, p, w, k, x) /\ <<k, x>> \in attempt.hints /\ i = Index(k, x)

\* Such an instruction keeps the result.
LEMMA EffectLemma ==
  ASSUME Control, Placed, Cleared, LastsSet, NEW w \in Warps, Moves(w),
         program[pc[w]][1] \in {"place", "chunk"}, Effect(w, pc[w], s_hint')
  PROVE  Placed' /\ Cleared' /\ LastsSet'
<1>1. /\ Reach(w) = pc[w] /\ Reach(w)' = pc[w] + 1 /\ pc[w] \in Nat \ {0}
      /\ \A v \in Warps : v # w => Reach(v)' = Reach(v)
  BY MovesLemma DEF Control
<1>2. /\ program' = program /\ Warps' = Warps /\ HintCodes' = HintCodes /\ attempt' = attempt
      /\ \A v : Bytes(v)' = Bytes(v)
      /\ \A k, x : Index(k, x)' = Index(k, x)
  BY SameLemma DEF Moves, Index
<1>3. pc[w] \in 1 .. Len(program) /\ pc[w] < Stop /\ OMEGA \in Nat /\ K \in Nat
      /\ Stop \in Nat /\ \A v \in Warps : Reach(v) \in Nat /\ Reach(v) <= Stop
  BY ReachLemma, ChunksLemma DEF Moves
<1>4. Placed'
  <2> SUFFICES ASSUME NEW v \in Warps, NEW p \in 1 .. Len(program), NEW k \in 0 .. K - 1, NEW x \in 0 .. N - 1,
                      p < Reach(v)', Covers(program, p, v, k, x), <<k, x>> \in attempt.hints
               PROVE  s_hint'[Index(k, x)] = x
    BY <1>2 DEF Placed
  <2>1. CASE v = w /\ p = pc[w]
    BY <2>1 DEF Effect
  <2>2. CASE p < Reach(v)
    <3>1. s_hint[Index(k, x)] = x
      BY <2>2 DEF Placed
    <3>2. p < Stop
      BY <1>3, <2>2
    <3>3. Index(k, x) \in HintBytes
      BY <3>2, RoomLemma
    <3>4. CASE s_hint'[Index(k, x)] = s_hint[Index(k, x)]
      BY <3>1, <3>4
    <3>5. CASE \E j \in 0 .. K - 1, y \in 0 .. N - 1 :
                 Covers(program, pc[w], w, j, y) /\ <<j, y>> \in attempt.hints /\ Index(k, x) = Index(j, y)
      <4>1. PICK j \in 0 .. K - 1, y \in 0 .. N - 1 :
              Covers(program, pc[w], w, j, y) /\ <<j, y>> \in attempt.hints /\ Index(k, x) = Index(j, y)
        BY <3>5
      <4>2. s_hint'[Index(j, y)] = y
        BY <4>1 DEF Effect
      <4>3. x = y
        <5>1. Collide(k, x, j, y)
          BY <4>1 DEF Collide
        <5> QED BY ONLY Control, <5>1, Distinct
      <4> QED BY <4>1, <4>2, <4>3
    <3> QED BY <3>3, <3>4, <3>5 DEF Effect
  <2> QED BY <2>1, <2>2, ExecutedStep
<1>5. Cleared'
  <2> SUFFICES ASSUME NEW v \in Warps, NEW i \in Bytes(v),
                      1 < Reach(v)', i < OMEGA, CountIn(HintCodes, Start(K)) <= i
               PROVE  s_hint'[i] = 0
    BY <1>2 DEF Cleared
  <2>1. pc[w] # 1
    <3>1. program[pc[w]][1] # "init"
      OBVIOUS
    <3> QED BY <3>1, PlaceLemmaOf
  <2>2. 1 < Reach(v)
    BY <1>1, <2>1
  <2>3. s_hint[i] = 0
    BY <2>2 DEF Cleared
  <2>4. i \in HintBytes /\ i \in Int
    BY <1>3 DEF Bytes, HintBytes
  <2>5. ASSUME NEW j \in 0 .. K - 1, NEW y \in 0 .. N - 1, <<j, y>> \in attempt.hints, i = Index(j, y)
        PROVE  FALSE
    <3>1. Index(j, y) + 1 <= CountIn(HintCodes, Start(K)) /\ Index(j, y) \in Nat
      BY <2>5, CodesOf
    <3>2. CountIn(HintCodes, Start(K)) \in Nat
      BY HintsLemma, CountLemma, StartLemma, <1>3
    <3> QED BY <2>4, <2>5, <3>1, <3>2
  <2>6. \/ s_hint'[i] = s_hint[i]
        \/ \E j \in 0 .. K - 1, y \in 0 .. N - 1 :
             Covers(program, pc[w], w, j, y) /\ <<j, y>> \in attempt.hints /\ i = Index(j, y)
    BY <2>4 DEF Effect
  <2> QED BY <2>3, <2>5, <2>6
<1>6. LastsSet'
  <2> SUFFICES ASSUME NEW p \in 1 .. Len(program), NEW k \in 0 .. K - 1,
                      program[p] = <<"last", k>>, p < Reach(0)'
               PROVE  s_hint'[OMEGA + k] = CountIn(HintCodes, Start(k) + N)
    BY <1>2 DEF LastsSet
  <2>1. p # pc[w] /\ 0 \in Warps
    BY ShapeLemma DEF Control, Typed
  <2>2. p < Reach(0)
    BY <2>1, ExecutedStep
  <2>3. s_hint[OMEGA + k] = CountIn(HintCodes, Start(k) + N)
    BY <2>2 DEF LastsSet
  <2>4. OMEGA + k \in HintBytes /\ OMEGA <= OMEGA + k /\ OMEGA + k \in Nat
    BY <1>3 DEF HintBytes
  <2>5. ASSUME NEW j \in 0 .. K - 1, NEW y \in 0 .. N - 1, <<j, y>> \in attempt.hints,
               Covers(program, pc[w], w, j, y), OMEGA + k = Index(j, y)
        PROVE  FALSE
    <3>1. Index(j, y) < OMEGA /\ Index(j, y) \in Nat
      BY <1>3, <2>5, RoomLemma
    <3> QED BY <1>3, <2>4, <2>5, <3>1
  <2> QED BY <2>3, <2>4, <2>5 DEF Effect
<1> QED BY <1>4, <1>5, <1>6

\* The hints of the threads mine are placed in h: X[t] at at[t].
IsPlacing(w, p, h, k, mine, X, at) ==
  /\ k \in 0 .. K - 1
  /\ \A t \in mine : /\ X[t] \in 0 .. N - 1 /\ Covers(program, p, w, k, X[t])
                     /\ <<k, X[t]>> \in attempt.hints /\ at[t] = Index(k, X[t])
  /\ \A j \in 0 .. K - 1, y \in 0 .. N - 1 :
       Covers(program, p, w, j, y) /\ <<j, y>> \in attempt.hints => j = k /\ \E t \in mine : X[t] = y
  /\ h = [i \in HintBytes |-> h[i]]
  /\ \A i \in HintBytes :
       \/ \E t \in mine : i = at[t] /\ h[i] = X[t]
       \/ h[i] = s_hint[i] /\ ~\E t \in mine : i = at[t]

\* Threads that write so have the effect.
LEMMA Placing ==
  ASSUME Control, NEW w \in Warps, NEW p \in 1 .. Len(program), p < Stop, NEW h,
         NEW k, NEW mine, NEW X, NEW at, IsPlacing(w, p, h, k, mine, X, at)
  PROVE  Effect(w, p, h)
<1> USE DEF IsPlacing
<1>1. ASSUME NEW j \in 0 .. K - 1, NEW y \in 0 .. N - 1,
             Covers(program, p, w, j, y), <<j, y>> \in attempt.hints
      PROVE  h[Index(j, y)] = y
  <2>1. PICK t \in mine : j = k /\ X[t] = y
    BY <1>1
  <2>2. Index(j, y) \in HintBytes
    BY <1>1, RoomLemma
  <2>3. Index(j, y) = at[t]
    BY <2>1
  <2>4. PICK u \in mine : Index(j, y) = at[u] /\ h[Index(j, y)] = X[u]
    BY <2>2, <2>3
  <2>5. Index(j, y) = Index(k, X[u]) /\ X[u] \in 0 .. N - 1 /\ <<k, X[u]>> \in attempt.hints
    BY <2>4
  <2>6. y = X[u]
    <3> DEFINE z == X[u]
    <3>1. z \in 0 .. N - 1 /\ <<k, z>> \in attempt.hints /\ Index(j, y) = Index(k, z)
      BY <2>5
    <3>2. /\ k \in 0 .. K - 1 /\ j \in 0 .. K - 1 /\ y \in 0 .. N - 1
          /\ <<j, y>> \in attempt.hints
      BY <1>1
    <3> HIDE DEF z
    <3>4. Collide(j, y, k, z)
      BY ONLY <3>1, <3>2 DEF Collide
    <3>3. y = z
      BY ONLY Control, <3>4, Distinct
    <3> QED BY <3>3 DEF z
  <2> QED BY <2>4, <2>6
<1>2. ASSUME NEW i \in HintBytes
      PROVE  \/ h[i] = s_hint[i]
             \/ \E j \in 0 .. K - 1, y \in 0 .. N - 1 :
                  Covers(program, p, w, j, y) /\ <<j, y>> \in attempt.hints /\ i = Index(j, y)
  <2>1. ASSUME NEW t \in mine, i = at[t]
        PROVE  \E j \in 0 .. K - 1, y \in 0 .. N - 1 :
                 Covers(program, p, w, j, y) /\ <<j, y>> \in attempt.hints /\ i = Index(j, y)
    <3>1. /\ X[t] \in 0 .. N - 1 /\ Covers(program, p, w, k, X[t])
          /\ <<k, X[t]>> \in attempt.hints /\ i = Index(k, X[t])
      BY <2>1
    <3> WITNESS k \in 0 .. K - 1, X[t] \in 0 .. N - 1
    <3> QED BY <3>1
  <2>2. (\E t \in mine : i = at[t]) \/ h[i] = s_hint[i]
    OBVIOUS
  <2>3. CASE \E t \in mine : i = at[t]
    <3>1. PICK t \in mine : i = at[t]
      BY <2>3
    <3> QED BY ONLY <2>1, <3>1
  <2> QED BY <2>2, <2>3
<1> QED BY <1>1, <1>2 DEF Effect

-----------------------------------------------------------------------------
(* Placing a half.                                                         *)
\* Before place is over, no warp counts for the next half.
LEMMA CountedBefore ==
  ASSUME Control, WarpsCounted, NEW w \in Warps, NEW c, NEW k, NEW half, IsHalf(program, c, k, half),
         Reach(w) = c + 5
  PROVE  \A v \in AllWarps : s_hint_count[v] = WarpCount(HintCodes, HalfStart(k, half), v)
<1>1. /\ c \in Nat \ {0} /\ c + 7 \in 1 .. Len(program) /\ program[c + 3][1] = "sync"
      /\ program[c + 4][1] = "bound" /\ program[c + 5][1] = "place"
  BY HalfLemma
<1>2. Len(program) \in Nat
  BY ReachLemma
<1>3. c + 5 \in 1 .. Len(program)
  BY <1>1, <1>2
<1>4. ASSUME NEW q \in c + 3 .. Len(program), program[q][1] = "count", NEW v \in Warps
      PROVE  Reach(v) <= q
  <2>1. q \in 1 .. Len(program) /\ q \in Nat
    BY <1>1, <1>2
  <2>2. q # c + 3 /\ q # c + 4 /\ q # c + 5
    BY <1>1, <1>4
  <2>3. c + 5 < q
    BY <1>1, <2>1, <2>2
  <2>4. Conflict(program[c + 5][1], program[q][1])
    BY <1>1, <1>4 DEF Conflict
  <2>5. Reach(v) < q
    BY <1>3, <2>1, <2>3, <2>4, Ahead
  <2>6. Reach(v) \in Nat
    BY ReachLemma
  <2> QED BY <2>1, <2>5, <2>6
<1>5. c + 2 <= Reach(w)
  BY <1>1
<1> QED BY <1>4, <1>5, AllCounted

\* Where the threads of a warp write.
LEMMA PlaceIndex ==
  ASSUME Control, WarpsCounted, Positioned, NEW w \in Warps, NEW c, NEW k, NEW half,
         IsHalf(program, c, k, half), Reach(w) = c + 5,
         NEW t \in InWarp(k, half, w)
  PROVE  /\ pos[w] + (Counted(w) + Cardinality({u \in InWarp(k, half, w) : u <= t})) - 1
              = Index(k, Half(half) + t)
         /\ t \in w * Lanes .. w * Lanes + Lanes - 1
         /\ half * BlockDim + t = Half(half) + t /\ Half(half) + t \in 0 .. N - 1
         /\ <<k, Half(half) + t>> \in attempt.hints
<1> DEFINE G == HintCodes
           base == HalfStart(k, half)
           a == w * Lanes
           b == w * Lanes + Lanes
           mine == InWarp(k, half, w)
           x == Half(half) + t
           upto == {u \in mine : u <= t}
<1>1. /\ Warps = AllWarps /\ k \in 0 .. K - 1 /\ half \in {0, 1} /\ w \in AllWarps
  BY HalfLemma
<1>2. /\ mine = Span(G, base, a, b)
      /\ a \in Nat /\ b \in Nat /\ base \in Nat
      /\ \A u \in w * Lanes .. w * Lanes + Lanes - 1 :
           /\ half * BlockDim + u = Half(half) + u /\ Half(half) + u \in 0 .. N - 1
           /\ base + u = Start(k) + (Half(half) + u)
  BY <1>1, HintsLemma, InWarpLemma DEF HintCodes
<1>3. t \in w * Lanes .. w * Lanes + Lanes - 1 /\ Hint(k, half * BlockDim + t)
  BY DEF InWarp
<1>4. /\ half * BlockDim + t = x /\ x \in 0 .. N - 1 /\ base + t = Start(k) + x
      /\ <<k, x>> \in attempt.hints
  BY <1>2, <1>3 DEF Hint
<1>5. \A y \in G : y \in Nat
  BY HintsLemma
<1>6. t \in Nat /\ a <= t /\ t < b
  <2>1. Lanes \in Nat
    BY ChunksLemma
  <2> HIDE DEF G, base, mine, upto
  <2> QED BY <1>2, <1>3, <2>1
<1>7. pos[w] = CountIn(G, base)
  <2>1. 5 \in 0 .. 7
    OBVIOUS
  <2> QED BY <2>1, PosInHalf
<1>8. Counted(w) = CountIn(G, base + w * Lanes) - CountIn(G, base)
  <2>1. w \in Nat /\ w <= NWarps /\ NWarps \in Nat /\ \A v \in 0 .. w - 1 : v \in AllWarps
    BY <1>1, ChunksLemma DEF AllWarps
  <2>2. \A v \in AllWarps : s_hint_count[v] = WarpCount(G, base, v)
    BY CountedBefore
  <2>3. \A v \in 0 .. w - 1 : s_hint_count[v] = WarpCount(G, base, v)
    BY <2>1, <2>2
  <2> HIDE DEF G, base
  <2> QED BY <1>2, <1>5, <2>1, <2>3, CountedLemma
<1>9. upto = Span(G, base, a, t + 1)
  <2> HIDE DEF G, base, a, b, mine
  <2>1. ASSUME NEW u
        PROVE  u \in upto <=> u \in Span(G, base, a, t + 1)
    <3>1. u \in mine <=> u \in a .. b - 1 /\ base + u \in G
      BY <1>2, SpanMembers
    <3>2. u \in Span(G, base, a, t + 1) <=> u \in a .. (t + 1) - 1 /\ base + u \in G
      BY SpanMembers
    <3> QED BY <1>2, <1>6, <3>1, <3>2
  <2> HIDE DEF upto
  <2> QED BY ONLY <2>1
<1>10. Cardinality(upto) = CountIn(G, base + (t + 1)) - CountIn(G, base + a)
  <2> HIDE DEF G, base, a, upto
  <2>1. t + 1 \in Nat /\ a <= t + 1
    BY <1>2, <1>6
  <2>2. Cardinality(Span(G, base, a, t + 1)) = CountIn(G, base + (t + 1)) - CountIn(G, base + a)
    BY ONLY <1>2, <1>5, <2>1, SpanLemma
  <2> QED BY <1>9, <2>2
<1>11. /\ CountIn(G, base) \in Nat /\ CountIn(G, base + a) \in Nat
       /\ CountIn(G, base + (t + 1)) = CountIn(G, base + t) + 1 /\ CountIn(G, base + t) \in Nat
  <2>1. base + t \in G
    BY <1>4, CodesOf, <1>1
  <2> HIDE DEF G, base, a
  <2>2. base + t \in Nat /\ base + a \in Nat /\ base + (t + 1) = (base + t) + 1
    BY <1>2, <1>6
  <2> QED BY <1>2, <1>5, <2>1, <2>2, CountLemma
<1>12. Index(k, x) = CountIn(G, base + t)
  BY <1>4 DEF Index
<1>13. pos[w] + (Counted(w) + Cardinality(upto)) - 1 = Index(k, x)
  <2>1. Counted(w) = CountIn(G, base + a) - CountIn(G, base)
    BY <1>8
  <2> HIDE DEF G, base, a, upto, x
  <2> QED BY <1>7, <1>10, <1>11, <1>12, <2>1
<1> QED BY <1>3, <1>4, <1>13

\* Placing keeps the invariant.
LEMMA PlaceStep ==
  ASSUME RejInv, NEW w \in Warps, Places(w)
  PROVE  RejInv'
<1>1. Moves(w) /\ program[pc[w]][1] = "place" /\ Control
  BY PlainMoves DEF Places, RejInv
<1>2. pc[w] \in 1 .. Len(program) /\ pc[w] < Stop /\ Reach(w) = pc[w] /\ pc[w] \in Nat
  BY <1>1, MovesLemma DEF Moves, Control
<1>3. UNCHANGED <<pos, total, s_rej_flag, s_hint_count, s_hint_count_sum, g_hint, g_done>>
  BY DEF Places
<1>4. PICK k, half : IsHalf(program, pc[w] - 5, k, half) /\ program[pc[w]] = <<"place", k, half>>
  BY <1>1, <1>2, PlaceDecides
<1>5. k \in 0 .. K - 1 /\ half \in {0, 1} /\ Reach(w) = (pc[w] - 5) + 5
  <2>1. pc[w] - 5 \in Nat
    BY <1>1, <1>2, PlaceDecides
  <2>2. Control /\ IsHalf(program, pc[w] - 5, k, half)
    BY <1>1, <1>4
  <2>3. k \in 0 .. K - 1 /\ half \in {0, 1}
    BY ONLY <2>2, HalfLemma
  <2>4. Reach(w) = (pc[w] - 5) + 5
    BY <1>2, <2>1
  <2> QED BY <2>3, <2>4
<1> DEFINE mine == InWarp(k, half, w)
           at(t) == pos[w] + (Counted(w) + Cardinality({u \in mine : u <= t})) - 1
           X(t) == half * BlockDim + t
           chosen(i) == CHOOSE t \in mine : i = at(t)
<1>6. s_hint' = [i \in HintBytes |-> IF \E t \in mine : i = at(t) THEN X(chosen(i)) ELSE s_hint[i]]
  <2>1. program[pc[w]][2] = k /\ program[pc[w]][3] = half
    BY <1>4
  <2> QED BY <2>1 DEF Places, Operand
<1>7. \A t \in mine : /\ X(t) \in 0 .. N - 1 /\ Covers(program, pc[w], w, k, X(t))
                      /\ <<k, X(t)>> \in attempt.hints /\ at(t) = Index(k, X(t))
  <2> TAKE t \in mine
  <2>1. /\ at(t) = Index(k, Half(half) + t)
        /\ t \in w * Lanes .. w * Lanes + Lanes - 1
        /\ X(t) = Half(half) + t /\ Half(half) + t \in 0 .. N - 1
        /\ <<k, Half(half) + t>> \in attempt.hints
    BY <1>1, <1>4, <1>5, PlaceIndex DEF RejInv, Decision
  <2>2. Covers(program, pc[w], w, k, Half(half) + t)
    BY <1>4, <1>5, <2>1 DEF Covers
  <2> HIDE DEF X, at, mine
  <2> QED BY <2>1, <2>2
<1>8. ASSUME NEW j \in 0 .. K - 1, NEW y \in 0 .. N - 1,
             Covers(program, pc[w], w, j, y), <<j, y>> \in attempt.hints
      PROVE  j = k /\ \E t \in mine : X(t) = y
  <2>1. \A i, m : program[pc[w]] # <<"chunk", i, m>>
    BY <1>4
  <2>2. PICK h \in {0, 1}, t \in w * Lanes .. w * Lanes + Lanes - 1 :
          program[pc[w]] = <<"place", j, h>> /\ y = Half(h) + t
    BY <1>8, <2>1 DEF Covers
  <2>3. j = k /\ h = half
    BY <1>4, <2>2
  <2>4. half * BlockDim + t = Half(half) + t
    <3>1. w \in AllWarps /\ attempt.hints \subseteq Hints
      BY <1>1, <1>4, HalfLemma, HintsLemma
    <3> QED BY <1>5, <3>1, InWarpLemma
  <2>5. X(t) = y /\ Hint(k, half * BlockDim + t)
    BY <1>8, <2>2, <2>3, <2>4 DEF Hint
  <2>6. t \in mine
    BY <2>5 DEF InWarp
  <2> HIDE DEF X, mine
  <2> QED BY <2>3, <2>5, <2>6
<1>9. \A i : (\E t \in mine : i = at(t)) => chosen(i) \in mine /\ i = at(chosen(i))
  <2> HIDE DEF mine, at
  <2> QED OBVIOUS
<1>10. Effect(w, pc[w], s_hint')
  <2> HIDE DEF mine, at, X, chosen
  <2> DEFINE fX == [t \in mine |-> X(t)]
             fat == [t \in mine |-> at(t)]
  <2>1. \A t \in mine : /\ fX[t] \in 0 .. N - 1 /\ Covers(program, pc[w], w, k, fX[t])
                        /\ <<k, fX[t]>> \in attempt.hints /\ fat[t] = Index(k, fX[t])
    BY <1>7
  <2>2. \A j \in 0 .. K - 1, y \in 0 .. N - 1 :
          Covers(program, pc[w], w, j, y) /\ <<j, y>> \in attempt.hints => j = k /\ \E t \in mine : fX[t] = y
    BY <1>8
  <2>3. s_hint' = [i \in HintBytes |-> s_hint'[i]]
    BY <1>6
  <2>4. \A i \in HintBytes :
          \/ \E t \in mine : i = fat[t] /\ s_hint'[i] = fX[t]
          \/ s_hint'[i] = s_hint[i] /\ ~\E t \in mine : i = fat[t]
    <3> TAKE i \in HintBytes
    <3>1. CASE \E t \in mine : i = at(t)
      <4>1. chosen(i) \in mine /\ i = at(chosen(i)) /\ s_hint'[i] = X(chosen(i))
        BY <1>6, <1>9, <3>1
      <4> QED BY <4>1
    <3>2. CASE ~\E t \in mine : i = at(t)
      BY <1>6, <3>2
    <3> QED BY <3>1, <3>2
  <2> HIDE DEF fX, fat
  <2>5. IsPlacing(w, pc[w], s_hint', k, mine, fX, fat)
    BY ONLY <1>5, <2>1, <2>2, <2>3, <2>4 DEF IsPlacing
  <2> QED BY <1>1, <1>2, <2>5, Placing
<1> HIDE DEF mine, at, X, chosen
<1>11. Control'
  BY <1>1, <1>3, <1>6, PlainControl DEF Control, Typed
<1>12. ~Advancing(program, pc[w])
  BY <1>1, NotAdvancing
<1>13. Decision'
  BY <1>1, <1>3, <1>12, FlagFrame, CountFrame, SumFrame, TotalFrame, PosFrame DEF RejInv, Decision
<1>14. Result'
  BY <1>1, <1>3, <1>10, EffectLemma, CopyFrame, DoneFrame DEF RejInv, Result
<1> QED BY <1>11, <1>13, <1>14 DEF RejInv

-----------------------------------------------------------------------------
(* Placing a chunk.                                                        *)
\* The hints of a chunk of the only warp.
InLanes(k, i) == {t \in 0 .. Lanes - 1 : Hint(k, Lanes * i + t)}

\* Where the threads of the only warp write.
LEMMA ChunkIndex ==
  ASSUME Control, Positioned, NEW w \in Warps, NEW p \in 1 .. Len(program), Reach(w) = p,
         NEW k \in 0 .. K - 1, NEW i \in 0 .. Chunks - 1, program[p] = <<"chunk", k, i>>
  PROVE  /\ pos[w] = CountIn(HintCodes, ChunkStart(k, i))
         /\ pos[w] + Cardinality(InLanes(k, i)) = CountIn(HintCodes, ChunkStart(k, i) + Lanes)
         /\ \A t \in 0 .. Lanes - 1 :
              pos[w] + Cardinality({u \in InLanes(k, i) : u <= t}) = CountIn(HintCodes, ChunkStart(k, i) + (t + 1))
         /\ \A t \in InLanes(k, i) :
              /\ pos[w] + Cardinality({u \in InLanes(k, i) : u <= t}) - 1 = Index(k, Lanes * i + t)
              /\ <<k, Lanes * i + t>> \in attempt.hints
<1> DEFINE G == HintCodes
           base == ChunkStart(k, i)
           mine == InLanes(k, i)
           upto(t) == {u \in mine : u <= t}
<1>1. /\ base \in Nat /\ Lanes \in Nat \ {0} /\ Preceded(program, p, base)
      /\ \A t \in 0 .. Lanes - 1 : /\ Lanes * i + t \in 0 .. N - 1
                                   /\ Start(k) + (Lanes * i + t) = base + t
  BY ChunkDecides
<1>2. \A y \in G : y \in Nat
  BY HintsLemma
<1>3. pos[w] = CountIn(G, base)
  BY <1>1 DEF Positioned
<1>4. \A t : t \in mine <=> t \in 0 .. Lanes - 1 /\ base + t \in G
  <2>1. ASSUME NEW t \in 0 .. Lanes - 1
        PROVE  Hint(k, Lanes * i + t) <=> base + t \in G
    <3> DEFINE x == Lanes * i + t
    <3>1. x \in 0 .. N - 1 /\ Start(k) + x = base + t
      BY <1>1
    <3> HIDE DEF x, base, G
    <3>2. Start(k) + x \in HintCodes <=> <<k, x>> \in attempt.hints
      BY <3>1, HintsLemma
    <3>3. base + t \in G <=> <<k, x>> \in attempt.hints
      BY <3>1, <3>2 DEF G
    <3> QED BY <3>3 DEF Hint, x
  <2> HIDE DEF base, G
  <2> QED BY <2>1 DEF InLanes
<1>5. ASSUME NEW t \in 0 .. Lanes
      PROVE  Cardinality(Span(G, base, 0, t)) = CountIn(G, base + t) - CountIn(G, base)
  <2>1. 0 \in Nat /\ t \in Nat /\ 0 <= t /\ base + 0 = base
    BY <1>1
  <2> HIDE DEF base, G
  <2>2. Cardinality(Span(G, base, 0, t)) = CountIn(G, base + t) - CountIn(G, base + 0)
    BY <1>1, <1>2, <2>1, SpanLemma
  <2> QED BY <2>1, <2>2
<1>6. mine = Span(G, base, 0, Lanes)
  <2> HIDE DEF base, G, mine
  <2>1. ASSUME NEW u PROVE u \in mine <=> u \in Span(G, base, 0, Lanes)
    <3>1. u \in Span(G, base, 0, Lanes) <=> u \in 0 .. Lanes - 1 /\ base + u \in G
      BY SpanMembers
    <3> QED BY <1>4, <3>1
  <2> QED BY ONLY <2>1
<1>7. ASSUME NEW t \in 0 .. Lanes - 1
      PROVE  upto(t) = Span(G, base, 0, t + 1)
  <2> HIDE DEF base, G, mine
  <2>1. ASSUME NEW u PROVE u \in upto(t) <=> u \in Span(G, base, 0, t + 1)
    <3>1. u \in Span(G, base, 0, t + 1) <=> u \in 0 .. (t + 1) - 1 /\ base + u \in G
      BY SpanMembers
    <3>2. u \in mine <=> u \in 0 .. Lanes - 1 /\ base + u \in G
      BY <1>4
    <3> QED BY <1>1, <3>1, <3>2
  <2> HIDE DEF upto
  <2> QED BY ONLY <2>1
<1>8. CountIn(G, base) \in Nat
  BY <1>1, <1>2, CountLemma
<1>9. \A t \in 0 .. Lanes : CountIn(G, base + t) \in Nat
  <2> TAKE t \in 0 .. Lanes
  <2>1. base + t \in Nat
    BY <1>1
  <2> HIDE DEF base, G
  <2> QED BY <1>2, <2>1, CountLemma
<1>10. pos[w] + Cardinality(mine) = CountIn(G, base + Lanes)
  <2>1. Lanes \in 0 .. Lanes
    BY <1>1
  <2>2. CountIn(G, base + Lanes) \in Nat
    BY <1>9, <2>1
  <2>3. Cardinality(mine) = CountIn(G, base + Lanes) - CountIn(G, base)
    BY <1>5, <1>6, <2>1
  <2> HIDE DEF base, G, mine
  <2> QED BY <1>3, <1>8, <2>2, <2>3
<1>11. \A t \in 0 .. Lanes - 1 : pos[w] + Cardinality(upto(t)) = CountIn(G, base + (t + 1))
  <2> TAKE t \in 0 .. Lanes - 1
  <2>1. t + 1 \in 0 .. Lanes
    BY <1>1
  <2>2. CountIn(G, base + (t + 1)) \in Nat
    BY <1>9, <2>1
  <2>3. Cardinality(upto(t)) = CountIn(G, base + (t + 1)) - CountIn(G, base)
    BY <1>5, <1>7, <2>1
  <2> HIDE DEF base, G, upto
  <2> QED BY <1>3, <1>8, <2>2, <2>3
<1>12. ASSUME NEW t \in mine
       PROVE  /\ pos[w] + Cardinality(upto(t)) - 1 = Index(k, Lanes * i + t)
              /\ <<k, Lanes * i + t>> \in attempt.hints
  <2>1. t \in 0 .. Lanes - 1 /\ base + t \in G /\ Hint(k, Lanes * i + t)
    BY <1>4 DEF InLanes
  <2>2. pos[w] + Cardinality(upto(t)) = CountIn(G, base + (t + 1))
    BY <1>11, <2>1
  <2>3. Index(k, Lanes * i + t) = CountIn(G, base + t)
    BY <1>1, <2>1 DEF Index
  <2>4. base + t \in Nat /\ base + (t + 1) = (base + t) + 1
    BY <1>1, <2>1
  <2>5. pos[w] \in Int /\ Cardinality(upto(t)) \in Int
    <3>1. t + 1 \in 0 .. Lanes
      BY <1>1, <2>1
    <3>2. CountIn(G, base + (t + 1)) \in Nat
      BY <1>9, <3>1
    <3>3. Cardinality(upto(t)) = CountIn(G, base + (t + 1)) - CountIn(G, base)
      BY <1>5, <1>7, <2>1, <3>1
    <3> HIDE DEF base, G, upto
    <3> QED BY <1>3, <1>8, <3>2, <3>3
  <2> HIDE DEF base, G, upto
  <2>6. CountIn(G, (base + t) + 1) = CountIn(G, base + t) + 1 /\ CountIn(G, base + t) \in Nat
    BY <1>2, <2>1, <2>4, CountLemma
  <2>7. pos[w] + Cardinality(upto(t)) - 1 = Index(k, Lanes * i + t)
    <3>1. Index(k, Lanes * i + t) + 1 = pos[w] + Cardinality(upto(t))
      BY ONLY <2>2, <2>3, <2>4, <2>6
    <3>2. Index(k, Lanes * i + t) \in Nat
      BY ONLY <2>3, <2>6
    <3> QED BY ONLY <2>5, <3>1, <3>2
  <2> QED BY <2>1, <2>7 DEF Hint
<1> HIDE DEF mine
<1> QED BY <1>3, <1>10, <1>11, <1>12 DEF mine

\* A chunk keeps the invariant.
LEMMA ChunkStep ==
  ASSUME RejInv, NEW w \in Warps, Chunk(w)
  PROVE  RejInv'
<1>1. Executes(w, "chunk") /\ Control /\ Positioned
  BY DEF Chunk, RejInv, Decision
<1> DEFINE p == pc[w]
<1>2. /\ p \in 1 .. Len(program) /\ program[p][1] = "chunk" /\ UNCHANGED <<kernel, attempt>>
      /\ Reach(w) = p
      /\ (Stops(program, attempt, p) => p = Stop)
      /\ (~Stops(program, attempt, p) => p < Stop)
  BY <1>1, ExecutesLemma
<1>3. UNCHANGED <<total, s_rej_flag, s_hint_count, s_hint_count_sum, g_hint, g_done>>
  BY DEF Chunk
<1>4. PICK k \in 0 .. K - 1, i \in 0 .. Chunks - 1 : program[p] = <<"chunk", k, i>>
  BY <1>1, <1>2, ShapeLemma DEF Control, Typed, Shape, InChunks, InChunk
<1> DEFINE mine == InLanes(k, i)
           inclusive(t) == Cardinality({u \in mine : u <= t})
           X(t) == Lanes * i + t
           at(t) == pos[w] + inclusive(t) - 1
           chosen(n) == CHOOSE t \in mine : n = at(t)
           over == \E t \in 0 .. Lanes - 1 : pos[w] + inclusive(t) > OMEGA
<1>5. \/ over /\ Return(w) /\ UNCHANGED <<pos, total, s_hint>>
      \/ /\ ~over /\ Continue(w)
         /\ pos' = [pos EXCEPT ![w] = pos[w] + Cardinality(mine)]
         /\ s_hint' = [n \in HintBytes |-> IF \E t \in mine : n = at(t) THEN X(chosen(n)) ELSE s_hint[n]]
  <2> DEFINE Of(j, m) ==
        LET in == InLanes(j, m)
            below(t) == Cardinality({u \in in : u <= t})
            beyond == \E t \in 0 .. Lanes - 1 : pos[w] + below(t) > OMEGA
        IN  \/ beyond /\ Return(w) /\ UNCHANGED <<pos, total, s_hint>>
            \/ /\ ~beyond /\ Continue(w)
               /\ pos' = [pos EXCEPT ![w] = pos[w] + Cardinality(in)]
               /\ s_hint' = [n \in HintBytes |->
                    IF \E t \in in : n = pos[w] + below(t) - 1
                    THEN Lanes * m + (CHOOSE t \in in : n = pos[w] + below(t) - 1)
                    ELSE s_hint[n]]
  <2>1. Of(program[p][2], program[p][3])
    BY DEF Chunk, Operand, InLanes
  <2>2. program[p][2] = k /\ program[p][3] = i
    BY <1>4
  <2>3. Of(k, i)
    <3> HIDE DEF Of, p
    <3> QED BY ONLY <2>1, <2>2
  <2> QED BY ONLY <2>3
<1>6. /\ pos[w] + Cardinality(mine) = CountIn(HintCodes, ChunkStart(k, i) + Lanes)
      /\ \A t \in 0 .. Lanes - 1 : pos[w] + inclusive(t) = CountIn(HintCodes, ChunkStart(k, i) + (t + 1))
      /\ \A t \in mine : at(t) = Index(k, X(t)) /\ <<k, X(t)>> \in attempt.hints
  BY <1>1, <1>2, <1>4, ChunkIndex
<1>7. /\ ChunkStart(k, i) \in Nat /\ Lanes \in Nat \ {0} /\ Warps = {0}
      /\ \A t \in 0 .. Lanes - 1 : X(t) \in 0 .. N - 1
      /\ Stops(program, attempt, p) <=> CountIn(HintCodes, ChunkStart(k, i) + Lanes) > OMEGA
  BY <1>1, <1>2, <1>4, ChunkDecides
<1>8. over <=> CountIn(HintCodes, ChunkStart(k, i) + Lanes) > OMEGA
  <2> DEFINE e == ChunkStart(k, i) + Lanes
  <2>0. \A y \in HintCodes : y \in Nat
    BY <1>1, HintsLemma
  <2>1. ASSUME NEW t \in 0 .. Lanes - 1
        PROVE  CountIn(HintCodes, ChunkStart(k, i) + (t + 1)) <= CountIn(HintCodes, e)
               /\ CountIn(HintCodes, ChunkStart(k, i) + (t + 1)) \in Nat /\ CountIn(HintCodes, e) \in Nat
    <3> DEFINE m == ChunkStart(k, i) + (t + 1)
    <3>1. m \in Nat /\ e \in Nat /\ m <= e
      BY <1>7
    <3> HIDE DEF m, e
    <3>2. CountIn(HintCodes, m) <= CountIn(HintCodes, e) /\ CountIn(HintCodes, m) \in Nat /\ CountIn(HintCodes, e) \in Nat
      BY <2>0, <3>1, CountGrows, CountLemma
    <3> QED BY <3>2 DEF m
  <2>2. OMEGA \in Nat
    BY ChunksLemma
  <2>3. Lanes - 1 \in 0 .. Lanes - 1 /\ (Lanes - 1) + 1 = Lanes
    BY <1>7
  <2>4. ASSUME over PROVE CountIn(HintCodes, e) > OMEGA
    <3>1. PICK t \in 0 .. Lanes - 1 : pos[w] + inclusive(t) > OMEGA
      BY <2>4
    <3>2. CountIn(HintCodes, ChunkStart(k, i) + (t + 1)) > OMEGA
      BY <1>6, <3>1
    <3> HIDE DEF e
    <3> QED BY <2>1, <2>2, <3>2
  <2>5. ASSUME CountIn(HintCodes, e) > OMEGA PROVE over
    <3>1. pos[w] + inclusive(Lanes - 1) = CountIn(HintCodes, ChunkStart(k, i) + ((Lanes - 1) + 1))
      BY <1>6, <2>3
    <3>2. pos[w] + inclusive(Lanes - 1) > OMEGA
      BY <2>3, <2>5, <3>1
    <3> HIDE DEF inclusive
    <3> QED BY <2>3, <3>2
  <2> HIDE DEF over
  <2> QED BY <2>4, <2>5
<1> HIDE DEF over, mine, inclusive
<1>9. CASE over
  <2>1. Leaves(w) /\ UNCHANGED <<pos, s_hint>>
    BY <1>2, <1>5, <1>7, <1>8, <1>9 DEF Leaves
  <2>2. DOMAIN total' = Warps
    BY <1>1, <1>3 DEF Control, Typed
  <2> QED BY <1>3, <2>1, <2>2, LeaveStep
<1>10. CASE ~over
  <2>1. /\ Moves(w)
        /\ pos' = [pos EXCEPT ![w] = pos[w] + Cardinality(mine)]
        /\ s_hint' = [n \in HintBytes |-> IF \E t \in mine : n = at(t) THEN X(chosen(n)) ELSE s_hint[n]]
    BY <1>2, <1>5, <1>7, <1>8, <1>10 DEF Moves
  <2>2. \A n : (\E t \in mine : n = at(t)) => chosen(n) \in mine /\ n = at(chosen(n))
    <3> HIDE DEF at
    <3> QED OBVIOUS
  <2>3. \A t \in mine : t \in 0 .. Lanes - 1 /\ Covers(program, p, w, k, X(t))
    BY <1>4 DEF mine, InLanes, Covers
  <2>4. ASSUME NEW j \in 0 .. K - 1, NEW y \in 0 .. N - 1,
               Covers(program, p, w, j, y), <<j, y>> \in attempt.hints
        PROVE  j = k /\ \E t \in mine : X(t) = y
    <3>1. PICK m \in 0 .. Chunks - 1, t \in 0 .. Lanes - 1 : program[p] = <<"chunk", j, m>> /\ y = Lanes * m + t
      BY <1>4, <2>4 DEF Covers
    <3>2. j = k /\ m = i
      BY <1>4, <3>1
    <3>3. X(t) = y /\ t \in mine
      BY <2>4, <3>1, <3>2 DEF mine, InLanes, Hint
    <3> HIDE DEF X
    <3> QED BY <3>2, <3>3
  <2>5. Effect(w, p, s_hint')
    <3> HIDE DEF at, X, chosen
    <3> DEFINE fX == [t \in mine |-> X(t)]
               fat == [t \in mine |-> at(t)]
    <3>1. \A t \in mine : /\ fX[t] \in 0 .. N - 1 /\ Covers(program, p, w, k, fX[t])
                          /\ <<k, fX[t]>> \in attempt.hints /\ fat[t] = Index(k, fX[t])
      BY <1>6, <1>7, <2>3
    <3>2. \A j \in 0 .. K - 1, y \in 0 .. N - 1 :
            Covers(program, p, w, j, y) /\ <<j, y>> \in attempt.hints => j = k /\ \E t \in mine : fX[t] = y
      BY <2>4
    <3>3. s_hint' = [n \in HintBytes |-> s_hint'[n]]
      BY <2>1
    <3>4. \A n \in HintBytes :
            \/ \E t \in mine : n = fat[t] /\ s_hint'[n] = fX[t]
            \/ s_hint'[n] = s_hint[n] /\ ~\E t \in mine : n = fat[t]
      <4> TAKE n \in HintBytes
      <4>1. CASE \E t \in mine : n = at(t)
        <5>1. chosen(n) \in mine /\ n = at(chosen(n)) /\ s_hint'[n] = X(chosen(n))
          BY <2>1, <2>2, <4>1
        <5> QED BY <5>1
      <4>2. CASE ~\E t \in mine : n = at(t)
        BY <2>1, <4>2
      <4> QED BY <4>1, <4>2
    <3> HIDE DEF fX, fat
    <3>5. k \in 0 .. K - 1
      OBVIOUS
    <3>6. IsPlacing(w, p, s_hint', k, mine, fX, fat)
      BY ONLY <3>1, <3>2, <3>3, <3>4, <3>5 DEF IsPlacing
    <3>7. p < Stop
      BY <2>1 DEF Moves
    <3> QED BY <1>1, <1>2, <3>6, <3>7, Placing
  <2> HIDE DEF at, X, chosen
  <2>6. Control'
    BY <1>1, <1>2, <1>3, <2>1, PlainControl DEF Control, Typed
  <2>7. Positioned'
    <3>1. /\ Reach(w)' = p + 1 /\ p \in Nat \ {0}
      BY <1>1, <2>1, MovesLemma DEF Control
    <3>2. program' = program /\ Warps' = Warps /\ HintCodes' = HintCodes
      BY <1>2, SameLemma
    <3> SUFFICES ASSUME NEW v \in Warps, NEW s, Preceded(program, Reach(v)', s)
                 PROVE  pos'[v] = CountIn(HintCodes, s)
      BY <3>2 DEF Positioned
    <3>3. v = w
      BY <1>7
    <3>4. Preceded(program, p + 1, s)
      BY <3>1, <3>3
    <3>5. Advancing(program, p)
      BY <1>4 DEF Advancing
    <3>6. Ends(program, p, s)
      <4> HIDE DEF p
      <4> QED BY ONLY <3>1, <3>4, <3>5, PrecededStep
    <3>7. s = ChunkStart(k, i) + Lanes
      <4>1. \A c, j, h : IsHalf(program, c, j, h) /\ p = c + 7 => program[p][1] = "advance"
        <5> SUFFICES ASSUME NEW c, NEW j, NEW h, IsHalf(program, c, j, h), p = c + 7
                     PROVE  program[p][1] = "advance"
          OBVIOUS
        <5>1. program[c + 7][1] = "advance"
          BY ONLY IsHalf(program, c, j, h), HalfMarks
        <5> QED BY ONLY <5>1, p = c + 7
      <4>2. \A j, m : program[p] = <<"chunk", j, m>> => j = k /\ m = i
        BY <1>4
      <4> QED BY <1>2, <3>6, <4>1, <4>2 DEF Ends
    <3>8. pos'[w] = pos[w] + Cardinality(mine)
      BY <1>1, <2>1 DEF Control, Typed
    <3> QED BY <1>6, <3>3, <3>7, <3>8
  <2>8. Decision'
    BY <1>1, <1>2, <1>3, <2>1, <2>7, FlagFrame, CountFrame, SumFrame, TotalFrame DEF RejInv, Decision
  <2>9. Result'
    BY <1>1, <1>2, <1>3, <2>1, <2>5, EffectLemma, CopyFrame, DoneFrame DEF RejInv, Result
  <2> QED BY <2>6, <2>8, <2>9 DEF RejInv
<1> QED BY <1>9, <1>10

-----------------------------------------------------------------------------
(* The last byte of a polynomial, and the beginning.                       *)
\* The last byte keeps the invariant.
LEMMA LastStep ==
  ASSUME RejInv, NEW w \in Warps, SetsLast(w)
  PROVE  RejInv'
<1>1. Moves(w) /\ program[pc[w]][1] = "last" /\ Control
  BY PlainMoves DEF SetsLast, RejInv
<1>2. pc[w] \in 1 .. Len(program) /\ pc[w] < Stop /\ Reach(w) = pc[w]
  BY <1>1, MovesLemma DEF Moves, Control
<1>3. UNCHANGED <<pos, total, s_rej_flag, s_hint_count, s_hint_count_sum, g_hint, g_done>>
  BY DEF SetsLast
<1>4. PICK k \in 0 .. K - 1 : program[pc[w]] = <<"last", k>> /\ Preceded(program, pc[w], Start(k) + N)
  BY <1>1, <1>2, ShapeLemma DEF Control, Typed, Shape, Lasts, InLast
<1>5. s_hint' = IF w = 0 THEN [s_hint EXCEPT ![OMEGA + k] = pos[w]] ELSE s_hint
  <2>1. program[pc[w]][2] = k
    BY <1>4
  <2> QED BY <2>1 DEF SetsLast, Operand
<1>6. s_hint = [i \in HintBytes |-> s_hint[i]] /\ s_hint' = [i \in HintBytes |-> s_hint'[i]]
  BY <1>1, <1>5 DEF Control, Typed
<1>7. /\ OMEGA \in Nat /\ K \in Nat /\ k \in Nat /\ OMEGA + k \in HintBytes
      /\ \A j \in 0 .. K - 1 : OMEGA + j \in HintBytes
  BY ChunksLemma DEF HintBytes
<1>8. /\ \A i \in HintBytes : i < OMEGA => s_hint'[i] = s_hint[i]
      /\ \A i \in HintBytes : w # 0 \/ i # OMEGA + k => s_hint'[i] = s_hint[i]
      /\ w = 0 => s_hint'[OMEGA + k] = pos[w]
  BY <1>5, <1>6, <1>7
<1>9. pos[w] = CountIn(HintCodes, Start(k) + N)
  BY <1>2, <1>4 DEF RejInv, Decision, Positioned
<1>10. Control'
  BY <1>1, <1>3, <1>6, PlainControl DEF Control, Typed
<1>11. ~Advancing(program, pc[w])
  BY <1>1, NotAdvancing
<1>12. Decision'
  BY <1>1, <1>3, <1>11, FlagFrame, CountFrame, SumFrame, TotalFrame, PosFrame DEF RejInv, Decision
<1>13. /\ Reach(w) = pc[w] /\ Reach(w)' = pc[w] + 1 /\ pc[w] \in Nat \ {0}
       /\ \A v \in Warps : v # w => Reach(v)' = Reach(v)
  BY <1>1, MovesLemma DEF Control
<1>14. /\ program' = program /\ Warps' = Warps /\ HintCodes' = HintCodes /\ attempt' = attempt
       /\ \A v : Bytes(v)' = Bytes(v)
       /\ \A j, x : Index(j, x)' = Index(j, x)
  BY <1>1, SameLemma DEF Moves, Index
<1>15. Placed'
  <2> SUFFICES ASSUME NEW v \in Warps, NEW p \in 1 .. Len(program), NEW j \in 0 .. K - 1, NEW x \in 0 .. N - 1,
                      p < Reach(v)', Covers(program, p, v, j, x), <<j, x>> \in attempt.hints
               PROVE  s_hint'[Index(j, x)] = x
    BY <1>14 DEF Placed
  <2>1. program[p][1] \in {"place", "chunk"}
    BY DEF Covers
  <2>2. p # pc[w]
    BY <1>1, <2>1
  <2>3. p < Reach(v)
    BY <1>1, <2>2, ExecutedStep
  <2>4. s_hint[Index(j, x)] = x
    BY <2>3 DEF RejInv, Result, Placed
  <2>5. p < Stop
    BY <1>1, <2>3, ReachLemma
  <2>6. Index(j, x) \in HintBytes /\ Index(j, x) < OMEGA
    BY <1>1, <2>5, RoomLemma
  <2> QED BY <1>8, <2>4, <2>6
<1>16. Cleared'
  <2> SUFFICES ASSUME NEW v \in Warps, NEW i \in Bytes(v),
                      1 < Reach(v)', i < OMEGA, CountIn(HintCodes, Start(K)) <= i
               PROVE  s_hint'[i] = 0
    BY <1>14 DEF Cleared
  <2>1. pc[w] # 1
    BY <1>1, PlaceLemmaOf
  <2>2. 1 < Reach(v)
    BY <1>13, <2>1
  <2>3. s_hint[i] = 0 /\ i \in HintBytes
    BY <2>2 DEF RejInv, Result, Cleared, Bytes
  <2> QED BY <1>8, <2>3
<1>17. LastsSet'
  <2> SUFFICES ASSUME NEW p \in 1 .. Len(program), NEW j \in 0 .. K - 1,
                      program[p] = <<"last", j>>, p < Reach(0)'
               PROVE  s_hint'[OMEGA + j] = CountIn(HintCodes, Start(j) + N)
    BY <1>14 DEF LastsSet
  <2>1. 0 \in Warps
    BY <1>1, ShapeLemma DEF Control, Typed
  <2>2. CASE w = 0 /\ j = k
    BY <1>8, <1>9, <2>2
  <2>3. CASE ~(w = 0 /\ j = k)
    <3>1. ~(w = 0 /\ p = pc[w])
      BY <1>4, <2>3
    <3>2. p < Reach(0)
      BY <1>1, <2>1, <3>1, ExecutedStep
    <3>3. s_hint[OMEGA + j] = CountIn(HintCodes, Start(j) + N)
      BY <3>2 DEF RejInv, Result, LastsSet
    <3>4. OMEGA + j \in HintBytes
      BY <1>7
    <3>5. w # 0 \/ OMEGA + j # OMEGA + k
      BY <1>7, <2>3
    <3>6. s_hint'[OMEGA + j] = s_hint[OMEGA + j]
      BY ONLY <1>8, <3>4, <3>5
    <3> QED BY ONLY <3>3, <3>6
  <2> QED BY <2>2, <2>3
<1>18. Result'
  BY <1>1, <1>3, <1>15, <1>16, <1>17, CopyFrame, DoneFrame DEF RejInv, Result
<1> QED BY <1>10, <1>12, <1>18 DEF RejInv

\* The beginning keeps the invariant.
LEMMA InitStep ==
  ASSUME RejInv, NEW w \in Warps, Initializes(w)
  PROVE  RejInv'
<1>1. Moves(w) /\ program[pc[w]][1] = "init" /\ Control
  BY PlainMoves DEF Initializes, RejInv
<1>2. pc[w] = 1
  BY <1>1, PlaceLemmaOf
<1>3. /\ UNCHANGED <<pos, total, s_hint_count, s_hint_count_sum, g_hint, g_done>>
      /\ s_rej_flag' = (w # 0 /\ s_rej_flag)
      /\ s_hint' = [i \in HintBytes |-> IF i \in Bytes(w) THEN 0 ELSE s_hint[i]]
  BY DEF Initializes
<1>4. Control'
  <2>1. s_hint' = [i \in HintBytes |-> s_hint'[i]] /\ s_rej_flag' \in BOOLEAN
    BY <1>3
  <2> QED BY <1>1, <1>3, <2>1, PlainControl DEF Control, Typed
<1>5. /\ Reach(w) = 1 /\ Reach(w)' = 2
      /\ \A v \in Warps : v # w => Reach(v)' = Reach(v)
  BY <1>1, <1>2, MovesLemma DEF Control
<1>6. /\ program' = program /\ Warps' = Warps /\ HintCodes' = HintCodes /\ attempt' = attempt
      /\ \A v : Bytes(v)' = Bytes(v)
      /\ \A j, x : Index(j, x)' = Index(j, x)
      /\ \A v, c : Fails(v, c)' <=> Fails(v, c)
  BY <1>1, SameLemma DEF Moves, Index
<1>7. 0 \in Warps /\ Len(program) \in Nat /\ \A v \in Warps : Reach(v) \in Nat
  BY <1>1, ShapeLemma, ReachLemma DEF Control, Typed
\* No warp is past the first instruction of which the kind matters.
<1>8. ASSUME NEW v \in Warps, NEW p \in 1 .. Len(program), p < Reach(v)',
             program[p][1] # "init", program[p][1] # "sync"
      PROVE  p < Reach(v) /\ FALSE
  <2>1. p # pc[w]
    BY <1>1, <1>8
  <2>2. p < Reach(v)
    BY <1>1, <1>8, <2>1, ExecutedStep
  <2>3. p <= Reach(v)
    BY <1>7, <2>2
  <2>4. 1 < Reach(w)
    BY <1>1, <1>8, <2>3, AfterInit
  <2> QED BY <1>5, <2>4
<1>9. Flagged'
  <2>1. ASSUME NEW v \in Warps, NEW q \in 1 .. Len(program), NEW c \in CheckNames
        PROVE  ~HasVoted(v, q, c)' /\ ~HasVoted(v, q, c)
    <3>1. HasVoted(v, q, c)' <=> q < Reach(v)' /\ program[q] = <<"vote", c>> /\ Fails(v, c)
      BY <1>6 DEF HasVoted
    <3>2. q < Reach(v) => q < Reach(v)'
      BY <1>5, <1>7
    <3>3. program[q] = <<"vote", c>> => program[q][1] = "vote"
      OBVIOUS
    <3>4. ~(q < Reach(v)' /\ program[q][1] = "vote")
      BY <1>8
    <3> QED BY <3>1, <3>2, <3>3, <3>4 DEF HasVoted
  <2>2. 1 < Reach(0)' => ~s_rej_flag'
    <3>1. CASE w = 0
      BY <1>3, <3>1
    <3>2. CASE w # 0
      <4>1. Reach(0)' = Reach(0) /\ (s_rej_flag' => s_rej_flag)
        BY <1>3, <1>5, <1>7, <3>2
      <4>2. 1 < Reach(0) => ~s_rej_flag
        BY <2>1 DEF RejInv, Decision, Flagged
      <4> QED BY <4>1, <4>2
    <3> QED BY <3>1, <3>2
  <2> QED BY <1>6, <2>1, <2>2 DEF Flagged
<1>10. ~Advancing(program, pc[w])
  BY <1>1, NotAdvancing
<1>11. Decision'
  BY <1>1, <1>3, <1>9, <1>10, CountFrame, SumFrame, TotalFrame, PosFrame DEF RejInv, Decision
<1>12. Placed'
  <2> SUFFICES ASSUME NEW v \in Warps, NEW p \in 1 .. Len(program), NEW j \in 0 .. K - 1, NEW x \in 0 .. N - 1,
                      p < Reach(v)', Covers(program, p, v, j, x)
               PROVE  FALSE
    BY <1>6 DEF Placed
  <2>1. program[p][1] \in {"place", "chunk"}
    BY DEF Covers
  <2> QED BY <1>8, <2>1
<1>13. LastsSet'
  <2> SUFFICES ASSUME NEW p \in 1 .. Len(program), NEW j \in 0 .. K - 1,
                      program[p] = <<"last", j>>, p < Reach(0)'
               PROVE  FALSE
    BY <1>6 DEF LastsSet
  <2> QED BY <1>7, <1>8
<1>14. Cleared'
  <2> SUFFICES ASSUME NEW v \in Warps, NEW i \in Bytes(v),
                      1 < Reach(v)', i < OMEGA, CountIn(HintCodes, Start(K)) <= i
               PROVE  s_hint'[i] = 0
    BY <1>6 DEF Cleared
  <2>1. i \in HintBytes
    BY DEF Bytes
  <2>2. CASE i \in Bytes(w)
    BY <1>3, <2>1, <2>2
  <2>3. CASE i \notin Bytes(w)
    <3>1. v # w
      BY <2>3
    <3>2. s_hint[i] = 0
      BY <1>5, <3>1 DEF RejInv, Result, Cleared
    <3> QED BY <1>3, <2>1, <2>3, <3>2
  <2> QED BY <2>2, <2>3
<1>15. Result'
  BY <1>1, <1>3, <1>12, <1>13, <1>14, CopyFrame, DoneFrame DEF RejInv, Result
<1> QED BY <1>4, <1>11, <1>15 DEF RejInv

-----------------------------------------------------------------------------
(* The end of a kernel.                                                    *)
\* The end of the kernel: everything before it has been executed by all warps.
LEMMA AtTheEnd ==
  ASSUME Control, NEW w \in Warps, Reach(w) = Len(program) - 1,
         NEW p \in 1 .. Len(program), program[p][1] \notin {"sync", "copy", "done"}
  PROVE  p < Reach(w) /\ \A v \in Warps : p < Reach(v)
<1> DEFINE e == Len(program) - 1
<1>1. Len(program) \in Nat /\ Len(program) >= 2 /\ Once(program)
  BY ShapeLemma DEF Control, Typed, Shape
<1>2. e \in 1 .. Len(program) /\ program[e][1] = "copy" /\ p # e /\ p # Len(program)
  BY <1>1 DEF Once
<1>3. p < e
  BY <1>1, <1>2
<1>4. Conflict(program[p][1], program[e][1])
  BY <1>2 DEF Conflict
<1>5. e <= Reach(w)
  BY <1>1
<1> HIDE DEF e
<1>6. \A v \in Warps : p < Reach(v)
  BY <1>2, <1>3, <1>4, <1>5, Behind
<1> QED BY <1>6

\* At its end a kernel has found no more than OMEGA hints.
LEMMA FewHints ==
  ASSUME Control, NEW w \in Warps, Reach(w) = Len(program) - 1
  PROVE  /\ CountIn(HintCodes, Start(K)) <= OMEGA /\ CountIn(HintCodes, Start(K)) \in Nat
         /\ Cardinality(attempt.hints) <= OMEGA
<1>1. PICK p \in 1 .. Len(program) : Limits(program, p, Start(K))
  BY ShapeLemma DEF Control, Typed, Shape, Complete
<1>2. program[p][1] \in {"bound", "chunk"}
  <2>1. \A c, k, half : IsHalf(program, c, k, half) /\ p = c + 4 => program[p][1] = "bound"
    BY DEF IsHalf
  <2>2. \A k, i : program[p] = <<"chunk", k, i>> => program[p][1] = "chunk"
    OBVIOUS
  <2> QED BY <1>1, <2>1, <2>2 DEF Limits
<1>3. p < Reach(w)
  BY <1>2, AtTheEnd
<1>4. Reach(w) <= Stop /\ Stop \in Nat /\ Reach(w) \in Nat
  BY ReachLemma
<1>5. p \in 1 .. Stop - 1
  BY <1>3, <1>4
<1>6. ~Exceeds(program, attempt, p)
  BY <1>5, ReachLemma DEF Stops
<1>7. ~(CountIn(HintCodes, Start(K)) > OMEGA)
  BY <1>1, <1>6 DEF Exceeds, HintCodes
<1>8. Start(K) \in Nat /\ OMEGA \in Nat
  BY StartLemma, ChunksLemma
<1>9. CountIn(HintCodes, Start(K)) \in Nat
  BY <1>8, HintsLemma, CountLemma
<1>10. Cardinality(attempt.hints) = CountIn(HintCodes, Start(K))
  BY HintsLemma, NumberLemma DEF HintCodes
<1> QED BY <1>7, <1>8, <1>9, <1>10

\* A warp that copies finds its bytes packed.
LEMMA CopiedBytes ==
  ASSUME RejInv, NEW w \in Warps, Reach(w) = Len(program) - 1, NEW i \in Bytes(w)
  PROVE  s_hint[i] = HintBitPack(attempt.hints)[i]
<1>1. Control /\ Placed /\ Cleared /\ LastsSet
  BY DEF RejInv, Result
<1> DEFINE G == Codes(attempt.hints)
           n == CountIn(G, Start(K))
<1>2. n <= OMEGA /\ n \in Nat /\ Cardinality(attempt.hints) <= OMEGA
  BY <1>1, FewHints DEF HintCodes
<1>3. attempt.hints \subseteq Hints
  BY <1>1, HintsLemma
<1>4. /\ \A k \in 0 .. K - 1 : HintBitPack(attempt.hints)[OMEGA + k] = CountIn(G, Start(k) + N)
      /\ \A h \in attempt.hints : HintBitPack(attempt.hints)[CountIn(G, CodeOf(h))] = h[2]
      /\ \A m \in Nat : m < OMEGA /\ ~(m < n) => HintBitPack(attempt.hints)[m] = 0
      /\ \A m \in Nat : m < n => \E h : IsNth(attempt.hints, m, h)
  BY <1>2, <1>3, PackLemma
<1>5. i \in HintBytes /\ i \in Nat /\ OMEGA \in Nat /\ K \in Nat
  BY ChunksLemma DEF Bytes, HintBytes
<1>6. Shape(kernel, program) /\ Warps = WarpsOf(kernel) /\ 0 \in Warps
  BY <1>1, ShapeLemma DEF Control, Typed
<1> HIDE DEF n
<1>7. CASE i < n
  <2>1. PICK h : IsNth(attempt.hints, i, h)
    BY <1>4, <1>5, <1>7
  <2>2. h \in attempt.hints /\ CountIn(G, CodeOf(h)) = i
    BY <2>1 DEF IsNth
  <2>3. h \in Hints
    BY <1>3, <2>2
  <2>4. PICK k \in 0 .. K - 1, x \in 0 .. N - 1 : h = <<k, x>>
    BY <2>3 DEF Hints
  <2>5. Index(k, x) = i
    <3>1. CodeOf(h) = Start(k) + x
      BY <2>4 DEF CodeOf
    <3> QED BY <2>2, <3>1 DEF Index, HintCodes
  <2>6. PICK p \in 1 .. Len(program), v \in Warps : Covers(program, p, v, k, x)
    BY <1>6 DEF Shape, Complete
  <2>7. program[p][1] \in {"place", "chunk"}
    BY <2>6 DEF Covers
  <2>8. p < Reach(v)
    BY <1>1, <2>7, AtTheEnd
  <2>9. s_hint[Index(k, x)] = x
    BY <1>1, <2>2, <2>4, <2>6, <2>8 DEF Placed
  <2>10. HintBitPack(attempt.hints)[i] = x
    BY <1>4, <2>2, <2>4
  <2> QED BY <2>5, <2>9, <2>10
<1>8. CASE ~(i < n) /\ i < OMEGA
  <2>1. program[1][1] = "init" /\ 1 \in 1 .. Len(program)
    BY <1>6 DEF Shape, Once
  <2>2. 1 < Reach(w)
    BY <1>1, <2>1, AtTheEnd
  <2>3. CountIn(HintCodes, Start(K)) <= i
    BY <1>2, <1>5, <1>8 DEF n, HintCodes
  <2>4. s_hint[i] = 0
    BY <1>1, <1>8, <2>2, <2>3 DEF Cleared
  <2> QED BY <1>4, <1>5, <1>8, <2>4
<1>9. CASE ~(i < OMEGA)
  <2> DEFINE k == i - OMEGA
  <2>1. k \in 0 .. K - 1 /\ i = OMEGA + k
    BY <1>5, <1>9 DEF HintBytes
  <2> HIDE DEF k
  <2>2. PICK p \in 1 .. Len(program) : program[p] = <<"last", k>>
    BY <1>6, <2>1 DEF Shape, Lasts
  <2>3. p < Reach(0)
    BY <1>1, <1>6, <2>2, AtTheEnd
  <2>4. s_hint[OMEGA + k] = CountIn(HintCodes, Start(k) + N)
    BY <1>1, <2>1, <2>2, <2>3 DEF LastsSet
  <2> QED BY <1>4, <2>1, <2>4 DEF HintCodes
<1> QED BY <1>7, <1>8, <1>9

\* Copying keeps the invariant.
LEMMA CopyStep ==
  ASSUME RejInv, NEW w \in Warps, Copies(w)
  PROVE  RejInv'
<1>1. Moves(w) /\ program[pc[w]][1] = "copy" /\ Control
  BY PlainMoves DEF Copies, RejInv
<1>2. /\ UNCHANGED <<pos, total, s_rej_flag, s_hint_count, s_hint_count_sum, s_hint, g_done>>
      /\ g_hint' = [i \in HintBytes |-> IF i \in Bytes(w) THEN s_hint[i] ELSE g_hint[i]]
  BY DEF Copies
<1>3. Control'
  <2>1. g_hint' = [i \in HintBytes |-> g_hint'[i]]
    BY <1>2
  <2> QED BY <1>1, <1>2, <2>1, PlainControl DEF Control, Typed
<1>4. ~Advancing(program, pc[w])
  BY <1>1, NotAdvancing
<1>5. Decision'
  BY <1>1, <1>2, <1>4, FlagFrame, CountFrame, SumFrame, TotalFrame, PosFrame DEF RejInv, Decision
<1>6. /\ Reach(w) = pc[w] /\ \A v \in Warps : v # w => Reach(v)' = Reach(v)
      /\ pc[w] = Len(program) - 1
  BY <1>1, MovesLemma, PlaceLemmaOf DEF Control
<1>7. /\ program' = program /\ Warps' = Warps /\ attempt' = attempt
      /\ \A v : Bytes(v)' = Bytes(v)
  BY <1>1, SameLemma DEF Moves
<1>8. Copied'
  <2> SUFFICES ASSUME NEW v \in Warps, NEW i \in Bytes(v), Len(program) - 1 < Reach(v)'
               PROVE  g_hint'[i] = HintBitPack(attempt.hints)[i]
    BY <1>7 DEF Copied
  <2>1. i \in HintBytes
    BY DEF Bytes
  <2>2. CASE i \in Bytes(w)
    <3>1. s_hint[i] = HintBitPack(attempt.hints)[i]
      BY <1>6, <2>2, CopiedBytes
    <3> QED BY <1>2, <2>1, <2>2, <3>1
  <2>3. CASE i \notin Bytes(w)
    <3>1. v # w
      BY <2>3
    <3>2. g_hint[i] = HintBitPack(attempt.hints)[i]
      BY <1>6, <3>1 DEF RejInv, Result, Copied
    <3> QED BY <1>2, <2>1, <2>3, <3>2
  <2> QED BY <2>2, <2>3
<1>9. Result'
  BY <1>1, <1>2, <1>8, HintFrame, DoneFrame DEF RejInv, Result
<1> QED BY <1>3, <1>5, <1>9 DEF RejInv

\* The end keeps the invariant.
LEMMA DoneStep ==
  ASSUME RejInv, NEW w \in Warps, SetsDone(w)
  PROVE  RejInv'
<1>1. Moves(w) /\ program[pc[w]][1] = "done" /\ Control
  BY PlainMoves DEF SetsDone, RejInv
<1>2. /\ UNCHANGED <<pos, total, s_rej_flag, s_hint_count, s_hint_count_sum, s_hint, g_hint>>
      /\ g_done' = (g_done \/ w = 0)
  BY DEF SetsDone
<1>3. Control'
  BY <1>1, <1>2, PlainControl DEF Control, Typed
<1>4. ~Advancing(program, pc[w])
  BY <1>1, NotAdvancing
<1>5. Decision'
  BY <1>1, <1>2, <1>4, FlagFrame, CountFrame, SumFrame, TotalFrame, PosFrame DEF RejInv, Decision
<1>6. DoneSet'
  <2>1. CASE w = 0
    <3>1. pc[w] = Len(program) /\ Reach(w)' = pc[w] + 1 /\ program' = program /\ Len(program) \in Nat
      BY <1>1, MovesLemma, PlaceLemmaOf, SameLemma, ReachLemma DEF Control, Moves
    <3>2. Len(program) < Reach(0)'
      BY <2>1, <3>1
    <3> QED BY <1>2, <2>1, <3>1, <3>2 DEF DoneSet
  <2>2. CASE w # 0
    <3>1. g_done' = g_done
      BY <1>1, <1>2, <2>2 DEF Control, Typed
    <3> QED BY <1>1, <2>2, <3>1, DoneFrame DEF RejInv, Result
  <2> QED BY <2>1, <2>2
<1>7. Result'
  BY <1>1, <1>2, <1>6, HintFrame, CopyFrame DEF RejInv, Result
<1> QED BY <1>3, <1>5, <1>7 DEF RejInv

\* The invariant holds at the start.
LEMMA StartsSound ==
  ASSUME RejInit
  PROVE  RejInv
<1>1. /\ kernel \in DOMAIN Programs /\ attempt \in Attempts
      /\ pc = [w \in Warps |-> 1] /\ pos = [w \in Warps |-> 0] /\ total = [w \in Warps |-> 0]
      /\ s_rej_flag \in BOOLEAN /\ s_hint_count = [w \in Warps |-> 0]
      /\ s_hint = [i \in HintBytes |-> -1] /\ g_hint = [i \in HintBytes |-> -1] /\ g_done = FALSE
  BY DEF RejInit
<1>2. Shape(kernel, program) /\ Len(program) \in Nat /\ Len(program) >= 2 /\ 0 \in Warps
  BY <1>1, ShapeLemma DEF Shape
<1>3. Stop \in 1 .. Len(program) + 1
  BY <1>2, FateLemma DEF Stop, IsFate
<1>4. \A w \in Warps : pc[w] # Returned /\ Reach(w) = 1
  BY <1>1 DEF Reach, Returned
<1>5. Typed
  <2>1. s_hint = [i \in HintBytes |-> s_hint[i]] /\ g_hint = [i \in HintBytes |-> g_hint[i]]
    BY <1>1
  <2> QED BY <1>1, <2>1 DEF Typed
<1>6. Reached /\ Waited
  BY <1>2, <1>3, <1>4 DEF Reached, Waited
<1>7. \A op, c : ~Recent(program, op, c, 1)
  BY DEF Recent
<1>8. Control
  BY <1>5, <1>6 DEF Control
<1>9. Decision
  <2>1. Flagged /\ WarpsCounted /\ BlockCounted /\ Totalled
    BY <1>2, <1>4, <1>7 DEF Flagged, WarpsCounted, BlockCounted, Totalled
  <2>2. Positioned
    <3> SUFFICES ASSUME NEW w \in Warps, NEW s, Preceded(program, Reach(w), s)
                 PROVE  pos[w] = CountIn(HintCodes, s)
      BY DEF Positioned
    <3>1. s = 0
      BY <1>4 DEF Preceded
    <3>2. CountIn(HintCodes, 0) = 0
      BY <1>8, HintsLemma, CountLemma
    <3> QED BY <1>1, <3>1, <3>2
  <2> QED BY <2>1, <2>2 DEF Decision
<1>10. Result
  BY <1>1, <1>2, <1>4 DEF Result, Placed, Cleared, LastsSet, Copied, DoneSet
<1> QED BY <1>8, <1>9, <1>10 DEF RejInv

-----------------------------------------------------------------------------
(* The theorems.                                                           *)
\* Every step keeps the invariant.
LEMMA RejStep ==
  ASSUME RejInv, [RejNext]_rejVars
  PROVE  RejInv'
<1>1. CASE RejNext
  <2>1. PICK w \in Warps :
          \/ Initializes(w) \/ Synchronizes(w) \/ Votes(w) \/ Checks(w) \/ Counts(w)
          \/ Sums(w) \/ Bounds(w) \/ Places(w) \/ Advances(w) \/ Chunk(w)
          \/ SetsLast(w) \/ Copies(w) \/ SetsDone(w)
    BY <1>1 DEF RejNext
  <2>2. CASE Initializes(w)
    BY <2>2, InitStep
  <2>3. CASE Synchronizes(w)
    BY <2>3, SyncStep
  <2>4. CASE Votes(w)
    BY <2>4, VoteStep
  <2>5. CASE Checks(w)
    BY <2>5, CheckStep
  <2>6. CASE Counts(w)
    BY <2>6, CountStep
  <2>7. CASE Sums(w)
    BY <2>7, SumStep
  <2>8. CASE Bounds(w)
    BY <2>8, BoundStep
  <2>9. CASE Places(w)
    BY <2>9, PlaceStep
  <2>10. CASE Advances(w)
    BY <2>10, AdvanceStep
  <2>11. CASE Chunk(w)
    BY <2>11, ChunkStep
  <2>12. CASE SetsLast(w)
    BY <2>12, LastStep
  <2>13. CASE Copies(w)
    BY <2>13, CopyStep
  <2>14. CASE SetsDone(w)
    BY <2>14, DoneStep
  <2> QED BY <2>1, <2>2, <2>3, <2>4, <2>5, <2>6, <2>7, <2>8, <2>9, <2>10, <2>11, <2>12, <2>13, <2>14
<1>2. CASE UNCHANGED rejVars
  <2>1. UNCHANGED <<kernel, attempt, pc, pos, total, s_rej_flag, s_hint_count,
                    s_hint_count_sum, s_hint, g_hint, g_done>>
    BY <1>2 DEF rejVars
  <2>2. /\ program' = program /\ Warps' = Warps /\ Stop' = Stop /\ HintCodes' = HintCodes
        /\ \A v, c : Fails(v, c)' <=> Fails(v, c)
        /\ \A v : Bytes(v)' = Bytes(v)
    BY <2>1, SameLemma
  <2>3. /\ \A v : Reach(v)' = Reach(v)
        /\ \A k, half : HalfCount(k, half)' = HalfCount(k, half)
        /\ \A k, x : Index(k, x)' = Index(k, x)
    BY <2>1, <2>2 DEF Reach, Returned, HalfCount, Index
  <2>4. \A v, q, c : HasVoted(v, q, c)' <=> HasVoted(v, q, c)
    BY <2>2, <2>3 DEF HasVoted
  <2>5. Control'
    BY <2>1, <2>2, <2>3 DEF RejInv, Control, Typed, Reached, Waited, Returned, Sync
  <2>6. Decision'
    <3>1. Flagged'
      BY <2>1, <2>2, <2>3, <2>4 DEF RejInv, Decision, Flagged
    <3>2. WarpsCounted' /\ BlockCounted' /\ Totalled' /\ Positioned'
      BY <2>1, <2>2, <2>3 DEF RejInv, Decision, WarpsCounted, BlockCounted, Totalled, Positioned, Returned
    <3> QED BY <3>1, <3>2 DEF Decision
  <2>7. Result'
    BY <2>1, <2>2, <2>3 DEF RejInv, Result, Placed, Cleared, LastsSet, Copied, DoneSet
  <2> QED BY <2>5, <2>6, <2>7 DEF RejInv
<1> QED BY <1>1, <1>2

\* The invariant, for every number of warps, lanes and polynomials, for both
\* kernels and every attempt.
THEOREM RejInvTheorem == RejSpec => []RejInv
<1>1. RejInit => RejInv
  BY StartsSound
<1>2. RejInv /\ [RejNext]_rejVars => RejInv'
  BY RejStep
<1> QED BY <1>1, <1>2, PTL DEF RejSpec

\* The warps of a block leave rej_loop together: a warp returns only where all
\* others return, whatever the order in which they run.
THEOREM AllOrNoneTheorem == RejSpec => []AllOrNone
<1>1. RejInv => AllOrNone
  <2> SUFFICES ASSUME RejInv, NEW v \in Warps, NEW w \in Warps, pc[v] = Returned
               PROVE  pc[w] <= Len(program)
    BY DEF AllOrNone
  <2>1. Control
    BY DEF RejInv
  <2>2. Stop <= Len(program)
    BY <2>1 DEF Control, Reached
  <2>3. Len(program) \in Nat /\ Stop \in Nat /\ Reach(w) \in Nat /\ Reach(w) <= Stop
    BY <2>1, ReachLemma
  <2>4. CASE pc[w] = Returned
    BY <2>3, <2>4 DEF Returned
  <2>5. CASE pc[w] # Returned
    <3>1. pc[w] = Reach(w)
      BY <2>5 DEF Reach
    <3> QED BY <2>2, <2>3, <3>1
  <2> QED BY <2>4, <2>5
<1> QED BY <1>1, RejInvTheorem, PTL

-----------------------------------------------------------------------------
\* A code behind which no hint is: all are counted.
LEMMA AtMostAll ==
  ASSUME Control, NEW e \in Nat
  PROVE  /\ CountIn(HintCodes, e) \in Nat /\ Cardinality(attempt.hints) \in Nat
         /\ CountIn(HintCodes, e) <= Cardinality(attempt.hints)
         /\ Cardinality(attempt.hints) = CountIn(HintCodes, Start(K))
<1> DEFINE top == Start(K)
<1>1. top \in Nat /\ \A x \in HintCodes : x \in Nat /\ x < top
  BY StartLemma, ChunksLemma, HintsLemma
<1>2. Cardinality(attempt.hints) = CountIn(HintCodes, Start(K))
  BY HintsLemma, NumberLemma DEF HintCodes
<1> HIDE DEF top
<1>3. CountIn(HintCodes, e) \in Nat /\ CountIn(HintCodes, top) \in Nat
  BY <1>1, CountLemma
<1>4. CASE e <= top
  <2>1. CountIn(HintCodes, e) <= CountIn(HintCodes, top)
    BY <1>1, <1>4, CountGrows
  <2> QED BY <1>2, <1>3, <2>1 DEF top
<1>5. CASE ~(e <= top)
  <2>1. ASSUME NEW x PROVE x \in Below(HintCodes, e) <=> x \in Below(HintCodes, top)
    BY <1>1, <1>5 DEF Below
  <2>2. Below(HintCodes, e) = Below(HintCodes, top)
    BY ONLY <2>1
  <2>3. CountIn(HintCodes, e) = CountIn(HintCodes, top)
    BY <2>2 DEF CountIn
  <2> QED BY <1>2, <1>3, <2>3 DEF top
<1> QED BY <1>4, <1>5

\* The kernel goes through to its end for the attempts it should.
LEMMA Decided ==
  ASSUME Control
  PROVE  Stop > Len(program) <=> attempt.failed = {} /\ Cardinality(attempt.hints) <= OMEGA
<1>1. Shape(kernel, program) /\ Warps = WarpsOf(kernel) /\ Len(program) \in Nat /\ Stop \in 1 .. Len(program) + 1
  BY ShapeLemma, ReachLemma DEF Control, Typed, Shape
<1>2. attempt.failed \subseteq CheckNames \X AllWarps /\ OMEGA \in Nat /\ Cardinality(attempt.hints) \in Nat
  <2>1. 0 \in Nat
    OBVIOUS
  <2> QED BY <2>1, HintsLemma, ChunksLemma, AtMostAll
<1>3. ASSUME Stop <= Len(program)
      PROVE  ~(attempt.failed = {} /\ Cardinality(attempt.hints) <= OMEGA)
  <2>1. Stops(program, attempt, Stop)
    BY <1>3, ReachLemma
  <2>2. CASE Rejects(program, attempt, Stop)
    BY <2>2 DEF Rejects, FailsCheck
  <2>3. CASE Exceeds(program, attempt, Stop)
    <3>1. PICK e : Limits(program, Stop, e) /\ CountIn(HintCodes, e) > OMEGA
      BY <2>3 DEF Exceeds, HintCodes
    <3>2. e \in Nat
      <4>1. ASSUME NEW c, NEW k, NEW half, IsHalf(program, c, k, half), e = HalfStart(k, half) + BlockDim
            PROVE  e \in Nat
        <5>1. HalfStart(k, half) \in Nat /\ BlockDim \in Nat
          BY <4>1, HalfLemma
        <5> QED BY <4>1, <5>1
      <4>2. ASSUME NEW k \in 0 .. K - 1, NEW i \in 0 .. Chunks - 1, e = ChunkStart(k, i) + Lanes
            PROVE  e \in Nat
        <5>1. k \in Nat
          OBVIOUS
        <5>2. ChunkStart(k, i) \in Nat
          BY <5>1, ChunkStartLemma
        <5> QED BY <4>2, <5>2, ChunksLemma
      <4> QED BY <3>1, <4>1, <4>2 DEF Limits
    <3>3. CountIn(HintCodes, e) \in Nat /\ CountIn(HintCodes, e) <= Cardinality(attempt.hints)
      BY <3>2, AtMostAll
    <3> QED BY <1>2, <3>1, <3>3
  <2> QED BY <2>1, <2>2, <2>3 DEF Stops
<1>4. ASSUME Stop > Len(program)
      PROVE  attempt.failed = {} /\ Cardinality(attempt.hints) <= OMEGA
  <2>1. \A p \in 1 .. Len(program) : ~Rejects(program, attempt, p) /\ ~Exceeds(program, attempt, p)
    <3>1. \A p \in 1 .. Len(program) : p \in 1 .. Stop - 1
      BY <1>1, <1>4
    <3> QED BY <3>1, ReachLemma DEF Stops
  <2>2. attempt.failed = {}
    <3> SUFFICES ASSUME NEW f \in attempt.failed PROVE FALSE
      OBVIOUS
    <3>1. PICK c \in CheckNames, part \in AllWarps : f = <<c, part>>
      BY <1>2
    <3>2. PICK q, p \in 1 .. Len(program) : q < p /\ program[q] = <<"vote", c>> /\ program[p] = <<"check">>
      BY <1>1 DEF Shape, Checked
    <3>3. FailsCheck(attempt, c)
      BY <3>1 DEF FailsCheck
    <3>4. q \in 1 .. p - 1 /\ program[p][1] = "check"
      BY <1>1, <3>2
    <3>5. Rejects(program, attempt, p)
      BY <3>2, <3>3, <3>4 DEF Rejects
    <3> QED BY <2>1, <3>5
  <2>3. Cardinality(attempt.hints) <= OMEGA
    <3>1. PICK p \in 1 .. Len(program) : Limits(program, p, Start(K))
      BY <1>1 DEF Shape, Complete
    <3>2. ~(CountIn(HintCodes, Start(K)) > OMEGA)
      BY <2>1, <3>1 DEF Exceeds, HintCodes
    <3>3. Cardinality(attempt.hints) = CountIn(HintCodes, Start(K))
      <4>1. 0 \in Nat
        OBVIOUS
      <4> QED BY <4>1, AtMostAll
    <3> QED BY <1>2, <3>2, <3>3
  <2> QED BY <2>2, <2>3
<1> QED BY <1>1, <1>3, <1>4

\* Every byte of the buffer belongs to a warp.
LEMMA BytesLemma ==
  ASSUME Control, NEW i \in HintBytes
  PROVE  \E w \in Warps : i \in Bytes(w)
<1> DEFINE n == Cardinality(Warps)
           m == Lanes * n
           r == i % m
           w == r \div Lanes
<1>1. Lanes \in Nat \ {0} /\ i \in Nat
  BY ChunksLemma DEF HintBytes
<1>2. n \in Nat \ {0} /\ Warps = 0 .. n - 1
  <2>1. NWarps \in Nat \ {0} /\ AllWarps = 0 .. NWarps - 1
    BY ChunksLemma DEF AllWarps
  <2>2. Warps = {0} \/ Warps = AllWarps
    BY DEF Warps
  <2>3. Cardinality(AllWarps) = NWarps
    <3>1. 0 \in Int /\ NWarps - 1 \in Int /\ ~(0 > NWarps - 1)
      BY <2>1
    <3>2. Cardinality(0 .. NWarps - 1) = (NWarps - 1) - 0 + 1
      BY <3>1, FS_Interval
    <3> QED BY <2>1, <3>2
  <2>4. Cardinality({0}) = 1 /\ {0} = 0 .. 1 - 1
    <3>1. Cardinality({0}) = 1
      BY FS_Singleton
    <3>2. ASSUME NEW x PROVE x \in {0} <=> x \in 0 .. 1 - 1
      OBVIOUS
    <3> QED BY <3>1, <3>2
  <2>5. CASE Warps = {0}
    BY <2>4, <2>5
  <2>6. CASE Warps = AllWarps
    BY <2>1, <2>3, <2>6
  <2> QED BY <2>2, <2>5, <2>6
<1>3. m \in Nat \ {0}
  <2> HIDE DEF n
  <2> QED BY <1>1, <1>2
<1>4. r \in 0 .. m - 1
  <2> HIDE DEF m
  <2> QED BY <1>1, <1>3
<1>5. w \in Nat /\ Lanes * w <= r
  <2> HIDE DEF r
  <2> QED BY <1>1, <1>3, <1>4
<1>6. w < n
  <2> HIDE DEF r, n, w
  <2>1. r < Lanes * n
    BY <1>3, <1>4
  <2>2. ASSUME ~(w < n) PROVE FALSE
    <3>1. w = n \/ n < w
      BY <1>2, <1>5, <2>2
    <3>2. Lanes * n \in Nat /\ Lanes * w \in Nat /\ (n < w => Lanes * n + Lanes <= Lanes * w)
      BY <1>1, <1>2, <1>5, Multiples
    <3>3. r \in Nat
      BY <1>3, <1>4
    <3> HIDE DEF m
    <3> QED BY <1>1, <1>5, <2>1, <3>1, <3>2, <3>3
  <2> QED BY <2>2
<1>7. w \in Warps
  <2> HIDE DEF w, n
  <2> QED BY <1>2, <1>5, <1>6
<1>8. i \in Bytes(w)
  BY DEF Bytes
<1> HIDE DEF w
<1> QED BY <1>7, <1>8

\* When rej_loop has ended, the attempt is done exactly when no check failed and
\* there are at most OMEGA hints, and then g_hint is their encoding, which the
\* verifier reads back; however the warps overtake each other.
THEOREM DecidesAttemptTheorem == RejSpec => []DecidesAttempt
<1>1. RejInv => DecidesAttempt
  <2> SUFFICES ASSUME RejInv, KernelEnded
               PROVE  /\ g_done = (attempt.failed = {} /\ Cardinality(attempt.hints) <= OMEGA)
                      /\ g_done => /\ g_hint = HintBitPack(attempt.hints)
                                   /\ HintsAccepted(g_hint) /\ HintsOf(g_hint) = attempt.hints
    BY DEF DecidesAttempt
  <2>1. Control /\ Copied /\ DoneSet
    BY DEF RejInv, Result
  <2>2. /\ Len(program) \in Nat /\ Stop \in 1 .. Len(program) + 1
        /\ \A w \in Warps : Reach(w) \in Nat /\ Reach(w) <= Stop
        /\ 0 \in Warps /\ g_done \in BOOLEAN
    BY <2>1, ReachLemma, ShapeLemma DEF Control, Typed
  <2>3. \A w \in Warps : Reach(w) = Stop /\ (Len(program) < Reach(w) <=> Len(program) < Stop)
    <3> TAKE w \in Warps
    <3>1. CASE pc[w] = Returned
      BY <3>1 DEF Reach
    <3>2. CASE pc[w] # Returned
      <4>1. Reach(w) = pc[w] /\ pc[w] > Len(program)
        BY <3>2 DEF Reach, KernelEnded, Ended
      <4> QED BY <2>2, <4>1
    <3> QED BY <3>1, <3>2
  <2>4. g_done <=> Len(program) < Stop
    BY <2>1, <2>2, <2>3 DEF DoneSet
  <2>5. g_done <=> attempt.failed = {} /\ Cardinality(attempt.hints) <= OMEGA
    BY <2>1, <2>2, <2>4, Decided
  <2>6. ASSUME g_done
        PROVE  /\ g_hint = HintBitPack(attempt.hints)
               /\ HintsAccepted(g_hint) /\ HintsOf(g_hint) = attempt.hints
    <3>1. \A i \in HintBytes : g_hint[i] = HintBitPack(attempt.hints)[i]
      <4> TAKE i \in HintBytes
      <4>1. PICK w \in Warps : i \in Bytes(w)
        BY <2>1, BytesLemma
      <4>2. Len(program) - 1 < Reach(w)
        BY <2>2, <2>3, <2>4, <2>6
      <4> QED BY <2>1, <4>1, <4>2 DEF Copied
    <3>2. g_hint = [i \in HintBytes |-> g_hint[i]]
      BY <2>1 DEF Control, Typed
    <3>3. g_hint = HintBitPack(attempt.hints)
      <4>1. HintBitPack(attempt.hints) = [i \in HintBytes |-> HintBitPack(attempt.hints)[i]]
        BY DEF HintBitPack
      <4> QED BY ONLY <3>1, <3>2, <4>1
    <3>4. attempt.hints \subseteq Hints /\ Cardinality(attempt.hints) <= OMEGA
      BY <2>1, <2>5, <2>6, HintsLemma
    <3>5. HintsAccepted(HintBitPack(attempt.hints)) /\ HintsOf(HintBitPack(attempt.hints)) = attempt.hints
      BY <3>4, HintEncodingTheorem
    <3> QED BY ONLY <3>3, <3>5
  <2> QED BY <2>2, <2>5, <2>6
<1> QED BY <1>1, RejInvTheorem, PTL

(***************************************************************************)
(* Rounding.                                                               *)
(***************************************************************************)
Modes == {2, 3, 5}

-----------------------------------------------------------------------------
(* The division by 2 * GAMMA2 of decompose, done with multiplications. *)

\* For modes 3 and 5 the quotient is the nearest one, up to 16.
LEMMA Rounded16 ==
  ASSUME NEW a \in Nat, a < 8380417,
         NEW b \in Int, 128 * b <= a + 127, a + 127 < 128 * b + 128,
         NEW q \in Int, 4194304 * q <= b * 1025 + 2097152,
                        b * 1025 + 2097152 < 4194304 * q + 4194304
  PROVE  0 <= q /\ q <= 16 /\ -261888 < a - q * 523776 /\ a - q * 523776 <= 261888
<1>1. 0 <= q /\ q <= 16
  OBVIOUS
<1>2. -261888 < a - q * 523776 /\ a - q * 523776 <= 261888
  BY <1>1
<1> QED BY <1>1, <1>2

\* For mode 2 it is the nearest one, up to 44.
LEMMA Rounded44 ==
  ASSUME NEW a \in Nat, a < 8380417,
         NEW b \in Int, 128 * b <= a + 127, a + 127 < 128 * b + 128,
         NEW q \in Int, 16777216 * q <= b * 11275 + 8388608,
                        b * 11275 + 8388608 < 16777216 * q + 16777216
  PROVE  0 <= q /\ q <= 44 /\ -95232 < a - q * 190464 /\ a - q * 190464 <= 95232
<1>1. 0 <= q /\ q <= 44
  OBVIOUS
<1>2. -95232 < a - q * 190464 /\ a - q * 190464 <= 95232
  BY <1>1
<1> QED BY <1>1, <1>2

\* What the comment above decompose promises of its two results.
Decomposes(d, a, r) ==
  /\ r.a1 \in Int /\ r.a0 \in Int
  /\ 0 <= r.a1 /\ r.a1 <= Highest(d)
  /\ \/ a = r.a1 * (2 * GAMMA2(d)) + r.a0 /\ -GAMMA2(d) < r.a0 /\ r.a0 <= GAMMA2(d)
     \/ r.a1 = 0 /\ a = r.a0 + DILITHIUM_Q /\ -GAMMA2(d) <= r.a0 /\ r.a0 < 0

\* decompose keeps the promise of its comment (rounding.cuh), for the three
\* parameter sets.
LEMMA DecomposeLemma ==
  ASSUME NEW d \in Modes, NEW a \in Nat, a < DILITHIUM_Q
  PROVE  Decomposes(d, a, decompose(d, a))
<1> DEFINE b == (a + 127) \div 128
<1>b. b \in Int /\ 128 * b <= a + 127 /\ a + 127 < 128 * b + 128
  OBVIOUS
<1>a. a < 8380417
  BY DEF DILITHIUM_Q
<1>1. CASE d = 2
  <2> DEFINE q == (b * 11275 + 8388608) \div 16777216
  <2> HIDE DEF b
  <2>1. /\ q \in Int /\ 16777216 * q <= b * 11275 + 8388608
        /\ b * 11275 + 8388608 < 16777216 * q + 16777216
    BY <1>b
  <2> HIDE DEF q
  <2>2. 0 <= q /\ q <= 44 /\ -95232 < a - q * 190464 /\ a - q * 190464 <= 95232
    BY <1>a, <1>b, <2>1, Rounded44
  <2> DEFINE a1 == IF q > 43 THEN 0 ELSE q
             a0 == a - a1 * 190464
  <2>3. decompose(d, a) = [a1 |-> a1, a0 |-> IF a0 > 4190208 THEN a0 - DILITHIUM_Q ELSE a0]
    BY <1>1 DEF decompose, GAMMA2, b, q
  <2>4. Decomposes(2, a, [a1 |-> a1, a0 |-> IF a0 > 4190208 THEN a0 - DILITHIUM_Q ELSE a0])
    BY <1>a, <2>1, <2>2 DEF Decomposes, GAMMA2, Highest, DILITHIUM_Q
  <2> QED BY <1>1, <2>3, <2>4
<1>2. CASE d # 2
  <2> DEFINE q == (b * 1025 + 2097152) \div 4194304
  <2> HIDE DEF b
  <2>1. /\ q \in Int /\ 4194304 * q <= b * 1025 + 2097152
        /\ b * 1025 + 2097152 < 4194304 * q + 4194304
    BY <1>b
  <2> HIDE DEF q
  <2>2. 0 <= q /\ q <= 16 /\ -261888 < a - q * 523776 /\ a - q * 523776 <= 261888
    BY <1>a, <1>b, <2>1, Rounded16
  <2> DEFINE a1 == q % 16
             a0 == a - a1 * 523776
  <2>3. decompose(d, a) = [a1 |-> a1, a0 |-> IF a0 > 4190208 THEN a0 - DILITHIUM_Q ELSE a0]
    BY <1>2 DEF decompose, GAMMA2, b, q
  <2>a. a1 \in Int /\ (q = 16 => a1 = 0) /\ (q < 16 => a1 = q)
    BY <2>1, <2>2
  <2>4. Decomposes(d, a, [a1 |-> a1, a0 |-> IF a0 > 4190208 THEN a0 - DILITHIUM_Q ELSE a0])
    <3> HIDE DEF a1
    <3> QED BY <1>2, <1>a, <2>1, <2>2, <2>a DEF Decomposes, GAMMA2, Highest, DILITHIUM_Q
  <2> QED BY <2>3, <2>4
<1> QED BY <1>1, <1>2

-----------------------------------------------------------------------------
(* Hints. *)

\* The verifier's number is the signer's high part and low register, modulo
\* Q; the hint made of them takes it back to the high part.
LEMMA UseHintLemma ==
  ASSUME NEW d \in Modes, NEW v \in Nat, v < DILITHIUM_Q,
         NEW hi \in Nat, hi <= Highest(d),
         NEW r \in Int, -2 * GAMMA2(d) < r, r < 2 * GAMMA2(d),
         NEW k \in Int, v = hi * (2 * GAMMA2(d)) + r + k * DILITHIUM_Q
  PROVE  use_hint(d, v, make_hint(d, r, hi)) = hi
<1> DEFINE v1 == decompose(d, v).a1
           v0 == decompose(d, v).a0
<1>0. Decomposes(d, v, decompose(d, v))
  BY DecomposeLemma
<1>1. /\ v1 \in Int /\ v0 \in Int
      /\ 0 <= v1 /\ v1 <= Highest(d)
      /\ \/ v = v1 * (2 * GAMMA2(d)) + v0 /\ -GAMMA2(d) < v0 /\ v0 <= GAMMA2(d)
         \/ v1 = 0 /\ v = v0 + DILITHIUM_Q /\ -GAMMA2(d) <= v0 /\ v0 < 0
  BY <1>0 DEF Decomposes
<1>2. use_hint(d, v, make_hint(d, r, hi))
        = IF ~make_hint(d, r, hi) THEN v1
          ELSE IF v0 > 0 THEN (IF v1 = Highest(d) THEN 0 ELSE v1 + 1)
          ELSE (IF v1 = 0 THEN Highest(d) ELSE v1 - 1)
  BY DEF use_hint
<1> HIDE DEF v1, v0
<1>3. CASE d = 2
  <2>1. k \in {-1, 0, 1}
    BY <1>3 DEF GAMMA2, Highest, DILITHIUM_Q
  <2> QED BY <1>1, <1>2, <1>3, <2>1 DEF make_hint, GAMMA2, Highest, DILITHIUM_Q
<1>4. CASE d # 2
  <2>1. k \in {-1, 0, 1}
    BY <1>4 DEF GAMMA2, Highest, DILITHIUM_Q
  <2> QED BY <1>1, <1>2, <1>4, <2>1 DEF make_hint, GAMMA2, Highest, DILITHIUM_Q
<1> QED BY <1>3, <1>4

-----------------------------------------------------------------------------
(* Representatives. *)

\* reduce32 takes away what the inverse transform leaves of Q.
LEMMA Reduce32Lemma ==
  ASSUME NEW x \in Int, -523776 <= x, x <= 523776, NEW k \in {-1, 0, 1}
  PROVE  reduce32(x + k * DILITHIUM_Q) = x
BY DEF reduce32, DILITHIUM_Q

\* caddq makes the representative the number itself.
LEMMA CaddqLemma ==
  ASSUME NEW x \in Nat, x < DILITHIUM_Q, NEW r \in Representatives(x)
  PROVE  caddq(r) = x
BY DEF caddq, Representatives, DILITHIUM_Q

\* The two parts of a coefficient of a key fit their fields of 10 and 13 bits.
LEMMA Power2roundLemma ==
  ASSUME NEW a \in Int, -4 <= a, a <= DILITHIUM_Q + 4
  PROVE  LET t == power2round(a)
         IN  /\ t.a1 \in Int /\ t.a0 \in Int
             /\ t.a1 % 1024 = t.a1 /\ 4096 - ((4096 - t.a0) % 8192) = t.a0
             /\ a = t.a1 * 8192 + t.a0
BY DEF power2round, DILITHIUM_Q

-----------------------------------------------------------------------------
(* The inductive invariant: at each stage the registers hold what the      *)
(* coefficient, the products and the checks passed so far determine.       *)

RoundingTypes ==
  /\ mode \in Modes /\ coeff \in Nat /\ coeff < DILITHIUM_Q
  /\ s2 \in Int /\ t0 \in Int /\ low \in Int /\ high \in Int /\ hint \in BOOLEAN

W == decompose(mode, coeff)
LowKept == -(GAMMA2(mode) - BETA(mode)) < W.a0 - s2 /\ W.a0 - s2 < GAMMA2(mode) - BETA(mode)
T0Kept == -GAMMA2(mode) < t0 /\ t0 < GAMMA2(mode)

Registers ==
  /\ stage \in {"w", "s2", "t0", "signed", "verified"} => high = W.a1
  /\ stage = "w" => low = W.a0
  /\ stage = "s2" => low = W.a0 - s2 /\ LowKept
  /\ stage \in {"t0", "signed"} => low = W.a0 - s2 + t0 /\ LowKept /\ T0Kept
  /\ stage = "signed" => hint = make_hint(mode, low, high)

RoundingInv == RoundingTypes /\ Registers /\ CoefficientsRecovered

LEMMA RoundingInitLemma == RoundingInit => RoundingInv
<1> SUFFICES ASSUME RoundingInit PROVE RoundingInv
  OBVIOUS
<1>1. coeff \in Nat /\ coeff < DILITHIUM_Q
  <2>1. coeff \in Coefficients /\ Coefficients \subseteq {x \in Nat : x < DILITHIUM_Q}
    BY CoefficientsAssumption DEF RoundingInit
  <2> QED BY <2>1
<1>2. RoundingTypes
  <2>1. hint \in BOOLEAN
    BY Zenon DEF RoundingInit
  <2>2. mode \in Modes /\ s2 \in Int /\ t0 \in Int /\ low \in Int /\ high \in Int
    BY DEF RoundingInit, Modes
  <2> QED BY <1>1, <2>1, <2>2 DEF RoundingTypes
<1>3. stage = "start"
  BY DEF RoundingInit
<1> QED BY <1>2, <1>3 DEF RoundingInv, Registers, CoefficientsRecovered

\* The signer's number is its high and its low part, up to Q.
LEMMA WLemma ==
  ASSUME RoundingTypes
  PROVE  /\ W.a1 \in Nat /\ W.a1 <= Highest(mode)
         /\ W.a0 \in Int /\ -GAMMA2(mode) <= W.a0 /\ W.a0 <= GAMMA2(mode)
         /\ \/ coeff = W.a1 * (2 * GAMMA2(mode)) + W.a0
            \/ coeff = W.a1 * (2 * GAMMA2(mode)) + W.a0 + DILITHIUM_Q
<1>1. Decomposes(mode, coeff, W)
  BY DecomposeLemma DEF RoundingTypes, W
<1>2. GAMMA2(mode) \in {95232, 261888}
  BY DEF GAMMA2
<1> QED BY <1>1, <1>2 DEF Decomposes, RoundingTypes, DILITHIUM_Q

-----------------------------------------------------------------------------
(* The invariant holds initially, and one lemma for each action.           *)

LEMMA RoundKeyLemma == RoundingInv /\ RoundKey => RoundingInv'
<1> SUFFICES ASSUME RoundingInv, RoundKey PROVE RoundingInv'
  OBVIOUS
<1>0. RoundingTypes /\ stage' = "key"
  BY DEF RoundingInv, RoundKey
<1>1. PICK r \in Representatives(coeff), e \in -ETA(mode) .. ETA(mode) :
        LET t == power2round(caddq(r + e))
        IN  s2' = e /\ high' = t.a1 % 1024 /\ low' = 4096 - ((4096 - t.a0) % 8192)
  BY DEF RoundKey
<1> DEFINE a == caddq(r + e)
           t == power2round(a)
<1>2. e \in Int /\ -4 <= e /\ e <= 4
  BY <1>1 DEF ETA
<1>3. /\ a \in Int /\ -4 <= a /\ a <= DILITHIUM_Q + 4
      /\ \E k \in {-1, 0, 1, 2} : a = coeff + e + k * DILITHIUM_Q
  BY <1>0, <1>1, <1>2 DEF RoundingTypes, caddq, Representatives, DILITHIUM_Q
<1>4. s2' = e /\ high' = t.a1 % 1024 /\ low' = 4096 - ((4096 - t.a0) % 8192)
  BY <1>1
<1> HIDE DEF a
<1>5. /\ t.a1 \in Int /\ t.a0 \in Int /\ high' = t.a1 /\ low' = t.a0
      /\ a = t.a1 * 8192 + t.a0
  BY <1>3, <1>4, Power2roundLemma
<1> HIDE DEF t
<1>k. PICK k \in {-1, 0, 1, 2} : a = coeff + e + k * DILITHIUM_Q
  BY <1>3
<1>6. (high' * 8192 + low' - (coeff + s2')) % DILITHIUM_Q = 0
  <2>1. high' * 8192 + low' - (coeff + s2') = k * DILITHIUM_Q
    BY <1>0, <1>2, <1>3, <1>4, <1>5, <1>k DEF RoundingTypes, DILITHIUM_Q
  <2>2. \A i \in {-1, 0, 1, 2} : (i * DILITHIUM_Q) % DILITHIUM_Q = 0
    BY DEF DILITHIUM_Q
  <2> QED BY <2>1, <2>2
<1>7. coeff' = coeff /\ mode' = mode /\ t0' = t0 /\ hint' = hint
  BY DEF RoundKey
<1>8. RoundingTypes'
  BY <1>0, <1>2, <1>4, <1>5, <1>7 DEF RoundingTypes
<1> QED BY <1>0, <1>6, <1>7, <1>8 DEF RoundingInv, Registers, CoefficientsRecovered

LEMMA ComputeWLemma == RoundingInv /\ ComputeW => RoundingInv'
<1> SUFFICES ASSUME RoundingInv, ComputeW PROVE RoundingInv'
  OBVIOUS
<1>1. RoundingTypes /\ stage' = "w" /\ UNCHANGED <<mode, coeff, s2, t0, hint>>
  BY DEF RoundingInv, ComputeW
<1>2. high' = W.a1 /\ low' = W.a0
  BY <1>1, CaddqLemma DEF ComputeW, RoundingTypes, W
<1>3. W' = W
  BY <1>1 DEF W
<1>4. RoundingTypes'
  BY <1>1, <1>2, WLemma DEF RoundingTypes
<1> QED BY <1>1, <1>2, <1>3, <1>4 DEF RoundingInv, Registers, CoefficientsRecovered

LEMMA SubtractS2Lemma == RoundingInv /\ SubtractS2 => RoundingInv'
<1> SUFFICES ASSUME RoundingInv, SubtractS2 PROVE RoundingInv'
  OBVIOUS
<1>1. /\ RoundingTypes /\ stage = "w" /\ high = W.a1 /\ low = W.a0
      /\ UNCHANGED <<mode, coeff, t0, high, hint>>
  BY DEF RoundingInv, Registers, SubtractS2
<1>p. PICK p \in Within(ProductsS2, BETA(mode)) :
        \E r \in Representatives(p) : s2' = p /\ low' = reduce32(low - r)
  BY DEF SubtractS2
<1>2. PICK r \in Representatives(p) : s2' = p /\ low' = reduce32(low - r)
  BY <1>p
<1>3. p \in Int /\ -196 <= p /\ p <= 196
  BY <1>p, CoefficientsAssumption DEF Within, BETA
<1>4. W.a0 \in Int /\ -261888 <= W.a0 /\ W.a0 <= 261888
  BY <1>1, WLemma DEF GAMMA2
<1>5. PICK k \in {-1, 0, 1} : low - r = (W.a0 - p) + k * DILITHIUM_Q
  BY <1>1, <1>2, <1>3, <1>4 DEF Representatives, DILITHIUM_Q
<1>6. low' = W.a0 - s2'
  BY <1>2, <1>3, <1>4, <1>5, Reduce32Lemma
<1>7. W' = W
  BY <1>1 DEF W
<1>8. RoundingTypes'
  BY <1>1, <1>2, <1>3, <1>4, <1>6 DEF RoundingTypes
<1>9. stage' = IF chknorm(GAMMA2(mode) - BETA(mode), low') THEN "rejected" ELSE "s2"
  BY DEF SubtractS2
<1>10. GAMMA2(mode) \in Int /\ BETA(mode) \in Int
  BY DEF GAMMA2, BETA
<1>11. stage' = "s2" => LowKept'
  BY <1>1, <1>2, <1>3, <1>4, <1>6, <1>7, <1>9, <1>10 DEF LowKept, chknorm
<1>12. stage' = "rejected" => chknorm(GAMMA2(mode) - BETA(mode), W.a0 - s2')
  BY <1>6, <1>9
<1> QED BY <1>1, <1>6, <1>7, <1>8, <1>9, <1>11, <1>12
         DEF RoundingInv, Registers, CoefficientsRecovered, W

LEMMA AddT0Lemma == RoundingInv /\ AddT0 => RoundingInv'
<1> SUFFICES ASSUME RoundingInv, AddT0 PROVE RoundingInv'
  OBVIOUS
<1>1. /\ RoundingTypes /\ stage = "s2" /\ high = W.a1 /\ low = W.a0 - s2 /\ LowKept
      /\ UNCHANGED <<mode, coeff, s2, high, hint>>
  BY DEF RoundingInv, Registers, AddT0
<1>p. PICK p \in Within(ProductsT0, TAU(mode) * 4096) :
        \E r \in Representatives(p) :
          LET ct0 == reduce32(r)
          IN  /\ t0' = p /\ low' = low + ct0
              /\ stage' = IF chknorm(GAMMA2(mode), ct0) THEN "rejected" ELSE "t0"
  BY DEF AddT0
<1>2. PICK r \in Representatives(p) :
        /\ t0' = p /\ low' = low + reduce32(r)
        /\ stage' = IF chknorm(GAMMA2(mode), reduce32(r)) THEN "rejected" ELSE "t0"
  BY <1>p
<1>3. p \in Int /\ -245760 <= p /\ p <= 245760
  BY <1>p, CoefficientsAssumption DEF Within, TAU
<1>5. PICK k \in {-1, 0, 1} : r = p + k * DILITHIUM_Q
  BY <1>2, <1>3 DEF Representatives, DILITHIUM_Q
<1>6. reduce32(r) = p
  BY <1>3, <1>5, Reduce32Lemma
<1>7. low' = W.a0 - s2 + t0' /\ W' = W
  BY <1>1, <1>2, <1>6 DEF W
<1>8. RoundingTypes'
  BY <1>1, <1>2, <1>3, <1>6 DEF RoundingTypes
<1>9. stage' = IF chknorm(GAMMA2(mode), t0') THEN "rejected" ELSE "t0"
  BY <1>2, <1>6
<1>10. GAMMA2(mode) \in Int
  BY DEF GAMMA2
<1>11. stage' = "t0" => T0Kept'
  BY <1>1, <1>2, <1>3, <1>9, <1>10 DEF T0Kept, chknorm
<1>12. LowKept'
  BY <1>1, <1>7 DEF LowKept
<1> QED BY <1>1, <1>7, <1>8, <1>9, <1>11, <1>12
         DEF RoundingInv, Registers, CoefficientsRecovered

LEMMA MakeHintLemma == RoundingInv /\ MakeHint => RoundingInv'
<1> SUFFICES ASSUME RoundingInv, MakeHint PROVE RoundingInv'
  OBVIOUS
<1>1. /\ RoundingTypes /\ stage = "t0" /\ stage' = "signed"
      /\ high = W.a1 /\ low = W.a0 - s2 + t0 /\ LowKept /\ T0Kept
      /\ hint' = make_hint(mode, low, high)
      /\ UNCHANGED <<mode, coeff, s2, t0, low, high>>
  BY DEF RoundingInv, Registers, MakeHint
<1>2. hint' \in BOOLEAN
  BY <1>1 DEF make_hint
<1>3. W' = W /\ LowKept' /\ T0Kept'
  BY <1>1 DEF W, LowKept, T0Kept
<1>4. RoundingTypes'
  BY <1>1, <1>2 DEF RoundingTypes
<1> QED BY <1>1, <1>3, <1>4 DEF RoundingInv, Registers, CoefficientsRecovered

LEMMA VerifyLemma == RoundingInv /\ Verify => RoundingInv'
<1> SUFFICES ASSUME RoundingInv, Verify PROVE RoundingInv'
  OBVIOUS
<1>1. /\ RoundingTypes /\ stage = "signed" /\ stage' = "verified"
      /\ high = W.a1 /\ low = W.a0 - s2 + t0 /\ LowKept /\ T0Kept
      /\ hint = make_hint(mode, low, high)
      /\ UNCHANGED <<mode, coeff, s2, t0, low, high, hint>>
  BY DEF RoundingInv, Registers, Verify
<1> DEFINE sum == coeff - s2 + t0
           v == sum % DILITHIUM_Q
           q == sum \div DILITHIUM_Q
<1>2. v \in Nat /\ v < DILITHIUM_Q /\ q \in Int /\ sum = q * DILITHIUM_Q + v
  BY <1>1 DEF RoundingTypes, DILITHIUM_Q
<1>3. w1prime' = use_hint(mode, v, hint)
  BY <1>2, CaddqLemma DEF Verify
<1>4. /\ W.a1 \in Nat /\ W.a1 <= Highest(mode) /\ W.a0 \in Int
      /\ \/ coeff = W.a1 * (2 * GAMMA2(mode)) + W.a0
         \/ coeff = W.a1 * (2 * GAMMA2(mode)) + W.a0 + DILITHIUM_Q
  BY <1>1, WLemma
<1> HIDE DEF v, q
<1>5. \E k \in Int : v = W.a1 * (2 * GAMMA2(mode)) + low + k * DILITHIUM_Q
  <2> DEFINE part == W.a1 * (2 * GAMMA2(mode))
  <2>0. part \in Int
    BY <1>4 DEF GAMMA2
  <2> HIDE DEF part
  <2>1. CASE coeff = part + W.a0
    <3>1. -q \in Int /\ v = part + low + (-q) * DILITHIUM_Q
      BY <1>1, <1>2, <1>4, <2>0, <2>1 DEF RoundingTypes, DILITHIUM_Q
    <3> QED BY <3>1 DEF part
  <2>2. CASE coeff = part + W.a0 + DILITHIUM_Q
    <3>1. 1 - q \in Int /\ v = part + low + (1 - q) * DILITHIUM_Q
      BY <1>1, <1>2, <1>4, <2>0, <2>2 DEF RoundingTypes, DILITHIUM_Q
    <3> QED BY <3>1 DEF part
  <2> QED BY <1>4, <2>1, <2>2 DEF part
<1>6. low \in Int /\ -2 * GAMMA2(mode) < low /\ low < 2 * GAMMA2(mode)
  BY <1>1, <1>4 DEF RoundingTypes, LowKept, T0Kept, GAMMA2, BETA
<1>7. w1prime' = high'
  BY <1>1, <1>2, <1>3, <1>4, <1>5, <1>6, UseHintLemma DEF RoundingTypes
<1>8. RoundingTypes' /\ W' = W
  BY <1>1 DEF RoundingTypes, W
<1> QED BY <1>1, <1>7, <1>8 DEF RoundingInv, Registers, CoefficientsRecovered

-----------------------------------------------------------------------------
(* A signature that passes the checks verifies, an attempt is given up     *)
(* only for its numbers, and a key keeps its coefficients (rounding.cuh).  *)
THEOREM CoefficientsRecoveredTheorem == RoundingSpec => []CoefficientsRecovered
<1>1. RoundingInv /\ [RoundingNext]_roundingVars => RoundingInv'
  <2> SUFFICES ASSUME RoundingInv, [RoundingNext]_roundingVars PROVE RoundingInv'
    OBVIOUS
  <2>1. CASE RoundingNext
    BY <2>1, RoundKeyLemma, ComputeWLemma, SubtractS2Lemma, AddT0Lemma, MakeHintLemma,
       VerifyLemma DEF RoundingNext
  <2>2. CASE UNCHANGED roundingVars
    <3>1. /\ UNCHANGED <<mode, stage, coeff, s2, t0, low, high, hint, w1prime>>
          /\ W' = W /\ LowKept' = LowKept /\ T0Kept' = T0Kept
      BY <2>2 DEF roundingVars, W, LowKept, T0Kept
    <3> QED BY <3>1 DEF RoundingInv, RoundingTypes, Registers, CoefficientsRecovered
  <2> QED BY <2>1, <2>2
<1>2. RoundingInv => CoefficientsRecovered
  BY DEF RoundingInv
<1> QED BY <1>1, <1>2, RoundingInitLemma, PTL DEF RoundingSpec

(***************************************************************************)
(* Sampling.                                                               *)
(***************************************************************************)
\* The names of the model, for the samples of one execution.
LEMMA NamesLemma ==
  /\ \A i : Nth(i) = NthIn(good, i)
  /\ \A m : Cardinality({s \in good : s < m}) = CountIn(good, m)
BY DEF Nth, NthIn, CountIn, Below

\* The first samples of the polynomial are the good ones below m.
Holds(G, p, m) == \A i \in 0 .. DILITHIUM_N - 1 : i < CountIn(G, m) => p[i] = NthIn(G, i)

SamplesType ==
  /\ \A x \in good : x \in Nat
  /\ round \in Nat
  /\ DOMAIN poly = 0 .. DILITHIUM_N - 1

LEMMA SizesLemma ==
  /\ WarpThreads \in Nat /\ Rounds \in Nat /\ DILITHIUM_N \in Nat /\ EtaRounds \in Nat
  /\ MatrixSamples \in Nat /\ MatrixSamples <= (Rounds + 1) * WarpThreads
  /\ \A r \in Nat : r * WarpThreads \in Nat /\ (r + 1) * WarpThreads = r * WarpThreads + WarpThreads
<1>1. WarpThreads \in Nat /\ Rounds \in Nat /\ EtaRounds \in Nat /\ MatrixSamples \in Nat
  BY SamplingAssumption
<1>2. \A r \in Nat : r * WarpThreads \in Nat /\ (r + 1) * WarpThreads = r * WarpThreads + WarpThreads
  BY <1>1
<1>3. DILITHIUM_N \in Nat /\ MatrixSamples <= DILITHIUM_N + WarpThreads
  BY <1>1, <1>2, SamplingAssumption DEF DILITHIUM_N
<1> QED BY <1>1, <1>2, <1>3 DEF DILITHIUM_N

\* Where a thread stores its sample is the number of good samples before it,
\* and a round takes in the good ones of its threads.
LEMMA StoredLemma ==
  ASSUME SamplesType, ctr = CountIn(good, round * WarpThreads)
  PROVE  /\ \A t \in GoodLanes : /\ Stored(t) = CountIn(good, round * WarpThreads + t)
                                 /\ ctr + Inclusive(t) = Stored(t) + 1
                                 /\ Stored(t) >= ctr
         /\ ctr + Cardinality(GoodLanes) = CountIn(good, (round + 1) * WarpThreads)
<1> DEFINE base == round * WarpThreads
           lanes == GoodLanes
<1>1. base \in Nat /\ (\A x \in good : x \in Nat) /\ WarpThreads \in Nat
      /\ (round + 1) * WarpThreads = base + WarpThreads
  BY SizesLemma DEF SamplesType
<1>2. lanes = LanesIn(good, base, WarpThreads)
  BY DEF GoodLanes, LanesIn
<1>0. ctr = CountIn(good, base)
  OBVIOUS
<1> HIDE DEF base, lanes
<1>3. \A t \in 0 .. WarpThreads :
        Cardinality(LanesBelow(good, base, WarpThreads, t))
          = CountIn(good, base + t) - CountIn(good, base)
  BY <1>1, LanesLemma
<1>4. ctr \in Nat
  BY <1>0, <1>1, CountLemma
<1>5. ASSUME NEW t \in lanes
      PROVE  /\ Inclusive(t) = CountIn(good, base + t) + 1 - ctr
             /\ CountIn(good, base + t) \in Nat /\ CountIn(good, base + t) >= ctr
  <2>1. t \in 0 .. WarpThreads - 1 /\ t + 1 \in 0 .. WarpThreads /\ base + t \in good
        /\ base + (t + 1) = (base + t) + 1 /\ base + t \in Nat /\ base <= base + t
    BY <1>1, <1>2 DEF LanesIn
  <2>2. \A u \in lanes : u <= t <=> u < t + 1
    BY <1>1, <1>2, <2>1 DEF LanesIn
  <2>6. {u \in lanes : u <= t} = LanesBelow(good, base, WarpThreads, t + 1)
    BY <1>2, <2>2 DEF LanesBelow
  <2>3. Inclusive(t) = Cardinality(LanesBelow(good, base, WarpThreads, t + 1))
    BY <2>6 DEF Inclusive, lanes
  <2>4. CountIn(good, base + (t + 1)) = CountIn(good, base + t) + 1 /\ CountIn(good, base + t) \in Nat
    BY <1>1, <2>1, CountLemma
  <2>5. CountIn(good, base + t) >= ctr
    BY <1>0, <1>1, <1>4, <2>1, <2>4, CountGrows
  <2> QED BY <1>0, <1>3, <1>4, <2>1, <2>3, <2>4, <2>5
<1>6. ctr + Cardinality(lanes) = CountIn(good, base + WarpThreads)
  <2>1. LanesBelow(good, base, WarpThreads, WarpThreads) = lanes /\ WarpThreads \in 0 .. WarpThreads
    BY <1>1, <1>2 DEF LanesBelow, LanesIn
  <2>2. Cardinality(lanes) = CountIn(good, base + WarpThreads) - CountIn(good, base)
    BY <1>3, <2>1
  <2>3. CountIn(good, base + WarpThreads) \in Nat
    <3>1. base + WarpThreads \in Nat
      BY <1>1
    <3> QED BY <1>1, <3>1, CountLemma
  <2> QED BY <1>0, <1>4, <2>2, <2>3
<1>7. \A t \in lanes : /\ Stored(t) = CountIn(good, base + t)
                       /\ ctr + Inclusive(t) = Stored(t) + 1 /\ Stored(t) >= ctr
  <2> TAKE t \in lanes
  <2>1. /\ Inclusive(t) = CountIn(good, base + t) + 1 - ctr
        /\ CountIn(good, base + t) \in Nat /\ CountIn(good, base + t) >= ctr
    BY <1>5
  <2> QED BY <1>4, <2>1 DEF Stored
<1>8. ctr + Cardinality(GoodLanes) = CountIn(good, (round + 1) * WarpThreads)
  BY <1>1, <1>6 DEF lanes
<1> QED BY <1>7, <1>8 DEF base, lanes

\* A vote stores the good samples of a round behind those of the rounds
\* before.
LEMMA CompactsLemma ==
  ASSUME SamplesType, ctr = CountIn(good, round * WarpThreads), Holds(good, poly, round * WarpThreads),
         Compacts
  PROVE  /\ Holds(good, poly', (round + 1) * WarpThreads)
         /\ DOMAIN poly' = 0 .. DILITHIUM_N - 1
<1> DEFINE base == round * WarpThreads
<1>1. base \in Nat /\ (\A x \in good : x \in Nat) /\ WarpThreads \in Nat /\ DILITHIUM_N \in Nat
      /\ (round + 1) * WarpThreads = base + WarpThreads
  BY SizesLemma DEF SamplesType
<1>2. \A t \in GoodLanes : /\ t \in 0 .. WarpThreads - 1 /\ base + t \in good
                           /\ Stored(t) = CountIn(good, base + t)
                           /\ ctr + Inclusive(t) = Stored(t) + 1
                           /\ Stored(t) >= ctr /\ Stored(t) \in Nat
  <2>1. \A t \in GoodLanes : t \in 0 .. WarpThreads - 1 /\ base + t \in good
    BY DEF GoodLanes
  <2>2. \A t \in GoodLanes : CountIn(good, base + t) \in Nat
    BY <1>1, <2>1, CountLemma
  <2> QED BY <2>1, <2>2, StoredLemma
<1>3. ctr = CountIn(good, base) /\ ctr \in Nat
  BY <1>1, CountLemma
<1>4. DOMAIN poly' = 0 .. DILITHIUM_N - 1
  BY DEF Compacts, SamplesType
<1>5. \A t \in 0 .. WarpThreads - 1 : base + t \in good => t \in GoodLanes
  BY DEF GoodLanes
<1>6. \A i \in 0 .. DILITHIUM_N - 1 :
        poly'[i] = IF \E t \in GoodLanes : ctr + Inclusive(t) <= DILITHIUM_N /\ Stored(t) = i
                   THEN base + (CHOOSE t \in GoodLanes : Stored(t) = i)
                   ELSE poly[i]
  BY DEF Compacts, SamplesType
<1>7. \A i \in 0 .. DILITHIUM_N - 1 : i < CountIn(good, base) => poly[i] = NthIn(good, i)
  BY DEF Holds
<1> HIDE DEF base
<1>8. ASSUME NEW i \in 0 .. DILITHIUM_N - 1, i < CountIn(good, base + WarpThreads)
      PROVE  poly'[i] = NthIn(good, i)
  <2>1. CASE i < ctr
    <3>1. ~ \E t \in GoodLanes : Stored(t) = i
      BY <1>2, <1>3, <2>1
    <3> QED BY <1>3, <1>6, <1>7, <2>1, <3>1
  <2>2. CASE ~(i < ctr)
    <3>1. PICK s \in good : s < base + WarpThreads /\ CountIn(good, s) = i
      <4>1. base + WarpThreads \in Nat /\ i \in Nat
        BY <1>1
      <4> QED BY <1>1, <1>8, <4>1, NthExists
    <3>2. s >= base
      <4> SUFFICES ASSUME s < base PROVE FALSE
        BY <1>1
      <4>1. CountIn(good, s) + 1 <= CountIn(good, base)
        BY <1>1, CountStrict
      <4> QED BY <1>3, <2>2, <3>1, <4>1
    <3>3. s - base \in GoodLanes /\ base + (s - base) = s
      <4>1. s \in Nat /\ s - base \in 0 .. WarpThreads - 1 /\ base + (s - base) = s
        BY <1>1, <3>1, <3>2
      <4> QED BY <1>5, <4>1
    <3>4. Stored(s - base) = i
      BY <1>2, <3>1, <3>3
    <3>5. \E t \in GoodLanes : ctr + Inclusive(t) <= DILITHIUM_N /\ Stored(t) = i
      BY <1>1, <1>2, <3>3, <3>4
    <3> DEFINE t == CHOOSE t \in GoodLanes : Stored(t) = i
    <3>6. t \in GoodLanes /\ Stored(t) = i
      BY <3>3, <3>4
    <3>7. poly'[i] = base + t
      BY <1>6, <3>5
    <3> HIDE DEF t
    <3>8. base + t \in good /\ CountIn(good, base + t) = i
      BY <1>2, <3>6
    <3>9. NthIn(good, i) = base + t
      BY <1>1, <3>8, NthLemma
    <3> QED BY <3>7, <3>9
  <2> QED BY <2>1, <2>2
<1>9. \A i \in 0 .. DILITHIUM_N - 1 :
        i < CountIn(good, (round + 1) * WarpThreads) => poly'[i] = NthIn(good, i)
  BY <1>1, <1>8
<1>10. Holds(good, poly', (round + 1) * WarpThreads)
  BY <1>9 DEF Holds
<1> QED BY <1>4, <1>10

\* When all samples of a round are good, counting is not needed.
LEMMA AllGoodLemma ==
  ASSUME SamplesType, ctr = CountIn(good, round * WarpThreads),
         Holds(good, poly, round * WarpThreads), AllGood
  PROVE  /\ Holds(good, poly', (round + 1) * WarpThreads)
         /\ DOMAIN poly' = 0 .. DILITHIUM_N - 1
         /\ ctr' = CountIn(good, (round + 1) * WarpThreads)
<1> DEFINE base == round * WarpThreads
<1>1. base \in Nat /\ (\A x \in good : x \in Nat) /\ WarpThreads \in Nat /\ DILITHIUM_N \in Nat
      /\ (round + 1) * WarpThreads = base + WarpThreads
  BY SizesLemma DEF SamplesType
<1>2. \A t \in 0 .. WarpThreads - 1 : base + t \in good
  <2>1. \A t \in GoodLanes : base + t \in good
    BY DEF GoodLanes
  <2> QED BY <2>1 DEF AllGood
<1>3. ctr = CountIn(good, base) /\ ctr \in Nat
  BY <1>1, CountLemma
<1>4. DOMAIN poly' = 0 .. DILITHIUM_N - 1
  BY DEF AllGood, SamplesType
<1>5. \A i \in 0 .. DILITHIUM_N - 1 :
        poly'[i] = IF i - ctr \in 0 .. WarpThreads - 1 THEN base + (i - ctr) ELSE poly[i]
  BY DEF AllGood, SamplesType
<1>6. \A i \in 0 .. DILITHIUM_N - 1 : i < CountIn(good, base) => poly[i] = NthIn(good, i)
  BY DEF Holds
<1>7. ctr' = ctr + WarpThreads
  BY DEF AllGood
<1> HIDE DEF base
<1>8. \A t \in 0 .. WarpThreads : CountIn(good, base + t) = ctr + t
  <2> DEFINE H == {t \in 0 .. WarpThreads : CountIn(good, base + t) = ctr + t}
  <2>1. 0 \in H
    <3>1. base + 0 = base
      BY <1>1
    <3> QED BY <1>1, <1>3, <3>1
  <2>2. \A t \in 0 .. WarpThreads - 1 : t \in H => t + 1 \in H
    <3> TAKE t \in 0 .. WarpThreads - 1
    <3>1. base + (t + 1) = (base + t) + 1 /\ base + t \in Nat /\ t + 1 \in 0 .. WarpThreads
      BY <1>1
    <3>2. base + t \in good
      BY <1>2
    <3>3. CountIn(good, (base + t) + 1) = CountIn(good, base + t) + 1
      BY <1>1, <3>1, <3>2, CountLemma
    <3> QED BY <1>3, <3>1, <3>3
  <2>3. \A t \in 0 .. WarpThreads : t \in H
    <3> HIDE DEF H
    <3> QED BY <1>1, <2>1, <2>2, IntervalInduction
  <2> QED BY <2>3
<1>9. \A i \in 0 .. DILITHIUM_N - 1 : i < CountIn(good, base + WarpThreads) => poly'[i] = NthIn(good, i)
  <2> SUFFICES ASSUME NEW i \in 0 .. DILITHIUM_N - 1, i < CountIn(good, base + WarpThreads)
               PROVE  poly'[i] = NthIn(good, i)
    OBVIOUS
  <2>1. WarpThreads \in 0 .. WarpThreads
    BY <1>1
  <2>2. i \in Nat /\ i < ctr + WarpThreads
    BY <1>1, <1>8, <2>1
  <2>3. CASE i < ctr
    <3>1. ~(i - ctr \in 0 .. WarpThreads - 1)
      BY <1>3, <2>2, <2>3
    <3> QED BY <1>3, <1>5, <1>6, <2>3, <3>1
  <2>4. CASE ~(i < ctr)
    <3>1. i - ctr \in 0 .. WarpThreads - 1 /\ i - ctr \in 0 .. WarpThreads
          /\ ctr + (i - ctr) = i
      BY <1>1, <1>3, <2>2, <2>4
    <3>2. base + (i - ctr) \in good /\ CountIn(good, base + (i - ctr)) = i
      BY <1>2, <1>8, <3>1
    <3>3. NthIn(good, i) = base + (i - ctr)
      BY <1>1, <3>2, NthLemma
    <3> QED BY <1>5, <3>1, <3>3
  <2> QED BY <2>3, <2>4
<1>10. ctr' = CountIn(good, base + WarpThreads)
  <2>1. WarpThreads \in 0 .. WarpThreads
    BY <1>1
  <2> QED BY <1>7, <1>8, <2>1
<1>11. Holds(good, poly', (round + 1) * WarpThreads)
  BY <1>1, <1>9 DEF Holds
<1> QED BY <1>1, <1>4, <1>10, <1>11

-----------------------------------------------------------------------------
\* The loop of Kyber takes the good samples of the blocks in order, until it
\* has len.
LEMMA LoopLemma ==
  ASSUME \A x \in good : x \in Nat, NEW len \in Nat, NEW n \in Nat, BlockSamples \in Nat
  PROVE  LET r == rej_uniform(len, 0, n)
             c == CountIn(good, n * BlockSamples)
         IN  /\ r \in Seq(Nat)
             /\ Len(r) = IF c < len THEN c ELSE len
             /\ \A i \in 1 .. Len(r) : r[i] = NthIn(good, i - 1)
<1> DEFINE T == n * BlockSamples
           V == Seq(Nat)
           step == [tp \in V \X (1 .. T) |->
                      IF tp[2] - 1 \in good /\ Len(tp[1]) < len
                      THEN Append(tp[1], tp[2] - 1) ELSE tp[1]]
<1>1. T \in Nat /\ 0 * BlockSamples = 0
  OBVIOUS
<1>2. << >> \in V /\ step \in [V \X (1 .. T) -> V]
  <2>1. ASSUME NEW t \in V, NEW p \in 1 .. T
        PROVE  (IF p - 1 \in good /\ Len(t) < len THEN Append(t, p - 1) ELSE t) \in V
    <3>1. p - 1 \in Nat
      BY <1>1
    <3> QED BY <3>1
  <2>2. \A tp \in V \X (1 .. T) :
          (IF tp[2] - 1 \in good /\ Len(tp[1]) < len
           THEN Append(tp[1], tp[2] - 1) ELSE tp[1]) \in V
    BY <2>1
  <2> QED BY <2>2
<1>3. \E f \in [0 .. T -> V] :
        f[0] = << >> /\ \A i \in 1 .. T : f[i] = step[<<f[i - 1], i>>]
  <2> DEFINE empty == << >>
  <2>1. empty \in V
    BY <1>2
  <2>3. T \in Nat
    BY <1>1
  <2>4. step \in [V \X (1 .. T) -> V]
    BY <1>2
  <2> HIDE DEF T, V, step, empty
  <2>2. \E f \in [0 .. T -> V] : Recursion(f, empty, step, T)
    BY ONLY <2>1, <2>3, <2>4, RecursiveFunction
  <2> QED BY <2>2 DEF empty, Recursion
<1> DEFINE Taken(f) ==
             f = [place \in 0 .. T |->
                    IF place = 0 THEN << >>
                    ELSE IF 0 * BlockSamples + place - 1 \in good /\ Len(f[place - 1]) < len
                         THEN Append(f[place - 1], 0 * BlockSamples + place - 1)
                         ELSE f[place - 1]]
           taken == CHOOSE f : Taken(f)
<1>4. rej_uniform(len, 0, n) = taken[T]
  BY DEF rej_uniform
<1>5. \E f : Taken(f)
  <2>1. PICK f \in [0 .. T -> V] :
          f[0] = << >> /\ \A i \in 1 .. T : f[i] = step[<<f[i - 1], i>>]
    BY <1>3
  <2>2. ASSUME NEW place \in 1 .. T
        PROVE  step[<<f[place - 1], place>>]
                 = IF 0 * BlockSamples + place - 1 \in good /\ Len(f[place - 1]) < len
                   THEN Append(f[place - 1], 0 * BlockSamples + place - 1)
                   ELSE f[place - 1]
    <3>1. place - 1 \in 0 .. T /\ 0 * BlockSamples + place - 1 = place - 1
      BY <1>1
    <3>2. f[place - 1] \in V /\ <<f[place - 1], place>> \in V \X (1 .. T)
      BY <3>1
    <3> QED BY <3>1, <3>2
  <2>3. Taken(f)
    <3>1. \A place \in 0 .. T : place # 0 => place \in 1 .. T
      BY <1>1
    <3>2. f = [place \in 0 .. T |-> f[place]]
      OBVIOUS
    <3> HIDE DEF T, V
    <3> QED BY <2>1, <2>2, <3>1, <3>2
  <2> QED BY <2>3
<1>6. Taken(taken)
  <2> HIDE DEF Taken
  <2> QED BY <1>5
<1>7. taken[0] = << >>
  <2> HIDE DEF T, taken
  <2>1. 0 \in 0 .. T
    BY <1>1
  <2> QED BY <1>6, <2>1
<1>8. \A p \in 0 .. T - 1 :
        taken[p + 1] = IF p \in good /\ Len(taken[p]) < len
                       THEN Append(taken[p], p) ELSE taken[p]
  <2> TAKE p \in 0 .. T - 1
  <2>1. p + 1 \in 0 .. T /\ p + 1 # 0 /\ (p + 1) - 1 = p /\ 0 * BlockSamples + (p + 1) - 1 = p
    BY <1>1
  <2> HIDE DEF T, taken
  <2> QED BY <1>6, <2>1
<1> HIDE DEF taken
<1> DEFINE Good(p) == /\ taken[p] \in V
                      /\ Len(taken[p]) = IF CountIn(good, p) < len THEN CountIn(good, p) ELSE len
                      /\ \A i \in 1 .. Len(taken[p]) : taken[p][i] = NthIn(good, i - 1)
           H == {p \in 0 .. T : Good(p)}
<1>9. 0 \in H
  <2>1. CountIn(good, 0) = 0
    BY CountLemma
  <2>2. 0 \in 0 .. T /\ << >> \in V /\ Len(<< >>) = 0
    BY <1>1, <1>2
  <2>3. CountIn(good, 0) < len \/ len = 0
    BY <2>1
  <2> HIDE DEF T, V
  <2> QED BY <1>7, <2>1, <2>2, <2>3
<1>10. \A p \in 0 .. T - 1 : p \in H => p + 1 \in H
  <2> TAKE p \in 0 .. T - 1
  <2> SUFFICES ASSUME Good(p) PROVE Good(p + 1) /\ p + 1 \in 0 .. T
    OBVIOUS
  <2>0. p \in Nat /\ p + 1 \in 0 .. T
    BY <1>1
  <2>1. CountIn(good, p) \in Nat
        /\ (p \in good => CountIn(good, p + 1) = CountIn(good, p) + 1)
        /\ (p \notin good => CountIn(good, p + 1) = CountIn(good, p))
    BY <2>0, CountLemma
  <2> HIDE DEF T
  <2>2. CASE p \in good /\ Len(taken[p]) < len
    <3>1. taken[p + 1] = Append(taken[p], p)
      BY <1>8, <2>2
    <3>2. Len(taken[p]) = CountIn(good, p)
      BY <2>1, <2>2
    <3>3. /\ Append(taken[p], p) \in V /\ Len(Append(taken[p], p)) = Len(taken[p]) + 1
          /\ \A i \in 1 .. Len(taken[p]) : Append(taken[p], p)[i] = taken[p][i]
          /\ Append(taken[p], p)[Len(taken[p]) + 1] = p
      BY <2>0
    <3>4. NthIn(good, CountIn(good, p)) = p
      BY <2>2, NthLemma
    <3>5. Len(taken[p + 1]) = IF CountIn(good, p + 1) < len THEN CountIn(good, p + 1) ELSE len
      BY <2>1, <2>2, <3>1, <3>2, <3>3
    <3>6. ASSUME NEW i \in 1 .. Len(taken[p + 1])
          PROVE  taken[p + 1][i] = NthIn(good, i - 1)
      <4>1. CASE i \in 1 .. Len(taken[p])
        BY <3>1, <3>3, <4>1
      <4>2. CASE i = Len(taken[p]) + 1
        <5>1. i - 1 = CountIn(good, p)
          BY <2>1, <3>2, <4>2
        <5> QED BY <3>1, <3>3, <3>4, <4>2, <5>1
      <4>3. i \in 1 .. Len(taken[p]) \/ i = Len(taken[p]) + 1
        BY <2>1, <3>1, <3>2, <3>3
      <4> QED BY <4>1, <4>2, <4>3
    <3> QED BY <2>0, <3>1, <3>3, <3>5, <3>6
  <2>3. CASE ~(p \in good /\ Len(taken[p]) < len)
    <3>1. taken[p + 1] = taken[p]
      BY <1>8, <2>3
    <3>2. Len(taken[p]) = IF CountIn(good, p + 1) < len THEN CountIn(good, p + 1) ELSE len
      BY <2>1, <2>3
    <3> QED BY <2>0, <3>1, <3>2
  <2> QED BY <2>2, <2>3
<1>11. \A p \in 0 .. T : p \in H
  <2> HIDE DEF T, H
  <2> QED BY <1>1, <1>9, <1>10, IntervalInduction
<1>12. Good(T)
  <2>1. T \in 0 .. T
    BY <1>1
  <2> QED BY <1>11, <2>1
<1> QED BY <1>4, <1>12

-----------------------------------------------------------------------------
\* What every sampler has stored: the warp all good samples of the rounds it
\* has made, the thread of Kyber those of the first blocks if they suffice.
SamplesInv ==
  /\ SamplesType
  /\ sampler \in {"matrix", "eta", "gen_matrix_n"}
  /\ sampler # "gen_matrix_n" => Holds(good, poly, round * WarpThreads)
  /\ sampler = "eta" => ctr = CountIn(good, round * WarpThreads)
  /\ sampler = "matrix" =>
       /\ round <= Rounds + 1
       /\ round <= Rounds => ctr = CountIn(good, round * WarpThreads)
  /\ sampler = "gen_matrix_n" =>
       \/ round = 0 /\ ctr = 0
       \/ /\ round # 0
          /\ CountIn(good, FirstBlocks * BlockSamples) >= DILITHIUM_N =>
               /\ ctr = DILITHIUM_N
               /\ Holds(good, poly, FirstBlocks * BlockSamples)

\* A vote keeps what holds of the samples.
LEMMA VoteLemma ==
  ASSUME SamplesType, ctr = CountIn(good, round * WarpThreads),
         Holds(good, poly, round * WarpThreads), Compacts,
         round' = round + 1, good' = good
  PROVE  SamplesType' /\ Holds(good', poly', round' * WarpThreads)
<1>1. Holds(good, poly', (round + 1) * WarpThreads) /\ DOMAIN poly' = 0 .. DILITHIUM_N - 1
  BY CompactsLemma
<1>2. SamplesType'
  BY <1>1 DEF SamplesType
<1> QED BY <1>1, <1>2

\* The invariant is inductive.
LEMMA SamplesInvariant == SamplingSpec => []SamplesInv
<1>1. SamplingInit => SamplesInv
  <2> SUFFICES ASSUME SamplingInit PROVE SamplesInv
    OBVIOUS
  <2>1. SamplesType
    BY DEF SamplingInit, SamplesType
  <2>2. 0 * WarpThreads = 0
    BY SizesLemma
  <2>3. CountIn(good, 0) = 0
    BY <2>1, CountLemma DEF SamplesType
  <2>4. round = 0 /\ ctr = 0 /\ sampler \in {"matrix", "eta", "gen_matrix_n"}
    BY DEF SamplingInit
  <2>5. Holds(good, poly, 0)
    BY <2>3, SizesLemma DEF Holds
  <2>6. round <= Rounds + 1
    BY <2>4, SizesLemma
  <2> QED BY <2>1, <2>2, <2>3, <2>4, <2>5, <2>6 DEF SamplesInv
<1>2. ASSUME SamplesInv, [SamplingNext]_samplingVars
      PROVE  SamplesInv'
  <2> USE <1>2
  <2>0. /\ SamplesType /\ round \in Nat /\ DOMAIN poly = 0 .. DILITHIUM_N - 1
        /\ Rounds \in Nat /\ DILITHIUM_N \in Nat
    BY SizesLemma DEF SamplesInv, SamplesType
  <2>1. CASE AllGood
    <3>1. sampler = "matrix" /\ sampler' = sampler /\ good' = good
          /\ round' = round + 1 /\ round <= Rounds /\ round' <= Rounds
      BY <2>0, <2>1 DEF AllGood
    <3>2. ctr = CountIn(good, round * WarpThreads) /\ Holds(good, poly, round * WarpThreads)
      BY <3>1 DEF SamplesInv
    <3>3. Holds(good, poly', (round + 1) * WarpThreads) /\ DOMAIN poly' = 0 .. DILITHIUM_N - 1
          /\ ctr' = CountIn(good, (round + 1) * WarpThreads)
      BY <2>0, <2>1, <3>2, AllGoodLemma
    <3>4. SamplesType'
      BY <2>0, <3>1, <3>3 DEF SamplesType
    <3>5. Holds(good', poly', round' * WarpThreads) /\ ctr' = CountIn(good', round' * WarpThreads)
      BY <3>1, <3>3
    <3>6. round' <= Rounds + 1 /\ sampler' = "matrix"
      BY <2>0, <3>1
    <3> QED BY <3>4, <3>5, <3>6 DEF SamplesInv
  <2>2. CASE SomeGood
    <3>1. sampler = "matrix" /\ sampler' = sampler /\ good' = good /\ Compacts
          /\ ctr' = ctr + Cardinality(GoodLanes)
          /\ round' = round + 1 /\ round <= Rounds /\ round' <= Rounds
      BY <2>0, <2>2 DEF SomeGood
    <3>2. ctr = CountIn(good, round * WarpThreads) /\ Holds(good, poly, round * WarpThreads)
      BY <3>1 DEF SamplesInv
    <3>3. SamplesType' /\ Holds(good', poly', round' * WarpThreads)
      BY <2>0, <3>1, <3>2, VoteLemma
    <3>4. ctr' = CountIn(good', round' * WarpThreads)
      BY <2>0, <3>1, <3>2, StoredLemma
    <3>5. round' <= Rounds + 1 /\ sampler' = "matrix"
      BY <2>0, <3>1
    <3> QED BY <3>3, <3>4, <3>5 DEF SamplesInv
  <2>3. CASE LastRound
    <3>1. sampler = "matrix" /\ sampler' = sampler /\ good' = good /\ Compacts
          /\ round' = round + 1 /\ round <= Rounds /\ round' = Rounds + 1
      BY <2>0, <2>3 DEF LastRound
    <3>2. ctr = CountIn(good, round * WarpThreads) /\ Holds(good, poly, round * WarpThreads)
      BY <3>1 DEF SamplesInv
    <3>3. SamplesType' /\ Holds(good', poly', round' * WarpThreads)
      BY <2>0, <3>1, <3>2, VoteLemma
    <3>4. round' <= Rounds + 1 /\ ~(round' <= Rounds) /\ sampler' = "matrix"
      BY <2>0, <3>1
    <3> QED BY <3>3, <3>4 DEF SamplesInv
  <2>4. CASE EtaRound
    <3>1. sampler = "eta" /\ sampler' = sampler /\ good' = good /\ Compacts
          /\ ctr' = ctr + Cardinality(GoodLanes) /\ round' = round + 1
      BY <2>4 DEF EtaRound
    <3>2. ctr = CountIn(good, round * WarpThreads) /\ Holds(good, poly, round * WarpThreads)
      BY <3>1 DEF SamplesInv
    <3>3. SamplesType' /\ Holds(good', poly', round' * WarpThreads)
      BY <2>0, <3>1, <3>2, VoteLemma
    <3>4. ctr' = CountIn(good', round' * WarpThreads)
      BY <2>0, <3>1, <3>2, StoredLemma
    <3> QED BY <3>1, <3>3, <3>4 DEF SamplesInv
  <2>5. CASE FirstSamples
    <3> DEFINE taken == rej_uniform(DILITHIUM_N, 0, FirstBlocks)
               c == CountIn(good, FirstBlocks * BlockSamples)
    <3>1. sampler = "gen_matrix_n" /\ sampler' = sampler /\ good' = good
          /\ round' = FirstBlocks /\ poly' = FromStart(taken) /\ ctr' = Len(taken)
      BY <2>5 DEF FirstSamples
    <3>2. FirstBlocks \in Nat /\ FirstBlocks # 0 /\ BlockSamples \in Nat
      BY SamplingAssumption
    <3>3. /\ taken \in Seq(Nat)
          /\ Len(taken) = IF c < DILITHIUM_N THEN c ELSE DILITHIUM_N
          /\ \A i \in 1 .. Len(taken) : taken[i] = NthIn(good, i - 1)
      <4>1. \A x \in good : x \in Nat
        BY <2>0 DEF SamplesType
      <4> QED BY <2>0, <3>2, <4>1, LoopLemma
    <3>4. c \in Nat
      <4>1. FirstBlocks * BlockSamples \in Nat
        BY <3>2
      <4> QED BY <2>0, <4>1, CountLemma DEF SamplesType
    <3> HIDE DEF taken
    <3>5. SamplesType'
      BY <2>0, <3>1, <3>2 DEF SamplesType, FromStart
    <3>6. ASSUME c >= DILITHIUM_N
          PROVE  ctr' = DILITHIUM_N /\ Holds(good, poly', FirstBlocks * BlockSamples)
      <4> HIDE DEF c
      <4>1. Len(taken) = DILITHIUM_N /\ DOMAIN taken = 1 .. DILITHIUM_N
        BY <2>0, <3>3, <3>4, <3>6
      <4>2. \A i \in 0 .. DILITHIUM_N - 1 : poly'[i] = NthIn(good, i)
        <5> TAKE i \in 0 .. DILITHIUM_N - 1
        <5>1. i + 1 \in 1 .. DILITHIUM_N /\ (i + 1) - 1 = i
          BY <2>0
        <5>2. poly'[i] = taken[i + 1]
          BY <2>0, <3>1, <4>1, <5>1 DEF FromStart
        <5> QED BY <3>3, <4>1, <5>1, <5>2
      <4> QED BY <3>1, <4>1, <4>2 DEF Holds
    <3> QED BY <3>1, <3>2, <3>5, <3>6 DEF SamplesInv
  <2>6. CASE MoreSamples
    <3>1. sampler = "gen_matrix_n" /\ sampler' = sampler /\ good' = good
          /\ round' = round + 1 /\ ctr < DILITHIUM_N /\ round # 0
          /\ DOMAIN poly' = DOMAIN poly
      <4>1. FirstBlocks \in Nat \ {0} /\ MoreBlocks \in Nat
        BY SamplingAssumption
      <4>2. round >= FirstBlocks
        BY <2>0, <2>6, <4>1 DEF MoreSamples
      <4> QED BY <2>0, <2>6, <4>1, <4>2 DEF MoreSamples, FromStart
    <3>2. ~(CountIn(good, FirstBlocks * BlockSamples) >= DILITHIUM_N)
      BY <2>0, <3>1 DEF SamplesInv
    <3>3. SamplesType'
      BY <2>0, <3>1 DEF SamplesType
    <3>4. round' # 0
      BY <2>0, <3>1
    <3> QED BY <3>1, <3>2, <3>3, <3>4 DEF SamplesInv
  <2>7. CASE UNCHANGED samplingVars
    BY <2>7 DEF samplingVars, SamplesInv, SamplesType
  <2> QED BY <2>1, <2>2, <2>3, <2>4, <2>5, <2>6, <2>7 DEF SamplingNext
<1> QED BY <1>1, <1>2, PTL DEF SamplingSpec

\* The warp, and the thread of Kyber, find the polynomial of the good samples
\* in their order when the buffer has enough of them, for a warp, a
\* polynomial and buffers of any size and any choice of good samples
\* (rej_uniform of sign.cu, verify.cu, keypair.cu and indcpa.cu).
THEOREM SamplesInOrderTheorem == SamplingSpec => []SamplesInOrder
<1>1. SamplesInv => SamplesInOrder
  <2> SUFFICES ASSUME SamplesInv, SamplingEnded, CountIn(good, Samples) >= DILITHIUM_N
               PROVE  \A i \in 0 .. DILITHIUM_N - 1 : poly[i] = NthIn(good, i)
    BY NamesLemma DEF SamplesInOrder
  <2>0. /\ \A x \in good : x \in Nat
        /\ round \in Nat /\ Rounds \in Nat /\ EtaRounds \in Nat /\ DILITHIUM_N \in Nat
        /\ WarpThreads \in Nat /\ Rounds \in Nat \ {0} /\ WarpThreads \in Nat \ {0}
    BY SizesLemma, SamplingAssumption DEF SamplesInv, SamplesType
  <2>1. ASSUME NEW m \in Nat, Holds(good, poly, m), CountIn(good, m) >= DILITHIUM_N
        PROVE  \A i \in 0 .. DILITHIUM_N - 1 : poly[i] = NthIn(good, i)
    <3>1. CountIn(good, m) \in Nat
      BY <2>0, CountLemma
    <3> QED BY <2>0, <2>1, <3>1 DEF Holds
  <2>2. round * WarpThreads \in Nat
    BY SizesLemma, <2>0
  <2>3. CASE sampler = "matrix"
    <3>1. Samples = MatrixSamples /\ MatrixSamples \in Nat
          /\ MatrixSamples <= (Rounds + 1) * WarpThreads
      BY <2>3, SizesLemma DEF Samples
    <3>2. Holds(good, poly, round * WarpThreads)
      BY <2>3 DEF SamplesInv
    <3>3. CASE round = Rounds /\ ctr >= DILITHIUM_N
      <4>1. CountIn(good, round * WarpThreads) >= DILITHIUM_N
        BY <2>0, <2>3, <3>3 DEF SamplesInv
      <4> QED BY <2>1, <2>2, <3>2, <4>1
    <3>4. CASE round > Rounds
      <4>1. round = Rounds + 1
        BY <2>0, <2>3, <3>4 DEF SamplesInv
      <4>2. MatrixSamples <= round * WarpThreads
        BY <3>1, <4>1
      <4>3. CountIn(good, MatrixSamples) <= CountIn(good, round * WarpThreads)
        BY <2>0, <2>2, <3>1, <4>2, CountGrows
      <4>4. CountIn(good, MatrixSamples) \in Nat /\ CountIn(good, round * WarpThreads) \in Nat
        BY <2>0, <2>2, <3>1, CountLemma
      <4>5. CountIn(good, round * WarpThreads) >= DILITHIUM_N
        BY <2>0, <3>1, <4>3, <4>4
      <4> QED BY <2>1, <2>2, <3>2, <4>5
    <3> QED BY <2>3, <3>3, <3>4 DEF SamplingEnded
  <2>4. CASE sampler = "eta"
    <3>1. Samples = EtaRounds * WarpThreads /\ ctr = CountIn(good, round * WarpThreads)
          /\ Holds(good, poly, round * WarpThreads)
      BY <2>4 DEF Samples, SamplesInv
    <3>2. CountIn(good, round * WarpThreads) >= DILITHIUM_N
      BY <2>4, <3>1 DEF SamplingEnded
    <3> QED BY <2>1, <2>2, <3>1, <3>2
  <2>5. CASE sampler = "gen_matrix_n"
    <3>1. Samples = FirstBlocks * BlockSamples /\ FirstBlocks * BlockSamples \in Nat
          /\ FirstBlocks + MoreBlocks # 0
      <4>1. FirstBlocks \in Nat \ {0} /\ BlockSamples \in Nat /\ MoreBlocks \in Nat
        BY SamplingAssumption
      <4> QED BY <2>5, <4>1 DEF Samples
    <3>2. ~(round = 0 /\ ctr = 0)
      <4>1. DILITHIUM_N # 0
        <5>1. Rounds * WarpThreads # 0
          BY <2>0
        <5> QED BY <5>1 DEF DILITHIUM_N
      <4> QED BY <2>0, <2>5, <3>1, <4>1 DEF SamplingEnded
    <3>3. Holds(good, poly, FirstBlocks * BlockSamples)
      BY <2>5, <3>1, <3>2 DEF SamplesInv
    <3> QED BY <2>1, <3>1, <3>3
  <2> QED BY <2>3, <2>4, <2>5 DEF SamplesInv
<1> QED BY <1>1, SamplesInvariant, PTL
=============================================================================
