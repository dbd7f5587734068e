----------------------------- MODULE HashProofs -----------------------------
(***************************************************************************)
(* The hash functions deliver the output that FIPS 202 defines, for every  *)
(* width of the state, every rate below it and all lengths of messages,    *)
(* outputs and of the pieces they come in.  Absorbed, Padded and Squeezed  *)
(* are the states that the definition asks for when n bytes are in, when   *)
(* the message is complete and when m bytes are out; each function is      *)
(* shown to lead from one of them to another.                              *)
(*                                                                         *)
(* The second part is about the functions that a warp executes.  The       *)
(* program of a call has a layout: its loads, permutations, stores and     *)
(* synchronizations are at known places, so that the place of a thread     *)
(* tells what it has done.  The threads with a lane are always between the *)
(* same two permutations, which bounds how far one thread is ahead of the  *)
(* input and the results of another.                                       *)
(*                                                                         *)
(* The third part is about the permutation.  Theta, rho with pi, and chi   *)
(* of FIPS 202 are written as functions of the index of a lane, and each   *)
(* implementation is shown to compute them in its layout.  That leaves the *)
(* tables: rotations and places belong to the walk of rho, and the round   *)
(* constants are the bits of the generator, which obey a recurrence.       *)
(***************************************************************************)
EXTENDS Keccak, Sponge, WarpSponge, Induction

-----------------------------------------------------------------------------
(* Places in blocks of r bytes.                                            *)
\* Quotient and remainder.
LEMMA DivFacts ==
  ASSUME NEW r \in Nat \ {0}, NEW n \in Nat
  PROVE  n \div r \in Nat /\ n % r \in 0 .. r - 1 /\ n = r * (n \div r) + (n % r)
OBVIOUS

\* There is one way to write a number with them.
LEMMA DivUnique ==
  ASSUME NEW r \in Nat \ {0}, NEW q \in Nat, NEW k \in 0 .. r - 1
  PROVE  (r * q + k) \div r = q /\ (r * q + k) % r = k
<1> DEFINE n == r * q + k
           d == n \div r
           m == n % r
<1>1. r * q \in Nat /\ n \in Nat
  OBVIOUS
<1>2. d \in Nat /\ m \in 0 .. r - 1 /\ n = r * d + m
  BY ONLY <1>1, r \in Nat \ {0}, DivFacts
<1>3. r * q + k = r * d + m
  BY <1>2
<1> HIDE DEF n, d, m
<1>4. ~(q < d)
  <2> SUFFICES ASSUME q < d PROVE FALSE
    OBVIOUS
  <2>1. r * q + r <= r * d
    BY ONLY <1>2, r \in Nat, q \in Nat, q < d, Multiples
  <2> QED BY <1>1, <1>2, <1>3, <2>1
<1>5. ~(d < q)
  <2> SUFFICES ASSUME d < q PROVE FALSE
    OBVIOUS
  <2>1. r * d + r <= r * q
    BY ONLY <1>2, r \in Nat, q \in Nat, d < q, Multiples
  <2> QED BY <1>1, <1>2, <1>3, <2>1
<1>6. d = q
  BY <1>2, <1>4, <1>5
<1>7. m = k
  BY <1>2, <1>3, <1>6
<1> QED BY <1>6, <1>7 DEF n, d, m

\* The next place is in the same block, or the first of the next one.
LEMMA DivStep ==
  ASSUME NEW r \in Nat \ {0}, NEW n \in Nat
  PROVE  IF (n % r) + 1 = r
         THEN (n + 1) \div r = n \div r + 1 /\ (n + 1) % r = 0
         ELSE (n + 1) \div r = n \div r /\ (n + 1) % r = (n % r) + 1
<1> DEFINE q == n \div r
           k == n % r
<1>1. q \in Nat /\ k \in 0 .. r - 1 /\ n = r * q + k
  BY DivFacts
<1> HIDE DEF q, k
<1>2. CASE k + 1 = r
  <2>1. q + 1 \in Nat /\ 0 \in 0 .. r - 1 /\ r * (q + 1) + 0 = n + 1
    BY <1>1, <1>2
  <2>2. (r * (q + 1) + 0) \div r = q + 1 /\ (r * (q + 1) + 0) % r = 0
    BY ONLY <2>1, r \in Nat \ {0}, DivUnique
  <2> QED BY <1>2, <2>1, <2>2 DEF q, k
<1>3. CASE k + 1 # r
  <2>1. k + 1 \in 0 .. r - 1 /\ r * q + (k + 1) = n + 1
    BY <1>1, <1>3
  <2>2. (r * q + (k + 1)) \div r = q /\ (r * q + (k + 1)) % r = k + 1
    BY ONLY <1>1, <2>1, r \in Nat \ {0}, DivUnique
  <2> QED BY <1>3, <2>1, <2>2 DEF q, k
<1> QED BY <1>2, <1>3

-----------------------------------------------------------------------------
(* What is in the state.                                                   *)
Places == 0 .. StateBytes - 1
Rates == 2 .. StateBytes - 1

\* A whole block of the message, and the bytes of it behind the last one.
WholeBlock(r, k) == [p \in Places |-> IF p < r THEN {r * (k - 1) + p + 1} ELSE {}]
Started(r, n) == [p \in Places |-> IF p < n % r THEN {r * (n \div r) + p + 1} ELSE {}]
WholeBlocks(r, n) == [k \in 1 .. n \div r |-> WholeBlock(r, k)]

\* The state when n bytes are absorbed.
Absorbed(r, n) == [base |-> WholeBlocks(r, n), add |-> Started(r, n)]

LEMMA RateFacts ==
  /\ StateBytes \in Nat /\ MaxIn \in Nat /\ MaxOut \in Nat
  /\ SHAKE128_RATE \in Rates /\ SHAKE256_RATE \in Rates /\ SHA3_512_RATE \in Rates
  /\ \A r \in Rates : r \in Nat \ {0} /\ r > 1 /\ r < StateBytes /\ \A p \in 0 .. r - 1 : p \in Places
BY RatesAssumption DEF Rates, Places

\* A longer sequence by one element.
LEMMA Extended ==
  ASSUME NEW S, NEW f \in Seq(S), NEW x \in S, NEW g \in Seq(S), Len(g) = Len(f) + 1,
         \A k \in 1 .. Len(f) : g[k] = f[k], g[Len(f) + 1] = x
  PROVE  Append(f, x) = g
<1>1. Append(f, x) \in Seq(S) /\ Len(Append(f, x)) = Len(g)
  OBVIOUS
<1>2. \A k \in 1 .. Len(g) : Append(f, x)[k] = g[k]
  OBVIOUS
<1> QED BY <1>1, <1>2

LEMMA AppendBlock ==
  ASSUME NEW r, NEW a \in Nat
  PROVE  Append([k \in 1 .. a |-> WholeBlock(r, k)], WholeBlock(r, a + 1))
           = [k \in 1 .. a + 1 |-> WholeBlock(r, k)]
<1> DEFINE S == {WholeBlock(r, k) : k \in Nat}
           f == [k \in 1 .. a |-> WholeBlock(r, k)]
           g == [k \in 1 .. a + 1 |-> WholeBlock(r, k)]
           x == WholeBlock(r, a + 1)
<1>1. f \in Seq(S) /\ Len(f) = a /\ g \in Seq(S) /\ Len(g) = a + 1 /\ x \in S
  OBVIOUS
<1>2. \A k \in 1 .. a : g[k] = f[k]
  OBVIOUS
<1>3. g[a + 1] = x
  OBVIOUS
<1> HIDE DEF f, g, x, S
<1> QED BY <1>1, <1>2, <1>3, Extended DEF f, g, x

\* One byte is added.
WithByte(A, i, c) == [p \in Places |-> IF p = i THEN SymDiff(A[p], c) ELSE A[p]]

LEMMA XorByte ==
  ASSUME NEW B, NEW A, NEW i \in Int, NEW c
  PROVE  Xor([base |-> B, add |-> A], i, <<c>>) = [base |-> B, add |-> WithByte(A, i, c)]
<1>1. \A p \in Places : p \in i .. i + Len(<<c>>) - 1 <=> p = i
  BY RateFacts DEF Places
<1>2. \A p \in Places : p = i => <<c>>[p - i + 1] = c
  OBVIOUS
<1> DEFINE st == [base |-> B, add |-> A]
           new == [p \in Places |-> IF p \in i .. i + Len(<<c>>) - 1
                                    THEN SymDiff(A[p], <<c>>[p - i + 1]) ELSE A[p]]
<1>3. new = WithByte(A, i, c)
  BY ONLY <1>1, <1>2 DEF WithByte
<1>4. st.add = A /\ \A x : [st EXCEPT !.add = x] = [base |-> B, add |-> x]
  OBVIOUS
<1>5. Xor(st, i, <<c>>) = [st EXCEPT !.add = new]
  BY ONLY <1>4 DEF Xor, Places
<1> HIDE DEF st, new
<1>6. Xor(st, i, <<c>>) = [base |-> B, add |-> new]
  BY ONLY <1>4, <1>5
<1> QED BY ONLY <1>3, <1>6 DEF st

LEMMA AbsorbStep ==
  ASSUME NEW r \in Rates, NEW n \in Nat
  PROVE  AbsorbByte([s |-> Absorbed(r, n), pos |-> n % r], r, {n + 1})
           = [s |-> Absorbed(r, n + 1), pos |-> (n + 1) % r]
<1> DEFINE q == n \div r
           m == n % r
           A == WithByte(Started(r, n), m, {n + 1})
           W == WholeBlocks(r, n)
<1>0. r \in Nat \ {0} /\ \A p \in 0 .. r - 1 : p \in Places
  BY RateFacts
<1>1. q \in Nat /\ m \in 0 .. r - 1 /\ n = r * q + m
  BY <1>0, DivFacts
<1>2. Xor(Absorbed(r, n), m, <<{n + 1}>>) = [base |-> W, add |-> A]
  <2>1. m \in Int
    BY <1>1
  <2> HIDE DEF m
  <2> QED BY ONLY <2>1, XorByte DEF Absorbed
<1>3. A = [p \in Places |-> IF p < m + 1 THEN {r * q + p + 1} ELSE {}]
  <2>1. ASSUME NEW p \in Places
        PROVE  A[p] = IF p < m + 1 THEN {r * q + p + 1} ELSE {}
    <3>0. p \in Nat
      BY RateFacts DEF Places
    <3>1. Started(r, n)[p] = IF p < m THEN {r * q + p + 1} ELSE {}
      BY DEF Started
    <3>4. A[p] = IF p = m THEN SymDiff(Started(r, n)[p], {n + 1}) ELSE Started(r, n)[p]
      BY DEF WithByte
    <3>2. CASE p = m
      <4>1. SymDiff({}, {n + 1}) = {n + 1}
        BY DEF SymDiff
      <4>2. Started(r, n)[p] = {}
        BY <3>1, <3>2, <1>1
      <4>3. n + 1 = r * q + p + 1 /\ p < m + 1
        BY <3>2, <1>1
      <4> QED BY <3>2, <3>4, <4>1, <4>2, <4>3
    <3>3. CASE p # m
      <4>1. p < m + 1 <=> p < m
        BY <3>0, <3>3, <1>1
      <4>2. A[p] = Started(r, n)[p]
        BY <3>3, <3>4
      <4> HIDE DEF A, m, q
      <4> QED BY <3>1, <4>1, <4>2
    <3> QED BY <3>2, <3>3
  <2>2. A = [p \in Places |-> A[p]]
    BY DEF WithByte
  <2> HIDE DEF m, q, A
  <2> QED BY <2>1, <2>2
<1>4. CASE m + 1 = r
  <2>1. (n + 1) \div r = q + 1 /\ (n + 1) % r = 0
    BY ONLY <1>0, <1>4, n \in Nat, DivStep
  <2>2. A = WholeBlock(r, q + 1)
    <3>1. (q + 1) - 1 = q
      BY <1>1
    <3> HIDE DEF A, m, q
    <3> QED BY <1>3, <1>4, <3>1 DEF WholeBlock
  <2>3. Started(r, n + 1) = Blank
    <3>1. \A p \in Places : ~(p < 0)
      BY RateFacts DEF Places
    <3> HIDE DEF q
    <3> QED BY <2>1, <3>1 DEF Started, Blank, Places
  <2>4. Append(W, WholeBlock(r, q + 1)) = WholeBlocks(r, n + 1)
    <3> HIDE DEF q
    <3>1. W = [k \in 1 .. q |-> WholeBlock(r, k)]
      BY DEF WholeBlocks, q
    <3>2. WholeBlocks(r, n + 1) = [k \in 1 .. q + 1 |-> WholeBlock(r, k)]
      BY <2>1 DEF WholeBlocks
    <3> HIDE DEF W
    <3> QED BY <1>1, <3>1, <3>2, AppendBlock
  <2> HIDE DEF A, W, q, m
  <2>5. KeccakF1600_StatePermute([base |-> W, add |-> A]) = Absorbed(r, n + 1)
    BY <2>2, <2>3, <2>4 DEF KeccakF1600_StatePermute, Absorbed
  <2> QED BY <1>2, <1>4, <2>1, <2>5 DEF AbsorbByte, m
<1>5. CASE m + 1 # r
  <2>1. (n + 1) \div r = q /\ (n + 1) % r = m + 1
    BY ONLY <1>0, <1>5, n \in Nat, DivStep
  <2>2. Started(r, n + 1) = A
    <3> HIDE DEF A, m, q
    <3> QED BY <1>3, <2>1 DEF Started
  <2>3. W = WholeBlocks(r, n + 1)
    <3> HIDE DEF m
    <3> QED BY <2>1 DEF WholeBlocks
  <2> HIDE DEF A, W, q, m
  <2>4. [base |-> W, add |-> A] = Absorbed(r, n + 1)
    BY <2>2, <2>3 DEF Absorbed
  <2> QED BY <1>2, <1>5, <2>1, <2>4 DEF AbsorbByte, m
<1> QED BY <1>4, <1>5

\* Two functions that agree at first, and agree at i when they do before it.
LEMMA SameValues ==
  ASSUME NEW n \in Nat, NEW f, NEW g, g[0] = f[0],
         \A i \in 1 .. n : g[i - 1] = f[i - 1] => g[i] = f[i]
  PROVE  \A i \in 0 .. n : g[i] = f[i]
<1> DEFINE H == {i \in 0 .. n : g[i] = f[i]}
<1>1. 0 \in H
  OBVIOUS
<1>2. \A i \in 0 .. n - 1 : i \in H => i + 1 \in H
  <2> TAKE i \in 0 .. n - 1
  <2> HAVE i \in H
  <2>1. i + 1 \in 1 .. n /\ (i + 1) - 1 = i /\ g[i] = f[i] /\ i + 1 \in 0 .. n
    OBVIOUS
  <2> QED BY <2>1
<1>3. \A i \in 0 .. n : i \in H
  <2> HIDE DEF H
  <2> QED BY <1>1, <1>2, IntervalInduction
<1> QED BY <1>3

\* keccak_absorb goes on where the last call ended.
LEMMA AbsorbLemma ==
  ASSUME NEW r \in Rates, NEW m \in Nat, NEW n \in Nat
  PROVE  keccak_absorb(Absorbed(r, m), m % r, r, [i \in 1 .. n |-> {m + i}])
           = [s |-> Absorbed(r, m + n), pos |-> (m + n) % r]
<1> DEFINE in == [i \in 1 .. n |-> {m + i}]
           start == [s |-> Absorbed(r, m), pos |-> m % r]
           State(i) == [s |-> Absorbed(r, m + i), pos |-> (m + i) % r]
           Is(h) == h = [i \in 0 .. n |-> IF i = 0 THEN start ELSE AbsorbByte(h[i - 1], r, in[i])]
           f == [i \in 0 .. n |-> State(i)]
           g == CHOOSE h : Is(h)
<1>1. Len(in) = n
  OBVIOUS
<1>2. \A i \in 1 .. n : AbsorbByte(State(i - 1), r, in[i]) = State(i)
  <2> TAKE i \in 1 .. n
  <2>1. m + (i - 1) \in Nat /\ (m + (i - 1)) + 1 = m + i /\ in[i] = {(m + (i - 1)) + 1}
    OBVIOUS
  <2> HIDE DEF in
  <2> QED BY <2>1, AbsorbStep
<1>3. State(0) = start
  <2>1. m + 0 = m
    OBVIOUS
  <2> QED BY ONLY <2>1
<1> HIDE DEF State, start, in
<1>4. Is(f)
  <2>1. \A i \in 0 .. n : i # 0 => i \in 1 .. n /\ i - 1 \in 0 .. n
    OBVIOUS
  <2>2. \A i \in 0 .. n : State(i) = IF i = 0 THEN start ELSE AbsorbByte(f[i - 1], r, in[i])
    BY ONLY <1>2, <1>3, <2>1
  <2> QED BY ONLY <2>2
<1>5. Is(g)
  <2> HIDE DEF Is
  <2> QED BY ONLY <1>4
<1>6. \A i \in 0 .. n : g[i] = IF i = 0 THEN start ELSE AbsorbByte(g[i - 1], r, in[i])
  <2> HIDE DEF g
  <2> QED BY ONLY <1>5
<1>7. keccak_absorb(Absorbed(r, m), m % r, r, in) = g[n]
  BY ONLY <1>1 DEF keccak_absorb, g, Is, start
<1> HIDE DEF g, Is
<1>8. g[0] = f[0]
  BY ONLY n \in Nat, <1>3, <1>6
<1>9. \A i \in 1 .. n : g[i - 1] = f[i - 1] => g[i] = f[i]
  <2>1. \A i \in 1 .. n : i \in 0 .. n /\ i - 1 \in 0 .. n /\ i # 0
    OBVIOUS
  <2> QED BY ONLY <2>1, <1>2, <1>6
<1>10. g[n] = f[n]
  <2>1. n \in 0 .. n
    OBVIOUS
  <2> HIDE DEF f
  <2> QED BY ONLY n \in Nat, <2>1, <1>8, <1>9, SameValues
<1>11. f[n] = State(n)
  OBVIOUS
<1> QED BY <1>7, <1>10, <1>11 DEF State, in

-----------------------------------------------------------------------------
(* The padding.                                                            *)
SuffixSymbols == {SHAKE, SHA3}

\* The state when the message of n bytes is complete.
Padded(r, sfx, n) ==
  [base |-> WholeBlocks(r, n), add |-> PaddedBlock(r, sfx, n, (n \div r) + 1)]

\* The last block of the padded message.
LEMMA LastBlock ==
  ASSUME NEW r \in Rates, NEW sfx, NEW n \in Nat, NEW p \in Places
  PROVE  PaddedBlock(r, sfx, n, (n \div r) + 1)[p] =
           IF p < r
           THEN (IF p < n % r THEN {r * (n \div r) + p + 1} ELSE IF p = n % r THEN {sfx} ELSE {})
                \cup (IF p = r - 1 THEN {PadEnd} ELSE {})
           ELSE {}
<1> DEFINE q == n \div r
           m == n % r
           P == PaddedBlock(r, sfx, n, q + 1)
<1>0. r \in Nat \ {0} /\ p \in Nat
  BY RateFacts DEF Places
<1>1. q \in Nat /\ m \in 0 .. r - 1 /\ n = r * q + m
  BY <1>0, DivFacts
<1>2. P[p] = IF p < r THEN PaddedByte(r, sfx, n, r * ((q + 1) - 1) + p) ELSE {}
  BY DEF PaddedBlock, Places
<1>3. r * ((q + 1) - 1) + p = r * q + p /\ r * q \in Nat /\ r * q + p \in Nat
  BY <1>0, <1>1
<1>4. (r * q + p < n <=> p < m) /\ (r * q + p = n <=> p = m)
      /\ (r * q + p = r * (n \div r) + r - 1 /\ r * q + p >= n <=> p = r - 1)
  BY <1>0, <1>1, <1>3
<1> HIDE DEF P, q, m
<1>5. PaddedByte(r, sfx, n, r * q + p) =
        (IF p < m THEN {r * q + p + 1} ELSE IF p = m THEN {sfx} ELSE {})
        \cup (IF p = r - 1 THEN {PadEnd} ELSE {})
  BY ONLY <1>4 DEF PaddedByte
<1> QED BY <1>2, <1>3, <1>5 DEF P, q, m

\* Both symbols may be added to the same byte.
LEMMA FinalizeLemma ==
  ASSUME NEW r \in Rates, NEW sfx \in SuffixSymbols, NEW n \in Nat
  PROVE  keccak_finalize(Absorbed(r, n), n % r, r, sfx) = Padded(r, sfx, n)
<1> DEFINE q == n \div r
           m == n % r
           A == Started(r, n)
           A1 == WithByte(A, m, {sfx})
           A2 == WithByte(A1, r - 1, {PadEnd})
           P == PaddedBlock(r, sfx, n, q + 1)
<1>0. r \in Nat \ {0} /\ \A p \in 0 .. r - 1 : p \in Places
  BY RateFacts
<1>1. q \in Nat /\ m \in 0 .. r - 1 /\ n = r * q + m
  BY <1>0, DivFacts
<1>2. m \in Int /\ r - 1 \in Int
  BY <1>0, <1>1
<1>3. keccak_finalize(Absorbed(r, n), m, r, sfx) = [base |-> WholeBlocks(r, n), add |-> A2]
  <2> DEFINE last == r - 1
             blocks == WholeBlocks(r, n)
  <2>0. m \in Int /\ last \in Int
    BY <1>2
  <2> HIDE DEF m, last, blocks, A, A1, A2
  <2>1. Xor([base |-> blocks, add |-> A], m, <<{sfx}>>) = [base |-> blocks, add |-> WithByte(A, m, {sfx})]
    BY ONLY <2>0, XorByte
  <2>2. Xor([base |-> blocks, add |-> A1], last, <<{PadEnd}>>)
          = [base |-> blocks, add |-> WithByte(A1, last, {PadEnd})]
    BY ONLY <2>0, XorByte
  <2> QED BY ONLY <2>1, <2>2 DEF keccak_finalize, Absorbed, A, A1, A2, last, blocks
<1>4. ASSUME NEW p \in Places
      PROVE  A2[p] = P[p]
  <2>0. p \in Nat
    BY RateFacts DEF Places
  <2>1. A[p] = IF p < m THEN {r * q + p + 1} ELSE {}
    BY DEF Started
  <2>2. P[p] = IF p < r
               THEN (IF p < m THEN {r * q + p + 1} ELSE IF p = m THEN {sfx} ELSE {})
                    \cup (IF p = r - 1 THEN {PadEnd} ELSE {})
               ELSE {}
    BY LastBlock
  <2>5. A1[p] = IF p = m THEN SymDiff(A[p], {sfx}) ELSE A[p]
    BY DEF WithByte
  <2>6. A2[p] = IF p = r - 1 THEN SymDiff(A1[p], {PadEnd}) ELSE A1[p]
    <3> HIDE DEF A1
    <3> QED BY DEF WithByte
  <2>7. sfx # PadEnd
    BY DEF SuffixSymbols, SHAKE, SHA3, PadEnd
  <2>8. /\ SymDiff({}, {sfx}) = {sfx} /\ SymDiff({}, {PadEnd}) = {PadEnd}
        /\ SymDiff({sfx}, {PadEnd}) = {sfx} \cup {PadEnd}
    BY <2>7 DEF SymDiff
  <2>9. (p = m => ~(p < m) /\ p < r) /\ (p = r - 1 => p < r /\ ~(p < m))
        /\ (~(p < r) => ~(p < m) /\ p # r - 1) /\ (p < m => p < r)
    BY <1>0, <1>1, <2>0
  <2> HIDE DEF A, A1, A2, P, q, m
  <2>10. CASE ~(p < r)
    BY <2>1, <2>2, <2>5, <2>6, <2>9, <2>10
  <2>11. CASE p < m
    BY <2>1, <2>2, <2>5, <2>6, <2>9, <2>11
  <2>12. CASE ~(p < m) /\ p < r
    BY <2>1, <2>2, <2>5, <2>6, <2>8, <2>9, <2>12
  <2> QED BY <2>9, <2>10, <2>11, <2>12
<1>5. A2 = P
  <2>1. A2 = [p \in Places |-> A2[p]]
    <3> HIDE DEF A1
    <3> QED BY DEF WithByte
  <2>2. P = [p \in Places |-> P[p]]
    BY DEF PaddedBlock, Places
  <2> HIDE DEF A2, P
  <2> QED BY ONLY <2>1, <2>2, <1>4
<1> HIDE DEF A2, q, m
<1> QED BY <1>3, <1>5 DEF Padded, q, m

\* The blocks of the padded message, as the reference has them.
AllBlocks(r, sfx, n) == [k \in 1 .. (n \div r) + 1 |-> PaddedBlock(r, sfx, n, k)]

LEMMA AllBlocksLemma ==
  ASSUME NEW r \in Rates, NEW sfx \in SuffixSymbols, NEW n \in Nat
  PROVE  Append(WholeBlocks(r, n), PaddedBlock(r, sfx, n, (n \div r) + 1)) = AllBlocks(r, sfx, n)
<1> DEFINE q == n \div r
           P(k) == PaddedBlock(r, sfx, n, k)
           f == WholeBlocks(r, n)
           g == AllBlocks(r, sfx, n)
           S == {P(k) : k \in Nat} \cup {WholeBlock(r, k) : k \in Nat}
<1>0. r \in Nat \ {0}
  BY RateFacts
<1>1. q \in Nat /\ n % r \in 0 .. r - 1 /\ n = r * q + (n % r)
  BY <1>0, DivFacts
<1>2. ASSUME NEW k \in 1 .. q
      PROVE  P(k) = WholeBlock(r, k)
  <2>1. ASSUME NEW p \in Places, p < r
        PROVE  PaddedByte(r, sfx, n, r * (k - 1) + p) = {r * (k - 1) + p + 1}
    <3>0. p \in Nat
      BY RateFacts DEF Places
    <3>1. k - 1 \in Nat /\ q \in Nat /\ k - 1 < q
      BY <1>1
    <3>2. r * (k - 1) + r <= r * q /\ r * (k - 1) \in Nat /\ r * q \in Nat
      BY ONLY r \in Nat \ {0}, <1>0, <3>1, Multiples
    <3>3. r * (k - 1) + p < n
      <4> HIDE DEF q
      <4> QED BY <1>0, <1>1, <2>1, <3>0, <3>2
    <3>4. ~(r * (k - 1) + p >= n)
      BY <3>0, <3>2, <3>3
    <3> QED BY ONLY <3>3, <3>4 DEF PaddedByte
  <2> QED BY <2>1 DEF PaddedBlock, WholeBlock, Places
<1>3. f \in Seq(S) /\ Len(f) = q /\ g \in Seq(S) /\ Len(g) = q + 1 /\ P(q + 1) \in S
  <2>1. f = [k \in 1 .. q |-> WholeBlock(r, k)] /\ g = [k \in 1 .. q + 1 |-> P(k)]
    BY DEF WholeBlocks, AllBlocks
  <2>2. q + 1 \in Nat
    BY <1>1
  <2> HIDE DEF q, f, g, P
  <2> QED BY <1>1, <2>1, <2>2
<1>4. (\A k \in 1 .. q : g[k] = f[k]) /\ g[q + 1] = P(q + 1)
  <2>1. f = [k \in 1 .. q |-> WholeBlock(r, k)] /\ g = [k \in 1 .. q + 1 |-> P(k)]
    BY DEF WholeBlocks, AllBlocks
  <2> HIDE DEF q, f, g, P
  <2> QED BY <1>1, <1>2, <2>1
<1> HIDE DEF q, f, g, P, S
<1>5. Append(f, P(q + 1)) = g
  BY ONLY <1>3, <1>4, Extended
<1> QED BY <1>5 DEF f, g, P, q

-----------------------------------------------------------------------------
(* The output.                                                             *)
\* The state after the permutation that begins block b of the output.
Blanks(b) == [k \in 1 .. b |-> Blank]
Permuted(r, sfx, n, b) == [base |-> AllBlocks(r, sfx, n) \o Blanks(b), add |-> Blank]

\* State and place when m bytes have been squeezed.
Squeezed(r, sfx, n, m) ==
  IF m = 0 THEN Padded(r, sfx, n) ELSE Permuted(r, sfx, n, (m - 1) \div r)
SqueezedPos(r, m) == IF m = 0 THEN r ELSE ((m - 1) % r) + 1

LEMMA AllBlocksType ==
  ASSUME NEW r \in Rates, NEW sfx, NEW n \in Nat
  PROVE  \E S : AllBlocks(r, sfx, n) \in Seq(S) /\ Blank \in S
<1> DEFINE q == (n \div r) + 1
           S == {PaddedBlock(r, sfx, n, k) : k \in Nat} \cup {Blank}
<1>1. q \in Nat
  <2>1. r \in Nat \ {0}
    BY RateFacts
  <2>2. n \div r \in Nat
    BY ONLY <2>1, n \in Nat, DivFacts
  <2> QED BY ONLY <2>2
<1>2. AllBlocks(r, sfx, n) = [k \in 1 .. q |-> PaddedBlock(r, sfx, n, k)]
  BY DEF AllBlocks
<1> HIDE DEF q
<1>3. AllBlocks(r, sfx, n) \in Seq(S)
  BY <1>1, <1>2
<1> QED BY <1>3

LEMMA PermutePadded ==
  ASSUME NEW r \in Rates, NEW sfx \in SuffixSymbols, NEW n \in Nat
  PROVE  KeccakF1600_StatePermute(Padded(r, sfx, n)) = Permuted(r, sfx, n, 0)
<1>1. PICK S : AllBlocks(r, sfx, n) \in Seq(S)
  BY AllBlocksType
<1>2. Blanks(0) = << >>
  BY DEF Blanks
<1> DEFINE f == AllBlocks(r, sfx, n)
<1>3. f \o Blanks(0) = f
  <2> HIDE DEF f
  <2> QED BY ONLY <1>1, <1>2 DEF f
<1> QED BY <1>3, AllBlocksLemma DEF KeccakF1600_StatePermute, Padded, Permuted

LEMMA PermuteAgain ==
  ASSUME NEW r \in Rates, NEW sfx, NEW n \in Nat, NEW b \in Nat
  PROVE  KeccakF1600_StatePermute(Permuted(r, sfx, n, b)) = Permuted(r, sfx, n, b + 1)
<1>1. PICK S : AllBlocks(r, sfx, n) \in Seq(S) /\ Blank \in S
  BY AllBlocksType
<1> DEFINE f == AllBlocks(r, sfx, n)
           x == Blank
<1>2. /\ Blanks(b) \in Seq(S) /\ Len(Blanks(b)) = b
      /\ Blanks(b + 1) \in Seq(S) /\ Len(Blanks(b + 1)) = b + 1
      /\ \A k \in 1 .. b + 1 : Blanks(b + 1)[k] = x
      /\ \A k \in 1 .. b : Blanks(b)[k] = x
  <2> HIDE DEF x
  <2> QED BY <1>1 DEF Blanks, x
<1> HIDE DEF f, x
<1>3. Append(f \o Blanks(b), x) = f \o Blanks(b + 1)
  <2> DEFINE c == f \o Blanks(b)
             d == f \o Blanks(b + 1)
  <2>0. f \in Seq(S) /\ x \in S
    BY <1>1 DEF f, x
  <2>1. IsJoined(c, S, f, Blanks(b), Len(f), b) /\ IsJoined(d, S, f, Blanks(b + 1), Len(f), b + 1)
    BY ONLY <1>2, <2>0, Joined
  <2> HIDE DEF c, d
  <2>2. c \in Seq(S) /\ d \in Seq(S) /\ Len(d) = Len(c) + 1 /\ Len(c) = Len(f) + b /\ Len(f) \in Nat
    BY ONLY <2>0, <2>1, b \in Nat DEF IsJoined
  <2>3. \A k \in 1 .. Len(c) : d[k] = c[k]
    <3> TAKE k \in 1 .. Len(c)
    <3>1. CASE k \in 1 .. Len(f)
      BY ONLY <2>1, <3>1 DEF IsJoined
    <3>2. CASE k \notin 1 .. Len(f)
      <4> DEFINE j == k - Len(f)
      <4>1. j \in 1 .. b /\ j \in 1 .. b + 1 /\ k = Len(f) + j
        BY <2>2, <3>2
      <4> HIDE DEF j
      <4>2. d[Len(f) + j] = x /\ c[Len(f) + j] = x
        BY ONLY <1>2, <2>1, <4>1 DEF IsJoined
      <4> QED BY <4>1, <4>2
    <3> QED BY <3>1, <3>2
  <2>4. d[Len(c) + 1] = x
    <3>1. b + 1 \in 1 .. b + 1 /\ Len(c) + 1 = Len(f) + (b + 1)
      BY <2>2
    <3> QED BY ONLY <1>2, <2>1, <3>1 DEF IsJoined
  <2>5. Append(c, x) = d
    BY ONLY <2>0, <2>2, <2>3, <2>4, Extended
  <2> QED BY <2>5 DEF c, d
<1> QED BY <1>3 DEF KeccakF1600_StatePermute, Permuted, f, x

\* A byte of the reference in these terms.
LEMMA ReferenceByte ==
  ASSUME NEW r, NEW sfx, NEW n, NEW j
  PROVE  XofByte(r, sfx, n, j) = [base |-> AllBlocks(r, sfx, n) \o Blanks((j - 1) \div r),
                                  at |-> (j - 1) % r, add |-> {}]
BY DEF XofByte, AllBlocks, Blanks

\* Bytes of one block continue the output.
LEMMA OutputGrows ==
  ASSUME NEW r \in Rates, NEW sfx, NEW n \in Nat, NEW m \in Nat,
         NEW l \in Nat, (m % r) + l <= r
  PROVE  XofBytes(r, sfx, n, m) \o Bytes(Permuted(r, sfx, n, m \div r), m % r, l)
           = XofBytes(r, sfx, n, m + l)
<1> DEFINE b == m \div r
           i == m % r
           OutXof(j) == XofByte(r, sfx, n, j)
           f == XofBytes(r, sfx, n, m)
           h == Bytes(Permuted(r, sfx, n, b), i, l)
           g == XofBytes(r, sfx, n, m + l)
           S == {OutXof(j) : j \in Nat}
<1>0. r \in Nat \ {0} /\ \A p \in 0 .. r - 1 : p \in Places
  BY RateFacts
<1>1. m \in Nat /\ b \in Nat /\ i \in 0 .. r - 1 /\ m = r * b + i /\ i + l <= r
  BY <1>0, DivFacts
<1> HIDE DEF b, i
<1>2. \A j \in 1 .. l : h[j] = OutXof(m + j)
  <2> TAKE j \in 1 .. l
  <2> DEFINE k == i + j - 1
  <2>1. k \in 0 .. r - 1 /\ (m + j) - 1 = r * b + k
    BY <1>0, <1>1
  <2>2. ((m + j) - 1) \div r = b /\ ((m + j) - 1) % r = k
    <3> HIDE DEF k
    <3> QED BY ONLY <1>0, <1>1, <2>1, DivUnique
  <2>3. h[j] = [base |-> AllBlocks(r, sfx, n) \o Blanks(b), at |-> k, add |-> Blank[k]]
    BY DEF Bytes, Permuted
  <2>4. Blank[k] = {}
    <3> HIDE DEF k
    <3> QED BY <1>0, <2>1 DEF Blank, Places
  <2>5. OutXof(m + j) = [base |-> AllBlocks(r, sfx, n) \o Blanks(b), at |-> k, add |-> {}]
    <3> HIDE DEF k
    <3> DEFINE e == m + j
               d == (e - 1) \div r
               o == (e - 1) % r
    <3>1. d = b /\ o = k
      BY <2>2
    <3>2. OutXof(e) = [base |-> AllBlocks(r, sfx, n) \o Blanks(d), at |-> o, add |-> {}]
      <4> HIDE DEF e
      <4> QED BY ReferenceByte DEF OutXof
    <3> HIDE DEF d, o, e
    <3>3. OutXof(e) = [base |-> AllBlocks(r, sfx, n) \o Blanks(b), at |-> k, add |-> {}]
      BY ONLY <3>1, <3>2
    <3> QED BY <3>3 DEF e
  <2> HIDE DEF h, k, OutXof
  <2> QED BY <2>3, <2>4, <2>5
<1>3. f = [j \in 1 .. m |-> OutXof(j)] /\ g = [j \in 1 .. m + l |-> OutXof(j)] /\ h = [j \in 1 .. l |-> OutXof(m + j)]
  <2>1. f = [j \in 1 .. m |-> OutXof(j)] /\ g = [j \in 1 .. m + l |-> OutXof(j)]
    BY DEF XofBytes
  <2>2. h = [j \in 1 .. l |-> h[j]]
    BY DEF Bytes
  <2>3. h = [j \in 1 .. l |-> OutXof(m + j)]
    <3> HIDE DEF h, OutXof
    <3> QED BY ONLY <2>2, <1>2
  <2> QED BY <2>1, <2>3
<1> HIDE DEF f, g, h, OutXof
<1>4. f \in Seq(S) /\ Len(f) = m /\ g \in Seq(S) /\ Len(g) = m + l /\ h \in Seq(S) /\ Len(h) = l
  <2>1. f \in Seq(S) /\ Len(f) = m
    BY ONLY m \in Nat, <1>3
  <2>2. m + l \in Nat /\ \A j \in 1 .. l : m + j \in Nat
    BY <1>1
  <2>3. g \in Seq(S) /\ Len(g) = m + l
    <3> DEFINE M == m + l
    <3>1. M \in Nat /\ g = [j \in 1 .. M |-> OutXof(j)]
      BY <1>3, <2>2
    <3> HIDE DEF M
    <3>2. g \in Seq(S) /\ Len(g) = M
      BY ONLY <3>1
    <3> QED BY <3>2 DEF M
  <2>4. h \in Seq(S) /\ Len(h) = l
    <3>1. h = [j \in 1 .. l |-> OutXof(m + j)] /\ \A j \in 1 .. l : OutXof(m + j) \in S
      BY ONLY <1>3, <2>2
    <3> HIDE DEF S
    <3> QED BY ONLY <3>1, l \in Nat
  <2> QED BY <2>1, <2>3, <2>4
<1> HIDE DEF S
<1>5. IsJoined(f \o h, S, f, h, m, l)
  BY ONLY <1>4, Joined
<1>6. \A j \in 1 .. m + l : (f \o h)[j] = g[j]
  <2> TAKE j \in 1 .. m + l
  <2>1. CASE j \in 1 .. m
    BY ONLY <1>3, <1>5, <2>1, j \in 1 .. m + l DEF IsJoined
  <2>2. CASE j \notin 1 .. m
    <3>1. j - m \in 1 .. l /\ j = m + (j - m)
      BY <1>1, <2>2
    <3>2. (f \o h)[m + (j - m)] = h[j - m]
      BY ONLY <1>5, <3>1 DEF IsJoined
    <3>3. h[j - m] = OutXof(m + (j - m))
      BY ONLY <1>3, <3>1
    <3> QED BY <1>3, <3>1, <3>2, <3>3
  <2> QED BY <2>1, <2>2
<1>7. f \o h = g
  <2> DEFINE c == f \o h
  <2>1. c \in Seq(S) /\ Len(c) = m + l /\ m + l \in Nat
    BY <1>1, <1>5 DEF IsJoined
  <2>2. \A j \in 1 .. Len(g) : c[j] = g[j]
    BY <1>4, <1>6
  <2> HIDE DEF c
  <2>3. c = g
    BY ONLY <1>4, <2>1, <2>2
  <2> QED BY <2>3 DEF c
<1> QED BY <1>7 DEF f, g, h, b, i

\* Where a block of output is used up, the next one begins ...
LEMMA NextBlock ==
  ASSUME NEW r \in Rates, NEW sfx \in SuffixSymbols, NEW n \in Nat, NEW m \in Nat,
         SqueezedPos(r, m) = r
  PROVE  /\ m % r = 0
         /\ KeccakF1600_StatePermute(Squeezed(r, sfx, n, m)) = Permuted(r, sfx, n, m \div r)
<1>0. r \in Nat \ {0}
  BY RateFacts
<1>1. CASE m = 0
  <2>1. r * 0 + 0 = 0 /\ 0 \in 0 .. r - 1
    BY <1>0
  <2>2. (r * 0 + 0) \div r = 0 /\ (r * 0 + 0) % r = 0
    BY ONLY <1>0, <2>1, 0 \in Nat, DivUnique
  <2>3. m \div r = 0 /\ m % r = 0
    BY ONLY <1>1, <2>1, <2>2
  <2>4. Squeezed(r, sfx, n, m) = Padded(r, sfx, n)
    BY ONLY <1>1 DEF Squeezed
  <2> QED BY <2>3, <2>4, PermutePadded
<1>2. CASE m # 0
  <2> DEFINE c == m - 1
  <2>1. c \in Nat /\ c + 1 = m
    BY <1>2
  <2>2. (c % r) + 1 = r /\ Squeezed(r, sfx, n, m) = Permuted(r, sfx, n, c \div r)
    BY <1>2 DEF SqueezedPos, Squeezed
  <2> HIDE DEF c
  <2>3. (c + 1) \div r = (c \div r) + 1 /\ (c + 1) % r = 0 /\ c \div r \in Nat
    BY ONLY <1>0, <2>1, <2>2, DivStep, DivFacts
  <2>4. KeccakF1600_StatePermute(Permuted(r, sfx, n, c \div r)) = Permuted(r, sfx, n, (c \div r) + 1)
    BY ONLY r \in Rates, n \in Nat, <2>3, PermuteAgain
  <2> QED BY ONLY <2>1, <2>2, <2>3, <2>4
<1> QED BY <1>1, <1>2

\* ... and elsewhere the block goes on.
LEMMA SameBlock ==
  ASSUME NEW r \in Rates, NEW sfx \in SuffixSymbols, NEW n \in Nat, NEW m \in Nat,
         SqueezedPos(r, m) # r
  PROVE  SqueezedPos(r, m) = m % r /\ Squeezed(r, sfx, n, m) = Permuted(r, sfx, n, m \div r)
<1>0. r \in Nat \ {0}
  BY RateFacts
<1>1. m # 0
  BY DEF SqueezedPos
<1> DEFINE c == m - 1
<1>2. c \in Nat /\ c + 1 = m
  BY <1>1
<1>3. /\ SqueezedPos(r, m) = (c % r) + 1 /\ (c % r) + 1 # r
      /\ Squeezed(r, sfx, n, m) = Permuted(r, sfx, n, c \div r)
  BY <1>1 DEF SqueezedPos, Squeezed
<1> HIDE DEF c
<1>4. (c + 1) \div r = c \div r /\ (c + 1) % r = (c % r) + 1
  BY ONLY <1>0, <1>2, <1>3, DivStep
<1> QED BY ONLY <1>2, <1>3, <1>4

\* After some more bytes of the block.
LEMMA SqueezedNext ==
  ASSUME NEW r \in Rates, NEW sfx, NEW n \in Nat, NEW m \in Nat,
         NEW l \in Nat \ {0}, (m % r) + l <= r
  PROVE  /\ Squeezed(r, sfx, n, m + l) = Permuted(r, sfx, n, m \div r)
         /\ SqueezedPos(r, m + l) = (m % r) + l
<1> DEFINE b == m \div r
           i == m % r
           c == (m + l) - 1
           k == (i + l) - 1
<1>0. r \in Nat \ {0}
  BY RateFacts
<1>1. b \in Nat /\ i \in 0 .. r - 1 /\ m = r * b + i
  BY <1>0, DivFacts
<1>2. m + l # 0
  OBVIOUS
<1> HIDE DEF b, i
<1>3. k \in 0 .. r - 1 /\ c = r * b + k /\ k + 1 = i + l
  <2>1. i + l <= r
    BY DEF i
  <2> QED BY <1>0, <1>1, <2>1
<1> HIDE DEF k
<1>4. (r * b + k) \div r = b /\ (r * b + k) % r = k
  BY ONLY <1>0, <1>1, <1>3, DivUnique
<1>5. c \div r = b /\ c % r = k
  BY ONLY <1>3, <1>4
<1>6. Squeezed(r, sfx, n, m + l) = Permuted(r, sfx, n, c \div r) /\ SqueezedPos(r, m + l) = (c % r) + 1
  BY ONLY <1>2 DEF Squeezed, SqueezedPos, c
<1> QED BY <1>3, <1>5, <1>6 DEF b, i

\* What the caller has, and the state, when m bytes have been squeezed.
Squeezing(r, sfx, n, m) ==
  [out |-> XofBytes(r, sfx, n, m), s |-> Squeezed(r, sfx, n, m), pos |-> SqueezedPos(r, m)]

LEMMA SqueezeStep ==
  ASSUME NEW r \in Rates, NEW sfx \in SuffixSymbols, NEW n \in Nat, NEW m \in Nat
  PROVE  SqueezeByte(Squeezing(r, sfx, n, m), r) = Squeezing(r, sfx, n, m + 1)
<1> DEFINE b == m \div r
           i == m % r
           q == Squeezing(r, sfx, n, m)
           now == IF q.pos = r THEN KeccakF1600_StatePermute(q.s) ELSE q.s
           from == IF q.pos = r THEN 0 ELSE q.pos
<1>0. r \in Nat \ {0}
  BY RateFacts
<1>1. b \in Nat /\ i \in 0 .. r - 1 /\ m = r * b + i
  BY <1>0, DivFacts
<1>2. now = Permuted(r, sfx, n, b) /\ from = i
  <2>1. q.pos = SqueezedPos(r, m) /\ q.s = Squeezed(r, sfx, n, m)
    BY DEF Squeezing
  <2> HIDE DEF q
  <2>2. CASE SqueezedPos(r, m) = r
    BY <2>1, <2>2, NextBlock
  <2>3. CASE SqueezedPos(r, m) # r
    BY <2>1, <2>3, SameBlock
  <2> QED BY <2>2, <2>3
<1>3. q.out = XofBytes(r, sfx, n, m)
  BY DEF Squeezing
<1>4. SqueezeByte(q, r) = [out |-> q.out \o Bytes(now, from, 1), s |-> now, pos |-> from + 1]
  BY DEF SqueezeByte
<1> HIDE DEF q, now, from
<1>5. i + 1 <= r /\ 1 \in Nat \ {0} /\ r * b + i + 1 = m + 1
  BY <1>0, <1>1
<1>6. XofBytes(r, sfx, n, m) \o Bytes(Permuted(r, sfx, n, b), i, 1) = XofBytes(r, sfx, n, m + 1)
  <2>1. 1 \in Nat /\ (m % r) + 1 <= r
    BY <1>5
  <2> QED BY ONLY r \in Rates, n \in Nat, m \in Nat, <2>1, OutputGrows, ZenonT(60)
<1>7. Squeezed(r, sfx, n, m + 1) = Permuted(r, sfx, n, b) /\ SqueezedPos(r, m + 1) = i + 1
  BY <1>5, SqueezedNext
<1> HIDE DEF b, i
<1> QED BY ONLY <1>2, <1>3, <1>4, <1>6, <1>7 DEF Squeezing, q

\* keccak_squeeze goes on where the last call ended.
LEMMA SqueezeLemma ==
  ASSUME NEW r \in Rates, NEW sfx \in SuffixSymbols, NEW n \in Nat, NEW m \in Nat, NEW len \in Nat
  PROVE  keccak_squeeze(XofBytes(r, sfx, n, m), len, Squeezed(r, sfx, n, m), SqueezedPos(r, m), r)
           = Squeezing(r, sfx, n, m + len)
<1> DEFINE start == [out |-> XofBytes(r, sfx, n, m), s |-> Squeezed(r, sfx, n, m),
                     pos |-> SqueezedPos(r, m)]
           State(i) == Squeezing(r, sfx, n, m + i)
           Is(h) == h = [i \in 0 .. len |-> IF i = 0 THEN start ELSE SqueezeByte(h[i - 1], r)]
           f == [i \in 0 .. len |-> State(i)]
           g == CHOOSE h : Is(h)
<1>2. \A i \in 1 .. len : SqueezeByte(State(i - 1), r) = State(i)
  <2> TAKE i \in 1 .. len
  <2>1. m + (i - 1) \in Nat /\ (m + (i - 1)) + 1 = m + i
    OBVIOUS
  <2> QED BY <2>1, SqueezeStep
<1>3. State(0) = start
  <2>1. m + 0 = m
    OBVIOUS
  <2> QED BY ONLY <2>1 DEF Squeezing
<1> HIDE DEF State, start
<1>4. Is(f)
  <2>1. \A i \in 0 .. len : i # 0 => i \in 1 .. len /\ i - 1 \in 0 .. len
    OBVIOUS
  <2>2. \A i \in 0 .. len : State(i) = IF i = 0 THEN start ELSE SqueezeByte(f[i - 1], r)
    BY ONLY <1>2, <1>3, <2>1
  <2> QED BY ONLY <2>2
<1>5. Is(g)
  <2> HIDE DEF Is
  <2> QED BY ONLY <1>4
<1>6. \A i \in 0 .. len : g[i] = IF i = 0 THEN start ELSE SqueezeByte(g[i - 1], r)
  <2> HIDE DEF g
  <2> QED BY ONLY <1>5
<1>7. keccak_squeeze(XofBytes(r, sfx, n, m), len, Squeezed(r, sfx, n, m), SqueezedPos(r, m), r) = g[len]
  BY ONLY TRUE DEF keccak_squeeze, g, Is, start
<1> HIDE DEF g, Is
<1>8. g[0] = f[0]
  BY ONLY len \in Nat, <1>3, <1>6
<1>9. \A i \in 1 .. len : g[i - 1] = f[i - 1] => g[i] = f[i]
  <2>1. \A i \in 1 .. len : i \in 0 .. len /\ i - 1 \in 0 .. len /\ i # 0
    OBVIOUS
  <2> QED BY ONLY <2>1, <1>2, <1>6
<1>10. g[len] = f[len]
  <2>1. len \in 0 .. len
    OBVIOUS
  <2> HIDE DEF f
  <2> QED BY ONLY len \in Nat, <2>1, <1>8, <1>9, SameValues
<1>11. f[len] = State(len)
  OBVIOUS
<1> QED BY <1>7, <1>10, <1>11 DEF State

-----------------------------------------------------------------------------
(* A message of one piece.                                                 *)
Message(n) == [i \in 1 .. n |-> {i}]

\* Bytes on an empty block.
LEMMA XorBlank ==
  ASSUME NEW B, NEW in, Len(in) \in Nat
  PROVE  Xor([base |-> B, add |-> Blank], 0, in)
           = [base |-> B, add |-> [p \in Places |-> IF p < Len(in) THEN in[p + 1] ELSE {}]]
<1> DEFINE st == [base |-> B, add |-> Blank]
           l == Len(in)
           new == [p \in Places |-> IF p \in 0 .. 0 + l - 1
                                    THEN SymDiff(Blank[p], in[p - 0 + 1]) ELSE Blank[p]]
           given == [p \in Places |-> IF p < l THEN in[p + 1] ELSE {}]
<1>1. st.add = Blank /\ \A x : [st EXCEPT !.add = x] = [base |-> B, add |-> x]
  OBVIOUS
<1>2. ASSUME NEW p \in Places
      PROVE  /\ (p \in 0 .. 0 + l - 1 <=> p < l) /\ p - 0 + 1 = p + 1 /\ Blank[p] = {}
             /\ SymDiff({}, in[p + 1]) = in[p + 1]
  <2>1. p \in Nat
    BY RateFacts DEF Places
  <2>2. (p \in 0 .. 0 + l - 1 <=> p < l) /\ p - 0 + 1 = p + 1
    BY <2>1
  <2>3. Blank[p] = {}
    BY DEF Blank, Places
  <2>4. \A x : SymDiff({}, x) = x
    BY DEF SymDiff
  <2> QED BY <2>2, <2>3, <2>4
<1>3. new = given
  <2> HIDE DEF l
  <2>1. \A p \in Places : (IF p \in 0 .. 0 + l - 1 THEN SymDiff(Blank[p], in[p - 0 + 1]) ELSE Blank[p])
                            = IF p < l THEN in[p + 1] ELSE {}
    BY ONLY <1>2
  <2> QED BY ONLY <2>1
<1>4. Xor(st, 0, in) = [st EXCEPT !.add = new]
  BY ONLY <1>1 DEF Xor, Places, l
<1> HIDE DEF st, new, given
<1>5. Xor(st, 0, in) = [base |-> B, add |-> new]
  BY ONLY <1>1, <1>4
<1> QED BY ONLY <1>3, <1>5 DEF st, given, l

\* One more whole block.
LEMMA BlockStep ==
  ASSUME NEW r \in Rates, NEW n \in Nat, NEW k \in 1 .. n \div r
  PROVE  KeccakF1600_StatePermute(
             Xor(Absorbed(r, r * (k - 1)), 0, SubSeq(Message(n), r * (k - 1) + 1, r * k)))
           = Absorbed(r, r * k)
<1> DEFINE c == k - 1
           q == n \div r
           from == r * c
           to == r * k
           in == SubSeq(Message(n), from + 1, to)
<1>0. r \in Nat \ {0} /\ 0 \in 0 .. r - 1
  BY RateFacts
<1>1. q \in Nat /\ n % r \in 0 .. r - 1 /\ n = r * q + (n % r)
  BY <1>0, DivFacts
<1>2. c \in Nat /\ k \in Nat /\ k = c + 1 /\ k <= q
  BY <1>1
<1> HIDE DEF q, c
<1>3. from \in Nat /\ to = from + r /\ to \in Nat /\ to <= n
  <2>1. from \in Nat /\ r * (c + 1) = from + r
    BY ONLY <1>0, <1>2, Multiples
  <2>2. r * q \in Nat
    BY <1>0, <1>1
  <2>3. to <= r * q
    <3>1. CASE k = q
      BY <2>2, <3>1
    <3>2. CASE k < q
      <4>1. r * k + r <= r * q /\ r * k \in Nat
        BY ONLY <1>0, <1>1, <1>2, <3>2, Multiples
      <4> QED BY <1>0, <2>2, <4>1
    <3> QED BY <1>1, <1>2, <3>1, <3>2
  <2> HIDE DEF from
  <2>4. to = from + r
    BY <1>2, <2>1
  <2> HIDE DEF to
  <2> QED BY <1>0, <1>1, <2>1, <2>2, <2>3, <2>4
<1>4. from \div r = c /\ from % r = 0 /\ to \div r = k /\ to % r = 0
  <2>1. (r * c + 0) \div r = c /\ (r * c + 0) % r = 0
    BY ONLY <1>0, <1>2, DivUnique
  <2>2. (r * k + 0) \div r = k /\ (r * k + 0) % r = 0
    BY ONLY <1>0, <1>2, DivUnique
  <2>3. r * c + 0 = from /\ r * k + 0 = to
    BY <1>3
  <2> QED BY ONLY <2>1, <2>2, <2>3
<1> HIDE DEF from, to
<1>5. Len(in) = r /\ \A j \in 1 .. r : in[j] = {from + j}
  <2> DEFINE M == Message(n)
             S == {{i} : i \in Nat}
  <2>1. M \in Seq(S) /\ Len(M) = n /\ \A i \in 1 .. n : M[i] = {i}
    BY DEF Message
  <2> HIDE DEF M, S
  <2>2. Len(SubSeq(M, from + 1, to)) = r
        /\ \A j \in 1 .. r : SubSeq(M, from + 1, to)[j] = M[from + j]
    BY ONLY <2>1, <1>0, <1>3, n \in Nat
  <2>3. \A j \in 1 .. r : from + j \in 1 .. n
    BY ONLY <1>0, <1>3, n \in Nat
  <2> QED BY ONLY <2>1, <2>2, <2>3 DEF M
<1>6. Started(r, from) = Blank /\ Started(r, to) = Blank
  <2>1. \A p \in Places : ~(p < 0)
    BY RateFacts DEF Places
  <2> QED BY ONLY <1>4, <2>1 DEF Started, Blank, Places
<1> HIDE DEF in
<1>7. Xor([base |-> WholeBlocks(r, from), add |-> Blank], 0, in)
        = [base |-> WholeBlocks(r, from), add |-> WholeBlock(r, c + 1)]
  <2> DEFINE B == WholeBlocks(r, from)
             given == [p \in Places |-> IF p < Len(in) THEN in[p + 1] ELSE {}]
  <2>1. Xor([base |-> B, add |-> Blank], 0, in) = [base |-> B, add |-> given]
    BY ONLY <1>0, <1>5, XorBlank
  <2>2. given = WholeBlock(r, c + 1)
    <3>1. \A p \in Places : p < r => p + 1 \in 1 .. r /\ from + (p + 1) = from + p + 1
      BY <1>0, <1>3, RateFacts DEF Places
    <3>2. r * ((c + 1) - 1) = from
      BY <1>2 DEF from
    <3> QED BY <1>5, <3>1, <3>2, ZenonT(60) DEF WholeBlock
  <2> HIDE DEF given
  <2> QED BY <2>1, <2>2
<1>8. Append(WholeBlocks(r, from), WholeBlock(r, c + 1)) = WholeBlocks(r, to)
  <2>1. Append([j \in 1 .. c |-> WholeBlock(r, j)], WholeBlock(r, c + 1))
          = [j \in 1 .. c + 1 |-> WholeBlock(r, j)]
    BY ONLY <1>2, AppendBlock
  <2> QED BY ONLY <1>2, <1>4, <2>1 DEF WholeBlocks
<1>9. KeccakF1600_StatePermute(Xor(Absorbed(r, from), 0, in)) = Absorbed(r, to)
  <2>1. /\ Absorbed(r, from) = [base |-> WholeBlocks(r, from), add |-> Blank]
        /\ Absorbed(r, to) = [base |-> WholeBlocks(r, to), add |-> Blank]
    BY ONLY <1>6 DEF Absorbed
  <2>2. \A B, A : KeccakF1600_StatePermute([base |-> B, add |-> A])
                   = [base |-> Append(B, A), add |-> Blank]
    BY DEF KeccakF1600_StatePermute
  <2> QED BY ONLY <1>7, <1>8, <2>1, <2>2
<1> QED BY <1>9 DEF in, from, to, c

\* The whole blocks are absorbed, the rest is what is behind them.
LEMMA BlocksLemma ==
  ASSUME NEW r \in Rates, NEW n \in Nat
  PROVE  AbsorbBlocks(ZeroState, r, Message(n)) =
           [s |-> Absorbed(r, r * (n \div r)),
            rest |-> SubSeq(Message(n), r * (n \div r) + 1, n)]
<1> DEFINE whole == n \div r
           in == Message(n)
           Step(st, k) ==
             KeccakF1600_StatePermute(Xor(st, 0, SubSeq(in, r * (k - 1) + 1, r * k)))
           State(k) == Absorbed(r, r * k)
           Is(h) == h = [k \in 0 .. whole |-> IF k = 0 THEN ZeroState ELSE Step(h[k - 1], k)]
           f == [k \in 0 .. whole |-> State(k)]
           g == CHOOSE h : Is(h)
<1>0. r \in Nat \ {0} /\ whole \in Nat /\ 0 \in 0 .. r - 1
  <2>1. r \in Nat \ {0}
    BY RateFacts
  <2>2. n \div r \in Nat
    BY ONLY <2>1, n \in Nat, DivFacts
  <2> QED BY ONLY <2>1, <2>2 DEF whole
<1>1. Len(in) = n
  BY DEF Message
<1>2. \A k \in 1 .. whole : Step(State(k - 1), k) = State(k)
  BY BlockStep
<1>3. State(0) = ZeroState
  <2>1. r * 0 = 0 /\ r * 0 + 0 = 0 /\ 0 \in Nat
    BY <1>0
  <2>2. 0 \div r = 0 /\ 0 % r = 0
    BY ONLY <1>0, <2>1, DivUnique
  <2>3. \A p \in Places : ~(p < 0)
    BY RateFacts DEF Places
  <2>4. Started(r, 0) = Blank
    BY ONLY <2>2, <2>3 DEF Started, Blank, Places
  <2>5. WholeBlocks(r, 0) = << >>
    BY ONLY <2>2 DEF WholeBlocks
  <2> QED BY ONLY <2>1, <2>4, <2>5 DEF Absorbed, ZeroState
<1> HIDE DEF State, in, whole, Step
<1>4. Is(f)
  <2>1. \A k \in 0 .. whole : k # 0 => k \in 1 .. whole /\ k - 1 \in 0 .. whole
    BY <1>0
  <2>2. \A k \in 0 .. whole : State(k) = IF k = 0 THEN ZeroState ELSE Step(f[k - 1], k)
    BY ONLY <1>2, <1>3, <2>1
  <2> QED BY ONLY <2>2
<1>5. Is(g)
  <2> HIDE DEF Is
  <2> QED BY ONLY <1>4
<1>6. \A k \in 0 .. whole : g[k] = IF k = 0 THEN ZeroState ELSE Step(g[k - 1], k)
  <2> HIDE DEF g
  <2> QED BY ONLY <1>5
<1>7. AbsorbBlocks(ZeroState, r, in) = [s |-> g[whole], rest |-> SubSeq(in, r * whole + 1, n)]
  BY ONLY <1>1 DEF AbsorbBlocks, g, Is, Step, whole
<1> HIDE DEF g, Is
<1>8. g[0] = f[0]
  BY ONLY <1>0, <1>3, <1>6
<1>9. \A k \in 1 .. whole : g[k - 1] = f[k - 1] => g[k] = f[k]
  <2>1. \A k \in 1 .. whole : k \in 0 .. whole /\ k - 1 \in 0 .. whole /\ k # 0
    BY <1>0
  <2> QED BY ONLY <2>1, <1>2, <1>6
<1>10. g[whole] = f[whole]
  <2>1. whole \in 0 .. whole
    BY <1>0
  <2> HIDE DEF f
  <2> QED BY ONLY <1>0, <2>1, <1>8, <1>9, SameValues
<1>11. f[whole] = State(whole)
  BY <1>0
<1> QED BY <1>7, <1>10, <1>11 DEF State, in, whole

\* What is behind the whole blocks.
LEMMA RestLemma ==
  ASSUME NEW r \in Rates, NEW n \in Nat
  PROVE  LET rest == SubSeq(Message(n), r * (n \div r) + 1, n)
         IN  /\ Len(rest) = n % r
             /\ \A j \in 1 .. n % r : rest[j] = {r * (n \div r) + j}
             /\ Absorbed(r, r * (n \div r)) = [base |-> WholeBlocks(r, n), add |-> Blank]
<1> DEFINE q == n \div r
           m == n % r
           from == r * q
           M == Message(n)
           S == {{i} : i \in Nat}
<1>0. r \in Nat \ {0} /\ 0 \in 0 .. r - 1
  BY RateFacts
<1>1. q \in Nat /\ m \in 0 .. r - 1 /\ n = from + m /\ from \in Nat
  <2>1. q \in Nat /\ m \in 0 .. r - 1 /\ n = r * q + m
    BY ONLY <1>0, n \in Nat, DivFacts
  <2>2. r * q \in Nat
    BY ONLY <1>0, <2>1
  <2> QED BY ONLY <2>1, <2>2 DEF from
<1>2. M \in Seq(S) /\ Len(M) = n /\ \A i \in 1 .. n : M[i] = {i}
  BY DEF Message
<1>3. from \div r = q /\ from % r = 0
  <2> HIDE DEF q
  <2>1. (r * q + 0) \div r = q /\ (r * q + 0) % r = 0
    BY ONLY <1>0, <1>1, DivUnique
  <2>2. r * q + 0 = from
    BY <1>1
  <2> QED BY ONLY <2>1, <2>2
<1>4. Absorbed(r, from) = [base |-> WholeBlocks(r, n), add |-> Blank]
  <2>1. \A p \in Places : ~(p < 0)
    BY RateFacts DEF Places
  <2> HIDE DEF from
  <2>2. Started(r, from) = Blank
    BY ONLY <1>3, <2>1 DEF Started, Blank, Places
  <2>3. WholeBlocks(r, from) = WholeBlocks(r, n)
    BY ONLY <1>3 DEF WholeBlocks, q
  <2> QED BY ONLY <2>2, <2>3 DEF Absorbed
<1> HIDE DEF q, m, from, M, S
<1>5. Len(SubSeq(M, from + 1, n)) = m /\ \A j \in 1 .. m : SubSeq(M, from + 1, n)[j] = M[from + j]
  BY ONLY <1>1, <1>2, n \in Nat
<1>6. \A j \in 1 .. m : from + j \in 1 .. n
  BY ONLY <1>1, n \in Nat
<1>7. \A j \in 1 .. m : SubSeq(M, from + 1, n)[j] = {from + j}
  BY ONLY <1>2, <1>5, <1>6
<1> QED BY <1>4, <1>5, <1>7 DEF q, m, from, M

LEMMA AbsorbOnceLemma ==
  ASSUME NEW r \in Rates, NEW sfx \in SuffixSymbols, NEW n \in Nat
  PROVE  keccak_absorb_once(r, Message(n), sfx) = Padded(r, sfx, n)
<1> DEFINE q == n \div r
           m == n % r
           rest == SubSeq(Message(n), r * q + 1, n)
           B == WholeBlocks(r, n)
           given == [p \in Places |-> IF p < Len(rest) THEN rest[p + 1] ELSE {}]
<1>0. m \in Nat /\ q \in Nat
  <2>1. r \in Nat \ {0}
    BY RateFacts
  <2>2. q \in Nat /\ m \in 0 .. r - 1
    BY ONLY <2>1, n \in Nat, DivFacts
  <2> QED BY ONLY <2>1, <2>2
<1>1. AbsorbBlocks(ZeroState, r, Message(n)) = [s |-> Absorbed(r, r * q), rest |-> rest]
  BY BlocksLemma
<1>2. /\ Len(rest) = m /\ \A j \in 1 .. m : rest[j] = {r * q + j}
      /\ Absorbed(r, r * q) = [base |-> B, add |-> Blank]
  BY RestLemma
<1> HIDE DEF rest, q, m, B
<1>3. Xor([base |-> B, add |-> Blank], 0, rest) = [base |-> B, add |-> given]
  BY ONLY <1>0, <1>2, XorBlank
<1>4. given = Started(r, n)
  <2>1. \A p \in Places : p < m => p + 1 \in 1 .. m /\ r * q + (p + 1) = r * q + p + 1
    BY <1>0, RateFacts DEF Places
  <2>2. \A p \in Places : (IF p < Len(rest) THEN rest[p + 1] ELSE {})
                            = IF p < m THEN {r * q + p + 1} ELSE {}
    BY ONLY <1>2, <2>1
  <2> QED BY ONLY <2>2 DEF Started, m, q
<1> HIDE DEF given
<1>5. Xor(Absorbed(r, r * q), 0, rest) = Absorbed(r, n)
  BY ONLY <1>2, <1>3, <1>4 DEF Absorbed, B
<1>6. keccak_absorb_once(r, Message(n), sfx) = keccak_finalize(Absorbed(r, n), m, r, sfx)
  BY ONLY <1>1, <1>2, <1>5 DEF keccak_absorb_once
<1> QED BY <1>6, FinalizeLemma DEF m

\* A thread puts the last block together in a buffer of its own.
LEMMA ThreadAbsorbLemma ==
  ASSUME NEW r \in Rates, NEW sfx \in SuffixSymbols, NEW n \in Nat
  PROVE  ThreadAbsorb(r, Message(n), sfx) = Padded(r, sfx, n)
<1> DEFINE q == n \div r
           m == n % r
           rest == SubSeq(Message(n), r * q + 1, n)
           B == WholeBlocks(r, n)
           t == [i \in 1 .. r |->
                   (IF i <= Len(rest) THEN rest[i]
                    ELSE IF i = Len(rest) + 1 THEN {sfx} ELSE {})
                   \cup (IF i = r THEN {PadEnd} ELSE {})]
           given == [p \in Places |-> IF p < Len(t) THEN t[p + 1] ELSE {}]
           P == PaddedBlock(r, sfx, n, q + 1)
<1>0. r \in Nat \ {0} /\ m \in 0 .. r - 1 /\ q \in Nat
  <2>1. r \in Nat \ {0}
    BY RateFacts
  <2> QED BY ONLY <2>1, n \in Nat, DivFacts
<1>1. AbsorbBlocks(ZeroState, r, Message(n)) = [s |-> Absorbed(r, r * q), rest |-> rest]
  BY BlocksLemma
<1>2. /\ Len(rest) = m /\ \A j \in 1 .. m : rest[j] = {r * q + j}
      /\ Absorbed(r, r * q) = [base |-> B, add |-> Blank]
  BY RestLemma
<1>3. ThreadAbsorb(r, Message(n), sfx) = Xor(Absorbed(r, r * q), 0, t)
  <2> HIDE DEF rest, q
  <2> QED BY ONLY <1>1 DEF ThreadAbsorb
<1>4. \A p \in Places : P[p] =
        IF p < r
        THEN (IF p < m THEN {r * q + p + 1} ELSE IF p = m THEN {sfx} ELSE {})
             \cup (IF p = r - 1 THEN {PadEnd} ELSE {})
        ELSE {}
  BY LastBlock
<1>5. P = [p \in Places |-> P[p]]
  BY DEF PaddedBlock, Places
<1> HIDE DEF rest, q, m, B, P
<1>6. Len(t) = r
  BY ONLY <1>0
<1>7. Xor([base |-> B, add |-> Blank], 0, t) = [base |-> B, add |-> given]
  <2> HIDE DEF t
  <2> QED BY ONLY <1>0, <1>6, XorBlank
<1>8. \A p \in Places : (IF p < Len(t) THEN t[p + 1] ELSE {}) = P[p]
  <2> TAKE p \in Places
  <2>0. p \in Nat
    BY RateFacts DEF Places
  <2>1. CASE ~(p < r)
    <3> HIDE DEF t
    <3> QED BY ONLY <1>4, <1>6, <2>1, p \in Places
  <2>2. CASE p < r
    <3>1. p + 1 \in 1 .. r
      BY <1>0, <2>0, <2>2
    <3>2. t[p + 1] = (IF p + 1 <= Len(rest) THEN rest[p + 1]
                      ELSE IF p + 1 = Len(rest) + 1 THEN {sfx} ELSE {})
                     \cup (IF p + 1 = r THEN {PadEnd} ELSE {})
      BY ONLY <3>1
    <3>3. (p + 1 <= m <=> p < m) /\ (p + 1 = m + 1 <=> p = m) /\ (p + 1 = r <=> p = r - 1)
          /\ (p < m => p + 1 \in 1 .. m /\ r * q + (p + 1) = r * q + p + 1)
      BY <1>0, <2>0
    <3> HIDE DEF t
    <3> QED BY ONLY <1>2, <1>4, <1>6, <2>2, <3>2, <3>3, p \in Places
  <2> QED BY <2>1, <2>2
<1>9. given = P
  <2> HIDE DEF t
  <2> QED BY ONLY <1>5, <1>8
<1> HIDE DEF given, t
<1> QED BY ONLY <1>2, <1>3, <1>7, <1>9 DEF Padded, B, P, q

\* A whole block of output.
LEMMA BlockOut ==
  ASSUME NEW r \in Rates, NEW sfx \in SuffixSymbols, NEW n \in Nat,
         NEW c \in Nat, SqueezedPos(r, c) = r
  PROVE  /\ SqueezeBlock([out |-> XofBytes(r, sfx, n, c), s |-> Squeezed(r, sfx, n, c)], r)
              = [out |-> XofBytes(r, sfx, n, c + r), s |-> Squeezed(r, sfx, n, c + r)]
         /\ SqueezedPos(r, c + r) = r
<1>1. r \in Nat /\ r \in Nat \ {0}
  BY RateFacts
<1>2. c % r = 0 /\ KeccakF1600_StatePermute(Squeezed(r, sfx, n, c)) = Permuted(r, sfx, n, c \div r)
  BY NextBlock
<1>3. (c % r) + r <= r /\ (c % r) + r = r
  BY ONLY <1>1, <1>2
<1>4. XofBytes(r, sfx, n, c) \o Bytes(Permuted(r, sfx, n, c \div r), c % r, r)
        = XofBytes(r, sfx, n, c + r)
  <2>1. \A l \in Nat : (c % r) + l <= r =>
          XofBytes(r, sfx, n, c) \o Bytes(Permuted(r, sfx, n, c \div r), c % r, l)
            = XofBytes(r, sfx, n, c + l)
    BY ONLY r \in Rates, n \in Nat, c \in Nat, OutputGrows, ZenonT(60)
  <2> QED BY ONLY <1>1, <1>3, <2>1
<1>5. Squeezed(r, sfx, n, c + r) = Permuted(r, sfx, n, c \div r) /\ SqueezedPos(r, c + r) = (c % r) + r
  BY <1>1, <1>3, SqueezedNext, SMTT(30)
<1> DEFINE bytes == XofBytes(r, sfx, n, c)
           st == Squeezed(r, sfx, n, c)
<1>6. SqueezeBlock([out |-> bytes, s |-> st], r)
        = [out |-> bytes \o Bytes(KeccakF1600_StatePermute(st), 0, r), s |-> KeccakF1600_StatePermute(st)]
  BY DEF SqueezeBlock
<1> HIDE DEF bytes, st
<1>7. SqueezeBlock([out |-> bytes, s |-> st], r)
        = [out |-> bytes \o Bytes(Permuted(r, sfx, n, c \div r), c % r, r), s |-> Permuted(r, sfx, n, c \div r)]
  BY ONLY <1>2, <1>6 DEF st
<1> QED BY ONLY <1>3, <1>4, <1>5, <1>7 DEF bytes, st

\* Whole blocks of output.
LEMMA SqueezeBlocksLemma ==
  ASSUME NEW r \in Rates, NEW sfx \in SuffixSymbols, NEW n \in Nat,
         NEW m \in Nat, SqueezedPos(r, m) = r, NEW nblocks \in Nat
  PROVE  /\ keccak_squeezeblocks(XofBytes(r, sfx, n, m), nblocks, Squeezed(r, sfx, n, m), r)
              = [out |-> XofBytes(r, sfx, n, m + nblocks * r),
                 s |-> Squeezed(r, sfx, n, m + nblocks * r)]
         /\ SqueezedPos(r, m + nblocks * r) = r
<1> DEFINE at(k) == m + k * r
           start == [out |-> XofBytes(r, sfx, n, m), s |-> Squeezed(r, sfx, n, m)]
           State(k) == [out |-> XofBytes(r, sfx, n, at(k)), s |-> Squeezed(r, sfx, n, at(k))]
           Is(h) == h = [k \in 0 .. nblocks |-> IF k = 0 THEN start ELSE SqueezeBlock(h[k - 1], r)]
           f == [k \in 0 .. nblocks |-> State(k)]
           g == CHOOSE h : Is(h)
<1>0. r \in Nat \ {0}
  BY RateFacts
<1>1. at(0) = m /\ \A k \in 1 .. nblocks : at(k - 1) \in Nat /\ at(k) = at(k - 1) + r
  BY <1>0
<1>2. \A k \in 0 .. nblocks : SqueezedPos(r, at(k)) = r
  <2> DEFINE H == {k \in 0 .. nblocks : SqueezedPos(r, at(k)) = r}
  <2>1. 0 \in H
    BY <1>1
  <2>2. \A k \in 0 .. nblocks - 1 : k \in H => k + 1 \in H
    <3> SUFFICES ASSUME NEW k \in 0 .. nblocks - 1, k \in H
                 PROVE  SqueezedPos(r, at(k + 1)) = r
      OBVIOUS
    <3>1. k + 1 \in 1 .. nblocks /\ (k + 1) - 1 = k /\ SqueezedPos(r, at(k)) = r
      OBVIOUS
    <3>2. at(k) \in Nat /\ at(k + 1) = at(k) + r
      BY ONLY <1>1, <3>1
    <3> HIDE DEF at
    <3> QED BY ONLY <3>1, <3>2, r \in Rates, n \in Nat, sfx \in SuffixSymbols, BlockOut
  <2> HIDE DEF H
  <2>3. \A k \in 0 .. nblocks : k \in H
    BY ONLY nblocks \in Nat, <2>1, <2>2, IntervalInduction
  <2> QED BY <2>3 DEF H
<1> HIDE DEF at
<1>3. \A k \in 1 .. nblocks : SqueezeBlock(State(k - 1), r) = State(k)
  <2> TAKE k \in 1 .. nblocks
  <2> DEFINE c == at(k - 1)
  <2>1. c \in Nat /\ at(k) = c + r /\ SqueezedPos(r, c) = r
    <3>1. k - 1 \in 0 .. nblocks
      OBVIOUS
    <3> QED BY <1>1, <1>2, <3>1
  <2> HIDE DEF c
  <2>2. State(k - 1) = [out |-> XofBytes(r, sfx, n, c), s |-> Squeezed(r, sfx, n, c)]
    BY DEF c
  <2>3. State(k) = [out |-> XofBytes(r, sfx, n, c + r), s |-> Squeezed(r, sfx, n, c + r)]
    BY <2>1
  <2> HIDE DEF State
  <2>4. SqueezeBlock([out |-> XofBytes(r, sfx, n, c), s |-> Squeezed(r, sfx, n, c)], r)
          = [out |-> XofBytes(r, sfx, n, c + r), s |-> Squeezed(r, sfx, n, c + r)]
    BY ONLY <2>1, r \in Rates, n \in Nat, sfx \in SuffixSymbols, BlockOut
  <2> QED BY ONLY <2>2, <2>3, <2>4
<1>4. State(0) = start
  BY <1>1
<1> HIDE DEF State, start
<1>5. Is(f)
  <2>1. \A k \in 0 .. nblocks : k # 0 => k \in 1 .. nblocks /\ k - 1 \in 0 .. nblocks
    OBVIOUS
  <2>2. \A k \in 0 .. nblocks : State(k) = IF k = 0 THEN start ELSE SqueezeBlock(f[k - 1], r)
    BY ONLY <1>3, <1>4, <2>1
  <2> QED BY ONLY <2>2
<1>6. Is(g)
  <2> HIDE DEF Is
  <2> QED BY ONLY <1>5
<1>7. \A k \in 0 .. nblocks : g[k] = IF k = 0 THEN start ELSE SqueezeBlock(g[k - 1], r)
  <2> HIDE DEF g
  <2> QED BY ONLY <1>6
<1>8. keccak_squeezeblocks(XofBytes(r, sfx, n, m), nblocks, Squeezed(r, sfx, n, m), r) = g[nblocks]
  BY ONLY TRUE DEF keccak_squeezeblocks, g, Is, start
<1> HIDE DEF g, Is
<1>9. g[0] = f[0]
  BY ONLY nblocks \in Nat, <1>4, <1>7
<1>10. \A k \in 1 .. nblocks : g[k - 1] = f[k - 1] => g[k] = f[k]
  <2>1. \A k \in 1 .. nblocks : k \in 0 .. nblocks /\ k - 1 \in 0 .. nblocks /\ k # 0
    OBVIOUS
  <2> QED BY ONLY <2>1, <1>3, <1>7
<1>11. g[nblocks] = f[nblocks]
  <2>1. nblocks \in 0 .. nblocks
    OBVIOUS
  <2> HIDE DEF f
  <2> QED BY ONLY nblocks \in Nat, <2>1, <1>9, <1>10, SameValues
<1>12. f[nblocks] = State(nblocks) /\ nblocks \in 0 .. nblocks
  OBVIOUS
<1> HIDE DEF f
<1> QED BY <1>2, <1>8, <1>11, <1>12 DEF State, at

-----------------------------------------------------------------------------
(* Everything in one call.                                                 *)
\* The output of no bytes, in front of everything.
LEMMA StartFacts ==
  ASSUME NEW r \in Rates, NEW sfx, NEW n
  PROVE  /\ XofBytes(r, sfx, n, 0) = << >> /\ Squeezed(r, sfx, n, 0) = Padded(r, sfx, n)
         /\ SqueezedPos(r, 0) = r /\ 0 \div r = 0 /\ 0 % r = 0
<1>0. r \in Nat \ {0} /\ 0 \in 0 .. r - 1 /\ r * 0 + 0 = 0
  BY RateFacts
<1>1. (r * 0 + 0) \div r = 0 /\ (r * 0 + 0) % r = 0
  BY ONLY <1>0, 0 \in Nat, DivUnique
<1>2. 0 \div r = 0 /\ 0 % r = 0
  BY ONLY <1>0, <1>1
<1>3. XofBytes(r, sfx, n, 0) = << >>
  BY DEF XofBytes
<1> QED BY ONLY <1>2, <1>3 DEF Squeezed, SqueezedPos

LEMMA BytesFacts ==
  ASSUME NEW st, NEW i, NEW l \in Nat
  PROVE  << >> \o Bytes(st, i, l) = Bytes(st, i, l)
         /\ \A k \in 0 .. l : SubSeq(Bytes(st, i, l), 1, k) = Bytes(st, i, k)
<1> DEFINE B(j) == [base |-> st.base, at |-> i + j - 1, add |-> st.add[i + j - 1]]
           S == {B(j) : j \in Nat}
<1>1. \A k \in Nat : Bytes(st, i, k) = [j \in 1 .. k |-> B(j)]
  BY DEF Bytes
<1> HIDE DEF B
<1>2. \A k \in Nat : /\ Bytes(st, i, k) \in Seq(S) /\ Len(Bytes(st, i, k)) = k
                     /\ \A j \in 1 .. k : Bytes(st, i, k)[j] = B(j)
  <2> TAKE k \in Nat
  <2>1. Bytes(st, i, k) = [j \in 1 .. k |-> B(j)]
    BY <1>1
  <2> QED BY ONLY <2>1, k \in Nat
<1> HIDE DEF S
<1>3. ASSUME NEW k \in 0 .. l
      PROVE  SubSeq(Bytes(st, i, l), 1, k) = Bytes(st, i, k)
  <2> DEFINE a == Bytes(st, i, l)
             b == Bytes(st, i, k)
  <2>1. k \in Nat /\ k <= l
    OBVIOUS
  <2>2. /\ a \in Seq(S) /\ Len(a) = l /\ (\A j \in 1 .. l : a[j] = B(j))
        /\ b \in Seq(S) /\ Len(b) = k /\ (\A j \in 1 .. k : b[j] = B(j))
    BY ONLY <1>2, <2>1, l \in Nat
  <2> HIDE DEF a, b
  <2>3. SubSeq(a, 1, k) \in Seq(S) /\ Len(SubSeq(a, 1, k)) = k
        /\ \A j \in 1 .. k : SubSeq(a, 1, k)[j] = a[j]
    BY ONLY <2>1, <2>2, l \in Nat
  <2> DEFINE c == SubSeq(a, 1, k)
  <2>4. c \in Seq(S) /\ Len(c) = k /\ \A j \in 1 .. k : c[j] = b[j]
    <3>1. \A j \in 1 .. k : j \in 1 .. l
      BY ONLY <2>1, l \in Nat
    <3> QED BY ONLY <2>2, <2>3, <3>1
  <2> HIDE DEF c
  <2>5. c = b
    BY ONLY <2>1, <2>2, <2>4
  <2> QED BY <2>5 DEF a, b, c
<1>4. << >> \o Bytes(st, i, l) = Bytes(st, i, l)
  <2> DEFINE a == Bytes(st, i, l)
  <2>1. a \in Seq(S)
    BY <1>2
  <2> HIDE DEF a
  <2> QED BY <2>1 DEF a
<1> QED BY <1>3, <1>4

\* A call for one block.
LEMMA OneBlock ==
  ASSUME NEW bytes, NEW st, NEW r
  PROVE  keccak_squeezeblocks(bytes, 1, st, r) = SqueezeBlock([out |-> bytes, s |-> st], r)
<1> DEFINE start == [out |-> bytes, s |-> st]
           Is(h) == h = [k \in 0 .. 1 |-> IF k = 0 THEN start ELSE SqueezeBlock(h[k - 1], r)]
           f == [k \in 0 .. 1 |-> IF k = 0 THEN start ELSE SqueezeBlock(start, r)]
           g == CHOOSE h : Is(h)
<1>0. 0 .. 1 = {0, 1} /\ 1 - 1 = 0 /\ 1 # 0
  OBVIOUS
<1> HIDE DEF start
<1>1. Is(f)
  <2>1. \A k \in 0 .. 1 : k = 0 \/ (k = 1 /\ f[k - 1] = start)
    BY ONLY <1>0
  <2>2. \A k \in 0 .. 1 : (IF k = 0 THEN start ELSE SqueezeBlock(start, r))
                            = IF k = 0 THEN start ELSE SqueezeBlock(f[k - 1], r)
    BY ONLY <2>1
  <2> QED BY ONLY <2>2
<1>2. Is(g)
  <2> HIDE DEF Is
  <2> QED BY ONLY <1>1
<1>3. g[0] = start /\ g[1] = SqueezeBlock(g[0], r)
  <2> HIDE DEF g
  <2>1. \A k \in {0, 1} : g[k] = IF k = 0 THEN start ELSE SqueezeBlock(g[k - 1], r)
    BY ONLY <1>0, <1>2
  <2> QED BY ONLY <1>0, <2>1
<1>4. keccak_squeezeblocks(bytes, 1, st, r) = g[1]
  BY ONLY TRUE DEF keccak_squeezeblocks, g, Is, start
<1> HIDE DEF g
<1> QED BY ONLY <1>3, <1>4 DEF start

\* The message comes in one piece when there was none before.
LEMMA InputLemma ==
  ASSUME message = 0, NEW n \in Nat
  PROVE  Input(n) = Message(n)
<1>1. \A i \in 1 .. n : message + i = i
  OBVIOUS
<1> QED BY ONLY <1>1 DEF Input, Message

\* A part of a block of output, from a place where a block begins.
LEMMA PartOut ==
  ASSUME NEW r \in Rates, NEW sfx \in SuffixSymbols, NEW n \in Nat,
         NEW c \in Nat, SqueezedPos(r, c) = r, NEW l \in Nat, l <= r
  PROVE  XofBytes(r, sfx, n, c)
           \o SubSeq(keccak_squeezeblocks(<< >>, 1, Squeezed(r, sfx, n, c), r).out, 1, l)
           = XofBytes(r, sfx, n, c + l)
<1> DEFINE st == Squeezed(r, sfx, n, c)
           next == KeccakF1600_StatePermute(st)
<1>1. r \in Nat /\ l \in 0 .. r
  <2>1. r \in Nat
    BY RateFacts
  <2> QED BY <2>1
<1>2. c % r = 0 /\ next = Permuted(r, sfx, n, c \div r)
  BY NextBlock
<1> HIDE DEF st
<1>3. keccak_squeezeblocks(<< >>, 1, st, r).out = << >> \o Bytes(next, 0, r)
  <2>1. keccak_squeezeblocks(<< >>, 1, st, r) = SqueezeBlock([out |-> << >>, s |-> st], r)
    BY ONLY OneBlock
  <2> DEFINE q == [out |-> << >>, s |-> st]
  <2>2. q.out = << >> /\ q.s = st
    OBVIOUS
  <2> HIDE DEF q
  <2>3. SqueezeBlock(q, r).out = q.out \o Bytes(KeccakF1600_StatePermute(q.s), 0, r)
    BY ONLY TRUE DEF SqueezeBlock
  <2>4. SqueezeBlock(q, r).out = << >> \o Bytes(next, 0, r)
    BY ONLY <2>2, <2>3 DEF next
  <2> QED BY ONLY <2>1, <2>4 DEF q
<1> HIDE DEF next
<1>4. SubSeq(keccak_squeezeblocks(<< >>, 1, st, r).out, 1, l) = Bytes(next, 0, l)
  <2>1. << >> \o Bytes(next, 0, r) = Bytes(next, 0, r)
    BY ONLY <1>1, BytesFacts
  <2>2. SubSeq(Bytes(next, 0, r), 1, l) = Bytes(next, 0, l)
    BY ONLY <1>1, BytesFacts
  <2> QED BY ONLY <1>3, <2>1, <2>2
<1>5. (c % r) + l <= r
  BY ONLY <1>1, <1>2, l <= r
<1>6. XofBytes(r, sfx, n, c) \o Bytes(Permuted(r, sfx, n, c \div r), c % r, l) = XofBytes(r, sfx, n, c + l)
  BY ONLY <1>5, r \in Rates, n \in Nat, c \in Nat, l \in Nat, OutputGrows, ZenonT(60)
<1> QED BY ONLY <1>2, <1>4, <1>6 DEF st

\* The whole blocks of an output of outlen bytes, and what is left.
LEMMA OutlenFacts ==
  ASSUME NEW r \in Rates, NEW outlen \in Nat
  PROVE  /\ outlen \div r \in Nat /\ (outlen \div r) * r \in Nat /\ outlen % r \in Nat
         /\ outlen % r <= r /\ 0 + (outlen \div r) * r = (outlen \div r) * r
         /\ (outlen \div r) * r + (outlen % r) = outlen
<1>1. r \in Nat \ {0}
  BY RateFacts
<1>2. outlen \div r \in Nat /\ outlen % r \in 0 .. r - 1 /\ outlen = r * (outlen \div r) + (outlen % r)
  BY ONLY <1>1, outlen \in Nat, DivFacts
<1> DEFINE q == outlen \div r
           m == outlen % r
<1>3. q \in Nat /\ m \in 0 .. r - 1 /\ outlen = r * q + m
  BY <1>2
<1> HIDE DEF q, m
<1>4. q * r = r * q /\ q * r \in Nat
  BY ONLY <1>1, <1>3
<1> QED BY ONLY <1>1, <1>3, <1>4 DEF q, m

\* The whole blocks, in a call of their own.
LEMMA WholeOut ==
  ASSUME NEW r \in Rates, NEW sfx \in SuffixSymbols, NEW n \in Nat, NEW nblocks \in Nat
  PROVE  /\ keccak_squeezeblocks(<< >>, nblocks, Padded(r, sfx, n), r)
              = [out |-> XofBytes(r, sfx, n, 0 + nblocks * r), s |-> Squeezed(r, sfx, n, 0 + nblocks * r)]
         /\ SqueezedPos(r, 0 + nblocks * r) = r
<1>1. XofBytes(r, sfx, n, 0) = << >> /\ Squeezed(r, sfx, n, 0) = Padded(r, sfx, n) /\ SqueezedPos(r, 0) = r
  BY StartFacts
<1>2. 0 \in Nat
  OBVIOUS
<1>3. /\ keccak_squeezeblocks(XofBytes(r, sfx, n, 0), nblocks, Squeezed(r, sfx, n, 0), r)
           = [out |-> XofBytes(r, sfx, n, 0 + nblocks * r), s |-> Squeezed(r, sfx, n, 0 + nblocks * r)]
      /\ SqueezedPos(r, 0 + nblocks * r) = r
  BY <1>1, <1>2, SqueezeBlocksLemma
<1> QED BY ONLY <1>1, <1>3

\* shake128 and shake256 of fips202_cpu.
LEMMA ShakeOfLemma ==
  ASSUME message = 0, NEW r \in Rates, NEW n \in Nat, NEW outlen \in Nat
  PROVE  ShakeOf(r, n, outlen) = XofBytes(r, SHAKE, n, outlen)
<1> DEFINE q == outlen \div r
           k == outlen % r
           c == 0 + q * r
           absorbed == keccak_absorb_once(r, Input(n), SHAKE)
           whole == keccak_squeezeblocks(<< >>, q, absorbed, r)
<1>1. q \in Nat /\ c \in Nat /\ k \in Nat /\ c + k = outlen
  BY OutlenFacts
<1>2. SHAKE \in SuffixSymbols
  BY DEF SuffixSymbols
<1>3. ShakeOf(r, n, outlen) = keccak_squeeze(whole.out, k, whole.s, r, r).out
  BY DEF ShakeOf
<1>4. absorbed = Padded(r, SHAKE, n)
  BY <1>2, InputLemma, AbsorbOnceLemma
<1> HIDE DEF absorbed, q, k
<1>5. /\ whole = [out |-> XofBytes(r, SHAKE, n, c), s |-> Squeezed(r, SHAKE, n, c)]
      /\ SqueezedPos(r, c) = r
  BY <1>1, <1>2, <1>4, WholeOut
<1> HIDE DEF whole, c
<1>6. whole.out = XofBytes(r, SHAKE, n, c) /\ whole.s = Squeezed(r, SHAKE, n, c)
  BY ONLY <1>5
<1>7. keccak_squeeze(XofBytes(r, SHAKE, n, c), k, Squeezed(r, SHAKE, n, c), SqueezedPos(r, c), r)
        = Squeezing(r, SHAKE, n, c + k)
  BY <1>1, <1>2, SqueezeLemma
<1>8. Squeezing(r, SHAKE, n, c + k).out = XofBytes(r, SHAKE, n, c + k)
  BY ONLY TRUE DEF Squeezing
<1> QED BY ONLY <1>1, <1>3, <1>5, <1>6, <1>7, <1>8

\* shake256 of fips202_cuda/thread, with a block of its own for the rest.
LEMMA ThreadShakeOfLemma ==
  ASSUME message = 0, NEW r \in Rates, NEW n \in Nat, NEW outlen \in Nat
  PROVE  ThreadShakeOf(r, n, outlen) = XofBytes(r, SHAKE, n, outlen)
<1> DEFINE q == outlen \div r
           k == outlen % r
           c == 0 + q * r
           absorbed == ThreadAbsorb(r, Input(n), SHAKE)
           whole == keccak_squeezeblocks(<< >>, q, absorbed, r)
           rest == keccak_squeezeblocks(<< >>, 1, whole.s, r)
<1>1. q \in Nat /\ c \in Nat /\ k \in Nat /\ k <= r /\ c + k = outlen
  BY OutlenFacts
<1>2. SHAKE \in SuffixSymbols
  BY DEF SuffixSymbols
<1>3. ThreadShakeOf(r, n, outlen) = IF k = 0 THEN whole.out ELSE whole.out \o SubSeq(rest.out, 1, k)
  BY DEF ThreadShakeOf
<1>4. absorbed = Padded(r, SHAKE, n)
  BY <1>2, InputLemma, ThreadAbsorbLemma
<1> HIDE DEF absorbed, q, k
<1>5. /\ whole = [out |-> XofBytes(r, SHAKE, n, c), s |-> Squeezed(r, SHAKE, n, c)]
      /\ SqueezedPos(r, c) = r
  BY <1>1, <1>2, <1>4, WholeOut
<1> HIDE DEF whole, c
<1>6. /\ whole.out = XofBytes(r, SHAKE, n, c) /\ whole.s = Squeezed(r, SHAKE, n, c)
      /\ rest = keccak_squeezeblocks(<< >>, 1, Squeezed(r, SHAKE, n, c), r)
  BY ONLY <1>5
<1> HIDE DEF rest
<1>7. XofBytes(r, SHAKE, n, c)
        \o SubSeq(keccak_squeezeblocks(<< >>, 1, Squeezed(r, SHAKE, n, c), r).out, 1, k)
        = XofBytes(r, SHAKE, n, c + k)
  <2>1. PICK d \in Nat, l \in Nat : d = c /\ l = k
    BY <1>1
  <2>2. SqueezedPos(r, d) = r /\ l <= r
    BY ONLY <1>1, <1>5, <2>1
  <2>3. XofBytes(r, SHAKE, n, d)
          \o SubSeq(keccak_squeezeblocks(<< >>, 1, Squeezed(r, SHAKE, n, d), r).out, 1, l)
          = XofBytes(r, SHAKE, n, d + l)
    BY ONLY <1>2, <2>2, d \in Nat, l \in Nat, r \in Rates, n \in Nat, PartOut, ZenonT(60)
  <2> QED BY ONLY <2>1, <2>3
<1>8. k = 0 => c = outlen
  BY ONLY <1>1
<1> QED BY ONLY <1>1, <1>3, <1>6, <1>7, <1>8

\* The matrix generator's blocks.
LEMMA ThreadBlocksLemma ==
  ASSUME message = 0, NEW r \in Rates, NEW n \in Nat, NEW nblocks \in Nat
  PROVE  keccak_squeezeblocks(<< >>, nblocks, ThreadAbsorb(r, Input(n), SHAKE), r).out
           = XofBytes(r, SHAKE, n, 0 + nblocks * r)
<1>1. SHAKE \in SuffixSymbols
  BY DEF SuffixSymbols
<1>2. ThreadAbsorb(r, Input(n), SHAKE) = Padded(r, SHAKE, n)
  BY <1>1, InputLemma, ThreadAbsorbLemma
<1>3. keccak_squeezeblocks(<< >>, nblocks, Padded(r, SHAKE, n), r)
        = [out |-> XofBytes(r, SHAKE, n, 0 + nblocks * r), s |-> Squeezed(r, SHAKE, n, 0 + nblocks * r)]
  BY <1>1, WholeOut
<1> QED BY ONLY <1>2, <1>3

\* SHA3: the first bytes of one block.
LEMMA Sha3OfLemma ==
  ASSUME message = 0, NEW r \in Rates, NEW n \in Nat, NEW outlen \in Nat, outlen <= r
  PROVE  Sha3Of(r, n, outlen) = XofBytes(r, SHA3, n, outlen)
<1> DEFINE P == KeccakF1600_StatePermute(Padded(r, SHA3, n))
<1>1. SHA3 \in SuffixSymbols
  BY DEF SuffixSymbols
<1>2. keccak_absorb_once(r, Input(n), SHA3) = Padded(r, SHA3, n)
  BY <1>1, InputLemma, AbsorbOnceLemma
<1>3. Sha3Of(r, n, outlen) = Bytes(P, 0, outlen)
  BY <1>2 DEF Sha3Of
<1>4. /\ XofBytes(r, SHA3, n, 0) = << >> /\ Squeezed(r, SHA3, n, 0) = Padded(r, SHA3, n)
      /\ SqueezedPos(r, 0) = r /\ 0 \div r = 0 /\ 0 % r = 0
  BY StartFacts
<1>5. P = Permuted(r, SHA3, n, 0)
  <2>1. 0 \in Nat
    OBVIOUS
  <2> QED BY <1>1, <1>4, <2>1, NextBlock
<1> HIDE DEF P
<1>6. XofBytes(r, SHA3, n, 0) \o Bytes(Permuted(r, SHA3, n, 0 \div r), 0 % r, outlen)
        = XofBytes(r, SHA3, n, 0 + outlen)
  <2>1. PICK c \in Nat : c = 0
    OBVIOUS
  <2>2. (c % r) + outlen <= r
    BY <1>4, <2>1, RateFacts
  <2>3. XofBytes(r, SHA3, n, c) \o Bytes(Permuted(r, SHA3, n, c \div r), c % r, outlen)
          = XofBytes(r, SHA3, n, c + outlen)
    BY ONLY <1>1, <2>2, c \in Nat, outlen \in Nat, r \in Rates, n \in Nat, OutputGrows, ZenonT(60)
  <2> QED BY ONLY <2>1, <2>3
<1>7. << >> \o Bytes(P, 0, outlen) = Bytes(P, 0, outlen)
  BY BytesFacts
<1>8. 0 + outlen = outlen
  OBVIOUS
<1> QED BY ONLY <1>3, <1>4, <1>5, <1>6, <1>7, <1>8

LEMMA ThreadSha3OfLemma ==
  ASSUME message = 0, NEW r \in Rates, NEW n \in Nat, NEW outlen \in Nat, outlen <= r
  PROVE  ThreadSha3Of(r, n, outlen) = XofBytes(r, SHA3, n, outlen)
<1>1. SHA3 \in SuffixSymbols
  BY DEF SuffixSymbols
<1>2. ThreadAbsorb(r, Input(n), SHA3) = Padded(r, SHA3, n)
  BY <1>1, InputLemma, ThreadAbsorbLemma
<1>3. XofBytes(r, SHA3, n, 0) = << >> /\ Squeezed(r, SHA3, n, 0) = Padded(r, SHA3, n)
      /\ SqueezedPos(r, 0) = r
  BY StartFacts
<1>4. XofBytes(r, SHA3, n, 0)
        \o SubSeq(keccak_squeezeblocks(<< >>, 1, Squeezed(r, SHA3, n, 0), r).out, 1, outlen)
        = XofBytes(r, SHA3, n, 0 + outlen)
  <2>1. PICK c \in Nat : c = 0
    OBVIOUS
  <2>2. SqueezedPos(r, c) = r
    BY ONLY <1>3, <2>1
  <2>3. XofBytes(r, SHA3, n, c)
          \o SubSeq(keccak_squeezeblocks(<< >>, 1, Squeezed(r, SHA3, n, c), r).out, 1, outlen)
          = XofBytes(r, SHA3, n, c + outlen)
    BY ONLY <1>1, <2>2, c \in Nat, outlen \in Nat, outlen <= r, r \in Rates, n \in Nat, PartOut
  <2> QED BY ONLY <2>1, <2>3
<1> DEFINE part == SubSeq(keccak_squeezeblocks(<< >>, 1, Padded(r, SHA3, n), r).out, 1, outlen)
<1>5. << >> \o part = XofBytes(r, SHA3, n, outlen)
  <2>1. 0 + outlen = outlen
    OBVIOUS
  <2> QED BY ONLY <1>3, <1>4, <2>1
<1>6. ThreadSha3Of(r, n, outlen) = part
  BY <1>2 DEF ThreadSha3Of
<1>7. << >> \o part = part
  <2> DEFINE P == KeccakF1600_StatePermute(Padded(r, SHA3, n))
             q == [out |-> << >>, s |-> Padded(r, SHA3, n)]
  <2>1. q.out = << >> /\ KeccakF1600_StatePermute(q.s) = P
    OBVIOUS
  <2>2. keccak_squeezeblocks(<< >>, 1, Padded(r, SHA3, n), r) = SqueezeBlock(q, r)
    BY ONLY OneBlock
  <2> HIDE DEF P, q
  <2>3. SqueezeBlock(q, r).out = << >> \o Bytes(P, 0, r)
    BY ONLY <2>1 DEF SqueezeBlock
  <2>4. r \in Nat /\ outlen \in 0 .. r
    BY RateFacts
  <2>5. /\ << >> \o Bytes(P, 0, r) = Bytes(P, 0, r)
        /\ SubSeq(Bytes(P, 0, r), 1, outlen) = Bytes(P, 0, outlen)
    BY ONLY <2>4, BytesFacts
  <2>6. << >> \o Bytes(P, 0, outlen) = Bytes(P, 0, outlen)
    BY ONLY outlen \in Nat, BytesFacts
  <2>7. part = Bytes(P, 0, outlen)
    BY ONLY <2>2, <2>3, <2>5
  <2> QED BY ONLY <2>6, <2>7
<1> QED BY ONLY <1>5, <1>6, <1>7

-----------------------------------------------------------------------------
(* The invariant.                                                          *)
\* While the message comes in, the state is what absorbing it up to there
\* leaves; while the output goes out, the caller has the first m bytes of it
\* and the state is the one that goes with m.
SpongeInv ==
  /\ rate \in Rates /\ suffix \in SuffixSymbols /\ message \in Nat
  /\ phase \in {"absorbing", "squeezing", "answered"}
  /\ phase = "absorbing" =>
       s = Absorbed(rate, message) /\ pos = message % rate /\ output = << >>
  /\ phase = "squeezing" =>
       \E m \in Nat : /\ output = XofBytes(rate, suffix, message, m)
                      /\ s = Squeezed(rate, suffix, message, m)
                      /\ pos = SqueezedPos(rate, m)

LEMMA SpongeInitInv ==
  ASSUME SpongeInit
  PROVE  SpongeInv
<1>1. rate \in Rates /\ suffix \in SuffixSymbols
  <2>1. SHAKE128_RATE \in Rates /\ SHAKE256_RATE \in Rates /\ SHA3_512_RATE \in Rates
    BY RateFacts
  <2>2. SHAKE \in SuffixSymbols /\ SHA3 \in SuffixSymbols
    BY DEF SuffixSymbols
  <2>3. PICK f \in {<<SHAKE128_RATE, SHAKE>>, <<SHAKE256_RATE, SHAKE>>,
                    <<SHAKE256_RATE, SHA3>>, <<SHA3_512_RATE, SHA3>>} : rate = f[1] /\ suffix = f[2]
    BY DEF SpongeInit
  <2> QED BY ONLY <2>1, <2>2, <2>3
<1>2. s = ZeroState /\ pos = 0 /\ message = 0 /\ phase = "absorbing" /\ output = << >>
  BY DEF SpongeInit
<1>3. 0 \div rate = 0 /\ 0 % rate = 0
  BY <1>1, StartFacts
<1>4. Absorbed(rate, 0) = ZeroState
  <2>1. WholeBlocks(rate, 0) = << >>
    BY <1>3 DEF WholeBlocks
  <2>2. Started(rate, 0) = Blank
    BY <1>3 DEF Started, Blank, Places
  <2> QED BY ONLY <2>1, <2>2 DEF Absorbed, ZeroState
<1> QED BY ONLY <1>1, <1>2, <1>3, <1>4 DEF SpongeInv

\* Output of m bytes is a sequence, and begins that of more bytes.
LEMMA OutputFacts ==
  ASSUME NEW r, NEW sfx, NEW n, NEW m \in Nat, NEW l \in Nat, m <= l
  PROVE  /\ Len(XofBytes(r, sfx, n, m)) = m
         /\ IsPrefix(XofBytes(r, sfx, n, m), XofBytes(r, sfx, n, l))
<1> DEFINE OutXof(j) == XofByte(r, sfx, n, j)
           S == {OutXof(j) : j \in Nat}
           a == XofBytes(r, sfx, n, m)
           b == XofBytes(r, sfx, n, l)
<1>1. a = [j \in 1 .. m |-> OutXof(j)] /\ b = [j \in 1 .. l |-> OutXof(j)]
  BY DEF XofBytes
<1> HIDE DEF OutXof
<1>2. a \in Seq(S) /\ Len(a) = m /\ \A j \in 1 .. m : a[j] = OutXof(j)
  <2> HIDE DEF a
  <2> QED BY ONLY <1>1, m \in Nat
<1>3. b \in Seq(S) /\ Len(b) = l /\ \A j \in 1 .. l : b[j] = OutXof(j)
  <2> HIDE DEF b
  <2> QED BY ONLY <1>1, l \in Nat
<1> HIDE DEF a, b, S
<1>4. SubSeq(a, 1, m) \in Seq(S) /\ Len(SubSeq(a, 1, m)) = m
      /\ \A j \in 1 .. m : SubSeq(a, 1, m)[j] = a[j]
  BY ONLY <1>2, m \in Nat
<1>5. SubSeq(b, 1, m) \in Seq(S) /\ Len(SubSeq(b, 1, m)) = m
      /\ \A j \in 1 .. m : SubSeq(b, 1, m)[j] = b[j]
  BY ONLY <1>3, m \in Nat, l \in Nat, m <= l
<1>6. \A j \in 1 .. m : SubSeq(a, 1, m)[j] = SubSeq(b, 1, m)[j]
  <2>1. \A j \in 1 .. m : j \in 1 .. l
    OBVIOUS
  <2> QED BY ONLY <1>2, <1>3, <1>4, <1>5, <2>1
<1> DEFINE c == SubSeq(a, 1, m)
           d == SubSeq(b, 1, m)
<1>7. c \in Seq(S) /\ d \in Seq(S) /\ Len(c) = m /\ Len(d) = m /\ \A j \in 1 .. m : c[j] = d[j]
  BY ONLY <1>4, <1>5, <1>6
<1> HIDE DEF c, d
<1>8. c = d
  BY ONLY <1>7
<1>9. IsPrefix(a, b)
  BY ONLY <1>2, <1>3, <1>8, m <= l DEF IsPrefix, c, d
<1> QED BY ONLY <1>2, <1>9 DEF a, b

\* What the reference says is what the promise says.
LEMMA SameReference ==
  ASSUME NEW r, NEW sfx, NEW n, NEW m
  PROVE  Promise!XofBytes(r, sfx, n, m) = XofBytes(r, sfx, n, m)
BY DEF Promise!XofBytes, Promise!XofByte, Promise!PaddedBlock, Promise!PaddedByte,
       Promise!Blank, Promise!PadEnd, XofBytes, XofByte, PaddedBlock, PaddedByte, Blank, PadEnd

-----------------------------------------------------------------------------
(* Each call keeps the invariant, and is a step that is promised.          *)
Promised == SpongeInv' /\ [Promise!XofNext]_(Promise!xofVars)

LEMMA AbsorbNext ==
  ASSUME SpongeInv, NEW r \in Rates, NEW n \in Nat, shake_absorb(r, n)
  PROVE  Promised
<1>1. /\ rate = r /\ phase = "absorbing" /\ message \in Nat /\ suffix \in SuffixSymbols
      /\ s = Absorbed(r, message) /\ pos = message % r /\ output = << >>
  BY DEF SpongeInv, shake_absorb
<1>2. /\ s' = keccak_absorb(s, pos, r, Input(n)).s /\ pos' = keccak_absorb(s, pos, r, Input(n)).pos
      /\ message' = message + n /\ rate' = rate /\ suffix' = suffix /\ phase' = phase /\ output' = output
  BY DEF shake_absorb
<1>3. PICK m \in Nat : m = message
  BY <1>1
<1>4. keccak_absorb(Absorbed(r, m), m % r, r, [i \in 1 .. n |-> {m + i}])
        = [s |-> Absorbed(r, m + n), pos |-> (m + n) % r]
  BY ONLY r \in Rates, m \in Nat, n \in Nat, AbsorbLemma
<1>5. s' = Absorbed(r, m + n) /\ pos' = (m + n) % r
  <2>1. keccak_absorb(s, pos, r, Input(n)) = [s |-> Absorbed(r, m + n), pos |-> (m + n) % r]
    BY ONLY <1>1, <1>3, <1>4 DEF Input
  <2> QED BY ONLY <1>2, <2>1
<1>6. message + n \in Nat /\ message + n >= message
  BY ONLY <1>1, n \in Nat
<1>7. SpongeInv'
  BY ONLY <1>1, <1>2, <1>3, <1>5, <1>6, r \in Rates DEF SpongeInv
<1>8. Promise!Absorb
  BY ONLY <1>1, <1>2, <1>6 DEF Promise!Absorb
<1> QED BY <1>7, <1>8 DEF Promised, Promise!XofNext

LEMMA FinalizeNext ==
  ASSUME SpongeInv, NEW r \in Rates, shake_finalize(r)
  PROVE  Promised
<1>1. /\ rate = r /\ phase = "absorbing" /\ message \in Nat /\ suffix = SHAKE
      /\ s = Absorbed(r, message) /\ pos = message % r /\ output = << >> /\ suffix \in SuffixSymbols
  BY DEF SpongeInv, shake_finalize
<1>2. /\ s' = keccak_finalize(s, pos, r, SHAKE) /\ pos' = r /\ phase' = "squeezing"
      /\ message' = message /\ rate' = rate /\ suffix' = suffix /\ output' = output
  BY DEF shake_finalize
<1>3. s' = Padded(r, SHAKE, message)
  <2>1. keccak_finalize(Absorbed(r, message), message % r, r, SHAKE) = Padded(r, SHAKE, message)
    BY ONLY <1>1, r \in Rates, FinalizeLemma
  <2> QED BY ONLY <1>1, <1>2, <2>1
<1>4. /\ XofBytes(r, SHAKE, message, 0) = << >> /\ SqueezedPos(r, 0) = r
      /\ Squeezed(r, SHAKE, message, 0) = Padded(r, SHAKE, message)
  BY ONLY r \in Rates, StartFacts
<1>5. /\ output' = XofBytes(rate', suffix', message', 0)
      /\ s' = Squeezed(rate', suffix', message', 0) /\ pos' = SqueezedPos(rate', 0)
  BY ONLY <1>1, <1>2, <1>3, <1>4
<1>6. SpongeInv'
  <2>1. 0 \in Nat
    OBVIOUS
  <2> QED BY ONLY <1>1, <1>2, <1>5, <2>1, r \in Rates DEF SpongeInv
<1>7. Promise!Absorb
  BY ONLY <1>1, <1>2 DEF Promise!Absorb
<1> QED BY <1>6, <1>7 DEF Promised, Promise!XofNext

LEMMA AbsorbOnceNext ==
  ASSUME SpongeInv, NEW r \in Rates, NEW n \in Nat, shake_absorb_once(r, n)
  PROVE  Promised
<1>1. /\ rate = r /\ phase = "absorbing" /\ message = 0 /\ suffix = SHAKE
      /\ output = << >> /\ suffix \in SuffixSymbols
  BY DEF SpongeInv, shake_absorb_once
<1>2. /\ s' = keccak_absorb_once(r, Input(n), SHAKE) /\ pos' = r /\ phase' = "squeezing"
      /\ message' = n /\ rate' = rate /\ suffix' = suffix /\ output' = output
  BY DEF shake_absorb_once
<1>3. s' = Padded(r, SHAKE, n)
  BY <1>1, <1>2, InputLemma, AbsorbOnceLemma
<1>4. /\ XofBytes(r, SHAKE, n, 0) = << >> /\ SqueezedPos(r, 0) = r
      /\ Squeezed(r, SHAKE, n, 0) = Padded(r, SHAKE, n)
  BY ONLY r \in Rates, StartFacts
<1>5. /\ output' = XofBytes(rate', suffix', message', 0)
      /\ s' = Squeezed(rate', suffix', message', 0) /\ pos' = SqueezedPos(rate', 0)
  BY ONLY <1>1, <1>2, <1>3, <1>4
<1>6. SpongeInv'
  <2>1. 0 \in Nat
    OBVIOUS
  <2> QED BY ONLY <1>1, <1>2, <1>5, <2>1, r \in Rates, n \in Nat DEF SpongeInv
<1>7. Promise!Absorb
  <2>1. message' >= message
    BY ONLY <1>1, <1>2, n \in Nat
  <2> QED BY ONLY <1>1, <1>2, <2>1 DEF Promise!Absorb
<1> QED BY <1>6, <1>7 DEF Promised, Promise!XofNext

\* Output that grows from m to l bytes is promised.
LEMMA OutputNext ==
  ASSUME SpongeInv, phase = "squeezing", NEW m \in Nat, NEW l \in Nat, m <= l,
         output = XofBytes(rate, suffix, message, m),
         output' = XofBytes(rate, suffix, message, l),
         s' = Squeezed(rate, suffix, message, l), pos' = SqueezedPos(rate, l),
         UNCHANGED <<rate, suffix, message, phase>>
  PROVE  Promised
<1>1. /\ Len(XofBytes(rate, suffix, message, l)) = l
      /\ IsPrefix(XofBytes(rate, suffix, message, m), XofBytes(rate, suffix, message, l))
  <2>1. Len(XofBytes(rate, suffix, message, l)) = l
    BY ONLY l \in Nat, OutputFacts
  <2> QED BY <2>1, OutputFacts
<1>2. SpongeInv'
  BY DEF SpongeInv
<1>3. Promise!XofBytes(rate, suffix, message, l) = XofBytes(rate, suffix, message, l)
  BY SameReference
<1>4. output' = Promise!XofBytes(rate, suffix, message, Len(output'))
  BY ONLY <1>1, <1>3, output' = XofBytes(rate, suffix, message, l)
<1>5. IsPrefix(output, output')
  BY <1>1
<1>6. Promise!Squeeze
  <2>1. Promise!IsPrefix(output, output')
    BY ONLY <1>5 DEF IsPrefix, Promise!IsPrefix
  <2> QED BY <1>4, <2>1 DEF Promise!Squeeze
<1> QED BY <1>2, <1>6 DEF Promised, Promise!XofNext

LEMMA SqueezeNext ==
  ASSUME SpongeInv, NEW r \in Rates, NEW n \in Nat, shake_squeeze(r, n)
  PROVE  Promised
<1>1. /\ rate = r /\ phase = "squeezing" /\ message \in Nat /\ suffix \in SuffixSymbols
  BY DEF SpongeInv, shake_squeeze
<1>2. PICK m \in Nat : /\ output = XofBytes(r, suffix, message, m)
                       /\ s = Squeezed(r, suffix, message, m)
                       /\ pos = SqueezedPos(r, m)
  BY <1>1 DEF SpongeInv
<1>3. /\ s' = keccak_squeeze(output, n, s, pos, r).s /\ pos' = keccak_squeeze(output, n, s, pos, r).pos
      /\ output' = keccak_squeeze(output, n, s, pos, r).out
      /\ UNCHANGED <<rate, suffix, message, phase>>
  BY DEF shake_squeeze
<1>4. keccak_squeeze(XofBytes(r, suffix, message, m), n, Squeezed(r, suffix, message, m),
                     SqueezedPos(r, m), r) = Squeezing(r, suffix, message, m + n)
  BY ONLY <1>1, r \in Rates, m \in Nat, n \in Nat, SqueezeLemma
<1>5. keccak_squeeze(output, n, s, pos, r) = Squeezing(r, suffix, message, m + n)
  BY ONLY <1>2, <1>4
<1>6. /\ output' = XofBytes(r, suffix, message, m + n)
      /\ s' = Squeezed(r, suffix, message, m + n) /\ pos' = SqueezedPos(r, m + n)
  BY ONLY <1>3, <1>5 DEF Squeezing
<1>7. PICK l \in Nat : l = m + n
  OBVIOUS
<1>8. m <= l
  BY ONLY <1>7, m \in Nat, n \in Nat
<1> QED BY ONLY <1>1, <1>2, <1>3, <1>6, <1>7, <1>8, SpongeInv, OutputNext

LEMMA SqueezeBlocksNext ==
  ASSUME SpongeInv, NEW r \in Rates, NEW nblocks \in Nat, shake_squeezeblocks(r, nblocks)
  PROVE  Promised
<1>1. /\ rate = r /\ phase = "squeezing" /\ message \in Nat /\ suffix \in SuffixSymbols /\ pos = r
  BY DEF SpongeInv, shake_squeezeblocks
<1>2. PICK m \in Nat : /\ output = XofBytes(r, suffix, message, m)
                       /\ s = Squeezed(r, suffix, message, m)
                       /\ pos = SqueezedPos(r, m)
  BY <1>1 DEF SpongeInv
<1>3. /\ s' = keccak_squeezeblocks(output, nblocks, s, r).s /\ pos' = pos
      /\ output' = keccak_squeezeblocks(output, nblocks, s, r).out
      /\ UNCHANGED <<rate, suffix, message, phase>>
  BY DEF shake_squeezeblocks
<1>4. PICK n \in Nat, l \in Nat : n = message /\ l = m + nblocks * r /\ m <= l
  <2>1. r \in Nat
    BY RateFacts
  <2>2. nblocks * r \in Nat
    BY ONLY <2>1, nblocks \in Nat
  <2> QED BY ONLY <1>1, <2>2, m \in Nat
<1>5. SqueezedPos(r, m) = r
  BY ONLY <1>1, <1>2
<1>6. /\ keccak_squeezeblocks(XofBytes(r, suffix, n, m), nblocks, Squeezed(r, suffix, n, m), r)
           = [out |-> XofBytes(r, suffix, n, m + nblocks * r),
              s |-> Squeezed(r, suffix, n, m + nblocks * r)]
      /\ SqueezedPos(r, m + nblocks * r) = r
  BY ONLY <1>1, <1>5, r \in Rates, m \in Nat, n \in Nat, nblocks \in Nat, SqueezeBlocksLemma
<1>7. /\ keccak_squeezeblocks(output, nblocks, s, r)
           = [out |-> XofBytes(r, suffix, message, l), s |-> Squeezed(r, suffix, message, l)]
      /\ SqueezedPos(r, l) = r
  BY ONLY <1>2, <1>4, <1>6
<1>8. /\ output' = XofBytes(r, suffix, message, l)
      /\ s' = Squeezed(r, suffix, message, l) /\ pos' = SqueezedPos(r, l)
  BY ONLY <1>1, <1>3, <1>7
<1> QED BY ONLY <1>1, <1>2, <1>3, <1>4, <1>8, SpongeInv, OutputNext

\* An answer with the bytes of the reference is promised.
LEMMA AnswerNext ==
  ASSUME SpongeInv, NEW n \in Nat, NEW outlen \in Nat, NEW bytes, Answer(n, bytes),
         bytes = XofBytes(rate, suffix, n, outlen)
  PROVE  Promised
<1>1. /\ phase = "absorbing" /\ message = 0 /\ message' = n /\ phase' = "answered" /\ output' = bytes
      /\ rate' = rate /\ suffix' = suffix
  BY DEF Answer
<1>2. SpongeInv'
  BY ONLY <1>1, SpongeInv, n \in Nat DEF SpongeInv
<1>3. Len(bytes) = outlen
  <2>1. Len(XofBytes(rate, suffix, n, outlen)) = outlen
    BY ONLY outlen \in Nat, OutputFacts
  <2> QED BY <2>1
<1>4. output' = Promise!XofBytes(rate, suffix, message', Len(output'))
  BY <1>1, <1>3, SameReference
<1>5. Promise!Hash
  BY <1>1, <1>4 DEF Promise!Hash
<1> QED BY <1>2, <1>5 DEF Promised, Promise!XofNext

\* Every step keeps the invariant and is promised.
LEMMA SpongeStep ==
  ASSUME SpongeInv, SpongeNext
  PROVE  Promised
<1>1. /\ SHAKE128_RATE \in Rates /\ SHAKE256_RATE \in Rates /\ SHA3_512_RATE \in Rates
      /\ MaxIn \in Nat /\ MaxOut \in Nat
  BY RateFacts
<1>2. \A n \in 0 .. MaxIn : n \in Nat
  BY <1>1
<1>3. CASE \E n \in 0 .. MaxIn : shake128_absorb(n) \/ shake256_absorb(n)
  BY <1>1, <1>2, <1>3, AbsorbNext DEF shake128_absorb, shake256_absorb
<1>4. CASE \E n \in 0 .. MaxIn : shake128_absorb_once(n) \/ shake256_absorb_once(n)
  BY <1>1, <1>2, <1>4, AbsorbOnceNext DEF shake128_absorb_once, shake256_absorb_once
<1>5. CASE shake128_finalize \/ shake256_finalize
  BY <1>1, <1>5, FinalizeNext DEF shake128_finalize, shake256_finalize
<1>6. CASE \E n \in 1 .. MaxOut : shake128_squeeze(n) \/ shake256_squeeze(n)
  <2>1. \A n \in 1 .. MaxOut : n \in Nat
    BY <1>1
  <2> QED BY <1>1, <1>6, <2>1, SqueezeNext DEF shake128_squeeze, shake256_squeeze
<1>7. CASE \E nblocks \in 1 .. MaxOut : shake128_squeezeblocks(nblocks) \/ shake256_squeezeblocks(nblocks)
  <2>1. \A nblocks \in 1 .. MaxOut : nblocks \in Nat
    BY <1>1
  <2> QED BY <1>1, <1>7, <2>1, SqueezeBlocksNext DEF shake128_squeezeblocks, shake256_squeezeblocks
<1>8. ASSUME NEW n \in 0 .. MaxIn, NEW outlen \in 0 .. MaxOut,
             shake128(n, outlen) \/ shake256(n, outlen) \/ ThreadShake256(n, outlen)
      PROVE  Promised
  <2>1. n \in Nat /\ outlen \in Nat /\ message = 0 /\ suffix = SHAKE /\ rate \in Rates
    BY <1>1, <1>8 DEF shake128, shake256, ThreadShake256, Answer
  <2>2. Answer(n, ShakeOf(rate, n, outlen)) \/ Answer(n, ThreadShakeOf(rate, n, outlen))
    BY <1>8 DEF shake128, shake256, ThreadShake256
  <2>3. ShakeOf(rate, n, outlen) = XofBytes(rate, suffix, n, outlen)
    BY <2>1, ShakeOfLemma
  <2>4. ThreadShakeOf(rate, n, outlen) = XofBytes(rate, suffix, n, outlen)
    BY <2>1, ThreadShakeOfLemma
  <2> QED BY <2>1, <2>2, <2>3, <2>4, AnswerNext
<1>9. ASSUME NEW n \in 0 .. MaxIn, NEW nblocks \in 0 .. MaxOut, ThreadShake128Blocks(n, nblocks)
      PROVE  Promised
  <2> DEFINE bytes == keccak_squeezeblocks(<< >>, nblocks,
                      ThreadAbsorb(SHAKE128_RATE, Input(n), SHAKE), SHAKE128_RATE).out
             outlen == 0 + nblocks * SHAKE128_RATE
  <2>1. n \in Nat /\ nblocks \in Nat /\ message = 0 /\ suffix = SHAKE /\ rate = SHAKE128_RATE
    BY <1>1, <1>9 DEF ThreadShake128Blocks, Answer
  <2>2. Answer(n, bytes)
    BY <1>9 DEF ThreadShake128Blocks
  <2>3. bytes = XofBytes(SHAKE128_RATE, SHAKE, n, outlen)
    BY <1>1, <2>1, ThreadBlocksLemma
  <2>4. SHAKE128_RATE \in Nat
    BY <1>1, RateFacts
  <2>5. outlen \in Nat
    BY ONLY <2>1, <2>4
  <2> HIDE DEF bytes, outlen
  <2> QED BY <2>1, <2>2, <2>3, <2>5, AnswerNext
<1>10. ASSUME NEW n \in 0 .. MaxIn,
              sha3_256(n) \/ sha3_512(n) \/ ThreadSha3_256(n) \/ ThreadSha3_512(n)
       PROVE  Promised
  <2>1. n \in Nat /\ message = 0 /\ suffix = SHA3 /\ rate \in Rates
    BY <1>1, <1>10 DEF sha3_256, sha3_512, ThreadSha3_256, ThreadSha3_512, Answer
  <2>2. PICK outlen \in Nat : outlen = rate - 1 /\ outlen <= rate
    BY <2>1, RateFacts
  <2>3. Answer(n, Sha3Of(rate, n, rate - 1)) \/ Answer(n, ThreadSha3Of(rate, n, rate - 1))
    BY <1>10 DEF sha3_256, sha3_512, ThreadSha3_256, ThreadSha3_512
  <2>4. Sha3Of(rate, n, outlen) = XofBytes(rate, suffix, n, outlen)
    BY <2>1, <2>2, Sha3OfLemma
  <2>5. ThreadSha3Of(rate, n, outlen) = XofBytes(rate, suffix, n, outlen)
    BY <2>1, <2>2, ThreadSha3OfLemma
  <2> QED BY <2>1, <2>2, <2>3, <2>4, <2>5, AnswerNext
<1> QED BY <1>3, <1>4, <1>5, <1>6, <1>7, <1>8, <1>9, <1>10 DEF SpongeNext

\* The states of a sponge are those the definition of FIPS 202 goes through
\* (keccak_absorb, keccak_finalize, keccak_squeeze).
THEOREM SpongeInvariant == SpongeSpec => []SpongeInv
<1>1. SpongeInv /\ [SpongeNext]_spongeVars => SpongeInv'
  <2>1. CASE SpongeInv /\ SpongeNext
    BY <2>1, SpongeStep DEF Promised
  <2>2. CASE SpongeInv /\ UNCHANGED spongeVars
    BY <2>2 DEF SpongeInv, spongeVars
  <2> QED BY <2>1, <2>2
<1> QED BY <1>1, SpongeInitInv, PTL DEF SpongeSpec

\* However a message is cut into calls and the output into pieces, and whether
\* the host's or a thread's functions do it, what is delivered is the output
\* that FIPS 202 defines for the message (fips202_cpu, fips202_cuda/thread);
\* for every rate below the width of the state and all lengths.
THEOREM SpongeImplementsXof == SpongeSpec => ImplementsXof
<1>1. SpongeInit => SpongeInv
  BY SpongeInitInv
<1>2. SpongeInv /\ [SpongeNext]_spongeVars => SpongeInv' /\ [Promise!XofNext]_(Promise!xofVars)
  <2>1. CASE SpongeInv /\ SpongeNext
    BY <2>1, SpongeStep DEF Promised
  <2>2. CASE SpongeInv /\ UNCHANGED spongeVars
    BY <2>2 DEF SpongeInv, spongeVars, Promise!xofVars
  <2> QED BY <2>1, <2>2
<1>3. SpongeInit => Promise!XofInit
  BY DEF SpongeInit, Promise!XofInit
<1> QED BY <1>1, <1>2, <1>3, PTL DEF SpongeSpec, ImplementsXof, Promise!XofSpec

-----------------------------------------------------------------------------
(* The instructions of a warp.                                             *)
\* The whole blocks of the input, the blocks that are stored, 1 if a rest of
\* the output is copied, and the instructions before the squeezing.
LayoutOf(k, n, len) ==
  [whole |-> n \div Rate,
   stores |-> IF k = "shake" THEN len \div Rate ELSE (len + Rate - 1) \div Rate,
   tail |-> IF k = "shake" /\ len % Rate # 0 THEN 1 ELSE 0,
   before |-> IF k = "shake_in_kernel" THEN 2 * (n \div Rate) + 2 ELSE 2 * (n \div Rate) + 1]

IsLayout(l) ==
  /\ l.whole \in Nat /\ l.stores \in Nat /\ l.tail \in {0, 1}
  /\ l.before \in {2 * l.whole + 1, 2 * l.whole + 2}

PermuteCount(l) == l.whole + l.stores + l.tail
Behind(l) == l.before + 2 * l.stores
Final(l) == Behind(l) + 4 * l.tail

\* The place of permutation k; the end of the program comes behind the last.
PermuteAt(l, k) ==
  IF k <= l.whole THEN 2 * k
  ELSE IF k <= PermuteCount(l) THEN l.before + 2 * (k - l.whole) - 1
  ELSE Final(l) + 1

\* What is at place i.
Instruction(l, i, x) ==
  \/ \E k \in 1 .. l.whole : i = 2 * k - 1 /\ x = <<"load", k>>
  \/ i = 2 * l.whole + 1 /\ x = <<"rest", l.whole>>
  \/ \E k \in 1 .. PermuteCount(l) : i = PermuteAt(l, k) /\ x = <<"permute", 0>>
  \/ \E k \in 1 .. l.stores : i = l.before + 2 * k /\ x = <<"store", k>>
  \/ l.before = 2 * l.whole + 2 /\ i = l.before /\ x = <<"sync", 0>>
  \/ l.tail = 1 /\ i = Behind(l) + 2 /\ x = <<"store_tmp", 1>>
  \/ l.tail = 1 /\ i = Behind(l) + 3 /\ x = <<"sync", 0>>
  \/ l.tail = 1 /\ i = Behind(l) + 4 /\ x = <<"copy", 0>>

HasShape(prog, l) ==
  DOMAIN prog = 1 .. Final(l) /\ \A i \in 1 .. Final(l) : Instruction(l, i, prog[i])

LEMMA WarpFacts ==
  ASSUME WarpAssumption
  PROVE  /\ Width \in Nat \ {0} /\ RateLanes \in Nat \ {0} /\ StateLanes \in Nat \ {0}
         /\ WarpSize \in Nat \ {0} /\ Memory \in Nat
         /\ Rate \in Nat \ {0} /\ Rate \in Rates /\ SHAKE \in SuffixSymbols
<1>1. /\ Width \in Nat /\ Width > 1 /\ RateLanes \in Nat /\ RateLanes > 0 /\ StateLanes \in Nat
      /\ WarpSize \in Nat /\ Memory \in Nat /\ RateLanes < StateLanes /\ StateLanes < WarpSize
      /\ StateBytes = Width * StateLanes
  BY DEF WarpAssumption
<1>2. Width * RateLanes + Width <= Width * StateLanes
  BY ONLY <1>1, Multiples
<1>3. Width * 0 + Width <= Width * RateLanes /\ Width * 0 = 0
  BY ONLY <1>1, Multiples
<1>4. Rate \in Nat /\ Rate >= 2 /\ Rate <= StateBytes - 1 /\ StateBytes \in Nat
  <2>1. Width * RateLanes \in Nat /\ Width * StateLanes \in Nat
    BY ONLY <1>1
  <2> DEFINE x == Width * RateLanes
             y == Width * StateLanes
  <2> HIDE DEF x, y
  <2>2. x \in Nat /\ y \in Nat /\ x + Width <= y /\ Width <= x
    BY ONLY <1>1, <1>2, <1>3, <2>1 DEF x, y
  <2>3. Rate = x /\ StateBytes = y
    BY ONLY <1>1 DEF Rate, x, y
  <2> QED BY ONLY <1>1, <2>2, <2>3
<1>5. SHAKE \in SuffixSymbols
  BY DEF SuffixSymbols
<1> QED BY <1>1, <1>4, <1>5 DEF Rates

LEMMA LayoutLemma ==
  ASSUME WarpAssumption, NEW k, NEW n \in Nat, NEW len \in Nat
  PROVE  IsLayout(LayoutOf(k, n, len))
<1>1. Rate \in Nat \ {0}
  BY WarpFacts
<1>2. n \div Rate \in Nat /\ len \div Rate \in Nat
  BY ONLY <1>1, n \in Nat, len \in Nat, DivFacts
<1>3. (len + Rate - 1) \div Rate \in Nat
  <2>1. len + Rate - 1 \in Nat
    BY <1>1
  <2> QED BY ONLY <1>1, <2>1, DivFacts
<1> QED BY ONLY <1>2, <1>3 DEF LayoutOf, IsLayout

\* Permutations are in order, and the end behind them.
LEMMA PermuteOrder ==
  ASSUME NEW l, IsLayout(l)
  PROVE  /\ PermuteCount(l) \in Nat /\ Behind(l) \in Nat /\ Final(l) \in Nat
         /\ Final(l) >= 2 * l.whole + 1
         /\ \A k \in 0 .. PermuteCount(l) + 1 : PermuteAt(l, k) \in Nat
         /\ \A j, k \in 0 .. PermuteCount(l) + 1 : j < k => PermuteAt(l, j) < PermuteAt(l, k)
         /\ PermuteAt(l, 0) = 0 /\ PermuteAt(l, PermuteCount(l) + 1) = Final(l) + 1
         /\ \A k \in 0 .. l.whole : PermuteAt(l, k) = 2 * k
         /\ PermuteAt(l, l.whole + 1) >= 2 * l.whole + 2
         /\ \A k \in 1 .. l.stores + l.tail : PermuteAt(l, l.whole + k) = l.before + 2 * k - 1
<1> DEFINE w == l.whole
           e == l.stores
           d == l.tail
           b == l.before
<1>1. w \in Nat /\ e \in Nat /\ d \in Nat /\ d <= 1 /\ b \in Nat /\ b > 2 * w /\ b <= 2 * w + 2
  BY DEF IsLayout
<1>2. PermuteCount(l) = w + e + d /\ Behind(l) = b + 2 * e /\ Final(l) = b + 2 * e + 4 * d
  BY DEF PermuteCount, Behind, Final
<1>3. \A k : PermuteAt(l, k) = IF k <= w THEN 2 * k ELSE IF k <= w + e + d THEN b + 2 * (k - w) - 1
                               ELSE b + 2 * e + 4 * d + 1
  BY ONLY <1>2 DEF PermuteAt
<1> HIDE DEF w, e, d, b
<1>4. /\ PermuteCount(l) \in Nat /\ Behind(l) \in Nat /\ Final(l) \in Nat
      /\ Final(l) >= 2 * w + 1
  BY ONLY <1>1, <1>2
<1>5. \A k \in 0 .. w + e + d + 1 : PermuteAt(l, k) \in Nat
  BY ONLY <1>1, <1>3
<1>6. \A j, k \in 0 .. w + e + d + 1 : j < k => PermuteAt(l, j) < PermuteAt(l, k)
  <2> TAKE j, k \in 0 .. w + e + d + 1
  <2> SUFFICES ASSUME j < k PROVE PermuteAt(l, j) < PermuteAt(l, k)
    OBVIOUS
  <2>1. /\ PermuteAt(l, j) = IF j <= w THEN 2 * j ELSE IF j <= w + e + d THEN b + 2 * (j - w) - 1
                             ELSE b + 2 * e + 4 * d + 1
        /\ PermuteAt(l, k) = IF k <= w THEN 2 * k ELSE IF k <= w + e + d THEN b + 2 * (k - w) - 1
                             ELSE b + 2 * e + 4 * d + 1
    BY ONLY <1>3
  <2> QED BY ONLY <1>1, <2>1, j \in 0 .. w + e + d + 1, k \in 0 .. w + e + d + 1, j < k
<1>7. PermuteAt(l, 0) = 0 /\ PermuteAt(l, PermuteCount(l) + 1) = Final(l) + 1
  BY ONLY <1>1, <1>2, <1>3
<1>8. \A k \in 0 .. w : PermuteAt(l, k) = 2 * k
  BY ONLY <1>1, <1>3
<1>9. PermuteAt(l, w + 1) >= 2 * w + 2
  BY ONLY <1>1, <1>3
<1>10. \A k \in 1 .. e + d : PermuteAt(l, w + k) = b + 2 * k - 1
  BY ONLY <1>1, <1>3
<1> QED BY <1>2, <1>4, <1>5, <1>6, <1>7, <1>8, <1>9, <1>10 DEF w, e, d, b

-----------------------------------------------------------------------------
(* The shape of the programs.                                              *)
Instructions == {"load", "permute", "rest", "store", "store_tmp", "sync", "copy"} \X Nat

LEMMA EvenOdd ==
  ASSUME NEW q \in Nat, NEW i \in 1 .. 2 * q
  PROVE  \/ i % 2 = 1 /\ \E k \in 1 .. q : i = 2 * k - 1 /\ (i + 1) \div 2 = k
         \/ i % 2 = 0 /\ \E k \in 1 .. q : i = 2 * k /\ i \div 2 = k
<1>1. i % 2 \in {0, 1} /\ i \div 2 \in Nat /\ i = 2 * (i \div 2) + (i % 2)
  OBVIOUS
<1> DEFINE h == i \div 2
<1>2. CASE i % 2 = 1
  <2>1. h + 1 \in 1 .. q /\ i = 2 * (h + 1) - 1
    BY <1>1, <1>2
  <2>2. (i + 1) \div 2 = h + 1
    BY <1>1, <1>2
  <2> QED BY <1>2, <2>1, <2>2
<1>3. CASE i % 2 = 0
  <2>1. h \in 1 .. q /\ i = 2 * h
    BY <1>1, <1>3
  <2> QED BY <1>3, <2>1
<1> QED BY <1>1, <1>2, <1>3

LEMMA AbsorbShape ==
  ASSUME NEW n, n \div Rate \in Nat
  PROVE  LET q == n \div Rate
             a == AbsorbProgram(n)
         IN  /\ a \in Seq(Instructions) /\ Len(a) = 2 * q + 1
             /\ \A i \in 1 .. 2 * q + 1 :
                  \/ \E k \in 1 .. q : i = 2 * k - 1 /\ a[i] = <<"load", k>>
                  \/ \E k \in 1 .. q : i = 2 * k /\ a[i] = <<"permute", 0>>
                  \/ i = 2 * q + 1 /\ a[i] = <<"rest", q>>
<1> DEFINE q == n \div Rate
           f == [i \in 1 .. 2 * q |-> IF i % 2 = 1 THEN <<"load", (i + 1) \div 2>> ELSE <<"permute", 0>>]
           r == <<<<"rest", q>>>>
           a == AbsorbProgram(n)
<1>1. q \in Nat /\ a = f \o r
  BY DEF AbsorbProgram
<1> HIDE DEF q
<1>2. 2 * q \in Nat
  BY <1>1
<1>3. \A i \in 1 .. 2 * q : \/ \E k \in 1 .. q : i = 2 * k - 1 /\ f[i] = <<"load", k>>
                            \/ \E k \in 1 .. q : i = 2 * k /\ f[i] = <<"permute", 0>>
  <2> TAKE i \in 1 .. 2 * q
  <2>1. f[i] = IF i % 2 = 1 THEN <<"load", (i + 1) \div 2>> ELSE <<"permute", 0>>
    OBVIOUS
  <2>2. \/ i % 2 = 1 /\ \E k \in 1 .. q : i = 2 * k - 1 /\ (i + 1) \div 2 = k
        \/ i % 2 = 0 /\ \E k \in 1 .. q : i = 2 * k /\ i \div 2 = k
    BY ONLY <1>1, i \in 1 .. 2 * q, EvenOdd
  <2> HIDE DEF f
  <2>3. CASE i % 2 = 1 /\ \E k \in 1 .. q : i = 2 * k - 1 /\ (i + 1) \div 2 = k
    BY ONLY <2>1, <2>3
  <2>4. CASE i % 2 = 0 /\ \E k \in 1 .. q : i = 2 * k /\ i \div 2 = k
    BY ONLY <2>1, <2>4
  <2> QED BY ONLY <2>2, <2>3, <2>4
<1>4. f \in Seq(Instructions) /\ Len(f) = 2 * q
  <2>1. \A i \in 1 .. 2 * q : f[i] \in Instructions
    <3> TAKE i \in 1 .. 2 * q
    <3> HIDE DEF f
    <3>1. (\E k \in 1 .. q : f[i] = <<"load", k>>) \/ f[i] = <<"permute", 0>>
      BY ONLY <1>3
    <3>2. \A k \in 1 .. q : <<"load", k>> \in Instructions
      BY <1>1 DEF Instructions
    <3>3. <<"permute", 0>> \in Instructions
      BY DEF Instructions
    <3> QED BY ONLY <3>1, <3>2, <3>3
  <2>2. f = [i \in 1 .. 2 * q |-> f[i]]
    OBVIOUS
  <2> HIDE DEF f
  <2> QED BY ONLY <1>2, <2>1, <2>2
<1>5. r \in Seq(Instructions) /\ Len(r) = 1 /\ r[1] = <<"rest", q>>
  BY <1>1 DEF Instructions
<1> HIDE DEF f, r
<1>6. IsJoined(f \o r, Instructions, f, r, 2 * q, 1)
  BY ONLY <1>4, <1>5, Joined
<1> HIDE DEF a
<1>7. /\ a \in Seq(Instructions) /\ Len(a) = 2 * q + 1
      /\ (\A j \in 1 .. 2 * q : a[j] = f[j]) /\ a[2 * q + 1] = r[1]
  <2>1. 1 \in 1 .. 1
    OBVIOUS
  <2> QED BY ONLY <1>1, <1>6, <2>1 DEF IsJoined
<1>8. \A i \in 1 .. 2 * q + 1 :
        \/ \E k \in 1 .. q : i = 2 * k - 1 /\ a[i] = <<"load", k>>
        \/ \E k \in 1 .. q : i = 2 * k /\ a[i] = <<"permute", 0>>
        \/ i = 2 * q + 1 /\ a[i] = <<"rest", q>>
  <2> TAKE i \in 1 .. 2 * q + 1
  <2>1. i \in 1 .. 2 * q \/ i = 2 * q + 1
    BY ONLY <1>2, i \in 1 .. 2 * q + 1
  <2> QED BY ONLY <1>3, <1>5, <1>7, <2>1
<1> QED BY <1>7, <1>8 DEF q, a

LEMMA SqueezeShape ==
  ASSUME NEW what \in {"store", "store_tmp"}, NEW nb \in Nat
  PROVE  LET f == SqueezeProgram(what, nb)
         IN  /\ f \in Seq(Instructions) /\ Len(f) = 2 * nb
             /\ \A i \in 1 .. 2 * nb :
                  \/ \E k \in 1 .. nb : i = 2 * k - 1 /\ f[i] = <<"permute", 0>>
                  \/ \E k \in 1 .. nb : i = 2 * k /\ f[i] = <<what, k>>
<1> DEFINE f == SqueezeProgram(what, nb)
<1>1. f = [i \in 1 .. 2 * nb |-> IF i % 2 = 1 THEN <<"permute", 0>> ELSE <<what, i \div 2>>]
  BY DEF SqueezeProgram
<1>2. 2 * nb \in Nat
  OBVIOUS
<1> HIDE DEF f
<1>3. \A i \in 1 .. 2 * nb : \/ \E k \in 1 .. nb : i = 2 * k - 1 /\ f[i] = <<"permute", 0>>
                             \/ \E k \in 1 .. nb : i = 2 * k /\ f[i] = <<what, k>>
  <2> TAKE i \in 1 .. 2 * nb
  <2>1. f[i] = IF i % 2 = 1 THEN <<"permute", 0>> ELSE <<what, i \div 2>>
    BY ONLY <1>1, i \in 1 .. 2 * nb
  <2>2. \/ i % 2 = 1 /\ \E k \in 1 .. nb : i = 2 * k - 1 /\ (i + 1) \div 2 = k
        \/ i % 2 = 0 /\ \E k \in 1 .. nb : i = 2 * k /\ i \div 2 = k
    BY ONLY nb \in Nat, i \in 1 .. 2 * nb, EvenOdd
  <2>3. CASE i % 2 = 1 /\ \E k \in 1 .. nb : i = 2 * k - 1 /\ (i + 1) \div 2 = k
    BY ONLY <2>1, <2>3
  <2>4. CASE i % 2 = 0 /\ \E k \in 1 .. nb : i = 2 * k /\ i \div 2 = k
    BY ONLY <2>1, <2>4
  <2> QED BY ONLY <2>2, <2>3, <2>4
<1>4. f \in Seq(Instructions) /\ Len(f) = 2 * nb
  <2>1. \A i \in 1 .. 2 * nb : f[i] \in Instructions
    <3> TAKE i \in 1 .. 2 * nb
    <3>1. (\E k \in 1 .. nb : f[i] = <<what, k>>) \/ f[i] = <<"permute", 0>>
      BY ONLY <1>3
    <3>2. \A k \in 1 .. nb : <<what, k>> \in Instructions
      <4>1. what \in {"load", "permute", "rest", "store", "store_tmp", "sync", "copy"}
        OBVIOUS
      <4> QED BY ONLY <4>1, nb \in Nat DEF Instructions
    <3>3. <<"permute", 0>> \in Instructions
      BY DEF Instructions
    <3> QED BY ONLY <3>1, <3>2, <3>3
  <2>2. f = [i \in 1 .. 2 * nb |-> f[i]]
    BY ONLY <1>1
  <2> QED BY ONLY <1>2, <2>1, <2>2
<1> QED BY <1>3, <1>4 DEF f

\* The parts of a program are where the layout says.
LEMMA AbsorbPart ==
  ASSUME NEW l, IsLayout(l), NEW i, NEW x,
         \/ \E k \in 1 .. l.whole : i = 2 * k - 1 /\ x = <<"load", k>>
         \/ \E k \in 1 .. l.whole : i = 2 * k /\ x = <<"permute", 0>>
         \/ i = 2 * l.whole + 1 /\ x = <<"rest", l.whole>>
  PROVE  Instruction(l, i, x)
<1>1. /\ PermuteCount(l) \in Nat /\ l.whole \in Nat /\ l.whole <= PermuteCount(l)
      /\ \A k \in 0 .. l.whole : PermuteAt(l, k) = 2 * k
  BY PermuteOrder DEF IsLayout, PermuteCount
<1>2. ASSUME NEW k \in 1 .. l.whole, i = 2 * k, x = <<"permute", 0>> PROVE Instruction(l, i, x)
  <2>1. k \in 1 .. PermuteCount(l) /\ i = PermuteAt(l, k)
    BY ONLY <1>1, <1>2
  <2> QED BY ONLY <1>2, <2>1 DEF Instruction
<1>3. CASE \E k \in 1 .. l.whole : i = 2 * k - 1 /\ x = <<"load", k>>
  BY ONLY <1>3 DEF Instruction
<1>4. CASE i = 2 * l.whole + 1 /\ x = <<"rest", l.whole>>
  BY ONLY <1>4 DEF Instruction
<1> QED BY <1>2, <1>3, <1>4

LEMMA SqueezePart ==
  ASSUME NEW l, IsLayout(l), NEW i, NEW x,
         \/ \E k \in 1 .. l.stores + l.tail : i = l.before + (2 * k - 1) /\ x = <<"permute", 0>>
         \/ \E k \in 1 .. l.stores : i = l.before + 2 * k /\ x = <<"store", k>>
  PROVE  Instruction(l, i, x)
<1>1. /\ l.whole \in Nat /\ l.stores \in Nat /\ l.tail \in Nat /\ l.before \in Nat
      /\ PermuteCount(l) = l.whole + l.stores + l.tail
      /\ \A k \in 1 .. l.stores + l.tail : PermuteAt(l, l.whole + k) = l.before + 2 * k - 1
  BY PermuteOrder DEF IsLayout, PermuteCount
<1>2. ASSUME NEW k \in 1 .. l.stores + l.tail, i = l.before + (2 * k - 1), x = <<"permute", 0>>
      PROVE  Instruction(l, i, x)
  <2>1. l.whole + k \in 1 .. PermuteCount(l) /\ i = PermuteAt(l, l.whole + k)
    BY ONLY <1>1, <1>2
  <2> QED BY ONLY <1>2, <2>1 DEF Instruction
<1>3. CASE \E k \in 1 .. l.stores : i = l.before + 2 * k /\ x = <<"store", k>>
  BY ONLY <1>3 DEF Instruction
<1> QED BY <1>2, <1>3

\* A program of two parts.
LEMMA TwoParts ==
  ASSUME NEW l, IsLayout(l), NEW a \in Seq(Instructions), NEW f \in Seq(Instructions),
         \A i \in 1 .. Len(a) : Instruction(l, i, a[i]),
         \A j \in 1 .. Len(f) : Instruction(l, Len(a) + j, f[j])
  PROVE  /\ a \o f \in Seq(Instructions) /\ Len(a \o f) = Len(a) + Len(f)
         /\ \A i \in 1 .. Len(a) + Len(f) : Instruction(l, i, (a \o f)[i])
<1> DEFINE c == a \o f
           la == Len(a)
           lf == Len(f)
<1>1. IsJoined(c, Instructions, a, f, la, lf)
  BY Joined
<1>2. la \in Nat /\ lf \in Nat
  OBVIOUS
<1> HIDE DEF c, la, lf
<1>3. \A i \in 1 .. la + lf : Instruction(l, i, c[i])
  <2> TAKE i \in 1 .. la + lf
  <2>1. CASE i \in 1 .. la
    BY ONLY <1>1, <2>1, \A j \in 1 .. Len(a) : Instruction(l, j, a[j]) DEF IsJoined, la
  <2>2. CASE i \notin 1 .. la
    <3>1. i - la \in 1 .. lf /\ la + (i - la) = i
      BY ONLY <1>2, <2>2, i \in 1 .. la + lf
    <3>2. c[la + (i - la)] = f[i - la]
      BY ONLY <1>1, <3>1 DEF IsJoined
    <3>3. Instruction(l, la + (i - la), f[i - la])
      BY ONLY <3>1, \A j \in 1 .. Len(f) : Instruction(l, Len(a) + j, f[j]) DEF la, lf
    <3> QED BY ONLY <3>1, <3>2, <3>3
  <2> QED BY <2>1, <2>2
<1> QED BY ONLY <1>1, <1>3 DEF c, la, lf, IsJoined

IsStores(f, nb) ==
  /\ f \in Seq(Instructions) /\ Len(f) = 2 * nb
  /\ \A i \in 1 .. 2 * nb :
       \/ \E k \in 1 .. nb : i = 2 * k - 1 /\ f[i] = <<"permute", 0>>
       \/ \E k \in 1 .. nb : i = 2 * k /\ f[i] = <<"store", k>>

LEMMA StoresShape ==
  ASSUME NEW nb \in Nat
  PROVE  IsStores(SqueezeProgram("store", nb), nb)
<1>1. "store" \in {"store", "store_tmp"}
  OBVIOUS
<1> QED BY ONLY <1>1, nb \in Nat, SqueezeShape DEF IsStores

LEMMA NotmpShape ==
  ASSUME WarpAssumption, NEW k \in {"notmp_shake", "notmp_shake_new"}, NEW n \in Nat, NEW len \in Nat
  PROVE  HasShape(Program(k, n, len), LayoutOf(k, n, len))
<1> DEFINE l == LayoutOf(k, n, len)
           a == AbsorbProgram(n)
           f == SqueezeProgram("store", (len + Rate - 1) \div Rate)
<1>1. IsLayout(l)
  BY LayoutLemma
<1>2. /\ l.whole = n \div Rate /\ l.stores = (len + Rate - 1) \div Rate /\ l.tail = 0
      /\ l.before = 2 * (n \div Rate) + 1
  BY DEF LayoutOf
<1>3. Program(k, n, len) = a \o f
  BY DEF Program, notmp_shake
<1>4. /\ a \in Seq(Instructions) /\ Len(a) = 2 * l.whole + 1
      /\ \A i \in 1 .. Len(a) :
           \/ \E j \in 1 .. l.whole : i = 2 * j - 1 /\ a[i] = <<"load", j>>
           \/ \E j \in 1 .. l.whole : i = 2 * j /\ a[i] = <<"permute", 0>>
           \/ i = 2 * l.whole + 1 /\ a[i] = <<"rest", l.whole>>
  <2>1. n \div Rate \in Nat
    BY <1>1, <1>2 DEF IsLayout
  <2> QED BY ONLY <1>2, <2>1, AbsorbShape
<1>5. /\ f \in Seq(Instructions) /\ Len(f) = 2 * l.stores
      /\ \A i \in 1 .. 2 * l.stores :
           \/ \E j \in 1 .. l.stores : i = 2 * j - 1 /\ f[i] = <<"permute", 0>>
           \/ \E j \in 1 .. l.stores : i = 2 * j /\ f[i] = <<"store", j>>
  <2>1. l.stores \in Nat /\ f = SqueezeProgram("store", l.stores)
    BY <1>1, <1>2 DEF IsLayout
  <2>2. IsStores(SqueezeProgram("store", l.stores), l.stores)
    <3> HIDE DEF l, f
    <3> QED BY ONLY <2>1, StoresShape
  <2> HIDE DEF l, f
  <2> QED BY ONLY <2>1, <2>2 DEF IsStores
<1> HIDE DEF l, a, f
<1>6. \A i \in 1 .. Len(a) : Instruction(l, i, a[i])
  BY ONLY <1>1, <1>4, AbsorbPart
<1>7. \A i \in 1 .. Len(f) : Instruction(l, Len(a) + i, f[i])
  <2> TAKE i \in 1 .. Len(f)
  <2>1. Len(a) = l.before /\ l.stores + l.tail = l.stores /\ l.stores \in Nat
    BY ONLY <1>1, <1>2, <1>4 DEF IsLayout
  <2>2. \/ \E j \in 1 .. l.stores + l.tail : Len(a) + i = l.before + (2 * j - 1) /\ f[i] = <<"permute", 0>>
        \/ \E j \in 1 .. l.stores : Len(a) + i = l.before + 2 * j /\ f[i] = <<"store", j>>
    BY ONLY <1>5, <2>1, i \in 1 .. Len(f)
  <2> QED BY ONLY <1>1, <2>2, SqueezePart
<1>8. Final(l) = Len(a) + Len(f)
  BY ONLY <1>1, <1>2, <1>4, <1>5 DEF Final, Behind, IsLayout
<1>9. /\ a \o f \in Seq(Instructions) /\ Len(a \o f) = Len(a) + Len(f)
      /\ \A i \in 1 .. Len(a) + Len(f) : Instruction(l, i, (a \o f)[i])
  BY ONLY <1>1, <1>4, <1>5, <1>6, <1>7, TwoParts
<1> DEFINE c == a \o f
<1> HIDE DEF c
<1>10. HasShape(c, l)
  BY ONLY <1>8, <1>9 DEF HasShape, c
<1> QED BY <1>3, <1>10 DEF c, l

LEMMA KernelShape ==
  ASSUME WarpAssumption, NEW n \in Nat, NEW len \in Nat
  PROVE  HasShape(Program("shake_in_kernel", n, len), LayoutOf("shake_in_kernel", n, len))
<1> DEFINE l == LayoutOf("shake_in_kernel", n, len)
           a == AbsorbProgram(n)
           z == <<<<"sync", 0>>>>
           f == SqueezeProgram("store", (len + Rate - 1) \div Rate)
<1>1. IsLayout(l)
  BY LayoutLemma
<1>2. /\ l.whole = n \div Rate /\ l.stores = (len + Rate - 1) \div Rate /\ l.tail = 0
      /\ l.before = 2 * (n \div Rate) + 2
  BY DEF LayoutOf
<1>3. Program("shake_in_kernel", n, len) = (a \o z) \o f
  BY DEF Program, shake_in_kernel
<1>4. /\ a \in Seq(Instructions) /\ Len(a) = 2 * l.whole + 1
      /\ \A i \in 1 .. Len(a) :
           \/ \E j \in 1 .. l.whole : i = 2 * j - 1 /\ a[i] = <<"load", j>>
           \/ \E j \in 1 .. l.whole : i = 2 * j /\ a[i] = <<"permute", 0>>
           \/ i = 2 * l.whole + 1 /\ a[i] = <<"rest", l.whole>>
  <2>1. n \div Rate \in Nat
    BY <1>1, <1>2 DEF IsLayout
  <2> QED BY ONLY <1>2, <2>1, AbsorbShape
<1>5. /\ f \in Seq(Instructions) /\ Len(f) = 2 * l.stores
      /\ \A i \in 1 .. 2 * l.stores :
           \/ \E j \in 1 .. l.stores : i = 2 * j - 1 /\ f[i] = <<"permute", 0>>
           \/ \E j \in 1 .. l.stores : i = 2 * j /\ f[i] = <<"store", j>>
  <2>1. l.stores \in Nat /\ f = SqueezeProgram("store", l.stores)
    BY <1>1, <1>2 DEF IsLayout
  <2>2. IsStores(SqueezeProgram("store", l.stores), l.stores)
    <3> HIDE DEF l, f
    <3> QED BY ONLY <2>1, StoresShape
  <2> HIDE DEF l, f
  <2> QED BY ONLY <2>1, <2>2 DEF IsStores
<1>6. z \in Seq(Instructions) /\ Len(z) = 1 /\ z[1] = <<"sync", 0>>
  BY DEF Instructions
<1> HIDE DEF l, a, f, z
<1>7. \A i \in 1 .. Len(a) : Instruction(l, i, a[i])
  BY ONLY <1>1, <1>4, AbsorbPart
<1>8. \A i \in 1 .. Len(z) : Instruction(l, Len(a) + i, z[i])
  <2>1. Len(a) + 1 = l.before /\ l.before = 2 * l.whole + 2
    BY ONLY <1>1, <1>2, <1>4 DEF IsLayout
  <2>2. Instruction(l, Len(a) + 1, z[1])
    BY ONLY <1>6, <2>1 DEF Instruction
  <2> QED BY ONLY <1>6, <2>2
<1> DEFINE b == a \o z
<1>9. b \in Seq(Instructions) /\ Len(b) = Len(a) + 1 /\ \A i \in 1 .. Len(a) + 1 : Instruction(l, i, b[i])
  BY ONLY <1>1, <1>4, <1>6, <1>7, <1>8, TwoParts
<1> HIDE DEF b
<1>10. \A i \in 1 .. Len(f) : Instruction(l, Len(b) + i, f[i])
  <2> TAKE i \in 1 .. Len(f)
  <2>1. Len(b) = l.before /\ l.stores + l.tail = l.stores /\ l.stores \in Nat
    BY ONLY <1>1, <1>2, <1>4, <1>9 DEF IsLayout
  <2>2. \/ \E j \in 1 .. l.stores + l.tail : Len(b) + i = l.before + (2 * j - 1) /\ f[i] = <<"permute", 0>>
        \/ \E j \in 1 .. l.stores : Len(b) + i = l.before + 2 * j /\ f[i] = <<"store", j>>
    BY ONLY <1>5, <2>1, i \in 1 .. Len(f)
  <2> QED BY ONLY <1>1, <2>2, SqueezePart
<1>11. Final(l) = Len(b) + Len(f)
  BY ONLY <1>1, <1>2, <1>4, <1>5, <1>9, SMTT(30) DEF Final, Behind, IsLayout
<1> DEFINE c == b \o f
<1>12. c \in Seq(Instructions) /\ Len(c) = Len(b) + Len(f)
       /\ \A i \in 1 .. Len(b) + Len(f) : Instruction(l, i, c[i])
  <2>1. \A i \in 1 .. Len(b) : Instruction(l, i, b[i])
    BY ONLY <1>9
  <2> QED BY ONLY <1>1, <1>5, <1>9, <1>10, <2>1, TwoParts
<1> HIDE DEF c
<1>13. HasShape(c, l)
  BY ONLY <1>11, <1>12 DEF HasShape
<1> QED BY <1>3, <1>13 DEF c, b, l

LEMMA TailShape ==
  LET z == TailProgram
  IN  /\ z \in Seq(Instructions) /\ Len(z) = 4
      /\ z[1] = <<"permute", 0>> /\ z[2] = <<"store_tmp", 1>>
      /\ z[3] = <<"sync", 0>> /\ z[4] = <<"copy", 0>>
<1> DEFINE f == SqueezeProgram("store_tmp", 1)
           y == <<<<"sync", 0>>, <<"copy", 0>>>>
           z == TailProgram
<1>1. z = f \o y
  BY DEF TailProgram
<1>2. /\ f \in Seq(Instructions) /\ Len(f) = 2
      /\ f[1] = <<"permute", 0>> /\ f[2] = <<"store_tmp", 1>>
  <2>1. f = [i \in 1 .. 2 * 1 |-> IF i % 2 = 1 THEN <<"permute", 0>> ELSE <<"store_tmp", i \div 2>>]
    BY DEF SqueezeProgram
  <2> HIDE DEF f
  <2>2. 1 \in 1 .. 2 * 1 /\ 2 \in 1 .. 2 * 1 /\ 1 % 2 = 1 /\ 2 % 2 # 1 /\ 2 \div 2 = 1
    OBVIOUS
  <2>3. f[1] = <<"permute", 0>> /\ f[2] = <<"store_tmp", 1>>
    BY ONLY <2>1, <2>2
  <2>4. f \in Seq(Instructions) /\ Len(f) = 2 * 1
    <3>1. "store_tmp" \in {"store", "store_tmp"}
      OBVIOUS
    <3>2. PICK nb \in Nat : nb = 1
      OBVIOUS
    <3>3. SqueezeProgram("store_tmp", nb) \in Seq(Instructions) /\ Len(SqueezeProgram("store_tmp", nb)) = 2 * nb
      BY ONLY <3>1, SqueezeShape
    <3> QED BY <3>2, <3>3 DEF f
  <2> QED BY <2>3, <2>4
<1>3. y \in Seq(Instructions) /\ Len(y) = 2 /\ y[1] = <<"sync", 0>> /\ y[2] = <<"copy", 0>>
  BY DEF Instructions
<1> HIDE DEF f, y, z
<1>4. IsJoined(f \o y, Instructions, f, y, 2, 2)
  BY ONLY <1>2, <1>3, Joined
<1>5. z[1] = f[1] /\ z[2] = f[2] /\ z[2 + 1] = y[1] /\ z[2 + 2] = y[2]
  BY ONLY <1>1, <1>4, 1 \in 1 .. 2, 2 \in 1 .. 2 DEF IsJoined
<1>6. z \in Seq(Instructions) /\ Len(z) = 2 + 2
  BY ONLY <1>1, <1>4 DEF IsJoined
<1> QED BY <1>2, <1>3, <1>5, <1>6 DEF z

LEMMA ShakeShape ==
  ASSUME WarpAssumption, NEW n \in Nat, NEW len \in Nat
  PROVE  HasShape(Program("shake", n, len), LayoutOf("shake", n, len))
<1> DEFINE l == LayoutOf("shake", n, len)
           a == AbsorbProgram(n)
           f == SqueezeProgram("store", len \div Rate)
           z == IF len % Rate = 0 THEN << >> ELSE TailProgram
<1>1. IsLayout(l)
  BY LayoutLemma
<1>2. /\ l.whole = n \div Rate /\ l.stores = len \div Rate
      /\ l.tail = (IF len % Rate # 0 THEN 1 ELSE 0)
      /\ l.before = 2 * (n \div Rate) + 1
  BY DEF LayoutOf
<1>3. Program("shake", n, len) = (a \o f) \o z
  BY DEF Program, shake
<1>4. /\ a \in Seq(Instructions) /\ Len(a) = 2 * l.whole + 1
      /\ \A i \in 1 .. Len(a) :
           \/ \E j \in 1 .. l.whole : i = 2 * j - 1 /\ a[i] = <<"load", j>>
           \/ \E j \in 1 .. l.whole : i = 2 * j /\ a[i] = <<"permute", 0>>
           \/ i = 2 * l.whole + 1 /\ a[i] = <<"rest", l.whole>>
  <2>1. n \div Rate \in Nat
    BY <1>1, <1>2 DEF IsLayout
  <2> QED BY ONLY <1>2, <2>1, AbsorbShape
<1>5. /\ f \in Seq(Instructions) /\ Len(f) = 2 * l.stores
      /\ \A i \in 1 .. 2 * l.stores :
           \/ \E j \in 1 .. l.stores : i = 2 * j - 1 /\ f[i] = <<"permute", 0>>
           \/ \E j \in 1 .. l.stores : i = 2 * j /\ f[i] = <<"store", j>>
  <2>1. l.stores \in Nat /\ f = SqueezeProgram("store", l.stores)
    BY <1>1, <1>2 DEF IsLayout
  <2>2. IsStores(SqueezeProgram("store", l.stores), l.stores)
    <3> HIDE DEF l, f
    <3> QED BY ONLY <2>1, StoresShape
  <2> HIDE DEF l, f
  <2> QED BY ONLY <2>1, <2>2 DEF IsStores
<1>6. /\ z \in Seq(Instructions) /\ Len(z) = 4 * l.tail
      /\ l.tail = 1 => /\ z[1] = <<"permute", 0>> /\ z[2] = <<"store_tmp", 1>>
                       /\ z[3] = <<"sync", 0>> /\ z[4] = <<"copy", 0>>
  <2>1. CASE len % Rate = 0
    <3>1. z = << >> /\ l.tail = 0
      BY <1>2, <2>1
    <3> HIDE DEF l, z
    <3> QED BY ONLY <3>1
  <2>2. CASE len % Rate # 0
    <3>1. z = TailProgram /\ l.tail = 1
      BY <1>2, <2>2
    <3> HIDE DEF l, z
    <3> QED BY ONLY <3>1, TailShape
  <2> QED BY <2>1, <2>2
<1> HIDE DEF l, a, f, z
<1>7. \A i \in 1 .. Len(a) : Instruction(l, i, a[i])
  BY ONLY <1>1, <1>4, AbsorbPart
<1>8. \A i \in 1 .. Len(f) : Instruction(l, Len(a) + i, f[i])
  <2> TAKE i \in 1 .. Len(f)
  <2>1. Len(a) = l.before /\ l.stores \in Nat /\ l.tail \in Nat /\ l.stores <= l.stores + l.tail
    BY ONLY <1>1, <1>2, <1>4 DEF IsLayout
  <2>2. \/ \E j \in 1 .. l.stores + l.tail : Len(a) + i = l.before + (2 * j - 1) /\ f[i] = <<"permute", 0>>
        \/ \E j \in 1 .. l.stores : Len(a) + i = l.before + 2 * j /\ f[i] = <<"store", j>>
    <3>1. \A j \in 1 .. l.stores : j \in 1 .. l.stores + l.tail
      BY ONLY <2>1
    <3> QED BY ONLY <1>5, <2>1, <3>1, i \in 1 .. Len(f)
  <2> QED BY ONLY <1>1, <2>2, SqueezePart
<1> DEFINE b == a \o f
<1>9. /\ b \in Seq(Instructions) /\ Len(b) = Len(a) + Len(f)
      /\ \A i \in 1 .. Len(a) + Len(f) : Instruction(l, i, b[i])
  BY ONLY <1>1, <1>4, <1>5, <1>7, <1>8, TwoParts
<1> HIDE DEF b
<1>10. Len(b) = Behind(l) /\ Final(l) = Len(b) + Len(z)
  BY ONLY <1>1, <1>2, <1>4, <1>5, <1>6, <1>9 DEF Final, Behind, IsLayout
<1>11. \A i \in 1 .. Len(z) : Instruction(l, Len(b) + i, z[i])
  <2> TAKE i \in 1 .. Len(z)
  <2>1. l.tail = 1 /\ i \in {1, 2, 3, 4}
    BY ONLY <1>1, <1>6, i \in 1 .. Len(z) DEF IsLayout
  <2>2. CASE i = 1
    <3>1. \E j \in 1 .. l.stores + l.tail : Behind(l) + 1 = l.before + (2 * j - 1) /\ z[1] = <<"permute", 0>>
      <4>1. l.stores + 1 \in 1 .. l.stores + l.tail /\ Behind(l) + 1 = l.before + (2 * (l.stores + 1) - 1)
        <5>1. l.stores \in Nat /\ l.before \in Nat /\ Behind(l) = l.before + 2 * l.stores
          BY ONLY <1>1 DEF IsLayout, Behind
        <5>2. \A e, x \in Nat : e + 1 \in 1 .. e + 1 /\ (x + 2 * e) + 1 = x + (2 * (e + 1) - 1)
          OBVIOUS
        <5> QED BY ONLY <2>1, <5>1, <5>2
      <4> QED BY ONLY <1>6, <2>1, <4>1
    <3>2. Instruction(l, Behind(l) + 1, z[1])
      BY ONLY <1>1, <3>1, SqueezePart
    <3> QED BY ONLY <1>10, <2>2, <3>2
  <2>3. CASE i = 2
    BY ONLY <1>6, <1>10, <2>1, <2>3 DEF Instruction
  <2>4. CASE i = 3
    BY ONLY <1>6, <1>10, <2>1, <2>4 DEF Instruction
  <2>5. CASE i = 4
    BY ONLY <1>6, <1>10, <2>1, <2>5 DEF Instruction
  <2> QED BY <2>1, <2>2, <2>3, <2>4, <2>5
<1> DEFINE c == b \o z
<1>12. c \in Seq(Instructions) /\ Len(c) = Len(b) + Len(z)
       /\ \A i \in 1 .. Len(b) + Len(z) : Instruction(l, i, c[i])
  <2>1. \A i \in 1 .. Len(b) : Instruction(l, i, b[i])
    BY ONLY <1>9
  <2> QED BY ONLY <1>1, <1>6, <1>9, <1>11, <2>1, TwoParts
<1> HIDE DEF c
<1>13. HasShape(c, l)
  BY ONLY <1>10, <1>12 DEF HasShape
<1> QED BY <1>3, <1>13 DEF c, b, l

\* The program of each function.
LEMMA ShapeLemma ==
  ASSUME WarpAssumption, NEW k \in Kinds, NEW n \in Nat, NEW len \in Nat
  PROVE  HasShape(Program(k, n, len), LayoutOf(k, n, len))
BY NotmpShape, KernelShape, ShakeShape DEF Kinds

-----------------------------------------------------------------------------
(* The places of the instructions.                                         *)
LEMMA PlaceOf ==
  ASSUME NEW l, NEW prog, HasShape(prog, l), NEW i \in 1 .. Final(l)
  PROVE  /\ prog[i][1] = "load" => \E k \in 1 .. l.whole : i = 2 * k - 1 /\ prog[i][2] = k
         /\ prog[i][1] = "rest" => i = 2 * l.whole + 1 /\ prog[i][2] = l.whole
         /\ prog[i][1] = "permute" => \E k \in 1 .. PermuteCount(l) : i = PermuteAt(l, k)
         /\ prog[i][1] = "store" => \E k \in 1 .. l.stores : i = l.before + 2 * k /\ prog[i][2] = k
         /\ prog[i][1] = "store_tmp" => l.tail = 1 /\ i = Behind(l) + 2
         /\ prog[i][1] = "sync" => \/ l.before = 2 * l.whole + 2 /\ i = l.before
                                   \/ l.tail = 1 /\ i = Behind(l) + 3
         /\ prog[i][1] = "copy" => l.tail = 1 /\ i = Behind(l) + 4
<1> DEFINE x == prog[i]
<1>1. Instruction(l, i, x)
  BY DEF HasShape
<1> HIDE DEF x
<1>2. CASE \E k \in 1 .. l.whole : i = 2 * k - 1 /\ x = <<"load", k>>
  BY ONLY <1>2 DEF x
<1>3. CASE i = 2 * l.whole + 1 /\ x = <<"rest", l.whole>>
  BY ONLY <1>3 DEF x
<1>4. CASE \E k \in 1 .. PermuteCount(l) : i = PermuteAt(l, k) /\ x = <<"permute", 0>>
  BY ONLY <1>4 DEF x
<1>5. CASE \E k \in 1 .. l.stores : i = l.before + 2 * k /\ x = <<"store", k>>
  BY ONLY <1>5 DEF x
<1>6. CASE l.before = 2 * l.whole + 2 /\ i = l.before /\ x = <<"sync", 0>>
  BY ONLY <1>6 DEF x
<1>7. CASE l.tail = 1 /\ i = Behind(l) + 2 /\ x = <<"store_tmp", 1>>
  BY ONLY <1>7 DEF x
<1>8. CASE l.tail = 1 /\ i = Behind(l) + 3 /\ x = <<"sync", 0>>
  BY ONLY <1>8 DEF x
<1>9. CASE l.tail = 1 /\ i = Behind(l) + 4 /\ x = <<"copy", 0>>
  BY ONLY <1>9 DEF x
<1> QED BY ONLY <1>1, <1>2, <1>3, <1>4, <1>5, <1>6, <1>7, <1>8, <1>9 DEF Instruction

\* At the place of a permutation is nothing else.
LEMMA PermutePlace ==
  ASSUME NEW l, IsLayout(l), NEW prog, HasShape(prog, l), NEW k \in 1 .. PermuteCount(l)
  PROVE  PermuteAt(l, k) \in 1 .. Final(l) /\ prog[PermuteAt(l, k)][1] = "permute"
<1> DEFINE i == PermuteAt(l, k)
           x == prog[i]
           w == l.whole
           e == l.stores
           d == l.tail
           b == l.before
<1>1. w \in Nat /\ e \in Nat /\ d \in Nat /\ d <= 1 /\ b \in Nat /\ b > 2 * w /\ b <= 2 * w + 2
  BY DEF IsLayout
<1>2. /\ k \in 1 .. w + e + d /\ Behind(l) = b + 2 * e /\ Final(l) = b + 2 * e + 4 * d
      /\ i = IF k <= w THEN 2 * k ELSE b + 2 * (k - w) - 1
  BY DEF PermuteCount, Behind, Final, PermuteAt
<1>3. w = l.whole /\ e = l.stores /\ d = l.tail /\ b = l.before
  OBVIOUS
<1> HIDE DEF w, e, d, b, i
<1>4. i \in 1 .. Final(l)
  BY ONLY <1>1, <1>2
<1>5. Instruction(l, i, x)
  BY <1>4 DEF HasShape
<1> HIDE DEF x
<1>6. ~(\E j \in 1 .. l.whole : i = 2 * j - 1 /\ x = <<"load", j>>)
  BY ONLY <1>1, <1>2, <1>3
<1>7. ~(i = 2 * l.whole + 1 /\ x = <<"rest", l.whole>>)
  BY ONLY <1>1, <1>2, <1>3
<1>8. ~(\E j \in 1 .. l.stores : i = l.before + 2 * j /\ x = <<"store", j>>)
  BY ONLY <1>1, <1>2, <1>3
<1>9. /\ ~(l.before = 2 * l.whole + 2 /\ i = l.before /\ x = <<"sync", 0>>)
      /\ ~(l.tail = 1 /\ i = Behind(l) + 2 /\ x = <<"store_tmp", 1>>)
      /\ ~(l.tail = 1 /\ i = Behind(l) + 3 /\ x = <<"sync", 0>>)
      /\ ~(l.tail = 1 /\ i = Behind(l) + 4 /\ x = <<"copy", 0>>)
  BY ONLY <1>1, <1>2, <1>3
<1>10. x = <<"permute", 0>>
  BY ONLY <1>5, <1>6, <1>7, <1>8, <1>9 DEF Instruction
<1>11. x[1] = "permute"
  BY ONLY <1>10
<1> QED BY ONLY <1>4, <1>11 DEF x, i

\* Before the rest is copied there is the synchronization.
LEMMA SyncPlace ==
  ASSUME NEW l, IsLayout(l), NEW prog, HasShape(prog, l), l.tail = 1
  PROVE  Behind(l) + 3 \in 1 .. Final(l) /\ prog[Behind(l) + 3][1] = "sync"
<1> DEFINE i == Behind(l) + 3
           x == prog[i]
           w == l.whole
           e == l.stores
           b == l.before
<1>1. w \in Nat /\ e \in Nat /\ b \in Nat /\ b > 2 * w /\ b <= 2 * w + 2
  BY DEF IsLayout
<1>2. /\ i = b + 2 * e + 3 /\ Behind(l) = b + 2 * e /\ Final(l) = b + 2 * e + 4
      /\ PermuteCount(l) = w + e + 1
      /\ \A k \in 1 .. w + e + 1 : PermuteAt(l, k) = IF k <= w THEN 2 * k ELSE b + 2 * (k - w) - 1
  BY <1>1 DEF PermuteCount, Behind, Final, PermuteAt
<1>3. w = l.whole /\ e = l.stores /\ b = l.before
  OBVIOUS
<1> HIDE DEF w, e, b, i
<1>4. i \in 1 .. Final(l)
  BY ONLY <1>1, <1>2
<1>5. Instruction(l, i, x)
  BY <1>4 DEF HasShape
<1> HIDE DEF x
<1>6. ~(\E j \in 1 .. l.whole : i = 2 * j - 1 /\ x = <<"load", j>>)
  BY ONLY <1>1, <1>2, <1>3
<1>7. ~(i = 2 * l.whole + 1 /\ x = <<"rest", l.whole>>)
  BY ONLY <1>1, <1>2, <1>3
<1>8. ~(\E j \in 1 .. l.stores : i = l.before + 2 * j /\ x = <<"store", j>>)
  BY ONLY <1>1, <1>2, <1>3
<1>9. ~(\E j \in 1 .. PermuteCount(l) : i = PermuteAt(l, j) /\ x = <<"permute", 0>>)
  <2> SUFFICES ASSUME NEW j \in 1 .. PermuteCount(l), i = PermuteAt(l, j) PROVE FALSE
    OBVIOUS
  <2>0. j \in 1 .. w + e + 1
    BY <1>2
  <2>1. PermuteAt(l, j) = IF j <= w THEN 2 * j ELSE b + 2 * (j - w) - 1
    BY ONLY <1>2, <2>0
  <2> QED BY ONLY <1>1, <1>2, <2>0, <2>1, i = PermuteAt(l, j)
<1>10. /\ ~(l.before = 2 * l.whole + 2 /\ i = l.before /\ x = <<"sync", 0>>)
       /\ ~(l.tail = 1 /\ i = Behind(l) + 2 /\ x = <<"store_tmp", 1>>)
       /\ ~(l.tail = 1 /\ i = Behind(l) + 4 /\ x = <<"copy", 0>>)
  BY ONLY <1>1, <1>2, <1>3
<1>11. x = <<"sync", 0>>
  BY ONLY <1>5, <1>6, <1>7, <1>8, <1>9, <1>10 DEF Instruction
<1>12. x[1] = "sync"
  BY ONLY <1>11
<1> QED BY ONLY <1>4, <1>12 DEF x, i

-----------------------------------------------------------------------------
(* How far the threads are.                                                *)
LaneThreads == 0 .. StateLanes - 1

\* When p permutations are done, c says where the threads are.
InOrder(l, p, c) ==
  /\ p \in 0 .. PermuteCount(l)
  /\ DOMAIN c = Threads
  /\ \A t \in Threads : c[t] \in 1 .. Final(l) + 1
  /\ \A t \in LaneThreads : PermuteAt(l, p) < c[t] /\ c[t] <= PermuteAt(l, p + 1)
  /\ l.tail = 1 => \A t, u \in Threads : c[t] > Behind(l) + 3 => c[u] > Behind(l) + 3

\* The threads ts take a step.
Moved(c, ts) == [t \in Threads |-> IF t \in ts THEN c[t] + 1 ELSE c[t]]

LEMMA LaneFacts ==
  ASSUME WarpAssumption
  PROVE  /\ LaneThreads \subseteq Threads /\ 0 \in LaneThreads /\ 0 \in Threads
         /\ \A t \in 0 .. RateLanes - 1 : t \in LaneThreads
         /\ \A t \in Threads : t \in LaneThreads <=> t < StateLanes
  BY WarpFacts DEF WarpAssumption, LaneThreads, Threads

\* Threads that do not permute may go on; those that synchronize go together.
LEMMA MoveInOrder ==
  ASSUME NEW l, IsLayout(l), NEW prog, HasShape(prog, l), NEW p, NEW c, InOrder(l, p, c),
         LaneThreads \subseteq Threads,
         NEW ts \in SUBSET Threads,
         \A t \in ts : c[t] \in 1 .. Final(l),
         \A t \in ts : t \in LaneThreads => prog[c[t]][1] # "permute",
         ts = Threads \/ \A t \in ts : prog[c[t]][1] # "sync",
         ts = Threads => \A t \in Threads : c[t] = c[0]
  PROVE  InOrder(l, p, Moved(c, ts))
<1> DEFINE d == Moved(c, ts)
           b == Behind(l)
           f == Final(l)
<1>1. /\ p \in 0 .. PermuteCount(l) /\ PermuteCount(l) \in Nat
      /\ DOMAIN c = Threads /\ b \in Nat /\ f \in Nat
      /\ \A k \in 0 .. PermuteCount(l) + 1 : PermuteAt(l, k) \in Nat
      /\ PermuteAt(l, PermuteCount(l) + 1) = f + 1
  BY PermuteOrder DEF InOrder
<1>2. \A t \in Threads : c[t] \in 1 .. f + 1
  BY DEF InOrder
<1>3. /\ DOMAIN d = Threads /\ \A t \in Threads : d[t] = IF t \in ts THEN c[t] + 1 ELSE c[t]
      /\ \A t \in ts : d[t] = c[t] + 1 /\ c[t] \in 1 .. f
  BY DEF Moved
<1> HIDE DEF d, b, f
<1>4. \A t \in Threads : d[t] \in 1 .. f + 1
  BY ONLY <1>1, <1>2, <1>3
<1>5. ASSUME NEW t \in LaneThreads
      PROVE  PermuteAt(l, p) < d[t] /\ d[t] <= PermuteAt(l, p + 1)
  <2>1. PermuteAt(l, p) < c[t] /\ c[t] <= PermuteAt(l, p + 1)
    BY ONLY InOrder(l, p, c), t \in LaneThreads DEF InOrder
  <2>2. t \in Threads
    BY ONLY t \in LaneThreads, LaneThreads \subseteq Threads
  <2>3. PermuteAt(l, p) \in Nat /\ PermuteAt(l, p + 1) \in Nat /\ c[t] \in Nat
    <3>1. p \in 0 .. PermuteCount(l) + 1 /\ p + 1 \in 0 .. PermuteCount(l) + 1
      BY ONLY <1>1
    <3>2. c[t] \in Nat
      BY ONLY <1>1, <1>2, <2>2
    <3> QED BY ONLY <1>1, <3>1, <3>2
  <2>4. CASE t \notin ts
    BY ONLY <1>3, <2>1, <2>2, <2>4
  <2>5. CASE t \in ts
    <3>1. c[t] # PermuteAt(l, p + 1)
      <4>1. CASE p = PermuteCount(l)
        BY ONLY <1>1, <1>3, <2>5, <4>1
      <4>2. CASE p # PermuteCount(l)
        <5>1. p + 1 \in 1 .. PermuteCount(l)
          BY ONLY <1>1, <4>2
        <5>2. prog[PermuteAt(l, p + 1)][1] = "permute"
          BY ONLY <5>1, IsLayout(l), HasShape(prog, l), PermutePlace
        <5>3. prog[c[t]][1] # "permute"
          BY ONLY <2>5, t \in LaneThreads, \A u \in ts : u \in LaneThreads => prog[c[u]][1] # "permute"
        <5> QED BY ONLY <5>2, <5>3
      <4> QED BY <4>1, <4>2
    <3> QED BY ONLY <1>3, <2>1, <2>2, <2>3, <2>5, <3>1
  <2> QED BY <2>4, <2>5
<1>6. ASSUME l.tail = 1, NEW t \in Threads, NEW u \in Threads, d[t] > b + 3 PROVE d[u] > b + 3
  <2>1. \A v, x \in Threads : c[v] > b + 3 => c[x] > b + 3
    BY <1>6 DEF InOrder, b
  <2>2. c[t] \in Nat /\ c[u] \in Nat
    BY ONLY <1>1, <1>2, t \in Threads, u \in Threads
  <2>3. d[u] >= c[u]
    BY ONLY <1>3, <2>2, u \in Threads
  <2>4. d[u] \in Nat
    BY ONLY <1>1, <1>4, u \in Threads
  <2>5. CASE c[t] > b + 3
    BY ONLY <1>1, <2>1, <2>2, <2>3, <2>4, <2>5, t \in Threads, u \in Threads
  <2>6. CASE ~(c[t] > b + 3)
    <3>1. t \in ts /\ c[t] = b + 3
      BY ONLY <1>1, <1>3, <1>6, <2>2, <2>6, t \in Threads
    <3>2. prog[b + 3][1] = "sync"
      BY <1>6, SyncPlace DEF b
    <3>3. ts = Threads
      BY ONLY <3>1, <3>2, ts = Threads \/ \A v \in ts : prog[c[v]][1] # "sync"
    <3>4. c[u] = c[0] /\ c[t] = c[0]
      BY ONLY <3>3, t \in Threads, u \in Threads, ts = Threads => \A v \in Threads : c[v] = c[0]
    <3>5. d[u] = c[u] + 1
      BY ONLY <1>3, <3>3, u \in Threads
    <3> QED BY ONLY <1>1, <3>1, <3>4, <3>5
  <2> QED BY <2>5, <2>6
<1> QED BY <1>1, <1>3, <1>4, <1>5, <1>6 DEF InOrder, d, b, f

\* The lanes permute together.
LEMMA PermuteInOrder ==
  ASSUME NEW l, IsLayout(l), NEW prog, HasShape(prog, l), NEW p, NEW c, InOrder(l, p, c),
         LaneThreads \subseteq Threads, 0 \in LaneThreads,
         \A t \in LaneThreads : c[t] \in 1 .. Final(l) /\ prog[c[t]][1] = "permute" /\ c[t] = c[0]
  PROVE  /\ InOrder(l, p + 1, Moved(c, LaneThreads))
         /\ \A t \in LaneThreads : c[t] = PermuteAt(l, p + 1)
<1> DEFINE d == Moved(c, LaneThreads)
           b == Behind(l)
           f == Final(l)
           n == PermuteCount(l)
           P(k) == PermuteAt(l, k)
<1>1. /\ p \in 0 .. n /\ n \in Nat
      /\ DOMAIN c = Threads /\ b \in Nat /\ f \in Nat
      /\ \A k \in 0 .. n + 1 : P(k) \in Nat
      /\ \A j, k \in 0 .. n + 1 : j < k => P(j) < P(k)
      /\ P(n + 1) = f + 1
  BY PermuteOrder DEF InOrder
<1>2. \A t \in Threads : c[t] \in 1 .. f + 1
  BY DEF InOrder
<1>3. /\ DOMAIN d = Threads /\ \A t \in Threads : d[t] = IF t \in LaneThreads THEN c[t] + 1 ELSE c[t]
  BY DEF Moved
<1>4. \A t \in LaneThreads : P(p) < c[t] /\ c[t] <= P(p + 1) /\ c[t] \in 1 .. f /\ c[t] = c[0]
  BY DEF InOrder
<1>5. PICK k \in 1 .. n : c[0] = P(k)
  <2>1. c[0] \in 1 .. Final(l) /\ prog[c[0]][1] = "permute"
    OBVIOUS
  <2> QED BY ONLY <2>1, HasShape(prog, l), PlaceOf
<1> HIDE DEF d, b, f, n, P
<1>6. k = p + 1
  <2>1. k \in 0 .. n + 1 /\ p \in 0 .. n + 1 /\ p + 1 \in 0 .. n + 1
    BY ONLY <1>1
  <2>2. P(k) \in Nat /\ P(p) \in Nat /\ P(p + 1) \in Nat
    BY ONLY <1>1, <2>1
  <2>3. P(p) < P(k) /\ P(k) <= P(p + 1)
    BY ONLY <1>4, <1>5, 0 \in LaneThreads
  <2>4. (k < p => P(k) < P(p)) /\ (p + 1 < k => P(p + 1) < P(k))
    BY ONLY <1>1, <2>1
  <2>5. k # p /\ ~(k < p) /\ ~(p + 1 < k)
    BY ONLY <2>2, <2>3, <2>4
  <2> QED BY ONLY <2>1, <2>5, <1>1
<1>7. \A t \in LaneThreads : c[t] = P(p + 1) /\ d[t] = P(p + 1) + 1
  BY ONLY <1>3, <1>4, <1>5, <1>6, LaneThreads \subseteq Threads
<1>8. p + 1 \in 0 .. n
  BY ONLY <1>1, <1>6
<1>9. \A t \in Threads : d[t] \in 1 .. f + 1
  <2> TAKE t \in Threads
  <2>1. c[t] \in 1 .. f + 1 /\ (t \in LaneThreads => c[t] \in 1 .. f)
    BY ONLY <1>2, <1>4
  <2> QED BY ONLY <1>1, <1>3, <2>1
<1>10. ASSUME NEW t \in LaneThreads PROVE P(p + 1) < d[t] /\ d[t] <= P((p + 1) + 1)
  <2>1. p + 1 \in 0 .. n + 1 /\ (p + 1) + 1 \in 0 .. n + 1 /\ p + 1 < (p + 1) + 1
    BY ONLY <1>1, <1>8
  <2>2. P(p + 1) \in Nat /\ P((p + 1) + 1) \in Nat /\ P(p + 1) < P((p + 1) + 1)
    BY ONLY <1>1, <2>1
  <2> QED BY ONLY <1>7, <2>2
<1>11. ASSUME l.tail = 1, NEW t \in Threads, NEW u \in Threads, d[t] > b + 3 PROVE d[u] > b + 3
  <2>1. \A v, x \in Threads : c[v] > b + 3 => c[x] > b + 3
    BY <1>11 DEF InOrder, b
  <2>2. c[t] \in Nat /\ c[u] \in Nat
    BY ONLY <1>1, <1>2, t \in Threads, u \in Threads
  <2>3. d[u] >= c[u] /\ d[u] \in Nat
    BY ONLY <1>3, <2>2, u \in Threads
  <2>4. c[t] # b + 3 \/ t \notin LaneThreads
    <3>1. prog[b + 3][1] = "sync"
      BY <1>11, SyncPlace DEF b
    <3>2. t \in LaneThreads => prog[c[t]][1] = "permute"
      OBVIOUS
    <3> QED BY ONLY <3>1, <3>2
  <2>5. c[t] > b + 3
    BY ONLY <1>1, <1>3, <1>11, <2>2, <2>4, t \in Threads
  <2>6. c[u] > b + 3
    BY ONLY <2>1, <2>5, t \in Threads, u \in Threads
  <2> QED BY ONLY <1>1, <2>2, <2>3, <2>6
<1> QED BY <1>3, <1>7, <1>8, <1>9, <1>10, <1>11 DEF InOrder, d, b, f, n, P

\* The place of a lane tells how often the state was permuted.
LEMMA Between ==
  ASSUME NEW l, IsLayout(l), NEW p, NEW c, InOrder(l, p, c), NEW t \in LaneThreads,
         NEW q \in 0 .. PermuteCount(l), PermuteAt(l, q) < c[t], c[t] <= PermuteAt(l, q + 1),
         c[t] \in Nat
  PROVE  p = q
<1> DEFINE n == PermuteCount(l)
           P(k) == PermuteAt(l, k)
           x == c[t]
<1>1. /\ p \in 0 .. n /\ n \in Nat
      /\ \A k \in 0 .. n + 1 : P(k) \in Nat
      /\ \A j, k \in 0 .. n + 1 : j < k => P(j) < P(k)
  BY PermuteOrder DEF InOrder
<1>2. P(p) < x /\ x <= P(p + 1) /\ P(q) < x /\ x <= P(q + 1) /\ x \in Nat /\ q \in 0 .. n
  BY DEF InOrder
<1> HIDE DEF n, P, x
<1>3. p \in 0 .. n + 1 /\ p + 1 \in 0 .. n + 1 /\ q \in 0 .. n + 1 /\ q + 1 \in 0 .. n + 1
  BY ONLY <1>1, <1>2
<1>4. P(p) \in Nat /\ P(p + 1) \in Nat /\ P(q) \in Nat /\ P(q + 1) \in Nat
  BY ONLY <1>1, <1>3
<1>5. p + 1 < q => P(p + 1) < P(q)
  BY ONLY <1>1, <1>3
<1>6. q + 1 < p => P(q + 1) < P(p)
  BY ONLY <1>1, <1>3
<1>7. ~(P(p + 1) <= P(q)) /\ ~(P(q + 1) <= P(p))
  BY ONLY <1>2, <1>4
<1>8. ~(p + 1 < q) /\ p + 1 # q /\ ~(q + 1 < p) /\ q + 1 # p
  BY ONLY <1>4, <1>5, <1>6, <1>7
<1> QED BY ONLY <1>1, <1>2, <1>8

LEMMA LanePlaces ==
  ASSUME NEW l, IsLayout(l), NEW p, NEW c, InOrder(l, p, c), NEW t \in LaneThreads, c[t] \in Nat
  PROVE  /\ \A k \in 1 .. l.whole : c[t] = 2 * k - 1 => p = k - 1
         /\ c[t] = 2 * l.whole + 1 => p = l.whole
         /\ \A k \in 1 .. l.stores : c[t] = l.before + 2 * k => p = l.whole + k
         /\ l.tail = 1 /\ c[t] > Behind(l) + 1 => p = l.whole + l.stores + 1
<1> DEFINE n == PermuteCount(l)
           P(k) == PermuteAt(l, k)
           x == c[t]
           w == l.whole
           e == l.stores
           d == l.tail
           b == l.before
<1>1. /\ w \in Nat /\ e \in Nat /\ d \in Nat /\ d <= 1 /\ b \in Nat /\ b > 2 * w /\ b <= 2 * w + 2
      /\ n = w + e + d /\ Behind(l) = b + 2 * e /\ Final(l) = b + 2 * e + 4 * d
      /\ x \in Nat /\ x <= Final(l) + 1
  <2>1. t \in Threads => c[t] \in 1 .. Final(l) + 1
    BY DEF InOrder
  <2>2. x <= P(p + 1) /\ p \in 0 .. n /\ p + 1 \in 0 .. n + 1 /\ n + 1 \in 0 .. n + 1
    BY PermuteOrder DEF InOrder
  <2>3. P(p + 1) \in Nat /\ P(n + 1) \in Nat /\ (p + 1 < n + 1 => P(p + 1) < P(n + 1)) /\ P(n + 1) = Final(l) + 1
    BY <2>2, PermuteOrder
  <2>4. w \in Nat /\ e \in Nat /\ d \in Nat /\ d <= 1 /\ b \in Nat /\ b > 2 * w /\ b <= 2 * w + 2
    BY DEF IsLayout
  <2>5. n = w + e + d /\ Behind(l) = b + 2 * e /\ Final(l) = b + 2 * e + 4 * d
    BY DEF PermuteCount, Behind, Final
  <2>6. x \in Nat
    OBVIOUS
  <2> HIDE DEF n, P, x, w, e, d, b
  <2>7. p + 1 < n + 1 \/ p + 1 = n + 1
    BY ONLY <2>2, <2>4, <2>5
  <2>8. x <= P(n + 1)
    BY ONLY <2>2, <2>3, <2>6, <2>7
  <2> QED BY ONLY <2>3, <2>4, <2>5, <2>6, <2>8
<1>2. \A k : P(k) = IF k <= w THEN 2 * k ELSE IF k <= w + e + d THEN b + 2 * (k - w) - 1
                    ELSE b + 2 * e + 4 * d + 1
  BY <1>1 DEF PermuteAt
<1>3. \A q \in 0 .. n : P(q) < x /\ x <= P(q + 1) => p = q
  BY Between
<1>4. w = l.whole /\ e = l.stores /\ d = l.tail /\ b = l.before /\ x = c[t]
  OBVIOUS
<1> HIDE DEF n, P, x, w, e, d, b
<1>5. ASSUME NEW k \in 1 .. w, x = 2 * k - 1 PROVE p = k - 1
  <2>1. k - 1 \in 0 .. n /\ (k - 1) + 1 = k
    BY ONLY <1>1
  <2>2. P(k - 1) = 2 * (k - 1) /\ P(k) = 2 * k
    BY ONLY <1>1, <1>2
  <2>3. P(k - 1) < x /\ x <= P((k - 1) + 1)
    BY ONLY <1>5, <2>1, <2>2
  <2> QED BY ONLY <1>3, <2>1, <2>3
<1>6. ASSUME x = 2 * w + 1 PROVE p = w
  <2>1. w \in 0 .. n /\ P(w) = 2 * w
    BY ONLY <1>1, <1>2
  <2>2. P(w + 1) > 2 * w
    BY ONLY <1>1, <1>2
  <2>3. P(w + 1) \in Nat /\ x \in Nat
    BY ONLY <1>1, <1>2
  <2>4. P(w) < x /\ x <= P(w + 1)
    BY ONLY <1>1, <1>6, <2>1, <2>2, <2>3
  <2> QED BY ONLY <1>3, <2>1, <2>4
<1>7. ASSUME NEW k \in 1 .. e, x = b + 2 * k PROVE p = w + k
  <2>1. w + k \in 0 .. n /\ P(w + k) = b + 2 * k - 1
    BY ONLY <1>1, <1>2
  <2>2. P((w + k) + 1) >= b + 2 * k /\ P((w + k) + 1) \in Nat
    <3>1. PICK y \in Nat : y = (w + k) + 1
      BY ONLY <1>1
    <3>2. P(y) = IF y <= w THEN 2 * y ELSE IF y <= w + e + d THEN b + 2 * (y - w) - 1
                 ELSE b + 2 * e + 4 * d + 1
      BY ONLY <1>2
    <3>3. P(y) >= b + 2 * k /\ P(y) \in Nat
      BY ONLY <1>1, <3>1, <3>2, k \in 1 .. e
    <3> QED BY ONLY <3>1, <3>3
  <2>3. P(w + k) < x /\ x <= P((w + k) + 1)
    BY ONLY <1>1, <1>7, <2>1, <2>2
  <2> QED BY ONLY <1>3, <2>1, <2>3
<1>8. ASSUME d = 1, x > Behind(l) + 1 PROVE p = w + e + 1
  <2>1. w + e + 1 \in 0 .. n /\ P(w + e + 1) = b + 2 * (e + 1) - 1 /\ P((w + e + 1) + 1) = b + 2 * e + 4 * d + 1
    BY ONLY <1>1, <1>2, <1>8
  <2>2. P(w + e + 1) < x /\ x <= P((w + e + 1) + 1)
    BY ONLY <1>1, <1>8, <2>1
  <2> QED BY ONLY <1>3, <2>1, <2>2
<1> QED BY ONLY <1>4, <1>5, <1>6, <1>7, <1>8

\* Who is at the end of the rest of the output finds nobody in the input.
LEMMA CopyPlace ==
  ASSUME WarpAssumption, NEW l, IsLayout(l), NEW p, NEW c, InOrder(l, p, c), NEW t \in Threads,
         l.tail = 1, c[t] > Behind(l) + 3
  PROVE  /\ \A u \in Threads : c[u] > Behind(l) + 3
         /\ p = l.whole + l.stores + 1
<1>1. \A u \in Threads : c[u] > Behind(l) + 3
  BY DEF InOrder
<1>2. 0 \in LaneThreads /\ 0 \in Threads
  BY LaneFacts
<1>3. c[0] \in Nat /\ c[0] > Behind(l) + 1
  <2>1. c[0] \in 1 .. Final(l) + 1 /\ c[0] > Behind(l) + 3
    BY <1>1, <1>2 DEF InOrder
  <2>2. Behind(l) \in Nat /\ Final(l) \in Nat
    BY PermuteOrder
  <2> QED BY ONLY <2>1, <2>2
<1>4. p = l.whole + l.stores + 1
  BY ONLY <1>2, <1>3, IsLayout(l), InOrder(l, p, c), l.tail = 1, LanePlaces
<1> QED BY <1>1, <1>4

-----------------------------------------------------------------------------
(* The bytes of the lanes.                                                 *)
LEMMA LaneByte ==
  ASSUME WarpAssumption, NEW t \in Nat, NEW b \in 0 .. Width - 1
  PROVE  /\ Width * t + b \in Nat
         /\ (Width * t + b) \div Width = t /\ (Width * t + b) % Width = b
         /\ Width * t + b < Rate <=> t < RateLanes
         /\ t \in LaneThreads => Width * t + b \in Places
         /\ \A m \in Nat : /\ Width * t + b < m
                               <=> t <= m \div Width /\ (t = m \div Width => b < m % Width)
                           /\ Width * t + b = m <=> t = m \div Width /\ b = m % Width
<1>1. /\ Width \in Nat \ {0} /\ RateLanes \in Nat /\ StateLanes \in Nat
      /\ Rate = Width * RateLanes /\ StateBytes = Width * StateLanes /\ RateLanes > 0
  BY WarpFacts DEF WarpAssumption, Rate
<1>2. Width * t \in Nat /\ Width * t + b \in Nat
  BY ONLY <1>1, t \in Nat, b \in 0 .. Width - 1
<1>3. (Width * t + b) \div Width = t /\ (Width * t + b) % Width = b
  BY ONLY <1>1, t \in Nat, b \in 0 .. Width - 1, DivUnique
<1>4. ASSUME NEW q \in Nat, NEW k \in Nat, k < Width
      PROVE  /\ Width * t + b < Width * q + k <=> (t < q \/ (t = q /\ b < k))
             /\ Width * t + b = Width * q + k <=> t = q /\ b = k
  <2>1. t < q => Width * t + Width <= Width * q
    BY ONLY <1>1, t \in Nat, q \in Nat, Multiples
  <2>2. q < t => Width * q + Width <= Width * t
    BY ONLY <1>1, t \in Nat, q \in Nat, Multiples
  <2>3. Width * t \in Nat /\ Width * q \in Nat
    BY ONLY <1>1, t \in Nat, q \in Nat
  <2> DEFINE x == Width * t
             y == Width * q
  <2>4. t = q => x = y
    OBVIOUS
  <2> HIDE DEF x, y
  <2>5. (t < q => x + Width <= y) /\ (q < t => y + Width <= x) /\ x \in Nat /\ y \in Nat
    BY ONLY <2>1, <2>2, <2>3 DEF x, y
  <2>6. /\ x + b < y + k <=> (t < q \/ (t = q /\ b < k))
        /\ x + b = y + k <=> t = q /\ b = k
    BY ONLY <1>1, <2>4, <2>5, t \in Nat, q \in Nat, k \in Nat, k < Width, b \in 0 .. Width - 1
  <2> QED BY ONLY <2>6 DEF x, y
<1>5. Width * t + b < Rate <=> t < RateLanes
  <2>1. 0 \in Nat /\ 0 < Width
    BY <1>1
  <2>2. Width * t + b < Width * RateLanes + 0 <=> (t < RateLanes \/ (t = RateLanes /\ b < 0))
    BY ONLY <1>1, <1>4, <2>1
  <2>3. Width * RateLanes + 0 = Rate /\ ~(b < 0)
    BY ONLY <1>1, b \in 0 .. Width - 1
  <2> QED BY ONLY <2>2, <2>3
<1>6. ASSUME t \in LaneThreads PROVE Width * t + b \in Places
  <2>1. 0 \in Nat /\ 0 < Width /\ t < StateLanes
    BY <1>1, <1>6 DEF LaneThreads
  <2>2. Width * t + b < Width * StateLanes + 0
    BY ONLY <1>1, <1>4, <2>1
  <2> QED BY ONLY <1>1, <1>2, <2>2 DEF Places
<1>7. ASSUME NEW m \in Nat
      PROVE  /\ Width * t + b < m <=> t <= m \div Width /\ (t = m \div Width => b < m % Width)
             /\ Width * t + b = m <=> t = m \div Width /\ b = m % Width
  <2> DEFINE q == m \div Width
             k == m % Width
  <2>1. q \in Nat /\ k \in 0 .. Width - 1 /\ m = Width * q + k
    BY ONLY <1>1, m \in Nat, DivFacts
  <2> HIDE DEF q, k
  <2>2. /\ Width * t + b < Width * q + k <=> (t < q \/ (t = q /\ b < k))
        /\ Width * t + b = Width * q + k <=> t = q /\ b = k
    BY ONLY <1>1, <1>4, <2>1
  <2>3. (t < q \/ (t = q /\ b < k)) <=> t <= q /\ (t = q => b < k)
    BY ONLY <2>1, t \in Nat
  <2>4. /\ Width * t + b < m <=> t <= q /\ (t = q => b < k)
        /\ Width * t + b = m <=> t = q /\ b = k
    BY ONLY <2>1, <2>2, <2>3
  <2> QED BY ONLY <2>4 DEF q, k
<1> QED BY <1>2, <1>3, <1>5, <1>6, <1>7

\* A lane of a whole block.
LEMMA LoadByte ==
  ASSUME WarpAssumption, NEW n \in Nat, NEW k \in 1 .. n \div Rate,
         NEW t \in LaneThreads, NEW b \in 0 .. Width - 1
  PROVE  /\ PaddedBlock(Rate, SHAKE, n, k)[Width * t + b] =
              IF t < RateLanes THEN {(Rate * (k - 1) + Width * t + b) + 1} ELSE {}
         /\ (t < RateLanes => Rate * (k - 1) + Width * t + b \in 0 .. n - 1)
<1> DEFINE p == Width * t + b
           c == k - 1
           x == Rate * c
           q == n \div Rate
<1>1. Rate \in Nat \ {0} /\ t \in Nat
  BY WarpFacts DEF LaneThreads, WarpAssumption
<1>2. p \in Nat /\ p \in Places /\ (p < Rate <=> t < RateLanes)
  BY ONLY <1>1, WarpAssumption, t \in LaneThreads, b \in 0 .. Width - 1, LaneByte
<1>3. PaddedBlock(Rate, SHAKE, n, k)[p] = IF p < Rate THEN PaddedByte(Rate, SHAKE, n, x + p) ELSE {}
  BY <1>2 DEF PaddedBlock, Places
<1>4. q \in Nat /\ n % Rate \in Nat /\ n = Rate * q + (n % Rate) /\ c \in Nat /\ k = c + 1 /\ c < q
  BY <1>1, DivFacts
<1>5. x \in Nat /\ Rate * q \in Nat /\ x + Rate <= Rate * q
  <2> HIDE DEF c, q
  <2> QED BY ONLY <1>1, <1>4, Multiples
<1>6. p < Rate => x + p < n /\ x + p \in Nat
  <2> HIDE DEF x, p, q
  <2> QED BY ONLY <1>1, <1>2, <1>4, <1>5
<1>7. ASSUME p < Rate PROVE PaddedByte(Rate, SHAKE, n, x + p) = {(x + p) + 1}
  <2> HIDE DEF x, p, q
  <2>1. x + p < n /\ ~(x + p >= n)
    BY ONLY <1>6, <1>7, n \in Nat
  <2> QED BY ONLY <2>1 DEF PaddedByte
<1>8. (t < RateLanes => x + p \in 0 .. n - 1)
  <2> HIDE DEF x, p, q
  <2> QED BY ONLY <1>2, <1>6, n \in Nat
<1>9. Rate * (k - 1) + Width * t + b = x + p
  <2>1. Width * t \in Nat /\ b \in Nat
    BY ONLY <1>1, WarpAssumption, b \in 0 .. Width - 1 DEF WarpAssumption
  <2> DEFINE y == Width * t
  <2> HIDE DEF x, y
  <2>2. x + y + b = x + (y + b)
    BY ONLY <1>5, <2>1 DEF y
  <2> QED BY <2>2 DEF x, y
<1> QED BY <1>2, <1>3, <1>7, <1>8, <1>9

\* What a thread of notmp_shake reads of the rest, and what one that reads words.
ReadRest(k, t, m, b) ==
  IF k \in {"notmp_shake_new", "shake_in_kernel"} THEN RestByWords(t, m, b) ELSE RestByBytes(t, m, b)

\* What a lane adds of the rest of n bytes, with the padding.
RestByte(k, n, t, b) ==
  LET m == n % Rate
  IN  SymXor(
        SymXor(IF ReadRest(k, t, m, b) THEN {(Rate * (n \div Rate) + Width * t + b) + 1} ELSE {},
               IF t = m \div Width /\ b = m % Width THEN {SHAKE} ELSE {}),
        IF t = (Rate - 1) \div Width /\ b = Width - 1 THEN {PadEnd} ELSE {})

LEMMA RestAdded ==
  ASSUME WarpAssumption, NEW k, NEW n \in Nat, NEW t \in LaneThreads, NEW b \in 0 .. Width - 1
  PROVE  /\ RestByte(k, n, t, b) = PaddedBlock(Rate, SHAKE, n, (n \div Rate) + 1)[Width * t + b]
         /\ ReadRest(k, t, n % Rate, b) => Rate * (n \div Rate) + Width * t + b \in 0 .. n - 1
<1> DEFINE p == Width * t + b
           q == n \div Rate
           m == n % Rate
           x == Rate * q
           A == IF p < m THEN {(x + p) + 1} ELSE {}
           B == IF p = m THEN {SHAKE} ELSE {}
           C == IF p = Rate - 1 THEN {PadEnd} ELSE {}
<1>1. Rate \in Nat \ {0} /\ Rate \in Rates /\ SHAKE \in SuffixSymbols /\ t \in Nat
      /\ Width \in Nat \ {0} /\ RateLanes \in Nat \ {0} /\ Rate = Width * RateLanes
  BY WarpFacts DEF LaneThreads, WarpAssumption, Rate
<1>2. /\ p \in Nat /\ p \in Places
      /\ \A y \in Nat : /\ p < y <=> t <= y \div Width /\ (t = y \div Width => b < y % Width)
                        /\ p = y <=> t = y \div Width /\ b = y % Width
  BY ONLY <1>1, WarpAssumption, t \in LaneThreads, b \in 0 .. Width - 1, LaneByte
<1>3. q \in Nat /\ m \in 0 .. Rate - 1 /\ n = x + m /\ x \in Nat
  <2>1. q \in Nat /\ m \in 0 .. Rate - 1 /\ n = x + m
    BY ONLY <1>1, n \in Nat, DivFacts
  <2> QED BY ONLY <1>1, <2>1
<1>4. PaddedBlock(Rate, SHAKE, n, q + 1)[p] =
        IF p < Rate
        THEN (IF p < m THEN {x + p + 1} ELSE IF p = m THEN {SHAKE} ELSE {})
             \cup (IF p = Rate - 1 THEN {PadEnd} ELSE {})
        ELSE {}
  <2>1. p \in Places
    BY <1>2
  <2> HIDE DEF p
  <2> QED BY ONLY <1>1, <2>1, n \in Nat, LastBlock DEF q, m, x
<1>5. ReadRest(k, t, m, b) <=> p < m
  <2>1. m \in Nat
    BY <1>1, <1>3
  <2>2. p < m <=> t <= m \div Width /\ (t = m \div Width => b < m % Width)
    BY <1>2, <2>1
  <2> QED BY ONLY <2>2 DEF ReadRest, RestByWords, RestByBytes
<1>6. (t = m \div Width /\ b = m % Width) <=> p = m
  <2>1. m \in Nat
    BY <1>1, <1>3
  <2> QED BY <1>2, <2>1
<1>7. (t = (Rate - 1) \div Width /\ b = Width - 1) <=> p = Rate - 1
  <2>1. RateLanes - 1 \in Nat /\ Width - 1 \in 0 .. Width - 1
    BY ONLY <1>1
  <2>2. Width * (RateLanes - 1) = Width * RateLanes - Width
    BY ONLY <1>1
  <2>3. Rate - 1 = Width * (RateLanes - 1) + (Width - 1)
    BY ONLY <1>1, <2>2
  <2>4. (Width * (RateLanes - 1) + (Width - 1)) % Width = Width - 1
    BY ONLY <1>1, <2>1, DivUnique
  <2>5. Rate - 1 \in Nat /\ (Rate - 1) % Width = Width - 1
    BY ONLY <1>1, <2>3, <2>4
  <2>6. p = Rate - 1 <=> t = (Rate - 1) \div Width /\ b = (Rate - 1) % Width
    BY ONLY <1>2, <2>5
  <2> QED BY ONLY <2>5, <2>6
<1>8. x + Width * t + b = x + p
  <2>1. Width * t \in Nat /\ b \in Nat
    BY <1>1
  <2> DEFINE y == Width * t
  <2> HIDE DEF x, y
  <2>2. x + y + b = x + (y + b)
    BY ONLY <1>3, <2>1 DEF y
  <2> QED BY <2>2 DEF x, y
<1>9. RestByte(k, n, t, b) = SymXor(SymXor(A, B), C)
  BY <1>5, <1>6, <1>7, <1>8 DEF RestByte
<1>10. SymXor(SymXor(A, B), C) = PaddedBlock(Rate, SHAKE, n, q + 1)[p]
  <2> HIDE DEF p, q, m, x
  <2>1. x + p + 1 = (x + p) + 1 /\ x + p + 1 \in Nat \ {0}
    BY ONLY <1>2, <1>3
  <2>2. SHAKE = 0 /\ PadEnd = -1
    BY DEF SHAKE, PadEnd
  <2>3. {(x + p) + 1} \cap {SHAKE} = {} /\ {(x + p) + 1} \cap {PadEnd} = {} /\ {SHAKE} \cap {PadEnd} = {}
    BY ONLY <2>1, <2>2
  <2>4. /\ \A U : SymXor(U, {}) = U /\ SymXor({}, U) = U
        /\ \A U, V : U \cap V = {} => SymXor(U, V) = U \cup V
    BY DEF SymXor
  <2>5. SymXor(A, B) = IF p < m THEN {x + p + 1} ELSE IF p = m THEN {SHAKE} ELSE {}
    <3>1. p < m => p # m
      BY ONLY <1>1, <1>2, <1>3
    <3>2. CASE p < m
      BY ONLY <2>1, <2>4, <3>1, <3>2
    <3>3. CASE ~(p < m)
      BY ONLY <2>1, <2>4, <3>3
    <3> QED BY <3>2, <3>3
  <2>6. p >= Rate => ~(p < m) /\ p # m /\ p # Rate - 1
    BY ONLY <1>1, <1>2, <1>3
  <2>7. p < Rate \/ p >= Rate
    BY ONLY <1>1, <1>2
  <2> DEFINE D == SymXor(A, B)
  <2>8. D = IF p < m THEN {x + p + 1} ELSE IF p = m THEN {SHAKE} ELSE {}
    BY <2>5
  <2>9. D \cap C = {}
    <3> HIDE DEF D
    <3> QED BY <2>1, <2>3, <2>8
  <2>10. SymXor(D, C) = D \cup C
    <3> HIDE DEF D
    <3> QED BY ONLY <2>4, <2>9
  <2> HIDE DEF D
  <2>11. SymXor(D, C) = PaddedBlock(Rate, SHAKE, n, q + 1)[p]
    BY <1>4, <2>6, <2>7, <2>8, <2>10
  <2> QED BY <2>11 DEF D
<1>11. ReadRest(k, t, m, b) => x + p \in 0 .. n - 1
  <2> HIDE DEF p, q, m, x
  <2> QED BY ONLY <1>1, <1>2, <1>3, <1>5
<1> QED BY <1>8, <1>9, <1>10, <1>11

-----------------------------------------------------------------------------
(* What a warp has done.                                                   *)
Block(l, n, k) == IF k <= l.whole + 1 THEN PaddedBlock(Rate, SHAKE, n, k) ELSE Blank
Blocks(l, n, p) == [k \in 1 .. p |-> Block(l, n, k)]

\* What lane t has added when it is at place i: its part of the next block.
LaneWord(l, n, p, i, t) ==
  [b \in 0 .. Width - 1 |->
     IF p <= l.whole /\ i > 2 * p + 1 THEN Block(l, n, p + 1)[Width * t + b] ELSE {}]

\* Thread t is behind the instruction that follows permutation k of the squeezing.
Past(l, c, t, k) == c[t] > l.before + 2 * k

\* Byte j of the output, counted from 0.
OutByte(n, j) == XofByte(Rate, SHAKE, n, j + 1)

InputKept(l, n, p, m) == p <= l.whole => \A a \in 0 .. n - 1 : m[a] = Symbol(a + 1)

BlocksStored(l, n, o, c, m) ==
  \A j \in 0 .. Rate * l.stores - 1 :
    o + j \in DOMAIN m /\ Past(l, c, (j % Rate) \div Width, j \div Rate + 1)
      => m[o + j] = OutByte(n, j)

RestStored(l, n, c, m) ==
  \A i \in 0 .. Rate - 1 :
    Past(l, c, i \div Width, l.stores + 1) => m[i] = OutByte(n, Rate * l.stores + i)

RestCopied(l, n, len, o, c, m) ==
  \A i \in 0 .. (len % Rate) - 1 :
    o + Rate * l.stores + i \in DOMAIN m /\ Past(l, c, i % WarpSize, l.stores + 2)
      => m[o + Rate * l.stores + i] = OutByte(n, Rate * l.stores + i)

WarpLayout == LayoutOf(kind, in_len, out_len)

WarpStarted ==
  /\ kind \in Kinds /\ in_len \in 0 .. Memory /\ out_len \in 0 .. Memory \div 2
  /\ out \in {0, Memory \div 2} /\ program = Program(kind, in_len, out_len)

WarpControl(p) == InOrder(WarpLayout, p, pc)

WarpWords(p) ==
  /\ base = Blocks(WarpLayout, in_len, p)
  /\ DOMAIN word = Threads
  /\ \A t \in LaneThreads : word[t] = LaneWord(WarpLayout, in_len, p, pc[t], t)

WarpMemory(p) ==
  /\ DOMAIN mem = 0 .. Memory - 1 /\ DOMAIN tmp = 0 .. Rate - 1
  /\ InputKept(WarpLayout, in_len, p, mem)
  /\ BlocksStored(WarpLayout, in_len, out, pc, mem)
  /\ WarpLayout.tail = 1 => RestStored(WarpLayout, in_len, pc, tmp)
                            /\ RestCopied(WarpLayout, in_len, out_len, out, pc, mem)

\* After p permutations.
WarpInv ==
  /\ WarpStarted
  /\ \E p \in 0 .. PermuteCount(WarpLayout) : WarpControl(p) /\ WarpWords(p) /\ WarpMemory(p)

LEMMA StorePlace ==
  ASSUME NEW l, IsLayout(l), NEW prog, HasShape(prog, l), NEW k \in Nat \ {0},
         l.before + 2 * k <= Final(l)
  PROVE  prog[l.before + 2 * k][1] \in {"store", "store_tmp", "copy"}
<1> DEFINE i == l.before + 2 * k
           x == prog[i]
           w == l.whole
           e == l.stores
           d == l.tail
           b == l.before
<1>1. w \in Nat /\ e \in Nat /\ d \in Nat /\ d <= 1 /\ b \in Nat /\ b > 2 * w /\ b <= 2 * w + 2
  BY DEF IsLayout
<1>2. /\ i = b + 2 * k /\ Behind(l) = b + 2 * e /\ Final(l) = b + 2 * e + 4 * d
      /\ PermuteCount(l) = w + e + d /\ k \in Nat /\ k > 0 /\ i <= Final(l)
      /\ \A j \in 1 .. w + e + d : PermuteAt(l, j) = IF j <= w THEN 2 * j ELSE b + 2 * (j - w) - 1
  BY <1>1 DEF PermuteCount, Behind, Final, PermuteAt
<1>3. w = l.whole /\ e = l.stores /\ b = l.before
  OBVIOUS
<1> HIDE DEF w, e, b, d, i
<1>4. i \in 1 .. Final(l)
  BY ONLY <1>1, <1>2
<1>5. Instruction(l, i, x)
  BY <1>4 DEF HasShape
<1> HIDE DEF x
<1>6. ~(\E j \in 1 .. l.whole : i = 2 * j - 1 /\ x = <<"load", j>>)
  BY ONLY <1>1, <1>2, <1>3
<1>7. ~(i = 2 * l.whole + 1 /\ x = <<"rest", l.whole>>)
  BY ONLY <1>1, <1>2, <1>3
<1>8. ~(\E j \in 1 .. PermuteCount(l) : i = PermuteAt(l, j) /\ x = <<"permute", 0>>)
  <2> SUFFICES ASSUME NEW j \in 1 .. PermuteCount(l), i = PermuteAt(l, j) PROVE FALSE
    OBVIOUS
  <2>0. j \in 1 .. w + e + d
    BY <1>2
  <2>1. PermuteAt(l, j) = IF j <= w THEN 2 * j ELSE b + 2 * (j - w) - 1
    BY ONLY <1>2, <2>0
  <2> QED BY ONLY <1>1, <1>2, <2>0, <2>1, i = PermuteAt(l, j)
<1>9. /\ ~(l.before = 2 * l.whole + 2 /\ i = l.before /\ x = <<"sync", 0>>)
      /\ ~(l.tail = 1 /\ i = Behind(l) + 3 /\ x = <<"sync", 0>>)
  <2>1. i # l.before
    BY ONLY <1>1, <1>2, <1>3
  <2>2. i # Behind(l) + 3
    <3>1. \A y, z, v \in Nat : v + 2 * y # v + 2 * z + 3
      OBVIOUS
    <3>2. b + 2 * k # b + 2 * e + 3
      BY ONLY <1>1, <1>2, <3>1
    <3> QED BY ONLY <1>2, <3>2
  <2> QED BY ONLY <2>1, <2>2
<1>10. \/ \E j \in 1 .. l.stores : x = <<"store", j>>
       \/ x = <<"store_tmp", 1>> \/ x = <<"copy", 0>>
  BY ONLY <1>5, <1>6, <1>7, <1>8, <1>9 DEF Instruction
<1>11. x[1] \in {"store", "store_tmp", "copy"}
  BY ONLY <1>10
<1> QED BY <1>11 DEF x, i

\* A thread passes an instruction by executing it.
LEMMA PastKept ==
  ASSUME NEW l, IsLayout(l), NEW c, NEW ts \in SUBSET Threads, NEW u \in Threads, c[u] \in Nat,
         NEW k \in Nat, Past(l, Moved(c, ts), u, k)
  PROVE  Past(l, c, u, k) \/ (u \in ts /\ c[u] = l.before + 2 * k)
<1>1. l.before \in Nat
  BY DEF IsLayout
<1>2. Moved(c, ts)[u] = IF u \in ts THEN c[u] + 1 ELSE c[u]
  BY DEF Moved
<1> QED BY ONLY <1>1, <1>2, c[u] \in Nat, k \in Nat, Past(l, Moved(c, ts), u, k) DEF Past

\* Threads that store nothing leave the promises about memory as they are.
LEMMA QuietStep ==
  ASSUME NEW l, IsLayout(l), NEW prog, HasShape(prog, l), NEW c, NEW ts \in SUBSET Threads,
         \A u \in Threads : c[u] \in Nat,
         \A u \in ts : c[u] <= Final(l) /\ prog[c[u]][1] \notin {"store", "store_tmp", "copy"},
         NEW u \in Threads, NEW k \in Nat \ {0}, Past(l, Moved(c, ts), u, k)
  PROVE  Past(l, c, u, k)
<1>1. Past(l, c, u, k) \/ (u \in ts /\ c[u] = l.before + 2 * k)
  BY PastKept
<1>2. ~(u \in ts /\ c[u] = l.before + 2 * k)
  <2> SUFFICES ASSUME u \in ts, c[u] = l.before + 2 * k PROVE FALSE
    OBVIOUS
  <2>1. l.before + 2 * k <= Final(l)
    OBVIOUS
  <2>2. prog[l.before + 2 * k][1] \in {"store", "store_tmp", "copy"}
    BY <2>1, StorePlace
  <2>3. prog[c[u]][1] \notin {"store", "store_tmp", "copy"}
    OBVIOUS
  <2> QED BY ONLY <2>2, <2>3, c[u] = l.before + 2 * k
<1> QED BY <1>1, <1>2

LEMMA Context ==
  ASSUME WarpAssumption, WarpStarted
  PROVE  /\ IsLayout(WarpLayout) /\ HasShape(program, WarpLayout)
         /\ in_len \in Nat /\ out_len \in Nat /\ out \in Nat
         /\ WarpLayout.whole = in_len \div Rate
         /\ WarpLayout.tail = 1 => kind = "shake" /\ WarpLayout.stores = out_len \div Rate
<1>1. Memory \in Nat
  BY WarpFacts
<1>2. in_len \in Nat /\ out_len \in Nat /\ out \in Nat
  BY ONLY <1>1, WarpStarted DEF WarpStarted
<1>3. IsLayout(WarpLayout)
  BY ONLY <1>2, WarpAssumption, LayoutLemma DEF WarpLayout
<1>4. HasShape(program, WarpLayout)
  BY ONLY <1>2, WarpAssumption, WarpStarted, ShapeLemma DEF WarpLayout, WarpStarted
<1>5. /\ WarpLayout.whole = in_len \div Rate
      /\ WarpLayout.tail = 1 => kind = "shake" /\ WarpLayout.stores = out_len \div Rate
  BY DEF WarpLayout, LayoutOf
<1> QED BY <1>2, <1>3, <1>4, <1>5

\* The thread that stores a byte, and the one that copies it.
LEMMA ByteThread ==
  ASSUME WarpAssumption, NEW j \in Nat
  PROVE  /\ j % Rate \in 0 .. Rate - 1 /\ j \div Rate \in Nat
         /\ (j % Rate) \div Width \in Threads /\ (j % Rate) \div Width < RateLanes
         /\ j % Rate = Width * ((j % Rate) \div Width) + ((j % Rate) % Width)
         /\ (j % Rate) % Width \in 0 .. Width - 1
         /\ j % WarpSize \in Threads
<1>1. /\ Rate \in Nat \ {0} /\ Width \in Nat \ {0} /\ RateLanes \in Nat /\ Rate = Width * RateLanes
      /\ WarpSize \in Nat \ {0} /\ RateLanes < WarpSize
  BY WarpFacts DEF WarpAssumption, Rate
<1>2. j % Rate \in 0 .. Rate - 1 /\ j \div Rate \in Nat
  BY ONLY <1>1, j \in Nat, DivFacts
<1>3. j % WarpSize \in 0 .. WarpSize - 1
  BY ONLY <1>1, j \in Nat, DivFacts
<1> DEFINE i == j % Rate
           u == i \div Width
           b == i % Width
<1>4. i \in Nat /\ u \in Nat /\ b \in 0 .. Width - 1 /\ i = Width * u + b
  <2>1. i \in Nat
    BY <1>1, <1>2
  <2> HIDE DEF i
  <2> QED BY ONLY <1>1, <2>1, DivFacts
<1>5. u < RateLanes
  <2>1. i < Rate
    BY <1>1, <1>2
  <2> HIDE DEF i, u, b
  <2>2. Width * u + b < Rate <=> u < RateLanes
    BY ONLY WarpAssumption, <1>4, LaneByte
  <2> QED BY ONLY <1>4, <2>1, <2>2
<1>6. u \in Threads
  <2> HIDE DEF u
  <2> QED BY ONLY <1>1, <1>4, <1>5 DEF Threads
<1> QED BY <1>2, <1>3, <1>4, <1>5, <1>6 DEF Threads

LEMMA QuietMemory ==
  ASSUME WarpAssumption, WarpStarted, NEW p, WarpControl(p), WarpMemory(p), NEW ts \in SUBSET Threads,
         \A u \in ts : pc[u] <= Final(WarpLayout) /\ program[pc[u]][1] \notin {"store", "store_tmp", "copy"},
         pc' = Moved(pc, ts), UNCHANGED <<kind, in_len, out_len, out, mem, tmp>>,
         NEW q, q <= WarpLayout.whole => p <= WarpLayout.whole
  PROVE  WarpMemory(q)'
<1> DEFINE l == WarpLayout
           n == in_len
           len == out_len
           o == out
           c == pc
           d == Moved(pc, ts)
<1>1. IsLayout(l) /\ HasShape(program, l) /\ n \in Nat /\ len \in Nat
  BY Context
<1>2. \A u \in Threads : c[u] \in Nat
  <2>1. \A u \in Threads : c[u] \in 1 .. Final(l) + 1
    BY DEF WarpControl, InOrder
  <2> QED BY <1>1, <2>1, PermuteOrder
<1>3. \A u \in Threads, k \in Nat \ {0} : Past(l, d, u, k) => Past(l, c, u, k)
  <2> TAKE u \in Threads, k \in Nat \ {0}
  <2> SUFFICES ASSUME Past(l, d, u, k) PROVE Past(l, c, u, k)
    OBVIOUS
  <2>1. \A v \in ts : c[v] <= Final(l) /\ program[c[v]][1] \notin {"store", "store_tmp", "copy"}
    OBVIOUS
  <2> HIDE DEF l, c
  <2> QED BY <1>1, <1>2, <2>1, QuietStep DEF c
<1>4. l' = l /\ n' = n /\ len' = len /\ o' = o /\ c' = d /\ mem' = mem /\ tmp' = tmp
  BY DEF WarpLayout
<1>5. l.stores + 1 \in Nat \ {0} /\ l.stores + 2 \in Nat \ {0}
  BY <1>1 DEF IsLayout
<1>6. /\ DOMAIN mem = 0 .. Memory - 1 /\ DOMAIN tmp = 0 .. Rate - 1
      /\ InputKept(l, n, p, mem) /\ BlocksStored(l, n, o, c, mem)
      /\ l.tail = 1 => RestStored(l, n, c, tmp) /\ RestCopied(l, n, len, o, c, mem)
  BY DEF WarpMemory
<1>a. l.whole = WarpLayout.whole
  OBVIOUS
<1>r. Rate \in Nat \ {0}
  BY WarpFacts
<1> HIDE DEF l, n, len, o, c, d
<1>7. InputKept(l, n, q, mem)
  BY ONLY <1>6, <1>a, q <= WarpLayout.whole => p <= WarpLayout.whole DEF InputKept
<1>8. BlocksStored(l, n, o, d, mem)
  <2> SUFFICES ASSUME NEW j \in 0 .. Rate * l.stores - 1, o + j \in DOMAIN mem,
                      Past(l, d, (j % Rate) \div Width, j \div Rate + 1)
               PROVE  mem[o + j] = OutByte(n, j)
    BY DEF BlocksStored
  <2>1. (j % Rate) \div Width \in Threads /\ j \div Rate + 1 \in Nat \ {0}
    <3>1. j \in Nat
      OBVIOUS
    <3>2. (j % Rate) \div Width \in Threads /\ j \div Rate \in Nat
      BY <3>1, ByteThread
    <3> QED BY ONLY <3>2
  <2>2. Past(l, c, (j % Rate) \div Width, j \div Rate + 1)
    BY ONLY <1>3, <2>1, Past(l, d, (j % Rate) \div Width, j \div Rate + 1)
  <2> QED BY ONLY <1>6, <2>2, j \in 0 .. Rate * l.stores - 1, o + j \in DOMAIN mem DEF BlocksStored
<1>9. ASSUME l.tail = 1 PROVE RestStored(l, n, d, tmp)
  <2> SUFFICES ASSUME NEW i \in 0 .. Rate - 1, Past(l, d, i \div Width, l.stores + 1)
               PROVE  tmp[i] = OutByte(n, Rate * l.stores + i)
    BY DEF RestStored
  <2>1. i \div Width \in Threads
    <3>1. i \in Nat /\ i % Rate = i
      <4>1. i \in Nat /\ Rate * 0 + i = i
        BY <1>r
      <4>2. (Rate * 0 + i) % Rate = i
        BY ONLY <1>r, 0 \in Nat, i \in 0 .. Rate - 1, DivUnique
      <4> QED BY ONLY <4>1, <4>2
    <3>2. (i % Rate) \div Width \in Threads
      BY ONLY <3>1, WarpAssumption, ByteThread
    <3> QED BY ONLY <3>1, <3>2
  <2>2. Past(l, c, i \div Width, l.stores + 1)
    BY ONLY <1>3, <1>5, <2>1, Past(l, d, i \div Width, l.stores + 1)
  <2> QED BY ONLY <1>6, <1>9, <2>2, i \in 0 .. Rate - 1 DEF RestStored
<1>10. ASSUME l.tail = 1 PROVE RestCopied(l, n, len, o, d, mem)
  <2> SUFFICES ASSUME NEW i \in 0 .. (len % Rate) - 1, o + Rate * l.stores + i \in DOMAIN mem,
                      Past(l, d, i % WarpSize, l.stores + 2)
               PROVE  mem[o + Rate * l.stores + i] = OutByte(n, Rate * l.stores + i)
    BY DEF RestCopied
  <2>1. i % WarpSize \in Threads
    <3>1. i \in Nat
      OBVIOUS
    <3> QED BY ONLY <3>1, WarpAssumption, ByteThread
  <2>2. Past(l, c, i % WarpSize, l.stores + 2)
    BY ONLY <1>3, <1>5, <2>1, Past(l, d, i % WarpSize, l.stores + 2)
  <2> QED BY ONLY <1>6, <1>10, <2>2, i \in 0 .. (len % Rate) - 1, o + Rate * l.stores + i \in DOMAIN mem
       DEF RestCopied
<1>11. /\ DOMAIN mem = 0 .. Memory - 1 /\ DOMAIN tmp = 0 .. Rate - 1
       /\ InputKept(l, n, q, mem) /\ BlocksStored(l, n, o, d, mem)
       /\ l.tail = 1 => RestStored(l, n, d, tmp) /\ RestCopied(l, n, len, o, d, mem)
  BY ONLY <1>6, <1>7, <1>8, <1>9, <1>10
<1>12. /\ DOMAIN mem' = 0 .. Memory - 1 /\ DOMAIN tmp' = 0 .. Rate - 1
       /\ InputKept(l', n', q, mem') /\ BlocksStored(l', n', o', c', mem')
       /\ l'.tail = 1 => RestStored(l', n', c', tmp') /\ RestCopied(l', n', len', o', c', mem')
  BY ONLY <1>4, <1>11
<1> QED BY <1>12 DEF WarpMemory, l, n, len, o, c

LEMMA ReadPlace ==
  ASSUME NEW l, IsLayout(l), NEW prog, HasShape(prog, l), NEW p \in 0 .. l.whole
  PROVE  2 * p + 1 \in 1 .. Final(l) /\ prog[2 * p + 1][1] \in {"load", "rest"}
<1> DEFINE i == 2 * p + 1
           x == prog[i]
           w == l.whole
           e == l.stores
           d == l.tail
           b == l.before
<1>1. w \in Nat /\ e \in Nat /\ d \in Nat /\ d <= 1 /\ b \in Nat /\ b > 2 * w /\ b <= 2 * w + 2
  BY DEF IsLayout
<1>2. /\ i = 2 * p + 1 /\ Behind(l) = b + 2 * e /\ Final(l) = b + 2 * e + 4 * d
      /\ PermuteCount(l) = w + e + d /\ p \in Nat /\ p <= w
      /\ \A j \in 1 .. w + e + d : PermuteAt(l, j) = IF j <= w THEN 2 * j ELSE b + 2 * (j - w) - 1
  BY <1>1 DEF PermuteCount, Behind, Final, PermuteAt
<1>3. w = l.whole /\ e = l.stores /\ b = l.before
  OBVIOUS
<1> HIDE DEF w, e, b, d, i
<1>4. i \in 1 .. Final(l)
  BY ONLY <1>1, <1>2
<1>5. Instruction(l, i, x)
  BY <1>4 DEF HasShape
<1> HIDE DEF x
<1>6. ~(\E j \in 1 .. l.stores : i = l.before + 2 * j /\ x = <<"store", j>>)
  BY ONLY <1>1, <1>2, <1>3
<1>7. ~(\E j \in 1 .. PermuteCount(l) : i = PermuteAt(l, j) /\ x = <<"permute", 0>>)
  <2> SUFFICES ASSUME NEW j \in 1 .. PermuteCount(l), i = PermuteAt(l, j) PROVE FALSE
    OBVIOUS
  <2>0. j \in 1 .. w + e + d
    BY <1>2
  <2>1. PermuteAt(l, j) = IF j <= w THEN 2 * j ELSE b + 2 * (j - w) - 1
    BY ONLY <1>2, <2>0
  <2> QED BY ONLY <1>1, <1>2, <2>0, <2>1, i = PermuteAt(l, j)
<1>8. /\ ~(l.before = 2 * l.whole + 2 /\ i = l.before /\ x = <<"sync", 0>>)
      /\ ~(l.tail = 1 /\ i = Behind(l) + 2 /\ x = <<"store_tmp", 1>>)
      /\ ~(l.tail = 1 /\ i = Behind(l) + 3 /\ x = <<"sync", 0>>)
      /\ ~(l.tail = 1 /\ i = Behind(l) + 4 /\ x = <<"copy", 0>>)
  BY ONLY <1>1, <1>2, <1>3
<1>9. (\E j \in 1 .. l.whole : x = <<"load", j>>) \/ x = <<"rest", l.whole>>
  BY ONLY <1>5, <1>6, <1>7, <1>8 DEF Instruction
<1>10. x[1] \in {"load", "rest"}
  BY ONLY <1>9
<1> QED BY <1>4, <1>10 DEF x, i

\* Threads that read nothing have the words they had.
LEMMA QuietWords ==
  ASSUME WarpAssumption, WarpStarted, NEW p, WarpControl(p), WarpWords(p), NEW ts \in SUBSET Threads,
         \A u \in ts : u \in LaneThreads => program[pc[u]][1] \notin {"load", "rest"},
         pc' = Moved(pc, ts), UNCHANGED <<kind, in_len, out_len, base, word>>
  PROVE  WarpWords(p)'
<1> DEFINE l == WarpLayout
           n == in_len
           c == pc
           d == Moved(pc, ts)
<1>1. IsLayout(l) /\ HasShape(program, l) /\ LaneThreads \subseteq Threads
  BY Context, LaneFacts
<1>2. \A u \in Threads : c[u] \in Nat
  <2>1. \A u \in Threads : c[u] \in 1 .. Final(l) + 1
    BY DEF WarpControl, InOrder
  <2> QED BY <1>1, <2>1, PermuteOrder
<1>3. /\ base = Blocks(l, n, p) /\ DOMAIN word = Threads
      /\ \A t \in LaneThreads : word[t] = LaneWord(l, n, p, c[t], t)
  BY DEF WarpWords
<1>4. l' = l /\ n' = n /\ c' = d /\ word' = word /\ base' = base
  BY DEF WarpLayout
<1>5. p \in Nat /\ l.whole \in Nat
  <2>1. p \in 0 .. PermuteCount(l)
    BY DEF WarpControl, InOrder
  <2> QED BY <1>1, <2>1, PermuteOrder DEF IsLayout
<1>6. \A u \in ts : u \in LaneThreads => program[c[u]][1] \notin {"load", "rest"}
  OBVIOUS
<1>7. \A u \in Threads : d[u] = IF u \in ts THEN c[u] + 1 ELSE c[u]
  BY DEF Moved
<1> HIDE DEF l, n, c, d
<1>8. ASSUME NEW t \in LaneThreads PROVE LaneWord(l, n, p, d[t], t) = LaneWord(l, n, p, c[t], t)
  <2>1. t \in Threads /\ c[t] \in Nat
    BY ONLY <1>1, <1>2, t \in LaneThreads
  <2>2. p <= l.whole => (d[t] > 2 * p + 1 <=> c[t] > 2 * p + 1)
    <3> SUFFICES ASSUME p <= l.whole PROVE d[t] > 2 * p + 1 <=> c[t] > 2 * p + 1
      OBVIOUS
    <3>1. CASE t \notin ts
      BY ONLY <1>7, <2>1, <3>1
    <3>2. CASE t \in ts
      <4>1. p \in 0 .. l.whole
        BY ONLY <1>5, p <= l.whole
      <4>2. program[2 * p + 1][1] \in {"load", "rest"}
        BY ONLY <1>1, <4>1, ReadPlace
      <4>3. program[c[t]][1] \notin {"load", "rest"}
        BY ONLY <1>6, <3>2, t \in LaneThreads
      <4>4. c[t] # 2 * p + 1
        BY ONLY <4>2, <4>3
      <4> QED BY ONLY <1>5, <1>7, <2>1, <3>2, <4>4
    <3> QED BY <3>1, <3>2
  <2> QED BY ONLY <2>2 DEF LaneWord
<1>9. /\ base' = Blocks(l', n', p) /\ DOMAIN word' = Threads
      /\ \A t \in LaneThreads : word'[t] = LaneWord(l', n', p, c'[t], t)
  BY ONLY <1>3, <1>4, <1>8
<1> QED BY <1>9 DEF WarpWords, l, n, c

-----------------------------------------------------------------------------
(* The steps.                                                              *)
LEMMA StartedKept ==
  ASSUME WarpStarted, UNCHANGED <<kind, in_len, out_len, out, program>>
  PROVE  WarpStarted' /\ WarpLayout' = WarpLayout
BY DEF WarpStarted, WarpLayout

\* Several threads go on, the number of permutations is the same.
LEMMA Going ==
  ASSUME WarpAssumption, WarpStarted, NEW p, WarpControl(p), NEW ts \in SUBSET Threads,
         \A t \in ts : Running(t) /\ (t \in LaneThreads => program[pc[t]][1] # "permute"),
         ts = Threads \/ \A t \in ts : program[pc[t]][1] # "sync",
         ts = Threads => \A t \in Threads : pc[t] = pc[0],
         Advance(ts), UNCHANGED <<kind, in_len, out_len, out, program>>
  PROVE  /\ pc' = Moved(pc, ts) /\ WarpControl(p)'
         /\ \A t \in ts : pc[t] \in 1 .. Final(WarpLayout)
<1> DEFINE l == WarpLayout
<1>1. IsLayout(l) /\ HasShape(program, l) /\ LaneThreads \subseteq Threads
  BY Context, LaneFacts
<1>2. pc' = Moved(pc, ts)
  BY DEF Advance, Moved
<1>3. \A t \in ts : pc[t] \in 1 .. Final(l)
  BY <1>1 DEF Running, HasShape
<1>4. InOrder(l, p, pc)
  BY DEF WarpControl
<1>5. l' = l
  BY StartedKept
<1> HIDE DEF l
<1>6. \A t \in ts : t \in LaneThreads => program[pc[t]][1] # "permute"
  OBVIOUS
<1>7. InOrder(l, p, Moved(pc, ts))
  BY <1>1, <1>3, <1>4, <1>6, MoveInOrder
<1>8. InOrder(l', p, pc')
  BY ONLY <1>2, <1>5, <1>7
<1> QED BY <1>2, <1>3, <1>8 DEF WarpControl, l

\* One thread executes an instruction that the others do not wait for.
LEMMA OneGoes ==
  ASSUME WarpAssumption, WarpStarted, NEW p, WarpControl(p), NEW t \in Threads, NEW what,
         At(t, what), what # "sync", t \in LaneThreads => what # "permute",
         Advance({t}), UNCHANGED <<kind, in_len, out_len, out, program>>
  PROVE  /\ {t} \in SUBSET Threads /\ pc' = Moved(pc, {t}) /\ WarpControl(p)'
         /\ pc[t] \in 1 .. Final(WarpLayout) /\ program[pc[t]][1] = what
         /\ \A u \in {t} : pc[u] <= Final(WarpLayout) /\ program[pc[u]][1] = what
<1>1. Running(t) /\ program[pc[t]][1] = what
  BY DEF At
<1>2. {t} \in SUBSET Threads /\ \A u \in {t} : u = t
  OBVIOUS
<1>3. {t} # Threads
  <2>1. LaneThreads \subseteq Threads /\ 0 \in Threads /\ 1 \in Threads
    <3>1. WarpSize \in Nat /\ StateLanes \in Nat \ {0} /\ StateLanes < WarpSize
      BY WarpFacts DEF WarpAssumption
    <3> QED BY <3>1, LaneFacts DEF Threads
  <2> QED BY <2>1
<1>4. \A u \in {t} : Running(u) /\ (u \in LaneThreads => program[pc[u]][1] # "permute")
  BY <1>1
<1>5. \A u \in {t} : program[pc[u]][1] # "sync"
  BY <1>1
<1>6. /\ pc' = Moved(pc, {t}) /\ WarpControl(p)'
      /\ \A u \in {t} : pc[u] \in 1 .. Final(WarpLayout)
  BY <1>2, <1>3, <1>4, <1>5, Going
<1>7. Final(WarpLayout) \in Nat
  BY Context, PermuteOrder
<1> QED BY <1>1, <1>2, <1>6, <1>7

LEMMA SkipPermuteStep ==
  ASSUME WarpAssumption, WarpInv, NEW t \in Threads, SkipPermute(t)
  PROVE  WarpInv'
<1>1. PICK p \in 0 .. PermuteCount(WarpLayout) : WarpControl(p) /\ WarpWords(p) /\ WarpMemory(p)
  BY DEF WarpInv
<1>2. /\ WarpStarted /\ t \notin LaneThreads /\ At(t, "permute") /\ Advance({t})
      /\ UNCHANGED <<kind, in_len, out_len, out, program>> /\ UNCHANGED <<base, word, mem, tmp>>
  <2>1. StateLanes \in Nat /\ t \in Int
    BY WarpFacts DEF Threads
  <2> QED BY <2>1 DEF WarpInv, SkipPermute, LaneThreads
<1>3. /\ {t} \in SUBSET Threads /\ pc' = Moved(pc, {t}) /\ WarpControl(p)'
      /\ \A u \in {t} : pc[u] <= Final(WarpLayout) /\ program[pc[u]][1] = "permute"
  BY <1>1, <1>2, OneGoes
<1>4. WarpWords(p)'
  BY <1>1, <1>2, <1>3, QuietWords
<1>5. WarpMemory(p)'
  BY <1>1, <1>2, <1>3, QuietMemory
<1>6. WarpStarted' /\ WarpLayout' = WarpLayout
  BY <1>2, StartedKept
<1> QED BY <1>1, <1>3, <1>4, <1>5, <1>6 DEF WarpInv

LEMMA SyncWarpStep ==
  ASSUME WarpAssumption, WarpInv, SyncWarp
  PROVE  WarpInv'
<1>1. PICK p \in 0 .. PermuteCount(WarpLayout) : WarpControl(p) /\ WarpWords(p) /\ WarpMemory(p)
  BY DEF WarpInv
<1>2. /\ WarpStarted /\ (\A t \in Threads : At(t, "sync") /\ pc[t] = pc[0]) /\ Advance(Threads)
      /\ UNCHANGED <<kind, in_len, out_len, out, program>> /\ UNCHANGED <<base, word, mem, tmp>>
  BY DEF WarpInv, SyncWarp
<1>3. \A t \in Threads : Running(t) /\ program[pc[t]][1] = "sync"
  BY <1>2 DEF At
<1>4. Threads \in SUBSET Threads
  OBVIOUS
<1>5. /\ pc' = Moved(pc, Threads) /\ WarpControl(p)'
      /\ \A u \in Threads : pc[u] \in 1 .. Final(WarpLayout)
  BY <1>1, <1>2, <1>3, <1>4, Going
<1>6. Final(WarpLayout) \in Nat
  BY <1>2, Context, PermuteOrder
<1>7. WarpWords(p)'
  BY <1>1, <1>2, <1>3, <1>4, <1>5, QuietWords
<1>8. WarpMemory(p)'
  <2>1. \A u \in Threads : pc[u] <= Final(WarpLayout) /\ program[pc[u]][1] \notin {"store", "store_tmp", "copy"}
    BY <1>3, <1>5, <1>6
  <2> QED BY <1>1, <1>2, <1>4, <1>5, <2>1, QuietMemory
<1>9. WarpStarted' /\ WarpLayout' = WarpLayout
  BY <1>2, StartedKept
<1> QED BY <1>1, <1>5, <1>7, <1>8, <1>9 DEF WarpInv

LEMMA SymbolContent == \A x : Content(Symbol(x)) = {x}
BY DEF Content, Symbol

\* A lane adds its part of the next block.
LEMMA ReadWords ==
  ASSUME WarpAssumption, WarpStarted, NEW p, WarpControl(p), WarpWords(p), NEW t \in Threads,
         NEW f, word' = [word EXCEPT ![t] = [b \in 0 .. Width - 1 |-> SymXor(word[t][b], f[b])]],
         t \in LaneThreads => /\ p <= WarpLayout.whole /\ pc[t] = 2 * p + 1
                              /\ \A b \in 0 .. Width - 1 :
                                   f[b] = PaddedBlock(Rate, SHAKE, in_len, p + 1)[Width * t + b],
         pc' = Moved(pc, {t}), UNCHANGED <<kind, in_len, out_len, base>>
  PROVE  WarpWords(p)'
<1> DEFINE l == WarpLayout
           n == in_len
           c == pc
           d == Moved(pc, {t})
<1>1. IsLayout(l) /\ LaneThreads \subseteq Threads
  BY Context, LaneFacts
<1>2. /\ base = Blocks(l, n, p) /\ DOMAIN word = Threads
      /\ \A u \in LaneThreads : word[u] = LaneWord(l, n, p, c[u], u)
  BY DEF WarpWords
<1>3. l' = l /\ n' = n /\ c' = d /\ base' = base
  BY DEF WarpLayout
<1>4. p \in Nat /\ l.whole \in Nat
  <2>1. p \in 0 .. PermuteCount(l)
    BY DEF WarpControl, InOrder
  <2> QED BY <1>1, <2>1, PermuteOrder DEF IsLayout
<1>5. \A u \in Threads : d[u] = IF u = t THEN c[u] + 1 ELSE c[u]
  BY DEF Moved
<1>6. /\ DOMAIN word' = Threads
      /\ \A u \in Threads : word'[u] = IF u = t THEN [b \in 0 .. Width - 1 |-> SymXor(word[t][b], f[b])]
                                       ELSE word[u]
  BY <1>2
<1>7. t \in LaneThreads => /\ p <= l.whole /\ c[t] = 2 * p + 1
                           /\ \A b \in 0 .. Width - 1 : f[b] = PaddedBlock(Rate, SHAKE, n, p + 1)[Width * t + b]
  OBVIOUS
<1> HIDE DEF l, n, c, d
<1>8. ASSUME NEW u \in LaneThreads, u # t PROVE word'[u] = LaneWord(l, n, p, d[u], u)
  BY ONLY <1>1, <1>2, <1>5, <1>6, <1>8, u \in LaneThreads
<1>9. ASSUME t \in LaneThreads PROVE word'[t] = LaneWord(l, n, p, d[t], t)
  <2>1. p <= l.whole /\ c[t] = 2 * p + 1 /\ d[t] = 2 * p + 2
    BY ONLY <1>4, <1>5, <1>7, <1>9, t \in Threads
  <2>2. d[t] > 2 * p + 1 /\ ~(c[t] > 2 * p + 1)
    BY ONLY <1>4, <2>1
  <2>3. word[t] = [b \in 0 .. Width - 1 |-> {}]
    <3>1. word[t] = LaneWord(l, n, p, c[t], t)
      BY ONLY <1>2, <1>9
    <3>2. LaneWord(l, n, p, c[t], t) = [b \in 0 .. Width - 1 |-> {}]
      BY ONLY <2>2 DEF LaneWord
    <3> QED BY ONLY <3>1, <3>2
  <2>4. \A b \in 0 .. Width - 1 : SymXor(word[t][b], f[b]) = Block(l, n, p + 1)[Width * t + b]
    <3> TAKE b \in 0 .. Width - 1
    <3>1. word[t][b] = {}
      BY ONLY <2>3, b \in 0 .. Width - 1
    <3>2. SymXor({}, f[b]) = f[b]
      BY DEF SymXor
    <3>3. Block(l, n, p + 1) = PaddedBlock(Rate, SHAKE, n, p + 1)
      <4>1. p + 1 <= l.whole + 1
        BY ONLY <1>4, <2>1
      <4> QED BY ONLY <4>1 DEF Block
    <3>4. f[b] = PaddedBlock(Rate, SHAKE, n, p + 1)[Width * t + b]
      BY ONLY <1>7, <1>9, b \in 0 .. Width - 1
    <3> QED BY ONLY <3>1, <3>2, <3>3, <3>4
  <2>5. word'[t] = [b \in 0 .. Width - 1 |-> SymXor(word[t][b], f[b])]
    BY ONLY <1>6, t \in Threads
  <2>6. LaneWord(l, n, p, d[t], t) = [b \in 0 .. Width - 1 |-> Block(l, n, p + 1)[Width * t + b]]
    BY ONLY <2>1, <2>2 DEF LaneWord
  <2> QED BY ONLY <2>4, <2>5, <2>6
<1>10. /\ base' = Blocks(l', n', p) /\ DOMAIN word' = Threads
       /\ \A u \in LaneThreads : word'[u] = LaneWord(l', n', p, c'[u], u)
  BY ONLY <1>2, <1>3, <1>6, <1>8, <1>9
<1> QED BY <1>10 DEF WarpWords, l, n, c

LEMMA LoadStep ==
  ASSUME WarpAssumption, WarpInv, NEW t \in Threads, Load(t)
  PROVE  WarpInv'
<1>1. PICK p \in 0 .. PermuteCount(WarpLayout) : WarpControl(p) /\ WarpWords(p) /\ WarpMemory(p)
  BY DEF WarpInv
<1> DEFINE x == Operand(t)
           f == [b \in 0 .. Width - 1 |->
                   IF t < RateLanes THEN Content(mem[Rate * (x - 1) + Width * t + b]) ELSE {}]
<1>2. /\ WarpStarted /\ At(t, "load") /\ Advance({t})
      /\ UNCHANGED <<kind, in_len, out_len, out, program>> /\ UNCHANGED <<base, mem, tmp>>
  BY DEF WarpInv, Load
<1>3. word' = [word EXCEPT ![t] = [b \in 0 .. Width - 1 |-> SymXor(word[t][b], f[b])]]
  <2>1. \A b \in 0 .. Width - 1 : f[b] = IF t < RateLanes THEN Content(mem[Rate * (x - 1) + Width * t + b]) ELSE {}
    OBVIOUS
  <2>2. word' = [word EXCEPT ![t] = [b \in 0 .. Width - 1 |-> SymXor(word[t][b],
                   IF t < RateLanes THEN Content(mem[Rate * (x - 1) + Width * t + b]) ELSE {})]]
    BY DEF Load, Add
  <2> HIDE DEF f, x
  <2> QED BY ONLY <2>1, <2>2
<1>4. /\ {t} \in SUBSET Threads /\ pc' = Moved(pc, {t}) /\ WarpControl(p)'
      /\ pc[t] \in 1 .. Final(WarpLayout) /\ program[pc[t]][1] = "load"
      /\ \A u \in {t} : pc[u] <= Final(WarpLayout) /\ program[pc[u]][1] = "load"
  BY <1>1, <1>2, OneGoes
<1>5. /\ IsLayout(WarpLayout) /\ HasShape(program, WarpLayout) /\ in_len \in Nat
      /\ WarpLayout.whole = in_len \div Rate
  BY <1>2, Context
<1>6. PICK k \in 1 .. WarpLayout.whole : pc[t] = 2 * k - 1 /\ x = k
  <2>1. \E k \in 1 .. WarpLayout.whole : pc[t] = 2 * k - 1 /\ program[pc[t]][2] = k
    BY ONLY <1>4, <1>5, PlaceOf
  <2> QED BY <2>1 DEF Operand
<1>7. ASSUME t \in LaneThreads
      PROVE  /\ p <= WarpLayout.whole /\ pc[t] = 2 * p + 1
             /\ \A b \in 0 .. Width - 1 : f[b] = PaddedBlock(Rate, SHAKE, in_len, p + 1)[Width * t + b]
  <2>1. WarpLayout.whole \in Nat /\ k \in Nat /\ pc[t] \in Nat
    BY <1>5, <1>6 DEF IsLayout
  <2>2. p = k - 1
    BY <1>1, <1>5, <1>6, <1>7, <2>1, LanePlaces DEF WarpControl
  <2>3. p <= WarpLayout.whole /\ pc[t] = 2 * p + 1 /\ p + 1 = k
    BY ONLY <1>6, <2>1, <2>2, k \in 1 .. WarpLayout.whole
  <2>4. ASSUME NEW b \in 0 .. Width - 1
        PROVE  f[b] = PaddedBlock(Rate, SHAKE, in_len, p + 1)[Width * t + b]
    <3> DEFINE a == Rate * (k - 1) + Width * t + b
    <3>1. k \in 1 .. in_len \div Rate
      BY ONLY <1>5, k \in 1 .. WarpLayout.whole
    <3>2. /\ PaddedBlock(Rate, SHAKE, in_len, k)[Width * t + b] = IF t < RateLanes THEN {a + 1} ELSE {}
          /\ (t < RateLanes => a \in 0 .. in_len - 1)
      BY ONLY <1>5, <1>7, <3>1, WarpAssumption, b \in 0 .. Width - 1, LoadByte
    <3>3. f[b] = IF t < RateLanes THEN Content(mem[a]) ELSE {}
      BY <1>6
    <3> HIDE DEF a, f
    <3>4. t < RateLanes => mem[a] = Symbol(a + 1)
      BY <1>1, <2>3, <3>2 DEF WarpMemory, InputKept
    <3> QED BY <2>3, <3>2, <3>3, <3>4, SymbolContent DEF a
  <2> QED BY <2>3, <2>4
<1> HIDE DEF f, x
<1>8. WarpWords(p)'
  BY <1>1, <1>2, <1>3, <1>4, <1>7, ReadWords
<1>9. WarpMemory(p)'
  BY <1>1, <1>2, <1>4, QuietMemory
<1>10. WarpStarted' /\ WarpLayout' = WarpLayout
  BY <1>2, StartedKept
<1> QED BY <1>1, <1>4, <1>8, <1>9, <1>10 DEF WarpInv

LEMMA RestStep ==
  ASSUME WarpAssumption, WarpInv, NEW t \in Threads, Rest(t)
  PROVE  WarpInv'
<1>1. PICK p \in 0 .. PermuteCount(WarpLayout) : WarpControl(p) /\ WarpWords(p) /\ WarpMemory(p)
  BY DEF WarpInv
<1> DEFINE x == Operand(t)
           m == in_len - Rate * x
           Byte(b) ==
             SymXor(
               SymXor(IF ReadRest(kind, t, m, b) THEN Content(mem[Rate * x + Width * t + b]) ELSE {},
                      IF t = m \div Width /\ b = m % Width THEN {SHAKE} ELSE {}),
               IF t = (Rate - 1) \div Width /\ b = Width - 1 THEN {PadEnd} ELSE {})
           f == [b \in 0 .. Width - 1 |-> Byte(b)]
<1>2. /\ WarpStarted /\ At(t, "rest") /\ Advance({t})
      /\ UNCHANGED <<kind, in_len, out_len, out, program>> /\ UNCHANGED <<base, mem, tmp>>
  BY DEF WarpInv, Rest
<1>3. word' = [word EXCEPT ![t] = [b \in 0 .. Width - 1 |-> SymXor(word[t][b], f[b])]]
  <2>1. word' = [word EXCEPT ![t] = [b \in 0 .. Width - 1 |-> SymXor(word[t][b], Byte(b))]]
    BY DEF Rest, Add, ReadRest
  <2>2. \A b \in 0 .. Width - 1 : f[b] = Byte(b)
    OBVIOUS
  <2> HIDE DEF f, Byte
  <2> QED BY ONLY <2>1, <2>2
<1>4. /\ {t} \in SUBSET Threads /\ pc' = Moved(pc, {t}) /\ WarpControl(p)'
      /\ pc[t] \in 1 .. Final(WarpLayout) /\ program[pc[t]][1] = "rest"
      /\ \A u \in {t} : pc[u] <= Final(WarpLayout) /\ program[pc[u]][1] = "rest"
  BY <1>1, <1>2, OneGoes
<1>5. /\ IsLayout(WarpLayout) /\ HasShape(program, WarpLayout) /\ in_len \in Nat
      /\ WarpLayout.whole = in_len \div Rate
  BY <1>2, Context
<1>6. pc[t] = 2 * WarpLayout.whole + 1 /\ x = in_len \div Rate
  <2>1. pc[t] = 2 * WarpLayout.whole + 1 /\ program[pc[t]][2] = WarpLayout.whole
    BY ONLY <1>4, <1>5, PlaceOf
  <2> QED BY <1>5, <2>1 DEF Operand
<1>7. ASSUME t \in LaneThreads
      PROVE  /\ p <= WarpLayout.whole /\ pc[t] = 2 * p + 1
             /\ \A b \in 0 .. Width - 1 : f[b] = PaddedBlock(Rate, SHAKE, in_len, p + 1)[Width * t + b]
  <2>1. WarpLayout.whole \in Nat /\ pc[t] \in Nat
    BY <1>5, <1>6 DEF IsLayout
  <2>2. p = WarpLayout.whole
    BY <1>1, <1>5, <1>6, <1>7, <2>1, LanePlaces DEF WarpControl
  <2>3. p <= WarpLayout.whole /\ pc[t] = 2 * p + 1 /\ p = in_len \div Rate
    BY ONLY <1>5, <1>6, <2>1, <2>2
  <2>4. ASSUME NEW b \in 0 .. Width - 1
        PROVE  f[b] = PaddedBlock(Rate, SHAKE, in_len, p + 1)[Width * t + b]
    <3> DEFINE a == Rate * (in_len \div Rate) + Width * t + b
               r == in_len % Rate
    <3>1. /\ RestByte(kind, in_len, t, b) = PaddedBlock(Rate, SHAKE, in_len, (in_len \div Rate) + 1)[Width * t + b]
          /\ ReadRest(kind, t, r, b) => a \in 0 .. in_len - 1
      BY ONLY <1>5, <1>7, WarpAssumption, b \in 0 .. Width - 1, RestAdded
    <3>2. m = r
      <4>1. Rate \in Nat \ {0}
        BY WarpFacts
      <4>2. in_len \div Rate \in Nat /\ r \in 0 .. Rate - 1 /\ in_len = Rate * (in_len \div Rate) + r
        BY ONLY <1>5, <4>1, DivFacts
      <4>3. Rate * (in_len \div Rate) \in Nat /\ r \in Int
        BY ONLY <4>1, <4>2
      <4>4. in_len - Rate * (in_len \div Rate) = r
        <5> DEFINE y == Rate * (in_len \div Rate)
        <5> HIDE DEF y, r
        <5> QED BY ONLY <1>5, <4>2, <4>3 DEF y
      <4> QED BY <1>6, <4>4
    <3>3. ReadRest(kind, t, r, b) => mem[a] = Symbol(a + 1)
      <4> HIDE DEF a, r
      <4> QED BY <1>1, <2>3, <3>1 DEF WarpMemory, InputKept
    <3>4. (IF ReadRest(kind, t, r, b) THEN Content(mem[a]) ELSE {})
            = (IF ReadRest(kind, t, r, b) THEN {a + 1} ELSE {})
      <4> HIDE DEF a, r
      <4> QED BY <3>3, SymbolContent
    <3>5. f[b] = SymXor(SymXor(IF ReadRest(kind, t, r, b) THEN Content(mem[a]) ELSE {},
                               IF t = r \div Width /\ b = r % Width THEN {SHAKE} ELSE {}),
                        IF t = (Rate - 1) \div Width /\ b = Width - 1 THEN {PadEnd} ELSE {})
      <4>1. f[b] = Byte(b)
        OBVIOUS
      <4>2. Rate * x + Width * t + b = a
        BY <1>6
      <4> HIDE DEF f, x, a, r, m
      <4> QED BY ONLY <3>2, <4>1, <4>2 DEF Byte
    <3>6. f[b] = RestByte(kind, in_len, t, b)
      BY ONLY <3>4, <3>5 DEF RestByte, a, r
    <3>7. (in_len \div Rate) + 1 = p + 1
      BY ONLY <2>3
    <3> QED BY ONLY <3>1, <3>6, <3>7
  <2> QED BY <2>3, <2>4
<1> HIDE DEF f, x, m, Byte
<1>8. WarpWords(p)'
  BY <1>1, <1>2, <1>3, <1>4, <1>7, ReadWords
<1>9. WarpMemory(p)'
  BY <1>1, <1>2, <1>4, QuietMemory
<1>10. WarpStarted' /\ WarpLayout' = WarpLayout
  BY <1>2, StartedKept
<1> QED BY <1>1, <1>4, <1>8, <1>9, <1>10 DEF WarpInv

LEMMA BlocksAppend ==
  ASSUME NEW l, NEW n, NEW p \in Nat
  PROVE  Append(Blocks(l, n, p), Block(l, n, p + 1)) = Blocks(l, n, p + 1)
<1> DEFINE S == {Block(l, n, k) : k \in Nat}
           f == Blocks(l, n, p)
           g == Blocks(l, n, p + 1)
           x == Block(l, n, p + 1)
<1>1. f = [k \in 1 .. p |-> Block(l, n, k)] /\ g = [k \in 1 .. p + 1 |-> Block(l, n, k)]
  BY DEF Blocks
<1>2. p + 1 \in Nat /\ x \in S /\ \A k \in Nat : Block(l, n, k) \in S
  OBVIOUS
<1> HIDE DEF f, g, x, S
<1>3. f \in Seq(S) /\ Len(f) = p
  BY ONLY <1>1, <1>2, p \in Nat
<1>4. g \in Seq(S) /\ Len(g) = p + 1
  BY ONLY <1>1, <1>2, p \in Nat
<1>5. /\ Len(g) = Len(f) + 1 /\ \A k \in 1 .. Len(f) : g[k] = f[k]
  BY ONLY <1>1, <1>3, <1>4, p \in Nat
<1>6. g[Len(f) + 1] = x
  BY ONLY <1>1, <1>3, p \in Nat DEF x
<1>7. Append(f, x) = g
  BY ONLY <1>2, <1>3, <1>4, <1>5, <1>6, Extended
<1> QED BY <1>7 DEF f, g, x

LEMMA PermuteStep ==
  ASSUME WarpAssumption, WarpInv, Permute
  PROVE  WarpInv'
<1> DEFINE l == WarpLayout
           n == in_len
           c == pc
           d == Moved(pc, LaneThreads)
           new == [q \in Places |-> word[q \div Width][q % Width]]
<1>1. PICK p \in 0 .. PermuteCount(l) : WarpControl(p) /\ WarpWords(p) /\ WarpMemory(p)
  BY DEF WarpInv
<1>2. /\ WarpStarted /\ (\A t \in LaneThreads : At(t, "permute") /\ pc[t] = pc[0]) /\ Advance(LaneThreads)
      /\ UNCHANGED <<kind, in_len, out_len, out, program>> /\ UNCHANGED <<mem, tmp>>
      /\ base' = Append(base, new)
      /\ word' = [t \in Threads |-> IF t < StateLanes THEN BlankWord ELSE word[t]]
  BY DEF WarpInv, Permute, LaneThreads, Places
<1>3. IsLayout(l) /\ HasShape(program, l)
  BY <1>2, Context
<1>4. LaneThreads \subseteq Threads /\ 0 \in LaneThreads /\ (\A t \in Threads : t \in LaneThreads <=> t < StateLanes)
      /\ LaneThreads \in SUBSET Threads
  BY LaneFacts
<1>5. \A t \in LaneThreads : c[t] \in 1 .. Final(l) /\ program[c[t]][1] = "permute" /\ c[t] = c[0]
  BY <1>2, <1>3 DEF At, Running, HasShape
<1>6. /\ InOrder(l, p + 1, d)
      /\ \A t \in LaneThreads : c[t] = PermuteAt(l, p + 1)
  <2>1. InOrder(l, p, c)
    BY <1>1 DEF WarpControl
  <2> HIDE DEF l, c
  <2> QED BY <1>3, <1>4, <1>5, <2>1, PermuteInOrder DEF c
<1>7. l' = l /\ n' = n /\ c' = d
  <2>1. pc' = Moved(pc, LaneThreads)
    BY <1>2 DEF Advance, Moved
  <2> QED BY <1>2, <2>1, StartedKept
<1>8. p \in Nat /\ l.whole \in Nat /\ PermuteCount(l) \in Nat /\ p + 1 \in 0 .. PermuteCount(l)
  BY <1>3, <1>6, PermuteOrder DEF IsLayout, InOrder
<1>9. \A t \in LaneThreads : /\ p <= l.whole => c[t] > 2 * p + 1
                             /\ p + 1 <= l.whole => ~(d[t] > 2 * (p + 1) + 1)
  <2> TAKE t \in LaneThreads
  <2>1. c[t] = PermuteAt(l, p + 1) /\ d[t] = c[t] + 1
    BY <1>4, <1>6 DEF Moved
  <2>2. CASE p + 1 <= l.whole
    <3>1. p + 1 \in 0 .. l.whole
      BY ONLY <1>8, <2>2
    <3>2. PermuteAt(l, p + 1) = 2 * (p + 1)
      BY <1>3, <3>1, PermuteOrder
    <3> HIDE DEF l, c, d
    <3> QED BY ONLY <1>8, <2>1, <3>2
  <2>3. CASE p = l.whole
    <3>1. PermuteAt(l, p + 1) >= 2 * p + 2 /\ PermuteAt(l, p + 1) \in Nat
      <4>1. p + 1 \in 0 .. PermuteCount(l) + 1
        BY <1>8
      <4> HIDE DEF l
      <4>2. PermuteAt(l, l.whole + 1) >= 2 * l.whole + 2 /\ \A k \in 0 .. PermuteCount(l) + 1 : PermuteAt(l, k) \in Nat
        BY ONLY <1>3, PermuteOrder
      <4> QED BY ONLY <2>3, <4>1, <4>2
    <3> HIDE DEF l, c, d
    <3> QED BY ONLY <1>8, <2>1, <2>3, <3>1
  <2>4. CASE p > l.whole
    <3> HIDE DEF l, c, d
    <3> QED BY ONLY <1>8, <2>4
  <2> HIDE DEF l
  <2> QED BY <1>8, <2>2, <2>3, <2>4
<1>10. new = Block(l, n, p + 1)
  <2>1. Block(l, n, p + 1) = [q \in Places |-> Block(l, n, p + 1)[q]]
    BY DEF Block, PaddedBlock, Blank, Places
  <2>2. ASSUME NEW q \in Places
        PROVE  word[q \div Width][q % Width] = Block(l, n, p + 1)[q]
    <3> DEFINE t == q \div Width
               b == q % Width
    <3>1. /\ Width \in Nat \ {0} /\ StateLanes \in Nat /\ StateBytes = Width * StateLanes /\ q \in Nat
          /\ q < StateBytes
      BY WarpFacts DEF WarpAssumption, Places
    <3>2. t \in Nat /\ b \in 0 .. Width - 1 /\ q = Width * t + b
      BY ONLY <3>1, DivFacts
    <3>3. t \in LaneThreads
      <4>1. t < StateLanes
        <5> SUFFICES ASSUME ~(t < StateLanes) PROVE FALSE
          OBVIOUS
        <5> HIDE DEF t, b
        <5>1. Width * StateLanes <= Width * t
          <6>1. CASE t = StateLanes
            BY ONLY <3>1, <3>2, <6>1
          <6>2. CASE StateLanes < t
            <7>1. Width * StateLanes + Width <= Width * t
              BY ONLY <3>1, <3>2, <6>2, Multiples
            <7>2. Width * StateLanes \in Nat /\ Width * t \in Nat
              BY ONLY <3>1, <3>2
            <7> QED BY ONLY <3>1, <7>1, <7>2
          <6> QED BY ONLY <3>1, <3>2, <6>1, <6>2, ~(t < StateLanes)
        <5>2. Width * StateLanes \in Nat /\ Width * t \in Nat
          BY ONLY <3>1, <3>2
        <5> QED BY ONLY <3>1, <3>2, <5>1, <5>2
      <4> QED BY <3>1, <3>2, <4>1 DEF LaneThreads
    <3> SUFFICES word[t][b] = Block(l, n, p + 1)[q]
      OBVIOUS
    <3> HIDE DEF t, b
    <3>4. word[t] = LaneWord(l, n, p, c[t], t)
      BY <1>1, <3>3 DEF WarpWords
    <3>5. word[t][b] = IF p <= l.whole /\ c[t] > 2 * p + 1 THEN Block(l, n, p + 1)[Width * t + b] ELSE {}
      BY ONLY <3>2, <3>4 DEF LaneWord
    <3> HIDE DEF l, n, c, d, new
    <3>6. CASE p <= l.whole
      BY ONLY <1>9, <3>2, <3>3, <3>5, <3>6
    <3>7. CASE ~(p <= l.whole)
      <4>1. Block(l, n, p + 1) = Blank
        <5>1. ~(p + 1 <= l.whole + 1)
          BY ONLY <1>8, <3>7
        <5> QED BY ONLY <5>1 DEF Block
      <4>2. Blank[q] = {}
        BY DEF Blank, Places
      <4> QED BY ONLY <3>5, <3>7, <4>1, <4>2
    <3> QED BY ONLY <3>6, <3>7
  <2> DEFINE B == Block(l, n, p + 1)
  <2>3. B = [q \in Places |-> B[q]] /\ \A q \in Places : word[q \div Width][q % Width] = B[q]
    BY <2>1, <2>2
  <2> HIDE DEF B
  <2>4. new = B
    BY <2>3
  <2> QED BY <2>4 DEF B
<1>11. base' = Blocks(l, n, p + 1)
  <2>1. base = Blocks(l, n, p)
    BY <1>1 DEF WarpWords
  <2>2. Append(Blocks(l, n, p), Block(l, n, p + 1)) = Blocks(l, n, p + 1)
    BY ONLY <1>8, BlocksAppend
  <2> HIDE DEF new, l, n
  <2> QED BY ONLY <1>2, <1>10, <2>1, <2>2
<1>12. DOMAIN word' = Threads /\ \A t \in LaneThreads : word'[t] = LaneWord(l, n, p + 1, d[t], t)
  <2>1. DOMAIN word' = Threads
    BY <1>2
  <2>2. ASSUME NEW t \in LaneThreads PROVE word'[t] = LaneWord(l, n, p + 1, d[t], t)
    <3>1. word'[t] = BlankWord
      BY <1>2, <1>4
    <3>2. ~(p + 1 <= l.whole /\ d[t] > 2 * (p + 1) + 1)
      BY <1>9
    <3> HIDE DEF l, n, d
    <3>3. LaneWord(l, n, p + 1, d[t], t) = [b \in 0 .. Width - 1 |-> {}]
      BY ONLY <3>2 DEF LaneWord
    <3> QED BY ONLY <3>1, <3>3 DEF BlankWord
  <2> QED BY <2>1, <2>2
<1>13. WarpWords(p + 1)'
  BY <1>7, <1>11, <1>12 DEF WarpWords
<1>14. WarpControl(p + 1)'
  BY <1>6, <1>7 DEF WarpControl
<1>15. WarpMemory(p + 1)'
  <2>1. \A u \in LaneThreads : pc[u] <= Final(WarpLayout) /\ program[pc[u]][1] \notin {"store", "store_tmp", "copy"}
    <3>1. Final(l) \in Nat
      BY <1>3, PermuteOrder
    <3> QED BY <1>5, <3>1
  <2>2. p + 1 <= WarpLayout.whole => p <= WarpLayout.whole
    BY <1>8
  <2>3. pc' = Moved(pc, LaneThreads)
    BY <1>7
  <2> HIDE DEF l, n, c, d, new
  <2> QED BY <1>1, <1>2, <1>4, <2>1, <2>2, <2>3, QuietMemory
<1>16. WarpStarted' /\ WarpLayout' = WarpLayout
  BY <1>2, StartedKept
<1> QED BY <1>8, <1>13, <1>14, <1>15, <1>16 DEF WarpInv

-----------------------------------------------------------------------------
(* The output.                                                             *)
\* The state that output is taken from is the one that FIPS 202 names.
LEMMA OutputByte ==
  ASSUME WarpAssumption, NEW l, IsLayout(l), NEW n \in Nat, l.whole = n \div Rate,
         NEW k \in Nat \ {0}, NEW i \in 0 .. Rate - 1
  PROVE  OutByte(n, Rate * (k - 1) + i) = [base |-> Blocks(l, n, l.whole + k), at |-> i, add |-> {}]
<1> DEFINE c == k - 1
           w == l.whole
           j == Rate * c + i
           f == AllBlocks(Rate, SHAKE, n)
           z == Blanks(c)
           h == Blocks(l, n, w + k)
           S == {Block(l, n, x) : x \in Nat}
<1>1. Rate \in Nat \ {0} /\ c \in Nat /\ k = c + 1 /\ w \in Nat
  BY WarpFacts DEF IsLayout
<1>2. j \in Nat /\ j \div Rate = c /\ j % Rate = i
  <2>1. Rate * c \in Nat
    BY <1>1
  <2> HIDE DEF c
  <2>2. (Rate * c + i) \div Rate = c /\ (Rate * c + i) % Rate = i
    BY ONLY <1>1, i \in 0 .. Rate - 1, DivUnique
  <2> QED BY ONLY <1>1, <2>1, <2>2, i \in 0 .. Rate - 1 DEF j
<1>3. OutByte(n, j) = [base |-> f \o z, at |-> i, add |-> {}]
  <2>1. XofByte(Rate, SHAKE, n, j + 1) = [base |-> AllBlocks(Rate, SHAKE, n) \o Blanks(((j + 1) - 1) \div Rate),
                                          at |-> ((j + 1) - 1) % Rate, add |-> {}]
    BY ONLY ReferenceByte
  <2> HIDE DEF c, j
  <2>2. (j + 1) - 1 = j
    BY ONLY <1>2
  <2> QED BY ONLY <1>2, <2>1, <2>2 DEF OutByte, f, z
<1>4. f = [x \in 1 .. w + 1 |-> PaddedBlock(Rate, SHAKE, n, x)] /\ z = [x \in 1 .. c |-> Blank]
      /\ h = [x \in 1 .. w + k |-> Block(l, n, x)]
  BY DEF AllBlocks, Blanks, Blocks
<1>5. /\ \A x \in 1 .. w + 1 : Block(l, n, x) = PaddedBlock(Rate, SHAKE, n, x)
      /\ \A x \in 1 .. c : Block(l, n, (w + 1) + x) = Blank
  <2>1. \A x \in 1 .. c : ~((w + 1) + x <= l.whole + 1)
    BY <1>1
  <2> QED BY <1>1, <2>1 DEF Block
<1>6. \A x \in Nat : Block(l, n, x) \in S
  OBVIOUS
<1> HIDE DEF f, z, h, S, w, c
<1>7. f \in Seq(S) /\ Len(f) = w + 1 /\ \A x \in 1 .. w + 1 : f[x] = Block(l, n, x)
  <2>1. \A x \in 1 .. w + 1 : f[x] = Block(l, n, x) /\ f[x] \in S
    BY ONLY <1>1, <1>4, <1>5, <1>6
  <2> QED BY ONLY <1>1, <1>4, <2>1
<1>8. z \in Seq(S) /\ Len(z) = c /\ \A x \in 1 .. c : z[x] = Block(l, n, (w + 1) + x)
  <2>1. \A x \in 1 .. c : z[x] = Block(l, n, (w + 1) + x)
    BY ONLY <1>1, <1>4, <1>5
  <2>2. \A x \in 1 .. c : z[x] \in S
    <3>1. \A x \in 1 .. c : (w + 1) + x \in Nat
      BY ONLY <1>1
    <3> QED BY ONLY <1>6, <2>1, <3>1
  <2> QED BY ONLY <1>1, <1>4, <2>1, <2>2
<1>9. h \in Seq(S) /\ Len(h) = w + k /\ \A x \in 1 .. w + k : h[x] = Block(l, n, x)
  BY ONLY <1>1, <1>4, <1>6, k \in Nat \ {0}
<1>10. f \o z = h
  <2> DEFINE y == f \o z
  <2>1. IsJoined(y, S, f, z, w + 1, c)
    BY ONLY <1>7, <1>8, Joined
  <2> HIDE DEF y
  <2>2. y \in Seq(S) /\ Len(y) = w + k
    BY ONLY <1>1, <2>1 DEF IsJoined
  <2>3. \A x \in 1 .. w + k : y[x] = h[x]
    <3> TAKE x \in 1 .. w + k
    <3>1. CASE x <= w + 1
      <4>1. x \in 1 .. w + 1
        BY ONLY <1>1, <3>1, x \in 1 .. w + k
      <4> QED BY ONLY <1>7, <1>9, <2>1, <4>1, x \in 1 .. w + k DEF IsJoined
    <3>2. CASE ~(x <= w + 1)
      <4>1. PICK v \in 1 .. c : x = (w + 1) + v
        <5>1. x - (w + 1) \in 1 .. c /\ x = (w + 1) + (x - (w + 1))
          BY ONLY <1>1, <3>2, x \in 1 .. w + k, k \in Nat
        <5> QED BY ONLY <5>1
      <4>2. y[(w + 1) + v] = z[v]
        BY ONLY <2>1, v \in 1 .. c DEF IsJoined
      <4> QED BY ONLY <1>8, <1>9, <4>1, <4>2, x \in 1 .. w + k, v \in 1 .. c
    <3> QED BY <3>1, <3>2
  <2>4. y = h
    BY ONLY <1>9, <2>2, <2>3
  <2> QED BY <2>4 DEF y
<1> QED BY <1>3, <1>10 DEF h, w, j, c

\* A thread that stores its lane behind a stores output.
LEMMA StoredBuffer ==
  ASSUME WarpAssumption, WarpStarted, NEW p, WarpControl(p), WarpWords(p), NEW t \in Threads,
         NEW k \in Nat \ {0}, t \in LaneThreads => p = WarpLayout.whole + k,
         NEW buffer, NEW a \in Int, NEW i \in DOMAIN buffer, i \in Int
  PROVE  Stored(buffer, t, a)[i] =
           IF t < RateLanes /\ i - a - Width * t \in 0 .. Width - 1
           THEN OutByte(in_len, Rate * (k - 1) + (i - a)) ELSE buffer[i]
<1> DEFINE l == WarpLayout
           b == i - a - Width * t
           new == [base |-> base, at |-> i - a, add |-> word[t][b]]
<1>1. Stored(buffer, t, a)[i] = IF t < RateLanes /\ b \in 0 .. Width - 1 THEN new ELSE buffer[i]
  BY DEF Stored
<1>2. ASSUME t < RateLanes, b \in 0 .. Width - 1 PROVE new = OutByte(in_len, Rate * (k - 1) + (i - a))
  <2>1. t \in LaneThreads /\ t \in Nat
    <3>1. RateLanes \in Nat /\ t \in Nat
      BY WarpFacts DEF Threads
    <3> QED BY <1>2, <3>1, LaneFacts
  <2>2. IsLayout(l) /\ in_len \in Nat /\ l.whole = in_len \div Rate
    BY Context
  <2>3. p = l.whole + k /\ base = Blocks(l, in_len, p) /\ word[t] = LaneWord(l, in_len, p, pc[t], t)
    BY <2>1 DEF WarpWords
  <2>4. l.whole \in Nat /\ Width \in Nat
    BY <2>2 DEF IsLayout, WarpAssumption
  <2>5. word[t][b] = {}
    <3>1. ~(p <= l.whole)
      BY <2>3, <2>4
    <3> HIDE DEF l, b
    <3>2. LaneWord(l, in_len, p, pc[t], t)[b] = {}
      BY ONLY <1>2, <3>1 DEF LaneWord
    <3> QED BY ONLY <2>3, <3>2
  <2>6. i - a \in 0 .. Rate - 1
    <3>1. Width * t + b < Rate <=> t < RateLanes
      <4> HIDE DEF b
      <4> QED BY ONLY WarpAssumption, <1>2, <2>1, LaneByte
    <3>2. Width * t \in Nat /\ Rate \in Nat
      BY <2>1, <2>4, WarpFacts
    <3> DEFINE y == Width * t
    <3>3. b = i - a - y /\ y \in Nat /\ (y + b < Rate <=> t < RateLanes) /\ a \in Int /\ i \in Int
      BY <3>1, <3>2
    <3> HIDE DEF b, y
    <3> QED BY ONLY <1>2, <2>4, <3>2, <3>3
  <2>7. PICK m \in 0 .. Rate - 1 : m = i - a
    BY <2>6
  <2>8. OutByte(in_len, Rate * (k - 1) + m) = [base |-> Blocks(l, in_len, l.whole + k), at |-> m, add |-> {}]
    <3> HIDE DEF l
    <3> QED BY ONLY WarpAssumption, <2>2, k \in Nat \ {0}, m \in 0 .. Rate - 1, OutputByte
  <2> HIDE DEF l, b
  <2> QED BY <2>3, <2>5, <2>7, <2>8
<1> QED BY <1>1, <1>2

\* A byte j of block k that belongs to lane u.
LEMMA BlockByte ==
  ASSUME WarpAssumption, NEW j \in Nat, NEW k \in Nat \ {0}, j \div Rate + 1 = k
  PROVE  /\ j - Rate * (k - 1) = j % Rate
         /\ j - Rate * (k - 1) - Width * ((j % Rate) \div Width) \in 0 .. Width - 1
         /\ (j % Rate) \div Width < RateLanes
<1>1. Rate \in Nat \ {0} /\ Width \in Nat
  BY WarpFacts
<1>2. j \div Rate \in Nat /\ j % Rate \in 0 .. Rate - 1 /\ j = Rate * (j \div Rate) + (j % Rate)
  BY ONLY <1>1, j \in Nat, DivFacts
<1>3. /\ (j % Rate) \div Width \in Threads /\ (j % Rate) \div Width < RateLanes
      /\ j % Rate = Width * ((j % Rate) \div Width) + ((j % Rate) % Width)
      /\ (j % Rate) % Width \in 0 .. Width - 1
  BY ByteThread
<1> DEFINE d == j \div Rate
           m == j % Rate
           u == m \div Width
           b == m % Width
           x == Rate * d
           y == Width * u
<1>4. d \in Nat /\ m \in Nat /\ j = x + m /\ m = y + b /\ b \in 0 .. Width - 1 /\ u \in Nat
  BY <1>1, <1>2, <1>3 DEF Threads
<1>5. k - 1 = d
  BY <1>4
<1>6. Rate * (k - 1) = x
  BY <1>5
<1>7. x \in Nat /\ y \in Nat
  BY <1>1, <1>4
<1>8. j - Rate * (k - 1) = m /\ j - Rate * (k - 1) - y = b
  <2> HIDE DEF d, m, u, b, x, y
  <2> QED BY ONLY <1>1, <1>4, <1>6, <1>7
<1> QED BY <1>3, <1>4, <1>8

\* A byte of a block, of the rest in tmp_shared, and of the rest that is copied.
LEMMA MemoryPlaces ==
  ASSUME WarpAssumption, WarpStarted
  PROVE  /\ \A j \in 0 .. Rate * WarpLayout.stores - 1 :
              j \in Nat /\ j \div Rate + 1 \in 1 .. WarpLayout.stores /\ (j % Rate) \div Width \in Threads
         /\ \A i \in 0 .. Rate - 1 : i \div Width \in Threads /\ i \div Width < RateLanes
                                     /\ i - Width * (i \div Width) \in 0 .. Width - 1
         /\ \A i \in 0 .. (out_len % Rate) - 1 : i \in 0 .. Rate - 1 /\ i % WarpSize \in Threads
         /\ WarpLayout.stores \in Nat /\ Rate * WarpLayout.stores \in Nat
<1> DEFINE e == WarpLayout.stores
<1>1. Rate \in Nat \ {0} /\ Width \in Nat \ {0} /\ e \in Nat /\ out_len \in Nat
  BY WarpFacts, Context DEF IsLayout
<1>2. Rate * e \in Nat
  BY <1>1
<1>3. ASSUME NEW j \in 0 .. Rate * e - 1
      PROVE  j \in Nat /\ j \div Rate + 1 \in 1 .. e /\ (j % Rate) \div Width \in Threads
  <2>1. j \in Nat /\ j < Rate * e
    BY <1>2
  <2>2. j \div Rate \in Nat /\ j % Rate \in 0 .. Rate - 1 /\ j = Rate * (j \div Rate) + (j % Rate)
    BY ONLY <1>1, <2>1, DivFacts
  <2>3. (j % Rate) \div Width \in Threads
    BY <2>1, ByteThread
  <2> DEFINE d == j \div Rate
             m == j % Rate
  <2> HIDE DEF d, m, e
  <2>4. d \in Nat /\ m \in Nat /\ j = Rate * d + m
    BY ONLY <1>1, <2>2 DEF d, m
  <2>5. d < e
    <3> SUFFICES ASSUME e <= d PROVE FALSE
      BY <1>1, <2>4
    <3>1. Rate * e <= Rate * d
      <4>1. CASE e = d
        BY ONLY <1>1, <2>4, <4>1
      <4>2. CASE e < d
        <5>1. Rate * e + Rate <= Rate * d
          BY ONLY <1>1, <2>4, <4>2, Multiples
        <5>2. Rate * e \in Nat /\ Rate * d \in Nat
          BY ONLY <1>1, <2>4
        <5> QED BY ONLY <1>1, <5>1, <5>2
      <4> QED BY ONLY <1>1, <2>4, <4>1, <4>2, e <= d
    <3>2. Rate * e \in Nat /\ Rate * d \in Nat
      BY ONLY <1>1, <2>4
    <3> QED BY ONLY <2>1, <2>4, <3>1, <3>2
  <2>6. d + 1 \in 1 .. e
    BY ONLY <1>1, <2>4, <2>5
  <2> QED BY <2>1, <2>3, <2>6 DEF d
<1>4. ASSUME NEW i \in 0 .. Rate - 1
      PROVE  i \div Width \in Threads /\ i \div Width < RateLanes /\ i - Width * (i \div Width) \in 0 .. Width - 1
  <2>1. i \in Nat /\ Rate * 0 + i = i
    BY <1>1
  <2>2. (Rate * 0 + i) % Rate = i
    BY ONLY <1>1, 0 \in Nat, i \in 0 .. Rate - 1, DivUnique
  <2>3. (i % Rate) \div Width \in Threads /\ (i % Rate) \div Width < RateLanes
    BY ONLY <2>1, WarpAssumption, ByteThread
  <2>4. i \div Width \in Nat /\ i % Width \in 0 .. Width - 1 /\ i = Width * (i \div Width) + (i % Width)
    BY ONLY <1>1, <2>1, DivFacts
  <2>5. i - Width * (i \div Width) = i % Width
    <3>1. Width * (i \div Width) \in Nat
      BY ONLY <1>1, <2>4
    <3> DEFINE y == Width * (i \div Width)
               b == i % Width
    <3>2. y \in Nat /\ i = y + b /\ b \in 0 .. Width - 1
      BY <2>4, <3>1
    <3> HIDE DEF y, b
    <3>3. i - y = b
      BY ONLY <1>1, <2>1, <3>2
    <3> QED BY ONLY <3>3 DEF y, b
  <2>6. i % Rate = i
    BY ONLY <2>1, <2>2
  <2>7. i \div Width \in Threads /\ i \div Width < RateLanes
    BY ONLY <2>3, <2>6
  <2> QED BY ONLY <2>4, <2>5, <2>7
<1>5. ASSUME NEW i \in 0 .. (out_len % Rate) - 1
      PROVE  i \in 0 .. Rate - 1 /\ i % WarpSize \in Threads
  <2>1. out_len % Rate \in 0 .. Rate - 1
    BY ONLY <1>1, DivFacts
  <2>2. i \in 0 .. Rate - 1 /\ i \in Nat
    BY <1>1, <2>1
  <2> QED BY ONLY <2>2, WarpAssumption, ByteThread
<1> QED BY <1>1, <1>2, <1>3, <1>4, <1>5

LEMMA StoreStep ==
  ASSUME WarpAssumption, WarpInv, NEW t \in Threads, Store(t)
  PROVE  WarpInv'
<1>1. PICK p \in 0 .. PermuteCount(WarpLayout) : WarpControl(p) /\ WarpWords(p) /\ WarpMemory(p)
  BY DEF WarpInv
<1> DEFINE l == WarpLayout
           n == in_len
           len == out_len
           o == out
           c == pc
           d == Moved(pc, {t})
           x == Operand(t)
<1>2. /\ WarpStarted /\ At(t, "store") /\ Advance({t})
      /\ UNCHANGED <<kind, in_len, out_len, out, program>> /\ UNCHANGED <<base, word, tmp>>
      /\ mem' = Stored(mem, t, out + Rate * (x - 1))
  BY DEF WarpInv, Store
<1>3. /\ {t} \in SUBSET Threads /\ pc' = Moved(pc, {t}) /\ WarpControl(p)'
      /\ c[t] \in 1 .. Final(l) /\ program[c[t]][1] = "store"
      /\ \A u \in {t} : pc[u] <= Final(WarpLayout) /\ program[pc[u]][1] = "store"
  BY <1>1, <1>2, OneGoes
<1>4. IsLayout(l) /\ HasShape(program, l) /\ n \in Nat /\ o \in Nat /\ len \in Nat
  BY <1>2, Context
<1>5. PICK k \in 1 .. l.stores : c[t] = l.before + 2 * k /\ x = k
  <2>1. \E k \in 1 .. l.stores : c[t] = l.before + 2 * k /\ program[c[t]][2] = k
    <3> HIDE DEF l, c
    <3> QED BY ONLY <1>3, <1>4, PlaceOf
  <2> QED BY <2>1 DEF Operand
<1>6. /\ l.stores \in Nat /\ l.before \in Nat /\ l.whole \in Nat /\ k \in Nat \ {0} /\ k <= l.stores
      /\ Rate \in Nat \ {0} /\ Rate * (k - 1) \in Nat
  <2>1. l.stores \in Nat /\ l.before \in Nat /\ l.whole \in Nat
    BY <1>4 DEF IsLayout
  <2>2. k \in Nat \ {0} /\ k <= l.stores
    BY <2>1
  <2>3. Rate \in Nat \ {0}
    BY WarpFacts
  <2> HIDE DEF l
  <2> QED BY <2>1, <2>2, <2>3
<1>7. t \in LaneThreads => p = l.whole + k
  <2> SUFFICES ASSUME t \in LaneThreads PROVE p = l.whole + k
    OBVIOUS
  <2>1. c[t] \in Nat /\ InOrder(l, p, c)
    BY <1>1, <1>5, <1>6 DEF WarpControl
  <2>2. \A y \in 1 .. l.stores : c[t] = l.before + 2 * y => p = l.whole + y
    <3> HIDE DEF l, c
    <3> QED BY ONLY <1>4, <2>1, t \in LaneThreads, LanePlaces
  <2> QED BY <1>5, <2>2
<1>8. /\ DOMAIN mem = 0 .. Memory - 1 /\ DOMAIN tmp = 0 .. Rate - 1
      /\ InputKept(l, n, p, mem) /\ BlocksStored(l, n, o, c, mem)
      /\ l.tail = 1 => RestStored(l, n, c, tmp) /\ RestCopied(l, n, len, o, c, mem)
  BY <1>1 DEF WarpMemory
<1>9. DOMAIN mem' = DOMAIN mem
  BY <1>2 DEF Stored
<1>10. ASSUME NEW j \in Int, o + j \in DOMAIN mem
       PROVE  mem'[o + j] = IF t < RateLanes /\ j - Rate * (k - 1) - Width * t \in 0 .. Width - 1
                            THEN OutByte(n, j) ELSE mem[o + j]
  <2> DEFINE a == o + Rate * (k - 1)
             i == o + j
  <2>1. a \in Int /\ i \in Int /\ i \in DOMAIN mem
    BY <1>4, <1>6, <1>10
  <2>2. Stored(mem, t, a)[i] = IF t < RateLanes /\ i - a - Width * t \in 0 .. Width - 1
                               THEN OutByte(in_len, Rate * (k - 1) + (i - a)) ELSE mem[i]
    <3>1. t \in LaneThreads => p = WarpLayout.whole + k
      BY <1>7
    <3> HIDE DEF a, i
    <3> QED BY <1>1, <1>2, <1>6, <2>1, <3>1, StoredBuffer
  <2>3. Stored(mem, t, a) = mem'
    BY <1>2, <1>5
  <2>4. i - a = j - Rate * (k - 1) /\ Rate * (k - 1) + (i - a) = j
    <3> DEFINE y == Rate * (k - 1)
    <3>1. y \in Nat
      BY <1>6
    <3> HIDE DEF y
    <3> QED BY <1>4, <3>1 DEF y
  <2> HIDE DEF a
  <2> QED BY <2>2, <2>3, <2>4
<1>11. \A u \in Threads : c[u] \in Nat
  <2>1. \A u \in Threads : c[u] \in 1 .. Final(l) + 1
    BY <1>1 DEF WarpControl, InOrder
  <2> QED BY <1>4, <2>1, PermuteOrder
<1>12. ASSUME NEW u \in Threads, NEW y \in Nat, Past(l, d, u, y)
       PROVE  Past(l, c, u, y) \/ (u = t /\ y = k)
  <2>1. Past(l, c, u, y) \/ (u \in {t} /\ c[u] = l.before + 2 * y)
    <3> HIDE DEF l
    <3> QED BY <1>3, <1>4, <1>11, <1>12, PastKept
  <2>2. u \in {t} /\ c[u] = l.before + 2 * y => y = k
    <3> HIDE DEF l, c
    <3> QED BY ONLY <1>5, <1>6, y \in Nat
  <2> QED BY <2>1, <2>2
<1>13. l' = l /\ n' = n /\ len' = len /\ o' = o /\ c' = d /\ tmp' = tmp
  BY <1>2, <1>3, StartedKept
<1>14. /\ \A j \in 0 .. Rate * l.stores - 1 :
            j \in Nat /\ j \div Rate + 1 \in 1 .. l.stores /\ (j % Rate) \div Width \in Threads
       /\ \A i \in 0 .. Rate - 1 : i \div Width \in Threads
       /\ \A i \in 0 .. (len % Rate) - 1 : i % WarpSize \in Threads
       /\ Rate * l.stores \in Nat
  BY <1>2, MemoryPlaces
<1>15. InputKept(l, n, p, mem')
  <2> SUFFICES ASSUME p <= l.whole, NEW a \in 0 .. n - 1 PROVE mem'[a] = Symbol(a + 1)
    BY DEF InputKept
  <2>1. mem[a] = Symbol(a + 1)
    BY <1>8 DEF InputKept
  <2>2. a \in DOMAIN mem /\ a \in Int /\ o + (a - o) = a /\ a - o \in Int
    <3>1. n \in 0 .. Memory /\ Memory \in Nat
      BY <1>2, WarpFacts DEF WarpStarted
    <3> HIDE DEF n, o
    <3> QED BY <1>4, <1>8, <3>1
  <2>3. ~(t < RateLanes)
    <3> SUFFICES ASSUME t < RateLanes PROVE FALSE
      OBVIOUS
    <3>1. t \in LaneThreads
      <4>1. RateLanes \in Nat /\ t \in Nat
        BY WarpFacts DEF Threads
      <4> QED BY <4>1, LaneFacts
    <3>2. p \in 0 .. PermuteCount(l)
      BY <1>1
    <3> HIDE DEF l
    <3> QED BY <1>6, <1>7, <3>1
  <2>4. mem'[o + (a - o)] = mem[o + (a - o)]
    <3> HIDE DEF o
    <3> QED BY <1>10, <2>2, <2>3
  <2> QED BY <2>1, <2>2, <2>4
<1>16. BlocksStored(l, n, o, d, mem')
  <2> SUFFICES ASSUME NEW j \in 0 .. Rate * l.stores - 1, o + j \in DOMAIN mem,
                      Past(l, d, (j % Rate) \div Width, j \div Rate + 1)
               PROVE  mem'[o + j] = OutByte(n, j)
    BY <1>9 DEF BlocksStored
  <2> DEFINE u == (j % Rate) \div Width
             y == j \div Rate + 1
  <2>1. j \in Nat /\ y \in 1 .. l.stores /\ u \in Threads /\ y \in Nat
    BY <1>6, <1>14
  <2>2. CASE Past(l, c, u, y)
    <3>1. mem[o + j] = OutByte(n, j)
      BY <1>8, <2>2 DEF BlocksStored
    <3> HIDE DEF l, n, o, u, y, c
    <3> QED BY <1>10, <2>1, <3>1
  <2>3. CASE u = t /\ y = k
    <3>1. j - Rate * (k - 1) - Width * u \in 0 .. Width - 1 /\ u < RateLanes
      BY <1>6, <2>1, <2>3, BlockByte
    <3> HIDE DEF l, n, o, u, y, c
    <3> QED BY <1>10, <2>1, <2>3, <3>1
  <2> HIDE DEF u, y, l, c, d
  <2> QED BY <1>12, <2>1, <2>2, <2>3 DEF u, y
<1>17. ASSUME l.tail = 1 PROVE RestStored(l, n, d, tmp)
  <2> SUFFICES ASSUME NEW i \in 0 .. Rate - 1, Past(l, d, i \div Width, l.stores + 1)
               PROVE  tmp[i] = OutByte(n, Rate * l.stores + i)
    BY DEF RestStored
  <2>1. l.stores + 1 \in Nat /\ l.stores + 1 # k /\ i \div Width \in Threads
    BY <1>6, <1>14
  <2>2. Past(l, c, i \div Width, l.stores + 1)
    <3> HIDE DEF l, c, d
    <3> QED BY <1>12, <2>1
  <2> HIDE DEF l, c
  <2> QED BY <1>8, <1>17, <2>2 DEF RestStored
<1>18. ASSUME l.tail = 1 PROVE RestCopied(l, n, len, o, d, mem')
  <2> SUFFICES ASSUME NEW i \in 0 .. (len % Rate) - 1, o + Rate * l.stores + i \in DOMAIN mem,
                      Past(l, d, i % WarpSize, l.stores + 2)
               PROVE  mem'[o + Rate * l.stores + i] = OutByte(n, Rate * l.stores + i)
    BY <1>9 DEF RestCopied
  <2>1. l.stores + 2 \in Nat /\ l.stores + 2 # k /\ i % WarpSize \in Threads
    BY <1>6, <1>14
  <2>2. Past(l, c, i % WarpSize, l.stores + 2)
    <3> HIDE DEF l, c, d
    <3> QED BY <1>12, <2>1
  <2>3. mem[o + Rate * l.stores + i] = OutByte(n, Rate * l.stores + i)
    BY <1>8, <1>18, <2>2 DEF RestCopied
  <2> DEFINE z == Rate * l.stores
             j == z + i
  <2>4. z \in Nat /\ j \in Int /\ i \in Int
    BY <1>14
  <2>5. o + z + i = o + j
    <3> HIDE DEF z, o
    <3> QED BY <1>4, <2>4
  <2> HIDE DEF j, o, n, l
  <2> QED BY <1>10, <2>3, <2>4, <2>5 DEF j
<1>19. WarpWords(p)'
  <2>1. \A u \in {t} : u \in LaneThreads => program[pc[u]][1] \notin {"load", "rest"}
    BY <1>3
  <2> QED BY <1>1, <1>2, <1>3, <2>1, QuietWords
<1>20. WarpMemory(p)'
  <2>1. /\ DOMAIN mem' = 0 .. Memory - 1 /\ DOMAIN tmp' = 0 .. Rate - 1
        /\ InputKept(l', n', p, mem') /\ BlocksStored(l', n', o', c', mem')
        /\ l'.tail = 1 => RestStored(l', n', c', tmp') /\ RestCopied(l', n', len', o', c', mem')
    <3> HIDE DEF l, n, len, o, c, d
    <3> QED BY ONLY <1>8, <1>9, <1>13, <1>15, <1>16, <1>17, <1>18
  <2> QED BY <2>1 DEF WarpMemory
<1>21. WarpStarted' /\ WarpLayout' = WarpLayout
  BY <1>2, StartedKept
<1> QED BY <1>1, <1>3, <1>19, <1>20, <1>21 DEF WarpInv

LEMMA StoreTmpStep ==
  ASSUME WarpAssumption, WarpInv, NEW t \in Threads, StoreTmp(t)
  PROVE  WarpInv'
<1>1. PICK p \in 0 .. PermuteCount(WarpLayout) : WarpControl(p) /\ WarpWords(p) /\ WarpMemory(p)
  BY DEF WarpInv
<1> DEFINE l == WarpLayout
           n == in_len
           len == out_len
           o == out
           c == pc
           d == Moved(pc, {t})
           k == l.stores + 1
<1>2. /\ WarpStarted /\ At(t, "store_tmp") /\ Advance({t})
      /\ UNCHANGED <<kind, in_len, out_len, out, program>> /\ UNCHANGED <<base, word, mem>>
      /\ tmp' = Stored(tmp, t, 0)
  BY DEF WarpInv, StoreTmp
<1>3. /\ {t} \in SUBSET Threads /\ pc' = Moved(pc, {t}) /\ WarpControl(p)'
      /\ c[t] \in 1 .. Final(l) /\ program[c[t]][1] = "store_tmp"
      /\ \A u \in {t} : pc[u] <= Final(WarpLayout) /\ program[pc[u]][1] = "store_tmp"
  BY <1>1, <1>2, OneGoes
<1>4. IsLayout(l) /\ HasShape(program, l) /\ n \in Nat /\ o \in Nat /\ len \in Nat
  BY <1>2, Context
<1>5. l.tail = 1 /\ c[t] = l.before + 2 * k
  <2>1. l.tail = 1 /\ c[t] = Behind(l) + 2
    <3> HIDE DEF l, c
    <3> QED BY ONLY <1>3, <1>4, PlaceOf
  <2>2. l.stores \in Nat /\ l.before \in Nat
    BY <1>4 DEF IsLayout
  <2> HIDE DEF l, c
  <2> QED BY <2>1, <2>2 DEF Behind
<1>6. /\ l.stores \in Nat /\ l.before \in Nat /\ l.whole \in Nat /\ k \in Nat \ {0}
      /\ Rate \in Nat \ {0}
  <2>1. l.stores \in Nat /\ l.before \in Nat /\ l.whole \in Nat
    BY <1>4 DEF IsLayout
  <2> QED BY <2>1, WarpFacts
<1>7. t \in LaneThreads => p = l.whole + k
  <2> SUFFICES ASSUME t \in LaneThreads PROVE p = l.whole + k
    OBVIOUS
  <2>1. c[t] \in Nat /\ InOrder(l, p, c) /\ c[t] > Behind(l) + 1
    BY <1>1, <1>5, <1>6 DEF WarpControl, Behind
  <2>2. p = l.whole + l.stores + 1
    <3>1. l.tail = 1 /\ c[t] > Behind(l) + 1 => p = l.whole + l.stores + 1
      <4> HIDE DEF l, c
      <4> QED BY ONLY <1>4, <2>1, t \in LaneThreads, LanePlaces
    <3> QED BY <1>5, <2>1, <3>1
  <2> HIDE DEF l
  <2> QED BY <1>6, <2>2
<1>8. /\ DOMAIN mem = 0 .. Memory - 1 /\ DOMAIN tmp = 0 .. Rate - 1
      /\ InputKept(l, n, p, mem) /\ BlocksStored(l, n, o, c, mem)
      /\ l.tail = 1 => RestStored(l, n, c, tmp) /\ RestCopied(l, n, len, o, c, mem)
  BY <1>1 DEF WarpMemory
<1>9. DOMAIN tmp' = DOMAIN tmp
  BY <1>2 DEF Stored
<1>10. ASSUME NEW i \in 0 .. Rate - 1
       PROVE  tmp'[i] = IF t < RateLanes /\ i - Width * t \in 0 .. Width - 1
                        THEN OutByte(n, Rate * l.stores + i) ELSE tmp[i]
  <2>1. i \in Int /\ i \in DOMAIN tmp /\ 0 \in Int
    BY <1>8
  <2>2. PICK a \in Int : a = 0
    BY <2>1
  <2>3. Stored(tmp, t, a)[i] = IF t < RateLanes /\ i - a - Width * t \in 0 .. Width - 1
                               THEN OutByte(in_len, Rate * (k - 1) + (i - a)) ELSE tmp[i]
    <3>1. t \in LaneThreads => p = WarpLayout.whole + k
      BY <1>7
    <3> HIDE DEF k
    <3> QED BY ONLY WarpAssumption, <1>1, <1>2, <1>6, <2>1, <2>2, <3>1, t \in Threads, StoredBuffer
  <2>4. i - a = i /\ k - 1 = l.stores
    BY <1>6, <2>1, <2>2
  <2>5. i - a - Width * t = i - Width * t
    BY ONLY <2>4
  <2> HIDE DEF k, l
  <2> QED BY <1>2, <2>2, <2>3, <2>4, <2>5
<1>11. \A u \in Threads : c[u] \in Nat
  <2>1. \A u \in Threads : c[u] \in 1 .. Final(l) + 1
    BY <1>1 DEF WarpControl, InOrder
  <2> QED BY <1>4, <2>1, PermuteOrder
<1>12. ASSUME NEW u \in Threads, NEW y \in Nat, Past(l, d, u, y)
       PROVE  Past(l, c, u, y) \/ (u = t /\ y = k)
  <2>1. Past(l, c, u, y) \/ (u \in {t} /\ c[u] = l.before + 2 * y)
    <3> HIDE DEF l
    <3> QED BY <1>3, <1>4, <1>11, <1>12, PastKept
  <2>2. u \in {t} /\ c[u] = l.before + 2 * y => y = k
    <3> HIDE DEF l, c, k
    <3> QED BY ONLY <1>5, <1>6, y \in Nat
  <2> QED BY <2>1, <2>2
<1>13. l' = l /\ n' = n /\ len' = len /\ o' = o /\ c' = d /\ mem' = mem
  BY <1>2, <1>3, StartedKept
<1>14. /\ \A j \in 0 .. Rate * l.stores - 1 :
            j \in Nat /\ j \div Rate + 1 \in 1 .. l.stores /\ (j % Rate) \div Width \in Threads
       /\ \A i \in 0 .. Rate - 1 : i \div Width \in Threads /\ i \div Width < RateLanes
                                   /\ i - Width * (i \div Width) \in 0 .. Width - 1
       /\ \A i \in 0 .. (len % Rate) - 1 : i % WarpSize \in Threads
  BY <1>2, MemoryPlaces
<1>15. BlocksStored(l, n, o, d, mem)
  <2> SUFFICES ASSUME NEW j \in 0 .. Rate * l.stores - 1, o + j \in DOMAIN mem,
                      Past(l, d, (j % Rate) \div Width, j \div Rate + 1)
               PROVE  mem[o + j] = OutByte(n, j)
    BY DEF BlocksStored
  <2> DEFINE u == (j % Rate) \div Width
             y == j \div Rate + 1
  <2>1. y \in 1 .. l.stores /\ u \in Threads /\ y \in Nat /\ y # k
    BY <1>6, <1>14
  <2>2. Past(l, c, u, y)
    <3> HIDE DEF u, y, l, c, d, k
    <3> QED BY <1>12, <2>1 DEF u, y
  <2> QED BY <1>8, <2>2 DEF BlocksStored
<1>16. RestStored(l, n, d, tmp')
  <2> SUFFICES ASSUME NEW i \in 0 .. Rate - 1, Past(l, d, i \div Width, k)
               PROVE  tmp'[i] = OutByte(n, Rate * l.stores + i)
    BY DEF RestStored
  <2> DEFINE u == i \div Width
  <2>1. u \in Threads /\ u < RateLanes /\ i - Width * u \in 0 .. Width - 1
    BY <1>14
  <2>2. CASE Past(l, c, u, k)
    <3>1. tmp[i] = OutByte(n, Rate * l.stores + i)
      BY <1>5, <1>8, <2>2 DEF RestStored
    <3> HIDE DEF l, n, u
    <3> QED BY <1>10, <3>1
  <2>3. CASE u = t
    <3> HIDE DEF l, n, u
    <3> QED BY <1>10, <2>1, <2>3
  <2>4. Past(l, c, u, k) \/ u = t
    <3> HIDE DEF u, l, c, d, k
    <3> QED BY <1>6, <1>12, <2>1 DEF u
  <2> QED BY <2>2, <2>3, <2>4
<1>17. RestCopied(l, n, len, o, d, mem)
  <2> SUFFICES ASSUME NEW i \in 0 .. (len % Rate) - 1, o + Rate * l.stores + i \in DOMAIN mem,
                      Past(l, d, i % WarpSize, l.stores + 2)
               PROVE  mem[o + Rate * l.stores + i] = OutByte(n, Rate * l.stores + i)
    BY DEF RestCopied
  <2>1. l.stores + 2 \in Nat /\ l.stores + 2 # k /\ i % WarpSize \in Threads
    BY <1>6, <1>14
  <2>2. Past(l, c, i % WarpSize, l.stores + 2)
    <3> HIDE DEF l, c, d, k
    <3> QED BY <1>12, <2>1
  <2> HIDE DEF l, c
  <2> QED BY <1>5, <1>8, <2>2 DEF RestCopied
<1>18. WarpWords(p)'
  <2>1. \A u \in {t} : u \in LaneThreads => program[pc[u]][1] \notin {"load", "rest"}
    BY <1>3
  <2> QED BY <1>1, <1>2, <1>3, <2>1, QuietWords
<1>19. WarpMemory(p)'
  <2>1. /\ DOMAIN mem' = 0 .. Memory - 1 /\ DOMAIN tmp' = 0 .. Rate - 1
        /\ InputKept(l', n', p, mem') /\ BlocksStored(l', n', o', c', mem')
        /\ l'.tail = 1 => RestStored(l', n', c', tmp') /\ RestCopied(l', n', len', o', c', mem')
    <3> HIDE DEF l, n, len, o, c, d
    <3> QED BY ONLY <1>8, <1>9, <1>13, <1>15, <1>16, <1>17
  <2> QED BY <2>1 DEF WarpMemory
<1>20. WarpStarted' /\ WarpLayout' = WarpLayout
  BY <1>2, StartedKept
<1> QED BY <1>1, <1>3, <1>18, <1>19, <1>20 DEF WarpInv

LEMMA CopyStep ==
  ASSUME WarpAssumption, WarpInv, NEW t \in Threads, Copy(t)
  PROVE  WarpInv'
<1>1. PICK p \in 0 .. PermuteCount(WarpLayout) : WarpControl(p) /\ WarpWords(p) /\ WarpMemory(p)
  BY DEF WarpInv
<1> DEFINE l == WarpLayout
           n == in_len
           len == out_len
           o == out
           c == pc
           d == Moved(pc, {t})
           k == l.stores + 2
           z == Rate * l.stores
<1>2. /\ WarpStarted /\ At(t, "copy") /\ Advance({t})
      /\ UNCHANGED <<kind, in_len, out_len, out, program>> /\ UNCHANGED <<base, word, tmp>>
  BY DEF WarpInv, Copy
<1>3. /\ {t} \in SUBSET Threads /\ pc' = Moved(pc, {t}) /\ WarpControl(p)'
      /\ c[t] \in 1 .. Final(l) /\ program[c[t]][1] = "copy"
      /\ \A u \in {t} : pc[u] <= Final(WarpLayout) /\ program[pc[u]][1] = "copy"
  BY <1>1, <1>2, OneGoes
<1>4. IsLayout(l) /\ HasShape(program, l) /\ n \in Nat /\ o \in Nat /\ len \in Nat
  BY <1>2, Context
<1>5. l.tail = 1 /\ c[t] = Behind(l) + 4
  <2> HIDE DEF l, c
  <2> QED BY ONLY <1>3, <1>4, PlaceOf
<1>6. /\ l.stores \in Nat /\ l.before \in Nat /\ l.whole \in Nat /\ k \in Nat \ {0}
      /\ Rate \in Nat \ {0} /\ z \in Nat /\ Behind(l) = l.before + 2 * l.stores
      /\ l.stores = len \div Rate /\ c[t] = l.before + 2 * k
  <2>1. l.stores \in Nat /\ l.before \in Nat /\ l.whole \in Nat
    BY <1>4 DEF IsLayout
  <2>2. Rate \in Nat \ {0}
    BY WarpFacts
  <2>3. z \in Nat
    BY <2>1, <2>2
  <2>4. Behind(l) = l.before + 2 * l.stores
    BY DEF Behind
  <2>5. l.stores = len \div Rate
    BY <1>2, <1>5, Context
  <2>6. k \in Nat \ {0} /\ c[t] = l.before + 2 * k
    <3> HIDE DEF l, c
    <3> QED BY ONLY <1>5, <2>1, <2>4
  <2> QED BY <2>1, <2>2, <2>3, <2>4, <2>5, <2>6
<1>7. p = l.whole + l.stores + 1 /\ \A u \in Threads : Past(l, c, u, l.stores + 1)
  <2>1. InOrder(l, p, c) /\ c[t] > Behind(l) + 3
    BY <1>1, <1>5, <1>6 DEF WarpControl
  <2>2. p = l.whole + l.stores + 1 /\ \A u \in Threads : c[u] > Behind(l) + 3
    <3> HIDE DEF l, c
    <3> QED BY ONLY WarpAssumption, <1>4, <1>5, <2>1, t \in Threads, CopyPlace
  <2>3. ASSUME NEW u \in Threads PROVE Past(l, c, u, l.stores + 1)
    <3>1. c[u] \in Nat
      <4>1. c[u] \in 1 .. Final(l) + 1
        BY <2>1 DEF InOrder
      <4> QED BY <1>4, <4>1, PermuteOrder
    <3>2. c[u] > Behind(l) + 3
      BY <2>2
    <3> HIDE DEF l, c
    <3> QED BY ONLY <1>6, <3>1, <3>2 DEF Past
  <2> QED BY <2>2, <2>3
<1>8. /\ DOMAIN mem = 0 .. Memory - 1 /\ DOMAIN tmp = 0 .. Rate - 1
      /\ InputKept(l, n, p, mem) /\ BlocksStored(l, n, o, c, mem)
      /\ RestStored(l, n, c, tmp) /\ RestCopied(l, n, len, o, c, mem)
  BY <1>1, <1>5 DEF WarpMemory
<1>9. /\ \A j \in 0 .. z - 1 :
           j \in Nat /\ j \div Rate + 1 \in 1 .. l.stores /\ (j % Rate) \div Width \in Threads
      /\ \A i \in 0 .. Rate - 1 : i \div Width \in Threads
      /\ \A i \in 0 .. (len % Rate) - 1 : i \in 0 .. Rate - 1 /\ i % WarpSize \in Threads
  BY <1>2, MemoryPlaces
<1>10. \A i \in 0 .. Rate - 1 : tmp[i] = OutByte(n, z + i)
  <2> TAKE i \in 0 .. Rate - 1
  <2>1. Past(l, c, i \div Width, l.stores + 1)
    BY <1>7, <1>9
  <2> HIDE DEF l, c, n
  <2> QED BY <1>8, <2>1 DEF RestStored, z
<1>11. /\ DOMAIN mem' = DOMAIN mem
       /\ \A i \in DOMAIN mem : mem'[i] = IF i - (o + z) \in 0 .. (len % Rate) - 1 /\ (i - (o + z)) % WarpSize = t
                                          THEN tmp[i - (o + z)] ELSE mem[i]
  <2>1. mem' = [i \in DOMAIN mem |->
                  IF i - (out + Rate * (out_len \div Rate)) \in 0 .. (out_len % Rate) - 1
                     /\ (i - (out + Rate * (out_len \div Rate))) % WarpSize = t
                  THEN tmp[i - (out + Rate * (out_len \div Rate))] ELSE mem[i]]
    BY DEF Copy
  <2>2. out + Rate * (out_len \div Rate) = o + z
    BY <1>6
  <2> HIDE DEF z, o, l
  <2> QED BY <2>1, <2>2
<1>12. ASSUME NEW j \in Int, o + j \in DOMAIN mem
       PROVE  mem'[o + j] = IF j - z \in 0 .. (len % Rate) - 1 /\ (j - z) % WarpSize = t
                            THEN OutByte(n, j) ELSE mem[o + j]
  <2>1. (o + j) - (o + z) = j - z
    <3> HIDE DEF o, z
    <3> QED BY ONLY <1>4, <1>6, j \in Int
  <2>2. mem'[o + j] = IF j - z \in 0 .. (len % Rate) - 1 /\ (j - z) % WarpSize = t
                      THEN tmp[j - z] ELSE mem[o + j]
    <3> HIDE DEF o, z, l, len
    <3> QED BY <1>11, <1>12, <2>1
  <2>3. ASSUME j - z \in 0 .. (len % Rate) - 1 PROVE tmp[j - z] = OutByte(n, j)
    <3>1. j - z \in 0 .. Rate - 1 /\ z + (j - z) = j
      <4> HIDE DEF z, l, len
      <4> QED BY <1>6, <1>9, <2>3
    <3> HIDE DEF z, n
    <3> QED BY <1>10, <3>1
  <2> QED BY <2>2, <2>3
<1>13. \A u \in Threads : c[u] \in Nat
  <2>1. \A u \in Threads : c[u] \in 1 .. Final(l) + 1
    BY <1>1 DEF WarpControl, InOrder
  <2> QED BY <1>4, <2>1, PermuteOrder
<1>14. ASSUME NEW u \in Threads, NEW y \in Nat, Past(l, d, u, y)
       PROVE  Past(l, c, u, y) \/ (u = t /\ y = k)
  <2>1. Past(l, c, u, y) \/ (u \in {t} /\ c[u] = l.before + 2 * y)
    <3> HIDE DEF l
    <3> QED BY <1>3, <1>4, <1>13, <1>14, PastKept
  <2>2. u \in {t} /\ c[u] = l.before + 2 * y => y = k
    <3> HIDE DEF l, c, k
    <3> QED BY ONLY <1>6, y \in Nat
  <2> QED BY <2>1, <2>2
<1>15. l' = l /\ n' = n /\ len' = len /\ o' = o /\ c' = d /\ tmp' = tmp
  BY <1>2, <1>3, StartedKept
<1>16. InputKept(l, n, p, mem')
  <2>1. ~(p <= l.whole)
    <3> HIDE DEF l
    <3> QED BY <1>6, <1>7
  <2> QED BY <2>1 DEF InputKept
<1>17. BlocksStored(l, n, o, d, mem')
  <2> SUFFICES ASSUME NEW j \in 0 .. z - 1, o + j \in DOMAIN mem,
                      Past(l, d, (j % Rate) \div Width, j \div Rate + 1)
               PROVE  mem'[o + j] = OutByte(n, j)
    BY <1>11 DEF BlocksStored
  <2> DEFINE u == (j % Rate) \div Width
             y == j \div Rate + 1
  <2>1. j \in Nat /\ y \in 1 .. l.stores /\ u \in Threads /\ y \in Nat /\ y # k
    BY <1>6, <1>9
  <2>2. Past(l, c, u, y)
    <3> HIDE DEF u, y, l, c, d, k
    <3> QED BY <1>14, <2>1 DEF u, y
  <2>3. mem[o + j] = OutByte(n, j)
    BY <1>8, <2>2 DEF BlocksStored
  <2> HIDE DEF o, z, n, len
  <2> QED BY <1>12, <2>1, <2>3
<1>18. RestStored(l, n, d, tmp)
  <2> SUFFICES ASSUME NEW i \in 0 .. Rate - 1 PROVE tmp[i] = OutByte(n, z + i)
    BY DEF RestStored
  <2> QED BY <1>10
<1>19. RestCopied(l, n, len, o, d, mem')
  <2> SUFFICES ASSUME NEW i \in 0 .. (len % Rate) - 1, o + z + i \in DOMAIN mem,
                      Past(l, d, i % WarpSize, k)
               PROVE  mem'[o + z + i] = OutByte(n, z + i)
    BY <1>11 DEF RestCopied
  <2> DEFINE j == z + i
             u == i % WarpSize
  <2>1. j \in Int /\ j - z = i /\ o + z + i = o + j /\ i \in Int
    <3>1. i \in Int
      OBVIOUS
    <3> HIDE DEF z, o
    <3> QED BY <1>4, <1>6, <3>1
  <2>2. u \in Threads
    BY <1>9
  <2>3. CASE Past(l, c, u, k)
    <3>1. mem[o + z + i] = OutByte(n, z + i)
      BY <1>8, <2>3 DEF RestCopied
    <3> HIDE DEF j, o, z, n, len, l, c, u
    <3> QED BY <1>12, <2>1, <3>1 DEF j
  <2>4. CASE u = t
    <3> HIDE DEF j, o, z, n, len, l, c
    <3> QED BY <1>12, <2>1, <2>4 DEF j
  <2>5. Past(l, c, u, k) \/ u = t
    <3> HIDE DEF u, l, c, d, k
    <3> QED BY <1>6, <1>14, <2>2 DEF u
  <2> QED BY <2>3, <2>4, <2>5
<1>20. WarpWords(p)'
  <2>1. \A u \in {t} : u \in LaneThreads => program[pc[u]][1] \notin {"load", "rest"}
    BY <1>3
  <2> QED BY <1>1, <1>2, <1>3, <2>1, QuietWords
<1>21. WarpMemory(p)'
  <2>1. /\ DOMAIN mem' = 0 .. Memory - 1 /\ DOMAIN tmp' = 0 .. Rate - 1
        /\ InputKept(l', n', p, mem') /\ BlocksStored(l', n', o', c', mem')
        /\ l'.tail = 1 => RestStored(l', n', c', tmp') /\ RestCopied(l', n', len', o', c', mem')
    <3> HIDE DEF l, n, len, o, c, d
    <3> QED BY ONLY <1>8, <1>11, <1>15, <1>16, <1>17, <1>18, <1>19
  <2> QED BY <2>1 DEF WarpMemory
<1>22. WarpStarted' /\ WarpLayout' = WarpLayout
  BY <1>2, StartedKept
<1> QED BY <1>1, <1>3, <1>20, <1>21, <1>22 DEF WarpInv

LEMMA WarpStart ==
  ASSUME WarpAssumption, WarpInit
  PROVE  WarpInv
<1> DEFINE l == WarpLayout
<1>1. /\ InLens \subseteq 0 .. Memory /\ OutLens \subseteq 0 .. Memory \div 2 /\ Memory \in Nat
      /\ Rate \in Nat \ {0}
  BY WarpFacts DEF WarpAssumption
<1>2. WarpStarted
  BY <1>1 DEF WarpInit, WarpStarted
<1>3. IsLayout(l) /\ in_len \in Nat
  BY <1>2, Context
<1>4. /\ l.whole \in Nat /\ l.stores \in Nat /\ l.before \in Nat
      /\ PermuteCount(l) \in Nat /\ Behind(l) \in Nat /\ Final(l) \in Nat
      /\ PermuteAt(l, 0) = 0 /\ PermuteAt(l, 1) \in Nat /\ PermuteAt(l, 0) < PermuteAt(l, 1)
  <2>1. l.whole \in Nat /\ l.stores \in Nat /\ l.before \in Nat
    BY <1>3 DEF IsLayout
  <2>2. /\ PermuteCount(l) \in Nat /\ Behind(l) \in Nat /\ Final(l) \in Nat /\ PermuteAt(l, 0) = 0
        /\ \A k \in 0 .. PermuteCount(l) + 1 : PermuteAt(l, k) \in Nat
        /\ \A j, k \in 0 .. PermuteCount(l) + 1 : j < k => PermuteAt(l, j) < PermuteAt(l, k)
    BY <1>3, PermuteOrder
  <2>3. 0 \in 0 .. PermuteCount(l) + 1 /\ 1 \in 0 .. PermuteCount(l) + 1 /\ 0 < 1
    BY <2>2
  <2> HIDE DEF l
  <2> QED BY ONLY <2>1, <2>2, <2>3
<1>5. pc = [t \in Threads |-> 1] /\ base = << >> /\ word = [t \in Threads |-> BlankWord]
      /\ mem = [a \in 0 .. Memory - 1 |-> IF a < in_len THEN Symbol(a + 1) ELSE Junk]
      /\ DOMAIN tmp = 0 .. Rate - 1
  BY DEF WarpInit
<1>6. LaneThreads \subseteq Threads
  BY LaneFacts
<1>7. WarpControl(0)
  <2>1. 0 \in 0 .. PermuteCount(l) /\ DOMAIN pc = Threads /\ \A t \in Threads : pc[t] = 1
    BY <1>4, <1>5
  <2>2. 1 \in 1 .. Final(l) + 1 /\ PermuteAt(l, 0) < 1 /\ 1 <= PermuteAt(l, 0 + 1) /\ ~(1 > Behind(l) + 3)
    <3> HIDE DEF l
    <3> QED BY ONLY <1>4
  <2>3. InOrder(l, 0, pc)
    <3> HIDE DEF l
    <3> QED BY <1>6, <2>1, <2>2 DEF InOrder
  <2> QED BY <2>3 DEF WarpControl
<1>8. WarpWords(0)
  <2>1. base = Blocks(l, in_len, 0)
    BY <1>5 DEF Blocks
  <2>2. ASSUME NEW t \in LaneThreads PROVE word[t] = LaneWord(l, in_len, 0, pc[t], t)
    <3>1. word[t] = BlankWord /\ pc[t] = 1
      BY <1>5, <1>6
    <3>2. ~(pc[t] > 2 * 0 + 1)
      BY <3>1
    <3> HIDE DEF l
    <3> QED BY ONLY <3>1, <3>2 DEF LaneWord, BlankWord
  <2> QED BY <1>5, <2>1, <2>2 DEF WarpWords
<1>9. \A t \in Threads, k \in Nat : ~Past(l, pc, t, k)
  <2> TAKE t \in Threads, k \in Nat
  <2>1. pc[t] = 1 /\ l.before \in Nat /\ l.before >= 1
    BY <1>3, <1>5 DEF IsLayout
  <2> HIDE DEF l
  <2> QED BY ONLY <2>1, k \in Nat DEF Past
<1>10. WarpMemory(0)
  <2>1. InputKept(l, in_len, 0, mem)
    <3> SUFFICES ASSUME NEW a \in 0 .. in_len - 1 PROVE mem[a] = Symbol(a + 1)
      BY DEF InputKept
    <3>1. in_len \in 0 .. Memory
      BY <1>2 DEF WarpStarted
    <3> QED BY <1>1, <1>5, <3>1
  <2>2. /\ \A j \in 0 .. Rate * l.stores - 1 :
             j \in Nat /\ j \div Rate + 1 \in 1 .. l.stores /\ (j % Rate) \div Width \in Threads
        /\ \A i \in 0 .. Rate - 1 : i \div Width \in Threads
        /\ \A i \in 0 .. (out_len % Rate) - 1 : i % WarpSize \in Threads
    BY <1>2, MemoryPlaces
  <2>3. BlocksStored(l, in_len, out, pc, mem)
    <3>1. \A j \in 0 .. Rate * l.stores - 1 : ~Past(l, pc, (j % Rate) \div Width, j \div Rate + 1)
      <4> TAKE j \in 0 .. Rate * l.stores - 1
      <4>1. j \div Rate + 1 \in Nat /\ (j % Rate) \div Width \in Threads
        BY <1>4, <2>2
      <4> QED BY ONLY <1>9, <4>1
    <3> HIDE DEF l
    <3> QED BY ONLY <3>1 DEF BlocksStored
  <2>4. RestStored(l, in_len, pc, tmp)
    <3>1. \A i \in 0 .. Rate - 1 : ~Past(l, pc, i \div Width, l.stores + 1)
      BY <1>4, <1>9, <2>2
    <3> HIDE DEF l
    <3> QED BY ONLY <3>1 DEF RestStored
  <2>5. RestCopied(l, in_len, out_len, out, pc, mem)
    <3>1. \A i \in 0 .. (out_len % Rate) - 1 : ~Past(l, pc, i % WarpSize, l.stores + 2)
      BY <1>4, <1>9, <2>2
    <3> HIDE DEF l
    <3> QED BY ONLY <3>1 DEF RestCopied
  <2>6. DOMAIN mem = 0 .. Memory - 1
    BY <1>5
  <2> QED BY <1>5, <2>1, <2>3, <2>4, <2>5, <2>6 DEF WarpMemory
<1>11. 0 \in 0 .. PermuteCount(WarpLayout)
  BY <1>4
<1> QED BY <1>2, <1>7, <1>8, <1>10, <1>11 DEF WarpInv

LEMMA WarpNextStep ==
  ASSUME WarpAssumption, WarpInv, [WarpNext]_warpVars
  PROVE  WarpInv'
<1>1. CASE UNCHANGED warpVars
  BY <1>1 DEF warpVars, WarpInv, WarpStarted, WarpControl, WarpWords, WarpMemory, WarpLayout
<1>2. ASSUME NEW t \in Threads,
             Load(t) \/ Rest(t) \/ SkipPermute(t) \/ Store(t) \/ StoreTmp(t) \/ Copy(t)
      PROVE  WarpInv'
  <2>1. CASE Load(t)
    BY <2>1, LoadStep
  <2>2. CASE Rest(t)
    BY <2>2, RestStep
  <2>3. CASE SkipPermute(t)
    BY <2>3, SkipPermuteStep
  <2>4. CASE Store(t)
    BY <2>4, StoreStep
  <2>5. CASE StoreTmp(t)
    BY <2>5, StoreTmpStep
  <2>6. CASE Copy(t)
    BY <2>6, CopyStep
  <2> QED BY <1>2, <2>1, <2>2, <2>3, <2>4, <2>5, <2>6
<1>3. CASE Permute
  BY <1>3, PermuteStep
<1>4. CASE SyncWarp
  BY <1>4, SyncWarpStep
<1> QED BY <1>1, <1>2, <1>3, <1>4 DEF WarpNext

\* When all threads are at the end, every byte of the output has been stored.
LEMMA WarpEnd ==
  ASSUME WarpAssumption, WarpInv
  PROVE  WarpHashes
<1> SUFFICES ASSUME \A t \in Threads : ~Running(t), NEW j \in 1 .. out_len
             PROVE  mem[out + j - 1] = XofByte(Rate, SHAKE, in_len, j)
  BY DEF WarpHashes
<1>1. PICK p \in 0 .. PermuteCount(WarpLayout) : WarpControl(p) /\ WarpMemory(p)
  BY DEF WarpInv
<1> DEFINE l == WarpLayout
           n == in_len
           len == out_len
           o == out
           c == pc
           f == Final(l)
           e == l.stores
           z == Rate * e
           i == j - 1
<1>2. WarpStarted
  BY DEF WarpInv
<1>3. IsLayout(l) /\ HasShape(program, l) /\ n \in Nat /\ o \in Nat /\ len \in Nat
  BY <1>2, Context
<1>4. e \in Nat /\ l.before \in Nat /\ f \in Nat /\ Rate \in Nat \ {0} /\ Memory \in Nat /\ z \in Nat
  BY <1>3, WarpFacts, PermuteOrder, MemoryPlaces, <1>2 DEF IsLayout
<1>5. \A t \in Threads : c[t] = f + 1
  <2> TAKE t \in Threads
  <2>1. c[t] \in 1 .. f + 1
    BY <1>1 DEF WarpControl, InOrder
  <2>2. ~(c[t] \in 1 .. f)
    BY <1>3 DEF HasShape, Running
  <2> HIDE DEF c, f
  <2> QED BY ONLY <1>4, <2>1, <2>2
<1>6. /\ BlocksStored(l, n, o, c, mem) /\ DOMAIN mem = 0 .. Memory - 1
      /\ l.tail = 1 => RestCopied(l, n, len, o, c, mem)
  BY <1>1 DEF WarpMemory
<1>7. i \in Nat /\ i < len /\ i + 1 = j /\ o + i \in DOMAIN mem /\ o + j - 1 = o + i
  <2>1. o \in {0, Memory \div 2} /\ len \in 0 .. Memory \div 2
    BY <1>2 DEF WarpStarted
  <2>2. i \in Nat /\ i < len /\ i + 1 = j
    BY <1>3
  <2>3. Memory \div 2 \in Nat /\ 2 * (Memory \div 2) <= Memory
    BY <1>4
  <2>4. j \in Int /\ o + j - 1 = o + i
    BY <1>3
  <2>5. o + i \in 0 .. Memory - 1
    <3> DEFINE half == Memory \div 2
    <3>1. half \in Nat /\ 2 * half <= Memory /\ o \in {0, half} /\ len \in 0 .. half
      BY <2>1, <2>3
    <3> HIDE DEF half, o, len, i
    <3> QED BY ONLY <1>4, <2>2, <3>1
  <2> QED BY <1>6, <2>2, <2>4, <2>5
<1>8. \A t \in Threads, k \in Nat : k <= e + 2 * l.tail => Past(l, c, t, k)
  <2> TAKE t \in Threads, k \in Nat
  <2>1. f = l.before + 2 * e + 4 * l.tail /\ l.tail \in {0, 1}
    BY <1>3 DEF Final, Behind, IsLayout
  <2>2. c[t] = f + 1
    BY <1>5
  <2> HIDE DEF c, f, e, l
  <2> QED BY ONLY <1>4, <2>1, <2>2, k \in Nat DEF Past
<1>9. CASE i < z
  <2>1. i \in 0 .. Rate * l.stores - 1
    <3>1. i \in 0 .. z - 1
      <4> HIDE DEF i, z
      <4> QED BY ONLY <1>4, <1>7, <1>9
    <3> QED BY <3>1
  <2>2. i \div Rate + 1 \in 1 .. e /\ (i % Rate) \div Width \in Threads
    BY <1>2, <2>1, MemoryPlaces
  <2>3. i \div Rate + 1 \in Nat /\ i \div Rate + 1 <= e + 2 * l.tail
    <3>1. l.tail \in Nat
      BY <1>3 DEF IsLayout
    <3> DEFINE y == i \div Rate + 1
    <3>2. y \in 1 .. e
      BY <2>2
    <3>3. y \in Nat /\ y <= e + 2 * l.tail
      <4> HIDE DEF y, e, l
      <4> QED BY ONLY <1>4, <3>1, <3>2
    <3> QED BY <3>3
  <2>4. Past(l, c, (i % Rate) \div Width, i \div Rate + 1)
    <3> HIDE DEF l, c, e, i
    <3> QED BY ONLY <1>8, <2>2, <2>3
  <2>5. mem[o + i] = OutByte(n, i)
    <3> HIDE DEF l, c, o, n, i
    <3> QED BY <1>6, <1>7, <2>1, <2>4 DEF BlocksStored
  <2> QED BY <1>7, <2>5 DEF OutByte
<1>10. CASE ~(i < z)
  <2>1. kind = "shake" /\ len % Rate # 0
    <3>1. /\ kind = "shake" => e = len \div Rate
          /\ kind # "shake" => e = (len + Rate - 1) \div Rate
      BY DEF WarpLayout, LayoutOf
    <3>2. len \div Rate \in Nat /\ len % Rate \in 0 .. Rate - 1 /\ len = Rate * (len \div Rate) + (len % Rate)
      BY ONLY <1>3, <1>4, DivFacts
    <3>3. kind = "shake"
      <4> SUFFICES ASSUME kind # "shake" PROVE FALSE
        OBVIOUS
      <4>1. e = (len + Rate - 1) \div Rate
        BY <3>1
      <4>2. PICK m \in Nat : m = len + Rate - 1
        <5>1. len + Rate - 1 \in Nat
          BY <1>3, <1>4
        <5> QED BY <5>1
      <4>3. m \div Rate \in Nat /\ m % Rate \in 0 .. Rate - 1 /\ m = Rate * (m \div Rate) + (m % Rate)
        BY ONLY <1>4, m \in Nat, DivFacts
      <4>4. m = z + (m % Rate)
        BY <4>1, <4>2, <4>3
      <4> DEFINE r == m % Rate
      <4>5. r \in 0 .. Rate - 1 /\ m = z + r
        BY <4>3, <4>4
      <4> HIDE DEF r, z, i, len
      <4> QED BY ONLY <1>3, <1>4, <1>7, <1>10, <4>2, <4>5
    <3>4. len % Rate # 0
      <4> SUFFICES ASSUME len % Rate = 0 PROVE FALSE
        OBVIOUS
      <4>1. len = z
        BY <1>4, <3>1, <3>2, <3>3
      <4> HIDE DEF z, i, len
      <4> QED BY ONLY <1>4, <1>7, <1>10, <4>1
    <3> QED BY <3>3, <3>4
  <2>2. l.tail = 1 /\ e = len \div Rate
    BY <2>1 DEF WarpLayout, LayoutOf
  <2> DEFINE m == i - z
  <2>3. m \in 0 .. (len % Rate) - 1 /\ z + m = i /\ o + z + m = o + i
    <3>1. len % Rate \in 0 .. Rate - 1 /\ len = Rate * (len \div Rate) + (len % Rate)
      BY ONLY <1>3, <1>4, DivFacts
    <3>2. len = z + (len % Rate)
      BY <2>2, <3>1
    <3> DEFINE r == len % Rate
    <3>3. r \in Nat /\ len = z + r
      BY <1>4, <3>1, <3>2
    <3> HIDE DEF z, i, len, r
    <3>4. i - z \in 0 .. r - 1 /\ z + (i - z) = i
      BY ONLY <1>3, <1>4, <1>7, <1>10, <3>3
    <3>5. o + z + (i - z) = o + i
      <4> HIDE DEF o
      <4> QED BY ONLY <1>3, <1>4, <1>7
    <3> QED BY <3>4, <3>5 DEF r
  <2>4. m % WarpSize \in Threads
    BY <1>2, <2>3, MemoryPlaces
  <2>5. Past(l, c, m % WarpSize, e + 2)
    <3>1. e + 2 \in Nat /\ e + 2 <= e + 2 * l.tail
      BY <1>4, <2>2
    <3> HIDE DEF l, c, e, m
    <3> QED BY ONLY <1>8, <2>4, <3>1
  <2>6. mem[o + Rate * l.stores + m] = OutByte(n, Rate * l.stores + m)
    <3>1. o + Rate * l.stores + m \in DOMAIN mem
      BY <1>7, <2>3
    <3>2. RestCopied(l, n, len, o, c, mem)
      BY <1>6, <2>2
    <3>3. Past(l, c, m % WarpSize, l.stores + 2)
      BY <2>5
    <3> HIDE DEF l, n, len, o, c, m, i, z
    <3> QED BY ONLY <2>3, <3>1, <3>2, <3>3 DEF RestCopied
  <2>7. mem[o + i] = OutByte(n, i)
    <3>1. mem[o + z + m] = OutByte(n, z + m)
      BY <2>6
    <3> HIDE DEF m, z, o, i, n
    <3> QED BY ONLY <2>3, <3>1
  <2> QED BY <1>7, <2>7 DEF OutByte
<1> QED BY <1>9, <1>10

\* When all threads of a warp are through, the output buffer has the bytes of
\* SHAKE, for each of the four functions of fips202_cuda/warp, for every width
\* and number of lanes, all lengths of input and output, however the threads
\* overtake each other between two permutations, and also when the output is
\* written over the input.
THEOREM WarpHashesAlways ==
  ASSUME WarpAssumption
  PROVE  WarpSpec => []WarpHashes
<1>1. WarpInit => WarpInv
  BY WarpStart
<1>2. WarpInv /\ [WarpNext]_warpVars => WarpInv'
  BY WarpNextStep
<1>3. WarpInv => WarpHashes
  BY WarpEnd
<1> QED BY <1>1, <1>2, <1>3, PTL DEF WarpSpec

-----------------------------------------------------------------------------
(* The permutation: tuples that are listed by a function of the index.     *)
Indices == 0 .. 24
Listed(f) ==
  <<f[0], f[1], f[2], f[3], f[4], f[5], f[6], f[7], f[8], f[9],
    f[10], f[11], f[12], f[13], f[14], f[15], f[16], f[17], f[18], f[19],
    f[20], f[21], f[22], f[23], f[24]>>
Listed5(f) == <<f[0], f[1], f[2], f[3], f[4]>>

LEMMA ListedFacts ==
  ASSUME NEW V, NEW f \in [Indices -> V]
  PROVE  Listed(f) \in [1 .. 25 -> V] /\ \A i \in Indices : Listed(f)[i + 1] = f[i]
<1>1. \A i \in Indices : Listed(f)[i + 1] = f[i]
  BY DEF Listed, Indices
<1>2. DOMAIN Listed(f) = 1 .. 25 /\ Listed(f) = [j \in 1 .. 25 |-> Listed(f)[j]]
  BY DEF Listed
<1>3. \A j \in 1 .. 25 : j - 1 \in Indices /\ (j - 1) + 1 = j
  BY DEF Indices
<1>4. \A j \in 1 .. 25 : Listed(f)[j] \in V
  BY <1>1, <1>3
<1> QED BY ONLY <1>1, <1>2, <1>4

LEMMA Listed5Facts ==
  ASSUME NEW V, NEW f \in [0 .. 4 -> V]
  PROVE  \A x \in 0 .. 4 : Listed5(f)[x + 1] = f[x]
BY DEF Listed5

LEMMA LaneIndex ==
  ASSUME NEW i \in Indices
  PROVE  /\ X(i) \in 0 .. 4 /\ Y(i) \in 0 .. 4 /\ i = 5 * Y(i) + X(i)
         /\ \A n \in 0 .. 4 : (X(i) + n) % 5 \in 0 .. 4 /\ InRow(i, n) \in Indices
BY DEF X, Y, InRow, Indices

\* A lane that is rotated.
LEMMA RotateLemma ==
  ASSUME NEW v \in SUBSET Bits, NEW n \in Bits
  PROVE  ROL(v, n) = Rotate(v, n) /\ ROL(v, n) \in SUBSET Bits
<1>1. \A z \in v : z \in Nat /\ z <= 63
  BY DEF Bits
<1>2. n \in Nat /\ n <= 63
  BY DEF Bits
<1>3. \A z \in v : (z + n) % 64 = IF z + n <= 63 THEN z + n ELSE z - (64 - n)
  BY <1>1, <1>2
<1>4. Shl(v, n) = {z + n : z \in {j \in v : j + n <= 63}}
  BY DEF Shl
<1>5. Shr(v, 64 - n) = {z - (64 - n) : z \in {j \in v : j + n > 63}}
  <2>1. \A j \in v : j >= 64 - n <=> j + n > 63
    BY <1>1, <1>2
  <2> QED BY <2>1 DEF Shr
<1>6. \A e \in Shl(v, n) : e \in Nat /\ e >= n /\ e <= 63
  BY <1>1, <1>2, <1>4
<1>7. \A e \in Shr(v, 64 - n) : e \in Nat /\ e < n
  BY <1>1, <1>2, <1>5
<1>8. ROL(v, n) = Shl(v, n) \cup Shr(v, 64 - n)
  <2>1. \A e \in Shl(v, n) : e \notin Shr(v, 64 - n)
    BY <1>2, <1>6, <1>7
  <2> QED BY <2>1 DEF ROL, XOR
<1>9. Shl(v, n) \cup Shr(v, 64 - n) = {(z + n) % 64 : z \in v}
  BY <1>1, <1>2, <1>3, <1>4, <1>5
<1>10. ROL(v, n) \subseteq Bits
  BY <1>2, <1>6, <1>7, <1>8 DEF Bits
<1> QED BY <1>8, <1>9, <1>10 DEF Rotate

LEMMA XorBits ==
  ASSUME NEW v \in SUBSET Bits, NEW w \in SUBSET Bits
  PROVE  XOR(v, w) \in SUBSET Bits
BY DEF XOR

\* Three implementations of theta.
DOf(A) == [x \in 0 .. 4 |-> XOR(Parity(A, (x + 4) % 5), Rotate(Parity(A, (x + 1) % 5), 1))]
ThetaOf(A) == [i \in Indices |-> XOR(A[i + 1], DOf(A)[X(i)])]

LEMMA ParityBits ==
  ASSUME NEW A \in States, NEW x \in 0 .. 4
  PROVE  Parity(A, x) \in SUBSET Bits
<1>1. /\ A[x + 1] \in SUBSET Bits /\ A[x + 6] \in SUBSET Bits /\ A[x + 11] \in SUBSET Bits
      /\ A[x + 16] \in SUBSET Bits /\ A[x + 21] \in SUBSET Bits
  BY DEF States
<1> QED BY <1>1, XorBits DEF Parity, XOR5

LEMMA DBits ==
  ASSUME NEW A \in States
  PROVE  DOf(A) \in [0 .. 4 -> SUBSET Bits]
<1>1. ASSUME NEW x \in 0 .. 4
      PROVE  XOR(Parity(A, (x + 4) % 5), Rotate(Parity(A, (x + 1) % 5), 1)) \in SUBSET Bits
  <2>1. (x + 4) % 5 \in 0 .. 4 /\ (x + 1) % 5 \in 0 .. 4 /\ 1 \in Bits
    BY DEF Bits
  <2>2. Parity(A, (x + 4) % 5) \in SUBSET Bits /\ Parity(A, (x + 1) % 5) \in SUBSET Bits
    BY <2>1, ParityBits
  <2>3. Rotate(Parity(A, (x + 1) % 5), 1) \in SUBSET Bits
    BY <2>1, <2>2, RotateLemma
  <2> QED BY <2>2, <2>3, XorBits
<1> QED BY <1>1 DEF DOf

LEMMA ThetaBits ==
  ASSUME NEW A \in States
  PROVE  ThetaOf(A) \in [Indices -> SUBSET Bits]
<1>1. ASSUME NEW i \in Indices PROVE XOR(A[i + 1], DOf(A)[X(i)]) \in SUBSET Bits
  <2>1. A[i + 1] \in SUBSET Bits
    BY DEF States, Indices
  <2>2. DOf(A)[X(i)] \in SUBSET Bits
    BY DBits, LaneIndex
  <2> QED BY <2>1, <2>2, XorBits
<1> QED BY <1>1 DEF ThetaOf

LEMMA ThreadThetaLemma ==
  ASSUME NEW A \in States
  PROVE  ThreadTheta(A) = Listed(ThetaOf(A))
<1> DEFINE BCof(x) == Parity(A, x)
           bc == Columns(BCof)
           T(x) == XOR(bc[((x + 4) % 5) + 1], ROL(bc[((x + 1) % 5) + 1], 1))
           ts == Columns(T)
           Changed(i) == XOR(A[i + 1], ts[X(i) + 1])
           f == [i \in Indices |-> XOR(A[i + 1], ts[X(i) + 1])]
<1>1. ThreadTheta(A) = Lanes(Changed)
  BY DEF ThreadTheta, Lanes, Columns
<1>2. \A x \in 0 .. 4 : bc[x + 1] = Parity(A, x)
  BY DEF Columns
<1>3. \A x \in 0 .. 4 : ts[x + 1] = T(x)
  <2> HIDE DEF bc
  <2> QED BY DEF Columns
<1> HIDE DEF ts, bc
<1>4. Lanes(Changed) = Listed(f)
  BY DEF Lanes, Listed, Indices
<1>5. \A x \in 0 .. 4 : ts[x + 1] = DOf(A)[x]
  <2> TAKE x \in 0 .. 4
  <2>1. (x + 4) % 5 \in 0 .. 4 /\ (x + 1) % 5 \in 0 .. 4 /\ 1 \in Bits
    BY DEF Bits
  <2>2. Parity(A, (x + 1) % 5) \in SUBSET Bits
    BY <2>1, ParityBits
  <2>3. ROL(Parity(A, (x + 1) % 5), 1) = Rotate(Parity(A, (x + 1) % 5), 1)
    BY <2>1, <2>2, RotateLemma
  <2> QED BY <1>2, <1>3, <2>1, <2>3 DEF DOf
<1>6. f = ThetaOf(A)
  BY <1>5, LaneIndex DEF ThetaOf
<1> QED BY <1>1, <1>4, <1>6

LEMMA CpuThetaLemma ==
  ASSUME NEW A \in States
  PROVE  \A x \in 0 .. 4 : CpuD(A)[x + 1] = DOf(A)[x]
<1> DEFINE BCof(x) == Parity(A, x)
           BC == Columns(BCof)
           Dof(x) == XOR(BC[((x + 4) % 5) + 1], ROL(BC[((x + 1) % 5) + 1], 1))
<1>1. CpuD(A) = Columns(Dof)
  BY DEF CpuD, Columns
<1>2. \A x \in 0 .. 4 : BC[x + 1] = Parity(A, x)
  BY DEF Columns
<1> HIDE DEF BC
<1>3. \A x \in 0 .. 4 : CpuD(A)[x + 1] = Dof(x)
  BY <1>1 DEF Columns
<1> TAKE x \in 0 .. 4
<1>4. (x + 4) % 5 \in 0 .. 4 /\ (x + 1) % 5 \in 0 .. 4 /\ 1 \in Bits
  BY DEF Bits
<1>5. Parity(A, (x + 1) % 5) \in SUBSET Bits
  BY <1>4, ParityBits
<1>6. ROL(Parity(A, (x + 1) % 5), 1) = Rotate(Parity(A, (x + 1) % 5), 1)
  BY <1>4, <1>5, RotateLemma
<1> QED BY <1>2, <1>3, <1>4, <1>6 DEF DOf

LEMMA WarpThetaLemma ==
  ASSUME NEW A \in States
  PROVE  WarpTheta(A) = Listed(ThetaOf(A))
<1> DEFINE cOf(i) == XOR5(Shfl(A, X(i)), Shfl(A, X(i) + 5), Shfl(A, X(i) + 10),
                          Shfl(A, X(i) + 15), Shfl(A, X(i) + 20))
           c == Lanes(cOf)
           g == [i \in Indices |-> cOf(i)]
           Changed(i) == XOR(A[i + 1], XOR(Shfl(c, theta4(i)), ROL(Shfl(c, theta1(i)), 1)))
           f == [i \in Indices |-> Changed(i)]
<1>1. WarpTheta(A) = Lanes(Changed)
  BY DEF WarpTheta, Lanes
<1>2. c = Listed(g)
  BY DEF Lanes, Listed, Indices
<1>3. g \in [Indices -> {g[i] : i \in Indices}]
  OBVIOUS
<1>4. \A i \in Indices : c[i + 1] = cOf(i)
  <2> HIDE DEF c
  <2>1. \A i \in Indices : g[i] = cOf(i)
    OBVIOUS
  <2> HIDE DEF g, cOf
  <2> QED BY <1>2, <1>3, <2>1, ListedFacts
<1>5. \A x \in 0 .. 4 : c[x + 1] = Parity(A, x)
  <2> TAKE x \in 0 .. 4
  <2>1. x \in Indices /\ X(x) = x
    BY DEF Indices, X
  <2>2. x + 5 + 1 = x + 6 /\ x + 10 + 1 = x + 11 /\ x + 15 + 1 = x + 16 /\ x + 20 + 1 = x + 21
    OBVIOUS
  <2>3. cOf(x) = Parity(A, x)
    BY <2>1, <2>2 DEF Parity, Shfl
  <2> HIDE DEF c, cOf
  <2> QED BY <1>4, <2>1, <2>3
<1> HIDE DEF c
<1>6. Lanes(Changed) = Listed(f)
  BY DEF Lanes, Listed, Indices
<1>7. ASSUME NEW i \in Indices
      PROVE  Changed(i) = XOR(A[i + 1], DOf(A)[X(i)])
  <2> DEFINE x == X(i)
  <2>1. x \in 0 .. 4 /\ theta4(i) = (x + 4) % 5 /\ theta1(i) = (x + 1) % 5
    BY LaneIndex DEF theta1, theta4
  <2> HIDE DEF x
  <2>2. (x + 4) % 5 \in 0 .. 4 /\ (x + 1) % 5 \in 0 .. 4 /\ 1 \in Bits
    BY <2>1 DEF Bits
  <2>3. Parity(A, (x + 1) % 5) \in SUBSET Bits
    BY <2>2, ParityBits
  <2>4. ROL(Parity(A, (x + 1) % 5), 1) = Rotate(Parity(A, (x + 1) % 5), 1)
    BY <2>2, <2>3, RotateLemma
  <2>5. /\ Shfl(c, theta4(i)) = Parity(A, (x + 4) % 5)
        /\ Shfl(c, theta1(i)) = Parity(A, (x + 1) % 5)
    BY <1>5, <2>1, <2>2 DEF Shfl
  <2>6. DOf(A)[x] = XOR(Parity(A, (x + 4) % 5), Rotate(Parity(A, (x + 1) % 5), 1))
    BY <2>1 DEF DOf
  <2> QED BY <2>4, <2>5, <2>6 DEF x
<1>8. f = ThetaOf(A)
  <2> HIDE DEF Changed
  <2> QED BY <1>7 DEF ThetaOf
<1> QED BY <1>1, <1>6, <1>8

LEMMA ThetaLemma ==
  ASSUME NEW A \in States
  PROVE  Theta(A) = Listed(ThetaOf(A))
<1> DEFINE Cof(x) == XOR5(LaneAt(A, x, 0), LaneAt(A, x, 1), LaneAt(A, x, 2),
                          LaneAt(A, x, 3), LaneAt(A, x, 4))
           C == Columns(Cof)
           T(x) == XOR(C[((x + 4) % 5) + 1], Rotate(C[((x + 1) % 5) + 1], 1))
           D == Columns(T)
           Changed(i) == XOR(A[i + 1], D[X(i) + 1])
           f == [i \in Indices |-> XOR(A[i + 1], D[X(i) + 1])]
<1>1. Theta(A) = Lanes(Changed)
  BY DEF Theta, Lanes, Columns
<1>2. \A x \in 0 .. 4 : C[x + 1] = Cof(x)
  <2> HIDE DEF Cof
  <2> QED BY DEF Columns
<1>3. \A x \in 0 .. 4 : Cof(x) = Parity(A, x)
  <2> TAKE x \in 0 .. 4
  <2>1. /\ LaneAt(A, x, 0) = A[x + 1] /\ LaneAt(A, x, 1) = A[x + 6]
        /\ LaneAt(A, x, 2) = A[x + 11] /\ LaneAt(A, x, 3) = A[x + 16]
        /\ LaneAt(A, x, 4) = A[x + 21]
    BY DEF LaneAt
  <2> QED BY <2>1 DEF Parity
<1>4. \A x \in 0 .. 4 : D[x + 1] = T(x)
  <2> HIDE DEF C
  <2> QED BY DEF Columns
<1> HIDE DEF D, C, Cof
<1>5. Lanes(Changed) = Listed(f)
  BY DEF Lanes, Listed, Indices
<1>6. \A x \in 0 .. 4 : D[x + 1] = DOf(A)[x]
  BY <1>2, <1>3, <1>4 DEF DOf
<1>7. f = ThetaOf(A)
  BY <1>6, LaneIndex DEF ThetaOf
<1> QED BY <1>1, <1>5, <1>7

-----------------------------------------------------------------------------
(* Where the lanes go.                                                     *)
\* The lane that rho reaches after t steps, which is where the loop over
\* keccakf_piln is then.
Place(t) == IF t = 0 THEN 1 ELSE keccakf_piln[t]

LEMMA Numbers ==
  /\ \A t \in 1 .. 24 : \/ t = 1 \/ t = 2 \/ t = 3 \/ t = 4 \/ t = 5 \/ t = 6 \/ t = 7 \/ t = 8
                        \/ t = 9 \/ t = 10 \/ t = 11 \/ t = 12 \/ t = 13 \/ t = 14 \/ t = 15
                        \/ t = 16 \/ t = 17 \/ t = 18 \/ t = 19 \/ t = 20 \/ t = 21 \/ t = 22
                        \/ t = 23 \/ t = 24
  /\ \A i \in Indices : i = 0 \/ i \in 1 .. 24
BY DEF Indices

\* The tables of the thread belong together: each lane comes from the place
\* before, rotated by the triangular number of the step.
LEMMA ThreadTables ==
  \A t \in 1 .. 24 :
    /\ keccakf_piln[t] \in 1 .. 24 /\ Place(t - 1) \in 1 .. 24
    /\ rp(keccakf_piln[t]) = Place(t - 1)
    /\ keccakf_rotc[t] = ((t * (t + 1)) \div 2) % 64
BY Numbers DEF Place, rp, X, Y, keccakf_piln, keccakf_rotc

LEMMA PlaceOnce ==
  /\ \A u, t \in 1 .. 24 : keccakf_piln[u] = keccakf_piln[t] => u = t
  /\ \A j \in 1 .. 24 : \E t \in 1 .. 24 : keccakf_piln[t] = j
  /\ keccakf_piln[24] = 1
BY Numbers DEF keccakf_piln

LEMMA WalkTable ==
  \A t \in 1 .. 23 :
    /\ X(Place(t)) = Y(Place(t - 1))
    /\ Y(Place(t)) = (2 * X(Place(t - 1)) + 3 * Y(Place(t - 1))) % 5
BY Numbers DEF Place, X, Y, keccakf_piln

LEMMA WarpTable ==
  /\ \A t \in 1 .. 24 : offset_constants[Place(t - 1) + 1] = keccakf_rotc[t]
  /\ offset_constants[1] = 0
BY Numbers DEF Place, keccakf_piln, keccakf_rotc, offset_constants

LEMMA CpuTable ==
  \A i \in Indices : /\ CpuRows[Y(i) + 1][X(i) + 1][1] = rp(i)
                     /\ CpuRows[Y(i) + 1][X(i) + 1][2] = offset_constants[rp(i) + 1]
BY Numbers, SMTT(30) DEF CpuRows, offset_constants, rp, X, Y

-----------------------------------------------------------------------------
(* Recursions.                                                             *)
LEMMA WalkSteps ==
  Walk[0] = <<1, 0>> /\ \A t \in 1 .. 23 : Walk[t] = WalkStep(Walk[t - 1])
<1> DEFINE V == Int \X Int
           step == [q \in V \X (1 .. 23) |-> WalkStep(q[1])]
           Is(f) == f = [t \in 0 .. 23 |-> IF t = 0 THEN <<1, 0>> ELSE WalkStep(f[t - 1])]
<1>1. <<1, 0>> \in V /\ step \in [V \X (1 .. 23) -> V]
  <2>1. \A v \in V : WalkStep(v) \in V
    BY DEF WalkStep
  <2> HIDE DEF V
  <2>2. \A q \in V \X (1 .. 23) : q[1] \in V
    OBVIOUS
  <2> QED BY <2>1, <2>2 DEF V
<1> HIDE DEF step, V
<1>2. PICK f \in [0 .. 23 -> V] : Recursion(f, <<1, 0>>, step, 23)
  BY <1>1, RecursiveFunction
<1>3. ASSUME NEW t \in 1 .. 23
      PROVE  f[t] = WalkStep(f[t - 1])
  <2>1. f[t - 1] \in V /\ <<f[t - 1], t>> \in V \X (1 .. 23)
    OBVIOUS
  <2>2. step[<<f[t - 1], t>>] = WalkStep(f[t - 1])
    BY <2>1 DEF step
  <2>3. f[t] = step[<<f[t - 1], t>>]
    BY <1>2 DEF Recursion
  <2> QED BY <2>2, <2>3
<1>4. Is(f)
  <2>1. f[0] = <<1, 0>>
    BY <1>2 DEF Recursion
  <2>2. \A t \in 0 .. 23 : f[t] = IF t = 0 THEN <<1, 0>> ELSE WalkStep(f[t - 1])
    <3> TAKE t \in 0 .. 23
    <3>1. t = 0 \/ t \in 1 .. 23
      OBVIOUS
    <3> QED BY <1>3, <2>1, <3>1
  <2> QED BY <2>2
<1>5. Is(Walk)
  <2>1. Walk = CHOOSE g : Is(g)
    BY DEF Walk
  <2> HIDE DEF Is
  <2> QED BY <1>4, <2>1
<1> QED BY ONLY <1>5

LEMMA WalkLemma ==
  \A t \in 0 .. 23 : Walk[t] = <<X(Place(t)), Y(Place(t))>>
<1> DEFINE H == {t \in 0 .. 23 : Walk[t] = <<X(Place(t)), Y(Place(t))>>}
<1>1. 0 \in H
  <2>1. X(Place(0)) = 1 /\ Y(Place(0)) = 0
    BY DEF Place, X, Y
  <2> QED BY <2>1, WalkSteps
<1>2. \A t \in 0 .. 22 : t \in H => t + 1 \in H
  <2> SUFFICES ASSUME NEW t \in 0 .. 22, t \in H PROVE t + 1 \in H
    OBVIOUS
  <2>1. t + 1 \in 1 .. 23 /\ (t + 1) - 1 = t
    OBVIOUS
  <2>2. Walk[t + 1] = WalkStep(Walk[t])
    BY <2>1, WalkSteps
  <2>3. /\ X(Place(t + 1)) = Y(Place(t))
        /\ Y(Place(t + 1)) = (2 * X(Place(t)) + 3 * Y(Place(t))) % 5
    BY <2>1, WalkTable
  <2> QED BY <2>1, <2>2, <2>3 DEF WalkStep
<1> HIDE DEF H
<1>3. \A t \in 0 .. 23 : t \in H
  BY <1>1, <1>2, IntervalInduction
<1> QED BY <1>3 DEF H

LEMMA OffsetLemma ==
  \A t \in 1 .. 24 : RhoOffsets[Place(t - 1) + 1] = keccakf_rotc[t]
<1> TAKE t \in 1 .. 24
<1> DEFINE i == Place(t - 1)
           n == CHOOSE n \in 0 .. 23 : Walk[n] = <<X(i), Y(i)>>
<1>1. i \in 1 .. 24 /\ i \in Indices /\ i # 0
  BY ThreadTables DEF Indices
<1>2. n \in 0 .. 23 /\ Walk[n] = <<X(i), Y(i)>>
  <2>1. t - 1 \in 0 .. 23 /\ Walk[t - 1] = <<X(i), Y(i)>>
    BY WalkLemma
  <2> QED BY <2>1
<1> HIDE DEF n
<1>3. Place(n) = i
  <2>1. X(Place(n)) = X(i) /\ Y(Place(n)) = Y(i)
    BY <1>2, WalkLemma
  <2>2. n + 1 \in 1 .. 24 /\ (n + 1) - 1 = n
    BY <1>2
  <2>3. Place(n) \in Indices
    BY <2>2, ThreadTables DEF Indices
  <2> HIDE DEF i
  <2> QED BY <1>1, <2>1, <2>3, LaneIndex
<1>4. n = t - 1
  <2>1. CASE n = 0
    <3>1. \A k \in 1 .. 23 : keccakf_piln[k] # 1
      BY PlaceOnce
    <3>2. i = 1
      BY <2>1, <1>3 DEF Place
    <3> QED BY <2>1, <3>1, <3>2 DEF Place
  <2>2. CASE n # 0
    <3>1. n \in 1 .. 23
      BY <1>2, <2>2
    <3>2. i = keccakf_piln[n]
      BY <2>2, <1>3 DEF Place
    <3>3. CASE t = 1
      <4>1. keccakf_piln[n] = keccakf_piln[24]
        BY <3>2, <3>3, PlaceOnce DEF Place
      <4> QED BY <3>1, <4>1, PlaceOnce
    <3>4. CASE t # 1
      <4>1. t - 1 \in 1 .. 24 /\ n \in 1 .. 24 /\ keccakf_piln[t - 1] = keccakf_piln[n]
        BY <3>1, <3>2, <3>4 DEF Place
      <4> QED BY <4>1, PlaceOnce
    <3> QED BY <3>3, <3>4
  <2> QED BY <2>1, <2>2
<1>5. RhoOffsets[i + 1] = RhoOffset(i)
  <2> DEFINE f == [k \in Indices |-> RhoOffset(k)]
  <2>1. RhoOffsets = Listed(f)
    BY DEF RhoOffsets, Lanes, Listed, Indices
  <2>2. f \in [Indices -> {RhoOffset(k) : k \in Indices}]
    OBVIOUS
  <2>3. f[i] = RhoOffset(i)
    BY <1>1
  <2> HIDE DEF f, i
  <2> QED BY <1>1, <2>1, <2>2, <2>3, ListedFacts
<1>6. RhoOffset(i) = (((n + 1) * (n + 2)) \div 2) % 64
  BY <1>1 DEF RhoOffset, n
<1>7. RhoOffset(i) = ((t * (t + 1)) \div 2) % 64
  <2>1. n + 1 = t /\ n + 2 = t + 1
    BY <1>4
  <2> QED BY <1>6, <2>1
<1> QED BY <1>5, <1>7, ThreadTables

LEMMA OffsetsLemma ==
  ASSUME NEW i \in Indices
  PROVE  offset_constants[i + 1] = RhoOffsets[i + 1] /\ RhoOffsets[i + 1] \in Bits
<1>1. CASE i = 0
  <2>1. RhoOffsets[1] = 0
    BY DEF RhoOffsets, RhoOffset, Lanes
  <2> QED BY <1>1, <2>1, WarpTable DEF Bits
<1>2. CASE i # 0
  <2>1. i \in 1 .. 24
    BY <1>2, Numbers
  <2>2. PICK u \in 1 .. 24 : keccakf_piln[u] = i
    BY <2>1, PlaceOnce
  <2>3. PICK t \in 1 .. 24 : Place(t - 1) = i
    <3>1. CASE u = 24
      <4>1. Place(1 - 1) = i
        BY <2>2, <3>1, PlaceOnce DEF Place
      <4> QED BY <4>1
    <3>2. CASE u # 24
      <4>1. u + 1 \in 1 .. 24 /\ Place((u + 1) - 1) = i
        BY <2>2, <3>2 DEF Place
      <4> QED BY <4>1
    <3> QED BY <3>1, <3>2
  <2>4. keccakf_rotc[t] \in Bits
    BY ThreadTables DEF Bits
  <2> QED BY <2>3, <2>4, OffsetLemma, WarpTable
<1> QED BY <1>1, <1>2

-----------------------------------------------------------------------------
(* Rho and pi.                                                             *)
RhoPiOf(A) == [i \in Indices |-> Rotate(A[rp(i) + 1], RhoOffsets[rp(i) + 1])]

LEMMA RpIndex ==
  ASSUME NEW i \in Indices
  PROVE  rp(i) \in Indices /\ rp(0) = 0
<1>1. X(i) \in 0 .. 4 /\ Y(i) \in 0 .. 4 /\ X(0) = 0 /\ Y(0) = 0
  BY LaneIndex DEF X, Y
<1> QED BY <1>1 DEF rp, Indices

LEMMA ListedStates ==
  ASSUME NEW f \in [Indices -> SUBSET Bits]
  PROVE  Listed(f) \in States /\ \A i \in Indices : Listed(f)[i + 1] = f[i]
BY ListedFacts DEF States

LEMMA StateLane ==
  ASSUME NEW A \in States, NEW i \in Indices
  PROVE  A[i + 1] \in SUBSET Bits
BY DEF States, Indices

LEMMA RhoPiBits ==
  ASSUME NEW A \in States
  PROVE  RhoPiOf(A) \in [Indices -> SUBSET Bits]
<1>1. ASSUME NEW i \in Indices
      PROVE  Rotate(A[rp(i) + 1], RhoOffsets[rp(i) + 1]) \in SUBSET Bits
  <2>1. A[rp(i) + 1] \in SUBSET Bits /\ RhoOffsets[rp(i) + 1] \in Bits
    BY RpIndex, StateLane, OffsetsLemma
  <2> QED BY <2>1, RotateLemma
<1> QED BY <1>1 DEF RhoPiOf

LEMMA RhoPiLemma ==
  ASSUME NEW A \in States
  PROVE  Pi(Rho(A)) = Listed(RhoPiOf(A))
<1> DEFINE R == [i \in Indices |-> Rotate(A[i + 1], RhoOffsets[i + 1])]
           B == Rho(A)
           P == [i \in Indices |-> LaneAt(B, X(i) + 3 * Y(i), X(i))]
<1>1. B = Listed(R)
  BY DEF Rho, Lanes, Listed, Indices
<1>2. R \in [Indices -> SUBSET Bits]
  <2>1. ASSUME NEW i \in Indices PROVE Rotate(A[i + 1], RhoOffsets[i + 1]) \in SUBSET Bits
    <3>1. A[i + 1] \in SUBSET Bits /\ RhoOffsets[i + 1] \in Bits
      BY StateLane, OffsetsLemma
    <3> QED BY <3>1, RotateLemma
  <2> QED BY <2>1
<1>3. \A i \in Indices : B[i + 1] = Rotate(A[i + 1], RhoOffsets[i + 1])
  <2>1. \A i \in Indices : R[i] = Rotate(A[i + 1], RhoOffsets[i + 1])
    OBVIOUS
  <2> HIDE DEF R, B
  <2> QED BY <1>1, <1>2, <2>1, ListedStates
<1> HIDE DEF B
<1>4. Pi(B) = Listed(P)
  BY DEF Pi, Lanes, Listed, Indices
<1>5. \A i \in Indices : LaneAt(B, X(i) + 3 * Y(i), X(i)) = B[rp(i) + 1]
  <2> TAKE i \in Indices
  <2>1. X(i) \in 0 .. 4 /\ X(i) % 5 = X(i)
    BY LaneIndex
  <2> QED BY <2>1 DEF LaneAt, rp
<1>6. P = RhoPiOf(A)
  BY <1>3, <1>5, RpIndex DEF RhoPiOf
<1> QED BY <1>4, <1>6 DEF B

LEMMA WarpRhoPiLemma ==
  ASSUME NEW A \in States
  PROVE  WarpRhoPi(A) = Listed(RhoPiOf(A))
<1> DEFINE Rotated(i) == ROL(A[i + 1], offset_constants[i + 1])
           rotated == Lanes(Rotated)
           R == [i \in Indices |-> Rotated(i)]
           Fetched(i) == Shfl(rotated, rp(i))
           f == [i \in Indices |-> Fetched(i)]
<1>1. WarpRhoPi(A) = Lanes(Fetched)
  BY DEF WarpRhoPi, Lanes
<1>2. rotated = Listed(R)
  BY DEF Lanes, Listed, Indices
<1>3. \A i \in Indices : /\ Rotated(i) = Rotate(A[i + 1], RhoOffsets[i + 1])
                         /\ Rotated(i) \in SUBSET Bits
  <2> TAKE i \in Indices
  <2>1. /\ A[i + 1] \in SUBSET Bits /\ RhoOffsets[i + 1] \in Bits
        /\ offset_constants[i + 1] = RhoOffsets[i + 1]
    BY StateLane, OffsetsLemma
  <2> QED BY <2>1, RotateLemma
<1>4. \A i \in Indices : rotated[i + 1] = Rotated(i)
  <2>1. R \in [Indices -> SUBSET Bits] /\ \A i \in Indices : R[i] = Rotated(i)
    <3> HIDE DEF Rotated
    <3> QED BY <1>3
  <2> HIDE DEF R, rotated, Rotated
  <2> QED BY <1>2, <2>1, ListedStates
<1> HIDE DEF rotated
<1>5. Lanes(Fetched) = Listed(f)
  BY DEF Lanes, Listed, Indices
<1>6. f = RhoPiOf(A)
  <2>1. \A i \in Indices : Fetched(i) = Rotate(A[rp(i) + 1], RhoOffsets[rp(i) + 1])
    <3> HIDE DEF Rotated
    <3> QED BY <1>3, <1>4, RpIndex DEF Shfl
  <2> HIDE DEF Fetched
  <2> QED BY <2>1 DEF RhoPiOf
<1> QED BY <1>1, <1>5, <1>6

LEMMA CpuRhoPiLemma ==
  ASSUME NEW A \in States
  PROVE  CpuBC(A, CpuD(A)) = Listed(RhoPiOf(Listed(ThetaOf(A))))
<1> DEFINE D == CpuD(A)
           From(i) == CpuRows[Y(i) + 1][X(i) + 1]
           Taken(i) == ROL(XOR(A[From(i)[1] + 1], D[X(From(i)[1]) + 1]), From(i)[2])
           f == [i \in Indices |-> Taken(i)]
           B == Listed(ThetaOf(A))
<1>1. CpuBC(A, D) = Lanes(Taken)
  BY DEF CpuBC, Lanes
<1>2. Lanes(Taken) = Listed(f)
  <2> HIDE DEF D
  <2> QED BY SMTT(30) DEF Lanes, Listed, Indices
<1>3. B \in States /\ \A i \in Indices : B[i + 1] = XOR(A[i + 1], DOf(A)[X(i)])
  <2>1. ThetaOf(A) \in [Indices -> SUBSET Bits]
    BY ThetaBits
  <2>2. \A i \in Indices : ThetaOf(A)[i] = XOR(A[i + 1], DOf(A)[X(i)])
    BY DEF ThetaOf
  <2> QED BY <2>1, <2>2, ListedStates
<1>4. ASSUME NEW i \in Indices
      PROVE  Taken(i) = Rotate(B[rp(i) + 1], RhoOffsets[rp(i) + 1])
  <2> DEFINE j == rp(i)
  <2>1. j \in Indices /\ X(j) \in 0 .. 4
    BY RpIndex, LaneIndex
  <2>2. From(i)[1] = j /\ From(i)[2] = RhoOffsets[j + 1]
    BY <2>1, CpuTable, OffsetsLemma
  <2>3. D[X(j) + 1] = DOf(A)[X(j)]
    BY <2>1, CpuThetaLemma
  <2>4. B[j + 1] \in SUBSET Bits /\ RhoOffsets[j + 1] \in Bits
    BY <1>3, <2>1, StateLane, OffsetsLemma
  <2>5. B[j + 1] = XOR(A[j + 1], D[X(j) + 1])
    BY <1>3, <2>1, <2>3
  <2> HIDE DEF B, D, j, From
  <2>6. Taken(i) = ROL(B[j + 1], RhoOffsets[j + 1])
    BY <2>2, <2>5
  <2>7. ROL(B[j + 1], RhoOffsets[j + 1]) = Rotate(B[j + 1], RhoOffsets[j + 1])
    BY <2>4, RotateLemma
  <2> QED BY <2>6, <2>7 DEF j
<1>5. f = RhoPiOf(B)
  <2> HIDE DEF Taken, B
  <2> QED BY <1>4 DEF RhoPiOf
<1> QED BY <1>1, <1>2, <1>5

-----------------------------------------------------------------------------
\* The loop of the thread.
RhoPiStates == [st : States, t : SUBSET Bits]
RhoPiLoop(A, f) ==
  f = [i \in 0 .. 24 |-> IF i = 0 THEN [st |-> A, t |-> A[2]] ELSE RhoPiStep(f[i - 1], i)]

LEMMA RhoPiStepType ==
  ASSUME NEW q \in RhoPiStates, NEW i \in 1 .. 24
  PROVE  RhoPiStep(q, i) \in RhoPiStates
<1> DEFINE j == keccakf_piln[i] + 1
<1>1. j \in 1 .. 25 /\ keccakf_rotc[i] \in Bits
  <2>1. keccakf_piln[i] \in 1 .. 24 /\ keccakf_rotc[i] = ((i * (i + 1)) \div 2) % 64
    BY ThreadTables
  <2> QED BY <2>1 DEF Bits
<1>2. q.st \in States /\ q.t \in SUBSET Bits
  BY DEF RhoPiStates
<1>3. ROL(q.t, keccakf_rotc[i]) \in SUBSET Bits
  BY <1>1, <1>2, RotateLemma
<1>4. [q.st EXCEPT ![j] = ROL(q.t, keccakf_rotc[i])] \in States /\ q.st[j] \in SUBSET Bits
  BY <1>1, <1>2, <1>3 DEF States
<1> QED BY <1>4 DEF RhoPiStep, RhoPiStates

LEMMA RhoPiLoops ==
  ASSUME NEW A \in States
  PROVE  \E f \in [0 .. 24 -> RhoPiStates] : RhoPiLoop(A, f)
<1> DEFINE V == RhoPiStates
           first == [st |-> A, t |-> A[2]]
           step == [q \in V \X (1 .. 24) |-> RhoPiStep(q[1], q[2])]
<1>1. first \in V
  BY DEF States, RhoPiStates
<1>2. step \in [V \X (1 .. 24) -> V]
  <2> HIDE DEF V
  <2>1. \A q \in V \X (1 .. 24) : q[1] \in V /\ q[2] \in 1 .. 24
    OBVIOUS
  <2> QED BY <2>1, RhoPiStepType DEF V
<1> HIDE DEF step, V, first
<1>3. PICK f \in [0 .. 24 -> V] : Recursion(f, first, step, 24)
  BY <1>1, <1>2, RecursiveFunction
<1>4. ASSUME NEW i \in 1 .. 24
      PROVE  f[i] = RhoPiStep(f[i - 1], i)
  <2>1. <<f[i - 1], i>> \in V \X (1 .. 24)
    OBVIOUS
  <2>2. step[<<f[i - 1], i>>] = RhoPiStep(f[i - 1], i)
    BY <2>1 DEF step
  <2>3. f[i] = step[<<f[i - 1], i>>]
    BY <1>3 DEF Recursion
  <2> QED BY <2>2, <2>3
<1>5. \A i \in 0 .. 24 : f[i] = IF i = 0 THEN first ELSE RhoPiStep(f[i - 1], i)
  <2> TAKE i \in 0 .. 24
  <2>1. i = 0 \/ i \in 1 .. 24
    OBVIOUS
  <2>2. f[0] = first
    BY <1>3 DEF Recursion
  <2> QED BY <1>4, <2>1, <2>2
<1>6. RhoPiLoop(A, f)
  <2>1. f = [i \in 0 .. 24 |-> f[i]]
    OBVIOUS
  <2> QED BY <1>5, <2>1 DEF RhoPiLoop, first
<1> QED BY <1>6 DEF V

\* After i steps, the lanes at the first i places are new and the others old.
AfterSteps(A, q, i) ==
  /\ q.st \in States /\ q.t = A[Place(i) + 1]
  /\ \A u \in 1 .. i : q.st[keccakf_piln[u] + 1] = ROL(A[Place(u - 1) + 1], keccakf_rotc[u])
  /\ \A j \in Indices : (\A u \in 1 .. i : keccakf_piln[u] # j) => q.st[j + 1] = A[j + 1]

LEMMA RhoPiProgress ==
  ASSUME NEW A \in States, NEW f, RhoPiLoop(A, f)
  PROVE  \A i \in 0 .. 24 : AfterSteps(A, f[i], i)
<1> DEFINE Good(i) ==
             /\ f[i].st \in States /\ f[i].t = A[Place(i) + 1]
             /\ \A u \in 1 .. i :
                  f[i].st[keccakf_piln[u] + 1] = ROL(A[Place(u - 1) + 1], keccakf_rotc[u])
             /\ \A j \in Indices :
                  (\A u \in 1 .. i : keccakf_piln[u] # j) => f[i].st[j + 1] = A[j + 1]
           H == {i \in 0 .. 24 : Good(i)}
<1>1. f[0] = [st |-> A, t |-> A[2]] /\ \A i \in 1 .. 24 : f[i] = RhoPiStep(f[i - 1], i)
  BY DEF RhoPiLoop
<1>2. 0 \in H
  <2>1. Place(0) + 1 = 2
    BY DEF Place
  <2> QED BY <1>1, <2>1
<1>3. ASSUME NEW i \in 0 .. 23, Good(i)
      PROVE  Good(i + 1)
  <2> DEFINE p == keccakf_piln[i + 1]
             q == f[i]
             new == ROL(A[Place(i) + 1], keccakf_rotc[i + 1])
  <2>1. i + 1 \in 1 .. 24 /\ (i + 1) - 1 = i
    OBVIOUS
  <2>2. p \in 1 .. 24 /\ p \in Indices /\ Place(i + 1) = p
    BY <2>1, ThreadTables DEF Place, Indices
  <2>3. f[i + 1] = [st |-> [q.st EXCEPT ![p + 1] = new], t |-> q.st[p + 1]]
    BY <1>1, <1>3, <2>1 DEF RhoPiStep
  <2>4. \A u \in 1 .. i : keccakf_piln[u] # p
    <3> TAKE u \in 1 .. i
    <3>1. u \in 1 .. 24 /\ u # i + 1
      OBVIOUS
    <3> QED BY <2>1, <3>1, PlaceOnce
  <2>5. q.st[p + 1] = A[p + 1]
    BY <1>3, <2>2, <2>4
  <2>6. new \in SUBSET Bits
    <3>1. Place(i) \in Indices
      BY <2>1, ThreadTables DEF Indices
    <3>2. keccakf_rotc[i + 1] \in Bits
      BY <2>1, ThreadTables DEF Bits
    <3> QED BY <3>1, <3>2, StateLane, RotateLemma
  <2> HIDE DEF new, p
  <2>7. f[i + 1].st = [q.st EXCEPT ![p + 1] = new] /\ f[i + 1].t = A[p + 1]
    BY <2>3, <2>5
  <2>8. /\ f[i + 1].st \in States /\ f[i + 1].st[p + 1] = new
        /\ \A j \in Indices : j # p => f[i + 1].st[j + 1] = q.st[j + 1]
    BY <1>3, <2>2, <2>6, <2>7 DEF States, Indices
  <2>9. ASSUME NEW u \in 1 .. i + 1
        PROVE  f[i + 1].st[keccakf_piln[u] + 1] = ROL(A[Place(u - 1) + 1], keccakf_rotc[u])
    <3>1. CASE u = i + 1
      BY <2>1, <2>8, <3>1 DEF new, p
    <3>2. CASE u # i + 1
      <4>1. u \in 1 .. i /\ u \in 1 .. 24
        BY <3>2
      <4>2. keccakf_piln[u] \in Indices /\ keccakf_piln[u] # p
        BY <2>4, <4>1, ThreadTables DEF Indices
      <4> QED BY <1>3, <2>8, <4>1, <4>2
    <3> QED BY <3>1, <3>2
  <2>10. ASSUME NEW j \in Indices, \A u \in 1 .. i + 1 : keccakf_piln[u] # j
         PROVE  f[i + 1].st[j + 1] = A[j + 1]
    <3>1. j # p /\ \A u \in 1 .. i : keccakf_piln[u] # j
      BY <2>10 DEF p
    <3> QED BY <1>3, <2>8, <3>1
  <2> QED BY <2>2, <2>7, <2>8, <2>9, <2>10
<1>4. \A i \in 0 .. 24 : i \in H
  <2>1. \A i \in 0 .. 23 : i \in H => i + 1 \in H
    <3> HIDE DEF Good
    <3> QED BY <1>3
  <2> HIDE DEF H
  <2> QED BY <1>2, <2>1, IntervalInduction
<1> QED BY <1>4 DEF AfterSteps

LEMMA ThreadRhoPiLemma ==
  ASSUME NEW A \in States
  PROVE  ThreadRhoPi(A) = Listed(RhoPiOf(A))
<1> DEFINE f == CHOOSE f : RhoPiLoop(A, f)
           B == f[24].st
           C == Listed(RhoPiOf(A))
<1>1. RhoPiLoop(A, f)
  BY RhoPiLoops
<1>2. ThreadRhoPi(A) = B
  BY DEF ThreadRhoPi, RhoPiLoop
<1> HIDE DEF f
<1>3. /\ B \in States
      /\ \A u \in 1 .. 24 : B[keccakf_piln[u] + 1] = ROL(A[Place(u - 1) + 1], keccakf_rotc[u])
      /\ \A j \in Indices : (\A u \in 1 .. 24 : keccakf_piln[u] # j) => B[j + 1] = A[j + 1]
  <2>1. 24 \in 0 .. 24
    OBVIOUS
  <2>2. AfterSteps(A, f[24], 24)
    BY ONLY A \in States, <1>1, <2>1, RhoPiProgress
  <2> QED BY ONLY <2>2 DEF B, AfterSteps
<1>4. C \in States /\ \A j \in Indices : C[j + 1] = Rotate(A[rp(j) + 1], RhoOffsets[rp(j) + 1])
  <2>1. \A j \in Indices : RhoPiOf(A)[j] = Rotate(A[rp(j) + 1], RhoOffsets[rp(j) + 1])
    BY DEF RhoPiOf
  <2> QED BY <2>1, RhoPiBits, ListedStates
<1> HIDE DEF B, C
<1>5. ASSUME NEW j \in Indices PROVE B[j + 1] = C[j + 1]
  <2>1. CASE j = 0
    <3>1. \A u \in 1 .. 24 : keccakf_piln[u] # j
      BY <2>1, ThreadTables
    <3>2. rp(j) = 0 /\ 0 \in Indices /\ RhoOffsets[0 + 1] = 0 /\ A[0 + 1] \in SUBSET Bits
      <4>1. 0 \in Indices /\ 0 + 1 = 1
        BY DEF Indices
      <4> QED BY <2>1, <4>1, RpIndex, OffsetsLemma, WarpTable, StateLane
    <3>3. Rotate(A[0 + 1], 0) = A[0 + 1]
      <4>1. \A z \in A[0 + 1] : (z + 0) % 64 = z
        BY <3>2 DEF Bits
      <4> QED BY <4>1 DEF Rotate
    <3> QED BY <1>3, <1>4, <2>1, <3>1, <3>2, <3>3
  <2>2. CASE j # 0
    <3>1. j \in 1 .. 24
      BY <2>2, Numbers
    <3>2. PICK u \in 1 .. 24 : keccakf_piln[u] = j
      BY <3>1, PlaceOnce
    <3>3. /\ rp(j) = Place(u - 1) /\ keccakf_rotc[u] = RhoOffsets[rp(j) + 1]
      BY <3>2, ThreadTables, OffsetLemma
    <3>4. A[rp(j) + 1] \in SUBSET Bits /\ RhoOffsets[rp(j) + 1] \in Bits
      BY RpIndex, StateLane, OffsetsLemma
    <3>5. B[j + 1] = ROL(A[rp(j) + 1], RhoOffsets[rp(j) + 1])
      BY <1>3, <3>2, <3>3
    <3>6. C[j + 1] = Rotate(A[rp(j) + 1], RhoOffsets[rp(j) + 1])
      BY <1>4
    <3>7. ROL(A[rp(j) + 1], RhoOffsets[rp(j) + 1]) = Rotate(A[rp(j) + 1], RhoOffsets[rp(j) + 1])
      BY <3>4, RotateLemma
    <3> QED BY <3>5, <3>6, <3>7
  <2> QED BY <2>1, <2>2
<1>6. \A k \in 1 .. 25 : B[k] = C[k]
  <2> TAKE k \in 1 .. 25
  <2>1. k - 1 \in Indices /\ (k - 1) + 1 = k
    BY DEF Indices
  <2> QED BY <1>5, <2>1
<1> QED BY <1>2, <1>3, <1>4, <1>6, SMTT(30) DEF States, C

-----------------------------------------------------------------------------
(* Chi.                                                                    *)
ChiList(A) == [i \in Indices |-> ChiOf(A[i + 1], A[InRow(i, 1) + 1], A[InRow(i, 2) + 1])]

LEMMA ChiBits ==
  ASSUME NEW A \in States
  PROVE  ChiList(A) \in [Indices -> SUBSET Bits]
<1>1. ASSUME NEW i \in Indices
      PROVE  ChiOf(A[i + 1], A[InRow(i, 1) + 1], A[InRow(i, 2) + 1]) \in SUBSET Bits
  <2>1. A[i + 1] \in SUBSET Bits
    BY StateLane
  <2> QED BY <2>1 DEF ChiOf, XOR
<1> QED BY <1>1 DEF ChiList

LEMMA ThreadChiLemma ==
  ASSUME NEW A \in States
  PROVE  ThreadChi(A) = Listed(ChiList(A))
BY DEF ThreadChi, Lanes, Listed, ChiList, Indices

LEMMA CpuChiLemma ==
  ASSUME NEW A \in States
  PROVE  CpuChi(A) = Listed(ChiList(A))
BY DEF CpuChi, Lanes, Listed, ChiList, Indices

LEMMA WarpChiLemma ==
  ASSUME NEW A \in States
  PROVE  WarpChi(A) = Listed(ChiList(A))
<1> DEFINE f == [i \in Indices |-> ChiOf(A[i + 1], Shfl(A, chi1(i)), Shfl(A, chi2(i)))]
<1>1. WarpChi(A) = Listed(f)
  BY DEF WarpChi, Lanes, Listed, Indices
<1>2. ASSUME NEW i \in Indices
      PROVE  Shfl(A, chi1(i)) = A[InRow(i, 1) + 1] /\ Shfl(A, chi2(i)) = A[InRow(i, 2) + 1]
  <2>1. i = 5 * Y(i) + X(i) /\ X(i) \in 0 .. 4 /\ Y(i) \in 0 .. 4
    BY LaneIndex
  <2>2. chi1(i) = InRow(i, 1) /\ chi2(i) = InRow(i, 2)
    BY <2>1 DEF chi1, chi2, theta1, InRow
  <2> QED BY <2>2 DEF Shfl
<1>3. f = ChiList(A)
  BY <1>2 DEF ChiList
<1> QED BY <1>1, <1>3

LEMMA ChiLemma ==
  ASSUME NEW A \in States
  PROVE  Chi(A) = Listed(ChiList(A))
<1> DEFINE New(i) == XOR(A[i + 1], {z \in Bits : /\ z \notin LaneAt(A, X(i) + 1, Y(i))
                                                 /\ z \in LaneAt(A, X(i) + 2, Y(i))})
           f == [i \in Indices |-> New(i)]
<1>1. Chi(A) = Listed(f)
  BY DEF Chi, Lanes, Listed, Indices
<1>2. ASSUME NEW i \in Indices
      PROVE  New(i) = ChiOf(A[i + 1], A[InRow(i, 1) + 1], A[InRow(i, 2) + 1])
  <2>1. Y(i) \in 0 .. 4 /\ Y(i) % 5 = Y(i) /\ X(i) \in 0 .. 4
    BY LaneIndex
  <2>2. /\ LaneAt(A, X(i) + 1, Y(i)) = A[InRow(i, 1) + 1]
        /\ LaneAt(A, X(i) + 2, Y(i)) = A[InRow(i, 2) + 1]
    BY <2>1 DEF LaneAt, InRow
  <2>3. {z \in Bits : z \notin A[InRow(i, 1) + 1] /\ z \in A[InRow(i, 2) + 1]}
          = (Bits \ A[InRow(i, 1) + 1]) \cap A[InRow(i, 2) + 1]
    OBVIOUS
  <2> QED BY <2>2, <2>3 DEF ChiOf
<1>3. f = ChiList(A)
  <2> HIDE DEF New
  <2> QED BY <1>2 DEF ChiList
<1> QED BY <1>1, <1>3

-----------------------------------------------------------------------------
(* Iota.                                                                   *)
LEMMA RegisterSteps ==
  /\ Register[0] = {0}
  /\ \A t \in 1 .. 254 : Register[t] = RegisterStep(Register[t - 1])
  /\ \A t \in 0 .. 254 : Register[t] \subseteq 0 .. 7
<1> DEFINE V == SUBSET (0 .. 7)
           step == [q \in V \X (1 .. 254) |-> RegisterStep(q[1])]
           Is(f) == f = [t \in 0 .. 254 |-> IF t = 0 THEN {0} ELSE RegisterStep(f[t - 1])]
<1>1. {0} \in V /\ step \in [V \X (1 .. 254) -> V]
  <2>1. ASSUME NEW v \in V PROVE RegisterStep(v) \in V
    <3> DEFINE moved == {i + 1 : i \in v}
    <3>1. moved \subseteq 1 .. 8
      OBVIOUS
    <3>2. 8 \notin moved => moved \in V
      BY <3>1
    <3>3. XOR(moved \ {8}, {0, 4, 5, 6}) \in V
      <4>1. moved \ {8} \subseteq 0 .. 7
        BY <3>1
      <4> HIDE DEF moved
      <4> QED BY <4>1 DEF XOR
    <3> QED BY <3>2, <3>3 DEF RegisterStep
  <2> HIDE DEF V
  <2>2. \A q \in V \X (1 .. 254) : q[1] \in V
    OBVIOUS
  <2> QED BY <2>1, <2>2 DEF V
<1> HIDE DEF step, V
<1>2. PICK f \in [0 .. 254 -> V] : Recursion(f, {0}, step, 254)
  BY <1>1, RecursiveFunction, ZenonT(60)
<1>3. ASSUME NEW t \in 1 .. 254
      PROVE  f[t] = RegisterStep(f[t - 1])
  <2>1. <<f[t - 1], t>> \in V \X (1 .. 254)
    <3>1. t - 1 \in 0 .. 254
      OBVIOUS
    <3>2. f[t - 1] \in V
      BY ONLY <1>2, <3>1
    <3> QED BY ONLY <3>2, t \in 1 .. 254
  <2>2. step[<<f[t - 1], t>>] = RegisterStep(f[t - 1])
    BY <2>1 DEF step
  <2>3. f[t] = step[<<f[t - 1], t>>]
    BY <1>2 DEF Recursion
  <2> QED BY <2>2, <2>3
<1>4. Is(f)
  <2>1. f[0] = {0}
    BY <1>2 DEF Recursion
  <2>2. \A t \in 0 .. 254 : f[t] = IF t = 0 THEN {0} ELSE RegisterStep(f[t - 1])
    <3> TAKE t \in 0 .. 254
    <3>1. t = 0 \/ t \in 1 .. 254
      OBVIOUS
    <3> QED BY <1>3, <2>1, <3>1
  <2> QED BY <2>2
<1>5. Is(Register)
  <2>1. Register = CHOOSE g : Is(g)
    BY DEF Register
  <2> HIDE DEF Is
  <2> QED BY <1>4, <2>1
<1>6. Register[0] = {0} /\ \A t \in 1 .. 254 : Register[t] = RegisterStep(Register[t - 1])
  BY ONLY <1>5, SMTT(30)
<1>7. \A t \in 0 .. 254 : Register[t] \in V
  <2> DEFINE H == {t \in 0 .. 254 : Register[t] \in V}
  <2>1. 0 \in H
    <3>1. {0} \in V
      BY <1>1
    <3>2. Register[0] \in V
      BY ONLY <1>6, <3>1
    <3> QED BY <3>2
  <2>2. \A v \in V : RegisterStep(v) \in V
    <3> TAKE v \in V
    <3>1. <<v, 1>> \in V \X (1 .. 254)
      OBVIOUS
    <3> QED BY <1>1, <3>1 DEF step
  <2>3. \A t \in 0 .. 253 : t \in H => t + 1 \in H
    BY <1>6, <2>2
  <2> HIDE DEF H
  <2>4. \A t \in 0 .. 254 : t \in H
    BY <2>1, <2>3, IntervalInduction
  <2> QED BY <2>4 DEF H
<1> QED BY <1>6, <1>7 DEF V

\* One step of the generator, bit by bit.
LEMMA RegisterBits ==
  ASSUME NEW t \in 0 .. 253
  PROVE  /\ 0 \in Register[t + 1] <=> 7 \in Register[t]
         /\ \A j \in {1, 2, 3, 7} : j \in Register[t + 1] <=> j - 1 \in Register[t]
         /\ \A j \in {4, 5, 6} : j \in Register[t + 1] <=> ~(j - 1 \in Register[t] <=> 7 \in Register[t])
<1> DEFINE R == Register[t]
           moved == {i + 1 : i \in R}
<1>1. t + 1 \in 1 .. 254 /\ (t + 1) - 1 = t
  OBVIOUS
<1>2. Register[t + 1] = RegisterStep(R) /\ R \subseteq 0 .. 7
  <2>1. Register[t + 1] = RegisterStep(Register[(t + 1) - 1])
    BY ONLY <1>1, RegisterSteps
  <2>2. t \in 0 .. 254
    OBVIOUS
  <2>3. Register[t] \subseteq 0 .. 7
    BY ONLY <2>2, RegisterSteps
  <2> QED BY ONLY <1>1, <2>1, <2>3
<1> HIDE DEF R
<1>3. \A j \in 0 .. 8 : j \in moved <=> j - 1 \in R
  BY <1>2
<1>4. 8 \in moved <=> 7 \in R
  BY <1>3
<1>5. 0 \notin moved
  BY <1>2
<1>6. RegisterStep(R) = IF 8 \in moved THEN XOR(moved \ {8}, {0, 4, 5, 6}) ELSE moved
  BY DEF RegisterStep
<1> HIDE DEF moved
<1>7. \A j \in 0 .. 7 : j \in RegisterStep(R) <=>
        IF 7 \in R THEN ~(j \in moved <=> j \in {0, 4, 5, 6}) ELSE j \in moved
  BY <1>4, <1>6 DEF XOR
<1> QED BY <1>2, <1>3, <1>5, <1>7 DEF R

\* The bits that the generator gives follow each other by themselves.
Odd(a, b, c, d) == ~(~(a <=> b) <=> ~(c <=> d))

LEMMA Recurrence ==
  ASSUME NEW t \in 8 .. 253
  PROVE  0 \in Register[t] <=> Odd(0 \in Register[t - 8], 0 \in Register[t - 4],
                                   0 \in Register[t - 3], 0 \in Register[t - 2])
<1> DEFINE a == t - 8
           R(n) == Register[a + n]
<1>1. a \in 0 .. 245 /\ a + 8 = t /\ a + 4 = t - 4 /\ a + 5 = t - 3 /\ a + 6 = t - 2 /\ a + 0 = a
  OBVIOUS
<1> HIDE DEF a
<1>2. ASSUME NEW n \in 0 .. 7
      PROVE  /\ 0 \in R(n + 1) <=> 7 \in R(n)
             /\ \A j \in {1, 2, 3, 7} : j \in R(n + 1) <=> j - 1 \in R(n)
             /\ \A j \in {4, 5, 6} : j \in R(n + 1) <=> ~(j - 1 \in R(n) <=> 7 \in R(n))
  <2>1. a + n \in 0 .. 253 /\ (a + n) + 1 = a + (n + 1)
    BY <1>1
  <2> QED BY <2>1, RegisterBits
<1> DEFINE b(j, n) == j \in R(n)
<1>3. \A n \in 0 .. 7 : /\ b(0, n + 1) <=> b(7, n)
                        /\ b(1, n + 1) <=> b(0, n)
                        /\ b(2, n + 1) <=> b(1, n)
                        /\ b(3, n + 1) <=> b(2, n)
                        /\ b(4, n + 1) <=> ~(b(3, n) <=> b(7, n))
                        /\ b(5, n + 1) <=> ~(b(4, n) <=> b(7, n))
                        /\ b(6, n + 1) <=> ~(b(5, n) <=> b(7, n))
                        /\ b(7, n + 1) <=> b(6, n)
  BY <1>2
<1>4. \A n \in 1 .. 8 : b(7, n - 1) <=> b(0, n)
  <2> TAKE n \in 1 .. 8
  <2>1. n - 1 \in 0 .. 7 /\ (n - 1) + 1 = n
    OBVIOUS
  <2> HIDE DEF b
  <2> QED BY <1>3, <2>1
<1> HIDE DEF b
<1>5. \A n \in 0 .. 6 : b(6, n) <=> b(0, n + 2)
  BY <1>3, <1>4
<1>6. \A n \in 0 .. 5 : b(5, n) <=> ~(b(0, n + 3) <=> b(0, n + 1))
  BY <1>3, <1>4, <1>5
<1>7. \A n \in 0 .. 4 : b(4, n) <=> ~(~(b(0, n + 4) <=> b(0, n + 2)) <=> b(0, n + 1))
  BY <1>3, <1>4, <1>6
<1>8. \A n \in 0 .. 3 : b(3, n) <=> Odd(b(0, n + 5), b(0, n + 3), b(0, n + 2), b(0, n + 1))
  BY <1>3, <1>4, <1>7 DEF Odd
<1>9. b(0, 0) <=> b(3, 3)
  BY <1>3
<1>10. b(0, 0) <=> Odd(b(0, 8), b(0, 6), b(0, 5), b(0, 4))
  BY <1>8, <1>9
<1> QED BY <1>1, <1>10 DEF b, Odd

\* Of the seven bits of each round, those that are 1.
RoundBits ==
  <<{0}, {1, 3, 4}, {1, 2, 3, 4, 6}, {4, 5, 6}, {0, 1, 2, 3, 4}, {0, 5},
    {0, 3, 4, 5, 6}, {0, 2, 4, 6}, {1, 2, 3}, {2, 3}, {0, 2, 4, 5},
    {1, 2, 5}, {0, 1, 2, 3, 4, 5}, {0, 1, 2, 3, 6}, {0, 2, 3, 4, 6},
    {0, 1, 4, 6}, {1, 4, 6}, {3, 6}, {1, 2, 4}, {1, 2, 5, 6},
    {0, 3, 4, 5, 6}, {3, 4, 6}, {0, 5}, {2, 4, 5, 6}>>

LEMMA RoundBitsTable ==
  /\ \A r \in 2 .. 23, j \in 0 .. 6 :
       j \in RoundBits[r + 1] <=>
         Odd(IF j = 0 THEN 6 \in RoundBits[r - 1] ELSE j - 1 \in RoundBits[r],
             IF j <= 3 THEN j + 3 \in RoundBits[r] ELSE j - 4 \in RoundBits[r + 1],
             IF j <= 2 THEN j + 4 \in RoundBits[r] ELSE j - 3 \in RoundBits[r + 1],
             IF j <= 1 THEN j + 5 \in RoundBits[r] ELSE j - 2 \in RoundBits[r + 1])
  /\ \A r \in 0 .. 23 : RoundConstants[r + 1] = {IotaBits[j + 1] : j \in RoundBits[r + 1]}
<1>1. \A r \in 0 .. 23 : r = 0 \/ r \in 1 .. 24
  OBVIOUS
<1>2. \A j \in 0 .. 6 : j = 0 \/ j = 1 \/ j = 2 \/ j = 3 \/ j = 4 \/ j = 5 \/ j = 6
  OBVIOUS
<1>3. ASSUME NEW r \in 2 .. 23, NEW j \in 0 .. 6
      PROVE  j \in RoundBits[r + 1] <=>
               Odd(IF j = 0 THEN 6 \in RoundBits[r - 1] ELSE j - 1 \in RoundBits[r],
                   IF j <= 3 THEN j + 3 \in RoundBits[r] ELSE j - 4 \in RoundBits[r + 1],
                   IF j <= 2 THEN j + 4 \in RoundBits[r] ELSE j - 3 \in RoundBits[r + 1],
                   IF j <= 1 THEN j + 5 \in RoundBits[r] ELSE j - 2 \in RoundBits[r + 1])
  BY <1>2, Numbers DEF RoundBits, Odd
<1>4. ASSUME NEW r \in 0 .. 23
      PROVE  RoundConstants[r + 1] = {IotaBits[j + 1] : j \in RoundBits[r + 1]}
  BY <1>1, Numbers DEF RoundBits, RoundConstants, IotaBits
<1> QED BY <1>3, <1>4

LEMMA RoundBitsLemma ==
  \A r \in 0 .. 23, j \in 0 .. 6 : 0 \in Register[7 * r + j] <=> j \in RoundBits[r + 1]
<1> DEFINE bit(t) == 0 \in Register[t]
           Good(r) == \A j \in 0 .. 6 : bit(7 * r + j) <=> j \in RoundBits[r + 1]
           H == {r \in 1 .. 23 : Good(r - 1) /\ Good(r)}
<1>1. \A t \in 8 .. 253 : bit(t) <=> Odd(bit(t - 8), bit(t - 4), bit(t - 3), bit(t - 2))
  BY Recurrence
<1>2. bit(0) /\ \A t \in 1 .. 7 : ~bit(t)
  <2> DEFINE K == {t \in 0 .. 7 : Register[t] = {t}}
  <2>1. 0 \in K
    BY RegisterSteps, SMTT(30)
  <2>2. \A t \in 0 .. 6 : t \in K => t + 1 \in K
    <3> SUFFICES ASSUME NEW t \in 0 .. 6, Register[t] = {t} PROVE Register[t + 1] = {t + 1}
      OBVIOUS
    <3>1. t + 1 \in 1 .. 254 /\ (t + 1) - 1 = t
      OBVIOUS
    <3>2. Register[t + 1] = RegisterStep({t})
      BY <3>1, RegisterSteps
    <3>3. RegisterStep({t}) = {t + 1}
      BY DEF RegisterStep
    <3> QED BY <3>2, <3>3
  <2> HIDE DEF K
  <2>3. \A t \in 0 .. 7 : t \in K
    BY <2>1, <2>2, IntervalInduction
  <2> QED BY <2>3 DEF K
<1> HIDE DEF bit
<1>3. \A r \in 2 .. 23 : Good(r - 2) /\ Good(r - 1) => Good(r)
  <2> SUFFICES ASSUME NEW r \in 2 .. 23, Good(r - 2), Good(r - 1) PROVE Good(r)
    OBVIOUS
  <2> DEFINE old(j) == bit(7 * (r - 1) + j)
             new(j) == bit(7 * r + j)
             E == RoundBits[r + 1]
             F == RoundBits[r]
  <2>1. /\ r + 1 \in 1 .. 24 /\ (r - 1) + 1 = r /\ (r - 2) + 1 = r - 1
        /\ 7 * (r - 2) + 6 = 7 * (r - 1) - 1
    OBVIOUS
  <2>2. \A j \in 0 .. 6 : old(j) <=> j \in F
    BY <2>1
  <2>3. bit(7 * (r - 1) - 1) <=> 6 \in RoundBits[r - 1]
    BY <2>1
  <2>4. \A j \in 0 .. 6 :
          new(j) <=> Odd(IF j = 0 THEN bit(7 * (r - 1) - 1) ELSE old(j - 1),
                         IF j <= 3 THEN old(j + 3) ELSE new(j - 4),
                         IF j <= 2 THEN old(j + 4) ELSE new(j - 3),
                         IF j <= 1 THEN old(j + 5) ELSE new(j - 2))
    <3> TAKE j \in 0 .. 6
    <3> DEFINE t == 7 * r + j
    <3>1. t \in 8 .. 253
      OBVIOUS
    <3>2. /\ t - 8 = 7 * (r - 1) + (j - 1)
          /\ t - 4 = 7 * (r - 1) + (j + 3) /\ t - 4 = 7 * r + (j - 4)
          /\ t - 3 = 7 * (r - 1) + (j + 4) /\ t - 3 = 7 * r + (j - 3)
          /\ t - 2 = 7 * (r - 1) + (j + 5) /\ t - 2 = 7 * r + (j - 2)
          /\ j = 0 => t - 8 = 7 * (r - 1) - 1
      OBVIOUS
    <3>3. bit(t) <=> Odd(bit(t - 8), bit(t - 4), bit(t - 3), bit(t - 2))
      BY <1>1, <3>1
    <3> HIDE DEF t
    <3>4. bit(t - 8) <=> IF j = 0 THEN bit(7 * (r - 1) - 1) ELSE old(j - 1)
      BY <3>2
    <3>5. bit(t - 4) <=> IF j <= 3 THEN old(j + 3) ELSE new(j - 4)
      BY <3>2
    <3>6. bit(t - 3) <=> IF j <= 2 THEN old(j + 4) ELSE new(j - 3)
      BY <3>2
    <3>7. bit(t - 2) <=> IF j <= 1 THEN old(j + 5) ELSE new(j - 2)
      BY <3>2
    <3>8. new(j) <=> bit(t)
      BY DEF t
    <3> HIDE DEF old, new
    <3> QED BY <3>3, <3>4, <3>5, <3>6, <3>7, <3>8 DEF Odd
  <2>5. \A j \in 0 .. 6 :
          j \in E <=> Odd(IF j = 0 THEN 6 \in RoundBits[r - 1] ELSE j - 1 \in F,
                          IF j <= 3 THEN j + 3 \in F ELSE j - 4 \in E,
                          IF j <= 2 THEN j + 4 \in F ELSE j - 3 \in E,
                          IF j <= 1 THEN j + 5 \in F ELSE j - 2 \in E)
    BY RoundBitsTable
  <2> HIDE DEF old, new, E, F
  <2>6. new(0) <=> 0 \in E
    BY <2>2, <2>3, <2>4, <2>5 DEF Odd
  <2>7. new(1) <=> 1 \in E
    BY <2>2, <2>4, <2>5 DEF Odd
  <2>8. new(2) <=> 2 \in E
    BY <2>2, <2>4, <2>5, <2>6 DEF Odd
  <2>9. new(3) <=> 3 \in E
    BY <2>2, <2>4, <2>5, <2>6, <2>7 DEF Odd
  <2>10. new(4) <=> 4 \in E
    BY <2>2, <2>4, <2>5, <2>6, <2>7, <2>8 DEF Odd
  <2>11. new(5) <=> 5 \in E
    BY <2>2, <2>4, <2>5, <2>7, <2>8, <2>9 DEF Odd
  <2>12. new(6) <=> 6 \in E
    BY <2>2, <2>4, <2>5, <2>8, <2>9, <2>10 DEF Odd
  <2>13. \A j \in 0 .. 6 : new(j) <=> j \in E
    BY <2>6, <2>7, <2>8, <2>9, <2>10, <2>11, <2>12
  <2> QED BY <2>13 DEF new, E
<1>4. Good(0)
  <2>1. RoundBits[0 + 1] = {0}
    BY DEF RoundBits
  <2>2. \A j \in 0 .. 6 : 7 * 0 + j = j
    OBVIOUS
  <2> QED BY <1>2, <2>1, <2>2
<1>5. Good(1)
  <2>1. RoundBits[1 + 1] = {1, 3, 4}
    BY DEF RoundBits
  <2>2. /\ ~bit(7) /\ bit(8) /\ ~bit(9) /\ bit(10) /\ bit(11) /\ ~bit(12) /\ ~bit(13)
    <3>1. \A t \in 8 .. 13 : bit(t) <=> Odd(bit(t - 8), bit(t - 4), bit(t - 3), bit(t - 2))
      BY <1>1
    <3>2. bit(8) <=> Odd(bit(0), bit(4), bit(5), bit(6))
      BY <3>1
    <3>3. bit(9) <=> Odd(bit(1), bit(5), bit(6), bit(7))
      BY <3>1
    <3>4. bit(10) <=> Odd(bit(2), bit(6), bit(7), bit(8))
      BY <3>1
    <3>5. bit(11) <=> Odd(bit(3), bit(7), bit(8), bit(9))
      BY <3>1
    <3>6. bit(12) <=> Odd(bit(4), bit(8), bit(9), bit(10))
      BY <3>1
    <3>7. bit(13) <=> Odd(bit(5), bit(9), bit(10), bit(11))
      BY <3>1
    <3> QED BY <1>2, <3>2, <3>3, <3>4, <3>5, <3>6, <3>7 DEF Odd
  <2>3. \A j \in 0 .. 6 : 7 * 1 + j = 7 + j
    OBVIOUS
  <2> QED BY <2>1, <2>2, <2>3
<1> HIDE DEF Good
<1>6. 1 \in H
  BY <1>4, <1>5
<1>7. \A r \in 1 .. 22 : r \in H => r + 1 \in H
  <2> TAKE r \in 1 .. 22
  <2>1. r + 1 \in 2 .. 23 /\ (r + 1) - 2 = r - 1 /\ (r + 1) - 1 = r
    OBVIOUS
  <2> QED BY <1>3, <2>1
<1> HIDE DEF H
<1>8. \A r \in 1 .. 23 : r \in H
  BY <1>6, <1>7, IntervalInduction
<1>9. \A r \in 0 .. 23 : Good(r)
  BY <1>4, <1>8 DEF H
<1> QED BY <1>9 DEF Good, bit

LEMMA IotaLemma ==
  ASSUME NEW r \in 0 .. 23
  PROVE  RoundConstants[r + 1] = IotaConstant(r) /\ IotaConstant(r) \in SUBSET Bits
<1>1. \A n \in 0 .. 6 : 0 \in Register[n + 7 * r] <=> n \in RoundBits[r + 1]
  <2>1. \A n \in 0 .. 6 : n + 7 * r = 7 * r + n
    OBVIOUS
  <2> QED BY <2>1, RoundBitsLemma
<1>2. RoundBits[r + 1] \subseteq 0 .. 6
  BY Numbers DEF RoundBits
<1>3. {n \in 0 .. 6 : 0 \in Register[n + 7 * r]} = RoundBits[r + 1]
  BY <1>1, <1>2
<1>4. RoundConstants[r + 1] = IotaConstant(r)
  BY <1>3, RoundBitsTable DEF IotaConstant
<1>5. \A j \in 0 .. 6 : IotaBits[j + 1] \in Bits
  BY DEF IotaBits, Bits
<1>6. IotaConstant(r) \in SUBSET Bits
  BY <1>5 DEF IotaConstant
<1> QED BY <1>4, <1>6

-----------------------------------------------------------------------------
(* Rounds.                                                                 *)
LEMMA FirstLane ==
  ASSUME NEW A \in States, NEW v \in SUBSET Bits
  PROVE  [A EXCEPT ![1] = XOR(@, v)] \in States
<1>1. A[1] \in SUBSET Bits
  BY DEF States
<1>2. XOR(A[1], v) \in SUBSET Bits
  BY <1>1, XorBits
<1> QED BY <1>2 DEF States

\* What all of them compute before the round constant.
Mixed(A) == Listed(ChiList(Listed(RhoPiOf(Listed(ThetaOf(A))))))

LEMMA StagesLemma ==
  ASSUME NEW A \in States
  PROVE  /\ Listed(ThetaOf(A)) \in States
         /\ Listed(RhoPiOf(Listed(ThetaOf(A)))) \in States
         /\ Mixed(A) \in States
<1>1. Listed(ThetaOf(A)) \in States
  BY ThetaBits, ListedStates
<1>2. Listed(RhoPiOf(Listed(ThetaOf(A)))) \in States
  BY <1>1, RhoPiBits, ListedStates
<1>3. Mixed(A) \in States
  BY <1>2, ChiBits, ListedStates DEF Mixed
<1> QED BY <1>1, <1>2, <1>3

LEMMA FipsLemma ==
  ASSUME NEW A \in States, NEW r \in 0 .. 23
  PROVE  FipsRound(A, r) = Iota(Mixed(A), r) /\ FipsRound(A, r) \in States
<1>1. Chi(Pi(Rho(Theta(A)))) = Mixed(A)
  BY StagesLemma, ThetaLemma, RhoPiLemma, ChiLemma DEF Mixed
<1>2. FipsRound(A, r) = [Mixed(A) EXCEPT ![1] = XOR(@, IotaConstant(r))]
  BY <1>1 DEF FipsRound
<1>3. Iota(Mixed(A), r) = [Mixed(A) EXCEPT ![1] = XOR(@, IotaConstant(r))]
  BY IotaLemma DEF Iota
<1>4. FipsRound(A, r) \in States
  <2>1. Mixed(A) \in States /\ IotaConstant(r) \in SUBSET Bits
    BY StagesLemma, IotaLemma
  <2>2. [Mixed(A) EXCEPT ![1] = XOR(@, IotaConstant(r))] \in States
    BY <2>1, FirstLane
  <2> QED BY <1>2, <2>2
<1> QED BY <1>2, <1>3, <1>4

\* A round of each implementation is one of FIPS 202.
LEMMA RoundsLemma ==
  ASSUME NEW A \in States, NEW r \in 0 .. 23
  PROVE  /\ CpuHalf(A, r) = FipsRound(A, r)
         /\ ThreadRound(A, r) = FipsRound(A, r)
         /\ WarpRound(A, r) = FipsRound(A, r)
<1>1. CpuChi(CpuBC(A, CpuD(A))) = Mixed(A)
  BY StagesLemma, CpuRhoPiLemma, CpuChiLemma DEF Mixed
<1>2. ThreadChi(ThreadRhoPi(ThreadTheta(A))) = Mixed(A)
  BY StagesLemma, ThreadThetaLemma, ThreadRhoPiLemma, ThreadChiLemma DEF Mixed
<1>3. WarpChi(WarpRhoPi(WarpTheta(A))) = Mixed(A)
  BY StagesLemma, WarpThetaLemma, WarpRhoPiLemma, WarpChiLemma DEF Mixed
<1> QED BY <1>1, <1>2, <1>3, FipsLemma DEF CpuHalf, ThreadRound, WarpRound

\* The host is between two iterations of its loop.
KeccakInv ==
  /\ lanes = expected /\ lanes \in States
  /\ impl \in {"cpu", "thread", "warp"}
  /\ round \in 0 .. 24 /\ (impl = "cpu" => round % 2 = 0)

LEMMA KeccakStep ==
  ASSUME KeccakInv, KeccakNext
  PROVE  KeccakInv'
<1>1. CASE CpuStep
  <2>1. /\ impl = "cpu" /\ round < 24 /\ round' = round + 2 /\ impl' = impl
        /\ lanes' = CpuHalf(CpuHalf(lanes, round), round + 1)
        /\ expected' = FipsRound(FipsRound(lanes, round), round + 1)
    BY <1>1 DEF CpuStep, CpuIteration, KeccakInv
  <2>2. round \in 0 .. 23 /\ round + 1 \in 0 .. 23 /\ round + 2 \in 0 .. 24 /\ (round + 2) % 2 = 0
    BY <2>1 DEF KeccakInv
  <2>3. /\ CpuHalf(lanes, round) = FipsRound(lanes, round)
        /\ FipsRound(lanes, round) \in States
    BY <2>2, RoundsLemma, FipsLemma DEF KeccakInv
  <2>4. /\ CpuHalf(FipsRound(lanes, round), round + 1) = FipsRound(FipsRound(lanes, round), round + 1)
        /\ FipsRound(FipsRound(lanes, round), round + 1) \in States
    BY <2>2, <2>3, RoundsLemma, FipsLemma
  <2> QED BY <2>1, <2>2, <2>3, <2>4 DEF KeccakInv
<1>2. CASE ThreadStep
  <2>1. /\ impl = "thread" /\ round < 24 /\ round' = round + 1 /\ impl' = impl
        /\ lanes' = ThreadRound(lanes, round) /\ expected' = FipsRound(lanes, round)
    BY <1>2 DEF ThreadStep, KeccakInv
  <2>2. round \in 0 .. 23 /\ round + 1 \in 0 .. 24
    BY <2>1 DEF KeccakInv
  <2>3. ThreadRound(lanes, round) = FipsRound(lanes, round) /\ FipsRound(lanes, round) \in States
    BY <2>2, RoundsLemma, FipsLemma DEF KeccakInv
  <2> QED BY <2>1, <2>2, <2>3 DEF KeccakInv
<1>3. CASE WarpStep
  <2>1. /\ impl = "warp" /\ round < 24 /\ round' = round + 1 /\ impl' = impl
        /\ lanes' = WarpRound(lanes, round) /\ expected' = FipsRound(lanes, round)
    BY <1>3 DEF WarpStep, KeccakInv
  <2>2. round \in 0 .. 23 /\ round + 1 \in 0 .. 24
    BY <2>1 DEF KeccakInv
  <2>3. WarpRound(lanes, round) = FipsRound(lanes, round) /\ FipsRound(lanes, round) \in States
    BY <2>2, RoundsLemma, FipsLemma DEF KeccakInv
  <2> QED BY <2>1, <2>2, <2>3 DEF KeccakInv
<1> QED BY <1>1, <1>2, <1>3 DEF KeccakNext

\* From every state of 1600 bits, the permutation of the host, of a thread and
\* of a warp go through the rounds of FIPS 202 (KeccakF1600_StatePermute in
\* fips202_cpu and fips202_cuda/thread, f1600_state_permute in
\* fips202_cuda/warp).
THEOREM PermutesAlways == KeccakSpec => []Permutes
<1>1. KeccakInit => KeccakInv
  BY StartsAssumption DEF KeccakInit, KeccakInv
<1>2. KeccakInv /\ [KeccakNext]_keccakVars => KeccakInv'
  <2>1. CASE KeccakInv /\ KeccakNext
    BY <2>1, KeccakStep
  <2>2. CASE KeccakInv /\ UNCHANGED keccakVars
    BY <2>2 DEF KeccakInv, keccakVars
  <2> QED BY <2>1, <2>2
<1>3. KeccakInv => Permutes
  BY DEF KeccakInv, Permutes
<1> QED BY <1>1, <1>2, <1>3, PTL DEF KeccakSpec
=============================================================================
