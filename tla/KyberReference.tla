--------------------------- MODULE KyberReference ---------------------------
(***************************************************************************)
(* What the Kyber calls promise, over the ring of integers modulo q: the   *)
(* formulas of the scheme, without buffers, Montgomery factors or widths.  *)
(* Decapsulation is described by what it accepts: the ciphertexts that     *)
(* encapsulation can make for the key.                                     *)
(***************************************************************************)
EXTENDS Integers, KyberHash

CONSTANTS
  Capacity, KyberK, Rands, Message(_), Noise(_, _), Sample(_, _, _), None

VARIABLES pk, sk, ct, ss, call

Items == 0 .. Capacity - 1
Ks == 0 .. KyberK - 1
Q == 3329

Sum(f) ==
  LET sum[n \in 0 .. KyberK] == IF n = 0 THEN 0 ELSE sum[n - 1] + f[n - 1]
  IN  sum[KyberK]

A(seed, i, j) == Sample(seed, j, i)

\* t = A s + e
KeyPair(r) ==
  LET s(i) == Noise(G(r).second, i)
      e(i) == Noise(G(r).second, KyberK + i)
      t(i) == (Sum([j \in Ks |-> (A(G(r).first, i, j) % Q) * s(j)]) + e(i)) % Q
  IN  [pk |-> [t |-> [i \in Ks |-> t(i)], seed |-> G(r).first],
       s |-> [i \in Ks |-> s(i) % Q]]

\* The multiple of 1/2^d next to x/q.
Rounded(x, d) == ((2 * 2^d * (x % Q) + Q) \div (2 * Q)) % 2^d

\* u = A^T r + e1, v = t r + e2 + m (q + 1)/2
Encrypt(key, m, coins) ==
  LET r(i) == Noise(coins, i)
      u(i) == Sum([j \in Ks |-> (A(key.seed, j, i) % Q) * r(j)]) + Noise(coins, KyberK + i)
      v == Sum([j \in Ks |-> key.t[j] * r(j)]) + Noise(coins, 2 * KyberK) + m * ((Q + 1) \div 2)
  IN  [u |-> [i \in Ks |-> Rounded(u(i), 11)], v |-> Rounded(v, 5)]

Ciphertext(key, m) == Encrypt(key, m, G(<<m, H(key)>>).second)

Secret(key, c) ==
  LET sources == {m \in {0, 1} : Ciphertext(key.pk, m) = c}
  IN  IF sources = {} THEN Kdf(key.z, c)
      ELSE Kdf(G(<<CHOOSE m \in sources : TRUE, H(key.pk)>>).first, c)

Init == /\ pk = [i \in Items |-> None] /\ sk = [i \in Items |-> None]
        /\ ct = [i \in Items |-> None] /\ ss = [i \in Items |-> None]
        /\ call = [name |-> "none", batch |-> 0, ret |-> 0, count |-> 0]

In(n) == 0 .. n - 1
Untouched(new, old, n) == \A i \in Items \ In(n) : new[i] = old[i]

Succeeds(name) ==
  call'.name = name /\ call'.ret = 0 /\ call'.batch \in 1 .. Capacity

Keypair ==
  /\ Succeeds("keypair")
  /\ UNCHANGED <<ct, ss>>
  /\ \A i \in In(call'.batch) : \E r \in Rands :
       LET k == KeyPair(r)
       IN  /\ pk'[i] = k.pk
           /\ sk'[i] = [s |-> k.s, pk |-> k.pk, hpk |-> H(k.pk), z |-> <<"z", i>>]
  /\ Untouched(pk', pk, call'.batch) /\ Untouched(sk', sk, call'.batch)

Encapsulate ==
  /\ Succeeds("encapsulate")
  /\ UNCHANGED <<pk, sk, ss>>
  /\ \A i \in In(call'.batch) : \E r \in Rands : ct'[i] = Ciphertext(pk[i], Message(r))
  /\ Untouched(ct', ct, call'.batch)

Decapsulate ==
  /\ Succeeds("decapsulate")
  /\ UNCHANGED <<pk, sk, ct>>
  /\ \A i \in In(call'.batch) : ss'[i] = Secret(sk[i], ct[i])
  /\ Untouched(ss', ss, call'.batch)

\* A failed call, or the way of the ciphertexts, may change a public key or
\* a ciphertext, and never a secret.
Disturb ==
  /\ call'.ret = -1 \/ call'.name = "transit"
  /\ UNCHANGED <<sk, ss>>

Next == Keypair \/ Encapsulate \/ Decapsulate \/ Disturb

Spec == Init /\ [][Next]_<<pk, sk, ct, ss, call>>
=============================================================================
