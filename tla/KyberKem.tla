------------------------------ MODULE KyberKem ------------------------------
(***************************************************************************)
(* Kyber1024 in batches: the public calls keypair_batch, encapsulate_batch *)
(* and decapsulate_batch, and the kernels of the CPA scheme below them.    *)
(* A kernel handles each item of the batch in a thread and a column of its *)
(* own; kernels of one stream run one after the other, and every call      *)
(* waits for the stream.  The GPU workspace is allocated in every call and *)
(* not cleared: what an earlier call left in it is still there.            *)
(*                                                                         *)
(* Abstracted: polynomials are restricted to constants, a subring on which *)
(* the code computes exactly what is written here (the transform of a      *)
(* constant is that constant in every component, and the other             *)
(* coefficients stay zero), with the real modulus, Montgomery factors,     *)
(* compression and widths.  A message is then one bit.  Hash functions are *)
(* free constructors, or a choice of small numbers where noise and matrix  *)
(* are sampled.                                                            *)
(***************************************************************************)
EXTENDS KyberArith, KyberHash

CONSTANTS
  Capacity,        \* the largest batch, N_TESTS
  KyberK,          \* KYBER_K
  Rands,           \* what the random number generator gives for one item
  Message(_),      \* the message that SHA3-256 makes of a random number
  Noise(_, _),     \* the noise of a seed and a nonce
  Sample(_, _, _), \* the first accepted sample of SHAKE128 on a seed and two
                   \* indices
  Fill,            \* what unwritten device memory may hold
  MaxCalls,        \* bound on the number of calls
  None             \* nothing was written yet

Items == 0 .. Capacity - 1
Ks == 0 .. KyberK - 1
KyberEta == 2

\* KYBER_K is 2, 3 or 4 (params.h); the sum of nine products still fits int16_t.
ASSUME SizesAssumption == Capacity \in Nat \ {0} /\ KyberK \in 1 .. 9
ASSUME FillAssumption == Fill \subseteq Int16s /\ Fill # {}
ASSUME MessageAssumption == \A r \in Rands : Message(r) \in {0, 1}

\* What cbd and rej_uniform give: the theorems about this module assume it, for
\* every seed.
Samplers ==
  \A seed, x, y : Noise(seed, x) \in -KyberEta .. KyberEta
                  /\ Sample(seed, x, y) \in 0 .. SampleBound - 1

VARIABLES
  ws,     \* per item, its column of the workspace
  pk, sk, \* the caller's buffers: keys,
  ct,     \* ciphertexts, which may be changed on their way,
  ss,     \* and the secrets decapsulate_batch delivered
  sent,   \* history: what the last encapsulation of an item produced
  call    \* history: the last call, its batch and its answer, and how many
          \* calls there were

vars == <<ws, pk, sk, ct, ss, sent, call>>

-----------------------------------------------------------------------------
(***************************************************************************)
(* Kernels on one item.                                                    *)
(***************************************************************************)
\* keypair_seed_n, into the halves of the seed buffer.
Seed(r) == [public |-> G(r).first, noise |-> G(r).second]

\* gen_matrix_n
\* Mutation: the matrix is never transposed.
MatrixStraight(seed, transposed) ==
  [i \in Ks |-> [j \in Ks |-> Uniform(Sample(seed, j, i))]]
Matrix(seed, transposed) ==
  [i \in Ks |-> [j \in Ks |->
     Uniform(IF transposed THEN Sample(seed, i, j) ELSE Sample(seed, j, i))]]

\* KYBER_K runs of poly_getnoise, from a nonce on.
NoiseVec(seed, nonce) == [i \in Ks |-> Noise(seed, nonce + i)]

Map(Op(_), v) == [i \in Ks |-> Op(v[i])]
Add(x, y) == Int16(x + y)
VecAdd(v, w) == [i \in Ks |-> Add(v[i], w[i])]

\* poly_ntt: reduced at the end.
Ntt(x) == BarrettReduce(x)

\* invntt_p: seven levels, then the factor zetas_inv[127].
InvNtt(x) ==
  LET level[n \in 0 .. 7] ==
        IF n = 0 THEN x ELSE BarrettReduce(Int16(2 * level[n - 1]))
  IN  FqMul(level[7], 1441)

\* polyvec_pointwise_acc_n: the result, and what stays in its temporary.
Term(v, w, i) == FqMul(v[i], w[i])
PointwiseAcc(v, w) ==
  LET sum[n \in Ks] ==
        IF n = 0 THEN Term(v, w, 0) ELSE Add(sum[n - 1], Term(v, w, n))
  IN  BarrettReduce(sum[KyberK - 1])

LastTerm(v, w, old) == IF KyberK > 1 THEN Term(v, w, KyberK - 1) ELSE old

-----------------------------------------------------------------------------
(***************************************************************************)
(* The CPA scheme on the column w of one item.  Packing a polynomial also  *)
(* reduces it where it is.                                                 *)
(***************************************************************************)
KeySample(w, seed) ==
  [w EXCEPT !.AV = Matrix(seed.public, FALSE), !.seed = seed,
            !.cv = NoiseVec(seed.noise, 0), !.av = NoiseVec(seed.noise, KyberK)]

KeyTransform(w) == [w EXCEPT !.cv = Map(Ntt, @), !.av = Map(Ntt, @)]

KeyProducts(w) ==
  [w EXCEPT !.bv = [i \in Ks |-> FromMont(PointwiseAcc(w.AV[i], w.cv))],
            !.a = LastTerm(w.AV[KyberK - 1], w.cv, @)]

\* Mutation: the sum is not reduced.
KeySumsOnly(w) == [w EXCEPT !.bv = VecAdd(@, w.av)]
KeySums(w) == [w EXCEPT !.bv = Map(BarrettReduce, VecAdd(@, w.av))]

PackKeys(w) == [w EXCEPT !.cv = Map(Csubq, @), !.bv = Map(Csubq, @)]

\* indcpa_keypair, and the keys it packs.
IndcpaKeypair(w, r) ==
  PackKeys(KeySums(KeyProducts(KeyTransform(KeySample(w, Seed(r))))))
CpaSecret(w) == w.cv
CpaPublic(w) == [t |-> w.bv, seed |-> w.seed.public]

EncSample(w, m, key, coins) ==
  [w EXCEPT !.bv = key.t, !.seed.public = key.seed, !.b = FromMsg(m),
            !.AV = Matrix(key.seed, TRUE),
            !.av = NoiseVec(coins, 0), !.cv = NoiseVec(coins, KyberK),
            !.c = Noise(coins, KyberK + KyberK)]

EncTransform(w) == [w EXCEPT !.av = Map(Ntt, @)]

\* poly_temp is d.
EncProducts(w) ==
  [w EXCEPT !.dv = [i \in Ks |-> PointwiseAcc(w.AV[i], w.av)],
            !.a = PointwiseAcc(w.bv, w.av), !.d = LastTerm(w.bv, w.av, @)]

EncInverse(w) == [w EXCEPT !.dv = Map(InvNtt, @), !.a = InvNtt(@)]

EncSums(w) ==
  [w EXCEPT !.dv = Map(BarrettReduce, VecAdd(@, w.cv)),
            !.a = BarrettReduce(Add(Add(@, w.c), w.b))]

PackCiphertext(w) == [w EXCEPT !.dv = Map(Csubq, @), !.a = Csubq(@)]

\* indcpa_enc, and the ciphertext it packs.
IndcpaEnc(w, m, key, coins) ==
  PackCiphertext(EncSums(EncInverse(EncProducts(EncTransform(
    EncSample(w, m, key, coins))))))
Ciphertext(w) == [u |-> [i \in Ks |-> Compress(w.dv[i], 11)], v |-> Compress(w.a, 5)]

DecUnpack(w, c, key) ==
  [w EXCEPT !.av = [i \in Ks |-> Ntt(Decompress(c.u[i], 11))],
            !.a = Decompress(c.v, 5), !.bv = key]

DecProduct(w) ==
  [w EXCEPT !.b = InvNtt(PointwiseAcc(w.bv, w.av)), !.c = LastTerm(w.bv, w.av, @)]

DecMessage(w) == [w EXCEPT !.b = Csubq(BarrettReduce(Int16(w.a - @)))]

\* indcpa_dec, and the message it packs.
IndcpaDec(w, c, key) == DecMessage(DecProduct(DecUnpack(w, c, key)))
Decrypted(w) == ToMsg(w.b)

-----------------------------------------------------------------------------
(***************************************************************************)
(* The public calls.  Items beyond the batch keep what they have.          *)
(***************************************************************************)
In(n) == 0 .. n - 1
Patch(old, n, new) == [i \in Items |-> IF i \in In(n) THEN new[i] ELSE old[i]]

CanCall == call.count < MaxCalls

Answered(name, n, ret) ==
  call' = [name |-> name, batch |-> n, ret |-> ret, count |-> call.count + 1]

Cells(x) ==
  [a |-> x, b |-> x, c |-> x, d |-> x,
   av |-> [i \in Ks |-> x], bv |-> [i \in Ks |-> x],
   cv |-> [i \in Ks |-> x], dv |-> [i \in Ks |-> x],
   AV |-> [i \in Ks |-> [j \in Ks |-> x]],
   seed |-> [public |-> None, noise |-> None]]

Init ==
  /\ \E x \in Fill : ws = [i \in Items |-> Cells(x)]
  /\ pk = [i \in Items |-> None] /\ sk = [i \in Items |-> None]
  /\ ct = [i \in Items |-> None] /\ ss = [i \in Items |-> None]
  /\ sent = [i \in Items |-> None]
  /\ call = [name |-> "none", batch |-> 0, ret |-> 0, count |-> 0]

\* The random number that stands in for the key of a bad ciphertext: one of its
\* own for each item.
Fallback(i) == <<"z", i>>

\* The four parts of a secret key: the CPA key, pk, H(pk) and the fallback.
KeypairBatch ==
  /\ CanCall
  /\ \E n \in 1 .. Capacity : \E r \in [In(n) -> Rands] :
       LET done == [i \in In(n) |-> IndcpaKeypair(ws[i], r[i])]
       IN  /\ ws' = Patch(ws, n, done)
           /\ pk' = Patch(pk, n, [i \in In(n) |-> CpaPublic(done[i])])
           /\ sk' = Patch(sk, n, [i \in In(n) |->
                      [s |-> CpaSecret(done[i]), pk |-> CpaPublic(done[i]),
                       hpk |-> H(CpaPublic(done[i])), z |-> Fallback(i)]])
           /\ Answered("keypair", n, 0)
           /\ UNCHANGED <<ct, ss, sent>>

EncapsulateBatch ==
  /\ CanCall
  /\ \E n \in 1 .. Capacity : \E r \in [In(n) -> Rands] :
       /\ \A i \in In(n) : pk[i] # None
       /\ LET m(i) == Message(r[i])
              kr(i) == G(<<m(i), H(pk[i])>>)
              done == [i \in In(n) |-> IndcpaEnc(ws[i], m(i), pk[i], kr(i).second)]
              c == [i \in In(n) |-> Ciphertext(done[i])]
          IN  /\ ws' = Patch(ws, n, done)
              /\ ct' = Patch(ct, n, c)
              /\ sent' = Patch(sent, n, [i \in In(n) |->
                           [pk |-> pk[i], m |-> m(i), ct |-> c[i],
                            ss |-> Kdf(kr(i).first, c[i])]])
              /\ Answered("encapsulate", n, 0)
              /\ UNCHANGED <<pk, sk, ss>>

\* The ciphertexts differ.  Mutation: only a part is compared.
DifferentInU(c, d) == c.u # d.u
Different(c, d) == c # d

DecapsulateBatch ==
  /\ CanCall
  /\ \E n \in 1 .. Capacity :
       /\ \A i \in In(n) : sk[i] # None /\ ct[i] # None
       /\ LET dec == [i \in In(n) |-> IndcpaDec(ws[i], ct[i], sk[i].s)]
              m(i) == Decrypted(dec[i])
              kr == [i \in In(n) |-> G(<<m(i), sk[i].hpk>>)]
              enc == [i \in In(n) |-> IndcpaEnc(dec[i], m(i), sk[i].pk, kr[i].second)]
          IN  /\ ws' = Patch(ws, n, enc)
              /\ ss' = Patch(ss, n, [i \in In(n) |->
                         Kdf(IF Different(Ciphertext(enc[i]), ct[i])
                               THEN sk[i].z ELSE kr[i].first,
                             ct[i])])
              /\ Answered("decapsulate", n, 0)
              /\ UNCHANGED <<pk, sk, ct, sent>>

\* A call that fails: the random numbers, an allocation, or the GPU behind
\* any kernel.  By then the stream may have used the workspace, and may have
\* copied all or part of a result back: the caller's public keys or ciphertexts
\* are the old ones, new ones or of no use.
Leftover(n) == \E x \in Fill : ws' \in {ws, Patch(ws, n, [i \in Items |-> Cells(x)])}
Useless == [i \in Items |-> None]

FailsKeypair ==
  /\ CanCall
  /\ \E n \in 1 .. Capacity : \E r \in Rands :
       /\ pk' \in {pk, Patch(pk, n, Useless),
                  Patch(pk, n, [i \in In(n) |-> CpaPublic(IndcpaKeypair(ws[i], r))])}
       /\ Leftover(n)
       /\ Answered("keypair", n, -1)
  /\ UNCHANGED <<sk, ct, ss, sent>>

FailsEncapsulate ==
  /\ CanCall
  /\ \E n \in 1 .. Capacity :
       /\ ct' \in {ct, Patch(ct, n, Useless)}
       /\ Leftover(n)
       /\ Answered("encapsulate", n, -1)
  /\ UNCHANGED <<pk, sk, ss, sent>>

FailsDecapsulate ==
  /\ CanCall
  /\ \E n \in 1 .. Capacity : Leftover(n) /\ Answered("decapsulate", n, -1)
  /\ UNCHANGED <<pk, sk, ct, ss, sent>>

Fails == FailsKeypair \/ FailsEncapsulate \/ FailsDecapsulate

\* What may happen to ciphertexts between the parties: a change of one
\* component, or two change places; one such event between two calls.
Altered(c) ==
  {[c EXCEPT !.v = (@ + 1) % 32], [c EXCEPT !.u[0] = (@ + 1024) % 2048]}

Transit ==
  /\ call.name # "transit"
  /\ \/ \E i \in Items :
          /\ sent[i] # None /\ ct[i] = sent[i].ct
          /\ \E c \in Altered(ct[i]) : ct' = [ct EXCEPT ![i] = c]
     \/ \E i, j \in Items :
          /\ ct[i] # ct[j]
          /\ ct' = [ct EXCEPT ![i] = ct[j], ![j] = ct[i]]
  /\ call' = [call EXCEPT !.name = "transit", !.ret = 0]
  /\ UNCHANGED <<ws, pk, sk, ss, sent>>

Next == KeypairBatch \/ EncapsulateBatch \/ DecapsulateBatch \/ Fails \/ Transit

Spec == Init /\ [][Next]_vars

-----------------------------------------------------------------------------
(***************************************************************************)
(* Properties.                                                             *)
(***************************************************************************)
CellOK(w) ==
  /\ {w.a, w.b, w.c, w.d} \subseteq Int16s
  /\ \A i \in Ks : {w.av[i], w.bv[i], w.cv[i], w.dv[i]} \subseteq Int16s
  /\ \A i, j \in Ks : w.AV[i][j] \in Int16s

\* The workspace holds 16-bit numbers; what is packed is canonical, or fits
\* its bits.
TypeOK ==
  /\ \A i \in Items : CellOK(ws[i])
  /\ \A i \in Items : pk[i] # None => \A j \in Ks : pk[i].t[j] \in 0 .. KyberQ - 1
  /\ \A i \in Items : sk[i] # None => \A j \in Ks : sk[i].s[j] \in 0 .. KyberQ - 1
  /\ \A i \in Items :
       ct[i] # None => ct[i].v \in 0 .. 31 /\ \A j \in Ks : ct[i].u[j] \in 0 .. 2047
  /\ call.batch \in 0 .. Capacity /\ call.ret \in {0, -1}

\* decapsulate_batch delivers the secret encapsulate_batch delivered for an
\* item exactly if the item's ciphertext is unchanged and belongs to the
\* item's secret key, whatever happened to the other items of the batch.
SecretsMatch ==
  call.name = "decapsulate" /\ call.ret = 0 =>
    \A i \in In(call.batch) :
      sent[i] # None =>
        (ss[i] = sent[i].ss <=> ct[i] = sent[i].ct /\ sk[i].pk = sent[i].pk)

\* The calls are those of the KEM over the ring: with the Montgomery factors,
\* the reductions and the reuse of buffers of the code, and whatever the
\* workspace holds at the start, keys and ciphertexts are those the formulas
\* of Kyber give, and decapsulation accepts what encapsulation can produce.
Reference == INSTANCE KyberReference
ImplementsReference == Reference!Spec

\* PQCUDA_IMPLEMENTATION_PAPER_NOTES.md:328 says of encapsulation that the
\* shared secret is SHAKE256(m || SHA3-256(c)): the message is the key of the
\* last hash, not a half of G.
SecretIsFromMessage ==
  \A i \in Items :
    sent[i] # None => sent[i].ss = Kdf(<<"message", sent[i].m>>, sent[i].ct)
=============================================================================
