------------------------------- MODULE Sponge -------------------------------
(***************************************************************************)
(* The hash functions of fips202_cpu and fips202_cuda/thread: SHAKE128 and *)
(* SHAKE256 in calls that follow each other on one keccak_state, and the   *)
(* functions that hash in one call.  The permutation is free: a state is   *)
(* the sequence of what was in it at each permutation, and what has been   *)
(* added since; module Keccak has the permutation itself.  Bytes are those *)
(* of module XofReference.                                                 *)
(***************************************************************************)
EXTENDS XofReference, SequencesExt

CONSTANTS
  SHAKE128_RATE,
  SHAKE256_RATE,
  SHA3_512_RATE,
  MaxIn, MaxOut   \* bounds on message and output

ASSUME RatesAssumption ==
  /\ StateBytes \in Nat /\ MaxIn \in Nat /\ MaxOut \in Nat
  /\ {SHAKE128_RATE, SHAKE256_RATE, SHA3_512_RATE} \subseteq 2 .. StateBytes - 1

VARIABLES
  rate, suffix,   \* of the function that was started
  s, pos,         \* keccak_state
  message,        \* history: the length of the message
  phase,          \* of the calls: "absorbing", "squeezing", or "answered" at once
  output          \* the bytes the caller got

spongeVars == <<rate, suffix, s, pos, message, phase, output>>

-----------------------------------------------------------------------------
(***************************************************************************)
(* The state.                                                              *)
(***************************************************************************)
ZeroState == [base |-> << >>, add |-> Blank]

\* s[i / 8] ^= in << 8 * (i % 8), for the bytes in from place i on.
Xor(st, i, in) ==
  [st EXCEPT !.add = [p \in 0 .. StateBytes - 1 |->
     IF p \in i .. i + Len(in) - 1
     THEN SymDiff(st.add[p], in[p - i + 1]) ELSE st.add[p]]]

KeccakF1600_StatePermute(st) == [base |-> Append(st.base, st.add), add |-> Blank]

\* The bytes from place i on.
Bytes(st, i, n) == [j \in 1 .. n |-> [base |-> st.base, at |-> i + j - 1, add |-> st.add[i + j - 1]]]

-----------------------------------------------------------------------------
(***************************************************************************)
(* fips202_cpu.                                                            *)
(***************************************************************************)
\* Mutation of AbsorbByte: a block that is full is not permuted yet.
AbsorbByteLate(q, r, byte) ==
  IF q.pos = r THEN [s |-> Xor(KeccakF1600_StatePermute(q.s), 0, <<byte>>), pos |-> 1]
  ELSE [s |-> Xor(q.s, q.pos, <<byte>>), pos |-> q.pos + 1]

\* The next byte of input goes to place pos; a block that is full is permuted.
AbsorbByte(q, r, byte) ==
  LET added == Xor(q.s, q.pos, <<byte>>)
  IN  IF q.pos + 1 = r THEN [s |-> KeccakF1600_StatePermute(added), pos |-> 0]
      ELSE [s |-> added, pos |-> q.pos + 1]

\* From place p of a block on.
keccak_absorb(st, p, r, in) ==
  LET after[i \in 0 .. Len(in)] ==
        IF i = 0 THEN [s |-> st, pos |-> p] ELSE AbsorbByte(after[i - 1], r, in[i])
  IN  after[Len(in)]

keccak_finalize(st, p, r, sfx) == Xor(Xor(st, p, <<{sfx}>>), r - 1, <<{PadEnd}>>)

\* The next byte of output; when the block is used up, the state is permuted.
SqueezeByte(q, r) ==
  LET now == IF q.pos = r THEN KeccakF1600_StatePermute(q.s) ELSE q.s
      from == IF q.pos = r THEN 0 ELSE q.pos
  IN  [out |-> q.out \o Bytes(now, from, 1), s |-> now, pos |-> from + 1]

keccak_squeeze(out, n, st, p, r) ==
  LET after[i \in 0 .. n] ==
        IF i = 0 THEN [out |-> out, s |-> st, pos |-> p] ELSE SqueezeByte(after[i - 1], r)
  IN  after[n]

\* The whole blocks of in, and what is left of it.
AbsorbBlocks(st, r, in) ==
  LET whole == Len(in) \div r
      after[k \in 0 .. whole] ==
        IF k = 0 THEN st
        ELSE KeccakF1600_StatePermute(Xor(after[k - 1], 0, SubSeq(in, r * (k - 1) + 1, r * k)))
  IN  [s |-> after[whole], rest |-> SubSeq(in, r * whole + 1, Len(in))]

keccak_absorb_once(r, in, sfx) ==
  LET absorbed == AbsorbBlocks(ZeroState, r, in)
  IN  keccak_finalize(Xor(absorbed.s, 0, absorbed.rest), Len(absorbed.rest), r, sfx)

SqueezeBlock(q, r) ==
  LET next == KeccakF1600_StatePermute(q.s) IN [out |-> q.out \o Bytes(next, 0, r), s |-> next]

keccak_squeezeblocks(out, nblocks, st, r) ==
  LET after[k \in 0 .. nblocks] ==
        IF k = 0 THEN [out |-> out, s |-> st] ELSE SqueezeBlock(after[k - 1], r)
  IN  after[nblocks]

-----------------------------------------------------------------------------
(***************************************************************************)
(* Calls that follow each other.  keccak_init, then absorb and finalize or *)
(* absorb_once, then squeeze; squeezeblocks where a block is complete, as  *)
(* its comment asks.                                                       *)
(***************************************************************************)
\* The next n bytes of the message.
Input(n) == [i \in 1 .. n |-> {message + i}]

SpongeInit ==
  /\ \E f \in {<<SHAKE128_RATE, SHAKE>>, <<SHAKE256_RATE, SHAKE>>,
               <<SHAKE256_RATE, SHA3>>, <<SHA3_512_RATE, SHA3>>} :
       rate = f[1] /\ suffix = f[2]
  /\ s = ZeroState /\ pos = 0
  /\ message = 0 /\ phase = "absorbing" /\ output = << >>

shake_absorb(r, n) ==
  /\ phase = "absorbing" /\ rate = r /\ suffix = SHAKE /\ message + n <= MaxIn
  /\ LET absorbed == keccak_absorb(s, pos, r, Input(n))
     IN  s' = absorbed.s /\ pos' = absorbed.pos
  /\ message' = message + n
  /\ UNCHANGED <<rate, suffix, phase, output>>

shake_finalize(r) ==
  /\ phase = "absorbing" /\ rate = r /\ suffix = SHAKE
  /\ s' = keccak_finalize(s, pos, r, SHAKE)
  /\ pos' = r
  /\ phase' = "squeezing"
  /\ UNCHANGED <<rate, suffix, message, output>>

shake_squeeze(r, n) ==
  /\ phase = "squeezing" /\ rate = r /\ suffix = SHAKE /\ Len(output) + n <= MaxOut
  /\ LET squeezed == keccak_squeeze(output, n, s, pos, r)
     IN  s' = squeezed.s /\ pos' = squeezed.pos /\ output' = squeezed.out
  /\ UNCHANGED <<rate, suffix, message, phase>>

shake_absorb_once(r, n) ==
  /\ phase = "absorbing" /\ message = 0 /\ rate = r /\ suffix = SHAKE
  /\ s' = keccak_absorb_once(r, Input(n), SHAKE)
  /\ pos' = r
  /\ message' = n /\ phase' = "squeezing"
  /\ UNCHANGED <<rate, suffix, output>>

shake_squeezeblocks(r, nblocks) ==
  /\ phase = "squeezing" /\ rate = r /\ suffix = SHAKE /\ pos = r
  /\ Len(output) + nblocks * r <= MaxOut
  /\ LET squeezed == keccak_squeezeblocks(output, nblocks, s, r)
     IN  s' = squeezed.s /\ output' = squeezed.out
  /\ UNCHANGED <<rate, suffix, pos, message, phase>>

shake128_absorb(n) == shake_absorb(SHAKE128_RATE, n)
shake128_finalize == shake_finalize(SHAKE128_RATE)
shake128_squeeze(n) == shake_squeeze(SHAKE128_RATE, n)
shake128_absorb_once(n) == shake_absorb_once(SHAKE128_RATE, n)
shake128_squeezeblocks(nblocks) == shake_squeezeblocks(SHAKE128_RATE, nblocks)

shake256_absorb(n) == shake_absorb(SHAKE256_RATE, n)
shake256_finalize == shake_finalize(SHAKE256_RATE)
shake256_squeeze(n) == shake_squeeze(SHAKE256_RATE, n)
shake256_absorb_once(n) == shake_absorb_once(SHAKE256_RATE, n)
shake256_squeezeblocks(nblocks) == shake_squeezeblocks(SHAKE256_RATE, nblocks)

-----------------------------------------------------------------------------
(***************************************************************************)
(* One call: the message of n bytes goes in, output comes out, the state   *)
(* is a local variable.                                                    *)
(***************************************************************************)
Answer(n, out) ==
  /\ phase = "absorbing" /\ message = 0
  /\ message' = n /\ phase' = "answered" /\ output' = out
  /\ UNCHANGED <<rate, suffix, s, pos>>

\* shake128 and shake256: whole blocks, then the rest of a block.
ShakeOf(r, n, outlen) ==
  LET absorbed == keccak_absorb_once(r, Input(n), SHAKE)
      whole == keccak_squeezeblocks(<< >>, outlen \div r, absorbed, r)
  IN  keccak_squeeze(whole.out, outlen % r, whole.s, r, r).out

shake128(n, outlen) ==
  /\ rate = SHAKE128_RATE /\ suffix = SHAKE
  /\ Answer(n, ShakeOf(SHAKE128_RATE, n, outlen))

shake256(n, outlen) ==
  /\ rate = SHAKE256_RATE /\ suffix = SHAKE
  /\ Answer(n, ShakeOf(SHAKE256_RATE, n, outlen))

Sha3Of(r, n, outlen) ==
  Bytes(KeccakF1600_StatePermute(keccak_absorb_once(r, Input(n), SHA3)), 0, outlen)

\* The rate of SHA3-256 is that of SHAKE256.
sha3_256(n) ==
  /\ rate = SHAKE256_RATE /\ suffix = SHA3
  /\ Answer(n, Sha3Of(SHAKE256_RATE, n, SHAKE256_RATE - 1))

sha3_512(n) ==
  /\ rate = SHA3_512_RATE /\ suffix = SHA3
  /\ Answer(n, Sha3Of(SHA3_512_RATE, n, SHA3_512_RATE - 1))

-----------------------------------------------------------------------------
(***************************************************************************)
(* fips202_cuda/thread: the last block is put together in a buffer t.      *)
(***************************************************************************)
ThreadAbsorb(r, in, sfx) ==
  LET absorbed == AbsorbBlocks(ZeroState, r, in)
      t == [i \in 1 .. r |->
              (IF i <= Len(absorbed.rest) THEN absorbed.rest[i]
               ELSE IF i = Len(absorbed.rest) + 1 THEN {sfx} ELSE {})
              \cup (IF i = r THEN {PadEnd} ELSE {})]
  IN  Xor(absorbed.s, 0, t)

\* The rest comes out of a block of its own, and only if there is one.
ThreadShakeOf(r, n, outlen) ==
  LET whole == keccak_squeezeblocks(<< >>, outlen \div r, ThreadAbsorb(r, Input(n), SHAKE), r)
      rest == keccak_squeezeblocks(<< >>, 1, whole.s, r)
  IN  IF outlen % r = 0 THEN whole.out ELSE whole.out \o SubSeq(rest.out, 1, outlen % r)

ThreadShake256(n, outlen) ==
  /\ rate = SHAKE256_RATE /\ suffix = SHAKE
  /\ Answer(n, ThreadShakeOf(SHAKE256_RATE, n, outlen))

\* The generator of the matrix takes whole blocks of SHAKE128.
ThreadShake128Blocks(n, nblocks) ==
  /\ rate = SHAKE128_RATE /\ suffix = SHAKE
  /\ Answer(n, keccak_squeezeblocks(<< >>, nblocks,
                 ThreadAbsorb(SHAKE128_RATE, Input(n), SHAKE), SHAKE128_RATE).out)

ThreadSha3Of(r, n, outlen) ==
  SubSeq(keccak_squeezeblocks(<< >>, 1, ThreadAbsorb(r, Input(n), SHA3), r).out, 1, outlen)

ThreadSha3_256(n) ==
  /\ rate = SHAKE256_RATE /\ suffix = SHA3
  /\ Answer(n, ThreadSha3Of(SHAKE256_RATE, n, SHAKE256_RATE - 1))

ThreadSha3_512(n) ==
  /\ rate = SHA3_512_RATE /\ suffix = SHA3
  /\ Answer(n, ThreadSha3Of(SHA3_512_RATE, n, SHA3_512_RATE - 1))

-----------------------------------------------------------------------------
SpongeNext ==
  \/ \E n \in 0 .. MaxIn :
       \/ shake128_absorb(n) \/ shake128_absorb_once(n)
       \/ shake256_absorb(n) \/ shake256_absorb_once(n)
       \/ sha3_256(n) \/ sha3_512(n) \/ ThreadSha3_256(n) \/ ThreadSha3_512(n)
  \/ shake128_finalize \/ shake256_finalize
  \/ \E n \in 1 .. MaxOut :
       shake128_squeeze(n) \/ shake256_squeeze(n)
  \/ \E nblocks \in 1 .. MaxOut :
       shake128_squeezeblocks(nblocks) \/ shake256_squeezeblocks(nblocks)
  \/ \E n \in 0 .. MaxIn, outlen \in 0 .. MaxOut :
       shake128(n, outlen) \/ shake256(n, outlen) \/ ThreadShake256(n, outlen)
  \/ \E n \in 0 .. MaxIn, nblocks \in 0 .. MaxOut : ThreadShake128Blocks(n, nblocks)

SpongeSpec == SpongeInit /\ [][SpongeNext]_spongeVars

-----------------------------------------------------------------------------
Promise == INSTANCE Xof WITH open <- phase = "absorbing"

\* However a message is cut into calls and the output into pieces, host and
\* thread functions deliver the bytes that FIPS 202 defines for the message.
ImplementsXof == Promise!XofSpec
=============================================================================
