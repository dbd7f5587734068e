-------------------------- MODULE RejectionKernels --------------------------
(***************************************************************************)
(* The kernels that decide on one attempt of a signature, rej_loop_128t    *)
(* and rej_loop_32t (sign.cu).  The warps of a block vote on rejection and *)
(* write the positions of the hints through shared memory.  A warp         *)
(* executes one instruction at a time; the warps overtake each other       *)
(* between barriers.  A barrier waits for the warps that have not          *)
(* returned.  Which coefficients fail a bound or need a hint is free: the  *)
(* transforms are in NttRadix2.                                            *)
(***************************************************************************)
EXTENDS HintEncoding, Sequences

CONSTANTS
  NWarps,     \* warps of a block (4)
  L,          \* DILITHIUM_L
  Attempts    \* [hints: Hints made, failed: checks and the warps that fail]

AllWarps == 0 .. NWarps - 1
BlockDim == NWarps * Lanes

\* What is checked: the z, and for every polynomial of w two bounds.
CheckNames == ({"z"} \X (0 .. L - 1)) \cup ({"s2", "t0"} \X (0 .. K - 1))

\* A block takes a polynomial in two halves.
ASSUME RejAssumption ==
  /\ NWarps \in Nat \ {0} /\ L \in Nat
  /\ N = BlockDim + BlockDim
  /\ Attempts \subseteq [hints : SUBSET Hints, failed : SUBSET (CheckNames \X AllWarps)]

VARIABLES
  kernel, attempt,
  pc,               \* the next instruction of a warp; 0: it has returned
  pos, total,       \* the local variables of each warp
  s_rej_flag, s_hint_count, s_hint_count_sum, s_hint,
  g_hint, g_done

rejVars == <<kernel, attempt, pc, pos, total, s_rej_flag, s_hint_count,
             s_hint_count_sum, s_hint, g_hint, g_done>>

-----------------------------------------------------------------------------
(* The instructions.  A check is <<"z", l>>, <<"s2", k>> or <<"t0", k>>;   *)
(* every check follows a transform, which begins with a barrier.           *)
Sync == <<"sync">>
Check128Unsynchronized(c) == <<Sync, <<"vote", c>>, <<"check">>>>
Check128(c) == <<Sync, <<"vote", c>>, Sync, <<"check">>>>

Hints128Unsynchronized(k, half) ==
  <<<<"count", k, half>>, Sync, <<"sum">>, Sync,
    <<"bound">>, <<"place", k, half>>, <<"advance">>>>
Hints128(k, half) ==
  <<<<"count", k, half>>, Sync, <<"sum">>, Sync,
    <<"bound">>, <<"place", k, half>>, Sync, <<"advance">>>>
Poly128(k) ==
  Check128(<<"s2", k>>) \o Check128(<<"t0", k>>)
  \o Hints128(k, 0) \o Hints128(k, 1) \o <<<<"last", k>>, Sync>>

\* One warp: it votes at once, and takes Lanes coefficients at a time.
Check32(c) == <<<<"vote", c>>, <<"check">>>>
Chunks == N \div Lanes
Chunk32(k) == [i \in 1 .. Chunks |-> <<"chunk", k, i - 1>>]
Poly32(k) ==
  Check32(<<"s2", k>>) \o Check32(<<"t0", k>>) \o Chunk32(k) \o <<<<"last", k>>>>

Repeat(parts, n) ==
  LET f[i \in 0 .. n] == IF i = 0 THEN << >> ELSE f[i - 1] \o parts[i - 1] IN f[n]

Programs ==
  [rej_loop_128t |->
     <<<<"init">>, Sync>>
     \o Repeat([l \in 0 .. L - 1 |-> Check128(<<"z", l>>)], L)
     \o Repeat([k \in 0 .. K - 1 |-> Poly128(k)], K) \o <<<<"copy">>, <<"done">>>>,
   rej_loop_32t |->
     <<<<"init">>>>
     \o Repeat([l \in 0 .. L - 1 |-> Check32(<<"z", l>>)], L)
     \o Repeat([k \in 0 .. K - 1 |-> Poly32(k)], K) \o <<<<"copy">>, <<"done">>>>]

program == Programs[kernel]
Warps == IF kernel = "rej_loop_32t" THEN {0} ELSE AllWarps
Returned == 0
Ended(w) == pc[w] = Returned \/ pc[w] > Len(program)

-----------------------------------------------------------------------------
RejInit ==
  /\ kernel \in DOMAIN Programs
  /\ attempt \in Attempts
  /\ pc = [w \in Warps |-> 1]
  /\ pos = [w \in Warps |-> 0] /\ total = [w \in Warps |-> 0]
  /\ s_rej_flag \in BOOLEAN /\ s_hint_count_sum = 0   \* uninitialized
  /\ s_hint_count = [w \in Warps |-> 0]
  /\ s_hint = [i \in HintBytes |-> -1]
  /\ g_hint = [i \in HintBytes |-> -1]
  /\ g_done = FALSE

Executes(w, op) ==
  /\ ~Ended(w)
  /\ program[pc[w]][1] = op
  /\ UNCHANGED <<kernel, attempt>>
Operand(w, i) == program[pc[w]][i]
Continue(w) == pc' = [pc EXCEPT ![w] = @ + 1]
Return(w) == pc' = [pc EXCEPT ![w] = Returned]

\* The bytes of the hint buffer that the threads of w clear and copy.
Bytes(w) ==
  {i \in HintBytes : (i % (Lanes * Cardinality(Warps))) \div Lanes = w}

Initializes(w) ==
  /\ Executes(w, "init") /\ Continue(w)
  /\ s_rej_flag' = (w # 0 /\ s_rej_flag)
  /\ s_hint' = [i \in HintBytes |-> IF i \in Bytes(w) THEN 0 ELSE s_hint[i]]
  /\ UNCHANGED <<pos, total, s_hint_count, s_hint_count_sum, g_hint, g_done>>

Synchronizes(w) ==
  /\ Executes(w, "sync") /\ Continue(w)
  /\ \A v \in Warps : pc[v] = Returned \/ pc[v] >= pc[w]
  /\ UNCHANGED <<pos, total, s_rej_flag, s_hint_count, s_hint_count_sum, s_hint, g_hint, g_done>>

\* Among the coefficients of warp w one fails check c; a single warp has all.
Fails(w, c) ==
  \E part \in AllWarps : <<c, part>> \in attempt.failed /\ (part = w \/ Warps = {0})

Votes(w) ==
  /\ Executes(w, "vote") /\ Continue(w)
  /\ s_rej_flag' = (s_rej_flag \/ Fails(w, Operand(w, 2)))
  /\ UNCHANGED <<pos, total, s_hint_count, s_hint_count_sum, s_hint, g_hint, g_done>>

Checks(w) ==
  /\ Executes(w, "check")
  /\ IF ~s_rej_flag THEN Continue(w) ELSE Return(w)
  /\ UNCHANGED <<pos, total, s_rej_flag, s_hint_count, s_hint_count_sum, s_hint, g_hint, g_done>>

\* The hints of thread t of the block in one half of polynomial k.
Hint(k, p) == <<k, p>> \in attempt.hints
InWarp(k, half, w) ==
  {t \in w * Lanes .. w * Lanes + Lanes - 1 : Hint(k, half * BlockDim + t)}

Counts(w) ==
  /\ Executes(w, "count") /\ Continue(w)
  /\ s_hint_count' =
       [s_hint_count EXCEPT ![w] = Cardinality(InWarp(Operand(w, 2), Operand(w, 3), w))]
  /\ UNCHANGED <<pos, total, s_rej_flag, s_hint_count_sum, s_hint, g_hint, g_done>>

\* What the first n warps counted.
Counted(n) ==
  LET sum[v \in 0 .. n] == IF v = 0 THEN 0 ELSE sum[v - 1] + s_hint_count[v - 1]
  IN  sum[n]

Sums(w) ==
  /\ Executes(w, "sum") /\ Continue(w)
  /\ s_hint_count_sum' =
       IF w = 0 THEN Counted(NWarps) ELSE s_hint_count_sum
  /\ UNCHANGED <<pos, total, s_rej_flag, s_hint_count, s_hint, g_hint, g_done>>

Bounds(w) ==
  /\ Executes(w, "bound")
  /\ total' = [total EXCEPT ![w] = s_hint_count_sum]
  /\ IF pos[w] + s_hint_count_sum > OMEGA THEN Return(w) ELSE Continue(w)
  /\ UNCHANGED <<pos, s_rej_flag, s_hint_count, s_hint_count_sum, s_hint, g_hint, g_done>>

\* A thread with a hint writes its position behind those of the threads below.
Places(w) ==
  /\ Executes(w, "place") /\ Continue(w)
  /\ LET k == Operand(w, 2)
         half == Operand(w, 3)
         mine == InWarp(k, half, w)
         inclusive(t) == Counted(w) + Cardinality({u \in mine : u <= t})
     IN  s_hint' = [i \in HintBytes |->
           IF \E t \in mine : i = pos[w] + inclusive(t) - 1
           THEN half * BlockDim + (CHOOSE t \in mine : i = pos[w] + inclusive(t) - 1)
           ELSE s_hint[i]]
  /\ UNCHANGED <<pos, total, s_rej_flag, s_hint_count, s_hint_count_sum, g_hint, g_done>>

Advances(w) ==
  /\ Executes(w, "advance") /\ Continue(w)
  /\ pos' = [pos EXCEPT ![w] = @ + total[w]]
  /\ UNCHANGED <<total, s_rej_flag, s_hint_count, s_hint_count_sum, s_hint, g_hint, g_done>>

\* rej_loop_32t: some thread of the warp would write beyond OMEGA, or none.
Chunk(w) ==
  /\ Executes(w, "chunk")
  /\ LET at(t) == Lanes * Operand(w, 3) + t
         mine == {t \in 0 .. Lanes - 1 : Hint(Operand(w, 2), at(t))}
         inclusive(t) == Cardinality({u \in mine : u <= t})
     IN  IF \E t \in 0 .. Lanes - 1 : pos[w] + inclusive(t) > OMEGA
         THEN Return(w) /\ UNCHANGED <<pos, total, s_hint>>
         ELSE /\ Continue(w)
              /\ pos' = [pos EXCEPT ![w] = @ + Cardinality(mine)]
              /\ s_hint' = [i \in HintBytes |->
                   IF \E t \in mine : i = pos[w] + inclusive(t) - 1
                   THEN at(CHOOSE t \in mine : i = pos[w] + inclusive(t) - 1)
                   ELSE s_hint[i]]
  /\ UNCHANGED <<total, s_rej_flag, s_hint_count, s_hint_count_sum, g_hint, g_done>>

SetsLast(w) ==
  /\ Executes(w, "last") /\ Continue(w)
  /\ s_hint' = IF w = 0 THEN [s_hint EXCEPT ![OMEGA + Operand(w, 2)] = pos[w]] ELSE s_hint
  /\ UNCHANGED <<pos, total, s_rej_flag, s_hint_count, s_hint_count_sum, g_hint, g_done>>

Copies(w) ==
  /\ Executes(w, "copy") /\ Continue(w)
  /\ g_hint' = [i \in HintBytes |-> IF i \in Bytes(w) THEN s_hint[i] ELSE g_hint[i]]
  /\ UNCHANGED <<pos, total, s_rej_flag, s_hint_count, s_hint_count_sum, s_hint, g_done>>

SetsDone(w) ==
  /\ Executes(w, "done") /\ Continue(w)
  /\ g_done' = (g_done \/ w = 0)
  /\ UNCHANGED <<pos, total, s_rej_flag, s_hint_count, s_hint_count_sum, s_hint, g_hint>>

RejNext ==
  \E w \in Warps :
    \/ Initializes(w) \/ Synchronizes(w) \/ Votes(w) \/ Checks(w) \/ Counts(w)
    \/ Sums(w) \/ Bounds(w) \/ Places(w) \/ Advances(w) \/ Chunk(w)
    \/ SetsLast(w) \/ Copies(w) \/ SetsDone(w)

RejSpec == RejInit /\ [][RejNext]_rejVars

-----------------------------------------------------------------------------
KernelEnded == \A w \in Warps : Ended(w)

\* When the kernel has ended, the attempt counts as done exactly when no
\* coefficient of any warp failed a check and there are at most OMEGA hints,
\* with either kernel and however the warps overtake each other; and then the
\* hints are packed as FIPS 204 prescribes and the verifier reads back the
\* hints that were made.
DecidesAttempt ==
  KernelEnded =>
    /\ g_done = (attempt.failed = {} /\ Cardinality(attempt.hints) <= OMEGA)
    /\ g_done => /\ g_hint = HintBitPack(attempt.hints)
                 /\ HintsAccepted(g_hint) /\ HintsOf(g_hint) = attempt.hints

\* The warps of a block leave the kernel together: none returns because of a
\* rejection that another warp does not see before it goes on to the end.
AllOrNone ==
  \A v, w \in Warps : pc[v] = Returned => pc[w] <= Len(program)
=============================================================================
