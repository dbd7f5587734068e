----------------------------- MODULE HostProofs -----------------------------
(***************************************************************************)
(* The programs around the kernels.                                        *)
(*                                                                         *)
(* Every call of the public interface leaves behind what it must, whatever *)
(* allocation or kernel fails: what a step takes is in the list that the   *)
(* clean-up of the call goes through.                                      *)
(*                                                                         *)
(* The batches that a benchmark tries fit its array, and it recommends one *)
(* that no measured batch outdoes; for every device and maximum.           *)
(*                                                                         *)
(* The programs of the command line hand keys, ciphertexts and signatures  *)
(* to each other through files of digits.  The invariant says that files   *)
(* which are intact come from one run of the key program, whatever is      *)
(* interrupted or overwritten between.                                     *)
(*                                                                         *)
(* The pools of Dilithium are large enough and told apart for every length *)
(* of a message and every alignment of rows.  A layout is a concatenation  *)
(* of pieces; a piece lies in order between two offsets, and so does a     *)
(* concatenation of pieces that meet.  The parameters are those of the     *)
(* three modes.                                                            *)
(*                                                                         *)
(* Batch verification and key generation of Dilithium answer what they     *)
(* have done, for every batch.  The invariant says, for each item and each *)
(* operation that is done, what is in the item's row; the stream holds the *)
(* operations that are issued and not done, in their order.                *)
(*                                                                         *)
(* The tuner of the signing kernels times the launches of the stage it is  *)
(* tuning and no others, and ends with the fastest variants; for every     *)
(* number of stages, variants, runs and rounds, and all durations.         *)
(***************************************************************************)
EXTENDS CallResources, BenchmarkSearch, KeyFiles, PoolLayout, DilithiumCalls, SignTuner,
        Induction, WellFoundedInduction

(***************************************************************************)
(* The resources of a call.                                                *)
(***************************************************************************)
\* Steps that take nothing but what names has.
Taking(names) == ({"get", "try"} \X names) \cup {Check, Work, Synchronize}

LEMMA TakingLemma ==
  ASSUME NEW names, NEW r \in names
  PROVE  {Get(r), Try(r), Check, Work, Synchronize} \subseteq Taking(names)
  BY DEF Taking, Get, Try, Check, Work, Synchronize

\* What a call takes is in its clean-up list.
LEMMA StepsCovered == \A e \in DOMAIN Steps : Steps[e] \in Seq(Taking(Frees[e]))
<1>1. ASSUME NEW names, TableFrees \subseteq names
      PROVE  TableSteps \in Seq(Taking(names))
  BY <1>1, TakingLemma DEF TableSteps, TableFrees
<1>2. ASSUME NEW names, Context \subseteq names
      PROVE  ContextSteps \in Seq(Taking(names))
  BY <1>2, TakingLemma DEF ContextSteps, Context
<1>3. ASSUME NEW names, TableFrees \cup {"sign_pool", "temp_pool"} \subseteq names
      PROVE  SignSteps \in Seq(Taking(names))
  BY <1>3, <1>1, TakingLemma DEF SignSteps
<1>4. DOMAIN Steps = {"keypair", "verify", "sign", "sign_verify"} \cup KyberCalls
  BY DEF Steps, KyberCalls
<1>5. /\ Steps["keypair"] \in Seq(Taking(Frees["keypair"]))
      /\ Steps["verify"] \in Seq(Taking(Frees["verify"]))
  BY TakingLemma DEF Steps, Frees
<1>6. Steps["sign"] \in Seq(Taking(Frees["sign"]))
  BY <1>3 DEF Steps, Frees
<1>7. Steps["sign_verify"] \in Seq(Taking(Frees["sign_verify"]))
  <2>1. {"keypair_pool", "verify_pool"} \cup TableFrees \cup {"sign_pool", "temp_pool"}
           \subseteq Frees["sign_verify"]
    BY DEF Frees
  <2>2. SignSteps \in Seq(Taking(Frees["sign_verify"]))
    BY <2>1, <1>3
  <2> QED BY <2>1, <2>2, TakingLemma DEF Steps
<1>8. ASSUME NEW e \in KyberCalls
      PROVE  Steps[e] \in Seq(Taking(Frees[e]))
  <2>1. Context \subseteq Frees[e]
    BY DEF KyberCalls, Frees
  <2>2. ContextSteps \in Seq(Taking(Frees[e]))
    BY <2>1, <1>2
  <2>3. CASE e = "cpa_keypair"
    <3>1. {"d_pk", "d_sk", "d_random"} \subseteq Frees[e]
      BY <2>3 DEF Frees
    <3> QED BY <2>2, <2>3, <3>1, TakingLemma DEF Steps
  <2>4. CASE e = "cpa_encrypt"
    <3>1. {"d_ct", "d_message", "d_pk", "d_coins"} \subseteq Frees[e]
      BY <2>4 DEF Frees
    <3> QED BY <2>2, <2>4, <3>1, TakingLemma DEF Steps
  <2>5. CASE e = "cpa_decrypt"
    <3>1. {"d_message", "d_ct", "d_sk"} \subseteq Frees[e]
      BY <2>5 DEF Frees
    <3> QED BY <2>2, <2>5, <3>1, TakingLemma DEF Steps
  <2> QED BY <2>3, <2>4, <2>5 DEF KyberCalls
<1> QED BY <1>4, <1>5, <1>6, <1>7, <1>8

\* A running call holds nothing that is missing in its clean-up list.
ResourceInv ==
  /\ entry # Idle =>
       entry \in DOMAIN Steps /\ step \in Nat \ {0} /\ mine \subseteq Frees[entry]
  /\ CallsCleanUp

\* A Dilithium call frees everything it has allocated wherever it fails, and a
\* Kyber call everything unless it returned early, for any number of calls.
THEOREM CallsCleanUpTheorem == ResourceSpec => []CallsCleanUp
<1>1. ResourceInit => ResourceInv
  BY DEF ResourceInit, ResourceInv, CallsCleanUp
<1>2. ResourceInv /\ [ResourceNext]_resourceVars => ResourceInv'
  <2> SUFFICES ASSUME ResourceInv, [ResourceNext]_resourceVars PROVE ResourceInv'
    OBVIOUS
  <2>1. CASE Begins
    BY <2>1 DEF Begins, ResourceInv, CallsCleanUp
  <2>2. CASE Gets
    <3>1. entry # Idle /\ step \in 1 .. Len(Steps[entry]) /\ Now[1] \in {"get", "try"}
      BY <2>2, StepsCovered DEF Gets, InStep, ResourceInv
    <3>2. Now[2] \in Frees[entry]
      <4>1. Now \in Taking(Frees[entry])
        BY <3>1, StepsCovered DEF Now, ResourceInv
      <4>2. Check[1] = "check" /\ Work[1] = "work" /\ Synchronize[1] = "sync"
        BY DEF Check, Work, Synchronize
      <4>3. Now \in {"get", "try"} \X Frees[entry]
        BY <4>1, <4>2, <3>1 DEF Taking
      <4> QED BY <4>3
    <3> QED BY <2>2, <3>1, <3>2 DEF Gets, Continues, ResourceInv, CallsCleanUp
  <2>3. CASE TryFails
    BY <2>3 DEF TryFails, Continues, InStep, ResourceInv, CallsCleanUp
  <2>4. CASE Works
    BY <2>4 DEF Works, Continues, InStep, ResourceInv, CallsCleanUp
  <2>5. ASSUME entry # Idle, Ends(FreesEarly(entry), TRUE)
        PROVE  ResourceInv'
    <3>1. CASE entry \in KyberCalls
      BY <2>5, <3>1 DEF Ends, ResourceInv, CallsCleanUp
    <3>2. CASE entry \notin KyberCalls
      <4>1. mine \ FreesEarly(entry) = {}
        BY <2>5, <3>2 DEF FreesEarly, ResourceInv
      <4> QED BY <2>5, <4>1 DEF Ends, ResourceInv, CallsCleanUp
    <3> QED BY <3>1, <3>2
  <2>6. CASE Checks
    <3>1. CASE valid
      BY <2>6, <3>1 DEF Checks, Continues, InStep, ResourceInv, CallsCleanUp
    <3>2. CASE ~valid
      BY <2>6, <3>2, <2>5 DEF Checks, InStep
    <3> QED BY <3>1, <3>2
  <2>7. CASE StepFails
    BY <2>7, <2>5 DEF StepFails, InStep
  <2>8. CASE Returns
    <3>1. mine \ Frees[entry] = {}
      BY <2>8 DEF Returns, ResourceInv
    <3> QED BY <2>8, <3>1 DEF Returns, Ends, ResourceInv, CallsCleanUp
  <2>9. CASE UNCHANGED resourceVars
    BY <2>9 DEF resourceVars, ResourceInv, CallsCleanUp
  <2> QED BY <2>1, <2>2, <2>3, <2>4, <2>6, <2>7, <2>8, <2>9 DEF ResourceNext
<1>3. ResourceInv => CallsCleanUp
  BY DEF ResourceInv
<1> QED BY <1>1, <1>2, <1>3, PTL DEF ResourceSpec

(***************************************************************************)
(* The search of a benchmark.                                              *)
(***************************************************************************)
LEMMA MaxLemma ==
  ASSUME NEW T, T \subseteq Nat, T # {}, \E b \in Nat : \A x \in T : x <= b
  PROVE  Max(T) \in T /\ \A y \in T : Max(T) >= y
<1>1. \E x \in T : \A y \in T : x >= y
  BY GreatestNatural
<1> QED BY <1>1 DEF Max

\* The group of a device: a power of two, small enough for steps of 2000.
LEMMA GroupLemma ==
  ASSUME NEW m \in Nat \ {0}, grouping \in {4, 32}
  PROVE  Group(m) \in 1 .. 32 /\ (m <= 2000 => m * Group(m) <= 2000)
<1> DEFINE halves == {grouping \div k : k \in {1, 2, 4, 8, 16, 32}} \ {0}
           G == {g \in halves : g = 1 \/ m <= 2000 \div g}
<1>1. halves \subseteq {1, 2, 4, 8, 16, 32} /\ 1 \in halves
  <2>1. CASE grouping = 32
    <3>1. /\ grouping \div 1 = 32 /\ grouping \div 2 = 16 /\ grouping \div 4 = 8
          /\ grouping \div 8 = 4 /\ grouping \div 16 = 2 /\ grouping \div 32 = 1
      BY <2>1
    <3> QED BY <3>1
  <2>2. CASE grouping = 4
    <3>1. /\ grouping \div 1 = 4 /\ grouping \div 2 = 2 /\ grouping \div 4 = 1
          /\ grouping \div 8 = 0 /\ grouping \div 16 = 0 /\ grouping \div 32 = 0
      BY <2>2
    <3> QED BY <3>1
  <2> QED BY <2>1, <2>2
<1>2. G \subseteq Nat /\ G # {} /\ \A x \in G : x <= 32
  BY <1>1
<1>3. Max(G) \in G
  <2> HIDE DEF G
  <2> QED BY <1>2, MaxLemma
<1>4. Group(m) = Max(G)
  BY DEF Group
<1>5. ASSUME NEW g \in {1, 2, 4, 8, 16, 32}, m <= 2000 \div g
      PROVE  m * g <= 2000
  BY <1>5
<1> QED BY <1>1, <1>3, <1>4, <1>5

\* A stride is at least 751, and at most 2000 if the unit is.
LEMMA StepLemma ==
  ASSUME NEW m \in Nat \ {0}, grouping \in {4, 32}
  PROVE  /\ pqcuda_workload_step(m) \in Nat /\ pqcuda_workload_step(m) >= 751
         /\ m <= 2000 => pqcuda_workload_step(m) <= 2000
<1> DEFINE unit == m * Group(m)
           q == 1500 \div unit
           r == 1500 % unit
           rounded == IF r >= (unit \div 2) + (unit % 2) THEN 1 ELSE 0
           times == Max({1, q + rounded})
<1>1. unit \in Nat \ {0} /\ (m <= 2000 => unit <= 2000)
  BY GroupLemma
<1>2. pqcuda_workload_step(m) = unit * times
  BY DEF pqcuda_workload_step
<1> HIDE DEF unit
<1>3. q \in Nat /\ r \in 0 .. unit - 1 /\ 1500 = unit * q + r
  BY <1>1
<1>4. times = IF q + rounded >= 1 THEN q + rounded ELSE 1
  <2> DEFINE pair == {1, q + rounded}
  <2>1. pair \subseteq Nat /\ pair # {} 
    BY <1>3
  <2>3. \E b \in Nat : \A x \in pair : x <= b
    <3>1. 1 + q + rounded \in Nat
      BY <1>3
    <3> QED BY <3>1, <1>3
  <2>2. Max(pair) \in pair /\ \A y \in pair : Max(pair) >= y
    <3> HIDE DEF pair
    <3> QED BY <2>1, <2>3, MaxLemma
  <2> QED BY <2>2, <1>3
<1> HIDE DEF q, r, times
<1>5. CASE unit > 1500
  <2>1. q = 0
    <3>1. q >= 1 => unit * q >= unit
      BY <1>1, <1>3
    <3> QED BY <3>1, <1>3, <1>5, <1>1
  <2>2. times = 1
    BY <2>1, <1>4
  <2> QED BY <2>2, <1>1, <1>2, <1>5
<1>6. CASE unit <= 1500
  <2>1. q >= 1
    <3>1. q = 0 => unit * q = 0
      BY <1>1
    <3> QED BY <3>1, <1>3, <1>6, <1>1
  <2>2. CASE rounded = 1
    <3>1. unit * times = unit * q + unit
      BY <2>1, <2>2, <1>1, <1>3, <1>4
    <3>2. unit * times = 1500 - r + unit /\ 2 * r >= unit
      BY <3>1, <1>3, <1>1, <2>2
    <3>3. unit <= 1000
      <4>1. unit * q >= unit
        BY <2>1, <1>1, <1>3
      <4> QED BY <4>1, <3>2, <1>1, <1>3
    <3> QED BY <3>2, <3>3, <1>1, <1>2, <1>3
  <2>3. CASE rounded = 0
    <3>1. unit * times = 1500 - r
      BY <2>1, <2>3, <1>1, <1>3, <1>4
    <3>2. 2 * r < unit + 1
      BY <2>3, <1>1, <1>3
    <3> QED BY <3>1, <3>2, <1>1, <1>2, <1>3, <1>6
  <2> QED BY <2>2, <2>3
<1> QED BY <1>5, <1>6, <1>1

LEMMA QuotientLemma ==
  ASSUME NEW x \in Nat, NEW d \in Nat \ {0}
  PROVE  /\ x \div d \in Nat
         /\ (x \div d) * d <= x /\ x < (x \div d) * d + d
<1> DEFINE q == x \div d
           r == x % d
<1>1. q \in Nat /\ r \in 0 .. d - 1 /\ x = d * q + r
  OBVIOUS
<1>2. q * d = d * q
  BY <1>1
<1> HIDE DEF q, r
<1> QED BY <1>1, <1>2 DEF q

LEMMA ProductGrows ==
  ASSUME NEW x \in Nat, NEW y \in Nat, x >= y, NEW k \in Nat
  PROVE  k * x >= k * y
<1>1. x - y \in Nat /\ k * (x - y) \in Nat
  OBVIOUS
<1>2. k * (x - y) = k * x - k * y
  OBVIOUS
<1>3. k * x \in Nat /\ k * y \in Nat
  OBVIOUS
<1> QED BY <1>1, <1>2, <1>3

\* The elements of two sequences and a last element put together.
LEMMA JoinLemma ==
  ASSUME NEW S, NEW f \in Seq(S), NEW g \in Seq(S), NEW x \in S, NEW all, all = f \o g \o <<x>>
  PROVE  /\ all \in Seq(S) /\ Len(all) = Len(f) + Len(g) + 1
         /\ \A i \in 1 .. Len(f) : all[i] = f[i]
         /\ \A i \in 1 .. Len(g) : all[Len(f) + i] = g[i]
         /\ all[Len(f) + Len(g) + 1] = x
<1> DEFINE front == f \o g
<1>1. front \in Seq(S) /\ Len(front) = Len(f) + Len(g)
  OBVIOUS
<1>2. \A i \in 1 .. Len(f) : front[i] = f[i]
  OBVIOUS
<1>3. \A i \in 1 .. Len(g) : front[Len(f) + i] = g[i]
  OBVIOUS
<1>4. all = front \o <<x>>
  OBVIOUS
<1>5. Len(f) \in Nat /\ Len(g) \in Nat
  OBVIOUS
<1> HIDE DEF front
<1> QED BY <1>1, <1>2, <1>3, <1>4, <1>5

\* How many of the small batches are below the maximum.
LEMMA SmallLemma ==
  ASSUME NEW top \in Nat \ {0}, NEW below, below = {0} \cup {i \in 1 .. 4 : small[i] < top},
         NEW n, n = Max(below)
  PROVE  n \in 0 .. 4 /\ \A i \in 1 .. 4 : i <= n <=> small[i] < top
<1>1. below \subseteq 0 .. 4 /\ below # {}
  OBVIOUS
<1>2. \A i \in 1 .. 4 : i \in below <=> small[i] < top
  OBVIOUS
<1>3. n \in below /\ \A y \in below : n >= y
  <2>1. below \subseteq Nat /\ below # {} /\ \E b \in Nat : \A x \in below : x <= b
    <3>1. \A x \in below : x \in Nat /\ x <= 4
      BY <1>1
    <3>2. 4 \in Nat
      OBVIOUS
    <3> QED BY ONLY <3>1, <3>2, <1>1
  <2>2. Max(below) \in below /\ \A y \in below : Max(below) >= y
    BY ONLY <2>1, MaxLemma
  <2> QED BY <2>2
<1>4. \A i, j \in 1 .. 4 : i <= j => small[i] <= small[j]
  BY DEF small
<1>5. \A i \in 1 .. 4 : small[i] \in Nat
  BY DEF small
<1>6. n \in 0 .. 4
  BY <1>1, <1>3
<1>7. ASSUME NEW i \in 1 .. 4, i <= n PROVE small[i] < top
  <2>1. n \in 1 .. 4 /\ small[n] < top
    BY <1>7, <1>2, <1>3, <1>6
  <2> QED BY <2>1, <1>4, <1>5, <1>7
<1>8. ASSUME NEW i \in 1 .. 4, small[i] < top PROVE i <= n
  BY <1>8, <1>2, <1>3, <1>6
<1> QED BY <1>6, <1>7, <1>8

WellSpaced(w, m, top) ==
  /\ w \in Seq(Nat \ {0})
  /\ Len(w) \in 1 .. MAX_WORKLOADS
  /\ w[1] = 1 /\ w[Len(w)] = top
  /\ \A i \in 1 .. Len(w) - 1 :
       w[i] < w[i + 1] /\ (m <= 2000 => w[i + 1] - w[i] <= 2000)

\* The batches of a device fit the array, grow, and end with the maximum.
LEMMA CandidatesLemma ==
  ASSUME NEW m \in Nat \ {0}, grouping \in {4, 32}, NEW top \in Nat \ {0}, top <= LargestBatch,
         NEW w, w = pqcuda_workload_candidates(m, top)
  PROVE  WellSpaced(w, m, top)
<1> DEFINE stride == pqcuda_workload_step(m)
           a == (top - 1) \div stride
           below == {0} \cup {i \in 1 .. 4 : small[i] < top}
           n == Max(below)
           all == FirstSmall(n) \o Aligned(top, stride) \o <<top>>
<1>1. stride \in Nat /\ stride >= 751 /\ (m <= 2000 => stride <= 2000)
  BY StepLemma
<1> HIDE DEF stride
<1>2. a \in Nat /\ a * stride <= top - 1 /\ top - 1 < a * stride + stride
  <2>1. top - 1 \in Nat /\ stride \in Nat \ {0}
    BY <1>1
  <2> QED BY <2>1, QuotientLemma
<1> HIDE DEF a, below, n, all
<1>0. top \in Nat /\ top >= 1
  OBVIOUS
<1>3. a <= 43
  <2>1. a * stride >= a * 751
    BY <1>1, <1>2, ProductGrows
  <2>2. a * stride \in Int /\ a * stride <= 32767
    <3>1. \A u, v, x \in Int : u \in Int /\ (u <= x - 1 /\ x <= 32768 => u <= 32767)
      OBVIOUS
    <3>2. a * stride \in Int
      BY <1>1, <1>2
    <3> QED BY <3>1, <3>2, <1>0, <1>2 DEF LargestBatch
  <2> QED BY <2>1, <2>2, <1>2
<1>4. a # 0 => top - 1 >= stride
  <2>1. a >= 1 => a * stride >= stride
    BY <1>1, <1>2
  <2> QED BY <2>1, <1>1, <1>2
<1>5. n \in 0 .. 4 /\ \A i \in 1 .. 4 : i <= n <=> small[i] < top
  <2>1. n = Max(below) /\ below = {0} \cup {i \in 1 .. 4 : small[i] < top} /\ top \in Nat \ {0}
    BY Zenon DEF n, below
  <2> QED BY ONLY <2>1, SmallLemma, Zenon
<1> DEFINE S == Nat \ {0}
<1>s. top \in S /\ (\A x : x \in S <=> x \in Nat /\ x # 0)
  OBVIOUS
<1>6. /\ FirstSmall(n) \in Seq(S) /\ Len(FirstSmall(n)) = n
      /\ \A i \in 1 .. n : FirstSmall(n)[i] = small[i]
  <2>1. \A i \in 1 .. 4 : small[i] \in S
    BY DEF small
  <2>2. small \in Seq(S) /\ Len(small) = 4
    BY DEF small
  <2>3. \A i \in 1 .. n : i \in 1 .. 4 /\ i + 1 - 1 = i
    BY <1>5
  <2>4. FirstSmall(n) = [i \in 1 .. n |-> small[i]]
    BY <2>2, <1>5 DEF FirstSmall
  <2> HIDE DEF S
  <2>5. \A i \in 1 .. n : small[i] \in S
    BY <2>1, <2>3
  <2> QED BY <2>4, <2>5, <1>5
<1>7. /\ Aligned(top, stride) \in Seq(S) /\ Len(Aligned(top, stride)) = a
      /\ \A i \in 1 .. a : Aligned(top, stride)[i] = i * stride
  <2>1. Aligned(top, stride) = [i \in 1 .. a |-> i * stride]
    BY DEF Aligned, a
  <2>2. \A i \in 1 .. a : i * stride \in S
    BY <1>1, <1>2
  <2> HIDE DEF S
  <2> QED BY <2>1, <2>2, <1>2
<1>8. /\ all \in Seq(S) /\ Len(all) = n + a + 1
      /\ \A i \in 1 .. n : all[i] = small[i]
      /\ \A i \in 1 .. a : all[n + i] = i * stride
      /\ all[n + a + 1] = top
  <2> HIDE DEF S
  <2>1. all = FirstSmall(n) \o Aligned(top, stride) \o <<top>>
    BY DEF all
  <2>2. PICK f \in Seq(S), g \in Seq(S) :
          /\ Len(f) = n /\ Len(g) = a /\ all = f \o g \o <<top>>
          /\ \A i \in 1 .. n : f[i] = small[i]
          /\ \A i \in 1 .. a : g[i] = i * stride
    BY ONLY <2>1, <1>6, <1>7, Zenon
  <2>3. /\ all \in Seq(S) /\ Len(all) = Len(f) + Len(g) + 1
        /\ \A i \in 1 .. Len(f) : all[i] = f[i]
        /\ \A i \in 1 .. Len(g) : all[Len(f) + i] = g[i]
        /\ all[Len(f) + Len(g) + 1] = top
    <3>1. all = f \o g \o <<top>>
      BY <2>2
    <3>2. f \in Seq(S) /\ g \in Seq(S)
      OBVIOUS
    <3> QED BY ONLY <3>1, <3>2, <1>s, JoinLemma
  <2> QED BY ONLY <2>2, <2>3
<1> HIDE DEF S
<1>9. w = all
  <2>1. Len(all) <= 48
    BY <1>8, <1>3, <1>2, <1>5
  <2>2. Len(all) <= MAX_WORKLOADS
    <3>1. MAX_WORKLOADS \in Nat /\ MAX_WORKLOADS >= 64
      BY SearchAssumption
    <3>2. Len(all) \in Nat
      BY <1>8, <1>2, <1>5
    <3>3. \A x, y \in Nat : x <= 48 /\ y >= 64 => x <= y
      OBVIOUS
    <3> DEFINE l == Len(all)
    <3>4. l \in Nat /\ l <= 48
      BY <2>1, <3>2
    <3>5. l <= MAX_WORKLOADS
      <4> HIDE DEF l
      <4> QED BY <3>1, <3>4
    <3> QED BY <3>5
  <2>3. pqcuda_workload_candidates(m, top) =
          IF Len(all) <= MAX_WORKLOADS THEN all ELSE << >>
    BY Zenon DEF pqcuda_workload_candidates, all, stride, n, below
  <2> QED BY <2>2, <2>3
<1>10. a # 0 => n = 4
  <2>1. small[4] = 512
    BY DEF small
  <2> QED BY <2>1, <1>1, <1>4, <1>5
<1>11. /\ \A i \in 1 .. 4 : small[i] \in Nat \ {0} /\ small[i] <= 512
       /\ \A i \in 1 .. 3 : small[i] < small[i + 1]
       /\ small[1] = 1
  BY DEF small
<1>12. ASSUME NEW i \in 1 .. n + a
       PROVE  w[i] < w[i + 1] /\ (m <= 2000 => w[i + 1] - w[i] <= 2000)
  <2>1. CASE i < n
    <3>1. i \in 1 .. 3 /\ i \in 1 .. n /\ i + 1 \in 1 .. n /\ i + 1 \in 1 .. 4 /\ i \in 1 .. 4
      BY <2>1, <1>5, <1>2
    <3>2. w[i] = small[i] /\ w[i + 1] = small[i + 1]
      BY <3>1, <1>8, <1>9
    <3>3. /\ small[i] \in Nat /\ small[i + 1] \in Nat /\ small[i] < small[i + 1]
          /\ small[i] >= 0 /\ small[i + 1] <= 512
      BY <3>1, <1>11
    <3> QED BY <3>2, <3>3
  <2>2. CASE i = n /\ a # 0
    <3>1. w[i + 1] = 1 * stride
      BY <2>2, <1>2, <1>8, <1>9
    <3> QED BY <2>2, <3>1, <1>1, <1>5, <1>8, <1>9, <1>10, <1>11
  <2>3. CASE i = n /\ a = 0
    <3>1. w[i] = small[i] /\ w[i + 1] = top /\ small[i] < top
      BY <2>3, <1>5, <1>8, <1>9
    <3>2. CASE i = 4
      BY <2>3, <3>1, <3>2, <1>1, <1>2, <1>11
    <3>3. CASE i # 4
      <4>1. i + 1 \in 1 .. 4 /\ ~(small[i + 1] < top)
        BY <2>3, <3>3, <1>5
      <4> QED BY <3>1, <4>1, <2>3, <1>5, <1>11
    <3> QED BY <3>2, <3>3
  <2>4. CASE i > n /\ i < n + a
    <3>1. w[i] = (i - n) * stride /\ w[i + 1] = (i - n + 1) * stride
      <4>1. i - n \in 1 .. a /\ i - n + 1 \in 1 .. a /\ n + (i - n) = i /\ n + (i - n + 1) = i + 1
        BY <2>4, <1>2, <1>5
      <4> QED BY <4>1, <1>8, <1>9
    <3>2. w[i + 1] = w[i] + stride
      BY <3>1, <1>1, <1>5
    <3>3. w[i] \in Int
      BY <3>1, <1>1, <1>5
    <3> QED BY <3>2, <3>3, <1>1
  <2>5. CASE i = n + a /\ a # 0
    <3>1. w[i] = a * stride /\ w[i + 1] = top
      BY <2>5, <1>2, <1>8, <1>9
    <3> QED BY <3>1, <1>1, <1>2
  <2> QED BY <2>1, <2>2, <2>3, <2>4, <2>5, <1>2, <1>5
<1>13. w[1] = 1
  <2>1. CASE n = 0
    <3>1. a = 0
      BY <2>1, <1>10
    <3>2. top = 1
      <4>1. ~(small[1] < top) /\ small[1] = 1
        BY <2>1, <1>5, <1>11
      <4>2. ~(1 < top)
        BY <4>1
      <4> QED BY <4>2, <1>0
    <3> QED BY <2>1, <3>1, <3>2, <1>8, <1>9
  <2>2. CASE n # 0
    BY <2>2, <1>5, <1>8, <1>9, <1>11
  <2> QED BY <2>1, <2>2
<1>14. Len(w) \in 1 .. MAX_WORKLOADS
  <2>1. Len(w) \in 1 .. 48
    <3>1. Len(w) = n + a + 1
      BY <1>8, <1>9
    <3> QED BY <3>1, <1>3, <1>2, <1>5
  <2>2. MAX_WORKLOADS \in Nat /\ MAX_WORKLOADS >= 64
    BY SearchAssumption
  <2> DEFINE l == Len(w)
  <2>4. l \in 1 .. 48
    BY <2>1
  <2>5. l \in 1 .. MAX_WORKLOADS
    <3> HIDE DEF l
    <3> QED BY <2>2, <2>4
  <2> QED BY <2>5
<1>15. w \in Seq(Nat \ {0}) /\ Len(w) = n + a + 1 /\ w[Len(w)] = top
  BY <1>8, <1>9 DEF S
<1>16. Len(w) - 1 = n + a
  BY <1>15, <1>2, <1>5
<1> QED BY <1>12, <1>13, <1>14, <1>15, <1>16 DEF WellSpaced

-----------------------------------------------------------------------------
\* Products compare as their factors do, and common factors cancel.
LEMMA ProductCancels ==
  ASSUME NEW x \in Nat, NEW y \in Nat, NEW d \in Nat \ {0}, x * d <= y * d
  PROVE  x <= y
<1> SUFFICES ASSUME x > y PROVE FALSE
  OBVIOUS
<1>1. x >= y + 1 /\ y + 1 \in Nat /\ d \in Nat
  OBVIOUS
<1>2. d * x >= d * (y + 1)
  BY <1>1, ProductGrows
<1>3. d * (y + 1) = d * y + d /\ d * x = x * d /\ d * y = y * d
  OBVIOUS
<1>4. x * d \in Nat /\ y * d \in Nat
  OBVIOUS
<1> QED BY <1>2, <1>3, <1>4

\* A throughput that is not above the slower of two is not above the faster.
LEMMA RatioLemma ==
  ASSUME NEW a \in Nat, NEW b \in Nat, NEW c \in Nat, NEW d \in Nat \ {0},
         NEW e \in Nat, NEW f \in Nat, a * d >= c * b, e * d <= c * f
  PROVE  e * b <= a * f
<1>1. b * (c * f) >= b * (e * d)
  <2>1. c * f \in Nat /\ e * d \in Nat
    OBVIOUS
  <2> QED BY <2>1, ProductGrows
<1>2. f * (a * d) >= f * (c * b)
  <2>1. a * d \in Nat /\ c * b \in Nat
    OBVIOUS
  <2> QED BY <2>1, ProductGrows
<1>3. b * (c * f) = f * (c * b) /\ b * (e * d) = (e * b) * d /\ f * (a * d) = (a * f) * d
  OBVIOUS
<1>4. e * b \in Nat /\ a * f \in Nat /\ (e * b) * d \in Nat /\ (a * f) * d \in Nat /\ f * (c * b) \in Nat
  OBVIOUS
<1>5. (e * b) * d <= (a * f) * d
  BY <1>1, <1>2, <1>3, <1>4
<1> QED BY <1>4, <1>5, ProductCancels

Measurements == [batch : Nat \ {0}, total : Nat \ {0}, settings : Nat \ {0}]

\* One of the measured batches has a throughput that none exceeds.
LEMMA PeakLemma ==
  ASSUME results \in Seq(Measurements), results # << >>
  PROVE  /\ Peak \in {results[i] : i \in DOMAIN results}
         /\ \A i \in DOMAIN results : ~Faster(results[i], Peak)
<1> DEFINE G == {n \in Nat : \E p \in 1 .. n : \A j \in 1 .. n : ~Faster(results[j], results[p])}
<1>0. Len(results) \in Nat /\ 1 <= Len(results) /\ DOMAIN results = 1 .. Len(results)
  OBVIOUS
<1>t. \A i \in 1 .. Len(results) : results[i] \in Measurements
  OBVIOUS
<1>1. 1 \in G
  <2>1. results[1].batch \in Nat /\ results[1].total \in Nat
    BY <1>0, <1>t DEF Measurements
  <2>2. ~Faster(results[1], results[1])
    BY <2>1 DEF Faster
  <2> QED BY <2>2
<1>2. ASSUME NEW n \in 1 .. Len(results) - 1, n \in G
      PROVE  n + 1 \in G
  <2>1. PICK p \in 1 .. n : \A j \in 1 .. n : ~Faster(results[j], results[p])
    BY <1>2
  <2>2. /\ n + 1 \in 1 .. Len(results) /\ p \in 1 .. Len(results)
        /\ \A j \in 1 .. n : j \in 1 .. Len(results)
    BY <1>0
  <2>3. \A j \in 1 .. Len(results) : results[j].batch \in Nat \ {0} /\ results[j].total \in Nat \ {0}
    BY <1>t DEF Measurements
  <2>4. CASE Faster(results[n + 1], results[p])
    <3>1. ASSUME NEW j \in 1 .. n
          PROVE  ~Faster(results[j], results[n + 1])
      <4> DEFINE a == results[n + 1].batch
                 b == results[n + 1].total
                 c == results[p].batch
                 d == results[p].total
                 e == results[j].batch
                 f == results[j].total
      <4>1. /\ a \in Nat /\ b \in Nat /\ c \in Nat /\ d \in Nat \ {0} /\ e \in Nat /\ f \in Nat
        BY <2>2, <2>3
      <4>2. a * d > c * b /\ ~(e * d > c * f)
        BY <2>1, <2>4 DEF Faster
      <4> HIDE DEF a, b, c, d, e, f
      <4>3. a * d >= c * b /\ e * d <= c * f
        BY <4>1, <4>2
      <4>4. e * b <= a * f
        BY <4>1, <4>3, RatioLemma
      <4>5. ~(e * b > a * f)
        BY <4>1, <4>4
      <4> QED BY <4>5 DEF Faster, a, b, e, f
    <3>2. ~Faster(results[n + 1], results[n + 1])
      BY <2>2, <2>3 DEF Faster
    <3>3. \A j \in 1 .. n + 1 : j \in 1 .. n \/ j = n + 1
      OBVIOUS
    <3> QED BY <3>1, <3>2, <3>3
  <2>5. CASE ~Faster(results[n + 1], results[p])
    <3>1. \A j \in 1 .. n + 1 : j \in 1 .. n \/ j = n + 1
      OBVIOUS
    <3>2. \A j \in 1 .. n + 1 : ~Faster(results[j], results[p])
      BY ONLY <2>1, <2>5, <3>1
    <3>3. p \in 1 .. n + 1 /\ n + 1 \in Nat
      BY <2>1
    <3> QED BY <3>2, <3>3
  <2> QED BY <2>4, <2>5
<1>3. Len(results) \in G
  <2> HIDE DEF G
  <2> DEFINE l == Len(results)
  <2>1. l \in Int /\ 1 <= l /\ (\A i \in 1 .. l - 1 : i \in G => i + 1 \in G)
    BY <1>0, <1>2
  <2> HIDE DEF l
  <2>2. \A i \in 1 .. l : i \in G
    <3>1. 1 \in Int
      OBVIOUS
    <3> QED BY ONLY <2>1, <3>1, <1>1, IntervalInduction
  <2>3. l \in G
    BY <2>1, <2>2
  <2> QED BY <2>3 DEF l
<1>4. \E r \in {results[i] : i \in DOMAIN results} : \A i \in DOMAIN results : ~Faster(results[i], r)
  BY <1>0, <1>3
<1> QED BY <1>4 DEF Peak

\* Of a set of measured batches one has the shortest time and the least index.
LEMMA BestTotalLemma ==
  ASSUME results \in Seq(Measurements), NEW near, near \subseteq DOMAIN results, near # {}
  PROVE  /\ BestTotal(near) \in near
         /\ \A j \in near : results[BestTotal(near)].total <= results[j].total
<1> DEFINE times == {results[i].total : i \in near}
<1>1. near \subseteq Nat /\ \A i \in near : results[i].total \in Nat
  <2>1. \A i \in near : i \in Nat /\ results[i] \in Measurements
    OBVIOUS
  <2> QED BY <2>1 DEF Measurements
<1>2. PICK t \in times : \A u \in times : t <= u
  <2>1. times \subseteq Nat /\ times # {}
    BY <1>1
  <2> HIDE DEF times
  <2> QED BY <2>1, LeastNatural
<1> DEFINE best == {i \in near : results[i].total = t}
<1>3. PICK i \in best : \A j \in best : i <= j
  <2>1. best \subseteq Nat /\ best # {}
    BY <1>1
  <2> HIDE DEF best
  <2> QED BY <2>1, LeastNatural
<1>4. i \in near /\ results[i].total = t
  OBVIOUS
<1>5. ASSUME NEW j \in near
      PROVE  results[i].total < results[j].total \/ (results[i].total = results[j].total /\ i <= j)
  <2>1. t <= results[j].total /\ t \in Nat /\ results[j].total \in Nat
    BY <1>1, <1>2
  <2>2. results[j].total = t => i <= j
    BY <1>3
  <2> QED BY <1>4, <2>1, <2>2
<1>6. /\ BestTotal(near) \in near
      /\ \A j \in near :
           \/ results[BestTotal(near)].total < results[j].total
           \/ results[BestTotal(near)].total = results[j].total /\ BestTotal(near) <= j
  BY <1>4, <1>5 DEF BestTotal
<1> QED BY <1>1, <1>6

\* The best of the measured batches is near the peak, as close to it as to
\* every other, and the fastest of those that are.
LEMMA BestLemma ==
  ASSUME results \in Seq(Measurements), results # << >>
  PROVE  /\ Best \in DOMAIN results
         /\ \A i \in DOMAIN results :
              /\ NearPeak(results[Best], results[i])
              /\ (\A j \in DOMAIN results : NearPeak(results[i], results[j])) =>
                   results[Best].total <= results[i].total
<1> DEFINE near == {i \in DOMAIN results : NearPeak(results[i], Peak)}
<1>0. \A i \in DOMAIN results : results[i].batch \in Nat \ {0} /\ results[i].total \in Nat \ {0}
  <2>1. \A i \in DOMAIN results : results[i] \in Measurements
    OBVIOUS
  <2> QED BY <2>1 DEF Measurements
<1>1. PICK p \in DOMAIN results : Peak = results[p]
  BY PeakLemma
<1>2. \A i \in DOMAIN results : ~Faster(results[i], results[p])
  BY <1>1, PeakLemma
<1>3. p \in near
  <2> DEFINE b == results[p].batch
             t == results[p].total
  <2>1. b \in Nat /\ t \in Nat
    BY <1>0, <1>1
  <2> HIDE DEF b, t
  <2>2. b * t \in Nat /\ 20 * b * t = 20 * (b * t) /\ 19 * b * t = 19 * (b * t)
    BY <2>1
  <2>3. 20 * b * t >= 19 * b * t
    BY <2>2
  <2>4. NearPeak(results[p], results[p])
    BY <2>3 DEF NearPeak, b, t
  <2> QED BY <2>4, <1>1
<1>4. /\ Best = BestTotal(near) /\ Best \in near
      /\ \A j \in near : results[Best].total <= results[j].total
  <2>1. Best = BestTotal(near)
    BY DEF Best
  <2>2. near \subseteq DOMAIN results /\ near # {}
    BY <1>3
  <2> HIDE DEF near
  <2>3. /\ BestTotal(near) \in near
        /\ \A j \in near : results[BestTotal(near)].total <= results[j].total
    BY <2>2, BestTotalLemma
  <2> QED BY <2>1, <2>3
<1>5. Best \in DOMAIN results /\ NearPeak(results[Best], results[p])
  BY <1>1, <1>4
<1>6. ASSUME NEW i \in DOMAIN results
      PROVE  NearPeak(results[Best], results[i])
  <2> DEFINE a == 20 * results[Best].batch
             b == 19 * results[Best].total
             c == results[p].batch
             d == results[p].total
             e == results[i].batch
             f == results[i].total
  <2>1. a \in Nat /\ b \in Nat /\ c \in Nat /\ d \in Nat \ {0} /\ e \in Nat /\ f \in Nat
    BY <1>0, <1>1, <1>5
  <2>2. a * d >= 19 * c * results[Best].total /\ ~(e * d > c * f)
    BY <1>2, <1>5 DEF NearPeak, Faster
  <2>3. 19 * c * results[Best].total = c * b
    BY <1>0, <1>1, <1>5
  <2>4. 19 * e * results[Best].total = e * b
    BY <1>0, <1>5
  <2>5. a * f >= 19 * e * results[Best].total <=> NearPeak(results[Best], results[i])
    BY DEF NearPeak
  <2> HIDE DEF a, b, c, d, e, f
  <2>6. a * d >= c * b /\ e * d <= c * f
    BY <2>1, <2>2, <2>3
  <2>7. e * b <= a * f
    BY <2>1, <2>6, RatioLemma
  <2>8. a * f >= e * b
    BY <2>1, <2>7
  <2> QED BY <2>4, <2>5, <2>8
<1>7. ASSUME NEW i \in DOMAIN results, \A j \in DOMAIN results : NearPeak(results[i], results[j])
      PROVE  results[Best].total <= results[i].total
  BY <1>1, <1>4, <1>7
<1> QED BY <1>5, <1>6, <1>7

-----------------------------------------------------------------------------
SearchInv ==
  /\ sms \in Devices /\ maximum \in Maximums /\ grouping \in Groupings
  /\ workloads = pqcuda_workload_candidates(sms, maximum)
  /\ results \in Seq(Measurements) /\ Len(results) <= Len(workloads)

LEMMA ParametersLemma ==
  /\ \A x \in Devices : x \in Nat \ {0}
  /\ \A x \in Maximums : x \in Nat \ {0} /\ x <= LargestBatch
  /\ \A x \in Groupings : x \in {4, 32}
  /\ \A x \in Totals : x \in Nat \ {0}
<1>1. ASSUME NEW x \in Maximums PROVE x \in Nat \ {0} /\ x <= LargestBatch
  <2>1. x \in 1 .. LargestBatch
    BY SearchAssumption, Zenon
  <2> QED BY <2>1 DEF LargestBatch
<1>2. Devices \subseteq Nat \ {0} /\ Groupings \subseteq {4, 32} /\ Totals \subseteq Nat \ {0}
  BY SearchAssumption, Zenon
<1> QED BY <1>1, <1>2, Zenon

\* The device, the maximum and the grouping that the lemmas above speak of.
LEMMA WorkloadsLemma ==
  ASSUME SearchInv
  PROVE  /\ sms \in Nat \ {0} /\ workloads \in Seq(Nat \ {0})
         /\ WorkloadsFit
<1>1. sms \in Nat \ {0} /\ grouping \in {4, 32} /\ maximum \in Nat \ {0} /\ maximum <= LargestBatch
  BY ParametersLemma DEF SearchInv
<1>2. workloads = pqcuda_workload_candidates(sms, maximum)
  BY DEF SearchInv
<1>3. WellSpaced(workloads, sms, maximum)
  BY ONLY <1>1, <1>2, CandidatesLemma
<1> QED BY <1>1, <1>3 DEF WorkloadsFit, WellSpaced

LEMMA SearchInvariant == SearchSpec => []SearchInv
<1>1. SearchInit => SearchInv
  <2> SUFFICES ASSUME SearchInit PROVE SearchInv
    OBVIOUS
  <2>1. results = << >> /\ results \in Seq(Measurements) /\ Len(results) = 0
    BY DEF SearchInit
  <2>2. Len(workloads) >= 0
    <3>1. sms \in Nat \ {0} /\ grouping \in {4, 32} /\ maximum \in Nat \ {0} /\ maximum <= LargestBatch
      BY ParametersLemma DEF SearchInit
    <3>2. workloads = pqcuda_workload_candidates(sms, maximum)
      BY DEF SearchInit
    <3>3. WellSpaced(workloads, sms, maximum)
      BY ONLY <3>1, <3>2, CandidatesLemma
    <3> QED BY <3>3 DEF WellSpaced
  <2> QED BY <2>1, <2>2 DEF SearchInit, SearchInv
<1>2. SearchInv /\ [SearchNext]_searchVars => SearchInv'
  <2> SUFFICES ASSUME SearchInv, [SearchNext]_searchVars PROVE SearchInv'
    OBVIOUS
  <2>1. CASE Measures
    <3> DEFINE batch == workloads[Len(results) + 1]
    <3>1. /\ UNCHANGED <<sms, maximum, grouping, workloads>>
          /\ Len(results) < Len(workloads)
          /\ \E total \in Totals :
               results' = Append(results, [batch |-> batch, total |-> total, settings |-> batch])
      BY <2>1 DEF Measures
    <3>2. batch \in Nat \ {0}
      <4>1. workloads \in Seq(Nat \ {0}) /\ results \in Seq(Measurements)
        BY WorkloadsLemma DEF SearchInv
      <4>2. Len(results) + 1 \in 1 .. Len(workloads)
        BY <3>1, <4>1
      <4> HIDE DEF SearchInv
      <4> QED BY <4>1, <4>2
    <3>3. PICK total \in Totals :
            results' = Append(results, [batch |-> batch, total |-> total, settings |-> batch])
      BY <3>1
    <3>4. total \in Nat \ {0}
      BY ParametersLemma
    <3> DEFINE record == [batch |-> batch, total |-> total, settings |-> batch]
    <3>5. record \in Measurements
      BY <3>2, <3>4 DEF Measurements
    <3>6. results' = Append(results, record)
      BY <3>3
    <3> HIDE DEF record, batch
    <3>7. results' \in Seq(Measurements) /\ Len(results') = Len(results) + 1
      BY <3>5, <3>6 DEF SearchInv
    <3>8. Len(results') <= Len(workloads)
      <4>1. Len(results) \in Nat /\ Len(workloads) \in Nat
        BY WorkloadsLemma DEF SearchInv
      <4> QED BY <4>1, <3>1, <3>7
    <3>9. workloads' = pqcuda_workload_candidates(sms, maximum)'
      <4>1. UNCHANGED <<sms, maximum, grouping, workloads>> /\ workloads = pqcuda_workload_candidates(sms, maximum)
        BY <3>1 DEF SearchInv
      <4> QED BY ONLY <4>1 DEF pqcuda_workload_candidates, pqcuda_workload_step, Group
    <3> QED BY <3>1, <3>7, <3>8, <3>9 DEF SearchInv
  <2>2. CASE UNCHANGED <<sms, maximum, grouping, workloads, results>>
    <3>1. workloads' = pqcuda_workload_candidates(sms, maximum)'
      <4>1. UNCHANGED <<sms, maximum, grouping, workloads>> /\ workloads = pqcuda_workload_candidates(sms, maximum)
        BY <2>2 DEF SearchInv
      <4> QED BY ONLY <4>1 DEF pqcuda_workload_candidates, pqcuda_workload_step, Group
    <3> QED BY <2>2, <3>1 DEF SearchInv
  <2>3. CASE Recommends
    BY <2>2, <2>3 DEF Recommends
  <2>4. CASE UNCHANGED searchVars
    BY <2>2, <2>4 DEF searchVars
  <2> QED BY <2>1, <2>3, <2>4 DEF SearchNext
<1> QED BY <1>1, <1>2, PTL DEF SearchSpec

\* For every device, maximum and grouping of the programs the batches fit the
\* array, grow from 1 to the maximum and are at most 2000 apart.
THEOREM WorkloadsFitTheorem == SearchSpec => []WorkloadsFit
<1>1. SearchInv => WorkloadsFit
  BY WorkloadsLemma
<1> QED BY <1>1, SearchInvariant, PTL

\* Whatever is measured, the recommended batch is the fastest in total of
\* those with 95 % of the best throughput, and keeps its settings.
THEOREM RecommendsFastestTheorem == SearchSpec => []RecommendsFastest
<1>1. SearchInit => RecommendsFastest
  BY DEF SearchInit, RecommendsFastest
<1>2. SearchInv /\ RecommendsFastest /\ [SearchNext]_searchVars => RecommendsFastest'
  <2> SUFFICES ASSUME SearchInv, RecommendsFastest, [SearchNext]_searchVars
               PROVE  RecommendsFastest'
    OBVIOUS
  <2>1. CASE Measures
    BY <2>1 DEF Measures, RecommendsFastest
  <2>2. CASE Recommends
    <3>1. results \in Seq(Measurements) /\ results # << >>
      <4>1. results \in Seq(Measurements) /\ Len(workloads) >= 1
        BY WorkloadsLemma DEF SearchInv, WorkloadsFit
      <4>2. Len(results) = Len(workloads)
        BY <2>2 DEF Recommends
      <4> QED BY <4>1, <4>2
    <3>2. /\ results' = results /\ settings' = results[Best].settings
          /\ recommended' = [batch |-> results[Best].batch, settings |-> results[Best].settings]
      BY <2>2 DEF Recommends
    <3>3. /\ Best \in DOMAIN results
          /\ \A i \in DOMAIN results :
               /\ NearPeak(results[Best], results[i])
               /\ (\A j \in DOMAIN results : NearPeak(results[i], results[j])) =>
                    results[Best].total <= results[i].total
      BY <3>1, BestLemma
    <3> DEFINE r == results[Best]
    <3>4. r \in {results[i] : i \in DOMAIN results}
      BY <3>3
    <3> HIDE DEF r
    <3>5. \E s \in {results[i] : i \in DOMAIN results} :
            /\ recommended' = [batch |-> s.batch, settings |-> s.settings]
            /\ settings' = s.settings
            /\ \A i \in DOMAIN results :
                 /\ NearPeak(s, results[i])
                 /\ (\A j \in DOMAIN results : NearPeak(results[i], results[j])) =>
                      s.total <= results[i].total
      <4>1. /\ recommended' = [batch |-> r.batch, settings |-> r.settings]
            /\ settings' = r.settings
            /\ \A i \in DOMAIN results :
                 /\ NearPeak(r, results[i])
                 /\ (\A j \in DOMAIN results : NearPeak(results[i], results[j])) =>
                      r.total <= results[i].total
        BY <3>2, <3>3 DEF r
      <4> QED BY <3>4, <4>1
    <3> QED BY <3>2, <3>5 DEF RecommendsFastest, NearPeak
  <2>3. CASE UNCHANGED searchVars
    BY <2>3 DEF searchVars, RecommendsFastest, NearPeak
  <2> QED BY <2>1, <2>2, <2>3 DEF SearchNext
<1> QED BY <1>1, <1>2, SearchInvariant, PTL DEF SearchSpec

(***************************************************************************)
(* Files of keys: the invariant.                                           *)
(***************************************************************************)
Kinds == {"pk", "sk", "ct", "ss", "rejected", "sig"}
Owners == Nat \X Nat
RealItems == [what : Kinds, pair : Owners, by : Owners]
BatchesOf(n) == [1 .. n -> RealItems]

\* Digits of whole items one after the other, the last one possibly cut short.
Orderly(text) ==
  /\ text \in Seq(RealItems \X (1 .. ItemDigits))
  /\ \A k \in 1 .. Len(text) :
       text[k] = <<text[((k - 1) \div ItemDigits) * ItemDigits + 1][1], ((k - 1) % ItemDigits) + 1>>

PublicKeys(t, n) == [i \in 1 .. n |-> Item("pk", <<t, i>>, Nobody)]
PrivateKeys(t, n) == [i \in 1 .. n |-> Item("sk", <<t, i>>, Nobody)]
Ciphertexts(t, n, e) == [i \in 1 .. n |-> Item("ct", <<t, i>>, <<e, i>>)]
Secrets(t, n, e) == [i \in 1 .. n |-> Item("ss", <<t, i>>, <<e, i>>)]
Signatures(t, n) == [i \in 1 .. n |-> Item("sig", <<t, i>>, Nobody)]

HandedOver(t, n, e) ==
  /\ {"public_key", "private_key"} \subseteq intact
  /\ files["public_key"] = Text(PublicKeys(t, n))
  /\ files["private_key"] = Text(PrivateKeys(t, n))
  /\ "ciphertext" \in intact => files["ciphertext"] = Text(Ciphertexts(t, n, e))
  /\ "shared_key_encap" \in intact => files["shared_key_encap"] = Text(Secrets(t, n, e))
  /\ "ciphertext" \in intact <=> "shared_key_encap" \in intact
  /\ "shared_key_decap" \in intact =>
       "ciphertext" \in intact /\ files["shared_key_decap"] = Text(Secrets(t, n, e))
  /\ "signature" \in intact => files["signature"] = Text(Signatures(t, n))

FilesType ==
  /\ algorithm \in {"kyber", "dilithium"}
  /\ DOMAIN files = FileNames /\ intact \subseteq FileNames
  /\ \A name \in FileNames : Orderly(files[name])
  /\ tasks \in Nat /\ task \in Tasks \cup {"none"}
  /\ task # "none" => batch_size \in 1 .. MaxBatch

RunInv ==
  /\ task = "none" => received = << >> /\ produced = << >>
  /\ received \in Seq(BatchesOf(batch_size))
  /\ task # "none" =>
       /\ Len(received) <= Len(Inputs(task))
       /\ \A k \in 1 .. Len(received) :
            /\ Accepts(files[Inputs(task)[k]], batch_size)
            /\ received[k] = Parse(files[Inputs(task)[k]], batch_size)
  /\ produced = << >> => written = 0
  /\ produced # << >> =>
       /\ task # "verify" /\ Len(received) = Len(Inputs(task))
       /\ produced = Results(task, received)
       /\ written \in 0 .. Len(Outputs(task)) - 1
       /\ written = 1 =>
            /\ files[Outputs(task)[1]] = Text(produced[1])
            /\ intact \cap MadeFrom(Outputs(task)[1]) = {}

IntactInv == intact # {} => \E t \in 0 .. tasks, n \in 1 .. MaxBatch, e \in 0 .. tasks : HandedOver(t, n, e)

FilesInv == FilesType /\ RunInv /\ IntactInv

(***************************************************************************)
(* Files of keys: the proof.                                               *)
(***************************************************************************)
\* Positions of digits.
LEMMA PositionLemma ==
  ASSUME NEW d \in Nat \ {0}, NEW q \in Nat, NEW r \in 0 .. d - 1
  PROVE  (q * d + r) \div d = q /\ (q * d + r) % d = r
<1> DEFINE x == q * d + r
           p == x \div d
<1>1. x \in Nat /\ p \in Nat /\ p * d <= x /\ x < p * d + d
  <2>1. x \in Nat
    OBVIOUS
  <2> HIDE DEF x
  <2> QED BY <2>1, QuotientLemma
<1>2. p = q
  <2>1. p \in Nat /\ d \in Nat /\ q + 1 \in Nat /\ p + 1 \in Nat
    BY <1>1
  <2>2. x = q * d + r /\ q * d \in Nat /\ r < d /\ r >= 0
    OBVIOUS
  <2> HIDE DEF x, p
  <2>3. CASE p >= q + 1
    <3>1. d * p >= d * (q + 1)
      BY <2>1, <2>3, ProductGrows
    <3>2. d * (q + 1) = q * d + d /\ d * p = p * d
      BY <2>1
    <3> QED BY <3>1, <3>2, <1>1, <2>2
  <2>4. CASE q >= p + 1
    <3>1. d * q >= d * (p + 1)
      BY <2>1, <2>4, ProductGrows
    <3>2. d * (p + 1) = p * d + d /\ d * q = q * d
      BY <2>1
    <3> QED BY <3>1, <3>2, <1>1, <2>2
  <2> QED BY <2>1, <2>3, <2>4
<1>3. x % d \in Int /\ x = d * p + (x % d)
  BY <1>1
<1> QED BY <1>2, <1>3

LEMMA SameFactor ==
  ASSUME NEW d \in Nat \ {0}, NEW m \in Nat, NEW n \in Nat, m * d = n * d
  PROVE  m = n
<1>1. 0 \in 0 .. d - 1
  OBVIOUS
<1>2. (m * d + 0) \div d = m /\ (n * d + 0) \div d = n
  BY <1>1, PositionLemma
<1> QED BY <1>2

\* The k-th digit lies behind the first one of its item, which is in the text.
LEMMA FirstLemma ==
  ASSUME NEW k \in Nat \ {0}
  PROVE  /\ ((k - 1) \div ItemDigits) \in Nat
         /\ ((k - 1) \div ItemDigits) * ItemDigits + 1 \in 1 .. k
         /\ ((k - 1) % ItemDigits) + 1 \in 1 .. ItemDigits
         /\ \A n \in Nat : k <= n * ItemDigits => (k - 1) \div ItemDigits + 1 \in 1 .. n
<1> DEFINE d == ItemDigits
           q == (k - 1) \div d
<1>1. d \in Nat \ {0} /\ k - 1 \in Nat
  BY ItemDigitsAssumption
<1>2. q \in Nat /\ q * d <= k - 1 /\ k - 1 < q * d + d
  <2> DEFINE x == k - 1
  <2>1. x \in Nat
    OBVIOUS
  <2> HIDE DEF d, x
  <2>2. (x \div d) \in Nat /\ (x \div d) * d <= x /\ x < (x \div d) * d + d
    BY <1>1, <2>1, QuotientLemma
  <2> QED BY <2>2 DEF x
<1>3. ((k - 1) % d) + 1 \in 1 .. d
  <2> HIDE DEF d
  <2> QED BY <1>1
<1>4. q * d + 1 \in 1 .. k
  <2> HIDE DEF d, q
  <2>1. q * d \in Nat
    BY <1>1, <1>2
  <2> QED BY <2>1, <1>2
<1>5. ASSUME NEW n \in Nat, k <= n * d
      PROVE  q + 1 \in 1 .. n
  <2> HIDE DEF d, q
  <2>1. CASE q >= n
    <3>1. d * q >= d * n
      BY <2>1, <1>1, <1>2, ProductGrows
    <3>2. d * q = q * d /\ d * n = n * d /\ q * d \in Nat /\ n * d \in Nat
      BY <1>1, <1>2
    <3> QED BY <3>1, <3>2, <1>2, <1>5
  <2> QED BY <2>1, <1>2
<1> QED BY <1>2, <1>3, <1>4, <1>5

Digits == RealItems \X (1 .. ItemDigits)

\* A text that is cut short is one.
LEMMA CutLemma ==
  ASSUME NEW text, Orderly(text), NEW c \in 0 .. Len(text)
  PROVE  Orderly(SubSeq(text, 1, c))
<1>1. text \in Seq(Digits) /\ Len(text) \in Nat
  BY DEF Orderly, Digits
<1>2. /\ SubSeq(text, 1, c) \in Seq(Digits) /\ Len(SubSeq(text, 1, c)) = c
      /\ \A k \in 1 .. c : SubSeq(text, 1, c)[k] = text[k]
  <2> HIDE DEF Digits
  <2> QED BY <1>1
<1>3. ASSUME NEW k \in 1 .. c
      PROVE  SubSeq(text, 1, c)[k] =
               <<SubSeq(text, 1, c)[((k - 1) \div ItemDigits) * ItemDigits + 1][1], ((k - 1) % ItemDigits) + 1>>
  <2>1. ((k - 1) \div ItemDigits) * ItemDigits + 1 \in 1 .. c
    <3>1. ((k - 1) \div ItemDigits) * ItemDigits + 1 \in 1 .. k
      <4>1. k \in Nat \ {0}
        OBVIOUS
      <4> QED BY <4>1, FirstLemma, Zenon
    <3> QED BY <3>1
  <2>2. k \in 1 .. Len(text)
    BY <1>1
  <2>3. text[k] = <<text[((k - 1) \div ItemDigits) * ItemDigits + 1][1], ((k - 1) % ItemDigits) + 1>>
    BY <2>2 DEF Orderly
  <2> QED BY <2>1, <2>3, <1>2
<1> QED BY <1>2, <1>3 DEF Orderly, Digits

\* The text of a batch has its items at their first digits.
LEMMA TextLemma ==
  ASSUME NEW n \in Nat, NEW items \in BatchesOf(n)
  PROVE  /\ Orderly(Text(items)) /\ Len(Text(items)) = n * ItemDigits
         /\ \A i \in 1 .. n : Text(items)[(i - 1) * ItemDigits + 1][1] = items[i]
<1> DEFINE d == ItemDigits
           t == Text(items)
<1>0. d \in Nat \ {0} /\ n * d \in Nat
  BY ItemDigitsAssumption
<1>1. t = [k \in 1 .. n * d |-> Digit(items, k)]
  <2>1. Len(items) = n
    BY DEF BatchesOf
  <2> QED BY <2>1 DEF Text
<1>2. ASSUME NEW k \in 1 .. n * d
      PROVE  Digit(items, k) \in Digits
  <2>1. (k - 1) \div d + 1 \in 1 .. n /\ ((k - 1) % d) + 1 \in 1 .. d
    BY <1>0, FirstLemma
  <2>2. items[(k - 1) \div d + 1] \in RealItems
    BY <2>1 DEF BatchesOf
  <2> QED BY <2>1, <2>2 DEF Digit, Digits
<1> HIDE DEF t
<1>3. t \in Seq(Digits) /\ Len(t) = n * d /\ \A k \in 1 .. n * d : t[k] = Digit(items, k)
  <2> HIDE DEF d, Digits
  <2> QED BY <1>0, <1>1, <1>2
<1>4. ASSUME NEW i \in 1 .. n
      PROVE  /\ (i - 1) * d + 1 \in 1 .. n * d
             /\ t[(i - 1) * d + 1] = <<items[i], 1>>
  <2>1. i - 1 \in Nat /\ 0 \in 0 .. d - 1
    BY <1>0
  <2>2. ((i - 1) * d + 0) \div d = i - 1 /\ ((i - 1) * d + 0) % d = 0
    <3> DEFINE q == i - 1
    <3> HIDE DEF q, d
    <3>1. q \in Nat
      BY <2>1 DEF q
    <3>2. (q * d + 0) \div d = q /\ (q * d + 0) % d = 0
      BY <3>1, <2>1, <1>0, PositionLemma
    <3> QED BY <3>2 DEF q
  <2> DEFINE x == (i - 1) * d
  <2>3. x \in Nat /\ x \div d = i - 1 /\ x % d = 0
    BY <2>1, <2>2, <1>0
  <2>4. x + 1 <= n * d
    <3>1. d * n >= d * i
      BY <1>0, ProductGrows
    <3>2. d * i = x + d /\ d * n = n * d
      BY <1>0
    <3> QED BY <3>1, <3>2, <1>0, <2>3
  <2> HIDE DEF x, d
  <2>5. x + 1 \in 1 .. n * d /\ (x + 1) - 1 = x
    BY <2>3, <2>4
  <2>6. t[x + 1] = <<items[i - 1 + 1], 1>>
    BY <1>3, <2>3, <2>5 DEF Digit, d
  <2> QED BY <2>5, <2>6 DEF x
<1>5. ASSUME NEW k \in 1 .. n * d
      PROVE  t[k] = <<t[((k - 1) \div d) * d + 1][1], ((k - 1) % d) + 1>>
  <2> DEFINE q == (k - 1) \div d
  <2>1. q + 1 \in 1 .. n /\ q \in Nat
    BY <1>0, FirstLemma
  <2>2. t[k] = <<items[q + 1], ((k - 1) % d) + 1>>
    BY <1>3 DEF Digit
  <2> DEFINE j == q + 1
  <2>3. j \in 1 .. n /\ j = q + 1 /\ j - 1 = q
    BY <2>1
  <2> HIDE DEF q, j, d
  <2>4. t[(j - 1) * d + 1] = <<items[j], 1>>
    BY <1>4, <2>3
  <2>5. t[q * d + 1] = <<items[q + 1], 1>>
    BY ONLY <2>3, <2>4
  <2> QED BY <2>2, <2>5 DEF q
<1>6. Orderly(t)
  BY <1>3, <1>5 DEF Orderly, Digits
<1> QED BY <1>3, <1>4, <1>6 DEF t

\* An accepted text is read as whole items, those at the first digits.
LEMMA ParseLemma ==
  ASSUME NEW n \in Nat, NEW text, Orderly(text), Accepts(text, n)
  PROVE  /\ Parse(text, n) \in BatchesOf(n)
         /\ \A i \in 1 .. n : Parse(text, n)[i] = text[(i - 1) * ItemDigits + 1][1]
<1> DEFINE d == ItemDigits
<1>0. d \in Nat \ {0} /\ n * d \in Nat /\ text \in Seq(Digits) /\ Len(text) = n * d
  BY ItemDigitsAssumption DEF Orderly, Accepts, Digits
<1>1. ASSUME NEW i \in 1 .. n
      PROVE  /\ (i - 1) * d + 1 \in 1 .. n * d
             /\ (i - 1) * d + 1 + d - 1 \in DOMAIN text
             /\ \A j \in 1 .. d : text[(i - 1) * d + 1 + j - 1] = <<text[(i - 1) * d + 1][1], j>>
  <2> DEFINE x == (i - 1) * d
  <2>1. x \in Nat
    BY <1>0
  <2>2. x + d <= n * d
    <3>1. d * n >= d * i
      BY <1>0, ProductGrows
    <3>2. d * i = x + d /\ d * n = n * d
      BY <1>0
    <3> QED BY <3>1, <3>2
  <2>3. ASSUME NEW j \in 1 .. d
        PROVE  text[x + 1 + j - 1] = <<text[x + 1][1], j>>
    <3>1. (x + (j - 1)) \div d = i - 1 /\ (x + (j - 1)) % d = j - 1
      <4>1. i - 1 \in Nat /\ j - 1 \in 0 .. d - 1
        BY <1>0
      <4> HIDE DEF d
      <4> QED BY <4>1, <1>0, PositionLemma
    <3> HIDE DEF x, d
    <3>2. x + 1 + j - 1 = x + j /\ x + j \in 1 .. n * d /\ (x + j) - 1 = x + (j - 1)
      BY <1>0, <2>1, <2>2
    <3>3. text[x + j] = <<text[(((x + j) - 1) \div d) * d + 1][1], (((x + j) - 1) % d) + 1>>
      BY <1>0, <3>2 DEF Orderly, d
    <3>4. (i - 1) * d = x
      BY DEF x
    <3>5. (j - 1) + 1 = j
      OBVIOUS
    <3> QED BY <3>1, <3>2, <3>3, <3>4, <3>5
  <2>4. x + 1 \in 1 .. n * d /\ x + 1 + d - 1 \in DOMAIN text
    <3> HIDE DEF x, d
    <3> QED BY <1>0, <2>1, <2>2
  <2> QED BY <2>3, <2>4
<1>2. ASSUME NEW i \in 1 .. n
      PROVE  Parse(text, n)[i] = text[(i - 1) * d + 1][1]
  BY <1>1 DEF Parse
<1>3. ASSUME NEW i \in 1 .. n
      PROVE  text[(i - 1) * d + 1][1] \in RealItems
  <2>1. text[(i - 1) * d + 1] \in Digits
    <3> HIDE DEF d, Digits
    <3> QED BY <1>0, <1>1
  <2> QED BY <2>1 DEF Digits
<1>4. Parse(text, n) = [i \in 1 .. n |-> Parse(text, n)[i]]
  BY DEF Parse
<1>5. Parse(text, n) \in BatchesOf(n)
  BY <1>2, <1>3, <1>4 DEF BatchesOf
<1> QED BY <1>2, <1>5

\* What is written is read back, with the batch it was written for only.
LEMMA ReadBackLemma ==
  ASSUME NEW n \in Nat, NEW items \in BatchesOf(n), NEW m \in Nat, Accepts(Text(items), m)
  PROVE  m = n /\ Parse(Text(items), m) = items
<1>1. n * ItemDigits = m * ItemDigits /\ ItemDigits \in Nat \ {0}
  BY TextLemma, ItemDigitsAssumption DEF Accepts
<1>2. m = n
  BY <1>1, SameFactor
<1>3. /\ Parse(Text(items), m) \in BatchesOf(n)
      /\ \A i \in 1 .. n : Parse(Text(items), m)[i] = items[i]
  BY <1>2, TextLemma, ParseLemma
<1> QED BY <1>2, <1>3 DEF BatchesOf

-----------------------------------------------------------------------------
KyberFiles == {"public_key", "private_key", "ciphertext", "shared_key_encap", "shared_key_decap"}
DilithiumFiles == {"public_key", "private_key", "signature"}

LEMMA NamesLemma ==
  /\ algorithm = "kyber" => FileNames = KyberFiles
  /\ algorithm = "dilithium" => FileNames = DilithiumFiles
<1>1. CASE algorithm = "kyber"
  <2>1. FileNames = Range(Outputs("keypair")) \cup Range(Outputs("encaps")) \cup Range(Outputs("decaps"))
    BY <1>1 DEF FileNames, Tasks
  <2>2. /\ Range(Outputs("keypair")) = {"public_key", "private_key"}
        /\ Range(Outputs("encaps")) = {"ciphertext", "shared_key_encap"}
        /\ Range(Outputs("decaps")) = {"shared_key_decap"}
    BY DEF Outputs, Range
  <2> QED BY <1>1, <2>1, <2>2 DEF KyberFiles
<1>2. CASE algorithm = "dilithium"
  <2>1. FileNames = Range(Outputs("keypair")) \cup Range(Outputs("sign")) \cup Range(Outputs("verify"))
    BY <1>2 DEF FileNames, Tasks
  <2>2. /\ Range(Outputs("keypair")) = {"public_key", "private_key"}
        /\ Range(Outputs("sign")) = {"signature"}
        /\ Range(Outputs("verify")) = {}
    BY DEF Outputs, Range
  <2> QED BY <1>2, <2>1, <2>2 DEF DilithiumFiles
<1> QED BY <1>1, <1>2

\* A task reads and writes files of its algorithm, and no file both.
LEMMA TaskLemma ==
  ASSUME algorithm \in {"kyber", "dilithium"}, task \in Tasks
  PROVE  /\ Len(Inputs(task)) \in 0 .. 2 /\ Len(Outputs(task)) \in 0 .. 2
         /\ task # "verify" => Len(Outputs(task)) # 0
         /\ \A k \in 1 .. Len(Inputs(task)) : Inputs(task)[k] \in FileNames
         /\ \A k \in 1 .. Len(Outputs(task)) : Outputs(task)[k] \in FileNames
         /\ \A k \in 1 .. Len(Inputs(task)), l \in 1 .. Len(Outputs(task)) : Inputs(task)[k] # Outputs(task)[l]
         /\ Len(Outputs(task)) = 2 => Outputs(task)[1] # Outputs(task)[2]
<1>1. CASE algorithm = "kyber"
  <2>1. CASE task = "keypair"
    BY <1>1, <2>1, NamesLemma DEF Inputs, Outputs, KyberFiles
  <2>2. CASE task = "encaps"
    BY <1>1, <2>2, NamesLemma DEF Inputs, Outputs, KyberFiles
  <2>3. CASE task = "decaps"
    BY <1>1, <2>3, NamesLemma DEF Inputs, Outputs, KyberFiles
  <2> QED BY <1>1, <2>1, <2>2, <2>3 DEF Tasks
<1>2. CASE algorithm = "dilithium"
  <2>1. CASE task = "keypair"
    BY <1>2, <2>1, NamesLemma DEF Inputs, Outputs, DilithiumFiles
  <2>2. CASE task = "sign"
    BY <1>2, <2>2, NamesLemma DEF Inputs, Outputs, DilithiumFiles
  <2>3. CASE task = "verify"
    BY <1>2, <2>3, NamesLemma DEF Inputs, Outputs, DilithiumFiles
  <2> QED BY <1>2, <2>1, <2>2, <2>3 DEF Tasks
<1> QED BY <1>1, <1>2

\* What a task computes are batches.
LEMMA ResultsLemma ==
  ASSUME tasks \in Nat, batch_size \in Nat, task \in Tasks, task # "verify",
         algorithm \in {"kyber", "dilithium"},
         received \in Seq(BatchesOf(batch_size)), Len(received) = Len(Inputs(task))
  PROVE  /\ Len(Results(task, received)) = Len(Outputs(task))
         /\ \A k \in 1 .. Len(Outputs(task)) : Results(task, received)[k] \in BatchesOf(batch_size)
<1> DEFINE N == 1 .. batch_size
<1>1. Nobody \in Owners /\ \A i \in N : <<tasks, i>> \in Owners
  BY DEF Nobody, Owners
<1>2. \A k \in 1 .. Len(received) : received[k] \in BatchesOf(batch_size)
  OBVIOUS
<1>3. \A what \in Kinds, pair, by \in Owners : Item(what, pair, by) \in RealItems
  BY DEF Item, RealItems
<1>4. \A s \in BatchesOf(batch_size) :
        DOMAIN s = N /\ \A i \in N : s[i].pair \in Owners /\ s[i].by \in Owners
  <2> SUFFICES ASSUME NEW s \in BatchesOf(batch_size)
               PROVE  DOMAIN s = N /\ \A i \in N : s[i].pair \in Owners /\ s[i].by \in Owners
    OBVIOUS
  <2>1. s \in [N -> RealItems]
    BY DEF BatchesOf
  <2>2. \A i \in N : s[i] \in RealItems
    BY <2>1
  <2> QED BY <2>1, <2>2 DEF RealItems
<1>k. /\ "pk" \in Kinds /\ "sk" \in Kinds /\ "ct" \in Kinds /\ "ss" \in Kinds
      /\ "rejected" \in Kinds /\ "sig" \in Kinds
  BY DEF Kinds
<1> HIDE DEF N
<1>5. CASE task = "keypair"
  <2> DEFINE x == [i \in N |-> Item("pk", <<tasks, i>>, Nobody)]
             y == [i \in N |-> Item("sk", <<tasks, i>>, Nobody)]
  <2>1. /\ \A i \in N : Item("pk", <<tasks, i>>, Nobody) \in RealItems
        /\ \A i \in N : Item("sk", <<tasks, i>>, Nobody) \in RealItems
    BY <1>1, <1>3, <1>k
  <2>2. x \in BatchesOf(batch_size) /\ y \in BatchesOf(batch_size)
    BY <2>1 DEF BatchesOf, N
  <2>3. Results(task, received) = <<x, y>>
    BY <1>5 DEF Results, keypair_batch, N
  <2>4. Len(Outputs(task)) = 2
    BY <1>5 DEF Outputs
  <2> HIDE DEF x, y
  <2> QED BY <2>2, <2>3, <2>4
<1>6. CASE task = "encaps"
  <2> DEFINE a == received[1]
             x == [i \in DOMAIN a |-> Item("ct", a[i].pair, <<tasks, i>>)]
             y == [i \in DOMAIN a |-> Item("ss", a[i].pair, <<tasks, i>>)]
  <2>1. a \in BatchesOf(batch_size)
    BY <1>2, <1>6 DEF Inputs
  <2>2. DOMAIN a = N /\ \A i \in N : a[i].pair \in Owners
    BY <2>1, <1>4, Zenon
  <2>3. Results(task, received) = <<x, y>>
    BY <1>6 DEF Results, encapsulate_batch
  <2> HIDE DEF a
  <2>4. \A i \in N : Item("ct", a[i].pair, <<tasks, i>>) \in RealItems /\ Item("ss", a[i].pair, <<tasks, i>>) \in RealItems
    BY <2>2, <1>1, <1>3, <1>k
  <2>5. x \in BatchesOf(batch_size) /\ y \in BatchesOf(batch_size)
    <3>1. BatchesOf(batch_size) = [N -> RealItems]
      BY DEF BatchesOf, N
    <3> QED BY <2>2, <2>4, <3>1
  <2>6. Len(Outputs(task)) = 2
    BY <1>6 DEF Outputs
  <2> HIDE DEF x, y
  <2> QED BY <2>3, <2>5, <2>6
<1>7. CASE task = "decaps"
  <2> DEFINE a == received[1]
             b == received[2]
             item(i) == IF a[i].pair = b[i].pair THEN Item("ss", a[i].pair, a[i].by)
                        ELSE Item("rejected", b[i].pair, a[i].by)
             x == [i \in DOMAIN a |-> item(i)]
  <2>1. a \in BatchesOf(batch_size) /\ b \in BatchesOf(batch_size)
    BY <1>2, <1>7 DEF Inputs
  <2>2. DOMAIN a = N /\ \A i \in N : a[i].pair \in Owners /\ a[i].by \in Owners /\ b[i].pair \in Owners
    BY <2>1, <1>4, Zenon
  <2>3. Results(task, received) = <<x>>
    BY <1>7 DEF Results, decapsulate_batch
  <2> HIDE DEF a, b
  <2>4. \A i \in N : item(i) \in RealItems
    BY <2>2, <1>3, <1>k
  <2> HIDE DEF item
  <2>5. x \in BatchesOf(batch_size)
    <3>1. BatchesOf(batch_size) = [N -> RealItems]
      BY DEF BatchesOf, N
    <3> QED BY <2>2, <2>4, <3>1
  <2>6. Len(Outputs(task)) = 1
    BY <1>7 DEF Outputs
  <2> HIDE DEF x
  <2> QED BY <2>3, <2>5, <2>6
<1>8. CASE task = "sign"
  <2> DEFINE a == received[1]
             x == [i \in DOMAIN a |-> Item("sig", a[i].pair, Nobody)]
  <2>1. a \in BatchesOf(batch_size)
    BY <1>2, <1>8 DEF Inputs
  <2>2. DOMAIN a = N /\ \A i \in N : a[i].pair \in Owners
    BY <2>1, <1>4, Zenon
  <2>3. Results(task, received) = <<x>>
    BY <1>8 DEF Results, sign_batch
  <2> HIDE DEF a
  <2>4. \A i \in N : Item("sig", a[i].pair, Nobody) \in RealItems
    BY <2>2, <1>1, <1>3, <1>k
  <2>5. x \in BatchesOf(batch_size)
    <3>1. BatchesOf(batch_size) = [N -> RealItems]
      BY DEF BatchesOf, N
    <3> QED BY <2>2, <2>4, <3>1
  <2>6. Len(Outputs(task)) = 1
    BY <1>8 DEF Outputs
  <2> HIDE DEF x
  <2> QED BY <2>3, <2>5, <2>6
<1> QED BY <1>5, <1>6, <1>7, <1>8 DEF Tasks

-----------------------------------------------------------------------------
LEMMA FixedNames ==
  ASSUME algorithm' = algorithm
  PROVE  FileNames' = FileNames /\ Tasks' = Tasks
<1>1. Tasks' = Tasks
  BY DEF Tasks
<1> QED BY <1>1 DEF FileNames

\* Steps that leave the files alone.
LEMMA QuietLemma ==
  ASSUME FilesInv, UNCHANGED <<algorithm, files, intact>>, tasks' \in Nat, tasks' >= tasks,
         task' \in Tasks \cup {"none"}, task' # "none" => batch_size' \in 1 .. MaxBatch
  PROVE  FilesType' /\ IntactInv'
<1>1. FileNames' = FileNames /\ Tasks' = Tasks
  BY FixedNames
<1>2. FilesType'
  BY <1>1 DEF FilesInv, FilesType
<1>3. ASSUME intact # {}
      PROVE  \E t \in 0 .. tasks', n \in 1 .. MaxBatch, e \in 0 .. tasks' : HandedOver(t, n, e)'
  <2>1. PICK t \in 0 .. tasks, n \in 1 .. MaxBatch, e \in 0 .. tasks : HandedOver(t, n, e)
    BY <1>3 DEF FilesInv, IntactInv
  <2>2. t \in 0 .. tasks' /\ e \in 0 .. tasks'
    BY DEF FilesInv, FilesType
  <2>3. HandedOver(t, n, e)'
    BY <2>1 DEF HandedOver
  <2> QED BY <2>2, <2>3
<1> QED BY <1>2, <1>3 DEF IntactInv

\* A program that exits leaves nothing behind.
LEMMA ExitLemma ==
  ASSUME Exit
  PROVE  RunInv'
<1>1. received' = << >> /\ << >> \in Seq(BatchesOf(batch_size')) /\ task' = "none" /\ produced' = << >> /\ written' = 0
  BY DEF Exit
<1> QED BY <1>1 DEF RunInv

LEMMA FilesInitLemma == FilesInit => FilesInv
<1> SUFFICES ASSUME FilesInit PROVE FilesInv
  OBVIOUS
<1>1. \A name \in FileNames : Orderly(files[name])
  <2>1. Orderly(<< >>)
    BY DEF Orderly
  <2> QED BY <2>1 DEF FilesInit
<1>2. RunInv
  BY DEF FilesInit, RunInv
<1> QED BY <1>1, <1>2 DEF FilesInit, FilesInv, FilesType, IntactInv

LEMMA StartStep ==
  ASSUME FilesInv, StartTask
  PROVE  FilesInv'
<1>1. /\ UNCHANGED <<algorithm, files, received, produced, written, intact>>
      /\ tasks' = tasks + 1 /\ task = "none" /\ task' \in Tasks /\ batch_size' \in 1 .. MaxBatch
  BY DEF StartTask
<1>2. FilesType' /\ IntactInv'
  <2>1. tasks' \in Nat /\ tasks' >= tasks
    BY <1>1 DEF FilesInv, FilesType
  <2> QED BY <1>1, <2>1, QuietLemma
<1>3. received = << >> /\ produced = << >> /\ written = 0 /\ << >> \in Seq(BatchesOf(batch_size'))
  BY <1>1 DEF FilesInv, RunInv
<1>4. Len(Inputs(task')) \in Nat
  BY <1>1 DEF Tasks, Inputs
<1>5. RunInv'
  BY <1>1, <1>3, <1>4 DEF RunInv
<1> QED BY <1>2, <1>5 DEF FilesInv

LEMMA ReadStep ==
  ASSUME FilesInv, ReadInput
  PROVE  FilesInv'
<1>1. /\ UNCHANGED <<algorithm, files, task, batch_size, produced, written, tasks, intact>>
      /\ Reading /\ Accepts(files[NextInput], batch_size)
      /\ received' = Append(received, Parse(files[NextInput], batch_size))
  BY DEF ReadInput
<1>2. FilesType' /\ IntactInv'
  BY <1>1, QuietLemma DEF FilesInv, FilesType
<1> DEFINE l == Len(received)
           x == Parse(files[NextInput], batch_size)
<1>3. /\ task \in Tasks /\ batch_size \in 1 .. MaxBatch /\ l < Len(Inputs(task)) /\ l \in Nat
      /\ received \in Seq(BatchesOf(batch_size))
  BY <1>1 DEF FilesInv, FilesType, RunInv, Reading
<1>4. Len(Inputs(task)) \in 0 .. 2 /\ NextInput = Inputs(task)[l + 1] /\ NextInput \in FileNames
  BY <1>3, TaskLemma DEF FilesInv, FilesType, NextInput
<1>5. x \in BatchesOf(batch_size)
  <2>1. Orderly(files[NextInput]) /\ batch_size \in Nat
    BY <1>3, <1>4 DEF FilesInv, FilesType
  <2> QED BY <2>1, <1>1, ParseLemma
<1> HIDE DEF x
<1>6. /\ received' \in Seq(BatchesOf(batch_size)) /\ Len(received') = l + 1
      /\ \A k \in 1 .. l : received'[k] = received[k]
      /\ received'[l + 1] = x
  BY <1>1, <1>3, <1>5 DEF x
<1>7. produced = << >> /\ written = 0
  BY <1>1, <1>3 DEF FilesInv, RunInv
<1>8. ASSUME NEW k \in 1 .. l + 1
      PROVE  /\ Accepts(files[Inputs(task)[k]], batch_size)
             /\ received'[k] = Parse(files[Inputs(task)[k]], batch_size)
  <2>1. CASE k = l + 1
    BY <2>1, <1>1, <1>4, <1>6 DEF x
  <2>2. CASE k # l + 1
    <3>1. k \in 1 .. l
      BY <2>2, <1>3
    <3> QED BY <3>1, <1>3, <1>6 DEF FilesInv, RunInv
  <2> QED BY <2>1, <2>2
<1>9. RunInv'
  <2>1. task # "none"
    BY <1>1 DEF Reading
  <2>2. Len(received') <= Len(Inputs(task))
    BY <1>3, <1>4, <1>6
  <2>3. 1 .. Len(received') = 1 .. l + 1
    BY <1>6
  <2> HIDE DEF l
  <2> QED BY <1>1, <1>6, <1>7, <1>8, <2>1, <2>2, <2>3 DEF RunInv
<1> QED BY <1>2, <1>9 DEF FilesInv

LEMMA ComputeStep ==
  ASSUME FilesInv, Compute
  PROVE  FilesInv'
<1>1. /\ UNCHANGED <<algorithm, files, task, batch_size, received, written, tasks, intact>>
      /\ task \notin {"none", "verify"} /\ produced = << >> /\ Len(received) = Len(Inputs(task))
      /\ produced' = Results(task, received)
  BY DEF Compute, HasInputs
<1>2. FilesType' /\ IntactInv'
  BY <1>1, QuietLemma DEF FilesInv, FilesType
<1>3. task \in Tasks /\ algorithm \in {"kyber", "dilithium"} /\ written = 0
  BY <1>1 DEF FilesInv, FilesType, RunInv
<1>4. Results(task, received)' = Results(task, received)
  BY <1>1 DEF Results, keypair_batch, encapsulate_batch
<1>5. 0 \in 0 .. Len(Outputs(task)) - 1
  BY <1>1, <1>3, TaskLemma
<1>6. RunInv'
  <2>1. RunInv
    BY DEF FilesInv
  <2> QED BY <1>1, <1>3, <1>4, <1>5, <2>1 DEF RunInv
<1> QED BY <1>2, <1>6 DEF FilesInv

LEMMA StopStep ==
  ASSUME FilesInv, RefuseInput \/ VerifyAll \/ TaskFails
  PROVE  FilesInv'
<1>1. UNCHANGED <<algorithm, files, tasks, intact>> /\ Exit
  BY DEF RefuseInput, VerifyAll, TaskFails
<1>2. FilesType' /\ IntactInv'
  BY <1>1, QuietLemma DEF FilesInv, FilesType, Exit
<1> QED BY <1>1, <1>2, ExitLemma DEF FilesInv

\* The output that is written next.
LEMMA OutputLemma ==
  ASSUME FilesInv, produced # << >>
  PROVE  /\ task \in Tasks /\ task # "verify" /\ batch_size \in 1 .. MaxBatch
         /\ Output \in FileNames /\ Output = Outputs(task)[written + 1]
         /\ produced[written + 1] \in BatchesOf(batch_size)
         /\ Orderly(Text(produced[written + 1]))
         /\ written \in 0 .. Len(Outputs(task)) - 1 /\ Len(Outputs(task)) \in 1 .. 2
<1>1. task \in Tasks /\ algorithm \in {"kyber", "dilithium"} /\ batch_size \in 1 .. MaxBatch /\ tasks \in Nat
  BY DEF FilesInv, FilesType, RunInv
<1>2. /\ task # "verify" /\ Len(received) = Len(Inputs(task)) /\ produced = Results(task, received)
      /\ written \in 0 .. Len(Outputs(task)) - 1 /\ received \in Seq(BatchesOf(batch_size))
  BY DEF FilesInv, RunInv
<1>3. Len(Outputs(task)) \in 1 .. 2
  BY <1>1, <1>2, TaskLemma
<1>4. written + 1 \in 1 .. Len(Outputs(task))
  BY <1>2, <1>3
<1>5. batch_size \in Nat
  BY <1>1
<1>6. produced[written + 1] \in BatchesOf(batch_size)
  BY <1>1, <1>2, <1>4, <1>5, ResultsLemma
<1>7. Orderly(Text(produced[written + 1]))
  BY <1>5, <1>6, TextLemma
<1>8. Output \in FileNames
  BY <1>1, <1>4, TaskLemma DEF Output
<1> QED BY <1>1, <1>2, <1>3, <1>6, <1>7, <1>8 DEF Output

LEMMA MadeFromLemma ==
  /\ MadeFrom("public_key") = FileNames /\ MadeFrom("private_key") = FileNames
  /\ MadeFrom("ciphertext") = {"ciphertext", "shared_key_encap", "shared_key_decap"}
  /\ MadeFrom("shared_key_encap") = {"ciphertext", "shared_key_encap", "shared_key_decap"}
  /\ MadeFrom("shared_key_decap") = {"shared_key_decap"}
  /\ MadeFrom("signature") = {"signature"}
BY DEF MadeFrom

\* A step that writes to one file, or tries to, and ends the use of what is
\* made from it.
LEMMA StaleLemma ==
  ASSUME FilesInv, NEW name \in FileNames, UNCHANGED <<algorithm, tasks>>,
         \A other \in FileNames \ {name} : files'[other] = files[other],
         intact' = intact \ MadeFrom(name)
  PROVE  IntactInv'
<1> SUFFICES ASSUME intact' # {}
             PROVE  \E t \in 0 .. tasks', n \in 1 .. MaxBatch, e \in 0 .. tasks' : HandedOver(t, n, e)'
  BY DEF IntactInv
<1>1. PICK t \in 0 .. tasks, n \in 1 .. MaxBatch, e \in 0 .. tasks : HandedOver(t, n, e)
  BY DEF FilesInv, IntactInv
<1>2. algorithm \in {"kyber", "dilithium"} /\ intact \subseteq FileNames
  BY DEF FilesInv, FilesType
<1>3. name \notin {"public_key", "private_key"}
  BY <1>2, MadeFromLemma
<1>4. name \in {"ciphertext", "shared_key_encap", "shared_key_decap", "signature"}
  BY <1>2, <1>3, NamesLemma DEF KyberFiles, DilithiumFiles
<1>5. \A x \in intact' : x \in FileNames \ {name} /\ x \in intact /\ files'[x] = files[x]
  BY <1>2, <1>4, MadeFromLemma
<1>6. /\ intact' \subseteq intact
      /\ intact \ intact' \subseteq MadeFrom(name)
  OBVIOUS
<1>7. HandedOver(t, n, e)'
  <2>1. {"public_key", "private_key"} \subseteq intact'
    BY <1>1, <1>4, MadeFromLemma DEF HandedOver
  <2>2. "ciphertext" \in intact' <=> "shared_key_encap" \in intact'
    BY <1>1, <1>4, MadeFromLemma DEF HandedOver
  <2>3. "shared_key_decap" \in intact' => "ciphertext" \in intact'
    BY <1>1, <1>4, MadeFromLemma DEF HandedOver
  <2>4. /\ files'["public_key"] = Text(PublicKeys(t, n))
        /\ files'["private_key"] = Text(PrivateKeys(t, n))
    BY <1>1, <1>5, <2>1 DEF HandedOver
  <2>5. /\ "ciphertext" \in intact' => files'["ciphertext"] = Text(Ciphertexts(t, n, e))
        /\ "shared_key_encap" \in intact' => files'["shared_key_encap"] = Text(Secrets(t, n, e))
        /\ "shared_key_decap" \in intact' => files'["shared_key_decap"] = Text(Secrets(t, n, e))
        /\ "signature" \in intact' => files'["signature"] = Text(Signatures(t, n))
    BY <1>1, <1>5 DEF HandedOver
  <2> QED BY <2>1, <2>2, <2>3, <2>4, <2>5 DEF HandedOver
<1> QED BY <1>1, <1>7

LEMMA WriteFailsStep ==
  ASSUME FilesInv, WriteFails
  PROVE  FilesInv'
<1> DEFINE text == Text(produced[written + 1])
<1>1. /\ produced # << >> /\ Exit /\ UNCHANGED <<algorithm, tasks>>
      /\ intact' = intact \ MadeFrom(Output)
  BY DEF WriteFails, Stale
<1>2. PICK c \in 0 .. Len(text) : files' \in {files, [files EXCEPT ![Output] = SubSeq(text, 1, c)]}
  BY DEF WriteFails
<1>3. Output \in FileNames /\ Orderly(text)
  BY <1>1, OutputLemma
<1> HIDE DEF text
<1>4. /\ DOMAIN files = FileNames /\ intact \subseteq FileNames /\ tasks \in Nat
      /\ \A name \in FileNames : Orderly(files[name])
  BY DEF FilesInv, FilesType
<1>5. Orderly(SubSeq(text, 1, c))
  BY <1>3, CutLemma
<1>6. /\ DOMAIN files' = FileNames
      /\ \A name \in FileNames : Orderly(files'[name])
      /\ \A other \in FileNames \ {Output} : files'[other] = files[other]
  BY <1>2, <1>3, <1>4, <1>5
<1>7. FileNames' = FileNames /\ Tasks' = Tasks
  BY <1>1, FixedNames
<1>8. FilesType'
  BY <1>1, <1>4, <1>6, <1>7 DEF FilesInv, FilesType, Exit
<1>9. IntactInv'
  BY <1>1, <1>3, <1>6, StaleLemma
<1> QED BY <1>1, <1>8, <1>9, ExitLemma DEF FilesInv

LEMMA BatchesLemma ==
  ASSUME NEW t \in Nat, NEW n \in Nat, NEW e \in Nat
  PROVE  /\ PublicKeys(t, n) \in BatchesOf(n) /\ PrivateKeys(t, n) \in BatchesOf(n)
         /\ Ciphertexts(t, n, e) \in BatchesOf(n) /\ Secrets(t, n, e) \in BatchesOf(n)
         /\ Signatures(t, n) \in BatchesOf(n)
<1>1. Nobody \in Owners /\ \A i \in 1 .. n : <<t, i>> \in Owners /\ <<e, i>> \in Owners
  BY DEF Nobody, Owners
<1>2. \A what \in Kinds, pair, by \in Owners : Item(what, pair, by) \in RealItems
  BY DEF Item, RealItems
<1>3. "pk" \in Kinds /\ "sk" \in Kinds /\ "ct" \in Kinds /\ "ss" \in Kinds /\ "sig" \in Kinds
  BY DEF Kinds
<1>4. \A i \in 1 .. n :
        /\ Item("pk", <<t, i>>, Nobody) \in RealItems /\ Item("sk", <<t, i>>, Nobody) \in RealItems
        /\ Item("ct", <<t, i>>, <<e, i>>) \in RealItems /\ Item("ss", <<t, i>>, <<e, i>>) \in RealItems
        /\ Item("sig", <<t, i>>, Nobody) \in RealItems
  BY <1>1, <1>2, <1>3
<1> QED BY <1>4 DEF BatchesOf, PublicKeys, PrivateKeys, Ciphertexts, Secrets, Signatures

\* What was read from a file that holds a batch is that batch.
LEMMA ReceivedLemma ==
  ASSUME FilesInv, task \in Tasks, NEW k \in 1 .. Len(received), NEW n \in Nat,
         NEW items \in BatchesOf(n), files[Inputs(task)[k]] = Text(items)
  PROVE  batch_size = n /\ received[k] = items
<1>1. task # "none"
  BY DEF Tasks
<1>2. batch_size \in Nat
  BY <1>1 DEF FilesInv, FilesType
<1>3. /\ Accepts(Text(items), batch_size)
      /\ received[k] = Parse(Text(items), batch_size)
  BY <1>1 DEF FilesInv, RunInv
<1> QED BY <1>2, <1>3, ReadBackLemma

\* The last output completes what is handed over, if the inputs were.
LEMMA CompleteLemma ==
  ASSUME FilesInv, WriteOutput, LastOutput, Range(Inputs(task)) \subseteq intact
  PROVE  IntactInv'
<1>0. PICK b, now : b = batch_size /\ now = tasks
  OBVIOUS
<1>1. /\ produced # << >> /\ Exit /\ UNCHANGED <<algorithm, tasks>>
      /\ intact' = Stale(Output) \cup Range(Outputs(task))
      /\ files' = [files EXCEPT ![Output] = Text(produced[written + 1])]
  BY DEF WriteOutput, Success
<1>2. /\ task \in Tasks /\ task # "verify" /\ b \in 1 .. MaxBatch /\ b \in Nat
      /\ Output \in FileNames /\ Output = Outputs(task)[written + 1]
      /\ written \in 0 .. Len(Outputs(task)) - 1 /\ Len(Outputs(task)) \in 1 .. 2
  BY <1>0, <1>1, OutputLemma, ItemDigitsAssumption
<1>3. /\ DOMAIN files = FileNames /\ intact \subseteq FileNames /\ tasks \in Nat
      /\ algorithm \in {"kyber", "dilithium"}
  BY DEF FilesInv, FilesType
<1>4. /\ produced = Results(task, received) /\ Len(received) = Len(Inputs(task))
      /\ written = 1 => /\ files[Outputs(task)[1]] = Text(produced[1])
                        /\ intact \cap MadeFrom(Outputs(task)[1]) = {}
  BY <1>1 DEF FilesInv, RunInv
<1>5. /\ files'[Output] = Text(produced[written + 1])
      /\ \A other \in FileNames \ {Output} : files'[other] = files[other]
  BY <1>1, <1>2, <1>3
<1>6. now \in Nat /\ now \in 0 .. tasks'
  BY <1>0, <1>1, <1>3
<1>7. CASE task = "keypair"
  <2>1. /\ Outputs(task) = <<"public_key", "private_key">> /\ written = 1 /\ Output = "private_key"
    BY <1>2, <1>7 DEF Outputs, LastOutput
  <2>2. produced = <<PublicKeys(now, b), PrivateKeys(now, b)>>
    BY <1>0, <1>4, <1>7 DEF Results, keypair_batch, PublicKeys, PrivateKeys
  <2>3. Range(Outputs(task)) = {"public_key", "private_key"}
    BY <2>1 DEF Range
  <2>4. intact' = {"public_key", "private_key"}
    BY <1>1, <1>3, <2>1, <2>3, MadeFromLemma DEF Stale
  <2>5. "public_key" \in FileNames
    BY <1>3, NamesLemma DEF KyberFiles, DilithiumFiles
  <2>6. /\ files'["public_key"] = Text(PublicKeys(now, b))
        /\ files'["private_key"] = Text(PrivateKeys(now, b))
    BY <1>4, <1>5, <2>1, <2>2, <2>5
  <2>7. HandedOver(now, b, now)'
    BY <2>4, <2>6 DEF HandedOver
  <2> QED BY <1>2, <1>6, <2>7 DEF IntactInv
<1>8. ASSUME Inputs(task) # << >>
      PROVE  intact # {}
  <2>1. Inputs(task)[1] \in Range(Inputs(task))
    BY <1>2, <1>8 DEF Tasks, Inputs, Range
  <2> QED BY <2>1
<1>9. ASSUME intact # {}
      PROVE  \E t \in Nat, n \in Nat, e \in Nat :
               /\ t \in 0 .. tasks' /\ n \in 1 .. MaxBatch /\ e \in 0 .. tasks'
               /\ HandedOver(t, n, e)
  <2>1. PICK t \in 0 .. tasks, n \in 1 .. MaxBatch, e \in 0 .. tasks : HandedOver(t, n, e)
    BY <1>9 DEF FilesInv, IntactInv
  <2>2. t \in Nat /\ n \in Nat /\ e \in Nat /\ tasks' = tasks
    BY <1>1, ItemDigitsAssumption
  <2> QED BY <2>1, <2>2
<1>10. CASE task = "encaps"
  <2>0. Inputs(task) = <<"public_key">> /\ Outputs(task) = <<"ciphertext", "shared_key_encap">>
    BY <1>10 DEF Inputs, Outputs
  <2>1. written = 1 /\ Output = "shared_key_encap"
    BY <1>2, <2>0 DEF LastOutput
  <2>2. PICK t \in Nat, n \in Nat, e \in Nat :
          /\ t \in 0 .. tasks' /\ n \in 1 .. MaxBatch /\ e \in 0 .. tasks'
          /\ HandedOver(t, n, e)
    BY <1>8, <1>9, <2>0
  <2>3. b = n /\ received[1] = PublicKeys(t, n)
    <3>1. 1 \in 1 .. Len(received) /\ files[Inputs(task)[1]] = Text(PublicKeys(t, n))
      BY <1>4, <2>0, <2>2 DEF HandedOver
    <3> QED BY <1>0, <1>2, <3>1, BatchesLemma, ReceivedLemma
  <2>4. produced = <<Ciphertexts(t, n, now), Secrets(t, n, now)>>
    <3>1. DOMAIN PublicKeys(t, n) = 1 .. n /\ \A i \in 1 .. n : PublicKeys(t, n)[i].pair = <<t, i>>
      BY DEF PublicKeys, Item
    <3>2. encapsulate_batch(PublicKeys(t, n)) = <<Ciphertexts(t, n, now), Secrets(t, n, now)>>
      BY <1>0, <3>1 DEF encapsulate_batch, Ciphertexts, Secrets
    <3> QED BY <1>4, <1>10, <2>3, <3>2 DEF Results
  <2>5. Range(Outputs(task)) = {"ciphertext", "shared_key_encap"}
    BY <2>0 DEF Range
  <2>6. intact' = (intact \ {"shared_key_decap"}) \cup {"ciphertext", "shared_key_encap"}
    BY <1>1, <2>1, <2>5, MadeFromLemma DEF Stale
  <2>7. /\ intact \cap {"ciphertext", "shared_key_encap", "shared_key_decap"} = {}
        /\ files["ciphertext"] = Text(Ciphertexts(t, n, now))
    BY <1>4, <2>0, <2>1, <2>4, MadeFromLemma
  <2>8. "ciphertext" \in FileNames
    BY <1>2, <1>3, <1>10, NamesLemma DEF KyberFiles, Tasks
  <2>9. /\ files'["ciphertext"] = Text(Ciphertexts(t, n, now))
        /\ files'["shared_key_encap"] = Text(Secrets(t, n, now))
    BY <1>5, <2>1, <2>4, <2>7, <2>8
  <2>10. \A x \in intact : files'[x] = files[x]
    BY <1>3, <1>5, <2>1, <2>7
  <2>11. HandedOver(t, n, now)'
    BY <1>1, <2>2, <2>6, <2>7, <2>9, <2>10 DEF HandedOver
  <2> QED BY <1>6, <2>2, <2>11 DEF IntactInv
<1>11. CASE task = "decaps"
  <2>0. Inputs(task) = <<"ciphertext", "private_key">> /\ Outputs(task) = <<"shared_key_decap">>
    BY <1>11 DEF Inputs, Outputs
  <2>1. written = 0 /\ Output = "shared_key_decap"
    BY <1>2, <2>0 DEF LastOutput
  <2>2. PICK t \in Nat, n \in Nat, e \in Nat :
          /\ t \in 0 .. tasks' /\ n \in 1 .. MaxBatch /\ e \in 0 .. tasks'
          /\ HandedOver(t, n, e)
    BY <1>8, <1>9, <2>0
  <2>3. "ciphertext" \in intact
    BY <2>0 DEF Range
  <2>4. b = n /\ received[1] = Ciphertexts(t, n, e)
    <3>1. 1 \in 1 .. Len(received) /\ files[Inputs(task)[1]] = Text(Ciphertexts(t, n, e))
      BY <1>4, <2>0, <2>2, <2>3 DEF HandedOver
    <3> QED BY <1>0, <1>2, <3>1, BatchesLemma, ReceivedLemma
  <2>5. received[2] = PrivateKeys(t, n)
    <3>1. 2 \in 1 .. Len(received) /\ files[Inputs(task)[2]] = Text(PrivateKeys(t, n))
      BY <1>4, <2>0, <2>2 DEF HandedOver
    <3> QED BY <1>0, <1>2, <3>1, BatchesLemma, ReceivedLemma
  <2>6. produced = <<Secrets(t, n, e)>>
    <3> DEFINE ct == Ciphertexts(t, n, e)
               sk == PrivateKeys(t, n)
    <3>1. DOMAIN ct = 1 .. n /\ \A i \in 1 .. n : ct[i].pair = <<t, i>> /\ ct[i].by = <<e, i>> /\ sk[i].pair = <<t, i>>
      BY DEF Ciphertexts, PrivateKeys, Item
    <3> HIDE DEF ct, sk
    <3>2. decapsulate_batch(ct, sk) = <<Secrets(t, n, e)>>
      BY <3>1 DEF decapsulate_batch, Secrets
    <3>3. received[1] = ct /\ received[2] = sk
      BY <2>4, <2>5 DEF ct, sk
    <3> QED BY <1>4, <1>11, <3>2, <3>3 DEF Results
  <2>7. Range(Outputs(task)) = {"shared_key_decap"}
    BY <2>0 DEF Range
  <2>8. intact' = intact \cup {"shared_key_decap"}
    BY <1>1, <2>1, <2>7, MadeFromLemma DEF Stale
  <2>9. files'["shared_key_decap"] = Text(Secrets(t, n, e))
    BY <1>5, <2>1, <2>6
  <2>10. \A x \in intact : x # "shared_key_decap" => files'[x] = files[x]
    BY <1>3, <1>5, <2>1
  <2>11. HandedOver(t, n, e)'
    BY <1>1, <2>2, <2>3, <2>8, <2>9, <2>10 DEF HandedOver
  <2> QED BY <2>2, <2>11 DEF IntactInv
<1>12. CASE task = "sign"
  <2>0. Inputs(task) = <<"private_key">> /\ Outputs(task) = <<"signature">>
    BY <1>12 DEF Inputs, Outputs
  <2>1. written = 0 /\ Output = "signature"
    BY <1>2, <2>0 DEF LastOutput
  <2>2. PICK t \in Nat, n \in Nat, e \in Nat :
          /\ t \in 0 .. tasks' /\ n \in 1 .. MaxBatch /\ e \in 0 .. tasks'
          /\ HandedOver(t, n, e)
    BY <1>8, <1>9, <2>0
  <2>3. received[1] = PrivateKeys(t, n)
    <3>1. 1 \in 1 .. Len(received) /\ files[Inputs(task)[1]] = Text(PrivateKeys(t, n))
      BY <1>4, <2>0, <2>2 DEF HandedOver
    <3> QED BY <1>0, <1>2, <3>1, BatchesLemma, ReceivedLemma
  <2>4. produced = <<Signatures(t, n)>>
    BY <1>4, <1>12, <2>3 DEF Results, sign_batch, PrivateKeys, Item, Signatures
  <2>5. Range(Outputs(task)) = {"signature"}
    BY <2>0 DEF Range
  <2>6. intact' = intact \cup {"signature"}
    BY <1>1, <2>1, <2>5, MadeFromLemma DEF Stale
  <2>7. files'["signature"] = Text(Signatures(t, n))
    BY <1>5, <2>1, <2>4
  <2>8. \A x \in intact : x # "signature" => files'[x] = files[x]
    BY <1>3, <1>5, <2>1
  <2>9. HandedOver(t, n, e)'
    BY <1>1, <2>2, <2>6, <2>7, <2>8 DEF HandedOver
  <2> QED BY <2>2, <2>9 DEF IntactInv
<1> QED BY <1>2, <1>7, <1>10, <1>11, <1>12 DEF Tasks

LEMMA WriteStep ==
  ASSUME FilesInv, WriteOutput
  PROVE  FilesInv'
<1>1. /\ produced # << >> /\ UNCHANGED <<algorithm, tasks>>
      /\ files' = [files EXCEPT ![Output] = Text(produced[written + 1])]
  BY DEF WriteOutput
<1>2. /\ task \in Tasks /\ task # "verify" /\ batch_size \in 1 .. MaxBatch
      /\ Output \in FileNames /\ Output = Outputs(task)[written + 1]
      /\ Orderly(Text(produced[written + 1]))
      /\ written \in 0 .. Len(Outputs(task)) - 1 /\ Len(Outputs(task)) \in 1 .. 2
  BY <1>1, OutputLemma
<1>3. /\ DOMAIN files = FileNames /\ intact \subseteq FileNames /\ tasks \in Nat
      /\ algorithm \in {"kyber", "dilithium"}
      /\ \A name \in FileNames : Orderly(files[name])
  BY DEF FilesInv, FilesType
<1>4. /\ DOMAIN files' = FileNames
      /\ \A name \in FileNames : Orderly(files'[name])
      /\ \A other \in FileNames \ {Output} : files'[other] = files[other]
      /\ files'[Output] = Text(produced[written + 1])
  BY <1>1, <1>2, <1>3
<1>5. FileNames' = FileNames /\ Tasks' = Tasks
  BY <1>1, FixedNames
<1>6. intact' \subseteq FileNames
  <2>1. Range(Outputs(task)) \subseteq FileNames
    BY <1>2 DEF FileNames
  <2> QED BY <1>3, <2>1 DEF WriteOutput, Success, Stale
<1>7. CASE LastOutput
  <2>1. Exit
    BY <1>7 DEF WriteOutput
  <2>2. FilesType'
    BY <1>1, <1>3, <1>4, <1>5, <1>6, <2>1 DEF FilesType, Exit
  <2>3. CASE Range(Inputs(task)) \subseteq intact
    BY <1>7, <2>1, <2>2, <2>3, CompleteLemma, ExitLemma DEF FilesInv
  <2>4. CASE ~(Range(Inputs(task)) \subseteq intact)
    <3>1. intact' = intact \ MadeFrom(Output)
      BY <1>7, <2>4 DEF WriteOutput, Success, Stale
    <3> QED BY <1>1, <1>2, <1>4, <2>1, <2>2, <3>1, StaleLemma, ExitLemma DEF FilesInv
  <2> QED BY <2>3, <2>4
<1>8. CASE ~LastOutput
  <2>1. /\ intact' = intact \ MadeFrom(Output) /\ written' = written + 1
        /\ UNCHANGED <<task, batch_size, received, produced>>
    BY <1>8 DEF WriteOutput, Stale
  <2>2. FilesType'
    BY <1>1, <1>2, <1>3, <1>4, <1>5, <1>6, <2>1 DEF FilesType
  <2>3. IntactInv'
    BY <1>1, <1>2, <1>4, <2>1, StaleLemma
  <2>4. written = 0 /\ Len(Outputs(task)) = 2 /\ Output = Outputs(task)[1]
    <3>1. \A l \in 1 .. 2 : \A w \in 0 .. l - 1 : w + 1 # l => w = 0 /\ l = 2
      OBVIOUS
    <3>2. written = 0 /\ Len(Outputs(task)) = 2
      BY <1>2, <1>8, <3>1 DEF LastOutput
    <3> QED BY <1>2, <3>2
  <2>5. /\ Len(received) = Len(Inputs(task)) /\ produced = Results(task, received)
        /\ received \in Seq(BatchesOf(batch_size)) /\ task # "none"
        /\ \A k \in 1 .. Len(received) :
             /\ Accepts(files[Inputs(task)[k]], batch_size)
             /\ received[k] = Parse(files[Inputs(task)[k]], batch_size)
    BY <1>1, <1>2 DEF FilesInv, RunInv
  <2>6. \A k \in 1 .. Len(received) : files'[Inputs(task)[k]] = files[Inputs(task)[k]]
    <3>1. 1 \in 1 .. Len(Outputs(task))
      BY <2>4
    <3>2. \A k \in 1 .. Len(Inputs(task)) : Inputs(task)[k] \in FileNames /\ Inputs(task)[k] # Output
      BY <1>2, <1>3, <2>4, <3>1, TaskLemma
    <3> QED BY <1>4, <2>5, <3>2
  <2>7. Results(task, received)' = Results(task, received)
    BY <1>1, <2>1 DEF Results, keypair_batch, encapsulate_batch
  <2>8. Len(Inputs(task)) \in 0 .. 2
    BY <1>2, <1>3, TaskLemma
  <2>9. files'[Outputs(task)[1]] = Text(produced[1]) /\ written' = 1
    BY <1>4, <2>1, <2>4
  <2>10. intact' \cap MadeFrom(Outputs(task)[1])' = {}
    <3>1. MadeFrom(Outputs(task)[1])' = MadeFrom(Outputs(task)[1])
      BY <1>5, <2>1 DEF MadeFrom
    <3> QED BY <2>1, <2>4, <3>1
  <2>11. RunInv'
    BY <1>1, <1>2, <2>1, <2>4, <2>5, <2>6, <2>7, <2>8, <2>9, <2>10 DEF RunInv
  <2> QED BY <2>2, <2>3, <2>11 DEF FilesInv
<1> QED BY <1>7, <1>8

LEMMA FilesInvariant == FilesSpec => []FilesInv
<1>1. FilesInv /\ [FilesNext]_fileVars => FilesInv'
  <2> SUFFICES ASSUME FilesInv, [FilesNext]_fileVars PROVE FilesInv'
    OBVIOUS
  <2>1. CASE UNCHANGED fileVars
    <3>1. FilesType' /\ IntactInv'
      BY <2>1, QuietLemma DEF FilesInv, FilesType, fileVars
    <3>2. Results(task, received)' = Results(task, received)
      BY <2>1 DEF fileVars, Results, keypair_batch, encapsulate_batch
    <3>3. \A name : MadeFrom(name)' = MadeFrom(name)
      BY <2>1, FixedNames DEF fileVars, MadeFrom
    <3>4. RunInv'
      BY <2>1, <3>2, <3>3 DEF FilesInv, RunInv, fileVars
    <3> QED BY <3>1, <3>4 DEF FilesInv
  <2> QED BY <2>1, StartStep, ReadStep, ComputeStep, StopStep, WriteStep, WriteFailsStep DEF FilesNext
<1> QED BY <1>1, FilesInitLemma, PTL DEF FilesSpec

\* Whatever the number of items, of digits and of programs: those that
\* succeed hand over what they made, and no program uses a broken item.
THEOREM FilesCarryItemsTheorem == FilesSpec => []FilesCarryItems
<1>1. ASSUME FilesInv
      PROVE  FilesCarryItems
  <2>1. intact # {} => \E t \in Nat, n \in Nat, e \in Nat : n \in 1 .. MaxBatch /\ HandedOver(t, n, e)
    <3>1. (0 .. tasks) \subseteq Nat /\ (1 .. MaxBatch) \subseteq Nat
      BY <1>1, ItemDigitsAssumption DEF FilesInv, FilesType
    <3> QED BY <1>1, <3>1 DEF FilesInv, IntactInv
  <2>2. {"shared_key_encap", "shared_key_decap"} \subseteq intact =>
          files["shared_key_encap"] = files["shared_key_decap"]
    BY <2>1 DEF HandedOver
  <2>3. ASSUME HasInputs, task = "verify", {"public_key", "signature"} \subseteq intact
        PROVE  verify_batch(received[2], received[1])
    <3>1. Inputs(task) = <<"public_key", "signature">> /\ Len(received) = 2 /\ task \in Tasks
      BY <1>1, <2>3 DEF HasInputs, Inputs, FilesInv, FilesType
    <3>2. PICK t \in Nat, n \in Nat, e \in Nat : n \in 1 .. MaxBatch /\ HandedOver(t, n, e)
      BY <2>1, <2>3
    <3>3. received[1] = PublicKeys(t, n)
      <4>1. 1 \in 1 .. Len(received) /\ files[Inputs(task)[1]] = Text(PublicKeys(t, n))
        BY <3>1, <3>2 DEF HandedOver
      <4> QED BY <1>1, <3>1, <4>1, BatchesLemma, ReceivedLemma
    <3>4. received[2] = Signatures(t, n)
      <4>1. 2 \in 1 .. Len(received) /\ files[Inputs(task)[2]] = Text(Signatures(t, n))
        BY <2>3, <3>1, <3>2 DEF HandedOver
      <4> QED BY <1>1, <3>1, <4>1, BatchesLemma, ReceivedLemma
    <3>5. \A i \in 1 .. n : PublicKeys(t, n)[i].pair = <<t, i>> /\ Signatures(t, n)[i].pair = <<t, i>>
      BY ONLY TRUE DEF PublicKeys, Signatures, Item
    <3>6. DOMAIN Signatures(t, n) = 1 .. n
      BY ONLY TRUE DEF Signatures
    <3> QED BY ONLY <3>3, <3>4, <3>5, <3>6 DEF verify_batch
  <2>4. ASSUME NEW name \in intact
        PROVE  \E n \in 1 .. MaxBatch : Accepts(files[name], n)
    <3>1. PICK t \in Nat, n \in Nat, e \in Nat : n \in 1 .. MaxBatch /\ HandedOver(t, n, e)
      BY <2>1, <2>4
    <3>2. name \in KyberFiles \cup DilithiumFiles
      BY <1>1, <2>4, NamesLemma DEF FilesInv, FilesType
    <3>3. \E items \in BatchesOf(n) : files[name] = Text(items)
      BY <2>4, <3>1, <3>2, BatchesLemma DEF HandedOver, KyberFiles, DilithiumFiles
    <3>4. Accepts(files[name], n)
      BY <3>3, TextLemma DEF Accepts
    <3> QED BY <3>1, <3>4
  <2>5. ASSUME NEW k \in DOMAIN received, NEW i \in 1 .. batch_size
        PROVE  received[k][i] # Garbage
    <3>1. received \in Seq(BatchesOf(batch_size))
      BY <1>1 DEF FilesInv, RunInv
    <3>2. received[k] \in BatchesOf(batch_size)
      BY <3>1
    <3>3. received[k][i] \in RealItems
      BY <3>2 DEF BatchesOf
    <3>4. received[k][i].what # "garbage"
      BY <3>3 DEF RealItems, Kinds
    <3> QED BY <3>4 DEF Garbage, Item
  <2> QED BY <2>2, <2>3, <2>4, <2>5 DEF FilesCarryItems
<1> QED BY <1>1, FilesInvariant, PTL

-----------------------------------------------------------------------------
(***************************************************************************)
(* Pools.                                                                  *)
(***************************************************************************)
AreaLists == Seq([from : Int, to : Int])

\* ALIGN_TO_256_BYTES never makes a size smaller (api.cuh:25).
LEMMA AlignedLemma ==
  ASSUME NEW x \in Nat
  PROVE  ALIGN_TO_256_BYTES(x) \in Nat /\ ALIGN_TO_256_BYTES(x) >= x
  BY DEF ALIGN_TO_256_BYTES

\* An element of a sequence is an element of its set; stated once because
\* the prover does not find it behind a concatenation.
LEMMA ElementLemma ==
  ASSUME NEW T, NEW s \in Seq(T), NEW i \in 1 .. Len(s)
  PROVE  s[i] \in T
  OBVIOUS

\* Two runs of areas that meet at b, as the pointers of api.cu make them
\* meet, are one run in order.
LEMMA ConcatLemma ==
  ASSUME NEW s \in AreaLists, NEW t \in AreaLists, NEW a \in Int, NEW b \in Int, NEW c \in Int,
         InOrder(s, a, b), InOrder(t, b, c)
  PROVE  s \o t \in AreaLists /\ InOrder(s \o t, a, c)
<1> DEFINE st == s \o t
<1>1. st \in AreaLists /\ Len(st) = Len(s) + Len(t)
  BY DEF AreaLists
<1>2. \A i \in 1 .. Len(s) : st[i] = s[i]
  BY DEF AreaLists
<1>3. \A i \in 1 .. Len(t) : st[Len(s) + i] = t[i]
  BY DEF AreaLists
<1>9. \A k \in 1 .. Len(st) : st[k] \in [from : Int, to : Int]
  BY <1>1, ElementLemma DEF AreaLists
<1>4. Len(s) \in Nat /\ Len(t) \in Nat /\ Len(s) > 0 /\ Len(t) > 0
  BY DEF AreaLists, InOrder
<1>5. a <= st[1].from /\ st[Len(st)].to <= c
  BY <1>1, <1>2, <1>3, <1>4 DEF InOrder
<1>6. \A i \in 1 .. Len(st) : st[i].from <= st[i].to
  <2> SUFFICES ASSUME NEW i \in 1 .. Len(st) PROVE st[i].from <= st[i].to
    OBVIOUS
  <2>1. CASE i <= Len(s)
    BY <2>1, <1>2, <1>4 DEF InOrder
  <2>2. CASE i > Len(s)
    <3>1. i - Len(s) \in 1 .. Len(t) /\ Len(s) + (i - Len(s)) = i
      BY <2>2, <1>1, <1>4
    <3> QED BY <3>1, <1>3 DEF InOrder
  <2> QED BY <2>1, <2>2, <1>1, <1>4
<1>7. \A i \in 1 .. Len(st) - 1 : st[i].to <= st[i + 1].from
  <2> SUFFICES ASSUME NEW i \in 1 .. Len(st) - 1 PROVE st[i].to <= st[i + 1].from
    OBVIOUS
  <2>1. CASE i < Len(s)
    BY <2>1, <1>2, <1>4 DEF InOrder
  <2>2. CASE i = Len(s)
    <3>1. st[i].to <= b /\ b <= st[i + 1].from
      BY <2>2, <1>2, <1>3, <1>4 DEF InOrder
    <3>2. st[i] \in [from : Int, to : Int] /\ st[i + 1] \in [from : Int, to : Int]
      BY <1>1, <1>4, <1>9, <2>2
    <3> HIDE DEF st
    <3>3. st[i].to \in Int /\ st[i + 1].from \in Int
      BY ONLY <3>2
    <3> QED BY ONLY <3>1, <3>3, b \in Int
  <2>3. CASE i > Len(s)
    <3>1. i - Len(s) \in 1 .. Len(t) - 1 /\ Len(s) + (i - Len(s)) = i
          /\ Len(s) + (i - Len(s) + 1) = i + 1 /\ i - Len(s) + 1 \in 1 .. Len(t)
      BY <2>3, <1>1, <1>4
    <3> QED BY <3>1, <1>3 DEF InOrder
  <2> QED BY <2>1, <2>2, <2>3, <1>1, <1>4
<1>10. InOrder(st, a, c)
  <2> HIDE DEF st
  <2> QED BY ONLY <1>1, <1>4, <1>5, <1>6, <1>7 DEF InOrder
<1> QED BY <1>1, <1>10

\* The parts of a signature fill exactly CRYPTO_BYTES.
LEMMA SignatureLemma ==
  ASSUME NEW d \in {2, 3, 5}, NEW sig \in Nat
  PROVE  /\ Signature(d, sig) \in AreaLists
         /\ InOrder(Signature(d, sig), sig, sig + CRYPTO_BYTES(d))
  BY DEF Signature, AreaLists, InOrder, Area, CRYPTO_BYTES, SEEDBYTES, DILITHIUM_L, DILITHIUM_K, OMEGA,
         POLYZ_PACKEDBYTES

\* The parts of a secret key fill exactly CRYPTO_SECRETKEYBYTES.
LEMMA SecretKeyLemma ==
  ASSUME NEW d \in {2, 3, 5}, NEW sk \in Nat
  PROVE  /\ SecretKey(d, sk) \in AreaLists
         /\ InOrder(SecretKey(d, sk), sk, sk + CRYPTO_SECRETKEYBYTES(d))
  BY DEF SecretKey, AreaLists, InOrder, Area, CRYPTO_SECRETKEYBYTES, SEEDBYTES, DILITHIUM_L,
         DILITHIUM_K, POLYETA_PACKEDBYTES, POLYT0_PACKEDBYTES

\* The parts of a public key fill exactly CRYPTO_PUBLICKEYBYTES.
LEMMA PublicKeyLemma ==
  ASSUME NEW d \in {2, 3, 5}, NEW pk \in Nat
  PROVE  /\ PublicKey(d, pk) \in AreaLists
         /\ InOrder(PublicKey(d, pk), pk, pk + CRYPTO_PUBLICKEYBYTES(d))
  BY DEF PublicKey, AreaLists, InOrder, Area, CRYPTO_PUBLICKEYBYTES, SEEDBYTES, DILITHIUM_K,
         POLYT1_PACKEDBYTES

\* The sizes params.h derives are natural numbers.
LEMMA SizesLemma ==
  ASSUME NEW d \in {2, 3, 5}
  PROVE  /\ CRYPTO_PUBLICKEYBYTES(d) \in Nat /\ CRYPTO_SECRETKEYBYTES(d) \in Nat
         /\ CRYPTO_BYTES(d) \in Nat /\ W1Size(d) \in Nat
         /\ SEEDBYTES \in Nat /\ CRHBYTES \in Nat /\ POLY \in Nat
         /\ DILITHIUM_K(d) * POLY \in Nat /\ DILITHIUM_L(d) * POLY \in Nat
         /\ DILITHIUM_K(d) * DILITHIUM_L(d) * POLY \in Nat
  BY DEF CRYPTO_PUBLICKEYBYTES, CRYPTO_SECRETKEYBYTES, CRYPTO_BYTES, W1Size, SEEDBYTES, CRHBYTES,
         POLY, INT32, DILITHIUM_K, DILITHIUM_L, OMEGA, POLYT1_PACKEDBYTES, POLYT0_PACKEDBYTES,
         POLYZ_PACKEDBYTES, POLYW1_PACKEDBYTES, POLYETA_PACKEDBYTES

\* AreaLists in order stay so when the room behind them is larger.
LEMMA WeakenLemma ==
  ASSUME NEW s \in AreaLists, NEW a \in Int, NEW b \in Int, NEW c \in Int,
         InOrder(s, a, b), b <= c
  PROVE  InOrder(s, a, c)
<1>1. Len(s) \in 1 .. Len(s)
  BY DEF AreaLists, InOrder
<1>2. s[Len(s)] \in [from : Int, to : Int]
  BY <1>1, ElementLemma DEF AreaLists
<1> QED BY <1>2 DEF InOrder

\* The areas of crypto_sign_keypair fit the row the wrapper allocates.
LEMMA KeypairPoolLemma ==
  ASSUME NEW d \in {2, 3, 5}
  PROVE  InOrder(keypair_layout(d), 0, keypair_size(d))
<1> DEFINE sk == ALIGN_TO_256_BYTES(CRYPTO_PUBLICKEYBYTES(d))
           t1 == sk + ALIGN_TO_256_BYTES(CRYPTO_SECRETKEYBYTES(d))
           tail == <<Area(t1, DILITHIUM_K(d) * POLY)>>
<1>1. /\ sk \in Nat /\ t1 \in Nat
      /\ CRYPTO_PUBLICKEYBYTES(d) <= sk /\ sk + CRYPTO_SECRETKEYBYTES(d) <= t1
  BY SizesLemma, AlignedLemma
<1> HIDE DEF sk, t1
<1>2. tail \in AreaLists /\ InOrder(tail, t1, t1 + DILITHIUM_K(d) * POLY)
  BY <1>1, SizesLemma DEF AreaLists, InOrder, Area
<1>3. PublicKey(d, 0) \in AreaLists /\ InOrder(PublicKey(d, 0), 0, sk)
  BY <1>1, PublicKeyLemma, WeakenLemma, SizesLemma
<1>4. SecretKey(d, sk) \in AreaLists /\ InOrder(SecretKey(d, sk), sk, t1)
  <2>1. SecretKey(d, sk) \in AreaLists /\ InOrder(SecretKey(d, sk), sk, sk + CRYPTO_SECRETKEYBYTES(d))
    BY <1>1, SecretKeyLemma
  <2> QED BY <2>1, <1>1, WeakenLemma, SizesLemma
<1>5. PublicKey(d, 0) \o SecretKey(d, sk) \in AreaLists
      /\ InOrder(PublicKey(d, 0) \o SecretKey(d, sk), 0, t1)
  BY <1>1, <1>3, <1>4, ConcatLemma
<1>6. InOrder(PublicKey(d, 0) \o SecretKey(d, sk) \o tail, 0, t1 + DILITHIUM_K(d) * POLY)
  BY <1>1, <1>2, <1>5, ConcatLemma, SizesLemma
<1> QED BY <1>6 DEF keypair_layout, keypair_size, sk, t1

\* The areas of a slot of the predict path fit the row of the temporary pool.
LEMMA TempPoolLemma ==
  ASSUME NEW d \in {2, 3, 5}, NEW m \in Nat
  PROVE  InOrder(temp_layout(d), 0, temp_size(d, m))
<1> DEFINE KP == DILITHIUM_K(d) * POLY
           LP == DILITHIUM_L(d) * POLY
           mu == ALIGN_TO_256_BYTES(CRYPTO_BYTES(d))
           y == mu + ALIGN_TO_256_BYTES(CRHBYTES + W1Size(d))
           z == y + LP
           w0 == z + LP
           w1 == w0 + KP
           cp == w1 + KP
           bytes == <<Area(mu, CRHBYTES), Area(mu + CRHBYTES, W1Size(d))>>
           polys == <<Area(y, LP), Area(z, LP), Area(w0, KP), Area(w1, KP), Area(cp, POLY)>>
<1>1. KP \in Nat /\ LP \in Nat /\ POLY \in Nat /\ POLY <= KP
      /\ 2 * DILITHIUM_L(d) * POLY = LP + LP /\ 3 * DILITHIUM_K(d) * POLY = KP + KP + KP
  BY DEF DILITHIUM_K, DILITHIUM_L, POLY, INT32
<1>2. mu \in Nat /\ y \in Nat /\ CRYPTO_BYTES(d) <= mu /\ mu + CRHBYTES + W1Size(d) <= y
  BY SizesLemma, AlignedLemma
<1>3. temp_size(d, m) = y + (LP + LP) + (KP + KP + KP)
  BY <1>1 DEF temp_size
<1> HIDE DEF KP, LP, mu, y
<1>4. polys \in AreaLists /\ InOrder(polys, y, temp_size(d, m))
  BY <1>1, <1>2, <1>3 DEF AreaLists, InOrder, Area
<1>5. bytes \in AreaLists /\ InOrder(bytes, mu, y)
  BY <1>2, SizesLemma DEF AreaLists, InOrder, Area
<1>6. Signature(d, 0) \in AreaLists /\ InOrder(Signature(d, 0), 0, mu)
  BY <1>2, SignatureLemma, WeakenLemma, SizesLemma
<1>7. Signature(d, 0) \o bytes \in AreaLists /\ InOrder(Signature(d, 0) \o bytes, 0, y)
  BY <1>2, <1>5, <1>6, ConcatLemma
<1>8. InOrder(Signature(d, 0) \o bytes \o polys, 0, temp_size(d, m))
  <2>1. temp_size(d, m) \in Int
    BY <1>1, <1>2, <1>3
  <2> QED BY <1>2, <1>4, <1>7, <2>1, ConcatLemma
<1> QED BY <1>8 DEF temp_layout, KP, LP, mu, y

\* The areas of crypto_sign_verify fit the row the wrapper allocates.
LEMMA VerifyPoolLemma ==
  ASSUME NEW d \in {2, 3, 5}, NEW m \in Nat
  PROVE  InOrder(verify_layout(d, m), 0, verify_size(d, m))
<1> DEFINE KP == DILITHIUM_K(d) * POLY
           LP == DILITHIUM_L(d) * POLY
           KLP == DILITHIUM_K(d) * DILITHIUM_L(d) * POLY
           pk == ALIGN_TO_256_BYTES(CRYPTO_BYTES(d))
           muprime == pk + ALIGN_TO_256_BYTES(CRYPTO_PUBLICKEYBYTES(d))
           mu == muprime + ALIGN_TO_256_BYTES(SEEDBYTES + m)
           ctilde == mu + ALIGN_TO_256_BYTES(CRHBYTES + W1Size(d))
           mat == ctilde + ALIGN_TO_256_BYTES(SEEDBYTES)
           z == mat + KLP
           t1 == z + LP
           w1prime == t1 + KP
           h == w1prime + KP
           cp == h + KP
           verdict == cp + POLY
           bytes == <<Area(muprime, SEEDBYTES), Area(muprime + SEEDBYTES, m), Area(mu, CRHBYTES),
                      Area(mu + CRHBYTES, W1Size(d)), Area(ctilde, SEEDBYTES)>>
           polys == <<Area(mat, KLP), Area(z, LP), Area(t1, KP), Area(w1prime, KP), Area(h, KP),
                      Area(cp, POLY), Area(verdict, INT32)>>
<1>1. /\ KP \in Nat /\ LP \in Nat /\ KLP \in Nat /\ POLY \in Nat /\ INT32 \in Nat
      /\ 3 * DILITHIUM_K(d) * POLY = KP + KP + KP
  BY DEF DILITHIUM_K, DILITHIUM_L, POLY, INT32
<1>2. /\ pk \in Nat /\ muprime \in Nat /\ mu \in Nat /\ ctilde \in Nat /\ mat \in Nat
      /\ CRYPTO_BYTES(d) <= pk /\ pk + CRYPTO_PUBLICKEYBYTES(d) <= muprime
      /\ muprime + SEEDBYTES + m <= mu /\ mu + CRHBYTES + W1Size(d) <= ctilde
      /\ ctilde + SEEDBYTES <= mat
  BY SizesLemma, AlignedLemma
<1>3. verify_size(d, m) = mat + KLP + LP + (KP + KP + KP) + POLY + INT32
  BY <1>1 DEF verify_size
<1> HIDE DEF KP, LP, KLP, pk, muprime, mu, ctilde, mat
<1>4. polys \in AreaLists /\ InOrder(polys, mat, verify_size(d, m))
  BY <1>1, <1>2, <1>3 DEF AreaLists, InOrder, Area
<1>5. bytes \in AreaLists /\ InOrder(bytes, muprime, mat)
  BY <1>2, SizesLemma DEF AreaLists, InOrder, Area
<1>6. Signature(d, 0) \in AreaLists /\ InOrder(Signature(d, 0), 0, pk)
  BY <1>2, SignatureLemma, WeakenLemma, SizesLemma
<1>7. PublicKey(d, pk) \in AreaLists /\ InOrder(PublicKey(d, pk), pk, muprime)
  <2>1. /\ PublicKey(d, pk) \in AreaLists
        /\ InOrder(PublicKey(d, pk), pk, pk + CRYPTO_PUBLICKEYBYTES(d))
    BY <1>2, PublicKeyLemma
  <2> QED BY <2>1, <1>2, WeakenLemma, SizesLemma
<1> DEFINE keys == Signature(d, 0) \o PublicKey(d, pk)
<1>8. keys \in AreaLists /\ InOrder(keys, 0, muprime)
  BY <1>2, <1>6, <1>7, ConcatLemma
<1>9. keys \o bytes \in AreaLists /\ InOrder(keys \o bytes, 0, mat)
  BY <1>2, <1>5, <1>8, ConcatLemma
<1>10. InOrder(keys \o bytes \o polys, 0, verify_size(d, m))
  <2>1. verify_size(d, m) \in Int
    BY <1>1, <1>2, <1>3
  <2> QED BY <1>2, <1>4, <1>9, <2>1, ConcatLemma
<1> QED BY <1>10 DEF verify_layout, KP, LP, KLP, pk, muprime, mu, ctilde, mat

\* The areas of crypto_sign_signature fit the row of the sign pool.
LEMMA SignPoolLemma ==
  ASSUME NEW d \in {2, 3, 5}, NEW m \in Nat
  PROVE  InOrder(sign_layout(d, m), 0, sign_size(d, m))
<1> DEFINE KP == DILITHIUM_K(d) * POLY
           LP == DILITHIUM_L(d) * POLY
           KLP == DILITHIUM_K(d) * DILITHIUM_L(d) * POLY
           sk == ALIGN_TO_256_BYTES(CRYPTO_BYTES(d))
           rho == sk + ALIGN_TO_256_BYTES(CRYPTO_SECRETKEYBYTES(d))
           tr == rho + ALIGN_TO_256_BYTES(SEEDBYTES)
           key == tr + ALIGN_TO_256_BYTES(SEEDBYTES + m)
           mu == key + SEEDBYTES
           w1_packed == mu + CRHBYTES
           rhoprime == key + ALIGN_TO_256_BYTES(SEEDBYTES + CRHBYTES + W1Size(d))
           mat == rhoprime + ALIGN_TO_256_BYTES(CRHBYTES)
           s1 == mat + KLP
           y == s1 + LP
           z == y + LP
           t0 == z + LP
           s2 == t0 + KP
           w1 == s2 + KP
           w0 == w1 + KP
           cp == w0 + KP
           bytes == <<Area(rho, SEEDBYTES), Area(tr, SEEDBYTES), Area(tr + SEEDBYTES, m),
                      Area(key, SEEDBYTES), Area(mu, CRHBYTES), Area(w1_packed, W1Size(d)),
                      Area(rhoprime, CRHBYTES)>>
           polys == <<Area(mat, KLP), Area(s1, LP), Area(y, LP), Area(z, LP), Area(t0, KP),
                      Area(s2, KP), Area(w1, KP), Area(w0, KP), Area(cp, POLY)>>
<1>1. /\ KP \in Nat /\ LP \in Nat /\ KLP \in Nat /\ POLY \in Nat
      /\ 3 * DILITHIUM_L(d) * POLY = LP + LP + LP
      /\ 4 * DILITHIUM_K(d) * POLY = KP + KP + KP + KP
  BY DEF DILITHIUM_K, DILITHIUM_L, POLY, INT32
<1>2. /\ sk \in Nat /\ rho \in Nat /\ tr \in Nat /\ key \in Nat /\ rhoprime \in Nat /\ mat \in Nat
      /\ CRYPTO_BYTES(d) <= sk /\ sk + CRYPTO_SECRETKEYBYTES(d) <= rho
      /\ rho + SEEDBYTES <= tr /\ tr + SEEDBYTES + m <= key
      /\ key + SEEDBYTES + CRHBYTES + W1Size(d) <= rhoprime
      /\ rhoprime + CRHBYTES <= mat
  BY SizesLemma, AlignedLemma
<1>3. sign_size(d, m) = mat + KLP + (LP + LP + LP) + (KP + KP + KP + KP) + POLY
  BY <1>1 DEF sign_size, sign_row
<1> HIDE DEF KP, LP, KLP, sk, rho, tr, key, rhoprime, mat
<1>4. polys \in AreaLists /\ InOrder(polys, mat, sign_size(d, m))
  BY <1>1, <1>2, <1>3 DEF AreaLists, InOrder, Area
<1>5. bytes \in AreaLists /\ InOrder(bytes, rho, mat)
  BY <1>2, SizesLemma DEF AreaLists, InOrder, Area
<1>6. Signature(d, 0) \in AreaLists /\ InOrder(Signature(d, 0), 0, sk)
  BY <1>2, SignatureLemma, WeakenLemma, SizesLemma
<1>7. SecretKey(d, sk) \in AreaLists /\ InOrder(SecretKey(d, sk), sk, rho)
  <2>1. /\ SecretKey(d, sk) \in AreaLists
        /\ InOrder(SecretKey(d, sk), sk, sk + CRYPTO_SECRETKEYBYTES(d))
    BY <1>2, SecretKeyLemma
  <2> QED BY <2>1, <1>2, WeakenLemma, SizesLemma
<1> DEFINE keys == Signature(d, 0) \o SecretKey(d, sk)
<1>8. keys \in AreaLists /\ InOrder(keys, 0, rho)
  BY <1>2, <1>6, <1>7, ConcatLemma
<1>9. keys \o bytes \in AreaLists /\ InOrder(keys \o bytes, 0, mat)
  BY <1>2, <1>5, <1>8, ConcatLemma
<1>10. InOrder(keys \o bytes \o polys, 0, sign_size(d, m))
  <2>1. sign_size(d, m) \in Int
    BY <1>1, <1>2, <1>3
  <2> QED BY <1>2, <1>4, <1>9, <2>1, ConcatLemma
<1> QED BY <1>10 DEF sign_layout, KP, LP, KLP, sk, rho, tr, key, rhoprime, mat

\* In every pool of every call the areas of api.cu lie in the row of the
\* wrapper without overlap, whatever the length of the message.
THEOREM PoolsFitTheorem == LayoutInit => PoolsFit
<1> SUFFICES ASSUME LayoutInit PROVE PoolsFit
  OBVIOUS
<1>1. level \in {2, 3, 5} /\ mlen \in Nat
  BY LengthsAssumption DEF LayoutInit
<1> QED BY <1>1, KeypairPoolLemma, SignPoolLemma, TempPoolLemma, VerifyPoolLemma DEF PoolsFit

\* cudaMallocPitch adds less than one granule to a row.
LEMMA PitchLemma ==
  ASSUME NEW b \in Nat, NEW g \in Nat \ {0}
  PROVE  Pitch(b, g) \in Nat /\ b <= Pitch(b, g) /\ Pitch(b, g) < b + g
<1> DEFINE x == b + g - 1
           q == x \div g
<1>1. x \in Nat
  OBVIOUS
<1>2. q \in Nat /\ q * g <= x /\ x < q * g + g
  BY <1>1
<1> QED BY <1>2 DEF Pitch

\* Rounding up to a granule of at most 16 KB keeps such sizes apart.
LEMMA PitchesApartLemma ==
  ASSUME NEW b \in Nat, NEW c \in Nat, NEW g \in Nat \ {0}, g <= 16384, c + 16384 <= b
  PROVE  Pitch(b, g) # Pitch(c, g)
<1>1. Pitch(b, g) \in Nat /\ b <= Pitch(b, g)
  BY PitchLemma
<1>2. Pitch(c, g) \in Nat /\ Pitch(c, g) < c + g
  BY PitchLemma
<1> QED BY <1>1, <1>2

\* A row of the sign pool is at least 16 KB longer than one of the
\* temporary pool: it also holds the matrix and the secret polynomials.
LEMMA RowsApartLemma ==
  ASSUME NEW d \in {2, 3, 5}, NEW m \in Nat, NEW g \in Nat \ {0}, g <= 16384
  PROVE  Pitch(sign_size(d, m), g) # Pitch(temp_size(d, m), g)
<1>1. ALIGN_TO_256_BYTES(SEEDBYTES + m) \in Nat
  BY SizesLemma, AlignedLemma
<1>2. \A t \in Nat :
        /\ sign_row(d, t) \in Nat /\ temp_size(d, m) \in Nat
        /\ temp_size(d, m) + 16384 <= sign_row(d, t)
  BY DEF sign_row, temp_size, ALIGN_TO_256_BYTES, CRYPTO_BYTES, CRYPTO_SECRETKEYBYTES, W1Size,
         SEEDBYTES, CRHBYTES, POLY, INT32, DILITHIUM_K, DILITHIUM_L, OMEGA, POLYT0_PACKEDBYTES,
         POLYZ_PACKEDBYTES, POLYW1_PACKEDBYTES, POLYETA_PACKEDBYTES
<1>3. /\ sign_size(d, m) \in Nat /\ temp_size(d, m) \in Nat
      /\ temp_size(d, m) + 16384 <= sign_size(d, m)
  BY <1>1, <1>2 DEF sign_size
<1> QED BY <1>3, PitchesApartLemma

\* A kernel of the signing loop that compares the two pitches it is given
\* finds the row of its item on the direct path and the row of its slot on
\* the predict path, for every message and every item and slot.
THEOREM PathsToldApartTheorem == LayoutInit => PathsToldApart
<1> SUFFICES ASSUME LayoutInit PROVE PathsToldApart
  OBVIOUS
<1>1. level \in {2, 3, 5} /\ mlen \in Nat
  BY LengthsAssumption DEF LayoutInit
<1>2. granularity \in Nat \ {0} /\ granularity <= 16384
  BY GranularitiesAssumption DEF LayoutInit
<1>3. Pitch(sign_size(level, mlen), granularity) # Pitch(temp_size(level, mlen), granularity)
  BY <1>1, <1>2, RowsApartLemma
<1> QED BY <1>3 DEF PathsToldApart, temp_idx_offset
-----------------------------------------------------------------------------
(***************************************************************************)
(* Calls.                                                                  *)
(***************************************************************************)
CommandKinds == {"clear", "upload", "kernel", "download"}
Places == {"ret", "h", "t1", "sig", "m", "pk", "sk", "all"}
Elements == [op : CommandKinds, area : Places, left : SUBSET Items]

\* Element e of the stream is operation m of a call.
Is(ops, e, m) == e.op = ops[m].op /\ e.area = ops[m].area

\* Item i still waits for operation m in stream s.
Pending(ops, s, m, i) == \E k \in 1 .. Len(s) : Is(ops, s[k], m) /\ i \in s[k].left

Different(ops) ==
  /\ Len(ops) \in Nat
  /\ \A m \in 1 .. Len(ops) : ops[m].op \in CommandKinds /\ ops[m].area \in Places
  /\ \A m, n \in 1 .. Len(ops) : ops[m].op = ops[n].op /\ ops[m].area = ops[n].area => m = n

\* The stream holds operations before number n, in their order.
Issued(ops, s, n) ==
  /\ \A k \in 1 .. Len(s) : \E m \in 1 .. Len(ops) : m < n /\ Is(ops, s[k], m)
  /\ \A j, k \in 1 .. Len(s) : \A m, l \in 1 .. Len(ops) :
       j < k /\ Is(ops, s[j], m) /\ Is(ops, s[k], l) => m < l

-----------------------------------------------------------------------------
(* Streams.                                                                *)

\* The operations of both calls, as crypto_sign_keypair and
\* crypto_sign_verify issue them (api.cu).
LEMMA OperationsLemma ==
  /\ call = "keypair" =>
       /\ Len(Operations) = 4
       /\ Operations[1] = Clear("t1") /\ Operations[2] = Kernel
       /\ Operations[3] = Download("pk") /\ Operations[4] = Download("sk")
  /\ call = "verify" =>
       /\ Len(Operations) = 7
       /\ Operations[1] = Clear("h") /\ Operations[2] = Clear("ret")
       /\ Operations[3] = Upload("sig") /\ Operations[4] = Upload("m")
       /\ Operations[5] = Upload("pk") /\ Operations[6] = Kernel
       /\ Operations[7] = Download("ret")
<1>1. CASE call = "keypair"
  <2>1. Operations = <<Clear("t1"), Kernel, Download("pk"), Download("sk")>>
    BY <1>1 DEF Operations, crypto_sign_keypair
  <2> QED BY <1>1, <2>1
<1>2. CASE call = "verify"
  <2>1. Operations = <<Clear("h"), Clear("ret"), Upload("sig"), Upload("m"), Upload("pk"), Kernel,
                       Download("ret")>>
    BY <1>2 DEF Operations, crypto_sign_verify
  <2> QED BY <1>2, <2>1
<1> QED BY <1>1, <1>2

LEMMA DifferentLemma ==
  ASSUME call \in {"keypair", "verify"} PROVE Different(Operations)
<1> DEFINE ops == Operations
<1>1. CASE call = "keypair"
  <2>1. /\ Len(ops) = 4
        /\ ops[1].op = "clear" /\ ops[1].area = "t1"
        /\ ops[2].op = "kernel" /\ ops[2].area = "all"
        /\ ops[3].op = "download" /\ ops[3].area = "pk"
        /\ ops[4].op = "download" /\ ops[4].area = "sk"
    BY <1>1, OperationsLemma DEF Clear, Kernel, Download
  <2> HIDE DEF ops
  <2>2. \A m \in 1 .. 4 : m = 1 \/ m = 2 \/ m = 3 \/ m = 4
    OBVIOUS
  <2>3. \A m \in 1 .. 4 : ops[m].op \in CommandKinds /\ ops[m].area \in Places
    BY <2>1, <2>2 DEF CommandKinds, Places
  <2>4. \A m, n \in 1 .. 4 : ops[m].op = ops[n].op /\ ops[m].area = ops[n].area => m = n
    BY <2>1, <2>2
  <2> QED BY <2>1, <2>3, <2>4 DEF Different, ops
<1>2. CASE call = "verify"
  <2>1. /\ Len(ops) = 7
        /\ ops[1].op = "clear" /\ ops[1].area = "h"
        /\ ops[2].op = "clear" /\ ops[2].area = "ret"
        /\ ops[3].op = "upload" /\ ops[3].area = "sig"
        /\ ops[4].op = "upload" /\ ops[4].area = "m"
        /\ ops[5].op = "upload" /\ ops[5].area = "pk"
        /\ ops[6].op = "kernel" /\ ops[6].area = "all"
        /\ ops[7].op = "download" /\ ops[7].area = "ret"
    BY <1>2, OperationsLemma DEF Clear, Upload, Kernel, Download
  <2> HIDE DEF ops
  <2>2. \A m \in 1 .. 7 : m = 1 \/ m = 2 \/ m = 3 \/ m = 4 \/ m = 5 \/ m = 6 \/ m = 7
    OBVIOUS
  <2>3. \A m \in 1 .. 7 : ops[m].op \in CommandKinds /\ ops[m].area \in Places
    BY <2>1, <2>2 DEF CommandKinds, Places
  <2>4. \A m, n \in 1 .. 7 : ops[m].op = ops[n].op /\ ops[m].area = ops[n].area => m = n
    BY <2>1, <2>2
  <2> QED BY <2>1, <2>3, <2>4 DEF Different, ops
<1> QED BY <1>1, <1>2

\* An operation that is issued waits for all items.
LEMMA AppendLemma ==
  ASSUME NEW ops, Different(ops), NEW s \in Seq(Elements), NEW n \in 1 .. Len(ops),
         Issued(ops, s, n)
  PROVE  LET t == Append(s, [op |-> ops[n].op, area |-> ops[n].area, left |-> Items])
         IN  /\ t \in Seq(Elements)
             /\ Issued(ops, t, n + 1)
             /\ \A m \in 1 .. Len(ops), i \in Items :
                  Pending(ops, t, m, i) <=> Pending(ops, s, m, i) \/ m = n
<1> DEFINE e == [op |-> ops[n].op, area |-> ops[n].area, left |-> Items]
           t == Append(s, e)
<1>1. e \in Elements
  BY DEF Different, Elements
<1>2. t \in Seq(Elements) /\ Len(t) = Len(s) + 1
  BY <1>1
<1>3. \A k \in 1 .. Len(s) : t[k] = s[k]
  BY <1>1
<1>4. t[Len(s) + 1] = e
  BY <1>1
<1>5. \A m \in 1 .. Len(ops) : Is(ops, e, m) <=> m = n
  BY DEF Is, Different
<1>6. Issued(ops, t, n + 1)
  <2>1. \A k \in 1 .. Len(t) : \E m \in 1 .. Len(ops) : m < n + 1 /\ Is(ops, t[k], m)
    <3> TAKE k \in 1 .. Len(t)
    <3>1. CASE k \in 1 .. Len(s)
      BY <3>1, <1>3 DEF Issued, Different
    <3>2. CASE k = Len(s) + 1
      BY <3>2, <1>4, <1>5 DEF Different
    <3> QED BY <1>2, <3>1, <3>2
  <2>2. ASSUME NEW j \in 1 .. Len(t), NEW k \in 1 .. Len(t), NEW m \in 1 .. Len(ops),
               NEW l \in 1 .. Len(ops), j < k, Is(ops, t[j], m), Is(ops, t[k], l)
        PROVE  m < l
    <3>1. j \in 1 .. Len(s) /\ t[j] = s[j]
      BY <2>2, <1>2, <1>3
    <3>2. CASE k \in 1 .. Len(s)
      BY <3>1, <3>2, <2>2, <1>3 DEF Issued
    <3>3. CASE k = Len(s) + 1
      <4>1. l = n
        BY <3>3, <2>2, <1>4, <1>5
      <4>2. PICK p \in 1 .. Len(ops) : p < n /\ Is(ops, s[j], p)
        BY <3>1 DEF Issued
      <4>3. p = m
        BY <4>2, <3>1, <2>2 DEF Is, Different
      <4> QED BY <4>1, <4>2, <4>3
    <3> QED BY <1>2, <3>2, <3>3
  <2> QED BY <2>1, <2>2 DEF Issued
<1>7. ASSUME NEW m \in 1 .. Len(ops), NEW i \in Items
      PROVE  Pending(ops, t, m, i) <=> Pending(ops, s, m, i) \/ m = n
  BY <1>2, <1>3, <1>4, <1>5 DEF Pending
<1> QED BY <1>2, <1>6, <1>7

\* The device has worked on item i of the first operation.
Worked(s, i) ==
  IF Head(s).left = {i} THEN Tail(s)
  ELSE <<[Head(s) EXCEPT !.left = @ \ {i}]>> \o Tail(s)

LEMMA WorkLemma ==
  ASSUME NEW ops, Different(ops), NEW s \in Seq(Elements), s # << >>, NEW n \in Int,
         Issued(ops, s, n), NEW i \in Head(s).left
  PROVE  /\ Worked(s, i) \in Seq(Elements)
         /\ Issued(ops, Worked(s, i), n)
         /\ \E m \in 1 .. Len(ops) :
              /\ m < n /\ Is(ops, Head(s), m) /\ Pending(ops, s, m, i)
              /\ \A l \in 1 .. Len(ops), j \in Items :
                   Pending(ops, Worked(s, i), l, j) <=> Pending(ops, s, l, j) /\ ~(l = m /\ j = i)
              /\ \A l \in 1 .. Len(ops) : l < m => ~Pending(ops, s, l, i)
<1> DEFINE t == Worked(s, i)
           e == [Head(s) EXCEPT !.left = @ \ {i}]
<1>1. Len(s) \in Nat /\ Len(s) >= 1 /\ Head(s) = s[1] /\ s[1] \in Elements
  OBVIOUS
<1>2. PICK m \in 1 .. Len(ops) : m < n /\ Is(ops, s[1], m)
  BY <1>1 DEF Issued
<1>3. \A l \in 1 .. Len(ops) : Is(ops, s[1], l) => l = m
  BY <1>2 DEF Is, Different
<1>4. \A k \in 2 .. Len(s), l \in 1 .. Len(ops) : Is(ops, s[k], l) => m < l
  <2> TAKE k \in 2 .. Len(s), l \in 1 .. Len(ops)
  <2>1. 1 \in 1 .. Len(s) /\ k \in 1 .. Len(s) /\ 1 < k
    BY <1>1
  <2> QED BY <1>2, <2>1 DEF Issued
<1>5. Pending(ops, s, m, i)
  BY <1>1, <1>2 DEF Pending
<1>6. \A l \in 1 .. Len(ops) : l < m => ~Pending(ops, s, l, i)
  <2> SUFFICES ASSUME NEW l \in 1 .. Len(ops), l < m, NEW k \in 1 .. Len(s), Is(ops, s[k], l)
               PROVE  FALSE
    BY DEF Pending
  <2>1. CASE k = 1
    BY <2>1, <1>3
  <2>2. CASE k \in 2 .. Len(s)
    BY <2>2, <1>4
  <2> QED BY <2>1, <2>2, <1>1
<1>7. CASE Head(s).left = {i}
  <2>1. t = Tail(s)
    BY <1>7 DEF Worked
  <2>2. t \in Seq(Elements) /\ Len(t) = Len(s) - 1 /\ \A k \in 1 .. Len(t) : t[k] = s[k + 1]
    BY <2>1
  <2>3. Issued(ops, t, n)
    <3>1. ASSUME NEW k \in 1 .. Len(t)
          PROVE  \E l \in 1 .. Len(ops) : l < n /\ Is(ops, t[k], l)
      BY <2>2, k + 1 \in 1 .. Len(s) DEF Issued
    <3>2. ASSUME NEW j \in 1 .. Len(t), NEW k \in 1 .. Len(t), NEW p \in 1 .. Len(ops),
                 NEW l \in 1 .. Len(ops), j < k, Is(ops, t[j], p), Is(ops, t[k], l)
          PROVE  p < l
      BY <2>2, <3>2, j + 1 \in 1 .. Len(s), k + 1 \in 1 .. Len(s), j + 1 < k + 1 DEF Issued
    <3> QED BY <3>1, <3>2 DEF Issued
  <2>4. ASSUME NEW l \in 1 .. Len(ops), NEW j \in Items
        PROVE  Pending(ops, t, l, j) <=> Pending(ops, s, l, j) /\ ~(l = m /\ j = i)
    <3>1. ASSUME Pending(ops, t, l, j) PROVE Pending(ops, s, l, j) /\ l # m
      <4>1. PICK k \in 1 .. Len(t) : Is(ops, t[k], l) /\ j \in t[k].left
        BY <3>1 DEF Pending
      <4>2. k + 1 \in 2 .. Len(s) /\ Is(ops, s[k + 1], l) /\ j \in s[k + 1].left
        BY <4>1, <2>2
      <4> QED BY <4>2, <1>4 DEF Pending
    <3>2. ASSUME Pending(ops, s, l, j), ~(l = m /\ j = i) PROVE Pending(ops, t, l, j)
      <4>1. PICK k \in 1 .. Len(s) : Is(ops, s[k], l) /\ j \in s[k].left
        BY <3>2 DEF Pending
      <4>2. k # 1
        BY <4>1, <3>2, <1>3, <1>7, <1>1
      <4>3. k - 1 \in 1 .. Len(t) /\ t[k - 1] = s[k]
        BY <4>2, <2>2
      <4> QED BY <4>1, <4>3 DEF Pending
    <3> QED BY <3>1, <3>2
  <2> QED BY <1>1, <1>2, <1>5, <1>6, <2>2, <2>3, <2>4
<1>8. CASE Head(s).left # {i}
  <2>1. t = <<e>> \o Tail(s)
    BY <1>8 DEF Worked
  <2>2. e \in Elements /\ e.op = s[1].op /\ e.area = s[1].area /\ e.left = s[1].left \ {i}
    BY <1>1 DEF Elements
  <2>3. Tail(s) \in Seq(Elements) /\ Len(Tail(s)) = Len(s) - 1
        /\ \A k \in 1 .. Len(s) - 1 : Tail(s)[k] = s[k + 1]
    OBVIOUS
  <2>4. t \in Seq(Elements) /\ Len(t) = Len(s) /\ t[1] = e
    BY <2>1, <2>2, <2>3
  <2>5. \A k \in 2 .. Len(s) : t[k] = s[k]
    <3> TAKE k \in 2 .. Len(s)
    <3>1. t[k] = Tail(s)[k - 1]
      BY <2>1, <2>2, <2>3
    <3> QED BY <3>1, <2>3
  <2>6. \A k \in 1 .. Len(s), l \in 1 .. Len(ops) : Is(ops, t[k], l) <=> Is(ops, s[k], l)
    <3>1. \A k \in 1 .. Len(s) : t[k].op = s[k].op /\ t[k].area = s[k].area
      <4> TAKE k \in 1 .. Len(s)
      <4>1. CASE k = 1
        BY <4>1, <2>2, <2>4
      <4>2. CASE k \in 2 .. Len(s)
        BY <4>2, <2>5
      <4> QED BY <4>1, <4>2, <1>1
    <3> HIDE DEF t, e
    <3> QED BY <3>1 DEF Is
  <2>7. Issued(ops, t, n)
    BY <2>4, <2>6 DEF Issued
  <2>8. ASSUME NEW l \in 1 .. Len(ops), NEW j \in Items
        PROVE  Pending(ops, t, l, j) <=> Pending(ops, s, l, j) /\ ~(l = m /\ j = i)
    <3>1. ASSUME Pending(ops, t, l, j) PROVE Pending(ops, s, l, j) /\ ~(l = m /\ j = i)
      <4>1. PICK k \in 1 .. Len(s) : Is(ops, s[k], l) /\ j \in t[k].left
        BY <3>1, <2>4, <2>6 DEF Pending
      <4>2. CASE k = 1
        BY <4>1, <4>2, <2>2, <2>4, <1>3 DEF Pending
      <4>3. CASE k \in 2 .. Len(s)
        BY <4>1, <4>3, <2>5, <1>4 DEF Pending
      <4> QED BY <4>2, <4>3, <1>1
    <3>2. ASSUME Pending(ops, s, l, j), ~(l = m /\ j = i) PROVE Pending(ops, t, l, j)
      <4>1. PICK k \in 1 .. Len(s) : Is(ops, s[k], l) /\ j \in s[k].left
        BY <3>2 DEF Pending
      <4>2. CASE k = 1
        BY <4>1, <4>2, <3>2, <2>2, <2>4, <2>6, <1>3 DEF Pending
      <4>3. CASE k \in 2 .. Len(s)
        BY <4>1, <4>3, <2>4, <2>5 DEF Pending
      <4> QED BY <4>2, <4>3, <1>1
    <3> QED BY <3>1, <3>2
  <2> QED BY <1>1, <1>2, <1>5, <1>6, <2>4, <2>7, <2>8
<1> QED BY <1>7, <1>8

-----------------------------------------------------------------------------
(* The inductive invariant.                                                *)

\* The device has executed operation m on item i, or it was skipped.
Done(m, i) == m < at /\ ~Pending(Operations, stream, m, i)

Contents == Items \cup {-1, 0, 1}

CallTypes ==
  /\ call \in {"keypair", "verify"} /\ altered \subseteq Items
  /\ at \in Nat /\ at <= Len(Operations) + 2
  /\ stream \in Seq(Elements)
  /\ pool \in [Areas -> [Items -> Contents]]
  /\ host \in [{"pk", "sk", "ret"} -> [Items -> Contents]]
  /\ lost \in BOOLEAN /\ trouble \in BOOLEAN
  /\ answer \in {Unanswered, 0, -1}

\* The stream is that of the operations issued, and empty before and after.
Phases ==
  /\ answer # Unanswered <=> at = Len(Operations) + 2
  /\ at = 0 \/ lost \/ answer # Unanswered => stream = << >>
  /\ Issued(Operations, stream, at)

Running == ~lost /\ answer = Unanswered
Untroubled == Running /\ ~trouble

\* Without trouble the operations reach an item in their order.
InSequence ==
  Untroubled => \A i \in Items, m, n \in 1 .. Len(Operations) : m < n /\ Done(n, i) => Done(m, i)

\* Nothing but gpu_verify writes a result 0 after the results are cleared.
VerifyResults ==
  call = "verify" /\ Running => \A i \in Items :
    /\ Done(2, i) /\ pool.ret[i] = 0 => i \notin altered
    /\ host.ret[i] = 0 => i \notin altered

VerifyData ==
  call = "verify" /\ Untroubled => \A i \in Items :
    /\ Done(1, i) /\ ~Done(6, i) => pool.h[i] = 0
    /\ Done(3, i) => pool.sig[i] = i
    /\ Done(4, i) => pool.m[i] = i
    /\ Done(5, i) => pool.pk[i] = i
    /\ Done(6, i) /\ altered = {} => pool.ret[i] = 0
    /\ Done(7, i) /\ altered = {} => host.ret[i] = 0

KeyData ==
  call = "keypair" /\ Untroubled => \A i \in Items :
    /\ Done(1, i) /\ ~Done(2, i) => pool.t1[i] = 0
    /\ Done(2, i) => pool.pk[i] = i /\ pool.sk[i] = i
    /\ Done(3, i) => host.pk[i] = i
    /\ Done(4, i) => host.sk[i] = i

\* The only operation that can be skipped on a device that works is a kernel.
KeyTrouble == call = "keypair" /\ "keypair" \notin MayNotStart /\ Running => ~trouble

Answered == VerifiesItems /\ ("keypair" \notin MayNotStart => KeysArePairs)

CallInv ==
  /\ CallTypes /\ Phases /\ InSequence
  /\ VerifyResults /\ VerifyData /\ KeyData /\ KeyTrouble /\ Answered

-----------------------------------------------------------------------------
(* Steps of the stream. *)

LEMMA IssueLemma ==
  ASSUME CallInv, at \in 1 .. Len(Operations), at' = at + 1, call' = call,
         stream' = Append(stream, [op |-> Operations[at].op, area |-> Operations[at].area,
                                   left |-> Items])
  PROVE  /\ stream' \in Seq(Elements)
         /\ Issued(Operations, stream', at + 1)
         /\ Operations' = Operations
         /\ \A m \in 1 .. Len(Operations), i \in Items : Done(m, i)' <=> Done(m, i)
<1>1. Different(Operations)
  BY DifferentLemma DEF CallInv, CallTypes
<1>2. stream \in Seq(Elements) /\ Issued(Operations, stream, at)
  BY DEF CallInv, CallTypes, Phases
<1>3. /\ stream' \in Seq(Elements)
      /\ Issued(Operations, stream', at + 1)
      /\ \A m \in 1 .. Len(Operations), i \in Items :
           Pending(Operations, stream', m, i) <=> Pending(Operations, stream, m, i) \/ m = at
  BY <1>1, <1>2, AppendLemma
<1>4. Operations' = Operations
  BY DEF Operations
<1>5. ASSUME NEW m \in 1 .. Len(Operations), NEW i \in Items
      PROVE  Done(m, i)' <=> Done(m, i)
  BY <1>3, <1>4 DEF Done
<1> QED BY <1>3, <1>4, <1>5

LEMMA WorksOnLemma ==
  ASSUME CallInv, NEW i \in Items, WorksOn(i)
  PROVE  /\ stream' \in Seq(Elements)
         /\ Issued(Operations, stream', at)
         /\ Operations' = Operations
         /\ \E m \in 1 .. Len(Operations) :
              /\ m < at /\ Is(Operations, Head(stream), m) /\ ~Done(m, i)
              /\ \A l \in 1 .. Len(Operations), j \in Items :
                   Done(l, j)' <=> Done(l, j) \/ (l = m /\ j = i)
              /\ \A l \in 1 .. Len(Operations) : l < m => Done(l, i)
<1>1. Different(Operations)
  BY DifferentLemma DEF CallInv, CallTypes
<1>2. /\ stream \in Seq(Elements) /\ stream # << >> /\ at \in Int
      /\ Issued(Operations, stream, at)
  BY DEF CallInv, CallTypes, Phases, WorksOn
<1>3. i \in Head(stream).left /\ stream' = Worked(stream, i)
  BY DEF WorksOn, Worked
<1>4. Operations' = Operations /\ at' = at
  BY DEF Operations, WorksOn
<1>5. /\ stream' \in Seq(Elements) /\ Issued(Operations, stream', at)
      /\ \E m \in 1 .. Len(Operations) :
           /\ m < at /\ Is(Operations, Head(stream), m) /\ Pending(Operations, stream, m, i)
           /\ \A l \in 1 .. Len(Operations), j \in Items :
                Pending(Operations, stream', l, j)
                  <=> Pending(Operations, stream, l, j) /\ ~(l = m /\ j = i)
           /\ \A l \in 1 .. Len(Operations) : l < m => ~Pending(Operations, stream, l, i)
  BY <1>1, <1>2, <1>3, WorkLemma
<1>6. PICK m \in 1 .. Len(Operations) :
           /\ m < at /\ Is(Operations, Head(stream), m) /\ Pending(Operations, stream, m, i)
           /\ \A l \in 1 .. Len(Operations), j \in Items :
                Pending(Operations, stream', l, j)
                  <=> Pending(Operations, stream, l, j) /\ ~(l = m /\ j = i)
           /\ \A l \in 1 .. Len(Operations) : l < m => ~Pending(Operations, stream, l, i)
  BY <1>5
<1>7. ~Done(m, i)
  BY <1>6 DEF Done
<1>8. \A l \in 1 .. Len(Operations), j \in Items : Done(l, j)' <=> Done(l, j) \/ (l = m /\ j = i)
  BY <1>4, <1>6 DEF Done
<1>9. \A l \in 1 .. Len(Operations) : l < m => Done(l, i)
  BY <1>2, <1>6 DEF Done
<1> QED BY <1>4, <1>5, <1>6, <1>7, <1>8, <1>9

-----------------------------------------------------------------------------
(* One lemma for each action.                                              *)

LEMMA CallInitLemma == CallInit => CallInv
<1> SUFFICES ASSUME CallInit PROVE CallInv
  OBVIOUS
<1>1. Len(Operations) \in Nat /\ Len(Operations) \in {4, 7}
  BY OperationsLemma DEF CallInit
<1>2. CallTypes
  <2>1. pool \in [Areas -> [Items -> Contents]]
    BY DEF CallInit, Contents
  <2>2. host \in [{"pk", "sk", "ret"} -> [Items -> Contents]]
    BY DEF CallInit, Contents
  <2>3. /\ call \in {"keypair", "verify"} /\ altered \subseteq Items /\ at = 0 /\ stream = << >>
        /\ lost \in BOOLEAN /\ trouble \in BOOLEAN /\ answer = Unanswered
    BY DEF CallInit
  <2>4. stream \in Seq(Elements)
    BY <2>3
  <2> QED BY <1>1, <2>1, <2>2, <2>3, <2>4 DEF CallTypes
<1>3. Phases
  BY <1>1 DEF CallInit, Phases, Issued
<1>4. \A m \in 1 .. Len(Operations), i \in Items : ~Done(m, i)
  <2>1. at = 0
    BY DEF CallInit
  <2> QED BY <1>1, <2>1 DEF Done
<1>5. InSequence
  BY <1>4 DEF InSequence
<1>6. VerifyResults /\ VerifyData
  <2> SUFFICES ASSUME call = "verify" PROVE VerifyResults /\ VerifyData
    BY DEF VerifyResults, VerifyData
  <2>1. Len(Operations) = 7
    BY OperationsLemma
  <2> QED BY <1>4, <2>1 DEF VerifyResults, VerifyData, CallInit
<1>7. KeyData
  <2> SUFFICES ASSUME call = "keypair" PROVE KeyData
    BY DEF KeyData
  <2>1. Len(Operations) = 4
    BY OperationsLemma
  <2>2. \A i \in Items : ~Done(1, i) /\ ~Done(2, i) /\ ~Done(3, i) /\ ~Done(4, i)
    <3>1. 1 \in 1 .. Len(Operations) /\ 2 \in 1 .. Len(Operations)
            /\ 3 \in 1 .. Len(Operations) /\ 4 \in 1 .. Len(Operations)
      BY <2>1
    <3> QED BY <1>4, <3>1, Zenon
  <2> QED BY <2>2 DEF KeyData
<1>8. KeyTrouble /\ Answered
  BY UnansweredAssumption DEF CallInit, KeyTrouble, Answered, VerifiesItems, KeysArePairs
<1> QED BY <1>2, <1>3, <1>5, <1>6, <1>7, <1>8 DEF CallInv

LEMMA RefusesLemma == CallInv /\ Refuses => CallInv'
<1> SUFFICES ASSUME CallInv, Refuses PROVE CallInv'
  OBVIOUS
<1>1. Operations' = Operations /\ Len(Operations) \in {4, 7}
  BY OperationsLemma DEF Operations, Refuses, Fails, CallInv, CallTypes
<1>2. answer' = -1 /\ answer' # Unanswered /\ at' = Len(Operations) + 2 /\ stream' = << >> /\ trouble'
  BY UnansweredAssumption DEF Refuses, Fails, CallInv, Phases
<1>3. CallTypes'
  BY <1>1, <1>2 DEF CallInv, CallTypes, Refuses, Fails
<1>4. Phases'
  BY <1>1, <1>2 DEF Phases, Issued
<1>5. InSequence' /\ VerifyResults' /\ VerifyData' /\ KeyData' /\ KeyTrouble'
  BY <1>2 DEF InSequence, VerifyResults, VerifyData, KeyData, KeyTrouble, Untroubled, Running
<1>6. Answered'
  BY <1>2 DEF Answered, VerifiesItems, KeysArePairs
<1> QED BY <1>3, <1>4, <1>5, <1>6 DEF CallInv

LEMMA AllocatesLemma == CallInv /\ Allocates => CallInv'
<1> SUFFICES ASSUME CallInv, Allocates PROVE CallInv'
  OBVIOUS
<1>1. Operations' = Operations /\ Len(Operations) \in {4, 7}
  BY OperationsLemma DEF Operations, Allocates, CallInv, CallTypes
<1>2. at' = 1 /\ stream' = << >> /\ ~lost' /\ answer' = Unanswered
  BY <1>1 DEF Allocates, CallInv, Phases, CallTypes
<1>3. CallTypes'
  <2>1. pool' \in [Areas -> [Items -> Contents]]
    <3>1. PICK verdicts, h, t1 \in [Items -> {0, 1}] :
            pool' = [pool EXCEPT !.ret = [i \in Items |-> -verdicts[i]], !.h = h, !.t1 = t1]
      BY DEF Allocates
    <3>2. [i \in Items |-> -verdicts[i]] \in [Items -> Contents] /\ h \in [Items -> Contents]
            /\ t1 \in [Items -> Contents]
      BY DEF Contents
    <3> QED BY <3>1, <3>2 DEF CallInv, CallTypes
  <2>2. stream' \in Seq(Elements)
    BY <1>2
  <2>3. /\ call' \in {"keypair", "verify"} /\ altered' \subseteq Items
        /\ host' \in [{"pk", "sk", "ret"} -> [Items -> Contents]]
        /\ lost' \in BOOLEAN /\ trouble' \in BOOLEAN
    BY DEF CallInv, CallTypes, Allocates
  <2> QED BY <1>1, <1>2, <2>1, <2>2, <2>3 DEF CallTypes
<1>4. Phases'
  BY <1>1, <1>2 DEF Phases, Issued
<1>5. \A m \in 1 .. Len(Operations), i \in Items : ~Done(m, i)'
  BY <1>1, <1>2 DEF Done
<1>6. InSequence'
  BY <1>1, <1>5 DEF InSequence
<1>7. VerifyResults' /\ VerifyData'
  <2> SUFFICES ASSUME call' = "verify" PROVE VerifyResults' /\ VerifyData'
    BY DEF VerifyResults, VerifyData
  <2>1. Len(Operations) = 7
    BY OperationsLemma DEF Allocates
  <2>2. VerifyResults /\ Running
    BY <1>2 DEF CallInv, Running, Allocates
  <2> QED BY <1>5, <2>1, <2>2 DEF VerifyResults, VerifyData, Allocates
<1>8. KeyData'
  <2> SUFFICES ASSUME call' = "keypair" PROVE KeyData'
    BY DEF KeyData
  <2>1. Len(Operations) = 4
    BY OperationsLemma DEF Allocates
  <2> QED BY <1>5, <2>1 DEF KeyData
<1>9. KeyTrouble' /\ Answered'
  BY <1>2, UnansweredAssumption
     DEF CallInv, KeyTrouble, Running, Answered, VerifiesItems, KeysArePairs, Allocates
<1> QED BY <1>3, <1>4, <1>6, <1>7, <1>8, <1>9 DEF CallInv

LEMMA IssuesLemma == CallInv /\ Issues => CallInv'
<1> SUFFICES ASSUME CallInv, Issues PROVE CallInv'
  OBVIOUS
<1>1. /\ Operations' = Operations /\ Len(Operations) \in {4, 7}
      /\ at \in 1 .. Len(Operations) /\ at' = at + 1
      /\ answer = Unanswered /\ answer' = Unanswered
  BY OperationsLemma DEF Operations, Issues, CallInv, CallTypes, Phases
<1>2. UNCHANGED <<call, altered, pool, host, lost, answer>>
  BY DEF Issues
<1>3. Answered'
  BY <1>1, UnansweredAssumption DEF Answered, VerifiesItems, KeysArePairs
<1>4. CASE /\ ~lost /\ UNCHANGED trouble
           /\ stream' = Append(stream, [op |-> Operations[at].op, area |-> Operations[at].area,
                                        left |-> Items])
  <2>1. /\ stream' \in Seq(Elements) /\ Issued(Operations, stream', at + 1)
        /\ \A m \in 1 .. Len(Operations), i \in Items : Done(m, i)' <=> Done(m, i)
    BY <1>1, <1>2, <1>4, IssueLemma
  <2>2. CallTypes'
    BY <1>1, <1>2, <1>4, <2>1 DEF CallInv, CallTypes
  <2>3. Phases'
    BY <1>1, <1>2, <1>4, <2>1 DEF Phases
  <2>4. InSequence'
    BY <1>1, <1>2, <1>4, <2>1 DEF CallInv, InSequence, Untroubled, Running
  <2>5. VerifyResults' /\ VerifyData'
    <3> SUFFICES ASSUME call = "verify" PROVE VerifyResults' /\ VerifyData'
      BY <1>2 DEF VerifyResults, VerifyData
    <3>0. Len(Operations) = 7
      BY OperationsLemma
    <3>1. \A i \in Items : /\ Done(1, i)' <=> Done(1, i)
                           /\ Done(2, i)' <=> Done(2, i)
                           /\ Done(3, i)' <=> Done(3, i)
                           /\ Done(4, i)' <=> Done(4, i)
                           /\ Done(5, i)' <=> Done(5, i)
                           /\ Done(6, i)' <=> Done(6, i)
                           /\ Done(7, i)' <=> Done(7, i)
      BY <2>1, <3>0
    <3> QED BY <1>2, <1>4, <3>1 DEF CallInv, VerifyResults, VerifyData, Untroubled, Running
  <2>6. KeyData'
    <3> SUFFICES ASSUME call = "keypair" PROVE KeyData'
      BY <1>2 DEF KeyData
    <3>0. Len(Operations) = 4
      BY OperationsLemma
    <3>1. \A i \in Items : /\ Done(1, i)' <=> Done(1, i)
                           /\ Done(2, i)' <=> Done(2, i)
                           /\ Done(3, i)' <=> Done(3, i)
                           /\ Done(4, i)' <=> Done(4, i)
      BY <2>1, <3>0
    <3> QED BY <1>2, <1>4, <3>1 DEF CallInv, KeyData, Untroubled, Running
  <2>7. KeyTrouble'
    BY <1>2, <1>4 DEF CallInv, KeyTrouble, Running
  <2> QED BY <1>3, <2>2, <2>3, <2>4, <2>5, <2>6, <2>7 DEF CallInv
<1>5. CASE /\ lost \/ (Operations[at] = Kernel /\ call \in MayNotStart)
           /\ trouble' = TRUE /\ UNCHANGED stream
  <2>1. CallTypes'
    BY <1>1, <1>2, <1>5 DEF CallInv, CallTypes
  <2>2. Phases'
    <3>1. Issued(Operations, stream, at + 1)
      BY <1>1 DEF CallInv, Phases, Issued
    <3> QED BY <1>1, <1>2, <1>5, <3>1 DEF CallInv, Phases
  <2>3. InSequence' /\ VerifyData' /\ KeyData'
    BY <1>5 DEF InSequence, VerifyData, KeyData, Untroubled
  <2>4. VerifyResults'
    <3> SUFFICES ASSUME call = "verify", ~lost PROVE VerifyResults'
      BY <1>2 DEF VerifyResults, Running
    <3>1. Len(Operations) = 7 /\ at # 2
      BY <1>1, <1>5, OperationsLemma DEF Kernel, Clear
    <3>2. \A i \in Items : Done(2, i)' <=> Done(2, i)
      BY <1>1, <1>5, <3>1 DEF Done
    <3> QED BY <1>1, <1>2, <3>2 DEF CallInv, VerifyResults, Running
  <2>5. KeyTrouble'
    BY <1>2, <1>5 DEF KeyTrouble, Running
  <2> QED BY <1>3, <2>1, <2>2, <2>3, <2>4, <2>5 DEF CallInv
<1> QED BY <1>4, <1>5 DEF Issues

LEMMA LoseDeviceLemma == CallInv /\ LoseDevice => CallInv'
<1> SUFFICES ASSUME CallInv, LoseDevice PROVE CallInv'
  OBVIOUS
<1>1. Operations' = Operations /\ Len(Operations) \in {4, 7}
  BY OperationsLemma DEF Operations, LoseDevice, CallInv, CallTypes
<1>2. lost' /\ stream' = << >> /\ answer' = Unanswered /\ answer = Unanswered
  BY DEF LoseDevice
<1>3. CallTypes'
  <2>1. stream' \in Seq(Elements)
    BY <1>2
  <2> QED BY <1>1, <2>1 DEF CallInv, CallTypes, LoseDevice
<1>4. Phases'
  BY <1>1, <1>2 DEF CallInv, Phases, Issued, LoseDevice
<1>5. InSequence' /\ VerifyResults' /\ VerifyData' /\ KeyData' /\ KeyTrouble'
  BY <1>2 DEF InSequence, VerifyResults, VerifyData, KeyData, KeyTrouble, Untroubled, Running
<1>6. Answered'
  BY <1>2, UnansweredAssumption DEF Answered, VerifiesItems, KeysArePairs
<1> QED BY <1>3, <1>4, <1>5, <1>6 DEF CallInv

LEMMA AnswersLemma == CallInv /\ Answers => CallInv'
<1> SUFFICES ASSUME CallInv, Answers PROVE CallInv'
  OBVIOUS
<1>1. Operations' = Operations /\ Len(Operations) \in {4, 7}
  BY OperationsLemma DEF Operations, Answers, CallInv, CallTypes
<1>2. /\ at = Len(Operations) + 1 /\ at' = at + 1 /\ stream = << >>
      /\ UNCHANGED <<call, altered, stream, pool, host, lost>>
  BY DEF Answers
<1>3. answer = Unanswered /\ answer' # Unanswered /\ answer' \in {0, -1}
  BY <1>1, <1>2, UnansweredAssumption DEF CallInv, Phases, Answers
<1>4. CallTypes'
  <2>1. trouble' \in BOOLEAN
    BY Zenon DEF Answers
  <2> QED BY <1>1, <1>2, <1>3, <2>1 DEF CallInv, CallTypes
<1>5. Phases'
  BY <1>1, <1>2, <1>3 DEF Phases, Issued
<1>6. InSequence' /\ VerifyResults' /\ VerifyData' /\ KeyData' /\ KeyTrouble'
  BY <1>3 DEF InSequence, VerifyResults, VerifyData, KeyData, KeyTrouble, Untroubled, Running
<1>7. \A m \in 1 .. Len(Operations), i \in Items : Done(m, i)
  BY <1>1, <1>2 DEF Done, Pending
<1>8. VerifiesItems'
  <2> SUFFICES ASSUME call = "verify"
               PROVE  /\ answer' = 0 => altered = {}
                      /\ answer' = -1 => altered # {} \/ trouble'
    BY <1>2 DEF VerifiesItems
  <2>1. answer' = IF lost \/ \E i \in Items : host.ret[i] # 0 THEN -1 ELSE 0
    BY DEF Answers
  <2>2. trouble' = (trouble \/ lost)
    BY DEF Answers
  <2>3. altered \subseteq Items
    BY DEF CallInv, CallTypes
  <2>4. ~lost => \A i \in Items : host.ret[i] = 0 => i \notin altered
    BY <1>3 DEF CallInv, VerifyResults, Running
  <2>5. ~lost /\ ~trouble /\ altered = {} => \A i \in Items : host.ret[i] = 0
    <3>1. \A i \in Items : Done(7, i)
      <4>1. Len(Operations) = 7
        BY OperationsLemma
      <4>2. 7 \in 1 .. Len(Operations)
        BY ONLY <4>1
      <4> QED BY ONLY <1>7, <4>2
    <3> QED BY <1>3, <3>1 DEF CallInv, VerifyData, Untroubled, Running
  <2>6. CASE lost
    <3>1. answer' = -1
      BY <2>1, <2>6
    <3>2. trouble'
      BY <2>2, <2>6, Zenon
    <3> QED BY <3>1, <3>2
  <2>7. CASE ~lost
    <3>1. answer' = 0 => \A i \in Items : host.ret[i] = 0
      BY <2>1
    <3>2. answer' = -1 => \E i \in Items : host.ret[i] # 0
      BY <2>1, <2>7
    <3>3. answer' = 0 => altered = {}
      BY <2>3, <2>4, <2>7, <3>1
    <3>4. answer' = -1 => altered # {} \/ trouble'
      BY <2>2, <2>5, <2>7, <3>2
    <3> QED BY <3>3, <3>4
  <2> QED BY <2>6, <2>7
<1>9. "keypair" \notin MayNotStart => KeysArePairs'
  <2> SUFFICES ASSUME "keypair" \notin MayNotStart, call = "keypair", answer' = 0, NEW i \in Items
               PROVE  host.pk[i] = i /\ host.sk[i] = i
    BY <1>2 DEF KeysArePairs
  <2>1. ~lost
    BY DEF Answers
  <2>2. Untroubled
    BY <1>3, <2>1 DEF CallInv, KeyTrouble, Untroubled, Running
  <2>3. Done(3, i) /\ Done(4, i)
    BY <1>7, OperationsLemma
  <2> QED BY <2>2, <2>3 DEF CallInv, KeyData
<1> QED BY <1>4, <1>5, <1>6, <1>8, <1>9 DEF CallInv, Answered

\* What the device does with item i in the operation at the head of the
\* stream, in an area and in the caller's buffers.
LEMMA EffectLemma ==
  ASSUME NEW i \in Items, WorksOn(i), NEW m \in 1 .. Len(Operations),
         Is(Operations, Head(stream), m), NEW kind, NEW area,
         Operations[m].op = kind, Operations[m].area = area
  PROVE  /\ kind = "clear" => pool' = [pool EXCEPT ![area][i] = Cleared(area)] /\ host' = host
         /\ kind = "upload" => pool' = [pool EXCEPT ![area][i] = i] /\ host' = host
         /\ kind = "kernel" => pool' = KernelRow(i) /\ host' = host
         /\ kind = "download" => pool' = pool /\ host' = [host EXCEPT ![area][i] = pool[area][i]]
  BY DEF WorksOn, Is

\* A value v is put at place i of area a, and nothing else changes.
Put(f, g, a, i, v) ==
  /\ g[a][i] = v
  /\ \A b \in DOMAIN f, j \in Items : b # a \/ j # i => g[b][j] = f[b][j]

LEMMA PutLemma ==
  ASSUME NEW A, NEW V, NEW f \in [A -> [Items -> V]], NEW a \in A, NEW i \in Items, NEW v \in V
  PROVE  /\ [f EXCEPT ![a][i] = v] \in [A -> [Items -> V]]
         /\ Put(f, [f EXCEPT ![a][i] = v], a, i, v)
  BY DEF Put

Hosts == {"pk", "sk", "ret"}

\* The effect on item i of clearing an area, filling it, and copying it back.
LEMMA ClearLemma ==
  ASSUME CallInv, NEW i \in Items, WorksOn(i), NEW m \in 1 .. Len(Operations),
         Is(Operations, Head(stream), m), NEW a \in Areas, Operations[m] = Clear(a)
  PROVE  /\ pool' \in [Areas -> [Items -> Contents]] /\ host' = host
         /\ Put(pool, pool', a, i, Cleared(a))
<1>1. pool' = [pool EXCEPT ![a][i] = Cleared(a)] /\ host' = host
  <2>1. Operations[m].op = "clear" /\ Operations[m].area = a
    BY DEF Clear
  <2> QED BY <2>1, EffectLemma
<1>2. Cleared(a) \in Contents
  BY DEF Cleared, Contents
<1>3. pool \in [Areas -> [Items -> Contents]]
  BY DEF CallInv, CallTypes
<1> QED BY <1>1, <1>2, <1>3, PutLemma

LEMMA UploadLemma ==
  ASSUME CallInv, NEW i \in Items, WorksOn(i), NEW m \in 1 .. Len(Operations),
         Is(Operations, Head(stream), m), NEW a \in Areas, Operations[m] = Upload(a)
  PROVE  /\ pool' \in [Areas -> [Items -> Contents]] /\ host' = host
         /\ Put(pool, pool', a, i, i)
<1>1. pool' = [pool EXCEPT ![a][i] = i] /\ host' = host
  <2>1. Operations[m].op = "upload" /\ Operations[m].area = a
    BY DEF Upload
  <2> QED BY <2>1, EffectLemma
<1>2. i \in Contents
  BY DEF Contents
<1>3. pool \in [Areas -> [Items -> Contents]]
  BY DEF CallInv, CallTypes
<1> QED BY <1>1, <1>2, <1>3, PutLemma

LEMMA DownloadLemma ==
  ASSUME CallInv, NEW i \in Items, WorksOn(i), NEW m \in 1 .. Len(Operations),
         Is(Operations, Head(stream), m), NEW a \in Hosts, Operations[m] = Download(a)
  PROVE  /\ host' \in [Hosts -> [Items -> Contents]] /\ pool' = pool
         /\ Put(host, host', a, i, pool[a][i])
<1>1. pool' = pool /\ host' = [host EXCEPT ![a][i] = pool[a][i]]
  <2>1. Operations[m].op = "download" /\ Operations[m].area = a
    BY DEF Download
  <2> QED BY <2>1, EffectLemma
<1>2. pool[a][i] \in Contents
  BY DEF CallInv, CallTypes, Areas, Hosts
<1>3. host \in [Hosts -> [Items -> Contents]]
  BY DEF CallInv, CallTypes, Hosts
<1> DEFINE v == pool[a][i]
<1>4. v \in Contents /\ host' = [host EXCEPT ![a][i] = v]
  BY <1>1, <1>2
<1> HIDE DEF v
<1>5. /\ [host EXCEPT ![a][i] = v] \in [Hosts -> [Items -> Contents]]
      /\ Put(host, [host EXCEPT ![a][i] = v], a, i, v)
  BY <1>3, <1>4, PutLemma
<1>6. host' \in [Hosts -> [Items -> Contents]] /\ Put(host, host', a, i, v)
  BY <1>4, <1>5
<1> QED BY <1>1, <1>6 DEF v

\* gpu_verify writes 0 for a signature that is right, and nothing otherwise.
LEMMA VerifyKernelLemma ==
  ASSUME CallInv, call = "verify", NEW i \in Items, WorksOn(i), NEW m \in 1 .. Len(Operations),
         Is(Operations, Head(stream), m), Operations[m] = Kernel
  PROVE  /\ pool' \in [Areas -> [Items -> Contents]] /\ host' = host
         /\ \A area \in Areas, j \in Items :
              (j # i \/ area \notin {"h", "ret"}) => pool'[area][j] = pool[area][j]
         /\ pool'["ret"][i] = 0 => i \notin altered \/ pool["ret"][i] = 0
         /\ pool["sig"][i] = i /\ pool["m"][i] = i /\ pool["pk"][i] = i /\ pool["h"][i] = 0
            /\ i \notin altered => pool'["ret"][i] = 0
<1>1. pool \in [Areas -> [Items -> Contents]]
  BY DEF CallInv, CallTypes
<1>2. pool' = KernelRow(i) /\ host' = host
  <2>1. Operations[m].op = "kernel" /\ Operations[m].area = "all"
    BY DEF Kernel
  <2> QED BY <2>1, EffectLemma
<1>3. {0, 1} \subseteq Contents /\ {"h", "ret"} \subseteq Areas
  BY DEF Contents, Areas
<1> DEFINE p == [pool EXCEPT !["h"][i] = 1]
<1>4. p \in [Areas -> [Items -> Contents]] /\ Put(pool, p, "h", i, 1)
  BY <1>1, <1>3, PutLemma
<1> HIDE DEF p
<1>5. CASE {pool.sig[i], pool.m[i], pool.pk[i]} = {i} /\ pool.h[i] = 0 /\ i \notin altered
  <2>1. pool' = [p EXCEPT !["ret"][i] = 0]
    BY <1>2, <1>5 DEF KernelRow, p
  <2>2. pool' \in [Areas -> [Items -> Contents]] /\ Put(p, pool', "ret", i, 0)
    BY <1>3, <1>4, <2>1, PutLemma
  <2>3. \A area \in Areas, j \in Items :
          (j # i \/ area \notin {"h", "ret"}) => pool'[area][j] = pool[area][j]
    BY <1>1, <1>4, <2>2 DEF Put
  <2> QED BY <1>2, <1>5, <2>2, <2>3 DEF Put
<1>6. CASE ~({pool.sig[i], pool.m[i], pool.pk[i]} = {i} /\ pool.h[i] = 0 /\ i \notin altered)
  <2>1. pool' = p
    BY <1>2, <1>6 DEF KernelRow, p
  <2>2. ~(pool.sig[i] = i /\ pool.m[i] = i /\ pool.pk[i] = i /\ pool.h[i] = 0 /\ i \notin altered)
    BY <1>6
  <2>3. \A area \in Areas, j \in Items :
          (j # i \/ area \notin {"h"}) => pool'[area][j] = pool[area][j]
    BY <1>1, <1>4, <2>1 DEF Put
  <2> QED BY <1>2, <1>3, <1>4, <2>1, <2>2, <2>3
<1> QED BY <1>5, <1>6

\* gpu_keypair makes a pair if its row of t1 is zero.
LEMMA KeyKernelLemma ==
  ASSUME CallInv, call = "keypair", NEW i \in Items, WorksOn(i), NEW m \in 1 .. Len(Operations),
         Is(Operations, Head(stream), m), Operations[m] = Kernel
  PROVE  /\ pool' \in [Areas -> [Items -> Contents]] /\ host' = host
         /\ \A area \in Areas, j \in Items : j # i => pool'[area][j] = pool[area][j]
         /\ pool["t1"][i] = 0 => pool'["pk"][i] = i /\ pool'["sk"][i] = i
<1>1. pool \in [Areas -> [Items -> Contents]]
  BY DEF CallInv, CallTypes
<1> DEFINE key == IF pool.t1[i] = 0 THEN i ELSE -1
           p == [pool EXCEPT !["t1"][i] = 1]
           q == [p EXCEPT !["pk"][i] = key]
<1>2. key \in Contents /\ (pool["t1"][i] = 0 => key = i) /\ 1 \in Contents /\ i \in Contents
      /\ {"t1", "pk", "sk"} \subseteq Areas
  BY DEF Contents, Areas
<1>3. pool' = KernelRow(i) /\ host' = host
  <2>1. Operations[m].op = "kernel" /\ Operations[m].area = "all"
    BY DEF Kernel
  <2> QED BY <2>1, EffectLemma
<1>4. pool' = [q EXCEPT !["sk"][i] = i]
  BY <1>3 DEF KernelRow
<1> HIDE DEF key
<1>5. p \in [Areas -> [Items -> Contents]] /\ Put(pool, p, "t1", i, 1)
  BY <1>1, <1>2, PutLemma
<1> HIDE DEF p
<1>6. q \in [Areas -> [Items -> Contents]] /\ Put(p, q, "pk", i, key)
  BY <1>2, <1>5, PutLemma
<1> HIDE DEF q
<1>7. pool' \in [Areas -> [Items -> Contents]] /\ Put(q, pool', "sk", i, i)
  <2>1. /\ [q EXCEPT !["sk"][i] = i] \in [Areas -> [Items -> Contents]]
        /\ Put(q, [q EXCEPT !["sk"][i] = i], "sk", i, i)
    BY ONLY <1>2, <1>6, PutLemma
  <2> QED BY ONLY <1>4, <2>1
<1>8. \A area \in Areas, j \in Items :
        /\ area # "t1" \/ j # i => p[area][j] = pool[area][j]
        /\ area # "pk" \/ j # i => q[area][j] = p[area][j]
        /\ area # "sk" \/ j # i => pool'[area][j] = q[area][j]
  BY ONLY <1>1, <1>5, <1>6, <1>7 DEF Put
<1>9. q["pk"][i] = key /\ pool'["sk"][i] = i
  BY ONLY <1>6, <1>7 DEF Put
<1> QED BY ONLY <1>2, <1>3, <1>7, <1>8, <1>9

\* The device works on item i in operation m, which is the next one for it.
Reaches(m, i) ==
  /\ m < at /\ Is(Operations, Head(stream), m) /\ ~Done(m, i)
  /\ \A l \in 1 .. Len(Operations), j \in Items : Done(l, j)' <=> Done(l, j) \/ (l = m /\ j = i)
  /\ \A l \in 1 .. Len(Operations) : l < m => Done(l, i)

LEMMA VerifyWorkLemma ==
  ASSUME CallInv, call = "verify", NEW i \in Items, WorksOn(i), Running,
         NEW m \in 1 .. Len(Operations), Reaches(m, i)
  PROVE  /\ pool' \in [Areas -> [Items -> Contents]]
         /\ host' \in [Hosts -> [Items -> Contents]]
         /\ VerifyResults' /\ VerifyData'
<1>1. Len(Operations) = 7
  BY OperationsLemma
<1>2. /\ UNCHANGED <<call, altered, at, lost, trouble, answer>>
      /\ (Untroubled' <=> Untroubled)
  BY DEF WorksOn, Untroubled, Running
<1>3. \A j \in Items : \A l \in 1 .. 7 : Done(l, j)' <=> Done(l, j) \/ (l = m /\ j = i)
  BY <1>1 DEF Reaches
<1>4. \A l \in 1 .. 7 : l < m => Done(l, i)
  BY <1>1 DEF Reaches
<1>5. ~Done(m, i) /\ Is(Operations, Head(stream), m)
  BY DEF Reaches
<1>6. /\ pool \in [Areas -> [Items -> Contents]] /\ host \in [Hosts -> [Items -> Contents]]
      /\ {"ret", "h", "sig", "m", "pk"} \subseteq Areas /\ "ret" \in Hosts
  BY DEF CallInv, CallTypes, Areas, Hosts
<1>7. \A j \in Items : /\ Done(2, j) /\ pool["ret"][j] = 0 => j \notin altered
                       /\ host["ret"][j] = 0 => j \notin altered
  BY DEF CallInv, VerifyResults
<1>8. Untroubled => \A j \in Items :
        /\ Done(1, j) /\ ~Done(6, j) => pool["h"][j] = 0
        /\ Done(3, j) => pool["sig"][j] = j
        /\ Done(4, j) => pool["m"][j] = j
        /\ Done(5, j) => pool["pk"][j] = j
        /\ Done(6, j) /\ altered = {} => pool["ret"][j] = 0
        /\ Done(7, j) /\ altered = {} => host["ret"][j] = 0
  BY DEF CallInv, VerifyData
<1>9. Untroubled => \A k, l \in 1 .. 7 : k < l /\ Done(l, i) => Done(k, i)
  BY <1>1 DEF CallInv, InSequence
<1> SUFFICES /\ pool' \in [Areas -> [Items -> Contents]]
             /\ host' \in [Hosts -> [Items -> Contents]]
             /\ \A j \in Items : /\ Done(2, j)' /\ pool'["ret"][j] = 0 => j \notin altered
                                 /\ host'["ret"][j] = 0 => j \notin altered
             /\ Untroubled => \A j \in Items :
                  /\ Done(1, j)' /\ ~Done(6, j)' => pool'["h"][j] = 0
                  /\ Done(3, j)' => pool'["sig"][j] = j
                  /\ Done(4, j)' => pool'["m"][j] = j
                  /\ Done(5, j)' => pool'["pk"][j] = j
                  /\ Done(6, j)' /\ altered = {} => pool'["ret"][j] = 0
                  /\ Done(7, j)' /\ altered = {} => host'["ret"][j] = 0
  BY <1>2 DEF VerifyResults, VerifyData
<1>10. CASE m = 1
  <2>1. /\ pool' \in [Areas -> [Items -> Contents]] /\ host' = host
        /\ Put(pool, pool', "h", i, 0)
    BY <1>5, <1>6, <1>10, OperationsLemma, ClearLemma DEF Cleared
  <2> QED BY <1>3, <1>5, <1>6, <1>7, <1>8, <1>9, <1>10, <2>1 DEF Put
<1>11. CASE m = 2
  <2>1. /\ pool' \in [Areas -> [Items -> Contents]] /\ host' = host
        /\ Put(pool, pool', "ret", i, -1)
    BY <1>5, <1>6, <1>11, OperationsLemma, ClearLemma DEF Cleared
  <2> QED BY <1>3, <1>5, <1>6, <1>7, <1>8, <1>9, <1>11, <2>1 DEF Put
<1>12. CASE m = 3
  <2>1. /\ pool' \in [Areas -> [Items -> Contents]] /\ host' = host
        /\ Put(pool, pool', "sig", i, i)
    BY <1>5, <1>6, <1>12, OperationsLemma, UploadLemma
  <2>2. /\ pool'["sig"][i] = i /\ \A j \in Items : j # i => pool'["sig"][j] = pool["sig"][j]
        /\ \A area \in Areas \ {"sig"}, j \in Items : pool'[area][j] = pool[area][j]
    BY ONLY <1>6, <2>1 DEF Put
  <2> QED BY ONLY <1>3, <1>6, <1>7, <1>8, <1>12, <2>1, <2>2
<1>13. CASE m = 4
  <2>1. /\ pool' \in [Areas -> [Items -> Contents]] /\ host' = host
        /\ Put(pool, pool', "m", i, i)
    BY <1>5, <1>6, <1>13, OperationsLemma, UploadLemma
  <2>2. /\ pool'["m"][i] = i /\ \A j \in Items : j # i => pool'["m"][j] = pool["m"][j]
        /\ \A area \in Areas \ {"m"}, j \in Items : pool'[area][j] = pool[area][j]
    BY ONLY <1>6, <2>1 DEF Put
  <2>3. \A j \in Items : /\ Done(2, j)' /\ pool'["ret"][j] = 0 => j \notin altered
                         /\ host'["ret"][j] = 0 => j \notin altered
    BY ONLY <1>3, <1>6, <1>7, <1>13, <2>1, <2>2
  <2>4. Untroubled => \A j \in Items :
          /\ Done(1, j)' /\ ~Done(6, j)' => pool'["h"][j] = 0
          /\ Done(3, j)' => pool'["sig"][j] = j
          /\ Done(4, j)' => pool'["m"][j] = j
          /\ Done(5, j)' => pool'["pk"][j] = j
          /\ Done(6, j)' /\ altered = {} => pool'["ret"][j] = 0
          /\ Done(7, j)' /\ altered = {} => host'["ret"][j] = 0
    BY ONLY <1>3, <1>6, <1>8, <1>13, <2>1, <2>2
  <2> QED BY ONLY <1>6, <2>1, <2>3, <2>4
<1>14. CASE m = 5
  <2>1. /\ pool' \in [Areas -> [Items -> Contents]] /\ host' = host
        /\ Put(pool, pool', "pk", i, i)
    BY <1>5, <1>6, <1>14, OperationsLemma, UploadLemma
  <2>2. /\ pool'["pk"][i] = i /\ \A j \in Items : j # i => pool'["pk"][j] = pool["pk"][j]
        /\ \A area \in Areas \ {"pk"}, j \in Items : pool'[area][j] = pool[area][j]
    BY ONLY <1>6, <2>1 DEF Put
  <2>3. \A j \in Items : /\ Done(2, j)' /\ pool'["ret"][j] = 0 => j \notin altered
                         /\ host'["ret"][j] = 0 => j \notin altered
    BY ONLY <1>3, <1>6, <1>7, <1>14, <2>1, <2>2
  <2>4. Untroubled => \A j \in Items :
          /\ Done(1, j)' /\ ~Done(6, j)' => pool'["h"][j] = 0
          /\ Done(3, j)' => pool'["sig"][j] = j
          /\ Done(4, j)' => pool'["m"][j] = j
          /\ Done(5, j)' => pool'["pk"][j] = j
          /\ Done(6, j)' /\ altered = {} => pool'["ret"][j] = 0
          /\ Done(7, j)' /\ altered = {} => host'["ret"][j] = 0
    BY ONLY <1>3, <1>6, <1>8, <1>14, <2>1, <2>2
  <2> QED BY ONLY <1>6, <2>1, <2>3, <2>4
<1>15. CASE m = 6
  <2>1. /\ pool' \in [Areas -> [Items -> Contents]] /\ host' = host
        /\ \A area \in Areas, j \in Items :
             (j # i \/ area \notin {"h", "ret"}) => pool'[area][j] = pool[area][j]
        /\ pool'["ret"][i] = 0 => i \notin altered \/ pool["ret"][i] = 0
        /\ pool["sig"][i] = i /\ pool["m"][i] = i /\ pool["pk"][i] = i /\ pool["h"][i] = 0
           /\ i \notin altered => pool'["ret"][i] = 0
    BY <1>5, <1>15, OperationsLemma, VerifyKernelLemma
  <2>2. Done(1, i) /\ Done(2, i) /\ Done(3, i) /\ Done(4, i) /\ Done(5, i)
    BY <1>4, <1>15
  <2>3. \A j \in Items : /\ Done(2, j)' /\ pool'["ret"][j] = 0 => j \notin altered
                         /\ host'["ret"][j] = 0 => j \notin altered
    BY <1>3, <1>6, <1>7, <1>15, <2>1, <2>2
  <2>4. Untroubled => \A j \in Items :
          /\ Done(1, j)' /\ ~Done(6, j)' => pool'["h"][j] = 0
          /\ Done(3, j)' => pool'["sig"][j] = j
          /\ Done(4, j)' => pool'["m"][j] = j
          /\ Done(5, j)' => pool'["pk"][j] = j
          /\ Done(6, j)' /\ altered = {} => pool'["ret"][j] = 0
          /\ Done(7, j)' /\ altered = {} => host'["ret"][j] = 0
    <3> SUFFICES ASSUME Untroubled, NEW j \in Items
                 PROVE  /\ Done(1, j)' /\ ~Done(6, j)' => pool'["h"][j] = 0
                        /\ Done(3, j)' => pool'["sig"][j] = j
                        /\ Done(4, j)' => pool'["m"][j] = j
                        /\ Done(5, j)' => pool'["pk"][j] = j
                        /\ Done(6, j)' /\ altered = {} => pool'["ret"][j] = 0
                        /\ Done(7, j)' /\ altered = {} => host'["ret"][j] = 0
      OBVIOUS
    <3>1. CASE j # i
      BY <1>3, <1>6, <1>8, <1>15, <2>1, <3>1
    <3>2. CASE j = i
      <4>1. pool["sig"][i] = i /\ pool["m"][i] = i /\ pool["pk"][i] = i /\ pool["h"][i] = 0
        BY <1>5, <1>8, <1>15, <2>2
      <4>2. pool'["sig"][i] = i /\ pool'["m"][i] = i /\ pool'["pk"][i] = i
        BY <1>6, <2>1, <4>1
      <4>3. altered = {} => pool'["ret"][i] = 0
        BY <2>1, <4>1
      <4>4. Done(6, i)' /\ (Done(7, i)' <=> Done(7, i))
        BY <1>3, <1>15
      <4> QED BY <1>8, <2>1, <3>2, <4>2, <4>3, <4>4
    <3> QED BY <3>1, <3>2
  <2>5. host' \in [Hosts -> [Items -> Contents]]
    BY <1>6, <2>1
  <2> QED BY <2>1, <2>3, <2>4, <2>5, Zenon
<1>16. CASE m = 7
  <2>1. /\ host' \in [Hosts -> [Items -> Contents]] /\ pool' = pool
        /\ Put(host, host', "ret", i, pool["ret"][i])
    BY <1>5, <1>6, <1>16, OperationsLemma, DownloadLemma
  <2>2. Done(2, i) /\ Done(6, i)
    BY <1>4, <1>16
  <2>3. \A j \in Items : /\ Done(2, j)' /\ pool'["ret"][j] = 0 => j \notin altered
                         /\ host'["ret"][j] = 0 => j \notin altered
    BY <1>3, <1>6, <1>7, <1>16, <2>1, <2>2 DEF Put
  <2>4. Untroubled => \A j \in Items :
          /\ Done(1, j)' /\ ~Done(6, j)' => pool'["h"][j] = 0
          /\ Done(3, j)' => pool'["sig"][j] = j
          /\ Done(4, j)' => pool'["m"][j] = j
          /\ Done(5, j)' => pool'["pk"][j] = j
          /\ Done(6, j)' /\ altered = {} => pool'["ret"][j] = 0
          /\ Done(7, j)' /\ altered = {} => host'["ret"][j] = 0
    <3> SUFFICES ASSUME Untroubled, NEW j \in Items
                 PROVE  /\ Done(1, j)' /\ ~Done(6, j)' => pool'["h"][j] = 0
                        /\ Done(3, j)' => pool'["sig"][j] = j
                        /\ Done(4, j)' => pool'["m"][j] = j
                        /\ Done(5, j)' => pool'["pk"][j] = j
                        /\ Done(6, j)' /\ altered = {} => pool'["ret"][j] = 0
                        /\ Done(7, j)' /\ altered = {} => host'["ret"][j] = 0
      OBVIOUS
    <3>1. CASE j # i
      BY <1>3, <1>6, <1>8, <1>16, <2>1, <3>1 DEF Put
    <3>2. CASE j = i
      BY <1>3, <1>6, <1>8, <1>16, <2>1, <2>2, <3>2 DEF Put
    <3> QED BY <3>1, <3>2
  <2> QED BY <1>6, <2>1, <2>3, <2>4, Zenon
<1> QED BY <1>1, <1>10, <1>11, <1>12, <1>13, <1>14, <1>15, <1>16

LEMMA KeyWorkLemma ==
  ASSUME CallInv, call = "keypair", NEW i \in Items, WorksOn(i), Running,
         NEW m \in 1 .. Len(Operations), Reaches(m, i)
  PROVE  /\ pool' \in [Areas -> [Items -> Contents]]
         /\ host' \in [Hosts -> [Items -> Contents]]
         /\ KeyData'
<1>1. Len(Operations) = 4
  BY OperationsLemma
<1>2. /\ UNCHANGED <<call, altered, at, lost, trouble, answer>>
      /\ (Untroubled' <=> Untroubled)
  BY DEF WorksOn, Untroubled, Running
<1>3. \A j \in Items : \A l \in 1 .. 4 : Done(l, j)' <=> Done(l, j) \/ (l = m /\ j = i)
  BY <1>1 DEF Reaches
<1>4. \A l \in 1 .. 4 : l < m => Done(l, i)
  BY <1>1 DEF Reaches
<1>5. ~Done(m, i) /\ Is(Operations, Head(stream), m)
  BY DEF Reaches
<1>6. /\ pool \in [Areas -> [Items -> Contents]] /\ host \in [Hosts -> [Items -> Contents]]
      /\ {"t1", "pk", "sk"} \subseteq Areas /\ {"pk", "sk"} \subseteq Hosts
  BY DEF CallInv, CallTypes, Areas, Hosts
<1>7. Untroubled => \A j \in Items :
        /\ Done(1, j) /\ ~Done(2, j) => pool["t1"][j] = 0
        /\ Done(2, j) => pool["pk"][j] = j /\ pool["sk"][j] = j
        /\ Done(3, j) => host["pk"][j] = j
        /\ Done(4, j) => host["sk"][j] = j
  BY DEF CallInv, KeyData
<1>8. Untroubled => \A k, l \in 1 .. 4 : k < l /\ Done(l, i) => Done(k, i)
  BY <1>1 DEF CallInv, InSequence
<1> SUFFICES /\ pool' \in [Areas -> [Items -> Contents]]
             /\ host' \in [Hosts -> [Items -> Contents]]
             /\ Untroubled => \A j \in Items :
                  /\ Done(1, j)' /\ ~Done(2, j)' => pool'["t1"][j] = 0
                  /\ Done(2, j)' => pool'["pk"][j] = j /\ pool'["sk"][j] = j
                  /\ Done(3, j)' => host'["pk"][j] = j
                  /\ Done(4, j)' => host'["sk"][j] = j
  BY <1>2 DEF KeyData
<1>9. CASE m = 1
  <2>1. /\ pool' \in [Areas -> [Items -> Contents]] /\ host' = host
        /\ Put(pool, pool', "t1", i, 0)
    BY <1>5, <1>6, <1>9, OperationsLemma, ClearLemma DEF Cleared
  <2> QED BY <1>3, <1>5, <1>6, <1>7, <1>8, <1>9, <2>1 DEF Put
<1>10. CASE m = 2
  <2>1. /\ pool' \in [Areas -> [Items -> Contents]] /\ host' = host
        /\ \A area \in Areas, j \in Items : j # i => pool'[area][j] = pool[area][j]
        /\ pool["t1"][i] = 0 => pool'["pk"][i] = i /\ pool'["sk"][i] = i
    BY <1>5, <1>10, OperationsLemma, KeyKernelLemma
  <2>2. Done(1, i)
    BY <1>4, <1>10
  <2> QED BY <1>3, <1>5, <1>6, <1>7, <1>8, <1>10, <2>1, <2>2
<1>11. CASE m = 3
  <2>1. /\ host' \in [Hosts -> [Items -> Contents]] /\ pool' = pool
        /\ Put(host, host', "pk", i, pool["pk"][i])
    BY <1>5, <1>6, <1>11, OperationsLemma, DownloadLemma
  <2>2. Done(2, i)
    BY <1>4, <1>11
  <2> QED BY <1>3, <1>5, <1>6, <1>7, <1>8, <1>11, <2>1, <2>2 DEF Put
<1>12. CASE m = 4
  <2>1. /\ host' \in [Hosts -> [Items -> Contents]] /\ pool' = pool
        /\ Put(host, host', "sk", i, pool["sk"][i])
    BY <1>5, <1>6, <1>12, OperationsLemma, DownloadLemma
  <2>2. Done(2, i)
    BY <1>4, <1>12
  <2> QED BY <1>3, <1>5, <1>6, <1>7, <1>8, <1>12, <2>1, <2>2 DEF Put
<1> QED BY <1>1, <1>9, <1>10, <1>11, <1>12

LEMMA WorksOnStep ==
  ASSUME CallInv, NEW i \in Items, WorksOn(i)
  PROVE  CallInv'
<1>1. PICK m \in 1 .. Len(Operations) : Reaches(m, i)
  BY WorksOnLemma DEF Reaches
<1>2. /\ stream' \in Seq(Elements) /\ Issued(Operations, stream', at)
      /\ Operations' = Operations
  BY WorksOnLemma
<1>3. /\ UNCHANGED <<call, altered, at, lost, trouble, answer>>
      /\ (Running' <=> Running) /\ (Untroubled' <=> Untroubled)
  BY DEF WorksOn, Untroubled, Running
<1>4. stream # << >> /\ Running /\ at # 0 /\ answer = Unanswered
  BY DEF WorksOn, CallInv, Phases, Running
<1>5. call \in {"keypair", "verify"}
  BY DEF CallInv, CallTypes
<1>6. /\ pool' \in [Areas -> [Items -> Contents]] /\ host' \in [Hosts -> [Items -> Contents]]
      /\ VerifyResults' /\ VerifyData' /\ KeyData'
  <2>1. CASE call = "verify"
    <3>1. KeyData'
      BY <1>3, <2>1 DEF KeyData
    <3> QED BY <1>1, <1>4, <2>1, <3>1, VerifyWorkLemma
  <2>2. CASE call = "keypair"
    <3>1. VerifyResults' /\ VerifyData'
      BY <1>3, <2>2 DEF VerifyResults, VerifyData
    <3> QED BY <1>1, <1>4, <2>2, <3>1, KeyWorkLemma
  <2> QED BY <1>5, <2>1, <2>2
<1>7. CallTypes'
  BY <1>2, <1>3, <1>6 DEF CallInv, CallTypes, Hosts
<1>8. Phases'
  BY <1>2, <1>3, <1>4 DEF CallInv, Phases, Running
<1>9. InSequence'
  <2> SUFFICES ASSUME Untroubled, NEW j \in Items, NEW k \in 1 .. Len(Operations),
                      NEW l \in 1 .. Len(Operations), k < l, Done(l, j)'
               PROVE  Done(k, j)'
    BY <1>2, <1>3 DEF InSequence
  <2>1. Done(l, j) => Done(k, j)
    BY DEF CallInv, InSequence
  <2> QED BY <1>1, <2>1 DEF Reaches
<1>10. KeyTrouble'
  BY <1>3 DEF CallInv, KeyTrouble
<1>11. Answered'
  BY <1>3, <1>4, UnansweredAssumption DEF Answered, VerifiesItems, KeysArePairs
<1> QED BY <1>6, <1>7, <1>8, <1>9, <1>10, <1>11 DEF CallInv

LEMMA CallStep == CallInv /\ [CallNext]_callVars => CallInv'
<1>1. ASSUME CallInv, CallNext PROVE CallInv'
  BY <1>1, RefusesLemma, AllocatesLemma, IssuesLemma, AnswersLemma, LoseDeviceLemma, WorksOnStep
     DEF CallNext
<1>2. ASSUME CallInv, UNCHANGED callVars PROVE CallInv'
  <2>1. Operations' = Operations /\ \A m, i : Done(m, i)' <=> Done(m, i)
    BY <1>2 DEF callVars, Operations, Done
  <2> QED BY <1>2, <2>1 DEF callVars, CallInv, CallTypes, Phases, InSequence, VerifyResults,
        VerifyData, KeyData, KeyTrouble, Answered, VerifiesItems, KeysArePairs, Untroubled, Running
<1> QED BY <1>1, <1>2

-----------------------------------------------------------------------------
\* What holds between the steps of a call, for every batch, every content of
\* fresh memory and every moment at which something fails.
THEOREM CallInvariant == CallSpec => []CallInv
BY CallInitLemma, CallStep, PTL DEF CallSpec

\* pqcuda_dilithium_verify_batch answers 0 only if every signature of the
\* batch was checked and is right, and -1 only if one is wrong or something
\* failed.
THEOREM VerifiesItemsTheorem == CallSpec => []VerifiesItems
<1>1. CallInv => VerifiesItems
  BY DEF CallInv, Answered
<1> QED BY <1>1, CallInvariant, PTL

\* Keys of one item belong together when pqcuda_dilithium_keypair_batch answers
\* 0, as long as its kernel, whose launch error nobody reads, can start.
THEOREM KeysArePairsTheorem ==
  ASSUME "keypair" \notin MayNotStart
  PROVE  CallSpec => []KeysArePairs
<1>1. CallInv => KeysArePairs
  BY DEF CallInv, Answered
<1> QED BY <1>1, CallInvariant, PTL

(***************************************************************************)
(* The tuner of the signing kernels.                                       *)
(***************************************************************************)
-----------------------------------------------------------------------------
(* The median exists. *)

\* Positions of a sequence whose elements are below v, and up to v.
Lower(seq, v) == {i \in DOMAIN seq : seq[i] < v}
UpTo(seq, v) == {i \in DOMAIN seq : seq[i] <= v}

\* How many these can be.
LEMMA PositionsCounted ==
  ASSUME NEW seq \in Seq(Nat), NEW v \in Nat
  PROVE  /\ Cardinality(Lower(seq, v)) \in Nat /\ Cardinality(UpTo(seq, v)) \in Nat
         /\ IsFiniteSet(UpTo(seq, v)) /\ Cardinality(UpTo(seq, v)) <= Len(seq)
         /\ UpTo(seq, v) = DOMAIN seq => Cardinality(UpTo(seq, v)) = Len(seq)
         /\ Lower(seq, v) = {} => Cardinality(Lower(seq, v)) = 0
<1>1. DOMAIN seq = 1 .. Len(seq) /\ Len(seq) \in Nat
  OBVIOUS
<1>2. IsFiniteSet(DOMAIN seq) /\ Cardinality(DOMAIN seq) = Len(seq)
  <2> DEFINE l == Len(seq)
  <2>1. l \in Nat
    BY <1>1
  <2> HIDE DEF l
  <2>2. 1 \in Int /\ l \in Int /\ (1 > l => l = 0) /\ l - 1 + 1 = l
    BY ONLY <2>1
  <2>3. IsFiniteSet(1 .. l) /\ Cardinality(1 .. l) = l
    BY ONLY <2>2, FS_Interval
  <2> QED BY ONLY <1>1, <2>3 DEF l
<1>3. Lower(seq, v) \in SUBSET DOMAIN seq /\ UpTo(seq, v) \in SUBSET DOMAIN seq
  BY DEF Lower, UpTo
<1> QED BY <1>2, <1>3, FS_Subset, FS_CardinalityType, FS_EmptySet

\* For every rank there is an element of that rank.
LEMMA RankedExists ==
  ASSUME NEW seq \in Seq(Nat), NEW k \in Nat, k < Len(seq)
  PROVE  Ranked(seq, k) \in Nat
<1> DEFINE S == {seq[i] : i \in DOMAIN seq}
           T == {v \in S : k < Cardinality(UpTo(seq, v))}
<1>1. DOMAIN seq = 1 .. Len(seq) /\ \A i \in DOMAIN seq : seq[i] \in Nat
  OBVIOUS
<1>2. S \in SUBSET Nat /\ S # {}
  BY <1>1
<1> DEFINE C == {Cardinality(UpTo(seq, v)) : v \in S}
<1>3. PICK big \in S : \A v \in S : Cardinality(UpTo(seq, v)) <= Cardinality(UpTo(seq, big))
  <2>1. C \in SUBSET Nat /\ C # {} /\ \A c \in C : c <= Len(seq)
    BY <1>2, PositionsCounted
  <2>2. PICK c \in C : \A x \in C : x <= c
    <3>1. Len(seq) \in Nat
      BY <1>1
    <3> HIDE DEF C
    <3> QED BY <2>1, <3>1, GreatestNatural
  <2> QED BY <2>2
<1>4. big \in T
  <2>1. SUFFICES UpTo(seq, big) = DOMAIN seq
    BY <1>2, <1>3, PositionsCounted
  <2>2. SUFFICES ASSUME NEW i \in DOMAIN seq, seq[i] > big PROVE FALSE
    BY <1>1, <1>2 DEF UpTo
  <2>3. UpTo(seq, big) \subseteq UpTo(seq, seq[i]) /\ i \in UpTo(seq, seq[i]) /\ i \notin UpTo(seq, big)
    BY <1>1, <1>2, <2>2 DEF UpTo
  <2> DEFINE A == UpTo(seq, big)
             B == UpTo(seq, seq[i])
  <2>4. /\ IsFiniteSet(B) /\ Cardinality(A) \in Nat /\ Cardinality(B) \in Nat
        /\ A \in SUBSET B /\ A # B
    BY <1>1, <1>2, <2>2, <2>3, PositionsCounted
  <2>5. Cardinality(B) <= Cardinality(A)
    BY <1>3, <2>2
  <2> HIDE DEF A, B
  <2> QED BY <2>4, <2>5, FS_Subset
<1>5. PICK v \in T : \A u \in T : v <= u
  BY <1>2, <1>4, LeastNatural
<1>6. Cardinality(Lower(seq, v)) <= k
  <2>1. CASE Lower(seq, v) = {}
    <3>1. v \in Nat
      BY <1>2, <1>5
    <3>2. Cardinality(Lower(seq, v)) = 0
      <4> HIDE DEF T
      <4> QED BY <2>1, <3>1, PositionsCounted
    <3> QED BY <3>2
  <2>2. CASE Lower(seq, v) # {}
    <3> DEFINE B == {seq[i] : i \in Lower(seq, v)}
    <3>0. v \in Nat /\ \A x \in B : x \in S /\ x \in Nat /\ x < v
      BY <1>1, <1>2, <1>5 DEF Lower
    <3>1. PICK u \in B : \A x \in B : x <= u
      <4>0. B # {}
        BY <2>2
      <4>1. B \in SUBSET Nat /\ \A x \in B : x <= v
        <5> HIDE DEF B
        <5> QED BY <3>0
      <4> HIDE DEF B
      <4> QED BY <3>0, <4>0, <4>1, GreatestNatural
    <3>2. u \in S /\ u \in Nat /\ u < v
      BY <3>0, <3>1
    <3>3. u \notin T
      <4> HIDE DEF T
      <4> QED BY <1>2, <1>5, <3>0, <3>2
    <3>4. Lower(seq, v) = UpTo(seq, u)
      <4>1. \A i \in DOMAIN seq : seq[i] < v <=> seq[i] <= u
        BY <1>1, <3>0, <3>1 DEF Lower
      <4> QED BY <4>1 DEF Lower, UpTo
    <3>5. ~(k < Cardinality(UpTo(seq, u)))
      BY <3>2, <3>3
    <3>6. Cardinality(UpTo(seq, u)) \in Nat
      BY <3>2, PositionsCounted
    <3> QED BY <3>4, <3>5, <3>6
  <2> QED BY <2>1, <2>2
<1>7. \E x \in S : Cardinality(Lower(seq, x)) <= k /\ k < Cardinality(UpTo(seq, x))
  BY <1>5, <1>6
<1> QED BY <1>2, <1>7 DEF Ranked, Lower, UpTo

\* The median of the samples of a variant is a number of milliseconds.
LEMMA MedianIsNat ==
  ASSUME NEW seq \in Seq(Nat), Len(seq) = Samples
  PROVE  Median(seq) \in Nat
<1>1. Samples \in Nat \ {0}
  BY CountsAssumption
<1>2. /\ (Samples - 1) \div 2 \in Nat /\ (Samples - 1) \div 2 < Len(seq)
      /\ Samples \div 2 \in Nat /\ Samples \div 2 < Len(seq)
  BY <1>1
<1>3. Ranked(seq, (Samples - 1) \div 2) \in Nat /\ Ranked(seq, Samples \div 2) \in Nat
  BY <1>2, RankedExists
<1> QED BY <1>3 DEF Median

\* What the steps need to know of the constants.
LEMMA Counts ==
  /\ StageCount \in Nat /\ \A s \in Stages : s \in Nat /\ s < StageCount
  /\ \A s \in Stages : VariantCount[s] \in Nat /\ VariantCount[s] > 0
  /\ Warmups \in Nat /\ Warmups > 0 /\ Samples \in Nat /\ Samples > 0
  /\ Len(Order) \in Nat /\ \A i \in 1 .. Len(Order) : Order[i] \in Stages
  /\ FirstLoop \in 1 .. Len(Order)
  /\ Durations \subseteq Nat /\ MaxRounds \in Nat /\ MaxRounds > 0
<1>1. Order \in Seq(Stages) /\ FirstLoop \in 1 .. Len(Order)
  BY CountsAssumption
<1>2. Len(Order) \in Nat /\ \A i \in 1 .. Len(Order) : Order[i] \in Stages
  <2> HIDE DEF Stages
  <2> QED BY <1>1
<1>3. \A s \in Stages : VariantCount[s] \in Nat \ {0}
  BY CountsAssumption
<1>4. StageCount \in Nat /\ \A s \in Stages : s \in Nat /\ s < StageCount
  BY CountsAssumption DEF Stages
<1>5. \A s \in Stages : VariantCount[s] \in Nat /\ VariantCount[s] > 0
  BY ONLY <1>3
<1>6. /\ Warmups \in Nat /\ Warmups > 0 /\ Samples \in Nat /\ Samples > 0
      /\ Durations \subseteq Nat /\ MaxRounds \in Nat /\ MaxRounds > 0
  BY CountsAssumption
<1> QED BY ONLY <1>1, <1>2, <1>4, <1>5, <1>6

-----------------------------------------------------------------------------
(* The inductive invariant. *)

\* Where the loops of the tuner are.
Loops ==
  /\ spent \in [Stages -> Nat] /\ medians \in Seq(Nat)
  /\ pc \in {"variant", "run", "sign"} => stage \in Stages
  /\ pc = "variant" => variant <= VariantCount[stage]
  /\ pc \in {"run", "sign"} =>
       /\ variant \in Variants(stage)
       /\ Len(samples) = IF run <= Warmups THEN 0 ELSE run - Warmups
  /\ pc = "sign" => run < Warmups + Samples

\* A warm-up run is not timed, a measured one is, for its stage.
Window ==
  /\ pc = "sign" => measuring = IF Measured THEN stage ELSE NoStage
  /\ pc = "sign" /\ measuring = NoStage => ms = 0 /\ ~events

\* The best variant is the first with the least of the medians so far.
BestInv ==
  pc \in {"variant", "run", "sign"} =>
    /\ Len(medians) = variant
    /\ variant = 0 => best_ms = -1
    /\ variant > 0 =>
         /\ best_variant \in 0 .. variant - 1
         /\ best_ms = medians[best_variant + 1]
         /\ \A w \in 0 .. variant - 1 :
              best_ms <= medians[w + 1] /\ (w < best_variant => best_ms < medians[w + 1])

TunerInv ==
  TypeOK /\ Loops /\ WindowClosed /\ Window /\ ElapsedIsWhole /\ BestInv /\ FastestVariant

-----------------------------------------------------------------------------
(* One lemma for each action, with a step for each part of the invariant.  *)

LEMMA ApplyLaunchProfileLemma == TunerInv /\ ApplyLaunchProfile => TunerInv'
<1> SUFFICES ASSUME TunerInv, ApplyLaunchProfile PROVE TunerInv'
  OBVIOUS
<1> USE Counts DEF TunerInv, ApplyLaunchProfile, Supported, Measured, timer, search, signing, NoStage
<1>1. TypeOK'
  BY DEF TypeOK, Loops, Variants
<1>2. Loops'
  BY DEF TypeOK, Loops, Variants
<1>3. WindowClosed'
  BY DEF WindowClosed, Window, Variants
<1>4. Window'
  BY DEF TypeOK, WindowClosed, Window, Variants
<1>5. ElapsedIsWhole'
  BY DEF TypeOK, Loops, Window, ElapsedIsWhole, Variants
<1>6. BestInv'
  BY DEF Loops, BestInv, Variants
<1>7. FastestVariant'
  BY DEF FastestVariant, Variants
<1> QED BY <1>1, <1>2, <1>3, <1>4, <1>5, <1>6, <1>7

LEMMA TuneStartLemma == TunerInv /\ TuneStart => TunerInv'
<1> SUFFICES ASSUME TunerInv, TuneStart PROVE TunerInv'
  OBVIOUS
<1> USE Counts DEF TunerInv, TuneStart, Measured, timer, search, signing, NoStage
<1>1. TypeOK'
  BY DEF TypeOK, Loops, Variants
<1>2. Loops'
  BY DEF TypeOK, Loops
<1>3. WindowClosed'
  BY DEF WindowClosed, Window
<1>4. Window'
  BY DEF TypeOK, WindowClosed, Window
<1>5. ElapsedIsWhole'
  BY DEF TypeOK, Loops, Window, ElapsedIsWhole
<1>6. BestInv'
  BY DEF Loops, BestInv
<1>7. FastestVariant'
  BY DEF FastestVariant, Variants
<1> QED BY <1>1, <1>2, <1>3, <1>4, <1>5, <1>6, <1>7

LEMMA TuneRefusedLemma == TunerInv /\ TuneRefused => TunerInv'
<1> SUFFICES ASSUME TunerInv, TuneRefused PROVE TunerInv'
  OBVIOUS
<1> USE Counts DEF TunerInv, TuneRefused, Measured, timer, search, signing, NoStage
<1>1. TypeOK'
  BY DEF TypeOK, Loops, Variants
<1>2. Loops'
  BY DEF TypeOK, Loops
<1>3. WindowClosed'
  BY DEF WindowClosed, Window
<1>4. Window'
  BY DEF TypeOK, WindowClosed, Window
<1>5. ElapsedIsWhole'
  BY DEF TypeOK, Loops, Window, ElapsedIsWhole
<1>6. BestInv'
  BY DEF Loops, BestInv
<1>7. FastestVariant'
  BY DEF FastestVariant, Variants
<1> QED BY <1>1, <1>2, <1>3, <1>4, <1>5, <1>6, <1>7

LEMMA StartStageLemma == TunerInv /\ StartStage => TunerInv'
<1> SUFFICES ASSUME TunerInv, StartStage PROVE TunerInv'
  OBVIOUS
<1> USE Counts DEF TunerInv, StartStage, ResetBest, Measured, timer, search, signing, NoStage
<1>1. TypeOK'
  BY DEF TypeOK, Loops, Variants
<1>2. Loops'
  <2>1. stage \in Stages /\ variant' = 0 /\ medians' = << >> /\ pc' = "variant"
    BY DEF TypeOK, Stages
  <2>2. medians' \in Seq(Nat)
    BY <2>1
  <2> QED BY <2>1, <2>2 DEF Loops
<1>3. WindowClosed'
  BY DEF WindowClosed, Window, Variants
<1>4. Window'
  BY DEF TypeOK, WindowClosed, Window, Variants
<1>5. ElapsedIsWhole'
  BY DEF TypeOK, Loops, Window, ElapsedIsWhole, Variants
<1>6. BestInv'
  BY DEF Loops, BestInv, Variants
<1>7. FastestVariant'
  BY DEF FastestVariant, Variants
<1> QED BY <1>1, <1>2, <1>3, <1>4, <1>5, <1>6, <1>7

LEMMA StartVariantLemma == TunerInv /\ StartVariant => TunerInv'
<1> SUFFICES ASSUME TunerInv, StartVariant PROVE TunerInv'
  OBVIOUS
<1> USE Counts DEF TunerInv, StartVariant, Measured, timer, search, signing, NoStage
<1>1. TypeOK'
  <2>1. stage \in Stages /\ variant \in Variants(stage)
    BY DEF TypeOK, Loops, Variants
  <2>2. DOMAIN selected' = Stages /\ \A s \in Stages : selected'[s] \in Variants(s)
    BY <2>1 DEF TypeOK
  <2> QED BY <2>2 DEF TypeOK
<1>2. Loops'
  <2>1. stage \in Stages /\ variant \in Variants(stage)
    BY DEF TypeOK, Loops, Variants
  <2> QED BY <2>1 DEF Loops
<1>3. WindowClosed'
  BY DEF WindowClosed, Window, Variants
<1>4. Window'
  BY DEF TypeOK, WindowClosed, Window, Variants
<1>5. ElapsedIsWhole'
  BY DEF TypeOK, Loops, Window, ElapsedIsWhole, Variants
<1>6. BestInv'
  BY DEF Loops, BestInv, Variants
<1>7. FastestVariant'
  BY DEF FastestVariant, Variants
<1> QED BY <1>1, <1>2, <1>3, <1>4, <1>5, <1>6, <1>7

LEMMA StartRunLemma == TunerInv /\ StartRun => TunerInv'
<1> SUFFICES ASSUME TunerInv, StartRun PROVE TunerInv'
  OBVIOUS
<1> USE Counts DEF TunerInv, StartRun, SignCall, Still, Measured, timer, search, signing, NoStage
<1>1. TypeOK'
  <2>1. stage \in Stages
    BY DEF Loops
  <2>2. measuring' \in Stages \cup {NoStage} /\ ms' \in Nat
    BY <2>1 DEF TypeOK
  <2>b. events' \in BOOLEAN
    BY Zenon DEF TypeOK
  <2> QED BY <2>b, <2>2 DEF TypeOK
<1>2. Loops'
  BY DEF TypeOK, Loops
<1>3. WindowClosed'
  BY DEF WindowClosed, Window
<1>4. Window'
  BY DEF TypeOK, WindowClosed, Window
<1>5. ElapsedIsWhole'
  <2>1. stage \in Stages
    BY DEF Loops
  <2>2. spent'[stage] = 0
    BY <2>1
  <2> QED BY <2>1, <2>2 DEF ElapsedIsWhole, WindowClosed
<1>6. BestInv'
  BY DEF Loops, BestInv
<1>7. FastestVariant'
  BY DEF FastestVariant, Variants
<1> QED BY <1>1, <1>2, <1>3, <1>4, <1>5, <1>6, <1>7

LEMMA TuningBeginFailsLemma == TunerInv /\ TuningBeginFails => TunerInv'
<1> SUFFICES ASSUME TunerInv, TuningBeginFails PROVE TunerInv'
  OBVIOUS
<1> USE Counts DEF TunerInv, TuningBeginFails, Return, Measured, timer, search, signing, NoStage
<1>1. TypeOK'
  BY DEF TypeOK, Loops, Variants
<1>2. Loops'
  BY DEF TypeOK, Loops
<1>3. WindowClosed'
  BY DEF WindowClosed, Window
<1>4. Window'
  BY DEF TypeOK, WindowClosed, Window
<1>5. ElapsedIsWhole'
  BY DEF TypeOK, Loops, Window, ElapsedIsWhole
<1>6. BestInv'
  BY DEF Loops, BestInv
<1>7. FastestVariant'
  BY DEF FastestVariant, Variants
<1> QED BY <1>1, <1>2, <1>3, <1>4, <1>5, <1>6, <1>7

LEMMA LaunchLemma == TunerInv /\ Launch => TunerInv'
<1> SUFFICES ASSUME TunerInv, Launch PROVE TunerInv'
  OBVIOUS
<1> USE Counts DEF TunerInv, Launch, Stop, Measured, timer, search, signing, NoStage
<1>1. TypeOK'
  BY DEF TypeOK, Loops, Variants
<1>2. Loops'
  <2>1. PICK d \in Durations : spent' = [spent EXCEPT ![Order[launch]] = @ + d]
    OBVIOUS
  <2>2. Order[launch] \in Stages
    BY DEF TypeOK
  <2>3. spent' \in [Stages -> Nat]
    <3>1. spent \in [Stages -> Nat]
      BY DEF Loops
    <3>2. d \in Nat
      BY Counts
    <3>3. spent[Order[launch]] + d \in Nat
      BY ONLY <2>2, <3>1, <3>2
    <3> QED BY ONLY <2>1, <2>2, <3>1, <3>3
  <2> QED BY <2>3 DEF Loops
<1>3. WindowClosed'
  BY DEF WindowClosed, Window
<1>4. Window'
  <2>1. Order[launch] \in Stages /\ NoStage \notin Stages
    BY DEF TypeOK
  <2>2. ms' = ms \/ measuring # NoStage
    BY <2>1
  <2> QED BY <2>2 DEF Window
<1>5. ElapsedIsWhole'
  BY DEF TypeOK, Loops, Window, ElapsedIsWhole
<1>6. BestInv'
  BY DEF Loops, BestInv
<1>7. FastestVariant'
  BY DEF FastestVariant, Variants
<1> QED BY <1>1, <1>2, <1>3, <1>4, <1>5, <1>6, <1>7

LEMMA AnotherRoundLemma == TunerInv /\ AnotherRound => TunerInv'
<1> SUFFICES ASSUME TunerInv, AnotherRound PROVE TunerInv'
  OBVIOUS
<1> USE Counts DEF TunerInv, AnotherRound, Measured, timer, search, signing, NoStage
<1>1. TypeOK'
  BY DEF TypeOK, Loops, Variants
<1>2. Loops'
  BY DEF TypeOK, Loops
<1>3. WindowClosed'
  BY DEF WindowClosed, Window
<1>4. Window'
  BY DEF TypeOK, WindowClosed, Window
<1>5. ElapsedIsWhole'
  BY DEF TypeOK, Loops, Window, ElapsedIsWhole
<1>6. BestInv'
  BY DEF Loops, BestInv
<1>7. FastestVariant'
  BY DEF FastestVariant, Variants
<1> QED BY <1>1, <1>2, <1>3, <1>4, <1>5, <1>6, <1>7

LEMMA RunDoneLemma == TunerInv /\ RunDone => TunerInv'
<1> SUFFICES ASSUME TunerInv, RunDone PROVE TunerInv'
  OBVIOUS
<1> USE Counts DEF TunerInv, RunDone, EndMeasured, TuningEnd, Measured, timer, search, signing, NoStage
<1>1. TypeOK'
  <2>1. Len(samples) = (IF run <= Warmups THEN 0 ELSE run - Warmups) /\ run < Warmups + Samples
    BY DEF Loops
  <2>2. samples' \in Seq(Nat) /\ Len(samples') <= Samples
    BY <2>1 DEF TypeOK
  <2>3. run' \in 0 .. Warmups + Samples
    BY <2>1 DEF TypeOK
  <2>4. measuring' \in Stages \cup {NoStage} /\ ms' \in Nat
    BY DEF TypeOK
  <2>b. events' \in BOOLEAN
    BY Zenon DEF TypeOK
  <2> QED BY <2>b, <2>2, <2>3, <2>4 DEF TypeOK
<1>2. Loops'
  <2>1. /\ Len(samples) = (IF run <= Warmups THEN 0 ELSE run - Warmups)
        /\ run \in Nat /\ samples \in Seq(Nat) /\ ms \in Nat
    BY DEF Loops, TypeOK
  <2>2. Len(samples') = IF run' <= Warmups THEN 0 ELSE run' - Warmups
    BY <2>1
  <2> QED BY <2>2 DEF Loops
<1>3. WindowClosed'
  BY DEF WindowClosed, Window
<1>4. Window'
  BY DEF TypeOK, WindowClosed, Window
<1>5. ElapsedIsWhole'
  BY DEF TypeOK, Loops, Window, ElapsedIsWhole
<1>6. BestInv'
  BY DEF Loops, BestInv
<1>7. FastestVariant'
  BY DEF FastestVariant, Variants
<1> QED BY <1>1, <1>2, <1>3, <1>4, <1>5, <1>6, <1>7

LEMMA RunFailsLemma == TunerInv /\ RunFails => TunerInv'
<1> SUFFICES ASSUME TunerInv, RunFails PROVE TunerInv'
  OBVIOUS
<1> USE Counts DEF TunerInv, RunFails, EndFailed, EndMeasured, TuningEnd, Measured, Return, timer, search, signing, NoStage
<1>1. TypeOK'
  <2>1. measuring' \in Stages \cup {NoStage} /\ ms' \in Nat
    BY DEF TypeOK
  <2>2. selected' = selected /\ launch' = launch /\ round' = round
    OBVIOUS
  <2>b. events' \in BOOLEAN
    BY Zenon DEF TypeOK
  <2> QED BY <2>b, <2>1, <2>2 DEF TypeOK
<1>2. Loops'
  BY DEF TypeOK, Loops
<1>3. WindowClosed'
  BY DEF WindowClosed, Window
<1>4. Window'
  BY DEF TypeOK, WindowClosed, Window
<1>5. ElapsedIsWhole'
  BY DEF TypeOK, Loops, Window, ElapsedIsWhole
<1>6. BestInv'
  BY DEF Loops, BestInv
<1>7. FastestVariant'
  BY DEF FastestVariant, Variants
<1> QED BY <1>1, <1>2, <1>3, <1>4, <1>5, <1>6, <1>7

LEMMA EndVariantLemma == TunerInv /\ EndVariant => TunerInv'
<1> SUFFICES ASSUME TunerInv, EndVariant PROVE TunerInv'
  OBVIOUS
<1> USE Counts DEF TunerInv, EndVariant, Measured, timer, search, signing, NoStage
<1>1. TypeOK'
  <2>0. samples \in Seq(Nat) /\ Len(samples) = Samples
    BY DEF TypeOK, Loops
  <2>m. Median(samples) \in Nat
    BY <2>0, MedianIsNat

  <2>1. best_ms' \in Nat \cup {-1} /\ best_variant' \in Nat \cup {-1}
    BY <2>m DEF TypeOK
  <2> QED BY <2>1 DEF TypeOK
<1>2. Loops'
  <2>0. samples \in Seq(Nat) /\ Len(samples) = Samples
    BY DEF TypeOK, Loops
  <2>m. Median(samples) \in Nat
    BY <2>0, MedianIsNat

  <2>1. medians' \in Seq(Nat)
    BY <2>m DEF Loops
  <2>2. variant + 1 <= VariantCount[stage]
    BY DEF Loops, Variants
  <2> QED BY <2>1, <2>2 DEF Loops
<1>3. WindowClosed'
  BY DEF WindowClosed, Window, Variants
<1>4. Window'
  BY DEF TypeOK, WindowClosed, Window, Variants
<1>5. ElapsedIsWhole'
  BY DEF TypeOK, Loops, Window, ElapsedIsWhole, Variants
<1>6. BestInv'
  <2>0. samples \in Seq(Nat) /\ Len(samples) = Samples
    BY DEF TypeOK, Loops
  <2>m. Median(samples) \in Nat
    BY <2>0, MedianIsNat

  <2> DEFINE m == Median(samples)
  <2>1. /\ medians \in Seq(Nat) /\ Len(medians) = variant /\ variant \in Nat
        /\ medians' = Append(medians, m) /\ variant' = variant + 1
    BY DEF BestInv, Loops, Variants
  <2>2. /\ best_ms' = IF best_ms = -1 \/ m < best_ms THEN m ELSE best_ms
        /\ best_variant' = IF best_ms = -1 \/ m < best_ms THEN variant ELSE best_variant
    OBVIOUS
  <2> HIDE DEF m
  <2>3. Len(medians') = variant' /\ medians'[variant'] = m
    BY <2>m, <2>1 DEF m
  <2>4. \A w \in 0 .. variant - 1 : medians'[w + 1] = medians[w + 1] /\ medians[w + 1] \in Nat
    BY <2>m, <2>1 DEF m
  <2>5. \A w \in 0 .. variant : w = variant \/ w \in 0 .. variant - 1
    BY <2>1
  <2>6. CASE variant = 0
    BY <2>m, <2>1, <2>2, <2>3, <2>5, <2>6 DEF BestInv, m
  <2>7. CASE variant > 0
    <3>1. /\ best_variant \in 0 .. variant - 1 /\ best_ms = medians[best_variant + 1]
          /\ \A w \in 0 .. variant - 1 :
               best_ms <= medians[w + 1] /\ (w < best_variant => best_ms < medians[w + 1])
      BY <2>7 DEF BestInv
    <3>2. best_ms \in Nat
      BY <2>4, <3>1
    <3>3. best_variant' \in 0 .. variant /\ best_ms' = medians'[best_variant' + 1]
      BY <2>1, <2>2, <2>3, <2>4, <3>1, <3>2
    <3>4. \A w \in 0 .. variant :
            best_ms' <= medians'[w + 1] /\ (w < best_variant' => best_ms' < medians'[w + 1])
      BY <2>m, <2>1, <2>2, <2>3, <2>4, <2>5, <3>1, <3>2 DEF m
    <3>5. pc' = "variant" /\ variant' > 0 /\ variant' - 1 = variant
      BY <2>1
    <3>6. /\ best_variant' \in 0 .. variant' - 1
          /\ \A w \in 0 .. variant' - 1 :
               best_ms' <= medians'[w + 1] /\ (w < best_variant' => best_ms' < medians'[w + 1])
      BY <3>3, <3>4, <3>5
    <3>7. ~(variant' = 0)
      BY <3>5
    <3> QED BY Zenon, <2>3, <3>3, <3>6, <3>7 DEF BestInv
  <2> QED BY <2>1, <2>6, <2>7
<1>7. FastestVariant'
  BY DEF FastestVariant, Variants
<1> QED BY <1>1, <1>2, <1>3, <1>4, <1>5, <1>6, <1>7

LEMMA EndStageLemma == TunerInv /\ EndStage => TunerInv'
<1> SUFFICES ASSUME TunerInv, EndStage PROVE TunerInv'
  OBVIOUS
<1> USE Counts DEF TunerInv, EndStage, Measured, timer, search, signing, NoStage
<1>1. TypeOK'
  <2>1. stage \in Stages /\ best_variant \in Variants(stage)
    BY DEF Loops, BestInv, Variants
  <2>2. DOMAIN selected' = Stages /\ \A s \in Stages : selected'[s] \in Variants(s)
    BY <2>1 DEF TypeOK
  <2> QED BY <2>1, <2>2 DEF TypeOK
<1>2. Loops'
  BY DEF TypeOK, Loops, Variants
<1>3. WindowClosed'
  BY DEF WindowClosed, Window, Variants
<1>4. Window'
  BY DEF TypeOK, WindowClosed, Window, Variants
<1>5. ElapsedIsWhole'
  BY DEF TypeOK, Loops, Window, ElapsedIsWhole, Variants
<1>6. BestInv'
  BY DEF Loops, BestInv, Variants
<1>7. FastestVariant'
  <2>1. /\ stage \in Stages /\ VariantCount[stage] > 0 /\ variant = VariantCount[stage]
        /\ stage' - 1 = stage /\ selected'[stage] = best_variant /\ medians' = medians
    BY DEF Loops, TypeOK
  <2>2. /\ best_variant \in Variants(stage) /\ Len(medians) = VariantCount[stage]
        /\ \A w \in Variants(stage) :
             /\ medians[best_variant + 1] <= medians[w + 1]
             /\ w < best_variant => medians[best_variant + 1] < medians[w + 1]
    BY <2>1 DEF BestInv, Variants
  <2> QED BY <2>1, <2>2 DEF FastestVariant
<1> QED BY <1>1, <1>2, <1>3, <1>4, <1>5, <1>6, <1>7

LEMMA TuneDoneLemma == TunerInv /\ TuneDone => TunerInv'
<1> SUFFICES ASSUME TunerInv, TuneDone PROVE TunerInv'
  OBVIOUS
<1> USE Counts DEF TunerInv, TuneDone, Return, Measured, timer, search, signing, NoStage
<1>1. TypeOK'
  BY DEF TypeOK, Loops, Variants
<1>2. Loops'
  BY DEF TypeOK, Loops
<1>3. WindowClosed'
  BY DEF WindowClosed, Window
<1>4. Window'
  BY DEF TypeOK, WindowClosed, Window
<1>5. ElapsedIsWhole'
  BY DEF TypeOK, Loops, Window, ElapsedIsWhole
<1>6. BestInv'
  BY DEF Loops, BestInv
<1>7. FastestVariant'
  BY DEF FastestVariant, Variants
<1> QED BY <1>1, <1>2, <1>3, <1>4, <1>5, <1>6, <1>7

-----------------------------------------------------------------------------
(* The invariant holds initially and is kept by every step. *)

LEMMA TunerInvInit == Init => TunerInv
<1> SUFFICES ASSUME Init PROVE TunerInv
  OBVIOUS
<1>1. TypeOK
  <2>1. events \in BOOLEAN
    BY Zenon DEF Init
  <2>2. DOMAIN selected = Stages /\ \A s \in Stages : selected[s] \in Variants(s)
    BY CountsAssumption DEF Init
  <2> QED BY <2>1, <2>2, Counts DEF Init, TypeOK
<1>2. Loops /\ WindowClosed /\ Window /\ ElapsedIsWhole /\ BestInv /\ FastestVariant
  BY Counts DEF Init, Loops, WindowClosed, Window, ElapsedIsWhole, BestInv, FastestVariant, Still
<1> QED BY <1>1, <1>2 DEF TunerInv

LEMMA TunerInvStep == TunerInv /\ [Next]_vars => TunerInv'
<1>1. TunerInv /\ Next => TunerInv'
  BY ApplyLaunchProfileLemma, TuneStartLemma, TuneRefusedLemma, StartStageLemma, StartVariantLemma, StartRunLemma, TuningBeginFailsLemma,
     LaunchLemma, AnotherRoundLemma, RunDoneLemma, RunFailsLemma, EndVariantLemma, EndStageLemma, TuneDoneLemma DEF Next
<1>2. TunerInv /\ UNCHANGED vars => TunerInv'
  BY DEF vars, timer, search, signing, TunerInv, TypeOK, Loops, WindowClosed, Window,
     ElapsedIsWhole, BestInv, FastestVariant, Measured
<1> QED BY <1>1, <1>2

\* The tuner keeps its bookkeeping, for every sequence of calls, failures and
\* times.
THEOREM TunerInvariant == Spec => []TunerInv
BY TunerInvInit, TunerInvStep, PTL DEF Spec

\* The selection is always one of variants that exist.
THEOREM TunerTypesCorrect == Spec => []TypeOK
<1>1. TunerInv => TypeOK
  BY DEF TunerInv
<1> QED BY <1>1, TunerInvariant, PTL

\* However the tuner ends, the window of a measurement is closed
\* (crypto_sign_tuning_end), for any number of runs and rounds.
THEOREM WindowClosedTheorem == Spec => []WindowClosed
<1>1. TunerInv => WindowClosed
  BY DEF TunerInv
<1> QED BY <1>1, TunerInvariant, PTL

\* The elapsed time is that of every launch of the stage under test in every
\* round and of no other launch (tuning_start, tuning_stop).
THEOREM ElapsedIsWholeTheorem == Spec => []ElapsedIsWhole
<1>1. TunerInv => ElapsedIsWhole
  BY DEF TunerInv
<1> QED BY <1>1, TunerInvariant, PTL

\* A stage that was tuned has the first of its variants with the least median,
\* whatever the times (crypto_sign_tune_launch).
THEOREM FastestVariantTheorem == Spec => []FastestVariant
<1>1. TunerInv => FastestVariant
  BY DEF TunerInv
<1> QED BY <1>1, TunerInvariant, PTL
=============================================================================
