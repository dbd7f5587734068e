------------------------- MODULE KyberLaunchProofs -------------------------
(***************************************************************************)
(* Proofs about the Kyber launch sizes and their tuner, for every number   *)
(* of kernels and every limit of the device.                               *)
(***************************************************************************)
EXTENDS KyberLaunch, TLAPS, WellFoundedInduction

(***************************************************************************)
(* The inductive invariant.                                                *)
(***************************************************************************)
\* The candidates up to b that kernel k supports.
Fitting(k, b) == {s \in Sizes : s <= b /\ Fits(k, s)}

\* There is an override of both or of none, and none while tuning.
OverrideInv ==
  /\ override.block = 0 => override = NoOverride
  /\ pc # "idle" => override = NoOverride

BlocksInv == \A k \in Kernels : blocks[k] <= Maximum[k]

\* The timing window is open at one control point only.
WindowInv ==
  IF pc = "window"
    THEN /\ enabled /\ candidate = block_size
         /\ eligible = {k \in Kernels : Fits(k, block_size)}
    ELSE ~enabled /\ candidate = 0 /\ ~events

SizeInv ==
  /\ block_size <= DeviceMax
  /\ pc = "idle" => block_size = 0 /\ measured = NoMedians
  /\ pc \in {"warmup", "begin", "window"} => block_size \in Sizes

\* While tuning, every kernel has the largest candidate tried that it supports.
TunedInv ==
  pc # "idle" =>
    \A k \in Kernels : \A s \in Fitting(k, block_size) :
      blocks[k] \in Fitting(k, block_size) /\ s <= blocks[k]

\* While tuning, exactly the candidates already timed have a median.
MeasuredInv ==
  pc # "idle" =>
    \A k \in Kernels :
      /\ DOMAIN measured[k] = {s \in Fitting(k, block_size) :
                                 s < block_size \/ pc = "next"}
      /\ \A s \in DOMAIN measured[k] : measured[k][s] > 0

\* Runs of a candidate are counted up to the last trial only.
RunInv ==
  /\ pc = "warmup" => run < Warmups
  /\ pc = "window" => run < Warmups + Samples

BatchInv == pc # "idle" => reply.batch \in Batches

LaunchInv ==
  /\ TypeOK /\ OverrideInv /\ BlocksInv /\ WindowInv /\ SizeInv
  /\ TunedInv /\ MeasuredInv /\ RunInv /\ BatchInv
  /\ WholeBatch /\ PublishedTuning
-----------------------------------------------------------------------------
(***************************************************************************)
(* Numbers and functions.                                                  *)
(***************************************************************************)
\* A nonempty set of natural numbers has a least element.
LEMMA NatMin ==
  ASSUME NEW T, T \subseteq Nat, T # {}
  PROVE  \E m \in T : \A n \in T : m <= n
<1> DEFINE Less == OpToRel(<, Nat)
<1>1. IsWellFoundedOn(Less, Nat)
  BY NatLessThanWellFounded
<1>2. \A x, y \in Nat : <<x, y>> \in Less <=> x < y
  BY DEF OpToRel
<1>3. PICK m \in T : \A n \in T : ~(<<n, m>> \in Less)
  <2> HIDE DEF Less
  <2> QED BY <1>1, WFMin
<1>4. \A n \in T : ~(n < m)
  <2> HIDE DEF Less
  <2> QED BY <1>2, <1>3
<1> QED
  <2> \A n \in T : n \in Nat /\ m \in Nat
    OBVIOUS
  <2> QED BY <1>4

\* Block sizes are positive numbers.
LEMMA SizesAre ==
  /\ \A s \in Sizes : s \in Nat /\ 0 < s /\ s <= BlockLimit
  /\ \A k \in Kernels : Maximum[k] \in Nat /\ Default[k] \in Nat
  /\ \A k \in Kernels : 0 < Default[k] /\ Default[k] <= Maximum[k]
  /\ \A k \in Kernels : Maximum[k] <= BlockLimit
  /\ DeviceMax \in Nat /\ BlockLimit \in Nat
  BY CountsAssumption, SizesAssumption, DeviceAssumption DEF Blocks

\* A grid that is rounded up reaches the last item (TIMING_START and the
\* launches of indcpa.cu).
LEMMA RoundUp ==
  ASSUME NEW n \in Nat, NEW b \in Nat \ {0}, NEW i \in 0 .. n - 1
  PROVE  i < ((n + b - 1) \div b) * b
<1> DEFINE q == (n + b - 1) \div b
           r == (n + b - 1) % b
<1>1. q \in Int /\ r \in 0 .. b - 1
  OBVIOUS
<1>2. n + b - 1 = b * q + r
  OBVIOUS
<1>3. q * b = b * q /\ b * q \in Int
  BY <1>1, SMT
<1> HIDE DEF q, r
<1>4. q * b >= n
  BY <1>1, <1>2, <1>3
<1> QED
  BY <1>4, <1>1, <1>3 DEF q

\* The next candidate is the least of the later ones.
LEMMA NextSizeLeast ==
  ASSUME block_size \in Nat, Later # {}
  PROVE  NextSize \in Later /\ \A t \in Later : NextSize <= t
<1>1. Later \subseteq Nat
  BY SizesAre DEF Later
<1>2. \E s \in Later : \A t \in Later : s <= t
  BY <1>1, NatMin
<1> QED
  BY <1>2 DEF NextSize

\* Measurements are functions from candidates to times.
LEMMA MediansAre ==
  ASSUME NEW m
  PROVE  m \in Medians <=> m \in [DOMAIN m -> Times] /\ DOMAIN m \subseteq Sizes
  BY DEF Medians

\* Among measured sizes there is a best one.
LEMMA BestMeasured ==
  ASSUME NEW m \in Medians, DOMAIN m # {}
  PROVE  Best(m) \in DOMAIN m
<1>1. m \in [DOMAIN m -> Nat] /\ DOMAIN m \subseteq Nat
  BY MediansAre, TimesAssumption, SizesAre
<1> DEFINE T == {m[s] : s \in DOMAIN m}
<1>2. T \subseteq Nat /\ T # {}
  BY <1>1
<1>3. PICK v \in T : \A w \in T : v <= w
  <2> HIDE DEF T
  <2> QED BY <1>2, NatMin
<1> DEFINE F == {s \in DOMAIN m : m[s] = v}
<1>4. F \subseteq Nat /\ F # {}
  BY <1>1, <1>3
<1>5. PICK s \in F : \A t \in F : s <= t
  <2> HIDE DEF F
  <2> QED BY <1>4, NatMin
<1>6. /\ s \in DOMAIN m
      /\ \A t \in DOMAIN m : m[s] <= m[t]
      /\ \A t \in DOMAIN m : m[t] = m[s] => s <= t
  BY <1>3, <1>5
<1> QED
  BY <1>6 DEF Best

-----------------------------------------------------------------------------
(***************************************************************************)
(* What the invariant says of a launch.                                    *)
(***************************************************************************)
\* No launch is refused by the device unless the caller overrode all kernels.
LEMMA LegalFromInv ==
  ASSUME LaunchInv
  PROVE  LaunchesLegal
<1> SUFFICES ASSUME override.block = 0, NEW k \in Kernels
             PROVE  SelectedBlock(k) \in 1 .. Maximum[k]
  BY DEF LaunchesLegal
<1>1. Maximum[k] \in Nat /\ Default[k] \in 1 .. Maximum[k]
  BY SizesAre
<1>2. blocks[k] \in Nat /\ blocks[k] <= Maximum[k]
  BY SizesAre DEF LaunchInv, TypeOK, BlocksInv
<1>3. ASSUME enabled, k \in eligible
      PROVE  candidate \in 1 .. Maximum[k]
  <2>1. pc = "window" /\ candidate = block_size /\ Fits(k, block_size)
    BY <1>3 DEF LaunchInv, WindowInv
  <2>2. block_size \in Nat \ {0}
    BY <2>1, SizesAre DEF LaunchInv, SizeInv
  <2> QED BY <2>1, <2>2, <1>1 DEF Fits
<1> QED
  BY <1>1, <1>2, <1>3 DEF SelectedBlock

\* Then a grid that follows the batch reaches every item in every kernel.
LEMMA PipelineWhole ==
  ASSUME LaunchInv, override = NoOverride, NEW n \in Batches
  PROVE  Pipeline(n) = 0 .. n - 1
<1>1. n \in Nat
  BY CountsAssumption DEF Batches
<1>2. override.block = 0 /\ override.grid = 0
  BY DEF NoOverride
<1>3. ASSUME NEW i \in 0 .. n - 1, NEW k \in Kernels
      PROVE  i \in Processed(k, n)
  <2>1. SelectedBlock(k) \in 1 .. Maximum[k] /\ Maximum[k] \in Nat
    BY <1>2, LegalFromInv, SizesAre DEF LaunchesLegal
  <2>2. PICK b \in Nat \ {0} : b = SelectedBlock(k)
    BY <2>1
  <2>3. Grid(k, n) = (n + b - 1) \div b
    BY <1>2, <2>2 DEF Grid
  <2>4. i < Grid(k, n) * b
    BY <1>1, <2>3, RoundUp
  <2> QED BY <2>1, <2>2, <2>4 DEF Processed
<1> QED
  BY <1>3 DEF Pipeline

\* The tuner's window shows the candidate under test.
LEMMA MeasuresFromInv ==
  ASSUME LaunchInv
  PROVE  MeasuresCandidate
<1> SUFFICES ASSUME pc = "window", NEW k \in Kernels,
                    Fitting(k, block_size) # {}
             PROVE  /\ SelectedBlock(k) \in Fitting(k, block_size)
                    /\ \A s \in Fitting(k, block_size) : s <= SelectedBlock(k)
  BY DEF MeasuresCandidate, Fitting
<1>1. override.block = 0
  BY DEF LaunchInv, OverrideInv, NoOverride
<1>2. enabled /\ candidate = block_size /\ (k \in eligible <=> Fits(k, block_size))
  BY DEF LaunchInv, WindowInv
<1>3. block_size \in Sizes /\ block_size \in Nat
  BY SizesAre DEF LaunchInv, SizeInv
<1>4. CASE Fits(k, block_size)
  <2>1. SelectedBlock(k) = block_size
    BY <1>1, <1>2, <1>4 DEF SelectedBlock
  <2> QED BY <2>1, <1>3, <1>4 DEF Fitting
<1>5. CASE ~Fits(k, block_size)
  <2>1. /\ blocks[k] \in Fitting(k, block_size)
        /\ \A s \in Fitting(k, block_size) : s <= blocks[k]
    BY DEF LaunchInv, TunedInv
  <2>2. blocks[k] > 0
    BY <2>1, SizesAre DEF Fitting
  <2>3. SelectedBlock(k) = blocks[k]
    BY <1>1, <1>2, <1>5, <2>2 DEF SelectedBlock
  <2> QED BY <2>1, <2>3
<1> QED
  BY <1>4, <1>5

-----------------------------------------------------------------------------
(***************************************************************************)
(* The invariant holds initially and every step keeps it.                  *)
(***************************************************************************)
LEMMA NoMediansAre ==
  /\ NoMedians \in [Kernels -> Medians]
  /\ \A k \in Kernels : DOMAIN NoMedians[k] = {}
<1>1. [s \in {} |-> 0] \in Medians
  <2>1. [s \in {} |-> 0] \in [{} -> Times]
    OBVIOUS
  <2> QED BY <2>1 DEF Medians
<1> QED
  BY <1>1 DEF NoMedians

LEMMA NothingFits ==
  ASSUME NEW k \in Kernels
  PROVE  Fitting(k, 0) = {}
  BY SizesAre DEF Fitting

LEMMA InitLaunchInv == Init => LaunchInv
<1> SUFFICES ASSUME Init PROVE LaunchInv
  OBVIOUS
<1> USE DEF Init, NoOverride
<1>1. TypeOK
  <2>1. Answer("none", 0, 0, {}) \in
          [call : {"none", "config", "profile", "operation", "tune"},
           ret : {0, -1}, batch : 0 .. MaxBatch, done : SUBSET (0 .. MaxBatch - 1)]
    BY CountsAssumption DEF Answer
  <2>2. [k \in Kernels |-> 0] \in [Kernels -> 0 .. BlockLimit]
    BY SizesAre
  <2>3. 0 \in 0 .. GridLimit /\ 0 \in 0 .. BlockLimit /\ 0 \in 0 .. MaxBatch
        /\ 0 \in 0 .. Warmups + Samples
    BY CountsAssumption
  <2> QED BY <2>1, <2>2, <2>3, NoMediansAre DEF TypeOK
<1>2. OverrideInv
  BY DEF OverrideInv
<1>3. BlocksInv
  BY SizesAre DEF BlocksInv
<1>4. WindowInv /\ SizeInv
  BY SizesAre DEF WindowInv, SizeInv
<1>5. TunedInv /\ MeasuredInv /\ RunInv /\ BatchInv
  BY DEF TunedInv, MeasuredInv, RunInv, BatchInv
<1>6. WholeBatch /\ PublishedTuning
  BY DEF WholeBatch, WholeBatchAlways, PublishedTuning, Answer
<1> QED
  BY <1>1, <1>2, <1>3, <1>4, <1>5, <1>6 DEF LaunchInv

Replies == [call : {"none", "config", "profile", "operation", "tune"},
            ret : {0, -1}, batch : 0 .. MaxBatch, done : SUBSET (0 .. MaxBatch - 1)]

\* What a call answers is a reply.
LEMMA AnswerIs ==
  ASSUME NEW c \in {"none", "config", "profile", "operation", "tune"},
         NEW r \in {0, -1}, NEW n \in 0 .. MaxBatch,
         NEW d \in SUBSET (0 .. MaxBatch - 1)
  PROVE  Answer(c, r, n, d) \in Replies
  BY DEF Answer, Replies

LEMMA AnswerParts ==
  ASSUME NEW c, NEW r, NEW n, NEW d
  PROVE  /\ Answer(c, r, n, d).call = c /\ Answer(c, r, n, d).ret = r
         /\ Answer(c, r, n, d).batch = n /\ Answer(c, r, n, d).done = d
  BY DEF Answer

\* Launch sizes and window.
LaunchType ==
  /\ override \in [grid : 0 .. GridLimit, block : 0 .. BlockLimit]
  /\ blocks \in [Kernels -> 0 .. BlockLimit]
WindowType ==
  /\ enabled \in BOOLEAN /\ candidate \in 0 .. BlockLimit
  /\ eligible \subseteq Kernels /\ events \in BOOLEAN
PublishedType ==
  /\ available \in BOOLEAN /\ last \in [Kernels -> Medians]
  /\ last_batch \in 0 .. MaxBatch
TunerType ==
  /\ pc \in {"idle", "next", "warmup", "begin", "window"}
  /\ block_size \in Sizes \cup {0}
  /\ run \in 0 .. Warmups + Samples
  /\ measured \in [Kernels -> Medians]

LEMMA TypeParts ==
  TypeOK <=> LaunchType /\ WindowType /\ PublishedType /\ TunerType /\ reply \in Replies
  BY DEF TypeOK, LaunchType, WindowType, PublishedType, TunerType, Replies

\* The candidate after block_size.
LEMMA NextSizeIs ==
  ASSUME LaunchInv, Later # {}
  PROVE  /\ NextSize \in Sizes /\ NextSize \in Nat /\ NextSize <= DeviceMax
         /\ block_size \in Nat /\ block_size < NextSize
         /\ \A s \in Sizes : s < NextSize => s <= block_size
<1>1. block_size \in Nat
  BY SizesAre DEF LaunchInv, TypeOK
<1>2. NextSize \in Later /\ \A t \in Later : NextSize <= t
  BY <1>1, NextSizeLeast
<1>3. \A s \in Sizes : s \in Nat
  BY SizesAre
<1>4. DeviceMax \in Nat
  BY SizesAre
<1>5. NextSize \in Sizes /\ NextSize > block_size /\ NextSize <= DeviceMax
  BY <1>2 DEF Later
<1>6. ASSUME NEW s \in Sizes, s < NextSize, ~(s <= block_size)
      PROVE  FALSE
  <2>1. s \in Later
    BY <1>1, <1>3, <1>4, <1>5, <1>6 DEF Later
  <2> QED BY <2>1, <1>2, <1>3, <1>5, <1>6
<1> QED
  BY <1>1, <1>3, <1>5, <1>6

\* When no candidate is left, every kernel has a best one that it supports.
LEMMA BestTuned ==
  ASSUME LaunchInv, pc = "next", Later = {}, NEW k \in Kernels
  PROVE  /\ DOMAIN measured[k] = {s \in Sizes : s <= DeviceMax /\ Fits(k, s)}
         /\ Best(measured[k]) \in DOMAIN measured[k]
         /\ Best(measured[k]) \in 0 .. BlockLimit
         /\ Best(measured[k]) <= Maximum[k]
<1>1. DOMAIN measured[k] = Fitting(k, block_size)
  BY DEF LaunchInv, MeasuredInv, Fitting
<1>2. block_size \in Nat /\ block_size <= DeviceMax
  BY SizesAre DEF LaunchInv, TypeOK, SizeInv
<1>3. \A s \in Sizes : s <= DeviceMax <=> s <= block_size
  BY <1>2, SizesAre DEF Later
<1>4. DOMAIN measured[k] = {s \in Sizes : s <= DeviceMax /\ Fits(k, s)}
  BY <1>1, <1>3 DEF Fitting
<1>5. DOMAIN measured[k] # {}
  BY <1>4, SmallestAssumption DEF Fits
<1>6. measured[k] \in Medians
  BY DEF LaunchInv, TypeOK
<1>7. Best(measured[k]) \in DOMAIN measured[k]
  BY <1>5, <1>6, BestMeasured
<1> QED
  BY <1>4, <1>7, SizesAre DEF Fits

\* A new median for every kernel that was timed.
Recorded(t) ==
  [k \in Kernels |->
     IF Fits(k, block_size)
       THEN [s \in DOMAIN measured[k] \cup {block_size} |->
               IF s = block_size THEN t[k] ELSE measured[k][s]]
       ELSE measured[k]]

LEMMA RecordedIs ==
  ASSUME measured \in [Kernels -> Medians], block_size \in Sizes,
         NEW t \in [Kernels -> Times]
  PROVE  /\ Recorded(t) \in [Kernels -> Medians]
         /\ \A k \in Kernels :
              /\ Fits(k, block_size) =>
                   DOMAIN Recorded(t)[k] = DOMAIN measured[k] \cup {block_size}
              /\ Fits(k, block_size) => Recorded(t)[k][block_size] = t[k]
              /\ ~Fits(k, block_size) => Recorded(t)[k] = measured[k]
              /\ \A s \in DOMAIN measured[k] :
                   s # block_size => Recorded(t)[k][s] = measured[k][s]
<1>1. ASSUME NEW k \in Kernels
      PROVE  Recorded(t)[k] \in Medians
  <2>1. /\ measured[k] \in [DOMAIN measured[k] -> Times]
        /\ DOMAIN measured[k] \subseteq Sizes
    BY MediansAre
  <2>2. CASE ~Fits(k, block_size)
    BY <2>2 DEF Recorded
  <2>3. CASE Fits(k, block_size)
    <3> DEFINE D == DOMAIN measured[k] \cup {block_size}
               f == [s \in D |-> IF s = block_size THEN t[k] ELSE measured[k][s]]
    <3>1. f \in [D -> Times] /\ D \subseteq Sizes
      BY <2>1
    <3>2. Recorded(t)[k] = f
      BY <2>3 DEF Recorded
    <3> QED BY <3>1, <3>2 DEF Medians
  <2> QED BY <2>2, <2>3
<1>2. Recorded(t) \in [Kernels -> Medians]
  BY <1>1 DEF Recorded
<1> QED
  BY <1>2 DEF Recorded

\* Where the tuner stops, its local state is gone.
LEMMA ReturnIs ==
  ASSUME LaunchInv, NEW r \in {0, -1}, Return(r)
  PROVE  /\ TunerType' /\ reply' \in Replies
         /\ pc' = "idle" /\ block_size' = 0 /\ measured' = NoMedians
         /\ reply'.call = "tune"
<1>1. reply.batch \in 0 .. MaxBatch
  BY DEF LaunchInv, TypeOK
<1>2. Answer("tune", r, reply.batch, {}) \in Replies
  BY <1>1, AnswerIs
<1>3. 0 \in 0 .. Warmups + Samples
  BY CountsAssumption
<1> QED
  BY <1>2, <1>3, AnswerParts, NoMediansAre DEF Return, TunerType

\* Every step keeps the types.
LEMMA TypeStep ==
  ASSUME LaunchInv, [Next]_vars
  PROVE  TypeOK'
<1> DEFINE Types == LaunchType /\ WindowType /\ PublishedType /\ TunerType /\ reply \in Replies
<1>0. Types
  BY TypeParts DEF LaunchInv
<1>a. /\ UNCHANGED launch => LaunchType'
      /\ UNCHANGED window => WindowType'
      /\ UNCHANGED published => PublishedType'
      /\ UNCHANGED tuner => TunerType'
  BY <1>0 DEF LaunchType, WindowType, PublishedType, TunerType, launch, window, published, tuner
<1>p. LaunchType' /\ WindowType' /\ PublishedType' /\ TunerType' /\ reply' \in Replies
         => TypeOK'
  BY DEF TypeOK, LaunchType, WindowType, PublishedType, TunerType, Replies
<1>b. NoOverride \in [grid : 0 .. GridLimit, block : 0 .. BlockLimit]
  BY CountsAssumption DEF NoOverride
<1>c. \A n \in Batches : n \in 0 .. MaxBatch
  BY CountsAssumption DEF Batches
<1>d. WindowType /\ TuningEnd => WindowType'
  <2>1. 0 \in 0 .. BlockLimit
    BY SizesAre
  <2> QED BY <2>1 DEF WindowType, TuningEnd
<1>e. 0 \in 0 .. MaxBatch /\ 0 \in 0 .. BlockLimit /\ {} \in SUBSET (0 .. MaxBatch - 1)
  BY CountsAssumption
<1> HIDE DEF Types
<1>1. CASE SetLaunchConfig
  <2>1. PICK g \in 1 .. GridLimit, b \in Blocks : override' = [grid |-> g, block |-> b]
    BY <1>1 DEF SetLaunchConfig
  <2>2. LaunchType'
    BY <1>0, <1>1, <2>1, CountsAssumption DEF Types, LaunchType, SetLaunchConfig, Blocks
  <2>3. reply' \in Replies
    BY <1>1, <1>e, AnswerIs DEF SetLaunchConfig
  <2> QED BY <1>1, <1>a, <2>2, <2>3, <1>p DEF SetLaunchConfig
<1>2. CASE ApplyLaunchProfile
  <2>1. PICK p \in [Kernels -> 0 .. BlockLimit + 1] :
           IF ProfileFits(p)
             THEN /\ override' = NoOverride
                  /\ blocks' = p
                  /\ reply' = Answer("profile", 0, 0, {})
             ELSE /\ UNCHANGED launch
                  /\ reply' = Answer("profile", -1, 0, {})
    BY <1>2 DEF ApplyLaunchProfile
  <2>2. reply' \in Replies
    BY <2>1, <1>e, AnswerIs
  <2>3. ASSUME ProfileFits(p) PROVE p \in [Kernels -> 0 .. BlockLimit]
    BY <2>3, SizesAre DEF ProfileFits
  <2>4. LaunchType'
    BY <2>1, <2>3, <1>a, <1>b DEF LaunchType
  <2> QED BY <1>2, <1>a, <2>2, <2>4, <1>p DEF ApplyLaunchProfile
<1>3. CASE Operation
  <2>1. PICK n \in Batches, r \in {0, -1} : reply' = Answer("operation", r, n, Pipeline(n))
    BY <1>3 DEF Operation
  <2>2. Pipeline(n) \in SUBSET (0 .. MaxBatch - 1)
    BY CountsAssumption DEF Pipeline, Batches
  <2>3. reply' \in Replies
    BY <2>1, <2>2, <1>c, AnswerIs
  <2> QED BY <1>3, <1>a, <2>3, <1>p DEF Operation
<1>4. CASE TuneStart
  <2>1. PICK n \in Batches : reply' = Answer("tune", -1, n, {})
    BY <1>4 DEF TuneStart
  <2>2. reply' \in Replies
    BY <2>1, <1>c, <1>e, AnswerIs
  <2>3. LaunchType'
    BY <1>0, <1>4, <1>b DEF Types, TuneStart, DropOverride, LaunchType
  <2>4. PublishedType'
    BY <1>4, <1>e, NoMediansAre DEF TuneStart, Forget, PublishedType
  <2>5. TunerType'
    BY <1>0, <1>4 DEF Types, TuneStart, TunerType
  <2> QED BY <1>4, <1>a, <2>2, <2>3, <2>4, <2>5, <1>p DEF TuneStart
<1>5. CASE TuneRefused
  <2>1. PICK n \in Batches : reply' = Answer("tune", -1, n, {})
    BY <1>5 DEF TuneRefused
  <2>2. reply' \in Replies
    BY <2>1, <1>c, <1>e, AnswerIs
  <2> QED BY <1>5, <1>a, <2>2, <1>p DEF TuneRefused
<1>6. CASE TryCandidate
  <2>1. NextSize \in Sizes
    BY <1>6, NextSizeIs DEF TryCandidate
  <2>2. NextSize \in 0 .. BlockLimit
    BY <2>1, SizesAre
  <2>3. LaunchType'
    BY <1>0, <1>6, <2>2 DEF Types, TryCandidate, LaunchType
  <2>4. 0 \in 0 .. Warmups + Samples
    BY CountsAssumption
  <2>5. TunerType'
    BY <1>0, <1>6, <2>1, <2>4 DEF Types, TryCandidate, TunerType
  <2>6. reply' \in Replies
    BY <1>0, <1>6 DEF Types, TryCandidate
  <2> QED BY <1>6, <1>a, <2>3, <2>5, <2>6, <1>p DEF TryCandidate
<1>7. CASE Warmup
  <2>1. run < Warmups /\ run \in Nat
    BY <1>0, <1>7, CountsAssumption DEF Types, TunerType, Warmup, LaunchInv, RunInv
  <2>2. run + 1 \in 0 .. Warmups + Samples
    BY <2>1, CountsAssumption
  <2>3. TunerType'
    BY <1>0, <1>7, <2>2 DEF Types, Warmup, TunerType
  <2>4. reply' \in Replies
    BY <1>0, <1>7 DEF Types, Warmup
  <2> QED BY <1>7, <1>a, <2>3, <2>4, <1>p DEF Warmup
<1>8. CASE TuningBegin
  <2>1. block_size \in 0 .. BlockLimit
    BY <1>0, SizesAre DEF Types, TunerType
  <2>2. WindowType'
    BY <1>8, <2>1 DEF TuningBegin, WindowType
  <2>3. TunerType'
    BY <1>0, <1>8 DEF Types, TuningBegin, TunerType
  <2>4. reply' \in Replies
    BY <1>0, <1>8 DEF Types, TuningBegin
  <2> QED BY <1>8, <1>a, <2>2, <2>3, <2>4, <1>p DEF TuningBegin
<1>9. CASE TuningBeginFails
  <2>1. TunerType' /\ reply' \in Replies
    BY <1>9, ReturnIs DEF TuningBeginFails
  <2>2. eligible' \subseteq Kernels
    BY <1>9 DEF TuningBeginFails
  <2>3. WindowType'
    BY <1>0, <1>9, <2>2 DEF Types, TuningBeginFails, WindowType
  <2> QED BY <1>9, <1>a, <2>1, <2>3, <1>p DEF TuningBeginFails
<1>10. CASE Trial
  <2>1. run < Warmups + Samples /\ run \in Nat
    BY <1>0, <1>10, CountsAssumption DEF Types, TunerType, Trial, LaunchInv, RunInv
  <2>2. run + 1 \in 0 .. Warmups + Samples
    BY <2>1, CountsAssumption
  <2>3. TunerType'
    BY <1>0, <1>10, <2>2 DEF Types, Trial, TunerType
  <2>4. reply' \in Replies
    BY <1>0, <1>10 DEF Types, Trial
  <2>5. WindowType'
    BY <1>0, <1>10, <1>d DEF Types, Trial
  <2> QED BY <1>10, <1>a, <2>3, <2>4, <2>5, <1>p DEF Trial
<1>11. CASE TrialFails
  <2>1. TunerType' /\ reply' \in Replies
    BY <1>11, ReturnIs DEF TrialFails
  <2>2. WindowType'
    BY <1>0, <1>11, <1>d DEF Types, TrialFails, CloseWindow
  <2> QED BY <1>11, <1>a, <2>1, <2>2, <1>p DEF TrialFails
<1>12. CASE TuneFails
  <2>1. TunerType' /\ reply' \in Replies
    BY <1>12, ReturnIs DEF TuneFails
  <2> QED BY <1>12, <1>a, <2>1, <1>p DEF TuneFails
<1>13. CASE Record
  <2>1. PICK t \in [Kernels -> Times] :
           \/ measured' = Recorded(t) /\ pc' = "next" /\ UNCHANGED <<block_size, run, reply>>
           \/ Return(-1)
    BY <1>13 DEF Record, Recorded
  <2>2. block_size \in Sizes
    BY <1>13 DEF Record, LaunchInv, SizeInv
  <2>3. Recorded(t) \in [Kernels -> Medians]
    BY <1>0, <2>2, RecordedIs DEF Types, TunerType
  <2>4. TunerType' /\ reply' \in Replies
    <3>1. CASE Return(-1)
      BY <3>1, ReturnIs
    <3>2. CASE measured' = Recorded(t) /\ pc' = "next" /\ UNCHANGED <<block_size, run, reply>>
      BY <1>0, <3>2, <2>3 DEF Types, TunerType
    <3> QED BY <2>1, <3>1, <3>2
  <2> QED BY <1>13, <1>a, <2>4, <1>p DEF Record
<1>14. CASE Publish
  <2>1. TunerType' /\ reply' \in Replies
    BY <1>14, ReturnIs DEF Publish
  <2>2. PublishedType'
    <3>1. reply.batch \in 0 .. MaxBatch /\ measured \in [Kernels -> Medians]
      BY <1>0 DEF Types, Replies, TunerType
    <3> QED BY <1>14, <3>1 DEF Publish, PublishedType
  <2>3. \A k \in Kernels : Best(measured[k]) \in 0 .. BlockLimit
    BY <1>14, BestTuned DEF Publish
  <2>4. LaunchType'
    BY <1>0, <1>14, <2>3 DEF Types, Publish, LaunchType
  <2> QED BY <1>14, <1>a, <2>1, <2>2, <2>4, <1>p DEF Publish
<1>15. CASE UNCHANGED vars
  <2>1. UNCHANGED launch /\ UNCHANGED window /\ UNCHANGED published /\ UNCHANGED tuner
        /\ UNCHANGED reply
    BY <1>15 DEF vars
  <2> QED BY <1>0, <2>1, <1>a, <1>p DEF Types
<1> QED
  BY <1>1, <1>2, <1>3, <1>4, <1>5, <1>6, <1>7, <1>8, <1>9, <1>10, <1>11, <1>12,
     <1>13, <1>14, <1>15 DEF Next

\* The override is dropped before the tuner starts and cannot come back while
\* it runs.
LEMMA OverrideStep ==
  ASSUME LaunchInv, [Next]_vars
  PROVE  OverrideInv'
<1>0. OverrideInv
  BY DEF LaunchInv
<1>1. CASE SetLaunchConfig
  <2>1. PICK g \in 1 .. GridLimit, b \in Blocks : override' = [grid |-> g, block |-> b]
    BY <1>1 DEF SetLaunchConfig
  <2>2. override'.block # 0 /\ pc' = "idle"
    BY <1>1, <2>1, CountsAssumption DEF SetLaunchConfig, Blocks, tuner
  <2> QED BY <2>2 DEF OverrideInv
<1>2. CASE ApplyLaunchProfile
  BY <1>0, <1>2 DEF ApplyLaunchProfile, OverrideInv, NoOverride, launch, tuner
<1>3. CASE TuneStart
  BY <1>3 DEF TuneStart, DropOverride, OverrideInv, NoOverride
<1>4. CASE ~(SetLaunchConfig \/ ApplyLaunchProfile \/ TuneStart)
  <2>1. UNCHANGED override
    BY <1>4 DEF Next, vars, launch, Operation, TuneRefused, TryCandidate, Warmup, TuningBegin,
       TuningBeginFails, Trial, TrialFails, TuneFails, Record, Publish
  <2>2. pc' # "idle" => pc # "idle"
    BY <1>4 DEF Next, vars, tuner, Operation, TuneRefused, TryCandidate, Warmup, TuningBegin,
       TuningBeginFails, Trial, TrialFails, TuneFails, Record, Publish, Return
  <2> QED BY <1>0, <2>1, <2>2 DEF OverrideInv
<1> QED
  BY <1>1, <1>2, <1>3, <1>4

\* No tuned size is too large for its kernel.
LEMMA BlocksStep ==
  ASSUME LaunchInv, [Next]_vars
  PROVE  BlocksInv'
<1>0. BlocksInv /\ blocks \in [Kernels -> 0 .. BlockLimit]
  BY DEF LaunchInv, TypeOK
<1>1. CASE ApplyLaunchProfile
  BY <1>0, <1>1 DEF ApplyLaunchProfile, BlocksInv, ProfileFits, launch
<1>2. CASE TryCandidate
  <2>1. blocks' = [k \in Kernels |-> IF Fits(k, NextSize) THEN NextSize ELSE blocks[k]]
    BY <1>2 DEF TryCandidate
  <2> QED BY <1>0, <2>1 DEF BlocksInv, Fits
<1>3. CASE Publish
  <2>1. blocks' = [k \in Kernels |-> Best(measured[k])] /\ pc = "next" /\ Later = {}
    BY <1>3 DEF Publish
  <2>2. \A k \in Kernels : Best(measured[k]) <= Maximum[k]
    BY <2>1, BestTuned
  <2> QED BY <2>1, <2>2 DEF BlocksInv
<1>4. CASE ~(ApplyLaunchProfile \/ TryCandidate \/ Publish)
  <2>1. UNCHANGED blocks
    BY <1>4 DEF Next, vars, launch, SetLaunchConfig, Operation, TuneStart, TuneRefused, Warmup,
       TuningBegin, TuningBeginFails, Trial, TrialFails, TuneFails, Record
  <2> QED BY <1>0, <2>1 DEF BlocksInv
<1> QED
  BY <1>1, <1>2, <1>3, <1>4

\* The window opens in TuningBegin and is closed by every step that leaves the
\* timed run.
LEMMA WindowStep ==
  ASSUME LaunchInv, [Next]_vars
  PROVE  WindowInv'
<1>0. WindowInv
  BY DEF LaunchInv
<1>1. CASE TuningBegin
  BY <1>1 DEF TuningBegin, WindowInv, Fits
<1>2. CASE TuningBeginFails
  BY <1>0, <1>2 DEF TuningBeginFails, WindowInv, Return
<1>3. CASE Trial
  BY <1>3 DEF Trial, TuningEnd, WindowInv
<1>4. CASE TrialFails
  BY <1>4 DEF TrialFails, CloseWindow, TuningEnd, Return, WindowInv
<1>5. CASE ~(TuningBegin \/ TuningBeginFails \/ Trial \/ TrialFails)
  <2>1. UNCHANGED window
    BY <1>5 DEF Next, vars, window, SetLaunchConfig, ApplyLaunchProfile, Operation, TuneStart,
       TuneRefused, TryCandidate, Warmup, TuneFails, Record, Publish
  <2>2. (pc' = "window" <=> pc = "window") /\ (pc = "window" => UNCHANGED block_size)
    BY <1>5 DEF Next, vars, tuner, SetLaunchConfig, ApplyLaunchProfile, Operation, TuneStart,
       TuneRefused, TryCandidate, Warmup, TuneFails, Record, Publish, Return
  <2> QED BY <1>0, <2>1, <2>2 DEF WindowInv, window, Fits
<1> QED
  BY <1>1, <1>2, <1>3, <1>4, <1>5

\* Steps that leave the tuner's local state alone, or stop the tuner.
LEMMA Quiet ==
  ASSUME LaunchInv, [Next]_vars,
         ~(TuneStart \/ TryCandidate \/ Warmup \/ TuningBegin \/ Trial \/ Record)
  PROVE  \/ UNCHANGED tuner
         \/ pc' = "idle" /\ block_size' = 0 /\ measured' = NoMedians
  BY DEF Next, vars, SetLaunchConfig, ApplyLaunchProfile, Operation, TuneRefused,
     TuningBeginFails, TrialFails, TuneFails, Publish, Return

\* The candidate under test, and the runs and the batch of its measurement.
LEMMA SizeStep ==
  ASSUME LaunchInv, [Next]_vars
  PROVE  SizeInv' /\ RunInv'
<1>0. SizeInv /\ RunInv /\ run \in 0 .. Warmups + Samples
  BY DEF LaunchInv, TypeOK
<1>1. CASE TuneStart
  BY <1>0, <1>1 DEF TuneStart, SizeInv, RunInv
<1>2. CASE TryCandidate
  <2>1. NextSize \in Sizes /\ NextSize <= DeviceMax
    BY <1>2, NextSizeIs DEF TryCandidate
  <2>2. 0 < Warmups
    BY CountsAssumption
  <2> QED BY <1>2, <2>1, <2>2 DEF TryCandidate, SizeInv, RunInv
<1>3. CASE Warmup
  <2>1. run \in Nat /\ run < Warmups /\ Warmups \in Nat
    BY <1>0, <1>3, CountsAssumption DEF Warmup, RunInv
  <2>2. run + 1 = Warmups \/ run + 1 < Warmups
    BY <2>1
  <2>3. run' = run + 1 /\ pc' \in {"begin", "warmup"} /\ (pc' = "warmup" => run + 1 # Warmups)
    BY <1>3 DEF Warmup
  <2>4. RunInv'
    BY <2>2, <2>3 DEF RunInv
  <2>5. SizeInv'
    BY <1>0, <1>3, <2>3 DEF Warmup, SizeInv
  <2> QED BY <2>4, <2>5
<1>4. CASE TuningBegin
  BY <1>0, <1>4 DEF TuningBegin, SizeInv, RunInv
<1>5. CASE Trial
  BY <1>0, <1>5 DEF Trial, SizeInv, RunInv
<1>6. CASE Record
  <2>1. \/ pc' = "next" /\ UNCHANGED block_size
        \/ pc' = "idle" /\ block_size' = 0 /\ measured' = NoMedians
    BY <1>6 DEF Record, Return
  <2>2. 0 <= DeviceMax
    BY SizesAre
  <2> QED BY <1>0, <2>1, <2>2 DEF SizeInv, RunInv
<1>7. CASE ~(TuneStart \/ TryCandidate \/ Warmup \/ TuningBegin \/ Trial \/ Record)
  <2>1. 0 <= DeviceMax
    BY SizesAre
  <2>2. CASE UNCHANGED tuner
    BY <1>0, <2>2 DEF tuner, SizeInv, RunInv
  <2>3. CASE pc' = "idle" /\ block_size' = 0 /\ measured' = NoMedians
    BY <2>1, <2>3 DEF SizeInv, RunInv
  <2> QED BY <1>7, <2>2, <2>3, Quiet
<1> QED
  BY <1>1, <1>2, <1>3, <1>4, <1>5, <1>6, <1>7

\* After a step, block_size and the sizes are those of the tuner.
LEMMA TunedStep ==
  ASSUME LaunchInv, [Next]_vars
  PROVE  TunedInv'
<1>0. TunedInv
  BY DEF LaunchInv
<1>1. CASE TuneStart
  <2>1. block_size' = 0
    BY <1>1 DEF TuneStart, LaunchInv, SizeInv
  <2> QED BY <2>1, NothingFits DEF TunedInv, Fitting, Fits
<1>2. CASE TryCandidate
  <2>1. Later # {} /\ pc = "next" /\ block_size' = NextSize
        /\ blocks' = [k \in Kernels |-> IF Fits(k, NextSize) THEN NextSize ELSE blocks[k]]
    BY <1>2 DEF TryCandidate
  <2>2. /\ NextSize \in Sizes /\ NextSize \in Nat /\ block_size \in Nat
        /\ block_size < NextSize /\ \A s \in Sizes : s < NextSize => s <= block_size
    BY <2>1, NextSizeIs
  <2>3. ASSUME NEW k \in Kernels, NEW s \in Sizes, s <= NextSize, Fits(k, s)
        PROVE  blocks'[k] \in Fitting(k, NextSize) /\ s <= blocks'[k]
    <3>1. CASE Fits(k, NextSize)
      BY <2>1, <2>2, <2>3, <3>1 DEF Fitting
    <3>2. CASE ~Fits(k, NextSize)
      <4>1. s \in Nat
        BY SizesAre
      <4>2. s # NextSize
        BY <2>3, <3>2
      <4>3. s <= block_size
        BY <4>1, <4>2, <2>2, <2>3
      <4>4. blocks[k] \in Fitting(k, block_size) /\ s <= blocks[k]
        BY <1>0, <2>1, <2>3, <4>3 DEF TunedInv, Fitting
      <4>5. blocks[k] \in Nat
        BY <4>4, SizesAre DEF Fitting
      <4>6. blocks'[k] = blocks[k]
        BY <2>1, <3>2
      <4> QED BY <4>4, <4>5, <4>6, <2>2 DEF Fitting
    <3> QED BY <3>1, <3>2
  <2> QED BY <2>1, <2>3 DEF TunedInv, Fitting, Fits
<1>3. CASE ~(TuneStart \/ TryCandidate)
  <2>1. pc' # "idle" => pc # "idle" /\ UNCHANGED <<blocks, block_size>>
    BY <1>3 DEF Next, vars, launch, tuner, SetLaunchConfig, ApplyLaunchProfile, Operation,
       TuneRefused, Warmup, TuningBegin, TuningBeginFails, Trial, TrialFails, TuneFails, Record,
       Publish, Return
  <2> QED BY <1>0, <2>1 DEF TunedInv, Fitting, Fits
<1> QED
  BY <1>1, <1>2, <1>3

\* Measurements are made in the order of the candidates.
LEMMA MeasuredStep ==
  ASSUME LaunchInv, [Next]_vars
  PROVE  MeasuredInv'
<1>0. MeasuredInv /\ measured \in [Kernels -> Medians]
  BY DEF LaunchInv, TypeOK
<1>1. CASE TuneStart
  <2>1. block_size' = 0 /\ measured' = NoMedians
    BY <1>1 DEF TuneStart, LaunchInv, SizeInv
  <2> QED BY <2>1, NothingFits, NoMediansAre DEF MeasuredInv, Fitting, Fits
<1>2. CASE TryCandidate
  <2>1. /\ Later # {} /\ pc = "next" /\ block_size' = NextSize /\ measured' = measured
        /\ pc' = IF \E k \in Kernels : Fits(k, NextSize) THEN "warmup" ELSE "next"
    BY <1>2 DEF TryCandidate
  <2>2. /\ NextSize \in Nat /\ block_size \in Nat
        /\ block_size < NextSize /\ \A s \in Sizes : s < NextSize => s <= block_size
    BY <2>1, NextSizeIs
  <2>3. ASSUME NEW k \in Kernels
        PROVE  /\ DOMAIN measured[k] = {s \in Fitting(k, NextSize) :
                                           s < NextSize \/ pc' = "next"}
               /\ \A s \in DOMAIN measured[k] : measured[k][s] > 0
    <3>1. /\ DOMAIN measured[k] = {s \in Sizes : s <= block_size /\ Fits(k, s)}
          /\ \A s \in DOMAIN measured[k] : measured[k][s] > 0
      BY <1>0, <2>1 DEF MeasuredInv, Fitting
    <3>2. \A s \in Sizes : s \in Nat
      BY SizesAre
    <3>3. \A s \in Sizes : s <= block_size <=> s < NextSize
      BY <2>2, <3>2
    <3>4. pc' = "next" => ~Fits(k, NextSize)
      BY <2>1
    <3>5. \A s \in Sizes : s <= NextSize /\ Fits(k, s) /\ pc' = "next" => s < NextSize
      BY <2>2, <3>2, <3>4
    <3>6. \A s \in Sizes : s < NextSize => s <= NextSize
      BY <2>2, <3>2
    <3> QED BY <3>1, <3>3, <3>5, <3>6 DEF Fitting
  <2> QED BY <2>1, <2>3 DEF MeasuredInv, Fitting, Fits
<1>3. CASE Record
  <2>1. PICK t \in [Kernels -> Times] :
           IF \A k \in Kernels : Fits(k, block_size) => t[k] > 0
             THEN measured' = Recorded(t) /\ pc' = "next" /\ UNCHANGED block_size
             ELSE Return(-1)
    BY <1>3 DEF Record, Recorded
  <2>2. CASE ~(\A k \in Kernels : Fits(k, block_size) => t[k] > 0)
    <3>1. pc' = "idle"
      BY <2>1, <2>2 DEF Return
    <3> QED BY <3>1 DEF MeasuredInv
  <2>3. CASE \A k \in Kernels : Fits(k, block_size) => t[k] > 0
    <3>1. measured' = Recorded(t) /\ pc' = "next" /\ block_size' = block_size
      BY <2>1, <2>3
    <3>2. block_size \in Sizes /\ pc = "begin"
      BY <1>3 DEF Record, LaunchInv, SizeInv
    <3>3. ASSUME NEW k \in Kernels
          PROVE  /\ DOMAIN Recorded(t)[k] = {s \in Sizes : s <= block_size /\ Fits(k, s)}
                 /\ \A s \in DOMAIN Recorded(t)[k] : Recorded(t)[k][s] > 0
      <4>1. /\ DOMAIN measured[k] = {s \in Sizes : s <= block_size /\ Fits(k, s)
                                                 /\ s < block_size}
            /\ \A s \in DOMAIN measured[k] : measured[k][s] > 0
        BY <1>0, <3>2 DEF MeasuredInv, Fitting
      <4>2. /\ Fits(k, block_size) =>
                 DOMAIN Recorded(t)[k] = DOMAIN measured[k] \cup {block_size}
            /\ Fits(k, block_size) => Recorded(t)[k][block_size] = t[k]
            /\ ~Fits(k, block_size) => Recorded(t)[k] = measured[k]
            /\ \A s \in DOMAIN measured[k] :
                 s # block_size => Recorded(t)[k][s] = measured[k][s]
        BY <1>0, <3>2, RecordedIs
      <4>3. \A s \in Sizes : s \in Nat
        BY SizesAre
      <4>4. \A s \in Sizes : s <= block_size <=> s < block_size \/ s = block_size
        BY <3>2, <4>3
      <4>5. CASE Fits(k, block_size)
        <5>1. DOMAIN Recorded(t)[k] = {s \in Sizes : s <= block_size /\ Fits(k, s)}
          BY <3>2, <4>1, <4>2, <4>4, <4>5
        <5>2. ASSUME NEW s \in DOMAIN Recorded(t)[k]
              PROVE  Recorded(t)[k][s] > 0
          BY <2>3, <4>1, <4>2, <4>5
        <5> QED BY <5>1, <5>2
      <4>6. CASE ~Fits(k, block_size)
        <5>1. \A s \in Sizes : s <= block_size /\ Fits(k, s) => s < block_size
          BY <4>4, <4>6
        <5> QED BY <4>1, <4>2, <4>6, <5>1
      <4> QED BY <4>5, <4>6
    <3> QED BY <3>1, <3>3 DEF MeasuredInv, Fitting, Fits
  <2> QED BY <2>2, <2>3
<1>4. CASE ~(TuneStart \/ TryCandidate \/ Record)
  <2>1. pc' # "idle" => /\ pc # "idle" /\ UNCHANGED <<measured, block_size>>
                        /\ pc' = "next" <=> pc = "next"
    BY <1>4 DEF Next, vars, tuner, SetLaunchConfig, ApplyLaunchProfile, Operation,
       TuneRefused, Warmup, TuningBegin, TuningBeginFails, Trial, TrialFails, TuneFails,
       Publish, Return
  <2> QED BY <1>0, <2>1 DEF MeasuredInv, Fitting, Fits
<1> QED
  BY <1>1, <1>2, <1>3, <1>4

\* While it runs, the tuner remembers its batch.
LEMMA BatchStep ==
  ASSUME LaunchInv, [Next]_vars
  PROVE  BatchInv'
<1>0. BatchInv
  BY DEF LaunchInv
<1>1. CASE TuneStart
  BY <1>1, AnswerParts DEF TuneStart, BatchInv, Batches
<1>2. CASE ~TuneStart
  <2>1. pc' # "idle" => pc # "idle" /\ UNCHANGED reply
    BY <1>2 DEF Next, vars, tuner, SetLaunchConfig, ApplyLaunchProfile, Operation, TuneRefused,
       TryCandidate, Warmup, TuningBegin, TuningBeginFails, Trial, TrialFails, TuneFails, Record,
       Publish, Return
  <2> QED BY <1>0, <2>1 DEF BatchInv, Batches
<1> QED
  BY <1>1, <1>2

\* An operation that answers 0 without an override reached its whole batch.
LEMMA WholeStep ==
  ASSUME LaunchInv, [Next]_vars
  PROVE  WholeBatch'
<1>0. WholeBatch
  BY DEF LaunchInv
<1>1. CASE Operation
  <2>1. PICK n \in Batches, r \in {0, -1} : reply' = Answer("operation", r, n, Pipeline(n))
    BY <1>1 DEF Operation
  <2>2. reply'.done = Pipeline(n) /\ reply'.batch = n /\ override' = override
    BY <1>1, <2>1, AnswerParts DEF Operation, launch
  <2>3. override = NoOverride => Pipeline(n) = 0 .. n - 1
    BY PipelineWhole
  <2> QED BY <2>2, <2>3 DEF WholeBatch, WholeBatchAlways, NoOverride
<1>2. CASE SetLaunchConfig \/ ApplyLaunchProfile \/ TuneStart \/ TuneRefused
  <2>1. reply'.call # "operation"
    BY <1>2, AnswerParts DEF SetLaunchConfig, ApplyLaunchProfile, TuneStart, TuneRefused
  <2> QED BY <2>1 DEF WholeBatch, WholeBatchAlways
<1>3. CASE ~(Operation \/ SetLaunchConfig \/ ApplyLaunchProfile \/ TuneStart \/ TuneRefused)
  <2>1. UNCHANGED override /\ (reply'.call # "operation" \/ UNCHANGED reply)
    BY <1>3, AnswerParts DEF Next, vars, launch, TryCandidate, Warmup, TuningBegin,
       TuningBeginFails, Trial, TrialFails, TuneFails, Record, Publish, Return
  <2> QED BY <1>0, <2>1 DEF WholeBatch, WholeBatchAlways, NoOverride
<1> QED
  BY <1>1, <1>2, <1>3

\* What is published is a complete tuning.
LEMMA PublishedStep ==
  ASSUME LaunchInv, [Next]_vars
  PROVE  PublishedTuning'
<1>0. PublishedTuning
  BY DEF LaunchInv
<1>1. CASE TuneStart
  BY <1>1 DEF TuneStart, Forget, PublishedTuning, NoMedians
<1>2. CASE Publish
  <2>1. /\ pc = "next" /\ Later = {} /\ last' = measured
        /\ last_batch' = reply.batch /\ available'
    BY <1>2 DEF Publish
  <2>2. reply.batch \in Batches
    BY <2>1 DEF LaunchInv, BatchInv
  <2>3. ASSUME NEW k \in Kernels
        PROVE  /\ DOMAIN measured[k] = {s \in Sizes : s <= DeviceMax /\ Fits(k, s)}
               /\ \A s \in DOMAIN measured[k] : measured[k][s] > 0
    BY <2>1, BestTuned DEF LaunchInv, MeasuredInv
  <2> QED BY <2>1, <2>2, <2>3 DEF PublishedTuning, Batches, Fits
<1>3. CASE ~(TuneStart \/ Publish)
  <2>1. UNCHANGED published
    BY <1>3 DEF Next, vars, SetLaunchConfig, ApplyLaunchProfile, Operation, TuneRefused,
       TryCandidate, Warmup, TuningBegin, TuningBeginFails, Trial, TrialFails, TuneFails, Record
  <2> QED BY <1>0, <2>1 DEF PublishedTuning, published, Fits, Batches, NoMedians
<1> QED
  BY <1>1, <1>2, <1>3

-----------------------------------------------------------------------------
(***************************************************************************)
(* Theorems.                                                               *)
(***************************************************************************)
\* The inductive invariant of the launch sizes, the tuner and the profile
\* calls, for every number of kernels and every device.
THEOREM LaunchInvariant == Spec => []LaunchInv
<1>1. LaunchInv /\ [Next]_vars => LaunchInv'
  <2> SUFFICES ASSUME LaunchInv, [Next]_vars PROVE LaunchInv'
    OBVIOUS
  <2>1. TypeOK' /\ OverrideInv' /\ BlocksInv'
    BY TypeStep, OverrideStep, BlocksStep
  <2>2. WindowInv' /\ SizeInv' /\ RunInv' /\ TunedInv'
    BY WindowStep, SizeStep, TunedStep
  <2>3. MeasuredInv' /\ BatchInv' /\ WholeBatch' /\ PublishedTuning'
    BY MeasuredStep, BatchStep, WholeStep, PublishedStep
  <2> QED BY <2>1, <2>2, <2>3 DEF LaunchInv
<1> QED
  BY <1>1, InitLaunchInv, PTL DEF Spec

\* Every variable keeps its type.
THEOREM LaunchTypeCorrect == Spec => []TypeOK
<1>1. LaunchInv => TypeOK
  BY DEF LaunchInv
<1> QED
  BY <1>1, LaunchInvariant, PTL

\* The device accepts every launch of a program that does not override all
\* kernels (selected_block_size never exceeds a kernel's maxThreadsPerBlock).
THEOREM LaunchesLegalCorrect == Spec => []LaunchesLegal
<1>1. LaunchInv => LaunchesLegal
  BY LegalFromInv
<1> QED
  BY <1>1, LaunchInvariant, PTL

\* A batch operation that answers 0 processed every item, for every batch size
\* and every tuned, saved or built-in block size.
THEOREM WholeBatchCorrect == Spec => []WholeBatch
<1>1. LaunchInv => WholeBatch
  BY DEF LaunchInv
<1> QED
  BY <1>1, LaunchInvariant, PTL

\* The tuner times each kernel with the candidate, or the largest candidate the
\* kernel supports.
THEOREM MeasuresCandidateCorrect == Spec => []MeasuresCandidate
<1>1. LaunchInv => MeasuresCandidate
  BY MeasuresFromInv
<1> QED
  BY <1>1, LaunchInvariant, PTL

\* No failure of the tuner leaves the timing window open.
THEOREM WindowClosedCorrect == Spec => []WindowClosed
<1>1. LaunchInv => WindowClosed
  BY DEF LaunchInv, WindowInv, WindowClosed
<1> QED
  BY <1>1, LaunchInvariant, PTL

\* Results that can be read are those of a complete tuning.
THEOREM PublishedTuningCorrect == Spec => []PublishedTuning
<1>1. LaunchInv => PublishedTuning
  BY DEF LaunchInv
<1> QED
  BY <1>1, LaunchInvariant, PTL
=============================================================================
