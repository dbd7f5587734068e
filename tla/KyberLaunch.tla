---------------------------- MODULE KyberLaunch ----------------------------
(***************************************************************************)
(* How a Kyber1024 kernel gets its launch size, and the tuner that chooses *)
(* it.  Every kernel of the CPA pipeline handles one item per thread.  The *)
(* block size of a launch comes from, in this order: an override for all   *)
(* kernels, the candidate being timed, the tuned size of the kernel, a     *)
(* built-in default.  The state is global and is shared by the batch       *)
(* operations, the tuner and the saved profiles, called one at a time.     *)
(*                                                                         *)
(* Abstracted: device buffers and polynomials (an operation is the set of  *)
(* items every kernel of its pipeline processed); the single samples of a  *)
(* candidate (its median is any value of Times).                           *)
(***************************************************************************)
EXTENDS Integers, FiniteSets

CONSTANTS
  KernelCount,  \* INDCPA_KERNEL_COUNT
  Sizes,        \* KYBER_TUNING_BLOCK_SIZES, tried in ascending order
  BlockLimit,   \* 1024, the largest block any call accepts
  GridLimit,    \* bound on the grids given to set_launch_config
  DeviceMax,    \* maxThreadsPerBlock of the device
  Maximum,      \* maxThreadsPerBlock of each kernel
  Default,      \* built-in block size of each kernel
  MaxBatch,     \* N_TESTS
  Times,        \* medians a measurement may give
  Warmups,      \* PQCUDA_BENCHMARK_WARMUP_RUNS
  Samples       \* PQCUDA_BENCHMARK_SAMPLE_RUNS

Kernels == 0 .. KernelCount - 1
Blocks == 1 .. BlockLimit
Batches == 1 .. MaxBatch

ASSUME CountsAssumption ==
  /\ KernelCount \in Nat \ {0} /\ BlockLimit \in Nat \ {0}
  /\ GridLimit \in Nat \ {0} /\ MaxBatch \in Nat \ {0}
  /\ Warmups \in Nat \ {0} /\ Samples \in Nat \ {0}
ASSUME SizesAssumption == Sizes \subseteq Blocks
ASSUME DeviceAssumption ==
  /\ DeviceMax \in Blocks
  /\ Maximum \in [Kernels -> Blocks]
  /\ Default \in [Kernels -> Blocks]
  /\ \A k \in Kernels : Default[k] <= Maximum[k]
\* Every device and kernel supports the smallest candidate, 16 threads, so no
\* kernel is left without a measurement.
ASSUME SmallestAssumption ==
  \E s \in Sizes : s <= DeviceMax /\ \A k \in Kernels : s <= Maximum[k]
ASSUME TimesAssumption == Times \subseteq Nat

VARIABLES
  override,    \* launch_grid_override, launch_block_override; 0 means none
  blocks,      \* tuned_block_sizes; 0 means none
  enabled,     \* tuning_enabled
  candidate,   \* tuning_candidate_block_size
  eligible,    \* tuning_kernel_eligible, as a set
  events,      \* whether the two timing events exist
  available,   \* tuning_results_available
  last,        \* last_tuning_measurements: per kernel, size |-> median
  last_batch,  \* last_tuned_batch
  pc,          \* control point of the tuner, "idle" outside of it
  block_size,  \* the candidate under measurement; 0 before the first
  run,         \* warm-up runs, then trials, of this candidate
  measured,    \* the tuner's local measurements
  reply        \* what the last public call answered

launch == <<override, blocks>>
window == <<enabled, candidate, eligible, events>>
published == <<available, last, last_batch>>
tuner == <<pc, block_size, run, measured>>
vars == <<launch, window, published, tuner, reply>>

NoOverride == [grid |-> 0, block |-> 0]
\* Measurements of one kernel: a function on the sizes that were timed.
Medians == UNION {[S -> Times] : S \in SUBSET Sizes}
NoMedians == [k \in Kernels |-> [s \in {} |-> 0]]

\* The answer of a call on n items; done are the items that were processed.
Answer(call, ret, n, done) ==
  [call |-> call, ret |-> ret, batch |-> n, done |-> done]

TypeOK ==
  /\ override \in [grid : 0 .. GridLimit, block : 0 .. BlockLimit]
  /\ blocks \in [Kernels -> 0 .. BlockLimit]
  /\ enabled \in BOOLEAN
  /\ candidate \in 0 .. BlockLimit
  /\ eligible \subseteq Kernels
  /\ events \in BOOLEAN
  /\ available \in BOOLEAN
  /\ last \in [Kernels -> Medians]
  /\ last_batch \in 0 .. MaxBatch
  /\ pc \in {"idle", "next", "warmup", "begin", "window"}
  /\ block_size \in Sizes \cup {0}
  /\ run \in 0 .. Warmups + Samples
  /\ measured \in [Kernels -> Medians]
  /\ reply \in [call : {"none", "config", "profile", "operation", "tune"},
                ret : {0, -1}, batch : 0 .. MaxBatch,
                done : SUBSET (0 .. MaxBatch - 1)]

Init ==
  /\ override = NoOverride
  /\ blocks = [k \in Kernels |-> 0]
  /\ enabled = FALSE /\ candidate = 0 /\ eligible = {} /\ events = FALSE
  /\ available = FALSE /\ last = NoMedians /\ last_batch = 0
  /\ pc = "idle" /\ block_size = 0 /\ run = 0 /\ measured = NoMedians
  /\ reply = Answer("none", 0, 0, {})

-----------------------------------------------------------------------------
(***************************************************************************)
(* A kernel launch.                                                        *)
(***************************************************************************)
SelectedBlock(k) ==
  IF override.block > 0 THEN override.block
  ELSE IF enabled /\ k \in eligible THEN candidate
  ELSE IF blocks[k] > 0 THEN blocks[k]
  ELSE Default[k]

\* Mutation of Grid: rounded down.
GridDown(k, n) ==
  IF override.grid > 0 THEN override.grid ELSE n \div SelectedBlock(k)

Grid(k, n) ==
  IF override.grid > 0
    THEN override.grid
    ELSE (n + SelectedBlock(k) - 1) \div SelectedBlock(k)

\* The items one launch processes.  A block larger than the kernel supports
\* makes the launch fail; nobody reads that error, and the stream goes on.
Processed(k, n) ==
  IF SelectedBlock(k) > Maximum[k]
    THEN {}
    ELSE {i \in 0 .. n - 1 : i < Grid(k, n) * SelectedBlock(k)}

Pipeline(n) == {i \in 0 .. n - 1 : \A k \in Kernels : i \in Processed(k, n)}

-----------------------------------------------------------------------------
(***************************************************************************)
(* Public calls other than the tuner.                                      *)
(***************************************************************************)
\* Overrides every kernel; only the tuner and a profile remove the override.
SetLaunchConfig ==
  /\ pc = "idle"
  /\ \E g \in 1 .. GridLimit, b \in Blocks :
       override' = [grid |-> g, block |-> b]
  /\ reply' = Answer("config", 0, 0, {})
  /\ UNCHANGED <<blocks, window, published, tuner>>

\* Mutations of ProfileFits: sizes are compared with the general limit only;
\* not at all.
ProfileFitsLimit(p) == \A k \in Kernels : p[k] \in Blocks
ProfileFitsNonzero(p) == \A k \in Kernels : p[k] # 0

ProfileFits(p) == \A k \in Kernels : p[k] # 0 /\ p[k] <= Maximum[k]

ApplyLaunchProfile ==
  /\ pc = "idle"
  /\ \E p \in [Kernels -> 0 .. BlockLimit + 1] :
       IF ProfileFits(p)
         THEN /\ override' = NoOverride
              /\ blocks' = p
              /\ reply' = Answer("profile", 0, 0, {})
         ELSE /\ UNCHANGED launch
              /\ reply' = Answer("profile", -1, 0, {})
  /\ UNCHANGED <<window, published, tuner>>

\* keypair, encapsulate or decapsulate: random numbers, buffers and the final
\* synchronization may fail.
Operation ==
  /\ pc = "idle"
  /\ \E n \in Batches, ret \in {0, -1} :
       reply' = Answer("operation", ret, n, Pipeline(n))
  /\ UNCHANGED <<launch, window, published, tuner>>

-----------------------------------------------------------------------------
(***************************************************************************)
(* The tuner.                                                              *)
(***************************************************************************)
Return(ret) ==
  /\ pc' = "idle" /\ block_size' = 0 /\ run' = 0 /\ measured' = NoMedians
  /\ reply' = Answer("tune", ret, reply.batch, {})

\* Mutation of Forget: the results of the tuning before stay available.
ForgetLists ==
  available' = available /\ last' = NoMedians /\ last_batch' = 0
Forget ==
  available' = FALSE /\ last' = NoMedians /\ last_batch' = 0

\* Mutation of DropOverride: the override stays.
KeepOverride == UNCHANGED override
DropOverride == override' = NoOverride

\* Device and workspace are there: drop the last results and the override.
\* While the tuner runs, reply holds its batch.
TuneStart ==
  /\ pc = "idle"
  /\ \E n \in Batches : reply' = Answer("tune", -1, n, {})
  /\ Forget
  /\ DropOverride
  /\ pc' = "next"
  /\ UNCHANGED <<blocks, window, block_size, run, measured>>

\* No device, or the workspace cannot be allocated or filled.
TuneRefused ==
  /\ pc = "idle"
  /\ \E n \in Batches : reply' = Answer("tune", -1, n, {})
  /\ UNCHANGED <<launch, window, published, tuner>>

Later == {s \in Sizes : s > block_size /\ s <= DeviceMax}
NextSize == CHOOSE s \in Later : \A t \in Later : s <= t

\* The kernel supports blocks of s threads.
Fits(k, s) == s <= Maximum[k]

\* The next candidate: every kernel that supports it is set to it; it is
\* skipped when none does.
TryCandidate ==
  /\ pc = "next" /\ Later # {}
  /\ block_size' = NextSize
  /\ blocks' = [k \in Kernels |-> IF Fits(k, NextSize) THEN NextSize ELSE blocks[k]]
  /\ pc' = IF \E k \in Kernels : Fits(k, NextSize) THEN "warmup" ELSE "next"
  /\ run' = 0
  /\ UNCHANGED <<override, window, published, measured, reply>>

\* A warm-up run that works.
Warmup ==
  /\ pc = "warmup"
  /\ run' = run + 1
  /\ pc' = IF run + 1 = Warmups THEN "begin" ELSE "warmup"
  /\ UNCHANGED <<launch, window, published, block_size, measured, reply>>

\* indcpa_tuning_begin
TuningBegin ==
  /\ pc = "begin" /\ run < Warmups + Samples
  /\ ~enabled
  /\ enabled' = TRUE
  /\ candidate' = block_size
  /\ eligible' = {k \in Kernels : Fits(k, block_size)}
  /\ events' = TRUE
  /\ pc' = "window"
  /\ UNCHANGED <<launch, published, block_size, run, measured, reply>>

\* A kernel cannot be queried, or an event cannot be created: the support of
\* the first j kernels was noted already.
TuningBeginFails ==
  /\ pc = "begin" /\ run < Warmups + Samples
  /\ \E j \in 0 .. KernelCount :
       eligible' = {k \in Kernels :
                      IF k < j THEN Fits(k, block_size) ELSE k \in eligible}
  /\ UNCHANGED <<enabled, candidate, events>>
  /\ Return(-1)
  /\ UNCHANGED <<launch, published>>

\* indcpa_tuning_end
TuningEnd ==
  enabled' = FALSE /\ candidate' = 0 /\ events' = FALSE /\ UNCHANGED eligible

\* The timed run works and its result is verified.
Trial ==
  /\ pc = "window"
  /\ TuningEnd
  /\ run' = run + 1
  /\ pc' = "begin"
  /\ UNCHANGED <<launch, published, block_size, measured, reply>>

\* Mutation of CloseWindow: the window stays open when the run failed.
CloseWindowNot == UNCHANGED window
CloseWindow == TuningEnd

\* The timed run, a sample or the verification is bad.
TrialFails ==
  /\ pc = "window"
  /\ CloseWindow
  /\ Return(-1)
  /\ UNCHANGED <<launch, published>>

\* A kernel cannot be queried, a warm-up run fails or gives a wrong result.
TuneFails ==
  /\ pc = "warmup" \/ (pc = "next" /\ Later # {})
  /\ Return(-1)
  /\ UNCHANGED <<launch, window, published>>

\* All trials are done: keep the medians, which must be positive.
Record ==
  /\ pc = "begin" /\ run = Warmups + Samples
  /\ \E t \in [Kernels -> Times] :
       IF \A k \in Kernels : Fits(k, block_size) => t[k] > 0
         THEN /\ measured' = [k \in Kernels |->
                   IF Fits(k, block_size)
                     THEN [s \in DOMAIN measured[k] \cup {block_size} |->
                             IF s = block_size THEN t[k] ELSE measured[k][s]]
                     ELSE measured[k]]
              /\ pc' = "next"
              /\ UNCHANGED <<block_size, run, reply>>
         ELSE Return(-1)
  /\ UNCHANGED <<launch, window, published>>

\* The smallest of the fastest measured sizes: sort, then min_element.
Best(m) ==
  CHOOSE s \in DOMAIN m :
    /\ \A t \in DOMAIN m : m[s] <= m[t]
    /\ \A t \in DOMAIN m : m[t] = m[s] => s <= t

\* Every kernel is set to its best size and the results are published.
Publish ==
  /\ pc = "next" /\ Later = {}
  /\ blocks' = [k \in Kernels |-> Best(measured[k])]
  /\ last' = measured
  /\ last_batch' = reply.batch
  /\ available' = TRUE
  /\ Return(0)
  /\ UNCHANGED <<override, window>>

Next ==
  \/ SetLaunchConfig \/ ApplyLaunchProfile \/ Operation
  \/ TuneStart \/ TuneRefused \/ TryCandidate \/ Warmup
  \/ TuningBegin \/ TuningBeginFails \/ Trial \/ TrialFails \/ TuneFails \/ Record \/ Publish

Spec == Init /\ [][Next]_vars

-----------------------------------------------------------------------------
(***************************************************************************)
(* Properties.                                                             *)
(***************************************************************************)
\* Unless the caller overrode all kernels, every launch is one the device
\* accepts: a launch it refuses would go unnoticed, because the error of a
\* launch is never read.
LaunchesLegal ==
  override.block = 0 =>
    \A k \in Kernels : SelectedBlock(k) \in 1 .. Maximum[k]

\* An operation that answers 0 processed every item of its batch.
WholeBatchAlways ==
  reply.call = "operation" /\ reply.ret = 0 => reply.done = 0 .. reply.batch - 1

\* The same, when the grid follows the batch size.
WholeBatch == override = NoOverride => WholeBatchAlways

\* While a candidate is timed, every kernel that supports it runs with it, and
\* every other kernel with the largest candidate it supports.
MeasuresCandidate ==
  pc = "window" =>
    \A k \in Kernels :
      LET fitting == {s \in Sizes : s <= block_size /\ Fits(k, s)}
      IN  fitting # {} =>
            /\ SelectedBlock(k) \in fitting
            /\ \A s \in fitting : s <= SelectedBlock(k)

\* However the tuner ends, no kernel is timed afterwards: the next operation
\* does not touch the events and runs with the tuned sizes.
WindowClosed == pc # "window" => ~enabled /\ candidate = 0 /\ ~events

\* Published results are those of one complete tuning: a tuning that failed on
\* its way leaves none, whatever an earlier one had published.
PublishedTuning ==
  IF available
    THEN /\ last_batch \in Batches
         /\ \A k \in Kernels :
              /\ DOMAIN last[k] = {s \in Sizes : s <= DeviceMax /\ Fits(k, s)}
              /\ \A s \in DOMAIN last[k] : last[k][s] > 0
    ELSE last = NoMedians /\ last_batch = 0
=============================================================================
