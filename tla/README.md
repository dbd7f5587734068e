# PQCUDA: specifications, model checking and proofs

PQCUDA runs batches of post-quantum operations on a CUDA GPU: Dilithium key
generation, signing and verification in three modes (`ML-DSA/cuDilithium`), the
Kyber1024 KEM (`ML-KEM/Kyber1024/Kyber_GPU_Batched`), and around both a library
with a C API, launch-size tuners, stored benchmark profiles and a menu program
(`PQHybrid`). This directory holds TLA+ modules of the parts whose correctness
depends on order, on shared state or on numeric limits, the TLC configurations
that check them, and proofs for TLAPS. `PROJECT.json` ties every definition to
the lines it models, every property to the hazard it is about and to a mutation
of the code that it catches.

## 1. The system

| Component | State | Operations | Hard part |
|---|---|---|---|
| Batch signing (`api.cu` `crypto_sign_signature`, `sign.cu`, `dilithium_wrapper.cu`) | per item done flag and nonce (`sign_lut`), pinned host buffers, exec/done/copy tables on the device, sign and temporary pool, the CUDA stream | fill slots, launch a round on the direct or the predict path, collect verdicts, copy accepted signatures, return | host and GPU run at once; transfers read pinned buffers when they run; blocks end in any order; speculation on nonces; errors found late |
| Signing variants and their tuner (`api.cu`, `dilithium_wrapper.cu`) | selected variant per stage, stage under measurement, two events, elapsed time | begin, end, launch, tune, apply a profile | a tuner that leaves anywhere; time that sums over the rounds |
| Kyber launch sizes and tuner (`indcpa.cu`, `kyber_wrapper.cu`) | override, tuned sizes, candidate, timing window, last measurements | set override, apply profile, operate, tune | four sources of one launch size in a fixed order; errors of launches are never read |
| Kyber1024 KEM (`kyber_wrapper.cu`, `indcpa.cu`) | device workspace (allocated in each call, not cleared), the caller's keys, ciphertexts and secrets | keypair, encapsulate, decapsulate, for a batch | few buffers shared by many steps, nonce order, reductions only where needed, a decision per item |
| Kyber arithmetic (`reduce.cu`, `poly.cu`, `polyvec.cu`, `ntt.cu`) | none | Montgomery and Barrett reduction, compression, sampling, messages | 16-bit numbers without overflow |
| Benchmark profiles (`benchmark_profile.h`, `main.c`) | one text file per operation | save, load and apply | killed or concurrent programs, full disk |
| Benchmark search (`benchmark_workloads.h`, `benchmark_policy.h`, `main.c`) | candidates and their measurements | candidate batches, choice of the recommended batch | array of 64 candidates for every GPU, ties and near ties |
| Dilithium key generation and verification (`dilithium_wrapper.cu`, `api.cu`, `keypair.cu`, `verify.cu`) | a pool allocated per call, the stream, results per item | `keypair_batch`, `verify_batch` | areas that must be cleared first; results that must stay -1 for what was not reached |
| Device memory of the calls (both wrappers, `api.cu`, `params.h`) | pools, pinned tables, buffers, streams | allocate, lay out, compare pitches, free | two layouts of one pool; clean-up after any failure; a kernel that tells two pools apart by their pitch |
| Dilithium kernels (`sign.cu`, `keypair.cu`, `verify.cu`, `ntt.cuh`, `rounding.cuh`) | shared memory, registers, flags of a block | transforms, rejection and hints, sampling, rounding | warps that overtake each other between barriers; borders of intervals |
| Hash functions (`fips202_cpu`, `fips202_cuda/thread`, `fips202_cuda/warp`) | 25 lanes and a position | absorb, finalize, squeeze, one-shot functions, warp functions | three implementations that must agree; calls cut anywhere; input and output in one buffer |
| Command line programs (`main.c`) | text files of keys, ciphertexts, secrets, signatures | one task per program | files of programs that failed half way, pairs of files that are not of one run |
| Dispatch, random numbers, reference benchmarks, tests, scripts | none of their own | | |

How they interact. The menu program runs one operation per process: it loads the profile,
hands the tuned sizes or variants to the library (`apply_launch_profile`), and calls a batch
operation. A benchmark program searches batch sizes, runs the tuner of the library for each,
and saves the best as a profile. Programs pass keys and results to each other in text files.
The tuners change the global launch state that all batch operations read; the library has no
locks, so calls are made one at a time. Inside a call one host thread issues work to one
stream and the GPU executes it. Host and GPU share the pinned buffers only, and meet at
`cudaStreamSynchronize`. Most results of CUDA calls on the way are ignored: a failure is
noticed where a wrapper synchronizes last.

What makes each part correct:

- signing: what is returned on success is, per item, the signature of the first
  accepted nonce, as a sequential signer makes it; the loop ends;
- tuners: times belong to the stage and candidate they are stored for, the
  fastest is kept, no failure leaves a timing window or old results behind;
- launch sizes: no kernel is launched with more threads than it supports, and
  every item of a batch is processed;
- KEM: the pipelines compute the formulas of Kyber; each item gets its own
  secret or its own fallback;
- profiles: no program runs with settings that no benchmark recommended (not so in two
  cases, findings 2 and 4);
- search: batches that fit the program's array, and the fastest one near the peak
  with the settings it was measured with;
- key generation and verification: keys are pairs; 0 only if every signature was checked;
- memory: areas do not overlap and fit their row; a call frees what it allocated;
- kernels: no race that changes a result, one decision per attempt, the verifier recovers
  what the signer hashed;
- hashing: every implementation is the function of FIPS 202 in any sequence of calls;
- files: programs that reported success in a row hand over what they made.

## 2. Modules

| Module | Models | Kind |
|---|---|---|
| `BatchSigner` | what a caller of batch signing is promised | abstract specification |
| `SignBatch` | the scheduler of the rejection loop with host, stream and blocks | component |
| `SignBatchInv` | its inductive invariant | |
| `SignBatchProofs` | type correctness, safety and the refinement of `BatchSigner` | proofs |
| `KyberLaunch`, `KyberLaunchProofs` | launch sizes, tuner, operations as sets of items; all its safety | component, proofs |
| `SignTuner` | variants of the signing stages and their tuner | component |
| `ProfileStore`, `ProfileProofs` | profiles on disk, written and read by several programs; what a text gives back | component, proofs |
| `KyberArith` | the arithmetic on one coefficient | operators |
| `KyberHash` | the hash functions of the KEM | operators |
| `KyberReference` | the KEM by its formulas over Z_q | abstract specification |
| `KyberKem` | the batch calls, kernel pipelines and buffers; refines `KyberReference`, extends `KyberArith` and `KyberHash` | component |
| `KyberProofs` | the arithmetic of `KyberArith`, the correctness of decryption, all safety of `KyberKem` and its refinement | proofs |
| `DilithiumCalls` | batch key generation and verification: host, stream, rows, a device that may be lost | component |
| `PoolLayout` | sizes and areas of all pools, the comparison of pitches | component |
| `CallResources` | what the calls of both wrappers allocate and free | component |
| `BenchmarkSearch` | candidate batches, measurements, recommendation | component |
| `KeyFiles` | programs that pass hexadecimal files | component |
| `HostProofs` | safety of the five modules before and of `SignTuner`, extends them | proofs |
| `NttRadix2` | the transforms of 128 threads in shared memory | component |
| `HintEncoding` | the packed hints and their reader | operators |
| `RejectionKernels` | both rejection kernels, extends `HintEncoding` | component |
| `Sampling` | rejection sampling by a warp (Dilithium) and by a thread (Kyber) | component |
| `DilithiumRounding` | one coefficient of a key, and from signer to verifier | component |
| `DilithiumKernelProofs` | the encoding of hints, all safety of `RejectionKernels`, `Sampling` and `DilithiumRounding`, extends the three | proofs |
| `Keccak` | the permutation, three times, next to FIPS 202 | component |
| `XofReference`, `Xof` | the output of SHAKE and SHA3; what a caller is promised | abstract specification |
| `Sponge` | the host and thread functions, refines `Xof` | component |
| `WarpSponge` | the warp functions | component |
| `HashProofs` | that `Sponge` refines `Xof`; the safety of `WarpSponge` and `Keccak`; extends the three | proofs |
| `Induction` | induction over numbers, intervals and finite sets, recursive functions, counting; nothing of PQCUDA | lemmas |
| `MC...` | instances for TLC; `MCHostCalls`, `MCDilithiumKernels` and `MCHashing` run one of several components at a time | |

### SignBatch and the code

The host is one sequential process with control point `pc`. `Start` resets
`sign_lut` and issues the preparing kernels. `TakeItem` and `SkipItem` are the
filling loop (`api.cu:359-374`), `LaunchDirect` issues a round in the memory of
the items, `PredictMore` and `LaunchPredict` fill the remaining slots with
further nonces and issue a round in temporary memory. `CollectDirect`,
`StartScan`, `ScanSlot`, `CollectPredict` and `NothingAccepted` read the done
flags after the synchronization, build the copy list and issue the copies.
`AnotherRound`, `Return` and `DeviceSynchronize` end the loop and the wrapper.

The GPU executes the head of `stream`: transfers are single actions, kernels
(`YBlock`, `WBlock`, `CpBlock`, `RejBlock`, `CopyBlock`) take one action per
block, in any order, collected in `ran`. A transfer reads or writes the pinned
buffer in the step in which it runs. `LoseGpu` is a sticky CUDA error: from then
on transfers and kernels do nothing and every synchronization returns at once.
Only the last synchronization has a result that is read.

Data: polynomials and bytes are replaced by the attempt (item, nonce) they were
computed from. A kernel whose inputs are of different attempts writes `Junk`, so
a mixed signature is visible. Which attempts are accepted (`accepts`) is chosen at
the start, as it is a function of keys, messages and nonces.

### KyberLaunch and the code

`SelectedBlock` is `selected_block_size` (`indcpa.cu:137`), `Grid` the macro
around every launch; `TuningBegin`, `TuningEnd` and the actions of the tuner
follow `benchmark_kyber_launch_config` and
`pqcuda_kyber1024_tune_launch_profile`, with an action for every place at which
they leave. An operation answers with the set of items that every kernel
processed. All kernels take part in every operation, which is more than each
operation of the code has, so that a guarantee for all of them covers each.

### SignTuner and the code

`Launch` is one launch of a signing call in the order of `Order`; the launches
from `FirstLoop` on belong to the rejection loop and repeat with `AnotherRound`.
`StartRun` and `TuningEnd` are `crypto_sign_tuning_begin` and `_end`; `ResetBest`,
`EndVariant` and `EndStage` the selection of the fastest variant. History variables keep
the true time per stage (`spent`) and the medians of the stage (`medians`).

### ProfileStore and the code

stdio writes the text when the file is closed, so `fopen` (`Open`) empties the
file and `fclose` (`Close`) fills it, or a prefix of it (`CloseCut`). `Kill` is the end
of the program between the two, `Overwrite` a close over a text another program has
written since, and a cut close the same with a prefix. `spliced` and `misled` are history:
the file is a prefix followed by the rest of another text, and a program has read such a file.
No guard reads them. `Load` reads the words and makes the checks of
`pqcuda_profile_load`, `Accepted` those of `apply_launch_profile`. Numbers are
sequences of digits, because a cut number is again a number.

### KyberKem and the code

Each item has its column `ws[i]` of the workspace, with the buffers `a` ... `d`, `av` ...
`dv`, `AV` and `seed` under the names of `poly_set4`. `IndcpaKeypair`, `IndcpaEnc` and
`IndcpaDec` are the host functions of these names: each is the composition of its stages
(`KeySample`, `KeyTransform`, `KeyProducts`, `KeySums`, `PackKeys`, and so on), operators
that name the buffers the kernels of the stage write, including the reduction in place that
packing does and the temporary of `polyvec_pointwise_acc_n`. The kernels of one stream run
one after the other and items do not share memory, so one call is one action. `Transit`
changes or exchanges ciphertexts between calls; the failing calls leave old, new or useless
results in the caller's buffers.

Polynomials are restricted to constants. On this subring of the ring the kernels
compute exactly what the module says: the transform of a constant is the same
number in every component, its product with another one is that of the
numbers, and the inverse doubles seven times and multiplies with
`zetas_inv[127]`. Modulus, Montgomery factors, widths and compression are those
of the code. A message is one bit.

### DilithiumCalls, PoolLayout, CallResources and the code

`crypto_sign_keypair` and `crypto_sign_verify` are the sequences of operations that `api.cu`
puts into the stream; `Issues` is one call of the CUDA runtime, which is refused without
anyone noticing if the device is lost or a kernel cannot start. `WorksOn` is the device at work
on one row of the operation at the head. Rows hold the item whose data is in them; fresh
memory holds anything, also the results of an earlier call. `Answers` is the end of the
wrapper. `MayNotStart` names the kernels whose launch may fail: verification survives
it, since its results were set to -1 before; key generation does not read the launch error, so its
guarantee needs a kernel that starts.

`PoolLayout` has two descriptions of every pool: the size a wrapper computes for a row, and
the pointers `api.cu` derives. `temp_idx_offset` is the comparison of two pitches by which
the kernels of signing decide in which pool they work. Pitches are multiples of a granularity
that is at most 16 KB; `size_t` does not overflow.

`CallResources` runs the allocations of each call in their order; each of them and any other
step may fail. `FreesEarly` and `Frees` are the `goto cleanup` of the Dilithium wrapper and the
destructor of the Kyber context.

### BenchmarkSearch, KeyFiles and the code

`pqcuda_workload_candidates` computes the batches in integer arithmetic as the code does;
`Best` and `Peak` are the two passes over the results. Times are whole numbers, not 0 and
without rounding of floating point, and a benchmark that fails ends the program.

`KeyFiles` runs one program at a time. `ReadInput` and `RefuseInput` are `read_hex` with
the number of digits the batch needs, `Compute` the batch call, `WriteOutput` the files
one after the other, `WriteFails` a failure or a kill that leaves a file cut. An item is named
by its key pair and the run that made it. One message is signed; input typed at the terminal and
the `0x` prefix are left out.

### The kernels of Dilithium and the code

`NttRadix2` gives each warp the program of the kernel: loads and stores with the layouts of
shared memory (padded lines), barriers, butterflies. A value is the symbol of its position
and level; a butterfly with the wrong operands or the wrong power of zeta gives `Wrong`. The
threads of a warp execute together (see hazard `ntt.cuh:110`); the warps overtake each other
between barriers, and `NoRace` justifies that a warp runs undisturbed between two of them.

`RejectionKernels` executes `rej_loop_128t` and `rej_loop_32t` as lists of instructions with
the flags in shared memory, early returns and barriers that wait for the warps that have not
returned. Which coefficients fail or need a hint is chosen at the start; `HintBitPack` is
the encoding of FIPS 204.

`Sampling` has the vote that gives each good sample its place. `FirstSamples` and `MoreSamples`
are the calls of `rej_uniform` in Kyber's `gen_matrix_n`.

`DilithiumRounding` follows one coefficient with the numbers of the code in full width. After
an inverse transform it may be any representative between -Q and Q, which is more than
the code produces. The products with `s2` and `t0` are any numbers up to `BETA` and
`TAU * 4096`; that `Az - c t1 2^d` is `w - c s2 + c t0` is a law of the ring and assumed.

### Hashing and the code

`Keccak` runs two rounds (host) or one round (thread, warp) per step, next to the
permutation of FIPS 202 from its formulas; lanes are sets of bits of full width. In `Sponge`
and `WarpSponge` the permutation is free: the state is the sequence of what went into it, so
that output is equal only if every byte was at its place in every block. Each public
function is an action. `WarpSponge` gives each of the 32 threads its own program counter;
they meet in the shuffles and in `__syncwarp` only, and input and output may be the same
buffer.

## 3. Runs

| Run | Checks | Shows |
|---|---|---|
| `sign_mixed` | `TypeOK`, `ReturnedSignatures`, `NoWriteConflict`, `SignedItemsIntact`, `NoNonceSkipped`, `PinnedBuffersStable`, `ImplementsReference` | with any interleaving, acceptance pattern, garbage in pinned memory and loss of the GPU, a successful call has signed as a sequential signer would |
| `sign_live` | `CallReturns` | the loop ends if the GPU survives, even when the nonce wraps |
| `sign_tuner` | `TypeOK`, `WindowClosed`, `ElapsedIsWhole`, `FastestVariant` | times are whole and of one stage; the fastest variant stays; failures close the window |
| `kyber_launch` | `TypeOK`, `LaunchesLegal`, `WholeBatch`, `MeasuresCandidate`, `WindowClosed`, `PublishedTuning` | overrides, profiles, tunings and operations in every order |
| `kyber_override` | `WholeBatchAlways`, violated | finding 1 |
| `kyber_kem` | `TypeOK`, `SecretsMatch`, `ImplementsReference` | the pipelines implement the formulas, the decision on a ciphertext is made per item |
| `kyber_kdf` | `SecretIsFromMessage`, violated | finding 3 |
| `profile_spliced` | `ExecutedWasRecommended`, violated | finding 4 |
| `profile_kyber_cut` | `ExecutedWasRecommended`, violated | finding 2 |
| `host_calls` | `VerifiesItems`, `KeysArePairs` | no batch passes as verified unless each item was checked, and keys are pairs, wherever the device is lost |
| | `CallsCleanUp` | only CPA calls that return early leave memory behind |
| | `PoolsFit`, `PathsToldApart` | the layouts of all pools in all modes; both paths find their rows |
| | `WorkloadsFit`, `RecommendsFastest` | the candidates for 2500 sizes of GPU; the choice among all results of 3 candidates |
| | `FilesCarryItems` | four programs in a row, failing anywhere |
| | `UnsplicedWasRecommended`, `SavedProfileLoads` | Dilithium profiles under kills, short writes and two benchmarks at once: what is not spliced is recommended or refused; what is saved alone loads |
| `dilithium_kernels` | `KernelTransforms`, `KernelRaceFree` | the transforms in real size, with every order of warps |
| | `DecidesAttempt`, `AllOrNone` | accepted exactly if all checks pass, with the hints of FIPS 204; all warps leave together |
| | `SamplesInOrder` | what is sampled is what a sequential sampler finds |
| | `CoefficientsRecovered` | rounding at the borders of the intervals |
| `hashing` | `Permutes`, `WarpHashes`, `ImplementsXof` | three permutations; warps in every interleaving; every sequence of calls |

Bounds, and why they are enough:

- `sign_mixed` has 3 items in 2 slots: the first round fills the slots with two of
  three items (direct path), the last unsigned item is tried at several nonces at
  once (predict path), and the copy list can be empty, partial or name an item
  whose later nonce was also accepted. Three nonces (`NonceCap`) let the counter wrap.
  About 2.2 million states. `IdxCap` is the number of item indices that fit an
  exec entry, here more than the batch.
- `sign_live` has 2 items, the smallest batch in which a direct round is followed by a
  predict round; a lost GPU is excluded (see section 4).
- `kyber_launch` has 2 kernels whose limits (4 and 2) are below the largest
  candidate (8) and different from each other, and batches up to 5, which no block
  size divides; medians 0 to 2 include a tie and the zero the code refuses.
- `sign_tuner` has three stages, one launched twice before the loop and two in
  it; up to 2 rounds, 3 variants, 3 samples (a median differs from minimum,
  maximum and mean).
- the profile runs have one or two writers, two readers, two settings and digits 0
  to 2: one number can be a prefix of another, which is what a cut needs. More than two
  writers at a time are not checked, but proved about. `host_calls` and `profile_spliced` have the
  Dilithium profiles and two writers, `profile_kyber_cut` those of Kyber and one.
- `kyber_kem` has rank 2 (transposition and accumulation differ from a product), a batch of 2 and
  four calls: key generation, encapsulation, one call in between, decapsulation.
  `MaxCalls` bounds the calls, so the run stops there and does not check deadlock.
  Noise is in -2 .. 2 as `cbd` gives it; samples are spread over what `rej_uniform`
  accepts.
- `host_calls`: two items, of which one can be done when the device is lost; messages of 0
  to 600 bytes, two periods of the alignment of 256; granularities 1 to 16 KB; GPUs with 1
  to 2500 multiprocessors and the maximum 32768 of the programs and two small ones that meet
  other candidates; times with ties and just above and below 95 %. Four programs
  (`MaxTasks`) are the longest chain key generation, encapsulation, decapsulation and one
  repetition; two digits per item (`ItemDigits`) suffice for a cut item.
- `dilithium_kernels`: transforms and numbers have their real size. Rejection has 2 warps of
  2 threads, 2 polynomials of 8 coefficients and `OMEGA` 3, so that hints cross lanes, warps
  and halves and exceed `OMEGA`. Sampling has 4 threads and 8 coefficients, with a last
  round that reads behind the buffer, and `MoreBlocks` 1.
- `hashing`: 4 start states of the permutation in full width; sponges with rates 2, 4 and 6
  of 8 bytes and messages and output up to 9 bytes, that is, several blocks cut at every
  place; warps of 5 threads, one of which has no lane.

Each property has a mutation of the code in its module (definitions marked as
mutations, for example `ListLast`, `GridDown`, `MatrixStraight`) under which TLC finds it violated.

## 4. Fairness

`sign_live` assumes weak fairness of `HostStep` and `GpuStep`. The host is one thread that
never waits for anything but the stream, and CUDA executes what was issued to a
stream as long as the device works. Nothing is assumed of the order of blocks or
of rounds: acceptance is not probabilistic in the model, but every item is
accepted at some nonce, and the loop reaches it by counting. With a lost GPU the
loop need not end, because `api.cu:561` ignores the result of the synchronization
and the old done flags stay zero; the paper notes list unread CUDA results as open
work, so this is kept as a hazard without a property. The safety modules use no fairness.

## 5. Proofs

For every value of the constants that satisfies the named assumptions:

- `SignBatch`: `TypeCorrect` without further assumption. The others assume `Batch <=
  IdxCap`, that an item index fits the upper 16 bits of an exec word: `Invariant`,
  `ReturnedSignaturesCorrect`, `SignedItemsIntactCorrect`, `NoNonceSkippedCorrect`,
  `NoWriteConflictCorrect`, `PinnedBuffersStableCorrect`, and `Refinement`: `SignBatch`
  implements `BatchSigner`.
- `KyberLaunch`: `LaunchInvariant` and with it all six invariants of the run.
  `SmallestAssumption` says that every kernel and device supports the smallest candidate
  (16 threads), without which a kernel may end a tuning with no measurement.
- `KyberArith`: Barrett and Montgomery reduction are correct on their whole range
  (`BarrettCorrect`, `MontgomeryCorrect`, `FqMulCorrect`, `CsubqCorrect`), samples are
  congruent and fit (`UniformCorrect`), sums and butterflies do not overflow
  (`AccumulationExact`, `ButterflyInRange`), a message bit survives an error within a quarter
  of q (`MessageSurvives`), and v loses at most 52 in compression (`VectorError`).
- `KyberKem`: `DecryptionCorrect`, that `indcpa_dec` finds the message that was encrypted for the
  key, on any column of the workspace; `KemTypes`, `KemSecretsMatch`, and
  `KemImplementsReference`: `KyberKem` implements `KyberReference`. For every batch, random number
  and content of fresh memory, every rank up to 9 (the largest whose sums of products fit 16
  bits; the code has 4) and any number of calls. The hypothesis `Samplers` says that noise is
  in -2 .. 2, as the differences of two counts of two bits in `cbd.cu:50-62` are, and that a
  sample is below the bound that `rej_uniform` tests; a message is a bit (`MessageAssumption`).
- `SignTuner`: `TunerTypesCorrect`, `WindowClosedTheorem`, `ElapsedIsWholeTheorem`,
  `FastestVariantTheorem`, for every number of stages, variants, runs and rounds.
- `DilithiumRounding`: `CoefficientsRecoveredTheorem` for every coefficient and product in the three
  modes, and `DecomposeLemma`, that the multiplications with 11275 and 1025 in
  `decompose` are the division by 2 * GAMMA2 on the whole range.
- `PoolLayout`: `PoolsFitTheorem`, `PathsToldApartTheorem`, for every length of the message and
  every granularity up to 16 KB (`GranularitiesAssumption`).
- `DilithiumCalls`: `VerifiesItemsTheorem`, for every batch and `MayNotStart`, and
  `KeysArePairsTheorem` if the kernel of key generation can start.
- `CallResources`: `CallsCleanUpTheorem`, for any number of calls.
- `BenchmarkSearch`: `WorkloadsFitTheorem` and `RecommendsFastestTheorem`, for every number of
  multiprocessors, every maximum up to 32768 and all measured times; the array has at least
  the 64 elements of the code (`SearchAssumption`).
- `KeyFiles`: `FilesCarryItemsTheorem`, for items of any length, any batch and any number of
  programs in a row.
- `ProfileStore`: `SavedProfileLoadsTheorem`, for profiles and numbers of any length, and
  `UnsplicedWasRecommendedTheorem` under the hypothesis that every setting has one digit. Dilithium's
  variants have; without it the statement is false (finding 2). It says nothing of a program
  that read a spliced file (finding 4).
- `Sampling`: `SamplesInOrderTheorem`, for any width of a warp, length of the buffer and samples.
- `HintEncoding`: `HintEncodingTheorem`, that the verifier accepts what the signer packs and reads
  the same hints, for every number of polynomials, coefficients and `OMEGA`.
- `RejectionKernels`: `RejInvTheorem`, `AllOrNoneTheorem`, `DecidesAttemptTheorem`, for both kernels,
  any number of warps and lanes, polynomials, checks and hints; a block covers half a
  polynomial (`RejAssumption`), as 128 threads do.
- `Keccak`: `PermutesAlways`: the permutation of the host, of a thread and of a warp is that of
  FIPS 202 after every iteration, from every state of 1600 bits (`StartsAssumption` says
  that start states are states).
- `Sponge`: `SpongeInvariant` and `SpongeImplementsXof`: `Sponge` implements `Xof`, for every width
  of the state, rates from 2 below it (`RatesAssumption`), and all lengths of messages, outputs
  and pieces.
- `WarpSponge`: `WarpHashesAlways`: the four warp functions deliver SHAKE in every interleaving, also
  in place, for lanes of at least two bytes, any number of lanes in a block, state and warp,
  each smaller than the next, and every length for which memory has room (`WarpAssumption`).

The invariant of signing. None of the properties is inductive: when a
signature is delivered, nothing in the state of that moment says where it came
from. `IInv` adds

- `StreamShape`: for each control point, the few sequences the stream can be;
- `InputsReady`: the inputs are on the device, or the kernel that makes them is at the head;
- `Scheduled`: each filled slot holds an attempt of an unsigned item all of whose smaller
  nonces are rejected or in an earlier slot, and each counter has passed only such nonces;
- `RoundData`: what the finished blocks of the round have computed, by their position in the stream;
- `ScanData`: the copy list is the first accepted slot of each item so far;
- `SignedData`: a signed item has its signature in its memory or a copy of it in the stream;
- `Returned`: with an empty stream the caller's buffer holds all of them.

All of this is claimed while the GPU answers; after it is lost only `result` counts,
which cannot become "ok". Preservation is proved action by action; lemmas on the stream
(`Position`, `FromStep`) keep the reasoning on sequences in one place. The refinement maps
a caller's slot to the nonce of the signature that is whole in it: the transfer of
the results is `Deliver`, the last synchronization `Succeed` or `Fail`, everything else stutters.

The invariant of the launch sizes. `LaunchInv` adds to the properties that tuned
sizes never exceed a kernel's limit (`BlocksInv`), that an override is whole and absent while
a tuning runs (`OverrideInv`), the timing window for each control point (`WindowInv`), and
that the tuned size of a kernel is the largest candidate so far that fits it
(`TunedInv`), whence kernels that cannot run a candidate run with the one before.

The invariant of the signing tuner. A median is right only if the samples since the
selection of the variant were all taken in its window. `TunerInv` adds where the loops
stand (`Loops`: the number of samples follows from the number of the run), that a run is
measured exactly if it is no warm-up (`Window`), and that the best variant is the first
minimum of the medians so far (`BestInv`).

The invariant of the KEM. That two secrets agree says nothing of the buffers they were computed
in, and a secret depends on keys and ciphertexts that were made many calls before. `KemInv`
says that every number of a column fits 16 bits (`ColumnsOK`), that public keys are canonical
(`PublicOK`) and a secret key is one the reference makes of some random number (`SecretsOK`),
that ciphertexts fit their bits (`CtOK`), and that what an encapsulation delivered
is the reference's ciphertext and secret for the message it remembers (`SentOK`). Its proof is
the argument of the code. Whatever is in a column before, each pipeline leaves in it named
functions of its inputs (`KeyColumn`, `EncDone`, `DecDone`). Every function of a kernel is congruent
modulo q to the sum it stands for, with its Montgomery factor, and small enough for the next
(`PointwiseCong`, `ProductCong`); a canonical number is determined by its congruence
(`CongCanonical`), hence `KeypairLemma` and `EncLemma`. In a decryption the products of key and
matrix cancel, by exchanging two sums (`TotalSwap`); what is left besides the message are products
of noise and roundings, together below a quarter of q (`NoiseProducts`, `MessageFound`).
So a ciphertext has one message at most, and decapsulation finds it (`OpenLemma`, `SecretLemma`).
Equal secrets come from equal ciphertexts and keys because hash functions are free.

The invariant of the rounding. `Registers` says for each stage what the registers hold in
terms of the coefficient, the products and the checks passed. The proof of `MakeHint` and
`Verify` is the argument of FIPS 204: with the low part within `GAMMA2 - BETA` and `c t0`
within `GAMMA2`, adding moves at most to the next interval, and the hint says so.

The layouts. A layout is a concatenation of pieces; `ConcatLemma` shows that pieces that
meet are in order if each is, so the proof has one step for each pointer of `api.cu`.
For the pitches the proof finds rows that differ by more than the largest granularity.

The invariant of the calls. That a result of 0 is true is not inductive: nothing in the
buffer says who wrote it. `CallInv` says which operations are issued and on which items they
are `Done` (`Phases`, `InSequence`), that after the clearing of the results nothing but the
kernel writes 0 (`VerifyResults`), and what each area holds once the operation that fills it
is done (`VerifyData`, `KeyData`). The last two hold while nothing has failed; `KeyTrouble`
says that key generation notices everything but a kernel that does not start.

The invariant of the rejection kernels. Where a warp is says nothing of where the others
are, and whether they agree depends on votes made many instructions before. The proof first
shows a `Shape` of both instruction lists: clear before vote, vote before check, a barrier between
them, and the same for the counts, sums and bounds of each half of a polynomial. From the attempt
alone follows the instruction at which it must end, its `Fate`. `RejInv` then says in three parts:
`Control`, that no warp passes its fate or a barrier that another has not reached;
`Decision`, that the flag is the or of the votes made so far and each count is the
number of hints of its part, as long as it may be read; `Result`, which hints, zeros and ends of
polynomials are at their place in the buffer. Every warp that returns has reached the same fate,
which is `AllOrNone`; a warp that reaches the end has passed every check, and the buffer is
`HintBitPack` of the hints.

The invariant of the sampling. `SamplesInv` says that the buffer holds the good samples of the
rounds made so far in their order, cut at the length, and that the counter is their
number. A round keeps it because the rank of a sample within the warp is the number of good lanes
before it (`CountLemma`, `LanesLemma`).

The invariant of the sponges. The standard cuts the whole padded message into blocks; the code has
a state and a place, and has forgotten the message. `SpongeInv` says that the state is the one
that belongs to the number of bytes absorbed (`Absorbed`: the blocks that are complete, and
the bytes of the next) or delivered (`Squeezed`), and the place its remainder. One byte keeps
that (`AbsorbStep`, `SqueezeStep`), and so does a block (`BlockStep`, `BlockOut`); loops follow by
induction. `FinalizeLemma`, `AbsorbOnceLemma` and `ThreadAbsorbLemma` say that three ways of padding
make the same last block, also when suffix and last bit share a byte.

The invariant of the warps. The threads do not wait for each other at loads and stores, so a
thread may store its lane of a block, over the input if the buffer is the same, before
another has stored the one before. `WarpInv` says that some number p of permutations is done and
then: every thread with a lane is between permutation p and the next, and no thread is past a
synchronization that another has not reached (`InOrder`); `base` is the first p blocks
FIPS 202 asks for, and a lane holds its part of the next one as soon as it is past the load
(`WarpWords`); the input is whole while p does not exceed its whole blocks, and the
bytes of output are in memory, or in `tmp_shared`, as soon as the thread they belong to is past
its store (`WarpMemory`). It is inductive because a lane that stores is behind the permutation
that followed the last load, so nobody reads the input any more, and because a thread that
copies is behind the synchronization that follows all stores to `tmp_shared` (`CopyPlace`). The
programs are first shown to have the layout that these places refer to (`ShapeLemma`).

The permutation. The invariant is short: the lanes are those of FIPS 202, and the host is
between two of its double rounds (`KeccakInv`). The work is in the rounds. Theta, rho with pi, and chi
are written once as functions of the index of a lane, and each implementation is shown to compute
them (`ThetaLemma`, `RhoPiLemma`, `ChiLemma` for the standard; `CpuThetaLemma` and the like for
the code). `RotateLemma` says that the two shifts of `ROL` rotate, also by 0, where one of them is
by 64. The thread permutes in place: after i steps of its loop the first i places of `keccakf_piln`
are new, the others are old, and `t` holds the lane that was overwritten last
(`RhoPiProgress`). The standard defines its offsets by a walk and its round constants by a shift
register. `WalkLemma` says that the walk goes through `keccakf_piln`; the bits that leave the
register obey a linear recurrence (`Recurrence`), which the 168 bits of the table satisfy
(`RoundBitsTable`, `RoundBitsLemma`).

The invariant of the files. `IntactInv` says that the files in `intact` are the texts of keys,
ciphertexts, secrets and signatures of one key run and one encapsulation; `RunInv` that
what the running program holds was parsed from its inputs and that what it has written is
no longer in `intact`; `FilesType` that every text is made of whole items in order with the last one
perhaps cut (`Orderly`), so that a text of the right length parses to whole items.

The profiles. A text is a fold over its symbols. The lemmas name the reading (`IsReading`)
and say what it holds at the end of each word (`WordsRead`), that the words never get fewer
(`WordsGrow`), and with that: a whole text gives its profile (`LoadWhole`), with anything
behind it the same profile or none (`LoadTail`), and a cut one none if the last word has one
digit (`LoadCut`). The invariant is short: a file open in one benchmark alone is empty, a saved
one is whole (`StoreInv`), and every file is spliced, empty, a recommended text with a tail, or
a cut one (`FileInv`). A cut text over a file that is not longer is a cut text, and one of no
symbols leaves the file as it is (`StoreCut`); all others splice.

The resources and the search. What a call holds is in its clean-up list, because every step
takes something of that list (`StepsCovered`). The distance of two candidates is at least
751 (`StepLemma`), so at most 43 multiples, four small batches and the maximum are below 32768.
The recommended result is compared with the peak by products of batches and times; `RatioLemma`
chains two such comparisons.

Induction. The theorems of the library on induction take the predicate as an operator
parameter, which the provers here cannot instantiate. `Induction` states them for sets instead: an
interval whose first number is in H, and H with each number the next, lies in H. A proof
defines H with its property in a set comprehension and never needs a predicate. All functions
that are proved about are recursive functions, never `RECURSIVE` operators.

Only model-checked:

- `CallReturns`: liveness under fairness, out of the prover's reach.
- `KernelTransforms`, `KernelRaceFree`: the transforms have one size, and TLC runs all of it.

## 6. Findings

1. A launch override stays in force for every later batch. With a grid that is too
   small an operation answers 0 although no kernel touched the last items
   (`kyber_wrapper.cu:146`), against the statement of the paper notes (line 233) that a
   call returns with usable results.
2. A Kyber profile that was cut inside its last number is accepted and run
   (`benchmark_profile.h:40`), against `PQHybrid/README.md:204`, which says that invalid
   profiles are refused. Dilithium profiles have settings of one digit: a cut in the last one
   leaves none.
3. The paper notes (line 328) describe the shared secret as the hash of the message and the
   hash of the ciphertext; the code hashes the first half of SHA3-512, as the reference of
   Kyber does.
4. Profiles are written in place and without a lock (`benchmark_profile.h:18`). If two
   benchmarks of one operation have the file open and the second to close it is cut short, the
   rest of the first text follows: one benchmark's batch with the other one's settings is
   accepted and run, for Dilithium as well, against the same statement as in 2.

## 7. Not modelled

- Kyber polynomials that are not constant, and with them its transforms; the transforms of
  32 threads and the packing of y, z, w1, t0, t1 and s in Dilithium. These are arithmetic
  without state, and the round trip of any test exercises all of it.
- Random numbers: a nondeterministic choice; their failure is a failure of the calls.
- The refusal of wrong sizes and the switch over the modes in `dilithium_dispatch.cpp`: they keep no
  state. Entries for one item. Batches of more than 65536 items, which the exec
  table cannot name: the assumption `Batch <= IdxCap` of the proofs.
- cSHAKE and the functions for four inputs at once, which nothing here calls.
- Menus, wording, reference benchmarks, tests, scripts and results.

Hazards listed without a property, because no guarantee of the code covers them:

- `api.cu:561`: with a lost GPU the loop does not end (section 4).
- `indcpa.cu:539`: when the first four blocks give fewer than 256 good samples, the next ones
  are stored `ctr * N_TESTS` polynomials further on (`MoreSamples`), and the polynomial keeps old
  coefficients. `SamplesInOrder` is claimed for the other case; this one needs 81
  rejections in 336 samples, less than once in 2^130 polynomials.
- `ntt.cuh:110`: between the barriers the code relies on threads of a warp that execute
  together. `NttRadix2` assumes it.
- `verify.cu:85`: votes are combined by exclusive or, so two failures of one thread
  cancel. `RejectionKernels` covers the hints a signer makes.

The CPA calls of Kyber leave device buffers behind if a later allocation fails
(`kyber_wrapper.cu:82`). `CallsCleanUp` states exactly this exception; the paper notes list it as
open work (line 913).

## 8. Plan

Done, in this order: signing, since it is the concurrent heart of the library; launch sizes;
the signing tuner; profiles; the KEM with its arithmetic; hash functions; the kernels of
Dilithium; the host calls with pools, resources, search and files; proofs of the tuner, the
rounding, the pools and the calls, then of the resources, the search, the files, the
profiles, the sampling, the rejection kernels, of the KEM with its refinement, of the sponges, of
the warps that hash and of the permutation.

Left: a proof that the transforms of `NttRadix2` are free of races
from their layouts; packing of Dilithium and Kyber polynomials as positions of bits.
