----------------------------- MODULE SignTuner -----------------------------
(***************************************************************************)
(* The tuner of the Dilithium signing kernels.  Signing launches the       *)
(* kernels of seven stages, one of them twice and those of the rejection   *)
(* loop once per round, and every stage has several variants.  The tuner   *)
(* goes through the stages in order: it signs with each variant of a       *)
(* stage, times the launches of this stage only, and keeps the variant     *)
(* with the least median before it turns to the next stage.  The selection *)
(* is global, one per Dilithium mode; calls are made one at a time.        *)
(*                                                                         *)
(* Abstracted: a signature is good or bad; times are small numbers.        *)
(***************************************************************************)
EXTENDS Integers, Sequences, FiniteSets

CONSTANTS
  StageCount,    \* DILITHIUM_TUNE_STAGE_COUNT
  Order,         \* the stages in the order of their launches in one call
  FirstLoop,     \* the launches from this one on are made once per round
  VariantCount,  \* kernel_variant_counts
  Initially,     \* the selection a program starts with
  Warmups,       \* PQCUDA_BENCHMARK_WARMUP_RUNS
  Samples,       \* PQCUDA_BENCHMARK_SAMPLE_RUNS
  Durations,     \* how long one launch may take
  MaxRounds,     \* bound on the rounds of one signing call
  ProfileLimit   \* bound on the values of a profile

Stages == 0 .. StageCount - 1
Variants(s) == 0 .. VariantCount[s] - 1
NoStage == -1

ASSUME CountsAssumption ==
  /\ StageCount \in Nat \ {0}
  /\ Order \in Seq(Stages) /\ FirstLoop \in 1 .. Len(Order)
  /\ VariantCount \in [Stages -> Nat \ {0}]
  /\ Initially \in [Stages -> Nat]
  /\ \A s \in Stages : Initially[s] \in Variants(s)
  /\ Warmups \in Nat \ {0} /\ Samples \in Nat \ {0}
  /\ Durations \subseteq Nat /\ Durations # {}
  /\ MaxRounds \in Nat \ {0} /\ ProfileLimit \in Nat

VARIABLES
  selected,    \* selected_kernel_variants
  measuring,   \* measured_tuning_stage
  ms,          \* measured_tuning_ms
  events,      \* whether the two timing events exist
  pc,          \* control point of the tuner, "idle" outside of it
  stage,       \* the stage that is tuned
  variant,     \* its variant under measurement
  run,         \* warm-up and measured runs of this variant that are finished
  samples,     \* the measured times of this variant
  best_ms, best_variant,
  launch,      \* in a signing call: the next one, in Order
  round,       \* in a signing call: rounds of the rejection loop
  ret,         \* what the last tuning answered
  spent,       \* history: time per stage in this signing call
  medians      \* history: the medians of the variants of this stage

timer == <<measuring, ms, events>>
search == <<stage, variant, run, samples, best_ms, best_variant>>
signing == <<launch, round, spent>>
vars == <<selected, timer, pc, search, signing, ret, medians>>

TypeOK ==
  /\ \A s \in Stages : selected[s] \in Variants(s)
  /\ DOMAIN selected = Stages
  /\ measuring \in Stages \cup {NoStage}
  /\ ms \in Nat /\ events \in BOOLEAN
  /\ pc \in {"idle", "stage", "variant", "run", "sign"}
  /\ stage \in 0 .. StageCount
  /\ variant \in Nat
  /\ run \in 0 .. Warmups + Samples
  /\ samples \in Seq(Nat) /\ Len(samples) <= Samples
  /\ best_ms \in Nat \cup {-1}
  /\ best_variant \in Nat \cup {-1}
  /\ launch \in 1 .. Len(Order) + 1
  /\ round \in 0 .. MaxRounds
  /\ ret \in {0, -1}

Still == [s \in Stages |-> 0]

Init ==
  /\ selected = Initially
  /\ measuring = NoStage /\ ms = 0 /\ events = FALSE
  /\ pc = "idle"
  /\ stage = 0 /\ variant = 0 /\ run = 0 /\ samples = << >>
  /\ best_ms = -1 /\ best_variant = -1
  /\ launch = 1 /\ round = 0 /\ spent = Still
  /\ ret = 0
  /\ medians = << >>

-----------------------------------------------------------------------------
(***************************************************************************)
(* Launching and timing.                                                   *)
(***************************************************************************)
\* A signing call is set up; its answer is in the hands of the stages below.
SignCall == launch' = 1 /\ round' = 1 /\ spent' = Still

\* tuning_stop after a launch of stage s that took d.
\* Mutation: only the last launch counts.
StopLast(s, d) == ms' = IF s = measuring THEN d ELSE ms
Stop(s, d) == ms' = IF s = measuring THEN ms + d ELSE ms

\* One launch between tuning_start and tuning_stop.
Launch ==
  /\ pc = "sign" /\ launch <= Len(Order)
  /\ \E d \in Durations :
       /\ Stop(Order[launch], d)
       /\ spent' = [spent EXCEPT ![Order[launch]] = @ + d]
  /\ launch' = launch + 1
  /\ UNCHANGED <<selected, measuring, events, pc, search, round, ret, medians>>

\* A signature was rejected: another round.
AnotherRound ==
  /\ pc = "sign" /\ launch = Len(Order) + 1 /\ round < MaxRounds
  /\ launch' = FirstLoop
  /\ round' = round + 1
  /\ UNCHANGED <<selected, timer, pc, search, spent, ret, medians>>

-----------------------------------------------------------------------------
(***************************************************************************)
(* Public calls other than the tuner.  (Signing outside of the tuner       *)
(* changes nothing here: no stage is measured then.)                       *)
(***************************************************************************)
\* Mutation of Supported: variants are not checked.
SupportedAny(p) == TRUE
Supported(p) == \A s \in Stages : p[s] \in Variants(s)

ApplyLaunchProfile ==
  /\ pc = "idle"
  /\ \E p \in [Stages -> 0 .. ProfileLimit] :
       selected' = IF Supported(p) THEN p ELSE selected
  /\ UNCHANGED <<timer, pc, search, signing, ret, medians>>

-----------------------------------------------------------------------------
(***************************************************************************)
(* The tuner.                                                              *)
(***************************************************************************)
Return(r) ==
  /\ pc' = "idle" /\ ret' = r
  /\ stage' = 0 /\ variant' = 0 /\ run' = 0 /\ samples' = << >>
  /\ best_ms' = -1 /\ best_variant' = -1

\* Keys are generated, or the tuner gives up.
TuneStart ==
  /\ pc = "idle"
  /\ pc' = "stage" /\ stage' = 0
  /\ UNCHANGED <<selected, timer, variant, run, samples, best_ms, best_variant,
                 signing, ret, medians>>

TuneRefused ==
  /\ pc = "idle"
  /\ ret' = -1
  /\ UNCHANGED <<selected, timer, pc, search, signing, medians>>

\* Mutation of ResetBest: the best of the previous stage is kept.
ResetBestNot == UNCHANGED <<best_ms, best_variant>>
ResetBest == best_ms' = -1 /\ best_variant' = -1

StartStage ==
  /\ pc = "stage" /\ stage < StageCount
  /\ ResetBest
  /\ variant' = 0
  /\ pc' = "variant"
  /\ medians' = << >>
  /\ UNCHANGED <<selected, timer, stage, run, samples, signing, ret>>

\* crypto_sign_set_kernel_variant
StartVariant ==
  /\ pc = "variant" /\ variant < VariantCount[stage]
  /\ selected' = [selected EXCEPT ![stage] = variant]
  /\ run' = 0 /\ samples' = << >>
  /\ pc' = "run"
  /\ UNCHANGED <<timer, stage, variant, best_ms, best_variant, signing, ret,
                 medians>>

\* The first runs of a variant only warm up.
Measured == run >= Warmups

\* A run starts: a measured one with crypto_sign_tuning_begin.
StartRun ==
  /\ pc = "run" /\ run < Warmups + Samples
  /\ IF Measured
       THEN /\ measuring = NoStage
            /\ measuring' = stage /\ ms' = 0 /\ events' = TRUE
       ELSE UNCHANGED timer
  /\ SignCall
  /\ pc' = "sign"
  /\ UNCHANGED <<selected, search, ret, medians>>

\* An event cannot be created.
TuningBeginFails ==
  /\ pc = "run" /\ run < Warmups + Samples
  /\ Measured
  /\ Return(-1)
  /\ UNCHANGED <<selected, timer, signing, medians>>

\* crypto_sign_tuning_end, called after measured runs only.
TuningEnd == measuring' = NoStage /\ ms' = 0 /\ events' = FALSE
EndMeasured == IF Measured THEN TuningEnd ELSE UNCHANGED timer

\* The call is over, the measurement has ended, the signatures are good.
RunDone ==
  /\ pc = "sign" /\ launch = Len(Order) + 1
  /\ EndMeasured
  /\ samples' = IF Measured THEN Append(samples, ms) ELSE samples
  /\ run' = run + 1
  /\ pc' = "run"
  /\ UNCHANGED <<selected, stage, variant, best_ms, best_variant, signing, ret,
                 medians>>

\* Mutation of EndFailed: the measurement goes on when the call failed.
EndFailedNot == UNCHANGED timer
EndFailed == EndMeasured

\* Signing failed (at any launch), or a signature is bad.
RunFails ==
  /\ pc = "sign"
  /\ EndFailed
  /\ Return(-1)
  /\ UNCHANGED <<selected, signing, medians>>

\* The element of rank k, from 0, of a sequence of numbers.
Ranked(seq, k) ==
  LET Below(v) == {i \in DOMAIN seq : seq[i] < v}
      UpTo(v) == {i \in DOMAIN seq : seq[i] <= v}
  IN  CHOOSE v \in {seq[i] : i \in DOMAIN seq} :
        Cardinality(Below(v)) <= k /\ k < Cardinality(UpTo(v))

\* Twice the median.
Median(seq) == Ranked(seq, (Samples - 1) \div 2) + Ranked(seq, Samples \div 2)

EndVariant ==
  /\ pc = "run" /\ run = Warmups + Samples
  /\ LET m == Median(samples)
     IN  /\ IF best_ms = -1 \/ m < best_ms
              THEN best_ms' = m /\ best_variant' = variant
              ELSE UNCHANGED <<best_ms, best_variant>>
         /\ medians' = Append(medians, m)
  /\ variant' = variant + 1
  /\ pc' = "variant"
  /\ UNCHANGED <<selected, timer, stage, run, samples, signing, ret>>

\* All variants of the stage were tried: the best one is selected.
EndStage ==
  /\ pc = "variant" /\ variant = VariantCount[stage]
  /\ selected' = [selected EXCEPT ![stage] = best_variant]
  /\ stage' = stage + 1
  /\ pc' = "stage"
  /\ UNCHANGED <<timer, variant, run, samples, best_ms, best_variant, signing,
                 ret, medians>>

TuneDone ==
  /\ pc = "stage" /\ stage = StageCount
  /\ Return(0)
  /\ UNCHANGED <<selected, timer, signing, medians>>

Next ==
  \/ ApplyLaunchProfile
  \/ TuneStart \/ TuneRefused \/ StartStage \/ StartVariant
  \/ StartRun \/ TuningBeginFails \/ Launch \/ AnotherRound
  \/ RunDone \/ RunFails \/ EndVariant \/ EndStage \/ TuneDone

Spec == Init /\ [][Next]_vars

-----------------------------------------------------------------------------
(***************************************************************************)
(* Properties.                                                             *)
(***************************************************************************)
\* However the tuner ends, no stage is measured afterwards: the next call of
\* crypto_sign_tuning_begin is not refused and no later call is timed.
WindowClosed == pc # "sign" => measuring = NoStage /\ ms = 0 /\ ~events

\* When a measured call is over, the elapsed time is that of all launches of
\* the stage under test in all rounds, and of no launch of another stage.
ElapsedIsWhole ==
  pc = "sign" /\ measuring # NoStage => ms = spent[stage]

\* The stage just tuned has the first of its variants with the least median.
FastestVariant ==
  pc = "stage" /\ stage > 0 =>
    LET v == selected[stage - 1]
    IN  /\ Len(medians) = VariantCount[stage - 1]
        /\ \A w \in Variants(stage - 1) :
             /\ medians[v + 1] <= medians[w + 1]
             /\ w < v => medians[v + 1] < medians[w + 1]
=============================================================================
