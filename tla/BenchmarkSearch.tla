--------------------------- MODULE BenchmarkSearch ---------------------------
(***************************************************************************)
(* The search of a benchmark program for the batch and the kernel settings *)
(* it recommends: the batches it tries, which depend on the number of      *)
(* multiprocessors, the tuning and the measurement of each, and the choice *)
(* (benchmark_workloads.h, benchmark_policy.h, main.c).  Times are whole   *)
(* numbers; the settings tuned for a batch are named by that batch.        *)
(***************************************************************************)
EXTENDS Integers, Sequences, FiniteSetsExt

CONSTANTS
  Devices,   \* numbers of multiprocessors
  Maximums,  \* largest batches
  Groupings, \* items_per_sm: 32 for Kyber, 4 for Dilithium
  Totals,    \* median times of a batch
  MAX_WORKLOADS,
  Nothing

\* The programs run batches of up to 32768 items, in groups of 4 or 32.
LargestBatch == 32768

ASSUME SearchAssumption ==
  /\ Devices \subseteq Nat \ {0} /\ Maximums \subseteq 1 .. LargestBatch /\ Groupings \subseteq {4, 32}
  /\ Totals \subseteq Nat \ {0}
  /\ MAX_WORKLOADS \in Nat /\ MAX_WORKLOADS >= 64

VARIABLES
  sms, maximum, grouping,
  workloads,     \* the batches to try
  settings,      \* the settings in force: what they were tuned for
  results,       \* of the batches measured so far
  recommended    \* what is saved; Nothing as long as there is none

searchVars == <<sms, maximum, grouping, workloads, settings, results, recommended>>

-----------------------------------------------------------------------------
\* The grouping is halved until a step of one group has at most 2000 items.
Group(m) ==
  Max({g \in {grouping \div k : k \in {1, 2, 4, 8, 16, 32}} \ {0} : g = 1 \/ m <= 2000 \div g})

\* The multiple of a unit that is nearest to 1500.
pqcuda_workload_step(m) ==
  LET unit == m * Group(m)
      rounded == IF 1500 % unit >= (unit \div 2) + (unit % 2) THEN 1 ELSE 0
  IN  unit * Max({1, (1500 \div unit) + rounded})

Aligned(max, step) == [i \in 1 .. (max - 1) \div step |-> i * step]

small == <<1, 32, 128, 512>>
FirstSmall(n) == SubSeq(small, 1, n)

\* 0 workloads, the empty sequence here, if they do not fit.
pqcuda_workload_candidatesWithMaximum(m, max) ==
  FirstSmall(Max({0} \cup {i \in 1 .. 4 : small[i] <= max}))
  \o Aligned(max, pqcuda_workload_step(m)) \o <<max>>
pqcuda_workload_candidates(m, max) ==
  LET all == FirstSmall(Max({0} \cup {i \in 1 .. 4 : small[i] < max}))
             \o Aligned(max, pqcuda_workload_step(m)) \o <<max>>
  IN  IF Len(all) <= MAX_WORKLOADS THEN all ELSE << >>

\* throughput >= 95 % of the peak, and a shorter time than the best so far:
\* 20 * (batch / total) >= 19 * (peak_batch / peak_total).
Faster(r, s) == r.batch * s.total > s.batch * r.total
Peak == CHOOSE r \in {results[i] : i \in DOMAIN results} :
          \A i \in DOMAIN results : ~Faster(results[i], r)
NearPeak(r, peak) == 20 * r.batch * peak.total >= 19 * peak.batch * r.total

\* The first of the fastest in total that are near the peak.
BestTotal(near) ==
  CHOOSE i \in near : \A j \in near :
    results[i].total < results[j].total \/ (results[i].total = results[j].total /\ i <= j)
BestOfPrefix ==
  BestTotal({i \in DOMAIN results : \A j \in 1 .. i : NearPeak(results[i], results[j])})
Best == BestTotal({i \in DOMAIN results : NearPeak(results[i], Peak)})

-----------------------------------------------------------------------------
SearchInit ==
  /\ sms \in Devices /\ maximum \in Maximums /\ grouping \in Groupings
  /\ workloads = pqcuda_workload_candidates(sms, maximum)
  /\ settings = Nothing /\ results = << >> /\ recommended = Nothing

\* Tuning for the next batch, then the median of its runs.
Measures ==
  /\ Len(results) < Len(workloads) /\ recommended = Nothing
  /\ LET batch == workloads[Len(results) + 1]
     IN  /\ settings' = batch
         /\ \E total \in Totals :
              results' = Append(results, [batch |-> batch, total |-> total, settings |-> batch])
  /\ UNCHANGED <<sms, maximum, grouping, workloads, recommended>>

\* The settings of the best are applied again and saved with its batch.
Recommends ==
  /\ workloads # << >> /\ Len(results) = Len(workloads) /\ recommended = Nothing
  /\ settings' = results[Best].settings
  /\ recommended' = [batch |-> results[Best].batch, settings |-> results[Best].settings]
  /\ UNCHANGED <<sms, maximum, grouping, workloads, results>>

SearchNext == Measures \/ Recommends

SearchSpec == SearchInit /\ [][SearchNext]_searchVars

-----------------------------------------------------------------------------
\* For every number of multiprocessors the batches fit the array of the
\* program, grow from 1 and end with the maximum exactly once; the steps
\* between them are no larger than 2000 items as long as the device has at
\* most as many multiprocessors.
WorkloadsFit ==
  /\ Len(workloads) \in 1 .. MAX_WORKLOADS
  /\ workloads[1] = 1 /\ workloads[Len(workloads)] = maximum
  /\ \A i \in 1 .. Len(workloads) - 1 :
       /\ workloads[i] < workloads[i + 1]
       /\ sms <= 2000 => workloads[i + 1] - workloads[i] <= 2000

\* The recommended batch reaches 95 % of the throughput of every measured one,
\* none of those that do takes less time, and it is saved and left in force
\* with the settings it was measured with.
RecommendsFastest ==
  recommended # Nothing =>
    \E r \in {results[i] : i \in DOMAIN results} :
      /\ recommended = [batch |-> r.batch, settings |-> r.settings]
      /\ settings = r.settings
      /\ \A i \in DOMAIN results :
           /\ NearPeak(r, results[i])
           /\ (\A j \in DOMAIN results : NearPeak(results[i], results[j])) =>
                r.total <= results[i].total
=============================================================================
