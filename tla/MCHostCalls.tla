---------------------------- MODULE MCHostCalls ----------------------------
(***************************************************************************)
(* One part of the host programs at a time: a Dilithium call on a device,  *)
(* the layout of its pools, the resources of calls, the search of a        *)
(* benchmark, programs that pass files to each other, or programs that     *)
(* write and read the profile of an operation.  The batches of the search  *)
(* are checked for every device, the choice for small ones.                *)
(***************************************************************************)
EXTENDS DilithiumCalls, CallResources, BenchmarkSearch, PoolLayout, KeyFiles, MCProfileStore

hostVars == <<callVars, resourceVars, searchVars, layoutVars, fileVars, profileVars>>

MCDevices == 1 .. 2500
MCMaximums == {40, 128, 32768}
MCLengths == 0 .. 600

NoCall ==
  /\ call = "none" /\ altered = {} /\ at = 0 /\ stream = << >> /\ pool = << >>
  /\ host = << >> /\ lost = FALSE /\ trouble = FALSE /\ answer = Unanswered
NoResource ==
  entry = "none" /\ step = 0 /\ valid = TRUE /\ mine = {} /\ leftover = {} /\ calls = 0
\* A search that is not begun, with the only batch 1.
NoSearch ==
  /\ sms = 0 /\ maximum = 1 /\ grouping = 0 /\ workloads = <<1>> /\ settings = Nothing
  /\ results = << >> /\ recommended = Nothing
\* One of the layouts, while something else is looked at.
NoLayout == level = 5 /\ mlen = 0 /\ granularity = 1

NoFiles ==
  /\ algorithm = "none" /\ files = << >> /\ task = "none" /\ batch_size = 0
  /\ received = << >> /\ produced = << >> /\ written = 0 /\ tasks = 0
  /\ verified = TRUE /\ intact = {}

\* No benchmark; the readers do nothing.
NoProfiles ==
  /\ file = None /\ writing = << >>
  /\ loaded = [r \in Readers |-> None] /\ executed = [r \in Readers |-> None]
  /\ proposed = {} /\ saved = None /\ spliced = FALSE /\ misled = {}

Init ==
  \/ CallInit /\ NoResource /\ NoSearch /\ NoLayout /\ NoFiles /\ NoProfiles
  \/ NoCall /\ ResourceInit /\ NoSearch /\ NoLayout /\ NoFiles /\ NoProfiles
  \/ NoCall /\ NoResource /\ SearchInit /\ NoLayout /\ NoFiles /\ NoProfiles
  \/ NoCall /\ NoResource /\ NoSearch /\ LayoutInit /\ NoFiles /\ NoProfiles
  \/ NoCall /\ NoResource /\ NoSearch /\ NoLayout /\ FilesInit /\ NoProfiles
  \/ NoCall /\ NoResource /\ NoSearch /\ NoLayout /\ NoFiles /\ ProfileInit

Next ==
  /\ \/ call # "none" /\ CallNext /\ UNCHANGED <<resourceVars, searchVars, fileVars, profileVars>>
     \/ entry # "none" /\ ResourceNext /\ UNCHANGED <<callVars, searchVars, fileVars, profileVars>>
     \/ maximum \in 1 .. 100 /\ sms = 80 /\ SearchNext
         /\ UNCHANGED <<callVars, resourceVars, fileVars, profileVars>>
     \/ algorithm # "none" /\ FilesNext
         /\ UNCHANGED <<callVars, resourceVars, searchVars, profileVars>>
     \/ writing # << >> /\ ProfileNext
         /\ UNCHANGED <<callVars, resourceVars, searchVars, fileVars>>
  /\ UNCHANGED layoutVars

Spec == Init /\ [][Next]_hostVars
=============================================================================
