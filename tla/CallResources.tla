---------------------------- MODULE CallResources ----------------------------
(***************************************************************************)
(* What the calls of both wrappers allocate and free (dilithium_wrapper.cu *)
(* and kyber_wrapper.cu): pools, pinned buffers, device buffers, streams.  *)
(* Any allocation and any other step of a call may fail.                   *)
(***************************************************************************)
EXTENDS Integers, Sequences

CONSTANTS
  MaxCalls,   \* bound: calls of one program
  Idle

VARIABLES
  entry,      \* the call that runs, or Idle
  step,       \* its next step
  valid,      \* whether all allocations of its context succeeded
  mine,       \* what it holds
  leftover,   \* what ended calls left behind: the call, and whether it succeeded
  calls

resourceVars == <<entry, step, valid, mine, leftover, calls>>

-----------------------------------------------------------------------------
Get(r) == <<"get", r>>       \* the call ends if there is no memory
Try(r) == <<"try", r>>       \* the constructor goes on
Check == <<"check", "">>     \* the call ends if the constructor failed
Work == <<"work", "">>       \* anything else that may fail
Synchronize == <<"sync", "">>  \* its failure is only noted

TableSteps ==
  <<Get("h_exec"), Get("h_done"), Get("h_copy"), Get("d_exec"), Get("d_done"), Get("d_copy")>>
SignSteps == <<Get("sign_pool")>> \o TableSteps \o <<Get("temp_pool"), Work, Work>>

\* The context of a CPA call, the buffers of a type taken together.
Context == {"stream", "polys", "polyvecs", "AV", "seed", "large_buffers"}
ContextSteps ==
  <<Try("stream"), Try("polys"), Try("polyvecs"), Try("AV"), Try("seed"),
    Try("large_buffers"), Check>>

Steps ==
  [keypair |-> <<Get("pool"), Synchronize>>,
   verify |-> <<Get("pool"), Synchronize>>,
   sign |-> SignSteps,
   sign_verify |-> <<Get("keypair_pool"), Work, Work>> \o SignSteps \o <<Get("verify_pool"), Work>>,
   cpa_keypair |-> ContextSteps \o <<Work, Get("d_pk"), Get("d_sk"), Get("d_random"), Synchronize>>,
   cpa_encrypt |->
     ContextSteps \o <<Get("d_ct"), Get("d_message"), Get("d_pk"), Get("d_coins"), Synchronize>>,
   cpa_decrypt |-> ContextSteps \o <<Get("d_message"), Get("d_ct"), Get("d_sk"), Synchronize>>]

KyberCalls == {"cpa_keypair", "cpa_encrypt", "cpa_decrypt"}

\* What the clean-up at the end of a call names.
TableFreesWithoutDone == {"h_exec", "h_done", "h_copy", "d_exec", "d_copy"}
TableFrees == {"h_exec", "h_done", "h_copy", "d_exec", "d_done", "d_copy"}
Frees ==
  [keypair |-> {"pool"}, verify |-> {"pool"},
   sign |-> TableFrees \cup {"temp_pool", "sign_pool"},
   sign_verify |-> TableFrees \cup {"verify_pool", "temp_pool", "sign_pool", "keypair_pool"},
   cpa_keypair |-> Context \cup {"d_pk", "d_sk", "d_random"},
   cpa_encrypt |-> Context \cup {"d_ct", "d_message", "d_pk", "d_coins"},
   cpa_decrypt |-> Context \cup {"d_message", "d_ct", "d_sk"}]

\* A CPA call that returns early leaves the rest to the destructor.
FreesEarly(e) == IF e \in KyberCalls THEN Context ELSE Frees[e]

-----------------------------------------------------------------------------
ResourceInit ==
  entry = Idle /\ step = 0 /\ valid = TRUE /\ mine = {} /\ leftover = {} /\ calls = 0

Begins ==
  /\ entry = Idle /\ calls < MaxCalls
  /\ entry' \in DOMAIN Steps
  /\ step' = 1 /\ valid' = TRUE /\ mine' = {} /\ calls' = calls + 1
  /\ UNCHANGED leftover

Now == Steps[entry][step]
InStep(kind) == entry # Idle /\ step <= Len(Steps[entry]) /\ Now[1] = kind
Continues ==
  /\ step' = step + 1
  /\ UNCHANGED <<entry, leftover, calls>>

Ends(frees, early) ==
  /\ leftover' = leftover \cup {[call |-> entry, early |-> early] : r \in mine \ frees}
  /\ entry' = Idle /\ step' = 0 /\ valid' = TRUE /\ mine' = {}
  /\ UNCHANGED calls

Gets ==
  /\ InStep("get") \/ InStep("try")
  /\ Continues
  /\ mine' = mine \cup {Now[2]} /\ UNCHANGED valid

TryFails ==
  /\ InStep("try")
  /\ Continues
  /\ valid' = FALSE /\ UNCHANGED mine

Checks ==
  /\ InStep("check")
  /\ IF valid THEN Continues /\ UNCHANGED <<valid, mine>> ELSE Ends(FreesEarly(entry), TRUE)

Works ==
  /\ InStep("work") \/ InStep("sync")
  /\ Continues
  /\ UNCHANGED <<valid, mine>>

StepFails ==
  /\ InStep("get") \/ InStep("work")
  /\ Ends(FreesEarly(entry), TRUE)

Returns ==
  /\ entry # Idle /\ step > Len(Steps[entry])
  /\ Ends(Frees[entry], FALSE)

ResourceNext == Begins \/ Gets \/ TryFails \/ Checks \/ Works \/ StepFails \/ Returns

ResourceSpec == ResourceInit /\ [][ResourceNext]_resourceVars

-----------------------------------------------------------------------------
\* A Dilithium call frees everything it has allocated wherever it fails, and
\* a Kyber call everything unless it returned early: only the CPA calls leave
\* buffers behind, when a later allocation fails.
CallsCleanUp ==
  \A l \in leftover : l.call \in KyberCalls /\ l.early
=============================================================================
