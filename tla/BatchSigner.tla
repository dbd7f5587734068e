---------------------------- MODULE BatchSigner ----------------------------
(***************************************************************************)
(* What a caller of the batch signing entry is promised, with no GPU in    *)
(* sight: one call, one answer.  A successful answer carries, for every    *)
(* item, the signature a sequential signer makes, which tries the nonces   *)
(* 0, 1, 2, ... and keeps the first one that is accepted.  A failed answer *)
(* promises nothing about the output buffer.                               *)
(***************************************************************************)
EXTENDS Naturals

CONSTANTS
  Items,    \* the items of the batch
  Nonces,   \* the values of the rejection-sampling nonce
  None      \* the content of an output slot nothing has been written to

VARIABLES
  accepts,  \* accepts[i]: the nonces at which the attempt of item i is accepted
  reply,    \* "none" until the call returns, then "ok" or "fail"
  out       \* out[i]: the nonce of the signature in the caller's buffer

vars == <<accepts, reply, out>>

\* The nonce at which the sequential signer stops.
FirstAccepted(i) ==
  CHOOSE n \in accepts[i] : \A m \in accepts[i] : n <= m

Init ==
  /\ accepts \in [Items -> SUBSET Nonces \ {{}}]
  /\ reply = "none"
  /\ out = [i \in Items |-> None]

\* The transfer of the result may reach the caller's buffer before the
\* answer does.
Deliver ==
  /\ reply = "none"
  /\ out' = [i \in Items |-> FirstAccepted(i)]
  /\ UNCHANGED <<accepts, reply>>

Succeed ==
  /\ reply = "none"
  /\ out = [i \in Items |-> FirstAccepted(i)]
  /\ reply' = "ok"
  /\ UNCHANGED <<accepts, out>>

Fail ==
  /\ reply = "none"
  /\ reply' = "fail"
  /\ UNCHANGED <<accepts, out>>

Next == Deliver \/ Succeed \/ Fail

Spec == Init /\ [][Next]_vars
=============================================================================
