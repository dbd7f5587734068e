-------------------------------- MODULE Xof ---------------------------------
(***************************************************************************)
(* What a caller of the hash functions is promised: the message is taken   *)
(* piece by piece or at once, and the output delivered in any portions.    *)
(***************************************************************************)
EXTENDS XofReference, SequencesExt

VARIABLES
  rate,      \* the bytes of a block
  suffix,    \* the symbol of the suffix
  message,   \* the number of bytes of the message
  open,      \* the message may still grow
  output     \* the bytes delivered

xofVars == <<rate, suffix, message, open, output>>

-----------------------------------------------------------------------------
XofInit == message = 0 /\ open = TRUE /\ output = << >>

\* The message gets longer, and may be complete.
Absorb ==
  /\ open
  /\ message' >= message
  /\ open' \in BOOLEAN
  /\ UNCHANGED <<rate, suffix, output>>

\* More of the output is delivered.
Squeeze ==
  /\ ~open
  /\ IsPrefix(output, output')
  /\ output' = XofBytes(rate, suffix, message, Len(output'))
  /\ UNCHANGED <<rate, suffix, message, open>>

\* Everything in one call.
Hash ==
  /\ open /\ message = 0
  /\ message' >= 0 /\ open' = FALSE
  /\ output' = XofBytes(rate, suffix, message', Len(output'))
  /\ UNCHANGED <<rate, suffix>>

XofNext == Absorb \/ Squeeze \/ Hash

XofSpec == XofInit /\ [][XofNext]_xofVars
=============================================================================
