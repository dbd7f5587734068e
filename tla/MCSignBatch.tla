---------------------------- MODULE MCSignBatch ----------------------------
(***************************************************************************)
(* SignBatch for TLC.  Three items in two slots take both paths: the       *)
(* direct path while two items are unsigned, then the predict path for the *)
(* last one.  Three nonces make the uint16_t counter wrap.                 *)
(***************************************************************************)
EXTENDS SignBatchInv
=============================================================================
