--------------------------- MODULE MCKyberLaunch ---------------------------
(***************************************************************************)
(* Two kernels: the first supports all but the largest block size, which   *)
(* the tuner must skip, the second only half of that.                      *)
(***************************************************************************)
EXTENDS KyberLaunch, TLC

MCMaximum == (0 :> 4) @@ (1 :> 2)
MCDefault == (0 :> 1) @@ (1 :> 2)
=============================================================================
