---------------------------- MODULE MCSignTuner ----------------------------
(***************************************************************************)
(* One stage before the rejection loop, launched twice, with three         *)
(* variants, and two in the loop.                                          *)
(***************************************************************************)
EXTENDS SignTuner, TLC

MCVariantCount == (0 :> 3) @@ (1 :> 2) @@ (2 :> 1)
MCOrder == <<0, 0, 1, 2>>
MCInitially == (0 :> 2) @@ (1 :> 1) @@ (2 :> 0)
=============================================================================
