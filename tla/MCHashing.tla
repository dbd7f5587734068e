----------------------------- MODULE MCHashing ------------------------------
(***************************************************************************)
(* A caller of one of the hash functions: either the permutation of one    *)
(* implementation runs, or the calls of the host and thread functions, or  *)
(* a warp.  Widths and rates are scaled down, but for the permutation.     *)
(***************************************************************************)
EXTENDS Keccak, Sponge, WarpSponge

ASSUME WarpAssumed == WarpAssumption

hashingVars == <<keccakVars, spongeVars, warpVars>>

MCZero(i) == {}
MCStarts ==
  {Lanes(MCZero)} \cup {[Lanes(MCZero) EXCEPT ![l] = {(7 * l) % 64}] : l \in {2, 13, 24}}

NoKeccak == impl = "none" /\ round = 24 /\ lanes = << >> /\ expected = << >>
NoSponge ==
  /\ rate = 0 /\ suffix = 0 /\ s = 0 /\ pos = 0
  /\ message = 0 /\ phase = "absorbing" /\ output = << >>
NoWarp ==
  /\ kind = "none" /\ in_len = 0 /\ out_len = 0 /\ out = 0 /\ program = << >>
  /\ pc = [t \in Threads |-> 1] /\ base = << >> /\ word = << >> /\ mem = << >> /\ tmp = << >>

Init ==
  \/ KeccakInit /\ NoSponge /\ NoWarp
  \/ NoKeccak /\ SpongeInit /\ NoWarp
  \/ NoKeccak /\ NoSponge /\ WarpInit

Next ==
  \/ KeccakNext /\ UNCHANGED <<spongeVars, warpVars>>
  \/ rate # 0 /\ SpongeNext /\ UNCHANGED <<keccakVars, warpVars>>
  \/ WarpNext /\ UNCHANGED <<keccakVars, spongeVars>>

Spec == Init /\ [][Next]_hashingVars
=============================================================================
