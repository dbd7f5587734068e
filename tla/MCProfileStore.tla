-------------------------- MODULE MCProfileStore ---------------------------
(***************************************************************************)
(* Profiles with two settings, of Dilithium (a variant is one digit) and   *)
(* of Kyber (a block size has up to four digits, here two).                *)
(***************************************************************************)
EXTENDS ProfileStore

MCDigits == {"0", "1", "2"}
MCCount == <<"2">>
MCBatches == {<<"1">>, <<"2">>, <<"1", "0">>, <<"1", "2">>, <<"1", "0", "2", "1">>}
MCMaximum == <<"1", "0", "2", "1">>

\* Settings are variants.
MCVariants == {<<"0">>, <<"1">>}
MCVariantProfiles ==
  {[batch |-> <<"1", "0", "2", "1">>, values |-> <<<<"1">>, <<"0">>>>],
   [batch |-> <<"1", "2">>, values |-> <<<<"0">>, <<"0">>>>],
   [batch |-> <<"1">>, values |-> <<<<"1">>, <<"1">>>>]}
MCForeignVariants ==
  {[batch |-> <<"1">>, values |-> <<<<"0">>, <<"2">>>>]}

\* Settings are block sizes.
MCBlocks == {<<"1">>, <<"2">>, <<"1", "0">>, <<"1", "2">>}
MCBlockProfiles ==
  {[batch |-> <<"1", "2">>, values |-> <<<<"1", "0">>, <<"1", "2">>>>],
   [batch |-> <<"1", "0">>, values |-> <<<<"1", "0">>, <<"1">>>>],
   [batch |-> <<"1">>, values |-> <<<<"1", "2">>, <<"2">>>>]}
MCForeignBlocks ==
  {[batch |-> <<"2">>, values |-> <<<<"1", "0">>, <<"2", "2">>>>],
   [batch |-> <<"2">>, values |-> <<<<"1", "0">>, <<"1", "0">>>>]}
=============================================================================
