---------------------------- MODULE MCOwnership ----------------------------
(***************************************************************************)
(* The two kinds of contract that ask a registry who their owner is, for   *)
(* TLC: a protocol, and the asset contracts.  They do not interact, so a   *)
(* behaviour is of one or of the other.                                    *)
(***************************************************************************)
EXTENDS FundiProtocolOwnership, AssetVault

CONSTANTS alice, wallet,             \* accounts; wallet has code
          registry, other, impostor, \* who may be named validator
          first                      \* a factory

\* A registry with the id that means none, and another one.
MCKeys == {<<registry, 0>>, <<registry, 1>>, <<other, 1>>}

VARIABLE component

MCInit ==
    /\ component \in {"protocol", "vault"}
    /\ OwnInit
    /\ VaultInit

MCNext ==
    /\ UNCHANGED component
    /\ \/ component = "protocol" /\ OwnNext /\ UNCHANGED vaultVars
       \/ component = "vault" /\ VaultNext /\ UNCHANGED ownVars

MCSpec == MCInit /\ [][MCNext]_<<component, ownVars, vaultVars>>
=============================================================================
