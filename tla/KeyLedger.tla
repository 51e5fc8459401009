------------------------------ MODULE KeyLedger ------------------------------
(***************************************************************************)
(* What the protocol promises about keys, whatever it does to keep the     *)
(* promise: keys are issued one after the other and never withdrawn; a key *)
(* is for ever the key of one factory, or of one asset of one factory; a   *)
(* factory has one key of its own, issued before the keys of its assets;   *)
(* and a locked key stays with its first holder.                           *)
(***************************************************************************)
EXTENDS Naturals, Sequences

CONSTANTS
    Holders,   \* who may hold a key
    Factories  \* the factories keys are issued for

VARIABLE
    keys  \* the keys issued, in the order of their ids

Kinds == {"factory", "asset"}

HasKey(f) ==
    \E i \in DOMAIN keys : keys[i].kind = "factory" /\ keys[i].of = f

KeyLedgerInit == keys = << >>

\* A factory's first key is its own; only then it can have keys for assets.
Issue(to, kind, f, locked) ==
    /\ HasKey(f) <=> kind = "asset"
    /\ keys' = Append(keys, [holder |-> to, kind |-> kind, of |-> f,
                             locked |-> locked])

Move(i, to) ==
    /\ ~keys[i].locked
    /\ keys' = [keys EXCEPT ![i].holder = to]

KeyLedgerNext ==
    \/ \E to \in Holders, kind \in Kinds, f \in Factories,
          locked \in BOOLEAN : Issue(to, kind, f, locked)
    \/ \E i \in DOMAIN keys, to \in Holders : Move(i, to)

KeyLedgerSpec == KeyLedgerInit /\ [][KeyLedgerNext]_keys
=============================================================================
