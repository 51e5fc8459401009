-------------------------- MODULE FactoryTimelock --------------------------
(***************************************************************************)
(* FactoryTimelock, a TimelockController with the roles that               *)
(* LocalDeployFundiMock grants: the governor proposes, anyone executes,    *)
(* nobody cancels, and the roles are the timelock's own to grant.  An      *)
(* operation is one batch of calls, named by the proposal it comes from    *)
(* (their hashes are over the same targets, values, calls and description).*)
(***************************************************************************)
EXTENDS Chain

CONSTANTS
    Proposals,           \* the batches that may be proposed
    Calls,               \* what calls each of them makes
    InitialDelay, NewDelay,  \* of the deployment, and of updateDelay
    Guardian             \* who gets the canceller role, if governance grants it

\* Calls to the timelock itself, to the governor, and to other contracts.
ToTimelock == {"updateDelay", "grantCanceller"}
ToGovernor == {"setQuorum", "setSettings"}
ToOthers == {"succeeds", "reverts"}

ASSUME TimelockAssumption ==
    /\ Calls \in [Proposals -> SUBSET (ToTimelock \cup ToGovernor \cup ToOthers)]
    /\ {InitialDelay, NewDelay} \subseteq Nat

VARIABLES
    timestamps,  \* of an operation: 0 unset, DoneTimestamp, or when it is ready
    minDelay,
    cancellers   \* the accounts with CANCELLER_ROLE
timelockVars == <<timestamps, minDelay, cancellers>>

DoneTimestamp == 1

TimelockInit ==
    /\ timestamps = [id \in Proposals |-> 0]
    /\ minDelay = InitialDelay
    /\ cancellers = {}

IsOperation(id) == timestamps[id] > 0
IsOperationPending(id) == timestamps[id] > DoneTimestamp
IsOperationReady(id) == IsOperationPending(id) /\ timestamps[id] <= timestamp
IsOperationDone(id) == timestamps[id] = DoneTimestamp

Schedule(id, delay) ==
    /\ ~IsOperation(id)
    /\ delay >= minDelay
    /\ timestamps' = [timestamps EXCEPT ![id] = timestamp + delay]
    /\ UNCHANGED <<minDelay, cancellers>>

CancelOperation(caller, id) ==
    /\ caller \in cancellers
    /\ IsOperationPending(id)
    /\ timestamps' = [timestamps EXCEPT ![id] = 0]
    /\ UNCHANGED <<minDelay, cancellers>>

\* Mutant: runs a batch as soon as it is scheduled.
ExecuteBatchEarly(id) ==
    /\ IsOperationPending(id)
    /\ "reverts" \notin Calls[id]
    /\ minDelay' = IF "updateDelay" \in Calls[id] THEN NewDelay ELSE minDelay
    /\ cancellers' = IF "grantCanceller" \in Calls[id] THEN cancellers \cup {Guardian}
                     ELSE cancellers
    /\ timestamps' = [timestamps EXCEPT ![id] = DoneTimestamp]

\* Every call of the batch succeeds, or the whole batch reverts.
ExecuteBatch(id) ==
    /\ IsOperationReady(id)
    /\ "reverts" \notin Calls[id]
    /\ minDelay' = IF "updateDelay" \in Calls[id] THEN NewDelay ELSE minDelay
    /\ cancellers' = IF "grantCanceller" \in Calls[id] THEN cancellers \cup {Guardian}
                     ELSE cancellers
    /\ timestamps' = [timestamps EXCEPT ![id] = DoneTimestamp]
=============================================================================
