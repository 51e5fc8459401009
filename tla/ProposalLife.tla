---------------------------- MODULE ProposalLife ----------------------------
(***************************************************************************)
(* What governance promises about a proposal: it goes through its stages   *)
(* in one direction and skips none; it is executed at most once, after it  *)
(* succeeded and after the notice it was queued with.                      *)
(***************************************************************************)
EXTENDS Naturals

CONSTANTS
    Proposals,
    Notice  \* the shortest notice ever given

VARIABLES
    stage,  \* where a proposal is
    eta,    \* when a queued proposal may be executed; else 0
    now
lifeVars == <<stage, eta, now>>

Stages == {"Unknown", "Pending", "Active", "Defeated", "Succeeded", "Queued",
           "Executed", "Canceled"}

LifeInit ==
    /\ stage = [p \in Proposals |-> "Unknown"]
    /\ eta = [p \in Proposals |-> 0]
    /\ now \in Nat

Move(p, from, to) == stage[p] = from /\ stage'[p] = to

\* Proposals are at their stage until a vote begins or ends.
Advance(p) ==
    /\ \/ stage'[p] = stage[p]
       \/ Move(p, "Unknown", "Pending")
       \/ Move(p, "Pending", "Active")
       \/ Move(p, "Active", "Defeated")
       \/ Move(p, "Active", "Succeeded")
    /\ eta'[p] = eta[p]

Queue(p) ==
    /\ Move(p, "Succeeded", "Queued")
    /\ eta'[p] >= now + Notice

Execute(p) ==
    /\ Move(p, "Queued", "Executed")
    /\ now >= eta[p]
    /\ eta'[p] = 0

Cancel(p) ==
    /\ Move(p, "Queued", "Canceled")
    /\ eta'[p] = 0

\* Several votes may begin and end with one block.
LifeNext ==
    /\ now' >= now
    /\ \A p \in Proposals : Advance(p) \/ Queue(p) \/ Execute(p) \/ Cancel(p)

LifeSpec == LifeInit /\ [][LifeNext]_lifeVars
=============================================================================
