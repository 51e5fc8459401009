----------------------------- MODULE MCGovernor -----------------------------
(***************************************************************************)
(* Token, timelock and governor together for TLC.  Blocks are few, so the  *)
(* periods are short: a vote begins one block after the proposal and is    *)
(* open for VotingPeriod blocks.                                           *)
(***************************************************************************)
EXTENDS FactoryGovernor, TLC

CONSTANTS ann, ben,  \* holders
          p, q       \* proposals

MCSettings == [votingDelay |-> 1, votingPeriod |-> 1, proposalThreshold |-> 1]
MCQuickSettings == [votingDelay |-> 0, votingPeriod |-> 1, proposalThreshold |-> 0]
MCNewSettings == [votingDelay |-> 0, votingPeriod |-> 2, proposalThreshold |-> 2]

\* One proposal about everything that governs itself, one about nothing of it;
\* and one whose calls revert.
MCReforms ==
    p :> {"setQuorum", "setSettings", "updateDelay", "grantCanceller"} @@ q :> {"succeeds"}
MCFailing == q :> {"succeeds", "reverts"}
=============================================================================
