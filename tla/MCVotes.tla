------------------------------ MODULE MCVotes ------------------------------
(***************************************************************************)
(* The voting token for TLC, with two holders, so that one of them can be  *)
(* the delegate of both.  A behaviour is of the token by itself, or of a   *)
(* vote in which token and governor work together, where nobody uses a     *)
(* signature (which does what a delegation does).                          *)
(***************************************************************************)
EXTENDS MCGovernor

VARIABLE component

MCSignatures ==
    [signer : {ann}, delegatee : {ben}, nonce : {0, 1}, expiry : {FirstTime + 1}]

MCInit == component \in {"token", "vote"} /\ Init

MCNext ==
    /\ UNCHANGED component
    /\ \/ component = "token" /\ TokenNext /\ UNCHANGED <<timelockVars, governorVars>>
       \/ component = "vote" /\ Next /\ UNCHANGED nonces

MCSpec == MCInit /\ [][MCNext]_<<component, vars>>
=============================================================================
