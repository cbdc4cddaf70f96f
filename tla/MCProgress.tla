----------------------------- MODULE MCProgress -----------------------------
(***************************************************************************)
(* Orderly deployments for TLC: the later release over the older one, on a *)
(* fresh database or where the older one was deployed.                     *)
(***************************************************************************)
EXTENDS MCDeployments

OldDeployed == [r \in DOMAIN OldRelease |-> Ok(OldRelease[r])]
DeployedHistories == {Empty, OldDeployed}

ASSUME DeploymentsAreOrderly == Orderly

=============================================================================
