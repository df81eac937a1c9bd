-------------------------- MODULE DeploymentRecords --------------------------
(***************************************************************************)
(* The status algebra of a deployment record (src/deployments/records.ts): *)
(* the statuses, the table of allowed transitions, and what a patch does   *)
(* to a stored record.  Both stores and every caller go through these      *)
(* definitions.                                                            *)
(***************************************************************************)
EXTENDS Naturals

(* "absent" is the lookup that answers undefined: the record has not been  *)
(* written yet.                                                            *)
Terminal == {"succeeded", "failed", "canceled"}

DeploymentRecordStatus ==
  {"previewed", "submitting", "running", "superseded"} \cup Terminal

StoredStatus == DeploymentRecordStatus \cup {"absent"}

(* ALLOWED_STATUS_TRANSITIONS, as the set of statuses one may move to.     *)
AllowedFrom(status) ==
  CASE status = "previewed"  -> {"submitting", "superseded"}
    [] status = "submitting" -> {"running"} \cup Terminal
    [] status = "running"    -> Terminal
    [] OTHER                 -> {}

(* Deviation: ARM's words are taken over as they are.                      *)
provisioningStateAsIs(provisioningState) == provisioningState

(* deploymentStatus: ARM's provisioning state as a record status.  Every   *)
(* state ARM does not call final is "running".                             *)
deploymentStatus(provisioningState) ==
  IF provisioningState \in Terminal THEN provisioningState ELSE "running"

(* Deviation: expectedStatuses and the table are both forgotten, so that a *)
(* stale writer replaces whatever status it finds.                         *)
PatchAppliesToAnything(existing, status, expectedStatuses) ==
  /\ existing # "absent"
  /\ status # existing

(* applyDeploymentRecordPatch for a patch that carries a status: it is     *)
(* applied only to a record in an expected status, that it really changes, *)
(* along the table.  A patch that is not applied leaves the record alone.  *)
PatchApplies(existing, status, expectedStatuses) ==
  /\ existing \in expectedStatuses
  /\ status # existing
  /\ status \in AllowedFrom(existing)

Patched(existing, status, expectedStatuses) ==
  IF PatchApplies(existing, status, expectedStatuses) THEN status ELSE existing

(* A patch without a status is a "note": it applies in an expected status. *)
Changes(existing, patch) ==
  IF patch.status = "note" THEN existing \in patch.expected
  ELSE PatchApplies(existing, patch.status, patch.expected)

After(existing, patch) ==
  IF patch.status = "note" THEN existing ELSE patch.status

(* The patches that the deployment service asks of a store, each a status  *)
(* with the statuses that it expects, or a note, which changes the error   *)
(* and leaves the status alone.  Start claims a record;                    *)
ClaimPatches == {[status |-> "submitting", expected |-> {"previewed"}]}

(* recordSubmissionFailure calls it failed, or notes the uncertainty;      *)
FailurePatches == [status : {"failed", "note"}, expected : {{"submitting"}}]

(* and reconcile writes what ARM says over the status that it has read.    *)
ReconcilePatches ==
  {p \in [status : {"running"} \cup Terminal, expected : {{"submitting"}, {"running"}}] :
     p.status \notin p.expected}

DeploymentPatches == ClaimPatches \cup FailurePatches \cup ReconcilePatches
=============================================================================
