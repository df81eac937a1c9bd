-------------------------- MODULE DeploymentPromise --------------------------
(***************************************************************************)
(* What the deployment service promises about each record and the ARM      *)
(* deployment of its name, with workers, watchers, leases, messages and    *)
(* failures left out.  DeploymentLifecycle implements it.                  *)
(*                                                                         *)
(* Nothing starts in ARM before the record durably says submitting.  From  *)
(* then on the record only ever repeats what ARM has said of that name, or *)
(* says failed after ARM has refused it.                                   *)
(***************************************************************************)
EXTENDS DeploymentRecords

CONSTANTS
  Records,
  MayReject  (* whether failed may be recorded of a deployment that ARM    *)
             (* has accepted, or goes on to accept, after all              *)

VARIABLES status, arm

promised == <<status, arm>>

PromiseInit ==
  /\ status = [r \in Records |-> "absent"]
  /\ arm = [r \in Records |-> "none"]

Admit(r) ==
  /\ status[r] = "absent"
  /\ status' = [status EXCEPT ![r] = "previewed"]
  /\ UNCHANGED arm

Approve(r) ==
  /\ status[r] = "previewed"
  /\ status' = [status EXCEPT ![r] = "submitting"]
  /\ UNCHANGED arm

(* ARM starts the deployment of a record that is past its claim.  Only     *)
(* with MayReject may the record have been given up by then.               *)
Start(r) ==
  /\ arm[r] = "none"
  /\ status[r] \in {"submitting", "failed"}
  /\ status[r] = "failed" => MayReject
  /\ arm' = [arm EXCEPT ![r] = "active"]
  /\ UNCHANGED status

Finish(r) ==
  /\ arm[r] = "active"
  /\ \E outcome \in Terminal : arm' = [arm EXCEPT ![r] = outcome]
  /\ UNCHANGED status

(* The record learns what ARM has, or had: a final state only if it is the *)
(* state ARM is in for good, running only of a deployment ARM has started. *)
Learn(r) ==
  /\ arm[r] # "none"
  /\ \/ /\ status[r] = "submitting"
        /\ status' = [status EXCEPT ![r] = "running"]
     \/ /\ status[r] \in {"submitting", "running"}
        /\ arm[r] \in Terminal
        /\ status' = [status EXCEPT ![r] = arm[r]]
  /\ UNCHANGED arm

Reject(r) ==
  /\ status[r] = "submitting"
  /\ arm[r] = "none" \/ MayReject
  /\ status' = [status EXCEPT ![r] = "failed"]
  /\ UNCHANGED arm

PromiseNext ==
  \E r \in Records :
    Admit(r) \/ Approve(r) \/ Start(r) \/ Finish(r) \/ Learn(r) \/ Reject(r)

PromiseSpec == PromiseInit /\ [][PromiseNext]_promised
=============================================================================
