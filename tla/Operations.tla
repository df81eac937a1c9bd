----------------------------- MODULE Operations -----------------------------
(***************************************************************************)
(* The guarded mutations of one resource (src/services/operations.ts) and  *)
(* the requests they make of Azure (src/provider/azure/index.ts): who is   *)
(* admitted, the deadline that no caller can shorten, and the audit entry  *)
(* that says what became of it.                                            *)
(***************************************************************************)
EXTENDS Naturals, Sequences

CONSTANT Operations   (* calls that may be in flight at once               *)

(* restartWebApp is one request; the other three are operations that Azure *)
(* runs on and that are polled until they are done; tags are read back.    *)
Actions == {"restart_virtual_machine", "start_virtual_machine", "restart_web_app", "tag_resource"}
LongRunning == Actions \ {"restart_web_app"}

VARIABLES
  operation,     (* each call: where it is, its action, whether a dry run  *)
  effect,        (* what Azure has of it                                   *)
  overdue,       (* calls whose mutation deadline has passed               *)
  disconnected,  (* calls whose caller has gone                            *)
  audits         (* the outcomes audited for each call                     *)

operationVars == <<operation, effect, overdue, disconnected, audits>>

NoOperation == [at |-> "idle"]
Outcome == {"planned", "completed", "indeterminate"}
Effect  == {"none", "sent", "running", "done", "refused"}

At(o, place) == operation' = [operation EXCEPT ![o] = [@ EXCEPT !.at = place]]
Audit(o, outcome) == audits' = [audits EXCEPT ![o] = Append(@, outcome)]

-----------------------------------------------------------------------------
(* Admission: the resource is in the policy's scope and exists with the    *)
(* type the action expects, the mutation gate takes the call for a plan or *)
(* a confirmed mutation, and tags are not empty.  Anything else, and a     *)
(* caller who has gone, ends the call before it has had an effect.         *)
prepare(o) ==
  /\ operation[o] = NoOperation
  /\ \E action \in Actions, dryRun \in BOOLEAN :
       operation' = [operation EXCEPT ![o] =
         [at |-> "prepare", action |-> action, dryRun |-> dryRun]]
  /\ UNCHANGED <<effect, overdue, disconnected, audits>>

Refused(o) ==
  /\ operation[o].at = "prepare"
  /\ At(o, "returned")
  /\ UNCHANGED <<effect, overdue, disconnected, audits>>

Disconnect(o) ==
  /\ operation[o].at \notin {"idle", "returned"}
  /\ disconnected' = disconnected \cup {o}
  /\ UNCHANGED <<operation, effect, overdue, audits>>

(* A dry run is audited as a plan and nothing is sent.  tagResource looks  *)
(* at its caller's signal before that, run does not.                       *)
Plan(o) ==
  /\ operation[o].at = "prepare"
  /\ operation[o].dryRun
  /\ operation[o].action = "tag_resource" => o \notin disconnected
  /\ Audit(o, "planned")
  /\ At(o, "returned")
  /\ UNCHANGED <<effect, overdue, disconnected>>

(* Past the last look at the caller's signal the request goes out, under   *)
(* the deadline's signal alone.                                            *)
Execute(o) ==
  /\ operation[o].at = "prepare"
  /\ ~operation[o].dryRun
  /\ o \notin disconnected
  /\ effect' = [effect EXCEPT ![o] = "sent"]
  /\ At(o, "execute")
  /\ UNCHANGED <<overdue, disconnected, audits>>

(* mutationTimeoutMs passes and aborts the deadline's signal.              *)
Deadline(o) ==
  /\ operation[o].at \in {"execute", "readback"}
  /\ o \notin overdue
  /\ overdue' = overdue \cup {o}
  /\ UNCHANGED <<operation, effect, disconnected, audits>>

(* Deviation: the call is over once Azure has accepted the operation.      *)
CompleteEarly(o) ==
  /\ operation[o].at = "execute"
  /\ effect[o] \in {"running", "done"}
  /\ At(o, IF operation[o].action = "tag_resource" THEN "readback" ELSE "completed")
  /\ UNCHANGED <<effect, overdue, disconnected, audits>>

(* pollUntilDone resolves; tags are then read back.  That may still happen *)
(* after the deadline, whose signal is only an advice to the SDK.          *)
Complete(o) ==
  /\ operation[o].at = "execute"
  /\ effect[o] = "done"
  /\ At(o, IF operation[o].action = "tag_resource" THEN "readback" ELSE "completed")
  /\ UNCHANGED <<effect, overdue, disconnected, audits>>

ReadBack(o) ==
  /\ operation[o].at = "readback"
  /\ At(o, "completed")
  /\ UNCHANGED <<effect, overdue, disconnected, audits>>

(* Deviation: a caller who has gone takes the call with him.               *)
ExecuteFailsOrEnds(o) ==
  /\ operation[o].at \in {"execute", "readback"}
  /\ IF o \in disconnected THEN UNCHANGED audits ELSE Audit(o, "indeterminate")
  /\ At(o, "returned")
  /\ UNCHANGED <<effect, overdue, disconnected>>

(* withMutationDeadline rejects: Azure refused or failed, the connection   *)
(* broke, the deadline passed, or reading the tags back failed after they  *)
(* were set.  Whatever it was, the outcome is audited as indeterminate.    *)
ExecuteFails(o) ==
  /\ operation[o].at \in {"execute", "readback"}
  /\ Audit(o, "indeterminate")
  /\ At(o, "returned")
  /\ UNCHANGED <<effect, overdue, disconnected>>

AuditCompleted(o) ==
  /\ operation[o].at = "completed"
  /\ Audit(o, "completed")
  /\ At(o, "returned")
  /\ UNCHANGED <<effect, overdue, disconnected>>

(* The call is forgotten once Azure has nothing more to do for it.         *)
EndOperation(o) ==
  /\ operation[o].at = "returned"
  /\ effect[o] \in {"none", "done", "refused"}
  /\ operation' = [operation EXCEPT ![o] = NoOperation]
  /\ effect' = [effect EXCEPT ![o] = "none"]
  /\ overdue' = overdue \ {o}
  /\ disconnected' = disconnected \ {o}
  /\ audits' = [audits EXCEPT ![o] = <<>>]

(* Azure, on its own time and whoever still waits: a request arrives and   *)
(* is refused, carried out, or begun and carried out later.                *)
AzureActs(o) ==
  /\ \/ effect[o] = "sent" /\ operation[o].action \in LongRunning
        /\ effect' = [effect EXCEPT ![o] = "running"]
     \/ effect[o] = "sent" /\ operation[o].action \notin LongRunning
        /\ effect' = [effect EXCEPT ![o] = "done"]
     \/ effect[o] = "running" /\ effect' = [effect EXCEPT ![o] = "done"]
     \/ effect[o] \in {"sent", "running"} /\ effect' = [effect EXCEPT ![o] = "refused"]
  /\ UNCHANGED <<operation, overdue, disconnected, audits>>

-----------------------------------------------------------------------------
OperationsInit ==
  /\ operation = [o \in Operations |-> NoOperation]
  /\ effect = [o \in Operations |-> "none"]
  /\ overdue = {}
  /\ disconnected = {}
  /\ audits = [o \in Operations |-> <<>>]

(* What an admitted call does next.                                        *)
OperationStep(o) ==
  \/ Complete(o) \/ ReadBack(o) \/ AuditCompleted(o)
  \/ ExecuteFails(o)

OperationsNext ==
  \E o \in Operations :
    \/ prepare(o) \/ Refused(o) \/ Plan(o) \/ Execute(o)
    \/ Disconnect(o) \/ Deadline(o) \/ OperationStep(o) \/ EndOperation(o)
    \/ AzureActs(o)

OperationsSpec == OperationsInit /\ [][OperationsNext]_operationVars

(* The deadline's timer fires, the SDK settles once its signal is aborted, *)
(* and nothing holds up the audit of a call that has completed.            *)
OperationsFairness ==
  \A o \in Operations :
    /\ WF_operationVars(Deadline(o))
    /\ WF_operationVars(o \in overdue /\ OperationStep(o))
    /\ WF_operationVars(AuditCompleted(o))

-----------------------------------------------------------------------------
OperationsTypeOK ==
  /\ \A o \in Operations :
       /\ operation[o].at \in {"idle", "prepare", "execute", "readback", "completed", "returned"}
       /\ operation[o].at # "idle" =>
            operation[o].action \in Actions /\ operation[o].dryRun \in BOOLEAN
  /\ effect \in [Operations -> Effect]
  /\ overdue \subseteq Operations
  /\ disconnected \subseteq Operations
  /\ audits \in [Operations -> Seq(Outcome)]

(* The audit of a mutation tells the truth, once: "completed" only of what *)
(* Azure has done, "planned" only of what was never sent, and every call   *)
(* that sent something has exactly one entry when it returns, whatever the *)
(* deadline, the caller and Azure did in which order (run, tagResource).   *)
OneTruthfulAudit ==
  \A o \in Operations :
    /\ Len(audits[o]) <= 1
    /\ audits[o] = <<"completed">> => effect[o] = "done"
    /\ audits[o] = <<"planned">> => effect[o] = "none"
    /\ operation[o].at = "returned" /\ effect[o] # "none" => Len(audits[o]) = 1

(* An admitted mutation is audited in the end, also when its caller has    *)
(* gone or Azure never answers.                                            *)
AdmittedIsAudited ==
  \A o \in Operations : operation[o].at = "execute" ~> audits[o] # <<>>
=============================================================================
