------------------------- MODULE DeploymentLifecycle -------------------------
(***************************************************************************)
(* One deployment from its what-if preview to its final status, as         *)
(* DeploymentService (src/services/deployments.ts) drives it against the   *)
(* record store, the per-scope lease and Azure Resource Manager (ARM).     *)
(*                                                                         *)
(* A worker is one call of azure_deploy_bicep (or of a confirmed           *)
(* azure_rollback_bicep: both end in start()).  A watcher is one call of   *)
(* azure_get_deployment.  Each step of theirs is the code between two      *)
(* awaits.  Workers run on any replica; a call that dies with its replica  *)
(* leaves its lease entity behind, owned by nobody alive (Orphan).         *)
(***************************************************************************)
EXTENDS DeploymentRecords

CONSTANTS
  Records,   (* what-if previews: each has one record and one ARM name     *)
  Scopes,    (* the scopes deployed to                                     *)
  ScopeOf,   (* the scope of each record                                   *)
  Workers,   (* calls of start() that may be in flight at once             *)
  Watchers,  (* calls of getDeployment() that may be in flight at once     *)
  Nobody,    (* owner of a lease entity that does not exist                *)
  Orphan,    (* owner of a lease entity whose call has ended without it    *)
  NoRecord,  (* the job of an idle worker or watcher                       *)
  Stalls     (* whether a call may outrun the lease it holds: a process    *)
             (* that is paused, or table requests slow enough, delay what  *)
             (* the call does after its last renewal past the expiry       *)

ASSUME LifecycleAssumption ==
  /\ ScopeOf \in [Records -> Scopes]
  /\ Nobody \notin Workers
  /\ Orphan \notin Workers
  /\ Nobody # Orphan
  /\ NoRecord \notin Records
  /\ Stalls \in BOOLEAN

VARIABLES
  status,     (* status of each stored record                              *)
  uncertain,  (* records whose stored error is submission_uncertain        *)
  expired,    (* records whose expiresAt has passed                        *)
  completed,  (* deployments_completed_total, per record                   *)
  arm,        (* what ARM has under the record's deployment name           *)
  stray,      (* records with a PUT still on its way that no call awaits   *)
  owner,      (* owner of each scope's lease entity                        *)
  lapsed,     (* scopes whose lease entity is past its expiresAt           *)
  pc,         (* where each worker is in start()                           *)
  job,        (* the record each worker deploys                            *)
  resuming,   (* workers with resumingUncertainSubmission                  *)
  lost,       (* workers whose leaseSignal is aborted                      *)
  put,        (* what became of the worker's PUT                           *)
  seen,       (* the ARM state the worker was answered                     *)
  result,     (* what the call is about to return                          *)
  wpc,        (* where each watcher is in getDeployment()                  *)
  wjob,       (* the record each watcher asks for                          *)
  wbase,      (* the status in the watcher's copy of the record            *)
  wseen       (* the ARM state the watcher was answered                    *)

recordVars == <<status, uncertain, expired, completed>>
armVars    == <<arm, stray>>
leaseVars  == <<owner, lapsed>>
workerVars == <<pc, job, resuming, lost, put, seen, result>>
watchVars  == <<wpc, wjob, wbase, wseen>>
vars == <<recordVars, armVars, leaseVars, workerVars, watchVars>>

(* Places in the body that withScopeLock runs, and in start() as a whole.  *)
Body  == {"read", "claim", "probe", "put", "wait", "fail", "sync"}
Place == {"idle", "acquire", "release"} \cup Body

(* "active" stands for every provisioning state ARM does not call final.   *)
ArmState == {"none", "active"} \cup Terminal
Answer   == {"none", "running"} \cup Terminal
PutState == {"none", "pending", "accepted", "refused", "failed"}
Result   == {"none", "started", "already", "error"}

(* The scope whose lease the worker holds or wants.                        *)
scopeKey(w) == ScopeOf[job[w]]

(* The three ways a worker moves: on to the next await, out of the locked  *)
(* body with a result, back to idle.  The locals of the body go with it.   *)
Goto(w, place) == pc' = [pc EXCEPT ![w] = place]

DropLocals(w) ==
  /\ resuming' = resuming \ {w}
  /\ lost' = lost \ {w}
  /\ put' = [put EXCEPT ![w] = "none"]
  /\ seen' = [seen EXCEPT ![w] = "none"]

Leave(w, outcome) ==
  /\ Goto(w, "release")
  /\ result' = [result EXCEPT ![w] = outcome]
  /\ DropLocals(w)
  /\ UNCHANGED job

Return(w) ==
  /\ Goto(w, "idle")
  /\ job' = [job EXCEPT ![w] = NoRecord]
  /\ result' = [result EXCEPT ![w] = "none"]
  /\ DropLocals(w)

-----------------------------------------------------------------------------
(* Previews.                                                               *)

(* whatIf stores the record of a new preview.                              *)
Preview(r) ==
  /\ status[r] = "absent"
  /\ status' = [status EXCEPT ![r] = "previewed"]
  /\ UNCHANGED <<uncertain, expired, completed, armVars, leaseVars, workerVars, watchVars>>

(* previewTtlMs passes.                                                    *)
PreviewExpires(r) ==
  /\ status[r] # "absent"
  /\ r \notin expired
  /\ expired' = expired \cup {r}
  /\ UNCHANGED <<status, uncertain, completed, armVars, leaseVars, workerVars, watchVars>>

(* What deploy and a confirmed rollback demand of the record before they   *)
(* call start: found, not expired, and in one of two statuses.             *)
Deployable(r) ==
  /\ r \notin expired
  /\ status[r] \in {"previewed", "submitting"}

(* deploy, up to its call of start.  A call refused here changes nothing.  *)
Deploy(w, r) ==
  /\ pc[w] = "idle"
  /\ Deployable(r)
  /\ Goto(w, "acquire")
  /\ job' = [job EXCEPT ![w] = r]
  /\ UNCHANGED <<resuming, lost, put, seen, result, recordVars, armVars, leaseVars, watchVars>>

-----------------------------------------------------------------------------
(* The lease of a scope, as withScopeLock takes, renews and releases it.   *)

(* Deviation: an expired entity is not reclaimed.                          *)
LeaseAbsent(s) == owner[s] = Nobody

(* There is no entity, or one that may be reclaimed.                       *)
LeaseFree(s) == owner[s] = Nobody \/ s \in lapsed

(* Deviation: a lease entity that exists is taken over without looking at  *)
(* its expiry.                                                             *)
AcquireAnyway(w) ==
  /\ pc[w] = "acquire"
  /\ owner' = [owner EXCEPT ![scopeKey(w)] = w]
  /\ lapsed' = lapsed \ {scopeKey(w)}
  /\ Goto(w, "read")
  /\ UNCHANGED <<job, resuming, lost, put, seen, result, recordVars, armVars, watchVars>>

(* The lease entity is created, or an expired one is deleted and recreated.*)
Acquire(w) ==
  /\ pc[w] = "acquire"
  /\ LeaseFree(scopeKey(w))
  /\ owner' = [owner EXCEPT ![scopeKey(w)] = w]
  /\ lapsed' = lapsed \ {scopeKey(w)}
  /\ Goto(w, "read")
  /\ UNCHANGED <<job, resuming, lost, put, seen, result, recordVars, armVars, watchVars>>

(* withScopeLock rejects before it runs the body: the queue is full, the   *)
(* caller has gone, the lease is held, or a table request fails.           *)
AcquireFails(w) ==
  /\ pc[w] = "acquire"
  /\ Return(w)
  /\ UNCHANGED <<recordVars, armVars, leaseVars, watchVars>>

(* A request to the table of locks that some call gave up has its effect,  *)
(* at once or later: an entity nobody knows he owns, or one that has       *)
(* expired or lost its call, is created, deleted or renewed (ScopeLease).  *)
LateLeaseRequest(s) ==
  /\ LeaseFree(s) \/ owner[s] = Orphan
  /\ \E o \in {Orphan, Nobody} : owner' = [owner EXCEPT ![s] = o]
  /\ lapsed' = lapsed \ {s}
  /\ UNCHANGED <<recordVars, armVars, workerVars, watchVars>>

(* A renewal extends the entity while the etag it carries is still the     *)
(* entity's, even when its expiry has just passed.                         *)
Renew(w) ==
  /\ pc[w] \in Body \cup {"release"}
  /\ owner[scopeKey(w)] = w
  /\ scopeKey(w) \in lapsed
  /\ lapsed' = lapsed \ {scopeKey(w)}
  /\ UNCHANGED <<owner, recordVars, armVars, workerVars, watchVars>>

(* A renewal that fails, for whatever reason, aborts leaseSignal.          *)
LoseLease(w) ==
  /\ pc[w] \in Body
  /\ w \notin lost
  /\ lost' = lost \cup {w}
  /\ UNCHANGED <<pc, job, resuming, put, seen, result, recordVars, armVars, leaseVars, watchVars>>

(* The entity's expiresAt passes: its call has left the body, or Stalls    *)
(* lets it be outrun.  ScopeLease derives from timers and timeouts when a  *)
(* call inside the body is not (its Punctual and Fits).                    *)
Lapse(s) ==
  /\ owner[s] # Nobody
  /\ s \notin lapsed
  /\ \A w \in Workers : owner[s] = w /\ pc[w] \in Body => Stalls
  /\ lapsed' = lapsed \cup {s}
  /\ UNCHANGED <<owner, recordVars, armVars, workerVars, watchVars>>

-----------------------------------------------------------------------------
(* The body of the lock in start().                                        *)

(* The record is read again under the lease.  A record somebody has        *)
(* started is reported, a submitting one is resumed, and a previewed one   *)
(* is claimed, past the last check of the caller's signal and the first    *)
(* of the lease.                                                           *)
Read(w) ==
  LET current == status[job[w]] IN
  /\ pc[w] = "read"
  /\ \/ /\ current \in {"running"} \cup Terminal
        /\ Leave(w, "already")
     \/ /\ current = "submitting"
        /\ Goto(w, "probe")
        /\ resuming' = resuming \cup {w}
        /\ UNCHANGED <<job, lost, put, seen, result>>
     \/ /\ current = "previewed"
        /\ w \notin lost
        /\ Goto(w, "claim")
        /\ UNCHANGED <<job, resuming, lost, put, seen, result>>
  /\ UNCHANGED <<recordVars, armVars, leaseVars, watchVars>>

(* Any await of the body may reject before it has had an effect: a store   *)
(* or ARM request fails, the caller cancels while it still may, the lease  *)
(* is found lost.  The rejection leaves the body.                          *)
StepFails(w) ==
  /\ pc[w] \in {"read", "claim", "probe", "fail", "sync"}
  /\ Leave(w, "error")
  /\ UNCHANGED <<recordVars, armVars, leaseVars, watchVars>>

(* Deviation: the worker submits first and records it later.               *)
ClaimUnrecorded(w) ==
  /\ pc[w] = "claim"
  /\ Goto(w, "put")
  /\ UNCHANGED <<job, resuming, lost, put, seen, result, recordVars, armVars, leaseVars, watchVars>>

(* The durable transition previewed -> submitting, conditional on the      *)
(* status.  Whoever finds it made already reports the record as started.   *)
Claim(w) ==
  /\ pc[w] = "claim"
  /\ status' = [status EXCEPT ![job[w]] = Patched(@, "submitting", {"previewed"})]
  /\ IF PatchApplies(status[job[w]], "submitting", {"previewed"})
     THEN Goto(w, "put") /\ UNCHANGED <<job, resuming, lost, put, seen, result>>
     ELSE Leave(w, "already")
  /\ UNCHANGED <<uncertain, expired, completed, armVars, leaseVars, watchVars>>

(* The same write, committed, but its answer is lost.  The call either     *)
(* fails, or the Table client sends the write again by itself, meets the   *)
(* changed etag, and the patch loop then finds the record submitting: a    *)
(* transition that was not applied.                                        *)
ClaimUnacked(w) ==
  /\ pc[w] = "claim"
  /\ PatchApplies(status[job[w]], "submitting", {"previewed"})
  /\ status' = [status EXCEPT ![job[w]] = "submitting"]
  /\ \E outcome \in {"error", "already"} : Leave(w, outcome)
  /\ UNCHANGED <<uncertain, expired, completed, armVars, leaseVars, watchVars>>

(* A resuming worker asks ARM for the deterministic deployment name.       *)
Probe(w) ==
  /\ pc[w] = "probe"
  /\ w \notin lost
  /\ IF arm[job[w]] = "none"
     THEN Goto(w, "put") /\ UNCHANGED <<seen, result>>
     ELSE /\ Goto(w, "sync")
          /\ seen' = [seen EXCEPT ![w] = deploymentStatus(arm[job[w]])]
          /\ result' = [result EXCEPT ![w] = "already"]
  /\ UNCHANGED <<job, resuming, lost, put, recordVars, armVars, leaseVars, watchVars>>

(* The lease is checked once more and the PUT sent.                        *)
SendPut(w) ==
  /\ pc[w] = "put"
  /\ IF w \in lost
     THEN Leave(w, "error")
     ELSE /\ Goto(w, "wait")
          /\ put' = [put EXCEPT ![w] = "pending"]
          /\ UNCHANGED <<job, resuming, lost, seen, result>>
  /\ UNCHANGED <<recordVars, armVars, leaseVars, watchVars>>

(* Deviation: a definitive rejection counts for a resumed submission too.  *)
PutReturnsTrusting(w) ==
  /\ pc[w] = "wait"
  /\ \/ /\ put[w] = "accepted"
        /\ Goto(w, "sync")
        /\ result' = [result EXCEPT ![w] = "started"]
        /\ UNCHANGED put
     \/ /\ put[w] \in {"refused", "failed"}
        /\ Goto(w, "fail")
        /\ put' = [put EXCEPT ![w] = IF w \in lost THEN "failed" ELSE @]
        /\ UNCHANGED result
  /\ UNCHANGED <<job, resuming, lost, seen, recordVars, armVars, leaseVars, watchVars>>

(* beginDeployment resolves, or rejects with an answer from ARM.  Only a   *)
(* definitive rejection of a first submission, with the lease held, may    *)
(* count as one: that is settled here, before recordSubmissionFailure.     *)
PutReturns(w) ==
  /\ pc[w] = "wait"
  /\ \/ /\ put[w] = "accepted"
        /\ Goto(w, "sync")
        /\ result' = [result EXCEPT ![w] = "started"]
        /\ UNCHANGED put
     \/ /\ put[w] \in {"refused", "failed"}
        /\ Goto(w, "fail")
        /\ put' = [put EXCEPT ![w] =
                     IF w \in resuming \cup lost THEN "failed" ELSE @]
        /\ UNCHANGED result
  /\ UNCHANGED <<job, resuming, lost, seen, recordVars, armVars, leaseVars, watchVars>>

(* Deviation: a PUT without an answer is taken for accepted.               *)
PutAbandonedAsAccepted(w) ==
  /\ pc[w] = "wait"
  /\ Goto(w, "sync")
  /\ stray' = IF put[w] = "pending" THEN stray \cup {job[w]} ELSE stray
  /\ put' = [put EXCEPT ![w] = "accepted"]
  /\ seen' = [seen EXCEPT ![w] = "running"]
  /\ UNCHANGED <<arm, job, resuming, lost, result, recordVars, leaseVars, watchVars>>

(* beginDeployment rejects without an answer: armRequestTimeoutMs passes,  *)
(* the lease is lost, or the answer is.  The request itself may still be   *)
(* under way.                                                              *)
PutAbandoned(w) ==
  /\ pc[w] = "wait"
  /\ Goto(w, "fail")
  /\ stray' = IF put[w] = "pending" THEN stray \cup {job[w]} ELSE stray
  /\ put' = [put EXCEPT ![w] = "failed"]
  /\ seen' = [seen EXCEPT ![w] = "none"]
  /\ UNCHANGED <<arm, job, resuming, lost, result, recordVars, leaseVars, watchVars>>

(* Deviation: every rejection is taken for a definitive one.               *)
RecordEveryFailure(w) ==
  /\ pc[w] = "fail"
  /\ status' = [status EXCEPT ![job[w]] = Patched(@, "failed", {"submitting"})]
  /\ uncertain' = uncertain \ {job[w]}
  /\ Leave(w, "error")
  /\ UNCHANGED <<expired, completed, armVars, leaseVars, watchVars>>

(* Deviation: the uncertain patch expects no status.                       *)
RecordUncertainAnyway(w) ==
  /\ pc[w] = "fail"
  /\ status' = [status EXCEPT ![job[w]] =
                  IF put[w] = "refused" THEN Patched(@, "failed", {"submitting"}) ELSE @]
  /\ uncertain' = IF put[w] = "refused" THEN uncertain \ {job[w]}
                                        ELSE uncertain \cup {job[w]}
  /\ Leave(w, "error")
  /\ UNCHANGED <<expired, completed, armVars, leaseVars, watchVars>>

(* recordSubmissionFailure: a definitive rejection ends the record; any    *)
(* other outcome is noted on it and leaves it submitting.  Both only while *)
(* it is submitting.                                                       *)
recordSubmissionFailure(w) ==
  LET r == job[w] IN
  /\ pc[w] = "fail"
  /\ IF put[w] = "refused"
     THEN /\ status' = [status EXCEPT ![r] = Patched(@, "failed", {"submitting"})]
          /\ uncertain' = IF status[r] = "submitting" THEN uncertain \ {r} ELSE uncertain
     ELSE /\ UNCHANGED status
          /\ uncertain' = IF status[r] = "submitting" THEN uncertain \cup {r} ELSE uncertain
  /\ Leave(w, "error")
  /\ UNCHANGED <<expired, completed, armVars, leaseVars, watchVars>>

(* Deviation: the completion is counted whether or not the patch applied.  *)
reconcileCountingAnyway(r, base, observed, acked) ==
  /\ status' = [status EXCEPT ![r] = Patched(@, observed, {base})]
  /\ uncertain' = IF PatchApplies(status[r], observed, {base}) THEN uncertain \ {r} ELSE uncertain
  /\ completed' = IF acked /\ observed \in Terminal
                  THEN [completed EXCEPT ![r] = @ + 1] ELSE completed
  /\ UNCHANGED expired

(* reconcile: the observed ARM status replaces the status the caller's     *)
(* copy of the record had, provided the record still has it.  The error of *)
(* the record becomes ARM's, and a final status is counted if the store    *)
(* acknowledged the write.                                                 *)
reconcile(r, base, observed, acked) ==
  LET applied == PatchApplies(status[r], observed, {base}) IN
  /\ status' = [status EXCEPT ![r] = Patched(@, observed, {base})]
  /\ uncertain' = IF applied THEN uncertain \ {r} ELSE uncertain
  /\ completed' = IF applied /\ acked /\ observed \in Terminal
                  THEN [completed EXCEPT ![r] = @ + 1] ELSE completed
  /\ UNCHANGED expired

(* The worker reconciles what ARM answered: its copy of the record is      *)
(* submitting, whether it claimed the record or resumed it.                *)
Sync(w) ==
  /\ pc[w] = "sync"
  /\ \E acked \in BOOLEAN :
       /\ reconcile(job[w], "submitting", seen[w], acked)
       /\ Leave(w, IF acked THEN result[w] ELSE "error")
  /\ UNCHANGED <<armVars, leaseVars, watchVars>>

(* The finally block of withScopeLock: the entity is deleted if it is      *)
(* still this call's own.  A failing deletion leaves it to expire.         *)
Release(w) ==
  /\ pc[w] = "release"
  /\ IF owner[scopeKey(w)] = w
     THEN \/ /\ owner' = [owner EXCEPT ![scopeKey(w)] = Nobody]
             /\ lapsed' = lapsed \ {scopeKey(w)}
          \/ /\ owner' = [owner EXCEPT ![scopeKey(w)] = Orphan]
             /\ UNCHANGED lapsed
     ELSE UNCHANGED leaseVars
  /\ Return(w)
  /\ UNCHANGED <<recordVars, armVars, watchVars>>

(* The replica of a call dies.                                             *)
Crash(w) ==
  /\ pc[w] # "idle"
  /\ owner' = [s \in Scopes |-> IF owner[s] = w THEN Orphan ELSE owner[s]]
  /\ stray' = IF put[w] = "pending" THEN stray \cup {job[w]} ELSE stray
  /\ Return(w)
  /\ UNCHANGED <<arm, lapsed, recordVars, watchVars>>

-----------------------------------------------------------------------------
(* Azure Resource Manager, as the code uses it.                            *)

(* A PUT arrives.  ARM accepts it (a new name starts a deployment; a name  *)
(* it has answers with the deployment there is), rejects it with one of    *)
(* the definitive statuses, or fails in any other way.                     *)
ArmReceives(w) ==
  LET r == job[w] IN
  /\ pc[w] = "wait"
  /\ put[w] = "pending"
  /\ \/ /\ arm' = [arm EXCEPT ![r] = IF @ = "none" THEN "active" ELSE @]
        /\ seen' = [seen EXCEPT ![w] = deploymentStatus(arm'[r])]
        /\ put' = [put EXCEPT ![w] = "accepted"]
     \/ /\ \E answer \in {"refused", "failed"} : put' = [put EXCEPT ![w] = answer]
        /\ UNCHANGED <<arm, seen>>
  /\ UNCHANGED <<stray, pc, job, resuming, lost, result, recordVars, leaseVars, watchVars>>

(* A PUT nobody awaits any more arrives, or is dropped on the way.         *)
ArmReceivesStray(r) ==
  /\ r \in stray
  /\ stray' = stray \ {r}
  /\ \E accepted \in BOOLEAN :
       arm' = [arm EXCEPT ![r] = IF accepted /\ @ = "none" THEN "active" ELSE @]
  /\ UNCHANGED <<recordVars, leaseVars, workerVars, watchVars>>

ArmFinishes(r) ==
  /\ arm[r] = "active"
  /\ \E outcome \in Terminal : arm' = [arm EXCEPT ![r] = outcome]
  /\ UNCHANGED <<stray, recordVars, leaseVars, workerVars, watchVars>>

-----------------------------------------------------------------------------
(* Status calls: getDeployment, which takes no lease.                      *)

(* Deviation: a submitting record has no status yet.                       *)
WatchSubmitted(v, r) ==
  /\ wpc[v] = "idle"
  /\ status[r] \notin {"absent", "previewed", "superseded", "submitting"}
  /\ wpc' = [wpc EXCEPT ![v] = "ask"]
  /\ wjob' = [wjob EXCEPT ![v] = r]
  /\ wbase' = [wbase EXCEPT ![v] = status[r]]
  /\ UNCHANGED <<wseen, recordVars, armVars, leaseVars, workerVars>>

(* resolveTarget reads a record that has an ARM name.                      *)
Watch(v, r) ==
  /\ wpc[v] = "idle"
  /\ status[r] \notin {"absent", "previewed", "superseded"}
  /\ wpc' = [wpc EXCEPT ![v] = "ask"]
  /\ wjob' = [wjob EXCEPT ![v] = r]
  /\ wbase' = [wbase EXCEPT ![v] = status[r]]
  /\ UNCHANGED <<wseen, recordVars, armVars, leaseVars, workerVars>>

WatchAsk(v) ==
  /\ wpc[v] = "ask"
  /\ arm[wjob[v]] # "none"
  /\ wpc' = [wpc EXCEPT ![v] = "apply"]
  /\ wseen' = [wseen EXCEPT ![v] = deploymentStatus(arm[wjob[v]])]
  /\ UNCHANGED <<wjob, wbase, recordVars, armVars, leaseVars, workerVars>>

WatchReturn(v) ==
  /\ wpc' = [wpc EXCEPT ![v] = "idle"]
  /\ wjob' = [wjob EXCEPT ![v] = NoRecord]
  /\ wbase' = [wbase EXCEPT ![v] = "absent"]
  /\ wseen' = [wseen EXCEPT ![v] = "none"]

(* ARM knows no such deployment, or a request fails, or the caller goes.   *)
WatchFails(v) ==
  /\ wpc[v] # "idle"
  /\ WatchReturn(v)
  /\ UNCHANGED <<recordVars, armVars, leaseVars, workerVars>>

WatchApply(v) ==
  /\ wpc[v] = "apply"
  /\ \E acked \in BOOLEAN : reconcile(wjob[v], wbase[v], wseen[v], acked)
  /\ WatchReturn(v)
  /\ UNCHANGED <<armVars, leaseVars, workerVars>>

-----------------------------------------------------------------------------
Init ==
  /\ status = [r \in Records |-> "absent"]
  /\ uncertain = {}
  /\ expired = {}
  /\ completed = [r \in Records |-> 0]
  /\ arm = [r \in Records |-> "none"]
  /\ stray = {}
  /\ owner = [s \in Scopes |-> Nobody]
  /\ lapsed = {}
  /\ pc = [w \in Workers |-> "idle"]
  /\ job = [w \in Workers |-> NoRecord]
  /\ resuming = {}
  /\ lost = {}
  /\ put = [w \in Workers |-> "none"]
  /\ seen = [w \in Workers |-> "none"]
  /\ result = [w \in Workers |-> "none"]
  /\ wpc = [v \in Watchers |-> "idle"]
  /\ wjob = [v \in Watchers |-> NoRecord]
  /\ wbase = [v \in Watchers |-> "absent"]
  /\ wseen = [v \in Watchers |-> "none"]

(* The steps a worker takes once it runs: each await of its call settles.  *)
WorkerStep(w) ==
  \/ Acquire(w) \/ AcquireFails(w)
  \/ Read(w) \/ Claim(w) \/ ClaimUnacked(w) \/ Probe(w) \/ SendPut(w)
  \/ PutReturns(w) \/ PutAbandoned(w) \/ recordSubmissionFailure(w) \/ Sync(w)
  \/ StepFails(w) \/ Release(w)

WatcherStep(v) == WatchAsk(v) \/ WatchApply(v) \/ WatchFails(v)

Next ==
  \/ \E r \in Records : Preview(r) \/ PreviewExpires(r)
  \/ \E r \in Records : ArmReceivesStray(r) \/ ArmFinishes(r)
  \/ \E s \in Scopes : Lapse(s) \/ LateLeaseRequest(s)
  \/ \E w \in Workers, r \in Records : Deploy(w, r)
  \/ \E w \in Workers : WorkerStep(w)
  \/ \E w \in Workers : Renew(w) \/ LoseLease(w) \/ Crash(w) \/ ArmReceives(w)
  \/ \E v \in Watchers, r \in Records : Watch(v, r)
  \/ \E v \in Watchers : WatcherStep(v)

Spec == Init /\ [][Next]_vars

-----------------------------------------------------------------------------
TypeOK ==
  /\ status \in [Records -> StoredStatus]
  /\ uncertain \subseteq Records
  /\ expired \subseteq Records
  /\ completed \in [Records -> Nat]
  /\ arm \in [Records -> ArmState]
  /\ stray \subseteq Records
  /\ owner \in [Scopes -> Workers \cup {Nobody, Orphan}]
  /\ lapsed \subseteq Scopes
  /\ pc \in [Workers -> Place]
  /\ job \in [Workers -> Records \cup {NoRecord}]
  /\ resuming \subseteq Workers
  /\ lost \subseteq Workers
  /\ put \in [Workers -> PutState]
  /\ seen \in [Workers -> Answer]
  /\ result \in [Workers -> Result]
  /\ wpc \in [Watchers -> {"idle", "ask", "apply"}]
  /\ wjob \in [Watchers -> Records \cup {NoRecord}]
  /\ wbase \in [Watchers -> StoredStatus]
  /\ wseen \in [Watchers -> Answer]

(* A PUT of the record's deployment is, or was, somewhere outside.         *)
AtLarge(r) ==
  \/ arm[r] # "none"
  \/ r \in stray
  \/ \E w \in Workers : job[w] = r /\ put[w] # "none"

(* No PUT leaves the process before the record durably says so: whatever   *)
(* ARM runs, or may yet receive, has a record past previewed, so that a    *)
(* crash at any point leaves a record from which the deployment is found   *)
(* (the final cancellation boundary, deployments.ts:640).                  *)
DurableBeforeSubmitted ==
  \A r \in Records : AtLarge(r) => status[r] \notin {"absent", "previewed", "superseded"}

(* A record says running, succeeded or canceled only if ARM started the    *)
(* deployment, and a final word of success or cancellation is ARM's own,   *)
(* however late or stale the answer the writer acted on (reconcile).       *)
RecordFollowsArm ==
  \A r \in Records :
    /\ status[r] = "running" => arm[r] # "none"
    /\ status[r] \in {"succeeded", "canceled"} => arm[r] = status[r]

(* With leases that outlast their calls, a record is failed only if ARM    *)
(* failed the deployment, or refused it and no other PUT of that name can  *)
(* still arrive (recordSubmissionFailure, definitiveFailureAllowed).       *)
FailedMeansFailed ==
  \A r \in Records :
    status[r] = "failed" => arm[r] = "failed" \/ (arm[r] = "none" /\ r \notin stray)

(* With such leases, at most one call at a time is inside the locked body  *)
(* of a scope (withScopeLock).                                             *)
OneCallPerScope ==
  \A w1, w2 \in Workers :
    /\ pc[w1] \in Body
    /\ pc[w2] \in Body
    /\ scopeKey(w1) = scopeKey(w2)
    => w1 = w2

(* The submission_uncertain error is carried by submitting records only:   *)
(* the late note of a call that lost track of its PUT never lands on a     *)
(* record somebody else has settled meanwhile.                             *)
UncertainOnlyWhileSubmitting ==
  \A r \in uncertain : status[r] = "submitting"

(* Racing status calls and deploy calls count a deployment's completion at *)
(* most once in deployments_completed_total.                               *)
CompletedOnce == \A r \in Records : completed[r] <= 1

(* A final status is never overwritten, whichever stale copy of the record *)
(* the writer started from (applyDeploymentRecordPatch).                   *)
FinalStatusStays ==
  [][\A r \in Records : status[r] \in Terminal => status'[r] = status[r]]_vars

(* Implements the promise: MayReject only where leases may be outrun.      *)
Promise == INSTANCE DeploymentPromise WITH MayReject <- Stalls
ImplementsPromise == Promise!PromiseSpec

(* Each scope's lease takes the steps that ScopeLease shows withScopeLock  *)
(* to take, and no others.                                                 *)
Lease(s) == INSTANCE ScopeLeasePromise WITH
  owner <- owner[s],
  lapsed <- s \in lapsed,
  inside <- {w \in Workers : pc[w] \in Body /\ scopeKey(w) = s}

LeasesAsPromised ==
  [][\A s \in Scopes : Lease(s)!LeaseNext \/ UNCHANGED Lease(s)!leased]_vars

(* What the sources say of the lease and of retries, and the code does not *)
(* do; see README.md, Findings.                                            *)

(* "per-scope locks prevent two replicas deploying to the same scope at    *)
(* once" (docs/deployment.md:342): no two deployments run in a scope.      *)
OneDeploymentPerScope ==
  \A r1, r2 \in Records :
    ScopeOf[r1] = ScopeOf[r2] /\ arm[r1] = "active" /\ arm[r2] = "active" => r1 = r2

(* "This deployment was already started" (deployments.ts:797): a record     *)
(* that a call reports so, and that is still submitting, has a PUT to show *)
(* for it.                                                                 *)
StartedMeansStarted ==
  \A w \in Workers :
    result[w] = "already" /\ status[job[w]] = "submitting" => AtLarge(job[w])

-----------------------------------------------------------------------------
(* Every await of a call settles: requests to ARM and to the tables have   *)
(* timeouts.  An entity whose call has ended reaches its expiresAt.  ARM   *)
(* ends what it runs.  A caller who polls azure_get_deployment as it is    *)
(* told to gets through in the end, whatever fails on the way.             *)
Fairness ==
  /\ \A w \in Workers : WF_vars(WorkerStep(w))
  /\ \A s \in Scopes : WF_vars(Lapse(s))
  /\ \A r \in Records :
       /\ WF_vars(ArmFinishes(r))
       /\ SF_vars(\E v \in Watchers : Watch(v, r))
       /\ SF_vars(\E v \in Watchers : wjob[v] = r /\ WatchAsk(v))
       /\ SF_vars(\E v \in Watchers : wjob[v] = r /\ WatchApply(v))

LiveSpec == Spec /\ Fairness

(* A deployment that ARM has started ends up with a final status on its    *)
(* record, even if every call that submitted it has died or lost track of  *)
(* it (getDeployment, reconcile).                                          *)
StartedIsSettled ==
  \A r \in Records : arm[r] # "none" ~> status[r] \in Terminal

(* A scope never stays locked for good: its lease entity is deleted or     *)
(* passes its expiry, so that the next deploy call may take it.            *)
LeaseIsFreed == \A s \in Scopes : owner[s] # Nobody ~> LeaseFree(s)
=============================================================================
