---------------------------- MODULE Confirmation ----------------------------
(***************************************************************************)
(* What a confirmation hash binds (src/services/deployments.ts): a what-if *)
(* preview, the record it leaves, and the deploy or rollback call that     *)
(* names it later, perhaps after Azure, the policy, the compiler or the    *)
(* store have changed.  DeploymentLifecycle has the locked body of start() *)
(* step by step; here it is the claim and the submission.                  *)
(***************************************************************************)
EXTENDS RecordStore

CONSTANTS
  Requests,        (* what callers send: principal, source, parameters,    *)
                   (* scope                                                *)
  Secrets,         (* values a caller may supply for the secure parameter  *)
  Configurations,  (* the scopes the policy allows, and the Bicep release: *)
                   (* one source, one template from each release           *)
  Targets,         (* the scopes that a source's nested deployments are to *)
  RowKeys,         (* orders that random ids may have                      *)
  MaxId,           (* bound: previews taken                                *)
  MaxDeployments,  (* bound: deployments that ARM is given                 *)
  MaxEvents,       (* bound: previews that expire and changes of Azure     *)
  Calls            (* calls in flight at once                              *)

VARIABLES
  backend,    (* which store is configured: "azure" or "memory"            *)
  store,      (* the stored records                                        *)
  expiredTo,  (* previews born up to here have expired                     *)
  world,      (* what a what-if would find in Azure                        *)
  rowKey,     (* the order of the ids                                      *)
  config,     (* the configuration of the running process                  *)
  call,       (* each call, with its locals                                *)
  arm,        (* deployments that ARM was given, by record id              *)
  previewed   (* history: what was previewed under each record id          *)

configVars == <<backend, rowKey, config>>
vars == <<configVars, store, expiredTo, world, call, arm, previewed>>

Redacted == "[redacted]"
NoId     == 0

(* Callers supply a value for the secure parameter, and the placeholder is *)
(* none of those values.                                                   *)
ASSUME ConfirmationAssumption ==
  /\ MaxId \in Nat
  /\ Redacted \notin Secrets
  /\ \A request \in Requests :
       /\ "secret" \in DOMAIN request.params /\ request.params.secret \in Secrets
       /\ request.source \in DOMAIN Targets

Idle     == [at |-> "idle"]

Ids == 1..MaxId

(* A partial function with one more point.                                 *)
With(f, x, y) == [z \in DOMAIN f \cup {x} |-> IF z = x THEN y ELSE f[z]]

Become(c, next) == call' = [call EXCEPT ![c] = next]

(* compile, for source that compiles.                                      *)
template(source) == [source |-> source, cli |-> config.cli]

(* computeConfirmationHash: SHA-256 over the canonical JSON of its parts   *)
(* is taken to be injective, so the parts stand for the digest.            *)
computeConfirmationHash(source, tmpl, params, scope, seen) ==
  [source |-> source, template |-> tmpl, params |-> params, scope |-> scope, seen |-> seen]

(* resolveDeploymentScope: what it allows is ScopePolicy's matter.         *)
resolveDeploymentScope(scope) == scope \in config.allowed

(* inspectTemplate's crossScopeTargets.                                    *)
crossScopeTargets(tmpl) == Targets[tmpl.source]

(* assertCrossScopeTargetsAllowed holds them to the same lists.            *)
assertCrossScopeTargetsAllowed(tmpl) == crossScopeTargets(tmpl) \subseteq config.allowed

(* Deviation: parameters are stored as they come.                          *)
keepParameters(params) == params

(* sanitizeParameters: secure values are not stored.                       *)
sanitizeParameters(params) == [params EXCEPT !.secret = Redacted]

(* rebuildParameters: plain values from the record, secure ones from the   *)
(* call.  It fails where a secure value is missing.                        *)
CanRebuild(target, supplied) == target.sanitized.secret = Redacted => supplied # "missing"
rebuildParameters(target, supplied) ==
  IF target.sanitized.secret = Redacted
  THEN [target.sanitized EXCEPT !.secret = supplied] ELSE target.sanitized

(* What a call still uses of a record that it has looked up: nothing that  *)
(* a patch may change.                                                     *)
copyOf(record) ==
  [id |-> record.id, source |-> record.source, template |-> record.template,
   scope |-> record.scope, rollbackOf |-> record.rollbackOf]

isExpired(record) == record.born <= expiredTo

(* findPreviousSuccessful                                                  *)
findPreviousSuccessful(scope, principal) ==
  Latest({record \in listByScope(backend, rowKey, store, scope, principal) :
            record.status = "succeeded"}).id

-----------------------------------------------------------------------------
(* Previews.                                                               *)

(* The record of a new preview: what was previewed, what Azure said to it, *)
(* and what preceded it.                                                   *)
newRecord(plan, rollbackOf) ==
  LET born == Cardinality(DOMAIN previewed) + 1 IN
  [id |-> born, born |-> born,
   principal |-> plan.principal, source |-> plan.source, template |-> plan.template,
   scope |-> plan.scope, seen |-> world,
   hash |-> computeConfirmationHash(plan.source, plan.template, plan.params, plan.scope, world),
   sanitized |-> sanitizeParameters(plan.params),
   status |-> "previewed", rollbackOf |-> rollbackOf,
   previous |-> IF rollbackOf # NoId THEN rollbackOf
                ELSE findPreviousSuccessful(plan.scope, plan.principal)]

Draft(c, plan, rollbackOf) ==
  LET record == newRecord(plan, rollbackOf) IN
  /\ record.id \in Ids
  /\ Become(c, [at |-> "put", record |-> record])
  /\ previewed' = With(previewed, record.id,
                       [plan |-> plan, seen |-> world, rollbackOf |-> rollbackOf,
                        allowed |-> config.allowed])
  /\ UNCHANGED <<configVars, store, expiredTo, world, arm>>

(* whatIf up to the write of its record: the scope is resolved, the source *)
(* compiled and the plan previewed against Azure as it is.                 *)
WhatIf(c) ==
  /\ call[c] = Idle
  /\ \E request \in Requests :
       /\ resolveDeploymentScope(request.scope)
       /\ assertCrossScopeTargetsAllowed(template(request.source))
       /\ Draft(c, [principal |-> request.principal, source |-> request.source,
                    template |-> template(request.source),
                    params |-> request.params, scope |-> request.scope], NoId)

(* Deviation: any record of the caller's may be redeployed.                *)
redeployAny(target) == resolveDeploymentScope(target.scope)

(* Deviation: only the scope of the target is authorised again.            *)
redeployableScope(target) ==
  target.status = "succeeded" /\ resolveDeploymentScope(target.scope)

(* What rollback demands of its target whenever it has read it: a record   *)
(* that succeeded, whose stored scope and template the policy still allows *)
(* (authorizeRollbackRecord, resolveStoredScope).                          *)
redeployable(target) ==
  /\ target.status = "succeeded"
  /\ resolveDeploymentScope(target.scope)
  /\ assertCrossScopeTargetsAllowed(target.template)

(* rollback without a confirmation: what was deployed once is previewed    *)
(* again, with the secure values of this call.                             *)
PreviewRollback(c) ==
  /\ call[c] = Idle
  /\ \E target \in Range(store), supplied \in Secrets \cup {"missing"} :
       /\ redeployable(target)
       /\ CanRebuild(target, supplied)
       /\ Draft(c, [principal |-> target.principal, source |-> target.source,
                    template |-> target.template, scope |-> target.scope,
                    params |-> rebuildParameters(target, supplied)], target.id)

(* The record is stored, and the caller told its hash.                     *)
Put(c) ==
  /\ call[c].at = "put"
  /\ store' = put(backend, store, call[c].record)
  /\ Become(c, Idle)
  /\ UNCHANGED <<configVars, expiredTo, world, arm, previewed>>

-----------------------------------------------------------------------------
(* Confirmed calls.                                                        *)

(* Deviation: the hash the caller sends is not compared with what the      *)
(* caller sends along with it.                                             *)
DeployUnbound(c) ==
  /\ call[c] = Idle
  /\ \E request \in Requests, record \in Range(store) :
       /\ resolveDeploymentScope(request.scope)
       /\ record.principal = request.principal
       /\ record = findByConfirmationHash(backend, rowKey, store, record.hash, record.principal)
       /\ ~isExpired(record)
       /\ record.status \in {"previewed", "submitting"}
       /\ Become(c, [at |-> "start", record |-> copyOf(record), by |-> record.principal,
                     via |-> "deploy", approved |-> record.hash,
                     template |-> template(request.source),
                     params |-> request.params, scope |-> record.scope])
  /\ UNCHANGED <<configVars, store, expiredTo, world, arm, previewed>>

(* deploy up to its call of start: the record is looked up, the source the *)
(* caller sends is compiled again, and the hash computed again from it.    *)
(* The scope is resolved again; the template's cross-scope targets, which  *)
(* whatIf has checked, are not.  A refused call changes nothing.           *)
Deploy(c) ==
  /\ call[c] = Idle
  /\ \E request \in Requests, hash \in {record.hash : record \in Range(store)} :
       LET record == findByConfirmationHash(backend, rowKey, store, hash, request.principal) IN
       /\ resolveDeploymentScope(request.scope)
       /\ record # NoRecord
       /\ ~isExpired(record)
       /\ hash = computeConfirmationHash(request.source, template(request.source),
                                         request.params, request.scope, record.seen)
       /\ record.status \in {"previewed", "submitting"}
       /\ Become(c, [at |-> "start", record |-> copyOf(record), by |-> request.principal,
                     via |-> "deploy", approved |-> hash,
                     template |-> template(request.source),
                     params |-> request.params, scope |-> record.scope])
  /\ UNCHANGED <<configVars, store, expiredTo, world, arm, previewed>>

(* rollback with a confirmation, up to its second look at the target.      *)
ConfirmRollback(c) ==
  /\ call[c] = Idle
  /\ \E target \in {stored \in Range(store) : redeployable(stored)},
        supplied \in Secrets \cup {"missing"}, hash \in {record.hash : record \in Range(store)} :
       LET record == findByConfirmationHash(backend, rowKey, store, hash, target.principal)
           params == rebuildParameters(target, supplied)
       IN
       /\ CanRebuild(target, supplied)
       /\ record # NoRecord
       /\ record.rollbackOf = target.id
       /\ ~isExpired(record)
       /\ hash = computeConfirmationHash(target.source, target.template, params,
                                         target.scope, record.seen)
       /\ record.status \in {"previewed", "submitting"}
       /\ Become(c, [at |-> "refresh", record |-> copyOf(record), by |-> target.principal,
                     approved |-> hash, params |-> params])
  /\ UNCHANGED <<configVars, store, expiredTo, world, arm, previewed>>

(* The target is read and authorised again; its template is what start     *)
(* submits.  A target that is gone, or no longer matches, ends the call.   *)
RefreshTarget(c) ==
  LET d == call[c]
      target == get(store, d.record.rollbackOf, d.by)
  IN
  /\ d.at = "refresh"
  /\ IF /\ target # NoRecord
        /\ redeployable(target)
        /\ resolveDeploymentScope(d.record.scope)
        /\ d.record.scope = target.scope
        /\ d.record.template = target.template
        /\ d.record.source = target.source
     THEN Become(c, [at |-> "start", record |-> d.record, by |-> d.by,
                     via |-> "rollback", approved |-> d.approved,
                     template |-> target.template,
                     params |-> d.params, scope |-> d.record.scope])
     ELSE Become(c, Idle)
  /\ UNCHANGED <<configVars, store, expiredTo, world, arm, previewed>>

(* withScopeLock of the in-memory store: its process has another call in   *)
(* the locked body of the scope.  (The lease of the Azure store can be     *)
(* outrun, so it is not relied on here.)                                   *)
lockedInMemory(c, scope) ==
  backend = "memory" /\ \E other \in Calls \ {c} :
                          call[other].at = "submit" /\ call[other].scope = scope

(* The locked body of start: the record is read again and claimed, resumed *)
(* or reported.  A record that was evicted meanwhile ends the call, and so *)
(* does a lock that is taken.                                              *)
Start(c) ==
  LET d == call[c]
      current == get(store, d.record.id, d.by)
      resumable == current # NoRecord /\ current.status \in {"previewed", "submitting"}
  IN
  /\ d.at = "start"
  /\ IF ~resumable \/ lockedInMemory(c, d.scope)
     THEN Become(c, Idle) /\ UNCHANGED store
     ELSE IF current.status = "submitting" /\ current.id \in DOMAIN arm
     THEN /\ store' = patch(store, current.id, deploymentStatus(arm[current.id].state), {"submitting"})
          /\ Become(c, Idle)
     ELSE /\ store' = patch(store, current.id, "submitting", {"previewed"})
          /\ Become(c, [d EXCEPT !.at = "submit"])
  /\ UNCHANGED <<configVars, expiredTo, world, arm, previewed>>

(* The PUT: accepted, refused for good, or of unknown outcome, in which    *)
(* case the record stays submitting and the next call looks for it.        *)
Submit(c) ==
  LET d == call[c]
      id == d.record.id
      given == [template |-> d.template, params |-> d.params, scope |-> d.scope,
                by |-> d.by, approved |-> d.approved, state |-> "active"]
      accepted == IF id \in DOMAIN arm THEN arm ELSE With(arm, id, given)
  IN
  /\ d.at = "submit"
  /\ Cardinality(DOMAIN accepted) <= MaxDeployments
  /\ \/ /\ arm' = accepted
        /\ store' = patch(store, id, deploymentStatus(accepted[id].state), {"submitting"})
     \/ /\ id \notin DOMAIN arm
        /\ store' = patch(store, id, "failed", {"submitting"})
        /\ UNCHANGED arm
     \/ /\ arm' \in {arm, accepted}
        /\ UNCHANGED store
  /\ Become(c, Idle)
  /\ UNCHANGED <<configVars, expiredTo, world, previewed>>

(* A call fails or is cancelled at an await.  A put that fails is the put  *)
(* of a record whose hash nobody is told, so it is left out.               *)
Fail(c) ==
  /\ call[c].at \in {"refresh", "start", "submit"}
  /\ Become(c, Idle)
  /\ UNCHANGED <<configVars, store, expiredTo, world, arm, previewed>>

-----------------------------------------------------------------------------
(* What happens around the calls.                                          *)

(* ARM ends a deployment and a status call records it (getDeployment).     *)
Settle(id) ==
  /\ id \in DOMAIN arm
  /\ arm[id].state = "active"
  /\ \E outcome \in {"succeeded", "failed"} :
       /\ arm' = [arm EXCEPT ![id].state = outcome]
       /\ store' = patch(store, id, outcome, {"submitting", "running"})
  /\ UNCHANGED <<configVars, expiredTo, world, call, previewed>>

(* Expiries and changes of Azure so far.                                   *)
Events == expiredTo + (world - 1)

(* previewTtlMs passes for the oldest preview that has not expired.        *)
Expire ==
  /\ expiredTo < Cardinality(DOMAIN previewed)
  /\ Events < MaxEvents
  /\ expiredTo' = expiredTo + 1
  /\ UNCHANGED <<configVars, store, world, call, arm, previewed>>

(* Azure changes, so that a what-if finds something else than the last one *)
(* did.                                                                    *)
AzureChanges ==
  /\ Events < MaxEvents
  /\ \E id \in DOMAIN previewed : previewed[id].seen = world
  /\ world' = world + 1
  /\ UNCHANGED <<configVars, store, expiredTo, call, arm, previewed>>

(* The service restarts, perhaps with another configuration or compiler:   *)
(* its calls die, and the in-memory store with them.                       *)
Restart ==
  /\ config' \in Configurations
  /\ call' = [c \in Calls |-> Idle]
  /\ store' = IF backend = "memory" THEN <<>> ELSE store
  /\ UNCHANGED <<backend, rowKey, expiredTo, world, arm, previewed>>

Init ==
  /\ backend \in {"azure", "memory"}
  /\ store = <<>>
  /\ expiredTo = 0
  /\ world = 1
  /\ rowKey \in RowKeys
  /\ config \in Configurations
  /\ call = [c \in Calls |-> Idle]
  /\ arm = <<>>
  /\ previewed = <<>>

Next ==
  \/ \E c \in Calls :
       \/ WhatIf(c) \/ PreviewRollback(c) \/ Put(c)
       \/ Deploy(c) \/ ConfirmRollback(c) \/ RefreshTarget(c)
       \/ Start(c) \/ Submit(c) \/ Fail(c)
  \/ \E id \in Ids : Settle(id)
  \/ Expire \/ AzureChanges \/ Restart

Spec == Init /\ [][Next]_vars

-----------------------------------------------------------------------------
TypeOK ==
  /\ Len(store) <= (IF backend = "memory" THEN MaxRecords ELSE MaxId)
  /\ \A i \in DOMAIN store :
       /\ store[i].id \in DOMAIN previewed
       /\ store[i].status \in DeploymentRecordStatus
       /\ store[i].previous \in {NoId} \cup DOMAIN previewed
  /\ \A i, j \in DOMAIN store : store[i].id = store[j].id => i = j
  /\ expiredTo \in 0..MaxId
  /\ DOMAIN arm \subseteq DOMAIN previewed
  /\ \A c \in Calls :
       call[c].at \in {"idle", "put", "refresh", "start", "submit"}

(* What ARM is given under a record's name is what was previewed under it: *)
(* the same template, parameters and scope, submitted by the principal who *)
(* took the preview, with the hash of exactly that plan and of what Azure  *)
(* said it would do.  Neither identical previews, nor a restart with       *)
(* another compiler, nor an eviction gets between them (deploy, rollback). *)
SubmittedAsPreviewed ==
  \A id \in DOMAIN arm :
    LET plan == previewed[id].plan
        given == arm[id]
    IN /\ given.template = plan.template
       /\ given.params = plan.params
       /\ given.scope = plan.scope
       /\ given.by = plan.principal
       /\ given.approved = computeConfirmationHash(plan.source, plan.template,
                                                   plan.params, plan.scope, previewed[id].seen)

(* A rollback submits only what ARM has brought to success before, in the  *)
(* scope it succeeded in, for the same principal; previews of rollbacks    *)
(* that are rolled back again included (rollback, authorizeRollbackRecord).*)
RollbackFromSuccess ==
  \A id \in DOMAIN arm :
    LET target == previewed[id].rollbackOf IN
    target # NoId =>
      /\ target \in DOMAIN arm
      /\ arm[target].state = "succeeded"
      /\ arm[target].template = arm[id].template
      /\ arm[target].scope = arm[id].scope
      /\ arm[target].by = arm[id].by

(* What a call is about to submit goes to a scope that its process allows, *)
(* although it was previewed, and its target deployed, under other         *)
(* configurations.  Its nested deployments stay within what was allowed    *)
(* when the plan was previewed; those of a confirmed rollback also within  *)
(* what is allowed now (whatIf, resolveStoredScope,                        *)
(* authorizeRollbackRecord).                                               *)
SubmittedWithinPolicy ==
  \A c \in Calls :
    LET d == call[c] IN
    d.at = "submit" =>
      /\ d.scope \in config.allowed
      /\ crossScopeTargets(d.template) \subseteq previewed[d.record.id].allowed
      /\ d.via = "rollback" => crossScopeTargets(d.template) \subseteq config.allowed

(* "allow-lists, enforced in the service layer on every read and write,    *)
(* including nested deployment scopes" (docs/threat-model.md:52-53): what  *)
(* a call is about to submit deploys nothing to a scope that the list of   *)
(* its process leaves out.                                                 *)
NestedWithinPolicy ==
  \A c \in Calls :
    call[c].at = "submit" => crossScopeTargets(call[c].template) \subseteq config.allowed

(* A secure value is never stored, and the placeholder that is stored in   *)
(* its place never reaches ARM, through any chain of previews, rollbacks   *)
(* and rollbacks of rollbacks (sanitizeParameters, rebuildParameters).     *)
SecretsStayOut ==
  /\ \A i \in DOMAIN store : store[i].sanitized.secret = Redacted
  /\ \A id \in DOMAIN arm : arm[id].params.secret # Redacted

(* The previous success that a record names is a deployment of the same    *)
(* principal to the same scope that ARM brought to success                 *)
(* (findPreviousSuccessful).                                               *)
HistoryIsReal ==
  \A i \in DOMAIN store :
    LET previous == store[i].previous IN
    previous # NoId =>
      /\ previous \in DOMAIN arm
      /\ arm[previous].state = "succeeded"
      /\ arm[previous].scope = store[i].scope
      /\ arm[previous].by = store[i].principal

(* "The preview expired at ... Run azure_what_if_bicep again"              *)
(* (deployments.ts:525): a preview that has not expired is not hidden from *)
(* the call that confirms it by an expired one with the same hash.         *)
FreshPreviewIsFound ==
  \A i \in DOMAIN store :
    LET found == findByConfirmationHash(backend, rowKey, store, store[i].hash, store[i].principal) IN
    ~isExpired(store[i]) => ~isExpired(found)
=============================================================================
