# Verification of agent-tool-server-azure

TLA+ models of the deployment server, checked with TLC and, where marked, proved
with TLAPS. Paths are relative to the repository (`src/services/deployments.ts` is
written `deployments.ts` where no other file is meant). The models are written from
the code; where a comment or a page of the docs says something else, this file says
so under *Findings*.

## The system

The server exposes Azure to an agent as tools. Most tools are single reads. What
needs care is the path that changes something:

    azure_what_if_bicep -> compile -> ARM what-if -> a record, status previewed
    azure_deploy_bicep  -> check the approval -> start(): lease, claim, PUT, reconcile
    azure_get_deployment -> ARM GET -> reconcile the record
    azure_rollback_deployment -> preview as above, then start()

| Part | State it keeps | Operations | Interacts with |
| --- | --- | --- | --- |
| `services/deployments.ts` | none of its own between calls (a bounded queue) | whatIf, deploy, rollback, getDeployment, listOperations | record store, scope lease, ARM, compiler, guardrails |
| `deployments/records.ts` | - | the status table, applyDeploymentRecordPatch | used by both stores |
| `deployments/store-azure.ts` | table of records, table of leases, memo of table creation | put, patch, get, queries, withScopeLock, ping | Azure Tables; several replicas share it |
| `deployments/store-memory.ts` | maps of records and locks | the same | one process |
| `provider/azure/deployments.ts`, `arm-rest.ts`, `errors.ts` | - | whatIf with polling, begin (PUT), get, listOperations | ARM over HTTP, timeouts, aborts |
| `bicep/*` | the memoised verification of the compiler, a bounded queue, temporary directories | describe, compile, inspect, normalise | a child process, the file system |
| `services/operations.ts` | - | restart, start, tag under a deadline with one audit line | ARM |
| `services/inventory.ts` | cache of effective permissions | listings, capability checks | ARM |
| `readiness.ts` | cached probes | ready | store, compiler, provider |
| `services/guardrails.ts`, `config` | the configuration | pure checks | all services |
| `tools/*`, `capability.ts`, `app.ts` | - | schemas, formatting, wiring | - |

What is hard in it: several replicas and several calls work on one record and one
scope; any call can die between two awaits; an answer of ARM or of a table can be lost
after the request took effect; a PUT given up by its sender can still arrive; a lease
can be lost while the work it covers goes on; status calls take no lease at all and
write records from copies read earlier; a confirmed call trusts a hash taken under another
configuration, compiler or state of Azure; timers of requests, calls, polls and callers race
the answers. Where nothing runs concurrently, what is hard is the combinations: of configured
boundaries, of nested resources, of relative paths. `PROJECT.json` lists each hazard at its line.

## Modules

| Module | Models | Notes |
| --- | --- | --- |
| `DeploymentRecords` | `deployments/records.ts`: statuses, table of transitions, patch; `deploymentStatus` | operators only |
| `DeploymentLifecycle` | `deployments.ts`: deploy, start, recordSubmissionFailure, reconcile, getDeployment; the lease as `withScopeLock` takes, renews and releases it; ARM as the code uses it | the core; 28 actions |
| `DeploymentPromise` | the abstract specification: what a record may say of ARM, and when ARM may start something | six actions, no workers, leases or messages |
| `ScopeLease` | `withScopeLock` of `store-azure.ts` request by request: entity, etag, expiry, renewal timer, lost and late requests, the clock | 15 actions |
| `ScopeLeasePromise` | what one scope's lease promises: owner, lapsed, who is inside the body | implemented by `ScopeLease`, kept to by `DeploymentLifecycle` |
| `RecordStore` | what both stores answer: `get`, `findByConfirmationHash`, `listByScope`, `put` with eviction, `patch` once it has succeeded | operators only; over `DeploymentRecords` |
| `Confirmation` | `deployments.ts`: what-if previews, deploy, rollback and its confirmation, over both stores, through restarts with another policy and compiler | over `RecordStore` |
| `RecordPatch` | `patch` of `store-azure.ts` request by request, and `ensureTables` | over `DeploymentRecords` |
| `PatchPromise` | the abstract specification of `patch`: an effect in one instant and a truthful answer | implemented by `RecordPatch`; eight actions, no tables, etags or rounds |
| `BicepCompiler` | `bicep/compiler.ts`, `process.ts`, `materialize.ts`: verification, queue, directory, process | |
| `BundlePolicy` | `bicep/bundle.ts`, `modules.ts`: what is accepted as source | operators, one step |
| `TemplatePolicy` | `bicep/inspect.ts`: what is accepted as a compiled template | extends `BundlePolicy`; operators, one step |
| `Operations` | `services/operations.ts`: mutations under a deadline, with their audit | |
| `Permissions` | `hasEffectivePermission` of `inventory.ts` and its cache | |
| `ArmClient` | `provider/azure/deployments.ts`, `arm-rest.ts`, `errors.ts`: one PUT or one what-if | |
| `ScopePolicy` | `guardrails.ts`, `config/index.ts`, capabilities of `inventory.ts`, `readiness.ts` | operators, two steps |
| `*_proofs` (8) | theorems for every value of the constants | TLAPS |
| `MCDeploymentLifecycle`, `MCScopeLease`, `MCConfirmation`, `MCServices` | constants and symmetry for TLC | |

`DeploymentLifecycle`, `Confirmation` and `ScopeLease` are three views of one call. The first has `start` await by await and one
status per record; the second has what a record says and where it came from, and `start` as two steps, claim and submission; the
third has the lock. `DeploymentRecords` is shared by the first two and by `RecordPatch`. A patch may be one step in the first two because
`RecordPatch` implements `PatchPromise`, where it is one (`ImplementsPatch`), for the patches that the deployment service asks for
(`DeploymentPatches`: those of the claim, of a failed submission and of `reconcile`), and these are the ones by which the statuses of the first move (`StatusMovesByPatches`). `ArmClient` likewise stands behind a PUT of the other two: `DefinitiveMeansRefused` is what makes `failed`
after a rejection true there.

Some definitions are marked *Deviation*: each is the next definition with one thing done wrong (a guard dropped, a reset
forgotten) and is used nowhere. With it in place of the right one, TLC finds a counterexample to the property that
`PROJECT.json` names under `mutants`.

### How DeploymentLifecycle corresponds to the code

A *worker* is one call of `start()`, reached from `deploy` or from a confirmed rollback;
a *watcher* is one call of `getDeployment`. Each action is the code between two awaits.

| Place (`pc`) | Action | Code |
| --- | --- | --- |
| idle | `Deploy` | deploy 487-574, rollback 1054-1140, up to `start` |
| acquire | `Acquire`, `AcquireFails` | store-azure.ts 337-386 |
| read | `Read` | start 593-643: already started, resume, or claim |
| claim | `Claim`, `ClaimUnacked` | start 644-668; the write can commit and its answer be lost |
| probe | `Probe` | start 618-638, a resumed submission asks ARM for its name |
| put | `SendPut` | start 670-684, last look at the lease |
| wait | `PutReturns`, `PutAbandoned` | the PUT resolves, is rejected, times out or is aborted |
| fail | `recordSubmissionFailure` | 730-779 |
| sync | `Sync` | start 714-720, probe 627-630, with `reconcile` 926-967 |
| release | `Release` | the finally block, store-azure.ts 435-452 |
| any | `StepFails`, `Crash` | failing awaits, a dying replica |
| the lease | `Renew`, `LoseLease`, `Lapse`, `LateLeaseRequest` | the renewal timer, the clock, requests that come late: store-azure.ts 389-430, in detail in `ScopeLease` |

`Preview` and `PreviewExpires` are whatIf's `put` and the passing of `expiresAt`.
ARM is `ArmReceives` (a PUT arrives while its sender waits), `ArmReceivesStray` (it arrives
later, or never) and `ArmFinishes`. `Watch`, `WatchAsk`, `WatchApply`, `WatchFails` are
getDeployment, whose copy of the record (`wbase`) may be stale when it reconciles.

Abstractions. All states ARM does not call final are `active`. PUTs on their way that nobody
awaits are a set of records: several PUTs of one name are identical, so their number
makes no difference. A PUT of a name ARM already has answers with that deployment or
fails, as the docs say of the identical, idempotent PUT. A table write is one step with four
outcomes: done, done but the answer is lost, refused by its condition, failed before it had an effect.
The content of records beyond status, error and expiry is left out, and with it the checks on
hashes, principals, scopes and templates that precede `start`: they are in `Confirmation`.
The queue in front of `start` only delays or rejects a call: a rejection is `AcquireFails`.

`Stalls` chooses between two worlds.

- `Stalls = FALSE`: a call leaves the locked body before its lease can expire. `ScopeLease` derives this from timers and
  timeouts (`Punctual`) and from one inequality (`Fits`), see below; the inequality is an assumption about the configuration.
- `Stalls = TRUE`: no such assumption. A process may be paused, or a request may take its time, while the lease
  is taken over, and the call goes on inside the body.

Properties that hold only in the first world (`OneCallPerScope`, `FailedMeansFailed`, the strict promise) are
listed as such everywhere below.

### How ScopeLease corresponds to the code

One scope, several calls of `withScopeLock` (store-azure.ts 326-454). The entity is `holder` (its `ownerId`) and `left`
(time to its `expiresAt`). An etag is not a number: `current` is the set of calls that know the entity's present one, and
every write empties it but for the writer, which is all that a conditional request can tell. A request has its effect and
its answer in one step, or fails in one of three ways: no effect, an effect without an answer, or an effect that comes
later (`late`, `Arrive`). A late conditional request has none if the entity was written meanwhile.

| Place (`pc`) | Action | Code |
| --- | --- | --- |
| out | `Call` | 326-343 |
| create, recreate | `Create`, `CreateUnacked` | acquire, 337-359, and again 375 |
| look | `Look` | 360-369, the expiry of the existing entity |
| reclaim | `Reclaim` | 370-386, deletion under the etag just read |
| inside | `SendRenew`, `Renew`, `RenewFails`, `Finish` | the body, renew 392-424, the timer 425-430 |
| lookup | `Lookup` | 439 |
| remove | `Remove` | 440-446 |
| any request | `RequestFails`, `Crash` | 344-386, 447-452 |

`expiresAt` counts from when a request is built, so what a write leaves is `Ttl` less the age of the request (`Fresh`).
`Tail` is how long a body whose `leaseSignal` is aborted may still take. With `Punctual`, requests settle within `Timeout`
(client-side repetitions included), the renewal timer fires when due and the tail is kept; without it, time passes anywhere.
`Fits` is `2 * Timeout + Ttl / 3 + Tail < Ttl`: creation, timer, failed renewal and tail. For `recordSubmissionFailure`,
which reads and writes its record whatever `leaseSignal` says, `Tail` is two timeouts, so `Fits` asks for a `lockTtlMs` of
more than six of them; the configuration demands four, its defaults give thirty.

Assumptions: tables answer every write with an etag, so the `getEntity` fallbacks (345-351, 410-420) are not taken; the
clocks of the replicas agree. A body that ends while a renewal is under way counts as ended when that has settled.

`DeploymentLifecycle` has the same lease with less detail: `owner`, `lapsed`, `Body`. That `ScopeLease` implements
`ScopeLeasePromise` is `ImplementsLease`; that the lease of `DeploymentLifecycle` takes no step beyond it is `LeasesAsPromised`.

### How Confirmation and RecordStore correspond to the code

A store is the sequence of its records in the order they were put. An id is the number of the preview, which is also its
`createdAt`; `rowKey` is the order of the random ids, chosen at the start. A hash is the record of what goes into it, which is
what an injective digest amounts to. A template is the source with the release of the compiler that built it, and `Targets` has the scopes that the
nested deployments of a source are to.

The policy is a set of scopes, `config.allowed`, held against two things: the scope of the deployment (`resolveDeploymentScope`) and the targets of the
template's nested deployments (`assertCrossScopeTargetsAllowed`). The code does not hold both against it everywhere, and neither does the model:
`WhatIf` and whatever reads a rollback's target (`redeployable`) check both, `Deploy` the scope only. What the two checks let through for a given
configuration is in `ScopePolicy`. That a template's own scope matches the kind of the deployment's (`assertTemplateScopeMatches`, called beside the
other check in whatIf and on a rollback's target) depends on no configuration and is left out.

| Action | Code (deployments.ts) |
| --- | --- |
| `WhatIf`, `PreviewRollback`, `Put` | whatIf and preview 345-448, previewRollback 1173-1226, and the write of the record 448-472 |
| `Deploy` | 487-574 |
| `ConfirmRollback`, `RefreshTarget` | rollback 1015-1101 and, after it reads its target again, 1103-1140 |
| `Start`, `Submit` | start's locked body 576-668: read and claim; 670-779: PUT and what is recorded of it |
| `Fail` | a failing or cancelled await |
| `Settle`, `Expire`, `AzureChanges`, `Restart` | ARM and a status call; time; what a what-if would find; a new process, perhaps with another configuration |

`findByConfirmationHash` of the Azure store is a query that stops at its limit in row-key order and sorts afterwards; the
in-memory one takes what was put last, sorts before it limits, and evicts. `AzureChanges` happens only once somebody has seen
the present state: changes nobody sees in between make no difference. The scope lock of the in-memory store is
`lockedInMemory`; that of the Azure store may be outrun and is not relied on here.

### How RecordPatch corresponds to the code

Calls of `patch` on one record of the Azure store: `EnsureTables`, `CreateTable`, `CreationFails` (ensureTables, with its memo),
`ReadEntity`, `UpdateEntity`, `UpdateUnacked` (written, the answer lost: the Table client repeats the request and meets its own etag),
`UpdateOutdated` (the etag has changed), `AnotherRound`, `PatchFails`, and `LateUpdate` or `UpdateVanishes` for a request that was given up. `PutEntity`
is the record's creation. As in `ScopeLease`, `current` is the set of calls whose etag is the entity's present one. The patches
(`Patches`) are among those of the deployment service (`DeploymentPatches`): the claim (`ClaimPatches`), the two records of a failed submission (`FailurePatches`), and
what `reconcile` writes over the status it has read (`ReconcilePatches`). "note" stands for one that leaves the status alone.

`PatchPromise` has a record's status and, for each call, its patch, how often it has had effect and its answer. A patch takes effect in
one instant in which its rules hold of the status it replaces, at most once if it carries a status; "applied" means that it did, "missing" that
there was nothing to patch, "unapplied" that the rules forbade it at some moment of the call (or that its own effect was there already);
after an error the effect may still come, once. In the mapping (`JobOf`) a call has been answered when it is done, and its effects are the history `wrote`. A
caller forgets a call only when nothing of it is on its way any more (`EndPatch`), which bounds the number of calls the model keeps, not what
a late update may do.

### How BicepCompiler corresponds to the code

A call waits for the one verification of the process (`describe`, `verify`), takes a place in the bounded queue of the runtime
package (`StartBuild`, `LeaveQueue` when cancelled), writes its directory file by file (`Materialize`), runs the process (`RunBuild`; a member of
`Processes` is what became of it, `report` what PlatformProcessRunner says of that, `outcome` how runBuild reads exit code, output and limits), removes the directory (`Cleanup`, best effort: a directory that resists is given up) and gives its place
back (`ReleaseSlot`). `CompileCancelled` comes anywhere. The parsing of diagnostics is one outcome.

### How BundlePolicy and TemplatePolicy correspond to the code

In `BundlePolicy` paths are sequences of segments, and a segment stands for its kind (a .bicep file, the same with its stem or its extension
in another case, a device name, `..`). Only `.bicep` in lower case is examined for loads and references (`IsBicep`), as in modules.ts 37 and 131,
while `normalizeBundlePath` admits any case. `normalizeBundlePath` filters (`cleanedPath`) and refuses, `resolveWithinBundle`
walks (`Walk`), and what `acceptBundle` lets through of the loads of examined files is compared with `FileSystem`, which resolves a relative path as the operating
system does. The paths of local modules are not examined by the code, and are in no property. Loads are relative: one that begins with "/" is taken to be refused by the compiler itself. The module takes the
references of a source as given; the expressions that find them in the text are not modelled.

In `TemplatePolicy` a template is the sequence of its resources in the order of the walk, each with the place of its parent and whether it stands
among the parent's resources or in its nested template. `walkResources` is then a fold, `visit` what it does with one resource, and
`typeReached` the recursion: what the walk knows of the parent (`known`, the `parentType` of the code) decides whether a resource is reached and with which
type. `inspectTemplate` is compared with `AllResources`, which gathers what ARM makes of the template level by level, from the resources beside one
another down. `DeploymentService.compile` is the two steps `ExamineBundle` and `ExamineTemplate`, each over its own inputs.

### How Operations, Permissions and ArmClient correspond to the code

`Operations`: `run` and `tagResource`. `prepare` and `Refused` are what precedes it (the look-up, the gate), `Plan` the dry run, `Execute` the request, `AzureActs` what Azure does with
it in its own time, `Complete` what the poller sees, `ReadBack` the read after tagging, `Deadline` and `Disconnect` the two signals, and
`AuditCompleted`, `ExecuteFails` the two ways to the audit. The gate is of the runtime package: here it admits or refuses.

`Permissions`: `Ask` reads the cache, `Evaluate` is the moment in which ARM evaluates the assignments, `Remember` stores and returns. A query
that fails counts as a denial, as in the code. Time does not pass while an answer is being returned.

`ArmClient`: one call of `begin` or `whatIf`. `armClock` counts from its start; `due` is the time at which the timer of the request or
wait under way fires. `armHas` is what ARM has of the call, whatever the client knows. `mapAzureError` and
`isDefinitiveSubmissionFailure` are the code's tables, over the statuses named in `Refusals` and `Troubles`. That a status in `Refusals`
means that ARM did not take the request is the assumption about ARM; a 409 is taken for undecided by the code.

### How ScopePolicy corresponds to the code

`assertDeploymentConfiguration` chooses the configurations a server starts with; roles come and go. Places (tenant, management
group, subscription, resource group) are ordered by `Above`. `Open` says which places a configuration opens, `Reach` what a
template deployed at a place can change; `resolveDeploymentScope` and `assertCrossScopeTargetsAllowed` are held against them. The
claims of readiness and of the listings are held against what the guardrails and the roles together permit. All
subscriptions are under all management groups, which is the case with the most reach.

## Runs

| Run | Instance | Shows |
| --- | --- | --- |
| `lifecycle_stalls` | 1 record, 2 workers, 1 watcher, `Stalls = TRUE`; 1,566,207 states | records tell the truth about ARM, final states stay, a completion is counted once, and the (weak) promise is kept, even when the lock does not exclude |
| `lifecycle_leases` | 2 records in 1 scope, 2 workers, `Stalls = FALSE`; 979,646 states | the lock excludes, `failed` is definitive, the strict promise is kept, the lease moves as `ScopeLeasePromise` lets it |
| `lifecycle_live` | 1 record, 2 workers, 1 watcher, fairness; 83,069 states | what ARM starts is settled in the record; a scope never stays locked |
| `lease_timed` | 2 calls, `Ttl` 9, `Timeout` 2, `Tail` 1, punctual; 25,084 states | `leaseSignal` is aborted before the entity can expire (that nothing expires under a call inside its body follows, and is proved) |
| `lease_untimed` | 2 calls, `Ttl` 5, `Timeout` 1, not punctual; 35,758 states | etags keep everybody else's requests off an entity; only expiry lets another call in |
| `previews` | 2 calls of 2 principals, 3 previews, 2 secrets, 3 configurations, a nested target, both stores; 822,235 states | what ARM is given under a record's name is what was previewed and approved; what is submitted goes to an allowed scope; rollbacks repeat successes only; secrets are not stored nor their placeholder sent; the history is real |
| `services` | seven services side by side, a behaviour picks one: 2 calls of `patch` of 2 rounds on one record, tables created or not; 3 compilations with 1 running and 1 waiting; 1 mutation; 2 checks of 1 question; 1 ARM call; 30 environments with up to 2 role assignments; bundles of 2 files and templates 3 levels deep; 45,611 states | a patch is one instant of `PatchPromise`, its answers mean what they say, and every call returns; for the others see the properties' comments in each module |
| `find_*` | smallest instance that shows it | see *Findings* |

Bounds. Every hazard here is between two parties (two workers, or a worker and a
watcher) on one record, or between two records of one scope: three of a kind add only
repetitions of what two can do, and the proofs do not depend on the number. No counter
needs a bound: every call returns to `idle` and drops its locals, and `completed` stays below two
because it must. In `ScopeLease` a `Ttl` of 9 with a `Timeout` of 2 is the smallest above four timeouts, with room for a third of
it between renewals; ages and timers stop at the bound they are compared with (`Later`).

In `Confirmation`, three previews are a deployment, a rollback to it and either an identical preview or a rollback of that
rollback, which is the longest chain that can carry a value from one record to another twice; `MaxRecords` 2 makes the third evict the first, and a
`LookupLimit` of 1 makes every identical preview hide another. `MaxDeployments` lets a rollback follow
the deployment it repeats, and `MaxEvents` lets a preview expire, or Azure change, before and after each of a call's steps. The three configurations allow the deployment's scope and its nested target, the scope alone (with
another release of the compiler), and the target alone, so that each check refuses what the other would let pass.

In `services`, two calls of `patch` of two rounds reach the last round by losing to one another; they ask for a patch for every step of a record's life (`SomePatches`),
with "succeeded" for all of ARM's final states, which the rules treat alike. The proofs cover every number of both, and every choice of patches. One
running and one waiting compilation of three fill the queue. Mutations share nothing, so one is enough. A query of the permissions that
may take one unit and an entry that lasts two overlap in every order within five. An ARM request of 3, a what-if of
5 and a poll every 2 let each timer be the one that fires first. Configurations have every combination of
listed subscriptions, groups, management group and tenant, and each mistake that must keep a server from starting; roles
sit at each kind of place. Templates have every kind of child and nested template around every kind of leaf, twice.

All runs switch deadlock checking off: once previews have expired and deployments ended, the
system rightly comes to rest.

Symmetry is declared for workers, watchers, records and callers in the safety runs: no
definition distinguishes one from another. The liveness run has none.

Fairness of `lifecycle_live` (`Fairness`):

- weak fairness of a worker's step: every await of a call settles, because requests to ARM
  (`armRequestTimeoutMs`) and to the tables (`requestTimeoutMs`) have timeouts;
- weak fairness of `Lapse`: the clock reaches `expiresAt` of a lease nobody renews;
- weak fairness of `ArmFinishes`: ARM ends what it runs;
- strong fairness of the three steps of a status call per record: a caller that keeps polling, as the answer of
  azure_deploy_bicep tells it to, gets through in the end although any poll may fail.

Nothing is assumed of new deploy calls, of renewals or of ARM receiving a PUT.

Fairness in `services`: requests to the tables settle, by their timeout, and the creation of the tables ends one way or the other (`PatchFairness`); the verification, the writes, the
process and the removal end, because the process has a time limit and the file system answers, and a place in the queue is given in
the order of arrival, hence strong fairness of `StartBuild` (`CompilerFairness`); a mutation's steps and its deadline come, not
the caller's departure and not Azure's effect (`OperationsFairness`).

## Proofs

`DeploymentLifecycle_proofs` proves the safety properties of the two passing safety runs, for
every set of records, scopes, workers and watchers, from `LifecycleAssumption` alone. The argument is a chain of
inductive invariants, each relative to the ones before it:

1. `TypeInv`: the types, and that a call that is not idle works on a record.
2. `SubmissionInv`: where a worker stands while its PUT is under way (`Shape`); whoever may have
   submitted has a record past its claim (`PastClaim`); every answer of ARM that a
   worker or a watcher still holds stays true, because ARM never forgets a deployment and never leaves a final state
   (`AnswersStayTrue`). Neither `DurableBeforeSubmitted` nor `RecordFollowsArm` is inductive
   without them: a stale answer in hand is exactly what could break the latter.
3. `RecordInv`: a counted completion is final. It rests on `RecordMove`, what any step can do to one record.
4. `LeaseInv` (no stalls): a call inside the body owns an unexpired lease.
5. `FirstSubmission` (no stalls): until a first submission is accepted, ARM has nothing of its name and nothing is
   on its way, so that a rejection is definitive. It needs 4: nobody else submits that name.
6. `FailedSettled`: a record that failed without ARM has no PUT left anywhere.
7. `OwnerInv`: a call that owns a scope's entity is inside the body for that very scope, or about to release it. So an entity lapses
   under its call only where `LapseNow` lets it, and the release or the death of a call is an `Exit` or a `Drop`. With the types this gives
   `LeasesAsPromised`, with or without stalls; 4 is not needed. Each action is a step of one scope's promise and leaves the others alone
   (`StayIsPromised`, `LeavingIsPromised`, `AcquireIsPromised` and the like).

`StatusMovesByPatches` goes through the actions that write a status: each leaves it, puts it, or replaces it by a patch of `DeploymentPatches` applied
by the rules; what ARM answers is never `superseded`, which no patch of the service writes.

`ScopeLease_proofs` does the same for the lease, for every number of calls and every `Ttl > 4 * Timeout`:

1. `TypeOK`.
2. `EtagsVouch`: an etag a call has read vouches for what it read. A reclaim under the entity's present etag has an expired
   target, a release has the call's own entity, and a late deletion an expired or abandoned one. This makes
   `NobodyElseEndsIt` follow; alone it is not inductive, since it says nothing of deletions on their way.
3. `OnTime` (punctual): the time the entity of a call inside its body has gone unrenewed is bounded by where the
   call stands (`Unrenewed`: creation, timer, renewal, tail). `IntervalFits` is where the configuration's bound is used.
4. `Vouched` (punctual): a call whose `leaseSignal` is not aborted still has the entity, since by 3 it has not expired and by 2
   nothing else removes it. The refinement follows action by action; `LastTick` shows that the tick that would expire a
   lease under its call does not come.

| Theorem | Property | Holds |
| --- | --- | --- |
| `TypeCorrect` | `TypeOK` | always |
| `DurableClaim` | `DurableBeforeSubmitted` | always |
| `RecordsAreTruthful` | `RecordFollowsArm` | always |
| `UncertainIsSubmitting` | `UncertainOnlyWhileSubmitting` | always |
| `CompletionCountedOnce` | `CompletedOnce` | always |
| `FinalStays` | `FinalStatusStays` | always |
| `LockExcludes` | `OneCallPerScope` | without stalls |
| `FailedIsTrue` | `FailedMeansFailed` | without stalls |
| `PromiseKept` | `ImplementsPromise` | always, `MayReject` being `Stalls` |
| `LeasesKeepTheirPromise` | `LeasesAsPromised` | always |
| `StatusMovesByPatches` | (the tie to `PatchPromise`) | always |
| `LeaseTypes` | `TypeOK` of ScopeLease | always |
| `EtagsProtect` | `NobodyElseEndsIt` | always |
| `SignalTruthful` | `SignalIsTruthful` | in a punctual process |
| `LeaseKept` | `ImplementsLease` | always, `Stalls` being `~(Punctual /\ Fits)` |

`Confirmation_proofs` proves all that the run `previews` checks, for every number of calls, principals, secrets, requests,
configurations and previews, for both stores, every limit and every order of the ids. None of the properties is inductive: between a
preview and its submission lie a stored copy without its secrets, calls that read that copy before it was evicted, and rollbacks that copied it
in turn. `ConfirmationInv` says that all of these go back to one preview:

1. `HistoryInv`: a preview holds a secret of a caller, never the placeholder; the nested targets of its template are within the policy of its moment;
   and a rollback's preview is the plan of a deployment
   that succeeded, with the same principal and scope.
2. `ArmInv`: a deployment in ARM is that of the preview with its id (`DeploymentOf`).
3. `StoreInv`: a stored record is that of its preview (`RecordOf`) up to its status and its previous success, which only name what has succeeded in
   ARM; an id is stored once.
4. `CallsFor`: what a call holds between two awaits is built from such a record, and its parameters are those of the preview. Here the secret
   that `rebuildParameters` takes from the caller has to be the one in the preview: the approval is of a hash over it.
5. `CallInv`: a preview about to be stored is stored by nobody else, and a call that is about to submit has what deploy or
   rollback authorised (`Authorised`: the scope, and for a rollback the nested targets), under the present configuration because a restart ends
   the call with its process. With 1 and 4 this is `SubmittedWithinPolicy`.

TLC found no counterexample to `ConfirmationInv` on small instances before it was proved. `findByConfirmationHash`, `listByScope`, `put` and `patch` enter through lemmas about
what they return or leave of any store of records; that an answer is one of the store's records, of the principal who asks, is all
that is needed of the order of ids and of the limits. `Settle` changes a status only to what ARM says, so 3 needs `deploymentStatus` and not the
table of transitions.

| Theorem | Property |
| --- | --- |
| `ConfirmationInvariant` | the invariant |
| `ApprovedIsSubmitted` | `SubmittedAsPreviewed` |
| `RollbacksFollowSuccess` | `RollbackFromSuccess` |
| `PolicyAtSubmission` | `SubmittedWithinPolicy` |
| `SecretsAreKept` | `SecretsStayOut` |
| `HistoriesAreReal` | `HistoryIsReal` |
| `ConfirmationTyped` | `TypeOK` |

The other services have an inductive invariant each, from the assumption on their constants alone:

- `RecordPatch_proofs`, `PatchInv`: a call whose etag is current has a copy that is the entity, on which the rules were checked
  (`PatcherInv`); an update that was given up and may still arrive carries the entity as it is (`LateInv`); a status that has been written
  is never left backwards (`Beyond`), so that the same patch cannot apply twice. Without the second, a late update could
  overwrite anything.
- `RecordPatch_proofs`, `PatchAsPromised`: `RecordPatch` implements `PatchPromise`, action by action. The reads and the conditional write of a call are apart, so
  the instant of the effect is the write; by `PatcherInv` and `LateInv` the rules, checked at the read, still hold then, and by `WrittenOnce` it is the
  first (`WriteTakesEffect`). "unapplied" is answered at a read, where the rules fail of what is read (`EndAnswers`); a failed creation of the
  tables answers all that wait for it at once, hence `GiveUp` of a set of calls.
- `AzureCalls_proofs`, `ArmInv`: a timer never outlives the time of the what-if it serves (`Timely`), so no chain of requests and waits can;
  ARM has nothing of a call before its token (`InArm`), so an error of the token is definitive.
- `Bicep_proofs`, `CompilerInv`: a call holds a slot exactly in the four places of a build and has files only between its
  first write and the removal, and gets there only with a compiler that the verification found available; its output is a template only if its process was `Faultless` and its
  caller is not among the cancelled. `Cardinality(slots)` needs the finiteness of the set
  carried along.
- `Bicep_proofs`, `BundlesAreClosed`: for every bundle, of any number of files with paths and loads of any length, of the loads that the code examines. The server walks with
  a flag for having left the bundle and the file system walks from above it; by induction on the length of the path both stand at the
  same place until the flag is set (`Walk`). A fold has no induction rule here that the provers can use, so the lemmas about it unfold its
  recursive function (`FoldExists`) and argue by a least counterexample (`WFMin`). That different normal forms are different files
  comes from counting: as many names as files.
- `Bicep_proofs`, `TemplatesAreInspected`: for every template, of any number of resources nested to any depth, and all limits and denied types. `WalkInv` is
  the invariant of the fold: after the first resources, the types of those reached are settled (`ReachedBefore`: a later resource is nobody's parent
  before it), counts and collections are over exactly those, and each of them is allowed unless the walk refuses. That ARM makes nothing else
  of the template goes two ways (`AllAreReached`): what is on a level is reached, by the level; what is reached is on a level, by its place, as its
  parent comes before it. A limit that is not reached yet bounds the count.
- `AzureCalls_proofs`, `OperationsInv`: what Azure has done of a call at each of its places; an audit entry is the last thing a call leaves.
- `Authorization_proofs`, `PermissionsInv`: an entry expires within a time to live and a latency of the last moment its value was
  true, whichever call wrote it; overwriting in any order keeps this, although not that the newest answer wins.
- `Authorization_proofs`, `BoundaryHolds` and `ClaimsHold` need no invariant but that the configuration is one: they hold of every configuration,
  whether or not the server would start with it, and the second of every set of roles. Each place that `operationScopes` and `withCapabilities` ask
  about is one that `resolveDeploymentScope` or `assertResourceIdInScope` accepts (`OperationScopeIsAccepted`), and a permission held there
  is held at every place below (`OperationScopeHasGroup`).

| Theorem | Property | Module |
| --- | --- | --- |
| `PatchAsPromised` | `ImplementsPatch` | RecordPatch, PatchPromise |
| `AppliedOnce`, `TablesAreThere` | `WrittenOnce`, `RequestsFindTheirTables` | RecordPatch |
| `PatchIsAtomic` | (each write of a status is one that the rules allow from the status it replaces) | RecordPatch |
| `RefusedIsRefused`, `WhatIfInTime` | `DefinitiveMeansRefused`, `PlanInTime` | ArmClient |
| `CallsCleanUp`, `TemplatesAreWhole` | `NothingLeftBehind`, `TemplateIsWhole` | BicepCompiler |
| `BundlesAreClosed`, `TemplatesAreInspected` | `BundleIsClosed`, `InspectionIsComplete` | BundlePolicy, TemplatePolicy |
| `AuditIsTruthful` | `OneTruthfulAudit` | Operations |
| `NoStaleAnswer` | `AnswersAreRecent` | Permissions |
| `BoundaryHolds`, `ClaimsHold` | `DeploysInsideBoundary`, `ClaimsAreTrue` | ScopePolicy |
| `PatchTypes`, `ArmTypes`, `CompilerTypes`, `OperationsTyped`, `PermissionsAreTyped` | the parts of `ServicesTypeOK` | each |
| `ServicesStandAlone`, `ServicesAreTyped` | (every property of `services`), `ServicesTypeOK` | MCServices |

The theorems above are about the services one by one; `services` runs them side by side. `ServicesStandAlone` proves that a behaviour of the composition is
one of each of them, fairness included, so that every theorem about one holds of the composition; `ServicesAreTyped` is the first such consequence.

Assumptions on constants, which TLC evaluates for every instance:

- `ConfirmationAssumption`: every request has a value for its secure parameter, the nested targets of its source are known, and no caller's secret is the placeholder `[redacted]`
  itself. The code takes that string for a redacted value wherever it stands (deployments.ts 1154), so a rollback would ask for the value.
- `StoreAssumption`: the limits of the stores are at least one, as their defaults are.
- `ScopeAssumption`: configurations list subscriptions, groups and management groups that exist; there is a resource group to name, and a
  name that no group has.
- `TemplateAssumption`, `LimitAssumption`: every resource has a type, stands beside others or within one that precedes it, and the schema is of one of the
  kinds; limits are numbers. (A resource without a type, or that is no object, is refused by the code and is left out.)
- `BundleAssumption`: a bundle is a main file and a sequence of files with their paths, loads and module references, as the tool's schema has it.
- `ScopeLeaseAssumption`, `LifecycleAssumption`, `CompilerAssumption`, `ArmAssumption`, `PatchAssumption`, `PermissionsAssumption`: counts and
  times are positive where zero means nothing, patches are the deployment service's, and markers such as `Nobody` are not calls.

Model-checked only: liveness (`StartedIsSettled`, `LeaseIsFreed`, `PatchReturns`, `CompilesReturn`, `AdmittedIsAudited`), since fairness and ENABLED
are beyond the prover; and the properties of the `find_*` runs, which are violated. Every invariant and every other action or refinement property
of the passing runs is a theorem.

## Findings

- **The lock keeps submissions apart, not deployments** (`find_concurrent`). `start` leaves the locked body once
  ARM has accepted the PUT and the lease is deleted. A second approved preview of the scope is submitted while
  the first deployment runs. `docs/deployment.md` 341 and `docs/threat-model.md` 64 speak of
  preventing concurrent deployments to a scope.
- **A nested target is not authorised again at submission** (`find_nested_target`). `docs/threat-model.md` 52-53 has the allow-lists enforced "on every read
  and write, including nested deployment scopes". deploy resolves the deployment's own scope under the configuration of its process (deployments.ts
  510); the targets of nested deployments were checked when the preview was taken (390), by a process that may have had a wider list. A rollback checks
  them again (833). What does hold, and is proved, is `SubmittedWithinPolicy`.
- An uncertain submission cannot be retried after its preview expires. The record asks for a retry of the approved deployment (deployments.ts 763);
  deploy refuses it once `expiresAt` has passed (523), whatever the record's status. A status call may still settle the record if ARM has the deployment.
  This is one guard, and no run is spent on it.
- A source file whose extension is not in lower case, such as `x.BICEP`, is admitted (bundle.ts 52-56, 128-129) but not examined for loads and remote modules
  (modules.ts 37, 131), although `docs/threat-model.md` 81-86 speaks of every load's argument. `BundleIsClosed` is about the files that are examined, and
  says so.
- **"Already started" without a start** (`find_never_started`). When the claim write commits but its answer
  is lost and the Table client repeats it, the repeat meets a changed etag, the patch loop finds the record
  submitting, and the call answers that the deployment was already started (659, 797). The
  assumption outside this repository is the client's default retry policy, which the code does not override.
  A later deploy call resumes the record while the preview is valid.
- **An expired lease may belong to a live call** (`find_live_expired`). The comment at store-azure.ts 361 takes an expired lock for
  that of a replica that died. With a lease time between four and six request timeouts, which the configuration accepts, a
  renewal that times out leaves less time than the read and write of `recordSubmissionFailure` may take. It takes a slow
  creation and three slow requests in a row; the defaults are far from it.
- **A fresh preview can be hidden by expired ones** (`find_hidden_preview`). `findByConfirmationHash` of the Azure store reads at most
  five entities in row-key order, which is random, and takes the latest of these (store-azure.ts 294). Identical previews share a
  hash and expired records are not removed. With more than five of them the fresh one may not be among those read; the confirmed
  call is told that the preview has expired and to run the what-if again (deployments.ts 525, `docs/deployment.md` 375), which adds
  another. The run scales the limit of five down to two.
- With stalls, `OneCallPerScope` and `FailedMeansFailed` do not hold: the etag protects the lease entity, not
  ARM, and a call delayed past its expiry can send its PUT, or write `failed`, after its lease was reclaimed. The records still never
  report what ARM has not said, except `failed` after a rejection; that is what `MayReject` stands for.

## What could come next

The paging of ARM's lists, and with it the order in which `listOperations` and `getEffectivePermissions` see them; and a refinement of `Confirmation`
by `DeploymentLifecycle` for one record, in place of the definitions that they share.

## Not modelled

- Metrics: counters and a timer that nothing reads back; the one that matters, `deployments_completed_total`, is in `DeploymentLifecycle`.
- Diagnostics and the listings and searches of the inventory: each is one read, with nothing kept between calls. The checks on
  the tokens of a query are lexical.
- Tool definitions, schemas and wiring (`tools/*`, `capability.ts`, `app.ts`): declarations, formatting and construction; they
  decide nothing about the order of effects.
- Paging of ARM's lists, the bodies of requests and answers, the parsing of compiler diagnostics, the regular expressions that
  find module and file references in a source, the canonical JSON behind the hash.
- The Azure SDK adapters other than deployments and mutations: one request per call.
- The runtime package (`@agent-tool-platform/runtime`: queue, mutation gate, process runner) is not in the repository. The models
  have what the code relies on: a bounded queue in order of arrival, a gate that admits or refuses, a runner that kills at a limit.
- A verification of the compiler that rejects is memoised for the life of the process; the model has this, and no property
  speaks against it since nothing in the repository promises otherwise.
