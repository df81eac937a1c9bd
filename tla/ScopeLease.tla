------------------------------ MODULE ScopeLease ------------------------------
(***************************************************************************)
(* The lease of one scope in the table of locks, as withScopeLock of       *)
(* AzureTableDeploymentRecordStore keeps it (src/deployments/              *)
(* store-azure.ts): an entity that is created if absent, replaced and      *)
(* deleted only under the etag its writer knows, and that expires.         *)
(*                                                                         *)
(* Time passes in Tick.  A request takes effect and is answered in one     *)
(* step, or fails: then it had no effect, or its effect has come           *)
(* unanswered, or it is still on its way and comes later (late).           *)
(***************************************************************************)
EXTENDS Naturals

CONSTANTS
  Callers,   (* calls of withScopeLock for the scope                       *)
  Nobody,    (* holder of the entity while it does not exist               *)
  Orphan,    (* holder of an entity whose call has ended without it        *)
  Ttl,       (* lockTtlMs                                                  *)
  Timeout,   (* requestTimeoutMs: every request has settled by then        *)
  Tail,      (* time the body takes to end once leaseSignal is aborted     *)
  Punctual   (* whether timers fire, and the body ends, in time            *)

ASSUME ScopeLeaseAssumption ==
  /\ Nobody \notin Callers
  /\ Orphan \notin Callers
  /\ Nobody # Orphan
  /\ Ttl \in Nat /\ Timeout \in Nat /\ Tail \in Nat
  /\ Ttl > 4 * Timeout
  /\ Punctual \in BOOLEAN

VARIABLES
  holder,    (* the call whose ownerId the entity has                      *)
  left,      (* time until the entity's expiresAt, 0 once it has passed    *)
  current,   (* calls that know the entity's etag                          *)
  late,      (* requests given up by their callers that may still have an  *)
             (* effect: a conditional one only while its etag is current   *)
  pc,        (* where each call is in withScopeLock                        *)
  age,       (* time since its request was built                           *)
  timer,     (* time since its renewal timer last fired                    *)
  renewing,  (* calls with a renewal under way                             *)
  lost,      (* calls whose leaseSignal is aborted                         *)
  since      (* time since then                                            *)

entityVars == <<holder, left, current, late>>
callVars   == <<pc, age, timer, renewing, lost, since>>
vars == <<entityVars, callVars>>

Interval == Ttl \div 3

Request == {"create", "look", "reclaim", "recreate", "lookup", "remove"}
Place == Request \cup {"out", "inside"}

Conditional == {"renew", "delete"}

(* Effects on the entity.  A write changes its etag: the requests that     *)
(* carry another one have none from then on.                               *)
Rewritten(knowing) ==
  /\ current' = knowing
  /\ late' = late \ Conditional

CreateEntity(h, l, knowing) ==
  /\ holder = Nobody
  /\ holder' = h
  /\ left' = l
  /\ Rewritten(knowing)

ReplaceEntity(l, knowing) ==
  /\ left' = l
  /\ UNCHANGED holder
  /\ Rewritten(knowing)

DeleteEntity ==
  /\ holder' = Nobody
  /\ left' = 0
  /\ Rewritten({})

(* Deviation: expiresAt counts from the answer, whenever that comes.       *)
FreshOnAnswer(c) == IF Punctual THEN {Ttl + age[c]} ELSE 1..(Ttl + age[c])

(* What is left of lockTtlMs when a write takes effect: expiresAt counts   *)
(* from when the request was built.                                        *)
Fresh(c) == IF Punctual THEN {Ttl - age[c]} ELSE 1..(Ttl - age[c])

(* The request a call has under way, if the entity would still take it.    *)
InFlight(c) ==
  CASE pc[c] \in {"create", "recreate"}               -> {"create"}
    [] pc[c] \in {"reclaim", "remove"} /\ c \in current -> {"delete"}
    [] c \in renewing /\ c \in current                -> {"renew"}
    [] OTHER                                          -> {}

(* The call moves on with a new request, or ends.                          *)
Send(c, place) ==
  /\ pc' = [pc EXCEPT ![c] = place]
  /\ age' = [age EXCEPT ![c] = 0]

End(c) ==
  /\ Send(c, "out")
  /\ timer' = [timer EXCEPT ![c] = 0]
  /\ renewing' = renewing \ {c}
  /\ lost' = lost \ {c}
  /\ since' = [since EXCEPT ![c] = 0]

(* The entity of a call that ends without deleting it.                     *)
LeaveBehind(c) == holder' = IF holder = c THEN Orphan ELSE holder

-----------------------------------------------------------------------------
(* Acquiring.                                                              *)

Call(c) ==
  /\ pc[c] = "out"
  /\ Send(c, "create")
  /\ UNCHANGED <<entityVars, timer, renewing, lost, since>>

(* acquire: createEntity succeeds and the body starts, with its renewal    *)
(* timer; or the entity exists (409).                                      *)
Create(c) ==
  /\ pc[c] \in {"create", "recreate"}
  /\ \/ /\ \E l \in Fresh(c) : CreateEntity(c, l, {c})
        /\ Send(c, "inside")
        /\ UNCHANGED <<timer, renewing, lost, since>>
     \/ /\ holder # Nobody
        /\ pc[c] = "create"
        /\ Send(c, "look")
        /\ UNCHANGED <<entityVars, timer, renewing, lost, since>>
     \/ /\ holder # Nobody
        /\ pc[c] = "recreate"
        /\ End(c)
        /\ UNCHANGED entityVars

(* The creation is done, but its answer is lost: the client sends it again *)
(* and is told of a conflict, or the call fails.                           *)
CreateUnacked(c) ==
  /\ pc[c] \in {"create", "recreate"}
  /\ \E l \in Fresh(c) : CreateEntity(Orphan, l, {})
  /\ \/ /\ pc[c] = "create"
        /\ Send(c, "look")
        /\ UNCHANGED <<timer, renewing, lost, since>>
     \/ End(c)

(* Deviation: an existing entity is reclaimed whatever its expiry.         *)
LookPastExpiry(c) ==
  /\ pc[c] = "look"
  /\ IF holder # Nobody
     THEN /\ Send(c, "reclaim")
          /\ current' = current \cup {c}
          /\ UNCHANGED <<holder, left, late, timer, renewing, lost, since>>
     ELSE End(c) /\ UNCHANGED entityVars

(* The existing entity is read; only an expired one is reclaimed.          *)
Look(c) ==
  /\ pc[c] = "look"
  /\ IF holder # Nobody /\ left = 0
     THEN /\ Send(c, "reclaim")
          /\ current' = current \cup {c}
          /\ UNCHANGED <<holder, left, late, timer, renewing, lost, since>>
     ELSE End(c) /\ UNCHANGED entityVars

(* The expired entity is deleted under the etag just read, and the lease   *)
(* acquired again.  Whoever finds another etag or none gives up.           *)
Reclaim(c) ==
  /\ pc[c] = "reclaim"
  /\ IF c \in current
     THEN DeleteEntity /\ Send(c, "recreate") /\ UNCHANGED <<timer, renewing, lost, since>>
     ELSE End(c) /\ UNCHANGED entityVars

-----------------------------------------------------------------------------
(* Holding.                                                                *)

(* The timer fires.                                                        *)
SendRenew(c) ==
  /\ pc[c] = "inside"
  /\ c \notin renewing \cup lost
  /\ timer[c] = Interval
  /\ renewing' = renewing \cup {c}
  /\ age' = [age EXCEPT ![c] = 0]
  /\ timer' = [timer EXCEPT ![c] = 0]
  /\ UNCHANGED <<entityVars, pc, lost, since>>

(* renew: the entity is replaced under the etag the call knows, or that is *)
(* not the entity's any more (404, 412) and leaseSignal is aborted.        *)
Renew(c) ==
  /\ c \in renewing
  /\ renewing' = renewing \ {c}
  /\ IF c \in current
     THEN (\E l \in Fresh(c) : ReplaceEntity(l, {c})) /\ UNCHANGED lost
     ELSE lost' = lost \cup {c} /\ UNCHANGED entityVars
  /\ UNCHANGED <<pc, age, timer, since>>

(* Deviation: a renewal that fails is left for the next one to make good.  *)
RenewFailsQuietly(c) ==
  /\ c \in renewing
  /\ renewing' = renewing \ {c}
  /\ UNCHANGED <<entityVars, lost, pc, age, timer, since>>

(* A renewal that fails in any other way aborts leaseSignal too.           *)
RenewFails(c) ==
  /\ c \in renewing
  /\ renewing' = renewing \ {c}
  /\ lost' = lost \cup {c}
  /\ \/ UNCHANGED entityVars
     \/ late' = late \cup InFlight(c) /\ UNCHANGED <<holder, left, current>>
     \/ c \in current /\ \E l \in Fresh(c) : ReplaceEntity(l, {})
  /\ UNCHANGED <<pc, age, timer, since>>

(* The body ends, for whatever reason, and no renewal is under way.        *)
Finish(c) ==
  /\ pc[c] = "inside"
  /\ c \notin renewing
  /\ Send(c, "lookup")
  /\ UNCHANGED <<entityVars, timer, renewing, lost, since>>

-----------------------------------------------------------------------------
(* Releasing.                                                              *)

(* The entity is read again, and deleted if it is still the call's own.    *)
Lookup(c) ==
  /\ pc[c] = "lookup"
  /\ IF holder = c
     THEN /\ Send(c, "remove")
          /\ current' = current \cup {c}
          /\ UNCHANGED <<holder, left, late, timer, renewing, lost, since>>
     ELSE End(c) /\ UNCHANGED entityVars

(* Deviation: the deletion carries no etag.                                *)
RemoveAnyway(c) ==
  /\ pc[c] = "remove"
  /\ End(c)
  /\ DeleteEntity

Remove(c) ==
  /\ pc[c] = "remove"
  /\ End(c)
  /\ IF c \in current
     THEN DeleteEntity
     ELSE LeaveBehind(c) /\ UNCHANGED <<left, current, late>>

(* A request other than a renewal fails, and the call with it.  What it    *)
(* was to create or delete may be so all the same, or become so later.     *)
RequestFails(c) ==
  /\ pc[c] \in Request
  /\ End(c)
  /\ \/ LeaveBehind(c) /\ UNCHANGED <<left, current, late>>
     \/ /\ late' = late \cup InFlight(c)
        /\ LeaveBehind(c)
        /\ UNCHANGED <<left, current>>
     \/ pc[c] \in {"reclaim", "remove"} /\ c \in current /\ DeleteEntity

(* The replica of a call dies.                                             *)
Crash(c) ==
  /\ pc[c] # "out"
  /\ End(c)
  /\ late' = late \cup InFlight(c)
  /\ LeaveBehind(c)
  /\ UNCHANGED <<left, current>>

-----------------------------------------------------------------------------
(* The tables and the clock.                                               *)

(* A request that was given up arrives, or never will.                     *)
Arrive(request) ==
  /\ request \in late
  /\ \/ late' = late \ {request} /\ UNCHANGED <<holder, left, current>>
     \/ request = "create" /\ \E l \in 1..Ttl : CreateEntity(Orphan, l, {})
     \/ request = "renew" /\ \E l \in 1..Ttl : l >= left /\ ReplaceEntity(l, {})
     \/ request = "delete" /\ DeleteEntity
  /\ UNCHANGED callVars

Waiting(c) == pc[c] \in Request \/ c \in renewing

Later(n, bound) == IF n < bound THEN n + 1 ELSE n

(* A unit of time passes.  In a punctual process every request settles by  *)
(* its timeout, the renewal timer fires when it is due, and a body that is *)
(* told to stop has stopped within Tail.                                   *)
Tick ==
  /\ Punctual => \A c \in Callers :
       /\ Waiting(c) => age[c] < Timeout
       /\ pc[c] = "inside" /\ c \notin lost => timer[c] < Interval
       /\ pc[c] = "inside" /\ c \in lost => since[c] < Tail
  /\ left' = IF left > 0 THEN left - 1 ELSE 0
  /\ age' = [c \in Callers |-> IF Waiting(c) THEN Later(age[c], Timeout) ELSE age[c]]
  /\ timer' = [c \in Callers |->
       IF pc[c] = "inside" /\ c \notin lost THEN Later(timer[c], Interval) ELSE timer[c]]
  /\ since' = [c \in Callers |->
       IF pc[c] = "inside" /\ c \in lost THEN Later(since[c], Tail) ELSE since[c]]
  /\ UNCHANGED <<holder, current, late, pc, renewing, lost>>

-----------------------------------------------------------------------------
Init ==
  /\ holder = Nobody
  /\ left = 0
  /\ current = {}
  /\ late = {}
  /\ pc = [c \in Callers |-> "out"]
  /\ age = [c \in Callers |-> 0]
  /\ timer = [c \in Callers |-> 0]
  /\ renewing = {}
  /\ lost = {}
  /\ since = [c \in Callers |-> 0]

CallStep(c) ==
  \/ Call(c)
  \/ Create(c) \/ CreateUnacked(c) \/ Look(c) \/ Reclaim(c)
  \/ SendRenew(c) \/ Renew(c) \/ RenewFails(c) \/ Finish(c)
  \/ Lookup(c) \/ Remove(c) \/ RequestFails(c) \/ Crash(c)

Next ==
  \/ \E c \in Callers : CallStep(c)
  \/ \E request \in {"create"} \cup Conditional : Arrive(request)
  \/ Tick

Spec == Init /\ [][Next]_vars

-----------------------------------------------------------------------------
TypeOK ==
  /\ holder \in Callers \cup {Nobody, Orphan}
  /\ left \in 0..Ttl
  /\ current \subseteq Callers
  /\ late \subseteq {"create"} \cup Conditional
  /\ pc \in [Callers -> Place]
  /\ age \in [Callers -> 0..Timeout]
  /\ timer \in [Callers -> 0..Interval]
  /\ renewing \subseteq Callers
  /\ lost \subseteq Callers
  /\ since \in [Callers -> 0..Tail]

(* Only its own call, or its expiry, ends a lease: no other call's release *)
(* or reclaim, however late it arrives, takes the entity from a call that  *)
(* is inside the body with time left (the etags of withScopeLock).         *)
NobodyElseEndsIt ==
  [][\A c \in Callers :
       holder = c /\ left > 0 /\ pc[c] = "inside" /\ pc'[c] = "inside" => holder' = c]_vars

(* leaseSignal tells the truth: while it is not aborted, the call owns an  *)
(* entity that has not expired (renew, assertLeaseHeld).                   *)
SignalIsTruthful ==
  \A c \in Callers : pc[c] = "inside" /\ c \notin lost => holder = c /\ left > 0

(* The longest an entity goes without being renewed before its call is out *)
(* of the body: creation, timer, renewal and tail.                         *)
Fits == Timeout + Interval + Timeout + Tail < Ttl

(* The lease is the one the deployment lifecycle is built on.              *)
Promise == INSTANCE ScopeLeasePromise WITH
  Workers <- Callers, owner <- holder,
  lapsed <- holder # Nobody /\ left = 0,
  inside <- {c \in Callers : pc[c] = "inside"},
  Stalls <- ~(Punctual /\ Fits)

ImplementsLease == Promise!LeaseSpec

(* "A lock whose lease has expired belonged to a replica that died"        *)
(* (store-azure.ts:361): no call is still inside the body of an entity     *)
(* that has expired.                                                       *)
ExpiredMeansDead ==
  \A c \in Callers : holder = c /\ pc[c] = "inside" => left > 0
=============================================================================
