--------------------------- MODULE ScopeLease_proofs ---------------------------
(***************************************************************************)
(* Theorems about ScopeLease, for every number of callers and every lease  *)
(* time, timeout and tail that the configuration allows.                   *)
(***************************************************************************)
EXTENDS ScopeLease, TLAPS

(* The renewal timer leaves room for two requests: this is what the        *)
(* configuration's bound on lockTtlMs buys.                                *)
LEMMA IntervalFits ==
  /\ Interval \in Nat
  /\ 2 * Timeout + Interval < Ttl
<1>1. Interval \in Nat /\ 3 * Interval <= Ttl
  BY ScopeLeaseAssumption, SMT DEF Interval
<1>. QED
  BY <1>1, ScopeLeaseAssumption

(* A write leaves the entity with some time, and with all of it but the    *)
(* age of the request if the process is punctual.                          *)
LEMMA FreshTime ==
  ASSUME TypeOK, NEW c \in Callers, NEW l \in Fresh(c)
  PROVE  /\ l \in 1..Ttl
         /\ Punctual => l = Ttl - age[c]
<1>1. age[c] \in 0..Timeout
  BY DEF TypeOK
<1>2. CASE Punctual
  BY <1>1, <1>2, ScopeLeaseAssumption DEF Fresh
<1>3. CASE ~Punctual
  BY <1>1, <1>3, ScopeLeaseAssumption DEF Fresh
<1>. QED
  BY <1>2, <1>3

(* What a call that ends, or moves on, leaves of its own variables.        *)
CallTyped ==
  /\ pc \in [Callers -> Place]
  /\ age \in [Callers -> 0..Timeout]
  /\ timer \in [Callers -> 0..Interval]
  /\ renewing \subseteq Callers
  /\ lost \subseteq Callers
  /\ since \in [Callers -> 0..Tail]

LEMMA EndTyped ==
  ASSUME TypeOK, NEW c \in Callers, End(c)
  PROVE  CallTyped'
  BY IntervalFits, ScopeLeaseAssumption DEF TypeOK, CallTyped, End, Send, Place

(* And what a write leaves of the entity.                                  *)
EntityTyped ==
  /\ holder \in Callers \cup {Nobody, Orphan}
  /\ left \in 0..Ttl
  /\ current \subseteq Callers
  /\ late \subseteq {"create"} \cup Conditional

LEMMA WriteTyped ==
  ASSUME TypeOK
  PROVE  /\ \A h \in Callers \cup {Orphan}, l \in 1..Ttl, knowing \in SUBSET Callers :
              CreateEntity(h, l, knowing) => EntityTyped'
         /\ \A l \in 1..Ttl, knowing \in SUBSET Callers :
              ReplaceEntity(l, knowing) => EntityTyped'
         /\ DeleteEntity => EntityTyped'
<1>. USE ScopeLeaseAssumption DEF TypeOK, EntityTyped, Rewritten, Conditional
<1>1. ASSUME NEW h \in Callers \cup {Orphan}, NEW l \in 1..Ttl, NEW knowing \in SUBSET Callers,
             CreateEntity(h, l, knowing)
      PROVE  EntityTyped'
  BY <1>1 DEF CreateEntity
<1>2. ASSUME NEW l \in 1..Ttl, NEW knowing \in SUBSET Callers, ReplaceEntity(l, knowing)
      PROVE  EntityTyped'
  BY <1>2 DEF ReplaceEntity
<1>3. ASSUME DeleteEntity
      PROVE  EntityTyped'
  BY <1>3 DEF DeleteEntity
<1>. QED
  BY <1>1, <1>2, <1>3

LEMMA SendTyped ==
  ASSUME TypeOK, NEW c \in Callers, NEW place \in Place, Send(c, place),
         UNCHANGED <<timer, renewing, lost, since>>
  PROVE  CallTyped'
  BY ScopeLeaseAssumption DEF TypeOK, CallTyped, Send

(* Every variable keeps its type.                                          *)
THEOREM LeaseTypes == Spec => []TypeOK
<1>. USE ScopeLeaseAssumption
<1>1. Init => TypeOK
  BY IntervalFits DEF Init, TypeOK, Place
<1>2. TypeOK /\ [Next]_vars => TypeOK'
  <2>. SUFFICES ASSUME TypeOK, [Next]_vars
                PROVE  TypeOK'
    OBVIOUS
  <2>a. \A c \in Callers : \A l \in Fresh(c) : l \in 1..Ttl
    BY FreshTime
  <2>b. \A c \in Callers : End(c) => CallTyped'
    BY EndTyped
  <2>c. \A c \in Callers, place \in Place :
           Send(c, place) /\ UNCHANGED <<timer, renewing, lost, since>> => CallTyped'
    BY SendTyped
  <2>d. /\ \A h \in Callers \cup {Orphan}, l \in 1..Ttl, knowing \in SUBSET Callers :
             CreateEntity(h, l, knowing) => EntityTyped'
        /\ \A l \in 1..Ttl, knowing \in SUBSET Callers :
             ReplaceEntity(l, knowing) => EntityTyped'
        /\ DeleteEntity => EntityTyped'
    BY WriteTyped
  <2>. USE IntervalFits DEF TypeOK, entityVars, callVars
  <2>1. ASSUME NEW c \in Callers, Call(c)
        PROVE  TypeOK'
    BY <2>1, <2>c DEF Call, Conditional, Place, Request, CallTyped, EntityTyped
  <2>2. ASSUME NEW c \in Callers, Create(c)
        PROVE  TypeOK'
    BY <2>2, <2>a, <2>b, <2>d, <2>c DEF Create, Conditional, Place, Request, CallTyped, EntityTyped
  <2>3. ASSUME NEW c \in Callers, CreateUnacked(c)
        PROVE  TypeOK'
    BY <2>3, <2>a, <2>b, <2>d, <2>c DEF CreateUnacked, Conditional, Place, Request, CallTyped, EntityTyped
  <2>4. ASSUME NEW c \in Callers, Look(c)
        PROVE  TypeOK'
    BY <2>4, <2>b, <2>c DEF Look, Conditional, Place, Request, CallTyped, EntityTyped
  <2>5. ASSUME NEW c \in Callers, Reclaim(c)
        PROVE  TypeOK'
    BY <2>5, <2>b, <2>d, <2>c DEF Reclaim, Conditional, Place, Request, CallTyped, EntityTyped
  <2>6. ASSUME NEW c \in Callers, SendRenew(c)
        PROVE  TypeOK'
    BY <2>6 DEF SendRenew, Conditional, Place, Request, CallTyped, EntityTyped
  <2>7. ASSUME NEW c \in Callers, Renew(c)
        PROVE  TypeOK'
    BY <2>7, <2>a, <2>d DEF Renew, Conditional, Place, Request, CallTyped, EntityTyped
  <2>8. ASSUME NEW c \in Callers, RenewFails(c)
        PROVE  TypeOK'
    BY <2>8, <2>a, <2>d DEF RenewFails, InFlight, Conditional, Place, Request, CallTyped, EntityTyped
  <2>9. ASSUME NEW c \in Callers, Finish(c)
        PROVE  TypeOK'
    BY <2>9, <2>c DEF Finish, Conditional, Place, Request, CallTyped, EntityTyped
  <2>10. ASSUME NEW c \in Callers, Lookup(c)
         PROVE  TypeOK'
    BY <2>10, <2>b, <2>c DEF Lookup, Conditional, Place, Request, CallTyped, EntityTyped
  <2>11. ASSUME NEW c \in Callers, Remove(c)
         PROVE  TypeOK'
    BY <2>11, <2>b, <2>d DEF Remove, LeaveBehind, Conditional, Place, Request, CallTyped, EntityTyped
  <2>12. ASSUME NEW c \in Callers, RequestFails(c)
         PROVE  TypeOK'
    BY <2>12, <2>b, <2>d DEF RequestFails, LeaveBehind, InFlight, Conditional, Place, Request, CallTyped, EntityTyped
  <2>13. ASSUME NEW c \in Callers, Crash(c)
         PROVE  TypeOK'
    BY <2>13, <2>b DEF Crash, LeaveBehind, InFlight, Conditional, Place, Request, CallTyped, EntityTyped
  <2>14. ASSUME NEW request \in {"create"} \cup Conditional, Arrive(request)
         PROVE  TypeOK'
    BY <2>14, <2>d DEF Arrive, Conditional, Place, Request, CallTyped, EntityTyped
  <2>15. ASSUME Tick
         PROVE  TypeOK'
    BY <2>15 DEF Tick, Later, Waiting, Conditional, Place, Request, CallTyped, EntityTyped
  <2>16. CASE UNCHANGED vars
    BY <2>16 DEF vars
  <2>. QED
    BY <2>1, <2>2, <2>3, <2>4, <2>5, <2>6, <2>7, <2>8, <2>9, <2>10, <2>11, <2>12, <2>13, <2>14, <2>15, <2>16
       DEF Next, CallStep
<1>. QED
  BY <1>1, <1>2, PTL DEF Spec

-----------------------------------------------------------------------------
(* An etag that a call has read vouches for what it read: an expired       *)
(* entity is still expired, the call's own entity still its own.  A late   *)
(* deletion has only such a one as its target, or what an ended call left. *)
EtagsVouch ==
  /\ \A c \in renewing : pc[c] = "inside"
  /\ \A c \in Callers \cap current :
       /\ pc[c] = "reclaim" => left = 0
       /\ pc[c] = "remove" => holder = c
  /\ "delete" \in late => left = 0 \/ holder = Orphan

LEMMA EtagsVouchInductive == Spec => []EtagsVouch
<1>. USE ScopeLeaseAssumption
<1>1. Init => EtagsVouch
  BY DEF Init, EtagsVouch
<1>2. TypeOK /\ EtagsVouch /\ [Next]_vars => EtagsVouch'
  <2>. SUFFICES ASSUME TypeOK, EtagsVouch, [Next]_vars
                PROVE  EtagsVouch'
    OBVIOUS
  <2>. USE DEF TypeOK, EtagsVouch, entityVars, callVars
  <2>1. ASSUME NEW c \in Callers, Call(c)
        PROVE  EtagsVouch'
    BY <2>1 DEF Call, Send, Rewritten, Conditional
  <2>2. ASSUME NEW c \in Callers, Create(c)
        PROVE  EtagsVouch'
    BY <2>2 DEF Create, CreateEntity, End, Send, Rewritten, Conditional
  <2>3. ASSUME NEW c \in Callers, CreateUnacked(c)
        PROVE  EtagsVouch'
    BY <2>3 DEF CreateUnacked, CreateEntity, End, Send, Rewritten, Conditional
  <2>4. ASSUME NEW c \in Callers, Look(c)
        PROVE  EtagsVouch'
    BY <2>4 DEF Look, End, Send, Rewritten, Conditional
  <2>5. ASSUME NEW c \in Callers, Reclaim(c)
        PROVE  EtagsVouch'
    BY <2>5 DEF Reclaim, DeleteEntity, End, Send, Rewritten, Conditional
  <2>6. ASSUME NEW c \in Callers, SendRenew(c)
        PROVE  EtagsVouch'
    BY <2>6 DEF SendRenew, Send, Rewritten, Conditional
  <2>7. ASSUME NEW c \in Callers, Renew(c)
        PROVE  EtagsVouch'
    BY <2>7 DEF Renew, ReplaceEntity, Send, Rewritten, Conditional
  <2>8. ASSUME NEW c \in Callers, RenewFails(c)
        PROVE  EtagsVouch'
    BY <2>8 DEF RenewFails, ReplaceEntity, InFlight, Send, Rewritten, Conditional
  <2>9. ASSUME NEW c \in Callers, Finish(c)
        PROVE  EtagsVouch'
    BY <2>9 DEF Finish, Send, Rewritten, Conditional
  <2>10. ASSUME NEW c \in Callers, Lookup(c)
         PROVE  EtagsVouch'
    BY <2>10 DEF Lookup, End, Send, Rewritten, Conditional
  <2>11. ASSUME NEW c \in Callers, Remove(c)
         PROVE  EtagsVouch'
    BY <2>11 DEF Remove, DeleteEntity, LeaveBehind, End, Send, Rewritten, Conditional
  <2>12. ASSUME NEW c \in Callers, RequestFails(c)
         PROVE  EtagsVouch'
    BY <2>12 DEF RequestFails, DeleteEntity, LeaveBehind, InFlight, End, Send, Rewritten, Conditional
  <2>13. ASSUME NEW c \in Callers, Crash(c)
         PROVE  EtagsVouch'
    BY <2>13 DEF Crash, LeaveBehind, InFlight, End, Send, Rewritten, Conditional
  <2>14. ASSUME NEW request \in {"create"} \cup Conditional, Arrive(request)
         PROVE  EtagsVouch'
    BY <2>14 DEF Arrive, CreateEntity, ReplaceEntity, DeleteEntity, Send, Rewritten, Conditional
  <2>15. ASSUME Tick
         PROVE  EtagsVouch'
    BY <2>15 DEF Tick, Later, Waiting, Send, Rewritten, Conditional
  <2>16. CASE UNCHANGED vars
    BY <2>16 DEF vars
  <2>. QED
    BY <2>1, <2>2, <2>3, <2>4, <2>5, <2>6, <2>7, <2>8, <2>9, <2>10, <2>11, <2>12, <2>13, <2>14, <2>15, <2>16
       DEF Next, CallStep
<1>. QED
  BY <1>1, <1>2, LeaseTypes, PTL DEF Spec

(* No release, reclaim or renewal takes the entity of a call inside its    *)
(* body that has time left, whoever sent it and however late it arrives.   *)
THEOREM EtagsProtect == Spec => NobodyElseEndsIt
<1>. USE ScopeLeaseAssumption
<1>1. TypeOK /\ EtagsVouch /\ [Next]_vars =>
        [\A c \in Callers :
           holder = c /\ left > 0 /\ pc[c] = "inside" /\ pc'[c] = "inside" => holder' = c]_vars
  <2>. SUFFICES ASSUME TypeOK, EtagsVouch, [Next]_vars, NEW x \in Callers,
                       holder = x, left > 0, pc[x] = "inside", pc'[x] = "inside"
                PROVE  holder' = x
    OBVIOUS
  <2>. USE DEF TypeOK, EtagsVouch, entityVars, callVars
  <2>1. ASSUME NEW c \in Callers, Call(c)
        PROVE  holder' = x
    BY <2>1 DEF Call, Send, Rewritten, Conditional
  <2>2. ASSUME NEW c \in Callers, Create(c)
        PROVE  holder' = x
    BY <2>2 DEF Create, CreateEntity, End, Send, Rewritten, Conditional
  <2>3. ASSUME NEW c \in Callers, CreateUnacked(c)
        PROVE  holder' = x
    BY <2>3 DEF CreateUnacked, CreateEntity, End, Send, Rewritten, Conditional
  <2>4. ASSUME NEW c \in Callers, Look(c)
        PROVE  holder' = x
    BY <2>4 DEF Look, End, Send, Rewritten, Conditional
  <2>5. ASSUME NEW c \in Callers, Reclaim(c)
        PROVE  holder' = x
    BY <2>5 DEF Reclaim, DeleteEntity, End, Send, Rewritten, Conditional
  <2>6. ASSUME NEW c \in Callers, SendRenew(c)
        PROVE  holder' = x
    BY <2>6 DEF SendRenew, Send, Rewritten, Conditional
  <2>7. ASSUME NEW c \in Callers, Renew(c)
        PROVE  holder' = x
    BY <2>7 DEF Renew, ReplaceEntity, Send, Rewritten, Conditional
  <2>8. ASSUME NEW c \in Callers, RenewFails(c)
        PROVE  holder' = x
    BY <2>8 DEF RenewFails, ReplaceEntity, InFlight, Send, Rewritten, Conditional
  <2>9. ASSUME NEW c \in Callers, Finish(c)
        PROVE  holder' = x
    BY <2>9 DEF Finish, Send, Rewritten, Conditional
  <2>10. ASSUME NEW c \in Callers, Lookup(c)
         PROVE  holder' = x
    BY <2>10 DEF Lookup, End, Send, Rewritten, Conditional
  <2>11. ASSUME NEW c \in Callers, Remove(c)
         PROVE  holder' = x
    BY <2>11 DEF Remove, DeleteEntity, LeaveBehind, End, Send, Rewritten, Conditional
  <2>12. ASSUME NEW c \in Callers, RequestFails(c)
         PROVE  holder' = x
    BY <2>12 DEF RequestFails, DeleteEntity, LeaveBehind, InFlight, End, Send, Rewritten, Conditional
  <2>13. ASSUME NEW c \in Callers, Crash(c)
         PROVE  holder' = x
    BY <2>13 DEF Crash, LeaveBehind, InFlight, End, Send, Rewritten, Conditional
  <2>14. ASSUME NEW request \in {"create"} \cup Conditional, Arrive(request)
         PROVE  holder' = x
    BY <2>14 DEF Arrive, CreateEntity, ReplaceEntity, DeleteEntity, Send, Rewritten, Conditional
  <2>15. ASSUME Tick
         PROVE  holder' = x
    BY <2>15 DEF Tick, Later, Waiting, Send, Rewritten, Conditional
  <2>16. CASE UNCHANGED vars
    BY <2>16 DEF vars
  <2>. QED
    BY <2>1, <2>2, <2>3, <2>4, <2>5, <2>6, <2>7, <2>8, <2>9, <2>10, <2>11, <2>12, <2>13, <2>14, <2>15, <2>16
       DEF Next, CallStep
<1>. QED
  BY <1>1, LeaseTypes, EtagsVouchInductive, PTL DEF Spec, NobodyElseEndsIt

-----------------------------------------------------------------------------
(* How long the entity of a call inside its body has gone unrenewed.       *)
Unrenewed(c) ==
  IF c \in lost          THEN Timeout + Interval + Timeout + since[c]
  ELSE IF c \in renewing THEN Timeout + Interval + age[c]
                         ELSE Timeout + timer[c]

(* Nothing in a punctual process is overdue.                               *)
OnTime ==
  Punctual => \A c \in Callers :
    /\ c \in renewing \ lost => timer[c] = age[c]
    /\ holder = c /\ pc[c] = "inside" => left + Unrenewed(c) >= Ttl

LEMMA OnTimeInductive == Spec => []OnTime
<1>. USE ScopeLeaseAssumption
<1>1. Init => OnTime
  BY DEF Init, OnTime
<1>2. TypeOK /\ EtagsVouch /\ OnTime /\ [Next]_vars => OnTime'
  <2>. SUFFICES ASSUME TypeOK, EtagsVouch, OnTime, [Next]_vars
                PROVE  OnTime'
    OBVIOUS
  <2>a. \A c \in Callers : \A l \in Fresh(c) : l \in 1..Ttl /\ (Punctual => l = Ttl - age[c])
    BY FreshTime
  <2>b. \A c \in renewing : pc[c] = "inside"
    BY DEF EtagsVouch
  <2>. USE IntervalFits DEF TypeOK, OnTime, Unrenewed, entityVars, callVars
  <2>1. ASSUME NEW c \in Callers, Call(c)
        PROVE  OnTime'
    BY <2>1, <2>b DEF Call, Send, Rewritten, Conditional
  <2>2. ASSUME NEW c \in Callers, Create(c)
        PROVE  OnTime'
    BY <2>2, <2>a, <2>b DEF Create, CreateEntity, End, Send, Rewritten, Conditional
  <2>3. ASSUME NEW c \in Callers, CreateUnacked(c)
        PROVE  OnTime'
    BY <2>3, <2>a, <2>b DEF CreateUnacked, CreateEntity, End, Send, Rewritten, Conditional
  <2>4. ASSUME NEW c \in Callers, Look(c)
        PROVE  OnTime'
    BY <2>4, <2>b DEF Look, End, Send, Rewritten, Conditional
  <2>5. ASSUME NEW c \in Callers, Reclaim(c)
        PROVE  OnTime'
    BY <2>5, <2>b DEF Reclaim, DeleteEntity, End, Send, Rewritten, Conditional
  <2>6. ASSUME NEW c \in Callers, SendRenew(c)
        PROVE  OnTime'
    BY <2>6, <2>b DEF SendRenew, Send, Rewritten, Conditional
  <2>7. ASSUME NEW c \in Callers, Renew(c)
        PROVE  OnTime'
    BY <2>7, <2>a, <2>b DEF Renew, ReplaceEntity, Send, Rewritten, Conditional
  <2>8. ASSUME NEW c \in Callers, RenewFails(c)
        PROVE  OnTime'
    BY <2>8, <2>a, <2>b DEF RenewFails, ReplaceEntity, InFlight, Send, Rewritten, Conditional
  <2>9. ASSUME NEW c \in Callers, Finish(c)
        PROVE  OnTime'
    BY <2>9, <2>b DEF Finish, Send, Rewritten, Conditional
  <2>10. ASSUME NEW c \in Callers, Lookup(c)
         PROVE  OnTime'
    BY <2>10, <2>b DEF Lookup, End, Send, Rewritten, Conditional
  <2>11. ASSUME NEW c \in Callers, Remove(c)
         PROVE  OnTime'
    BY <2>11, <2>b DEF Remove, DeleteEntity, LeaveBehind, End, Send, Rewritten, Conditional
  <2>12. ASSUME NEW c \in Callers, RequestFails(c)
         PROVE  OnTime'
    BY <2>12, <2>b DEF RequestFails, DeleteEntity, LeaveBehind, InFlight, End, Send, Rewritten, Conditional
  <2>13. ASSUME NEW c \in Callers, Crash(c)
         PROVE  OnTime'
    BY <2>13, <2>b DEF Crash, LeaveBehind, InFlight, End, Send, Rewritten, Conditional
  <2>14. ASSUME NEW request \in {"create"} \cup Conditional, Arrive(request)
         PROVE  OnTime'
    BY <2>14, <2>b DEF Arrive, CreateEntity, ReplaceEntity, DeleteEntity, Send, Rewritten, Conditional
  <2>15. ASSUME Tick
         PROVE  OnTime'
    BY <2>15, <2>b DEF Tick, Later, Waiting, Send, Rewritten, Conditional
  <2>16. CASE UNCHANGED vars
    BY <2>16 DEF vars
  <2>. QED
    BY <2>1, <2>2, <2>3, <2>4, <2>5, <2>6, <2>7, <2>8, <2>9, <2>10, <2>11, <2>12, <2>13, <2>14, <2>15, <2>16
       DEF Next, CallStep
<1>. QED
  BY <1>1, <1>2, LeaseTypes, EtagsVouchInductive, PTL DEF Spec

(* In a punctual process, a lease that leaseSignal vouches for has time    *)
(* left.                                                                   *)
LEMMA VouchedHasTime ==
  ASSUME TypeOK, OnTime, Punctual, NEW c \in Callers,
         pc[c] = "inside", c \notin lost, holder = c
  PROVE  left > 0
<1>1. /\ left \in Nat
      /\ age[c] \in 0..Timeout
      /\ timer[c] \in 0..Interval
  BY ScopeLeaseAssumption DEF TypeOK
<1>2. left + Unrenewed(c) >= Ttl
  BY DEF OnTime
<1>. QED
  BY <1>1, <1>2, IntervalFits, ScopeLeaseAssumption DEF Unrenewed

(* It also still has the entity.                                           *)
Vouched == \A c \in Callers : pc[c] = "inside" /\ c \notin lost => holder = c

(* leaseSignal tells the truth in every punctual process, whatever the     *)
(* requests to the tables come to.                                         *)
THEOREM SignalTruthful ==
  ASSUME Punctual
  PROVE  Spec => []SignalIsTruthful
<1>. USE ScopeLeaseAssumption
<1>1. Init => Vouched
  BY DEF Init, Vouched
<1>2. TypeOK /\ EtagsVouch /\ OnTime /\ Vouched /\ [Next]_vars => Vouched'
  <2>. SUFFICES ASSUME TypeOK, EtagsVouch, OnTime, Vouched, [Next]_vars,
                       NEW x \in Callers, pc'[x] = "inside", x \notin lost'
                PROVE  holder' = x
    BY DEF Vouched
  <2>0. pc[x] = "inside" /\ x \notin lost => left > 0
    BY VouchedHasTime DEF Vouched
  <2>. USE DEF TypeOK, EtagsVouch, Vouched, entityVars, callVars
  <2>1. ASSUME NEW c \in Callers, Call(c)
        PROVE  holder' = x
    BY <2>1, <2>0 DEF Call, Send, Rewritten, Conditional
  <2>2. ASSUME NEW c \in Callers, Create(c)
        PROVE  holder' = x
    BY <2>2, <2>0 DEF Create, CreateEntity, End, Send, Rewritten, Conditional
  <2>3. ASSUME NEW c \in Callers, CreateUnacked(c)
        PROVE  holder' = x
    BY <2>3, <2>0 DEF CreateUnacked, CreateEntity, End, Send, Rewritten, Conditional
  <2>4. ASSUME NEW c \in Callers, Look(c)
        PROVE  holder' = x
    BY <2>4, <2>0 DEF Look, End, Send, Rewritten, Conditional
  <2>5. ASSUME NEW c \in Callers, Reclaim(c)
        PROVE  holder' = x
    BY <2>5, <2>0 DEF Reclaim, DeleteEntity, End, Send, Rewritten, Conditional
  <2>6. ASSUME NEW c \in Callers, SendRenew(c)
        PROVE  holder' = x
    BY <2>6, <2>0 DEF SendRenew, Send, Rewritten, Conditional
  <2>7. ASSUME NEW c \in Callers, Renew(c)
        PROVE  holder' = x
    BY <2>7, <2>0 DEF Renew, ReplaceEntity, Send, Rewritten, Conditional
  <2>8. ASSUME NEW c \in Callers, RenewFails(c)
        PROVE  holder' = x
    BY <2>8, <2>0 DEF RenewFails, ReplaceEntity, InFlight, Send, Rewritten, Conditional
  <2>9. ASSUME NEW c \in Callers, Finish(c)
        PROVE  holder' = x
    BY <2>9, <2>0 DEF Finish, Send, Rewritten, Conditional
  <2>10. ASSUME NEW c \in Callers, Lookup(c)
         PROVE  holder' = x
    BY <2>10, <2>0 DEF Lookup, End, Send, Rewritten, Conditional
  <2>11. ASSUME NEW c \in Callers, Remove(c)
         PROVE  holder' = x
    BY <2>11, <2>0 DEF Remove, DeleteEntity, LeaveBehind, End, Send, Rewritten, Conditional
  <2>12. ASSUME NEW c \in Callers, RequestFails(c)
         PROVE  holder' = x
    BY <2>12, <2>0 DEF RequestFails, DeleteEntity, LeaveBehind, InFlight, End, Send, Rewritten, Conditional
  <2>13. ASSUME NEW c \in Callers, Crash(c)
         PROVE  holder' = x
    BY <2>13, <2>0 DEF Crash, LeaveBehind, InFlight, End, Send, Rewritten, Conditional
  <2>14. ASSUME NEW request \in {"create"} \cup Conditional, Arrive(request)
         PROVE  holder' = x
    BY <2>14, <2>0 DEF Arrive, CreateEntity, ReplaceEntity, DeleteEntity, Send, Rewritten, Conditional
  <2>15. ASSUME Tick
         PROVE  holder' = x
    BY <2>15, <2>0 DEF Tick, Later, Waiting, Send, Rewritten, Conditional
  <2>16. CASE UNCHANGED vars
    BY <2>16 DEF vars
  <2>. QED
    BY <2>1, <2>2, <2>3, <2>4, <2>5, <2>6, <2>7, <2>8, <2>9, <2>10, <2>11, <2>12, <2>13, <2>14, <2>15, <2>16
       DEF Next, CallStep
<1>3. TypeOK /\ OnTime /\ Vouched => SignalIsTruthful
  BY VouchedHasTime DEF Vouched, SignalIsTruthful
<1>. QED
  BY <1>1, <1>2, <1>3, LeaseTypes, EtagsVouchInductive, OnTimeInductive, PTL DEF Spec

-----------------------------------------------------------------------------
(* The promise.  A step of the lease is a step of ScopeLeasePromise or     *)
(* changes nothing it speaks of.                                           *)

LeaseStep == [Promise!LeaseNext]_(Promise!leased)

Inside == {c \in Callers : pc[c] = "inside"}

(* Without stalls, no lease expires under a call inside its body: the tick *)
(* that would do so does not come.                                         *)
LEMMA LastTick ==
  ASSUME TypeOK, OnTime, Tick, NEW c \in Callers, holder = c, pc[c] = "inside", left = 1
  PROVE  ~(Punctual /\ Fits)
<1>. SUFFICES ASSUME Punctual, Fits
              PROVE  FALSE
  OBVIOUS
<1>1. /\ age[c] \in 0..Timeout
      /\ timer[c] \in 0..Interval
      /\ since[c] \in 0..Tail
  BY DEF TypeOK
<1>2. left + Unrenewed(c) >= Ttl
  BY DEF OnTime
<1>3. /\ c \in renewing => age[c] < Timeout
      /\ c \notin lost => timer[c] < Interval
      /\ c \in lost => since[c] < Tail
  BY DEF Tick, Waiting
<1>. QED
  BY <1>1, <1>2, <1>3, IntervalFits, ScopeLeaseAssumption DEF Unrenewed, Fits

(* A call that moves between places outside the body.                      *)
LEMMA MovesOutside ==
  ASSUME TypeOK, NEW c \in Callers, NEW place, Send(c, place),
         pc[c] # "inside", place # "inside"
  PROVE  Inside' = Inside
  BY DEF TypeOK, Inside, Send

(* A call outside the body drops its entity, or has none.                  *)
LEMMA DropIsPromised ==
  ASSUME TypeOK, NEW c \in Callers, pc[c] # "inside", Inside' = Inside,
         LeaveBehind(c), left' = left
  PROVE  LeaseStep
<1>. USE ScopeLeaseAssumption DEF LeaseStep, Promise!leased, Inside
<1>1. CASE holder = c
  <2>1. Promise!Drop
    BY <1>1 DEF Promise!Drop, LeaveBehind
  <2>. QED
    BY <2>1 DEF Promise!LeaseNext
<1>2. CASE holder # c
  BY <1>2 DEF LeaveBehind
<1>. QED
  BY <1>1, <1>2

(* An expired or missing entity may go, or be replaced by one that nobody  *)
(* knows he owns.                                                          *)
LEMMA WasteIsPromised ==
  ASSUME holder = Nobody \/ left = 0, Inside' = Inside,
         holder' = Nobody \/ (holder' = Orphan /\ left' # 0)
  PROVE  LeaseStep
<1>1. Promise!Waste
  BY DEF Promise!Waste, Promise!Free, Inside
<1>. QED
  BY <1>1 DEF LeaseStep, Promise!LeaseNext

(* The entity of a call that is outside the body may go.                   *)
LEMMA DeleteIsPromised ==
  ASSUME holder \notin Inside, Inside' = Inside, DeleteEntity
  PROVE  LeaseStep
<1>. USE DEF LeaseStep, Promise!leased, Inside, DeleteEntity
<1>1. CASE holder = Nobody
  BY <1>1
<1>2. CASE holder # Nobody
  <2>1. Promise!Drop
    BY <1>2 DEF Promise!Drop
  <2>. QED
    BY <2>1 DEF Promise!LeaseNext
<1>. QED
  BY <1>1, <1>2

(* A write that keeps the holder extends the lease, if there is one.       *)
LEMMA ExtendIsPromised ==
  ASSUME Inside' = Inside, holder' = holder, left' # 0
  PROVE  LeaseStep
<1>. USE DEF LeaseStep, Promise!leased, Inside
<1>1. CASE holder # Nobody /\ left = 0
  <2>1. Promise!Extend
    BY <1>1 DEF Promise!Extend
  <2>. QED
    BY <2>1 DEF Promise!LeaseNext
<1>2. CASE ~(holder # Nobody /\ left = 0)
  BY <1>2
<1>. QED
  BY <1>1, <1>2

LEMMA StepIsPromised ==
  ASSUME TypeOK, EtagsVouch, OnTime, [Next]_vars
  PROVE  LeaseStep
<1>. USE DEF entityVars, callVars
<1>a. ASSUME NEW c \in Callers, End(c), pc[c] # "inside"
      PROVE  Inside' = Inside
  BY <1>a, MovesOutside DEF End
<1>b. ASSUME UNCHANGED entityVars, Inside' = Inside
      PROVE  LeaseStep
  BY <1>b DEF LeaseStep, Promise!leased, Inside
<1>c. \A c \in Callers : \A l \in Fresh(c) : l # 0
  BY FreshTime
<1>1. ASSUME NEW c \in Callers, Call(c)
      PROVE  LeaseStep
  BY <1>1, <1>b, MovesOutside DEF Call
<1>2. ASSUME NEW c \in Callers, Create(c)
      PROVE  LeaseStep
  <2>1. ASSUME holder = Nobody, holder' = c, left' # 0, Send(c, "inside")
        PROVE  LeaseStep
    <3>1. pc' = [pc EXCEPT ![c] = "inside"] /\ pc[c] # "inside"
      BY <1>2, <2>1 DEF Create, Send
    <3>2. Promise!Enter(c)
      BY <2>1, <3>1, ScopeLeaseAssumption DEF Promise!Enter, Promise!Free, TypeOK
    <3>. QED
      BY <3>2 DEF LeaseStep, Promise!LeaseNext
  <2>2. ASSUME UNCHANGED entityVars, Send(c, "look") \/ End(c)
        PROVE  LeaseStep
    BY <1>2, <2>2, <1>a, <1>b, MovesOutside DEF Create
  <2>. QED
    BY <1>2, <2>1, <2>2, <1>c DEF Create, CreateEntity
<1>3. ASSUME NEW c \in Callers, CreateUnacked(c)
      PROVE  LeaseStep
  <2>1. holder = Nobody /\ holder' = Orphan /\ left' # 0
    BY <1>3, <1>c DEF CreateUnacked, CreateEntity
  <2>2. Inside' = Inside
    BY <1>3, <1>a, MovesOutside DEF CreateUnacked
  <2>. QED
    BY <2>1, <2>2, WasteIsPromised
<1>4. ASSUME NEW c \in Callers, Look(c)
      PROVE  LeaseStep
  <2>1. Inside' = Inside /\ UNCHANGED <<holder, left>>
    BY <1>4, <1>a, MovesOutside DEF Look
  <2>. QED
    BY <2>1 DEF LeaseStep, Promise!leased, Inside
<1>5. ASSUME NEW c \in Callers, Reclaim(c)
      PROVE  LeaseStep
  <2>1. Inside' = Inside
    BY <1>5, <1>a, MovesOutside DEF Reclaim
  <2>2. CASE c \in current
    <3>1. left = 0 /\ holder' = Nobody
      BY <1>5, <2>2 DEF Reclaim, DeleteEntity, EtagsVouch
    <3>. QED
      BY <2>1, <3>1, WasteIsPromised
  <2>3. CASE c \notin current
    BY <1>5, <2>1, <2>3, <1>b DEF Reclaim
  <2>. QED
    BY <2>2, <2>3
<1>6. ASSUME NEW c \in Callers, SendRenew(c)
      PROVE  LeaseStep
  BY <1>6, <1>b DEF SendRenew, Inside
<1>7. ASSUME NEW c \in Callers, Renew(c)
      PROVE  LeaseStep
  <2>1. Inside' = Inside
    BY <1>7 DEF Renew, Inside
  <2>2. UNCHANGED entityVars \/ (holder' = holder /\ left' # 0)
    BY <1>7, <1>c DEF Renew, ReplaceEntity
  <2>. QED
    BY <2>1, <2>2, <1>b, ExtendIsPromised
<1>8. ASSUME NEW c \in Callers, RenewFails(c)
      PROVE  LeaseStep
  <2>1. Inside' = Inside
    BY <1>8 DEF RenewFails, Inside
  <2>2. UNCHANGED <<holder, left>> \/ (holder' = holder /\ left' # 0)
    BY <1>8, <1>c DEF RenewFails, ReplaceEntity
  <2>3. CASE UNCHANGED <<holder, left>>
    BY <2>1, <2>3 DEF LeaseStep, Promise!leased, Inside
  <2>. QED
    BY <2>1, <2>2, <2>3, ExtendIsPromised
<1>9. ASSUME NEW c \in Callers, Finish(c)
      PROVE  LeaseStep
  <2>1. Promise!Exit(c)
    BY <1>9 DEF Finish, Send, Promise!Exit, TypeOK
  <2>. QED
    BY <2>1 DEF LeaseStep, Promise!LeaseNext
<1>10. ASSUME NEW c \in Callers, Lookup(c)
       PROVE  LeaseStep
  <2>1. Inside' = Inside /\ UNCHANGED <<holder, left>>
    BY <1>10, <1>a, MovesOutside DEF Lookup
  <2>. QED
    BY <2>1 DEF LeaseStep, Promise!leased, Inside
<1>11. ASSUME NEW c \in Callers, Remove(c)
       PROVE  LeaseStep
  <2>1. Inside' = Inside /\ pc[c] # "inside"
    BY <1>11, <1>a DEF Remove
  <2>2. CASE c \in current
    <3>1. DeleteEntity /\ holder \notin Inside
      BY <1>11, <2>2 DEF Remove, EtagsVouch, Inside
    <3>. QED
      BY <2>1, <3>1, DeleteIsPromised
  <2>3. CASE c \notin current
    BY <1>11, <2>1, <2>3, DropIsPromised DEF Remove
  <2>. QED
    BY <2>2, <2>3
<1>12. ASSUME NEW c \in Callers, RequestFails(c)
       PROVE  LeaseStep
  <2>1. Inside' = Inside /\ pc[c] # "inside"
    BY <1>12, <1>a DEF RequestFails, Request
  <2>2. CASE LeaveBehind(c) /\ left' = left
    BY <2>1, <2>2, DropIsPromised
  <2>3. CASE pc[c] = "reclaim" /\ c \in current /\ DeleteEntity
    <3>1. left = 0 /\ holder' = Nobody
      BY <2>3 DEF DeleteEntity, EtagsVouch
    <3>. QED
      BY <2>1, <3>1, WasteIsPromised
  <2>4. CASE pc[c] = "remove" /\ c \in current /\ DeleteEntity
    <3>1. holder \notin Inside
      BY <2>4 DEF EtagsVouch, Inside
    <3>. QED
      BY <2>1, <2>4, <3>1, DeleteIsPromised
  <2>. QED
    BY <1>12, <2>2, <2>3, <2>4 DEF RequestFails
<1>13. ASSUME NEW c \in Callers, Crash(c)
       PROVE  LeaseStep
  <2>1. LeaveBehind(c) /\ left' = left /\ pc' = [pc EXCEPT ![c] = "out"]
    BY <1>13 DEF Crash, End, Send
  <2>2. CASE pc[c] # "inside"
    BY <1>13, <2>1, <2>2, <1>a, DropIsPromised DEF Crash
  <2>3. CASE pc[c] = "inside"
    <3>1. Promise!Exit(c)
      BY <2>1, <2>3, ScopeLeaseAssumption DEF Promise!Exit, LeaveBehind, TypeOK
    <3>. QED
      BY <3>1 DEF LeaseStep, Promise!LeaseNext
  <2>. QED
    BY <2>2, <2>3
<1>14. ASSUME NEW request \in {"create"} \cup Conditional, Arrive(request)
       PROVE  LeaseStep
  <2>1. Inside' = Inside
    BY <1>14 DEF Arrive, Inside
  <2>2. CASE UNCHANGED <<holder, left>>
    BY <2>1, <2>2 DEF LeaseStep, Promise!leased, Inside
  <2>3. CASE holder = Nobody /\ holder' = Orphan /\ left' # 0
    BY <2>1, <2>3, WasteIsPromised
  <2>4. CASE holder' = holder /\ left' # 0
    BY <2>1, <2>4, ExtendIsPromised
  <2>5. CASE request = "delete" /\ DeleteEntity
    <3>1. left = 0 \/ holder = Orphan
      BY <1>14, <2>5 DEF Arrive, EtagsVouch
    <3>2. holder = Orphan => holder \notin Inside
      BY ScopeLeaseAssumption DEF Inside
    <3>3. holder' = Nobody
      BY <2>5 DEF DeleteEntity
    <3>. QED
      BY <2>1, <2>5, <3>1, <3>2, <3>3, WasteIsPromised, DeleteIsPromised
  <2>. QED
    BY <1>14, <2>2, <2>3, <2>4, <2>5 DEF Arrive, CreateEntity, ReplaceEntity
<1>15. ASSUME Tick
       PROVE  LeaseStep
  <2>1. /\ Inside' = Inside
        /\ holder' = holder
        /\ left \in Nat
        /\ left' = IF left > 0 THEN left - 1 ELSE 0
    BY <1>15, ScopeLeaseAssumption DEF Tick, Inside, TypeOK
  <2>2. CASE left' # 0 \/ left = 0 \/ holder = Nobody
    BY <2>1, <2>2 DEF LeaseStep, Promise!leased, Inside
  <2>3. CASE left' = 0 /\ left # 0 /\ holder # Nobody
    <3>1. holder \in Inside => ~(Punctual /\ Fits)
      BY <1>15, <2>1, <2>3, LastTick DEF Inside
    <3>2. Promise!LapseNow
      BY <2>1, <2>3, <3>1 DEF Promise!LapseNow, Inside
    <3>. QED
      BY <3>2 DEF LeaseStep, Promise!LeaseNext
  <2>. QED
    BY <2>2, <2>3
<1>16. CASE UNCHANGED vars
  BY <1>16, <1>b DEF vars, Inside
<1>. QED
  BY <1>1, <1>2, <1>3, <1>4, <1>5, <1>6, <1>7, <1>8, <1>9, <1>10, <1>11, <1>12, <1>13, <1>14,
     <1>15, <1>16
     DEF Next, CallStep

(* withScopeLock keeps its promise for every lease time, timeout and tail: *)
(* only a call that a pause, or a tail that does not fit, has kept past    *)
(* its expiry is ever joined in the body by another.                       *)
THEOREM LeaseKept == Spec => ImplementsLease
<1>1. Init => Promise!LeaseInit
  BY ScopeLeaseAssumption DEF Init, Promise!LeaseInit
<1>2. TypeOK /\ EtagsVouch /\ OnTime /\ [Next]_vars => LeaseStep
  BY StepIsPromised
<1>. QED
  BY <1>1, <1>2, LeaseTypes, EtagsVouchInductive, OnTimeInductive, PTL
     DEF Spec, ImplementsLease, Promise!LeaseSpec, LeaseStep
=============================================================================
