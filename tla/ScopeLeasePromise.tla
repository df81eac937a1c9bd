-------------------------- MODULE ScopeLeasePromise --------------------------
(***************************************************************************)
(* What withScopeLock promises of one scope: who owns the lease entity,    *)
(* whether it has lapsed, and which calls are inside the locked body.      *)
(* ScopeLease implements it entity by entity and etag by etag;             *)
(* DeploymentLifecycle takes no other steps with the lease of a scope.     *)
(***************************************************************************)

CONSTANTS
  Workers,
  Nobody,    (* owner of an entity that does not exist                     *)
  Orphan,    (* owner of an entity whose call has ended without it         *)
  Stalls     (* whether an entity may lapse under a call still inside      *)

VARIABLES owner, lapsed, inside

leased == <<owner, lapsed, inside>>

Free == owner = Nobody \/ lapsed

LeaseInit ==
  /\ owner = Nobody
  /\ lapsed = FALSE
  /\ inside = {}

Enter(w) ==
  /\ w \notin inside
  /\ Free
  /\ owner' = w
  /\ lapsed' = FALSE
  /\ inside' = inside \cup {w}

(* A free lease is cleared away, or taken by a call that never learns.     *)
Waste ==
  /\ Free
  /\ owner' \in {Nobody, Orphan}
  /\ lapsed' = FALSE
  /\ UNCHANGED inside

Extend ==
  /\ owner # Nobody
  /\ lapsed
  /\ lapsed' = FALSE
  /\ UNCHANGED <<owner, inside>>

LapseNow ==
  /\ owner # Nobody
  /\ ~lapsed
  /\ owner \in inside => Stalls
  /\ lapsed' = TRUE
  /\ UNCHANGED <<owner, inside>>

(* A call ends its body, or dies in it.                                    *)
Exit(w) ==
  /\ w \in inside
  /\ inside' = inside \ {w}
  /\ \/ UNCHANGED owner
     \/ owner = w /\ owner' = Orphan
  /\ UNCHANGED lapsed

(* An entity whose call is outside the body goes, or is left behind.       *)
Drop ==
  /\ owner \notin inside
  /\ owner # Nobody
  /\ \/ owner' = Nobody /\ lapsed' = FALSE
     \/ owner' = Orphan /\ UNCHANGED lapsed
  /\ UNCHANGED inside

LeaseNext ==
  \/ \E w \in Workers : Enter(w) \/ Exit(w)
  \/ Waste \/ Extend \/ LapseNow \/ Drop

LeaseSpec == LeaseInit /\ [][LeaseNext]_leased
=============================================================================
