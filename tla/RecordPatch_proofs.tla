------------------------- MODULE RecordPatch_proofs --------------------------
(***************************************************************************)
(* Theorems about RecordPatch, for every number of concurrent patches and  *)
(* every number of rounds.                                                 *)
(***************************************************************************)
EXTENDS RecordPatch, TLAPS

Both == {"records", "locks"}
Outcomes == {"missing", "unapplied", "applied", "conflict", "error"}

Patching ==
  {Resting}
  \cup [at : {"ensure", "get", "again"}, patch : DeploymentPatches, round : 1..Attempts]
  \cup [at : {"update", "again"}, patch : DeploymentPatches, round : 1..Attempts,
        copy : DeploymentRecordStatus]
  \cup [at : {"done"}, patch : DeploymentPatches, outcome : Outcomes]

(* Where the lifecycle's patches can take a record that has a status.      *)
Beyond(status) ==
  CASE status = "submitting" -> {"submitting", "running"} \cup Terminal
    [] status = "running"    -> {"running"} \cup Terminal
    [] OTHER                 -> {status}

PatchTyped ==
  /\ patcher \in [Patchers -> Patching]
  /\ wrote \in [Patchers -> Nat]
  /\ current \subseteq Patchers
  /\ tables \in {{}, {"records"}, Both}
  /\ ensured \in {"none", "pending", "ready"}
  /\ ensured = "ready" => tables = Both
  /\ entity \in StoredStatus

(* The etag's promise: a copy that is still current is the entity, so the  *)
(* rules that were checked on the copy hold of the entity.  And a status   *)
(* patch that has been written can not apply again, since no patch leads   *)
(* back.                                                                   *)
PatcherInv(c) ==
  LET d == patcher[c] IN
  /\ d.at \in {"get", "update", "again"} => tables = Both
  /\ d.at = "update" => d.copy \in DeploymentRecordStatus
  /\ c \in current => d.at = "update" /\ d.copy = entity /\ Changes(entity, d.patch)
  /\ d.at # "idle" /\ d.patch.status # "note" =>
       /\ wrote[c] <= 1
       /\ wrote[c] >= 1 => entity \in Beyond(d.patch.status)
  /\ d.at = "done" =>
       /\ d.outcome = "applied" => wrote[c] >= 1
       /\ d.outcome = "missing" => wrote[c] = 0
  /\ entity = "absent" => wrote[c] = 0

(* An update that was given up carries the etag of the entity as it is, or *)
(* it would not be able to arrive.                                         *)
LateInv ==
  \A u \in late :
    /\ u.by \in Patchers
    /\ patcher[u.by].at = "done"
    /\ patcher[u.by].outcome = "error"
    /\ Changes(entity, patcher[u.by].patch)
    /\ u.status = After(entity, patcher[u.by].patch)

PatchInv == PatchTyped /\ LateInv /\ \A c \in Patchers : PatcherInv(c)

-----------------------------------------------------------------------------
(* What the patches do to a status.                                        *)
LEMMA PatchFacts ==
  ASSUME NEW p \in DeploymentPatches, NEW status \in StoredStatus, Changes(status, p)
  PROVE  /\ status \in DeploymentRecordStatus
         /\ After(status, p) \in DeploymentRecordStatus
         /\ p.status # "note" => /\ After(status, p) \in Beyond(p.status)
                                 /\ status \notin Beyond(p.status)
  BY DEF DeploymentPatches, ClaimPatches, FailurePatches, ReconcilePatches,
         Changes, After, PatchApplies, AllowedFrom, Terminal,
         DeploymentRecordStatus, StoredStatus, Beyond

LEMMA BeyondIsClosed ==
  ASSUME NEW p \in DeploymentPatches, NEW status \in StoredStatus, Changes(status, p),
         NEW q \in DeploymentPatches, q.status # "note", status \in Beyond(q.status)
  PROVE  After(status, p) \in Beyond(q.status)
  BY DEF DeploymentPatches, ClaimPatches, FailurePatches, ReconcilePatches,
         Changes, After, PatchApplies, AllowedFrom, Terminal,
         DeploymentRecordStatus, StoredStatus, Beyond

(* The fields of a call, by its place.                                     *)
LEMMA PatcherFields ==
  ASSUME NEW d \in Patching
  PROVE  /\ d.at \in {"idle", "ensure", "get", "update", "again", "done"}
         /\ d.at # "idle" => d.patch \in DeploymentPatches
         /\ d.at \in {"ensure", "get", "update", "again"} => d.round \in 1..Attempts
         /\ d.at = "update" => d.copy \in DeploymentRecordStatus
         /\ d.at = "done" => d.outcome \in Outcomes
  BY DEF Patching, Resting

LEMMA PatchInitially == PatchInit => PatchInv
  BY DEF PatchInit, PatchInv, PatchTyped, PatcherInv, LateInv, Patching, Resting, Both,
         StoredStatus

-----------------------------------------------------------------------------
(* A call that moves on without writing.                                   *)
LEMMA PatcherMoves ==
  ASSUME PatchInv, NEW c \in Patchers, NEW next \in Patching,
         patcher' = [patcher EXCEPT ![c] = next],
         UNCHANGED <<tables, entity>>, PatchTyped',
         \A other \in Patchers \ {c} : wrote'[other] = wrote[other],
         current' \subseteq current \cup {c},
         PatcherInv(c)', LateInv'
  PROVE  PatchInv'
<1>1. ASSUME NEW other \in Patchers \ {c} PROVE PatcherInv(other)'
  <2>1. /\ patcher'[other] = patcher[other]
        /\ wrote'[other] = wrote[other]
        /\ other \in current' => other \in current
    BY DEF PatchInv, PatchTyped
  <2>. QED
    BY <2>1 DEF PatchInv, PatcherInv
<1>. QED
  BY <1>1 DEF PatchInv

(* A write by the etag's rule, whether its answer arrives or not.          *)
LEMMA WriteKeeps ==
  ASSUME PatchInv, NEW c \in Patchers, patcher[c].at # "idle",
         Changes(entity, patcher[c].patch),
         Write(c, After(entity, patcher[c].patch)),
         UNCHANGED <<tables, ensured>>,
         NEW next \in Patching, patcher' = [patcher EXCEPT ![c] = next],
         next.at # "idle", next.patch = patcher[c].patch,
         next.at \in {"get", "update", "again"} => tables = Both,
         next.at = "done" => next.outcome # "missing"
  PROVE  PatchInv'
<1>. DEFINE p == patcher[c].patch
<1>1. p \in DeploymentPatches /\ entity \in StoredStatus /\ entity' = After(entity, p)
  BY PatcherFields DEF PatchInv, PatchTyped, Write
<1>2. /\ entity' \in DeploymentRecordStatus
      /\ p.status # "note" => entity' \in Beyond(p.status) /\ entity \notin Beyond(p.status)
  BY <1>1, PatchFacts
<1>3. entity' \in StoredStatus /\ entity' # "absent"
  BY <1>2 DEF StoredStatus, DeploymentRecordStatus, Terminal
<1>4. /\ wrote' = [wrote EXCEPT ![c] = @ + 1] /\ wrote \in [Patchers -> Nat]
      /\ patcher \in [Patchers -> Patching]
      /\ current' = {} /\ late' = {}
  BY DEF Write, PatchInv, PatchTyped
<1>5. PatchTyped' /\ LateInv'
  BY <1>3, <1>4 DEF PatchInv, PatchTyped, LateInv
<1>6. PatcherInv(c)'
  <2>1. wrote'[c] = wrote[c] + 1 /\ wrote[c] \in Nat /\ patcher'[c] = next
    BY <1>4
  <2>2. p.status # "note" => wrote[c] = 0
    BY <1>1, <1>2, <2>1 DEF PatchInv, PatcherInv
  <2>3. next.at = "update" => next.copy \in DeploymentRecordStatus
    BY PatcherFields
  <2>. QED
    BY <1>2, <1>3, <1>4, <2>1, <2>2, <2>3 DEF PatcherInv
<1>7. ASSUME NEW other \in Patchers \ {c} PROVE PatcherInv(other)'
  <2>1. patcher'[other] = patcher[other] /\ wrote'[other] = wrote[other] /\ wrote[other] \in Nat
    BY <1>4
  <2>2. patcher[other].at # "idle" => patcher[other].patch \in DeploymentPatches
    BY <1>4, PatcherFields
  <2>3. patcher[other].at # "idle" /\ patcher[other].patch.status # "note" /\ wrote[other] >= 1 =>
          entity' \in Beyond(patcher[other].patch.status)
    BY <1>1, <2>2, BeyondIsClosed DEF PatchInv, PatcherInv
  <2>. QED
    BY <1>3, <1>4, <2>1, <2>3 DEF PatchInv, PatcherInv
<1>. QED
  BY <1>5, <1>6, <1>7 DEF PatchInv

LEMMA PatchPreserved == PatchInv /\ [PatchNext]_patchVars => PatchInv'
<1>1. SUFFICES ASSUME PatchInv, [PatchNext]_patchVars PROVE PatchInv'
  OBVIOUS
<1>2. CASE UNCHANGED patchVars
  BY <1>1, <1>2 DEF PatchInv, PatchTyped, PatcherInv, LateInv, patchVars
<1>3. CASE CreateTable
  BY <1>1, <1>3 DEF CreateTable, PatchInv, PatchTyped, PatcherInv, LateInv, Both
<1>4. CASE CreationFails
  <2>1. ASSUME NEW c \in Patchers, patcher[c].at # "ensure" PROVE patcher'[c] = patcher[c]
    BY <1>4, <2>1 DEF CreationFails
  <2>2. ASSUME NEW c \in Patchers, patcher[c].at = "ensure"
        PROVE  /\ patcher'[c] \in Patching
               /\ patcher'[c].at = "done" /\ patcher'[c].patch = patcher[c].patch
               /\ patcher'[c].outcome = "error"
    <3>1. patcher'[c] = [at |-> "done", patch |-> patcher[c].patch, outcome |-> "error"]
      BY <1>4, <2>2 DEF CreationFails, Ended
    <3>2. patcher[c].patch \in DeploymentPatches
      BY <1>1, <2>2, PatcherFields DEF PatchInv, PatchTyped
    <3>. QED
      BY <3>1, <3>2 DEF Patching, Outcomes
  <2>3. patcher' \in [Patchers -> Patching]
    BY <1>1, <1>4, <2>1, <2>2 DEF CreationFails, PatchInv, PatchTyped
  <2>4. PatchTyped' /\ LateInv'
    BY <1>1, <1>4, <2>1, <2>3 DEF CreationFails, PatchInv, PatchTyped, LateInv
  <2>5. ASSUME NEW c \in Patchers PROVE PatcherInv(c)'
    <3>1. PatcherInv(c) /\ UNCHANGED <<tables, entity, current, wrote>>
      BY <1>1, <1>4 DEF CreationFails, PatchInv
    <3>2. CASE patcher[c].at # "ensure"
      BY <2>1, <3>1, <3>2 DEF PatcherInv
    <3>3. CASE patcher[c].at = "ensure"
      BY <2>2, <3>1, <3>3 DEF PatcherInv
    <3>. QED
      BY <3>2, <3>3
  <2>. QED
    BY <2>4, <2>5 DEF PatchInv
<1>5. CASE LateUpdate
  <2>1. PICK u \in late : Write(u.by, u.status) /\ UNCHANGED <<tables, ensured, patcher>>
    BY <1>5 DEF LateUpdate
  <2>. DEFINE c == u.by
  <2>2. /\ c \in Patchers /\ patcher[c].at = "done" /\ patcher[c].outcome = "error"
        /\ Changes(entity, patcher[c].patch) /\ u.status = After(entity, patcher[c].patch)
    BY <1>1 DEF PatchInv, LateInv
  <2>3. patcher[c] \in Patching /\ patcher' = [patcher EXCEPT ![c] = patcher[c]]
    BY <1>1, <2>1, <2>2 DEF PatchInv, PatchTyped
  <2>. QED
    BY <1>1, <2>1, <2>2, <2>3, WriteKeeps
<1>6. CASE UpdateVanishes
  BY <1>1, <1>6 DEF UpdateVanishes, PatchInv, PatchTyped, PatcherInv, LateInv
<1>7. CASE PutEntity
  <2>1. entity = "absent" /\ entity' = "previewed"
    BY <1>7 DEF PutEntity
  <2>2. \A p \in DeploymentPatches : ~Changes(entity, p)
    BY <2>1, PatchFacts DEF DeploymentRecordStatus, Terminal, StoredStatus
  <2>3. late = {} /\ current = {}
    <3>1. ASSUME NEW u \in late PROVE FALSE
      BY <1>1, <2>2, PatcherFields DEF PatchInv, PatchTyped, LateInv
    <3>2. ASSUME NEW c \in current PROVE FALSE
      BY <1>1, <2>2, PatcherFields DEF PatchInv, PatchTyped, PatcherInv
    <3>. QED
      BY <3>1, <3>2
  <2>4. UNCHANGED <<tables, ensured, patcher, current, late, wrote>>
    BY <1>7 DEF PutEntity
  <2>5. PatchTyped' /\ LateInv'
    BY <1>1, <2>1, <2>3, <2>4 DEF PatchInv, PatchTyped, LateInv, StoredStatus, DeploymentRecordStatus
  <2>6. ASSUME NEW c \in Patchers PROVE PatcherInv(c)'
    <3>1. PatcherInv(c) /\ wrote[c] = 0
      BY <1>1, <2>1 DEF PatchInv, PatcherInv
    <3>. QED
      BY <2>1, <2>3, <2>4, <3>1 DEF PatcherInv
  <2>. QED
    BY <2>5, <2>6 DEF PatchInv
<1>8. ASSUME NEW c \in Patchers, BeginPatch(c) \/ PatchStep(c) \/ EndPatch(c)
      PROVE  PatchInv'
  <2>. DEFINE d == patcher[c]
  <2>1. /\ d \in Patching /\ PatcherInv(c) /\ PatchTyped /\ LateInv
        /\ d.at \in {"idle", "ensure", "get", "update", "again", "done"}
        /\ wrote[c] \in Nat
    BY <1>1, PatcherFields DEF PatchInv, PatchTyped
  <2>2. d.at # "idle" => d.patch \in DeploymentPatches
    BY <2>1, PatcherFields
  <2>3. d.at # "done" => \A u \in late : u.by # c
    BY <2>1 DEF LateInv
  (* The calls that end keep their patch and hear an outcome.             *)
  <2>4. ASSUME d.at # "idle", NEW outcome \in Outcomes
        PROVE  Ended(c, outcome) \in Patching
    BY <2>2, <2>4 DEF Ended, Patching
  <2>5. CASE BeginPatch(c)
    <3>1. PICK p \in DeploymentPatches : patcher' = [patcher EXCEPT ![c] = [at |-> "ensure", patch |-> p, round |-> 1]]
      BY <2>5, PatchAssumption DEF BeginPatch, Move
    <3>. DEFINE next == [at |-> "ensure", patch |-> p, round |-> 1]
    <3>2. next \in Patching
      BY PatchAssumption DEF Patching
    <3>3. /\ patcher'[c] = next /\ wrote'[c] = 0 /\ d.at = "idle"
          /\ UNCHANGED <<tables, ensured, entity, current, late>>
      BY <2>1, <2>5, <3>1 DEF BeginPatch, PatchTyped, Resting
    <3>4. PatchTyped' /\ \A other \in Patchers \ {c} : wrote'[other] = wrote[other]
      BY <2>1, <2>5, <3>1, <3>2, <3>3 DEF BeginPatch, PatchTyped
    <3>5. LateInv'
      BY <2>1, <2>3, <3>1, <3>3 DEF LateInv, PatchTyped
    <3>6. PatcherInv(c)'
      BY <2>1, <3>3 DEF PatcherInv
    <3>. QED
      BY <1>1, <3>1, <3>2, <3>3, <3>4, <3>5, <3>6, PatcherMoves
  <2>6. CASE EnsureTables(c)
    <3>1. CASE ensured = "ready" /\ Move(c, [d EXCEPT !.at = "get"])
      <4>. DEFINE next == [d EXCEPT !.at = "get"]
      <4>1. /\ next \in Patching /\ next.at = "get" /\ next.patch = d.patch /\ d.at = "ensure"
        BY <2>1, <2>6 DEF EnsureTables, Patching, Resting
      <4>2. /\ patcher' = [patcher EXCEPT ![c] = next] /\ tables = Both
            /\ UNCHANGED <<tables, entity, current, late, wrote, ensured>>
        BY <2>1, <2>6, <3>1 DEF EnsureTables, Move, PatchTyped
      <4>. HIDE DEF next
      <4>3. patcher'[c] = next /\ PatchTyped' /\ LateInv'
        BY <2>1, <2>3, <4>1, <4>2 DEF PatchTyped, LateInv
      <4>4. PatcherInv(c)'
        BY <2>1, <4>1, <4>2, <4>3 DEF PatcherInv
      <4>. QED
        BY <1>1, <4>1, <4>2, <4>3, <4>4, PatcherMoves
    <3>2. CASE ensured' = "pending" /\ UNCHANGED patcher
      BY <1>1, <2>6, <3>2 DEF EnsureTables, PatchInv, PatchTyped, PatcherInv, LateInv
    <3>. QED
      BY <2>6, <3>1, <3>2 DEF EnsureTables
  <2>7. CASE ReadEntity(c)
    <3>1. d.at = "get" /\ tables = Both /\ UNCHANGED <<tables, ensured, entity, late, wrote>>
      BY <2>1, <2>7 DEF ReadEntity, PatcherInv
    <3>2. CASE \E outcome \in Outcomes :
                 /\ End(c, outcome) /\ UNCHANGED current /\ outcome # "applied"
                 /\ outcome = "missing" => entity = "absent"
      <4>1. PICK outcome \in Outcomes :
              /\ patcher' = [patcher EXCEPT ![c] = Ended(c, outcome)] /\ UNCHANGED current
              /\ outcome # "applied"
              /\ outcome = "missing" => entity = "absent"
        BY <3>2 DEF End, Move
      <4>2. /\ patcher'[c] = Ended(c, outcome) /\ PatchTyped' /\ LateInv'
        BY <2>1, <2>3, <2>4, <3>1, <4>1 DEF PatchTyped, LateInv
      <4>3. PatcherInv(c)'
        BY <2>1, <3>1, <4>1, <4>2 DEF PatcherInv, Ended
      <4>. QED
        BY <1>1, <2>4, <3>1, <4>1, <4>2, <4>3, PatcherMoves
    <3>3. CASE /\ entity # "absent" /\ Changes(entity, d.patch)
               /\ Move(c, [at |-> "update", patch |-> d.patch, round |-> d.round, copy |-> entity])
               /\ current' = current \cup {c}
      <4>. DEFINE next == [at |-> "update", patch |-> d.patch, round |-> d.round, copy |-> entity]
      <4>1. entity \in DeploymentRecordStatus
        BY <2>1, <3>3 DEF PatchTyped, StoredStatus
      <4>2. next \in Patching
        BY <2>1, <3>1, <4>1, PatcherFields DEF Patching
      <4>3. patcher' = [patcher EXCEPT ![c] = next]
        BY <3>3 DEF Move
      <4>4. patcher'[c] = next /\ PatchTyped' /\ LateInv'
        BY <2>1, <2>3, <3>1, <3>3, <4>2, <4>3 DEF PatchTyped, LateInv
      <4>5. PatcherInv(c)'
        BY <2>1, <3>1, <3>3, <4>1, <4>4 DEF PatcherInv
      <4>. QED
        BY <1>1, <3>1, <3>3, <4>2, <4>3, <4>4, <4>5, PatcherMoves
    <3>. QED
      BY <2>7, <3>2, <3>3 DEF ReadEntity, Outcomes
  <2>8. CASE UpdateEntity(c)
    <3>1. /\ d.at = "update" /\ d.copy = entity /\ Changes(entity, d.patch)
          /\ Write(c, After(entity, d.patch)) /\ UNCHANGED <<tables, ensured>>
          /\ patcher' = [patcher EXCEPT ![c] = Ended(c, "applied")]
      BY <2>1, <2>8 DEF UpdateEntity, PatcherInv, End, Move
    <3>2. /\ Ended(c, "applied") \in Patching /\ Ended(c, "applied").patch = d.patch
          /\ Ended(c, "applied").at = "done" /\ Ended(c, "applied").outcome # "missing"
      BY <2>4, <3>1 DEF Ended, Outcomes
    <3>. QED
      BY <1>1, <3>1, <3>2, WriteKeeps
  <2>9. CASE UpdateUnacked(c)
    <3>1. /\ d.at = "update" /\ d.copy = entity /\ Changes(entity, d.patch) /\ tables = Both
          /\ Write(c, After(entity, d.patch)) /\ UNCHANGED <<tables, ensured>>
          /\ patcher' = [patcher EXCEPT ![c] = [d EXCEPT !.at = "again"]]
      BY <2>1, <2>9 DEF UpdateUnacked, PatcherInv, Move
    <3>2. /\ [d EXCEPT !.at = "again"] \in Patching /\ [d EXCEPT !.at = "again"].patch = d.patch
          /\ [d EXCEPT !.at = "again"].at = "again"
      BY <2>1, <3>1 DEF Patching, Resting
    <3>. QED
      BY <1>1, <3>1, <3>2, WriteKeeps
  <2>10. CASE UpdateOutdated(c)
    <3>. DEFINE next == [d EXCEPT !.at = "again"]
    <3>1. next \in Patching /\ next.at = "again" /\ next.patch = d.patch /\ d.at = "update"
      BY <2>1, <2>10 DEF UpdateOutdated, Patching, Resting
    <3>2. /\ patcher' = [patcher EXCEPT ![c] = next] /\ c \notin current /\ tables = Both
          /\ UNCHANGED <<tables, ensured, entity, current, late, wrote>>
      BY <2>1, <2>10 DEF UpdateOutdated, Move, PatcherInv
    <3>. HIDE DEF next
    <3>3. patcher'[c] = next /\ PatchTyped' /\ LateInv'
      BY <2>1, <2>3, <3>1, <3>2 DEF PatchTyped, LateInv
    <3>4. PatcherInv(c)'
      BY <2>1, <3>1, <3>2, <3>3 DEF PatcherInv
    <3>. QED
      BY <1>1, <3>1, <3>2, <3>3, <3>4, PatcherMoves
  <2>11. CASE AnotherRound(c)
    <3>. DEFINE next == IF d.round < Attempts
                        THEN [at |-> "ensure", patch |-> d.patch, round |-> d.round + 1]
                        ELSE Ended(c, "conflict")
    <3>1. d.at = "again" /\ d.round \in 1..Attempts
      BY <2>1, <2>11, PatcherFields DEF AnotherRound
    <3>2. next \in Patching
      BY <2>2, <2>4, <3>1, PatchAssumption DEF Patching, Outcomes
    <3>3. /\ next.at \in {"ensure", "done"} /\ next.patch = d.patch
          /\ next.at = "done" => next.outcome = "conflict"
      BY DEF Ended
    <3>4. /\ patcher' = [patcher EXCEPT ![c] = next] /\ c \notin current
          /\ UNCHANGED <<tables, ensured, entity, current, late, wrote>>
      BY <2>1, <2>11 DEF AnotherRound, Move, End, PatcherInv
    <3>. HIDE DEF next
    <3>5. patcher'[c] = next /\ PatchTyped' /\ LateInv'
      BY <2>1, <2>3, <3>1, <3>2, <3>4 DEF PatchTyped, LateInv
    <3>6. PatcherInv(c)'
      BY <2>1, <3>1, <3>3, <3>4, <3>5 DEF PatcherInv
    <3>. QED
      BY <1>1, <3>2, <3>4, <3>5, <3>6, PatcherMoves
  <2>12. CASE PatchFails(c)
    <3>1. /\ d.at \in {"ensure", "get", "update"} /\ d.at # "idle" /\ d.at # "done"
          /\ patcher' = [patcher EXCEPT ![c] = Ended(c, "error")]
          /\ current' = current \ {c} /\ UNCHANGED <<tables, ensured, entity, wrote>>
      BY <2>12 DEF PatchFails, End, Move
    <3>2. Ended(c, "error") \in Patching
      BY <2>4, <3>1 DEF Outcomes
    <3>3. patcher'[c] = Ended(c, "error") /\ PatchTyped'
      BY <2>1, <3>1, <3>2 DEF PatchTyped
    <3>4. LateInv'
      <4>1. ASSUME NEW u \in late', u \notin late
            PROVE  u = [by |-> c, status |-> After(entity, d.patch)] /\ Changes(entity, d.patch)
        BY <2>1, <2>12, <4>1 DEF PatchFails, PatcherInv
      <4>2. ASSUME NEW u \in late', u \in late
            PROVE  u.by # c /\ patcher'[u.by] = patcher[u.by]
        BY <2>1, <2>3, <3>1, <4>2 DEF PatchTyped, LateInv
      <4>. QED
        BY <2>1, <3>1, <3>3, <4>1, <4>2 DEF LateInv, Ended
    <3>5. PatcherInv(c)'
      BY <2>1, <3>1, <3>3 DEF PatcherInv, Ended
    <3>. QED
      BY <1>1, <3>1, <3>2, <3>3, <3>4, <3>5, PatcherMoves
  <2>13. CASE EndPatch(c)
    <3>1. /\ d.at = "done" /\ patcher' = [patcher EXCEPT ![c] = Resting] /\ c \notin current
          /\ UNCHANGED <<tables, ensured, entity, current, late, wrote>>
          /\ \A u \in late : u.by # c
      BY <2>1, <2>13 DEF EndPatch, Move, PatcherInv
    <3>2. Resting \in Patching
      BY DEF Patching
    <3>3. patcher'[c].at = "idle" /\ PatchTyped' /\ LateInv'
      BY <2>1, <3>1, <3>2 DEF PatchTyped, LateInv, Resting
    <3>4. PatcherInv(c)'
      BY <2>1, <3>1, <3>3 DEF PatcherInv
    <3>. QED
      BY <1>1, <3>1, <3>2, <3>3, <3>4, PatcherMoves
  <2>. QED
    BY <1>8, <2>5, <2>6, <2>7, <2>8, <2>9, <2>10, <2>11, <2>12, <2>13 DEF PatchStep
<1>. QED
  BY <1>1, <1>2, <1>3, <1>4, <1>5, <1>6, <1>7, <1>8 DEF PatchNext

(* The invariant of the loop: a call that may still write has applied the  *)
(* rules to what it read under the etag it will send (patch).              *)
THEOREM PatchInvariant == PatchSpec => []PatchInv
  BY PatchInitially, PatchPreserved, PTL DEF PatchSpec

(* Every request finds its tables, whoever's creation of them failed       *)
(* (ensureTables).                                                         *)
THEOREM TablesAreThere == PatchSpec => []RequestsFindTheirTables
<1>1. PatchInv => RequestsFindTheirTables
  BY DEF PatchInv, PatcherInv, RequestsFindTheirTables, Both
<1>. QED
  BY <1>1, PatchInvariant, PTL

(* A status is written at most once, and an applied patch has been.        *)
THEOREM AppliedOnce == PatchSpec => []WrittenOnce
<1>1. ASSUME PatchInv PROVE WrittenOnce
  <2>1. ASSUME NEW c \in Patchers
        PROVE  /\ patcher[c].at # "idle" => wrote[c] <= 1 \/ patcher[c].patch.status = "note"
               /\ patcher[c].at = "done" =>
                    /\ patcher[c].outcome = "applied" => wrote[c] >= 1
                    /\ patcher[c].outcome = "missing" => wrote[c] = 0
    BY <1>1 DEF PatchInv, PatcherInv
  <2>. QED
    BY <2>1 DEF WrittenOnce
<1>. QED
  BY <1>1, PatchInvariant, PTL

(* A patch is atomic: whatever several calls read and write in between,    *)
(* every change of a stored status is one that the rules allow from the    *)
(* status it replaces (patch, applyDeploymentRecordPatch).                 *)
THEOREM PatchIsAtomic ==
  PatchSpec => [][entity' # entity /\ entity # "absent" =>
                    \E p \in DeploymentPatches :
                      Changes(entity, p) /\ entity' = After(entity, p)]_patchVars
<1>1. ASSUME PatchInv, [PatchNext]_patchVars, entity' # entity, entity # "absent"
      PROVE  \E p \in DeploymentPatches : Changes(entity, p) /\ entity' = After(entity, p)
  <2>1. PICK c \in Patchers : UpdateEntity(c) \/ UpdateUnacked(c) \/ (LateUpdate /\ \E u \in late : u.by = c /\ entity' = u.status)
    BY <1>1 DEF PatchNext, PatchStep, patchVars, EnsureTables, ReadEntity, UpdateOutdated, AnotherRound,
       PatchFails, BeginPatch, EndPatch, CreateTable, CreationFails, UpdateVanishes, PutEntity,
       LateUpdate, Write, PatchInv, LateInv
  <2>2. patcher[c] \in Patching
    BY <1>1 DEF PatchInv, PatchTyped
  <2>3. CASE UpdateEntity(c) \/ UpdateUnacked(c)
    <3>1. /\ patcher[c].at = "update" /\ Changes(entity, patcher[c].patch)
          /\ entity' = After(entity, patcher[c].patch)
      BY <1>1, <2>3 DEF UpdateEntity, UpdateUnacked, Write, PatchInv, PatcherInv
    <3>2. patcher[c].patch \in DeploymentPatches
      BY <2>2, <3>1, PatcherFields
    <3>. QED
      BY <3>1, <3>2
  <2>4. CASE \E u \in late : u.by = c /\ entity' = u.status
    <3>1. /\ patcher[c].at = "done" /\ Changes(entity, patcher[c].patch)
          /\ entity' = After(entity, patcher[c].patch)
      BY <1>1, <2>4 DEF PatchInv, LateInv
    <3>2. patcher[c].patch \in DeploymentPatches
      BY <2>2, <3>1, PatcherFields
    <3>. QED
      BY <3>1, <3>2
  <2>. QED
    BY <2>1, <2>3, <2>4
<1>2. PatchInv /\ [PatchNext]_patchVars =>
        [entity' # entity /\ entity # "absent" =>
           \E p \in DeploymentPatches : Changes(entity, p) /\ entity' = After(entity, p)]_patchVars
  BY <1>1
<1>. QED
  BY <1>2, PatchInvariant, PTL DEF PatchSpec

-----------------------------------------------------------------------------
(* How PatchPromise sees one call whose place and history change.          *)
LEMMA JobMoves ==
  ASSUME PatchTyped, NEW c \in Patchers, NEW next,
         patcher' = [patcher EXCEPT ![c] = next],
         \A other \in Patchers \ {c} : wrote'[other] = wrote[other]
  PROVE  Job' = [Job EXCEPT ![c] = JobOf(next, wrote'[c])]
<1>1. \A other \in Patchers :
        patcher'[other] = IF other = c THEN next ELSE patcher[other]
  BY DEF PatchTyped
<1>2. Job' = [other \in Patchers |-> IF other = c THEN JobOf(next, wrote'[c]) ELSE Job[other]]
  BY <1>1 DEF Job
<1>3. Job = [other \in Patchers |-> Job[other]]
  BY DEF Job
<1>. QED
  BY <1>2, <1>3

(* A call that is under way is, to PatchPromise, one that has asked.       *)
LEMMA UnderWay ==
  ASSUME NEW d \in Patching, d.at # "idle", d.at # "done", NEW writes
  PROVE  JobOf(d, writes) = Promise!Asked(d.patch, writes)
  BY PatcherFields DEF JobOf, Promise!Asked

LEMMA Over ==
  ASSUME NEW d, d.at = "done", NEW writes
  PROVE  JobOf(d, writes) = Promise!Answered(d.patch, writes, d.outcome)
  BY DEF JobOf, Promise!Answered

(* A write by the etag's rule is the instant of the patch.                 *)
LEMMA WriteTakesEffect ==
  ASSUME PatchInv, NEW c \in Patchers, patcher[c].at # "idle",
         Changes(entity, patcher[c].patch),
         Write(c, After(entity, patcher[c].patch))
  PROVE  Promise!TakesEffect(c) /\ wrote'[c] = wrote[c] + 1
         /\ \A other \in Patchers \ {c} : wrote'[other] = wrote[other]
<1>. DEFINE p == patcher[c].patch
<1>1. p \in DeploymentPatches /\ entity \in StoredStatus /\ wrote[c] \in Nat
      /\ patcher[c] \in Patching /\ PatcherInv(c)
  BY PatcherFields DEF PatchInv, PatchTyped
<1>2. p.status # "note" => entity \notin Beyond(p.status)
  BY <1>1, PatchFacts
<1>3. p.status # "note" => wrote[c] = 0
  BY <1>1, <1>2 DEF PatcherInv
<1>4. Job[c].patch = p /\ Job[c].effects = wrote[c]
  <2>1. Job[c] = JobOf(patcher[c], wrote[c])
    BY DEF Job
  <2>2. CASE patcher[c].at = "done"
    <3>1. Job[c] = [at |-> "answered", patch |-> p, effects |-> wrote[c],
                    outcome |-> patcher[c].outcome]
      BY <2>1, <2>2, Over DEF Promise!Answered
    <3>. QED
      BY <3>1
  <2>3. CASE patcher[c].at # "done"
    <3>1. Job[c] = [at |-> "asked", patch |-> p, effects |-> wrote[c]]
      BY <1>1, <2>1, <2>3, UnderWay DEF Promise!Asked
    <3>. QED
      BY <3>1
  <2>. QED
    BY <2>2, <2>3
<1>5. Promise!Changes(entity, p) /\ entity' = Promise!After(entity, p)
  BY DEF Promise!Changes, Changes, Promise!After, After, Write, PatchApplies,
         Promise!PatchApplies, AllowedFrom, Promise!AllowedFrom, Terminal, Promise!Terminal
<1>6. wrote'[c] = wrote[c] + 1 /\ \A other \in Patchers \ {c} : wrote'[other] = wrote[other]
  BY <1>1 DEF Write, PatchInv, PatchTyped
<1>. QED
  BY <1>3, <1>4, <1>5, <1>6 DEF Promise!TakesEffect

PatchStepPromised == [Promise!PromiseNext]_(Promise!promised)

(* A call that ends without writing, with an answer that PatchPromise      *)
(* could give in this state.                                               *)
LEMMA EndAnswers ==
  ASSUME PatchInv, NEW c \in Patchers, patcher[c].at # "idle", patcher[c].at # "done",
         NEW outcome \in Outcomes, outcome # "applied",
         End(c, outcome), UNCHANGED <<entity, wrote>>,
         outcome = "missing" => entity = "absent",
         outcome = "unapplied" => entity # "absent" /\ ~Changes(entity, patcher[c].patch)
  PROVE  PatchStepPromised
<1>. DEFINE d == patcher[c]
<1>1. d \in Patching /\ PatcherInv(c) /\ wrote[c] \in Nat
  BY DEF PatchInv, PatchTyped
<1>2. Job[c] = Promise!Asked(d.patch, wrote[c])
  BY <1>1, UnderWay DEF Job
<1>3. /\ Job[c].at = "asked" /\ Job[c].patch = d.patch
      /\ Job[c].effects = wrote[c]
  BY <1>2 DEF Promise!Asked
<1>4. Job' = [Job EXCEPT ![c] = JobOf(Ended(c, outcome), wrote[c])]
  BY JobMoves DEF End, Move, PatchInv
<1>5. JobOf(Ended(c, outcome), wrote[c]) = Promise!Answered(d.patch, wrote[c], outcome)
  <2>1. /\ Ended(c, outcome).at = "done" /\ Ended(c, outcome).outcome = outcome
        /\ Ended(c, outcome).patch = d.patch
    BY DEF Ended
  <2>. QED
    BY <2>1, Over
<1>6. Job' = [Job EXCEPT ![c] = Promise!Answered(Job[c].patch, Job[c].effects, outcome)]
  BY <1>3, <1>4, <1>5
<1>7. CASE outcome = "missing"
  <2>1. entity = "absent" /\ wrote[c] = 0
    BY <1>1, <1>7 DEF PatcherInv
  <2>2. Promise!Answer(c, 0, "missing")
    BY <1>3, <1>6, <1>7, <2>1 DEF Promise!Answer
  <2>3. Promise!Miss(c)
    BY <1>3, <2>1, <2>2 DEF Promise!Miss
  <2>. QED
    BY <2>3 DEF PatchStepPromised, Promise!PromiseNext
<1>8. CASE outcome = "unapplied"
  <2>1. entity # "absent" /\ ~Promise!Changes(entity, d.patch)
    BY <1>8 DEF Promise!Changes, Changes, PatchApplies,
         Promise!PatchApplies, AllowedFrom, Promise!AllowedFrom, Terminal, Promise!Terminal
  <2>2. Promise!Refuse(c)
    BY <1>3, <1>6, <1>8, <2>1 DEF Promise!Refuse, Promise!Answer
  <2>. QED
    BY <2>2 DEF PatchStepPromised, Promise!PromiseNext
<1>9. CASE outcome \in {"error", "conflict"}
  <2>1. Job' = [k \in Patchers |->
                  IF k \in {c} THEN Promise!Answered(Job[k].patch, Job[k].effects, outcome) ELSE Job[k]]
    <3>1. Job = [k \in Patchers |-> Job[k]]
      BY DEF Job
    <3>. QED
      BY <1>6, <3>1
  <2>2. Promise!GiveUp({c}, outcome)
    BY <1>3, <2>1 DEF Promise!GiveUp
  <2>. QED
    BY <1>9, <2>2 DEF PatchStepPromised, Promise!PromiseNext
<1>. QED
  BY <1>7, <1>8, <1>9 DEF Outcomes

(* A call that goes on without writing is to PatchPromise where it was.    *)
LEMMA GoesOn ==
  ASSUME PatchInv, NEW c \in Patchers, patcher[c].at # "idle", patcher[c].at # "done",
         NEW next \in Patching, next.at # "idle", next.at # "done",
         next.patch = patcher[c].patch,
         Move(c, next), UNCHANGED <<entity, wrote>>
  PROVE  PatchStepPromised
<1>1. Job[c] = Promise!Asked(patcher[c].patch, wrote[c])
  BY UnderWay DEF Job, PatchInv, PatchTyped
<1>2. Job' = [Job EXCEPT ![c] = JobOf(next, wrote[c])]
  BY JobMoves DEF Move, PatchInv
<1>3. Job' = [Job EXCEPT ![c] = Job[c]]
  BY <1>1, <1>2, UnderWay
<1>4. Job' = Job
  BY <1>3 DEF Job
<1>. QED
  BY <1>4 DEF PatchStepPromised, Promise!promised

(* A write whose caller hears of it, or goes on without hearing.           *)
LEMMA WriteApplies ==
  ASSUME PatchInv, NEW c \in Patchers, patcher[c].at = "update", c \in current,
         Write(c, After(patcher[c].copy, patcher[c].patch)),
         NEW next \in Patching, Move(c, next), next.patch = patcher[c].patch,
         next.at = "again" \/ (next.at = "done" /\ next.outcome = "applied")
  PROVE  PatchStepPromised
<1>1. /\ patcher[c] \in Patching /\ wrote[c] \in Nat
      /\ patcher[c].copy = entity /\ Changes(entity, patcher[c].patch)
  BY DEF PatchInv, PatchTyped, PatcherInv
<1>2. /\ Promise!TakesEffect(c) /\ wrote'[c] = wrote[c] + 1
      /\ \A other \in Patchers \ {c} : wrote'[other] = wrote[other]
  BY <1>1, WriteTakesEffect
<1>3. Job[c] = Promise!Asked(patcher[c].patch, wrote[c])
  BY <1>1, UnderWay DEF Job
<1>4. /\ Job[c].at = "asked" /\ Job[c].patch = patcher[c].patch
      /\ Job[c].effects = wrote[c]
  BY <1>3 DEF Promise!Asked
<1>5. Job' = [Job EXCEPT ![c] = JobOf(next, Job[c].effects + 1)]
  <2>1. Job' = [Job EXCEPT ![c] = JobOf(next, wrote'[c])]
    BY <1>2, JobMoves DEF Move, PatchInv
  <2>. QED
    BY <1>2, <1>4, <2>1
<1>6. CASE next.at = "again"
  <2>1. JobOf(next, Job[c].effects + 1) = Promise!Asked(Job[c].patch, Job[c].effects + 1)
    BY <1>4, <1>6, UnderWay
  <2>. QED
    BY <1>2, <1>4, <1>5, <2>1 DEF PatchStepPromised, Promise!PromiseNext, Promise!Apply
<1>7. CASE next.at = "done" /\ next.outcome = "applied"
  <2>1. JobOf(next, Job[c].effects + 1) =
          Promise!Answered(Job[c].patch, Job[c].effects + 1, "applied")
    BY <1>4, <1>7, Over
  <2>. QED
    BY <1>2, <1>4, <1>5, <2>1
       DEF PatchStepPromised, Promise!PromiseNext, Promise!Apply, Promise!Answer
<1>. QED
  BY <1>6, <1>7

(* Every step of the store is a step of PatchPromise, or none.             *)
LEMMA PatchRefines == PatchInv /\ [PatchNext]_patchVars => PatchStepPromised
<1>1. SUFFICES ASSUME PatchInv, [PatchNext]_patchVars PROVE PatchStepPromised
  OBVIOUS
<1>2. ASSUME UNCHANGED <<entity, patcher, wrote>> PROVE PatchStepPromised
  BY <1>2 DEF PatchStepPromised, Promise!promised, Job
<1>3. CASE UNCHANGED patchVars \/ CreateTable \/ UpdateVanishes
  BY <1>2, <1>3 DEF patchVars, CreateTable, UpdateVanishes
<1>4. CASE PutEntity
  <2>1. Job' = Job
    BY <1>4 DEF PutEntity, Job
  <2>2. Promise!Put
    BY <1>4, <2>1 DEF PutEntity, Promise!Put
  <2>. QED
    BY <2>2 DEF PatchStepPromised, Promise!PromiseNext
<1>5. CASE CreationFails
  <2>. DEFINE waiting == {c \in Patchers : patcher[c].at = "ensure"}
  <2>1. ASSUME NEW c \in waiting
        PROVE  /\ Job[c].at = "asked"
               /\ Job'[c] = Promise!Answered(Job[c].patch, Job[c].effects, "error")
    <3>1. /\ patcher[c] \in Patching /\ patcher[c].at = "ensure"
      BY <1>1 DEF PatchInv, PatchTyped
    <3>2. Job[c] = Promise!Asked(patcher[c].patch, wrote[c])
      BY <3>1, UnderWay DEF Job
    <3>3. patcher'[c] = Ended(c, "error") /\ wrote'[c] = wrote[c]
      BY <1>5, <3>1 DEF CreationFails
    <3>4. Job'[c] = Promise!Answered(patcher[c].patch, wrote[c], "error")
      <4>1. /\ Ended(c, "error").at = "done" /\ Ended(c, "error").outcome = "error"
            /\ Ended(c, "error").patch = patcher[c].patch
        BY DEF Ended
      <4>2. Job'[c] = JobOf(Ended(c, "error"), wrote[c])
        BY <3>3 DEF Job
      <4>. QED
        BY <4>1, <4>2, Over
    <3>. QED
      BY <3>2, <3>4 DEF Promise!Asked
  <2>2. ASSUME NEW c \in Patchers, c \notin waiting PROVE Job'[c] = Job[c]
    BY <1>5, <2>2 DEF CreationFails, Job
  <2>3. Job' = [c \in Patchers |-> Job'[c]]
    BY DEF Job
  <2>. HIDE DEF waiting
  <2>4. Job' = [c \in Patchers |->
          IF c \in waiting THEN Promise!Answered(Job[c].patch, Job[c].effects, "error") ELSE Job[c]]
    BY <2>1, <2>2, <2>3
  <2>5. entity' = entity /\ waiting \in SUBSET Patchers
    BY <1>5 DEF CreationFails, waiting
  <2>6. Promise!GiveUp(waiting, "error")
    BY <2>1, <2>4, <2>5 DEF Promise!GiveUp
  <2>. QED
    BY <2>5, <2>6 DEF PatchStepPromised, Promise!PromiseNext
<1>6. CASE LateUpdate
  <2>1. PICK u \in late : Write(u.by, u.status) /\ UNCHANGED patcher
    BY <1>6 DEF LateUpdate
  <2>. DEFINE c == u.by
  <2>2. /\ c \in Patchers /\ patcher[c].at = "done" /\ patcher[c].outcome = "error"
        /\ Changes(entity, patcher[c].patch) /\ u.status = After(entity, patcher[c].patch)
    BY <1>1 DEF PatchInv, LateInv
  <2>3. /\ Promise!TakesEffect(c) /\ wrote'[c] = wrote[c] + 1
        /\ \A other \in Patchers \ {c} : wrote'[other] = wrote[other]
    BY <1>1, <2>1, <2>2, WriteTakesEffect
  <2>4. Job[c] = Promise!Answered(patcher[c].patch, wrote[c], "error")
    BY <2>2, Over DEF Job
  <2>5. /\ Job[c].at = "answered" /\ Job[c].patch = patcher[c].patch
        /\ Job[c].effects = wrote[c] /\ Job[c].outcome = "error"
    BY <2>4 DEF Promise!Answered
  <2>6. patcher' = [patcher EXCEPT ![c] = patcher[c]]
    BY <1>1, <2>1, <2>2 DEF PatchInv, PatchTyped
  <2>7. Job' = [Job EXCEPT ![c] = JobOf(patcher[c], Job[c].effects + 1)]
    <3>1. Job' = [Job EXCEPT ![c] = JobOf(patcher[c], wrote'[c])]
      BY <1>1, <2>2, <2>3, <2>6, JobMoves DEF PatchInv
    <3>. QED
      BY <2>3, <2>5, <3>1
  <2>8. JobOf(patcher[c], Job[c].effects + 1) =
          Promise!Answered(Job[c].patch, Job[c].effects + 1, "error")
    BY <2>2, <2>5, Over
  <2>9. Promise!ApplyLate(c)
    BY <2>3, <2>5, <2>7, <2>8 DEF Promise!ApplyLate, Promise!Answer
  <2>. QED
    BY <2>2, <2>9 DEF PatchStepPromised, Promise!PromiseNext
<1>7. ASSUME NEW c \in Patchers, BeginPatch(c) \/ PatchStep(c) \/ EndPatch(c)
      PROVE  PatchStepPromised
  <2>. DEFINE d == patcher[c]
  <2>1. /\ d \in Patching /\ PatcherInv(c) /\ PatchTyped /\ wrote[c] \in Nat
    BY <1>1 DEF PatchInv, PatchTyped
  <2>2. CASE BeginPatch(c)
    <3>1. PICK p \in DeploymentPatches :
            patcher' = [patcher EXCEPT ![c] = [at |-> "ensure", patch |-> p, round |-> 1]]
      BY <2>2, PatchAssumption DEF BeginPatch, Move
    <3>2. /\ wrote'[c] = 0 /\ entity' = entity /\ patcher[c] = Resting
          /\ \A other \in Patchers \ {c} : wrote'[other] = wrote[other]
      BY <2>1, <2>2 DEF BeginPatch, PatchTyped
    <3>3. Job' = [Job EXCEPT ![c] = JobOf([at |-> "ensure", patch |-> p, round |-> 1], 0)]
      BY <2>1, <3>1, <3>2, JobMoves
    <3>4. JobOf([at |-> "ensure", patch |-> p, round |-> 1], 0) = Promise!Asked(p, 0)
      BY DEF JobOf, Promise!Asked
    <3>5. Job[c] = Promise!Idle
      BY <3>2 DEF Job, JobOf, Resting, Promise!Idle
    <3>6. Promise!Ask(c)
      BY <3>2, <3>3, <3>4, <3>5 DEF Promise!Ask
    <3>. QED
      BY <3>6 DEF PatchStepPromised, Promise!PromiseNext
  <2>3. CASE EnsureTables(c)
    <3>1. CASE Move(c, [d EXCEPT !.at = "get"])
      <4>1. /\ [d EXCEPT !.at = "get"] \in Patching /\ [d EXCEPT !.at = "get"].at = "get"
            /\ [d EXCEPT !.at = "get"].patch = d.patch
            /\ d.at = "ensure" /\ UNCHANGED <<entity, wrote>>
        BY <2>1, <2>3 DEF EnsureTables, Patching, Resting
      <4>. QED
        BY <1>1, <3>1, <4>1, GoesOn
    <3>2. CASE UNCHANGED patcher
      BY <1>2, <2>3, <3>2 DEF EnsureTables
    <3>. QED
      BY <2>3, <3>1, <3>2 DEF EnsureTables
  <2>4. CASE ReadEntity(c)
    <3>1. d.at = "get" /\ UNCHANGED <<entity, wrote>> /\ d.patch \in DeploymentPatches
      BY <2>1, <2>4, PatcherFields DEF ReadEntity
    <3>2. CASE entity = "absent" /\ End(c, "missing")
      BY <1>1, <3>1, <3>2, EndAnswers DEF Outcomes
    <3>3. CASE entity # "absent" /\ ~Changes(entity, d.patch) /\ End(c, "unapplied")
      BY <1>1, <3>1, <3>3, EndAnswers DEF Outcomes
    <3>4. CASE /\ entity # "absent"
               /\ Move(c, [at |-> "update", patch |-> d.patch, round |-> d.round, copy |-> entity])
      <4>. DEFINE next == [at |-> "update", patch |-> d.patch, round |-> d.round, copy |-> entity]
      <4>1. entity \in DeploymentRecordStatus /\ d.round \in 1..Attempts
        BY <2>1, <3>1, <3>4, PatcherFields DEF PatchTyped, StoredStatus
      <4>2. next \in Patching /\ next.at = "update" /\ next.patch = d.patch
        BY <3>1, <4>1 DEF Patching
      <4>. HIDE DEF next
      <4>. QED
        BY <1>1, <3>1, <3>4, <4>2, GoesOn DEF next
    <3>. QED
      BY <2>4, <3>2, <3>3, <3>4 DEF ReadEntity
  <2>5. CASE UpdateEntity(c)
    <3>1. Ended(c, "applied") \in Patching
      BY <2>1, <2>5, PatcherFields DEF UpdateEntity, Ended, Patching, Outcomes
    <3>2. /\ Ended(c, "applied").patch = d.patch /\ Ended(c, "applied").at = "done"
          /\ Ended(c, "applied").outcome = "applied"
      BY DEF Ended
    <3>. QED
      BY <1>1, <2>5, <3>1, <3>2, WriteApplies DEF UpdateEntity, End
  <2>6. CASE UpdateUnacked(c)
    <3>1. /\ [d EXCEPT !.at = "again"] \in Patching /\ [d EXCEPT !.at = "again"].at = "again"
          /\ [d EXCEPT !.at = "again"].patch = d.patch
      BY <2>1, <2>6 DEF UpdateUnacked, Patching, Resting
    <3>. QED
      BY <1>1, <2>6, <3>1, WriteApplies DEF UpdateUnacked
  <2>7. CASE UpdateOutdated(c)
    <3>1. /\ [d EXCEPT !.at = "again"] \in Patching /\ [d EXCEPT !.at = "again"].at = "again"
          /\ [d EXCEPT !.at = "again"].patch = d.patch
      BY <2>1, <2>7 DEF UpdateOutdated, Patching, Resting
    <3>. QED
      BY <1>1, <2>7, <3>1, GoesOn DEF UpdateOutdated
  <2>8. CASE AnotherRound(c)
    <3>1. d.at = "again" /\ UNCHANGED <<entity, wrote>>
          /\ d.round \in 1..Attempts /\ d.patch \in DeploymentPatches
      BY <2>1, <2>8, PatcherFields DEF AnotherRound
    <3>2. CASE d.round < Attempts /\ Move(c, [at |-> "ensure", patch |-> d.patch, round |-> d.round + 1])
      <4>. DEFINE next == [at |-> "ensure", patch |-> d.patch, round |-> d.round + 1]
      <4>1. next \in Patching /\ next.at = "ensure" /\ next.patch = d.patch
        BY <3>1, <3>2, PatchAssumption DEF Patching
      <4>. HIDE DEF next
      <4>. QED
        BY <1>1, <3>1, <3>2, <4>1, GoesOn DEF next
    <3>3. CASE End(c, "conflict")
      BY <1>1, <3>1, <3>3, EndAnswers DEF Outcomes
    <3>. QED
      BY <2>8, <3>2, <3>3 DEF AnotherRound
  <2>9. CASE PatchFails(c)
    <3>1. End(c, "error") /\ d.at \in {"ensure", "get", "update"} /\ UNCHANGED <<entity, wrote>>
      BY <2>9 DEF PatchFails
    <3>. QED
      BY <1>1, <3>1, EndAnswers DEF Outcomes
  <2>10. CASE EndPatch(c)
    <3>1. /\ d.at = "done" /\ patcher' = [patcher EXCEPT ![c] = Resting]
          /\ UNCHANGED <<entity, wrote>>
      BY <2>10 DEF EndPatch, Move
    <3>2. Job[c].at = "answered"
      BY <3>1, Over DEF Job, Promise!Answered
    <3>3. Job' = [Job EXCEPT ![c] = Promise!Idle]
      <4>1. JobOf(Resting, wrote[c]) = Promise!Idle
        BY DEF JobOf, Resting, Promise!Idle
      <4>2. Job' = [Job EXCEPT ![c] = JobOf(Resting, wrote[c])]
        BY <2>1, <3>1, JobMoves
      <4>. QED
        BY <4>1, <4>2
    <3>4. Promise!Return(c)
      BY <3>1, <3>2, <3>3 DEF Promise!Return
    <3>. QED
      BY <3>4 DEF PatchStepPromised, Promise!PromiseNext
  <2>. QED
    BY <1>7, <2>2, <2>3, <2>4, <2>5, <2>6, <2>7, <2>8, <2>9, <2>10 DEF PatchStep
<1>. QED
  BY <1>1, <1>3, <1>4, <1>5, <1>6, <1>7 DEF PatchNext

(* The read-modify-write loop implements a patch that takes effect in one  *)
(* instant, by its rules and a status at most once, and is answered        *)
(* truthfully (patch, applyDeploymentRecordPatch).                         *)
THEOREM PatchAsPromised == PatchSpec => ImplementsPatch
<1>1. PatchInit => Promise!PromiseInit
  BY DEF PatchInit, Promise!PromiseInit, Job, JobOf, Resting, Promise!Idle
<1>2. PatchInv /\ [PatchNext]_patchVars => [Promise!PromiseNext]_(Promise!promised)
  BY PatchRefines DEF PatchStepPromised
<1>. QED
  BY <1>1, <1>2, PatchInvariant, PTL DEF PatchSpec, ImplementsPatch, Promise!PromiseSpec

(* The calls, the tables and the record's status keep their types.         *)
THEOREM PatchTypes == PatchSpec => []PatchTypeOK
<1>1. ASSUME PatchInv PROVE PatchTypeOK
  <2>1. ASSUME NEW c \in Patchers
        PROVE  /\ patcher[c].at \in {"idle", "ensure", "get", "update", "again", "done"}
               /\ patcher[c].at # "idle" => patcher[c].patch \in DeploymentPatches
               /\ patcher[c].at \in {"ensure", "get", "update", "again"} => patcher[c].round \in 1..Attempts
               /\ patcher[c].at = "update" => patcher[c].copy \in DeploymentRecordStatus
    BY <1>1, PatcherFields DEF PatchInv, PatchTyped
  <2>2. ASSUME NEW u \in late PROVE u.by \in Patchers /\ u.status \in DeploymentRecordStatus
    <3>1. u.by \in Patchers /\ patcher[u.by].patch \in DeploymentPatches
      BY <1>1, <2>1 DEF PatchInv, LateInv
    <3>. QED
      BY <1>1, <3>1, PatchFacts DEF PatchInv, PatchTyped, LateInv
  <2>. QED
    BY <1>1, <2>1, <2>2 DEF PatchInv, PatchTyped, PatchTypeOK, Both
<1>. QED
  BY <1>1, PatchInvariant, PTL
=============================================================================
