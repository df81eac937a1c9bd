----------------------------- MODULE RecordPatch -----------------------------
(***************************************************************************)
(* patch of the Azure store (src/deployments/store-azure.ts): the creation *)
(* of the tables that every request waits for, and the read-modify-write   *)
(* loop on one record's entity, by several calls at once, with answers     *)
(* that are lost and requests that arrive late.                            *)
(***************************************************************************)
EXTENDS DeploymentRecords, FiniteSets

CONSTANTS
  Patchers,  (* calls of patch that may be in flight at once               *)
  Patches,   (* the patches they ask for, of the deployment service's      *)
  Attempts   (* rounds of the loop (5)                                     *)

ASSUME PatchAssumption ==
  Patches \subseteq DeploymentPatches /\ Attempts \in Nat \ {0}

VARIABLES
  tables,    (* the tables that exist                                      *)
  ensured,   (* the memoised creation of the tables: none, pending, ready  *)
  entity,    (* the status in the record's entity                          *)
  patcher,   (* each call's place, patch, copy of the status and round     *)
  current,   (* calls whose copy has the entity's present etag             *)
  late,      (* updates that were given up and may still arrive            *)
  wrote      (* history: how often each call's update took effect          *)

patchVars == <<tables, ensured, entity, patcher, current, late, wrote>>

Resting == [at |-> "idle"]

Move(c, next) == patcher' = [patcher EXCEPT ![c] = next]

Ended(c, outcome) ==
  [at |-> "done", patch |-> patcher[c].patch, outcome |-> outcome]

End(c, outcome) == Move(c, Ended(c, outcome))

-----------------------------------------------------------------------------
(* ensureTables: one creation for all callers.  A call waits for the one   *)
(* that is under way, or begins one.                                       *)
EnsureTables(c) ==
  /\ patcher[c].at = "ensure"
  /\ IF ensured = "ready"
     THEN Move(c, [patcher[c] EXCEPT !.at = "get"]) /\ UNCHANGED ensured
     ELSE ensured = "none" /\ ensured' = "pending" /\ UNCHANGED patcher
  /\ UNCHANGED <<tables, entity, current, late, wrote>>

(* Deviation: the creation of the first table already settles the memo.    *)
CreateOneTable ==
  /\ ensured = "pending"
  /\ tables' = tables \cup {IF "records" \in tables THEN "locks" ELSE "records"}
  /\ ensured' = "ready"
  /\ UNCHANGED <<entity, patcher, current, late, wrote>>

(* The tables are created one after the other; one that exists is fine.    *)
CreateTable ==
  /\ ensured = "pending"
  /\ \/ /\ tables # {"records", "locks"}
        /\ tables' = tables \cup {IF "records" \in tables THEN "locks" ELSE "records"}
        /\ UNCHANGED ensured
     \/ /\ tables = {"records", "locks"}
        /\ ensured' = "ready"
        /\ UNCHANGED tables
  /\ UNCHANGED <<entity, patcher, current, late, wrote>>

(* A creation that fails is forgotten before its waiters hear of it, so    *)
(* that the next call begins anew.                                         *)
CreationFails ==
  /\ ensured = "pending"
  /\ ensured' = "none"
  /\ patcher' = [c \in Patchers |->
       IF patcher[c].at = "ensure" THEN Ended(c, "error") ELSE patcher[c]]
  /\ UNCHANGED <<tables, entity, current, late, wrote>>

-----------------------------------------------------------------------------
BeginPatch(c) ==
  /\ patcher[c] = Resting
  /\ \E p \in Patches : Move(c, [at |-> "ensure", patch |-> p, round |-> 1])
  /\ wrote' = [wrote EXCEPT ![c] = 0]
  /\ UNCHANGED <<tables, ensured, entity, current, late>>

(* getRecordEntity and the rules of the patch: nothing to patch, nothing   *)
(* to change, or an update that carries the etag that was read.            *)
ReadEntity(c) ==
  LET d == patcher[c] IN
  /\ d.at = "get"
  /\ IF entity = "absent"
     THEN End(c, "missing") /\ UNCHANGED current
     ELSE IF ~Changes(entity, d.patch)
     THEN End(c, "unapplied") /\ UNCHANGED current
     ELSE /\ Move(c, [at |-> "update", patch |-> d.patch, round |-> d.round, copy |-> entity])
          /\ current' = current \cup {c}
  /\ UNCHANGED <<tables, ensured, entity, late, wrote>>

(* The table applies an update whose etag is still the entity's: every     *)
(* other copy, and every other update on its way, is outdated by it.       *)
Write(c, status) ==
  /\ entity' = status
  /\ current' = {}
  /\ late' = {}
  /\ wrote' = [wrote EXCEPT ![c] = @ + 1]

UpdateEntity(c) ==
  LET d == patcher[c] IN
  /\ d.at = "update"
  /\ c \in current
  /\ Write(c, After(d.copy, d.patch))
  /\ End(c, "applied")
  /\ UNCHANGED <<tables, ensured>>

(* The update is written, and its answer lost.  The Table client sends it  *)
(* again and meets the etag that its own write has left: the loop goes on. *)
UpdateUnacked(c) ==
  LET d == patcher[c] IN
  /\ d.at = "update"
  /\ c \in current
  /\ Write(c, After(d.copy, d.patch))
  /\ Move(c, [d EXCEPT !.at = "again"])
  /\ UNCHANGED <<tables, ensured>>

(* Deviation: somebody else's write is taken for the end of the patch.     *)
UpdateSuperseded(c) ==
  /\ patcher[c].at = "update"
  /\ c \notin current
  /\ End(c, "unapplied")
  /\ UNCHANGED <<tables, ensured, entity, current, late, wrote>>

(* 412: somebody else has written.                                         *)
UpdateOutdated(c) ==
  /\ patcher[c].at = "update"
  /\ c \notin current
  /\ Move(c, [patcher[c] EXCEPT !.at = "again"])
  /\ UNCHANGED <<tables, ensured, entity, current, late, wrote>>

(* Deviation: the loop goes on for as long as it takes.                    *)
AnotherRoundAlways(c) ==
  LET d == patcher[c] IN
  /\ d.at = "again"
  /\ Move(c, [at |-> "ensure", patch |-> d.patch, round |-> d.round])
  /\ UNCHANGED <<tables, ensured, entity, current, late, wrote>>

(* Deviation: the next round sends the same update with a fresh etag, and  *)
(* does not look again at what the record has become.                      *)
ResendUpdate(c) ==
  LET d == patcher[c] IN
  /\ d.at = "again"
  /\ IF d.round < Attempts
     THEN Move(c, [d EXCEPT !.at = "update", !.round = @ + 1]) /\ current' = current \cup {c}
     ELSE End(c, "conflict") /\ UNCHANGED current
  /\ UNCHANGED <<tables, ensured, entity, late, wrote>>

(* Another round, or after the last the conflict that asks for a retry.    *)
AnotherRound(c) ==
  LET d == patcher[c] IN
  /\ d.at = "again"
  /\ IF d.round < Attempts
     THEN Move(c, [at |-> "ensure", patch |-> d.patch, round |-> d.round + 1])
     ELSE End(c, "conflict")
  /\ UNCHANGED <<tables, ensured, entity, current, late, wrote>>

(* A request fails, times out or is cancelled, before it has had an effect.*)
(* An update that is given up may arrive later (LateUpdate).               *)
PatchFails(c) ==
  LET d == patcher[c] IN
  /\ d.at \in {"ensure", "get", "update"}
  /\ End(c, "error")
  /\ late' = IF d.at = "update" /\ c \in current
             THEN late \cup {[by |-> c, status |-> After(d.copy, d.patch)]} ELSE late
  /\ current' = current \ {c}
  /\ UNCHANGED <<tables, ensured, entity, wrote>>

LateUpdate ==
  \E u \in late :
    /\ Write(u.by, u.status)
    /\ UNCHANGED <<tables, ensured, patcher>>

EndPatch(c) ==
  /\ patcher[c].at = "done"
  /\ \A u \in late : u.by # c
  /\ Move(c, Resting)
  /\ UNCHANGED <<tables, ensured, entity, current, late, wrote>>

(* An update that was given up never arrives.                              *)
UpdateVanishes ==
  /\ \E u \in late : late' = late \ {u}
  /\ UNCHANGED <<tables, ensured, entity, patcher, current, wrote>>

(* whatIf puts the record, under an id of its own.                         *)
PutEntity ==
  /\ tables = {"records", "locks"}
  /\ entity = "absent"
  /\ entity' = "previewed"
  /\ UNCHANGED <<tables, ensured, patcher, current, late, wrote>>

-----------------------------------------------------------------------------
PatchInit ==
  /\ tables \in {{}, {"records", "locks"}}
  /\ ensured = "none"
  /\ entity = "absent"
  /\ patcher = [c \in Patchers |-> Resting]
  /\ current = {}
  /\ late = {}
  /\ wrote = [c \in Patchers |-> 0]

PatchStep(c) ==
  \/ EnsureTables(c) \/ ReadEntity(c) \/ UpdateEntity(c) \/ UpdateUnacked(c)
  \/ UpdateOutdated(c) \/ AnotherRound(c) \/ PatchFails(c)

PatchNext ==
  \/ \E c \in Patchers : BeginPatch(c) \/ PatchStep(c) \/ EndPatch(c)
  \/ CreateTable \/ CreationFails \/ LateUpdate \/ UpdateVanishes \/ PutEntity

PatchSpec == PatchInit /\ [][PatchNext]_patchVars

(* Requests to the tables settle, by their timeout at the latest.          *)
PatchFairness ==
  /\ \A c \in Patchers : WF_patchVars(PatchStep(c))
  /\ WF_patchVars(CreateTable \/ CreationFails)

-----------------------------------------------------------------------------
PatchTypeOK ==
  /\ tables \in {{}, {"records"}, {"records", "locks"}}
  /\ ensured \in {"none", "pending", "ready"}
  /\ entity \in StoredStatus
  /\ \A c \in Patchers :
       /\ patcher[c].at \in {"idle", "ensure", "get", "update", "again", "done"}
       /\ patcher[c].at # "idle" => patcher[c].patch \in DeploymentPatches
       /\ patcher[c].at \in {"ensure", "get", "update", "again"} =>
            patcher[c].round \in 1..Attempts
       /\ patcher[c].at = "update" => patcher[c].copy \in DeploymentRecordStatus
  /\ current \subseteq Patchers
  /\ \A u \in late : u.by \in Patchers /\ u.status \in DeploymentRecordStatus
  /\ wrote \in [Patchers -> Nat]

(* What the calls, the tables and the requests of the store amount to is a *)
(* patch that takes effect in one instant, at most once, and is answered   *)
(* truthfully (patch): PatchPromise, for a call that has been given an     *)
(* answer or waits for it.                                                 *)
JobOf(d, writes) ==
  CASE d.at = "idle" -> [at |-> "idle"]
    [] d.at = "done" ->
         [at |-> "answered", patch |-> d.patch, effects |-> writes, outcome |-> d.outcome]
    [] OTHER -> [at |-> "asked", patch |-> d.patch, effects |-> writes]

Job == [c \in Patchers |-> JobOf(patcher[c], wrote[c])]

Promise == INSTANCE PatchPromise WITH
  Callers <- Patchers, Patches <- DeploymentPatches, status <- entity, job <- Job

ImplementsPatch == Promise!PromiseSpec

(* A call's status reaches the record at most once, and a call that is     *)
(* told so has written it: an update that is sent again after a lost       *)
(* answer, or arrives late, is never a second one.                         *)
WrittenOnce ==
  \A c \in Patchers :
    /\ patcher[c].at # "idle" =>
         wrote[c] <= 1 \/ patcher[c].patch.status = "note"
    /\ patcher[c].at = "done" =>
         /\ patcher[c].outcome = "applied" => wrote[c] >= 1
         /\ patcher[c].outcome = "missing" => wrote[c] = 0

(* No request is sent to a table before both tables exist, whoever else's  *)
(* creation of them failed or is still under way (ensureTables).           *)
RequestsFindTheirTables ==
  \A c \in Patchers :
    patcher[c].at \in {"get", "update", "again"} => tables = {"records", "locks"}

(* A patch returns, however often others write in between: the loop is     *)
(* bounded.                                                                *)
PatchReturns == \A c \in Patchers : patcher[c].at = "ensure" ~> patcher[c].at = "done"
=============================================================================
