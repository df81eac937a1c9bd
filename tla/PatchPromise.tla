---------------------------- MODULE PatchPromise ----------------------------
(***************************************************************************)
(* What a store promises of patch, with its tables, requests, etags and    *)
(* rounds left out: a record's status, and the calls that ask to change it.*)
(* A patch takes effect in one instant, by its rules and, if it carries a  *)
(* status, at most once; and an answer means what it says.  RecordPatch    *)
(* implements it, and other modules take a patch for one step.             *)
(***************************************************************************)
EXTENDS DeploymentRecords

CONSTANTS Callers, Patches

VARIABLES
  status,
  job        (* each call: its patch, its answer, how often it had effect  *)

promised == <<status, job>>

Idle == [at |-> "idle"]

Asked(p, effects) == [at |-> "asked", patch |-> p, effects |-> effects]

Answered(p, effects, outcome) ==
  [at |-> "answered", patch |-> p, effects |-> effects, outcome |-> outcome]

Answer(c, effects, outcome) ==
  job' = [job EXCEPT ![c] = Answered(job[c].patch, effects, outcome)]

-----------------------------------------------------------------------------
PromiseInit ==
  /\ status = "absent"
  /\ job = [c \in Callers |-> Idle]

Put ==
  /\ status = "absent"
  /\ status' = "previewed"
  /\ UNCHANGED job

Ask(c) ==
  /\ job[c] = Idle
  /\ \E p \in Patches : job' = [job EXCEPT ![c] = Asked(p, 0)]
  /\ UNCHANGED status

(* The instant of a patch: its rules hold of the status that it replaces.  *)
TakesEffect(c) ==
  /\ job[c].effects = 0 \/ job[c].patch.status = "note"
  /\ Changes(status, job[c].patch)
  /\ status' = After(status, job[c].patch)

(* The caller hears of it, or does not and is still waiting.               *)
Apply(c) ==
  /\ job[c].at = "asked"
  /\ TakesEffect(c)
  /\ \/ Answer(c, job[c].effects + 1, "applied")
     \/ job' = [job EXCEPT ![c] = Asked(job[c].patch, job[c].effects + 1)]

(* The rules forbid the patch now, or its own effect is already there.     *)
Refuse(c) ==
  /\ job[c].at = "asked"
  /\ status # "absent"
  /\ ~Changes(status, job[c].patch)
  /\ Answer(c, job[c].effects, "unapplied")
  /\ UNCHANGED status

Miss(c) ==
  /\ job[c].at = "asked"
  /\ status = "absent"
  /\ job[c].effects = 0
  /\ Answer(c, 0, "missing")
  /\ UNCHANGED status

(* One failure may answer several calls.  It tells nothing of the effect,  *)
(* and after an error the effect may still come.                           *)
GiveUp(calls, outcome) ==
  /\ \A c \in calls : job[c].at = "asked"
  /\ job' = [c \in Callers |->
       IF c \in calls THEN Answered(job[c].patch, job[c].effects, outcome) ELSE job[c]]
  /\ UNCHANGED status

ApplyLate(c) ==
  /\ job[c].at = "answered"
  /\ job[c].outcome = "error"
  /\ TakesEffect(c)
  /\ Answer(c, job[c].effects + 1, "error")

Return(c) ==
  /\ job[c].at = "answered"
  /\ job' = [job EXCEPT ![c] = Idle]
  /\ UNCHANGED status

PromiseNext ==
  \/ Put
  \/ \E c \in Callers :
       Ask(c) \/ Apply(c) \/ Refuse(c) \/ Miss(c) \/ ApplyLate(c) \/ Return(c)
  \/ \E calls \in SUBSET Callers, outcome \in {"error", "conflict"} : GiveUp(calls, outcome)

PromiseSpec == PromiseInit /\ [][PromiseNext]_promised
=============================================================================
