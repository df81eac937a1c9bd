---------------------- MODULE DeploymentLifecycle_proofs ----------------------
(***************************************************************************)
(* Theorems about DeploymentLifecycle, for every number of records, scopes,*)
(* workers and watchers.                                                   *)
(***************************************************************************)
EXTENDS DeploymentLifecycle, TLAPS

(* What a patch can leave behind: the old status, or the new one if it was *)
(* expected, allowed and different (applyDeploymentRecordPatch).           *)
LEMMA PatchedCases ==
  ASSUME NEW cur, NEW to, NEW expected
  PROVE  /\ PatchApplies(cur, to, expected) => Patched(cur, to, expected) = to
         /\ ~PatchApplies(cur, to, expected) => Patched(cur, to, expected) = cur
         /\ PatchApplies(cur, to, expected) => cur \in {"previewed", "submitting", "running"}
         /\ PatchApplies(cur, to, expected) => to \in StoredStatus
  BY DEF Patched, PatchApplies, AllowedFrom, StoredStatus, DeploymentRecordStatus, Terminal

(* A final status is where a patch never applies.                          *)
LEMMA FinalIsFinal ==
  ASSUME NEW cur \in Terminal, NEW to, NEW expected
  PROVE  Patched(cur, to, expected) = cur
  BY DEF Patched, PatchApplies, AllowedFrom, Terminal

LEMMA AnswerTyped ==
  ASSUME NEW a \in ArmState
  PROVE  deploymentStatus(a) \in Answer \ {"none"}
  BY DEF deploymentStatus, Answer, ArmState, Terminal

(* A worker or watcher that is not idle works on a record.                 *)
BusyHasJob ==
  /\ \A w \in Workers : pc[w] # "idle" => job[w] \in Records
  /\ \A v \in Watchers : wpc[v] # "idle" => wjob[v] \in Records

TypeInv == TypeOK /\ BusyHasJob

(* reconcile keeps the record variables' types.                            *)
LEMMA ReconcileTyped ==
  ASSUME TypeOK, NEW r \in Records, NEW base, NEW observed, NEW acked \in BOOLEAN,
         reconcile(r, base, observed, acked)
  PROVE  /\ status' \in [Records -> StoredStatus]
         /\ uncertain' \subseteq Records
         /\ expired' \subseteq Records
         /\ completed' \in [Records -> Nat]
<1>1. Patched(status[r], observed, {base}) \in StoredStatus
  BY PatchedCases DEF TypeOK
<1>. QED
  BY <1>1 DEF reconcile, TypeOK

(* Every variable keeps its type, whatever the constants are.              *)
LEMMA TypeInductive == Spec => []TypeInv
<1>. USE LifecycleAssumption
<1>1. Init => TypeInv
  BY DEF Init, TypeInv, BusyHasJob, TypeOK, StoredStatus, ArmState, Answer, Place,
         PutState, Result
<1>2. TypeInv /\ [Next]_vars => TypeInv'
  <2>. SUFFICES ASSUME TypeInv, [Next]_vars
                PROVE  TypeInv'
    OBVIOUS
  <2>. USE DEF TypeInv, BusyHasJob, TypeOK, recordVars, armVars, leaseVars, workerVars, watchVars
  <2>1. ASSUME NEW r \in Records, Preview(r)
        PROVE  TypeInv'
    BY <2>1 DEF Preview, StoredStatus, DeploymentRecordStatus
  <2>2. ASSUME NEW r \in Records, PreviewExpires(r)
        PROVE  TypeInv'
    BY <2>2 DEF PreviewExpires
  <2>3. ASSUME NEW r \in Records, ArmReceivesStray(r)
        PROVE  TypeInv'
    BY <2>3 DEF ArmReceivesStray, ArmState
  <2>4. ASSUME NEW r \in Records, ArmFinishes(r)
        PROVE  TypeInv'
    BY <2>4 DEF ArmFinishes, ArmState
  <2>5. ASSUME NEW s \in Scopes, Lapse(s)
        PROVE  TypeInv'
    BY <2>5 DEF Lapse
  <2>6. ASSUME NEW w \in Workers, NEW r \in Records, Deploy(w, r)
        PROVE  TypeInv'
    BY <2>6 DEF Deploy, Goto, Place, Body
  <2>7. ASSUME NEW w \in Workers, Acquire(w)
        PROVE  TypeInv'
    BY <2>7 DEF Acquire, Goto, Place, Body
  <2>8. ASSUME NEW w \in Workers, AcquireFails(w)
        PROVE  TypeInv'
    BY <2>8 DEF AcquireFails, Return, DropLocals, Goto, Place, PutState, Answer, Result
  <2>9. ASSUME NEW w \in Workers, Read(w)
        PROVE  TypeInv'
    BY <2>9 DEF Read, Leave, DropLocals, Goto, Place, Body, PutState, Answer, Result
  <2>10. ASSUME NEW w \in Workers, StepFails(w)
         PROVE  TypeInv'
    BY <2>10 DEF StepFails, Leave, DropLocals, Goto, Place, Body, PutState, Answer, Result
  <2>11. ASSUME NEW w \in Workers, Claim(w)
         PROVE  TypeInv'
    <3>1. Patched(status[job[w]], "submitting", {"previewed"}) \in StoredStatus
      BY <2>11, PatchedCases DEF Claim
    <3>. QED
      BY <2>11, <3>1 DEF Claim, Leave, DropLocals, Goto, Place, Body, PutState, Answer, Result
  <2>12. ASSUME NEW w \in Workers, ClaimUnacked(w)
         PROVE  TypeInv'
    BY <2>12 DEF ClaimUnacked, Leave, DropLocals, Goto, Place, Body, PutState, Answer,
                 Result, StoredStatus, DeploymentRecordStatus
  <2>13. ASSUME NEW w \in Workers, Probe(w)
         PROVE  TypeInv'
    <3>1. deploymentStatus(arm[job[w]]) \in Answer
      BY DEF deploymentStatus, Answer
    <3>. QED
      BY <2>13, <3>1 DEF Probe, Goto, Place, Body, Result
  <2>14. ASSUME NEW w \in Workers, SendPut(w)
         PROVE  TypeInv'
    BY <2>14 DEF SendPut, Leave, DropLocals, Goto, Place, Body, PutState, Answer, Result
  <2>15. ASSUME NEW w \in Workers, PutReturns(w)
         PROVE  TypeInv'
    BY <2>15 DEF PutReturns, Goto, Place, Body, PutState, Result
  <2>16. ASSUME NEW w \in Workers, PutAbandoned(w)
         PROVE  TypeInv'
    BY <2>16 DEF PutAbandoned, Goto, Place, Body, PutState, Answer
  <2>17. ASSUME NEW w \in Workers, recordSubmissionFailure(w)
         PROVE  TypeInv'
    <3>1. Patched(status[job[w]], "failed", {"submitting"}) \in StoredStatus
      BY <2>17, PatchedCases DEF recordSubmissionFailure
    <3>. QED
      BY <2>17, <3>1 DEF recordSubmissionFailure, Leave, DropLocals, Goto, Place, Body, PutState, Answer, Result
  <2>18. ASSUME NEW w \in Workers, Sync(w)
         PROVE  TypeInv'
    <3>1. PICK acked \in BOOLEAN :
            /\ reconcile(job[w], "submitting", seen[w], acked)
            /\ Leave(w, IF acked THEN result[w] ELSE "error")
      BY <2>18 DEF Sync
    <3>2. job[w] \in Records
      BY <2>18 DEF Sync
    <3>3. /\ status' \in [Records -> StoredStatus]
          /\ uncertain' \subseteq Records
          /\ expired' \subseteq Records
          /\ completed' \in [Records -> Nat]
      BY <3>1, <3>2, ReconcileTyped
    <3>. QED
      BY <2>18, <3>1, <3>2, <3>3 DEF Sync, Leave, DropLocals, Goto, Place, Body, PutState, Answer, Result
  <2>19. ASSUME NEW w \in Workers, Release(w)
         PROVE  TypeInv'
    BY <2>19 DEF Release, Return, DropLocals, Goto, Place, PutState, Answer, Result
  <2>20. ASSUME NEW w \in Workers, Renew(w)
         PROVE  TypeInv'
    BY <2>20 DEF Renew
  <2>21. ASSUME NEW w \in Workers, LoseLease(w)
         PROVE  TypeInv'
    BY <2>21 DEF LoseLease
  <2>22. ASSUME NEW w \in Workers, Crash(w)
         PROVE  TypeInv'
    BY <2>22 DEF Crash, Return, DropLocals, Goto, Place, PutState, Answer, Result
  <2>23. ASSUME NEW w \in Workers, ArmReceives(w)
         PROVE  TypeInv'
    BY <2>23 DEF ArmReceives, PutState, ArmState, deploymentStatus, Answer
  <2>24. ASSUME NEW v \in Watchers, NEW r \in Records, Watch(v, r)
         PROVE  TypeInv'
    BY <2>24 DEF Watch
  <2>25. ASSUME NEW v \in Watchers, WatchAsk(v)
         PROVE  TypeInv'
    <3>1. deploymentStatus(arm[wjob[v]]) \in Answer
      BY DEF deploymentStatus, Answer
    <3>. QED
      BY <2>25, <3>1 DEF WatchAsk
  <2>26. ASSUME NEW v \in Watchers, WatchFails(v)
         PROVE  TypeInv'
    BY <2>26 DEF WatchFails, WatchReturn, StoredStatus, Answer
  <2>27. ASSUME NEW v \in Watchers, WatchApply(v)
         PROVE  TypeInv'
    <3>1. PICK acked \in BOOLEAN : reconcile(wjob[v], wbase[v], wseen[v], acked)
      BY <2>27 DEF WatchApply
    <3>2. wjob[v] \in Records
      BY <2>27 DEF WatchApply
    <3>3. /\ status' \in [Records -> StoredStatus]
          /\ uncertain' \subseteq Records
          /\ expired' \subseteq Records
          /\ completed' \in [Records -> Nat]
      BY <3>1, <3>2, ReconcileTyped
    <3>. QED
      BY <2>27, <3>1, <3>2, <3>3 DEF WatchApply, WatchReturn, StoredStatus, Answer
  <2>28. CASE UNCHANGED vars
    BY <2>28 DEF vars
  <2>29. ASSUME NEW s \in Scopes, LateLeaseRequest(s)
         PROVE  TypeInv'
    BY <2>29 DEF LateLeaseRequest
  <2>. QED
    BY <2>1, <2>2, <2>3, <2>4, <2>5, <2>6, <2>7, <2>8, <2>9, <2>10, <2>11, <2>12, <2>13, <2>14, <2>15, <2>16, <2>17, <2>18, <2>19, <2>20, <2>21, <2>22, <2>23, <2>24, <2>25, <2>26, <2>27, <2>28, <2>29
       DEF Next, WorkerStep, WatcherStep
<1>. QED
  BY <1>1, <1>2, PTL DEF Spec

(* Type correctness: no step of any call leaves a variable ill-typed.      *)
THEOREM TypeCorrect == Spec => []TypeOK
  BY TypeInductive, PTL DEF TypeInv

-----------------------------------------------------------------------------
(* The submission invariant.  It adds to the two safety properties where a *)
(* worker stands while its PUT is under way, and that every answer from    *)
(* ARM still held by a worker or a watcher is one that stays true: ARM     *)
(* never forgets a deployment and never changes a final state.             *)

Past == {"submitting", "running"} \cup Terminal

Shape ==
  /\ \A w \in Workers : put[w] # "none" => pc[w] \in {"wait", "fail", "sync"}
  /\ \A w \in Workers : seen[w] # "none" => pc[w] = "sync" \/ (pc[w] = "wait" /\ put[w] = "accepted")
  /\ \A v \in Watchers : wseen[v] # "none" => wpc[v] = "apply"

PastClaim ==
  /\ \A r \in Records : arm[r] # "none" \/ r \in stray => status[r] \in Past
  /\ \A w \in Workers :
       pc[w] \in {"probe", "put", "wait", "fail", "sync"} => status[job[w]] \in Past

StaysTrue(answer, r) ==
  /\ answer = "running" => arm[r] # "none"
  /\ answer \in Terminal => arm[r] = answer

AnswersStayTrue ==
  /\ \A w \in Workers : StaysTrue(seen[w], job[w])
  /\ \A v \in Watchers : StaysTrue(wseen[v], wjob[v])

SubmissionInv == Shape /\ PastClaim /\ AnswersStayTrue /\ RecordFollowsArm

(* Past the claim there is no way back.                                    *)
LEMMA PatchedPast ==
  ASSUME NEW cur, NEW to, NEW expected
  PROVE  /\ cur \in Past => Patched(cur, to, expected) \in Past
         /\ PatchApplies(cur, to, expected) => Patched(cur, to, expected) \in Past \cup {"superseded"}
  BY DEF Patched, PatchApplies, AllowedFrom, Past, Terminal

(* What reconcile does to one record, when the answer it acts on is true.  *)
LEMMA ReconcileTruthful ==
  ASSUME TypeOK, RecordFollowsArm, NEW r \in Records, NEW base, NEW observed \in Answer,
         NEW acked \in BOOLEAN, StaysTrue(observed, r), reconcile(r, base, observed, acked),
         UNCHANGED arm
  PROVE  /\ RecordFollowsArm'
         /\ \A x \in Records : status[x] \in Past => status'[x] \in Past
<1>. DEFINE new == Patched(status[r], observed, {base})
<1>1. /\ status' = [status EXCEPT ![r] = new]
      /\ status \in [Records -> StoredStatus]
  BY DEF reconcile, TypeOK
<1>2. new = status[r] \/ (new = observed /\ observed # "none")
  BY DEF Patched, PatchApplies, AllowedFrom, Terminal
<1>3. status[r] \in Past => new \in Past
  BY PatchedPast
<1>4. \A x \in Records : status'[x] = IF x = r THEN new ELSE status[x]
  BY <1>1
<1>5. RecordFollowsArm'
  BY <1>2, <1>4 DEF RecordFollowsArm, StaysTrue, Answer, Terminal
<1>. QED
  BY <1>3, <1>4, <1>5

(* A fresh answer from ARM is true.                                        *)
LEMMA FreshAnswer ==
  ASSUME NEW r, arm[r] # "none"
  PROVE  StaysTrue(deploymentStatus(arm[r]), r)
  BY DEF StaysTrue, deploymentStatus, Terminal

(* A worker that reconciles keeps the invariant.                           *)
LEMMA SyncKeepsSubmission ==
  ASSUME TypeInv, SubmissionInv, NEW w \in Workers, Sync(w)
  PROVE  SubmissionInv'
<1>. USE DEF armVars, leaseVars, watchVars
<1>1. PICK acked \in BOOLEAN :
        /\ reconcile(job[w], "submitting", seen[w], acked)
        /\ Leave(w, IF acked THEN result[w] ELSE "error")
  BY DEF Sync
<1>2. TypeOK /\ RecordFollowsArm /\ Shape /\ PastClaim /\ AnswersStayTrue
  BY DEF TypeInv, SubmissionInv
<1>3. /\ job[w] \in Records
      /\ seen[w] \in Answer
      /\ StaysTrue(seen[w], job[w])
      /\ UNCHANGED arm
  BY <1>2 DEF Sync, TypeInv, BusyHasJob, TypeOK, AnswersStayTrue
<1>4. /\ RecordFollowsArm'
      /\ \A x \in Records : status[x] \in Past => status'[x] \in Past
  BY <1>1, <1>2, <1>3, ReconcileTruthful
<1>5. /\ pc' = [pc EXCEPT ![w] = "release"]
      /\ seen' = [seen EXCEPT ![w] = "none"]
      /\ put' = [put EXCEPT ![w] = "none"]
      /\ UNCHANGED <<arm, stray, job, wpc, wjob, wseen>>
  BY <1>1 DEF Sync, Leave, DropLocals, Goto
<1>6. Shape'
  BY <1>2, <1>5 DEF Shape, TypeOK
<1>7. PastClaim'
  <2>1. ASSUME NEW x \in Workers, (pc[x] \in {"probe", "put", "wait", "fail", "sync"})'
        PROVE  (status[job[x]] \in Past)'
    <3>1. pc[x] \in {"probe", "put", "wait", "fail", "sync"} /\ status[job[x]] \in Past
      BY <1>2, <1>5, <2>1 DEF PastClaim, TypeOK
    <3>2. job[x] \in Records
      BY <3>1 DEF TypeInv, BusyHasJob
    <3>. QED  BY <1>4, <1>5, <3>1, <3>2
  <2>. QED
    BY <1>2, <1>4, <1>5, <2>1 DEF PastClaim
<1>8. AnswersStayTrue'
  BY <1>2, <1>5 DEF AnswersStayTrue, StaysTrue, TypeOK, Terminal
<1>. QED
  BY <1>4, <1>6, <1>7, <1>8 DEF SubmissionInv

(* So does a watcher.                                                      *)
LEMMA WatchApplyKeepsSubmission ==
  ASSUME TypeInv, SubmissionInv, NEW v \in Watchers, WatchApply(v)
  PROVE  SubmissionInv'
<1>. USE DEF armVars, leaseVars, workerVars
<1>1. PICK acked \in BOOLEAN : reconcile(wjob[v], wbase[v], wseen[v], acked)
  BY DEF WatchApply
<1>2. TypeOK /\ RecordFollowsArm /\ Shape /\ PastClaim /\ AnswersStayTrue
  BY DEF TypeInv, SubmissionInv
<1>3. /\ wjob[v] \in Records
      /\ wseen[v] \in Answer
      /\ StaysTrue(wseen[v], wjob[v])
      /\ UNCHANGED arm
  BY <1>2 DEF WatchApply, TypeInv, BusyHasJob, TypeOK, AnswersStayTrue
<1>4. /\ RecordFollowsArm'
      /\ \A x \in Records : status[x] \in Past => status'[x] \in Past
  BY <1>1, <1>2, <1>3, ReconcileTruthful
<1>5. /\ wpc' = [wpc EXCEPT ![v] = "idle"]
      /\ wseen' = [wseen EXCEPT ![v] = "none"]
      /\ wjob' = [wjob EXCEPT ![v] = NoRecord]
      /\ UNCHANGED <<arm, stray, pc, job, put, seen>>
  BY DEF WatchApply, WatchReturn
<1>6. Shape'
  BY <1>2, <1>5 DEF Shape, TypeOK
<1>7. PastClaim'
  <2>1. ASSUME NEW x \in Workers, (pc[x] \in {"probe", "put", "wait", "fail", "sync"})'
        PROVE  (status[job[x]] \in Past)'
    <3>1. pc[x] \in {"probe", "put", "wait", "fail", "sync"} /\ status[job[x]] \in Past
      BY <1>2, <1>5, <2>1 DEF PastClaim
    <3>2. job[x] \in Records
      BY <3>1 DEF TypeInv, BusyHasJob
    <3>. QED  BY <1>4, <1>5, <3>1, <3>2
  <2>. QED
    BY <1>2, <1>4, <1>5, <2>1 DEF PastClaim
<1>8. AnswersStayTrue'
  BY <1>2, <1>5 DEF AnswersStayTrue, StaysTrue, TypeOK, Terminal
<1>. QED
  BY <1>4, <1>6, <1>7, <1>8 DEF SubmissionInv

(* The submission invariant is inductive, relative to the types.           *)
LEMMA SubmissionInductive == Spec => []SubmissionInv
<1>. USE LifecycleAssumption
<1>1. Init => SubmissionInv
  BY DEF Init, SubmissionInv, Shape, PastClaim, AnswersStayTrue, StaysTrue,
         RecordFollowsArm, Terminal
<1>2. TypeInv /\ SubmissionInv /\ [Next]_vars => SubmissionInv'
  <2>. SUFFICES ASSUME TypeInv, SubmissionInv, [Next]_vars
                PROVE  SubmissionInv'
    OBVIOUS
  <2>. USE DEF TypeInv, BusyHasJob, TypeOK, SubmissionInv, Shape, PastClaim, AnswersStayTrue,
               StaysTrue, RecordFollowsArm, Past, Terminal,
               recordVars, armVars, leaseVars, workerVars, watchVars
  <2>1. ASSUME NEW r \in Records, Preview(r)
        PROVE  SubmissionInv'
    BY <2>1 DEF Preview
  <2>2. ASSUME NEW r \in Records, PreviewExpires(r)
        PROVE  SubmissionInv'
    BY <2>2 DEF PreviewExpires
  <2>3. ASSUME NEW r \in Records, ArmReceivesStray(r)
        PROVE  SubmissionInv'
    BY <2>3 DEF ArmReceivesStray
  <2>4. ASSUME NEW r \in Records, ArmFinishes(r)
        PROVE  SubmissionInv'
    BY <2>4 DEF ArmFinishes
  <2>5. ASSUME NEW s \in Scopes, Lapse(s)
        PROVE  SubmissionInv'
    BY <2>5 DEF Lapse
  <2>6. ASSUME NEW w \in Workers, NEW r \in Records, Deploy(w, r)
        PROVE  SubmissionInv'
    BY <2>6 DEF Deploy, Goto, Deployable
  <2>7. ASSUME NEW w \in Workers, Acquire(w)
        PROVE  SubmissionInv'
    BY <2>7 DEF Acquire, Goto
  <2>8. ASSUME NEW w \in Workers, AcquireFails(w)
        PROVE  SubmissionInv'
    BY <2>8 DEF AcquireFails, Return, DropLocals, Goto
  <2>9. ASSUME NEW w \in Workers, Read(w)
        PROVE  SubmissionInv'
    BY <2>9 DEF Read, Leave, DropLocals, Goto
  <2>10. ASSUME NEW w \in Workers, StepFails(w)
         PROVE  SubmissionInv'
    BY <2>10 DEF StepFails, Leave, DropLocals, Goto
  <2>11. ASSUME NEW w \in Workers, Claim(w)
         PROVE  SubmissionInv'
    BY <2>11 DEF Claim, Leave, DropLocals, Goto, Patched, PatchApplies, AllowedFrom
  <2>12. ASSUME NEW w \in Workers, ClaimUnacked(w)
         PROVE  SubmissionInv'
    BY <2>12 DEF ClaimUnacked, Leave, DropLocals, Goto, PatchApplies
  <2>13. ASSUME NEW w \in Workers, Probe(w)
         PROVE  SubmissionInv'
    <3>1. arm[job[w]] # "none" => StaysTrue(deploymentStatus(arm[job[w]]), job[w])
      BY FreshAnswer
    <3>2. UNCHANGED <<arm, stray, status, wseen, wjob, wpc, job, put>>
      BY <2>13 DEF Probe
    <3>3. PastClaim' /\ RecordFollowsArm'
      BY <2>13, <3>2 DEF Probe, Goto
    <3>4. Shape'
      BY <2>13, <3>2 DEF Probe, Goto
    <3>5. AnswersStayTrue'
      BY <2>13, <3>1, <3>2 DEF Probe
    <3>. QED  BY <3>3, <3>4, <3>5
  <2>14. ASSUME NEW w \in Workers, SendPut(w)
         PROVE  SubmissionInv'
    BY <2>14 DEF SendPut, Leave, DropLocals, Goto
  <2>15. ASSUME NEW w \in Workers, PutReturns(w)
         PROVE  SubmissionInv'
    BY <2>15 DEF PutReturns, Goto
  <2>16. ASSUME NEW w \in Workers, PutAbandoned(w)
         PROVE  SubmissionInv'
    BY <2>16 DEF PutAbandoned, Goto
  <2>17. ASSUME NEW w \in Workers, recordSubmissionFailure(w)
         PROVE  SubmissionInv'
    BY <2>17 DEF recordSubmissionFailure, Leave, DropLocals, Goto, Patched, PatchApplies, AllowedFrom
  <2>18. ASSUME NEW w \in Workers, Sync(w)
         PROVE  SubmissionInv'
    BY ONLY <2>18, TypeInv, SubmissionInv, SyncKeepsSubmission
  <2>19. ASSUME NEW w \in Workers, Release(w)
         PROVE  SubmissionInv'
    BY <2>19 DEF Release, Return, DropLocals, Goto
  <2>20. ASSUME NEW w \in Workers, Renew(w)
         PROVE  SubmissionInv'
    BY <2>20 DEF Renew
  <2>21. ASSUME NEW w \in Workers, LoseLease(w)
         PROVE  SubmissionInv'
    BY <2>21 DEF LoseLease
  <2>22. ASSUME NEW w \in Workers, Crash(w)
         PROVE  SubmissionInv'
    BY <2>22 DEF Crash, Return, DropLocals, Goto
  <2>23. ASSUME NEW w \in Workers, ArmReceives(w)
         PROVE  SubmissionInv'
    <3>1. /\ job[w] \in Records
          /\ status[job[w]] \in Past
          /\ \A r \in Records : arm[r] # "none" => arm'[r] = arm[r]
          /\ UNCHANGED <<stray, pc, job, recordVars, watchVars>>
      BY <2>23 DEF ArmReceives
    <3>2. StaysTrue(seen[w], job[w])'
      <4>1. CASE UNCHANGED <<arm, seen>>
        BY <3>1, <4>1
      <4>2. CASE /\ arm' = [arm EXCEPT ![job[w]] = IF @ = "none" THEN "active" ELSE @]
                 /\ seen' = [seen EXCEPT ![w] = deploymentStatus(arm'[job[w]])]
        BY <3>1, <4>2 DEF deploymentStatus
      <4>3. \/ UNCHANGED <<arm, seen>>
            \/ /\ arm' = [arm EXCEPT ![job[w]] = IF @ = "none" THEN "active" ELSE @]
               /\ seen' = [seen EXCEPT ![w] = deploymentStatus(arm'[job[w]])]
        BY <2>23 DEF ArmReceives
      <4>. QED  BY <4>1, <4>2, <4>3
    <3>3. \A x \in Workers \ {w} : StaysTrue(seen[x], job[x])'
      BY <2>23, <3>1 DEF ArmReceives, Shape
    <3>4. \A v \in Watchers : StaysTrue(wseen[v], wjob[v])'
      BY <3>1
    <3>5. Shape'
      BY <2>23, <3>1 DEF ArmReceives
    <3>6. PastClaim' /\ RecordFollowsArm'
      BY <2>23, <3>1 DEF ArmReceives
    <3>. QED  BY <3>2, <3>3, <3>4, <3>5, <3>6
  <2>24. ASSUME NEW v \in Watchers, NEW r \in Records, Watch(v, r)
         PROVE  SubmissionInv'
    BY <2>24 DEF Watch
  <2>25. ASSUME NEW v \in Watchers, WatchAsk(v)
         PROVE  SubmissionInv'
    <3>1. StaysTrue(deploymentStatus(arm[wjob[v]]), wjob[v])
      BY <2>25, FreshAnswer DEF WatchAsk
    <3>. QED
      BY <2>25, <3>1 DEF WatchAsk
  <2>26. ASSUME NEW v \in Watchers, WatchFails(v)
         PROVE  SubmissionInv'
    BY <2>26 DEF WatchFails, WatchReturn
  <2>27. ASSUME NEW v \in Watchers, WatchApply(v)
         PROVE  SubmissionInv'
    BY ONLY <2>27, TypeInv, SubmissionInv, WatchApplyKeepsSubmission
  <2>28. CASE UNCHANGED vars
    BY <2>28 DEF vars
  <2>29. ASSUME NEW s \in Scopes, LateLeaseRequest(s)
         PROVE  SubmissionInv'
    BY <2>29 DEF LateLeaseRequest
  <2>. QED
    BY <2>1, <2>2, <2>3, <2>4, <2>5, <2>6, <2>7, <2>8, <2>9, <2>10, <2>11, <2>12, <2>13, <2>14, <2>15, <2>16, <2>17, <2>18, <2>19, <2>20, <2>21, <2>22, <2>23, <2>24, <2>25, <2>26, <2>27, <2>28, <2>29
       DEF Next, WorkerStep, WatcherStep
<1>. QED
  BY <1>1, <1>2, TypeInductive, PTL DEF Spec

(* Whatever ARM runs, or may yet receive, has a record past its claim: a   *)
(* crash anywhere in start() loses no deployment.                          *)
THEOREM DurableClaim == Spec => []DurableBeforeSubmitted
<1>1. TypeInv /\ SubmissionInv => DurableBeforeSubmitted
  BY DEF SubmissionInv, Shape, PastClaim, Past, Terminal, DurableBeforeSubmitted, AtLarge
<1>. QED
  BY <1>1, TypeInductive, SubmissionInductive, PTL

(* No stale or late answer makes a record say of a deployment what ARM     *)
(* never said of it.                                                       *)
THEOREM RecordsAreTruthful == Spec => []RecordFollowsArm
<1>1. SubmissionInv => RecordFollowsArm
  BY DEF SubmissionInv
<1>. QED
  BY <1>1, SubmissionInductive, PTL

-----------------------------------------------------------------------------
(* What a step does to the record variables, whichever call takes it.      *)

(* A record's status moves by a patch, by its preview or by a lost claim   *)
(* write, and its completion is counted, if at all, once and only when the *)
(* patch that ends it is applied.                                          *)
RecordMove(r) ==
  \/ UNCHANGED <<status[r], completed[r]>> /\ (r \in uncertain' => r \in uncertain)
  \/ /\ status[r] \notin Terminal
     /\ r \notin uncertain'
     /\ \/ completed'[r] = completed[r]
        \/ completed'[r] = completed[r] + 1 /\ status'[r] \in Terminal
  \/ /\ status[r] = "submitting"
     /\ UNCHANGED <<status[r], completed[r]>>

(* reconcile moves its own record so, and no other.                        *)
LEMMA ReconcileMoves ==
  ASSUME TypeOK, NEW r \in Records, NEW base, NEW observed, NEW acked \in BOOLEAN,
         reconcile(r, base, observed, acked), NEW x \in Records
  PROVE  RecordMove(x)
<1>1. CASE x # r
  BY <1>1 DEF reconcile, RecordMove, TypeOK
<1>2. CASE x = r /\ PatchApplies(status[r], observed, {base})
  <2>1. status'[r] = observed /\ r \notin uncertain'
    BY <1>2 DEF reconcile, Patched, TypeOK
  <2>2. status[r] \notin Terminal
    BY <1>2 DEF PatchApplies, AllowedFrom, Terminal
  <2>3. \/ completed'[r] = completed[r]
        \/ completed'[r] = completed[r] + 1 /\ observed \in Terminal
    BY DEF reconcile, TypeOK
  <2>. QED
    BY <1>2, <2>1, <2>2, <2>3 DEF RecordMove
<1>3. CASE x = r /\ ~PatchApplies(status[r], observed, {base})
  BY <1>3 DEF reconcile, RecordMove, Patched, TypeOK
<1>. QED
  BY <1>1, <1>2, <1>3

(* So does recordSubmissionFailure.                                        *)
LEMMA FailureMoves ==
  ASSUME TypeOK, NEW w \in Workers, job[w] \in Records, recordSubmissionFailure(w),
         NEW x \in Records
  PROVE  RecordMove(x)
  BY DEF recordSubmissionFailure, RecordMove, TypeOK, Patched, PatchApplies, AllowedFrom, Terminal

(* And the claim.                                                          *)
LEMMA ClaimMoves ==
  ASSUME TypeOK, NEW w \in Workers, job[w] \in Records, Claim(w) \/ ClaimUnacked(w),
         uncertain \cap {r \in Records : status[r] = "previewed"} = {},
         NEW x \in Records
  PROVE  RecordMove(x)
  BY DEF Claim, ClaimUnacked, RecordMove, TypeOK, Patched, PatchApplies, AllowedFrom, Terminal

(* Every step moves every record so.                                       *)
LEMMA EveryStepMoves ==
  ASSUME TypeInv, UncertainOnlyWhileSubmitting, [Next]_vars, NEW x \in Records
  PROVE  RecordMove(x)
<1>. USE DEF recordVars, armVars, leaseVars, workerVars, watchVars
<1>1. CASE UNCHANGED recordVars
  BY <1>1 DEF RecordMove
<1>2. ASSUME NEW r \in Records, Preview(r)
      PROVE  RecordMove(x)
  BY <1>2 DEF Preview, RecordMove, TypeInv, TypeOK, UncertainOnlyWhileSubmitting, Terminal
<1>3. ASSUME NEW r \in Records, PreviewExpires(r)
      PROVE  RecordMove(x)
  BY <1>3 DEF PreviewExpires, RecordMove
<1>4. ASSUME NEW w \in Workers, Claim(w) \/ ClaimUnacked(w)
      PROVE  RecordMove(x)
  <2>1. job[w] \in Records
    BY <1>4 DEF Claim, ClaimUnacked, TypeInv, BusyHasJob
  <2>2. uncertain \cap {r \in Records : status[r] = "previewed"} = {}
    BY DEF UncertainOnlyWhileSubmitting
  <2>3. TypeOK
    BY DEF TypeInv
  <2>. QED
    BY ONLY <1>4, <2>1, <2>2, <2>3, ClaimMoves, x \in Records
<1>5. ASSUME NEW w \in Workers, recordSubmissionFailure(w)
      PROVE  RecordMove(x)
  <2>1. job[w] \in Records
    BY <1>5 DEF recordSubmissionFailure, TypeInv, BusyHasJob
  <2>2. TypeOK
    BY DEF TypeInv
  <2>. QED
    BY ONLY <1>5, <2>1, <2>2, FailureMoves, x \in Records
<1>6. ASSUME NEW w \in Workers, Sync(w)
      PROVE  RecordMove(x)
  <2>1. job[w] \in Records /\ TypeOK
    BY <1>6 DEF Sync, TypeInv, BusyHasJob
  <2>2. \E acked \in BOOLEAN : reconcile(job[w], "submitting", seen[w], acked)
    BY <1>6 DEF Sync
  <2>. QED
    BY ONLY <2>1, <2>2, ReconcileMoves, x \in Records
<1>7. ASSUME NEW v \in Watchers, WatchApply(v)
      PROVE  RecordMove(x)
  <2>1. wjob[v] \in Records /\ TypeOK
    BY <1>7 DEF WatchApply, TypeInv, BusyHasJob
  <2>2. \E acked \in BOOLEAN : reconcile(wjob[v], wbase[v], wseen[v], acked)
    BY <1>7 DEF WatchApply
  <2>. QED
    BY ONLY <2>1, <2>2, ReconcileMoves, x \in Records
<1>8. \/ UNCHANGED recordVars
      \/ \E r \in Records : Preview(r) \/ PreviewExpires(r)
      \/ \E w \in Workers : \/ Claim(w) \/ ClaimUnacked(w) \/ recordSubmissionFailure(w)
                           \/ Sync(w)
      \/ \E v \in Watchers : WatchApply(v)
  BY DEF vars, Next, WorkerStep, WatcherStep, ArmReceivesStray, ArmFinishes, Lapse, LateLeaseRequest, Deploy,
         Acquire, AcquireFails, Read, StepFails, Probe, SendPut, PutReturns, PutAbandoned,
         Release, Renew, LoseLease, Crash, ArmReceives, Watch, WatchAsk, WatchFails
<1>. QED
  BY <1>1, <1>2, <1>3, <1>4, <1>5, <1>6, <1>7, <1>8

(* Whatever a patch replaces, it is one of those that the store's promise  *)
(* covers, if it does not supersede the record.                            *)
PatchMove(r) ==
  \/ status'[r] = status[r]
  \/ status[r] = "absent" /\ status'[r] = "previewed"
  \/ \E p \in DeploymentPatches : Changes(status[r], p) /\ status'[r] = After(status[r], p)

LEMMA OneOfThePatches ==
  ASSUME NEW cur, NEW to, NEW expected, PatchApplies(cur, to, expected), to # "superseded"
  PROVE  \E p \in DeploymentPatches : Changes(cur, p) /\ After(cur, p) = to
<1>. DEFINE p == [status |-> to, expected |-> {cur}]
<1>1. to # cur /\ to \in AllowedFrom(cur)
  BY DEF PatchApplies
<1>2. p.status = to /\ p.expected = {cur}
  OBVIOUS
<1>3. cur \in {"previewed", "submitting", "running"}
  BY PatchedCases
<1>4. to # "note"
  BY <1>1, <1>3 DEF AllowedFrom, Terminal
<1>5. p \in DeploymentPatches
  BY <1>1, <1>3 DEF DeploymentPatches, ClaimPatches, FailurePatches, ReconcilePatches,
                    AllowedFrom, Terminal
<1>6. Changes(cur, p) /\ After(cur, p) = to
  BY <1>1, <1>2, <1>4 DEF Changes, After, PatchApplies
<1>. QED
  BY <1>5, <1>6

LEMMA PatchedMoves ==
  ASSUME TypeOK, NEW r \in Records, NEW to, NEW expected, to # "superseded",
         status' = [status EXCEPT ![r] = Patched(@, to, expected)], NEW x \in Records
  PROVE  PatchMove(x)
<1>1. CASE x # r
  BY <1>1 DEF PatchMove, TypeOK
<1>2. CASE x = r /\ PatchApplies(status[r], to, expected)
  <2>1. status'[r] = to
    BY <1>2 DEF Patched, TypeOK
  <2>. QED
    BY <1>2, <2>1, OneOfThePatches DEF PatchMove
<1>3. CASE x = r /\ ~PatchApplies(status[r], to, expected)
  BY <1>3 DEF PatchMove, Patched, TypeOK
<1>. QED
  BY <1>1, <1>2, <1>3

LEMMA EveryStepPatches ==
  ASSUME TypeInv, [Next]_vars, NEW x \in Records
  PROVE  PatchMove(x)
<1>. USE DEF recordVars, armVars, leaseVars, workerVars, watchVars
<1>1. TypeOK
  BY DEF TypeInv
<1>2. CASE UNCHANGED status
  BY <1>2 DEF PatchMove
<1>3. ASSUME NEW r \in Records, Preview(r)
      PROVE  PatchMove(x)
  BY <1>1, <1>3 DEF Preview, PatchMove, TypeOK
<1>4. ASSUME NEW w \in Workers, Claim(w) \/ ClaimUnacked(w)
      PROVE  PatchMove(x)
  <2>1. job[w] \in Records
    BY <1>4 DEF Claim, ClaimUnacked, TypeInv, BusyHasJob
  <2>2. status' = [status EXCEPT ![job[w]] = Patched(@, "submitting", {"previewed"})]
    BY <1>4 DEF Claim, ClaimUnacked, Patched
  <2>. QED
    BY ONLY <1>1, <2>1, <2>2, PatchedMoves, x \in Records
<1>5. ASSUME NEW w \in Workers, recordSubmissionFailure(w)
      PROVE  PatchMove(x)
  <2>1. job[w] \in Records
    BY <1>5 DEF recordSubmissionFailure, TypeInv, BusyHasJob
  <2>2. \/ UNCHANGED status
        \/ status' = [status EXCEPT ![job[w]] = Patched(@, "failed", {"submitting"})]
    BY <1>5 DEF recordSubmissionFailure
  <2>. QED
    BY <1>1, <1>2, <2>1, <2>2, PatchedMoves
<1>6. ASSUME NEW r \in Records, NEW base, NEW observed \in Answer, NEW acked \in BOOLEAN,
             reconcile(r, base, observed, acked)
      PROVE  PatchMove(x)
  <2>1. observed # "superseded"
    BY DEF Answer, Terminal
  <2>2. status' = [status EXCEPT ![r] = Patched(@, observed, {base})]
    BY <1>6 DEF reconcile
  <2>. QED
    BY ONLY <1>1, <2>1, <2>2, PatchedMoves, r \in Records, x \in Records
<1>7. ASSUME NEW w \in Workers, Sync(w)
      PROVE  PatchMove(x)
  <2>1. job[w] \in Records /\ seen[w] \in Answer
    BY <1>7 DEF Sync, TypeInv, BusyHasJob, TypeOK
  <2>2. \E acked \in BOOLEAN : reconcile(job[w], "submitting", seen[w], acked)
    BY <1>7 DEF Sync
  <2>. QED
    BY <1>6, <2>1, <2>2
<1>8. ASSUME NEW v \in Watchers, WatchApply(v)
      PROVE  PatchMove(x)
  <2>1. wjob[v] \in Records /\ wseen[v] \in Answer
    BY <1>8 DEF WatchApply, TypeInv, BusyHasJob, TypeOK
  <2>2. \E acked \in BOOLEAN : reconcile(wjob[v], wbase[v], wseen[v], acked)
    BY <1>8 DEF WatchApply
  <2>. QED
    BY <1>6, <2>1, <2>2
<1>9. \/ UNCHANGED status
      \/ \E r \in Records : Preview(r)
      \/ \E w \in Workers : \/ Claim(w) \/ ClaimUnacked(w) \/ recordSubmissionFailure(w)
                           \/ Sync(w)
      \/ \E v \in Watchers : WatchApply(v)
  BY DEF vars, Next, WorkerStep, WatcherStep, PreviewExpires, ArmReceivesStray, ArmFinishes, Lapse,
         LateLeaseRequest, Deploy, Acquire, AcquireFails, Read, StepFails, Probe, SendPut,
         PutReturns, PutAbandoned, Release, Renew, LoseLease, Crash, ArmReceives, Watch, WatchAsk,
         WatchFails
<1>. QED
  BY <1>2, <1>3, <1>4, <1>5, <1>7, <1>8, <1>9

(* What the lifecycle asks of a store is what PatchPromise promises: after *)
(* the put, a record's status moves by the patches of DeploymentPatches    *)
(* alone, one effect a step, whoever writes and whichever stale copy it    *)
(* holds.  So the promise, which the Azure store's loop implements for     *)
(* these patches (PatchAsPromised), is all that the lifecycle relies on    *)
(* when it takes a patch for one step (start, recordSubmissionFailure,     *)
(* reconcile).                                                             *)
THEOREM StatusMovesByPatches ==
  Spec => [][\A r \in Records : PatchMove(r)]_vars
<1>1. TypeInv /\ [Next]_vars => [\A r \in Records : PatchMove(r)]_vars
  BY EveryStepPatches
<1>. QED
  BY <1>1, TypeInductive, PTL DEF Spec

(* Only submitting records are uncertain, and a counted one is final.      *)
CountedIsFinal ==
  \A r \in Records : completed[r] = 0 \/ (completed[r] = 1 /\ status[r] \in Terminal)

RecordInv == UncertainOnlyWhileSubmitting /\ CountedIsFinal

LEMMA RecordInductive == Spec => []RecordInv
<1>1. Init => RecordInv
  BY DEF Init, RecordInv, UncertainOnlyWhileSubmitting, CountedIsFinal
<1>2. TypeInv /\ TypeInv' /\ RecordInv /\ [Next]_vars => RecordInv'
  <2>. SUFFICES ASSUME TypeInv, TypeInv', RecordInv, [Next]_vars
                PROVE  RecordInv'
    OBVIOUS
  <2>1. \A x \in Records : RecordMove(x)
    BY EveryStepMoves DEF RecordInv
  <2>2. uncertain' \subseteq Records
    BY DEF TypeInv, TypeOK
  <2>3. UncertainOnlyWhileSubmitting'
    BY <2>1, <2>2 DEF RecordMove, RecordInv, UncertainOnlyWhileSubmitting
  <2>4. CountedIsFinal'
    BY <2>1 DEF RecordMove, RecordInv, CountedIsFinal, Terminal
  <2>. QED
    BY <2>3, <2>4 DEF RecordInv
<1>. QED
  BY <1>1, <1>2, TypeInductive, PTL DEF Spec

(* The late note of an uncertain submission lands on submitting records    *)
(* only.                                                                   *)
THEOREM UncertainIsSubmitting == Spec => []UncertainOnlyWhileSubmitting
  BY RecordInductive, PTL DEF RecordInv

(* However many calls race to report it, a deployment completes once.      *)
THEOREM CompletionCountedOnce == Spec => []CompletedOnce
<1>1. TypeInv /\ RecordInv => CompletedOnce
  BY DEF TypeInv, TypeOK, RecordInv, CountedIsFinal, CompletedOnce
<1>. QED
  BY <1>1, TypeInductive, RecordInductive, PTL

(* A final status is final.                                                *)
THEOREM FinalStays == Spec => FinalStatusStays
<1>1. TypeInv /\ RecordInv /\ [Next]_vars =>
        [\A r \in Records : status[r] \in Terminal => status'[r] = status[r]]_vars
  <2>. SUFFICES ASSUME TypeInv, RecordInv, [Next]_vars, NEW r \in Records, status[r] \in Terminal
                PROVE  status'[r] = status[r]
    OBVIOUS
  <2>1. RecordMove(r)
    BY EveryStepMoves DEF RecordInv
  <2>. QED
    BY <2>1 DEF RecordMove, Terminal
<1>. QED
  BY <1>1, TypeInductive, RecordInductive, PTL DEF Spec, FinalStatusStays

-----------------------------------------------------------------------------
(* Leases that outlast their calls (Stalls = FALSE).                       *)

(* A call inside the body owns its scope's lease, and it has not lapsed.   *)
LeaseInv ==
  ~Stalls => \A w \in Workers :
               pc[w] \in Body => owner[scopeKey(w)] = w /\ scopeKey(w) \notin lapsed

(* Places from which the call may still submit, or has.                    *)
Submitting == {"probe", "put", "wait", "fail", "sync"}

(* The places of a first submission from its claim until ARM accepts it or *)
(* its outcome is uncertain: the PUT it may have sent is not accepted yet. *)
Unaccepted(w) ==
  \/ pc[w] = "put"
  \/ pc[w] = "wait" /\ put[w] # "accepted"
  \/ pc[w] = "fail" /\ put[w] = "refused"

(* A first submission is the only one of its name: until it is accepted    *)
(* ARM has nothing of that name, and nothing is on its way.  This is what  *)
(* makes a rejection definitive.                                           *)
FirstSubmission ==
  ~Stalls => \A w \in Workers :
    /\ w \notin resuming /\ Unaccepted(w) => arm[job[w]] = "none" /\ job[w] \notin stray
    /\ pc[w] = "fail" /\ put[w] = "refused" => w \notin resuming
    /\ pc[w] = "probe" => w \in resuming

(* A record that failed without ARM has no PUT left anywhere.              *)
FailedSettled ==
  ~Stalls => \A r \in Records :
    status[r] = "failed" /\ arm[r] # "failed" =>
      /\ arm[r] = "none"
      /\ r \notin stray
      /\ \A w \in Workers : job[w] = r => pc[w] \notin Submitting


(* Each of the three parts is inductive relative to the ones before it.    *)
LEMMA LeaseInductive == Spec => []LeaseInv
<1>. USE LifecycleAssumption
<1>1. Init => LeaseInv
  BY DEF Init, LeaseInv, Body
<1>2. TypeInv /\ LeaseInv /\ [Next]_vars => LeaseInv'
  <2>. SUFFICES ASSUME TypeInv, LeaseInv, [Next]_vars, ~Stalls
                PROVE  LeaseInv'
    BY DEF LeaseInv
  <2>. USE DEF TypeInv, BusyHasJob, TypeOK, LeaseInv, scopeKey, Body,
               recordVars, armVars, leaseVars, workerVars, watchVars
  <2>1. ASSUME NEW r \in Records, Preview(r)
        PROVE  LeaseInv'
    BY <2>1 DEF Preview
  <2>2. ASSUME NEW r \in Records, PreviewExpires(r)
        PROVE  LeaseInv'
    BY <2>2 DEF PreviewExpires
  <2>3. ASSUME NEW r \in Records, ArmReceivesStray(r)
        PROVE  LeaseInv'
    BY <2>3 DEF ArmReceivesStray
  <2>4. ASSUME NEW r \in Records, ArmFinishes(r)
        PROVE  LeaseInv'
    BY <2>4 DEF ArmFinishes
  <2>5. ASSUME NEW s \in Scopes, Lapse(s)
        PROVE  LeaseInv'
    BY <2>5 DEF Lapse
  <2>6. ASSUME NEW w \in Workers, NEW r \in Records, Deploy(w, r)
        PROVE  LeaseInv'
    BY <2>6 DEF Deploy, Goto
  <2>7. ASSUME NEW w \in Workers, Acquire(w)
        PROVE  LeaseInv'
    BY <2>7 DEF Acquire, Goto, LeaseFree
  <2>8. ASSUME NEW w \in Workers, AcquireFails(w)
        PROVE  LeaseInv'
    BY <2>8 DEF AcquireFails, Return, DropLocals, Goto
  <2>9. ASSUME NEW w \in Workers, Read(w)
        PROVE  LeaseInv'
    BY <2>9 DEF Read, Leave, DropLocals, Goto
  <2>10. ASSUME NEW w \in Workers, StepFails(w)
         PROVE  LeaseInv'
    BY <2>10 DEF StepFails, Leave, DropLocals, Goto
  <2>11. ASSUME NEW w \in Workers, Claim(w)
         PROVE  LeaseInv'
    BY <2>11 DEF Claim, Leave, DropLocals, Goto
  <2>12. ASSUME NEW w \in Workers, ClaimUnacked(w)
         PROVE  LeaseInv'
    BY <2>12 DEF ClaimUnacked, Leave, DropLocals, Goto
  <2>13. ASSUME NEW w \in Workers, Probe(w)
         PROVE  LeaseInv'
    BY <2>13 DEF Probe, Goto
  <2>14. ASSUME NEW w \in Workers, SendPut(w)
         PROVE  LeaseInv'
    BY <2>14 DEF SendPut, Leave, DropLocals, Goto
  <2>15. ASSUME NEW w \in Workers, PutReturns(w)
         PROVE  LeaseInv'
    BY <2>15 DEF PutReturns, Goto
  <2>16. ASSUME NEW w \in Workers, PutAbandoned(w)
         PROVE  LeaseInv'
    BY <2>16 DEF PutAbandoned, Goto
  <2>17. ASSUME NEW w \in Workers, recordSubmissionFailure(w)
         PROVE  LeaseInv'
    BY <2>17 DEF recordSubmissionFailure, Leave, DropLocals, Goto
  <2>18. ASSUME NEW w \in Workers, Sync(w)
         PROVE  LeaseInv'
    BY <2>18 DEF Sync, Leave, DropLocals, Goto
  <2>19. ASSUME NEW w \in Workers, Release(w)
         PROVE  LeaseInv'
    BY <2>19 DEF Release, Return, DropLocals, Goto
  <2>20. ASSUME NEW w \in Workers, Renew(w)
         PROVE  LeaseInv'
    BY <2>20 DEF Renew
  <2>21. ASSUME NEW w \in Workers, LoseLease(w)
         PROVE  LeaseInv'
    BY <2>21 DEF LoseLease
  <2>22. ASSUME NEW w \in Workers, Crash(w)
         PROVE  LeaseInv'
    BY <2>22 DEF Crash, Return, DropLocals, Goto
  <2>23. ASSUME NEW w \in Workers, ArmReceives(w)
         PROVE  LeaseInv'
    BY <2>23 DEF ArmReceives
  <2>24. ASSUME NEW v \in Watchers, NEW r \in Records, Watch(v, r)
         PROVE  LeaseInv'
    BY <2>24 DEF Watch
  <2>25. ASSUME NEW v \in Watchers, WatchAsk(v)
         PROVE  LeaseInv'
    BY <2>25 DEF WatchAsk
  <2>26. ASSUME NEW v \in Watchers, WatchFails(v)
         PROVE  LeaseInv'
    BY <2>26 DEF WatchFails, WatchReturn
  <2>27. ASSUME NEW v \in Watchers, WatchApply(v)
         PROVE  LeaseInv'
    BY <2>27 DEF WatchApply, WatchReturn
  <2>28. CASE UNCHANGED vars
    BY <2>28 DEF vars
  <2>29. ASSUME NEW s \in Scopes, LateLeaseRequest(s)
         PROVE  LeaseInv'
    BY <2>29 DEF LateLeaseRequest, LeaseFree
  <2>. QED
    BY <2>1, <2>2, <2>3, <2>4, <2>5, <2>6, <2>7, <2>8, <2>9, <2>10, <2>11, <2>12, <2>13, <2>14, <2>15, <2>16, <2>17, <2>18, <2>19, <2>20, <2>21, <2>22, <2>23, <2>24, <2>25, <2>26, <2>27, <2>28, <2>29
       DEF Next, WorkerStep, WatcherStep
<1>. QED
  BY <1>1, <1>2, TypeInductive, PTL DEF Spec

(* One call at a time: the lease of a scope keeps its body to itself.      *)
THEOREM LockExcludes ==
  ASSUME ~Stalls
  PROVE  Spec => []OneCallPerScope
<1>1. LeaseInv => OneCallPerScope
  BY DEF LeaseInv, OneCallPerScope
<1>. QED
  BY <1>1, LeaseInductive, PTL

(* Two calls in the body never work on the same record.                    *)
LEMMA OneWorkerPerRecord ==
  ASSUME ~Stalls, LeaseInv, NEW w1 \in Workers, NEW w2 \in Workers,
         pc[w1] \in Body, pc[w2] \in Body, job[w1] = job[w2]
  PROVE  w1 = w2
  BY DEF LeaseInv, scopeKey

LEMMA FirstSubmissionInductive == Spec => []FirstSubmission
<1>. USE LifecycleAssumption
<1>1. Init => FirstSubmission
  BY DEF Init, FirstSubmission, Unaccepted
<1>2. TypeInv /\ SubmissionInv /\ LeaseInv /\ FirstSubmission /\ [Next]_vars => FirstSubmission'
  <2>. SUFFICES ASSUME TypeInv, SubmissionInv, LeaseInv, FirstSubmission, [Next]_vars, ~Stalls
                PROVE  FirstSubmission'
    BY DEF FirstSubmission
  <2>0. \A w1, w2 \in Workers :
          pc[w1] \in Body /\ pc[w2] \in Body /\ job[w1] = job[w2] => w1 = w2
    BY OneWorkerPerRecord
  <2>. USE DEF TypeInv, BusyHasJob, TypeOK, SubmissionInv, Shape, PastClaim, FirstSubmission,
               Unaccepted, Body, recordVars, armVars, leaseVars, workerVars, watchVars
  <2>1. ASSUME NEW r \in Records, Preview(r)
        PROVE  FirstSubmission'
    BY <2>1 DEF Preview
  <2>2. ASSUME NEW r \in Records, PreviewExpires(r)
        PROVE  FirstSubmission'
    BY <2>2 DEF PreviewExpires
  <2>3. ASSUME NEW r \in Records, ArmReceivesStray(r)
        PROVE  FirstSubmission'
    BY <2>3 DEF ArmReceivesStray
  <2>4. ASSUME NEW r \in Records, ArmFinishes(r)
        PROVE  FirstSubmission'
    BY <2>4 DEF ArmFinishes
  <2>5. ASSUME NEW s \in Scopes, Lapse(s)
        PROVE  FirstSubmission'
    BY <2>5 DEF Lapse
  <2>6. ASSUME NEW w \in Workers, NEW r \in Records, Deploy(w, r)
        PROVE  FirstSubmission'
    BY <2>6 DEF Deploy, Goto
  <2>7. ASSUME NEW w \in Workers, Acquire(w)
        PROVE  FirstSubmission'
    BY <2>7 DEF Acquire, Goto
  <2>8. ASSUME NEW w \in Workers, AcquireFails(w)
        PROVE  FirstSubmission'
    BY <2>8 DEF AcquireFails, Return, DropLocals, Goto
  <2>9. ASSUME NEW w \in Workers, Read(w)
        PROVE  FirstSubmission'
    BY <2>9 DEF Read, Leave, DropLocals, Goto
  <2>10. ASSUME NEW w \in Workers, StepFails(w)
         PROVE  FirstSubmission'
    BY <2>10 DEF StepFails, Leave, DropLocals, Goto
  <2>11. ASSUME NEW w \in Workers, Claim(w)
         PROVE  FirstSubmission'
    BY <2>11, <2>0 DEF Claim, Leave, DropLocals, Goto, PatchApplies, Past, Terminal
  <2>12. ASSUME NEW w \in Workers, ClaimUnacked(w)
         PROVE  FirstSubmission'
    BY <2>12 DEF ClaimUnacked, Leave, DropLocals, Goto
  <2>13. ASSUME NEW w \in Workers, Probe(w)
         PROVE  FirstSubmission'
    BY <2>13 DEF Probe, Goto
  <2>14. ASSUME NEW w \in Workers, SendPut(w)
         PROVE  FirstSubmission'
    BY <2>14 DEF SendPut, Leave, DropLocals, Goto
  <2>15. ASSUME NEW w \in Workers, PutReturns(w)
         PROVE  FirstSubmission'
    BY <2>15 DEF PutReturns, Goto
  <2>16. ASSUME NEW w \in Workers, PutAbandoned(w)
         PROVE  FirstSubmission'
    BY <2>16, <2>0 DEF PutAbandoned, Goto
  <2>17. ASSUME NEW w \in Workers, recordSubmissionFailure(w)
         PROVE  FirstSubmission'
    BY <2>17 DEF recordSubmissionFailure, Leave, DropLocals, Goto
  <2>18. ASSUME NEW w \in Workers, Sync(w)
         PROVE  FirstSubmission'
    BY <2>18, <2>0 DEF Sync, Leave, DropLocals, Goto
  <2>19. ASSUME NEW w \in Workers, Release(w)
         PROVE  FirstSubmission'
    BY <2>19 DEF Release, Return, DropLocals, Goto
  <2>20. ASSUME NEW w \in Workers, Renew(w)
         PROVE  FirstSubmission'
    BY <2>20 DEF Renew
  <2>21. ASSUME NEW w \in Workers, LoseLease(w)
         PROVE  FirstSubmission'
    BY <2>21 DEF LoseLease
  <2>22. ASSUME NEW w \in Workers, Crash(w)
         PROVE  FirstSubmission'
    BY <2>22, <2>0 DEF Crash, Return, DropLocals, Goto
  <2>23. ASSUME NEW w \in Workers, ArmReceives(w)
         PROVE  FirstSubmission'
    BY <2>23, <2>0 DEF ArmReceives
  <2>24. ASSUME NEW v \in Watchers, NEW r \in Records, Watch(v, r)
         PROVE  FirstSubmission'
    BY <2>24 DEF Watch
  <2>25. ASSUME NEW v \in Watchers, WatchAsk(v)
         PROVE  FirstSubmission'
    BY <2>25 DEF WatchAsk
  <2>26. ASSUME NEW v \in Watchers, WatchFails(v)
         PROVE  FirstSubmission'
    BY <2>26 DEF WatchFails, WatchReturn
  <2>27. ASSUME NEW v \in Watchers, WatchApply(v)
         PROVE  FirstSubmission'
    BY <2>27 DEF WatchApply, WatchReturn, reconcile
  <2>28. CASE UNCHANGED vars
    BY <2>28 DEF vars
  <2>29. ASSUME NEW s \in Scopes, LateLeaseRequest(s)
         PROVE  FirstSubmission'
    BY <2>29 DEF LateLeaseRequest
  <2>. QED
    BY <2>1, <2>2, <2>3, <2>4, <2>5, <2>6, <2>7, <2>8, <2>9, <2>10, <2>11, <2>12, <2>13, <2>14, <2>15, <2>16, <2>17, <2>18, <2>19, <2>20, <2>21, <2>22, <2>23, <2>24, <2>25, <2>26, <2>27, <2>28, <2>29
       DEF Next, WorkerStep, WatcherStep
<1>. QED
  BY <1>1, <1>2, TypeInductive, SubmissionInductive, LeaseInductive, PTL DEF Spec

(* A reconciled record fails only with its deployment.                     *)
LEMMA ReconcileFails ==
  ASSUME TypeOK, NEW r \in Records, NEW base, NEW observed, NEW acked,
         StaysTrue(observed, r), reconcile(r, base, observed, acked),
         NEW x \in Records, status'[x] = "failed"
  PROVE  status[x] = "failed" \/ arm[x] = "failed"
  BY DEF TypeOK, StaysTrue, Terminal, reconcile, Patched

LEMMA FailedSettledInductive == Spec => []FailedSettled
<1>. USE LifecycleAssumption
<1>1. Init => FailedSettled
  BY DEF Init, FailedSettled
<1>2. TypeInv /\ SubmissionInv /\ LeaseInv /\ FirstSubmission /\ FailedSettled /\ [Next]_vars
        => FailedSettled'
  <2>. SUFFICES ASSUME TypeInv, SubmissionInv, LeaseInv, FirstSubmission, FailedSettled,
                       [Next]_vars, ~Stalls
                PROVE  FailedSettled'
    BY DEF FailedSettled
  <2>0. \A w1, w2 \in Workers :
          pc[w1] \in Body /\ pc[w2] \in Body /\ job[w1] = job[w2] => w1 = w2
    BY OneWorkerPerRecord
  <2>. USE DEF TypeInv, BusyHasJob, TypeOK, Shape, FailedSettled, Submitting,
               recordVars, armVars, leaseVars, workerVars, watchVars
  <2>1. ASSUME NEW r \in Records, Preview(r)
        PROVE  FailedSettled'
    BY <2>1 DEF Preview
  <2>2. ASSUME NEW r \in Records, PreviewExpires(r)
        PROVE  FailedSettled'
    BY <2>2 DEF PreviewExpires
  <2>3. ASSUME NEW r \in Records, ArmReceivesStray(r)
        PROVE  FailedSettled'
    BY <2>3 DEF ArmReceivesStray
  <2>4. ASSUME NEW r \in Records, ArmFinishes(r)
        PROVE  FailedSettled'
    BY <2>4 DEF ArmFinishes
  <2>5. ASSUME NEW s \in Scopes, Lapse(s)
        PROVE  FailedSettled'
    BY <2>5 DEF Lapse
  <2>6. ASSUME NEW w \in Workers, NEW r \in Records, Deploy(w, r)
        PROVE  FailedSettled'
    BY <2>6 DEF Deploy, Goto
  <2>7. ASSUME NEW w \in Workers, Acquire(w)
        PROVE  FailedSettled'
    BY <2>7 DEF Acquire, Goto
  <2>8. ASSUME NEW w \in Workers, AcquireFails(w)
        PROVE  FailedSettled'
    BY <2>8 DEF AcquireFails, Return, DropLocals, Goto
  <2>9. ASSUME NEW w \in Workers, Read(w)
        PROVE  FailedSettled'
    BY <2>9 DEF Read, Leave, DropLocals, Goto, Terminal
  <2>10. ASSUME NEW w \in Workers, StepFails(w)
         PROVE  FailedSettled'
    BY <2>10 DEF StepFails, Leave, DropLocals, Goto
  <2>11. ASSUME NEW w \in Workers, Claim(w)
         PROVE  FailedSettled'
    BY <2>11 DEF Claim, Leave, DropLocals, Goto, PatchApplies, Patched
  <2>12. ASSUME NEW w \in Workers, ClaimUnacked(w)
         PROVE  FailedSettled'
    BY <2>12 DEF ClaimUnacked, Leave, DropLocals, Goto, PatchApplies
  <2>13. ASSUME NEW w \in Workers, Probe(w)
         PROVE  FailedSettled'
    BY <2>13 DEF Probe, Goto
  <2>14. ASSUME NEW w \in Workers, SendPut(w)
         PROVE  FailedSettled'
    BY <2>14 DEF SendPut, Leave, DropLocals, Goto
  <2>15. ASSUME NEW w \in Workers, PutReturns(w)
         PROVE  FailedSettled'
    BY <2>15 DEF PutReturns, Goto
  <2>16. ASSUME NEW w \in Workers, PutAbandoned(w)
         PROVE  FailedSettled'
    BY <2>16 DEF PutAbandoned, Goto
  <2>17. ASSUME NEW w \in Workers, recordSubmissionFailure(w)
         PROVE  FailedSettled'
    <3>1. \A r \in Records : status'[r] = "failed" =>
            status[r] = "failed" \/ (r = job[w] /\ put[w] = "refused")
      BY <2>17 DEF recordSubmissionFailure, Patched
    <3>2. put[w] = "refused" => arm[job[w]] = "none" /\ job[w] \notin stray
      BY <2>17 DEF recordSubmissionFailure, FirstSubmission, Unaccepted
    <3>3. \A x \in Workers : job[x] = job[w] /\ pc[x] \in Submitting => x = w
      BY <2>17, <2>0 DEF recordSubmissionFailure, Body
    <3>. QED
      BY <2>17, <3>1, <3>2, <3>3 DEF recordSubmissionFailure, Leave, DropLocals, Goto
  <2>18. ASSUME NEW w \in Workers, Sync(w)
         PROVE  FailedSettled'
    <3>1. job[w] \in Records /\ StaysTrue(seen[w], job[w])
      BY <2>18 DEF Sync, SubmissionInv, AnswersStayTrue
    <3>2. \E acked \in BOOLEAN : reconcile(job[w], "submitting", seen[w], acked)
      BY <2>18 DEF Sync
    <3>3. TypeOK
      OBVIOUS
    <3>4. \A r \in Records : status'[r] = "failed" => status[r] = "failed" \/ arm[r] = "failed"
      BY ONLY <3>1, <3>2, <3>3, ReconcileFails
    <3>. QED
      BY <2>18, <3>4 DEF Sync, Leave, DropLocals, Goto
  <2>19. ASSUME NEW w \in Workers, Release(w)
         PROVE  FailedSettled'
    BY <2>19 DEF Release, Return, DropLocals, Goto
  <2>20. ASSUME NEW w \in Workers, Renew(w)
         PROVE  FailedSettled'
    BY <2>20 DEF Renew
  <2>21. ASSUME NEW w \in Workers, LoseLease(w)
         PROVE  FailedSettled'
    BY <2>21 DEF LoseLease
  <2>22. ASSUME NEW w \in Workers, Crash(w)
         PROVE  FailedSettled'
    BY <2>22 DEF Crash, Return, DropLocals, Goto, SubmissionInv
  <2>23. ASSUME NEW w \in Workers, ArmReceives(w)
         PROVE  FailedSettled'
    BY <2>23 DEF ArmReceives
  <2>24. ASSUME NEW v \in Watchers, NEW r \in Records, Watch(v, r)
         PROVE  FailedSettled'
    BY <2>24 DEF Watch
  <2>25. ASSUME NEW v \in Watchers, WatchAsk(v)
         PROVE  FailedSettled'
    BY <2>25 DEF WatchAsk
  <2>26. ASSUME NEW v \in Watchers, WatchFails(v)
         PROVE  FailedSettled'
    BY <2>26 DEF WatchFails, WatchReturn
  <2>27. ASSUME NEW v \in Watchers, WatchApply(v)
         PROVE  FailedSettled'
    <3>1. wjob[v] \in Records /\ StaysTrue(wseen[v], wjob[v])
      BY <2>27 DEF WatchApply, SubmissionInv, AnswersStayTrue
    <3>2. \E acked \in BOOLEAN : reconcile(wjob[v], wbase[v], wseen[v], acked)
      BY <2>27 DEF WatchApply
    <3>3. TypeOK
      OBVIOUS
    <3>4. \A r \in Records : status'[r] = "failed" => status[r] = "failed" \/ arm[r] = "failed"
      BY ONLY <3>1, <3>2, <3>3, ReconcileFails
    <3>. QED
      BY <2>27, <3>4 DEF WatchApply
  <2>28. CASE UNCHANGED vars
    BY <2>28 DEF vars
  <2>29. ASSUME NEW s \in Scopes, LateLeaseRequest(s)
         PROVE  FailedSettled'
    BY <2>29 DEF LateLeaseRequest
  <2>. QED
    BY <2>1, <2>2, <2>3, <2>4, <2>5, <2>6, <2>7, <2>8, <2>9, <2>10, <2>11, <2>12, <2>13, <2>14, <2>15, <2>16, <2>17, <2>18, <2>19, <2>20, <2>21, <2>22, <2>23, <2>24, <2>25, <2>26, <2>27, <2>28, <2>29
       DEF Next, WorkerStep, WatcherStep
<1>. QED
  BY <1>1, <1>2, TypeInductive, SubmissionInductive, LeaseInductive, FirstSubmissionInductive,
     PTL DEF Spec

(* A definitive rejection is definitive: without stalls, no record is given*)
(* up while its deployment may still start.                                *)
THEOREM FailedIsTrue ==
  ASSUME ~Stalls
  PROVE  Spec => []FailedMeansFailed
<1>1. FailedSettled => FailedMeansFailed
  BY DEF FailedSettled, FailedMeansFailed
<1>. QED
  BY <1>1, FailedSettledInductive, PTL

-----------------------------------------------------------------------------
(* The promise.  A step of the lifecycle is a step of DeploymentPromise or *)
(* changes nothing the promise speaks of.                                  *)

PromiseStep == [Promise!PromiseNext]_(Promise!promised)

(* ARM may start what it has not: its record is past the claim and has not *)
(* been settled, or may have been given up too early.                      *)
LEMMA StartIsPromised ==
  ASSUME TypeInv, SubmissionInv, FailedSettled, NEW r \in Records,
         \/ r \in stray
         \/ \E w \in Workers : job[w] = r /\ pc[w] = "wait",
         arm' = [arm EXCEPT ![r] = IF @ = "none" THEN "active" ELSE @],
         UNCHANGED status
  PROVE  PromiseStep
<1>1. CASE arm[r] # "none"
  BY <1>1 DEF PromiseStep, Promise!promised, TypeInv, TypeOK
<1>2. CASE arm[r] = "none"
  <2>1. status[r] \in {"submitting", "failed"}
    BY <1>2 DEF TypeInv, TypeOK, SubmissionInv, PastClaim, RecordFollowsArm, Past, Terminal
  <2>2. status[r] = "failed" => Stalls
    BY <1>2 DEF FailedSettled, Submitting
  <2>3. Promise!Start(r)
    BY <1>2, <2>1, <2>2 DEF Promise!Start
  <2>. QED
    BY <2>3 DEF PromiseStep, Promise!PromiseNext
<1>. QED
  BY <1>1, <1>2

(* What reconcile writes is something ARM has said.                        *)
LEMMA LearnIsPromised ==
  ASSUME TypeOK, NEW r \in Records, NEW base, NEW observed \in Answer, NEW acked,
         StaysTrue(observed, r), reconcile(r, base, observed, acked), UNCHANGED arm
  PROVE  PromiseStep
<1>1. CASE PatchApplies(status[r], observed, {base})
  <2>1. status' = [status EXCEPT ![r] = observed]
    BY <1>1 DEF reconcile, Patched, TypeOK
  <2>2. \/ status[r] = "submitting" /\ observed = "running"
        \/ status[r] \in {"submitting", "running"} /\ observed \in Terminal
    BY <1>1 DEF PatchApplies, AllowedFrom, Answer, Terminal
  <2>3. Promise!Learn(r)
    BY <2>1, <2>2 DEF Promise!Learn, Promise!Terminal, Terminal, StaysTrue
  <2>. QED
    BY <2>3 DEF PromiseStep, Promise!PromiseNext
<1>2. CASE ~PatchApplies(status[r], observed, {base})
  BY <1>2 DEF reconcile, Patched, TypeOK, PromiseStep, Promise!promised
<1>. QED
  BY <1>1, <1>2

(* The lifecycle implements the promise, with MayReject only where a lease *)
(* may be outrun.                                                          *)
THEOREM PromiseKept == Spec => ImplementsPromise
<1>. DEFINE Inv == TypeInv /\ SubmissionInv /\ FirstSubmission /\ FailedSettled
<1>1. Init => Promise!PromiseInit
  BY DEF Init, Promise!PromiseInit
<1>2. Inv /\ [Next]_vars => PromiseStep
  <2>. SUFFICES ASSUME TypeInv, SubmissionInv, FirstSubmission, FailedSettled, [Next]_vars
                PROVE  PromiseStep
    OBVIOUS
  <2>. USE DEF recordVars, armVars, leaseVars, workerVars, watchVars
  <2>1. ASSUME UNCHANGED <<status, arm>>
        PROVE  PromiseStep
    BY <2>1 DEF PromiseStep, Promise!promised
  <2>2. ASSUME NEW r \in Records, Preview(r)
        PROVE  PromiseStep
    <3>1. Promise!Admit(r)
      BY <2>2 DEF Preview, Promise!Admit
    <3>. QED
      BY <3>1 DEF PromiseStep, Promise!PromiseNext
  <2>3. ASSUME NEW r \in Records, ArmFinishes(r)
        PROVE  PromiseStep
    <3>1. Promise!Finish(r)
      BY <2>3 DEF ArmFinishes, Promise!Finish, Promise!Terminal, Terminal
    <3>. QED
      BY <3>1 DEF PromiseStep, Promise!PromiseNext
  <2>4. ASSUME NEW r \in Records, ArmReceivesStray(r)
        PROVE  PromiseStep
    <3>1. \/ arm' = [arm EXCEPT ![r] = IF @ = "none" THEN "active" ELSE @]
          \/ UNCHANGED arm
      BY <2>4 DEF ArmReceivesStray, TypeInv, TypeOK
    <3>2. r \in stray /\ UNCHANGED status
      BY <2>4 DEF ArmReceivesStray
    <3>. QED
      BY ONLY <2>1, <3>1, <3>2, TypeInv, SubmissionInv, FailedSettled, StartIsPromised, r \in Records
  <2>5. ASSUME NEW w \in Workers, ArmReceives(w)
        PROVE  PromiseStep
    <3>1. \/ arm' = [arm EXCEPT ![job[w]] = IF @ = "none" THEN "active" ELSE @]
          \/ UNCHANGED arm
      BY <2>5 DEF ArmReceives
    <3>2. job[w] \in Records /\ pc[w] = "wait" /\ UNCHANGED status
      BY <2>5 DEF ArmReceives, TypeInv, BusyHasJob
    <3>. QED
      BY ONLY <2>1, <3>1, <3>2, TypeInv, SubmissionInv, FailedSettled, StartIsPromised, w \in Workers
  <2>6. ASSUME NEW w \in Workers, Claim(w) \/ ClaimUnacked(w)
        PROVE  PromiseStep
    <3>1. job[w] \in Records /\ UNCHANGED arm
      BY <2>6 DEF Claim, ClaimUnacked, TypeInv, BusyHasJob
    <3>2. \/ UNCHANGED status
          \/ /\ status[job[w]] = "previewed"
             /\ status' = [status EXCEPT ![job[w]] = "submitting"]
      BY <2>6, <3>1 DEF Claim, ClaimUnacked, Patched, PatchApplies, TypeInv, TypeOK
    <3>3. UNCHANGED status \/ Promise!Approve(job[w])
      BY <3>1, <3>2 DEF Promise!Approve
    <3>. QED
      BY <2>1, <3>1, <3>3 DEF PromiseStep, Promise!PromiseNext
  <2>7. ASSUME NEW w \in Workers, recordSubmissionFailure(w)
        PROVE  PromiseStep
    <3>1. job[w] \in Records /\ UNCHANGED arm
      BY <2>7 DEF recordSubmissionFailure, TypeInv, BusyHasJob
    <3>2. \/ UNCHANGED status
          \/ /\ status[job[w]] = "submitting"
             /\ put[w] = "refused"
             /\ status' = [status EXCEPT ![job[w]] = "failed"]
      BY <2>7, <3>1 DEF recordSubmissionFailure, Patched, PatchApplies, TypeInv, TypeOK
    <3>3. put[w] = "refused" => arm[job[w]] = "none" \/ Stalls
      BY <2>7 DEF recordSubmissionFailure, FirstSubmission, Unaccepted
    <3>4. UNCHANGED status \/ Promise!Reject(job[w])
      BY <3>1, <3>2, <3>3 DEF Promise!Reject
    <3>. QED
      BY <2>1, <3>1, <3>4 DEF PromiseStep, Promise!PromiseNext
  <2>8. ASSUME NEW w \in Workers, Sync(w)
        PROVE  PromiseStep
    <3>1. /\ TypeOK /\ job[w] \in Records
          /\ seen[w] \in Answer
          /\ StaysTrue(seen[w], job[w])
          /\ UNCHANGED arm
      BY <2>8 DEF Sync, TypeInv, BusyHasJob, TypeOK, SubmissionInv, AnswersStayTrue
    <3>2. \E acked \in BOOLEAN : reconcile(job[w], "submitting", seen[w], acked)
      BY <2>8 DEF Sync
    <3>. QED
      BY ONLY <3>1, <3>2, LearnIsPromised
  <2>9. ASSUME NEW v \in Watchers, WatchApply(v)
        PROVE  PromiseStep
    <3>1. /\ TypeOK /\ wjob[v] \in Records
          /\ wseen[v] \in Answer
          /\ StaysTrue(wseen[v], wjob[v])
          /\ UNCHANGED arm
      BY <2>9 DEF WatchApply, TypeInv, BusyHasJob, TypeOK, SubmissionInv, AnswersStayTrue
    <3>2. \E acked \in BOOLEAN : reconcile(wjob[v], wbase[v], wseen[v], acked)
      BY <2>9 DEF WatchApply
    <3>. QED
      BY ONLY <3>1, <3>2, LearnIsPromised
  <2>10. \/ UNCHANGED <<status, arm>>
         \/ \E r \in Records : Preview(r) \/ ArmFinishes(r) \/ ArmReceivesStray(r)
         \/ \E w \in Workers : \/ ArmReceives(w) \/ Claim(w) \/ ClaimUnacked(w)
                              \/ recordSubmissionFailure(w) \/ Sync(w)
         \/ \E v \in Watchers : WatchApply(v)
    BY DEF vars, Next, WorkerStep, WatcherStep, PreviewExpires, Lapse, LateLeaseRequest, Deploy,
           Acquire, AcquireFails, Read, StepFails, Probe, SendPut, PutReturns, PutAbandoned,
           Release, Renew, LoseLease, Crash, Watch, WatchAsk, WatchFails
  <2>. QED
    BY <2>1, <2>2, <2>3, <2>4, <2>5, <2>6, <2>7, <2>8, <2>9, <2>10
<1>. QED
  BY <1>1, <1>2, TypeInductive, SubmissionInductive, FirstSubmissionInductive,
     FailedSettledInductive, PTL
     DEF Spec, ImplementsPromise, Promise!PromiseSpec, PromiseStep
-----------------------------------------------------------------------------
(* Whether or not leases outlast their calls: a call that owns the entity  *)
(* of a scope is inside the body for that scope, or about to release it.   *)
OwnerInv ==
  \A s \in Scopes, w \in Workers :
    owner[s] = w => pc[w] \in Body \cup {"release"} /\ scopeKey(w) = s

LEMMA OwnerInductive == Spec => []OwnerInv
<1>. USE LifecycleAssumption
<1>1. Init => OwnerInv
  BY DEF Init, OwnerInv
<1>2. TypeInv /\ OwnerInv /\ [Next]_vars => OwnerInv'
  <2>. SUFFICES ASSUME TypeInv, OwnerInv, [Next]_vars
                PROVE  OwnerInv'
    OBVIOUS
  <2>. USE DEF TypeInv, BusyHasJob, TypeOK, OwnerInv, scopeKey, Body,
               recordVars, armVars, leaseVars, workerVars, watchVars
  <2>1. ASSUME NEW r \in Records, Preview(r)
        PROVE  OwnerInv'
    BY <2>1 DEF Preview
  <2>2. ASSUME NEW r \in Records, PreviewExpires(r)
        PROVE  OwnerInv'
    BY <2>2 DEF PreviewExpires
  <2>3. ASSUME NEW r \in Records, ArmReceivesStray(r)
        PROVE  OwnerInv'
    BY <2>3 DEF ArmReceivesStray
  <2>4. ASSUME NEW r \in Records, ArmFinishes(r)
        PROVE  OwnerInv'
    BY <2>4 DEF ArmFinishes
  <2>5. ASSUME NEW s \in Scopes, Lapse(s)
        PROVE  OwnerInv'
    BY <2>5 DEF Lapse
  <2>6. ASSUME NEW s \in Scopes, LateLeaseRequest(s)
        PROVE  OwnerInv'
    BY <2>6 DEF LateLeaseRequest
  <2>7. ASSUME NEW w \in Workers, NEW r \in Records, Deploy(w, r)
        PROVE  OwnerInv'
    BY <2>7 DEF Deploy, Goto
  <2>8. ASSUME NEW w \in Workers, Acquire(w)
        PROVE  OwnerInv'
    BY <2>8 DEF Acquire, Goto, LeaseFree
  <2>9. ASSUME NEW w \in Workers, AcquireFails(w)
        PROVE  OwnerInv'
    BY <2>9 DEF AcquireFails, Return, DropLocals, Goto
  <2>10. ASSUME NEW w \in Workers, Read(w)
         PROVE  OwnerInv'
    BY <2>10 DEF Read, Leave, DropLocals, Goto
  <2>11. ASSUME NEW w \in Workers, StepFails(w)
         PROVE  OwnerInv'
    BY <2>11 DEF StepFails, Leave, DropLocals, Goto
  <2>12. ASSUME NEW w \in Workers, Claim(w)
         PROVE  OwnerInv'
    BY <2>12 DEF Claim, Leave, DropLocals, Goto
  <2>13. ASSUME NEW w \in Workers, ClaimUnacked(w)
         PROVE  OwnerInv'
    BY <2>13 DEF ClaimUnacked, Leave, DropLocals, Goto
  <2>14. ASSUME NEW w \in Workers, Probe(w)
         PROVE  OwnerInv'
    BY <2>14 DEF Probe, Goto
  <2>15. ASSUME NEW w \in Workers, SendPut(w)
         PROVE  OwnerInv'
    BY <2>15 DEF SendPut, Leave, DropLocals, Goto
  <2>16. ASSUME NEW w \in Workers, PutReturns(w)
         PROVE  OwnerInv'
    BY <2>16 DEF PutReturns, Goto
  <2>17. ASSUME NEW w \in Workers, PutAbandoned(w)
         PROVE  OwnerInv'
    BY <2>17 DEF PutAbandoned, Goto
  <2>18. ASSUME NEW w \in Workers, recordSubmissionFailure(w)
         PROVE  OwnerInv'
    BY <2>18 DEF recordSubmissionFailure, Leave, DropLocals, Goto
  <2>19. ASSUME NEW w \in Workers, Sync(w)
         PROVE  OwnerInv'
    BY <2>19 DEF Sync, Leave, DropLocals, Goto
  <2>20. ASSUME NEW w \in Workers, Release(w)
         PROVE  OwnerInv'
    BY <2>20 DEF Release, Return, DropLocals, Goto
  <2>21. ASSUME NEW w \in Workers, Renew(w)
         PROVE  OwnerInv'
    BY <2>21 DEF Renew
  <2>22. ASSUME NEW w \in Workers, LoseLease(w)
         PROVE  OwnerInv'
    BY <2>22 DEF LoseLease
  <2>23. ASSUME NEW w \in Workers, Crash(w)
         PROVE  OwnerInv'
    BY <2>23 DEF Crash, Return, DropLocals, Goto
  <2>24. ASSUME NEW w \in Workers, ArmReceives(w)
         PROVE  OwnerInv'
    BY <2>24 DEF ArmReceives
  <2>25. ASSUME NEW v \in Watchers, NEW r \in Records, Watch(v, r)
         PROVE  OwnerInv'
    BY <2>25 DEF Watch
  <2>26. ASSUME NEW v \in Watchers, WatchAsk(v)
         PROVE  OwnerInv'
    BY <2>26 DEF WatchAsk
  <2>27. ASSUME NEW v \in Watchers, WatchFails(v)
         PROVE  OwnerInv'
    BY <2>27 DEF WatchFails
  <2>28. ASSUME NEW v \in Watchers, WatchApply(v)
         PROVE  OwnerInv'
    BY <2>28 DEF WatchApply
  <2>29. CASE UNCHANGED vars
    BY <2>29 DEF vars
  <2>. QED
    BY <2>1, <2>2, <2>3, <2>4, <2>5, <2>6, <2>7, <2>8, <2>9, <2>10, <2>11, <2>12, <2>13, <2>14, <2>15, <2>16, <2>17, <2>18, <2>19, <2>20, <2>21, <2>22, <2>23, <2>24, <2>25, <2>26, <2>27, <2>28, <2>29
       DEF Next, WorkerStep, WatcherStep
<1>. QED
  BY <1>1, <1>2, TypeInductive, PTL DEF Spec

(* The step of one scope's lease that the promise allows.                  *)
LeasePromised(s) == Lease(s)!LeaseNext \/ UNCHANGED Lease(s)!leased

(* Nobody enters or leaves a body, and no lease changes.                   *)
BodiesStay ==
  /\ UNCHANGED leaseVars
  /\ \A w \in Workers :
       /\ pc'[w] \in Body <=> pc[w] \in Body
       /\ pc[w] \in Body => job'[w] = job[w]

(* One call leaves its body, and no lease changes.                         *)
LeavesBody(w) ==
  /\ UNCHANGED leaseVars
  /\ pc[w] \in Body
  /\ pc'[w] \notin Body
  /\ \A x \in Workers \ {w} : pc'[x] = pc[x] /\ job'[x] = job[x]

(* The calls inside the body for a scope, as Lease(s) has them.            *)
Inside(s) == {w \in Workers : pc[w] \in Body /\ scopeKey(w) = s}

LEMMA StayIsPromised ==
  ASSUME NEW s \in Scopes, BodiesStay
  PROVE  LeasePromised(s)
<1>1. UNCHANGED <<owner, lapsed>>
  BY DEF BodiesStay, leaseVars
<1>2. Inside(s)' = Inside(s)
  BY DEF BodiesStay, Inside, scopeKey
<1>. QED
  BY <1>1, <1>2 DEF LeasePromised, Lease!leased, Inside

LEMMA LeavingIsPromised ==
  ASSUME NEW s \in Scopes, NEW w \in Workers, LeavesBody(w)
  PROVE  LeasePromised(s)
<1>1. UNCHANGED <<owner, lapsed>>
  BY DEF LeavesBody, leaseVars
<1>2. CASE w \in Inside(s)
  <2>1. Inside(s)' = Inside(s) \ {w}
    BY DEF LeavesBody, Inside, scopeKey
  <2>2. Lease(s)!Exit(w)
    BY <1>1, <1>2, <2>1 DEF Lease!Exit, Inside
  <2>. QED
    BY <2>2 DEF LeasePromised, Lease!LeaseNext
<1>3. CASE w \notin Inside(s)
  <2>1. Inside(s)' = Inside(s)
    BY <1>3 DEF LeavesBody, Inside, scopeKey
  <2>. QED
    BY <1>1, <2>1 DEF LeasePromised, Lease!leased, Inside
<1>. QED
  BY <1>2, <1>3

(* The calls inside the bodies do not change.                              *)
LEMMA SameInside ==
  ASSUME NEW s \in Scopes, UNCHANGED <<pc, job>>
  PROVE  Inside(s)' = Inside(s)
  BY DEF Inside, scopeKey

(* The steps that leave every lease alone: nobody enters a body, and at    *)
(* most one call leaves its own.                                           *)
QuietStep ==
  \/ \E r \in Records : Preview(r) \/ PreviewExpires(r) \/ ArmReceivesStray(r) \/ ArmFinishes(r)
  \/ \E w \in Workers, r \in Records : Deploy(w, r)
  \/ \E w \in Workers :
       \/ AcquireFails(w) \/ Read(w) \/ Claim(w) \/ ClaimUnacked(w) \/ Probe(w) \/ SendPut(w)
       \/ PutReturns(w) \/ PutAbandoned(w) \/ recordSubmissionFailure(w) \/ Sync(w)
       \/ StepFails(w) \/ LoseLease(w) \/ ArmReceives(w)
  \/ \E v \in Watchers, r \in Records : Watch(v, r)
  \/ \E v \in Watchers : WatcherStep(v)
  \/ UNCHANGED vars

LEMMA QuietStepsStay ==
  ASSUME TypeInv, QuietStep
  PROVE  BodiesStay \/ \E w \in Workers : LeavesBody(w)
<1>. USE DEF TypeInv, TypeOK, Body, BodiesStay, LeavesBody,
             recordVars, armVars, leaseVars, workerVars, watchVars
<1>1. ASSUME NEW r \in Records, Preview(r)
      PROVE  BodiesStay
  BY <1>1 DEF Preview
<1>2. ASSUME NEW r \in Records, PreviewExpires(r)
      PROVE  BodiesStay
  BY <1>2 DEF PreviewExpires
<1>3. ASSUME NEW r \in Records, ArmReceivesStray(r)
      PROVE  BodiesStay
  BY <1>3 DEF ArmReceivesStray
<1>4. ASSUME NEW r \in Records, ArmFinishes(r)
      PROVE  BodiesStay
  BY <1>4 DEF ArmFinishes
<1>5. ASSUME NEW w \in Workers, NEW r \in Records, Deploy(w, r)
      PROVE  BodiesStay
  BY <1>5 DEF Deploy, Goto
<1>6. ASSUME NEW w \in Workers, AcquireFails(w)
      PROVE  BodiesStay
  BY <1>6 DEF AcquireFails, Return, DropLocals, Goto
<1>7. ASSUME NEW w \in Workers, PutReturns(w)
      PROVE  BodiesStay
  BY <1>7 DEF PutReturns, Goto
<1>8. ASSUME NEW w \in Workers, PutAbandoned(w)
      PROVE  BodiesStay
  BY <1>8 DEF PutAbandoned, Goto
<1>9. ASSUME NEW w \in Workers, Probe(w)
      PROVE  BodiesStay
  BY <1>9 DEF Probe, Goto
<1>10. ASSUME NEW w \in Workers, LoseLease(w)
       PROVE  BodiesStay
  BY <1>10 DEF LoseLease
<1>11. ASSUME NEW w \in Workers, ArmReceives(w)
       PROVE  BodiesStay
  BY <1>11 DEF ArmReceives
<1>12. ASSUME NEW v \in Watchers, NEW r \in Records, Watch(v, r)
       PROVE  BodiesStay
  BY <1>12 DEF Watch
<1>13. ASSUME NEW v \in Watchers, WatchAsk(v)
       PROVE  BodiesStay
  BY <1>13 DEF WatchAsk
<1>14. ASSUME NEW v \in Watchers, WatchFails(v)
       PROVE  BodiesStay
  BY <1>14 DEF WatchFails
<1>15. ASSUME NEW v \in Watchers, WatchApply(v)
       PROVE  BodiesStay
  BY <1>15 DEF WatchApply
<1>16. ASSUME NEW w \in Workers, StepFails(w)
       PROVE  LeavesBody(w)
  BY <1>16 DEF StepFails, Leave, DropLocals, Goto
<1>17. ASSUME NEW w \in Workers, ClaimUnacked(w)
       PROVE  LeavesBody(w)
  BY <1>17 DEF ClaimUnacked, Leave, DropLocals, Goto
<1>18. ASSUME NEW w \in Workers, recordSubmissionFailure(w)
       PROVE  LeavesBody(w)
  BY <1>18 DEF recordSubmissionFailure, Leave, DropLocals, Goto
<1>19. ASSUME NEW w \in Workers, Sync(w)
       PROVE  LeavesBody(w)
  BY <1>19 DEF Sync, Leave, DropLocals, Goto
<1>20. ASSUME NEW w \in Workers, Read(w)
       PROVE  BodiesStay \/ LeavesBody(w)
  BY <1>20 DEF Read, Leave, DropLocals, Goto
<1>21. ASSUME NEW w \in Workers, Claim(w)
       PROVE  BodiesStay \/ LeavesBody(w)
  BY <1>21 DEF Claim, Leave, DropLocals, Goto
<1>22. ASSUME NEW w \in Workers, SendPut(w)
       PROVE  BodiesStay \/ LeavesBody(w)
  BY <1>22 DEF SendPut, Leave, DropLocals, Goto
<1>23. ASSUME UNCHANGED vars
       PROVE  BodiesStay
  BY <1>23 DEF vars
<1>. HIDE DEF BodiesStay, LeavesBody
<1>. QED
  BY <1>1, <1>2, <1>3, <1>4, <1>5, <1>6, <1>7, <1>8, <1>9, <1>10, <1>11, <1>12, <1>13, <1>14, <1>15, <1>16, <1>17, <1>18, <1>19, <1>20, <1>21, <1>22, <1>23
     DEF QuietStep, WatcherStep

LEMMA AcquireIsPromised ==
  ASSUME TypeInv, OwnerInv, NEW s \in Scopes, NEW w \in Workers, Acquire(w)
  PROVE  LeasePromised(s)
<1>. USE LifecycleAssumption
<1>1. /\ job[w] \in Records
      /\ scopeKey(w) \in Scopes
      /\ pc[w] = "acquire"
      /\ pc' = [pc EXCEPT ![w] = "read"]
      /\ UNCHANGED job
  BY DEF Acquire, Goto, TypeInv, TypeOK, BusyHasJob, scopeKey
<1>2. CASE s = scopeKey(w)
  <2>1. Inside(s)' = Inside(s) \cup {w} /\ w \notin Inside(s)
    BY <1>1, <1>2 DEF Inside, Body, scopeKey, TypeInv, TypeOK
  <2>2. /\ owner[s] = Nobody \/ s \in lapsed
        /\ owner'[s] = w
        /\ s \notin lapsed'
    BY <1>1, <1>2 DEF Acquire, LeaseFree, TypeInv, TypeOK
  <2>3. Lease(s)!Free
    BY <2>2 DEF Lease!Free
  <2>4. (s \in lapsed') = FALSE
    BY <2>2
  <2>5. Lease(s)!Enter(w)
    BY <2>1, <2>2, <2>3, <2>4 DEF Lease!Enter, Inside
  <2>. QED
    BY <2>5 DEF LeasePromised, Lease!LeaseNext
<1>3. CASE s # scopeKey(w)
  <2>1. Inside(s)' = Inside(s)
    BY <1>1, <1>3 DEF Inside, Body, scopeKey, TypeInv, TypeOK
  <2>2. owner'[s] = owner[s] /\ (s \in lapsed' <=> s \in lapsed)
    BY <1>1, <1>3 DEF Acquire, TypeInv, TypeOK
  <2>. QED
    BY <2>1, <2>2 DEF LeasePromised, Lease!leased, Inside
<1>. QED
  BY <1>2, <1>3

LEMMA LapseIsPromised ==
  ASSUME TypeInv, NEW s \in Scopes, NEW t \in Scopes, Lapse(t)
  PROVE  LeasePromised(s)
<1>1. Inside(s)' = Inside(s)
  BY SameInside DEF Lapse, workerVars
<1>2. CASE s = t
  <2>1. /\ owner[s] # Nobody
        /\ s \notin lapsed
        /\ s \in lapsed'
        /\ owner'[s] = owner[s]
        /\ owner[s] \in Inside(s) => Stalls
    BY <1>2 DEF Lapse, Inside
  <2>2. Lease(s)!LapseNow
    BY <1>1, <2>1 DEF Lease!LapseNow, Inside
  <2>. QED
    BY <2>2 DEF LeasePromised, Lease!LeaseNext
<1>3. CASE s # t
  <2>1. owner'[s] = owner[s] /\ (s \in lapsed' <=> s \in lapsed)
    BY <1>3 DEF Lapse
  <2>. QED
    BY <1>1, <2>1 DEF LeasePromised, Lease!leased, Inside
<1>. QED
  BY <1>2, <1>3

LEMMA RenewIsPromised ==
  ASSUME TypeInv, NEW s \in Scopes, NEW w \in Workers, Renew(w)
  PROVE  LeasePromised(s)
<1>. USE LifecycleAssumption
<1>1. Inside(s)' = Inside(s)
  BY SameInside DEF Renew, workerVars
<1>2. CASE s = scopeKey(w)
  <2>1. /\ owner[s] # Nobody
        /\ s \in lapsed
        /\ s \notin lapsed'
        /\ owner'[s] = owner[s]
    BY <1>2 DEF Renew
  <2>2. (s \in lapsed') = FALSE
    BY <2>1
  <2>3. Lease(s)!Extend
    BY <1>1, <2>1, <2>2 DEF Lease!Extend, Inside
  <2>. QED
    BY <2>3 DEF LeasePromised, Lease!LeaseNext
<1>3. CASE s # scopeKey(w)
  <2>1. owner'[s] = owner[s] /\ (s \in lapsed' <=> s \in lapsed)
    BY <1>3 DEF Renew
  <2>. QED
    BY <1>1, <2>1 DEF LeasePromised, Lease!leased, Inside
<1>. QED
  BY <1>2, <1>3

LEMMA LateRequestIsPromised ==
  ASSUME TypeInv, NEW s \in Scopes, NEW t \in Scopes, LateLeaseRequest(t)
  PROVE  LeasePromised(s)
<1>. USE LifecycleAssumption
<1>1. Inside(s)' = Inside(s)
  BY SameInside DEF LateLeaseRequest, workerVars
<1>2. CASE s = t
  <2>1. /\ LeaseFree(s) \/ owner[s] = Orphan
        /\ owner'[s] \in {Nobody, Orphan}
        /\ s \notin lapsed'
    BY <1>2 DEF LateLeaseRequest, TypeInv, TypeOK
  <2>2. (s \in lapsed') = FALSE
    BY <2>1
  <2>3. CASE LeaseFree(s)
    <3>1. Lease(s)!Waste
      BY <1>1, <2>1, <2>2, <2>3 DEF Lease!Waste, Lease!Free, LeaseFree, Inside
    <3>. QED
      BY <3>1 DEF LeasePromised, Lease!LeaseNext
  <2>4. CASE ~LeaseFree(s)
    <3>1. owner[s] = Orphan /\ s \notin lapsed /\ owner[s] # Nobody /\ owner[s] \notin Inside(s)
      BY <2>1, <2>4 DEF LeaseFree, Inside
    <3>2. CASE owner'[s] = Nobody
      <4>1. Lease(s)!Drop
        BY <1>1, <2>2, <3>1, <3>2 DEF Lease!Drop, Inside
      <4>. QED
        BY <4>1 DEF LeasePromised, Lease!LeaseNext
    <3>3. CASE owner'[s] = Orphan
      <4>1. owner'[s] = owner[s] /\ (s \in lapsed' <=> s \in lapsed)
        BY <2>1, <3>1, <3>3
      <4>. QED
        BY <1>1, <4>1 DEF LeasePromised, Lease!leased, Inside
    <3>. QED
      BY <2>1, <3>2, <3>3
  <2>. QED
    BY <2>3, <2>4
<1>3. CASE s # t
  <2>1. owner'[s] = owner[s] /\ (s \in lapsed' <=> s \in lapsed)
    BY <1>3 DEF LateLeaseRequest, TypeInv, TypeOK
  <2>. QED
    BY <1>1, <2>1 DEF LeasePromised, Lease!leased, Inside
<1>. QED
  BY <1>2, <1>3

LEMMA ReleaseIsPromised ==
  ASSUME TypeInv, OwnerInv, NEW s \in Scopes, NEW w \in Workers, Release(w)
  PROVE  LeasePromised(s)
<1>. USE LifecycleAssumption
<1>1. /\ pc[w] = "release"
      /\ pc' = [pc EXCEPT ![w] = "idle"]
      /\ job' = [job EXCEPT ![w] = NoRecord]
  BY DEF Release, Return, Goto
<1>2. Inside(s)' = Inside(s) /\ w \notin Inside(s)
  BY <1>1 DEF Inside, Body, scopeKey, TypeInv, TypeOK
<1>3. CASE s = scopeKey(w) /\ owner[s] = w
  <2>1. /\ owner[s] \notin Inside(s)
        /\ owner[s] # Nobody
        /\ \/ owner'[s] = Nobody /\ s \notin lapsed'
           \/ owner'[s] = Orphan /\ UNCHANGED lapsed
    BY <1>2, <1>3 DEF Release, TypeInv, TypeOK
  <2>2. CASE owner'[s] = Nobody /\ s \notin lapsed'
    <3>1. (s \in lapsed') = FALSE
      BY <2>2
    <3>. QED
      BY <1>2, <2>1, <2>2, <3>1 DEF LeasePromised, Lease!LeaseNext, Lease!Drop, Inside
  <2>3. CASE owner'[s] = Orphan /\ UNCHANGED lapsed
    BY <1>2, <2>1, <2>3 DEF LeasePromised, Lease!LeaseNext, Lease!Drop, Inside
  <2>. QED
    BY <2>1, <2>2, <2>3
<1>4. CASE ~(s = scopeKey(w) /\ owner[s] = w)
  <2>1. owner'[s] = owner[s] /\ (s \in lapsed' <=> s \in lapsed)
    BY <1>4 DEF Release, leaseVars, TypeInv, TypeOK
  <2>. QED
    BY <1>2, <2>1 DEF LeasePromised, Lease!leased, Inside
<1>. QED
  BY <1>3, <1>4

LEMMA CrashIsPromised ==
  ASSUME TypeInv, OwnerInv, NEW s \in Scopes, NEW w \in Workers, Crash(w)
  PROVE  LeasePromised(s)
<1>. USE LifecycleAssumption
<1>1. /\ pc' = [pc EXCEPT ![w] = "idle"]
      /\ job' = [job EXCEPT ![w] = NoRecord]
      /\ owner'[s] = IF owner[s] = w THEN Orphan ELSE owner[s]
      /\ UNCHANGED lapsed
  BY DEF Crash, Return, Goto
<1>2. Inside(s)' = Inside(s) \ {w}
  BY <1>1 DEF Inside, Body, scopeKey, TypeInv, TypeOK
<1>3. CASE w \in Inside(s)
  <2>1. Lease(s)!Exit(w)
    BY <1>1, <1>2, <1>3 DEF Lease!Exit, Inside
  <2>. QED
    BY <2>1 DEF LeasePromised, Lease!LeaseNext
<1>4. CASE w \notin Inside(s) /\ owner[s] = w
  <2>1. Inside(s)' = Inside(s)
    BY <1>2, <1>4
  <2>2. Lease(s)!Drop
    BY <1>1, <1>4, <2>1 DEF Lease!Drop, Inside
  <2>. QED
    BY <2>2 DEF LeasePromised, Lease!LeaseNext
<1>5. CASE w \notin Inside(s) /\ owner[s] # w
  <2>1. Inside(s)' = Inside(s)
    BY <1>2, <1>5
  <2>. QED
    BY <1>1, <1>5, <2>1 DEF LeasePromised, Lease!leased, Inside
<1>. QED
  BY <1>3, <1>4, <1>5

(* Each scope's lease takes the steps of the abstract lease and no others, *)
(* for every number of scopes and calls and whether or not leases may be   *)
(* outrun: what ScopeLease shows of withScopeLock is all that start()'s    *)
(* callers rely on (LeasesAsPromised).                                     *)
THEOREM LeasesKeepTheirPromise == Spec => LeasesAsPromised
<1>1. TypeInv /\ OwnerInv /\ [Next]_vars => \A s \in Scopes : LeasePromised(s)
  <2>. SUFFICES ASSUME TypeInv, OwnerInv, [Next]_vars, NEW s \in Scopes
                PROVE  LeasePromised(s)
    OBVIOUS
  <2>1. CASE QuietStep
    BY <2>1, QuietStepsStay, StayIsPromised, LeavingIsPromised
  <2>2. CASE \E t \in Scopes : Lapse(t) \/ LateLeaseRequest(t)
    BY <2>2, LapseIsPromised, LateRequestIsPromised
  <2>3. CASE \E w \in Workers : Acquire(w) \/ Release(w) \/ Renew(w) \/ Crash(w)
    BY <2>3, AcquireIsPromised, ReleaseIsPromised, RenewIsPromised, CrashIsPromised
  <2>. QED
    BY <2>1, <2>2, <2>3 DEF QuietStep, Next, WorkerStep
<1>. QED
  BY <1>1, TypeInductive, OwnerInductive, PTL DEF Spec, LeasesAsPromised, LeasePromised
=============================================================================
