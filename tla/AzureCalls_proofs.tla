-------------------------- MODULE AzureCalls_proofs --------------------------
(***************************************************************************)
(* Theorems about the calls that the server makes of Azure: Operations,    *)
(* for every number of calls, whatever callers, deadlines and Azure do in  *)
(* whichever order; and ArmClient, for every request timeout, what-if      *)
(* timeout and poll interval.                                              *)
(***************************************************************************)
EXTENDS Operations, ArmClient, TLAPS

-----------------------------------------------------------------------------
(* Guarded operations: the audit is typed and truthful.                    *)

Admitted == {"prepare", "execute", "readback", "completed", "returned"}

Call == {NoOperation} \cup [at : Admitted, action : Actions, dryRun : BOOLEAN]

(* What is known of a call at each of its places.  The audit entry is the  *)
(* last thing a call leaves, so it has none before it returns; and what    *)
(* "completed" says is true from the moment the poller has seen it, since  *)
(* Azure does not undo what is done.                                       *)
CallInv(o) ==
  /\ operation[o].at \in {"idle", "prepare"} => effect[o] = "none"
  /\ operation[o].at \in {"readback", "completed"} => effect[o] = "done"
  /\ operation[o].at # "returned" => audits[o] = <<>>
  /\ operation[o].at = "returned" =>
       \/ audits[o] \in {<<>>, <<"planned">>} /\ effect[o] = "none"
       \/ audits[o] = <<"completed">> /\ effect[o] = "done"
       \/ audits[o] = <<"indeterminate">>

CallsTyped ==
  /\ operation \in [Operations -> Call]
  /\ effect \in [Operations -> Effect]
  /\ overdue \subseteq Operations
  /\ disconnected \subseteq Operations
  /\ DOMAIN audits = Operations
  /\ audits = [o \in Operations |-> audits[o]]

OperationsInv == CallsTyped /\ \A o \in Operations : CallInv(o)

LEMMA OperationsInitially == OperationsInit => OperationsInv
  BY DEF OperationsInit, OperationsInv, CallsTyped, CallInv, Call, Effect, NoOperation

(* Audits of one entry.                                                    *)
LEMMA OneEntry ==
  ASSUME NEW x \in Outcome
  PROVE  /\ Append(<<>>, x) = <<x>>
         /\ Len(<<x>>) = 1
         /\ <<x>> \in Seq(Outcome)
         /\ <<x>> # <<>>
         /\ <<x>>[1] = x
  OBVIOUS

(* A call's step leaves the other calls as they are.                       *)
LEMMA OneCallMoves ==
  ASSUME OperationsInv, NEW o \in Operations,
         NEW next \in Call, NEW becomes \in Effect, NEW audited,
         operation' = [operation EXCEPT ![o] = next],
         effect' = [effect EXCEPT ![o] = becomes],
         audits' = [audits EXCEPT ![o] = audited],
         overdue' \subseteq Operations, disconnected' \subseteq Operations,
         CallInv(o)'
  PROVE  OperationsInv'
<1>1. CallsTyped'
  BY DEF OperationsInv, CallsTyped
<1>2. ASSUME NEW other \in Operations \ {o} PROVE CallInv(other)'
  <2>1. /\ operation'[other] = operation[other]
        /\ effect'[other] = effect[other]
        /\ audits'[other] = audits[other]
    BY DEF OperationsInv, CallsTyped
  <2>. QED
    BY <2>1 DEF OperationsInv, CallInv
<1>. QED
  BY <1>1, <1>2 DEF OperationsInv

LEMMA OperationsPreserved == OperationsInv /\ [OperationsNext]_operationVars => OperationsInv'
<1>1. SUFFICES ASSUME OperationsInv, [OperationsNext]_operationVars
               PROVE  OperationsInv'
  OBVIOUS
<1>2. CASE UNCHANGED operationVars
  BY <1>1, <1>2 DEF OperationsInv, CallsTyped, CallInv, operationVars
<1>3. ASSUME NEW o \in Operations,
             \/ prepare(o) \/ Refused(o) \/ Plan(o) \/ Execute(o)
             \/ Disconnect(o) \/ Deadline(o) \/ OperationStep(o) \/ EndOperation(o)
             \/ AzureActs(o)
      PROVE  OperationsInv'
  <2>. DEFINE Placed(place) == [operation[o] EXCEPT !.at = place]
  <2>1. /\ operation[o] \in Call /\ effect[o] \in Effect
        /\ CallInv(o) /\ CallsTyped
    BY <1>1 DEF OperationsInv, CallsTyped
  <2>2. ASSUME operation[o].at \in Admitted, NEW place \in Admitted
        PROVE  Placed(place) \in Call /\ Placed(place).at = place
    BY <2>1, <2>2 DEF Call, NoOperation, Admitted
  <2>3. operation[o].at # "idle" => operation[o].at \in Admitted
    BY <2>1 DEF Call, NoOperation
  <2>4. effect = [effect EXCEPT ![o] = effect[o]] /\ audits = [audits EXCEPT ![o] = audits[o]]
          /\ operation = [operation EXCEPT ![o] = operation[o]]
    BY <2>1 DEF CallsTyped
  <2>. USE DEF CallInv, At, Audit, Admitted
  <2>5. CASE prepare(o)
    <3>1. PICK action \in Actions, dryRun \in BOOLEAN :
            operation' = [operation EXCEPT ![o] = [at |-> "prepare", action |-> action, dryRun |-> dryRun]]
      BY <2>5 DEF prepare
    <3>2. [at |-> "prepare", action |-> action, dryRun |-> dryRun] \in Call
      BY DEF Call
    <3>3. /\ effect' = [effect EXCEPT ![o] = effect[o]]
          /\ audits' = [audits EXCEPT ![o] = audits[o]]
          /\ overdue' \subseteq Operations /\ disconnected' \subseteq Operations
          /\ CallInv(o)'
      BY <2>1, <2>4, <2>5, <3>1 DEF prepare, NoOperation, CallsTyped
    <3>. QED
      BY <1>1, <2>1, <3>1, <3>2, <3>3, OneCallMoves
  <2>6. CASE Refused(o)
    <3>1. Placed("returned") \in Call /\ effect[o] \in Effect
      BY <2>1, <2>2, <2>3, <2>6 DEF Refused, Call, Effect, NoOperation, CallsTyped, Actions, LongRunning
    <3>2. /\ operation' = [operation EXCEPT ![o] = Placed("returned")]
          /\ effect' = [effect EXCEPT ![o] = effect[o]]
          /\ audits' = [audits EXCEPT ![o] = audits[o]]
          /\ overdue' \subseteq Operations /\ disconnected' \subseteq Operations
      BY <2>1, <2>4, <2>6 DEF Refused, CallsTyped
    <3>3. CallInv(o)'
      BY <2>1, <2>2, <2>3, <2>6, <3>2 DEF Refused, CallsTyped, NoOperation
    <3>. QED
      BY <1>1, <3>1, <3>2, <3>3, OneCallMoves
  <2>7. CASE Plan(o)
    <3>1. Placed("returned") \in Call /\ effect[o] \in Effect
      BY <2>1, <2>2, <2>3, <2>7 DEF Plan, Call, Effect, NoOperation, CallsTyped, Actions, LongRunning
    <3>2. /\ operation' = [operation EXCEPT ![o] = Placed("returned")]
          /\ effect' = [effect EXCEPT ![o] = effect[o]]
          /\ audits' = [audits EXCEPT ![o] = <<"planned">>]
          /\ overdue' \subseteq Operations /\ disconnected' \subseteq Operations
      BY <2>1, <2>4, <2>7, OneEntry DEF Plan, CallsTyped, Outcome
    <3>3. CallInv(o)'
      BY <2>1, <2>2, <2>3, <2>7, <3>2 DEF Plan, CallsTyped, NoOperation
    <3>. QED
      BY <1>1, <3>1, <3>2, <3>3, OneCallMoves
  <2>8. CASE Execute(o)
    <3>1. Placed("execute") \in Call /\ "sent" \in Effect
      BY <2>1, <2>2, <2>3, <2>8 DEF Execute, Call, Effect, NoOperation, CallsTyped, Actions, LongRunning
    <3>2. /\ operation' = [operation EXCEPT ![o] = Placed("execute")]
          /\ effect' = [effect EXCEPT ![o] = "sent"]
          /\ audits' = [audits EXCEPT ![o] = audits[o]]
          /\ overdue' \subseteq Operations /\ disconnected' \subseteq Operations
      BY <2>1, <2>4, <2>8 DEF Execute, CallsTyped
    <3>3. CallInv(o)'
      BY <2>1, <2>2, <2>3, <2>8, <3>2 DEF Execute, CallsTyped, NoOperation
    <3>. QED
      BY <1>1, <3>1, <3>2, <3>3, OneCallMoves
  <2>9. CASE Disconnect(o)
    <3>1. operation[o] \in Call /\ effect[o] \in Effect
      BY <2>1, <2>2, <2>3, <2>9 DEF Disconnect, Call, Effect, NoOperation, CallsTyped, Actions, LongRunning
    <3>2. /\ operation' = [operation EXCEPT ![o] = operation[o]]
          /\ effect' = [effect EXCEPT ![o] = effect[o]]
          /\ audits' = [audits EXCEPT ![o] = audits[o]]
          /\ overdue' \subseteq Operations /\ disconnected' \subseteq Operations
      BY <2>1, <2>4, <2>9 DEF Disconnect, CallsTyped
    <3>3. CallInv(o)'
      BY <2>1, <2>2, <2>3, <2>9, <3>2 DEF Disconnect, CallsTyped, NoOperation
    <3>. QED
      BY <1>1, <3>1, <3>2, <3>3, OneCallMoves
  <2>10. CASE Deadline(o)
    <3>1. operation[o] \in Call /\ effect[o] \in Effect
      BY <2>1, <2>2, <2>3, <2>10 DEF Deadline, Call, Effect, NoOperation, CallsTyped, Actions, LongRunning
    <3>2. /\ operation' = [operation EXCEPT ![o] = operation[o]]
          /\ effect' = [effect EXCEPT ![o] = effect[o]]
          /\ audits' = [audits EXCEPT ![o] = audits[o]]
          /\ overdue' \subseteq Operations /\ disconnected' \subseteq Operations
      BY <2>1, <2>4, <2>10 DEF Deadline, CallsTyped
    <3>3. CallInv(o)'
      BY <2>1, <2>2, <2>3, <2>10, <3>2 DEF Deadline, CallsTyped, NoOperation
    <3>. QED
      BY <1>1, <3>1, <3>2, <3>3, OneCallMoves
  <2>11. CASE Complete(o)
    <3>. DEFINE next == Placed(IF operation[o].action = "tag_resource" THEN "readback" ELSE "completed")
    <3>1. next \in Call /\ effect[o] \in Effect
      BY <2>1, <2>2, <2>3, <2>11 DEF Complete, Call, Effect, NoOperation, CallsTyped, Actions, LongRunning
    <3>2. /\ operation' = [operation EXCEPT ![o] = next]
          /\ effect' = [effect EXCEPT ![o] = effect[o]]
          /\ audits' = [audits EXCEPT ![o] = audits[o]]
          /\ overdue' \subseteq Operations /\ disconnected' \subseteq Operations
      BY <2>1, <2>4, <2>11 DEF Complete, CallsTyped
    <3>3. CallInv(o)'
      BY <2>1, <2>2, <2>3, <2>11, <3>2 DEF Complete, CallsTyped, NoOperation
    <3>. QED
      BY <1>1, <3>1, <3>2, <3>3, OneCallMoves
  <2>12. CASE ReadBack(o)
    <3>1. Placed("completed") \in Call /\ effect[o] \in Effect
      BY <2>1, <2>2, <2>3, <2>12 DEF ReadBack, Call, Effect, NoOperation, CallsTyped, Actions, LongRunning
    <3>2. /\ operation' = [operation EXCEPT ![o] = Placed("completed")]
          /\ effect' = [effect EXCEPT ![o] = effect[o]]
          /\ audits' = [audits EXCEPT ![o] = audits[o]]
          /\ overdue' \subseteq Operations /\ disconnected' \subseteq Operations
      BY <2>1, <2>4, <2>12 DEF ReadBack, CallsTyped
    <3>3. CallInv(o)'
      BY <2>1, <2>2, <2>3, <2>12, <3>2 DEF ReadBack, CallsTyped, NoOperation
    <3>. QED
      BY <1>1, <3>1, <3>2, <3>3, OneCallMoves
  <2>13. CASE AuditCompleted(o)
    <3>1. Placed("returned") \in Call /\ effect[o] \in Effect
      BY <2>1, <2>2, <2>3, <2>13 DEF AuditCompleted, Call, Effect, NoOperation, CallsTyped, Actions, LongRunning
    <3>2. /\ operation' = [operation EXCEPT ![o] = Placed("returned")]
          /\ effect' = [effect EXCEPT ![o] = effect[o]]
          /\ audits' = [audits EXCEPT ![o] = <<"completed">>]
          /\ overdue' \subseteq Operations /\ disconnected' \subseteq Operations
      BY <2>1, <2>4, <2>13, OneEntry DEF AuditCompleted, CallsTyped, Outcome
    <3>3. CallInv(o)'
      BY <2>1, <2>2, <2>3, <2>13, <3>2 DEF AuditCompleted, CallsTyped, NoOperation
    <3>. QED
      BY <1>1, <3>1, <3>2, <3>3, OneCallMoves
  <2>14. CASE ExecuteFails(o)
    <3>1. Placed("returned") \in Call /\ effect[o] \in Effect
      BY <2>1, <2>2, <2>3, <2>14 DEF ExecuteFails, Call, Effect, NoOperation, CallsTyped, Actions, LongRunning
    <3>2. /\ operation' = [operation EXCEPT ![o] = Placed("returned")]
          /\ effect' = [effect EXCEPT ![o] = effect[o]]
          /\ audits' = [audits EXCEPT ![o] = <<"indeterminate">>]
          /\ overdue' \subseteq Operations /\ disconnected' \subseteq Operations
      BY <2>1, <2>4, <2>14, OneEntry DEF ExecuteFails, CallsTyped, Outcome
    <3>3. CallInv(o)'
      BY <2>1, <2>2, <2>3, <2>14, <3>2 DEF ExecuteFails, CallsTyped, NoOperation
    <3>. QED
      BY <1>1, <3>1, <3>2, <3>3, OneCallMoves
  <2>15. CASE EndOperation(o)
    <3>1. NoOperation \in Call /\ "none" \in Effect
      BY <2>1, <2>2, <2>3, <2>15 DEF EndOperation, Call, Effect, NoOperation, CallsTyped, Actions, LongRunning
    <3>2. /\ operation' = [operation EXCEPT ![o] = NoOperation]
          /\ effect' = [effect EXCEPT ![o] = "none"]
          /\ audits' = [audits EXCEPT ![o] = <<>>]
          /\ overdue' \subseteq Operations /\ disconnected' \subseteq Operations
      BY <2>1, <2>4, <2>15 DEF EndOperation, CallsTyped
    <3>3. CallInv(o)'
      BY <2>1, <2>2, <2>3, <2>15, <3>2 DEF EndOperation, CallsTyped, NoOperation
    <3>. QED
      BY <1>1, <3>1, <3>2, <3>3, OneCallMoves
  <2>16. CASE AzureActs(o)
    <3>. DEFINE becomes == effect'[o]
    <3>1. operation[o] \in Call /\ becomes \in Effect
      BY <2>1, <2>2, <2>3, <2>16 DEF AzureActs, Call, Effect, NoOperation, CallsTyped, Actions, LongRunning
    <3>2. /\ operation' = [operation EXCEPT ![o] = operation[o]]
          /\ effect' = [effect EXCEPT ![o] = becomes]
          /\ audits' = [audits EXCEPT ![o] = audits[o]]
          /\ overdue' \subseteq Operations /\ disconnected' \subseteq Operations
      BY <2>1, <2>4, <2>16 DEF AzureActs, CallsTyped
    <3>3. CallInv(o)'
      BY <2>1, <2>2, <2>3, <2>16, <3>2 DEF AzureActs, CallsTyped, NoOperation
    <3>. QED
      BY <1>1, <3>1, <3>2, <3>3, OneCallMoves
  <2>. QED
    BY <1>3, <2>5, <2>6, <2>7, <2>8, <2>9, <2>10, <2>11, <2>12, <2>13, <2>14, <2>15, <2>16 DEF OperationStep
<1>. QED
  BY <1>1, <1>2, <1>3 DEF OperationsNext

(* The invariant of the audit: where a call stands says what it has done   *)
(* and what has been written of it (run, tagResource).                     *)
THEOREM OperationsInvariant == OperationsSpec => []OperationsInv
  BY OperationsInitially, OperationsPreserved, PTL DEF OperationsSpec

(* The audit of a mutation tells the truth, once, for every number of      *)
(* calls: what OneTruthfulAudit says of run and tagResource follows from   *)
(* where each call is when it leaves its entry.                            *)
THEOREM AuditIsTruthful == OperationsSpec => []OneTruthfulAudit
<1>1. OperationsInv => OneTruthfulAudit
  <2>1. SUFFICES ASSUME OperationsInv, NEW o \in Operations
                 PROVE  /\ Len(audits[o]) <= 1
                        /\ audits[o] = <<"completed">> => effect[o] = "done"
                        /\ audits[o] = <<"planned">> => effect[o] = "none"
                        /\ operation[o].at = "returned" /\ effect[o] # "none" => Len(audits[o]) = 1
    BY DEF OneTruthfulAudit
  <2>2. /\ Len(<<"completed">>) = 1 /\ Len(<<"planned">>) = 1 /\ Len(<<"indeterminate">>) = 1
        /\ Len(<<>>) = 0
        /\ <<"completed">> # <<"planned">> /\ <<"completed">> # <<"indeterminate">>
        /\ <<"planned">> # <<"indeterminate">>
        /\ <<>> # <<"completed">> /\ <<>> # <<"planned">> /\ <<>> # <<"indeterminate">>
    OBVIOUS
  <2>3. CASE audits[o] = <<>>
    <3>1. operation[o].at = "returned" => effect[o] = "none"
      BY <2>1, <2>2, <2>3, Zenon DEF OperationsInv, CallInv
    <3>2. Len(audits[o]) <= 1 /\ audits[o] # <<"completed">> /\ audits[o] # <<"planned">>
      BY <2>2, <2>3
    <3>. QED
      BY <3>1, <3>2
  <2>4. CASE audits[o] = <<"indeterminate">>
    BY <2>2, <2>4
  <2>5. CASE audits[o] = <<"completed">> /\ effect[o] = "done"
    BY <2>2, <2>5
  <2>6. CASE audits[o] = <<"planned">> /\ effect[o] = "none"
    BY <2>2, <2>6
  <2>. QED
    BY <2>1, <2>3, <2>4, <2>5, <2>6 DEF OperationsInv, CallInv
<1>. QED
  BY <1>1, OperationsInvariant, PTL

(* The types of the calls, their effects and their audits.                 *)
THEOREM OperationsTyped == OperationsSpec => []OperationsTypeOK
<1>1. ASSUME OperationsInv PROVE OperationsTypeOK
  <2>1. ASSUME NEW o \in Operations
        PROVE  /\ operation[o].at \in {"idle"} \cup Admitted
               /\ operation[o].at # "idle" =>
                    operation[o].action \in Actions /\ operation[o].dryRun \in BOOLEAN
    BY <1>1 DEF OperationsInv, CallsTyped, Call, NoOperation
  <2>2. <<>> \in Seq(Outcome) /\ \A x \in Outcome : <<x>> \in Seq(Outcome)
    BY OneEntry
  <2>3. ASSUME NEW o \in Operations PROVE audits[o] \in Seq(Outcome)
    BY <1>1, <2>1, <2>2 DEF OperationsInv, CallInv, Admitted, Outcome
  <2>4. audits \in [Operations -> Seq(Outcome)]
    BY <1>1, <2>3 DEF OperationsInv, CallsTyped
  <2>. QED
    BY <1>1, <2>1, <2>4 DEF OperationsInv, CallsTyped, OperationsTypeOK, Admitted
<1>. QED
  BY <1>1, OperationsInvariant, PTL

-----------------------------------------------------------------------------
(* The client of the ARM deployments API.                                  *)

Active == {"token", "sent", "sleep"}
Kinds  == {"begin", "whatIf"}
Verbs  == {"PUT", "POST", "GET"}
Errors == {"timeout", "upstream_error", "bad_request", "forbidden", "not_found",
           "conflict", "rate_limited"}
Result == [code : Errors \cup {"accepted", "plan"}, status : Nat]

ArmCall ==
  {NoCall} \cup [at : Active, kind : Kinds, verb : Verbs, due : Nat]
           \cup [at : {"done"}, kind : Kinds, result : Result]

ArmTyped ==
  /\ armCall \in ArmCall
  /\ armClock \in Nat
  /\ armHas \in {"none", "sent", "refused", "accepted", "computing", "plan"}
  /\ armAborted \in BOOLEAN

(* A timer never outlives the time of the what-if it serves: this is why   *)
(* a chain of requests and waits cannot.                                   *)
Timely ==
  /\ armCall.at = "idle" => armClock = 0
  /\ armCall.at \in Active => armClock <= armCall.due
  /\ armCall.at \in Active /\ armCall.kind = "whatIf" => armCall.due <= WhatIfTimeout
  /\ armCall.at = "done" /\ armCall.kind = "whatIf" => armClock <= WhatIfTimeout

(* What ARM can have of a call: nothing before the token, and only what    *)
(* the call's kind asks of it.                                             *)
InArm ==
  /\ armCall.at = "idle" => armHas = "none"
  /\ armCall.at \in Active =>
       /\ armCall.kind = "begin" => armCall.verb = "PUT" /\ armCall.at # "sleep"
       /\ armCall.kind = "whatIf" => armCall.verb # "PUT"
       /\ armCall.at = "token" /\ armCall.verb # "GET" => armHas = "none"

(* What a call returns agrees with it, and ARM does not change its mind.   *)
Honest ==
  armCall.at = "done" =>
    /\ armCall.kind = "begin" /\ isDefinitiveSubmissionFailure(armCall.result) =>
         armHas \in {"none", "refused"}
    /\ armCall.kind = "whatIf" /\ armCall.result.code = "plan" => armHas = "plan"

ArmInv == ArmTyped /\ Timely /\ InArm /\ Honest

(* The errors that send can throw, as the deployment service sees them.    *)
LEMMA MappedErrors ==
  ASSUME NEW name \in {"AbortError", "AppError", "AuthenticationError", "RestError"},
         NEW status \in Nat
  PROVE  /\ mapAzureError(name, status).code \in Errors
         /\ mapAzureError(name, status) \in Result
  BY DEF mapAzureError, Errors, Result

LEMMA UncertainErrors ==
  /\ \A name \in {"AbortError", "AppError", "RestError"} :
       ~isDefinitiveSubmissionFailure(mapAzureError(name, 0))
  /\ \A status \in Troubles : ~isDefinitiveSubmissionFailure(mapAzureError("RestError", status))
  BY DEF mapAzureError, isDefinitiveSubmissionFailure, Troubles

LEMMA ArmInitially == ArmInit => ArmInv
<1>1. SUFFICES ASSUME ArmInit PROVE ArmInv
  OBVIOUS
<1>2. armCall.at = "idle"
  BY <1>1 DEF ArmInit, NoCall
<1>3. ArmTyped
  BY <1>1 DEF ArmInit, ArmTyped, ArmCall
<1>. QED
  BY <1>1, <1>2, <1>3 DEF ArmInit, ArmInv, Timely, InArm, Honest, Active

(* The fields of a call, by its place.                                     *)
LEMMA CallFields ==
  ASSUME ArmTyped
  PROVE  /\ armCall.at \in Active => /\ armCall \in [at : Active, kind : Kinds, verb : Verbs, due : Nat]
                                    /\ armCall.kind \in Kinds
                                    /\ armCall.verb \in Verbs
                                    /\ armCall.due \in Nat
         /\ armCall.at = "done" => armCall.kind \in Kinds /\ armCall.result \in Result
         /\ armCall.at \in {"idle", "done"} \cup Active
  BY DEF ArmTyped, ArmCall, NoCall, Active

(* A call that throws keeps the invariant if its error is definitive only  *)
(* where ARM has nothing of it.                                            *)
LEMMA ThrowKeeps ==
  ASSUME ArmInv, armCall.at \in Active,
         NEW name \in {"AbortError", "AppError", "AuthenticationError", "RestError"},
         NEW status \in Nat, Throw(name, status),
         UNCHANGED <<armClock, armHas, armAborted>>,
         armCall.kind = "begin" /\ isDefinitiveSubmissionFailure(mapAzureError(name, status)) =>
           armHas \in {"none", "refused"}
  PROVE  ArmInv'
<1>. DEFINE error == mapAzureError(name, status)
<1>1. error \in Result /\ error.code # "plan"
  BY MappedErrors DEF Errors
<1>2. armCall' = [at |-> "done", kind |-> armCall.kind, result |-> error]
  BY DEF Throw, Return
<1>3. armCall.kind \in Kinds /\ armCall.due \in Nat
  BY CallFields DEF ArmInv
<1>. HIDE DEF error
<1>4. ArmTyped'
  BY <1>1, <1>2, <1>3 DEF ArmInv, ArmTyped, ArmCall
<1>5. Timely' /\ InArm'
  <2>1. armCall'.at = "done" /\ armCall'.kind = armCall.kind
    BY <1>2
  <2>2. armClock \in Nat /\ WhatIfTimeout \in Nat
    BY ArmAssumption DEF ArmInv, ArmTyped
  <2>. QED
    BY <1>3, <2>1, <2>2 DEF ArmInv, Timely, InArm, Active
<1>6. Honest'
  BY <1>1, <1>2, <1>3 DEF Honest, error
<1>. QED
  BY <1>4, <1>5, <1>6 DEF ArmInv

(* So does a call that begins a request within what is left of its time.   *)
LEMMA SendKeeps ==
  ASSUME ArmInv, NEW verb \in Verbs, NEW timeout \in Nat,
         armCall' = send(verb, timeout), UNCHANGED <<armClock, armHas, armAborted>>,
         verb # "GET" => armHas = "none",
         verb # "PUT" => armClock + timeout <= WhatIfTimeout
  PROVE  ArmInv'
<1>. DEFINE kind == IF verb = "PUT" THEN "begin" ELSE "whatIf"
            due == armClock + Least(RequestTimeout, timeout)
<1>1. /\ due \in Nat /\ armClock \in Nat /\ armClock <= due
      /\ kind = "whatIf" => due <= WhatIfTimeout
      /\ kind \in Kinds
      /\ kind = "begin" <=> verb = "PUT"
  BY ArmAssumption DEF ArmInv, ArmTyped, Least, Kinds, Verbs
<1>2. armCall' = [at |-> "token", kind |-> kind, verb |-> verb, due |-> due]
  BY DEF send
<1>. HIDE DEF kind, due
<1>3. ArmTyped'
  BY <1>1, <1>2 DEF ArmInv, ArmTyped, ArmCall, Active
<1>4. Timely' /\ InArm' /\ Honest'
  BY <1>1, <1>2 DEF ArmInv, Timely, InArm, Honest, Active
<1>. QED
  BY <1>3, <1>4 DEF ArmInv

(* So does what ARM does with a call.                                      *)
LEMMA ArmMoves ==
  ASSUME ArmInv, UNCHANGED <<armCall, armClock, armAborted>>,
         \/ armHas = "sent" /\ armHas' \in {"refused", "none", "accepted", "computing"}
         \/ armHas = "computing" /\ armHas' = "plan"
  PROVE  ArmInv'
  BY DEF ArmInv, ArmTyped, Timely, InArm, Honest

LEMMA ArmPreserved == ArmInv /\ [ArmNext]_armVars => ArmInv'
<1>1. SUFFICES ASSUME ArmInv, [ArmNext]_armVars PROVE ArmInv'
  OBVIOUS
<1>2. CASE UNCHANGED armVars
  BY <1>1, <1>2 DEF ArmInv, ArmTyped, Timely, InArm, Honest, armVars
<1>3. /\ armClock \in Nat /\ WhatIfTimeout \in Nat /\ RequestTimeout \in Nat /\ PollInterval \in Nat
      /\ ArmTyped
  BY <1>1, ArmAssumption DEF ArmInv, ArmTyped
<1>4. /\ remainingWhatIf \in Nat
      /\ armClock <= WhatIfTimeout => armClock + remainingWhatIf <= WhatIfTimeout
  BY <1>3 DEF remainingWhatIf
<1>5. CASE begin
  <2>1. armHas = "none"
    BY <1>1, <1>5 DEF begin, NoCall, ArmInv, InArm
  <2>2. "PUT" \in Verbs
    BY DEF Verbs
  <2>. QED
    BY <1>1, <1>3, <1>5, <2>1, <2>2, SendKeeps DEF begin
<1>6. CASE whatIf
  <2>1. armHas = "none" /\ armClock = 0
    BY <1>1, <1>6 DEF whatIf, NoCall, ArmInv, InArm, Timely
  <2>2. "POST" \in Verbs
    BY DEF Verbs
  <2>3. armClock + remainingWhatIf <= WhatIfTimeout
    BY <1>3, <1>4, <2>1
  <2>. QED
    BY <1>1, <1>4, <1>6, <2>1, <2>2, <2>3, SendKeeps DEF whatIf
<1>7. CASE Poll
  <2>1. /\ armCall.at \in Active /\ armCall.at = "sleep"
        /\ UNCHANGED <<armClock, armHas, armAborted>>
    BY <1>7 DEF Poll, Active
  <2>2. armCall.kind = "whatIf" /\ armClock <= WhatIfTimeout
    BY <1>1, <1>3, <1>7, <2>1, CallFields DEF Poll, ArmInv, InArm, Timely, Kinds
  <2>3. CASE Throw("AbortError", 0)
    BY <1>1, <2>1, <2>2, <2>3, ThrowKeeps
  <2>4. CASE armCall' = send("GET", remainingWhatIf)
    <3>1. "GET" \in Verbs
      BY DEF Verbs
    <3>. QED
      BY <1>1, <1>4, <2>1, <2>2, <2>4, <3>1, SendKeeps
  <2>. QED
    BY <1>7, <2>3, <2>4 DEF Poll
<1>8. CASE TokenAcquired
  <2>1. armCall' = [armCall EXCEPT !.at = "sent"] /\ armCall.at \in Active
    BY <1>8 DEF TokenAcquired, Active
  <2>2. /\ armCall'.at = "sent" /\ armCall'.kind = armCall.kind
        /\ armCall'.verb = armCall.verb /\ armCall'.due = armCall.due
        /\ armCall' \in ArmCall
    BY <1>3, <2>1, CallFields DEF ArmCall, Active
  <2>. QED
    BY <1>1, <1>8, <2>1, <2>2 DEF TokenAcquired, ArmInv, ArmTyped, Timely, InArm, Honest, Active
<1>9. CASE TokenRefused
  <2>1. /\ armCall.at \in Active /\ UNCHANGED <<armClock, armHas, armAborted>>
        /\ armCall.kind = "begin" => armHas \in {"none", "refused"}
    BY <1>1, <1>9 DEF TokenRefused, Active, ArmInv, InArm
  <2>2. PICK name \in {"AuthenticationError", "AppError"}, status \in Nat : Throw(name, status)
    BY <1>9 DEF TokenRefused
  <2>. QED
    BY <1>1, <2>1, <2>2, ThrowKeeps
<1>10. CASE Aborted \/ AnswerLost
  <2>1. armCall.at \in Active /\ UNCHANGED <<armClock, armHas, armAborted>>
    BY <1>10 DEF Aborted, AnswerLost, Active
  <2>2. PICK name \in {"AbortError", "AppError", "RestError"} : Throw(name, 0)
    BY <1>10 DEF Aborted, AnswerLost
  <2>. QED
    BY <1>1, <2>1, <2>2, ThrowKeeps, UncertainErrors
<1>11. CASE Refusal
  <2>1. armCall.at \in Active /\ UNCHANGED <<armClock, armHas, armAborted>>
    BY <1>11 DEF Refusal, Active
  <2>2. PICK status \in Nat :
          /\ Throw("RestError", status)
          /\ armHas = "refused" \/ status \in Troubles \/ armCall.verb = "GET"
    BY <1>11 DEF Refusal, Refusals, Troubles
  <2>3. armCall.kind = "begin" /\ isDefinitiveSubmissionFailure(mapAzureError("RestError", status)) =>
          armHas \in {"none", "refused"}
    BY <1>1, <2>1, <2>2, UncertainErrors DEF ArmInv, InArm
  <2>. QED
    BY <1>1, <2>1, <2>2, <2>3, ThrowKeeps
<1>12. CASE Accepted
  <2>1. /\ armCall.at \in Active /\ armCall.kind = "begin"
        /\ UNCHANGED <<armClock, armHas, armAborted>>
        /\ armCall' = [at |-> "done", kind |-> "begin", result |-> [code |-> "accepted", status |-> 0]]
    BY <1>1, <1>3, <1>12, CallFields DEF Accepted, Return, Active, ArmInv, InArm, Kinds
  <2>2. ~isDefinitiveSubmissionFailure([code |-> "accepted", status |-> 0])
    BY DEF isDefinitiveSubmissionFailure
  <2>3. ArmTyped'
    BY <1>3, <2>1 DEF ArmTyped, ArmCall, Kinds, Result
  <2>. QED
    BY <2>1, <2>2, <2>3 DEF ArmInv, Timely, InArm, Honest, Active
<1>13. CASE Planned
  <2>1. /\ armCall.at \in Active /\ armCall.kind = "whatIf"
        /\ armCall.kind # "begin" /\ armHas = "plan"
        /\ UNCHANGED <<armClock, armHas, armAborted>>
        /\ armClock <= WhatIfTimeout
    BY <1>1, <1>3, <1>13, CallFields DEF Planned, Active, ArmInv, Timely
  <2>2. CASE Throw("AbortError", 0)
    BY <1>1, <2>1, <2>2, ThrowKeeps
  <2>3. CASE Return([code |-> "plan", status |-> 0])
    <3>1. armCall' = [at |-> "done", kind |-> "whatIf", result |-> [code |-> "plan", status |-> 0]]
      BY <2>1, <2>3 DEF Return
    <3>2. ArmTyped'
      BY <1>3, <2>1, <3>1 DEF ArmTyped, ArmCall, Kinds, Result
    <3>. QED
      BY <2>1, <3>1, <3>2 DEF ArmInv, Timely, InArm, Honest, Active
  <2>. QED
    BY <1>13, <2>2, <2>3 DEF Planned
<1>14. CASE Pending
  <2>1. /\ armCall.at \in Active /\ armCall.kind = "whatIf" /\ armCall.kind # "begin"
        /\ UNCHANGED <<armClock, armHas, armAborted>>
        /\ armClock <= WhatIfTimeout
    BY <1>1, <1>3, <1>14, CallFields DEF Pending, Active, ArmInv, Timely
  <2>2. CASE \E name \in {"AbortError", "AppError"} : Throw(name, 0)
    BY <1>1, <2>1, <2>2, ThrowKeeps
  <2>3. CASE armCall' = [armCall EXCEPT !.at = "sleep",
                           !.due = armClock + Least(PollInterval, remainingWhatIf)]
    <3>. DEFINE due == armClock + Least(PollInterval, remainingWhatIf)
    <3>1. due \in Nat /\ armClock <= due /\ due <= WhatIfTimeout
      BY <1>3, <1>4, <2>1 DEF Least
    <3>. HIDE DEF due
    <3>2. armCall' = [armCall EXCEPT !.at = "sleep", !.due = due]
      BY <2>3 DEF due
    <3>3. /\ armCall'.at = "sleep" /\ armCall'.due = due
          /\ armCall'.kind = armCall.kind /\ armCall'.verb = armCall.verb
          /\ armCall' \in ArmCall
      BY <1>3, <2>1, <3>1, <3>2, CallFields DEF ArmCall, Active
    <3>. QED
      BY <1>1, <2>1, <3>1, <3>3 DEF ArmInv, ArmTyped, Timely, InArm, Honest, Active
  <2>. QED
    BY <1>14, <2>2, <2>3 DEF Pending
<1>15. CASE ArmReceives \/ ArmComputes
  BY <1>1, <1>15, ArmMoves DEF ArmReceives, ArmComputes
<1>16. CASE CallerAborts
  BY <1>1, <1>16 DEF CallerAborts, ArmInv, ArmTyped, Timely, InArm, Honest
<1>17. CASE Tick
  <2>1. /\ armCall.at \in Active /\ armClock < armCall.due
        /\ armClock' = armClock + 1 /\ UNCHANGED <<armCall, armHas, armAborted>>
    BY <1>17 DEF Tick, Active
  <2>2. armCall.due \in Nat
    BY <1>3, <2>1, CallFields
  <2>. QED
    BY <1>1, <1>3, <2>1, <2>2 DEF ArmInv, ArmTyped, Timely, InArm, Honest, Active
<1>18. CASE EndCall
  <2>1. ArmInit'
    BY <1>18 DEF EndCall, ArmInit
  <2>2. (ArmInit => ArmInv)'
    BY ArmInitially, PTL
  <2>. QED
    BY <2>1, <2>2
<1>. QED
  BY <1>1, <1>2, <1>5, <1>6, <1>7, <1>8, <1>9, <1>10, <1>11, <1>12, <1>13, <1>14,
     <1>15, <1>16, <1>17, <1>18 DEF ArmNext

(* The invariant of the client: requests under way are younger than their  *)
(* timeout, a deployment ARM has or may still get is not of a call that    *)
(* was refused, and a refusal is ARM's own (armRequest, begin, whatIf).    *)
THEOREM ArmInvariant == ArmSpec => []ArmInv
  BY ArmInitially, ArmPreserved, PTL DEF ArmSpec

(* A submission that the deployment service takes for definitively refused *)
(* never becomes a deployment (isDefinitiveSubmissionFailure over          *)
(* mapAzureError over send), whatever the timeouts and the interval are.   *)
THEOREM RefusedIsRefused == ArmSpec => []DefinitiveMeansRefused
<1>1. ArmInv => DefinitiveMeansRefused
  BY DEF ArmInv, Honest, DefinitiveMeansRefused
<1>. QED
  BY <1>1, ArmInvariant, PTL

(* A what-if ends within its timeout, for every timeout of its requests    *)
(* and every interval between its polls (whatIf, pollWhatIf).              *)
THEOREM WhatIfInTime == ArmSpec => []PlanInTime
<1>1. ASSUME ArmInv PROVE PlanInTime
  <2>1. /\ armClock \in Nat /\ WhatIfTimeout \in Nat
        /\ armCall.at \in Active => armCall.due \in Nat
        /\ armCall.at \in {"idle", "done"} \cup Active
    BY <1>1, CallFields, ArmAssumption DEF ArmInv, ArmTyped
  <2>. QED
    BY <1>1, <2>1 DEF ArmInv, Timely, Honest, PlanInTime, Active
<1>. QED
  BY <1>1, ArmInvariant, PTL

(* The places, kinds and possessions of a call keep their types.           *)
THEOREM ArmTypes == ArmSpec => []ArmTypeOK
<1>1. ArmInv => ArmTypeOK
  BY CallFields DEF ArmInv, ArmTyped, ArmTypeOK, Kinds, Active
<1>. QED
  BY <1>1, ArmInvariant, PTL
=============================================================================
