------------------------------ MODULE ArmClient ------------------------------
(***************************************************************************)
(* One call of the ARM client: send of src/provider/azure/arm-rest.ts, the *)
(* submission and the what-if of src/provider/azure/deployments.ts, and    *)
(* the translation of what goes wrong (errors.ts) that decides whether the *)
(* deployment service may call a submission rejected.  Time runs in units  *)
(* from the beginning of the call; timers fire when they are due.          *)
(***************************************************************************)
EXTENDS Naturals

CONSTANTS
  RequestTimeout,  (* AZURE_ARM_REQUEST_TIMEOUT_MS                         *)
  WhatIfTimeout,   (* DEPLOYMENT_WHATIF_TIMEOUT_MS                         *)
  PollInterval     (* DEPLOYMENT_POLL_INTERVAL_MS                          *)

ASSUME ArmAssumption ==
  /\ RequestTimeout \in Nat \ {0}
  /\ WhatIfTimeout \in Nat \ {0}
  /\ PollInterval \in Nat \ {0}

VARIABLES
  armCall,     (* where the call is, what it asks, when its timer is due   *)
  armClock,    (* time since the call began                                *)
  armHas,      (* what ARM has of it                                       *)
  armAborted   (* the caller's signal                                      *)

armVars == <<armCall, armClock, armHas, armAborted>>

NoCall == [at |-> "idle"]
Least(a, b) == IF a < b THEN a ELSE b

remainingWhatIf == IF armClock < WhatIfTimeout THEN WhatIfTimeout - armClock ELSE 0

(* Statuses of an answer by which ARM says that it did not take a request, *)
(* and those of a request it may have taken.                               *)
Refusals == {400, 401, 403, 404, 409, 422, 429}
Troubles == {408, 500, 503, 504}

-----------------------------------------------------------------------------
(* mapAzureError: the code of the error, and the status in its details.    *)
(* An error that is an AppError already (an unusable response, no token)   *)
(* passes with no status.                                                  *)
mapAzureError(name, status) ==
  [code |->
     CASE name = "AbortError" -> "timeout"
       [] name \in {"AppError", "AuthenticationError"} -> "upstream_error"
       [] status = 400 -> "bad_request"
       [] status = 403 -> "forbidden"
       [] status = 404 -> "not_found"
       [] status = 409 -> "conflict"
       [] status = 429 -> "rate_limited"
       [] status \in {408, 504} -> "timeout"
       [] OTHER -> "upstream_error",
   status |-> IF name \in {"AppError", "AbortError"} THEN 0 ELSE status]

(* Deviation: every answer that is an error is final.                      *)
isAnsweredFailure(error) == error.status # 0

isDefinitiveSubmissionFailure(error) ==
  \/ error.code \in {"bad_request", "forbidden", "not_found", "rate_limited"}
  \/ error.status \in {400, 401, 403, 404, 422, 429}

Return(result) == armCall' = [at |-> "done", kind |-> armCall.kind, result |-> result]
Throw(name, status) == Return(mapAzureError(name, status))

-----------------------------------------------------------------------------
(* Deviation: only the client's own timeout bounds a request.              *)
sendUnbounded(verb, timeout) ==
  [at |-> "token", kind |-> IF verb = "PUT" THEN "begin" ELSE "whatIf",
   verb |-> verb, due |-> armClock + RequestTimeout]

(* send: the request's timer is the shorter of the client's and the        *)
(* caller's; it covers the token, the request and the reading of the body. *)
send(verb, timeout) ==
  [at |-> "token", kind |-> IF verb = "PUT" THEN "begin" ELSE "whatIf",
   verb |-> verb, due |-> armClock + Least(RequestTimeout, timeout)]

begin ==
  /\ armCall = NoCall
  /\ armCall' = send("PUT", RequestTimeout)
  /\ UNCHANGED <<armClock, armHas, armAborted>>

whatIf ==
  /\ armCall = NoCall
  /\ armCall' = send("POST", remainingWhatIf)
  /\ UNCHANGED <<armClock, armHas, armAborted>>

(* authorizationHeader: the request goes out with a token, or no token is  *)
(* to be had (with the status of the identity endpoint, or none).          *)
TokenAcquired ==
  /\ armCall.at = "token"
  /\ armCall' = [armCall EXCEPT !.at = "sent"]
  /\ armHas' = IF armCall.verb = "GET" THEN armHas ELSE "sent"
  /\ UNCHANGED <<armClock, armAborted>>

TokenRefused ==
  /\ armCall.at = "token"
  /\ \/ \E status \in {0, 400, 401, 500} : Throw("AuthenticationError", status)
     \/ Throw("AppError", 0)
  /\ UNCHANGED <<armClock, armHas, armAborted>>

(* The request's timer, or the caller's signal with a reason of its own,   *)
(* aborts the request: what has been sent of it may still arrive.          *)
Aborted ==
  /\ armCall.at \in {"token", "sent"}
  /\ \/ armClock = armCall.due /\ Throw("AbortError", 0)
     \/ armAborted /\ \E name \in {"AbortError", "RestError", "AppError"} : Throw(name, 0)
  /\ UNCHANGED <<armClock, armHas, armAborted>>

(* The connection breaks, or the body is larger than the limit: an answer, *)
(* if there was one, is lost with its status.                              *)
AnswerLost ==
  /\ armCall.at = "sent"
  /\ \E name \in {"RestError", "AppError"} : Throw(name, 0)
  /\ UNCHANGED <<armClock, armHas, armAborted>>

(* ARM answers a request that it has refused with the reason, and any      *)
(* request, taken, lost or still on its way, with trouble of the gateway.  *)
Refusal ==
  /\ armCall.at = "sent"
  /\ \/ armHas = "refused" /\ \E status \in Refusals : Throw("RestError", status)
     \/ \E status \in Troubles : Throw("RestError", status)
     \/ armCall.verb = "GET" /\ \E status \in Refusals : Throw("RestError", status)
  /\ UNCHANGED <<armClock, armHas, armAborted>>

Accepted ==
  /\ armCall.at = "sent"
  /\ armCall.verb = "PUT"
  /\ armHas = "accepted"
  /\ Return([code |-> "accepted", status |-> 0])
  /\ UNCHANGED <<armClock, armHas, armAborted>>

-----------------------------------------------------------------------------
(* whatIf and pollWhatIf.  202: wait for the interval or what is left of   *)
(* the time, and ask again where ARM said to ask, which must be a place of *)
(* ARM.  A look at the deadline comes before every wait.                   *)
Pending ==
  /\ armCall.at = "sent"
  /\ armCall.kind = "whatIf"
  /\ armHas \in {"computing", "plan"}
  /\ IF remainingWhatIf = 0 THEN Throw("AbortError", 0)
     ELSE \/ armCall' = [armCall EXCEPT !.at = "sleep",
                           !.due = armClock + Least(PollInterval, remainingWhatIf)]
          \/ armCall.verb = "POST" /\ Throw("AppError", 0)
  /\ UNCHANGED <<armClock, armHas, armAborted>>

(* Any other good status brings the plan, or the error that the plan came  *)
(* to; the first answer is followed by a look at the deadline.             *)
Planned ==
  /\ armCall.at = "sent"
  /\ armCall.kind = "whatIf"
  /\ armHas = "plan"
  /\ IF armCall.verb = "POST" /\ remainingWhatIf = 0
     THEN Throw("AbortError", 0)
     ELSE Return([code |-> "plan", status |-> 0])
  /\ UNCHANGED <<armClock, armHas, armAborted>>

Poll ==
  /\ armCall.at = "sleep"
  /\ armClock = armCall.due
  /\ IF armAborted \/ remainingWhatIf = 0
     THEN Throw("AbortError", 0)
     ELSE armCall' = send("GET", remainingWhatIf)
  /\ UNCHANGED <<armClock, armHas, armAborted>>

-----------------------------------------------------------------------------
(* ARM, whoever still waits: it takes or refuses what has been sent, which *)
(* may also be lost, and computes plans.                                   *)
ArmReceives ==
  /\ armHas = "sent"
  /\ armHas' \in {"refused", "none", IF armCall.kind = "begin" THEN "accepted" ELSE "computing"}
  /\ UNCHANGED <<armCall, armClock, armAborted>>

ArmComputes ==
  /\ armHas = "computing"
  /\ armHas' = "plan"
  /\ UNCHANGED <<armCall, armClock, armAborted>>

CallerAborts ==
  /\ armCall.at \in {"token", "sent", "sleep"}
  /\ ~armAborted
  /\ armAborted' = TRUE
  /\ UNCHANGED <<armCall, armClock, armHas>>

(* A timer that is due fires before time goes on.                          *)
Tick ==
  /\ armCall.at \in {"token", "sent", "sleep"}
  /\ armClock < armCall.due
  /\ armClock' = armClock + 1
  /\ UNCHANGED <<armCall, armHas, armAborted>>

EndCall ==
  /\ armCall.at = "done"
  /\ armHas # "sent"
  /\ armCall' = NoCall
  /\ armClock' = 0
  /\ armHas' = "none"
  /\ armAborted' = FALSE

-----------------------------------------------------------------------------
ArmInit ==
  /\ armCall = NoCall
  /\ armClock = 0
  /\ armHas = "none"
  /\ armAborted = FALSE

ArmNext ==
  \/ begin \/ whatIf \/ TokenAcquired \/ TokenRefused \/ Aborted \/ AnswerLost
  \/ Refusal \/ Accepted \/ Pending \/ Planned \/ Poll
  \/ ArmReceives \/ ArmComputes \/ CallerAborts \/ Tick \/ EndCall

ArmSpec == ArmInit /\ [][ArmNext]_armVars

-----------------------------------------------------------------------------
ArmTypeOK ==
  /\ armCall.at \in {"idle", "token", "sent", "sleep", "done"}
  /\ armCall.at # "idle" => armCall.kind \in {"begin", "whatIf"}
  /\ armClock \in Nat
  /\ armHas \in {"none", "sent", "refused", "accepted", "computing", "plan"}
  /\ armAborted \in BOOLEAN

(* A submission that the deployment service takes for rejected has not     *)
(* become a deployment and never will: it was refused, or never sent.  A   *)
(* timeout, a conflict, a broken connection, a server's error or an answer *)
(* too large to read leaves the record uncertain instead                   *)
(* (isDefinitiveSubmissionFailure over mapAzureError over send).           *)
DefinitiveMeansRefused ==
  armCall.at = "done" /\ armCall.kind = "begin"
    /\ isDefinitiveSubmissionFailure(armCall.result)
    => armHas \in {"none", "refused"}

(* A what-if takes no longer than its time, however its requests, tokens   *)
(* and waits follow one another, and what it returns is the plan of a      *)
(* computation that ARM has finished (whatIf, pollWhatIf).                 *)
PlanInTime ==
  armCall.at # "idle" /\ armCall.kind = "whatIf" =>
    /\ armClock <= WhatIfTimeout
    /\ armCall.at = "done" /\ armCall.result.code = "plan" => armHas = "plan"
=============================================================================
