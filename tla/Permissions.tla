----------------------------- MODULE Permissions -----------------------------
(***************************************************************************)
(* The cache of effective permissions (src/services/inventory.ts,          *)
(* hasEffectivePermission), which readiness and the listings of            *)
(* subscriptions consult: entries with a time to live, misses that run     *)
(* concurrently, role assignments that change meanwhile.                   *)
(***************************************************************************)
EXTENDS Naturals, FiniteSets

CONSTANTS
  Questions,  (* cache keys: an identity, a scope and an action            *)
  Checks,     (* calls of hasEffectivePermission in flight at once         *)
  Ttl,        (* rbacCacheTtlMs                                            *)
  Latency,    (* how long a query of ARM may take (armRequestTimeoutMs)    *)
  MaxTime     (* bound on the clock                                        *)

ASSUME PermissionsAssumption == Ttl \in Nat /\ Latency \in Nat /\ MaxTime \in Nat \ {0}

VARIABLES
  granted,    (* the questions Azure's role assignments answer with yes    *)
  time,       (* the clock                                                 *)
  cache,      (* the cached answer to each question                        *)
  check,      (* each call                                                 *)
  lastTrue,   (* history: when each question was last true                 *)
  lastFalse   (* history: when each was last false, or a query failed      *)

permissionVars == <<granted, time, cache, check, lastTrue, lastFalse>>

NoCheck == [at |-> "idle"]
NoEntry == [value |-> FALSE, expiresAt |-> 0]

Returns(c, question, answer) ==
  check' = [check EXCEPT ![c] = [at |-> "returned", of |-> question, answer |-> answer]]

-----------------------------------------------------------------------------
(* Deviation: an answer once cached is believed for good.                  *)
AskForever(c) ==
  /\ check[c] = NoCheck
  /\ \E question \in Questions :
       IF cache[question].expiresAt > 0
       THEN Returns(c, question, cache[question].value)
       ELSE check' = [check EXCEPT ![c] = [at |-> "query", of |-> question, since |-> time]]
  /\ UNCHANGED <<granted, time, cache, lastTrue, lastFalse>>

(* hasEffectivePermission: an entry that has not expired answers.          *)
Ask(c) ==
  /\ check[c] = NoCheck
  /\ \E question \in Questions :
       IF cache[question].expiresAt > time
       THEN Returns(c, question, cache[question].value)
       ELSE check' = [check EXCEPT ![c] = [at |-> "query", of |-> question, since |-> time]]
  /\ UNCHANGED <<granted, time, cache, lastTrue, lastFalse>>

(* ARM evaluates the query with the assignments of that moment, or the     *)
(* query fails, which counts as a denial.                                  *)
Evaluate(c) ==
  LET d == check[c] IN
  /\ d.at = "query"
  /\ \E answered \in BOOLEAN :
       /\ check' = [check EXCEPT ![c] =
            [at |-> "heard", of |-> d.of, since |-> d.since,
             answer |-> answered /\ d.of \in granted]]
       /\ lastFalse' = IF answered THEN lastFalse ELSE [lastFalse EXCEPT ![d.of] = time]
  /\ UNCHANGED <<granted, time, cache, lastTrue>>

(* The answer arrives and is cached from now on, over whatever another     *)
(* call has cached meanwhile.                                              *)
Remember(c) ==
  LET d == check[c] IN
  /\ d.at = "heard"
  /\ cache' = [cache EXCEPT ![d.of] = [value |-> d.answer, expiresAt |-> time + Ttl]]
  /\ Returns(c, d.of, d.answer)
  /\ UNCHANGED <<granted, time, lastTrue, lastFalse>>

(* A cancelled call neither caches nor answers anything.                   *)
CheckCancelled(c) ==
  /\ check[c].at \in {"query", "heard"}
  /\ check' = [check EXCEPT ![c] = NoCheck]
  /\ UNCHANGED <<granted, time, cache, lastTrue, lastFalse>>

EndCheck(c) ==
  /\ check[c].at = "returned"
  /\ check' = [check EXCEPT ![c] = NoCheck]
  /\ UNCHANGED <<granted, time, cache, lastTrue, lastFalse>>

Moment(last, questions) ==
  [question \in Questions |-> IF question \in questions THEN time' ELSE last[question]]

AssignRoles ==
  /\ \E questions \in SUBSET Questions : granted' = questions
  /\ time' = time
  /\ lastTrue' = Moment(lastTrue, granted')
  /\ lastFalse' = Moment(lastFalse, Questions \ granted')
  /\ UNCHANGED <<cache, check>>

(* Time passes, but no query takes longer than its timeout, and an answer  *)
(* is used in the moment it is returned.                                   *)
TimePasses ==
  /\ time < MaxTime
  /\ \A c \in Checks :
       /\ check[c].at \in {"query", "heard"} => time < check[c].since + Latency
       /\ check[c].at # "returned"
  /\ time' = time + 1
  /\ lastTrue' = Moment(lastTrue, granted)
  /\ lastFalse' = Moment(lastFalse, Questions \ granted)
  /\ UNCHANGED <<granted, cache, check>>

-----------------------------------------------------------------------------
PermissionsInit ==
  /\ granted \in SUBSET Questions
  /\ time = 1
  /\ cache = [question \in Questions |-> NoEntry]
  /\ check = [c \in Checks |-> NoCheck]
  /\ lastTrue = [question \in Questions |-> IF question \in granted THEN 1 ELSE 0]
  /\ lastFalse = [question \in Questions |-> IF question \in granted THEN 0 ELSE 1]

PermissionsNext ==
  \/ \E c \in Checks :
       Ask(c) \/ Evaluate(c) \/ Remember(c) \/ CheckCancelled(c) \/ EndCheck(c)
  \/ AssignRoles \/ TimePasses

PermissionsSpec == PermissionsInit /\ [][PermissionsNext]_permissionVars

-----------------------------------------------------------------------------
PermissionsTypeOK ==
  /\ granted \subseteq Questions
  /\ time \in 1..MaxTime
  /\ \A question \in Questions :
       /\ cache[question].value \in BOOLEAN
       /\ cache[question].expiresAt \in 0..(MaxTime + Ttl)
  /\ \A c \in Checks : check[c].at \in {"idle", "query", "heard", "returned"}

(* An answer is never older than the time to live and one query together:  *)
(* a permission that was withdrawn is not relied on for longer, and one    *)
(* that was granted is not denied for longer, although concurrent misses   *)
(* overwrite each other's entries in any order (hasEffectivePermission).   *)
AnswersAreRecent ==
  \A c \in Checks :
    check[c].at = "returned" =>
      LET last == IF check[c].answer THEN lastTrue ELSE lastFalse
      IN time <= last[check[c].of] + Ttl + Latency
=============================================================================
