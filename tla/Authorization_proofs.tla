------------------------ MODULE Authorization_proofs -------------------------
(***************************************************************************)
(* Theorems about Permissions, for every number of questions and calls,    *)
(* every time to live and every latency, and about ScopePolicy, for every  *)
(* set of subscriptions and groups, every configuration and every template. *)
(***************************************************************************)
EXTENDS Permissions, ScopePolicy, TLAPS

(* The cache of permissions.                                               *)

Checking ==
  {NoCheck}
  \cup [at : {"query"}, of : Questions, since : Nat]
  \cup [at : {"heard"}, of : Questions, since : Nat, answer : BOOLEAN]
  \cup [at : {"returned"}, of : Questions, answer : BOOLEAN]

PermissionsTyped ==
  /\ granted \subseteq Questions
  /\ time \in Nat
  /\ cache \in [Questions -> [value : BOOLEAN, expiresAt : Nat]]
  /\ check \in [Checks -> Checking]
  /\ lastTrue \in [Questions -> Nat]
  /\ lastFalse \in [Questions -> Nat]

(* When a question last had an answer.                                     *)
TrueUntil(answer, question) == IF answer THEN lastTrue[question] ELSE lastFalse[question]

(* What Azure's assignments answer now is what they last answered.         *)
HistoryInv ==
  \A question \in Questions :
    /\ lastTrue[question] <= time /\ lastFalse[question] <= time
    /\ question \in granted => lastTrue[question] = time
    /\ question \notin granted => lastFalse[question] = time

(* An entry expires within one query and one time to live of the moment in *)
(* which its value was true, whichever call wrote it.                      *)
CacheInv ==
  \A question \in Questions :
    cache[question].expiresAt <= TrueUntil(cache[question].value, question) + Ttl + Latency

CheckInv(c) ==
  LET d == check[c] IN
  /\ d.at \in {"query", "heard"} => d.since <= time /\ time <= d.since + Latency
  /\ d.at = "heard" => d.since <= TrueUntil(d.answer, d.of)
  /\ d.at = "returned" => time <= TrueUntil(d.answer, d.of) + Ttl + Latency

PermissionsInv == PermissionsTyped /\ HistoryInv /\ CacheInv /\ \A c \in Checks : CheckInv(c)

(* The fields of a call, by its place.                                     *)
LEMMA CheckFields ==
  ASSUME NEW d \in Checking
  PROVE  /\ d.at \in {"idle", "query", "heard", "returned"}
         /\ d.at # "idle" => d.of \in Questions
         /\ d.at \in {"query", "heard"} => d.since \in Nat
         /\ d.at \in {"heard", "returned"} => d.answer \in BOOLEAN
  BY DEF Checking, NoCheck

LEMMA LastIsNat ==
  ASSUME PermissionsTyped, NEW answer \in BOOLEAN, NEW question \in Questions
  PROVE  TrueUntil(answer, question) \in Nat
  BY DEF PermissionsTyped, TrueUntil

LEMMA PermissionsInitially == PermissionsInit => PermissionsInv
<1>1. SUFFICES ASSUME PermissionsInit PROVE PermissionsInv
  OBVIOUS
<1>2. PermissionsTyped /\ HistoryInv
  BY <1>1 DEF PermissionsInit, PermissionsTyped, HistoryInv, Checking, NoEntry
<1>3. CacheInv
  <2>1. ASSUME NEW question \in Questions
        PROVE  cache[question].expiresAt = 0 /\ cache[question].value \in BOOLEAN
    BY <1>1 DEF PermissionsInit, NoEntry
  <2>. QED
    BY <1>2, <2>1, LastIsNat, PermissionsAssumption DEF CacheInv
<1>4. \A c \in Checks : CheckInv(c)
  BY <1>1 DEF PermissionsInit, CheckInv, NoCheck
<1>. QED
  BY <1>2, <1>3, <1>4 DEF PermissionsInv

(* What moves one call, and perhaps fills the cache, without time passing. *)
LEMMA OneCheckMoves ==
  ASSUME PermissionsInv, NEW c \in Checks, NEW next \in Checking,
         check' = [check EXCEPT ![c] = next],
         UNCHANGED <<granted, time, lastTrue>>, PermissionsTyped', HistoryInv',
         \A question \in Questions : lastFalse'[question] >= lastFalse[question],
         CacheInv', CheckInv(c)'
  PROVE  PermissionsInv'
<1>1. ASSUME NEW other \in Checks \ {c} PROVE CheckInv(other)'
  <2>1. check'[other] = check[other] /\ check[other] \in Checking /\ CheckInv(other)
    BY DEF PermissionsInv, PermissionsTyped
  <2>2. ASSUME NEW answer \in BOOLEAN, NEW question \in Questions
        PROVE  /\ TrueUntil(answer, question)' >= TrueUntil(answer, question)
               /\ TrueUntil(answer, question) \in Nat /\ TrueUntil(answer, question)' \in Nat
    BY DEF PermissionsInv, PermissionsTyped, TrueUntil
  <2>3. Ttl \in Nat /\ Latency \in Nat /\ time \in Nat /\ time' = time
    BY PermissionsAssumption DEF PermissionsInv, PermissionsTyped
  <2>4. CASE check[other].at = "heard"
    <3>1. check[other].since \in Nat /\ check[other].of \in Questions /\ check[other].answer \in BOOLEAN
      BY <2>1, <2>4, CheckFields
    <3>. QED
      BY <2>1, <2>2, <2>3, <2>4, <3>1 DEF CheckInv
  <2>5. CASE check[other].at = "returned"
    <3>1. check[other].of \in Questions /\ check[other].answer \in BOOLEAN
      BY <2>1, <2>5, CheckFields
    <3>. QED
      BY <2>1, <2>2, <2>3, <2>5, <3>1 DEF CheckInv
  <2>6. CASE check[other].at \notin {"heard", "returned"}
    BY <2>1, <2>3, <2>6 DEF CheckInv
  <2>. QED
    BY <2>4, <2>5, <2>6
<1>. QED
  BY <1>1 DEF PermissionsInv

(* What changes the moments at which the questions last had an answer.     *)
LEMMA MomentsMove ==
  ASSUME PermissionsInv, granted' \subseteq Questions, time' \in Nat, time <= time',
         lastTrue' = Moment(lastTrue, granted'),
         lastFalse' = Moment(lastFalse, Questions \ granted'),
         UNCHANGED <<cache, check>>,
         \A c \in Checks : check[c].at \in {"query", "heard"} => time' <= check[c].since + Latency,
         \A c \in Checks : check[c].at = "returned" => time' = time
  PROVE  PermissionsInv'
<1>1. /\ PermissionsTyped /\ time \in Nat /\ Ttl \in Nat /\ Latency \in Nat
      /\ lastTrue \in [Questions -> Nat] /\ lastFalse \in [Questions -> Nat]
  BY PermissionsAssumption DEF PermissionsInv, PermissionsTyped
<1>2. PermissionsTyped'
  BY <1>1 DEF PermissionsTyped, Moment
<1>3. HistoryInv'
  BY <1>1 DEF PermissionsInv, HistoryInv, Moment
<1>4. ASSUME NEW answer \in BOOLEAN, NEW question \in Questions
      PROVE  /\ TrueUntil(answer, question)' >= TrueUntil(answer, question)
             /\ TrueUntil(answer, question) \in Nat /\ TrueUntil(answer, question)' \in Nat
  <2>1. /\ lastTrue[question] <= time /\ lastFalse[question] <= time
        /\ lastTrue[question] \in Nat /\ lastFalse[question] \in Nat
    BY <1>1 DEF PermissionsInv, HistoryInv
  <2>2. /\ lastTrue'[question] >= lastTrue[question] /\ lastFalse'[question] >= lastFalse[question]
        /\ lastTrue'[question] \in Nat /\ lastFalse'[question] \in Nat
    BY <1>1, <2>1 DEF Moment
  <2>. QED
    BY <2>1, <2>2 DEF TrueUntil
<1>5. CacheInv'
  <2>1. ASSUME NEW question \in Questions
        PROVE  cache[question].value \in BOOLEAN /\ cache[question].expiresAt \in Nat
    BY <1>1 DEF PermissionsTyped
  <2>. QED
    BY <1>1, <1>4, <2>1 DEF PermissionsInv, CacheInv
<1>6. ASSUME NEW c \in Checks PROVE CheckInv(c)'
  <2>1. check'[c] = check[c] /\ check[c] \in Checking /\ CheckInv(c)
    BY <1>1, <1>6 DEF PermissionsInv, PermissionsTyped
  <2>2. CASE check[c].at = "query"
    <3>1. check[c].since \in Nat
      BY <2>1, <2>2, CheckFields
    <3>. QED
      BY <1>1, <2>1, <2>2, <3>1 DEF CheckInv
  <2>3. CASE check[c].at = "heard"
    <3>1. check[c].since \in Nat /\ check[c].of \in Questions /\ check[c].answer \in BOOLEAN
      BY <2>1, <2>3, CheckFields
    <3>2. TrueUntil(check[c].answer, check[c].of)' >= TrueUntil(check[c].answer, check[c].of)
            /\ TrueUntil(check[c].answer, check[c].of) \in Nat /\ TrueUntil(check[c].answer, check[c].of)' \in Nat
      BY <1>4, <3>1
    <3>. QED
      BY <1>1, <2>1, <2>3, <3>1, <3>2 DEF CheckInv
  <2>4. CASE check[c].at = "returned"
    <3>1. check[c].of \in Questions /\ check[c].answer \in BOOLEAN
      BY <2>1, <2>4, CheckFields
    <3>2. TrueUntil(check[c].answer, check[c].of)' >= TrueUntil(check[c].answer, check[c].of)
            /\ TrueUntil(check[c].answer, check[c].of) \in Nat /\ TrueUntil(check[c].answer, check[c].of)' \in Nat
      BY <1>4, <3>1
    <3>. QED
      BY <1>1, <2>1, <2>4, <3>1, <3>2 DEF CheckInv
  <2>5. CASE check[c].at \notin {"query", "heard", "returned"}
    BY <2>1, <2>5 DEF CheckInv
  <2>. QED
    BY <2>2, <2>3, <2>4, <2>5
<1>. QED
  BY <1>2, <1>3, <1>5, <1>6 DEF PermissionsInv

LEMMA PermissionsPreserved == PermissionsInv /\ [PermissionsNext]_permissionVars => PermissionsInv'
<1>1. SUFFICES ASSUME PermissionsInv, [PermissionsNext]_permissionVars PROVE PermissionsInv'
  OBVIOUS
<1>2. /\ PermissionsTyped /\ HistoryInv /\ CacheInv
      /\ time \in Nat /\ Ttl \in Nat /\ Latency \in Nat
  BY <1>1, PermissionsAssumption DEF PermissionsInv, PermissionsTyped
<1>3. CASE UNCHANGED permissionVars
  BY <1>1, <1>3 DEF PermissionsInv, PermissionsTyped, HistoryInv, CacheInv, CheckInv, TrueUntil, permissionVars
<1>4. CASE AssignRoles
  <2>1. \A c \in Checks : check[c].at \in {"query", "heard"} => time <= check[c].since + Latency
    BY <1>1 DEF PermissionsInv, CheckInv
  <2>2. granted' \subseteq Questions /\ time' = time
    BY <1>4 DEF AssignRoles
  <2>. QED
    BY <1>1, <1>2, <1>4, <2>1, <2>2, MomentsMove DEF AssignRoles
<1>5. CASE TimePasses
  <2>1. ASSUME NEW c \in Checks, check[c].at \in {"query", "heard"}
        PROVE  time' <= check[c].since + Latency
    <3>1. check[c].since \in Nat
      BY <1>2, <2>1, CheckFields DEF PermissionsTyped
    <3>. QED
      BY <1>2, <1>5, <2>1, <3>1 DEF TimePasses
  <2>2. granted' = granted /\ granted \subseteq Questions /\ time' \in Nat /\ time <= time'
    BY <1>2, <1>5 DEF TimePasses, PermissionsTyped
  <2>. QED
    BY <1>1, <1>5, <2>1, <2>2, MomentsMove DEF TimePasses
<1>6. ASSUME NEW c \in Checks,
             Ask(c) \/ Evaluate(c) \/ Remember(c) \/ CheckCancelled(c) \/ EndCheck(c)
      PROVE  PermissionsInv'
  <2>. DEFINE d == check[c]
  <2>1. d \in Checking /\ CheckInv(c)
    BY <1>1 DEF PermissionsInv, PermissionsTyped
  <2>2. CASE CheckCancelled(c) \/ EndCheck(c)
    <3>1. /\ check' = [check EXCEPT ![c] = NoCheck] /\ NoCheck \in Checking
          /\ UNCHANGED <<granted, time, cache, lastTrue, lastFalse>>
      BY <2>2 DEF CheckCancelled, EndCheck, Checking
    <3>2. check'[c].at = "idle" /\ PermissionsTyped' /\ HistoryInv' /\ CacheInv'
      BY <1>2, <3>1 DEF PermissionsTyped, HistoryInv, CacheInv, TrueUntil, NoCheck
    <3>3. CheckInv(c)' /\ \A question \in Questions : lastFalse'[question] >= lastFalse[question]
      BY <1>2, <3>1, <3>2 DEF CheckInv, PermissionsTyped
    <3>. QED
      BY <1>1, <3>1, <3>2, <3>3, OneCheckMoves
  <2>3. CASE Ask(c)
    <3>1. PICK question \in Questions :
            IF cache[question].expiresAt > time
            THEN Returns(c, question, cache[question].value)
            ELSE check' = [check EXCEPT ![c] = [at |-> "query", of |-> question, since |-> time]]
      BY <2>3 DEF Ask
    <3>. DEFINE value == cache[question].value
    <3>2. value \in BOOLEAN /\ cache[question].expiresAt \in Nat
      BY <1>2 DEF PermissionsTyped
    <3>3. UNCHANGED <<granted, time, cache, lastTrue, lastFalse>>
      BY <2>3 DEF Ask
    <3>4. HistoryInv' /\ CacheInv' /\ \A q \in Questions : lastFalse'[q] >= lastFalse[q]
      BY <1>2, <3>3 DEF PermissionsTyped, HistoryInv, CacheInv, TrueUntil
    <3>5. CASE cache[question].expiresAt > time
      <4>. DEFINE next == [at |-> "returned", of |-> question, answer |-> value]
      <4>1. next \in Checking /\ check' = [check EXCEPT ![c] = next]
        BY <3>1, <3>2, <3>5 DEF Returns, Checking
      <4>2. PermissionsTyped' /\ check'[c] = next
        BY <1>2, <3>3, <4>1 DEF PermissionsTyped
      <4>3. time <= TrueUntil(value, question) + Ttl + Latency
        <5>1. TrueUntil(value, question) \in Nat
          BY <1>2, <3>2, LastIsNat
        <5>. QED
          BY <1>2, <3>2, <3>5, <5>1 DEF CacheInv
      <4>4. CheckInv(c)'
        BY <3>3, <4>2, <4>3 DEF CheckInv, TrueUntil
      <4>. QED
        BY <1>1, <3>3, <3>4, <4>1, <4>2, <4>4, OneCheckMoves
    <3>6. CASE ~(cache[question].expiresAt > time)
      <4>. DEFINE next == [at |-> "query", of |-> question, since |-> time]
      <4>1. next \in Checking /\ check' = [check EXCEPT ![c] = next]
        BY <1>2, <3>1, <3>6 DEF Checking
      <4>2. PermissionsTyped' /\ check'[c] = next
        BY <1>2, <3>3, <4>1 DEF PermissionsTyped
      <4>3. CheckInv(c)'
        BY <1>2, <3>3, <4>2 DEF CheckInv
      <4>. QED
        BY <1>1, <3>3, <3>4, <4>1, <4>2, <4>3, OneCheckMoves
    <3>. QED
      BY <3>5, <3>6
  <2>4. CASE Evaluate(c)
    <3>1. d.at = "query" /\ d.of \in Questions /\ d.since \in Nat
      BY <2>1, <2>4, CheckFields DEF Evaluate
    <3>2. PICK answered \in BOOLEAN :
            /\ check' = [check EXCEPT ![c] = [at |-> "heard", of |-> d.of, since |-> d.since,
                                              answer |-> answered /\ d.of \in granted]]
            /\ lastFalse' = IF answered THEN lastFalse ELSE [lastFalse EXCEPT ![d.of] = time]
      BY <2>4 DEF Evaluate
    <3>. DEFINE answer == answered /\ d.of \in granted
                next == [at |-> "heard", of |-> d.of, since |-> d.since, answer |-> answer]
    <3>3. next \in Checking /\ UNCHANGED <<granted, time, cache, lastTrue>>
      BY <2>4, <3>1 DEF Evaluate, Checking
    <3>4. PermissionsTyped' /\ check'[c] = next
      BY <1>2, <3>1, <3>2, <3>3 DEF PermissionsTyped
    <3>5. /\ HistoryInv'
          /\ \A q \in Questions : lastFalse'[q] >= lastFalse[q]
      BY <1>2, <3>1, <3>2, <3>3 DEF PermissionsTyped, HistoryInv
    <3>6. CacheInv'
      <4>1. ASSUME NEW q \in Questions PROVE cache[q].value \in BOOLEAN /\ cache[q].expiresAt \in Nat
        BY <1>2 DEF PermissionsTyped
      <4>2. ASSUME NEW q \in Questions, NEW a \in BOOLEAN
            PROVE  TrueUntil(a, q)' >= TrueUntil(a, q) /\ TrueUntil(a, q) \in Nat /\ TrueUntil(a, q)' \in Nat
        BY <1>2, <3>3, <3>4, <3>5 DEF TrueUntil, PermissionsTyped
      <4>. QED
        BY <1>2, <3>3, <4>1, <4>2 DEF CacheInv
    <3>7. PICK question \in Questions, said \in BOOLEAN : question = d.of /\ said = answer
      BY <3>1
    <3>10. TrueUntil(said, question)' = time
      <4>1. CASE said
        <5>1. question \in granted /\ lastTrue' = lastTrue
          BY <3>3, <3>7, <4>1
        <5>. QED
          BY <1>2, <4>1, <5>1 DEF TrueUntil, HistoryInv
      <4>2. CASE ~said
        <5>1. lastFalse'[question] = time
          <6>1. CASE answered
            <7>1. question \notin granted /\ lastFalse' = lastFalse
              BY <3>2, <3>7, <4>2, <6>1
            <7>. QED
              BY <1>2, <7>1 DEF HistoryInv
          <6>2. CASE ~answered
            BY <1>2, <3>2, <3>7, <6>2 DEF PermissionsTyped
          <6>. QED
            BY <6>1, <6>2
        <5>. QED
          BY <4>2, <5>1 DEF TrueUntil
      <4>. QED
        BY <4>1, <4>2
    <3>8. d.since <= time /\ time <= d.since + Latency
      BY <2>1, <3>1 DEF CheckInv
    <3>9. CheckInv(c)'
      <4>1. check'[c] = [at |-> "heard", of |-> question, since |-> d.since, answer |-> said]
        BY <3>4, <3>7
      <4>. HIDE DEF d
      <4>. QED
        BY <1>2, <3>1, <3>3, <3>8, <3>10, <4>1 DEF CheckInv
    <3>. QED
      BY <1>1, <3>2, <3>3, <3>4, <3>5, <3>6, <3>9, OneCheckMoves
  <2>5. CASE Remember(c)
    <3>1. d.at = "heard" /\ d.of \in Questions /\ d.since \in Nat /\ d.answer \in BOOLEAN
      BY <2>1, <2>5, CheckFields DEF Remember
    <3>. DEFINE next == [at |-> "returned", of |-> d.of, answer |-> d.answer]
                entry == [value |-> d.answer, expiresAt |-> time + Ttl]
    <3>2. /\ check' = [check EXCEPT ![c] = next] /\ cache' = [cache EXCEPT ![d.of] = entry]
          /\ UNCHANGED <<granted, time, lastTrue, lastFalse>> /\ next \in Checking
      BY <2>5, <3>1 DEF Remember, Returns, Checking
    <3>3. PermissionsTyped' /\ check'[c] = next
      BY <1>2, <3>1, <3>2 DEF PermissionsTyped
    <3>4. TrueUntil(d.answer, d.of) \in Nat /\ time <= TrueUntil(d.answer, d.of) + Latency
      <4>1. TrueUntil(d.answer, d.of) \in Nat
        BY <1>2, <3>1, LastIsNat
      <4>. QED
        BY <1>2, <2>1, <3>1, <4>1 DEF CheckInv
    <3>5. CacheInv'
      <4>1. ASSUME NEW q \in Questions \ {d.of} PROVE cache'[q] = cache[q]
        BY <1>2, <3>2 DEF PermissionsTyped
      <4>2. cache'[d.of] = entry
        BY <1>2, <3>1, <3>2 DEF PermissionsTyped
      <4>3. \A q \in Questions, a \in BOOLEAN : TrueUntil(a, q)' = TrueUntil(a, q)
        BY <3>2 DEF TrueUntil
      <4>4. ASSUME NEW q \in Questions PROVE cache[q].value \in BOOLEAN
        BY <1>2 DEF PermissionsTyped
      <4>. QED
        BY <1>2, <3>1, <3>4, <4>1, <4>2, <4>3, <4>4 DEF CacheInv
    <3>6. CheckInv(c)' /\ HistoryInv' /\ \A q \in Questions : lastFalse'[q] >= lastFalse[q]
      BY <1>2, <3>1, <3>2, <3>3, <3>4 DEF CheckInv, HistoryInv, PermissionsTyped, TrueUntil
    <3>. QED
      BY <1>1, <3>2, <3>3, <3>5, <3>6, OneCheckMoves
  <2>. QED
    BY <1>6, <2>2, <2>3, <2>4, <2>5
<1>. QED
  BY <1>1, <1>3, <1>4, <1>5, <1>6 DEF PermissionsNext

(* The invariant of the cache: an entry expires within one query and one   *)
(* time to live of a moment in which its value was true                    *)
(* (hasEffectivePermission).                                               *)
THEOREM PermissionsInvariant == PermissionsSpec => []PermissionsInv
  BY PermissionsInitially, PermissionsPreserved, PTL DEF PermissionsSpec

(* No answer is older than one time to live and one query, for every       *)
(* interleaving of concurrent misses (hasEffectivePermission).             *)
THEOREM NoStaleAnswer == PermissionsSpec => []AnswersAreRecent
<1>1. PermissionsInv => AnswersAreRecent
  <2>1. SUFFICES ASSUME PermissionsInv, NEW c \in Checks, check[c].at = "returned"
                 PROVE  time <= (IF check[c].answer THEN lastTrue ELSE lastFalse)[check[c].of] + Ttl + Latency
    BY DEF AnswersAreRecent
  <2>2. (IF check[c].answer THEN lastTrue ELSE lastFalse)[check[c].of] = TrueUntil(check[c].answer, check[c].of)
    BY DEF TrueUntil
  <2>. QED
    BY <2>1, <2>2 DEF PermissionsInv, CheckInv
<1>. QED
  BY <1>1, PermissionsInvariant, PTL

(* The bounds of the clock and of what is cached.                          *)
PermissionsBounded ==
  /\ time \in 1..MaxTime
  /\ \A question \in Questions : cache[question].expiresAt <= MaxTime + Ttl

LEMMA BoundsPreserved ==
  ASSUME PermissionsInv, PermissionsBounded, [PermissionsNext]_permissionVars
  PROVE  PermissionsBounded'
<1>1. /\ time \in 1..MaxTime /\ Ttl \in Nat /\ MaxTime \in Nat
      /\ cache \in [Questions -> [value : BOOLEAN, expiresAt : Nat]]
      /\ \A question \in Questions : cache[question].expiresAt <= MaxTime + Ttl
  BY PermissionsAssumption DEF PermissionsInv, PermissionsTyped, PermissionsBounded
<1>2. CASE UNCHANGED <<time, cache>>
  BY <1>1, <1>2 DEF PermissionsBounded
<1>3. CASE TimePasses
  BY <1>1, <1>3 DEF PermissionsBounded, TimePasses
<1>4. ASSUME NEW c \in Checks, Remember(c) PROVE PermissionsBounded'
  <2>1. PICK of, answer : cache' = [cache EXCEPT ![of] = [value |-> answer, expiresAt |-> time + Ttl]]
    BY <1>4 DEF Remember
  <2>2. time' = time
    BY <1>4 DEF Remember
  <2>3. ASSUME NEW question \in Questions PROVE cache'[question].expiresAt <= MaxTime + Ttl
    <3>1. cache'[question] = IF question = of THEN [value |-> answer, expiresAt |-> time + Ttl]
                             ELSE cache[question]
      BY <1>1, <2>1
    <3>. QED
      BY <1>1, <3>1
  <2>. QED
    BY <1>1, <2>2, <2>3 DEF PermissionsBounded
<1>5. ASSUME NEW c \in Checks, Ask(c) \/ Evaluate(c) \/ CheckCancelled(c) \/ EndCheck(c)
      PROVE  UNCHANGED <<time, cache>>
  BY <1>5 DEF Ask, Evaluate, CheckCancelled, EndCheck
<1>6. ASSUME AssignRoles PROVE UNCHANGED <<time, cache>>
  BY <1>6 DEF AssignRoles
<1>7. ASSUME UNCHANGED permissionVars PROVE UNCHANGED <<time, cache>>
  BY <1>7 DEF permissionVars
<1>. QED
  BY <1>2, <1>3, <1>4, <1>5, <1>6, <1>7 DEF PermissionsNext

(* The type invariant of the cache and its calls.                          *)
THEOREM PermissionsAreTyped == PermissionsSpec => []PermissionsTypeOK
<1>1. PermissionsInit => PermissionsBounded
  BY PermissionsAssumption DEF PermissionsInit, PermissionsBounded, NoEntry
<1>2. PermissionsInv /\ PermissionsBounded => PermissionsTypeOK
  <2>1. SUFFICES ASSUME PermissionsInv, PermissionsBounded PROVE PermissionsTypeOK
    OBVIOUS
  <2>2. granted \subseteq Questions /\ time \in 1..MaxTime
    BY <2>1 DEF PermissionsInv, PermissionsTyped, PermissionsBounded
  <2>3. ASSUME NEW question \in Questions
        PROVE  cache[question].value \in BOOLEAN /\ cache[question].expiresAt \in 0..(MaxTime + Ttl)
    BY <2>1, PermissionsAssumption DEF PermissionsInv, PermissionsTyped, PermissionsBounded
  <2>4. \A c \in Checks : check[c].at \in {"idle", "query", "heard", "returned"}
    BY <2>1, CheckFields DEF PermissionsInv, PermissionsTyped
  <2>. QED
    BY <2>2, <2>3, <2>4 DEF PermissionsTypeOK
<1>. QED
  BY <1>1, <1>2, PermissionsInvariant, BoundsPreserved, PTL DEF PermissionsSpec

-----------------------------------------------------------------------------
(* The boundary.                                                           *)

(* A place within which a template may do as it likes: everything that it  *)
(* reaches is open.                                                        *)
AllOpen(c, place) == \A p \in Reach(place) : Open(c, p)

(* Above a place there are only wider ones.                                *)
LEMMA AboveGroup ==
  ASSUME NEW s, NEW g, NEW p \in Places, ResourceGroup(s, g) \in Above(p)
  PROVE  p = ResourceGroup(s, g)
  BY DEF Above, Places, ResourceGroup, Subscription, ManagementGroup, Tenant

LEMMA AboveSubscription ==
  ASSUME NEW s, NEW p \in Places, Subscription(s) \in Above(p)
  PROVE  p.kind \in {"subscription", "resourceGroup"} /\ p.subscription = s
  BY DEF Above, Places, ResourceGroup, Subscription, ManagementGroup, Tenant

(* The three ways in which the configuration opens a place.                *)
LEMMA GroupIsOpen ==
  ASSUME NEW c, NEW s, NEW g, requireAllowedSubscription(c, s), assertResourceGroupAllowed(c, g)
  PROVE  AllOpen(c, ResourceGroup(s, g))
<1>1. SUFFICES ASSUME NEW p \in Places, ResourceGroup(s, g) \in Above(p) PROVE Open(c, p)
  BY DEF AllOpen, Reach
<1>2. p = ResourceGroup(s, g)
  BY <1>1, AboveGroup
<1>3. p.kind = "resourceGroup" /\ p.subscription = s /\ p.group = g
  BY <1>2 DEF ResourceGroup
<1>. QED
  BY <1>3 DEF Open, requireAllowedSubscription, assertResourceGroupAllowed

LEMMA SubscriptionIsOpen ==
  ASSUME NEW c, NEW s, requireAllowedSubscription(c, s), c.groups = {}
  PROVE  AllOpen(c, Subscription(s))
<1>1. SUFFICES ASSUME NEW p \in Places, Subscription(s) \in Above(p) PROVE Open(c, p)
  BY DEF AllOpen, Reach
<1>. QED
  BY <1>1, AboveSubscription DEF Open, requireAllowedSubscription

LEMMA ManagementGroupIsOpen ==
  ASSUME NEW c, NEW m, m \in c.managementGroups
  PROVE  AllOpen(c, ManagementGroup(m))
  BY DEF AllOpen, Reach, Open

(* An accepted scope is open, and one with a subscription has one that is  *)
(* allowed.                                                                *)
LEMMA AcceptedScopeIsOpen ==
  ASSUME NEW c, NEW input \in Inputs, resolveDeploymentScope(c, input)
  PROVE  /\ AllOpen(c, PlaceOf(input))
         /\ PlaceOf(input).kind \in {"subscription", "resourceGroup"} =>
              requireAllowedSubscription(c, PlaceOf(input).subscription)
<1>1. input.kind \in {"resourceGroup", "subscription", "managementGroup", "tenant"}
  BY DEF Inputs
<1>2. CASE input.kind = "resourceGroup"
  <2>1. /\ requireAllowedSubscription(c, input.subscription)
        /\ assertResourceGroupAllowed(c, input.group)
    BY <1>2 DEF resolveDeploymentScope
  <2>2. PlaceOf(input) = ResourceGroup(input.subscription, input.group)
    BY <1>2 DEF PlaceOf
  <2>3. PlaceOf(input).subscription = input.subscription
    BY <2>2 DEF ResourceGroup
  <2>. QED
    BY <2>1, <2>2, <2>3, GroupIsOpen
<1>3. CASE input.kind = "subscription"
  <2>1. requireAllowedSubscription(c, input.subscription) /\ c.groups = {}
    BY <1>3 DEF resolveDeploymentScope
  <2>2. PlaceOf(input) = Subscription(input.subscription)
    BY <1>3 DEF PlaceOf
  <2>3. PlaceOf(input).subscription = input.subscription
    BY <2>2 DEF Subscription
  <2>. QED
    BY <2>1, <2>2, <2>3, SubscriptionIsOpen
<1>4. CASE input.kind = "managementGroup"
  <2>1. input.group \in c.managementGroups
    BY <1>4 DEF resolveDeploymentScope
  <2>2. PlaceOf(input) = ManagementGroup(input.group)
    BY <1>4 DEF PlaceOf
  <2>3. PlaceOf(input).kind = "managementGroup"
    BY <2>2 DEF ManagementGroup
  <2>. QED
    BY <2>1, <2>2, <2>3, ManagementGroupIsOpen
<1>5. CASE input.kind = "tenant"
  <2>1. c.tenantDeployments
    BY <1>5 DEF resolveDeploymentScope
  <2>2. PlaceOf(input).kind = "tenant"
    BY <1>5 DEF PlaceOf, Tenant
  <2>. QED
    BY <2>1, <2>2 DEF AllOpen, Open
<1>. QED
  BY <1>1, <1>2, <1>3, <1>4, <1>5

(* So is whatever place an accepted nested deployment names.               *)
LEMMA AcceptedTargetIsOpen ==
  ASSUME NEW c, NEW place,
         place.kind \in {"subscription", "resourceGroup"} =>
           requireAllowedSubscription(c, place.subscription),
         NEW target \in Targets, assertCrossScopeTargetsAllowed(c, target),
         NEW at \in TargetPlaces(place, target)
  PROVE  AllOpen(c, at)
<1>. DEFINE subscription == IF target.subscription # Missing THEN target.subscription
                            ELSE IF place.kind \in {"subscription", "resourceGroup"}
                            THEN place.subscription ELSE Missing
<1>1. \/ target.managementGroup # Missing /\ at = ManagementGroup(target.managementGroup)
      \/ /\ target.group # Missing /\ subscription # Missing
         /\ at = ResourceGroup(subscription, target.group)
      \/ /\ target.subscription # Missing /\ target.group = Missing
         /\ at = Subscription(target.subscription)
  BY DEF TargetPlaces
<1>2. CASE target.managementGroup # Missing /\ at = ManagementGroup(target.managementGroup)
  BY <1>2, ManagementGroupIsOpen DEF assertCrossScopeTargetsAllowed
<1>3. CASE /\ target.group # Missing /\ subscription # Missing
           /\ at = ResourceGroup(subscription, target.group)
  <2>1. requireAllowedSubscription(c, subscription) /\ assertResourceGroupAllowed(c, target.group)
    BY <1>3 DEF assertCrossScopeTargetsAllowed
  <2>. QED
    BY <1>3, <2>1, GroupIsOpen
<1>4. CASE /\ target.subscription # Missing /\ target.group = Missing
           /\ at = Subscription(target.subscription)
  <2>1. requireAllowedSubscription(c, target.subscription) /\ c.groups = {}
    BY <1>4 DEF assertCrossScopeTargetsAllowed
  <2>. QED
    BY <1>4, <2>1, SubscriptionIsOpen
<1>. QED
  BY <1>1, <1>2, <1>3, <1>4

(* Whatever the configuration, no accepted scope and no accepted target of *)
(* a nested deployment reaches anything outside of what it opens           *)
(* (resolveDeploymentScope, assertCrossScopeTargetsAllowed).               *)
THEOREM BoundaryHolds == ScopeInit /\ [][ScopeNext]_scopeVars => []DeploysInsideBoundary
<1>1. DeploysInsideBoundary
  <2>1. SUFFICES ASSUME NEW input \in Inputs, resolveDeploymentScope(config, input)
                 PROVE  /\ AllOpen(config, PlaceOf(input))
                        /\ \A target \in Targets : assertCrossScopeTargetsAllowed(config, target) =>
                             \A at \in TargetPlaces(PlaceOf(input), target) : AllOpen(config, at)
    BY DEF DeploysInsideBoundary, AllOpen
  <2>2. /\ AllOpen(config, PlaceOf(input))
        /\ PlaceOf(input).kind \in {"subscription", "resourceGroup"} =>
             requireAllowedSubscription(config, PlaceOf(input).subscription)
    BY <2>1, AcceptedScopeIsOpen
  <2>. QED
    BY <2>2, AcceptedTargetIsOpen
<1>. QED
  BY <1>1, PTL

-----------------------------------------------------------------------------
(* The claims.                                                             *)

(* A place that the permissions are asked of is one that the guardrails    *)
(* accept a deployment to.                                                 *)
LEMMA InputOf ==
  ASSUME NEW kind \in {"resourceGroup", "subscription", "managementGroup", "tenant"},
         NEW s \in Subscriptions \cup {Missing},
         NEW g \in Groups \cup ManagementGroups \cup {Missing}
  PROVE  [kind |-> kind, subscription |-> s, group |-> g, location |-> "region"] \in Inputs
  BY DEF Inputs

LEMMA OperationScopeIsAccepted ==
  ASSUME NEW c \in Environments, NEW subscriptions, subscriptions \subseteq c.subscriptions,
         NEW place \in operationScopes(c, subscriptions)
  PROVE  \E input \in Inputs :
           /\ resolveDeploymentScope(c, input) /\ PlaceOf(input) = place
           /\ input.kind \in {"subscription", "resourceGroup"}
           /\ input.subscription \in subscriptions
<1>1. subscriptions \subseteq Subscriptions
  BY ScopeAssumption
<1>2. CASE c.groups = {}
  <2>1. PICK s \in subscriptions : place = Subscription(s)
    BY <1>2 DEF operationScopes
  <2>. DEFINE input == [kind |-> "subscription", subscription |-> s, group |-> Missing,
                        location |-> "region"]
  <2>2. input \in Inputs
    BY <1>1, InputOf
  <2>3. resolveDeploymentScope(c, input)
    BY <1>2 DEF resolveDeploymentScope, requireAllowedSubscription, Missing
  <2>4. PlaceOf(input) = place
    BY <2>1 DEF PlaceOf
  <2>. QED
    BY <2>2, <2>3, <2>4
<1>3. CASE c.groups # {}
  <2>1. PICK s \in subscriptions, g \in c.groups : place = ResourceGroup(s, g)
    BY <1>3 DEF operationScopes
  <2>. DEFINE input == [kind |-> "resourceGroup", subscription |-> s, group |-> g,
                        location |-> "region"]
  <2>2. g \in Groups /\ g # Missing
    BY ScopeAssumption
  <2>3. input \in Inputs
    BY <1>1, <2>2, InputOf
  <2>4. resolveDeploymentScope(c, input)
    BY <2>2 DEF resolveDeploymentScope, requireAllowedSubscription, assertResourceGroupAllowed
  <2>5. PlaceOf(input) = place
    BY <2>1 DEF PlaceOf
  <2>. QED
    BY <2>3, <2>4, <2>5
<1>. QED
  BY <1>2, <1>3

(* What is permitted at a place that the permissions are asked of is       *)
(* permitted in a group that the policy lets operations reach.             *)
LEMMA OperationScopeHasGroup ==
  ASSUME NEW c \in Environments, NEW subscriptions, subscriptions \subseteq Subscriptions,
         c.subscriptions = {} \/ subscriptions \subseteq c.subscriptions,
         NEW place \in operationScopes(c, subscriptions),
         NEW identity, NEW actions, hasEffectivePermissions(place, identity, actions)
  PROVE  \E s \in subscriptions, g \in Groups :
           /\ assertResourceIdInScope(c, s, g)
           /\ hasEffectivePermissions(ResourceGroup(s, g), identity, actions)
<1>1. CASE c.groups = {}
  <2>1. PICK s \in subscriptions : place = Subscription(s)
    BY <1>1 DEF operationScopes
  <2>2. PICK g \in Groups : TRUE
    BY ScopeAssumption
  <2>3. Above(Subscription(s)) \subseteq Above(ResourceGroup(s, g))
    BY DEF Above, Subscription, ResourceGroup
  <2>4. hasEffectivePermissions(ResourceGroup(s, g), identity, actions)
    BY <2>1, <2>3 DEF hasEffectivePermissions, hasEffectivePermission
  <2>. QED
    BY <1>1, <2>4 DEF assertResourceIdInScope, assertResourceGroupAllowed
<1>2. CASE c.groups # {}
  <2>1. PICK s \in subscriptions, g \in c.groups : place = ResourceGroup(s, g)
    BY <1>2 DEF operationScopes
  <2>. QED
    BY <2>1, ScopeAssumption DEF assertResourceIdInScope, assertResourceGroupAllowed
<1>. QED
  BY <1>1, <1>2

LEMMA TrueClaims ==
  ASSUME config \in Environments
  PROVE  ClaimsAreTrue
<1>. DEFINE c == config
            needed == DEPLOYMENT_REQUIRED_ACTIONS
<1>1. SUFFICES ASSUME c.verifyRbac
               PROVE  /\ c.enabled /\ deploymentAuthorization(c) = "ready" => CanDeploy(c, Subscriptions)
                      /\ \A s \in visible(c) : deployable(c, s) => CanDeploy(c, {s})
                      /\ c.mutations /\ mutationAuthorization(c) = "ready" =>
                           \E s \in Subscriptions, g \in Groups :
                             /\ assertResourceIdInScope(c, s, g)
                             /\ hasEffectivePermissions(ResourceGroup(s, g), "operator", OPERATOR_ACTIONS)
                      /\ readProvider(c) = "ready" =>
                           \A s \in visible(c) : \E g \in Groups :
                             /\ assertResourceIdInScope(c, s, g)
                             /\ hasEffectivePermission(ResourceGroup(s, g), "operator", READ_ACTION)
  BY DEF ClaimsAreTrue
<1>2. /\ c.subscriptions \subseteq Subscriptions /\ c.managementGroups \subseteq ManagementGroups
      /\ visible(c) \subseteq Subscriptions
      /\ c.subscriptions = {} \/ visible(c) \subseteq c.subscriptions
  BY ScopeAssumption DEF visible
<1>3. ASSUME c.enabled, deploymentAuthorization(c) = "ready"
      PROVE  CanDeploy(c, Subscriptions)
  <2>1. PICK place \in operationScopes(c, c.subscriptions)
                      \cup {ManagementGroup(m) : m \in c.managementGroups}
                      \cup (IF c.tenantDeployments THEN {Tenant} ELSE {}) :
          hasEffectivePermissions(place, "deployment", needed)
    BY <1>1, <1>3 DEF deploymentAuthorization
  <2>2. \E input \in Inputs : resolveDeploymentScope(c, input) /\ PlaceOf(input) = place
    <3>1. CASE place \in operationScopes(c, c.subscriptions)
      BY <3>1, OperationScopeIsAccepted
    <3>2. CASE place \in {ManagementGroup(m) : m \in c.managementGroups}
      <4>1. PICK m \in c.managementGroups : place = ManagementGroup(m)
        BY <3>2
      <4>. DEFINE input == [kind |-> "managementGroup", subscription |-> Missing, group |-> m,
                            location |-> "region"]
      <4>2. input \in Inputs
        BY <1>2, InputOf
      <4>3. resolveDeploymentScope(c, input) /\ PlaceOf(input) = place
        BY <4>1 DEF resolveDeploymentScope, PlaceOf, Missing
      <4>. QED
        BY <4>2, <4>3
    <3>3. CASE c.tenantDeployments /\ place = Tenant
      <4>. DEFINE input == [kind |-> "tenant", subscription |-> Missing, group |-> Missing,
                            location |-> "region"]
      <4>2. input \in Inputs
        BY InputOf
      <4>3. resolveDeploymentScope(c, input) /\ PlaceOf(input) = place
        BY <3>3 DEF resolveDeploymentScope, PlaceOf, Missing
      <4>. QED
        BY <4>2, <4>3
    <3>. QED
      BY <3>1, <3>2, <3>3
  <2>. QED
    BY <2>1, <2>2 DEF CanDeploy
<1>4. ASSUME NEW s \in visible(c), deployable(c, s)
      PROVE  CanDeploy(c, {s})
  <2>1. s \in c.subscriptions /\ {s} \subseteq c.subscriptions
    BY <1>4 DEF deployable
  <2>2. PICK place \in operationScopes(c, {s}) : hasEffectivePermissions(place, "deployment", needed)
    BY <1>1, <1>4 DEF deployable
  <2>3. PICK input \in Inputs :
           /\ resolveDeploymentScope(c, input) /\ PlaceOf(input) = place
           /\ input.kind \in {"subscription", "resourceGroup"}
           /\ input.subscription \in {s}
    BY <2>1, <2>2, OperationScopeIsAccepted
  <2>. QED
    BY <2>2, <2>3 DEF CanDeploy
<1>5. ASSUME c.mutations, mutationAuthorization(c) = "ready"
      PROVE  \E s \in Subscriptions, g \in Groups :
               /\ assertResourceIdInScope(c, s, g)
               /\ hasEffectivePermissions(ResourceGroup(s, g), "operator", OPERATOR_ACTIONS)
  <2>. DEFINE configured == IF c.subscriptions # {} THEN c.subscriptions
                            ELSE {s \in visible(c) : c.groups # {} \/ readable(c, s)}
  <2>1. PICK place \in operationScopes(c, configured) :
          hasEffectivePermissions(place, "operator", OPERATOR_ACTIONS)
    BY <1>1, <1>5 DEF mutationAuthorization
  <2>2. configured \subseteq Subscriptions /\ (c.subscriptions = {} \/ configured \subseteq c.subscriptions)
    BY <1>2
  <2>. HIDE DEF configured
  <2>. QED
    BY <2>1, <2>2, OperationScopeHasGroup
<1>6. ASSUME readProvider(c) = "ready", NEW s \in visible(c)
      PROVE  \E g \in Groups :
               /\ assertResourceIdInScope(c, s, g)
               /\ hasEffectivePermission(ResourceGroup(s, g), "operator", READ_ACTION)
  <2>1. readable(c, s)
    BY <1>6 DEF readProvider
  <2>2. PICK place \in operationScopes(c, {s}) : hasEffectivePermission(place, "operator", READ_ACTION)
    BY <1>1, <2>1 DEF readable
  <2>3. hasEffectivePermissions(place, "operator", {READ_ACTION})
    BY <2>2 DEF hasEffectivePermissions
  <2>4. {s} \subseteq Subscriptions /\ (c.subscriptions = {} \/ {s} \subseteq c.subscriptions)
    BY <1>2
  <2>5. PICK g \in Groups :
          /\ assertResourceIdInScope(c, s, g)
          /\ hasEffectivePermissions(ResourceGroup(s, g), "operator", {READ_ACTION})
    BY <2>2, <2>3, <2>4, OperationScopeHasGroup
  <2>. QED
    BY <2>5 DEF hasEffectivePermissions
<1>. QED
  BY <1>3, <1>4, <1>5, <1>6

(* Whatever the configuration and the role assignments, a server that says *)
(* it is ready to deploy, act or read has a place where the policy lets it *)
(* and the roles do (deploymentAuthorization, withCapabilities,            *)
(* mutationAuthorization, readProvider).                                   *)
THEOREM ClaimsHold == ScopeInit /\ [][ScopeNext]_scopeVars => []ClaimsAreTrue
<1>1. ScopeInit => config \in Environments
  BY DEF ScopeInit
<1>2. config \in Environments /\ [ScopeNext]_scopeVars => (config \in Environments)'
  BY DEF ScopeNext, AssignRole, RemoveRole, scopeVars
<1>. QED
  BY <1>1, <1>2, TrueClaims, PTL
=============================================================================
