------------------------- MODULE Confirmation_proofs -------------------------
(***************************************************************************)
(* Theorems about Confirmation, for every number of callers, calls,        *)
(* requests and configurations, every limit of either store and every      *)
(* order of the record ids.                                                *)
(***************************************************************************)
EXTENDS Confirmation, TLAPS, SequenceTheorems, FiniteSetTheorems, WellFoundedInduction

(* The record of the preview with that id in a history, as it is when it   *)
(* has that status and names that previous success.                        *)
RecordOf(history, id, status, previous) ==
  LET plan == history[id].plan
      seen == history[id].seen
  IN [id |-> id, born |-> id,
      principal |-> plan.principal, source |-> plan.source, template |-> plan.template,
      scope |-> plan.scope, seen |-> seen,
      hash |-> computeConfirmationHash(plan.source, plan.template, plan.params, plan.scope, seen),
      sanitized |-> sanitizeParameters(plan.params),
      status |-> status, rollbackOf |-> history[id].rollbackOf,
      previous |-> previous]

RecordsFor(history) ==
  {RecordOf(history, id, status, previous) :
     id \in DOMAIN history, status \in DeploymentRecordStatus,
     previous \in {NoId} \cup DOMAIN history}

(* A confirmed call that goes by such a record, before and after it has    *)
(* a template to submit.                                                   *)
Refreshing(history, record) ==
  [at |-> "refresh", record |-> copyOf(record), by |-> record.principal,
   approved |-> record.hash, params |-> history[record.id].plan.params]

Starting(history, record, via, at) ==
  [at |-> at, record |-> copyOf(record), by |-> record.principal, via |-> via,
   approved |-> record.hash, template |-> record.template,
   params |-> history[record.id].plan.params, scope |-> record.scope]

CallsFor(history) ==
  {Idle}
  \cup {[at |-> "put", record |-> record] : record \in RecordsFor(history)}
  \cup {Refreshing(history, record) : record \in RecordsFor(history)}
  \cup {Starting(history, record, via, at) :
          record \in RecordsFor(history), via \in {"deploy", "rollback"}, at \in {"start", "submit"}}

(* The deployment that ARM is given for that preview.                      *)
DeploymentOf(history, id, state) ==
  LET plan == history[id].plan IN
  [template |-> plan.template, params |-> plan.params, scope |-> plan.scope,
   by |-> plan.principal,
   approved |-> computeConfirmationHash(plan.source, plan.template, plan.params,
                                        plan.scope, history[id].seen),
   state |-> state]

Succeeded(deployments, id) ==
  id \in DOMAIN deployments /\ deployments[id].state = "succeeded"

(* Previews are numbered as they are taken, none holds the placeholder,    *)
(* each was within the policy of its moment, and a rollback's names a      *)
(* success of the same plan.                                               *)
HistoryInv ==
  /\ \E n \in 0..MaxId : DOMAIN previewed = 1..n
  /\ expiredTo \in 0..MaxId
  /\ \A id \in DOMAIN previewed :
       LET plan == previewed[id].plan
           target == previewed[id].rollbackOf
       IN /\ "secret" \in DOMAIN plan.params /\ plan.params.secret \in Secrets
          /\ crossScopeTargets(plan.template) \subseteq previewed[id].allowed
          /\ target # NoId =>
               /\ Succeeded(arm, target)
               /\ arm[target].template = plan.template
               /\ arm[target].scope = plan.scope
               /\ arm[target].by = plan.principal

(* ARM holds deployments of previews and nothing else.                     *)
ArmInv ==
  /\ DOMAIN arm \subseteq DOMAIN previewed
  /\ \A id \in DOMAIN arm :
       \E state \in {"active", "succeeded", "failed"} :
         arm[id] = DeploymentOf(previewed, id, state)

RealPrevious(deployments, record) ==
  record.previous # NoId =>
    /\ Succeeded(deployments, record.previous)
    /\ deployments[record.previous].scope = record.scope
    /\ deployments[record.previous].by = record.principal

(* The store holds each preview's record once at most, calls a success     *)
(* only what ARM does, and names previous successes that are some.         *)
StoreInv ==
  /\ store \in Seq(RecordsFor(previewed))
  /\ backend = "memory" => Len(store) <= MaxRecords
  /\ \A i, j \in DOMAIN store : store[i].id = store[j].id => i = j
  /\ \A i \in DOMAIN store :
       /\ store[i].status = "succeeded" => Succeeded(arm, store[i].id)
       /\ RealPrevious(arm, store[i])

(* What deploy and rollback have authorised under these scopes.            *)
Authorised(d, allowed) ==
  /\ d.scope \in allowed
  /\ d.via = "rollback" => crossScopeTargets(d.template) \subseteq allowed

(* A record that is about to be stored is not stored yet, by nobody else   *)
(* either, and a call that is about to submit has been authorised.         *)
CallInv(c) ==
  LET d == call[c] IN
  /\ d.at = "put" =>
       /\ d.record.status = "previewed"
       /\ RealPrevious(arm, d.record)
       /\ \A i \in DOMAIN store : store[i].id # d.record.id
       /\ \A other \in Calls \ {c} : call[other].at = "put" => call[other].record.id # d.record.id
  /\ d.at \in {"start", "submit"} => Authorised(d, config.allowed)

(* The inductive invariant.                                                *)
ConfirmationInv ==
  /\ HistoryInv
  /\ ArmInv
  /\ StoreInv
  /\ call \in [Calls -> CallsFor(previewed)]
  /\ \A c \in Calls : CallInv(c)

-----------------------------------------------------------------------------
(* The operators of the store.                                             *)

(* Counting, and a largest element.                                        *)
LEMMA Counting ==
  ASSUME NEW n \in Nat
  PROVE  IsFiniteSet(1..n) /\ Cardinality(1..n) = n
  BY FS_Interval

LEMMA LargestExists ==
  ASSUME NEW numbers, numbers # {}, NEW n \in Nat, numbers \subseteq 0..n
  PROVE  \E largest \in numbers : \A other \in numbers : other <= largest
<1>. DEFINE below == {n - number : number \in numbers}
            less == {ss \in Nat \X Nat : ss[1] < ss[2]}
<1>1. IsWellFoundedOn(less, Nat)
  BY NatLessThanWellFounded DEF OpToRel
<1>2. below \subseteq Nat /\ below # {}
  <2>1. \A number \in numbers : n - number \in Nat
    OBVIOUS
  <2>. QED
    BY <2>1
<1>3. PICK least \in below : \A other \in below : <<other, least>> \notin less
  <2>. HIDE DEF less, below
  <2>. QED
    BY <1>1, <1>2, WFMin
<1>4. PICK largest \in numbers : least = n - largest
  BY <1>3
<1>5. ASSUME NEW other \in numbers PROVE other <= largest
  <2>1. /\ n - other \in below /\ n - other \in Nat
        /\ least \in Nat /\ other \in Nat /\ largest \in Nat
    BY <1>2, <1>3
  <2>2. <<n - other, least>> \notin less
    BY <1>3, <2>1
  <2>3. ~(n - other < least)
    BY <2>1, <2>2
  <2>. QED
    BY <1>4, <2>1, <2>3
<1>. QED
  BY <1>5

LEMMA LatestIsOneOf ==
  ASSUME NEW records, NEW n \in Nat, \A record \in records : record.born \in 0..n
  PROVE  Latest(records) \in records \cup {NoRecord}
<1>1. SUFFICES ASSUME records # {}
               PROVE  \E record \in records : \A other \in records : other.born <= record.born
  BY DEF Latest
<1>. DEFINE ages == {record.born : record \in records}
<1>2. ages # {} /\ ages \subseteq 0..n
  BY <1>1
<1>3. PICK age \in ages : \A other \in ages : other <= age
  <2>. HIDE DEF ages
  <2>. QED
    BY <1>2, LargestExists
<1>4. PICK record \in records : age = record.born
  BY <1>3
<1>. QED
  BY <1>3, <1>4

(* get finds a stored record with the id, of the principal.                *)
LEMMA GetFinds ==
  ASSUME NEW held, NEW id, NEW principal, get(held, id, principal) # NoRecord
  PROVE  /\ get(held, id, principal) \in Range(held)
         /\ get(held, id, principal).id = id
         /\ get(held, id, principal).principal = principal
  BY DEF get, RecordsOf

LEMMA HashFinds ==
  ASSUME NEW S, NEW held \in Seq(S), NEW n \in Nat, \A record \in S : record.born \in 0..n,
         NEW which, NEW order, NEW hash, NEW principal,
         NEW record, record = findByConfirmationHash(which, order, held, hash, principal),
         record # NoRecord
  PROVE  /\ record \in Range(held)
         /\ record.hash = hash
         /\ record.principal = principal
<1>. DEFINE matches == {r \in RecordsOf(held, principal) : r.hash = hash}
            places == {i \in DOMAIN held : held[i] \in matches}
            delivered == query(order, matches, LookupLimit)
<1>1. SUFFICES record \in matches
  BY DEF RecordsOf
<1>2. /\ DOMAIN held = 1..Len(held) /\ Len(held) \in Nat
      /\ \A r \in matches : r.born \in 0..n
  <2>1. DOMAIN held = 1..Len(held) /\ Len(held) \in Nat
    BY LenProperties
  <2>2. \A r \in Range(held) : r \in S
    BY <2>1, ElementOfSeq DEF Range
  <2>. QED
    BY <2>1, <2>2 DEF RecordsOf
<1>3. CASE which = "azure"
  <2>1. record = Latest(delivered)
    BY <1>3 DEF findByConfirmationHash
  <2>2. delivered \subseteq matches
    BY DEF query
  <2>3. \A r \in delivered : r.born \in 0..n
    BY <1>2, <2>2
  <2>. HIDE DEF delivered
  <2>. QED
    BY <2>1, <2>2, <2>3, LatestIsOneOf
<1>4. CASE which # "azure"
  <2>1. /\ places # {}
        /\ record = held[CHOOSE i \in places : \A j \in places : j <= i]
    BY <1>4 DEF findByConfirmationHash
  <2>2. places \subseteq 0..Len(held)
    BY <1>2
  <2>3. (CHOOSE i \in places : \A j \in places : j <= i) \in places
    <3>. HIDE DEF places
    <3>. QED
      BY <1>2, <2>1, <2>2, LargestExists
  <2>. QED
    BY <2>1, <2>3
<1>. QED
  BY <1>3, <1>4

(* put adds the record at the end, and forgets at most the first one.      *)
LEMMA PutKeeps ==
  ASSUME NEW S, NEW held \in Seq(S), NEW record \in S, NEW which,
         NEW longer, longer = put(which, held, record)
  PROVE  /\ longer \in Seq(S)
         /\ which = "memory" /\ Len(held) <= MaxRecords => Len(longer) <= MaxRecords
         /\ \E shift \in {0, 1} : \A i \in DOMAIN longer :
              /\ i \in Nat /\ i + shift \in 1..(Len(held) + 1)
              /\ longer[i] = IF i + shift \in DOMAIN held THEN held[i + shift] ELSE record
<1>. DEFINE all == Append(held, record)
            Kept(shift) == \A i \in DOMAIN longer :
              /\ i \in Nat /\ i + shift \in 1..(Len(held) + 1)
              /\ longer[i] = IF i + shift \in DOMAIN held THEN held[i + shift] ELSE record
<1>1. /\ Len(held) \in Nat /\ DOMAIN held = 1..Len(held)
      /\ all \in Seq(S) /\ all # << >> /\ Len(all) = Len(held) + 1
      /\ DOMAIN all = 1..(Len(held) + 1)
      /\ \A i \in 1..Len(held) : all[i] = held[i]
      /\ all[Len(held) + 1] = record
  BY AppendProperties, LenProperties
<1>2. ASSUME NEW i \in 1..(Len(held) + 1)
      PROVE  all[i] = IF i \in DOMAIN held THEN held[i] ELSE record
  BY <1>1
<1>3. longer = IF which = "memory" /\ Len(all) > MaxRecords THEN Tail(all) ELSE all
  BY DEF put
<1>. HIDE DEF all
<1>4. CASE which = "memory" /\ Len(all) > MaxRecords
  <2>1. /\ longer \in Seq(S) /\ Len(longer) = Len(held)
        /\ \A i \in 1..Len(longer) : longer[i] = all[i + 1]
    BY <1>1, <1>3, <1>4, HeadTailProperties
  <2>2. DOMAIN longer = 1..Len(held)
    BY <2>1, LenProperties
  <2>3. Kept(1)
    <3>1. SUFFICES ASSUME NEW i \in DOMAIN longer
                   PROVE  /\ i \in Nat /\ i + 1 \in 1..(Len(held) + 1)
                          /\ longer[i] = IF i + 1 \in DOMAIN held THEN held[i + 1] ELSE record
      OBVIOUS
    <3>2. i \in Nat /\ i + 1 \in 1..(Len(held) + 1)
      BY <1>1, <2>2
    <3>. QED
      BY <1>2, <2>1, <2>2, <3>2
  <2>. HIDE DEF Kept
  <2>4. \E shift \in {0, 1} : Kept(shift)
    BY <2>3
  <2>. QED
    BY <2>1, <2>4 DEF Kept
<1>5. CASE ~(which = "memory" /\ Len(all) > MaxRecords)
  <2>1. longer = all
    BY <1>3, <1>5
  <2>2. Kept(0)
    <3>1. SUFFICES ASSUME NEW i \in DOMAIN longer
                   PROVE  /\ i \in Nat /\ i + 0 \in 1..(Len(held) + 1)
                          /\ longer[i] = IF i + 0 \in DOMAIN held THEN held[i + 0] ELSE record
      OBVIOUS
    <3>2. i \in Nat /\ i + 0 = i /\ i \in 1..(Len(held) + 1)
      BY <1>1, <2>1
    <3>. QED
      BY <1>2, <2>1, <3>2
  <2>3. which = "memory" => Len(longer) <= MaxRecords
    BY <1>1, <1>5, <2>1, StoreAssumption
  <2>. HIDE DEF Kept
  <2>4. \E shift \in {0, 1} : Kept(shift)
    BY <2>2
  <2>. QED
    BY <1>1, <2>1, <2>3, <2>4 DEF Kept
<1>. QED
  BY <1>4, <1>5

-----------------------------------------------------------------------------
(* Records and calls.                                                      *)

LEMMA RecordFields ==
  ASSUME NEW history, NEW record \in RecordsFor(history)
  PROVE  /\ record.id \in DOMAIN history
         /\ record.status \in DeploymentRecordStatus
         /\ record.previous \in {NoId} \cup DOMAIN history
         /\ record.born = record.id
         /\ record = RecordOf(history, record.id, record.status, record.previous)
         /\ record.principal = history[record.id].plan.principal
         /\ record.source = history[record.id].plan.source
         /\ record.template = history[record.id].plan.template
         /\ record.scope = history[record.id].plan.scope
         /\ record.rollbackOf = history[record.id].rollbackOf
         /\ record.hash = computeConfirmationHash(record.source, record.template,
                            history[record.id].plan.params, record.scope, record.seen)
         /\ record.seen = history[record.id].seen
         /\ record.sanitized = sanitizeParameters(history[record.id].plan.params)
  BY DEF RecordsFor, RecordOf

LEMMA CopyFields ==
  ASSUME NEW record
  PROVE  /\ copyOf(record).id = record.id
         /\ copyOf(record).source = record.source
         /\ copyOf(record).template = record.template
         /\ copyOf(record).scope = record.scope
         /\ copyOf(record).rollbackOf = record.rollbackOf
  BY DEF copyOf

(* What is stored and called stays right as previews are added.            *)
Extends(history, longer) ==
  /\ DOMAIN history \subseteq DOMAIN longer
  /\ \A id \in DOMAIN history : longer[id] = history[id]

LEMMA LongerHistory ==
  ASSUME NEW history, NEW longer, Extends(history, longer)
  PROVE  RecordsFor(history) \subseteq RecordsFor(longer) /\ CallsFor(history) \subseteq CallsFor(longer)
<1>1. ASSUME NEW record \in RecordsFor(history) PROVE record \in RecordsFor(longer)
  <2>1. PICK id \in DOMAIN history, status \in DeploymentRecordStatus,
             previous \in {NoId} \cup DOMAIN history :
               record = RecordOf(history, id, status, previous)
    BY DEF RecordsFor
  <2>2. record = RecordOf(longer, id, status, previous)
    BY <2>1 DEF RecordOf, Extends
  <2>. QED
    BY <2>1, <2>2 DEF RecordsFor, Extends
<1>2. ASSUME NEW record \in RecordsFor(history), NEW via, NEW at
      PROVE  /\ Refreshing(history, record) = Refreshing(longer, record)
             /\ Starting(history, record, via, at) = Starting(longer, record, via, at)
  <2>1. longer[record.id] = history[record.id]
    BY RecordFields DEF Extends
  <2>. QED
    BY <2>1 DEF Refreshing, Starting
<1>3. ASSUME NEW d \in CallsFor(history) PROVE d \in CallsFor(longer)
  <2>1. CASE d = Idle
    BY <2>1 DEF CallsFor
  <2>2. CASE \E record \in RecordsFor(history) : d = [at |-> "put", record |-> record]
    BY <1>1, <2>2 DEF CallsFor
  <2>3. CASE \E record \in RecordsFor(history) : d = Refreshing(history, record)
    BY <1>1, <1>2, <2>3 DEF CallsFor
  <2>4. CASE \E record \in RecordsFor(history), via \in {"deploy", "rollback"},
                at \in {"start", "submit"} : d = Starting(history, record, via, at)
    BY <1>1, <1>2, <2>4 DEF CallsFor
  <2>. QED
    BY <2>1, <2>2, <2>3, <2>4 DEF CallsFor
<1>. QED
  BY <1>1, <1>3

(* What a call is.                                                         *)
LEMMA CallKinds ==
  ASSUME NEW history, NEW d \in CallsFor(history)
  PROVE  /\ d.at \in {"idle", "put", "refresh", "start", "submit"}
         /\ d.at = "put" => d = [at |-> "put", record |-> d.record] /\ d.record \in RecordsFor(history)
         /\ d.at = "refresh" => \E record \in RecordsFor(history) : d = Refreshing(history, record)
         /\ d.at \in {"start", "submit"} =>
              \E record \in RecordsFor(history), via \in {"deploy", "rollback"} :
                d = Starting(history, record, via, d.at)
<1>1. CASE d = Idle
  BY <1>1 DEF Idle
<1>2. CASE \E record \in RecordsFor(history) : d = [at |-> "put", record |-> record]
  BY <1>2
<1>3. CASE \E record \in RecordsFor(history) : d = Refreshing(history, record)
  <2>1. d.at = "refresh"
    BY <1>3 DEF Refreshing
  <2>. QED
    BY <1>3, <2>1
<1>4. CASE \E record \in RecordsFor(history), via \in {"deploy", "rollback"},
              at \in {"start", "submit"} : d = Starting(history, record, via, at)
  <2>1. PICK record \in RecordsFor(history), via \in {"deploy", "rollback"},
             at \in {"start", "submit"} : d = Starting(history, record, via, at)
    BY <1>4
  <2>2. d.at = at
    BY <2>1 DEF Starting
  <2>. QED
    BY <2>1, <2>2
<1>. QED
  BY <1>1, <1>2, <1>3, <1>4 DEF CallsFor

(* A patch changes statuses, and only those of its record.                 *)
LEMMA PatchKeeps ==
  ASSUME NEW history, NEW records \in Seq(RecordsFor(history)),
         NEW id, NEW status, NEW expectedStatuses,
         NEW patched, patched = patch(records, id, status, expectedStatuses)
  PROVE  /\ patched \in Seq(RecordsFor(history))
         /\ Len(patched) = Len(records) /\ DOMAIN patched = DOMAIN records
         /\ \A i \in DOMAIN records :
              /\ patched[i].id = records[i].id
              /\ patched[i].previous = records[i].previous
              /\ patched[i].scope = records[i].scope
              /\ patched[i].principal = records[i].principal
              /\ \/ patched[i].status = records[i].status
                 \/ records[i].id = id /\ patched[i].status = status
<1>1. /\ DOMAIN records = 1..Len(records) /\ Len(records) \in Nat
      /\ \A i \in DOMAIN records : records[i] \in RecordsFor(history)
  BY LenProperties, ElementOfSeq
<1>2. ASSUME NEW i \in DOMAIN records
      PROVE  \E to \in DeploymentRecordStatus :
               /\ to = records[i].status \/ (records[i].id = id /\ to = status)
               /\ patched[i] = RecordOf(history, records[i].id, to, records[i].previous)
  <2>1. records[i] = RecordOf(history, records[i].id, records[i].status, records[i].previous)
    BY <1>1, RecordFields
  <2>2. records[i].status \in DeploymentRecordStatus
    BY <1>1, RecordFields
  <2>. DEFINE to == Patched(records[i].status, status, expectedStatuses)
  <2>3. to = records[i].status \/ (to = status /\ to \in DeploymentRecordStatus)
    BY <2>2 DEF Patched, PatchApplies, AllowedFrom, DeploymentRecordStatus, Terminal
  <2>4. CASE records[i].id = id
    <3>1. patched[i] = [records[i] EXCEPT !.status = to]
      BY <2>4 DEF patch
    <3>. HIDE DEF to
    <3>2. [RecordOf(history, records[i].id, records[i].status, records[i].previous) EXCEPT !.status = to]
            = RecordOf(history, records[i].id, to, records[i].previous)
      BY DEF RecordOf
    <3>3. patched[i] = RecordOf(history, records[i].id, to, records[i].previous)
      BY <2>1, <3>1, <3>2
    <3>. QED
      BY <2>2, <2>3, <2>4, <3>3
  <2>5. CASE records[i].id # id
    BY <2>1, <2>2, <2>5 DEF patch
  <2>. QED
    BY <2>4, <2>5
<1>3. ASSUME NEW i \in DOMAIN records
      PROVE  /\ patched[i] \in RecordsFor(history)
             /\ patched[i].id = records[i].id
             /\ patched[i].previous = records[i].previous
             /\ patched[i].scope = records[i].scope
             /\ patched[i].principal = records[i].principal
             /\ \/ patched[i].status = records[i].status
                \/ records[i].id = id /\ patched[i].status = status
  <2>1. PICK to \in DeploymentRecordStatus :
               /\ to = records[i].status \/ (records[i].id = id /\ to = status)
               /\ patched[i] = RecordOf(history, records[i].id, to, records[i].previous)
    BY <1>2
  <2>2. patched[i] \in RecordsFor(history)
    BY <1>1, <2>1, RecordFields DEF RecordsFor
  <2>3. records[i] = RecordOf(history, records[i].id, records[i].status, records[i].previous)
    BY <1>1, RecordFields
  <2>4. /\ patched[i].id = records[i].id /\ patched[i].previous = records[i].previous
        /\ patched[i].status = to
    BY <2>1 DEF RecordOf
  <2>5. patched[i].scope = records[i].scope /\ patched[i].principal = records[i].principal
    BY <1>1, <2>2, <2>4, RecordFields
  <2>. QED
    BY <2>1, <2>2, <2>4, <2>5
<1>4. patched = [i \in 1..Len(records) |-> patched[i]] /\ DOMAIN patched = DOMAIN records
  BY <1>1 DEF patch
<1>5. patched \in [1..Len(records) -> RecordsFor(history)]
  BY <1>1, <1>3, <1>4
<1>6. patched \in Seq(RecordsFor(history)) /\ Len(patched) = Len(records)
  <2>1. patched \in Seq(RecordsFor(history))
    BY <1>1, <1>5, SeqDef
  <2>. QED
    BY <1>1, <1>4, <2>1, LenProperties
<1>. QED
  BY <1>3, <1>4, <1>6

-----------------------------------------------------------------------------
(* The invariant.                                                          *)

LEMMA ConfirmationInitially == Init => ConfirmationInv
<1>1. SUFFICES ASSUME Init PROVE ConfirmationInv
  OBVIOUS
<1>2. DOMAIN previewed = {} /\ DOMAIN arm = {} /\ expiredTo = 0
  BY <1>1 DEF Init
<1>3. HistoryInv
  <2>1. 1..0 = {} /\ 0 \in 0..MaxId
    BY ConfirmationAssumption
  <2>. QED
    BY <1>2, <2>1 DEF HistoryInv
<1>4. ArmInv
  BY <1>2 DEF ArmInv
<1>5. StoreInv
  <2>1. store \in Seq(RecordsFor(previewed)) /\ Len(store) = 0 /\ DOMAIN store = {}
    BY <1>1, EmptySeq DEF Init
  <2>. QED
    BY <2>1, StoreAssumption DEF StoreInv
<1>6. call \in [Calls -> CallsFor(previewed)] /\ \A c \in Calls : CallInv(c)
  BY <1>1 DEF Init, CallsFor, CallInv, Idle
<1>. QED
  BY <1>3, <1>4, <1>5, <1>6 DEF ConfirmationInv

(* Nothing is taken from ARM, and what it has brought to an end is final.  *)
Later(deployments) ==
  /\ DOMAIN arm \subseteq DOMAIN deployments
  /\ \A id \in DOMAIN arm : arm[id].state = "succeeded" => deployments[id] = arm[id]

(* Whatever moves one call to another stage than "put", and perhaps patches *)
(* a record with a status that ARM confirms, keeps the invariant.          *)
LEMMA CallMoves ==
  ASSUME ConfirmationInv, ArmInv', Later(arm'),
         UNCHANGED <<backend, config, expiredTo, previewed>>,
         \/ store' = store
         \/ \E id, status, expectedStatuses :
              /\ store' = patch(store, id, status, expectedStatuses)
              /\ status = "succeeded" => Succeeded(arm', id),
         \/ call' = call
         \/ \E c \in Calls, next \in CallsFor(previewed) :
              /\ call' = [call EXCEPT ![c] = next]
              /\ next.at # "put"
              /\ next.at \in {"start", "submit"} => Authorised(next, config.allowed)
  PROVE  ConfirmationInv'
<1>1. /\ HistoryInv /\ ArmInv /\ StoreInv
      /\ call \in [Calls -> CallsFor(previewed)]
      /\ \A c \in Calls : CallInv(c)
  BY DEF ConfirmationInv
<1>2. ASSUME NEW id, Succeeded(arm, id)
      PROVE  Succeeded(arm', id) /\ arm'[id] = arm[id]
  BY <1>2 DEF Succeeded, Later
<1>3. HistoryInv'
  <2>1. (\E n \in 0..MaxId : DOMAIN previewed' = 1..n) /\ expiredTo' \in 0..MaxId
    BY <1>1 DEF HistoryInv
  <2>2. ASSUME NEW id \in DOMAIN previewed
        PROVE  LET plan == previewed[id].plan
                   target == previewed[id].rollbackOf
               IN /\ "secret" \in DOMAIN plan.params /\ plan.params.secret \in Secrets
                  /\ crossScopeTargets(plan.template) \subseteq previewed[id].allowed
                  /\ target # NoId =>
                       /\ Succeeded(arm', target)
                       /\ arm'[target].template = plan.template
                       /\ arm'[target].scope = plan.scope
                       /\ arm'[target].by = plan.principal
    BY <1>1, <1>2 DEF HistoryInv
  <2>. QED
    BY <2>1, <2>2 DEF HistoryInv
<1>4. /\ store' \in Seq(RecordsFor(previewed))
      /\ Len(store') = Len(store) /\ DOMAIN store' = DOMAIN store
      /\ \A i \in DOMAIN store :
           /\ store'[i].id = store[i].id
           /\ store'[i].previous = store[i].previous
           /\ store'[i].scope = store[i].scope
           /\ store'[i].principal = store[i].principal
           /\ store'[i].status = "succeeded" => Succeeded(arm', store[i].id)
  <2>1. store \in Seq(RecordsFor(previewed))
    BY <1>1 DEF StoreInv
  <2>2. CASE store' = store
    BY <1>1, <1>2, <2>2 DEF StoreInv
  <2>3. CASE store' # store
    <3>1. PICK id, status, expectedStatuses :
              /\ store' = patch(store, id, status, expectedStatuses)
              /\ status = "succeeded" => Succeeded(arm', id)
      BY <2>3
    <3>2. /\ store' \in Seq(RecordsFor(previewed))
          /\ Len(store') = Len(store) /\ DOMAIN store' = DOMAIN store
          /\ \A i \in DOMAIN store :
               /\ store'[i].id = store[i].id
               /\ store'[i].previous = store[i].previous
               /\ store'[i].scope = store[i].scope
               /\ store'[i].principal = store[i].principal
               /\ \/ store'[i].status = store[i].status
                  \/ store[i].id = id /\ store'[i].status = status
      BY <2>1, <3>1, PatchKeeps
    <3>3. ASSUME NEW i \in DOMAIN store, store'[i].status = "succeeded"
          PROVE  Succeeded(arm', store[i].id)
      BY <1>1, <1>2, <3>1, <3>2, <3>3 DEF StoreInv
    <3>. QED
      BY <3>2, <3>3
  <2>. QED
    BY <2>2, <2>3
<1>5. StoreInv'
  <2>1. \A i \in DOMAIN store : RealPrevious(arm', store'[i])
    <3>1. SUFFICES ASSUME NEW i \in DOMAIN store PROVE RealPrevious(arm', store'[i])
      OBVIOUS
    <3>2. RealPrevious(arm, store[i])
      BY <1>1 DEF StoreInv
    <3>. QED
      BY <1>2, <1>4, <3>2 DEF RealPrevious
  <2>2. \A i, j \in DOMAIN store' : store'[i].id = store'[j].id => i = j
    BY <1>1, <1>4 DEF StoreInv
  <2>3. backend' = "memory" => Len(store') <= MaxRecords
    BY <1>1, <1>4 DEF StoreInv
  <2>. QED
    BY <1>4, <2>1, <2>2, <2>3 DEF StoreInv
<1>6. call' \in [Calls -> CallsFor(previewed)]
  BY <1>1
<1>7. ASSUME NEW c \in Calls PROVE CallInv(c)'
  <2>1. ASSUME NEW other \in Calls
        PROVE  \/ call'[other] = call[other]
               \/ /\ call'[other].at # "put"
                  /\ call'[other].at \in {"start", "submit"} =>
                       Authorised(call'[other], config.allowed)
    BY <1>1
  <2>2. CASE call'[c] # call[c]
    BY <2>1, <2>2 DEF CallInv
  <2>3. CASE call'[c] = call[c]
    <3>1. CallInv(c)
      BY <1>1
    <3>2. call'[c].at \in {"start", "submit"} => Authorised(call'[c], config'.allowed)
      BY <2>3, <3>1 DEF CallInv
    <3>3. ASSUME call'[c].at = "put"
          PROVE  /\ call'[c].record.status = "previewed"
                 /\ RealPrevious(arm', call'[c].record)
                 /\ \A i \in DOMAIN store' : store'[i].id # call'[c].record.id
                 /\ \A other \in Calls \ {c} : call'[other].at = "put" =>
                      call'[other].record.id # call'[c].record.id
      <4>1. RealPrevious(arm', call'[c].record)
        BY <1>2, <2>3, <3>1, <3>3 DEF CallInv, RealPrevious
      <4>2. \A other \in Calls \ {c} : call'[other].at = "put" => call'[other] = call[other]
        BY <2>1
      <4>. QED
        BY <1>4, <2>3, <3>1, <3>3, <4>1, <4>2 DEF CallInv
    <3>. QED
      BY <3>2, <3>3 DEF CallInv
  <2>. QED
    BY <2>2, <2>3
<1>. QED
  BY <1>3, <1>5, <1>6, <1>7 DEF ConfirmationInv

(* The previous success that whatIf finds is one.                          *)
LEMMA PreviousIsReal ==
  ASSUME HistoryInv, ArmInv, StoreInv, NEW scope, NEW principal,
         NEW id, id = findPreviousSuccessful(scope, principal)
  PROVE  id # NoId =>
           /\ Succeeded(arm, id)
           /\ arm[id].scope = scope
           /\ arm[id].by = principal
<1>. DEFINE listed == listByScope(backend, rowKey, store, scope, principal)
            successes == {record \in listed : record.status = "succeeded"}
<1>1. \A i \in DOMAIN store : store[i] \in RecordsFor(previewed)
  BY LenProperties, ElementOfSeq DEF StoreInv
<1>2. ASSUME NEW record \in successes
      PROVE  /\ record \in Range(store)
             /\ record.scope = scope /\ record.principal = principal /\ record.status = "succeeded"
  BY <1>2 DEF listByScope, query, RecordsOf
<1>3. ASSUME NEW record \in Range(store)
      PROVE  record.born \in 0..MaxId /\ \E i \in DOMAIN store : record = store[i]
  <2>1. PICK i \in DOMAIN store : record = store[i]
    BY <1>3 DEF Range
  <2>2. PICK n \in 0..MaxId : DOMAIN previewed = 1..n
    BY DEF HistoryInv
  <2>3. record.id \in 1..n /\ record.born = record.id
    BY <1>1, <2>1, <2>2, RecordFields
  <2>. QED
    BY <2>1, <2>2, <2>3, ConfirmationAssumption
<1>4. Latest(successes) \in successes \cup {NoRecord}
  <2>1. \A record \in successes : record.born \in 0..MaxId
    BY <1>2, <1>3
  <2>. HIDE DEF successes
  <2>. QED
    BY <2>1, LatestIsOneOf, ConfirmationAssumption
<1>5. id = Latest(successes).id
  BY DEF findPreviousSuccessful
<1>. HIDE DEF successes
<1>6. SUFFICES ASSUME Latest(successes) \in successes
               PROVE  /\ Succeeded(arm, id)
                      /\ arm[id].scope = scope
                      /\ arm[id].by = principal
  BY <1>4, <1>5 DEF NoRecord, NoId
<1>7. PICK i \in DOMAIN store :
        /\ store[i].id = id /\ store[i].scope = scope
        /\ store[i].principal = principal /\ store[i].status = "succeeded"
  BY <1>2, <1>3, <1>5, <1>6
<1>8. Succeeded(arm, id)
  BY <1>7 DEF StoreInv
<1>9. PICK state : arm[id] = DeploymentOf(previewed, id, state)
  BY <1>8 DEF Succeeded, ArmInv
<1>10. arm[id].scope = previewed[id].plan.scope /\ arm[id].by = previewed[id].plan.principal
  BY <1>9 DEF DeploymentOf
<1>11. store[i].scope = previewed[id].plan.scope /\ store[i].principal = previewed[id].plan.principal
  BY <1>1, <1>7, RecordFields
<1>. QED
  BY <1>7, <1>8, <1>10, <1>11

LEMMA DraftPreserves ==
  ASSUME ConfirmationInv, NEW c \in Calls,
         NEW principal, NEW source, NEW tmpl, NEW params, NEW scope, NEW rollbackOf,
         NEW plan, plan = [principal |-> principal, source |-> source, template |-> tmpl,
                           params |-> params, scope |-> scope],
         Draft(c, plan, rollbackOf),
         "secret" \in DOMAIN params, params.secret \in Secrets,
         assertCrossScopeTargetsAllowed(tmpl),
         rollbackOf # NoId =>
           /\ Succeeded(arm, rollbackOf)
           /\ arm[rollbackOf].template = tmpl
           /\ arm[rollbackOf].scope = scope
           /\ arm[rollbackOf].by = principal
  PROVE  ConfirmationInv'
<1>1. /\ HistoryInv /\ ArmInv /\ StoreInv
      /\ call \in [Calls -> CallsFor(previewed)]
      /\ \A other \in Calls : CallInv(other)
  BY DEF ConfirmationInv
<1>2. PICK n \in 0..MaxId : DOMAIN previewed = 1..n
  BY <1>1 DEF HistoryInv
<1>. DEFINE new == n + 1
            entry == [plan |-> plan, seen |-> world, rollbackOf |-> rollbackOf,
                      allowed |-> config.allowed]
            record == newRecord(plan, rollbackOf)
<1>3. Cardinality(DOMAIN previewed) = n /\ n \in Nat
  <2>1. n \in Nat
    BY ConfirmationAssumption
  <2>. QED
    BY <1>2, <2>1, Counting
<1>4. record.id = new
  BY <1>3 DEF newRecord
<1>5. /\ new \in 1..MaxId
      /\ call' = [call EXCEPT ![c] = [at |-> "put", record |-> record]]
      /\ previewed' = With(previewed, new, entry)
      /\ UNCHANGED <<configVars, store, expiredTo, world, arm>>
  BY <1>4 DEF Draft, Become, Ids
<1>6. /\ DOMAIN previewed' = 1..new
      /\ previewed'[new] = entry
      /\ \A id \in 1..n : previewed'[id] = previewed[id]
      /\ new \notin 1..n /\ new \in 1..new /\ 1..n \subseteq 1..new
  BY <1>2, <1>3, <1>5 DEF With
<1>7. RecordsFor(previewed) \subseteq RecordsFor(previewed') /\ CallsFor(previewed) \subseteq CallsFor(previewed')
  <2>1. Extends(previewed, previewed')
    BY <1>2, <1>6 DEF Extends
  <2>. QED
    BY <2>1, LongerHistory
<1>8. ASSUME NEW id, Succeeded(arm, id) PROVE id \in 1..n
  BY <1>1, <1>2, <1>8 DEF Succeeded, ArmInv
<1>. DEFINE previous == IF rollbackOf # NoId THEN rollbackOf ELSE findPreviousSuccessful(scope, principal)
<1>9. previous # NoId =>
        /\ Succeeded(arm, previous)
        /\ arm[previous].scope = scope
        /\ arm[previous].by = principal
  BY <1>1, PreviousIsReal
<1>10. record = RecordOf(previewed', new, "previewed", previous)
  <2>1. previewed'[new].plan = plan /\ previewed'[new].seen = world /\ previewed'[new].rollbackOf = rollbackOf
    BY <1>6
  <2>. QED
    BY <1>3, <2>1 DEF newRecord, RecordOf
<1>11. /\ record \in RecordsFor(previewed')
       /\ record.status = "previewed" /\ record.previous = previous
       /\ record.scope = scope /\ record.principal = principal
  <2>1. previous \in {NoId} \cup DOMAIN previewed'
    BY <1>6, <1>8, <1>9
  <2>2. record \in RecordsFor(previewed')
    <3>1. "previewed" \in DeploymentRecordStatus /\ new \in DOMAIN previewed'
      BY <1>6 DEF DeploymentRecordStatus
    <3>. HIDE DEF record, previous, new
    <3>. QED
      BY <1>10, <2>1, <3>1 DEF RecordsFor
  <2>. QED
    BY <2>2 DEF newRecord
<1>. HIDE DEF record, previous, entry
<1>12. HistoryInv'
  <2>1. \E m \in 0..MaxId : DOMAIN previewed' = 1..m
    BY <1>5, <1>6
  <2>2. expiredTo' \in 0..MaxId
    BY <1>1, <1>5 DEF HistoryInv
  <2>3. ASSUME NEW id \in DOMAIN previewed'
        PROVE  LET of == previewed'[id].plan
                   target == previewed'[id].rollbackOf
               IN /\ "secret" \in DOMAIN of.params /\ of.params.secret \in Secrets
                  /\ crossScopeTargets(of.template) \subseteq previewed'[id].allowed
                  /\ target # NoId =>
                       /\ Succeeded(arm, target)
                       /\ arm[target].template = of.template
                       /\ arm[target].scope = of.scope
                       /\ arm[target].by = of.principal
    <3>1. CASE id = new
      <4>1. /\ previewed'[id].plan = plan /\ previewed'[id].rollbackOf = rollbackOf
            /\ previewed'[id].allowed = config.allowed
        BY <1>6, <3>1 DEF entry
      <4>. QED
        BY <4>1 DEF assertCrossScopeTargetsAllowed
    <3>2. CASE id # new
      <4>1. id \in DOMAIN previewed /\ previewed'[id] = previewed[id]
        BY <1>2, <1>3, <1>6, <3>2
      <4>. QED
        BY <1>1, <4>1 DEF HistoryInv
    <3>. QED
      BY <3>1, <3>2
  <2>. QED
    BY <1>5, <2>1, <2>2, <2>3 DEF HistoryInv
<1>13. ArmInv'
  <2>1. ASSUME NEW id \in DOMAIN arm, NEW state
        PROVE  DeploymentOf(previewed, id, state) = DeploymentOf(previewed', id, state)
    BY <1>1, <1>2, <1>6 DEF ArmInv, DeploymentOf
  <2>2. \A id \in DOMAIN arm : \E state \in {"active", "succeeded", "failed"} :
          arm[id] = DeploymentOf(previewed', id, state)
    BY <1>1, <2>1 DEF ArmInv
  <2>3. DOMAIN arm \subseteq DOMAIN previewed'
    BY <1>1, <1>2, <1>6 DEF ArmInv
  <2>. QED
    BY <1>5, <2>2, <2>3 DEF ArmInv
<1>14. StoreInv'
  <2>1. store \in Seq(RecordsFor(previewed'))
    BY <1>1, <1>7, SeqMonotonic DEF StoreInv
  <2>. QED
    BY <1>1, <1>5, <2>1 DEF StoreInv, configVars
<1>15. call' \in [Calls -> CallsFor(previewed')]
  <2>1. [at |-> "put", record |-> record] \in CallsFor(previewed')
    BY <1>11 DEF CallsFor
  <2>. QED
    BY <1>1, <1>5, <1>7, <2>1
<1>16. ASSUME NEW held, held \in RecordsFor(previewed) PROVE held.id # new
  BY <1>2, <1>6, <1>16, RecordFields
<1>17. ASSUME NEW other \in Calls, other # c
       PROVE  /\ call'[other] = call[other]
              /\ call[other].at = "put" => call[other].record.id # new
  BY <1>1, <1>5, <1>16, <1>17, CallKinds
<1>18. \A i \in DOMAIN store : store[i].id # new
  BY <1>1, <1>16, LenProperties, ElementOfSeq DEF StoreInv
<1>19. call'[c] = [at |-> "put", record |-> record]
  BY <1>1, <1>5
<1>20. CallInv(c)'
  <2>1. RealPrevious(arm, record)
    BY <1>9, <1>11 DEF RealPrevious
  <2>. QED
    BY <1>4, <1>5, <1>11, <1>17, <1>18, <1>19, <2>1 DEF CallInv
<1>21. ASSUME NEW other \in Calls, other # c PROVE CallInv(other)'
  <2>1. CallInv(other) /\ call'[other] = call[other]
    BY <1>1, <1>17, <1>21
  <2>2. call[other].at = "put" => call[other].record.id # call'[c].record.id
    BY <1>4, <1>17, <1>19, <1>21
  <2>3. config' = config /\ store' = store /\ arm' = arm
    BY <1>5 DEF configVars
  <2>4. ASSUME NEW third \in Calls \ {other}, call[other].at = "put", call'[third].at = "put"
        PROVE  call'[third].record.id # call[other].record.id
    BY <1>17, <2>1, <2>2, <2>4 DEF CallInv
  <2>. QED
    BY <2>1, <2>3, <2>4 DEF CallInv
<1>. QED
  BY <1>12, <1>13, <1>14, <1>15, <1>20, <1>21 DEF ConfirmationInv

LEMMA PutPreserves ==
  ASSUME ConfirmationInv, NEW c \in Calls, Put(c)
  PROVE  ConfirmationInv'
<1>1. /\ HistoryInv /\ ArmInv /\ StoreInv
      /\ call \in [Calls -> CallsFor(previewed)]
      /\ \A other \in Calls : CallInv(other)
  BY DEF ConfirmationInv
<1>. DEFINE record == call[c].record
<1>2. /\ call[c].at = "put"
      /\ store' = put(backend, store, record)
      /\ call' = [call EXCEPT ![c] = Idle]
      /\ UNCHANGED <<configVars, expiredTo, world, arm, previewed>>
  BY DEF Put, Become
<1>3. /\ record \in RecordsFor(previewed)
      /\ record.status = "previewed" /\ RealPrevious(arm, record)
      /\ \A i \in DOMAIN store : store[i].id # record.id
      /\ \A other \in Calls \ {c} : call[other].at = "put" => call[other].record.id # record.id
  BY <1>1, <1>2, CallKinds DEF CallInv
<1>4. store \in Seq(RecordsFor(previewed)) /\ DOMAIN store = 1..Len(store) /\ Len(store) \in Nat
  BY <1>1, LenProperties DEF StoreInv
<1>. HIDE DEF record
<1>5. /\ store' \in Seq(RecordsFor(previewed))
      /\ backend = "memory" /\ Len(store) <= MaxRecords => Len(store') <= MaxRecords
      /\ \E shift \in {0, 1} : \A i \in DOMAIN store' :
           /\ i \in Nat /\ i + shift \in 1..(Len(store) + 1)
           /\ store'[i] = IF i + shift \in DOMAIN store THEN store[i + shift] ELSE record
  BY <1>2, <1>3, <1>4, PutKeeps
<1>6. PICK shift \in {0, 1} : \A i \in DOMAIN store' :
           /\ i \in Nat /\ i + shift \in 1..(Len(store) + 1)
           /\ store'[i] = IF i + shift \in DOMAIN store THEN store[i + shift] ELSE record
  BY <1>5
<1>7. ASSUME NEW i \in DOMAIN store'
      PROVE  store'[i] = record \/ \E j \in DOMAIN store : store'[i] = store[j]
  BY <1>6
<1>8. ASSUME NEW i \in DOMAIN store', NEW j \in DOMAIN store', store'[i].id = store'[j].id
      PROVE  i = j
  <2>1. CASE i + shift \in DOMAIN store /\ j + shift \in DOMAIN store
    <3>1. i + shift = j + shift
      BY <1>1, <1>6, <1>8, <2>1 DEF StoreInv
    <3>. QED
      BY <1>6, <3>1
  <2>2. CASE i + shift \notin DOMAIN store /\ j + shift \notin DOMAIN store
    <3>1. i + shift = Len(store) + 1 /\ j + shift = Len(store) + 1
      BY <1>4, <1>6, <2>2
    <3>. QED
      BY <1>4, <1>6, <3>1
  <2>3. CASE i + shift \in DOMAIN store /\ j + shift \notin DOMAIN store
    BY <1>3, <1>6, <1>8, <2>3
  <2>4. CASE i + shift \notin DOMAIN store /\ j + shift \in DOMAIN store
    <3>1. store'[i] = record /\ store'[j] = store[j + shift]
      BY <1>6, <2>4
    <3>. QED
      BY <1>3, <1>8, <2>4, <3>1
  <2>. QED
    BY <2>1, <2>2, <2>3, <2>4
<1>9. StoreInv'
  <2>1. ASSUME NEW i \in DOMAIN store'
        PROVE  /\ store'[i].status = "succeeded" => Succeeded(arm, store'[i].id)
               /\ RealPrevious(arm, store'[i])
    BY <1>1, <1>3, <1>7 DEF StoreInv
  <2>2. backend' = "memory" => Len(store') <= MaxRecords
    BY <1>1, <1>2, <1>5 DEF StoreInv, configVars
  <2>. QED
    BY <1>2, <1>5, <1>8, <2>1, <2>2 DEF StoreInv
<1>10. HistoryInv' /\ ArmInv'
  BY <1>1, <1>2 DEF HistoryInv, ArmInv
<1>11. call' \in [Calls -> CallsFor(previewed)] /\ call'[c] = Idle
  BY <1>1, <1>2 DEF CallsFor
<1>12. ASSUME NEW other \in Calls PROVE CallInv(other)'
  <2>1. CASE other = c
    BY <1>11, <2>1 DEF CallInv, Idle
  <2>2. CASE other # c
    <3>1. CallInv(other) /\ call'[other] = call[other] /\ config' = config /\ arm' = arm
      BY <1>1, <1>2, <2>2 DEF configVars
    <3>2. \A third \in Calls : call'[third].at = "put" => call'[third] = call[third]
      BY <1>1, <1>2, <1>11 DEF Idle
    <3>3. call[other].at = "put" => call[other].record.id # record.id
      BY <1>3, <2>2
    <3>4. ASSUME call[other].at = "put", NEW i \in DOMAIN store'
          PROVE  store'[i].id # call[other].record.id
      BY <1>7, <3>1, <3>3, <3>4 DEF CallInv
    <3>. QED
      BY <3>1, <3>2, <3>4 DEF CallInv
  <2>. QED
    BY <2>1, <2>2
<1>. QED
  BY <1>2, <1>9, <1>10, <1>11, <1>12 DEF ConfirmationInv

(* What happens around the calls.                                          *)
LEMMA ExpirePreserves ==
  ASSUME ConfirmationInv, Expire
  PROVE  ConfirmationInv'
<1>1. HistoryInv'
  <2>1. PICK n \in 0..MaxId : DOMAIN previewed = 1..n
    BY DEF ConfirmationInv, HistoryInv
  <2>2. Cardinality(DOMAIN previewed) = n
    <3>1. n \in Nat
      BY ConfirmationAssumption
    <3>. QED
      BY <2>1, <3>1, Counting
  <2>3. expiredTo' \in 0..MaxId
    BY <2>1, <2>2, ConfirmationAssumption DEF ConfirmationInv, HistoryInv, Expire
  <2>. QED
    BY <2>3 DEF ConfirmationInv, HistoryInv, Expire
<1>2. UNCHANGED <<backend, config, store, call, arm, previewed>>
  BY DEF Expire, configVars
<1>. QED
  BY <1>1, <1>2 DEF ConfirmationInv, ArmInv, StoreInv, CallInv

LEMMA RestartPreserves ==
  ASSUME ConfirmationInv, Restart
  PROVE  ConfirmationInv'
<1>1. HistoryInv' /\ ArmInv'
  BY DEF ConfirmationInv, HistoryInv, ArmInv, Restart
<1>2. StoreInv'
  <2>1. CASE store' = store
    BY <2>1 DEF ConfirmationInv, StoreInv, Restart
  <2>2. CASE store' = << >>
    <3>1. << >> \in Seq(RecordsFor(previewed)) /\ Len(<< >>) = 0 /\ DOMAIN << >> = {}
      BY EmptySeq
    <3>2. previewed' = previewed
      BY DEF Restart
    <3>. QED
      BY <2>2, <3>1, <3>2, StoreAssumption DEF StoreInv
  <2>. QED
    BY <2>1, <2>2 DEF Restart
<1>3. call' \in [Calls -> CallsFor(previewed)] /\ \A c \in Calls : CallInv(c)'
  BY DEF Restart, CallsFor, CallInv, Idle
<1>. QED
  BY <1>1, <1>2, <1>3 DEF ConfirmationInv, Restart

LEMMA StutterPreserves ==
  ASSUME ConfirmationInv, UNCHANGED <<backend, config, store, expiredTo, call, arm, previewed>>
  PROVE  ConfirmationInv'
  BY DEF ConfirmationInv, HistoryInv, ArmInv, StoreInv, CallInv

-----------------------------------------------------------------------------
(* The steps of the calls.                                                 *)

LEMMA StoredRecords ==
  ASSUME ConfirmationInv, NEW record \in Range(store)
  PROVE  /\ record \in RecordsFor(previewed)
         /\ record.status = "succeeded" =>
              /\ Succeeded(arm, record.id)
              /\ arm[record.id].template = record.template
              /\ arm[record.id].scope = record.scope
              /\ arm[record.id].by = record.principal
<1>1. HistoryInv /\ ArmInv /\ StoreInv
  BY DEF ConfirmationInv
<1>2. PICK i \in DOMAIN store : record = store[i]
  BY DEF Range
<1>3. record \in RecordsFor(previewed)
  BY <1>1, <1>2, LenProperties, ElementOfSeq DEF StoreInv
<1>4. ASSUME record.status = "succeeded"
      PROVE  /\ Succeeded(arm, record.id)
             /\ arm[record.id].template = record.template
             /\ arm[record.id].scope = record.scope
             /\ arm[record.id].by = record.principal
  <2>1. Succeeded(arm, record.id)
    BY <1>1, <1>2, <1>4 DEF StoreInv
  <2>2. PICK state : arm[record.id] = DeploymentOf(previewed, record.id, state)
    BY <1>1, <2>1 DEF ArmInv, Succeeded
  <2>. QED
    BY <1>3, <2>1, <2>2, RecordFields DEF DeploymentOf
<1>. QED
  BY <1>3, <1>4

LEMMA FoundRecords ==
  ASSUME ConfirmationInv, NEW hash, NEW principal,
         NEW record, record = findByConfirmationHash(backend, rowKey, store, hash, principal),
         record # NoRecord
  PROVE  record \in RecordsFor(previewed) /\ record.hash = hash /\ record.principal = principal
<1>1. store \in Seq(RecordsFor(previewed))
  BY DEF ConfirmationInv, StoreInv
<1>2. PICK n \in 0..MaxId : DOMAIN previewed = 1..n
  BY DEF ConfirmationInv, HistoryInv
<1>3. \A other \in RecordsFor(previewed) : other.born \in 0..MaxId
  <2>1. \A other \in RecordsFor(previewed) : other.born \in 1..n
    BY <1>2, RecordFields
  <2>. QED
    BY <2>1, ConfirmationAssumption
<1>4. record \in Range(store) /\ record.hash = hash /\ record.principal = principal
  BY <1>1, <1>3, HashFinds, ConfirmationAssumption
<1>. QED
  BY <1>4, StoredRecords

(* What a hash binds.                                                      *)
LEMMA HashBinds ==
  ASSUME NEW record \in RecordsFor(previewed),
         NEW source, NEW tmpl, NEW params, NEW scope,
         record.hash = computeConfirmationHash(source, tmpl, params, scope, record.seen)
  PROVE  /\ record.source = source /\ record.template = tmpl /\ record.scope = scope
         /\ previewed[record.id].plan.params = params
<1>1. computeConfirmationHash(record.source, record.template, previewed[record.id].plan.params,
                              record.scope, record.seen)
        = computeConfirmationHash(source, tmpl, params, scope, record.seen)
  BY RecordFields
<1>. QED
  BY <1>1 DEF computeConfirmationHash

LEMMA ArmStays ==
  ASSUME ConfirmationInv, UNCHANGED <<arm, previewed>>
  PROVE  ArmInv' /\ Later(arm')
  BY DEF ConfirmationInv, ArmInv, Later

LEMMA WhatIfPreserves ==
  ASSUME ConfirmationInv, NEW c \in Calls, WhatIf(c)
  PROVE  ConfirmationInv'
<1>1. PICK request \in Requests :
        /\ assertCrossScopeTargetsAllowed(template(request.source))
        /\ Draft(c, [principal |-> request.principal, source |-> request.source,
                     template |-> template(request.source),
                     params |-> request.params, scope |-> request.scope], NoId)
  BY DEF WhatIf
<1>. QED
  BY <1>1, DraftPreserves, ConfirmationAssumption

LEMMA PreviewRollbackPreserves ==
  ASSUME ConfirmationInv, NEW c \in Calls, PreviewRollback(c)
  PROVE  ConfirmationInv'
<1>1. PICK target \in Range(store), supplied \in Secrets \cup {"missing"} :
        /\ redeployable(target)
        /\ CanRebuild(target, supplied)
        /\ Draft(c, [principal |-> target.principal, source |-> target.source,
                     template |-> target.template, params |-> rebuildParameters(target, supplied),
                     scope |-> target.scope], target.id)
  BY DEF PreviewRollback
<1>2. /\ target \in RecordsFor(previewed)
      /\ Succeeded(arm, target.id)
      /\ arm[target.id].template = target.template
      /\ arm[target.id].scope = target.scope
      /\ arm[target.id].by = target.principal
  BY <1>1, StoredRecords DEF redeployable
<1>. DEFINE params == rebuildParameters(target, supplied)
<1>3. "secret" \in DOMAIN params /\ params.secret \in Secrets
  <2>1. /\ target.sanitized = sanitizeParameters(previewed[target.id].plan.params)
        /\ "secret" \in DOMAIN previewed[target.id].plan.params
    BY <1>2, RecordFields DEF ConfirmationInv, HistoryInv
  <2>2. "secret" \in DOMAIN target.sanitized /\ target.sanitized.secret = Redacted
    BY <2>1 DEF sanitizeParameters
  <2>3. params = [target.sanitized EXCEPT !.secret = supplied] /\ supplied \in Secrets
    BY <1>1, <2>2 DEF rebuildParameters, CanRebuild
  <2>. QED
    BY <2>2, <2>3
<1>. HIDE DEF params
<1>. QED
  BY <1>1, <1>2, <1>3, DraftPreserves DEF params, redeployable

LEMMA DeployPreserves ==
  ASSUME ConfirmationInv, NEW c \in Calls, Deploy(c)
  PROVE  ConfirmationInv'
<1>1. PICK request \in Requests, hash \in {record.hash : record \in Range(store)} :
        LET record == findByConfirmationHash(backend, rowKey, store, hash, request.principal) IN
        /\ resolveDeploymentScope(request.scope)
        /\ record # NoRecord
        /\ hash = computeConfirmationHash(request.source, template(request.source),
                                          request.params, request.scope, record.seen)
        /\ Become(c, [at |-> "start", record |-> copyOf(record), by |-> request.principal,
                      via |-> "deploy", approved |-> hash, template |-> template(request.source),
                      params |-> request.params, scope |-> record.scope])
  BY DEF Deploy
<1>2. PICK record : record = findByConfirmationHash(backend, rowKey, store, hash, request.principal)
  OBVIOUS
<1>3. record \in RecordsFor(previewed) /\ record.hash = hash /\ record.principal = request.principal
  BY <1>1, <1>2, FoundRecords
<1>4. /\ record.template = template(request.source) /\ record.scope = request.scope
      /\ previewed[record.id].plan.params = request.params
  <2>1. record.hash = computeConfirmationHash(request.source, template(request.source),
                                              request.params, request.scope, record.seen)
    BY <1>1, <1>2, <1>3
  <2>. QED
    BY <1>3, <2>1, HashBinds
<1>. DEFINE next == Starting(previewed, record, "deploy", "start")
<1>5. call' = [call EXCEPT ![c] = next]
  BY <1>1, <1>2, <1>3, <1>4 DEF Starting, Become
<1>6. next \in CallsFor(previewed)
  BY <1>3 DEF CallsFor
<1>7. next.at = "start" /\ next.via = "deploy" /\ next.scope = record.scope
  BY DEF Starting
<1>8. Authorised(next, config.allowed)
  BY <1>1, <1>4, <1>7 DEF Authorised, resolveDeploymentScope
<1>9. UNCHANGED <<backend, config, expiredTo, previewed, store, arm>>
  BY DEF Deploy, configVars
<1>. HIDE DEF next
<1>. QED
  BY <1>5, <1>6, <1>7, <1>8, <1>9, ArmStays, CallMoves

LEMMA ConfirmRollbackPreserves ==
  ASSUME ConfirmationInv, NEW c \in Calls, ConfirmRollback(c)
  PROVE  ConfirmationInv'
<1>1. PICK target \in Range(store), supplied \in Secrets \cup {"missing"},
           hash \in {record.hash : record \in Range(store)} :
        LET record == findByConfirmationHash(backend, rowKey, store, hash, target.principal)
            params == rebuildParameters(target, supplied)
        IN
        /\ record # NoRecord
        /\ hash = computeConfirmationHash(target.source, target.template, params,
                                          target.scope, record.seen)
        /\ Become(c, [at |-> "refresh", record |-> copyOf(record), by |-> target.principal,
                      approved |-> hash, params |-> params])
  BY DEF ConfirmRollback
<1>2. PICK record : record = findByConfirmationHash(backend, rowKey, store, hash, target.principal)
  OBVIOUS
<1>3. record \in RecordsFor(previewed) /\ record.hash = hash /\ record.principal = target.principal
  BY <1>1, <1>2, FoundRecords
<1>4. previewed[record.id].plan.params = rebuildParameters(target, supplied)
  BY <1>1, <1>2, <1>3, HashBinds
<1>. DEFINE next == Refreshing(previewed, record)
<1>5. call' = [call EXCEPT ![c] = next]
  BY <1>1, <1>2, <1>3, <1>4 DEF Refreshing, Become
<1>6. next \in CallsFor(previewed) /\ next.at = "refresh"
  BY <1>3 DEF CallsFor, Refreshing
<1>7. UNCHANGED <<backend, config, expiredTo, previewed, store, arm>>
  BY DEF ConfirmRollback, configVars
<1>. HIDE DEF next
<1>. QED
  BY <1>5, <1>6, <1>7, ArmStays, CallMoves

(* A call that ends.                                                       *)
LEMMA EndPreserves ==
  ASSUME ConfirmationInv, NEW c \in Calls, Become(c, Idle),
         UNCHANGED <<backend, config, expiredTo, previewed, store, arm>>
  PROVE  ConfirmationInv'
<1>1. Idle \in CallsFor(previewed) /\ Idle.at = "idle" /\ call' = [call EXCEPT ![c] = Idle]
  BY DEF CallsFor, Idle, Become
<1>. QED
  BY <1>1, ArmStays, CallMoves

LEMMA RefreshTargetPreserves ==
  ASSUME ConfirmationInv, NEW c \in Calls, RefreshTarget(c)
  PROVE  ConfirmationInv'
<1>. DEFINE d == call[c]
<1>1. UNCHANGED <<backend, config, expiredTo, previewed, store, arm>>
  BY DEF RefreshTarget, configVars
<1>2. CASE Become(c, Idle)
  BY <1>1, <1>2, EndPreserves
<1>3. CASE ~Become(c, Idle)
  <2>1. d.at = "refresh" /\ d \in CallsFor(previewed)
    BY DEF RefreshTarget, ConfirmationInv
  <2>2. PICK record \in RecordsFor(previewed) : d = Refreshing(previewed, record)
    BY <2>1, CallKinds
  <2>3. /\ d.record = copyOf(record) /\ d.by = record.principal /\ d.approved = record.hash
        /\ d.params = previewed[record.id].plan.params
    BY <2>2 DEF Refreshing
  <2>4. PICK target :
          /\ redeployable(target)
          /\ resolveDeploymentScope(d.record.scope)
          /\ d.record.template = target.template
          /\ Become(c, [at |-> "start", record |-> d.record, by |-> d.by,
                        via |-> "rollback", approved |-> d.approved,
                        template |-> target.template,
                        params |-> d.params, scope |-> d.record.scope])
    BY <1>3 DEF RefreshTarget
  <2>5. d.record.template = record.template /\ d.record.scope = record.scope
    BY <2>3, CopyFields
  <2>. DEFINE next == Starting(previewed, record, "rollback", "start")
  <2>6. call' = [call EXCEPT ![c] = next]
    BY <2>3, <2>4, <2>5 DEF Starting, Become
  <2>7. next \in CallsFor(previewed)
    BY DEF CallsFor
  <2>8. next.at = "start" /\ Authorised(next, config.allowed)
    BY <2>4, <2>5 DEF Starting, Authorised, resolveDeploymentScope, redeployable,
                      assertCrossScopeTargetsAllowed
  <2>. HIDE DEF next
  <2>. QED
    BY <1>1, <2>6, <2>7, <2>8, ArmStays, CallMoves
<1>. QED
  BY <1>2, <1>3

(* ARM's word for how a deployment stands, as a record's status.           *)
LEMMA StatusOfArm ==
  ASSUME NEW state \in {"active", "succeeded", "failed"}
  PROVE  deploymentStatus(state) = "succeeded" => state = "succeeded"
  BY DEF deploymentStatus, Terminal

LEMMA StartPreserves ==
  ASSUME ConfirmationInv, NEW c \in Calls, Start(c)
  PROVE  ConfirmationInv'
<1>. DEFINE d == call[c]
            current == get(store, d.record.id, d.by)
<1>1. /\ d.at = "start" /\ d \in CallsFor(previewed) /\ CallInv(c)
      /\ call \in [Calls -> CallsFor(previewed)]
      /\ UNCHANGED <<backend, config, expiredTo, previewed, arm>>
  BY DEF Start, ConfirmationInv, configVars
<1>2. ArmInv' /\ Later(arm')
  BY <1>1, ArmStays
<1>3. Idle \in CallsFor(previewed) /\ Idle.at = "idle"
  BY DEF CallsFor, Idle
<1>4. CASE Become(c, Idle) /\ UNCHANGED store
  BY <1>1, <1>4, EndPreserves
<1>5. CASE /\ current.id \in DOMAIN arm
           /\ store' = patch(store, current.id, deploymentStatus(arm[current.id].state), {"submitting"})
           /\ Become(c, Idle)
  <2>1. PICK id : id = current.id
    OBVIOUS
  <2>2. PICK state \in {"active", "succeeded", "failed"} : arm[id] = DeploymentOf(previewed, id, state)
    BY <1>5, <2>1 DEF ConfirmationInv, ArmInv
  <2>3. arm[id].state = state
    BY <2>2 DEF DeploymentOf
  <2>4. deploymentStatus(arm[id].state) = "succeeded" => Succeeded(arm', id)
    BY <1>1, <1>5, <2>1, <2>3, StatusOfArm DEF Succeeded
  <2>5. store' = patch(store, id, deploymentStatus(arm[id].state), {"submitting"})
    BY <1>5, <2>1
  <2>. QED
    BY <1>1, <1>2, <1>3, <1>5, <2>4, <2>5, CallMoves DEF Become
<1>6. CASE /\ store' = patch(store, current.id, "submitting", {"previewed"})
           /\ Become(c, [d EXCEPT !.at = "submit"])
  <2>1. PICK record \in RecordsFor(previewed), via \in {"deploy", "rollback"} :
          d = Starting(previewed, record, via, "start")
    BY <1>1, CallKinds
  <2>. DEFINE next == [d EXCEPT !.at = "submit"]
  <2>2. /\ next = Starting(previewed, record, via, "submit") /\ next.at = "submit"
        /\ next.scope = d.scope /\ next.via = d.via /\ next.template = d.template
    BY <2>1 DEF Starting
  <2>3. next \in CallsFor(previewed)
    BY <2>2 DEF CallsFor
  <2>4. Authorised(next, config.allowed)
    BY <1>1, <2>2 DEF CallInv, Authorised
  <2>5. call' = [call EXCEPT ![c] = next]
    BY <1>6 DEF Become
  <2>6. \E id, status, expectedStatuses :
          /\ store' = patch(store, id, status, expectedStatuses)
          /\ status = "succeeded" => Succeeded(arm', id)
    <3>1. "submitting" # "succeeded"
      OBVIOUS
    <3>. QED
      BY <1>6, <3>1
  <2>. HIDE DEF next
  <2>. QED
    BY <1>1, <1>2, <1>6, <2>2, <2>3, <2>4, <2>5, <2>6, CallMoves
<1>. QED
  BY <1>4, <1>5, <1>6 DEF Start

LEMMA SubmitPreserves ==
  ASSUME ConfirmationInv, NEW c \in Calls, Submit(c)
  PROVE  ConfirmationInv'
<1>. DEFINE d == call[c]
            given == [template |-> d.template, params |-> d.params, scope |-> d.scope,
                      by |-> d.by, approved |-> d.approved, state |-> "active"]
            accepted == IF d.record.id \in DOMAIN arm THEN arm ELSE With(arm, d.record.id, given)
<1>1. /\ d.at = "submit" /\ d \in CallsFor(previewed) /\ CallInv(c)
      /\ UNCHANGED <<backend, config, expiredTo, previewed>>
      /\ Become(c, Idle)
  BY DEF Submit, ConfirmationInv, configVars
<1>2. PICK record \in RecordsFor(previewed), via \in {"deploy", "rollback"} :
        d = Starting(previewed, record, via, "submit")
  BY <1>1, CallKinds
<1>3. PICK id \in DOMAIN previewed : id = record.id
  BY RecordFields
<1>4. d.record.id = id
  BY <1>2, <1>3, CopyFields DEF Starting
<1>5. given = DeploymentOf(previewed, id, "active")
  <2>1. /\ d.template = record.template /\ d.params = previewed[id].plan.params
        /\ d.scope = record.scope /\ d.by = record.principal /\ d.approved = record.hash
    BY <1>2, <1>3 DEF Starting
  <2>2. /\ record.template = previewed[id].plan.template /\ record.scope = previewed[id].plan.scope
        /\ record.principal = previewed[id].plan.principal
        /\ record.hash = computeConfirmationHash(previewed[id].plan.source,
                           previewed[id].plan.template, previewed[id].plan.params,
                           previewed[id].plan.scope, previewed[id].seen)
    BY <1>3, RecordFields
  <2>. QED
    BY <2>1, <2>2 DEF DeploymentOf
<1>6. PICK deployments : deployments = accepted
  OBVIOUS
<1>7. deployments = IF id \in DOMAIN arm THEN arm
                    ELSE With(arm, id, DeploymentOf(previewed, id, "active"))
  BY <1>4, <1>5, <1>6
<1>8. /\ DOMAIN deployments \subseteq DOMAIN previewed
      /\ id \in DOMAIN deployments
      /\ \A other \in DOMAIN deployments : \E state \in {"active", "succeeded", "failed"} :
           deployments[other] = DeploymentOf(previewed, other, state)
      /\ Later(deployments)
  <2>1. ArmInv
    BY DEF ConfirmationInv
  <2>2. CASE id \in DOMAIN arm
    BY <1>7, <2>1, <2>2 DEF ArmInv, Later
  <2>3. CASE id \notin DOMAIN arm
    <3>1. /\ DOMAIN deployments = DOMAIN arm \cup {id}
          /\ deployments[id] = DeploymentOf(previewed, id, "active")
          /\ \A other \in DOMAIN arm : deployments[other] = arm[other]
      BY <1>7, <2>3 DEF With
    <3>. QED
      BY <1>3, <2>1, <2>3, <3>1 DEF ArmInv, Later
  <2>. QED
    BY <2>2, <2>3
<1>9. PICK status : status = deploymentStatus(deployments[id].state)
  OBVIOUS
<1>10. status = "succeeded" => Succeeded(deployments, id)
  <2>1. PICK state \in {"active", "succeeded", "failed"} :
          deployments[id] = DeploymentOf(previewed, id, state)
    BY <1>8
  <2>2. deployments[id].state = state
    BY <2>1 DEF DeploymentOf
  <2>. QED
    BY <1>8, <1>9, <2>2, StatusOfArm DEF Succeeded
<1>11. /\ arm' \in {arm, deployments}
       /\ \/ arm' = deployments /\ store' = patch(store, id, status, {"submitting"})
          \/ store' = patch(store, id, "failed", {"submitting"})
          \/ store' = store
  BY <1>4, <1>6, <1>9 DEF Submit
<1>12. ArmInv' /\ Later(arm')
  <2>1. CASE arm' = arm
    BY <1>1, <2>1, ArmStays
  <2>2. CASE arm' = deployments
    BY <1>1, <1>8, <2>2 DEF ArmInv
  <2>. QED
    BY <1>11, <2>1, <2>2
<1>13. \/ store' = store
       \/ \E of, to, expectedStatuses :
            /\ store' = patch(store, of, to, expectedStatuses)
            /\ to = "succeeded" => Succeeded(arm', of)
  <2>1. "failed" # "succeeded"
    OBVIOUS
  <2>. QED
    BY <1>10, <1>11, <2>1
<1>14. Idle \in CallsFor(previewed) /\ Idle.at = "idle" /\ call' = [call EXCEPT ![c] = Idle]
  BY <1>1 DEF CallsFor, Idle, Become
<1>. QED
  BY <1>1, <1>12, <1>13, <1>14, CallMoves

LEMMA SettlePreserves ==
  ASSUME ConfirmationInv, NEW id, Settle(id)
  PROVE  ConfirmationInv'
<1>1. PICK outcome \in {"succeeded", "failed"} :
        /\ arm' = [arm EXCEPT ![id].state = outcome]
        /\ store' = patch(store, id, outcome, {"submitting", "running"})
  BY DEF Settle
<1>2. /\ id \in DOMAIN arm /\ arm[id].state = "active" /\ ArmInv
      /\ UNCHANGED <<backend, config, expiredTo, previewed, call>>
  BY DEF Settle, ConfirmationInv, configVars
<1>3. arm'[id] = DeploymentOf(previewed, id, outcome)
  <2>1. PICK state : arm[id] = DeploymentOf(previewed, id, state)
    BY <1>2 DEF ArmInv
  <2>2. [DeploymentOf(previewed, id, state) EXCEPT !.state = outcome] = DeploymentOf(previewed, id, outcome)
    BY DEF DeploymentOf
  <2>3. arm'[id] = [arm[id] EXCEPT !.state = outcome]
    BY <1>1, <1>2
  <2>. QED
    BY <2>1, <2>2, <2>3
<1>4. DOMAIN arm' = DOMAIN arm /\ \A other \in DOMAIN arm : other # id => arm'[other] = arm[other]
  BY <1>1
<1>5. ArmInv' /\ Later(arm')
  <2>1. ArmInv'
    BY <1>2, <1>3, <1>4 DEF ArmInv
  <2>2. "active" # "succeeded"
    OBVIOUS
  <2>. QED
    BY <1>2, <1>4, <2>1, <2>2 DEF Later
<1>6. outcome = "succeeded" => Succeeded(arm', id)
  BY <1>2, <1>3, <1>4 DEF Succeeded, DeploymentOf
<1>. QED
  BY <1>1, <1>2, <1>5, <1>6, CallMoves

LEMMA FailPreserves ==
  ASSUME ConfirmationInv, NEW c \in Calls, Fail(c)
  PROVE  ConfirmationInv'
  BY EndPreserves DEF Fail, configVars

LEMMA ConfirmationPreserved == ConfirmationInv /\ [Next]_vars => ConfirmationInv'
<1>1. SUFFICES ASSUME ConfirmationInv, [Next]_vars PROVE ConfirmationInv'
  OBVIOUS
<1>2. CASE \E c \in Calls : WhatIf(c) \/ PreviewRollback(c) \/ Put(c)
  BY <1>1, <1>2, WhatIfPreserves, PreviewRollbackPreserves, PutPreserves
<1>3. CASE \E c \in Calls : Deploy(c) \/ ConfirmRollback(c) \/ RefreshTarget(c)
  BY <1>1, <1>3, DeployPreserves, ConfirmRollbackPreserves, RefreshTargetPreserves
<1>4. CASE \E c \in Calls : Start(c) \/ Submit(c) \/ Fail(c)
  BY <1>1, <1>4, StartPreserves, SubmitPreserves, FailPreserves
<1>5. CASE \E id \in Ids : Settle(id)
  BY <1>1, <1>5, SettlePreserves
<1>6. CASE Expire
  BY <1>1, <1>6, ExpirePreserves
<1>7. CASE AzureChanges
  BY <1>1, <1>7, StutterPreserves DEF AzureChanges, configVars
<1>8. CASE Restart
  BY <1>1, <1>8, RestartPreserves
<1>9. CASE UNCHANGED vars
  BY <1>1, <1>9, StutterPreserves DEF vars, configVars
<1>. QED
  BY <1>1, <1>2, <1>3, <1>4, <1>5, <1>6, <1>7, <1>8, <1>9 DEF Next

(* The inductive invariant: what is stored, called and deployed is each    *)
(* time determined by the preview of that id.                              *)
THEOREM ConfirmationInvariant == Spec => []ConfirmationInv
  BY ConfirmationInitially, ConfirmationPreserved, PTL DEF Spec

-----------------------------------------------------------------------------
(* The properties.                                                         *)

(* Whatever the number of callers, the store and the configurations, what  *)
(* ARM is given under a record's name is what was previewed under it       *)
(* (deploy, rollback, computeConfirmationHash).                            *)
THEOREM ApprovedIsSubmitted == Spec => []SubmittedAsPreviewed
<1>1. ASSUME ConfirmationInv PROVE SubmittedAsPreviewed
  BY <1>1 DEF ConfirmationInv, ArmInv, SubmittedAsPreviewed, DeploymentOf
<1>. QED
  BY <1>1, ConfirmationInvariant, PTL

(* A rollback submits only what has succeeded in the same scope for the    *)
(* same principal, also after any chain of rollbacks of rollbacks          *)
(* (rollback, authorizeRollbackRecord).                                    *)
THEOREM RollbacksFollowSuccess == Spec => []RollbackFromSuccess
<1>1. ASSUME ConfirmationInv PROVE RollbackFromSuccess
  <2>1. SUFFICES ASSUME NEW id \in DOMAIN arm, previewed[id].rollbackOf # NoId
                 PROVE  LET target == previewed[id].rollbackOf IN
                        /\ target \in DOMAIN arm
                        /\ arm[target].state = "succeeded"
                        /\ arm[target].template = arm[id].template
                        /\ arm[target].scope = arm[id].scope
                        /\ arm[target].by = arm[id].by
    BY DEF RollbackFromSuccess
  <2>2. id \in DOMAIN previewed /\ \E state : arm[id] = DeploymentOf(previewed, id, state)
    BY <1>1 DEF ConfirmationInv, ArmInv
  <2>3. /\ arm[id].template = previewed[id].plan.template
        /\ arm[id].scope = previewed[id].plan.scope
        /\ arm[id].by = previewed[id].plan.principal
    BY <2>2 DEF DeploymentOf
  <2>. QED
    BY <1>1, <2>1, <2>2, <2>3 DEF ConfirmationInv, HistoryInv, Succeeded
<1>. QED
  BY <1>1, ConfirmationInvariant, PTL

(* The scope of every submission is within the policy of the process that  *)
(* submits; its nested deployments are within the policy of its preview,   *)
(* and those of a confirmed rollback also within that of the process       *)
(* (deploy, whatIf, resolveStoredScope, authorizeRollbackRecord).          *)
THEOREM PolicyAtSubmission == Spec => []SubmittedWithinPolicy
<1>1. ASSUME ConfirmationInv PROVE SubmittedWithinPolicy
  <2>. SUFFICES ASSUME NEW c \in Calls, call[c].at = "submit"
                PROVE  /\ call[c].scope \in config.allowed
                       /\ crossScopeTargets(call[c].template)
                            \subseteq previewed[call[c].record.id].allowed
                       /\ call[c].via = "rollback" =>
                            crossScopeTargets(call[c].template) \subseteq config.allowed
    BY DEF SubmittedWithinPolicy
  <2>1. Authorised(call[c], config.allowed)
    BY <1>1 DEF ConfirmationInv, CallInv
  <2>2. PICK record \in RecordsFor(previewed), via \in {"deploy", "rollback"} :
          call[c] = Starting(previewed, record, via, "submit")
    BY <1>1, CallKinds DEF ConfirmationInv
  <2>3. call[c].record.id = record.id /\ call[c].template = previewed[record.id].plan.template
    BY <2>2, CopyFields, RecordFields DEF Starting
  <2>4. crossScopeTargets(call[c].template) \subseteq previewed[record.id].allowed
    BY <1>1, <2>3, RecordFields DEF ConfirmationInv, HistoryInv
  <2>. QED
    BY <2>1, <2>3, <2>4 DEF Authorised
<1>. QED
  BY <1>1, ConfirmationInvariant, PTL

(* Secure values are not stored, and their placeholder is not deployed     *)
(* (sanitizeParameters, rebuildParameters).                                *)
THEOREM SecretsAreKept == Spec => []SecretsStayOut
<1>1. ASSUME ConfirmationInv PROVE SecretsStayOut
  <2>1. ASSUME NEW i \in DOMAIN store PROVE store[i].sanitized.secret = Redacted
    <3>1. store[i] \in RecordsFor(previewed)
      BY <1>1, LenProperties, ElementOfSeq DEF ConfirmationInv, StoreInv
    <3>2. PICK id \in DOMAIN previewed : id = store[i].id
      BY <3>1, RecordFields
    <3>3. store[i].sanitized = [previewed[id].plan.params EXCEPT !.secret = Redacted]
      BY <3>1, <3>2, RecordFields DEF sanitizeParameters
    <3>. QED
      BY <1>1, <3>3 DEF ConfirmationInv, HistoryInv
  <2>2. ASSUME NEW id \in DOMAIN arm PROVE arm[id].params.secret # Redacted
    <3>1. id \in DOMAIN previewed /\ \E state : arm[id] = DeploymentOf(previewed, id, state)
      BY <1>1 DEF ConfirmationInv, ArmInv
    <3>2. arm[id].params = previewed[id].plan.params
      BY <3>1 DEF DeploymentOf
    <3>. QED
      BY <1>1, <3>1, <3>2, ConfirmationAssumption DEF ConfirmationInv, HistoryInv
  <2>. QED
    BY <2>1, <2>2 DEF SecretsStayOut
<1>. QED
  BY <1>1, ConfirmationInvariant, PTL

(* The previous success that a record names is one                         *)
(* (findPreviousSuccessful).                                               *)
THEOREM HistoriesAreReal == Spec => []HistoryIsReal
<1>1. ASSUME ConfirmationInv PROVE HistoryIsReal
  BY <1>1 DEF ConfirmationInv, StoreInv, RealPrevious, Succeeded, HistoryIsReal
<1>. QED
  BY <1>1, ConfirmationInvariant, PTL

(* The type invariant; the Azure store holds at most one record of each    *)
(* preview, and the in-memory one not more than it may.                    *)
THEOREM ConfirmationTyped == Spec => []TypeOK
<1>1. ASSUME ConfirmationInv PROVE TypeOK
  <2>1. /\ DOMAIN store = 1..Len(store) /\ Len(store) \in Nat
        /\ \A i \in DOMAIN store : store[i] \in RecordsFor(previewed)
        /\ \A i, j \in DOMAIN store : store[i].id = store[j].id => i = j
        /\ backend = "memory" => Len(store) <= MaxRecords
    BY <1>1, LenProperties, ElementOfSeq DEF ConfirmationInv, StoreInv
  <2>2. PICK n \in 0..MaxId : DOMAIN previewed = 1..n
    BY <1>1 DEF ConfirmationInv, HistoryInv
  <2>3. Len(store) <= MaxId
    <3>. DEFINE ids == [i \in 1..Len(store) |-> store[i].id]
    <3>1. ids \in [1..Len(store) -> 1..MaxId]
      <4>1. \A i \in 1..Len(store) : store[i].id \in 1..n
        BY <2>1, <2>2, RecordFields
      <4>. QED
        BY <2>2, <4>1, ConfirmationAssumption
    <3>2. IsFiniteSet(1..Len(store)) /\ Cardinality(1..Len(store)) = Len(store)
      BY <2>1, Counting
    <3>3. IsFiniteSet(1..MaxId) /\ Cardinality(1..MaxId) = MaxId
      BY Counting, ConfirmationAssumption
    <3>4. SUFFICES ASSUME Cardinality(1..MaxId) < Cardinality(1..Len(store)) PROVE FALSE
      BY <2>1, <3>2, <3>3, ConfirmationAssumption
    <3>5. \A i, j \in 1..Len(store) : ids[i] = ids[j] => i = j
      BY <2>1
    <3>. HIDE DEF ids
    <3>6. \E i, j \in 1..Len(store) : i # j /\ ids[i] = ids[j]
      BY <3>1, <3>2, <3>3, <3>4, FS_PigeonHole
    <3>. QED
      BY <3>5, <3>6
  <2>4. \A i \in DOMAIN store :
          /\ store[i].id \in DOMAIN previewed
          /\ store[i].status \in DeploymentRecordStatus
          /\ store[i].previous \in {NoId} \cup DOMAIN previewed
    BY <2>1, RecordFields
  <2>5. \A c \in Calls : call[c].at \in {"idle", "put", "refresh", "start", "submit"}
    BY <1>1, CallKinds DEF ConfirmationInv
  <2>. QED
    BY <1>1, <2>1, <2>3, <2>4, <2>5 DEF ConfirmationInv, HistoryInv, ArmInv, TypeOK
<1>. QED
  BY <1>1, ConfirmationInvariant, PTL
=============================================================================
