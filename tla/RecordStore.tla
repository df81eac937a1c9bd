----------------------------- MODULE RecordStore -----------------------------
(***************************************************************************)
(* What the two stores of deployment records answer                        *)
(* (src/deployments/store-azure.ts, src/deployments/store-memory.ts).  A   *)
(* store is the sequence of its records in the order they were put.  An    *)
(* id stands for a random UUID: rowKey gives the order of the UUIDs, which *)
(* says nothing of the records' ages; born is a record's createdAt.        *)
(***************************************************************************)
EXTENDS DeploymentRecords, Sequences, SequencesExt, FiniteSets

CONSTANTS
  MaxRecords,   (* maxRecords of the in-memory store                       *)
  LookupLimit,  (* how many entities findByConfirmationHash reads (5)      *)
  ListLimit     (* how many entities findPreviousSuccessful reads (20)     *)

ASSUME StoreAssumption ==
  /\ MaxRecords \in Nat \ {0}
  /\ LookupLimit \in Nat \ {0}
  /\ ListLimit \in Nat \ {0}

NoRecord == [id |-> 0]

(* Deviation: what is stored is anybody's.                                 *)
AnybodysRecords(store, principal) == Range(store)

(* The partition key, and fromEntity once more, keep a caller to his own.  *)
RecordsOf(store, principal) ==
  {record \in Range(store) : record.principal = principal}

(* get                                                                     *)
get(store, id, principal) ==
  LET mine == {record \in RecordsOf(store, principal) : record.id = id} IN
  IF mine = {} THEN NoRecord ELSE CHOOSE record \in mine : TRUE

(* Latest first is how every caller reads the answer of a query.           *)
Latest(records) ==
  IF records = {} THEN NoRecord
  ELSE CHOOSE record \in records : \A other \in records : other.born <= record.born

(* query: the service delivers entities in row-key order, reading stops at *)
(* the limit, and only what was read is sorted by age.                     *)
query(rowKey, matches, limit) ==
  {record \in matches :
     Cardinality({other \in matches : rowKey[other.id] < rowKey[record.id]}) < limit}

(* findByConfirmationHash: the Azure store takes the latest of what a      *)
(* query delivers, the in-memory one whatever was put last.                *)
findByConfirmationHash(backend, rowKey, store, hash, principal) ==
  LET matches == {record \in RecordsOf(store, principal) : record.hash = hash} IN
  IF backend = "azure" THEN Latest(query(rowKey, matches, LookupLimit))
  ELSE LET places == {i \in DOMAIN store : store[i] \in matches} IN
       IF places = {} THEN NoRecord
       ELSE store[CHOOSE i \in places : \A j \in places : j <= i]

(* listByScope: the in-memory store sorts before it stops at the limit.    *)
listByScope(backend, rowKey, store, scope, principal) ==
  LET matches == {record \in RecordsOf(store, principal) : record.scope = scope}
  IN IF backend = "azure" THEN query(rowKey, matches, ListLimit)
     ELSE {record \in matches :
             Cardinality({other \in matches : other.born > record.born}) < ListLimit}

(* Deviation: the in-memory store keeps what it is given.                  *)
putKeepingAll(backend, store, record) == Append(store, record)

(* put of a new record: the in-memory store forgets its oldest records,    *)
(* whatever their status.                                                  *)
put(backend, store, record) ==
  LET longer == Append(store, record) IN
  IF backend = "memory" /\ Len(longer) > MaxRecords THEN Tail(longer) ELSE longer

(* patch, once it succeeds: the record keeps its place.                    *)
patch(store, id, status, expectedStatuses) ==
  [i \in DOMAIN store |->
     IF store[i].id = id
     THEN [store[i] EXCEPT !.status = Patched(@, status, expectedStatuses)]
     ELSE store[i]]
=============================================================================
