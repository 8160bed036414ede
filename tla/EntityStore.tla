------------------------------ MODULE EntityStore ------------------------------
(***************************************************************************)
(* The resource of a generated application with in-memory repositories     *)
(* (backends/python_fastapi/target.py emits app/repositories/*.py and      *)
(* app/services/*.py): one tenant-scoped entity with a unique field, a     *)
(* non-negative field and an invariant over two fields.                    *)
(*                                                                         *)
(* Routes are plain `def`s, so FastAPI runs requests in a thread pool.     *)
(* Each repository method takes the lock for a dictionary access, but the  *)
(* service and the repository read an item in one critical section and     *)
(* store what they made of it in another.                                  *)
(***************************************************************************)
EXTENDS Integers, FiniteSets, Bags

CONSTANTS
  Threads,      (* the worker threads that serve requests                  *)
  Tenants,      (* what the tenant header may say                          *)
  Ids,          (* what uuid4() may return: bounds the number of creates   *)
  Keys,         (* values of the unique field                              *)
  NoKey,        (* the unique field is optional; this stands for null      *)
  Lows, Highs,  (* values of the two fields: low must not be negative, and *)
                (* the entity's invariant is low <= high                   *)
  Unset,        (* a field the payload of an update leaves out             *)
  None,         (* no item, no id, no tenant                               *)
  MaxRequests   (* bound: how many requests arrive                         *)

ASSUME NoKeyAssumption == NoKey \notin Keys
ASSUME UnsetAssumption == Unset \notin Keys \cup {NoKey} \cup Lows \cup Highs \cup Tenants
ASSUME AmountAssumption == Lows \subseteq Int /\ Highs \subseteq Int
ASSUME ThreadsAssumption == IsFiniteSet(Threads)
ASSUME BoundAssumption == MaxRequests \in Nat

VARIABLES
  items,    (* Repository._items                                           *)
  audit,    (* AuditLog._events, as a bag                                  *)
  thread,   (* per thread: where its request is, its inputs and locals     *)
  issued,   (* the identifiers uuid4() has returned so far                 *)
  arrived,  (* how many requests have arrived                              *)
  raced     (* history: an update has met another request in service       *)

vars == <<items, audit, thread, issued, arrived, raced>>

-----------------------------------------------------------------------------
Item == [tenant : Tenants, key : Keys \cup {NoKey}, low : Lows, high : Highs]

ASSUME NoneAssumption == None \notin Ids \cup Item

(* The payload of a create sets every field; the one of an update may also *)
(* leave fields out.  The model's updates set one field (the tenant, which *)
(* a client may send and the repository ignores, apart).                   *)
Change == [tenant : Tenants \cup {Unset}, key : Keys \cup {NoKey, Unset},
           low : Lows \cup {Unset}, high : Highs \cup {Unset}]

OneField(c) == Cardinality({f \in {"key", "low", "high"} : c[f] # Unset}) <= 1

Updates == {c \in Change : OneField(c)}

Event == [type : {"created", "updated", "deleted"}, id : Ids, tenant : Tenants]

Free == [at |-> "free", tenant |-> None, id |-> None, payload |-> None,
         current |-> None]

Busy == {t \in Threads : thread[t].at # "free"}

(* merged.update(data): the tenant of the payload has been popped before.  *)
Merge(current, c) ==
  [f \in DOMAIN current |->
     IF f # "tenant" /\ c[f] # Unset THEN c[f] ELSE current[f]]

(* What get() finds for a tenant.                                          *)
Visible(id, tenant) == items[id] # None /\ items[id].tenant = tenant

(* Faulty variant: values are compared with the items of other tenants.    *)
ForeignConflict(tenant, key, ignored) ==
  \E id \in Ids \ {ignored}, other \in Tenants \ {tenant} :
    Visible(id, other) /\ items[id].key = key

(* _raise_on_unique_conflict: data.get() of a field left out is null, and  *)
(* null equals null.                                                       *)
Conflict(tenant, key, ignored) ==
  \E id \in Ids \ {ignored} :
    Visible(id, tenant) /\ items[id].key = (IF key = Unset THEN NoKey ELSE key)

-----------------------------------------------------------------------------
Init ==
  /\ items = [id \in Ids |-> None]
  /\ audit = EmptyBag
  /\ thread = [t \in Threads |-> Free]
  /\ issued = {}
  /\ arrived = 0
  /\ raced = FALSE

Go(t, point) == thread' = [thread EXCEPT ![t].at = point]

(* A domain error or an exception: the request is answered with it.        *)
Fail(t) == thread' = [thread EXCEPT ![t] = Free]

Updating == {t \in Busy : thread[t].at \in {"judge", "reread", "store"}}

Take(t, point, tenant, id, payload) ==
  /\ thread[t] = Free
  /\ arrived < MaxRequests
  /\ arrived' = arrived + 1
  /\ thread' = [thread EXCEPT ![t] = [Free EXCEPT !.at = point, !.tenant = tenant,
                                        !.id = id, !.payload = payload]]
  /\ raced' = (raced \/ Updating # {} \/ (point = "judge" /\ Busy # {}))
  /\ UNCHANGED <<items, audit, issued>>

Creating == {t \in Busy : thread[t].at = "insert"}

ArriveCreate(t) ==
  /\ Cardinality(issued) + Cardinality(Creating) < Cardinality(Ids)
  /\ \E tenant \in Tenants, payload \in Item : Take(t, "insert", tenant, None, payload)

ArriveUpdate(t) ==
  \E tenant \in Tenants, id \in issued, payload \in Updates :
    Take(t, "judge", tenant, id, payload)

ArriveDelete(t) ==
  \E tenant \in Tenants, id \in issued : Take(t, "find", tenant, id, None)

-----------------------------------------------------------------------------
(* Service.create validates the payload, and the invariants of the entity  *)
(* are not among what it validates; then Repository.create: the tenant of  *)
(* the request replaces the payload's, the conflict check and the new item *)
(* are one critical section.                                               *)
Insert(t) ==
  LET r == thread[t] IN
  /\ r.at = "insert"
  /\ IF r.payload.low < 0 \/ Conflict(r.tenant, r.payload.key, None)
       THEN Fail(t) /\ UNCHANGED <<items, issued>>
       ELSE \E id \in Ids \ issued :
              /\ items' = [items EXCEPT ![id] = [r.payload EXCEPT !.tenant = r.tenant]]
              /\ issued' = issued \cup {id}
              /\ thread' = [thread EXCEPT ![t].at = "created", ![t].id = id]
  /\ UNCHANGED <<audit, arrived, raced>>

(* Faulty variant: the invariants of the entity are forgotten.             *)
AcceptableAmount(item) == item.low >= 0

(* The domain validation of a candidate, then the invariants of its entity. *)
Acceptable(item) == item.low >= 0 /\ item.low <= item.high

(* Service.update reads the item and judges the candidate it makes of it.  *)
Judge(t) ==
  LET r == thread[t] IN
  /\ r.at = "judge"
  /\ IF Visible(r.id, r.tenant) /\ Acceptable(Merge(items[r.id], r.payload))
       THEN Go(t, "reread")
       ELSE Fail(t)
  /\ UNCHANGED <<items, audit, issued, arrived, raced>>

(* Repository.update: `current` is read under the lock, which is then      *)
(* released and taken again.                                               *)
Reread(t) ==
  LET r == thread[t] IN
  /\ r.at = "reread"
  /\ IF Visible(r.id, r.tenant)
       THEN thread' = [thread EXCEPT ![t].at = "store", ![t].current = items[r.id]]
       ELSE Fail(t)
  /\ UNCHANGED <<items, audit, issued, arrived, raced>>

Store(t) ==
  LET r == thread[t] IN
  /\ r.at = "store"
  /\ IF Conflict(r.tenant, r.payload.key, r.id)
       THEN Fail(t) /\ UNCHANGED items
       ELSE /\ items' = [items EXCEPT ![r.id] = Merge(r.current, r.payload)]
            /\ thread' = [thread EXCEPT ![t].at = "updated", ![t].current = None]
  /\ UNCHANGED <<audit, issued, arrived, raced>>

(* Repository.delete: the item is looked up in one critical section and    *)
(* deleted in another; gone in between, `del` raises KeyError.             *)
Find(t) ==
  LET r == thread[t] IN
  /\ r.at = "find"
  /\ IF Visible(r.id, r.tenant) THEN Go(t, "remove") ELSE Fail(t)
  /\ UNCHANGED <<items, audit, issued, arrived, raced>>

(* Faulty variant: an item that is already gone is deleted once more.      *)
RemoveQuietly(t) ==
  LET r == thread[t] IN
  /\ r.at = "remove"
  /\ items' = [items EXCEPT ![r.id] = None]
  /\ Go(t, "deleted")
  /\ UNCHANGED <<audit, issued, arrived, raced>>

Remove(t) ==
  LET r == thread[t] IN
  /\ r.at = "remove"
  /\ items' = [items EXCEPT ![r.id] = None]
  /\ IF items[r.id] = None THEN Fail(t) ELSE Go(t, "deleted")
  /\ UNCHANGED <<audit, issued, arrived, raced>>

(* AuditLog.record, and the response.                                      *)
Record(t) ==
  LET r == thread[t] IN
  /\ r.at \in {"created", "updated", "deleted"}
  /\ audit' = audit (+) SetToBag({[type |-> r.at, id |-> r.id, tenant |-> r.tenant]})
  /\ thread' = [thread EXCEPT ![t] = Free]
  /\ UNCHANGED <<items, issued, arrived, raced>>

Next ==
  \E t \in Threads :
    \/ ArriveCreate(t) \/ ArriveUpdate(t) \/ ArriveDelete(t)
    \/ Insert(t)
    \/ Judge(t) \/ Reread(t) \/ Store(t)
    \/ Find(t) \/ Remove(t)
    \/ Record(t)

Spec == Init /\ [][Next]_vars

-----------------------------------------------------------------------------
Points == {"free", "insert", "judge", "reread", "store", "find", "remove",
           "created", "updated", "deleted"}

(* What a thread keeps of the request it serves.                           *)
Local == [at : Points, tenant : Tenants \cup {None}, id : Ids \cup {None},
          payload : Change \cup {None}, current : Item \cup {None}]

(* Every stored item is complete, and what a thread keeps is of the right  *)
(* kind.                                                                   *)
TypeOK ==
  /\ items \in [Ids -> Item \cup {None}]
  /\ IsABag(audit) /\ BagToSet(audit) \subseteq Event
  /\ thread \in [Threads -> Local]
  /\ issued \subseteq Ids
  /\ arrived \in 0 .. MaxRequests
  /\ raced \in BOOLEAN

Events(id, type) == {e \in BagToSet(audit) : e.id = id /\ e.type = type}

Counted(id, type) ==
  Cardinality(Events(id, type))
    + Cardinality({t \in Threads : thread[t].at = type /\ thread[t].id = id})

(* Values of the unique field are unique within a tenant, null included,   *)
(* as long as no update has met another request: creates and deletes may   *)
(* interleave as they like, since a create checks and inserts in one       *)
(* critical section.                                                       *)
Unique ==
  \A i, j \in Ids :
    i # j /\ items[i] # None /\ items[j] # None /\ items[i].tenant = items[j].tenant
      => items[i].key # items[j].key

UniqueUnlessRaced == ~raced => Unique

(* An update that meets no other request leaves an item that satisfies the *)
(* invariants of its entity, and changes no field it was not asked to.     *)
LoneUpdatesAreExact ==
  [][\A t \in Threads :
       ~raced /\ thread[t].at = "store" /\ thread'[t].at = "updated" =>
         LET id == thread[t].id  c == thread[t].payload IN
         /\ items[id] # None
         /\ items'[id].low <= items'[id].high
         /\ \A f \in {"tenant", "key", "low", "high"} :
              items'[id][f] # items[id][f] => c[f] = items'[id][f]]_vars

(* The audit log tells which items exist and whose they are.  All that is  *)
(* audited about an item is of one tenant, to which it belongs (the tenant *)
(* contract of docs/V2_0_PLATFORM.md, whatever tenant a payload names).    *)
(* Counting the events about to be recorded, each item was created once,   *)
(* and as long as no update has raced it is gone if and only if its one    *)
(* deletion is in the log.  Two deletes of one item leave one event, since *)
(* the later one raises.                                                   *)
AuditTellsWhatExists ==
  /\ \A e \in BagToSet(audit), f \in BagToSet(audit) : e.id = f.id => e.tenant = f.tenant
  /\ \A id \in Ids, e \in BagToSet(audit) :
       items[id] # None /\ e.id = id => items[id].tenant = e.tenant
  /\ \A id \in Ids : Counted(id, "created") = (IF id \in issued THEN 1 ELSE 0)
  /\ ~raced =>
       \A id \in issued :
         /\ (items[id] = None) = (Counted(id, "deleted") = 1)
         /\ \A e \in Events(id, "deleted") : audit[e] = 1
-----------------------------------------------------------------------------
(* The inductive invariants behind the properties above.                   *)

(* What is stored and what is audited was issued before; what a request    *)
(* carries fits the point it has reached.                                  *)
RequestsInv ==
  /\ \A id \in Ids : items[id] # None => id \in issued
  /\ \A e \in BagToSet(audit) : e.id \in issued
  /\ IsFiniteSet(BagToSet(audit))
  /\ \A t \in Threads :
       LET r == thread[t] IN
       /\ r.at # "free" => r.tenant \in Tenants
       /\ r.at = "insert" => r.payload \in Item
       /\ r.at \in {"judge", "reread", "store"} => r.payload \in Change
       /\ r.at \notin {"free", "insert"} => r.id \in issued
       /\ r.at = "store" => r.current # None /\ r.current.tenant = r.tenant

(* The requests that have found their item: whoever meets it later, a      *)
(* stored copy included, met it for the same tenant.                       *)
Found == {"reread", "store", "remove", "created", "updated", "deleted"}

Owns(id, tenant) ==
  \/ Visible(id, tenant)
  \/ \E e \in BagToSet(audit) : e.id = id /\ e.tenant = tenant
  \/ \E t \in Threads :
       /\ thread[t].at \in Found
       /\ thread[t].id = id /\ thread[t].tenant = tenant

OneOwner == \A id \in Ids : \A a, b \in Tenants : Owns(id, a) /\ Owns(id, b) => a = b

CreatedOnce ==
  \A id \in Ids : Counted(id, "created") = IF id \in issued THEN 1 ELSE 0

(* Without a race, an item is gone exactly when one deletion of it has been *)
(* recorded or is about to be.                                             *)
DeletedOnce == ~raced =>
  \A id \in Ids :
    /\ Counted(id, "deleted") = IF id \in issued /\ items[id] = None THEN 1 ELSE 0
    /\ \A e \in Events(id, "deleted") : audit[e] = 1

(* Without a race, an update has the store for itself, and the item it     *)
(* judged and the one it reads again are the one it will replace.          *)
AloneInv == ~raced =>
  /\ \A t \in Updating, u \in Busy : t = u
  /\ \A t \in Threads :
       LET r == thread[t] IN
       /\ r.at = "reread" =>
            Visible(r.id, r.tenant) /\ Acceptable(Merge(items[r.id], r.payload))
       /\ r.at = "store" =>
            items[r.id] = r.current /\ Acceptable(Merge(r.current, r.payload))

StoreInv ==
  /\ RequestsInv /\ OneOwner /\ CreatedOnce /\ DeletedOnce
  /\ AloneInv /\ UniqueUnlessRaced
=============================================================================
