-------------------------- MODULE EntityStoreProofs --------------------------
(***************************************************************************)
(* Theorems about EntityStore, for any number of threads, tenants, items   *)
(* and requests, and any values of the fields.                             *)
(***************************************************************************)
EXTENDS EntityStore, FiniteSetTheorems, TLAPS

(* What an update asks for replaces a field, what it leaves out does not;  *)
(* the tenant stays what it was.                                           *)
LEMMA MergeFields ==
  ASSUME NEW current \in Item, NEW c \in Change
  PROVE  /\ Merge(current, c) \in Item
         /\ Merge(current, c).tenant = current.tenant
         /\ Merge(current, c).key = IF c.key # Unset THEN c.key ELSE current.key
         /\ \A f \in {"tenant", "key", "low", "high"} :
              Merge(current, c)[f] # current[f] => c[f] = Merge(current, c)[f]
<1> DEFINE m == Merge(current, c)
           field(f) == IF f # "tenant" /\ c[f] # Unset THEN c[f] ELSE current[f]
<1>1. DOMAIN current = {"tenant", "key", "low", "high"}
  BY DEF Item
<1>2. /\ DOMAIN m = {"tenant", "key", "low", "high"}
      /\ m = [f \in {"tenant", "key", "low", "high"} |-> field(f)]
  BY <1>1 DEF Merge
<1>3. /\ m["tenant"] = current["tenant"]
      /\ m["key"] = IF c["key"] # Unset THEN c["key"] ELSE current["key"]
      /\ m["low"] = IF c["low"] # Unset THEN c["low"] ELSE current["low"]
      /\ m["high"] = IF c["high"] # Unset THEN c["high"] ELSE current["high"]
  BY <1>2
<1>4. m = [tenant |-> m["tenant"], key |-> m["key"], low |-> m["low"],
           high |-> m["high"]]
  BY <1>2
<1>5. m \in Item
  BY <1>3, <1>4 DEF Item, Change
<1>6. QED
  BY <1>3, <1>5

-----------------------------------------------------------------------------
(* A step of t leaves what the other threads keep alone.                   *)
OthersKept(t) == \A u \in Threads \ {t} : thread'[u] = thread[u]

(* The fields of a request that no step of it changes.                     *)
InputsKept(t) ==
  /\ thread' \in [Threads -> Local] /\ OthersKept(t)
  /\ thread'[t].tenant = thread[t].tenant
  /\ thread'[t].payload = thread[t].payload

(* Replacing what one thread keeps.                                        *)
LEMMA SetLocal ==
  ASSUME TypeOK, NEW t \in Threads, NEW l \in Local,
         thread' = [thread EXCEPT ![t] = l]
  PROVE  thread' \in [Threads -> Local] /\ thread'[t] = l /\ OthersKept(t)
BY DEF TypeOK, OthersKept

(* A free thread has the locals of a thread.                               *)
LEMMA FreeIsLocal == Free \in Local
BY DEF Free, Local, Points

(* A request that ends leaves its thread free.                             *)
LEMMA FailEffect ==
  ASSUME TypeOK, NEW t \in Threads, thread' = [thread EXCEPT ![t] = Free]
  PROVE  /\ thread' \in [Threads -> Local] /\ OthersKept(t)
         /\ thread'[t].at = "free"
BY FreeIsLocal, SetLocal DEF Free

(* A step that only moves a request on.                                    *)
LEMMA GoEffect ==
  ASSUME TypeOK, NEW t \in Threads, NEW point \in Points, Go(t, point)
  PROVE  /\ InputsKept(t) /\ thread'[t].at = point
         /\ thread'[t].id = thread[t].id /\ thread'[t].current = thread[t].current
<1> DEFINE l == [thread[t] EXCEPT !.at = point]
<1>1. thread' = [thread EXCEPT ![t] = l]
  BY DEF Go, TypeOK
<1>2. l \in Local
  BY DEF TypeOK, Local
<1>3. /\ l.at = point /\ l.tenant = thread[t].tenant /\ l.id = thread[t].id
      /\ l.payload = thread[t].payload /\ l.current = thread[t].current
  BY DEF TypeOK, Local
<1> HIDE DEF l
<1>4. QED
  BY <1>1, <1>2, <1>3, SetLocal DEF InputsKept

(* A request that is taken gives its thread the inputs it came with.       *)
LEMMA TakeEffect ==
  ASSUME TypeOK, NEW t \in Threads, NEW point \in {"insert", "judge", "find"},
         NEW tenant \in Tenants, NEW id \in Ids \cup {None},
         NEW payload \in Change \cup {None}, Take(t, point, tenant, id, payload)
  PROVE  /\ thread' \in [Threads -> Local] /\ OthersKept(t)
         /\ thread[t].at = "free" /\ thread'[t].at = point
         /\ thread'[t].tenant = tenant /\ thread'[t].id = id
         /\ thread'[t].payload = payload
         /\ arrived' \in 0 .. MaxRequests
<1> DEFINE l == [Free EXCEPT !.at = point, !.tenant = tenant, !.id = id,
                             !.payload = payload]
<1>1. thread' = [thread EXCEPT ![t] = l]
  BY DEF Take
<1>2. l \in Local
  BY FreeIsLocal DEF Local, Points
<1>3. /\ l.at = point /\ l.tenant = tenant /\ l.id = id /\ l.payload = payload
  BY DEF Free
<1>4. thread[t].at = "free"
  BY DEF Take, Free
<1>5. arrived' \in 0 .. MaxRequests
  BY BoundAssumption DEF Take, TypeOK
<1> HIDE DEF l
<1>6. QED
  BY <1>1, <1>2, <1>3, <1>4, <1>5, SetLocal

(* The payload of a create is one of the changes, that of an update too.   *)
LEMMA Payloads == Item \subseteq Change /\ Updates \subseteq Change
BY DEF Item, Change, Updates

Arrive(t) == ArriveCreate(t) \/ ArriveUpdate(t) \/ ArriveDelete(t)

(* A request comes with a tenant and with what its kind needs; an update   *)
(* that meets another request in service makes a race of it.               *)
LEMMA ArriveEffect ==
  ASSUME TypeOK, NEW t \in Threads, Arrive(t)
  PROVE  /\ thread' \in [Threads -> Local] /\ OthersKept(t)
         /\ thread[t].at = "free" /\ thread'[t].tenant \in Tenants
         /\ arrived' \in 0 .. MaxRequests
         /\ UNCHANGED <<items, audit, issued>>
         /\ \/ thread'[t].at = "insert" /\ thread'[t].payload \in Item
            \/ /\ thread'[t].at = "judge" /\ thread'[t].payload \in Change
               /\ thread'[t].id \in issued
            \/ thread'[t].at = "find" /\ thread'[t].id \in issued
         /\ raced' = (raced \/ Updating # {} \/ (thread'[t].at = "judge" /\ Busy # {}))
<1>1. CASE ArriveCreate(t)
  <2>1. PICK tenant \in Tenants, payload \in Item :
          Take(t, "insert", tenant, None, payload)
    BY <1>1 DEF ArriveCreate
  <2>2. /\ thread' \in [Threads -> Local] /\ OthersKept(t)
        /\ thread[t].at = "free" /\ thread'[t].at = "insert"
        /\ thread'[t].tenant = tenant /\ thread'[t].payload = payload
        /\ arrived' \in 0 .. MaxRequests
    BY <2>1, Payloads, TakeEffect
  <2>3. QED
    BY <2>1, <2>2 DEF Take
<1>2. CASE ArriveUpdate(t)
  <2>1. PICK tenant \in Tenants, id \in issued, payload \in Updates :
          Take(t, "judge", tenant, id, payload)
    BY <1>2 DEF ArriveUpdate
  <2>2. id \in Ids /\ payload \in Change
    BY Payloads DEF TypeOK
  <2>3. /\ thread' \in [Threads -> Local] /\ OthersKept(t)
        /\ thread[t].at = "free" /\ thread'[t].at = "judge"
        /\ thread'[t].tenant = tenant /\ thread'[t].payload = payload
        /\ thread'[t].id = id /\ arrived' \in 0 .. MaxRequests
    BY <2>1, <2>2, TakeEffect
  <2>4. QED
    BY <2>1, <2>2, <2>3 DEF Take
<1>3. CASE ArriveDelete(t)
  <2>1. PICK tenant \in Tenants, id \in issued : Take(t, "find", tenant, id, None)
    BY <1>3 DEF ArriveDelete
  <2>2. id \in Ids
    BY DEF TypeOK
  <2>3. /\ thread' \in [Threads -> Local] /\ OthersKept(t)
        /\ thread[t].at = "free" /\ thread'[t].at = "find"
        /\ thread'[t].tenant = tenant /\ thread'[t].id = id
        /\ arrived' \in 0 .. MaxRequests
    BY <2>1, <2>2, TakeEffect
  <2>4. QED
    BY <2>1, <2>3 DEF Take
<1>4. QED
  BY <1>1, <1>2, <1>3 DEF Arrive

(* A create either fails and leaves no trace or puts one new item of the   *)
(* tenant of the request into the store.                                   *)
Inserted(t, id, item) ==
  /\ items' = [items EXCEPT ![id] = item] /\ issued' = issued \cup {id}
  /\ item \in Item /\ item.tenant = thread[t].tenant
  /\ item.key = thread[t].payload.key
  /\ ~Conflict(thread[t].tenant, thread[t].payload.key, None)
  /\ InputsKept(t) /\ thread'[t].at = "created" /\ thread'[t].id = id

(* A create fails and leaves the items, or adds one under a fresh id.      *)
LEMMA InsertEffect ==
  ASSUME TypeOK, RequestsInv, NEW t \in Threads, Insert(t)
  PROVE  \/ Fail(t) /\ UNCHANGED <<items, issued>>
         \/ \E id \in Ids \ issued, item \in Item : Inserted(t, id, item)
<1> DEFINE r == thread[t]
           item == [r.payload EXCEPT !.tenant = r.tenant]
<1>1. CASE r.payload.low < 0 \/ Conflict(r.tenant, r.payload.key, None)
  BY <1>1 DEF Insert
<1>2. CASE ~(r.payload.low < 0 \/ Conflict(r.tenant, r.payload.key, None))
  <2>1. PICK id \in Ids \ issued :
          /\ items' = [items EXCEPT ![id] = item]
          /\ issued' = issued \cup {id}
          /\ thread' = [thread EXCEPT ![t].at = "created", ![t].id = id]
    BY <1>2 DEF Insert
  <2>2. item \in Item /\ item.tenant = r.tenant /\ item.key = r.payload.key
    BY DEF Insert, RequestsInv, Item
  <2> DEFINE l == [r EXCEPT !.at = "created", !.id = id]
  <2>3. thread' = [thread EXCEPT ![t] = l]
    BY <2>1 DEF TypeOK
  <2>4. l \in Local
    BY DEF TypeOK, Local, Points
  <2>5. /\ l.at = "created" /\ l.tenant = r.tenant /\ l.id = id
        /\ l.payload = r.payload
    BY DEF TypeOK, Local
  <2>6. InputsKept(t) /\ thread'[t].at = "created" /\ thread'[t].id = id
    <3> HIDE DEF l
    <3>1. QED
      BY <2>3, <2>4, <2>5, SetLocal DEF InputsKept
  <2> HIDE DEF item
  <2>7. Inserted(t, id, item)
    BY <1>2, <2>1, <2>2, <2>6 DEF Inserted
  <2>8. QED
    BY <2>2, <2>7
<1>3. QED
  BY <1>1, <1>2

(* An update that re-reads fails, or holds the item as it is then.         *)
LEMMA RereadEffect ==
  ASSUME TypeOK, RequestsInv, NEW t \in Threads, Reread(t)
  PROVE  \/ Fail(t)
         \/ /\ Visible(thread[t].id, thread[t].tenant)
            /\ InputsKept(t) /\ thread'[t].at = "store"
            /\ thread'[t].id = thread[t].id
            /\ thread'[t].current = items[thread[t].id]
<1> DEFINE r == thread[t]
           l == [r EXCEPT !.at = "store", !.current = items[r.id]]
<1>1. CASE Visible(r.id, r.tenant)
  <2>1. thread' = [thread EXCEPT ![t] = l]
    BY <1>1 DEF Reread, TypeOK
  <2>2. items[r.id] \in Item
    BY <1>1 DEF Reread, RequestsInv, TypeOK, Visible
  <2>3. l \in Local /\ /\ l.at = "store" /\ l.tenant = r.tenant /\ l.id = r.id
        /\ l.payload = r.payload /\ l.current = items[r.id]
    BY <2>2 DEF TypeOK, Local, Points
  <2> HIDE DEF l
  <2>4. QED
    BY <1>1, <2>1, <2>3, SetLocal DEF InputsKept
<1>2. QED
  BY <1>1 DEF Reread

(* What an update puts into the store is its copy of the item, merged with *)
(* its payload, whatever the store holds by then.                          *)
Stored(t) ==
  /\ items' = [items EXCEPT ![thread[t].id] =
                  Merge(thread[t].current, thread[t].payload)]
  /\ thread[t].id \in Ids
  /\ thread[t].current \in Item /\ thread[t].payload \in Change
  /\ Merge(thread[t].current, thread[t].payload) \in Item
  /\ Merge(thread[t].current, thread[t].payload).tenant = thread[t].tenant
  /\ ~Conflict(thread[t].tenant, thread[t].payload.key, thread[t].id)
  /\ InputsKept(t) /\ thread'[t].at = "updated" /\ thread'[t].id = thread[t].id

(* An update that stores fails and leaves the items, or merges into its    *)
(* own.                                                                    *)
LEMMA StoreEffect ==
  ASSUME TypeOK, RequestsInv, NEW t \in Threads, Store(t)
  PROVE  (Fail(t) /\ UNCHANGED items) \/ Stored(t)
<1> DEFINE r == thread[t]
           l == [r EXCEPT !.at = "updated", !.current = None]
<1>1. CASE Conflict(r.tenant, r.payload.key, r.id)
  BY <1>1 DEF Store
<1>2. CASE ~Conflict(r.tenant, r.payload.key, r.id)
  <2>1. /\ items' = [items EXCEPT ![r.id] = Merge(r.current, r.payload)]
        /\ thread' = [thread EXCEPT ![t] = l]
    BY <1>2 DEF Store, TypeOK
  <2>2. /\ r.id \in Ids /\ r.payload \in Change /\ r.current \in Item
        /\ r.current.tenant = r.tenant
    BY DEF Store, RequestsInv, TypeOK, Local
  <2>3. l \in Local /\ /\ l.at = "updated" /\ l.tenant = r.tenant /\ l.id = r.id
        /\ l.payload = r.payload
    BY DEF TypeOK, Local, Points
  <2> HIDE DEF l
  <2>4. InputsKept(t) /\ thread'[t].at = "updated" /\ thread'[t].id = r.id
    BY <2>1, <2>3, SetLocal DEF InputsKept
  <2>5. QED
    BY <1>2, <2>1, <2>2, <2>4, MergeFields DEF Stored
<1>3. QED
  BY <1>1, <1>2

(* The event that a request records.                                       *)
EventOf(t) == [type |-> thread[t].at, id |-> thread[t].id, tenant |-> thread[t].tenant]

(* A request that records adds its event to the bag and is done.           *)
LEMMA RecordEffect ==
  ASSUME TypeOK, RequestsInv, NEW t \in Threads, Record(t)
  PROVE  /\ Fail(t) /\ EventOf(t) \in Event
         /\ EventOf(t).type = thread[t].at /\ EventOf(t).id = thread[t].id
         /\ EventOf(t).tenant = thread[t].tenant
         /\ IsABag(audit') /\ BagToSet(audit') = BagToSet(audit) \cup {EventOf(t)}
         /\ \A f \in BagToSet(audit') :
              audit'[f] = (IF f \in BagToSet(audit) THEN audit[f] ELSE 0)
                            + (IF f = EventOf(t) THEN 1 ELSE 0)
<1>1. audit' = audit (+) SetToBag({EventOf(t)}) /\ Fail(t)
  BY DEF Record, EventOf, Fail
<1>2. /\ EventOf(t).type = thread[t].at /\ EventOf(t).id = thread[t].id
      /\ EventOf(t).tenant = thread[t].tenant
  BY DEF EventOf
<1>3. EventOf(t) \in Event
  BY DEF Record, EventOf, Event, RequestsInv, TypeOK
<1>4. IsABag(audit)
  BY DEF TypeOK
<1>5. PICK e : e = EventOf(t)
  OBVIOUS
<1>6. audit' = audit (+) SetToBag({e})
  BY <1>1, <1>5
<1>7. /\ IsABag(audit') /\ BagToSet(audit') = BagToSet(audit) \cup {e}
      /\ \A f \in BagToSet(audit') :
           audit'[f] = (IF f \in BagToSet(audit) THEN audit[f] ELSE 0)
                         + (IF f = e THEN 1 ELSE 0)
  BY <1>4, <1>6 DEF IsABag, SetToBag, BagToSet, (+)
<1>8. QED
  BY <1>1, <1>2, <1>3, <1>5, <1>7

(* The steps of a request that leave the store and the log as they are.    *)
LEMMA OnlyReads ==
  ASSUME NEW t \in Threads, Arrive(t) \/ Judge(t) \/ Reread(t) \/ Find(t)
  PROVE  UNCHANGED <<items, audit, issued>>
BY DEF Arrive, ArriveCreate, ArriveUpdate, ArriveDelete, Take, Judge, Reread, Find

(* Judge, Find and Remove let a request go on or end it.                   *)
LEMMA LookEffect ==
  ASSUME NEW t \in Threads
  PROVE  /\ Judge(t) => \/ Fail(t)
                        \/ /\ Go(t, "reread") /\ Visible(thread[t].id, thread[t].tenant)
                           /\ Acceptable(Merge(items[thread[t].id], thread[t].payload))
         /\ Find(t) => \/ Fail(t)
                       \/ Go(t, "remove") /\ Visible(thread[t].id, thread[t].tenant)
         /\ Remove(t) => \/ Fail(t) /\ items[thread[t].id] = None
                         \/ Go(t, "deleted") /\ items[thread[t].id] # None
BY DEF Judge, Find, Remove

(* The store, the log and what the threads keep have their types.          *)
LEMMA StepTypeOK == TypeOK /\ RequestsInv /\ [Next]_vars => TypeOK'
<1> SUFFICES ASSUME TypeOK, RequestsInv, [Next]_vars PROVE TypeOK'
  OBVIOUS
<1>1. ASSUME NEW t \in Threads, Fail(t) PROVE thread' \in [Threads -> Local]
  BY <1>1, FailEffect DEF Fail
<1>2. ASSUME NEW t \in Threads, NEW point \in Points, Go(t, point)
      PROVE  thread' \in [Threads -> Local]
  BY <1>2, GoEffect DEF InputsKept
<1>3. ASSUME NEW t \in Threads, Arrive(t) PROVE TypeOK'
  <2>1. raced' \in BOOLEAN
    BY <1>3 DEF Arrive, ArriveCreate, ArriveUpdate, ArriveDelete, Take
  <2>2. QED
    BY <1>3, <2>1, ArriveEffect DEF TypeOK
<1>4. ASSUME NEW t \in Threads, Insert(t) PROVE TypeOK'
  BY <1>1, <1>4, InsertEffect DEF Insert, Inserted, InputsKept, TypeOK
<1>5. ASSUME NEW t \in Threads, Judge(t) \/ Find(t) PROVE TypeOK'
  <2>1. thread' \in [Threads -> Local]
    BY <1>1, <1>2, <1>5, LookEffect DEF Points
  <2>2. QED
    BY <1>5, <2>1 DEF Judge, Find, TypeOK
<1>6. ASSUME NEW t \in Threads, Reread(t) PROVE TypeOK'
  BY <1>1, <1>6, RereadEffect DEF Reread, InputsKept, TypeOK
<1>7. ASSUME NEW t \in Threads, Store(t) PROVE TypeOK'
  BY <1>1, <1>7, StoreEffect DEF Store, Stored, InputsKept, TypeOK
<1>8. ASSUME NEW t \in Threads, Remove(t) PROVE TypeOK'
  <2>1. thread' \in [Threads -> Local]
    BY <1>1, <1>2, <1>8, LookEffect DEF Points
  <2>2. QED
    BY <1>8, <2>1 DEF Remove, TypeOK
<1>9. ASSUME NEW t \in Threads, Record(t) PROVE TypeOK'
  BY <1>1, <1>9, RecordEffect DEF Record, TypeOK
<1>10. CASE UNCHANGED vars
  BY <1>10 DEF vars, TypeOK
<1>11. QED
  BY <1>3, <1>4, <1>5, <1>6, <1>7, <1>8, <1>9, <1>10 DEF Next, Arrive

-----------------------------------------------------------------------------
(* Nothing issued is forgotten, and a request names nothing that was not.  *)
LEMMA StepRequests == TypeOK /\ RequestsInv /\ [Next]_vars => RequestsInv'
<1> SUFFICES ASSUME TypeOK, RequestsInv, [Next]_vars PROVE RequestsInv'
  OBVIOUS
<1> DEFINE OK(r, from) ==
             /\ r.at # "free" => r.tenant \in Tenants
             /\ r.at = "insert" => r.payload \in Item
             /\ r.at \in {"judge", "reread", "store"} => r.payload \in Change
             /\ r.at \notin {"free", "insert"} => r.id \in from
             /\ r.at = "store" => r.current # None /\ r.current.tenant = r.tenant
           World ==
             /\ \A id \in Ids : items[id] # None => id \in issued
             /\ \A e \in BagToSet(audit) : e.id \in issued
             /\ IsFiniteSet(BagToSet(audit))
<1>a. /\ RequestsInv = (World /\ \A t \in Threads : OK(thread[t], issued))
      /\ RequestsInv' = (World' /\ \A t \in Threads : OK(thread'[t], issued'))
  BY DEF RequestsInv
<1>b. ASSUME NEW t \in Threads, OthersKept(t), issued \subseteq issued', World',
             OK(thread'[t], issued')
      PROVE  RequestsInv'
  BY <1>a, <1>b DEF OthersKept
<1>c. ASSUME NEW t \in Threads, Fail(t), issued' = issued, World' PROVE RequestsInv'
  BY <1>b, <1>c, FailEffect DEF Fail
<1>d. ASSUME UNCHANGED <<items, audit, issued>> PROVE World'
  BY <1>a, <1>d
<1> HIDE DEF World
<1>1. ASSUME NEW t \in Threads, Arrive(t) PROVE RequestsInv'
  BY <1>1, <1>b, <1>d, ArriveEffect
<1>2. ASSUME NEW t \in Threads, Insert(t) PROVE RequestsInv'
  <2>1. CASE Fail(t) /\ UNCHANGED <<items, issued>>
    BY <1>2, <1>c, <1>d, <2>1 DEF Insert
  <2>2. ASSUME NEW id \in Ids \ issued, NEW item \in Item, Inserted(t, id, item)
        PROVE  RequestsInv'
    <3>1. World'
      BY <1>2, <1>a, <2>2 DEF World, Insert, Inserted, TypeOK
    <3>2. OK(thread'[t], issued')
      BY <1>2, <1>a, <2>2 DEF Insert, Inserted, InputsKept
    <3>3. QED
      BY <1>b, <2>2, <3>1, <3>2 DEF Inserted, InputsKept
  <2>3. QED
    BY <1>2, <2>1, <2>2, InsertEffect
<1>3. ASSUME NEW t \in Threads, Judge(t) \/ Find(t) PROVE RequestsInv'
  <2>1. CASE Fail(t)
    BY <1>3, <1>c, <1>d, <2>1, OnlyReads
  <2>2. ASSUME NEW point \in {"reread", "remove"}, Go(t, point),
               point = "reread" => Judge(t)
        PROVE  RequestsInv'
    <3>1. OK(thread[t], issued) /\ thread[t].at \in {"judge", "find"}
      BY <1>3, <1>a DEF Judge, Find
    <3>2. /\ OthersKept(t) /\ thread'[t].at = point /\ thread'[t].id = thread[t].id
          /\ thread'[t].tenant = thread[t].tenant
          /\ thread'[t].payload = thread[t].payload
      BY <2>2, GoEffect DEF InputsKept, Points
    <3>3. point = "reread" => thread[t].at = "judge"
      BY <2>2 DEF Judge
    <3>4. QED
      BY <1>3, <1>b, <1>d, <3>1, <3>2, <3>3, OnlyReads
  <2>3. QED
    BY <1>3, <2>1, <2>2, LookEffect
<1>4. ASSUME NEW t \in Threads, Reread(t) PROVE RequestsInv'
  <2>1. CASE Fail(t)
    BY <1>4, <1>c, <1>d, <2>1, OnlyReads
  <2>2. CASE ~Fail(t)
    <3>1. OK(thread[t], issued) /\ thread[t].at = "reread"
      BY <1>4, <1>a DEF Reread
    <3>2. QED
      BY <1>4, <1>b, <1>d, <2>2, <3>1, OnlyReads, RereadEffect DEF InputsKept, Visible
  <2>3. QED
    BY <2>1, <2>2
<1>5. ASSUME NEW t \in Threads, Store(t) PROVE RequestsInv'
  <2>1. CASE Fail(t) /\ UNCHANGED items
    BY <1>5, <1>c, <1>d, <2>1 DEF Store
  <2>2. CASE Stored(t)
    <3>1. OK(thread[t], issued) /\ thread[t].at = "store"
      BY <1>5, <1>a DEF Store
    <3>2. World'
      BY <1>5, <1>a, <2>2, <3>1 DEF World, Store, Stored, TypeOK
    <3>3. QED
      BY <1>5, <1>b, <2>2, <3>1, <3>2 DEF Store, Stored, InputsKept
  <2>3. QED
    BY <1>5, <2>1, <2>2, StoreEffect
<1>6. ASSUME NEW t \in Threads, Remove(t) PROVE RequestsInv'
  <2>1. World'
    BY <1>6, <1>a DEF World, Remove, TypeOK
  <2>2. CASE Fail(t)
    BY <1>6, <1>c, <2>1, <2>2 DEF Remove
  <2>3. CASE Go(t, "deleted")
    <3>1. OK(thread[t], issued) /\ thread[t].at = "remove"
      BY <1>6, <1>a DEF Remove
    <3>2. QED
      BY <1>6, <1>b, <2>1, <2>3, <3>1, GoEffect DEF InputsKept, Points, Remove
  <2>4. QED
    BY <1>6, <2>2, <2>3, LookEffect
<1>7. ASSUME NEW t \in Threads, Record(t) PROVE RequestsInv'
  <2>1. OK(thread[t], issued) /\ thread[t].at \in {"created", "updated", "deleted"}
    BY <1>7, <1>a DEF Record
  <2>2. BagToSet(audit') = BagToSet(audit) \cup {EventOf(t)}
        /\ EventOf(t).id \in issued
    BY <1>7, <2>1, RecordEffect
  <2>3. IsFiniteSet(BagToSet(audit'))
    <3>1. IsFiniteSet(BagToSet(audit))
      BY <1>a DEF World
    <3>2. IsFiniteSet(BagToSet(audit) \cup {EventOf(t)})
      BY <3>1, FS_AddElement
    <3>3. QED
      BY <2>2, <3>2
  <2>4. World'
    BY <1>7, <1>a, <2>2, <2>3 DEF World, Record
  <2>5. QED
    BY <1>7, <1>c, <2>4, RecordEffect DEF Record
<1>8. CASE UNCHANGED vars
  BY <1>8, <1>a, <1>d DEF vars
<1>9. QED
  BY <1>1, <1>2, <1>3, <1>4, <1>5, <1>6, <1>7, <1>8 DEF Next, Arrive

-----------------------------------------------------------------------------
(* Who an item belongs to is settled by the create that issued it: every   *)
(* other step finds its item for the tenant it belongs to already.         *)
LEMMA OwnersOnlyFound ==
  ASSUME TypeOK, RequestsInv, [Next]_vars, NEW id \in Ids, NEW tenant \in Tenants,
         Owns(id, tenant)'
  PROVE  \/ Owns(id, tenant)
         \/ \E t \in Threads, item \in Item :
              Inserted(t, id, item) /\ id \notin issued /\ tenant = thread[t].tenant
<1> DEFINE Seen(t) == /\ thread[t].at \in Found
                      /\ thread[t].id = id /\ thread[t].tenant = tenant
           Logged == \E e \in BagToSet(audit) : e.id = id /\ e.tenant = tenant
<1>a. /\ Owns(id, tenant) = (Visible(id, tenant) \/ Logged \/ \E t \in Threads : Seen(t))
      /\ Owns(id, tenant)'
           = (Visible(id, tenant)' \/ Logged' \/ \E t \in Threads : Seen(t)')
  BY DEF Owns
<1>b. ASSUME NEW t \in Threads, OthersKept(t), Visible(id, tenant)' => Owns(id, tenant),
             Logged' => Owns(id, tenant), Seen(t)' => Owns(id, tenant)
      PROVE  Owns(id, tenant)
  <2>1. \A u \in Threads \ {t} : Seen(u)' => Seen(u)
    BY <1>b DEF OthersKept
  <2>2. QED
    BY <1>a, <1>b, <2>1
<1>c. ASSUME NEW t \in Threads, Fail(t), Visible(id, tenant)' => Owns(id, tenant),
             Logged' => Owns(id, tenant)
      PROVE  Owns(id, tenant)
  BY <1>b, <1>c, FailEffect DEF Fail, Found
<1>d. ASSUME UNCHANGED items PROVE Visible(id, tenant)' => Owns(id, tenant)
  BY <1>d, <1>a DEF Visible
<1>e. ASSUME UNCHANGED audit PROVE Logged' => Owns(id, tenant)
  BY <1>e, <1>a
<1>1. ASSUME NEW t \in Threads, Arrive(t) PROVE Owns(id, tenant)
  BY <1>1, <1>b, <1>d, <1>e, ArriveEffect DEF Found
<1>2. ASSUME NEW t \in Threads, Insert(t),
             NEW i \in Ids \ issued, NEW item \in Item, Inserted(t, i, item)
      PROVE  \/ Owns(id, tenant)
             \/ Inserted(t, id, item) /\ id \notin issued /\ tenant = thread[t].tenant
  <2>1. CASE i = id
    <3>1. Visible(id, tenant)' => tenant = thread[t].tenant
      BY <1>2, <2>1 DEF Inserted, Visible, TypeOK
    <3>2. Seen(t)' => tenant = thread[t].tenant
      BY <1>2 DEF Inserted, InputsKept
    <3>3. Logged' => Owns(id, tenant)
      BY <1>2, <1>e DEF Insert
    <3>4. CASE tenant # thread[t].tenant
      BY <1>2, <1>b, <3>1, <3>2, <3>3, <3>4 DEF Inserted, InputsKept
    <3>5. QED
      BY <1>2, <2>1, <3>4
  <2>2. CASE i # id
    <3>1. Visible(id, tenant)' => Owns(id, tenant)
      BY <1>2, <1>a, <2>2 DEF Inserted, Visible, TypeOK
    <3>2. ~Seen(t)'
      BY <1>2, <2>2 DEF Inserted
    <3>3. QED
      BY <1>2, <1>b, <1>e, <3>1, <3>2 DEF Inserted, InputsKept, Insert
  <2>3. QED
    BY <2>1, <2>2
<1>3. ASSUME NEW t \in Threads, Insert(t), Fail(t), UNCHANGED items PROVE Owns(id, tenant)
  BY <1>3, <1>c, <1>d, <1>e DEF Insert
<1>4. ASSUME NEW t \in Threads, Judge(t) \/ Find(t) PROVE Owns(id, tenant)
  <2>1. CASE Fail(t)
    BY <1>4, <1>c, <1>d, <1>e, <2>1, OnlyReads
  <2>2. ASSUME NEW point \in {"reread", "remove"}, Go(t, point),
               Visible(thread[t].id, thread[t].tenant)
        PROVE  Owns(id, tenant)
    <3>1. OthersKept(t) /\ thread'[t].id = thread[t].id
          /\ thread'[t].tenant = thread[t].tenant
      BY <2>2, GoEffect DEF InputsKept, Points
    <3>2. Seen(t)' => Owns(id, tenant)
      BY <2>2, <1>a, <3>1
    <3>3. QED
      BY <1>4, <1>b, <1>d, <1>e, <3>1, <3>2, OnlyReads
  <2>3. QED
    BY <1>4, <2>1, <2>2, LookEffect
<1>5. ASSUME NEW t \in Threads, Reread(t) PROVE Owns(id, tenant)
  <2>1. CASE Fail(t)
    BY <1>5, <1>c, <1>d, <1>e, <2>1, OnlyReads
  <2>2. CASE ~Fail(t)
    BY <1>5, <1>a, <1>b, <1>d, <1>e, <2>2, OnlyReads, RereadEffect DEF InputsKept
  <2>3. QED
    BY <2>1, <2>2
<1>6. ASSUME NEW t \in Threads, Store(t) PROVE Owns(id, tenant)
  <2>1. CASE Fail(t) /\ UNCHANGED items
    BY <1>6, <1>c, <1>d, <1>e, <2>1 DEF Store
  <2>2. CASE Stored(t)
    <3>1. thread[t].at = "store"
      BY <1>6 DEF Store
    <3>2. Seen(t)' => Owns(id, tenant)
      BY <1>a, <2>2, <3>1 DEF Stored, InputsKept, Found
    <3>3. Visible(id, tenant)' => Owns(id, tenant)
      BY <1>a, <2>2, <3>1 DEF Stored, Visible, TypeOK, Found
    <3>4. QED
      BY <1>6, <1>b, <1>e, <2>2, <3>2, <3>3 DEF Store, Stored, InputsKept
  <2>3. QED
    BY <1>6, <2>1, <2>2, StoreEffect
<1>7. ASSUME NEW t \in Threads, Remove(t) PROVE Owns(id, tenant)
  <2>1. Visible(id, tenant)' => Owns(id, tenant)
    BY <1>7, <1>a DEF Remove, Visible, TypeOK
  <2>2. CASE Fail(t)
    BY <1>7, <1>c, <1>e, <2>1, <2>2 DEF Remove
  <2>3. CASE Go(t, "deleted")
    <3>1. OthersKept(t) /\ thread'[t].id = thread[t].id
          /\ thread'[t].tenant = thread[t].tenant /\ thread[t].at = "remove"
      BY <1>7, <2>3, GoEffect DEF InputsKept, Points, Remove
    <3>2. Seen(t)' => Owns(id, tenant)
      BY <1>a, <3>1 DEF Found
    <3>3. QED
      BY <1>7, <1>b, <1>e, <2>1, <3>1, <3>2 DEF Remove
  <2>4. QED
    BY <1>7, <2>2, <2>3, LookEffect
<1>8. ASSUME NEW t \in Threads, Record(t) PROVE Owns(id, tenant)
  <2>1. Logged' => Owns(id, tenant)
    <3>1. /\ BagToSet(audit') = BagToSet(audit) \cup {EventOf(t)}
          /\ EventOf(t).id = thread[t].id /\ EventOf(t).tenant = thread[t].tenant
      BY <1>8, RecordEffect
    <3>2. thread[t].at \in Found
      BY <1>8 DEF Record, Found
    <3>3. Logged' => Logged \/ Seen(t)
      BY <3>1, <3>2
    <3>4. QED
      BY <1>a, <3>3
  <2>2. QED
    BY <1>8, <1>c, <1>d, <2>1, RecordEffect DEF Record
<1>9. CASE UNCHANGED vars
  BY <1>9 DEF vars, Owns, Visible
<1>10. QED
  BY <1>1, <1>2, <1>3, <1>4, <1>5, <1>6, <1>7, <1>8, <1>9, InsertEffect
     DEF Next, Arrive

(* A fresh identifier belongs to nobody.                                   *)
LEMMA FreshIsNobodys ==
  ASSUME TypeOK, RequestsInv, NEW id \in Ids, id \notin issued, NEW tenant
  PROVE  ~Owns(id, tenant)
BY DEF RequestsInv, Owns, Visible, Found

(* No step gives an item a second owner.                                   *)
LEMMA StepOneOwner == TypeOK /\ RequestsInv /\ OneOwner /\ [Next]_vars => OneOwner'
<1> SUFFICES ASSUME TypeOK, RequestsInv, OneOwner, [Next]_vars,
                    NEW id \in Ids, NEW a \in Tenants, NEW b \in Tenants,
                    Owns(id, a)', Owns(id, b)'
             PROVE  a = b
  BY DEF OneOwner
<1>1. CASE Owns(id, a) /\ Owns(id, b)
  BY <1>1 DEF OneOwner
<1>2. CASE ~(Owns(id, a) /\ Owns(id, b))
  <2>1. id \notin issued
    BY <1>2, OwnersOnlyFound
  <2>2. /\ \E t \in Threads, item \in Item : Inserted(t, id, item) /\ a = thread[t].tenant
        /\ \E t \in Threads, item \in Item : Inserted(t, id, item) /\ b = thread[t].tenant
    BY <2>1, FreshIsNobodys, OwnersOnlyFound
  <2>3. QED
    BY <2>2 DEF Inserted, TypeOK
<1>3. QED
  BY <1>1, <1>2

-----------------------------------------------------------------------------
(* The events of an item of one type, and the threads about to record one. *)
Recording(id, type) == {t \in Threads : thread[t].at = type /\ thread[t].id = id}

(* What is counted is finite, and the count is a sum of two numbers.       *)
LEMMA CountedFinite ==
  ASSUME TypeOK, RequestsInv, NEW id, NEW type
  PROVE  /\ IsFiniteSet(Events(id, type)) /\ IsFiniteSet(Recording(id, type))
         /\ Cardinality(Events(id, type)) \in Nat
         /\ Cardinality(Recording(id, type)) \in Nat
         /\ Counted(id, type)
              = Cardinality(Events(id, type)) + Cardinality(Recording(id, type))
<1>1. IsFiniteSet(Events(id, type))
  <2>1. Events(id, type) \subseteq BagToSet(audit)
    BY DEF Events
  <2>2. IsFiniteSet(BagToSet(audit))
    BY DEF RequestsInv
  <2>3. QED
    BY <2>1, <2>2, FS_Subset
<1>2. IsFiniteSet(Recording(id, type))
  <2>1. Recording(id, type) \subseteq Threads
    BY DEF Recording
  <2>2. QED
    BY <2>1, FS_Subset, ThreadsAssumption
<1>3. QED
  BY <1>1, <1>2, FS_CardinalityType DEF Counted, Recording

(* Where neither the log nor who is about to record changes, the count     *)
(* stays.                                                                  *)
LEMMA CountedKept ==
  ASSUME NEW id, NEW type, BagToSet(audit') = BagToSet(audit),
         \A t \in Threads : (thread'[t].at = type /\ thread'[t].id = id)
                              <=> (thread[t].at = type /\ thread[t].id = id)
  PROVE  Counted(id, type)' = Counted(id, type)
<1>1. Events(id, type)' = Events(id, type)
  BY DEF Events
<1>2. {t \in Threads : thread'[t].at = type /\ thread'[t].id = id}
        = {t \in Threads : thread[t].at = type /\ thread[t].id = id}
  OBVIOUS
<1>3. QED
  BY <1>1, <1>2 DEF Counted

(* A thread that comes to the point of recording an event adds one.        *)
LEMMA CountedMore ==
  ASSUME TypeOK, RequestsInv, RequestsInv', TypeOK', NEW id, NEW type, NEW t \in Threads,
         BagToSet(audit') = BagToSet(audit), OthersKept(t),
         thread[t].at # type, thread'[t].at = type, thread'[t].id = id
  PROVE  Counted(id, type)' = Counted(id, type) + 1
<1>1. Events(id, type)' = Events(id, type)
  BY DEF Events
<1>2. /\ Recording(id, type)' = Recording(id, type) \cup {t}
      /\ t \notin Recording(id, type)
  BY DEF Recording, OthersKept
<1>3. IsFiniteSet(Recording(id, type))
  BY CountedFinite
<1>4. Cardinality(Recording(id, type)') = Cardinality(Recording(id, type)) + 1
  BY <1>2, <1>3, FS_AddElement
<1>5. Counted(id, type) = Cardinality(Events(id, type)) + Cardinality(Recording(id, type))
  BY CountedFinite
<1>6. Counted(id, type)' = Cardinality(Events(id, type)') + Cardinality(Recording(id, type)')
  BY DEF Counted, Recording
<1>7. Cardinality(Events(id, type)) \in Nat /\ Cardinality(Recording(id, type)) \in Nat
  BY CountedFinite
<1>8. QED
  BY <1>1, <1>4, <1>5, <1>6, <1>7

(* Recording an event the count had room for only once moves it from the   *)
(* thread to the log, where there was none of its kind.                    *)
LEMMA CountedMoves ==
  ASSUME TypeOK, RequestsInv, NEW id \in Ids, NEW type \in {"created", "deleted"},
         NEW t \in Threads, Record(t), Counted(id, type) \in {0, 1}
  PROVE  /\ Counted(id, type)' = Counted(id, type)
         /\ EventOf(t).id = id /\ EventOf(t).type = type => Events(id, type) = {}
<1> DEFINE e == EventOf(t)
<1>1. /\ BagToSet(audit') = BagToSet(audit) \cup {e} /\ Fail(t)
      /\ e.type = thread[t].at /\ e.id = thread[t].id
  BY RecordEffect
<1>2. OthersKept(t) /\ thread'[t].at = "free"
      /\ thread[t].at \in {"created", "updated", "deleted"}
  BY <1>1, FailEffect DEF Fail, Record
<1>f. /\ IsFiniteSet(Events(id, type)) /\ IsFiniteSet(Recording(id, type))
      /\ Cardinality(Events(id, type)) \in Nat
      /\ Cardinality(Recording(id, type)) \in Nat
      /\ Counted(id, type)
              = Cardinality(Events(id, type)) + Cardinality(Recording(id, type))
  BY CountedFinite
<1>g. Counted(id, type)' = Cardinality(Events(id, type)') + Cardinality(Recording(id, type)')
  BY DEF Counted, Recording
<1> HIDE DEF e
<1>3. CASE e.id = id /\ e.type = type
  <2>1. t \in Recording(id, type) /\ Recording(id, type)' = Recording(id, type) \ {t}
    BY <1>1, <1>2, <1>3 DEF Recording, OthersKept
  <2>2. Cardinality(Recording(id, type)') = Cardinality(Recording(id, type)) - 1
    BY <1>f, <2>1, FS_RemoveElement
  <2>3. Cardinality(Recording(id, type)) # 0
    BY <1>f, <2>1, FS_EmptySet
  <2>4. Cardinality(Events(id, type)) = 0
    BY <1>f, <2>3
  <2>5. Events(id, type) = {}
    BY <1>f, <2>4, FS_EmptySet
  <2>6. Events(id, type)' = {e}
    BY <1>1, <1>3, <2>5 DEF Events
  <2>7. Cardinality(Events(id, type)') = 1
    BY <2>6, FS_Singleton
  <2>8. QED
    BY <1>f, <1>g, <2>2, <2>4, <2>5, <2>7
<1>4. CASE ~(e.id = id /\ e.type = type)
  <2>1. Events(id, type)' = Events(id, type)
    BY <1>1, <1>4 DEF Events
  <2>2. Recording(id, type)' = Recording(id, type)
    <3>1. /\ ~(thread[t].at = type /\ thread[t].id = id)
          /\ thread'[t].at # type
      BY <1>1, <1>2, <1>4
    <3>2. QED
      BY <1>2, <3>1 DEF Recording, OthersKept
  <2>3. QED
    BY <1>g, <1>f, <2>1, <2>2, <1>4 DEF e
<1>5. QED
  BY <1>3, <1>4 DEF e

(* The steps after which the same events are recorded or about to be.      *)
LEMMA CountedSteady ==
  ASSUME TypeOK, RequestsInv, NEW t \in Threads, NEW id \in Ids,
         NEW type \in {"created", "deleted"},
         \/ Arrive(t) \/ Judge(t) \/ Reread(t) \/ Store(t) \/ Find(t)
         \/ (Insert(t) \/ Remove(t)) /\ Fail(t)
  PROVE  Counted(id, type)' = Counted(id, type)
<1>1. UNCHANGED audit
  BY DEF Arrive, ArriveCreate, ArriveUpdate, ArriveDelete, Take, Judge, Reread, Store,
         Find, Insert, Remove
<1>2. OthersKept(t) /\ thread[t].at # type /\ thread'[t].at # type
  <2>1. CASE Fail(t)
    <3>1. thread[t].at \notin {"created", "deleted"}
      BY ArriveEffect DEF Judge, Reread, Store, Find, Insert, Remove
    <3>2. QED
      BY <2>1, <3>1, FailEffect DEF Fail
  <2>2. CASE Arrive(t)
    BY <2>2, ArriveEffect
  <2>3. CASE (Judge(t) \/ Find(t)) /\ ~Fail(t)
    BY <2>3, LookEffect, GoEffect DEF Judge, Find, InputsKept, Points
  <2>4. CASE Reread(t) /\ ~Fail(t)
    BY <2>4, RereadEffect DEF Reread, InputsKept
  <2>5. CASE Store(t) /\ ~Fail(t)
    BY <2>5, StoreEffect DEF Store, Stored, InputsKept
  <2>6. QED
    BY <2>1, <2>2, <2>3, <2>4, <2>5
<1>3. \A u \in Threads : (thread'[u].at = type /\ thread'[u].id = id)
                          <=> (thread[u].at = type /\ thread[u].id = id)
  BY <1>2 DEF OthersKept
<1>4. QED
  BY <1>1, <1>3, CountedKept

(* Each identifier is issued to one create, which records one event.       *)
LEMMA StepCreatedOnce ==
  TypeOK /\ RequestsInv /\ CreatedOnce /\ [Next]_vars => CreatedOnce'
<1> SUFFICES ASSUME TypeOK, RequestsInv, CreatedOnce, [Next]_vars, NEW id \in Ids
             PROVE  Counted(id, "created")' = IF id \in issued' THEN 1 ELSE 0
  BY DEF CreatedOnce
<1>a. TypeOK' /\ RequestsInv'
  BY StepTypeOK, StepRequests
<1>b. Counted(id, "created") = IF id \in issued THEN 1 ELSE 0
  BY DEF CreatedOnce
<1>1. ASSUME NEW t \in Threads,
             Arrive(t) \/ Judge(t) \/ Reread(t) \/ Store(t) \/ Find(t)
      PROVE  Counted(id, "created")' = IF id \in issued' THEN 1 ELSE 0
  BY <1>1, <1>b, CountedSteady, OnlyReads DEF Store
<1>2. ASSUME NEW t \in Threads, Insert(t)
      PROVE  Counted(id, "created")' = IF id \in issued' THEN 1 ELSE 0
  <2>1. CASE Fail(t) /\ UNCHANGED <<items, issued>>
    BY <1>2, <1>b, <2>1, CountedSteady
  <2>2. ASSUME NEW i \in Ids \ issued, NEW item \in Item, Inserted(t, i, item)
        PROVE  Counted(id, "created")' = IF id \in issued' THEN 1 ELSE 0
    <3>1. /\ BagToSet(audit') = BagToSet(audit) /\ OthersKept(t)
          /\ thread[t].at = "insert" /\ thread'[t].at = "created" /\ thread'[t].id = i
          /\ issued' = issued \cup {i}
      BY <1>2, <2>2 DEF Insert, Inserted, InputsKept
    <3>2. CASE i = id
      <4>1. Counted(id, "created")' = Counted(id, "created") + 1
        BY <1>a, <3>1, <3>2, CountedMore
      <4>2. QED
        BY <1>b, <3>1, <3>2, <4>1
    <3>3. CASE i # id
      <4>1. Counted(id, "created")' = Counted(id, "created")
        BY <3>1, <3>3, CountedKept DEF OthersKept
      <4>2. QED
        BY <1>b, <3>1, <3>3, <4>1
    <3>4. QED
      BY <3>2, <3>3
  <2>3. QED
    BY <1>2, <2>1, <2>2, InsertEffect
<1>3. ASSUME NEW t \in Threads, Remove(t)
      PROVE  Counted(id, "created")' = IF id \in issued' THEN 1 ELSE 0
  <2>1. CASE Fail(t)
    BY <1>3, <1>b, <2>1, CountedSteady DEF Remove
  <2>2. CASE Go(t, "deleted")
    <3>1. /\ BagToSet(audit') = BagToSet(audit) /\ OthersKept(t) /\ issued' = issued
          /\ thread[t].at = "remove" /\ thread'[t].at = "deleted"
      BY <1>3, <2>2, GoEffect DEF Remove, InputsKept, Points
    <3>2. QED
      BY <1>b, <3>1, CountedKept DEF OthersKept
  <2>3. QED
    BY <1>3, <2>1, <2>2, LookEffect
<1>4. ASSUME NEW t \in Threads, Record(t)
      PROVE  Counted(id, "created")' = IF id \in issued' THEN 1 ELSE 0
  BY <1>4, <1>b, CountedMoves DEF Record
<1>5. CASE UNCHANGED vars
  BY <1>5, <1>b DEF vars, Counted, Events
<1>6. QED
  BY <1>1, <1>2, <1>3, <1>4, <1>5 DEF Next, Arrive

(* A race is not forgotten.                                                *)
LEMMA RacedStays ==
  ASSUME [Next]_vars, ~raced' PROVE ~raced
<1>1. ASSUME NEW t \in Threads, Arrive(t) PROVE ~raced
  BY <1>1 DEF Arrive, ArriveCreate, ArriveUpdate, ArriveDelete, Take
<1>2. ASSUME NEW t \in Threads,
             \/ Insert(t) \/ Judge(t) \/ Reread(t) \/ Store(t)
             \/ Find(t) \/ Remove(t) \/ Record(t)
      PROVE  ~raced
  BY <1>2 DEF Insert, Judge, Reread, Store, Find, Remove, Record
<1>3. QED
  BY <1>1, <1>2 DEF Next, Arrive, vars

(* An item an update replaces without a race is there.                     *)
LEMMA LoneStore ==
  ASSUME TypeOK, RequestsInv, AloneInv, ~raced, NEW t \in Threads, Store(t)
  PROVE  /\ items[thread[t].id] = thread[t].current
         /\ items[thread[t].id] # None /\ thread[t].id \in issued
         /\ Acceptable(Merge(thread[t].current, thread[t].payload))
BY DEF AloneInv, RequestsInv, Store

(* The item goes with the one delete that finds it; without a race nothing *)
(* brings it back.                                                         *)
LEMMA StepDeletedOnce ==
  TypeOK /\ RequestsInv /\ AloneInv /\ DeletedOnce /\ [Next]_vars => DeletedOnce'
<1> DEFINE Gone(id) == IF id \in issued /\ items[id] = None THEN 1 ELSE 0
<1> SUFFICES ASSUME TypeOK, RequestsInv, AloneInv, DeletedOnce, [Next]_vars,
                    ~raced', NEW id \in Ids
             PROVE  /\ Counted(id, "deleted")' = Gone(id)'
                    /\ \A e \in Events(id, "deleted")' : audit'[e] = 1
  BY DEF DeletedOnce
<1>a. TypeOK' /\ RequestsInv' /\ ~raced
  BY StepTypeOK, StepRequests, RacedStays
<1>b. /\ Counted(id, "deleted") = Gone(id)
      /\ \A e \in Events(id, "deleted") : audit[e] = 1
  BY <1>a DEF DeletedOnce
<1>c. ASSUME UNCHANGED audit PROVE \A e \in Events(id, "deleted")' : audit'[e] = 1
  BY <1>b, <1>c DEF Events
<1>1. ASSUME NEW t \in Threads, Arrive(t) \/ Judge(t) \/ Reread(t) \/ Find(t)
      PROVE  Counted(id, "deleted")' = Gone(id)' /\ UNCHANGED audit
  BY <1>1, <1>b, CountedSteady, OnlyReads
<1>2. ASSUME NEW t \in Threads, Insert(t)
      PROVE  Counted(id, "deleted")' = Gone(id)' /\ UNCHANGED audit
  <2>1. CASE Fail(t) /\ UNCHANGED <<items, issued>>
    BY <1>2, <1>b, <2>1, CountedSteady DEF Insert
  <2>2. ASSUME NEW i \in Ids \ issued, NEW item \in Item, Inserted(t, i, item)
        PROVE  Counted(id, "deleted")' = Gone(id)'
    <3>1. /\ BagToSet(audit') = BagToSet(audit) /\ OthersKept(t)
          /\ thread[t].at = "insert" /\ thread'[t].at = "created"
      BY <1>2, <2>2 DEF Insert, Inserted, InputsKept
    <3>2. Counted(id, "deleted")' = Counted(id, "deleted")
      BY <3>1, CountedKept DEF OthersKept
    <3>3. Gone(id)' = Gone(id)
      BY <2>2, NoneAssumption DEF Inserted, TypeOK
    <3>4. QED
      BY <1>b, <3>2, <3>3
  <2>3. QED
    BY <1>2, <2>1, <2>2, InsertEffect DEF Insert
<1>3. ASSUME NEW t \in Threads, Store(t)
      PROVE  Counted(id, "deleted")' = Gone(id)' /\ UNCHANGED audit
  <2>1. Counted(id, "deleted")' = Counted(id, "deleted")
    BY <1>3, CountedSteady
  <2>2. Gone(id)' = Gone(id)
    <3>1. CASE Stored(t)
      BY <1>3, <1>a, <3>1, LoneStore, NoneAssumption DEF Store, Stored, TypeOK
    <3>2. CASE UNCHANGED items
      BY <1>3, <3>2 DEF Store
    <3>3. QED
      BY <1>3, <3>1, <3>2, StoreEffect
  <2>3. QED
    BY <1>3, <1>b, <2>1, <2>2 DEF Store
<1>4. ASSUME NEW t \in Threads, Remove(t)
      PROVE  Counted(id, "deleted")' = Gone(id)' /\ UNCHANGED audit
  <2>1. /\ items' = [items EXCEPT ![thread[t].id] = None] /\ issued' = issued
        /\ audit' = audit /\ thread[t].at = "remove" /\ thread[t].id \in issued
    BY <1>4 DEF Remove, RequestsInv
  <2>2. CASE Fail(t) /\ items[thread[t].id] = None
    <3>1. Counted(id, "deleted")' = Counted(id, "deleted")
      BY <1>4, <2>2, CountedSteady
    <3>2. Gone(id)' = Gone(id)
      BY <2>1, <2>2 DEF TypeOK
    <3>3. QED
      BY <1>b, <2>1, <3>1, <3>2
  <2>3. CASE Go(t, "deleted") /\ items[thread[t].id] # None
    <3>1. OthersKept(t) /\ thread'[t].at = "deleted" /\ thread'[t].id = thread[t].id
      BY <2>3, GoEffect DEF InputsKept, Points
    <3>2. CASE thread[t].id = id
      <4>1. Counted(id, "deleted")' = Counted(id, "deleted") + 1
        BY <1>a, <2>1, <3>1, <3>2, CountedMore
      <4>2. Gone(id) = 0 /\ Gone(id)' = 1
        BY <2>1, <2>3, <3>2 DEF TypeOK
      <4>3. QED
        BY <1>b, <2>1, <4>1, <4>2
    <3>3. CASE thread[t].id # id
      <4>1. Counted(id, "deleted")' = Counted(id, "deleted")
        BY <2>1, <3>1, <3>3, CountedKept DEF OthersKept
      <4>2. Gone(id)' = Gone(id)
        BY <2>1, <3>3 DEF TypeOK
      <4>3. QED
        BY <1>b, <2>1, <4>1, <4>2
    <3>4. QED
      BY <3>2, <3>3
  <2>4. QED
    BY <1>4, <2>2, <2>3, LookEffect
<1>5. ASSUME NEW t \in Threads, Record(t)
      PROVE  /\ Counted(id, "deleted")' = Gone(id)'
             /\ \A e \in Events(id, "deleted")' : audit'[e] = 1
  <2>1. /\ Counted(id, "deleted")' = Counted(id, "deleted")
        /\ EventOf(t).id = id /\ EventOf(t).type = "deleted" => Events(id, "deleted") = {}
    BY <1>5, <1>b, CountedMoves
  <2>2. Gone(id)' = Gone(id)
    BY <1>5 DEF Record
  <2>3. ASSUME NEW e \in Events(id, "deleted")' PROVE audit'[e] = 1
    <3>1. /\ BagToSet(audit') = BagToSet(audit) \cup {EventOf(t)}
          /\ e \in BagToSet(audit') /\ e.id = id /\ e.type = "deleted"
          /\ audit'[e] = (IF e \in BagToSet(audit) THEN audit[e] ELSE 0)
                            + (IF e = EventOf(t) THEN 1 ELSE 0)
      BY <1>5, RecordEffect DEF Events
    <3>2. CASE e = EventOf(t)
      <4>1. e \notin BagToSet(audit)
        BY <2>1, <3>1, <3>2 DEF Events
      <4>2. QED
        BY <3>1, <3>2, <4>1
    <3>3. CASE e # EventOf(t)
      <4>1. e \in Events(id, "deleted") /\ e \in BagToSet(audit)
        BY <3>1, <3>3 DEF Events
      <4>2. audit[e] = 1
        BY <1>b, <4>1
      <4>3. QED
        BY <3>1, <3>3, <4>1, <4>2
    <3>4. QED
      BY <3>2, <3>3
  <2>4. QED
    BY <1>b, <2>1, <2>2, <2>3
<1>6. CASE UNCHANGED vars
  BY <1>6, <1>b DEF vars, Counted, Events
<1>7. QED
  BY <1>c, <1>1, <1>2, <1>3, <1>4, <1>5, <1>6 DEF Next, Arrive

-----------------------------------------------------------------------------
(* An update that no race has met is alone from its judgement to the store. *)
LEMMA StepAlone == TypeOK /\ RequestsInv /\ AloneInv /\ [Next]_vars => AloneInv'
<1> DEFINE Update(r) == r.at \in {"judge", "reread", "store"}
           OK(r) == /\ r.at = "reread" =>
                         /\ Visible(r.id, r.tenant)
                         /\ Acceptable(Merge(items[r.id], r.payload))
                    /\ r.at = "store" =>
                         /\ items[r.id] = r.current
                         /\ Acceptable(Merge(r.current, r.payload))
<1> SUFFICES ASSUME TypeOK, RequestsInv, AloneInv, [Next]_vars, ~raced'
             PROVE  /\ \A t, u \in Threads : Update(thread'[t]) /\ thread'[u].at # "free"
                                             => t = u
                    /\ \A t \in Threads : OK(thread[t])'
  BY DEF AloneInv, Updating, Busy
<1>a. /\ ~raced
      /\ \A t, u \in Threads : Update(thread[t]) /\ thread[u].at # "free" => t = u
      /\ \A t \in Threads : OK(thread[t])
  BY RacedStays DEF AloneInv, Updating, Busy
<1> DEFINE Goal == /\ \A t, u \in Threads : Update(thread'[t]) /\ thread'[u].at # "free"
                                            => t = u
                   /\ \A t \in Threads : OK(thread[t])'
<1>b. ASSUME NEW t \in Threads, OthersKept(t), thread[t].at # "free",
             ~Update(thread'[t])
      PROVE  Goal
  <2>1. \A u \in Threads \ {t} : ~Update(thread[u])
    BY <1>a, <1>b
  <2>2. \A u \in Threads : ~Update(thread'[u])
    BY <1>b, <2>1 DEF OthersKept
  <2>3. QED
    BY <2>2
<1>c. ASSUME NEW t \in Threads, OthersKept(t), Update(thread[t]), OK(thread[t])'
      PROVE  Goal
  <2>1. \A u \in Threads \ {t} : thread'[u].at = "free"
    BY <1>a, <1>c DEF OthersKept
  <2>2. QED
    BY <1>c, <2>1
<1>1. ASSUME NEW t \in Threads, Arrive(t) PROVE Goal
  <2>1. /\ OthersKept(t) /\ thread[t].at = "free" /\ thread'[t].at \in {"insert", "judge", "find"}
        /\ Updating = {} /\ (thread'[t].at = "judge" => Busy = {})
    BY <1>1, ArriveEffect
  <2>2. \A u \in Threads \ {t} : ~Update(thread'[u])
    BY <2>1 DEF OthersKept, Updating, Busy
  <2>3. thread'[t].at = "judge" => \A u \in Threads \ {t} : thread'[u].at = "free"
    BY <2>1 DEF OthersKept, Busy
  <2>4. QED
    BY <2>1, <2>2, <2>3
<1>2. ASSUME NEW t \in Threads, Fail(t), thread[t].at # "free" PROVE Goal
  BY <1>2, <1>b, FailEffect DEF Fail
<1>3. ASSUME NEW t \in Threads, Insert(t) PROVE Goal
  BY <1>3, <1>b, <1>2, InsertEffect DEF Insert, Inserted, InputsKept
<1>4. ASSUME NEW t \in Threads, Judge(t) PROVE Goal
  <2>1. CASE Fail(t)
    BY <1>2, <1>4, <2>1 DEF Judge
  <2>2. CASE /\ Go(t, "reread") /\ Visible(thread[t].id, thread[t].tenant)
             /\ Acceptable(Merge(items[thread[t].id], thread[t].payload))
    <3>1. /\ OthersKept(t) /\ thread'[t].at = "reread" /\ thread'[t].id = thread[t].id
          /\ thread'[t].tenant = thread[t].tenant
          /\ thread'[t].payload = thread[t].payload /\ items' = items
          /\ thread[t].at = "judge"
      BY <1>4, <2>2, GoEffect DEF Judge, InputsKept, Points
    <3>2. OK(thread[t])'
      BY <2>2, <3>1 DEF Visible
    <3>3. QED
      BY <1>c, <3>1, <3>2
  <2>3. QED
    BY <1>4, <2>1, <2>2, LookEffect
<1>5. ASSUME NEW t \in Threads, Reread(t) PROVE Goal
  <2>1. CASE Fail(t)
    BY <1>2, <1>5, <2>1 DEF Reread
  <2>2. CASE ~Fail(t)
    <3>1. /\ OthersKept(t) /\ thread'[t].at = "store" /\ thread'[t].id = thread[t].id
          /\ thread'[t].tenant = thread[t].tenant
          /\ thread'[t].payload = thread[t].payload /\ items' = items
          /\ thread'[t].current = items[thread[t].id] /\ thread[t].at = "reread"
      BY <1>5, <2>2, RereadEffect DEF Reread, InputsKept
    <3>2. OK(thread[t])'
      BY <1>a, <3>1
    <3>3. QED
      BY <1>c, <3>1, <3>2
  <2>3. QED
    BY <2>1, <2>2
<1>6. ASSUME NEW t \in Threads, Store(t) PROVE Goal
  BY <1>6, <1>b, <1>2, StoreEffect DEF Store, Stored, InputsKept
<1>7. ASSUME NEW t \in Threads, Find(t) \/ Remove(t) PROVE Goal
  BY <1>7, <1>b, <1>2, LookEffect, GoEffect DEF Find, Remove, InputsKept, Points
<1>8. ASSUME NEW t \in Threads, Record(t) PROVE Goal
  BY <1>8, <1>2, RecordEffect DEF Record
<1>9. CASE UNCHANGED vars
  BY <1>9, <1>a DEF vars, Visible
<1>10. QED
  BY <1>1, <1>3, <1>4, <1>5, <1>6, <1>7, <1>8, <1>9 DEF Next, Arrive

(* A new item was checked against all others in the critical section that  *)
(* inserts it; a replaced one kept its key, or no other item has the new   *)
(* one and none was changed since.                                         *)
LEMMA StepUnique ==
  TypeOK /\ RequestsInv /\ AloneInv /\ UniqueUnlessRaced /\ [Next]_vars
    => UniqueUnlessRaced'
<1> SUFFICES ASSUME TypeOK, RequestsInv, AloneInv, UniqueUnlessRaced, [Next]_vars,
                    ~raced'
             PROVE  Unique'
  BY DEF UniqueUnlessRaced
<1>a. ~raced /\ Unique
  BY RacedStays DEF UniqueUnlessRaced
<1>b. ASSUME UNCHANGED items PROVE Unique'
  BY <1>a, <1>b DEF Unique
<1>1. ASSUME NEW t \in Threads, NEW id \in Ids \ issued, NEW item \in Item,
             Insert(t), Inserted(t, id, item)
      PROVE  Unique'
  <2>1. /\ items' = [items EXCEPT ![id] = item]
        /\ item.tenant = thread[t].tenant /\ item.key = thread[t].payload.key
        /\ ~Conflict(thread[t].tenant, item.key, None)
    BY <1>1 DEF Inserted
  <2>2. item.key # Unset /\ Ids \ {None} = Ids
    BY UnsetAssumption, NoneAssumption, NoKeyAssumption DEF Item
  <2>3. \A i \in Ids : items[i] # None /\ items[i].tenant = item.tenant
                        => items[i].key # item.key
    BY <2>1, <2>2 DEF Conflict, Visible
  <2>4. QED
    BY <1>a, <2>1, <2>3 DEF Unique, TypeOK
<1>2. ASSUME NEW t \in Threads, Store(t), Stored(t) PROVE Unique'
  <2> DEFINE r == thread[t]
             item == Merge(r.current, r.payload)
  <2>1. /\ items' = [items EXCEPT ![r.id] = item] /\ r.id \in Ids
        /\ item.tenant = r.tenant /\ r.current \in Item /\ r.payload \in Change
        /\ ~Conflict(r.tenant, r.payload.key, r.id)
    BY <1>2 DEF Stored
  <2>2. items[r.id] = r.current /\ items[r.id] # None
    BY <1>a, <1>2, LoneStore
  <2>3. item.tenant = r.current.tenant
        /\ item.key = IF r.payload.key # Unset THEN r.payload.key ELSE r.current.key
    BY <2>1, MergeFields
  <2> HIDE DEF item
  <2>4. ASSUME NEW i \in Ids \ {r.id}, items[i] # None, items[i].tenant = item.tenant
        PROVE  items[i].key # item.key
    <3>1. CASE r.payload.key = Unset
      BY <1>a, <2>1, <2>2, <2>3, <2>4, <3>1 DEF Unique
    <3>2. CASE r.payload.key # Unset
      BY <2>1, <2>3, <2>4, <3>2 DEF Conflict, Visible
    <3>3. QED
      BY <3>1, <3>2
  <2>5. QED
    BY <1>a, <2>1, <2>4 DEF Unique, TypeOK
<1>3. ASSUME NEW t \in Threads, Remove(t) PROVE Unique'
  BY <1>3, <1>a DEF Remove, Unique, TypeOK
<1>4. QED
  <2>1. CASE \E t \in Threads : Insert(t)
    BY <1>1, <1>b, <2>1, InsertEffect
  <2>2. CASE \E t \in Threads : Store(t)
    BY <1>2, <1>b, <2>2, StoreEffect
  <2>3. CASE \E t \in Threads : Record(t)
    BY <1>b, <2>3 DEF Record
  <2>4. CASE \E t \in Threads : Arrive(t) \/ Judge(t) \/ Reread(t) \/ Find(t)
    BY <1>b, <2>4, OnlyReads
  <2>5. CASE UNCHANGED vars
    BY <1>b, <2>5 DEF vars
  <2>6. QED
    BY <1>3, <2>1, <2>2, <2>3, <2>4, <2>5 DEF Next, Arrive

(* Only Store takes a thread from its copy of the item to its answer.      *)
LEMMA StepOfStore ==
  ASSUME TypeOK, RequestsInv, [Next]_vars, NEW t \in Threads,
         thread[t].at = "store", thread'[t].at = "updated"
  PROVE  Store(t) /\ ~Fail(t)
<1>1. ~Fail(t)
  BY FailEffect DEF Fail
<1>2. ASSUME NEW u \in Threads, u # t, OthersKept(u) PROVE FALSE
  BY <1>2 DEF OthersKept
<1>3. ASSUME NEW u \in Threads, Fail(u) PROVE FALSE
  BY <1>1, <1>2, <1>3, FailEffect DEF Fail
<1>4. ASSUME NEW u \in Threads, NEW point \in {"reread", "remove", "deleted"}, Go(u, point)
      PROVE  FALSE
  BY <1>2, <1>4, GoEffect DEF InputsKept, Points
<1>5. ASSUME NEW u \in Threads, Arrive(u) PROVE FALSE
  BY <1>2, <1>5, ArriveEffect
<1>6. ASSUME NEW u \in Threads, Insert(u) PROVE FALSE
  BY <1>2, <1>3, <1>6, InsertEffect DEF Inserted, InputsKept
<1>7. ASSUME NEW u \in Threads, Judge(u) \/ Find(u) \/ Remove(u) PROVE FALSE
  BY <1>3, <1>4, <1>7, LookEffect
<1>8. ASSUME NEW u \in Threads, Reread(u) PROVE FALSE
  BY <1>2, <1>3, <1>8, RereadEffect DEF InputsKept
<1>9. ASSUME NEW u \in Threads, Record(u) PROVE FALSE
  BY <1>3, <1>9, RecordEffect
<1>10. ASSUME NEW u \in Threads, Store(u) PROVE u = t
  BY <1>2, <1>3, <1>10, StoreEffect DEF Stored, InputsKept
<1>11. ~UNCHANGED vars
  BY DEF vars
<1>12. QED
  BY <1>1, <1>5, <1>6, <1>7, <1>8, <1>9, <1>10, <1>11 DEF Next, Arrive

-----------------------------------------------------------------------------
(* An application that has served nothing: no item, no event, no request.  *)
LEMMA InitInv == Init => TypeOK /\ StoreInv
<1> SUFFICES ASSUME Init PROVE TypeOK /\ StoreInv
  OBVIOUS
<1>1. /\ \A id \in Ids : items[id] = None
      /\ \A t \in Threads : thread[t].at = "free"
      /\ issued = {} /\ arrived = 0
  BY DEF Init, Free
<1>2. IsABag(audit) /\ BagToSet(audit) = {}
  BY DEF Init, EmptyBag, SetToBag, IsABag, BagToSet
<1>3. raced \in BOOLEAN /\ arrived \in 0 .. MaxRequests
  <2>1. raced \in BOOLEAN
    BY Zenon DEF Init
  <2>2. QED
    BY <1>1, <2>1, BoundAssumption
<1>4. TypeOK
  BY <1>1, <1>2, <1>3, FreeIsLocal DEF Init, TypeOK
<1>5. RequestsInv
  BY <1>1, <1>2, FS_EmptySet DEF RequestsInv
<1>6. OneOwner
  BY <1>1, <1>2 DEF OneOwner, Owns, Visible, Found
<1>7. ASSUME NEW id, NEW type \in {"created", "deleted"}
      PROVE  Events(id, type) = {} /\ Counted(id, type) = 0
  <2>1. Events(id, type) = {}
    BY <1>2 DEF Events
  <2>2. {t \in Threads : thread[t].at = type /\ thread[t].id = id} = {}
    BY <1>1
  <2>3. QED
    BY <2>1, <2>2, FS_EmptySet DEF Counted
<1>8. CreatedOnce /\ DeletedOnce
  BY <1>1, <1>7 DEF CreatedOnce, DeletedOnce
<1>9. AloneInv /\ UniqueUnlessRaced
  BY <1>1 DEF AloneInv, UniqueUnlessRaced, Unique, Updating, Busy
<1>10. QED
  BY <1>4, <1>5, <1>6, <1>8, <1>9 DEF StoreInv

(* The inductive invariant of the resource: whose each item is, how often  *)
(* its creation and deletion are recorded, and what an update that meets   *)
(* no other request may rely on between its critical sections.             *)
THEOREM StoreInvariant == Spec => [](TypeOK /\ StoreInv)
<1>1. TypeOK /\ StoreInv /\ [Next]_vars => (TypeOK /\ StoreInv)'
  BY StepTypeOK, StepRequests, StepOneOwner, StepCreatedOnce, StepDeletedOnce,
     StepAlone, StepUnique DEF StoreInv
<1>2. QED
  BY <1>1, InitInv, PTL DEF Spec

(* Values of the unique field are unique within a tenant as long as no     *)
(* update has met another request, however creates and deletes interleave: *)
(* Repository.create checks and inserts under one lock.                    *)
THEOREM KeysStayUnique == Spec => []UniqueUnlessRaced
<1>1. QED
  BY StoreInvariant, PTL DEF StoreInv

(* The audit log tells of every item, race or not, whose it is and that it *)
(* was created once, and without a race which items are gone.              *)
THEOREM AuditTells == Spec => []AuditTellsWhatExists
<1>1. TypeOK /\ StoreInv => AuditTellsWhatExists
  <2> SUFFICES ASSUME TypeOK, StoreInv PROVE AuditTellsWhatExists
    OBVIOUS
  <2>1. ASSUME NEW e \in BagToSet(audit)
        PROVE  e.id \in Ids /\ e.tenant \in Tenants /\ Owns(e.id, e.tenant)
    BY DEF TypeOK, Event, Owns
  <2>2. \A e \in BagToSet(audit), f \in BagToSet(audit) :
          e.id = f.id => e.tenant = f.tenant
    BY <2>1 DEF StoreInv, OneOwner
  <2>3. ASSUME NEW id \in Ids, NEW e \in BagToSet(audit), items[id] # None, e.id = id
        PROVE  items[id].tenant = e.tenant
    <3>1. items[id].tenant \in Tenants /\ Owns(id, items[id].tenant)
      BY <2>3 DEF TypeOK, Item, Owns, Visible
    <3>2. QED
      BY <2>1, <2>3, <3>1 DEF StoreInv, OneOwner
  <2>4. ~raced => \A id \in issued :
                   /\ (items[id] = None) = (Counted(id, "deleted") = 1)
                   /\ \A e \in Events(id, "deleted") : audit[e] = 1
    <3> SUFFICES ASSUME ~raced, NEW id \in issued
                 PROVE  /\ (items[id] = None) = (Counted(id, "deleted") = 1)
                        /\ \A e \in Events(id, "deleted") : audit[e] = 1
      OBVIOUS
    <3>1. id \in Ids
      BY DEF TypeOK
    <3>2. QED
      BY <3>1 DEF StoreInv, DeletedOnce
  <2>5. \A id \in Ids : Counted(id, "created") = (IF id \in issued THEN 1 ELSE 0)
    BY DEF StoreInv, CreatedOnce
  <2>6. QED
    BY <2>2, <2>3, <2>4, <2>5 DEF AuditTellsWhatExists
<1>2. QED
  BY <1>1, StoreInvariant, PTL

(* An update that meets no other request leaves an item that satisfies the *)
(* invariants of its entity and changes only the fields it was sent:       *)
(* Service.update judges the very item that Repository.update replaces.    *)
THEOREM LoneUpdates == Spec => LoneUpdatesAreExact
<1> DEFINE Exact(t) ==
      ~raced /\ thread[t].at = "store" /\ thread'[t].at = "updated" =>
        LET id == thread[t].id  c == thread[t].payload IN
        /\ items[id] # None
        /\ items'[id].low <= items'[id].high
        /\ \A f \in {"tenant", "key", "low", "high"} :
             items'[id][f] # items[id][f] => c[f] = items'[id][f]
<1>1. ASSUME TypeOK, StoreInv, [Next]_vars, NEW t \in Threads PROVE Exact(t)
  <2> SUFFICES ASSUME ~raced, thread[t].at = "store", thread'[t].at = "updated"
               PROVE  LET id == thread[t].id  c == thread[t].payload IN
                      /\ items[id] # None
                      /\ items'[id].low <= items'[id].high
                      /\ \A f \in {"tenant", "key", "low", "high"} :
                           items'[id][f] # items[id][f] => c[f] = items'[id][f]
    OBVIOUS
  <2> DEFINE r == thread[t]
             item == Merge(r.current, r.payload)
  <2>1. Store(t) /\ Stored(t)
    BY <1>1, StepOfStore, StoreEffect DEF StoreInv
  <2>2. /\ items[r.id] = r.current /\ items[r.id] # None /\ Acceptable(item)
    BY <1>1, <2>1, LoneStore DEF StoreInv
  <2>3. /\ r.id \in Ids /\ items'[r.id] = item
        /\ r.current \in Item /\ r.payload \in Change
    BY <1>1, <2>1 DEF Stored, TypeOK
  <2>4. \A f \in {"tenant", "key", "low", "high"} :
          item[f] # r.current[f] => r.payload[f] = item[f]
    BY <2>3, MergeFields
  <2>5. item.low <= item.high
    BY <2>2 DEF Acceptable
  <2> HIDE DEF item
  <2>6. QED
    BY <2>2, <2>3, <2>4, <2>5
<1>2. TypeOK /\ StoreInv /\ [Next]_vars => \A t \in Threads : Exact(t)
  BY <1>1
<1>3. QED
  BY <1>2, StoreInvariant, PTL DEF Spec, LoneUpdatesAreExact
=============================================================================
