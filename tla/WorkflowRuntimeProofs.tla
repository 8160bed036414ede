------------------------ MODULE WorkflowRuntimeProofs ------------------------
(***************************************************************************)
(* Theorems about WorkflowRuntime, for any workflow, any number of         *)
(* requests at the same time and any failures.                             *)
(***************************************************************************)
EXTENDS WorkflowRuntime, FiniteSetTheorems, SequenceTheorems,
        WellFoundedInduction, TLAPS

(* transition() picks an edge of the map with the action asked for that    *)
(* leaves the state it read.                                               *)
LEMMA ChosenIsEdge ==
  ASSUME NEW action, NEW from, Matches(action, from) # {}
  PROVE  /\ Chosen(action, from) \in Edge
         /\ Chosen(action, from).action = action
         /\ Chosen(action, from).from = from
         /\ Target(action, from) \in States
<1> DEFINE M == Matches(action, from)
           Less == {ss \in Nat \X Nat : ss[1] < ss[2]}
           First == CHOOSE i \in M : \A j \in M : i <= j
<1>1. DOMAIN TransitionMap \subseteq Nat
  BY MapAssumption
<1>2. M \subseteq Nat /\ M # {}
  BY <1>1 DEF Matches
<1>3. PICK i \in M : \A j \in M : ~(<<j, i>> \in Less)
  <2>1. OpToRel(<, Nat) = Less
    BY Zenon DEF OpToRel
  <2>2. IsWellFoundedOn(Less, Nat)
    BY <2>1, NatLessThanWellFounded, Zenon
  <2>3. QED
    BY <1>2, <2>2, WFMin, Zenon
<1>4. ASSUME NEW j \in M PROVE i <= j
  <2> HIDE DEF M
  <2>1. i \in Nat /\ j \in Nat /\ <<j, i>> \notin Less
    BY <1>2, <1>3
  <2>2. <<j, i>> \in Nat \X Nat /\ <<j, i>>[1] = j /\ <<j, i>>[2] = i
    BY <2>1
  <2>3. ~(j < i)
    BY <2>1, <2>2
  <2>4. QED
    BY <2>1, <2>3
<1>5. First \in M
  BY <1>4
<1>6. /\ First \in DOMAIN TransitionMap
      /\ TransitionMap[First].action = action /\ TransitionMap[First].from = from
  BY <1>5 DEF Matches
<1>7. Chosen(action, from) = TransitionMap[First]
  BY DEF Chosen
<1>8. QED
  BY <1>6, <1>7, MapAssumption DEF Edge, Target

(* The edge of a request that has passed its checks leads to a state.      *)
LEMMA WrittenType ==
  ASSUME TypeOK, LocalsInv, NEW r \in Requests,
         req[r].at \in {"reread", "flush", "audit", "commit"}
  PROVE  /\ Written(r) \in Row
         /\ Written(r).state = Target(req[r].action, req[r].from)
         /\ Written(r).version = req[r].version + 1
BY ChosenIsEdge DEF Written, Row, TypeOK, Local, LocalsInv

(* A request before it arrives, or after its commit, has no locals.        *)
LEMMA ServedType ==
  ASSUME NEW point \in {"new", "answer", "done"}, NEW what \in Result
  PROVE  Served(point, what) \in Local
BY StatesAssumption DEF Served, Local, Result

(* A step of r leaves the other requests alone.                            *)
OthersKept(r) == \A s \in Requests \ {r} : req'[s] = req[s]

(* Replacing the locals of one request.                                    *)
LEMMA SetLocal ==
  ASSUME TypeOK, NEW r \in Requests, NEW l \in Local,
         req' = [req EXCEPT ![r] = l]
  PROVE  req' \in [Requests -> Local] /\ req'[r] = l /\ OthersKept(r)
BY DEF TypeOK, OthersKept

(* What a response leaves of a request.                                    *)
LEMMA AnswerEffect ==
  ASSUME TypeOK, NEW r \in Requests, NEW what \in Result, Answer(r, what)
  PROVE  /\ req' \in [Requests -> Local] /\ OthersKept(r)
         /\ req'[r].at = "done" /\ req'[r].result = what
         /\ req'[r].version = 0 /\ req'[r].seen = None
<1>1. Served("done", what) \in Local
  BY ServedType
<1>2. req' = [req EXCEPT ![r] = Served("done", what)]
  BY DEF Answer
<1>3. QED
  BY <1>1, <1>2, SetLocal DEF Served

(* A request that arrives goes on to load the row, with an action of the   *)
(* map.                                                                    *)
LEMMA ArriveEffect ==
  ASSUME TypeOK, NEW r \in Requests, Arrive(r)
  PROVE  /\ req' \in [Requests -> Local] /\ OthersKept(r)
         /\ req'[r].at = "load" /\ req'[r].action \in Actions
         /\ req'[r].result = req[r].result /\ req'[r].version = req[r].version
         /\ req'[r].seen = req[r].seen
<1>1. PICK a \in Actions, e \in Expected, b \in BOOLEAN :
        req' = [req EXCEPT ![r].at = "load", ![r].action = a,
                           ![r].expected = e, ![r].rules = b]
  BY DEF Arrive
<1> DEFINE l == [req[r] EXCEPT !.at = "load", !.action = a, !.expected = e,
                               !.rules = b]
<1>2. req' = [req EXCEPT ![r] = l]
  BY <1>1 DEF TypeOK
<1>3. l \in Local
  BY ExpectedAssumption, ZenonT(30) DEF TypeOK, Local
<1>4. /\ l.at = "load" /\ l.action = a /\ l.result = req[r].result
      /\ l.version = req[r].version /\ l.seen = req[r].seen
  BY DEF TypeOK, Local
<1> HIDE DEF l
<1>5. QED
  BY <1>2, <1>3, <1>4, SetLocal

(* A refusal answers; an acceptance carries what was read to the next step. *)
LEMMA LoadEffect ==
  ASSUME TypeOK, NEW r \in Requests, Load(r)
  PROVE  \/ \E what \in Result \ {"none", "accepted", "lost"} : Answer(r, what)
         \/ /\ req' \in [Requests -> Local] /\ OthersKept(r)
            /\ req'[r].at = "reread" /\ req'[r].action = req[r].action
            /\ req'[r].from = StateOf(row) /\ req'[r].version = VersionOf(row)
            /\ req'[r].result = req[r].result /\ req'[r].seen = req[r].seen
            /\ Matches(req[r].action, StateOf(row)) # {}
<1>1. CASE Verdict(r, StateOf(row)) # "accepted"
  BY <1>1 DEF Load, Verdict, Result
<1>2. CASE Verdict(r, StateOf(row)) = "accepted"
  <2> DEFINE l == [req[r] EXCEPT !.at = "reread", !.from = StateOf(row),
                                 !.version = VersionOf(row),
                                 !.expected = None, !.rules = TRUE]
  <2>1. StateOf(row) \in States /\ VersionOf(row) \in Nat
    BY StatesAssumption DEF StateOf, VersionOf, Row, TypeOK
  <2>2. req' = [req EXCEPT ![r] = l]
    BY <1>2 DEF Load, TypeOK
  <2>3. l \in Local
    BY <2>1, ZenonT(30) DEF TypeOK, Local
  <2>4. /\ l.at = "reread" /\ l.action = req[r].action
        /\ l.from = StateOf(row) /\ l.version = VersionOf(row)
        /\ l.result = req[r].result /\ l.seen = req[r].seen
    BY DEF TypeOK, Local
  <2>5. Matches(req[r].action, StateOf(row)) # {}
    BY <1>2 DEF Verdict
  <2> HIDE DEF l
  <2>6. QED
    BY <2>2, <2>3, <2>4, <2>5, SetLocal
<1>3. QED
  BY <1>1, <1>2

(* A request that re-reads has seen the row as it is.                      *)
LEMMA RereadEffect ==
  ASSUME TypeOK, NEW r \in Requests, Reread(r)
  PROVE  /\ req' \in [Requests -> Local] /\ OthersKept(r)
         /\ req'[r].at = "flush" /\ req'[r].action = req[r].action
         /\ req'[r].from = req[r].from /\ req'[r].version = req[r].version
         /\ req'[r].result = req[r].result /\ req'[r].seen = row
<1> DEFINE l == [req[r] EXCEPT !.at = "flush", !.seen = row]
<1>1. req' = [req EXCEPT ![r] = l]
  BY DEF Reread, TypeOK
<1>2. l \in Local
  BY DEF TypeOK, Local
<1>3. /\ l.at = "flush" /\ l.action = req[r].action /\ l.from = req[r].from
      /\ l.version = req[r].version /\ l.result = req[r].result /\ l.seen = row
  BY DEF TypeOK, Local
<1> HIDE DEF l
<1>4. QED
  BY <1>1, <1>2, <1>3, SetLocal

(* What a request that has the lock keeps while it goes on with pending.   *)
LockTaken(r, pending) ==
  /\ req' \in [Requests -> Local] /\ OthersKept(r)
  /\ req'[r].at = "audit" /\ req'[r].action = req[r].action
  /\ req'[r].from = req[r].from /\ req'[r].version = req[r].version
  /\ req'[r].result = req[r].result /\ req'[r].seen = req[r].seen
  /\ req'[r].pending = pending

(* A request whose row was flushed holds the lock and goes on to the       *)
(* audit.                                                                  *)
LEMMA LockEffect ==
  ASSUME TypeOK, NEW r \in Requests, NEW pending \in Row,
         req' = [req EXCEPT ![r].at = "audit", ![r].pending = pending]
  PROVE  LockTaken(r, pending)
<1> DEFINE l == [req[r] EXCEPT !.at = "audit", !.pending = pending]
<1>1. req' = [req EXCEPT ![r] = l]
  BY DEF TypeOK
<1>2. l \in Local
  BY ZenonT(30) DEF TypeOK, Local
<1>3. /\ l.at = "audit" /\ l.action = req[r].action /\ l.from = req[r].from
      /\ l.version = req[r].version /\ l.result = req[r].result
      /\ l.seen = req[r].seen /\ l.pending = pending
  BY DEF TypeOK, Local
<1> HIDE DEF l
<1>4. QED
  BY <1>1, <1>2, <1>3, SetLocal DEF LockTaken

(* A first write takes the lock with its row, or fails for a row that is   *)
(* there.                                                                  *)
LEMMA InsertEffect ==
  ASSUME TypeOK, LocalsInv, NEW r \in Requests, Insert(r)
  PROVE  \/ row # None /\ Answer(r, "error") /\ UNCHANGED holder
         \/ row = None /\ holder' = r /\ Written(r) \in Row
            /\ LockTaken(r, Written(r))
<1>1. Written(r) \in Row
  BY WrittenType DEF Insert
<1>2. QED
  BY <1>1, LockEffect DEF Insert

(* The row an UPDATE leaves pending: each column is what the request would *)
(* write or what is stored.                                                *)
LEMMA UpdateEffect ==
  ASSUME TypeOK, LocalsInv, NEW r \in Requests, Update(r)
  PROVE  \E pending \in Row :
           /\ LockTaken(r, pending)
           /\ pending.version \in {Written(r).version, row.version}
           /\ row = req[r].seen /\ req[r].version = row.version
                => pending = Written(r)
<1> DEFINE next ==
      [state |-> IF Written(r).state # req[r].seen.state
                   THEN Written(r).state ELSE row.state,
       version |-> IF Written(r).version # req[r].seen.version
                     THEN Written(r).version ELSE row.version]
<1>1. Written(r) \in Row /\ row \in Row /\ row # None
  BY WrittenType DEF Update, LocalsInv, TypeOK
<1>2. next \in Row /\ next.version \in {Written(r).version, row.version}
  BY <1>1 DEF Row
<1>3. ASSUME row = req[r].seen, req[r].version = row.version
      PROVE  next = Written(r)
  <2>1. next.state = Written(r).state
    BY <1>1, <1>3 DEF Row
  <2>2. next.version = Written(r).version
    BY <1>1, <1>3 DEF Row
  <2>3. QED
    BY <1>1, <1>2, <2>1, <2>2 DEF Row
<1>4. req' = [req EXCEPT ![r].at = "audit", ![r].pending = next]
  BY DEF Update
<1> HIDE DEF next
<1>5. LockTaken(r, next)
  BY <1>2, <1>4, LockEffect
<1>6. QED
  BY <1>2, <1>3, <1>5

(* The event of a request that has passed its checks.                      *)
LEMMA EventType ==
  ASSUME TypeOK, LocalsInv, NEW r \in Requests,
         req[r].at \in {"reread", "flush", "audit", "commit"}
  PROVE  Event(r) \in AuditEvent
BY WrittenType DEF Event, AuditEvent, LocalsInv, TypeOK, Local, Row

(* A request keeps its event with its locals.                              *)
LEMMA EventKept ==
  ASSUME NEW r, req'[r].action = req[r].action,
         req'[r].from = req[r].from, req'[r].version = req[r].version
  PROVE  Written(r)' = Written(r) /\ Event(r)' = Event(r)
BY DEF Event, Written

(* A request that records its event goes on to commit, with its row        *)
(* pending and, in an application that audits, its event.                  *)
LEMMA RecordAuditEffect ==
  ASSUME TypeOK, LocalsInv, NEW r \in Requests, RecordAudit(r)
  PROVE  /\ req' \in [Requests -> Local] /\ OthersKept(r)
         /\ req'[r].at = "commit" /\ req'[r].action = req[r].action
         /\ req'[r].from = req[r].from /\ req'[r].version = req[r].version
         /\ req'[r].result = req[r].result /\ req'[r].seen = req[r].seen
         /\ req'[r].pending = req[r].pending
         /\ req'[r].event = IF enabled THEN Event(r) ELSE None
<1> DEFINE event == IF enabled THEN Event(r) ELSE None
           l == [req[r] EXCEPT !.at = "commit", !.event = event]
<1>1. req' = [req EXCEPT ![r] = l]
  BY DEF RecordAudit, TypeOK
<1>a. event \in AuditEvent \cup {None}
  BY EventType DEF RecordAudit
<1> HIDE DEF event
<1>2. l \in Local
  BY <1>a DEF TypeOK, Local
<1>3. /\ l.at = "commit" /\ l.action = req[r].action /\ l.from = req[r].from
      /\ l.version = req[r].version /\ l.result = req[r].result
      /\ l.seen = req[r].seen /\ l.pending = req[r].pending /\ l.event = event
  BY DEF TypeOK, Local
<1> HIDE DEF l
<1> USE DEF event
<1>4. QED
  BY <1>1, <1>2, <1>3, SetLocal

(* A commit stores the pending row and, in an application that audits,     *)
(* appends one event.  The request has only its answer left.               *)
LEMMA CommitEffect ==
  ASSUME TypeOK, LocalsInv, NEW r \in Requests, Commit(r)
  PROVE  /\ enabled' = enabled
         /\ audit' \in Seq(AuditEvent) /\ Len(audit) \in Nat
         /\ ~enabled => audit' = audit
         /\ enabled => /\ Len(audit') = Len(audit) + 1
                       /\ \A i \in 1 .. Len(audit) : audit'[i] = audit[i]
                       /\ audit'[Len(audit) + 1] = Event(r)
         /\ row' = req[r].pending /\ row' \in Row /\ row' # None
         /\ req' \in [Requests -> Local] /\ OthersKept(r)
         /\ req'[r].at = "answer" /\ req'[r].result = "none"
         /\ req'[r].version = 0 /\ req'[r].seen = None
<1>1. Event(r) \in AuditEvent
  BY EventType DEF Commit
<1>2. row' = req[r].pending /\ row' \in Row /\ row' # None
  BY NoneAssumption DEF Commit, LocalsInv, TypeOK, Local
<1>3. audit \in Seq(AuditEvent) /\ Len(audit) \in Nat
  BY LenProperties DEF TypeOK
<1>4. req[r].event = IF enabled THEN Event(r) ELSE None
  BY DEF Commit, LocalsInv
<1>5. audit' = IF enabled THEN Append(audit, Event(r)) ELSE audit
  <2>1. CASE enabled
    BY <1>1, <1>4, <2>1, NoneAssumption DEF Commit
  <2>2. CASE ~enabled
    BY <1>4, <2>2 DEF Commit
  <2>3. QED
    BY <2>1, <2>2
<1>6. Served("answer", "none") \in Local
  BY ServedType DEF Result
<1>7. /\ req' \in [Requests -> Local] /\ OthersKept(r)
      /\ req'[r] = Served("answer", "none")
  BY <1>6, SetLocal DEF Commit
<1>8. /\ enabled => /\ Len(audit') = Len(audit) + 1
                    /\ \A i \in 1 .. Len(audit) : audit'[i] = audit[i]
                    /\ audit'[Len(audit) + 1] = Event(r)
      /\ audit' \in Seq(AuditEvent)
  BY <1>1, <1>3, <1>5, AppendProperties
<1>9. enabled' = enabled
  BY DEF Commit
<1>10. QED
  BY <1>2, <1>3, <1>5, <1>7, <1>8, <1>9 DEF Served

(* The setting is part of the generated code.                              *)
LEMMA EnabledKept ==
  ASSUME [Next]_vars
  PROVE  enabled' = enabled
BY DEF Next, Serve, vars, Arrive, Load, Reread, Insert, Update, RecordAudit,
       Commit, Respond, Fail

(* What a failure leaves is never an acceptance.                           *)
LEMMA OutcomeType ==
  ASSUME NEW r \in Requests
  PROVE  Outcome(r) \in Result \ {"none", "accepted"}
BY DEF Outcome, Result

(* The row, the lock, the log and the locals keep their types.             *)
LEMMA StepTypeOK == TypeOK /\ LocalsInv /\ [Next]_vars => TypeOK'
<1> SUFFICES ASSUME TypeOK, LocalsInv, [Next]_vars PROVE TypeOK'
  OBVIOUS
<1>1. ASSUME NEW r \in Requests, NEW what \in Result, Answer(r, what)
      PROVE  req' \in [Requests -> Local]
  BY <1>1, AnswerEffect
<1>2. ASSUME NEW r \in Requests, Arrive(r) PROVE TypeOK'
  BY <1>2, ArriveEffect DEF Arrive, TypeOK
<1>3. ASSUME NEW r \in Requests, Load(r) PROVE TypeOK'
  BY <1>1, <1>3, LoadEffect DEF Load, TypeOK
<1>4. ASSUME NEW r \in Requests, Reread(r) PROVE TypeOK'
  BY <1>4, RereadEffect DEF Reread, TypeOK
<1>5. ASSUME NEW r \in Requests, Insert(r) PROVE TypeOK'
  BY <1>1, <1>5, InsertEffect DEF Insert, TypeOK, Result, LockTaken
<1>6. ASSUME NEW r \in Requests, Update(r) PROVE TypeOK'
  BY <1>6, UpdateEffect DEF Update, TypeOK, LockTaken
<1>7. ASSUME NEW r \in Requests, RecordAudit(r) PROVE TypeOK'
  BY <1>7, RecordAuditEffect DEF RecordAudit, TypeOK
<1>8. ASSUME NEW r \in Requests, Commit(r) PROVE TypeOK'
  BY <1>8, CommitEffect DEF Commit, TypeOK
<1>9. ASSUME NEW r \in Requests, Fail(r) PROVE TypeOK'
  BY <1>1, <1>9, OutcomeType DEF Fail, TypeOK
<1>10. ASSUME NEW r \in Requests, Respond(r) PROVE TypeOK'
  BY <1>1, <1>10 DEF Respond, TypeOK, Result
<1>11. CASE UNCHANGED vars
  BY <1>11 DEF vars, TypeOK
<1>12. QED
  BY <1>2, <1>3, <1>4, <1>5, <1>6, <1>7, <1>8, <1>9, <1>10, <1>11
  DEF Next, Serve, vars

-----------------------------------------------------------------------------
(* An uncommitted write is always behind the lock: it is taken when the    *)
(* row is written and let go of by the commit, by a failure and by nothing *)
(* else.                                                                   *)
LEMMA StepLock ==
  TypeOK /\ LocalsInv /\ LockInv /\ [Next]_vars => LockInv'
<1> SUFFICES ASSUME TypeOK, LocalsInv, LockInv, [Next]_vars PROVE LockInv'
  OBVIOUS
<1> USE DEF LockInv, OthersKept
<1>1. ASSUME NEW r \in Requests, Arrive(r) PROVE LockInv'
  BY <1>1, ArriveEffect DEF Arrive
<1>2. ASSUME NEW r \in Requests, Load(r) PROVE LockInv'
  BY <1>2, LoadEffect, AnswerEffect, ZenonT(30) DEF Load
<1>3. ASSUME NEW r \in Requests, Reread(r) PROVE LockInv'
  BY <1>3, RereadEffect DEF Reread
<1>4. ASSUME NEW r \in Requests, Insert(r) PROVE LockInv'
  BY <1>4, InsertEffect, AnswerEffect, NoneAssumption DEF Insert, LockTaken, Result
<1>5. ASSUME NEW r \in Requests, Update(r) PROVE LockInv'
  BY <1>5, UpdateEffect, NoneAssumption DEF Update, LockTaken
<1>6. ASSUME NEW r \in Requests, RecordAudit(r) PROVE LockInv'
  BY <1>6, RecordAuditEffect DEF RecordAudit
<1>7. ASSUME NEW r \in Requests, Commit(r) PROVE LockInv'
  <2>1. holder = r /\ holder' = None
    BY <1>7 DEF Commit
  <2>2. /\ \A s \in Requests \ {r} : req'[s] = req[s]
        /\ req'[r].at = "answer"
    BY <1>7, CommitEffect
  <2>3. QED
    BY <2>1, <2>2, NoneAssumption
<1>8. ASSUME NEW r \in Requests, Fail(r) PROVE LockInv'
  BY <1>8, AnswerEffect, OutcomeType, NoneAssumption DEF Fail
<1>9. ASSUME NEW r \in Requests, Respond(r) PROVE LockInv'
  BY <1>9, AnswerEffect DEF Respond, Result
<1>10. CASE UNCHANGED vars
  BY <1>10 DEF vars
<1>11. QED
  BY <1>1, <1>2, <1>3, <1>4, <1>5, <1>6, <1>7, <1>8, <1>9, <1>10
  DEF Next, Serve, vars

(* The log only grows, so that a version read stays within its length; the *)
(* row, once there, stays.                                                 *)
LEMMA StepLocals ==
  TypeOK /\ LocalsInv /\ AuditedIffCommitted /\ [Next]_vars => LocalsInv'
<1> SUFFICES ASSUME TypeOK, LocalsInv, AuditedIffCommitted, [Next]_vars
             PROVE  LocalsInv'
  OBVIOUS
<1>a. Len(audit) \in Nat
  BY LenProperties DEF TypeOK
<1>b. \A r \in Requests : req[r] \in Local
  BY DEF TypeOK
<1>d. enabled' = enabled
  BY EnabledKept
<1>e. \A s \in Requests : req'[s] = req[s] => Event(s)' = Event(s)
  BY EventKept
<1>c. ASSUME NEW r \in Requests, NEW what \in Result, Answer(r, what),
             Len(audit') \in Nat, Len(audit') >= Len(audit),
             row # None => row' # None
      PROVE  LocalsInv'
  <2>1. \A s \in Requests \ {r} : req'[s] = req[s] /\ req[s] \in Local
    BY <1>b, <1>c, AnswerEffect DEF OthersKept
  <2>2. /\ req'[r].at = "done" /\ req'[r].version = 0 /\ req'[r].seen = None
    BY <1>c, AnswerEffect
  <2>3. QED
    BY <1>a, <1>c, <1>d, <1>e, <2>1, <2>2, SMTT(30) DEF LocalsInv, Local, Row
<1> USE DEF LocalsInv, OthersKept
<1>1. ASSUME NEW r \in Requests, Arrive(r) PROVE LocalsInv'
  <2>1. /\ \A s \in Requests \ {r} : req'[s] = req[s]
        /\ audit' = audit /\ row' = row /\ req[r].at = "new"
    BY <1>1, ArriveEffect DEF Arrive
  <2>2. QED
    BY <1>1, <1>d, <1>e, <2>1, ArriveEffect
<1>2. ASSUME NEW r \in Requests, Load(r) PROVE LocalsInv'
  <2>1. (enabled => VersionOf(row) <= Len(audit)) /\ audit' = audit /\ row' = row
    BY <1>2 DEF AuditedIffCommitted, Load
  <2>2. CASE \E what \in Result : Answer(r, what)
    BY <1>a, <1>c, <2>1, <2>2
  <2>3. CASE ~\E what \in Result : Answer(r, what)
    <3>1. /\ \A s \in Requests \ {r} : req'[s] = req[s]
          /\ req'[r].at = "reread" /\ req'[r].action = req[r].action
          /\ req'[r].from = StateOf(row) /\ req'[r].version = VersionOf(row)
          /\ req'[r].result = req[r].result /\ req'[r].seen = req[r].seen
          /\ Matches(req[r].action, StateOf(row)) # {}
      BY <1>2, <2>3, LoadEffect
    <3>2. QED
      <4>1. req[r].at = "load" /\ req[r].result = "none"
        BY <1>2 DEF Load
      <4>2. QED
        BY <1>d, <1>e, <2>1, <3>1, <4>1
  <2>4. QED
    BY <2>2, <2>3
<1>3. ASSUME NEW r \in Requests, Reread(r) PROVE LocalsInv'
  <2>1. /\ \A s \in Requests \ {r} : req'[s] = req[s]
        /\ audit' = audit /\ row' = row /\ req[r].at = "reread"
    BY <1>3, RereadEffect DEF Reread
  <2>2. QED
    BY <1>3, <1>d, <1>e, <2>1, RereadEffect
<1>4. ASSUME NEW r \in Requests, Insert(r) PROVE LocalsInv'
  <2>1. CASE row # None
    BY <1>4, <1>a, <1>c, <2>1, InsertEffect DEF Insert, Result
  <2>2. CASE row = None
    <3>1. LockTaken(r, Written(r)) /\ Written(r) # None
      BY <1>4, <2>2, InsertEffect, NoneAssumption
    <3>2. enabled => Written(r).version <= Len(audit) + 1
      BY <1>4, <1>a, <1>b, WrittenType DEF Insert, Local
    <3>3. QED
      BY <1>4, <1>d, <1>e, <3>1, <3>2 DEF Insert, LockTaken
  <2>3. QED
    BY <2>1, <2>2
<1>5. ASSUME NEW r \in Requests, Update(r) PROVE LocalsInv'
  <2>1. PICK pending \in Row :
           /\ LockTaken(r, pending)
           /\ pending.version \in {Written(r).version, row.version}
    BY <1>5, UpdateEffect
  <2>2. (enabled => row.version <= Len(audit)) /\ row.version \in Nat
    BY <1>5 DEF AuditedIffCommitted, VersionOf, Update, TypeOK, Row
  <2>3. enabled => Written(r).version <= Len(audit) + 1
    BY <1>5, <1>a, <1>b, WrittenType DEF Update, Local
  <2>4. (enabled => pending.version <= Len(audit) + 1) /\ pending # None
    BY <1>a, <2>1, <2>2, <2>3, NoneAssumption
  <2>5. QED
    BY <1>5, <1>d, <1>e, <2>1, <2>4, SMTT(30) DEF Update, LockTaken
<1>6. ASSUME NEW r \in Requests, RecordAudit(r) PROVE LocalsInv'
  <2>1. Event(r)' = Event(r)
    BY <1>6, RecordAuditEffect, EventKept
  <2>2. QED
    <3>1. /\ \A s \in Requests \ {r} : req'[s] = req[s]
          /\ req'[r].at = "commit" /\ req'[r].action = req[r].action
          /\ req'[r].from = req[r].from /\ req'[r].version = req[r].version
          /\ req'[r].result = req[r].result /\ req'[r].seen = req[r].seen
          /\ req'[r].pending = req[r].pending
          /\ req'[r].event = IF enabled THEN Event(r) ELSE None
      BY <1>6, RecordAuditEffect
    <3>2. audit' = audit /\ row' = row /\ req[r].at = "audit"
      BY <1>6 DEF RecordAudit
    <3>3. req[r].result = "none"
      BY <3>2
    <3> HIDE DEF LocalsInv
    <3>4. ASSUME NEW s \in Requests, s # r
          PROVE  /\ req'[s] = req[s] /\ Event(s)' = Event(s)
      BY <3>1, <3>4, <1>e
    <3>5. QED
      BY <1>d, <2>1, <3>1, <3>2, <3>3, <3>4 DEF LocalsInv
<1>7. ASSUME NEW r \in Requests, Commit(r) PROVE LocalsInv'
  <2>1. \A s \in Requests \ {r} : req'[s] = req[s] /\ req[s] \in Local
    BY <1>7, <1>b, CommitEffect
  <2>2. /\ req'[r].at = "answer" /\ req'[r].result = "none"
        /\ req'[r].version = 0 /\ req'[r].seen = None
    BY <1>7, CommitEffect
  <2>3. /\ Len(audit') \in Nat /\ Len(audit') >= Len(audit) /\ row' # None
    BY <1>7, <1>a, CommitEffect
  <2>4. QED
    BY <1>a, <1>d, <1>e, <2>1, <2>2, <2>3 DEF Local, Row
<1>8. ASSUME NEW r \in Requests, Fail(r) PROVE LocalsInv'
  BY <1>8, <1>a, <1>c, OutcomeType DEF Fail
<1>9. ASSUME NEW r \in Requests, Respond(r) PROVE LocalsInv'
  BY <1>9, <1>a, <1>c DEF Respond, Result
<1>10. CASE UNCHANGED vars
  BY <1>10, <1>d, <1>e DEF vars
<1>11. QED
  BY <1>1, <1>2, <1>3, <1>4, <1>5, <1>6, <1>7, <1>8, <1>9, <1>10
  DEF Next, Serve, vars

(* Only a commit touches the row and the log.                              *)
LEMMA OnlyCommits ==
  ASSUME [Next]_vars, \A r \in Requests : ~Commit(r)
  PROVE  row' = row /\ audit' = audit
BY DEF Next, Serve, vars, Arrive, Load, Reread, Insert, Update, RecordAudit,
       Respond, Fail

(* The event of a commit is the edge that its request chose.               *)
LEMMA EventIsEdge ==
  ASSUME TypeOK, LocalsInv, NEW r \in Requests, Commit(r)
  PROVE  \E e \in Edge : /\ e.action = Event(r).action
                         /\ e.from = Event(r).from /\ e.to = Event(r).to
<1>1. Matches(req[r].action, req[r].from) # {} /\ req[r].at = "commit"
  BY DEF Commit, LocalsInv
<1>2. Event(r).to = Chosen(req[r].action, req[r].from).to
  BY <1>1, WrittenType DEF Event, Target
<1>3. QED
  BY <1>1, <1>2, ChosenIsEdge DEF Event

(* Every step keeps to the edges: an event is added by a commit only.      *)
LEMMA StepEdges ==
  TypeOK /\ LocalsInv /\ EventsAreEdges /\ [Next]_vars => EventsAreEdges'
<1> SUFFICES ASSUME TypeOK, LocalsInv, EventsAreEdges, [Next]_vars
             PROVE  EventsAreEdges'
  OBVIOUS
<1>1. ASSUME NEW r \in Requests, Commit(r), enabled PROVE EventsAreEdges'
  <2>1. DOMAIN audit = 1 .. Len(audit) /\ DOMAIN audit' = 1 .. (Len(audit) + 1)
    BY <1>1, CommitEffect, LenProperties DEF TypeOK
  <2>2. ASSUME NEW i \in DOMAIN audit'
        PROVE  \E e \in Edge : /\ e.action = audit'[i].action
                               /\ e.from = audit'[i].from /\ e.to = audit'[i].to
    <3>1. CASE i \in 1 .. Len(audit)
      <4>1. audit'[i] = audit[i]
        BY <1>1, <3>1, CommitEffect
      <4>2. i \in DOMAIN audit
        BY <2>1, <3>1
      <4>3. QED
        BY <4>1, <4>2 DEF EventsAreEdges
    <3>2. CASE i = Len(audit) + 1
      BY <1>1, <3>2, CommitEffect, EventIsEdge, ZenonT(30)
    <3>3. QED
      BY <1>1, <2>1, <3>1, <3>2, CommitEffect
  <2>3. QED
    BY <2>2 DEF EventsAreEdges
<1>2. CASE audit' = audit
  BY <1>2 DEF EventsAreEdges
<1>3. QED
  BY <1>1, <1>2, OnlyCommits, CommitEffect

-----------------------------------------------------------------------------
(* Only a commit makes a request a committed one, and nothing undoes it.   *)
LEMMA OnlyCommitsCommit ==
  ASSUME TypeOK, LocalsInv, [Next]_vars, \A r \in Requests : ~Commit(r)
  PROVE  \A r \in Requests : Committed(r)' <=> Committed(r)
<1> USE DEF OthersKept, Committed
<1>1. ASSUME NEW r \in Requests, NEW what \in Result \ {"accepted", "lost"},
             Answer(r, what), req[r].at \notin {"answer", "done"}
      PROVE  \A s \in Requests : Committed(s)' <=> Committed(s)
  <2>1. ~Committed(r) /\ ~Committed(r)' /\ \A s \in Requests \ {r} : req'[s] = req[s]
    BY <1>1, AnswerEffect DEF LocalsInv
  <2>2. QED
    BY <2>1
<1>2. ASSUME NEW r \in Requests, NEW what \in {"accepted", "lost"},
             Answer(r, what), req[r].at = "answer"
      PROVE  \A s \in Requests : Committed(s)' <=> Committed(s)
  <2>1. Committed(r) /\ Committed(r)' /\ \A s \in Requests \ {r} : req'[s] = req[s]
    BY <1>2, AnswerEffect DEF Result
  <2>2. QED
    BY <2>1
<1>3. ASSUME NEW r \in Requests,
             Arrive(r) \/ Reread(r) \/ Update(r) \/ RecordAudit(r)
      PROVE  \A s \in Requests : Committed(s)' <=> Committed(s)
  <2>1. /\ \A s \in Requests \ {r} : req'[s] = req[s]
        /\ req'[r].result = req[r].result /\ req'[r].at # "answer"
    BY <1>3, ArriveEffect, RereadEffect, UpdateEffect, RecordAuditEffect DEF LockTaken
  <2>2. req[r].at # "answer"
    BY <1>3 DEF Arrive, Reread, Update, RecordAudit
  <2>3. QED
    BY <2>1, <2>2
<1>4. ASSUME NEW r \in Requests, Load(r)
      PROVE  \A s \in Requests : Committed(s)' <=> Committed(s)
  <2>1. CASE \E what \in Result \ {"none", "accepted", "lost"} : Answer(r, what)
    BY <1>1, <1>4, <2>1 DEF Load
  <2>2. CASE ~\E what \in Result \ {"none", "accepted", "lost"} : Answer(r, what)
    <3>1. /\ OthersKept(r) /\ req'[r].result = req[r].result
          /\ req'[r].at = "reread" /\ req[r].at = "load"
      BY <1>4, <2>2, LoadEffect DEF Load
    <3>2. QED
      BY <3>1
  <2>3. QED
    BY <2>1, <2>2
<1>5. ASSUME NEW r \in Requests, Insert(r)
      PROVE  \A s \in Requests : Committed(s)' <=> Committed(s)
  BY <1>1, <1>5, InsertEffect DEF Insert, LockTaken, Result
<1>6. ASSUME NEW r \in Requests, Fail(r)
      PROVE  \A s \in Requests : Committed(s)' <=> Committed(s)
  <2>1. CASE req[r].at = "answer"
    BY <1>2, <1>6, <2>1 DEF Fail, Outcome
  <2>2. CASE req[r].at # "answer"
    BY <1>1, <1>6, <2>2 DEF Fail, Open, Outcome, Result
  <2>3. QED
    BY <2>1, <2>2
<1>7. ASSUME NEW r \in Requests, Respond(r)
      PROVE  \A s \in Requests : Committed(s)' <=> Committed(s)
  BY <1>2, <1>7 DEF Respond
<1>8. CASE UNCHANGED vars
  BY <1>8 DEF vars
<1>9. QED
  BY <1>3, <1>4, <1>5, <1>6, <1>7, <1>8 DEF Next, Serve, vars

(* Appending the event of r adds one index to those of r and none to those *)
(* of another request.                                                     *)
LEMMA CountStep ==
  ASSUME TypeOK, LocalsInv, NEW r \in Requests, Commit(r), enabled, NEW s \in Requests
  PROVE  Cardinality({i \in DOMAIN audit' : audit'[i].by = s})
           = Cardinality({i \in DOMAIN audit : audit[i].by = s})
               + (IF s = r THEN 1 ELSE 0)
<1> DEFINE n == Len(audit)
           Old == {i \in 1 .. n : audit[i].by = s}
           New == {i \in 1 .. n + 1 : audit'[i].by = s}
<1>1. DOMAIN audit = 1 .. n /\ DOMAIN audit' = 1 .. n + 1 /\ n \in Nat
  BY CommitEffect, LenProperties DEF TypeOK
<1>2. \A i \in 1 .. n : audit'[i] = audit[i]
  BY CommitEffect
<1>3. audit'[n + 1].by = r
  <2>1. audit'[n + 1] = Event(r)
    BY CommitEffect
  <2>2. QED
    BY <2>1 DEF Event
<1>4. IsFiniteSet(Old) /\ n + 1 \notin Old /\ Cardinality(Old) \in Nat
  <2>1. IsFiniteSet(1 .. n)
    BY <1>1, FS_Interval
  <2>2. IsFiniteSet(Old)
    BY <2>1, FS_Subset
  <2>3. QED
    BY <1>1, <2>2, FS_CardinalityType
<1>a. Old = {i \in DOMAIN audit : audit[i].by = s}
  BY <1>1
<1>b. New = {i \in DOMAIN audit' : audit'[i].by = s}
  BY <1>1
<1>5. CASE s = r
  <2>1. New = Old \cup {n + 1}
    BY <1>1, <1>2, <1>3, <1>5
  <2> HIDE DEF Old, New, n
  <2>2. Cardinality(New) = Cardinality(Old) + 1
    BY <1>4, <2>1, FS_AddElement
  <2>3. QED
    BY <1>a, <1>b, <1>5, <2>2
<1>6. CASE s # r
  <2>1. New = Old
    BY <1>1, <1>2, <1>3, <1>6
  <2> HIDE DEF Old, New, n
  <2>2. Cardinality(New) = Cardinality(Old) + 0
    BY <1>4, <2>1
  <2>3. QED
    BY <1>a, <1>b, <1>6, <2>2
<1>7. QED
  BY <1>5, <1>6

(* The event comes with the commit.                                        *)
LEMMA StepAudited ==
  TypeOK /\ LocalsInv /\ AuditedIffCommitted /\ [Next]_vars => AuditedIffCommitted'
<1> SUFFICES ASSUME TypeOK, LocalsInv, AuditedIffCommitted, [Next]_vars
             PROVE  AuditedIffCommitted'
  OBVIOUS
<1>a. enabled' = enabled
  BY EnabledKept
<1>1. ASSUME NEW r \in Requests, Commit(r) PROVE AuditedIffCommitted'
  <2>1. /\ ~Committed(r) /\ Committed(r)'
        /\ \A s \in Requests \ {r} : Committed(s)' <=> Committed(s)
    BY <1>1, CommitEffect DEF Committed, LocalsInv, Commit, OthersKept
  <2>2. ASSUME NEW s \in Requests
        PROVE  Cardinality({i \in DOMAIN audit' : audit'[i].by = s})
                 = IF enabled /\ Committed(s)' THEN 1 ELSE 0
    <3>1. Cardinality({i \in DOMAIN audit : audit[i].by = s})
            = IF enabled /\ Committed(s) THEN 1 ELSE 0
      BY DEF AuditedIffCommitted
    <3>2. CASE enabled
      <4>1. CASE s = r
        BY <1>1, <2>1, <3>1, <3>2, <4>1, CountStep
      <4>2. CASE s # r
        BY <1>1, <2>1, <3>1, <3>2, <4>2, CountStep
      <4>3. QED
        BY <4>1, <4>2
    <3>3. CASE ~enabled
      <4>1. audit' = audit
        BY <1>1, <3>3, CommitEffect
      <4>2. QED
        BY <3>1, <3>3, <4>1
    <3>4. QED
      BY <3>2, <3>3
  <2>3. enabled => VersionOf(row') <= Len(audit')
    BY <1>1, CommitEffect, ZenonT(30) DEF LocalsInv, Commit, VersionOf
  <2>4. row' # None
    BY <1>1, CommitEffect
  <2>5. QED
    BY <1>a, <2>1, <2>2, <2>3, <2>4 DEF AuditedIffCommitted
<1>2. CASE \A r \in Requests : ~Commit(r)
  <2>1. row' = row /\ audit' = audit
    BY <1>2, OnlyCommits
  <2>2. \A r \in Requests : Committed(r)' <=> Committed(r)
    BY <1>2, OnlyCommitsCommit
  <2>3. QED
    BY <1>a, <2>1, <2>2 DEF AuditedIffCommitted
<1>3. QED
  BY <1>1, <1>2

-----------------------------------------------------------------------------
(* With one request at a time, what it read is what it will overwrite.     *)
LEMMA StepAlone ==
  TypeOK /\ LockInv /\ LocalsInv /\ AloneInv /\ [Next]_vars => AloneInv'
<1> SUFFICES ASSUME TypeOK, LockInv, LocalsInv, AloneInv, [Next]_vars, ~overlapped'
             PROVE  AloneInv'
  BY DEF AloneInv
<1> USE DEF AloneInv, OthersKept, Open
<1>1. ~overlapped
  BY DEF Next, Serve, vars, Arrive, Load, Reread, Insert, Update, RecordAudit,
         Commit, Respond, Fail
<1>2. ASSUME NEW r \in Requests, NEW what \in Result, Answer(r, what), r \in Open
      PROVE  AloneInv'
  BY <1>1, <1>2, AnswerEffect
<1>3. ASSUME NEW r \in Requests, Arrive(r) PROVE AloneInv'
  <2>1. \A s \in Requests : req[s].at \in {"new", "done"}
    BY <1>3 DEF Arrive
  <2>2. /\ \A s \in Requests \ {r} : req'[s] = req[s]
        /\ req'[r].at = "load"
    BY <1>3, ArriveEffect
  <2>3. QED
    BY <2>1, <2>2
<1>4. ASSUME NEW r \in Requests, Load(r) PROVE AloneInv'
  <2>1. CASE \E what \in Result : Answer(r, what)
    BY <1>2, <1>4, <2>1 DEF Load
  <2>2. CASE ~\E what \in Result : Answer(r, what)
    <3>1. /\ OthersKept(r) /\ req'[r].at = "reread"
          /\ req'[r].from = StateOf(row) /\ req'[r].version = VersionOf(row)
          /\ row' = row /\ req[r].at = "load"
      BY <1>4, <2>2, LoadEffect DEF Load
    <3>2. QED
      BY <1>1, <3>1
  <2>3. QED
    BY <2>1, <2>2
<1>5. ASSUME NEW r \in Requests, Reread(r) PROVE AloneInv'
  <2>1. /\ \A s \in Requests \ {r} : req'[s] = req[s]
        /\ req[r].at = "reread" /\ row' = row
    BY <1>5, RereadEffect DEF Reread
  <2>2. \A s \in Requests \ {r} : req[s].at \in {"new", "done"}
    BY <1>1, <2>1
  <2>3. /\ req'[r].at = "flush" /\ req'[r].from = req[r].from
        /\ req'[r].version = req[r].version /\ req'[r].seen = row
    BY <1>5, RereadEffect
  <2>4. QED
    BY <1>1, <2>1, <2>2, <2>3
<1>6. ASSUME NEW r \in Requests, Insert(r) PROVE AloneInv'
  <2>1. CASE row # None
    BY <1>2, <1>6, <2>1, InsertEffect DEF Insert, Result
  <2>2. CASE row = None
    BY <1>1, <1>6, <2>2, InsertEffect, EventKept DEF Insert, LockTaken
  <2>3. QED
    BY <2>1, <2>2
<1>7. ASSUME NEW r \in Requests, Update(r) PROVE AloneInv'
  <2>1. row = req[r].seen /\ req[r].version = row.version
    BY <1>1, <1>7 DEF Update, VersionOf
  <2>2. LockTaken(r, Written(r))
    BY <1>7, <2>1, UpdateEffect
  <2>3. QED
    BY <1>1, <1>7, <2>2, EventKept DEF Update, LockTaken
<1>8. ASSUME NEW r \in Requests, RecordAudit(r) PROVE AloneInv'
  <2>1. /\ \A s \in Requests \ {r} : req'[s] = req[s]
        /\ req'[r].at = "commit"
        /\ req'[r].from = req[r].from /\ req'[r].version = req[r].version
        /\ req'[r].seen = req[r].seen /\ req'[r].pending = req[r].pending
        /\ Written(r)' = Written(r)
    BY <1>8, RecordAuditEffect, EventKept
  <2>2. row' = row /\ req[r].at = "audit"
    BY <1>8 DEF RecordAudit
  <2>3. \A s \in Requests \ {r} : req[s].at \in {"new", "done"}
    BY <1>1, <2>2
  <2>4. QED
    BY <1>1, <2>1, <2>2, <2>3
<1>9. ASSUME NEW r \in Requests, Commit(r) PROVE AloneInv'
  <2>1. /\ \A s \in Requests \ {r} : req'[s] = req[s]
        /\ req'[r].at = "answer"
    BY <1>9, CommitEffect
  <2>2. \A s \in Requests \ {r} : req[s].at \in {"new", "done"}
    BY <1>1, <1>9 DEF Commit
  <2>3. QED
    BY <2>1, <2>2
<1>10. ASSUME NEW r \in Requests, Fail(r) PROVE AloneInv'
  BY <1>2, <1>10, OutcomeType DEF Fail
<1>11. ASSUME NEW r \in Requests, Respond(r) PROVE AloneInv'
  BY <1>2, <1>11 DEF Respond, Result
<1>12. CASE UNCHANGED vars
  BY <1>12 DEF vars, Written
<1>13. QED
  BY <1>3, <1>4, <1>5, <1>6, <1>7, <1>8, <1>9, <1>10, <1>11, <1>12
  DEF Next, Serve, vars

(* Where requests come one at a time, a commit appends the next version,   *)
(* from the state in which the commit before it left the row.              *)
LEMMA StepHistory ==
  TypeOK /\ LocalsInv /\ AloneInv /\ AuditIsHistory /\ [Next]_vars
    => AuditIsHistory'
<1> SUFFICES ASSUME TypeOK, LocalsInv, AloneInv, AuditIsHistory, [Next]_vars,
                    enabled', ~overlapped'
             PROVE  AuditIsHistory'
  BY DEF AuditIsHistory
<1>a. enabled
  BY EnabledKept
<1>b. ~overlapped
  BY DEF Next, Serve, vars, Arrive, Load, Reread, Insert, Update, RecordAudit,
         Commit, Respond, Fail
<1>1. enabled /\ ~overlapped
  BY <1>a, <1>b
<1>2. ASSUME NEW r \in Requests, Commit(r) PROVE AuditIsHistory'
  <2> DEFINE n == Len(audit)
  <2>1. /\ DOMAIN audit = 1 .. n /\ DOMAIN audit' = 1 .. n + 1 /\ n \in Nat
        /\ Len(audit') = n + 1
    BY <1>1, <1>2, CommitEffect, LenProperties DEF TypeOK
  <2>2. \A i \in 1 .. n : audit'[i] = audit[i]
    BY <1>1, <1>2, CommitEffect
  <2>3. audit'[n + 1] = Event(r) /\ row' = Written(r) /\ row' # None
    BY <1>1, <1>2, CommitEffect DEF AloneInv, Commit
  <2>4. /\ Event(r).from = StateOf(row) /\ Event(r).to = Written(r).state
        /\ Event(r).version = Written(r).version
    BY <1>1, <1>2 DEF Event, AloneInv, Commit
  <2>5. /\ Written(r).version = n + 1
        /\ StateOf(row) = IF n = 0 THEN InitialState ELSE audit[n].to
    <3>1. Written(r).version = VersionOf(row) + 1
      BY <1>1, <1>2, WrittenType DEF AloneInv, Commit
    <3>2. audit = << >> <=> n = 0
      BY <2>1, EmptySeq DEF TypeOK
    <3>3. QED
      BY <1>1, <3>1, <3>2 DEF AuditIsHistory
  <2>6. ASSUME NEW i \in DOMAIN audit'
        PROVE  /\ audit'[i].version = i
               /\ audit'[i].from = IF i = 1 THEN InitialState ELSE audit'[i - 1].to
    <3>1. CASE i \in 1 .. n
      <4>1. audit'[i] = audit[i] /\ (i # 1 => audit'[i - 1] = audit[i - 1])
        BY <2>1, <2>2, <3>1
      <4>2. QED
        BY <1>1, <2>1, <3>1, <4>1 DEF AuditIsHistory
    <3>2. CASE i = n + 1
      <4>1. n # 0 => audit'[n] = audit[n]
        BY <2>1, <2>2
      <4>2. QED
        BY <2>1, <2>3, <2>4, <2>5, <3>2, <4>1
    <3>3. QED
      BY <2>1, <3>1, <3>2
  <2>7. audit' # << >>
    BY <1>1, <2>1, <1>2, CommitEffect, EmptySeq
  <2>8. StateOf(row') = audit'[Len(audit')].to /\ VersionOf(row') = Len(audit')
    BY <2>1, <2>3, <2>4, <2>5 DEF StateOf, VersionOf
  <2>9. QED
    BY <2>6, <2>7, <2>8 DEF AuditIsHistory
<1>3. CASE \A r \in Requests : ~Commit(r)
  BY <1>1, <1>3, OnlyCommits DEF AuditIsHistory
<1>4. QED
  BY <1>2, <1>3

-----------------------------------------------------------------------------
(* A resource nobody has moved: no row, no event, no lock, no locals.      *)
LEMMA InitInv == Init => TypeOK /\ WorkflowInv
<1> SUFFICES ASSUME Init PROVE TypeOK /\ WorkflowInv
  OBVIOUS
<1>1. \A r \in Requests : req[r] = Served("new", "none")
  BY DEF Init
<1>2. \A r \in Requests :
        /\ req[r].at = "new" /\ req[r].result = "none"
        /\ req[r].version = 0 /\ req[r].seen = None
  BY <1>1 DEF Served
<1>3. Served("new", "none") \in Local
  BY ServedType DEF Result
<1>4. /\ audit \in Seq(AuditEvent) /\ Len(audit) = 0 /\ DOMAIN audit = {}
      /\ audit = << >> /\ row = None /\ holder = None
  BY EmptySeq DEF Init
<1>a. overlapped \in BOOLEAN
  BY Zenon DEF Init
<1>b. enabled \in BOOLEAN
  BY Zenon DEF Init
<1>5. TypeOK
  BY <1>3, <1>4, <1>a, <1>b DEF Init, TypeOK
<1>6. LockInv /\ LocalsInv /\ EventsAreEdges
  BY <1>2, <1>4, NoneAssumption DEF LockInv, LocalsInv, EventsAreEdges
<1>7. AuditedIffCommitted
  <2>1. \A r \in Requests : {i \in DOMAIN audit : audit[i].by = r} = {}
    BY <1>4
  <2>2. QED
    BY <1>2, <1>4, <2>1, FS_EmptySet DEF AuditedIffCommitted, VersionOf, Committed
<1>8. AloneInv
  BY <1>2 DEF AloneInv, Open
<1>9. AuditIsHistory
  BY <1>4 DEF AuditIsHistory, StateOf, VersionOf
<1>10. QED
  BY <1>5, <1>6, <1>7, <1>8, <1>9 DEF WorkflowInv

(* The inductive invariant of the transition route: who holds the lock,    *)
(* what a request carries between its statements, and what the log says.   *)
THEOREM WorkflowInvariant == Spec => [](TypeOK /\ WorkflowInv)
<1>1. TypeOK /\ WorkflowInv /\ [Next]_vars => (TypeOK /\ WorkflowInv)'
  BY StepTypeOK, StepLock, StepLocals, StepEdges, StepAudited, StepAlone,
     StepHistory DEF WorkflowInv
<1>2. QED
  BY <1>1, InitInv, PTL DEF Spec

(* In an application that audits, a transition has its one event in the    *)
(* log if and only if it was committed, answered or lost on its way to the *)
(* client, for any number of simultaneous requests and any failures:       *)
(* transition() writes row and event in one transaction.                   *)
THEOREM CommittedAudited == Spec => []AuditedIffCommitted
<1>1. QED
  BY WorkflowInvariant, PTL DEF WorkflowInv

(* In an application that audits, where requests come one at a time, the   *)
(* audit log is the history of the row that _save_state keeps.             *)
THEOREM History == Spec => []AuditIsHistory
<1>1. QED
  BY WorkflowInvariant, PTL DEF WorkflowInv

(* Even where requests race, and a commit takes the row along no edge at   *)
(* all, what it writes to the log is an edge of the map.                   *)
THEOREM AuditedEdges == Spec => []EventsAreEdges
<1>1. QED
  BY WorkflowInvariant, PTL DEF WorkflowInv

(* What a commit does to the row is an edge of the map wherever requests   *)
(* come one at a time, which is all that transition() needs to keep the    *)
(* promise that the race of TransitionsFollowEdges breaks.                 *)
THEOREM LoneTransitionsFollowEdges ==
  Spec => [][~overlapped /\ row' # row =>
               \E e \in Edge : e.from = StateOf(row) /\ e.to = StateOf(row')]_vars
<1>1. TypeOK /\ WorkflowInv /\ [Next]_vars =>
        (~overlapped /\ row' # row =>
           \E e \in Edge : e.from = StateOf(row) /\ e.to = StateOf(row'))
  <2> SUFFICES ASSUME TypeOK, WorkflowInv, [Next]_vars, ~overlapped, row' # row
               PROVE  \E e \in Edge : e.from = StateOf(row) /\ e.to = StateOf(row')
    OBVIOUS
  <2>1. PICK r \in Requests : Commit(r)
    BY OnlyCommits
  <2>2. row' = Written(r) /\ row' # None /\ req[r].from = StateOf(row)
    BY <2>1, CommitEffect DEF WorkflowInv, AloneInv, Commit
  <2>3. QED
    BY <2>1, <2>2, EventIsEdge DEF WorkflowInv, Event, StateOf
<1>2. QED
  BY <1>1, WorkflowInvariant, PTL DEF Spec
=============================================================================
