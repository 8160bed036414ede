---------------------------- MODULE WorkflowRuntime ----------------------------
(***************************************************************************)
(* The workflow endpoint of a generated SQLAlchemy application             *)
(* (backends/python_fastapi/platform.py emits app/platform/workflow.py and *)
(* the transition_workflow route): requests that move ONE resource of one  *)
(* tenant through one workflow.                                            *)
(*                                                                         *)
(* The route is a plain `def`, so FastAPI serves requests in a thread pool, *)
(* each with a Session (a transaction) of its own.  A transition reads the *)
(* row, decides, reads the row again, writes it, adds an audit event if the *)
(* application was generated with auditing, commits, and answers: a worker *)
(* may die between any two of these steps, the last two included.  The     *)
(* database (external: the generated deployment uses PostgreSQL, at its    *)
(* default isolation level) lets a statement see what is committed when it *)
(* runs, and makes a writer of the row wait for the transaction that wrote *)
(* it last.                                                                *)
(***************************************************************************)
EXTENDS Naturals, FiniteSets, Sequences

CONSTANTS
  Requests,       (* requests for the resource, each served once            *)
  States,         (* the declared states of the workflow                    *)
  InitialState,   (* the first of them: a resource without a row is in it   *)
  TransitionMap,  (* the edges, in order: [action, from, to]                *)
  Expected,       (* the values of expected_state; None where it is left out *)
  None            (* no row, no lock holder, no expected state              *)

ASSUME StatesAssumption == InitialState \in States /\ None \notin States
ASSUME ExpectedAssumption == Expected \subseteq States \cup {None}

VARIABLES
  enabled, (* AUDIT_ENABLED of the generated application: it never changes  *)
  row,    (* the committed WorkflowStateRecord of the resource, or None     *)
  audit,  (* the committed audit events, in the order of their commits      *)
  holder, (* the request whose uncommitted write locks the row, or None     *)
  req,    (* per request: where transition() is, its inputs and its locals  *)
  overlapped  (* history: two requests have been in service at once         *)

vars == <<enabled, row, audit, holder, req, overlapped>>

-----------------------------------------------------------------------------
Edge == {TransitionMap[i] : i \in DOMAIN TransitionMap}

ASSUME MapAssumption ==
  /\ TransitionMap \in Seq(Edge)
  /\ \A e \in Edge : e.from \in States /\ e.to \in States

Actions == {e.action : e \in Edge}

Row == [state : States, version : Nat]

AuditEvent == [by : Requests, action : Actions, from : States, to : States,
               version : Nat]

ASSUME NoneAssumption == None \notin Requests \cup Row \cup AuditEvent

StateOf(r)   == IF r = None THEN InitialState ELSE r.state
(* Faulty variant: a resource without a row is at version 1.                *)
VersionFromOne(r) == IF r = None THEN 1 ELSE r.version

VersionOf(r) == IF r = None THEN 0 ELSE r.version

(* The edge transition() picks: the first of the map with this action that *)
(* leaves the current state.                                               *)
Matches(action, from) ==
  {i \in DOMAIN TransitionMap : TransitionMap[i].action = action
                                 /\ TransitionMap[i].from = from}

Chosen(action, from) ==
  TransitionMap[CHOOSE i \in Matches(action, from) :
                  \A j \in Matches(action, from) : i <= j]

Target(action, from) == Chosen(action, from).to

Served(point, what) ==
  [at |-> point, action |-> None, expected |-> None, rules |-> TRUE,
   from |-> InitialState, version |-> 0, seen |-> None, pending |-> None,
   event |-> None, result |-> what]

Init ==
  /\ enabled \in BOOLEAN
  /\ row = None
  /\ audit = << >>
  /\ holder = None
  /\ req = [r \in Requests |-> Served("new", "none")]
  /\ overlapped = FALSE

(* The response goes out and the locals are gone.                          *)
Answer(r, what) == req' = [req EXCEPT ![r] = Served("done", what)]

-----------------------------------------------------------------------------
Open == {r \in Requests : req[r].at \notin {"new", "done"}}

(* A request arrives; rules says whether the business rules of the entity  *)
(* pass in the context it carries.                                         *)
Arrive(r) ==
  /\ req[r].at = "new"
  /\ \E a \in Actions, e \in Expected, b \in BOOLEAN :
       req' = [req EXCEPT ![r].at = "load", ![r].action = a,
                          ![r].expected = e, ![r].rules = b]
  /\ overlapped' = (overlapped \/ Open # {})
  /\ UNCHANGED <<enabled, row, audit, holder>>

(* _load_state, and the checks in the order the code makes them.  None of  *)
(* them holds anything: a refusal only has an empty transaction to commit. *)
(* What a request expects and whether its rules pass is not read again.    *)
Verdict(r, state) ==
  IF req[r].expected \notin {None, state} THEN "state_conflict"
  ELSE IF Matches(req[r].action, state) = {} THEN "transition_not_allowed"
  ELSE IF ~req[r].rules THEN "business_rule_rejected"
  ELSE "accepted"

Load(r) ==
  /\ req[r].at = "load"
  /\ LET v == Verdict(r, StateOf(row)) IN
     IF v = "accepted"
       THEN req' = [req EXCEPT ![r].at = "reread", ![r].from = StateOf(row),
                               ![r].version = VersionOf(row),
                               ![r].expected = None, ![r].rules = TRUE]
       ELSE Answer(r, v)
  /\ UNCHANGED <<enabled, row, audit, holder, overlapped>>

(* _save_state selects the row again: the object of the first select is    *)
(* gone from the session with _load_state's frame.                         *)
Reread(r) ==
  /\ req[r].at = "reread"
  /\ req' = [req EXCEPT ![r].at = "flush", ![r].seen = row]
  /\ UNCHANGED <<enabled, row, audit, holder, overlapped>>

Written(r) == [state |-> Target(req[r].action, req[r].from),
             version |-> req[r].version + 1]

(* The INSERT of a first transition waits for the lock and fails on the    *)
(* unique constraint if another one has got there first.                   *)
Insert(r) ==
  /\ req[r].at = "flush" /\ req[r].seen = None
  /\ holder = None
  /\ IF row = None
       THEN /\ holder' = r
            /\ req' = [req EXCEPT ![r].at = "audit", ![r].pending = Written(r)]
       ELSE Answer(r, "error") /\ UNCHANGED holder
  /\ UNCHANGED <<enabled, row, audit, overlapped>>

(* The UPDATE waits likewise, then sets the columns whose new value differs *)
(* from the one the session saw.                                           *)
Update(r) ==
  /\ req[r].at = "flush" /\ req[r].seen # None
  /\ holder = None
  /\ holder' = r
  /\ LET seen == req[r].seen
         new  == Written(r)
     IN req' = [req EXCEPT ![r].at = "audit",
                  ![r].pending =
                    [state |-> IF new.state # seen.state THEN new.state ELSE row.state,
                     version |-> IF new.version # seen.version
                                   THEN new.version ELSE row.version]]
  /\ UNCHANGED <<enabled, row, audit, overlapped>>

Event(r) == [by |-> r, action |-> req[r].action, from |-> req[r].from,
             to |-> Written(r).state, version |-> Written(r).version]

(* Faulty variant: the event is committed on its own, before the row.       *)
AuditAtOnce(r) ==
  /\ req[r].at = "audit"
  /\ audit' = IF enabled THEN Append(audit, Event(r)) ELSE audit
  /\ req' = [req EXCEPT ![r].at = "commit"]
  /\ UNCHANGED <<enabled, row, holder, overlapped>>

(* audit_log.record adds its event to the same transaction, if auditing is *)
(* on at all.                                                              *)
RecordAudit(r) ==
  /\ req[r].at = "audit"
  /\ req' = [req EXCEPT ![r].at = "commit",
                        ![r].event = IF enabled THEN Event(r) ELSE None]
  /\ UNCHANGED <<enabled, row, audit, holder, overlapped>>

(* db.commit(): row and event become visible and the lock is released,     *)
(* before anything is sent to the client.                                  *)
Commit(r) ==
  /\ req[r].at = "commit"
  /\ row' = req[r].pending
  /\ audit' = IF req[r].event = None THEN audit ELSE Append(audit, req[r].event)
  /\ holder' = None
  /\ req' = [req EXCEPT ![r] = Served("answer", "none")]
  /\ UNCHANGED <<enabled, overlapped>>

Respond(r) ==
  /\ req[r].at = "answer"
  /\ Answer(r, "accepted")
  /\ UNCHANGED <<enabled, row, audit, holder, overlapped>>

(* What is left of a request that fails where it stands.  The client of a  *)
(* committed transition cannot tell `lost` from `error`.                   *)
Outcome(r) == IF req[r].at = "answer" THEN "lost" ELSE "error"

(* Faulty variant: the lock survives the rollback.                          *)
FailKeepsLock(r) ==
  /\ r \in Open
  /\ Answer(r, Outcome(r))
  /\ UNCHANGED <<enabled, row, audit, holder, overlapped>>

(* A lost connection, a lock timeout or a killed worker: get_db closes the *)
(* session, or the database notices, and a transaction that has not        *)
(* committed is rolled back.                                               *)
Fail(r) ==
  /\ r \in Open
  /\ holder' = IF holder = r THEN None ELSE holder
  /\ Answer(r, Outcome(r))
  /\ UNCHANGED <<enabled, row, audit, overlapped>>

Serve(r) ==
  \/ Load(r) \/ Reread(r) \/ Insert(r) \/ Update(r)
  \/ RecordAudit(r) \/ Commit(r) \/ Respond(r)

Finished == \A r \in Requests : req[r].at = "done"

Next ==
  \/ \E r \in Requests : Arrive(r) \/ Serve(r) \/ Fail(r)
  \/ Finished /\ UNCHANGED vars

Spec == Init /\ [][Next]_vars

(* Every worker thread is scheduled, and the database grants the row lock  *)
(* to each transaction that waits for it.                                  *)
FairSpec == Spec /\ \A r \in Requests : WF_vars(Serve(r))

-----------------------------------------------------------------------------
Result == {"none", "accepted", "error", "lost", "state_conflict",
           "transition_not_allowed", "business_rule_rejected"}

(* The inputs and the locals of a request.                                 *)
Local ==
  [at : {"new", "load", "reread", "flush", "audit", "commit", "answer", "done"},
   action : Actions \cup {None}, expected : States \cup {None},
   rules : BOOLEAN, from : States, version : Nat, seen : Row \cup {None},
   pending : Row \cup {None}, event : AuditEvent \cup {None}, result : Result]

(* Type invariant.                                                         *)
TypeOK ==
  /\ enabled \in BOOLEAN
  /\ row \in Row \cup {None}
  /\ audit \in Seq(AuditEvent)
  /\ holder \in Requests \cup {None}
  /\ req \in [Requests -> Local]
  /\ overlapped \in BOOLEAN

(* A transition that is stored, answered or not.                           *)
Committed(r) == req[r].at = "answer" \/ req[r].result \in {"accepted", "lost"}

(* "Workflow transitions write audit events inside the same database       *)
(* transaction": in an application that audits, the log holds exactly one  *)
(* event of every transition that was committed, answered `accepted` or    *)
(* lost on its way to the client, and none of a request that was refused   *)
(* or rolled back, wherever it failed; without auditing it holds none.     *)
(* The resource has a row exactly when a transition of it was committed,   *)
(* and the row never claims more transitions than were audited: lost       *)
(* updates only ever lower the version.                                    *)
AuditedIffCommitted ==
  /\ \A r \in Requests :
       Cardinality({i \in DOMAIN audit : audit[i].by = r})
         = IF enabled /\ Committed(r) THEN 1 ELSE 0
  /\ row = None <=> \A r \in Requests : ~Committed(r)
  /\ enabled => VersionOf(row) <= Len(audit)

(* In an application that audits, where requests come one at a time, the   *)
(* audit log is the history of the row, lost answers included: its events  *)
(* chain from the initial state to the current one, with versions 1, 2,    *)
(* 3, ...                                                                  *)
AuditIsHistory == enabled /\ ~overlapped =>
  /\ \A i \in DOMAIN audit :
       /\ audit[i].version = i
       /\ audit[i].from = IF i = 1 THEN InitialState ELSE audit[i - 1].to
  /\ StateOf(row) = IF audit = << >> THEN InitialState ELSE audit[Len(audit)].to
  /\ VersionOf(row) = Len(audit)

(* "A transition is accepted only when the requested action matches an     *)
(* explicit edge from the persisted current state": what a commit does to  *)
(* the stored row is an edge of the map.                                   *)
TransitionsFollowEdges ==
  [][row' # row =>
       \E e \in Edge : e.from = StateOf(row) /\ e.to = StateOf(row')]_vars

(* No request waits for the row for ever.                                  *)
EveryRequestAnswered == \A r \in Requests : req[r].at = "load" ~> req[r].at = "done"
-----------------------------------------------------------------------------
(* The inductive invariants behind AuditedIffCommitted and AuditIsHistory. *)

(* The row is locked exactly by the request whose write is uncommitted.    *)
LockInv == \A r \in Requests : holder = r <=> req[r].at \in {"audit", "commit"}

(* What a request carries from one statement to the next: an edge of the   *)
(* map, its event once it is recorded, and, if commits are audited, a      *)
(* version the row once had and a pending row at most one version above    *)
(* their number.                                                           *)
LocalsInv == \A r \in Requests :
  /\ req[r].result # "none" => req[r].at = "done"
  /\ req[r].at \notin {"new", "answer", "done"} => req[r].action \in Actions
  /\ req[r].at \in {"reread", "flush", "audit", "commit"} =>
       Matches(req[r].action, req[r].from) # {}
  /\ enabled => req[r].version <= Len(audit)
  /\ req[r].seen # None => row # None
  /\ req[r].at \in {"audit", "commit"} =>
       /\ req[r].pending # None
       /\ enabled => req[r].pending.version <= Len(audit) + 1
  /\ req[r].at = "commit" =>
       req[r].event = IF enabled THEN Event(r) ELSE None

(* Every audited event is of an edge of the map, with or without races.    *)
EventsAreEdges == \A i \in DOMAIN audit :
  \E e \in Edge : /\ e.action = audit[i].action
                  /\ e.from = audit[i].from /\ e.to = audit[i].to

(* A request that meets no other one still has in hand what is stored.     *)
AloneInv == ~overlapped =>
  /\ \A r, s \in Open : r = s
  /\ \A r \in Requests :
       /\ req[r].at \in {"reread", "flush", "audit", "commit"} =>
            req[r].from = StateOf(row) /\ req[r].version = VersionOf(row)
       /\ req[r].at \in {"flush", "audit", "commit"} => req[r].seen = row
       /\ req[r].at \in {"audit", "commit"} => req[r].pending = Written(r)

WorkflowInv ==
  /\ LockInv /\ LocalsInv /\ EventsAreEdges /\ AuditedIffCommitted
  /\ AloneInv /\ AuditIsHistory
=============================================================================
