----------------------------- MODULE Foundation -----------------------------
(***************************************************************************)
(* AppFoundationPlanner.plan (foundation/planner.py) and the choice of     *)
(* domain packs (domain_packs/registry.py): from the words of a prompt to  *)
(* a plan of entities, routes, workflows, rules, roles and defaults.       *)
(*                                                                         *)
(* A prompt is a set of lines.  The code asks of a text only whether       *)
(* certain words occur in it, as substrings: a line is what it says.  That *)
(* "single-tenant" contains "tenant", and "threshold" contains "hr", is    *)
(* therefore a matter of the constant Lines, and so is that every prompt   *)
(* on "postgres" or a "report" is one on procurement, for its "po".        *)
(***************************************************************************)
EXTENDS Document

CONSTANT Lines   (* line number -> [section, bullet, name, says]: what the *)
                 (* heading above it says, whether it is a bullet, its     *)
                 (* cleaned name, and the words of the code's lists in it  *)

(* A line that contains a word contains the words inside that word.        *)
WordsInside ==
  ({"single-tenant", "multi-tenant", "tenant isolation"} \X {"tenant"})
  \cup ({"postgres", "support", "report", "opportunity", "idempotency",
         "idempotent"} \X {"po"})
  \cup ({"audit log", "audit trail", "auditing"} \X {"audit"})
  \cup ({"create, read, update", "list, create, update"} \X {"create", "update"})
  \cup ({"threshold", "asynchronous"} \X {"hr"})
  \cup ({"fastapi", "public api"} \X {"api"})
  \cup ({"payment gateway", "card payments", "payment processing"} \X {"payment"})
  \cup ({"duplicate request", "requests per second"} \X {"request"})
  \cup {<<"role-based", "role">>, <<"permissions", "permission">>,
         <<"purchase order", "purchase">>, <<"manager", "manage">>,
         <<"native mobile client", "native mobile">>,
         <<"machine-learning model training", "model training">>,
         <<"blockchain runtime", "blockchain">>,
         <<"soft delete", "delete">>, <<"high availability", "availability">>}

ASSUME LinesAssumption ==
  /\ DOMAIN Lines \subseteq Nat \ {0}
  /\ \A l \in DOMAIN Lines, w \in WordsInside :
       w[1] \in Lines[l].says => w[2] \in Lines[l].says

Says(prompt) == UNION {Lines[l].says : l \in prompt}
Mentions(prompt, words) == words \cap Says(prompt) # {}

-----------------------------------------------------------------------------
(* _DOMAIN_PACKS, in the order of their ids: the order that breaks ties.   *)
PackOrder ==
  <<"crm", "expense", "generic_crud", "hr", "inventory", "procurement",
    "school", "ticketing", "workflow_approval">>

PackWords ==
  [crm |-> {"crm", "lead", "deal", "customer", "pipeline", "opportunity"},
   expense |-> {"expense", "claim", "reimbursement", "receipt", "finance"},
   generic_crud |-> {"crud", "api", "backend", "records", "manage", "create",
                     "update", "delete"},
   hr |-> {"hr", "employee", "leave", "onboarding", "manager", "absence"},
   inventory |-> {"inventory", "product", "sku", "stock", "warehouse",
                  "supplier"},
   procurement |-> {"procurement", "purchase", "supplier", "po",
                    "purchase order"},
   school |-> {"school", "student", "class", "course", "attendance",
               "teacher"},
   ticketing |-> {"ticket", "helpdesk", "support", "issue", "incident"},
   workflow_approval |-> {"approval", "approve", "reject", "submit",
                          "workflow", "request"}]

Packs == DOMAIN PackWords
PackAt(p) == CHOOSE i \in DOMAIN PackOrder : PackOrder[i] = p
Score(prompt, p) == Cardinality(PackWords[p] \cap Says(prompt))

Ahead(prompt, p, q) ==
  \/ Score(prompt, p) > Score(prompt, q)
  \/ Score(prompt, p) = Score(prompt, q) /\ PackAt(p) < PackAt(q)

MaxPacks == 3

(* select_domain_packs *)
SelectPacks(prompt) ==
  LET scored == {p \in Packs : Score(prompt, p) > 0}
  IN  IF scored = {} THEN {"generic_crud"}
      ELSE {p \in scored :
              Cardinality({q \in scored : Ahead(prompt, q, p)}) < MaxPacks}

(* packs_for_plan: candidates are never empty and always known here.       *)
PacksForPlan(plan) == plan.packs \cup {"generic_crud"}

-----------------------------------------------------------------------------
(* Field descriptors, token by token: the type first.                      *)
Id == <<"uuid", "primary">>
Ref == <<"uuid", "required">>
Text == <<"string", "required">>
Key == <<"string", "unique", "required">>
Number == <<"int">>

EntityFields ==
  [Employee |-> [id |-> Id, name |-> Text, email |-> Key,
                 leave_balance |-> Number],
   LeaveRequest |-> [id |-> Id, employee_id |-> Ref,
                     requested_days |-> <<"int", "required">>,
                     status |-> Text],
   ExpenseClaim |-> [id |-> Id, employee_name |-> Text,
                     amount |-> <<"float", "required">>, status |-> Text],
   Lead |-> [id |-> Id, name |-> Text, email |-> Key, stage |-> Text],
   Deal |-> [id |-> Id, lead_id |-> Ref, amount |-> <<"float">>,
             stage |-> Text],
   Product |-> [id |-> Id, name |-> Text, sku |-> Key, quantity |-> Number],
   Ticket |-> [id |-> Id, title |-> Text, status |-> Text,
               priority |-> Text],
   Student |-> [id |-> Id, name |-> Text, student_number |-> Key],
   Course |-> [id |-> Id, title |-> Text, code |-> Key],
   Todo |-> [id |-> Id, title |-> Text, completed |-> <<"bool">>]]

(* The create schema of each entity leaves out the primary key.            *)
CreateFields(e) ==
  LET f == EntityFields[e]
  IN  [n \in {m \in DOMAIN f : "primary" \notin Elements(f[m])} |-> f[n]]

(* The cascade of _entities_for_prompt: the first row that applies.        *)
Cascade ==
  <<[words |-> {"leave", "hr", "employee"},
     entities |-> <<"Employee", "LeaveRequest">>],
    [words |-> {"expense", "receipt", "reimbursement"},
     entities |-> <<"ExpenseClaim">>],
    [words |-> {"crm", "deal", "lead"}, entities |-> <<"Lead", "Deal">>],
    [words |-> {"inventory", "product", "sku", "stock"},
     entities |-> <<"Product">>],
    [words |-> {"ticket", "helpdesk", "support"},
     entities |-> <<"Ticket">>],
    [words |-> {"school", "student", "course"},
     entities |-> <<"Student", "Course">>],
    [words |-> {"todo"}, entities |-> <<"Todo">>]>>

EntitiesFor(prompt) ==
  LET hits == {i \in DOMAIN Cascade : Mentions(prompt, Cascade[i].words)}
  IN  IF hits = {} THEN <<"Product">>
      ELSE Cascade[CHOOSE i \in hits : \A j \in hits : i <= j].entities

-----------------------------------------------------------------------------
Route(verb, method, e, item, body, returns) ==
  [verb |-> verb, method |-> method, entity |-> e, item |-> item,
   auth |-> "required", body |-> body, returns |-> returns]

(* _routes_for_entities: the first two entities, all five routes on        *)
(* request.  A path is its entity and whether it ends in {id}.             *)
RoutesFor(prompt, entities) ==
  LET crud == Mentions(prompt, {"crud", "update", "delete", "full"})
      Of(e) ==
        {Route("List", "GET", e, FALSE, NoSchema, Schema(e, "[]")),
         Route("Create", "POST", e, FALSE, Schema(e, "Create"), Schema(e, ""))}
        \cup IF ~crud THEN {} ELSE
        {Route("Get", "GET", e, TRUE, NoSchema, Schema(e, "")),
         Route("Update", "PATCH", e, TRUE, Schema(e, "Create"), Schema(e, "")),
         Route("Delete", "DELETE", e, TRUE, NoSchema, Schema(e, ""))}
  IN  UNION {Of(entities[i]) : i \in DOMAIN entities \cap 1..2}

Approval(e) ==
  [name |-> e \o "Approval", entity |-> e,
   states |-> {"draft", "submitted", "approved", "rejected"},
   transitions |-> {<<"draft", "submitted">>, <<"submitted", "approved">>,
                    <<"submitted", "rejected">>},
   actions |-> {"submit", "approve", "reject"}]

TicketLifecycle ==
  [name |-> "TicketLifecycle", entity |-> "Ticket",
   states |-> {"open", "assigned", "resolved", "closed", "reopened"},
   transitions |-> {<<"open", "assigned">>, <<"assigned", "resolved">>,
                    <<"resolved", "closed">>},
   actions |-> {"assign", "resolve", "close", "reopen"}]

WorkflowsFor(prompt, entities) ==
  LET has(e) == e \in Elements(entities)
  IN  CASE Mentions(prompt, {"leave"}) /\ has("LeaveRequest") ->
             {Approval("LeaveRequest")}
        [] Mentions(prompt, {"expense"}) /\ has("ExpenseClaim") ->
             {Approval("ExpenseClaim")}
        [] Mentions(prompt, {"ticket", "helpdesk"}) /\ has("Ticket") ->
             {TicketLifecycle}
        [] OTHER -> IF Mentions(prompt, {"approval", "approve"})
                      THEN {Approval(entities[1])} ELSE {}

(* _rules_for_prompt looks at the words only, not at the entities.         *)
Rule(name, entity, rule) ==
  [name |-> name, entity |-> entity, rule |-> rule, on |-> "reject"]

RulesFor(prompt) ==
  {r[2] : r \in {x \in
     {<<{"leave"}, Rule("LeaveBalanceCannotGoNegative", "LeaveRequest",
                        "requested_days <= employee.leave_balance")>>,
      <<{"stock", "inventory"}, Rule("PreventNegativeStock", "Product",
                                     "quantity >= 0")>>,
      <<{"expense"}, Rule("ExpenseAmountMustBePositive", "ExpenseClaim",
                          "amount >= 0")>>} : Mentions(prompt, x[1])}}

Relationship(s, t) ==
  [source |-> s, target |-> t, cardinality |-> "many-to-one",
   required |-> "true"]

RelationshipsFor(prompt, entities) ==
  LET e == Elements(entities)
  IN  {r \in {Relationship("LeaveRequest", "Employee"),
              Relationship("Deal", "Lead")} : {r.source, r.target} \subseteq e}
      \cup IF Mentions(prompt, {"supplier"}) /\ {"Product", "Supplier"} \subseteq e
             THEN {Relationship("Product", "Supplier")} ELSE {}

RolesOf(p) ==
  CASE p = "hr" -> {"Admin", "HrAdmin", "Manager", "Employee"}
    [] p = "expense" -> {"Admin", "FinanceManager", "Approver", "Employee"}
    [] p = "ticketing" -> {"Admin", "Agent", "Requester", "Viewer"}
    [] OTHER -> {"Admin", "Manager", "Viewer"}

PermissionsOf(role) == {"read"} \cup (IF role = "Viewer" THEN {} ELSE {"write"})

UnsupportedWords == {"payment", "stripe", "tax", "shipping carrier",
                     "email integration"}

-----------------------------------------------------------------------------
(* plan(): every part reads the same words, independently of the others.   *)
PlanFor(prompt) ==
  LET entities == EntitiesFor(prompt)
      packs == SelectPacks(prompt)
      AnyOf(words) == Mentions(prompt, words)
  IN  [description |-> prompt,
       packs |-> packs,
       entities |-> entities,
       routes |-> RoutesFor(prompt, entities),
       workflows |-> WorkflowsFor(prompt, entities),
       rules |-> RulesFor(prompt),
       relationships |-> RelationshipsFor(prompt, entities),
       roles |-> UNION {RolesOf(p) : p \in packs},
       reports |->
         (IF AnyOf({"report", "dashboard"}) THEN {"OperationalSummary"} ELSE {})
         \cup IF AnyOf({"inventory"}) THEN {"LowStockSummary"} ELSE {},
       unsupported |-> UnsupportedWords \cap Says(prompt),
       assumptions |-> {"bounded foundation", "integrations are surfaced"},
       questions |->
         (IF AnyOf({"approval"}) /\ ~AnyOf({"manager"})
            THEN {"who approves"} ELSE {})
         \cup IF AnyOf({"saas"}) /\ ~AnyOf({"tenant"})
                THEN {"tenant scope"} ELSE {},
       database |-> IF AnyOf({"postgres", "saas"}) THEN "PostgreSQL"
                    ELSE "InMemory",
       auth |-> "JWT",
       tenant |-> AnyOf({"saas", "tenant"}),
       audit |-> AnyOf({"audit", "approval", "saas"}),
       capabilities |-> {},
       trace |-> <<>>]
=============================================================================
