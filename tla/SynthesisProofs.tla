-------------------------- MODULE SynthesisProofs --------------------------
(***************************************************************************)
(* Theorems about Synthesis: what the stages make of any prompt, whatever  *)
(* its lines say, and of any document.                                     *)
(***************************************************************************)
EXTENDS Synthesis, FiniteSetTheorems, TLAPS

-----------------------------------------------------------------------------
(* The schemas a compiled document needs are all there: what its routes    *)
(* take and return, and what the routes of an entity create it from.       *)
LEMMA CompiledDocument ==
  ASSUME NEW doc, NEW ruff, Refusals(doc, ruff) = {}
  PROVE  /\ Parses(doc) /\ Diagnostics(doc) = {}
         /\ GivenSchemas(doc) \subseteq Models(doc)
         /\ UncreatableEntities(doc) = {}
<1>1. Parses(doc)
  BY DEF Refusals, Parses
<1>2. Diagnostics(doc) = {}
  BY <1>1 DEF Refusals
<1>3. UndefinedSchemas(doc) = {} /\ UncreatableEntities(doc) = {}
  BY <1>1, <1>2 DEF Refusals, TargetRefusals
<1>4. QED
  BY <1>1, <1>2, <1>3 DEF UndefinedSchemas

(* Every model of a document has its schema file.                          *)
LEMMA ModelHasSchemaFile ==
  ASSUME NEW doc, NEW s \in Models(doc)
  PROVE  "app/schemas/" \o SchemaName(s) \in GeneratedFiles(doc)
<1>1. "app/schemas/" \o SchemaName(s) \in ModelFiles(doc, s)
  BY DEF ModelFiles
<1>2. QED
  BY <1>1 DEF GeneratedFiles

(* What three separate checks leave over is enough for the imports.        *)
LEMMA CompiledImportsResolve ==
  ASSUME NEW doc, NEW ruff, Refusals(doc, ruff) = {}
  PROVE  ImportedBy(doc) \subseteq GeneratedFiles(doc)
<1> SUFFICES ASSUME NEW f \in ImportedBy(doc) PROVE f \in GeneratedFiles(doc)
  OBVIOUS
<1>1. CASE \E s \in {Normalized(r.body) : r \in doc.routes} \ {NoSchema} :
             f = "app/schemas/" \o SchemaName(s)
  <2>1. PICK s \in {Normalized(r.body) : r \in doc.routes} \ {NoSchema} :
           f = "app/schemas/" \o SchemaName(s)
    BY <1>1
  <2>2. s \in Models(doc)
    BY CompiledDocument DEF GivenSchemas
  <2>3. QED
    BY <2>1, <2>2, ModelHasSchemaFile
<1>2. CASE \E e \in {x \in RouteEntities(doc) : Schema(x, "") \in Models(doc)} :
             f \in {"app/schemas/" \o SchemaName(Schema(e, form)) : form \in {"", "Create"}}
  <2>1. PICK e \in {x \in RouteEntities(doc) : Schema(x, "") \in Models(doc)} :
           f \in {"app/schemas/" \o SchemaName(Schema(e, form)) : form \in {"", "Create"}}
    BY <1>2
  <2>2. PICK form \in {"", "Create"} : f = "app/schemas/" \o SchemaName(Schema(e, form))
    BY <2>1
  <2>3. Schema(e, form) \in Models(doc)
    BY CompiledDocument DEF UncreatableEntities
  <2>4. QED
    BY <2>2, <2>3, ModelHasSchemaFile
<1>3. QED
  BY <1>1, <1>2 DEF ImportedBy

-----------------------------------------------------------------------------
(* What the planner lays out for a prompt, whatever the prompt says.       *)

(* The descriptors of the built-in entities are all of a few kinds.        *)
Descriptors ==
  {Id, Ref, Text, Key, Number, <<"int", "required">>, <<"float", "required">>,
   <<"float">>, <<"bool">>}

(* The entities with built-in fields.                                      *)
LEMMA EntityNames ==
  DOMAIN EntityFields =
    {"Employee", "LeaveRequest", "ExpenseClaim", "Lead", "Deal", "Product",
     "Ticket", "Student", "Course", "Todo"}
BY DEF EntityFields

(* Every built-in field is of one of those kinds.                          *)
LEMMA FieldsAreDescribed ==
  ASSUME NEW e \in DOMAIN EntityFields, NEW f \in DOMAIN EntityFields[e]
  PROVE  EntityFields[e][f] \in Descriptors
<1> USE DEF Descriptors, EntityFields
<1>1. CASE e = "Employee"
  BY <1>1
<1>2. CASE e = "LeaveRequest"
  BY <1>2
<1>3. CASE e = "ExpenseClaim"
  BY <1>3
<1>4. CASE e = "Lead"
  BY <1>4
<1>5. CASE e = "Deal"
  BY <1>5
<1>6. CASE e = "Product"
  BY <1>6
<1>7. CASE e = "Ticket"
  BY <1>7
<1>8. CASE e = "Student"
  BY <1>8
<1>9. CASE e = "Course"
  BY <1>9
<1>10. CASE e = "Todo"
  BY <1>10
<1>11. QED
  BY <1>1, <1>2, <1>3, <1>4, <1>5, <1>6, <1>7, <1>8, <1>9, <1>10, EntityNames

(* And each of those kinds reads back as a field.                          *)
LEMMA DescriptorsParse ==
  ASSUME NEW d \in Descriptors
  PROVE  d # <<>> /\ "max=many" \notin Modifiers(d)
<1> USE DEF Modifiers, Elements
<1>1. CASE d = Id
  BY <1>1 DEF Id
<1>2. CASE d = Ref
  BY <1>2 DEF Ref
<1>3. CASE d = Text
  BY <1>3 DEF Text
<1>4. CASE d = Key
  BY <1>4 DEF Key
<1>5. CASE d = Number
  BY <1>5 DEF Number
<1>6. CASE d = <<"int", "required">>
  BY <1>6
<1>7. CASE d = <<"float", "required">>
  BY <1>7
<1>8. CASE d = <<"float">>
  BY <1>8
<1>9. CASE d = <<"bool">>
  BY <1>9
<1>10. QED
  BY <1>1, <1>2, <1>3, <1>4, <1>5, <1>6, <1>7, <1>8, <1>9 DEF Descriptors

(* None of them is a date, a word nobody knows, or has a default.          *)
LEMMA DescriptorsAreNamed ==
  ASSUME NEW d \in Descriptors
  PROVE  /\ d[1] \in NamedTypes \ {"date", "datetime"}
         /\ \A words \in SUBSET DefaultWords : ~Defaults(d, words)
<1>1. d[1] \in {"uuid", "string", "int", "float", "bool"}
  BY DEF Descriptors, Id, Ref, Text, Key, Number
<1>2. /\ Len(d) \in 1..3
      /\ \A i \in 2..Len(d) : d[i] \in {"primary", "required", "unique"}
  BY DEF Descriptors, Id, Ref, Text, Key, Number
<1>3. DefaultWords \cap {"primary", "required", "unique"} = {}
  BY DEF DefaultWords
<1>4. ASSUME NEW words \in SUBSET DefaultWords PROVE ~Defaults(d, words)
  BY <1>2, <1>3 DEF Defaults
<1>5. QED
  BY <1>1, <1>4 DEF NamedTypes, NumberTypes

(* One of a set of places in the cascade is the first.                     *)
LEMMA Smallest ==
  ASSUME NEW S \in SUBSET (1..7), S # {}
  PROVE  \E i \in S : \A j \in S : i <= j
<1>1. 1 \in S \/ 2 \in S \/ 3 \in S \/ 4 \in S \/ 5 \in S \/ 6 \in S \/ 7 \in S
  <2>1. PICK i \in S : TRUE
    OBVIOUS
  <2>2. i \in {1, 2, 3, 4, 5, 6, 7}
    OBVIOUS
  <2>3. QED
    BY <2>2
<1>2. QED
  BY <1>1

(* The cascade plans at least one entity, and only entities it has fields  *)
(* for.                                                                    *)
LEMMA EntitiesAreKnown ==
  ASSUME NEW p
  PROVE  /\ EntitiesFor(p) \in Seq(DOMAIN EntityFields)
         /\ EntitiesFor(p) # <<>>
<1> DEFINE hits == {i \in DOMAIN Cascade : Mentions(p, Cascade[i].words)}
<1>1. DOMAIN Cascade = 1..7
  BY DEF Cascade
<1>2. ASSUME NEW i \in 1..7
      PROVE  Cascade[i].entities \in Seq(DOMAIN EntityFields) /\ Cascade[i].entities # <<>>
  <2> DEFINE e == Cascade[i].entities
  <2>1. \/ e = <<"Employee", "LeaveRequest">> \/ e = <<"ExpenseClaim">>
        \/ e = <<"Lead", "Deal">> \/ e = <<"Product">> \/ e = <<"Ticket">>
        \/ e = <<"Student", "Course">> \/ e = <<"Todo">>
    BY DEF Cascade
  <2> DEFINE D == DOMAIN EntityFields
  <2>2. /\ "Employee" \in D /\ "LeaveRequest" \in D /\ "ExpenseClaim" \in D /\ "Lead" \in D
        /\ "Deal" \in D /\ "Product" \in D /\ "Ticket" \in D /\ "Student" \in D
        /\ "Course" \in D /\ "Todo" \in D
    BY EntityNames
  <2> HIDE DEF e, D
  <2>3. \A x \in D : <<x>> \in Seq(D) /\ <<x>> # <<>>
    OBVIOUS
  <2>4. \A x, y \in D : <<x, y>> \in Seq(D) /\ <<x, y>> # <<>>
    OBVIOUS
  <2>5. e \in Seq(D) /\ e # <<>>
    BY <2>1, <2>2, <2>3, <2>4
  <2>6. QED
    BY <2>5 DEF e, D
<1>3. CASE hits = {}
  BY <1>3, EntityNames DEF EntitiesFor
<1>4. CASE hits # {}
  <2>1. PICK i \in hits : \A j \in hits : i <= j
    BY <1>1, <1>4, Smallest
  <2>2. (CHOOSE k \in hits : \A j \in hits : k <= j) \in hits
    BY <2>1
  <2>3. EntitiesFor(p) = Cascade[CHOOSE k \in hits : \A j \in hits : k <= j].entities
    BY <1>4 DEF EntitiesFor
  <2>4. QED
    BY <1>1, <1>2, <2>2, <2>3
<1>5. QED
  BY <1>3, <1>4

(* A route as the planner makes it, its verb saying all the rest of it.    *)
RouteShape(r) ==
  /\ r = Route(r.verb, r.method, r.entity, r.item, r.body, r.returns)
  /\ r.auth = "required"
  /\ \/ /\ r.verb = "List" /\ r.method = "GET" /\ r.item = FALSE
        /\ r.body = NoSchema /\ r.returns = Schema(r.entity, "[]")
     \/ /\ r.verb = "Create" /\ r.method = "POST" /\ r.item = FALSE
        /\ r.body = Schema(r.entity, "Create") /\ r.returns = Schema(r.entity, "")
     \/ /\ r.verb = "Get" /\ r.method = "GET" /\ r.item = TRUE
        /\ r.body = NoSchema /\ r.returns = Schema(r.entity, "")
     \/ /\ r.verb = "Update" /\ r.method = "PATCH" /\ r.item = TRUE
        /\ r.body = Schema(r.entity, "Create") /\ r.returns = Schema(r.entity, "")
     \/ /\ r.verb = "Delete" /\ r.method = "DELETE" /\ r.item = TRUE
        /\ r.body = NoSchema /\ r.returns = Schema(r.entity, "")

(* The five constructors of _routes_for make routes of that shape.         *)
LEMMA ShapedRoute ==
  ASSUME NEW v, NEW m, NEW e, NEW i, NEW b, NEW s,
         \/ v = "List" /\ m = "GET" /\ i = FALSE /\ b = NoSchema /\ s = Schema(e, "[]")
         \/ v = "Create" /\ m = "POST" /\ i = FALSE /\ b = Schema(e, "Create") /\ s = Schema(e, "")
         \/ v = "Get" /\ m = "GET" /\ i = TRUE /\ b = NoSchema /\ s = Schema(e, "")
         \/ v = "Update" /\ m = "PATCH" /\ i = TRUE /\ b = Schema(e, "Create") /\ s = Schema(e, "")
         \/ v = "Delete" /\ m = "DELETE" /\ i = TRUE /\ b = NoSchema /\ s = Schema(e, "")
  PROVE  Route(v, m, e, i, b, s).entity = e /\ RouteShape(Route(v, m, e, i, b, s))
<1> DEFINE r == Route(v, m, e, i, b, s)
<1>1. /\ r.verb = v /\ r.method = m /\ r.entity = e /\ r.item = i
      /\ r.auth = "required" /\ r.body = b /\ r.returns = s
  BY Zenon DEF Route
<1>2. r = Route(r.verb, r.method, r.entity, r.item, r.body, r.returns)
  BY <1>1, Zenon
<1> HIDE DEF r
<1>3. r.entity = e /\ RouteShape(r)
  BY <1>1, <1>2, Zenon DEF RouteShape
<1>4. QED
  BY <1>3 DEF r

(* _routes_for plans routes of that shape, of planned entities.            *)
LEMMA PlannedRoutes ==
  ASSUME NEW p, NEW entities, NEW r \in RoutesFor(p, entities)
  PROVE  r.entity \in Elements(entities) /\ RouteShape(r)
<1> DEFINE Read(e) == {Route("List", "GET", e, FALSE, NoSchema, Schema(e, "[]")),
                       Route("Create", "POST", e, FALSE, Schema(e, "Create"), Schema(e, ""))}
           More(e) == {Route("Get", "GET", e, TRUE, NoSchema, Schema(e, "")),
                       Route("Update", "PATCH", e, TRUE, Schema(e, "Create"), Schema(e, "")),
                       Route("Delete", "DELETE", e, TRUE, NoSchema, Schema(e, ""))}
           Fit(q, e) == q.entity = e /\ RouteShape(q)
<1>1. ASSUME NEW e, NEW q \in Read(e) \cup More(e)
      PROVE  Fit(q, e)
  <2>1. Fit(Route("List", "GET", e, FALSE, NoSchema, Schema(e, "[]")), e)
    BY ShapedRoute, Zenon
  <2>2. Fit(Route("Create", "POST", e, FALSE, Schema(e, "Create"), Schema(e, "")), e)
    BY ShapedRoute, Zenon
  <2>3. Fit(Route("Get", "GET", e, TRUE, NoSchema, Schema(e, "")), e)
    BY ShapedRoute, Zenon
  <2>4. Fit(Route("Update", "PATCH", e, TRUE, Schema(e, "Create"), Schema(e, "")), e)
    BY ShapedRoute, Zenon
  <2>5. Fit(Route("Delete", "DELETE", e, TRUE, NoSchema, Schema(e, "")), e)
    BY ShapedRoute, Zenon
  <2> HIDE DEF Fit
  <2>6. QED
    BY <2>1, <2>2, <2>3, <2>4, <2>5, Zenon
<1> HIDE DEF Fit
<1>2. \E i \in DOMAIN entities \cap 1..2 : r \in Read(entities[i]) \cup More(entities[i])
  BY DEF RoutesFor
<1>3. QED
  BY <1>1, <1>2 DEF Elements, Fit

(* Such a route is known by its method and path.                           *)
LEMMA RouteIsItsKey ==
  ASSUME NEW r, NEW s, RouteShape(r), RouteShape(s), RouteKey(r) = RouteKey(s)
  PROVE  r = s
<1>1. r.method = s.method /\ r.entity = s.entity /\ r.item = s.item
  BY Zenon DEF RouteKey
<1>2. r.verb = s.verb /\ r.body = s.body /\ r.returns = s.returns
  BY <1>1, Zenon DEF RouteShape
<1>3. QED
  BY <1>1, <1>2, Zenon DEF RouteShape

(* A relationship, field by field.                                         *)
LEMMA RelationFields ==
  ASSUME NEW s, NEW t, NEW r, r = Relationship(s, t)
  PROVE  r.source = s /\ r.target = t /\ r.required = "true"
BY DEF Relationship

(* _relationships_for relates planned entities.                            *)
LEMMA PlannedRelations ==
  ASSUME NEW p, NEW entities, NEW r \in RelationshipsFor(p, entities)
  PROVE  /\ r.source \in Elements(entities) /\ r.target \in Elements(entities)
         /\ r.required = "true"
<1>1. \/ /\ r \in {Relationship("LeaveRequest", "Employee"), Relationship("Deal", "Lead")}
         /\ {r.source, r.target} \subseteq Elements(entities)
      \/ /\ r = Relationship("Product", "Supplier")
         /\ {"Product", "Supplier"} \subseteq Elements(entities)
  BY DEF RelationshipsFor
<1>2. QED
  BY <1>1, RelationFields

(* _workflows_for plans one workflow at most, of a planned entity.         *)
LEMMA PlannedWorkflows ==
  ASSUME NEW p, NEW entities, Elements(entities) # {},
         entities[1] \in Elements(entities)
  PROVE  /\ \A w \in WorkflowsFor(p, entities) : w.entity \in Elements(entities)
         /\ \A v, w \in WorkflowsFor(p, entities) : v = w
<1>1. \A e : Approval(e).entity = e
  BY DEF Approval
<1>2. TicketLifecycle.entity = "Ticket"
  BY DEF TicketLifecycle
<1>3. \/ WorkflowsFor(p, entities) = {}
      \/ \E e \in Elements(entities) : WorkflowsFor(p, entities) = {Approval(e)}
      \/ "Ticket" \in Elements(entities) /\ WorkflowsFor(p, entities) = {TicketLifecycle}
  BY DEF WorkflowsFor
<1>4. QED
  BY <1>1, <1>2, <1>3

(* A rule as the planner writes it.                                        *)
PlannedRule(r) ==
  /\ r = Rule(r.name, r.entity, r.rule)
  /\ r.on = "reject" /\ r.entity # Missing /\ r.rule # Missing
  /\ r.rule \notin InvalidRules \cup UnsupportedRules

(* _rules_for writes rules the compiler can read.                          *)
LEMMA PlannedRules ==
  ASSUME NEW p, NEW r \in RulesFor(p)
  PROVE  PlannedRule(r)
<1> DEFINE a == Rule("LeaveBalanceCannotGoNegative", "LeaveRequest",
                     "requested_days <= employee.leave_balance")
           b == Rule("PreventNegativeStock", "Product", "quantity >= 0")
           c == Rule("ExpenseAmountMustBePositive", "ExpenseClaim", "amount >= 0")
<1>1. PlannedRule(a) /\ PlannedRule(b) /\ PlannedRule(c)
  BY DEF PlannedRule, Rule, Missing, InvalidRules, UnsupportedRules
<1> HIDE DEF a, b, c
<1>2. r \in {a, b, c}
  <2>1. PICK x \in {<<{"leave"}, a>>, <<{"stock", "inventory"}, b>>, <<{"expense"}, c>>} :
          r = x[2]
    BY DEF RulesFor, a, b, c
  <2>2. <<{"leave"}, a>>[2] = a /\ <<{"stock", "inventory"}, b>>[2] = b /\ <<{"expense"}, c>>[2] = c
    OBVIOUS
  <2>3. QED
    BY <2>1, <2>2
<1>3. QED
  BY <1>1, <1>2

(* A plan as the planner lays it out: its parts fit each other, but for    *)
(* the rules, which may be of entities it does not have.                   *)
Sound(plan) ==
  /\ plan.entities \in Seq(DOMAIN EntityFields) /\ plan.entities # <<>>
  /\ \A r \in plan.routes : r.entity \in Elements(plan.entities) /\ RouteShape(r)
  /\ \A r \in plan.relationships :
       /\ r.source \in Elements(plan.entities) /\ r.target \in Elements(plan.entities)
       /\ r.required = "true"
  /\ \A w \in plan.workflows : w.entity \in Elements(plan.entities)
  /\ \A v, w \in plan.workflows : v = w
  /\ \A r \in plan.rules : PlannedRule(r)
  /\ plan.database \in {"PostgreSQL", "InMemory"}
  /\ plan.auth \in {"JWT", "None"}
  /\ plan.assumptions # {}
  /\ plan.tenant \in BOOLEAN /\ plan.audit \in BOOLEAN

(* The first of a sequence is among its elements.                          *)
LEMMA FirstElement ==
  ASSUME NEW S, NEW s \in Seq(S), s # <<>>
  PROVE  s[1] \in Elements(s)
BY DEF Elements

(* Every plan of the planner is sound.                                     *)
LEMMA PlanIsSound == ASSUME NEW p PROVE Sound(PlanFor(p))
<1> DEFINE plan == PlanFor(p)
           entities == EntitiesFor(p)
<1>1. /\ plan.entities = entities
      /\ plan.routes = RoutesFor(p, entities)
      /\ plan.workflows = WorkflowsFor(p, entities)
      /\ plan.rules = RulesFor(p)
      /\ plan.relationships = RelationshipsFor(p, entities)
  BY DEF PlanFor
<1>2. plan.database \in {"PostgreSQL", "InMemory"} /\ plan.auth \in {"JWT", "None"}
      /\ plan.assumptions # {}
  BY DEF PlanFor
<1>3. plan.tenant \in BOOLEAN /\ plan.audit \in BOOLEAN
  BY Zenon DEF PlanFor, Mentions
<1> HIDE DEF plan, entities
<1>4. entities \in Seq(DOMAIN EntityFields) /\ entities # <<>>
  BY EntitiesAreKnown DEF entities
<1>5. entities[1] \in Elements(entities)
  BY <1>4, FirstElement
<1>6. \A r \in plan.routes : r.entity \in Elements(plan.entities) /\ RouteShape(r)
  BY <1>1, PlannedRoutes
<1>7. \A r \in plan.relationships :
       /\ r.source \in Elements(plan.entities) /\ r.target \in Elements(plan.entities)
       /\ r.required = "true"
  BY <1>1, PlannedRelations
<1>8. /\ \A w \in plan.workflows : w.entity \in Elements(plan.entities)
      /\ \A v, w \in plan.workflows : v = w
  BY <1>1, <1>5, PlannedWorkflows
<1>9. \A r \in plan.rules : PlannedRule(r)
  BY <1>1, PlannedRules
<1>10. Sound(plan)
  BY <1>1, <1>2, <1>3, <1>4, <1>6, <1>7, <1>8, <1>9 DEF Sound
<1>11. QED
  BY <1>10 DEF plan

(* What compose and _apply_requirements leave of a plan.                   *)
LEMMA HintsAreKnown ==
  ASSUME NEW items
  PROVE  /\ StackHints(items).database \in {"PostgreSQL", "InMemory", ""}
         /\ StackHints(items).auth \in {"JWT", "None", ""}
<1>1. StackHints(items).database \in {"PostgreSQL", "InMemory", ""}
  BY DEF StackHints
<1>2. StackHints(items).auth \in {"JWT", "None", ""}
  BY DEF StackHints
<1>3. QED
  BY <1>1, <1>2

(* The fields of a foundation plan.                                        *)
PlanKeys ==
  {"description", "packs", "entities", "routes", "workflows", "rules",
   "relationships", "roles", "reports", "unsupported", "assumptions",
   "questions", "database", "auth", "tenant", "audit", "capabilities", "trace"}

(* Applying the requirements touches only what these state.                *)
LEMMA AppliedParts ==
  ASSUME NEW plan, DOMAIN plan = PlanKeys, NEW requirements
  PROVE  LET applied == Applied(plan, requirements)
             said(key, default) == IF requirements.hints[key] = "" THEN default
                                   ELSE requirements.hints[key]
         IN  /\ DOMAIN applied = PlanKeys
             /\ \A k \in PlanKeys \ {"trace", "unsupported", "assumptions", "questions",
                                     "database", "auth", "tenant", "audit"} :
                  applied[k] = plan[k]
             /\ applied.database = said("database", plan.database)
             /\ applied.auth = said("auth", plan.auth)
             /\ applied.assumptions = plan.assumptions \cup requirements.assumptions
BY DEF Applied, PlanKeys

(* The switches of a plan stay switches.                                   *)
LEMMA AppliedSwitches ==
  ASSUME NEW plan, DOMAIN plan = PlanKeys, NEW requirements
  PROVE  /\ Applied(plan, requirements).tenant \in BOOLEAN
         /\ Applied(plan, requirements).audit \in BOOLEAN
BY Zenon DEF Applied, PlanKeys, HasName

(* Storing the capabilities touches nothing else.                          *)
LEMMA CapabilitiesAreAdded ==
  ASSUME NEW plan, DOMAIN plan = PlanKeys, NEW capabilities
  PROVE  LET with == WithCapabilities(plan, capabilities)
         IN  /\ DOMAIN with = PlanKeys
             /\ \A k \in PlanKeys \ {"capabilities", "trace"} : with[k] = plan[k]
BY DEF WithCapabilities, PlanKeys

(* What the two gates find in the context of any prompt.                   *)
LEMMA ContextIsSound ==
  ASSUME NEW p
  PROVE  /\ Sound(ContextOf(p).foundation)
         /\ ContextOf(p).architecture.pattern = "layered_modular_monolith"
         /\ ContextOf(p).issues = IntegrityIssues(ContextOf(p).foundation)
         /\ ArchitectureResolved(ContextOf(p).architecture)
         /\ ContextOf(p).capabilities.status # "UNSUPPORTED"
         /\ ContextOf(p).negotiation.status # "SUPPORTED"
<1> DEFINE c == ContextOf(p)
           requirements == RequirementsOf(p)
           planned == PlanFor(p)
           stated == Applied(planned, requirements)
           capabilities == Compose(requirements, stated)
           plan == WithCapabilities(stated, capabilities)
<1>1. /\ c.foundation = plan
      /\ c.architecture = Resolve(requirements, stated)
      /\ c.issues = IntegrityIssues(plan)
      /\ c.capabilities = capabilities
      /\ c.negotiation = Negotiate(plan)
  BY DEF ContextOf, PreparedFrom, Planned, Composed, CanonicalContext
<1>2. DOMAIN planned = PlanKeys
  BY DEF PlanFor, PlanKeys
<1>3. /\ requirements.hints.database \in {"PostgreSQL", "InMemory", ""}
      /\ requirements.hints.auth \in {"JWT", "None", ""}
  BY HintsAreKnown DEF RequirementsOf, RequirementsFrom
<1>4. Sound(planned)
  BY PlanIsSound
<1>5. capabilities.status # "UNSUPPORTED"
  BY DEF Compose
<1> HIDE DEF c, requirements, planned, stated, capabilities, plan
<1>6. /\ stated.entities = planned.entities /\ stated.routes = planned.routes
      /\ stated.relationships = planned.relationships
      /\ stated.workflows = planned.workflows /\ stated.rules = planned.rules
      /\ stated.database \in {"PostgreSQL", "InMemory"} /\ stated.auth \in {"JWT", "None"}
      /\ stated.assumptions # {}
      /\ stated.tenant \in BOOLEAN /\ stated.audit \in BOOLEAN /\ DOMAIN stated = PlanKeys
  <2>1. /\ DOMAIN stated = PlanKeys
        /\ \A k \in PlanKeys \ {"trace", "unsupported", "assumptions", "questions",
                                "database", "auth", "tenant", "audit"} :
             stated[k] = planned[k]
        /\ stated.database = IF requirements.hints["database"] = "" THEN planned.database
                             ELSE requirements.hints["database"]
        /\ stated.auth = IF requirements.hints["auth"] = "" THEN planned.auth
                         ELSE requirements.hints["auth"]
        /\ stated.assumptions = planned.assumptions \cup requirements.assumptions
    BY <1>2, AppliedParts DEF stated
  <2>2. stated.tenant \in BOOLEAN /\ stated.audit \in BOOLEAN
    BY <1>2, AppliedSwitches DEF stated
  <2>3. /\ stated.entities = planned.entities /\ stated.routes = planned.routes
        /\ stated.relationships = planned.relationships
        /\ stated.workflows = planned.workflows /\ stated.rules = planned.rules
    BY <2>1 DEF PlanKeys
  <2>4. /\ stated.database \in {"PostgreSQL", "InMemory"} /\ stated.auth \in {"JWT", "None"}
        /\ stated.assumptions # {}
    BY <1>3, <1>4, <2>1 DEF Sound
  <2>5. QED
    BY <2>1, <2>2, <2>3, <2>4
<1>7. /\ plan.entities = planned.entities /\ plan.routes = planned.routes
      /\ plan.relationships = planned.relationships
      /\ plan.workflows = planned.workflows /\ plan.rules = planned.rules
      /\ plan.database \in {"PostgreSQL", "InMemory"} /\ plan.auth \in {"JWT", "None"}
      /\ plan.assumptions # {}
      /\ plan.tenant \in BOOLEAN /\ plan.audit \in BOOLEAN
  BY <1>6, CapabilitiesAreAdded DEF plan, PlanKeys
<1>8. Sound(plan)
  BY <1>4, <1>7 DEF Sound
<1>9. c.architecture.pattern = "layered_modular_monolith"
  BY <1>1 DEF Resolve
<1>10. ArchitectureResolved(c.architecture)
  <2> DEFINE candidates == Candidates(stated)
             Is(status) == {x \in DOMAIN candidates : candidates[x] = status}
  <2>1. c.architecture.candidates = candidates
    BY <1>1 DEF Resolve
  <2>2. Is("selected") = {"layered_modular_monolith"} /\ "microservices" \in Is("rejected")
    BY DEF Candidates
  <2>3. Cardinality(Is("selected")) = 1
    BY <2>2, FS_Singleton
  <2> HIDE DEF candidates
  <2>4. QED
    BY <2>1, <2>2, <2>3 DEF ArchitectureResolved
<1>11. c.negotiation.status # "SUPPORTED"
  BY <1>1, <1>7 DEF Negotiate, NegotiatedStatus
<1>12. QED
  BY <1>1, <1>5, <1>8, <1>9, <1>10, <1>11 DEF c

-----------------------------------------------------------------------------
(* What is rendered of a plan, and what the compiler says of it.           *)

(* A schema is known by its entity and its form.                           *)
LEMMA SchemaParts ==
  ASSUME NEW e, NEW form, NEW s, s = Schema(e, form)
  PROVE  s.of = e /\ s.form = form
BY DEF Schema

(* A model section, field by field.                                        *)
LEMMA SectionParts ==
  ASSUME NEW schema, NEW fields, NEW m, m = ModelSection(schema, fields)
  PROVE  m.name = schema /\ m.fields = fields
BY DEF ModelSection

(* The two models of an entity.                                            *)
LEMMA EntitySectionParts ==
  ASSUME NEW e, NEW m \in EntitySections(e)
  PROVE  \/ m.name = Schema(e, "") /\ m.fields = EntityFields[e]
         \/ m.name = Schema(e, "Create") /\ m.fields = CreateFields(e)
<1>1. CASE m = ModelSection(Schema(e, ""), EntityFields[e])
  BY <1>1 DEF ModelSection
<1>2. CASE m = ModelSection(Schema(e, "Create"), CreateFields(e))
  BY <1>2 DEF ModelSection
<1>3. QED
  BY <1>1, <1>2 DEF EntitySections

(* A rendered model is always a mapping.                                   *)
LEMMA SectionIsMapping ==
  ASSUME NEW schema, NEW fields
  PROVE  ModelSection(schema, fields).mapping
BY Zenon DEF ModelSection

(* The models of a rendered document are two to an entity.                 *)
LEMMA RenderedModels ==
  ASSUME NEW plan, NEW pattern, NEW doc, doc.models = Render(plan, pattern).models
  PROVE  /\ \A m \in doc.models : \E e \in Elements(plan.entities) : m \in EntitySections(e)
         /\ \A e \in Elements(plan.entities) : EntitySections(e) \subseteq doc.models
         /\ \A e : e \in Elements(plan.entities) <=> Schema(e, "") \in Models(doc)
         /\ \A e : e \in Elements(plan.entities) <=> Schema(e, "Create") \in Models(doc)
         /\ Models(doc) \subseteq CanonicalModels(plan)
<1>1. doc.models = UNION {EntitySections(e) : e \in Elements(plan.entities)}
  BY DEF Render
<1>2. \A m \in doc.models : \E e \in Elements(plan.entities) : m \in EntitySections(e)
  BY <1>1
<1>3. \A e \in Elements(plan.entities) : EntitySections(e) \subseteq doc.models
  BY <1>1
<1>4. ASSUME NEW e, NEW m \in EntitySections(e)
      PROVE  m.name \in {Schema(e, ""), Schema(e, "Create")}
  BY EntitySectionParts
<1>5. ASSUME NEW e
      PROVE  /\ \E m \in EntitySections(e) : m.name = Schema(e, "")
             /\ \E m \in EntitySections(e) : m.name = Schema(e, "Create")
  <2>1. ModelSection(Schema(e, ""), EntityFields[e]).name = Schema(e, "")
    BY SectionParts
  <2>2. ModelSection(Schema(e, "Create"), CreateFields(e)).name = Schema(e, "Create")
    BY SectionParts
  <2>3. QED
    BY <2>1, <2>2 DEF EntitySections
<1>6. ASSUME NEW e \in Elements(plan.entities)
      PROVE  Schema(e, "") \in Models(doc) /\ Schema(e, "Create") \in Models(doc)
  BY <1>3, <1>5 DEF Models
<1>7. ASSUME NEW s \in Models(doc)
      PROVE  \E e \in Elements(plan.entities) : s \in {Schema(e, ""), Schema(e, "Create")}
  BY <1>2, <1>4 DEF Models
<1>8. ASSUME NEW e, Schema(e, "") \in Models(doc) \/ Schema(e, "Create") \in Models(doc)
      PROVE  e \in Elements(plan.entities)
  <2>1. PICK s \in Models(doc) : s.of = e
    BY <1>8, SchemaParts
  <2>2. PICK x \in Elements(plan.entities) : s = Schema(x, "") \/ s = Schema(x, "Create")
    BY <1>7
  <2>3. s.of = x
    <3>1. CASE s = Schema(x, "")
      BY <3>1 DEF Schema
    <3>2. CASE s = Schema(x, "Create")
      BY <3>2 DEF Schema
    <3>3. QED
      BY <2>2, <3>1, <3>2
  <2>4. QED
    BY <2>1, <2>2, <2>3
<1>9. Models(doc) \subseteq CanonicalModels(plan)
  <2> SUFFICES ASSUME NEW s \in Models(doc) PROVE s \in CanonicalModels(plan)
    OBVIOUS
  <2>1. PICK e \in Elements(plan.entities) : s \in {Schema(e, ""), Schema(e, "Create")}
    BY <1>7
  <2>2. s \in {Schema(e, form) : form \in {"", "Create", "Update"}}
    BY <2>1
  <2>3. QED
    BY <2>2 DEF CanonicalModels
<1>10. QED
  BY <1>2, <1>3, <1>6, <1>8, <1>9

(* What an entity is created from is of its fields.                        *)
LEMMA CreateFieldsAreFields ==
  ASSUME NEW e, NEW f \in DOMAIN CreateFields(e)
  PROVE  f \in DOMAIN EntityFields[e] /\ CreateFields(e)[f] = EntityFields[e][f]
BY DEF CreateFields

(* Every field the renderer writes can be read again.                      *)
LEMMA RenderedFields ==
  ASSUME NEW e \in DOMAIN EntityFields, NEW m \in EntitySections(e), NEW f \in DOMAIN m.fields
  PROVE  /\ m.fields[f] \in Descriptors
         /\ m.fields[f] # <<>> /\ "max=many" \notin Modifiers(m.fields[f])
<1>1. m.fields = EntityFields[e] \/ m.fields = CreateFields(e)
  BY EntitySectionParts
<1>2. m.fields[f] \in Descriptors
  BY <1>1, FieldsAreDescribed, CreateFieldsAreFields
<1>3. QED
  BY <1>2, DescriptorsParse

(* A route section, field by field.                                        *)
LEMMA RouteSectionParts ==
  ASSUME NEW r
  PROVE  LET s == RouteSection(r)
         IN  /\ s.at = 1 /\ s.method = r.method /\ s.entity = r.entity
             /\ s.auth = r.auth /\ s.body = r.body /\ s.returns = r.returns
             /\ s.item = r.item
BY DEF RouteSection

(* A rule section, field by field.                                         *)
LEMMA RuleSectionParts ==
  ASSUME NEW r, PlannedRule(r)
  PROVE  LET s == RuleSection(r)
         IN  /\ s.type = "Invariant" /\ s.name = r.name /\ s.entity = r.entity
             /\ s.rule = r.rule /\ s.on = "reject"
BY DEF RuleSection, PlannedRule

(* What else a rendered document consists of.                              *)
LEMMA RenderedParts ==
  ASSUME NEW plan, NEW pattern
  PROVE  LET doc == Render(plan, pattern)
         IN  /\ doc.stack = {[at |-> 1, backend |-> "FastAPI", database |-> plan.database,
                              auth |-> plan.auth]}
             /\ doc.tenant = PlatformSection(plan.tenant)
             /\ doc.audit = PlatformSection(plan.audit)
             /\ doc.capabilities = plan.packs \cup plan.capabilities
             /\ doc.roles = {[name |-> r, permissions |-> PermissionsOf(r)] : r \in plan.roles}
             /\ doc.rules = {RuleSection(r) : r \in plan.rules}
             /\ doc.routes = {RouteSection(r) : r \in plan.routes}
             /\ doc.reports = plan.reports
             /\ doc.unknown = {} /\ doc.syntax = {}
BY DEF Render

(* Policies and constraints are the same whatever is planned.              *)
LEMMA RenderedScaffolding ==
  ASSUME NEW plan, NEW pattern
  PROVE  LET doc == Render(plan, pattern)
         IN  /\ doc.policies = {[at |-> 1, name |-> "ErrorHandling", broad_catch |-> "forbidden"]}
             /\ doc.constraints =
                  {[at |-> 1, name |-> "Architecture", pattern |-> Missing,
                    architecture |-> ArchitectureConstraint(pattern), avoid_broad |-> FALSE]}
BY DEF Render

(* The section a relationship is rendered as.                              *)
RelationSection(r) ==
  [name |-> r.source \o r.target, source |-> r.source, target |-> r.target,
   cardinality |-> r.cardinality, required |-> r.required]

(* The section a workflow is rendered as.                                  *)
WorkflowSection(w) ==
  [at |-> 1, name |-> w.name, entity |-> w.entity, states |-> w.states,
   transitions |-> w.transitions, actions |-> w.actions]

(* Relationships and workflows are rendered one section to each.           *)
LEMMA RenderedRelations ==
  ASSUME NEW plan, NEW pattern
  PROVE  /\ Render(plan, pattern).relationships = {RelationSection(r) : r \in plan.relationships}
         /\ Render(plan, pattern).workflows = {WorkflowSection(w) : w \in plan.workflows}
BY DEF Render, RelationSection, WorkflowSection

(* Of a sound plan only a rule can be of an entity the plan does not have. *)
StrayRule(plan) == \E r \in plan.rules : r.entity \notin Elements(plan.entities)

(* Integrity finds nothing but stray rules in a sound plan.                *)
LEMMA OnlyRulesStray ==
  ASSUME NEW plan, Sound(plan)
  PROVE  IntegrityIssues(plan) = {} <=> ~StrayRule(plan)
<1>1. \A r \in plan.relationships : {r.source, r.target} \subseteq Elements(plan.entities)
  BY DEF Sound
<1>2. \A w \in plan.workflows : {w.entity} \subseteq Elements(plan.entities)
  BY DEF Sound
<1>3. IntegrityIssues(plan) =
        {<<"rule", r.name>> :
           r \in {x \in plan.rules : ~({x.entity} \subseteq Elements(plan.entities))}}
  BY <1>1, <1>2 DEF IntegrityIssues
<1>4. QED
  BY <1>3 DEF StrayRule

(* The entities of a sound plan have built-in fields.                      *)
LEMMA ElementsAreKnown ==
  ASSUME NEW plan, Sound(plan), NEW e \in Elements(plan.entities)
  PROVE  e \in DOMAIN EntityFields
BY DEF Sound, Elements

(* Every rendered model reads back.                                        *)
LEMMA RenderedModelsParse ==
  ASSUME NEW plan, Sound(plan), NEW pattern, NEW m \in Render(plan, pattern).models
  PROVE  FieldsParse(m)
<1>1. PICK e \in Elements(plan.entities) : m \in EntitySections(e)
  BY RenderedModels
<1>2. e \in DOMAIN EntityFields
  BY ElementsAreKnown
<1>3. QED
  BY <1>1, <1>2, RenderedFields DEF FieldsParse

(* And its fields are written without a word Python does not know.         *)
LEMMA RenderedModelsAreNamed ==
  ASSUME NEW plan, Sound(plan), NEW pattern
  PROVE  /\ InvalidDefaults(Render(plan, pattern)) = {}
         /\ ~UndefinedNames(Render(plan, pattern))
<1> DEFINE doc == Render(plan, pattern)
<1>1. ASSUME NEW m \in doc.models, NEW f \in DOMAIN m.fields
      PROVE  m.fields[f] \in Descriptors
  <2>1. PICK e \in Elements(plan.entities) : m \in EntitySections(e)
    BY RenderedModels
  <2>2. e \in DOMAIN EntityFields
    BY ElementsAreKnown
  <2>3. QED
    BY <2>1, <2>2, RenderedFields
<1> HIDE DEF doc
<1>2. ASSUME NEW m \in doc.models, NEW f \in DOMAIN m.fields
      PROVE  /\ m.fields[f][1] \in NamedTypes \ {"date", "datetime"}
             /\ \A words \in SUBSET DefaultWords : ~Defaults(m.fields[f], words)
  BY <1>1, <1>2, DescriptorsAreNamed
<1>3. InvalidDefaults(doc) = {}
  BY <1>2 DEF InvalidDefaults
<1>4. ~UndefinedNames(doc)
  <2>1. DefaultWords \ {"default=null", "default=7"} \in SUBSET DefaultWords
    OBVIOUS
  <2>2. QED
    BY <1>2, <2>1 DEF UndefinedNames
<1>5. QED
  BY <1>3, <1>4 DEF doc

(* Normalising the schemas that routes are given.                          *)
LEMMA NormalForms ==
  ASSUME NEW e
  PROVE  /\ Normalized(Schema(e, "")) = Schema(e, "")
         /\ Normalized(Schema(e, "[]")) = Schema(e, "")
         /\ Normalized(Schema(e, "Create")) = Schema(e, "Create")
         /\ Normalized(NoSchema) = NoSchema
         /\ Primitive(NoSchema)
BY DEF Normalized, Schema, NoSchema, Primitive

(* Every route returns a schema, of its entity.                            *)
LEMMA ReturnedSchema ==
  ASSUME NEW e, e # "none", NEW x, x = Schema(e, "[]") \/ x = Schema(e, "")
  PROVE  x # NoSchema /\ x.of = e
<1>1. CASE x = Schema(e, "[]")
  BY <1>1 DEF Schema, NoSchema
<1>2. CASE x = Schema(e, "")
  BY <1>2 DEF Schema, NoSchema
<1>3. QED
  BY <1>1, <1>2

(* What a rendered route takes and returns is declared.                    *)
LEMMA RenderedRoute ==
  ASSUME NEW plan, Sound(plan), NEW pattern, NEW s \in Render(plan, pattern).routes
  PROVE  /\ s.body = NoSchema \/ Normalized(s.body) \in Models(Render(plan, pattern))
         /\ s.returns # NoSchema
         /\ Normalized(s.returns) \in Models(Render(plan, pattern))
         /\ s.returns.of \in Elements(plan.entities)
<1> DEFINE doc == Render(plan, pattern)
<1>1. PICK r \in plan.routes : s = RouteSection(r)
  BY RenderedParts
<1>2. r.entity \in Elements(plan.entities) /\ RouteShape(r)
  BY DEF Sound
<1>3. s.body = r.body /\ s.returns = r.returns
  BY <1>1, RouteSectionParts
<1> DEFINE e == r.entity
<1>4. /\ r.body = NoSchema \/ r.body = Schema(e, "Create")
      /\ r.returns = Schema(e, "[]") \/ r.returns = Schema(e, "")
  BY <1>2, Zenon DEF RouteShape
<1> HIDE DEF e
<1>5. Schema(e, "") \in Models(doc) /\ Schema(e, "Create") \in Models(doc)
  BY <1>2, RenderedModels DEF e
<1>6. s.body = NoSchema \/ Normalized(s.body) \in Models(doc)
  BY <1>3, <1>4, <1>5, NormalForms
<1>7. Normalized(s.returns) \in Models(doc)
  BY <1>3, <1>4, <1>5, NormalForms
<1>8. s.returns # NoSchema /\ s.returns.of = e
  <2>1. e \in DOMAIN EntityFields
    BY <1>2, ElementsAreKnown DEF e
  <2>2. e # "none"
    BY <2>1, EntityNames
  <2>3. r.returns # NoSchema /\ r.returns.of = e
    BY <1>4, <2>2, ReturnedSchema
  <2>4. QED
    BY <1>3, <2>3
<1>9. QED
  BY <1>2, <1>6, <1>7, <1>8 DEF e

(* What a rendered relationship relates is declared.                       *)
LEMMA RenderedRelation ==
  ASSUME NEW plan, Sound(plan), NEW pattern, NEW s \in Render(plan, pattern).relationships
  PROVE  /\ Schema(s.source, "") \in Models(Render(plan, pattern))
         /\ Schema(s.target, "") \in Models(Render(plan, pattern))
         /\ s.required = "true"
<1>1. PICK r \in plan.relationships : s = RelationSection(r)
  BY RenderedRelations
<1>2. s.source = r.source /\ s.target = r.target /\ s.required = r.required
  BY <1>1 DEF RelationSection
<1>3. /\ r.source \in Elements(plan.entities) /\ r.target \in Elements(plan.entities)
      /\ r.required = "true"
  BY DEF Sound
<1>4. QED
  BY <1>2, <1>3, RenderedModels

(* A rule of a rendered document is one of the plan.                       *)
LEMMA RenderedRule ==
  ASSUME NEW plan, Sound(plan), NEW pattern, NEW s \in Render(plan, pattern).rules
  PROVE  /\ s.on = "reject" /\ s.entity # Missing /\ s.rule # Missing
         /\ s.rule \notin InvalidRules \cup UnsupportedRules
         /\ \E r \in plan.rules : s.entity = r.entity /\ s.rule = r.rule
<1>1. PICK r \in plan.rules : s = RuleSection(r)
  BY RenderedParts
<1>2. PlannedRule(r)
  BY DEF Sound
<1>3. s.entity = r.entity /\ s.rule = r.rule /\ s.on = "reject"
  BY <1>1, <1>2, RuleSectionParts
<1>4. QED
  BY <1>2, <1>3 DEF PlannedRule

(* The compiler refuses a rendered document for nothing but a stray rule.  *)
LEMMA RenderedRefusals ==
  ASSUME NEW plan, Sound(plan), NEW pattern, NEW ruff
  PROVE  Refusals(Render(plan, pattern), ruff) = IF StrayRule(plan) THEN {"SEM203"} ELSE {}
<1> DEFINE doc == Render(plan, pattern)
<1>1. doc.syntax = {} /\ doc.unknown = {}
  BY RenderedParts
<1>2. \A m \in doc.models : FieldsParse(m)
  BY RenderedModelsParse
<1>3. RouteDiagnostics(doc) = {}
  <2>1. \A r \in doc.routes : /\ Primitive(r.body) \/ Declared(doc, r.body)
                              /\ Primitive(r.returns) \/ Declared(doc, r.returns)
    BY RenderedRoute, NormalForms DEF Declared
  <2> HIDE DEF doc
  <2>2. QED
    BY <2>1 DEF RouteDiagnostics
<1>4. RelationshipDiagnostics(doc) = {}
  <2>1. \A r \in doc.relationships :
          Schema(r["source"], "") \in Models(doc) /\ Schema(r["target"], "") \in Models(doc)
    BY RenderedRelation
  <2> HIDE DEF doc
  <2>2. QED
    BY <2>1 DEF RelationshipDiagnostics
<1>5. RuleDiagnostics(doc) = IF StrayRule(plan) THEN {"SEM203"} ELSE {}
  <2>1. \A s \in doc.rules :
          /\ s.on = "reject" /\ s.entity # Missing /\ s.rule # Missing
          /\ s.rule \notin InvalidRules \cup UnsupportedRules
    BY RenderedRule
  <2>2. StrayRule(plan) <=> \E s \in doc.rules : Schema(s.entity, "") \notin Models(doc)
    <3>1. ASSUME NEW s \in doc.rules, Schema(s.entity, "") \notin Models(doc)
          PROVE  StrayRule(plan)
      <4>1. PICK r \in plan.rules : s.entity = r.entity
        BY RenderedRule
      <4>2. r.entity \notin Elements(plan.entities)
        BY <3>1, <4>1, RenderedModels
      <4>3. QED
        BY <4>2 DEF StrayRule
    <3>2. ASSUME NEW r \in plan.rules, r.entity \notin Elements(plan.entities)
          PROVE  \E s \in doc.rules : Schema(s.entity, "") \notin Models(doc)
      <4>1. RuleSection(r) \in doc.rules
        BY RenderedParts
      <4>2. RuleSection(r).entity = r.entity
        BY RuleSectionParts DEF Sound
      <4>3. Schema(r.entity, "") \notin Models(doc)
        BY <3>2, RenderedModels
      <4>4. QED
        BY <4>1, <4>2, <4>3
    <3>3. QED
      BY <3>1, <3>2 DEF StrayRule
  <2> HIDE DEF doc
  <2>3. ASSUME NEW d \in RuleDiagnostics(doc)
        PROVE  d = "SEM203" /\ StrayRule(plan)
    BY <2>1, <2>2 DEF RuleDiagnostics, Missing
  <2>4. ASSUME StrayRule(plan)
        PROVE  "SEM203" \in RuleDiagnostics(doc)
    BY <2>1, <2>2, <2>4 DEF RuleDiagnostics
  <2>5. QED
    BY <2>3, <2>4
<1>6. UndefinedSchemas(doc) = {}
  <2>1. \A r \in doc.routes :
          /\ Normalized(r.body) \in Models(doc) \cup {NoSchema}
          /\ Normalized(r.returns) \in Models(doc) \cup {NoSchema}
    BY RenderedRoute, NormalForms
  <2> HIDE DEF doc
  <2>2. QED
    BY <2>1 DEF UndefinedSchemas, GivenSchemas
<1>7. TargetRefusals(doc, ruff) = {}
  <2>1. UncreatableEntities(doc) = {}
    BY RenderedModels DEF UncreatableEntities
  <2>2. InvalidDefaults(doc) = {} /\ ~UndefinedNames(doc)
    BY RenderedModelsAreNamed
  <2> HIDE DEF doc
  <2>3. QED
    BY <2>1, <2>2 DEF TargetRefusals, CanonicalizationErrors
<1> HIDE DEF doc
<1>8. Parses(doc)
  BY <1>1 DEF Parses
<1>9. Diagnostics(doc) = IF StrayRule(plan) THEN {"SEM203"} ELSE {}
  BY <1>1, <1>2, <1>3, <1>4, <1>5 DEF Diagnostics
<1>10. Refusals(doc, ruff) = IF StrayRule(plan) THEN {"SEM203"} ELSE {}
  BY <1>6, <1>7, <1>8, <1>9 DEF Refusals
<1>11. QED
  BY <1>10 DEF doc

-----------------------------------------------------------------------------
(* What the verifier says of it, part by part.                             *)

(* A document with the sections of a rendered one, whatever capabilities   *)
(* it names and however its scaffolding is worded.                         *)
AsRendered(doc, plan, pattern) ==
  \A k \in {"stack", "tenant", "audit", "roles", "models", "relationships", "workflows",
            "rules", "routes", "reports"} : doc[k] = Render(plan, pattern)[k]

(* The first of one section is that section.                               *)
LEMMA FirstOnly ==
  ASSUME NEW s, s.at = 1
  PROVE  First({s}) = s
BY DEF First

(* How the words of a rendered document are read.                          *)
LEMMA PlainValues ==
  /\ \A w \in {"FastAPI", "PostgreSQL", "InMemory", "JWT", "forbidden", "layered"} :
       Value(w) = w /\ HasValue(w)
  /\ Value("None") = Null /\ ~HasValue("None")
  /\ Value("true") = "True" /\ HasValue("true")
  /\ Value("required") = "required"
<1>1. \A w \in {"FastAPI", "PostgreSQL", "InMemory", "JWT", "forbidden", "layered", "required"} :
        Value(w) = w
  BY DEF Value
<1>2. Value("None") = Null /\ Value("true") = "True"
  BY DEF Value
<1>3. QED
  BY <1>1, <1>2 DEF HasValue, Missing, Null

(* The stack agrees, but "None" is read as no value.                       *)
LEMMA StackAgrees ==
  ASSUME NEW plan, Sound(plan), NEW doc, NEW pattern, AsRendered(doc, plan, pattern)
  PROVE  StackIssues(plan, doc) = IF plan.auth = "None" THEN {"SCV002"} ELSE {}
<1> DEFINE s == [at |-> 1, backend |-> "FastAPI", database |-> plan.database, auth |-> plan.auth]
<1>1. doc.stack = {s}
  BY RenderedParts DEF AsRendered
<1>2. s.at = 1 /\ s.backend = "FastAPI" /\ s.database = plan.database /\ s.auth = plan.auth
  OBVIOUS
<1> HIDE DEF s
<1>3. First(doc.stack) = s
  BY <1>1, <1>2, FirstOnly
<1>4. SameText(s.backend, "FastAPI") /\ SameText(s.database, plan.database)
  BY <1>2, PlainValues DEF SameText, Sound
<1>5. SameText(s.auth, plan.auth) <=> plan.auth # "None"
  BY <1>2, PlainValues DEF SameText, Sound
<1>6. doc.stack # {}
  BY <1>1
<1>7. QED
  BY <1>3, <1>4, <1>5, <1>6 DEF StackIssues

(* A platform switch is read as it was written.                            *)
LEMMA PlatformReads ==
  ASSUME NEW b \in BOOLEAN
  PROVE  FirstEnabled(PlatformSection(b)) = b
<1> DEFINE s == [at |-> 1, enabled |-> "true"]
<1>1. s.at = 1 /\ s.enabled = "true"
  OBVIOUS
<1>2. CASE b
  <2>1. PlatformSection(b) = {s}
    BY <1>2 DEF PlatformSection
  <2> HIDE DEF s
  <2>2. First({s}) = s
    BY <1>1, FirstOnly
  <2>3. FirstEnabled(PlatformSection(b))
    BY <1>1, <2>1, <2>2, PlainValues DEF FirstEnabled
  <2>4. QED
    BY <1>2, <2>3 DEF FirstEnabled
<1>3. CASE ~b
  BY <1>3 DEF PlatformSection, FirstEnabled
<1>4. QED
  BY <1>2, <1>3

(* The platform sections agree.                                            *)
LEMMA PlatformAgrees ==
  ASSUME NEW plan, Sound(plan), NEW doc, NEW pattern, AsRendered(doc, plan, pattern)
  PROVE  PlatformIssues(plan, doc) = {}
<1>1. doc.tenant = PlatformSection(plan.tenant) /\ doc.audit = PlatformSection(plan.audit)
  BY RenderedParts DEF AsRendered
<1>2. plan.tenant \in BOOLEAN /\ plan.audit \in BOOLEAN
  BY Zenon DEF Sound
<1>3. FirstEnabled(doc.tenant) = plan.tenant
  BY <1>1, <1>2, PlatformReads, Zenon
<1>4. FirstEnabled(doc.audit) = plan.audit
  BY <1>1, <1>2, PlatformReads, Zenon
<1>5. QED
  BY <1>3, <1>4, Zenon DEF PlatformIssues

(* A model has no issues with its own fields.                              *)
LEMMA SameFields ==
  ASSUME NEW m, m.mapping, \A f \in DOMAIN m.fields : m.fields[f] # <<>>
  PROVE  FieldIssues(m.fields, m) = {}
BY DEF FieldIssues

(* Different entities and forms are different schemas.                     *)
LEMMA SchemasDiffer ==
  ASSUME NEW e, NEW form, NEW x, NEW other, Schema(e, form) = Schema(x, other)
  PROVE  e = x /\ form = other
<1>1. Schema(e, form).of = e /\ Schema(e, form).form = form
  BY DEF Schema
<1>2. Schema(x, other).of = x /\ Schema(x, other).form = other
  BY DEF Schema
<1>3. QED
  BY <1>1, <1>2

(* A rendered model has the fields of the entity it is named for.          *)
LEMMA ModelAgrees ==
  ASSUME NEW plan, Sound(plan), NEW pattern, NEW m \in Render(plan, pattern).models,
         NEW e
  PROVE  /\ m.name = Schema(e, "") => m.fields = EntityFields[e]
         /\ m.name = Schema(e, "Create") => m.fields = CreateFields(e)
         /\ m.mapping /\ \A f \in DOMAIN m.fields : m.fields[f] # <<>>
<1>1. PICK x \in Elements(plan.entities) : m \in EntitySections(x)
  BY RenderedModels
<1>2. \/ m.name = Schema(x, "") /\ m.fields = EntityFields[x]
      \/ m.name = Schema(x, "Create") /\ m.fields = CreateFields(x)
  BY <1>1, EntitySectionParts
<1>3. m.name = Schema(e, "") => m.fields = EntityFields[e]
  <2>1. "" # "Create"
    OBVIOUS
  <2>2. QED
    BY <1>2, <2>1, SchemasDiffer, Zenon
<1>4. m.name = Schema(e, "Create") => m.fields = CreateFields(e)
  <2>1. "" # "Create"
    OBVIOUS
  <2>2. QED
    BY <1>2, <2>1, SchemasDiffer, Zenon
<1>5. m.mapping
  BY <1>1, SectionIsMapping, Zenon DEF EntitySections
<1>6. \A f \in DOMAIN m.fields : m.fields[f] # <<>>
  BY <1>1, RenderedFields, ElementsAreKnown
<1>7. QED
  BY <1>3, <1>4, <1>5, <1>6

(* The models agree.                                                       *)
LEMMA EntitiesAgree ==
  ASSUME NEW plan, Sound(plan), NEW doc, NEW pattern, AsRendered(doc, plan, pattern)
  PROVE  EntityIssues(plan, doc) = {}
<1>1. doc.models = Render(plan, pattern).models
  BY DEF AsRendered
<1>2. Models(doc) \subseteq CanonicalModels(plan)
  BY <1>1, RenderedModels
<1>3. ASSUME NEW e \in Elements(plan.entities)
      PROVE  ModelIssues(doc, Schema(e, ""), EntityFields[e], "SCV030") = {}
  <2>1. Schema(e, "") \in Models(doc)
    BY <1>1, RenderedModels
  <2>2. ASSUME NEW m \in {x \in doc.models : x.name = Schema(e, "")}
        PROVE  FieldIssues(EntityFields[e], m) = {}
    <3>1. m \in Render(plan, pattern).models /\ m.name = Schema(e, "")
      BY <1>1
    <3>2. m.fields = EntityFields[e]
      BY <3>1, ModelAgrees, Zenon
    <3>3. FieldIssues(m.fields, m) = {}
      BY <3>1, ModelAgrees, SameFields, Zenon
    <3>4. QED
      BY <3>2, <3>3
  <2>3. QED
    BY <2>1, <2>2 DEF ModelIssues
<1>4. ASSUME NEW e \in Elements(plan.entities)
      PROVE  ModelIssues(doc, Schema(e, "Create"), CreateFields(e), "SCV031") = {}
  <2>1. Schema(e, "Create") \in Models(doc)
    BY <1>1, RenderedModels
  <2>2. ASSUME NEW m \in {x \in doc.models : x.name = Schema(e, "Create")}
        PROVE  FieldIssues(CreateFields(e), m) = {}
    <3>1. m \in Render(plan, pattern).models /\ m.name = Schema(e, "Create")
      BY <1>1
    <3>2. m.fields = CreateFields(e)
      BY <3>1, ModelAgrees, Zenon
    <3>3. FieldIssues(m.fields, m) = {}
      BY <3>1, ModelAgrees, SameFields, Zenon
    <3>4. QED
      BY <3>2, <3>3
  <2>3. QED
    BY <2>1, <2>2 DEF ModelIssues
<1>5. QED
  BY <1>2, <1>3, <1>4 DEF EntityIssues

(* The relationships agree.                                                *)
LEMMA RelationshipsAgree ==
  ASSUME NEW plan, Sound(plan), NEW doc, NEW pattern, AsRendered(doc, plan, pattern)
  PROVE  RelationshipIssues(plan, doc) = {}
<1>1. doc.relationships = {RelationSection(r) : r \in plan.relationships}
  BY RenderedRelations DEF AsRendered
<1>2. ASSUME NEW r PROVE SameRelationship(r, RelationSection(r))
  BY DEF SameRelationship, RelationSection
<1>3. \A r \in plan.relationships : \E w \in doc.relationships : SameRelationship(r, w)
  BY <1>1, <1>2
<1>4. \A w \in doc.relationships : \E r \in plan.relationships : SameRelationship(r, w)
  BY <1>1, <1>2
<1>5. \A w \in doc.relationships : HasValue(w.required)
  BY RenderedRelation, PlainValues DEF AsRendered
<1>6. QED
  BY <1>3, <1>4, <1>5 DEF RelationshipIssues

(* The roles agree.                                                        *)
LEMMA RolesAgree ==
  ASSUME NEW plan, NEW doc, NEW pattern, AsRendered(doc, plan, pattern), NEW requirements
  PROVE  RoleIssues(requirements, plan, doc) = {}
<1>1. doc.roles = {[name |-> r, permissions |-> PermissionsOf(r)] : r \in plan.roles}
  BY RenderedParts DEF AsRendered
<1>2. plan.roles \subseteq {r.name : r \in doc.roles}
  <2> SUFFICES ASSUME NEW r \in plan.roles PROVE r \in {s.name : s \in doc.roles}
    OBVIOUS
  <2>1. [name |-> r, permissions |-> PermissionsOf(r)] \in doc.roles
    BY <1>1
  <2>2. [name |-> r, permissions |-> PermissionsOf(r)].name = r
    OBVIOUS
  <2>3. QED
    BY <2>1, <2>2
<1>3. QED
  BY <1>2 DEF RoleIssues, ExplicitRoles

(* A workflow section, field by field.                                     *)
LEMMA WorkflowSectionParts ==
  ASSUME NEW w
  PROVE  LET s == WorkflowSection(w)
         IN  /\ s.at = 1 /\ s.entity = w.entity /\ s.states = w.states
             /\ s.transitions = w.transitions /\ s.actions = w.actions
BY DEF WorkflowSection

(* The workflows agree.                                                    *)
LEMMA WorkflowsAgree ==
  ASSUME NEW plan, Sound(plan), NEW doc, NEW pattern, AsRendered(doc, plan, pattern)
  PROVE  WorkflowIssues(plan, doc) = {}
<1>1. doc.workflows = {WorkflowSection(w) : w \in plan.workflows}
  BY RenderedRelations DEF AsRendered
<1>2. ASSUME NEW w \in plan.workflows
      PROVE  /\ {x \in doc.workflows : x.entity = w.entity} # {}
             /\ LET x == First({y \in doc.workflows : y.entity = w.entity})
                IN  /\ w.states \subseteq x.states
                    /\ w.transitions \subseteq x.transitions
                    /\ w.actions \subseteq x.actions
  <2>1. doc.workflows = {WorkflowSection(w)}
    BY <1>1 DEF Sound
  <2>2. {x \in doc.workflows : x.entity = w.entity} = {WorkflowSection(w)}
    BY <2>1, WorkflowSectionParts
  <2>3. First({WorkflowSection(w)}) = WorkflowSection(w)
    BY FirstOnly, WorkflowSectionParts
  <2>4. QED
    BY <2>2, <2>3, WorkflowSectionParts
<1>3. QED
  BY <1>2 DEF WorkflowIssues

(* The rules agree.                                                        *)
LEMMA RulesAgree ==
  ASSUME NEW plan, Sound(plan), NEW doc, NEW pattern, AsRendered(doc, plan, pattern)
  PROVE  RuleIssues(plan, doc) = {}
<1>1. doc.rules = {RuleSection(r) : r \in plan.rules}
  BY RenderedParts DEF AsRendered
<1>2. \A r \in plan.rules : RuleSection(r).rule = r.rule /\ RuleSection(r).entity = r.entity
  BY RuleSectionParts DEF Sound
<1>3. RuleKeys(plan.rules) = RuleKeys(doc.rules)
  BY <1>1, <1>2 DEF RuleKeys
<1>4. QED
  BY <1>3 DEF RuleIssues

(* The routes agree.                                                       *)
LEMMA RoutesAgree ==
  ASSUME NEW plan, Sound(plan), NEW doc, NEW pattern, AsRendered(doc, plan, pattern)
  PROVE  RouteIssues(plan, doc) = {}
<1>1. doc.routes = {RouteSection(r) : r \in plan.routes}
  BY RenderedParts DEF AsRendered
<1>2. ASSUME NEW r PROVE RouteKey(RouteSection(r)) = RouteKey(r)
  BY RouteSectionParts, Zenon DEF RouteKey
<1>3. \A r, s \in plan.routes : RouteKey(r) = RouteKey(s) => r = s
  BY RouteIsItsKey DEF Sound
<1>4. ASSUME NEW r \in plan.routes
      PROVE  {x \in doc.routes : RouteKey(x) = RouteKey(r)} = {RouteSection(r)}
  BY <1>1, <1>2, <1>3
<1>5. ASSUME NEW r \in plan.routes
      PROVE  LET x == First({y \in doc.routes : RouteKey(y) = RouteKey(r)})
             IN  SameAuth(x.auth, r.auth) /\ SameBody(r, x.body) /\ x.returns = r.returns
  <2>1. First({RouteSection(r)}) = RouteSection(r)
    BY FirstOnly, RouteSectionParts
  <2>2. r.auth = "required"
    BY Zenon DEF Sound, RouteShape
  <2>3. SameAuth(r.auth, r.auth)
    BY <2>2, PlainValues DEF SameAuth
  <2>4. SameBody(r, r.body)
    BY DEF SameBody
  <2>5. /\ RouteSection(r).auth = r.auth /\ RouteSection(r).body = r.body
        /\ RouteSection(r).returns = r.returns
    BY RouteSectionParts
  <2>6. QED
    BY <1>4, <2>1, <2>3, <2>4, <2>5
<1>6. \A x \in doc.routes : \E r \in plan.routes : RouteKey(x) = RouteKey(r)
  BY <1>1, <1>2
<1>7. QED
  BY <1>4, <1>5, <1>6 DEF RouteIssues

(* What a document has to say of its scaffolding, however it says it.      *)
LEMMA ScaffoldingAgrees ==
  ASSUME NEW doc, NEW architecture, architecture.pattern = "layered_modular_monolith",
         NEW policy, doc.policies = {policy}, policy.at = 1,
         policy.name = "ErrorHandling", policy.broad_catch = "forbidden",
         NEW constraint, doc.constraints = {constraint}, constraint.at = 1,
         constraint.name = "Architecture", constraint.architecture = "layered"
  PROVE  ScaffoldingIssues(architecture, doc) = {}
<1>1. {p \in doc.policies : p.name = "ErrorHandling"} = {policy}
  OBVIOUS
<1>2. {c \in doc.constraints : c.name = "Architecture"} = {constraint}
  OBVIOUS
<1>3. First({policy}) = policy /\ First({constraint}) = constraint
  BY FirstOnly
<1>4. Value(policy.broad_catch) = "forbidden"
  BY PlainValues
<1>5. Layered(ArchitectureWritten(constraint)) = "layered_modular_monolith"
  BY PlainValues DEF Layered, ArchitectureWritten, Missing, Null
<1>6. Layered(architecture.pattern) = "layered_modular_monolith"
  BY DEF Layered, Value
<1>7. QED
  BY <1>1, <1>2, <1>3, <1>4, <1>5, <1>6 DEF ScaffoldingIssues

(* Canonical documents, as they are rendered and as they are asked for.    *)
LEMMA OnlyAuthenticationDiffers ==
  ASSUME NEW c, Sound(c.foundation), NEW pattern,
         NEW doc, AsRendered(doc, c.foundation, pattern),
         c.foundation.packs \subseteq doc.capabilities,
         ScaffoldingIssues(c.architecture, doc) = {}
  PROVE  Conformance(c, doc) =
           IF c.foundation.auth = "None" THEN {"SCV002"} ELSE {}
<1> DEFINE plan == c.foundation
<1>1. CapabilityIssues(plan, doc) = {}
  BY DEF CapabilityIssues
<1>2. ReportIssues(plan, doc) = {}
  BY RenderedParts DEF ReportIssues, AsRendered
<1> HIDE DEF plan
<1>3. Sound(plan) /\ AsRendered(doc, plan, pattern)
  BY DEF plan
<1>4. /\ PlatformIssues(plan, doc) = {} /\ EntityIssues(plan, doc) = {}
      /\ RelationshipIssues(plan, doc) = {}
      /\ RoleIssues(c.requirements, plan, doc) = {}
      /\ WorkflowIssues(plan, doc) = {} /\ RuleIssues(plan, doc) = {}
      /\ RouteIssues(plan, doc) = {}
  BY <1>3, PlatformAgrees, EntitiesAgree, RelationshipsAgree, RolesAgree, WorkflowsAgree,
     RulesAgree, RoutesAgree
<1>5. StackIssues(plan, doc) = IF plan.auth = "None" THEN {"SCV002"} ELSE {}
  BY <1>3, StackAgrees
<1>6. Conformance(c, doc) =
        StackIssues(plan, doc) \cup PlatformIssues(plan, doc)
        \cup CapabilityIssues(plan, doc) \cup EntityIssues(plan, doc)
        \cup RelationshipIssues(plan, doc)
        \cup RoleIssues(c.requirements, plan, doc)
        \cup WorkflowIssues(plan, doc) \cup RuleIssues(plan, doc)
        \cup RouteIssues(plan, doc) \cup ReportIssues(plan, doc)
        \cup ScaffoldingIssues(c.architecture, doc)
  BY DEF Conformance, plan
<1>7. QED
  BY <1>1, <1>2, <1>4, <1>5, <1>6 DEF plan

(* The offline document of any prompt.                                     *)
LEMMA OfflineDocumentConforms ==
  ASSUME NEW p
  PROVE  LET c == ContextOf(p)
         IN  Conformance(c, OfflineDocument(c)) =
               IF c.foundation.auth = "None" THEN {"SCV002"} ELSE {}
<1> DEFINE c == ContextOf(p)
           plan == c.foundation
           pattern == c.architecture.pattern
           doc == Render(plan, pattern)
           policy == [at |-> 1, name |-> "ErrorHandling", broad_catch |-> "forbidden"]
           constraint == [at |-> 1, name |-> "Architecture", pattern |-> Missing,
                          architecture |-> ArchitectureConstraint(pattern), avoid_broad |-> FALSE]
<1>1. Sound(plan) /\ pattern = "layered_modular_monolith"
  BY ContextIsSound
<1>2. plan.packs \subseteq doc.capabilities
  BY RenderedParts
<1>3. doc.policies = {policy} /\ doc.constraints = {constraint}
  BY RenderedScaffolding
<1>4. AsRendered(doc, plan, pattern)
  BY DEF AsRendered
<1>5. policy.at = 1 /\ policy.name = "ErrorHandling" /\ policy.broad_catch = "forbidden"
  OBVIOUS
<1>6. constraint.at = 1 /\ constraint.name = "Architecture"
      /\ constraint.architecture = ArchitectureConstraint(pattern)
  OBVIOUS
<1>7. OfflineDocument(c) = doc
  BY DEF OfflineDocument
<1> HIDE DEF c, plan, doc, policy, constraint
<1>8. ArchitectureConstraint(pattern) = "layered"
  BY <1>1 DEF ArchitectureConstraint
<1>9. ScaffoldingIssues(c.architecture, doc) = {}
  BY <1>1, <1>3, <1>5, <1>6, <1>8, ScaffoldingAgrees
<1>10. Conformance(c, doc) = IF plan.auth = "None" THEN {"SCV002"} ELSE {}
  BY <1>1, <1>2, <1>4, <1>9, OnlyAuthenticationDiffers DEF plan
<1>11. QED
  BY <1>7, <1>10 DEF c, plan

(* What an online model is told to write literally changes nothing of it.  *)
LEMMA LiteralDocumentConforms ==
  ASSUME prompt \in Prompts
  PROVE  LET doc == Render(context.foundation, context.architecture.pattern)
         IN  Conformance(context, Literally(doc)) =
               IF context.foundation.auth = "None" THEN {"SCV002"} ELSE {}
<1> DEFINE plan == context.foundation
           pattern == context.architecture.pattern
           doc == Render(plan, pattern)
           literal == Literally(doc)
           policy == [at |-> 1, name |-> "ErrorHandling", broad_catch |-> "forbidden"]
           rendered == [at |-> 1, name |-> "Architecture", pattern |-> Missing,
                        architecture |-> ArchitectureConstraint(pattern), avoid_broad |-> FALSE]
           constraint == [rendered EXCEPT !.architecture = "layered"]
<1>1. context = ContextOf(prompt)
  BY DEF context, Contexts
<1>2. Sound(plan) /\ pattern = "layered_modular_monolith"
  BY <1>1, ContextIsSound
<1>3. doc.constraints = {rendered}
  BY RenderedScaffolding
<1>4. /\ literal.capabilities = MandatoryEnvelope(context).capabilities
      /\ literal.policies = {[at |-> 1, name |-> MandatoryEnvelope(context).policy,
                              broad_catch |-> MandatoryEnvelope(context).broad_catch]}
      /\ literal.constraints =
           {[c EXCEPT !.architecture = MandatoryEnvelope(context).architecture] :
              c \in doc.constraints}
      /\ \A k \in {"stack", "tenant", "audit", "roles", "models", "relationships",
                   "workflows", "rules", "routes", "reports"} : literal[k] = doc[k]
  BY DEF Literally, Render
<1>5. policy.at = 1 /\ policy.name = "ErrorHandling" /\ policy.broad_catch = "forbidden"
  OBVIOUS
<1>6. constraint.at = 1 /\ constraint.name = "Architecture" /\ constraint.architecture = "layered"
  OBVIOUS
<1>7. /\ plan.packs \subseteq MandatoryEnvelope(context).capabilities
      /\ MandatoryEnvelope(context).policy = "ErrorHandling"
      /\ MandatoryEnvelope(context).broad_catch = "forbidden"
      /\ MandatoryEnvelope(context).architecture = "layered"
  BY <1>2 DEF MandatoryEnvelope, ArchitectureConstraint
<1>8. AsRendered(literal, plan, pattern)
  BY <1>4 DEF AsRendered
<1> HIDE DEF literal, doc
<1>9. literal.policies = {policy}
  BY <1>4, <1>7
<1>10. literal.constraints = {constraint}
  BY <1>3, <1>4, <1>7
<1> HIDE DEF policy, rendered, constraint
<1>11. ScaffoldingIssues(context.architecture, literal) = {}
  BY <1>2, <1>5, <1>6, <1>9, <1>10, ScaffoldingAgrees
<1>12. plan.packs \subseteq literal.capabilities
  BY <1>4, <1>7
<1>13. Conformance(context, literal) = IF plan.auth = "None" THEN {"SCV002"} ELSE {}
  BY <1>2, <1>8, <1>11, <1>12, OnlyAuthenticationDiffers
<1>14. QED
  BY <1>13 DEF literal, doc

(* The compiler refuses the offline document only if integrity did.        *)
LEMMA OfflineDocumentRefusals ==
  ASSUME NEW p, NEW ruff
  PROVE  LET c == ContextOf(p)
         IN  Refusals(OfflineDocument(c), ruff) = IF c.issues = {} THEN {} ELSE {"SEM203"}
<1> DEFINE c == ContextOf(p)
<1>1. Sound(c.foundation) /\ c.issues = IntegrityIssues(c.foundation)
  BY ContextIsSound
<1>2. c.issues = {} <=> ~StrayRule(c.foundation)
  BY <1>1, OnlyRulesStray
<1>3. QED
  BY <1>1, <1>2, RenderedRefusals DEF OfflineDocument

(* With no integrity issue, the certifier blocks what the gate blocks.     *)
LEMMA StatusOfUnbroken ==
  ASSUME NEW p, ContextOf(p).issues = {}
  PROVE  LET c == ContextOf(p)
             status == BuildStatus(Certify(c))
         IN  (status = "REJECTED" <=> BlockingReasons(c) # {}) /\ status # "ACCEPTED"
<1> DEFINE c == ContextOf(p)
<1>1. /\ c.issues = {} /\ ArchitectureResolved(c.architecture)
      /\ c.capabilities.status # "UNSUPPORTED" /\ c.negotiation.status # "SUPPORTED"
  BY ContextIsSound
<1>2. c.negotiation.status \in
        {"UNSUPPORTED", "PARTIALLY_SUPPORTED", "SUPPORTED_WITH_ASSUMPTIONS", "SUPPORTED"}
  BY DEF ContextOf, PreparedFrom, Planned, Composed, CanonicalContext, Negotiate, NegotiatedStatus
<1>3. "generated_app/app/**" \in Directive("SEM202").forbidden
  BY DEF Directive, ForbiddenPaths, Layer, SemanticLayers
<1> HIDE DEF c
<1>4. CertifierBlocks(c) # {} <=>
        \/ c.requirements.contradictions # {}
        \/ \E a \in c.requirements.ambiguities : a.blocking
        \/ c.negotiation.status = "UNSUPPORTED"
  BY <1>1, <1>3 DEF CertifierBlocks
<1>5. BlockingReasons(c) # {} <=>
        \/ c.requirements.contradictions # {}
        \/ \E a \in c.requirements.ambiguities : a.blocking
        \/ c.negotiation.status = "UNSUPPORTED"
  BY <1>1 DEF BlockingReasons
<1>6. CertifierBlocks(c) = {} => CertifierWarnings(c) # {}
  <2>1. ASSUME CertifierBlocks(c) = {} PROVE "negotiation" \in CertifierWarnings(c)
    BY <1>1, <1>2, <1>4, <2>1 DEF CertifierWarnings
  <2>2. QED
    BY <2>1
<1>7. Certify(c).status = IF CertifierBlocks(c) # {} THEN "REJECTED"
                          ELSE "CONDITIONAL_SUPPORTED_PROFILE"
  BY <1>6 DEF Certify
<1>8. BuildStatus(Certify(c)) = IF CertifierBlocks(c) # {} THEN "REJECTED" ELSE "CONDITIONAL"
  BY <1>7 DEF BuildStatus
<1>9. QED
  BY <1>4, <1>5, <1>8 DEF c

-----------------------------------------------------------------------------
(* The stages, one after the other.                                        *)

(* The document in hand, and what was last said of it.                     *)
WayInv ==
  /\ prompt \in Prompts
  /\ at \in {"collapsed", "not conformant", "blocked", "built"} =>
       document = Rendered[prompt]
  /\ at \in {"collapsed", "not conformant"} => issues = Conformance(context, document)
  /\ at = "collapsed" => issues = {}
  /\ at = "not conformant" => issues # {}
  /\ at \in {"built", "failed", "failed late", "synthesised", "compiled"} =>
       \E ruff \in BOOLEAN : refusals = Refusals(document, ruff)
  /\ at \in Trees => refusals = {}
  /\ at = "failed" => refusals # {}

(* The stages keep it so.                                                  *)
LEMMA WayHolds == Spec => []WayInv
<1>1. Init => WayInv
  BY DEF Init, WayInv, Trees
<1>2. WayInv /\ [Next]_vars => WayInv'
  <2> SUFFICES ASSUME WayInv, [Next]_vars PROVE WayInv'
    OBVIOUS
  <2> USE DEF WayInv, Trees, context
  <2>1. CASE Collapse
    BY <2>1 DEF Collapse
  <2>2. CASE BuildBlocked
    BY <2>2 DEF BuildBlocked
  <2>3. ASSUME NEW partial \in BOOLEAN, Build(partial) PROVE WayInv'
    BY <2>3 DEF Build
  <2>4. CASE Draft
    BY <2>4 DEF Draft
  <2>5. CASE Judge
    BY <2>5 DEF Judge
  <2>6. CASE Compile
    BY <2>6 DEF Compile
  <2>7. CASE Done \/ UNCHANGED vars
    BY <2>7 DEF Done, vars
  <2>8. QED
    BY <2>1, <2>2, <2>3, <2>4, <2>5, <2>6, <2>7 DEF Next
<1>3. QED
  BY <1>1, <1>2, PTL DEF Spec

(* The tables hold the context and the document of every prompt.           *)
LEMMA OfTheTables ==
  ASSUME prompt \in Prompts
  PROVE  context = ContextOf(prompt) /\ Rendered[prompt] = OfflineDocument(ContextOf(prompt))
BY DEF context, Contexts, Rendered

(* No file of a tree imports a schema file that the tree does not have,    *)
(* for any documents, offline, drafted or edited: SEM104, LOG201 and       *)
(* TGT201 refuse what the templates of target.py could not import.         *)
THEOREM Imports == Spec => []ImportsResolve
<1>1. WayInv => ImportsResolve
  <2> SUFFICES ASSUME WayInv, at \in Trees
               PROVE  ImportedBy(document) \subseteq GeneratedFiles(document)
    BY DEF ImportsResolve
  <2>1. PICK ruff \in BOOLEAN : refusals = Refusals(document, ruff)
    BY DEF WayInv, Trees
  <2>2. Refusals(document, ruff) = {}
    BY <2>1 DEF WayInv
  <2>3. QED
    BY <2>2, CompiledImportsResolve
<1>2. QED
  BY <1>1, WayHolds, PTL

(* For any prompt: verify_conformance refuses the offline compiler's own   *)
(* document exactly when the plan is without authentication, and what an   *)
(* online model is told to write literally makes it refuse nothing more.   *)
THEOREM OfflineConformance == Spec => []OfflineConforms
<1>1. WayInv => OfflineConforms
  <2> SUFFICES ASSUME WayInv, at \in {"collapsed", "not conformant"}
               PROVE  /\ (at = "not conformant") <=> (context.foundation.auth = "None")
                      /\ Conformance(context, Literally(document)) \subseteq issues
    BY DEF OfflineConforms
  <2>1. /\ document = OfflineDocument(context) /\ context = ContextOf(prompt)
        /\ issues = Conformance(context, document) /\ prompt \in Prompts
    BY OfTheTables DEF WayInv
  <2>2. issues = IF context.foundation.auth = "None" THEN {"SCV002"} ELSE {}
    BY <2>1, OfflineDocumentConforms
  <2>3. Conformance(context, Literally(document)) = issues
    BY <2>1, <2>2, LiteralDocumentConforms DEF OfflineDocument
  <2>4. (at = "not conformant") <=> issues # {}
    BY DEF WayInv
  <2>5. QED
    BY <2>2, <2>3, <2>4
<1>2. QED
  BY <1>1, WayHolds, PTL

(* For any prompt: an application is built only of a plan integrity had    *)
(* no issue with, and the compiler of compile() refuses a conformant       *)
(* offline document for a rule of an undeclared entity and nothing else.   *)
THEOREM OnlyIntegrity == Spec => []OnlyIntegrityStopsCompiler
<1>1. WayInv => OnlyIntegrityStopsCompiler
  <2> SUFFICES ASSUME WayInv PROVE OnlyIntegrityStopsCompiler
    OBVIOUS
  <2>1. context = ContextOf(prompt) /\ Rendered[prompt] = OfflineDocument(context)
    BY OfTheTables DEF WayInv
  <2>2. \A ruff : Refusals(Rendered[prompt], ruff) = IF context.issues = {} THEN {} ELSE {"SEM203"}
    BY <2>1, OfflineDocumentRefusals
  <2>3. at = "built" => context.issues = {}
    BY <2>2 DEF WayInv, Trees
  <2>4. at = "failed" /\ document = Rendered[prompt] =>
          refusals = {"SEM203"} /\ context.issues # {}
    BY <2>2 DEF WayInv
  <2>5. QED
    BY <2>3, <2>4 DEF OnlyIntegrityStopsCompiler
<1>2. QED
  BY <1>1, WayHolds, PTL

(* For any prompt: BlockingReasons of build.py and Certify of              *)
(* certification.py agree, the returned build is REJECTED exactly when it  *)
(* was blocked, and is never ACCEPTED.                                     *)
THEOREM StatusTells == Spec => []StatusTellsBlocking
<1>1. WayInv /\ OnlyIntegrityStopsCompiler => StatusTellsBlocking
  <2> SUFFICES ASSUME WayInv, OnlyIntegrityStopsCompiler, at = "built"
               PROVE  LET status == BuildStatus(Certify(context))
                      IN  (status = "REJECTED" <=> blocked) /\ status # "ACCEPTED"
    BY DEF StatusTellsBlocking
  <2>1. context = ContextOf(prompt) /\ context.issues = {}
    BY OfTheTables DEF WayInv, OnlyIntegrityStopsCompiler
  <2>2. QED
    BY <2>1, StatusOfUnbroken DEF blocked
<1>2. QED
  BY <1>1, WayHolds, OnlyIntegrity, PTL

-----------------------------------------------------------------------------
(* What the text states, from the requirements to the application.         *)

(* Requirements as the extractors make them.                               *)
IsItem(i) == \E k, n, o, l, p : i = Item(k, n, o, l, p)

(* All that is extracted of a prompt are items.                            *)
LEMMA ItemsAreItems ==
  ASSUME NEW p, NEW i \in WithInferred(p, ExplicitItems(p))
  PROVE  IsItem(i)
<1>1. \A j \in StackItems(p) : IsItem(j)
  BY DEF StackItems, IsItem
<1>2. \A j \in SectionItems(p) : IsItem(j)
  BY DEF SectionItems, IsItem
<1>3. \A j \in KeywordItems(p) : IsItem(j)
  BY DEF KeywordItems, IsItem
<1>4. ASSUME NEW S, NEW j \in InferredItems(p, S) PROVE IsItem(j)
  BY DEF InferredItems, IsItem
<1>5. ASSUME NEW S PROVE Dedupe(S) \subseteq S
  BY DEF Dedupe
<1>6. i \in ExplicitItems(p) \/ i \in InferredItems(p, ExplicitItems(p))
  BY <1>5 DEF WithInferred
<1>7. \A j \in ExplicitItems(p) : IsItem(j)
  BY <1>1, <1>2, <1>3, <1>5 DEF ExplicitItems
<1>8. QED
  BY <1>4, <1>6, <1>7

(* Marking an item keeps its name.                                         *)
LEMMA MarkedItem ==
  ASSUME NEW i, IsItem(i), NEW s
  PROVE  [i EXCEPT !.status = s].name = i.name
BY DEF IsItem, Item

(* A requirement of the context was extracted under its name.              *)
LEMMA StatedIsNamed ==
  ASSUME NEW p, NEW name, NEW j \in RequirementsOf(p).items, j.name = name
  PROVE  name \in NamesOf(WithInferred(p, ExplicitItems(p)))
<1> DEFINE items == WithInferred(p, ExplicitItems(p))
<1>1. \E i \in items : \E s : j = [i EXCEPT !.status = s]
  BY DEF RequirementsOf, RequirementsFrom
<1>2. PICK i \in items : \E s : j = [i EXCEPT !.status = s]
  BY <1>1
<1>3. IsItem(i)
  BY ItemsAreItems
<1> HIDE DEF items
<1>4. i.name = name
  BY <1>2, <1>3, MarkedItem
<1>5. name \in NamesOf(items)
  BY <1>4 DEF NamesOf
<1>6. QED
  BY <1>5 DEF items

(* Without contradictions, the hints are what was named.                   *)
LEMMA UncontradictedHints ==
  ASSUME NEW items, ContradictionsIn(items) = {}
  PROVE  /\ \A o \in Opposites : ~(o[1] \in NamesOf(items) /\ o[2] \in NamesOf(items))
         /\ "PostgreSQL" \in NamesOf(items) => StackHints(items).database = "PostgreSQL"
         /\ "InMemory" \in NamesOf(items) => StackHints(items).database = "InMemory"
         /\ "JWT" \in NamesOf(items) => StackHints(items).auth = "JWT"
<1>1. \A o \in Opposites : ~(o[1] \in NamesOf(items) /\ o[2] \in NamesOf(items))
  BY DEF ContradictionsIn
<1>2. <<"PostgreSQL", "InMemory">> \in Opposites
  BY DEF Opposites
<1>3. ~("PostgreSQL" \in NamesOf(items) /\ "InMemory" \in NamesOf(items))
  <2>1. <<"PostgreSQL", "InMemory">>[1] = "PostgreSQL" /\ <<"PostgreSQL", "InMemory">>[2] = "InMemory"
    OBVIOUS
  <2>2. QED
    BY <1>1, <1>2, <2>1
<1>4. "PostgreSQL" \in NamesOf(items) => StackHints(items).database = "PostgreSQL"
  BY DEF StackHints
<1>5. "InMemory" \in NamesOf(items) => StackHints(items).database = "InMemory"
  BY <1>3 DEF StackHints
<1>6. "JWT" \in NamesOf(items) => StackHints(items).auth = "JWT"
  BY DEF StackHints
<1>7. QED
  BY <1>1, <1>4, <1>5, <1>6

(* What the text states is in the plan.                                    *)
LEMMA SwitchesOn ==
  ASSUME NEW plan, DOMAIN plan = PlanKeys, NEW requirements
  PROVE  /\ HasName(requirements, "MultiTenant") => Applied(plan, requirements).tenant
         /\ HasName(requirements, "Audit") => Applied(plan, requirements).audit
BY Zenon DEF Applied, PlanKeys

(* A switch selects its capability.                                        *)
LEMMA CapabilitiesSelected ==
  ASSUME NEW requirements, NEW plan
  PROVE  /\ plan.tenant => "tenant_isolation" \in Compose(requirements, plan).selected
         /\ plan.audit => "audit" \in Compose(requirements, plan).selected
<1>1. ASSUME NEW ids, NEW c \in CapabilityIds, c \in ids
      PROVE  c \in Closed(ids)
  BY <1>1 DEF Closed
<1>2. "tenant_isolation" \in CapabilityIds /\ "audit" \in CapabilityIds
  BY DEF CapabilityIds, CapabilityPacks
<1>3. /\ plan.tenant => "tenant_isolation" \in InferredCapabilities(plan)
      /\ plan.audit => "audit" \in InferredCapabilities(plan)
  BY DEF InferredCapabilities
<1>4. Compose(requirements, plan).selected =
        Closed({c \in CapabilityIds : RequestedBy(requirements, c) # {}}
                 \cup InferredCapabilities(plan))
  BY DEF Compose
<1>5. QED
  BY <1>1, <1>2, <1>3, <1>4

(* What storing the capabilities leaves.                                   *)
LEMMA CapabilitiesStored ==
  ASSUME NEW plan, DOMAIN plan = PlanKeys, NEW capabilities
  PROVE  /\ WithCapabilities(plan, capabilities).capabilities = capabilities.selected
         /\ WithCapabilities(plan, capabilities).tenant = plan.tenant
         /\ WithCapabilities(plan, capabilities).audit = plan.audit
         /\ WithCapabilities(plan, capabilities).database = plan.database
         /\ WithCapabilities(plan, capabilities).auth = plan.auth
BY DEF WithCapabilities, PlanKeys

(* What the text states is in the plan, when nothing contradicts it.       *)
LEMMA ContextKeepsStated ==
  ASSUME NEW p, ContextOf(p).requirements.contradictions = {}
  PROVE  LET c == ContextOf(p)
             plan == c.foundation
             S(name) == \E i \in c.requirements.items : i.name = name /\ i.origin = "explicit"
         IN  /\ \A o \in Opposites : ~(S(o[1]) /\ S(o[2]))
             /\ S("PostgreSQL") => plan.database = "PostgreSQL"
             /\ S("InMemory") => plan.database = "InMemory"
             /\ S("JWT") => plan.auth = "JWT"
             /\ S("MultiTenant") => plan.tenant /\ "tenant_isolation" \in plan.capabilities
             /\ S("Audit") => plan.audit /\ "audit" \in plan.capabilities
<1> DEFINE c == ContextOf(p)
           items == WithInferred(p, ExplicitItems(p))
           requirements == RequirementsOf(p)
           planned == PlanFor(p)
           stated == Applied(planned, requirements)
           capabilities == Compose(requirements, stated)
           plan == WithCapabilities(stated, capabilities)
           S(name) == \E i \in requirements.items : i.name = name /\ i.origin = "explicit"
<1>1. c.foundation = plan /\ c.requirements = requirements
  BY DEF ContextOf, PreparedFrom, Planned, Composed, CanonicalContext
<1>2. DOMAIN planned = PlanKeys
  BY DEF PlanFor, PlanKeys
<1>3. requirements.contradictions = ContradictionsIn(items) /\ requirements.hints = StackHints(items)
  BY DEF RequirementsOf, RequirementsFrom
<1>4. ASSUME NEW name, S(name)
      PROVE  name \in NamesOf(items) /\ HasName(requirements, name)
  <2>1. name \in NamesOf(items)
    BY <1>4, StatedIsNamed
  <2>2. HasName(requirements, name)
    BY <1>4 DEF HasName
  <2>3. QED
    BY <2>1, <2>2
<1> HIDE DEF c, items, requirements, planned, stated, capabilities, plan, S
<1>5. ContradictionsIn(items) = {}
  BY <1>1, <1>3 DEF c
<1>6. /\ DOMAIN stated = PlanKeys
      /\ \A k \in PlanKeys \ {"trace", "unsupported", "assumptions", "questions",
                              "database", "auth", "tenant", "audit"} : stated[k] = planned[k]
      /\ stated.database = (IF requirements.hints["database"] = "" THEN planned.database
                            ELSE requirements.hints["database"])
      /\ stated.auth = (IF requirements.hints["auth"] = "" THEN planned.auth
                        ELSE requirements.hints["auth"])
      /\ stated.assumptions = planned.assumptions \cup requirements.assumptions
  BY <1>2, AppliedParts DEF stated
<1>7. plan.database = stated.database /\ plan.auth = stated.auth
      /\ plan.capabilities = capabilities.selected
  <2>1. DOMAIN stated = PlanKeys
    BY <1>6
  <2>2. QED
    BY <2>1, CapabilitiesStored, Zenon DEF plan
<1>8. plan.tenant = stated.tenant /\ plan.audit = stated.audit
  BY <1>6, CapabilitiesStored DEF plan
<1>9. \A o \in Opposites : ~(S(o[1]) /\ S(o[2]))
  BY <1>4, <1>5, UncontradictedHints
<1>10. S("PostgreSQL") => plan.database = "PostgreSQL"
  BY <1>3, <1>4, <1>5, <1>6, <1>7, UncontradictedHints
<1>11. S("InMemory") => plan.database = "InMemory"
  BY <1>3, <1>4, <1>5, <1>6, <1>7, UncontradictedHints
<1>12. S("JWT") => plan.auth = "JWT"
  BY <1>3, <1>4, <1>5, <1>6, <1>7, UncontradictedHints
<1>13. S("MultiTenant") => stated.tenant
  BY <1>2, <1>4, SwitchesOn, Zenon DEF stated
<1>14. S("Audit") => stated.audit
  BY <1>2, <1>4, SwitchesOn, Zenon DEF stated
<1>15. S("MultiTenant") => plan.tenant /\ "tenant_isolation" \in plan.capabilities
  BY <1>7, <1>8, <1>13, CapabilitiesSelected, Zenon DEF capabilities
<1>16. S("Audit") => plan.audit /\ "audit" \in plan.capabilities
  BY <1>7, <1>8, <1>14, CapabilitiesSelected, Zenon DEF capabilities
<1>17. QED
  BY <1>1, <1>9, <1>10, <1>11, <1>12, <1>15, <1>16, Zenon DEF c, S

(* Facts are the same only when predicate and arguments are.               *)
LEMMA FactsDiffer ==
  /\ \A p, x, q, y : Fact1(p, x) = Fact1(q, y) <=> p = q /\ x = y
  /\ \A p, x, q, y, z : Fact1(p, x) # Fact2(q, y, z)
<1>1. \A p, x, q, y : Fact1(p, x) = Fact1(q, y) <=> p = q /\ x = y
  BY DEF Fact1
<1>2. ASSUME NEW p, NEW x, NEW q, NEW y, NEW z, Fact1(p, x) = Fact2(q, y, z) PROVE FALSE
  <2>1. Len(Fact1(p, x)) = 2 /\ Len(Fact2(q, y, z)) = 3
    BY DEF Fact1, Fact2
  <2>2. QED
    BY <1>2, <2>1
<1>3. QED
  BY <1>1, <1>2

(* A document whose rules are all invariants has no fact about databases   *)
(* but for those of its stack.                                             *)
LEMMA DatabaseFactsAreOfTheStack ==
  ASSUME NEW doc, \A r \in doc.rules : r.type = "Invariant", NEW d,
         Fact1("Database", d) \in FactsOf(doc)
  PROVE  Fact1("Database", d) \in StackFacts(doc)
<1> DEFINE f == Fact1("Database", d)
<1>1. ASSUME NEW p, NEW x, p # "Database" PROVE f # Fact1(p, x)
  BY <1>1, FactsDiffer
<1>2. ASSUME NEW p, NEW x, NEW y PROVE f # Fact2(p, x, y)
  BY FactsDiffer
<1> HIDE DEF f
<1>3. f \notin ModelFacts(doc)
  BY <1>1, <1>2 DEF ModelFacts
<1>4. f \notin RouteFacts(doc)
  BY <1>1, <1>2 DEF RouteFacts
<1>5. f \notin PolicyFacts(doc)
  BY <1>1, <1>2 DEF PolicyFacts
<1>6. f \notin FoundationFacts(doc)
  BY <1>1, <1>2 DEF FoundationFacts
<1>7. f # Fact1("Project", "App")
  BY <1>1
<1>8. f \in FactsOf(doc) => f \in StackFacts(doc)
  BY <1>3, <1>4, <1>5, <1>6, <1>7 DEF FactsOf
<1>9. QED
  BY <1>8 DEF f

(* The stack gives the fact that selects PostgreSQL.                       *)
LEMMA StackDatabase ==
  ASSUME NEW s, NEW doc, doc.stack = {s}, s.database \in {"PostgreSQL", "InMemory"}
  PROVE  Fact1("Database", "Postgresql") \in StackFacts(doc) <=> s.database = "PostgreSQL"
<1>1. Given(s.database) = {s.database}
  BY PlainValues DEF Given, Missing
<1>2. Symbol("PostgreSQL") = "Postgresql" /\ Symbol("InMemory") = "Inmemory"
  BY DEF Symbol, Null
<1>3. {Fact1("Database", Symbol(d)) : d \in Given(s.database)} = {Fact1("Database", Symbol(s.database))}
  BY <1>1
<1>4. StackFacts(doc) =
        {IF b = "FastAPI" THEN Fact1("Target", "PythonFastAPI") ELSE Fact1("Target", b) :
           b \in Given(s.backend)}
        \cup {Fact1("Database", Symbol(s.database))}
        \cup {Fact1("AuthStrategy", Symbol(a)) : a \in Given(s.auth)}
  BY <1>3 DEF StackFacts
<1>5. \A x : Fact1("Database", "Postgresql") # Fact1("Target", x)
             /\ Fact1("Database", "Postgresql") # Fact1("AuthStrategy", x)
  BY FactsDiffer
<1>6. Fact1("Database", "Postgresql") = Fact1("Database", Symbol(s.database))
        <=> s.database = "PostgreSQL"
  BY <1>2, FactsDiffer
<1>7. QED
  BY <1>4, <1>5, <1>6

(* The generator stores as the plan says.                                  *)
LEMMA RenderedStrategy ==
  ASSUME NEW plan, Sound(plan), NEW pattern
  PROVE  Strategy(Render(plan, pattern)) =
           IF plan.database = "PostgreSQL" THEN "sqlalchemy" ELSE "in_memory"
<1> DEFINE doc == Render(plan, pattern)
           s == [at |-> 1, backend |-> "FastAPI", database |-> plan.database, auth |-> plan.auth]
<1>1. doc.stack = {s}
  BY RenderedParts
<1>2. s.database = plan.database
  OBVIOUS
<1>3. ASSUME NEW x \in doc.rules PROVE x.type = "Invariant"
  <2>1. PICK r \in plan.rules : x = RuleSection(r)
    BY RenderedParts
  <2>2. PlannedRule(r)
    BY DEF Sound
  <2>3. QED
    BY <2>1, <2>2, RuleSectionParts
<1>4. plan.database \in {"PostgreSQL", "InMemory"}
  BY DEF Sound
<1> HIDE DEF doc, s
<1>5. Fact1("Database", "Postgresql") \in StackFacts(doc) <=> plan.database = "PostgreSQL"
  BY <1>1, <1>2, <1>4, StackDatabase
<1>6. Fact1("Database", "Postgresql") \in FactsOf(doc)
        <=> Fact1("Database", "Postgresql") \in StackFacts(doc)
  BY <1>3, DatabaseFactsAreOfTheStack DEF FactsOf
<1>7. Strategy(doc) = IF plan.database = "PostgreSQL" THEN "sqlalchemy" ELSE "in_memory"
  BY <1>5, <1>6 DEF Strategy
<1>8. QED
  BY <1>7 DEF doc

(* A switch that is on is rendered and read as on.                         *)
LEMMA RenderedSwitch ==
  ASSUME NEW b, b
  PROVE  SectionEnabled(PlatformSection(b))
<1> DEFINE s == [at |-> 1, enabled |-> "true"]
<1>1. PlatformSection(b) = {s}
  BY DEF PlatformSection
<1>2. s.at = 1 /\ s.enabled = "true"
  OBVIOUS
<1> HIDE DEF s
<1>3. First({s}) = s
  BY <1>2, FirstOnly
<1>4. Value(s.enabled) = "True"
  BY <1>2, PlainValues
<1>5. QED
  BY <1>1, <1>3, <1>4 DEF SectionEnabled

(* The contract of the application is what the plan says.                  *)
LEMMA RenderedContract ==
  ASSUME NEW plan, Sound(plan), NEW pattern
  PROVE  LET doc == Render(plan, pattern)
             contract == AppContract(doc)
         IN  /\ plan.auth = "JWT" => contract.stack.auth = "JWT"
             /\ plan.tenant => \A e \in contract.entities : e.name \in RouteEntities(doc) =>
                                 e.tenant_scoped /\ e.name \in ScopedEntities(doc)
             /\ plan.audit => contract.audit_enabled
             /\ plan.capabilities \subseteq doc.capabilities
<1> DEFINE doc == Render(plan, pattern)
           contract == AppContract(doc)
           s == [at |-> 1, backend |-> "FastAPI", database |-> plan.database, auth |-> plan.auth]
<1>1. /\ doc.stack = {s} /\ doc.tenant = PlatformSection(plan.tenant)
      /\ doc.audit = PlatformSection(plan.audit)
      /\ doc.capabilities = plan.packs \cup plan.capabilities
  BY RenderedParts
<1>2. s.at = 1 /\ s.auth = plan.auth
  OBVIOUS
<1> HIDE DEF doc, s
<1>3. plan.auth = "JWT" => contract.stack.auth = "JWT"
  <2>1. First(doc.stack) = s /\ doc.stack # {}
    BY <1>1, <1>2, FirstOnly
  <2>2. plan.auth = "JWT" => StackSpec(doc).auth = "JWT"
    BY <1>2, <2>1, PlainValues DEF StackSpec, Missing, Null
  <2>3. contract.stack = StackSpec(doc)
    BY DEF AppContract
  <2>4. QED
    BY <2>2, <2>3
<1>4. plan.audit => contract.audit_enabled
  <2>1. plan.audit => SectionEnabled(doc.audit)
    BY <1>1, RenderedSwitch, Zenon
  <2>2. contract.audit_enabled = SectionEnabled(doc.audit)
    BY Zenon DEF AppContract
  <2>3. QED
    BY <2>1, <2>2, Zenon
<1>5. ASSUME plan.tenant, NEW e \in contract.entities, e.name \in RouteEntities(doc)
      PROVE  e.tenant_scoped /\ e.name \in ScopedEntities(doc)
  <2>1. SectionEnabled(doc.tenant)
    BY <1>1, <1>5, RenderedSwitch, Zenon
  <2>2. contract.entities = EntitySpecs(doc)
    BY DEF AppContract
  <2>3. PICK m \in {x \in doc.models : x.name.form = ""} :
          e = [name |-> m.name.of, fields |-> m.fields,
               tenant_scoped |-> SectionEnabled(doc.tenant) /\ m.name.of \in RouteEntities(doc)]
    BY <1>5, <2>2, Zenon DEF EntitySpecs
  <2>4. e.name = m.name.of
    BY <2>3, Zenon
  <2>5. e.tenant_scoped = (SectionEnabled(doc.tenant) /\ m.name.of \in RouteEntities(doc))
    BY <2>3, Zenon
  <2>6. e.tenant_scoped
    BY <1>5, <2>1, <2>4, <2>5, Zenon
  <2>7. Schema(e.name, "") \in Models(doc)
    <3>1. PICK x \in Elements(plan.entities) : m \in EntitySections(x)
      BY <2>3, RenderedModels DEF doc
    <3>2. m.name = Schema(x, "") \/ m.name = Schema(x, "Create")
      BY <3>1, EntitySectionParts
    <3>3. m.name = Schema(m.name.of, m.name.form)
      <4>1. CASE m.name = Schema(x, "")
        BY <4>1 DEF Schema
      <4>2. CASE m.name = Schema(x, "Create")
        BY <4>2 DEF Schema
      <4>3. QED
        BY <3>2, <4>1, <4>2
    <3>4. m.name = Schema(e.name, "")
      BY <2>3, <2>4, <3>3
    <3>5. m.name \in Models(doc)
      BY <2>3 DEF Models
    <3>6. QED
      BY <3>4, <3>5
  <2>8. e.name \in ScopedEntities(doc)
    BY <1>5, <2>1, <2>7 DEF ScopedEntities
  <2>9. QED
    BY <2>6, <2>8
<1>6. QED
  BY <1>1, <1>3, <1>4, <1>5, Zenon DEF doc

(* For any prompt: what its text states of the database, authentication,   *)
(* tenants and audit is what the application built of it has, whatever     *)
(* requirements, planner, capabilities, renderer and target do in between. *)
THEOREM Stated == Spec => []StatedReachesApp
<1>1. WayInv => StatedReachesApp
  <2> SUFFICES ASSUME WayInv, at = "built", ~blocked PROVE StatedReachesApp
    BY DEF StatedReachesApp
  <2> DEFINE c == ContextOf(prompt)
             plan == c.foundation
             S(name) == \E i \in c.requirements.items : i.name = name /\ i.origin = "explicit"
  <2>1. context = c /\ document = Render(plan, c.architecture.pattern)
    BY OfTheTables DEF WayInv, OfflineDocument
  <2>2. c.requirements.contradictions = {}
    BY <2>1 DEF blocked, BlockingReasons
  <2>3. Sound(plan)
    BY ContextIsSound
  <2>4. ASSUME NEW name PROVE States1(name) <=> S(name)
    BY <2>1 DEF States1, NamesOf
  <2>5. /\ \A o \in Opposites : ~(S(o[1]) /\ S(o[2]))
        /\ S("PostgreSQL") => plan.database = "PostgreSQL"
        /\ S("InMemory") => plan.database = "InMemory"
        /\ S("JWT") => plan.auth = "JWT"
        /\ S("MultiTenant") => plan.tenant /\ "tenant_isolation" \in plan.capabilities
        /\ S("Audit") => plan.audit /\ "audit" \in plan.capabilities
    BY <2>2, ContextKeepsStated, Zenon
  <2>6. Strategy(document) = IF plan.database = "PostgreSQL" THEN "sqlalchemy" ELSE "in_memory"
    BY <2>1, <2>3, RenderedStrategy
  <2> HIDE DEF c, plan, S
  <2>7. LET contract == AppContract(document)
        IN  /\ plan.auth = "JWT" => contract.stack.auth = "JWT"
            /\ plan.tenant => \A e \in contract.entities : e.name \in RouteEntities(document) =>
                                e.tenant_scoped /\ e.name \in ScopedEntities(document)
            /\ plan.audit => contract.audit_enabled
            /\ plan.capabilities \subseteq document.capabilities
    BY <2>1, <2>3, RenderedContract, Zenon
  <2>8. \A o \in Opposites : ~(States1(o[1]) /\ States1(o[2]))
    BY <2>4, <2>5, Zenon
  <2>9. /\ States1("PostgreSQL") => Strategy(document) = "sqlalchemy"
        /\ States1("InMemory") => Strategy(document) = "in_memory"
    BY <2>4, <2>5, <2>6
  <2>10. QED
    BY <2>4, <2>5, <2>7, <2>8, <2>9, Zenon DEF StatedReachesApp
<1>2. QED
  BY <1>1, WayHolds, PTL

-----------------------------------------------------------------------------
(* Documents that others drafted: what no deviation disturbs.              *)

(* Repeated sections have their place, and so have a first.                *)
Placed(sections) == \A s \in sections : s.at \in {1, 2}

(* Routes that are looked up as one say the same.                          *)
RoutesOrderly(routes) ==
  /\ Placed(routes)
  /\ \A r, s \in routes : RouteKey(r) = RouteKey(s) => r.body = s.body /\ r.returns = s.returns

(* The tokens of the field descriptors.                                    *)
Tokens ==
  {"uuid", "string", "int", "float", "bool", "primary", "required", "unique",
   "max=120", "max=many"}

(* The descriptor of a built-in field begins with its type, or with a      *)
(* modifier that ReadAlike forbids there.                                  *)
TypedLike(descriptor, d) ==
  /\ descriptor \in Seq(Tokens)
  /\ descriptor # <<>> => descriptor[1] \in {"required", "unique", "primary", d[1]}

(* The fields an entity is known to have begin with their types.           *)
ModelsOrderly(models) ==
  \A m \in models : \A e \in DOMAIN EntityFields : m.name = Schema(e, "") =>
    \A f \in DOMAIN m.fields \cap DOMAIN EntityFields[e] :
      TypedLike(m.fields[f], EntityFields[e][f])

(* A document in which what is looked up by name is found as it was meant. *)
Orderly(doc) ==
  /\ Placed(doc.stack) /\ Placed(doc.tenant) /\ Placed(doc.audit)
  /\ RoutesOrderly(doc.routes) /\ ModelsOrderly(doc.models)

(* The first of them is one of them.                                       *)
LEMMA FirstOfPlaced ==
  ASSUME NEW S, Placed(S), S # {}
  PROVE  First(S) \in S
<1>1. \A s \in S : s.at = 1 \/ s.at = 2
  BY DEF Placed
<1>2. \E s \in S : \A t \in S : s.at <= t.at
  <2>1. CASE \E s \in S : s.at = 1
    BY <1>1, <2>1
  <2>2. CASE ~\E s \in S : s.at = 1
    BY <1>1, <2>2
  <2>3. QED
    BY <2>1, <2>2
<1>3. QED
  BY <1>2 DEF First

(* A record with one field changed.                                        *)
LEMMA SectionChanged ==
  ASSUME NEW doc, NEW k \in DOMAIN doc, NEW v, NEW j \in DOMAIN doc
  PROVE  [doc EXCEPT ![k] = v][j] = IF j = k THEN v ELSE doc[j]
OBVIOUS

(* The sections of a document that are looked up by name.                  *)
Sections == {"stack", "tenant", "audit", "routes", "models"}

(* A changed section keeps the document orderly if it is so itself.        *)
LEMMA OrderlyChanged ==
  ASSUME NEW doc, Sections \subseteq DOMAIN doc, Orderly(doc), NEW k, NEW v,
         k \in {"stack", "tenant", "audit"} => Placed(v),
         k = "routes" => RoutesOrderly(v),
         k = "models" => ModelsOrderly(v)
  PROVE  /\ Orderly([doc EXCEPT ![k] = v])
         /\ Sections \subseteq DOMAIN [doc EXCEPT ![k] = v]
<1> DEFINE new == [doc EXCEPT ![k] = v]
<1>1. DOMAIN new = DOMAIN doc
  OBVIOUS
<1>2. ASSUME NEW j \in Sections PROVE new[j] = IF j = k THEN v ELSE doc[j]
  OBVIOUS
<1>3. /\ new.stack = IF "stack" = k THEN v ELSE doc.stack
      /\ new.tenant = IF "tenant" = k THEN v ELSE doc.tenant
      /\ new.audit = IF "audit" = k THEN v ELSE doc.audit
      /\ new.routes = IF "routes" = k THEN v ELSE doc.routes
      /\ new.models = IF "models" = k THEN v ELSE doc.models
  BY <1>2 DEF Sections
<1> HIDE DEF new
<1>4. Placed(new.stack) /\ Placed(new.tenant) /\ Placed(new.audit)
  BY <1>3, Zenon DEF Orderly
<1>5. RoutesOrderly(new.routes) /\ ModelsOrderly(new.models)
  BY <1>3, Zenon DEF Orderly
<1>6. Orderly(new)
  BY <1>4, <1>5, Zenon DEF Orderly
<1>7. QED
  BY <1>1, <1>6 DEF new

(* So does leaving something out.                                          *)
LEMMA FewerAreOrderly ==
  ASSUME NEW S, NEW T \in SUBSET S
  PROVE  /\ Placed(S) => Placed(T)
         /\ RoutesOrderly(S) => RoutesOrderly(T)
         /\ ModelsOrderly(S) => ModelsOrderly(T)
<1>1. Placed(S) => Placed(T)
  BY DEF Placed
<1>2. RoutesOrderly(S) => RoutesOrderly(T)
  BY <1>1 DEF RoutesOrderly
<1>3. ModelsOrderly(S) => ModelsOrderly(T)
  BY DEF ModelsOrderly
<1>4. QED
  BY <1>1, <1>2, <1>3

(* One route, rewritten or added.                                          *)
LEMMA RouteReplaced ==
  ASSUME NEW routes, RoutesOrderly(routes), NEW r \in routes,
         \A s \in routes : RouteKey(s) = RouteKey(r) => s = r,
         NEW x, RouteKey(x) = RouteKey(r), x.at = 1
  PROVE  RoutesOrderly((routes \ {r}) \cup {x})
BY DEF RoutesOrderly, Placed

(* Or one route more.                                                      *)
LEMMA RouteAdded ==
  ASSUME NEW routes, RoutesOrderly(routes), NEW x, x.at \in {1, 2},
         \A s \in routes : RouteKey(s) = RouteKey(x) => s.body = x.body /\ s.returns = x.returns
  PROVE  RoutesOrderly(routes \cup {x})
BY DEF RoutesOrderly, Placed

(* One model, rewritten or added.                                          *)
LEMMA ModelReplaced ==
  ASSUME NEW models, ModelsOrderly(models), NEW m, NEW x, ModelsOrderly({x})
  PROVE  ModelsOrderly((models \ {m}) \cup {x})
BY DEF ModelsOrderly

(* A route that says something else is still looked up as the same.        *)
LEMMA RouteChanged ==
  ASSUME NEW r, NEW q, q = RouteSection(r), NEW v
  PROVE  /\ LET x == [q EXCEPT !.auth = v] IN RouteKey(x) = RouteKey(q) /\ x.at = 1
         /\ LET x == [q EXCEPT !.body = v] IN RouteKey(x) = RouteKey(q) /\ x.at = 1
         /\ LET x == [q EXCEPT !.returns = v] IN RouteKey(x) = RouteKey(q) /\ x.at = 1
BY DEF RouteSection, RouteKey

(* And so is the same route again,                                         *)
LEMMA RouteRepeated ==
  ASSUME NEW r, NEW q, q = RouteSection(r),
         NEW x, x = [q EXCEPT !.at = 2, !.name = "Again", !.auth = "none"]
  PROVE  /\ RouteKey(x) = RouteKey(q) /\ x.at = 2
         /\ x.body = q.body /\ x.returns = q.returns
BY DEF RouteSection, RouteKey

(* but not under another method.                                           *)
LEMMA RouteUnderPut ==
  ASSUME NEW r, NEW q, q = RouteSection(r),
         NEW x, x = [q EXCEPT !.method = "PUT", !.name = "Put"]
  PROVE  x.method = "PUT" /\ x.at = 1
BY DEF RouteSection

(* Routes of different methods are different.                              *)
LEMMA KeyedByMethod ==
  ASSUME NEW r, NEW s, RouteKey(r) = RouteKey(s)
  PROVE  r.method = s.method
BY DEF RouteKey

(* The routes of a rendered document.                                      *)
LEMMA RenderedRoutes ==
  ASSUME NEW plan, Sound(plan), NEW pattern
  PROVE  LET routes == Render(plan, pattern).routes
         IN  /\ RoutesOrderly(routes)
             /\ \A r, s \in routes : RouteKey(r) = RouteKey(s) => r = s
             /\ \A s \in routes : \E r \in plan.routes : s = RouteSection(r)
             /\ \A s \in routes : s.method # "PUT"
<1> DEFINE routes == Render(plan, pattern).routes
<1>1. routes = {RouteSection(r) : r \in plan.routes}
  BY RenderedParts
<1> HIDE DEF routes
<1>2. ASSUME NEW r PROVE RouteKey(RouteSection(r)) = RouteKey(r)
  BY RouteSectionParts, Zenon DEF RouteKey
<1>3. \A r, s \in plan.routes : RouteKey(r) = RouteKey(s) => r = s
  BY RouteIsItsKey DEF Sound
<1>4. \A r, s \in routes : RouteKey(r) = RouteKey(s) => r = s
  BY <1>1, <1>2, <1>3
<1>5. \A s \in routes : s.at = 1
  BY <1>1, RouteSectionParts
<1>6. RoutesOrderly(routes)
  BY <1>4, <1>5 DEF RoutesOrderly, Placed
<1>7. ASSUME NEW r \in plan.routes PROVE RouteSection(r).method # "PUT"
  <2>1. r.method # "PUT"
    BY Zenon DEF Sound, RouteShape
  <2>2. QED
    BY <2>1, RouteSectionParts
<1>8. QED
  BY <1>1, <1>4, <1>6, <1>7 DEF routes

(* Descriptors are of one, two or three tokens.                            *)
LEMMA ShortSequences ==
  ASSUME NEW S
  PROVE  /\ \A x \in S : <<x>> \in Seq(S) /\ <<x>> # <<>>
         /\ \A x, y \in S : <<x, y>> \in Seq(S) /\ <<x, y>> # <<>>
         /\ \A x, y, z \in S : <<x, y, z>> \in Seq(S) /\ <<x, y, z>> # <<>>
<1>1. \A x \in S : <<x>> \in Seq(S) /\ <<x>> # <<>>
  OBVIOUS
<1>2. \A x, y \in S : <<x, y>> \in Seq(S) /\ <<x, y>> # <<>>
  OBVIOUS
<1>3. \A x, y, z \in S : <<x, y, z>> \in Seq(S) /\ <<x, y, z>> # <<>>
  OBVIOUS
<1>4. QED
  BY <1>1, <1>2, <1>3

(* Those of built-in fields are never empty.                               *)
LEMMA DescriptorsAreTyped ==
  ASSUME NEW d \in Descriptors
  PROVE  d \in Seq(Tokens) /\ d # <<>>
<1> DEFINE S == Tokens
           Typed(x) == x \in Seq(S) /\ x # <<>>
<1>1. /\ "uuid" \in S /\ "primary" \in S /\ "required" \in S /\ "unique" \in S
      /\ "string" \in S /\ "int" \in S /\ "float" \in S /\ "bool" \in S
  BY DEF Tokens
<1> HIDE DEF S
<1>2. Typed(Id) /\ Typed(Ref) /\ Typed(Text) /\ Typed(Key) /\ Typed(Number)
  BY <1>1, ShortSequences DEF Id, Ref, Text, Key, Number
<1>3. Typed(<<"int", "required">>) /\ Typed(<<"float", "required">>)
  BY <1>1, ShortSequences
<1>4. Typed(<<"float">>) /\ Typed(<<"bool">>)
  BY <1>1, ShortSequences
<1> HIDE DEF Typed
<1>5. Typed(d)
  BY <1>2, <1>3, <1>4 DEF Descriptors
<1>6. QED
  BY <1>5 DEF Typed, S

(* The models of a rendered document.                                      *)
LEMMA RenderedModelsAreOrderly ==
  ASSUME NEW plan, Sound(plan), NEW pattern
  PROVE  ModelsOrderly(Render(plan, pattern).models)
<1> SUFFICES ASSUME NEW m \in Render(plan, pattern).models, NEW e \in DOMAIN EntityFields,
                    m.name = Schema(e, ""), NEW f \in DOMAIN m.fields
             PROVE  TypedLike(m.fields[f], EntityFields[e][f])
  BY DEF ModelsOrderly
<1>1. m.fields = EntityFields[e]
  BY ModelAgrees, Zenon
<1>2. m.fields[f] \in Descriptors
  BY <1>1, FieldsAreDescribed
<1>3. m.fields[f] = EntityFields[e][f]
  BY <1>1
<1> DEFINE d == m.fields[f]
<1> HIDE DEF d
<1>4. d \in Seq(Tokens)
  BY <1>2, DescriptorsAreTyped DEF d
<1>5. TypedLike(d, d)
  BY <1>4 DEF TypedLike
<1>6. QED
  BY <1>3, <1>5 DEF d

(* The rendered document itself.                                           *)
LEMMA RenderedIsOrderly ==
  ASSUME NEW plan, Sound(plan), NEW pattern
  PROVE  /\ Orderly(Render(plan, pattern))
         /\ Sections \subseteq DOMAIN Render(plan, pattern)
<1> DEFINE doc == Render(plan, pattern)
<1>1. Sections \subseteq DOMAIN doc
  BY DEF Sections, Render
<1>2. Placed(doc.stack)
  BY RenderedParts DEF Placed
<1>3. ASSUME NEW b PROVE Placed(PlatformSection(b))
  BY DEF PlatformSection, Placed
<1>4. doc.tenant = PlatformSection(plan.tenant) /\ doc.audit = PlatformSection(plan.audit)
  BY RenderedParts
<1>5. RoutesOrderly(doc.routes) /\ ModelsOrderly(doc.models)
  BY RenderedRoutes, RenderedModelsAreOrderly
<1> HIDE DEF doc
<1>6. Placed(doc.tenant) /\ Placed(doc.audit)
  BY <1>3, <1>4, Zenon
<1>7. Orderly(doc)
  BY <1>2, <1>5, <1>6 DEF Orderly
<1>8. QED
  BY <1>1, <1>7 DEF doc

(* The models of a rendered document, as records.                          *)
LEMMA RenderedSections ==
  ASSUME NEW plan, NEW pattern, NEW m \in Render(plan, pattern).models
  PROVE  \E schema, fields : m = ModelSection(schema, fields)
<1>1. PICK e \in Elements(plan.entities) : m \in EntitySections(e)
  BY RenderedModels
<1>2. QED
  BY <1>1 DEF EntitySections

(* What a deviation leaves of an orderly document is orderly.              *)
LEMMA OmissionsAreOrderly ==
  ASSUME NEW doc, Sections \subseteq DOMAIN doc, Orderly(doc), NEW d \in Omissions(doc)
  PROVE  Orderly(d)
<1>1. PICK k \in SectionKindsOf(doc) : \E s \in doc[k] : d = [doc EXCEPT ![k] = @ \ {s}]
  BY DEF Omissions
<1>2. PICK s \in doc[k] : d = [doc EXCEPT ![k] = @ \ {s}]
  BY <1>1
<1> DEFINE v == doc[k] \ {s}
<1>3. d = [doc EXCEPT ![k] = v]
  BY <1>2
<1>4. v \in SUBSET doc[k]
  OBVIOUS
<1> HIDE DEF v
<1>5. /\ k \in {"stack", "tenant", "audit"} => Placed(v)
      /\ k = "routes" => RoutesOrderly(v)
      /\ k = "models" => ModelsOrderly(v)
  BY <1>4, FewerAreOrderly DEF Orderly
<1>6. QED
  BY <1>3, <1>5, OrderlyChanged

(* The stack declared otherwise, or twice.                                 *)
LEMMA StackDeviationsAreOrderly ==
  ASSUME NEW doc, Sections \subseteq DOMAIN doc, Orderly(doc),
         NEW s, s.at = 1, "at" \in DOMAIN s, doc.stack = {s}, NEW d \in StackDeviations(doc)
  PROVE  Orderly(d)
<1>1. First(doc.stack) = s
  BY FirstOnly
<1>2. ASSUME NEW v, Placed(v) PROVE Orderly([doc EXCEPT !.stack = v])
  BY <1>2, OrderlyChanged
<1>3. ASSUME NEW x PROVE Placed({[s EXCEPT !.database = x]})
  BY DEF Placed
<1>4. ASSUME NEW x PROVE Placed({[s EXCEPT !.auth = x]})
  BY DEF Placed
<1>5. ASSUME NEW x PROVE Placed({s} \cup {[s EXCEPT !.at = 2, !.database = x]})
  BY DEF Placed
<1>6. \/ \E x : d = [doc EXCEPT !.stack = {[s EXCEPT !.database = x]}]
      \/ d = [doc EXCEPT !.stack = {[s EXCEPT !.auth = "none"]}]
      \/ \E x : d = [doc EXCEPT !.stack = {s} \cup {[s EXCEPT !.at = 2, !.database = x]}]
  BY <1>1 DEF StackDeviations
<1>7. QED
  BY <1>2, <1>3, <1>4, <1>5, <1>6

(* Tenants or audit switched otherwise, or twice.                          *)
LEMMA PlatformDeviationsAreOrderly ==
  ASSUME NEW doc, Sections \subseteq DOMAIN doc, Orderly(doc), NEW d \in PlatformDeviations(doc)
  PROVE  Orderly(d)
<1>1. PICK k \in {"tenant", "audit"} :
        d \in {[doc EXCEPT ![k] = {[at |-> 1, enabled |-> v]}] :
                 v \in {"true", "false", "yes", "'true'", Missing}}
              \cup {[doc EXCEPT ![k] = {[at |-> 1, enabled |-> "false"],
                                        [at |-> 2, enabled |-> "true"]}]}
  BY DEF PlatformDeviations
<1>2. \/ \E v : d = [doc EXCEPT ![k] = {[at |-> 1, enabled |-> v]}]
      \/ d = [doc EXCEPT ![k] = {[at |-> 1, enabled |-> "false"], [at |-> 2, enabled |-> "true"]}]
  BY <1>1
<1>3. ASSUME NEW v, Placed(v) PROVE Orderly([doc EXCEPT ![k] = v])
  BY <1>3, OrderlyChanged
<1>4. ASSUME NEW v PROVE Placed({[at |-> 1, enabled |-> v]})
  BY DEF Placed
<1>5. Placed({[at |-> 1, enabled |-> "false"], [at |-> 2, enabled |-> "true"]})
  BY DEF Placed
<1>6. QED
  BY <1>2, <1>3, <1>4, <1>5

(* A route that says something else, or once more.                         *)
LEMMA RouteDeviationsAreOrderly ==
  ASSUME NEW doc, Sections \subseteq DOMAIN doc, Orderly(doc),
         \A r, s \in doc.routes : RouteKey(r) = RouteKey(s) => r = s,
         \A s \in doc.routes : s.method # "PUT" /\ \E r : s = RouteSection(r),
         NEW d \in RouteDeviations(doc)
  PROVE  Orderly(d)
<1> DEFINE With(r, x) == [doc EXCEPT !.routes = (@ \ {r}) \cup {x}]
           update(r) == Schema(r.entity, "Update")
           again(r) == [r EXCEPT !.at = 2, !.name = "Again", !.auth = "none"]
           put(r) == [r EXCEPT !.method = "PUT", !.name = "Put"]
<1>1. PICK r \in doc.routes :
        d \in {With(r, [r EXCEPT !.auth = a]) : a \in {Missing, "none", "admin"}}
              \cup {With(r, [r EXCEPT !.body = update(r)]),
                    [With(r, [r EXCEPT !.body = update(r)]) EXCEPT
                       !.models = @ \cup {ModelSection(update(r), [name |-> <<"string">>])}],
                    With(r, [r EXCEPT !.body = Schema("string", "")]),
                    With(r, [r EXCEPT !.returns = Schema("string", "")]),
                    With(r, [r EXCEPT !.returns = NoSchema]),
                    [doc EXCEPT !.routes = @ \cup {again(r)}],
                    [doc EXCEPT !.routes = @ \cup {put(r)}]}
  BY DEF RouteDeviations
<1>2. \/ \E a : d = With(r, [r EXCEPT !.auth = a])
      \/ \E b : d = With(r, [r EXCEPT !.body = b])
      \/ \E b : d = With(r, [r EXCEPT !.returns = b])
      \/ d = [With(r, [r EXCEPT !.body = update(r)]) EXCEPT
                !.models = @ \cup {ModelSection(update(r), [name |-> <<"string">>])}]
      \/ d = [doc EXCEPT !.routes = @ \cup {again(r)}]
      \/ d = [doc EXCEPT !.routes = @ \cup {put(r)}]
  BY <1>1
<1>3. RoutesOrderly(doc.routes) /\ ModelsOrderly(doc.models)
  BY DEF Orderly
<1>4. ASSUME NEW v, RoutesOrderly(v) PROVE Orderly([doc EXCEPT !.routes = v])
                                         /\ Sections \subseteq DOMAIN [doc EXCEPT !.routes = v]
  BY <1>4, OrderlyChanged
<1>5. PICK q : r = RouteSection(q)
  OBVIOUS
<1>6. ASSUME NEW x, RouteKey(x) = RouteKey(r), x.at = 1
      PROVE  Orderly(With(r, x)) /\ Sections \subseteq DOMAIN With(r, x)
  <2>1. RoutesOrderly((doc.routes \ {r}) \cup {x})
    BY <1>3, <1>6, RouteReplaced
  <2>2. QED
    BY <1>4, <2>1
<1> HIDE DEF With
<1>7. ASSUME NEW v
      PROVE  /\ Orderly(With(r, [r EXCEPT !.auth = v]))
             /\ Orderly(With(r, [r EXCEPT !.body = v]))
             /\ Sections \subseteq DOMAIN With(r, [r EXCEPT !.body = v])
             /\ Orderly(With(r, [r EXCEPT !.returns = v]))
  <2>1. /\ RouteKey([r EXCEPT !.auth = v]) = RouteKey(r) /\ [r EXCEPT !.auth = v].at = 1
        /\ RouteKey([r EXCEPT !.body = v]) = RouteKey(r) /\ [r EXCEPT !.body = v].at = 1
        /\ RouteKey([r EXCEPT !.returns = v]) = RouteKey(r) /\ [r EXCEPT !.returns = v].at = 1
    BY <1>5, RouteChanged
  <2>2. QED
    BY <1>6, <2>1
<1>8. ASSUME NEW x, Orderly(x), Sections \subseteq DOMAIN x
      PROVE  Orderly([x EXCEPT !.models =
                        @ \cup {ModelSection(update(r), [name |-> <<"string">>])}])
  <2>1. ModelsOrderly(x.models)
    BY <1>8 DEF Orderly
  <2>2. ASSUME NEW m, m = ModelSection(update(r), [name |-> <<"string">>])
        PROVE  ModelsOrderly(x.models \cup {m})
    <3>1. m.name = Schema(r.entity, "Update")
      BY <2>2, SectionParts
    <3>2. \A e : m.name # Schema(e, "")
      BY <3>1, SchemasDiffer
    <3>3. QED
      BY <2>1, <3>2 DEF ModelsOrderly
  <2>3. QED
    BY <1>8, <2>2, OrderlyChanged
<1>9. RoutesOrderly(doc.routes \cup {again(r)})
  <2> DEFINE x == again(r)
  <2>1. x = [r EXCEPT !.at = 2, !.name = "Again", !.auth = "none"]
    OBVIOUS
  <2> HIDE DEF x
  <2>2. RouteKey(x) = RouteKey(r) /\ x.at = 2 /\ x.body = r.body /\ x.returns = r.returns
    BY <1>5, <2>1, RouteRepeated
  <2>3. \A s \in doc.routes : RouteKey(s) = RouteKey(x) => s.body = x.body /\ s.returns = x.returns
    BY <2>2
  <2>4. RoutesOrderly(doc.routes \cup {x})
    BY <1>3, <2>2, <2>3, RouteAdded
  <2>5. QED
    BY <2>4 DEF x
<1>10. RoutesOrderly(doc.routes \cup {put(r)})
  <2> DEFINE x == put(r)
  <2>1. x = [r EXCEPT !.method = "PUT", !.name = "Put"]
    OBVIOUS
  <2> HIDE DEF x
  <2>2. x.method = "PUT" /\ x.at = 1
    BY <1>5, <2>1, RouteUnderPut
  <2>3. \A s \in doc.routes : RouteKey(s) # RouteKey(x)
    BY <2>2, KeyedByMethod
  <2>4. RoutesOrderly(doc.routes \cup {x})
    BY <1>3, <2>2, <2>3, RouteAdded
  <2>5. QED
    BY <2>4 DEF x
<1>11. CASE d = [doc EXCEPT !.routes = @ \cup {again(r)}] \/ d = [doc EXCEPT !.routes = @ \cup {put(r)}]
  <2> HIDE DEF again, put
  <2>1. QED
    BY <1>4, <1>9, <1>10, <1>11
<1>12. CASE d = [With(r, [r EXCEPT !.body = update(r)]) EXCEPT
                   !.models = @ \cup {ModelSection(update(r), [name |-> <<"string">>])}]
  <2> HIDE DEF update
  <2>1. QED
    BY <1>7, <1>8, <1>12
<1>13. CASE \/ \E a : d = With(r, [r EXCEPT !.auth = a])
            \/ \E b : d = With(r, [r EXCEPT !.body = b])
            \/ \E b : d = With(r, [r EXCEPT !.returns = b])
  BY <1>7, <1>13
<1>14. QED
  BY <1>2, <1>11, <1>12, <1>13

(* The sections nothing is looked up in.                                   *)
LEMMA OthersAreOrderly ==
  ASSUME NEW doc, Sections \subseteq DOMAIN doc, Orderly(doc)
  PROVE  /\ \A v : Orderly([doc EXCEPT !.rules = v])
         /\ \A v : Orderly([doc EXCEPT !.relationships = v])
         /\ \A v : Orderly([doc EXCEPT !.workflows = v])
         /\ \A v : Orderly([doc EXCEPT !.capabilities = v])
         /\ \A v : Orderly([doc EXCEPT !.unknown = v])
         /\ \A v : Orderly([doc EXCEPT !.syntax = v])
         /\ \A v : Orderly([doc EXCEPT !.policies = v])
         /\ \A v : Orderly([doc EXCEPT !.constraints = v])
<1>1. ASSUME NEW k, k \notin Sections, NEW v PROVE Orderly([doc EXCEPT ![k] = v])
  BY <1>1, OrderlyChanged DEF Sections
<1>2. /\ "rules" \notin Sections /\ "relationships" \notin Sections
      /\ "workflows" \notin Sections /\ "capabilities" \notin Sections
      /\ "unknown" \notin Sections /\ "syntax" \notin Sections
      /\ "policies" \notin Sections /\ "constraints" \notin Sections
  BY DEF Sections
<1>3. QED
  BY <1>1, <1>2

(* Rules are among them,                                                   *)
LEMMA RuleDeviationsAreOrderly ==
  ASSUME NEW doc, Sections \subseteq DOMAIN doc, Orderly(doc), NEW d \in RuleDeviations(doc)
  PROVE  Orderly(d)
<1>1. \E v : d = [doc EXCEPT !.rules = v]
  BY DEF RuleDeviations
<1>2. QED
  BY <1>1, OthersAreOrderly

(* and relationships,                                                      *)
LEMMA RelationDeviationsAreOrderly ==
  ASSUME NEW doc, Sections \subseteq DOMAIN doc, Orderly(doc), NEW d \in RelationDeviations(doc)
  PROVE  Orderly(d)
<1>1. \E v : d = [doc EXCEPT !.relationships = v]
  BY DEF RelationDeviations
<1>2. QED
  BY <1>1, OthersAreOrderly

(* and workflows,                                                          *)
LEMMA WorkflowDeviationsAreOrderly ==
  ASSUME NEW doc, Sections \subseteq DOMAIN doc, Orderly(doc), NEW d \in WorkflowDeviations(doc)
  PROVE  Orderly(d)
<1>1. \E v : d = [doc EXCEPT !.workflows = v]
  BY DEF WorkflowDeviations
<1>2. QED
  BY <1>1, OthersAreOrderly

(* and, but for routes and models left out, all the others.                *)
LEMMA OtherDeviationsAreOrderly ==
  ASSUME NEW doc, Sections \subseteq DOMAIN doc, Orderly(doc), NEW d \in OtherDeviations(doc)
  PROVE  Orderly(d)
<1>1. \/ d \in {[doc EXCEPT !.capabilities = {}], [doc EXCEPT !.capabilities = @ \cup {"crm"}],
                [doc EXCEPT !.unknown = {"Widget"}], [doc EXCEPT !.syntax = {"SML003"}],
                [doc EXCEPT !.routes = {r \in @ : r.body = NoSchema},
                            !.models = {m \in @ : m.name.form = ""}]}
      \/ \E p \in doc.policies :
           d \in {[doc EXCEPT !.policies = {[p EXCEPT !.broad_catch = v]}] :
                    v \in {"allowed", Missing}}
      \/ \E c \in doc.constraints :
           d \in {[doc EXCEPT !.constraints = {[c EXCEPT !.architecture = v[1], !.pattern = v[2]]}] :
                    v \in {<<Missing, "layered">>, <<"clean", Missing>>, <<"none", "layered">>}}
  BY Zenon DEF OtherDeviations
<1>2. \/ \E v : d = [doc EXCEPT !.capabilities = v]
      \/ \E v : d = [doc EXCEPT !.unknown = v]
      \/ \E v : d = [doc EXCEPT !.syntax = v]
      \/ \E v : d = [doc EXCEPT !.policies = v]
      \/ \E v : d = [doc EXCEPT !.constraints = v]
      \/ d = [doc EXCEPT !.routes = {r \in @ : r.body = NoSchema},
                         !.models = {m \in @ : m.name.form = ""}]
  BY <1>1, Zenon
<1>3. Orderly([doc EXCEPT !.routes = {r \in @ : r.body = NoSchema},
                          !.models = {m \in @ : m.name.form = ""}])
  <2> DEFINE routes == {r \in doc.routes : r.body = NoSchema}
             models == {m \in doc.models : m.name.form = ""}
             less == [doc EXCEPT !.routes = routes]
  <2>1. RoutesOrderly(routes) /\ ModelsOrderly(models)
    BY FewerAreOrderly DEF Orderly
  <2>2. Orderly(less) /\ Sections \subseteq DOMAIN less
    BY <2>1, OrderlyChanged
  <2>3. Orderly([less EXCEPT !.models = models])
    <3> HIDE DEF less, models
    <3>1. QED
      BY <2>1, <2>2, OrderlyChanged
  <2>4. [less EXCEPT !.models = models]
          = [doc EXCEPT !.routes = {r \in @ : r.body = NoSchema},
                        !.models = {m \in @ : m.name.form = ""}]
    OBVIOUS
  <2>5. QED
    BY <2>3, <2>4
<1>4. QED
  BY <1>2, <1>3, OthersAreOrderly

(* No built-in entity has a field of these names.                          *)
LEMMA UnusedNames ==
  /\ \A e \in DOMAIN EntityFields : {"note", "tenant_id"} \cap DOMAIN EntityFields[e] = {}
  /\ "Extra" \notin DOMAIN EntityFields
<1>1. ASSUME NEW e \in DOMAIN EntityFields
      PROVE  "note" \notin DOMAIN EntityFields[e] /\ "tenant_id" \notin DOMAIN EntityFields[e]
  <2> USE DEF EntityFields
  <2>1. CASE e = "Employee"
    BY <2>1
  <2>2. CASE e = "LeaveRequest"
    BY <2>2
  <2>3. CASE e = "ExpenseClaim"
    BY <2>3
  <2>4. CASE e = "Lead"
    BY <2>4
  <2>5. CASE e = "Deal"
    BY <2>5
  <2>6. CASE e = "Product"
    BY <2>6
  <2>7. CASE e = "Ticket"
    BY <2>7
  <2>8. CASE e = "Student"
    BY <2>8
  <2>9. CASE e = "Course"
    BY <2>9
  <2>10. CASE e = "Todo"
    BY <2>10
  <2>11. QED
    BY <2>1, <2>2, <2>3, <2>4, <2>5, <2>6, <2>7, <2>8, <2>9, <2>10, EntityNames
<1>2. QED
  BY <1>1, EntityNames

(* Whatever is done to a descriptor, its type stays or a modifier leads.   *)
LEMMA TypedVariants ==
  ASSUME NEW d, NEW D, TypedLike(d, D), d # <<>>,
         NEW y \in {<<d[1]>>, <<"required", d[1], "unique">>, Append(d, "max=120"),
                    Append(d, "max=many"), <<>>}
  PROVE  TypedLike(y, D)
<1> DEFINE S == Tokens
<1>1. "required" \in S /\ "unique" \in S /\ "max=120" \in S /\ "max=many" \in S
  BY DEF Tokens
<1>2. d \in Seq(S) /\ d[1] \in {"required", "unique", "primary", D[1]}
  BY DEF TypedLike
<1> HIDE DEF S
<1>3. d[1] \in S /\ Len(d) >= 1
  BY <1>2
<1>4. CASE y = <<d[1]>>
  BY <1>2, <1>3, <1>4, ShortSequences DEF TypedLike, S
<1>5. CASE y = <<"required", d[1], "unique">>
  BY <1>1, <1>3, <1>5, ShortSequences DEF TypedLike, S
<1>6. CASE y = Append(d, "max=120")
  <2>1. y \in Seq(S) /\ y[1] = d[1]
    BY <1>1, <1>2, <1>3, <1>6
  <2>2. QED
    BY <1>2, <2>1 DEF TypedLike, S
<1>7. CASE y = Append(d, "max=many")
  <2>1. y \in Seq(S) /\ y[1] = d[1]
    BY <1>1, <1>2, <1>3, <1>7
  <2>2. QED
    BY <1>2, <2>1 DEF TypedLike, S
<1>8. CASE y = <<>>
  BY <1>8 DEF TypedLike
<1>9. QED
  BY <1>4, <1>5, <1>6, <1>7, <1>8

(* A model section with a field, all fields or its mapping rewritten.      *)
LEMMA SectionRewritten ==
  ASSUME NEW schema, NEW fields, NEW m, m = ModelSection(schema, fields)
  PROVE  /\ \A f, y : /\ [m EXCEPT !.fields[f] = y].name = m.name
                      /\ [m EXCEPT !.fields[f] = y].fields = [m.fields EXCEPT ![f] = y]
         /\ \A v : [m EXCEPT !.fields = v].name = m.name /\ [m EXCEPT !.fields = v].fields = v
         /\ [m EXCEPT !.mapping = FALSE].name = m.name
         /\ [m EXCEPT !.mapping = FALSE].fields = m.fields
BY DEF ModelSection

(* A field rewritten.                                                      *)
LEMMA FieldRewritten ==
  ASSUME NEW schema, NEW fields, NEW m, m = ModelSection(schema, fields), ModelsOrderly({m}),
         NEW f \in DOMAIN m.fields, m.fields[f] # <<>>,
         NEW y \in {<<m.fields[f][1]>>, <<"required", m.fields[f][1], "unique">>,
                    Append(m.fields[f], "max=120"), Append(m.fields[f], "max=many"), <<>>}
  PROVE  ModelsOrderly({[m EXCEPT !.fields[f] = y]})
<1> DEFINE x == [m EXCEPT !.fields[f] = y]
<1>1. x.name = m.name /\ x.fields = [m.fields EXCEPT ![f] = y]
  BY SectionRewritten
<1> HIDE DEF x
<1>2. ASSUME NEW e \in DOMAIN EntityFields, m.name = Schema(e, ""),
             NEW g \in DOMAIN m.fields \cap DOMAIN EntityFields[e]
      PROVE  TypedLike(x.fields[g], EntityFields[e][g])
  <2>1. TypedLike(m.fields[g], EntityFields[e][g])
    BY <1>2 DEF ModelsOrderly
  <2>2. CASE g = f
    <3>1. TypedLike(y, EntityFields[e][g])
      BY <2>1, <2>2, TypedVariants
    <3>2. QED
      BY <1>1, <2>2, <3>1
  <2>3. CASE g # f
    BY <1>1, <2>1, <2>3
  <2>4. QED
    BY <2>2, <2>3
<1>3. ModelsOrderly({x})
  BY <1>1, <1>2 DEF ModelsOrderly
<1>4. QED
  BY <1>3 DEF x

(* A model with one more field.                                            *)
Noted(m, note) ==
  [m EXCEPT !.fields =
     [x \in DOMAIN @ \cup {"note"} |-> IF x = "note" THEN note ELSE @[x]]]

(* A model written as a list, or with one more field.                      *)
LEMMA FieldAdded ==
  ASSUME NEW schema, NEW fields, NEW m, m = ModelSection(schema, fields), ModelsOrderly({m})
  PROVE  /\ ModelsOrderly({[m EXCEPT !.mapping = FALSE]})
         /\ \A note : ModelsOrderly({Noted(m, note)})
<1>1. ModelsOrderly({[m EXCEPT !.mapping = FALSE]})
  <2> DEFINE x == [m EXCEPT !.mapping = FALSE]
  <2>1. x.name = m.name /\ x.fields = m.fields
    BY SectionRewritten
  <2> HIDE DEF x
  <2>2. ModelsOrderly({x})
    BY <2>1 DEF ModelsOrderly
  <2>3. QED
    BY <2>2 DEF x
<1>2. ASSUME NEW note PROVE ModelsOrderly({Noted(m, note)})
  <2> DEFINE v == [x \in DOMAIN m.fields \cup {"note"} |->
                     IF x = "note" THEN note ELSE m.fields[x]]
             new == [m EXCEPT !.fields = v]
  <2>1. new.name = m.name /\ new.fields = v
    BY SectionRewritten
  <2>2. ASSUME NEW e \in DOMAIN EntityFields, NEW g \in DOMAIN v \cap DOMAIN EntityFields[e]
        PROVE  g \in DOMAIN m.fields /\ v[g] = m.fields[g]
    BY UnusedNames
  <2> HIDE DEF v
  <2>3. ModelsOrderly({new})
    <3> HIDE DEF new
    <3> SUFFICES ASSUME NEW e \in DOMAIN EntityFields, new.name = Schema(e, ""),
                        NEW g \in DOMAIN new.fields \cap DOMAIN EntityFields[e]
                 PROVE  TypedLike(new.fields[g], EntityFields[e][g])
      BY DEF ModelsOrderly
    <3>1. g \in DOMAIN m.fields /\ new.fields[g] = m.fields[g]
      BY <2>1, <2>2
    <3>2. m.name = Schema(e, "")
      BY <2>1
    <3>3. TypedLike(m.fields[g], EntityFields[e][g])
      BY <3>1, <3>2 DEF ModelsOrderly
    <3>4. QED
      BY <3>1, <3>3
  <2>4. QED
    BY <2>3 DEF v, Noted
<1>3. QED
  BY <1>1, <1>2

(* A model of other fields, or one model more.                             *)
LEMMA ModelDeviationsAreOrderly ==
  ASSUME NEW doc, Sections \subseteq DOMAIN doc, Orderly(doc),
         \A m \in doc.models : /\ \E schema, fields : m = ModelSection(schema, fields)
                               /\ \A f \in DOMAIN m.fields : m.fields[f] # <<>>,
         NEW d \in ModelDeviations(doc)
  PROVE  Orderly(d)
<1> DEFINE With(m, x) == [doc EXCEPT !.models = (@ \ {m}) \cup {x}]
           rewritten ==
             \E m \in doc.models :
               /\ HasPlainField(m)
               /\ d \in {With(m, [m EXCEPT !.fields[FieldOf(m)] = x]) :
                          x \in {<<m.fields[FieldOf(m)][1]>>,
                                 <<"required", m.fields[FieldOf(m)][1], "unique">>,
                                 Append(m.fields[FieldOf(m)], "max=120"),
                                 Append(m.fields[FieldOf(m)], "max=many"), <<>>}}
                       \cup {With(m, [m EXCEPT !.mapping = FALSE])}
                       \cup {With(m, Noted(m, note)) : note \in Notes}
           added ==
             \E n \in {Schema(m.name.of, "Update") : m \in doc.models} \cup {Schema("Extra", "")} :
               d \in {[doc EXCEPT !.models = @ \cup {ModelSection(n, [name |-> x])}] :
                       x \in {<<"string">>, <<>>}}
<1>1. rewritten \/ added
  BY Zenon DEF ModelDeviations, Noted
<1>2. ModelsOrderly(doc.models)
  BY DEF Orderly
<1>3. ASSUME NEW v, ModelsOrderly(v) PROVE Orderly([doc EXCEPT !.models = v])
  BY <1>3, OrderlyChanged
<1>4. ASSUME NEW m \in doc.models, NEW x, ModelsOrderly({x}) PROVE Orderly(With(m, x))
  <2>1. ModelsOrderly((doc.models \ {m}) \cup {x})
    BY <1>2, <1>4, ModelReplaced
  <2>2. QED
    BY <1>3, <2>1
<1>5. ASSUME NEW m \in doc.models, HasPlainField(m)
      PROVE  FieldOf(m) \in DOMAIN m.fields
  BY <1>5 DEF HasPlainField, FieldOf
<1>6. ASSUME NEW m \in doc.models, HasPlainField(m)
      PROVE  /\ \A x \in {<<m.fields[FieldOf(m)][1]>>,
                          <<"required", m.fields[FieldOf(m)][1], "unique">>,
                          Append(m.fields[FieldOf(m)], "max=120"),
                          Append(m.fields[FieldOf(m)], "max=many"), <<>>} :
                  ModelsOrderly({[m EXCEPT !.fields[FieldOf(m)] = x]})
             /\ ModelsOrderly({[m EXCEPT !.mapping = FALSE]})
             /\ \A note : ModelsOrderly({Noted(m, note)})
  <2>1. PICK schema, fields : m = ModelSection(schema, fields)
    OBVIOUS
  <2>2. ModelsOrderly({m})
    BY <1>2, FewerAreOrderly
  <2> DEFINE f == FieldOf(m)
  <2>3. f \in DOMAIN m.fields /\ m.fields[f] # <<>>
    BY <1>5, <1>6
  <2> HIDE DEF f
  <2>4. \A x \in {<<m.fields[f][1]>>, <<"required", m.fields[f][1], "unique">>,
                  Append(m.fields[f], "max=120"), Append(m.fields[f], "max=many"), <<>>} :
          ModelsOrderly({[m EXCEPT !.fields[f] = x]})
    BY <2>1, <2>2, <2>3, FieldRewritten
  <2>5. ModelsOrderly({[m EXCEPT !.mapping = FALSE]})
    BY <2>1, <2>2, FieldAdded
  <2>6. \A note : ModelsOrderly({Noted(m, note)})
    BY <2>1, <2>2, FieldAdded
  <2>7. QED
    BY <2>4, <2>5, <2>6, Zenon DEF f
<1>7. ASSUME NEW n \in {Schema(m.name.of, "Update") : m \in doc.models} \cup {Schema("Extra", "")},
             NEW fields
      PROVE  Orderly([doc EXCEPT !.models = @ \cup {ModelSection(n, fields)}])
  <2>1. \A e \in DOMAIN EntityFields : n # Schema(e, "")
    <3>1. "Update" # "" /\ "Extra" \notin DOMAIN EntityFields
      BY UnusedNames
    <3>2. ASSUME NEW x, NEW e PROVE Schema(x, "Update") # Schema(e, "")
      BY <3>1, SchemasDiffer
    <3>3. ASSUME NEW e \in DOMAIN EntityFields PROVE Schema("Extra", "") # Schema(e, "")
      BY <3>1, SchemasDiffer
    <3>4. (\E x : n = Schema(x, "Update")) \/ n = Schema("Extra", "")
      OBVIOUS
    <3>5. QED
      BY <3>2, <3>3, <3>4, Zenon
  <2>2. ASSUME NEW m, m = ModelSection(n, fields) PROVE ModelsOrderly(doc.models \cup {m})
    <3>1. m.name = n
      BY <2>2, SectionParts
    <3>2. QED
      BY <1>2, <2>1, <3>1 DEF ModelsOrderly
  <2>3. QED
    BY <1>3, <2>2
<1> HIDE DEF With
<1>8. CASE rewritten
  <2>1. PICK m \in doc.models :
          /\ HasPlainField(m)
          /\ \/ \E x \in {<<m.fields[FieldOf(m)][1]>>,
                          <<"required", m.fields[FieldOf(m)][1], "unique">>,
                          Append(m.fields[FieldOf(m)], "max=120"),
                          Append(m.fields[FieldOf(m)], "max=many"), <<>>} :
                  d = With(m, [m EXCEPT !.fields[FieldOf(m)] = x])
             \/ d = With(m, [m EXCEPT !.mapping = FALSE])
             \/ \E note \in Notes : d = With(m, Noted(m, note))
    BY <1>8, Zenon
  <2>2. CASE \/ d = With(m, [m EXCEPT !.mapping = FALSE])
             \/ \E note \in Notes : d = With(m, Noted(m, note))
    BY <1>4, <1>6, <2>1, <2>2, Zenon
  <2>3. CASE \E x \in {<<m.fields[FieldOf(m)][1]>>,
                       <<"required", m.fields[FieldOf(m)][1], "unique">>,
                       Append(m.fields[FieldOf(m)], "max=120"),
                       Append(m.fields[FieldOf(m)], "max=many"), <<>>} :
               d = With(m, [m EXCEPT !.fields[FieldOf(m)] = x])
    BY <1>4, <1>6, <2>1, <2>3, Zenon
  <2>4. QED
    BY <2>1, <2>2, <2>3
<1>9. CASE added
  BY <1>7, <1>9, Zenon
<1> HIDE DEF rewritten, added
<1>10. QED
  BY <1>1, <1>8, <1>9

(* So whatever was made of a rendered document is orderly.                 *)
LEMMA DeviationsAreOrderly ==
  ASSUME NEW plan, Sound(plan), NEW pattern, NEW d \in Deviations(Render(plan, pattern))
  PROVE  Orderly(d)
<1> DEFINE doc == Render(plan, pattern)
           s == [at |-> 1, backend |-> "FastAPI", database |-> plan.database, auth |-> plan.auth]
<1>1. Orderly(doc) /\ Sections \subseteq DOMAIN doc
  BY RenderedIsOrderly
<1>2. s.at = 1 /\ "at" \in DOMAIN s
  OBVIOUS
<1>3. doc.stack = {s}
  BY RenderedParts
<1>4. /\ \A r, q \in doc.routes : RouteKey(r) = RouteKey(q) => r = q
      /\ \A q \in doc.routes : q.method # "PUT" /\ \E r : q = RouteSection(r)
  BY RenderedRoutes
<1>5. \A m \in doc.models : /\ \E schema, fields : m = ModelSection(schema, fields)
                            /\ \A f \in DOMAIN m.fields : m.fields[f] # <<>>
  <2> SUFFICES ASSUME NEW m \in doc.models
               PROVE  /\ \E schema, fields : m = ModelSection(schema, fields)
                      /\ \A f \in DOMAIN m.fields : m.fields[f] # <<>>
    OBVIOUS
  <2>1. \E schema, fields : m = ModelSection(schema, fields)
    BY RenderedSections
  <2>2. \A f \in DOMAIN m.fields : m.fields[f] # <<>>
    BY ModelAgrees
  <2>3. QED
    BY <2>1, <2>2
<1> HIDE DEF doc, s
<1>6. Orderly(doc) => \A x \in StackDeviations(doc) : Orderly(x)
  BY <1>1, <1>2, <1>3, StackDeviationsAreOrderly
<1>7. \A x \in RouteDeviations(doc) : Orderly(x)
  BY <1>1, <1>4, RouteDeviationsAreOrderly
<1>8. \A x \in ModelDeviations(doc) : Orderly(x)
  BY <1>1, <1>5, ModelDeviationsAreOrderly
<1>9. \A x \in Omissions(doc) \cup PlatformDeviations(doc) \cup RuleDeviations(doc)
                 \cup RelationDeviations(doc) \cup WorkflowDeviations(doc)
                 \cup OtherDeviations(doc) : Orderly(x)
  BY <1>1, OmissionsAreOrderly, PlatformDeviationsAreOrderly, RuleDeviationsAreOrderly,
     RelationDeviationsAreOrderly, WorkflowDeviationsAreOrderly, OtherDeviationsAreOrderly
<1>10. QED
  BY <1>1, <1>6, <1>7, <1>8, <1>9 DEF Deviations, doc

-----------------------------------------------------------------------------
(* What the verifier accepts: what is left for the compiler to refuse.     *)

(* A document the verifier accepts has no issue of any kind.               *)
LEMMA ConformingParts ==
  ASSUME NEW c, NEW doc, Conformance(c, doc) = {}
  PROVE  LET plan == c.foundation
         IN  /\ StackIssues(plan, doc) = {} /\ PlatformIssues(plan, doc) = {}
             /\ EntityIssues(plan, doc) = {} /\ RelationshipIssues(plan, doc) = {}
             /\ RuleIssues(plan, doc) = {} /\ RouteIssues(plan, doc) = {}
BY DEF Conformance

(* The models of a document the verifier accepts.                          *)
LEMMA ConformingModels ==
  ASSUME NEW plan, NEW doc, EntityIssues(plan, doc) = {}
  PROVE  /\ \A e \in Elements(plan.entities) :
              Schema(e, "") \in Models(doc) /\ Schema(e, "Create") \in Models(doc)
         /\ \A m \in doc.models : \E e \in Elements(plan.entities) :
              \E form \in {"", "Create", "Update"} : m.name = Schema(e, form)
         /\ \A e \in Elements(plan.entities) : \A m \in doc.models :
              m.name = Schema(e, "") => FieldIssues(EntityFields[e], m) = {}
<1>1. \A e \in Elements(plan.entities) :
        /\ ModelIssues(doc, Schema(e, ""), EntityFields[e], "SCV030") = {}
        /\ ModelIssues(doc, Schema(e, "Create"), CreateFields(e), "SCV031") = {}
  <2> DEFINE A(e) == ModelIssues(doc, Schema(e, ""), EntityFields[e], "SCV030")
             B(e) == ModelIssues(doc, Schema(e, "Create"), CreateFields(e), "SCV031")
  <2>1. UNION {A(e) \cup B(e) : e \in Elements(plan.entities)} = {}
    BY DEF EntityIssues
  <2> HIDE DEF A, B
  <2>2. \A e \in Elements(plan.entities) : A(e) = {} /\ B(e) = {}
    BY <2>1
  <2>3. QED
    BY <2>2 DEF A, B
<1>2. Models(doc) \subseteq CanonicalModels(plan)
  BY DEF EntityIssues
<1>3. ASSUME NEW schema, NEW expected, NEW code, ModelIssues(doc, schema, expected, code) = {}
      PROVE  /\ schema \in Models(doc)
             /\ \A m \in doc.models : m.name = schema => FieldIssues(expected, m) = {}
  BY <1>3 DEF ModelIssues
<1>4. ASSUME NEW m \in doc.models
      PROVE  \E e \in Elements(plan.entities) :
               \E form \in {"", "Create", "Update"} : m.name = Schema(e, form)
  <2>1. m.name \in CanonicalModels(plan)
    BY <1>2 DEF Models
  <2>2. PICK e \in Elements(plan.entities) : m.name \in {Schema(e, form) : form \in {"", "Create", "Update"}}
    BY <2>1 DEF CanonicalModels
  <2>3. QED
    BY <2>2
<1>5. QED
  BY <1>1, <1>3, <1>4

(* Its fields say what they have to, and maybe more.                       *)
LEMMA KeptFields ==
  ASSUME NEW expected, NEW m, FieldIssues(expected, m) = {}
  PROVE  \A f \in DOMAIN expected :
           /\ f \in DOMAIN m.fields /\ m.fields[f] # <<>>
           /\ Elements(expected[f]) \subseteq Elements(m.fields[f])
BY DEF FieldIssues

(* Every route of it is one of the plan, but for the body of an update.    *)
LEMMA ConformingRoutes ==
  ASSUME NEW plan, NEW doc, RoutesOrderly(doc.routes), RouteIssues(plan, doc) = {}
  PROVE  /\ \A x \in doc.routes : \E r \in plan.routes :
              RouteKey(x) = RouteKey(r) /\ x.returns = r.returns /\ SameBody(r, x.body)
         /\ \A r \in plan.routes : \E x \in doc.routes : RouteKey(x) = RouteKey(r)
<1> DEFINE same(r) == {x \in doc.routes : RouteKey(x) = RouteKey(r)}
<1>1. ASSUME NEW r \in plan.routes
      PROVE  same(r) # {} /\ SameBody(r, First(same(r)).body) /\ First(same(r)).returns = r.returns
  BY DEF RouteIssues
<1>2. \A x \in doc.routes : \E r \in plan.routes : RouteKey(x) = RouteKey(r)
  BY DEF RouteIssues
<1>3. ASSUME NEW x \in doc.routes, NEW r \in plan.routes, RouteKey(x) = RouteKey(r)
      PROVE  x.returns = r.returns /\ SameBody(r, x.body)
  <2> DEFINE y == First(same(r))
  <2>1. Placed(same(r))
    BY DEF RoutesOrderly, Placed
  <2>2. y \in same(r)
    BY <1>1, <2>1, FirstOfPlaced
  <2>3. y \in doc.routes /\ RouteKey(y) = RouteKey(x)
    BY <1>3, <2>2
  <2>4. SameBody(r, y.body) /\ y.returns = r.returns
    BY <1>1
  <2> HIDE DEF y
  <2>5. x.body = y.body /\ x.returns = y.returns
    BY <2>3 DEF RoutesOrderly
  <2>6. QED
    BY <2>4, <2>5
<1>4. ASSUME NEW r \in plan.routes PROVE \E x \in doc.routes : RouteKey(x) = RouteKey(r)
  BY <1>1
<1>5. QED
  BY <1>2, <1>3, <1>4

(* Its rules are those of the plan.                                        *)
LEMMA ConformingRules ==
  ASSUME NEW plan, NEW doc, RuleIssues(plan, doc) = {}
  PROVE  /\ \A x \in doc.rules : \E r \in plan.rules : x.rule = r.rule /\ x.entity = r.entity
         /\ \A r \in plan.rules : \E x \in doc.rules : x.rule = r.rule /\ x.entity = r.entity
<1>1. RuleKeys(plan.rules) = RuleKeys(doc.rules)
  BY DEF RuleIssues
<1>2. ASSUME NEW S, NEW T, RuleKeys(S) = RuleKeys(T), NEW x \in S
      PROVE  \E r \in T : x.rule = r.rule /\ x.entity = r.entity
  <2>1. <<x.rule, x.entity>> \in RuleKeys(T)
    BY <1>2 DEF RuleKeys
  <2>2. PICK r \in T : <<x.rule, x.entity>> = <<r.rule, r.entity>>
    BY <2>1 DEF RuleKeys
  <2>3. QED
    BY <2>2
<1>3. \A x \in doc.rules : \E r \in plan.rules : x.rule = r.rule /\ x.entity = r.entity
  BY <1>1, <1>2
<1>4. \A r \in plan.rules : \E x \in doc.rules : r.rule = x.rule /\ r.entity = x.entity
  BY <1>1, <1>2
<1>5. QED
  BY <1>3, <1>4

(* So are the entities its routes are for.                                 *)
LEMMA ConformingEntities ==
  ASSUME NEW plan, Sound(plan), NEW doc, RoutesOrderly(doc.routes), RouteIssues(plan, doc) = {}
  PROVE  /\ \A x \in doc.routes : \E r \in plan.routes :
              /\ RouteKey(x) = RouteKey(r) /\ x.returns = r.returns /\ SameBody(r, x.body)
              /\ EntityOf(x) = r.entity /\ r.entity \in Elements(plan.entities)
         /\ RouteEntities(doc) = {r.entity : r \in plan.routes}
<1>1. ASSUME NEW r \in plan.routes, NEW x, x.returns = r.returns
      PROVE  EntityOf(x) = r.entity /\ r.entity \in Elements(plan.entities)
  <2>1. r.entity \in Elements(plan.entities) /\ RouteShape(r)
    BY DEF Sound
  <2>2. r.returns = Schema(r.entity, "[]") \/ r.returns = Schema(r.entity, "")
    BY <2>1, Zenon DEF RouteShape
  <2> DEFINE e == r.entity
  <2> HIDE DEF e
  <2>3. e # "none"
    BY <2>1, ElementsAreKnown, EntityNames DEF e
  <2>4. r.returns # NoSchema /\ r.returns.of = e
    BY <2>2, <2>3, ReturnedSchema DEF e
  <2>5. QED
    BY <1>1, <2>1, <2>4 DEF EntityOf, e
<1>2. \A x \in doc.routes : \E r \in plan.routes :
        /\ RouteKey(x) = RouteKey(r) /\ x.returns = r.returns /\ SameBody(r, x.body)
        /\ EntityOf(x) = r.entity /\ r.entity \in Elements(plan.entities)
  <2> SUFFICES ASSUME NEW x \in doc.routes
               PROVE  \E r \in plan.routes :
                        /\ RouteKey(x) = RouteKey(r) /\ x.returns = r.returns /\ SameBody(r, x.body)
                        /\ EntityOf(x) = r.entity /\ r.entity \in Elements(plan.entities)
    OBVIOUS
  <2>1. PICK r \in plan.routes :
          RouteKey(x) = RouteKey(r) /\ x.returns = r.returns /\ SameBody(r, x.body)
    BY ConformingRoutes
  <2>2. EntityOf(x) = r.entity /\ r.entity \in Elements(plan.entities)
    BY <1>1, <2>1
  <2>3. QED
    BY <2>1, <2>2
<1>3. ASSUME NEW r \in plan.routes
      PROVE  \E x \in doc.routes : EntityOf(x) = r.entity
  <2>1. PICK x \in doc.routes : RouteKey(x) = RouteKey(r)
    BY ConformingRoutes
  <2>2. PICK q \in plan.routes : RouteKey(x) = RouteKey(q) /\ x.returns = q.returns
    BY ConformingRoutes
  <2>3. q = r
    BY <2>1, <2>2, RouteIsItsKey DEF Sound
  <2>4. QED
    BY <1>1, <2>2, <2>3
<1>4. RouteEntities(doc) = {EntityOf(x) : x \in doc.routes}
  <2>1. ASSUME NEW x PROVE RoutePlan(x).entity = EntityOf(x)
    BY DEF RoutePlan
  <2>2. QED
    BY <2>1 DEF RouteEntities, RoutePlans
<1>5. QED
  BY <1>2, <1>3, <1>4

(* What a route of an accepted document takes and returns.                 *)
LEMMA ConformingSchemas ==
  ASSUME NEW plan, Sound(plan), NEW doc, RoutesOrderly(doc.routes), RouteIssues(plan, doc) = {},
         EntityIssues(plan, doc) = {}, NEW x \in doc.routes
  PROVE  /\ Normalized(x.returns) \in Models(doc)
         /\ \/ x.body = NoSchema
            \/ Normalized(x.body) \in Models(doc)
            \/ ~Primitive(x.body)
<1>1. PICK r \in plan.routes : x.returns = r.returns /\ SameBody(r, x.body)
                               /\ r.entity \in Elements(plan.entities)
  BY ConformingEntities
<1> DEFINE e == r.entity
<1>2. /\ r.body = NoSchema \/ r.body = Schema(e, "Create")
      /\ r.returns = Schema(e, "[]") \/ r.returns = Schema(e, "")
  BY <1>1, Zenon DEF Sound, RouteShape
<1> HIDE DEF e
<1>3. Schema(e, "") \in Models(doc) /\ Schema(e, "Create") \in Models(doc)
  BY <1>1, ConformingModels DEF e
<1>4. Normalized(x.returns) \in Models(doc)
  BY <1>1, <1>2, <1>3, NormalForms
<1>5. CASE x.body = r.body
  <2>1. Normalized(Schema(e, "Create")) = Schema(e, "Create")
    BY NormalForms
  <2>2. x.body = NoSchema \/ Normalized(x.body) \in Models(doc)
    BY <1>2, <1>3, <1>5, <2>1
  <2>3. QED
    BY <1>4, <2>2
<1>6. CASE x.body # r.body
  <2>1. x.body = Schema(r.body.of, "Update")
    BY <1>1, <1>6 DEF SameBody
  <2>2. ~Primitive(x.body)
    BY <2>1 DEF Primitive, Schema
  <2>3. QED
    BY <1>4, <2>2
<1>7. QED
  BY <1>4, <1>5, <1>6

(* What an accepted document may still be refused for.                     *)
LEMMA AcceptedRefusals ==
  ASSUME NEW c, Sound(c.foundation), IntegrityIssues(c.foundation) = {},
         NEW doc, Parses(doc), Orderly(doc), Conformance(c, doc) = {}
  PROVE  \A ruff : Refusals(doc, ruff) \subseteq LateCodes
<1> DEFINE plan == c.foundation
<1>1. Sound(plan) /\ ~StrayRule(plan)
  BY OnlyRulesStray
<1>2. /\ EntityIssues(plan, doc) = {} /\ RelationshipIssues(plan, doc) = {}
      /\ RuleIssues(plan, doc) = {} /\ RouteIssues(plan, doc) = {}
  BY ConformingParts
<1> HIDE DEF plan
<1>3. RoutesOrderly(doc.routes)
  BY DEF Orderly
<1>4. \A e \in Elements(plan.entities) :
        Schema(e, "") \in Models(doc) /\ Schema(e, "Create") \in Models(doc)
  BY <1>2, ConformingModels
<1>5. \A x \in doc.routes : /\ Normalized(x.returns) \in Models(doc)
                            /\ \/ x.body = NoSchema
                               \/ Normalized(x.body) \in Models(doc)
                               \/ ~Primitive(x.body)
  BY <1>1, <1>2, <1>3, ConformingSchemas
<1>6. RouteDiagnostics(doc) \subseteq {"SEM104"}
  BY <1>5 DEF RouteDiagnostics, Declared
<1>7. RelationshipDiagnostics(doc) = {}
  <2>1. \A w \in doc.relationships : \E r \in plan.relationships : SameRelationship(r, w)
    BY <1>2 DEF RelationshipIssues
  <2>2. \A r \in plan.relationships :
          r.source \in Elements(plan.entities) /\ r.target \in Elements(plan.entities)
    BY <1>1 DEF Sound
  <2>3. \A w \in doc.relationships :
          Schema(w["source"], "") \in Models(doc) /\ Schema(w["target"], "") \in Models(doc)
    BY <1>4, <2>1, <2>2 DEF SameRelationship
  <2>4. QED
    BY <2>3 DEF RelationshipDiagnostics
<1>8. RuleDiagnostics(doc) \subseteq {"SEM204", "SEM205"}
  <2>1. ASSUME NEW x \in doc.rules
        PROVE  /\ x.entity # Missing /\ Schema(x.entity, "") \in Models(doc)
               /\ x.rule \notin InvalidRules /\ x.rule \notin UnsupportedRules
    <3>1. PICK r \in plan.rules : x.rule = r.rule /\ x.entity = r.entity
      BY <1>2, ConformingRules
    <3>2. PlannedRule(r)
      BY <1>1 DEF Sound
    <3>3. r.entity \in Elements(plan.entities)
      BY <1>1 DEF StrayRule
    <3>4. QED
      BY <1>4, <3>1, <3>2, <3>3 DEF PlannedRule
  <2>2. QED
    BY <2>1 DEF RuleDiagnostics
<1>9. Diagnostics(doc) \subseteq {"SEM001", "SEM002", "SEM104", "SEM204", "SEM205"}
  BY <1>6, <1>7, <1>8 DEF Diagnostics
<1>10. ASSUME Diagnostics(doc) = {} PROVE UndefinedSchemas(doc) = {}
  <2>1. RouteDiagnostics(doc) = {}
    BY <1>10 DEF Diagnostics
  <2>2. \A x \in doc.routes : Primitive(x.body) \/ Normalized(x.body) \in Models(doc)
    BY <2>1 DEF RouteDiagnostics, Declared
  <2>3. \A x \in doc.routes : /\ Normalized(x.body) \in Models(doc) \cup {NoSchema}
                              /\ Normalized(x.returns) \in Models(doc)
    BY <1>5, <2>2, NormalForms
  <2>4. QED
    BY <2>3 DEF UndefinedSchemas, GivenSchemas
<1>11. UncreatableEntities(doc) = {}
  <2>1. RouteEntities(doc) = {r.entity : r \in plan.routes}
    BY <1>1, <1>2, <1>3, ConformingEntities
  <2>2. \A e \in RouteEntities(doc) : e \in Elements(plan.entities)
    BY <1>1, <2>1 DEF Sound
  <2>3. QED
    BY <1>4, <2>2 DEF UncreatableEntities
<1>12. ASSUME NEW ruff PROVE TargetRefusals(doc, ruff) \subseteq {"TGT202", "TGT203", "RuntimeError"}
  BY <1>11 DEF TargetRefusals, InvalidDefaults, CanonicalizationErrors
<1>13. QED
  BY <1>9, <1>10, <1>12 DEF Refusals, LateCodes

-----------------------------------------------------------------------------
(* And what of the canonical context the application keeps.                *)

(* Only one word reads as each of the databases.                           *)
LEMMA PlainDatabases ==
  ASSUME NEW w, Value(w) \in {"PostgreSQL", "InMemory"}
  PROVE  w = Value(w)
<1>1. CASE w \in {"true", "True"}
  BY <1>1 DEF Value
<1>2. CASE w \in {"false", "False"}
  BY <1>2 DEF Value
<1>3. CASE w \in {"none", "None", "null"}
  BY <1>3 DEF Value, Null
<1>4. CASE w = "'true'"
  BY <1>4 DEF Value
<1>5. CASE w = "'false'"
  BY <1>5 DEF Value
<1>6. CASE w \notin {"true", "True", "false", "False", "none", "None", "null", "'true'", "'false'"}
  BY <1>6 DEF Value
<1>7. QED
  BY <1>1, <1>2, <1>3, <1>4, <1>5, <1>6

(* The one stack of an accepted document stores as the plan says.          *)
LEMMA KeptStack ==
  ASSUME NEW plan, Sound(plan), NEW doc, Placed(doc.stack), StackIssues(plan, doc) = {},
         \A s, t \in doc.stack : s = t, \A r \in doc.rules : r.type = "Invariant"
  PROVE  /\ Strategy(doc) = IF plan.database = "PostgreSQL" THEN "sqlalchemy" ELSE "in_memory"
         /\ UsesSQLAlchemy(doc) <=> plan.database = "PostgreSQL"
<1>1. doc.stack # {}
  BY DEF StackIssues
<1>2. First(doc.stack) \in doc.stack
  BY <1>1, FirstOfPlaced
<1> DEFINE s == First(doc.stack)
<1> HIDE DEF s
<1>3. doc.stack = {s}
  BY <1>2 DEF s
<1>4. SameText(s.database, plan.database)
  BY <1>1 DEF StackIssues, s
<1>5. plan.database \in {"PostgreSQL", "InMemory"}
  BY DEF Sound
<1>6. s.database = plan.database
  BY <1>4, <1>5, PlainDatabases DEF SameText
<1>7. Fact1("Database", "Postgresql") \in StackFacts(doc) <=> plan.database = "PostgreSQL"
  BY <1>3, <1>5, <1>6, StackDatabase
<1>8. Fact1("Database", "Postgresql") \in FactsOf(doc)
        <=> Fact1("Database", "Postgresql") \in StackFacts(doc)
  BY DatabaseFactsAreOfTheStack DEF FactsOf
<1>9. StackSpec(doc).database = plan.database
  BY <1>1, <1>5, <1>6, PlainValues DEF StackSpec, s, Missing, Null
<1>10. UsesSQLAlchemy(doc) <=> plan.database = "PostgreSQL"
  BY <1>5, <1>9 DEF UsesSQLAlchemy
<1>11. QED
  BY <1>7, <1>8, <1>10 DEF Strategy

(* Verifier and target read a plain switch alike.                          *)
LEMMA KeptSwitch ==
  ASSUME NEW S, Placed(S), \A s \in S : Value(s.enabled) \in {"True", "False"}
  PROVE  SectionEnabled(S) = FirstEnabled(S)
<1>1. CASE S = {}
  BY <1>1 DEF SectionEnabled, FirstEnabled
<1>2. CASE S # {}
  <2>1. Value(First(S).enabled) \in {"True", "False"}
    BY <1>2, FirstOfPlaced
  <2>2. QED
    BY <1>2, <2>1 DEF SectionEnabled, FirstEnabled
<1>3. QED
  BY <1>1, <1>2

(* So tenants and audit are kept.                                          *)
LEMMA KeptPlatform ==
  ASSUME NEW plan, NEW doc, Placed(doc.tenant), Placed(doc.audit), PlatformIssues(plan, doc) = {},
         \A s \in doc.tenant \cup doc.audit : Value(s.enabled) \in {"True", "False"}
  PROVE  SectionEnabled(doc.tenant) = plan.tenant /\ SectionEnabled(doc.audit) = plan.audit
<1>1. FirstEnabled(doc.tenant) = plan.tenant /\ FirstEnabled(doc.audit) = plan.audit
  BY Zenon DEF PlatformIssues
<1>2. SectionEnabled(doc.tenant) = FirstEnabled(doc.tenant)
  BY KeptSwitch
<1>3. SectionEnabled(doc.audit) = FirstEnabled(doc.audit)
  BY KeptSwitch
<1>4. QED
  BY <1>1, <1>2, <1>3, Zenon

(* The business rules of the contract are those of the plan.               *)
LEMMA KeptRules ==
  ASSUME NEW plan, Sound(plan), NEW doc, RuleIssues(plan, doc) = {}
  PROVE  RuleKeys({r \in doc.rules : r.rule # Missing}) = RuleKeys(plan.rules)
<1>1. \A r \in plan.rules : r.rule # Missing
  BY DEF Sound, PlannedRule
<1>2. \A x \in doc.rules : x.rule # Missing
  BY <1>1, ConformingRules
<1>3. {r \in doc.rules : r.rule # Missing} = doc.rules
  BY <1>2
<1>4. QED
  BY <1>3 DEF RuleIssues

(* Modifiers and types of a field that keeps all of its tokens.            *)
LEMMA KeptModifiers ==
  ASSUME NEW d \in Seq(Tokens), NEW u, u \in Elements(d), d # <<>>, d[1] # u
  PROVE  u \in Modifiers(d)
<1> DEFINE S == Tokens
<1> HIDE DEF S
<1>1. d \in Seq(S)
  BY DEF S
<1>2. PICK i \in 1..Len(d) : d[i] = u
  BY <1>1 DEF Elements
<1>3. i > 1 /\ i - 1 \in 1..Len(Tail(d)) /\ Tail(d)[i - 1] = d[i]
  BY <1>1, <1>2
<1>4. DOMAIN Tail(d) = 1..Len(Tail(d))
  BY <1>1
<1>5. QED
  BY <1>2, <1>3, <1>4 DEF Modifiers, Elements

(* A unique field says so.                                                 *)
LEMMA UniqueIsToken ==
  ASSUME NEW d \in Seq(Tokens), d # <<>>, Unique(d)
  PROVE  "unique" \in Elements(d)
<1> DEFINE S == Tokens
<1> HIDE DEF S
<1>1. d \in Seq(S) /\ d # <<>>
  BY DEF S
<1>2. PICK i \in 1..Len(Tail(d)) : Tail(d)[i] = "unique"
  BY <1>1 DEF Unique, Modifiers, Elements
<1>3. i + 1 \in 1..Len(d) /\ d[i + 1] = Tail(d)[i]
  BY <1>1, <1>2
<1>4. QED
  BY <1>1, <1>2, <1>3 DEF Elements

(* A field that is written with the type it has, and all it has to say.    *)
KeptField(fields, written, f) ==
  /\ f \in DOMAIN written /\ written[f] \in Seq(Tokens) /\ written[f] # <<>>
  /\ written[f][1] = fields[f][1] /\ written[f][1] # "unique"
  /\ Elements(fields[f]) \subseteq Elements(written[f])

(* The fields of an accepted entity, where types come first.               *)
LEMMA KeptTypes ==
  ASSUME NEW plan, Sound(plan), NEW doc, EntityIssues(plan, doc) = {},
         ModelsOrderly(doc.models), NEW m \in doc.models,
         \A x \in DOMAIN m.fields : m.fields[x][1] \notin {"required", "unique", "primary"},
         NEW e \in Elements(plan.entities), m.name = Schema(e, ""),
         NEW f \in DOMAIN EntityFields[e]
  PROVE  KeptField(EntityFields[e], m.fields, f)
<1>1. e \in DOMAIN EntityFields
  BY ElementsAreKnown
<1>2. FieldIssues(EntityFields[e], m) = {}
  BY ConformingModels
<1>3. /\ f \in DOMAIN m.fields /\ m.fields[f] # <<>>
      /\ Elements(EntityFields[e][f]) \subseteq Elements(m.fields[f])
  BY <1>2, KeptFields
<1>4. TypedLike(m.fields[f], EntityFields[e][f])
  BY <1>1, <1>3 DEF ModelsOrderly
<1>5. /\ m.fields[f] \in Seq(Tokens)
      /\ m.fields[f][1] \in {"required", "unique", "primary", EntityFields[e][f][1]}
  BY <1>3, <1>4, Zenon DEF TypedLike
<1>6. m.fields[f][1] \notin {"required", "unique", "primary"}
  BY <1>3
<1>7. m.fields[f][1] = EntityFields[e][f][1] /\ m.fields[f][1] # "unique"
  BY <1>5, <1>6
<1>8. QED
  BY <1>3, <1>5, <1>7 DEF KeptField

(* A field that is unique is so in the tables, by itself or by tenant.     *)
LEMMA KeptUnique ==
  ASSUME NEW plan, Sound(plan), NEW doc, EntityIssues(plan, doc) = {},
         ModelsOrderly(doc.models), NEW m \in doc.models,
         \A x \in DOMAIN m.fields : m.fields[x][1] \notin {"required", "unique", "primary"},
         NEW e \in Elements(plan.entities), m.name = Schema(e, ""),
         NEW f \in DOMAIN EntityFields[e], Unique(EntityFields[e][f])
  PROVE  \E key \in UniqueKeys(doc, m) : f \in key
<1> DEFINE d == EntityFields[e][f]
           w == m.fields[f]
<1>1. e \in DOMAIN EntityFields
  BY ElementsAreKnown
<1>2. d \in Seq(Tokens) /\ d # <<>>
  BY <1>1, FieldsAreDescribed, DescriptorsAreTyped
<1>3. f # "tenant_id"
  BY <1>1, UnusedNames
<1>4. KeptField(EntityFields[e], m.fields, f)
  BY KeptTypes
<1>5. /\ f \in DOMAIN m.fields /\ w \in Seq(Tokens) /\ w # <<>> /\ w[1] # "unique"
      /\ Elements(d) \subseteq Elements(w)
  BY <1>4 DEF KeptField
<1> HIDE DEF d, w
<1>6. "unique" \in Elements(d)
  BY <1>2, UniqueIsToken DEF d
<1>7. "unique" \in Elements(w)
  BY <1>5, <1>6
<1>8. Unique(w)
  BY <1>5, <1>7, KeptModifiers DEF Unique
<1>9. f \in {x \in DOMAIN m.fields : Unique(m.fields[x])} \ {"tenant_id"}
  BY <1>3, <1>5, <1>8 DEF w
<1>10. f \in {"tenant_id", f} /\ f \in {f}
  OBVIOUS
<1>11. QED
  BY <1>9, <1>10 DEF UniqueKeys

(* No rule of the plan is lost.                                            *)
LEMMA RuleIsKept ==
  ASSUME NEW plan, NEW doc, RuleIssues(plan, doc) = {}, NEW r \in plan.rules
  PROVE  \E x \in doc.rules : x.rule = r.rule /\ x.entity = r.entity
<1>1. <<r.rule, r.entity>> \in RuleKeys(plan.rules)
  BY DEF RuleKeys
<1>2. RuleKeys(plan.rules) \subseteq RuleKeys(doc.rules)
  BY DEF RuleIssues
<1>3. PICK x \in doc.rules : <<r.rule, r.entity>> = <<x.rule, x.entity>>
  BY <1>1, <1>2 DEF RuleKeys
<1>4. QED
  BY <1>3

(* A rule about the fields of its entity alone is enforced on updates.     *)
LEMMA KeptLocalRules ==
  ASSUME NEW plan, Sound(plan), NEW doc, RuleIssues(plan, doc) = {},
         \A r \in doc.rules : r.type = "Invariant",
         NEW m \in doc.models, NEW e, m.name = Schema(e, ""), NEW F, F \subseteq DOMAIN m.fields
  PROVE  \A r \in plan.rules : r.entity = e /\ RootNames(r.rule) \subseteq F =>
           <<r.rule, r.entity>> \in RuleKeys(LocalRules(doc, m))
<1> SUFFICES ASSUME NEW r \in plan.rules, r.entity = e, RootNames(r.rule) \subseteq F
             PROVE  <<r.rule, r.entity>> \in RuleKeys(LocalRules(doc, m))
  OBVIOUS
<1>1. PICK x \in doc.rules : x.rule = r.rule /\ x.entity = r.entity
  BY RuleIsKept
<1>2. x \in LocalRules(doc, m)
  <2>1. RootNames(x.rule) \subseteq
          DOMAIN m.fields \cup IF x.entity \in ScopedEntities(doc) THEN {"tenant_id"} ELSE {}
    BY <1>1
  <2>2. x.type = "Invariant" /\ Schema(x.entity, "") = m.name
    BY <1>1
  <2>3. QED
    BY <2>1, <2>2 DEF LocalRules
<1>3. QED
  BY <1>1, <1>2 DEF RuleKeys

(* What app_contract.json says, part by part.                              *)
LEMMA ContractParts ==
  ASSUME NEW doc
  PROVE  LET contract == AppContract(doc)
         IN  /\ contract.audit_storage = IF UsesSQLAlchemy(doc) THEN "database" ELSE "memory"
             /\ contract.tenant_enabled = SectionEnabled(doc.tenant)
             /\ contract.audit_enabled = SectionEnabled(doc.audit)
             /\ contract.business_rules = {r \in doc.rules : r.rule # Missing}
             /\ contract.entities = EntitySpecs(doc)
BY DEF AppContract

(* The entities of the contract have their types.                          *)
LEMMA KeptEntities ==
  ASSUME NEW plan, Sound(plan), NEW doc, EntityIssues(plan, doc) = {}, ModelsOrderly(doc.models),
         \A m \in doc.models : \A x \in DOMAIN m.fields :
           m.fields[x][1] \notin {"required", "unique", "primary"},
         NEW e \in EntitySpecs(doc), NEW f \in DOMAIN EntityFields[e.name]
  PROVE  e.fields[f][1] = EntityFields[e.name][f][1]
<1>1. PICK m \in doc.models : m.name.form = "" /\ e.name = m.name.of /\ e.fields = m.fields
  <2>1. ASSUME NEW name, NEW fields, NEW scoped,
               e = [name |-> name, fields |-> fields, tenant_scoped |-> scoped]
        PROVE  e.name = name /\ e.fields = fields
    BY <2>1
  <2>2. PICK m \in doc.models :
          /\ m.name.form = ""
          /\ e = [name |-> m.name.of, fields |-> m.fields,
                  tenant_scoped |-> SectionEnabled(doc.tenant) /\ m.name.of \in RouteEntities(doc)]
    BY Zenon DEF EntitySpecs
  <2>3. QED
    BY <2>1, <2>2, Zenon
<1>2. PICK x \in Elements(plan.entities) :
        \E form \in {"", "Create", "Update"} : m.name = Schema(x, form)
  BY ConformingModels
<1>3. m.name = Schema(x, "") /\ m.name.of = x
  <2>1. PICK form : m.name = Schema(x, form)
    BY <1>2
  <2>2. m.name.of = x /\ m.name.form = form
    BY <2>1, SchemaParts
  <2>3. QED
    BY <1>1, <2>1, <2>2
<1>4. f \in DOMAIN EntityFields[x]
  BY <1>1, <1>3
<1>5. \A y \in DOMAIN m.fields : m.fields[y][1] \notin {"required", "unique", "primary"}
  OBVIOUS
<1>6. KeptField(EntityFields[x], m.fields, f)
  BY <1>3, <1>4, <1>5, KeptTypes
<1>7. QED
  BY <1>1, <1>3, <1>6 DEF KeptField

(* Where tenants are, every entity with routes is theirs.                  *)
LEMMA KeptScope ==
  ASSUME NEW plan, Sound(plan), NEW doc, EntityIssues(plan, doc) = {},
         SectionEnabled(doc.tenant) = plan.tenant,
         RouteEntities(doc) = {r.entity : r \in plan.routes}
  PROVE  /\ ScopedEntities(doc) = IF plan.tenant THEN {r.entity : r \in plan.routes} ELSE {}
         /\ RouteEntities(doc) \subseteq Elements(plan.entities)
<1>1. RouteEntities(doc) \subseteq Elements(plan.entities)
  BY DEF Sound
<1>2. \A x \in RouteEntities(doc) : Schema(x, "") \in Models(doc)
  BY <1>1, ConformingModels
<1>3. {x \in RouteEntities(doc) : Schema(x, "") \in Models(doc)} = {r.entity : r \in plan.routes}
  BY <1>2
<1>4. ScopedEntities(doc) = IF plan.tenant THEN {r.entity : r \in plan.routes} ELSE {}
  BY <1>3, Zenon DEF ScopedEntities
<1>5. QED
  BY <1>1, <1>4

(* All of the canon.                                                       *)
LEMMA AcceptedKeeps ==
  ASSUME NEW c, Sound(c.foundation), Orderly(document), Conformance(c, document) = {}, ReadAlike
  PROVE  KeepsCanon(c.foundation)
<1> DEFINE plan == c.foundation
<1>1. Sound(plan)
  OBVIOUS
<1>2. /\ StackIssues(plan, document) = {} /\ PlatformIssues(plan, document) = {}
      /\ EntityIssues(plan, document) = {} /\ RuleIssues(plan, document) = {}
      /\ RouteIssues(plan, document) = {}
  BY ConformingParts
<1>3. /\ Placed(document.stack) /\ Placed(document.tenant) /\ Placed(document.audit)
      /\ RoutesOrderly(document.routes) /\ ModelsOrderly(document.models)
  BY DEF Orderly
<1>4. /\ \A s, t \in document.stack : s = t
      /\ \A s \in document.tenant \cup document.audit : Value(s.enabled) \in {"True", "False"}
      /\ \A r \in document.rules : r.type = "Invariant"
      /\ \A m \in document.models : \A f \in DOMAIN m.fields :
           m.fields[f][1] \notin {"required", "unique", "primary"}
  BY DEF ReadAlike
<1> DEFINE contract == AppContract(document)
           stored == IF plan.database = "PostgreSQL" THEN "sqlalchemy" ELSE "in_memory"
<1> HIDE DEF plan
<1>5. /\ Strategy(document) = stored
      /\ UsesSQLAlchemy(document) <=> plan.database = "PostgreSQL"
  BY <1>1, <1>2, <1>3, <1>4, KeptStack
<1>6. SectionEnabled(document.tenant) = plan.tenant /\ SectionEnabled(document.audit) = plan.audit
  BY <1>2, <1>3, <1>4, KeptPlatform
<1>7. contract.audit_storage = IF stored = "sqlalchemy" THEN "database" ELSE "memory"
  <2>1. contract.audit_storage = IF UsesSQLAlchemy(document) THEN "database" ELSE "memory"
    BY ContractParts
  <2>2. QED
    BY <1>5, <2>1
<1>8. contract.tenant_enabled = plan.tenant /\ contract.audit_enabled = plan.audit
  BY <1>6, ContractParts, Zenon
<1>9. RouteEntities(document) = {r.entity : r \in plan.routes}
  BY <1>1, <1>2, <1>3, ConformingEntities
<1>10. /\ ScopedEntities(document) = IF plan.tenant THEN {r.entity : r \in plan.routes} ELSE {}
       /\ RouteEntities(document) \subseteq Elements(plan.entities)
  BY <1>1, <1>2, <1>6, <1>9, KeptScope
<1>11. RuleKeys(contract.business_rules) = RuleKeys(plan.rules)
  <2>1. contract.business_rules = {r \in document.rules : r.rule # Missing}
    BY ContractParts
  <2>2. QED
    BY <1>1, <1>2, <2>1, KeptRules
<1>12. \A e \in contract.entities : \A f \in DOMAIN EntityFields[e.name] :
         e.fields[f][1] = EntityFields[e.name][f][1]
  <2>1. contract.entities = EntitySpecs(document)
    BY ContractParts
  <2>2. QED
    BY <1>1, <1>2, <1>3, <1>4, <2>1, KeptEntities
<1>13. ASSUME NEW m \in document.models, NEW e \in RouteEntities(document), m.name = Schema(e, "")
       PROVE  LET fields == EntityFields[e]
              IN  /\ \A f \in {x \in DOMAIN fields : Unique(fields[x])} :
                       \E key \in UniqueKeys(document, m) : f \in key
                  /\ {<<r.rule, r.entity>> : r \in {x \in plan.rules : x.entity = e
                                                     /\ RootNames(x.rule) \subseteq DOMAIN fields}}
                       \subseteq RuleKeys(LocalRules(document, m))
  <2>1. e \in Elements(plan.entities)
    BY <1>10
  <2>2. DOMAIN EntityFields[e] \subseteq DOMAIN m.fields
    BY <1>1, <1>2, <1>3, <1>4, <1>13, <2>1, KeptTypes DEF KeptField
  <2>3. \A f \in {x \in DOMAIN EntityFields[e] : Unique(EntityFields[e][x])} :
          \E key \in UniqueKeys(document, m) : f \in key
    BY <1>1, <1>2, <1>3, <1>4, <1>13, <2>1, KeptUnique
  <2>4. {<<r.rule, r.entity>> : r \in {x \in plan.rules : x.entity = e
                                        /\ RootNames(x.rule) \subseteq DOMAIN EntityFields[e]}}
          \subseteq RuleKeys(LocalRules(document, m))
    <3>1. \A r \in plan.rules : r.entity = e /\ RootNames(r.rule) \subseteq DOMAIN EntityFields[e] =>
            <<r.rule, r.entity>> \in RuleKeys(LocalRules(document, m))
      BY <1>1, <1>2, <1>4, <1>13, <2>2, KeptLocalRules
    <3>2. QED
      BY <3>1
  <2>5. QED
    BY <2>3, <2>4
<1>14. \A m \in {x \in document.models : x.name \in {Schema(e, "") : e \in RouteEntities(document)}} :
         LET e == m.name.of
             fields == EntityFields[e]
         IN  /\ \A f \in {x \in DOMAIN fields : Unique(fields[x])} :
                  \E key \in UniqueKeys(document, m) : f \in key
             /\ {<<r.rule, r.entity>> : r \in {x \in plan.rules : x.entity = e
                                                /\ RootNames(x.rule) \subseteq DOMAIN fields}}
                  \subseteq RuleKeys(LocalRules(document, m))
  <2> SUFFICES ASSUME NEW m \in document.models, NEW e \in RouteEntities(document),
                        m.name = Schema(e, "")
               PROVE  LET y == m.name.of
                            fields == EntityFields[y]
                        IN  /\ \A f \in {x \in DOMAIN fields : Unique(fields[x])} :
                                 \E key \in UniqueKeys(document, m) : f \in key
                            /\ {<<r.rule, r.entity>> : r \in {x \in plan.rules : x.entity = y
                                                               /\ RootNames(x.rule) \subseteq DOMAIN fields}}
                                 \subseteq RuleKeys(LocalRules(document, m))
    BY Zenon
  <2>1. ASSUME NEW s, s = Schema(e, "") PROVE s.of = e
    BY <2>1, SchemaParts
  <2>2. m.name.of = e
    BY <2>1, Zenon
  <2>3. QED
    BY <1>13, <2>2, Zenon
<1> HIDE DEF contract, stored
<1>15. QED
  BY <1>5, <1>7, <1>8, <1>9, <1>10, <1>11, <1>12, <1>14, Zenon DEF KeepsCanon, contract, stored, plan

(* What the verifier accepted, and what it was drafted from.               *)
DraftInv ==
  /\ at \in {"drafted", "accepted", "failed late", "synthesised"} =>
       ~blocked /\ document \in Deviations(Rendered[prompt])
  /\ at \in {"accepted", "failed late", "synthesised"} =>
       Parses(document) /\ Conformance(context, document) = {}
  /\ at = "built" => Conformance(context, document) = {}

(* The stages keep it so.                                                  *)
LEMMA DraftHolds == Spec => []DraftInv
<1>1. Init => DraftInv
  BY DEF Init, DraftInv
<1>2. WayInv /\ DraftInv /\ [Next]_vars => DraftInv'
  <2> SUFFICES ASSUME WayInv, DraftInv, [Next]_vars PROVE DraftInv'
    OBVIOUS
  <2> USE DEF DraftInv, context, blocked
  <2>1. CASE Collapse
    BY <2>1 DEF Collapse
  <2>2. CASE BuildBlocked
    BY <2>2 DEF BuildBlocked
  <2>3. ASSUME NEW partial \in BOOLEAN, Build(partial) PROVE DraftInv'
    BY <2>3 DEF Build, WayInv
  <2>4. CASE Draft
    BY <2>4 DEF Draft
  <2>5. CASE Judge
    BY <2>5 DEF Judge
  <2>6. CASE Compile
    BY <2>6 DEF Compile
  <2>7. CASE Done \/ UNCHANGED vars
    BY <2>7 DEF Done, vars
  <2>8. QED
    BY <2>1, <2>2, <2>3, <2>4, <2>5, <2>6, <2>7 DEF Next
<1>3. QED
  BY <1>1, <1>2, WayHolds, PTL DEF Spec

(* What holds of the document of an accepted candidate.                    *)
LEMMA AcceptedAreOrderly ==
  ASSUME WayInv, DraftInv, at \in {"built", "failed late", "synthesised"}
  PROVE  /\ Sound(context.foundation) /\ Orderly(document)
         /\ Conformance(context, document) = {}
         /\ at # "built" => Parses(document) /\ IntegrityIssues(context.foundation) = {}
<1>1. context = ContextOf(prompt) /\ Rendered[prompt] = OfflineDocument(context)
  BY OfTheTables DEF WayInv
<1>2. Sound(context.foundation) /\ context.issues = IntegrityIssues(context.foundation)
  BY <1>1, ContextIsSound
<1>3. Rendered[prompt] = Render(context.foundation, context.architecture.pattern)
  BY <1>1 DEF OfflineDocument
<1>4. CASE at = "built"
  <2>1. document = Rendered[prompt] /\ Conformance(context, document) = {}
    BY <1>4 DEF WayInv, DraftInv
  <2>2. Orderly(document)
    BY <1>2, <1>3, <2>1, RenderedIsOrderly
  <2>3. QED
    BY <1>2, <1>4, <2>1, <2>2
<1>5. CASE at # "built"
  <2>1. /\ ~blocked /\ document \in Deviations(Rendered[prompt])
        /\ Parses(document) /\ Conformance(context, document) = {}
    BY <1>5 DEF DraftInv
  <2>2. Orderly(document)
    BY <1>2, <1>3, <2>1, DeviationsAreOrderly
  <2>3. context.issues = {}
    BY <2>1 DEF blocked, BlockingReasons
  <2>4. QED
    BY <1>2, <2>1, <2>2, <2>3
<1>6. QED
  BY <1>4, <1>5

(* For any prompt and any drafted deviation: the compiler refuses what     *)
(* verify_conformance accepted only for an unknown section, the type or the*)
(* modifiers of a field (SEM002, TGT202, TGT203, or what ruff objects to), *)
(* an Update schema nobody wrote (SEM104) or the way a rule is reported:   *)
(* never for another schema (SEM105, LOG201, TGT201), a relationship       *)
(* (SEM201) or what a rule says and of what (SEM202, 203, 206, 207).       *)
THEOREM LateRefusalsAlways == Spec => []LateRefusals
<1>1. WayInv /\ DraftInv => LateRefusals
  <2> SUFFICES ASSUME WayInv, DraftInv, at = "failed late"
               PROVE  refusals \subseteq LateCodes
    BY DEF LateRefusals
  <2>1. \E ruff \in BOOLEAN : refusals = Refusals(document, ruff)
    BY DEF WayInv
  <2>2. QED
    BY <2>1, AcceptedAreOrderly, AcceptedRefusals
<1>2. QED
  BY <1>1, WayHolds, DraftHolds, PTL

(* For any prompt, offline or drafted: where verifier and target read the  *)
(* document alike, the application has the database, tenants, audit,       *)
(* entities, types and rules of the canonical context, unique what is to be*)
(* unique, and the rules of one entity enforced on its updates.            *)
THEOREM Keeps == Spec => []AcceptedKeepsCanon
<1>1. WayInv /\ DraftInv => AcceptedKeepsCanon
  BY AcceptedAreOrderly, AcceptedKeeps DEF AcceptedKeepsCanon
<1>2. QED
  BY <1>1, WayHolds, DraftHolds, PTL
=============================================================================
