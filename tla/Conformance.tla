---------------------------- MODULE Conformance ----------------------------
(***************************************************************************)
(* The canonical semantic context of a build and the verifier that holds a *)
(* candidate document against it (product/semantic_context.py), with       *)
(* FoundationSMLRenderer (foundation/renderer.py), which writes the        *)
(* document of the offline build from the same plan.                       *)
(*                                                                         *)
(* Names that differ only in case, spaces or punctuation are one name: the *)
(* verifier reads every name and value through _norm or _norm_name.        *)
(***************************************************************************)
EXTENDS Architecture

(* render *)
ArchitectureConstraint(pattern) ==
  IF pattern = "layered_modular_monolith" THEN "layered" ELSE pattern

ModelSection(schema, fields) ==
  [name |-> schema, mapping |-> TRUE, fields |-> fields]

(* _entity_sections *)
EntitySections(e) ==
  {ModelSection(Schema(e, ""), EntityFields[e]),
   ModelSection(Schema(e, "Create"), CreateFields(e))}

(* Faulty variant: another word for the same.                              *)
PlatformSectionYes(enabled) ==
  IF enabled THEN {[at |-> 1, enabled |-> "yes"]} ELSE {}

PlatformSection(enabled) ==
  IF enabled THEN {[at |-> 1, enabled |-> "true"]} ELSE {}

RuleSection(r) ==
  [type |-> IF r.on = "reject" THEN "Invariant" ELSE "BusinessRule",
   name |-> r.name, entity |-> r.entity, rule |-> r.rule, on |-> r.on,
   severity |-> FALSE]

RouteSection(r) ==
  [at |-> 1, name |-> r.verb \o r.entity, method |-> r.method,
   entity |-> r.entity, item |-> r.item, auth |-> r.auth,
   body |-> r.body, returns |-> r.returns]

Render(plan, pattern) ==
  [description |-> plan.description,
   stack |-> {[at |-> 1, backend |-> "FastAPI", database |-> plan.database,
               auth |-> plan.auth]},
   tenant |-> PlatformSection(plan.tenant),
   audit |-> PlatformSection(plan.audit),
   capabilities |-> plan.packs \cup plan.capabilities,
   roles |-> {[name |-> r, permissions |-> PermissionsOf(r)] : r \in plan.roles},
   models |-> UNION {EntitySections(e) : e \in Elements(plan.entities)},
   relationships |->
     {[name |-> r.source \o r.target, source |-> r.source, target |-> r.target,
       cardinality |-> r.cardinality, required |-> r.required] :
        r \in plan.relationships},
   workflows |->
     {[at |-> 1, name |-> w.name, entity |-> w.entity, states |-> w.states,
       transitions |-> w.transitions, actions |-> w.actions] :
        w \in plan.workflows},
   rules |-> {RuleSection(r) : r \in plan.rules},
   routes |-> {RouteSection(r) : r \in plan.routes},
   reports |-> plan.reports,
   policies |-> {[at |-> 1, name |-> "ErrorHandling", broad_catch |-> "forbidden"]},
   constraints |->
     {[at |-> 1, name |-> "Architecture", pattern |-> Missing,
       architecture |-> ArchitectureConstraint(pattern), avoid_broad |-> FALSE]},
   unknown |-> {},
   syntax |-> {}]

-----------------------------------------------------------------------------
(* Faulty variant: the rules are not looked at.                            *)
IntegrityIssuesNoRules(plan) ==
  LET Undeclared(names) == ~(names \subseteq Elements(plan.entities))
  IN  {<<"relationship", r.source>> :
         r \in {x \in plan.relationships : Undeclared({x.source, x.target})}}
      \cup {<<"workflow", w.name>> :
              w \in {x \in plan.workflows : Undeclared({x.entity})}}

(* _context_integrity_issues: what the plan refers to and does not have.   *)
IntegrityIssues(plan) ==
  LET Undeclared(names) == ~(names \subseteq Elements(plan.entities))
  IN  {<<"relationship", r.source>> :
         r \in {x \in plan.relationships : Undeclared({x.source, x.target})}}
      \cup {<<"workflow", w.name>> :
              w \in {x \in plan.workflows : Undeclared({x.entity})}}
      \cup {<<"rule", r.name>> : r \in {x \in plan.rules : Undeclared({x.entity})}}

ProtectedSemantics(plan) ==
  {<<"stack", plan.database, plan.auth>>,
   <<"platform", plan.tenant, plan.audit>>,
   <<"entities", Elements(plan.entities)>>,
   <<"workflows", {w.name : w \in plan.workflows}>>,
   <<"rules", {r.name : r \in plan.rules}>>,
   <<"routes", {<<r.method, r.entity, r.item>> : r \in plan.routes}>>}

UnresolvedSemantics(requirements, plan, negotiation) ==
  {a.topic : a \in requirements.ambiguities}
  \cup {c[1] : c \in requirements.contradictions}
  \cup plan.questions \cup negotiation.unsupported

(* build_canonical_semantic_context *)
CanonicalContext(requirements, plan, architecture, capabilities, negotiation) ==
  [requirements |-> requirements, foundation |-> plan,
   architecture |-> architecture, capabilities |-> capabilities,
   negotiation |-> negotiation,
   protected |-> ProtectedSemantics(plan),
   unresolved |-> UnresolvedSemantics(requirements, plan, negotiation),
   issues |-> IntegrityIssues(plan)]

(* What canonical_context_prompt tells an online model to write down       *)
(* literally, whatever else it writes.                                     *)
MandatoryEnvelope(context) ==
  [capabilities |-> IF context.foundation.packs = {} THEN {"generic_crud"}
                    ELSE context.foundation.packs,
   policy |-> "ErrorHandling", broad_catch |-> "forbidden",
   architecture |-> ArchitectureConstraint(context.architecture.pattern)]

-----------------------------------------------------------------------------
(* Whether a scalar of the document is the text the context has.           *)
SameText(written, expected) == HasValue(written) /\ Value(written) = expected

(* Faulty variant: the database may be any.                                *)
StackIssuesAnyDatabase(plan, doc) ==
  IF doc.stack = {} THEN {"SCV001"} ELSE
  LET s == First(doc.stack)
  IN  {c \in {"SCV002"} : ~(/\ SameText(s.backend, "FastAPI")
                            /\ SameText(s.auth, plan.auth))}

(* _verify_stack: the first #Stack.                                        *)
StackIssues(plan, doc) ==
  IF doc.stack = {} THEN {"SCV001"} ELSE
  LET s == First(doc.stack)
  IN  {c \in {"SCV002"} : ~(/\ SameText(s.backend, "FastAPI")
                            /\ SameText(s.database, plan.database)
                            /\ SameText(s.auth, plan.auth))}

(* _verify_platform_primitives: the first section, and the boolean true.   *)
FirstEnabled(sections) ==
  sections # {} /\ Value(First(sections).enabled) = "True"

PlatformIssues(plan, doc) ==
  {c \in {"SCV010"} : FirstEnabled(doc.tenant) # plan.tenant}
  \cup {c \in {"SCV011"} : FirstEnabled(doc.audit) # plan.audit}

(* _verify_capabilities: the packs; a document without any capability is   *)
(* taken for generic_crud.                                                 *)
CapabilityIssues(plan, doc) ==
  {c \in {"SCV020"} :
     /\ ~(plan.packs \subseteq doc.capabilities)
     /\ ~(doc.capabilities = {} /\ plan.packs = {"generic_crud"})}

(* _verify_fields: descriptors may say more, never less, in any order.     *)
FieldIssues(expected, model) ==
  IF ~model.mapping THEN {"SCV033"} ELSE
  LET written == {f \in DOMAIN model.fields : model.fields[f] # <<>>}
  IN  {c \in {"SCV034"} : ~(DOMAIN expected \subseteq written)}
      \cup {c \in {"SCV035"} : \E f \in DOMAIN expected \cap written :
                                 ~(Elements(expected[f]) \subseteq Elements(model.fields[f]))}

(* _verify_entities *)
ModelIssues(doc, schema, expected, missing) ==
  IF schema \notin Models(doc) THEN {missing}
  ELSE UNION {FieldIssues(expected, m) : m \in {x \in doc.models : x.name = schema}}

CanonicalModels(plan) ==
  UNION {{Schema(e, form) : form \in {"", "Create", "Update"}} :
           e \in Elements(plan.entities)}

EntityIssues(plan, doc) ==
  (UNION {ModelIssues(doc, Schema(e, ""), EntityFields[e], "SCV030")
           \cup ModelIssues(doc, Schema(e, "Create"), CreateFields(e), "SCV031") :
           e \in Elements(plan.entities)})
  \cup {c \in {"SCV032"} : ~(Models(doc) \subseteq CanonicalModels(plan))}

(* _verify_relationships: in both directions; any value of "required" that *)
(* is not empty or false counts as true.                                   *)
SameRelationship(r, written) ==
  /\ written.source = r.source
  /\ written.target = r.target
  /\ written.cardinality = r.cardinality

RelationshipIssues(plan, doc) ==
  {c \in {"SCV040", "SCV041"} :
     \E r \in plan.relationships :
       LET matches == {w \in doc.relationships : SameRelationship(r, w)}
       IN  IF c = "SCV040" THEN matches = {}
           ELSE \E w \in matches : ~HasValue(w.required)}
  \cup {c \in {"SCV042"} : \E w \in doc.relationships :
          \A r \in plan.relationships : ~SameRelationship(r, w)}

(* _verify_roles: only what the text itself calls for.                     *)
ExplicitRoles(requirements, plan) ==
  {r \in plan.roles :
     \E i \in requirements.items :
       i.kind = "actor" /\ i.name = r /\ i.origin = "explicit"}

RoleIssues(requirements, plan, doc) ==
  {c \in {"SCV050"} :
     ~(ExplicitRoles(requirements, plan) \subseteq {r.name : r \in doc.roles})}

(* _verify_workflows: the first workflow of the entity has at least the    *)
(* canonical states, transitions and actions; the others are not looked at.*)
WorkflowIssues(plan, doc) ==
  {c \in {"SCV060", "SCV061"} :
     \E w \in plan.workflows :
       LET of == {x \in doc.workflows : x.entity = w.entity}
       IN  IF c = "SCV060" THEN of = {}
           ELSE /\ of # {}
                /\ LET x == First(of)
                   IN  ~(/\ w.states \subseteq x.states
                         /\ w.transitions \subseteq x.transitions
                         /\ w.actions \subseteq x.actions)}

(* _verify_business_rules: the same rules of the same entities, under any  *)
(* name and in either kind of section.                                     *)
RuleKeys(rules) == {<<r.rule, r.entity>> : r \in rules}

RuleIssues(plan, doc) ==
  {c \in {"SCV070"} : ~(RuleKeys(plan.rules) \subseteq RuleKeys(doc.rules))}
  \cup {c \in {"SCV071"} : ~(RuleKeys(doc.rules) \subseteq RuleKeys(plan.rules))}

(* _verify_routes *)
RouteKey(r) == <<r.method, r.entity, r.item>>

SameAuth(written, expected) ==
  Value(IF written = Missing THEN "required" ELSE written) = expected

(* Faulty variant: a body is only compared when there is to be none.       *)
SameBodyLoose(route, written) == route.body = NoSchema => written = NoSchema

SameBody(route, written) ==
  \/ written = route.body
  \/ /\ route.method \in {"PATCH", "PUT"}
     /\ route.body # NoSchema
     /\ written = Schema(route.body.of, "Update")

RouteIssues(plan, doc) ==
  {c \in {"SCV080", "SCV081", "SCV082", "SCV083"} :
     \E r \in plan.routes :
       LET same == {x \in doc.routes : RouteKey(x) = RouteKey(r)}
       IN  IF c = "SCV080" THEN same = {}
           ELSE /\ same # {}
                /\ CASE c = "SCV081" -> ~SameAuth(First(same).auth, r.auth)
                     [] c = "SCV082" -> ~SameBody(r, First(same).body)
                     [] c = "SCV083" -> First(same).returns # r.returns}
  \cup {c \in {"SCV084"} :
          \E x \in doc.routes : \A r \in plan.routes : RouteKey(x) # RouteKey(r)}

(* _verify_reports *)
ReportIssues(plan, doc) ==
  {c \in {"SCV090"} : ~(plan.reports \subseteq doc.reports)}

(* _verify_required_scaffolding: "pattern" is read when "architecture" is  *)
(* missing or null, and "layered" is another word for the one pattern.     *)
Layered(written) ==
  IF Value(written) = "layered" THEN "layered_modular_monolith" ELSE Value(written)

ArchitectureWritten(c) ==
  IF Value(c.architecture) \in {Missing, Null} THEN c.pattern ELSE c.architecture

ScaffoldingIssues(architecture, doc) ==
  LET policies == {p \in doc.policies : p.name = "ErrorHandling"}
      constraints == {c \in doc.constraints : c.name = "Architecture"}
  IN  (IF policies = {} THEN {"SCV100"}
       ELSE {c \in {"SCV102"} : Value(First(policies).broad_catch) # "forbidden"})
      \cup
      (IF constraints = {} THEN {"SCV101"}
       ELSE {c \in {"SCV103"} :
               Layered(ArchitectureWritten(First(constraints)))
                 # Layered(architecture.pattern)})

(* verify: every diagnostic is an error.                                   *)
Conformance(context, doc) ==
  LET plan == context.foundation
  IN  StackIssues(plan, doc) \cup PlatformIssues(plan, doc)
      \cup CapabilityIssues(plan, doc) \cup EntityIssues(plan, doc)
      \cup RelationshipIssues(plan, doc)
      \cup RoleIssues(context.requirements, plan, doc)
      \cup WorkflowIssues(plan, doc) \cup RuleIssues(plan, doc)
      \cup RouteIssues(plan, doc) \cup ReportIssues(plan, doc)
      \cup ScaffoldingIssues(context.architecture, doc)

Conforms(context, doc) == Conformance(context, doc) = {}
=============================================================================
