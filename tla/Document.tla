------------------------------ MODULE Document ------------------------------
(***************************************************************************)
(* An SML document, from the text to the facts of the logic engine:        *)
(* SMLParser (frontend/parser.py), parse_fields (semantic/field_parser.py) *)
(* and SemanticAnalyzer (semantic/analyzer.py).                            *)
(*                                                                         *)
(* A document is a record with one set of sections per section type.  "at" *)
(* is a section's place among those of its type, where the code looks for  *)
(* the first.  Of a text that is no document only the code of the syntax   *)
(* error counts.                                                           *)
(***************************************************************************)
EXTENDS Naturals, FiniteSets, Sequences

(* A scalar as it is written; "missing" when its key is not there.         *)
Missing == "missing"
Null == "null"

(* _parse_scalar: true and false become booleans, null and none no value,  *)
(* and whatever is quoted a string.                                        *)
Value(written) ==
  CASE written \in {"true", "True"} -> "True"
    [] written \in {"false", "False"} -> "False"
    [] written \in {"none", "None", "null"} -> Null
    [] written = "'true'" -> "true"
    [] written = "'false'" -> "false"
    [] OTHER -> written

HasValue(written) == Value(written) \notin {Missing, Null, "", "False"}

SyntaxErrors ==
  {"SML001", "SML002", "SML003", "SML004", "SML005", "SML006", "SML007",
   "SML008", "SML009", "SML010"}

(* parse_text, _parse_body and _parse_nested stop at the first error.      *)
Parses(doc) == doc.syntax \cap SyntaxErrors = {}

First(sections) == CHOOSE s \in sections : \A t \in sections : s.at <= t.at

-----------------------------------------------------------------------------
(* Schemas: what they are of, and "", "Create", "Update" or "[]".          *)
NoSchema == [of |-> "none", form |-> ""]
Schema(e, form) == [of |-> e, form |-> form]

(* normalize_schema_name                                                   *)
Normalized(schema) == IF schema.form = "[]" THEN Schema(schema.of, "") ELSE schema
SchemaName(schema) == Normalized(schema).of \o Normalized(schema).form

(* is_primitive_type; "none" is one of them.                               *)
Primitive(schema) ==
  schema.form \in {"", "[]"} /\ schema.of \in
    {"string", "text", "int", "float", "bool", "uuid", "datetime", "date",
     "dict", "object", "none"}

(* parse_fields: a descriptor is a sequence of tokens, the first its type, *)
(* the others its modifiers, whatever they are; max= wants a number.       *)
Elements(s) == {s[i] : i \in DOMAIN s}
Modifiers(descriptor) == Elements(Tail(descriptor))

FieldsParse(model) ==
  \A f \in DOMAIN model.fields :
    /\ model.fields[f] # <<>>
    /\ "max=many" \notin Modifiers(model.fields[f])

Unique(descriptor) == "unique" \in Modifiers(descriptor)
PrimaryKey(descriptor) == "primary" \in Modifiers(descriptor)

(* Rule texts that ast.parse refuses, and those with calls or other nodes  *)
(* outside of the restricted expressions.                                  *)
InvalidRules == {"quantity >="}
UnsupportedRules == {"len(name) > 0"}

-----------------------------------------------------------------------------
Models(doc) == {m.name : m \in doc.models}

Declared(doc, schema) == Normalized(schema) \in Models(doc)

RouteDiagnostics(doc) ==
  {d \in {"SEM104", "SEM105"} :
     \E r \in doc.routes :
       LET schema == IF d = "SEM104" THEN r.body ELSE r.returns
       IN  ~Primitive(schema) /\ ~Declared(doc, schema)}

RelationshipDiagnostics(doc) ==
  {d \in {"SEM201"} :
     \E r \in doc.relationships, end \in {"source", "target"} :
       r[end] # Missing /\ Schema(r[end], "") \notin Models(doc)}

(* A #BusinessRule or #Invariant is judged when it has a rule.             *)
RuleDiagnostics(doc) ==
  {d \in {"SEM202", "SEM203", "SEM204", "SEM205", "SEM206", "SEM207"} :
     \E r \in doc.rules :
       /\ r.rule # Missing
       /\ CASE d = "SEM202" -> r.entity = Missing
            [] d = "SEM203" ->
                 r.entity # Missing /\ Schema(r.entity, "") \notin Models(doc)
            [] d = "SEM204" -> r.severity /\ r.on = Missing
            [] d = "SEM205" -> r.on \notin {Missing, "reject"}
            [] d = "SEM206" -> r.rule \in InvalidRules
            [] d = "SEM207" -> r.rule \in UnsupportedRules}

(* analyze: what keeps a document from becoming a graph.                   *)
Diagnostics(doc) ==
  {d \in {"SEM001"} : doc.unknown # {}}
  \cup {d \in {"SEM002"} : \E m \in doc.models : ~FieldsParse(m)}
  \cup RouteDiagnostics(doc)
  \cup RelationshipDiagnostics(doc)
  \cup RuleDiagnostics(doc)

-----------------------------------------------------------------------------
(* _symbol: title case, and nothing but letters, digits and underscores.   *)
Symbol(written) ==
  CASE written = "PostgreSQL" -> "Postgresql"
    [] written = "InMemory" -> "Inmemory"
    [] written = "SQLite" -> "Sqlite"
    [] written = "JWT" -> "Jwt"
    [] written = Null -> "None"
    [] OTHER -> written

Fact1(predicate, x) == <<predicate, x>>
Fact2(predicate, x, y) == <<predicate, x, y>>

(* A key that is there makes a fact, even when it says null: None.         *)
Given(written) == {Value(w) : w \in {written} \ {Missing, ""}}

StackFacts(doc) ==
  UNION {
    {IF b = "FastAPI" THEN Fact1("Target", "PythonFastAPI") ELSE Fact1("Target", b) :
       b \in Given(s.backend)}
    \cup {Fact1("Database", Symbol(d)) : d \in Given(s.database)}
    \cup {Fact1("AuthStrategy", Symbol(a)) : a \in Given(s.auth)} :
    s \in doc.stack}

ModelFacts(doc) ==
  UNION {
    LET name == SchemaName(m.name)
    IN  {Fact1("Model", name), Fact1("Artifact", "Schema:" \o name)}
        \cup {Fact2("Field", name, f) : f \in DOMAIN m.fields}
        \cup {Fact2("Unique", name, f) :
                f \in {x \in DOMAIN m.fields : Unique(m.fields[x])}}
        \cup {Fact2("PrimaryKey", name, f) :
                f \in {x \in DOMAIN m.fields : PrimaryKey(m.fields[x])}} :
    m \in doc.models}

AuthWords == {"required", "admin", "user", "authenticated", "true", "True"}

NeedsAuth(route) == Value(route.auth) \in AuthWords

RouteFacts(doc) ==
  UNION {
    {Fact1("Route", r.name), Fact2("Method", r.name, r.method)}
    \cup {f \in {Fact1("AuthRequired", r.name)} : NeedsAuth(r)}
    \cup {Fact2("Body", r.name, SchemaName(s)) : s \in {r.body} \ {NoSchema}}
    \cup {Fact2("Returns", r.name, SchemaName(s)) : s \in {r.returns} \ {NoSchema}} :
    r \in doc.routes}

ForbidsBroadCatch(policy) ==
  \/ Value(policy.broad_catch) \in {"forbidden", "deny", "False", "false", "no"}
  \/ policy.name = "ErrorHandling"

PolicyFacts(doc) ==
  {Fact1("Policy", p.name) : p \in doc.policies}
  \cup {f \in {Fact1("Policy", "ForbidBroadCatch")} :
          \/ \E p \in doc.policies : ForbidsBroadCatch(p)
          \/ \E c \in doc.constraints : c.avoid_broad}
  \cup {f \in {Fact1("Policy", "LayeredArchitecture")} :
          \E c \in doc.constraints :
            c.architecture \in {"layered", "router_service_repository", "clean"}}

(* A Tenant or an Audit section counts when it says so.                    *)
Affirmed(sections) ==
  \E s \in sections : Value(s.enabled) \in {"True", "true", "yes", "1"}

FoundationFacts(doc) ==
  {Fact1("Capability", c) : c \in doc.capabilities}
  \cup (UNION {{Fact1("Role", r.name)}
                \cup {Fact2("Permission", r.name, p) : p \in r.permissions} :
                r \in doc.roles})
  \cup (UNION {{Fact1("Relationship", r.name),
               Fact2("RelationshipSource", r.name, r.source),
               Fact2("RelationshipTarget", r.name, r.target),
               Fact2("Cardinality", r.name, r.cardinality)} :
                r \in doc.relationships})
  \cup (UNION {{Fact1("Workflow", w.name), Fact2("WorkflowEntity", w.name, w.entity)}
                \cup {Fact2("WorkflowAction", w.name, a) : a \in w.actions} :
                w \in doc.workflows})
  \cup (UNION {{Fact1(r.type, r.name)}
                \cup {Fact2(r.type \o "Entity", r.name, e) :
                        e \in {r.entity} \ {Missing}} : r \in doc.rules})
  \cup {Fact1("Report", r) : r \in doc.reports}
  \cup {f \in {Fact1("SaaSPrimitive", "TenantIsolation")} : Affirmed(doc.tenant)}
  \cup {f \in {Fact1("SaaSPrimitive", "AuditLog")} : Affirmed(doc.audit)}

(* _facts_for_node, of every node.                                         *)
FactsOf(doc) ==
  {Fact1("Project", "App")} \cup StackFacts(doc) \cup ModelFacts(doc) \cup RouteFacts(doc)
  \cup PolicyFacts(doc) \cup FoundationFacts(doc)

(* The nodes of the graph, by type and name.                               *)
NodesOf(doc) ==
  {<<"Project", "App">>, <<"Decision", "ArchitecturePattern">>}
  \cup {<<"Stack", "Stack">> : s \in doc.stack}
  \cup {<<"Tenant", "Tenant">> : s \in doc.tenant}
  \cup {<<"Audit", "Audit">> : s \in doc.audit}
  \cup {<<"Capability", c>> : c \in doc.capabilities}
  \cup {<<"Role", r.name>> : r \in doc.roles}
  \cup {<<"DataModel", SchemaName(m.name)>> : m \in doc.models}
  \cup {<<"Relationship", r.name>> : r \in doc.relationships}
  \cup {<<"Workflow", w.name>> : w \in doc.workflows}
  \cup {<<r.type, r.name>> : r \in doc.rules}
  \cup {<<"Route", r.name>> : r \in doc.routes}
  \cup {<<"Report", r>> : r \in doc.reports}
  \cup {<<"Policy", p.name>> : p \in doc.policies}
  \cup {<<"Constraint", c.name>> : c \in doc.constraints}
=============================================================================
