------------------------------- MODULE Target -------------------------------
(***************************************************************************)
(* PythonFastAPITarget.generate (backends/python_fastapi/target.py) and    *)
(* the platform files beside it (backends/python_fastapi/platform.py): the *)
(* tree of files a document becomes, and what the app contract among them  *)
(* says of the application.  The text of the files is left out: a file is  *)
(* its path.                                                               *)
(*                                                                         *)
(* compile_text (pipeline.py) in the form its users see: what it refuses,  *)
(* and otherwise the tree.  The resolver behind Strategy is modelled step  *)
(* by step in LatentResolver.                                              *)
(***************************************************************************)
EXTENDS Conformance

(* What the parser makes of "none" is no schema at all.                    *)
GivenSchemas(doc) ==
  ({Normalized(r.body) : r \in doc.routes}
     \cup {Normalized(r.returns) : r \in doc.routes}) \ {NoSchema}

(* check_required_artifacts: LOG201 for a schema no model defines.         *)
UndefinedSchemas(doc) == GivenSchemas(doc) \ Models(doc)

(* _repo_strategy: the candidate the resolver selected; in memory wins     *)
(* unless a Database fact of the document forbids it.                      *)
Strategy(doc) ==
  IF Fact1("Database", "Postgresql") \in FactsOf(doc) THEN "sqlalchemy" ELSE "in_memory"

(* _section_enabled: of the first section, and a section that does not say *)
(* is enabled.                                                             *)
SectionEnabled(sections) ==
  /\ sections # {}
  /\ Value(First(sections).enabled) \notin {"False", "false", "0", "no", "off"}

(* _infer_entity, and _route_entity of the platform: the schema a route    *)
(* returns or takes, without Create and Update; failing both, its path.    *)
EntityOf(route) ==
  IF route.returns # NoSchema THEN route.returns.of
  ELSE IF route.body # NoSchema THEN route.body.of
  ELSE route.entity

(* _route_plan *)
RoutePlan(route) ==
  [name |-> route.name, method |-> route.method,
   auth_required |-> Value(route.auth) \in AuthWords,
   body |-> Normalized(route.body), returns |-> Normalized(route.returns),
   returns_list |-> route.returns.form = "[]",
   entity |-> EntityOf(route)]

RoutePlans(doc) == {RoutePlan(r) : r \in doc.routes}
RouteEntities(doc) == {r.entity : r \in RoutePlans(doc)}

(* Faulty variant: only entities that are created by a route.              *)
UncreatableByRoute(doc) ==
  {e \in {r.entity : r \in {x \in RoutePlans(doc) : x.method = "POST"}} :
     Schema(e, "") \in Models(doc) /\ Schema(e, "Create") \notin Models(doc)}

(* _validate_route_entity_input_schemas: TGT201.                           *)
UncreatableEntities(doc) ==
  {e \in RouteEntities(doc) :
     Schema(e, "") \in Models(doc) /\ Schema(e, "Create") \notin Models(doc)}

(* _with_tenant_scoped_entities *)
ScopedEntities(doc) ==
  IF ~SectionEnabled(doc.tenant) THEN {}
  ELSE {e \in RouteEntities(doc) : Schema(e, "") \in Models(doc)}

-----------------------------------------------------------------------------
(* A table column is unique by itself, or together with the tenant.        *)
UniqueKeys(doc, m) ==
  LET scoped == \/ m.name.of \in ScopedEntities(doc) /\ m.name.form = ""
                \/ "tenant_id" \in DOMAIN m.fields
      unique == {f \in DOMAIN m.fields : Unique(m.fields[f])} \ {"tenant_id"}
  IN  {IF scoped THEN {"tenant_id", f} ELSE {f} : f \in unique}

(* _entity_local_invariant_specs_by_entity: the invariants whose names are *)
(* all fields of the entity are enforced on every update.                  *)
RootNames(rule) ==
  CASE rule = "requested_days <= employee.leave_balance" ->
         {"requested_days", "employee"}
    [] rule = "quantity >= 0" -> {"quantity"}
    [] rule = "amount >= 0" -> {"amount"}
    [] OTHER -> {"__invalid_expression__"}

LocalRules(doc, m) ==
  {r \in doc.rules :
     /\ r.type = "Invariant"
     /\ Schema(r.entity, "") = m.name
     /\ RootNames(r.rule) \subseteq
          DOMAIN m.fields
            \cup IF r.entity \in ScopedEntities(doc) THEN {"tenant_id"} ELSE {}}

-----------------------------------------------------------------------------
(* _workflow_specs: transitions get the action of their place when there   *)
(* are as many, else the one whose name is akin to the state they lead to. *)
States(workflow) ==
  IF workflow.states = {} THEN {"draft", "done"} ELSE workflow.states

(* _role_specs *)
Roles(doc) ==
  IF doc.roles # {} THEN doc.roles
  ELSE {[name |-> "Admin", permissions |-> {"read", "write", "admin"}],
        [name |-> "Viewer", permissions |-> {"read"}]}

(* _stack_spec: the first #Stack.                                          *)
StackSpec(doc) ==
  IF doc.stack = {} THEN [backend |-> "FastAPI", database |-> "InMemory", auth |-> "None"]
  ELSE LET s == First(doc.stack)
           said(written, default) ==
             IF written = Missing THEN default
             ELSE IF Value(written) = Null THEN "None" ELSE Value(written)
       IN  [backend |-> said(s.backend, "FastAPI"),
            database |-> said(s.database, "InMemory"),
            auth |-> said(s.auth, "None")]

(* _uses_sqlalchemy *)
UsesSQLAlchemy(doc) ==
  StackSpec(doc).database \in {"PostgreSQL", "SQLite", "MySQL", "MariaDB"}

(* _entity_specs *)
EntitySpecs(doc) ==
  {[name |-> m.name.of, fields |-> m.fields,
    tenant_scoped |-> SectionEnabled(doc.tenant) /\ m.name.of \in RouteEntities(doc)] :
     m \in {x \in doc.models : x.name.form = ""}}

(* evidence_record_files: app_contract.json.                               *)
AppContract(doc) ==
  [project |-> doc.description, stack |-> StackSpec(doc), entities |-> EntitySpecs(doc),
   routes |-> RoutePlans(doc),
   tenant_enabled |-> SectionEnabled(doc.tenant),
   audit_enabled |-> SectionEnabled(doc.audit),
   audit_storage |-> IF UsesSQLAlchemy(doc) THEN "database" ELSE "memory",
   roles |-> Roles(doc),
   workflows |-> {[name |-> w.name, entity |-> w.entity, states |-> States(w)] :
                    w \in doc.workflows},
   business_rules |-> {r \in doc.rules : r.rule # Missing}]

-----------------------------------------------------------------------------
CommonFiles ==
  {"pyproject.toml", "README.md", "docs/domain_foundation.md", ".env.example",
   ".gitignore", "Dockerfile", ".dockerignore", "Makefile",
   ".pre-commit-config.yaml", ".github/workflows/ci.yml", "docker-compose.yml",
   "load/locustfile.py", "app/__init__.py", "app/main.py",
   "app/core/__init__.py", "app/core/config.py", "app/core/errors.py",
   "app/core/logging.py", "app/core/security.py", "app/middleware/__init__.py",
   "app/middleware/request_id.py", "app/api/__init__.py",
   "app/api/routes/__init__.py", "app/schemas/__init__.py",
   "app/models/__init__.py", "app/services/__init__.py",
   "app/repositories/__init__.py", "proof_trace.json"}

(* platform_source_files, platform_test_files, _test_files                 *)
PlatformFiles(doc) ==
  {"app/platform/__init__.py", "app/platform/tenancy.py", "app/platform/rbac.py",
   "app/platform/audit.py", "app/platform/workflow.py",
   "app/platform/readiness.py", "app/api/routes/platform.py",
   "app/cli/__init__.py", "app/cli/seed_admin.py", "admin"}
  \cup IF Strategy(doc) = "sqlalchemy" THEN {"app/platform/models.py"} ELSE {}

TestFiles(doc) ==
  {"tests/conftest.py", "tests/factories.py", "tests/test_api.py",
   "tests/test_openapi_contract.py", "tests/test_load_smoke.py",
   "tests/test_evidence_records.py", "tests/test_platform_primitives.py",
   "tests/test_admin_ui_static.py"}
  \cup IF Strategy(doc) = "sqlalchemy" THEN {"tests/test_postgres_integration.py"} ELSE {}

(* _alembic_files and platform_migration_files                             *)
DatabaseFiles ==
  {"app/db/__init__.py", "app/db/base.py", "app/db/session.py", "alembic.ini",
   "app/db/migrations/env.py", "app/db/migrations/script.py.mako",
   "app/db/migrations/versions/__init__.py",
   "app/db/migrations/versions/0001_initial.py",
   "app/db/migrations/versions/0002_platform_runtime.py"}

EvidenceFiles ==
  {"generated_app_manifest.json", "app_contract.json", "eval_run.json",
   "capability_report.json", "assumptions.json", "unsupported_features.json",
   "provenance_hashes.json", "evidence_bundle.json", "docs/release_evidence.md"}

(* The files of one model: a schema for each, and for the entity of a      *)
(* route its repository, service and routes, and a table when it has one.  *)
ModelFiles(doc, schema) ==
  LET e == SchemaName(schema)
      owned == schema.form = "" /\ schema.of \in RouteEntities(doc)
  IN  {"app/schemas/" \o e}
      \cup (IF owned THEN {"app/repositories/" \o e, "app/services/" \o e,
                           "app/api/routes/" \o e} ELSE {})
      \cup IF owned /\ Strategy(doc) = "sqlalchemy" THEN {"app/models/" \o e} ELSE {}

(* What the file of one generated module imports from another.             *)
ImportedBy(doc) ==
  {"app/schemas/" \o SchemaName(s) :
     s \in {Normalized(r.body) : r \in doc.routes} \ {NoSchema}}
  \cup UNION {{"app/schemas/" \o SchemaName(Schema(e, form)) : form \in {"", "Create"}} :
                e \in {x \in RouteEntities(doc) : Schema(x, "") \in Models(doc)}}

(* generate *)
GeneratedFiles(doc) ==
  CommonFiles \cup PlatformFiles(doc) \cup TestFiles(doc)
  \cup (IF Strategy(doc) = "sqlalchemy" THEN DatabaseFiles ELSE {})
  \cup UNION {ModelFiles(doc, s) : s \in Models(doc)}

(* The manifest lists every generated file and the evidence; itself it is  *)
(* written last.                                                           *)
ManifestFiles(doc) == GeneratedFiles(doc) \cup EvidenceFiles

TreeFiles(doc) == ManifestFiles(doc) \cup {"sml.manifest.json"}

-----------------------------------------------------------------------------
(* _field_line: the default of a field is its last default= modifier, and  *)
(* null is none.  The words that occur:                                    *)
DefaultWords ==
  {"default=null", "default=now", "default=today", "default=2026-01-01",
   "default=7", "default=banana"}

Defaults(descriptor, words) ==
  \E i \in 2..Len(descriptor) :
    /\ descriptor[i] \in words
    /\ \A j \in (i + 1)..Len(descriptor) : descriptor[j] \notin DefaultWords

(* _temporal_default: what a datetime or a date takes; anything else is    *)
(* TGT202 or TGT203.  The target raises the first it comes to, in the order*)
(* of the models and their fields, which the document here does not keep:  *)
(* both are listed.                                                        *)
DatetimeDefaults == {"default=null", "default=now", "default=2026-01-01"}
DateDefaults == {"default=null", "default=today", "default=2026-01-01"}

InvalidDefaults(doc) ==
  {c \in {"TGT202", "TGT203"} :
     \E m \in doc.models : \E f \in DOMAIN m.fields :
       LET d == m.fields[f]
       IN  IF c = "TGT202"
           THEN d[1] = "datetime" /\ Defaults(d, DefaultWords \ DatetimeDefaults)
           ELSE d[1] = "date" /\ Defaults(d, DefaultWords \ DateDefaults)}

(* _TYPE_MAP, and the builtins of Python that occur: any other type, and   *)
(* the default of a number (_literal), is written as it stands.            *)
NumberTypes == {"int", "integer", "float", "decimal"}
NamedTypes ==
  NumberTypes \cup {"string", "str", "text", "bool", "boolean", "uuid", "datetime",
                    "date", "dict", "object"}

UndefinedNames(doc) ==
  \E m \in doc.models : \E f \in DOMAIN m.fields :
    LET d == m.fields[f]
    IN  \/ d[1] \notin NamedTypes
        \/ d[1] \in NumberTypes /\ Defaults(d, DefaultWords \ {"default=null", "default=7"})

(* _canonicalize_generated_files: where the PATH has ruff, it refuses a    *)
(* tree with a name that is nowhere defined, and the compiler raises a     *)
(* RuntimeError; without ruff the tree is returned as it is.  What else    *)
(* ruff could object to is in the text that the model leaves out.          *)
CanonicalizationErrors(doc, ruff) ==
  {c \in {"RuntimeError"} : ruff /\ UndefinedNames(doc)}

-----------------------------------------------------------------------------
(* generate, in the order of its checks.                                   *)
TargetRefusals(doc, ruff) ==
  IF UncreatableEntities(doc) # {} THEN {"TGT201"}
  ELSE IF InvalidDefaults(doc) # {} THEN InvalidDefaults(doc)
  ELSE CanonicalizationErrors(doc, ruff)

(* compile_text stops at the first stage that has something to say.        *)
Refusals(doc, ruff) ==
  CASE ~Parses(doc) -> doc.syntax \cap SyntaxErrors
    [] Parses(doc) /\ Diagnostics(doc) # {} -> Diagnostics(doc)
    [] Parses(doc) /\ Diagnostics(doc) = {} ->
         IF UndefinedSchemas(doc) # {} THEN {"LOG201"} ELSE TargetRefusals(doc, ruff)
=============================================================================
