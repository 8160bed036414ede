--------------------------- MODULE MCLatentResolver ---------------------------
(***************************************************************************)
(* builtin_rules() (logic/rules.py) and build_latent_candidates            *)
(* (resolver/candidates.py), in the orders in which the code sorts them,   *)
(* over one route and one model with two unique fields.                    *)
(***************************************************************************)
EXTENDS LatentResolver

MCSchemas == {"Item", "string"}
MCArtifact(s) == "Artifact(Schema:" \o s \o ")"
MCRequiresSchema(s) == "Requires(Schema:" \o s \o ")"

Pg == "Database(Postgresql)"
MCDatabaseFacts == {Pg, "Database(Sqlite)"}

Policies == {"Policy(ForbidBroadCatch)", "Policy(LayeredArchitecture)"}
Model == {MCArtifact("Item"), "Unique(Item, name)", "Unique(Item, code)"}
Auth == "AuthRequired(Get)"
Body(s) == "Body(Get, " \o s \o ")"
Returns(s) == "Returns(Get, " \o s \o ")"

(* What a #Route section may add.  The analyzer refuses a schema that is   *)
(* neither a model nor primitive, and accepts a primitive one.             *)
RouteFacts ==
  {{},
   {"Route(Get)", Returns("Item")},
   {"Route(Get)", Returns("string"), Auth},
   {"Route(Get)", Returns("Item"), Body("Item"), Auth}}

MCDocuments ==
  {{"Target(PythonFastAPI)"} \cup Model \cup policies \cup databases \cup route :
     policies \in SUBSET Policies, databases \in SUBSET MCDatabaseFacts, route \in RouteFacts}

Rule(premises, conclusion) == [when |-> premises, then |-> conclusion]

MCInstances ==
  << {Rule({Auth}, "Requires(Dependency:CurrentUser)")},
     {Rule({"Policy(ForbidBroadCatch)", "Candidate(BroadCatchException)"},
           "Invalid(Candidate:BroadCatchException)")},
     {Rule({"Target(PythonFastAPI)", "Requires(Dependency:CurrentUser)"},
           "Requires(Module:app.core.security)")},
     {Rule({"Policy(LayeredArchitecture)", "Candidate(SingleFile)"},
           "Invalid(Candidate:SingleFile)")},
     {Rule({Pg, "Candidate(InMemoryRepository)"}, "Invalid(Candidate:InMemoryRepository)")},
     {Rule({Pg}, "Requires(EnvVar:DATABASE_URL)")},
     {Rule({Pg}, "Requires(Dependency:SQLAlchemy)")},
     {Rule({"Route(Get)", Body(s)}, MCRequiresSchema(s)) : s \in MCSchemas},
     {Rule({"Route(Get)", Returns(s)}, MCRequiresSchema(s)) : s \in MCSchemas},
     {Rule({"Unique(Item, " \o f \o ")"},
           "Requires(DatabaseConstraint:unique:Item." \o f \o ")") : f \in {"name", "code"}} >>

MCInvalidFacts ==
  {"Invalid(Candidate:" \o c \o ")" :
     c \in {"BroadCatchException", "SingleFile", "InMemoryRepository"}}

MCDimensions ==
  << "backend_architecture", "error_handling_policy", "id_strategy",
     "python_import_style", "repository_strategy" >>

Candidate(name) == "Candidate(" \o name \o ")"

MCCandidates ==
  << << Candidate("RouterServiceRepository"), Candidate("SingleFile") >>,
     << Candidate("BroadCatchException"), Candidate("SpecificHttpExceptions") >>,
     << Candidate("IntegerIDStrategy"), Candidate("UUIDStrategy") >>,
     << Candidate("FromImportSymbols"), Candidate("ModuleImport") >>,
     << Candidate("InMemoryRepository"), Candidate("SQLAlchemyRepository") >> >>

MCScore(c, db) ==
  CASE c = Candidate("RouterServiceRepository") -> 95
    [] c = Candidate("SingleFile") -> 10
    [] c = Candidate("BroadCatchException") -> 5
    [] c = Candidate("SpecificHttpExceptions") -> 95
    [] c = Candidate("IntegerIDStrategy") -> 60
    [] c = Candidate("UUIDStrategy") -> 85
    [] c = Candidate("FromImportSymbols") -> 90
    [] c = Candidate("ModuleImport") -> 65
    [] c = Candidate("InMemoryRepository") -> IF db = Pg THEN 10 ELSE 90
    [] c = Candidate("SQLAlchemyRepository") -> IF db = Pg THEN 90 ELSE 65

MCFact ==
  UNION MCDocuments
    \cup UNION {{m.then : m \in MCInstances[i]} \cup UNION {m.when : m \in MCInstances[i]} :
                  i \in DOMAIN MCInstances}
    \cup UNION {{MCCandidates[d][1], MCCandidates[d][2]} : d \in DOMAIN MCCandidates}
=============================================================================
