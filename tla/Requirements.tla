---------------------------- MODULE Requirements ----------------------------
(***************************************************************************)
(* IntentRequirementsCompiler.compile_text (requirements/extractor.py):    *)
(* from the lines of a prompt to typed requirements, with what is          *)
(* ambiguous, contradictory or unsupported kept visible.  Titles,          *)
(* descriptions and hashes are left out: a requirement is what it is       *)
(* called and the line it came from (0 when it was inferred).              *)
(***************************************************************************)
EXTENDS Foundation

Item(kind, name, origin, line, pass) ==
  [kind |-> kind, name |-> name, origin |-> origin, line |-> line,
   pass |-> pass, status |-> "accepted"]

LineSays(line) == IF line = 0 THEN {} ELSE Lines[line].says

(* _stack_requirements: name, kind and the expressions that find it.       *)
StackPatterns ==
  {<<"FastAPI", "stack", {"fastapi"}>>,
   <<"PostgreSQL", "stack", {"postgres"}>>,
   <<"InMemory", "stack", {"in-memory"}>>,
   <<"JWT", "security", {"jwt", "bearer token"}>>,
   <<"NoAuthentication", "security", {"no authentication", "public api"}>>,
   <<"MultiTenant", "capability", {"multi-tenant", "tenant isolation"}>>,
   <<"SingleTenant", "constraint", {"single-tenant"}>>}

StackItems(prompt) ==
  UNION {{Item(p[2], p[1], "explicit", l, 1) :
            l \in {x \in prompt : p[3] \cap Lines[x].says # {}}} :
           p \in StackPatterns}

(* _section_requirements: the first key the heading contains decides.      *)
SectionKinds ==
  <<<<"roles", "actor">>, <<"users", "actor">>, <<"actors", "actor">>,
    <<"entities", "entity">>, <<"models", "entity">>,
    <<"data model", "entity">>, <<"workflows", "workflow">>,
    <<"business rules", "business_rule">>, <<"rules", "business_rule">>,
    <<"integrations", "integration">>, <<"reports", "report">>,
    <<"non-functional requirements", "nonfunctional">>,
    <<"nonfunctional requirements", "nonfunctional">>,
    <<"constraints", "constraint">>, <<"use cases", "use_case">>,
    <<"features", "capability">>>>

KeysOf(line) ==
  {i \in DOMAIN SectionKinds : SectionKinds[i][1] \in Lines[line].section}

KindOf(line) ==
  SectionKinds[CHOOSE i \in KeysOf(line) : \A j \in KeysOf(line) : i <= j][2]

SectionItems(prompt) ==
  {Item(KindOf(l), Lines[l].name, "explicit", l, 2) :
     l \in {x \in prompt : Lines[x].bullet /\ KeysOf(x) # {}
                             /\ Lines[x].name # ""}}

(* _keyword_requirements                                                   *)
KeywordCapabilities ==
  {<<"BackgroundJobs", {"background job", "worker", "queue", "celery",
                        "asynchronous"}>>,
   <<"Notifications", {"notification", "notify", "email alert"}>>,
   <<"Idempotency", {"idempotency", "idempotent"}>>,
   <<"Webhooks", {"webhook"}>>,
   <<"Observability", {"observability", "metrics", "tracing",
                       "structured logging"}>>,
   <<"SoftDeleteRetention", {"soft delete", "retention"}>>,
   <<"Audit", {"audit log", "audit trail", "auditing"}>>,
   <<"Workflow", {"workflow", "approval", "approve", "reject"}>>,
   <<"RBAC", {"rbac", "role-based", "permissions"}>>,
   <<"CRUD", {"crud", "create, read, update", "list, create, update"}>>}

PerformanceWords == {"must be scalable", "high availability", "low latency"}

KeywordItems(prompt) ==
  (UNION {{Item("capability", c[1], "explicit", l, 3) :
            l \in {x \in prompt : c[2] \cap Lines[x].says # {}}} :
           c \in KeywordCapabilities})
  \cup {Item("nonfunctional", "PerformanceAndAvailability", "explicit", l, 3) :
          l \in {x \in prompt : PerformanceWords \cap Lines[x].says # {}}}

-----------------------------------------------------------------------------
SameKey(i, j) == i.kind = j.kind /\ i.name = j.name

Earlier(i, j) == i.pass < j.pass \/ (i.pass = j.pass /\ i.line < j.line)

(* _dedupe: one requirement for a kind and a name; explicit ones first,    *)
(* then the earliest.                                                      *)
Dedupe(items) ==
  {i \in items :
     \A j \in items \ {i} : SameKey(i, j) =>
       \/ i.origin = "explicit" /\ j.origin = "inferred"
       \/ i.origin = j.origin /\ Earlier(i, j)}

(* _inferred_domain_requirements: what the plan of the same text has and   *)
(* the text does not name.                                                 *)
InferredItems(prompt, existing) ==
  LET plan == PlanFor(prompt)
      New(kind, names) ==
        {Item(kind, n, "inferred", 0, 4) :
           n \in {x \in names :
                    \A i \in existing : i.kind = kind => i.name # x}}
  IN  New("entity", Elements(plan.entities)) \cup New("actor", plan.roles)
        \cup New("workflow", {w.name : w \in plan.workflows})

NamesOf(items) == {i.name : i \in items}

(* _contradictions                                                         *)
Opposites == {<<"PostgreSQL", "InMemory">>, <<"JWT", "NoAuthentication">>,
              <<"MultiTenant", "SingleTenant">>}

ContradictionsIn(items) ==
  {o \in Opposites : {o[1], o[2]} \subseteq NamesOf(items)}

(* _unsupported_features                                                   *)
UnsupportedFeatures ==
  {<<"native mobile client", {"native mobile", "ios app", "android app"}>>,
   <<"payment processing", {"stripe", "payment gateway", "card payments"}>>,
   <<"machine-learning model training", {"train a model", "model training", "fine-tuning"}>>,
   <<"blockchain runtime", {"blockchain", "smart contract"}>>,
   <<"real-time geospatial dispatch", {"uber-like", "real-time dispatch",
                                       "geospatial matching"}>>}

UnsupportedIn(prompt) ==
  {f[1] : f \in {g \in UnsupportedFeatures : Mentions(prompt, g[2])}}

(* _mark_requirement_statuses: of several requirements of one name only    *)
(* the last is marked contradictory.                                       *)
LastNamed(items, i) ==
  \A j \in items : j.name = i.name => ~Earlier(i, j)

StatusOf(i, items, contradictions, unsupported) ==
  IF (\E c \in contradictions : i.name \in {c[1], c[2]}) /\ LastNamed(items, i)
    THEN "contradictory"
  ELSE IF unsupported \cap LineSays(i.line) # {} THEN "unsupported"
  ELSE "accepted"

-----------------------------------------------------------------------------
EntitiesFrom(items, origin) ==
  {i \in items : i.kind = "entity" /\ i.origin = origin}

(* The Product fallback that no word of the text asked for.                *)
GenericFallback(prompt, items) ==
  /\ NamesOf(EntitiesFrom(items, "inferred")) = {"Product"}
  /\ ~Mentions(prompt, {"product", "inventory", "stock", "sku"})

NoEntityToBuild(prompt, items) ==
  /\ EntitiesFrom(items, "explicit") = {}
  /\ \/ GenericFallback(prompt, items)
     \/ EntitiesFrom(items, "inferred") = {}

DomainInferred(prompt, items) ==
  /\ EntitiesFrom(items, "explicit") = {}
  /\ ~NoEntityToBuild(prompt, items)

Unstated(items, names) == names \cap NamesOf(items) = {}

MeasureWords == {"p95", "p99", "requests per second", "rps", "milliseconds",
                 "seconds", "availability", "high availability", "sla"}

(* _ambiguities_and_assumptions: only the lack of any entity blocks.       *)
AmbiguousTopics(prompt, items) ==
  {t \in {"database", "authentication", "entities", "inferred entities",
          "integration failure", "performance targets"} :
     CASE t = "database" -> Unstated(items, {"PostgreSQL", "InMemory"})
       [] t = "authentication" -> Unstated(items, {"JWT", "NoAuthentication"})
       [] t = "entities" -> NoEntityToBuild(prompt, items)
       [] t = "inferred entities" -> DomainInferred(prompt, items)
       [] t = "integration failure" ->
            /\ \E i \in items : i.kind = "integration"
            /\ ~Mentions(prompt, {"timeout", "retry", "failure", "idempotency"})
       [] t = "performance targets" ->
            /\ "PerformanceAndAvailability" \in NamesOf(items)
            /\ ~Mentions(prompt, MeasureWords)}

AmbiguitiesIn(prompt, items) ==
  {[topic |-> t, blocking |-> t = "entities"] :
     t \in AmbiguousTopics(prompt, items)}

(* A default is recorded for what was not stated, and for what is out of   *)
(* the target's reach.                                                     *)
AssumptionsIn(prompt, items) ==
  (AmbiguousTopics(prompt, items)
     \cap {"database", "authentication", "inferred entities"})
  \cup UnsupportedIn(prompt)

(* Faulty variant: memory is no hint, being the default.                   *)
StackHintsNoMemory(items) ==
  LET named == NamesOf(items)
  IN  [backend |-> "FastAPI",
       database |-> IF "PostgreSQL" \in named THEN "PostgreSQL" ELSE "",
       auth |-> CASE "JWT" \in named -> "JWT"
                  [] "NoAuthentication" \in named /\ "JWT" \notin named ->
                       "None"
                  [] OTHER -> ""]

(* _stack_hints: "" is no hint.                                            *)
StackHints(items) ==
  LET named == NamesOf(items)
  IN  [backend |-> "FastAPI",
       database |-> CASE "PostgreSQL" \in named -> "PostgreSQL"
                      [] "InMemory" \in named /\ "PostgreSQL" \notin named ->
                           "InMemory"
                      [] OTHER -> "",
       auth |-> CASE "JWT" \in named -> "JWT"
                  [] "NoAuthentication" \in named /\ "JWT" \notin named ->
                       "None"
                  [] OTHER -> ""]

ExplicitItems(prompt) ==
  Dedupe(StackItems(prompt) \cup SectionItems(prompt) \cup KeywordItems(prompt))

WithInferred(prompt, explicit) ==
  Dedupe(explicit \cup InferredItems(prompt, explicit))

RequirementsFrom(prompt, items) ==
  LET contradictions == ContradictionsIn(items)
      unsupported == UnsupportedIn(prompt)
  IN  [items |-> {[i EXCEPT !.status =
                     StatusOf(i, items, contradictions, unsupported)] :
                    i \in items},
       ambiguities |-> AmbiguitiesIn(prompt, items),
       contradictions |-> contradictions,
       assumptions |-> AssumptionsIn(prompt, items),
       unsupported |-> unsupported,
       domains |-> SelectPacks(prompt),
       hints |-> StackHints(items)]

(* compile_text                                                            *)
RequirementsOf(prompt) ==
  RequirementsFrom(prompt, WithInferred(prompt, ExplicitItems(prompt)))

HasName(requirements, name) ==
  \E i \in requirements.items : i.name = name /\ i.origin = "explicit"

(* _matching_requirement_ids                                               *)
Matching(requirements, kind, name) ==
  {i \in requirements.items : i.kind = kind /\ i.name = name}

(* The trace of a plan: which requirements each part of it answers.        *)
TraceOf(plan, requirements) ==
  [entity |-> [e \in Elements(plan.entities) |->
                 Matching(requirements, "entity", e)],
   actor |-> [r \in plan.roles |-> Matching(requirements, "actor", r)],
   workflow |-> [w \in {x.name : x \in plan.workflows} |->
                   Matching(requirements, "workflow", w)],
   capability |-> <<>>]

(* SchrodingerProductCompiler._apply_requirements: what the text states    *)
(* overrides the defaults of the plan; tenancy and audit are only ever     *)
(* turned on.                                                              *)
Applied(plan, requirements) ==
  LET hint(key, default) ==
        IF requirements.hints[key] = "" THEN default
        ELSE requirements.hints[key]
  IN  [plan EXCEPT
         !.trace = TraceOf(plan, requirements),
         !.unsupported = @ \cup requirements.unsupported,
         !.assumptions = @ \cup requirements.assumptions,
         !.questions = @ \cup {a.topic : a \in requirements.ambiguities},
         !.database = hint("database", @),
         !.auth = hint("auth", @),
         !.tenant = @ \/ HasName(requirements, "MultiTenant"),
         !.audit = @ \/ HasName(requirements, "Audit")]
=============================================================================
