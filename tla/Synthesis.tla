------------------------------ MODULE Synthesis ------------------------------
(***************************************************************************)
(* From a prompt to a generated tree, along the three ways the product     *)
(* has: the offline build (product/compiler.py), which renders the         *)
(* document itself; an online build, whose document a model wrote and the  *)
(* verifier judges; and the direct compilation of a document somebody      *)
(* edited (ssm compile).                                                   *)
(*                                                                         *)
(* The stages are operators of the modules this one extends; here they are *)
(* put in the order in which the code runs them, over many prompts.  What  *)
(* an online model or an editor makes of a document is the rendered one    *)
(* with one deviation.                                                     *)
(***************************************************************************)
EXTENDS Certification

CONSTANTS
  Prompts,   (* the prompts: sets of line numbers                          *)
  Drafted    (* those whose document is also drafted by somebody else      *)

ASSUME PromptAssumption ==
  /\ \A p \in Prompts : p \subseteq DOMAIN Lines
  /\ Drafted \subseteq Prompts

VARIABLES
  at,        (* how far the work has come                                  *)
  prompt,
  document,  (* the document in hand                                       *)
  issues,    (* what the verifier says of it                               *)
  refusals   (* what the compiler says of it                               *)

vars == <<at, prompt, document, issues, refusals>>

NoDocument == [none |-> TRUE]

(* Computed once for each prompt.                                          *)
Contexts == [p \in Prompts |-> ContextOf(p)]
Rendered == [p \in Prompts |-> OfflineDocument(Contexts[p])]

-----------------------------------------------------------------------------
(* Deviations of a document.  A section is left out:                       *)
SectionKindsOf(doc) == DOMAIN doc \ {"description", "syntax", "unknown"}

Omissions(doc) ==
  UNION {{[doc EXCEPT ![k] = @ \ {s}] : s \in doc[k]} : k \in SectionKindsOf(doc)}

(* the stack or the platform is declared otherwise, or twice:              *)
StackDeviations(doc) ==
  LET s == First(doc.stack)
      Twice(d) == [doc EXCEPT !.stack = @ \cup {[s EXCEPT !.at = 2, !.database = d]}]
  IN  {[doc EXCEPT !.stack = {[s EXCEPT !.database = d]}] :
         d \in {"PostgreSQL", "InMemory", "SQLite", Missing}}
      \cup {[doc EXCEPT !.stack = {[s EXCEPT !.auth = "none"]}]}
      \cup {Twice(d) : d \in {"PostgreSQL", "InMemory"}}

PlatformDeviations(doc) ==
  UNION {{[doc EXCEPT ![k] = {[at |-> 1, enabled |-> v]}] :
            v \in {"true", "false", "yes", "'true'", Missing}}
         \cup {[doc EXCEPT ![k] = {[at |-> 1, enabled |-> "false"],
                                   [at |-> 2, enabled |-> "true"]}]} :
           k \in {"tenant", "audit"}}

(* a model has other fields, is written as a list, or is one more:         *)
FieldOf(m) == CHOOSE f \in DOMAIN m.fields : Unique(m.fields[f]) \/ f = "status"
                                              \/ DOMAIN m.fields = {f}

HasPlainField(m) == \E f \in DOMAIN m.fields : Unique(m.fields[f]) \/ f = "status"

(* What an added field is: with a default that does not fit, or that a     *)
(* later one replaces, or of a type nobody knows.                          *)
Notes ==
  {<<"string">>, <<"date", "default=banana">>, <<"date", "default=banana", "default=today">>,
   <<"datetime", "default=today">>, <<"int", "default=banana">>, <<"Money">>}

ModelDeviations(doc) ==
  (UNION {
    LET f == FieldOf(m)
        d == m.fields[f]
        With(x) == [doc EXCEPT !.models = (@ \ {m}) \cup {x}]
    IN  {With([m EXCEPT !.fields[f] = x]) :
           x \in {<<d[1]>>, <<"required", d[1], "unique">>, Append(d, "max=120"),
                  Append(d, "max=many"), <<>>}}
        \cup {With([m EXCEPT !.mapping = FALSE])}
        \cup {With([m EXCEPT !.fields =
                      [x \in DOMAIN @ \cup {"note"} |->
                         IF x = "note" THEN note ELSE @[x]]]) : note \in Notes} :
    m \in {x \in doc.models : HasPlainField(x)}})
  \cup UNION {{[doc EXCEPT !.models = @ \cup {ModelSection(n, [name |-> d])}] :
                 d \in {<<"string">>, <<>>}} :
               n \in {Schema(m.name.of, "Update") : m \in doc.models}
                       \cup {Schema("Extra", "")}}

(* a route, a rule, a relationship or a workflow says something else:      *)
RouteDeviations(doc) ==
  UNION {
    LET With(x) == [doc EXCEPT !.routes = (@ \ {r}) \cup {x}]
        update == Schema(r.entity, "Update")
    IN  {With([r EXCEPT !.auth = a]) : a \in {Missing, "none", "admin"}}
        \cup {With([r EXCEPT !.body = update]),
              [With([r EXCEPT !.body = update]) EXCEPT
                 !.models = @ \cup {ModelSection(update, [name |-> <<"string">>])}],
              With([r EXCEPT !.body = Schema("string", "")]),
              With([r EXCEPT !.returns = Schema("string", "")]),
              With([r EXCEPT !.returns = NoSchema]),
              [doc EXCEPT !.routes =
                 @ \cup {[r EXCEPT !.at = 2, !.name = "Again", !.auth = "none"]}],
              [doc EXCEPT !.routes =
                 @ \cup {[r EXCEPT !.method = "PUT", !.name = "Put"]}]} :
    r \in {x \in doc.routes : x.method \in {"POST", "PATCH"}}}

RuleDeviations(doc) ==
  UNION {
    LET With(x) == [doc EXCEPT !.rules = (@ \ {r}) \cup {x}]
    IN  {With([r EXCEPT !.type = "BusinessRule"]),
         With([r EXCEPT !.name = "Renamed"]),
         With([r EXCEPT !.on = "warn"]),
         With([r EXCEPT !.on = Missing, !.severity = TRUE]),
         With([r EXCEPT !.entity = Missing]),
         With([r EXCEPT !.rule = "quantity >="]),
         With([r EXCEPT !.rule = "len(name) > 0"])} :
    r \in doc.rules}

RelationDeviations(doc) ==
  UNION {{[doc EXCEPT !.relationships = (@ \ {r}) \cup {[r EXCEPT !.required = v]}] :
            v \in {"false", "no", Missing}}
         \cup {[doc EXCEPT !.relationships = (@ \ {r}) \cup {[r EXCEPT !.target = "Extra"]}]} :
           r \in doc.relationships}

WorkflowDeviations(doc) ==
  UNION {{[doc EXCEPT !.workflows = (@ \ {w}) \cup {[w EXCEPT !.states = @ \cup {"void"}]}],
          [doc EXCEPT !.workflows = (@ \ {w}) \cup {[w EXCEPT !.actions = {}]}],
          [doc EXCEPT !.workflows = @ \cup {[w EXCEPT !.at = 2, !.name = "Other",
                                                      !.states = {}, !.transitions = {}]}]} :
           w \in doc.workflows}

(* the scaffolding is loosened, a capability added, a section unknown, or  *)
(* the text no document at all, or one that nothing is created through.    *)
OtherDeviations(doc) ==
  {[doc EXCEPT !.capabilities = {}], [doc EXCEPT !.capabilities = @ \cup {"crm"}],
   [doc EXCEPT !.unknown = {"Widget"}], [doc EXCEPT !.syntax = {"SML003"}],
   [doc EXCEPT !.routes = {r \in @ : r.body = NoSchema},
               !.models = {m \in @ : m.name.form = ""}]}
  \cup (UNION {{[doc EXCEPT !.policies = {[p EXCEPT !.broad_catch = v]}] :
                  v \in {"allowed", Missing}} : p \in doc.policies})
  \cup UNION {{[doc EXCEPT !.constraints =
                  {[c EXCEPT !.architecture = v[1], !.pattern = v[2]]}] :
                 v \in {<<Missing, "layered">>, <<"clean", Missing>>, <<"none", "layered">>}} :
               c \in doc.constraints}

Deviations(doc) ==
  Omissions(doc) \cup StackDeviations(doc) \cup PlatformDeviations(doc)
  \cup ModelDeviations(doc) \cup RouteDeviations(doc) \cup RuleDeviations(doc)
  \cup RelationDeviations(doc) \cup WorkflowDeviations(doc) \cup OtherDeviations(doc)

-----------------------------------------------------------------------------
Init ==
  /\ at = "asked"
  /\ prompt \in Prompts
  /\ document = NoDocument
  /\ issues = {}
  /\ refusals = {}

context == Contexts[prompt]
blocked == BlockingReasons(context) # {}

(* collapse_text: the document is rendered and verified, before anybody    *)
(* asks whether the context is blocked.                                    *)
Collapse ==
  /\ at = "asked"
  /\ document' = Rendered[prompt]
  /\ issues' = Conformance(context, document')
  /\ at' = IF issues' = {} THEN "collapsed" ELSE "not conformant"
  /\ UNCHANGED <<prompt, refusals>>

(* build_text without and with allow_partial.                              *)
BuildBlocked ==
  /\ at = "collapsed" /\ blocked
  /\ at' = "blocked"
  /\ UNCHANGED <<prompt, document, issues, refusals>>

Build(allow_partial) ==
  /\ at = "collapsed"
  /\ blocked => allow_partial
  /\ \E ruff \in BOOLEAN : refusals' = Refusals(document, ruff)
  /\ at' = IF refusals' = {} THEN "built" ELSE "failed"
  /\ UNCHANGED <<prompt, document, issues>>

(* OnlineBuildService.build refuses a blocked context before it asks for a *)
(* draft; otherwise the draft is verified and, when it conforms, compiled. *)
Draft ==
  /\ at = "asked" /\ ~blocked /\ prompt \in Drafted
  /\ document' \in Deviations(Rendered[prompt])
  /\ at' = "drafted"
  /\ UNCHANGED <<prompt, issues, refusals>>

Judge ==
  /\ at = "drafted" /\ Parses(document)
  /\ issues' = Conformance(context, document)
  /\ at' = IF issues' = {} THEN "accepted" ELSE "refused"
  /\ UNCHANGED <<prompt, document, refusals>>

(* The draft of an accepted candidate, or a document as it is, compiled.   *)
Compile ==
  /\ at \in {"accepted", "drafted"}
  /\ \E ruff \in BOOLEAN : refusals' = Refusals(document, ruff)
  /\ at' = IF refusals' = {} THEN IF at = "accepted" THEN "synthesised" ELSE "compiled"
           ELSE IF at = "accepted" THEN "failed late" ELSE "failed"
  /\ UNCHANGED <<prompt, document, issues>>

Ends == {"not conformant", "blocked", "refused", "failed", "failed late",
         "built", "synthesised", "compiled"}

Done == at \in Ends /\ UNCHANGED vars

Next ==
  \/ Collapse \/ BuildBlocked \/ (\E partial \in BOOLEAN : Build(partial))
  \/ Draft \/ Judge \/ Compile \/ Done

Spec == Init /\ [][Next]_vars

-----------------------------------------------------------------------------
Trees == {"built", "synthesised", "compiled"}

(* The renderer and the verifier, written apart, agree on every context    *)
(* but one kind: without authentication the renderer writes "auth: None",  *)
(* which the parser reads as no value, and the verifier refuses the        *)
(* compiler's own document.  Nor does the third text of the same, what an  *)
(* online model is told to write down literally, break any rule the        *)
(* rendered document keeps.                                                *)
Literally(doc) ==
  LET envelope == MandatoryEnvelope(context)
  IN  [doc EXCEPT
         !.capabilities = envelope.capabilities,
         !.policies = {[at |-> 1, name |-> envelope.policy,
                        broad_catch |-> envelope.broad_catch]},
         !.constraints = {[c EXCEPT !.architecture = envelope.architecture] : c \in @}]

OfflineConforms ==
  at \in {"collapsed", "not conformant"} =>
    /\ (at = "not conformant") <=> (context.foundation.auth = "None")
    /\ Conformance(context, Literally(document)) \subseteq issues

(* What the offline build is blocked for and what the compiler would       *)
(* refuse its document for are the same: an unblocked document always      *)
(* compiles, and with allow_partial only a rule of an entity nobody        *)
(* declared (SEM203) stops it, which is a blocking integrity issue.        *)
OnlyIntegrityStopsCompiler ==
  /\ at = "built" => context.issues = {}
  /\ at = "failed" /\ document = Rendered[prompt] /\ issues = {} =>
       refusals = {"SEM203"} /\ context.issues # {}

(* Two lists say whether a build is to be rejected, the blocking reasons   *)
(* and the certificate: a result that is returned is REJECTED exactly when *)
(* something blocked it, and is never more than CONDITIONAL.               *)
StatusTellsBlocking ==
  at = "built" =>
    LET status == BuildStatus(Certify(context))
    IN  (status = "REJECTED" <=> blocked) /\ status # "ACCEPTED"

(* A candidate the verifier accepted can fail in the compiler only for     *)
(* what the verifier does not look at: unknown sections, how rules are     *)
(* reported, Update schemas nobody wrote, and of fields the order of their *)
(* words and what was added (SEM002, TGT202, TGT203 and what ruff refuses).*)
(* Never for another schema, an entity or a relationship.                  *)
LateCodes ==
  {"SEM001", "SEM002", "SEM104", "SEM204", "SEM205", "TGT202", "TGT203", "RuntimeError"}

LateRefusals == at = "failed late" => refusals \subseteq LateCodes

(* The semantics the context protects, read off the application.           *)
KeepsCanon(plan) ==
  LET contract == AppContract(document)
      stored == IF plan.database = "PostgreSQL" THEN "sqlalchemy" ELSE "in_memory"
  IN  /\ Strategy(document) = stored
      /\ contract.audit_storage = IF stored = "sqlalchemy" THEN "database" ELSE "memory"
      /\ contract.tenant_enabled = plan.tenant
      /\ contract.audit_enabled = plan.audit
      /\ RouteEntities(document) = {r.entity : r \in plan.routes}
      /\ ScopedEntities(document) =
           IF plan.tenant THEN {r.entity : r \in plan.routes} ELSE {}
      /\ RuleKeys(contract.business_rules) = RuleKeys(plan.rules)
      /\ \A e \in {x \in contract.entities : x.name \in Elements(plan.entities)} :
           \A f \in DOMAIN EntityFields[e.name] :
             e.fields[f][1] = EntityFields[e.name][f][1]
      /\ \A m \in {x \in document.models : x.name \in {Schema(e, "") : e \in RouteEntities(document)}} :
           LET e == m.name.of
               fields == EntityFields[e]
           IN  /\ \A f \in {x \in DOMAIN fields : Unique(fields[x])} :
                    \E key \in UniqueKeys(document, m) : f \in key
               /\ {<<r.rule, r.entity>> : r \in {x \in plan.rules : x.entity = e
                                                  /\ RootNames(x.rule) \subseteq DOMAIN fields}}
                    \subseteq RuleKeys(LocalRules(document, m))

(* Where verifier, analyzer and target read a document alike: each platform*)
(* section once and with a plain boolean, one #Stack, types first, and     *)
(* every rule an #Invariant: the services enforce no #BusinessRule, which  *)
(* the verifier takes for the same.                                        *)
ReadAlike ==
  /\ \A k \in {"stack", "tenant", "audit"} : \A s, t \in document[k] : s = t
  /\ \A s \in document.tenant \cup document.audit :
       Value(s.enabled) \in {"True", "False"}
  /\ \A m \in document.models : \A f \in DOMAIN m.fields :
       m.fields[f][1] \notin {"required", "unique", "primary"}
  /\ \A r \in document.rules : r.type = "Invariant"

(* The application of an accepted candidate, or of the offline document,   *)
(* has the database, the tenancy, the audit, the entities, types and rules *)
(* of the canonical context, keeps unique what is to be unique, and holds  *)
(* every update to the rules that can be judged by the entity alone.       *)
AcceptedKeepsCanon ==
  at \in {"built", "synthesised"} /\ ReadAlike => KeepsCanon(context.foundation)

(* The registry says what a selected pack guarantees: tenant_isolation     *)
(* "tenant_scoped_storage", audit "mutation_audit_events", and workflow    *)
(* needs audit (capabilities/registry.py:21, 31, 41).  What the composer   *)
(* selects and reports as SUPPORTED, the application has.                  *)
GuaranteesAreBuilt ==
  at = "built" =>
    LET contract == AppContract(document)
        Supported(c) == c \in context.capabilities.selected /\ Support(c) = "SUPPORTED"
    IN  /\ Supported("tenant_isolation") => contract.tenant_enabled
        /\ Supported("audit") => contract.audit_enabled

(* What the text states survives every stage between it and the built      *)
(* application: two rivals of which it states both never get that far.     *)
States1(name) == name \in NamesOf({i \in context.requirements.items : i.origin = "explicit"})

StatedReachesApp ==
  at = "built" /\ ~blocked =>
    LET contract == AppContract(document)
    IN  /\ \A o \in Opposites : ~(States1(o[1]) /\ States1(o[2]))
        /\ States1("PostgreSQL") => Strategy(document) = "sqlalchemy"
        /\ States1("InMemory") => Strategy(document) = "in_memory"
        /\ States1("JWT") => contract.stack.auth = "JWT"
        /\ States1("MultiTenant") =>
             /\ "tenant_isolation" \in document.capabilities
             /\ \A e \in contract.entities : e.name \in RouteEntities(document) =>
                  e.tenant_scoped /\ e.name \in ScopedEntities(document)
        /\ States1("Audit") => contract.audit_enabled /\ "audit" \in document.capabilities

(* No file of a tree imports a schema the tree does not have: what the     *)
(* three checks on the way let through (SEM104 and SEM105, LOG201, TGT201) *)
(* is what the templates of routes and services rely on.                   *)
ImportsResolve ==
  at \in Trees => ImportedBy(document) \subseteq GeneratedFiles(document)
=============================================================================
