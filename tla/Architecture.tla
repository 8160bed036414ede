---------------------------- MODULE Architecture ----------------------------
(***************************************************************************)
(* ConstrainedArchitectureResolver.resolve (architecture/resolver.py): a   *)
(* plan becomes use cases with their transactions, events and adapters,    *)
(* under the one architecture the target has.                              *)
(***************************************************************************)
EXTENDS Capabilities

MutatingMethods == {"POST", "PATCH", "PUT", "DELETE"}

Mutates(route) == route.method \in MutatingMethods

NeedsServiceLayer(plan) ==
  \/ \E r \in plan.routes : Mutates(r)
  \/ plan.workflows # {}
  \/ plan.rules # {}
  \/ plan.audit
  \/ plan.tenant

Candidates(plan) ==
  [direct_route_repository |->
     IF NeedsServiceLayer(plan) THEN "rejected" ELSE "admissible",
   layered_modular_monolith |-> "selected",
   microservices |-> "rejected"]

(* _modules: what may depend on what.                                      *)
ModuleDependencies ==
  [api |-> {"application", "platform"},
   application |-> {"domain", "persistence", "platform"},
   domain |-> {}, persistence |-> {"domain"}, platform |-> {"domain"}]

(* requirement_by_token: of several requirements of one name, the last one *)
(* of the sorted list.  A name occurs in a route's name when it is the     *)
(* name of the route's entity.                                             *)
KindOrder == <<"actor", "business_rule", "capability", "constraint", "entity",
               "integration", "nonfunctional", "report", "security", "stack",
               "use_case", "workflow">>
KindAt(kind) == CHOOSE k \in DOMAIN KindOrder : KindOrder[k] = kind

NamedLike(requirements, e) ==
  {i \in requirements.items :
     i.name = e /\ \A j \in requirements.items :
                     j.name = e => KindAt(j.kind) <= KindAt(i.kind)}

RouteFailures(route) ==
  {"VALIDATION_ERROR", "UNAUTHORIZED", "FORBIDDEN"}
  \cup (IF route.method # "POST" THEN {"NOT_FOUND"} ELSE {})
  \cup (IF Mutates(route) THEN {"CONFLICT"} ELSE {})

RouteUseCase(route, plan, requirements) ==
  [name |-> <<route.verb, route.entity>>, entity |-> route.entity,
   authorization |-> IF route.auth = "required" THEN "role" ELSE "public",
   transaction |-> Mutates(route),
   failures |-> RouteFailures(route),
   emits |-> IF Mutates(route) THEN {<<route.entity, route.method>>} ELSE {},
   answers |-> NamedLike(requirements, route.entity)
                 \cup plan.trace.entity[route.entity]]

ActionUseCase(workflow, action, plan) ==
  [name |-> <<action, workflow.entity>>, entity |-> workflow.entity,
   authorization |-> "workflow", transaction |-> TRUE,
   failures |-> {"FORBIDDEN", "STATE_CONFLICT", "BUSINESS_RULE_REJECTED"},
   emits |-> {<<workflow.name, action>>},
   answers |-> plan.trace.workflow[workflow.name]]

(* _use_cases *)
UseCases(plan, requirements) ==
  {RouteUseCase(r, plan, requirements) : r \in plan.routes}
  \cup UNION {{ActionUseCase(w, a, plan) : a \in w.actions} :
                w \in plan.workflows}

(* _integrations *)
Adapters(requirements) ==
  {[name |-> i.name,
    status |-> IF i.status = "unsupported" THEN "unsupported"
               ELSE "external_contract"] :
     i \in {x \in requirements.items : x.kind = "integration"}}

(* _failure_models *)
FailureModels ==
  [VALIDATION_ERROR |-> 422, UNAUTHORIZED |-> 401, FORBIDDEN |-> 403,
   NOT_FOUND |-> 404, CONFLICT |-> 409, STATE_CONFLICT |-> 409,
   BUSINESS_RULE_REJECTED |-> 409, DEPENDENCY_UNAVAILABLE |-> 503,
   RATE_LIMITED |-> 429]

(* resolve *)
Resolve(requirements, plan) ==
  LET cases == UseCases(plan, requirements)
  IN  [pattern |-> "layered_modular_monolith",
       candidates |-> Candidates(plan),
       modules |-> ModuleDependencies,
       cases |-> cases,
       transactions |-> {c.name : c \in {x \in cases : x.transaction}},
       events |-> UNION {c.emits : c \in cases},
       adapters |-> Adapters(requirements),
       failures |-> FailureModels]
=============================================================================
