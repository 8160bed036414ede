---------------------------- MODULE Capabilities ----------------------------
(***************************************************************************)
(* What a plan asks of the target: CapabilityComposer.compose              *)
(* (capabilities/composer.py) closes the requested packs under their       *)
(* prerequisites, CapabilityNegotiator.negotiate_plan                      *)
(* (foundation/negotiator.py) decides whether the plan can be built.       *)
(***************************************************************************)
EXTENDS Requirements

Pack(named, triggers, needs, is) ==
  [named |-> named, triggers |-> triggers, needs |-> needs, is |-> is]

(* _PACKS of capabilities/registry.py: the name of the requirement that    *)
(* asks for the pack, the words that do, its prerequisites and how far it  *)
(* is implemented.                                                         *)
CapabilityPacks ==
  [rbac |-> Pack("RBAC", {"rbac", "role", "permission"}, {}, "production"),
   tenant_isolation |->
     Pack("MultiTenant", {"tenant"}, {"rbac"}, "production"),
   audit |-> Pack("Audit", {"audit"}, {}, "production"),
   workflow |-> Pack("Workflow", {"workflow", "approval", "approve", "reject"},
                     {"audit"}, "production"),
   observability |->
     Pack("Observability", {"observability", "metrics", "tracing",
                            "structured logging"}, {}, "production"),
   background_jobs |->
     Pack("BackgroundJobs", {"background job", "worker", "queue", "celery",
                             "asynchronous"},
          {"observability"}, "contract_only"),
   notifications |->
     Pack("Notifications", {"notification", "notify", "email alert"},
          {"background_jobs"}, "contract_only"),
   idempotency |->
     Pack("Idempotency", {"idempotency", "idempotent", "duplicate request"},
          {}, "contract_only"),
   webhooks |->
     Pack("Webhooks", {"webhook"},
          {"background_jobs", "idempotency", "observability"}, "scaffold"),
   soft_delete_retention |->
     Pack("SoftDeleteRetention", {"soft delete", "retention"}, {},
          "contract_only")]

CapabilityIds == DOMAIN CapabilityPacks

(* requested_by_id: the requirements that ask for a capability.            *)
RequestedBy(requirements, c) ==
  {i \in requirements.items :
     /\ i.kind = "capability"
     /\ \/ i.name = CapabilityPacks[c].named
        \/ CapabilityPacks[c].triggers \cap LineSays(i.line) # {}}

InferredCapabilities(plan) ==
  {"observability"}
  \cup (IF plan.roles # {} THEN {"rbac"} ELSE {})
  \cup (IF plan.tenant THEN {"tenant_isolation"} ELSE {})
  \cup (IF plan.audit THEN {"audit"} ELSE {})
  \cup (IF plan.workflows # {} THEN {"workflow"} ELSE {})

(* The while loop of compose adds prerequisites until none is missing: it  *)
(* ends with the smallest set that lacks none.                             *)
PrerequisitesOf(ids) == UNION {CapabilityPacks[c].needs : c \in ids}

Closed(ids) ==
  LET closed == {S \in SUBSET CapabilityIds : ids \cup PrerequisitesOf(S) \subseteq S}
  IN  {c \in CapabilityIds : \A S \in closed : c \in S}

Support(c) ==
  IF CapabilityPacks[c].is = "production" THEN "SUPPORTED"
  ELSE "PARTIALLY_SUPPORTED"

(* compose: no pack of the registry conflicts with another and none is     *)
(* unsupported, so every issue is a warning; packs that are not production *)
(* are the ones with assumptions and limitations.                          *)
Compose(requirements, plan) ==
  LET requested == {c \in CapabilityIds : RequestedBy(requirements, c) # {}}
      selected == Closed(requested \cup InferredCapabilities(plan))
      partial == {c \in selected : Support(c) # "SUPPORTED"}
  IN  [selected |-> selected,
       requested |-> requested,
       limitations |-> partial,
       traced |-> [c \in selected |-> RequestedBy(requirements, c)],
       status |-> IF partial # {} THEN "PARTIALLY_SUPPORTED" ELSE "SUPPORTED"]

(* _apply_capabilities                                                     *)
WithCapabilities(plan, capabilities) ==
  [plan EXCEPT !.capabilities = capabilities.selected,
               !.trace.capability = capabilities.traced]

-----------------------------------------------------------------------------
SupportedMethods == {"GET", "POST", "PATCH", "PUT", "DELETE"}

Issue(code, severity) == [code |-> code, severity |-> severity]

(* negotiate_plan: the issues of a plan.                                   *)
NegotiationIssues(plan) ==
  {Issue("CAP_UNSUPPORTED_FEATURE", "error") : f \in plan.unsupported}
  \cup {Issue("CAP_UNSUPPORTED_ROUTE_METHOD", "error") :
          r \in {x \in plan.routes : x.method \notin SupportedMethods}}
  \cup (IF plan.entities = <<>> THEN {Issue("CAP_NO_ENTITIES", "error")}
        ELSE {})
  \cup {Issue("CAP_RELATIONSHIP_UNRESOLVED_ENTITY", "error") :
          r \in {x \in plan.relationships :
                   ~({x.source, x.target} \subseteq Elements(plan.entities))}}
  \cup {Issue("CAP_COMPOSED_CAPABILITY_PARTIAL", "warning") :
          c \in {x \in plan.capabilities : Support(x) # "SUPPORTED"}}

(* _status                                                                 *)
NegotiatedStatus(issues, assumptions) ==
  IF \E i \in issues : i.severity = "error" THEN "UNSUPPORTED"
  ELSE IF issues # {} THEN "PARTIALLY_SUPPORTED"
  ELSE IF assumptions # {} THEN "SUPPORTED_WITH_ASSUMPTIONS"
  ELSE "SUPPORTED"

(* _supported_features                                                     *)
SupportedFeatures(plan) ==
  {"crud", "typed-routes", "quality-gates", "openapi-contracts"}
  \cup (IF plan.relationships # {} THEN {"relationship-foundation"} ELSE {})
  \cup (IF plan.workflows # {} THEN {"workflow-foundation"} ELSE {})
  \cup (IF plan.tenant THEN {"tenant-foundation"} ELSE {})
  \cup (IF plan.audit THEN {"audit-foundation"} ELSE {})
  \cup plan.capabilities

Negotiate(plan) ==
  LET issues == NegotiationIssues(plan)
  IN  [status |-> NegotiatedStatus(issues, plan.assumptions),
       packs |-> PacksForPlan(plan),
       supported |-> SupportedFeatures(plan),
       unsupported |-> plan.unsupported,
       issues |-> issues]
=============================================================================
