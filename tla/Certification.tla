--------------------------- MODULE Certification ---------------------------
(***************************************************************************)
(* What the offline build says of its own result: the reasons that block   *)
(* it (product/compiler.py), the certificate (certification/evaluator.py), *)
(* the dependency graph and the repair routing (incremental/engine.py).    *)
(*                                                                         *)
(* The stages are functions of the prompt here.  The certificate also      *)
(* repeats them and compares (_variability): the one stage whose result    *)
(* could vary is the resolver, and LatentResolver is about that.           *)
(***************************************************************************)
EXTENDS Target

(* prepare_semantic_context, stage by stage: what the text states, what    *)
(* the architecture and the capabilities make of it, what can be built.    *)
Composed(requirements, stated, capabilities) ==
  LET plan == WithCapabilities(stated, capabilities)
  IN  CanonicalContext(requirements, plan, Resolve(requirements, stated),
                       capabilities, Negotiate(plan))

Planned(requirements, stated) ==
  Composed(requirements, stated, Compose(requirements, stated))

PreparedFrom(requirements, prompt) ==
  Planned(requirements, Applied(PlanFor(prompt), requirements))

ContextOf(prompt) == PreparedFrom(RequirementsOf(prompt), prompt)

(* collapse_text *)
OfflineDocument(context) == Render(context.foundation, context.architecture.pattern)

(* semantic_context_blocking_reasons *)
BlockingReasons(context) ==
  {"contradiction" : c \in context.requirements.contradictions}
  \cup {"ambiguity" : a \in {x \in context.requirements.ambiguities : x.blocking}}
  \cup {r \in {"negotiation"} : context.negotiation.status = "UNSUPPORTED"}
  \cup {r \in {"capabilities"} : context.capabilities.status = "UNSUPPORTED"}
  \cup {"integrity" : i \in context.issues}

-----------------------------------------------------------------------------
ArchitectureResolved(architecture) ==
  LET is(status) == {c \in DOMAIN architecture.candidates :
                       architecture.candidates[c] = status}
  IN  Cardinality(is("selected")) = 1 /\ is("rejected") # {}

-----------------------------------------------------------------------------
(* FailureClassifier: the layer that owns a failure, by its code.          *)
Layer(code) ==
  CASE code \in SyntaxErrors
         \cup {"SEM001", "SEM002", "SEM104", "SEM105", "SEM201", "SEM202",
               "SEM203", "SEM204", "SEM205", "SEM206", "SEM207"} -> "sml"
    [] code \in {"CAP_UNSUPPORTED_FEATURE", "CAP_UNSUPPORTED_ROUTE_METHOD",
                 "CAP_NO_ENTITIES", "CAP_RELATIONSHIP_UNRESOLVED_ENTITY",
                 "CAP_COMPOSED_CAPABILITY_PARTIAL"} -> "capability"
    [] OTHER -> "foundation"

SemanticLayers == {"requirements", "foundation", "architecture", "capability", "sml"}

(* RepairRouter: where a failure may be repaired, and where never.         *)
PermittedPaths(layer) ==
  CASE layer = "requirements" -> {"requirements_ir.json"}
    [] layer = "foundation" -> {"foundation_plan.json"}
    [] layer = "architecture" -> {"architecture_plan.json"}
    [] layer = "capability" -> {"capability_composition.json"}
    [] layer = "sml" -> {"project.sml.md"}

ForbiddenPaths(layer) ==
  IF layer \in SemanticLayers THEN {"generated_app/app/**"} ELSE {}

Directive(code) ==
  [layer |-> Layer(code), retryable |-> Layer(code) \in SemanticLayers,
   permitted |-> PermittedPaths(Layer(code)),
   forbidden |-> ForbiddenPaths(Layer(code))]

-----------------------------------------------------------------------------
(* Faulty variant: contradictions are taken for warnings.                  *)
CertifierBlocksLess(context) ==
  {b \in {"ambiguities", "negotiation", "capabilities"} :
     CASE b = "ambiguities" -> \E a \in context.requirements.ambiguities : a.blocking
       [] b = "negotiation" -> context.negotiation.status = "UNSUPPORTED"
       [] b = "capabilities" -> context.capabilities.status = "UNSUPPORTED"}

(* certify: what rejects, and what only warns.                             *)
CertifierBlocks(context) ==
  {b \in {"contradictions", "ambiguities", "negotiation", "capabilities",
          "architecture", "repair"} :
     CASE b = "contradictions" -> context.requirements.contradictions # {}
       [] b = "ambiguities" -> \E a \in context.requirements.ambiguities : a.blocking
       [] b = "negotiation" -> context.negotiation.status = "UNSUPPORTED"
       [] b = "capabilities" -> context.capabilities.status = "UNSUPPORTED"
       [] b = "architecture" -> ~ArchitectureResolved(context.architecture)
       [] b = "repair" -> "generated_app/app/**" \notin Directive("SEM202").forbidden}

CertifierWarnings(context) ==
  {w \in {"ambiguities", "negotiation", "partial packs"} :
     CASE w = "ambiguities" ->
            context.requirements.ambiguities # {}
            /\ \A a \in context.requirements.ambiguities : ~a.blocking
       [] w = "negotiation" -> context.negotiation.status \in
            {"PARTIALLY_SUPPORTED", "SUPPORTED_WITH_ASSUMPTIONS"}
       [] w = "partial packs" -> context.capabilities.limitations # {}}

(* _metrics, as numerators and denominators.                               *)
Metrics(context) ==
  LET items == context.requirements.items
      explicit == {i \in items : i.origin = "explicit"}
      accepted(s) == Cardinality({i \in s : i.status = "accepted"})
      AtLeastOne(n) == IF n = 0 THEN 1 ELSE n
      partial == {c \in context.capabilities.selected : Support(c) # "SUPPORTED"}
  IN  [requirements_coverage |->
         <<accepted(items), AtLeastOne(Cardinality(items))>>,
       explicit_requirement_coverage |->
         <<accepted(explicit), AtLeastOne(Cardinality(explicit))>>,
       capability_honesty |-> partial \subseteq context.capabilities.limitations,
       unsupported_visibility |->
         \/ context.requirements.unsupported # {}
         \/ \A i \in items : i.status # "unsupported"]

Certify(context) ==
  LET blocking == CertifierBlocks(context)
      warnings == CertifierWarnings(context)
  IN  [status |-> IF blocking # {} THEN "REJECTED"
                  ELSE IF warnings # {} THEN "CONDITIONAL_SUPPORTED_PROFILE"
                  ELSE "CERTIFIED_SUPPORTED_PROFILE",
       blocking |-> blocking, warnings |-> warnings,
       metrics |-> Metrics(context)]

(* The status build_text returns and records.                              *)
BuildStatus(certification) ==
  CASE certification.status = "REJECTED" -> "REJECTED"
    [] certification.status = "CONDITIONAL_SUPPORTED_PROFILE" -> "CONDITIONAL"
    [] certification.status = "CERTIFIED_SUPPORTED_PROFILE" -> "ACCEPTED"

-----------------------------------------------------------------------------
(* SemanticDependencyGraphBuilder.build: what each part of a build depends *)
(* on.  A file materializes the nodes whose names occur in its path; here, *)
(* the models: Product occurs in the files of ProductCreate as well.       *)
Materializes(doc) ==
  {<<"DataModel:" \o SchemaName(x[1]), x[3]>> :
     x \in {y \in Models(doc) \X Models(doc) \X GeneratedFiles(doc) :
             /\ y[1] \in {y[2], Schema(y[2].of, "")}
             /\ y[3] \in ModelFiles(doc, y[2])}}

DependencyGraph(context, doc) ==
  LET requirement(i) == i.kind \o ":" \o i.name
      items == context.requirements.items
  IN  {<<requirement(i), "foundation.plan">> : i \in items}
      \cup {<<"foundation.plan", "architecture.plan">>,
            <<"foundation.plan", "capability.composition">>,
            <<"architecture.plan", "sml.project">>,
            <<"capability.composition", "sml.project">>}
      \cup {<<"sml.project", n[1] \o ":" \o n[2]>> : n \in NodesOf(doc)}
      \cup {<<"sml.project", f>> : f \in TreeFiles(doc)}
      \cup Materializes(doc)
=============================================================================
