---------------------------- MODULE StageOutputs ----------------------------
(***************************************************************************)
(* What the stages and artifacts of an offline build hold for a sequence   *)
(* of prompts, as far as OfflineBuild asks: tables for its constants.      *)
(***************************************************************************)
EXTENDS Certification

CONSTANT PromptLines   (* for the number of a prompt: its lines             *)

ContextFor == [p \in DOMAIN PromptLines |-> ContextOf(PromptLines[p])]
DocumentFor == [p \in DOMAIN PromptLines |-> OfflineDocument(ContextFor[p])]
FilesFor == [p \in DOMAIN PromptLines |-> TreeFiles(DocumentFor[p])]

(* What a file of the tree says, of those that are looked at.              *)
FileSays(path, doc) ==
  CASE path = "app_contract.json" -> AppContract(doc)
    [] path = "app/db/session.py" -> RouteEntities(doc)

(* _stage_output and the arguments of _write_json: the result of a stage,  *)
(* or what is in an artifact.                                              *)
Yields(name, p) ==
  CASE name = "foundation" -> PlanFor(PromptLines[p])
    [] name = "foundation_plan.json" -> ContextFor[p].foundation
    [] name \in {"architecture", "architecture_plan.json"} ->
         ContextFor[p].architecture
    [] name \in {"capabilities", "capability_composition.json"} ->
         ContextFor[p].capabilities
    [] name \in {"negotiation", "capability_negotiation.json"} ->
         ContextFor[p].negotiation
    [] name \in {"sml", "project.sml.md", "sir_and_target_generation",
                 "sir.json"} -> DocumentFor[p]
    [] name \in {"dependency_graph", "dependency_graph.json"} ->
         DependencyGraph(ContextFor[p], DocumentFor[p])
    [] name \in {"certification", "certification_report.json"} ->
         <<ContextFor[p].requirements, DocumentFor[p], Certify(ContextFor[p])>>
    [] OTHER -> p   (* it has the digest of the text in it                 *)

Present(path, p) == path \in FilesFor[p]

(* A table of what builds of the prompts make has the contents, the files  *)
(* and the verdicts that the pipeline computes.                            *)
SameContents(made, name) ==
  \A p, q \in DOMAIN PromptLines :
    made[p].output[name] = made[q].output[name] <=> Yields(name, p) = Yields(name, q)

SameTrees(made, names, absent) ==
  \A path \in DOMAIN names, p, q \in DOMAIN PromptLines :
    /\ (made[p].tree[path] = absent) <=> ~Present(names[path], p)
    /\ Present(names[path], p) /\ Present(names[path], q) =>
         (made[p].tree[path] = made[q].tree[path] <=>
            FileSays(names[path], DocumentFor[p]) = FileSays(names[path], DocumentFor[q]))

SameVerdicts(made, p) ==
  /\ made[p].conforms <=> Conforms(ContextFor[p], DocumentFor[p])
  /\ made[p].blocked <=> BlockingReasons(ContextFor[p]) # {}
  /\ \A ruff \in BOOLEAN : made[p].compiles <=> Refusals(DocumentFor[p], ruff) = {}
  /\ made[p].status = BuildStatus(Certify(ContextFor[p]))
=============================================================================
