--------------------------- MODULE MCOfflineBuild ---------------------------
(***************************************************************************)
(* Prompts that take the ways a build has: in memory, with a database, one *)
(* that is blocked by a contradiction, one whose document does not conform,*)
(* one that is blocked and does not compile.                               *)
(***************************************************************************)
EXTENDS OfflineBuild, StageOutputs

Sentence(words) == [section |-> {}, bullet |-> FALSE, name |-> "", says |-> words]

MCLines ==
  << Sentence({"inventory", "product", "stock", "manage"}),
     Sentence({"postgres", "po"}),
     Sentence({"in-memory"}),
     Sentence({"no authentication"}),
     Sentence({"leave", "hr", "employee", "approval"}),
     Sentence({"stock", "threshold", "hr"}) >>

MCPromptLines == <<{1}, {1, 2}, {1, 2, 3}, {1, 4}, {6}>>
MCRequests == {<<1, FALSE>>, <<2, FALSE>>, <<3, FALSE>>, <<3, TRUE>>, <<4, FALSE>>,
               <<5, TRUE>>}
MCPathNames == <<"app_contract.json", "app/db/session.py">>

-----------------------------------------------------------------------------
(* Which prompts share the result of a stage, or an artifact: the least of *)
(* them stands for the content.                                            *)
MCOutput(name) ==
  CASE name \in {"architecture", "architecture_plan.json"} -> <<1, 1, 1, 1, 5>>
    [] name \in {"negotiation", "capability_negotiation.json"} -> <<1, 2, 2, 1, 5>>
    [] name \in {"capabilities", "capability_composition.json"} ->
         <<1, 1, 1, 1, 1>>
    [] OTHER -> <<1, 2, 3, 4, 5>>

MCOutputs(p) == [name \in StageNames \cup ArtifactSet |-> MCOutput(name)[p]]

MCResult(p, tree, count, conforms, blocked, compiles, status) ==
  [output |-> MCOutputs(p), tree |-> tree, count |-> count,
   conforms |-> conforms, blocked |-> blocked, compiles |-> compiles,
   status |-> status]

MCMade ==
  << MCResult(1, <<1, Absent>>, 61, TRUE, FALSE, TRUE, "CONDITIONAL"),
     MCResult(2, <<2, 2>>, 73, TRUE, FALSE, TRUE, "CONDITIONAL"),
     MCResult(3, <<3, 2>>, 73, TRUE, TRUE, TRUE, "REJECTED"),
     MCResult(4, <<4, Absent>>, 61, FALSE, FALSE, TRUE, "CONDITIONAL"),
     MCResult(5, <<5, Absent>>, 66, TRUE, TRUE, FALSE, "CONDITIONAL") >>

(* The table is what the pipeline makes of the prompts.                    *)
ASSUME MadeByPipeline ==
  /\ \A name \in StageNames \cup ArtifactSet : SameContents(Made, name)
  /\ \A p \in Prompts : SameVerdicts(Made, p) /\ Made[p].count = Cardinality(FilesFor[p])
  /\ SameTrees(Made, MCPathNames, Absent)
=============================================================================
