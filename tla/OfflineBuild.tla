---------------------------- MODULE OfflineBuild ----------------------------
(***************************************************************************)
(* SchrodingerProductCompiler.build_text (product/compiler.py) in one      *)
(* output directory: the traced stages, the checks between them, the       *)
(* incremental writer, the artifacts, the run record and the build         *)
(* manifest, in the order in which the code has them; several builds of    *)
(* several prompts in a row, users who edit the generated files in between,*)
(* and processes that are killed.                                          *)
(*                                                                         *)
(* What the stages compute is a parameter here: StageOutputs takes it from *)
(* the modules of the pipeline.  A content stands for its SHA-256: it is   *)
(* the number of a prompt for which the stage computes just that.          *)
(***************************************************************************)
EXTENDS IncrementalWriter, TraceLog

CONSTANTS
  Prompts,     (* numbers                                                   *)
  Requests,    (* pairs of a prompt and whether allow_partial is given      *)
  Made,        (* what a build of each prompt makes, a record with: output, *)
               (* the content of each stage and artifact; tree, the files of*)
               (* the application, and count, how many they are; conforms,  *)
               (* blocked and compiles, the verdicts of the checks; status, *)
               (* the one of the certificate                                *)
  MaxBuilds    (* bound: how many builds start in the directory             *)

ASSUME PromptsAssumption == Prompts \subseteq Contents
ASSUME RequestsAssumption == Requests \subseteq Prompts \X BOOLEAN
ASSUME BuildsAssumption == MaxBuilds \in Nat

VARIABLES
  step,      (* place in Script of what the running build does next, or 0   *)
  request,   (* locals of the running (or last) build                       *)
  trace,     (* generation_trace.jsonl                                      *)
  artifacts, (* the files of ArtifactNames                                  *)
  record,    (* generation_run.json                                         *)
  manifest,  (* build_manifest.json                                         *)
  former,    (* history: the trace the running (or last) build overwrote    *)
  kills

buildVars == <<step, request, trace, artifacts, record, manifest, former, kills>>
vars == <<writerVars, buildVars>>

-----------------------------------------------------------------------------
Stages ==
  <<"requirements", "foundation", "architecture", "capabilities", "negotiation",
    "canonical_semantic_context", "sml", "semantic_conformance",
    "sir_and_target_generation", "dependency_graph", "certification">>

ArtifactNames ==
  <<"requirements_ir.json", "foundation_plan.json", "architecture_plan.json",
    "capability_composition.json", "capability_negotiation.json",
    "canonical_semantic_context.json", "project.sml.md",
    "semantic_conformance.json", "sir.json", "dependency_graph.json",
    "artifact_diff.json", "certification_report.json">>

StageNames == {Stages[i] : i \in DOMAIN Stages}
ArtifactSet == {ArtifactNames[i] : i \in DOMAIN ArtifactNames}

(* Faulty variant: the record is written before the artifacts.              *)
RecordFirst ==
  Stages \o <<"generated_app", "index", "generation_run.json">> \o ArtifactNames
    \o <<"task_output", "build_manifest.json">>

(* The order of build_text, for a build that nothing stops.                *)
Script ==
  Stages \o <<"generated_app", "index">> \o ArtifactNames
    \o <<"task_output", "generation_run.json", "build_manifest.json">>

Running == step # 0
At(name) == Running /\ Script[step] = name
AtStage == Running /\ Script[step] \in StageNames
AtArtifact == Running /\ Script[step] \in ArtifactSet
Advanced == step' = step + 1
Ended == step' = 0

(* What a hash of every file of the directory sees; _write_build_manifest  *)
(* leaves out the manifest, artifact_references the record as well.        *)
Seen == [trace |-> trace, artifacts |-> artifacts, disk |-> disk, index |-> index]

made == request.made

NoRequest == [prompt |-> 0, made |-> <<>>, partial |-> FALSE, id |-> 0, next |-> 1]

Statuses == {"ACCEPTED", "CONDITIONAL", "REJECTED"}

(* What the pipeline makes of a prompt.                                    *)
Making ==
  [output : [StageNames \cup ArtifactSet -> Prompts], tree : Generated, count : Nat,
   conforms : BOOLEAN, blocked : BOOLEAN, compiles : BOOLEAN, status : Statuses]

ASSUME MadeAssumption == \A p \in Prompts : Made[p] \in Making

-----------------------------------------------------------------------------
(* The output directory is new.  (Tinker may put a file into it.)          *)
Init ==
  /\ WriterInit
  /\ disk = Nowhere
  /\ step = 0
  /\ request = NoRequest
  /\ trace = <<>>
  /\ artifacts = [name \in ArtifactSet |-> Absent]
  /\ record = Absent
  /\ manifest = Absent
  /\ former = <<>>
  /\ kills = 0

(* Faulty variant: a new trace is appended to the old one.                  *)
AskOnceMore(p, partial) ==
  /\ ~Running /\ request.id < MaxBuilds
  /\ request' = [prompt |-> p, made |-> Made[p], partial |-> partial,
                 id |-> request.id + 1, next |-> 1]
  /\ trace' = Append(trace, Header(request'.id, p))
  /\ former' = trace
  /\ step' = 1
  /\ UNCHANGED <<artifacts, record, manifest, kills, writerVars>>

(* build_text begins: the TraceRecorder overwrites the trace.              *)
Ask(p, partial) ==
  /\ ~Running /\ request.id < MaxBuilds
  /\ request' = [prompt |-> p, made |-> Made[p], partial |-> partial,
                 id |-> request.id + 1, next |-> 1]
  /\ trace' = <<Header(request'.id, p)>>
  /\ former' = trace
  /\ step' = 1
  /\ UNCHANGED <<artifacts, record, manifest, kills, writerVars>>

(* The input of a stage: the text, what the stage before it made, or only  *)
(* a number (of files, of repetitions).                                    *)
InputOf(stage) ==
  CASE stage = "requirements" -> request.prompt
    [] stage \in {"foundation", "architecture"} ->
         made.output["requirements"]
    [] stage \in {"capabilities", "negotiation", "canonical_semantic_context"} ->
         made.output[Stages[step - 1]]
    [] stage \in {"sml", "semantic_conformance"} ->
         made.output["canonical_semantic_context"]
    [] stage = "sir_and_target_generation" -> made.output["sml"]
    [] stage = "dependency_graph" -> made.count
    [] stage = "certification" -> 3

(* A span is written when it is left: _allocate, _append.                  *)
Recorded(stage, output, failed) ==
  /\ trace' = Append(trace, Span(request.id, request.next, stage, InputOf(stage),
                                 output, failed))
  /\ request' = [request EXCEPT !.next = @ + 1]

(* Faulty variant: only what does not conform stops the build.              *)
StopsOnlyNonconformant ==
  At("sir_and_target_generation") /\ ~made.conforms

(* Where collapse_text or the blocking check raises.                       *)
StopsHere ==
  At("sir_and_target_generation")
    /\ (~made.conforms \/ (made.blocked /\ ~request.partial))

(* _run_stage, of a stage that returns.                                    *)
RunStage ==
  /\ AtStage /\ ~StopsHere
  /\ At("sir_and_target_generation") => made.compiles
  /\ Recorded(Script[step], made.output[Script[step]], FALSE)
  /\ Advanced
  /\ UNCHANGED <<artifacts, record, manifest, former, kills, writerVars>>

(* collapse_text raises: the rendered document does not conform.           *)
RaiseNonconformant ==
  /\ At("sir_and_target_generation") /\ ~made.conforms
  /\ Ended
  /\ UNCHANGED <<request, trace, artifacts, record, manifest, former, kills, writerVars>>

(* The blocking reasons are recorded as the output of the task, and raised.*)
RejectBlocked ==
  /\ StopsHere /\ made.conforms
  /\ trace' = Append(trace, TaskOutput(request.id, "REJECTED"))
  /\ Ended
  /\ UNCHANGED <<request, artifacts, record, manifest, former, kills, writerVars>>

(* _run_stage, of a compilation that raises: the span has the error.       *)
CompileFails ==
  /\ At("sir_and_target_generation") /\ ~StopsHere
  /\ ~made.compiles
  /\ Recorded("sir_and_target_generation", 0, TRUE)
  /\ Ended
  /\ UNCHANGED <<artifacts, record, manifest, former, kills, writerVars>>

-----------------------------------------------------------------------------
(* The writer brings generated_app to the files of the document.           *)
EnterWriter ==
  /\ At("generated_app")
  /\ BeginWith(made.tree)
  /\ Advanced
  /\ UNCHANGED <<request, trace, artifacts, record, manifest, former, kills>>

WriterGoesOn == At("index") /\ (Emit \/ EndLoop) /\ UNCHANGED buildVars

LeaveWriter ==
  /\ At("index") /\ WriteIndex
  /\ Advanced
  /\ UNCHANGED <<request, trace, artifacts, record, manifest, former, kills>>

(* The diff says how each path concerned was changed.                      *)
Diff == [p \in Concerned |-> ChangeOf(p)]

(* _write_json, in the order of the names.                                 *)
WriteArtifact ==
  /\ AtArtifact
  /\ artifacts' = [artifacts EXCEPT ![Script[step]] =
                     IF Script[step] = "artifact_diff.json" THEN Diff
                     ELSE made.output[Script[step]]]
  /\ Advanced
  /\ UNCHANGED <<request, trace, record, manifest, former, kills, writerVars>>

SetTaskOutput ==
  /\ At("task_output")
  /\ trace' = Append(trace, TaskOutput(request.id, made.status))
  /\ Advanced
  /\ UNCHANGED <<request, artifacts, record, manifest, former, kills, writerVars>>

(* build_generation_run_record: the artifact references are taken from the *)
(* directory as it is.                                                     *)
WriteRecord ==
  /\ At("generation_run.json")
  /\ record' = [id |-> request.id, prompt |-> request.prompt,
                status |-> made.status, seen |-> Seen]
  /\ Advanced
  /\ UNCHANGED <<request, trace, artifacts, manifest, former, kills, writerVars>>

WriteManifest ==
  /\ At("build_manifest.json")
  /\ manifest' = [seen |-> Seen, record |-> record]
  /\ Ended
  /\ UNCHANGED <<request, trace, artifacts, record, former, kills, writerVars>>

-----------------------------------------------------------------------------
(* The process is killed, and leaves torn what it was writing.             *)
TearTrace ==
  /\ AtStage \/ At("task_output")
  /\ trace' = Append(trace, TornLine)
  /\ UNCHANGED <<artifacts, record, manifest>>

TearHeader ==
  /\ step = 1
  /\ trace' \in {<<>>, <<TornLine>>}
  /\ UNCHANGED <<artifacts, record, manifest>>

TearArtifact ==
  /\ AtArtifact
  /\ artifacts' = [artifacts EXCEPT ![Script[step]] = Torn]
  /\ UNCHANGED <<trace, record, manifest>>

TearRecord ==
  /\ At("generation_run.json") /\ record' = Torn
  /\ UNCHANGED <<trace, artifacts, manifest>>

TearManifest ==
  /\ At("build_manifest.json") /\ manifest' = Torn
  /\ UNCHANGED <<trace, artifacts, record>>

Kill ==
  /\ Running /\ kills < MaxCrashes
  /\ kills' = kills + 1
  /\ Ended
  /\ \/ At("index") /\ Crash /\ UNCHANGED <<trace, artifacts, record, manifest>>
     \/ ~At("index") /\ UNCHANGED writerVars
          /\ \/ TearTrace \/ TearHeader \/ TearArtifact \/ TearRecord \/ TearManifest
             \/ UNCHANGED <<trace, artifacts, record, manifest>>
  /\ UNCHANGED <<request, former>>

(* A user adds, deletes or edits a file of generated_app before the first  *)
(* or between two builds (bound: one edit).                                *)
Tinker ==
  /\ ~Running /\ ~edited /\ request.id < MaxBuilds
  /\ Edit
  /\ \A p \in Paths : disk'[p] # disk[p] => disk'[p] \in {Absent, 0}
  /\ UNCHANGED buildVars

Finished ==
  /\ ~Running /\ request.id = MaxBuilds
  /\ UNCHANGED vars

Build ==
  \/ \E r \in Requests : Ask(r[1], r[2])
  \/ RunStage \/ RaiseNonconformant \/ RejectBlocked \/ CompileFails
  \/ EnterWriter \/ WriterGoesOn \/ LeaveWriter
  \/ WriteArtifact \/ SetTaskOutput \/ WriteRecord \/ WriteManifest

Next == Build \/ Kill \/ Tinker \/ Finished

Spec == Init /\ [][Next]_vars
-----------------------------------------------------------------------------
(* A build that will not get a generated application.                      *)
Hopeless ==
  Running /\ \/ ~made.conforms
             \/ made.blocked /\ ~request.partial
             \/ ~made.compiles

(* generation_run.json names its trace: where that trace still stands, the *)
(* directory is that of one build from beginning to end.  The trace loads, *)
(* is complete and has the status of the record; each artifact, and each   *)
(* generated file the record refers to, is the one of that prompt.  A      *)
(* manifest that verifies vouches for such a record.  Whatever other       *)
(* builds were blocked, failed, killed or overwritten before and after.    *)
RecordIsOfTrace ==
  record \notin {Absent, Torn} /\ trace # <<>>
    /\ trace[1] = Header(record.id, record.prompt)

EvidenceIsOfOneBuild ==
  /\ RecordIsOfTrace =>
       LET promised == Made[record.prompt]
       IN  /\ Loads(trace)
           /\ trace[Len(trace)] = TaskOutput(record.id, record.status)
           /\ \A name \in ArtifactSet \ {"artifact_diff.json"} :
                artifacts[name] = promised.output[name]
           /\ record.seen.artifacts = artifacts
           /\ \A path \in Listed(promised.tree) :
                record.seen.disk[path] = promised.tree[path]
  /\ manifest \notin {Absent, Torn} =>
       (manifest.seen = Seen /\ manifest.record = record => RecordIsOfTrace)

(* A build that is blocked, does not conform or does not compile leaves    *)
(* tree, artifacts, record and manifest of earlier builds as they are: it  *)
(* only overwrites the trace.                                              *)
FailsClosed ==
  [][Hopeless => UNCHANGED <<disk, index, artifacts, record, manifest>>]_vars

(* load_trace accepts what TraceRecorder leaves at any time, unless a line *)
(* is torn; and where there is a task output, it is the last line and all  *)
(* stages up to the verdict it reports have been recorded.                 *)
StagesOf(t) == [i \in DOMAIN SpansOf(t) |-> SpansOf(t)[i].name]

TracesLoad ==
  Whole(trace) =>
    /\ Loads(trace)
    /\ HasOutput(trace) =>
         /\ trace[Len(trace)].t = "task_output"
         /\ \/ StagesOf(trace) = Stages
            \/ /\ StagesOf(trace) = SubSeq(Stages, 1, 8)
               /\ trace[Len(trace)].status = "REJECTED"

(* Of two runs in this directory, one after the other: compare_traces      *)
(* calls them equivalent exactly when they were of one prompt and both, or *)
(* neither, went past the blocking check; and the census never finds a     *)
(* divergence between runs of one prompt.                                  *)
TracesTellRuns ==
  (\A t \in {former, trace} : Whole(t) /\ HasOutput(t)) =>
    LET onePrompt == former[1].input = trace[1].input
    IN  /\ Equivalent(former, trace) <=> onePrompt /\ Len(former) = Len(trace)
        /\ onePrompt => ~Divergent({former, trace})

-----------------------------------------------------------------------------
(* Types.                                                                  *)
Values == Prompts \cup Nat

Line ==
  [t : {"header"}, trace : Nat, input : Prompts]
    \cup [t : {"span"}, trace : Nat, span : Nat, parent : {0}, name : StageNames,
          input : Values, output : Values, failed : BOOLEAN]
    \cup [t : {"task_output"}, trace : Nat, status : Statuses]
    \cup {TornLine}

Changes == {"added", "removed", "modified", "unchanged"}
Diffs == UNION {[concerned -> Changes] : concerned \in SUBSET Paths}
Artifacts == [ArtifactSet -> Prompts \cup Diffs \cup {Absent, Torn}]

Directory ==
  [trace : Seq(Line), artifacts : Artifacts, disk : Files,
   index : Generated \cup {Absent, Torn}]

RunRecord == [id : Nat, prompt : Prompts, status : Statuses, seen : Directory]

ASSUME RecordsAssumption == {Absent, Torn} \cap RunRecord = {}

(* A request is that of a prompt, or none has been made.                   *)
Asked ==
  [prompt : Prompts, made : Making, partial : BOOLEAN, id : Nat \ {0}, next : Nat]

RequestOK ==
  request = NoRequest \/ (request \in Asked /\ request.made = Made[request.prompt])

(* Type invariant.                                                         *)
BuildTypes ==
  /\ TypeOK
  /\ step \in 0..28
  /\ RequestOK
  /\ trace \in Seq(Line)
  /\ artifacts \in Artifacts
  /\ record \in RunRecord \cup {Absent, Torn}
  /\ manifest \in [seen : Directory, record : RunRecord \cup {Absent, Torn}]
                    \cup {Absent, Torn}
  /\ former \in Seq(Line)
  /\ kills \in Nat

-----------------------------------------------------------------------------
(* The inductive invariant behind the theorems of OfflineBuildProofs.      *)
(* A running build has its request, and a hopeless one has not left the    *)
(* stages before the compilation.                                          *)
RequestInv == Running => request.id # 0
HopelessInv == Hopeless => step \in 1..9

(* The writer runs inside its two steps, on the tree of the build, and has *)
(* returned in the steps after them.                                       *)
WriterPlace ==
  /\ wpc # "idle" <=> step = 13
  /\ step \in 13..28 => job.after = made.tree
  /\ step \in 14..28 => job.ended = "returned"

(* The span of the i-th stage of build id of prompt p, when it returns.    *)
GivenTo(p, i) ==
  CASE i = 1 -> p
    [] i \in {2, 3} -> Made[p].output["requirements"]
    [] i \in 4..6 -> Made[p].output[Stages[i - 1]]
    [] i \in {7, 8} -> Made[p].output["canonical_semantic_context"]
    [] i = 9 -> Made[p].output["sml"]
    [] i = 10 -> Made[p].count
    [] i = 11 -> 3

SpanAt(id, p, i) ==
  Span(id, i, Stages[i], GivenTo(p, i), Made[p].output[Stages[i]], FALSE)

(* The first n lines of the trace of a build that nothing stops, and the   *)
(* traces of one that is blocked and of one that does not compile.         *)
TraceUpTo(id, p, n) ==
  [i \in 1..n |-> IF i = 1 THEN Header(id, p)
                  ELSE IF i <= 12 THEN SpanAt(id, p, i - 1)
                  ELSE TaskOutput(id, Made[p].status)]

RejectedTrace(id, p) == Append(TraceUpTo(id, p, 9), TaskOutput(id, "REJECTED"))

FailedTrace(id, p) ==
  Append(TraceUpTo(id, p, 9),
         Span(id, 9, Stages[9], GivenTo(p, 9), 0, TRUE))

IsTraceOf(t, id, p) ==
  \/ \E n \in 1..13 : t = TraceUpTo(id, p, n)
  \/ t = RejectedTrace(id, p)
  \/ t = FailedTrace(id, p)

LinesBefore(s) == IF s <= 12 THEN s ELSE IF s <= 26 THEN 12 ELSE 13

TraceInv ==
  /\ Running => /\ trace = TraceUpTo(request.id, request.prompt, LinesBefore(step))
               /\ request.next = IF step <= 12 THEN step ELSE 12
  /\ trace # <<>> /\ trace[1] # TornLine =>
       request.id # 0 /\ trace[1] = Header(request.id, request.prompt)
  /\ Whole(trace) => IsTraceOf(trace, request.id, request.prompt)
  /\ Whole(former) => \E id \in 1..request.id, p \in Prompts : IsTraceOf(former, id, p)

(* The artifacts a running build has written are those of its prompt.      *)
ArtifactsInv ==
  Running =>
    \A k \in 1..12 :
      step > 13 + k /\ ArtifactNames[k] # "artifact_diff.json" =>
        artifacts[ArtifactNames[k]] = made.output[ArtifactNames[k]]

(* Until the next build begins, a record is about the directory it is in.  *)
RecordInv ==
  record \notin {Absent, Torn} =>
    /\ record.id \in 1..request.id
    /\ step \in 1..27 => record.id # request.id
    /\ record.id = request.id =>
         /\ record.prompt = request.prompt
         /\ record.status = made.status
         /\ trace = TraceUpTo(request.id, request.prompt, 13)
         /\ \A name \in ArtifactSet \ {"artifact_diff.json"} :
              artifacts[name] = made.output[name]
         /\ record.seen.artifacts = artifacts
         /\ \A path \in Listed(made.tree) : record.seen.disk[path] = made.tree[path]

(* A manifest was written over a record, and over the trace it names.      *)
ManifestInv ==
  /\ step = 28 => record \notin {Absent, Torn} /\ record.id = request.id
  /\ manifest \notin {Absent, Torn} =>
       /\ manifest.record \notin {Absent, Torn}
       /\ manifest.seen.trace # <<>>
       /\ manifest.seen.trace[1] = Header(manifest.record.id, manifest.record.prompt)

BuildInv ==
  RequestInv /\ HopelessInv /\ WriterPlace /\ TraceInv /\ ArtifactsInv
    /\ RecordInv /\ ManifestInv
=============================================================================
