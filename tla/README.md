# A verification project for Schrödinger SSM

TLA+ models, TLC configurations and TLAPS proofs of the Python package in
`src/src/ssm` (paths below are relative to it unless they start with `src/`).
The program compiles a raw product intent into a FastAPI application, offline
or with a language model, and wraps this pipeline in a research harness that
records, repeats and compares runs.

## The system

    raw intent -> RequirementsIR -> foundation plan -> architecture plan
      -> capability composition -> negotiation -> CanonicalSemanticContext
      -> offline renderer | online synthesis -> conformance verifier
      -> SSMCompiler (parse, SIR, logic closure, resolver, target)
      -> generated application -> GenerationRunRecord, trace
      -> registry, contracts, assay, studies 1, 1B and 2

| Component | State it keeps | Operations | What must be right |
|---|---|---|---|
| Online build loop, `foundation/builder.py` | the output directory: context, draft, conformance report, numbered reports, SIR, generated tree, repair trace, trace, record | `build` | a published ACCEPTED record describes one verified draft; record last; blocked intents never reach a provider; bounded calls |
| Online draft service, `agents/online.py` | trace spans, audit log | `draft_context` and its retries | every call but a last, interrupted one has its span; only usable drafts leave it |
| Provider client, `agents/providers.py` | none | `post_json` with retries | bounded retries, classification of errors |
| Study 1B arm, `auto_research/study1b.py` | a directory per case and replicate, arm summary, qualification summary | qualify, run, resume, analyse | a resume repeats and loses nothing; the summary describes the records; metrics are of the right observation |
| Study 2 arm, `auto_research/study2.py` | the same, and source provenance | gate, stamp | a stamp names the source that was observed |
| Incremental writer, `incremental/engine.py` | generated tree and hash index | `write` | converges to the generated tree, touches nothing else, is idle when repeated |
| Registry, `auto_research/registry.py` | object and entry files | `add`, `get`, `verify` | objects are immutable, entries have objects |
| In-memory resource, emitted by `backends/python_fastapi/target.py` | items of one entity, audit log | create, update, delete (list, get) | tenants are isolated, unique fields are unique, updates are exact, audit tells what exists |
| Workflow runtime, emitted by `backends/python_fastapi/platform.py` | one row per resource, audit log | `transition`, route, `get_db` | state follows edges, transition and audit (where it is on) are one transaction, whatever becomes of the answer |
| Logic engine and resolver, `logic`, `resolver` | none (pure) | `closure`, `resolve` | least fixpoint, grounded proofs, one result whatever the order of facts |
| Compiler pipeline, `pipeline.py`, `frontend`, `semantic` | none (pure) | `compile_text` | stage order, refusal on errors |
| Offline product compiler, `product/compiler.py` | the output directory | `build_text`, `collapse_text` | evidence is of one build; nothing but the trace changes when it fails |
| Planners: `requirements`, `foundation`, `architecture`, `capabilities`, `domain_packs` | none (pure) | extract, plan, compose, negotiate | what the text states reaches the application; blocking reasons |
| Renderer and verifier, `foundation/renderer.py`, `product/semantic_context.py` | none (pure) | `render`, `verify` | they agree; an accepted document keeps the context |
| FastAPI target, `backends/python_fastapi` | none (pure) | `generate` | files import what exists; the contract says what is built |
| Trace recorder, `auto_research/trace.py` | a JSONL file | record, `load_trace`, census, compare | traces load and tell runs apart |
| Records and contracts, `auto_research/records.py`, `contracts.py` | none | build, verify | identity covers content |
| Assay, `auto_research/assay.py` | none (pure) | `compare_releases` | verdict order, pairing |
| Certification, evidence | none | evaluate | no PASS without evidence |
| CLI, scripts, RAG, offline agents | none | | |

Interactions are calls inside one process and files between processes. Nothing
in the package locks a file or writes it atomically: `write_text` empties and
fills a file in place. What is hard about this system is therefore

* what a killed process leaves in a directory, and what the next one makes of
  it (builder, study arms, incremental writer, registry);
* failures and retries inside nested loops, with artifacts of several attempts
  in one directory;
* two processes in one registry; and, in the generated application, worker
  threads that run read-modify-write sequences on one row or one item;
* results that could depend on the order in which a Python set is walked.

## Modules

* `BuildContract` is what an online build promises to a reader of its
  directory: one outcome at a time, an ACCEPTED one names one verified draft of
  the build that published it.
* `OnlineBuild` is `OnlineBuildService.build` with the provider loop of
  `OnlineDraftService.draft_context`. `pc` names the point of the function,
  `build` its locals, `disk` the files, `calls` the provider calls. A call and
  the span recorded for it are two steps (`CallProvider`; `UsableAnswer`,
  `MalformedAnswer`, `FailedTry`), and the process may die or raise between
  them: only then is a call without a span. Every write is an action of its own, since the process may die between two of them;
  `Start` may follow in the directory that is left. A draft is its origin
  (build, attempt) and the first check that will refuse it, so a fingerprint
  tells which draft a file stems from. `INSTANCE BuildContract` with a
  refinement mapping gives `ImplementsContract`.
* A module `...Proofs` EXTENDS the module it is named after and holds the
  theorems about it.
* `StudyArm` is `run_online_repeated_arm` with `observe_online_case` for each
  cell and, where `job.stamping` holds, `run_online_mutant_arm` around it.
  `dir` is the replicate directories; each file carries the number of the
  observation that made it. A build is reduced to what the arm reads of it.
* `IncrementalWriter` is `IncrementalArtifactWriter.write`: one step of the
  loop over the sorted paths per `Emit`, then the removal of empty directories
  and the index. Users edit between writes. TLC checks it
  as part of `OfflineBuild`; its theorems are the first part of
  `OfflineBuildProofs`.
* `TraceLog` is the trace file of a run: its lines, what `load_trace` accepts,
  `determinism_census` and `compare_traces`.
* `OfflineBuild` EXTENDS both: `SchrodingerProductCompiler.build_text` in one
  directory. `Script` is the order of its stages, checks and writes, `step` the
  place in it; the writer runs with its own actions; users edit and processes
  are killed. What the stages compute is the constant `Made`; in
  `MCOfflineBuild` that table is compared, by an ASSUME, with what the modules
  of the pipeline compute for five prompts (`StageOutputs`).
* `Document`, `Foundation`, `Requirements`, `Capabilities`, `Architecture`,
  `Conformance`, `Target`, `Certification`: the pipeline as operators, each
  module extending the one before. They have no state, as the code has none:

  | Module | Translates |
  |---|---|
  | `Document` | a parsed SML document (sections by type with their values), `parse_fields`, schema names, the analyzer's SEM diagnostics and its facts (`semantic/`, `frontend/parser.py`) |
  | `Foundation` | `select_domain_packs` and `AppFoundationPlanner.plan` with the built-in packs |
  | `Requirements` | `IntentRequirementsCompiler.compile_text` and `_apply_requirements` |
  | `Capabilities` | the capability packs, `CapabilityComposer.compose`, `_apply_capabilities`, `CapabilityNegotiator.negotiate_plan` |
  | `Architecture` | `ConstrainedArchitectureResolver.resolve` |
  | `Conformance` | `FoundationSMLRenderer.render`, `build_canonical_semantic_context`, and `SemanticConformanceVerifier.verify` |
  | `Target` | LOG201 and the FastAPI target: route plans, TGT201, TGT202 and TGT203 (defaults of dates), the canonicalisation by ruff, tenant scope, constraints, local rules, application contract, the files and what they import |
  | `Certification` | the order of `prepare_semantic_context`, blocking reasons, `SeniorGradeCertifier`, build status, dependency graph, failure classes and repair directives |

  A prompt is a set of lines; a line is the set of the words of the code's
  lists that occur in it, with its heading if it stands under one. A schema is
  the record of what it is of and its suffix, so that names are compared as the
  code compares them.
* `Synthesis` puts them in the order of the three ways through the program
  (offline build, online build with the verifier between, direct compilation),
  and enumerates for each document the ways in which a model or an editor may
  deviate from it (`Deviations`). Whether the machine has `ruff` is the environment's choice:
  only with it does the target look at the code it has generated.
* `Registry` is `ContentAddressedRegistry.add` for one payload and several
  processes: digest check, second look, object, entry, each file opened (and
  so emptied) and then filled.
* `WorkflowRuntime` is the transition endpoint of a generated SQLAlchemy
  application: load, verdict, reread, flush, audit, commit, answer, or a failure
  at any point. Before the commit a failure rolls back (`error`); after it the
  transition stands and only its answer is lost (`lost`). `enabled` is the
  constant `AUDIT_ENABLED` of the generated application, which is on or off:
  `SynthesisGuarantees.cfg` shows that an application with workflows may be
  built without auditing. The database is external: READ COMMITTED, a row lock from flush to
  the end of the transaction, a unique key.
* `EntityStore` is a tenant-scoped resource of a generated application with
  in-memory repositories: service and repository of create, update and delete,
  split where the code releases the repository's lock, and the audit event that
  follows. Worker threads serve requests at the same time.
* `LogicEngine` is `LogicEngine.closure` as a state machine: one step per match
  of a rule, the passes over the rules around it. A rule is the set of its
  ground instances, taken in any order. `Closure` is what it should return: the
  least closed superset of the asserted facts.
* `LatentResolver` EXTENDS it: `compile_text` from the analyzer's facts through
  `check_required_artifacts`, `LatentResolver.resolve` and the second check;
  each closure is computed by the engine's own steps. Each document is compiled
  twice, since two processes walk sets of facts in different orders; the only
  place where that order reaches a decision is the database that
  `build_latent_candidates` reads. `MCLatentResolver` holds the built-in rules
  and candidate pools, in the code's order, and the documents.
  `LatentResolverProofs` holds the theorems about both.
* `MC...` modules give values to constants that a `.cfg` cannot write.

An operator whose comment begins "Faulty variant" is not part of a
specification. It is the same step with a plausible mistake; put in the place
of the step it follows, it makes one property fail, which shows that the run
would notice.

## Runs

| Run | Shows | Bounds, and why they suffice |
|---|---|---|
| `OnlineBuild.cfg` | claims about records, order, provider calls and termination, and the refinement | two builds (one leaves debris, one meets it), one retry, budgets -1 and 0 (falsy: settings decide, so two attempts), one blocked intent, seeded and unseeded |
| `StudyArm.cfg` | summary, archive, metrics, resume, termination | two cells (one kept, one not), two attempts, two launches under two settings digests, one kill, both arms |
| `OfflineBuild.cfg` | the generated tree (convergence, idleness, orphans, strangers), evidence of one build, traces, failing closed | three builds (debris, a build that meets it, a repetition), five prompts: in memory, with a database and so one file more, blocked by a contradiction (with and without `allow_partial`), not conformant, blocked and not compiling; one edit, one kill, at any step or within any write |
| `Synthesis.cfg` | that planner, renderer, verifier, analyzer, target and certifier agree | 20 lines that between them use every pack, contradiction, stack pattern, capability and kind of section; every pair of them and every triple with the first; one deviation of some 100 per document (added fields with invalid defaults and of an unknown type among them), with and without `ruff`, for the prompts with one line and those with `no authentication` or a rule of an entity nobody declares |
| `Registry.cfg` | that a registered payload can be read, after serial adds and once a registry is settled | three clients, four adds, two keys, one crash |
| `WorkflowRuntime.cfg` | what was committed against audit log and versions, progress | applications with and without auditing, three requests that may fail at any step, a map with two ways out, a way back and a loop |
| `EntityStore.cfg` | uniqueness, exact updates, audit | two threads (a race needs two), two tenants, two items, one key value and null, four requests (create, change and take over a value need three), two values of either compared field |
| `LatentResolver.cfg` | closures, proof traces, order independence, admissibility, termination | 64 documents: every subset of the policies and databases the rules mention, four kinds of route, one model with two unique fields; all ten built-in rules and all five pools |

`CallsAreBounded` excepts the last call of a build that was killed or raised
from having a span. `NoOrphans` holds only without crashes, `UnkilledVerdictsAreOwn` only without
kills, `AuditIsHistory` (which is about applications that audit) and part of
`RegistryIsReadable` only without overlap,
`UniqueUnlessRaced` and `LoneUpdatesAreExact` only while no update has met
another request: history variables (`kills`, `crashes`, `overlapped`, `edited`,
`raced`) say so inside the property. `AcceptedKeepsCanon` is about documents
that verifier and target read alike (`ReadAlike`). The unconditional claims
fail, and four runs that expect a violation show how:

| Run | What the code does |
|---|---|
| `StudyArmInterrupted.cfg` | an arm interrupted before the builder's record is archived cannot be resumed |
| `EntityStoreRace.cfg` | an update stores a merge of a copy it read earlier: a unique value appears twice |
| `WorkflowRuntimeRace.cfg` | two concurrent transitions move the stored state along a pair that is no edge |
| `SynthesisGuarantees.cfg` | a workflow brings the capability `audit` into the plan as supported, and the application is built with auditing off |

Bounds in the models: `MaxRuns` builds, `MaxBuilds`, `MaxLaunches` and
`MaxKills`, `MaxCrashes`, `MaxAdds`, `MaxRequests` (with `Ids`), one `Tinker`.
They limit how often the environment acts, never the program. Deadlock is not
checked where the environment may come to its bound and the program really has
nothing left to do; `OfflineBuild`, `Synthesis` and `WorkflowRuntime` (which
state their end) are checked for it.

Fairness is weak fairness of the steps the program itself takes (`Step`,
`Serve`): `compile_text` is a single-threaded computation, `build` and the study
arm are synchronous calls whose provider requests and subprocesses have
timeouts, worker threads are scheduled, and a database grants a free lock. Starts, kills, failures and edits are never fair.

## Proofs

Every safety property of every passing run is a theorem for all values of the
constants. Each component has an inductive invariant, made of named parts and
stated at the end of its module (those of `Synthesis`, `WayInv` and `DraftInv`,
beside its theorems). Add it to the INVARIANTS of the component's `.cfg` and TLC
finds it to hold on the run's instance too. Three are slow: that of `OfflineBuild` takes more than an hour, that of
`StudyArm` some minutes, and `ResolverInv` speaks of the least closure, a
quantification over all sets of facts, so that an instance needs a definition of
it that iterates. The proofs are laid out alike: one lemma per part of the
invariant, in it one step per action.

`OnlineBuildProofs`, for all prompts, limits, seeds and any number of builds:

* `TypeCorrect`, then `BuildInvariant`. The published properties are not
  inductive: that a record is coherent when it is written needs to know which
  files already belong to the draft in hand at each point of the loop
  (`LoopProgress`), that this survives until an accepted outcome is published
  (`AcceptInHand`), and that no file of the running build is published before
  its time (`PublicationOrder`). `AcceptedCoherent`, `AcceptedChecked`,
  `CompilerSeesVerified` and `RecordLast` follow.
* `CallsBounded`, from `CallsInv`: what the calls of a build may have cost at
  each point of the two nested loops, and at which point a call may still be
  without its span. The product of the two bounds is not
  linear, so `CostOfNext` and `CostGrows` say once what it does.
* `BlockedDeterministic`, an action property, from the points of the function a
  blocked intent can reach (`BlockedInv`).
* `LoopImplementsContract`: the refinement. The initial state maps to that of
  `BuildContract`, and each action to a step of it or to none (`StepContract`);
  the step that publishes an ACCEPTED record is one of the contract because of
  `AcceptInHand` (`AcceptingIsAccept`).

The writer's part of `OfflineBuildProofs`, for any set of paths, contents and crashes:
`WriterTypes`, `WriterInvariant` (what each round of the loop has established
for each path: done ones agree with the new tree, those to do are as they
were), and from it `Converges`, `RewriteIdle` and `StrangersSafe`. `OrphansGone`
needs in addition that whatever the writer made is in its index or among the
files of the job in hand, as long as nothing was cut short (`OwnedAreKnown`).

The rest of `OfflineBuildProofs`, for any prompts and whatever the pipeline makes of them:

* `OfflineRunsWriter` shows that a build, killed and edited as it may be, drives
  the generated directory only by steps of `WriterSpec`. The theorems about the
  writer carry over by this refinement alone (`OfflineConverges`, `OfflineIdle`,
  `OfflineOrphans`, `OfflineStrangers`).
* `BuildInvariant`: place by place in `Script`, which artifacts are those of the
  prompt (`ArtifactsInv`), what the trace holds (`TraceInv`, with the exact
  lines: `TraceUpTo`), what the record and the manifest were written over
  (`RecordInv`, `ManifestInv`), and that a build which will be stopped has not
  come past the compilation (`HopelessInv`). `OfflineFailsClosed` and
  `OneBuildsEvidence` follow.
* `OfflineTracesLoad` and `OfflineTracesTell` need, beyond that, that the lines
  a build writes are in the order `load_trace` insists on, and what the spans
  and outputs of each of the three kinds of trace are. `compare_traces` sorts
  spans; what `Place`, which puts the sorting by number in a closed form, does
  to them is the subject of `SpansInOrder`.

`LatentResolverProofs`, first for `LogicEngine`, with any facts and any rules
whose matches come in any order: `EngineTypes`; `Least`, from `LeastInv` (a
match that waits has its premises among the facts, so a closed superset holds
its conclusion); `ClosedWhenDone`, from `PassInv` (as long as a pass has changed
nothing, the rules it is through with are closed: so a whole pass without a
change means closure); `Grounded`, which needs the same fact about waiting
matches. `ReturnsClosure` puts the first two together: `closure()` returns the
least closed superset, so its value depends neither on the order of the rules
nor on that of the facts. Then for the resolver, with any documents, pools and
scores:

* `ResolverRunsEngine`: the resolver implements `EngineSpec`; `ResolverClosures`
  and `ResolverProofs` follow.
* `ResolverInvariant`, from which `OneCollapse` and `ValidResolution` follow:
  each choice made so far is the best admissible one by one of the databases the
  document states (`Best`), what is resolved has no `Invalid` fact, and the
  second process has chosen what the first one did. It rests on facts about the
  least closure (it grows with its argument, adds nothing when repeated, and
  derives every new fact by a rule), and on two assumptions about data, which
  TLC evaluates on the built-in rules and pools: `RulesAssumption` (an `Invalid`
  fact, or a demand for a schema, is concluded from facts that no rule
  concludes; every pool has a candidate that no rule speaks against) and
  `ScoresAssumption` (where the databases of a document order two candidates
  differently, a rule refuses one of the two). The second says exactly why the
  hash seed changes scores and not selections.

`StudyArmProofs`, for any number of cells, attempts, launches and kills, and any
settings: `ArmInvariant`, and from it `SummaryTells`, `ArchiveTells`,
`OwnVerdicts` and the action property `ObservationsKept`. A summary is right
when it is written because each cell the process is through with has been
counted once and its record is on disk (`KeptInv`), and stays right while the
Study 2 wrapper rewrites the records; an archive fits its record because what
stands in the directory of the observation that is going on is its own
(`InHandInv`); verdicts are own ones only where no kill has left reports behind
(`FreshInv`, `OwnReportsInv`), which is why that property says "Unkilled".

`RegistryProofs`, for any number of clients, adds and crashes: `RegistryTypes`,
and `Readable` from `RegistryInvariant`. Two different arguments meet there.
While adds come one at a time, each point of `add` relies on what the point
before it found (`AloneInv`), whatever crashes. When adds of one signer overlap
and none crashes, what one of them tears another will fill (`TogetherInv`).

`WorkflowRuntimeProofs`, for any transition map and any set of requests:
`WorkflowInvariant`, and `CommittedAudited`, `History`, for applications with
and without auditing. The row is locked exactly
by the request whose write is uncommitted (`LockInv`); what a request carries
from one statement to the next bounds the version it may write (`LocalsInv`).
Two more theorems locate the race that `WorkflowRuntimeRace.cfg` shows:
`AuditedEdges` (what the log says is an edge of the map even then) and
`LoneTransitionsFollowEdges` (without overlap the row moves along edges only).

`EntityStoreProofs`, for any threads, tenants, items and values:
`StoreInvariant`, and `KeysStayUnique`, `AuditTells` and the action property
`LoneUpdates`. An identifier belongs to one tenant for ever (`OneOwner`, over
the store, the log and the requests that have found the item); its creation is
recorded, or about to be, exactly once (`CreatedOnce`), its deletion as well
where no update has raced (`DeletedOnce`); and such an update has the store for
itself (`AloneInv`).

`SynthesisProofs`, for any prompts, so whatever their lines say and in whatever
order, with the built-in tables of packs, entities and capabilities. The runs
enumerate pairs of lines and many triples; the theorems need no bound, because
of one lemma: every plan is `Sound` (`PlanIsSound`, and `ContextIsSound` after
requirements and capabilities have been applied), that is, its routes and
relationships are of planned entities, its routes have one of five shapes, its
rules can be read, and its entities have built-in fields. From there:

* `RenderedModels` to `RoutesAgree`: renderer and verifier agree on a sound plan
  part by part, but for the authentication "None", which the parser reads as no
  value. `OfflineConformance` follows, also for the document with the mandatory
  envelope written literally.
* `OfflineDocumentRefusals`: of such a document the compiler refuses nothing but
  rules of undeclared entities, and those are what integrity reports.
  `OnlyIntegrity` follows by `WayInv` (which document is in hand at each stage,
  and whose issues and refusals these are), and then `StatusTells`: without
  integrity issues the gate and the certificate block the same builds.
* `Stated`: a requirement the text states explicitly survives deduplication,
  inference, planning, the capabilities and the rendering.
* `Imports`, for any document whatever: the three checks on the way to a tree
  (SEM104 and SEM105, LOG201, TGT201) leave nothing to import that is not there.
* `LateRefusalsAlways` and `Keeps` are about documents that others wrote. No
  deviation makes a document less than `Orderly` (`DeviationsAreOrderly`): what
  the verifier looks up by place or by name is still unambiguous, and the fields
  of a known entity still begin with a type, or with a modifier that `ReadAlike`
  excludes. `AcceptedRefusals` and `AcceptedKeeps` then hold of any orderly
  document the verifier accepts, rendered or not; `DraftInv` says that the
  document of an accepted candidate is one. What remains to be refused late is
  in what the verifier lets a candidate add or reorder (`LateCodes`): sections
  nobody knows (SEM001), the order of a field's words (SEM002), an `Update`
  schema nobody wrote (SEM104), rules as the analyzer reads them (SEM204,
  SEM205), defaults of dates (TGT202, TGT203) and, with `ruff`, names that are
  defined nowhere, for which the compiler raises a `RuntimeError`.

In these modules a `UNION` that is followed by a set operator is put in
parentheses, since the proof system reads `UNION A \cup B` as
`UNION (A \cup B)`.

The proofs assume only the named assumptions on constants in the modules, each
of which TLC evaluates in a run. Most say that a constant is of its kind. Those
called `NoneAssumption`, `NoFileAssumption`, `FilesAssumption`,
`RecordsAssumption`, `OutcomeAssumption` and the like say that the value which
stands for "no such file" is not a possible content; `ThreadsAssumption` and
`PathsAssumption`, that a process has finitely many threads and a tree finitely
many files; `MadeAssumption`, that the pipeline makes something of each prompt.

Only model-checked are

* liveness (`BuildEnds`, `ArmEnds`, `EveryRequestAnswered`, `CompileEnds`): TLAPS
  does not reason about fairness;
* and refuted there are the claims of the four runs that expect a violation.

The pipeline theorems are for any prompt but not for any tables: with other
packs or entities they would have to be proved anew, which is what they are for.
What a model or an editor makes of a document is one of `Deviations`, in the
theorems as in the run; `Imports`, `AcceptedRefusals` and `AcceptedKeeps` go
beyond that. What recursive functions compute for every input is proved only
where a closed form took their place, as `Place` did for sorting: induction is
out of reach of the provers at hand.

## Observations

Seen while modelling, without a run of their own.

* Planning. An entity or actor that is only named in a section of the prompt is
  never planned: the planner knows its packs only, falls back to `Product`, and
  the explicit entity suppresses the blocking ambiguity "entities"
  (`requirements/extractor.py:385`). "single-tenant" contains "tenant", so it
  enables tenancy (`docs/research/SSM_BENCH_V2_CASE_MATRIX.md` expects it
  disabled). Words are found inside of words elsewhere too: "postgres",
  "support" and "report" contain "po" and call for the procurement pack, and
  "threshold" contains "hr". `NoAuthentication` makes every offline build raise SCV002
  (`OfflineConforms`; `docs/research/STUDY_1_RESULTS.md:44` reports such a
  case). `TicketLifecycle` declares the action `reopen` without a transition.
* Verification. The verifier accepts `#Audit` and `#Tenant` sections whose
  `enabled` is missing, "yes" or in a second section, which the target reads as
  disabled (`ReadAlike` excludes them). It takes a rule for the same in an
  `#Invariant` and in a `#BusinessRule`, while the generated services check the
  former alone on every update (`LocalRules`): a candidate that says
  "BusinessRule" is accepted and loses the check. It looks at the first `#Stack` only, and
  neither at extra workflows nor at a second section for a route. SCV035
  compares sets of tokens while `parse_fields` takes the first as the type.
* Target. An added field `deadline: date default=banana` passes the verifier and
  the analyzer and is refused with TGT203; one of type `Money`, or an `int` with
  a default that is no number, is generated as it stands where `ruff` is not
  installed and raises a `RuntimeError` where it is. `audit_storage` in `app_contract.json` is "database" for SQLite and
  MySQL, whose repositories and audit log are in memory. A field
  `required string default=null` is optional in the schema and NOT NULL in the
  table.
* Repair. SCV, LOG201 and TGT201 codes fall to the layer "foundation" in
  `FailureClassifier`.
* Traces. A blocked build after an accepted one overwrites
  `generation_trace.jsonl`, so that the manifest of the accepted build no longer
  verifies. `compare_traces` ignores task outputs: a run killed after its last
  span is equivalent to one that finished. `load_trace` rejects a nested span
  recorded before its parent ends; nothing in the package nests spans.
* Study arms. Numbered conformance reports of a killed observation are read as
  attempts of the one that repeats it (`study1b.py:244`), hence "Unkilled" in
  `UnkilledVerdictsAreOwn`. `_stamp_online_records` stamps records kept from an
  earlier launch with the current source (`study2.py:571`).
* A malformed response records two `model_call` spans, and a build killed or
  raised between a call and its span none for it, so that metric does not
  count calls (`CallsAreBounded` says what it does bound); two simultaneous adds
  of one payload empty a finished object again; with the built-in rules one pass
  of the engine suffices; with several `#Stack` databases the scores in a
  resolution depend on the hash seed of the process, the selection does not
  (`SameCollapse`); a route whose schema is primitive passes the analyzer and is
  refused with LOG201.

## What is abstracted or left out

* Text: prompts and documents appear as the words and values the code looks
  for; layout, wording, identifiers and hashes do not. A content stands for its
  hash.
* Pipeline: reports, admin hints, NFR lists and events carry no decision and
  are left out; SIR edges and ids too. A word list finds a word in a line or
  not; that "single-tenant" contains "tenant" is written into the lines of the
  instance, and `LinesAssumption` sees to it. Documents deviate from the rendered one in one place at a time.
* `Target`: the text of generated files. Of what `ruff` may object to in it the
  model has undefined names (types that are neither built in nor mapped, number
  defaults that are no numbers); other objections would come from text that is
  left out. Defaults are words of a small set, `DefaultWords`. Which of several
  invalid defaults is reported depends on the order of models and fields, which
  a document here does not keep.
* `OfflineBuild`: each stage and artifact is one content; `stdout`, durations
  and timestamps are left out, and so are fields of the record that no property
  reads.
* `OnlineBuild`: a kill leaves a torn record or part of a tree; torn
  intermediate files (draft, report, SIR) are taken as the older or newer
  version, since a later attempt rewrites each before it is fingerprinted as
  accepted. Files that gates leave in the tree count as part of it. An OSError
  outside the tree's own steps ends the process like a kill.
* `StudyArm`: a record that parses but fails `verify_identity` is not modelled.
* `IncrementalWriter`: contents stand for their hashes; two paths do not
  contain each other.
* `Registry`: payloads with different digests never share a file, so one is
  enough.
* `EntityStore`: reads (`list`, `get` as a route) change nothing and are left
  out; identifiers are always fresh; an update sets at most one field beside
  the tenant; auditing is enabled; the process does not die, and would leave
  nothing. Deadlock is not checked, since the requests come to their bound.
* `LogicEngine`: unification is done beforehand, in the ground instances; only
  the conclusion and the premises of a proof object are kept.
* `LatentResolver`: parsing and diagnostics (`Document`) come before it, code
  generation (`Target`) after it.
* `WorkflowRuntime`: the in-memory variant, `ensure_tenant` and the inside of a
  business rule (which passes or not) are left out. A failure is an error, a
  lost connection or a killed worker; the three differ in nothing the properties
  see.

* Not modelled: Assay and bench (statistics over floating-point samples), the
  deterministic study arms (loops over builds that rewrite their whole output),
  transport retries of `agents/providers.py`, nested spans, the evidence of
  gates run on a finished application, the admin frontend, CLI, RAG, settings
  and offline agents (no state of interest).

## Plan

1. Several deviations of one document. `AcceptedKeeps` needs no more than
   `Orderly`; what is missing are the lemmas about deviations of a section that
   is no longer as it was rendered.
2. The SQLAlchemy variant of `EntityStore`, with flush, commit and roll-back as
   in `WorkflowRuntime`, against the same properties.
3. `ProviderClient`: transport retries and error classes under `OnlineBuild`.
4. `Assay` and contracts: verdicts against reference definitions over bounded
   inputs.
