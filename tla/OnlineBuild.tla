----------------------------- MODULE OnlineBuild -----------------------------
(***************************************************************************)
(* OnlineBuildService.build (foundation/builder.py) and the provider loop  *)
(* of OnlineDraftService.draft_context (agents/online.py) that it drives:  *)
(* a bounded repair loop that asks a provider for an SML draft, verifies,  *)
(* compiles and gates it, and leaves every intermediate artifact in one    *)
(* output directory that ends with a published GenerationRunRecord.        *)
(*                                                                         *)
(* One build runs at a time in the directory.  The process may die between *)
(* any two file writes, between a call of the provider and the trace span   *)
(* that tells of it included, and a later build (a retry of the command, a       *)
(* resumed study arm) may start in the directory that is left behind.      *)
(*                                                                         *)
(* A draft is abstracted to where it came from (build and attempt) and to  *)
(* its quality: the first of the deterministic checks that will refuse it. *)
(***************************************************************************)
EXTENDS Integers, FiniteSets

CONSTANTS
  Prompts,        (* the raw intents a build may be asked for              *)
  Blocked,        (* those whose canonical context has blocking reasons    *)
  MaxRetries,     (* settings.llm_max_retries                              *)
  RepairBudgets,  (* values of repair_attempts; 0 stands for None as well  *)
  Seeds,          (* qualities an initial_draft_text may have, or NoFile   *)
  MaxRuns,        (* bound: builds started in the directory                *)
  NoFile          (* the artifact is not there                             *)

ASSUME PromptsAssumption == Blocked \subseteq Prompts
ASSUME RetriesAssumption == MaxRetries \in Nat
ASSUME BudgetAssumption  == RepairBudgets \subseteq Int
ASSUME MaxRunsAssumption == MaxRuns \in Nat

VARIABLES
  pc,     (* the point of build() the process is at; "idle" when none runs *)
  build,  (* the locals of the running (or last) build                     *)
  disk,   (* the files of the output directory                             *)
  calls   (* provider.generate calls made by the running (or last) build   *)

vars == <<pc, build, disk, calls>>

-----------------------------------------------------------------------------
(* A "good" draft passes everything; each other quality names the check    *)
(* that refuses it.                                                        *)
Quality == {"nonconforming", "inconsistent", "uncompilable", "ungated", "good"}

Draft == [run : Nat, attempt : Nat, quality : Quality]

Conforms(d)   == d.quality # "nonconforming"
Consistent(d) == d.quality # "inconsistent"
Compiles(d)   == d.quality # "uncompilable"
PassesGates(d) == d.quality = "good"

ASSUME SeedsAssumption  == Seeds \subseteq Quality \cup {NoFile}
ASSUME NoFileAssumption == /\ NoFile \notin Quality
                           /\ NoFile \notin Draft
                           /\ NoFile \notin Nat

Tree == [of : Draft, whole : BOOLEAN]

Status == {"ACCEPTED", "REJECTED"}

Points == {"idle", "prepare", "boundary", "attempt", "provider", "called",
           "failed", "drafted",
           "verify", "archive", "judge", "consistency", "compile", "clear",
           "emit", "gates", "next", "report", "close", "record"}

AttemptLimit(budget) ==
  LET wanted == IF budget = 0 THEN MaxRetries + 1 ELSE budget
  IN  IF wanted < 1 THEN 1 ELSE wanted

-----------------------------------------------------------------------------
Init ==
  /\ pc = "idle"
  /\ build = [run |-> 0, prompt |-> NoFile, gates |-> FALSE, limit |-> 1,
              seed |-> NoFile, attempt |-> 0, retry |-> 0, draft |-> NoFile,
              status |-> "REJECTED", judged |-> FALSE, ended |-> "returned"]
  /\ disk = [context |-> NoFile, draft |-> NoFile, conformance |-> NoFile,
             attempts |-> {}, sir |-> NoFile,
             tree |-> NoFile, repair |-> NoFile, record |-> NoFile,
             okSpans |-> 0, errorSpans |-> 0, output |-> NoFile]
  /\ calls = 0

Goto(point) == pc' = point

(* The process stops without a result: an exception left build(), or it    *)
(* was killed.                                                             *)
Stop(how) ==
  /\ Goto("idle")
  /\ build' = [build EXCEPT !.ended = how]

(* An attempt that failed: its RepairTraceEvent is appended and last_result *)
(* is REJECTED; judged says whether it carries the conformance report.     *)
RejectAttempt(judged) ==
  /\ Goto("next")
  /\ build' = [build EXCEPT !.status = "REJECTED", !.judged = judged]

-----------------------------------------------------------------------------
(* build() is entered: input.md is written and the trace file is truncated. *)
Start ==
  /\ pc = "idle"
  /\ build.run < MaxRuns
  /\ \E p \in Prompts, g \in BOOLEAN, n \in RepairBudgets, s \in Seeds :
       build' = [build EXCEPT !.run = @ + 1, !.prompt = p, !.gates = g,
                              !.limit = AttemptLimit(n), !.seed = s,
                              !.attempt = 0, !.retry = 0, !.draft = NoFile,
                              !.status = "REJECTED", !.judged = FALSE,
                              !.ended = "running"]
  /\ disk' = [disk EXCEPT !.okSpans = 0, !.errorSpans = 0, !.output = NoFile]
  /\ calls' = 0
  /\ Goto("prepare")

(* prepare_semantic_context, then the six canonical artifacts are written.  *)
WriteContext ==
  /\ pc = "prepare"
  /\ disk' = [disk EXCEPT !.context = build.prompt]
  /\ Goto("boundary")
  /\ UNCHANGED <<build, calls>>

(* The fail-closed boundary: a blocked context is reported and the build    *)
(* ends with attempts = 0; any other enters the loop.                       *)
RejectBlocked ==
  /\ pc = "boundary"
  /\ build.prompt \in Blocked
  /\ Goto("report")
  /\ UNCHANGED <<build, disk, calls>>

(* Faulty variant: the boundary only reports.                               *)
EnterLoopBlocked ==
  /\ pc = "boundary"
  /\ build' = [build EXCEPT !.attempt = 1]
  /\ Goto("attempt")
  /\ UNCHANGED <<disk, calls>>

EnterLoop ==
  /\ pc = "boundary"
  /\ build.prompt \notin Blocked
  /\ build' = [build EXCEPT !.attempt = 1]
  /\ Goto("attempt")
  /\ UNCHANGED <<disk, calls>>

-----------------------------------------------------------------------------
(* The seeded draft takes the place of the provider in attempt 1 only.      *)
UseSeed ==
  /\ pc = "attempt"
  /\ build.attempt = 1 /\ build.seed # NoFile
  /\ build' = [build EXCEPT !.draft = [run |-> build.run, attempt |-> 1,
                                       quality |-> build.seed]]
  /\ Goto("drafted")
  /\ UNCHANGED <<disk, calls>>

AskProvider ==
  /\ pc = "attempt"
  /\ ~(build.attempt = 1 /\ build.seed # NoFile)
  /\ build' = [build EXCEPT !.retry = 0]
  /\ Goto("provider")
  /\ UNCHANGED <<disk, calls>>

(* provider.generate is called.  What comes back reaches the trace only     *)
(* after the call.                                                          *)
CallProvider ==
  /\ pc = "provider"
  /\ calls' = calls + 1
  /\ Goto("called")
  /\ UNCHANGED <<build, disk>>

(* A usable response: its model_call span, and the draft goes to build().   *)
UsableAnswer ==
  /\ pc = "called"
  /\ disk' = [disk EXCEPT !.okSpans = @ + 1]
  /\ \E q \in Quality :
       build' = [build EXCEPT !.draft = [run |-> build.run,
                                         attempt |-> build.attempt,
                                         quality |-> q]]
  /\ Goto("drafted")
  /\ UNCHANGED calls

(* A response that does not parse as an SML draft: its model_call span was  *)
(* recorded before it was validated.                                        *)
MalformedAnswer ==
  /\ pc = "called"
  /\ disk' = [disk EXCEPT !.okSpans = @ + 1]
  /\ Goto("failed")
  /\ UNCHANGED <<build, calls>>

(* Inside draft_context a failed try is repeated up to MaxRetries times;    *)
(* after the last one OnlineDraftValidationError rejects the attempt.       *)
RetryOrReject ==
  IF build.retry < MaxRetries
    THEN /\ Goto("provider")
         /\ build' = [build EXCEPT !.retry = @ + 1]
    ELSE RejectAttempt(FALSE)

(* Faulty variant: the handler records no span.                             *)
TryUnrecorded ==
  /\ pc \in {"called", "failed"}
  /\ RetryOrReject
  /\ UNCHANGED <<disk, calls>>

(* The handler of a try that failed: generate() itself raised               *)
(* ProviderResponseError or a ValueError, or its answer did not parse.  It  *)
(* records a model_call span with the error, a second one for an answer.    *)
FailedTry ==
  /\ pc \in {"called", "failed"}
  /\ disk' = [disk EXCEPT !.errorSpans = @ + 1]
  /\ RetryOrReject
  /\ UNCHANGED calls

(* Authentication or exhausted transport retries end the request: no        *)
(* handler catches them, so build() is left without a record and a span.    *)
ProviderFatal ==
  /\ pc = "called"
  /\ Stop("raised")
  /\ UNCHANGED <<disk, calls>>

(* A disabled agent refuses before its first call, and nothing catches that *)
(* either.                                                                  *)
AgentDisabled ==
  /\ pc = "provider"
  /\ build.retry = 0
  /\ Stop("raised")
  /\ UNCHANGED <<disk, calls>>

-----------------------------------------------------------------------------
WriteDraft ==
  /\ pc = "drafted"
  /\ disk' = [disk EXCEPT !.draft = build.draft]
  /\ Goto("verify")
  /\ UNCHANGED <<build, calls>>

(* semantic_conformance.json, then the numbered copy of this attempt.       *)
WriteConformance ==
  /\ pc = "verify"
  /\ disk' = [disk EXCEPT !.conformance = build.draft]
  /\ Goto("archive")
  /\ UNCHANGED <<build, calls>>

WriteAttemptReport ==
  /\ pc = "archive"
  /\ disk' = [disk EXCEPT !.attempts =
                {f \in @ : f.attempt # build.attempt}
                  \cup {[run |-> build.run, attempt |-> build.attempt]}]
  /\ Goto("judge")
  /\ UNCHANGED <<build, calls>>

(* Faulty variant: the report is written but not acted upon.                *)
JudgeNothing ==
  /\ pc = "judge"
  /\ Goto("consistency")
  /\ UNCHANGED <<build, disk, calls>>

JudgeConformance ==
  /\ pc = "judge"
  /\ IF Conforms(build.draft)
       THEN Goto("consistency") /\ UNCHANGED build
       ELSE RejectAttempt(TRUE)
  /\ UNCHANGED <<disk, calls>>

(* candidate_capability_consistency *)
CheckConsistency ==
  /\ pc = "consistency"
  /\ IF Consistent(build.draft)
       THEN Goto("compile") /\ UNCHANGED build
       ELSE RejectAttempt(TRUE)
  /\ UNCHANGED <<disk, calls>>

-----------------------------------------------------------------------------
(* compile_text, then sir.json; a compiler error rejects the attempt and    *)
(* leaves the SIR and the tree of an earlier one where they are.            *)
Compile ==
  /\ pc = "compile"
  /\ IF Compiles(build.draft)
       THEN /\ disk' = [disk EXCEPT !.sir = build.draft]
            /\ Goto("clear")
            /\ UNCHANGED build
       ELSE RejectAttempt(TRUE) /\ UNCHANGED disk
  /\ UNCHANGED calls

(* The old tree is removed file by file; an OSError on the way is caught    *)
(* and rejects the attempt with part of the old tree still there.           *)
ClearTree ==
  /\ pc = "clear"
  /\ \/ /\ disk' = [disk EXCEPT !.tree = NoFile]
        /\ Goto("emit")
        /\ UNCHANGED build
     \/ /\ disk.tree # NoFile
        /\ disk' = [disk EXCEPT !.tree.whole = FALSE]
        /\ RejectAttempt(TRUE)
  /\ UNCHANGED calls

(* Faulty variant: an OSError while writing the tree is swallowed.          *)
EmitTreeUnchecked ==
  /\ pc = "emit"
  /\ \E w \in BOOLEAN : disk' = [disk EXCEPT !.tree = [of |-> build.draft, whole |-> w]]
  /\ Goto("gates")
  /\ UNCHANGED <<build, calls>>

EmitTree ==
  /\ pc = "emit"
  /\ \/ /\ disk' = [disk EXCEPT !.tree = [of |-> build.draft, whole |-> TRUE]]
        /\ Goto("gates")
        /\ UNCHANGED build
     \/ /\ \/ disk' = [disk EXCEPT !.tree = [of |-> build.draft, whole |-> FALSE]]
           \/ UNCHANGED disk
        /\ RejectAttempt(TRUE)
  /\ UNCHANGED calls

(* Faulty variant: the accepted result carries no conformance report.       *)
AcceptUnreported ==
  /\ Goto("report")
  /\ build' = [build EXCEPT !.status = "ACCEPTED", !.judged = FALSE]

AcceptAttempt ==
  /\ Goto("report")
  /\ build' = [build EXCEPT !.status = "ACCEPTED", !.judged = TRUE]

(* Faulty variant: the exit codes of the gates are not looked at.           *)
RunGatesIgnored ==
  /\ pc = "gates"
  /\ AcceptAttempt
  /\ UNCHANGED <<disk, calls>>

(* The gates are subprocesses with a timeout: even a good tree may miss it  *)
(* (exit code 124).                                                         *)
RunGates ==
  /\ pc = "gates"
  /\ \/ (build.gates => PassesGates(build.draft)) /\ AcceptAttempt
     \/ build.gates /\ RejectAttempt(TRUE)
  /\ UNCHANGED <<disk, calls>>

(* A gate command that is not installed raises out of build().              *)
GatesMissing ==
  /\ pc = "gates"
  /\ build.gates
  /\ Stop("raised")
  /\ UNCHANGED <<disk, calls>>

(* Faulty variant: the attempt is not counted.                              *)
NextAttemptUncounted ==
  /\ pc = "next"
  /\ IF build.attempt < build.limit THEN Goto("attempt") ELSE Goto("report")
  /\ UNCHANGED <<build, disk, calls>>

NextAttempt ==
  /\ pc = "next"
  /\ IF build.attempt < build.limit
       THEN /\ build' = [build EXCEPT !.attempt = @ + 1]
            /\ Goto("attempt")
       ELSE Goto("report") /\ UNCHANGED build
  /\ UNCHANGED <<disk, calls>>

-----------------------------------------------------------------------------
(* Faulty variant: the record is written before the trace is closed.        *)
RepairTraceThenRecord ==
  /\ pc = "report"
  /\ disk' = [disk EXCEPT !.repair = [run |-> build.run, status |-> build.status]]
  /\ Goto("record")
  /\ UNCHANGED <<build, calls>>

(* The three writes that publish the outcome: repair_trace.json, the task   *)
(* output of the trace, and the record with the fingerprints of the files   *)
(* that are in the directory at that moment.                                *)
WriteRepairTrace ==
  /\ pc = "report"
  /\ disk' = [disk EXCEPT !.repair = [run |-> build.run, status |-> build.status]]
  /\ Goto("close")
  /\ UNCHANGED <<build, calls>>

SetTaskOutput ==
  /\ pc = "close"
  /\ disk' = [disk EXCEPT !.output = build.status]
  /\ Goto("record")
  /\ UNCHANGED <<build, calls>>

Fingerprints ==
  [context |-> disk.context, draft |-> disk.draft,
   conformance |-> IF build.judged THEN disk.conformance ELSE NoFile,
   sir |-> disk.sir, tree |-> disk.tree]

WriteRecord ==
  /\ pc = "record"
  /\ disk' = [disk EXCEPT !.record =
                [run |-> build.run, status |-> build.status,
                 attempts |-> build.attempt, gated |-> build.gates,
                 stages |-> Fingerprints]]
  /\ Stop("returned")
  /\ UNCHANGED calls

(* The process is killed.  A tree that was being removed or written may be  *)
(* left in part, and a record that was being written is torn: it replaced   *)
(* the older one and no loader accepts it.                                  *)
Crash ==
  /\ pc # "idle"
  /\ Stop("killed")
  /\ \/ UNCHANGED disk
     \/ /\ pc = "clear" /\ disk.tree # NoFile
        /\ disk' = [disk EXCEPT !.tree.whole = FALSE]
     \/ /\ pc = "emit"
        /\ disk' = [disk EXCEPT !.tree = [of |-> build.draft, whole |-> FALSE]]
     \/ /\ pc = "record"
        /\ disk' = [disk EXCEPT !.record = NoFile]
  /\ UNCHANGED calls

(* What the process itself does, one disjunct per step of build().          *)
Step ==
  \/ WriteContext \/ RejectBlocked \/ EnterLoop
  \/ UseSeed \/ AskProvider
  \/ CallProvider \/ UsableAnswer \/ MalformedAnswer \/ FailedTry
  \/ ProviderFatal \/ AgentDisabled
  \/ WriteDraft \/ WriteConformance \/ WriteAttemptReport
  \/ JudgeConformance \/ CheckConsistency
  \/ Compile \/ ClearTree \/ EmitTree
  \/ RunGates \/ GatesMissing \/ NextAttempt
  \/ WriteRepairTrace \/ SetTaskOutput \/ WriteRecord

Next == Start \/ Step \/ Crash

Spec == Init /\ [][Next]_vars

(* build() is one synchronous call whose provider requests and gates have   *)
(* timeouts, so it keeps taking steps while the process lives.              *)
FairSpec == Spec /\ WF_vars(Step)

-----------------------------------------------------------------------------
Maybe(S) == S \cup {NoFile}

Stages == [context : Maybe(Prompts), draft : Maybe(Draft),
           conformance : Maybe(Draft), sir : Maybe(Draft), tree : Maybe(Tree)]

Record == [run : Nat, status : Status, attempts : Nat, gated : BOOLEAN,
           stages : Stages]

BuildOK ==
  build \in [run : Nat, prompt : Maybe(Prompts), gates : BOOLEAN, limit : Nat,
            seed : Maybe(Quality), attempt : Nat, retry : Nat,
            draft : Maybe(Draft), status : Status, judged : BOOLEAN,
            ended : {"running", "returned", "raised", "killed"}]

FilesOK ==
  disk \in [context : Maybe(Prompts), draft : Maybe(Draft),
           conformance : Maybe(Draft), attempts : SUBSET [run : Nat, attempt : Nat],
           sir : Maybe(Draft), tree : Maybe(Tree),
           repair : Maybe([run : Nat, status : Status]),
           record : Maybe(Record), okSpans : Nat, errorSpans : Nat,
           output : Maybe(Status)]

(* The points at which a draft is being worked on.                         *)
HasDraft == {"drafted", "verify", "archive", "judge", "consistency",
             "compile", "clear", "emit", "gates"}

DraftOK == pc \in HasDraft => build.draft \in Draft

(* Type invariant: the process and the directory only take values build()  *)
(* can give them.                                                          *)
TypeOK ==
  /\ pc \in Points
  /\ BuildOK
  /\ FilesOK
  /\ DraftOK
  /\ calls \in Nat

Published(status) == disk.record # NoFile /\ disk.record.status = status

(* A record that says ACCEPTED fingerprints ONE draft: the SML, its        *)
(* conformance report, the SIR and the generated tree all stem from the    *)
(* attempt the record counts, of the build that wrote it, whatever earlier *)
(* attempts, failed writes, killed builds or rebuilds left in the          *)
(* directory.                                                              *)
AcceptedIsCoherent ==
  Published("ACCEPTED") =>
    LET r == disk.record
        s == r.stages
    IN  /\ s.draft # NoFile
        /\ s.draft.run = r.run /\ s.draft.attempt = r.attempts
        /\ s.conformance = s.draft
        /\ s.sir = s.draft
        /\ s.tree = [of |-> s.draft, whole |-> TRUE]

(* ... and that draft passed every check the build was asked to make.      *)
AcceptedPassedChecks ==
  Published("ACCEPTED") =>
    LET d == disk.record.stages.draft
    IN  /\ Conforms(d) /\ Consistent(d) /\ Compiles(d)
        /\ disk.record.gated => PassesGates(d)

(* The compiler only ever sees drafts that passed the semantic conformance *)
(* and the capability consistency checks: no SIR and no generated file in  *)
(* the directory, now or after a crash, stems from another draft.          *)
OnlyVerifiedDraftsCompiled ==
  /\ disk.sir # NoFile => Conforms(disk.sir) /\ Consistent(disk.sir)
  /\ disk.tree # NoFile =>
       Conforms(disk.tree.of) /\ Consistent(disk.tree.of) /\ Compiles(disk.tree.of)

(* Publication order: the record is the last thing a build writes, so one  *)
(* that names the latest build finds the trace closed and the repair trace *)
(* written with the same outcome.                                          *)
RecordIsWrittenLast ==
  disk.record # NoFile /\ disk.record.run = build.run =>
    /\ disk.output = disk.record.status
    /\ disk.repair = [run |-> build.run, status |-> disk.record.status]

(* The fail-closed boundary: a build of a blocked intent never reaches the *)
(* provider and touches no draft, SIR or tree; it can only end REJECTED.   *)
BlockedStaysDeterministic ==
  [][build.prompt \in Blocked /\ pc # "idle" =>
       /\ calls' = 0
       /\ UNCHANGED <<disk.draft, disk.conformance, disk.sir, disk.tree>>
       /\ disk'.record # disk.record /\ disk'.record # NoFile =>
            disk'.record.status = "REJECTED"]_vars

(* The two nested retry loops multiply: their product is the most a build  *)
(* can spend.  The model_call spans do not count provider calls, since a   *)
(* malformed answer leaves two.  What the trace does guarantee of the build*)
(* that owns it: no more than two spans stem from a call, one of them of   *)
(* its answer; and at most one call, the last, has none: the one in flight,*)
(* or the one that a kill or an exception cut off from its span.           *)
CallsAreBounded ==
  LET spans == disk.okSpans + disk.errorSpans
  IN  /\ calls <= build.limit * (MaxRetries + 1)
      /\ disk.okSpans <= calls
      /\ spans <= 2 * calls
      /\ calls <= spans + 1
      /\ calls > spans => pc = "called" \/ build.ended \in {"raised", "killed"}

(* A build that is not killed ends: with a result or with an exception.    *)
BuildEnds == pc # "idle" ~> pc = "idle"

-----------------------------------------------------------------------------
(* The outcome a reader finds: the record, reduced to the draft all its     *)
(* fingerprints agree on.  A record that mixed drafts would map to one      *)
(* BuildContract never publishes.                                           *)
SingleDraft(s) ==
  IF s.conformance = s.draft /\ s.sir = s.draft
       /\ s.tree = [of |-> s.draft, whole |-> TRUE]
    THEN s.draft ELSE NoFile

Outcome(r) ==
  IF r = NoFile THEN NoFile
  ELSE [run |-> r.run, status |-> r.status,
        draft |-> IF r.status = "ACCEPTED" THEN SingleDraft(r.stages) ELSE NoFile]

ASSUME OutcomeAssumption ==
  NoFile \notin Record \cup [run : Nat, status : Status, draft : Maybe(Draft)]

VerifiedDraft == {d \in Draft : Conforms(d) /\ Consistent(d) /\ Compiles(d)}

Contract ==
  INSTANCE BuildContract WITH
    Verified <- VerifiedDraft, Nothing <- NoFile, started <- build.run,
    running <- pc # "idle", published <- Outcome(disk.record)

(* The repair loop with all its files implements the contract: every step  *)
(* begins a build, publishes one coherent outcome, abandons the build, or  *)
(* changes nothing a reader of the record can see.                         *)
ImplementsContract == Contract!Spec

-----------------------------------------------------------------------------
(* The inductive invariant behind the theorems of OnlineBuildProofs: how    *)
(* far the loop has come says which files of the directory already belong  *)
(* to the draft in hand.                                                    *)
Written     == HasDraft \ {"drafted"}
Reported    == Written \ {"verify"}
Conforming  == {"consistency", "compile", "clear", "emit", "gates"}
Consenting  == Conforming \ {"consistency"}
Compiled    == {"clear", "emit", "gates"}
Publishing  == {"report", "close", "record"}

DraftInHand ==
  /\ build.draft \in Draft
  /\ build.draft.run = build.run
  /\ build.draft.attempt = build.attempt

DirectoryIsOf(d) ==
  /\ disk.draft = d
  /\ disk.conformance = d
  /\ disk.sir = d
  /\ disk.tree = [of |-> d, whole |-> TRUE]

LoopProgress ==
  /\ pc \in HasDraft => DraftInHand /\ build.status = "REJECTED"
  /\ pc \in Written => disk.draft = build.draft
  /\ pc \in Reported => disk.conformance = build.draft
  /\ pc \in Conforming => Conforms(build.draft)
  /\ pc \in Consenting => Consistent(build.draft)
  /\ pc \in Compiled => Compiles(build.draft) /\ disk.sir = build.draft
  /\ pc = "gates" => disk.tree = [of |-> build.draft, whole |-> TRUE]
  /\ pc \notin Publishing \cup {"idle"} => build.status = "REJECTED"

AcceptInHand ==
  pc \in Publishing /\ build.status = "ACCEPTED" =>
    /\ DraftInHand
    /\ build.judged
    /\ DirectoryIsOf(build.draft)
    /\ Conforms(build.draft) /\ Consistent(build.draft) /\ Compiles(build.draft)
    /\ build.gates => PassesGates(build.draft)

PublicationOrder ==
  /\ disk.record # NoFile => disk.record.run <= build.run
  /\ pc # "idle" /\ disk.record # NoFile => disk.record.run < build.run
  /\ pc \in {"close", "record"} =>
       disk.repair = [run |-> build.run, status |-> build.status]
  /\ pc = "record" => disk.output = build.status

BuildInv ==
  /\ LoopProgress
  /\ AcceptInHand
  /\ PublicationOrder
  /\ AcceptedIsCoherent
  /\ AcceptedPassedChecks
  /\ RecordIsWrittenLast
  /\ OnlyVerifiedDraftsCompiled

(* What n attempts may cost, each with all its retries; and what the calls *)
(* of a build may have cost at each point of the two nested loops.         *)
Cost(n) == n * (MaxRetries + 1)
InLoop  == HasDraft \cup {"attempt", "provider", "called", "failed", "next"}

EndedInv == pc # "idle" => build.ended = "running"

CallsInv ==
  /\ build.limit >= 1
  /\ pc \in InLoop => build.attempt >= 1 /\ build.attempt <= build.limit
  /\ pc \in {"prepare", "boundary"} => calls = 0
  /\ pc = "attempt" => calls <= Cost(build.attempt - 1)
  /\ pc = "provider" => /\ build.retry <= MaxRetries
                       /\ calls <= Cost(build.attempt - 1) + build.retry
  /\ pc \in {"called", "failed"} =>
       /\ build.retry <= MaxRetries
       /\ calls <= Cost(build.attempt - 1) + build.retry + 1
  /\ pc = "called" =>
       /\ disk.okSpans < calls
       /\ disk.okSpans + disk.errorSpans <= 2 * calls - 2
  /\ pc = "failed" => disk.okSpans + disk.errorSpans < 2 * calls
  /\ pc \in HasDraft \cup {"next"} => calls <= Cost(build.attempt)
  /\ CallsAreBounded

(* A build of a blocked intent goes from the boundary to its report.       *)
BlockedInv ==
  build.prompt \in Blocked /\ pc # "idle" =>
    /\ pc \in {"prepare", "boundary"} \cup Publishing
    /\ calls = 0 /\ build.status = "REJECTED"
=============================================================================
