------------------------------- MODULE StudyArm -------------------------------
(***************************************************************************)
(* The resumable online arm of Study 1B (auto_research/study1b.py,         *)
(* run_online_repeated_arm and the observe_online_case it calls for every  *)
(* case and replicate) and, where job.stamping holds, the Study 2 arm that  *)
(* wraps it and re-issues its records with a source provenance lock        *)
(* (auto_research/study2.py, run_online_mutant_arm).                       *)
(*                                                                         *)
(* A cell is the directory of one case and replicate.  The build inside an *)
(* observation is reduced to what the arm reads of it afterwards: its      *)
(* numbered conformance reports, its status and its own record.  Each      *)
(* observation has a number, so that the model can tell what a file is     *)
(* left over from.                                                         *)
(***************************************************************************)
EXTENDS Integers, FiniteSets, FiniteSetsExt

CONSTANTS
  NumCells,      (* cases times replicates, in the order of the loops       *)
  Settings,      (* settings_sha256 values the arm may be started with      *)
  Sources,       (* source trees (provenance_sha256) that may be checked out *)
  Resume,        (* the values of the resume flag; the scripts default to TRUE *)
  Stamping,      (* which arms: TRUE the Study 2 wrapper, FALSE Study 1B    *)
  AttemptLimit,  (* attempts one build may make                             *)
  MaxLaunches,   (* bound: how often the command is started                 *)
  MaxKills,      (* bound: how often it is killed                           *)
  NoFile,        (* the file is not there                                   *)
  Torn           (* the file was being written when the process died        *)

ASSUME NumCellsAssumption == NumCells \in Nat \ {0}
ASSUME BoundsAssumption ==
  AttemptLimit \in Nat \ {0} /\ MaxLaunches \in Nat /\ MaxKills \in Nat
ASSUME ResumeAssumption == Resume \subseteq BOOLEAN /\ Stamping \subseteq BOOLEAN

VARIABLES
  pc,         (* where the arm is; "idle" when no process runs              *)
  job,        (* the locals of the running (or last) process                *)
  dir,        (* the replicate directories                                  *)
  summary,    (* arm_summary.json                                           *)
  qualified,  (* the qualification_summary.json the arm is pointed at       *)
  observed,   (* observations begun so far                                  *)
  launches, kills

vars == <<pc, job, dir, summary, qualified, observed, launches, kills>>

-----------------------------------------------------------------------------
Cells == 1 .. NumCells

Verdict == {"PASS", "FAIL"}

Report == [attempt : Nat, verdict : Verdict \cup {Torn}, of : Nat]

BuilderRecord == [by : {"builder"}, of : Nat, settings : {NoFile},
                  status : {"ACCEPTED", "REJECTED"}]

StudyRecord == [by : {"study"}, of : Nat, settings : Settings,
                status : {"ACCEPTED", "REJECTED", "ERROR"},
                first : Report \cup {NoFile}, final : Report \cup {NoFile},
                source : Sources, stamp : Sources \cup {NoFile}]

File == BuilderRecord \cup StudyRecord \cup {NoFile, Torn}

Summary == [settings : Settings, kept : SUBSET [cell : Cells, of : Nat],
            complete : BOOLEAN, stamped : BOOLEAN]

ASSUME FilesAssumption ==
  /\ NoFile # Torn
  /\ {NoFile, Torn} \cap (Verdict \cup Settings \cup Sources) = {}
  /\ {NoFile, Torn} \cap (Report \cup BuilderRecord \cup StudyRecord \cup Summary) = {}

Whole(file) == file \notin {NoFile, Torn}
IsStudy(file) == Whole(file) /\ file.by = "study"

Init ==
  /\ pc = "idle"
  /\ job \in [stamping : Stamping, settings : {NoFile}, source : {NoFile},
              resume : {TRUE}, cell : {1}, attempt : {0}, verdict : {NoFile},
              status : {"ERROR"}, kept : {{}}, ended : {"never"}]
  /\ dir = [c \in Cells |-> [record |-> NoFile, builder |-> NoFile, reports |-> {}]]
  /\ summary = NoFile
  /\ qualified = NoFile
  /\ observed = 0
  /\ launches = 0
  /\ kills = 0

here == dir[job.cell]

Goto(point) == pc' = point

Stop(how) == Goto("idle") /\ job' = [job EXCEPT !.ended = how]

-----------------------------------------------------------------------------
(* Between two launches the operator may check out another source tree and *)
(* qualify it: qualify_online_benchmark empties its directory first and    *)
(* publishes the summary last.                                             *)
Qualify ==
  /\ pc = "idle" /\ launches < MaxLaunches
  /\ \E s \in Settings, v \in Sources, ready \in BOOLEAN :
       qualified' = [settings |-> s, source |-> v, ready |-> ready]
  /\ UNCHANGED <<pc, job, dir, summary, observed, launches, kills>>

(* The qualification gate compares the settings digest; the Study 2 wrapper *)
(* also compares the provenance.                                           *)
GateOpen(s, v) ==
  /\ qualified # NoFile
  /\ qualified.ready
  /\ qualified.settings = s
  /\ job.stamping => qualified.source = v

Launch ==
  /\ pc = "idle" /\ launches < MaxLaunches
  /\ \E s \in Settings, v \in Sources, r \in Resume :
       /\ GateOpen(s, v)
       /\ job' = [job EXCEPT !.settings = s, !.source = v, !.resume = r,
                             !.cell = 1, !.kept = {}, !.ended = "running"]
  /\ launches' = launches + 1
  /\ Goto("cell")
  /\ UNCHANGED <<dir, summary, qualified, observed, kills>>

-----------------------------------------------------------------------------
AtCell == pc = "cell" /\ job.cell \in Cells
(* Faulty variant: an ERROR observation is repeated.                        *)
ResumingUnlessError ==
  /\ job.resume
  /\ here.record # NoFile
  /\ ~(IsStudy(here.record) /\ here.record.status = "ERROR")

Resuming == job.resume /\ here.record # NoFile

(* Faulty variant: a record is kept whatever settings it was made under.    *)
KeepAnyRecord ==
  /\ AtCell /\ Resuming
  /\ IsStudy(here.record)
  /\ job' = [job EXCEPT !.kept = @ \cup {[cell |-> job.cell, of |-> here.record.of]},
                        !.cell = @ + 1]
  /\ UNCHANGED <<pc, dir, summary, qualified, observed, launches, kills>>

(* A record left by an earlier launch is kept if it was made under the same *)
(* settings...                                                             *)
KeepRecord ==
  /\ AtCell /\ Resuming
  /\ Whole(here.record) /\ here.record.settings = job.settings
  /\ job' = [job EXCEPT !.kept = @ \cup {[cell |-> job.cell, of |-> here.record.of]},
                        !.cell = @ + 1]
  /\ UNCHANGED <<pc, dir, summary, qualified, observed, launches, kills>>

(* ... and otherwise ends the arm: ValueError for other (or no) settings,  *)
(* a validation error when it cannot be parsed.                            *)
RefuseRecord ==
  /\ AtCell /\ Resuming
  /\ Whole(here.record) => here.record.settings # job.settings
  /\ Stop("raised")
  /\ UNCHANGED <<dir, summary, qualified, observed, launches, kills>>

Observe ==
  /\ AtCell /\ ~Resuming
  /\ observed' = observed + 1
  /\ job' = [job EXCEPT !.attempt = 0, !.verdict = NoFile, !.status = "ERROR"]
  /\ Goto("build")
  /\ UNCHANGED <<dir, summary, qualified, launches, kills>>

-----------------------------------------------------------------------------
(* OnlineBuildService.build, as far as the directory shows it (the module  *)
(* OnlineBuild has the whole loop).  An attempt writes its conformance     *)
(* report unless the provider gave no usable draft.                        *)
PutReport(v) ==
  dir' = [dir EXCEPT ![job.cell].reports =
            {r \in @ : r.attempt # job.attempt + 1}
              \cup {[attempt |-> job.attempt + 1, verdict |-> v, of |-> observed]}]

JudgedAttempt ==
  /\ pc = "build" /\ job.attempt < AttemptLimit
  /\ \E v \in Verdict :
       /\ PutReport(v)
       /\ job' = [job EXCEPT !.attempt = @ + 1, !.verdict = v]
  /\ Goto("judged")
  /\ UNCHANGED <<summary, qualified, observed, launches, kills>>

DraftlessAttempt ==
  /\ pc = "build" /\ job.attempt < AttemptLimit
  /\ job' = [job EXCEPT !.attempt = @ + 1]
  /\ UNCHANGED <<pc, dir, summary, qualified, observed, launches, kills>>

BuildAccepts ==
  /\ pc = "judged" /\ job.verdict = "PASS"
  /\ job' = [job EXCEPT !.status = "ACCEPTED"]
  /\ Goto("publish")
  /\ UNCHANGED <<dir, summary, qualified, observed, launches, kills>>

(* Faulty variant: every attempt starts the count again.                    *)
NextAttemptAnew ==
  /\ pc = "judged"
  /\ job' = [job EXCEPT !.attempt = 0]
  /\ Goto("build")
  /\ UNCHANGED <<dir, summary, qualified, observed, launches, kills>>

NextAttempt ==
  /\ pc = "judged"
  /\ Goto("build")
  /\ UNCHANGED <<job, dir, summary, qualified, observed, launches, kills>>

(* The attempts are used up, or the context was blocked before the first.  *)
BuildRejects ==
  /\ pc = "build" /\ job.attempt \in {0, AttemptLimit}
  /\ job' = [job EXCEPT !.status = "REJECTED"]
  /\ Goto("publish")
  /\ UNCHANGED <<dir, summary, qualified, observed, launches, kills>>

BuilderWritesRecord ==
  /\ pc = "publish"
  /\ dir' = [dir EXCEPT ![job.cell].record =
               [by |-> "builder", of |-> observed, settings |-> NoFile,
                status |-> job.status]]
  /\ Goto("archive")
  /\ UNCHANGED <<job, summary, qualified, observed, launches, kills>>

(* Any exception of the build is caught: the observation goes on as ERROR. *)
BuildRaises ==
  /\ pc \in {"build", "judged"}
  /\ job' = [job EXCEPT !.status = "ERROR"]
  /\ Goto("archive")
  /\ UNCHANGED <<dir, summary, qualified, observed, launches, kills>>

-----------------------------------------------------------------------------
(* Faulty variant: an archive that is there is kept.                        *)
ArchiveOnce ==
  /\ pc = "archive"
  /\ IF here.record # NoFile
       THEN dir' = [dir EXCEPT ![job.cell].builder = IF @ = NoFile THEN here.record ELSE @,
                               ![job.cell].record = NoFile]
       ELSE UNCHANGED dir
  /\ Goto("record")
  /\ UNCHANGED <<job, summary, qualified, observed, launches, kills>>

(* _archive_builder_record: whatever generation_run.json is there is moved *)
(* aside.                                                                  *)
Archive ==
  /\ pc = "archive"
  /\ IF here.record # NoFile
       THEN dir' = [dir EXCEPT ![job.cell].builder = here.record,
                               ![job.cell].record = NoFile]
       ELSE UNCHANGED dir
  /\ Goto("record")
  /\ UNCHANGED <<job, summary, qualified, observed, launches, kills>>

(* _conformance_observations reads every numbered report of the directory, *)
(* in the order of the numbers.                                            *)
Readable == \A r \in here.reports : r.verdict # Torn

ReportOf(n) == CHOOSE r \in here.reports : r.attempt = n
Numbers == {r.attempt : r \in here.reports}
FirstReport == IF here.reports = {} THEN NoFile ELSE ReportOf(Min(Numbers))
(* Faulty variant: the first report found counts as the last.               *)
EarliestReport == FirstReport

FinalReport == IF here.reports = {} THEN NoFile ELSE ReportOf(Max(Numbers))

WriteRecord ==
  /\ pc = "record" /\ Readable
  /\ dir' = [dir EXCEPT ![job.cell].record =
               [by |-> "study", of |-> observed, settings |-> job.settings,
                status |-> job.status, first |-> FirstReport,
                final |-> FinalReport, source |-> job.source, stamp |-> NoFile]]
  /\ job' = [job EXCEPT !.kept = @ \cup {[cell |-> job.cell, of |-> observed]},
                        !.cell = @ + 1]
  /\ Goto("cell")
  /\ UNCHANGED <<summary, qualified, observed, launches, kills>>

UnreadableReport ==
  /\ pc = "record" /\ ~Readable
  /\ Stop("raised")
  /\ UNCHANGED <<dir, summary, qualified, observed, launches, kills>>

-----------------------------------------------------------------------------
Conclude ==
  [settings |-> job.settings, kept |-> job.kept,
   complete |-> Cardinality(job.kept) = NumCells, stamped |-> FALSE]

WriteSummary ==
  /\ pc = "cell" /\ job.cell > NumCells
  /\ summary' = Conclude
  /\ IF job.stamping
       THEN Goto("stamp") /\ job' = [job EXCEPT !.cell = 1]
       ELSE Stop("returned")
  /\ UNCHANGED <<dir, qualified, observed, launches, kills>>

(* _stamp_online_records: every generation_run.json under the arm is       *)
(* rewritten with the provenance of the process that does the stamping.    *)
Stamp ==
  /\ pc = "stamp" /\ job.cell \in Cells
  /\ dir' = [dir EXCEPT ![job.cell].record.stamp = job.source]
  /\ job' = [job EXCEPT !.cell = @ + 1]
  /\ UNCHANGED <<pc, summary, qualified, observed, launches, kills>>

(* The summary is written a second time, with the provenance.              *)
FinishStamping ==
  /\ pc = "stamp" /\ job.cell > NumCells
  /\ summary' = [Conclude EXCEPT !.stamped = TRUE]
  /\ Stop("returned")
  /\ UNCHANGED <<dir, qualified, observed, launches, kills>>

(* The process is killed.  A file it was writing is torn; the archive step *)
(* may have removed the old archive and moved nothing yet.                 *)
Tear ==
  \/ UNCHANGED <<dir, summary>>
  \/ /\ pc = "build" /\ job.attempt < AttemptLimit /\ PutReport(Torn)
     /\ UNCHANGED summary
  \/ /\ pc = "publish" \/ (pc = "record" /\ Readable)
        \/ (pc = "stamp" /\ job.cell \in Cells)
     /\ dir' = [dir EXCEPT ![job.cell].record = Torn]
     /\ UNCHANGED summary
  \/ /\ pc = "archive" /\ here.record # NoFile
     /\ dir' = [dir EXCEPT ![job.cell].builder = NoFile]
     /\ UNCHANGED summary
  \/ /\ pc \in {"cell", "stamp"} /\ job.cell > NumCells
     /\ summary' = Torn
     /\ UNCHANGED dir

Kill ==
  /\ pc # "idle" /\ kills < MaxKills
  /\ kills' = kills + 1
  /\ Tear
  /\ Stop("killed")
  /\ UNCHANGED <<qualified, observed, launches>>

Step ==
  \/ KeepRecord \/ RefuseRecord \/ Observe
  \/ JudgedAttempt \/ DraftlessAttempt \/ BuildAccepts \/ NextAttempt
  \/ BuildRejects \/ BuilderWritesRecord \/ BuildRaises
  \/ Archive \/ WriteRecord \/ UnreadableReport
  \/ WriteSummary \/ Stamp \/ FinishStamping

Next == Qualify \/ Launch \/ Step \/ Kill

Spec == Init /\ [][Next]_vars

(* One synchronous process: while it lives it keeps taking steps.          *)
FairSpec == Spec /\ WF_vars(Step)

-----------------------------------------------------------------------------
(* Type invariant.                                                         *)
Job ==
  [stamping : Stamping,
   settings : Settings \cup {NoFile}, source : Sources \cup {NoFile},
   resume : BOOLEAN, cell : 1 .. NumCells + 1,
   attempt : 0 .. AttemptLimit, verdict : Verdict \cup {NoFile},
   status : {"ACCEPTED", "REJECTED", "ERROR"},
   kept : SUBSET [cell : Cells, of : Nat],
   ended : {"never", "running", "returned", "raised", "killed"}]

Directory == [record : File, builder : File, reports : SUBSET Report]

TypeOK ==
  /\ pc \in {"idle", "cell", "build", "judged", "publish", "archive", "record",
            "stamp"}
  /\ job \in Job
  /\ dir \in [Cells -> Directory]
  /\ summary \in {NoFile, Torn} \cup Summary
  /\ qualified \in {NoFile} \cup
       [settings : Settings, source : Sources, ready : BOOLEAN]
  /\ observed \in Nat /\ launches \in 0 .. MaxLaunches /\ kills \in 0 .. MaxKills

(* An arm that returned describes what is on disk, whatever launches, kills *)
(* and refusals came before it: arm_summary.json is complete, and counts   *)
(* for each cell the very observation whose record is there, made under    *)
(* the settings the summary names; in Study 2 each carries the stamp.      *)
SummaryDescribesDisk ==
  pc = "idle" /\ job.ended = "returned" =>
    /\ Whole(summary) /\ summary.complete
    /\ \A c \in Cells :
         /\ IsStudy(dir[c].record)
         /\ dir[c].record.settings = summary.settings
         /\ [cell |-> c, of |-> dir[c].record.of] \in summary.kept
         /\ job.stamping => summary.stamped /\ dir[c].record.stamp = job.source

(* Resuming never repeats or loses an observation that is already on disk, *)
(* ERROR observations included, wherever the arm is interrupted (the       *)
(* stamping of Study 2 rewrites records and is not covered: see            *)
(* InterruptedArmResumes).                                                 *)
ResumeKeepsObservations ==
  [][\A c \in Cells :
       pc \notin {"idle", "stamp"} /\ job.resume /\ IsStudy(dir[c].record) =>
         IsStudy(dir'[c].record) /\ dir'[c].record.of = dir[c].record.of]_vars

(* The builder's own record that is archived beside a study record is of   *)
(* the same observation and says the same, if the arm is always resumed.   *)
ArchiveMatchesRecord == Resume = {TRUE} =>
  \A c \in Cells :
    LET r == dir[c].record IN
    IsStudy(r) /\ r.status # "ERROR" =>
      /\ Whole(dir[c].builder) /\ dir[c].builder.by = "builder"
      /\ dir[c].builder.of = r.of /\ dir[c].builder.status = r.status

(* The conformance metrics of a record come from its own observation, and  *)
(* an accepted one ends with a PASS.                                       *)
VerdictsAreOwn ==
  \A c \in Cells :
    LET r == dir[c].record IN
    IsStudy(r) =>
      /\ r.final # NoFile => r.first.of = r.of /\ r.final.of = r.of
      /\ r.status = "ACCEPTED" => r.final # NoFile /\ r.final.verdict = "PASS"

(* ... which does hold of an arm that is always resumed and never killed.  *)
UnkilledVerdictsAreOwn == kills = 0 /\ Resume = {TRUE} => VerdictsAreOwn

(* Whatever moment an arm is interrupted at, what it leaves behind does not *)
(* stop the next launch: each record on disk is a finished observation.    *)
InterruptedArmResumes ==
  pc = "idle" =>
    \A c \in Cells : dir[c].record # NoFile => IsStudy(dir[c].record)

(* An arm that is not killed comes to an end.                              *)
ArmEnds == pc # "idle" ~> pc = "idle"

-----------------------------------------------------------------------------
(* The inductive invariant behind the theorems of StudyArmProofs.          *)
Observing == {"build", "judged", "publish", "archive", "record"}

(* What a process that runs was started with, and how far its build is.    *)
RunningInv ==
  /\ pc # "idle" =>
       job.settings \in Settings /\ job.source \in Sources /\ job.ended = "running"
  /\ pc \in Observing => job.cell \in Cells
  /\ pc = "stamp" => job.stamping
  /\ Resume = {TRUE} => job.resume
  /\ pc \in {"build", "judged"} => job.status = "ERROR"
  /\ pc = "publish" => job.status # "ERROR"

(* Each cell the process is through with has its record, counted once.     *)
Counted(c) ==
  /\ IsStudy(dir[c].record)
  /\ dir[c].record.settings = job.settings
  /\ [cell |-> c, of |-> dir[c].record.of] \in job.kept

KeptInv ==
  /\ IsFiniteSet(job.kept)
  /\ pc \in {"cell"} \cup Observing =>
       /\ \A c \in 1 .. (job.cell - 1) : Counted(c)
       /\ Cardinality(job.kept) = job.cell - 1
       /\ \A k \in job.kept : k.cell < job.cell
  /\ pc = "stamp" =>
       /\ \A c \in Cells : Counted(c)
       /\ Cardinality(job.kept) = NumCells
       /\ \A c \in 1 .. (job.cell - 1) : dir[c].record.stamp = job.source

(* What stands in the directory of the observation that is going on: its   *)
(* own builder record, and with resumption no record of another.           *)
OwnRecord ==
  [by |-> "builder", of |-> observed, settings |-> NoFile, status |-> job.status]

InHandInv ==
  /\ job.resume /\ pc \in Observing => ~IsStudy(here.record)
  /\ job.resume /\ pc \in Observing \ {"archive"} => here.record = NoFile
  /\ pc = "archive" /\ job.status # "ERROR" => here.record = OwnRecord
  /\ pc = "record" /\ job.status # "ERROR" => here.builder = OwnRecord

(* There is a first and a last report where there is one.                  *)
Spanned(reports) ==
  reports # {} =>
    \E first, last \in reports : \A r \in reports :
      first.attempt <= r.attempt /\ r.attempt <= last.attempt

SpannedInv == \A c \in Cells : Spanned(dir[c].reports)

(* Where every arm is resumed and none is killed, the reports of a         *)
(* directory are those of its only observation.                            *)
FreshInv ==
  \A c \in Cells :
    dir[c].record = NoFile /\ ~(pc \in Observing /\ c = job.cell) => dir[c].reports = {}

OwnReportsInv ==
  /\ pc \in Observing =>
       /\ \A r \in here.reports :
            r.of = observed /\ r.verdict \in Verdict /\ r.attempt \in 1 .. job.attempt
       /\ \A r, s \in here.reports : r.attempt = s.attempt => r = s
  /\ pc = "judged" =>
       \E r \in here.reports : r.attempt = job.attempt /\ r.verdict = job.verdict
  /\ pc \in {"publish", "archive", "record"} /\ job.status = "ACCEPTED" =>
       \E r \in here.reports : r.attempt = job.attempt /\ r.verdict = "PASS"

UnkilledInv ==
  kills = 0 /\ Resume = {TRUE} => FreshInv /\ OwnReportsInv /\ VerdictsAreOwn

StudyInv ==
  /\ RunningInv /\ KeptInv /\ InHandInv /\ SpannedInv
  /\ SummaryDescribesDisk /\ ArchiveMatchesRecord /\ UnkilledInv
=============================================================================
