---------------------------- MODULE StudyArmProofs ----------------------------
(***************************************************************************)
(* What the summary, the records and the archives of a resumable arm say,  *)
(* for any number of cells, launches and kills.                            *)
(***************************************************************************)
EXTENDS StudyArm, FiniteSetTheorems, TLAPS

-----------------------------------------------------------------------------
(* Files.                                                                  *)

(* A whole file is a record of the builder or of the study.                *)
LEMMA WholeFiles ==
  ASSUME NEW f \in File
  PROVE  /\ Whole(f) <=> f \in BuilderRecord \cup StudyRecord
         /\ IsStudy(f) <=> f \in StudyRecord
<1>1. f \in BuilderRecord => f.by = "builder"
  BY DEF BuilderRecord
<1>2. f \in StudyRecord => f.by = "study"
  BY DEF StudyRecord
<1> QED
  BY <1>1, <1>2, FilesAssumption DEF File, Whole, IsStudy

(* Where there is no file, or a torn one, there is no record.              *)
LEMMA NoFiles ==
  /\ NoFile \in File /\ Torn \in File /\ NoFile # Torn
  /\ ~IsStudy(NoFile) /\ ~IsStudy(Torn) /\ ~Whole(NoFile) /\ ~Whole(Torn)
  BY FilesAssumption DEF File, IsStudy, Whole

(* What the builder publishes.                                             *)
LEMMA OwnRecordIs ==
  ASSUME TypeOK, job.status # "ERROR"
  PROVE  /\ OwnRecord \in BuilderRecord /\ OwnRecord \in File /\ ~IsStudy(OwnRecord)
         /\ Whole(OwnRecord) /\ OwnRecord.by = "builder" /\ OwnRecord.of = observed
         /\ OwnRecord.status = job.status
<1>1. OwnRecord \in BuilderRecord
  BY DEF OwnRecord, BuilderRecord, TypeOK, Job
<1> QED
  BY <1>1, WholeFiles DEF File, OwnRecord, IsStudy

-----------------------------------------------------------------------------
(* What a step does to the directory of the current cell.                  *)
Elsewhere == \A c \in Cells : c # job.cell => dir'[c] = dir[c]

(* Another file stands where the record stood.                             *)
LEMMA RecordPut ==
  ASSUME TypeOK, job.cell \in Cells, NEW f \in File,
         dir' = [dir EXCEPT ![job.cell].record = f]
  PROVE  /\ dir' \in [Cells -> Directory] /\ Elsewhere
         /\ dir'[job.cell].record = f
         /\ dir'[job.cell].builder = here.builder /\ dir'[job.cell].reports = here.reports
<1>1. here \in Directory
  BY DEF here, TypeOK
<1> DEFINE d == [here EXCEPT !.record = f]
<1>2. /\ d \in Directory /\ d.record = f /\ d.builder = here.builder
      /\ d.reports = here.reports
  BY <1>1 DEF Directory
<1>3. dir' = [dir EXCEPT ![job.cell] = d]
  BY DEF here
<1> HIDE DEF d
<1>4. dir \in [Cells -> Directory]
  BY DEF TypeOK
<1>5. dir'[job.cell] = d
  BY <1>3, <1>4
<1>6. dir' \in [Cells -> Directory] /\ Elsewhere
  BY <1>2, <1>3, <1>4 DEF Elsewhere
<1> QED
  BY <1>2, <1>5, <1>6

(* An attempt has its report, whatever number it has.                      *)
LEMMA ReportPut ==
  ASSUME TypeOK, job.cell \in Cells, NEW v \in Verdict \cup {Torn}, PutReport(v)
  PROVE  /\ dir' \in [Cells -> Directory] /\ Elsewhere
         /\ dir'[job.cell].record = here.record /\ dir'[job.cell].builder = here.builder
         /\ dir'[job.cell].reports =
              {r \in here.reports : r.attempt # job.attempt + 1}
                \cup {[attempt |-> job.attempt + 1, verdict |-> v, of |-> observed]}
<1>1. here \in Directory
  BY DEF here, TypeOK
<1> DEFINE new == {r \in here.reports : r.attempt # job.attempt + 1}
                    \cup {[attempt |-> job.attempt + 1, verdict |-> v, of |-> observed]}
           d == [here EXCEPT !.reports = new]
<1>2. new \subseteq Report
  <2>1. [attempt |-> job.attempt + 1, verdict |-> v, of |-> observed] \in Report
    BY BoundsAssumption DEF Report, TypeOK, Job
  <2>2. here.reports \subseteq Report
    BY <1>1 DEF Directory
  <2> QED
    BY <2>1, <2>2
<1>3. dir' = [dir EXCEPT ![job.cell] = [here EXCEPT !.reports = new]]
  BY DEF PutReport, here
<1> HIDE DEF new
<1>4. /\ d \in Directory /\ d.record = here.record /\ d.builder = here.builder
      /\ d.reports = new
  BY <1>1, <1>2 DEF Directory
<1> HIDE DEF d
<1>5. dir' = [dir EXCEPT ![job.cell] = d]
  BY <1>3 DEF d
<1>6. dir' \in [Cells -> Directory] /\ Elsewhere /\ dir'[job.cell] = d
  BY <1>4, <1>5 DEF Elsewhere, TypeOK
<1> QED
  BY <1>4, <1>6 DEF new

(* The builder's record is moved aside, if there is one.                   *)
LEMMA ArchiveMoves ==
  ASSUME TypeOK, job.cell \in Cells, Archive
  PROVE  /\ dir' \in [Cells -> Directory] /\ Elsewhere
         /\ dir'[job.cell].record = NoFile /\ dir'[job.cell].reports = here.reports
         /\ dir'[job.cell].builder = IF here.record # NoFile THEN here.record ELSE here.builder
<1>1. here \in Directory
  BY DEF here, TypeOK
<1>2. CASE here.record = NoFile
  BY <1>1, <1>2 DEF Archive, here, Elsewhere, TypeOK
<1>3. CASE here.record # NoFile
  <2> DEFINE d == [here EXCEPT !.builder = here.record, !.record = NoFile]
  <2>1. /\ d \in Directory /\ d.record = NoFile /\ d.builder = here.record
        /\ d.reports = here.reports
    BY <1>1, NoFiles DEF Directory
  <2>2. dir' = [dir EXCEPT ![job.cell] = d]
    BY <1>3 DEF Archive, here
  <2> HIDE DEF d
  <2> QED
    BY <1>3, <2>1, <2>2 DEF Elsewhere, TypeOK
<1> QED
  BY <1>2, <1>3

(* The archive that is replaced is gone first.                             *)
LEMMA ArchiveGone ==
  ASSUME TypeOK, job.cell \in Cells, dir' = [dir EXCEPT ![job.cell].builder = NoFile]
  PROVE  /\ dir' \in [Cells -> Directory] /\ Elsewhere
         /\ dir'[job.cell].record = here.record /\ dir'[job.cell].reports = here.reports
<1>1. here \in Directory
  BY DEF here, TypeOK
<1> DEFINE d == [here EXCEPT !.builder = NoFile]
<1>2. d \in Directory /\ d.record = here.record /\ d.reports = here.reports
  BY <1>1, NoFiles DEF Directory
<1>3. dir' = [dir EXCEPT ![job.cell] = d]
  BY DEF here
<1> HIDE DEF d
<1>4. dir \in [Cells -> Directory]
  BY DEF TypeOK
<1>5. dir'[job.cell] = d
  BY <1>3, <1>4
<1>6. dir' \in [Cells -> Directory] /\ Elsewhere
  BY <1>2, <1>3, <1>4 DEF Elsewhere
<1> QED
  BY <1>2, <1>5, <1>6

-----------------------------------------------------------------------------
(* Steps inside an observation.                                            *)

(* What a launch fixes for all its cells.                                  *)
SameLaunch ==
  /\ job'.stamping = job.stamping /\ job'.settings = job.settings
  /\ job'.source = job.source /\ job'.resume = job.resume

(* What such steps leave alone: everything of the other cells, and what    *)
(* has been counted.                                                       *)
Working ==
  /\ pc \in {"cell"} \cup Observing /\ pc' \in Observing /\ job.cell \in Cells
  /\ job' \in Job /\ SameLaunch
  /\ job'.cell = job.cell /\ job'.kept = job.kept /\ job'.ended = job.ended
  /\ dir' \in [Cells -> Directory] /\ Elsewhere
  /\ UNCHANGED <<summary, qualified, launches, kills>>
  /\ observed' \in {observed, observed + 1}

(* Then only the cell at hand is to be looked at.                          *)
LEMMA WorkFrame ==
  ASSUME TypeOK, StudyInv, Working, InHandInv', Spanned(dir'[job.cell].reports),
         pc' \in {"build", "judged"} => job'.status = "ERROR",
         pc' = "publish" => job'.status # "ERROR",
         kills = 0 /\ Resume = {TRUE} => OwnReportsInv'
  PROVE  TypeOK' /\ StudyInv'
<1> USE DEF Working, SameLaunch
<1>1. pc # "idle" /\ pc # "stamp" /\ pc' # "idle" /\ pc' # "stamp" /\ pc' # "cell"
  BY DEF Observing
<1>2. TypeOK'
  BY DEF TypeOK, Observing
<1>3. RunningInv'
  BY <1>1 DEF StudyInv, RunningInv
<1>4. KeptInv'
  <2>1. /\ \A c \in 1 .. (job.cell - 1) : Counted(c) /\ IsFiniteSet(job.kept)
        /\ Cardinality(job.kept) = job.cell - 1 /\ \A k \in job.kept : k.cell < job.cell
    BY DEF StudyInv, KeptInv
  <2>2. \A c \in 1 .. (job.cell - 1) : c \in Cells /\ c # job.cell
    BY NumCellsAssumption DEF Cells, TypeOK, Job
  <2>3. \A c \in 1 .. (job.cell - 1) : Counted(c)'
    BY <2>1, <2>2 DEF Elsewhere, Counted
  <2>4. IsFiniteSet(job.kept)
    BY DEF StudyInv, KeptInv
  <2> QED
    BY <1>1, <2>1, <2>3, <2>4 DEF KeptInv
<1>5. SpannedInv'
  BY DEF StudyInv, SpannedInv, Elsewhere
<1>6. SummaryDescribesDisk'
  BY <1>1 DEF SummaryDescribesDisk
<1>7. Resume = {TRUE} => ~IsStudy(dir'[job.cell].record)
  BY DEF InHandInv, here, StudyInv, RunningInv
<1>8. ArchiveMatchesRecord'
  BY <1>7 DEF StudyInv, ArchiveMatchesRecord, Elsewhere
<1>9. UnkilledInv'
  <2> SUFFICES ASSUME kills = 0, Resume = {TRUE} PROVE (FreshInv /\ OwnReportsInv /\ VerdictsAreOwn)'
    BY DEF UnkilledInv
  <2>1. FreshInv /\ VerdictsAreOwn
    BY DEF StudyInv, UnkilledInv
  <2>2. FreshInv'
    BY <2>1 DEF FreshInv, Elsewhere
  <2>3. VerdictsAreOwn'
    BY <1>7, <2>1 DEF VerdictsAreOwn, Elsewhere
  <2> QED
    BY <2>2, <2>3
<1> QED
  BY <1>2, <1>3, <1>4, <1>5, <1>6, <1>8, <1>9 DEF StudyInv

(* An observation begins: with resumption, in an empty directory.          *)
LEMMA ObserveStep ==
  ASSUME TypeOK, StudyInv, Observe
  PROVE  TypeOK' /\ StudyInv'
<1>1. /\ pc = "cell" /\ pc' = "build" /\ job.cell \in Cells /\ dir' = dir
      /\ observed' = observed + 1 /\ (job.resume => here.record = NoFile)
  BY DEF Observe, AtCell, Goto, Resuming
<1>2. /\ job' \in Job /\ SameLaunch /\ job'.status = "ERROR"
      /\ job'.cell = job.cell /\ job'.kept = job.kept /\ job'.ended = job.ended
  <2>1. job \in Job /\ 0 \in 0 .. AttemptLimit
    BY BoundsAssumption DEF TypeOK
  <2> DEFINE j == [job EXCEPT !.attempt = 0, !.verdict = NoFile, !.status = "ERROR"]
  <2>2. j \in Job
    BY <2>1 DEF Job
  <2>3. /\ j.stamping = job.stamping /\ j.settings = job.settings
        /\ j.source = job.source /\ j.resume = job.resume /\ j.status = "ERROR"
        /\ j.cell = job.cell /\ j.kept = job.kept /\ j.ended = job.ended
    BY <2>1 DEF Job
  <2>4. job' = j
    BY DEF Observe
  <2> HIDE DEF j
  <2> QED
    BY <2>2, <2>3, <2>4 DEF SameLaunch
<1>3. Working
  BY <1>1, <1>2 DEF Observe, Working, Observing, Elsewhere, TypeOK
<1>4. InHandInv'
  <2>1. here' = here
    BY <1>1, <1>2 DEF here
  <2> QED
    BY <1>1, <1>2, <2>1, NoFiles DEF InHandInv, SameLaunch
<1>5. Spanned(dir'[job.cell].reports)
  BY <1>1 DEF StudyInv, SpannedInv
<1>6. kills = 0 /\ Resume = {TRUE} => OwnReportsInv'
  <2> SUFFICES ASSUME kills = 0, Resume = {TRUE} PROVE OwnReportsInv'
    OBVIOUS
  <2>1. here.reports = {}
    BY <1>1 DEF StudyInv, RunningInv, UnkilledInv, FreshInv, Observing, here
  <2>2. here'.reports = {}
    BY <1>1, <1>2, <2>1 DEF here
  <2> QED
    BY <1>1, <2>2 DEF OwnReportsInv
<1> QED
  BY <1>1, <1>2, <1>3, <1>4, <1>5, <1>6, WorkFrame

(* One more report keeps a first and a last one.                           *)
LEMMA SpannedReports ==
  ASSUME NEW reports \in SUBSET Report, Spanned(reports), NEW new \in Report,
         NEW n \in Nat, new.attempt = n
  PROVE  Spanned({r \in reports : r.attempt # n} \cup {new})
<1> DEFINE all == {r \in reports : r.attempt # n} \cup {new}
<1>1. \A r \in reports : r.attempt \in Nat
  BY DEF Report
<1>2. CASE reports = {}
  BY <1>2 DEF Spanned
<1>3. CASE reports # {}
  <2>1. PICK first \in reports, last \in reports : \A r \in reports :
          first.attempt <= r.attempt /\ r.attempt <= last.attempt
    BY <1>3 DEF Spanned
  <2>2. \E f \in all : f.attempt <= n /\ f.attempt <= first.attempt
    <3>1. CASE first.attempt < n
      BY <1>1, <3>1
    <3>2. CASE ~(first.attempt < n)
      BY <1>1, <3>2
    <3> QED
      BY <3>1, <3>2
  <2>3. \E l \in all : n <= l.attempt /\ last.attempt <= l.attempt
    <3>1. CASE n < last.attempt
      BY <1>1, <3>1
    <3>2. CASE ~(n < last.attempt)
      BY <1>1, <3>2
    <3> QED
      BY <3>1, <3>2
  <2>4. PICK f \in all : f.attempt <= n /\ f.attempt <= first.attempt
    BY <2>2
  <2>5. PICK l \in all : n <= l.attempt /\ last.attempt <= l.attempt
    BY <2>3
  <2>6. \A r \in all : r.attempt \in Nat /\ (r \in reports \/ r.attempt = n)
    BY <1>1
  <2>7. \A r \in all : f.attempt <= r.attempt /\ r.attempt <= l.attempt
    BY <1>1, <2>1, <2>4, <2>5, <2>6
  <2> QED
    BY <2>4, <2>5, <2>7 DEF Spanned
<1> QED
  BY <1>2, <1>3

(* An attempt is judged, and the verdict stands in its report.             *)
LEMMA JudgedStep ==
  ASSUME TypeOK, StudyInv, JudgedAttempt
  PROVE  TypeOK' /\ StudyInv'
<1>1. PICK v \in Verdict :
        PutReport(v) /\ job' = [job EXCEPT !.attempt = @ + 1, !.verdict = v]
  BY DEF JudgedAttempt
<1>2. /\ pc = "build" /\ pc' = "judged" /\ job.attempt < AttemptLimit
      /\ UNCHANGED <<summary, qualified, observed, launches, kills>>
      /\ job.cell \in Cells /\ job.status = "ERROR"
  BY DEF JudgedAttempt, Goto, StudyInv, RunningInv, Observing
<1>3. /\ job' \in Job /\ SameLaunch /\ job'.status = "ERROR" /\ job'.verdict = v
      /\ job'.cell = job.cell /\ job'.kept = job.kept /\ job'.ended = job.ended
      /\ job'.attempt = job.attempt + 1 /\ job.attempt \in Nat
  <2>1. job \in Job /\ job.attempt + 1 \in 0 .. AttemptLimit /\ job.attempt \in Nat
    BY <1>2, BoundsAssumption DEF TypeOK, Job
  <2> DEFINE j == [job EXCEPT !.attempt = @ + 1, !.verdict = v]
  <2>2. j \in Job
    BY <2>1 DEF Job
  <2>3. /\ j.stamping = job.stamping /\ j.settings = job.settings
        /\ j.source = job.source /\ j.resume = job.resume /\ j.status = job.status
        /\ j.cell = job.cell /\ j.kept = job.kept /\ j.ended = job.ended
        /\ j.verdict = v /\ j.attempt = job.attempt + 1
    BY <2>1 DEF Job
  <2>4. job' = j
    BY <1>1
  <2> HIDE DEF j
  <2> QED
    BY <1>2, <2>1, <2>2, <2>3, <2>4 DEF SameLaunch
<1> DEFINE n == job.attempt + 1
           new == [attempt |-> n, verdict |-> v, of |-> observed]
<1>4. /\ dir' \in [Cells -> Directory] /\ Elsewhere
      /\ dir'[job.cell].record = here.record
      /\ dir'[job.cell].reports = {r \in here.reports : r.attempt # n} \cup {new}
  BY <1>1, <1>2, ReportPut
<1>5. Working
  BY <1>2, <1>3, <1>4 DEF Working, Observing
<1>6. new \in Report /\ n \in Nat /\ new.attempt = n /\ here.reports \in SUBSET Report
  BY <1>2, <1>3 DEF Report, TypeOK, Directory, here
<1>7. here' = dir'[job.cell]
  BY <1>3 DEF here
<1>8. InHandInv'
  BY <1>2, <1>3, <1>4, <1>7 DEF StudyInv, InHandInv, SameLaunch, Observing
<1>9. Spanned(dir'[job.cell].reports)
  BY <1>2, <1>4, <1>6, SpannedReports DEF StudyInv, SpannedInv, here
<1>10. kills = 0 /\ Resume = {TRUE} => OwnReportsInv'
  <2> SUFFICES ASSUME kills = 0, Resume = {TRUE} PROVE OwnReportsInv'
    OBVIOUS
  <2>1. /\ \A r \in here.reports :
             r.of = observed /\ r.verdict \in Verdict /\ r.attempt \in 1 .. job.attempt
        /\ \A r, s \in here.reports : r.attempt = s.attempt => r = s
    BY <1>2 DEF StudyInv, UnkilledInv, OwnReportsInv, Observing
  <2>2. new.of = observed /\ new.verdict = v /\ new.attempt = n
    OBVIOUS
  <2> HIDE DEF new
  <2>3. \A r \in here'.reports : r = new \/ (r \in here.reports /\ r.attempt # n)
    BY <1>4, <1>7
  <2>4. new \in here'.reports
    BY <1>4, <1>7
  <2>5. \A r \in here'.reports :
          r.of = observed /\ r.verdict \in Verdict /\ r.attempt \in 1 .. job'.attempt
    BY <1>3, <2>1, <2>2, <2>3
  <2>6. \A r, s \in here'.reports : r.attempt = s.attempt => r = s
    BY <2>1, <2>2, <2>3
  <2> QED
    BY <1>2, <1>3, <2>2, <2>4, <2>5, <2>6 DEF OwnReportsInv
<1> QED
  BY <1>2, <1>3, <1>5, <1>8, <1>9, <1>10, WorkFrame

(* The steps of a build that write no file.                                *)
LEMMA QuietSteps ==
  ASSUME TypeOK, StudyInv,
         DraftlessAttempt \/ BuildAccepts \/ NextAttempt \/ BuildRejects \/ BuildRaises
  PROVE  TypeOK' /\ StudyInv'
<1>1. /\ pc \in {"build", "judged"} /\ job.cell \in Cells /\ job.status = "ERROR"
      /\ UNCHANGED <<dir, summary, qualified, observed, launches, kills>>
  BY DEF DraftlessAttempt, BuildAccepts, NextAttempt, BuildRejects, BuildRaises,
     StudyInv, RunningInv, Observing
<1>2. /\ pc' \in {"build", "publish", "archive"} /\ job' \in Job /\ SameLaunch
      /\ job'.cell = job.cell /\ job'.kept = job.kept /\ job'.ended = job.ended
      /\ job.attempt \in Nat /\ job'.attempt \in Nat /\ job.attempt <= job'.attempt
      /\ pc' \in {"build", "archive"} => job'.status = "ERROR"
      /\ pc' = "publish" => job'.status # "ERROR"
      /\ job'.status = "ACCEPTED" =>
           pc = "judged" /\ job.verdict = "PASS" /\ job'.attempt = job.attempt
  <2>1. CASE DraftlessAttempt
    BY <1>1, <2>1, BoundsAssumption DEF DraftlessAttempt, TypeOK, Job, SameLaunch
  <2>2. CASE BuildAccepts
    BY <1>1, <2>2, BoundsAssumption DEF BuildAccepts, Goto, TypeOK, Job, SameLaunch
  <2>3. CASE NextAttempt
    BY <1>1, <2>3, BoundsAssumption DEF NextAttempt, Goto, TypeOK, Job, SameLaunch
  <2>4. CASE BuildRejects
    BY <1>1, <2>4, BoundsAssumption DEF BuildRejects, Goto, TypeOK, Job, SameLaunch
  <2>5. CASE BuildRaises
    BY <1>1, <2>5, BoundsAssumption DEF BuildRaises, Goto, TypeOK, Job, SameLaunch
  <2> QED
    BY <2>1, <2>2, <2>3, <2>4, <2>5
<1>3. Working
  BY <1>1, <1>2 DEF Working, Observing, Elsewhere, TypeOK
<1>4. here' = here
  BY <1>1, <1>2 DEF here
<1>5. InHandInv'
  BY <1>1, <1>2, <1>4, NoFiles DEF StudyInv, InHandInv, SameLaunch, Observing
<1>6. Spanned(dir'[job.cell].reports)
  BY <1>1 DEF StudyInv, SpannedInv
<1>7. kills = 0 /\ Resume = {TRUE} => OwnReportsInv'
  <2> SUFFICES ASSUME kills = 0, Resume = {TRUE} PROVE OwnReportsInv'
    OBVIOUS
  <2>1. OwnReportsInv
    BY DEF StudyInv, UnkilledInv
  <2>2. \A r \in here.reports : r.attempt \in 1 .. job.attempt => r.attempt \in 1 .. job'.attempt
    BY <1>2
  <2> QED
    BY <1>1, <1>2, <1>4, <2>1, <2>2 DEF OwnReportsInv, Observing
<1> QED
  BY <1>1, <1>2, <1>3, <1>5, <1>6, <1>7, WorkFrame

(* The builder publishes its record.                                       *)
LEMMA PublishStep ==
  ASSUME TypeOK, StudyInv, BuilderWritesRecord
  PROVE  TypeOK' /\ StudyInv'
<1>1. /\ pc = "publish" /\ pc' = "archive" /\ job.cell \in Cells /\ job.status # "ERROR"
      /\ UNCHANGED <<job, summary, qualified, observed, launches, kills>>
  BY DEF BuilderWritesRecord, Goto, StudyInv, RunningInv, Observing
<1>2. OwnRecord \in File /\ ~IsStudy(OwnRecord)
  BY <1>1, OwnRecordIs
<1>3. /\ dir' \in [Cells -> Directory] /\ Elsewhere
      /\ dir'[job.cell].record = OwnRecord /\ dir'[job.cell].reports = here.reports
  <2>1. dir' = [dir EXCEPT ![job.cell].record = OwnRecord]
    BY DEF BuilderWritesRecord, OwnRecord
  <2> QED
    BY <1>1, <1>2, <2>1, RecordPut
<1>4. Working
  BY <1>1, <1>3 DEF Working, SameLaunch, Observing, TypeOK
<1>5. here' = dir'[job.cell] /\ OwnRecord' = OwnRecord
  BY <1>1 DEF here, OwnRecord
<1>6. InHandInv'
  BY <1>1, <1>2, <1>3, <1>5 DEF InHandInv
<1>7. Spanned(dir'[job.cell].reports)
  BY <1>1, <1>3 DEF StudyInv, SpannedInv, here
<1>8. kills = 0 /\ Resume = {TRUE} => OwnReportsInv'
  BY <1>1, <1>3, <1>5 DEF StudyInv, UnkilledInv, OwnReportsInv, Observing
<1> QED
  BY <1>1, <1>4, <1>6, <1>7, <1>8, WorkFrame

(* It is moved aside, under the study's record to come.                    *)
LEMMA ArchiveStep ==
  ASSUME TypeOK, StudyInv, Archive
  PROVE  TypeOK' /\ StudyInv'
<1>1. /\ pc = "archive" /\ pc' = "record" /\ job.cell \in Cells
      /\ UNCHANGED <<job, summary, qualified, observed, launches, kills>>
  BY DEF Archive, Goto, StudyInv, RunningInv, Observing
<1>2. /\ dir' \in [Cells -> Directory] /\ Elsewhere
      /\ dir'[job.cell].record = NoFile /\ dir'[job.cell].reports = here.reports
      /\ dir'[job.cell].builder = IF here.record # NoFile THEN here.record ELSE here.builder
  BY <1>1, ArchiveMoves
<1>3. Working
  BY <1>1, <1>2 DEF Working, SameLaunch, Observing, TypeOK
<1>4. here' = dir'[job.cell] /\ OwnRecord' = OwnRecord
  BY <1>1 DEF here, OwnRecord
<1>5. InHandInv'
  <2>1. job.status # "ERROR" => here.record = OwnRecord /\ OwnRecord # NoFile
    BY <1>1, OwnRecordIs, NoFiles DEF StudyInv, InHandInv
  <2> QED
    BY <1>1, <1>2, <1>4, <2>1, NoFiles DEF InHandInv
<1>6. Spanned(dir'[job.cell].reports)
  BY <1>1, <1>2 DEF StudyInv, SpannedInv, here
<1>7. kills = 0 /\ Resume = {TRUE} => OwnReportsInv'
  BY <1>1, <1>2, <1>4 DEF StudyInv, UnkilledInv, OwnReportsInv, Observing
<1> QED
  BY <1>1, <1>3, <1>5, <1>6, <1>7, WorkFrame

-----------------------------------------------------------------------------
(* The study's record.                                                     *)

(* A least number is the minimum, a greatest the maximum.                  *)
LEMMA MinIs ==
  ASSUME NEW S \in SUBSET Int, NEW n \in S, \A m \in S : n <= m
  PROVE  Min(S) = n
<1>1. \A k \in S : (\A m \in S : k <= m) => k = n
  OBVIOUS
<1> QED
  BY <1>1 DEF Min

(* And the other way round.                                                *)
LEMMA MaxIs ==
  ASSUME NEW S \in SUBSET Int, NEW n \in S, \A m \in S : m <= n
  PROVE  Max(S) = n
<1>1. \A k \in S : (\A m \in S : m <= k) => k = n
  OBVIOUS
<1> QED
  BY <1>1 DEF Max

(* The reports the study reads are reports of the directory.               *)
LEMMA ReportsRead ==
  ASSUME TypeOK, job.cell \in Cells, Spanned(here.reports)
  PROVE  /\ here.reports = {} => FirstReport = NoFile /\ FinalReport = NoFile
         /\ here.reports # {} =>
              /\ FirstReport \in here.reports /\ FinalReport \in here.reports
              /\ \A r \in here.reports : r.attempt <= FinalReport.attempt
<1>1. here.reports \subseteq Report
  BY DEF TypeOK, Directory, here
<1>2. ASSUME here.reports # {}
      PROVE  /\ FirstReport \in here.reports /\ FinalReport \in here.reports
             /\ \A r \in here.reports : r.attempt <= FinalReport.attempt
  <2>1. PICK first \in here.reports, last \in here.reports : \A r \in here.reports :
          first.attempt <= r.attempt /\ r.attempt <= last.attempt
    BY <1>2 DEF Spanned
  <2>2. /\ Numbers \in SUBSET Int /\ first.attempt \in Numbers /\ last.attempt \in Numbers
        /\ \A n \in Numbers : first.attempt <= n /\ n <= last.attempt
    BY <1>1, <2>1 DEF Numbers, Report
  <2>3. Min(Numbers) = first.attempt /\ Max(Numbers) = last.attempt
    BY <2>2, MinIs, MaxIs
  <2>4. ASSUME NEW r \in here.reports
        PROVE  ReportOf(r.attempt) \in here.reports /\ ReportOf(r.attempt).attempt = r.attempt
    BY DEF ReportOf
  <2>5. FirstReport = ReportOf(first.attempt) /\ FinalReport = ReportOf(last.attempt)
    BY <1>2, <2>3 DEF FirstReport, FinalReport
  <2> QED
    BY <2>1, <2>4, <2>5
<1> QED
  BY <1>2 DEF FirstReport, FinalReport

(* What is promised of the archive and of the verdicts in a directory.     *)
Matching(d) ==
  d.record.status # "ERROR" =>
    /\ Whole(d.builder) /\ d.builder.by = "builder"
    /\ d.builder.of = d.record.of /\ d.builder.status = d.record.status

TellsOwn(r) ==
  /\ r.final # NoFile => r.first.of = r.of /\ r.final.of = r.of
  /\ r.status = "ACCEPTED" => r.final # NoFile /\ r.final.verdict = "PASS"

(* The cell at hand is counted, with the record that is there then.        *)
Counting ==
  /\ pc \in {"cell"} \cup Observing /\ pc' = "cell" /\ job.cell \in Cells
  /\ job' = [job EXCEPT !.kept = @ \cup {[cell |-> job.cell,
                                          of |-> dir'[job.cell].record.of]},
                        !.cell = @ + 1]
  /\ dir' \in [Cells -> Directory] /\ Elsewhere
  /\ dir'[job.cell].record \in StudyRecord
  /\ dir'[job.cell].record.settings = job.settings
  /\ UNCHANGED <<summary, qualified, observed, launches, kills>>

(* What counting makes of the process.                                     *)
LEMMA CountEffect ==
  ASSUME TypeOK, StudyInv, Counting
  PROVE  /\ job' \in Job /\ SameLaunch /\ job'.ended = job.ended
         /\ job'.cell = job.cell + 1 /\ job.kept \subseteq job'.kept
         /\ [cell |-> job.cell, of |-> dir'[job.cell].record.of] \in job'.kept
         /\ IsFiniteSet(job'.kept) /\ Cardinality(job'.kept) = job.cell
         /\ \A k \in job'.kept : k.cell < job'.cell
<1> DEFINE x == [cell |-> job.cell, of |-> dir'[job.cell].record.of]
           j == [job EXCEPT !.kept = @ \cup {x}, !.cell = @ + 1]
<1>1. x \in [cell : Cells, of : Nat] /\ x.cell = job.cell
  BY DEF Counting, StudyRecord
<1>2. job' = j
  BY DEF Counting
<1> HIDE DEF x
<1>3. job \in Job /\ job.cell \in Nat /\ job.cell + 1 \in 1 .. NumCells + 1
  BY NumCellsAssumption DEF TypeOK, Job, Counting, Cells
<1>4. j \in Job
  BY <1>1, <1>3 DEF Job
<1>5. /\ j.stamping = job.stamping /\ j.settings = job.settings /\ j.source = job.source
      /\ j.resume = job.resume /\ j.ended = job.ended /\ j.cell = job.cell + 1
      /\ j.kept = job.kept \cup {x}
  BY <1>3 DEF Job
<1> HIDE DEF j
<1>6. /\ IsFiniteSet(job.kept) /\ Cardinality(job.kept) = job.cell - 1
      /\ \A k \in job.kept : k.cell < job.cell
  BY DEF StudyInv, KeptInv, Counting
<1>7. x \notin job.kept
  BY <1>1, <1>3, <1>6
<1>8. IsFiniteSet(job.kept \cup {x})
      /\ Cardinality(job.kept \cup {x}) = Cardinality(job.kept) + 1
  BY <1>6, <1>7, FS_AddElement
<1>9. Cardinality(job'.kept) = job.cell
  BY <1>2, <1>3, <1>5, <1>6, <1>8
<1>10. \A k \in job.kept \cup {x} : k.cell < job.cell + 1
  <2>1. \A k \in job.kept : k.cell \in Int
    BY <1>3, NumCellsAssumption DEF Job, Cells
  <2> QED
    BY <1>1, <1>3, <1>6, <2>1
<1> QED
  BY <1>2, <1>4, <1>5, <1>8, <1>9, <1>10 DEF SameLaunch, x

(* Then only its directory is to be looked at.                             *)
LEMMA CountFrame ==
  ASSUME TypeOK, StudyInv, Counting, Spanned(dir'[job.cell].reports),
         Resume = {TRUE} => Matching(dir'[job.cell]),
         kills = 0 /\ Resume = {TRUE} => TellsOwn(dir'[job.cell].record)
  PROVE  TypeOK' /\ StudyInv'
<1>1. /\ job' \in Job /\ SameLaunch /\ job'.ended = job.ended
      /\ job'.cell = job.cell + 1 /\ job.kept \subseteq job'.kept
      /\ [cell |-> job.cell, of |-> dir'[job.cell].record.of] \in job'.kept
      /\ IsFiniteSet(job'.kept) /\ Cardinality(job'.kept) = job.cell
      /\ \A k \in job'.kept : k.cell < job'.cell
  BY CountEffect
<1>2. /\ pc \in {"cell"} \cup Observing /\ pc' = "cell" /\ job.cell \in Cells
      /\ dir' \in [Cells -> Directory] /\ Elsewhere
      /\ dir'[job.cell].record.settings = job.settings
      /\ UNCHANGED <<summary, qualified, observed, launches, kills>>
  BY DEF Counting
<1>3. IsStudy(dir'[job.cell].record) /\ dir'[job.cell].record # NoFile
  <2>1. dir'[job.cell].record \in StudyRecord
    BY DEF Counting
  <2>2. dir'[job.cell].record \in File
    BY <2>1 DEF File
  <2> QED
    BY <2>1, <2>2, WholeFiles, NoFiles
<1>4. pc # "idle" /\ pc' \notin Observing
  BY <1>2 DEF Observing
<1>5. TypeOK'
  BY <1>1, <1>2 DEF TypeOK
<1>6. RunningInv'
  BY <1>1, <1>2, <1>4 DEF StudyInv, RunningInv, SameLaunch
<1>7. KeptInv'
  <2>1. job.cell \in Nat /\ job'.cell - 1 = job.cell
    BY <1>1, <1>2 DEF Cells
  <2>2. ASSUME NEW c \in 1 .. job.cell PROVE Counted(c)'
    <3>1. CASE c = job.cell
      BY <1>1, <1>2, <1>3, <3>1 DEF Counted, SameLaunch
    <3>2. CASE c # job.cell
      <4>1. c \in 1 .. (job.cell - 1) /\ c \in Cells
        BY <1>2, <2>1, <3>2, NumCellsAssumption DEF Cells
      <4>2. Counted(c)
        BY <1>2, <4>1 DEF StudyInv, KeptInv
      <4> QED
        BY <1>1, <1>2, <3>2, <4>1, <4>2 DEF Counted, Elsewhere, SameLaunch
    <3> QED
      BY <3>1, <3>2
  <2>3. \A c \in 1 .. (job'.cell - 1) : Counted(c)'
    BY <2>1, <2>2
  <2> QED
    BY <1>1, <1>2, <2>1, <2>3 DEF KeptInv
<1>8. InHandInv' /\ SummaryDescribesDisk'
  BY <1>2, <1>4 DEF InHandInv, SummaryDescribesDisk
<1>9. SpannedInv'
  BY <1>2 DEF StudyInv, SpannedInv, Elsewhere
<1>10. ArchiveMatchesRecord'
  <2> SUFFICES ASSUME Resume = {TRUE}, NEW c \in Cells, IsStudy(dir'[c].record)
               PROVE  Matching(dir'[c])
    BY DEF ArchiveMatchesRecord, Matching
  <2>1. c # job.cell => Matching(dir[c]) /\ dir'[c] = dir[c]
    BY <1>2 DEF StudyInv, ArchiveMatchesRecord, Matching, Elsewhere
  <2> QED
    BY <2>1
<1>11. UnkilledInv'
  <2> SUFFICES ASSUME kills = 0, Resume = {TRUE} PROVE (FreshInv /\ OwnReportsInv /\ VerdictsAreOwn)'
    BY <1>2 DEF UnkilledInv
  <2>1. FreshInv /\ VerdictsAreOwn
    BY DEF StudyInv, UnkilledInv
  <2>2. FreshInv'
    BY <1>2, <1>3, <2>1 DEF FreshInv, Elsewhere
  <2>3. OwnReportsInv'
    BY <1>2, <1>4 DEF OwnReportsInv
  <2>4. VerdictsAreOwn'
    <3>1. ASSUME NEW c \in Cells, IsStudy(dir'[c].record) PROVE TellsOwn(dir'[c].record)
      <4>1. CASE c = job.cell
        BY <4>1
      <4>2. CASE c # job.cell
        BY <1>2, <2>1, <3>1, <4>2 DEF VerdictsAreOwn, Elsewhere, TellsOwn
      <4> QED
        BY <4>1, <4>2
    <3> QED
      BY <3>1 DEF VerdictsAreOwn, TellsOwn
  <2> QED
    BY <2>2, <2>3, <2>4
<1> QED
  BY <1>5, <1>6, <1>7, <1>8, <1>9, <1>10, <1>11 DEF StudyInv

(* A record that is kept.                                                  *)
LEMMA KeepStep ==
  ASSUME TypeOK, StudyInv, KeepRecord
  PROVE  TypeOK' /\ StudyInv'
<1>1. /\ pc = "cell" /\ job.cell \in Cells /\ Whole(here.record)
      /\ here.record.settings = job.settings
      /\ UNCHANGED <<pc, dir, summary, qualified, observed, launches, kills>>
  BY DEF KeepRecord, AtCell
<1>2. here.record \in StudyRecord
  <2>1. here.record \in BuilderRecord \cup StudyRecord /\ here.record \in File
    BY <1>1, WholeFiles DEF TypeOK, Directory, here
  <2>2. job.settings \in Settings
    BY <1>1 DEF StudyInv, RunningInv
  <2>3. here.record \in BuilderRecord => here.record.settings = NoFile
    BY DEF BuilderRecord
  <2> QED
    BY <1>1, <2>1, <2>2, <2>3, FilesAssumption
<1>3. IsStudy(here.record)
  BY <1>2, WholeFiles DEF File
<1>4. Counting
  BY <1>1, <1>2 DEF Counting, KeepRecord, Elsewhere, TypeOK, here
<1>5. Spanned(dir'[job.cell].reports)
  BY <1>1 DEF StudyInv, SpannedInv
<1>6. Resume = {TRUE} => Matching(dir'[job.cell])
  BY <1>1, <1>3 DEF StudyInv, ArchiveMatchesRecord, Matching, here
<1>7. kills = 0 /\ Resume = {TRUE} => TellsOwn(dir'[job.cell].record)
  BY <1>1, <1>3 DEF StudyInv, UnkilledInv, VerdictsAreOwn, TellsOwn, here
<1> QED
  BY <1>4, <1>5, <1>6, <1>7, CountFrame

(* The record that is written: its metrics are those of the directory.     *)
LEMMA RecordStep ==
  ASSUME TypeOK, StudyInv, WriteRecord
  PROVE  TypeOK' /\ StudyInv'
<1> DEFINE new == [by |-> "study", of |-> observed, settings |-> job.settings,
                   status |-> job.status, first |-> FirstReport,
                   final |-> FinalReport, source |-> job.source, stamp |-> NoFile]
<1>1. /\ pc = "record" /\ pc' = "cell" /\ job.cell \in Cells
      /\ UNCHANGED <<summary, qualified, observed, launches, kills>>
      /\ dir' = [dir EXCEPT ![job.cell].record = new]
  BY DEF WriteRecord, Goto, StudyInv, RunningInv, Observing
<1>2. Spanned(here.reports) /\ here.reports \subseteq Report
  BY <1>1 DEF StudyInv, SpannedInv, here, TypeOK, Directory
<1>3. /\ here.reports = {} => FirstReport = NoFile /\ FinalReport = NoFile
      /\ here.reports # {} =>
           /\ FirstReport \in here.reports /\ FinalReport \in here.reports
           /\ \A r \in here.reports : r.attempt <= FinalReport.attempt
  BY <1>1, <1>2, ReportsRead
<1>4. FirstReport \in Report \cup {NoFile} /\ FinalReport \in Report \cup {NoFile}
  BY <1>2, <1>3
<1>5. new \in StudyRecord
  <2>1. /\ job.settings \in Settings /\ job.source \in Sources /\ observed \in Nat
        /\ job.status \in {"ACCEPTED", "REJECTED", "ERROR"}
    BY <1>1 DEF StudyInv, RunningInv, TypeOK, Job
  <2> QED
    BY <1>4, <2>1 DEF StudyRecord
<1>6. /\ new.of = observed /\ new.settings = job.settings /\ new.status = job.status
      /\ new.first = FirstReport /\ new.final = FinalReport
  OBVIOUS
<1> HIDE DEF new
<1>7. /\ dir' \in [Cells -> Directory] /\ Elsewhere /\ dir'[job.cell].record = new
      /\ dir'[job.cell].builder = here.builder /\ dir'[job.cell].reports = here.reports
  BY <1>1, <1>5, RecordPut DEF File
<1>8. Counting
  <2>1. job' = [job EXCEPT !.kept = @ \cup {[cell |-> job.cell, of |-> observed]},
                           !.cell = @ + 1]
    BY DEF WriteRecord
  <2> QED
    BY <1>1, <1>5, <1>6, <1>7, <2>1 DEF Counting, Observing
<1>9. Spanned(dir'[job.cell].reports)
  BY <1>2, <1>7
<1>10. Resume = {TRUE} => Matching(dir'[job.cell])
  <2>1. job.status # "ERROR" => here.builder = OwnRecord
    BY <1>1 DEF StudyInv, InHandInv
  <2> QED
    BY <1>6, <1>7, <2>1, OwnRecordIs DEF Matching
<1>11. kills = 0 /\ Resume = {TRUE} => TellsOwn(dir'[job.cell].record)
  <2> SUFFICES ASSUME kills = 0, Resume = {TRUE} PROVE TellsOwn(new)
    BY <1>7
  <2>1. /\ \A r \in here.reports :
             r.of = observed /\ r.verdict \in Verdict /\ r.attempt \in 1 .. job.attempt
        /\ \A r, s \in here.reports : r.attempt = s.attempt => r = s
        /\ job.status = "ACCEPTED" =>
             \E r \in here.reports : r.attempt = job.attempt /\ r.verdict = "PASS"
    BY <1>1 DEF StudyInv, UnkilledInv, OwnReportsInv, Observing
  <2>2. CASE here.reports = {}
    BY <1>3, <1>6, <2>1, <2>2 DEF TellsOwn
  <2>3. CASE here.reports # {}
    <3>1. FirstReport.of = observed /\ FinalReport.of = observed /\ FinalReport # NoFile
      BY <1>2, <1>3, <2>1, <2>3, FilesAssumption
    <3>2. job.status = "ACCEPTED" => FinalReport.verdict = "PASS"
      <4> SUFFICES ASSUME job.status = "ACCEPTED" PROVE FinalReport.verdict = "PASS"
        OBVIOUS
      <4>1. PICK r \in here.reports : r.attempt = job.attempt /\ r.verdict = "PASS"
        BY <2>1
      <4>2. FinalReport \in here.reports /\ r.attempt <= FinalReport.attempt
        BY <1>3, <2>3
      <4>3. FinalReport.attempt \in 1 .. job.attempt /\ job.attempt \in Nat
        BY <2>1, <4>2 DEF TypeOK, Job
      <4>4. FinalReport.attempt = r.attempt
        BY <4>1, <4>2, <4>3
      <4> QED
        BY <2>1, <4>1, <4>2, <4>4
    <3> QED
      BY <1>6, <3>1, <3>2 DEF TellsOwn
  <2> QED
    BY <2>2, <2>3
<1> QED
  BY <1>8, <1>9, <1>10, <1>11, CountFrame

-----------------------------------------------------------------------------
(* Between launches.                                                       *)

(* A process that ends without a result.                                   *)
LEMMA StopFrame ==
  ASSUME TypeOK, StudyInv, NEW how \in {"raised", "killed"}, Stop(how),
         dir' \in [Cells -> Directory], SpannedInv', ArchiveMatchesRecord', UnkilledInv',
         summary' \in {summary, Torn}, qualified' = qualified, observed' = observed,
         launches' = launches, kills' \in 0 .. MaxKills
  PROVE  TypeOK' /\ StudyInv'
<1>1. /\ job' \in Job /\ SameLaunch /\ job'.kept = job.kept /\ job'.ended = how
      /\ pc' = "idle"
  BY DEF Stop, Goto, TypeOK, Job, SameLaunch
<1>2. TypeOK'
  BY <1>1 DEF TypeOK
<1>3. RunningInv' /\ KeptInv' /\ InHandInv'
  BY <1>1 DEF StudyInv, RunningInv, KeptInv, InHandInv, Observing, SameLaunch
<1>4. SummaryDescribesDisk'
  BY <1>1 DEF SummaryDescribesDisk
<1> QED
  BY <1>2, <1>3, <1>4 DEF StudyInv

(* A record that is refused, or a report that cannot be read.              *)
LEMMA RefuseStep ==
  ASSUME TypeOK, StudyInv, RefuseRecord \/ UnreadableReport
  PROVE  TypeOK' /\ StudyInv'
<1>1. /\ Stop("raised") /\ UNCHANGED <<dir, summary, qualified, observed, launches, kills>>
      /\ pc' = "idle" /\ (pc = "cell" \/ (pc = "record" /\ ~Readable))
  BY DEF RefuseRecord, UnreadableReport, AtCell, Stop, Goto
<1>2. dir' \in [Cells -> Directory] /\ SpannedInv' /\ ArchiveMatchesRecord'
  BY <1>1 DEF StudyInv, SpannedInv, ArchiveMatchesRecord, TypeOK
<1>3. UnkilledInv'
  <2> SUFFICES ASSUME kills = 0, Resume = {TRUE} PROVE (FreshInv /\ OwnReportsInv /\ VerdictsAreOwn)'
    BY <1>1 DEF UnkilledInv
  <2>1. FreshInv /\ OwnReportsInv /\ VerdictsAreOwn
    BY DEF StudyInv, UnkilledInv
  <2>2. pc = "cell"
    <3>1. pc = "record" => Readable
      BY <2>1, FilesAssumption DEF OwnReportsInv, Observing, Readable
    <3> QED
      BY <1>1, <3>1
  <2> QED
    BY <1>1, <2>1, <2>2 DEF FreshInv, OwnReportsInv, VerdictsAreOwn, Observing
<1>4. kills' \in 0 .. MaxKills
  BY <1>1 DEF TypeOK
<1> QED
  BY <1>1, <1>2, <1>3, <1>4, StopFrame

(* What is torn is never a study record that was there before, unless it   *)
(* is being stamped; and the archive of no study record is touched.        *)
LEMMA TearEffect ==
  ASSUME TypeOK, StudyInv, pc # "idle", Tear
  PROVE  /\ dir' \in [Cells -> Directory] /\ SpannedInv'
         /\ summary' \in {summary, Torn}
         /\ \A c \in Cells :
              \/ dir'[c].record = dir[c].record /\ dir'[c].builder = dir[c].builder
              \/ /\ dir'[c].record = Torn
                 /\ c = job.cell /\ pc \in {"publish", "record", "stamp"}
              \/ /\ dir'[c].record = dir[c].record
                 /\ c = job.cell /\ pc = "archive"
<1>1. CASE UNCHANGED <<dir, summary>>
  BY <1>1 DEF TypeOK, StudyInv, SpannedInv
<1>2. CASE pc = "build" /\ job.attempt < AttemptLimit /\ PutReport(Torn) /\ UNCHANGED summary
  <2>1. job.cell \in Cells
    BY <1>2 DEF StudyInv, RunningInv, Observing
  <2> DEFINE n == job.attempt + 1
             new == [attempt |-> n, verdict |-> Torn, of |-> observed]
  <2>2. /\ dir' \in [Cells -> Directory] /\ Elsewhere
        /\ dir'[job.cell].record = here.record /\ dir'[job.cell].builder = here.builder
        /\ dir'[job.cell].reports = {r \in here.reports : r.attempt # n} \cup {new}
    BY <1>2, <2>1, ReportPut
  <2>3. new \in Report /\ n \in Nat /\ new.attempt = n
        /\ here.reports \in SUBSET Report /\ Spanned(here.reports)
    BY <2>1 DEF Report, TypeOK, Job, Directory, here, StudyInv, SpannedInv
  <2>4. Spanned(dir'[job.cell].reports)
    BY <2>2, <2>3, SpannedReports
  <2>5. SpannedInv'
    BY <2>2, <2>4 DEF StudyInv, SpannedInv, Elsewhere
  <2> QED
    BY <1>2, <2>2, <2>5 DEF Elsewhere, here
<1>3. CASE /\ pc \in {"publish", "record", "stamp"}
           /\ job.cell \in Cells /\ dir' = [dir EXCEPT ![job.cell].record = Torn]
           /\ UNCHANGED summary
  <2>1. /\ dir' \in [Cells -> Directory] /\ Elsewhere /\ dir'[job.cell].record = Torn
        /\ dir'[job.cell].reports = here.reports
    BY <1>3, NoFiles, RecordPut
  <2>2. SpannedInv'
    BY <1>3, <2>1 DEF StudyInv, SpannedInv, Elsewhere, here
  <2> QED
    BY <1>3, <2>1, <2>2 DEF Elsewhere
<1>4. CASE /\ pc = "archive" /\ dir' = [dir EXCEPT ![job.cell].builder = NoFile]
           /\ UNCHANGED summary
  <2>1. job.cell \in Cells
    BY <1>4 DEF StudyInv, RunningInv, Observing
  <2>2. /\ dir' \in [Cells -> Directory] /\ Elsewhere
        /\ dir'[job.cell].record = here.record /\ dir'[job.cell].reports = here.reports
    BY <1>4, <2>1, ArchiveGone
  <2>3. SpannedInv'
    BY <2>1, <2>2 DEF StudyInv, SpannedInv, Elsewhere, here
  <2> QED
    BY <1>4, <2>2, <2>3 DEF Elsewhere, here
<1>5. CASE summary' = Torn /\ UNCHANGED dir
  BY <1>5 DEF TypeOK, StudyInv, SpannedInv
<1>6. pc \in {"publish", "record"} => job.cell \in Cells
  BY DEF StudyInv, RunningInv, Observing
<1> QED
  BY <1>1, <1>2, <1>3, <1>4, <1>5, <1>6 DEF Tear

(* A kill at any moment.                                                   *)
LEMMA KillStep ==
  ASSUME TypeOK, StudyInv, Kill
  PROVE  TypeOK' /\ StudyInv'
<1>1. /\ pc # "idle" /\ kills < MaxKills /\ kills' = kills + 1 /\ Tear /\ Stop("killed")
      /\ UNCHANGED <<qualified, observed, launches>>
  BY DEF Kill
<1>2. /\ dir' \in [Cells -> Directory] /\ SpannedInv'
      /\ summary' \in {summary, Torn}
      /\ \A c \in Cells :
           \/ dir'[c].record = dir[c].record /\ dir'[c].builder = dir[c].builder
           \/ /\ dir'[c].record = Torn
              /\ c = job.cell /\ pc \in {"publish", "record", "stamp"}
           \/ /\ dir'[c].record = dir[c].record
              /\ c = job.cell /\ pc = "archive"
  BY <1>1, TearEffect
<1>3. kills \in Nat /\ kills' \in 0 .. MaxKills /\ kills' # 0
  BY <1>1, BoundsAssumption DEF TypeOK
<1>4. UnkilledInv'
  BY <1>3 DEF UnkilledInv
<1>5. ArchiveMatchesRecord'
  <2> SUFFICES ASSUME Resume = {TRUE}, NEW c \in Cells, IsStudy(dir'[c].record)
               PROVE  Matching(dir'[c])
    BY DEF ArchiveMatchesRecord, Matching
  <2>1. dir'[c].record # Torn
    BY NoFiles
  <2>2. ~(dir'[c].record = dir[c].record /\ c = job.cell /\ pc = "archive")
    BY DEF StudyInv, RunningInv, InHandInv, Observing, here
  <2>3. dir'[c].record = dir[c].record /\ dir'[c].builder = dir[c].builder
    BY <1>2, <2>1, <2>2
  <2> QED
    BY <2>3 DEF StudyInv, ArchiveMatchesRecord, Matching
<1> QED
  BY <1>1, <1>2, <1>3, <1>4, <1>5, StopFrame

(* Another source tree is qualified.                                       *)
LEMMA QualifyStep ==
  ASSUME TypeOK, StudyInv, Qualify
  PROVE  TypeOK' /\ StudyInv'
<1>1. UNCHANGED <<pc, job, dir, summary, observed, launches, kills>>
  BY DEF Qualify
<1>2. TypeOK'
  BY <1>1 DEF Qualify, TypeOK
<1>3. RunningInv' /\ InHandInv' /\ SpannedInv' /\ SummaryDescribesDisk' /\ ArchiveMatchesRecord'
  BY <1>1 DEF StudyInv, RunningInv, InHandInv, SpannedInv, SummaryDescribesDisk,
     ArchiveMatchesRecord, here, OwnRecord
<1>4. KeptInv'
  BY <1>1 DEF StudyInv, KeptInv, Counted
<1>5. UnkilledInv'
  BY <1>1 DEF StudyInv, UnkilledInv, FreshInv, OwnReportsInv, VerdictsAreOwn, here
<1> QED
  BY <1>2, <1>3, <1>4, <1>5 DEF StudyInv

(* An arm is started.                                                      *)
LEMMA LaunchStep ==
  ASSUME TypeOK, StudyInv, Launch
  PROVE  TypeOK' /\ StudyInv'
<1>1. PICK s \in Settings, v \in Sources, r \in Resume :
        job' = [job EXCEPT !.settings = s, !.source = v, !.resume = r,
                           !.cell = 1, !.kept = {}, !.ended = "running"]
  BY DEF Launch
<1>2. /\ pc = "idle" /\ pc' = "cell" /\ launches < MaxLaunches /\ launches' = launches + 1
      /\ UNCHANGED <<dir, summary, qualified, observed, kills>>
  BY DEF Launch, Goto
<1>3. /\ job' \in Job /\ job'.settings \in Settings /\ job'.source \in Sources
      /\ job'.resume \in Resume /\ job'.cell = 1 /\ job'.kept = {}
      /\ job'.ended = "running"
  <2> DEFINE j == [job EXCEPT !.settings = s, !.source = v, !.resume = r,
                              !.cell = 1, !.kept = {}, !.ended = "running"]
  <2>1. job \in Job /\ r \in BOOLEAN /\ 1 \in 1 .. NumCells + 1
    BY ResumeAssumption, NumCellsAssumption DEF TypeOK
  <2>2. j \in Job
    BY <2>1 DEF Job
  <2>3. /\ j.settings = s /\ j.source = v /\ j.resume = r /\ j.cell = 1 /\ j.kept = {}
        /\ j.ended = "running"
    BY <2>1 DEF Job
  <2> HIDE DEF j
  <2>4. job' = j
    BY <1>1 DEF j
  <2> QED
    BY <2>2, <2>3, <2>4
<1>4. TypeOK'
  BY <1>2, <1>3, BoundsAssumption DEF TypeOK
<1>5. RunningInv'
  <2>1. Resume = {TRUE} => job'.resume
    <3> SUFFICES ASSUME Resume = {TRUE} PROVE job'.resume
      OBVIOUS
    <3>1. job'.resume = TRUE
      BY <1>3
    <3> QED
      BY <3>1, Zenon
  <2> QED
    BY <1>2, <1>3, <2>1 DEF RunningInv, Observing
<1>6. KeptInv'
  <2>1. IsFiniteSet({}) /\ Cardinality({}) = 0
    BY FS_EmptySet
  <2> QED
    BY <1>2, <1>3, <2>1 DEF KeptInv, Observing
<1>7. InHandInv' /\ SpannedInv' /\ SummaryDescribesDisk' /\ ArchiveMatchesRecord'
  BY <1>2 DEF StudyInv, InHandInv, SpannedInv, SummaryDescribesDisk,
     ArchiveMatchesRecord, Observing
<1>8. UnkilledInv'
  BY <1>2 DEF StudyInv, UnkilledInv, FreshInv, OwnReportsInv, VerdictsAreOwn, Observing
<1> QED
  BY <1>4, <1>5, <1>6, <1>7, <1>8 DEF StudyInv

-----------------------------------------------------------------------------
(* The end of an arm.                                                      *)

(* What the summary says.                                                  *)
LEMMA ConcludeIs ==
  ASSUME TypeOK, job.settings \in Settings
  PROVE  /\ Conclude \in Summary
         /\ Conclude.settings = job.settings /\ Conclude.kept = job.kept
         /\ Conclude.complete = (Cardinality(job.kept) = NumCells)
  BY DEF Conclude, Summary, TypeOK, Job

(* The summary of Study 1B, or the first one of the wrapper.               *)
LEMMA SummaryStep ==
  ASSUME TypeOK, StudyInv, WriteSummary
  PROVE  TypeOK' /\ StudyInv'
<1>1. /\ pc = "cell" /\ job.cell > NumCells /\ summary' = Conclude
      /\ UNCHANGED <<dir, qualified, observed, launches, kills>>
      /\ job.settings \in Settings
  BY DEF WriteSummary, StudyInv, RunningInv
<1>2. job.cell = NumCells + 1 /\ job.cell - 1 = NumCells /\ NumCells \in Nat
      /\ 1 \in 1 .. NumCells + 1
  BY <1>1, NumCellsAssumption DEF TypeOK, Job
<1>3. /\ \A c \in Cells : Counted(c)
      /\ IsFiniteSet(job.kept) /\ Cardinality(job.kept) = NumCells
  BY <1>1, <1>2 DEF StudyInv, KeptInv, Cells
<1>4. SpannedInv' /\ ArchiveMatchesRecord'
  BY <1>1 DEF StudyInv, SpannedInv, ArchiveMatchesRecord
<1>5. pc' \in {"idle", "stamp"} => UnkilledInv'
  BY <1>1 DEF StudyInv, UnkilledInv, FreshInv, OwnReportsInv, VerdictsAreOwn, Observing
<1>6. CASE job.stamping
  <2>1. pc' = "stamp" /\ job' = [job EXCEPT !.cell = 1]
    BY <1>6 DEF WriteSummary, Goto
  <2>2. /\ job' \in Job /\ SameLaunch /\ job'.cell = 1 /\ job'.kept = job.kept
        /\ job'.ended = job.ended
    BY <1>2, <2>1 DEF TypeOK, Job, SameLaunch
  <2>3. TypeOK'
    BY <1>1, <2>1, <2>2, ConcludeIs DEF TypeOK
  <2>4. RunningInv' /\ InHandInv' /\ SummaryDescribesDisk'
    BY <1>1, <1>6, <2>1, <2>2
    DEF StudyInv, RunningInv, InHandInv, SummaryDescribesDisk, Observing, SameLaunch
  <2>5. \A c \in Cells : Counted(c)'
    BY <1>1, <1>3, <2>2 DEF Counted, SameLaunch
  <2>6. KeptInv'
    BY <1>3, <2>1, <2>2, <2>5 DEF KeptInv, Observing
  <2> QED
    BY <1>4, <1>5, <2>1, <2>3, <2>4, <2>6 DEF StudyInv
<1>7. CASE ~job.stamping
  <2>1. pc' = "idle" /\ job' = [job EXCEPT !.ended = "returned"]
    BY <1>7 DEF WriteSummary, Stop, Goto
  <2>2. /\ job' \in Job /\ SameLaunch /\ job'.cell = job.cell /\ job'.kept = job.kept
        /\ job'.ended = "returned"
    BY <2>1 DEF TypeOK, Job, SameLaunch
  <2>3. TypeOK'
    BY <1>1, <2>1, <2>2, ConcludeIs DEF TypeOK
  <2>4. RunningInv' /\ InHandInv' /\ KeptInv'
    BY <1>1, <1>3, <2>1, <2>2
    DEF StudyInv, RunningInv, InHandInv, KeptInv, Observing, SameLaunch
  <2>5. Whole(summary') /\ summary'.complete
    <3>1. summary' \in Summary /\ summary'.complete = (Cardinality(job.kept) = NumCells)
      BY <1>1, ConcludeIs DEF Summary
    <3> QED
      BY <1>3, <3>1, FilesAssumption DEF Whole, Summary
  <2>6. SummaryDescribesDisk'
    BY <1>1, <1>3, <1>7, <2>2, <2>5, ConcludeIs
    DEF SummaryDescribesDisk, Counted, SameLaunch
  <2> QED
    BY <1>4, <1>5, <2>1, <2>3, <2>4, <2>6 DEF StudyInv
<1> QED
  BY <1>6, <1>7

(* A record is stamped, and stays what it was otherwise.                   *)
LEMMA StampStep ==
  ASSUME TypeOK, StudyInv, Stamp
  PROVE  TypeOK' /\ StudyInv'
<1>1. /\ pc = "stamp" /\ pc' = "stamp" /\ job.cell \in Cells /\ job.source \in Sources
      /\ UNCHANGED <<summary, qualified, observed, launches, kills>>
      /\ job' = [job EXCEPT !.cell = @ + 1] /\ job.stamping
  BY DEF Stamp, StudyInv, RunningInv
<1>2. \A c \in Cells : Counted(c)
  BY <1>1 DEF StudyInv, KeptInv
<1>3. here.record \in StudyRecord
  <2>1. IsStudy(here.record) /\ here.record \in File
    BY <1>1, <1>2 DEF Counted, here, TypeOK, Directory
  <2> QED
    BY <2>1, WholeFiles
<1> DEFINE new == [here.record EXCEPT !.stamp = job.source]
<1>4. /\ new \in StudyRecord /\ new.of = here.record.of
      /\ new.settings = here.record.settings /\ new.status = here.record.status
      /\ new.first = here.record.first /\ new.final = here.record.final
      /\ new.stamp = job.source
  BY <1>1, <1>3 DEF StudyRecord
<1>5. dir' = [dir EXCEPT ![job.cell].record = new]
  BY DEF Stamp, here
<1> HIDE DEF new
<1>6. /\ dir' \in [Cells -> Directory] /\ Elsewhere /\ dir'[job.cell].record = new
      /\ dir'[job.cell].builder = here.builder /\ dir'[job.cell].reports = here.reports
  BY <1>1, <1>4, <1>5, RecordPut DEF File
<1>7. IsStudy(new) /\ new # NoFile
  BY <1>4, WholeFiles, NoFiles DEF File
<1>8. /\ job' \in Job /\ SameLaunch /\ job'.cell = job.cell + 1 /\ job'.kept = job.kept
      /\ job'.ended = job.ended /\ job.cell \in Nat
  <2>1. job \in Job /\ job.cell \in Nat /\ job.cell + 1 \in 1 .. NumCells + 1
    BY <1>1, NumCellsAssumption DEF TypeOK, Cells
  <2> DEFINE j == [job EXCEPT !.cell = @ + 1]
  <2>2. /\ j \in Job /\ j.cell = job.cell + 1 /\ j.kept = job.kept /\ j.ended = job.ended
        /\ j.stamping = job.stamping /\ j.settings = job.settings
        /\ j.source = job.source /\ j.resume = job.resume
    BY <2>1 DEF Job
  <2>3. job' = j
    BY <1>1
  <2> HIDE DEF j
  <2> QED
    BY <2>1, <2>2, <2>3 DEF SameLaunch
<1>9. TypeOK'
  BY <1>1, <1>6, <1>8 DEF TypeOK
<1>10. RunningInv' /\ InHandInv' /\ SummaryDescribesDisk'
  BY <1>1, <1>8
  DEF StudyInv, RunningInv, InHandInv, SummaryDescribesDisk, Observing, SameLaunch
<1>11. KeptInv'
  <2>1. ASSUME NEW c \in Cells PROVE Counted(c)'
    <3>1. CASE c = job.cell
      BY <1>2, <1>4, <1>6, <1>7, <1>8, <3>1 DEF Counted, SameLaunch, here
    <3>2. CASE c # job.cell
      BY <1>2, <1>6, <1>8, <3>2 DEF Counted, SameLaunch, Elsewhere
    <3> QED
      BY <3>1, <3>2
  <2>2. ASSUME NEW c \in 1 .. (job'.cell - 1) PROVE dir'[c].record.stamp = job'.source
    <3>1. c = job.cell \/ (c \in 1 .. (job.cell - 1) /\ c \in Cells /\ c # job.cell)
      BY <1>1, <1>8, NumCellsAssumption DEF Cells
    <3>2. c \in 1 .. (job.cell - 1) => dir[c].record.stamp = job.source
      BY <1>1 DEF StudyInv, KeptInv
    <3> QED
      BY <1>4, <1>6, <1>8, <3>1, <3>2 DEF SameLaunch, Elsewhere
  <2>3. IsFiniteSet(job.kept) /\ Cardinality(job.kept) = NumCells
    BY <1>1 DEF StudyInv, KeptInv
  <2> QED
    BY <1>1, <1>8, <2>1, <2>2, <2>3 DEF KeptInv, Observing
<1>12. SpannedInv'
  BY <1>1, <1>6 DEF StudyInv, SpannedInv, Elsewhere, here
<1>13. ArchiveMatchesRecord'
  <2> SUFFICES ASSUME Resume = {TRUE}, NEW c \in Cells PROVE Matching(dir'[c])
    BY DEF ArchiveMatchesRecord, Matching
  <2>1. Matching(dir[c])
    BY <1>2 DEF StudyInv, ArchiveMatchesRecord, Matching, Counted
  <2> QED
    BY <1>4, <1>6, <2>1 DEF Matching, Elsewhere, here
<1>14. UnkilledInv'
  <2> SUFFICES ASSUME kills = 0, Resume = {TRUE} PROVE (FreshInv /\ OwnReportsInv /\ VerdictsAreOwn)'
    BY <1>1 DEF UnkilledInv
  <2>1. FreshInv /\ VerdictsAreOwn
    BY DEF StudyInv, UnkilledInv
  <2>2. OwnReportsInv'
    BY <1>1 DEF OwnReportsInv, Observing
  <2>3. FreshInv'
    BY <1>1, <1>6, <1>7, <2>1 DEF FreshInv, Observing, Elsewhere
  <2>4. VerdictsAreOwn'
    <3>1. ASSUME NEW c \in Cells PROVE TellsOwn(dir'[c].record)
      <4>1. TellsOwn(dir[c].record)
        BY <1>2, <2>1 DEF VerdictsAreOwn, TellsOwn, Counted
      <4> QED
        BY <1>4, <1>6, <4>1 DEF TellsOwn, Elsewhere, here
    <3> QED
      BY <3>1 DEF VerdictsAreOwn, TellsOwn
  <2> QED
    BY <2>2, <2>3, <2>4
<1> QED
  BY <1>9, <1>10, <1>11, <1>12, <1>13, <1>14 DEF StudyInv

(* The summary of the wrapper, when every record has its stamp.            *)
LEMMA StampedStep ==
  ASSUME TypeOK, StudyInv, FinishStamping
  PROVE  TypeOK' /\ StudyInv'
<1>1. /\ pc = "stamp" /\ pc' = "idle" /\ job.cell > NumCells
      /\ UNCHANGED <<dir, qualified, observed, launches, kills>>
      /\ job' = [job EXCEPT !.ended = "returned"] /\ job.settings \in Settings
      /\ summary' = [Conclude EXCEPT !.stamped = TRUE]
  BY DEF FinishStamping, Stop, Goto, StudyInv, RunningInv
<1>2. /\ job' \in Job /\ SameLaunch /\ job'.cell = job.cell /\ job'.kept = job.kept
      /\ job'.ended = "returned"
  BY <1>1 DEF TypeOK, Job, SameLaunch
<1>3. /\ \A c \in Cells : Counted(c) /\ dir[c].record.stamp = job.source
      /\ IsFiniteSet(job.kept) /\ Cardinality(job.kept) = NumCells
  <2>1. \A c \in Cells : c \in 1 .. (job.cell - 1)
    BY <1>1, NumCellsAssumption DEF Cells, TypeOK, Job
  <2> QED
    BY <1>1, <2>1 DEF StudyInv, KeptInv
<1>4. /\ summary' \in Summary /\ summary'.settings = job.settings
      /\ summary'.kept = job.kept /\ summary'.complete /\ summary'.stamped
  <2> DEFINE C == Conclude
  <2>1. /\ C \in Summary /\ C.settings = job.settings /\ C.kept = job.kept
        /\ C.complete = (Cardinality(job.kept) = NumCells)
    BY <1>1, ConcludeIs DEF Summary
  <2> HIDE DEF C
  <2>2. /\ [C EXCEPT !.stamped = TRUE] \in Summary
        /\ [C EXCEPT !.stamped = TRUE].settings = job.settings
        /\ [C EXCEPT !.stamped = TRUE].kept = job.kept
        /\ [C EXCEPT !.stamped = TRUE].complete = C.complete
        /\ [C EXCEPT !.stamped = TRUE].stamped = TRUE
    BY <2>1 DEF Summary
  <2> QED
    BY <1>1, <1>3, <2>1, <2>2 DEF C
<1>5. TypeOK'
  BY <1>1, <1>2, <1>4 DEF TypeOK, Summary
<1>6. RunningInv' /\ InHandInv' /\ KeptInv' /\ SpannedInv' /\ ArchiveMatchesRecord'
  BY <1>1, <1>2, <1>3
  DEF StudyInv, RunningInv, InHandInv, KeptInv, SpannedInv, ArchiveMatchesRecord,
      Observing, SameLaunch
<1>7. SummaryDescribesDisk'
  <2>1. Whole(summary')
    BY <1>4, FilesAssumption DEF Whole, Summary
  <2> QED
    BY <1>1, <1>2, <1>3, <1>4, <2>1 DEF SummaryDescribesDisk, Counted, SameLaunch
<1>8. UnkilledInv'
  BY <1>1 DEF StudyInv, UnkilledInv, FreshInv, OwnReportsInv, VerdictsAreOwn, Observing
<1> QED
  BY <1>5, <1>6, <1>7, <1>8 DEF StudyInv

-----------------------------------------------------------------------------
(* Before the first launch there is nothing.                               *)
LEMMA ArmInit == Init => TypeOK /\ StudyInv
<1> SUFFICES ASSUME Init PROVE TypeOK /\ StudyInv
  OBVIOUS
<1>1. /\ pc = "idle" /\ job.kept = {} /\ job.ended = "never" /\ job.resume = TRUE
      /\ summary = NoFile /\ qualified = NoFile /\ observed = 0 /\ launches = 0 /\ kills = 0
  BY DEF Init
<1>2. \A c \in Cells : dir[c].record = NoFile /\ dir[c].builder = NoFile /\ dir[c].reports = {}
  BY DEF Init
<1>3. TypeOK
  <2>1. 1 \in 1 .. NumCells + 1 /\ 0 \in 0 .. AttemptLimit
        /\ 0 \in 0 .. MaxLaunches /\ 0 \in 0 .. MaxKills
    BY NumCellsAssumption, BoundsAssumption
  <2>2. job \in Job
    BY <2>1 DEF Init, Job
  <2>3. dir \in [Cells -> Directory]
    BY NoFiles DEF Init, Directory
  <2> QED
    BY <1>1, <2>1, <2>2, <2>3 DEF TypeOK
<1>4. RunningInv
  BY <1>1 DEF RunningInv, Observing
<1>5. KeptInv
  BY <1>1, FS_EmptySet DEF KeptInv, Observing
<1>6. InHandInv /\ SummaryDescribesDisk
  BY <1>1 DEF InHandInv, SummaryDescribesDisk, Observing
<1>7. SpannedInv
  BY <1>2 DEF SpannedInv, Spanned
<1>8. ArchiveMatchesRecord /\ VerdictsAreOwn
  BY <1>2, NoFiles DEF ArchiveMatchesRecord, VerdictsAreOwn
<1>9. UnkilledInv
  BY <1>1, <1>2, <1>8 DEF UnkilledInv, FreshInv, OwnReportsInv, Observing
<1> QED
  BY <1>3, <1>4, <1>5, <1>6, <1>7, <1>8, <1>9 DEF StudyInv

(* Every step keeps the invariant.                                         *)
LEMMA ArmStep == TypeOK /\ StudyInv /\ [Next]_vars => TypeOK' /\ StudyInv'
<1> SUFFICES ASSUME TypeOK, StudyInv, [Next]_vars PROVE TypeOK' /\ StudyInv'
  OBVIOUS
<1>1. CASE Step
  BY <1>1, KeepStep, RefuseStep, ObserveStep, JudgedStep, QuietSteps, PublishStep,
     ArchiveStep, RecordStep, SummaryStep, StampStep, StampedStep DEF Step
<1>2. CASE UNCHANGED vars
  <2>1. UNCHANGED <<pc, job, dir, summary, qualified, observed, launches, kills>>
    BY <1>2 DEF vars
  <2>2. TypeOK'
    BY <2>1 DEF TypeOK
  <2>3. RunningInv' /\ InHandInv' /\ SpannedInv' /\ SummaryDescribesDisk' /\ ArchiveMatchesRecord'
    BY <2>1 DEF StudyInv, RunningInv, InHandInv, SpannedInv, SummaryDescribesDisk,
       ArchiveMatchesRecord, here, OwnRecord
  <2>4. KeptInv'
    BY <2>1 DEF StudyInv, KeptInv, Counted
  <2>5. UnkilledInv'
    BY <2>1 DEF StudyInv, UnkilledInv, FreshInv, OwnReportsInv, VerdictsAreOwn, here
  <2> QED
    BY <2>2, <2>3, <2>4, <2>5 DEF StudyInv
<1> QED
  BY <1>1, <1>2, QualifyStep, LaunchStep, KillStep DEF Next

-----------------------------------------------------------------------------
(* At every moment of an arm that is launched, killed and resumed: what    *)
(* the running process has counted is on disk, and what stands in each     *)
(* directory is of one observation as far as it can be.                    *)
THEOREM ArmInvariant == Spec => [](TypeOK /\ StudyInv)
  BY ArmInit, ArmStep, PTL DEF Spec

(* An arm that returned describes what is on disk, for any number of       *)
(* cells, launches and kills, under any settings, resumed or not, as       *)
(* Study 1B and as the Study 2 wrapper.                                    *)
THEOREM SummaryTells == Spec => []SummaryDescribesDisk
<1>1. StudyInv => SummaryDescribesDisk
  BY DEF StudyInv
<1> QED
  BY <1>1, ArmInvariant, PTL

(* The archived record of the builder says what the study's record says,   *)
(* wherever resumed arms were killed.                                      *)
THEOREM ArchiveTells == Spec => []ArchiveMatchesRecord
<1>1. StudyInv => ArchiveMatchesRecord
  BY DEF StudyInv
<1> QED
  BY <1>1, ArmInvariant, PTL

(* Without a kill, the verdicts in a record are of its own observation.    *)
THEOREM OwnVerdicts == Spec => []UnkilledVerdictsAreOwn
<1>1. StudyInv => UnkilledVerdictsAreOwn
  BY DEF StudyInv, UnkilledInv, UnkilledVerdictsAreOwn
<1> QED
  BY <1>1, ArmInvariant, PTL

(* Resuming neither repeats nor loses an observation, killed at any step   *)
(* but a stamping.                                                         *)
THEOREM ObservationsKept == Spec => ResumeKeepsObservations
<1> DEFINE Kept ==
      \A c \in Cells :
        pc \notin {"idle", "stamp"} /\ job.resume /\ IsStudy(dir[c].record) =>
          IsStudy(dir'[c].record) /\ dir'[c].record.of = dir[c].record.of
<1>1. TypeOK /\ StudyInv /\ [Next]_vars => Kept
  <2> SUFFICES ASSUME TypeOK, StudyInv, [Next]_vars, NEW c \in Cells,
                      pc \notin {"idle", "stamp"}, job.resume, IsStudy(dir[c].record)
               PROVE  dir'[c].record = dir[c].record
    OBVIOUS
  <2>1. pc \in Observing => c # job.cell
    BY DEF StudyInv, InHandInv, here
  <2>2. CASE JudgedAttempt
    <3>1. job.cell \in Cells /\ \E v \in Verdict : PutReport(v)
      BY <2>2 DEF JudgedAttempt, StudyInv, RunningInv, Observing
    <3> QED
      BY <2>1, <2>2, <3>1, ReportPut DEF JudgedAttempt, Observing, Elsewhere
  <2>3. CASE BuilderWritesRecord \/ Archive \/ WriteRecord
    <3>1. pc \in Observing /\ job.cell \in Cells
      BY <2>3 DEF BuilderWritesRecord, Archive, WriteRecord, StudyInv, RunningInv, Observing
    <3>2. c # job.cell
      BY <2>1, <3>1
    <3> QED
      BY <2>3, <3>2 DEF BuilderWritesRecord, Archive, WriteRecord, TypeOK
  <2>4. CASE Kill
    <3>1. Tear
      BY <2>4 DEF Kill
    <3>2. ~(c = job.cell /\ pc \in {"publish", "record", "stamp"})
      BY <2>1 DEF Observing
    <3> QED
      BY <3>1, <3>2, TearEffect
  <2>5. CASE UNCHANGED dir
    BY <2>5
  <2>6. ~Qualify /\ ~Launch /\ ~Stamp /\ ~FinishStamping
    BY DEF Qualify, Launch, Stamp, FinishStamping
  <2>7. KeepRecord \/ RefuseRecord \/ Observe \/ DraftlessAttempt \/ BuildAccepts
        \/ NextAttempt \/ BuildRejects \/ BuildRaises \/ UnreadableReport \/ WriteSummary
          => UNCHANGED dir
    BY DEF KeepRecord, RefuseRecord, Observe, DraftlessAttempt, BuildAccepts, NextAttempt,
       BuildRejects, BuildRaises, UnreadableReport, WriteSummary
  <2>8. UNCHANGED vars => UNCHANGED dir
    BY DEF vars
  <2> QED
    BY <2>2, <2>3, <2>4, <2>5, <2>6, <2>7, <2>8 DEF Next, Step
<1>2. Spec => [][Kept]_vars
  BY <1>1, ArmInvariant, PTL DEF Spec
<1> QED
  BY <1>2 DEF ResumeKeepsObservations
=============================================================================
