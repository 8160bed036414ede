-------------------------- MODULE OnlineBuildProofs --------------------------
(***************************************************************************)
(* Theorems about OnlineBuild, for every set of intents, every retry and   *)
(* repair budget and any number of builds, failures and crashes.           *)
(***************************************************************************)
EXTENDS OnlineBuild, TLAPS

(* The attempt limit is a positive natural number whatever repair_attempts *)
(* is: None, zero and negative budgets included.                           *)
LEMMA AttemptLimitPositive ==
  ASSUME NEW n \in Int
  PROVE  AttemptLimit(n) \in Nat \ {0}
BY RetriesAssumption DEF AttemptLimit

(* The empty directory is well typed.                                     *)
LEMMA InitTypeOK == Init => TypeOK
BY DEF Init, TypeOK, BuildOK, FilesOK, DraftOK, HasDraft, Points, Maybe, Status

(* The updates of the locals that several steps share keep their types.    *)
LEMMA RejectAttemptType ==
  ASSUME BuildOK, NEW judged \in BOOLEAN, RejectAttempt(judged)
  PROVE  pc' \in Points /\ BuildOK'
BY DEF BuildOK, RejectAttempt, Goto, Points, Status

(* Leaving build() for whatever reason keeps the types of its locals.      *)
LEMMA StopType ==
  ASSUME BuildOK, NEW how \in {"returned", "raised", "killed"}, Stop(how)
  PROVE  pc' \in Points /\ BuildOK'
BY DEF BuildOK, Stop, Goto, Points

(* So does a failed try of the provider, repeated or not.                  *)
LEMMA RetryOrRejectType ==
  ASSUME BuildOK, RetryOrReject
  PROVE  pc' \in Points /\ BuildOK'
<1>1. CASE build.retry < MaxRetries
  BY <1>1 DEF RetryOrReject, BuildOK, Goto, Points
<1>2. CASE ~(build.retry < MaxRetries)
  BY <1>2, RejectAttemptType DEF RetryOrReject
<1>3. QED
  BY <1>1, <1>2

(* A new generated tree, or none, keeps the types of the files,            *)
LEMMA TreeType ==
  ASSUME FilesOK, NEW t \in Maybe(Tree), disk' = [disk EXCEPT !.tree = t]
  PROVE  FilesOK'
BY DEF FilesOK

(* and a tree that lost some of its files.                                 *)
LEMMA TornTreeType ==
  ASSUME FilesOK, disk.tree # NoFile, disk' = [disk EXCEPT !.tree.whole = FALSE]
  PROVE  FilesOK'
<1>1. disk.tree \in Tree
  BY DEF FilesOK, Maybe
<1>2. [disk.tree EXCEPT !.whole = FALSE] \in Maybe(Tree)
  BY <1>1 DEF Tree, Maybe
<1>3. disk' = [disk EXCEPT !.tree = [disk.tree EXCEPT !.whole = FALSE]]
  OBVIOUS
<1>4. QED
  BY <1>2, <1>3, TreeType

(* A build starts with well-typed locals.                                  *)
LEMMA StartType ==
  ASSUME BuildOK, NEW run \in Nat, NEW limit \in Nat, NEW p \in Maybe(Prompts),
         NEW g \in BOOLEAN, NEW s \in Maybe(Quality),
         build' = [build EXCEPT !.run = run, !.prompt = p, !.gates = g,
                                !.limit = limit, !.seed = s,
                                !.attempt = 0, !.retry = 0, !.draft = NoFile,
                                !.status = "REJECTED", !.judged = FALSE,
                                !.ended = "running"]
  PROVE  BuildOK'
<1>1. NoFile \in Maybe(Draft)
  BY DEF Maybe
<1>2. QED
  BY <1>1 DEF BuildOK, Status

(* A draft a build takes in is a draft of this build and attempt.          *)
LEMMA DraftType ==
  ASSUME BuildOK, NEW n \in Nat, NEW q \in Quality,
         build' = [build EXCEPT !.draft = [run |-> build.run, attempt |-> n,
                                           quality |-> q]]
  PROVE  BuildOK'
<1>1. [run |-> build.run, attempt |-> n, quality |-> q] \in Maybe(Draft)
  BY DEF BuildOK, Draft, Maybe
<1>2. QED
  BY <1>1 DEF BuildOK

(* Only the steps that leave the draft in hand keep a point of HasDraft.   *)
LEMMA StepDraftOK == TypeOK /\ [Next]_vars => DraftOK'
<1> SUFFICES ASSUME TypeOK, [Next]_vars PROVE DraftOK'
  OBVIOUS
<1> USE DEF TypeOK, DraftOK, HasDraft, Goto
<1>1. CASE Start \/ WriteContext \/ RejectBlocked \/ EnterLoop \/ AskProvider
           \/ NextAttempt \/ WriteRepairTrace \/ SetTaskOutput
  BY <1>1 DEF Start, WriteContext, RejectBlocked, EnterLoop, AskProvider,
              NextAttempt, WriteRepairTrace, SetTaskOutput
<1>2. CASE WriteRecord \/ Crash \/ ProviderFatal \/ AgentDisabled \/ GatesMissing
  BY <1>2 DEF WriteRecord, Crash, ProviderFatal, AgentDisabled, GatesMissing, Stop
<1>3. CASE UseSeed
  BY <1>3 DEF UseSeed, BuildOK, Draft, Maybe
<1>4. CASE UsableAnswer
  BY <1>4 DEF UsableAnswer, BuildOK, Draft
<1>5. CASE CallProvider \/ MalformedAnswer \/ FailedTry
  BY <1>5 DEF CallProvider, MalformedAnswer, FailedTry, RetryOrReject, RejectAttempt
<1>6. CASE WriteDraft \/ WriteConformance \/ WriteAttemptReport
  BY <1>6 DEF WriteDraft, WriteConformance, WriteAttemptReport
<1>7. CASE JudgeConformance \/ CheckConsistency \/ Compile
  BY <1>7 DEF JudgeConformance, CheckConsistency, Compile, RejectAttempt
<1>8. CASE ClearTree \/ EmitTree \/ RunGates
  BY <1>8 DEF ClearTree, EmitTree, RunGates, AcceptAttempt, RejectAttempt
<1>9. CASE UNCHANGED vars
  BY <1>9 DEF vars
<1>10. QED
  BY <1>1, <1>2, <1>3, <1>4, <1>5, <1>6, <1>7, <1>8, <1>9 DEF Next, Step

(* Every step of a build, and its death, keeps the types.                  *)
LEMMA StepTypeOK == TypeOK /\ [Next]_vars => TypeOK'
<1> SUFFICES ASSUME TypeOK, [Next]_vars PROVE TypeOK'
  OBVIOUS
<1> SUFFICES pc' \in Points /\ BuildOK' /\ FilesOK' /\ calls' \in Nat
  BY StepDraftOK DEF TypeOK
<1> USE DEF TypeOK
<1>1. CASE Start
  <2>1. PICK p \in Prompts, g \in BOOLEAN, n \in RepairBudgets, s \in Seeds :
          build' = [build EXCEPT !.run = build.run + 1, !.prompt = p, !.gates = g,
                                 !.limit = AttemptLimit(n), !.seed = s,
                                 !.attempt = 0, !.retry = 0, !.draft = NoFile,
                                 !.status = "REJECTED", !.judged = FALSE,
                                 !.ended = "running"]
    BY <1>1 DEF Start
  <2>2. AttemptLimit(n) \in Nat
    BY AttemptLimitPositive, BudgetAssumption
  <2>3. p \in Maybe(Prompts) /\ s \in Maybe(Quality)
    BY SeedsAssumption DEF Maybe
  <2>4. build.run + 1 \in Nat
    BY DEF BuildOK
  <2>5. BuildOK'
    BY <2>1, <2>2, <2>3, <2>4, StartType
  <2>6. FilesOK'
    BY <1>1 DEF Start, FilesOK, Maybe
  <2>7. QED
    BY <1>1, <2>5, <2>6 DEF Start, Goto, Points
<1>2. CASE WriteContext
  <2>1. FilesOK'
    BY <1>2 DEF WriteContext, FilesOK, BuildOK
  <2>2. QED
    BY <1>2, <2>1 DEF WriteContext, BuildOK, Goto, Points
<1>3. CASE RejectBlocked
  BY <1>3 DEF RejectBlocked, BuildOK, FilesOK, Goto, Points
<1>4. CASE EnterLoop
  BY <1>4 DEF EnterLoop, BuildOK, FilesOK, Goto, Points
<1>5. CASE UseSeed
  <2>1. build.seed \in Quality
    BY <1>5 DEF UseSeed, BuildOK, Maybe
  <2>2. BuildOK'
    BY <1>5, <2>1, DraftType DEF UseSeed
  <2>3. QED
    BY <1>5, <2>2 DEF UseSeed, FilesOK, Goto, Points
<1>6. CASE AskProvider
  BY <1>6 DEF AskProvider, BuildOK, FilesOK, Goto, Points
<1>7. CASE UsableAnswer
  <2>1. BuildOK'
    <3>1. PICK q \in Quality :
            build' = [build EXCEPT !.draft = [run |-> build.run,
                                              attempt |-> build.attempt,
                                              quality |-> q]]
      BY <1>7 DEF UsableAnswer
    <3>2. build.attempt \in Nat
      BY DEF BuildOK
    <3>3. QED
      BY <3>1, <3>2, DraftType
  <2>2. FilesOK'
    BY <1>7 DEF UsableAnswer, FilesOK
  <2>3. QED
    BY <1>7, <2>1, <2>2 DEF UsableAnswer, Goto, Points
<1>8. CASE CallProvider \/ MalformedAnswer
  <2>1. FilesOK'
    BY <1>8 DEF CallProvider, MalformedAnswer, FilesOK
  <2>2. QED
    BY <1>8, <2>1 DEF CallProvider, MalformedAnswer, BuildOK, Goto, Points
<1>9. CASE FailedTry
  <2>1. FilesOK'
    BY <1>9 DEF FailedTry, FilesOK
  <2>2. QED
    BY <1>9, <2>1, RetryOrRejectType DEF FailedTry
<1>10. CASE ProviderFatal \/ AgentDisabled
  <2>1. calls' \in Nat /\ FilesOK'
    BY <1>10 DEF ProviderFatal, AgentDisabled, FilesOK
  <2>2. QED
    BY <1>10, <2>1, StopType DEF ProviderFatal, AgentDisabled
<1>11. CASE WriteDraft
  BY <1>11 DEF WriteDraft, BuildOK, FilesOK, Goto, Points
<1>12. CASE WriteConformance
  BY <1>12 DEF WriteConformance, BuildOK, FilesOK, Goto, Points
<1>13. CASE WriteAttemptReport
  <2>1. build.draft \in Draft
    BY <1>13 DEF WriteAttemptReport, DraftOK, HasDraft
  <2>2. QED
    BY <1>13, <2>1 DEF WriteAttemptReport, BuildOK, FilesOK, Goto, Points
<1>14. CASE JudgeConformance
  <2>1. FilesOK' /\ calls' \in Nat
    BY <1>14 DEF JudgeConformance, FilesOK
  <2>2. QED
    BY <1>14, <2>1, RejectAttemptType DEF JudgeConformance, BuildOK, Goto, Points
<1>15. CASE CheckConsistency
  <2>1. FilesOK' /\ calls' \in Nat
    BY <1>15 DEF CheckConsistency, FilesOK
  <2>2. QED
    BY <1>15, <2>1, RejectAttemptType DEF CheckConsistency, BuildOK, Goto, Points
<1>16. CASE Compile
  <2>1. FilesOK' /\ calls' \in Nat
    BY <1>16, ZenonT(30) DEF Compile, FilesOK, BuildOK
  <2>2. QED
    BY <1>16, <2>1, RejectAttemptType, ZenonT(30) DEF Compile, BuildOK, Goto, Points
<1>17. CASE ClearTree
  <2>1. NoFile \in Maybe(Tree)
    BY DEF Maybe
  <2>2. FilesOK' /\ calls' \in Nat
    BY <1>17, <2>1, TreeType, TornTreeType DEF ClearTree
  <2>3. QED
    BY <1>17, <2>2, RejectAttemptType DEF ClearTree, BuildOK, Goto, Points
<1>18. CASE EmitTree
  <2>1. FilesOK' /\ calls' \in Nat
    <3>1. build.draft \in Draft
      BY <1>18 DEF EmitTree, DraftOK, HasDraft
    <3>2. [of |-> build.draft, whole |-> TRUE] \in Maybe(Tree)
          /\ [of |-> build.draft, whole |-> FALSE] \in Maybe(Tree)
      BY <3>1 DEF Tree, Maybe
    <3>3. UNCHANGED disk => FilesOK'
      BY DEF FilesOK
    <3>4. QED
      BY <1>18, <3>2, <3>3, TreeType DEF EmitTree
  <2>2. QED
    BY <1>18, <2>1, RejectAttemptType DEF EmitTree, BuildOK, Goto, Points
<1>19. CASE RunGates
  <2>1. FilesOK' /\ calls' \in Nat
    BY <1>19 DEF RunGates, FilesOK
  <2>2. CASE AcceptAttempt
    BY <1>19, <2>1, <2>2 DEF AcceptAttempt, BuildOK, Goto, Points, Status
  <2>3. QED
    BY <1>19, <2>1, <2>2, RejectAttemptType DEF RunGates
<1>20. CASE GatesMissing
  <2>1. FilesOK' /\ calls' \in Nat
    BY <1>20 DEF GatesMissing, FilesOK
  <2>2. QED
    BY <1>20, <2>1, StopType DEF GatesMissing
<1>21. CASE NextAttempt
  BY <1>21 DEF NextAttempt, BuildOK, FilesOK, Goto, Points
<1>22. CASE WriteRepairTrace
  <2>1. [run |-> build.run, status |-> build.status]
          \in Maybe([run : Nat, status : Status])
    BY DEF BuildOK, Maybe
  <2>2. FilesOK'
    BY <1>22, <2>1 DEF WriteRepairTrace, FilesOK
  <2>3. QED
    BY <1>22, <2>2 DEF WriteRepairTrace, BuildOK, Goto, Points
<1>23. CASE SetTaskOutput
  <2>1. build.status \in Maybe(Status)
    BY DEF BuildOK, Maybe
  <2>2. FilesOK'
    BY <1>23, <2>1 DEF SetTaskOutput, FilesOK
  <2>3. QED
    BY <1>23, <2>2 DEF SetTaskOutput, BuildOK, Goto, Points
<1>24. CASE WriteRecord
  <2>1. Fingerprints \in Stages
    BY DEF FilesOK, Fingerprints, Stages, Maybe
  <2>2. [run |-> build.run, status |-> build.status, attempts |-> build.attempt,
         gated |-> build.gates, stages |-> Fingerprints] \in Maybe(Record)
    BY <2>1 DEF BuildOK, Record, Maybe
  <2>3. FilesOK'
    BY <1>24, <2>2 DEF WriteRecord, FilesOK
  <2>4. QED
    BY <1>24, <2>3, StopType DEF WriteRecord
<1>25. CASE Crash
  <2>1. FilesOK'
    <3>1. CASE UNCHANGED disk
      BY <3>1 DEF FilesOK
    <3>2. CASE disk.tree # NoFile /\ disk' = [disk EXCEPT !.tree.whole = FALSE]
      BY <3>2, TornTreeType
    <3>3. CASE /\ pc = "emit"
               /\ disk' = [disk EXCEPT !.tree = [of |-> build.draft, whole |-> FALSE]]
      <4>1. build.draft \in Draft
        BY <3>3 DEF DraftOK, HasDraft
      <4>2. [of |-> build.draft, whole |-> FALSE] \in Maybe(Tree)
        BY <4>1 DEF Tree, Maybe
      <4>3. QED
        BY <3>3, <4>2, TreeType
    <3>4. CASE disk' = [disk EXCEPT !.record = NoFile]
      BY <3>4 DEF FilesOK, Maybe
    <3>5. QED
      BY <1>25, <3>1, <3>2, <3>3, <3>4 DEF Crash
  <2>2. QED
    BY <1>25, <2>1, StopType DEF Crash
<1>26. CASE UNCHANGED vars
  BY <1>26 DEF vars, BuildOK, FilesOK
<1>27. QED
  BY <1>1, <1>2, <1>3, <1>4, <1>5, <1>6, <1>7, <1>8, <1>9, <1>10, <1>11,
     <1>12, <1>13, <1>14, <1>15, <1>16, <1>17, <1>18, <1>19, <1>20, <1>21,
     <1>22, <1>23, <1>24, <1>25, <1>26 DEF Next, Step

(* Every file and every local of a build keeps its type, whatever fails.   *)
THEOREM TypeCorrect == Spec => []TypeOK
<1>1. QED
  BY InitTypeOK, StepTypeOK, PTL DEF Spec

-----------------------------------------------------------------------------
(* Nothing is in hand and nothing is published before the first build.     *)
LEMMA InitBuildInv == Init => BuildInv
BY DEF Init, BuildInv, LoopProgress, AcceptInHand, PublicationOrder,
       AcceptedIsCoherent, AcceptedPassedChecks, RecordIsWrittenLast,
       OnlyVerifiedDraftsCompiled, Published, HasDraft, Written, Reported,
       Conforming, Consenting, Compiled, Publishing

(* How far the loop has come determines which files are the draft's.       *)
LEMMA StepLoopProgress == TypeOK /\ LoopProgress /\ [Next]_vars => LoopProgress'
<1> SUFFICES ASSUME TypeOK, LoopProgress, [Next]_vars PROVE LoopProgress'
  OBVIOUS
<1> USE DEF LoopProgress, DraftInHand, HasDraft, Written, Reported, Conforming,
            Consenting, Compiled, Publishing, Goto
<1>1. CASE Start
  BY <1>1 DEF Start, TypeOK, BuildOK
<1>2. CASE WriteContext \/ RejectBlocked \/ EnterLoop \/ AskProvider
           \/ NextAttempt \/ WriteRepairTrace \/ SetTaskOutput
  BY <1>2 DEF WriteContext, RejectBlocked, EnterLoop, AskProvider,
              NextAttempt, WriteRepairTrace, SetTaskOutput, TypeOK, BuildOK
<1>3. CASE WriteRecord \/ Crash \/ ProviderFatal \/ AgentDisabled \/ GatesMissing
  BY <1>3 DEF WriteRecord, Crash, ProviderFatal, AgentDisabled, GatesMissing, Stop
<1>4. CASE UseSeed
  BY <1>4 DEF UseSeed, TypeOK, BuildOK, Draft, Maybe
<1>5. CASE UsableAnswer
  BY <1>5 DEF UsableAnswer, TypeOK, BuildOK, Draft
<1>6. CASE CallProvider \/ MalformedAnswer \/ FailedTry
  BY <1>6 DEF CallProvider, MalformedAnswer, FailedTry, RetryOrReject, RejectAttempt,
              TypeOK, BuildOK
<1>7. CASE WriteDraft
  BY <1>7 DEF WriteDraft, TypeOK, FilesOK
<1>8. CASE WriteConformance
  BY <1>8 DEF WriteConformance, TypeOK, FilesOK
<1>9. CASE WriteAttemptReport
  BY <1>9 DEF WriteAttemptReport, TypeOK, FilesOK
<1>10. CASE JudgeConformance \/ CheckConsistency
  BY <1>10, ZenonT(30) DEF JudgeConformance, CheckConsistency, RejectAttempt, TypeOK, BuildOK
<1>11. CASE Compile
  BY <1>11, ZenonT(30) DEF Compile, RejectAttempt, TypeOK, BuildOK, FilesOK
<1>12. CASE ClearTree
  BY <1>12, ZenonT(30) DEF ClearTree, RejectAttempt, TypeOK, BuildOK, FilesOK
<1>13. CASE EmitTree
  BY <1>13, ZenonT(30) DEF EmitTree, RejectAttempt, TypeOK, BuildOK, FilesOK
<1>14. CASE RunGates
  BY <1>14 DEF RunGates, AcceptAttempt, RejectAttempt, TypeOK, BuildOK
<1>15. CASE UNCHANGED vars
  BY <1>15 DEF vars
<1>16. QED
  BY <1>1, <1>2, <1>3, <1>4, <1>5, <1>6, <1>7, <1>8, <1>9, <1>10, <1>11,
     <1>12, <1>13, <1>14, <1>15 DEF Next, Step

(* An outcome about to be published as ACCEPTED is backed by the directory. *)
LEMMA StepAcceptInHand ==
  TypeOK /\ LoopProgress /\ AcceptInHand /\ [Next]_vars => AcceptInHand'
<1> SUFFICES ASSUME TypeOK, LoopProgress, AcceptInHand, [Next]_vars
             PROVE  AcceptInHand'
  OBVIOUS
<1> USE DEF AcceptInHand, DraftInHand, DirectoryIsOf, Publishing, Goto
<1>1. CASE RunGates
  BY <1>1 DEF RunGates, AcceptAttempt, RejectAttempt, LoopProgress, HasDraft,
              Written, Reported, Conforming, Consenting, Compiled, TypeOK,
              BuildOK, FilesOK, Status
<1>2. CASE WriteRepairTrace \/ SetTaskOutput
  BY <1>2 DEF WriteRepairTrace, SetTaskOutput, TypeOK, FilesOK
<1>3. CASE RejectBlocked \/ NextAttempt
  BY <1>3 DEF RejectBlocked, NextAttempt, LoopProgress
<1>4. CASE Start \/ WriteContext \/ EnterLoop \/ AskProvider \/ UseSeed
           \/ UsableAnswer \/ WriteDraft \/ WriteConformance \/ WriteAttemptReport
  BY <1>4 DEF Start, WriteContext, EnterLoop, AskProvider, UseSeed,
              UsableAnswer, WriteDraft, WriteConformance, WriteAttemptReport
<1>5. CASE CallProvider \/ MalformedAnswer \/ FailedTry \/ JudgeConformance
           \/ CheckConsistency \/ Compile \/ ClearTree \/ EmitTree
  BY <1>5 DEF CallProvider, MalformedAnswer, FailedTry, RetryOrReject, RejectAttempt,
              JudgeConformance, CheckConsistency, Compile, ClearTree, EmitTree
<1>6. CASE WriteRecord \/ Crash \/ ProviderFatal \/ AgentDisabled \/ GatesMissing
  BY <1>6 DEF WriteRecord, Crash, ProviderFatal, AgentDisabled, GatesMissing, Stop
<1>7. CASE UNCHANGED vars
  BY <1>7 DEF vars
<1>8. QED
  BY <1>1, <1>2, <1>3, <1>4, <1>5, <1>6, <1>7 DEF Next, Step

-----------------------------------------------------------------------------
(* Only the last step of a build replaces the record; a crash at that point *)
(* loses it.                                                               *)
LEMMA RecordKept ==
  TypeOK /\ [Next]_vars =>
    disk'.record = disk.record \/ disk'.record = NoFile \/ WriteRecord
<1> SUFFICES ASSUME TypeOK, [Next]_vars, ~WriteRecord
             PROVE  disk'.record = disk.record \/ disk'.record = NoFile
  OBVIOUS
<1> USE DEF TypeOK, FilesOK
<1>1. CASE Start \/ WriteContext \/ RejectBlocked \/ EnterLoop \/ AskProvider
           \/ UseSeed \/ CallProvider \/ UsableAnswer \/ MalformedAnswer \/ FailedTry
  BY <1>1 DEF Start, WriteContext, RejectBlocked, EnterLoop, AskProvider,
              UseSeed, CallProvider, UsableAnswer, MalformedAnswer, FailedTry
<1>2. CASE WriteDraft \/ WriteConformance \/ WriteAttemptReport
           \/ JudgeConformance \/ CheckConsistency \/ Compile
  BY <1>2 DEF WriteDraft, WriteConformance, WriteAttemptReport,
              JudgeConformance, CheckConsistency, Compile
<1>3. CASE ClearTree \/ EmitTree
  BY <1>3 DEF ClearTree, EmitTree
<1>4. CASE RunGates \/ NextAttempt \/ ProviderFatal \/ AgentDisabled \/ GatesMissing
           \/ WriteRepairTrace \/ SetTaskOutput
  BY <1>4 DEF RunGates, NextAttempt, ProviderFatal, AgentDisabled, GatesMissing,
              WriteRepairTrace, SetTaskOutput
<1>5. CASE Crash
  BY <1>5 DEF Crash
<1>6. CASE UNCHANGED vars
  BY <1>6 DEF vars
<1>7. QED
  BY <1>1, <1>2, <1>3, <1>4, <1>5, <1>6 DEF Next, Step

(* The record WriteRecord leaves behind.                                   *)
LEMMA RecordWritten ==
  ASSUME TypeOK, WriteRecord
  PROVE  disk'.record = [run |-> build.run, status |-> build.status,
                         attempts |-> build.attempt, gated |-> build.gates,
                         stages |-> Fingerprints]
BY DEF TypeOK, FilesOK, WriteRecord

(* A record that says ACCEPTED names one draft in all its fingerprints.    *)
LEMMA StepAcceptedIsCoherent ==
  TypeOK /\ AcceptInHand /\ AcceptedIsCoherent /\ [Next]_vars
    => AcceptedIsCoherent'
<1> SUFFICES ASSUME TypeOK, AcceptInHand, AcceptedIsCoherent, [Next]_vars
             PROVE  AcceptedIsCoherent'
  OBVIOUS
<1>1. CASE disk'.record = disk.record \/ disk'.record = NoFile
  BY <1>1 DEF AcceptedIsCoherent, Published
<1>2. CASE WriteRecord
  <2>1. CASE build.status = "ACCEPTED"
    <3>1. DraftInHand /\ build.judged /\ DirectoryIsOf(build.draft)
      BY <1>2, <2>1 DEF AcceptInHand, Publishing, WriteRecord
    <3>2. build.draft # NoFile
      BY <3>1, NoFileAssumption DEF DraftInHand
    <3>3. /\ Fingerprints.draft = build.draft
          /\ Fingerprints.conformance = build.draft
          /\ Fingerprints.sir = build.draft
          /\ Fingerprints.tree = [of |-> build.draft, whole |-> TRUE]
      BY <3>1 DEF Fingerprints, DirectoryIsOf
    <3>4. /\ disk'.record.run = build.run
          /\ disk'.record.attempts = build.attempt
          /\ disk'.record.stages = Fingerprints
      BY <1>2, RecordWritten
    <3>5. QED
      BY <3>1, <3>2, <3>3, <3>4 DEF AcceptedIsCoherent, DraftInHand
  <2>2. CASE build.status # "ACCEPTED"
    BY <1>2, <2>2, RecordWritten DEF AcceptedIsCoherent, Published
  <2>3. QED
    BY <2>1, <2>2
<1>3. QED
  BY <1>1, <1>2, RecordKept

(* ... a draft that passed the checks of its build.                        *)
LEMMA StepAcceptedPassedChecks ==
  TypeOK /\ AcceptInHand /\ AcceptedPassedChecks /\ [Next]_vars
    => AcceptedPassedChecks'
<1> SUFFICES ASSUME TypeOK, AcceptInHand, AcceptedPassedChecks, [Next]_vars
             PROVE  AcceptedPassedChecks'
  OBVIOUS
<1>1. CASE disk'.record = disk.record \/ disk'.record = NoFile
  BY <1>1 DEF AcceptedPassedChecks, Published
<1>2. CASE WriteRecord
  <2>1. CASE build.status = "ACCEPTED"
    <3>1. /\ Fingerprints.draft = build.draft
          /\ Conforms(build.draft) /\ Consistent(build.draft)
          /\ Compiles(build.draft)
          /\ build.gates => PassesGates(build.draft)
      BY <1>2, <2>1
      DEF AcceptInHand, Publishing, WriteRecord, Fingerprints, DirectoryIsOf
    <3>2. QED
      BY <1>2, <3>1, RecordWritten DEF AcceptedPassedChecks, Published
  <2>2. CASE build.status # "ACCEPTED"
    BY <1>2, <2>2, RecordWritten DEF AcceptedPassedChecks, Published
  <2>3. QED
    BY <2>1, <2>2
<1>3. QED
  BY <1>1, <1>2, RecordKept

(* What was compiled had been verified: only Compile and EmitTree add to   *)
(* the SIR and the tree, and they use the draft in hand.                   *)
LEMMA StepOnlyVerifiedDraftsCompiled ==
  TypeOK /\ LoopProgress /\ OnlyVerifiedDraftsCompiled /\ [Next]_vars
    => OnlyVerifiedDraftsCompiled'
<1> SUFFICES ASSUME TypeOK, LoopProgress, OnlyVerifiedDraftsCompiled, [Next]_vars
             PROVE  OnlyVerifiedDraftsCompiled'
  OBVIOUS
<1> USE DEF OnlyVerifiedDraftsCompiled, TypeOK, FilesOK
<1>1. CASE UNCHANGED <<disk.sir, disk.tree>>
  BY <1>1
<1>2. ASSUME Compile PROVE OnlyVerifiedDraftsCompiled'
  BY <1>2 DEF Compile, LoopProgress, HasDraft, Written, Reported, Conforming,
              Consenting
<1>3. ASSUME NEW w \in BOOLEAN, pc = "emit",
             disk' = [disk EXCEPT !.tree = [of |-> build.draft, whole |-> w]]
      PROVE  OnlyVerifiedDraftsCompiled'
  BY <1>3 DEF LoopProgress, HasDraft, Written, Reported, Conforming,
              Consenting, Compiled
<1>4. ASSUME disk.tree # NoFile, disk' = [disk EXCEPT !.tree.whole = FALSE]
      PROVE  OnlyVerifiedDraftsCompiled'
  <2>1. disk'.tree.of = disk.tree.of /\ disk'.sir = disk.sir
    BY <1>4 DEF Maybe, Tree
  <2>2. QED
    BY <1>4, <2>1
<1>5. ASSUME ClearTree PROVE OnlyVerifiedDraftsCompiled'
  BY <1>4, <1>5 DEF ClearTree
<1>6. ASSUME EmitTree PROVE OnlyVerifiedDraftsCompiled'
  BY <1>1, <1>3, <1>6 DEF EmitTree
<1>7. ASSUME Crash PROVE OnlyVerifiedDraftsCompiled'
  BY <1>1, <1>3, <1>4, <1>7 DEF Crash
<1>8. CASE Start \/ WriteContext \/ RejectBlocked \/ EnterLoop \/ AskProvider
           \/ UseSeed \/ CallProvider \/ UsableAnswer \/ MalformedAnswer \/ FailedTry
  BY <1>1, <1>8 DEF Start, WriteContext, RejectBlocked, EnterLoop, AskProvider,
              UseSeed, CallProvider, UsableAnswer, MalformedAnswer, FailedTry
<1>9. CASE WriteDraft \/ WriteConformance \/ WriteAttemptReport
           \/ JudgeConformance \/ CheckConsistency
  BY <1>1, <1>9 DEF WriteDraft, WriteConformance, WriteAttemptReport,
              JudgeConformance, CheckConsistency
<1>10. CASE RunGates \/ NextAttempt \/ ProviderFatal \/ AgentDisabled \/ GatesMissing
            \/ WriteRepairTrace \/ SetTaskOutput \/ WriteRecord
  BY <1>1, <1>10 DEF RunGates, NextAttempt, ProviderFatal, AgentDisabled, GatesMissing,
              WriteRepairTrace, SetTaskOutput, WriteRecord
<1>11. CASE UNCHANGED vars
  BY <1>1, <1>11 DEF vars
<1>12. QED
  BY <1>2, <1>5, <1>6, <1>7, <1>8, <1>9, <1>10, <1>11 DEF Next, Step

(* The outcome in repair_trace.json, in the trace and in the record is the  *)
(* same, and the record comes last.                                        *)
LEMMA StepPublicationOrder ==
  TypeOK /\ PublicationOrder /\ RecordIsWrittenLast /\ [Next]_vars
    => PublicationOrder' /\ RecordIsWrittenLast'
<1> SUFFICES ASSUME TypeOK, PublicationOrder, RecordIsWrittenLast, [Next]_vars
             PROVE  PublicationOrder' /\ RecordIsWrittenLast'
  OBVIOUS
<1> USE DEF PublicationOrder, RecordIsWrittenLast, Goto
<1>1. build.run \in Nat
  BY DEF TypeOK, BuildOK
<1>2. disk.record # NoFile => disk.record.run \in Nat
  BY DEF TypeOK, FilesOK, Maybe, Record
<1>3. CASE Start
  <2>1. build'.run = build.run + 1 /\ pc' = "prepare" /\ disk'.record = disk.record
    BY <1>3 DEF Start, TypeOK, BuildOK, FilesOK
  <2>2. disk.record # NoFile => disk.record.run < build'.run
    BY <1>1, <1>2, <2>1
  <2>3. QED
    BY <1>1, <1>2, <2>1, <2>2
<1>4. CASE WriteRecord
  BY <1>1, <1>4 DEF WriteRecord, Stop, TypeOK, BuildOK, FilesOK
<1>5. CASE WriteRepairTrace \/ SetTaskOutput
  BY <1>1, <1>2, <1>5 DEF WriteRepairTrace, SetTaskOutput, TypeOK, FilesOK
<1>6. CASE ProviderFatal \/ AgentDisabled \/ GatesMissing
  BY <1>1, <1>2, <1>6 DEF ProviderFatal, AgentDisabled, GatesMissing, Stop, TypeOK,
                          BuildOK, FilesOK
<1>7. CASE Crash
  BY <1>1, <1>2, <1>7 DEF Crash, Stop, TypeOK, BuildOK, FilesOK
<1>8. ASSUME pc # "idle", pc' \notin {"idle", "close", "record"},
             build'.run = build.run, disk'.record = disk.record
      PROVE  PublicationOrder' /\ RecordIsWrittenLast'
  BY <1>1, <1>2, <1>8
<1>9. CASE WriteContext \/ RejectBlocked \/ EnterLoop \/ AskProvider \/ UseSeed
           \/ UsableAnswer \/ WriteDraft \/ WriteConformance \/ WriteAttemptReport
  BY <1>8, <1>9 DEF WriteContext, RejectBlocked, EnterLoop, AskProvider, UseSeed,
              UsableAnswer, WriteDraft, WriteConformance, WriteAttemptReport,
              TypeOK, BuildOK, FilesOK
<1>10. CASE CallProvider \/ MalformedAnswer \/ FailedTry \/ JudgeConformance
            \/ CheckConsistency \/ Compile \/ ClearTree
  <2>1. disk'.record = disk.record
    BY <1>10 DEF CallProvider, MalformedAnswer, FailedTry, JudgeConformance,
                CheckConsistency, Compile, ClearTree, TypeOK, FilesOK
  <2>2. build'.run = build.run /\ pc' \in {"called", "failed", "provider", "next",
                                          "consistency", "compile", "clear", "emit"}
    BY <1>10 DEF CallProvider, MalformedAnswer, FailedTry, RetryOrReject,
                RejectAttempt, JudgeConformance, CheckConsistency, Compile,
                ClearTree, TypeOK, BuildOK
  <2>3. pc # "idle"
    BY <1>10 DEF CallProvider, MalformedAnswer, FailedTry, JudgeConformance,
                CheckConsistency, Compile, ClearTree
  <2>4. QED
    BY <1>8, <2>1, <2>2, <2>3
<1>11. CASE EmitTree \/ RunGates \/ NextAttempt
  <2>1. disk'.record = disk.record
    BY <1>11 DEF EmitTree, RunGates, NextAttempt, TypeOK, FilesOK
  <2>2. build'.run = build.run /\ pc' \in {"gates", "next", "report", "attempt"}
    BY <1>11 DEF EmitTree, RunGates, AcceptAttempt, RejectAttempt, NextAttempt,
                TypeOK, BuildOK
  <2>3. pc # "idle"
    BY <1>11 DEF EmitTree, RunGates, NextAttempt
  <2>4. QED
    BY <1>8, <2>1, <2>2, <2>3
<1>12. CASE UNCHANGED vars
  BY <1>12 DEF vars
<1>13. QED
  BY <1>3, <1>4, <1>5, <1>6, <1>7, <1>9, <1>10, <1>11, <1>12 DEF Next, Step

(* The inductive invariant holds in every reachable state.                 *)
THEOREM BuildInvariant == Spec => []BuildInv
<1>1. TypeOK /\ BuildInv /\ [Next]_vars => BuildInv'
  BY StepLoopProgress, StepAcceptInHand, StepPublicationOrder,
     StepAcceptedIsCoherent, StepAcceptedPassedChecks,
     StepOnlyVerifiedDraftsCompiled DEF BuildInv
<1>2. QED
  BY <1>1, InitBuildInv, TypeCorrect, PTL DEF Spec

(* Whatever earlier attempts, killed builds and rebuilds left behind, an    *)
(* ACCEPTED record fingerprints one draft of the build that wrote it.      *)
THEOREM AcceptedCoherent == Spec => []AcceptedIsCoherent
<1>1. BuildInv => AcceptedIsCoherent
  BY DEF BuildInv
<1>2. QED
  BY <1>1, BuildInvariant, PTL

(* ... and that draft conforms, is consistent, compiles and, where gates    *)
(* were asked for, passed them.                                            *)
THEOREM AcceptedChecked == Spec => []AcceptedPassedChecks
<1>1. BuildInv => AcceptedPassedChecks
  BY DEF BuildInv
<1>2. QED
  BY <1>1, BuildInvariant, PTL

(* Nothing the verifier refused ever reaches the compiler.                 *)
THEOREM CompilerSeesVerified == Spec => []OnlyVerifiedDraftsCompiled
<1>1. BuildInv => OnlyVerifiedDraftsCompiled
  BY DEF BuildInv
<1>2. QED
  BY <1>1, BuildInvariant, PTL

(* A record of the latest build agrees with the trace and the repair trace. *)
THEOREM RecordLast == Spec => []RecordIsWrittenLast
<1>1. BuildInv => RecordIsWrittenLast
  BY DEF BuildInv
<1>2. QED
  BY <1>1, BuildInvariant, PTL

-----------------------------------------------------------------------------
(* One attempt more costs its first call and all its retries.              *)
LEMMA CostOfNext ==
  ASSUME NEW n \in Nat
  PROVE  /\ Cost(n) \in Nat /\ Cost(n + 1) = Cost(n) + MaxRetries + 1
         /\ Cost(0) = 0
BY RetriesAssumption DEF Cost

(* Fewer attempts cost no more.                                            *)
LEMMA CostGrows ==
  ASSUME NEW m \in Nat, NEW n \in Nat, m <= n
  PROVE  Cost(m) <= Cost(n)
<1>1. PICK k \in Nat : n = m + k
  <2>1. n - m \in Nat /\ n = m + (n - m)
    OBVIOUS
  <2>2. QED
    BY <2>1
<1>2. (m + k) * (MaxRetries + 1) = m * (MaxRetries + 1) + k * (MaxRetries + 1)
  BY RetriesAssumption
<1>3. k * (MaxRetries + 1) \in Nat /\ m * (MaxRetries + 1) \in Nat
  BY RetriesAssumption
<1>4. QED
  BY <1>1, <1>2, <1>3 DEF Cost

(* Nothing has been called before the first build.                         *)
LEMMA InitCalls == Init => CallsInv
<1> SUFFICES ASSUME Init PROVE CallsInv
  OBVIOUS
<1>1. 1 * (MaxRetries + 1) >= 0
  BY RetriesAssumption
<1>2. QED
  BY <1>1 DEF Init, CallsInv, CallsAreBounded, InLoop, HasDraft

(* A build that has not ended is running.                                  *)
LEMMA StepEnded == TypeOK /\ EndedInv /\ [Next]_vars => EndedInv'
<1> SUFFICES ASSUME TypeOK, EndedInv, [Next]_vars PROVE EndedInv'
  OBVIOUS
<1> USE DEF EndedInv, Goto
<1>1. CASE Start
  BY <1>1 DEF Start, TypeOK, BuildOK
<1>2. CASE WriteRecord \/ Crash \/ ProviderFatal \/ AgentDisabled \/ GatesMissing
  BY <1>2 DEF WriteRecord, Crash, ProviderFatal, AgentDisabled, GatesMissing, Stop
<1>3. CASE WriteContext \/ RejectBlocked \/ EnterLoop \/ UseSeed \/ AskProvider
           \/ WriteRepairTrace \/ SetTaskOutput \/ NextAttempt
  BY <1>3 DEF WriteContext, RejectBlocked, EnterLoop, UseSeed, AskProvider,
              WriteRepairTrace, SetTaskOutput, NextAttempt, TypeOK, BuildOK
<1>4. CASE CallProvider \/ UsableAnswer \/ MalformedAnswer \/ FailedTry
  BY <1>4 DEF CallProvider, UsableAnswer, MalformedAnswer, FailedTry, RetryOrReject,
              RejectAttempt, TypeOK, BuildOK
<1>5. CASE WriteDraft \/ WriteConformance \/ WriteAttemptReport \/ JudgeConformance
           \/ CheckConsistency \/ Compile \/ ClearTree \/ EmitTree \/ RunGates
  BY <1>5 DEF WriteDraft, WriteConformance, WriteAttemptReport, JudgeConformance,
              CheckConsistency, Compile, ClearTree, EmitTree, RunGates,
              AcceptAttempt, RejectAttempt, TypeOK, BuildOK
<1>6. CASE UNCHANGED vars
  BY <1>6 DEF vars
<1>7. QED
  BY <1>1, <1>2, <1>3, <1>4, <1>5, <1>6 DEF Next, Step

(* The bound of the calls a build may make is kept by every step: the loop *)
(* of draft_context counts its retries, and that of build() its attempts.  *)
LEMMA StepCalls == TypeOK /\ EndedInv /\ CallsInv /\ [Next]_vars => CallsInv'
<1> SUFFICES ASSUME TypeOK, EndedInv, CallsInv, [Next]_vars PROVE CallsInv'
  OBVIOUS
<1>1. /\ build.attempt \in Nat /\ build.limit \in Nat /\ build.retry \in Nat
      /\ calls \in Nat /\ disk.okSpans \in Nat /\ disk.errorSpans \in Nat
      /\ MaxRetries \in Nat
  BY RetriesAssumption DEF TypeOK, BuildOK, FilesOK
<1>2. calls <= Cost(build.limit)
  BY DEF CallsInv, CallsAreBounded, Cost
<1>3. pc \in InLoop => /\ build.attempt - 1 \in Nat
                      /\ Cost(build.attempt - 1) \in Nat
                      /\ Cost(build.attempt) = Cost(build.attempt - 1) + MaxRetries + 1
                      /\ Cost(build.attempt) <= Cost(build.limit)
  <2> SUFFICES ASSUME pc \in InLoop
               PROVE  /\ build.attempt - 1 \in Nat
                      /\ Cost(build.attempt - 1) \in Nat
                      /\ Cost(build.attempt) = Cost(build.attempt - 1) + MaxRetries + 1
                      /\ Cost(build.attempt) <= Cost(build.limit)
    OBVIOUS
  <2>1. build.attempt >= 1 /\ build.attempt <= build.limit
    BY DEF CallsInv
  <2>2. build.attempt - 1 \in Nat /\ (build.attempt - 1) + 1 = build.attempt
    BY <1>1, <2>1
  <2>3. Cost((build.attempt - 1) + 1) = Cost(build.attempt - 1) + MaxRetries + 1
    BY <2>2, CostOfNext
  <2>4. QED
    BY <1>1, <2>1, <2>2, <2>3, CostOfNext, CostGrows
<1>4. Cost(build.limit) \in Nat
  BY <1>1, CostOfNext
<1>5. ASSUME build'.limit = build.limit, calls' = calls,
             disk'.okSpans = disk.okSpans, disk'.errorSpans = disk.errorSpans,
             pc = "called" \/ build.ended \in {"raised", "killed"} =>
               pc' = "called" \/ build'.ended \in {"raised", "killed"}
      PROVE  CallsAreBounded' /\ build'.limit >= 1
  BY <1>5 DEF CallsInv, CallsAreBounded
<1>6. CASE Start
  <2>1. PICK n \in RepairBudgets : build'.limit = AttemptLimit(n)
    BY <1>6 DEF Start, TypeOK, BuildOK
  <2>2. build'.limit \in Nat /\ build'.limit >= 1
    BY <2>1, AttemptLimitPositive, BudgetAssumption
  <2>3. calls' = 0 /\ disk'.okSpans = 0 /\ disk'.errorSpans = 0 /\ pc' = "prepare"
    BY <1>6 DEF Start, Goto, TypeOK, FilesOK
  <2>4. build'.limit * (MaxRetries + 1) \in Nat
    BY <1>1, <2>2
  <2>5. CallsAreBounded'
    BY <2>3, <2>4 DEF CallsAreBounded
  <2>6. QED
    BY <2>2, <2>3, <2>5 DEF CallsInv, InLoop, HasDraft
<1>7. CASE WriteContext \/ RejectBlocked \/ WriteRepairTrace \/ SetTaskOutput
  <2>1. /\ build' = build /\ calls' = calls
        /\ disk'.okSpans = disk.okSpans /\ disk'.errorSpans = disk.errorSpans
        /\ pc' \in {"boundary", "report", "close", "record"} /\ pc # "called"
        /\ pc' = "boundary" => pc = "prepare"
    BY <1>7 DEF WriteContext, RejectBlocked, WriteRepairTrace, SetTaskOutput, Goto,
                TypeOK, FilesOK
  <2>2. QED
    BY <1>5, <2>1 DEF CallsInv, InLoop, HasDraft
<1>8. CASE EnterLoop
  <2>1. /\ pc = "boundary" /\ pc' = "attempt" /\ build'.attempt = 1
        /\ build'.limit = build.limit /\ build'.ended = build.ended
        /\ calls' = calls /\ disk' = disk
    BY <1>8 DEF EnterLoop, Goto, TypeOK, BuildOK
  <2>2. calls = 0 /\ build.limit >= 1 /\ Cost(1 - 1) = 0
    BY <2>1, CostOfNext DEF CallsInv
  <2>3. CallsAreBounded' /\ build'.limit >= 1
    BY <1>5, <2>1
  <2>4. QED
    BY <2>1, <2>2, <2>3 DEF CallsInv, InLoop, HasDraft
<1>9. CASE UseSeed \/ AskProvider
  <2>1. /\ pc = "attempt" /\ pc' \in {"drafted", "provider"}
        /\ build'.attempt = build.attempt
        /\ build'.limit = build.limit /\ build'.ended = build.ended
        /\ calls' = calls /\ disk' = disk
        /\ pc' = "provider" => build'.retry = 0
    BY <1>9 DEF UseSeed, AskProvider, Goto, TypeOK, BuildOK
  <2>2. CallsAreBounded' /\ build'.limit >= 1
    BY <1>5, <2>1
  <2>3. pc \in InLoop /\ calls <= Cost(build.attempt - 1)
    BY <2>1 DEF CallsInv, InLoop
  <2>4. calls <= Cost(build.attempt)
    BY <1>1, <1>3, <2>3
  <2>5. QED
    <3>1. build'.attempt >= 1 /\ build'.attempt <= build'.limit
      BY <2>1, <2>3 DEF CallsInv
    <3>2. pc' = "provider" =>
            build'.retry <= MaxRetries /\ calls' <= Cost(build'.attempt - 1) + build'.retry
      BY <1>1, <1>3, <2>1, <2>3
    <3>3. pc' = "drafted" => calls' <= Cost(build'.attempt)
      BY <2>1, <2>4
    <3>4. QED
      BY <2>1, <2>2, <3>1, <3>2, <3>3 DEF CallsInv, HasDraft
<1>10. CASE CallProvider
  <2>1. /\ pc = "provider" /\ pc' = "called" /\ calls' = calls + 1
        /\ build' = build /\ disk' = disk
    BY <1>10 DEF CallProvider, Goto
  <2>2. /\ pc \in InLoop /\ build.retry <= MaxRetries
        /\ calls <= Cost(build.attempt - 1) + build.retry
        /\ build.attempt >= 1 /\ build.attempt <= build.limit /\ build.limit >= 1
    BY <2>1 DEF CallsInv, InLoop
  <2>3. calls <= disk.okSpans + disk.errorSpans
    <3>1. build.ended = "running"
      BY <2>1 DEF EndedInv
    <3>2. calls > disk.okSpans + disk.errorSpans =>
            pc = "called" \/ build.ended \in {"raised", "killed"}
      BY DEF CallsInv, CallsAreBounded
    <3>3. QED
      BY <1>1, <2>1, <3>1, <3>2
  <2>4. calls + 1 <= Cost(build.limit)
    BY <1>1, <1>3, <1>4, <2>2
  <2>5. CallsAreBounded'
    <3>1. calls' <= build'.limit * (MaxRetries + 1)
      BY <2>1, <2>4 DEF Cost
    <3>2. disk.okSpans <= calls /\ disk.okSpans + disk.errorSpans <= 2 * calls
      BY DEF CallsInv, CallsAreBounded
    <3>3. QED
      BY <1>1, <2>1, <2>3, <3>1, <3>2 DEF CallsAreBounded
  <2>6. disk.okSpans < calls + 1
        /\ disk.okSpans + disk.errorSpans <= 2 * (calls + 1) - 2
    BY <1>1 DEF CallsInv, CallsAreBounded
  <2>7. QED
    BY <1>1, <1>3, <2>1, <2>2, <2>5, <2>6 DEF CallsInv, InLoop, HasDraft
<1>11. ASSUME pc \in {"called", "failed"}
       PROVE  /\ pc \in InLoop /\ build.retry <= MaxRetries
              /\ calls <= Cost(build.attempt - 1) + build.retry + 1
              /\ calls <= Cost(build.attempt)
              /\ build.attempt >= 1 /\ build.attempt <= build.limit
              /\ build.limit >= 1 /\ calls <= build.limit * (MaxRetries + 1)
              /\ calls <= disk.okSpans + disk.errorSpans + 1
  <2>1. /\ pc \in InLoop /\ build.retry <= MaxRetries
        /\ calls <= Cost(build.attempt - 1) + build.retry + 1
        /\ build.attempt >= 1 /\ build.attempt <= build.limit /\ build.limit >= 1
    BY <1>11 DEF CallsInv, InLoop
  <2>2. calls <= Cost(build.attempt)
    BY <1>1, <1>3, <2>1
  <2>3. QED
    BY <2>1, <2>2 DEF CallsInv, CallsAreBounded
<1>12. CASE UsableAnswer \/ MalformedAnswer
  <2>1. /\ pc = "called" /\ pc' \in {"drafted", "failed"} /\ calls' = calls
        /\ disk'.okSpans = disk.okSpans + 1 /\ disk'.errorSpans = disk.errorSpans
    BY <1>12 DEF UsableAnswer, MalformedAnswer, Goto, TypeOK, FilesOK
  <2>2. /\ build'.attempt = build.attempt /\ build'.limit = build.limit
        /\ build'.retry = build.retry
    BY <1>12 DEF UsableAnswer, MalformedAnswer, TypeOK, BuildOK
  <2>3. disk.okSpans < calls /\ disk.okSpans + disk.errorSpans <= 2 * calls - 2
    BY <2>1 DEF CallsInv
  <2>4. CallsAreBounded'
    BY <1>1, <1>11, <2>1, <2>2, <2>3 DEF CallsAreBounded
  <2>5. disk'.okSpans + disk'.errorSpans < 2 * calls'
    BY <1>1, <2>1, <2>3
  <2>6. QED
    BY <1>11, <2>1, <2>2, <2>4, <2>5 DEF CallsInv, InLoop, HasDraft
<1>13. CASE FailedTry
  <2>1. /\ pc \in {"called", "failed"} /\ calls' = calls
        /\ disk'.okSpans = disk.okSpans /\ disk'.errorSpans = disk.errorSpans + 1
    BY <1>13 DEF FailedTry, TypeOK, FilesOK
  <2>2. /\ build'.attempt = build.attempt /\ build'.limit = build.limit
        /\ \/ pc' = "provider" /\ build.retry < MaxRetries /\ build'.retry = build.retry + 1
           \/ pc' = "next"
    BY <1>13 DEF FailedTry, RetryOrReject, RejectAttempt, Goto, TypeOK, BuildOK
  <2>3. disk.okSpans + disk.errorSpans < 2 * calls
    BY <1>1, <2>1 DEF CallsInv
  <2>4. CallsAreBounded'
    <3>1. disk.okSpans <= calls
      BY DEF CallsInv, CallsAreBounded
    <3>2. QED
      BY <1>1, <1>11, <2>1, <2>2, <2>3, <3>1 DEF CallsAreBounded
  <2>5. CASE pc' = "provider"
    <3>1. build'.retry <= MaxRetries /\ calls' <= Cost(build'.attempt - 1) + build'.retry
      BY <1>1, <1>3, <1>11, <2>1, <2>2, <2>5
    <3>2. QED
      BY <1>11, <2>1, <2>2, <2>4, <2>5, <3>1 DEF CallsInv, HasDraft
  <2>6. CASE pc' = "next"
    BY <1>11, <2>1, <2>2, <2>4, <2>6 DEF CallsInv, HasDraft
  <2>7. QED
    BY <2>2, <2>5, <2>6
<1>14. CASE WriteDraft \/ WriteConformance \/ WriteAttemptReport \/ JudgeConformance
            \/ CheckConsistency \/ Compile \/ ClearTree \/ EmitTree \/ RunGates
  <2>1. pc \in HasDraft /\ pc' \in HasDraft \cup {"next", "report"} /\ calls' = calls
    BY <1>14 DEF WriteDraft, WriteConformance, WriteAttemptReport, JudgeConformance,
                 CheckConsistency, Compile, ClearTree, EmitTree, RunGates, HasDraft,
                 AcceptAttempt, RejectAttempt, Goto
  <2>2. /\ build'.attempt = build.attempt /\ build'.limit = build.limit
        /\ build'.ended = build.ended
    BY <1>14 DEF WriteDraft, WriteConformance, WriteAttemptReport, JudgeConformance,
                 CheckConsistency, Compile, ClearTree, EmitTree, RunGates,
                 AcceptAttempt, RejectAttempt, TypeOK, BuildOK
  <2>3. disk'.okSpans = disk.okSpans /\ disk'.errorSpans = disk.errorSpans
    BY <1>14 DEF WriteDraft, WriteConformance, WriteAttemptReport, JudgeConformance,
                 CheckConsistency, Compile, ClearTree, EmitTree, RunGates,
                 TypeOK, FilesOK
  <2>4. CallsAreBounded' /\ build'.limit >= 1
    BY <1>5, <2>1, <2>2, <2>3 DEF HasDraft
  <2>5. QED
    BY <2>1, <2>2, <2>4 DEF CallsInv, InLoop, HasDraft
<1>15. CASE ProviderFatal \/ AgentDisabled \/ GatesMissing \/ WriteRecord \/ Crash
  <2>1. pc' = "idle" /\ calls' = calls /\ build'.limit = build.limit
    BY <1>15 DEF ProviderFatal, AgentDisabled, GatesMissing, WriteRecord, Crash, Stop,
                 Goto, TypeOK, BuildOK
  <2>2. disk'.okSpans = disk.okSpans /\ disk'.errorSpans = disk.errorSpans
    BY <1>15 DEF ProviderFatal, AgentDisabled, GatesMissing, WriteRecord, Crash, TypeOK,
                 FilesOK
  <2>3. build'.ended \in {"raised", "killed"} \/ pc = "record"
    BY <1>15 DEF ProviderFatal, AgentDisabled, GatesMissing, WriteRecord, Crash, Stop,
                 TypeOK, BuildOK
  <2>4. build.ended = "running"
    BY <1>15 DEF ProviderFatal, AgentDisabled, GatesMissing, WriteRecord, Crash, EndedInv
  <2>5. CallsAreBounded' /\ build'.limit >= 1
    BY <1>5, <2>1, <2>2, <2>3, <2>4
  <2>6. QED
    BY <2>1, <2>5 DEF CallsInv, InLoop, HasDraft
<1>16. CASE NextAttempt
  <2>1. /\ pc = "next" /\ pc' \in {"attempt", "report"} /\ calls' = calls
        /\ build'.limit = build.limit /\ build'.ended = build.ended /\ disk' = disk
        /\ pc' = "attempt" =>
             build.attempt < build.limit /\ build'.attempt = build.attempt + 1
    BY <1>16 DEF NextAttempt, Goto, TypeOK, BuildOK
  <2>2. CallsAreBounded' /\ build'.limit >= 1
    BY <1>5, <2>1
  <2>3. calls <= Cost(build.attempt)
    BY <2>1 DEF CallsInv
  <2>4. CASE pc' = "attempt"
    <3>1. build'.attempt - 1 = build.attempt /\ build'.attempt >= 1
          /\ build'.attempt <= build'.limit
      BY <1>1, <2>1, <2>4
    <3>2. QED
      BY <2>1, <2>2, <2>3, <2>4, <3>1 DEF CallsInv, HasDraft
  <2>5. CASE pc' = "report"
    BY <2>2, <2>5 DEF CallsInv, InLoop, HasDraft
  <2>6. QED
    BY <2>1, <2>4, <2>5
<1>17. CASE UNCHANGED vars
  BY <1>17 DEF vars, CallsInv, CallsAreBounded
<1>18. QED
  BY <1>6, <1>7, <1>8, <1>9, <1>10, <1>12, <1>13, <1>14, <1>15, <1>16, <1>17
  DEF Next, Step

(* However its attempts and retries fail, a build makes at most as many    *)
(* calls as its budgets multiply to, and all but the last have a span.      *)
THEOREM CallsBounded == Spec => []CallsAreBounded
<1>1. CallsInv => CallsAreBounded
  BY DEF CallsInv
<1>2. Init => EndedInv
  BY DEF Init, EndedInv
<1>3. QED
  BY <1>1, <1>2, InitCalls, StepCalls, StepEnded, TypeCorrect, PTL DEF Spec

-----------------------------------------------------------------------------
(* A blocked intent never enters the loop.                                 *)
LEMMA StepBlocked == TypeOK /\ BlockedInv /\ [Next]_vars => BlockedInv'
<1> SUFFICES ASSUME TypeOK, BlockedInv, [Next]_vars PROVE BlockedInv'
  OBVIOUS
<1> USE DEF BlockedInv, Publishing, Goto
<1>1. CASE Start
  BY <1>1 DEF Start, TypeOK, BuildOK
<1>2. CASE WriteContext \/ RejectBlocked \/ EnterLoop \/ WriteRepairTrace
           \/ SetTaskOutput
  BY <1>2 DEF WriteContext, RejectBlocked, EnterLoop, WriteRepairTrace,
              SetTaskOutput, TypeOK, BuildOK
<1>3. CASE WriteRecord \/ Crash \/ ProviderFatal \/ AgentDisabled \/ GatesMissing
  BY <1>3 DEF WriteRecord, Crash, ProviderFatal, AgentDisabled, GatesMissing, Stop
<1>4. CASE UseSeed \/ AskProvider \/ CallProvider \/ UsableAnswer
           \/ MalformedAnswer \/ FailedTry
  BY <1>4 DEF UseSeed, AskProvider, CallProvider, UsableAnswer, MalformedAnswer, FailedTry,
              RetryOrReject, RejectAttempt, TypeOK, BuildOK
<1>5. CASE WriteDraft \/ WriteConformance \/ WriteAttemptReport \/ JudgeConformance
           \/ CheckConsistency \/ Compile
  BY <1>5 DEF WriteDraft, WriteConformance, WriteAttemptReport, JudgeConformance,
              CheckConsistency, Compile, RejectAttempt, TypeOK, BuildOK
<1>6. CASE ClearTree \/ EmitTree \/ RunGates \/ NextAttempt
  BY <1>6 DEF ClearTree, EmitTree, RunGates, NextAttempt, AcceptAttempt,
              RejectAttempt, TypeOK, BuildOK
<1>7. CASE UNCHANGED vars
  BY <1>7 DEF vars
<1>8. QED
  BY <1>1, <1>2, <1>3, <1>4, <1>5, <1>6, <1>7 DEF Next, Step

(* A build of a blocked intent asks no provider, touches no draft, SIR or  *)
(* tree, and publishes nothing but a rejection.                            *)
THEOREM BlockedDeterministic == Spec => BlockedStaysDeterministic
<1> DEFINE Harmless ==
      build.prompt \in Blocked /\ pc # "idle" =>
        /\ calls' = 0
        /\ UNCHANGED <<disk.draft, disk.conformance, disk.sir, disk.tree>>
        /\ disk'.record # disk.record /\ disk'.record # NoFile =>
             disk'.record.status = "REJECTED"
<1>1. TypeOK /\ BlockedInv /\ [Next]_vars => [Harmless]_vars
  <2> SUFFICES ASSUME TypeOK, BlockedInv, Next, build.prompt \in Blocked, pc # "idle"
               PROVE  /\ calls' = 0
                      /\ UNCHANGED <<disk.draft, disk.conformance, disk.sir, disk.tree>>
                      /\ disk'.record # disk.record /\ disk'.record # NoFile =>
                           disk'.record.status = "REJECTED"
    OBVIOUS
  <2>1. pc \in {"prepare", "boundary"} \cup Publishing /\ calls = 0
        /\ build.status = "REJECTED"
    BY DEF BlockedInv
  <2>2. \/ WriteContext \/ RejectBlocked \/ WriteRepairTrace \/ SetTaskOutput
        \/ WriteRecord \/ Crash
    BY <2>1 DEF Next, Step, Start, EnterLoop, UseSeed, AskProvider, UsableAnswer,
                CallProvider, MalformedAnswer, FailedTry, ProviderFatal, AgentDisabled,
                WriteDraft, WriteConformance, WriteAttemptReport, JudgeConformance,
                CheckConsistency, Compile, ClearTree, EmitTree, RunGates,
                GatesMissing, NextAttempt, Publishing
  <2>3. CASE WriteContext \/ RejectBlocked \/ WriteRepairTrace \/ SetTaskOutput
    BY <2>1, <2>3 DEF WriteContext, RejectBlocked, WriteRepairTrace, SetTaskOutput,
                      TypeOK, FilesOK
  <2>4. CASE WriteRecord
    BY <2>1, <2>4 DEF WriteRecord, TypeOK, FilesOK
  <2>5. CASE Crash
    BY <2>1, <2>5 DEF Crash, Publishing, TypeOK, FilesOK
  <2>6. QED
    BY <2>2, <2>3, <2>4, <2>5
<1>2. Init => BlockedInv
  BY DEF Init, BlockedInv
<1>3. QED
  BY <1>1, <1>2, StepBlocked, TypeCorrect, PTL DEF Spec, BlockedStaysDeterministic

-----------------------------------------------------------------------------
(* What a reader finds of a build that ends with a record.                 *)
LEMMA OutcomeWritten ==
  ASSUME TypeOK, WriteRecord
  PROVE  Outcome(disk'.record) =
           [run |-> build.run, status |-> build.status,
            draft |-> IF build.status = "ACCEPTED" THEN SingleDraft(Fingerprints)
                      ELSE NoFile]
<1> DEFINE r == [run |-> build.run, status |-> build.status,
                 attempts |-> build.attempt, gated |-> build.gates,
                 stages |-> Fingerprints]
<1>1. disk'.record = r
  BY RecordWritten
<1>2. r \in Record
  <2>1. Fingerprints \in Stages
    BY DEF TypeOK, FilesOK, Fingerprints, Stages, Maybe
  <2>2. QED
    BY <2>1 DEF TypeOK, BuildOK, Record
<1>3. r # NoFile
  BY <1>2, OutcomeAssumption
<1>4. QED
  BY <1>1, <1>3 DEF Outcome

(* A build that publishes ACCEPTED accepts a verified draft of its own.    *)
LEMMA AcceptingIsAccept ==
  ASSUME TypeOK, AcceptInHand, WriteRecord, build.status = "ACCEPTED"
  PROVE  Contract!Accept
<1> DEFINE o == [run |-> build.run, status |-> "ACCEPTED", draft |-> build.draft]
<1>1. /\ DraftInHand /\ build.judged /\ DirectoryIsOf(build.draft)
      /\ Conforms(build.draft) /\ Consistent(build.draft) /\ Compiles(build.draft)
      /\ pc = "record" /\ pc' = "idle" /\ build'.run = build.run
  BY DEF AcceptInHand, Publishing, WriteRecord, Stop, Goto, TypeOK, BuildOK
<1>2. SingleDraft(Fingerprints) = build.draft
  BY <1>1 DEF SingleDraft, Fingerprints, DirectoryIsOf
<1>3. Outcome(disk'.record) = o
  BY <1>2, OutcomeWritten
<1>4. o \in [run : Nat, status : Status, draft : Maybe(Draft)]
  BY <1>1 DEF TypeOK, BuildOK, DraftInHand, Status, Maybe
<1>5. o # NoFile
  BY <1>4, OutcomeAssumption
<1>6. o.draft = build.draft /\ build.draft \in VerifiedDraft /\ build.draft.run = build.run
  BY <1>1 DEF DraftInHand, VerifiedDraft
<1>7. pc # "idle" /\ ~(pc' # "idle")
  BY <1>1
<1>8. QED
  BY <1>1, <1>3, <1>5, <1>6, <1>7 DEF Contract!Accept, Contract!Finish

(* Each step of the loop is a step of the contract, or is not seen by a    *)
(* reader.                                                                 *)
LEMMA StepContract ==
  TypeOK /\ AcceptInHand /\ [Next]_vars => [Contract!Next]_Contract!vars
<1> SUFFICES ASSUME TypeOK, AcceptInHand, [Next]_vars
             PROVE  Contract!Next \/ UNCHANGED Contract!vars
  OBVIOUS
<1> USE DEF Goto
<1>1. ASSUME pc # "idle", pc' # "idle", build'.run = build.run,
             disk'.record = disk.record
      PROVE  UNCHANGED Contract!vars
  BY <1>1 DEF Contract!vars
<1>2. CASE Start
  <2>1. build'.run = build.run + 1 /\ pc = "idle" /\ pc' = "prepare"
        /\ disk'.record = disk.record
    BY <1>2 DEF Start, TypeOK, BuildOK, FilesOK
  <2>2. Contract!Begin
    BY <2>1 DEF Contract!Begin
  <2>3. QED
    BY <2>2 DEF Contract!Next
<1>3. CASE WriteContext \/ RejectBlocked \/ EnterLoop \/ AskProvider \/ UseSeed
           \/ UsableAnswer \/ WriteRepairTrace \/ SetTaskOutput
  BY <1>1, <1>3 DEF WriteContext, RejectBlocked, EnterLoop, AskProvider, UseSeed,
                    UsableAnswer, WriteRepairTrace, SetTaskOutput, TypeOK,
                    BuildOK, FilesOK
<1>4. CASE CallProvider \/ MalformedAnswer \/ FailedTry
  BY <1>1, <1>4 DEF CallProvider, MalformedAnswer, FailedTry, RetryOrReject,
                    RejectAttempt, TypeOK, BuildOK, FilesOK
<1>5. CASE WriteDraft \/ WriteConformance \/ WriteAttemptReport \/ JudgeConformance
           \/ CheckConsistency \/ Compile
  BY <1>1, <1>5 DEF WriteDraft, WriteConformance, WriteAttemptReport,
                    JudgeConformance, CheckConsistency, Compile, RejectAttempt,
                    TypeOK, BuildOK, FilesOK
<1>6. CASE ClearTree \/ EmitTree \/ RunGates \/ NextAttempt
  BY <1>1, <1>6 DEF ClearTree, EmitTree, RunGates, NextAttempt, AcceptAttempt,
                    RejectAttempt, TypeOK, BuildOK, FilesOK
<1>7. CASE WriteRecord
  <2>1. pc # "idle" /\ pc' = "idle" /\ build'.run = build.run
    BY <1>7 DEF WriteRecord, Stop, TypeOK, BuildOK
  <2>2. CASE build.status = "ACCEPTED"
    BY <1>7, <2>2, AcceptingIsAccept DEF Contract!Next
  <2>3. CASE build.status # "ACCEPTED"
    <3>1. build.status = "REJECTED"
      BY <2>3 DEF TypeOK, BuildOK, Status
    <3>2. Outcome(disk'.record)
            = [run |-> build.run, status |-> "REJECTED", draft |-> NoFile]
      BY <1>7, <3>1, OutcomeWritten
    <3>3. Contract!Reject
      BY <2>1, <3>2 DEF Contract!Reject, Contract!Finish
    <3>4. QED
      BY <3>3 DEF Contract!Next
  <2>4. QED
    BY <2>2, <2>3
<1>8. CASE Crash \/ ProviderFatal \/ AgentDisabled \/ GatesMissing
  <2>1. pc # "idle" /\ pc' = "idle" /\ build'.run = build.run
    BY <1>8 DEF Crash, ProviderFatal, AgentDisabled, GatesMissing, Stop, TypeOK, BuildOK
  <2>2. disk'.record = disk.record \/ disk'.record = NoFile
    BY <1>8 DEF Crash, ProviderFatal, AgentDisabled, GatesMissing, TypeOK, FilesOK
  <2>3. Outcome(disk'.record) = Outcome(disk.record) \/ Outcome(disk'.record) = NoFile
    BY <2>2 DEF Outcome
  <2>4. Contract!Abandon
    BY <2>1, <2>3 DEF Contract!Abandon, Contract!Finish
  <2>5. QED
    BY <2>4 DEF Contract!Next
<1>9. CASE UNCHANGED vars
  BY <1>9 DEF vars, Contract!vars
<1>10. QED
  BY <1>2, <1>3, <1>4, <1>5, <1>6, <1>7, <1>8, <1>9 DEF Next, Step

(* The repair loop, with all its files, failures and crashes, implements   *)
(* the contract: whoever reads the record of the directory finds at most   *)
(* one outcome per build, and an accepted one is of one verified draft.    *)
THEOREM LoopImplementsContract == Spec => ImplementsContract
<1>1. Init => Contract!Init
  BY DEF Init, Contract!Init, Outcome
<1>2. BuildInv => AcceptInHand
  BY DEF BuildInv
<1>3. QED
  BY <1>1, <1>2, StepContract, TypeCorrect, BuildInvariant, PTL
  DEF Spec, ImplementsContract, Contract!Spec
=============================================================================
