------------------------- MODULE OfflineBuildProofs -------------------------
(***************************************************************************)
(* Theorems about OfflineBuild, for any prompts and whatever the pipeline  *)
(* makes of them.  Its builds use the writer as IncrementalWriter has it,  *)
(* so that the writer's theorems hold of them; from the types and the      *)
(* inductive invariant of OfflineBuild follow what a directory, a record   *)
(* and a trace tell of the builds that left them.                          *)
(***************************************************************************)
EXTENDS OfflineBuild, SequenceTheorems, FiniteSetTheorems, TLAPS

-----------------------------------------------------------------------------
(* The writer by itself, as IncrementalWriter has it: for every finite set *)
(* of paths, every set of contents, any edits between writes and any       *)
(* number of crashes.                                                      *)

(* The hashes a write starts from are those of a directory.                *)
LEMMA HashesType ==
  ASSUME disk \in Files
  PROVE  ActualHashes \in Files
BY DEF ActualHashes, Files

(* The empty index and the initial directory are well typed.               *)
LEMMA InitTypeOK == WriterInit => TypeOK
<1> SUFFICES ASSUME WriterInit PROVE TypeOK
  OBVIOUS
<1>1. disk \in Files /\ Nowhere \in Generated
  BY DEF WriterInit, Files, Generated, Nowhere
<1>2. /\ wpc \in {"idle", "emit", "index"} /\ index \in Generated \cup {Absent, Torn}
      /\ owned \subseteq Paths /\ touched \subseteq Paths
      /\ edited \in BOOLEAN /\ crashes \in Nat
  BY DEF WriterInit
<1>3. job \in [before : Files, after : Generated, todo : SUBSET Paths,
               ended : {"never", "running", "returned", "crashed", "edited"}]
  BY <1>1 DEF WriterInit
<1>4. QED
  BY <1>1, <1>2, <1>3 DEF TypeOK

(* Every step of a write, of its death and of a user keeps the types.      *)
LEMMA StepTypeOK == TypeOK /\ [WriterNext]_writerVars => TypeOK'
<1> SUFFICES ASSUME TypeOK, [WriterNext]_writerVars PROVE TypeOK'
  OBVIOUS
<1> USE DEF TypeOK
<1>1. CASE Begin
  <2>1. PICK files \in Generated :
          job' = [before |-> ActualHashes, after |-> files,
                  todo |-> Listed(ActualHashes) \cup Listed(files),
                  ended |-> "running"]
    BY <1>1 DEF Begin, BeginWith
  <2>2. Listed(ActualHashes) \cup Listed(files) \subseteq Paths
    BY DEF Listed
  <2>3. QED
    BY <1>1, <2>1, <2>2, HashesType DEF Begin, BeginWith
<1>2. CASE Emit
  <2>1. PICK p \in Paths : (Write(p) \/ Unlink(p) \/ Leave(p)) /\ Advance(p)
    BY <1>2 DEF Emit
  <2>2. disk' \in Files
    BY <2>1 DEF Write, Unlink, Leave, Files, Generated
  <2>3. owned' \subseteq Paths /\ touched' \subseteq Paths
    BY <2>1 DEF Write, Unlink, Leave
  <2>4. QED
    BY <1>2, <2>1, <2>2, <2>3 DEF Emit, Advance
<1>3. CASE EndLoop
  BY <1>3 DEF EndLoop
<1>4. CASE WriteIndex
  BY <1>4 DEF WriteIndex
<1>5. CASE Crash
  <2>1. disk' \in Files /\ owned' \subseteq Paths /\ touched' \subseteq Paths
        /\ index' \in Generated \cup {Absent, Torn}
    BY <1>5 DEF Crash, TearFile, TearIndex, Files
  <2>2. crashes' \in Nat
    BY <1>5 DEF Crash
  <2>3. QED
    BY <1>5, <2>1, <2>2 DEF Crash
<1>6. CASE Edit
  BY <1>6 DEF Edit, Files
<1>7. CASE UNCHANGED writerVars
  BY <1>7 DEF writerVars
<1>8. QED
  BY <1>1, <1>2, <1>3, <1>4, <1>5, <1>6, <1>7 DEF WriterNext

(* The files, the index and the locals of a write keep their types.        *)
THEOREM WriterTypes == WriterSpec => []TypeOK
<1>1. QED
  BY InitTypeOK, StepTypeOK, PTL DEF WriterSpec

-----------------------------------------------------------------------------
(* Before the first write there is no index and nothing is owned.          *)
LEMMA InitWriterInv == WriterInit => WriterInv
BY DEF WriterInit, WriterInv, IndexIsOwned, LoopInv, AfterReturn

(* A write starts with all its rounds to do.                               *)
LEMMA BeginLoopInv ==
  ASSUME TypeOK, Begin
  PROVE  LoopInv'
<1>1. PICK files \in Generated :
        job' = [before |-> ActualHashes, after |-> files,
                todo |-> Listed(ActualHashes) \cup Listed(files),
                ended |-> "running"]
  BY DEF Begin, BeginWith
<1>2. SUFFICES ASSUME NEW p \in Paths PROVE RoundInv(p)'
  BY DEF LoopInv
<1>3. /\ wpc' = "emit" /\ touched' = {} /\ disk' = disk /\ index' = index
      /\ job'.before = ActualHashes /\ job'.after = files
      /\ job'.todo = Listed(job'.before) \cup Listed(job'.after)
  BY <1>1 DEF Begin, BeginWith
<1>4. ActualHashes[p] = IF LoadIndex[p] # Absent THEN disk[p] ELSE Absent
  BY DEF ActualHashes
<1>5. LoadIndex' = LoadIndex
  BY <1>3 DEF LoadIndex
<1>6. QED
  BY <1>3, <1>4, <1>5 DEF RoundInv, Concerned, Listed

(* A round settles its own path and leaves the others as they are.         *)
LEMMA EmitLoopInv ==
  ASSUME TypeOK, LoopInv, IndexIsOwned, Emit
  PROVE  LoopInv'
<1>1. PICK p \in Paths : IsNext(p) /\ (Write(p) \/ Unlink(p) \/ Leave(p)) /\ Advance(p)
  BY DEF Emit
<1>2. SUFFICES ASSUME NEW q \in Paths PROVE RoundInv(q)'
  BY DEF LoopInv
<1>3. /\ wpc = "emit" /\ wpc' = "emit" /\ index' = index /\ LoadIndex' = LoadIndex
      /\ job'.before = job.before /\ job'.after = job.after
      /\ job'.todo = job.todo \ {p}
      /\ Concerned' = Concerned
  BY <1>1 DEF Emit, Advance, TypeOK, LoadIndex, Concerned, Listed
<1>4. RoundInv(q) /\ RoundInv(p) /\ p \in job.todo
  BY <1>1, <1>3 DEF LoopInv, IsNext
<1>5. ChangeOf(q)' = ChangeOf(q)
  BY <1>3 DEF ChangeOf
<1>6. LoadIndex[p] # Absent => p \in owned
  BY DEF IndexIsOwned, LoadIndex, Listed, Nowhere
<1>7. disk \in [Paths -> Contents \cup {Absent, Torn}]
  BY DEF TypeOK, Files
<1>8. CASE q # p
  <2>1. disk'[q] = disk[q] /\ (q \in touched' <=> q \in touched)
        /\ (q \in owned => q \in owned')
    BY <1>1, <1>7, <1>8 DEF Write, Unlink, Leave
  <2>2. QED
    BY <1>3, <1>4, <1>5, <1>8, <2>1 DEF RoundInv, Done
<1>9. CASE q = p
  <2>1. p \in Concerned /\ p \notin touched
        /\ (job.before[p] # Absent => disk[p] = job.before[p])
    BY <1>4 DEF RoundInv
  <2>2. Done(p)'
    <3>1. CASE Write(p)
      <4>1. disk'[p] = job.after[p] /\ p \in owned'
        BY <1>7, <3>1 DEF Write
      <4>2. QED
        BY <1>3, <4>1 DEF Done
    <3>2. CASE Unlink(p)
      <4>1. disk'[p] = Absent /\ job.after[p] = Absent
        BY <1>7, <3>2 DEF Unlink, ChangeOf
      <4>2. QED
        BY <1>3, <4>1 DEF Done
    <3>3. CASE Leave(p)
      <4>1. job.before[p] # Absent /\ job.before[p] = job.after[p]
        BY <3>3 DEF Leave, ChangeOf
      <4>2. p \in owned
        BY <1>4, <1>6, <4>1 DEF RoundInv
      <4>3. QED
        BY <1>3, <2>1, <3>3, <4>1, <4>2 DEF Leave, Done
    <3>4. QED
      BY <1>1, <3>1, <3>2, <3>3
  <2>3. p \in touched' => ChangeOf(p)' # "unchanged"
    BY <1>1, <1>5, <1>9, <2>1 DEF Write, Unlink, Leave
  <2>4. QED
    BY <1>3, <1>4, <1>9, <2>1, <2>2, <2>3 DEF RoundInv
<1>10. QED
  BY <1>8, <1>9

(* Every step keeps the inductive invariant.                               *)
LEMMA StepWriterInv == TypeOK /\ WriterInv /\ [WriterNext]_writerVars => WriterInv'
<1> SUFFICES ASSUME TypeOK, WriterInv, [WriterNext]_writerVars PROVE WriterInv'
  OBVIOUS
<1> USE DEF WriterInv
<1>1. CASE Begin
  <2>1. IndexIsOwned' /\ AfterReturn'
    BY <1>1 DEF Begin, BeginWith, IndexIsOwned, AfterReturn, Listed
  <2>2. QED
    BY <1>1, <2>1, BeginLoopInv
<1>2. CASE Emit
  <2>1. owned \subseteq owned' /\ index' = index /\ wpc' = "emit"
    BY <1>2 DEF Emit, Write, Unlink, Leave
  <2>2. IndexIsOwned' /\ AfterReturn'
    BY <2>1 DEF IndexIsOwned, AfterReturn, Listed
  <2>3. QED
    BY <1>2, <2>2, EmitLoopInv
<1>3. CASE EndLoop
  BY <1>3 DEF EndLoop, IndexIsOwned, AfterReturn, LoopInv, RoundInv, Concerned,
              Listed, Done, ChangeOf, LoadIndex, Nowhere
<1>4. CASE WriteIndex
  <2>1. /\ index' = job.after /\ owned' = owned /\ disk' = disk /\ wpc' = "idle"
        /\ job'.after = job.after
    BY <1>4 DEF WriteIndex, TypeOK
  <2>2. \A p \in Listed(job.after) : disk[p] = job.after[p] /\ p \in owned
    BY <1>4 DEF WriteIndex, LoopInv, RoundInv, Concerned, Listed, Done
  <2>3. QED
    BY <2>1, <2>2 DEF IndexIsOwned, LoopInv, AfterReturn, Listed
<1>5. CASE Crash
  <2>1. owned \subseteq owned' /\ (index' = index \/ index' = Torn)
        /\ wpc' = "idle" /\ job'.ended = "crashed"
    BY <1>5 DEF Crash, TearFile, TearIndex, TypeOK
  <2>2. QED
    BY <2>1 DEF IndexIsOwned, LoopInv, AfterReturn, Listed
<1>6. CASE Edit
  <2>1. owned' = owned /\ index' = index /\ wpc' = "idle" /\ job'.ended = "edited"
    BY <1>6 DEF Edit, TypeOK
  <2>2. QED
    BY <2>1 DEF IndexIsOwned, LoopInv, AfterReturn, Listed
<1>7. CASE UNCHANGED writerVars
  BY <1>7 DEF writerVars, IndexIsOwned, AfterReturn, LoopInv, RoundInv, Concerned,
              Listed, Done, ChangeOf, LoadIndex, Nowhere
<1>8. QED
  BY <1>1, <1>2, <1>3, <1>4, <1>5, <1>6, <1>7 DEF WriterNext

(* The inductive invariant holds in every reachable state.                 *)
THEOREM WriterInvariant == WriterSpec => []WriterInv
<1>1. QED
  BY InitWriterInv, StepWriterInv, WriterTypes, PTL DEF WriterSpec

(* A write that ends has produced what the compiler asked for, whatever    *)
(* edits, crashes and torn files it found.                                 *)
THEOREM Converges == WriterSpec => []WriteConverges
<1>1. TypeOK /\ WriterInv => WriteConverges
  <2> SUFFICES ASSUME TypeOK, WriterInv, wpc = "index" PROVE WriteConverges
    BY DEF WriteConverges
  <2>1. \A p \in Paths : RoundInv(p) /\ p \notin job.todo
    BY DEF WriterInv, LoopInv, RoundInv
  <2>2. \A p \in Listed(job.after) : disk[p] = job.after[p]
    BY <2>1 DEF RoundInv, Concerned, Listed, Done
  <2>3. \A p \in Listed(LoadIndex) \ Listed(job.after) : disk[p] = Absent
    BY <2>1 DEF RoundInv, Concerned, Listed, Done
  <2>4. QED
    BY <2>2, <2>3 DEF WriteConverges
<1>2. QED
  BY <1>1, WriterTypes, WriterInvariant, PTL

(* Generating the same files again right away finds nothing to do.         *)
THEOREM RewriteIdle == WriterSpec => []RewriteIsIdle
<1>1. TypeOK /\ WriterInv => RewriteIsIdle
  <2> SUFFICES ASSUME TypeOK, WriterInv, wpc = "idle", job.ended = "returned"
               PROVE  ActualHashes = job.after
    BY DEF RewriteIsIdle
  <2>1. index = job.after /\ \A p \in Listed(job.after) : disk[p] = job.after[p]
    BY DEF WriterInv, AfterReturn
  <2>2. job.after \in [Paths -> Contents \cup {Absent}]
    BY DEF TypeOK, Generated
  <2>3. LoadIndex = job.after
    BY <2>1, <2>2, ContentsAssumption DEF LoadIndex
  <2>4. QED
    BY <2>1, <2>2, <2>3 DEF ActualHashes, Listed
<1>2. QED
  BY <1>1, WriterTypes, WriterInvariant, PTL

(* A file the compiler never wrote and does not generate now is never      *)
(* modified or removed by a write.                                         *)
THEOREM StrangersSafe == WriterSpec => StrangersUntouched
<1> DEFINE Safe == wpc # "idle" =>
       \A p \in Paths \ (owned \cup Listed(job.after)) : disk'[p] = disk[p]
<1>1. TypeOK /\ WriterInv /\ [WriterNext]_writerVars => [Safe]_writerVars
  <2> SUFFICES ASSUME TypeOK, WriterInv, WriterNext, wpc # "idle",
                      NEW p \in Paths \ (owned \cup Listed(job.after))
               PROVE  disk'[p] = disk[p]
    BY DEF Safe
  <2>1. job.after[p] = Absent /\ p \notin owned
    BY DEF Listed
  <2>2. ChangeOf(p) # "modified"
    BY <2>1 DEF ChangeOf
  <2>3. job.before[p] = Absent
    BY <2>1 DEF WriterInv, LoopInv, RoundInv, IndexIsOwned, LoadIndex, Listed, Nowhere
  <2>4. p \notin job.todo
    BY <2>1, <2>3 DEF WriterInv, LoopInv, RoundInv, Concerned, Listed
  <2>5. disk \in [Paths -> Contents \cup {Absent, Torn}]
    BY DEF TypeOK, Files
  <2>6. CASE Emit
    BY <2>4, <2>5, <2>6 DEF Emit, IsNext, Write, Unlink, Leave
  <2>7. CASE Crash
    BY <2>4, <2>5, <2>7 DEF Crash, TearFile, TearIndex, IsNext
  <2>8. CASE Begin \/ EndLoop \/ WriteIndex \/ Edit
    BY <2>8 DEF Begin, BeginWith, EndLoop, WriteIndex, Edit
  <2>9. QED
    BY <2>6, <2>7, <2>8 DEF WriterNext
<1>2. QED
  BY <1>1, WriterTypes, WriterInvariant, PTL DEF WriterSpec, StrangersUntouched
-----------------------------------------------------------------------------
(* Every step keeps what the compiler has left behind known to the index   *)
(* or to the write that is running.                                        *)
LEMMA StepOwnedAreKnown ==
  TypeOK /\ WriterInv /\ OwnedAreKnown /\ [WriterNext]_writerVars => OwnedAreKnown'
<1> SUFFICES ASSUME TypeOK, WriterInv, OwnedAreKnown, [WriterNext]_writerVars,
                    ~edited', crashes' = 0, NEW p \in owned', disk'[p] # Absent
             PROVE  LoadIndex'[p] # Absent \/ (wpc' # "idle" /\ job'.after[p] # Absent)
  BY DEF OwnedAreKnown
<1>1. CASE Begin
  <2>1. LoadIndex'[p] = LoadIndex[p] /\ wpc = "idle" /\ p \in owned
        /\ disk[p] # Absent /\ ~edited /\ crashes = 0
    BY <1>1 DEF Begin, BeginWith, LoadIndex
  <2>2. QED
    BY <2>1 DEF OwnedAreKnown
<1>2. CASE Emit
  <2>1. PICK q \in Paths : IsNext(q) /\ (Write(q) \/ Unlink(q) \/ Leave(q)) /\ Advance(q)
    BY <1>2 DEF Emit
  <2>2. /\ wpc = "emit" /\ wpc' = "emit" /\ LoadIndex' = LoadIndex
        /\ job'.after = job.after /\ ~edited /\ crashes = 0
    BY <1>2, <2>1 DEF Emit, Advance, TypeOK, LoadIndex
  <2>3. disk \in [Paths -> Contents \cup {Absent, Torn}]
    BY DEF TypeOK, Files
  <2>4. CASE p = q /\ Write(q)
    <3>1. q \in Concerned
      BY <2>1, <2>2 DEF WriterInv, LoopInv, RoundInv, IsNext
    <3>2. job.after[q] # Absent
      BY <2>4, <3>1 DEF Write, ChangeOf, Concerned, Listed
    <3>3. QED
      BY <2>2, <2>4, <3>2
  <2>5. CASE ~(p = q /\ Write(q))
    <3>1. p \in owned /\ disk[p] # Absent
      <4>1. CASE Write(q)
        BY <2>3, <2>5, <4>1 DEF Write
      <4>2. CASE Unlink(q)
        BY <2>3, <4>2 DEF Unlink
      <4>3. CASE Leave(q)
        BY <4>3 DEF Leave
      <4>4. QED
        BY <2>1, <4>1, <4>2, <4>3
    <3>2. QED
      BY <2>2, <3>1 DEF OwnedAreKnown
  <2>6. QED
    BY <2>4, <2>5
<1>3. CASE EndLoop
  <2>1. /\ LoadIndex' = LoadIndex /\ job' = job /\ wpc = "emit" /\ wpc' = "index"
        /\ p \in owned /\ disk[p] # Absent /\ ~edited /\ crashes = 0
    BY <1>3 DEF EndLoop, LoadIndex
  <2>2. QED
    BY <2>1 DEF OwnedAreKnown
<1>4. CASE WriteIndex
  <2>1. /\ index' = job.after /\ wpc = "index"
        /\ p \in owned /\ disk[p] # Absent /\ ~edited /\ crashes = 0
    BY <1>4 DEF WriteIndex
  <2>2. job.after \in [Paths -> Contents \cup {Absent}] /\ p \in Paths
    BY <2>1 DEF TypeOK, Generated
  <2>3. LoadIndex' = job.after
    BY <2>1, <2>2, ContentsAssumption DEF LoadIndex
  <2>4. RoundInv(p) /\ p \notin job.todo
    BY <2>1, <2>2 DEF WriterInv, LoopInv, RoundInv
  <2>5. job.after[p] # Absent
    BY <2>1, <2>2, <2>4 DEF OwnedAreKnown, RoundInv, Done
  <2>6. QED
    BY <2>3, <2>5
<1>5. CASE Crash
  <2>1. crashes' = crashes + 1 /\ crashes \in Nat
    BY <1>5 DEF Crash, TypeOK
  <2>2. QED
    BY <2>1
<1>6. CASE Edit
  BY <1>6 DEF Edit
<1>7. CASE UNCHANGED writerVars
  BY <1>7 DEF writerVars, OwnedAreKnown, LoadIndex
<1>8. QED
  BY <1>1, <1>2, <1>3, <1>4, <1>5, <1>6, <1>7 DEF WriterNext

(* Where nobody edits the directory and no write was ever cut short, no    *)
(* file of an earlier generation outlives a write that does not generate   *)
(* it.                                                                     *)
THEOREM OrphansGone == WriterSpec => []NoOrphans
<1>1. WriterInit => OwnedAreKnown
  BY DEF WriterInit, OwnedAreKnown
<1>2. TypeOK /\ WriterInv /\ OwnedAreKnown => NoOrphans
  <2> SUFFICES ASSUME TypeOK, WriterInv, OwnedAreKnown,
                      wpc = "idle", job.ended = "returned", ~edited, crashes = 0,
                      NEW p \in owned, disk[p] # Absent
               PROVE  job.after[p] # Absent
    BY DEF NoOrphans
  <2>1. index = job.after /\ job.after \in [Paths -> Contents \cup {Absent}]
    BY DEF WriterInv, AfterReturn, TypeOK, Generated
  <2>2. LoadIndex = job.after
    BY <2>1, ContentsAssumption DEF LoadIndex
  <2>3. QED
    BY <2>2 DEF OwnedAreKnown
<1>3. QED
  BY <1>1, <1>2, StepOwnedAreKnown, WriterTypes, WriterInvariant, PTL DEF WriterSpec

-----------------------------------------------------------------------------
(* The builds that use it.                                                 *)

(* A tuple is a sequence over any set that has its elements.               *)
LEMMA LiteralIsSeq ==
  ASSUME NEW s, NEW n \in Nat, NEW S, s = [i \in DOMAIN s |-> s[i]],
         DOMAIN s = 1..n, Range(s) \subseteq S
  PROVE  s \in Seq(S) /\ Len(s) = n
<1>1. s \in [1..n -> S]
  BY DEF Range
<1>2. s \in Seq(S)
  BY <1>1, SeqDef
<1>3. QED
  BY <1>2, LenProperties

(* The elements of a concatenation.                                        *)
LEMMA Joined ==
  ASSUME NEW S, NEW s \in Seq(S), NEW t \in Seq(S)
  PROVE  /\ s \o t \in Seq(S) /\ Len(s \o t) = Len(s) + Len(t)
         /\ \A i \in 1..Len(s) : (s \o t)[i] = s[i]
         /\ \A i \in Len(s) + 1 .. Len(s) + Len(t) : (s \o t)[i] = t[i - Len(s)]
<1>1. Len(s) \in Nat /\ Len(t) \in Nat
  BY LenProperties
<1>2. s \o t \in Seq(S) /\ Len(s \o t) = Len(s) + Len(t)
  BY ConcatProperties
<1>3. \A i \in 1 .. Len(s) + Len(t) :
        (s \o t)[i] = IF i <= Len(s) THEN s[i] ELSE t[i - Len(s)]
  BY ConcatProperties
<1>4. QED
  BY <1>1, <1>2, <1>3

(* The steps of a build, by number.                                        *)
LEMMA ScriptIs ==
  /\ \A i \in 1..11 : Script[i] = Stages[i]
  /\ Script[12] = "generated_app" /\ Script[13] = "index"
  /\ \A k \in 1..12 : Script[13 + k] = ArtifactNames[k]
  /\ Script[26] = "task_output" /\ Script[27] = "generation_run.json"
  /\ Script[28] = "build_manifest.json"
<1> DEFINE writer == <<"generated_app", "index">>
           last == <<"task_output", "generation_run.json", "build_manifest.json">>
           all == Range(Stages) \cup Range(writer) \cup Range(ArtifactNames)
                    \cup Range(last)
           upToWriter == Stages \o writer
           upToArtifacts == upToWriter \o ArtifactNames
<1>1. Stages \in Seq(all) /\ Len(Stages) = 11
  <2>1. Stages = [i \in DOMAIN Stages |-> Stages[i]] /\ DOMAIN Stages = 1..11
    BY DEF Stages
  <2>2. QED
    BY <2>1, LiteralIsSeq
<1>2. writer \in Seq(all) /\ Len(writer) = 2
  <2>1. writer = [i \in DOMAIN writer |-> writer[i]] /\ DOMAIN writer = 1..2
    OBVIOUS
  <2>2. QED
    BY <2>1, LiteralIsSeq
<1>3. ArtifactNames \in Seq(all) /\ Len(ArtifactNames) = 12
  <2>1. /\ ArtifactNames = [i \in DOMAIN ArtifactNames |-> ArtifactNames[i]]
        /\ DOMAIN ArtifactNames = 1..12
    BY DEF ArtifactNames
  <2>2. QED
    BY <2>1, LiteralIsSeq
<1>4. last \in Seq(all) /\ Len(last) = 3
  <2>1. last = [i \in DOMAIN last |-> last[i]] /\ DOMAIN last = 1..3
    OBVIOUS
  <2>2. QED
    BY <2>1, LiteralIsSeq
<1>5. Script = upToArtifacts \o last
  BY DEF Script
<1>6. /\ writer[1] = "generated_app" /\ writer[2] = "index"
      /\ last[1] = "task_output" /\ last[2] = "generation_run.json"
      /\ last[3] = "build_manifest.json"
  OBVIOUS
<1> HIDE DEF writer, last, all
<1>7. /\ upToWriter \in Seq(all) /\ Len(upToWriter) = 13
      /\ \A i \in 1..11 : upToWriter[i] = Stages[i]
      /\ \A i \in 12..13 : upToWriter[i] = writer[i - 11]
  <2>0. Stages \in Seq(all) /\ writer \in Seq(all)
    BY <1>1, <1>2
  <2>1. /\ Stages \o writer \in Seq(all) /\ Len(Stages \o writer) = Len(Stages) + Len(writer)
        /\ \A i \in 1..Len(Stages) : (Stages \o writer)[i] = Stages[i]
        /\ \A i \in Len(Stages) + 1 .. Len(Stages) + Len(writer) :
             (Stages \o writer)[i] = writer[i - Len(Stages)]
    BY <2>0, Joined
  <2>2. 1..Len(Stages) = 1..11 /\ Len(Stages) + 1 .. Len(Stages) + Len(writer) = 12..13
        /\ Len(Stages) + Len(writer) = 13
    BY <1>1, <1>2
  <2>3. \A i \in 12..13 : (Stages \o writer)[i] = writer[i - 11]
    BY <1>1, <1>2, <2>1, <2>2
  <2>4. \A i \in 1..11 : (Stages \o writer)[i] = Stages[i]
    BY <2>1, <2>2
  <2>5. QED
    BY <2>1, <2>2, <2>3, <2>4
<1> HIDE DEF upToWriter
<1>8. /\ upToArtifacts \in Seq(all) /\ Len(upToArtifacts) = 25
      /\ \A i \in 1..13 : upToArtifacts[i] = upToWriter[i]
      /\ \A i \in 14..25 : upToArtifacts[i] = ArtifactNames[i - 13]
  <2>0. upToWriter \in Seq(all) /\ ArtifactNames \in Seq(all)
    BY <1>3, <1>7
  <2>1. /\ upToWriter \o ArtifactNames \in Seq(all) /\ Len(upToWriter \o ArtifactNames) = Len(upToWriter) + Len(ArtifactNames)
        /\ \A i \in 1..Len(upToWriter) : (upToWriter \o ArtifactNames)[i] = upToWriter[i]
        /\ \A i \in Len(upToWriter) + 1 .. Len(upToWriter) + Len(ArtifactNames) :
             (upToWriter \o ArtifactNames)[i] = ArtifactNames[i - Len(upToWriter)]
    BY <2>0, Joined
  <2>2. 1..Len(upToWriter) = 1..13 /\ Len(upToWriter) + 1 .. Len(upToWriter) + Len(ArtifactNames) = 14..25
        /\ Len(upToWriter) + Len(ArtifactNames) = 25
    BY <1>3, <1>7
  <2>3. \A i \in 14..25 : (upToWriter \o ArtifactNames)[i] = ArtifactNames[i - 13]
    BY <1>3, <1>7, <2>1, <2>2
  <2>4. \A i \in 1..13 : (upToWriter \o ArtifactNames)[i] = upToWriter[i]
    BY <2>1, <2>2
  <2>5. QED
    BY <2>1, <2>2, <2>3, <2>4
<1> HIDE DEF upToArtifacts
<1>9. /\ \A i \in 1..25 : Script[i] = upToArtifacts[i]
      /\ \A i \in 26..28 : Script[i] = last[i - 25]
  <2>0. upToArtifacts \in Seq(all) /\ last \in Seq(all)
    BY <1>4, <1>8
  <2>1. /\ upToArtifacts \o last \in Seq(all) /\ Len(upToArtifacts \o last) = Len(upToArtifacts) + Len(last)
        /\ \A i \in 1..Len(upToArtifacts) : (upToArtifacts \o last)[i] = upToArtifacts[i]
        /\ \A i \in Len(upToArtifacts) + 1 .. Len(upToArtifacts) + Len(last) :
             (upToArtifacts \o last)[i] = last[i - Len(upToArtifacts)]
    BY <2>0, Joined
  <2>2. 1..Len(upToArtifacts) = 1..25 /\ Len(upToArtifacts) + 1 .. Len(upToArtifacts) + Len(last) = 26..28
        /\ Len(upToArtifacts) + Len(last) = 28
    BY <1>4, <1>8
  <2>3. \A i \in 26..28 : (upToArtifacts \o last)[i] = last[i - 25]
    BY <1>4, <1>8, <2>1, <2>2
  <2>4. \A i \in 1..25 : (upToArtifacts \o last)[i] = upToArtifacts[i]
    BY <2>1, <2>2
  <2>5. QED
    BY <2>1, <2>2, <2>3, <2>4, <1>5
<1>10. ASSUME NEW i \in 1..11 PROVE Script[i] = Stages[i]
  <2>1. i \in 1..13 /\ i \in 1..25
    OBVIOUS
  <2>2. QED
    BY <1>7, <1>8, <1>9, <2>1
<1>11. Script[12] = writer[1] /\ Script[13] = writer[2]
  <2>1. 12 \in 1..25 /\ 13 \in 1..25 /\ 12 \in 1..13 /\ 13 \in 1..13
    OBVIOUS
  <2>2. Script[12] = upToArtifacts[12] /\ Script[13] = upToArtifacts[13]
    BY <1>9, <2>1
  <2>3. upToArtifacts[12] = upToWriter[12] /\ upToArtifacts[13] = upToWriter[13]
    BY <1>8, <2>1
  <2>4. upToWriter[12] = writer[12 - 11] /\ upToWriter[13] = writer[13 - 11]
    <3>1. 12 \in 12..13 /\ 13 \in 12..13
      OBVIOUS
    <3>2. QED
      BY <1>7, <3>1
  <2>5. 12 - 11 = 1 /\ 13 - 11 = 2
    OBVIOUS
  <2>6. QED
    BY <2>2, <2>3, <2>4, <2>5
<1>12. ASSUME NEW k \in 1..12 PROVE Script[13 + k] = ArtifactNames[k]
  <2>1. 13 + k \in 1..25 /\ 13 + k \in 14..25 /\ (13 + k) - 13 = k
    OBVIOUS
  <2>2. QED
    BY <1>8, <1>9, <2>1
<1>13. Script[26] = last[1] /\ Script[27] = last[2] /\ Script[28] = last[3]
  BY <1>9
<1>14. QED
  BY <1>6, <1>10, <1>11, <1>12, <1>13

(* The names of the stages and of the artifacts are all different, and     *)
(* different from those of the other steps.                                *)
LEMMA StageNamesAre ==
  /\ StageNames = {"requirements", "foundation", "architecture", "capabilities",
                   "negotiation", "canonical_semantic_context", "sml",
                   "semantic_conformance", "sir_and_target_generation",
                   "dependency_graph", "certification"}
  /\ \A i \in 1..11 : Stages[i] \in StageNames
  /\ \A i \in 1..11 : Stages[i] = "sir_and_target_generation" <=> i = 9
<1>1. DOMAIN Stages = 1..11
  BY DEF Stages
<1>2. /\ Stages[1] = "requirements" /\ Stages[2] = "foundation"
      /\ Stages[3] = "architecture" /\ Stages[4] = "capabilities"
      /\ Stages[5] = "negotiation" /\ Stages[6] = "canonical_semantic_context"
      /\ Stages[7] = "sml" /\ Stages[8] = "semantic_conformance"
      /\ Stages[9] = "sir_and_target_generation"
      /\ Stages[10] = "dependency_graph" /\ Stages[11] = "certification"
  BY DEF Stages
<1> HIDE DEF Stages
<1>3. \A i \in 1..11 : i = 1 \/ i = 2 \/ i = 3 \/ i = 4 \/ i = 5 \/ i = 6 \/ i = 7
                         \/ i = 8 \/ i = 9 \/ i = 10 \/ i = 11
  OBVIOUS
<1>4. QED
  BY <1>1, <1>2, <1>3 DEF StageNames

(* The artifacts, by name and by number; no two have one name.             *)
LEMMA ArtifactNamesAre ==
  /\ ArtifactSet = {"requirements_ir.json", "foundation_plan.json",
       "architecture_plan.json", "capability_composition.json",
       "capability_negotiation.json", "canonical_semantic_context.json",
       "project.sml.md", "semantic_conformance.json", "sir.json",
       "dependency_graph.json", "artifact_diff.json", "certification_report.json"}
  /\ \A k \in 1..12 : ArtifactNames[k] \in ArtifactSet
  /\ \A name \in ArtifactSet : \E k \in 1..12 : ArtifactNames[k] = name
  /\ \A i, k \in 1..12 : ArtifactNames[i] = ArtifactNames[k] => i = k
<1>1. DOMAIN ArtifactNames = 1..12
  BY DEF ArtifactNames
<1>2. /\ ArtifactNames[1] = "requirements_ir.json"
      /\ ArtifactNames[2] = "foundation_plan.json"
      /\ ArtifactNames[3] = "architecture_plan.json"
      /\ ArtifactNames[4] = "capability_composition.json"
      /\ ArtifactNames[5] = "capability_negotiation.json"
      /\ ArtifactNames[6] = "canonical_semantic_context.json"
      /\ ArtifactNames[7] = "project.sml.md"
      /\ ArtifactNames[8] = "semantic_conformance.json"
      /\ ArtifactNames[9] = "sir.json"
      /\ ArtifactNames[10] = "dependency_graph.json"
      /\ ArtifactNames[11] = "artifact_diff.json"
      /\ ArtifactNames[12] = "certification_report.json"
  BY DEF ArtifactNames
<1>3. \A i \in 1..12 : i = 1 \/ i = 2 \/ i = 3 \/ i = 4 \/ i = 5 \/ i = 6 \/ i = 7
                         \/ i = 8 \/ i = 9 \/ i = 10 \/ i = 11 \/ i = 12
  OBVIOUS
<1>4. QED
  BY <1>1, <1>2, <1>3 DEF ArtifactSet

(* Where a build is, by the number of its step.                            *)
LEMMA Places ==
  ASSUME step \in 0..28
  PROVE  /\ Running <=> step \in 1..28
         /\ AtStage <=> step \in 1..11
         /\ At("sir_and_target_generation") <=> step = 9
         /\ At("generated_app") <=> step = 12
         /\ At("index") <=> step = 13
         /\ AtArtifact <=> step \in 14..25
         /\ At("task_output") <=> step = 26
         /\ At("generation_run.json") <=> step = 27
         /\ At("build_manifest.json") <=> step = 28
         /\ step \in 1..11 => Script[step] = Stages[step]
         /\ step \in 14..25 => step - 13 \in 1..12 /\ Script[step] = ArtifactNames[step - 13]
<1>1. CASE step = 0
  BY <1>1 DEF Running, At, AtStage, AtArtifact
<1>2. CASE step \in 1..11
  <2>1. Script[step] = Stages[step] /\ Stages[step] \in StageNames
        /\ (Stages[step] = "sir_and_target_generation" <=> step = 9)
    BY <1>2, ScriptIs, StageNamesAre
  <2>2. QED
    BY <1>2, <2>1, StageNamesAre, ArtifactNamesAre DEF Running, At, AtStage, AtArtifact
<1>3. CASE step \in 14..25
  <2>1. step - 13 \in 1..12 /\ step = 13 + (step - 13)
    BY <1>3
  <2>2. Script[step] = ArtifactNames[step - 13] /\ ArtifactNames[step - 13] \in ArtifactSet
    BY <2>1, ScriptIs, ArtifactNamesAre
  <2>3. QED
    BY <1>3, <2>1, <2>2, StageNamesAre, ArtifactNamesAre
       DEF Running, At, AtStage, AtArtifact
<1>4. CASE step \in {12, 13, 26, 27, 28}
  BY <1>4, ScriptIs, StageNamesAre, ArtifactNamesAre DEF Running, At, AtStage, AtArtifact
<1>5. QED
  BY <1>1, <1>2, <1>3, <1>4

-----------------------------------------------------------------------------
(* The step and the request of a build, which the other invariants need.   *)
BuildBasics == step \in 0..28 /\ RequestOK /\ RequestInv

(* The basics hold in a new directory.                                     *)
LEMMA InitBasics == Init => BuildBasics
BY DEF Init, BuildBasics, RequestOK, RequestInv, Running

(* A running build was asked for, and has what is made of its prompt.      *)
LEMMA RunningIsAsked ==
  ASSUME BuildBasics, Running
  PROVE  /\ step \in 1..28 /\ request \in Asked /\ request.prompt \in Prompts
         /\ request.id \in Nat \ {0} /\ request.next \in Nat
         /\ made = Made[request.prompt] /\ made \in Making
<1>1. request # NoRequest
  BY DEF BuildBasics, RequestInv, NoRequest
<1>2. request \in Asked /\ request.made = Made[request.prompt]
  BY <1>1 DEF BuildBasics, RequestOK
<1>3. QED
  BY <1>2 DEF BuildBasics, Running, Asked, made

(* Where the steps of a build are possible.                                *)
LEMMA StepsArePlaced ==
  ASSUME BuildBasics
  PROVE  /\ (\E r \in Requests : Ask(r[1], r[2])) => step = 0 /\ step' = 1
         /\ RunStage => step \in 1..11 /\ step' = step + 1
         /\ RaiseNonconformant \/ RejectBlocked \/ CompileFails => step = 9 /\ step' = 0
         /\ EnterWriter => step = 12 /\ step' = 13
         /\ WriterGoesOn => step = 13 /\ step' = 13
         /\ LeaveWriter => step = 13 /\ step' = 14
         /\ WriteArtifact => step \in 14..25 /\ step' = step + 1
         /\ SetTaskOutput => step = 26 /\ step' = 27
         /\ WriteRecord => step = 27 /\ step' = 28
         /\ WriteManifest => step = 28 /\ step' = 0
         /\ Kill => step \in 1..28 /\ step' = 0
         /\ Tinker => step = 0 /\ step' = 0
         /\ Finished \/ UNCHANGED vars => step' = step
<1> step \in 0..28
  BY DEF BuildBasics
<1>1. (\E r \in Requests : Ask(r[1], r[2])) => step = 0 /\ step' = 1
  BY DEF Ask, Running
<1>2. RunStage => step \in 1..11 /\ step' = step + 1
  BY Places DEF RunStage, Advanced
<1>3. RaiseNonconformant \/ RejectBlocked \/ CompileFails => step = 9 /\ step' = 0
  BY Places DEF RaiseNonconformant, RejectBlocked, CompileFails, StopsHere, Ended
<1>4. /\ EnterWriter => step = 12 /\ step' = 13
      /\ WriterGoesOn => step = 13 /\ step' = 13
      /\ LeaveWriter => step = 13 /\ step' = 14
  BY Places DEF EnterWriter, WriterGoesOn, LeaveWriter, Advanced, buildVars
<1>5. WriteArtifact => step \in 14..25 /\ step' = step + 1
  BY Places DEF WriteArtifact, Advanced
<1>6. /\ SetTaskOutput => step = 26 /\ step' = 27
      /\ WriteRecord => step = 27 /\ step' = 28
      /\ WriteManifest => step = 28 /\ step' = 0
  <2>1. SetTaskOutput => step = 26 /\ step' = 27
    BY Places DEF SetTaskOutput, Advanced
  <2>2. WriteRecord => step = 27 /\ step' = 28
    BY Places DEF WriteRecord, Advanced
  <2>3. WriteManifest => step = 28 /\ step' = 0
    BY Places DEF WriteManifest, Ended
  <2>4. QED
    BY <2>1, <2>2, <2>3
<1>7. Kill => step \in 1..28 /\ step' = 0
  BY Places DEF Kill, Ended
<1>8. /\ Tinker => step = 0 /\ step' = 0
      /\ Finished \/ UNCHANGED vars => step' = step
  BY DEF Tinker, Running, Finished, vars, buildVars
<1>9. QED
  BY <1>1, <1>2, <1>3, <1>4, <1>5, <1>6, <1>7, <1>8

(* What a step does to the request: a new one, the number of the next span,*)
(* or nothing.                                                             *)
LEMMA StepsAndRequests ==
  ASSUME [Next]_vars
  PROVE  \/ \E r \in Requests : Ask(r[1], r[2])
         \/ (RunStage \/ CompileFails) /\ request' = [request EXCEPT !.next = @ + 1]
         \/ ~(RunStage \/ CompileFails) /\ request' = request
BY DEF Next, Build, Ask, RunStage, CompileFails, Recorded, RaiseNonconformant,
       RejectBlocked, EnterWriter, WriterGoesOn, LeaveWriter, WriteArtifact,
       SetTaskOutput, WriteRecord, WriteManifest, Kill, Tinker, Finished, vars, buildVars

(* Every step of a build keeps its place, its request and what is made of  *)
(* it.                                                                     *)
LEMMA StepBasics == BuildBasics /\ [Next]_vars => BuildBasics'
<1> SUFFICES ASSUME BuildBasics, [Next]_vars PROVE BuildBasics'
  OBVIOUS
<1>1. step' \in 0..28
  BY StepsArePlaced DEF Next, Build, BuildBasics
<1>2. CASE \E r \in Requests : Ask(r[1], r[2])
  <2>1. PICK r \in Requests : Ask(r[1], r[2])
    BY <1>2
  <2>2. r[1] \in Prompts /\ r[2] \in BOOLEAN
    BY RequestsAssumption
  <2>3. request.id \in Nat
    BY DEF BuildBasics, RequestOK, NoRequest, Asked
  <2>4. request' = [prompt |-> r[1], made |-> Made[r[1]], partial |-> r[2],
                    id |-> request.id + 1, next |-> 1]
    BY <2>1 DEF Ask
  <2>5. Made[r[1]] \in Making
    BY <2>2, MadeAssumption
  <2>6. request' \in Asked /\ request'.made = Made[request'.prompt] /\ request'.id # 0
    BY <2>2, <2>3, <2>4, <2>5 DEF Asked
  <2>7. QED
    BY <1>1, <2>6 DEF BuildBasics, RequestOK, RequestInv
<1>3. CASE (RunStage \/ CompileFails) /\ request' = [request EXCEPT !.next = @ + 1]
  <2>1. Running
    BY <1>3, StepsArePlaced DEF Running
  <2>2. request \in Asked /\ made = Made[request.prompt]
    BY <2>1, RunningIsAsked
  <2>3. request' \in Asked /\ request'.made = Made[request'.prompt] /\ request'.id # 0
    BY <1>3, <2>2 DEF Asked, made
  <2>4. QED
    BY <1>1, <2>3 DEF BuildBasics, RequestOK, RequestInv
<1>4. CASE request' = request /\ ~(\E r \in Requests : Ask(r[1], r[2]))
  <2>1. Running' => Running
    BY <1>4, StepsArePlaced DEF Running, Next, Build
  <2>2. QED
    BY <1>1, <1>4, <2>1 DEF BuildBasics, RequestOK, RequestInv
<1>5. QED
  BY <1>2, <1>3, <1>4, StepsAndRequests

(* What a step of a build does to the generated files is a step of the     *)
(* writer, or nothing.                                                     *)
LEMMA StepIsWriters == BuildBasics /\ [Next]_vars => [WriterNext]_writerVars
<1> SUFFICES ASSUME BuildBasics, [Next]_vars
             PROVE  WriterNext \/ UNCHANGED writerVars
  OBVIOUS
<1>1. CASE \E r \in Requests : Ask(r[1], r[2])
  BY <1>1 DEF Ask
<1>2. CASE RunStage \/ RaiseNonconformant \/ RejectBlocked \/ CompileFails
  BY <1>2 DEF RunStage, RaiseNonconformant, RejectBlocked, CompileFails
<1>3. CASE EnterWriter
  <2>1. Running
    BY <1>3 DEF EnterWriter, At
  <2>2. made.tree \in Generated
    BY <2>1, RunningIsAsked DEF Making
  <2>3. QED
    BY <1>3, <2>2 DEF EnterWriter, WriterNext, Begin
<1>4. CASE WriterGoesOn \/ LeaveWriter
  BY <1>4 DEF WriterGoesOn, LeaveWriter, WriterNext
<1>5. CASE WriteArtifact \/ SetTaskOutput \/ WriteRecord \/ WriteManifest
  BY <1>5 DEF WriteArtifact, SetTaskOutput, WriteRecord, WriteManifest
<1>6. CASE Kill
  BY <1>6 DEF Kill, WriterNext
<1>7. CASE Tinker
  BY <1>7 DEF Tinker, WriterNext
<1>8. CASE UNCHANGED vars \/ Finished
  BY <1>8 DEF Finished, vars
<1>9. QED
  BY <1>1, <1>2, <1>3, <1>4, <1>5, <1>6, <1>7, <1>8 DEF Next, Build

(* Every behaviour of builds in one directory is, as far as the generated  *)
(* files are concerned, a behaviour of the incremental writer.             *)
THEOREM OfflineRunsWriter == Spec => WriterSpec
<1>1. Init => WriterInit
  BY DEF Init
<1>2. QED
  BY <1>1, InitBasics, StepBasics, StepIsWriters, PTL DEF Spec, WriterSpec

(* A build that gets to the end of the writer's loop has the generated     *)
(* files of its own document on disk, whatever earlier builds, kills and   *)
(* users have left there.                                                  *)
THEOREM OfflineConverges == Spec => []WriteConverges
<1>1. QED
  BY OfflineRunsWriter, Converges, PTL

(* No build touches a file that the compiler never made.                   *)
THEOREM OfflineStrangers == Spec => StrangersUntouched
<1>1. QED
  BY OfflineRunsWriter, StrangersSafe, PTL

(* Builds that nobody disturbs leave no file of an earlier build behind.   *)
THEOREM OfflineOrphans == Spec => []NoOrphans
<1>1. QED
  BY OfflineRunsWriter, OrphansGone, PTL

(* An offline build that repeats the last one has no file to write: the    *)
(* hashes of what stands are those of what it would generate.              *)
THEOREM OfflineIdle == Spec => []RewriteIsIdle
<1>1. QED
  BY OfflineRunsWriter, RewriteIdle, PTL

-----------------------------------------------------------------------------
(* A stage reads what an earlier stage of its build has made, the prompt,  *)
(* or a number.                                                            *)
LEMMA InputIsGiven ==
  ASSUME BuildBasics, step \in 1..11
  PROVE  /\ InputOf(Script[step]) = GivenTo(request.prompt, step)
         /\ InputOf(Script[step]) \in Values
         /\ Script[step] = Stages[step] /\ Stages[step] \in StageNames
         /\ made.output[Stages[step]] \in Prompts
<1>1. Running
  BY DEF Running
<1>2. /\ request.prompt \in Prompts /\ made = Made[request.prompt]
      /\ made.output \in [StageNames \cup ArtifactSet -> Prompts] /\ made.count \in Nat
  BY <1>1, RunningIsAsked DEF Making
<1>3. Script[step] = Stages[step] /\ Stages[step] \in StageNames
  BY ScriptIs, StageNamesAre
<1>4. /\ Stages[1] = "requirements" /\ Stages[2] = "foundation"
      /\ Stages[3] = "architecture" /\ Stages[4] = "capabilities"
      /\ Stages[5] = "negotiation" /\ Stages[6] = "canonical_semantic_context"
      /\ Stages[7] = "sml" /\ Stages[8] = "semantic_conformance"
      /\ Stages[9] = "sir_and_target_generation"
      /\ Stages[10] = "dependency_graph" /\ Stages[11] = "certification"
  BY DEF Stages
<1>5. step = 1 \/ step = 2 \/ step = 3 \/ step = 4 \/ step = 5 \/ step = 6
        \/ step = 7 \/ step = 8 \/ step = 9 \/ step = 10 \/ step = 11
  OBVIOUS
<1>6. Prompts \subseteq Values /\ Nat \subseteq Values
  BY DEF Values
<1>7. made.output[Stages[step]] \in Prompts
  BY <1>2, <1>3
<1> HIDE DEF Stages
<1>8. CASE step \in {1, 2, 3}
  BY <1>2, <1>3, <1>4, <1>6, <1>7, <1>8, StageNamesAre DEF InputOf, GivenTo
<1>9. CASE step \in {4, 5, 6}
  <2>1. step - 1 \in 1..11
    BY <1>9
  <2>2. Stages[step - 1] \in StageNames
    BY <2>1, StageNamesAre
  <2>3. InputOf(Script[step]) = made.output[Stages[step - 1]]
    BY <1>3, <1>4, <1>9 DEF InputOf
  <2>4. GivenTo(request.prompt, step) = made.output[Stages[step - 1]]
    BY <1>2, <1>9 DEF GivenTo
  <2>5. QED
    BY <1>2, <1>3, <1>6, <1>7, <2>2, <2>3, <2>4
<1>10. CASE step \in {7, 8, 9}
  BY <1>2, <1>3, <1>4, <1>6, <1>7, <1>10, StageNamesAre DEF InputOf, GivenTo
<1>11. CASE step \in {10, 11}
  BY <1>2, <1>3, <1>4, <1>6, <1>7, <1>11, StageNamesAre DEF InputOf, GivenTo
<1>12. QED
  BY <1>5, <1>8, <1>9, <1>10, <1>11

(* The lines a build writes are lines of a trace.                          *)
LEMMA LinesAreLines ==
  ASSUME BuildBasics, Running
  PROVE  /\ TornLine \in Line
         /\ \A status \in Statuses : TaskOutput(request.id, status) \in Line
         /\ step \in 1..11 =>
              \A output \in Values, failed \in BOOLEAN :
                Span(request.id, request.next, Script[step], InputOf(Script[step]),
                     output, failed) \in Line
<1>1. request.id \in Nat /\ request.next \in Nat
  BY RunningIsAsked
<1>2. TornLine \in Line
  BY DEF Line
<1>3. ASSUME NEW status \in Statuses PROVE TaskOutput(request.id, status) \in Line
  <2>1. TaskOutput(request.id, status)
          \in [t : {"task_output"}, trace : Nat, status : Statuses]
    BY <1>1 DEF TaskOutput
  <2>2. QED
    BY <2>1 DEF Line
<1>4. ASSUME step \in 1..11, NEW output \in Values, NEW failed \in BOOLEAN
      PROVE  Span(request.id, request.next, Script[step], InputOf(Script[step]),
                  output, failed) \in Line
  <2>1. Script[step] \in StageNames /\ InputOf(Script[step]) \in Values
    BY <1>4, InputIsGiven
  <2>2. Span(request.id, request.next, Script[step], InputOf(Script[step]), output, failed)
          \in [t : {"span"}, trace : Nat, span : Nat, parent : {0}, name : StageNames,
               input : Values, output : Values, failed : BOOLEAN]
    BY <1>1, <1>4, <2>1 DEF Span
  <2>3. QED
    BY <2>2 DEF Line
<1>5. QED
  BY <1>2, <1>3, <1>4

(* A diff says of some paths how they have changed.                        *)
LEMMA DiffIsDiff ==
  ASSUME TypeOK
  PROVE  Diff \in Diffs
<1>1. Concerned \in SUBSET Paths
  BY DEF Concerned, Listed
<1>2. ASSUME NEW p \in Concerned PROVE ChangeOf(p) \in Changes
  <2>1. ChangeOf(p) \in {"added", "removed", "modified", "unchanged"}
    BY DEF ChangeOf
  <2>2. QED
    BY <2>1 DEF Changes
<1>3. Diff \in [Concerned -> Changes]
  BY <1>2 DEF Diff
<1>4. QED
  BY <1>1, <1>3 DEF Diffs

(* What a hash of the directory sees.                                      *)
LEMMA SeenIsDirectory == BuildTypes => Seen \in Directory
BY DEF BuildTypes, TypeOK, Seen, Directory

(* The types hold in a new directory.                                      *)
LEMMA InitTypes == Init => BuildTypes
<1> SUFFICES ASSUME Init PROVE BuildTypes
  OBVIOUS
<1>1. TypeOK
  BY InitTypeOK DEF Init
<1>2. step \in 0..28 /\ RequestOK
  BY InitBasics DEF BuildBasics
<1>3. trace \in Seq(Line) /\ former \in Seq(Line)
  BY DEF Init
<1>4. artifacts \in Artifacts
  BY DEF Init, Artifacts
<1>5. kills \in Nat
  BY DEF Init
<1>6. record = Absent /\ manifest = Absent
  BY DEF Init
<1>7. QED
  BY <1>1, <1>2, <1>3, <1>4, <1>5, <1>6 DEF BuildTypes

(* Every step keeps the types.                                             *)
LEMMA StepTypes ==
  BuildBasics /\ BuildTypes /\ [Next]_vars => BuildTypes'
<1> SUFFICES ASSUME BuildBasics, BuildTypes, [Next]_vars PROVE BuildTypes'
  OBVIOUS
<1> DEFINE Manifests == [seen : Directory, record : RunRecord \cup {Absent, Torn}]
                          \cup {Absent, Torn}
           Records == RunRecord \cup {Absent, Torn}
<1>1. TypeOK'
  <2>1. [WriterNext]_writerVars /\ TypeOK
    BY StepIsWriters DEF BuildTypes
  <2>2. QED
    BY <2>1, StepTypeOK
<1>2. step' \in 0..28 /\ RequestOK'
  BY StepBasics DEF BuildBasics
<1>3. /\ trace \in Seq(Line) /\ former \in Seq(Line) /\ artifacts \in Artifacts
      /\ record \in Records /\ manifest \in Manifests /\ kills \in Nat
  BY DEF BuildTypes
<1> SUFFICES /\ trace' \in Seq(Line) /\ former' \in Seq(Line) /\ artifacts' \in Artifacts
             /\ record' \in Records /\ manifest' \in Manifests /\ kills' \in Nat
  BY <1>1, <1>2 DEF BuildTypes
<1>4. CASE \E r \in Requests : Ask(r[1], r[2])
  <2>1. PICK r \in Requests : Ask(r[1], r[2])
    BY <1>4
  <2>2. request'.id \in Nat /\ r[1] \in Prompts
    BY <2>1, StepBasics, RequestsAssumption
       DEF BuildBasics, RequestOK, NoRequest, Asked
  <2>3. Header(request'.id, r[1]) \in [t : {"header"}, trace : Nat, input : Prompts]
    BY <2>2 DEF Header
  <2>4. Header(request'.id, r[1]) \in Line
    BY <2>3 DEF Line
  <2>5. <<Header(request'.id, r[1])>> \in Seq(Line)
    BY <2>4
  <2>6. QED
    BY <1>3, <2>1, <2>5 DEF Ask
<1>5. CASE RunStage
  <2>1. Running /\ step \in 1..11
    BY <1>5, StepsArePlaced DEF Running
  <2>2. Span(request.id, request.next, Script[step], InputOf(Script[step]),
             made.output[Script[step]], FALSE) \in Line
    BY <2>1, LinesAreLines, InputIsGiven DEF Values
  <2>3. PICK line \in Line : trace' = Append(trace, line)
    BY <1>5, <2>2 DEF RunStage, Recorded
  <2>4. trace' \in Seq(Line)
    BY <1>3, <2>3
  <2>5. QED
    BY <1>3, <1>5, <2>4 DEF RunStage
<1>6. CASE RaiseNonconformant
  BY <1>3, <1>6 DEF RaiseNonconformant
<1>7. CASE RejectBlocked
  <2>1. Running
    BY <1>7, StepsArePlaced DEF Running
  <2>2. "REJECTED" \in Statuses
    BY DEF Statuses
  <2>3. TaskOutput(request.id, "REJECTED") \in Line
    BY <2>1, <2>2, LinesAreLines
  <2>4. QED
    BY <1>3, <1>7, <2>3 DEF RejectBlocked
<1>8. CASE CompileFails
  <2>1. Running /\ step \in 1..11
    BY <1>8, StepsArePlaced DEF Running
  <2>2. Script[step] = "sir_and_target_generation"
    BY <1>8 DEF CompileFails, At
  <2>3. Span(request.id, request.next, Script[step], InputOf(Script[step]), 0, TRUE) \in Line
    BY <2>1, LinesAreLines DEF Values
  <2>4. PICK line \in Line : trace' = Append(trace, line)
    BY <1>8, <2>2, <2>3 DEF CompileFails, Recorded
  <2>5. trace' \in Seq(Line)
    BY <1>3, <2>4
  <2>6. QED
    BY <1>3, <1>8, <2>5 DEF CompileFails
<1>9. CASE EnterWriter \/ WriterGoesOn \/ LeaveWriter
  BY <1>3, <1>9 DEF EnterWriter, WriterGoesOn, LeaveWriter, buildVars
<1>10. CASE WriteArtifact
  <2>1. Running /\ step \in 14..25
    BY <1>10, StepsArePlaced DEF Running
  <2>2. Script[step] \in ArtifactSet
    BY <1>10 DEF WriteArtifact, AtArtifact
  <2>3. made.output[Script[step]] \in Prompts
    BY <2>1, <2>2, RunningIsAsked DEF Making
  <2>4. Diff \in Diffs
    BY DiffIsDiff DEF BuildTypes
  <2>5. artifacts' \in Artifacts
    BY <1>3, <1>10, <2>2, <2>3, <2>4 DEF WriteArtifact, Artifacts
  <2>6. QED
    BY <1>3, <1>10, <2>5 DEF WriteArtifact
<1>11. CASE SetTaskOutput
  <2>1. Running
    BY <1>11, StepsArePlaced DEF Running
  <2>2. made.status \in Statuses
    BY <2>1, RunningIsAsked DEF Making
  <2>3. TaskOutput(request.id, made.status) \in Line
    BY <2>1, <2>2, LinesAreLines
  <2>4. QED
    BY <1>3, <1>11, <2>3 DEF SetTaskOutput
<1>12. CASE WriteRecord
  <2>1. Running
    BY <1>12, StepsArePlaced DEF Running
  <2>2. made.status \in Statuses /\ request.prompt \in Prompts /\ request.id \in Nat
    BY <2>1, RunningIsAsked DEF Making
  <2>3. record' \in RunRecord
    BY <1>12, <2>2, SeenIsDirectory DEF WriteRecord, RunRecord
  <2>4. QED
    BY <1>3, <1>12, <2>3 DEF WriteRecord
<1>13. CASE WriteManifest
  <2>1. manifest' \in Manifests
    BY <1>3, <1>13, SeenIsDirectory DEF WriteManifest
  <2>2. QED
    BY <1>3, <1>13, <2>1 DEF WriteManifest
<1>14. CASE Kill
  <2>1. Running
    BY <1>14 DEF Kill
  <2>2. TornLine \in Line
    BY <2>1, LinesAreLines
  <2>3. <<>> \in Seq(Line) /\ <<TornLine>> \in Seq(Line)
        /\ Append(trace, TornLine) \in Seq(Line)
    BY <1>3, <2>2
  <2>4. trace' \in {trace, <<>>, <<TornLine>>, Append(trace, TornLine)}
    BY <1>14 DEF Kill, TearTrace, TearHeader, TearArtifact, TearRecord, TearManifest
  <2>5. artifacts' \in Artifacts
    BY <1>3, <1>14 DEF Kill, TearTrace, TearHeader, TearArtifact, TearRecord,
                       TearManifest, Artifacts
  <2>6. record' \in Records /\ manifest' \in Manifests
    BY <1>3, <1>14 DEF Kill, TearTrace, TearHeader, TearArtifact, TearRecord, TearManifest
  <2>7. trace' \in Seq(Line)
    BY <1>3, <2>3, <2>4
  <2>8. former' \in Seq(Line) /\ kills' \in Nat
    BY <1>3, <1>14 DEF Kill
  <2>9. QED
    BY <2>5, <2>6, <2>7, <2>8
<1>15. CASE Tinker \/ Finished \/ UNCHANGED vars
  BY <1>3, <1>15 DEF Tinker, Finished, vars, buildVars
<1>16. QED
  BY <1>4, <1>5, <1>6, <1>7, <1>8, <1>9, <1>10, <1>11, <1>12, <1>13, <1>14, <1>15
     DEF Next, Build

(* The step and the request of a build hold together at all times.         *)
THEOREM Basics == Spec => []BuildBasics
<1>1. QED
  BY InitBasics, StepBasics, PTL DEF Spec

(* The locals of a build, its trace, its artifacts, its record and its     *)
(* manifest keep their types.                                              *)
THEOREM OfflineTypes == Spec => []BuildTypes
<1>1. QED
  BY InitTypes, StepTypes, Basics, PTL DEF Spec

-----------------------------------------------------------------------------
(* Only a new request changes what is made of the prompt.                  *)
LEMMA MadeStays ==
  ASSUME BuildBasics, [Next]_vars
  PROVE  \/ \E r \in Requests : Ask(r[1], r[2])
         \/ /\ request'.prompt = request.prompt /\ made' = made
            /\ request'.id = request.id /\ request'.partial = request.partial
            /\ Running' => Running
<1>1. CASE ~(\E r \in Requests : Ask(r[1], r[2]))
  <2>1. Running' => Running
    BY <1>1, StepsArePlaced DEF Running, Next, Build
  <2>2. CASE (RunStage \/ CompileFails) /\ request' = [request EXCEPT !.next = @ + 1]
    <3>1. Running
      BY <2>2, StepsArePlaced DEF Running
    <3>2. request \in Asked
      BY <3>1, RunningIsAsked
    <3>3. QED
      BY <2>1, <2>2, <3>2 DEF Asked, made
  <2>3. CASE request' = request
    BY <2>1, <2>3 DEF made
  <2>4. QED
    BY <1>1, <2>2, <2>3, StepsAndRequests
<1>2. QED
  BY <1>1

(* A hopeless build does not get past the compilation.                     *)
LEMMA StepHopeless == BuildBasics /\ HopelessInv /\ [Next]_vars => HopelessInv'
<1> SUFFICES ASSUME BuildBasics, HopelessInv, [Next]_vars, Hopeless'
             PROVE  step' \in 1..9
  BY DEF HopelessInv
<1>1. CASE \E r \in Requests : Ask(r[1], r[2])
  BY <1>1, StepsArePlaced
<1>2. CASE ~(\E r \in Requests : Ask(r[1], r[2]))
  <2>1. Running' /\ Running /\ Hopeless /\ step \in 1..9
    BY <1>2, MadeStays DEF Hopeless, HopelessInv
  <2>2. RunStage => step # 9
    <3> SUFFICES ASSUME RunStage, step = 9 PROVE FALSE
      OBVIOUS
    <3>1. At("sir_and_target_generation")
      BY Places DEF BuildBasics
    <3>2. QED
      BY <2>1, <3>1 DEF RunStage, StopsHere, Hopeless
  <2>3. step' # 0
    BY <2>1 DEF Running
  <2>4. QED
    BY <1>2, <2>1, <2>2, <2>3, StepsArePlaced DEF Next, Build
<1>3. QED
  BY <1>1, <1>2

(* The writer is at work exactly in its own step.                          *)
LEMMA StepWriterPlace ==
  BuildBasics /\ TypeOK /\ WriterPlace /\ [Next]_vars => WriterPlace'
<1> SUFFICES ASSUME BuildBasics, TypeOK, WriterPlace, [Next]_vars PROVE WriterPlace'
  OBVIOUS
<1>1. CASE \E r \in Requests : Ask(r[1], r[2])
  <2>1. step = 0 /\ step' = 1 /\ UNCHANGED writerVars
    BY <1>1, StepsArePlaced DEF Ask
  <2>2. QED
    BY <2>1 DEF WriterPlace, writerVars
<1>2. CASE RunStage \/ RaiseNonconformant \/ RejectBlocked \/ CompileFails
  <2>1. step \in 1..11 /\ step' \in 0..12
    BY <1>2, StepsArePlaced
  <2>2. UNCHANGED writerVars
    BY <1>2 DEF RunStage, RaiseNonconformant, RejectBlocked, CompileFails
  <2>3. QED
    BY <2>1, <2>2 DEF WriterPlace, writerVars
<1>3. CASE EnterWriter
  <2>1. step = 12 /\ step' = 13 /\ wpc' = "emit" /\ job'.after = made.tree /\ made' = made
    BY <1>3, StepsArePlaced DEF EnterWriter, BeginWith, made
  <2>2. QED
    BY <2>1 DEF WriterPlace
<1>4. CASE WriterGoesOn
  <2>1. step = 13 /\ step' = 13 /\ made' = made /\ job'.after = job.after /\ wpc' # "idle"
    BY <1>4, StepsArePlaced
       DEF WriterGoesOn, Emit, Advance, EndLoop, buildVars, made, TypeOK
  <2>2. QED
    BY <2>1 DEF WriterPlace
<1>5. CASE LeaveWriter
  <2>1. /\ step = 13 /\ step' = 14 /\ made' = made /\ job'.after = job.after
        /\ wpc' = "idle" /\ job'.ended = "returned"
    BY <1>5, StepsArePlaced DEF LeaveWriter, WriteIndex, made, TypeOK
  <2>2. QED
    BY <2>1 DEF WriterPlace
<1>6. CASE WriteArtifact \/ SetTaskOutput \/ WriteRecord \/ WriteManifest
  <2>1. /\ step \in 14..28 /\ step' \in {0} \cup 15..28 /\ made' = made
        /\ UNCHANGED writerVars
    BY <1>6, StepsArePlaced, SMTT(30) DEF WriteArtifact, SetTaskOutput, WriteRecord, WriteManifest, made
  <2>2. QED
    BY <2>1 DEF WriterPlace, writerVars
<1>7. CASE Kill
  <2>1. step' = 0 /\ (wpc' = "idle" \/ (step # 13 /\ wpc' = wpc))
    BY <1>7, StepsArePlaced, Places DEF Kill, Crash, writerVars, BuildBasics
  <2>2. QED
    BY <2>1 DEF WriterPlace
<1>8. CASE Tinker
  <2>1. step = 0 /\ step' = 0 /\ wpc' = wpc
    BY <1>8, StepsArePlaced DEF Tinker, Edit
  <2>2. QED
    BY <2>1 DEF WriterPlace
<1>9. CASE Finished \/ UNCHANGED vars
  BY <1>9 DEF Finished, vars, buildVars, writerVars, WriterPlace, made
<1>10. QED
  BY <1>1, <1>2, <1>3, <1>4, <1>5, <1>6, <1>7, <1>8, <1>9 DEF Next, Build

-----------------------------------------------------------------------------
(* Appending to a function on 1..n.                                        *)
LEMMA Grown ==
  ASSUME NEW n \in Nat, NEW f, f = [i \in 1..n |-> f[i]], NEW x
  PROVE  /\ Len(f) = n /\ Len(Append(f, x)) = n + 1
         /\ DOMAIN Append(f, x) = 1 .. n + 1
         /\ Append(f, x) = [i \in 1 .. n + 1 |-> IF i = n + 1 THEN x ELSE f[i]]
<1> DEFINE S == {f[i] : i \in 1..n} \cup {x}
<1>1. f \in [1..n -> S]
  OBVIOUS
<1>2. f \in Seq(S) /\ Len(f) = n /\ x \in S
  BY <1>1, SeqDef
<1> HIDE DEF S
<1>3. /\ Append(f, x) \in Seq(S) /\ Len(Append(f, x)) = Len(f) + 1
      /\ \A i \in 1..Len(f) : Append(f, x)[i] = f[i]
      /\ Append(f, x)[Len(f) + 1] = x
  BY <1>2, AppendProperties
<1>4. Append(f, x) = [i \in 1 .. n + 1 |-> Append(f, x)[i]]
  BY <1>2, <1>3
<1>5. \A i \in 1 .. n + 1 : Append(f, x)[i] = IF i = n + 1 THEN x ELSE f[i]
  BY <1>2, <1>3
<1>6. QED
  BY <1>2, <1>3, <1>4, <1>5

(* The trace of a build, line by line.                                     *)
LEMMA UpTo ==
  ASSUME NEW id, NEW p, NEW n \in 1..13
  PROVE  /\ DOMAIN TraceUpTo(id, p, n) = 1..n /\ Len(TraceUpTo(id, p, n)) = n
         /\ TraceUpTo(id, p, n) # <<>>
         /\ TraceUpTo(id, p, n)[1] = Header(id, p)
         /\ \A i \in 2..n : TraceUpTo(id, p, n)[i] =
              IF i <= 12 THEN SpanAt(id, p, i - 1) ELSE TaskOutput(id, Made[p].status)
<1>1. TraceUpTo(id, p, n) = [i \in 1..n |-> TraceUpTo(id, p, n)[i]]
  BY DEF TraceUpTo
<1>2. Len(TraceUpTo(id, p, n)) = n
  BY <1>1, Grown
<1>3. DOMAIN TraceUpTo(id, p, n) = 1..n /\ TraceUpTo(id, p, n)[1] = Header(id, p)
  BY DEF TraceUpTo
<1>4. TraceUpTo(id, p, n) # <<>>
  BY <1>3
<1>5. \A i \in 2..n : TraceUpTo(id, p, n)[i] =
        IF i <= 12 THEN SpanAt(id, p, i - 1) ELSE TaskOutput(id, Made[p].status)
  BY DEF TraceUpTo
<1>6. QED
  BY <1>2, <1>3, <1>4, <1>5

(* A trace so far, with the line of the next step, is the trace up to      *)
(* that step.                                                              *)
LEMMA UpToNext ==
  ASSUME NEW id, NEW p, NEW n \in 1..12, NEW x,
         x = IF n < 12 THEN SpanAt(id, p, n) ELSE TaskOutput(id, Made[p].status)
  PROVE  Append(TraceUpTo(id, p, n), x) = TraceUpTo(id, p, n + 1)
<1> DEFINE f == TraceUpTo(id, p, n)
<1>1. f = [i \in 1..n |-> f[i]]
  BY DEF TraceUpTo
<1>2. Append(f, x) = [i \in 1 .. n + 1 |-> IF i = n + 1 THEN x ELSE f[i]]
  <2> HIDE DEF f
  <2>1. QED
    BY <1>1, Grown
<1>3. \A i \in 1..n : f[i] = IF i = 1 THEN Header(id, p)
                             ELSE IF i <= 12 THEN SpanAt(id, p, i - 1)
                             ELSE TaskOutput(id, Made[p].status)
  BY DEF TraceUpTo
<1>4. ASSUME NEW i \in 1 .. n + 1
      PROVE  (IF i = n + 1 THEN x ELSE f[i]) =
               IF i = 1 THEN Header(id, p)
               ELSE IF i <= 12 THEN SpanAt(id, p, i - 1)
               ELSE TaskOutput(id, Made[p].status)
  <2>1. CASE i = n + 1
    <3>1. i # 1 /\ (i <= 12 <=> n < 12) /\ i - 1 = n
      BY <2>1
    <3>2. QED
      BY <2>1, <3>1
  <2>2. CASE i # n + 1
    BY <1>3, <2>2
  <2>3. QED
    BY <2>1, <2>2
<1>5. QED
  BY <1>2, <1>4 DEF TraceUpTo

(* A trace whose last line is torn is not whole.                           *)
LEMMA TornIsNotWhole ==
  ASSUME NEW n \in Nat, NEW f, f = [i \in 1..n |-> f[i]]
  PROVE  ~Whole(Append(f, TornLine))
<1>1. /\ DOMAIN Append(f, TornLine) = 1 .. n + 1
      /\ Append(f, TornLine)[n + 1] = TornLine
  BY Grown
<1>2. TornLine.t = "torn"
  BY DEF TornLine
<1>3. QED
  BY <1>1, <1>2 DEF Whole, LinesOf

(* While it runs, the trace of a build is the one up to its step.          *)
LEMMA RunningTrace ==
  ASSUME BuildBasics, TraceInv, Running
  PROVE  /\ LinesBefore(step) \in 1..13
         /\ trace = TraceUpTo(request.id, request.prompt, LinesBefore(step))
         /\ trace = [i \in 1..LinesBefore(step) |-> trace[i]]
         /\ trace # <<>> /\ trace[1] = Header(request.id, request.prompt)
         /\ Header(request.id, request.prompt) # TornLine
<1>1. step \in 1..28
  BY RunningIsAsked
<1>2. LinesBefore(step) \in 1..13
  BY <1>1 DEF LinesBefore
<1>3. trace = TraceUpTo(request.id, request.prompt, LinesBefore(step))
  BY DEF TraceInv
<1>4. trace = [i \in 1..LinesBefore(step) |-> trace[i]]
  BY <1>3 DEF TraceUpTo
<1>5. Header(request.id, request.prompt) # TornLine
  <2>1. Header(request.id, request.prompt).t = "header" /\ TornLine.t = "torn"
    BY DEF Header, TornLine
  <2>2. QED
    BY <2>1
<1>6. QED
  BY <1>2, <1>3, <1>4, <1>5, UpTo

(* The parts of TraceInv: what the first line says, and what a whole trace *)
(* is.                                                                     *)
FirstLineInv ==
  trace # <<>> /\ trace[1] # TornLine =>
    request.id # 0 /\ trace[1] = Header(request.id, request.prompt)

WholeTraceInv == Whole(trace) => IsTraceOf(trace, request.id, request.prompt)

FormerInv ==
  Whole(former) => \E id \in 1..request.id, p \in Prompts : IsTraceOf(former, id, p)

(* Every step that writes the trace writes the next line of its build, or  *)
(* ends the build.                                                         *)
LEMMA StepLine ==
  ASSUME BuildBasics, TraceInv, RunStage \/ SetTaskOutput \/ RejectBlocked \/ CompileFails
  PROVE  /\ request'.id = request.id /\ request'.prompt = request.prompt
         /\ former' = former
         /\ \/ /\ RunStage \/ SetTaskOutput
               /\ trace' = TraceUpTo(request.id, request.prompt, LinesBefore(step'))
               /\ LinesBefore(step') \in 1..13
               /\ request'.next = IF step' <= 12 THEN step' ELSE 12
            \/ RejectBlocked /\ trace' = RejectedTrace(request.id, request.prompt)
            \/ CompileFails /\ trace' = FailedTrace(request.id, request.prompt)
<1>1. Running
  BY StepsArePlaced DEF Running
<1>2. /\ request \in Asked /\ made = Made[request.prompt]
      /\ trace = TraceUpTo(request.id, request.prompt, LinesBefore(step))
      /\ request.next = IF step <= 12 THEN step ELSE 12
  BY <1>1, RunningIsAsked DEF TraceInv
<1>3. CASE RunStage
  <2>1. step \in 1..11 /\ step' = step + 1
    BY <1>3, StepsArePlaced
  <2>2. LinesBefore(step) = step /\ LinesBefore(step') = step + 1 /\ step < 12
        /\ step \in 1..12 /\ step + 1 \in 1..13
    BY <2>1 DEF LinesBefore
  <2>3. /\ Script[step] = Stages[step]
        /\ InputOf(Script[step]) = GivenTo(request.prompt, step)
    BY <2>1, InputIsGiven
  <2>4. Span(request.id, request.next, Script[step], InputOf(Script[step]),
             made.output[Script[step]], FALSE) = SpanAt(request.id, request.prompt, step)
    <3>1. request.next = step
      BY <1>2, <2>2
    <3>2. made.output[Script[step]] = Made[request.prompt].output[Stages[step]]
      BY <1>2, <2>3
    <3>3. QED
      BY <2>3, <3>1, <3>2 DEF SpanAt
  <2>5. trace' = Append(trace, SpanAt(request.id, request.prompt, step))
        /\ request' = [request EXCEPT !.next = @ + 1] /\ former' = former
    BY <1>3, <2>4 DEF RunStage, Recorded
  <2>6. trace' = TraceUpTo(request.id, request.prompt, step + 1)
    BY <1>2, <2>2, <2>5, UpToNext
  <2>7. request'.id = request.id /\ request'.prompt = request.prompt
        /\ request'.next = request.next + 1
    BY <1>2, <2>5 DEF Asked
  <2>8. QED
    BY <1>2, <1>3, <2>1, <2>2, <2>5, <2>6, <2>7
<1>4. CASE SetTaskOutput
  <2>1. step = 26 /\ step' = 27
    BY <1>4, StepsArePlaced
  <2>2. LinesBefore(step) = 12 /\ LinesBefore(step') = 13
    BY <2>1 DEF LinesBefore
  <2>3. trace' = Append(trace, TaskOutput(request.id, Made[request.prompt].status))
        /\ request' = request /\ former' = former
    BY <1>2, <1>4 DEF SetTaskOutput
  <2>4. Append(trace, TaskOutput(request.id, Made[request.prompt].status))
          = TraceUpTo(request.id, request.prompt, 13)
    <3>1. 12 \in 1..12 /\ ~(12 < 12) /\ 12 + 1 = 13
      OBVIOUS
    <3>2. trace = TraceUpTo(request.id, request.prompt, 12)
      BY <1>2, <2>2
    <3>3. QED
      BY <3>1, <3>2, UpToNext
  <2>5. trace' = TraceUpTo(request.id, request.prompt, 13)
    BY <2>3, <2>4
  <2>6. QED
    BY <1>2, <1>4, <2>1, <2>2, <2>3, <2>5
<1>5. CASE RejectBlocked
  <2>1. step = 9
    BY <1>5, StepsArePlaced
  <2>2. LinesBefore(step) = 9
    BY <2>1 DEF LinesBefore
  <2>3. trace' = Append(trace, TaskOutput(request.id, "REJECTED"))
        /\ request' = request /\ former' = former
    BY <1>5 DEF RejectBlocked
  <2>4. QED
    BY <1>2, <1>5, <2>2, <2>3 DEF RejectedTrace
<1>6. CASE CompileFails
  <2>1. step = 9 /\ Script[step] = "sir_and_target_generation"
    <3>1. step = 9
      BY <1>6, StepsArePlaced
    <3>2. QED
      BY <1>6, <3>1 DEF CompileFails, At
  <2>2. LinesBefore(step) = 9 /\ Stages[9] = "sir_and_target_generation"
        /\ request.next = 9
    BY <1>2, <2>1, StageNamesAre DEF LinesBefore
  <2>3. InputOf("sir_and_target_generation") = GivenTo(request.prompt, 9)
    BY <2>1, InputIsGiven
  <2>4. trace' = Append(trace, Span(request.id, 9, Stages[9], GivenTo(request.prompt, 9),
                                    0, TRUE))
        /\ request' = [request EXCEPT !.next = @ + 1] /\ former' = former
    BY <1>6, <2>2, <2>3 DEF CompileFails, Recorded
  <2>5. request'.id = request.id /\ request'.prompt = request.prompt
    BY <1>2, <2>4 DEF Asked
  <2>6. QED
    BY <1>2, <1>6, <2>2, <2>4, <2>5 DEF FailedTrace
<1>7. QED
  BY <1>3, <1>4, <1>5, <1>6

(* The first line of a trace of a build.                                   *)
LEMMA FirstOfTrace ==
  ASSUME NEW id, NEW p, NEW t, IsTraceOf(t, id, p)
  PROVE  t # <<>> /\ t[1] = Header(id, p)
<1>1. CASE \E n \in 1..13 : t = TraceUpTo(id, p, n)
  BY <1>1, UpTo
<1>2. ASSUME NEW x, t = Append(TraceUpTo(id, p, 9), x)
      PROVE  t # <<>> /\ t[1] = Header(id, p)
  <2>1. TraceUpTo(id, p, 9) = [i \in 1..9 |-> TraceUpTo(id, p, 9)[i]]
    BY DEF TraceUpTo
  <2>2. DOMAIN t = 1..10
        /\ t = [i \in 1..10 |-> IF i = 10 THEN x ELSE TraceUpTo(id, p, 9)[i]]
    <3> DEFINE f == TraceUpTo(id, p, 9)
    <3>1. f = [i \in 1..9 |-> f[i]] /\ t = Append(f, x) /\ 9 \in Nat
      BY <1>2, <2>1
    <3> HIDE DEF f
    <3>2. /\ DOMAIN Append(f, x) = 1 .. 9 + 1
          /\ Append(f, x) = [i \in 1 .. 9 + 1 |-> IF i = 9 + 1 THEN x ELSE f[i]]
      BY <3>1, Grown
    <3>3. DOMAIN t = 1..10 /\ t = [i \in 1..10 |-> IF i = 10 THEN x ELSE f[i]]
      BY <3>1, <3>2
    <3>4. QED
      BY <3>3 DEF f
  <2>3. t[1] = TraceUpTo(id, p, 9)[1] /\ t # <<>>
    BY <2>2
  <2>4. QED
    BY <2>3, UpTo
<1>3. QED
  BY <1>1, <1>2 DEF IsTraceOf, RejectedTrace, FailedTrace

(* The number of lines depends on the step only where lines are written.   *)
LEMMA QuietSteps ==
  ASSUME BuildBasics, TraceInv, [Next]_vars, UNCHANGED <<trace, former>>,
         request' = request,
         step' = 0 \/ step' = step \/ (step \in 12..25 /\ step' = step + 1)
           \/ (step = 27 /\ step' = 28)
  PROVE  TraceInv'
<1>1. Running' => Running /\ LinesBefore(step') = LinesBefore(step)
  BY DEF Running, LinesBefore, BuildBasics
<1>2. Running' => request.next = IF step' <= 12 THEN step' ELSE 12
  BY <1>1 DEF TraceInv, Running, BuildBasics
<1>3. Running' => trace' = TraceUpTo(request'.id, request'.prompt, LinesBefore(step'))
  BY <1>1 DEF TraceInv
<1>4. FirstLineInv' /\ WholeTraceInv' /\ FormerInv'
  BY DEF TraceInv, FirstLineInv, WholeTraceInv, FormerInv, Whole
<1>5. QED
  BY <1>2, <1>3, <1>4 DEF TraceInv, FirstLineInv, WholeTraceInv, FormerInv

(* Every step keeps what a trace looks like.                               *)
LEMMA StepTraceInv ==
  BuildBasics /\ BuildTypes /\ TraceInv /\ [Next]_vars => TraceInv'
<1> SUFFICES ASSUME BuildBasics, BuildTypes, TraceInv, [Next]_vars PROVE TraceInv'
  OBVIOUS
<1>1. CASE \E r \in Requests : Ask(r[1], r[2])
  <2>1. PICK r \in Requests : Ask(r[1], r[2])
    BY <1>1
  <2>2. /\ request'.id = request.id + 1 /\ request'.prompt = r[1] /\ request'.next = 1
        /\ trace' = <<Header(request'.id, r[1])>> /\ former' = trace /\ step' = 1
    BY <2>1 DEF Ask
  <2>3. request.id \in Nat
    BY DEF BuildBasics, RequestOK, NoRequest, Asked
  <2>4. trace' = TraceUpTo(request'.id, request'.prompt, 1)
    BY <2>2 DEF TraceUpTo
  <2>5. LinesBefore(step') = 1 /\ 1 \in 1..13
    BY <2>2 DEF LinesBefore
  <2>6. FirstLineInv' /\ WholeTraceInv'
    BY <2>2, <2>3, <2>4, <2>5, UpTo DEF FirstLineInv, WholeTraceInv, IsTraceOf
  <2>7. FormerInv'
    <3> SUFFICES ASSUME Whole(trace)
                 PROVE  \E id \in 1..request'.id, p \in Prompts : IsTraceOf(trace, id, p)
      BY <2>2 DEF FormerInv
    <3>1. IsTraceOf(trace, request.id, request.prompt)
      BY DEF TraceInv
    <3>2. trace # <<>> /\ trace[1] # TornLine
      <4>1. trace # <<>> /\ trace[1] = Header(request.id, request.prompt)
        BY <3>1, FirstOfTrace
      <4>2. Header(request.id, request.prompt).t = "header" /\ TornLine.t = "torn"
        BY DEF Header, TornLine
      <4>3. QED
        BY <4>1, <4>2
    <3>3. request.id # 0
      BY <3>2 DEF TraceInv
    <3>4. request.prompt \in Prompts
      BY <3>3 DEF BuildBasics, RequestOK, NoRequest, Asked
    <3>5. request.id \in 1..request'.id
      BY <2>2, <2>3, <3>3
    <3>6. QED
      BY <3>1, <3>4, <3>5
  <2>8. QED
    BY <2>2, <2>4, <2>5, <2>6, <2>7 DEF TraceInv, FirstLineInv, WholeTraceInv, FormerInv
<1>2. CASE RunStage \/ SetTaskOutput \/ RejectBlocked \/ CompileFails
  <2>1. /\ request'.id = request.id /\ request'.prompt = request.prompt
        /\ former' = former
    BY <1>2, StepLine
  <2>2. request.id # 0
    BY <1>2, StepsArePlaced, RunningIsAsked DEF Running
  <2>3. IsTraceOf(trace', request.id, request.prompt)
    BY <1>2, StepLine DEF IsTraceOf
  <2>4. FirstLineInv' /\ WholeTraceInv'
    BY <2>1, <2>2, <2>3, FirstOfTrace DEF FirstLineInv, WholeTraceInv
  <2>5. FormerInv'
    BY <2>1 DEF FormerInv, TraceInv, Whole
  <2>6. Running' => /\ trace' = TraceUpTo(request'.id, request'.prompt, LinesBefore(step'))
                    /\ request'.next = IF step' <= 12 THEN step' ELSE 12
    <3>1. CASE RunStage \/ SetTaskOutput
      <4>1. ~RejectBlocked /\ ~CompileFails
        BY <3>1, StepsArePlaced DEF BuildBasics
      <4>2. QED
        BY <2>1, <3>1, <4>1, StepLine
    <3>2. CASE RejectBlocked \/ CompileFails
      BY <3>2, StepsArePlaced DEF Running
    <3>3. QED
      BY <1>2, <3>1, <3>2
  <2>7. QED
    BY <2>4, <2>5, <2>6 DEF TraceInv, FirstLineInv, WholeTraceInv, FormerInv
<1>3. CASE RaiseNonconformant \/ EnterWriter \/ WriterGoesOn \/ LeaveWriter
             \/ WriteArtifact \/ WriteRecord \/ WriteManifest
  <2>1. UNCHANGED <<trace, former>> /\ request' = request
    BY <1>3 DEF RaiseNonconformant, EnterWriter, WriterGoesOn, LeaveWriter,
                WriteArtifact, WriteRecord, WriteManifest, buildVars
  <2>2. step' = 0 \/ step' = step \/ (step \in 12..25 /\ step' = step + 1)
           \/ (step = 27 /\ step' = 28)
    BY <1>3, StepsArePlaced
  <2>3. QED
    BY <2>1, <2>2, QuietSteps
<1>4. CASE Kill
  <2>1. /\ Running /\ step' = 0 /\ UNCHANGED <<request, former>>
        /\ trace' \in {trace, <<>>, <<TornLine>>, Append(trace, TornLine)}
    BY <1>4, StepsArePlaced
       DEF Kill, TearTrace, TearHeader, TearArtifact, TearRecord, TearManifest
  <2>2. CASE trace' = trace
    BY <2>1, <2>2, QuietSteps
  <2>3. CASE trace' \in {<<>>, <<TornLine>>}
    <3>1. ~Whole(trace') /\ (trace' = <<>> \/ trace'[1] = TornLine)
      <4>1. TornLine.t = "torn"
        BY DEF TornLine
      <4>2. QED
        BY <2>3, <4>1 DEF Whole, LinesOf
    <3>2. FormerInv'
      BY <2>1 DEF FormerInv, TraceInv, Whole
    <3>3. QED
      BY <2>1, <3>1, <3>2 DEF TraceInv, Running, FormerInv
  <2>4. CASE trace' = Append(trace, TornLine)
    <3> DEFINE n == LinesBefore(step)
    <3>1. /\ n \in 1..13 /\ trace = [i \in 1..n |-> trace[i]]
          /\ trace[1] = Header(request.id, request.prompt) /\ request.id # 0
      BY <2>1, RunningTrace, RunningIsAsked
    <3> HIDE DEF n
    <3>2. n \in Nat
      BY <3>1
    <3>3. ~Whole(trace')
      BY <2>4, <3>1, <3>2, TornIsNotWhole
    <3>4. Append(trace, TornLine)
            = [i \in 1 .. n + 1 |-> IF i = n + 1 THEN TornLine ELSE trace[i]]
      BY <3>1, <3>2, Grown
    <3>5. trace'[1] = Header(request.id, request.prompt)
      BY <2>4, <3>1, <3>4
    <3>6. FormerInv'
      BY <2>1 DEF FormerInv, TraceInv, Whole
    <3>7. QED
      BY <2>1, <3>1, <3>3, <3>5, <3>6 DEF TraceInv, Running, FormerInv
  <2>5. QED
    BY <2>1, <2>2, <2>3, <2>4
<1>5. CASE Tinker \/ Finished \/ UNCHANGED vars
  <2>1. UNCHANGED <<trace, former, request, step>>
    BY <1>5 DEF Tinker, Finished, vars, buildVars
  <2>2. QED
    BY <2>1, QuietSteps
<1>6. QED
  BY <1>1, <1>2, <1>3, <1>4, <1>5 DEF Next, Build

-----------------------------------------------------------------------------
(* Every step keeps the artifacts of the running build.                    *)
LEMMA StepArtifacts ==
  BuildBasics /\ BuildTypes /\ ArtifactsInv /\ [Next]_vars => ArtifactsInv'
<1> SUFFICES ASSUME BuildBasics, BuildTypes, ArtifactsInv, [Next]_vars, Running',
                    NEW k \in 1..12, step' > 13 + k,
                    ArtifactNames[k] # "artifact_diff.json"
             PROVE  artifacts'[ArtifactNames[k]] = made'.output[ArtifactNames[k]]
  BY DEF ArtifactsInv
<1>1. ~(\E r \in Requests : Ask(r[1], r[2]))
  BY StepsArePlaced
<1>2. made' = made /\ Running
  BY <1>1, MadeStays
<1>3. CASE WriteArtifact
  <2>1. /\ step \in 14..25 /\ step' = step + 1 /\ step - 13 \in 1..12
        /\ Script[step] = ArtifactNames[step - 13]
    BY <1>3, StepsArePlaced, Places DEF BuildBasics
  <2>2. artifacts \in Artifacts /\ ArtifactNames[k] \in ArtifactSet
    BY ArtifactNamesAre DEF BuildTypes
  <2>3. artifacts' = [artifacts EXCEPT ![Script[step]] =
                        IF Script[step] = "artifact_diff.json" THEN Diff
                        ELSE made.output[Script[step]]]
    BY <1>3 DEF WriteArtifact
  <2>4. CASE k = step - 13
    BY <1>2, <2>1, <2>2, <2>3, <2>4 DEF Artifacts
  <2>5. CASE k # step - 13
    <3>1. step > 13 + k
      BY <2>1, <2>5
    <3>2. ArtifactNames[k] # Script[step]
      BY <2>1, <2>5, ArtifactNamesAre
    <3>3. artifacts'[ArtifactNames[k]] = artifacts[ArtifactNames[k]]
      BY <2>2, <2>3, <3>2 DEF Artifacts
    <3>4. QED
      BY <1>2, <3>1, <3>3 DEF ArtifactsInv
  <2>6. QED
    BY <2>4, <2>5
<1>4. CASE ~WriteArtifact
  <2>1. step > 13 + k
    BY <1>1, <1>4, StepsArePlaced DEF Next, Build, BuildBasics
  <2>2. artifacts' = artifacts
    BY <1>1, <1>2, <1>4, <2>1, StepsArePlaced
       DEF Next, Build, RunStage, RaiseNonconformant, RejectBlocked, CompileFails,
           EnterWriter, WriterGoesOn, LeaveWriter, SetTaskOutput, WriteRecord,
           WriteManifest, Kill, Ended, Running, Tinker, Finished, vars, buildVars
  <2>3. QED
    BY <1>2, <2>1, <2>2 DEF ArtifactsInv
<1>5. QED
  BY <1>3, <1>4

(* What the record says of the directory, when it is written.              *)
LEMMA RecordWritten ==
  ASSUME BuildBasics, BuildTypes, WriterInv, WriterPlace, TraceInv, ArtifactsInv, WriteRecord
  PROVE  RecordInv' /\ record' \in RunRecord /\ record'.id = request'.id
<1>1. step = 27 /\ step' = 28 /\ Running
  BY StepsArePlaced DEF Running
<1>2. /\ request.id \in Nat \ {0} /\ request.prompt \in Prompts
      /\ made \in Making
  BY <1>1, RunningIsAsked
<1>3. /\ record' = [id |-> request.id, prompt |-> request.prompt,
                    status |-> made.status, seen |-> Seen]
      /\ UNCHANGED <<request, trace, artifacts, disk>> /\ made' = made
  BY DEF WriteRecord, writerVars, made
<1>4. record' \in RunRecord
  BY <1>2, <1>3, SeenIsDirectory DEF RunRecord, Making
<1>5. trace = TraceUpTo(request.id, request.prompt, 13)
  BY <1>1 DEF TraceInv, LinesBefore
<1>6. ASSUME NEW name \in ArtifactSet \ {"artifact_diff.json"}
      PROVE  artifacts[name] = made.output[name]
  <2>1. PICK k \in 1..12 : ArtifactNames[k] = name
    BY ArtifactNamesAre
  <2>2. step > 13 + k
    BY <1>1
  <2>3. QED
    BY <1>1, <2>1, <2>2 DEF ArtifactsInv
<1>7. \A path \in Listed(made.tree) : disk[path] = made.tree[path]
  <2>1. wpc = "idle" /\ job.ended = "returned" /\ job.after = made.tree
    <3>1. wpc \in {"idle", "emit", "index"}
      BY DEF BuildTypes, TypeOK
    <3>2. QED
      BY <1>1, <3>1 DEF WriterPlace
  <2>2. QED
    BY <2>1 DEF WriterInv, AfterReturn
<1>8. record'.seen.artifacts = artifacts /\ record'.seen.disk = disk
  BY <1>3 DEF Seen
<1>9. QED
  BY <1>1, <1>2, <1>3, <1>4, <1>5, <1>6, <1>7, <1>8 DEF RecordInv

(* Every step keeps what the record says true until a new build begins.    *)
LEMMA StepRecordInv ==
  BuildBasics /\ BuildTypes /\ WriterInv /\ WriterPlace /\ TraceInv /\ ArtifactsInv
    /\ RecordInv /\ [Next]_vars => RecordInv'
<1> SUFFICES ASSUME BuildBasics, BuildTypes, WriterInv, WriterPlace, TraceInv,
                    ArtifactsInv, RecordInv, [Next]_vars
             PROVE  RecordInv'
  OBVIOUS
<1>1. CASE WriteRecord
  BY <1>1, RecordWritten
<1>2. CASE ~WriteRecord /\ step \in 1..27
  <2>1. ~(\E r \in Requests : Ask(r[1], r[2])) /\ step' \in 0..27
    BY <1>2, StepsArePlaced DEF Next, Build
  <2>2. request'.id = request.id
    BY <2>1, MadeStays
  <2>3. record' \in {record, Torn}
    BY <1>2, <2>1, StepsArePlaced
       DEF Next, Build, RunStage, RaiseNonconformant, RejectBlocked, CompileFails,
           EnterWriter, WriterGoesOn, LeaveWriter, WriteArtifact, SetTaskOutput,
           WriteManifest, Kill, TearTrace, TearHeader, TearArtifact, TearRecord,
           TearManifest, Tinker, Finished, vars, buildVars
  <2>4. record' \notin {Absent, Torn} => record' = record /\ record.id # request.id
                                           /\ record.id \in 1..request.id
    BY <1>2, <2>3 DEF RecordInv
  <2>5. QED
    BY <2>2, <2>4 DEF RecordInv
<1>3. CASE \E r \in Requests : Ask(r[1], r[2])
  <2>1. request'.id = request.id + 1 /\ record' = record /\ request.id \in Nat
    BY <1>3 DEF Ask, BuildBasics, RequestOK, NoRequest, Asked
  <2>2. record \notin {Absent, Torn} => record.id \in 1..request.id
    BY DEF RecordInv
  <2>3. QED
    BY <2>1, <2>2 DEF RecordInv
<1>4. CASE ~(\E r \in Requests : Ask(r[1], r[2])) /\ step \in {0, 28}
  <2>1. UNCHANGED <<trace, artifacts, record, request>> /\ step' \in {0, step}
    BY <1>4, StepsArePlaced, Places
       DEF Next, Build, WriteManifest, Kill, TearTrace, TearHeader, TearArtifact,
           TearRecord, TearManifest, Tinker, Finished, vars, buildVars, BuildBasics
  <2>2. made' = made
    BY <2>1 DEF made
  <2>3. QED
    BY <1>4, <2>1, <2>2 DEF RecordInv
<1>5. QED
  BY <1>1, <1>2, <1>3, <1>4 DEF BuildBasics

(* Every step keeps what the manifest says of its record.                  *)
LEMMA StepManifestInv ==
  BuildBasics /\ BuildTypes /\ WriterInv /\ WriterPlace /\ TraceInv /\ ArtifactsInv
    /\ RecordInv /\ ManifestInv /\ [Next]_vars => ManifestInv'
<1> SUFFICES ASSUME BuildBasics, BuildTypes, WriterInv, WriterPlace, TraceInv,
                    ArtifactsInv, RecordInv, ManifestInv, [Next]_vars
             PROVE  ManifestInv'
  OBVIOUS
<1>1. CASE WriteRecord
  <2>1. record' \notin {Absent, Torn} /\ record'.id = request'.id
    BY <1>1, RecordWritten, RecordsAssumption
  <2>2. manifest' = manifest
    BY <1>1 DEF WriteRecord
  <2>3. QED
    BY <2>1, <2>2 DEF ManifestInv
<1>2. CASE WriteManifest
  <2>1. step = 28 /\ step' = 0 /\ Running
    BY <1>2, StepsArePlaced DEF Running
  <2>2. manifest' = [seen |-> Seen, record |-> record]
    BY <1>2 DEF WriteManifest
  <2>3. /\ record \notin {Absent, Torn} /\ record.id = request.id
        /\ record.prompt = request.prompt
    BY <2>1 DEF ManifestInv, RecordInv
  <2>4. trace # <<>> /\ trace[1] = Header(request.id, request.prompt)
    BY <2>1, RunningTrace
  <2>5. manifest'.seen.trace = trace /\ manifest'.record = record
    BY <2>2 DEF Seen
  <2>6. QED
    BY <2>1, <2>3, <2>4, <2>5 DEF ManifestInv
<1>3. CASE ~WriteRecord /\ ~WriteManifest
  <2>1. manifest' \in {manifest, Torn}
    BY <1>3 DEF Next, Build, Ask, RunStage, RaiseNonconformant, RejectBlocked,
                CompileFails, EnterWriter, WriterGoesOn, LeaveWriter, Recorded,
                WriteArtifact, SetTaskOutput, Kill, TearTrace, TearHeader, TearArtifact,
                TearRecord, TearManifest, Tinker, Finished, vars, buildVars
  <2>2. step' = 28 => UNCHANGED vars
    BY <1>3, StepsArePlaced DEF Next, Build, Finished, Running
  <2>3. step' = 28 => step = 28 /\ record' = record /\ request' = request
    BY <2>2 DEF vars, buildVars
  <2>4. QED
    BY <2>1, <2>3 DEF ManifestInv
<1>4. QED
  BY <1>1, <1>2, <1>3

-----------------------------------------------------------------------------
(* The inductive invariant holds in every reachable state.                 *)
THEOREM BuildInvariant == Spec => []BuildInv
<1>1. Init => BuildInv
  <2> SUFFICES ASSUME Init PROVE BuildInv
    OBVIOUS
  <2>1. RequestInv /\ HopelessInv /\ WriterPlace /\ ArtifactsInv /\ RecordInv
          /\ ManifestInv
    BY DEF Init, WriterInit, RequestInv, HopelessInv, Hopeless, WriterPlace,
           ArtifactsInv, RecordInv, ManifestInv, Running
  <2>2. TraceInv
    BY DEF Init, TraceInv, Running, Whole
  <2>3. QED
    BY <2>1, <2>2 DEF BuildInv
<1>2. BuildBasics /\ BuildTypes /\ WriterInv /\ BuildInv /\ [Next]_vars => BuildInv'
  <2> SUFFICES ASSUME BuildBasics, BuildTypes, WriterInv, BuildInv, [Next]_vars
               PROVE  BuildInv'
    OBVIOUS
  <2>1. RequestInv'
    BY StepBasics DEF BuildBasics
  <2>2. HopelessInv'
    BY StepHopeless DEF BuildInv
  <2>3. WriterPlace'
    BY StepWriterPlace DEF BuildInv, BuildTypes
  <2>4. TraceInv'
    BY StepTraceInv DEF BuildInv
  <2>5. ArtifactsInv'
    BY StepArtifacts DEF BuildInv
  <2>6. RecordInv'
    BY StepRecordInv DEF BuildInv
  <2>7. ManifestInv'
    BY StepManifestInv DEF BuildInv
  <2>8. QED
    BY <2>1, <2>2, <2>3, <2>4, <2>5, <2>6, <2>7 DEF BuildInv
<1>3. Spec => []WriterInv
  BY OfflineRunsWriter, WriterInvariant, PTL
<1>4. QED
  BY <1>1, <1>2, <1>3, Basics, OfflineTypes, PTL DEF Spec

(* A build whose document does not conform or does not compile, or that is *)
(* blocked and was not allowed to be partial, changes nothing but the trace*)
(* in a directory that may hold an earlier, accepted build.                *)
THEOREM OfflineFailsClosed == Spec => FailsClosed
<1> DEFINE Kept == Hopeless => UNCHANGED <<disk, index, artifacts, record, manifest>>
<1>1. BuildBasics /\ BuildInv /\ [Next]_vars => [Kept]_vars
  <2> SUFFICES ASSUME BuildBasics, BuildInv, Next, Hopeless
               PROVE  UNCHANGED <<disk, index, artifacts, record, manifest>>
    BY DEF vars
  <2>1. step \in 1..9
    BY DEF BuildInv, HopelessInv
  <2>2. CASE RunStage \/ RaiseNonconformant \/ RejectBlocked \/ CompileFails
    BY <2>2 DEF RunStage, RaiseNonconformant, RejectBlocked, CompileFails, writerVars
  <2>3. CASE Kill
    BY <2>1, <2>3, Places DEF Kill, TearTrace, TearHeader, TearArtifact, TearRecord,
                              TearManifest, writerVars, BuildBasics
  <2>4. QED
    BY <2>1, <2>2, <2>3, StepsArePlaced DEF Next, Build, Finished, Running
<1>2. QED
  BY <1>1, Basics, BuildInvariant, PTL DEF Spec, FailsClosed

-----------------------------------------------------------------------------
(* The lines of a trace that loads: a header, spans numbered as they stand,*)
(* and a task output at the end.                                           *)
Ordered(t, n, id) ==
  /\ n \in Nat /\ n >= 1
  /\ t = [i \in 1..n |-> t[i]]
  /\ t[1].t = "header" /\ t[1].trace = id
  /\ \A i \in 2..n :
       /\ t[i].trace = id
       /\ \/ t[i].t = "span" /\ t[i].span = i - 1 /\ t[i].parent = 0
          \/ t[i].t = "task_output" /\ i = n

(* load_trace accepts an ordered trace, and no line of it is torn.         *)
LEMMA OrderedLoads ==
  ASSUME NEW t, NEW n, NEW id, Ordered(t, n, id)
  PROVE  Loads(t) /\ LinesOf(t, "torn") = {} /\ Len(t) = n /\ DOMAIN t = 1..n
<1>1. n \in Nat /\ n >= 1 /\ t = [i \in 1..n |-> t[i]]
  BY DEF Ordered
<1>2. Len(t) = n
  BY <1>1, Grown
<1>3. DOMAIN t = 1..n
  BY <1>1
<1>4. n \in Nat /\ n >= 1
  BY <1>1
<1>5. t[1].t = "header" /\ t[1].trace = id
  BY DEF Ordered
<1>6. \A i \in 2..n :
        /\ t[i].trace = id
        /\ \/ t[i].t = "span" /\ t[i].span = i - 1 /\ t[i].parent = 0
           \/ t[i].t = "task_output" /\ i = n
  BY DEF Ordered
<1>7. \A i \in 1..n : i = 1 \/ i \in 2..n
  BY <1>4
<1>8. \A i \in LinesOf(t, "span") :
        i \in 2..n /\ t[i].span = i - 1 /\ t[i].parent = 0
  BY <1>3, <1>5, <1>6, <1>7 DEF LinesOf
<1>9. \A i, j \in LinesOf(t, "span") : i # j => t[i].span # t[j].span
  BY <1>8
<1>10. Cardinality(LinesOf(t, "task_output")) <= 1
  <2>1. LinesOf(t, "task_output") \subseteq {n}
    BY <1>3, <1>5, <1>6, <1>7 DEF LinesOf
  <2>2. LinesOf(t, "task_output") = {} \/ LinesOf(t, "task_output") = {n}
    BY <2>1
  <2>3. Cardinality({}) = 0 /\ Cardinality({n}) = 1
    BY FS_EmptySet, FS_Singleton
  <2>4. QED
    BY <2>2, <2>3
<1>11. LinesOf(t, "torn") = {}
  BY <1>3, <1>5, <1>6, <1>7 DEF LinesOf
<1>12. t # <<>>
  BY <1>3, <1>4
<1>13. Loads(t)
  BY <1>2, <1>5, <1>6, <1>8, <1>9, <1>10, <1>12 DEF Loads
<1>14. QED
  BY <1>2, <1>3, <1>11, <1>13

(* The fields of the lines a build writes.                                 *)
LEMMA HeaderFields ==
  ASSUME NEW id, NEW p
  PROVE  Header(id, p).t = "header" /\ Header(id, p).trace = id /\ Header(id, p).input = p
BY DEF Header

(* The numbers of the span of a stage.                                     *)
LEMMA SpanFields ==
  ASSUME NEW id, NEW p, NEW i
  PROVE  /\ SpanAt(id, p, i).t = "span" /\ SpanAt(id, p, i).trace = id
         /\ SpanAt(id, p, i).span = i /\ SpanAt(id, p, i).parent = 0
BY DEF SpanAt, Span

(* The span of a stage has its name, its input and output, and no error.   *)
LEMMA SpanContent ==
  ASSUME NEW id, NEW p, NEW i
  PROVE  /\ SpanAt(id, p, i).name = Stages[i] /\ SpanAt(id, p, i).input = GivenTo(p, i)
         /\ SpanAt(id, p, i).output = Made[p].output[Stages[i]]
         /\ ~SpanAt(id, p, i).failed
<1> DEFINE name == Stages[i]
           input == GivenTo(p, i)
           output == Made[p].output[Stages[i]]
<1>1. SpanAt(id, p, i) = Span(id, i, name, input, output, FALSE)
  BY DEF SpanAt
<1> HIDE DEF name, input, output
<1>2. /\ SpanAt(id, p, i).name = name /\ SpanAt(id, p, i).input = input
      /\ SpanAt(id, p, i).output = output /\ ~SpanAt(id, p, i).failed
  BY <1>1 DEF Span
<1>3. QED
  BY <1>2 DEF name, input, output

(* The fields of a task output.                                            *)
LEMMA OutputFields ==
  ASSUME NEW id, NEW status
  PROVE  /\ TaskOutput(id, status).t = "task_output" /\ TaskOutput(id, status).trace = id
         /\ TaskOutput(id, status).status = status
BY DEF TaskOutput

(* The trace of a build that nothing has stopped is ordered, however far   *)
(* it is.                                                                  *)
LEMMA UpToIsOrdered ==
  ASSUME NEW id, NEW p, NEW n \in 1..13
  PROVE  Ordered(TraceUpTo(id, p, n), n, id)
<1> DEFINE t == TraceUpTo(id, p, n)
<1>1. t = [i \in 1..n |-> t[i]]
  BY DEF TraceUpTo
<1>2. t[1] = Header(id, p)
  BY UpTo
<1>3. ASSUME NEW i \in 2..n
      PROVE  /\ t[i].trace = id
             /\ \/ t[i].t = "span" /\ t[i].span = i - 1 /\ t[i].parent = 0
                \/ t[i].t = "task_output" /\ i = n
  <2>1. t[i] = IF i <= 12 THEN SpanAt(id, p, i - 1) ELSE TaskOutput(id, Made[p].status)
    BY UpTo
  <2>2. CASE i <= 12
    <3>1. t[i] = SpanAt(id, p, i - 1)
      BY <2>1, <2>2
    <3>2. /\ SpanAt(id, p, i - 1).t = "span" /\ SpanAt(id, p, i - 1).trace = id
          /\ SpanAt(id, p, i - 1).span = i - 1 /\ SpanAt(id, p, i - 1).parent = 0
      BY SpanFields
    <3> HIDE DEF t
    <3>3. QED
      BY <3>1, <3>2
  <2>3. CASE ~(i <= 12)
    BY <2>1, <2>3, OutputFields
  <2>4. QED
    BY <2>2, <2>3
<1> HIDE DEF t
<1>4. QED
  BY <1>1, <1>2, <1>3, HeaderFields DEF Ordered, t

(* A trace that ends with the tenth line.                                  *)
LEMMA TenthLine ==
  ASSUME NEW id, NEW p, NEW x
  PROVE  LET t == Append(TraceUpTo(id, p, 9), x)
         IN  /\ t = [i \in 1..10 |-> t[i]] /\ Len(t) = 10
             /\ t[1] = Header(id, p) /\ t[10] = x
             /\ \A i \in 2..9 : t[i] = SpanAt(id, p, i - 1)
<1> DEFINE f == TraceUpTo(id, p, 9)
           t == Append(f, x)
<1>1. f = [i \in 1..9 |-> f[i]] /\ 9 \in Nat
  BY DEF TraceUpTo
<1>2. f[1] = Header(id, p) /\ \A i \in 2..9 : f[i] = SpanAt(id, p, i - 1)
  BY UpTo
<1> HIDE DEF f
<1>3. Len(t) = 9 + 1 /\ t = [i \in 1 .. 9 + 1 |-> IF i = 9 + 1 THEN x ELSE f[i]]
  BY <1>1, Grown
<1>4. Len(t) = 10 /\ t = [i \in 1..10 |-> IF i = 10 THEN x ELSE f[i]]
  BY <1>3
<1> HIDE DEF t
<1>5. t = [i \in 1..10 |-> t[i]] /\ t[10] = x /\ \A i \in 1..9 : t[i] = f[i]
  BY <1>4
<1>6. QED
  BY <1>2, <1>4, <1>5 DEF t, f

(* So is the trace of a build that stopped at the ninth stage.             *)
LEMMA TenLinesAreOrdered ==
  ASSUME NEW id, NEW p, NEW x, x.trace = id,
         \/ x.t = "task_output"
         \/ x.t = "span" /\ x.span = 9 /\ x.parent = 0
  PROVE  Ordered(Append(TraceUpTo(id, p, 9), x), 10, id)
<1> DEFINE t == Append(TraceUpTo(id, p, 9), x)
<1>1. /\ t = [i \in 1..10 |-> t[i]] /\ t[1] = Header(id, p) /\ t[10] = x
      /\ \A i \in 2..9 : t[i] = SpanAt(id, p, i - 1)
  BY TenthLine
<1> HIDE DEF t
<1>2. ASSUME NEW i \in 2..10
      PROVE  /\ t[i].trace = id
             /\ \/ t[i].t = "span" /\ t[i].span = i - 1 /\ t[i].parent = 0
                \/ t[i].t = "task_output" /\ i = 10
  <2>1. CASE i \in 2..9
    <3>1. t[i] = SpanAt(id, p, i - 1)
      BY <1>1, <2>1
    <3>2. QED
      <4>1. /\ SpanAt(id, p, i - 1).t = "span" /\ SpanAt(id, p, i - 1).trace = id
            /\ SpanAt(id, p, i - 1).span = i - 1 /\ SpanAt(id, p, i - 1).parent = 0
        BY SpanFields
      <4>2. QED
        BY <3>1, <4>1
  <2>2. CASE i = 10
    BY <1>1, <2>2
  <2>3. QED
    BY <2>1, <2>2
<1>3. QED
  BY <1>1, <1>2, HeaderFields, SMTT(30) DEF Ordered, t

(* Every trace of a build loads.                                           *)
LEMMA TraceLoads ==
  ASSUME NEW id, NEW p, NEW t, IsTraceOf(t, id, p)
  PROVE  \E n : Ordered(t, n, id)
<1>1. CASE \E n \in 1..13 : t = TraceUpTo(id, p, n)
  BY <1>1, UpToIsOrdered
<1>2. CASE t = RejectedTrace(id, p)
  <2> DEFINE x == TaskOutput(id, "REJECTED")
  <2>1. x.t = "task_output" /\ x.trace = id
    BY OutputFields
  <2>2. t = Append(TraceUpTo(id, p, 9), x)
    BY <1>2 DEF RejectedTrace
  <2> HIDE DEF x
  <2>3. QED
    BY <2>1, <2>2, TenLinesAreOrdered
<1>3. CASE t = FailedTrace(id, p)
  <2> DEFINE x == Span(id, 9, Stages[9], GivenTo(p, 9), 0, TRUE)
  <2>1. x.t = "span" /\ x.trace = id /\ x.span = 9 /\ x.parent = 0
    BY DEF Span
  <2>2. t = Append(TraceUpTo(id, p, 9), x)
    BY <1>3 DEF FailedTrace
  <2> HIDE DEF x
  <2>3. QED
    BY <2>1, <2>2, TenLinesAreOrdered
<1>4. QED
  BY <1>1, <1>2, <1>3 DEF IsTraceOf

(* Only a build that nothing stops, or that is blocked, records an output. *)
LEMMA TraceWithOutput ==
  ASSUME NEW id, NEW p, NEW t, IsTraceOf(t, id, p), HasOutput(t)
  PROVE  t = TraceUpTo(id, p, 13) \/ t = RejectedTrace(id, p)
<1>1. CASE \E n \in 1..13 : t = TraceUpTo(id, p, n)
  <2>1. PICK n \in 1..13 : t = TraceUpTo(id, p, n)
    BY <1>1
  <2>a. Len(t) = n
    BY <2>1, UpTo
  <2>2. PICK i \in 1..n : t[i].t = "task_output"
    BY <2>a DEF HasOutput, LinesOf
  <2>3. i # 1
    <3>1. t[1] = Header(id, p)
      BY <2>1, UpTo
    <3>2. QED
      BY <2>2, <3>1, HeaderFields
  <2>4. ~(i <= 12)
    <3> SUFFICES ASSUME i <= 12 PROVE FALSE
      OBVIOUS
    <3>1. t[i] = SpanAt(id, p, i - 1)
      <4>1. i \in 2..n
        BY <2>2, <2>3
      <4>2. TraceUpTo(id, p, n)[i] = SpanAt(id, p, i - 1)
        BY <4>1, UpTo
      <4>3. QED
        BY <2>1, <4>2
    <3>2. SpanAt(id, p, i - 1).t = "span"
      BY SpanFields
    <3>3. QED
      BY <2>2, <3>1, <3>2
  <2>5. n = 13
    BY <2>4
  <2>6. QED
    BY <2>1, <2>5
<1>2. t # FailedTrace(id, p)
  <2> SUFFICES ASSUME t = FailedTrace(id, p) PROVE FALSE
    OBVIOUS
  <2> DEFINE x == Span(id, 9, Stages[9], GivenTo(p, 9), 0, TRUE)
  <2>1. x.t = "span"
    BY DEF Span
  <2>2. t = Append(TraceUpTo(id, p, 9), x)
    BY DEF FailedTrace
  <2> HIDE DEF x
  <2>3. /\ t = [i \in 1..10 |-> t[i]] /\ t[1] = Header(id, p) /\ t[10] = x
        /\ \A i \in 2..9 : t[i] = SpanAt(id, p, i - 1)
    BY <2>2, TenthLine
  <2>4. DOMAIN t = 1..10
    BY <2>3
  <2>5. PICK i \in 1..10 : t[i].t = "task_output"
    BY <2>4 DEF HasOutput, LinesOf
  <2>6. i \in 2..9
    <3>1. i # 1
      BY <2>3, <2>5, HeaderFields
    <3>2. i # 10
      BY <2>1, <2>3, <2>5
    <3>3. QED
      BY <3>1, <3>2
  <2>7. t[i] = SpanAt(id, p, i - 1)
    BY <2>3, <2>6
  <2>8. SpanAt(id, p, i - 1).t = "span"
    BY SpanFields
  <2>9. QED
    BY <2>5, <2>7, <2>8
<1>3. QED
  BY <1>1, <1>2 DEF IsTraceOf

(* The spans of a trace whose lines 2 to k are spans, numbered as they     *)
(* stand.                                                                  *)
LEMMA SpansInOrder ==
  ASSUME NEW t, NEW n \in Nat, NEW k \in 1..n, DOMAIN t = 1..n,
         \A i \in 2..k : t[i].t = "span" /\ t[i].span = i - 1,
         \A i \in 1..n : t[i].t = "span" => i \in 2..k
  PROVE  SpansOf(t) = [m \in 1 .. k - 1 |-> t[m + 1]]
<1> DEFINE Chosen(m) == CHOOSE i \in LinesOf(t, "span") : Place(t, i) = m
<1>1. LinesOf(t, "span") = 2..k
  BY DEF LinesOf
<1>2. Cardinality(2..k) = k - 1
  BY FS_Interval
<1>3. ASSUME NEW i \in 2..k PROVE Place(t, i) = i - 1
  <2>1. {j \in LinesOf(t, "span") : t[j].span <= t[i].span} = 2..i
    BY <1>1, <1>3
  <2>2. Cardinality(2..i) = i - 1
    BY FS_Interval
  <2>3. QED
    BY <2>1, <2>2 DEF Place
<1>4. ASSUME NEW m \in 1 .. k - 1 PROVE Chosen(m) = m + 1
  <2>1. m + 1 \in LinesOf(t, "span") /\ Place(t, m + 1) = m
    BY <1>1, <1>3
  <2>2. \A i \in LinesOf(t, "span") : Place(t, i) = m => i = m + 1
    BY <1>1, <1>3
  <2>3. QED
    BY <2>1, <2>2
<1>5. SpansOf(t) = [m \in 1..Cardinality(LinesOf(t, "span")) |-> t[Chosen(m)]]
  BY DEF SpansOf
<1> HIDE DEF Chosen
<1>6. QED
  BY <1>1, <1>2, <1>4, <1>5

(* The spans of a build that records an output.                            *)
SpansUpTo(id, p, k) == [i \in 1..k |-> SpanAt(id, p, i)]

(* The spans of a whole trace are those of the eleven stages.              *)
LEMMA SpansOfWhole ==
  ASSUME NEW id, NEW p
  PROVE  SpansOf(TraceUpTo(id, p, 13)) = SpansUpTo(id, p, 11)
<1> DEFINE t == TraceUpTo(id, p, 13)
<1>1. /\ DOMAIN t = 1..13 /\ t[1] = Header(id, p)
      /\ t[13] = TaskOutput(id, Made[p].status)
      /\ \A i \in 2..12 : t[i] = SpanAt(id, p, i - 1)
  BY UpTo
<1> HIDE DEF t
<1>2. ASSUME NEW i \in 2..12 PROVE t[i].t = "span" /\ t[i].span = i - 1
  <2>1. SpanAt(id, p, i - 1).t = "span" /\ SpanAt(id, p, i - 1).span = i - 1
    BY SpanFields
  <2>2. QED
    BY <1>1, <2>1
<1>3. t[1].t = "header" /\ t[13].t = "task_output"
  BY <1>1, HeaderFields, OutputFields
<1>4. ASSUME NEW i \in 1..13, t[i].t = "span" PROVE i \in 2..12
  <2>1. i # 1 /\ i # 13
    BY <1>3, <1>4
  <2>2. QED
    BY <2>1
<1>5. SpansOf(t) = [i \in 1..11 |-> t[i + 1]]
  <2>1. 13 \in Nat /\ 12 \in 1..13 /\ 12 - 1 = 11
    OBVIOUS
  <2>2. SpansOf(t) = [i \in 1 .. 12 - 1 |-> t[i + 1]]
    BY <1>1, <1>2, <1>4, <2>1, SpansInOrder
  <2>3. QED
    BY <2>1, <2>2
<1>6. \A i \in 1..11 : t[i + 1] = SpanAt(id, p, i)
  BY <1>1
<1>7. QED
  BY <1>5, <1>6 DEF SpansUpTo, t

(* Those of the trace of a blocked build are of the first eight.           *)
LEMMA SpansOfRejected ==
  ASSUME NEW id, NEW p
  PROVE  SpansOf(RejectedTrace(id, p)) = SpansUpTo(id, p, 8)
<1> DEFINE x == TaskOutput(id, "REJECTED")
           t == Append(TraceUpTo(id, p, 9), x)
<1>1. x.t = "task_output"
  BY OutputFields
<1> HIDE DEF x
<1>2. /\ t = [i \in 1..10 |-> t[i]] /\ t[1] = Header(id, p) /\ t[10] = x
      /\ \A i \in 2..9 : t[i] = SpanAt(id, p, i - 1)
  BY TenthLine
<1> HIDE DEF t
<1>3. DOMAIN t = 1..10
  BY <1>2
<1>4. ASSUME NEW i \in 2..9 PROVE t[i].t = "span" /\ t[i].span = i - 1
  <2>1. SpanAt(id, p, i - 1).t = "span" /\ SpanAt(id, p, i - 1).span = i - 1
    BY SpanFields
  <2>2. t[i] = SpanAt(id, p, i - 1)
    BY <1>2
  <2>3. QED
    BY <2>1, <2>2
<1>5. t[1].t = "header" /\ t[10].t = "task_output"
  BY <1>1, <1>2, HeaderFields
<1>6. ASSUME NEW i \in 1..10, t[i].t = "span" PROVE i \in 2..9
  <2>1. i # 1 /\ i # 10
    BY <1>5, <1>6
  <2>2. QED
    BY <2>1
<1>7. SpansOf(t) = [i \in 1..8 |-> t[i + 1]]
  <2>1. 10 \in Nat /\ 9 \in 1..10 /\ 9 - 1 = 8
    OBVIOUS
  <2>2. SpansOf(t) = [i \in 1 .. 9 - 1 |-> t[i + 1]]
    BY <1>3, <1>4, <1>6, <2>1, SpansInOrder
  <2>3. QED
    BY <2>1, <2>2
<1>8. \A i \in 1..8 : t[i + 1] = SpanAt(id, p, i)
  BY <1>2
<1>9. QED
  BY <1>7, <1>8 DEF SpansUpTo, t, x, RejectedTrace

(* The names of the first stages, as a sequence.                           *)
LEMMA NamesOfStages ==
  /\ [i \in 1..11 |-> Stages[i]] = Stages
  /\ [i \in 1..8 |-> Stages[i]] = SubSeq(Stages, 1, 8)
<1>1. Stages = [i \in 1..11 |-> Stages[i]]
  BY DEF Stages
<1> HIDE DEF Stages
<1> DEFINE S == {Stages[i] : i \in 1..11}
           sub == SubSeq(Stages, 1, 8)
<1>2. \A i \in 1..8 : Stages[i] \in S
  OBVIOUS
<1> HIDE DEF S
<1>3. sub \in Seq(S) /\ Len(sub) = 8 /\ \A i \in 1..8 : sub[i] = Stages[i]
  <2>1. /\ sub \in Seq(S) /\ Len(sub) = IF 1 <= 8 THEN 8 - 1 + 1 ELSE 0
        /\ \A i \in 1 .. 8 - 1 + 1 : sub[i] = Stages[1 + i - 1]
    BY <1>2, SubSeqProperties
  <2>2. 8 - 1 + 1 = 8 /\ \A i \in 1..8 : 1 + i - 1 = i
    OBVIOUS
  <2>3. QED
    BY <2>1, <2>2
<1>4. sub = [i \in 1..8 |-> sub[i]]
  BY <1>3
<1>5. QED
  BY <1>1, <1>3, <1>4

(* What the trace of a build with an output tells.                         *)
LEMMA OutputTells ==
  ASSUME NEW id, NEW p, NEW t, IsTraceOf(t, id, p), HasOutput(t)
  PROVE  /\ t[1] = Header(id, p)
         /\ \/ /\ t = TraceUpTo(id, p, 13) /\ Len(t) = 13
               /\ t[13] = TaskOutput(id, Made[p].status)
               /\ SpansOf(t) = SpansUpTo(id, p, 11)
            \/ /\ Len(t) = 10 /\ t[10] = TaskOutput(id, "REJECTED")
               /\ SpansOf(t) = SpansUpTo(id, p, 8)
         /\ \A i \in LinesOf(t, "span") : t[i] = SpanAt(id, p, i - 1)
<1>1. CASE t = TraceUpTo(id, p, 13)
  <2>1. /\ Len(t) = 13 /\ DOMAIN t = 1..13 /\ t[1] = Header(id, p)
        /\ t[13] = TaskOutput(id, Made[p].status)
        /\ \A i \in 2..12 : t[i] = SpanAt(id, p, i - 1)
    BY <1>1, UpTo
  <2>2. SpansOf(t) = SpansUpTo(id, p, 11)
    BY <1>1, SpansOfWhole
  <2>3. ASSUME NEW i \in LinesOf(t, "span") PROVE t[i] = SpanAt(id, p, i - 1)
    <3>1. i \in 1..13 /\ t[i].t = "span"
      BY <2>1 DEF LinesOf
    <3>2. i # 1 /\ i # 13
      BY <2>1, <3>1, HeaderFields, OutputFields
    <3>3. QED
      BY <2>1, <3>1, <3>2
  <2>4. QED
    BY <1>1, <2>1, <2>2, <2>3
<1>2. CASE t = RejectedTrace(id, p)
  <2> DEFINE x == TaskOutput(id, "REJECTED")
  <2>1. t = Append(TraceUpTo(id, p, 9), x)
    BY <1>2 DEF RejectedTrace
  <2>2. x.t = "task_output"
    BY OutputFields
  <2> HIDE DEF x
  <2>3. /\ t = [i \in 1..10 |-> t[i]] /\ Len(t) = 10 /\ t[1] = Header(id, p)
        /\ t[10] = x /\ \A i \in 2..9 : t[i] = SpanAt(id, p, i - 1)
    BY <2>1, TenthLine
  <2>4. SpansOf(t) = SpansUpTo(id, p, 8)
    BY <1>2, SpansOfRejected
  <2>5. DOMAIN t = 1..10
    BY <2>3
  <2>6. ASSUME NEW i \in LinesOf(t, "span") PROVE t[i] = SpanAt(id, p, i - 1)
    <3>1. i \in 1..10 /\ t[i].t = "span"
      BY <2>5 DEF LinesOf
    <3>2. i # 1 /\ i # 10
      BY <2>2, <2>3, <3>1, HeaderFields
    <3>3. QED
      BY <2>3, <3>1, <3>2
  <2>7. QED
    BY <2>3, <2>4, <2>6 DEF x
<1>3. QED
  BY <1>1, <1>2, TraceWithOutput

(* The stages of a trace are the names of its spans.                       *)
LEMMA StagesOfSpans ==
  ASSUME NEW id, NEW p, NEW t, NEW k \in 1..11, SpansOf(t) = SpansUpTo(id, p, k)
  PROVE  StagesOf(t) = [i \in 1..k |-> Stages[i]]
<1>1. DOMAIN SpansOf(t) = 1..k /\ \A i \in 1..k : SpansOf(t)[i] = SpanAt(id, p, i)
  BY DEF SpansUpTo
<1>2. ASSUME NEW i \in 1..k PROVE SpansOf(t)[i].name = Stages[i]
  BY <1>1, SpanContent
<1>3. QED
  BY <1>1, <1>2 DEF StagesOf

(* load_trace accepts what a build leaves at any time, unless a line is    *)
(* torn; and where there is an output, all stages up to the verdict it     *)
(* reports have been recorded.                                             *)
THEOREM OfflineTracesLoad == Spec => []TracesLoad
<1>1. BuildInv => TracesLoad
  <2> SUFFICES ASSUME BuildInv, Whole(trace)
               PROVE  /\ Loads(trace)
                      /\ HasOutput(trace) =>
                           /\ trace[Len(trace)].t = "task_output"
                           /\ \/ StagesOf(trace) = Stages
                              \/ /\ StagesOf(trace) = SubSeq(Stages, 1, 8)
                                 /\ trace[Len(trace)].status = "REJECTED"
    BY DEF TracesLoad
  <2> DEFINE id == request.id
             p == request.prompt
  <2>1. IsTraceOf(trace, id, p)
    BY DEF BuildInv, TraceInv
  <2> HIDE DEF id, p
  <2>2. Loads(trace)
    BY <2>1, TraceLoads, OrderedLoads
  <2>3. ASSUME HasOutput(trace)
        PROVE  /\ trace[Len(trace)].t = "task_output"
               /\ \/ StagesOf(trace) = Stages
                  \/ /\ StagesOf(trace) = SubSeq(Stages, 1, 8)
                     /\ trace[Len(trace)].status = "REJECTED"
    <3>1. CASE /\ Len(trace) = 13 /\ trace[13] = TaskOutput(id, Made[p].status)
               /\ SpansOf(trace) = SpansUpTo(id, p, 11)
      <4>1. StagesOf(trace) = [i \in 1..11 |-> Stages[i]]
        BY <3>1, StagesOfSpans
      <4>2. QED
        BY <3>1, <4>1, NamesOfStages, OutputFields
    <3>2. CASE /\ Len(trace) = 10 /\ trace[10] = TaskOutput(id, "REJECTED")
               /\ SpansOf(trace) = SpansUpTo(id, p, 8)
      <4>1. StagesOf(trace) = [i \in 1..8 |-> Stages[i]]
        BY <3>2, StagesOfSpans
      <4>2. QED
        BY <3>2, <4>1, NamesOfStages, OutputFields
    <3>3. QED
      BY <2>1, <2>3, <3>1, <3>2, OutputTells
  <2>4. QED
    BY <2>2, <2>3
<1>2. QED
  BY <1>1, BuildInvariant, PTL

(* Where the trace a record names still stands, trace, artifacts and the   *)
(* generated files it refers to are those of one build; and a manifest that*)
(* verifies vouches for such a record.                                     *)
THEOREM OneBuildsEvidence == Spec => []EvidenceIsOfOneBuild
<1>1. BuildBasics /\ BuildInv => EvidenceIsOfOneBuild
  <2> SUFFICES ASSUME BuildBasics, BuildInv PROVE EvidenceIsOfOneBuild
    OBVIOUS
  <2>1. ASSUME RecordIsOfTrace
        PROVE  LET promised == Made[record.prompt]
               IN  /\ Loads(trace)
                   /\ trace[Len(trace)] = TaskOutput(record.id, record.status)
                   /\ \A name \in ArtifactSet \ {"artifact_diff.json"} :
                        artifacts[name] = promised.output[name]
                   /\ record.seen.artifacts = artifacts
                   /\ \A path \in Listed(promised.tree) :
                        record.seen.disk[path] = promised.tree[path]
    <3>1. /\ record \notin {Absent, Torn} /\ trace # <<>>
          /\ trace[1] = Header(record.id, record.prompt)
      BY <2>1 DEF RecordIsOfTrace
    <3>2. trace[1] # TornLine
      <4>1. Header(record.id, record.prompt).t = "header" /\ TornLine.t = "torn"
        BY DEF Header, TornLine
      <4>2. QED
        BY <3>1, <4>1
    <3>3. request.id # 0 /\ trace[1] = Header(request.id, request.prompt)
      BY <3>1, <3>2 DEF BuildInv, TraceInv
    <3>4. record.id = request.id
      <4>1. trace[1].trace = record.id
        BY <3>1 DEF Header
      <4>2. trace[1].trace = request.id
        BY <3>3 DEF Header
      <4>3. QED
        BY <4>1, <4>2
    <3>5. /\ record.prompt = request.prompt /\ record.status = made.status
          /\ trace = TraceUpTo(request.id, request.prompt, 13)
          /\ \A name \in ArtifactSet \ {"artifact_diff.json"} :
               artifacts[name] = made.output[name]
          /\ record.seen.artifacts = artifacts
          /\ \A path \in Listed(made.tree) : record.seen.disk[path] = made.tree[path]
      BY <3>1, <3>4 DEF BuildInv, RecordInv
    <3>6. made = Made[request.prompt]
      BY <3>3 DEF BuildBasics, RequestOK, NoRequest, made
    <3> DEFINE id == request.id
               p == request.prompt
    <3>7. trace = TraceUpTo(id, p, 13)
      BY <3>5
    <3> HIDE DEF id, p
    <3>8. Loads(trace) /\ Len(trace) = 13 /\ trace[13] = TaskOutput(id, Made[p].status)
      <4>1. Ordered(trace, 13, id)
        BY <3>7, UpToIsOrdered
      <4>2. Loads(trace)
        BY <4>1, OrderedLoads
      <4>3. Len(trace) = 13 /\ trace[13] = TaskOutput(id, Made[p].status)
        BY <3>7, UpTo
      <4>4. QED
        BY <4>2, <4>3
    <3>9. trace[Len(trace)] = TaskOutput(record.id, record.status)
      BY <3>4, <3>5, <3>6, <3>8 DEF id, p
    <3>10. QED
      BY <3>5, <3>6, <3>8, <3>9
  <2>2. ASSUME manifest \notin {Absent, Torn}, manifest.seen = Seen,
               manifest.record = record
        PROVE  RecordIsOfTrace
    <3>1. /\ record \notin {Absent, Torn} /\ manifest.seen.trace # <<>>
          /\ manifest.seen.trace[1] = Header(record.id, record.prompt)
      BY <2>2 DEF BuildInv, ManifestInv
    <3>2. manifest.seen.trace = trace
      BY <2>2 DEF Seen
    <3>3. QED
      BY <3>1, <3>2 DEF RecordIsOfTrace
  <2>3. QED
    BY <2>1, <2>2 DEF EvidenceIsOfOneBuild
<1>2. QED
  BY <1>1, Basics, BuildInvariant, PTL

-----------------------------------------------------------------------------
(* The spans of b are those of the first k stages for the prompt p.        *)
RunOf(b, p, k) == k \in 1..11 /\ \E id : SpansOf(b) = SpansUpTo(id, p, k)

(* Two runs with outputs are equivalent when they are of one prompt and as *)
(* long as each other.                                                     *)
LEMMA EquivalentRuns ==
  ASSUME NEW b, NEW p, NEW k, RunOf(b, p, k), NEW c, NEW q, NEW m, RunOf(c, q, m)
  PROVE  Equivalent(b, c) <=> k = m /\ p = q
<1>1. PICK id, jd : SpansOf(b) = SpansUpTo(id, p, k) /\ SpansOf(c) = SpansUpTo(jd, q, m)
  BY DEF RunOf
<1>2. k \in 1..11 /\ m \in 1..11
  BY DEF RunOf
<1>3. /\ SpansOf(b) = [i \in 1..k |-> SpansOf(b)[i]] /\ DOMAIN SpansOf(b) = 1..k
      /\ SpansOf(c) = [i \in 1..m |-> SpansOf(c)[i]]
      /\ \A i \in 1..k : SpansOf(b)[i] = SpanAt(id, p, i)
      /\ \A i \in 1..m : SpansOf(c)[i] = SpanAt(jd, q, i)
  BY <1>1 DEF SpansUpTo
<1>4. Len(SpansOf(b)) = k /\ Len(SpansOf(c)) = m
  <2>1. k \in Nat /\ m \in Nat
    BY <1>2
  <2>2. Len(SpansOf(b)) = k
    BY <1>3, <2>1, Grown
  <2>3. Len(SpansOf(c)) = m
    BY <1>3, <2>1, Grown
  <2>4. QED
    BY <2>2, <2>3
<1>5. ASSUME k = m, p = q PROVE Equivalent(b, c)
  <2>1. ASSUME NEW i \in 1..k
        PROVE  /\ Signature(SpansOf(b)[i]) = Signature(SpansOf(c)[i])
               /\ Outcome(SpansOf(b)[i]) = Outcome(SpansOf(c)[i])
    <3> DEFINE x == SpansOf(b)[i]
               y == SpansOf(c)[i]
    <3>1. x = SpanAt(id, p, i) /\ y = SpanAt(jd, p, i)
      BY <1>3, <1>5
    <3> HIDE DEF x, y
    <3>2. x.name = y.name /\ x.input = y.input /\ x.output = y.output
      BY <3>1, SpanContent
    <3>3. x.failed = y.failed
      BY <3>1 DEF SpanAt, Span
    <3>4. QED
      BY <3>2, <3>3 DEF Signature, Outcome, x, y
  <2>2. QED
    BY <1>3, <1>4, <1>5, <2>1 DEF Equivalent
<1>6. ASSUME Equivalent(b, c) PROVE k = m /\ p = q
  <2>1. k = m
    BY <1>4, <1>6 DEF Equivalent
  <2>2. Signature(SpansOf(b)[1]) = Signature(SpansOf(c)[1])
    <3>1. 1 \in DOMAIN SpansOf(b)
      BY <1>3, <1>2
    <3>2. QED
      BY <1>6, <3>1, Zenon DEF Equivalent
  <2>3. SpansOf(b)[1].input = SpansOf(c)[1].input
    BY <2>2 DEF Signature
  <2>4. SpansOf(b)[1].input = GivenTo(p, 1) /\ SpansOf(c)[1].input = GivenTo(q, 1)
    <3>1. SpansOf(b)[1] = SpanAt(id, p, 1) /\ SpansOf(c)[1] = SpanAt(jd, q, 1)
      BY <1>3, <1>2
    <3>2. QED
      BY <3>1, SpanContent
  <2>5. GivenTo(p, 1) = p /\ GivenTo(q, 1) = q
    BY DEF GivenTo
  <2>6. QED
    BY <2>1, <2>3, <2>4, <2>5
<1>7. QED
  BY <1>5, <1>6

(* Traces all of whose spans are those of one prompt do not diverge.       *)
LEMMA OnePromptAgrees ==
  ASSUME NEW T, NEW p,
         \A t \in T : \A i \in LinesOf(t, "span") :
           \E id, j : t[i] = SpanAt(id, p, j)
  PROVE  ~Divergent(T)
<1> DEFINE LineAt(o) == o[1][o[2]]
<1>1. ASSUME NEW o \in SpanSet(T)
      PROVE  \E id, j : LineAt(o) = SpanAt(id, p, j)
  <2>1. PICK t \in T : \E i \in LinesOf(t, "span") : o = <<t, i>>
    BY DEF SpanSet
  <2>2. PICK i \in LinesOf(t, "span") : o = <<t, i>>
    BY <2>1
  <2>3. LineAt(o) = t[i]
    BY <2>2
  <2>4. QED
    BY <2>1, <2>2, <2>3
<1>2. ASSUME NEW s \in DOMAIN Census(T) PROVE Census(T)[s] # "WITNESSED_DIVERGENT"
  <2> DEFINE seen == Observations(T, s)
             spans == {o[1][o[2]] : o \in seen}
             outputs == {x.output : x \in spans}
             common == Made[p].output[s[1]]
  <2>1. PICK o \in SpanSet(T) : s = Signature(LineAt(o))
    BY DEF Census
  <2>2. o \in seen
    BY <2>1 DEF Observations
  <2>3. ASSUME NEW x \in spans PROVE ~x.failed /\ x.output = common
    <3>1. PICK r \in SpanSet(T) : x = LineAt(r) /\ Signature(x) = s
      BY DEF Observations
    <3>2. PICK id, j : x = SpanAt(id, p, j)
      BY <1>1, <3>1
    <3>3. ~x.failed /\ x.name = Stages[j] /\ x.output = Made[p].output[Stages[j]]
      BY <3>2, SpanContent
    <3>4. s[1] = x.name
      BY <3>1 DEF Signature
    <3>5. QED
      BY <3>3, <3>4
  <2>4. LineAt(o) \in spans
    BY <2>2
  <2> HIDE DEF common, seen
  <2>5. outputs = {common}
    BY <2>3, <2>4
  <2>6. Cardinality(outputs) = 1
    BY <2>5, FS_Singleton
  <2>7. Census(T)[s] = ClassOf(T, s)
    BY DEF Census
  <2>8. ClassOf(T, s) \in {"UNWITNESSED", "WITNESSED_DETERMINISTIC"}
    <3>1. ClassOf(T, s) =
            IF Cardinality(seen) < 2 THEN "UNWITNESSED"
            ELSE IF (\A x \in spans : ~x.failed) /\ Cardinality(outputs) = 1
                   THEN "WITNESSED_DETERMINISTIC"
                   ELSE "WITNESSED_DIVERGENT"
      BY DEF ClassOf, seen
    <3> HIDE DEF spans, outputs
    <3>2. QED
      BY <2>3, <2>6, <3>1
  <2>9. QED
    BY <2>7, <2>8
<1>3. QED
  BY <1>2 DEF Divergent

(* Of two runs in one directory, compare_traces calls them equivalent      *)
(* exactly when they were of one prompt and both, or neither, went past the*)
(* blocking check; and runs of one prompt never diverge.                   *)
THEOREM OfflineTracesTell == Spec => []TracesTellRuns
<1>1. BuildInv => TracesTellRuns
  <2> SUFFICES ASSUME BuildInv, \A t \in {former, trace} : Whole(t) /\ HasOutput(t)
               PROVE  LET onePrompt == former[1].input = trace[1].input
                      IN  /\ Equivalent(former, trace)
                                <=> onePrompt /\ Len(former) = Len(trace)
                          /\ onePrompt => ~Divergent({former, trace})
    BY DEF TracesTellRuns
  <2> DEFINE jd == request.id
             q == request.prompt
  <2>1. IsTraceOf(trace, jd, q) /\ HasOutput(trace)
    BY DEF BuildInv, TraceInv
  <2>2. PICK id, p : IsTraceOf(former, id, p) /\ HasOutput(former)
    BY DEF BuildInv, TraceInv
  <2> HIDE DEF jd, q
  <2>3. PICK k \in {8, 11} : SpansOf(former) = SpansUpTo(id, p, k) /\ Len(former) = k + 2
    BY <2>2, OutputTells
  <2>4. PICK m \in {8, 11} : SpansOf(trace) = SpansUpTo(jd, q, m) /\ Len(trace) = m + 2
    BY <2>1, OutputTells
  <2>5. k \in 1..11 /\ m \in 1..11 /\ (k = m <=> Len(former) = Len(trace))
    BY <2>3, <2>4
  <2>6. former[1].input = p /\ trace[1].input = q
    <3>1. former[1] = Header(id, p) /\ trace[1] = Header(jd, q)
      BY <2>1, <2>2, OutputTells
    <3>2. QED
      BY <3>1, HeaderFields
  <2>7. Equivalent(former, trace) <=> k = m /\ p = q
    <3>1. RunOf(former, p, k) /\ RunOf(trace, q, m)
      BY <2>3, <2>4, <2>5 DEF RunOf
    <3>2. QED
      BY <3>1, EquivalentRuns
  <2>8. ASSUME p = q PROVE ~Divergent({former, trace})
    <3>1. ASSUME NEW t \in {former, trace}, NEW i \in LinesOf(t, "span")
          PROVE  \E kd, j : t[i] = SpanAt(kd, p, j)
      <4>1. CASE t = former
        BY <2>2, <3>1, <4>1, OutputTells
      <4>2. CASE t = trace
        BY <2>1, <2>8, <3>1, <4>2, OutputTells
      <4>3. QED
        BY <3>1, <4>1, <4>2
    <3>2. QED
      BY <3>1, OnePromptAgrees
  <2>9. QED
    BY <2>5, <2>6, <2>7, <2>8
<1>2. QED
  BY <1>1, BuildInvariant, PTL
=============================================================================
