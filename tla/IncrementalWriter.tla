-------------------------- MODULE IncrementalWriter --------------------------
(***************************************************************************)
(* IncrementalArtifactWriter.write (incremental/engine.py): brings the     *)
(* generated_app directory to the files the compiler has just produced,    *)
(* touching only what differs, with the help of an index of content hashes *)
(* (.ssm_artifact_hashes.json) that the previous write left there.         *)
(*                                                                         *)
(* A content stands for its SHA-256.  Between two writes anyone may edit   *)
(* the directory; during a write the process may die after any file        *)
(* operation, with the file it was writing torn.                           *)
(***************************************************************************)
EXTENDS Integers, FiniteSets

CONSTANTS
  Paths,       (* relative paths; numbers, since the loop is sorted         *)
  Contents,    (* contents the compiler or a user may give a file           *)
  Absent,      (* no file at the path, or no entry in the index             *)
  Torn,        (* the content of a file whose write was cut short           *)
  MaxCrashes   (* bound: how often the process dies                         *)

ASSUME PathsAssumption == Paths \subseteq Int /\ IsFiniteSet(Paths)
ASSUME ContentsAssumption ==
  /\ {Absent, Torn} \cap Contents = {} /\ Absent # Torn
  /\ {Absent, Torn} \cap [Paths -> Contents \cup {Absent}] = {}
ASSUME CrashesAssumption == MaxCrashes \in Nat

VARIABLES
  wpc,      (* "idle", "emit" (the loop) or "index" (about to write it)     *)
  disk,     (* the files of the directory, the index apart                  *)
  index,    (* what the index file says, or Torn, or Absent                 *)
  job,      (* locals of the running (or last) write                        *)
  owned,    (* history: the paths the compiler has ever written             *)
  touched,  (* history: the paths this write has written or unlinked        *)
  edited,   (* history: whether a user has ever edited the directory        *)
  crashes

writerVars == <<wpc, disk, index, job, owned, touched, edited, crashes>>

-----------------------------------------------------------------------------
Generated == [Paths -> Contents \cup {Absent}]
Files     == [Paths -> Contents \cup {Absent, Torn}]
Nowhere   == [p \in Paths |-> Absent]

Listed(tree) == {p \in Paths : tree[p] # Absent}

WriterInit ==
  /\ wpc = "idle"
  /\ disk \in Generated
  /\ index = Absent
  /\ job = [before |-> disk, after |-> Nowhere, todo |-> {}, ended |-> "never"]
  /\ owned = {}
  /\ touched = {}
  /\ edited = FALSE
  /\ crashes = 0

(* Faulty variant: the index is never read back.                            *)
NoIndex == Nowhere

(* _load_index: a missing or unreadable index is an empty one.             *)
LoadIndex == IF index \in {Absent, Torn} THEN Nowhere ELSE index

(* Faulty variants: the hashes of the index are believed; the whole         *)
(* directory is hashed.                                                    *)
IndexedHashes == LoadIndex
DirectoryHashes == disk

(* _actual_hashes: the index only says where to look; the hashes are those *)
(* of the files that are really there.                                     *)
ActualHashes ==
  [p \in Paths |-> IF LoadIndex[p] # Absent THEN disk[p] ELSE Absent]

BeginWith(files) ==
  /\ wpc = "idle"
  /\ job' = [before |-> ActualHashes, after |-> files,
             todo |-> Listed(ActualHashes) \cup Listed(files),
             ended |-> "running"]
  /\ touched' = {}
  /\ wpc' = "emit"
  /\ UNCHANGED <<disk, index, owned, edited, crashes>>

Begin == \E files \in Generated : BeginWith(files)

-----------------------------------------------------------------------------
(* ArtifactChange.status *)
ChangeOf(p) ==
  CASE job.before[p] = Absent -> "added"
    [] job.before[p] # Absent /\ job.after[p] = Absent -> "removed"
    [] job.before[p] # Absent /\ job.after[p] # Absent
         /\ job.before[p] # job.after[p] -> "modified"
    [] OTHER -> "unchanged"

IsNext(p) == p \in job.todo /\ \A q \in job.todo : p <= q

Advance(p) == job' = [job EXCEPT !.todo = @ \ {p}]

Write(p) ==
  /\ ChangeOf(p) \in {"added", "modified"}
  /\ disk' = [disk EXCEPT ![p] = job.after[p]]
  /\ owned' = owned \cup {p}
  /\ touched' = touched \cup {p}

Unlink(p) ==
  /\ ChangeOf(p) = "removed"
  /\ disk' = [disk EXCEPT ![p] = Absent]
  /\ touched' = touched \cup {p}
  /\ UNCHANGED owned

Leave(p) ==
  /\ ChangeOf(p) = "unchanged"
  /\ UNCHANGED <<disk, owned, touched>>

(* One round of the sorted loop.                                           *)
Emit ==
  /\ wpc = "emit"
  /\ \E p \in Paths :
       /\ IsNext(p)
       /\ Write(p) \/ Unlink(p) \/ Leave(p)
       /\ Advance(p)
  /\ UNCHANGED <<wpc, index, edited, crashes>>

(* The loop is done and empty directories are gone.                        *)
EndLoop ==
  /\ wpc = "emit" /\ job.todo = {}
  /\ wpc' = "index"
  /\ UNCHANGED <<disk, index, job, owned, touched, edited, crashes>>

(* Faulty variant: the index lists only what this write has changed.        *)
IndexChanges ==
  /\ wpc = "index"
  /\ index' = [p \in Paths |-> IF p \in touched THEN job.after[p] ELSE Absent]
  /\ job' = [job EXCEPT !.ended = "returned"]
  /\ wpc' = "idle"
  /\ UNCHANGED <<disk, owned, touched, edited, crashes>>

(* The index is written last, and the diff is returned.                    *)
WriteIndex ==
  /\ wpc = "index"
  /\ index' = job.after
  /\ job' = [job EXCEPT !.ended = "returned"]
  /\ wpc' = "idle"
  /\ UNCHANGED <<disk, owned, touched, edited, crashes>>

-----------------------------------------------------------------------------
(* The process dies.  The file or the index it was writing is torn.        *)
TearFile ==
  /\ wpc = "emit"
  /\ \E p \in Paths :
       /\ IsNext(p)
       /\ ChangeOf(p) \in {"added", "modified"}
       /\ disk' = [disk EXCEPT ![p] = Torn]
       /\ owned' = owned \cup {p}
       /\ touched' = touched \cup {p}
  /\ UNCHANGED index

TearIndex ==
  /\ wpc = "index"
  /\ index' = Torn
  /\ UNCHANGED <<disk, owned, touched>>

Crash ==
  /\ wpc # "idle" /\ crashes < MaxCrashes
  /\ crashes' = crashes + 1
  /\ \/ UNCHANGED <<disk, index, owned, touched>>
     \/ TearFile
     \/ TearIndex
  /\ job' = [job EXCEPT !.ended = "crashed", !.todo = {}]
  /\ wpc' = "idle"
  /\ UNCHANGED edited

(* A user edits, adds or deletes a file between two writes.                *)
Edit ==
  /\ wpc = "idle"
  /\ \E p \in Paths, c \in Contents \cup {Absent} :
       /\ disk[p] # c
       /\ disk' = [disk EXCEPT ![p] = c]
  /\ job' = [job EXCEPT !.ended = "edited"]
  /\ edited' = TRUE
  /\ UNCHANGED <<wpc, index, owned, touched, crashes>>

WriterNext == Begin \/ Emit \/ EndLoop \/ WriteIndex \/ Crash \/ Edit

WriterSpec == WriterInit /\ [][WriterNext]_writerVars

-----------------------------------------------------------------------------
(* Type invariant.                                                         *)
TypeOK ==
  /\ wpc \in {"idle", "emit", "index"}
  /\ disk \in Files
  /\ index \in Generated \cup {Absent, Torn}
  /\ job \in [before : Files, after : Generated, todo : SUBSET Paths,
              ended : {"never", "running", "returned", "crashed", "edited"}]
  /\ owned \subseteq Paths
  /\ touched \subseteq Paths
  /\ edited \in BOOLEAN
  /\ crashes \in Nat

(* A write that ends has produced exactly what the compiler asked for,     *)
(* whatever edits, crashes and torn files it found: every generated file   *)
(* is there with its content, and every file the loaded index listed that  *)
(* is no longer generated is gone.                                         *)
WriteConverges ==
  wpc = "index" =>
    /\ \A p \in Listed(job.after) : disk[p] = job.after[p]
    /\ \A p \in Listed(LoadIndex) \ Listed(job.after) : disk[p] = Absent

(* A file the compiler never wrote and does not generate now is never      *)
(* modified or removed by a write, whatever the index has become.          *)
StrangersUntouched ==
  [][wpc # "idle" =>
       \A p \in Paths \ (owned \cup Listed(job.after)) : disk'[p] = disk[p]]_writerVars

(* Right after a write, generating the same files again finds nothing to   *)
(* do: all paths would be reported unchanged.                              *)
RewriteIsIdle ==
  wpc = "idle" /\ job.ended = "returned" => ActualHashes = job.after

(* Where nobody edits the directory and no write was ever cut short, no    *)
(* file of an earlier generation outlives a write that does not generate   *)
(* it.                                                                     *)
NoOrphans ==
  wpc = "idle" /\ job.ended = "returned" /\ ~edited /\ crashes = 0 =>
    \A p \in owned : disk[p] # Absent => job.after[p] # Absent

-----------------------------------------------------------------------------
(* The inductive invariant behind the theorems of OfflineBuildProofs:      *)
(* the rounds that are over have left their path as it has to be, and the  *)
(* others have not been touched since the hashes were taken.               *)
IndexIsOwned == index \notin {Absent, Torn} => Listed(index) \subseteq owned

Concerned == Listed(job.before) \cup Listed(job.after)

Done(p) ==
  /\ job.after[p] # Absent => disk[p] = job.after[p] /\ p \in owned
  /\ job.after[p] = Absent => disk[p] = Absent

RoundInv(p) ==
  /\ job.before[p] # Absent => LoadIndex[p] # Absent
  /\ LoadIndex[p] # Absent /\ p \notin Concerned => disk[p] = Absent
  /\ p \in Concerned \ job.todo => Done(p)
  /\ p \in job.todo =>
       p \in Concerned /\ p \notin touched
         /\ (job.before[p] # Absent => disk[p] = job.before[p])
  /\ p \in touched => ChangeOf(p) # "unchanged"
  /\ wpc = "index" => p \notin job.todo

LoopInv == wpc # "idle" => \A p \in Paths : RoundInv(p)

AfterReturn ==
  wpc = "idle" /\ job.ended = "returned" =>
    /\ index = job.after
    /\ \A p \in Listed(job.after) : disk[p] = job.after[p]

WriterInv == IndexIsOwned /\ LoopInv /\ AfterReturn

(* Without edits and crashes every file the compiler has left behind is in *)
(* the index, or is being generated again.                                 *)
OwnedAreKnown ==
  ~edited /\ crashes = 0 =>
    \A p \in owned : disk[p] # Absent =>
      \/ LoadIndex[p] # Absent
      \/ wpc # "idle" /\ job.after[p] # Absent
=============================================================================
