---------------------------- MODULE AtomicOutput ----------------------------
(***************************************************************************)
(* How the tools write their output: to a temporary file in the same       *)
(* directory, synchronised to the disk and then renamed over the output    *)
(* (merge_perfetto_traces, convert_compact_trace, build_trace_index), or   *)
(* linked to it if it must not exist yet (build_trace_index, replace =     *)
(* False); and how verify_trace_index, a database client, uses an index.   *)
(*                                                                         *)
(* Several processes write to one output.  A process may be killed at any  *)
(* point, and the power may fail: then a file that was not synchronised is *)
(* torn, and the last renames may be undone, in reverse order.             *)
(***************************************************************************)
EXTENDS Integers, FiniteSets

CONSTANTS
  Jobs,        \* runs of the tools; a run also names the file it writes
  Verifiers,   \* runs of verify_trace_index
  Before,      \* the output from before, a file
  NoFile

ASSUME OutputAssumption == Before \notin Jobs /\ NoFile \notin Jobs \cup {Before}

Kinds == {"trace", "index", "new_index"}
Files == Jobs \cup {Before}

VARIABLES
  kind,        \* what each job does
  job,         \* how far it is
  temporary,   \* the temporary files that exist
  whole,       \* the files whose content is complete
  synced,      \* the files whose content is on the disk
  output,      \* the file the output's name refers to, or NoFile
  undoable,    \* what it referred to since it was last known on the disk
  wal,         \* the file to which the output's -wal belongs, or NoFile
  verifier,    \* the file each verifier has open, or NoFile
  committed,   \* the verifiers that have committed to the file they have open
  cut,         \* the indexes whose -wal a client left that did not get to close
  mixed,       \* history: the indexes opened with the -wal of another file
  overtaken    \* history: the output was changed under a client or a left -wal

fileVars == <<temporary, whole, synced, output, undoable>>
indexVars == <<wal, verifier, committed, cut, mixed, overtaken>>
outputVars == <<kind, job, fileVars, indexVars>>

Running(j) == job[j] \in {"created", "writing", "filled", "linked"}

----------------------------------------------------------------------------
(* The file is created under a name of its own.  An index is then opened as *)
(* a database, which writes to it; a trace is written as it is.             *)
Start(j) ==
  /\ job[j] = "idle"
  /\ IF kind[j] = "new_index" /\ output # NoFile
     THEN /\ job' = [job EXCEPT ![j] = "failed"]
          /\ UNCHANGED temporary
     ELSE /\ job' = [job EXCEPT ![j] = IF kind[j] = "trace" THEN "writing" ELSE "created"]
          /\ temporary' = temporary \cup {j}
  /\ UNCHANGED <<kind, whole, synced, output, undoable, indexVars>>

Connect(j) ==
  /\ job[j] = "created"
  /\ job' = [job EXCEPT ![j] = "writing"]
  /\ UNCHANGED <<kind, fileVars, indexVars>>

(* All is written, flushed and synchronised; a database is closed.          *)
Fill_Unsynced(j) ==
  /\ job[j] = "writing"
  /\ job' = [job EXCEPT ![j] = "filled"]
  /\ whole' = whole \cup {j}
  /\ UNCHANGED <<kind, synced, temporary, output, undoable, indexVars>>
Fill(j) ==
  /\ job[j] = "writing"
  /\ job' = [job EXCEPT ![j] = "filled"]
  /\ whole' = whole \cup {j} /\ synced' = synced \cup {j}
  /\ UNCHANGED <<kind, temporary, output, undoable, indexVars>>

(* An error while the file is written or published removes it.             *)
Fail(j) ==
  /\ job[j] \in {"writing", "filled"}
  /\ job' = [job EXCEPT ![j] = "failed"]
  /\ temporary' = temporary \ {j}
  /\ UNCHANGED <<kind, whole, synced, output, undoable, indexVars>>

(* An index that cannot be opened as a database or closed stays behind.     *)
FailAsDatabase(j) ==
  /\ job[j] = "created" \/ (job[j] = "writing" /\ kind[j] # "trace")
  /\ job' = [job EXCEPT ![j] = "failed"]
  /\ UNCHANGED <<kind, fileVars, indexVars>>

Refer(j) == output' = j /\ undoable' = undoable \cup {j}

(* os.replace, whether or not the index it takes the place of is open, or   *)
(* has a -wal that was left.                                                *)
InUse == (\E v \in Verifiers : verifier[v] # NoFile) \/ output \in cut

Replace(j) ==
  /\ job[j] = "filled" /\ kind[j] # "new_index"
  /\ Refer(j)
  /\ temporary' = temporary \ {j}
  /\ job' = [job EXCEPT ![j] = "done"]
  /\ overtaken' = (overtaken \/ InUse)
  /\ UNCHANGED <<kind, whole, synced, wal, verifier, committed, cut, mixed>>

(* os.link fails if the name is taken.                                      *)
LinkTaken_Ignored(j) == FALSE
LinkTaken(j) == output # NoFile

Link(j) ==
  /\ job[j] = "filled" /\ kind[j] = "new_index"
  /\ IF LinkTaken(j)
     THEN /\ job' = [job EXCEPT ![j] = "failed"]
          /\ temporary' = temporary \ {j}
          /\ UNCHANGED <<output, undoable>>
     ELSE /\ job' = [job EXCEPT ![j] = "linked"]
          /\ Refer(j)
          /\ UNCHANGED temporary
  /\ UNCHANGED <<kind, whole, synced, indexVars>>

(* If the other name cannot be removed, that is tried once more, and the    *)
(* run fails though its output is published.                                *)
Unlink(j) ==
  /\ job[j] = "linked"
  /\ \/ /\ job' = [job EXCEPT ![j] = "done"]
        /\ temporary' = temporary \ {j}
     \/ /\ job' = [job EXCEPT ![j] = "failed"]
        /\ temporary' \in {temporary, temporary \ {j}}
  /\ UNCHANGED <<kind, whole, synced, output, undoable, indexVars>>

Kill(j) ==
  /\ Running(j)
  /\ job' = [job EXCEPT ![j] = "dead"]
  /\ UNCHANGED <<kind, fileVars, indexVars>>

----------------------------------------------------------------------------
(* verify_trace_index: opening an index recovers the -wal found beside it.  *)
(* What is committed goes to the -wal, and into the file when the last one  *)
(* that has it open closes it.                                              *)
Indexing == \A j \in Jobs : kind[j] # "trace"

VerifyOpen(v) ==
  /\ verifier[v] = NoFile
  /\ Indexing /\ output # NoFile
  /\ verifier' = [verifier EXCEPT ![v] = output]
  /\ mixed' = IF wal \notin {NoFile, output} THEN mixed \cup {output} ELSE mixed
  /\ UNCHANGED <<kind, job, fileVars, wal, committed, cut, overtaken>>

VerifyCommit(v) ==
  /\ verifier[v] # NoFile /\ v \notin committed
  /\ committed' = committed \cup {v}
  /\ wal' = IF wal = NoFile THEN verifier[v] ELSE wal
  /\ UNCHANGED <<kind, job, fileVars, verifier, cut, mixed, overtaken>>

OpenElsewhere(v) == \E u \in Verifiers \ {v} : verifier[u] = verifier[v]

VerifyClose_KeepsWal(v) ==
  /\ verifier[v] # NoFile
  /\ verifier' = [verifier EXCEPT ![v] = NoFile]
  /\ committed' = committed \ {v}
  /\ UNCHANGED <<kind, job, fileVars, wal, cut, mixed, overtaken>>
VerifyClose(v) ==
  /\ verifier[v] # NoFile
  /\ verifier' = [verifier EXCEPT ![v] = NoFile]
  /\ committed' = committed \ {v}
  /\ IF OpenElsewhere(v) THEN UNCHANGED <<wal, cut>>
     ELSE wal' = NoFile /\ cut' = cut \ {verifier[v]}
  /\ UNCHANGED <<kind, job, fileVars, mixed, overtaken>>

Left(v) == {verifier[v]} \cap {wal}

VerifyKill(v) ==
  /\ verifier[v] # NoFile
  /\ verifier' = [verifier EXCEPT ![v] = NoFile]
  /\ committed' = committed \ {v}
  /\ cut' = cut \cup Left(v)
  /\ UNCHANGED <<kind, job, fileVars, wal, mixed, overtaken>>

----------------------------------------------------------------------------
(* The power fails: everything that runs is gone, a suffix of the renames   *)
(* too.  What was not synchronised is torn.                                 *)
PowerLoss ==
  /\ \E j \in Jobs : Running(j) \/ job[j] = "done"
  /\ \E f \in undoable :
       /\ output' = f /\ undoable' = {f}
       /\ overtaken' = (overtaken \/ (f # output /\ InUse))
  /\ whole' = whole \cap synced
  /\ job' = [j \in Jobs |-> IF Running(j) THEN "dead" ELSE job[j]]
  /\ verifier' = [v \in Verifiers |-> NoFile] /\ committed' = {}
  /\ cut' = (cut \cup UNION {Left(v) : v \in Verifiers}) \ {NoFile}
  /\ UNCHANGED <<kind, temporary, synced, wal, mixed>>

OutputInit ==
  /\ kind \in [Jobs -> Kinds]
  /\ Indexing \/ \A j \in Jobs : kind[j] = "trace"
  /\ job = [j \in Jobs |-> "idle"] /\ temporary = {}
  /\ whole = {Before} /\ synced = {Before}
  /\ output \in {Before, NoFile} /\ undoable = {output}
  /\ wal = NoFile /\ verifier = [v \in Verifiers |-> NoFile]
  /\ committed = {} /\ cut = {} /\ mixed = {} /\ overtaken = FALSE

OutputNext ==
  \/ \E j \in Jobs :
       \/ Start(j) \/ Connect(j) \/ Fill(j) \/ Replace(j) \/ Link(j) \/ Unlink(j)
       \/ Fail(j) \/ FailAsDatabase(j) \/ Kill(j)
  \/ \E v \in Verifiers : VerifyOpen(v) \/ VerifyCommit(v) \/ VerifyClose(v) \/ VerifyKill(v)
  \/ PowerLoss

OutputSpec == OutputInit /\ [][OutputNext]_outputVars

----------------------------------------------------------------------------
(* Whatever fails, is killed or loses power, the output is the one from     *)
(* before or the complete output of a run.  A run that ends well leaves no  *)
(* temporary file, nor does a merge or a conversion that fails; a run that  *)
(* fails has not changed the output, unless it only could not remove the    *)
(* other name of its new index.                                             *)
OutputWhole ==
  /\ output # NoFile => output \in whole
  /\ \A j \in Jobs :
       /\ job[j] = "done" => j \notin temporary
       /\ job[j] = "failed" =>
            /\ kind[j] = "trace" => j \notin temporary
            /\ kind[j] # "new_index" => j \notin undoable

(* Of several runs that must create the output, and of the file that was    *)
(* there before, the output's name only ever refers to one: none takes the  *)
(* place of another, also if all found nothing there when they started.     *)
MustBeFirst == {Before} \cup {j \in Jobs : kind[j] = "new_index"}
OneNewIndex == \A f, g \in undoable \cap MustBeFirst : f = g

(* A completed index is published atomically: a client opens an index as it *)
(* was built or verified, never with the recovery log of another one,       *)
(* whatever clients and builds were killed before, as long as no index was  *)
(* published while a client had the one before open, or before the next     *)
(* client closed it after one that did not get to.                          *)
IndexAsBuilt == mixed # {} => overtaken
=============================================================================
