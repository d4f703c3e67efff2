-------------------------- MODULE TraceTools_proofs --------------------------
(***************************************************************************)
(* The output of the tools is whole, and an index is opened as it was      *)
(* built, for any number of runs and of verifiers: theorems of TraceTools. *)
(***************************************************************************)
EXTENDS TraceTools, FiniteSetTheorems, SequenceTheorems, WellFoundedInduction, TLAPS

OutputType ==
  /\ kind \in [Jobs -> Kinds]
  /\ job \in [Jobs -> {"idle", "created", "writing", "filled", "linked", "done", "failed", "dead"}]
  /\ verifier \in [Verifiers -> Files \cup {NoFile}]
  /\ output \in Files \cup {NoFile} /\ undoable \subseteq Files \cup {NoFile}

(* What a job has filled is whole and on the disk, and so is every file the *)
(* output's name may come to refer to when the power fails.                 *)
Durable == \A j \in Jobs : job[j] \in {"filled", "linked", "done"} => j \in whole \cap synced
Recoverable == /\ output \in undoable
               /\ undoable \subseteq (whole \cap synced) \cup {NoFile}

(* Only an index is opened before it is written, and only one that must be  *)
(* new has two names for a while.                                           *)
Staged == \A j \in Jobs : /\ job[j] = "created" => kind[j] # "trace"
                          /\ job[j] = "linked" => kind[j] = "new_index"
Tidy == \A j \in Jobs : /\ job[j] \in {"idle", "done"} => j \notin temporary
                        /\ (job[j] = "failed" /\ kind[j] = "trace") => j \notin temporary

(* The output's name has not referred to the file of a run that has not     *)
(* published it, and it refers to nothing only if it never did.             *)
Unpublished == \A j \in Jobs :
  /\ job[j] \in {"idle", "created", "writing", "filled"} => j \notin undoable
  /\ (job[j] = "failed" /\ kind[j] # "new_index") => j \notin undoable
Untaken == output = NoFile => undoable = {NoFile}

FilesInv == OutputType /\ Durable /\ Recoverable /\ Staged /\ Tidy /\ Unpublished /\ Untaken

(* Unless the output was changed under them, the verifiers that have an     *)
(* index open have the one that is the output, and a -wal belongs to it: to *)
(* one of them, or left by one that was killed.                             *)
Attended ==
  /\ \A v \in Verifiers : verifier[v] \in {NoFile, output}
  /\ wal # NoFile => wal = output /\ (wal \in cut \/ \E v \in Verifiers : verifier[v] = wal)
  /\ mixed = {}

OutputInv == FilesInv /\ OneNewIndex /\ (~overtaken => Attended)

LEMMA InitEstablishes == Init => OutputInv
<1> USE OutputAssumption DEF Files
<1> SUFFICES ASSUME OutputInit PROVE OutputInv
  BY DEF Init
<1>1. OutputType /\ Durable /\ Recoverable /\ Staged /\ Tidy /\ Unpublished /\ Untaken
  BY DEF OutputInit, OutputType, Durable, Recoverable, Staged, Tidy, Unpublished, Untaken
<1>2. OneNewIndex /\ Attended
  BY DEF OutputInit, OneNewIndex, MustBeFirst, Attended
<1> QED BY <1>1, <1>2 DEF OutputInv, FilesInv

(* The steps of the jobs and the files.                                     *)
LEMMA FilesPreserve ==
  ASSUME FilesInv, NEW j \in Jobs,
         \/ Start(j) \/ Connect(j) \/ Fill(j) \/ Replace(j) \/ Link(j) \/ Unlink(j)
         \/ Fail(j) \/ FailAsDatabase(j) \/ Kill(j)
  PROVE  FilesInv'
<1> USE OutputAssumption DEF Files, FilesInv
<1>1. CASE Start(j)
  <2>1. CASE kind[j] = "new_index" /\ output # NoFile
    BY <1>1, <2>1 DEF Start, OutputType, Durable, Recoverable, Staged, Tidy, Unpublished, Untaken,
       indexVars
  <2>2. CASE ~(kind[j] = "new_index" /\ output # NoFile) /\ kind[j] = "trace"
    BY <1>1, <2>2 DEF Start, OutputType, Durable, Recoverable, Staged, Tidy, Unpublished, Untaken,
       indexVars
  <2>3. CASE ~(kind[j] = "new_index" /\ output # NoFile) /\ kind[j] # "trace"
    BY <1>1, <2>3 DEF Start, OutputType, Durable, Recoverable, Staged, Tidy, Unpublished, Untaken,
       indexVars
  <2> QED BY <2>1, <2>2, <2>3
<1>2. CASE Connect(j)
  BY <1>2 DEF Connect, OutputType, Durable, Recoverable, Staged, Tidy, Unpublished, Untaken,
       indexVars, fileVars
<1>3. CASE Fill(j)
  BY <1>3 DEF Fill, OutputType, Durable, Recoverable, Staged, Tidy, Unpublished, Untaken,
       indexVars
<1>4. CASE Replace(j)
  BY <1>4 DEF Replace, Refer, OutputType, Durable, Recoverable, Staged, Tidy, Unpublished, Untaken,
       indexVars
<1>5. CASE Link(j)
  <2>1. CASE LinkTaken(j)
    BY <1>5, <2>1 DEF Link, OutputType, Durable, Recoverable, Staged, Tidy, Unpublished, Untaken,
       indexVars
  <2>2. CASE ~LinkTaken(j)
    BY <1>5, <2>2 DEF Link, Refer, OutputType, Durable, Recoverable, Staged, Tidy, Unpublished, Untaken,
       indexVars
  <2> QED BY <2>1, <2>2
<1>6. CASE Unlink(j)
  BY <1>6 DEF Unlink, OutputType, Durable, Recoverable, Staged, Tidy, Unpublished, Untaken,
       indexVars
<1>7. CASE Fail(j)
  BY <1>7 DEF Fail, OutputType, Durable, Recoverable, Staged, Tidy, Unpublished, Untaken,
       indexVars
<1>8. CASE FailAsDatabase(j)
  BY <1>8 DEF FailAsDatabase, OutputType, Durable, Recoverable, Staged, Tidy, Unpublished, Untaken,
       indexVars, fileVars
<1>9. CASE Kill(j)
  BY <1>9 DEF Kill, OutputType, Durable, Recoverable, Staged, Tidy, Unpublished, Untaken,
       indexVars, fileVars
<1> QED BY <1>1, <1>2, <1>3, <1>4, <1>5, <1>6, <1>7, <1>8, <1>9

(* An index that must be new is linked only where there is nothing, and     *)
(* nothing takes the place of the output under a client.                    *)
LEMMA JobsPreserve ==
  ASSUME OutputInv, NEW j \in Jobs,
         \/ Start(j) \/ Connect(j) \/ Fill(j) \/ Replace(j) \/ Link(j) \/ Unlink(j)
         \/ Fail(j) \/ FailAsDatabase(j) \/ Kill(j)
  PROVE  OutputInv'
<1> USE OutputAssumption DEF Files
<1>1. FilesInv'
  BY FilesPreserve DEF OutputInv
<1>2. CASE UNCHANGED <<kind, output, undoable, indexVars>>
  <2>1. OneNewIndex'
    BY <1>2 DEF OutputInv, OneNewIndex, MustBeFirst
  <2>2. (~overtaken => Attended)'
    BY <1>2 DEF OutputInv, Attended, indexVars
  <2> QED BY <1>1, <2>1, <2>2 DEF OutputInv
<1>3. CASE Replace(j)
  <2>1. OneNewIndex'
    <3>1. undoable' \cap MustBeFirst' = undoable \cap MustBeFirst
      BY <1>3 DEF Replace, Refer, MustBeFirst
    <3> QED BY <3>1 DEF OutputInv, OneNewIndex
  <2>2. ASSUME ~overtaken' PROVE Attended'
    <3>1. ~overtaken /\ output \notin cut /\ \A v \in Verifiers : verifier[v] = NoFile
      BY <1>3, <2>2 DEF Replace, InUse
    <3>2. wal = NoFile /\ mixed = {}
      BY <3>1 DEF OutputInv, Attended
    <3> QED BY <1>3, <3>1, <3>2 DEF Replace, Attended
  <2> QED BY <1>1, <2>1, <2>2 DEF OutputInv
<1>4. CASE Link(j) /\ ~LinkTaken(j)
  <2>1. output = NoFile /\ undoable = {NoFile} /\ undoable' = {NoFile, j}
    BY <1>4 DEF Link, LinkTaken, Refer, OutputInv, FilesInv, Untaken
  <2>2. OneNewIndex'
    BY <1>4, <2>1 DEF Link, OneNewIndex, MustBeFirst
  <2>3. ASSUME ~overtaken PROVE wal = NoFile /\ \A v \in Verifiers : verifier[v] = NoFile
    BY <2>1, <2>3 DEF OutputInv, Attended
  <2>4. (~overtaken => Attended)'
    BY <1>4, <2>3 DEF Link, OutputInv, Attended, indexVars
  <2> QED BY <1>1, <2>2, <2>4 DEF OutputInv
<1> QED BY <1>2, <1>3, <1>4
     DEF Start, Connect, Fill, Link, Unlink, Fail, FailAsDatabase, Kill, fileVars

(* The steps of the verifiers touch no file.                                *)
LEMMA VerifiersPreserve ==
  ASSUME OutputInv, NEW v \in Verifiers,
         VerifyOpen(v) \/ VerifyCommit(v) \/ VerifyClose(v) \/ VerifyKill(v)
  PROVE  OutputInv'
<1> USE OutputAssumption DEF Files
<1>1. UNCHANGED <<kind, job, fileVars, overtaken>>
  BY DEF VerifyOpen, VerifyCommit, VerifyClose, VerifyKill
<1>2. verifier' \in [Verifiers -> Files \cup {NoFile}]
  BY DEF VerifyOpen, VerifyCommit, VerifyClose, VerifyKill, OutputInv, FilesInv, OutputType
<1>3. FilesInv'
  BY <1>1, <1>2 DEF OutputInv, FilesInv, OutputType, Durable, Recoverable, Staged, Tidy,
     Unpublished, Untaken, fileVars
<1>4. OneNewIndex'
  BY <1>1 DEF OutputInv, OneNewIndex, MustBeFirst, fileVars
<1>5. ASSUME ~overtaken' PROVE Attended'
  <2>1. Attended /\ verifier \in [Verifiers -> Files \cup {NoFile}]
    BY <1>1, <1>5 DEF OutputInv, FilesInv, OutputType
  <2>2. CASE VerifyOpen(v)
    BY <2>1, <2>2 DEF VerifyOpen, Attended, fileVars
  <2>3. CASE VerifyCommit(v)
    BY <2>1, <2>3 DEF VerifyCommit, Attended, fileVars
  <2>4. CASE VerifyClose(v)
    <3>1. /\ \A u \in Verifiers : verifier'[u] \in {NoFile, output'}
          /\ mixed' = {}
      BY <2>1, <2>4 DEF VerifyClose, Attended, fileVars
    <3>2. ASSUME wal' # NoFile, wal' \notin cut'
          PROVE  wal' = output' /\ \E u \in Verifiers : verifier'[u] = wal'
      <4>1. PICK u \in Verifiers \ {v} : verifier[u] = verifier[v]
        BY <2>4, <3>2 DEF VerifyClose, OpenElsewhere
      <4>2. wal' = wal /\ wal = output /\ output' = output /\ wal = verifier[v]
        BY <2>1, <2>4, <3>2, <4>1 DEF VerifyClose, OpenElsewhere, Attended, fileVars
      <4>3. verifier'[u] = verifier[u]
        BY <2>1, <2>4, <4>1 DEF VerifyClose
      <4> QED BY <4>1, <4>2, <4>3
    <3>3. ASSUME wal' # NoFile PROVE wal' = output'
      BY <2>1, <2>4, <3>3 DEF VerifyClose, Attended, fileVars
    <3> QED BY <3>1, <3>2, <3>3 DEF Attended
  <2>5. CASE VerifyKill(v)
    BY <2>1, <2>5 DEF VerifyKill, Left, Attended, fileVars
  <2> QED BY <2>2, <2>3, <2>4, <2>5
<1> QED BY <1>3, <1>4, <1>5 DEF OutputInv

LEMMA PowerLossPreserves == ASSUME OutputInv, PowerLoss PROVE OutputInv'
<1> USE OutputAssumption DEF Files
<1>1. PICK f \in undoable : /\ output' = f /\ undoable' = {f}
                            /\ overtaken' = (overtaken \/ (f # output /\ InUse))
  BY DEF PowerLoss
<1>2. FilesInv'
  <2>1. OutputType'
    BY <1>1 DEF PowerLoss, OutputInv, FilesInv, OutputType
  <2>2. (Durable /\ Recoverable /\ Staged /\ Tidy)'
    BY <1>1 DEF PowerLoss, OutputInv, FilesInv, OutputType, Durable, Recoverable, Staged, Tidy, Running
  <2>3. (Unpublished /\ Untaken)'
    BY <1>1 DEF PowerLoss, OutputInv, FilesInv, OutputType, Unpublished, Untaken, Running
  <2> QED BY <2>1, <2>2, <2>3 DEF FilesInv
<1>3. OneNewIndex'
  BY <1>1 DEF OneNewIndex
<1>4. ASSUME ~overtaken' PROVE Attended'
  <2>1. Attended /\ (f = output \/ ~InUse)
    BY <1>1, <1>4 DEF OutputInv
  <2>2. /\ \A v \in Verifiers : verifier'[v] = NoFile
        /\ mixed' = {} /\ wal' = wal
    BY <2>1 DEF PowerLoss, Attended
  <2>3. ASSUME wal # NoFile PROVE wal = output' /\ wal \in cut'
    <3>1. wal = output /\ (wal \in cut \/ \E v \in Verifiers : verifier[v] = wal)
      BY <2>1, <2>3 DEF Attended
    <3>2. InUse
      BY <2>3, <3>1 DEF InUse
    <3>3. wal \in cut'
      BY <2>3, <3>1 DEF PowerLoss, Left
    <3> QED BY <1>1, <2>1, <3>1, <3>2, <3>3
  <2> QED BY <2>2, <2>3 DEF Attended
<1> QED BY <1>2, <1>3, <1>4 DEF OutputInv

LEMMA OutputPreserves == OutputInv /\ [Next]_vars => OutputInv'
<1> SUFFICES ASSUME OutputInv, [Next]_vars PROVE OutputInv'
  OBVIOUS
<1>1. CASE OutputNext
  BY <1>1, JobsPreserve, VerifiersPreserve, PowerLossPreserves DEF OutputNext
<1>2. CASE UNCHANGED outputVars
  <2>1. FilesInv'
    BY <1>2 DEF OutputInv, FilesInv, OutputType, Durable, Recoverable, Staged, Tidy,
       Unpublished, Untaken, outputVars, fileVars, indexVars
  <2>2. OneNewIndex'
    BY <1>2 DEF OutputInv, OneNewIndex, MustBeFirst, outputVars, fileVars
  <2>3. (~overtaken => Attended)'
    BY <1>2 DEF OutputInv, Attended, outputVars, fileVars, indexVars
  <2> QED BY <2>1, <2>2, <2>3 DEF OutputInv
<1> QED BY <1>1, <1>2 DEF Next, Stream, vars

LEMMA OutputInvariant == Spec => []OutputInv
<1> QED BY InitEstablishes, OutputPreserves, PTL DEF Spec

(* Whatever fails, is killed or loses power, and however many tools write   *)
(* to it: the output is the one from before or the complete output of a     *)
(* run, a run that fails has not changed it, and which runs that end leave  *)
(* no temporary file.                                                       *)
THEOREM OutputIsWhole == Spec => []OutputWhole
<1>1. OutputInv => OutputWhole
  BY DEF OutputInv, FilesInv, OutputWhole, Recoverable, Tidy, Unpublished
<1> QED BY <1>1, OutputInvariant, PTL

(* An index is opened with the recovery log of another one only if the      *)
(* output was changed while a client had it open or its log was left over.  *)
THEOREM IndexIsAsBuilt == Spec => []IndexAsBuilt
<1>1. OutputInv => IndexAsBuilt
  BY DEF OutputInv, IndexAsBuilt, Attended
<1> QED BY <1>1, OutputInvariant, PTL

(* However many runs must create the output, its name refers to one of      *)
(* them, or to what was there before, and never to another instead.         *)
THEOREM OneIndexIsNew == Spec => []OneNewIndex
<1>1. OutputInv => OneNewIndex
  BY DEF OutputInv
<1> QED BY <1>1, OutputInvariant, PTL

----------------------------------------------------------------------------
(* Processes of tracks.  Parents have a lower rank than their children, so  *)
(* the recursion that goes from a track to its parent defines a function.   *)
LEMMA Least ==
  ASSUME NEW S \in SUBSET Nat, S # {}
  PROVE  \E m \in S : \A k \in S : m <= k
<1> DEFINE less == {ss \in Nat \X Nat : ss[1] < ss[2]}
<1>1. IsWellFoundedOn(less, Nat)
  <2>1. less = OpToRel(<, Nat)
    BY DEF OpToRel
  <2> QED BY <2>1, NatLessThanWellFounded
<1> HIDE DEF less
<1>2. PICK m \in S : \A k \in S : <<k, m>> \notin less
  BY <1>1, WFMin
<1>3. ASSUME NEW k \in S PROVE m <= k
  <2>1. <<k, m>> \notin less /\ m \in Nat /\ k \in Nat
    BY <1>2
  <2>2. k < m => <<k, m>> \in less
    BY <2>1 DEF less
  <2> QED BY <2>1, <2>2
<1> QED BY <1>3

LEMMA Greatest ==
  ASSUME NEW n \in Nat, NEW S \in SUBSET (0..n), S # {}
  PROVE  \E m \in S : \A k \in S : k <= m
<1> DEFINE T == {n - k : k \in S}
<1>1. \A k \in S : k \in Nat /\ k <= n /\ n - k \in Nat
  OBVIOUS
<1>2. T \in SUBSET Nat /\ T # {}
  BY <1>1
<1>3. PICK t \in T : \A u \in T : t <= u
  BY <1>2, Least
<1>4. PICK m \in S : t = n - m
  BY <1>3
<1>5. \A k \in S : n - k \in T
  OBVIOUS
<1> HIDE DEF T
<1> QED BY <1>1, <1>3, <1>4, <1>5

OrNone(scopes) == DOMAIN scopes \cup {None}
Ranked(scopes, rank) ==
  \A t \in DOMAIN scopes :
    /\ t # None /\ rank[t] \in Nat /\ scopes[t].parent \in OrNone(scopes)
    /\ scopes[t].parent # None => rank[scopes[t].parent] < rank[t]
Value(scopes, f, t) ==
  IF t \notin DOMAIN scopes THEN None
  ELSE IF scopes[t].pid # None THEN scopes[t].pid ELSE f[scopes[t].parent]
IsWalk(scopes, f) == f = [t \in OrNone(scopes) |-> Value(scopes, f, t)]
UpTo(scopes, rank, f, k) ==
  /\ f = [t \in OrNone(scopes) |-> f[t]]
  /\ \A t \in OrNone(scopes) :
       t \notin DOMAIN scopes \/ rank[t] < k => f[t] = Value(scopes, f, t)

LEMMA WalkExists ==
  ASSUME NEW scopes, NEW rank, Ranked(scopes, rank),
         NEW N \in Nat, \A t \in DOMAIN scopes : rank[t] <= N
  PROVE  \E f : IsWalk(scopes, f)
<1> DEFINE Bad == {k \in Nat : ~\E f : UpTo(scopes, rank, f, k)}
<1>1. None \notin DOMAIN scopes
  BY DEF Ranked
<1>2. 0 \notin Bad
  <2> DEFINE f == [t \in OrNone(scopes) |-> None]
  <2>1. UpTo(scopes, rank, f, 0)
    BY DEF UpTo, OrNone, Value, Ranked
  <2> QED BY <2>1
<1>3. ASSUME NEW k \in Nat, k \notin Bad PROVE k + 1 \notin Bad
  <2>1. PICK f : UpTo(scopes, rank, f, k)
    BY <1>3
  <2> DEFINE g == [t \in OrNone(scopes) |->
                     IF t \in DOMAIN scopes /\ rank[t] = k THEN Value(scopes, f, t) ELSE f[t]]
  <2>2. \A t \in OrNone(scopes) : g[t] = IF t \in DOMAIN scopes /\ rank[t] = k
                                         THEN Value(scopes, f, t) ELSE f[t]
    OBVIOUS
  <2>3. g = [t \in OrNone(scopes) |-> g[t]]
    OBVIOUS
  <2> HIDE DEF g
  <2>4. ASSUME NEW t \in DOMAIN scopes, rank[t] < k + 1
        PROVE  g[scopes[t].parent] = f[scopes[t].parent]
    <3>1. scopes[t].parent \in OrNone(scopes) /\ rank[t] \in Nat
          /\ (scopes[t].parent # None => rank[scopes[t].parent] < rank[t])
      BY DEF Ranked
    <3>2. scopes[t].parent \in DOMAIN scopes => scopes[t].parent # None
                                                /\ rank[scopes[t].parent] \in Nat
      BY DEF Ranked
    <3> QED BY <2>2, <2>4, <3>1, <3>2
  <2>5. \A t \in DOMAIN scopes : rank[t] < k + 1 => Value(scopes, g, t) = Value(scopes, f, t)
    BY <2>4 DEF Value
  <2>6. ASSUME NEW t \in OrNone(scopes), t \notin DOMAIN scopes \/ rank[t] < k + 1
        PROVE  g[t] = Value(scopes, g, t)
    <3>1. CASE t \notin DOMAIN scopes
      BY <2>1, <2>2, <3>1 DEF UpTo, Value
    <3>2. CASE t \in DOMAIN scopes /\ rank[t] = k
      BY <2>2, <2>5, <3>2
    <3>3. CASE t \in DOMAIN scopes /\ rank[t] # k
      <4>1. rank[t] < k
        BY <2>6, <3>3 DEF Ranked
      <4> QED BY <2>1, <2>2, <2>5, <2>6, <3>3, <4>1 DEF UpTo
    <3> QED BY <3>1, <3>2, <3>3
  <2>7. UpTo(scopes, rank, g, k + 1)
    BY <2>3, <2>6 DEF UpTo
  <2> QED BY <2>7
<1>4. Bad = {}
  <2> SUFFICES ASSUME Bad # {} PROVE FALSE
    OBVIOUS
  <2>1. PICK m \in Bad : \A k \in Bad : m <= k
    BY Least
  <2>2. m # 0 /\ m \in Nat
    BY <1>2, <2>1
  <2>3. m - 1 \in Nat /\ m - 1 \notin Bad /\ (m - 1) + 1 = m
    BY <2>1, <2>2
  <2> HIDE DEF Bad
  <2> QED BY <1>3, <2>1, <2>3
<1>5. PICK f : UpTo(scopes, rank, f, N + 1)
  BY <1>4
<1>6. \A t \in OrNone(scopes) : f[t] = Value(scopes, f, t)
  <2> TAKE t \in OrNone(scopes)
  <2>1. t \in DOMAIN scopes => rank[t] < N + 1
    BY DEF Ranked
  <2> QED BY <1>5, <2>1 DEF UpTo
<1>7. IsWalk(scopes, f)
  BY <1>5, <1>6 DEF UpTo, IsWalk
<1> QED BY <1>7

(* The process of a track is its own, or else that of its parent.           *)
LEMMA ProcessEquation ==
  ASSUME NEW scopes, NEW rank, Ranked(scopes, rank),
         NEW N \in Nat, \A t \in DOMAIN scopes : rank[t] <= N
  PROVE  /\ \A t : t \notin DOMAIN scopes => Process(scopes, t) = None
         /\ \A t \in DOMAIN scopes :
              Process(scopes, t) = IF scopes[t].pid # None THEN scopes[t].pid
                                   ELSE Process(scopes, scopes[t].parent)
<1> DEFINE w[t \in DOMAIN scopes \cup {None}] ==
             IF t \notin DOMAIN scopes THEN None
             ELSE IF scopes[t].pid # None THEN scopes[t].pid ELSE w[scopes[t].parent]
<1>1. \A t : Process(scopes, t) = IF t \in DOMAIN scopes THEN w[t] ELSE None
  BY Zenon DEF Process
<1>2. w = CHOOSE f : f = [t \in DOMAIN scopes \cup {None} |->
              IF t \notin DOMAIN scopes THEN None
              ELSE IF scopes[t].pid # None THEN scopes[t].pid ELSE f[scopes[t].parent]]
  BY Zenon
<1> HIDE DEF w
<1>3. IsWalk(scopes, w)
  BY <1>2, WalkExists DEF IsWalk, OrNone, Value
<1>4. \A t \in OrNone(scopes) : w[t] = Value(scopes, w, t)
  BY <1>3 DEF IsWalk
<1>5. ASSUME NEW t \in DOMAIN scopes
      PROVE  Process(scopes, t) = IF scopes[t].pid # None THEN scopes[t].pid
                                  ELSE Process(scopes, scopes[t].parent)
  <2>1. Process(scopes, t) = Value(scopes, w, t)
    BY <1>1, <1>4 DEF OrNone
  <2>2. scopes[t].parent \in OrNone(scopes) /\ None \notin DOMAIN scopes
    BY DEF Ranked
  <2>3. Process(scopes, scopes[t].parent) = w[scopes[t].parent]
    BY <1>1, <1>4, <2>2 DEF OrNone, Value
  <2> QED BY <2>1, <2>3 DEF Value
<1> QED BY <1>1, <1>5

(* Renaming tracks renames no process.                                      *)
LEMMA ProcessOfImage ==
  ASSUME NEW scopes, NEW rank, Ranked(scopes, rank),
         NEW image, NEW irank, Ranked(image, irank),
         NEW N \in Nat, \A t \in DOMAIN scopes : rank[t] <= N,
         \A t \in DOMAIN image : irank[t] <= N,
         NEW h, h[None] = None,
         \A t \in DOMAIN scopes :
           /\ h[t] \in DOMAIN image /\ image[h[t]].pid = scopes[t].pid
           /\ image[h[t]].parent = h[scopes[t].parent]
  PROVE  \A t \in DOMAIN scopes : Process(image, h[t]) = Process(scopes, t)
<1> DEFINE Bad == {n \in Nat : \E t \in DOMAIN scopes :
                                 rank[t] = n /\ Process(image, h[t]) # Process(scopes, t)}
<1>1. Bad = {}
  <2> SUFFICES ASSUME Bad # {} PROVE FALSE
    OBVIOUS
  <2>1. PICK n \in Bad : \A k \in Bad : n <= k
    BY Least
  <2>2. PICK t \in DOMAIN scopes : rank[t] = n /\ Process(image, h[t]) # Process(scopes, t)
    BY <2>1
  <2>3. /\ scopes[t].parent \in OrNone(scopes) /\ None \notin DOMAIN scopes /\ n \in Nat
        /\ None \notin DOMAIN image
        /\ (scopes[t].parent # None => rank[scopes[t].parent] < n)
    BY <2>2 DEF Ranked
  <2>4. Process(image, h[scopes[t].parent]) = Process(scopes, scopes[t].parent)
    <3>1. CASE scopes[t].parent = None
      BY <2>3, <3>1, ProcessEquation
    <3>2. CASE scopes[t].parent # None
      <4>1. scopes[t].parent \in DOMAIN scopes /\ rank[scopes[t].parent] \in Nat
        BY <2>3, <3>2 DEF OrNone, Ranked
      <4>2. rank[scopes[t].parent] \notin Bad
        BY <2>1, <2>3, <3>2, <4>1
      <4> QED BY <4>1, <4>2
    <3> QED BY <3>1, <3>2
  <2>5. Process(image, h[t]) = IF image[h[t]].pid # None THEN image[h[t]].pid
                               ELSE Process(image, image[h[t]].parent)
    BY ProcessEquation
  <2>6. Process(scopes, t) = IF scopes[t].pid # None THEN scopes[t].pid
                             ELSE Process(scopes, scopes[t].parent)
    BY ProcessEquation
  <2> QED BY <2>2, <2>4, <2>5, <2>6
<1> SUFFICES ASSUME NEW t \in DOMAIN scopes PROVE Process(image, h[t]) = Process(scopes, t)
  OBVIOUS
<1>2. rank[t] \in Nat
  BY DEF Ranked
<1> QED BY <1>1, <1>2

----------------------------------------------------------------------------
(* Reading packets.  Every track is described once, with a parent that has  *)
(* been described.                                                          *)
TracksDescribed(packets) ==
  /\ \A n, m \in Scopes(packets) : packets[n].track = packets[m].track => n = m
  /\ \A n \in Scopes(packets) :
       /\ packets[n].track # None
       /\ packets[n].parent # None =>
            \E m \in Scopes(packets) : m < n /\ packets[m].track = packets[n].parent
Place(packets) ==
  [t \in {packets[m].track : m \in Scopes(packets)} |->
     CHOOSE m \in Scopes(packets) : packets[m].track = t]

LEMMA ScopesAre ==
  ASSUME NEW packets, NEW N \in Nat, DOMAIN packets = 1..N, TracksDescribed(packets)
  PROVE  /\ DOMAIN ScopesIn(packets) = {packets[m].track : m \in Scopes(packets)}
         /\ \A m \in Scopes(packets) :
              ScopesIn(packets)[packets[m].track]
                = [parent |-> packets[m].parent, pid |-> packets[m].pid]
         /\ Ranked(ScopesIn(packets), Place(packets))
         /\ \A t \in DOMAIN ScopesIn(packets) : Place(packets)[t] <= N
<1> DEFINE tracks == {packets[m].track : m \in Scopes(packets)}
           at(t)  == CHOOSE m \in Scopes(packets) : packets[m].track = t
<1>1. \A m \in Scopes(packets) : m \in 1..N /\ m \in Nat /\ m <= N
  BY DEF Scopes
<1>2. ScopesIn(packets) = [t \in tracks |-> [parent |-> packets[at(t)].parent,
                                             pid |-> packets[at(t)].pid]]
  BY DEF ScopesIn
<1>3. Place(packets) = [t \in tracks |-> at(t)]
  BY DEF Place
<1>4. \A m \in Scopes(packets) : packets[m].track \in tracks /\ at(packets[m].track) = m
  BY DEF TracksDescribed
<1>5. \A t \in tracks : \E m \in Scopes(packets) : t = packets[m].track
  OBVIOUS
<1> HIDE DEF at
<1>6. \A m \in Scopes(packets) :
        ScopesIn(packets)[packets[m].track] = [parent |-> packets[m].parent, pid |-> packets[m].pid]
  BY <1>2, <1>4
<1>7. ASSUME NEW t \in DOMAIN ScopesIn(packets)
      PROVE  /\ t # None /\ Place(packets)[t] \in Nat /\ Place(packets)[t] <= N
             /\ ScopesIn(packets)[t].parent \in OrNone(ScopesIn(packets))
             /\ ScopesIn(packets)[t].parent # None =>
                  Place(packets)[ScopesIn(packets)[t].parent] < Place(packets)[t]
  <2>1. PICK m \in Scopes(packets) : t = packets[m].track
    BY <1>2, <1>5
  <2>2. Place(packets)[t] = m
    BY <1>3, <1>4, <2>1
  <2> DEFINE scope == [parent |-> packets[m].parent, pid |-> packets[m].pid]
  <2>0. ScopesIn(packets)[t] = scope
    BY <1>6, <2>1
  <2>3. ScopesIn(packets)[t].parent = packets[m].parent
    BY <2>0
  <2> HIDE DEF scope
  <2>4. CASE packets[m].parent = None
    BY <1>1, <2>1, <2>2, <2>3, <2>4 DEF TracksDescribed, OrNone
  <2>5. CASE packets[m].parent # None
    <3>1. PICK k \in Scopes(packets) : k < m /\ packets[k].track = packets[m].parent
      BY <2>5 DEF TracksDescribed
    <3>2. Place(packets)[packets[m].parent] = k /\ packets[m].parent \in tracks
      BY <1>3, <1>4, <3>1
    <3> QED BY <1>1, <1>2, <2>1, <2>2, <2>3, <3>1, <3>2 DEF TracksDescribed, OrNone
  <2> QED BY <2>4, <2>5
<1> QED BY <1>2, <1>6, <1>7 DEF Ranked

(* What a reader finds depends on the descriptors, and on what comes before *)
(* the packet read.                                                         *)
LEMMA SameScopes ==
  ASSUME NEW packets, NEW others, Scopes(others) = Scopes(packets),
         \A m \in Scopes(packets) : others[m] = packets[m]
  PROVE  ScopesIn(others) = ScopesIn(packets)
<1>1. {others[m].track : m \in Scopes(others)} = {packets[m].track : m \in Scopes(packets)}
  OBVIOUS
<1>2. ASSUME NEW t \in {packets[m].track : m \in Scopes(packets)}
      PROVE  /\ (CHOOSE m \in Scopes(others) : others[m].track = t)
                  = (CHOOSE m \in Scopes(packets) : packets[m].track = t)
             /\ (CHOOSE m \in Scopes(packets) : packets[m].track = t) \in Scopes(packets)
  <2>1. \A m : (m \in Scopes(others) /\ others[m].track = t)
                 <=> (m \in Scopes(packets) /\ packets[m].track = t)
    OBVIOUS
  <2>2. \E m \in Scopes(packets) : packets[m].track = t
    OBVIOUS
  <2> QED BY <2>1, <2>2
<1> QED BY <1>1, <1>2 DEF ScopesIn

Settings(packets, n) ==
  {m \in 1..n : packets[m].kind = "defaults" /\ packets[m].sequence = packets[n].sequence}

LEMMA TrackIs ==
  ASSUME NEW packets, NEW n \in Nat
  PROVE  /\ packets[n].track # None => TrackOf(packets, n) = packets[n].track
         /\ packets[n].track = None /\ Settings(packets, n) = {} => TrackOf(packets, n) = None
         /\ \A m \in Settings(packets, n) :
              packets[n].track = None /\ (\A k \in Settings(packets, n) : k <= m)
                => TrackOf(packets, n) = packets[m].track
<1>1. TrackOf(packets, n) =
        IF packets[n].track # None THEN packets[n].track
        ELSE IF Settings(packets, n) = {} THEN None
        ELSE packets[CHOOSE m \in Settings(packets, n) : \A k \in Settings(packets, n) : k <= m].track
  BY DEF TrackOf, Settings
<1>2. ASSUME NEW m \in Settings(packets, n), \A k \in Settings(packets, n) : k <= m
      PROVE  (CHOOSE l \in Settings(packets, n) : \A k \in Settings(packets, n) : k <= l) = m
  <2>1. ASSUME NEW l \in Settings(packets, n), \A k \in Settings(packets, n) : k <= l
        PROVE  l = m
    <3>1. l \in Nat /\ m \in Nat /\ l <= m /\ m <= l
      BY <1>2, <2>1 DEF Settings
    <3> QED BY <3>1
  <2> QED BY <1>2, <2>1
<1> QED BY <1>1, <1>2

----------------------------------------------------------------------------
(* The merge.  A table gives every key an id of its own; the packets are    *)
(* written with the ids that the tables have for theirs.                    *)
Table(t) == /\ IsFiniteSet(DOMAIN t)
            /\ \A k \in DOMAIN t : t[k] \in Nat /\ 0 < t[k] /\ t[k] <= Cardinality(DOMAIN t)
            /\ \A k, l \in DOMAIN t : t[k] = t[l] => k = l
Grown(t, u) == \A k \in DOMAIN t : k \in DOMAIN u /\ u[k] = t[k]
Known(t, s, v) == v = None \/ <<s, v>> \in DOMAIN t
Id(t, s, v) == IF v = None THEN None ELSE t[<<s, v>>]

Packets == Descriptors \cup Defaults \cup Events
Foreign == [kind |-> "other", sequence |-> None, track |-> None]
AloneIn(r, s) == [n \in DOMAIN r |-> IF r[n].source = s THEN r[n].packet ELSE Foreign]

(* The process and the identity of a legacy operation, as its source has    *)
(* them.                                                                    *)
PidIn(r, n) ==
  IF r[n].packet.legacy.kind = "global" THEN None
  ELSE IF r[n].packet.legacy.pid # None THEN r[n].packet.legacy.pid
  ELSE PidOf(AloneIn(r, r[n].source), TrackOf(AloneIn(r, r[n].source), n))
KeyIn(r, n) == <<r[n].source, r[n].packet.legacy.kind, r[n].packet.legacy.scope, PidIn(r, n),
                 r[n].packet.legacy.id>>

Mirror(n) ==
  LET p == read[n].packet
      w == written[n]
      s == read[n].source
  IN  /\ w.kind = p.kind
      /\ Known(sequence_ids, s, p.sequence) /\ w.sequence = Id(sequence_ids, s, p.sequence)
      /\ Known(track_ids, s, p.track) /\ w.track = Id(track_ids, s, p.track)
      /\ p.kind = "descriptor" =>
           Known(track_ids, s, p.parent) /\ w.parent = Id(track_ids, s, p.parent) /\ w.pid = p.pid
      /\ p.kind = "event" =>
           /\ Known(flow_ids, s, p.flow) /\ w.flow = Id(flow_ids, s, p.flow)
           /\ w.legacy.kind = p.legacy.kind /\ w.legacy.scope = p.legacy.scope
           /\ w.legacy.pid = p.legacy.pid
           /\ HasLegacy(p) =>
                KeyIn(read, n) \in DOMAIN legacy_ids /\ w.legacy.id = legacy_ids[KeyIn(read, n)]

(* The tracks of a source are described once, parents first; the scopes     *)
(* and the defaults noted are those of the packets read.                    *)
Described(r, n) == n \in DOMAIN r /\ r[n].packet.kind = "descriptor"
Hierarchy(r) ==
  /\ \A n, m \in DOMAIN r :
       Described(r, n) /\ Described(r, m) /\ r[n].source = r[m].source
         /\ r[n].packet.track = r[m].packet.track => n = m
  /\ \A n \in DOMAIN r : Described(r, n) /\ r[n].packet.parent # None =>
       \E m \in DOMAIN r : /\ m < n /\ Described(r, m) /\ r[m].source = r[n].source
                           /\ r[m].packet.track = r[n].packet.parent
TrackKey(r, n) == <<r[n].source, r[n].packet.track>>
ScopesNoted(r, scopes) ==
  /\ \A n \in DOMAIN r : Described(r, n) =>
       /\ TrackKey(r, n) \in DOMAIN scopes
       /\ scopes[TrackKey(r, n)] = [parent |-> r[n].packet.parent, pid |-> r[n].packet.pid]
  /\ \A k \in DOMAIN scopes : \E n \in DOMAIN r : Described(r, n) /\ k = TrackKey(r, n)
Setting(r, n, k) ==
  n \in DOMAIN r /\ r[n].packet.kind = "defaults" /\ <<r[n].source, r[n].packet.sequence>> = k
DefaultsNoted(r, tracks) ==
  /\ \A n \in DOMAIN r : r[n].packet.kind = "defaults" =>
       <<r[n].source, r[n].packet.sequence>> \in DOMAIN tracks
  /\ \A k \in DOMAIN tracks : \E n \in DOMAIN r :
       /\ Setting(r, n, k) /\ tracks[k] = r[n].packet.track
       /\ \A m \in DOMAIN r : Setting(r, m, k) => m <= n

MergeType ==
  /\ source \in Nat
  /\ read \in Seq([source : Nat, packet : Vocabulary])
  /\ written \in Seq(Packets) /\ Len(written) = Len(read)
MergeInv ==
  /\ MergeType
  /\ Table(track_ids) /\ Table(sequence_ids) /\ Table(flow_ids) /\ Table(legacy_ids)
  /\ \A n \in DOMAIN read : Mirror(n)
  /\ Hierarchy(read) /\ ScopesNoted(read, track_scopes) /\ DefaultsNoted(read, default_tracks)

LEMMA MappedIsTable ==
  ASSUME NEW t, Table(t), NEW key
  PROVE  /\ Table(Mapped(t, key)) /\ Grown(t, Mapped(t, key)) /\ key \in DOMAIN Mapped(t, key)
<1>1. CASE key \in DOMAIN t
  <2>1. Mapped(t, key) = t
    BY <1>1 DEF Mapped
  <2> QED BY <1>1, <2>1 DEF Grown
<1>2. CASE key \notin DOMAIN t
  <2> DEFINE u == Mapped(t, key)
             N == Cardinality(DOMAIN t)
  <2>1. /\ DOMAIN u = DOMAIN t \cup {key} /\ u[key] = N + 1
        /\ \A k \in DOMAIN t : u[k] = t[k]
    BY <1>2 DEF Mapped
  <2>2. IsFiniteSet(DOMAIN u) /\ Cardinality(DOMAIN u) = N + 1 /\ N \in Nat
    BY <1>2, <2>1, FS_AddElement, FS_CardinalityType DEF Table
  <2> HIDE DEF u, N
  <2>3. \A k \in DOMAIN t : t[k] \in Nat /\ 0 < t[k] /\ t[k] <= N
    BY DEF Table, N
  <2>4. \A k \in DOMAIN u : u[k] \in Nat /\ 0 < u[k] /\ u[k] <= N + 1
    BY <2>1, <2>2, <2>3
  <2>5. ASSUME NEW k \in DOMAIN u, NEW l \in DOMAIN u, u[k] = u[l] PROVE k = l
    <3>1. \A j \in DOMAIN t : t[j] # N + 1
      BY <2>2, <2>3
    <3>2. \A i, j \in DOMAIN t : t[i] = t[j] => i = j
      BY DEF Table
    <3> QED BY <2>1, <2>5, <3>1, <3>2
  <2>6. Table(u) /\ Grown(t, u) /\ key \in DOMAIN u
    BY <2>1, <2>2, <2>4, <2>5 DEF Table, Grown
  <2> QED BY <2>6 DEF u
<1> QED BY <1>1, <1>2

LEMMA MappedUnless0IsTable ==
  ASSUME NEW t, Table(t), NEW value
  PROVE  /\ Table(MappedUnless0(t, value)) /\ Grown(t, MappedUnless0(t, value))
         /\ Known(MappedUnless0(t, value), source, value)
<1>1. CASE value = None
  BY <1>1 DEF MappedUnless0, Known, Grown
<1>2. CASE value # None
  BY <1>2, MappedIsTable DEF MappedUnless0, Known
<1> QED BY <1>1, <1>2

(* In a table a field has the id of its own.                                *)
LEMMA IdsDiffer ==
  ASSUME NEW t, Table(t), NEW r, NEW s, NEW u, NEW v, Known(t, r, u), Known(t, s, v)
  PROVE  /\ Id(t, r, u) \in Nat
         /\ Id(t, r, u) = None <=> u = None
         /\ v # None => (Id(t, r, u) = Id(t, s, v) <=> r = s /\ u = v)
<1>1. u # None => t[<<r, u>>] \in Nat /\ t[<<r, u>>] # 0 /\ <<r, u>> \in DOMAIN t
  BY DEF Table, Known
<1>2. v # None => <<s, v>> \in DOMAIN t /\ t[<<s, v>>] # 0
  BY DEF Table, Known
<1>3. \A k, l \in DOMAIN t : t[k] = t[l] => k = l
  BY DEF Table
<1>4. CASE u = None
  BY <1>2, <1>4 DEF Id, None
<1>5. CASE u # None
  BY <1>1, <1>2, <1>3, <1>5 DEF Id, None
<1> QED BY <1>4, <1>5

(* The packets that have been read, and how the merged trace shows them.    *)
LEMMA ReadTyped ==
  ASSUME MergeType
  PROVE  /\ Len(read) \in Nat /\ DOMAIN read = 1..Len(read) /\ DOMAIN written = 1..Len(read)
         /\ \A n \in DOMAIN read :
              /\ n \in Nat /\ read[n].source \in Nat /\ read[n].packet \in Vocabulary
              /\ read[n].packet.kind \in {"descriptor", "defaults", "event"}
              /\ read[n].packet.kind # "event" => read[n].packet.track # None
<1>1. /\ Len(read) \in Nat /\ DOMAIN read = 1..Len(read) /\ DOMAIN written = 1..Len(read)
      /\ \A n \in DOMAIN read : read[n] \in [source : Nat, packet : Vocabulary]
  <2> DEFINE R == [source : Nat, packet : Vocabulary]
  <2>1. read \in Seq(R) /\ written \in Seq(Packets) /\ Len(written) = Len(read)
    BY DEF MergeType
  <2> HIDE DEF R
  <2>2. /\ Len(read) \in Nat /\ DOMAIN read = 1..Len(read) /\ DOMAIN written = 1..Len(read)
        /\ \A n \in DOMAIN read : read[n] \in R
    BY <2>1, LenProperties, ElementOfSeq
  <2> QED BY <2>2 DEF R
<1>2. \A p \in Vocabulary : p.kind \in {"descriptor", "defaults", "event"}
  BY MergeAssumption DEF Descriptors, Defaults, Events
<1> QED BY <1>1, <1>2, MergeAssumption

LEMMA AloneIs ==
  ASSUME NEW r, NEW s
  PROVE  /\ DOMAIN AloneIn(r, s) = DOMAIN r
         /\ \A n \in DOMAIN r : r[n].source = s => AloneIn(r, s)[n] = r[n].packet
         /\ \A n \in DOMAIN r : r[n].source # s => AloneIn(r, s)[n].kind = "other"
BY DEF AloneIn, Foreign

LEMMA AloneDescribed ==
  ASSUME MergeInv, NEW s
  PROVE  /\ TracksDescribed(AloneIn(read, s))
         /\ \A n : n \in Scopes(AloneIn(read, s)) <=> Described(read, n) /\ read[n].source = s
<1> DEFINE alone == AloneIn(read, s)
<1>1. \A n : n \in Scopes(alone) <=> Described(read, n) /\ read[n].source = s
  BY AloneIs DEF Scopes, Described
<1>2. \A n \in Scopes(alone) : n \in DOMAIN read /\ alone[n] = read[n].packet
  BY <1>1, AloneIs DEF Described
<1> HIDE DEF alone
<1>3. ASSUME NEW n \in Scopes(alone), NEW m \in Scopes(alone), alone[n].track = alone[m].track
      PROVE  n = m
  BY <1>1, <1>2, <1>3 DEF MergeInv, Hierarchy
<1>4. ASSUME NEW n \in Scopes(alone)
      PROVE  /\ alone[n].track # None
             /\ alone[n].parent # None =>
                  \E m \in Scopes(alone) : m < n /\ alone[m].track = alone[n].parent
  <2>1. alone[n].track # None
    BY <1>1, <1>2, ReadTyped DEF MergeInv, Described
  <2>2. ASSUME alone[n].parent # None
        PROVE  \E m \in Scopes(alone) : m < n /\ alone[m].track = alone[n].parent
    <3>1. PICK m \in DOMAIN read :
            /\ m < n /\ Described(read, m) /\ read[m].source = read[n].source
            /\ read[m].packet.track = read[n].packet.parent
      BY <1>1, <1>2, <2>2 DEF MergeInv, Hierarchy
    <3> QED BY <1>1, <1>2, <3>1
  <2> QED BY <2>1, <2>2
<1>5. TracksDescribed(alone)
  BY <1>3, <1>4 DEF TracksDescribed
<1> QED BY <1>1, <1>5 DEF alone

(* The merged trace describes the tracks of all sources, each with an id of *)
(* its own.                                                                 *)
LEMMA WrittenDescribed ==
  ASSUME MergeInv
  PROVE  /\ TracksDescribed(written)
         /\ \A n : n \in Scopes(written) <=> Described(read, n)
<1>1. \A n : n \in Scopes(written) <=> Described(read, n)
  BY ReadTyped DEF MergeInv, Mirror, Scopes, Described
<1>2. ASSUME NEW n, NEW m, Described(read, n), Described(read, m)
      PROVE  /\ written[n].track # None
             /\ written[n].track = written[m].track =>
                  read[n].source = read[m].source /\ read[n].packet.track = read[m].packet.track
  <2>1. /\ Known(track_ids, read[n].source, read[n].packet.track) /\ read[n].packet.track # None
        /\ Known(track_ids, read[m].source, read[m].packet.track) /\ read[m].packet.track # None
        /\ written[n].track = Id(track_ids, read[n].source, read[n].packet.track)
        /\ written[m].track = Id(track_ids, read[m].source, read[m].packet.track)
    BY <1>2, ReadTyped DEF MergeInv, Mirror, Described
  <2> QED BY <2>1, IdsDiffer DEF MergeInv
<1>3. ASSUME NEW n \in Scopes(written), NEW m \in Scopes(written),
             written[n].track = written[m].track
      PROVE  n = m
  <2>1. Described(read, n) /\ Described(read, m) /\ n \in DOMAIN read /\ m \in DOMAIN read
    BY <1>1 DEF Described
  <2>2. read[n].source = read[m].source /\ read[n].packet.track = read[m].packet.track
    BY <1>2, <1>3, <2>1
  <2> QED BY <2>1, <2>2 DEF MergeInv, Hierarchy
<1>4. ASSUME NEW n \in Scopes(written), written[n].parent # None
      PROVE  \E m \in Scopes(written) : m < n /\ written[m].track = written[n].parent
  <2>1. n \in DOMAIN read /\ Described(read, n) /\ read[n].packet.kind = "descriptor"
    BY <1>1 DEF Described
  <2>2. /\ written[n].parent = Id(track_ids, read[n].source, read[n].packet.parent)
        /\ read[n].packet.parent # None
    BY <1>4, <2>1 DEF MergeInv, Mirror, Id
  <2>3. PICK m \in DOMAIN read :
          /\ m < n /\ Described(read, m) /\ read[m].source = read[n].source
          /\ read[m].packet.track = read[n].packet.parent
    BY <2>1, <2>2 DEF MergeInv, Hierarchy
  <2>4. written[m].track = Id(track_ids, read[m].source, read[m].packet.track)
    BY <2>3 DEF MergeInv, Mirror
  <2> QED BY <1>1, <2>2, <2>3, <2>4
<1> QED BY <1>1, <1>2, <1>3, <1>4 DEF TracksDescribed

LEMMA PidIsKept ==
  ASSUME MergeInv, NEW s, NEW t, Known(track_ids, s, t)
  PROVE  PidOf(written, Id(track_ids, s, t)) = PidOf(AloneIn(read, s), t)
<1> DEFINE alone  == AloneIn(read, s)
           scopes == ScopesIn(alone)
           image  == ScopesIn(written)
           N      == Len(read)
<1>1. N \in Nat /\ DOMAIN written = 1..N /\ DOMAIN alone = 1..N
  BY ReadTyped, AloneIs DEF MergeInv
<1>2. /\ TracksDescribed(alone)
      /\ \A n : n \in Scopes(alone) <=> Described(read, n) /\ read[n].source = s
  BY AloneDescribed
<1>3. TracksDescribed(written) /\ \A n : n \in Scopes(written) <=> Described(read, n)
  BY WrittenDescribed
<1>4. \A n \in Scopes(alone) : n \in DOMAIN read /\ alone[n] = read[n].packet
  BY <1>2, AloneIs DEF Described
<1> HIDE DEF alone
<1>5. /\ DOMAIN scopes = {alone[m].track : m \in Scopes(alone)}
      /\ \A m \in Scopes(alone) :
           scopes[alone[m].track] = [parent |-> alone[m].parent, pid |-> alone[m].pid]
      /\ Ranked(scopes, Place(alone)) /\ \A u \in DOMAIN scopes : Place(alone)[u] <= N
  BY <1>1, <1>2, ScopesAre
<1>6. /\ DOMAIN image = {written[m].track : m \in Scopes(written)}
      /\ \A m \in Scopes(written) :
           image[written[m].track] = [parent |-> written[m].parent, pid |-> written[m].pid]
      /\ Ranked(image, Place(written)) /\ \A u \in DOMAIN image : Place(written)[u] <= N
  BY <1>1, <1>3, ScopesAre
<1> HIDE DEF scopes, image, N
<1> DEFINE h == [u \in OrNone(scopes) |-> Id(track_ids, s, u)]
<1>7. h[None] = None
  BY DEF OrNone, Id
<1>8. ASSUME NEW u \in DOMAIN scopes
      PROVE  /\ h[u] \in DOMAIN image /\ image[h[u]].pid = scopes[u].pid
             /\ image[h[u]].parent = h[scopes[u].parent]
  <2>1. PICK m \in Scopes(alone) : u = alone[m].track
    BY <1>5
  <2>2. /\ m \in DOMAIN read /\ alone[m] = read[m].packet /\ read[m].source = s
        /\ m \in Scopes(written) /\ read[m].packet.kind = "descriptor"
    BY <1>2, <1>3, <1>4, <2>1 DEF Described
  <2>3. /\ written[m].track = Id(track_ids, s, alone[m].track)
        /\ written[m].parent = Id(track_ids, s, alone[m].parent)
        /\ written[m].pid = alone[m].pid
    BY <2>2 DEF MergeInv, Mirror
  <2> DEFINE old == [parent |-> alone[m].parent, pid |-> alone[m].pid]
             new == [parent |-> written[m].parent, pid |-> written[m].pid]
  <2>4. scopes[u] = old /\ image[written[m].track] = new
    BY <1>5, <1>6, <2>1, <2>2
  <2>5. /\ scopes[u].parent = alone[m].parent /\ scopes[u].pid = alone[m].pid
        /\ image[written[m].track].parent = written[m].parent
        /\ image[written[m].track].pid = written[m].pid
    BY <2>4
  <2>6. h[u] = written[m].track /\ scopes[u].parent \in OrNone(scopes)
    BY <1>5, <2>1, <2>3 DEF OrNone, Ranked
  <2>7. h[scopes[u].parent] = written[m].parent
    BY <2>3, <2>5, <2>6
  <2> QED BY <1>6, <2>2, <2>3, <2>5, <2>6, <2>7
<1>9. CASE t \in DOMAIN scopes
  <2>1. h[t] = Id(track_ids, s, t)
    BY <1>9 DEF OrNone
  <2> HIDE DEF h
  <2>2. N \in Nat
    BY <1>1
  <2>3. Process(image, h[t]) = Process(scopes, t)
    BY <1>5, <1>6, <1>7, <1>8, <1>9, <2>2, ProcessOfImage
  <2> QED BY <2>1, <2>3 DEF PidOf, scopes, image, alone
<1>10. CASE t \notin DOMAIN scopes
  <2>1. Id(track_ids, s, t) \notin DOMAIN image
    <3> SUFFICES ASSUME NEW m \in Scopes(written), written[m].track = Id(track_ids, s, t)
                 PROVE  FALSE
      BY <1>6
    <3>1. /\ Described(read, m) /\ m \in DOMAIN read /\ read[m].packet.kind = "descriptor"
          /\ read[m].packet.track # None
      BY <1>3, ReadTyped DEF Described, MergeInv
    <3>2. /\ Known(track_ids, read[m].source, read[m].packet.track)
          /\ written[m].track = Id(track_ids, read[m].source, read[m].packet.track)
      BY <3>1 DEF MergeInv, Mirror
    <3>3. written[m].track # None
      BY <3>1, <3>2, IdsDiffer DEF MergeInv
    <3>4. t # None
      BY <3>3 DEF Id
    <3>5. read[m].source = s /\ read[m].packet.track = t
      <4>1. Id(track_ids, read[m].source, read[m].packet.track) = Id(track_ids, s, t)
        BY <3>2
      <4>2. Table(track_ids)
        BY DEF MergeInv
      <4>3. /\ <<read[m].source, read[m].packet.track>> \in DOMAIN track_ids
            /\ <<s, t>> \in DOMAIN track_ids
            /\ track_ids[<<read[m].source, read[m].packet.track>>] = track_ids[<<s, t>>]
        BY <3>1, <3>2, <3>4, <4>1 DEF Id, Known
      <4>4. <<read[m].source, read[m].packet.track>> = <<s, t>>
        BY <4>2, <4>3 DEF Table
      <4> QED BY <4>4
    <3>6. m \in Scopes(alone) /\ alone[m].track = t
      BY <1>2, <1>4, <3>1, <3>5
    <3> QED BY <1>5, <1>10, <3>6
  <2>2. Process(scopes, t) = None /\ Process(image, Id(track_ids, s, t)) = None
    BY <1>10, <2>1, Zenon DEF Process
  <2> QED BY <2>2 DEF PidOf, scopes, image, alone
<1> QED BY <1>9, <1>10

LEMMA TrackIsKept ==
  ASSUME MergeInv, NEW n \in Sequenced
  PROVE  LET s == read[n].source
             t == TrackOf(AloneIn(read, s), n)
         IN  Known(track_ids, s, t) /\ TrackOf(written, n) = Id(track_ids, s, t)
<1> DEFINE s     == read[n].source
           alone == AloneIn(read, s)
<1>1. /\ n \in DOMAIN read /\ n \in Nat /\ read[n].packet.kind = "event"
      /\ read[n].packet.sequence # None
      /\ \A m \in 1..n : m \in DOMAIN read
  BY ReadTyped DEF MergeInv, Sequenced, EventsRead
<1>2. alone[n] = read[n].packet /\ alone[n].kind # "other"
  BY <1>1, AloneIs
<1>3. \A m \in 1..n : read[m].source = s => alone[m] = read[m].packet
  BY <1>1, AloneIs
<1>4. \A m \in 1..n : read[m].source # s => alone[m].kind = "other"
  BY <1>1, AloneIs
<1>5. \A m \in 1..n : /\ written[m].kind = read[m].packet.kind
                      /\ Known(sequence_ids, read[m].source, read[m].packet.sequence)
                      /\ written[m].sequence = Id(sequence_ids, read[m].source, read[m].packet.sequence)
                      /\ Known(track_ids, read[m].source, read[m].packet.track)
                      /\ written[m].track = Id(track_ids, read[m].source, read[m].packet.track)
  BY <1>1, ReadTyped DEF MergeInv, Mirror
<1>6. n \in 1..n
  BY <1>1, ReadTyped DEF MergeInv
<1>7. \A m \in 1..n : written[m].sequence = written[n].sequence
                        <=> read[m].source = s /\ read[m].packet.sequence = read[n].packet.sequence
  BY <1>1, <1>5, <1>6, IdsDiffer DEF MergeInv
<1> HIDE DEF alone, s
<1>8. Settings(written, n) = Settings(alone, n)
  <2>1. ASSUME NEW m \in 1..n
        PROVE  written[m].kind = "defaults" /\ written[m].sequence = written[n].sequence
                 <=> alone[m].kind = "defaults" /\ alone[m].sequence = alone[n].sequence
    <3>1. CASE read[m].source = s
      BY <1>2, <1>3, <1>5, <1>7, <3>1
    <3>2. CASE read[m].source # s
      BY <1>4, <1>7, <3>2
    <3> QED BY <3>1, <3>2
  <2> QED BY <2>1 DEF Settings
<1>9. CASE alone[n].track # None
  <2>1. TrackOf(alone, n) = alone[n].track
    BY <1>1, <1>9, TrackIs
  <2>2. written[n].track = Id(track_ids, s, alone[n].track) /\ Known(track_ids, s, alone[n].track)
    BY <1>2, <1>5, <1>6 DEF s
  <2>3. written[n].track # None
    BY <1>9, <2>2, IdsDiffer DEF MergeInv
  <2>4. TrackOf(written, n) = written[n].track
    BY <1>1, <2>3, TrackIs
  <2> QED BY <2>1, <2>2, <2>4 DEF s, alone
<1>10. CASE alone[n].track = None
  <2>1. written[n].track = None
    BY <1>2, <1>5, <1>6, <1>10 DEF Id
  <2>2. CASE Settings(alone, n) = {}
    <3>1. TrackOf(alone, n) = None /\ TrackOf(written, n) = None
      BY <1>1, <1>8, <1>10, <2>1, <2>2, TrackIs
    <3> QED BY <3>1 DEF Id, Known, s, alone
  <2>3. CASE Settings(alone, n) # {}
    <3>1. Settings(alone, n) \in SUBSET (0..n)
      BY <1>1 DEF Settings
    <3>2. PICK m \in Settings(alone, n) : \A k \in Settings(alone, n) : k <= m
      BY <1>1, <2>3, <3>1, Greatest
    <3>3. TrackOf(alone, n) = alone[m].track /\ TrackOf(written, n) = written[m].track
      BY <1>1, <1>8, <1>10, <2>1, <3>2, TrackIs
    <3>4. m \in 1..n /\ read[m].source = s /\ alone[m] = read[m].packet
      BY <1>3, <1>4, <3>2 DEF Settings
    <3>5. Known(track_ids, s, alone[m].track) /\ written[m].track = Id(track_ids, s, alone[m].track)
      BY <1>5, <3>4
    <3> QED BY <3>3, <3>5 DEF s, alone
  <2> QED BY <2>2, <2>3
<1> QED BY <1>9, <1>10

LEMMA MergeKeepsTracks == MergeInv => TracksKept
<1> SUFFICES ASSUME MergeInv PROVE TracksKept
  OBVIOUS
<1>1. \A s : Alone(s) = AloneIn(read, s)
  BY DEF Alone, AloneIn, Foreign
<1>2. \A n \in Sequenced :
        LET t == TrackOf(AloneIn(read, read[n].source), n)
        IN  Known(track_ids, read[n].source, t) /\ TrackOf(written, n) = Id(track_ids, read[n].source, t)
  BY TrackIsKept
<1>3. ASSUME NEW n \in Sequenced, NEW m \in Sequenced,
             TrackOf(Alone(read[n].source), n) # None, TrackOf(Alone(read[m].source), m) # None
      PROVE  Same(n, m, TrackOf)
  <2>1. TrackOf(written, n) = TrackOf(written, m)
          <=> /\ read[n].source = read[m].source
              /\ TrackOf(Alone(read[n].source), n) = TrackOf(Alone(read[m].source), m)
    BY <1>1, <1>2, <1>3, IdsDiffer DEF MergeInv
  <2> QED BY <2>1 DEF Same
<1>4. ASSUME NEW n \in Sequenced
      PROVE  LET alone == Alone(read[n].source)
             IN  /\ (TrackOf(written, n) = None) <=> (TrackOf(alone, n) = None)
                 /\ PidOf(written, TrackOf(written, n)) = PidOf(alone, TrackOf(alone, n))
  <2> DEFINE t == TrackOf(AloneIn(read, read[n].source), n)
  <2>1. Known(track_ids, read[n].source, t) /\ TrackOf(written, n) = Id(track_ids, read[n].source, t)
    BY <1>2
  <2>2. PidOf(written, Id(track_ids, read[n].source, t)) = PidOf(AloneIn(read, read[n].source), t)
    BY <2>1, PidIsKept
  <2>3. Id(track_ids, read[n].source, t) = None <=> t = None
    BY <2>1, IdsDiffer DEF MergeInv
  <2> QED BY <1>1, <2>1, <2>2, <2>3
<1> QED BY <1>3, <1>4 DEF TracksKept

LEMMA MergeKeepsConnections == MergeInv => ConnectionsKept
<1> SUFFICES ASSUME MergeInv PROVE ConnectionsKept
  OBVIOUS
<1>1. \A s : Alone(s) = AloneIn(read, s)
  BY DEF Alone, AloneIn, Foreign
<1>2. \A n \in EventsRead :
        /\ n \in DOMAIN read /\ Mirror(n) /\ read[n].packet.kind = "event"
        /\ Alone(read[n].source)[n] = read[n].packet
        /\ \A m \in EventsRead : read[m].source = read[n].source =>
             Alone(read[n].source)[m] = read[m].packet
  BY <1>1, AloneIs DEF MergeInv, EventsRead
<1>3. ASSUME NEW n \in EventsRead, NEW m \in EventsRead,
             read[n].packet.flow # None, read[m].packet.flow # None
      PROVE  Same(n, m, LAMBDA packets, k : packets[k].flow)
  <2>1. /\ Known(flow_ids, read[n].source, read[n].packet.flow)
        /\ written[n].flow = Id(flow_ids, read[n].source, read[n].packet.flow)
        /\ Known(flow_ids, read[m].source, read[m].packet.flow)
        /\ written[m].flow = Id(flow_ids, read[m].source, read[m].packet.flow)
    BY <1>2 DEF Mirror
  <2>2. written[n].flow = written[m].flow
          <=> read[n].source = read[m].source /\ read[n].packet.flow = read[m].packet.flow
    BY <1>3, <2>1, IdsDiffer DEF MergeInv
  <2> QED BY <1>2, <2>2 DEF Same
<1>4. ASSUME NEW n \in Sequenced, read[n].packet.legacy.kind \in {"local", "global"}
      PROVE  /\ KeyIn(read, n) \in DOMAIN legacy_ids
             /\ Operation(written, n) = <<read[n].packet.legacy.kind, read[n].packet.legacy.scope,
                                          legacy_ids[KeyIn(read, n)], PidIn(read, n)>>
             /\ Operation(Alone(read[n].source), n)
                  = <<read[n].packet.legacy.kind, read[n].packet.legacy.scope,
                      read[n].packet.legacy.id, PidIn(read, n)>>
  <2> DEFINE alone == Alone(read[n].source)
             t     == TrackOf(alone, n)
  <2> n \in EventsRead /\ HasLegacy(read[n].packet)
    BY <1>4 DEF Sequenced, HasLegacy
  <2>1. /\ written[n].legacy.kind = read[n].packet.legacy.kind
        /\ written[n].legacy.scope = read[n].packet.legacy.scope
        /\ written[n].legacy.pid = read[n].packet.legacy.pid
        /\ KeyIn(read, n) \in DOMAIN legacy_ids
        /\ written[n].legacy.id = legacy_ids[KeyIn(read, n)]
    BY <1>2, <1>4 DEF Mirror
  <2>2. PidOf(written, TrackOf(written, n)) = PidOf(alone, t)
    BY MergeKeepsTracks DEF TracksKept
  <2>3. alone[n] = read[n].packet
    BY <1>2
  <2>4. PidIn(read, n) = IF read[n].packet.legacy.kind = "global" THEN None
                         ELSE IF read[n].packet.legacy.pid # None THEN read[n].packet.legacy.pid
                         ELSE PidOf(alone, t)
    BY <1>1 DEF PidIn
  <2> HIDE DEF alone
  <2> QED BY <2>1, <2>2, <2>3, <2>4 DEF Operation, alone
<1>5. ASSUME NEW n \in Sequenced, NEW m \in Sequenced,
             read[n].packet.legacy.kind \in {"local", "global"},
             read[m].packet.legacy.kind \in {"local", "global"}
      PROVE  Same(n, m, Operation)
  <2>1. \A k, l \in DOMAIN legacy_ids : legacy_ids[k] = legacy_ids[l] => k = l
    BY DEF MergeInv, Table
  <2>2. legacy_ids[KeyIn(read, n)] = legacy_ids[KeyIn(read, m)] <=> KeyIn(read, n) = KeyIn(read, m)
    BY <1>4, <1>5, <2>1
  <2>3. Operation(written, n) = Operation(written, m)
          <=> /\ read[n].source = read[m].source
              /\ Operation(Alone(read[n].source), n) = Operation(Alone(read[m].source), m)
    BY <1>4, <1>5, <2>2 DEF KeyIn
  <2> QED BY <2>3 DEF Same
<1> QED BY <1>3, <1>4, <1>5 DEF ConnectionsKept

(* One packet more.                                                         *)
Longer(r, q, s, p) ==
  /\ Len(r) \in Nat /\ DOMAIN r = 1..Len(r) /\ DOMAIN q = 1..(Len(r) + 1)
  /\ \A n \in DOMAIN r : q[n] = r[n]
  /\ q[Len(r) + 1].source = s /\ q[Len(r) + 1].packet = p

LEMMA LongerIs ==
  ASSUME NEW r, NEW q, NEW s, NEW p, Longer(r, q, s, p)
  PROVE  /\ Len(r) + 1 \notin DOMAIN r /\ Len(r) + 1 \in DOMAIN q
         /\ \A n \in DOMAIN q : n \in DOMAIN r \/ n = Len(r) + 1
         /\ \A n \in DOMAIN r : n \in DOMAIN q /\ n \in Nat /\ n < Len(r) + 1
BY DEF Longer

LEMMA ScopesStay ==
  ASSUME NEW r, NEW q, NEW s, NEW p, Longer(r, q, s, p),
         NEW u, ~(u = s /\ p.kind = "descriptor")
  PROVE  ScopesIn(AloneIn(q, u)) = ScopesIn(AloneIn(r, u))
<1> DEFINE old == AloneIn(r, u)
           new == AloneIn(q, u)
<1>1. /\ DOMAIN old = DOMAIN r /\ DOMAIN new = DOMAIN q
      /\ \A n \in DOMAIN r : new[n] = old[n]
  BY LongerIs DEF Longer, AloneIn
<1>2. new[Len(r) + 1].kind # "descriptor"
  <2>1. CASE u = s
    BY <2>1, LongerIs DEF Longer, AloneIn
  <2>2. CASE u # s
    BY <2>2, LongerIs DEF Longer, AloneIn, Foreign
  <2> QED BY <2>1, <2>2
<1> HIDE DEF old, new
<1>3. \A n : n \in Scopes(new) <=> n \in Scopes(old)
  BY <1>1, <1>2, LongerIs DEF Scopes
<1>4. Scopes(new) = Scopes(old) /\ \A m \in Scopes(old) : new[m] = old[m]
  BY <1>1, <1>3 DEF Scopes
<1>5. ScopesIn(new) = ScopesIn(old)
  BY <1>4, SameScopes
<1> QED BY <1>5 DEF old, new

LEMMA TrackStays ==
  ASSUME NEW r, NEW q, NEW s, NEW p, Longer(r, q, s, p), NEW u, NEW n \in DOMAIN r
  PROVE  TrackOf(AloneIn(q, u), n) = TrackOf(AloneIn(r, u), n)
<1> DEFINE old == AloneIn(r, u)
           new == AloneIn(q, u)
<1>1. \A m \in DOMAIN r : new[m] = old[m]
  BY LongerIs DEF Longer, AloneIn
<1>2. n \in DOMAIN r /\ \A m \in 1..n : m \in DOMAIN r
  BY DEF Longer
<1>3. new[n] = old[n] /\ \A m \in 1..n : new[m] = old[m]
  BY <1>1, <1>2
<1> SUFFICES TrackOf(new, n) = TrackOf(old, n)
  OBVIOUS
<1> HIDE DEF old, new
<1> DEFINE S == {m \in 1..n : old[m].kind = "defaults" /\ old[m].sequence = old[n].sequence}
           T == {m \in 1..n : new[m].kind = "defaults" /\ new[m].sequence = new[n].sequence}
<1>4. S = T
  BY <1>3
<1>5. TrackOf(old, n) = IF old[n].track # None THEN old[n].track
                        ELSE IF S = {} THEN None
                        ELSE old[CHOOSE m \in S : \A k \in S : k <= m].track
  BY DEF TrackOf
<1>6. TrackOf(new, n) = IF new[n].track # None THEN new[n].track
                        ELSE IF T = {} THEN None
                        ELSE new[CHOOSE m \in T : \A k \in T : k <= m].track
  BY DEF TrackOf
<1>0. S \in SUBSET (0..n) /\ n \in Nat /\ \A m \in S : m \in 1..n
  BY LongerIs
<1> HIDE DEF S, T
<1>7. CASE S = {}
  BY <1>3, <1>4, <1>5, <1>6, <1>7
<1>8. CASE S # {}
  <2>1. \E m \in S : \A k \in S : k <= m
    BY <1>0, <1>8, Greatest
  <2> DEFINE m == CHOOSE l \in S : \A k \in S : k <= l
  <2>2. m \in S
    BY <2>1
  <2>3. TrackOf(old, n) = IF old[n].track # None THEN old[n].track ELSE old[m].track
    BY <1>5, <1>8
  <2>4. TrackOf(new, n) = IF new[n].track # None THEN new[n].track ELSE new[m].track
    BY <1>4, <1>6, <1>8
  <2> HIDE DEF m
  <2>5. new[m] = old[m]
    BY <1>0, <1>3, <2>2
  <2> QED BY <1>3, <2>3, <2>4, <2>5
<1> QED BY <1>7, <1>8

LEMMA KeyStays ==
  ASSUME NEW r, NEW q, NEW s, NEW p, Longer(r, q, s, p),
         NEW n \in DOMAIN r, ~(r[n].source = s /\ p.kind = "descriptor")
  PROVE  KeyIn(q, n) = KeyIn(r, n)
<1> DEFINE u == r[n].source
<1>1. q[n] = r[n]
  BY DEF Longer
<1>2. TrackOf(AloneIn(q, u), n) = TrackOf(AloneIn(r, u), n)
  BY TrackStays
<1>3. ScopesIn(AloneIn(q, u)) = ScopesIn(AloneIn(r, u))
  BY ScopesStay
<1> QED BY <1>1, <1>2, <1>3 DEF KeyIn, PidIn, PidOf

(* What has been written stays right when tables grow.                      *)
LEMMA MirrorStays ==
  ASSUME MergeInv, NEW p, Longer(read, read', source, p),
         \A n \in DOMAIN read : written'[n] = written[n],
         Grown(track_ids, track_ids'), Grown(sequence_ids, sequence_ids'),
         Grown(flow_ids, flow_ids'), Grown(legacy_ids, legacy_ids'),
         p.kind = "descriptor" => OnlyDescribed,
         NEW n \in DOMAIN read
  PROVE  Mirror(n)'
<1> DEFINE s == read[n].source
<1>1. Mirror(n) /\ read'[n] = read[n] /\ written'[n] = written[n]
  BY DEF MergeInv, Longer
<1>2. ASSUME NEW t, NEW u, Grown(t, u), NEW v, Known(t, s, v)
      PROVE  Known(u, s, v) /\ Id(u, s, v) = Id(t, s, v)
  BY <1>2 DEF Grown, Known, Id
<1>3. ASSUME read[n].packet.kind = "event" PROVE KeyIn(read', n) = KeyIn(read, n)
  <2>1. ~(s = source /\ p.kind = "descriptor")
    BY <1>3 DEF OnlyDescribed, InSource
  <2> QED BY <2>1, KeyStays
<1>4. ASSUME read[n].packet.kind = "event", HasLegacy(read[n].packet)
      PROVE  /\ KeyIn(read', n) \in DOMAIN legacy_ids'
             /\ legacy_ids'[KeyIn(read', n)] = legacy_ids[KeyIn(read, n)]
  BY <1>1, <1>3, <1>4 DEF Mirror, Grown
<1> QED BY <1>1, <1>2, <1>4 DEF Mirror

LEMMA HierarchyStays ==
  ASSUME NEW r, NEW q, NEW s, NEW p, Longer(r, q, s, p), Hierarchy(r),
         p.kind = "descriptor" =>
           /\ \A n \in DOMAIN r : Described(r, n) /\ r[n].source = s => r[n].packet.track # p.track
           /\ p.parent # None => \E n \in DOMAIN r : /\ Described(r, n) /\ r[n].source = s
                                                     /\ r[n].packet.track = p.parent
  PROVE  Hierarchy(q)
<1> DEFINE k == Len(r) + 1
<1>1. /\ \A n \in DOMAIN q : n \in DOMAIN r \/ n = k
      /\ \A n \in DOMAIN r : n \in DOMAIN q /\ n < k /\ q[n] = r[n]
      /\ q[k].source = s /\ q[k].packet = p /\ k \notin DOMAIN r
  BY LongerIs DEF Longer
<1>2. \A n \in DOMAIN r : Described(q, n) <=> Described(r, n)
  BY <1>1 DEF Described
<1>3. Described(q, k) => p.kind = "descriptor"
  BY <1>1 DEF Described
<1> HIDE DEF k
<1>4. ASSUME NEW n \in DOMAIN q, NEW m \in DOMAIN q, Described(q, n), Described(q, m),
             q[n].source = q[m].source, q[n].packet.track = q[m].packet.track
      PROVE  n = m
  BY <1>1, <1>2, <1>3, <1>4 DEF Hierarchy
<1>5. ASSUME NEW n \in DOMAIN q, Described(q, n), q[n].packet.parent # None
      PROVE  \E m \in DOMAIN q : /\ m < n /\ Described(q, m) /\ q[m].source = q[n].source
                                 /\ q[m].packet.track = q[n].packet.parent
  <2>1. CASE n \in DOMAIN r
    <3>1. PICK m \in DOMAIN r : /\ m < n /\ Described(r, m) /\ r[m].source = r[n].source
                                /\ r[m].packet.track = r[n].packet.parent
      BY <1>1, <1>2, <1>5, <2>1 DEF Hierarchy
    <3> QED BY <1>1, <1>2, <2>1, <3>1
  <2>2. CASE n = k
    <3>1. PICK m \in DOMAIN r : /\ Described(r, m) /\ r[m].source = s
                                /\ r[m].packet.track = p.parent
      BY <1>1, <1>3, <1>5, <2>2
    <3> QED BY <1>1, <1>2, <2>2, <3>1
  <2> QED BY <1>1, <2>1, <2>2
<1> QED BY <1>4, <1>5 DEF Hierarchy

LEMMA NotedIs ==
  ASSUME NEW table, NEW key, NEW value
  PROVE  /\ \A k : k \in DOMAIN Noted(table, key, value) <=> k \in DOMAIN table \/ k = key
         /\ Noted(table, key, value)[key] = value
         /\ \A k \in DOMAIN table : k # key => Noted(table, key, value)[k] = table[k]
BY DEF Noted

LEMMA ScopesNotedStay ==
  ASSUME NEW r, NEW q, NEW s, NEW p, Longer(r, q, s, p), NEW scopes, ScopesNoted(r, scopes)
  PROVE  /\ p.kind # "descriptor" => ScopesNoted(q, scopes)
         /\ p.kind = "descriptor"
              /\ (\A n \in DOMAIN r : Described(r, n) /\ r[n].source = s
                                        => r[n].packet.track # p.track)
              => ScopesNoted(q, Noted(scopes, <<s, p.track>>, [parent |-> p.parent, pid |-> p.pid]))
<1> DEFINE k   == Len(r) + 1
           key == <<s, p.track>>
           new == [parent |-> p.parent, pid |-> p.pid]
<1>1. /\ \A n \in DOMAIN q : n \in DOMAIN r \/ n = k
      /\ \A n \in DOMAIN r : n \in DOMAIN q /\ q[n] = r[n]
      /\ q[k].source = s /\ q[k].packet = p /\ k \in DOMAIN q
  BY LongerIs DEF Longer
<1>2. \A n \in DOMAIN r : /\ Described(q, n) <=> Described(r, n)
                          /\ TrackKey(q, n) = TrackKey(r, n)
  BY <1>1 DEF Described, TrackKey
<1>3. TrackKey(q, k) = key /\ (Described(q, k) <=> p.kind = "descriptor")
  BY <1>1 DEF Described, TrackKey
<1> HIDE DEF k
<1>4. ASSUME p.kind # "descriptor" PROVE ScopesNoted(q, scopes)
  BY <1>1, <1>2, <1>3, <1>4 DEF ScopesNoted
<1>5. ASSUME p.kind = "descriptor",
             \A n \in DOMAIN r : Described(r, n) /\ r[n].source = s => r[n].packet.track # p.track
      PROVE  ScopesNoted(q, Noted(scopes, key, new))
  <2>1. \A n \in DOMAIN r : Described(r, n) => TrackKey(r, n) # key
    BY <1>5 DEF TrackKey
  <2>2. [parent |-> q[k].packet.parent, pid |-> q[k].packet.pid] = new
    BY <1>1
  <2> HIDE DEF key, new
  <2>3. ASSUME NEW n \in DOMAIN q, Described(q, n)
        PROVE  /\ TrackKey(q, n) \in DOMAIN Noted(scopes, key, new)
               /\ Noted(scopes, key, new)[TrackKey(q, n)]
                    = [parent |-> q[n].packet.parent, pid |-> q[n].packet.pid]
    <3>1. CASE n = k
      BY <1>3, <2>2, <3>1, NotedIs
    <3>2. CASE n \in DOMAIN r
      BY <1>1, <1>2, <2>1, <2>3, <3>2, NotedIs DEF ScopesNoted
    <3> QED BY <1>1, <3>1, <3>2
  <2>4. \A i \in DOMAIN Noted(scopes, key, new) :
          \E n \in DOMAIN q : Described(q, n) /\ i = TrackKey(q, n)
    BY <1>1, <1>2, <1>3, <1>5, NotedIs DEF ScopesNoted
  <2> QED BY <2>3, <2>4 DEF ScopesNoted
<1> QED BY <1>4, <1>5

LEMMA DefaultsNotedStay ==
  ASSUME NEW r, NEW q, NEW s, NEW p, Longer(r, q, s, p), NEW tracks, DefaultsNoted(r, tracks)
  PROVE  /\ p.kind # "defaults" => DefaultsNoted(q, tracks)
         /\ p.kind = "defaults" => DefaultsNoted(q, Noted(tracks, <<s, p.sequence>>, p.track))
<1> DEFINE k   == Len(r) + 1
           key == <<s, p.sequence>>
           new == Noted(tracks, key, p.track)
<1>1. /\ \A n \in DOMAIN q : n \in DOMAIN r \/ n = k
      /\ \A n \in DOMAIN r : n \in DOMAIN q /\ q[n] = r[n] /\ n \in Nat /\ n < k
      /\ q[k].source = s /\ q[k].packet = p /\ k \in DOMAIN q /\ k \in Nat
  BY LongerIs DEF Longer
<1>2. \A i : \A n \in DOMAIN r : Setting(q, n, i) <=> Setting(r, n, i)
  BY <1>1 DEF Setting
<1>3. \A i : Setting(q, k, i) <=> p.kind = "defaults" /\ i = key
  BY <1>1 DEF Setting
<1> HIDE DEF k
<1>4. ASSUME p.kind # "defaults" PROVE DefaultsNoted(q, tracks)
  <2>1. \A n \in DOMAIN q : q[n].packet.kind = "defaults" =>
          <<q[n].source, q[n].packet.sequence>> \in DOMAIN tracks
    BY <1>1, <1>4 DEF DefaultsNoted
  <2>2. ASSUME NEW i \in DOMAIN tracks
        PROVE  \E n \in DOMAIN q : /\ Setting(q, n, i) /\ tracks[i] = q[n].packet.track
                                   /\ \A m \in DOMAIN q : Setting(q, m, i) => m <= n
    <3>1. PICK n \in DOMAIN r : /\ Setting(r, n, i) /\ tracks[i] = r[n].packet.track
                                /\ \A m \in DOMAIN r : Setting(r, m, i) => m <= n
      BY DEF DefaultsNoted
    <3>2. \A m \in DOMAIN q : Setting(q, m, i) => m \in DOMAIN r /\ Setting(r, m, i)
      BY <1>1, <1>2, <1>3, <1>4
    <3> QED BY <1>1, <1>2, <3>1, <3>2
  <2> QED BY <2>1, <2>2 DEF DefaultsNoted
<1>5. ASSUME p.kind = "defaults" PROVE DefaultsNoted(q, new)
  <2>1. /\ \A i : i \in DOMAIN new <=> i \in DOMAIN tracks \/ i = key
        /\ new[key] = p.track
        /\ \A i \in DOMAIN tracks : i # key => new[i] = tracks[i]
    BY NotedIs
  <2>2. <<q[k].source, q[k].packet.sequence>> = key
    BY <1>1
  <2> HIDE DEF key, new
  <2>3. \A n \in DOMAIN q : q[n].packet.kind = "defaults" =>
          <<q[n].source, q[n].packet.sequence>> \in DOMAIN new
    BY <1>1, <2>1, <2>2 DEF DefaultsNoted
  <2>4. ASSUME NEW i \in DOMAIN new
        PROVE  \E n \in DOMAIN q : /\ Setting(q, n, i) /\ new[i] = q[n].packet.track
                                   /\ \A m \in DOMAIN q : Setting(q, m, i) => m <= n
    <3>1. CASE i = key
      <4>1. Setting(q, k, i) /\ new[i] = q[k].packet.track
        BY <1>1, <1>3, <1>5, <2>1, <3>1
      <4>2. \A m \in DOMAIN q : m <= k
        BY <1>1
      <4> QED BY <1>1, <4>1, <4>2
    <3>2. CASE i # key
      <4>1. i \in DOMAIN tracks /\ new[i] = tracks[i]
        BY <2>1, <3>2
      <4>2. PICK n \in DOMAIN r : /\ Setting(r, n, i) /\ tracks[i] = r[n].packet.track
                                  /\ \A m \in DOMAIN r : Setting(r, m, i) => m <= n
        BY <4>1 DEF DefaultsNoted
      <4>3. \A m \in DOMAIN q : Setting(q, m, i) => m \in DOMAIN r /\ Setting(r, m, i)
        BY <1>1, <1>2, <1>3, <3>2
      <4> QED BY <1>1, <1>2, <4>1, <4>2, <4>3
    <3> QED BY <3>1, <3>2
  <2> QED BY <2>3, <2>4 DEF DefaultsNoted
<1> QED BY <1>4, <1>5

(* The process that the merge finds for a track is the one that a reader of *)
(* the source finds, and so is the default track.                           *)
LEMMA EffectivePidIs ==
  ASSUME MergeInv, NEW t
  PROVE  EffectivePid(t) = PidOf(AloneIn(read, source), t)
<1> DEFINE alone  == AloneIn(read, source)
           scopes == ScopesIn(alone)
           uuids  == {k[2] : k \in {l \in DOMAIN track_scopes : l[1] = source}}
           noted  == [u \in uuids |-> track_scopes[<<source, u>>]]
<1>1. /\ DOMAIN scopes = {alone[m].track : m \in Scopes(alone)}
      /\ \A m \in Scopes(alone) :
           scopes[alone[m].track] = [parent |-> alone[m].parent, pid |-> alone[m].pid]
  <2>1. Len(read) \in Nat /\ DOMAIN alone = 1..Len(read)
    BY ReadTyped, AloneIs DEF MergeInv
  <2>2. TracksDescribed(alone)
    BY AloneDescribed
  <2> QED BY <2>1, <2>2, ScopesAre
<1>2. /\ \A n : n \in Scopes(alone) <=> Described(read, n) /\ read[n].source = source
      /\ \A n \in Scopes(alone) : n \in DOMAIN read /\ alone[n] = read[n].packet
  BY AloneDescribed, AloneIs DEF Described
<1>3. scopes = [u \in DOMAIN scopes |-> scopes[u]]
  BY DEF ScopesIn
<1> HIDE DEF alone, scopes
<1>4. ASSUME NEW m \in Scopes(alone)
      PROVE  /\ <<source, alone[m].track>> \in DOMAIN track_scopes
             /\ track_scopes[<<source, alone[m].track>>] = scopes[alone[m].track]
  <2> DEFINE scope == [parent |-> alone[m].parent, pid |-> alone[m].pid]
  <2>1. scopes[alone[m].track] = scope
    BY <1>1
  <2>2. /\ m \in DOMAIN read /\ Described(read, m) /\ alone[m] = read[m].packet
        /\ TrackKey(read, m) = <<source, alone[m].track>>
    BY <1>2 DEF TrackKey
  <2>3. /\ TrackKey(read, m) \in DOMAIN track_scopes
        /\ track_scopes[TrackKey(read, m)] = [parent |-> read[m].packet.parent,
                                              pid |-> read[m].packet.pid]
    BY <2>2 DEF MergeInv, ScopesNoted
  <2>4. track_scopes[TrackKey(read, m)] = scope
    BY <2>2, <2>3
  <2> HIDE DEF scope
  <2> QED BY <2>1, <2>2, <2>3, <2>4
<1>5. ASSUME NEW k \in DOMAIN track_scopes, k[1] = source PROVE k[2] \in DOMAIN scopes
  <2>1. PICK n \in DOMAIN read : Described(read, n) /\ k = TrackKey(read, n)
    BY DEF MergeInv, ScopesNoted
  <2>2. read[n].source = source /\ k[2] = read[n].packet.track
    BY <1>5, <2>1 DEF TrackKey
  <2> QED BY <1>1, <1>2, <2>1, <2>2
<1>6. uuids = DOMAIN scopes
  <2>1. \A u \in uuids : u \in DOMAIN scopes
    BY <1>5
  <2>2. ASSUME NEW u \in DOMAIN scopes PROVE u \in uuids
    <3>1. PICK m \in Scopes(alone) : u = alone[m].track
      BY <1>1
    <3>2. <<source, u>> \in {l \in DOMAIN track_scopes : l[1] = source} /\ <<source, u>>[2] = u
      BY <1>4, <3>1
    <3> QED BY <3>2
  <2> QED BY <2>1, <2>2
<1>7. \A u \in DOMAIN scopes : track_scopes[<<source, u>>] = scopes[u]
  BY <1>1, <1>4
<1>8. noted = scopes
  BY <1>3, <1>6, <1>7
<1> QED BY <1>8 DEF EffectivePid, PidOf, scopes, alone

LEMMA DefaultTrackIs ==
  ASSUME MergeInv, NEW q, NEW p, Longer(read, q, source, p), p.kind = "event", p.track = None
  PROVE  TrackOf(AloneIn(q, source), Len(read) + 1) = DefaultTrack(p.sequence)
<1> DEFINE k     == Len(read) + 1
           alone == AloneIn(q, source)
           key   == <<source, p.sequence>>
<1>1. /\ \A n \in 1..k : n \in DOMAIN read \/ n = k
      /\ \A n \in DOMAIN read : n \in 1..k
      /\ k \in Nat /\ alone[k] = p
  BY LongerIs, AloneIs DEF Longer
<1>2. ASSUME NEW n \in DOMAIN read
      PROVE  (alone[n].kind = "defaults" /\ alone[n].sequence = p.sequence) <=> Setting(read, n, key)
  <2>1. n \in DOMAIN q /\ q[n] = read[n]
    BY LongerIs DEF Longer
  <2> QED BY <2>1, AloneIs DEF Setting
<1>3. \A n \in DOMAIN read : Setting(read, n, key) => alone[n].track = read[n].packet.track
  BY LongerIs, AloneIs DEF Longer, Setting
<1> HIDE DEF k, alone, key
<1>4. \A n : n \in Settings(alone, k) <=> n \in DOMAIN read /\ Setting(read, n, key)
  BY <1>1, <1>2 DEF Settings
<1>5. CASE key \in DOMAIN default_tracks
  <2>1. PICK n \in DOMAIN read :
          /\ Setting(read, n, key) /\ default_tracks[key] = read[n].packet.track
          /\ \A m \in DOMAIN read : Setting(read, m, key) => m <= n
    BY <1>5 DEF MergeInv, DefaultsNoted
  <2>2. n \in Settings(alone, k) /\ \A m \in Settings(alone, k) : m <= n
    BY <1>4, <2>1
  <2>3. TrackOf(alone, k) = alone[n].track
    BY <1>1, <2>2, TrackIs
  <2> QED BY <1>3, <1>5, <2>1, <2>3 DEF DefaultTrack, alone, k, key
<1>6. CASE key \notin DOMAIN default_tracks
  <2>1. \A n \in DOMAIN read : ~Setting(read, n, key)
    BY <1>6 DEF MergeInv, DefaultsNoted, Setting
  <2>2. Settings(alone, k) = {}
    BY <1>4, <2>1
  <2>3. TrackOf(alone, k) = None
    BY <1>1, <2>2, TrackIs
  <2> QED BY <1>6, <2>3 DEF DefaultTrack, alone, k, key
<1> QED BY <1>5, <1>6

LEMMA LegacyKeyIs ==
  ASSUME MergeInv, NEW q, NEW p, Longer(read, q, source, p), p.kind = "event"
  PROVE  KeyIn(q, Len(read) + 1) = LegacyKey(p)
<1> DEFINE k     == Len(read) + 1
           alone == AloneIn(q, source)
           track == IF p.track # None THEN p.track ELSE DefaultTrack(p.sequence)
<1>1. k \in Nat /\ k \in DOMAIN q /\ q[k].packet = p /\ q[k].source = source
  BY LongerIs DEF Longer
<1>2. alone[k] = p
  BY <1>1, AloneIs
<1>3. TrackOf(alone, k) = track
  BY <1>1, <1>2, TrackIs, DefaultTrackIs
<1>4. ScopesIn(alone) = ScopesIn(AloneIn(read, source))
  BY ScopesStay
<1>5. PidOf(alone, track) = EffectivePid(track)
  BY <1>4, EffectivePidIs DEF PidOf
<1>6. PidIn(q, k) = IF p.legacy.kind = "global" THEN None
                    ELSE IF p.legacy.pid # None THEN p.legacy.pid ELSE EffectivePid(track)
  BY <1>1, <1>3, <1>5 DEF PidIn
<1> QED BY <1>1, <1>6 DEF KeyIn, LegacyKey

(* A packet is read and written.                                            *)
LEMMA WriteAppends ==
  ASSUME MergeInv, NEW p \in Vocabulary, NEW w \in Packets, Write(p, w)
  PROVE  /\ Longer(read, read', source, p) /\ MergeType'
         /\ written'[Len(read) + 1] = w
         /\ \A n \in DOMAIN read : written'[n] = written[n]
<1> DEFINE R == [source : Nat, packet : Vocabulary]
           e == [source |-> source, packet |-> p]
<1>1. /\ source \in Nat /\ read \in Seq(R) /\ written \in Seq(Packets) /\ Len(written) = Len(read)
  BY DEF MergeInv, MergeType
<1>2. e \in R /\ e.source = source /\ e.packet = p
  BY <1>1
<1>3. source' = source /\ read' = Append(read, e) /\ written' = Append(written, w)
  BY DEF Write
<1>4. Len(read) \in Nat /\ DOMAIN read = 1..Len(read)
  BY ReadTyped DEF MergeInv
<1> HIDE DEF R, e
<1>5. /\ read' \in Seq(R) /\ Len(read') = Len(read) + 1 /\ DOMAIN read' = 1..(Len(read) + 1)
      /\ read'[Len(read) + 1] = e /\ \A n \in 1..Len(read) : read'[n] = read[n]
  BY <1>1, <1>2, <1>3, <1>4, AppendProperties, LenProperties
<1>6. /\ written' \in Seq(Packets) /\ Len(written') = Len(written) + 1
      /\ written'[Len(written) + 1] = w /\ \A n \in 1..Len(written) : written'[n] = written[n]
  BY <1>1, <1>3, AppendProperties
<1>7. Longer(read, read', source, p)
  BY <1>2, <1>4, <1>5 DEF Longer
<1>8. MergeType'
  BY <1>1, <1>3, <1>5, <1>6 DEF MergeType, R
<1> QED BY <1>1, <1>4, <1>6, <1>7, <1>8

LEMMA MirrorFollows ==
  ASSUME MergeInv, NEW p \in Vocabulary, NEW w \in Packets, Write(p, w),
         Grown(track_ids, track_ids'), Grown(sequence_ids, sequence_ids'),
         Grown(flow_ids, flow_ids'), Grown(legacy_ids, legacy_ids'),
         p.kind = "descriptor" => OnlyDescribed,
         /\ w.kind = p.kind
         /\ Known(sequence_ids', source, p.sequence)
         /\ w.sequence = Id(sequence_ids', source, p.sequence)
         /\ Known(track_ids', source, p.track) /\ w.track = Id(track_ids', source, p.track),
         p.kind = "descriptor" =>
           /\ Known(track_ids', source, p.parent) /\ w.parent = Id(track_ids', source, p.parent)
           /\ w.pid = p.pid,
         p.kind = "event" =>
           /\ Known(flow_ids', source, p.flow) /\ w.flow = Id(flow_ids', source, p.flow)
           /\ w.legacy.kind = p.legacy.kind /\ w.legacy.scope = p.legacy.scope
           /\ w.legacy.pid = p.legacy.pid
           /\ HasLegacy(p) =>
                LegacyKey(p) \in DOMAIN legacy_ids' /\ w.legacy.id = legacy_ids'[LegacyKey(p)]
  PROVE  \A n \in DOMAIN read' : Mirror(n)'
<1>1. /\ Longer(read, read', source, p)
      /\ written'[Len(read) + 1] = w
      /\ \A n \in DOMAIN read : written'[n] = written[n]
  BY WriteAppends
<1>2. \A n \in DOMAIN read : Mirror(n)'
  BY <1>1, MirrorStays
<1>3. PICK k : k = Len(read) + 1
  OBVIOUS
<1>4. read'[k].source = source /\ read'[k].packet = p /\ written'[k] = w
  BY <1>1, <1>3 DEF Longer
<1>5. p.kind = "event" => KeyIn(read', k) = LegacyKey(p)
  BY <1>1, <1>3, LegacyKeyIs
<1>6. Mirror(k)'
  BY <1>4, <1>5 DEF Mirror
<1>7. \A n \in DOMAIN read' : n \in DOMAIN read \/ n = k
  BY <1>1, <1>3, LongerIs
<1> QED BY <1>2, <1>6, <1>7

LEMMA LookupIs ==
  ASSUME NEW t, NEW value PROVE Lookup(t, value) = Id(t, source, value)
BY DEF Lookup, Id

LEMMA IdIsNat ==
  ASSUME NEW t, Table(t), NEW s, NEW v, Known(t, s, v) PROVE Id(t, s, v) \in Nat
BY IdsDiffer

LEMMA MergeDescriptorPreserves ==
  ASSUME MergeInv, NEW p \in Vocabulary, MergeDescriptor(p) PROVE MergeInv'
<1>1. p \in Descriptors /\ p.kind = "descriptor" /\ OnlyDescribed
  BY MergeAssumption DEF MergeDescriptor, Defaults, Events
<1>2. /\ Table(track_ids) /\ Table(sequence_ids) /\ Table(flow_ids) /\ Table(legacy_ids)
      /\ Hierarchy(read) /\ ScopesNoted(read, track_scopes) /\ DefaultsNoted(read, default_tracks)
  BY DEF MergeInv
<1>3. /\ sequence_ids' = MappedUnless0(sequence_ids, p.sequence)
      /\ track_ids' = MappedUnless0(MappedUnless0(track_ids, p.track), p.parent)
      /\ track_scopes' = Noted(track_scopes, <<source, p.track>>,
                               [parent |-> p.parent, pid |-> p.pid])
      /\ flow_ids' = flow_ids /\ legacy_ids' = legacy_ids /\ default_tracks' = default_tracks
  BY DEF MergeDescriptor
<1>4. /\ Table(sequence_ids') /\ Grown(sequence_ids, sequence_ids')
      /\ Known(sequence_ids', source, p.sequence)
  BY <1>2, <1>3, MappedUnless0IsTable
<1>5. /\ Table(track_ids') /\ Grown(track_ids, track_ids')
      /\ Known(track_ids', source, p.track) /\ Known(track_ids', source, p.parent)
  <2> DEFINE t == MappedUnless0(track_ids, p.track)
  <2>1. Table(t) /\ Grown(track_ids, t) /\ Known(t, source, p.track)
    BY <1>2, MappedUnless0IsTable
  <2> HIDE DEF t
  <2>2. /\ Table(MappedUnless0(t, p.parent)) /\ Grown(t, MappedUnless0(t, p.parent))
        /\ Known(MappedUnless0(t, p.parent), source, p.parent)
    BY <2>1, MappedUnless0IsTable
  <2>3. track_ids' = MappedUnless0(t, p.parent)
    BY <1>3 DEF t
  <2> QED BY <2>1, <2>2, <2>3 DEF Grown, Known
<1>6. /\ Table(flow_ids') /\ Grown(flow_ids, flow_ids')
      /\ Table(legacy_ids') /\ Grown(legacy_ids, legacy_ids')
  BY <1>2, <1>3 DEF Grown
<1> DEFINE w == [p EXCEPT !.sequence = Lookup(sequence_ids', @), !.track = Lookup(track_ids', @),
                          !.parent = Lookup(track_ids', @)]
<1>7. Write(p, w)
  BY DEF MergeDescriptor
<1>8. /\ w.kind = p.kind /\ w.sequence = Id(sequence_ids', source, p.sequence)
      /\ w.track = Id(track_ids', source, p.track)
      /\ w.parent = Id(track_ids', source, p.parent) /\ w.pid = p.pid
  BY <1>1, LookupIs DEF Descriptors
<1>9. w \in Packets
  <2>1. /\ Lookup(sequence_ids', p.sequence) \in Nat /\ Lookup(track_ids', p.track) \in Nat
        /\ Lookup(track_ids', p.parent) \in Nat
    BY <1>4, <1>5, LookupIs, IdIsNat
  <2> QED BY <1>1, <2>1 DEF Descriptors, Packets
<1> HIDE DEF w
<1>10. \A n \in DOMAIN read' : Mirror(n)'
  BY <1>1, <1>4, <1>5, <1>6, <1>7, <1>8, <1>9, MirrorFollows
<1>11. Longer(read, read', source, p) /\ MergeType'
  BY <1>7, <1>9, WriteAppends
<1>12. /\ \A n \in DOMAIN read : Described(read, n) /\ read[n].source = source
                                   => read[n].packet.track # p.track
       /\ p.parent # None => \E n \in DOMAIN read : /\ Described(read, n) /\ read[n].source = source
                                                    /\ read[n].packet.track = p.parent
  BY DEF MergeDescriptor, DescribedIn, InSource, Described
<1>13. Hierarchy(read')
  BY <1>2, <1>11, <1>12, HierarchyStays
<1>14. ScopesNoted(read', track_scopes')
  BY <1>1, <1>2, <1>3, <1>11, <1>12, ScopesNotedStay
<1>15. DefaultsNoted(read', default_tracks')
  BY <1>1, <1>2, <1>3, <1>11, DefaultsNotedStay
<1> QED BY <1>4, <1>5, <1>6, <1>10, <1>11, <1>13, <1>14, <1>15 DEF MergeInv

LEMMA MergeDefaultsPreserves ==
  ASSUME MergeInv, NEW p \in Vocabulary, MergeDefaults(p) PROVE MergeInv'
<1>1. p \in Defaults /\ p.kind = "defaults"
  BY MergeAssumption DEF MergeDefaults, Descriptors, Events
<1>2. /\ Table(track_ids) /\ Table(sequence_ids) /\ Table(flow_ids) /\ Table(legacy_ids)
      /\ Hierarchy(read) /\ ScopesNoted(read, track_scopes) /\ DefaultsNoted(read, default_tracks)
  BY DEF MergeInv
<1>3. /\ sequence_ids' = MappedUnless0(sequence_ids, p.sequence)
      /\ track_ids' = MappedUnless0(track_ids, p.track)
      /\ default_tracks' = Noted(default_tracks, <<source, p.sequence>>, p.track)
      /\ flow_ids' = flow_ids /\ legacy_ids' = legacy_ids /\ track_scopes' = track_scopes
  BY DEF MergeDefaults
<1>4. /\ Table(sequence_ids') /\ Grown(sequence_ids, sequence_ids')
      /\ Known(sequence_ids', source, p.sequence)
  BY <1>2, <1>3, MappedUnless0IsTable
<1>5. Table(track_ids') /\ Grown(track_ids, track_ids') /\ Known(track_ids', source, p.track)
  BY <1>2, <1>3, MappedUnless0IsTable
<1>6. /\ Table(flow_ids') /\ Grown(flow_ids, flow_ids')
      /\ Table(legacy_ids') /\ Grown(legacy_ids, legacy_ids')
  BY <1>2, <1>3 DEF Grown
<1> DEFINE w == [p EXCEPT !.sequence = Lookup(sequence_ids', @), !.track = Lookup(track_ids', @)]
<1>7. Write(p, w)
  BY DEF MergeDefaults
<1>8. /\ w.kind = p.kind /\ w.sequence = Id(sequence_ids', source, p.sequence)
      /\ w.track = Id(track_ids', source, p.track)
  BY <1>1, LookupIs DEF Defaults
<1>9. w \in Packets
  <2>1. Lookup(sequence_ids', p.sequence) \in Nat /\ Lookup(track_ids', p.track) \in Nat
    BY <1>4, <1>5, LookupIs, IdIsNat
  <2> QED BY <1>1, <2>1 DEF Defaults, Packets
<1> HIDE DEF w
<1>10. \A n \in DOMAIN read' : Mirror(n)'
  BY <1>1, <1>4, <1>5, <1>6, <1>7, <1>8, <1>9, MirrorFollows
<1>11. Longer(read, read', source, p) /\ MergeType'
  BY <1>7, <1>9, WriteAppends
<1>12. Hierarchy(read') /\ ScopesNoted(read', track_scopes')
  BY <1>1, <1>2, <1>3, <1>11, HierarchyStays, ScopesNotedStay
<1>13. DefaultsNoted(read', default_tracks')
  BY <1>1, <1>2, <1>3, <1>11, DefaultsNotedStay
<1> QED BY <1>4, <1>5, <1>6, <1>10, <1>11, <1>12, <1>13 DEF MergeInv

LEMMA MergeEventPreserves ==
  ASSUME MergeInv, NEW p \in Vocabulary, MergeEvent(p) PROVE MergeInv'
<1>1. p \in Events /\ p.kind = "event"
  BY MergeAssumption DEF MergeEvent, Descriptors, Defaults
<1>2. /\ Table(track_ids) /\ Table(sequence_ids) /\ Table(flow_ids) /\ Table(legacy_ids)
      /\ Hierarchy(read) /\ ScopesNoted(read, track_scopes) /\ DefaultsNoted(read, default_tracks)
  BY DEF MergeInv
<1>3. /\ sequence_ids' = MappedUnless0(sequence_ids, p.sequence)
      /\ track_ids' = MappedUnless0(track_ids, p.track)
      /\ flow_ids' = MappedUnless0(flow_ids, p.flow)
      /\ legacy_ids' = IF HasLegacy(p) THEN Mapped(legacy_ids, LegacyKey(p)) ELSE legacy_ids
      /\ track_scopes' = track_scopes /\ default_tracks' = default_tracks
  BY DEF MergeEvent
<1>4. /\ Table(sequence_ids') /\ Grown(sequence_ids, sequence_ids')
      /\ Known(sequence_ids', source, p.sequence)
  BY <1>2, <1>3, MappedUnless0IsTable
<1>5. /\ Table(track_ids') /\ Grown(track_ids, track_ids') /\ Known(track_ids', source, p.track)
      /\ Table(flow_ids') /\ Grown(flow_ids, flow_ids') /\ Known(flow_ids', source, p.flow)
  BY <1>2, <1>3, MappedUnless0IsTable
<1>6. /\ Table(legacy_ids') /\ Grown(legacy_ids, legacy_ids')
      /\ HasLegacy(p) => LegacyKey(p) \in DOMAIN legacy_ids'
  <2>1. CASE HasLegacy(p)
    BY <1>2, <1>3, <2>1, MappedIsTable
  <2>2. CASE ~HasLegacy(p)
    BY <1>2, <1>3, <2>2 DEF Grown
  <2> QED BY <2>1, <2>2
<1> DEFINE id     == IF HasLegacy(p) THEN legacy_ids'[LegacyKey(p)] ELSE p.legacy.id
           legacy == [p.legacy EXCEPT !.id = id]
           w      == [p EXCEPT !.sequence = Lookup(sequence_ids', p.sequence),
                               !.track = Lookup(track_ids', p.track),
                               !.flow = Lookup(flow_ids', p.flow), !.legacy = legacy]
<1>7. Write(p, w)
  BY DEF MergeEvent
<1>8. /\ Lookup(sequence_ids', p.sequence) \in Nat /\ Lookup(track_ids', p.track) \in Nat
      /\ Lookup(flow_ids', p.flow) \in Nat
  BY <1>4, <1>5, LookupIs, IdIsNat
<1>9. id \in Nat
  BY <1>1, <1>6 DEF Table, Events, Legacies
<1>10. /\ legacy \in Legacies /\ legacy.kind = p.legacy.kind
       /\ legacy.scope = p.legacy.scope /\ legacy.pid = p.legacy.pid /\ legacy.id = id
  <2>1. p.legacy \in Legacies
    BY <1>1 DEF Events
  <2> HIDE DEF id
  <2> QED BY <1>9, <2>1 DEF Legacies
<1>11. /\ w \in Events /\ w.kind = p.kind /\ w.sequence = Lookup(sequence_ids', p.sequence)
       /\ w.track = Lookup(track_ids', p.track) /\ w.flow = Lookup(flow_ids', p.flow)
       /\ w.legacy = legacy
  <2> HIDE DEF legacy
  <2> QED BY <1>1, <1>8, <1>10 DEF Events
<1> HIDE DEF w, legacy
<1>12. /\ w \in Packets /\ w.sequence = Id(sequence_ids', source, p.sequence)
       /\ w.track = Id(track_ids', source, p.track) /\ w.flow = Id(flow_ids', source, p.flow)
       /\ w.legacy.kind = p.legacy.kind /\ w.legacy.scope = p.legacy.scope
       /\ w.legacy.pid = p.legacy.pid /\ w.legacy.id = id
  BY <1>10, <1>11, LookupIs DEF Packets
<1>13. HasLegacy(p) => w.legacy.id = legacy_ids'[LegacyKey(p)]
  BY <1>12
<1> HIDE DEF id
<1>14. \A n \in DOMAIN read' : Mirror(n)'
  BY <1>1, <1>4, <1>5, <1>6, <1>7, <1>11, <1>12, <1>13, MirrorFollows
<1>15. Longer(read, read', source, p) /\ MergeType'
  BY <1>7, <1>12, WriteAppends
<1>16. Hierarchy(read') /\ ScopesNoted(read', track_scopes')
  BY <1>1, <1>2, <1>3, <1>15, HierarchyStays, ScopesNotedStay
<1>17. DefaultsNoted(read', default_tracks')
  BY <1>1, <1>2, <1>3, <1>15, DefaultsNotedStay
<1> QED BY <1>4, <1>5, <1>6, <1>14, <1>15, <1>16, <1>17 DEF MergeInv

LEMMA MergeStarts == MergeInit => MergeInv
<1> SUFFICES ASSUME MergeInit PROVE MergeInv
  OBVIOUS
<1>1. \A t : t = <<>> => Table(t)
  BY FS_EmptySet DEF Table
<1>2. MergeType
  BY DEF MergeInit, MergeType
<1>3. Hierarchy(read) /\ ScopesNoted(read, track_scopes) /\ DefaultsNoted(read, default_tracks)
  BY DEF MergeInit, Hierarchy, ScopesNoted, DefaultsNoted
<1>4. \A n \in DOMAIN read : Mirror(n)
  BY DEF MergeInit
<1> QED BY <1>1, <1>2, <1>3, <1>4 DEF MergeInit, MergeInv

LEMMA MergePreserves == MergeInv /\ [Next]_vars => MergeInv'
<1> SUFFICES ASSUME MergeInv, [Next]_vars PROVE MergeInv'
  OBVIOUS
<1>1. CASE MergePacket
  BY <1>1, MergeDescriptorPreserves, MergeDefaultsPreserves, MergeEventPreserves DEF MergePacket
<1>2. CASE NextSource
  <2>1. MergeType'
    BY <1>2 DEF NextSource, MergeInv, MergeType
  <2>2. \A n \in DOMAIN read : Mirror(n)'
    BY <1>2 DEF NextSource, MergeInv, Mirror, ids
  <2> QED BY <1>2, <2>1, <2>2 DEF NextSource, MergeInv, ids
<1>3. CASE MergeEnd
  <2>1. MergeInit'
    BY <1>3 DEF MergeEnd, MergeInit
  <2> QED BY <2>1, MergeStarts, PTL
<1>4. CASE UNCHANGED mergeVars
  <2>1. MergeType'
    BY <1>4 DEF mergeVars, MergeInv, MergeType
  <2>2. \A n \in DOMAIN read : Mirror(n)'
    BY <1>4 DEF mergeVars, MergeInv, Mirror, ids
  <2> QED BY <1>4, <2>1, <2>2 DEF mergeVars, MergeInv, ids
<1> QED BY <1>1, <1>2, <1>3, <1>4 DEF Next, Stream, vars

LEMMA MergeInvariant == Spec => []MergeInv
<1>1. Init => MergeInv
  BY MergeStarts DEF Init
<1> QED BY <1>1, MergePreserves, PTL DEF Spec

(* However many sources are merged, and whatever identifiers they share: an *)
(* event is on the track, and of the process, that it has in its source,    *)
(* and shares a track with the events of its source that were on it.        *)
THEOREM TracksAreKept == Spec => []TracksKept
<1> QED BY MergeInvariant, MergeKeepsTracks, PTL

(* Flows and legacy operations of two packets are one in the merged trace   *)
(* exactly if they are one in one source.                                   *)
THEOREM ConnectionsAreKept == Spec => []ConnectionsKept
<1> QED BY MergeInvariant, MergeKeepsConnections, PTL
=============================================================================
