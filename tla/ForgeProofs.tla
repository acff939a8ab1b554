----------------------------- MODULE ForgeProofs -----------------------------
(***************************************************************************)
(* Proofs about forge runs, for any number of processes, models and faults.*)
(* The run lock first, and that a run keeps to it; then the index of runs; *)
(* the types; and last what every recorded step has left behind, from an   *)
(* invariant that says of each point of the pipeline what a process there  *)
(* has done (LoopInv), what it holds (MemoryInv) and what is on disk       *)
(* (RecordInv, LeftoverInv).                                               *)
(***************************************************************************)
EXTENDS ForgeRun, TLAPS

(* The inductive invariant: without a race the lock names whoever works on  *)
(* the run; in any case a live owner works on it.                           *)
LockInv ==
  /\ stage \in [Procs -> {"out", "checked", "in"}]
  /\ raced \in BOOLEAN
  /\ ~raced => \A p \in Procs : stage[p] = "in" => lock = p
  /\ LockNamesWorker

LEMMA LockInitInv == LockInit => LockInv
BY LockAssumption DEF LockInit, LockInv, LockNamesWorker

LEMMA LockStepInv ==
  ASSUME LockInv, [LockNext]_lockVars
  PROVE  LockInv'
<1> USE LockAssumption DEF LockInv, LockNamesWorker
<1>1. CASE \E p \in Procs : PassCheck(p)
  BY <1>1 DEF PassCheck
<1>2. CASE \E p \in Procs : WriteLock(p)
  BY <1>2 DEF WriteLock
<1>3. CASE \E p \in Procs : ReleaseLock(p)
  BY <1>3 DEF ReleaseLock
<1>4. CASE \E p \in Procs : Die(p)
  BY <1>4 DEF Die
<1>5. CASE UNCHANGED lockVars
  BY <1>5 DEF lockVars
<1> QED BY <1>1, <1>2, <1>3, <1>4, <1>5 DEF LockNext

LEMMA LockInvHolds == LockSpec => []LockInv
<1>1. LockInit => LockInv
  BY LockInitInv
<1>2. LockInv /\ [LockNext]_lockVars => LockInv'
  BY LockStepInv
<1> QED BY <1>1, <1>2, PTL DEF LockSpec

(* At most one process works on a run whose lock was never overwritten      *)
(* under a live owner, however many processes start, fail and are killed.   *)
THEOREM OneExecutor == LockSpec => []OneExecutorUnlessRaced
<1>1. LockInv => OneExecutorUnlessRaced
  BY DEF LockInv, OneExecutorUnlessRaced
<1> QED BY <1>1, LockInvHolds, PTL

(* A lock that names a live process is the lock of a process at work, even  *)
(* after a race: no run stays locked for ever while its file's owner lives. *)
THEOREM LockIsNeverOrphaned == LockSpec => []LockNamesWorker
<1>1. LockInv => LockNamesWorker
  BY DEF LockInv
<1> QED BY <1>1, LockInvHolds, PTL

(* Every step of a forge process is a step of the lock protocol or leaves   *)
(* the lock alone.                                                          *)
LEMMA ForgeStepIsLockStep ==
  ASSUME [ForgeNext]_forgeVars
  PROVE  [LockNext]_lockVars
<1>1. CASE \E p \in Procs : CheckLock(p)
  BY <1>1 DEF CheckLock, LockNext
<1>2. CASE \E p \in Procs : TakeLock(p)
  BY <1>2 DEF TakeLock, LockNext
<1>3. CASE \E p \in Procs : Crash(p)
  BY <1>3 DEF Crash, LockNext
<1>4. CASE \E p \in Procs : Create(p) \/ CreatorRefused(p) \/ RejectTrial(p)
                            \/ Fail(p) \/ Interrupt(p)
  BY <1>4 DEF Create, CreatorRefused, RejectTrial, Fail, Interrupt
<1>5. CASE \/ \E c \in Candidates : OrphanExits(c)
           \/ \E w \in Writers : OtherRunIndexed(w) \/ OtherRunEnded(w)
  BY <1>5 DEF OrphanExits, OtherRunIndexed, OtherRunEnded
<1>6. CASE \E p \in Procs : Work(p)
  <2>1. PICK p \in Procs : Work(p)
    BY <1>6
  <2>2. CASE Exit(p)
    BY <2>2 DEF Exit, LockNext
  <2>3. CASE LoadStatus(p) \/ EnterStep(p) \/ FinishLoop(p) \/ Complete(p)
             \/ StartCopy(p) \/ EndCopy(p)
    BY <2>3 DEF LoadStatus, EnterStep, FinishLoop, Complete, StartCopy, EndCopy
  <2>4. CASE \E c \in Candidates : GenerateCandidate(p, c) \/ StartWorker(p, c)
                                   \/ Evaluate(p, c) \/ Certify(p, c)
    BY <2>4 DEF GenerateCandidate, StartWorker, Evaluate, Certify
  <2>5. CASE \E m \in Measures : Measured(p, m)
    BY <2>5 DEF Measured
  <2>6. CASE \E row \in mem[p].frontier : Package(p, row)
    BY <2>6 DEF Package
  <2>7. CASE \/ SelectFrontier(p) \/ WriteInventory(p) \/ WriteDigest(p)
             \/ Sign(p) \/ FinishBundle(p) \/ IndexRun(p) \/ FinishIndexing(p)
    BY <2>7 DEF SelectFrontier, WriteInventory, WriteDigest, Sign,
                FinishBundle, IndexRun, FinishIndexing
  <2> QED BY <2>1, <2>2, <2>3, <2>4, <2>5, <2>6, <2>7 DEF Work
<1>7. CASE UNCHANGED forgeVars
  BY <1>7 DEF forgeVars
<1> QED BY <1>1, <1>2, <1>3, <1>4, <1>5, <1>6, <1>7 DEF ForgeNext

(* A forge run implements the lock protocol. *)
THEOREM ForgeImplementsLock == ForgeSpec => ForgeKeepsLockProtocol
<1>1. ForgeInit => LockInit
  BY DEF ForgeInit
<1>2. [ForgeNext]_forgeVars => [LockNext]_lockVars
  BY ForgeStepIsLockStep
<1> QED BY <1>1, <1>2, PTL DEF ForgeSpec, ForgeKeepsLockProtocol, LockSpec

(* So at most one process works on a forge run unless the lock raced. *)
THEOREM ForgeHasOneExecutor == ForgeSpec => []OneExecutorUnlessRaced
BY ForgeImplementsLock, OneExecutor DEF ForgeKeepsLockProtocol
------------------------------------------------------------------------------
(***************************************************************************)
(* The index of runs.                                                      *)
(***************************************************************************)
(* Without overlap at most one process is inside index_run; the temporary   *)
(* file is its own, and what it is going to publish lists all that is       *)
(* listed now.                                                             *)
WriterInv(w) ==
  /\ indexing[w] = "opened" => indexTmp = Torn
  /\ handle[w] = IF indexing[w] = "opened" THEN "tmp" ELSE "none"
  /\ indexing[w] # "idle"   => Listed \subseteq listing[w]
  /\ indexing[w] = "written" => indexTmp = listing[w]

IndexInv ==
  ~overlapped =>
    /\ \A v, w \in Writers : indexing[v] # "idle" /\ indexing[w] # "idle" => v = w
    /\ \A w \in Writers : WriterInv(w)

LEMMA IndexInitInv == IndexInit => IndexTypeOK /\ IndexInv
BY DEF IndexInit, IndexTypeOK, IndexInv, WriterInv, Contents

(* Every step of the protocol keeps the types. *)
LEMMA IndexStepType ==
  ASSUME IndexTypeOK, [IndexNext]_indexVars
  PROVE  IndexTypeOK'
<1> USE DEF IndexTypeOK, Contents
<1>1. Listed \in SUBSET Runs
  <2>1. CASE index \in {Absent, Torn}
    BY <2>1 DEF Listed
  <2>2. CASE index \notin {Absent, Torn}
    BY <2>2 DEF Listed
  <2> QED BY <2>1, <2>2
<1>2. ASSUME NEW w \in Writers, ReadIndex(w) PROVE IndexTypeOK'
  BY <1>1, <1>2 DEF ReadIndex, Runs
<1>3. ASSUME NEW w \in Writers, OpenTmp(w) PROVE IndexTypeOK'
  BY <1>3 DEF OpenTmp
<1>4. ASSUME NEW w \in Writers, WriteOut(w) PROVE IndexTypeOK'
  <2>1. listing[w] \in SUBSET Runs
    OBVIOUS
  <2>2. CASE handle[w] = "tmp"
    BY <1>4, <2>1, <2>2 DEF WriteOut
  <2>3. CASE handle[w] = "index"
    BY <1>4, <2>1, <2>3 DEF WriteOut
  <2>4. CASE handle[w] \notin {"tmp", "index"}
    BY <1>4, <2>4 DEF WriteOut
  <2> QED BY <2>2, <2>3, <2>4
<1>5. ASSUME NEW w \in Writers, ReplaceIndex(w) PROVE IndexTypeOK'
  <2>1. \A h \in {"none", "tmp", "index", "gone"} :
          Renamed(h) \in {"none", "tmp", "index", "gone"}
    BY DEF Renamed
  <2> QED BY <1>5, <2>1 DEF ReplaceIndex
<1>6. ASSUME NEW w \in Writers, LeaveIndex(w) PROVE IndexTypeOK'
  BY <1>6 DEF LeaveIndex
<1>7. CASE UNCHANGED indexVars
  BY <1>7 DEF indexVars
<1> QED BY <1>2, <1>3, <1>4, <1>5, <1>6, <1>7 DEF IndexNext

LEMMA IndexStepInv ==
  ASSUME IndexTypeOK, IndexInv, [IndexNext]_indexVars
  PROVE  IndexInv'
<1> USE IndexAssumption DEF IndexTypeOK, IndexInv, WriterInv, Contents
<1>1. ASSUME NEW w \in Writers, ReadIndex(w) PROVE IndexInv'
  BY <1>1 DEF ReadIndex, Listed
<1>2. ASSUME NEW w \in Writers, OpenTmp(w) PROVE IndexInv'
  BY <1>2 DEF OpenTmp, Listed
<1>3. ASSUME NEW w \in Writers, WriteOut(w) PROVE IndexInv'
  BY <1>3 DEF WriteOut, Listed
<1>4. ASSUME NEW w \in Writers, ReplaceIndex(w) PROVE IndexInv'
  BY <1>4 DEF ReplaceIndex, Renamed, Listed
<1>5. ASSUME NEW w \in Writers, LeaveIndex(w) PROVE IndexInv'
  BY <1>5 DEF LeaveIndex, Listed
<1>6. CASE UNCHANGED indexVars
  BY <1>6 DEF indexVars, Listed
<1> QED BY <1>1, <1>2, <1>3, <1>4, <1>5, <1>6 DEF IndexNext

(* Under the invariant a step that changes the index publishes the list of  *)
(* the only writer.                                                         *)
LEMMA IndexStepGrows ==
  ASSUME IndexTypeOK, IndexInv, [IndexNext]_indexVars, ~overlapped',
         index' # index
  PROVE  index' \notin {Absent, Torn} /\ Listed \subseteq index'
<1> USE IndexAssumption DEF IndexTypeOK, IndexInv, WriterInv
<1>1. CASE \E w \in Writers : ReplaceIndex(w)
  BY <1>1 DEF ReplaceIndex
<1>2. CASE \E w \in Writers : WriteOut(w)
  BY <1>2 DEF WriteOut
<1>3. CASE \E w \in Writers : ReadIndex(w) \/ OpenTmp(w) \/ LeaveIndex(w)
  BY <1>3 DEF ReadIndex, OpenTmp, LeaveIndex
<1> QED BY <1>1, <1>2, <1>3 DEF IndexNext, indexVars

(* Every step of a forge run is a step of index_run or leaves it alone. *)
LEMMA ForgeStepIsIndexStep ==
  ASSUME [ForgeNext]_forgeVars
  PROVE  [IndexNext]_indexVars
<1> USE ForgeAssumption DEF outsideVars
<1>1. CASE \E p \in Procs : Fail(p) \/ Crash(p)
  BY <1>1 DEF Fail, Crash, IndexNext
<1>2. CASE \E w \in Writers : OtherRunIndexed(w) \/ OtherRunEnded(w)
  BY <1>2 DEF OtherRunIndexed, OtherRunEnded, IndexNext
<1>3. CASE \E p \in Procs : Create(p) \/ CheckLock(p) \/ CreatorRefused(p)
                            \/ TakeLock(p) \/ RejectTrial(p) \/ Interrupt(p)
  BY <1>3 DEF Create, CheckLock, CreatorRefused, TakeLock, RejectTrial, Interrupt
<1>4. CASE \E c \in Candidates : OrphanExits(c)
  BY <1>4 DEF OrphanExits
<1>5. CASE \E p \in Procs : Work(p)
  <2>1. PICK p \in Procs : Work(p)
    BY <1>5
  <2>2. CASE IndexRun(p) \/ FinishIndexing(p)
    BY <2>2 DEF IndexRun, FinishIndexing, IndexNext
  <2>3. CASE LoadStatus(p) \/ EnterStep(p) \/ FinishLoop(p) \/ Complete(p)
             \/ StartCopy(p) \/ EndCopy(p) \/ Exit(p)
    BY <2>3 DEF LoadStatus, EnterStep, FinishLoop, Complete, StartCopy, EndCopy, Exit
  <2>4. CASE \E c \in Candidates : GenerateCandidate(p, c) \/ StartWorker(p, c)
                                   \/ Evaluate(p, c) \/ Certify(p, c)
    BY <2>4 DEF GenerateCandidate, StartWorker, Evaluate, Certify
  <2>5. CASE \E m \in Measures : Measured(p, m)
    BY <2>5 DEF Measured
  <2>6. CASE \E row \in mem[p].frontier : Package(p, row)
    BY <2>6 DEF Package
  <2>7. CASE \/ SelectFrontier(p) \/ WriteInventory(p) \/ WriteDigest(p)
             \/ Sign(p) \/ FinishBundle(p)
    BY <2>7 DEF SelectFrontier, WriteInventory, WriteDigest, Sign, FinishBundle
  <2> QED BY <2>1, <2>2, <2>3, <2>4, <2>5, <2>6, <2>7 DEF Work
<1>6. CASE UNCHANGED forgeVars
  BY <1>6 DEF forgeVars
<1> QED BY <1>1, <1>2, <1>3, <1>4, <1>5, <1>6 DEF ForgeNext

(* A forge run, with the other runs that finish meanwhile, keeps to the     *)
(* protocol of the index.                                                   *)
THEOREM ForgeImplementsIndex == ForgeSpec => IndexSpec
<1>1. ForgeInit => IndexInit
  BY DEF ForgeInit
<1>2. [ForgeNext]_forgeVars => [IndexNext]_indexVars
  BY ForgeStepIsIndexStep
<1> QED BY <1>1, <1>2, PTL DEF ForgeSpec, IndexSpec

LEMMA IndexInvariance == IndexSpec => [](IndexTypeOK /\ IndexInv)
<1>1. IndexInit => IndexTypeOK /\ IndexInv
  BY IndexInitInv
<1>2. (IndexTypeOK /\ IndexInv) /\ [IndexNext]_indexVars
        => (IndexTypeOK /\ IndexInv)'
  BY IndexStepType, IndexStepInv
<1> QED BY <1>1, <1>2, PTL DEF IndexSpec

(* As long as no two processes were in index_run together, a finished run   *)
(* never loses its entry, wherever the others are killed.                   *)
THEOREM IndexAlwaysGrows == ForgeSpec => IndexOnlyGrows
<1>1. (IndexTypeOK /\ IndexInv) /\ [IndexNext]_indexVars
        => [~overlapped' => /\ index' \notin {Absent, Torn}
                            /\ Listed \subseteq index']_index
  BY IndexStepGrows
<1> QED BY <1>1, ForgeImplementsIndex, IndexInvariance, PTL
        DEF IndexSpec, IndexOnlyGrows
------------------------------------------------------------------------------
(***************************************************************************)
(* Types of a forge run.                                                   *)
(***************************************************************************)
(* A file of the inventory. *)
EntryType == [candidate : Candidates, packaged : PackagedType]

MemType ==
  [skip : 0..11, view : 0..11, todo : SUBSET Candidates,
   cand : Candidates \cup {None}, rows : SUBSET Row,
   frontier : SUBSET Row, files : SUBSET EntryType]

(* What holds of the point a process has reached, whoever else is at work.  *)
PointInv(p) ==
  /\ pc[p] = "copying"   => mem[p].view = 2
  /\ pc[p] = "working"   => mem[p].view < 11
  /\ pc[p] = "measuring" => mem[p].view = 6 /\ mem[p].cand \in Candidates
  /\ pc[p] \in {"sealing", "signing", "sealed"} => mem[p].view = 10

(* The files of the run, and its processes. *)
FileTypes ==
  /\ run \in {"none", "created", "completed"}
  /\ creator \in Procs \cup {None} /\ overtaken \in BOOLEAN
  /\ marked \in 0..11
  /\ baseline \in {"missing", "partial", "complete"}
  /\ manifests \subseteq Candidates
  /\ cstatus \in [Candidates -> {"none", "generated", "measured", "failed"}]
  /\ trial \in [Candidates -> Measures \cup {0}]
  /\ eval \in [Candidates -> Measures \cup {0}]
  /\ cert \in [Candidates -> [measure : Measures \cup {0}, certified : BOOLEAN]]

BundleTypes ==
  /\ frontierFile \subseteq Row
  /\ DOMAIN bundle \subseteq Candidates
  /\ \A c \in DOMAIN bundle : bundle[c] \in PackagedType
  /\ inventory \subseteq EntryType
  /\ sealed \in BOOLEAN
  /\ signature \in {"none", "current", "stale"}

ProcTypes ==
  /\ orphans \subseteq Candidates
  /\ pc \in [Procs -> {"idle", "loading", "entering", "copying", "working",
                       "measuring", "sealing", "signing", "sealed", "indexing",
                       "closing"}]
  /\ mem \in [Procs -> MemType]
  /\ \A p \in Procs : PointInv(p)
  /\ \A p \in Procs : stage[p] = "in" <=> pc[p] # "idle"
  /\ faults \in 0..MaxFaults

ForgeTypeInv ==
  /\ LockTypeOK /\ IndexTypeOK
  /\ FileTypes /\ BundleTypes /\ ProcTypes
------------------------------------------------------------------------------
(* The eleven steps by number. *)
LEMMA StepNumbers ==
  /\ Len(Steps) = 11 /\ DOMAIN Steps = 1..11
  /\ Steps[1] = "environment" /\ Steps[2] = "datasets" /\ Steps[3] = "model"
  /\ Steps[4] = "dataset_stream" /\ Steps[5] = "quantization"
  /\ Steps[6] = "candidates" /\ Steps[7] = "benchmarking"
  /\ Steps[8] = "evaluating_quality" /\ Steps[9] = "certifying"
  /\ Steps[10] = "selecting_frontier" /\ Steps[11] = "building_bundle"
BY DEF Steps

LEMMA PosOfStep ==
  ASSUME NEW i \in 1..11
  PROVE  Pos(Steps[i]) = i
<1>1. \A j \in 1..11 : Steps[j] = Steps[i] => j = i
  BY StepNumbers
<1>2. Pos(Steps[i]) \in 1..11 /\ Steps[Pos(Steps[i])] = Steps[i]
  BY StepNumbers DEF Pos
<1> QED BY <1>1, <1>2

LEMMA Positions ==
  /\ Pos("quantization") = 5 /\ Pos("candidates") = 6
  /\ Pos("benchmarking") = 7 /\ Pos("evaluating_quality") = 8
  /\ Pos("certifying") = 9 /\ Pos("selecting_frontier") = 10
  /\ Pos("building_bundle") = 11
<1>1. /\ Pos(Steps[5]) = 5 /\ Pos(Steps[6]) = 6 /\ Pos(Steps[7]) = 7
      /\ Pos(Steps[8]) = 8 /\ Pos(Steps[9]) = 9 /\ Pos(Steps[10]) = 10
      /\ Pos(Steps[11]) = 11
  BY PosOfStep
<1> QED BY <1>1, StepNumbers

(* The number of steps done when a process is at one of those with state. *)
LEMMA ViewAtStep ==
  ASSUME NEW p, mem[p].view \in 0..11
  PROVE  /\ AtStep(p, "model") => mem[p].view = 2
         /\ AtStep(p, "candidates") => mem[p].view = 5
         /\ AtStep(p, "benchmarking") => mem[p].view = 6
         /\ AtStep(p, "evaluating_quality") => mem[p].view = 7
         /\ AtStep(p, "certifying") => mem[p].view = 8
         /\ AtStep(p, "selecting_frontier") => mem[p].view = 9
         /\ AtStep(p, "building_bundle") => mem[p].view = 10
<1>1. mem[p].view < Len(Steps) => mem[p].view + 1 \in 1..11
  BY StepNumbers
<1> QED BY <1>1, StepNumbers DEF AtStep

LEMMA OutputsReadyView ==
  ASSUME NEW p, mem[p].view \in 0..11, OutputsReady(p)
  PROVE  pc[p] = "working" /\ mem[p].view \in 0..8
<1>1. PICK i \in 1..9 : AtStep(p, Steps[i])
  BY DEF OutputsReady
<1>2. mem[p].view < Len(Steps) => mem[p].view + 1 \in 1..11
  BY StepNumbers
<1> QED BY <1>1, <1>2, StepNumbers DEF AtStep

LEMMA TypesImplyOK == ForgeTypeInv => ForgeTypeOK
<1> USE StepNumbers
    DEF ForgeTypeInv, FileTypes, BundleTypes, ProcTypes, ForgeTypeOK, EntryType
<1>1. ASSUME ForgeTypeInv
      PROVE  \A p \in Procs : mem[p].view \in 0..11 /\ mem[p].rows \subseteq Row
  BY <1>1 DEF MemType
<1> QED BY <1>1

LEMMA ForgeInitTypes == ForgeInit => ForgeTypeInv
<1> SUFFICES ASSUME ForgeInit PROVE ForgeTypeInv
  OBVIOUS
<1>1. LockTypeOK /\ IndexTypeOK
  BY IndexInitInv DEF ForgeInit, LockInit, LockTypeOK
<1>2. FileTypes
  <2>1. NoRow \in [measure : Measures \cup {0}, certified : BOOLEAN]
    BY DEF NoRow
  <2>2. cert \in [Candidates -> [measure : Measures \cup {0}, certified : BOOLEAN]]
    BY <2>1 DEF ForgeInit
  <2>3. cstatus \in [Candidates -> {"none", "generated", "measured", "failed"}]
    BY DEF ForgeInit
  <2>4. trial \in [Candidates -> Measures \cup {0}] /\ eval \in [Candidates -> Measures \cup {0}]
    BY DEF ForgeInit
  <2>5. marked \in 0..11 /\ creator \in Procs \cup {None}
    BY DEF ForgeInit
  <2> QED BY <2>2, <2>3, <2>4, <2>5 DEF ForgeInit, FileTypes
<1>3. BundleTypes
  <2>1. bundle = [c \in {} |-> NoRow] /\ inventory = {} /\ frontierFile = {}
        /\ sealed = FALSE /\ signature = "none"
    BY DEF ForgeInit
  <2>2. DOMAIN bundle = {}
    BY <2>1
  <2> QED BY <2>1, <2>2 DEF BundleTypes
<1>4. NoMem \in MemType
  BY DEF NoMem, MemType
<1>5. ProcTypes
  BY <1>4, ForgeAssumption DEF ForgeInit, LockInit, ProcTypes, PointInv
<1> QED BY <1>1, <1>2, <1>3, <1>5 DEF ForgeTypeInv

(* What is selected of rows are rows. *)
LEMMA RowTypes ==
  ASSUME FileTypes
  PROVE  /\ RowsOnDisk \subseteq Row
         /\ \A rows \in SUBSET Row : Pareto(rows) \subseteq rows
         /\ \A c \in Candidates :
              Verdict(c) \in [measure : Measures \cup {0}, certified : BOOLEAN]
<1>1. RowsOnDisk \subseteq Row
  <2>1. ASSUME NEW c \in Candidates
        PROVE  [candidate |-> c, measure |-> cert[c].measure,
                certified |-> cert[c].certified] \in Row
    <3>1. cert[c] \in [measure : Measures \cup {0}, certified : BOOLEAN]
      BY DEF FileTypes
    <3>2. Measures \cup {0} \subseteq Nat
      BY ForgeAssumption
    <3>3. cert[c].measure \in Nat /\ cert[c].certified \in BOOLEAN
      BY <3>1, <3>2
    <3> QED BY <3>3 DEF Row
  <2> QED BY <2>1 DEF RowsOnDisk
<1>2. \A rows \in SUBSET Row : Pareto(rows) \subseteq rows
  BY DEF Pareto
<1>3. ASSUME NEW c \in Candidates
      PROVE  Verdict(c) \in [measure : Measures \cup {0}, certified : BOOLEAN]
  BY DEF FileTypes, Verdict
<1> QED BY <1>1, <1>2, <1>3

LEMMA LockTypeStep ==
  ASSUME LockTypeOK, [LockNext]_lockVars
  PROVE  LockTypeOK'
BY DEF LockTypeOK, LockNext, lockVars, PassCheck, WriteLock, ReleaseLock, Die

LEMMA FileTypesStep ==
  ASSUME ForgeTypeInv, [ForgeNext]_forgeVars
  PROVE  FileTypes'
<1> USE DEF ForgeTypeInv, FileTypes
<1>1. CASE UNCHANGED <<startVars, marked, modelVars, evidenceVars>>
  BY <1>1 DEF startVars, modelVars, evidenceVars
<1> USE DEF startVars, modelVars, evidenceVars
<1>2. ASSUME NEW p \in Procs,
             Create(p) \/ CheckLock(p) \/ CreatorRefused(p) \/ TakeLock(p)
             \/ Crash(p)
      PROVE  FileTypes'
  BY <1>2 DEF Create, CheckLock, CreatorRefused, TakeLock, Crash, LeaveWorker,
              SaveTrial, fileVars
<1>3. ASSUME NEW p \in Procs, Fail(p) \/ Interrupt(p) PROVE FileTypes'
  BY <1>3 DEF Fail, Interrupt, LeaveWorker, SaveTrial, fileVars
<1>4. ASSUME NEW p \in Procs, RejectTrial(p) PROVE FileTypes'
  BY <1>4 DEF RejectTrial, SaveTrial
<1>5. ASSUME NEW p \in Procs, Work(p) PROVE FileTypes'
  <2>1. mem[p].view \in 0..11 /\ PointInv(p)
    BY DEF ProcTypes, MemType
  <2>2. CASE LoadStatus(p) \/ EnterStep(p) \/ Exit(p) \/ IndexRun(p)
             \/ FinishIndexing(p) \/ \E c \in Candidates : StartWorker(p, c)
    BY <2>2 DEF LoadStatus, EnterStep, Exit, IndexRun, FinishIndexing,
                StartWorker, fileVars
  <2>3. CASE FinishLoop(p)
    BY <2>1, <2>3, OutputsReadyView DEF FinishLoop, MarkStep
  <2>4. CASE SelectFrontier(p)
    BY <2>1, <2>4, ViewAtStep DEF SelectFrontier
  <2>5. CASE FinishBundle(p)
    BY <2>1, <2>5 DEF FinishBundle, MarkStep, PointInv
  <2>6. CASE Complete(p) \/ StartCopy(p) \/ EndCopy(p)
    BY <2>6 DEF Complete, StartCopy, EndCopy
  <2>7. ASSUME NEW c \in Candidates, GenerateCandidate(p, c) \/ Evaluate(p, c)
        PROVE  FileTypes'
    BY <2>7 DEF GenerateCandidate, Evaluate
  <2>8. ASSUME NEW c \in Candidates, Certify(p, c) PROVE FileTypes'
    BY <2>8, RowTypes DEF Certify
  <2>9. ASSUME NEW m \in Measures, Measured(p, m) PROVE FileTypes'
    BY <2>9 DEF Measured, SaveTrial
  <2>10. CASE \/ \E row \in mem[p].frontier : Package(p, row)
              \/ WriteInventory(p) \/ WriteDigest(p) \/ Sign(p)
    BY <2>10 DEF Package, WriteInventory, WriteDigest, Sign
  <2> QED BY <1>5, <2>2, <2>3, <2>4, <2>5, <2>6, <2>7, <2>8, <2>9, <2>10 DEF Work
<1>6. CASE \/ \E c \in Candidates : OrphanExits(c)
           \/ \E w \in Writers : OtherRunIndexed(w) \/ OtherRunEnded(w)
           \/ UNCHANGED forgeVars
  BY <1>6 DEF OrphanExits, OtherRunIndexed, OtherRunEnded, forgeVars, fileVars
<1> QED BY <1>1, <1>2, <1>3, <1>4, <1>5, <1>6 DEF ForgeNext

LEMMA BundleTypesStep ==
  ASSUME ForgeTypeInv, [ForgeNext]_forgeVars
  PROVE  BundleTypes'
<1> USE DEF ForgeTypeInv, BundleTypes, bundleVars
<1>1. ASSUME NEW p \in Procs, Work(p) PROVE BundleTypes'
  <2>1. mem[p] \in MemType
    BY DEF ProcTypes
  <2>2. mem[p].rows \subseteq Row /\ mem[p].frontier \subseteq Row
        /\ mem[p].files \subseteq EntryType
    BY <2>1 DEF MemType
  <2>3. CASE SelectFrontier(p)
    BY <2>2, <2>3, RowTypes DEF SelectFrontier
  <2>4. ASSUME NEW row \in mem[p].frontier, Package(p, row) PROVE BundleTypes'
    <3>1. row.candidate \in Candidates /\ row.measure \in Nat
      BY <2>2 DEF Row
    <3>2. cert[row.candidate] \in [measure : Nat, certified : BOOLEAN]
      <4>1. cert[row.candidate] \in [measure : Measures \cup {0}, certified : BOOLEAN]
        BY <3>1 DEF FileTypes
      <4>2. Measures \cup {0} \subseteq Nat
        BY ForgeAssumption
      <4> QED BY <4>1, <4>2
    <3> DEFINE packaged == [published |-> row.measure, evidence |-> cert[row.candidate]]
    <3>3. packaged \in PackagedType
      BY <3>1, <3>2 DEF PackagedType
    <3> HIDE DEF packaged
    <3>4. bundle' = [c \in DOMAIN bundle \cup {row.candidate} |->
                       IF c = row.candidate THEN packaged ELSE bundle[c]]
      BY <2>4 DEF Package, packaged
    <3>5. UNCHANGED <<frontierFile, inventory, sealed, signature>>
      BY <2>4 DEF Package
    <3> QED BY <3>1, <3>3, <3>4, <3>5
  <2>5. CASE WriteInventory(p) \/ WriteDigest(p) \/ Sign(p)
    BY <2>2, <2>5 DEF WriteInventory, WriteDigest, Sign
  <2>6. CASE LoadStatus(p) \/ EnterStep(p) \/ FinishLoop(p) \/ Complete(p)
             \/ StartCopy(p) \/ EndCopy(p) \/ Exit(p) \/ FinishBundle(p)
             \/ IndexRun(p) \/ FinishIndexing(p)
    BY <2>6 DEF LoadStatus, EnterStep, FinishLoop, Complete, StartCopy, EndCopy,
                Exit, FinishBundle, IndexRun, FinishIndexing, fileVars
  <2>7. CASE \E c \in Candidates : GenerateCandidate(p, c) \/ StartWorker(p, c)
                                   \/ Evaluate(p, c) \/ Certify(p, c)
    BY <2>7 DEF GenerateCandidate, StartWorker, Evaluate, Certify, fileVars
  <2>8. CASE \E m \in Measures : Measured(p, m)
    BY <2>8 DEF Measured
  <2> QED BY <1>1, <2>3, <2>4, <2>5, <2>6, <2>7, <2>8 DEF Work
<1>2. ASSUME NEW p \in Procs,
             Create(p) \/ CheckLock(p) \/ CreatorRefused(p) \/ TakeLock(p)
             \/ RejectTrial(p) \/ Fail(p) \/ Interrupt(p) \/ Crash(p)
      PROVE  BundleTypes'
  BY <1>2 DEF Create, CheckLock, CreatorRefused, TakeLock, RejectTrial, Fail,
              Interrupt, Crash, fileVars
<1>3. CASE \/ \E c \in Candidates : OrphanExits(c)
           \/ \E w \in Writers : OtherRunIndexed(w) \/ OtherRunEnded(w)
           \/ UNCHANGED forgeVars
  BY <1>3 DEF OrphanExits, OtherRunIndexed, OtherRunEnded, forgeVars, fileVars
<1> QED BY <1>1, <1>2, <1>3 DEF ForgeNext

(* What a process reads into its memory, and what its loops run over. *)
LEMMA MemoryTypes ==
  ASSUME ForgeTypeInv, NEW p \in Procs
  PROVE  /\ mem[p] \in MemType
         /\ \A s : Worklist(p, s) \subseteq Candidates
<1>1. mem[p] \in MemType
  BY DEF ForgeTypeInv, ProcTypes
<1>2. Generated(p) \subseteq Candidates
  BY ForgeAssumption DEF Generated, Candidates
<1>3. {row.candidate : row \in mem[p].frontier} \subseteq Candidates
  BY <1>1 DEF MemType, Row
<1> QED BY <1>1, <1>2, <1>3 DEF Worklist, ForgeTypeInv, FileTypes

(* A process that moves on leaves the others where they are. *)
LEMMA ProcTypesFrom ==
  ASSUME ProcTypes, NEW p \in Procs,
         NEW m \in MemType, mem' = [mem EXCEPT ![p] = m],
         NEW label \in {"idle", "loading", "entering", "copying", "working",
                        "measuring", "sealing", "signing", "sealed", "indexing",
                        "closing"},
         pc' = [pc EXCEPT ![p] = label],
         stage \in [Procs -> {"out", "checked", "in"}],
         NEW place \in {"out", "checked", "in"},
         stage' = [stage EXCEPT ![p] = place],
         place = "in" <=> label # "idle",
         label = "copying"   => m.view = 2,
         label = "working"   => m.view < 11,
         label = "measuring" => m.view = 6 /\ m.cand \in Candidates,
         label \in {"sealing", "signing", "sealed"} => m.view = 10,
         orphans' \subseteq Candidates, faults' \in 0..MaxFaults
  PROVE  ProcTypes'
<1> USE DEF ProcTypes
<1>1. \A q \in Procs : q # p => mem'[q] = mem[q] /\ pc'[q] = pc[q] /\ stage'[q] = stage[q]
  OBVIOUS
<1>2. mem'[p] = m /\ pc'[p] = label /\ stage'[p] = place
  OBVIOUS
<1>3. \A q \in Procs : PointInv(q)'
  BY <1>1, <1>2 DEF PointInv
<1>4. mem' \in [Procs -> MemType]
  OBVIOUS
<1>5. pc' \in [Procs -> {"idle", "loading", "entering", "copying", "working",
                         "measuring", "sealing", "signing", "sealed", "indexing",
                         "closing"}]
  OBVIOUS
<1> QED BY <1>1, <1>2, <1>3, <1>4, <1>5

LEMMA ProcTypesStep ==
  ASSUME ForgeTypeInv, [ForgeNext]_forgeVars
  PROVE  ProcTypes'
<1> USE DEF ForgeTypeInv
<1> DEFINE Labels == {"idle", "loading", "entering", "copying", "working",
                      "measuring", "sealing", "signing", "sealed", "indexing",
                      "closing"}
<1>1. /\ mem \in [Procs -> MemType] /\ pc \in [Procs -> Labels]
      /\ stage \in [Procs -> {"out", "checked", "in"}]
      /\ orphans \subseteq Candidates /\ faults \in 0..MaxFaults
      /\ \A p \in Procs : PointInv(p) /\ (stage[p] = "in" <=> pc[p] # "idle")
  BY DEF ProcTypes, LockTypeOK
<1>2. CASE UNCHANGED <<orphans, pc, mem, stage, faults>>
  BY <1>2 DEF ProcTypes, PointInv
<1>3. CASE \/ \E p \in Procs : Create(p) \/ CreatorRefused(p)
           \/ \E w \in Writers : OtherRunIndexed(w)
           \/ UNCHANGED forgeVars
  BY <1>2, <1>3 DEF Create, CreatorRefused, OtherRunIndexed, lockVars,
                    outsideVars, procVars, forgeVars
<1>4. CASE \E p \in Procs : CheckLock(p)
  BY <1>1, <1>4 DEF CheckLock, PassCheck, outsideVars, procVars, ProcTypes, PointInv
<1>5. CASE \E c \in Candidates : OrphanExits(c)
  BY <1>1, <1>5 DEF OrphanExits, lockVars, procVars, ProcTypes, PointInv
<1>6. CASE \E w \in Writers : OtherRunEnded(w)
  BY <1>1, <1>6, ForgeAssumption DEF OtherRunEnded, lockVars, procVars, ProcTypes, PointInv
<1>7. ASSUME NEW p \in Procs, TakeLock(p) PROVE ProcTypes'
  <2>1. mem' = [mem EXCEPT ![p] = mem[p]]
    BY <1>1, <1>7 DEF TakeLock
  <2>2. PICK label \in {"entering", "loading"} : pc' = [pc EXCEPT ![p] = label]
    BY <1>7 DEF TakeLock, Goto
  <2>3. stage' = [stage EXCEPT ![p] = "in"]
    BY <1>7 DEF TakeLock, WriteLock
  <2> QED BY <1>1, <1>7, <2>1, <2>2, <2>3, ProcTypesFrom DEF TakeLock, outsideVars
<1>8. ASSUME NEW p \in Procs, Crash(p) PROVE ProcTypes'
  <2>1. NoMem \in MemType
    BY DEF NoMem, MemType
  <2>2. orphans' \subseteq Candidates
    BY <1>1, <1>8 DEF Crash, LeaveWorker, PointInv
  <2>3. faults' \in 0..MaxFaults
    BY <1>1, <1>8, ForgeAssumption DEF Crash
  <2>4. /\ mem' = [mem EXCEPT ![p] = NoMem] /\ pc' = [pc EXCEPT ![p] = "idle"]
        /\ stage' = [stage EXCEPT ![p] = "out"]
    BY <1>8 DEF Crash, Goto, Die
  <2> QED BY <1>1, <2>1, <2>2, <2>3, <2>4, ProcTypesFrom
<1>9. ASSUME NEW p \in Procs, RejectTrial(p) \/ Fail(p) \/ Interrupt(p)
      PROVE  ProcTypes'
  <2>1. faults' \in 0..MaxFaults
    BY <1>1, <1>9, ForgeAssumption DEF RejectTrial, Fail, Interrupt
  <2>2. orphans' \subseteq Candidates
    BY <1>1, <1>9 DEF RejectTrial, Fail, Interrupt, LeaveWorker, PointInv, outsideVars
  <2>3. /\ mem' = [mem EXCEPT ![p] = mem[p]] /\ pc' = [pc EXCEPT ![p] = "closing"]
    BY <1>1, <1>9 DEF RejectTrial, Fail, Interrupt, Goto
  <2>4. stage' = [stage EXCEPT ![p] = "in"]
    BY <1>1, <1>9 DEF RejectTrial, Fail, Interrupt, lockVars
  <2> QED BY <1>1, <2>1, <2>2, <2>3, <2>4, ProcTypesFrom
<1>10. ASSUME NEW p \in Procs, Work(p) PROVE ProcTypes'
  <2>1. /\ mem[p] \in MemType /\ mem[p].view \in 0..11
        /\ mem[p].rows \subseteq Row /\ mem[p].frontier \subseteq Row
        /\ mem[p].files \subseteq EntryType /\ mem[p].todo \subseteq Candidates
    BY <1>1 DEF MemType
  <2>2. CASE Exit(p)
    <3>1. NoMem \in MemType
      BY DEF NoMem, MemType
    <3>2. /\ mem' = [mem EXCEPT ![p] = NoMem] /\ pc' = [pc EXCEPT ![p] = "idle"]
          /\ stage' = [stage EXCEPT ![p] = "out"]
          /\ UNCHANGED <<orphans, faults>>
      BY <2>2 DEF Exit, Goto, ReleaseLock, outsideVars
    <3> QED BY <1>1, <3>1, <3>2, ProcTypesFrom
  <2> SUFFICES ASSUME ~Exit(p) PROVE ProcTypes'
    BY <2>2
  <2>3. UNCHANGED <<orphans, faults, stage>>
    BY <1>10 DEF Work, LoadStatus, EnterStep, FinishLoop, Complete, StartCopy,
         EndCopy, GenerateCandidate, StartWorker, Evaluate, Certify, Measured,
         SelectFrontier, Package, WriteInventory, WriteDigest, Sign,
         FinishBundle, IndexRun, FinishIndexing, outsideVars, lockVars
  <2>4. pc[p] # "idle" => stage' = [stage EXCEPT ![p] = "in"]
    BY <1>1, <2>3
  <2>5. ASSUME NEW m \in MemType, mem' = [mem EXCEPT ![p] = m],
               NEW label \in Labels \ {"idle"}, pc' = [pc EXCEPT ![p] = label],
               pc[p] # "idle",
               label = "copying"   => m.view = 2,
               label = "working"   => m.view < 11,
               label = "measuring" => m.view = 6 /\ m.cand \in Candidates,
               label \in {"sealing", "signing", "sealed"} => m.view = 10
        PROVE  ProcTypes'
    BY <1>1, <2>3, <2>4, <2>5, ProcTypesFrom
  <2>6. mem' = mem => mem' = [mem EXCEPT ![p] = mem[p]]
    BY <1>1
  <2>7. pc' = pc => pc' = [pc EXCEPT ![p] = pc[p]]
    BY <1>1
  <2>8. CASE LoadStatus(p)
    <3> DEFINE m == [NoMem EXCEPT !.skip = marked, !.view = marked,
                     !.rows = IF marked >= Pos("certifying")
                              THEN RowsOnDisk ELSE {},
                     !.frontier = IF marked >= Pos("selecting_frontier")
                                  THEN frontierFile ELSE {}]
    <3>1. m \in MemType
      BY RowTypes DEF NoMem, MemType, FileTypes, BundleTypes
    <3>2. mem' = [mem EXCEPT ![p] = m] /\ pc' = [pc EXCEPT ![p] = "entering"]
          /\ pc[p] # "idle"
      BY <2>8 DEF LoadStatus, Goto
    <3> HIDE DEF m
    <3> QED BY <2>5, <3>1, <3>2
  <2>9. CASE EnterStep(p)
    <3> DEFINE m == [mem[p] EXCEPT !.todo = Worklist(p, Steps[mem[p].view + 1])]
    <3>1. m \in MemType /\ m.view < 11
      BY <2>1, <2>9, MemoryTypes, StepNumbers DEF EnterStep, MemType
    <3>2. mem' = [mem EXCEPT ![p] = m] /\ pc' = [pc EXCEPT ![p] = "working"]
          /\ pc[p] # "idle"
      BY <1>1, <2>9 DEF EnterStep, Goto
    <3> HIDE DEF m
    <3> QED BY <2>5, <3>1, <3>2
  <2>10. CASE FinishLoop(p) \/ FinishBundle(p)
    <3> DEFINE m == [mem[p] EXCEPT !.view = mem[p].view + 1]
    <3>1. m \in MemType
      BY <1>1, <2>1, <2>10, OutputsReadyView
         DEF FinishLoop, FinishBundle, PointInv, MemType
    <3>2. mem' = [mem EXCEPT ![p] = m] /\ pc' = [pc EXCEPT ![p] = "entering"]
          /\ pc[p] # "idle"
      BY <1>1, <2>1, <2>10, OutputsReadyView
         DEF FinishLoop, FinishBundle, MarkStep, Goto
    <3> HIDE DEF m
    <3> QED BY <2>5, <3>1, <3>2
  <2>11. CASE Complete(p)
    BY <2>1, <2>5, <2>6, <2>11 DEF Complete, Goto
  <2>12. CASE StartCopy(p)
    <3>1. mem[p].view = 2 /\ pc[p] # "idle"
      BY <2>1, <2>12, ViewAtStep DEF StartCopy, AtStep
    <3> QED BY <2>1, <2>5, <2>6, <2>12, <3>1 DEF StartCopy, Goto
  <2>13. CASE EndCopy(p)
    <3>1. mem[p].view < 11 /\ pc[p] # "idle"
      BY <1>1, <2>13 DEF EndCopy, PointInv
    <3> QED BY <2>1, <2>5, <2>6, <2>13, <3>1 DEF EndCopy, Goto
  <2>14. ASSUME NEW c \in Candidates, GenerateCandidate(p, c) \/ Evaluate(p, c)
         PROVE  ProcTypes'
    <3> DEFINE m == [mem[p] EXCEPT !.todo = mem[p].todo \ {c}]
    <3>1. m \in MemType /\ m.view = mem[p].view
      BY <2>1 DEF MemType
    <3>2. mem' = [mem EXCEPT ![p] = m] /\ pc' = pc /\ pc[p] = "working"
      BY <1>1, <2>14 DEF GenerateCandidate, Evaluate, FinishItem, AtStep
    <3> HIDE DEF m
    <3>3. m.view < 11
      BY <1>1, <3>1, <3>2 DEF PointInv
    <3> QED BY <2>5, <2>7, <3>1, <3>2, <3>3
  <2>15. ASSUME NEW c \in Candidates, StartWorker(p, c) PROVE ProcTypes'
    <3> DEFINE m == [mem[p] EXCEPT !.cand = c]
    <3>1. m \in MemType /\ m.view = 6 /\ m.cand \in Candidates
      BY <2>1, <2>15, ViewAtStep DEF StartWorker, MemType
    <3>2. mem' = [mem EXCEPT ![p] = m] /\ pc' = [pc EXCEPT ![p] = "measuring"]
          /\ pc[p] = "working"
      BY <1>1, <2>15 DEF StartWorker, Goto, AtStep
    <3> HIDE DEF m
    <3> QED BY <2>5, <3>1, <3>2
  <2>16. ASSUME NEW m0 \in Measures, Measured(p, m0) PROVE ProcTypes'
    <3> DEFINE m == [mem[p] EXCEPT !.todo = mem[p].todo \ {mem[p].cand},
                                   !.cand = None]
    <3>1. m \in MemType /\ m.view < 11
      <4>1. m \in MemType /\ m.view = mem[p].view
        BY <2>1 DEF MemType
      <4>2. mem[p].view = 6
        BY <1>1, <2>16 DEF Measured, PointInv
      <4> HIDE DEF m
      <4> QED BY <4>1, <4>2
    <3>2. mem' = [mem EXCEPT ![p] = m] /\ pc' = [pc EXCEPT ![p] = "working"]
          /\ pc[p] = "measuring"
      BY <1>1, <2>16 DEF Measured, Goto
    <3> HIDE DEF m
    <3> QED BY <2>5, <3>1, <3>2
  <2>17. ASSUME NEW c \in Candidates, Certify(p, c) PROVE ProcTypes'
    <3> DEFINE row == [candidate |-> c, measure |-> Verdict(c).measure,
                       certified |-> Verdict(c).certified]
               m == [mem[p] EXCEPT !.todo = mem[p].todo \ {c},
                                   !.rows = mem[p].rows \cup {row}]
    <3>1. Verdict(c).measure \in Nat /\ Verdict(c).certified \in BOOLEAN
      <4>1. Verdict(c) \in [measure : Measures \cup {0}, certified : BOOLEAN]
        BY RowTypes
      <4>2. Measures \cup {0} \subseteq Nat
        BY ForgeAssumption
      <4> QED BY <4>1, <4>2
    <3>2. row \in Row
      BY <3>1 DEF Row
    <3>3. mem' = [mem EXCEPT ![p] = m] /\ pc' = pc /\ pc[p] = "working"
      BY <1>1, <2>17 DEF Certify, AtStep
    <3> HIDE DEF row
    <3>4. m \in MemType /\ m.view = mem[p].view
      BY <2>1, <3>2 DEF MemType
    <3> HIDE DEF m
    <3>5. m.view < 11
      BY <1>1, <3>3, <3>4 DEF PointInv
    <3> QED BY <2>5, <2>7, <3>3, <3>4, <3>5
  <2>18. CASE SelectFrontier(p)
    <3> DEFINE m == [mem[p] EXCEPT !.view = mem[p].view + 1,
                                   !.frontier = Pareto(mem[p].rows)]
    <3>1. Pareto(mem[p].rows) \subseteq Row /\ mem[p].view = 9
      BY <2>1, <2>18, RowTypes, ViewAtStep DEF SelectFrontier
    <3>2. m \in MemType
      <4> DEFINE rows == Pareto(mem[p].rows)
      <4>1. rows \in SUBSET Row
        BY <3>1
      <4> HIDE DEF rows
      <4> DEFINE view == mem[p].view + 1
      <4>2. view \in 0..11
        BY <3>1
      <4> HIDE DEF view
      <4>3. [mem[p] EXCEPT !.view = view, !.frontier = rows] \in MemType
        BY <2>1, <4>1, <4>2 DEF MemType
      <4> QED BY <4>3 DEF rows, view
    <3>3. mem' = [mem EXCEPT ![p] = m] /\ pc' = [pc EXCEPT ![p] = "entering"]
          /\ pc[p] = "working"
      BY <1>1, <2>18 DEF SelectFrontier, Goto, AtStep
    <3> HIDE DEF m
    <3> QED BY <2>5, <3>2, <3>3
  <2>19. ASSUME NEW row \in mem[p].frontier, Package(p, row) PROVE ProcTypes'
    <3> DEFINE entry == [candidate |-> row.candidate,
                         packaged |-> [published |-> row.measure,
                                       evidence |-> cert[row.candidate]]]
               m == [mem[p] EXCEPT !.todo = mem[p].todo \ {row.candidate},
                                   !.files = mem[p].files \cup {entry}]
    <3>1. row.candidate \in Candidates /\ row.measure \in Nat
      BY <2>1 DEF Row
    <3>2. cert[row.candidate] \in [measure : Nat, certified : BOOLEAN]
      <4>1. cert[row.candidate] \in [measure : Measures \cup {0}, certified : BOOLEAN]
        BY <3>1 DEF FileTypes
      <4>2. Measures \cup {0} \subseteq Nat
        BY ForgeAssumption
      <4> QED BY <4>1, <4>2
    <3>3. entry \in EntryType
      BY <3>1, <3>2 DEF EntryType, PackagedType
    <3>4. mem' = [mem EXCEPT ![p] = m] /\ pc' = pc /\ pc[p] = "working"
      BY <1>1, <2>19 DEF Package, AtStep
    <3> HIDE DEF entry
    <3>5. m \in MemType /\ m.view = mem[p].view
      BY <2>1, <3>3 DEF MemType
    <3> HIDE DEF m
    <3>6. m.view < 11
      BY <1>1, <3>4, <3>5 DEF PointInv
    <3> QED BY <2>5, <2>7, <3>4, <3>5, <3>6
  <2>20. CASE WriteInventory(p)
    <3>1. mem[p].view = 10 /\ pc[p] # "idle"
      BY <2>1, <2>20, ViewAtStep DEF WriteInventory, AtStep
    <3> QED BY <2>1, <2>5, <2>6, <2>20, <3>1 DEF WriteInventory, Goto
  <2>21. CASE WriteDigest(p) \/ Sign(p)
    <3>1. mem[p].view = 10 /\ pc[p] # "idle"
      BY <1>1, <2>21 DEF WriteDigest, Sign, PointInv
    <3>2. PICK label \in {"signing", "sealed"} : pc' = [pc EXCEPT ![p] = label]
      BY <2>21 DEF WriteDigest, Sign, Goto
    <3>3. mem' = mem
      BY <2>21 DEF WriteDigest, Sign
    <3> QED BY <2>1, <2>5, <2>6, <3>1, <3>2, <3>3
  <2>22. CASE IndexRun(p)
    BY <1>2, <2>3, <2>22 DEF IndexRun, procVars
  <2>23. CASE FinishIndexing(p)
    BY <2>1, <2>5, <2>6, <2>23 DEF FinishIndexing, Goto
  <2> QED BY <1>10, <2>8, <2>9, <2>10, <2>11, <2>12, <2>13, <2>14, <2>15, <2>16,
             <2>17, <2>18, <2>19, <2>20, <2>21, <2>22, <2>23 DEF Work
<1> QED BY <1>3, <1>4, <1>5, <1>6, <1>7, <1>8, <1>9, <1>10 DEF ForgeNext

LEMMA ForgeTypeInvariance == ForgeSpec => []ForgeTypeInv
<1>1. ForgeTypeInv /\ [ForgeNext]_forgeVars => ForgeTypeInv'
  <2> SUFFICES ASSUME ForgeTypeInv, [ForgeNext]_forgeVars PROVE ForgeTypeInv'
    OBVIOUS
  <2>1. LockTypeOK'
    BY ForgeStepIsLockStep, LockTypeStep DEF ForgeTypeInv
  <2>2. IndexTypeOK'
    BY ForgeStepIsIndexStep, IndexStepType DEF ForgeTypeInv
  <2> QED BY <2>1, <2>2, FileTypesStep, BundleTypesStep, ProcTypesStep
          DEF ForgeTypeInv
<1> QED BY <1>1, ForgeInitTypes, PTL DEF ForgeSpec

(* The files of a run and the processes at work on it keep their types. *)
THEOREM ForgeTypeCorrect == ForgeSpec => []ForgeTypeOK
BY ForgeTypeInvariance, TypesImplyOK, PTL
------------------------------------------------------------------------------
(***************************************************************************)
(* What is recorded, and what a process at work knows.                     *)
(***************************************************************************)
RowOf(c) == [candidate |-> c, measure |-> cert[c].measure,
             certified |-> cert[c].certified]
EntryOfBundle(c) == [candidate |-> c, packaged |-> bundle[c]]

Tried  == {c \in Candidates : trial[c] # 0}
Chosen == {row.candidate : row \in frontierFile}

(* The bundle holds the selected profiles, and its inventory lists them. *)
BundleIsWhole ==
  /\ Chosen \subseteq DOMAIN bundle
  /\ inventory = {EntryOfBundle(c) : c \in Chosen}

(* A creator that nobody has overtaken finds its run as it has left it. *)
StartInv ==
  /\ run = "none" => /\ marked = 0 /\ creator = None
                     /\ \A p \in Procs : stage[p] = "out"
  /\ creator # None /\ ~overtaken =>
       marked = 0 /\ \A p \in Procs : stage[p] # "in"
  /\ \A p \in Procs : pc[p] = "idle" => mem[p] = NoMem

(* The outputs of the recorded steps are on disk. *)
RecordInv ==
  /\ marked >= 6 => \A m \in Models : \E c \in manifests : c[1] = m
  /\ marked >= 7 => \A c \in manifests : trial[c] # 0 /\ cstatus[c] = "measured"
  /\ marked >= 8 => \A c \in manifests : eval[c] = trial[c]
  /\ marked >= 9 => \A c \in manifests : cert[c] = Verdict(c)
  /\ marked >= 10 => frontierFile = Pareto(RowsOnDisk)
  /\ marked >= 11 => BundleIsWhole /\ sealed /\ (SignsBundle => signature = "current")

(* Beside them: a verdict has a trial, and unless the creator was overtaken *)
(* nothing is packaged but what the recorded frontier selects.              *)
LeftoverInv ==
  /\ \A c \in Candidates : cert[c] # NoRow => trial[c] # 0
  /\ ~overtaken /\ DOMAIN bundle # {} => marked >= 10 /\ DOMAIN bundle \subseteq Chosen

(* A process at work has recorded all it has done, and holds what the       *)
(* recorded steps left.  Only a creator that was overtaken starts on a      *)
(* record that is not its own, which it replaces by its first step.         *)
MemoryInv(p) ==
  /\ mem[p].view # marked => overtaken /\ mem[p].view = 0
  /\ mem[p].view < 8 \/ (mem[p].view = 8 /\ pc[p] = "entering") => mem[p].rows = {}
  /\ mem[p].view >= 9 => mem[p].rows = RowsOnDisk
  /\ mem[p].view >= 10 => mem[p].frontier = frontierFile
  /\ mem[p].view < 10 \/ (mem[p].view = 10 /\ pc[p] = "entering") => mem[p].files = {}

(* The loop of each step: what is not to do any more is done. *)
LoopInv(p) ==
  LET todo == mem[p].todo IN
  /\ mem[p].view = 5 => \A m \in Models : \E c \in todo \cup manifests : c[1] = m
  /\ mem[p].view = 6 => \A c \in manifests \ todo :
                          trial[c] # 0 /\ cstatus[c] = "measured"
  /\ mem[p].view = 7 => \A c \in manifests \ todo : eval[c] = trial[c]
  /\ mem[p].view = 8 => /\ todo \subseteq Tried
                        /\ \A c \in Tried \ todo : cert[c] = Verdict(c)
                        /\ mem[p].rows = {RowOf(c) : c \in Tried \ todo}
  /\ mem[p].view = 10 => /\ todo \subseteq Chosen
                         /\ Chosen \ todo \subseteq DOMAIN bundle
                         /\ mem[p].files = {EntryOfBundle(c) : c \in Chosen \ todo}

Busy == {"entering", "copying", "working", "measuring", "sealing", "signing",
         "sealed"}

Matches(entry) ==
  entry.packaged.evidence = [measure   |-> entry.packaged.published,
                             certified |-> TRUE]

WorkInv(p) ==
  /\ pc[p] \in Busy => /\ MemoryInv(p)
                       /\ \A entry \in mem[p].files : Matches(entry)
  /\ pc[p] \in {"working", "measuring"} => LoopInv(p)
  /\ pc[p] \in {"sealing", "signing", "sealed"} => BundleIsWhole
  /\ pc[p] \in {"signing", "sealed"} => sealed
  /\ pc[p] = "sealed" /\ SignsBundle => signature = "current"

DiskInv ==
  /\ RecordInv /\ LeftoverInv
  /\ \A entry \in inventory : Matches(entry)

(* All together: without a race there is one process at work. *)
RunInv ==
  /\ StartInv
  /\ ~raced => DiskInv /\ \A p \in Procs : WorkInv(p)
------------------------------------------------------------------------------
(* Where the files are left alone, so is what is read off them. *)
LEMMA FilesFrame ==
  ASSUME UNCHANGED <<evidenceVars, bundleVars>>
  PROVE  /\ RowsOnDisk' = RowsOnDisk /\ Tried' = Tried /\ Chosen' = Chosen
         /\ BundleIsWhole' <=> BundleIsWhole
         /\ \A c : Verdict(c)' = Verdict(c) /\ RowOf(c)' = RowOf(c)
                   /\ EntryOfBundle(c)' = EntryOfBundle(c)
BY DEF evidenceVars, bundleVars, RowsOnDisk, Tried, Chosen, BundleIsWhole,
       Verdict, RowOf, EntryOfBundle

LEMMA DiskFrame ==
  ASSUME DiskInv, UNCHANGED <<marked, modelVars, evidenceVars, bundleVars, overtaken>>
  PROVE  DiskInv'
<1>1. RecordInv'
  BY FilesFrame DEF DiskInv, RecordInv, modelVars, evidenceVars, bundleVars, Pareto
<1>2. LeftoverInv'
  BY FilesFrame DEF DiskInv, LeftoverInv, evidenceVars, bundleVars
<1> QED BY <1>1, <1>2 DEF DiskInv, bundleVars, Matches

(* The same for the process that is left alone. *)
LEMMA WorkFrame ==
  ASSUME NEW p, WorkInv(p), mem'[p] = mem[p], pc'[p] = pc[p],
         UNCHANGED <<marked, modelVars, evidenceVars, bundleVars, overtaken>>
  PROVE  WorkInv(p)'
<1>1. MemoryInv(p) => MemoryInv(p)'
  BY FilesFrame DEF MemoryInv, bundleVars
<1>2. LoopInv(p) => LoopInv(p)'
  BY FilesFrame DEF LoopInv, modelVars, evidenceVars, bundleVars
<1> QED BY <1>1, <1>2, FilesFrame DEF WorkInv, Busy, Matches, bundleVars

(* Reading the record, entering a step. *)
LEMMA LoadStatusRun ==
  ASSUME ForgeTypeInv, DiskInv, NEW p \in Procs, LoadStatus(p)
  PROVE  DiskInv' /\ WorkInv(p)'
<1>1. UNCHANGED <<marked, modelVars, evidenceVars, bundleVars, overtaken>>
  BY DEF LoadStatus, fileVars, startVars
<1>2. mem \in [Procs -> MemType] /\ pc[p] = "loading" /\ pc'[p] = "entering"
  BY DEF LoadStatus, Goto, ForgeTypeInv, ProcTypes
<1>3. mem'[p] = [NoMem EXCEPT !.skip = marked, !.view = marked,
                     !.rows = IF marked >= 9 THEN RowsOnDisk ELSE {},
                     !.frontier = IF marked >= 10 THEN frontierFile ELSE {}]
  BY <1>2, Positions DEF LoadStatus
<1>4. /\ mem'[p].view = marked /\ mem'[p].files = {}
      /\ mem'[p].rows = IF marked >= 9 THEN RowsOnDisk ELSE {}
      /\ mem'[p].frontier = IF marked >= 10 THEN frontierFile ELSE {}
  BY <1>3 DEF NoMem
<1>5. marked \in 0..11
  BY DEF ForgeTypeInv, FileTypes
<1>6. MemoryInv(p)'
  BY <1>1, <1>2, <1>4, <1>5, FilesFrame DEF MemoryInv, bundleVars
<1> QED BY <1>1, <1>2, <1>4, <1>6, DiskFrame DEF WorkInv, Busy

LEMMA EnterStepRun ==
  ASSUME ForgeTypeInv, DiskInv, NEW p \in Procs, WorkInv(p), EnterStep(p)
  PROVE  DiskInv' /\ WorkInv(p)'
<1>1. UNCHANGED <<marked, modelVars, evidenceVars, bundleVars, overtaken>>
  BY DEF EnterStep, fileVars, startVars
<1>2. /\ pc[p] = "entering" /\ pc'[p] = "working" /\ mem[p] \in MemType
      /\ mem[p].view \in 0..11 /\ mem[p].view < 11
  BY StepNumbers DEF EnterStep, Goto, ForgeTypeInv, ProcTypes, MemType
<1>3. mem'[p] = [mem[p] EXCEPT !.todo = Worklist(p, Steps[mem[p].view + 1])]
  BY DEF EnterStep, ForgeTypeInv, ProcTypes
<1>4. /\ mem'[p].view = mem[p].view /\ mem'[p].rows = mem[p].rows
      /\ mem'[p].frontier = mem[p].frontier /\ mem'[p].files = mem[p].files
      /\ mem'[p].todo = Worklist(p, Steps[mem[p].view + 1])
  BY <1>2, <1>3 DEF MemType
<1>5. MemoryInv(p) /\ \A entry \in mem[p].files : Matches(entry)
  BY <1>2 DEF WorkInv, Busy
<1>6. MemoryInv(p)'
  BY <1>1, <1>2, <1>4, <1>5, FilesFrame DEF MemoryInv, bundleVars
<1>7. ASSUME mem[p].view >= 5 PROVE mem[p].view = marked
  BY <1>2, <1>5, <1>7 DEF MemoryInv
<1>8. LoopInv(p)'
  <2> DEFINE todo == mem'[p].todo
  <2>1. mem[p].view = 5 => todo = Generated(p)
    BY <1>4, StepNumbers DEF Worklist
  <2>2. mem[p].view = 6 => todo = manifests
    BY <1>4, StepNumbers DEF Worklist
  <2>3. mem[p].view = 7 => todo = {c \in Candidates : cstatus[c] # "none"}
    BY <1>4, StepNumbers DEF Worklist
  <2>4. mem[p].view = 8 => todo = Tried
    BY <1>4, StepNumbers DEF Worklist, Tried
  <2>5. mem[p].view = 10 => todo = {row.candidate : row \in mem[p].frontier}
    BY <1>4, StepNumbers DEF Worklist
  <2> HIDE DEF todo
  <2>6. mem[p].view = 5 => \A m \in Models : \E c \in todo \cup manifests' : c[1] = m
    <3> SUFFICES ASSUME mem[p].view = 5, NEW m \in Models
                 PROVE  \E c \in todo : c[1] = m
      OBVIOUS
    <3> DEFINE lineage == IF mem[p].skip >= Pos("quantization") /\ m \in Quantized
                          THEN "reloaded" ELSE "original"
    <3>1. <<m, lineage>> \in todo
      BY <2>1 DEF Generated
    <3> HIDE DEF lineage
    <3> QED BY <3>1
  <2>7. mem[p].view = 6 => manifests' \ todo = {}
    BY <1>1, <2>2 DEF modelVars
  <2>8. mem[p].view = 7 => manifests' \ todo = {}
    BY <1>1, <1>7, <2>3 DEF modelVars, DiskInv, RecordInv, ForgeTypeInv, FileTypes
  <2>9. mem[p].view = 8 => Tried' \ todo = {} /\ todo \subseteq Tried' /\ mem'[p].rows = {}
    BY <1>1, <1>2, <1>4, <1>5, <2>4, FilesFrame DEF MemoryInv
  <2>10. mem[p].view = 10 => todo = Chosen /\ mem'[p].files = {}
    BY <1>2, <1>4, <1>5, <2>5 DEF MemoryInv, Chosen
  <2>11. mem[p].view = 10 => Chosen' \ todo = {} /\ todo \subseteq Chosen'
    BY <1>1, <2>10, FilesFrame
  <2> QED BY <1>4, <2>6, <2>7, <2>8, <2>9, <2>10, <2>11 DEF LoopInv, todo
<1> QED BY <1>1, <1>2, <1>4, <1>5, <1>6, <1>8, DiskFrame DEF WorkInv, Busy, Matches

(* A finished loop: its postcondition is recorded. *)
LEMMA FinishLoopRun ==
  ASSUME ForgeTypeInv, DiskInv, NEW p \in Procs, WorkInv(p), FinishLoop(p)
  PROVE  DiskInv' /\ WorkInv(p)'
<1>1. UNCHANGED <<modelVars, evidenceVars, bundleVars, overtaken>>
  BY DEF FinishLoop, startVars
<1>2. /\ mem \in [Procs -> MemType]
      /\ mem[p] \in MemType /\ mem[p].view \in 0..11 /\ marked \in 0..11
      /\ manifests \subseteq Candidates
  BY DEF ForgeTypeInv, FileTypes, ProcTypes, MemType
<1>3. /\ pc[p] = "working" /\ mem[p].view \in 0..8 /\ mem[p].todo = {}
      /\ pc'[p] = "entering" /\ marked' = mem[p].view + 1
      /\ mem'[p] = [mem[p] EXCEPT !.view = mem[p].view + 1]
  BY <1>2, OutputsReadyView
     DEF FinishLoop, MarkStep, Goto, ForgeTypeInv, ProcTypes
<1>4. /\ mem'[p].view = mem[p].view + 1 /\ mem'[p].rows = mem[p].rows
      /\ mem'[p].frontier = mem[p].frontier /\ mem'[p].files = mem[p].files
  BY <1>2, <1>3 DEF MemType
<1>5. MemoryInv(p) /\ LoopInv(p)
  BY <1>3 DEF WorkInv, Busy
<1>6. mem[p].view # 0 => marked = mem[p].view
  BY <1>5 DEF MemoryInv
<1>7. mem[p].view = 8 => mem[p].rows = RowsOnDisk
  <2> SUFFICES ASSUME mem[p].view = 8 PROVE mem[p].rows = RowsOnDisk
    OBVIOUS
  <2>1. mem[p].rows = {RowOf(c) : c \in Tried} /\ \A c \in Tried : cert[c] = Verdict(c)
    BY <1>3, <1>5 DEF LoopInv
  <2>2. \A c \in Tried : cert[c] # NoRow
    <3>1. \A c \in Tried : cert[c].measure # 0
      <4>1. \A c : Verdict(c).measure = trial[c]
        BY DEF Verdict
      <4> QED BY <2>1, <4>1 DEF Tried
    <3>2. NoRow.measure = 0
      BY DEF NoRow
    <3> QED BY <3>1, <3>2
  <2>3. Tried = {d \in Candidates : cert[d] # NoRow}
    BY <2>2 DEF Tried, DiskInv, LeftoverInv
  <2> QED BY <2>1, <2>3 DEF RowsOnDisk, RowOf
<1>8. RecordInv'
  <2>1. marked' = 6 => \A m \in Models : \E c \in manifests : c[1] = m
    BY <1>2, <1>3, <1>5 DEF LoopInv
  <2>2. marked' = 7 => \A c \in manifests : trial[c] # 0 /\ cstatus[c] = "measured"
    BY <1>2, <1>3, <1>5 DEF LoopInv
  <2>3. marked' = 8 => \A c \in manifests : eval[c] = trial[c]
    BY <1>2, <1>3, <1>5 DEF LoopInv
  <2>4. marked' = 9 => \A c \in manifests : cert[c] = Verdict(c)
    <3>1. marked' = 9 => manifests \subseteq Tried
      BY <1>2, <1>3, <1>6 DEF DiskInv, RecordInv, Tried
    <3> QED BY <1>2, <1>3, <1>5, <3>1 DEF LoopInv
  <2>5. marked' \in 0..9 /\ (marked' >= 7 => marked >= 6)
        /\ (marked' >= 8 => marked >= 7) /\ (marked' >= 9 => marked >= 8)
    BY <1>3, <1>6
  <2>6. /\ marked' >= 6 => \A m \in Models : \E c \in manifests : c[1] = m
        /\ marked' >= 7 => \A c \in manifests : trial[c] # 0 /\ cstatus[c] = "measured"
        /\ marked' >= 8 => \A c \in manifests : eval[c] = trial[c]
        /\ marked' >= 9 => \A c \in manifests : cert[c] = Verdict(c)
    BY <2>1, <2>2, <2>3, <2>4, <2>5 DEF DiskInv, RecordInv
  <2> QED BY <1>1, <2>5, <2>6, FilesFrame DEF RecordInv, modelVars, evidenceVars
<1>9. LeftoverInv'
  <2>1. ~overtaken /\ DOMAIN bundle # {} => FALSE
    BY <1>3, <1>5 DEF DiskInv, LeftoverInv, MemoryInv
  <2> QED BY <1>1, <2>1, FilesFrame
          DEF DiskInv, LeftoverInv, evidenceVars, bundleVars
<1>10. DiskInv'
  BY <1>1, <1>8, <1>9 DEF DiskInv, Matches, bundleVars
<1>11. mem[p].files = {}
  BY <1>3, <1>5 DEF MemoryInv
<1>12. MemoryInv(p)'
  BY <1>1, <1>3, <1>4, <1>5, <1>7, <1>11, FilesFrame DEF MemoryInv
<1> QED BY <1>3, <1>4, <1>10, <1>11, <1>12 DEF WorkInv, Busy

LEMMA SelectFrontierRun ==
  ASSUME ForgeTypeInv, DiskInv, NEW p \in Procs, WorkInv(p), SelectFrontier(p)
  PROVE  DiskInv' /\ WorkInv(p)'
<1>1. /\ UNCHANGED <<modelVars, evidenceVars, overtaken>>
      /\ UNCHANGED <<bundle, inventory, sealed, signature>>
      /\ frontierFile' = Pareto(mem[p].rows)
  BY DEF SelectFrontier, startVars
<1>2. /\ mem \in [Procs -> MemType]
      /\ mem[p] \in MemType /\ mem[p].view \in 0..11
  BY DEF ForgeTypeInv, ProcTypes, MemType
<1>3. /\ pc[p] = "working" /\ mem[p].view = 9
      /\ pc'[p] = "entering" /\ marked' = 10
      /\ mem'[p] = [mem[p] EXCEPT !.view = 10, !.frontier = frontierFile']
  <2>1. pc[p] = "working" /\ mem[p].view = 9
    BY <1>2, ViewAtStep DEF SelectFrontier, AtStep
  <2>2. pc'[p] = "entering" /\ marked' = 10
    BY <2>1 DEF SelectFrontier, Goto, ForgeTypeInv, ProcTypes
  <2>3. mem'[p] = [mem[p] EXCEPT !.view = mem[p].view + 1,
                                 !.frontier = Pareto(mem[p].rows)]
    BY <1>2 DEF SelectFrontier
  <2> QED BY <1>1, <2>1, <2>2, <2>3
<1>4. /\ mem'[p].view = 10 /\ mem'[p].rows = mem[p].rows
      /\ mem'[p].frontier = frontierFile' /\ mem'[p].files = mem[p].files
  BY <1>2, <1>3 DEF MemType
<1>5. MemoryInv(p) /\ marked = 9
  BY <1>3 DEF WorkInv, Busy, MemoryInv
<1>6. mem[p].rows = RowsOnDisk /\ mem[p].files = {}
  BY <1>3, <1>5 DEF MemoryInv
<1>7. RowsOnDisk' = RowsOnDisk /\ Pareto(RowsOnDisk)' = Pareto(RowsOnDisk)
      /\ \A c : Verdict(c)' = Verdict(c)
  BY <1>1 DEF RowsOnDisk, evidenceVars, Verdict, Pareto
<1>8. RecordInv'
  BY <1>1, <1>3, <1>5, <1>6, <1>7 DEF DiskInv, RecordInv, modelVars, evidenceVars
<1>9. LeftoverInv'
  BY <1>1, <1>5 DEF DiskInv, LeftoverInv, evidenceVars
<1>10. DiskInv'
  BY <1>1, <1>8, <1>9 DEF DiskInv, Matches
<1>11. MemoryInv(p)'
  BY <1>3, <1>4, <1>6, <1>7 DEF MemoryInv
<1> QED BY <1>3, <1>4, <1>6, <1>10, <1>11 DEF WorkInv, Busy

(* The loops, one candidate at a time. *)
LEMMA GenerateCandidateRun ==
  ASSUME ForgeTypeInv, DiskInv, NEW p \in Procs, WorkInv(p),
         NEW c \in Candidates, GenerateCandidate(p, c)
  PROVE  DiskInv' /\ WorkInv(p)'
<1>1. /\ UNCHANGED <<overtaken, marked, trial, eval, cert, bundleVars, pc>>
      /\ manifests' = manifests \cup {c}
  BY DEF GenerateCandidate, startVars
<1>2. /\ mem \in [Procs -> MemType]
      /\ mem[p] \in MemType /\ mem[p].view \in 0..11
  BY DEF ForgeTypeInv, ProcTypes, MemType
<1>3. /\ pc[p] = "working" /\ mem[p].view = 5
      /\ mem'[p] = [mem[p] EXCEPT !.todo = mem[p].todo \ {c}]
  BY <1>2, ViewAtStep DEF GenerateCandidate, FinishItem, AtStep
<1>4. /\ mem'[p].view = 5 /\ mem'[p].rows = mem[p].rows
      /\ mem'[p].files = mem[p].files /\ mem'[p].todo = mem[p].todo \ {c}
  BY <1>2, <1>3 DEF MemType
<1>5. MemoryInv(p) /\ LoopInv(p) /\ marked = 5
  BY <1>3 DEF WorkInv, Busy, MemoryInv
<1>6. mem[p].rows = {} /\ mem[p].files = {}
  BY <1>3, <1>5 DEF MemoryInv
<1>7. DiskInv'
  BY <1>1, <1>5 DEF DiskInv, RecordInv, LeftoverInv, Chosen, Matches, bundleVars
<1>8. MemoryInv(p)'
  BY <1>1, <1>4, <1>5, <1>6 DEF MemoryInv
<1>9. LoopInv(p)'
  BY <1>1, <1>3, <1>4, <1>5 DEF LoopInv
<1> QED BY <1>1, <1>3, <1>4, <1>6, <1>7, <1>8, <1>9 DEF WorkInv, Busy

LEMMA StartWorkerRun ==
  ASSUME ForgeTypeInv, DiskInv, NEW p \in Procs, WorkInv(p),
         NEW c \in Candidates, StartWorker(p, c)
  PROVE  DiskInv' /\ WorkInv(p)'
<1>1. UNCHANGED <<marked, modelVars, evidenceVars, bundleVars, overtaken>>
  BY DEF StartWorker, fileVars, startVars
<1>2. /\ pc[p] = "working" /\ pc'[p] = "measuring" /\ mem[p] \in MemType
      /\ mem'[p] = [mem[p] EXCEPT !.cand = c]
  BY DEF StartWorker, Goto, AtStep, ForgeTypeInv, ProcTypes
<1>3. /\ mem'[p].view = mem[p].view /\ mem'[p].rows = mem[p].rows
      /\ mem'[p].frontier = mem[p].frontier /\ mem'[p].files = mem[p].files
      /\ mem'[p].todo = mem[p].todo
  BY <1>2 DEF MemType
<1>4. MemoryInv(p) /\ LoopInv(p) /\ \A entry \in mem[p].files : Matches(entry)
  BY <1>2 DEF WorkInv, Busy
<1>5. MemoryInv(p)'
  BY <1>1, <1>2, <1>3, <1>4, FilesFrame DEF MemoryInv, bundleVars
<1>6. LoopInv(p)'
  BY <1>1, <1>3, <1>4, FilesFrame DEF LoopInv, modelVars, evidenceVars, bundleVars
<1> QED BY <1>1, <1>2, <1>3, <1>4, <1>5, <1>6, DiskFrame DEF WorkInv, Busy, Matches

LEMMA MeasuredRun ==
  ASSUME ForgeTypeInv, DiskInv, NEW p \in Procs, WorkInv(p),
         NEW m \in Measures, Measured(p, m)
  PROVE  DiskInv' /\ WorkInv(p)'
<1> DEFINE c == mem[p].cand
<1>1. /\ UNCHANGED <<overtaken, marked, manifests, eval, cert, bundleVars>>
      /\ trial' = [trial EXCEPT ![c] = m]
      /\ cstatus' = [cstatus EXCEPT ![c] = "measured"]
  BY DEF Measured, SaveTrial, startVars, modelVars
<1>2. /\ mem \in [Procs -> MemType] /\ mem[p] \in MemType
      /\ pc[p] = "measuring" /\ mem[p].view = 6 /\ c \in Candidates
      /\ pc'[p] = "working"
  BY DEF Measured, Goto, ForgeTypeInv, ProcTypes, PointInv
<1>3. mem'[p] = [mem[p] EXCEPT !.todo = mem[p].todo \ {c}, !.cand = None]
  BY <1>2 DEF Measured, SaveTrial
<1>4. /\ mem'[p].view = 6 /\ mem'[p].rows = mem[p].rows
      /\ mem'[p].files = mem[p].files /\ mem'[p].todo = mem[p].todo \ {c}
  BY <1>2, <1>3 DEF MemType
<1>5. MemoryInv(p) /\ LoopInv(p) /\ marked = 6
  BY <1>2 DEF WorkInv, Busy, MemoryInv
<1>6. mem[p].rows = {} /\ mem[p].files = {}
  BY <1>2, <1>5 DEF MemoryInv
<1>7. /\ \A d \in Candidates : d # c => trial'[d] = trial[d] /\ cstatus'[d] = cstatus[d]
      /\ trial'[c] = m /\ cstatus'[c] = "measured" /\ m # 0
  BY <1>1, <1>2, ForgeAssumption DEF ForgeTypeInv, FileTypes
<1>8. RecordInv'
  BY <1>1, <1>5 DEF DiskInv, RecordInv
<1>9. LeftoverInv'
  BY <1>1, <1>2, <1>7 DEF DiskInv, LeftoverInv, Chosen, bundleVars
<1>10. DiskInv'
  BY <1>1, <1>8, <1>9 DEF DiskInv, Matches, bundleVars
<1>11. MemoryInv(p)'
  BY <1>1, <1>4, <1>5, <1>6 DEF MemoryInv
<1>12. LoopInv(p)'
  BY <1>1, <1>2, <1>4, <1>5, <1>7 DEF LoopInv, ForgeTypeInv, FileTypes
<1> QED BY <1>2, <1>4, <1>6, <1>10, <1>11, <1>12 DEF WorkInv, Busy

LEMMA EvaluateRun ==
  ASSUME ForgeTypeInv, DiskInv, NEW p \in Procs, WorkInv(p),
         NEW c \in Candidates, Evaluate(p, c)
  PROVE  DiskInv' /\ WorkInv(p)'
<1>1. /\ UNCHANGED <<overtaken, marked, manifests, cstatus, trial, cert, bundleVars, pc>>
      /\ eval' = IF cstatus[c] = "measured" THEN [eval EXCEPT ![c] = trial[c]]
                                            ELSE eval
  BY DEF Evaluate, startVars, modelVars
<1>2. /\ mem \in [Procs -> MemType]
      /\ mem[p] \in MemType /\ mem[p].view \in 0..11
  BY DEF ForgeTypeInv, ProcTypes, MemType
<1>3. /\ pc[p] = "working" /\ mem[p].view = 7
      /\ mem'[p] = [mem[p] EXCEPT !.todo = mem[p].todo \ {c}]
  BY <1>2, ViewAtStep DEF Evaluate, FinishItem, AtStep
<1>4. /\ mem'[p].view = 7 /\ mem'[p].rows = mem[p].rows
      /\ mem'[p].files = mem[p].files /\ mem'[p].todo = mem[p].todo \ {c}
  BY <1>2, <1>3 DEF MemType
<1>5. MemoryInv(p) /\ LoopInv(p) /\ marked = 7
  BY <1>3 DEF WorkInv, Busy, MemoryInv
<1>6. mem[p].rows = {} /\ mem[p].files = {}
  BY <1>3, <1>5 DEF MemoryInv
<1>7. DiskInv'
  BY <1>1, <1>5 DEF DiskInv, RecordInv, LeftoverInv, Chosen, Matches, bundleVars
<1>8. MemoryInv(p)'
  BY <1>1, <1>4, <1>5, <1>6 DEF MemoryInv
<1>9. \A d \in manifests : d \notin mem[p].todo \/ d = c => eval'[d] = trial[d]
  <2>1. manifests \subseteq Candidates /\ eval \in [Candidates -> Measures \cup {0}]
    BY DEF ForgeTypeInv, FileTypes
  <2>2. \A d \in manifests : cstatus[d] = "measured"
    BY <1>5 DEF DiskInv, RecordInv
  <2>3. \A d \in manifests \ mem[p].todo : eval[d] = trial[d]
    BY <1>3, <1>5 DEF LoopInv
  <2> QED BY <1>1, <2>1, <2>2, <2>3
<1>10. LoopInv(p)'
  BY <1>1, <1>4, <1>9 DEF LoopInv
<1> QED BY <1>1, <1>3, <1>4, <1>6, <1>7, <1>8, <1>10 DEF WorkInv, Busy

LEMMA CertifyRun ==
  ASSUME ForgeTypeInv, DiskInv, NEW p \in Procs, WorkInv(p),
         NEW c \in Candidates, Certify(p, c)
  PROVE  DiskInv' /\ WorkInv(p)'
<1> DEFINE row == [candidate |-> c, measure |-> Verdict(c).measure,
                   certified |-> Verdict(c).certified]
<1>1. /\ UNCHANGED <<overtaken, marked, manifests, cstatus, trial, eval, bundleVars, pc>>
      /\ cert' = [cert EXCEPT ![c] = Verdict(c)]
  BY DEF Certify, startVars, modelVars
<1>2. /\ mem \in [Procs -> MemType]
      /\ mem[p] \in MemType /\ mem[p].view \in 0..11
  BY DEF ForgeTypeInv, ProcTypes, MemType
<1>3. /\ pc[p] = "working" /\ mem[p].view = 8 /\ c \in mem[p].todo
      /\ mem'[p] = [mem[p] EXCEPT !.todo = mem[p].todo \ {c},
                                  !.rows = mem[p].rows \cup {row}]
  BY <1>2, ViewAtStep DEF Certify, AtStep
<1>4. /\ mem'[p].view = 8 /\ mem'[p].rows = mem[p].rows \cup {row}
      /\ mem'[p].files = mem[p].files /\ mem'[p].todo = mem[p].todo \ {c}
  BY <1>2, <1>3 DEF MemType
<1>5. MemoryInv(p) /\ LoopInv(p) /\ marked = 8
  BY <1>3 DEF WorkInv, Busy, MemoryInv
<1>6. mem[p].files = {}
  BY <1>3, <1>5 DEF MemoryInv
<1>7. /\ mem[p].todo \subseteq Tried /\ c \in Tried
      /\ \A d \in Tried \ mem[p].todo : cert[d] = Verdict(d)
      /\ mem[p].rows = {RowOf(d) : d \in Tried \ mem[p].todo}
  BY <1>3, <1>5 DEF LoopInv
<1>8. /\ \A d \in Candidates : d # c => cert'[d] = cert[d]
      /\ cert'[c] = Verdict(c)
  BY <1>1 DEF ForgeTypeInv, FileTypes
<1>9. Tried' = Tried /\ \A d : Verdict(d)' = Verdict(d)
  BY <1>1 DEF Tried, Verdict
<1>10. RecordInv'
  BY <1>1, <1>5 DEF DiskInv, RecordInv
<1>11. LeftoverInv'
  BY <1>1, <1>7, <1>8 DEF DiskInv, LeftoverInv, Chosen, Tried, bundleVars
<1>12. DiskInv'
  BY <1>1, <1>10, <1>11 DEF DiskInv, Matches, bundleVars
<1>13. MemoryInv(p)'
  BY <1>1, <1>3, <1>4, <1>5, <1>6 DEF MemoryInv
<1>14. Tried \ mem'[p].todo = (Tried \ mem[p].todo) \cup {c}
  BY <1>3, <1>4, <1>7
<1>15. \A d \in Tried \ mem[p].todo : RowOf(d)' = RowOf(d)
  BY <1>3, <1>8 DEF RowOf, Tried
<1>16. RowOf(c)' = row
  BY <1>8 DEF RowOf
<1> HIDE DEF row
<1>17. mem'[p].rows = {RowOf(d)' : d \in Tried \ mem'[p].todo}
  BY <1>4, <1>7, <1>14, <1>15, <1>16
<1>18. \A d \in Tried \ mem'[p].todo : cert'[d] = Verdict(d)
  BY <1>7, <1>8, <1>14 DEF Tried
<1>19. LoopInv(p)'
  BY <1>4, <1>7, <1>9, <1>17, <1>18 DEF LoopInv
<1> QED BY <1>1, <1>3, <1>4, <1>6, <1>12, <1>13, <1>19 DEF WorkInv, Busy

(* A profile is packaged with the verdict that its row was selected by. *)
LEMMA PackagedRowMatches ==
  ASSUME ForgeTypeInv, NEW row \in Pareto(RowsOnDisk)
  PROVE  /\ row.candidate \in Candidates
         /\ cert[row.candidate] = [measure |-> row.measure, certified |-> TRUE]
<1>1. row \in RowsOnDisk /\ row.certified
  BY DEF Pareto
<1>2. PICK c \in Candidates : row = [candidate |-> c, measure |-> cert[c].measure,
                                     certified |-> cert[c].certified]
  BY <1>1 DEF RowsOnDisk
<1>3. row.candidate = c /\ row.measure = cert[c].measure
      /\ row.certified = cert[c].certified
  BY <1>2
<1>4. cert[c] \in [measure : Measures \cup {0}, certified : BOOLEAN]
  BY DEF ForgeTypeInv, FileTypes
<1>5. cert[c].certified = TRUE
  BY <1>1, <1>3, <1>4
<1> QED BY <1>3, <1>4, <1>5

LEMMA PackageRun ==
  ASSUME ForgeTypeInv, DiskInv, NEW p \in Procs, WorkInv(p),
         NEW row \in mem[p].frontier, Package(p, row)
  PROVE  DiskInv' /\ WorkInv(p)'
<1> DEFINE c == row.candidate
           packaged == [published |-> row.measure, evidence |-> cert[c]]
           entry == [candidate |-> c, packaged |-> packaged]
<1>1. /\ UNCHANGED <<overtaken, marked, modelVars, evidenceVars, pc>>
      /\ UNCHANGED <<frontierFile, inventory, sealed, signature>>
      /\ bundle' = [d \in DOMAIN bundle \cup {c} |->
                      IF d = c THEN packaged ELSE bundle[d]]
  BY DEF Package, startVars
<1>2. /\ mem \in [Procs -> MemType]
      /\ mem[p] \in MemType /\ mem[p].view \in 0..11
  BY DEF ForgeTypeInv, ProcTypes, MemType
<1>3. /\ pc[p] = "working" /\ mem[p].view = 10 /\ c \in mem[p].todo
      /\ mem'[p] = [mem[p] EXCEPT !.todo = mem[p].todo \ {c},
                                  !.files = mem[p].files \cup {entry}]
  BY <1>2, ViewAtStep DEF Package, AtStep
<1>4. /\ mem'[p].view = 10 /\ mem'[p].rows = mem[p].rows
      /\ mem'[p].frontier = mem[p].frontier
      /\ mem'[p].files = mem[p].files \cup {entry}
      /\ mem'[p].todo = mem[p].todo \ {c}
  BY <1>2, <1>3 DEF MemType
<1>5. /\ MemoryInv(p) /\ LoopInv(p) /\ marked = 10
      /\ \A e \in mem[p].files : Matches(e)
  BY <1>3 DEF WorkInv, Busy, MemoryInv
<1>6. mem[p].frontier = frontierFile /\ mem[p].rows = RowsOnDisk
  BY <1>3, <1>5 DEF MemoryInv
<1>7. /\ mem[p].todo \subseteq Chosen /\ Chosen \ mem[p].todo \subseteq DOMAIN bundle
      /\ mem[p].files = {EntryOfBundle(d) : d \in Chosen \ mem[p].todo}
  BY <1>3, <1>5 DEF LoopInv
<1>8. row \in Pareto(RowsOnDisk)
  BY <1>5, <1>6 DEF DiskInv, RecordInv
<1>9. Matches(entry)
  <2>1. cert[c] = [measure |-> row.measure, certified |-> TRUE]
    BY <1>8, PackagedRowMatches
  <2>2. entry.packaged.evidence = cert[c] /\ entry.packaged.published = row.measure
    OBVIOUS
  <2> HIDE DEF entry, c
  <2> QED BY <2>1, <2>2 DEF Matches
<1>10. Chosen' = Chosen /\ RowsOnDisk' = RowsOnDisk
       /\ Pareto(RowsOnDisk)' = Pareto(RowsOnDisk) /\ \A d : Verdict(d)' = Verdict(d)
  BY <1>1 DEF Chosen, RowsOnDisk, evidenceVars, Pareto, Verdict
<1>11. RecordInv'
  BY <1>1, <1>5, <1>10 DEF DiskInv, RecordInv, modelVars, evidenceVars
<1>12. LeftoverInv'
  <2>1. DOMAIN bundle' = DOMAIN bundle \cup {c}
    BY <1>1
  <2>2. c \in Chosen
    BY <1>3, <1>7
  <2> QED BY <1>1, <1>5, <1>10, <2>1, <2>2 DEF DiskInv, LeftoverInv, evidenceVars
<1>13. DiskInv'
  BY <1>1, <1>11, <1>12 DEF DiskInv, Matches
<1>14. MemoryInv(p)'
  BY <1>1, <1>3, <1>4, <1>5, <1>6, <1>10 DEF MemoryInv
<1>15. Chosen \ mem'[p].todo = (Chosen \ mem[p].todo) \cup {c}
  BY <1>3, <1>4, <1>7
<1>16. \A d \in Chosen \ mem[p].todo : bundle'[d] = bundle[d] /\ d \in DOMAIN bundle'
  BY <1>1, <1>3, <1>7
<1>17. bundle'[c] = packaged /\ c \in DOMAIN bundle'
  BY <1>1
<1>18. /\ \A d \in Chosen \ mem[p].todo : EntryOfBundle(d)' = EntryOfBundle(d)
       /\ EntryOfBundle(c)' = entry
  BY <1>16, <1>17 DEF EntryOfBundle
<1> HIDE DEF entry, packaged
<1>19. mem'[p].files = {EntryOfBundle(d)' : d \in Chosen \ mem'[p].todo}
  BY <1>4, <1>7, <1>15, <1>18
<1>20. Chosen \ mem'[p].todo \subseteq DOMAIN bundle'
  BY <1>15, <1>16, <1>17
<1>21. mem'[p].todo \subseteq Chosen
  BY <1>4, <1>7
<1>22. LoopInv(p)'
  BY <1>4, <1>10, <1>19, <1>20, <1>21 DEF LoopInv
<1>23. \A e \in mem'[p].files : Matches(e)'
  BY <1>4, <1>5, <1>9 DEF Matches
<1> QED BY <1>1, <1>3, <1>13, <1>14, <1>22, <1>23 DEF WorkInv, Busy

LEMMA WriteInventoryRun ==
  ASSUME ForgeTypeInv, DiskInv, NEW p \in Procs, WorkInv(p), WriteInventory(p)
  PROVE  DiskInv' /\ WorkInv(p)'
<1>1. /\ UNCHANGED <<overtaken, marked, modelVars, evidenceVars, mem>>
      /\ UNCHANGED <<frontierFile, bundle, signature>>
      /\ inventory' = mem[p].files /\ mem[p].todo = {}
  BY DEF WriteInventory, startVars
<1>2. /\ mem[p].view = 10 /\ pc[p] = "working" /\ pc'[p] = "sealing"
  <2>1. mem[p].view \in 0..11
    BY DEF ForgeTypeInv, ProcTypes, MemType
  <2> QED BY <2>1, ViewAtStep DEF WriteInventory, AtStep, Goto, ForgeTypeInv, ProcTypes
<1>3. /\ MemoryInv(p) /\ LoopInv(p) /\ marked = 10
      /\ \A e \in mem[p].files : Matches(e)
  BY <1>2 DEF WorkInv, Busy, MemoryInv
<1>4. /\ Chosen \subseteq DOMAIN bundle
      /\ mem[p].files = {EntryOfBundle(d) : d \in Chosen}
  BY <1>1, <1>2, <1>3 DEF LoopInv
<1>5. /\ Chosen' = Chosen /\ RowsOnDisk' = RowsOnDisk
      /\ Pareto(RowsOnDisk)' = Pareto(RowsOnDisk)
      /\ \A d : Verdict(d)' = Verdict(d) /\ EntryOfBundle(d)' = EntryOfBundle(d)
  BY <1>1 DEF Chosen, RowsOnDisk, evidenceVars, Pareto, Verdict, EntryOfBundle
<1>6. BundleIsWhole'
  BY <1>1, <1>4, <1>5 DEF BundleIsWhole
<1>7. RecordInv'
  BY <1>1, <1>3, <1>5 DEF DiskInv, RecordInv, modelVars, evidenceVars
<1>8. LeftoverInv'
  BY <1>1, <1>5 DEF DiskInv, LeftoverInv, evidenceVars
<1>9. MemoryInv(p)'
  BY <1>1, <1>2, <1>3, <1>5 DEF MemoryInv
<1> QED BY <1>1, <1>2, <1>3, <1>6, <1>7, <1>8, <1>9 DEF DiskInv, WorkInv, Busy, Matches

LEMMA SealRun ==
  ASSUME ForgeTypeInv, DiskInv, NEW p \in Procs, WorkInv(p),
         WriteDigest(p) \/ Sign(p)
  PROVE  DiskInv' /\ WorkInv(p)'
<1>1. /\ UNCHANGED <<overtaken, marked, modelVars, evidenceVars, mem>>
      /\ UNCHANGED <<frontierFile, bundle, inventory>>
  BY DEF WriteDigest, Sign, startVars
<1>2. /\ mem[p].view = 10 /\ pc[p] \in {"sealing", "signing"}
      /\ pc'[p] \in {"signing", "sealed"}
  BY DEF WriteDigest, Sign, Goto, ForgeTypeInv, ProcTypes, PointInv
<1>3. /\ MemoryInv(p) /\ BundleIsWhole /\ marked = 10
      /\ \A e \in mem[p].files : Matches(e)
      /\ pc[p] = "signing" => sealed
  BY <1>2 DEF WorkInv, Busy, MemoryInv
<1>4. /\ Chosen' = Chosen /\ RowsOnDisk' = RowsOnDisk
      /\ Pareto(RowsOnDisk)' = Pareto(RowsOnDisk)
      /\ \A d : Verdict(d)' = Verdict(d) /\ EntryOfBundle(d)' = EntryOfBundle(d)
  BY <1>1 DEF Chosen, RowsOnDisk, evidenceVars, Pareto, Verdict, EntryOfBundle
<1>5. BundleIsWhole'
  BY <1>1, <1>3, <1>4 DEF BundleIsWhole
<1>6. RecordInv'
  BY <1>1, <1>3, <1>4 DEF DiskInv, RecordInv, modelVars, evidenceVars
<1>7. LeftoverInv'
  BY <1>1, <1>4 DEF DiskInv, LeftoverInv, evidenceVars
<1>8. MemoryInv(p)'
  BY <1>1, <1>2, <1>3, <1>4 DEF MemoryInv
<1>9. sealed'
  BY <1>3 DEF WriteDigest, Sign
<1>10. pc'[p] = "sealed" /\ SignsBundle => signature' = "current"
  BY DEF WriteDigest, Sign, Goto, ForgeTypeInv, ProcTypes
<1> QED BY <1>1, <1>2, <1>3, <1>5, <1>6, <1>7, <1>8, <1>9, <1>10
        DEF DiskInv, WorkInv, Busy, Matches

LEMMA FinishBundleRun ==
  ASSUME ForgeTypeInv, DiskInv, NEW p \in Procs, WorkInv(p), FinishBundle(p)
  PROVE  DiskInv' /\ WorkInv(p)'
<1>1. UNCHANGED <<overtaken, modelVars, evidenceVars, bundleVars>>
  BY DEF FinishBundle, startVars
<1>2. /\ mem \in [Procs -> MemType] /\ mem[p] \in MemType
      /\ mem[p].view = 10 /\ pc[p] = "sealed" /\ pc'[p] = "entering"
      /\ marked' = 11 /\ mem'[p] = [mem[p] EXCEPT !.view = 11]
  BY DEF FinishBundle, MarkStep, Goto, ForgeTypeInv, ProcTypes, PointInv
<1>3. /\ mem'[p].view = 11 /\ mem'[p].rows = mem[p].rows
      /\ mem'[p].frontier = mem[p].frontier /\ mem'[p].files = mem[p].files
  BY <1>2 DEF MemType
<1>4. /\ MemoryInv(p) /\ BundleIsWhole /\ marked = 10
      /\ \A e \in mem[p].files : Matches(e)
      /\ sealed /\ (SignsBundle => signature = "current")
  BY <1>2 DEF WorkInv, Busy, MemoryInv
<1>5. Pareto(RowsOnDisk)' = Pareto(RowsOnDisk)
  BY <1>1, FilesFrame DEF Pareto
<1>6. RecordInv'
  BY <1>1, <1>2, <1>4, <1>5, FilesFrame
     DEF DiskInv, RecordInv, modelVars, evidenceVars, bundleVars
<1>7. LeftoverInv'
  BY <1>1, <1>2, <1>4, FilesFrame DEF DiskInv, LeftoverInv, evidenceVars, bundleVars
<1>8. MemoryInv(p)'
  BY <1>1, <1>2, <1>3, <1>4, FilesFrame DEF MemoryInv, bundleVars
<1> QED BY <1>1, <1>2, <1>3, <1>4, <1>6, <1>7, <1>8
        DEF DiskInv, WorkInv, Busy, Matches, bundleVars

LEMMA CopyRun ==
  ASSUME ForgeTypeInv, DiskInv, NEW p \in Procs, WorkInv(p),
         StartCopy(p) \/ EndCopy(p)
  PROVE  DiskInv' /\ WorkInv(p)'
<1>1. /\ UNCHANGED <<overtaken, marked, manifests, evidenceVars, bundleVars, mem>>
  BY DEF StartCopy, EndCopy, startVars
<1>2. /\ mem[p].view = 2 /\ pc[p] \in {"working", "copying"}
      /\ pc'[p] \in {"working", "copying"}
  <2>1. mem[p].view \in 0..11
    BY DEF ForgeTypeInv, ProcTypes, MemType
  <2> QED BY <2>1, ViewAtStep
          DEF StartCopy, EndCopy, AtStep, Goto, ForgeTypeInv, ProcTypes, PointInv
<1>3. /\ MemoryInv(p) /\ marked = 2 /\ \A e \in mem[p].files : Matches(e)
  BY <1>2 DEF WorkInv, Busy, MemoryInv
<1>4. DiskInv'
  BY <1>1, <1>3, FilesFrame
     DEF DiskInv, RecordInv, LeftoverInv, Matches, evidenceVars, bundleVars
<1>5. MemoryInv(p)' /\ LoopInv(p)'
  BY <1>1, <1>2, <1>3 DEF MemoryInv, LoopInv
<1> QED BY <1>1, <1>2, <1>3, <1>4, <1>5 DEF WorkInv, Busy, Matches

(* A trial without its status, left by a failure or a kill. *)
LEMMA SavedTrialDisk ==
  ASSUME ForgeTypeInv, DiskInv, marked = 6, NEW c, NEW m \in Measures,
         SaveTrial(c, m),
         UNCHANGED <<overtaken, marked, manifests, eval, cert, bundleVars>>
  PROVE  DiskInv'
<1>1. \A d \in Candidates : trial[d] # 0 => trial'[d] # 0
  BY ForgeAssumption DEF SaveTrial, ForgeTypeInv, FileTypes
<1>2. RecordInv'
  BY DEF DiskInv, RecordInv
<1>3. LeftoverInv'
  BY <1>1 DEF DiskInv, LeftoverInv, Chosen, bundleVars
<1> QED BY <1>2, <1>3 DEF DiskInv, Matches, bundleVars

LEMMA RejectTrialRun ==
  ASSUME ForgeTypeInv, DiskInv, NEW p \in Procs, WorkInv(p),
         RejectTrial(p) \/ Interrupt(p)
  PROVE  DiskInv' /\ WorkInv(p)'
<1> DEFINE c == mem[p].cand
<1>1. UNCHANGED <<overtaken, marked, manifests, eval, cert, bundleVars>>
  BY DEF RejectTrial, Interrupt, startVars, modelVars
<1>2. pc[p] = "measuring" /\ mem[p].view = 6 /\ pc'[p] = "closing"
  BY DEF RejectTrial, Interrupt, Goto, ForgeTypeInv, ProcTypes, PointInv
<1>3. MemoryInv(p) /\ marked = 6
  BY <1>2 DEF WorkInv, Busy, MemoryInv
<1>4. CASE \E m \in Measures : SaveTrial(c, m)
  BY <1>1, <1>2, <1>3, <1>4, SavedTrialDisk DEF WorkInv, Busy
<1>5. CASE UNCHANGED trial
  <2>1. RecordInv'
    BY <1>1, <1>3, <1>5 DEF DiskInv, RecordInv
  <2>2. LeftoverInv'
    BY <1>1, <1>5 DEF DiskInv, LeftoverInv, Chosen, bundleVars
  <2> QED BY <1>1, <1>2, <2>1, <2>2 DEF DiskInv, WorkInv, Busy, Matches, bundleVars
<1> QED BY <1>4, <1>5 DEF RejectTrial, Interrupt, LeaveWorker
------------------------------------------------------------------------------
(* What a step of a process inside the run is like: it leaves the start of  *)
(* the run and the other processes alone, and goes idle with nothing held.  *)
Inside(p) == Work(p) \/ RejectTrial(p) \/ Fail(p) \/ Interrupt(p)

LEMMA InsideShape ==
  ASSUME ForgeTypeInv, NEW p \in Procs, Inside(p)
  PROVE  /\ pc[p] # "idle" /\ UNCHANGED <<creator, overtaken>>
         /\ run' \in {run, "completed"}
         /\ pc'[p] = "idle" => mem'[p] = NoMem
         /\ \A q \in Procs \ {p} : pc'[q] = pc[q] /\ mem'[q] = mem[q]
<1> DEFINE Shape == /\ pc[p] # "idle" /\ UNCHANGED <<creator, overtaken>>
                    /\ run' \in {run, "completed"}
                    /\ pc'[p] = "idle" => mem'[p] = NoMem
                    /\ \A q \in Procs \ {p} : pc'[q] = pc[q] /\ mem'[q] = mem[q]
<1> SUFFICES Shape
  OBVIOUS
<1>1. /\ pc \in [Procs -> {"idle", "loading", "entering", "copying", "working",
                       "measuring", "sealing", "signing", "sealed", "indexing",
                       "closing"}]
      /\ mem \in [Procs -> MemType]
      /\ stage[p] = "in" <=> pc[p] # "idle"
  BY DEF ForgeTypeInv, ProcTypes
<1>2. CASE LoadStatus(p) \/ EnterStep(p)
  BY <1>1, <1>2 DEF LoadStatus, EnterStep, Goto, fileVars, startVars
<1>3. CASE FinishLoop(p)
  <2>1. pc[p] = "working"
    BY <1>3 DEF FinishLoop, OutputsReady, AtStep
  <2> QED BY <1>1, <1>3, <2>1 DEF FinishLoop, MarkStep, Goto, startVars
<1>4. CASE Complete(p) \/ Exit(p) \/ FinishBundle(p)
  BY <1>1, <1>4 DEF Complete, Exit, FinishBundle, MarkStep, Goto, fileVars, startVars
<1>5. CASE StartCopy(p) \/ EndCopy(p)
  BY <1>1, <1>5 DEF StartCopy, EndCopy, AtStep, Goto, startVars
<1>6. CASE \E c \in Candidates : GenerateCandidate(p, c) \/ StartWorker(p, c)
  BY <1>1, <1>6 DEF GenerateCandidate, StartWorker, AtStep, FinishItem, Goto,
                    fileVars, startVars
<1>7. CASE \E c \in Candidates : Evaluate(p, c) \/ Certify(p, c)
  BY <1>1, <1>7 DEF Evaluate, Certify, AtStep, FinishItem, startVars
<1>8. CASE \E m \in Measures : Measured(p, m)
  BY <1>1, <1>8 DEF Measured, Goto, startVars
<1>9. CASE SelectFrontier(p) \/ WriteInventory(p)
  BY <1>1, <1>9 DEF SelectFrontier, WriteInventory, AtStep, Goto, startVars
<1>10. CASE \E row \in mem[p].frontier : Package(p, row)
  BY <1>1, <1>10 DEF Package, AtStep, startVars
<1>11. CASE WriteDigest(p) \/ Sign(p)
  BY <1>1, <1>11 DEF WriteDigest, Sign, Goto, startVars
<1>12. CASE IndexRun(p) \/ FinishIndexing(p)
  BY <1>1, <1>12 DEF IndexRun, FinishIndexing, procVars, Goto, fileVars, startVars
<1>13. CASE RejectTrial(p) \/ Fail(p) \/ Interrupt(p)
  BY <1>1, <1>13 DEF RejectTrial, Fail, Interrupt, Goto, fileVars, startVars
<1> HIDE DEF Shape
<1> QED BY <1>2, <1>3, <1>4, <1>5, <1>6, <1>7, <1>8, <1>9, <1>10, <1>11, <1>12,
           <1>13 DEF Inside, Work

LEMMA StartStep ==
  ASSUME ForgeTypeInv, ForgeTypeInv', StartInv, [ForgeNext]_forgeVars
  PROVE  StartInv'
<1> DEFINE Starting(r, m, c, o, st) ==
             /\ r = "none" => m = 0 /\ c = None /\ \A p \in Procs : st[p] = "out"
             /\ c # None /\ ~o => m = 0 /\ \A p \in Procs : st[p] # "in"
           Quiet == \A p \in Procs : pc[p] = "idle" => mem[p] = NoMem
<1>0. /\ Starting(run, marked, creator, overtaken, stage) /\ Quiet
      /\ stage \in [Procs -> {"out", "checked", "in"}]
      /\ mem \in [Procs -> MemType]
      /\ pc \in [Procs -> {"idle", "loading", "entering", "copying", "working",
                       "measuring", "sealing", "signing", "sealed", "indexing",
                       "closing"}]
      /\ \A p \in Procs : stage[p] = "in" <=> pc[p] # "idle"
      /\ None \notin Procs
  BY ForgeAssumption DEF StartInv, ForgeTypeInv, ProcTypes, LockTypeOK
<1> SUFFICES /\ Starting(run', marked', creator', overtaken', stage')
             /\ Quiet'
  BY DEF StartInv
<1>1. CASE \E p \in Procs : Create(p)
  BY <1>0, <1>1 DEF Create, lockVars, procVars
<1>2. CASE \E p \in Procs : CheckLock(p)
  BY <1>0, <1>2 DEF CheckLock, PassCheck, fileVars, startVars, procVars
<1>3. CASE \E p \in Procs : CreatorRefused(p)
  BY <1>0, <1>3 DEF CreatorRefused, lockVars, procVars
<1>4. CASE \E p \in Procs : TakeLock(p)
  <2>1. PICK p \in Procs : TakeLock(p)
    BY <1>4
  <2>2. /\ stage[p] = "checked" /\ pc'[p] # "idle" /\ run' = run
        /\ \A q \in Procs \ {p} : pc'[q] = pc[q]
        /\ mem' = mem
    BY <1>0, <2>1 DEF TakeLock, WriteLock, Goto
  <2>3. creator' # None => overtaken'
    BY <2>1 DEF TakeLock
  <2> QED BY <1>0, <2>2, <2>3
<1>5. CASE \E p \in Procs : Inside(p)
  <2>1. PICK p \in Procs : Inside(p)
    BY <1>5
  <2>2. Quiet'
    BY <1>0, <2>1, InsideShape
  <2>3. run' # "none" /\ (creator' # None => overtaken')
    BY <1>0, <2>1, InsideShape
  <2> QED BY <2>2, <2>3
<1>6. CASE \E p \in Procs : Crash(p)
  <2>1. PICK p \in Procs : Crash(p)
    BY <1>6
  <2>2. Quiet'
    BY <1>0, <2>1 DEF Crash, Goto
  <2>3. /\ run' = run /\ marked' = marked /\ overtaken' = overtaken
        /\ creator' \in {None, creator} /\ run # "none"
        /\ \A q \in Procs : stage'[q] \in {"out", stage[q]}
    BY <1>0, <2>1 DEF Crash, Die
  <2> QED BY <1>0, <2>2, <2>3
<1>7. CASE \/ \E c \in Candidates : OrphanExits(c)
           \/ \E w \in Writers : OtherRunIndexed(w) \/ OtherRunEnded(w)
  BY <1>0, <1>7 DEF OrphanExits, OtherRunIndexed, OtherRunEnded, fileVars, startVars,
                    lockVars, procVars
<1>8. CASE UNCHANGED forgeVars
  BY <1>0, <1>8 DEF forgeVars, fileVars, startVars, lockVars, procVars
<1> HIDE DEF Starting, Quiet
<1> QED BY <1>1, <1>2, <1>3, <1>4, <1>5, <1>6, <1>7, <1>8 DEF ForgeNext, Inside

(* Steps that leave the files alone, and processes that are not at work.    *)
LEMMA IdleWork ==
  ASSUME NEW p, pc'[p] \notin Busy
  PROVE  WorkInv(p)'
BY DEF WorkInv, Busy

LEMMA QuietStep ==
  ASSUME DiskInv, \A p \in Procs : WorkInv(p),
         UNCHANGED <<marked, modelVars, evidenceVars, bundleVars, overtaken>>,
         \A p \in Procs : \/ pc'[p] \notin Busy
                          \/ pc'[p] = pc[p] /\ mem'[p] = mem[p]
  PROVE  DiskInv' /\ \A p \in Procs : WorkInv(p)'
<1>1. \A p \in Procs : WorkInv(p)'
  <2> SUFFICES ASSUME NEW p \in Procs PROVE WorkInv(p)'
    OBVIOUS
  <2>1. CASE pc'[p] \notin Busy
    BY <2>1, IdleWork
  <2>2. CASE pc'[p] = pc[p] /\ mem'[p] = mem[p]
    BY <2>2, WorkFrame
  <2> QED BY <2>1, <2>2
<1> QED BY <1>1, DiskFrame

(* A process that takes the lock of nobody finds nobody at work.            *)
LEMMA TakeLockRun ==
  ASSUME ForgeTypeInv, LockInv, StartInv, DiskInv, NEW p \in Procs, TakeLock(p), ~raced'
  PROVE  DiskInv' /\ \A q \in Procs : WorkInv(q)'
<1>1. UNCHANGED <<marked, modelVars, evidenceVars, bundleVars, mem>>
  BY DEF TakeLock
<1>2. /\ ~raced /\ lock \notin Procs /\ stage[p] # "in"
      /\ pc' = [pc EXCEPT ![p] = IF creator = p THEN "entering" ELSE "loading"]
      /\ overtaken' = (overtaken \/ creator \notin {None, p})
  BY DEF TakeLock, WriteLock, Goto
<1>3. \A q \in Procs : pc[q] = "idle"
  BY <1>2 DEF LockInv, ForgeTypeInv, ProcTypes
<1>4. /\ \A q \in Procs \ {p} : pc'[q] = "idle"
      /\ pc'[p] = IF creator = p THEN "entering" ELSE "loading"
  BY <1>2, <1>3 DEF ForgeTypeInv, ProcTypes
<1>5. RecordInv'
  BY <1>1, FilesFrame DEF DiskInv, RecordInv, modelVars, evidenceVars, bundleVars, Pareto
<1>6. LeftoverInv'
  BY <1>1, <1>2, FilesFrame DEF DiskInv, LeftoverInv, evidenceVars, bundleVars
<1>7. DiskInv'
  BY <1>1, <1>5, <1>6 DEF DiskInv, bundleVars, Matches
<1>8. WorkInv(p)'
  <2>1. CASE creator = p
    <3>1. mem'[p] = NoMem /\ (~overtaken' => marked' = 0)
      BY <1>1, <1>2, <1>3, <2>1, ForgeAssumption DEF StartInv
    <3>2. /\ mem'[p].view = 0 /\ mem'[p].rows = {} /\ mem'[p].files = {}
      BY <3>1 DEF NoMem
    <3>3. MemoryInv(p)'
      BY <3>1, <3>2 DEF MemoryInv
    <3> QED BY <1>4, <2>1, <3>2, <3>3 DEF WorkInv, Busy
  <2>2. CASE creator # p
    BY <1>4, <2>2, IdleWork DEF Busy
  <2> QED BY <2>1, <2>2
<1> QED BY <1>4, <1>7, <1>8, IdleWork DEF Busy

(* Without a race a process inside the run is the only one.                 *)
LEMMA AloneInside ==
  ASSUME ForgeTypeInv, LockInv, ~raced, NEW p \in Procs, pc[p] # "idle"
  PROVE  \A q \in Procs \ {p} : pc[q] = "idle"
BY DEF ForgeTypeInv, ProcTypes, LockInv

LEMMA InsideRun ==
  ASSUME ForgeTypeInv, LockInv, ~raced, DiskInv, \A q \in Procs : WorkInv(q),
         NEW p \in Procs, Inside(p)
  PROVE  DiskInv' /\ \A q \in Procs : WorkInv(q)'
<1>1. \A q \in Procs \ {p} : pc'[q] = "idle"
  BY InsideShape, AloneInside
<1>2. \A q \in Procs \ {p} : WorkInv(q)'
  BY <1>1, IdleWork DEF Busy
<1>3. CASE DiskInv' /\ WorkInv(p)'
  BY <1>2, <1>3
<1>4. CASE /\ UNCHANGED <<marked, modelVars, evidenceVars, bundleVars, overtaken>>
           /\ pc'[p] \notin Busy
  BY <1>1, <1>4, QuietStep DEF Busy
<1>5. CASE LoadStatus(p) \/ EnterStep(p) \/ FinishLoop(p) \/ StartCopy(p) \/ EndCopy(p)
  BY <1>3, <1>5, LoadStatusRun, EnterStepRun, FinishLoopRun, CopyRun
<1>6. CASE \E c \in Candidates : \/ GenerateCandidate(p, c) \/ StartWorker(p, c)
                                 \/ Evaluate(p, c) \/ Certify(p, c)
  BY <1>3, <1>6, GenerateCandidateRun, StartWorkerRun, EvaluateRun, CertifyRun
<1>7. CASE \E m \in Measures : Measured(p, m)
  BY <1>3, <1>7, MeasuredRun
<1>8. CASE \E row \in mem[p].frontier : Package(p, row)
  BY <1>3, <1>8, PackageRun
<1>9. CASE SelectFrontier(p) \/ WriteInventory(p) \/ WriteDigest(p) \/ Sign(p)
           \/ FinishBundle(p) \/ RejectTrial(p) \/ Interrupt(p)
  BY <1>3, <1>9, SelectFrontierRun, WriteInventoryRun, SealRun, FinishBundleRun,
     RejectTrialRun
<1>10. pc \in [Procs -> {"idle", "loading", "entering", "copying", "working",
                       "measuring", "sealing", "signing", "sealed", "indexing",
                       "closing"}]
  BY DEF ForgeTypeInv, ProcTypes
<1>11. CASE Complete(p) \/ Exit(p)
  <2>1. UNCHANGED <<marked, modelVars, evidenceVars, bundleVars, overtaken>>
    BY <1>11 DEF Complete, Exit, fileVars, startVars
  <2>2. pc'[p] \notin Busy
    BY <1>10, <1>11 DEF Complete, Exit, Goto, Busy
  <2> QED BY <1>4, <2>1, <2>2
<1>12. CASE IndexRun(p) \/ FinishIndexing(p)
  <2>1. UNCHANGED <<marked, modelVars, evidenceVars, bundleVars, overtaken>>
    BY <1>12 DEF IndexRun, FinishIndexing, fileVars, startVars
  <2>2. pc'[p] \notin Busy
    BY <1>10, <1>12 DEF IndexRun, FinishIndexing, procVars, Goto, Busy
  <2> QED BY <1>4, <2>1, <2>2
<1>13. CASE Fail(p)
  <2>1. UNCHANGED <<marked, modelVars, evidenceVars, bundleVars, overtaken>>
    BY <1>13 DEF Fail, fileVars, startVars
  <2>2. pc'[p] \notin Busy
    BY <1>10, <1>13 DEF Fail, Goto, Busy
  <2> QED BY <1>4, <2>1, <2>2
<1> QED BY <1>5, <1>6, <1>7, <1>8, <1>9, <1>11, <1>12, <1>13 DEF Inside, Work

LEMMA RunStep ==
  ASSUME ForgeTypeInv, ForgeTypeInv', LockInv, RunInv, [ForgeNext]_forgeVars
  PROVE  RunInv'
<1>1. StartInv'
  BY StartStep DEF RunInv
<1>2. SUFFICES ASSUME ~raced' PROVE DiskInv' /\ \A p \in Procs : WorkInv(p)'
  BY <1>1 DEF RunInv
<1>3. ~raced
  <2>1. [LockNext]_lockVars
    BY ForgeStepIsLockStep
  <2> QED BY <1>2, <2>1
          DEF LockNext, lockVars, PassCheck, WriteLock, ReleaseLock, Die
<1>4. DiskInv /\ (\A p \in Procs : WorkInv(p)) /\ StartInv
  BY <1>3 DEF RunInv
<1>5. CASE \E p \in Procs : Inside(p)
  BY <1>3, <1>4, <1>5, InsideRun
<1>6. CASE \E p \in Procs : TakeLock(p)
  BY <1>2, <1>4, <1>6, TakeLockRun
<1>7. CASE \E p \in Procs : Create(p) \/ CheckLock(p) \/ CreatorRefused(p)
  <2>1. /\ UNCHANGED <<marked, modelVars, evidenceVars, bundleVars, overtaken>>
        /\ UNCHANGED <<pc, mem>>
    BY <1>7 DEF Create, CheckLock, CreatorRefused, fileVars, startVars, procVars
  <2> QED BY <1>4, <2>1, QuietStep
<1>8. CASE \E p \in Procs : Crash(p)
  <2>1. PICK p \in Procs : Crash(p)
    BY <1>8
  <2>2. UNCHANGED <<marked, modelVars, cstatus, eval, cert, bundleVars, overtaken>>
    BY <2>1 DEF Crash
  <2>3. /\ pc \in [Procs -> {"idle", "loading", "entering", "copying", "working",
                       "measuring", "sealing", "signing", "sealed", "indexing",
                       "closing"}]
        /\ mem \in [Procs -> MemType]
    BY DEF ForgeTypeInv, ProcTypes
  <2>4. \A q \in Procs : \/ pc'[q] \notin Busy
                         \/ pc'[q] = pc[q] /\ mem'[q] = mem[q]
    BY <2>1, <2>3 DEF Crash, Goto, Busy
  <2>5. CASE UNCHANGED trial
    BY <1>4, <2>2, <2>4, <2>5, QuietStep DEF evidenceVars
  <2>6. CASE pc[p] = "measuring" /\ \E m \in Measures : SaveTrial(mem[p].cand, m)
    <3>1. mem[p].view = 6 /\ pc'[p] = "idle"
      BY <2>1, <2>3, <2>6 DEF ForgeTypeInv, ProcTypes, PointInv, Crash, Goto
    <3>2. marked = 6
      BY <1>4, <2>6, <3>1 DEF WorkInv, Busy, MemoryInv
    <3>3. DiskInv'
      BY <1>4, <2>2, <2>6, <3>2, SavedTrialDisk DEF modelVars
    <3>4. \A q \in Procs \ {p} : pc'[q] = "idle"
      BY <1>3, <2>1, <2>3, <2>6, AloneInside DEF Crash, Goto
    <3> QED BY <3>1, <3>3, <3>4, IdleWork DEF Busy
  <2> QED BY <2>1, <2>5, <2>6 DEF Crash, LeaveWorker
<1>9. CASE \/ \E c \in Candidates : OrphanExits(c)
           \/ \E w \in Writers : OtherRunIndexed(w) \/ OtherRunEnded(w)
           \/ UNCHANGED forgeVars
  <2>1. /\ UNCHANGED <<marked, modelVars, evidenceVars, bundleVars, overtaken>>
        /\ UNCHANGED <<pc, mem>>
    BY <1>9 DEF OrphanExits, OtherRunIndexed, OtherRunEnded, forgeVars, fileVars,
                startVars, procVars
  <2> QED BY <1>4, <2>1, QuietStep
<1> QED BY <1>5, <1>6, <1>7, <1>8, <1>9 DEF ForgeNext, Inside

LEMMA RunInitInv == ForgeInit => RunInv
<1> SUFFICES ASSUME ForgeInit PROVE RunInv
  OBVIOUS
<1>1. StartInv
  BY DEF ForgeInit, LockInit, StartInv
<1>2. DiskInv
  BY DEF ForgeInit, DiskInv, RecordInv, LeftoverInv
<1>3. \A p \in Procs : WorkInv(p)
  BY DEF ForgeInit, WorkInv, Busy
<1> QED BY <1>1, <1>2, <1>3 DEF RunInv

LEMMA RunInvariance == ForgeSpec => [](ForgeTypeInv /\ RunInv)
<1>1. ForgeInit => LockInv
  BY LockInitInv DEF ForgeInit
<1>2. LockInv /\ [ForgeNext]_forgeVars => LockInv'
  BY ForgeStepIsLockStep, LockStepInv
<1>3. /\ ForgeTypeInv /\ ForgeTypeInv' /\ LockInv /\ RunInv /\ [ForgeNext]_forgeVars
      => RunInv'
  BY RunStep
<1> QED BY <1>1, <1>2, <1>3, RunInitInv, ForgeTypeInvariance, PTL DEF ForgeSpec

(* Every recorded step has left behind what the later steps rely on,        *)
(* whatever crashes, failures and resumed runs came between.                *)
THEOREM RecordedStepsAlwaysHold == ForgeSpec => []RecordedStepsHold
<1>1. ForgeTypeInv /\ RunInv => RecordedStepsHold
  <2> SUFFICES ASSUME ForgeTypeInv, RunInv, ~raced PROVE RecordedStepsHold
    BY DEF RecordedStepsHold
  <2>1. RecordInv /\ LeftoverInv /\ marked \in 0..11
    BY DEF RunInv, DiskInv, ForgeTypeInv, FileTypes
  <2>2. marked >= 11 => BundleIsWhole /\ (overtaken \/ DOMAIN bundle = Chosen)
    BY <2>1 DEF RecordInv, LeftoverInv, BundleIsWhole
  <2> QED BY <2>1, <2>2, Positions
          DEF RecordedStepsHold, RecordInv, BundleIsWhole, Chosen, EntryOfBundle
<1> QED BY <1>1, RunInvariance, PTL

(* Every profile of a run without a race is packaged with a certification   *)
(* that certifies it for the latency the profile publishes.                 *)
THEOREM PackagedAlwaysMatchesEvidence == ForgeSpec => []PackagedMatchesEvidence
<1>1. RunInv => PackagedMatchesEvidence
  BY DEF RunInv, DiskInv, Matches, PackagedMatchesEvidence
<1> QED BY <1>1, RunInvariance, PTL
==============================================================================
