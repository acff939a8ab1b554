------------------------------ MODULE ForgeRun ------------------------------
(***************************************************************************)
(* A forge run (perceptshift_forge/orchestration/__init__.py): a process   *)
(* works through the pipeline of Steps under the run lock and records each *)
(* finished step in pipeline.json; a resumed process skips the recorded    *)
(* steps.  A process may fail or be killed between any two writes, and two *)
(* processes may work on one run after a race for the lock.  A completed   *)
(* run enters the index it shares with other runs.                         *)
(*                                                                         *)
(* A candidate is a model with the lineage that enters its content-        *)
(* addressed id.  What a trial measures is one latency; the gates that need*)
(* other evidence are the candidate's constant quality.  A step is recorded*)
(* only after all earlier ones, so the recorded steps are a prefix and a   *)
(* number stands for them.                                                 *)
(***************************************************************************)
EXTENDS RunLock, RunIndex, Integers, Sequences, FiniteSets

CONSTANTS
  Models,        (* labels of the models a run compares                     *)
  Quantized,     (* those the run derives itself by quantization            *)
  Quality,       (* the evaluated quality of each model                     *)
  QualityFloor,
  Measures,      (* latencies a trial can show, positive                    *)
  Deadline,
  SignsBundle,   (* the configuration asks for a signature and names a key  *)
  MaxFaults      (* bound on failures and kills                             *)

None == <<>>   (* no process, no candidate *)

ASSUME ForgeAssumption ==
  /\ Quantized \subseteq Models
  /\ Quality \in [Models -> Nat] /\ QualityFloor \in Nat
  /\ Measures \subseteq Nat \ {0} /\ Deadline \in Nat /\ MaxFaults \in Nat
  /\ SignsBundle \in BOOLEAN
  /\ None \notin Procs /\ Procs \subseteq Writers

Steps == <<"environment", "datasets", "model", "dataset_stream",
           "quantization", "candidates", "benchmarking", "evaluating_quality",
           "certifying", "selecting_frontier", "building_bundle">>

Pos(s) == CHOOSE i \in DOMAIN Steps : Steps[i] = s

Candidates == (Models \X {"original"}) \cup (Quantized \X {"reloaded"})

(* A row of the certification, zero measure: there is none. *)
Row   == [candidate : Candidates, measure : Nat, certified : BOOLEAN]
NoRow == [measure |-> 0, certified |-> FALSE]

VARIABLES
  run,          (* status in run.json: none, created, completed             *)
  creator,      (* the process between writing run.json and taking the lock *)
  overtaken,    (* another process has taken the lock before it             *)
  marked,       (* number of steps recorded in pipeline.json                *)
  baseline,     (* models/baseline/model.onnx: missing, partial, complete   *)
  manifests,    (* candidates with a manifest                               *)
  cstatus,      (* candidates/status: none, generated, measured, failed     *)
  trial,        (* measure in trials/<id>.summary.json, 0: no file          *)
  eval,         (* measure that evaluation/<id>.json was made for           *)
  cert,         (* certification/<id>.json                                  *)
  frontierFile, (* rows in certification/frontier.json                      *)
  bundle,       (* per candidate the profile and attestation in the bundle  *)
  inventory,    (* the bundle's manifest.json                               *)
  sealed,       (* manifest.sha256 is the digest of manifest.json           *)
  signature,    (* manifest.sig: none, current (over this manifest.sha256), *)
                (* stale (over an earlier one)                              *)
  orphans,      (* candidates whose bench worker outlived its forge process *)
  pc,           (* where each process is                                    *)
  mem,          (* what each process holds in memory                        *)
  faults        (* failures and kills so far                                *)

startVars    == <<run, creator, overtaken>>
modelVars    == <<baseline, manifests>>
evidenceVars == <<cstatus, trial, eval, cert>>
bundleVars   == <<frontierFile, bundle, inventory, sealed, signature>>
fileVars     == <<startVars, marked, modelVars, evidenceVars, bundleVars>>
procVars     == <<pc, mem>>
outsideVars  == <<orphans, indexVars>>
forgeVars    == <<lockVars, fileVars, outsideVars, procVars, faults>>

(* skip: steps done when the process loaded the status, view: steps done in *)
(* its own status, todo: what is left of the current loop, cand: candidate  *)
(* under measurement, rows: certified_rows, frontier: selected rows, files: *)
(* the inventory so far.                                                    *)
NoMem == [skip |-> 0, view |-> 0, todo |-> {}, cand |-> None, rows |-> {},
          frontier |-> {}, files |-> {}]

PackagedType ==
  [published : Nat, evidence : [measure : Nat, certified : BOOLEAN]]

ForgeTypeOK ==
  /\ LockTypeOK
  /\ run \in {"none", "created", "completed"}
  /\ creator \in Procs \cup {None} /\ overtaken \in BOOLEAN
  /\ marked \in 0..Len(Steps)
  /\ baseline \in {"missing", "partial", "complete"}
  /\ manifests \subseteq Candidates
  /\ cstatus \in [Candidates -> {"none", "generated", "measured", "failed"}]
  /\ trial \in [Candidates -> Measures \cup {0}]
  /\ eval \in [Candidates -> Measures \cup {0}]
  /\ cert \in [Candidates -> [measure : Measures \cup {0}, certified : BOOLEAN]]
  /\ frontierFile \subseteq Row
  /\ DOMAIN bundle \subseteq Candidates
  /\ \A c \in DOMAIN bundle : bundle[c] \in PackagedType
  /\ inventory \subseteq [candidate : Candidates, packaged : PackagedType]
  /\ sealed \in BOOLEAN
  /\ signature \in {"none", "current", "stale"}
  /\ orphans \subseteq Candidates
  /\ IndexTypeOK
  /\ pc \in [Procs -> {"idle", "loading", "entering", "copying", "working",
                       "measuring", "sealing", "signing", "sealed", "indexing",
                       "closing"}]
  /\ \A p \in Procs : mem[p].view \in 0..Len(Steps) /\ mem[p].rows \subseteq Row
  /\ \A p \in Procs : stage[p] = "in" <=> pc[p] # "idle"
  /\ faults \in 0..MaxFaults

ForgeInit ==
  /\ LockInit
  /\ run = "none" /\ creator = None /\ overtaken = FALSE /\ marked = 0
  /\ baseline = "missing" /\ manifests = {}
  /\ cstatus = [c \in Candidates |-> "none"]
  /\ trial = [c \in Candidates |-> 0]
  /\ eval  = [c \in Candidates |-> 0]
  /\ cert  = [c \in Candidates |-> NoRow]
  /\ frontierFile = {} /\ bundle = [c \in {} |-> NoRow] /\ inventory = {}
  /\ sealed = FALSE /\ signature = "none" /\ orphans = {} /\ IndexInit
  /\ pc = [p \in Procs |-> "idle"] /\ mem = [p \in Procs |-> NoMem]
  /\ faults = 0

AtStep(p, s) ==
  /\ pc[p] = "working"
  /\ mem[p].view < Len(Steps) /\ Steps[mem[p].view + 1] = s

Goto(p, label) == pc' = [pc EXCEPT ![p] = label]

FinishItem(p, c) == mem' = [mem EXCEPT ![p].todo = @ \ {c}]
------------------------------------------------------------------------------
(***************************************************************************)
(* Starting, resuming and leaving.                                         *)
(***************************************************************************)
(* create_run_workspace up to run.json. *)
Create(p) ==
  /\ run = "none"
  /\ run' = "created" /\ creator' = p
  /\ UNCHANGED <<lockVars, overtaken, marked, modelVars, evidenceVars,
                 bundleVars, outsideVars, procVars, faults>>

CheckLock(p) ==
  /\ run # "none"
  /\ PassCheck(p)
  /\ UNCHANGED <<fileVars, outsideVars, procVars, faults>>

(* Deviation: the refused creator releases the lock too. *)
CreatorRefusedReleasing(p) ==
  /\ creator = p /\ stage[p] = "out" /\ lock \in Procs
  /\ creator' = None /\ lock' = Free
  /\ UNCHANGED <<stage, raced, run, overtaken, marked, modelVars, evidenceVars,
                 bundleVars, outsideVars, procVars, faults>>

(* A resumer has taken the lock of the new run first. *)
CreatorRefused(p) ==
  /\ creator = p /\ stage[p] = "out" /\ lock \in Procs
  /\ creator' = None
  /\ UNCHANGED <<lockVars, run, overtaken, marked, modelVars, evidenceVars,
                 bundleVars, outsideVars, procVars, faults>>

(* Deviation: the owner of the lock is not looked at. *)
TakeLockUnchecked(p) ==
  /\ stage[p] # "in" /\ run # "none"
  /\ lock' = p /\ stage' = [stage EXCEPT ![p] = "in"]
  /\ raced' = (raced \/ lock \in Procs)
  /\ Goto(p, IF creator = p THEN "entering" ELSE "loading")
  /\ creator' = IF creator = p THEN None ELSE creator
  /\ overtaken' = (overtaken \/ creator \notin {None, p})
  /\ UNCHANGED <<run, marked, modelVars, evidenceVars, bundleVars, outsideVars,
                 mem, faults>>

(* The creating process starts from an empty status without reading any,   *)
(* even where one that resumed its run before it took the lock left one.   *)
TakeLock(p) ==
  /\ WriteLock(p)
  /\ Goto(p, IF creator = p THEN "entering" ELSE "loading")
  /\ creator' = IF creator = p THEN None ELSE creator
  /\ overtaken' = (overtaken \/ creator \notin {None, p})
  /\ UNCHANGED <<run, marked, modelVars, evidenceVars, bundleVars, outsideVars,
                 mem, faults>>

RowsOnDisk == {[candidate |-> c, measure |-> cert[c].measure,
                certified |-> cert[c].certified] :
                  c \in {d \in Candidates : cert[d] # NoRow}}

(* Deviation: the rows of earlier steps are not read back. *)
LoadStatusOnly(p) ==
  /\ pc[p] = "loading"
  /\ mem' = [mem EXCEPT ![p] =
       [NoMem EXCEPT !.skip = marked, !.view = marked,
                     !.frontier = IF marked >= Pos("selecting_frontier")
                                  THEN frontierFile ELSE {}]]
  /\ Goto(p, "entering")
  /\ UNCHANGED <<lockVars, fileVars, outsideVars, faults>>

(* The status, and what the else branches of the finished steps read back. *)
LoadStatus(p) ==
  /\ pc[p] = "loading"
  /\ mem' = [mem EXCEPT ![p] =
       [NoMem EXCEPT !.skip = marked, !.view = marked,
                     !.rows = IF marked >= Pos("certifying")
                              THEN RowsOnDisk ELSE {},
                     !.frontier = IF marked >= Pos("selecting_frontier")
                                  THEN frontierFile ELSE {}]]
  /\ Goto(p, "entering")
  /\ UNCHANGED <<lockVars, fileVars, outsideVars, faults>>

(* generate_candidates: the quantized models of a resumed process carry the *)
(* lineage that is read back from their reports, without the calibration    *)
(* metadata, and so another id.                                             *)
Generated(p) ==
  LET reloaded == mem[p].skip >= Pos("quantization")
  IN  {<<m, IF reloaded /\ m \in Quantized THEN "reloaded" ELSE "original">> :
         m \in Models}

(* What the loop of step s runs over, listed when the loop is entered. *)
Worklist(p, s) ==
  CASE s = "candidates"         -> Generated(p)
    [] s = "benchmarking"       -> manifests
    [] s = "evaluating_quality" -> {c \in Candidates : cstatus[c] # "none"}
    [] s = "certifying"         -> {c \in Candidates : trial[c] # 0}
    [] s = "building_bundle"    -> {row.candidate : row \in mem[p].frontier}
    [] OTHER                    -> {}

EnterStep(p) ==
  /\ pc[p] = "entering" /\ mem[p].view < Len(Steps)
  /\ mem' = [mem EXCEPT ![p].todo = Worklist(p, Steps[mem[p].view + 1])]
  /\ Goto(p, "working")
  /\ UNCHANGED <<lockVars, fileVars, outsideVars, faults>>

(* mark: the whole status of the process replaces the file. *)
MarkStep(p) ==
  /\ mem' = [mem EXCEPT ![p].view = @ + 1]
  /\ marked' = mem[p].view + 1
  /\ Goto(p, "entering")

(* environment, datasets, model, dataset_stream and quantization leave their *)
(* outputs before they are recorded, the loops when nothing is left to do.   *)
OutputsReady(p) ==
  \E s \in {Steps[i] : i \in 1..9} :
    /\ AtStep(p, s)
    /\ s = "model" => baseline # "missing"
    /\ s = "quantization" /\ Quantized # {} => baseline = "complete"

(* Deviation: the step is recorded before its loop is over. *)
FinishLoopEarly(p) ==
  /\ OutputsReady(p)
  /\ MarkStep(p)
  /\ UNCHANGED <<lockVars, startVars, modelVars, evidenceVars, bundleVars,
                 outsideVars, faults>>

FinishLoop(p) ==
  /\ OutputsReady(p) /\ mem[p].todo = {}
  /\ MarkStep(p)
  /\ UNCHANGED <<lockVars, startVars, modelVars, evidenceVars, bundleVars,
                 outsideVars, faults>>

(* Every step is recorded: run.json becomes completed. *)
Complete(p) ==
  /\ pc[p] = "entering" /\ mem[p].view = Len(Steps)
  /\ run' = "completed"
  /\ Goto(p, "indexing")
  /\ UNCHANGED <<lockVars, creator, overtaken, marked, modelVars, evidenceVars,
                 bundleVars, outsideVars, mem, faults>>

(* index_run up to the rename, and the rename. *)
IndexRun(p) ==
  /\ pc[p] = "indexing"
  /\ ReadIndex(p) \/ OpenTmp(p) \/ WriteOut(p)
  /\ UNCHANGED <<lockVars, fileVars, orphans, procVars, faults>>

FinishIndexing(p) ==
  /\ pc[p] = "indexing"
  /\ ReplaceIndex(p)
  /\ Goto(p, "closing")
  /\ UNCHANGED <<lockVars, fileVars, orphans, mem, faults>>

(* Processes of other runs finish theirs, raise or are killed. *)
OtherRunIndexed(w) ==
  /\ w \in Writers \ Procs
  /\ ReadIndex(w) \/ OpenTmp(w) \/ WriteOut(w) \/ ReplaceIndex(w)
  /\ UNCHANGED <<lockVars, fileVars, orphans, procVars, faults>>

OtherRunEnded(w) ==
  /\ w \in Writers \ Procs /\ indexing[w] # "idle"
  /\ LeaveIndex(w)
  /\ IndexFails(w) \/ faults < MaxFaults
  /\ faults' = IF IndexFails(w) THEN faults ELSE faults + 1
  /\ UNCHANGED <<lockVars, fileVars, orphans, procVars>>

(* Deviation: the lock is not released. *)
ExitHoldingLock(p) ==
  /\ pc[p] = "closing"
  /\ Goto(p, "idle")
  /\ mem' = [mem EXCEPT ![p] = NoMem]
  /\ UNCHANGED <<lockVars, fileVars, outsideVars, faults>>

(* The finally clause of run_forge and resume_forge. *)
Exit(p) ==
  /\ pc[p] = "closing"
  /\ ReleaseLock(p)
  /\ Goto(p, "idle")
  /\ mem' = [mem EXCEPT ![p] = NoMem]
  /\ UNCHANGED <<fileVars, outsideVars, faults>>

(* A truncated baseline does not load. *)
Loads(c) == c[1] \in Quantized \/ baseline = "complete"

(* The trial is written as soon as the worker has reported, its status after *)
(* the limits are checked and the outputs saved.                             *)
SaveTrial(c, m) == Loads(c) /\ trial' = [trial EXCEPT ![c] = m]

(* A bench worker left to itself, as it has a session of its own, or the    *)
(* trial that it has reported.                                              *)
LeaveWorker(p) ==
  \/ orphans' = orphans \cup {mem[p].cand} /\ UNCHANGED trial
  \/ (\E m \in Measures : SaveTrial(mem[p].cand, m)) /\ UNCHANGED orphans

(* Killed: nothing of the process is left but what its worker leaves. *)
Crash(p) ==
  /\ faults < MaxFaults /\ faults' = faults + 1
  /\ stage[p] # "out" \/ creator = p
  /\ Die(p)
  /\ creator' = IF creator = p THEN None ELSE creator
  /\ IF pc[p] = "measuring" THEN LeaveWorker(p) ELSE UNCHANGED <<orphans, trial>>
  /\ LeaveIndex(p)
  /\ Goto(p, "idle")
  /\ mem' = [mem EXCEPT ![p] = NoMem]
  /\ UNCHANGED <<run, overtaken, marked, modelVars, cstatus, eval, cert,
                 bundleVars>>
------------------------------------------------------------------------------
(***************************************************************************)
(* The steps with state of their own.                                      *)
(***************************************************************************)
(* The baseline is copied only when there is no file yet. *)
StartCopy(p) ==
  /\ AtStep(p, "model") /\ baseline = "missing"
  /\ baseline' = "partial"
  /\ Goto(p, "copying")
  /\ UNCHANGED <<lockVars, startVars, marked, manifests, evidenceVars,
                 bundleVars, outsideVars, mem, faults>>

EndCopy(p) ==
  /\ pc[p] = "copying"
  /\ baseline' = "complete"
  /\ Goto(p, "working")
  /\ UNCHANGED <<lockVars, startVars, marked, manifests, evidenceVars,
                 bundleVars, outsideVars, mem, faults>>

GenerateCandidate(p, c) ==
  /\ AtStep(p, "candidates") /\ c \in mem[p].todo
  /\ manifests' = manifests \cup {c}
  /\ cstatus' = [cstatus EXCEPT ![c] = "generated"]
  /\ FinishItem(p, c)
  /\ UNCHANGED <<lockVars, startVars, marked, baseline, trial, eval, cert,
                 bundleVars, outsideVars, pc, faults>>

(* launch_bench_worker *)
StartWorker(p, c) ==
  /\ AtStep(p, "benchmarking") /\ c \in mem[p].todo
  /\ mem' = [mem EXCEPT ![p].cand = c]
  /\ Goto(p, "measuring")
  /\ UNCHANGED <<lockVars, fileVars, outsideVars, faults>>

(* One step here: what comes between the trial and its status is in Crash,   *)
(* Interrupt and RejectTrial.  CandidateEvidence has the outputs as well.    *)
Measured(p, m) ==
  LET c == mem[p].cand IN
  /\ pc[p] = "measuring" /\ SaveTrial(c, m)
  /\ cstatus' = [cstatus EXCEPT ![c] = "measured"]
  /\ mem' = [mem EXCEPT ![p].todo = @ \ {c}, ![p].cand = None]
  /\ Goto(p, "working")
  /\ UNCHANGED <<lockVars, startVars, marked, modelVars, eval, cert,
                 bundleVars, outsideVars, faults>>

(* The worker crashes, times out or reports no executor time, or the        *)
(* memory and thermal limits reject the trial after its summary is written. *)
(* One rejected candidate ends the execution.                               *)
RejectTrial(p) ==
  LET c == mem[p].cand IN
  /\ pc[p] = "measuring"
  /\ Loads(c) => faults < MaxFaults
  /\ faults' = IF Loads(c) THEN faults + 1 ELSE faults
  /\ \/ UNCHANGED trial
     \/ \E m \in Measures : SaveTrial(c, m)
  /\ cstatus' = [cstatus EXCEPT ![c] = "failed"]
  /\ Goto(p, "closing")
  /\ UNCHANGED <<lockVars, startVars, marked, modelVars, eval, cert,
                 bundleVars, outsideVars, mem>>

OrphanExits(c) ==
  /\ c \in orphans
  /\ orphans' = orphans \ {c}
  /\ UNCHANGED <<lockVars, fileVars, indexVars, procVars, faults>>

Evaluate(p, c) ==
  /\ AtStep(p, "evaluating_quality") /\ c \in mem[p].todo
  /\ eval' = IF cstatus[c] = "measured" THEN [eval EXCEPT ![c] = trial[c]]
                                        ELSE eval
  /\ FinishItem(p, c)
  /\ UNCHANGED <<lockVars, startVars, marked, modelVars, cstatus, trial, cert,
                 bundleVars, outsideVars, pc, faults>>

Verdict(c) ==
  [measure |-> trial[c],
   certified |-> trial[c] <= Deadline /\ Quality[c[1]] >= QualityFloor]

Certify(p, c) ==
  /\ AtStep(p, "certifying") /\ c \in mem[p].todo /\ eval[c] # 0
  /\ cert' = [cert EXCEPT ![c] = Verdict(c)]
  /\ mem' = [mem EXCEPT
       ![p].todo = @ \ {c},
       ![p].rows = @ \cup {[candidate |-> c, measure |-> Verdict(c).measure,
                            certified |-> Verdict(c).certified]}]
  /\ UNCHANGED <<lockVars, startVars, marked, modelVars, cstatus, trial, eval,
                 bundleVars, outsideVars, pc, faults>>

Dominates(a, b) ==
  LET qa == Quality[a.candidate[1]]
      qb == Quality[b.candidate[1]]
  IN  /\ qa >= qb /\ a.measure <= b.measure
      /\ qa > qb \/ a.measure < b.measure

(* Deviation: the frontier is taken of all rows, certified or not. *)
ParetoOfAll(rows) == {a \in rows : ~\E b \in rows : Dominates(b, a)}

(* pareto_select *)
Pareto(rows) ==
  LET feasible == {row \in rows : row.certified}
  IN  {a \in feasible : ~\E b \in feasible : Dominates(b, a)}

(* frontier.json is read only when the step is recorded. *)
SelectFrontier(p) ==
  /\ AtStep(p, "selecting_frontier")
  /\ frontierFile' = Pareto(mem[p].rows)
  /\ mem' = [mem EXCEPT ![p].view = @ + 1,
                        ![p].frontier = Pareto(mem[p].rows)]
  /\ marked' = mem[p].view + 1
  /\ Goto(p, "entering")
  /\ UNCHANGED <<lockVars, startVars, modelVars, evidenceVars, bundle,
                 inventory, sealed, signature, outsideVars, faults>>

(* The profile publishes the latency of the selected row; the attestation   *)
(* is the certification file as it is now.                                  *)
Package(p, row) ==
  LET packaged == [published |-> row.measure, evidence |-> cert[row.candidate]]
  IN
  /\ AtStep(p, "building_bundle")
  /\ row \in mem[p].frontier /\ row.candidate \in mem[p].todo
  /\ bundle' = [c \in DOMAIN bundle \cup {row.candidate} |->
                  IF c = row.candidate THEN packaged ELSE bundle[c]]
  /\ mem' = [mem EXCEPT
       ![p].todo  = @ \ {row.candidate},
       ![p].files = @ \cup {[candidate |-> row.candidate,
                             packaged  |-> packaged]}]
  /\ UNCHANGED <<lockVars, startVars, marked, modelVars, evidenceVars,
                 frontierFile, inventory, sealed, signature, outsideVars, pc,
                 faults>>

(* The manifest is stamped with the time: no two are the same. *)
WriteInventory(p) ==
  /\ AtStep(p, "building_bundle") /\ mem[p].todo = {} /\ mem[p].files # {}
  /\ inventory' = mem[p].files /\ sealed' = FALSE
  /\ Goto(p, "sealing")
  /\ UNCHANGED <<lockVars, startVars, marked, modelVars, evidenceVars,
                 frontierFile, bundle, signature, outsideVars, mem, faults>>

(* An execution that replaces the manifest of an earlier one leaves the     *)
(* earlier signature where it is.                                           *)
WriteDigest(p) ==
  /\ pc[p] = "sealing"
  /\ sealed' = TRUE
  /\ signature' = IF signature = "current" /\ ~sealed THEN "stale"
                                                      ELSE signature
  /\ Goto(p, IF SignsBundle THEN "signing" ELSE "sealed")
  /\ UNCHANGED <<lockVars, startVars, marked, modelVars, evidenceVars,
                 frontierFile, bundle, inventory, outsideVars, mem, faults>>

(* verify_bundle: the digest, the inventoried files, no model beside them,  *)
(* and the signature if there is one.                                       *)
Verifies ==
  /\ sealed /\ signature # "stale"
  /\ DOMAIN bundle = {entry.candidate : entry \in inventory}
  /\ \A entry \in inventory : bundle[entry.candidate] = entry.packaged

(* sign_bundle verifies before it signs. *)
Sign(p) ==
  /\ pc[p] = "signing" /\ Verifies
  /\ signature' = "current"
  /\ Goto(p, "sealed")
  /\ UNCHANGED <<lockVars, startVars, marked, modelVars, evidenceVars,
                 frontierFile, bundle, inventory, sealed, outsideVars, mem, faults>>

FinishBundle(p) ==
  /\ pc[p] = "sealed"
  /\ MarkStep(p)
  /\ UNCHANGED <<lockVars, startVars, modelVars, evidenceVars, bundleVars,
                 outsideVars, faults>>

(* The step cannot succeed: no candidate is certified, the evaluation of a  *)
(* trial is missing, the baseline to quantize is truncated, or the bundle   *)
(* to sign does not verify, as with a signature over an earlier manifest;   *)
(* or the index is damaged or its temporary file has been taken away.       *)
Doomed(p) ==
  \/ AtStep(p, "building_bundle") /\ mem[p].frontier = {}
  \/ AtStep(p, "certifying") /\ \E c \in mem[p].todo : eval[c] = 0
  \/ AtStep(p, "quantization") /\ Quantized # {} /\ baseline # "complete"
  \/ pc[p] = "signing" /\ ~Verifies
  \/ pc[p] = "indexing" /\ IndexFails(p)

(* An exception anywhere ends the execution through the finally clause. *)
Fail(p) ==
  /\ stage[p] = "in" /\ pc[p] # "closing"
  /\ Doomed(p) \/ faults < MaxFaults
  /\ faults' = IF Doomed(p) THEN faults ELSE faults + 1
  /\ Goto(p, "closing")
  /\ LeaveIndex(p)
  /\ UNCHANGED <<lockVars, fileVars, orphans, mem>>

(* Interrupted from the keyboard: the worker runs in its own session and is *)
(* neither signalled nor waited for.                                        *)
Interrupt(p) ==
  /\ pc[p] = "measuring"
  /\ faults < MaxFaults /\ faults' = faults + 1
  /\ LeaveWorker(p)
  /\ Goto(p, "closing")
  /\ UNCHANGED <<lockVars, startVars, marked, modelVars, cstatus, eval, cert,
                 bundleVars, indexVars, mem>>
------------------------------------------------------------------------------
Work(p) ==
  \/ LoadStatus(p) \/ EnterStep(p) \/ FinishLoop(p) \/ Complete(p) \/ Exit(p)
  \/ StartCopy(p) \/ EndCopy(p)
  \/ \E c \in Candidates : \/ GenerateCandidate(p, c) \/ StartWorker(p, c)
                           \/ Evaluate(p, c) \/ Certify(p, c)
  \/ \E m \in Measures : Measured(p, m)
  \/ SelectFrontier(p)
  \/ \E row \in mem[p].frontier : Package(p, row)
  \/ WriteInventory(p) \/ WriteDigest(p) \/ Sign(p) \/ FinishBundle(p)
  \/ IndexRun(p) \/ FinishIndexing(p)

ForgeNext ==
  \/ \E p \in Procs : \/ Create(p) \/ CheckLock(p) \/ CreatorRefused(p)
                      \/ TakeLock(p) \/ Work(p) \/ RejectTrial(p)
                      \/ Fail(p) \/ Interrupt(p) \/ Crash(p)
  \/ \E c \in Candidates : OrphanExits(c)
  \/ \E w \in Writers : OtherRunIndexed(w) \/ OtherRunEnded(w)

ForgeSpec == ForgeInit /\ [][ForgeNext]_forgeVars

(* A running process keeps running: a worker that hangs is stopped by its   *)
(* timeout.  Nobody has to resume a run.                                    *)
LiveForgeSpec ==
  /\ ForgeSpec
  /\ \A p \in Procs : WF_forgeVars(Work(p) \/ RejectTrial(p) \/ Fail(p))
------------------------------------------------------------------------------
(* The forge keeps to the lock protocol: the theorems about RunLock are     *)
(* theorems about forge runs.                                               *)
ForgeKeepsLockProtocol == LockSpec

(* Every recorded step has left behind what the later steps rely on: a      *)
(* trial per manifest, an evaluation made for that trial, the verdict on it,*)
(* the frontier of the verdicts, and a sealed (and signed) bundle of that   *)
(* frontier; whatever crashes and failures came between.  The bundle holds  *)
(* nothing else unless a resumed process overtook the creator, which then   *)
(* packages its run a second time.                                          *)
RecordedStepsHold ==
  ~raced =>
    /\ marked >= Pos("candidates") =>
         \A m \in Models : \E c \in manifests : c[1] = m
    /\ marked >= Pos("benchmarking") =>
         \A c \in manifests : trial[c] # 0 /\ cstatus[c] = "measured"
    /\ marked >= Pos("evaluating_quality") =>
         \A c \in manifests : eval[c] = trial[c]
    /\ marked >= Pos("certifying") => \A c \in manifests : cert[c] = Verdict(c)
    /\ marked >= Pos("selecting_frontier") => frontierFile = Pareto(RowsOnDisk)
    /\ marked >= Pos("building_bundle") =>
         /\ sealed
         /\ SignsBundle => signature = "current"
         /\ inventory = {[candidate |-> c, packaged |-> bundle[c]] :
                           c \in {row.candidate : row \in frontierFile}}
         /\ {row.candidate : row \in frontierFile} \subseteq DOMAIN bundle
         /\ \/ overtaken
            \/ DOMAIN bundle = {row.candidate : row \in frontierFile}

(* Every profile in the bundle comes with a certification that certifies it *)
(* for the very latency the profile publishes, as long as no two processes  *)
(* worked on the run.                                                       *)
PackagedMatchesEvidence ==
  ~raced => \A entry \in inventory :
              entry.packaged.evidence = [measure   |-> entry.packaged.published,
                                         certified |-> TRUE]

(* A process that meets no fault of its own ends with a completed run, from *)
(* whatever its predecessors left behind, unless no candidate passes the    *)
(* gates, the baseline copy was cut short, or a predecessor had signed the  *)
(* bundle that it packages again.                                           *)
CrashedRunIsResumable ==
  \A p \in Procs :
    (pc[p] = "loading" /\ faults = MaxFaults)
      ~> \/ run = "completed" \/ baseline = "partial" \/ raced
         \/ signature = "stale"
         \/ /\ marked >= Pos("certifying")
            /\ \A c \in Candidates : ~cert[c].certified

(* The status records the model step with the digest of the inspected model *)
(* (comment: inspect and copy baseline model): the copy is that model.      *)
BaselineIsCopied == marked >= Pos("model") => baseline = "complete"
==============================================================================
