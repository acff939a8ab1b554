-------------------------- MODULE CandidateEvidence --------------------------
(***************************************************************************)
(* What a Forge run knows of its candidates and how it comes to know it:   *)
(* the environment is captured, the datasets validated, streamed and used  *)
(* for quantization, the workers measure every candidate, the outputs are  *)
(* evaluated and the gates judge them (perceptshift_forge/orchestration,   *)
(* datasets, evaluation, certification).  A session of the run may fail or *)
(* be killed anywhere; the next one repeats the step that was not recorded *)
(* in pipeline.json, over the files it finds.                              *)
(*                                                                         *)
(* One process at a time works on a run: see ForgeRun for the lock, the    *)
(* steps' bookkeeping and the workers that outlive a session.              *)
(***************************************************************************)
EXTENDS BenchStream, Certification, FiniteSetsExt

CONSTANTS
  Candidates,     (* ids in the order in which their files are sorted      *)
  BaselineModel,
  ModelOf,        (* the model of each candidate                           *)
  OutputOf,       (* what each model answers on each content: a number     *)
  Configs,        (* configurations, each with the run's dataset           *)
  Reports,        (* what a bench worker may report of a candidate         *)
  Readings,       (* what the host may show: [valid, celsius, throttled]   *)
  Silent,         (* no answer: every score was below the threshold        *)
  NoLabel,        (* the label of an item without one                      *)
  None,           (* not written yet                                       *)
  MaxSessions     (* bound on the sessions of a run                        *)

ASSUME EvidenceAssumption ==
  /\ Candidates \subseteq Nat /\ IsFiniteSet(Candidates)
  /\ MaxSessions \in Nat /\ Unavailable \notin Int
  /\ None \notin Candidates /\ None # TRUE
  /\ None \notin {"generated", "measured", "failed"}
  /\ ModelOf \in [Candidates -> DOMAIN OutputOf]
  /\ BaselineModel \in DOMAIN OutputOf
  /\ \A reading \in Readings : reading.celsius \in Int \cup {Unavailable}
  /\ \A c \in Configs :
       /\ c.maxDrift \in Int \cup {Unlimited}
       /\ c.maxDegradation \in Nat \cup {Unlimited}
       /\ c.dataset.calib \in Seq(Range(c.dataset.calib))
       /\ c.dataset.eval \in Seq(Range(c.dataset.eval))
       /\ \A item \in Range(c.dataset.eval) : item.label # Silent
       /\ c.dataset.measured \in Nat

StepOrder ==
  <<"environment", "datasets", "dataset_stream", "quantization", "candidates",
    "benchmarking", "evaluating_quality", "certifying">>

VARIABLES
  cfg,            (* the configuration, fixed for the run                  *)
  session,        (* sessions started so far                               *)
  pc,             (* where the session is, "idle" between two              *)
  steps,          (* pipeline.json: the steps recorded                     *)
  pending,        (* items or candidates the loop has still to visit       *)
  current,        (* the candidate that is being measured                  *)
  start,          (* start_temp of the session's benchmarking              *)
  environment,    (* environment/: the last capture                        *)
  files,          (* inputs/stream/: what each file shows                  *)
  stream,         (* bench-stream.json                                     *)
  calibrated,     (* the contents the quantized models were calibrated on  *)
  status,         (* candidates/status/                                    *)
  trials,         (* trials/<id>.summary.json                              *)
  detections,     (* evaluation/<id>.detections.json, as far as written    *)
  rows,           (* evaluation/<id>.native_outputs.json, likewise         *)
  evaluation,     (* evaluation/<id>.json                                  *)
  certified       (* certification/<id>.json                               *)

inputVars == <<files, stream, calibrated>>
loopVars == <<pending, current, start>>
measuredVars == <<status, trials, detections, rows>>
resultVars == <<evaluation, certified>>
evidenceVars == <<cfg, session, pc, steps, environment, loopVars, inputVars,
                  measuredVars, resultVars>>

d == cfg.dataset

EvidenceTypeOK ==
  /\ cfg \in Configs /\ session \in 0..MaxSessions
  /\ pc \in {"idle", "next", "items", "bench", "limits", "detections", "rows",
             "measured", "evaluate", "certify", "mark"}
  /\ steps \subseteq {StepOrder[i] : i \in DOMAIN StepOrder}
  /\ pending \subseteq Nat
  /\ current \in Candidates \cup {None}
  /\ pc \in {"limits", "detections", "rows", "measured"} => current \in Candidates
  /\ DOMAIN trials = Candidates
  /\ DOMAIN detections \subseteq Candidates /\ DOMAIN rows \subseteq Candidates
  /\ status \in [Candidates -> {None, "generated", "measured", "failed"}]
  /\ certified \in [Candidates -> {None, TRUE, FALSE}]

EvidenceInit ==
  /\ cfg \in Configs
  /\ session = 0 /\ pc = "idle" /\ steps = {} /\ pending = {}
  /\ current = None /\ start = Unavailable
  /\ environment = [present |-> FALSE, status |-> "invalid",
                    celsius |-> Unavailable, throttled |-> Unavailable]
  /\ files = [path \in {} |-> None] /\ stream = <<>> /\ calibrated = {}
  /\ status = [c \in Candidates |-> None]
  /\ trials = [c \in Candidates |-> None]
  /\ detections = [c \in {} |-> None] /\ rows = [c \in {} |-> None]
  /\ evaluation = [c \in Candidates |-> None]
  /\ certified = [c \in Candidates |-> None]

----------------------------------------------------------------------------
(* Sessions *)

Recorded(step) == step \in steps

(* The step the session is at: the first that is not recorded. *)
At(step) ==
  /\ step \notin steps
  /\ \A i \in DOMAIN StepOrder :
       StepOrder[i] = step => \A j \in 1..(i - 1) : StepOrder[j] \in steps

StartSession ==
  /\ pc = "idle" /\ session < MaxSessions /\ ~Recorded("certifying")
  /\ session' = session + 1 /\ pc' = "next"
  /\ UNCHANGED <<cfg, steps, loopVars, environment, inputVars, measuredVars,
                 resultVars>>

(* mark. *)
Mark ==
  /\ pc = "mark" /\ pc' = "next"
  /\ \E step \in {StepOrder[i] : i \in DOMAIN StepOrder} :
       At(step) /\ steps' = steps \cup {step}
  /\ UNCHANGED <<cfg, session, loopVars, environment, inputVars,
                 measuredVars, resultVars>>

Kill ==
  /\ pc # "idle" /\ pc' = "idle"
  /\ UNCHANGED <<cfg, session, steps, loopVars, environment,
                 inputVars, measuredVars, resultVars>>

----------------------------------------------------------------------------
(* The inputs *)

(* capture_environment. *)
Captured(reading) ==
  [present   |-> TRUE,
   status    |-> IF reading.valid THEN "valid"
                 ELSE IF cfg.requireEnvironment THEN "invalid"
                 ELSE "valid_with_warnings",
   celsius   |-> reading.celsius,
   throttled |-> reading.throttled]

CaptureEnvironment(reading) ==
  /\ pc = "next" /\ At("environment")
  /\ environment' = Captured(reading) /\ pc' = "mark"
  /\ UNCHANGED <<cfg, session, steps, loopVars, inputVars, measuredVars,
                 resultVars>>

(* validate_dataset_manifest and assert_split_isolation. *)
ValidateDatasets ==
  /\ pc = "next" /\ At("datasets")
  /\ pc' = IF Admitted(d) THEN "mark" ELSE "idle"
  /\ UNCHANGED <<cfg, session, steps, loopVars, environment,
                 inputVars, measuredVars, resultVars>>

OpenStream ==
  /\ pc = "next" /\ At("dataset_stream")
  /\ pc' = "items" /\ pending' = 1..Len(Items(d))
  /\ UNCHANGED <<cfg, session, steps, current, start, environment, inputVars,
                 measuredVars, resultVars>>

(* One item of _materialize_split. *)
Materialize ==
  /\ pc = "items" /\ pending # {}
  /\ LET k == Min(pending)
     IN IF Fits(d, k)
        THEN /\ files' = Materialized(files, d, k)
             /\ pending' = pending \ {k} /\ pc' = pc
        ELSE pc' = "idle" /\ UNCHANGED <<files, pending>>
  /\ UNCHANGED <<cfg, session, steps, current, start, environment, stream,
                 calibrated, measuredVars, resultVars>>

WriteStream ==
  /\ pc = "items" /\ pending = {}
  /\ IF Items(d) = <<>> THEN pc' = "idle" /\ UNCHANGED stream
     ELSE pc' = "mark" /\ stream' = StreamOf(d)
  /\ UNCHANGED <<cfg, session, steps, loopVars, environment,
                 files, calibrated, measuredVars, resultVars>>

(* _load_calibration_tensors_native: the calibration entries of the stream, *)
(* the first ones, as many as the limit allows.                             *)
CalibrationEntries ==
  LET all == OfRole(stream, "calib")
  IN  {k \in all : \/ cfg.calibrationLimit = Unlimited
                  \/ Cardinality(all \cap 1..k) <= cfg.calibrationLimit}

(* run_quantization_variants. *)
Quantize ==
  /\ pc = "next" /\ At("quantization")
  /\ IF ~cfg.quantize THEN pc' = "mark" /\ UNCHANGED calibrated
     ELSE IF CalibrationEntries = {} THEN pc' = "idle" /\ UNCHANGED calibrated
     ELSE /\ calibrated' = {files[stream[k].path] : k \in CalibrationEntries}
          /\ pc' = "mark"
  /\ UNCHANGED <<cfg, session, steps, loopVars, environment,
                 files, stream, measuredVars, resultVars>>

(* Without quantization there is only the baseline model to vary. *)
GenerateCandidates ==
  /\ pc = "next" /\ At("candidates")
  /\ status' = [c \in Candidates |->
       IF cfg.quantize \/ ModelOf[c] = BaselineModel THEN "generated" ELSE None]
  /\ pc' = "mark"
  /\ UNCHANGED <<cfg, session, steps, loopVars, environment,
                 inputVars, trials, detections, rows, resultVars>>

----------------------------------------------------------------------------
(* The measurements *)

(* The temperature and the throttling on record, not the present ones, open *)
(* the benchmark: in a later session, those of the last capture.            *)
HostAllows ==
  /\ cfg.maxStart # Unlimited =>
       environment.celsius # Unavailable /\ environment.celsius <= cfg.maxStart
  /\ cfg.requireUnthrottled => environment.throttled = FALSE

(* Deviation: what an earlier session measured is not measured again. *)
ToMeasureOnce == {c \in Candidates : status[c] \in {"generated", "failed"}}

(* Every candidate, also those that an earlier session measured. *)
ToMeasure == {c \in Candidates : status[c] # None}

OpenBenchmark ==
  /\ pc = "next" /\ At("benchmarking")
  /\ IF HostAllows
     THEN /\ start' = environment.celsius /\ pending' = ToMeasure
          /\ pc' = "bench" /\ current' = None
     ELSE pc' = "idle" /\ UNCHANGED loopVars
  /\ UNCHANGED <<cfg, session, steps, environment, inputVars, measuredVars,
                 resultVars>>

(* A worker for the next candidate, in whatever order the shuffle gives,    *)
(* reports, and the trial is written.                                       *)
Measure(c, report) ==
  /\ pc = "bench" /\ c \in pending
  /\ current' = c /\ pc' = "limits"
  /\ trials' = [trials EXCEPT ![c] =
       [p99 |-> report.p99, rss |-> report.rss, registered |-> report.registered,
        xnnpack |-> report.xnnpack, answers |-> report.answers,
        session |-> session, drift |-> Unavailable]]
  /\ UNCHANGED <<cfg, session, steps, pending, start, environment, inputVars,
                 status, detections, rows, resultVars>>

Reject(c) ==
  /\ status' = [status EXCEPT ![c] = "failed"] /\ pc' = "idle"

(* The worker fails, takes too long or reports nothing of use. *)
WorkerFails(c) ==
  /\ pc = "bench" /\ c \in pending /\ Reject(c)
  /\ UNCHANGED <<cfg, session, steps, loopVars, environment, inputVars,
                 trials,
                 detections, rows, resultVars>>

TooLarge(c) ==
  /\ cfg.workerRss # Unlimited
  /\ trials[c].rss # Unavailable /\ trials[c].rss > cfg.workerRss

Distance(a, b) == IF a < b THEN b - a ELSE a - b

(* maximum_worker_rss_mb, then maximum_temperature_drift_c, for which the   *)
(* environment is captured again.                                           *)
CheckLimits(reading) ==
  /\ pc = "limits"
  /\ IF TooLarge(current)
     THEN Reject(current) /\ UNCHANGED <<environment, trials>>
     ELSE IF cfg.maxDrift = Unlimited \/ start = Unavailable
     THEN pc' = "detections" /\ UNCHANGED <<environment, status, trials>>
     ELSE /\ environment' = Captured(reading)
          /\ IF \/ reading.celsius = Unavailable
                \/ Distance(reading.celsius, start) > cfg.maxDrift
             THEN Reject(current) /\ UNCHANGED trials
             ELSE /\ trials' = [trials EXCEPT ![current].drift =
                                  Distance(reading.celsius, start)]
                  /\ pc' = "detections" /\ UNCHANGED status
  /\ UNCHANGED <<cfg, session, steps, loopVars, inputVars, detections, rows,
                 resultVars>>

(* The worker runs every entry of the stream, on what the entry's file      *)
(* shows; an answer is a class.                                             *)
AnswerTo(c, k) == [id |-> stream[k].id,
                   class |-> trials[c].answers[files[stream[k].path]]]

DetectionsOf(c) ==
  IF d.kind = "yolo"
  THEN {a \in {AnswerTo(c, k) : k \in DOMAIN stream} : a.class # Silent}
  ELSE {}

OutputsOf(c) == [k \in DOMAIN stream |-> AnswerTo(c, k)]

Saved(documents, c, content) ==
  [b \in DOMAIN documents \cup {c} |-> IF b = c THEN content ELSE documents[b]]

SaveDetections ==
  /\ pc = "detections" /\ pc' = "rows"
  /\ detections' = Saved(detections, current, DetectionsOf(current))
  /\ UNCHANGED <<cfg, session, steps, loopVars, environment, inputVars,
                 status,
                 trials, rows, resultVars>>

SaveOutputs ==
  /\ pc = "rows" /\ pc' = "measured"
  /\ rows' = Saved(rows, current, OutputsOf(current))
  /\ UNCHANGED <<cfg, session, steps, loopVars, environment, inputVars,
                 status,
                 trials, detections, resultVars>>

MarkMeasured ==
  /\ pc = "measured" /\ pc' = "bench"
  /\ status' = [status EXCEPT ![current] = "measured"]
  /\ pending' = pending \ {current} /\ current' = None
  /\ UNCHANGED <<cfg, session, steps, start, environment, inputVars, trials,
                 detections, rows, resultVars>>

EndLoop ==
  /\ pc \in {"bench", "evaluate", "certify"} /\ pending = {}
  /\ pc' = "mark"
  /\ UNCHANGED <<cfg, session, steps, loopVars, environment, inputVars,
                 measuredVars, resultVars>>

----------------------------------------------------------------------------
(* The evaluation *)

Graded == OfRole(stream, "eval")

IsBaseline(c) == ModelOf[c] = BaselineModel

(* Of several rows with one id the last counts. *)
RowsOf(c, id) == {k \in DOMAIN rows[c] : rows[c][k].id = id}
ClassOf(c, id) == rows[c][Max(RowsOf(c, id))].class

HasAnswers(c) ==
  /\ c \in DOMAIN rows
  /\ \A k \in Graded :
       /\ RowsOf(c, stream[k].id) # {}
       /\ ClassOf(c, stream[k].id) # Silent

NativeHits(c) ==
  Cardinality({k \in Graded : ClassOf(c, stream[k].id) = stream[k].label})

(* _run_onnx on the tensors of the evaluation entries. *)
OrtHits(c) ==
  Cardinality({k \in Graded :
    OutputOf[ModelOf[c]][files[stream[k].path]] = stream[k].label})

(* One evaluation entry without a native answer, and all of them are        *)
(* answered by the other runtime.                                           *)
Hits(c) == IF HasAnswers(c) THEN NativeHits(c) ELSE OrtHits(c)

BaselinesWith(written) ==
  {b \in DOMAIN written : status[b] # None /\ IsBaseline(b)}

BaselineHits(c) ==
  IF IsBaseline(c) THEN Hits(c)
  ELSE IF BaselinesWith(rows) = {} \/ ~HasAnswers(Min(BaselinesWith(rows)))
  THEN Unavailable
  ELSE NativeHits(Min(BaselinesWith(rows)))

Unmeasured(equivalent) ==
  [value |-> Unavailable, ok |-> FALSE, equivalent |-> equivalent]

(* The thresholds of classification_accuracy and coco_map_50_95: of n,      *)
(* value are right, and baseline of them were.                              *)
GoodEnough(value, baseline, n) ==
  /\ value * 100 >= cfg.minimum * n
  /\ baseline # Unavailable /\ cfg.maxDegradation # Unlimited =>
       (baseline - value) * 100 <= cfg.maxDegradation * n

Labelled == \A k \in Graded : stream[k].label # NoLabel

Classified(c) ==
  IF ~Labelled THEN Unmeasured(TRUE)
  ELSE [value |-> Hits(c), equivalent |-> TRUE,
        ok |-> GoodEnough(Hits(c), BaselineHits(c), Cardinality(Graded))]

(* _evaluate_yolo keeps the detections on images of the evaluation set:     *)
(* those whose sample id is the id of an image, whatever entry of the       *)
(* stream they are of.                                                      *)
OnEvaluationSet(c) ==
  {a \in detections[c] : a.id \in {<<i.id, 0>> : i \in Range(d.eval)}}

(* mAP as far as a quality threshold is concerned: the images on which the  *)
(* object is found.                                                         *)
MeanPrecision(found) ==
  Cardinality({k \in DOMAIN d.eval :
    [id |-> <<d.eval[k].id, 0>>, class |-> d.eval[k].label] \in found})

Detected(c) ==
  LET with == BaselinesWith(detections)
      base == IF with = {} THEN None ELSE Min(with)
      baseline == IF base = None THEN Unavailable
                  ELSE MeanPrecision(OnEvaluationSet(base))
      value == MeanPrecision(OnEvaluationSet(c))
  IN  IF \/ base = None /\ cfg.maxDegradation # Unlimited
         \/ base # None /\ OnEvaluationSet(base) = {}
         \/ OnEvaluationSet(c) = {}
      THEN Unmeasured(TRUE)
      ELSE [value |-> value, equivalent |-> TRUE,
            ok |-> GoodEnough(value, baseline, Len(d.eval))]

(* numeric_equivalence of the candidate's model with the baseline model.    *)
Equal(c) ==
  \A k \in Graded :
    LET content == files[stream[k].path]
    IN  Distance(OutputOf[ModelOf[c]][content], OutputOf[BaselineModel][content])
          <= cfg.tolerance

Compared(c) == [value |-> Unavailable, ok |-> Equal(c), equivalent |-> Equal(c)]

(* The evaluations that raise instead of giving a document. *)
CannotEvaluate(c) ==
  /\ Graded # {}
  /\ \/ /\ d.kind = "image_classification" /\ Labelled
        /\ BaselineHits(c) = Unavailable /\ cfg.maxDegradation # Unlimited
     \/ d.kind = "raw_tensor" /\ ~cfg.sameShapes /\ ~IsBaseline(c)

Quality(c) ==
  IF Graded = {} THEN Unmeasured(FALSE)
  ELSE IF d.kind = "raw_tensor" THEN Compared(c)
  ELSE IF d.kind = "yolo" THEN Detected(c)
  ELSE Classified(c)

OpenEvaluation ==
  /\ pc = "next" /\ At("evaluating_quality")
  /\ pc' = "evaluate" /\ pending' = {c \in Candidates : status[c] = "measured"}
  /\ UNCHANGED <<cfg, session, steps, current, start, environment, inputVars,
                 measuredVars, resultVars>>

(* evaluate_candidate_quality.  What it adds to the trial nobody reads.     *)
Evaluate ==
  /\ pc = "evaluate" /\ pending # {}
  /\ IF CannotEvaluate(Min(pending))
     THEN pc' = "idle" /\ UNCHANGED <<pending, evaluation>>
     ELSE /\ evaluation' =
               [evaluation EXCEPT ![Min(pending)] = Quality(Min(pending))]
          /\ pending' = pending \ {Min(pending)} /\ pc' = pc
  /\ UNCHANGED <<cfg, session, steps, current, start, environment, inputVars,
                 measuredVars, certified>>

OpenCertification ==
  /\ pc = "next" /\ At("certifying")
  /\ pc' = "certify" /\ pending' = {c \in Candidates : trials[c] # None}
  /\ UNCHANGED <<cfg, session, steps, current, start, environment, inputVars,
                 measuredVars, resultVars>>

(* build_certification_context, run_certification_gates, is_certified.      *)
Certify ==
  /\ pc = "certify" /\ pending # {}
  /\ LET c == Min(pending)
     IN /\ certified' = [certified EXCEPT ![c] =
             PassesGates(cfg, Context(cfg, ModelOf[c], trials[c], evaluation[c],
                                      environment))]
        /\ pending' = pending \ {c}
  /\ UNCHANGED <<cfg, session, pc, steps, current, start, environment,
                 inputVars, measuredVars, evaluation>>

EvidenceNext ==
  \/ StartSession \/ Mark \/ Kill
  \/ \E reading \in Readings : CaptureEnvironment(reading) \/ CheckLimits(reading)
  \/ ValidateDatasets \/ OpenStream \/ Materialize \/ WriteStream \/ Quantize
  \/ GenerateCandidates \/ OpenBenchmark
  \/ \E c \in Candidates :
       (\E report \in Reports : Measure(c, report)) \/ WorkerFails(c)
  \/ SaveDetections \/ SaveOutputs \/ MarkMeasured \/ EndLoop
  \/ OpenEvaluation \/ Evaluate \/ OpenCertification \/ Certify

EvidenceSpec == EvidenceInit /\ [][EvidenceNext]_evidenceVars

----------------------------------------------------------------------------
(* Properties *)

(* Datasets, streams, files and repeated steps notwithstanding, a run that  *)
(* prohibits duplicates never calibrates a quantized model on a content     *)
(* that the evaluation set shows.                                           *)
CalibrationIsSeparate ==
  d.apart => calibrated \cap Contents(d.eval) = {}

(* Once the benchmark is recorded, all trials are of one session, and each  *)
(* of them ended within the drift allowed of the temperature that was on    *)
(* record when the session began to measure (unchecked where there was      *)
(* none); and the outputs and detections that will be graded are those of   *)
(* the trials: none is left from a session that failed or was killed        *)
(* half-way.  How warm the host was when a resumed session began nobody     *)
(* reads: the temperature on record is that of the last capture.            *)
TrialsAreComparable ==
  LET all == {c \in Candidates : status[c] # None}
  IN  Recorded("benchmarking") =>
        /\ \A b, c \in all : trials[b].session = trials[c].session
        /\ cfg.maxDrift # Unlimited /\ start # Unavailable =>
             \A c \in all : trials[c].drift \in 0..cfg.maxDrift
        /\ \A c \in all : c \in DOMAIN rows /\ rows[c] = OutputsOf(c)
        /\ \A c \in all :
             c \in DOMAIN detections /\ detections[c] = DetectionsOf(c)

(* The reference: how many of the images to grade the candidate got right,  *)
(* by what its worker answered on each image itself, or by its model where  *)
(* the worker left one unanswered.                                          *)
Grading == 1..IF d.kind = "yolo" THEN Len(d.eval)
              ELSE Max({Len(d.eval), IF d.eval = <<>> THEN 0 ELSE d.measured})
ItemAt(k) == d.eval[((k - 1) % Len(d.eval)) + 1]
AnsweredAll(c) ==
  \A k \in Grading : trials[c].answers[ItemAt(k).content] # Silent
TrueHits(c) ==
  LET answers == IF AnsweredAll(c) \/ d.kind = "yolo" THEN trials[c].answers
                 ELSE OutputOf[ModelOf[c]]
  IN  Cardinality({k \in Grading : answers[ItemAt(k).content] = ItemAt(k).label})

(* Two images of the evaluation set with one file name are both graded as   *)
(* the second; an image id that both detection sets use takes the           *)
(* detections of either; and what is found on an evaluation image with id 0 *)
(* goes by another id and is lost.                                          *)
Confused ==
  \/ ~IsInjective([k \in DOMAIN d.eval |-> FileName[EvalId(d, k)]])
  \/ /\ d.kind = "yolo"
     /\ \/ \E j \in DOMAIN d.calib, k \in DOMAIN d.eval :
            CalibId(d, j) = EvalId(d, k)
        \/ \E k \in DOMAIN d.eval : d.eval[k].id = NoId

(* An evaluation on record states how good the candidate of the trial on    *)
(* record is on the evaluation images, and it passes only when that is      *)
(* enough, by itself and against the measured baseline.                     *)
QualityIsMeasured ==
  LET all == {c \in Candidates : evaluation[c] # None}
      base == Min({b \in Candidates : IsBaseline(b)})
      reference(c) == IF IsBaseline(c) THEN TrueHits(c) ELSE TrueHits(base)
  IN  Recorded("evaluating_quality") /\ ~Confused =>
        \A c \in all :
          LET doc == evaluation[c]
          IN  /\ doc.value # Unavailable => doc.value = TrueHits(c)
              /\ doc.ok /\ d.kind # "raw_tensor" =>
                   /\ doc.value # Unavailable
                   /\ TrueHits(c) * 100 >= cfg.minimum * Cardinality(Grading)
                   /\ cfg.maxDegradation # Unlimited =>
                        (reference(c) - TrueHits(c)) * 100
                          <= cfg.maxDegradation * Cardinality(Grading)

(* A candidate is certified only by a trial within the deadline and the     *)
(* memory limit and an evaluation that passed: a failing, silent or missing *)
(* document certifies nothing, in whichever session it was written.         *)
CertifiedIsEntitled ==
  \A c \in Candidates :
    Recorded("certifying") /\ certified[c] = TRUE =>
      /\ trials[c].p99 <= cfg.deadline
      /\ trials[c].rss # Unavailable /\ trials[c].rss <= cfg.maxRss
      /\ trials[c].registered
      /\ d.eval # <<>>
      /\ d.kind = "raw_tensor" => Equal(c)
      /\ d.kind # "raw_tensor" /\ ~Confused =>
           TrueHits(c) * 100 >= cfg.minimum * Cardinality(Grading)
      /\ cfg.requireEnvironment => environment.status = "valid"
==============================================================================
