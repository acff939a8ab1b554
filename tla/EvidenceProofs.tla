---------------------------- MODULE EvidenceProofs ----------------------------
(***************************************************************************)
(* Proofs about CandidateEvidence, for every number of candidates, images, *)
(* repetitions and sessions and every dataset and configuration, with      *)
(* failures and kills between any two steps: types, the comparability of   *)
(* the trials, the separation of calibration from evaluation, the truth of *)
(* the evaluations and what a certificate rests on.                        *)
(*                                                                         *)
(* Control is where a session can be; TrialsInv, InputsInv, StreamInv,     *)
(* Generated, EvaluationInv and CertifiedInv are what is on record, each   *)
(* inductive given those before it.  Once the benchmark is recorded,       *)
(* nothing that a grade rests on changes (Settled), so that the truth of a *)
(* grade is a statement about one state: QualityIsFaithful.                *)
(***************************************************************************)
EXTENDS CandidateEvidence, FiniteSetTheorems, WellFoundedInduction, TLAPS

------------------------------------------------------------------------------
(* The order of the steps, spelled out.                                     *)
LEMMA StepNames ==
  {StepOrder[i] : i \in DOMAIN StepOrder} =
    {"environment", "datasets", "dataset_stream", "quantization", "candidates",
     "benchmarking", "evaluating_quality", "certifying"}
BY DEF StepOrder

LEMMA AtMeans ==
  /\ At("environment") <=> "environment" \notin steps
  /\ At("datasets") <=> {"environment"} \subseteq steps /\ "datasets" \notin steps
  /\ At("dataset_stream") <=>
       {"environment", "datasets"} \subseteq steps /\ "dataset_stream" \notin steps
  /\ At("quantization") <=>
       /\ {"environment", "datasets", "dataset_stream"} \subseteq steps
       /\ "quantization" \notin steps
  /\ At("candidates") <=>
       /\ {"environment", "datasets", "dataset_stream", "quantization"} \subseteq steps
       /\ "candidates" \notin steps
  /\ At("benchmarking") <=>
       /\ {"environment", "datasets", "dataset_stream", "quantization",
           "candidates"} \subseteq steps
       /\ "benchmarking" \notin steps
  /\ At("evaluating_quality") <=>
       /\ {"environment", "datasets", "dataset_stream", "quantization",
           "candidates", "benchmarking"} \subseteq steps
       /\ "evaluating_quality" \notin steps
  /\ At("certifying") <=>
       /\ {"environment", "datasets", "dataset_stream", "quantization",
           "candidates", "benchmarking", "evaluating_quality"} \subseteq steps
       /\ "certifying" \notin steps
<1> USE DEF At, StepOrder
<1>1. At("environment") <=> "environment" \notin steps
  OBVIOUS
<1>2. At("datasets") <=> {"environment"} \subseteq steps /\ "datasets" \notin steps
  OBVIOUS
<1>3. At("dataset_stream") <=>
        {"environment", "datasets"} \subseteq steps /\ "dataset_stream" \notin steps
  OBVIOUS
<1>4. At("quantization") <=>
        /\ {"environment", "datasets", "dataset_stream"} \subseteq steps
        /\ "quantization" \notin steps
  OBVIOUS
<1>5. At("candidates") <=>
        /\ {"environment", "datasets", "dataset_stream", "quantization"} \subseteq steps
        /\ "candidates" \notin steps
  OBVIOUS
<1>6. At("benchmarking") <=>
        /\ {"environment", "datasets", "dataset_stream", "quantization",
            "candidates"} \subseteq steps
        /\ "benchmarking" \notin steps
  OBVIOUS
<1>7. At("evaluating_quality") <=>
        /\ {"environment", "datasets", "dataset_stream", "quantization",
            "candidates", "benchmarking"} \subseteq steps
        /\ "evaluating_quality" \notin steps
  OBVIOUS
<1>8. At("certifying") <=>
        /\ {"environment", "datasets", "dataset_stream", "quantization",
            "candidates", "benchmarking", "evaluating_quality"} \subseteq steps
        /\ "certifying" \notin steps
  OBVIOUS
<1> HIDE DEF At, StepOrder
<1> QED BY <1>1, <1>2, <1>3, <1>4, <1>5, <1>6, <1>7, <1>8

(* A session is at one step only. *)
LEMMA AtOneStep ==
  ASSUME At("benchmarking"),
         NEW step \in {StepOrder[i] : i \in DOMAIN StepOrder}, At(step)
  PROVE  step = "benchmarking"
BY AtMeans, StepNames

------------------------------------------------------------------------------
(* The types.                                                               *)
LEMMA TypeStep ==
  ASSUME EvidenceTypeOK, EvidenceNext
  PROVE  EvidenceTypeOK'
<1> USE DEF EvidenceNext, StartSession, Mark, Kill, CaptureEnvironment, CheckLimits,
        ValidateDatasets, OpenStream, Materialize, WriteStream, Quantize,
        GenerateCandidates, OpenBenchmark, Measure, WorkerFails, Reject,
        SaveDetections, SaveOutputs, MarkMeasured, EndLoop, OpenEvaluation,
        Evaluate, OpenCertification, Certify
<1>1. cfg' \in Configs
  BY DEF EvidenceTypeOK
<1>2. session' \in 0..MaxSessions
  BY EvidenceAssumption DEF EvidenceTypeOK
<1>3. pc' \in {"idle", "next", "items", "bench", "limits", "detections", "rows",
               "measured", "evaluate", "certify", "mark"}
  BY DEF EvidenceTypeOK
<1>4. steps' \subseteq {StepOrder[i] : i \in DOMAIN StepOrder}
  BY DEF EvidenceTypeOK
<1>5. pending' \subseteq Nat
  BY EvidenceAssumption DEF EvidenceTypeOK, ToMeasure, loopVars
<1>6. current' \in Candidates \cup {None}
  BY DEF EvidenceTypeOK, loopVars
<1>7. DOMAIN trials' = Candidates
  BY DEF EvidenceTypeOK, measuredVars
<1>8. DOMAIN detections' \subseteq Candidates /\ DOMAIN rows' \subseteq Candidates
  BY DEF EvidenceTypeOK, measuredVars, Saved
<1>9. status' \in [Candidates -> {None, "generated", "measured", "failed"}]
  BY DEF EvidenceTypeOK, measuredVars
<1>10. certified' \in [Candidates -> {None, TRUE, FALSE}]
  BY DEF EvidenceTypeOK, resultVars, PassesGates
<1>11. pc' \in {"limits", "detections", "rows", "measured"} => current' \in Candidates
  BY DEF EvidenceTypeOK, loopVars
<1> HIDE DEF EvidenceNext, StartSession, Mark, Kill, CaptureEnvironment, CheckLimits,
        ValidateDatasets, OpenStream, Materialize, WriteStream, Quantize,
        GenerateCandidates, OpenBenchmark, Measure, WorkerFails, Reject,
        SaveDetections, SaveOutputs, MarkMeasured, EndLoop, OpenEvaluation,
        Evaluate, OpenCertification, Certify
<1> QED BY <1>1, <1>2, <1>3, <1>4, <1>5, <1>6, <1>7, <1>8, <1>9, <1>10, <1>11
        DEF EvidenceTypeOK

(* What is on record and under way has its type, whatever fails or is       *)
(* killed.                                                                  *)
THEOREM EvidenceTypeCorrect == EvidenceSpec => []EvidenceTypeOK
<1>1. EvidenceInit => EvidenceTypeOK
  BY EvidenceAssumption DEF EvidenceInit, EvidenceTypeOK
<1>2. EvidenceTypeOK /\ UNCHANGED evidenceVars => EvidenceTypeOK'
  BY DEF EvidenceTypeOK, evidenceVars, loopVars, inputVars, measuredVars, resultVars
<1> QED BY <1>1, <1>2, TypeStep, PTL DEF EvidenceSpec

------------------------------------------------------------------------------
(* Where a session can be: the loops belong to their steps, and steps are   *)
(* recorded in order.                                                       *)
Inside == {"bench", "limits", "detections", "rows", "measured"}

InOrder ==
  /\ "datasets" \in steps => "environment" \in steps
  /\ "dataset_stream" \in steps => "datasets" \in steps
  /\ "quantization" \in steps => "dataset_stream" \in steps
  /\ "candidates" \in steps => "quantization" \in steps
  /\ "benchmarking" \in steps => "candidates" \in steps
  /\ "evaluating_quality" \in steps => "benchmarking" \in steps
  /\ "certifying" \in steps => "evaluating_quality" \in steps

AtItsStep ==
  /\ pc = "items" => At("dataset_stream")
  /\ pc \in Inside => At("benchmarking")
  /\ pc = "evaluate" => At("evaluating_quality")
  /\ pc = "certify" => At("certifying")

Temperatures ==
  /\ environment.celsius \in Int \cup {Unavailable}
  /\ start \in Int \cup {Unavailable}

Control == EvidenceTypeOK /\ InOrder /\ AtItsStep /\ Temperatures

LEMMA MarkKeepsOrder ==
  ASSUME InOrder, Mark
  PROVE  InOrder'
<1>1. PICK step \in {StepOrder[i] : i \in DOMAIN StepOrder} :
        At(step) /\ steps' = steps \cup {step}
  BY DEF Mark
<1> QED BY <1>1, AtMeans, StepNames DEF InOrder

(* The steps do not change except at the end of one. *)
LEMMA RecordedOnlyByMark ==
  ASSUME EvidenceNext
  PROVE  Mark \/ steps' = steps
BY DEF EvidenceNext, StartSession, Kill, CaptureEnvironment, CheckLimits,
   ValidateDatasets, OpenStream, Materialize, WriteStream, Quantize,
   GenerateCandidates, OpenBenchmark, Measure, WorkerFails, SaveDetections,
   SaveOutputs, MarkMeasured, EndLoop, OpenEvaluation, Evaluate,
   OpenCertification, Certify

LEMMA AtIsKept ==
  ASSUME steps' = steps
  PROVE  /\ At("dataset_stream")' <=> At("dataset_stream")
         /\ At("benchmarking")' <=> At("benchmarking")
         /\ At("evaluating_quality")' <=> At("evaluating_quality")
         /\ At("certifying")' <=> At("certifying")
BY DEF At

LEMMA ControlStep ==
  ASSUME Control, EvidenceNext
  PROVE  Control'
<1>1. InOrder'
  BY MarkKeepsOrder, RecordedOnlyByMark DEF Control, InOrder
<1>2. AtItsStep'
  <2>1. CASE Mark
    BY <2>1 DEF Mark, AtItsStep, Inside
  <2>2. CASE steps' = steps
    BY <2>2, AtIsKept DEF Control, AtItsStep, Inside, EvidenceNext, StartSession,
       Mark, Kill, CaptureEnvironment, CheckLimits, ValidateDatasets, OpenStream,
       Materialize, WriteStream, Quantize, GenerateCandidates, OpenBenchmark,
       Measure, WorkerFails, Reject, SaveDetections, SaveOutputs, MarkMeasured,
       EndLoop, OpenEvaluation, Evaluate, OpenCertification, Certify
  <2> QED BY <2>1, <2>2, RecordedOnlyByMark
<1>3. Temperatures'
  BY EvidenceAssumption DEF Control, Temperatures, Captured, EvidenceNext,
     StartSession, Mark, Kill, CaptureEnvironment, CheckLimits, ValidateDatasets,
     OpenStream, Materialize, WriteStream, Quantize, GenerateCandidates,
     OpenBenchmark, Measure, WorkerFails, Reject, SaveDetections, SaveOutputs,
     MarkMeasured, EndLoop, OpenEvaluation, Evaluate, OpenCertification, Certify,
     loopVars
<1> QED BY <1>1, <1>2, <1>3, TypeStep DEF Control

LEMMA ControlHolds == EvidenceSpec => []Control
<1>1. EvidenceInit => Control
  BY EvidenceAssumption DEF EvidenceInit, EvidenceTypeOK, Control, InOrder,
     AtItsStep, Temperatures, Inside
<1>2. Control /\ UNCHANGED evidenceVars => Control'
  BY AtIsKept DEF Control, EvidenceTypeOK, InOrder, AtItsStep, Temperatures,
     evidenceVars, loopVars, inputVars, measuredVars, resultVars
<1> QED BY <1>1, <1>2, ControlStep, PTL DEF EvidenceSpec

------------------------------------------------------------------------------
(* The trials.  Within a benchmark the candidates that are not pending any  *)
(* more have been measured by this session.                                 *)
DriftOk(c) ==
  cfg.maxDrift # Unlimited /\ start # Unavailable =>
    trials[c].drift \in 0..cfg.maxDrift

RowsOk(c) == c \in DOMAIN rows /\ rows[c] = OutputsOf(c)

DetectionsOk(c) == c \in DOMAIN detections /\ detections[c] = DetectionsOf(c)

MeasuredNow(c) ==
  /\ trials[c].session = session /\ status[c] = "measured"
  /\ DriftOk(c) /\ RowsOk(c) /\ DetectionsOk(c)

TrialFields ==
  {"p99", "rss", "registered", "xnnpack", "answers", "session", "drift"}

UnderTest == {"limits", "detections", "rows", "measured"}

Benchmarked ==
  /\ pc \in Inside => \A c \in ToMeasure \ pending : MeasuredNow(c)
  /\ pc = "mark" /\ At("benchmarking") =>
       \A c \in ToMeasure : MeasuredNow(c)

Current ==
  /\ pc \in UnderTest =>
       /\ current \in Candidates /\ current \in pending
       /\ DOMAIN trials[current] = TrialFields
       /\ trials[current].session = session
  /\ pc \in UnderTest \ {"limits"} => DriftOk(current)
  /\ pc \in {"rows", "measured"} => DetectionsOk(current)
  /\ pc = "measured" => RowsOk(current)

Finished ==
  "benchmarking" \in steps =>
    \A c \in ToMeasure : status[c] = "measured"

TrialsInv == Benchmarked /\ Current /\ TrialsAreComparable /\ Finished

Kept == UNCHANGED <<cfg, start, status, trials, detections, rows, stream, files>>

(* What the answers on record are made of does not change.                   *)
LEMMA AnswersAreKept ==
  ASSUME NEW c, UNCHANGED <<cfg, stream, files>>, trials'[c] = trials[c]
  PROVE  OutputsOf(c)' = OutputsOf(c) /\ DetectionsOf(c)' = DetectionsOf(c)
BY DEF OutputsOf, DetectionsOf, AnswerTo, d

LEMMA ComparableIsKept ==
  ASSUME TrialsAreComparable, Kept, steps' = steps
  PROVE  TrialsAreComparable'
BY AnswersAreKept DEF TrialsAreComparable, Recorded, Kept

LEMMA FinishedIsKept ==
  ASSUME Finished, Kept, steps' = steps
  PROVE  Finished'
BY DEF Finished, ToMeasure, Kept

(* A step outside the benchmark. *)
LEMMA ElsewhereKeepsTrials ==
  ASSUME TrialsInv, pc' \notin Inside, steps' = steps,
         pc' = "mark" => ~At("benchmarking")',
         "benchmarking" \in steps => Kept
  PROVE  TrialsInv'
<1>1. TrialsAreComparable'
  BY ComparableIsKept DEF TrialsInv, TrialsAreComparable, Recorded
<1>2. Finished'
  BY FinishedIsKept DEF TrialsInv, Finished
<1> QED BY <1>1, <1>2 DEF TrialsInv, Benchmarked, Current, Inside, UnderTest

(* A step inside the benchmark: nothing is recorded of it yet. *)
LEMMA InsideIsUnrecorded ==
  ASSUME At("benchmarking"), steps' = steps
  PROVE  TrialsAreComparable' /\ Finished'
BY AtMeans DEF TrialsAreComparable, Recorded, Finished

LEMMA MarkKeepsTrials ==
  ASSUME Control, TrialsInv, Mark
  PROVE  TrialsInv'
<1>1. PICK step \in {StepOrder[i] : i \in DOMAIN StepOrder} :
        At(step) /\ steps' = steps \cup {step}
  BY DEF Mark
<1>2. Kept /\ pc = "mark" /\ pc' = "next"
  BY DEF Mark, Kept, loopVars, inputVars, measuredVars
<1>3. TrialsAreComparable'
  <2>1. CASE step = "benchmarking"
    <3>1. \A c \in ToMeasure : MeasuredNow(c)
      BY <1>1, <1>2, <2>1 DEF TrialsInv, Benchmarked
    <3>2. /\ cfg' = cfg /\ start' = start /\ trials' = trials /\ ToMeasure' = ToMeasure
          /\ \A c \in ToMeasure : RowsOk(c)' /\ DetectionsOk(c)'
      BY <1>2, <3>1, AnswersAreKept DEF Kept, ToMeasure, MeasuredNow, RowsOk,
         DetectionsOk
    <3> QED BY <3>1, <3>2 DEF TrialsAreComparable, ToMeasure, MeasuredNow,
            DriftOk, RowsOk, DetectionsOk
  <2>2. CASE step # "benchmarking"
    BY <1>1, <1>2, <2>2, AnswersAreKept
       DEF TrialsInv, TrialsAreComparable, Recorded, Kept
  <2> QED BY <2>1, <2>2
<1>4. Finished'
  <2>1. CASE step = "benchmarking"
    <3>1. \A c \in ToMeasure : MeasuredNow(c)
      BY <1>1, <1>2, <2>1 DEF TrialsInv, Benchmarked
    <3> QED BY <1>2, <3>1 DEF Finished, Kept, ToMeasure, MeasuredNow
  <2>2. CASE step # "benchmarking"
    BY <1>1, <1>2, <2>2 DEF TrialsInv, Finished, ToMeasure, Kept
  <2> QED BY <2>1, <2>2
<1> QED BY <1>2, <1>3, <1>4 DEF TrialsInv, Benchmarked, Current, Inside, UnderTest

LEMMA OpenBenchmarkKeepsTrials ==
  ASSUME Control, TrialsInv, OpenBenchmark
  PROVE  TrialsInv'
<1>1. At("benchmarking") /\ steps' = steps /\ cfg' = cfg
  BY DEF OpenBenchmark
<1>2. TrialsAreComparable' /\ Finished'
  BY <1>1, InsideIsUnrecorded
<1>3. CASE pc' = "idle"
  BY <1>2, <1>3 DEF TrialsInv, Benchmarked, Current, Inside, UnderTest
<1>4. CASE pending' = ToMeasure /\ pc' = "bench"
  <2>1. ToMeasure' = ToMeasure
    BY DEF OpenBenchmark, ToMeasure, measuredVars
  <2>2. Benchmarked'
    BY <1>4, <2>1 DEF Benchmarked
  <2> QED BY <1>2, <1>4, <2>2 DEF TrialsInv, Current, UnderTest
<1> QED BY <1>3, <1>4 DEF OpenBenchmark

(* What has been measured stays so while another candidate is at it. *)
Untouched(c) ==
  /\ trials'[c] = trials[c] /\ status'[c] = status[c]
  /\ c \in DOMAIN rows => c \in DOMAIN rows' /\ rows'[c] = rows[c]
  /\ c \in DOMAIN detections =>
       c \in DOMAIN detections' /\ detections'[c] = detections[c]

LEMMA OthersStayMeasured ==
  ASSUME NEW c, MeasuredNow(c), Untouched(c),
         UNCHANGED <<cfg, session, start, stream, files>>
  PROVE  MeasuredNow(c)'
BY AnswersAreKept DEF MeasuredNow, DriftOk, RowsOk, DetectionsOk, Untouched

LEMMA SavedSpares ==
  ASSUME NEW documents, NEW c, NEW content
  PROVE  /\ c \in DOMAIN Saved(documents, c, content)
         /\ Saved(documents, c, content)[c] = content
         /\ \A b \in DOMAIN documents \ {c} :
              /\ b \in DOMAIN Saved(documents, c, content)
              /\ Saved(documents, c, content)[b] = documents[b]
BY DEF Saved

LEMMA MeasureKeepsTrials ==
  ASSUME Control, TrialsInv, NEW c \in Candidates, NEW report \in Reports,
         Measure(c, report)
  PROVE  TrialsInv'
<1>1. /\ At("benchmarking") /\ steps' = steps /\ pc = "bench" /\ pc' = "limits"
      /\ c \in pending /\ current' = c
      /\ UNCHANGED <<cfg, session, pending, start, stream, files, status,
                    detections, rows>>
  BY DEF Measure, Control, AtItsStep, Inside, inputVars
<1>2. /\ DOMAIN trials'[c] = TrialFields /\ trials'[c].session = session
      /\ \A b \in Candidates \ {c} : trials'[b] = trials[b]
  BY DEF Measure, Control, EvidenceTypeOK, TrialFields
<1>3. Benchmarked'
  <2>1. ToMeasure' = ToMeasure /\ ToMeasure \subseteq Candidates
    BY <1>1 DEF TrialsInv, Benchmarked, Inside, ToMeasure
  <2>2. \A b \in ToMeasure \ pending : MeasuredNow(b)'
    BY <1>1, <1>2, <2>1, OthersStayMeasured
       DEF TrialsInv, Benchmarked, Inside, Untouched
  <2> QED BY <1>1, <2>1, <2>2 DEF Benchmarked
<1>4. Current'
  BY <1>1, <1>2 DEF Current, UnderTest
<1> QED BY <1>1, <1>3, <1>4, InsideIsUnrecorded DEF TrialsInv

LEMMA DistanceIsDrift ==
  ASSUME NEW a \in Int, NEW b \in Int, NEW limit \in Int, ~(Distance(a, b) > limit)
  PROVE  Distance(a, b) \in 0..limit
BY DEF Distance

(* The trial that passes its limits. *)
LEMMA PassedDrift ==
  ASSUME Control, TrialsInv, NEW reading \in Readings, CheckLimits(reading),
         pc' = "detections"
  PROVE  /\ DOMAIN trials'[current] = TrialFields
         /\ trials'[current].session = session
         /\ DriftOk(current)'
         /\ \A b \in Candidates \ {current} : trials'[b] = trials[b]
         /\ status' = status
<1>1. /\ current \in Candidates /\ DOMAIN trials[current] = TrialFields
      /\ trials[current].session = session /\ DOMAIN trials = Candidates
      /\ UNCHANGED <<cfg, start, current>>
  BY DEF CheckLimits, TrialsInv, Current, UnderTest, Control, EvidenceTypeOK, loopVars
<1>2. CASE /\ cfg.maxDrift = Unlimited \/ start = Unavailable
           /\ trials' = trials /\ status' = status
  BY <1>1, <1>2 DEF DriftOk
<1>3. CASE /\ start # Unavailable /\ cfg.maxDrift # Unlimited
           /\ reading.celsius # Unavailable
           /\ ~(Distance(reading.celsius, start) > cfg.maxDrift)
           /\ trials' = [trials EXCEPT ![current].drift =
                            Distance(reading.celsius, start)]
           /\ status' = status
  <2> DEFINE drift == Distance(reading.celsius, start)
             trial == [trials[current] EXCEPT !.drift = drift]
  <2>1. drift \in 0..cfg.maxDrift
    BY <1>3, DistanceIsDrift, EvidenceAssumption DEF Control, Temperatures,
       EvidenceTypeOK
  <2>2. /\ DOMAIN trial = TrialFields /\ trial.session = session
        /\ trial.drift = drift
    BY <1>1 DEF TrialFields
  <2>3. trials' = [trials EXCEPT ![current] = trial]
    BY <1>3
  <2> HIDE DEF trial, drift
  <2>4. trials'[current] = trial
        /\ \A b \in Candidates \ {current} : trials'[b] = trials[b]
    BY <1>1, <2>3
  <2> QED BY <1>1, <1>3, <2>1, <2>2, <2>4 DEF DriftOk
<1> QED BY <1>2, <1>3 DEF CheckLimits, Reject

LEMMA CheckLimitsKeepsTrials ==
  ASSUME Control, TrialsInv, NEW reading \in Readings, CheckLimits(reading)
  PROVE  TrialsInv'
<1>1. /\ At("benchmarking") /\ steps' = steps /\ pc = "limits"
      /\ current \in Candidates /\ current \in pending
      /\ UNCHANGED <<cfg, session, current, pending, start, stream, files,
                    detections, rows>>
  BY DEF CheckLimits, Control, AtItsStep, Inside, TrialsInv, Current, UnderTest,
     loopVars, inputVars
<1>2. TrialsAreComparable' /\ Finished'
  BY <1>1, InsideIsUnrecorded
<1>3. CASE pc' = "idle"
  BY <1>2, <1>3 DEF TrialsInv, Benchmarked, Current, Inside, UnderTest
<1>4. CASE pc' = "detections"
  <2>1. ToMeasure' = ToMeasure /\ ToMeasure \subseteq Candidates
    BY <1>1, <1>4, PassedDrift DEF TrialsInv, Benchmarked, Inside, ToMeasure
  <2>2. \A b \in ToMeasure \ pending : MeasuredNow(b)'
    BY <1>1, <1>4, <2>1, PassedDrift, OthersStayMeasured
       DEF TrialsInv, Benchmarked, Inside, Untouched
  <2>3. Benchmarked'
    BY <1>1, <1>4, <2>1, <2>2 DEF Benchmarked
  <2>4. Current'
    BY <1>1, <1>4, PassedDrift DEF Current, UnderTest, DriftOk
  <2> QED BY <1>2, <2>3, <2>4 DEF TrialsInv
<1> QED BY <1>3, <1>4 DEF CheckLimits, Reject

LEMMA SavesKeepTrials ==
  ASSUME Control, TrialsInv, SaveDetections \/ SaveOutputs
  PROVE  TrialsInv'
<1>1. /\ At("benchmarking") /\ steps' = steps /\ pc \in {"detections", "rows"}
      /\ pc' = IF pc = "detections" THEN "rows" ELSE "measured"
      /\ current \in Candidates /\ current \in pending
      /\ UNCHANGED <<cfg, session, current, pending, start, stream, files, status,
                    trials>>
  BY DEF SaveDetections, SaveOutputs, Control, AtItsStep, Inside, TrialsInv,
     Current, UnderTest, loopVars, inputVars
<1>2. /\ \A b \in Candidates \ {current} : Untouched(b)
      /\ pc' = "measured" => RowsOk(current)' /\ DetectionsOk(current)'
      /\ pc' = "rows" => DetectionsOk(current)'
  <2>1. /\ OutputsOf(current)' = OutputsOf(current)
        /\ DetectionsOf(current)' = DetectionsOf(current)
    BY <1>1, AnswersAreKept
  <2>2. CASE SaveDetections
    <3>1. /\ detections' = Saved(detections, current, DetectionsOf(current))
          /\ rows' = rows /\ pc' = "rows"
      BY <2>2 DEF SaveDetections
    <3> QED BY <1>1, <2>1, <3>1, SavedSpares DEF DetectionsOk, Untouched
  <2>3. CASE SaveOutputs
    <3>1. /\ rows' = Saved(rows, current, OutputsOf(current))
          /\ detections' = detections /\ pc = "rows" /\ pc' = "measured"
      BY <2>3 DEF SaveOutputs
    <3>2. DetectionsOk(current)
      BY <3>1 DEF TrialsInv, Current
    <3> QED BY <1>1, <2>1, <3>1, <3>2, SavedSpares DEF DetectionsOk, RowsOk, Untouched
  <2> QED BY <2>2, <2>3
<1>3. ToMeasure' = ToMeasure /\ ToMeasure \subseteq Candidates
  BY <1>1 DEF TrialsInv, Benchmarked, Inside, ToMeasure
<1>4. \A b \in ToMeasure \ pending : MeasuredNow(b)'
  BY <1>1, <1>2, <1>3, OthersStayMeasured DEF TrialsInv, Benchmarked, Inside
<1>5. Benchmarked'
  BY <1>1, <1>3, <1>4 DEF Benchmarked
<1>6. Current'
  BY <1>1, <1>2 DEF TrialsInv, Current, UnderTest, DriftOk
<1> QED BY <1>1, <1>5, <1>6, InsideIsUnrecorded DEF TrialsInv

LEMMA MarkMeasuredKeepsTrials ==
  ASSUME Control, TrialsInv, MarkMeasured
  PROVE  TrialsInv'
<1>1. /\ At("benchmarking") /\ steps' = steps /\ pc = "measured" /\ pc' = "bench"
      /\ UNCHANGED <<cfg, session, start, stream, files, trials, detections, rows>>
  BY DEF MarkMeasured, Control, AtItsStep, Inside, inputVars
<1>2. /\ pending' = pending \ {current} /\ current \in Candidates
      /\ status'[current] = "measured"
      /\ \A b \in Candidates \ {current} : status'[b] = status[b]
      /\ ToMeasure' \ {current} \subseteq ToMeasure
  BY DEF MarkMeasured, Control, EvidenceTypeOK, TrialsInv, Current, UnderTest,
     ToMeasure
<1>3. \A b \in ToMeasure' \ pending' : MeasuredNow(b)'
  <2>1. ASSUME NEW b, b = current PROVE MeasuredNow(b)'
    <3>1. trials[b].session = session /\ DriftOk(b) /\ RowsOk(b) /\ DetectionsOk(b)
      BY <1>1, <2>1 DEF TrialsInv, Current, UnderTest
    <3>2. status'[b] = "measured" /\ trials' = trials
      BY <1>1, <1>2, <2>1
    <3> QED BY <1>1, <3>1, <3>2, AnswersAreKept DEF MeasuredNow, DriftOk, RowsOk,
            DetectionsOk
  <2>2. ASSUME NEW b \in ToMeasure' \ pending', b # current
        PROVE  MeasuredNow(b)'
    <3>1. b \in ToMeasure \ pending /\ b \in Candidates
      BY <1>2, <2>2 DEF ToMeasure
    <3>2. MeasuredNow(b)
      BY <1>1, <3>1 DEF TrialsInv, Benchmarked, Inside
    <3>3. Untouched(b)
      BY <1>1, <1>2, <2>2, <3>1 DEF Untouched
    <3> QED BY <1>1, <3>2, <3>3, OthersStayMeasured
  <2> QED BY <2>1, <2>2
<1>4. Benchmarked' /\ Current'
  BY <1>1, <1>3 DEF Benchmarked, Current, UnderTest
<1> QED BY <1>1, <1>4, InsideIsUnrecorded DEF TrialsInv

LEMMA EndLoopKeepsTrials ==
  ASSUME Control, TrialsInv, EndLoop
  PROVE  TrialsInv'
<1>1. /\ steps' = steps /\ Kept /\ pc' = "mark" /\ pending = {} /\ session' = session
      /\ pc \in {"bench", "evaluate", "certify"}
  BY DEF EndLoop, Kept, loopVars, inputVars, measuredVars
<1>2. TrialsAreComparable'
  BY <1>1, ComparableIsKept DEF TrialsInv
<1>3. Finished'
  BY <1>1, FinishedIsKept DEF TrialsInv
<1>4. ASSUME At("benchmarking")'
      PROVE  (\A c \in ToMeasure : MeasuredNow(c))'
  <2>1. pc = "bench"
    BY <1>1, <1>4, AtIsKept, AtMeans DEF Control, AtItsStep
  <2>2. \A c \in ToMeasure : MeasuredNow(c)
    BY <1>1, <2>1 DEF TrialsInv, Benchmarked, Inside
  <2>3. ToMeasure' = ToMeasure
    BY <1>1, <2>2 DEF Kept, ToMeasure
  <2>4. \A c \in ToMeasure : MeasuredNow(c)'
    BY <1>1, <2>2, OthersStayMeasured DEF Kept, Untouched
  <2> QED BY <2>3, <2>4
<1> QED BY <1>1, <1>2, <1>3, <1>4 DEF TrialsInv, Benchmarked, Current, Inside, UnderTest

(* The steps before the benchmark write what it measures, those after it do *)
(* not.                                                                     *)
LEMMA OtherStepsKeepTrials ==
  ASSUME Control, TrialsInv,
         \/ StartSession \/ Kill \/ ValidateDatasets \/ OpenStream \/ Materialize
         \/ WriteStream \/ Quantize \/ GenerateCandidates \/ OpenEvaluation
         \/ Evaluate \/ OpenCertification \/ Certify
         \/ \E reading \in Readings : CaptureEnvironment(reading)
         \/ \E c \in Candidates : WorkerFails(c)
  PROVE  TrialsInv'
<1> USE DEF StartSession, Kill, ValidateDatasets, OpenStream, Materialize,
        WriteStream, Quantize, GenerateCandidates, OpenEvaluation, Evaluate,
        OpenCertification, Certify, CaptureEnvironment, WorkerFails, Reject
<1>1. steps' = steps /\ pc' \notin Inside
  BY DEF Inside
<1>2. pc' = "mark" => ~At("benchmarking")'
  BY <1>1, AtIsKept, AtMeans DEF Control, AtItsStep
<1>3. "benchmarking" \in steps => Kept
  BY AtMeans DEF Control, InOrder, AtItsStep, Inside, Kept, loopVars, inputVars,
     measuredVars
<1> QED BY <1>1, <1>2, <1>3, ElsewhereKeepsTrials

LEMMA TrialsInvHolds == EvidenceSpec => []TrialsInv
<1>1. EvidenceInit => TrialsInv
  BY DEF EvidenceInit, TrialsInv, Benchmarked, Current, TrialsAreComparable,
     Finished, Recorded, Inside, UnderTest
<1>2. Control /\ TrialsInv /\ EvidenceNext => TrialsInv'
  BY MarkKeepsTrials, OpenBenchmarkKeepsTrials, MeasureKeepsTrials,
     CheckLimitsKeepsTrials, SavesKeepTrials, MarkMeasuredKeepsTrials,
     EndLoopKeepsTrials, OtherStepsKeepTrials DEF EvidenceNext
<1>3. TrialsInv /\ UNCHANGED evidenceVars => TrialsInv'
  BY AnswersAreKept DEF TrialsInv, Benchmarked, Current, TrialsAreComparable,
     Finished, Recorded, ToMeasure, MeasuredNow, DriftOk, RowsOk,
     DetectionsOk, At, evidenceVars, loopVars, inputVars, measuredVars, resultVars
<1> QED BY <1>1, <1>2, <1>3, ControlHolds, PTL DEF EvidenceSpec

(* Whatever sessions failed or were killed half-way through a benchmark, the *)
(* trials that are recorded are of one session, within the drift allowed of  *)
(* the temperature it had on record, and the outputs and detections to grade *)
(* are theirs.                                                               *)
THEOREM TrialsAreAlwaysComparable == EvidenceSpec => []TrialsAreComparable
BY TrialsInvHolds, PTL DEF TrialsInv

------------------------------------------------------------------------------
(* The datasets.  Entries and files of the calibration split show contents  *)
(* of that split.                                                           *)
LEMMA Joined ==
  ASSUME NEW S, NEW T, NEW s \in Seq(S), NEW t \in Seq(T), NEW k \in DOMAIN (s \o t)
  PROVE  \/ k \in 1..Len(s) /\ (s \o t)[k] = s[k]
         \/ k \in Nat /\ k - Len(s) \in 1..Len(t) /\ (s \o t)[k] = t[k - Len(s)]
OBVIOUS

LEMMA DatasetType ==
  ASSUME Control
  PROVE  /\ d.calib \in Seq(Range(d.calib)) /\ d.eval \in Seq(Range(d.eval))
         /\ d.measured \in Nat
         /\ Items(d) \in Seq(Range(d.calib) \cup Range(d.eval))
         /\ Len(Items(d)) = Len(d.calib) + Len(d.eval)
<1>1. /\ d.calib \in Seq(Range(d.calib)) /\ d.eval \in Seq(Range(d.eval))
      /\ d.measured \in Nat
  BY EvidenceAssumption DEF Control, EvidenceTypeOK, d
<1> HIDE DEF d
<1> QED BY <1>1 DEF Items

LEMMA CalibrationItem ==
  ASSUME Control, NEW k \in 1..Len(Items(d)), RoleOf(d, k) = "calib"
  PROVE  Items(d)[k].content \in Contents(d.calib)
<1>1. k \in 1..Len(d.calib)
  BY DatasetType DEF RoleOf
<1>2. Items(d)[k] = d.calib[k]
  BY <1>1, DatasetType DEF Items
<1> QED BY <1>1, <1>2, DatasetType DEF Contents

(* An entry for calibration is the entry of an item of that split: the      *)
(* repetitions are of the other one.                                        *)
LEMMA CalibrationEntry ==
  ASSUME Control, NEW k \in DOMAIN StreamOf(d), StreamOf(d)[k].role = "calib"
  PROVE  \E j \in 1..Len(Items(d)) :
           RoleOf(d, j) = "calib" /\ StreamOf(d)[k].path = PathOf(d, j)
<1> DEFINE n == Needed(d)
           entries == Entries(d)
           repeated == [i \in 1..n |-> Repetition(d, i)]
<1>1. n \in Nat /\ (n > 0 => Len(d.eval) > 0)
  BY DatasetType DEF Needed
<1>2. entries \in Seq(Range(entries)) /\ Len(entries) = Len(Items(d))
  <2> DEFINE m == Len(Items(d))
             entry(x) == EntryOf(d, x)
  <2>1. m \in Nat
    BY DatasetType
  <2>2. entries = [x \in 1..m |-> entry(x)]
    BY DEF Entries
  <2> HIDE DEF m, entry, entries
  <2>3. entries \in Seq(Range(entries)) /\ Len(entries) = m
    BY <2>1, <2>2 DEF Range
  <2> QED BY <2>3 DEF m
<1>3. repeated \in Seq(Range(repeated)) /\ Len(repeated) = n
  BY <1>1 DEF Range
<1>4. StreamOf(d) = entries \o repeated
  BY DEF StreamOf
<1>5. \A j \in 1..Len(Items(d)) :
        entries[j].role = RoleOf(d, j) /\ entries[j].path = PathOf(d, j)
  BY DEF Entries, EntryOf
<1>6. \A i \in 1..n : repeated[i].role = "eval"
  <2> SUFFICES ASSUME NEW i \in 1..n PROVE Repetition(d, i).role = "eval"
    OBVIOUS
  <2> DEFINE within == (i - 1) % Len(d.eval)
             j == Len(d.calib) + within + 1
  <2>1. Len(d.calib) \in Nat /\ Len(d.eval) \in Nat \ {0} /\ i \in Int
    BY <1>1, DatasetType
  <2>2. within \in Nat
    <3> DEFINE m == Len(d.eval)  before == i - 1
    <3>1. m \in Nat \ {0} /\ before \in Int
      BY <2>1
    <3> HIDE DEF m, before
    <3>2. before % m \in Nat
      BY <3>1
    <3> QED BY <3>2 DEF m, before
  <2>3. Repetition(d, i).role = EntryOf(d, j).role
    BY DEF Repetition, EntryOf
  <2> HIDE DEF within
  <2>4. j \in Int /\ ~(j <= Len(d.calib))
    <3> DEFINE c == Len(d.calib)
    <3>1. c \in Nat /\ j = c + within + 1
      BY <2>1
    <3> HIDE DEF c, j
    <3> QED BY <2>2, <3>1 DEF c
  <2> HIDE DEF j
  <2> QED BY <2>3, <2>4 DEF EntryOf, RoleOf
<1> HIDE DEF n, entries, repeated
<1>7. CASE k \in 1..Len(entries) /\ (entries \o repeated)[k] = entries[k]
  BY <1>2, <1>4, <1>5, <1>7
<1>8. CASE k - Len(entries) \in 1..Len(repeated)
           /\ (entries \o repeated)[k] = repeated[k - Len(entries)]
  BY <1>3, <1>4, <1>6, <1>8
<1> QED BY <1>2, <1>3, <1>4, <1>7, <1>8, Joined

------------------------------------------------------------------------------
(* What is on record of the inputs.                                         *)
OnDisk(k) == PathOf(d, k) \in DOMAIN files

FilesOk ==
  \A path \in DOMAIN files :
    path[1] = "calib" => files[path] \in Contents(d.calib)

StreamOk ==
  \A k \in DOMAIN stream :
    stream[k].role = "calib" =>
      stream[k].path \in DOMAIN files /\ stream[k].path[1] = "calib"

AdmittedOk ==
  "datasets" \in steps \/ (pc = "mark" /\ At("datasets")) => Admitted(d)

MaterializedOk ==
  pc = "items" =>
    /\ pending \subseteq 1..Len(Items(d))
    /\ \A k \in 1..Len(Items(d)) : k \in pending \/ OnDisk(k)

CalibratedOk ==
  /\ calibrated \subseteq Contents(d.calib)
  /\ calibrated # {} => "datasets" \in steps

InputsInv == FilesOk /\ StreamOk /\ AdmittedOk /\ MaterializedOk /\ CalibratedOk

(* A set of numbers that is not empty has a least one.                      *)
Less == {pair \in Nat \X Nat : pair[1] < pair[2]}

LEMMA LessIsWellFounded == IsWellFoundedOn(Less, Nat)
BY NatLessThanWellFounded DEF OpToRel, Less

LEMMA MinIsMember ==
  ASSUME NEW S \in SUBSET Nat, S # {}
  PROVE  Min(S) \in S
<1>1. PICK m \in S : \A n \in S : ~(<<n, m>> \in Less)
  BY LessIsWellFounded, WFMin
<1>2. ASSUME NEW n \in S PROVE m <= n
  <2>1. m \in Nat /\ n \in Nat
    OBVIOUS
  <2>2. ~(n < m)
    BY <1>1, <2>1 DEF Less
  <2> QED BY <2>1, <2>2
<1> QED BY <1>2 DEF Min

LEMMA MaterializeKeepsInputs ==
  ASSUME Control, InputsInv, Materialize
  PROVE  InputsInv'
<1>1. UNCHANGED <<steps, stream, calibrated, cfg>> /\ pc' # "mark" /\ pc = "items"
  BY DEF Materialize
<1>2. d' = d
  BY <1>1 DEF d
<1> HIDE DEF d
<1>3. AdmittedOk' /\ CalibratedOk'
  BY <1>1, <1>2 DEF InputsInv, AdmittedOk, CalibratedOk
<1>4. CASE pc' = "idle" /\ files' = files
  BY <1>1, <1>2, <1>3, <1>4 DEF InputsInv, FilesOk, StreamOk, MaterializedOk
<1>5. CASE /\ files' = Materialized(files, d, Min(pending))
           /\ pending' = pending \ {Min(pending)}
  <2> DEFINE k == Min(pending)
  <2>1. k \in pending /\ k \in 1..Len(Items(d))
    BY <1>1, MinIsMember DEF Materialize, InputsInv, MaterializedOk, Control,
       EvidenceTypeOK
  <2> HIDE DEF k
  <2>2. files' = Materialized(files, d, k) /\ pending' = pending \ {k}
    BY <1>5 DEF k
  <2>3. /\ DOMAIN files' = DOMAIN files \cup {PathOf(d, k)}
        /\ files'[PathOf(d, k)] = Items(d)[k].content
        /\ \A path \in DOMAIN files \ {PathOf(d, k)} : files'[path] = files[path]
    BY <2>2 DEF Materialized
  <2>4. PathOf(d, k)[1] = RoleOf(d, k)
    BY DEF PathOf
  <2>5. FilesOk'
    BY <1>2, <2>1, <2>3, <2>4, CalibrationItem DEF InputsInv, FilesOk
  <2>6. StreamOk'
    BY <1>1, <2>3 DEF InputsInv, StreamOk
  <2>7. MaterializedOk'
    BY <1>1, <1>2, <2>2, <2>3 DEF InputsInv, MaterializedOk, OnDisk
  <2> QED BY <1>3, <2>5, <2>6, <2>7 DEF InputsInv
<1> QED BY <1>4, <1>5 DEF Materialize

LEMMA WriteStreamKeepsInputs ==
  ASSUME Control, InputsInv, WriteStream
  PROVE  InputsInv'
<1>1. /\ UNCHANGED <<steps, files, calibrated, cfg>> /\ pc = "items" /\ pending = {}
      /\ pc' # "items" /\ At("dataset_stream")
      /\ stream' = stream \/ stream' = StreamOf(d)
  BY DEF WriteStream, Control, AtItsStep
<1>2. d' = d
  BY <1>1 DEF d
<1>3. "datasets" \in steps
  BY <1>1, AtMeans
<1> HIDE DEF d
<1>4. FilesOk' /\ AdmittedOk' /\ MaterializedOk' /\ CalibratedOk'
  BY <1>1, <1>2, <1>3 DEF InputsInv, FilesOk, AdmittedOk, MaterializedOk, CalibratedOk
<1>5. ASSUME NEW k \in DOMAIN StreamOf(d), StreamOf(d)[k].role = "calib"
      PROVE  /\ StreamOf(d)[k].path \in DOMAIN files
             /\ StreamOf(d)[k].path[1] = "calib"
  <2>1. PICK j \in 1..Len(Items(d)) :
          RoleOf(d, j) = "calib" /\ StreamOf(d)[k].path = PathOf(d, j)
    BY <1>5, CalibrationEntry
  <2>2. OnDisk(j)
    BY <1>1 DEF InputsInv, MaterializedOk
  <2> QED BY <2>1, <2>2 DEF OnDisk, PathOf
<1>6. StreamOk'
  BY <1>1, <1>5 DEF InputsInv, StreamOk
<1> QED BY <1>4, <1>6 DEF InputsInv

LEMMA QuantizeKeepsInputs ==
  ASSUME Control, InputsInv, Quantize
  PROVE  InputsInv'
<1>1. /\ UNCHANGED <<steps, files, stream, cfg>> /\ pc' # "items"
      /\ At("quantization")
      /\ \/ calibrated' = calibrated
         \/ calibrated' = {files[stream[k].path] : k \in CalibrationEntries}
  BY DEF Quantize
<1>2. d' = d
  BY <1>1 DEF d
<1>3. "datasets" \in steps
  BY <1>1, AtMeans
<1> HIDE DEF d
<1>4. FilesOk' /\ StreamOk' /\ AdmittedOk' /\ MaterializedOk'
  BY <1>1, <1>2, <1>3 DEF InputsInv, FilesOk, StreamOk, AdmittedOk, MaterializedOk
<1>5. ASSUME NEW k \in CalibrationEntries
      PROVE  files[stream[k].path] \in Contents(d.calib)
  BY DEF CalibrationEntries, OfRole, InputsInv, StreamOk, FilesOk
<1>6. CalibratedOk'
  BY <1>1, <1>2, <1>3, <1>5 DEF InputsInv, CalibratedOk
<1> QED BY <1>4, <1>6 DEF InputsInv

LEMMA StepsKeepInputs ==
  ASSUME Control, InputsInv, Mark \/ ValidateDatasets \/ OpenStream
  PROVE  InputsInv'
<1>1. UNCHANGED <<files, stream, calibrated, cfg>>
  BY DEF Mark, ValidateDatasets, OpenStream, inputVars
<1>2. d' = d
  BY <1>1 DEF d
<1> HIDE DEF d
<1>3. FilesOk' /\ StreamOk'
  BY <1>1, <1>2 DEF InputsInv, FilesOk, StreamOk
<1>4. CASE Mark
  <2>1. PICK step \in {StepOrder[i] : i \in DOMAIN StepOrder} :
          At(step) /\ steps' = steps \cup {step}
    BY <1>4 DEF Mark
  <2>2. pc = "mark" /\ pc' = "next"
    BY <1>4 DEF Mark
  <2>3. AdmittedOk'
    BY <1>2, <2>1, <2>2 DEF InputsInv, AdmittedOk
  <2> QED BY <1>1, <1>2, <1>3, <2>1, <2>2, <2>3
          DEF InputsInv, MaterializedOk, CalibratedOk
<1>5. CASE ValidateDatasets
  BY <1>1, <1>2, <1>3, <1>5, AtMeans DEF ValidateDatasets, InputsInv, AdmittedOk,
     MaterializedOk, CalibratedOk
<1>6. CASE OpenStream
  BY <1>1, <1>2, <1>3, <1>6 DEF OpenStream, InputsInv, AdmittedOk,
     MaterializedOk, CalibratedOk
<1> QED BY <1>4, <1>5, <1>6

LEMMA OthersKeepInputs ==
  ASSUME Control, InputsInv, UNCHANGED <<files, stream, calibrated, cfg, steps>>,
         pc' # "items" \/ UNCHANGED <<pc, pending>>,
         pc' = "mark" /\ At("datasets") => pc = "mark"
  PROVE  InputsInv'
<1>1. d' = d
  BY DEF d
<1>2. At("datasets")' <=> At("datasets")
  BY DEF At
<1> HIDE DEF d
<1> QED BY <1>1, <1>2 DEF InputsInv, FilesOk, StreamOk, AdmittedOk, MaterializedOk,
        OnDisk, CalibratedOk

LEMMA RestKeepsInputs ==
  ASSUME Control, InputsInv, EvidenceNext,
         ~Mark, ~ValidateDatasets, ~OpenStream, ~Materialize, ~WriteStream, ~Quantize
  PROVE  InputsInv'
<1> USE DEF EvidenceNext, StartSession, Kill, CaptureEnvironment, CheckLimits,
        GenerateCandidates, OpenBenchmark, Measure, WorkerFails, Reject,
        SaveDetections, SaveOutputs, MarkMeasured, EndLoop, OpenEvaluation,
        Evaluate, OpenCertification, Certify
<1>1. UNCHANGED <<files, stream, calibrated, cfg, steps>>
  BY DEF inputVars
<1>2. pc' # "items"
  BY DEF Control, AtItsStep, Inside
<1>3. pc' = "mark" => ~At("datasets")
  BY AtMeans DEF Control, AtItsStep, Inside
<1> QED BY <1>1, <1>2, <1>3, OthersKeepInputs

LEMMA InputsInvHolds == EvidenceSpec => []InputsInv
<1>1. EvidenceInit => InputsInv
  BY DEF EvidenceInit, InputsInv, FilesOk, StreamOk, AdmittedOk, MaterializedOk,
     CalibratedOk
<1>2. Control /\ InputsInv /\ EvidenceNext => InputsInv'
  BY MaterializeKeepsInputs, WriteStreamKeepsInputs, QuantizeKeepsInputs,
     StepsKeepInputs, RestKeepsInputs
<1>3. Control /\ InputsInv /\ UNCHANGED evidenceVars => InputsInv'
  BY OthersKeepInputs DEF evidenceVars, loopVars, inputVars
<1> QED BY <1>1, <1>2, <1>3, ControlHolds, PTL DEF EvidenceSpec

(* Where duplicates are prohibited, no quantized model is calibrated on what *)
(* the evaluation shows: nothing on the way from the manifests through       *)
(* files, stream, repetitions and repeated steps mixes the splits.           *)
THEOREM CalibrationIsAlwaysSeparate == EvidenceSpec => []CalibrationIsSeparate
<1>1. InputsInv => CalibrationIsSeparate
  BY DEF InputsInv, AdmittedOk, Admitted, Isolated, CalibratedOk,
     CalibrationIsSeparate
<1> QED BY <1>1, InputsInvHolds, PTL
------------------------------------------------------------------------------
(* The stream that is on record is the dataset's, and where the images of   *)
(* the evaluation set have file names of their own, each file shows its     *)
(* image: what a killed session had written is written again.               *)
NamesDiffer == IsInjective([k \in DOMAIN d.eval |-> FileName[EvalId(d, k)]])

EvalPath(k) == <<"eval", FileName[EvalId(d, k)]>>

Shown(k) == EvalPath(k) \in DOMAIN files /\ files[EvalPath(k)] = d.eval[k].content

StreamWritten == "dataset_stream" \in steps \/ (pc = "mark" /\ At("dataset_stream"))

StreamInv ==
  /\ pc = "items" /\ NamesDiffer =>
       \A k \in DOMAIN d.eval : Len(d.calib) + k \in pending \/ Shown(k)
  /\ StreamWritten => /\ stream = StreamOf(d)
                      /\ NamesDiffer => \A k \in DOMAIN d.eval : Shown(k)

LEMMA Lengths ==
  ASSUME NEW S, NEW s \in Seq(S)
  PROVE  Len(s) \in Nat /\ DOMAIN s = 1..Len(s)
OBVIOUS

LEMMA SplitLengths ==
  ASSUME Control
  PROVE  /\ Len(d.calib) \in Nat /\ Len(d.eval) \in Nat
         /\ DOMAIN d.eval = 1..Len(d.eval)
         /\ Len(Items(d)) = Len(d.calib) + Len(d.eval)
BY DatasetType, Lengths

(* The items of the evaluation set come after those for calibration.         *)
LEMMA EvalItem ==
  ASSUME Control, NEW k \in DOMAIN d.eval
  PROVE  /\ k \in 1..Len(d.eval)
         /\ Len(d.calib) + k \in 1..Len(Items(d))
         /\ Items(d)[Len(d.calib) + k] = d.eval[k]
         /\ RoleOf(d, Len(d.calib) + k) = "eval"
         /\ SampleId(d, Len(d.calib) + k) = EvalId(d, k)
         /\ PathOf(d, Len(d.calib) + k) = EvalPath(k)
<1>1. /\ d.calib \in Seq(Range(d.calib)) /\ d.eval \in Seq(Range(d.eval))
      /\ Len(Items(d)) = Len(d.calib) + Len(d.eval)
  BY DatasetType
<1> DEFINE m == Len(d.calib)
           n == Len(d.eval)
           j == m + k
<1>2. m \in Nat /\ n \in Nat /\ k \in 1..n /\ Len(Items(d)) = m + n
  BY SplitLengths
<1> HIDE DEF m, n
<1>3. k \in 1..n /\ m \in Nat /\ j \in 1..Len(Items(d)) /\ ~(j <= m) /\ j - m = k
  BY <1>2
<1> USE DEF m, n
<1>4. Items(d)[j] = d.eval[k]
  BY <1>1, <1>3 DEF Items
<1>5. RoleOf(d, j) = "eval"
  BY <1>3 DEF RoleOf
<1>6. SampleId(d, j) = EvalId(d, k)
  BY <1>3 DEF SampleId
<1>7. PathOf(d, j) = EvalPath(k)
  BY <1>5, <1>6 DEF PathOf, EvalPath
<1> QED BY <1>3, <1>4, <1>5, <1>6, <1>7

LEMMA EvalPosition ==
  ASSUME Control, NEW j \in 1..Len(Items(d)), RoleOf(d, j) = "eval"
  PROVE  \E k \in DOMAIN d.eval : j = Len(d.calib) + k
<1> DEFINE m == Len(d.calib)
           n == Len(d.eval)
<1>1. m \in Nat /\ n \in Nat /\ DOMAIN d.eval = 1..n /\ j \in 1..(m + n)
  BY SplitLengths
<1>2. ~(j <= m)
  BY DEF RoleOf
<1> HIDE DEF m, n
<1>3. j - m \in 1..n /\ j = m + (j - m)
  BY <1>1, <1>2
<1> QED BY <1>1, <1>3 DEF m

LEMMA OthersKeepStream ==
  ASSUME StreamInv, UNCHANGED <<files, stream, cfg>>,
         pc' # "items" \/ UNCHANGED <<pc, pending>>,
         StreamWritten' => StreamWritten
  PROVE  StreamInv'
<1>1. d' = d
  BY DEF d
<1> HIDE DEF d
<1>2. /\ NamesDiffer' <=> NamesDiffer
      /\ \A k : Shown(k)' <=> Shown(k)
  BY <1>1 DEF NamesDiffer, Shown, EvalPath
<1>3. pc' = "items" /\ NamesDiffer' =>
        \A k \in DOMAIN d'.eval : Len(d'.calib) + k \in pending' \/ Shown(k)'
  BY <1>1, <1>2 DEF StreamInv
<1>4. StreamWritten' => /\ stream' = StreamOf(d')
                        /\ NamesDiffer' => \A k \in DOMAIN d'.eval : Shown(k)'
  BY <1>1, <1>2 DEF StreamInv
<1> QED BY <1>3, <1>4 DEF StreamInv

(* A later image takes the file of an earlier one only if they share their   *)
(* name.                                                                     *)
LEMMA MaterializeKeepsStream ==
  ASSUME Control, InputsInv, StreamInv, Materialize
  PROVE  StreamInv'
<1>1. /\ UNCHANGED <<steps, stream, cfg>> /\ pc' # "mark" /\ pc = "items"
      /\ At("dataset_stream") /\ "dataset_stream" \notin steps
  BY AtMeans DEF Materialize, Control, AtItsStep
<1>2. d' = d
  BY <1>1 DEF d
<1> HIDE DEF d
<1>3. ~StreamWritten'
  BY <1>1 DEF StreamWritten
<1>4. CASE pc' = "idle"
  BY <1>3, <1>4 DEF StreamInv
<1>5. CASE /\ files' = Materialized(files, d, Min(pending))
           /\ pending' = pending \ {Min(pending)}
  <2> DEFINE j == Min(pending)
  <2>1. j \in pending /\ j \in 1..Len(Items(d))
    BY <1>1, MinIsMember DEF Materialize, InputsInv, MaterializedOk, Control,
       EvidenceTypeOK
  <2> HIDE DEF j
  <2>2. files' = Materialized(files, d, j) /\ pending' = pending \ {j}
    BY <1>5 DEF j
  <2>3. /\ DOMAIN files' = DOMAIN files \cup {PathOf(d, j)}
        /\ files'[PathOf(d, j)] = Items(d)[j].content
        /\ \A path \in DOMAIN files \ {PathOf(d, j)} : files'[path] = files[path]
    BY <2>2 DEF Materialized
  <2>4. ASSUME NamesDiffer, NEW k \in DOMAIN d.eval, Len(d.calib) + k \notin pending'
        PROVE  EvalPath(k) \in DOMAIN files' /\ files'[EvalPath(k)] = d.eval[k].content
    <3>1. CASE Len(d.calib) + k = j
      BY <2>3, <3>1, EvalItem
    <3>2. CASE Len(d.calib) + k # j
      <4>1. Shown(k)
        BY <1>1, <2>2, <2>4, <3>2 DEF StreamInv
      <4>2. EvalPath(k) # PathOf(d, j)
        <5> SUFFICES ASSUME EvalPath(k) = PathOf(d, j) PROVE FALSE
          OBVIOUS
        <5>1. RoleOf(d, j) = "eval"
          BY DEF EvalPath, PathOf
        <5>2. PICK i \in DOMAIN d.eval : j = Len(d.calib) + i
          BY <2>1, <5>1, EvalPosition
        <5>3. EvalPath(i) = EvalPath(k)
          BY <5>2, EvalItem
        <5>4. FileName[EvalId(d, i)] = FileName[EvalId(d, k)]
          BY <5>3 DEF EvalPath
        <5>5. i = k
          BY <2>4, <5>4 DEF NamesDiffer, IsInjective
        <5> QED BY <3>2, <5>2, <5>5
      <4> QED BY <2>3, <4>1, <4>2 DEF Shown
    <3> QED BY <3>1, <3>2
  <2>5. NamesDiffer' <=> NamesDiffer
    BY <1>2 DEF NamesDiffer
  <2>6. \A k : Shown(k)' <=> /\ EvalPath(k) \in DOMAIN files'
                             /\ files'[EvalPath(k)] = d.eval[k].content
    BY <1>2 DEF Shown, EvalPath
  <2> QED BY <1>2, <1>3, <2>4, <2>5, <2>6 DEF StreamInv
<1> QED BY <1>4, <1>5 DEF Materialize

LEMMA WriteStreamKeepsStream ==
  ASSUME Control, StreamInv, WriteStream
  PROVE  StreamInv'
<1>1. /\ UNCHANGED <<steps, files, cfg>> /\ pc = "items" /\ pending = {}
      /\ pc' \in {"idle", "mark"} /\ "dataset_stream" \notin steps
      /\ pc' = "mark" => stream' = StreamOf(d)
  BY AtMeans DEF WriteStream, Control, AtItsStep
<1>2. d' = d
  BY <1>1 DEF d
<1> HIDE DEF d
<1>3. NamesDiffer => \A k \in DOMAIN d.eval : Shown(k)
  BY <1>1 DEF StreamInv
<1>4. /\ NamesDiffer' <=> NamesDiffer
      /\ \A k : Shown(k)' <=> Shown(k)
  BY <1>1, <1>2 DEF NamesDiffer, Shown, EvalPath
<1> QED BY <1>1, <1>2, <1>3, <1>4 DEF StreamInv, StreamWritten

LEMMA RestKeepsStream ==
  ASSUME Control, StreamInv, EvidenceNext, ~Materialize, ~WriteStream
  PROVE  StreamInv'
<1>1. UNCHANGED <<files, stream, cfg>>
  BY DEF EvidenceNext, StartSession, Mark, Kill, CaptureEnvironment, CheckLimits,
     ValidateDatasets, OpenStream, Quantize, GenerateCandidates, OpenBenchmark,
     Measure, WorkerFails, SaveDetections, SaveOutputs, MarkMeasured, EndLoop,
     OpenEvaluation, Evaluate, OpenCertification, Certify, inputVars
<1>2. CASE Mark
  <2>1. PICK step \in {StepOrder[i] : i \in DOMAIN StepOrder} :
          At(step) /\ steps' = steps \cup {step}
    BY <1>2 DEF Mark
  <2>2. pc = "mark" /\ pc' = "next"
    BY <1>2 DEF Mark
  <2>3. StreamWritten' => StreamWritten
    BY <2>1, <2>2 DEF StreamWritten
  <2> QED BY <1>1, <2>2, <2>3, OthersKeepStream
<1>3. CASE OpenStream
  <2>1. /\ pc' = "items" /\ pending' = 1..Len(Items(d)) /\ steps' = steps
        /\ "dataset_stream" \notin steps
    BY <1>3, AtMeans DEF OpenStream
  <2>2. d' = d
    BY <1>1 DEF d
  <2> HIDE DEF d
  <2>3. \A k \in DOMAIN d.eval : Len(d.calib) + k \in pending'
    BY <2>1, EvalItem
  <2> QED BY <2>1, <2>2, <2>3 DEF StreamInv, StreamWritten
<1>4. CASE ~Mark /\ ~OpenStream
  <2> USE DEF EvidenceNext, StartSession, Kill, CaptureEnvironment, CheckLimits,
          ValidateDatasets, Quantize, GenerateCandidates, OpenBenchmark, Measure,
          WorkerFails, Reject, SaveDetections, SaveOutputs, MarkMeasured, EndLoop,
          OpenEvaluation, Evaluate, OpenCertification, Certify
  <2>1. steps' = steps
    BY <1>4
  <2>2. pc' # "items"
    BY <1>4 DEF Control, AtItsStep, Inside
  <2>3. pc' = "mark" => ~At("dataset_stream")
    BY <1>4, AtMeans DEF Control, AtItsStep, Inside
  <2>4. StreamWritten' => StreamWritten
    BY <2>1, <2>3, AtIsKept DEF StreamWritten
  <2> QED BY <1>1, <2>2, <2>4, OthersKeepStream
<1> QED BY <1>2, <1>3, <1>4

LEMMA StreamInvHolds == EvidenceSpec => []StreamInv
<1>1. EvidenceInit => StreamInv
  BY DEF EvidenceInit, StreamInv, StreamWritten
<1>2. Control /\ InputsInv /\ StreamInv /\ EvidenceNext => StreamInv'
  BY MaterializeKeepsStream, WriteStreamKeepsStream, RestKeepsStream
<1>3. StreamInv /\ UNCHANGED evidenceVars => StreamInv'
  BY OthersKeepStream, AtIsKept DEF StreamWritten, evidenceVars, loopVars, inputVars
<1> QED BY <1>1, <1>2, <1>3, ControlHolds, InputsInvHolds, PTL DEF EvidenceSpec
------------------------------------------------------------------------------
(* The candidates: every variant of the baseline model is generated, and     *)
(* what is measured has been generated.                                      *)
CandidatesMade == "candidates" \in steps \/ (pc = "mark" /\ At("candidates"))

Generated ==
  /\ CandidatesMade => \A c \in Candidates : IsBaseline(c) => status[c] # None
  /\ \A c \in Candidates :
       trials[c] # None => "candidates" \in steps /\ status[c] # None
  /\ pc \in Inside => pending \subseteq ToMeasure

LEMMA GeneratedStep ==
  ASSUME Control, TrialsInv, Generated, EvidenceNext
  PROVE  Generated'
<1>1. "generated" # None /\ "measured" # None /\ "failed" # None
  BY EvidenceAssumption
<1>2. CASE GenerateCandidates
  <2>1. /\ At("candidates") /\ "candidates" \notin steps /\ pc' = "mark"
        /\ trials' = trials
        /\ status' = [c \in Candidates |->
             IF cfg.quantize \/ ModelOf[c] = BaselineModel THEN "generated" ELSE None]
    BY <1>2, AtMeans DEF GenerateCandidates
  <2> QED BY <1>1, <2>1 DEF Generated, IsBaseline, Inside
<1>3. CASE OpenBenchmark
  <2>1. /\ UNCHANGED <<steps, status, trials>> /\ pc' \in {"bench", "idle"}
        /\ pc' = "bench" => pending' = ToMeasure
        /\ "candidates" \in steps
    BY <1>3, AtMeans DEF OpenBenchmark, measuredVars
  <2>2. ToMeasure' = ToMeasure
    BY <2>1 DEF ToMeasure
  <2> QED BY <2>1, <2>2 DEF Generated, Inside, CandidatesMade, IsBaseline
<1>4. CASE \E c \in Candidates : \E report \in Reports : Measure(c, report)
  <2>1. PICK c \in Candidates :
          /\ c \in pending /\ pc = "bench" /\ pc' = "limits"
          /\ UNCHANGED <<steps, status, pending>>
          /\ \A b \in Candidates \ {c} : trials'[b] = trials[b]
    BY <1>4 DEF Measure, Control, EvidenceTypeOK
  <2>2. "candidates" \in steps
    BY <2>1, AtMeans DEF Control, AtItsStep, Inside
  <2>3. ToMeasure' = ToMeasure /\ c \in ToMeasure
    BY <2>1 DEF ToMeasure, Generated, Inside
  <2> QED BY <2>1, <2>2, <2>3 DEF Generated, Inside, CandidatesMade, IsBaseline,
             ToMeasure
<1>5. CASE \/ \E c \in Candidates : WorkerFails(c)
           \/ \E reading \in Readings : CheckLimits(reading)
           \/ MarkMeasured
  <2>1. /\ \A c \in Candidates : status[c] # None => status'[c] # None
        /\ steps' = steps /\ pc' # "mark" /\ "candidates" \in steps
    BY <1>1, <1>5, AtMeans DEF WorkerFails, CheckLimits, MarkMeasured, Reject,
       Control, AtItsStep, Inside, EvidenceTypeOK
  <2>2. \A c \in Candidates : trials'[c] # None => status[c] # None
    BY <1>5 DEF WorkerFails, CheckLimits, MarkMeasured, Generated, Control,
       EvidenceTypeOK, TrialsInv, Current, UnderTest, Inside, ToMeasure
  <2>3. pc' \in Inside => pending' \subseteq ToMeasure
    BY <1>5 DEF WorkerFails, CheckLimits, MarkMeasured, Reject, Inside, Generated,
       loopVars
  <2> QED BY <2>1, <2>2, <2>3 DEF Generated, CandidatesMade, IsBaseline, ToMeasure
<1>6. CASE Mark
  <2>1. PICK step \in {StepOrder[i] : i \in DOMAIN StepOrder} :
          At(step) /\ steps' = steps \cup {step}
    BY <1>6 DEF Mark
  <2>2. pc = "mark" /\ pc' = "next" /\ UNCHANGED <<status, trials>>
    BY <1>6 DEF Mark, measuredVars
  <2>3. CandidatesMade' => CandidatesMade
    BY <2>1, <2>2 DEF CandidatesMade
  <2> QED BY <2>1, <2>2, <2>3 DEF Generated, Inside, IsBaseline
<1>7. CASE SaveDetections \/ SaveOutputs
  <2>1. UNCHANGED <<steps, status, trials, pending>> /\ pc \in Inside /\ pc' \in Inside
    BY <1>7 DEF SaveDetections, SaveOutputs, Inside, loopVars
  <2>2. ToMeasure' = ToMeasure /\ pc' # "mark"
    BY <2>1 DEF ToMeasure, Inside
  <2> QED BY <2>1, <2>2 DEF Generated, CandidatesMade, IsBaseline
<1>8. CASE ~GenerateCandidates /\ ~OpenBenchmark /\ ~MarkMeasured /\ ~Mark
           /\ ~SaveDetections /\ ~SaveOutputs
           /\ ~(\E c \in Candidates : \E report \in Reports : Measure(c, report))
           /\ ~(\E c \in Candidates : WorkerFails(c))
           /\ ~(\E reading \in Readings : CheckLimits(reading))
  <2> USE DEF EvidenceNext, StartSession, Kill, CaptureEnvironment,
          ValidateDatasets, OpenStream, Materialize, WriteStream, Quantize,
          EndLoop, OpenEvaluation, Evaluate, OpenCertification, Certify
  <2>1. UNCHANGED <<steps, status, trials>>
    BY <1>8 DEF measuredVars
  <2>2. pc' \notin Inside
    BY <1>8 DEF Inside
  <2>3. pc' = "mark" => ~At("candidates")
    BY <1>8, AtMeans DEF Control, AtItsStep, Inside
  <2> QED BY <2>1, <2>2, <2>3 DEF Generated, CandidatesMade, IsBaseline, At
<1> QED BY <1>2, <1>3, <1>4, <1>5, <1>6, <1>7, <1>8

LEMMA GeneratedHolds == EvidenceSpec => []Generated
<1>1. EvidenceInit => Generated
  BY DEF EvidenceInit, Generated, CandidatesMade, Inside
<1>2. Generated /\ UNCHANGED evidenceVars => Generated'
  BY DEF Generated, CandidatesMade, At, IsBaseline, ToMeasure, evidenceVars, loopVars,
     measuredVars
<1> QED BY <1>1, <1>2, GeneratedStep, ControlHolds, TrialsInvHolds, PTL
        DEF EvidenceSpec
------------------------------------------------------------------------------
(* Once the benchmark is recorded, nothing that an evaluation or a gate looks *)
(* at changes any more.                                                      *)
Settled ==
  UNCHANGED <<cfg, environment, start, files, stream, status, trials, detections,
              rows>>

LEMMA SettledAfterBenchmark ==
  ASSUME Control, EvidenceNext, "benchmarking" \in steps
  PROVE  Settled
<1>1. /\ {"environment", "datasets", "dataset_stream", "quantization",
          "candidates"} \subseteq steps
      /\ ~At("environment") /\ ~At("dataset_stream") /\ ~At("candidates")
      /\ ~At("benchmarking")
  BY AtMeans DEF Control, InOrder
<1>2. pc \notin Inside \cup {"items"}
  BY <1>1 DEF Control, AtItsStep
<1> QED BY <1>1, <1>2 DEF Settled, Inside, EvidenceNext, StartSession, Mark, Kill,
        CaptureEnvironment, CheckLimits, ValidateDatasets, OpenStream, Materialize,
        WriteStream, Quantize, GenerateCandidates, OpenBenchmark, Measure,
        WorkerFails, SaveDetections, SaveOutputs, MarkMeasured, EndLoop,
        OpenEvaluation, Evaluate, OpenCertification, Certify, loopVars, inputVars,
        measuredVars

(* So an evaluation would give the same document at any later time.          *)
LEMMA GradingSettled ==
  ASSUME Settled
  PROVE  /\ d' = d /\ Graded' = Graded
         /\ \A c, id : RowsOf(c, id)' = RowsOf(c, id)
         /\ \A c, id : ClassOf(c, id)' = ClassOf(c, id)
         /\ \A c : HasAnswers(c)' <=> HasAnswers(c)
         /\ \A c : NativeHits(c)' = NativeHits(c) /\ OrtHits(c)' = OrtHits(c)
<1>1. /\ cfg' = cfg /\ files' = files /\ stream' = stream /\ rows' = rows
  BY DEF Settled
<1>2. d' = d
  BY <1>1 DEF d
<1>3. Graded' = Graded
  BY <1>1 DEF Graded, OfRole
<1>4. ASSUME NEW c, NEW id PROVE RowsOf(c, id)' = RowsOf(c, id)
  BY <1>1 DEF RowsOf
<1>5. ASSUME NEW c, NEW id PROVE ClassOf(c, id)' = ClassOf(c, id)
  BY <1>1, <1>4 DEF ClassOf
<1> HIDE DEF Graded, RowsOf, ClassOf
<1>6. ASSUME NEW c PROVE HasAnswers(c)' <=> HasAnswers(c)
  BY <1>1, <1>3, <1>4, <1>5 DEF HasAnswers
<1>7. ASSUME NEW c PROVE NativeHits(c)' = NativeHits(c)
  <2>1. \A k : ClassOf(c, stream[k].id)' = ClassOf(c, stream[k].id)
    BY <1>1 DEF ClassOf, RowsOf
  <2> DEFINE Hit(k) == ClassOf(c, stream[k].id) = stream[k].label
  <2>2. \A k : Hit(k)' <=> Hit(k)
    BY <1>1, <2>1
  <2> HIDE DEF Hit
  <2>3. {k \in Graded' : Hit(k)'} = {k \in Graded : Hit(k)}
    BY <1>3, <2>2
  <2> USE DEF Hit
  <2> QED BY <2>3 DEF NativeHits
<1>8. ASSUME NEW c PROVE OrtHits(c)' = OrtHits(c)
  <2>1. {k \in Graded' : OutputOf[ModelOf[c]][files'[stream'[k].path]] = stream'[k].label}
          = {k \in Graded : OutputOf[ModelOf[c]][files[stream[k].path]] = stream[k].label}
    BY <1>1, <1>3
  <2> QED BY <2>1 DEF OrtHits
<1> QED BY <1>2, <1>3, <1>4, <1>5, <1>6, <1>7, <1>8

LEMMA QualitySettled ==
  ASSUME Settled, NEW c
  PROVE  /\ Quality(c)' = Quality(c)
         /\ CannotEvaluate(c)' <=> CannotEvaluate(c)
<1>1. /\ cfg' = cfg /\ files' = files /\ stream' = stream /\ rows' = rows
      /\ status' = status /\ detections' = detections /\ d' = d /\ Graded' = Graded
  BY GradingSettled DEF Settled
<1>2. ASSUME NEW b
      PROVE  /\ HasAnswers(b)' <=> HasAnswers(b)
             /\ NativeHits(b)' = NativeHits(b) /\ OrtHits(b)' = OrtHits(b)
  BY GradingSettled
<1> HIDE DEF d, Graded, HasAnswers, NativeHits, OrtHits
<1>3. ASSUME NEW b PROVE Hits(b)' = Hits(b)
  BY <1>2 DEF Hits
<1>4. /\ BaselinesWith(rows)' = BaselinesWith(rows)
      /\ BaselinesWith(detections)' = BaselinesWith(detections)
  BY <1>1 DEF BaselinesWith, IsBaseline
<1> HIDE DEF Hits, BaselinesWith
<1>5. BaselineHits(c)' = BaselineHits(c)
  BY <1>2, <1>3, <1>4 DEF BaselineHits, IsBaseline
<1>6. Labelled' <=> Labelled
  BY <1>1 DEF Labelled
<1>7. \A value, baseline, n : GoodEnough(value, baseline, n)' <=> GoodEnough(value, baseline, n)
  BY <1>1 DEF GoodEnough
<1>8. Classified(c)' = Classified(c)
  BY <1>1, <1>3, <1>5, <1>6, <1>7 DEF Classified, Unmeasured, GoodEnough
<1>9. \A b : OnEvaluationSet(b)' = OnEvaluationSet(b)
  BY <1>1 DEF OnEvaluationSet
<1>10. \A found : MeanPrecision(found)' = MeanPrecision(found)
  BY <1>1 DEF MeanPrecision
<1>11. Detected(c)' = Detected(c)
  BY <1>1, <1>4, <1>7, <1>9, <1>10 DEF Detected, Unmeasured
<1>12. Equal(c)' = Equal(c)
  BY <1>1 DEF Equal, Distance
<1>13. Compared(c)' = Compared(c)
  BY <1>12, Zenon DEF Compared
<1>14. Quality(c)' = Quality(c)
  BY <1>1, <1>8, <1>11, <1>13 DEF Quality, Unmeasured
<1>15. CannotEvaluate(c)' <=> CannotEvaluate(c)
  BY <1>1, <1>5, <1>6 DEF CannotEvaluate, IsBaseline
<1> QED BY <1>14, <1>15
------------------------------------------------------------------------------
(* The evaluations on record: each is what the measurements on record give,  *)
(* and once the step is recorded, every measured candidate has one.          *)
Evaluated(c) ==
  status[c] = "measured" /\ evaluation[c] = Quality(c) /\ ~CannotEvaluate(c)

AllEvaluated ==
  "evaluating_quality" \in steps \/ (pc = "mark" /\ At("evaluating_quality"))

EvaluationInv ==
  /\ DOMAIN evaluation = Candidates
  /\ \A c \in Candidates :
       evaluation[c] # None => "benchmarking" \in steps /\ Evaluated(c)
  /\ pc = "evaluate" =>
       /\ \A c \in pending : c \in Candidates /\ status[c] = "measured"
       /\ \A c \in Candidates :
            status[c] = "measured" => c \in pending \/ Evaluated(c)
  /\ AllEvaluated => \A c \in Candidates : status[c] = "measured" => Evaluated(c)

LEMMA EvaluatedIsKept ==
  ASSUME Settled, NEW c, Evaluated(c), evaluation'[c] = evaluation[c]
  PROVE  Evaluated(c)'
BY QualitySettled DEF Evaluated, Settled

LEMMA OthersKeepEvaluations ==
  ASSUME EvaluationInv, evaluation' = evaluation, steps \subseteq steps',
         "benchmarking" \in steps => Settled,
         pc' = "evaluate" => "benchmarking" \in steps /\ UNCHANGED <<pc, pending>>,
         AllEvaluated' => "benchmarking" \in steps /\ AllEvaluated
  PROVE  EvaluationInv'
<1>1. CASE "benchmarking" \in steps
  <2>1. Settled /\ status' = status
    BY <1>1 DEF Settled
  <2>2. \A c : Evaluated(c) => Evaluated(c)'
    BY <2>1, EvaluatedIsKept
  <2>3. \A c \in Candidates :
          evaluation'[c] # None => "benchmarking" \in steps' /\ Evaluated(c)'
    BY <2>2 DEF EvaluationInv
  <2>4. pc' = "evaluate" =>
          /\ \A c \in pending' : c \in Candidates /\ status'[c] = "measured"
          /\ \A c \in Candidates :
               status'[c] = "measured" => c \in pending' \/ Evaluated(c)'
    BY <2>1, <2>2 DEF EvaluationInv
  <2>5. AllEvaluated' =>
          \A c \in Candidates : status'[c] = "measured" => Evaluated(c)'
    BY <2>1, <2>2 DEF EvaluationInv
  <2> QED BY <2>3, <2>4, <2>5 DEF EvaluationInv
<1>2. CASE "benchmarking" \notin steps
  BY <1>2 DEF EvaluationInv
<1> QED BY <1>1, <1>2

LEMMA EvaluateKeepsEvaluations ==
  ASSUME Control, EvaluationInv, Evaluate
  PROVE  EvaluationInv'
<1> DEFINE c == Min(pending)
<1>1. /\ pc = "evaluate" /\ steps' = steps /\ At("evaluating_quality")
      /\ "benchmarking" \in steps /\ "evaluating_quality" \notin steps
      /\ pc' \in {"idle", "evaluate"} /\ c \in pending
      /\ c \in Candidates /\ status[c] = "measured"
  BY AtMeans, MinIsMember DEF Evaluate, Control, AtItsStep, EvidenceTypeOK,
     EvaluationInv
<1>2. Settled
  BY <1>1, SettledAfterBenchmark DEF EvidenceNext
<1>3. ~AllEvaluated'
  BY <1>1 DEF AllEvaluated
<1>4. /\ status' = status
      /\ \A b : Quality(b)' = Quality(b)
      /\ \A b : CannotEvaluate(b)' <=> CannotEvaluate(b)
  BY <1>2, QualitySettled DEF Settled
<1>5. CASE CannotEvaluate(c)
  <2>1. evaluation' = evaluation /\ pc' = "idle"
    BY <1>5 DEF Evaluate
  <2> QED BY <1>1, <1>2, <1>3, <2>1, OthersKeepEvaluations
<1>6. CASE ~CannotEvaluate(c)
  <2>1. /\ evaluation' = [evaluation EXCEPT ![c] = Quality(c)]
        /\ pending' = pending \ {c} /\ pc' = "evaluate"
    BY <1>6 DEF Evaluate
  <2> HIDE DEF c
  <2>2. /\ DOMAIN evaluation' = Candidates /\ evaluation'[c] = Quality(c)
        /\ \A b \in Candidates \ {c} : evaluation'[b] = evaluation[b]
    BY <1>1, <2>1 DEF EvaluationInv
  <2>3. ASSUME NEW b, b = c PROVE Evaluated(b)'
    BY <1>1, <1>4, <1>6, <2>2, <2>3 DEF Evaluated
  <2>4. ASSUME NEW b \in Candidates, b # c, Evaluated(b) PROVE Evaluated(b)'
    BY <1>2, <2>2, <2>4, EvaluatedIsKept
  <2>5. \A b \in Candidates :
          evaluation'[b] # None => "benchmarking" \in steps' /\ Evaluated(b)'
    BY <1>1, <2>2, <2>3, <2>4 DEF EvaluationInv
  <2>6. /\ \A b \in pending' : b \in Candidates /\ status'[b] = "measured"
        /\ \A b \in Candidates :
             status'[b] = "measured" => b \in pending' \/ Evaluated(b)'
    BY <1>1, <1>4, <2>1, <2>3, <2>4 DEF EvaluationInv
  <2> QED BY <1>3, <2>2, <2>5, <2>6 DEF EvaluationInv
<1> QED BY <1>5, <1>6

LEMMA OpenEvaluationKeeps ==
  ASSUME Control, EvaluationInv, OpenEvaluation
  PROVE  EvaluationInv'
<1>1. /\ "benchmarking" \in steps /\ "evaluating_quality" \notin steps
      /\ steps' = steps /\ evaluation' = evaluation /\ pc' = "evaluate"
      /\ pending' = {c \in Candidates : status[c] = "measured"}
  BY AtMeans DEF OpenEvaluation, resultVars
<1>2. Settled /\ status' = status
  BY <1>1, SettledAfterBenchmark DEF EvidenceNext, Settled
<1>3. \A c : Evaluated(c) => Evaluated(c)'
  BY <1>1, <1>2, EvaluatedIsKept
<1> QED BY <1>1, <1>2, <1>3 DEF EvaluationInv, AllEvaluated

LEMMA EvaluationStep ==
  ASSUME Control, EvaluationInv, EvidenceNext
  PROVE  EvaluationInv'
<1>1. "benchmarking" \in steps => Settled
  BY SettledAfterBenchmark
<1>2. CASE Evaluate
  BY <1>2, EvaluateKeepsEvaluations
<1>3. CASE OpenEvaluation
  BY <1>3, OpenEvaluationKeeps
<1>4. CASE Mark
  <2>1. PICK step \in {StepOrder[i] : i \in DOMAIN StepOrder} :
          At(step) /\ steps' = steps \cup {step}
    BY <1>4 DEF Mark
  <2>2. pc = "mark" /\ pc' = "next" /\ evaluation' = evaluation
    BY <1>4 DEF Mark, resultVars
  <2>3. AllEvaluated' => "benchmarking" \in steps /\ AllEvaluated
    BY <2>1, <2>2, AtMeans DEF AllEvaluated, Control, InOrder
  <2> QED BY <1>1, <2>1, <2>2, <2>3, OthersKeepEvaluations
<1>5. CASE ~Evaluate /\ ~OpenEvaluation /\ ~Mark
  <2> USE DEF EvidenceNext, StartSession, Kill, CaptureEnvironment, CheckLimits,
          ValidateDatasets, OpenStream, Materialize, WriteStream, Quantize,
          GenerateCandidates, OpenBenchmark, Measure, WorkerFails, Reject,
          SaveDetections, SaveOutputs, MarkMeasured, EndLoop, OpenCertification,
          Certify
  <2>1. steps' = steps /\ evaluation' = evaluation
    BY <1>5 DEF resultVars
  <2>2. pc' # "evaluate"
    BY <1>5
  <2>3. pc' = "mark" /\ At("evaluating_quality") => pc = "evaluate" /\ pending = {}
    BY <1>5, AtMeans DEF Control, AtItsStep, Inside
  <2> HIDE DEF EvidenceNext, StartSession, Kill, CaptureEnvironment, CheckLimits,
          ValidateDatasets, OpenStream, Materialize, WriteStream, Quantize,
          GenerateCandidates, OpenBenchmark, Measure, WorkerFails, Reject,
          SaveDetections, SaveOutputs, MarkMeasured, EndLoop, OpenCertification,
          Certify
  <2>4. CASE AllEvaluated' => AllEvaluated
    <3>1. AllEvaluated => "benchmarking" \in steps
      BY AtMeans DEF AllEvaluated, Control, InOrder
    <3> QED BY <1>1, <2>1, <2>2, <2>4, <3>1, OthersKeepEvaluations
  <2>5. CASE AllEvaluated' /\ ~AllEvaluated
    <3>1. /\ pc' = "mark" /\ pc = "evaluate" /\ pending = {}
          /\ "benchmarking" \in steps
      BY <2>1, <2>3, <2>5, AtIsKept, AtMeans DEF AllEvaluated
    <3>2. Settled /\ status' = status
      BY <1>1, <3>1 DEF Settled
    <3>3. \A c : Evaluated(c) => Evaluated(c)'
      BY <2>1, <3>2, EvaluatedIsKept
    <3>4. \A c \in Candidates : status[c] = "measured" => Evaluated(c)
      BY <3>1 DEF EvaluationInv
    <3> QED BY <2>1, <3>1, <3>2, <3>3, <3>4 DEF EvaluationInv
  <2> QED BY <2>4, <2>5
<1> QED BY <1>2, <1>3, <1>4, <1>5

LEMMA EvaluationInvHolds == EvidenceSpec => []EvaluationInv
<1>1. EvidenceInit => EvaluationInv
  BY DEF EvidenceInit, EvaluationInv, AllEvaluated
<1>2. Control /\ EvaluationInv /\ EvidenceNext => EvaluationInv'
  BY EvaluationStep
<1>3. Control /\ EvaluationInv /\ UNCHANGED evidenceVars => EvaluationInv'
  <2> SUFFICES ASSUME Control, EvaluationInv, UNCHANGED evidenceVars
               PROVE  EvaluationInv'
    OBVIOUS
  <2>1. /\ UNCHANGED <<pc, steps, pending, evaluation>> /\ Settled
        /\ AllEvaluated' => AllEvaluated
    BY AtIsKept DEF Settled, AllEvaluated, evidenceVars, loopVars, inputVars,
       measuredVars, resultVars
  <2>2. /\ AllEvaluated => "benchmarking" \in steps
        /\ pc = "evaluate" => "benchmarking" \in steps
    BY AtMeans DEF AllEvaluated, Control, InOrder, AtItsStep
  <2> QED BY <2>1, <2>2, OthersKeepEvaluations
<1> QED BY <1>1, <1>2, <1>3, ControlHolds, PTL DEF EvidenceSpec
------------------------------------------------------------------------------
(* The certificates on record: each is what the gates say of the documents on *)
(* record, and an environment that is only valid with warnings is never the   *)
(* environment of a run that requires a valid one.                            *)
Passed(c) ==
  PassesGates(cfg, Context(cfg, ModelOf[c], trials[c], evaluation[c], environment))

WarningsOk ==
  environment.status = "valid_with_warnings" => ~cfg.requireEnvironment

CertifiedInv ==
  /\ pc = "certify" => \A c \in pending : c \in Candidates /\ trials[c] # None
  /\ \A c \in Candidates : certified[c] = TRUE =>
       "evaluating_quality" \in steps /\ trials[c] # None /\ Passed(c)
  /\ WarningsOk

(* Evaluations and trials do not change once the gates may be asked.          *)
LEMMA JudgedSettled ==
  ASSUME Control, EvidenceNext, "evaluating_quality" \in steps
  PROVE  /\ Settled /\ evaluation' = evaluation
         /\ \A c : Passed(c)' <=> Passed(c)
<1>1. Settled
  BY SettledAfterBenchmark DEF Control, InOrder
<1>2. ~Evaluate
  BY AtMeans DEF Control, AtItsStep, Evaluate
<1>3. evaluation' = evaluation
  BY <1>2 DEF EvidenceNext, StartSession, Mark, Kill, CaptureEnvironment, CheckLimits,
     ValidateDatasets, OpenStream, Materialize, WriteStream, Quantize,
     GenerateCandidates, OpenBenchmark, Measure, WorkerFails, SaveDetections,
     SaveOutputs, MarkMeasured, EndLoop, OpenEvaluation, OpenCertification, Certify,
     resultVars
<1>4. \A c : Passed(c)' <=> Passed(c)
  BY <1>1, <1>3 DEF Settled, Passed, PassesGates, Context, ProviderOk, HostOk, IsSound,
     Required
<1> QED BY <1>1, <1>3, <1>4

LEMMA WarningsStep ==
  ASSUME WarningsOk, EvidenceNext
  PROVE  WarningsOk'
<1>1. cfg' = cfg
  BY DEF EvidenceNext, StartSession, Mark, Kill, CaptureEnvironment, CheckLimits,
     ValidateDatasets, OpenStream, Materialize, WriteStream, Quantize,
     GenerateCandidates, OpenBenchmark, Measure, WorkerFails, SaveDetections,
     SaveOutputs, MarkMeasured, EndLoop, OpenEvaluation, Evaluate,
     OpenCertification, Certify
<1>2. \/ environment' = environment
      \/ \E reading \in Readings : environment' = Captured(reading)
  BY DEF EvidenceNext, StartSession, Mark, Kill, CaptureEnvironment, CheckLimits,
     ValidateDatasets, OpenStream, Materialize, WriteStream, Quantize,
     GenerateCandidates, OpenBenchmark, Measure, WorkerFails, SaveDetections,
     SaveOutputs, MarkMeasured, EndLoop, OpenEvaluation, Evaluate,
     OpenCertification, Certify
<1> QED BY <1>1, <1>2 DEF WarningsOk, Captured

LEMMA CertifiedStep ==
  ASSUME Control, CertifiedInv, EvidenceNext
  PROVE  CertifiedInv'
<1>1. steps \subseteq steps' /\ WarningsOk'
  BY WarningsStep, RecordedOnlyByMark DEF CertifiedInv, Mark
<1>2. "evaluating_quality" \in steps => 
        /\ Settled /\ trials' = trials
        /\ \A c : Passed(c)' <=> Passed(c)
  BY JudgedSettled DEF Settled
<1>3. CASE Certify
  <2> DEFINE c == Min(pending)
  <2>1. /\ "evaluating_quality" \in steps /\ pc = "certify" /\ pc' = "certify"
        /\ c \in pending /\ c \in Candidates /\ trials[c] # None
    BY <1>3, AtMeans, MinIsMember DEF Certify, Control, AtItsStep, EvidenceTypeOK,
       CertifiedInv
  <2>2. /\ certified' = [certified EXCEPT ![c] = Passed(c)]
        /\ pending' = pending \ {c}
    BY <1>3 DEF Certify, Passed
  <2> HIDE DEF c
  <2>3. /\ certified'[c] = Passed(c)
        /\ \A b \in Candidates \ {c} : certified'[b] = certified[b]
    BY <2>1, <2>2 DEF Control, EvidenceTypeOK
  <2>4. \A b \in Candidates : certified'[b] = TRUE => trials[b] # None /\ Passed(b)
    BY <2>1, <2>3, Zenon DEF CertifiedInv
  <2> QED BY <1>1, <1>2, <2>1, <2>2, <2>4 DEF CertifiedInv
<1>4. CASE OpenCertification
  <2>1. /\ "evaluating_quality" \in steps /\ certified' = certified
        /\ pending' = {c \in Candidates : trials[c] # None}
    BY <1>4, AtMeans DEF OpenCertification, resultVars
  <2> QED BY <1>1, <1>2, <2>1 DEF CertifiedInv
<1>5. CASE ~Certify /\ ~OpenCertification
  <2>1. certified' = certified
    BY <1>5 DEF EvidenceNext, StartSession, Mark, Kill, CaptureEnvironment,
       CheckLimits, ValidateDatasets, OpenStream, Materialize, WriteStream, Quantize,
       GenerateCandidates, OpenBenchmark, Measure, WorkerFails, SaveDetections,
       SaveOutputs, MarkMeasured, EndLoop, OpenEvaluation, Evaluate, resultVars
  <2>2. pc' # "certify"
    BY <1>5 DEF EvidenceNext, StartSession, Mark, Kill, CaptureEnvironment,
       CheckLimits, ValidateDatasets, OpenStream, Materialize, WriteStream, Quantize,
       GenerateCandidates, OpenBenchmark, Measure, WorkerFails, Reject,
       SaveDetections, SaveOutputs, MarkMeasured, EndLoop, OpenEvaluation, Evaluate
  <2> QED BY <1>1, <1>2, <2>1, <2>2 DEF CertifiedInv
<1> QED BY <1>3, <1>4, <1>5

LEMMA CertifiedInvHolds == EvidenceSpec => []CertifiedInv
<1>1. EvidenceInit => CertifiedInv
  <2> SUFFICES ASSUME EvidenceInit PROVE CertifiedInv
    OBVIOUS
  <2>1. \A c \in Candidates : certified[c] = None
    BY DEF EvidenceInit
  <2>2. None # TRUE
    BY EvidenceAssumption
  <2>3. \A c \in Candidates : certified[c] # TRUE
    BY <2>1, <2>2, Zenon
  <2>4. pc # "certify" /\ WarningsOk
    BY DEF EvidenceInit, WarningsOk
  <2> QED BY <2>3, <2>4 DEF CertifiedInv
<1>2. CertifiedInv /\ UNCHANGED evidenceVars => CertifiedInv'
  BY DEF CertifiedInv, WarningsOk, Passed, PassesGates, Context, ProviderOk, HostOk,
     IsSound, Required, evidenceVars, loopVars, measuredVars, resultVars
<1> QED BY <1>1, <1>2, CertifiedStep, ControlHolds, PTL DEF EvidenceSpec
------------------------------------------------------------------------------
(* What the stream repeats: numbers that repeat modulo n, and sets that are   *)
(* only shifted.                                                              *)
LEMMA Repeats ==
  ASSUME NEW n \in Nat \ {0}, NEW a \in Nat
  PROVE  (n + a) % n = a % n
<1> DEFINE q == a \div n
           r == a % n
<1>1. q \in Int /\ r \in 0..(n - 1)
  OBVIOUS
<1>2. a = n * q + r
  <2>1. a = (a \div n) * n + (a % n)
    BY Z3
  <2> HIDE DEF q, r
  <2>2. a = q * n + r
    BY <2>1 DEF q, r
  <2> QED BY <1>1, <2>2
<1> HIDE DEF q, r
<1>3. n + a = n * (q + 1) + r
  BY <1>1, <1>2
<1>4. n > 0 /\ n \in Int /\ q + 1 \in Int /\ n + a \in Int
  BY <1>1
<1>5. ASSUME NEW x \in Int, NEW y \in Int, x = n * y + r
      PROVE  r = x % n
  BY <1>1, <1>4, <1>5, SMTT(60)
<1> QED BY <1>3, <1>4, <1>5 DEF r

LEMMA ShiftedSize ==
  ASSUME NEW m \in Int, NEW n \in Nat, NEW S \in SUBSET (1..n)
  PROVE  /\ IsFiniteSet(S) /\ Cardinality(S) \in Nat
         /\ Cardinality({m + k : k \in S}) = Cardinality(S)
<1> DEFINE T == {m + k : k \in S}
           f == [k \in S |-> m + k]
<1>1. IsFiniteSet(S) /\ Cardinality(S) \in Nat
  <2>1. IsFiniteSet(1..n)
    BY FS_Interval
  <2>2. IsFiniteSet(S)
    BY <2>1, FS_Subset
  <2> QED BY <2>2, FS_CardinalityType
<1>2. f \in Bijection(S, T)
  <2>1. f \in [S -> T]
    OBVIOUS
  <2>2. \A a, b \in S : f[a] = f[b] => a = b
    OBVIOUS
  <2>3. \A t \in T : \E k \in S : f[k] = t
    OBVIOUS
  <2> QED BY <2>1, <2>2, <2>3 DEF Bijection, Injection, Surjection, IsInjective
<1>3. ExistsBijection(S, T)
  BY <1>2 DEF ExistsBijection
<1> HIDE DEF T
<1>4. Cardinality(T) = Cardinality(S)
  BY <1>1, <1>3, FS_Bijection
<1> QED BY <1>1, <1>4 DEF T

(* The greater of two numbers, and the greatest of a set that has one.        *)
LEMMA MaxIs ==
  ASSUME NEW S \in SUBSET Int, NEW top \in S, \A k \in S : k <= top
  PROVE  Max(S) = top
<1>1. Max(S) \in S /\ \A k \in S : Max(S) >= k
  BY DEF Max
<1> DEFINE m == Max(S)
<1>2. m \in Int /\ top \in Int /\ m >= top /\ m <= top
  BY <1>1
<1> HIDE DEF m
<1>3. m = top
  BY <1>2
<1> QED BY <1>3 DEF m

------------------------------------------------------------------------------
(* The stream: the items of both sets, then repetitions.  The k-th entry to   *)
(* grade is of the image Slot(k).                                             *)
Slot(k) == ((k - 1) % Len(d.eval)) + 1

GradedId(k) ==
  <<EvalId(d, Slot(k)), IF k <= Len(d.eval) THEN 0 ELSE k - Len(d.eval)>>

ToGrade == 1..(Len(d.eval) + Needed(d))

LEMMA SlotOf ==
  ASSUME Control, Len(d.eval) > 0
  PROVE  /\ \A k \in 1..Len(d.eval) : Slot(k) = k
         /\ \A i \in Nat \ {0} : Slot(Len(d.eval) + i) = Slot(i)
         /\ \A k \in Nat \ {0} : Slot(k) \in DOMAIN d.eval /\ ItemAt(k) = d.eval[Slot(k)]
<1> DEFINE n == Len(d.eval)
<1>1. n \in Nat \ {0} /\ DOMAIN d.eval = 1..n
  BY SplitLengths
<1>2. \A k : Slot(k) = ((k - 1) % n) + 1 /\ ItemAt(k) = d.eval[Slot(k)]
  BY DEF Slot, ItemAt
<1> HIDE DEF n
<1>3. \A k \in 1..n : Slot(k) = k
  BY <1>1, <1>2
<1>4. ASSUME NEW i \in Nat \ {0} PROVE Slot(n + i) = Slot(i)
  <2>1. i - 1 \in Nat /\ (n + i) - 1 = n + (i - 1)
    BY <1>1
  <2>2. (n + (i - 1)) % n = (i - 1) % n
    BY <1>1, <2>1, Repeats
  <2> QED BY <1>2, <2>1, <2>2
<1>5. ASSUME NEW k \in Nat \ {0} PROVE Slot(k) \in 1..n
  <2>1. k - 1 \in Nat
    OBVIOUS
  <2>2. (k - 1) % n \in 0..(n - 1)
    BY <1>1, <2>1
  <2> QED BY <1>1, <1>2, <2>2
<1> QED BY <1>1, <1>2, <1>3, <1>4, <1>5 DEF n

LEMMA EntryIs ==
  ASSUME Control, NEW k \in DOMAIN d.eval
  PROVE  LET e == EntryOf(d, Len(d.calib) + k)
         IN  /\ e.id = <<EvalId(d, k), 0>> /\ e.role = "eval"
             /\ e.path = EvalPath(k) /\ e.label = d.eval[k].label
BY EvalItem DEF EntryOf

LEMMA Listed ==
  ASSUME NEW n \in Nat, NEW s, DOMAIN s = 1..n, s = [x \in 1..n |-> s[x]]
  PROVE  s \in Seq(Range(s)) /\ Len(s) = n
BY DEF Range

LEMMA Appended ==
  ASSUME NEW s, NEW t, s \in Seq(Range(s)), t \in Seq(Range(t))
  PROVE  /\ DOMAIN (s \o t) = 1..(Len(s) + Len(t))
         /\ \A k \in 1..Len(s) : (s \o t)[k] = s[k]
         /\ \A k \in 1..Len(t) : (s \o t)[Len(s) + k] = t[k]
<1> DEFINE m == Len(s)
           n == Len(t)
<1>1. m \in Nat /\ n \in Nat
  OBVIOUS
<1>2. DOMAIN (s \o t) = 1..(m + n)
  OBVIOUS
<1>3. ASSUME NEW k \in 1..m PROVE (s \o t)[k] = s[k]
  OBVIOUS
<1>4. ASSUME NEW k \in 1..n PROVE (s \o t)[m + k] = t[k]
  <2>1. m + k \in 1..(m + n) /\ ~(m + k <= m) /\ (m + k) - m = k
    OBVIOUS
  <2> QED BY <2>1
<1> QED BY <1>2, <1>3, <1>4

LEMMA StreamShape ==
  ASSUME Control
  PROVE  /\ DOMAIN StreamOf(d) = 1..(Len(d.calib) + Len(d.eval) + Needed(d))
         /\ \A k \in 1..(Len(d.calib) + Len(d.eval)) : StreamOf(d)[k] = EntryOf(d, k)
         /\ \A i \in 1..Needed(d) :
              StreamOf(d)[Len(d.calib) + Len(d.eval) + i] = Repetition(d, i)
         /\ Needed(d) \in Nat /\ (Needed(d) > 0 => Len(d.eval) > 0)
<1> DEFINE m == Len(Items(d))
           n == Needed(d)
           entry(x) == EntryOf(d, x)
           again(x) == Repetition(d, x)
<1>1. n \in Nat /\ (n > 0 => Len(d.eval) > 0)
  BY DatasetType DEF Needed
<1>2. m \in Nat /\ m = Len(d.calib) + Len(d.eval)
  <2> DEFINE a == Len(d.calib)
             b == Len(d.eval)
  <2>1. a \in Nat /\ b \in Nat /\ m = a + b
    BY SplitLengths
  <2> HIDE DEF a, b, m
  <2>2. m \in Nat /\ m = a + b
    BY <2>1
  <2> QED BY <2>2 DEF a, b
<1>3. StreamOf(d) = [x \in 1..m |-> entry(x)] \o [x \in 1..n |-> again(x)]
  BY DEF StreamOf, Entries
<1> HIDE DEF m, n, entry, again
<1> DEFINE given == [x \in 1..m |-> entry(x)]
           added == [x \in 1..n |-> again(x)]
<1>4. given \in Seq(Range(given)) /\ added \in Seq(Range(added)) /\ Len(given) = m /\ Len(added) = n
  BY <1>1, <1>2, Listed
<1>5. /\ \A k \in 1..m : given[k] = entry(k)
      /\ \A k \in 1..n : added[k] = again(k)
  OBVIOUS
<1> HIDE DEF given, added
<1>6. /\ DOMAIN (given \o added) = 1..(m + n)
      /\ \A k \in 1..m : (given \o added)[k] = given[k]
      /\ \A k \in 1..n : (given \o added)[m + k] = added[k]
  <2>1. DOMAIN (given \o added) = 1..(Len(given) + Len(added))
    BY <1>4, Appended, Zenon
  <2>2. \A k \in 1..Len(given) : (given \o added)[k] = given[k]
    BY <1>4, Appended, Zenon
  <2>3. ASSUME NEW k \in 1..Len(added)
        PROVE  (given \o added)[Len(given) + k] = added[k]
    <3>1. given \in Seq(Range(given)) /\ added \in Seq(Range(added))
      BY <1>4
    <3> QED BY <3>1, Appended
  <2> QED BY <1>4, <2>1, <2>2, <2>3
<1>7. StreamOf(d) = given \o added
  BY <1>3 DEF given, added
<1> QED BY <1>1, <1>2, <1>5, <1>6, <1>7 DEF entry, again, n

LEMMA CalibrationShape ==
  ASSUME Control, NEW j \in 1..Len(d.calib)
  PROVE  EntryOf(d, j).role = "calib" /\ EntryOf(d, j).id = <<CalibId(d, j), 0>>
<1>1. Len(d.calib) \in Nat /\ j <= Len(d.calib)
  BY SplitLengths
<1>2. SampleId(d, j) = CalibId(d, j)
  BY <1>1 DEF SampleId
<1> QED BY <1>1, <1>2 DEF EntryOf, RoleOf

LEMMA RepetitionIs ==
  ASSUME Control, Len(d.eval) > 0, NEW i \in Nat \ {0}
  PROVE  LET e == Repetition(d, i)
         IN  /\ e.id = <<EvalId(d, Slot(i)), i>> /\ e.role = "eval"
             /\ e.path = EvalPath(Slot(i)) /\ e.label = d.eval[Slot(i)].label
<1> DEFINE m == Len(d.calib)
           within == (i - 1) % Len(d.eval)
<1>1. Slot(i) \in DOMAIN d.eval
  BY SlotOf
<1>2. within \in Nat
  <2> DEFINE n == Len(d.eval)  before == i - 1
  <2>1. n \in Nat \ {0} /\ before \in Nat
    BY SplitLengths
  <2> HIDE DEF n, before
  <2>2. before % n \in Nat
    BY <2>1
  <2> QED BY <2>2 DEF n, before
<1>3. m \in Nat /\ Slot(i) = within + 1
  BY SplitLengths DEF Slot
<1>4. Repetition(d, i) = [EntryOf(d, m + within + 1) EXCEPT !.id = <<@[1], i>>]
  BY DEF Repetition
<1> HIDE DEF m, within
<1>5. m + within + 1 = m + Slot(i)
  BY <1>2, <1>3
<1>6. Repetition(d, i) = [EntryOf(d, m + Slot(i)) EXCEPT !.id = <<@[1], i>>]
  BY <1>4, <1>5
<1> DEFINE e == EntryOf(d, m + Slot(i))
<1>7. /\ e.id = <<EvalId(d, Slot(i)), 0>> /\ e.role = "eval"
      /\ e.path = EvalPath(Slot(i)) /\ e.label = d.eval[Slot(i)].label
      /\ DOMAIN e = {"id", "role", "path", "label"}
  <2>1. DOMAIN e = {"id", "role", "path", "label"}
    BY DEF EntryOf
  <2> QED BY <1>1, <2>1, EntryIs DEF m
<1> HIDE DEF e
<1>8. Repetition(d, i) = [e EXCEPT !.id = <<@[1], i>>]
  BY <1>6 DEF e
<1> QED BY <1>7, <1>8

LEMMA EntryToGrade ==
  ASSUME Control, NEW k \in ToGrade
  PROVE  LET e == StreamOf(d)[Len(d.calib) + k]
         IN  /\ Slot(k) \in DOMAIN d.eval /\ ItemAt(k) = d.eval[Slot(k)]
             /\ Len(d.calib) + k \in DOMAIN StreamOf(d)
             /\ e.id = GradedId(k) /\ e.role = "eval"
             /\ e.path = EvalPath(Slot(k)) /\ e.label = ItemAt(k).label
<1> DEFINE m == Len(d.calib)
           n == Len(d.eval)
           r == Needed(d)
<1>1. /\ m \in Nat /\ n \in Nat /\ r \in Nat /\ (r > 0 => n > 0) /\ k \in 1..(n + r)
      /\ DOMAIN StreamOf(d) = 1..(m + n + r)
  BY SplitLengths, StreamShape DEF ToGrade
<1>2. Slot(k) \in DOMAIN d.eval /\ ItemAt(k) = d.eval[Slot(k)] /\ n > 0
  <2>1. n > 0 /\ k \in Nat \ {0}
    <3> HIDE DEF m, n, r
    <3> QED BY <1>1
  <2> QED BY <2>1, SlotOf
<1>3. m + k \in DOMAIN StreamOf(d)
  <2> HIDE DEF m, n, r
  <2> QED BY <1>1
<1>4. CASE k <= n
  <2>1. k \in 1..n /\ m + k \in 1..(m + n)
    <3> HIDE DEF m, n, r
    <3> QED BY <1>1, <1>4
  <2>2. Slot(k) = k /\ k \in DOMAIN d.eval
    BY <1>2, <2>1, SlotOf, SplitLengths
  <2>3. StreamOf(d)[m + k] = EntryOf(d, m + k)
    BY <2>1, StreamShape
  <2>4. GradedId(k) = <<EvalId(d, Slot(k)), 0>>
    BY <1>4 DEF GradedId
  <2> QED BY <1>2, <1>3, <2>2, <2>3, <2>4, EntryIs
<1>5. CASE ~(k <= n)
  <2> DEFINE i == k - n
  <2>1. i \in 1..r /\ i \in Nat \ {0} /\ m + k = m + n + i /\ k = n + i
    <3> HIDE DEF m, n, r
    <3> QED BY <1>1, <1>5
  <2>2. GradedId(k) = <<EvalId(d, Slot(k)), i>>
    BY <1>5 DEF GradedId
  <2> HIDE DEF i
  <2>3. Slot(k) = Slot(i)
    BY <1>2, <2>1, SlotOf
  <2>4. StreamOf(d)[m + k] = Repetition(d, i)
    BY <2>1, StreamShape
  <2> QED BY <1>2, <1>3, <2>1, <2>2, <2>3, <2>4, RepetitionIs
<1> QED BY <1>4, <1>5

LEMMA GradedIdsDiffer ==
  ASSUME Control, NamesDiffer, NEW i \in ToGrade, NEW k \in ToGrade,
         GradedId(i) = GradedId(k)
  PROVE  i = k
<1> DEFINE n == Len(d.eval)
<1>1. n \in Nat /\ i \in Nat \ {0} /\ k \in Nat \ {0} /\ n > 0 /\ DOMAIN d.eval = 1..n
  <2> DEFINE r == Needed(d)
  <2>1. n \in Nat /\ r \in Nat /\ (r > 0 => n > 0) /\ i \in 1..(n + r) /\ k \in 1..(n + r)
    BY SplitLengths, StreamShape DEF ToGrade
  <2>2. DOMAIN d.eval = 1..n
    BY SplitLengths
  <2> HIDE DEF n, r
  <2> QED BY <2>1, <2>2
<1>2. /\ EvalId(d, Slot(i)) = EvalId(d, Slot(k))
      /\ (IF i <= n THEN 0 ELSE i - n) = (IF k <= n THEN 0 ELSE k - n)
  BY DEF GradedId
<1>3. CASE i <= n /\ k <= n
  <2>1. i \in 1..n /\ k \in 1..n
    <3> HIDE DEF n
    <3> QED BY <1>1, <1>3
  <2>2. Slot(i) = i /\ Slot(k) = k
    BY <1>1, <2>1, SlotOf
  <2>3. FileName[EvalId(d, i)] = FileName[EvalId(d, k)]
    BY <1>2, <2>2
  <2> QED BY <1>1, <2>1, <2>3 DEF NamesDiffer, IsInjective
<1>4. CASE ~(i <= n /\ k <= n)
  <2> HIDE DEF n
  <2> QED BY <1>1, <1>2, <1>4
<1> QED BY <1>3, <1>4

LEMMA Positions ==
  ASSUME Control, NEW j \in DOMAIN StreamOf(d)
  PROVE  \/ /\ j \in 1..Len(d.calib) /\ StreamOf(d)[j].role = "calib"
            /\ StreamOf(d)[j].id = <<CalibId(d, j), 0>>
         \/ \E k \in ToGrade : j = Len(d.calib) + k
<1> DEFINE m == Len(d.calib)
           n == Len(d.eval)
           r == Needed(d)
<1>1. m \in Nat /\ n \in Nat /\ r \in Nat /\ j \in 1..(m + n + r)
  BY SplitLengths, StreamShape
<1>2. CASE j <= m
  <2>1. j \in 1..m /\ j \in 1..(m + n)
    <3> HIDE DEF m, n, r
    <3> QED BY <1>1, <1>2
  <2> QED BY <2>1, StreamShape, CalibrationShape
<1>3. CASE ~(j <= m)
  <2>1. j - m \in 1..(n + r) /\ j = m + (j - m)
    <3> HIDE DEF m, n, r
    <3> QED BY <1>1, <1>3
  <2> QED BY <2>1 DEF ToGrade
<1> QED BY <1>2, <1>3

LEMMA GradedPositions ==
  ASSUME Control, stream = StreamOf(d)
  PROVE  Graded = {Len(d.calib) + k : k \in ToGrade}
<1>1. ASSUME NEW j \in Graded PROVE \E k \in ToGrade : j = Len(d.calib) + k
  BY Positions DEF Graded, OfRole
<1>2. ASSUME NEW k \in ToGrade PROVE Len(d.calib) + k \in Graded
  BY EntryToGrade DEF Graded, OfRole
<1> QED BY <1>1, <1>2

(* The files and the stream on record are the dataset's.                      *)
Streamed == stream = StreamOf(d) /\ \A k \in DOMAIN d.eval : Shown(k)

(* The row that counts for an entry to grade is the one of that entry, the    *)
(* worker's answer on the entry's image.                                      *)
LEMMA AnswerOnRecord ==
  ASSUME Control, Streamed, NamesDiffer, NEW c, RowsOk(c), NEW k \in ToGrade
  PROVE  LET e == stream[Len(d.calib) + k]
         IN  /\ files[e.path] = ItemAt(k).content /\ RowsOf(c, e.id) # {}
             /\ ClassOf(c, e.id) = trials[c].answers[ItemAt(k).content]
             /\ e.label = ItemAt(k).label
<1> DEFINE m == Len(d.calib)
           e == stream[m + k]
<1>1. /\ m + k \in DOMAIN stream /\ e.id = GradedId(k) /\ e.role = "eval"
      /\ Slot(k) \in DOMAIN d.eval /\ ItemAt(k) = d.eval[Slot(k)]
      /\ e.path = EvalPath(Slot(k)) /\ e.label = ItemAt(k).label
  BY EntryToGrade DEF Streamed
<1>2. files[e.path] = ItemAt(k).content
  BY <1>1 DEF Streamed, Shown
<1>3. rows[c] = [j \in DOMAIN stream |->
                   [id |-> stream[j].id, class |-> trials[c].answers[files[stream[j].path]]]]
  BY DEF RowsOk, OutputsOf, AnswerTo
<1>4. RowsOf(c, e.id) = {j \in DOMAIN stream : stream[j].id = e.id}
  BY <1>3 DEF RowsOf
<1>5. m \in Nat /\ k \in Nat /\ m + k \in RowsOf(c, e.id)
  <2>1. m \in Nat /\ Len(d.eval) \in Nat /\ Needed(d) \in Nat
    BY SplitLengths, StreamShape
  <2>2. k \in Nat
    BY <2>1 DEF ToGrade
  <2> QED BY <1>1, <1>4, <2>1, <2>2
<1>6. ASSUME NEW j \in RowsOf(c, e.id) PROVE j \in Int /\ j <= m + k
  <2>1. j \in DOMAIN StreamOf(d) /\ stream[j].id = e.id
    BY <1>4 DEF Streamed
  <2>2. CASE j \in 1..m
    <3> HIDE DEF m
    <3> QED BY <1>5, <2>2
  <2>3. CASE \E i \in ToGrade : j = m + i
    <3>1. PICK i \in ToGrade : j = m + i
      BY <2>3
    <3>2. stream[j].id = GradedId(i)
      BY <3>1, EntryToGrade DEF Streamed
    <3>3. i = k
      BY <1>1, <2>1, <3>2, GradedIdsDiffer
    <3> HIDE DEF m
    <3> QED BY <1>5, <3>1, <3>3
  <2> QED BY <2>1, <2>2, <2>3, Positions
<1>7. Max(RowsOf(c, e.id)) = m + k
  <2> DEFINE S == RowsOf(c, e.id)  top == m + k
  <2>1. S \in SUBSET Int /\ top \in S /\ \A j \in S : j <= top
    BY <1>5, <1>6
  <2> HIDE DEF S, top
  <2>2. Max(S) = top
    BY <2>1, MaxIs
  <2> QED BY <2>2 DEF S, top
<1>8. ClassOf(c, e.id) = trials[c].answers[ItemAt(k).content]
  BY <1>1, <1>2, <1>3, <1>7 DEF ClassOf
<1> QED BY <1>1, <1>2, <1>5, <1>8

------------------------------------------------------------------------------
(* So what an evaluation counts over entries and rows is what the reference    *)
(* counts over the images of the evaluation set.                               *)
LEMMA GradingIs ==
  ASSUME Control, d.kind # "yolo", Len(d.eval) > 0
  PROVE  Grading = ToGrade
<1> DEFINE n == Len(d.eval)
           m == d.measured
<1>1. n \in Nat \ {0} /\ m \in Nat /\ d.eval # <<>>
  BY SplitLengths, DatasetType
<1>2. Grading = 1..Max({n, m})
  BY <1>1 DEF Grading
<1>3. Needed(d) = IF m > 1 /\ n > 0 /\ m > n THEN m - n ELSE 0
  BY DEF Needed
<1> HIDE DEF n, m
<1>4. CASE m > n
  <2>1. Max({n, m}) = m
    <3>1. {n, m} \in SUBSET Int /\ m \in {n, m} /\ \A k \in {n, m} : k <= m
      BY <1>1, <1>4
    <3> QED BY <3>1, MaxIs
  <2>2. n + Needed(d) = m
    BY <1>1, <1>3, <1>4
  <2> QED BY <1>2, <2>1, <2>2 DEF ToGrade, n
<1>5. CASE ~(m > n)
  <2>1. Max({n, m}) = n
    <3>1. {n, m} \in SUBSET Int /\ n \in {n, m} /\ \A k \in {n, m} : k <= n
      BY <1>1, <1>5
    <3> QED BY <3>1, MaxIs
  <2>2. n + Needed(d) = n
    BY <1>1, <1>3, <1>5
  <2> QED BY <1>2, <2>1, <2>2 DEF ToGrade, n
<1> QED BY <1>4, <1>5

LEMMA NothingToGrade ==
  ASSUME Control, Streamed, ~(Len(d.eval) > 0)
  PROVE  Graded = {}
<1> DEFINE n == Len(d.eval)
           r == Needed(d)
<1>1. n \in Nat /\ r \in Nat /\ (r > 0 => n > 0) /\ ~(n > 0) /\ ToGrade = 1..(n + r)
  BY SplitLengths, StreamShape DEF ToGrade
<1> HIDE DEF n, r
<1>2. ToGrade = {}
  BY <1>1
<1> QED BY <1>2, GradedPositions DEF Streamed

(* The entries to grade of which something is true, and their number. *)
LEMMA GradedCount ==
  ASSUME Control, Streamed, NEW P, P \in SUBSET ToGrade
  PROVE  /\ Cardinality(P) \in Nat
         /\ Cardinality({Len(d.calib) + k : k \in P}) = Cardinality(P)
<1> DEFINE m == Len(d.calib)
           n == Len(d.eval)
           r == Needed(d)
<1>1. m \in Nat /\ n \in Nat /\ r \in Nat /\ P \in SUBSET (1..(n + r))
  BY SplitLengths, StreamShape DEF ToGrade
<1> HIDE DEF m, n, r
<1>2. m \in Int /\ n + r \in Nat
  BY <1>1
<1>3. Cardinality(P) \in Nat /\ Cardinality({m + k : k \in P}) = Cardinality(P)
  BY <1>1, <1>2, ShiftedSize
<1> QED BY <1>3 DEF m

LEMMA AnswersAreTrue ==
  ASSUME Control, Streamed, NamesDiffer, NEW c, RowsOk(c), d.kind # "yolo",
         Len(d.eval) > 0
  PROVE  HasAnswers(c) <=> AnsweredAll(c)
<1>1. Grading = ToGrade /\ c \in DOMAIN rows
  BY GradingIs DEF RowsOk
<1>2. Graded = {Len(d.calib) + k : k \in ToGrade}
  BY GradedPositions DEF Streamed
<1>3. \A k \in ToGrade :
        /\ RowsOf(c, stream[Len(d.calib) + k].id) # {}
        /\ ClassOf(c, stream[Len(d.calib) + k].id) = trials[c].answers[ItemAt(k).content]
  BY AnswerOnRecord
<1>4. HasAnswers(c) <=> \A k \in ToGrade : trials[c].answers[ItemAt(k).content] # Silent
  BY <1>1, <1>2, <1>3 DEF HasAnswers
<1> QED BY <1>1, <1>4 DEF AnsweredAll

(* The entries to grade whose images the answers get right. *)
Right(answers) == {k \in ToGrade : answers[ItemAt(k).content] = ItemAt(k).label}

LEMMA RightCount ==
  ASSUME Control, Streamed, NEW a
  PROVE  /\ Cardinality(Right(a)) \in Nat
         /\ Cardinality({Len(d.calib) + k : k \in Right(a)}) = Cardinality(Right(a))
<1>1. Right(a) \in SUBSET ToGrade
  BY DEF Right
<1> QED BY <1>1, GradedCount

LEMMA HitsAreTrue ==
  ASSUME Control, Streamed, NamesDiffer, NEW c, RowsOk(c), d.kind # "yolo",
         Len(d.eval) > 0
  PROVE  Hits(c) = TrueHits(c) /\ TrueHits(c) \in Nat
<1> DEFINE answers == trials[c].answers
           outputs == OutputOf[ModelOf[c]]
           m == Len(d.calib)
<1>1. Grading = ToGrade
  BY GradingIs
<1>2. Graded = {m + k : k \in ToGrade}
  BY GradedPositions DEF Streamed
<1>3. \A k \in ToGrade :
        /\ ClassOf(c, stream[m + k].id) = answers[ItemAt(k).content]
        /\ files[stream[m + k].path] = ItemAt(k).content
        /\ stream[m + k].label = ItemAt(k).label
  BY AnswerOnRecord
<1>5. NativeHits(c) = Cardinality(Right(answers))
  <2>1. {j \in Graded : ClassOf(c, stream[j].id) = stream[j].label}
          = {m + k : k \in Right(answers)}
    BY <1>2, <1>3 DEF Right
  <2> QED BY <2>1, RightCount DEF NativeHits
<1>6. OrtHits(c) = Cardinality(Right(outputs))
  <2>1. {j \in Graded : outputs[files[stream[j].path]] = stream[j].label}
          = {m + k : k \in Right(outputs)}
    BY <1>2, <1>3 DEF Right
  <2> QED BY <2>1, RightCount DEF OrtHits
<1>7. TrueHits(c) = Cardinality(Right(IF AnsweredAll(c) THEN answers ELSE outputs))
  BY <1>1 DEF TrueHits, Right
<1> HIDE DEF answers, outputs
<1>8. Hits(c) = Cardinality(Right(IF AnsweredAll(c) THEN answers ELSE outputs))
  BY <1>5, <1>6, AnswersAreTrue DEF Hits
<1> QED BY <1>7, <1>8, RightCount

LEMMA SizesAgree ==
  ASSUME Control, Streamed, d.kind # "yolo", Len(d.eval) > 0
  PROVE  Cardinality(Graded) = Cardinality(Grading) /\ Cardinality(Grading) \in Nat
BY GradingIs, GradedPositions, GradedCount DEF Streamed

(* The detections that count for an image of the evaluation set are the       *)
(* worker's on that image.                                                    *)
Detection(k) == [id |-> <<d.eval[k].id, 0>>, class |-> d.eval[k].label]

LEMMA DetectedIsTrue ==
  ASSUME Control, Streamed, ~Confused, d.kind = "yolo", NEW c, DetectionsOk(c),
         NEW k \in DOMAIN d.eval
  PROVE  Detection(k) \in OnEvaluationSet(c)
           <=> trials[c].answers[ItemAt(k).content] = ItemAt(k).label
<1> DEFINE m == Len(d.calib)
           answers == trials[c].answers
<1>1. k \in ToGrade /\ k \in 1..Len(d.eval) /\ Len(d.eval) > 0
  <2> DEFINE n == Len(d.eval)  r == Needed(d)
  <2>1. n \in Nat /\ r \in Nat /\ k \in 1..n
    BY SplitLengths, StreamShape
  <2> HIDE DEF n, r
  <2>2. k \in 1..(n + r) /\ n > 0
    BY <2>1
  <2> QED BY <2>1, <2>2 DEF n, r, ToGrade
<1>2. /\ ItemAt(k) = d.eval[k] /\ Slot(k) = k /\ GradedId(k) = <<d.eval[k].id, 0>>
  <2>1. Slot(k) = k /\ ItemAt(k) = d.eval[Slot(k)]
    BY <1>1, SlotOf DEF ItemAt, Slot
  <2>2. k <= Len(d.eval)
    <3> DEFINE n == Len(d.eval)
    <3>1. k \in 1..n
      BY <1>1
    <3> HIDE DEF n
    <3>2. k <= n
      BY <3>1
    <3> QED BY <3>2 DEF n
  <2>3. EvalId(d, k) = d.eval[k].id
    BY DEF EvalId, Named, Confused
  <2> QED BY <2>1, <2>2, <2>3 DEF GradedId
<1>3. ItemAt(k).label # Silent /\ d.eval[k] \in Range(d.eval)
  <2>1. d.eval[k] \in Range(d.eval)
    BY DEF Range
  <2>2. \A item \in Range(d.eval) : item.label # Silent
    BY EvidenceAssumption DEF Control, EvidenceTypeOK, d
  <2> QED BY <1>2, <2>1, <2>2
<1>4. /\ m + k \in DOMAIN stream /\ stream[m + k].id = <<d.eval[k].id, 0>>
      /\ files[stream[m + k].path] = ItemAt(k).content
  BY <1>1, <1>2, EntryToGrade DEF Streamed, Shown
<1>5. detections[c] = {a \in {AnswerTo(c, j) : j \in DOMAIN stream} : a.class # Silent}
  BY DEF DetectionsOk, DetectionsOf
<1>6. \A j : AnswerTo(c, j) =
        [id |-> stream[j].id, class |-> answers[files[stream[j].path]]]
  BY DEF AnswerTo
<1>7. Detection(k).id \in {<<i.id, 0>> : i \in Range(d.eval)}
  BY <1>3 DEF Detection
<1>8. CASE answers[ItemAt(k).content] = ItemAt(k).label
  <2>1. Detection(k) = AnswerTo(c, m + k)
    BY <1>2, <1>4, <1>6, <1>8 DEF Detection
  <2>2. Detection(k).class # Silent
    BY <1>2, <1>3 DEF Detection
  <2>3. Detection(k) \in detections[c]
    BY <1>4, <1>5, <2>1, <2>2
  <2> QED BY <1>7, <1>8, <2>3 DEF OnEvaluationSet
<1>9. CASE Detection(k) \in OnEvaluationSet(c)
  <2>1. Detection(k) \in detections[c]
    BY <1>9 DEF OnEvaluationSet
  <2>2. PICK j \in DOMAIN stream : Detection(k) = AnswerTo(c, j)
    BY <1>5, <2>1
  <2>3. /\ stream[j].id = <<d.eval[k].id, 0>>
        /\ answers[files[stream[j].path]] = d.eval[k].label
    BY <1>6, <2>2 DEF Detection
  <2>4. ~(j \in 1..m /\ stream[j].id = <<CalibId(d, j), 0>>)
    <3> SUFFICES ASSUME j \in 1..m, stream[j].id = <<CalibId(d, j), 0>> PROVE FALSE
      OBVIOUS
    <3>1. CalibId(d, j) = EvalId(d, k)
      BY <2>3 DEF EvalId, Named, Confused
    <3>2. j \in DOMAIN d.calib
      BY DatasetType, Lengths
    <3> QED BY <3>1, <3>2 DEF Confused
  <2>5. PICK i \in ToGrade : j = m + i
    BY <2>4, Positions DEF Streamed
  <2>6. GradedId(i) = GradedId(k)
    BY <1>2, <2>3, <2>5, EntryToGrade DEF Streamed
  <2>7. i = k
    BY <1>1, <2>6, GradedIdsDiffer DEF Confused, NamesDiffer
  <2>8. stream[j].path = stream[m + k].path
    BY <2>5, <2>7
  <2> HIDE DEF answers, m
  <2>9. answers[ItemAt(k).content] = ItemAt(k).label
    BY <1>2, <1>4, <2>3, <2>8
  <2> QED BY <1>9, <2>9 DEF answers
<1> QED BY <1>8, <1>9

LEMMA PrecisionIsTrue ==
  ASSUME Control, Streamed, ~Confused, d.kind = "yolo", NEW c, DetectionsOk(c)
  PROVE  /\ MeanPrecision(OnEvaluationSet(c)) = TrueHits(c)
         /\ TrueHits(c) \in Nat
<1> DEFINE found == {k \in DOMAIN d.eval :
                       trials[c].answers[ItemAt(k).content] = ItemAt(k).label}
<1>1. Len(d.eval) \in Nat /\ DOMAIN d.eval = 1..Len(d.eval)
  BY SplitLengths
<1>2. Grading = DOMAIN d.eval
  BY <1>1 DEF Grading
<1>3. TrueHits(c) = Cardinality(found)
  BY <1>2 DEF TrueHits
<1>4. {k \in DOMAIN d.eval : Detection(k) \in OnEvaluationSet(c)} = found
  BY DetectedIsTrue
<1>5. MeanPrecision(OnEvaluationSet(c)) = Cardinality(found)
  BY <1>4 DEF MeanPrecision, Detection
<1>6. Cardinality(found) \in Nat
  <2>1. found \in SUBSET (1..Len(d.eval))
    BY <1>1
  <2> HIDE DEF found
  <2>2. 0 \in Int
    OBVIOUS
  <2> QED BY <1>1, <2>1, <2>2, ShiftedSize
<1> QED BY <1>3, <1>5, <1>6

LEMMA ImagesCounted ==
  ASSUME Control, d.kind = "yolo"
  PROVE  Cardinality(Grading) = Len(d.eval) /\ Len(d.eval) \in Nat
<1> DEFINE n == Len(d.eval)
<1>1. n \in Nat /\ Grading = 1..n
  BY SplitLengths DEF Grading
<1> HIDE DEF n
<1>2. Cardinality(1..n) = n
  <2>1. Cardinality(1..n) = IF 1 > n THEN 0 ELSE n - 1 + 1
    BY <1>1, FS_Interval
  <2> QED BY <1>1, <2>1
<1> QED BY <1>1, <1>2 DEF n

------------------------------------------------------------------------------
(* An evaluation of what is on record.                                        *)
Bases == {b \in Candidates : IsBaseline(b)}

OnRecord ==
  /\ Control /\ Streamed /\ ~Confused
  /\ d.kind \in {"raw_tensor", "image_classification", "yolo"}
  /\ \A c \in ToMeasure : RowsOk(c) /\ DetectionsOk(c)
  /\ Bases \subseteq ToMeasure
  /\ BaselinesWith(rows) = Bases /\ BaselinesWith(detections) = Bases

Reference(c) == IF IsBaseline(c) THEN TrueHits(c) ELSE TrueHits(Min(Bases))

Sufficient(c) ==
  /\ TrueHits(c) * 100 >= cfg.minimum * Cardinality(Grading)
  /\ cfg.maxDegradation # Unlimited =>
       (Reference(c) - TrueHits(c)) * 100 <= cfg.maxDegradation * Cardinality(Grading)

Faithful(c, doc) ==
  /\ doc.value # Unavailable => doc.value = TrueHits(c)
  /\ doc.ok /\ d.kind # "raw_tensor" => doc.value # Unavailable /\ Sufficient(c)

LEMMA UnmeasuredIsFaithful ==
  ASSUME NEW c, NEW e
  PROVE  Faithful(c, Unmeasured(e)) /\ ~Unmeasured(e).ok
<1>1. Unmeasured(e).value = Unavailable /\ ~Unmeasured(e).ok
  BY DEF Unmeasured
<1> QED BY <1>1 DEF Faithful

LEMMA BaseIsCandidate ==
  ASSUME Bases # {}
  PROVE  Min(Bases) \in Bases /\ Min(Bases) \in Candidates /\ IsBaseline(Min(Bases))
<1>1. Bases \in SUBSET Nat
  BY EvidenceAssumption DEF Bases
<1>2. Min(Bases) \in Bases
  BY <1>1, MinIsMember
<1> QED BY <1>2 DEF Bases

LEMMA ClassifiedIsFaithful ==
  ASSUME OnRecord, NEW c \in ToMeasure, d.kind = "image_classification",
         Graded # {}, ~CannotEvaluate(c)
  PROVE  Faithful(c, Classified(c))
<1>1. Len(d.eval) > 0
  BY NothingToGrade DEF OnRecord
<1>2. \A b \in ToMeasure : Hits(b) = TrueHits(b) /\ TrueHits(b) \in Nat
  BY <1>1, HitsAreTrue DEF OnRecord, Confused, NamesDiffer
<1>3. Cardinality(Graded) = Cardinality(Grading)
  BY <1>1, SizesAgree DEF OnRecord
<1>4. TrueHits(c) # Unavailable
  BY <1>2, EvidenceAssumption
<1>5. CASE ~Labelled
  BY <1>5, UnmeasuredIsFaithful DEF Classified
<1>6. CASE Labelled
  <2> DEFINE good == GoodEnough(Hits(c), BaselineHits(c), Cardinality(Graded))
  <2>1. Classified(c) = [value |-> Hits(c), equivalent |-> TRUE, ok |-> good]
    BY <1>6, Zenon DEF Classified
  <2> HIDE DEF good
  <2>2. Classified(c).value = TrueHits(c) /\ (Classified(c).ok => good)
    BY <1>2, <2>1
  <2>3. cfg.maxDegradation # Unlimited =>
          BaselineHits(c) # Unavailable /\ BaselineHits(c) = Reference(c)
    <3> SUFFICES ASSUME cfg.maxDegradation # Unlimited
                 PROVE  BaselineHits(c) # Unavailable /\ BaselineHits(c) = Reference(c)
      OBVIOUS
    <3>1. BaselineHits(c) # Unavailable
      BY <1>6 DEF CannotEvaluate
    <3>2. CASE IsBaseline(c)
      BY <1>2, <3>1, <3>2 DEF BaselineHits, Reference
    <3>3. CASE ~IsBaseline(c)
      <4> DEFINE b == Min(Bases)
      <4>1. Bases # {} /\ HasAnswers(b) /\ BaselineHits(c) = NativeHits(b)
        BY <3>1, <3>3 DEF BaselineHits, OnRecord
      <4>2. Hits(b) = NativeHits(b) /\ b \in ToMeasure
        BY <4>1, BaseIsCandidate DEF Hits, OnRecord
      <4> QED BY <1>2, <3>1, <3>3, <4>1, <4>2 DEF Reference
    <3> QED BY <3>2, <3>3
  <2>4. good => Sufficient(c)
    BY <1>2, <1>3, <2>3 DEF good, GoodEnough, Sufficient
  <2> QED BY <1>4, <2>2, <2>4 DEF Faithful
<1> QED BY <1>5, <1>6

LEMMA DetectedIsFaithful ==
  ASSUME OnRecord, NEW c \in ToMeasure, d.kind = "yolo"
  PROVE  Faithful(c, Detected(c))
<1> DEFINE base == IF Bases = {} THEN None ELSE Min(Bases)
           baseline == IF base = None THEN Unavailable
                       ELSE MeanPrecision(OnEvaluationSet(base))
           value == MeanPrecision(OnEvaluationSet(c))
           useless == \/ base = None /\ cfg.maxDegradation # Unlimited
                      \/ base # None /\ OnEvaluationSet(base) = {}
                      \/ OnEvaluationSet(c) = {}
           good == GoodEnough(value, baseline, Len(d.eval))
<1>1. \A b \in ToMeasure :
        MeanPrecision(OnEvaluationSet(b)) = TrueHits(b) /\ TrueHits(b) \in Nat
  BY PrecisionIsTrue DEF OnRecord
<1>2. Cardinality(Grading) = Len(d.eval) /\ Len(d.eval) \in Nat
  BY ImagesCounted DEF OnRecord
<1>3. value = TrueHits(c) /\ TrueHits(c) \in Nat /\ TrueHits(c) # Unavailable
  BY <1>1, EvidenceAssumption
<1>4. Detected(c) = IF useless THEN Unmeasured(TRUE)
                    ELSE [value |-> value, equivalent |-> TRUE, ok |-> good]
  BY Zenon DEF Detected, OnRecord
<1>5. CASE useless
  BY <1>4, <1>5, UnmeasuredIsFaithful
<1>6. CASE ~useless
  <2>1. Detected(c) = [value |-> value, equivalent |-> TRUE, ok |-> good]
    BY <1>4, <1>6, Zenon
  <2>2. cfg.maxDegradation # Unlimited =>
          baseline # Unavailable /\ baseline = TrueHits(Min(Bases))
    <3> SUFFICES ASSUME cfg.maxDegradation # Unlimited
                 PROVE  baseline # Unavailable /\ baseline = TrueHits(Min(Bases))
      OBVIOUS
    <3>1. base # None /\ Bases # {} /\ base = Min(Bases)
      BY <1>6
    <3>2. base \in ToMeasure
      BY <3>1, BaseIsCandidate DEF OnRecord
    <3>3. baseline = TrueHits(base) /\ TrueHits(base) \in Nat
      BY <1>1, <3>1, <3>2
    <3> QED BY <3>1, <3>3, EvidenceAssumption
  <2> HIDE DEF good, value, baseline, useless, base
  <2>3. Detected(c).value = TrueHits(c) /\ (Detected(c).ok => good)
    BY <1>3, <2>1
  <2>4. good =>
          /\ TrueHits(c) * 100 >= cfg.minimum * Cardinality(Grading)
          /\ cfg.maxDegradation # Unlimited =>
               (TrueHits(Min(Bases)) - TrueHits(c)) * 100
                 <= cfg.maxDegradation * Cardinality(Grading)
    BY <1>2, <1>3, <2>2 DEF good, GoodEnough
  <2>5. cfg.maxDegradation # Unlimited =>
          (TrueHits(c) - TrueHits(c)) * 100 <= cfg.maxDegradation * Cardinality(Grading)
    <3>1. cfg.maxDegradation \in Nat \cup {Unlimited}
      BY EvidenceAssumption DEF OnRecord, Control, EvidenceTypeOK
    <3>2. ASSUME cfg.maxDegradation # Unlimited
          PROVE  cfg.maxDegradation * Cardinality(Grading) \in Nat
      BY <1>2, <3>1, <3>2
    <3>3. (TrueHits(c) - TrueHits(c)) * 100 = 0
      BY <1>3
    <3> QED BY <3>2, <3>3
  <2>6. good => Sufficient(c)
    BY <2>4, <2>5 DEF Sufficient, Reference
  <2> QED BY <1>3, <2>3, <2>6 DEF Faithful
<1> QED BY <1>5, <1>6

LEMMA QualityIsFaithful ==
  ASSUME OnRecord, NEW c \in ToMeasure, ~CannotEvaluate(c)
  PROVE  Faithful(c, Quality(c))
<1>1. CASE Graded = {}
  BY <1>1, UnmeasuredIsFaithful DEF Quality
<1>2. CASE Graded # {} /\ d.kind = "raw_tensor"
  <2>1. Quality(c) = Compared(c)
    BY <1>2 DEF Quality
  <2>2. Compared(c).value = Unavailable
    BY DEF Compared
  <2> QED BY <1>2, <2>1, <2>2 DEF Faithful
<1>3. CASE Graded # {} /\ d.kind = "yolo"
  BY <1>3, DetectedIsFaithful DEF Quality
<1>4. CASE Graded # {} /\ d.kind = "image_classification"
  BY <1>4, ClassifiedIsFaithful DEF Quality
<1> QED BY <1>1, <1>2, <1>3, <1>4 DEF OnRecord

(* Once the benchmark is recorded, everything is on record.                   *)
LEMMA RecordedIsOnRecord ==
  ASSUME Control, TrialsInv, InputsInv, StreamInv, Generated,
         "benchmarking" \in steps, ~Confused
  PROVE  OnRecord
<1>1. {"datasets", "dataset_stream", "candidates"} \subseteq steps
  BY DEF Control, InOrder
<1>2. Streamed
  BY <1>1 DEF StreamInv, StreamWritten, Streamed, Confused, NamesDiffer
<1>3. d.kind \in {"raw_tensor", "image_classification", "yolo"}
  BY <1>1 DEF InputsInv, AdmittedOk, Admitted, Valid
<1>4. \A c \in ToMeasure : RowsOk(c) /\ DetectionsOk(c)
  BY DEF TrialsInv, TrialsAreComparable, Recorded, ToMeasure, RowsOk, DetectionsOk
<1>5. Bases \subseteq ToMeasure
  BY <1>1 DEF Generated, CandidatesMade, Bases, ToMeasure
<1>6. DOMAIN rows \subseteq Candidates /\ DOMAIN detections \subseteq Candidates
  BY DEF Control, EvidenceTypeOK
<1>7. BaselinesWith(rows) = Bases /\ BaselinesWith(detections) = Bases
  BY <1>4, <1>5, <1>6 DEF BaselinesWith, Bases, ToMeasure, RowsOk, DetectionsOk
<1> QED BY <1>2, <1>3, <1>4, <1>5, <1>7 DEF OnRecord

LEMMA QualityInv ==
  ASSUME Control, TrialsInv, InputsInv, StreamInv, Generated, EvaluationInv
  PROVE  QualityIsMeasured
<1> SUFFICES ASSUME Recorded("evaluating_quality"), ~Confused,
                    NEW c \in Candidates, evaluation[c] # None
             PROVE  Faithful(c, evaluation[c])
  BY DEF QualityIsMeasured, Faithful, Sufficient, Reference, Bases
<1>1. "benchmarking" \in steps /\ Evaluated(c)
  BY DEF EvaluationInv
<1>2. c \in ToMeasure
  BY <1>1, EvidenceAssumption DEF Evaluated, ToMeasure
<1>3. OnRecord
  BY <1>1, RecordedIsOnRecord
<1> QED BY <1>1, <1>2, <1>3, QualityIsFaithful DEF Evaluated

(* An evaluation on record states the number of evaluation images that the    *)
(* candidate's trial on record answers right, and passes only when that is    *)
(* enough, by itself and against the measured baseline: for every number of   *)
(* images and repetitions, whatever sessions wrote rows, files and trials.    *)
THEOREM QualityIsAlwaysMeasured == EvidenceSpec => []QualityIsMeasured
<1>1. Control /\ TrialsInv /\ InputsInv /\ StreamInv /\ Generated /\ EvaluationInv
        => QualityIsMeasured
  BY QualityInv
<1> QED BY <1>1, ControlHolds, TrialsInvHolds, InputsInvHolds, StreamInvHolds,
        GeneratedHolds, EvaluationInvHolds, PTL

LEMMA EntitledInv ==
  ASSUME Control, TrialsInv, InputsInv, StreamInv, Generated, EvaluationInv,
         CertifiedInv, NEW c \in Candidates, certified[c] = TRUE
  PROVE  /\ trials[c].p99 <= cfg.deadline
         /\ trials[c].rss # Unavailable /\ trials[c].rss <= cfg.maxRss
         /\ trials[c].registered
         /\ d.eval # <<>>
         /\ d.kind = "raw_tensor" => Equal(c)
         /\ d.kind # "raw_tensor" /\ ~Confused =>
              TrueHits(c) * 100 >= cfg.minimum * Cardinality(Grading)
         /\ cfg.requireEnvironment => environment.status = "valid"
<1> DEFINE context == Context(cfg, ModelOf[c], trials[c], evaluation[c], environment)
<1>1. /\ "evaluating_quality" \in steps /\ "benchmarking" \in steps
      /\ "dataset_stream" \in steps
      /\ trials[c] # None /\ PassesGates(cfg, context)
  BY DEF CertifiedInv, Passed, Control, InOrder
<1>2. c \in ToMeasure /\ Evaluated(c)
  <2>1. c \in ToMeasure
    BY <1>1 DEF Generated, ToMeasure
  <2>2. status[c] = "measured"
    BY <1>1, <2>1 DEF TrialsInv, Finished
  <2> QED BY <1>1, <2>1, <2>2 DEF EvaluationInv, AllEvaluated
<1>3. /\ context.latency /\ context.memory /\ context.provider /\ context.quality
      /\ cfg.requireEnvironment => context.environment
  BY <1>1 DEF PassesGates, Required, Context
<1>4. trials[c].p99 <= cfg.deadline
  BY <1>3 DEF Context
<1>5. trials[c].rss # Unavailable /\ trials[c].rss <= cfg.maxRss
  BY <1>3 DEF Context
<1>6. trials[c].registered
  BY <1>3 DEF Context, ProviderOk
<1>7. Quality(c).ok
  BY <1>2, <1>3 DEF Context, Evaluated
<1>8. Graded # {}
  BY <1>7, UnmeasuredIsFaithful DEF Quality
<1>9. d.eval # <<>>
  <2>1. stream = StreamOf(d)
    BY <1>1 DEF StreamInv, StreamWritten
  <2>2. CASE d.eval = <<>>
    <3>1. Len(d.eval) = 0
      BY <2>2
    <3>2. Graded = {}
      BY <2>1, <2>2, <3>1, NothingToGrade DEF Streamed
    <3> QED BY <1>8, <3>2
  <2> QED BY <2>2
<1>10. d.kind = "raw_tensor" => Equal(c)
  BY <1>7, <1>8 DEF Quality, Compared
<1>11. d.kind # "raw_tensor" /\ ~Confused =>
         TrueHits(c) * 100 >= cfg.minimum * Cardinality(Grading)
  <2> SUFFICES ASSUME d.kind # "raw_tensor", ~Confused
               PROVE  TrueHits(c) * 100 >= cfg.minimum * Cardinality(Grading)
    OBVIOUS
  <2>1. Faithful(c, Quality(c))
    BY <1>1, <1>2, RecordedIsOnRecord, QualityIsFaithful DEF Evaluated
  <2> QED BY <1>7, <2>1 DEF Faithful, Sufficient
<1>12. cfg.requireEnvironment => environment.status = "valid"
  BY <1>3 DEF Context, CertifiedInv, WarningsOk
<1> QED BY <1>4, <1>5, <1>6, <1>9, <1>10, <1>11, <1>12

(* A candidate is certified only by a trial within the deadline and the       *)
(* memory limit and an evaluation that passed: a failing, silent or missing   *)
(* document certifies nothing, in whichever session it was written.           *)
THEOREM CertifiedIsAlwaysEntitled == EvidenceSpec => []CertifiedIsEntitled
<1>1. Control /\ TrialsInv /\ InputsInv /\ StreamInv /\ Generated /\ EvaluationInv
        /\ CertifiedInv => CertifiedIsEntitled
  BY EntitledInv DEF CertifiedIsEntitled
<1> QED BY <1>1, ControlHolds, TrialsInvHolds, InputsInvHolds, StreamInvHolds,
        GeneratedHolds, EvaluationInvHolds, CertifiedInvHolds, PTL
==============================================================================
