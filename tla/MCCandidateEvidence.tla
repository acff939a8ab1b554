------------------------- MODULE MCCandidateEvidence -------------------------
(* Small instance of a run's evidence: a quantized candidate, sorted first, *)
(* and two session variants of the baseline model; contents x and y of      *)
(* which x shows class 0 and y class 1; and a configuration for each kind   *)
(* of model, dataset and limit.                                             *)
EXTENDS CandidateEvidence, TLC

CONSTANTS x, y, fp32, int8   (* contents; models *)

MCModelOf == <<int8, fp32, fp32>>
MCOutputOf == fp32 :> (x :> 0 @@ y :> 1) @@ int8 :> (x :> 0 @@ y :> 0)

(* Ids 2 and 3 share their file name; 0 stands for no id. *)
MCNumbered == "calib" :> <<10, 11>> @@ "eval" :> <<20, 21>>
MCFileName == [id \in {0, 1, 2, 10, 11, 20, 21} |-> id] @@ 3 :> 2

Item(id, content, label) == [id |-> id, content |-> content, label |-> label]

Dataset(kind, calib, eval, measured, apart) ==
  [kind |-> kind, calib |-> calib, eval |-> eval, measured |-> measured,
   apart |-> apart, same |-> FALSE]

Sharing == <<Item(1, y, 1), Item(2, y, 1)>>
Default ==
  [dataset |-> Dataset("image_classification", <<Item(1, x, 0)>>, Sharing, 3, TRUE),
   quantize |-> TRUE, calibrationLimit |-> Unlimited, tolerance |-> 0,
   minimum |-> 60, maxDegradation |-> 40, deadline |-> 10, maxRss |-> 10,
   workerRss |-> Unlimited, requireEquivalence |-> FALSE,
   requireXnnpack |-> FALSE, maxFallback |-> Unlimited,
   requireEnvironment |-> TRUE, requireUnthrottled |-> FALSE,
   maxStart |-> Unlimited, maxDrift |-> Unlimited,
   sound |-> {fp32, int8}, inputsKnown |-> TRUE, sameShapes |-> TRUE]

With(dataset) == [Default EXCEPT !.dataset = dataset]

MCConfigs == {
  Default,
  (* hot hosts *)
  [Default EXCEPT !.maxStart = 50, !.maxDrift = 5, !.requireUnthrottled = TRUE,
                  !.dataset.measured = 1],
  (* limits on the workers and their providers, broken quantized model *)
  [With(Dataset("image_classification", <<Item(1, x, 0)>>, <<Item(2, y, 1)>>, 1, FALSE))
     EXCEPT !.workerRss = 15, !.requireXnnpack = TRUE, !.maxFallback = 60,
            !.requireEnvironment = FALSE, !.sound = {fp32},
            !.maxDegradation = Unlimited],
  (* the baseline alone, no label *)
  [With(Dataset("image_classification", <<Item(1, x, 0)>>, <<Item(1, y, NoLabel)>>, 2, FALSE))
     EXCEPT !.quantize = FALSE],
  (* items without an id, and an image with id 0 *)
  With(Dataset("image_classification", <<Item(0, x, 0)>>,
               <<Item(0, y, 1), Item(0, x, 0)>>, 1, FALSE)),
  With(Dataset("yolo", <<Item(0, x, 0)>>, <<Item(0, y, 1), Item(1, x, 0)>>, 1, FALSE)),
  (* an item in both sets, kept apart or not *)
  With(Dataset("image_classification", <<Item(1, x, 0)>>, <<Item(2, x, 0)>>, 1, TRUE)),
  [With(Dataset("raw_tensor", <<Item(1, x, 0)>>, <<Item(2, x, 0), Item(3, y, 0)>>, 1, FALSE))
     EXCEPT !.requireEquivalence = TRUE, !.calibrationLimit = 1],
  [With(Dataset("raw_tensor", <<Item(1, x, 0)>>, <<Item(2, y, 0)>>, 1, TRUE))
     EXCEPT !.sameShapes = FALSE],
  With(Dataset("yolo", <<Item(3, x, 0)>>, Sharing, 3, TRUE)),
  (* no evaluation images, no images at all, one that does not fit *)
  With(Dataset("yolo", <<Item(1, x, 0)>>, <<>>, 2, TRUE)),
  With(Dataset("yolo", <<>>, <<>>, 2, TRUE)),
  With(Dataset("yolo", <<>>, <<Item(1, x, 0)>>, 2, TRUE)),
  With(Dataset("yolo", <<Item(1, x, 0)>>, <<Item(2, Misfit, 0)>>, 1, TRUE))}

Report(p99, rss, xnnpack, answerX, answerY) ==
  [p99 |-> p99, rss |-> rss, registered |-> TRUE, xnnpack |-> xnnpack,
   answers |-> x :> answerX @@ y :> answerY]

MCReports == {Report(5, 5, 50, 0, 1), Report(20, 20, Unavailable, 0, 0),
              Report(5, Unavailable, 50, 0, Silent)}

MCReadings == {
  [valid |-> TRUE, celsius |-> 48, throttled |-> FALSE],
  [valid |-> TRUE, celsius |-> 52, throttled |-> FALSE],
  [valid |-> FALSE, celsius |-> Unavailable, throttled |-> Unavailable]}
==============================================================================
