----------------------------- MODULE BenchStream -----------------------------
(***************************************************************************)
(* The datasets of a run (perceptshift_forge/datasets): the two manifests  *)
(* are validated and kept apart, and every item becomes a file of pixels   *)
(* or tensors under inputs/stream/<role>, named by its sanitised sample id, and   *)
(* an entry of bench-stream.json (stream.py).  Decoding, resizing and      *)
(* packing keep what an item shows, its content; digests tell contents     *)
(* apart.                                                                  *)
(*                                                                         *)
(* A dataset is [kind, calib, eval, measured, apart, same]: its adapter, two *)
(* sequences of items [id, content, label], the number of measured         *)
(* iterations, prohibit_cross_split_duplicates, and whether both manifests *)
(* are the same document.                                                  *)
(***************************************************************************)
EXTENDS Integers, Sequences, Functions

CONSTANTS
  FileName,     (* _safe_id: the file name of each id; two may share one   *)
  NoId,         (* the id of an item without one; an image id 0 counts as none *)
  Numbered,     (* the ids "<role>-<index>" that samples get instead       *)
  Missing,      (* the content of an item whose file is not there          *)
  Misfit        (* the content of an item that does not fit the model      *)

Contents(items) == {items[k].content : k \in DOMAIN items}

Readable(items) == Missing \notin Contents(items)

(* The validators of the three adapters: only raw tensors have to have      *)
(* distinct ids, those that have one, and only a detection manifest may     *)
(* list nothing.                                                            *)
ValidTensors(items) ==
  /\ Readable(items) /\ items # <<>>
  /\ \A j, k \in DOMAIN items :
       items[j].id = items[k].id /\ items[j].id # NoId => j = k

ValidImages(items) == Readable(items) /\ items # <<>>

ValidDetections(items) == Readable(items)

Valid(kind, items) ==
  \/ kind = "raw_tensor" /\ ValidTensors(items)
  \/ kind = "image_classification" /\ ValidImages(items)
  \/ kind = "yolo" /\ ValidDetections(items)

(* Deviation: only the manifests are compared, not their contents. *)
IsolatedByManifest(d) == ~d.same

(* assert_split_isolation. *)
Isolated(d) ==
  /\ ~d.same
  /\ d.apart => Contents(d.calib) \cap Contents(d.eval) = {}

Admitted(d) == Valid(d.kind, d.calib) /\ Valid(d.kind, d.eval) /\ Isolated(d)

Items(d) == d.calib \o d.eval

RoleOf(d, k) == IF k <= Len(d.calib) THEN "calib" ELSE "eval"

(* The sample id of an item. *)
Named(item, role, index) ==
  IF item.id = NoId THEN Numbered[role][index] ELSE item.id

CalibId(d, k) == Named(d.calib[k], "calib", k)
EvalId(d, k) == Named(d.eval[k], "eval", k)

SampleId(d, k) ==
  IF k <= Len(d.calib) THEN CalibId(d, k) ELSE EvalId(d, k - Len(d.calib))

PathOf(d, k) == <<RoleOf(d, k), FileName[SampleId(d, k)]>>

(* _maybe_reshape: no padding, no truncation. *)
Fits(d, k) == Items(d)[k].content # Misfit

(* The files under inputs/stream after item k is materialized: a later item *)
(* of the same split takes the file of an earlier one with its name.        *)
Materialized(files, d, k) ==
  [path \in DOMAIN files \cup {PathOf(d, k)} |->
     IF path = PathOf(d, k) THEN Items(d)[k].content ELSE files[path]]

(* The second part of an id numbers the repetitions (#iter1, ...). *)
EntryOf(d, k) ==
  [id |-> <<SampleId(d, k), 0>>, role |-> RoleOf(d, k),
   path |-> PathOf(d, k), label |-> Items(d)[k].label]

Entries(d) == [k \in 1..Len(Items(d)) |-> EntryOf(d, k)]

(* load_stream_tensors: the entries of a split. *)
OfRole(entries, role) == {k \in DOMAIN entries : entries[k].role = role}

(* The i-th repetition that fills the evaluation split up to the number of  *)
(* measured iterations: the evaluation entries, one after the other.        *)
Repetition(d, i) ==
  [EntryOf(d, Len(d.calib) + ((i - 1) % Len(d.eval)) + 1)
     EXCEPT !.id = <<@[1], i>>]

Needed(d) ==
  IF d.measured > 1 /\ Len(d.eval) > 0 /\ d.measured > Len(d.eval)
  THEN d.measured - Len(d.eval) ELSE 0

(* Deviation: the evaluation entries come first. *)
EvaluationFirst(d) ==
  [k \in 1..Len(d.eval) |-> EntryOf(d, Len(d.calib) + k)]
    \o [k \in 1..Len(d.calib) |-> EntryOf(d, k)]
    \o [i \in 1..Needed(d) |-> Repetition(d, i)]

(* build_benchmark_stream: the samples of bench-stream.json. *)
StreamOf(d) == Entries(d) \o [i \in 1..Needed(d) |-> Repetition(d, i)]
==============================================================================
