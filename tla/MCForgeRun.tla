------------------------------ MODULE MCForgeRun ------------------------------
(* Small instances of a forge run: the baseline and one quantized model of  *)
(* lower quality, and trials that meet the deadline or miss it.             *)
EXTENDS ForgeRun, TLC

CONSTANTS base, quant   (* the models *)

MCQuality == base :> 2 @@ quant :> 1
BaseQuality == base :> 2

(* All processes on the run index it, the others a run of their own. *)
MCEntryOf == [w \in Writers |-> IF w \in Procs THEN "run" ELSE "other"]

(* The processes of one run are interchangeable. *)
ProcSymmetry == Permutations(Procs)
===============================================================================
