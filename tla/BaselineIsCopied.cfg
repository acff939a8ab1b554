SPECIFICATION ForgeSpec
CONSTANTS
  base = base
  quant = quant
  Procs = {f1}
  Writers = {f1}
  EntryOf <- MCEntryOf
  Absent = Absent
  Torn = Torn
  Free = Free
  Stale = Stale
  Models = {base, quant}
  Quantized = {quant}
  Quality <- MCQuality
  QualityFloor = 1
  Measures = {1, 2, 3}
  Deadline = 2
  SignsBundle = FALSE
  MaxFaults = 2

INVARIANTS
  BaselineIsCopied
