SPECIFICATION LiveForgeSpec
CONSTANTS
  base = base
  quant = quant
  Procs = {f1}
  Writers = {f1, other}
  EntryOf <- MCEntryOf
  Absent = Absent
  Torn = Torn
  Free = Free
  Stale = Stale
  Models = {base, quant}
  Quantized = {quant}
  Quality <- MCQuality
  QualityFloor = 1
  Measures = {1, 3}
  Deadline = 2
  SignsBundle = TRUE
  MaxFaults = 2
INVARIANTS
  ForgeTypeOK
  RecordedStepsHold
  PackagedMatchesEvidence
PROPERTIES
  IndexOnlyGrows
  CrashedRunIsResumable
