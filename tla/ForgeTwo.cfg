SPECIFICATION ForgeSpec
CONSTANTS
  base = base
  quant = quant
  Procs = {f1, f2}
  Writers = {f1, f2}
  EntryOf <- MCEntryOf
  Absent = Absent
  Torn = Torn
  Free = Free
  Stale = Stale
  Models = {base}
  Quantized = {}
  Quality <- BaseQuality
  QualityFloor = 1
  Measures = {1}
  Deadline = 2
  SignsBundle = FALSE
  MaxFaults = 1
SYMMETRY ProcSymmetry
INVARIANTS
  OneExecutorUnlessRaced
PROPERTIES
  ForgeKeepsLockProtocol
