SPECIFICATION EvidenceSpec
CONSTANTS
  x = x
  y = y
  fp32 = fp32
  int8 = int8
  Missing = Missing
  Misfit = Misfit
  Unavailable = Unavailable
  Unlimited = Unlimited
  Silent = Silent
  NoLabel = NoLabel
  None = None
  Candidates = {1, 2, 3}
  BaselineModel = fp32
  ModelOf <- MCModelOf
  OutputOf <- MCOutputOf
  FileName <- MCFileName
  NoId = 0
  Numbered <- MCNumbered
  Configs <- MCConfigs
  Reports <- MCReports
  Readings <- MCReadings
  MaxSessions = 2
INVARIANTS
  CalibrationIsSeparate
  TrialsAreComparable
  QualityIsMeasured
  CertifiedIsEntitled
CHECK_DEADLOCK FALSE
