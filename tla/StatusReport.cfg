SPECIFICATION Spec
CONSTANTS
  r1 = r1
  r2 = r2
  Reporter <- Reporters
  MaxReports = 2
  MaxBreaks = 1
  MaxResends = 1
  MaxGets = 1
SYMMETRY ReporterSymmetry
INVARIANTS ReportTypeOK LatestDelivered
PROPERTY LatestNeverGoesBack
CHECK_DEADLOCK FALSE
