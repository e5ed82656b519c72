SPECIFICATION Spec
CONSTANTS
  PresentIds = {0, 1, 2, 3}
  HistoryCap = 2
  Time = {1, 2}
  MaxFrames = 4
INVARIANTS TypeOK IndexCoherent  ReportNewestFirst LatestEndsWindow
PROPERTY ShowsRecent
CHECK_DEADLOCK FALSE
