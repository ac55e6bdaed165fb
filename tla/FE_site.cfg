SPECIFICATION FairSpec
CONSTANTS
  History <- MCHistory
  Slot = {1, 2}
  MaxOutages = 1
  JobId = {a}
  Typed <- MCTyped
  MaxTimers = 2
  MaxRuns = 2
  BatchSize = 3
  CONCURRENCY = 2
  MaxFailures = 1
  Tab = {t1, t2}
  Chapters <- MCChapters
  MaxPos = 2
  Question = {q1, q2}
  WindowSize = {narrow, wide, wider}
  Wide = {wide, wider}
INVARIANTS TypeOK DescribesExactly TellsTheTruth OverlapsAreConfirmed BadgeMeansOpened SceneConsistent DrawnFollows
PROPERTIES PanelsSettle ComesBack BadgesCatchUp ShowsLifecycle
