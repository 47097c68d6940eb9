\* Requests and passes of the ticker over two schedules.
SPECIFICATION Spec
CONSTANTS
  Slots = {s1, s2}
  MaxRequests = 2
  MaxImportRows = 2
  Scenes <- TickerScene
  Folded <- FoldedTexts
\* The requests and the ticker passes are bounded.
PROPERTY EveryDueScheduleIsQueued
CHECK_DEADLOCK FALSE
