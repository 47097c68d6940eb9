\* Two requests at a time, four in a behaviour, from every scene.
SPECIFICATION Spec
CONSTANTS
  Slots = {s1, s2}
  MaxRequests = 4
  MaxImportRows = 2
  Scenes <- AllScenes
  Folded <- FoldedTexts
SYMMETRY Symmetric
INVARIANTS
  EvidenceKept
  LineagesAreWhole
  SchedulesAskAsShown
PROPERTIES
  DeletesAreComplete
  ImportAddsNoDuplicate
  LastOnesStay
\* The requests and the ticker passes are bounded.
CHECK_DEADLOCK FALSE
