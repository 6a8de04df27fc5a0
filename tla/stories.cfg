SPECIFICATION StoriesSpec
CONSTANTS
  None = None
  Workers = {w1, w2}
  Editors = {e1, e2, e3}
  MaxScenes = 4
  MaxId = 1
  MaxPage = 2
  MaxItems = 2
  MaxMoved = 2
  Places = {0, 2, 3}
  Events = {"draft", "upsert", "reorder", "destroy", "crash"}
SYMMETRY StoriesSymmetry
CHECK_DEADLOCK FALSE
INVARIANTS ShelfTypeOK ShelfIsConsistent PagesTypeOK AlwaysAScene NoOrphans
PROPERTIES StaleReadsRunOut ReplacesFound ReorderIsWhole
