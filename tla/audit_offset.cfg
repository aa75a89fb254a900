SPECIFICATION Spec
CONSTANTS
  a1 = a1
  a2 = a2
  Actors = {a1, a2}
  Types <- Recorded
  Filters <- Asked
  Limits = {1, 2}
  Offsets = {0, 3}
  NotGiven = NotGiven
  MaxLog = 4
CHECK_DEADLOCK FALSE
INVARIANTS OffsetsAnswered
