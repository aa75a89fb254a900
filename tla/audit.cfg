SPECIFICATION FairSpec
CONSTANTS
  a1 = a1
  a2 = a2
  Actors = {a1, a2}
  Types <- Recorded
  Filters <- Asked
  Limits = {1, 2, 3}
  Offsets = {0, 2}
  NotGiven = NotGiven
  MaxLog = 6
CHECK_DEADLOCK FALSE
INVARIANTS PagesTile TrajectoryUnbroken
PROPERTIES LastPageComplete FollowersFinish
