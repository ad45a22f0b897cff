SPECIFICATION MCSpec
CONSTANTS
  Socket = {s1, s2, s3}
  MaxMessages = 2
  MaxWaits = 2
INVARIANTS
  JointTypes
  InOrderOnce
  LiveStaysServed
PROPERTIES
  MissedOnlyByRemoval
  PostedIsTaken
  RemovedIsReleased
  SettledWhenInactive
  WaitEnds
CHECK_DEADLOCK FALSE
