\* Three calls, a timeline of two entries, a clock of three values: two failures make an
\* escalation, and the third call's entry pushes the first one out.
\* All calls end and the clock stops: no deadlock.
SPECIFICATION Spec
CONSTANTS
  c1 = c1
  c2 = c2
  c3 = c3
  NoCall = NoCall
  Calls = {c1, c2, c3}
  Asks <- MCAsks
  Keep = 1
  DefaultImmediate = 1
  DefaultRepeated = 2
  DefaultCooldown = 1
  LastStamp = 1
  Horizon = 2
INVARIANTS
  TypeOK
  FacetsMatchTimeline
  LostOnlyToOverlap
  SurfacesAgree
CHECK_DEADLOCK FALSE
