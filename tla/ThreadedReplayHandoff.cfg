CONSTANTS
  EventCount = 4
  Events = {1, 2, 3, 4}
  OtherEvents = {}
  Capacity = 2
  CursorModulus = 4
  Dead = 0
SPECIFICATION ReplaySpec
INVARIANT HandoffMeasured
CHECK_DEADLOCK FALSE
