CONSTANTS
  EventCount = 5
  Events = {1, 2, 3, 4, 5}
  OtherEvents = {1, 2}
  Capacity = 2
  CursorModulus = 4
  Dead = 0
SPECIFICATION ReplayFairSpec
INVARIANTS QueueTypeOK CursorsOrdered SlotsExact NoSlotRace ProcessedInOrder
PROPERTIES ImplementsBoundedFifo ReplayTerminates
CHECK_DEADLOCK FALSE
