CONSTANTS
  MaxEvents = 2
  ParentMayCrash = TRUE
  JobMayFail = TRUE
  PipeRoom = 1
SPECIFICATION LiveSpec
INVARIANTS HandshakeFirst FramesWhole QueuedInOrder
PROPERTIES StopReturns EventsArrive
CHECK_DEADLOCK FALSE
