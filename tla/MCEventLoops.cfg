CONSTANTS
  MAX_EVENTS = 1
  MaxMisuses = 1
  Events <- SomeEvents
SPECIFICATION Spec
INVARIANTS TypeOK CarefulNeverThrows InterestMirrored
PROPERTIES ServesWhatIsWanted EventsHandled
CHECK_DEADLOCK FALSE
