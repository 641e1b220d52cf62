SPECIFICATION FairSpec
CONSTANTS
  a = a
  b = b
  c = c
  NoHandler = NoHandler
  Handler <- Handlers
  MAX_TIMER = 2
  Ms <- SomeMs
  dec = 10
  MaxTicks = 4
  LastFirst = TRUE
INVARIANTS  NeverLate
PROPERTIES NeverEarly CallsReturn EveryTimerCalled
