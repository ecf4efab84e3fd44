CONSTANTS
  CURRENT_YEAR = 2024
  Starts <- Instants
  Modes <- AllModes
  MaxTicks = 3
SPECIFICATION Spec
CHECK_DEADLOCK FALSE
INVARIANT TimeIsTrue
