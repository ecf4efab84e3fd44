CONSTANTS
  VGA_WIDTH = 3
  VGA_HEIGHT = 4
  MAX_CMDS_CACHE = 3
  ARG_MAX = 2
  BUFFER_SIZE = 5
  Keys <- KeyChars
  shcmd_table <- Table
  QuitWords <- Quit
  MaxKeys = 6
  MaxCursorKeys = 2
  MaxAhead = 1
  MaxJunk = 1
SPECIFICATION Spec
CHECK_DEADLOCK FALSE
INVARIANTS ScreenShowsLine
PROPERTIES HistoryInOrder
