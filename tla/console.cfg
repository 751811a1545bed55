SPECIFICATION Spec
CONSTANTS
  CONSBUFSIZE = 3
  CRT_COLS = 2
  CRT_ROWS = 2
  BUFLEN = 4
  Keys = {30, 42, 157}
  SerialChars = {10, 127}
  Output = {9, 13, 65}
  MaxInput = 5
INVARIANTS
  CursorOnDisplay
  NewestKept
  NoStuckModifiers
  LineOnDisplay
