SPECIFICATION Spec
CONSTANTS
  NT = 3
  NUM_ROWS = 2
  NUM_COLS = 2
  Chars = {a}
  Blank = blank
  Newline = newline
  SwitchAt <- BetweenChars
  EchoAt <- BetweenChars
  MaxOut = 3
INVARIANTS
  TypeOK
  CursorFollows
PROPERTY
  ImplementsVirtualScreens
