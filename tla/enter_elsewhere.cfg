SPECIFICATION Spec
CONSTANTS
  NT = 2
  KB_BUF_SIZE = 2
  Chars = {a, b}
  ReadSizes <- AnyRead
  KeysAt <- OutsideCopy
  Patient = FALSE
PROPERTY
  EnterStaysOnItsTerminal
