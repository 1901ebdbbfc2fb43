CONSTANTS
  Scancodes <- MCScancodes
  ExtendedKeys <- MCExtendedKeys
  Letters <- MCLetters
  Symbols <- MCSymbols
  Config0 <- MCConfig0
  MaxMakes = 3
  MaxOut = 2
  UsbKeys = {a, b}
  CapsLock = CapsLock
  Locks = {CapsLock}
  BUFFER = 3
  MaxDown = 2
  NoKey = NoKey
  ESC = "ESC"
  Introducers = {"[", "O"}
  Known <- MCKnown
  ByteKeys <- MCByteKeys
  Strokes <- MCStrokes
  Fragments <- MCFragments
  MaxStrokes = 2
  MaxCodes = 1
  ESCAPE_BUF_SIZE = 8
  GIVE_UP = 5
  EscKey = "Esc"
  Empty = "Empty"
  NULL = "NULL"
  MAX_EVENTS = 3
  Lists <- MCLists
  CallerStrokes = 1
SPECIFICATION Spec
INVARIANTS StrokesAreDecoded HandoverIsExact RepeatIsSound KeysAreDecoded BytesCountOnce
PROPERTIES RingIsAQueue KeysComeOut WaitReturns
CHECK_DEADLOCK FALSE
