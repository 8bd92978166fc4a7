CONSTANTS
  Variables = {"x", "y", "len", "println"}
  TypeNames = {"T", "V"}
  Numbers = {"1"}
  Strings = {"s"}
  Programs <- MCPrograms
  Separators <- MCSeparators
  Texts <- MCTexts
  EditTokens = {"x", "T", "1", "(", ")", "{", "}", ",", ":", "?", ".", "=", "-", ";", "is", "fn", "unsafe", "class", "if", "return", "print", "async", "interrupt"}
  MaxEdits = 1

SPECIFICATION Spec

INVARIANT
  TokensAsWritten
  PlacesExact
  RoundTrip
  CursorInSource
  NothingDropped
  ErrorNotBeforeEdit
  GroupingKept
  SelfBorrowed
  VariantsTranslated

CHECK_DEADLOCK FALSE
