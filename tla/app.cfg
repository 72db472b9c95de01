SPECIFICATION Spec
CONSTANTS
  Wrap = 8
  Words = 2
  Cipher <- MCCipher
  InvCipher <- MCInvCipher
  SwitchValues = {0, 1, 2, 3}
  Letters <- MCLetters
  LENGTH = 2
  Base = 2
  COLUMNS = 4
  MaxTicks = 3
INVARIANTS
  TypeOK
  ShowsTheStage
  ClicksRight
