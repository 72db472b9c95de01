SPECIFICATION FairSpec
CONSTANTS
  Alarms = {lcd, uart, user}
  HEAD = HEAD
  NIL = NIL
  Wrap = 8
  Intervals = {0, 3, 6}
  Periods = {0, 1, 7}
INVARIANTS
  TypeOK
  ListOK
  TimesOK
PROPERTIES
  TickReturns
  KeepsTime
