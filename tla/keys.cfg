SPECIFICATION FairSpec
CONSTANTS
  StartSteps = 1
  FifoDepth = 1
  MaxPress = 2
INVARIANTS
  TypeOK
  DispatchFindsOne
  NoPressTwice
  SleepInReach
PROPERTIES
  EdgeServed
