SPECIFICATION Spec
CONSTANTS
  StartSteps = 1
  FifoDepth = 1
  MaxPress = 2
PROPERTY
  OnlyReadEdgesReset
