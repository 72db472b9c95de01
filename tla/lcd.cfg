SPECIFICATION FairSpec
CONSTANTS
  HEIGHT = 2
  WIDTH = 2
  VIRTUAL_WIDTH = 4
  ByteSize = 12
  Letters = {"a", "b"}
  Strings <- MCStrings
  MaxWrites = 2
  TicksPerWrite = 2
INVARIANTS
  TypeOK
  PanelFollows
  RestShows
PROPERTIES
  WriteReturns
  AllIsShown
