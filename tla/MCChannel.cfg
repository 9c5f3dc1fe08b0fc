SPECIFICATION ChannelSpec
CONSTANTS
  Owner = {o1, o2, o3}
  WireSize = 4
  MaxSince = 7
INVARIANTS
  UniqueIds
  IdsRestartWhenIdle
  Addressable
  OpenUntilToldOrWithdrawn
  ChannelInv
PROPERTIES
  StagesAdvance
