SPECIFICATION LoginFairSpec
CONSTANTS
  a1 = a1
  a2 = a2
  NumHosts = 3
  Prios = {1, 2, 3}
  Address = {a1, a2}
  Addresses <- ServerAddresses
  MaxPolls = 3
  SlowPolls = 2
  NumFds = 3
  NumLogins = 2
  NumLogouts = 1
CHECK_DEADLOCK FALSE
INVARIANTS
  LoginInv
  NoSocketLeak
  KeysFitSocket
PROPERTIES
  AddressesAreTried
  LoginEnds
