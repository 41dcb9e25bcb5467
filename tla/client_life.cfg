\* One client, three commands, or two and a fault.
SPECIFICATION Spec
CONSTANTS
  p1 = p1
  n1 = n1
  n2 = n2
  n3 = n3
  here = here
  there = there
  abroad = abroad
  none = none
  secret = secret
  Procs = {p1}
  Names = {n1, n2, n3}
  Hostname = n1
  ValidNames = {n1, n2}
  Addresses = {here, there, abroad}
  LocalAddresses = {here, there}
  Auths = {none, secret}
  NoAuth = none
  Services <- MCServices
  QueriesServices = {"mysql:queries", "mongodb:queries"}
  Aliases <- MCAliases
  Passwords = {1, 2, 3, 4, 5, 6, 7, 8, 9}
  NoPassword = 0
  Unset = Unset
  ConfigRequests <- MCConfigRequests
  Catalogs <- MCCatalogs
  FaultKinds = {"exit", "fail", "register"}
  MaxCommands = 3
  MaxFaults = 1
  AddRequests <- MCAddRequests
  Owned = {"127.0.0.1"}
  Tables = 1200
  TableLimit = 1000
CONSTRAINT
  Bounded
INVARIANTS
  TypeOK
  ConfigIsTrue
  AddressAgrees
  StoredWorks
  AddIsTrue
PROPERTIES
  NothingLost
  ForceOnly
