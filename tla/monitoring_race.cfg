\* Two hosts add a service of one type and name at the same time.
SPECIFICATION Spec
CONSTANTS
  p1 = p1
  p2 = p2
  p3 = p3
  h1 = h1
  h2 = h2
  h3 = h3
  n1 = n1
  n2 = n2
  Procs = {p1, p2}
  Hosts = {h1, h2}
  ClientNames = {n1, n2}
  HostOf <- OwnHost
  ClientName <- OwnName
  Types = {"linux", "mysql"}
  Multiple = {"mysql"}
  HasKV = {"mysql"}
  DefaultPort <- MCDefaultPort
  PortRange = 1
  Aliases = {"a"}
  UserPorts = {}
  Bundles <- Singles
  Commands = {"add"}
  FaultKinds = {}
  MaxFaults = 0
  MaxActive = 2
INVARIANTS
  AliasGloballyUnique
