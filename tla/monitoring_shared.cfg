\* Three hosts, two of which have the same client name, one command at a time.
SPECIFICATION Spec
CONSTANTS
  p1 = p1
  p2 = p2
  p3 = p3
  h1 = h1
  h2 = h2
  h3 = h3
  n1 = n1
  n2 = n2
  Procs = {p1, p2, p3}
  Hosts = {h1, h2, h3}
  ClientNames = {n1, n2}
  HostOf <- ThreeHosts
  ClientName <- SharedName
  Types = {"linux", "mysql"}
  Multiple = {"mysql"}
  HasKV = {"mysql"}
  DefaultPort <- MCDefaultPort
  PortRange = 1
  Aliases = {"a", "b"}
  UserPorts = {}
  Bundles <- Singles
  Commands = {"add", "removeall", "repair"}
  FaultKinds = {"exit"}
  MaxFaults = 1
  MaxActive = 1
INVARIANTS
  FoundAtAddress
  AliasGloballyUnique
