\* One host where a read of the catalog may fail.
SPECIFICATION Spec
CONSTANTS
  p1 = p1
  p2 = p2
  p3 = p3
  h1 = h1
  h2 = h2
  h3 = h3
  n1 = n1
  n2 = n2
  Procs = {p1}
  Hosts = {h1}
  ClientNames = {n1}
  HostOf <- OneHost
  ClientName <- OneName
  Types = {"linux", "mysql"}
  Multiple = {"mysql"}
  HasKV = {"mysql"}
  DefaultPort <- MCDefaultPort
  PortRange = 1
  Aliases = {"a"}
  UserPorts = {}
  Bundles <- Singles
  Commands = {"add", "repair"}
  FaultKinds = {"read"}
  MaxFaults = 1
  MaxActive = 1
PROPERTIES
  RepairSparesRegistered
