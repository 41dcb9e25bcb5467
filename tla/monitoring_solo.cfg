\* One host, every command, two faults of the kinds the code does not mistake for data.
SPECIFICATION Spec
CONSTANTS
  p1 = p1
  p2 = p2
  p3 = p3
  h1 = h1
  h2 = h2
  h3 = h3
  n1 = n1
  n2 = n2
  Procs = {p1}
  Hosts = {h1}
  ClientNames = {n1}
  HostOf <- OneHost
  ClientName <- OneName
  Types = {"linux", "mysql"}
  Multiple = {"mysql"}
  HasKV = {"mysql"}
  DefaultPort <- MCDefaultPort
  PortRange = 2
  Aliases = {"a", "b"}
  UserPorts = {2}
  Bundles <- AllBundles
  Commands = {"add", "remove", "removeall", "repair", "uninstall", "start", "stop", "restart", "startall", "stopall", "restartall"}
  FaultKinds = {"exit", "ignored"}
  MaxFaults = 2
  MaxActive = 1
INVARIANTS
  TypeOK
  ServicesDistinct
  UnitServesAlias
  NoStrayExporter
  AddIsTrue
  RemoveIsTrue
  RemoveAllIsTrue
  RepairIsTrue
PROPERTIES
  AddsOnlyWhenSettled
  RepairSparesRegistered
  Registry
