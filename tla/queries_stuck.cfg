\* One command broken off.
SPECIFICATION Spec
CONSTANTS
  p1 = p1
  p2 = p2
  a1 = a1
  a2 = a2
  mysql = mysql
  mongodb = mongodb
  Nil = Nil
  Procs = {p1}
  Types = {mysql}
  Aliases = {a1}
  Commands = {"add", "remove"}
  FaultKinds = {"exit"}
  MaxFaults = 1
  MaxActive = 1
  MaxAgents = 4
  MaxCopies = 2
INVARIANTS
  Removable
