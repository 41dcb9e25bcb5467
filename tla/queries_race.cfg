\* Two adds at the same time on one host.
SPECIFICATION Spec
CONSTANTS
  p1 = p1
  p2 = p2
  a1 = a1
  a2 = a2
  mysql = mysql
  mongodb = mongodb
  Nil = Nil
  Procs = {p1, p2}
  Types = {mysql}
  Aliases = {a1, a2}
  Commands = {"add"}
  FaultKinds = {}
  MaxFaults = 0
  MaxActive = 2
  MaxAgents = 4
  MaxCopies = 2
PROPERTIES
  AddAppends
