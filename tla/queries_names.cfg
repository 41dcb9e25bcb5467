\* One type with two names: the tags of a shared service, and everything a name is kept in.
SPECIFICATION Spec
CONSTANTS
  p1 = p1
  p2 = p2
  a1 = a1
  a2 = a2
  mysql = mysql
  mongodb = mongodb
  Nil = Nil
  Procs = {p1}
  Types = {mysql}
  Aliases = {a1, a2}
  Commands <- AllCommands
  FaultKinds = {"exit", "ignored", "lost", "reinstalled"}
  MaxFaults = 3
  MaxActive = 1
  MaxAgents = 4
  MaxCopies = 2
INVARIANTS
  TypeOK
  InstancesUnique
  RemoveIsTrue
  RemoveAllIsTrue
  RepairIsTrue
PROPERTIES
  TagsIndependent
