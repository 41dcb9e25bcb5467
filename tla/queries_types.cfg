\* Two types whose units share one agent.
SPECIFICATION Spec
CONSTANTS
  p1 = p1
  p2 = p2
  a1 = a1
  a2 = a2
  mysql = mysql
  mongodb = mongodb
  Nil = Nil
  Procs = {p1}
  Types = {mysql, mongodb}
  Aliases = {a1}
  Commands <- AllCommands
  FaultKinds = {"exit", "ignored", "read", "lost", "reinstalled"}
  MaxFaults = 3
  MaxActive = 1
  MaxAgents = 4
  MaxCopies = 2
INVARIANTS
  AddIsTrue
  SettledWhenIdle
PROPERTIES
  AddKeepsCollecting
