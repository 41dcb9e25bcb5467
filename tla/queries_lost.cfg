\* What is lost between commands, and commands broken off: every one ends, and a first add succeeds.
SPECIFICATION FairSpec
CONSTANTS
  p1 = p1
  p2 = p2
  a1 = a1
  a2 = a2
  mysql = mysql
  mongodb = mongodb
  Nil = Nil
  Procs = {p1}
  Types = {mysql, mongodb}
  Aliases = {a1}
  Commands = {"add", "remove", "removeall", "repair", "uninstall"}
  FaultKinds = {"exit", "read", "lost", "reinstalled"}
  MaxFaults = 2
  MaxActive = 1
  MaxAgents = 4
  MaxCopies = 2
PROPERTIES
  Terminates
  AddSucceeds
  KeysLast
