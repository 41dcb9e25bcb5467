\* Two clients change one scrape job at the same time.
SPECIFICATION Spec
CONSTANTS
  p1 = p1
  p2 = p2
  here = here
  there = there
  old = old
  new = new
  Omit = Omit
  NoJob = NoJob
  Procs = {p1, p2}
  Jobs = {"job"}
  Entries <- MCEntries
  Local <- OwnHost
  Fields = {"interval", "path"}
  Values = {old, new}
  Default = old
  Given <- MCGiven
  Commands <- AllCommands
  MaxActive = 2
INVARIANTS
  TypeOK
  JobsHaveTargets
PROPERTIES
  KeepsOthers
  ParamsNeedForce
