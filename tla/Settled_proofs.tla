---------------------------- MODULE Settled_proofs ----------------------------
(***************************************************************************)
(* Proofs about what the commands of Monitoring find and leave behind: no  *)
(* exporter without its unit, registrations and units in agreement before  *)
(* an add and after a repair, nothing left by remove --all and uninstall.  *)
(* They hold for every value of the constants with one pmm-admin at a time *)
(* per host and one name per host.                                         *)
(***************************************************************************)
EXTENDS Monitoring_proofs

-----------------------------------------------------------------------------
(* Which commands come by which locations *)

Switching == {"start", "stop", "restart"}

Path(p) ==
  /\ At(p, "check") => arg[p].cmd \notin OnUnits \cup {"uninstall"}
  /\ pc[p] \in Adding => arg[p].cmd = "add"
  /\ At(p, "lookup") => arg[p].cmd \in {"add", "remove", "removeall", "uninstall"} \cup Switching
  /\ pc[p] \in {"deregister", "deltree", "halt", "uninstall"}
       => arg[p].cmd \in {"remove", "removeall", "uninstall"}
  /\ pc[p] \in {"snapshot", "each"} => arg[p].cmd \in {"removeall", "uninstall"}
  /\ pc[p] \in {"sweep", "sweephalt", "sweepunit"} => arg[p].cmd \in {"repair", "uninstall"}
  /\ pc[p] \in {"purge", "purgekv"} => arg[p].cmd = "repair"
  /\ pc[p] \in {"act", "react"} => arg[p].cmd \in Switching
  /\ pc[p] \in {"all", "allreact"} => arg[p].cmd \in OnUnits

\* A step of p leaves the memory of the other processes alone, and their clients and hosts.
Own(p) ==
  \A q \in Procs \ {p} : /\ pc'[q] = pc[q] /\ arg'[q] = arg[q] /\ job'[q] = job[q]
                         /\ todo'[q] = todo[q] /\ missing'[q] = missing[q]

OwnWorld(p) ==
  /\ \A n \in ClientNames \ {Client(p)} : catalog'[n] = catalog[n]
  /\ \A h \in Hosts \ {Host(p)} : local'[h] = local[h] /\ active'[h] = active[h]

LEMMA ExitPath ==
  ASSUME TypeInv, NEW p \in Procs, Exit(p)
  PROVE  Own(p) /\ pc'[p] = "idle" /\ Path(p)'
BY DEF Exit, Goto, TypeInv, MemoryOK, Own, Path, At, Adding

LEMMA GotoPath ==
  ASSUME TypeInv, NEW p \in Procs, NEW l \in Locations, Goto(p, l), UNCHANGED memory
  PROVE  /\ Own(p)
         /\ pc'[p] = l /\ arg'[p] = arg[p] /\ job'[p] = job[p]
         /\ todo'[p] = todo[p] /\ missing'[p] = missing[p]
BY DEF Goto, TypeInv, MemoryOK, memory, Own

LEMMA NextTypePath ==
  ASSUME TypeInv, NEW p \in Procs, NextType(p)
  PROVE  /\ Own(p)
         /\ pc'[p] \in {"done", "lookup"} /\ arg'[p] = arg[p]
         /\ todo'[p] = todo[p] /\ missing'[p] = missing[p]
BY DEF NextType, Goto, TypeInv, MemoryOK, memory, Own

\* After RemoveMetrics, whether it went well or not.
LEMMA AfterRemovePath ==
  ASSUME TypeInv, NEW p \in Procs, AfterRemove(p) \/ RemoveFails(p),
         arg[p].cmd \in {"remove", "removeall", "uninstall"}
  PROVE  /\ Own(p) /\ Path(p)'
         /\ \/ pc'[p] = "idle"
            \/ /\ arg'[p] = arg[p] /\ todo'[p] = todo[p] /\ missing'[p] = missing[p]
               /\ \/ arg[p].cmd = "remove" /\ pc'[p] \in {"done", "lookup"}
                  \/ arg[p].cmd # "remove" /\ pc'[p] = "each" /\ job'[p] = job[p]
<1>1. CASE Exit(p) BY <1>1, ExitPath
<1>2. CASE AfterRemove(p)
  <2>1. CASE arg[p].cmd = "remove"
    <3>1. NextType(p) BY <1>2, <2>1 DEF AfterRemove
    <3> QED BY <2>1, <3>1, NextTypePath DEF Path, At, Adding
  <2>2. CASE arg[p].cmd # "remove"
    <3>1. Goto(p, "each") /\ UNCHANGED memory BY <1>2, <2>2 DEF AfterRemove
    <3>2. "each" \in Locations BY DEF Locations
    <3> QED BY <2>2, <3>1, <3>2, GotoPath DEF Path, At, Adding
  <2> QED BY <2>1, <2>2
<1> QED BY <1>1, <1>2 DEF RemoveFails

\* What CheckInstallation makes of orphans and missing services.
LEMMA VerdictPath ==
  ASSUME TypeInv, NEW p \in Procs, At(p, "check"), Path(p),
         NEW orphans, NEW lost, Verdict(p, orphans, lost)
  PROVE  /\ Own(p) /\ Path(p)'
         /\ \/ pc'[p] = "idle"
            \/ /\ pc'[p] = "sweep" /\ arg'[p] = arg[p] /\ arg[p].cmd = "repair"
               /\ todo'[p] = orphans /\ missing'[p] = lost
            \/ /\ pc'[p] \in {"snapshot", "lookup"} /\ arg'[p] = arg[p] /\ arg[p].cmd # "repair"
               /\ orphans = {} /\ lost = {}
<1>0. arg[p].cmd \in AllCommands BY DEF TypeInv, MemoryOK, Invocation, AllCommands
<1>1. CASE Exit(p) BY <1>1, ExitPath
<1>2. CASE ~ Exit(p) /\ arg[p].cmd = "repair"
  <2>1. /\ pc'[p] = "sweep" /\ arg'[p] = arg[p] /\ Own(p)
        /\ todo'[p] = orphans /\ missing'[p] = lost
    BY <1>2 DEF Verdict, Goto, TypeInv, MemoryOK, Own
  <2> QED BY <1>2, <2>1 DEF Path, At, Adding
<1>3. CASE ~ Exit(p) /\ arg[p].cmd # "repair"
  <2>1. /\ pc'[p] = (IF arg[p].cmd = "removeall" THEN "snapshot" ELSE "lookup")
        /\ arg'[p] = arg[p] /\ Own(p) /\ orphans = {} /\ lost = {}
    BY <1>3 DEF Verdict, Broken, Goto, TypeInv, MemoryOK, Own
  <2> QED BY <1>0, <1>3, <2>1 DEF Path, At, Adding, AllCommands, OnUnits, Switching
<1> QED BY <1>1, <1>2, <1>3

PathInv == TypeInv /\ \A p \in Procs : Path(p)

LEMMA BeginPath ==
  ASSUME PathInv, NEW p \in Procs, Begin(p)
  PROVE  /\ Own(p) /\ OwnWorld(p) /\ Path(p)'
         /\ pc'[p] = "list" \/ (pc'[p] = "snapshot" /\ arg'[p].cmd = "uninstall")
<1>1. PICK a \in Invocation :
        /\ arg' = [arg EXCEPT ![p] = a]
        /\ Goto(p, IF a.cmd = "uninstall" THEN "snapshot" ELSE "list")
        /\ IF a.cmd \in OnType
           THEN job' = [job EXCEPT ![p] = [type |-> Head(a.types), port |-> 0, alias |-> a.alias]]
           ELSE UNCHANGED job
        /\ UNCHANGED << world, todo, missing >>
  BY DEF Begin
<1>2. /\ arg'[p] = a /\ pc'[p] = (IF a.cmd = "uninstall" THEN "snapshot" ELSE "list")
      /\ Own(p)
  BY <1>1 DEF PathInv, TypeInv, MemoryOK, Goto, Own
<1> QED BY <1>1, <1>2 DEF Path, At, Adding, OwnWorld, world

LEMMA PreflightPath ==
  ASSUME PathInv, NEW p \in Procs,
         Finish(p) \/ ListUnits(p) \/ CheckInstallation(p) \/ Snapshot(p) \/ ReadError(p) \/ Fail(p)
  PROVE  Own(p) /\ OwnWorld(p) /\ Path(p)'
<1>0. TypeInv /\ Path(p) /\ arg[p].cmd \in AllCommands
  BY DEF PathInv, TypeInv, MemoryOK, Invocation, AllCommands
<1>a. OwnWorld(p)
  BY DEF Finish, ListUnits, CheckInstallation, Snapshot, ReadError, Fail, world, OwnWorld
<1>1. CASE Finish(p) \/ Fail(p)
  BY <1>0, <1>a, <1>1, ExitPath DEF Finish, Fail
<1>2. CASE ListUnits(p)
  <2>1. /\ pc'[p] = CASE arg[p].cmd \in OnUnits -> "all"
                      [] arg[p].cmd = "uninstall" -> "sweep"
                      [] OTHER -> "check"
        /\ arg'[p] = arg[p] /\ Own(p)
    BY <1>0, <1>2 DEF ListUnits, Goto, TypeInv, MemoryOK, Own
  <2> QED BY <1>0, <1>a, <2>1 DEF Path, At, Adding, AllCommands, OnUnits
<1>3. CASE CheckInstallation(p)
  <2>1. At(p, "check") /\ Verdict(p, Orphans(todo[p], Registered(p)), Missing(todo[p], Registered(p)))
    BY <1>3 DEF CheckInstallation
  <2> QED BY <1>0, <1>a, <2>1, VerdictPath
<1>4. CASE Snapshot(p)
  <2>1. pc'[p] = "each" /\ arg'[p] = arg[p] /\ Own(p) /\ At(p, "snapshot")
    BY <1>0, <1>4 DEF Snapshot, Goto, TypeInv, MemoryOK, Own
  <2> QED BY <1>0, <1>a, <2>1 DEF Path, At, Adding
<1>5. CASE ReadError(p)
  <2>1. CASE At(p, "check") /\ Verdict(p, todo[p], {})
    BY <1>0, <1>a, <2>1, VerdictPath
  <2>2. CASE At(p, "snapshot") /\ Goto(p, "each") /\ UNCHANGED memory
    <3>1. "each" \in Locations BY DEF Locations
    <3> QED BY <1>0, <1>a, <2>2, <3>1, GotoPath DEF Path, At, Adding
  <2> QED BY <1>5, <2>1, <2>2 DEF ReadError
<1> QED BY <1>1, <1>2, <1>3, <1>4, <1>5

LEMMA AddPath ==
  ASSUME PathInv, NEW p \in Procs,
         \/ AddLookup(p) \/ CheckClient(p) \/ CheckUnique(p) \/ ChoosePort(p)
         \/ Register(p) \/ PutKeys(p) \/ InstallUnit(p) \/ StartUnit(p)
  PROVE  Own(p) /\ OwnWorld(p) /\ Path(p)'
<1>0. TypeInv /\ arg[p].cmd = "add"
  BY DEF PathInv, Path, AddLookup, CheckClient, CheckUnique, ChoosePort, Register, PutKeys,
         InstallUnit, StartUnit, At, Adding
<1>a. OwnWorld(p)
  BY <1>0, Places DEF AddLookup, CheckClient, CheckUnique, ChoosePort, Register, PutKeys,
         InstallUnit, StartUnit, world, OwnWorld, TypeInv, WorldOK
<1>1. CASE Exit(p) BY <1>0, <1>a, <1>1, ExitPath
<1>2. CASE NextType(p) BY <1>0, <1>a, <1>2, NextTypePath DEF Path, At, Adding
<1>3. CASE ~ Exit(p) /\ ~ NextType(p)
  <2>1. /\ pc'[p] \in Adding /\ arg'[p] = arg[p] /\ Own(p)
    BY <1>0, <1>3
    DEF AddLookup, CheckClient, CheckUnique, ChoosePort, Register, PutKeys, InstallUnit,
        StartUnit, Goto, At, memory, TypeInv, MemoryOK, Own, Adding
  <2> QED BY <1>0, <1>a, <2>1 DEF Path, At, Adding
<1> QED BY <1>1, <1>2, <1>3

LEMMA RemovePath ==
  ASSUME PathInv, NEW p \in Procs,
         \/ FindService(p) \/ Deregister(p) \/ DeleteTree(p)
         \/ HaltUnit(p, "halt", "uninstall") \/ UninstallUnit(p) \/ RemoveEach(p)
  PROVE  Own(p) /\ OwnWorld(p) /\ Path(p)'
<1>0. TypeInv /\ Path(p) /\ Client(p) \in ClientNames /\ Host(p) \in Hosts
  BY Places DEF PathInv
<1>a. OwnWorld(p)
  BY <1>0 DEF FindService, Deregister, DeleteTree, HaltUnit, UninstallUnit, RemoveEach,
              world, OwnWorld, TypeInv, WorldOK
<1>1. CASE FindService(p)
  <2>1. arg[p].cmd \in {"remove", "removeall", "uninstall"} \cup Switching
    BY <1>0, <1>1 DEF FindService, Path
  <2>2. CASE Exit(p) BY <1>0, <1>a, <2>2, ExitPath
  <2>3. CASE RemoveFails(p) /\ arg[p].cmd \notin Switching
    BY <1>0, <1>a, <2>1, <2>3, AfterRemovePath
  <2>4. CASE ~ Exit(p) /\ ~ (RemoveFails(p) /\ arg[p].cmd \notin Switching)
    <3>1. /\ pc'[p] = (IF arg[p].cmd \in Switching THEN "act" ELSE "deregister")
          /\ arg'[p] = arg[p] /\ Own(p)
      BY <1>0, <1>1, <2>4 DEF FindService, Goto, TypeInv, MemoryOK, Own, Switching
    <3> QED BY <1>a, <2>1, <3>1 DEF Path, At, Adding, Switching
  <2> QED BY <2>2, <2>3, <2>4
<1>2. CASE Deregister(p) \/ DeleteTree(p) \/ HaltUnit(p, "halt", "uninstall")
  <2>1. arg[p].cmd \in {"remove", "removeall", "uninstall"}
    BY <1>0, <1>2 DEF Deregister, DeleteTree, HaltUnit, Path, At
  <2>2. PICK l \in {"deltree", "halt", "uninstall"} : Goto(p, l) /\ UNCHANGED memory
    BY <1>2 DEF Deregister, DeleteTree, HaltUnit
  <2>3. l \in Locations BY DEF Locations
  <2> QED BY <1>0, <1>a, <2>1, <2>2, <2>3, GotoPath DEF Path, At, Adding
<1>3. CASE UninstallUnit(p)
  <2>1. /\ arg[p].cmd \in {"remove", "removeall", "uninstall"}
        /\ AfterRemove(p) \/ RemoveFails(p)
    BY <1>0, <1>3 DEF UninstallUnit, Path, At
  <2> QED BY <1>0, <1>a, <2>1, AfterRemovePath
<1>4. CASE RemoveEach(p)
  <2>1. arg[p].cmd \in {"removeall", "uninstall"} BY <1>0, <1>4 DEF RemoveEach, Path, At
  <2>2. pc'[p] \in {"list", "done", "lookup"} /\ arg'[p] = arg[p] /\ Own(p)
    BY <1>0, <1>4 DEF RemoveEach, AfterEach, Goto, TypeInv, MemoryOK, Own
  <2> QED BY <1>a, <2>1, <2>2 DEF Path, At, Adding
<1> QED BY <1>1, <1>2, <1>3, <1>4

LEMMA RepairPath ==
  ASSUME PathInv, NEW p \in Procs,
         \/ Sweep(p) \/ HaltUnit(p, "sweephalt", "sweepunit") \/ SweepUnit(p)
         \/ Purge(p) \/ PurgeKeys(p)
  PROVE  Own(p) /\ OwnWorld(p) /\ Path(p)'
<1>0. TypeInv /\ Path(p) /\ Client(p) \in ClientNames /\ Host(p) \in Hosts
  BY Places DEF PathInv
<1>a. OwnWorld(p)
  BY <1>0 DEF Sweep, HaltUnit, SweepUnit, Purge, PurgeKeys, world, OwnWorld, TypeInv, WorldOK
<1>1. CASE Exit(p) BY <1>0, <1>a, <1>1, ExitPath
<1>2. CASE ~ Exit(p) /\ (Sweep(p) \/ HaltUnit(p, "sweephalt", "sweepunit") \/ SweepUnit(p))
  <2>1. arg[p].cmd \in {"repair", "uninstall"}
    BY <1>0, <1>2 DEF Sweep, HaltUnit, SweepUnit, Path, At
  <2>2. /\ pc'[p] \in {"sweep", "sweephalt", "sweepunit", "done"}
           \/ (pc'[p] = "purge" /\ arg[p].cmd = "repair")
        /\ arg'[p] = arg[p] /\ Own(p)
    BY <1>0, <1>2 DEF Sweep, AfterSweep, HaltUnit, SweepUnit, Goto, memory, TypeInv, MemoryOK, Own
  <2> QED BY <1>a, <2>1, <2>2 DEF Path, At, Adding
<1>3. CASE Purge(p) \/ PurgeKeys(p)
  <2>1. arg[p].cmd = "repair" BY <1>0, <1>3 DEF Purge, PurgeKeys, Path, At
  <2>2. pc'[p] \in {"purge", "purgekv", "done"} /\ arg'[p] = arg[p] /\ Own(p)
    BY <1>0, <1>3 DEF Purge, PurgeKeys, Goto, memory, TypeInv, MemoryOK, Own
  <2> QED BY <1>a, <2>1, <2>2 DEF Path, At, Adding
<1> QED BY <1>1, <1>2, <1>3

LEMMA SwitchPath ==
  ASSUME PathInv, NEW p \in Procs,
         Switch(p) \/ Restart(p) \/ SwitchEach(p) \/ RestartEach(p)
  PROVE  Own(p) /\ OwnWorld(p) /\ Path(p)'
<1>0. TypeInv /\ Path(p) /\ Client(p) \in ClientNames /\ Host(p) \in Hosts
  BY Places DEF PathInv
<1>a. OwnWorld(p)
  BY <1>0 DEF Switch, Restart, SwitchEach, RestartEach, world, OwnWorld, TypeInv, WorldOK
<1>1. CASE Exit(p) BY <1>0, <1>a, <1>1, ExitPath
<1>2. CASE ~ Exit(p) /\ (Switch(p) \/ Restart(p))
  <2>1. arg[p].cmd \in Switching BY <1>0, <1>2 DEF Switch, Restart, Path, At
  <2>2. pc'[p] \in {"react", "done"} /\ arg'[p] = arg[p] /\ Own(p)
    BY <1>0, <1>2 DEF Switch, Restart, Goto, memory, TypeInv, MemoryOK, Own
  <2> QED BY <1>a, <2>1, <2>2 DEF Path, At, Adding
<1>3. CASE ~ Exit(p) /\ (SwitchEach(p) \/ RestartEach(p))
  <2>1. arg[p].cmd \in OnUnits BY <1>0, <1>3 DEF SwitchEach, RestartEach, Path, At
  <2>2. pc'[p] \in {"all", "allreact", "done"} /\ arg'[p] = arg[p] /\ Own(p)
    BY <1>0, <1>3 DEF SwitchEach, RestartEach, Goto, memory, TypeInv, MemoryOK, Own
  <2> QED BY <1>a, <2>1, <2>2 DEF Path, At, Adding
<1> QED BY <1>1, <1>2, <1>3

LEMMA IgnoredPath ==
  ASSUME PathInv, NEW p \in Procs, IgnoredError(p)
  PROVE  Own(p) /\ OwnWorld(p) /\ Path(p)'
<1>0. TypeInv /\ Path(p) BY DEF PathInv
<1>a. OwnWorld(p) BY DEF IgnoredError, world, OwnWorld
<1>1. CASE /\ pc[p] \in {"lookup", "deregister", "deltree", "halt", "uninstall"}
           /\ Tolerant(p) /\ AfterRemove(p)
  <2>1. arg[p].cmd \in {"remove", "removeall", "uninstall"} BY <1>1 DEF Tolerant
  <2> QED BY <1>0, <1>a, <1>1, <2>1, AfterRemovePath
<1>2. CASE ~ (/\ pc[p] \in {"lookup", "deregister", "deltree", "halt", "uninstall"}
              /\ Tolerant(p) /\ AfterRemove(p))
  <2>1. /\ \/ pc'[p] = "sweep" /\ arg[p].cmd = "uninstall"
           \/ pc'[p] = "purge" /\ At(p, "purgekv")
           \/ pc'[p] = "all" /\ pc[p] \in {"all", "allreact"}
        /\ arg'[p] = arg[p] /\ Own(p)
    BY <1>0, <1>2 DEF IgnoredError, Goto, At, memory, TypeInv, MemoryOK, Own
  <2> QED BY <1>0, <1>a, <2>1 DEF Path, At, Adding
<1> QED BY <1>1, <1>2

LEMMA MovePath ==
  ASSUME PathInv, NEW p \in Procs,
         Begin(p) \/ Step(p) \/ Fail(p) \/ IgnoredError(p) \/ ReadError(p)
  PROVE  Own(p) /\ OwnWorld(p) /\ Path(p)'
BY BeginPath, PreflightPath, AddPath, RemovePath, RepairPath, SwitchPath, IgnoredPath DEF Step

LEMMA StepPath == PathInv /\ [Next]_vars => PathInv'
<1> SUFFICES ASSUME PathInv, [Next]_vars PROVE PathInv'
  OBVIOUS
<1>0. TypeInv' BY StepType DEF PathInv
<1>1. CASE UNCHANGED vars
  BY <1>0, <1>1 DEF vars, memory, PathInv, Path, At
<1>2. ASSUME NEW p \in Procs, Begin(p) \/ Step(p) \/ Fail(p) \/ IgnoredError(p) \/ ReadError(p)
      PROVE  PathInv'
  <2>1. Own(p) /\ Path(p)' BY <1>2, MovePath
  <2>2. \A q \in Procs \ {p} : Path(q)' BY <2>1 DEF Own, PathInv, Path, At
  <2> QED BY <1>0, <2>1, <2>2 DEF PathInv
<1> QED BY <1>1, <1>2 DEF Next

LEMMA InitPath == Init => PathInv
BY InitType DEF Init, PathInv, Path, At, Adding

-----------------------------------------------------------------------------
(* No exporter without its unit *)

OnePerHost == \A p, q \in Procs : HostOf[p] = HostOf[q] => p = q

\* Between the halt of an exporter and the removal of its unit.
Halted(p) == pc[p] \in {"uninstall", "sweepunit"} => ID(job[p]) \notin active[Host(p)]

NoStray(h) == active[h] \subseteq { ID(u) : u \in local[h] }

StrayInv == PathInv /\ NoStrayExporter /\ \A p \in Procs : Halted(p)

LEMMA SameIDs == \A s, u : SameID(s, u) <=> ID(s) = ID(u)
BY DEF SameID, ID

LEMMA StepStray ==
  ASSUME OnePerHost, StrayInv, NEW p \in Procs,
         Begin(p) \/ Step(p) \/ Fail(p) \/ IgnoredError(p) \/ ReadError(p),
         NoStray(Host(p))', Halted(p)'
  PROVE  NoStrayExporter' /\ \A q \in Procs : Halted(q)'
<1>1. Own(p) /\ OwnWorld(p) BY MovePath DEF StrayInv
<1>2. \A q \in Procs \ {p} : Host(q) \in Hosts \ {Host(p)}
  BY MonitoringConstants DEF OnePerHost, Host
<1>3. \A q \in Procs \ {p} : Halted(q)'
  BY <1>1, <1>2 DEF Own, OwnWorld, StrayInv, Halted, Host
<1>4. NoStrayExporter'
  BY <1>1 DEF OwnWorld, StrayInv, NoStrayExporter, NoStray
<1> QED BY <1>3, <1>4

\* The steps that leave units and exporters alone.
LEMMA QuietStray ==
  ASSUME OnePerHost, StrayInv, NEW p \in Procs,
         \/ Begin(p) \/ Finish(p) \/ ListUnits(p) \/ CheckInstallation(p)
         \/ AddLookup(p) \/ CheckClient(p) \/ CheckUnique(p) \/ ChoosePort(p)
         \/ Register(p) \/ PutKeys(p) \/ FindService(p) \/ Deregister(p) \/ DeleteTree(p)
         \/ Snapshot(p) \/ RemoveEach(p) \/ Sweep(p) \/ Purge(p) \/ PurgeKeys(p)
         \/ Fail(p) \/ IgnoredError(p) \/ ReadError(p)
  PROVE  NoStray(Host(p))' /\ Halted(p)'
<1>0. TypeInv /\ Path(p) /\ Host(p) \in Hosts BY Places DEF StrayInv, PathInv
<1>1. local' = local /\ active' = active
  BY DEF Begin, Finish, ListUnits, CheckInstallation, AddLookup, CheckClient, CheckUnique,
         ChoosePort, Register, PutKeys, FindService, Deregister, DeleteTree, Snapshot,
         RemoveEach, Sweep, Purge, PurgeKeys, Fail, IgnoredError, ReadError, world
<1>2. pc'[p] \notin {"uninstall", "sweepunit"}
  <2>1. CASE Exit(p) BY <1>0, <2>1, ExitPath
  <2>2. CASE NextType(p) BY <1>0, <2>2, NextTypePath
  <2>3. CASE RemoveFails(p) /\ FindService(p) /\ ~ (arg[p].cmd \in Switching)
    BY <1>0, <2>3, AfterRemovePath DEF FindService, Path
  <2>4. CASE IgnoredError(p) /\ AfterRemove(p) /\ Tolerant(p)
    BY <1>0, <2>4, AfterRemovePath DEF Tolerant
  <2>5. CASE CheckInstallation(p) \/ (ReadError(p) /\ At(p, "check"))
    BY <1>0, <2>5, VerdictPath DEF CheckInstallation, ReadError, At
  <2>6. CASE Begin(p) BY <2>6, BeginPath DEF StrayInv
  <2>7. CASE ListUnits(p)
    BY <1>0, <2>7 DEF ListUnits, Goto, TypeInv, MemoryOK
  <2>8. CASE /\ ~ Exit(p) /\ ~ NextType(p)
             /\ \/ AddLookup(p) \/ CheckClient(p) \/ CheckUnique(p) \/ ChoosePort(p)
                \/ Register(p) \/ PutKeys(p)
    BY <1>0, <2>8 DEF AddLookup, CheckClient, CheckUnique, ChoosePort, Register, PutKeys,
                      Goto, At, memory, TypeInv, MemoryOK
  <2>9. CASE FindService(p) /\ ~ Exit(p) /\ ~ (RemoveFails(p) /\ ~ (arg[p].cmd \in Switching))
    BY <1>0, <2>9 DEF FindService, Switching, Goto, TypeInv, MemoryOK
  <2>10. CASE /\ ~ Exit(p)
              /\ \/ Deregister(p) \/ DeleteTree(p) \/ Snapshot(p) \/ RemoveEach(p) \/ Sweep(p)
                 \/ Purge(p) \/ PurgeKeys(p) \/ (ReadError(p) /\ ~ At(p, "check"))
    BY <1>0, <2>10 DEF Deregister, DeleteTree, Snapshot, RemoveEach, AfterEach, Sweep,
                       AfterSweep, Purge, PurgeKeys, ReadError, Goto, TypeInv, MemoryOK
  <2>11. CASE IgnoredError(p) /\ ~ (AfterRemove(p) /\ Tolerant(p))
    BY <1>0, <2>11 DEF IgnoredError, Goto, At, TypeInv, MemoryOK
  <2>12. CASE Finish(p) \/ Fail(p) BY <2>1, <2>12 DEF Finish, Fail
  <2> QED
    BY <2>1, <2>2, <2>3, <2>4, <2>5, <2>6, <2>7, <2>8, <2>9, <2>10, <2>11, <2>12
<1> QED BY <1>0, <1>1, <1>2 DEF StrayInv, NoStrayExporter, NoStray, Halted, Host

LEMMA UnitStray ==
  ASSUME OnePerHost, StrayInv, NEW p \in Procs,
         \/ InstallUnit(p) \/ StartUnit(p) \/ HaltUnit(p, "halt", "uninstall") \/ UninstallUnit(p)
         \/ HaltUnit(p, "sweephalt", "sweepunit") \/ SweepUnit(p)
  PROVE  NoStray(Host(p))' /\ Halted(p)'
<1>0. /\ TypeInv /\ Path(p) /\ Host(p) \in Hosts
      /\ NoStray(Host(p)) /\ Halted(p)
  BY Places DEF StrayInv, PathInv, NoStrayExporter, NoStray
<1>1. CASE InstallUnit(p)
  <2>1. active' = active /\ local[Host(p)] \subseteq local'[Host(p)]
    BY <1>0, <1>1 DEF InstallUnit, TypeInv, WorldOK
  <2>2. pc'[p] \in {"idle", "start"}
    BY <1>0, <1>1, ExitPath, GotoPath DEF InstallUnit, Locations
  <2> QED BY <1>0, <2>1, <2>2 DEF NoStray, Halted, Host
<1>2. CASE StartUnit(p)
  <2>1. pc'[p] \in {"idle", "done", "lookup"} /\ local' = local
    BY <1>0, <1>2, ExitPath, NextTypePath DEF StartUnit
  <2>2. \/ active' = active
        \/ /\ \E u \in local[Host(p)] : ID(u) = ID(job[p])
           /\ active'[Host(p)] = active[Host(p)] \cup {ID(job[p])}
    BY <1>0, <1>2, SameIDs DEF StartUnit, Installed, TypeInv, WorldOK
  <2> QED BY <1>0, <2>1, <2>2 DEF NoStray, Halted, Host
<1>3. CASE HaltUnit(p, "halt", "uninstall") \/ HaltUnit(p, "sweephalt", "sweepunit")
  <2>1. /\ active'[Host(p)] = active[Host(p)] \ {ID(job[p])}
        /\ local' = local /\ job' = job
    BY <1>0, <1>3 DEF HaltUnit, memory, TypeInv, WorldOK
  <2> QED BY <1>0, <2>1 DEF NoStray, Halted, Host
<1>4. CASE UninstallUnit(p) \/ SweepUnit(p)
  <2>1. pc'[p] \notin {"uninstall", "sweepunit"}
    <3>1. CASE UninstallUnit(p)
      BY <1>0, <3>1, AfterRemovePath DEF UninstallUnit, Path, At
    <3>2. CASE SweepUnit(p)
      BY <1>0, <3>2, ExitPath, GotoPath DEF SweepUnit, Locations
    <3> QED BY <1>4, <3>1, <3>2
  <2>2. /\ active' = active /\ ID(job[p]) \notin active[Host(p)]
        /\ local'[Host(p)] \in {local[Host(p)], Without(local[Host(p)], job[p])}
    BY <1>0, <1>4 DEF UninstallUnit, SweepUnit, At, Halted, TypeInv, WorldOK
  <2>3. \A u \in local[Host(p)] : ID(u) # ID(job[p]) => u \in local'[Host(p)]
    BY <2>2, SameIDs DEF Without
  <2> QED BY <1>0, <2>1, <2>2, <2>3 DEF NoStray, Halted, Host
<1> QED BY <1>1, <1>2, <1>3, <1>4

LEMMA SwitchStray ==
  ASSUME OnePerHost, StrayInv, NEW p \in Procs,
         Switch(p) \/ Restart(p) \/ SwitchEach(p) \/ RestartEach(p)
  PROVE  NoStray(Host(p))' /\ Halted(p)'
<1>0. TypeInv /\ Path(p) /\ Host(p) \in Hosts /\ NoStray(Host(p))
  BY Places DEF StrayInv, PathInv, NoStrayExporter, NoStray
<1>1. pc'[p] \notin {"uninstall", "sweepunit"} /\ local' = local
  <2>1. local' = local BY DEF Switch, Restart, SwitchEach, RestartEach
  <2>2. CASE Exit(p) BY <1>0, <2>1, <2>2, ExitPath
  <2>3. CASE ~ Exit(p)
    BY <1>0, <2>1, <2>3
    DEF Switch, Restart, SwitchEach, RestartEach, Goto, memory, TypeInv, MemoryOK
  <2> QED BY <2>2, <2>3
<1>2. \A i \in active'[Host(p)] :
        i \in active[Host(p)] \/ \E u \in local[Host(p)] : ID(u) = i
  <2>1. CASE Switch(p) \/ Restart(p)
    BY <1>0, <2>1, SameIDs DEF Switch, Restart, UnitExists, Installed, TypeInv, WorldOK
  <2>2. CASE SwitchEach(p)
    BY <1>0, <2>2, SameIDs DEF SwitchEach, UnitExists, Installed, TypeInv, WorldOK
  <2>3. CASE RestartEach(p)
    BY <1>0, <2>3, SameIDs DEF RestartEach, UnitExists, Installed, TypeInv, WorldOK
  <2> QED BY <2>1, <2>2, <2>3
<1> QED BY <1>0, <1>1, <1>2 DEF NoStray, Halted, Host

LEMMA StepStrayInv == OnePerHost /\ StrayInv /\ [Next]_vars => StrayInv'
<1> SUFFICES ASSUME OnePerHost, StrayInv, [Next]_vars PROVE StrayInv'
  OBVIOUS
<1>0. PathInv' BY StepPath DEF StrayInv
<1>1. CASE UNCHANGED vars
  BY <1>0, <1>1 DEF vars, world, memory, StrayInv, NoStrayExporter, Halted, Host
<1>2. ASSUME NEW p \in Procs, Begin(p) \/ Step(p) \/ Fail(p) \/ IgnoredError(p) \/ ReadError(p)
      PROVE  StrayInv'
  <2>1. NoStray(Host(p))' /\ Halted(p)' BY <1>2, QuietStray, UnitStray, SwitchStray DEF Step
  <2> QED BY <1>0, <1>2, <2>1, StepStray DEF StrayInv
<1> QED BY <1>1, <1>2 DEF Next

\* With one pmm-admin at a time on a host no exporter runs on without its unit, whatever
\* fails or is killed: uninstallService stops it first, and nothing starts it in between.
THEOREM ExportersHaveUnits == OnePerHost => (Spec => []NoStrayExporter)
<1> SUFFICES ASSUME OnePerHost PROVE Spec => []NoStrayExporter
  OBVIOUS
<1>1. Init => StrayInv BY InitPath DEF Init, StrayInv, NoStrayExporter, Halted
<1>2. StrayInv /\ [Next]_vars => StrayInv' BY StepStrayInv
<1>3. StrayInv => NoStrayExporter BY DEF StrayInv
<1> QED BY <1>1, <1>2, <1>3, PTL DEF Spec

-----------------------------------------------------------------------------
(* Uninstall *)

LEMMA ArgKept ==
  ASSUME NEW p \in Procs, Step(p) \/ Fail(p) \/ IgnoredError(p) \/ ReadError(p)
  PROVE  Exit(p) \/ UNCHANGED arg
BY DEF Step, Fail, IgnoredError, ReadError, Finish, ListUnits, CheckInstallation, Verdict,
       AddLookup, CheckClient, CheckUnique, ChoosePort, Register, PutKeys, InstallUnit,
       StartUnit, NextType, FindService, RemoveFails, AfterRemove, Deregister, DeleteTree,
       HaltUnit, UninstallUnit, Snapshot, RemoveEach, Sweep, SweepUnit, Purge, PurgeKeys,
       Switch, Restart, SwitchEach, RestartEach, memory

\* The service manager does its part: none of its errors is ignored.
Obeyed == faults > 0 => "ignored" \notin FaultKinds

\* What the last loop of Uninstall has still to do.
Uninstalls(p) ==
  arg[p].cmd = "uninstall" /\ Obeyed =>
    /\ At(p, "sweep") => Installed(p) \subseteq todo[p]
    /\ pc[p] \in {"sweephalt", "sweepunit"} =>
         \A u \in Installed(p) : u \in todo[p] \/ SameID(u, job[p])
    /\ At(p, "done") => Installed(p) = {}

UninstallInv == StrayInv /\ \A p \in Procs : Uninstalls(p)

LEMMA LastLoop ==
  ASSUME UninstallInv, NEW p \in Procs, arg[p].cmd = "uninstall", Obeyed',
         \/ ListUnits(p) \/ Sweep(p) \/ HaltUnit(p, "sweephalt", "sweepunit") \/ SweepUnit(p)
  PROVE  Uninstalls(p)'
<1>0. /\ TypeInv /\ Host(p) \in Hosts /\ Obeyed /\ Uninstalls(p)
  BY Places DEF UninstallInv, StrayInv, PathInv, Obeyed, ListUnits, Sweep, HaltUnit, SweepUnit
<1>1. CASE ListUnits(p)
  <2>1. /\ pc'[p] \in {"all", "sweep"} /\ todo'[p] = Installed(p)
        /\ Installed(p)' = Installed(p)
    BY <1>0, <1>1 DEF ListUnits, Goto, world, Installed, Host, TypeInv, MemoryOK
  <2> QED BY <2>1 DEF Uninstalls, At
<1>2. CASE Sweep(p)
  <2>1. At(p, "sweep") /\ Installed(p)' = Installed(p)
    BY <1>2 DEF Sweep, world, Installed, Host
  <2>2. CASE todo[p] = {} /\ Goto(p, AfterSweep(p))
    <3>1. pc'[p] = "done"
      BY <1>0, <2>2 DEF AfterSweep, Goto, TypeInv, MemoryOK
    <3> QED BY <1>0, <2>1, <2>2, <3>1 DEF Uninstalls, At
  <2>3. CASE ~ (todo[p] = {} /\ Goto(p, AfterSweep(p)))
    <3>1. PICK u \in todo[p] :
            job'[p] = u /\ todo'[p] = todo[p] \ {u} /\ pc'[p] = "sweephalt"
      BY <1>0, <1>2, <2>3 DEF Sweep, StillToDo, Goto, TypeInv, MemoryOK
    <3> QED BY <1>0, <2>1, <3>1 DEF Uninstalls, At, SameID
  <2> QED BY <2>2, <2>3
<1>3. CASE HaltUnit(p, "sweephalt", "sweepunit")
  <2>1. /\ pc[p] = "sweephalt" /\ pc'[p] = "sweepunit"
        /\ job'[p] = job[p] /\ todo'[p] = todo[p] /\ Installed(p)' = Installed(p)
    BY <1>0, <1>3 DEF HaltUnit, At, Goto, memory, Installed, Host, TypeInv, MemoryOK
  <2> QED BY <1>0, <2>1 DEF Uninstalls, At
<1>4. CASE SweepUnit(p)
  <2>1. /\ pc[p] = "sweepunit" /\ pc'[p] = "sweep" /\ todo'[p] = todo[p]
        /\ Installed(p)' = Without(Installed(p), job[p])
    BY <1>0, <1>4 DEF SweepUnit, At, Goto, memory, Installed, Host, TypeInv, WorldOK, MemoryOK
  <2> QED BY <1>0, <2>1 DEF Uninstalls, At, Without, SameID
<1> QED BY <1>1, <1>2, <1>3, <1>4

LEMMA StepUninstalls ==
  ASSUME UninstallInv, NEW p \in Procs,
         Begin(p) \/ Step(p) \/ Fail(p) \/ IgnoredError(p) \/ ReadError(p)
  PROVE  Uninstalls(p)'
<1>0. TypeInv /\ Path(p) BY DEF UninstallInv, StrayInv, PathInv
<1>1. CASE Begin(p)
  <2>1. pc'[p] \in {"list", "snapshot"} BY <1>1, BeginPath DEF UninstallInv, StrayInv
  <2> QED BY <2>1 DEF Uninstalls, At
<1>2. CASE Exit(p) BY <1>0, <1>2, ExitPath DEF Uninstalls, At
<1>3. CASE arg'[p] = arg[p] /\ arg[p].cmd # "uninstall" BY <1>3 DEF Uninstalls
<1>4. CASE IgnoredError(p)
  <2>1. faults' > 0 /\ "ignored" \in FaultKinds
    BY <1>0, <1>4 DEF IgnoredError, Fault, TypeInv
  <2> QED BY <2>1 DEF Uninstalls, Obeyed
<1>5. CASE /\ arg[p].cmd = "uninstall"
           /\ \/ ListUnits(p) \/ Sweep(p) \/ HaltUnit(p, "sweephalt", "sweepunit") \/ SweepUnit(p)
  BY <1>5, LastLoop DEF Uninstalls
<1>6. CASE /\ arg[p].cmd = "uninstall" /\ ~ Exit(p)
           /\ ~ (ListUnits(p) \/ Sweep(p) \/ HaltUnit(p, "sweephalt", "sweepunit") \/ SweepUnit(p))
           /\ Step(p) \/ Fail(p) \/ ReadError(p)
  <2>1. pc'[p] \in {"lookup", "deregister", "deltree", "halt", "uninstall", "each", "list"}
    <3>0. \/ FindService(p) \/ Deregister(p) \/ DeleteTree(p)
          \/ HaltUnit(p, "halt", "uninstall") \/ UninstallUnit(p) \/ Snapshot(p)
          \/ RemoveEach(p) \/ ReadError(p)
      BY <1>0, <1>6
      DEF Step, Finish, Fail, CheckInstallation, AddLookup, CheckClient, CheckUnique, ChoosePort,
          Register, PutKeys, InstallUnit, StartUnit, Purge, PurgeKeys, Switch, Restart,
          SwitchEach, RestartEach, Path, At, Adding, Switching, OnUnits
    <3>a. (AfterRemove(p) \/ RemoveFails(p)) => pc'[p] = "each"
      BY <1>0, <1>6 DEF RemoveFails, Tolerant, AfterRemove, Goto, TypeInv, MemoryOK
    <3>1. CASE FindService(p)
      BY <1>0, <1>6, <3>1, <3>a DEF FindService, Goto, TypeInv, MemoryOK
    <3>2. CASE UninstallUnit(p)
      BY <3>2, <3>a DEF UninstallUnit
    <3>3. CASE \/ Deregister(p) \/ DeleteTree(p) \/ HaltUnit(p, "halt", "uninstall")
               \/ Snapshot(p) \/ RemoveEach(p) \/ ReadError(p)
      BY <1>0, <1>6, <3>3
      DEF Deregister, DeleteTree, HaltUnit, Snapshot, RemoveEach, AfterEach, ReadError, Path,
          At, Goto, TypeInv, MemoryOK
    <3> QED BY <3>0, <3>1, <3>2, <3>3
  <2> QED BY <2>1 DEF Uninstalls, At
<1>7. Exit(p) \/ arg'[p] = arg[p] \/ Begin(p) BY ArgKept
<1> QED BY <1>1, <1>2, <1>3, <1>4, <1>5, <1>6, <1>7

LEMMA StepUninstallInv == OnePerHost /\ UninstallInv /\ [Next]_vars => UninstallInv'
<1> SUFFICES ASSUME OnePerHost, UninstallInv, [Next]_vars PROVE UninstallInv'
  OBVIOUS
<1>0. StrayInv' BY StepStrayInv DEF UninstallInv
<1>1. CASE UNCHANGED vars
  BY <1>0, <1>1
  DEF vars, world, memory, UninstallInv, Uninstalls, Obeyed, At, Installed, Host
<1>2. ASSUME NEW p \in Procs, Begin(p) \/ Step(p) \/ Fail(p) \/ IgnoredError(p) \/ ReadError(p)
      PROVE  UninstallInv'
  <2>1. Own(p) /\ OwnWorld(p) BY <1>2, MovePath DEF UninstallInv, StrayInv
  <2>2. Uninstalls(p)' BY <1>2, StepUninstalls
  <2>3. Obeyed' => Obeyed
    <3>1. faults \in Nat /\ faults' \in {faults, faults + 1}
      BY <1>2, MonitoringConstants
      DEF UninstallInv, StrayInv, PathInv, TypeInv, Begin, Step, Fail, IgnoredError, ReadError,
          Fault, Finish, ListUnits, CheckInstallation, AddLookup, CheckClient, CheckUnique,
          ChoosePort, Register, PutKeys, InstallUnit, StartUnit, FindService, Deregister,
          DeleteTree, HaltUnit, UninstallUnit, Snapshot, RemoveEach, Sweep, SweepUnit, Purge,
          PurgeKeys, Switch, Restart, SwitchEach, RestartEach
    <3> QED BY <3>1 DEF Obeyed
  <2>4. ASSUME NEW q \in Procs \ {p} PROVE Uninstalls(q)'
    <3>1. Host(q) \in Hosts \ {Host(p)} BY MonitoringConstants DEF OnePerHost, Host
    <3>2. Installed(q)' = Installed(q) BY <2>1, <3>1 DEF OwnWorld, Installed, Host
    <3> QED BY <2>1, <2>3, <3>2 DEF Own, UninstallInv, Uninstalls, At
  <2> QED BY <1>0, <2>2, <2>4 DEF UninstallInv
<1> QED BY <1>1, <1>2 DEF Next

\* With one pmm-admin at a time on a host, an uninstall that succeeds leaves no unit and no
\* exporter on it, whatever earlier commands and the server did: it does not trust the catalog.
THEOREM NothingLeft == OnePerHost => (Spec => []UninstallIsTrue)
<1> SUFFICES ASSUME OnePerHost PROVE Spec => []UninstallIsTrue
  OBVIOUS
<1>1. Init => UninstallInv
  BY InitPath DEF Init, UninstallInv, StrayInv, NoStrayExporter, Halted, Uninstalls, At
<1>2. UninstallInv /\ [Next]_vars => UninstallInv' BY StepUninstallInv
<1>3. UninstallInv => UninstallIsTrue
  <2> SUFFICES ASSUME UninstallInv, NEW p \in Procs, Succeeded(p, {"uninstall"}), Obeyed
               PROVE  Installed(p) = {} /\ active[Host(p)] = {}
    BY DEF UninstallIsTrue, Obeyed
  <2>1. Installed(p) = {} BY DEF UninstallInv, Uninstalls, Succeeded, At
  <2>2. Host(p) \in Hosts BY MonitoringConstants DEF Host
  <2> QED BY <2>1, <2>2 DEF UninstallInv, StrayInv, NoStrayExporter, Installed
<1> QED BY <1>1, <1>2, <1>3, PTL DEF Spec

-----------------------------------------------------------------------------
(* Registrations and units in agreement *)

\* Catalog.Node is never taken for an empty catalog.
CatalogRead == "read" \notin FaultKinds

\* An add that got through its checks finds both in agreement, and so does Register.
Adds(p) ==
  /\ pc[p] \in {"client", "unique", "port", "register", "start"}
        \/ (At(p, "lookup") /\ arg[p].cmd = "add")
       => Registered(p) = Installed(p)
  /\ pc[p] \in {"kv", "install"} => Registered(p) = Installed(p) \cup {job[p]}

Serves(u, services) == \E s \in services : SameID(s, u)
Sweeping == {"sweep", "sweephalt", "sweepunit"}

\* What a repair has still to do.
Repairs(p) ==
  arg[p].cmd = "repair" =>
    /\ pc[p] \in Sweeping => \A u \in todo[p] : ~ Serves(u, Registered(p))
    /\ pc[p] \in {"sweephalt", "sweepunit"} => ~ Serves(job[p], Registered(p))
    /\ pc[p] \in Sweeping =>
         \A u \in Installed(p) :
           \/ u \in todo[p] \/ Serves(u, Registered(p))
           \/ pc[p] # "sweep" /\ SameID(u, job[p])
    /\ pc[p] \in {"purge", "purgekv", "done"} =>
         \A u \in Installed(p) : Serves(u, Registered(p))
    /\ pc[p] \in Sweeping \cup {"purge", "purgekv", "done"} =>
         /\ \A s \in Registered(p) : s \in missing[p] \/ \E u \in Installed(p) : SameID(s, u)
         /\ \A s \in missing[p], u \in Installed(p) : ~ SameID(s, u)
    /\ At(p, "done") => missing[p] = {}

\* What remove --all has still to do.
Removals(p) ==
  arg[p].cmd = "removeall" =>
    /\ pc[p] \in {"each", "deltree", "halt", "uninstall"} => Registered(p) \subseteq todo[p]
    /\ At(p, "lookup") =>
         \A s \in Registered(p) : s \in todo[p] \/ (s.type = job[p].type /\ s.alias = job[p].alias)
    /\ At(p, "deregister") => Registered(p) \subseteq todo[p] \cup {job[p]}
    /\ At(p, "done") => Registered(p) = {}

Sound(p) == Adds(p) /\ Repairs(p) /\ Removals(p)

SoundInv == IInv /\ PathInv /\ \A p \in Procs : Sound(p)

\* Where nothing of this is claimed.
Claimless == {"idle", "list", "check", "snapshot", "act", "react", "all", "allreact"}

LEMMA ClaimlessSound == ASSUME NEW p \in Procs, pc'[p] \in Claimless PROVE Sound(p)'
BY DEF Claimless, Sound, Adds, Repairs, Removals, Sweeping, At

\* Units and registrations that match each other are the same.
LEMMA MatchedSettled ==
  ASSUME IInv, NEW p \in Procs,
         \A u \in Installed(p) : Serves(u, Registered(p)),
         \A s \in Registered(p) : \E u \in Installed(p) : SameID(s, u)
  PROVE  Registered(p) = Installed(p)
<1>1. Host(p) \in Hosts BY MonitoringConstants DEF Host
<1>2. \A s \in Registered(p), u \in Installed(p) : SameID(s, u) => s = u
  BY <1>1 DEF IInv, UnitServesAlias, Registered, Installed, Client, Host
<1> QED BY <1>2 DEF Serves

LEMMA WorldKept ==
  ASSUME NEW p \in Procs, catalog' = catalog, local' = local
  PROVE  Registered(p)' = Registered(p) /\ Installed(p)' = Installed(p)
BY DEF Registered, Installed, Client, Host

LEMMA PreflightSound ==
  ASSUME CatalogRead, SoundInv, NEW p \in Procs,
         \/ Begin(p) \/ Finish(p) \/ ListUnits(p) \/ CheckInstallation(p) \/ Snapshot(p)
         \/ Fail(p) \/ ReadError(p)
  PROVE  Sound(p)'
<1>0. /\ TypeInv /\ Path(p) /\ Knows(p) /\ IInv BY DEF SoundInv, PathInv, IInv
<1>1. CASE Begin(p)
  <2>1. pc'[p] \in {"list", "snapshot"} BY <1>1, BeginPath DEF SoundInv
  <2> QED BY <2>1, ClaimlessSound DEF Claimless
<1>2. CASE Finish(p) \/ Fail(p)
  BY <1>0, <1>2, ExitPath, ClaimlessSound DEF Finish, Fail, Claimless
<1>3. CASE ListUnits(p)
  <2>1. /\ pc'[p] \in {"all", "check"} \/ (pc'[p] = "sweep" /\ arg[p].cmd = "uninstall")
        /\ arg'[p] = arg[p]
    BY <1>0, <1>3 DEF ListUnits, Goto, TypeInv, MemoryOK
  <2> QED BY <2>1 DEF Sound, Adds, Repairs, Removals, Sweeping, At
<1>4. CASE CheckInstallation(p)
  <2> DEFINE orphans == Orphans(Installed(p), Registered(p))
             lost == Missing(Installed(p), Registered(p))
  <2>1. At(p, "check") /\ Verdict(p, orphans, lost) /\ UNCHANGED world
    BY <1>0, <1>4 DEF CheckInstallation, Knows
  <2>2. \/ pc'[p] = "idle"
        \/ /\ pc'[p] = "sweep" /\ arg'[p] = arg[p] /\ arg[p].cmd = "repair"
           /\ todo'[p] = orphans /\ missing'[p] = lost
        \/ /\ pc'[p] \in {"snapshot", "lookup"} /\ arg'[p] = arg[p] /\ arg[p].cmd # "repair"
           /\ orphans = {} /\ lost = {}
    BY <1>0, <2>1, VerdictPath
  <2>3. Registered(p)' = Registered(p) /\ Installed(p)' = Installed(p)
    BY <2>1, WorldKept DEF world
  <2>4. CASE pc'[p] \in {"idle", "snapshot"} BY <2>4, ClaimlessSound DEF Claimless
  <2>5. CASE pc'[p] = "sweep"
    <3>1. /\ arg'[p].cmd = "repair" /\ todo'[p] = orphans /\ missing'[p] = lost
      BY <2>2, <2>5
    <3>2. /\ \A u \in orphans : ~ Serves(u, Registered(p))
          /\ \A u \in Installed(p) : u \in orphans \/ Serves(u, Registered(p))
      BY DEF Orphans, Serves
    <3>3. /\ \A s \in Registered(p) : s \in lost \/ \E u \in Installed(p) : SameID(s, u)
          /\ \A s \in lost, u \in Installed(p) : ~ SameID(s, u)
      BY DEF Missing, SameID
    <3>4. Repairs(p)' BY <2>3, <2>5, <3>1, <3>2, <3>3 DEF Repairs, Sweeping, At
    <3> QED BY <2>5, <3>1, <3>4 DEF Sound, Adds, Removals, At
  <2>6. CASE pc'[p] = "lookup"
    <3>1. orphans = {} /\ lost = {} /\ arg'[p] = arg[p] /\ arg[p].cmd # "repair"
      BY <2>2, <2>6
    <3>2. Registered(p) = Installed(p)
      BY <1>0, <3>1, MatchedSettled DEF Orphans, Missing, Serves, SameID
    <3>3. arg[p].cmd # "removeall"
      BY <1>0, <2>1, <2>6 DEF Verdict, Goto, Exit, TypeInv, MemoryOK
    <3> QED BY <2>3, <2>6, <3>1, <3>2, <3>3 DEF Sound, Adds, Repairs, Removals, At
  <2> QED BY <2>2, <2>4, <2>5, <2>6
<1>5. CASE Snapshot(p)
  <2>1. /\ pc'[p] = "each" /\ arg'[p] = arg[p] /\ todo'[p] = Registered(p)
        /\ Registered(p)' = Registered(p)
    BY <1>0, <1>5, WorldKept DEF Snapshot, Goto, world, TypeInv, MemoryOK
  <2> QED BY <2>1 DEF Sound, Adds, Repairs, Removals, Sweeping, At
<1>6. CASE ReadError(p) BY <1>6 DEF CatalogRead, ReadError, Fault
<1> QED BY <1>1, <1>2, <1>3, <1>4, <1>5, <1>6

LEMMA AddSound ==
  ASSUME Exclusive, SoundInv, NEW p \in Procs,
         \/ AddLookup(p) \/ CheckClient(p) \/ CheckUnique(p) \/ ChoosePort(p)
         \/ Register(p) \/ PutKeys(p) \/ InstallUnit(p) \/ StartUnit(p)
  PROVE  Sound(p)'
<1>0. /\ TypeInv /\ Path(p) /\ Knows(p) /\ Adds(p) /\ arg[p].cmd = "add"
      /\ Client(p) \in ClientNames /\ Host(p) \in Hosts
  BY Places
  DEF SoundInv, PathInv, IInv, Sound, Path, AddLookup, CheckClient, CheckUnique, ChoosePort,
      Register, PutKeys, InstallUnit, StartUnit, At, Adding
<1>1. CASE Exit(p) BY <1>0, <1>1, ExitPath, ClaimlessSound DEF Claimless
<1>2. ASSUME Adds(p)', arg'[p] = arg[p] PROVE Sound(p)'
  BY <1>0, <1>2 DEF Sound, Repairs, Removals
<1>3. CASE NextType(p) /\ (AddLookup(p) \/ StartUnit(p))
  <2>1. Registered(p)' = Registered(p) /\ Installed(p)' = Installed(p)
    BY <1>3, WorldKept DEF AddLookup, StartUnit, world
  <2>2. Registered(p) = Installed(p) BY <1>0, <1>3 DEF AddLookup, StartUnit, Adds, At
  <2>3. pc'[p] \in {"done", "lookup"} /\ arg'[p] = arg[p] BY <1>0, <1>3, NextTypePath
  <2> QED BY <1>2, <2>1, <2>2, <2>3 DEF Adds, At
<1>4. CASE /\ ~ Exit(p)
           /\ \/ AddLookup(p) /\ ~ NextType(p)
              \/ CheckClient(p) \/ CheckUnique(p) \/ ChoosePort(p)
  <2>1. Registered(p)' = Registered(p) /\ Installed(p)' = Installed(p)
    BY <1>4, WorldKept DEF AddLookup, CheckClient, CheckUnique, ChoosePort, world
  <2>2. Registered(p) = Installed(p)
    BY <1>0, <1>4 DEF AddLookup, CheckClient, CheckUnique, ChoosePort, Adds, At
  <2>3. pc'[p] \in {"client", "unique", "port", "register"} /\ arg'[p] = arg[p]
    BY <1>0, <1>4 DEF AddLookup, CheckClient, CheckUnique, ChoosePort, Goto, At, memory,
                      TypeInv, MemoryOK
  <2> QED BY <1>2, <2>1, <2>2, <2>3 DEF Adds, At
<1>5. CASE Register(p)
  <2>1. \A s \in Registered(p) : s.port # job[p].port
    BY <1>0, <1>5 DEF Register, Knows, Available
  <2>2. Registered(p) = Installed(p) BY <1>0, <1>5 DEF Register, Adds, At
  <2>3. Without(Registered(p), job[p]) = Registered(p) BY <2>1 DEF Without, SameID
  <2>4. /\ Registered(p)' = Registered(p) \cup {job[p]} /\ Installed(p)' = Installed(p)
        /\ pc'[p] \in {"kv", "install"} /\ arg'[p] = arg[p] /\ job'[p] = job[p]
    BY <1>0, <1>5, <2>3
    DEF Register, Registered, Installed, Client, Host, Goto, memory, TypeInv, WorldOK, MemoryOK
  <2> QED BY <1>2, <2>2, <2>4 DEF Adds, At
<1>6. CASE PutKeys(p)
  <2>1. /\ Registered(p)' = Registered(p) /\ Installed(p)' = Installed(p)
        /\ At(p, "kv") /\ pc'[p] = "install" /\ arg'[p] = arg[p] /\ job'[p] = job[p]
    BY <1>0, <1>6, WorldKept DEF PutKeys, At, Goto, memory, TypeInv, MemoryOK
  <2> QED BY <1>0, <1>2, <2>1 DEF Adds, At
<1>7. CASE InstallUnit(p) /\ ~ Exit(p)
  <2>1. /\ Registered(p)' = Registered(p) /\ Installed(p)' = Installed(p) \cup {job[p]}
        /\ At(p, "install") /\ pc'[p] = "start" /\ arg'[p] = arg[p]
    BY <1>0, <1>7
    DEF InstallUnit, Registered, Installed, Client, Host, Goto, memory, TypeInv, WorldOK, MemoryOK
  <2> QED BY <1>0, <1>2, <2>1 DEF Adds, At
<1>8. CASE StartUnit(p) /\ ~ Exit(p) /\ ~ NextType(p) BY <1>8 DEF StartUnit
<1> QED BY <1>1, <1>3, <1>4, <1>5, <1>6, <1>7, <1>8

LEMMA RemoveSound ==
  ASSUME SoundInv, NEW p \in Procs,
         \/ FindService(p) \/ Deregister(p) \/ DeleteTree(p)
         \/ HaltUnit(p, "halt", "uninstall") \/ UninstallUnit(p) \/ RemoveEach(p)
  PROVE  Sound(p)'
<1>0. /\ TypeInv /\ Path(p) /\ Removals(p) /\ ServicesDistinct
      /\ Client(p) \in ClientNames /\ Host(p) \in Hosts
      /\ arg[p].cmd \notin {"add", "repair"}
  BY Places
  DEF SoundInv, PathInv, IInv, Sound, Path, FindService, Deregister, DeleteTree, HaltUnit,
      UninstallUnit, RemoveEach, At, Switching
<1>1. CASE Exit(p) BY <1>0, <1>1, ExitPath, ClaimlessSound DEF Claimless
<1>2. CASE ~ Exit(p)
  <2>1. arg'[p] = arg[p] BY <1>2, ArgKept DEF Step
  <2>2. Path(p)' BY RemovePath DEF SoundInv
  <2>3. Adds(p)' /\ Repairs(p)'
    BY <1>0, <2>1, <2>2 DEF Path, Adds, Repairs, Adding, At
  <2>4. ASSUME arg[p].cmd = "removeall" PROVE Removals(p)'
    <3>1. CASE FindService(p)
      <4>1. ~ RemoveFails(p) BY <1>2, <2>4 DEF RemoveFails, Tolerant
      <4>2. PICK s \in Matches(Registered(p), job[p].type, job[p].alias) :
              /\ job'[p] = s /\ pc'[p] = "deregister" /\ todo'[p] = todo[p]
        BY <1>0, <1>2, <2>4, <3>1, <4>1 DEF FindService, Goto, TypeInv, MemoryOK
      <4>3. At(p, "lookup") /\ Registered(p)' = Registered(p)
        BY <3>1, WorldKept DEF FindService, world
      <4>4. \A u \in Registered(p) : u.type = job[p].type /\ u.alias = job[p].alias => u = s
        BY <1>0, <4>2 DEF ServicesDistinct, Registered, Matches
      <4> QED BY <1>0, <2>4, <4>2, <4>3, <4>4 DEF Removals, At
    <3>2. CASE Deregister(p)
      <4>1. /\ Registered(p)' = Without(Registered(p), job[p])
            /\ At(p, "deregister") /\ pc'[p] = "deltree" /\ todo'[p] = todo[p]
        BY <1>0, <3>2
        DEF Deregister, Registered, Client, At, Goto, memory, TypeInv, WorldOK, MemoryOK
      <4> QED BY <1>0, <2>4, <4>1 DEF Removals, At, Without, SameID
    <3>3. CASE DeleteTree(p) \/ HaltUnit(p, "halt", "uninstall")
      <4>1. /\ Registered(p)' = Registered(p) /\ todo'[p] = todo[p]
            /\ pc[p] \in {"deltree", "halt"} /\ pc'[p] \in {"halt", "uninstall"}
        BY <1>0, <3>3
        DEF DeleteTree, HaltUnit, Registered, Client, At, Goto, memory, TypeInv, MemoryOK
      <4> QED BY <1>0, <2>4, <4>1 DEF Removals, At
    <3>4. CASE UninstallUnit(p)
      <4>1. AfterRemove(p)
        BY <1>2, <2>4, <3>4 DEF UninstallUnit, RemoveFails
      <4>2. /\ Registered(p)' = Registered(p) /\ todo'[p] = todo[p]
            /\ At(p, "uninstall") /\ pc'[p] = "each"
        BY <1>0, <2>4, <3>4, <4>1
        DEF UninstallUnit, AfterRemove, Registered, Client, At, Goto, memory, TypeInv, MemoryOK
      <4> QED BY <1>0, <2>4, <4>2 DEF Removals, At
    <3>5. CASE RemoveEach(p)
      <4>1. Registered(p)' = Registered(p) /\ Registered(p) \subseteq todo[p]
        BY <1>0, <2>4, <3>5, WorldKept DEF RemoveEach, world, Removals, At
      <4>2. CASE todo[p] = {} /\ Goto(p, AfterEach(p))
        <5>1. pc'[p] = "done" BY <1>0, <2>4, <4>2 DEF AfterEach, Goto, TypeInv, MemoryOK
        <5> QED BY <4>1, <4>2, <5>1 DEF Removals, At
      <4>3. CASE ~ (todo[p] = {} /\ Goto(p, AfterEach(p)))
        <5>1. PICK s \in todo[p] :
                /\ job'[p] = WithPort(s, 0) /\ todo'[p] = todo[p] \ {s} /\ pc'[p] = "lookup"
          BY <1>0, <3>5, <4>3 DEF RemoveEach, StillToDo, Goto, TypeInv, MemoryOK
        <5> QED BY <4>1, <5>1 DEF Removals, At, WithPort
      <4> QED BY <4>2, <4>3
    <3> QED BY <3>1, <3>2, <3>3, <3>4, <3>5
  <2> QED BY <2>1, <2>3, <2>4 DEF Sound, Removals
<1> QED BY <1>1, <1>2

\* A repair uninstalls what nothing registered serves; what is served keeps its unit.
LEMMA SweepSound ==
  ASSUME SoundInv, NEW p \in Procs, arg[p].cmd = "repair",
         Sweep(p) \/ HaltUnit(p, "sweephalt", "sweepunit") \/ SweepUnit(p)
  PROVE  Sound(p)'
<1>0. TypeInv /\ Path(p) /\ Repairs(p) /\ Host(p) \in Hosts
  BY Places DEF SoundInv, PathInv, IInv, Sound
<1>1. CASE Exit(p) BY <1>0, <1>1, ExitPath, ClaimlessSound DEF Claimless
<1>2. CASE ~ Exit(p)
  <2>1. arg'[p] = arg[p] /\ Path(p)' BY <1>2, ArgKept, RepairPath DEF Step, SoundInv
  <2>2. Adds(p)' /\ Removals(p)' BY <2>1 DEF Path, Adds, Removals, Adding, At
  <2>3. missing'[p] = missing[p] /\ Registered(p)' = Registered(p)
    BY <1>2 DEF Sweep, HaltUnit, SweepUnit, world, memory, Registered, Client
  <2>4. Repairs(p)'
    <3>1. CASE Sweep(p)
      <4>1. At(p, "sweep") /\ Installed(p)' = Installed(p)
        BY <3>1, WorldKept DEF Sweep, world
      <4>2. CASE todo[p] = {} /\ Goto(p, AfterSweep(p))
        <5>1. pc'[p] = "purge" BY <1>0, <4>2 DEF AfterSweep, Goto, TypeInv, MemoryOK
        <5> QED BY <1>0, <2>1, <2>3, <4>1, <4>2, <5>1 DEF Repairs, Sweeping, At
      <4>3. CASE ~ (todo[p] = {} /\ Goto(p, AfterSweep(p)))
        <5>1. PICK u \in todo[p] :
                job'[p] = u /\ todo'[p] = todo[p] \ {u} /\ pc'[p] = "sweephalt"
          BY <1>0, <3>1, <4>3 DEF Sweep, StillToDo, Goto, TypeInv, MemoryOK
        <5> QED BY <1>0, <2>1, <2>3, <4>1, <5>1 DEF Repairs, Sweeping, At, SameID
      <4> QED BY <4>2, <4>3
    <3>2. CASE HaltUnit(p, "sweephalt", "sweepunit")
      <4>1. /\ pc[p] = "sweephalt" /\ pc'[p] = "sweepunit" /\ job'[p] = job[p]
            /\ todo'[p] = todo[p] /\ Installed(p)' = Installed(p)
        BY <1>0, <3>2
        DEF HaltUnit, At, Goto, memory, Installed, Host, TypeInv, MemoryOK
      <4> QED BY <1>0, <2>1, <2>3, <4>1 DEF Repairs, Sweeping, At
    <3>3. CASE SweepUnit(p)
      <4>1. /\ pc[p] = "sweepunit" /\ pc'[p] = "sweep" /\ todo'[p] = todo[p]
            /\ Installed(p)' = Without(Installed(p), job[p])
        BY <1>0, <1>2, <3>3
        DEF SweepUnit, At, Goto, memory, Installed, Host, TypeInv, WorldOK, MemoryOK
      <4>2. \A s \in Registered(p), u \in Installed(p) :
              SameID(s, u) => u \in Without(Installed(p), job[p])
        BY <1>0, <4>1 DEF Repairs, Serves, Without, SameID
      <4> QED
        BY <1>0, <2>1, <2>3, <4>1, <4>2 DEF Repairs, Sweeping, At, Without, SameID
    <3> QED BY <3>1, <3>2, <3>3
  <2> QED BY <2>2, <2>4 DEF Sound
<1> QED BY <1>1, <1>2

LEMMA PurgeSound ==
  ASSUME SoundInv, NEW p \in Procs, Purge(p) \/ PurgeKeys(p)
  PROVE  Sound(p)'
<1>0. /\ TypeInv /\ Path(p) /\ Repairs(p) /\ Client(p) \in ClientNames
      /\ arg[p].cmd = "repair"
  BY Places DEF SoundInv, PathInv, IInv, Sound, Path, Purge, PurgeKeys, At
<1>1. pc'[p] \in {"purge", "purgekv", "done"} /\ arg'[p] = arg[p]
  BY <1>0 DEF Purge, PurgeKeys, Goto, memory, TypeInv, MemoryOK
<1>2. Adds(p)' /\ Removals(p)' BY <1>0, <1>1 DEF Adds, Removals, At
<1>3. pc[p] \in {"purge", "purgekv"} /\ Installed(p)' = Installed(p)
  BY DEF Purge, PurgeKeys, At, Installed, Host
<1>4. CASE /\ Registered(p)' = Registered(p) /\ missing'[p] = missing[p]
           /\ pc'[p] = "done" => missing[p] = {}
  BY <1>0, <1>1, <1>3, <1>4 DEF Sound, Repairs, Sweeping, At, Adds, Removals
<1>5. CASE ~ (/\ Registered(p)' = Registered(p) /\ missing'[p] = missing[p]
              /\ pc'[p] = "done" => missing[p] = {})
  <2>1. PICK s \in missing[p] :
          /\ Registered(p)' = Without(Registered(p), s)
          /\ missing'[p] = missing[p] \ {s} /\ pc'[p] = "purgekv"
    BY <1>0, <1>5
    DEF Purge, PurgeKeys, Registered, Client, Goto, memory, TypeInv, WorldOK, MemoryOK
  <2>2. \A u \in Installed(p), v \in Registered(p) :
          SameID(v, u) => v \in Without(Registered(p), s)
    BY <1>0, <1>3, <2>1 DEF Repairs, Without, SameID
  <2>3. Repairs(p)'
    BY <1>0, <1>1, <1>3, <2>1, <2>2 DEF Repairs, Serves, Sweeping, At, Without, SameID
  <2> QED BY <1>2, <2>3 DEF Sound
<1> QED BY <1>4, <1>5

\* Commands of which nothing is claimed; the loops over units need no claim either.
LEMMA OtherSound ==
  ASSUME SoundInv, NEW p \in Procs, Step(p) \/ Fail(p) \/ IgnoredError(p) \/ ReadError(p),
         \/ arg[p].cmd \notin {"add", "repair", "removeall"}
         \/ Switch(p) \/ Restart(p) \/ SwitchEach(p) \/ RestartEach(p)
  PROVE  Sound(p)'
<1>0. TypeInv BY DEF SoundInv, PathInv
<1>1. CASE Exit(p) BY <1>0, <1>1, ExitPath, ClaimlessSound DEF Claimless
<1>2. CASE ~ Exit(p)
  <2>1. arg'[p] = arg[p] /\ Path(p)' BY <1>2, ArgKept, MovePath DEF SoundInv
  <2>2. arg[p].cmd \notin {"add", "repair", "removeall"}
    BY DEF SoundInv, PathInv, Path, Switch, Restart, SwitchEach, RestartEach, At, Switching, OnUnits
  <2> QED BY <2>1, <2>2 DEF Sound, Path, Adds, Repairs, Removals, Adding, At
<1> QED BY <1>1, <1>2

LEMMA IgnoredSound ==
  ASSUME SoundInv, NEW p \in Procs, IgnoredError(p)
  PROVE  Sound(p)'
<1>0. TypeInv /\ Path(p) /\ Repairs(p) BY DEF SoundInv, PathInv, Sound
<1>1. CASE arg[p].cmd \in {"remove", "uninstall"} BY <1>1, OtherSound
<1>2. CASE arg[p].cmd \notin {"remove", "uninstall"}
  <2>1. CASE At(p, "purgekv") /\ Goto(p, "purge") /\ UNCHANGED memory
    <3>1. "purge" \in Locations BY DEF Locations
    <3>2. Registered(p)' = Registered(p) /\ Installed(p)' = Installed(p)
      BY WorldKept DEF IgnoredError, world
    <3>3. arg[p].cmd = "repair" BY <1>0, <2>1 DEF Path, At
    <3>4. pc'[p] = "purge" /\ arg'[p] = arg[p] /\ missing'[p] = missing[p]
      BY <1>0, <2>1, <3>1, GotoPath
    <3> QED
      BY <1>0, <2>1, <3>2, <3>3, <3>4 DEF Sound, Adds, Repairs, Removals, Sweeping, At
  <2>2. CASE ~ (At(p, "purgekv") /\ Goto(p, "purge") /\ UNCHANGED memory)
    <3>1. pc'[p] = "all"
      BY <1>0, <1>2, <2>2 DEF IgnoredError, Tolerant, Goto, At, TypeInv, MemoryOK
    <3> QED BY <3>1, ClaimlessSound DEF Claimless
  <2> QED BY <2>1, <2>2
<1> QED BY <1>1, <1>2

LEMMA StepSound ==
  ASSUME Exclusive, CatalogRead, SoundInv, NEW p \in Procs,
         Begin(p) \/ Step(p) \/ Fail(p) \/ IgnoredError(p) \/ ReadError(p)
  PROVE  Sound(p)'
<1>1. CASE Sweep(p) \/ HaltUnit(p, "sweephalt", "sweepunit") \/ SweepUnit(p)
  <2>1. arg[p].cmd \in {"repair", "uninstall"}
    BY <1>1 DEF SoundInv, PathInv, Path, Sweep, HaltUnit, SweepUnit, At
  <2>2. Step(p) BY <1>1 DEF Step
  <2> QED BY <1>1, <2>1, <2>2, SweepSound, OtherSound
<1>2. CASE Switch(p) \/ Restart(p) \/ SwitchEach(p) \/ RestartEach(p)
  <2>1. Step(p) BY <1>2 DEF Step
  <2> QED BY <1>2, <2>1, OtherSound
<1> QED
  BY <1>1, <1>2, PreflightSound, AddSound, RemoveSound, PurgeSound, IgnoredSound DEF Step

LEMMA StepSoundInv == Exclusive /\ CatalogRead /\ SoundInv /\ [Next]_vars => SoundInv'
<1> SUFFICES ASSUME Exclusive, CatalogRead, SoundInv, [Next]_vars PROVE SoundInv'
  OBVIOUS
<1>0. IInv' /\ PathInv' BY StepIInv, StepPath DEF SoundInv
<1>1. CASE UNCHANGED vars
  <2>1. /\ catalog' = catalog /\ local' = local /\ pc' = pc /\ arg' = arg
        /\ job' = job /\ todo' = todo /\ missing' = missing
    BY <1>1 DEF vars, world, memory
  <2> QED
    BY <1>0, <2>1 DEF SoundInv, Sound, Adds, Repairs, Removals, Serves, Sweeping, At,
                      Registered, Installed, Client, Host
<1>2. ASSUME NEW p \in Procs, Begin(p) \/ Step(p) \/ Fail(p) \/ IgnoredError(p) \/ ReadError(p)
      PROVE  SoundInv'
  <2>1. Own(p) /\ OwnWorld(p) BY <1>2, MovePath DEF SoundInv
  <2>2. Sound(p)' BY <1>2, StepSound
  <2>3. ASSUME NEW q \in Procs \ {p} PROVE Sound(q)'
    <3>1. Client(q) \in ClientNames \ {Client(p)} /\ Host(q) \in Hosts \ {Host(p)}
      BY MonitoringConstants DEF Exclusive, Client, Host
    <3>2. Registered(q)' = Registered(q) /\ Installed(q)' = Installed(q)
      BY <2>1, <3>1 DEF OwnWorld, Registered, Installed, Client, Host
    <3>3. Sound(q) BY DEF SoundInv
    <3> QED
      BY <2>1, <3>2, <3>3 DEF Own, Sound, Adds, Repairs, Removals, Serves, Sweeping, At
  <2> QED BY <1>0, <2>2, <2>3 DEF SoundInv
<1> QED BY <1>1, <1>2 DEF Next

LEMMA InitSoundInv == Init => SoundInv
BY InitIInv, InitPath
DEF Init, SoundInv, Sound, Adds, Repairs, Removals, Sweeping, At

-----------------------------------------------------------------------------
(* What follows from it *)

\* What an earlier command left half done blocks every add until it is repaired: where one
\* pmm-admin works at a time and catalogs are not misread, registrations and units agree
\* whenever a service is registered, from the check at the start of the command on.
THEOREM OnlySettledClientsGrow == Exclusive /\ CatalogRead => (Spec => AddsOnlyWhenSettled)
<1> SUFFICES ASSUME Exclusive, CatalogRead PROVE Spec => AddsOnlyWhenSettled
  OBVIOUS
<1> DEFINE Grows(h) == ~ (catalog'[ClientName[h]] \subseteq catalog[ClientName[h]])
<1>1. SoundInv /\ [Next]_vars => SoundInv' BY StepSoundInv
<1>2. SoundInv /\ [Next]_vars => [\A h \in Hosts : Grows(h) => Settled(h)]_vars
  <2> SUFFICES ASSUME SoundInv, [Next]_vars, NEW h \in Hosts, Grows(h) PROVE Settled(h)
    OBVIOUS
  <2>0. TypeInv /\ ClientName[h] \in ClientNames
    BY MonitoringConstants DEF SoundInv, PathInv
  <2>1. ~ UNCHANGED vars BY DEF vars, world
  <2>2. PICK p \in Procs : Begin(p) \/ Step(p) \/ Fail(p) \/ IgnoredError(p) \/ ReadError(p)
    BY <2>1 DEF Next
  <2>3. Client(p) \in ClientNames /\ Host(p) \in Hosts BY <2>0, Places
  <2>4. Register(p)
    <3>1. catalog' # catalog OBVIOUS
    <3>2. CASE Deregister(p) \/ Purge(p)
      <4>1. catalog' = catalog \/ \E s : catalog' = [catalog EXCEPT ![Client(p)] = Without(@, s)]
        BY <3>2 DEF Deregister, Purge
      <4> QED BY <2>0, <2>3, <3>1, <4>1 DEF TypeInv, WorldOK, Without
    <3> QED BY <2>2, <3>1, <3>2, CatalogKept
  <2>5. ClientName[h] = Client(p) BY <2>0, <2>3, <2>4 DEF Register, TypeInv, WorldOK
  <2>6. h = Host(p) BY <2>3, <2>5 DEF Exclusive, Client, Host
  <2>7. Registered(p) = Installed(p) BY <2>4 DEF SoundInv, Sound, Adds, Register, At
  <2> QED BY <2>6, <2>7 DEF Settled, Registered, Installed, Client, Host
<1> QED BY <1>1, <1>2, InitSoundInv, PTL DEF Spec, AddsOnlyWhenSettled

\* Under the same condition repair uninstalls no unit of a registered service: the failed
\* read of the repair run is the only way.
THEOREM RepairSparesServices == Exclusive /\ CatalogRead => (Spec => RepairSparesRegistered)
<1> SUFFICES ASSUME Exclusive, CatalogRead PROVE Spec => RepairSparesRegistered
  OBVIOUS
<1> DEFINE Spares(p) == arg[p].cmd = "repair" /\ arg'[p] = arg[p] =>
                          \A u \in Installed(p) \ local'[Host(p)] :
                            \A s \in Registered(p) : ~ SameID(s, u)
<1>1. SoundInv /\ [Next]_vars => SoundInv' BY StepSoundInv
<1>2. SoundInv /\ [Next]_vars => [\A p \in Procs : Spares(p)]_vars
  <2> SUFFICES ASSUME SoundInv, [Next]_vars, NEW p \in Procs,
                      arg[p].cmd = "repair", arg'[p] = arg[p],
                      NEW u \in Installed(p) \ local'[Host(p)], NEW s \in Registered(p),
                      ~ UNCHANGED vars
               PROVE  ~ SameID(s, u)
    OBVIOUS
  <2>0. TypeInv /\ Path(p) /\ Host(p) \in Hosts BY Places DEF SoundInv, PathInv
  <2>1. PICK q \in Procs : Begin(q) \/ Step(q) \/ Fail(q) \/ IgnoredError(q) \/ ReadError(q)
    BY DEF Next
  <2>2. q = p
    <3>1. OwnWorld(q) BY <2>1, MovePath DEF SoundInv
    <3>2. Host(p) = Host(q) BY <2>0, <3>1 DEF OwnWorld, Installed
    <3> QED BY <3>2 DEF Exclusive, Host
  <2>3. local' # local BY DEF Installed
  <2>4. SweepUnit(p)
    BY <2>0, <2>1, <2>2, <2>3
    DEF Begin, Step, Fail, IgnoredError, ReadError, Finish, ListUnits, CheckInstallation,
        AddLookup, CheckClient, CheckUnique, ChoosePort, Register, PutKeys, InstallUnit,
        StartUnit, FindService, Deregister, DeleteTree, HaltUnit, UninstallUnit, Snapshot,
        RemoveEach, Sweep, Purge, PurgeKeys, Switch, Restart, SwitchEach, RestartEach,
        world, Path, At, Adding
  <2>5. pc[p] = "sweepunit" /\ ~ Serves(job[p], Registered(p))
    BY <2>4 DEF SweepUnit, At, SoundInv, Sound, Repairs
  <2>6. local'[Host(p)] = Without(local[Host(p)], job[p])
    BY <2>0, <2>3, <2>4 DEF SweepUnit, TypeInv, WorldOK
  <2>7. SameID(u, job[p]) BY <2>6 DEF Installed, Without, SameID
  <2> QED BY <2>5, <2>7 DEF Serves, SameID
<1> QED BY <1>1, <1>2, InitSoundInv, PTL DEF Spec, RepairSparesRegistered

\* A repair that succeeds leaves registrations and units in full agreement, whatever was
\* left half done before and whichever of its own deletions of keys failed.
THEOREM RepairsSettle == Exclusive /\ CatalogRead => (Spec => []RepairIsTrue)
<1> SUFFICES ASSUME Exclusive, CatalogRead PROVE Spec => []RepairIsTrue
  OBVIOUS
<1>1. SoundInv /\ [Next]_vars => SoundInv' BY StepSoundInv
<1>2. SoundInv => RepairIsTrue
  <2> SUFFICES ASSUME SoundInv, NEW p \in Procs, Succeeded(p, {"repair"})
               PROVE  Settled(Host(p))
    BY DEF RepairIsTrue
  <2>1. Repairs(p) /\ At(p, "done") /\ arg[p].cmd = "repair"
    BY DEF SoundInv, Sound, Succeeded
  <2>2. /\ \A u \in Installed(p) : Serves(u, Registered(p))
        /\ \A s \in Registered(p) : \E u \in Installed(p) : SameID(s, u)
    BY <2>1 DEF Repairs, At
  <2>3. Registered(p) = Installed(p) BY <2>2, MatchedSettled DEF SoundInv
  <2> QED BY <2>3 DEF Settled, Registered, Installed, Client, Host
<1> QED BY <1>1, <1>2, InitSoundInv, PTL DEF Spec

\* When remove --all answers OK no service of the client is registered, although its loop
\* runs over a snapshot and looks every service up again by type and name.
THEOREM AllRemoved == Exclusive /\ CatalogRead => (Spec => []RemoveAllIsTrue)
<1> SUFFICES ASSUME Exclusive, CatalogRead PROVE Spec => []RemoveAllIsTrue
  OBVIOUS
<1>1. SoundInv /\ [Next]_vars => SoundInv' BY StepSoundInv
<1>2. SoundInv => RemoveAllIsTrue
  BY DEF SoundInv, Sound, Removals, RemoveAllIsTrue, Succeeded, At
<1> QED BY <1>1, <1>2, InitSoundInv, PTL DEF Spec
=============================================================================
