--------------------------- MODULE Monitoring_proofs ---------------------------
(***************************************************************************)
(* Proofs about Monitoring for every value of its constants: its types,    *)
(* and, for one pmm-admin at a time per host and one name per host, that   *)
(* the services of a client stay distinct and are served by the units that *)
(* were installed for them.                                                *)
(***************************************************************************)
EXTENDS Monitoring, TLAPS

-----------------------------------------------------------------------------
(* Types *)

WorldOK ==
  /\ catalog \in [ClientNames -> SUBSET Services]
  /\ address \in [ClientNames -> SUBSET Hosts]
  /\ kv \in [ClientNames -> SUBSET IDs]
  /\ local \in [Hosts -> SUBSET Services]
  /\ active \in [Hosts -> SUBSET IDs]

\* The locations at which the job of a process has its port.
PortKnown == {"port", "register", "kv", "install", "start", "deregister", "deltree", "halt",
             "uninstall", "sweephalt", "sweepunit", "purgekv", "act", "react", "allreact"}

\* The range choosePort walks through when the user gives no port.
InRange(p) ==
  /\ job[p].port >= DefaultPort[job[p].type]
  /\ job[p].port < DefaultPort[job[p].type] + PortRange

MemoryOK ==
  /\ pc \in [Procs -> Locations]
  /\ arg \in [Procs -> Invocation]
  /\ job \in [Procs -> Job]
  /\ rest \in [Procs -> Seq(Types)]
  /\ todo \in [Procs -> SUBSET Services]
  /\ missing \in [Procs -> SUBSET Services]
  /\ \A p \in Procs : pc[p] \in PortKnown => job[p] \in Services
  /\ \A p \in Procs : pc[p] = "port" /\ ~ (arg[p].port > 0) => InRange(p)

TypeInv == WorldOK /\ MemoryOK /\ faults \in 0 .. MaxFaults

\* The resting values of arg and job have their types, and what is on a command line.
LEMMA Defaults ==
  /\ NoArg \in Invocation
  /\ NoJob \in Job
  /\ \A a \in Invocation : /\ a.types \in Seq(Types) /\ a.types # << >>
                           /\ a.alias \in Aliases /\ a.port \in UserPorts \cup {0}
<1>1. PICK t \in Types, a \in Aliases, b \in Bundles : TRUE
  BY MonitoringConstants
<1>2. NoArg \in Invocation
  <2>1. [cmd |-> "add", types |-> b, alias |-> a, port |-> 0, force |-> FALSE] \in Invocation
    BY <1>1 DEF Invocation
  <2> QED BY <2>1 DEF NoArg
<1>3. NoJob \in Job
  <2>1. [type |-> t, port |-> 0, alias |-> a] \in Job
    BY <1>1 DEF Job
  <2> QED BY <2>1 DEF NoJob
<1>4. ASSUME NEW c \in Invocation
      PROVE  /\ c.types \in Seq(Types) /\ c.types # << >>
             /\ c.alias \in Aliases /\ c.port \in UserPorts \cup {0}
  BY <1>4, MonitoringConstants DEF Invocation
<1> QED BY <1>2, <1>3, <1>4

\* Every port that is chosen is one of Ports.
LEMMA PortsInRange ==
  /\ UserPorts \subseteq Ports /\ Ports \subseteq Nat \ {0}
  /\ \A t \in Types, i \in Nat : i >= DefaultPort[t] /\ i < DefaultPort[t] + PortRange => i \in Ports
<1>1. ASSUME NEW t \in Types, NEW i \in Nat, i >= DefaultPort[t], i < DefaultPort[t] + PortRange
      PROVE  i \in Ports
  <2>1. DefaultPort[t] \in Nat /\ PortRange \in Nat BY MonitoringConstants
  <2>2. i \in DefaultPort[t] .. DefaultPort[t] + PortRange - 1 BY <1>1, <2>1
  <2> QED BY <2>2 DEF Ports
<1>2. ASSUME NEW i \in Ports PROVE i \in Nat \ {0}
  <2>1. CASE i \in UserPorts BY <2>1, MonitoringConstants
  <2>2. CASE \E t \in Types : i \in DefaultPort[t] .. DefaultPort[t] + PortRange - 1
    <3>1. PICK t \in Types : i \in DefaultPort[t] .. DefaultPort[t] + PortRange - 1 BY <2>2
    <3>2. DefaultPort[t] \in Nat \ {0} /\ PortRange \in Nat BY MonitoringConstants
    <3> QED BY <3>1, <3>2
  <2> QED BY <2>1, <2>2 DEF Ports
<1> QED BY <1>1, <1>2 DEF Ports

LEMMA ExitType ==
  ASSUME MemoryOK, NEW p \in Procs, Exit(p)
  PROVE  MemoryOK'
<1>1. NoArg \in Invocation /\ NoJob \in Job BY Defaults
<1> QED BY <1>1 DEF MemoryOK, Exit, Goto, Locations, PortKnown, InRange

\* What Goto needs when the rest of the memory stays.
LEMMA GotoType ==
  ASSUME MemoryOK, NEW p \in Procs, NEW l \in Locations, Goto(p, l), UNCHANGED memory,
         l \in PortKnown => job[p] \in Services, l # "port"
  PROVE  MemoryOK'
BY DEF MemoryOK, Goto, memory, InRange

LEMMA NextTypeType ==
  ASSUME MemoryOK, NEW p \in Procs, NextType(p)
  PROVE  MemoryOK'
<1>1. CASE rest[p] = << >>
  BY <1>1, GotoType DEF NextType, Locations, PortKnown
<1>2. CASE rest[p] # << >>
  <2>1. rest[p] \in Seq(Types) BY DEF MemoryOK
  <2>2. Head(rest[p]) \in Types /\ Tail(rest[p]) \in Seq(Types) BY <1>2, <2>1
  <2>3. [type |-> Head(rest[p]), port |-> 0, alias |-> job[p].alias] \in Job
    BY <2>2 DEF MemoryOK, Job
  <2> QED BY <1>2, <2>2, <2>3, ZenonT(60) DEF NextType, MemoryOK, Goto, Locations, PortKnown, InRange
<1> QED BY <1>1, <1>2

LEMMA AfterRemoveType ==
  ASSUME MemoryOK, NEW p \in Procs, AfterRemove(p)
  PROVE  MemoryOK'
BY NextTypeType, GotoType DEF AfterRemove, Locations, PortKnown

LEMMA RemoveFailsType ==
  ASSUME MemoryOK, NEW p \in Procs, RemoveFails(p)
  PROVE  MemoryOK'
BY AfterRemoveType, ExitType DEF RemoveFails

-----------------------------------------------------------------------------
LEMMA VerdictType ==
  ASSUME MemoryOK, NEW p \in Procs,
         NEW orphans \in SUBSET Services, NEW lost \in SUBSET Services,
         Verdict(p, orphans, lost)
  PROVE  MemoryOK'
<1>1. CASE Exit(p) BY <1>1, ExitType
<1>2. CASE ~ Exit(p)
  BY <1>2, ZenonT(60) DEF Verdict, MemoryOK, Goto, Locations, PortKnown, InRange
<1> QED BY <1>1, <1>2

\* What an ID and a service without its port are.
LEMMA Parts ==
  /\ \A s \in Services : ID(s) \in IDs /\ s \in Job /\ WithPort(s, 0) \in Job
  /\ \A j \in Job : j.type \in Types /\ j.alias \in Aliases /\ j.port \in Ports \cup {0}
BY DEF Services, IDs, ID, Job, WithPort

LEMMA BeginType == ASSUME TypeInv, NEW p \in Procs, Begin(p) PROVE TypeInv'
<1>1. PICK a \in Invocation :
        /\ arg' = [arg EXCEPT ![p] = a]
        /\ Goto(p, IF a.cmd = "uninstall" THEN "snapshot" ELSE "list")
        /\ IF a.cmd \in OnType
           THEN /\ job' = [job EXCEPT ![p] = [type |-> Head(a.types), port |-> 0,
                                              alias |-> a.alias]]
                /\ rest' = [rest EXCEPT ![p] = Tail(a.types)]
           ELSE UNCHANGED << job, rest >>
  BY DEF Begin
<1>2. a.types \in Seq(Types) /\ a.types # << >> /\ a.alias \in Aliases BY Defaults
<1>3. Head(a.types) \in Types /\ Tail(a.types) \in Seq(Types) BY <1>2
<1>4. [type |-> Head(a.types), port |-> 0, alias |-> a.alias] \in Job BY <1>2, <1>3 DEF Job
<1>5. CASE a.cmd \in OnType
  <2>1. PICK j \in Job, r \in Seq(Types), l \in {"snapshot", "list"} :
          /\ arg' = [arg EXCEPT ![p] = a] /\ pc' = [pc EXCEPT ![p] = l]
          /\ job' = [job EXCEPT ![p] = j] /\ rest' = [rest EXCEPT ![p] = r]
          /\ todo' = todo /\ missing' = missing
    BY <1>1, <1>3, <1>4, <1>5 DEF Begin, Goto
  <2>2. MemoryOK'
    BY <2>1 DEF TypeInv, MemoryOK, Locations, PortKnown, InRange
  <2> QED BY <2>2 DEF Begin, TypeInv, WorldOK, world
<1>6. CASE a.cmd \notin OnType
  <2>1. MemoryOK'
    BY <1>1, <1>6 DEF Begin, TypeInv, MemoryOK, Goto, Locations, PortKnown, InRange
  <2> QED BY <2>1 DEF Begin, TypeInv, WorldOK, world
<1> QED BY <1>5, <1>6

LEMMA PreflightType ==
  ASSUME TypeInv, NEW p \in Procs,
         Finish(p) \/ ListUnits(p) \/ CheckInstallation(p) \/ Snapshot(p)
  PROVE  TypeInv'
<1>0. Installed(p) \in SUBSET Services /\ Registered(p) \in SUBSET Services
  BY MonitoringConstants DEF TypeInv, WorldOK, Installed, Registered, Host, Client
<1>1. CASE Finish(p)
  BY <1>1, ExitType DEF Finish, TypeInv, WorldOK, world
<1>2. CASE ListUnits(p)
  BY <1>0, <1>2 DEF ListUnits, TypeInv, WorldOK, MemoryOK, world, Goto, Locations, PortKnown, InRange
<1>3. CASE CheckInstallation(p)
  <2>1. /\ Orphans(todo[p], Registered(p)) \in SUBSET Services
        /\ Missing(todo[p], Registered(p)) \in SUBSET Services
    BY <1>0 DEF TypeInv, MemoryOK, Orphans, Missing
  <2>2. MemoryOK' BY <1>3, <2>1, VerdictType DEF CheckInstallation, TypeInv
  <2> QED BY <1>3, <2>2 DEF CheckInstallation, TypeInv, WorldOK, world
<1>4. CASE Snapshot(p)
  BY <1>0, <1>4 DEF Snapshot, TypeInv, WorldOK, MemoryOK, world, Goto, Locations, PortKnown, InRange
<1> QED BY <1>1, <1>2, <1>3, <1>4

LEMMA AddChecksType ==
  ASSUME TypeInv, NEW p \in Procs,
         AddLookup(p) \/ CheckClient(p) \/ CheckUnique(p) \/ ChoosePort(p)
  PROVE  TypeInv'
<1>0. /\ job[p] \in Job /\ job[p].type \in Types /\ arg[p] \in Invocation
      /\ arg[p].port \in UserPorts \cup {0}
  BY Defaults, Parts DEF TypeInv, MemoryOK
<1>1. CASE AddLookup(p)
  <2>1. MemoryOK'
    BY <1>1, GotoType, NextTypeType, ExitType DEF AddLookup, TypeInv, Locations, PortKnown
  <2> QED BY <1>1, <2>1 DEF AddLookup, TypeInv, WorldOK, world
<1>2. CASE CheckClient(p)
  <2>1. MemoryOK'
    BY <1>2, GotoType, ExitType DEF CheckClient, TypeInv, Locations, PortKnown
  <2> QED BY <1>2, <2>1 DEF CheckClient, TypeInv, WorldOK, world
<1>3. CASE CheckUnique(p)
  <2>1. CASE UniqueAlias(p)
    <3>1. /\ DefaultPort[job[p].type] \in Nat \ {0} /\ PortRange \in Nat \ {0}
          /\ UserPorts \subseteq Nat \ {0}
      BY <1>0, MonitoringConstants
    <3>2. FirstPort(p) \in Ports
      <4>1. CASE arg[p].port > 0
        <5>1. ASSUME arg[p].port = 0 PROVE FALSE BY <4>1, <5>1
        <5>2. arg[p].port \in UserPorts BY <1>0, <5>1
        <5> QED BY <4>1, <5>2, PortsInRange DEF FirstPort
      <4>2. CASE ~ (arg[p].port > 0)
        BY <1>0, <3>1, <4>2, PortsInRange DEF FirstPort
      <4> QED BY <4>1, <4>2
    <3>3. WithPort(job[p], FirstPort(p)) \in Services
      BY <1>0, <3>2, Parts DEF WithPort, Services
    <3>4. job' = [job EXCEPT ![p] = WithPort(job[p], FirstPort(p))]
      BY <1>3, <2>1 DEF CheckUnique
    <3>5. /\ job'[p] = WithPort(job[p], FirstPort(p))
          /\ job'[p] \in Services /\ job'[p] \in Job
      BY <3>3, <3>4, Parts DEF TypeInv, MemoryOK
    <3>a. ~ (arg[p].port > 0) => InRange(p)'
      BY <1>0, <3>1, <3>5 DEF InRange, FirstPort, WithPort
    <3>6. MemoryOK'
      BY <1>3, <2>1, <3>4, <3>5, <3>a DEF CheckUnique, TypeInv, MemoryOK, Goto, Locations, InRange
    <3> QED BY <1>3, <3>6 DEF CheckUnique, TypeInv, WorldOK, world
  <2>2. CASE ~ UniqueAlias(p)
    BY <1>3, <2>2, ExitType DEF CheckUnique, TypeInv, WorldOK, world
  <2> QED BY <2>1, <2>2
<1>4. CASE ChoosePort(p)
  <2>0. job[p] \in Services /\ pc[p] = "port"
    BY <1>4 DEF ChoosePort, At, TypeInv, MemoryOK, PortKnown
  <2>1. CASE Available(p)
    <3>1. MemoryOK'
      BY <1>4, <2>0, <2>1, GotoType DEF ChoosePort, TypeInv, Locations
    <3> QED BY <1>4, <3>1 DEF ChoosePort, TypeInv, WorldOK, world
  <2>2. CASE Exit(p)
    BY <1>4, <2>2, ExitType DEF ChoosePort, TypeInv, WorldOK, world
  <2>3. CASE ~ Available(p) /\ ~ Exit(p)
    <3>1. /\ ~ (arg[p].port > 0)
          /\ job[p].port + 1 # DefaultPort[job[p].type] + PortRange
          /\ job' = [job EXCEPT ![p] = WithPort(job[p], job[p].port + 1)]
          /\ UNCHANGED << pc, arg, rest, todo, missing >>
      BY <1>4, <2>3 DEF ChoosePort
    <3>2. DefaultPort[job[p].type] \in Nat /\ PortRange \in Nat /\ job[p].port \in Nat
      BY <1>0, <2>0, MonitoringConstants, PortsInRange DEF Services
    <3>3. InRange(p) BY <2>0, <3>1 DEF TypeInv, MemoryOK
    <3>4. /\ job[p].port + 1 >= DefaultPort[job[p].type]
          /\ job[p].port + 1 < DefaultPort[job[p].type] + PortRange
      BY <3>1, <3>2, <3>3 DEF InRange
    <3>5. job[p].port + 1 \in Ports
      BY <1>0, <3>2, <3>4, PortsInRange
    <3>6. WithPort(job[p], job[p].port + 1) \in Services
      BY <1>0, <3>5, Parts DEF WithPort, Services
    <3>7. /\ job'[p] = WithPort(job[p], job[p].port + 1)
          /\ job'[p] \in Services /\ job'[p] \in Job
      BY <3>1, <3>6, Parts DEF TypeInv, MemoryOK
    <3>a. InRange(p)' BY <3>4, <3>7 DEF InRange, WithPort
    <3>8. MemoryOK'
      BY <3>1, <3>7, <3>a DEF TypeInv, MemoryOK, InRange
    <3> QED BY <1>4, <3>8 DEF ChoosePort, TypeInv, WorldOK, world
  <2> QED BY <2>1, <2>2, <2>3
<1> QED BY <1>1, <1>2, <1>3, <1>4

\* A process's client and host are a client and a host; a job with its port is a service.
LEMMA Places ==
  ASSUME TypeInv, NEW p \in Procs
  PROVE  /\ Client(p) \in ClientNames /\ Host(p) \in Hosts
         /\ pc[p] \in PortKnown => job[p] \in Services /\ ID(job[p]) \in IDs
         /\ Registered(p) \in SUBSET Services /\ Installed(p) \in SUBSET Services
BY MonitoringConstants, Parts
DEF TypeInv, WorldOK, MemoryOK, Client, Host, Registered, Installed

LEMMA AddWritesType ==
  ASSUME TypeInv, NEW p \in Procs,
         Register(p) \/ PutKeys(p) \/ InstallUnit(p) \/ StartUnit(p)
  PROVE  TypeInv'
<1>0. /\ Client(p) \in ClientNames /\ Host(p) \in Hosts
      /\ pc[p] \in PortKnown => job[p] \in Services /\ ID(job[p]) \in IDs
  BY Places
<1>1. CASE Register(p)
  <2>1. job[p] \in Services BY <1>0, <1>1 DEF Register, At, PortKnown
  <2>2. WorldOK'
    BY <1>0, <1>1, <2>1 DEF Register, TypeInv, WorldOK, Without
  <2>3. MemoryOK'
    BY <1>1, <2>1, GotoType DEF Register, TypeInv, Locations
  <2> QED BY <1>1, <2>2, <2>3 DEF Register, TypeInv
<1>2. CASE PutKeys(p)
  <2>1. job[p] \in Services /\ ID(job[p]) \in IDs BY <1>0, <1>2 DEF PutKeys, At, PortKnown
  <2>2. WorldOK' BY <1>0, <1>2, <2>1 DEF PutKeys, TypeInv, WorldOK
  <2>3. MemoryOK' BY <1>2, <2>1, GotoType DEF PutKeys, TypeInv, Locations
  <2> QED BY <1>2, <2>2, <2>3 DEF PutKeys, TypeInv
<1>3. CASE InstallUnit(p)
  <2>1. job[p] \in Services BY <1>0, <1>3 DEF InstallUnit, At, PortKnown
  <2>2. WorldOK' BY <1>0, <1>3, <2>1 DEF InstallUnit, TypeInv, WorldOK
  <2>3. MemoryOK'
    BY <1>3, <2>1, GotoType, ExitType DEF InstallUnit, TypeInv, Locations
  <2> QED BY <1>3, <2>2, <2>3 DEF InstallUnit, TypeInv
<1>4. CASE StartUnit(p)
  <2>1. ID(job[p]) \in IDs BY <1>0, <1>4 DEF StartUnit, At, PortKnown
  <2>2. WorldOK' BY <1>0, <1>4, <2>1 DEF StartUnit, TypeInv, WorldOK
  <2>3. MemoryOK' BY <1>4, NextTypeType, ExitType DEF StartUnit, TypeInv
  <2> QED BY <1>4, <2>2, <2>3 DEF StartUnit, TypeInv
<1> QED BY <1>1, <1>2, <1>3, <1>4

LEMMA RemoveType ==
  ASSUME TypeInv, NEW p \in Procs,
         \/ FindService(p) \/ Deregister(p) \/ DeleteTree(p)
         \/ HaltUnit(p, "halt", "uninstall") \/ UninstallUnit(p)
  PROVE  TypeInv'
<1>0. /\ Client(p) \in ClientNames /\ Host(p) \in Hosts
      /\ pc[p] \in PortKnown => job[p] \in Services
      /\ Registered(p) \in SUBSET Services
  BY Places
<1>1. CASE FindService(p)
  <2>1. CASE Exit(p) \/ RemoveFails(p)
    BY <1>1, <2>1, ExitType, RemoveFailsType DEF FindService, TypeInv, WorldOK, world
  <2>2. CASE ~ (Exit(p) \/ RemoveFails(p))
    <3>1. PICK s \in Services, l \in {"act", "deregister"} :
            /\ job' = [job EXCEPT ![p] = s] /\ Goto(p, l)
            /\ UNCHANGED << arg, rest, todo, missing >>
      BY <1>0, <1>1, <2>2 DEF FindService, Matches
    <3>2. s \in Job BY Parts
    <3>3. MemoryOK'
      BY <3>1, <3>2 DEF TypeInv, MemoryOK, Goto, Locations, PortKnown, InRange
    <3> QED BY <1>1, <3>3 DEF FindService, TypeInv, WorldOK, world
  <2> QED BY <2>1, <2>2
<1>2. CASE Deregister(p)
  <2>1. WorldOK' BY <1>0, <1>2 DEF Deregister, TypeInv, WorldOK, Without
  <2>2. MemoryOK'
    BY <1>0, <1>2, GotoType DEF Deregister, At, TypeInv, Locations, PortKnown
  <2> QED BY <1>2, <2>1, <2>2 DEF Deregister, TypeInv
<1>3. CASE DeleteTree(p)
  <2>1. WorldOK' BY <1>0, <1>3 DEF DeleteTree, TypeInv, WorldOK
  <2>2. MemoryOK'
    BY <1>0, <1>3, GotoType DEF DeleteTree, At, TypeInv, Locations, PortKnown
  <2> QED BY <1>3, <2>1, <2>2 DEF DeleteTree, TypeInv
<1>4. CASE HaltUnit(p, "halt", "uninstall")
  <2>1. WorldOK' BY <1>0, <1>4 DEF HaltUnit, TypeInv, WorldOK
  <2>2. MemoryOK'
    BY <1>0, <1>4, GotoType DEF HaltUnit, At, TypeInv, Locations, PortKnown
  <2> QED BY <1>4, <2>1, <2>2 DEF HaltUnit, TypeInv
<1>5. CASE UninstallUnit(p)
  <2>1. WorldOK' BY <1>0, <1>5 DEF UninstallUnit, TypeInv, WorldOK, Without
  <2>2. MemoryOK' BY <1>5, AfterRemoveType, RemoveFailsType DEF UninstallUnit, TypeInv
  <2> QED BY <1>5, <2>1, <2>2 DEF UninstallUnit, TypeInv
<1> QED BY <1>1, <1>2, <1>3, <1>4, <1>5

LEMMA LoopsType ==
  ASSUME TypeInv, NEW p \in Procs,
         \/ RemoveEach(p) \/ Sweep(p) \/ HaltUnit(p, "sweephalt", "sweepunit")
         \/ SweepUnit(p) \/ Purge(p) \/ PurgeKeys(p)
  PROVE  TypeInv'
<1>0. /\ Client(p) \in ClientNames /\ Host(p) \in Hosts
      /\ pc[p] \in PortKnown => job[p] \in Services
      /\ todo[p] \in SUBSET Services /\ missing[p] \in SUBSET Services
  BY Places DEF TypeInv, MemoryOK
<1>1. CASE RemoveEach(p)
  <2>1. PICK j \in Job, l \in {"list", "done", "lookup"}, S \in SUBSET Services :
          /\ job' = [job EXCEPT ![p] = j] /\ todo' = [todo EXCEPT ![p] = S]
          /\ Goto(p, l) /\ UNCHANGED << arg, rest, missing >>
    <3>1. CASE UNCHANGED << job, todo >>
      BY <1>0, <1>1, <3>1 DEF RemoveEach, AfterEach, TypeInv, MemoryOK
    <3>2. CASE ~ UNCHANGED << job, todo >>
      BY <1>0, <1>1, <3>2, Parts DEF RemoveEach, StillToDo
    <3> QED BY <3>1, <3>2
  <2>2. MemoryOK'
    BY <2>1 DEF TypeInv, MemoryOK, Goto, Locations, PortKnown, InRange
  <2> QED BY <1>1, <2>2 DEF RemoveEach, TypeInv, WorldOK, world
<1>2. CASE Sweep(p)
  <2>1. CASE UNCHANGED << job, todo >> /\ Goto(p, AfterSweep(p))
    <3>1. MemoryOK'
      BY <1>2, <2>1, GotoType DEF Sweep, AfterSweep, Locations, PortKnown, TypeInv, memory
    <3> QED BY <1>2, <3>1 DEF Sweep, TypeInv, WorldOK, world
  <2>2. CASE ~ (UNCHANGED << job, todo >> /\ Goto(p, AfterSweep(p)))
    <3>1. PICK u \in Services, S \in SUBSET Services :
            /\ job' = [job EXCEPT ![p] = u] /\ todo' = [todo EXCEPT ![p] = S]
            /\ Goto(p, "sweephalt") /\ UNCHANGED << arg, rest, missing >>
      BY <1>0, <1>2, <2>2 DEF Sweep, StillToDo
    <3>2. MemoryOK'
      BY <3>1, Parts DEF TypeInv, MemoryOK, Goto, Locations, PortKnown, InRange
    <3> QED BY <1>2, <3>2 DEF Sweep, TypeInv, WorldOK, world
  <2> QED BY <2>1, <2>2
<1>3. CASE HaltUnit(p, "sweephalt", "sweepunit")
  <2>1. WorldOK' BY <1>0, <1>3 DEF HaltUnit, TypeInv, WorldOK
  <2>2. MemoryOK'
    BY <1>0, <1>3, GotoType DEF HaltUnit, At, TypeInv, Locations, PortKnown
  <2> QED BY <1>3, <2>1, <2>2 DEF HaltUnit, TypeInv
<1>4. CASE SweepUnit(p)
  <2>1. WorldOK' BY <1>0, <1>4 DEF SweepUnit, TypeInv, WorldOK, Without
  <2>2. MemoryOK'
    BY <1>4, GotoType, ExitType DEF SweepUnit, TypeInv, Locations, PortKnown
  <2> QED BY <1>4, <2>1, <2>2 DEF SweepUnit, TypeInv
<1>5. CASE Purge(p)
  <2>1. WorldOK' BY <1>0, <1>5 DEF Purge, TypeInv, WorldOK, Without
  <2>2. CASE missing' = missing /\ job' = job /\ Goto(p, "done")
    <3>1. MemoryOK'
      BY <1>5, <2>2, GotoType DEF Purge, TypeInv, Locations, PortKnown, memory
    <3> QED BY <1>5, <2>1, <3>1 DEF Purge, TypeInv
  <2>3. CASE ~ (missing' = missing /\ job' = job /\ Goto(p, "done"))
    <3>1. PICK s \in Services, S \in SUBSET Services :
            /\ job' = [job EXCEPT ![p] = s] /\ missing' = [missing EXCEPT ![p] = S]
            /\ Goto(p, "purgekv") /\ UNCHANGED << arg, rest, todo >>
      BY <1>0, <1>5, <2>3 DEF Purge
    <3>2. MemoryOK'
      BY <3>1, Parts DEF TypeInv, MemoryOK, Goto, Locations, PortKnown, InRange
    <3> QED BY <1>5, <2>1, <3>2 DEF Purge, TypeInv
  <2> QED BY <2>2, <2>3
<1>6. CASE PurgeKeys(p)
  <2>1. WorldOK' BY <1>0, <1>6 DEF PurgeKeys, TypeInv, WorldOK
  <2>2. MemoryOK' BY <1>6, GotoType DEF PurgeKeys, TypeInv, Locations, PortKnown
  <2> QED BY <1>6, <2>1, <2>2 DEF PurgeKeys, TypeInv
<1> QED BY <1>1, <1>2, <1>3, <1>4, <1>5, <1>6

LEMMA SwitchType ==
  ASSUME TypeInv, NEW p \in Procs,
         Switch(p) \/ Restart(p) \/ SwitchEach(p) \/ RestartEach(p)
  PROVE  TypeInv'
<1>0. /\ Client(p) \in ClientNames /\ Host(p) \in Hosts
      /\ pc[p] \in PortKnown => job[p] \in Services /\ ID(job[p]) \in IDs
      /\ todo[p] \in SUBSET Services /\ missing[p] \in SUBSET Services
  BY Places DEF TypeInv, MemoryOK
<1>1. CASE Switch(p)
  <2>1. job[p] \in Services /\ ID(job[p]) \in IDs BY <1>0, <1>1 DEF Switch, At, PortKnown
  <2>2. WorldOK' BY <1>0, <1>1, <2>1 DEF Switch, TypeInv, WorldOK
  <2>3. MemoryOK'
    BY <1>1, <2>1, GotoType, ExitType DEF Switch, TypeInv, Locations, PortKnown
  <2> QED BY <1>1, <2>2, <2>3 DEF Switch, TypeInv
<1>2. CASE Restart(p)
  <2>1. job[p] \in Services /\ ID(job[p]) \in IDs BY <1>0, <1>2 DEF Restart, At, PortKnown
  <2>2. WorldOK' BY <1>0, <1>2, <2>1 DEF Restart, TypeInv, WorldOK
  <2>3. MemoryOK'
    BY <1>2, <2>1, GotoType, ExitType DEF Restart, TypeInv, Locations, PortKnown
  <2> QED BY <1>2, <2>2, <2>3 DEF Restart, TypeInv
<1>3. CASE SwitchEach(p)
  <2>1. CASE todo[p] = {} /\ UNCHANGED active
    <3>1. MemoryOK'
      BY <1>3, <2>1, GotoType, ExitType DEF SwitchEach, TypeInv, Locations, PortKnown
    <3> QED BY <1>3, <2>1, <3>1 DEF SwitchEach, TypeInv, WorldOK
  <2>2. CASE ~ (todo[p] = {} /\ UNCHANGED active)
    <3>1. PICK u \in todo[p] :
            /\ todo' = [todo EXCEPT ![p] = StillToDo(p, u)]
            /\ job' = [job EXCEPT ![p] = u]
            /\ \/ active' = [active EXCEPT ![Host(p)] = @ \cup {ID(u)}] /\ UNCHANGED missing
               \/ missing' = [missing EXCEPT ![p] = @ \cup {u}] /\ UNCHANGED active
               \/ active' = [active EXCEPT ![Host(p)] = @ \ {ID(u)}] /\ UNCHANGED missing
            /\ Goto(p, IF arg[p].cmd = "restartall" THEN "allreact" ELSE "all")
            /\ UNCHANGED << arg, rest >>
      BY <1>3, <2>2 DEF SwitchEach
    <3>2. u \in Services /\ ID(u) \in IDs /\ u \in Job /\ StillToDo(p, u) \in SUBSET Services
      BY <1>0, Parts DEF StillToDo
    <3>3. WorldOK' BY <1>0, <1>3, <3>1, <3>2 DEF SwitchEach, TypeInv, WorldOK
    <3>4. PICK m \in SUBSET Services : missing' = [missing EXCEPT ![p] = m]
      <4>1. CASE UNCHANGED missing BY <1>0, <4>1 DEF TypeInv, MemoryOK
      <4>2. CASE missing' = [missing EXCEPT ![p] = @ \cup {u}] BY <1>0, <3>2, <4>2
      <4> QED BY <3>1, <4>1, <4>2
    <3>5. PICK l \in {"all", "allreact"} : pc' = [pc EXCEPT ![p] = l] BY <3>1 DEF Goto
    <3>6. MemoryOK'
      BY <3>1, <3>2, <3>4, <3>5 DEF TypeInv, MemoryOK, Locations, PortKnown, InRange
    <3> QED BY <1>3, <3>3, <3>6 DEF SwitchEach, TypeInv
  <2> QED BY <2>1, <2>2
<1>4. CASE RestartEach(p)
  <2>1. job[p] \in Services /\ ID(job[p]) \in IDs
    BY <1>0, <1>4 DEF RestartEach, At, PortKnown
  <2>2. WorldOK' BY <1>0, <1>4, <2>1 DEF RestartEach, TypeInv, WorldOK
  <2>3. PICK M \in SUBSET Services : missing' = [missing EXCEPT ![p] = M]
    <3>1. missing[p] \cup {job[p]} \in SUBSET Services BY <1>0, <2>1
    <3>2. CASE UNCHANGED missing BY <1>0, <3>2 DEF TypeInv, MemoryOK
    <3>3. CASE missing' = [missing EXCEPT ![p] = missing[p] \cup {job[p]}] BY <3>1, <3>3
    <3> QED BY <1>4, <3>2, <3>3 DEF RestartEach
  <2>4. MemoryOK'
    BY <1>4, <2>3 DEF RestartEach, TypeInv, MemoryOK, Goto, Locations, PortKnown, InRange
  <2> QED BY <1>4, <2>2, <2>4 DEF RestartEach, TypeInv
<1> QED BY <1>1, <1>2, <1>3, <1>4

LEMMA FaultType ==
  ASSUME TypeInv, NEW p \in Procs, Fail(p) \/ IgnoredError(p) \/ ReadError(p)
  PROVE  TypeInv'
<1>0. WorldOK' /\ faults' \in 0 .. MaxFaults
  <2>1. MaxFaults \in Nat BY MonitoringConstants
  <2> QED BY <2>1 DEF Fail, IgnoredError, ReadError, Fault, TypeInv, WorldOK, world
<1>1. CASE Fail(p)
  BY <1>0, <1>1, ExitType DEF Fail, TypeInv
<1>2. CASE IgnoredError(p)
  <2>0. job[p] \in Job /\ todo[p] \in SUBSET Services /\ missing[p] \in SUBSET Services
        /\ (pc[p] \in PortKnown => job[p] \in Services)
    BY DEF TypeInv, MemoryOK
  <2>1. CASE /\ pc[p] \in {"lookup", "deregister", "deltree", "halt", "uninstall"}
             /\ Tolerant(p) /\ AfterRemove(p)
    BY <1>0, <2>1, AfterRemoveType DEF TypeInv
  <2>2. CASE Goto(p, "sweep") /\ UNCHANGED memory
    BY <1>0, <2>2, GotoType DEF TypeInv, Locations, PortKnown
  <2>3. CASE Goto(p, "purge") /\ UNCHANGED memory
    BY <1>0, <2>3, GotoType DEF TypeInv, Locations, PortKnown
  <2>4. CASE /\ At(p, "allreact")
             /\ missing' = [missing EXCEPT ![p] = @ \cup {job[p]}]
             /\ Goto(p, "all") /\ UNCHANGED << arg, job, rest, todo >>
    <3>1. job[p] \in Services BY <2>0, <2>4 DEF At, PortKnown
    <3>2. MemoryOK'
      BY <2>0, <2>4, <3>1 DEF TypeInv, MemoryOK, Goto, Locations, PortKnown, InRange
    <3> QED BY <1>0, <3>2 DEF TypeInv
  <2>5. CASE /\ At(p, "all")
             /\ \E u \in todo[p] :
                  /\ todo' = [todo EXCEPT ![p] = StillToDo(p, u)]
                  /\ missing' = [missing EXCEPT ![p] = @ \cup {u}]
             /\ UNCHANGED << pc, arg, job, rest >>
    <3>1. PICK S \in SUBSET Services, M \in SUBSET Services :
            /\ todo' = [todo EXCEPT ![p] = S] /\ missing' = [missing EXCEPT ![p] = M]
      <4>1. PICK u \in todo[p] : /\ todo' = [todo EXCEPT ![p] = StillToDo(p, u)]
                                 /\ missing' = [missing EXCEPT ![p] = missing[p] \cup {u}]
        BY <2>5
      <4>2. /\ StillToDo(p, u) \in SUBSET Services
            /\ missing[p] \cup {u} \in SUBSET Services
        BY <2>0 DEF StillToDo
      <4> QED BY <4>1, <4>2
    <3>2. MemoryOK'
      BY <2>5, <3>1 DEF TypeInv, MemoryOK, InRange
    <3> QED BY <1>0, <3>2 DEF TypeInv
  <2> QED BY <1>2, <2>1, <2>2, <2>3, <2>4, <2>5 DEF IgnoredError
<1>3. CASE ReadError(p)
  <2>1. todo[p] \in SUBSET Services /\ {} \in SUBSET Services BY DEF TypeInv, MemoryOK
  <2>2. MemoryOK'
    BY <1>3, <2>1, VerdictType, GotoType DEF ReadError, TypeInv, Locations, PortKnown
  <2> QED BY <1>0, <2>2 DEF TypeInv
<1> QED BY <1>1, <1>2, <1>3

-----------------------------------------------------------------------------
LEMMA InitType == Init => TypeInv
<1>1. NoArg \in Invocation /\ NoJob \in Job /\ << >> \in Seq(Types) /\ MaxFaults \in Nat
  BY Defaults, MonitoringConstants
<1> QED BY <1>1 DEF Init, TypeInv, WorldOK, MemoryOK, Locations, PortKnown

LEMMA StepType == TypeInv /\ [Next]_vars => TypeInv'
<1> SUFFICES ASSUME TypeInv, [Next]_vars PROVE TypeInv'
  OBVIOUS
<1>1. CASE UNCHANGED vars
  BY <1>1 DEF vars, world, memory, TypeInv, WorldOK, MemoryOK, InRange
<1>2. ASSUME NEW p \in Procs, Begin(p) \/ Fail(p) \/ IgnoredError(p) \/ ReadError(p)
      PROVE  TypeInv'
  BY <1>2, BeginType, FaultType
<1>3. ASSUME NEW p \in Procs, Step(p)
      PROVE  TypeInv'
  BY <1>3, PreflightType, AddChecksType, AddWritesType, RemoveType, LoopsType, SwitchType
  DEF Step
<1> QED BY <1>1, <1>2, <1>3 DEF Next

LEMMA TypeInvariant == Spec => []TypeInv
BY InitType, StepType, PTL DEF Spec

\* Every variable keeps its type: whatever is registered or installed is a service on one
\* of the ports choosePort may give (or --service-port names), and no command runs into a
\* location its code does not have.
THEOREM TypeCorrect == Spec => []TypeOK
<1>1. TypeInv => TypeOK BY DEF TypeInv, WorldOK, MemoryOK, TypeOK
<1> QED BY <1>1, TypeInvariant, PTL

-----------------------------------------------------------------------------
(* The services of a client stay distinct and are served by their own units *)

Adding == {"client", "unique", "port", "register", "kv", "install", "start"}

\* What a process knows at each point from its earlier reads, and may rely on because no
\* other process works on its host or under its client name.
Knows(p) ==
  /\ At(p, "check") => todo[p] = Installed(p)
  /\ pc[p] \in Adding \/ (At(p, "lookup") /\ arg[p].cmd = "add")
       => \A u \in Installed(p) : \E s \in Registered(p) : SameID(s, u)
  /\ pc[p] \in {"port", "register"}
       => \A s \in Registered(p) : ~ (s.type = job[p].type /\ s.alias = job[p].alias)
  /\ At(p, "register") => Available(p)
  /\ pc[p] \in {"kv", "install"} => job[p] \in Registered(p)
  /\ pc[p] \in {"deregister", "deltree", "halt", "uninstall", "snapshot", "each"}
       => arg[p].cmd # "add"

IInv == TypeInv /\ ServicesDistinct /\ UnitServesAlias /\ \A p \in Procs : Knows(p)

\* A step of p changes nothing of the other processes, clients and hosts.
OnlyOwn(p) ==
  /\ \A n \in ClientNames \ {Client(p)} : catalog'[n] = catalog[n]
  /\ \A h \in Hosts \ {Host(p)} : local'[h] = local[h]
  /\ \A q \in Procs \ {p} : /\ pc'[q] = pc[q] /\ arg'[q] = arg[q]
                            /\ job'[q] = job[q] /\ todo'[q] = todo[q]

\* A step of p that adds neither a service nor a unit.
Shrinks(p) ==
  /\ catalog'[Client(p)] \subseteq catalog[Client(p)]
  /\ local'[Host(p)] \subseteq local[Host(p)]

\* Other processes keep what they know.
LEMMA OthersKnow ==
  ASSUME Exclusive, IInv, NEW p \in Procs, OnlyOwn(p), NEW q \in Procs, q # p
  PROVE  Knows(q)'
<1>1. Client(q) \in ClientNames \ {Client(p)} /\ Host(q) \in Hosts \ {Host(p)}
  BY MonitoringConstants DEF Exclusive, Client, Host
<1>2. Registered(q)' = Registered(q) /\ Installed(q)' = Installed(q)
  BY <1>1 DEF OnlyOwn, Registered, Installed, Client, Host
<1>3. pc'[q] = pc[q] /\ arg'[q] = arg[q] /\ job'[q] = job[q] /\ todo'[q] = todo[q]
  BY DEF OnlyOwn
<1>4. Knows(q) BY DEF IInv
<1> QED BY <1>2, <1>3, <1>4 DEF Knows, At, Available

LEMMA ShrinkStep ==
  ASSUME Exclusive, IInv, NEW p \in Procs, OnlyOwn(p), Shrinks(p), TypeInv', Knows(p)'
  PROVE  IInv'
<1>1. \A n \in ClientNames : catalog'[n] \subseteq catalog[n]
  BY DEF OnlyOwn, Shrinks
<1>2. \A h \in Hosts : local'[h] \subseteq local[h]
  BY DEF OnlyOwn, Shrinks
<1>3. ServicesDistinct' BY <1>1 DEF IInv, ServicesDistinct
<1>4. UnitServesAlias'
  BY <1>1, <1>2, MonitoringConstants DEF IInv, UnitServesAlias
<1> QED BY <1>3, <1>4, OthersKnow DEF IInv

\* The steps of a process, or what they leave of it, in terms of what the invariant needs.
LEMMA Untouched ==
  ASSUME TypeInv, NEW p \in Procs, UNCHANGED << catalog, local >>,
         \A q \in Procs \ {p} : /\ pc'[q] = pc[q] /\ arg'[q] = arg[q]
                                /\ job'[q] = job[q] /\ todo'[q] = todo[q]
  PROVE  OnlyOwn(p) /\ Shrinks(p) /\ Registered(p)' = Registered(p) /\ Installed(p)' = Installed(p)
BY DEF OnlyOwn, Shrinks, Registered, Installed, Client, Host

LEMMA ExitOwn ==
  ASSUME TypeInv, NEW p \in Procs, Exit(p)
  PROVE  /\ pc'[p] = "idle"
         /\ \A q \in Procs \ {p} : /\ pc'[q] = pc[q] /\ arg'[q] = arg[q]
                                   /\ job'[q] = job[q] /\ todo'[q] = todo[q]
BY DEF Exit, Goto, TypeInv, MemoryOK

LEMMA GotoOwn ==
  ASSUME TypeInv, NEW p \in Procs, NEW l \in Locations, Goto(p, l), UNCHANGED memory
  PROVE  /\ pc'[p] = l /\ arg'[p] = arg[p] /\ job'[p] = job[p] /\ todo'[p] = todo[p]
         /\ \A q \in Procs \ {p} : /\ pc'[q] = pc[q] /\ arg'[q] = arg[q]
                                   /\ job'[q] = job[q] /\ todo'[q] = todo[q]
BY DEF Goto, TypeInv, MemoryOK, memory

LEMMA NextTypeOwn ==
  ASSUME TypeInv, NEW p \in Procs, NextType(p)
  PROVE  /\ pc'[p] \in {"done", "lookup"} /\ arg'[p] = arg[p]
         /\ \A q \in Procs \ {p} : /\ pc'[q] = pc[q] /\ arg'[q] = arg[q]
                                   /\ job'[q] = job[q] /\ todo'[q] = todo[q]
BY DEF NextType, Goto, TypeInv, MemoryOK, memory

LEMMA AfterRemoveOwn ==
  ASSUME TypeInv, NEW p \in Procs, AfterRemove(p) \/ RemoveFails(p), arg[p].cmd # "add"
  PROVE  /\ \/ pc'[p] = "idle"
            \/ pc'[p] \in {"done", "lookup", "each"} /\ arg'[p].cmd # "add"
         /\ \A q \in Procs \ {p} : /\ pc'[q] = pc[q] /\ arg'[q] = arg[q]
                                   /\ job'[q] = job[q] /\ todo'[q] = todo[q]
<1>1. CASE Exit(p) BY <1>1, ExitOwn
<1>2. CASE AfterRemove(p)
  BY <1>2, NextTypeOwn, GotoOwn DEF AfterRemove, Locations
<1> QED BY <1>1, <1>2 DEF RemoveFails

-----------------------------------------------------------------------------
LEMMA VerdictOwn ==
  ASSUME TypeInv, NEW p \in Procs, NEW orphans, NEW lost, Verdict(p, orphans, lost)
  PROVE  /\ \/ pc'[p] \in {"idle", "sweep"}
            \/ pc'[p] = "snapshot" /\ arg'[p].cmd # "add"
            \/ pc'[p] = "lookup" /\ orphans = {}
         /\ \A q \in Procs \ {p} : /\ pc'[q] = pc[q] /\ arg'[q] = arg[q]
                                   /\ job'[q] = job[q] /\ todo'[q] = todo[q]
<1>1. CASE Exit(p) BY <1>1, ExitOwn
<1>2. CASE ~ Exit(p)
  BY <1>2 DEF Verdict, Broken, Goto, TypeInv, MemoryOK
<1> QED BY <1>1, <1>2

LEMMA PreflightKnows ==
  ASSUME Exclusive, IInv, NEW p \in Procs, TypeInv',
         Begin(p) \/ Finish(p) \/ ListUnits(p) \/ CheckInstallation(p) \/ ReadError(p)
  PROVE  IInv'
<1>0. TypeInv /\ Knows(p) BY DEF IInv
<1>1. CASE Begin(p)
  <2>1. PICK a \in Invocation :
          /\ arg' = [arg EXCEPT ![p] = a]
          /\ Goto(p, IF a.cmd = "uninstall" THEN "snapshot" ELSE "list")
          /\ IF a.cmd \in OnType
             THEN job' = [job EXCEPT ![p] = [type |-> Head(a.types), port |-> 0,
                                             alias |-> a.alias]]
             ELSE UNCHANGED job
    BY <1>1 DEF Begin
  <2>2. /\ pc'[p] = "list" \/ (pc'[p] = "snapshot" /\ arg'[p].cmd # "add")
        /\ \A q \in Procs \ {p} : pc'[q] = pc[q] /\ arg'[q] = arg[q] /\ job'[q] = job[q]
    BY <1>0, <2>1 DEF Goto, TypeInv, MemoryOK
  <2>3. OnlyOwn(p) /\ Shrinks(p)
    BY <1>0, <1>1, <2>2, Untouched DEF Begin, world
  <2>4. Knows(p)' BY <2>2 DEF Knows, At, Adding
  <2> QED BY <2>3, <2>4, ShrinkStep
<1>2. CASE Finish(p)
  <2>1. OnlyOwn(p) /\ Shrinks(p) BY <1>0, <1>2, ExitOwn, Untouched DEF Finish, world
  <2>2. Knows(p)' BY <1>0, <1>2, ExitOwn DEF Finish, Knows, At, Adding
  <2> QED BY <2>1, <2>2, ShrinkStep
<1>3. CASE ListUnits(p)
  <2>1. /\ pc'[p] \in {"all", "sweep", "check"} /\ todo'[p] = Installed(p)
        /\ \A q \in Procs \ {p} : /\ pc'[q] = pc[q] /\ arg'[q] = arg[q]
                                  /\ job'[q] = job[q] /\ todo'[q] = todo[q]
    BY <1>0, <1>3 DEF ListUnits, Goto, TypeInv, MemoryOK
  <2>2. OnlyOwn(p) /\ Shrinks(p) /\ Installed(p)' = Installed(p)
    BY <1>0, <1>3, <2>1, Untouched DEF ListUnits, world
  <2>3. Knows(p)' BY <2>1, <2>2 DEF Knows, At, Adding
  <2> QED BY <2>2, <2>3, ShrinkStep
<1>4. CASE CheckInstallation(p)
  <2>1. todo[p] = Installed(p) BY <1>0, <1>4 DEF Knows, CheckInstallation
  <2>2. /\ \/ pc'[p] \in {"idle", "sweep"}
           \/ pc'[p] = "snapshot" /\ arg'[p].cmd # "add"
           \/ pc'[p] = "lookup" /\ Orphans(todo[p], Registered(p)) = {}
        /\ OnlyOwn(p) /\ Shrinks(p)
        /\ Registered(p)' = Registered(p) /\ Installed(p)' = Installed(p)
    BY <1>0, <1>4, VerdictOwn, Untouched DEF CheckInstallation, world
  <2>3. Knows(p)' BY <2>1, <2>2 DEF Knows, At, Adding, Orphans, SameID
  <2> QED BY <2>2, <2>3, ShrinkStep
<1>5. CASE ReadError(p)
  <2>1. CASE At(p, "check") /\ Verdict(p, todo[p], {})
    <3>1. todo[p] = Installed(p) BY <1>0, <2>1 DEF Knows
    <3>2. /\ \/ pc'[p] \in {"idle", "sweep"}
             \/ pc'[p] = "snapshot" /\ arg'[p].cmd # "add"
             \/ pc'[p] = "lookup" /\ todo[p] = {}
          /\ OnlyOwn(p) /\ Shrinks(p)
          /\ Registered(p)' = Registered(p) /\ Installed(p)' = Installed(p)
      BY <1>0, <1>5, <2>1, VerdictOwn, Untouched DEF ReadError, world
    <3>3. Knows(p)' BY <3>1, <3>2 DEF Knows, At, Adding
    <3> QED BY <3>2, <3>3, ShrinkStep
  <2>2. CASE At(p, "snapshot") /\ Goto(p, "each") /\ UNCHANGED memory
    <3>1. arg[p].cmd # "add" BY <1>0, <2>2 DEF Knows, At
    <3>2. /\ pc'[p] = "each" /\ arg'[p] = arg[p]
          /\ OnlyOwn(p) /\ Shrinks(p)
      BY <1>0, <1>5, <2>2, GotoOwn, Untouched DEF ReadError, world, Locations
    <3>3. Knows(p)' BY <3>1, <3>2 DEF Knows, At, Adding
    <3> QED BY <3>2, <3>3, ShrinkStep
  <2> QED BY <1>5, <2>1, <2>2 DEF ReadError
<1> QED BY <1>1, <1>2, <1>3, <1>4, <1>5

LEMMA AddChecksKnow ==
  ASSUME Exclusive, IInv, NEW p \in Procs, TypeInv',
         AddLookup(p) \/ CheckClient(p) \/ CheckUnique(p) \/ ChoosePort(p)
  PROVE  IInv'
<1>0. TypeInv /\ Knows(p) BY DEF IInv
<1>1. CASE Exit(p)
  <2>1. OnlyOwn(p) /\ Shrinks(p)
    BY <1>0, <1>1, ExitOwn, Untouched DEF AddLookup, CheckClient, CheckUnique, ChoosePort, world
  <2>2. Knows(p)' BY <1>0, <1>1, ExitOwn DEF Knows, At, Adding
  <2> QED BY <2>1, <2>2, ShrinkStep
<1>2. CASE AddLookup(p) /\ ~ Exit(p)
  <2>1. \/ Goto(p, "client") /\ UNCHANGED memory
        \/ NextType(p)
    BY <1>2 DEF AddLookup
  <2>2. /\ pc'[p] \in {"client", "done", "lookup"} /\ arg'[p] = arg[p]
        /\ OnlyOwn(p) /\ Shrinks(p)
        /\ Registered(p)' = Registered(p) /\ Installed(p)' = Installed(p)
    BY <1>0, <1>2, <2>1, GotoOwn, NextTypeOwn, Untouched DEF AddLookup, world, Locations
  <2>3. Knows(p)' BY <1>0, <1>2, <2>2 DEF AddLookup, Knows, At, Adding, SameID
  <2> QED BY <2>2, <2>3, ShrinkStep
<1>3. CASE CheckClient(p) /\ ~ Exit(p)
  <2>1. /\ pc'[p] = "unique" /\ arg'[p] = arg[p]
        /\ OnlyOwn(p) /\ Shrinks(p)
        /\ Registered(p)' = Registered(p) /\ Installed(p)' = Installed(p)
    BY <1>0, <1>3, GotoOwn, Untouched DEF CheckClient, world, Locations
  <2>2. Knows(p)' BY <1>0, <1>3, <2>1 DEF CheckClient, Knows, At, Adding, SameID
  <2> QED BY <2>1, <2>2, ShrinkStep
<1>4. CASE CheckUnique(p) /\ ~ Exit(p)
  <2>1. /\ UniqueAlias(p) /\ job' = [job EXCEPT ![p] = WithPort(job[p], FirstPort(p))]
        /\ Goto(p, "port") /\ UNCHANGED << arg, rest, todo, missing >>
    BY <1>4 DEF CheckUnique
  <2>2. /\ pc'[p] = "port" /\ job'[p].type = job[p].type /\ job'[p].alias = job[p].alias
        /\ OnlyOwn(p) /\ Shrinks(p)
        /\ Registered(p)' = Registered(p) /\ Installed(p)' = Installed(p)
    BY <1>0, <1>4, <2>1, Untouched DEF CheckUnique, Goto, TypeInv, MemoryOK, world, WithPort
  <2>3. \A s \in Registered(p) : ~ (s.type = job[p].type /\ s.alias = job[p].alias)
    BY <1>0, <2>1, Places DEF UniqueAlias, Matches, Registered
  <2>4. Knows(p)' BY <1>0, <1>4, <2>2, <2>3 DEF CheckUnique, Knows, At, Adding, SameID
  <2> QED BY <2>2, <2>4, ShrinkStep
<1>5. CASE ChoosePort(p) /\ ~ Exit(p) /\ Available(p)
  <2>1. /\ pc'[p] = "register" /\ job'[p] = job[p]
        /\ OnlyOwn(p) /\ Shrinks(p)
        /\ Registered(p)' = Registered(p) /\ Installed(p)' = Installed(p)
    BY <1>0, <1>5, GotoOwn, Untouched DEF ChoosePort, world, Locations
  <2>2. Knows(p)' BY <1>0, <1>5, <2>1 DEF ChoosePort, Knows, At, Adding, SameID, Available
  <2> QED BY <2>1, <2>2, ShrinkStep
<1>6. CASE ChoosePort(p) /\ ~ Exit(p) /\ ~ Available(p)
  <2>1. /\ job' = [job EXCEPT ![p] = WithPort(job[p], job[p].port + 1)]
        /\ UNCHANGED << pc, arg, rest, todo, missing >>
    BY <1>6 DEF ChoosePort
  <2>2. /\ pc'[p] = "port" /\ job'[p].type = job[p].type /\ job'[p].alias = job[p].alias
        /\ OnlyOwn(p) /\ Shrinks(p)
        /\ Registered(p)' = Registered(p) /\ Installed(p)' = Installed(p)
    BY <1>0, <1>6, <2>1, Untouched DEF ChoosePort, At, TypeInv, MemoryOK, world, WithPort
  <2>3. Knows(p)' BY <1>0, <1>6, <2>2 DEF ChoosePort, Knows, At, Adding, SameID
  <2> QED BY <2>2, <2>3, ShrinkStep
<1> QED BY <1>1, <1>2, <1>3, <1>4, <1>5, <1>6

LEMMA RegisterKnows ==
  ASSUME Exclusive, IInv, NEW p \in Procs, TypeInv', Register(p)
  PROVE  IInv'
<1>0. /\ TypeInv /\ Knows(p) /\ At(p, "register")
      /\ Client(p) \in ClientNames /\ Host(p) \in Hosts
  BY Places DEF IInv, Register
<1>1. /\ \A s \in Registered(p) : s.port # job[p].port
      /\ \A s \in Registered(p) : ~ (s.type = job[p].type /\ s.alias = job[p].alias)
      /\ \A u \in Installed(p) : \E s \in Registered(p) : SameID(s, u)
  BY <1>0 DEF Knows, At, Available, Adding
<1>2. /\ catalog'[Client(p)] = catalog[Client(p)] \cup {job[p]}
      /\ \A n \in ClientNames \ {Client(p)} : catalog'[n] = catalog[n]
  BY <1>0, <1>1 DEF Register, TypeInv, WorldOK, Without, Registered, SameID
<1>3. /\ pc'[p] \in {"kv", "install"} /\ local' = local
      /\ arg'[p] = arg[p] /\ job'[p] = job[p]
      /\ \A q \in Procs \ {p} : /\ pc'[q] = pc[q] /\ arg'[q] = arg[q]
                                /\ job'[q] = job[q] /\ todo'[q] = todo[q]
  BY DEF Register, Goto, memory, IInv, TypeInv, MemoryOK
<1>4. OnlyOwn(p) BY <1>2, <1>3 DEF OnlyOwn
<1>5. ServicesDistinct'
  <2> SUFFICES ASSUME NEW n \in ClientNames, NEW s \in catalog'[n], NEW u \in catalog'[n],
                      s.port = u.port \/ (s.type = u.type /\ s.alias = u.alias)
               PROVE  s = u
    BY DEF ServicesDistinct
  <2>1. CASE n # Client(p) BY <1>2, <2>1 DEF IInv, ServicesDistinct
  <2>2. CASE n = Client(p)
    <3>1. CASE s \in Registered(p) /\ u \in Registered(p)
      BY <2>2, <3>1 DEF IInv, ServicesDistinct, Registered
    <3>2. CASE ~ (s \in Registered(p) /\ u \in Registered(p))
      BY <1>1, <1>2, <2>2, <3>2 DEF Registered
    <3> QED BY <3>1, <3>2
  <2> QED BY <2>1, <2>2
<1>6. UnitServesAlias'
  <2> SUFFICES ASSUME NEW h \in Hosts, NEW s \in catalog'[ClientName[h]],
                      NEW u \in local[h], SameID(s, u)
               PROVE  s = u
    BY <1>3 DEF UnitServesAlias
  <2>1. ClientName[h] \in ClientNames BY MonitoringConstants
  <2>2. CASE s \in catalog[ClientName[h]] BY <2>2 DEF IInv, UnitServesAlias
  <2>3. CASE s \notin catalog[ClientName[h]]
    <3>1. ClientName[h] = Client(p) /\ s = job[p] BY <1>2, <2>1, <2>3
    <3>2. h = Host(p) BY <1>0, <3>1 DEF Exclusive, Client, Host
    <3> QED BY <1>1, <3>1, <3>2 DEF Installed, SameID
  <2> QED BY <2>2, <2>3
<1>7. Knows(p)'
  <2>1. job'[p] \in Registered(p)' BY <1>2, <1>3 DEF Registered, Client
  <2>2. \A u \in Installed(p)' : \E s \in Registered(p)' : SameID(s, u)
    BY <1>1, <1>2, <1>3 DEF Installed, Registered, Host, Client
  <2> QED BY <1>3, <2>1, <2>2 DEF Knows, At, Adding
<1> QED BY <1>4, <1>5, <1>6, <1>7, OthersKnow DEF IInv

LEMMA InstallKnows ==
  ASSUME Exclusive, IInv, NEW p \in Procs, TypeInv', InstallUnit(p)
  PROVE  IInv'
<1>0. /\ TypeInv /\ Knows(p) /\ At(p, "install")
      /\ Client(p) \in ClientNames /\ Host(p) \in Hosts
  BY Places DEF IInv, InstallUnit
<1>1. CASE Exit(p) /\ UNCHANGED local
  <2>1. OnlyOwn(p) /\ Shrinks(p) BY <1>0, <1>1, ExitOwn, Untouched DEF InstallUnit
  <2>2. Knows(p)' BY <1>0, <1>1, ExitOwn DEF Knows, At, Adding
  <2> QED BY <2>1, <2>2, ShrinkStep
<1>2. CASE /\ local' = [local EXCEPT ![Host(p)] = @ \cup {job[p]}]
           /\ Goto(p, "start") /\ UNCHANGED memory
  <2>1. /\ job[p] \in Registered(p)
        /\ \A u \in Installed(p) : \E s \in Registered(p) : SameID(s, u)
    BY <1>0 DEF Knows, At, Adding
  <2>2. /\ local'[Host(p)] = local[Host(p)] \cup {job[p]}
        /\ \A h \in Hosts \ {Host(p)} : local'[h] = local[h]
        /\ catalog' = catalog
    BY <1>0, <1>2 DEF InstallUnit, TypeInv, WorldOK
  <2>3. /\ pc'[p] = "start" /\ arg'[p] = arg[p]
        /\ \A q \in Procs \ {p} : /\ pc'[q] = pc[q] /\ arg'[q] = arg[q]
                                  /\ job'[q] = job[q] /\ todo'[q] = todo[q]
    BY <1>0, <1>2, GotoOwn DEF Locations
  <2>4. OnlyOwn(p) BY <2>2, <2>3 DEF OnlyOwn
  <2>5. ServicesDistinct' BY <2>2 DEF IInv, ServicesDistinct
  <2>6. UnitServesAlias'
    <3> SUFFICES ASSUME NEW h \in Hosts, NEW s \in catalog[ClientName[h]],
                        NEW u \in local'[h], SameID(s, u)
                 PROVE  s = u
      BY <2>2 DEF UnitServesAlias
    <3>1. CASE u \in local[h] BY <3>1 DEF IInv, UnitServesAlias
    <3>2. CASE u \notin local[h]
      <4>1. h = Host(p) /\ u = job[p] BY <2>2, <3>2
      <4>2. s \in Registered(p) BY <4>1 DEF Registered, Client, Host
      <4> QED BY <1>0, <2>1, <4>1, <4>2 DEF IInv, ServicesDistinct, Registered, SameID
    <3> QED BY <3>1, <3>2
  <2>7. Knows(p)'
    <3>1. \A u \in Installed(p)' : \E s \in Registered(p)' : SameID(s, u)
      BY <2>1, <2>2 DEF Installed, Registered, Host, Client, SameID
    <3> QED BY <2>3, <3>1 DEF Knows, At, Adding
  <2> QED BY <2>4, <2>5, <2>6, <2>7, OthersKnow DEF IInv
<1> QED BY <1>1, <1>2 DEF InstallUnit

LEMMA PutKeysAndStartKnow ==
  ASSUME Exclusive, IInv, NEW p \in Procs, TypeInv', PutKeys(p) \/ StartUnit(p)
  PROVE  IInv'
<1>0. TypeInv /\ Knows(p) BY DEF IInv
<1>1. CASE PutKeys(p)
  <2>1. /\ pc'[p] = "install" /\ arg'[p] = arg[p] /\ job'[p] = job[p]
        /\ OnlyOwn(p) /\ Shrinks(p)
        /\ Registered(p)' = Registered(p) /\ Installed(p)' = Installed(p)
    BY <1>0, <1>1, GotoOwn, Untouched DEF PutKeys, Locations
  <2>2. Knows(p)' BY <1>0, <1>1, <2>1 DEF PutKeys, Knows, At, Adding, SameID
  <2> QED BY <2>1, <2>2, ShrinkStep
<1>2. CASE StartUnit(p) /\ Exit(p)
  <2>1. OnlyOwn(p) /\ Shrinks(p) BY <1>0, <1>2, ExitOwn, Untouched DEF StartUnit
  <2>2. Knows(p)' BY <1>0, <1>2, ExitOwn DEF Knows, At, Adding
  <2> QED BY <2>1, <2>2, ShrinkStep
<1>3. CASE StartUnit(p) /\ NextType(p)
  <2>1. /\ pc'[p] \in {"done", "lookup"}
        /\ OnlyOwn(p) /\ Shrinks(p)
        /\ Registered(p)' = Registered(p) /\ Installed(p)' = Installed(p)
    BY <1>0, <1>3, NextTypeOwn, Untouched DEF StartUnit
  <2>2. Knows(p)' BY <1>0, <1>3, <2>1 DEF StartUnit, Knows, At, Adding, SameID
  <2> QED BY <2>1, <2>2, ShrinkStep
<1> QED BY <1>1, <1>2, <1>3 DEF StartUnit

-----------------------------------------------------------------------------
\* The locations at which a process relies on nothing, and those of a removal.
Quiet == {"idle", "done", "list", "sweep", "sweephalt", "sweepunit", "purge", "purgekv",
          "act", "react", "all", "allreact"}
Removing == {"lookup", "deregister", "deltree", "halt", "uninstall", "snapshot", "each"}

LEMMA QuietStep ==
  ASSUME Exclusive, IInv, NEW p \in Procs, OnlyOwn(p), Shrinks(p), TypeInv',
         pc'[p] \in Quiet \/ (pc'[p] \in Removing /\ arg'[p].cmd # "add")
  PROVE  IInv'
<1>1. Knows(p)' BY DEF Knows, At, Adding, Quiet, Removing
<1> QED BY <1>1, ShrinkStep

\* One service less, or one unit less.
LEMMA Fewer ==
  ASSUME TypeInv, NEW p \in Procs, NEW s,
         \/ catalog' = [catalog EXCEPT ![Client(p)] = Without(@, s)] /\ UNCHANGED local
         \/ local' = [local EXCEPT ![Host(p)] = Without(@, s)] /\ UNCHANGED catalog,
         \A q \in Procs \ {p} : /\ pc'[q] = pc[q] /\ arg'[q] = arg[q]
                                /\ job'[q] = job[q] /\ todo'[q] = todo[q]
  PROVE  OnlyOwn(p) /\ Shrinks(p)
BY Places DEF TypeInv, WorldOK, OnlyOwn, Shrinks, Without

LEMMA RemoveKnows ==
  ASSUME Exclusive, IInv, NEW p \in Procs, TypeInv',
         \/ FindService(p) \/ Deregister(p) \/ DeleteTree(p)
         \/ HaltUnit(p, "halt", "uninstall") \/ UninstallUnit(p) \/ Snapshot(p) \/ RemoveEach(p)
  PROVE  IInv'
<1>0. TypeInv /\ Knows(p) BY DEF IInv
<1>1. CASE FindService(p)
  <2>1. arg[p].cmd # "add" BY <1>1 DEF FindService
  <2>2. CASE Exit(p) \/ RemoveFails(p)
    BY <1>0, <1>1, <2>1, <2>2, ExitOwn, AfterRemoveOwn, Untouched, QuietStep
    DEF FindService, world, Quiet, Removing
  <2>3. CASE ~ (Exit(p) \/ RemoveFails(p))
    <3>1. PICK s \in Registered(p), l \in {"act", "deregister"} :
            /\ job' = [job EXCEPT ![p] = s] /\ Goto(p, l)
            /\ UNCHANGED << arg, rest, todo, missing >>
      BY <1>1, <2>3 DEF FindService, Matches
    <3>2. /\ pc'[p] \in {"act", "deregister"} /\ arg'[p] = arg[p]
          /\ \A q \in Procs \ {p} : /\ pc'[q] = pc[q] /\ arg'[q] = arg[q]
                                    /\ job'[q] = job[q] /\ todo'[q] = todo[q]
      BY <1>0, <3>1 DEF Goto, TypeInv, MemoryOK
    <3> QED
      BY <1>0, <1>1, <2>1, <3>2, Untouched, QuietStep DEF FindService, world, Quiet, Removing
  <2> QED BY <2>2, <2>3
<1>2. CASE Deregister(p)
  <2>1. arg[p].cmd # "add" BY <1>0, <1>2 DEF Deregister, Knows, At
  <2> QED BY <1>0, <1>2, <2>1, GotoOwn, Fewer, QuietStep DEF Deregister, Locations, Removing
<1>3. CASE DeleteTree(p)
  <2>1. arg[p].cmd # "add" BY <1>0, <1>3 DEF DeleteTree, Knows, At
  <2> QED BY <1>0, <1>3, <2>1, GotoOwn, Untouched, QuietStep DEF DeleteTree, Locations, Removing
<1>4. CASE HaltUnit(p, "halt", "uninstall")
  <2>1. arg[p].cmd # "add" BY <1>0, <1>4 DEF HaltUnit, Knows, At
  <2> QED BY <1>0, <1>4, <2>1, GotoOwn, Untouched, QuietStep DEF HaltUnit, Locations, Removing
<1>5. CASE UninstallUnit(p)
  <2>1. arg[p].cmd # "add" BY <1>0, <1>5 DEF UninstallUnit, Knows, At
  <2>2. AfterRemove(p) \/ RemoveFails(p) BY <1>5 DEF UninstallUnit
  <2>3. /\ pc'[p] \in Quiet \/ (pc'[p] \in Removing /\ arg'[p].cmd # "add")
        /\ \A q \in Procs \ {p} : /\ pc'[q] = pc[q] /\ arg'[q] = arg[q]
                                  /\ job'[q] = job[q] /\ todo'[q] = todo[q]
    BY <1>0, <2>1, <2>2, AfterRemoveOwn DEF Quiet, Removing
  <2>4. OnlyOwn(p) /\ Shrinks(p)
    BY <1>0, <1>5, <2>3, Fewer, Untouched DEF UninstallUnit
  <2> QED BY <2>3, <2>4, QuietStep
<1>6. CASE Snapshot(p)
  <2>1. arg[p].cmd # "add" BY <1>0, <1>6 DEF Snapshot, Knows, At
  <2>2. /\ pc'[p] = "each" /\ arg'[p] = arg[p]
        /\ \A q \in Procs \ {p} : /\ pc'[q] = pc[q] /\ arg'[q] = arg[q]
                                  /\ job'[q] = job[q] /\ todo'[q] = todo[q]
    BY <1>0, <1>6 DEF Snapshot, Goto, TypeInv, MemoryOK
  <2> QED BY <1>0, <1>6, <2>1, <2>2, Untouched, QuietStep DEF Snapshot, world, Removing
<1>7. CASE RemoveEach(p)
  <2>1. arg[p].cmd # "add" BY <1>0, <1>7 DEF RemoveEach, Knows, At
  <2>2. /\ pc'[p] \in {"list", "done", "lookup"} /\ arg'[p] = arg[p]
        /\ \A q \in Procs \ {p} : /\ pc'[q] = pc[q] /\ arg'[q] = arg[q]
                                  /\ job'[q] = job[q] /\ todo'[q] = todo[q]
    BY <1>0, <1>7 DEF RemoveEach, AfterEach, Goto, TypeInv, MemoryOK
  <2> QED BY <1>0, <1>7, <2>1, <2>2, Untouched, QuietStep DEF RemoveEach, world, Quiet, Removing
<1> QED BY <1>1, <1>2, <1>3, <1>4, <1>5, <1>6, <1>7

LEMMA SweepKnows ==
  ASSUME Exclusive, IInv, NEW p \in Procs, TypeInv',
         \/ Sweep(p) \/ HaltUnit(p, "sweephalt", "sweepunit") \/ SweepUnit(p)
         \/ Purge(p) \/ PurgeKeys(p)
  PROVE  IInv'
<1>0. TypeInv BY DEF IInv
<1>1. CASE Sweep(p)
  <2>1. /\ pc'[p] \in {"sweephalt", "purge", "done"}
        /\ \A q \in Procs \ {p} : /\ pc'[q] = pc[q] /\ arg'[q] = arg[q]
                                  /\ job'[q] = job[q] /\ todo'[q] = todo[q]
    BY <1>0, <1>1 DEF Sweep, AfterSweep, Goto, TypeInv, MemoryOK
  <2> QED BY <1>0, <1>1, <2>1, Untouched, QuietStep DEF Sweep, world, Quiet
<1>2. CASE HaltUnit(p, "sweephalt", "sweepunit")
  BY <1>0, <1>2, GotoOwn, Untouched, QuietStep DEF HaltUnit, Locations, Quiet
<1>3. CASE SweepUnit(p)
  <2>1. /\ pc'[p] \in {"sweep", "idle"}
        /\ \A q \in Procs \ {p} : /\ pc'[q] = pc[q] /\ arg'[q] = arg[q]
                                  /\ job'[q] = job[q] /\ todo'[q] = todo[q]
    BY <1>0, <1>3, GotoOwn, ExitOwn DEF SweepUnit, Locations
  <2>2. OnlyOwn(p) /\ Shrinks(p) BY <1>0, <1>3, <2>1, Fewer, Untouched DEF SweepUnit
  <2> QED BY <2>1, <2>2, QuietStep DEF Quiet
<1>4. CASE Purge(p)
  <2>1. /\ pc'[p] \in {"purgekv", "done"}
        /\ \A q \in Procs \ {p} : /\ pc'[q] = pc[q] /\ arg'[q] = arg[q]
                                  /\ job'[q] = job[q] /\ todo'[q] = todo[q]
    BY <1>0, <1>4 DEF Purge, Goto, TypeInv, MemoryOK
  <2>2. OnlyOwn(p) /\ Shrinks(p) BY <1>0, <1>4, <2>1, Fewer, Untouched DEF Purge
  <2> QED BY <2>1, <2>2, QuietStep DEF Quiet
<1>5. CASE PurgeKeys(p)
  BY <1>0, <1>5, GotoOwn, Untouched, QuietStep DEF PurgeKeys, Locations, Quiet
<1> QED BY <1>1, <1>2, <1>3, <1>4, <1>5

LEMMA SwitchKnows ==
  ASSUME Exclusive, IInv, NEW p \in Procs, TypeInv',
         Switch(p) \/ Restart(p) \/ SwitchEach(p) \/ RestartEach(p)
  PROVE  IInv'
<1>0. TypeInv BY DEF IInv
<1>1. /\ pc'[p] \in Quiet
      /\ \A q \in Procs \ {p} : /\ pc'[q] = pc[q] /\ arg'[q] = arg[q]
                                /\ job'[q] = job[q] /\ todo'[q] = todo[q]
  <2>1. CASE Exit(p) BY <1>0, <2>1, ExitOwn DEF Quiet
  <2>2. CASE Switch(p) /\ ~ Exit(p)
    BY <1>0, <2>2, GotoOwn DEF Switch, Locations, Quiet
  <2>3. CASE Restart(p) /\ ~ Exit(p)
    BY <1>0, <2>3, GotoOwn DEF Restart, Locations, Quiet
  <2>4. CASE SwitchEach(p) /\ ~ Exit(p)
    BY <1>0, <2>4 DEF SwitchEach, Goto, TypeInv, MemoryOK, memory, Quiet
  <2>5. CASE RestartEach(p) /\ ~ Exit(p)
    BY <1>0, <2>5 DEF RestartEach, Goto, TypeInv, MemoryOK, Quiet
  <2> QED BY <2>1, <2>2, <2>3, <2>4, <2>5
<1>2. UNCHANGED << catalog, local >> BY DEF Switch, Restart, SwitchEach, RestartEach
<1> QED BY <1>0, <1>1, <1>2, Untouched, QuietStep

LEMMA FaultKnows ==
  ASSUME Exclusive, IInv, NEW p \in Procs, TypeInv', Fail(p) \/ IgnoredError(p)
  PROVE  IInv'
<1>0. TypeInv /\ Knows(p) BY DEF IInv
<1>1. CASE Fail(p)
  BY <1>0, <1>1, ExitOwn, Untouched, QuietStep DEF Fail, world, Quiet
<1>2. CASE IgnoredError(p)
  <2>1. CASE Tolerant(p) /\ AfterRemove(p)
    <3>1. arg[p].cmd # "add" BY <2>1 DEF Tolerant
    <3> QED
      BY <1>0, <1>2, <2>1, <3>1, AfterRemoveOwn, Untouched, QuietStep
      DEF IgnoredError, world, Quiet, Removing
  <2>2. CASE ~ (Tolerant(p) /\ AfterRemove(p))
    <3>1. /\ pc'[p] \in Quiet
          /\ \A q \in Procs \ {p} : /\ pc'[q] = pc[q] /\ arg'[q] = arg[q]
                                    /\ job'[q] = job[q] /\ todo'[q] = todo[q]
      BY <1>0, <1>2, <2>2 DEF IgnoredError, Goto, At, memory, TypeInv, MemoryOK, Quiet
    <3> QED BY <1>0, <1>2, <3>1, Untouched, QuietStep DEF IgnoredError, world
  <2> QED BY <2>1, <2>2
<1> QED BY <1>1, <1>2

-----------------------------------------------------------------------------
LEMMA InitIInv == Init => IInv
BY InitType, MonitoringConstants
DEF Init, IInv, ServicesDistinct, UnitServesAlias, Knows, At, Adding

LEMMA StepIInv == Exclusive /\ IInv /\ [Next]_vars => IInv'
<1> SUFFICES ASSUME Exclusive, IInv, [Next]_vars PROVE IInv'
  OBVIOUS
<1>0. TypeInv' BY StepType DEF IInv
<1>1. CASE UNCHANGED vars
  <2>1. /\ catalog' = catalog /\ local' = local /\ pc' = pc /\ arg' = arg
        /\ job' = job /\ todo' = todo
    BY <1>1 DEF vars, world, memory
  <2> QED
    BY <1>0, <2>1 DEF IInv, ServicesDistinct, UnitServesAlias, Knows, At, Available,
                      Registered, Installed, Client, Host
<1>2. ASSUME NEW p \in Procs, Begin(p) \/ Fail(p) \/ IgnoredError(p) \/ ReadError(p)
      PROVE  IInv'
  BY <1>0, <1>2, PreflightKnows, FaultKnows
<1>3. ASSUME NEW p \in Procs, Step(p)
      PROVE  IInv'
  BY <1>0, <1>3, PreflightKnows, AddChecksKnow, RegisterKnows, InstallKnows,
     PutKeysAndStartKnow, RemoveKnows, SweepKnows, SwitchKnows
  DEF Step
<1> QED BY <1>1, <1>2, <1>3 DEF Next

\* With one pmm-admin at a time on a host and a client name of its own for every host, no
\* two services of a client ever have the same port, or the same type and name: the free
\* port choosePort saw is still free at Register, after any failures, kills and repairs.
THEOREM DistinctServices == Exclusive => (Spec => []ServicesDistinct)
<1> SUFFICES ASSUME Exclusive PROVE Spec => []ServicesDistinct
  OBVIOUS
<1>1. IInv /\ [Next]_vars => IInv' BY StepIInv
<1>2. IInv => ServicesDistinct BY DEF IInv
<1> QED BY <1>1, <1>2, InitIInv, PTL DEF Spec

\* Under the same condition a service is always served by the unit that was installed
\* under its name: a unit that was left behind keeps a later add from taking its port.
THEOREM UnitsServeAliases == Exclusive => (Spec => []UnitServesAlias)
<1> SUFFICES ASSUME Exclusive PROVE Spec => []UnitServesAlias
  OBVIOUS
<1>1. IInv /\ [Next]_vars => IInv' BY StepIInv
<1>2. IInv => UnitServesAlias BY DEF IInv
<1> QED BY <1>1, <1>2, InitIInv, PTL DEF Spec

-----------------------------------------------------------------------------
(* The registrations implement the registry *)

\* Removing what has the ID of s removes one registered service, or none.
LEMMA ForgetOne ==
  ASSUME IInv, NEW n \in ClientNames, NEW s, NEW cat,
         cat = [catalog EXCEPT ![n] = Without(@, s)]
  PROVE  cat = catalog \/ \E u \in Services : u \in catalog[n] /\ cat = [catalog EXCEPT ![n] = @ \ {u}]
<1>0. catalog \in [ClientNames -> SUBSET Services] BY DEF IInv, TypeInv, WorldOK
<1>1. CASE \A u \in catalog[n] : ~ SameID(u, s)
  <2>1. Without(catalog[n], s) = catalog[n] BY <1>1 DEF Without, SameID
  <2> QED BY <1>0, <2>1
<1>2. CASE \E u \in catalog[n] : SameID(u, s)
  <2>1. PICK u \in catalog[n] : SameID(u, s) BY <1>2
  <2>2. \A v \in catalog[n] : SameID(v, s) => v = u
    BY <2>1 DEF IInv, ServicesDistinct, SameID
  <2>3. Without(catalog[n], s) = catalog[n] \ {u} BY <2>1, <2>2 DEF Without, SameID
  <2> QED BY <1>0, <2>1, <2>3
<1> QED BY <1>1, <1>2

LEMMA RegisterMonitors ==
  ASSUME IInv, NEW p \in Procs, Register(p)
  PROVE  MonitoringRegistry!Monitor(Client(p), job[p])
<1>0. /\ Knows(p) /\ At(p, "register") /\ Client(p) \in ClientNames
  BY Places DEF IInv, Register
<1>1. /\ \A s \in Registered(p) : s.port # job[p].port
      /\ \A s \in Registered(p) : ~ (s.type = job[p].type /\ s.alias = job[p].alias)
  BY <1>0 DEF Knows, At, Available
<1>2. Without(Registered(p), job[p]) = Registered(p) BY <1>1 DEF Without, SameID
<1> QED
  BY <1>1, <1>2 DEF Register, Registered, MonitoringRegistry!Monitor, MonitoringRegistry!Compatible

\* The steps that leave the catalog alone.
LEMMA CatalogKept ==
  ASSUME NEW p \in Procs, Begin(p) \/ Step(p) \/ Fail(p) \/ IgnoredError(p) \/ ReadError(p),
         ~ Register(p), ~ Deregister(p), ~ Purge(p)
  PROVE  UNCHANGED catalog
BY DEF Begin, Step, Fail, IgnoredError, ReadError, Finish, ListUnits, CheckInstallation,
       AddLookup, CheckClient, CheckUnique, ChoosePort, PutKeys, InstallUnit, StartUnit,
       FindService, DeleteTree, HaltUnit, UninstallUnit, Snapshot, RemoveEach, Sweep,
       SweepUnit, PurgeKeys, Switch, Restart, SwitchEach, RestartEach, world

LEMMA StepRegistry ==
  ASSUME IInv, [Next]_vars
  PROVE  [MonitoringRegistry!RegistryNext]_catalog
<1>1. CASE UNCHANGED vars BY <1>1 DEF vars, world
<1>2. ASSUME NEW p \in Procs, Register(p) PROVE MonitoringRegistry!RegistryNext
  <2>1. Client(p) \in ClientNames /\ job[p] \in Services
    BY <1>2, Places DEF IInv, Register, At, PortKnown
  <2> QED BY <1>2, <2>1, RegisterMonitors DEF MonitoringRegistry!RegistryNext
<1>3. ASSUME NEW p \in Procs, Deregister(p) \/ Purge(p)
      PROVE  [MonitoringRegistry!RegistryNext]_catalog
  <2>1. Client(p) \in ClientNames BY Places DEF IInv
  <2>2. UNCHANGED catalog \/ \E s : catalog' = [catalog EXCEPT ![Client(p)] = Without(@, s)]
    BY <1>3 DEF Deregister, Purge
  <2>3. UNCHANGED catalog \/ \E u \in Services :
          /\ u \in catalog[Client(p)]
          /\ catalog' = [catalog EXCEPT ![Client(p)] = @ \ {u}]
    BY <2>1, <2>2, ForgetOne
  <2> QED BY <2>1, <2>3 DEF MonitoringRegistry!RegistryNext, MonitoringRegistry!Forget
<1> QED BY <1>1, <1>2, <1>3, CatalogKept DEF Next

\* Seen from the server, the registrations of exclusive clients are the registry: services
\* come and go one at a time, and none is altered or displaced by another.
THEOREM ImplementsRegistry == Exclusive => (Spec => Registry)
<1> SUFFICES ASSUME Exclusive PROVE Spec => Registry
  OBVIOUS
<1>1. IInv /\ [Next]_vars => IInv' BY StepIInv
<1>2. IInv /\ [Next]_vars => [MonitoringRegistry!RegistryNext]_catalog BY StepRegistry
<1>3. Init => MonitoringRegistry!RegistryInit
  BY DEF Init, MonitoringRegistry!RegistryInit
<1> QED BY <1>1, <1>2, <1>3, InitIInv, PTL DEF Spec, Registry, MonitoringRegistry!RegistrySpec
=============================================================================
