------------------------------ MODULE Monitoring ------------------------------
(***************************************************************************)
(* The life of the metrics services of pmm-client.  A metrics service is   *)
(* kept in two places that no transaction ties together: the Consul        *)
(* catalog and key-value store of the PMM server, and the system service   *)
(* (unit) pmm-<type>-<port> on the client's host.  pmm-admin is a command  *)
(* line tool: every invocation is a process that makes one remote call, or *)
(* one call of the service manager, after the other, and may fail or be    *)
(* killed between any two of them.                                         *)
(*                                                                         *)
(* Every action is one such call with the code that runs up to the next    *)
(* one.  A service is a record [type, port, alias]; in Consul its ID is    *)
(* type-port and its alias a tag, on the host the unit's name holds type   *)
(* and port, and the alias is the one the exporter was installed for.      *)
(***************************************************************************)
EXTENDS Integers, Sequences, FiniteSets

CONSTANTS
  Procs,         \* pmm-admin processes that may run at the same time
  Hosts,         \* machines with a pmm-client installed
  ClientNames,   \* names of the nodes in the Consul catalog
  HostOf,        \* the host a process runs on
  ClientName,    \* client_name in the pmm.yml of a host
  Types,         \* metrics plugins: "linux", "mysql", ...
  Multiple,      \* the plugins of which a client may have several services
  HasKV,         \* the plugins that keep keys in Consul KV
  DefaultPort,   \* the first port choosePort tries for a plugin
  PortRange,     \* how many ports choosePort tries (1000 in the code)
  Aliases,       \* service names
  UserPorts,     \* values of --service-port
  Bundles,       \* plugins covered by one add or remove, in order
  Commands,      \* the commands users give
  FaultKinds,    \* of "exit", "ignored", "read": what may go wrong
  MaxFaults,     \* bound on the number of faults
  MaxActive      \* bound on the number of processes running at once

Ports == UserPorts \cup UNION { DefaultPort[t] .. DefaultPort[t] + PortRange - 1 : t \in Types }

ASSUME MonitoringConstants ==
  /\ HostOf \in [Procs -> Hosts]
  /\ ClientName \in [Hosts -> ClientNames]
  /\ Multiple \subseteq Types /\ HasKV \subseteq Types
  /\ DefaultPort \in [Types -> Nat \ {0}] /\ PortRange \in Nat \ {0}
  /\ UserPorts \subseteq Nat \ {0}
  /\ Types # {} /\ Aliases # {}
  /\ Bundles \subseteq Seq(Types) \ {<< >>} /\ Bundles # {}
  /\ MaxFaults \in Nat /\ MaxActive \in Nat

VARIABLES
  catalog,   \* Consul: the services registered under each client name
  address,   \* Consul: the hosts that last registered under a client name (at most one)
  kv,        \* Consul: the service IDs that have keys under <client name>/<ID>/
  local,     \* the units installed on each host
  active,    \* the IDs of the exporters running on each host
  pc,        \* where each process is; "idle" when it does not run
  arg,       \* its command line
  job,       \* the service it works on
  rest,      \* the plugins of its bundle still to come
  todo,      \* services or units its loop has still to visit
  missing,   \* repair: registered services without a unit
  faults     \* the number of faults so far

world == << catalog, address, kv, local, active >>
memory == << arg, job, rest, todo, missing >>
vars == << world, pc, memory, faults >>

-----------------------------------------------------------------------------
Services == [type : Types, port : Ports, alias : Aliases]
IDs == [type : Types, port : Ports]
Job == [type : Types, port : Ports \cup {0}, alias : Aliases]

ID(s) == [type |-> s.type, port |-> s.port]
SameID(s, u) == s.type = u.type /\ s.port = u.port
WithPort(s, i) == [type |-> s.type, port |-> i, alias |-> s.alias]
Without(S, s) == { u \in S : ~ SameID(s, u) }

AllCommands == {"add", "remove", "removeall", "repair", "uninstall",
                "start", "stop", "restart", "startall", "stopall", "restartall"}
OnType == {"add", "remove", "start", "stop", "restart"}   \* commands on one name
OnUnits == {"startall", "stopall", "restartall"}          \* commands that need no server

\* --force exists for linux:metrics alone, which is not Multiple.
Invocation ==
  [cmd : {"add"}, types : Bundles, alias : Aliases, port : UserPorts \cup {0},
   force : BOOLEAN]
  \cup [cmd : AllCommands \ {"add"}, types : Bundles, alias : Aliases, port : {0},
        force : {FALSE}]

NoArg == CHOOSE a \in Invocation : TRUE
NoJob == CHOOSE j \in Job : TRUE

\* What a user may type: --force only with one plugin that is not Multiple, one
\* plugin at a time for start, stop and restart.
Sensible(a) ==
  /\ a.cmd \in Commands
  /\ a.force => Len(a.types) = 1 /\ Head(a.types) \notin Multiple
  /\ a.cmd \in OnType \ {"add", "remove"} => Len(a.types) = 1
  /\ a.cmd \notin OnType => a.types = NoArg.types /\ a.alias = NoArg.alias

Host(p) == HostOf[p]
Client(p) == ClientName[HostOf[p]]
Registered(p) == catalog[Client(p)]
Installed(p) == local[Host(p)]

Locations == {"idle", "done", "list", "check", "lookup", "client", "unique", "port",
              "register", "kv", "install", "start", "deregister", "deltree", "halt",
              "uninstall", "snapshot", "each", "sweep", "sweephalt", "sweepunit",
              "purge", "purgekv", "act", "react", "all", "allreact"}

TypeOK ==
  /\ catalog \in [ClientNames -> SUBSET Services]
  /\ address \in [ClientNames -> SUBSET Hosts]
  /\ kv \in [ClientNames -> SUBSET IDs]
  /\ local \in [Hosts -> SUBSET Services]
  /\ active \in [Hosts -> SUBSET IDs]
  /\ pc \in [Procs -> Locations]
  /\ arg \in [Procs -> Invocation]
  /\ job \in [Procs -> Job]
  /\ rest \in [Procs -> Seq(Types)]
  /\ todo \in [Procs -> SUBSET Services]
  /\ missing \in [Procs -> SUBSET Services]
  /\ faults \in 0 .. MaxFaults

Init ==
  /\ catalog = [n \in ClientNames |-> {}]
  /\ address = [n \in ClientNames |-> {}]
  /\ kv = [n \in ClientNames |-> {}]
  /\ local = [h \in Hosts |-> {}]
  /\ active = [h \in Hosts |-> {}]
  /\ pc = [p \in Procs |-> "idle"]
  /\ arg = [p \in Procs |-> NoArg]
  /\ job = [p \in Procs |-> NoJob]
  /\ rest = [p \in Procs |-> << >>]
  /\ todo = [p \in Procs |-> {}]
  /\ missing = [p \in Procs |-> {}]
  /\ faults = 0

-----------------------------------------------------------------------------
At(p, l) == pc[p] = l
Goto(p, l) == pc' = [pc EXCEPT ![p] = l]

\* The process ends: os.Exit, an error returned up to main, or a kill.
Exit(p) ==
  /\ Goto(p, "idle")
  /\ arg' = [arg EXCEPT ![p] = NoArg] /\ job' = [job EXCEPT ![p] = NoJob]
  /\ rest' = [rest EXCEPT ![p] = << >>]
  /\ todo' = [todo EXCEPT ![p] = {}] /\ missing' = [missing EXCEPT ![p] = {}]

\* The next plugin of the bundle, or the end of the command.
NextType(p) ==
  IF rest[p] = << >>
  THEN Goto(p, "done") /\ UNCHANGED memory
  ELSE /\ Goto(p, "lookup")
       /\ job' = [job EXCEPT ![p] = [type |-> Head(rest[p]), port |-> 0, alias |-> @.alias]]
       /\ rest' = [rest EXCEPT ![p] = Tail(@)]
       /\ UNCHANGED << arg, todo, missing >>

\* Mutant: the loop of RemoveAllMonitoring returns after its first service.
AfterRemove_Once(p) == IF arg[p].cmd = "remove" THEN NextType(p) ELSE Goto(p, "done") /\ UNCHANGED memory

\* RemoveMetrics returns to "remove", or to the loop of RemoveAllMonitoring.
AfterRemove(p) ==
  IF arg[p].cmd = "remove" THEN NextType(p) ELSE Goto(p, "each") /\ UNCHANGED memory

\* Mutant: "remove <plugin>" reports success after an error.
Tolerant_Always(p) == arg[p].cmd \in {"remove", "uninstall"}

\* "remove <database>" prints an error and goes on; Uninstall ignores it.
Tolerant(p) ==
  \/ arg[p].cmd = "remove" /\ Len(arg[p].types) > 1
  \/ arg[p].cmd = "uninstall"

\* RemoveMetrics returns an error.
RemoveFails(p) == IF Tolerant(p) THEN AfterRemove(p) ELSE Exit(p)

Begin(p) ==
  /\ At(p, "idle")
  /\ Cardinality({q \in Procs : ~ At(q, "idle")}) < MaxActive
  /\ \E a \in Invocation :
       /\ Sensible(a)
       /\ arg' = [arg EXCEPT ![p] = a]
       /\ Goto(p, IF a.cmd = "uninstall" THEN "snapshot" ELSE "list")
       /\ IF a.cmd \in OnType
          THEN /\ job' = [job EXCEPT ![p] = [type |-> Head(a.types), port |-> 0,
                                             alias |-> a.alias]]
               /\ rest' = [rest EXCEPT ![p] = Tail(a.types)]
          ELSE UNCHANGED << job, rest >>
  /\ UNCHANGED << world, todo, missing, faults >>

Finish(p) == At(p, "done") /\ Exit(p) /\ UNCHANGED << world, faults >>

-----------------------------------------------------------------------------
(* CheckInstallation, which runs before every command but a few *)

\* GetLocalServices lists the unit files.
ListUnits(p) ==
  /\ At(p, "list")
  /\ todo' = [todo EXCEPT ![p] = Installed(p)]
  /\ Goto(p, CASE arg[p].cmd \in OnUnits -> "all"
               [] arg[p].cmd = "uninstall" -> "sweep"
               [] OTHER -> "check")
  /\ UNCHANGED << world, arg, job, rest, missing, faults >>

\* Mutants: "continue" for the wrong loop; the port left out of the comparison.
Orphans_Any(units, services) == { u \in units : \E s \in services : ~ SameID(s, u) }
Missing_ByType(units, services) == { s \in services : \A u \in units : s.type # u.type }

Orphans(units, services) == { u \in units : \A s \in services : ~ SameID(s, u) }
Missing(units, services) == { s \in services : \A u \in units : ~ SameID(s, u) }

\* Mutants: orphans, or missing services, do not stop a command.
Broken_Lost(orphans, lost) == lost
Broken_Orphans(orphans, lost) == orphans
Broken(orphans, lost) == orphans \cup lost

\* Repair goes to work on what was found; any other command stops if there is any.
Verdict(p, orphans, lost) ==
  IF arg[p].cmd = "repair"
  THEN /\ todo' = [todo EXCEPT ![p] = orphans]
       /\ missing' = [missing EXCEPT ![p] = lost]
       /\ Goto(p, "sweep")
       /\ UNCHANGED << arg, job, rest >>
  ELSE IF Broken(orphans, lost) # {}
  THEN Exit(p)
  ELSE /\ todo' = [todo EXCEPT ![p] = {}]
       /\ Goto(p, IF arg[p].cmd = "removeall" THEN "snapshot" ELSE "lookup")
       /\ UNCHANGED << arg, job, rest, missing >>

\* The catalog is compared with the listing.
CheckInstallation(p) ==
  /\ At(p, "check")
  /\ Verdict(p, Orphans(todo[p], Registered(p)), Missing(todo[p], Registered(p)))
  /\ UNCHANGED << world, faults >>

-----------------------------------------------------------------------------
(* AddMetrics *)

Matches(services, type, alias) == { s \in services : s.type = type /\ s.alias = alias }

\* Mutant: any service of the plugin is a duplicate.
Duplicates_AnyName(p) == { s \in Registered(p) : s.type = job[p].type }

\* getConsulService: of a plugin that is not Multiple any service counts, unless --force.
Duplicates(p) ==
  { s \in Registered(p) : /\ s.type = job[p].type
                          /\ job[p].type \in Multiple \/ arg[p].force
                               => s.alias = job[p].alias }

\* ErrDuplicate ends "add <plugin>", and is fine for "add <database>".
AddLookup(p) ==
  /\ At(p, "lookup") /\ arg[p].cmd = "add"
  /\ IF Duplicates(p) = {} THEN Goto(p, "client") /\ UNCHANGED memory
     ELSE IF Len(arg[p].types) > 1 THEN NextType(p)
     ELSE Exit(p)
  /\ UNCHANGED << world, faults >>

\* Mutant: the address of the node is not compared.
OtherHost_Never(p) == FALSE

\* checkGlobalDuplicateService: no other host uses this client name ...
OtherHost(p) == address[Client(p)] \ {Host(p)} # {} /\ Registered(p) # {}

CheckClient(p) ==
  /\ At(p, "client")
  /\ IF OtherHost(p) THEN Exit(p) ELSE Goto(p, "unique") /\ UNCHANGED memory
  /\ UNCHANGED << world, faults >>

\* Mutant: --service-port without a default.
FirstPort_NoDefault(p) == arg[p].port

\* ... and no client has a service of this type and alias; then choosePort starts.
FirstPort(p) == IF arg[p].port > 0 THEN arg[p].port ELSE DefaultPort[job[p].type]

\* Mutant: only the client's own services are searched.
UniqueAlias_Own(p) == Matches(Registered(p), job[p].type, job[p].alias) = {}
UniqueAlias(p) ==
  \A n \in ClientNames : Matches(catalog[n], job[p].type, job[p].alias) = {}

CheckUnique(p) ==
  /\ At(p, "unique")
  /\ IF ~ UniqueAlias(p)
     THEN Exit(p)
     ELSE /\ job' = [job EXCEPT ![p] = WithPort(@, FirstPort(p))]
          /\ Goto(p, "port")
          /\ UNCHANGED << arg, rest, todo, missing >>
  /\ UNCHANGED << world, faults >>

\* Mutant: only services of the same type are looked at.
Available_SameType(p) ==
  \A s \in Registered(p) : s.type = job[p].type => s.port # job[p].port

\* One call of availablePort.
Available(p) == \A s \in Registered(p) : s.port # job[p].port

ChoosePort(p) ==
  /\ At(p, "port")
  /\ IF Available(p) THEN Goto(p, "register") /\ UNCHANGED memory
     ELSE IF arg[p].port > 0 \/ job[p].port + 1 = DefaultPort[job[p].type] + PortRange
     THEN Exit(p)
     ELSE /\ job' = [job EXCEPT ![p] = WithPort(@, @.port + 1)]
          /\ UNCHANGED << pc, arg, rest, todo, missing >>
  /\ UNCHANGED << world, faults >>

\* Consul replaces a service with the same ID, and sets the address of the node.
Register(p) ==
  /\ At(p, "register")
  /\ catalog' = [catalog EXCEPT ![Client(p)] = Without(@, job[p]) \cup {job[p]}]
  /\ address' = [address EXCEPT ![Client(p)] = {Host(p)}]
  /\ Goto(p, IF job[p].type \in HasKV THEN "kv" ELSE "install")
  /\ UNCHANGED << kv, local, active, memory, faults >>

\* The keys of one service; a failure in between leaves some of them (Fail at "install").
PutKeys(p) ==
  /\ At(p, "kv")
  /\ kv' = [kv EXCEPT ![Client(p)] = @ \cup {ID(job[p])}]
  /\ Goto(p, "install")
  /\ UNCHANGED << catalog, address, local, active, memory, faults >>

\* Install refuses to replace a unit file.
InstallUnit(p) ==
  /\ At(p, "install")
  /\ IF \E u \in Installed(p) : SameID(u, job[p])
     THEN Exit(p) /\ UNCHANGED local
     ELSE /\ local' = [local EXCEPT ![Host(p)] = @ \cup {job[p]}]
          /\ Goto(p, "start") /\ UNCHANGED memory
  /\ UNCHANGED << catalog, address, kv, active, faults >>

\* systemctl start fails on a unit that is not there.
StartUnit(p) ==
  /\ At(p, "start")
  /\ IF \E u \in Installed(p) : SameID(u, job[p])
     THEN active' = [active EXCEPT ![Host(p)] = @ \cup {ID(job[p])}] /\ NextType(p)
     ELSE Exit(p) /\ UNCHANGED active
  /\ UNCHANGED << catalog, address, kv, local, faults >>

-----------------------------------------------------------------------------
(* RemoveMetrics *)

\* getConsulService with a name; the commands on one service share it.
FindService(p) ==
  /\ At(p, "lookup") /\ arg[p].cmd # "add"
  /\ LET found == Matches(Registered(p), job[p].type, job[p].alias)
         switch == arg[p].cmd \in {"start", "stop", "restart"} IN
     \/ /\ found = {}
        /\ IF switch THEN Exit(p) ELSE RemoveFails(p)
     \/ \E s \in found :
          /\ job' = [job EXCEPT ![p] = s]
          /\ Goto(p, IF switch THEN "act" ELSE "deregister")
          /\ UNCHANGED << arg, rest, todo, missing >>
  /\ UNCHANGED << world, faults >>

\* Mutants: a request without a ServiceID deregisters the node; the keys are left alone.
Deregister_Node(p) ==
  /\ At(p, "deregister")
  /\ catalog' = [catalog EXCEPT ![Client(p)] = {}]
  /\ Goto(p, "deltree")
  /\ UNCHANGED << address, kv, local, active, memory, faults >>
Deregister_LeavesKeys(p) ==
  /\ At(p, "deregister")
  /\ catalog' = [catalog EXCEPT ![Client(p)] = Without(@, job[p])]
  /\ Goto(p, "halt")
  /\ UNCHANGED << address, kv, local, active, memory, faults >>

Deregister(p) ==
  /\ At(p, "deregister")
  /\ catalog' = [catalog EXCEPT ![Client(p)] = Without(@, job[p])]
  /\ Goto(p, "deltree")
  /\ UNCHANGED << address, kv, local, active, memory, faults >>

DeleteTree(p) ==
  /\ At(p, "deltree")
  /\ kv' = [kv EXCEPT ![Client(p)] = @ \ {ID(job[p])}]
  /\ Goto(p, "halt")
  /\ UNCHANGED << catalog, address, local, active, memory, faults >>

\* Mutant: the unit is not stopped first.
HaltUnit_Skip(p, from, to) ==
  At(p, from) /\ Goto(p, to) /\ UNCHANGED << world, memory, faults >>

\* uninstallService: stop the unit if it runs, then disable it and delete its file.
HaltUnit(p, from, to) ==
  /\ At(p, from)
  /\ active' = [active EXCEPT ![Host(p)] = @ \ {ID(job[p])}]
  /\ Goto(p, to)
  /\ UNCHANGED << catalog, address, kv, local, memory, faults >>

UninstallUnit(p) ==
  /\ At(p, "uninstall")
  /\ IF \E u \in Installed(p) : SameID(u, job[p])
     THEN local' = [local EXCEPT ![Host(p)] = Without(@, job[p])] /\ AfterRemove(p)
     ELSE UNCHANGED local /\ RemoveFails(p)
  /\ UNCHANGED << catalog, address, kv, active, faults >>

-----------------------------------------------------------------------------
(* RemoveAllMonitoring, of "remove --all" and of Uninstall *)

Snapshot(p) ==
  /\ At(p, "snapshot")
  /\ todo' = [todo EXCEPT ![p] = Registered(p)]
  /\ Goto(p, "each")
  /\ UNCHANGED << world, arg, job, rest, missing, faults >>

\* Mutants: Uninstall trusts the catalog; a visited service stays in the loop.
AfterEach_NoSweep(p) == "done"
AfterEach(p) == IF arg[p].cmd = "uninstall" THEN "list" ELSE "done"
StillToDo_Same(p, s) == todo[p]
StillToDo(p, s) == todo[p] \ {s}

\* The loop over the snapshot; Uninstall then looks for units left over.
RemoveEach(p) ==
  /\ At(p, "each")
  /\ \/ /\ todo[p] = {}
        /\ Goto(p, AfterEach(p))
        /\ UNCHANGED << job, todo >>
     \/ \E s \in todo[p] :
          /\ job' = [job EXCEPT ![p] = WithPort(s, 0)]
          /\ todo' = [todo EXCEPT ![p] = StillToDo(p, s)]
          /\ Goto(p, "lookup")
  /\ UNCHANGED << world, arg, rest, missing, faults >>

-----------------------------------------------------------------------------
(* RepairInstallation, and the last loop of Uninstall *)

\* Mutant: repair returns after the units.
AfterSweep_Done(p) == "done"
AfterSweep(p) == IF arg[p].cmd = "repair" THEN "purge" ELSE "done"

\* Uninstall the orphans (all units, for Uninstall) one by one.
Sweep(p) ==
  /\ At(p, "sweep")
  /\ \/ /\ todo[p] = {}
        /\ Goto(p, AfterSweep(p))
        /\ UNCHANGED << job, todo >>
     \/ \E u \in todo[p] :
          /\ job' = [job EXCEPT ![p] = u]
          /\ todo' = [todo EXCEPT ![p] = StillToDo(p, u)]
          /\ Goto(p, "sweephalt")
  /\ UNCHANGED << world, arg, rest, missing, faults >>

SweepUnit(p) ==
  /\ At(p, "sweepunit")
  /\ IF (\E u \in Installed(p) : SameID(u, job[p])) \/ arg[p].cmd = "uninstall"
     THEN /\ local' = [local EXCEPT ![Host(p)] = Without(@, job[p])]
          /\ Goto(p, "sweep") /\ UNCHANGED memory
     ELSE Exit(p) /\ UNCHANGED local
  /\ UNCHANGED << catalog, address, kv, active, faults >>

\* Deregister the missing services one by one, each with its keys.
Purge(p) ==
  /\ At(p, "purge")
  /\ \/ /\ missing[p] = {} /\ Goto(p, "done")
        /\ UNCHANGED << catalog, job, missing >>
     \/ \E s \in missing[p] :
          /\ catalog' = [catalog EXCEPT ![Client(p)] = Without(@, s)]
          /\ job' = [job EXCEPT ![p] = s]
          /\ missing' = [missing EXCEPT ![p] = @ \ {s}]
          /\ Goto(p, "purgekv")
  /\ UNCHANGED << address, kv, local, active, arg, rest, todo, faults >>

PurgeKeys(p) ==
  /\ At(p, "purgekv")
  /\ kv' = [kv EXCEPT ![Client(p)] = @ \ {ID(job[p])}]
  /\ Goto(p, "purge")
  /\ UNCHANGED << catalog, address, local, active, memory, faults >>

-----------------------------------------------------------------------------
(* StartStopMonitoring and StartStopAllMonitoring *)

UnitExists(p, u) == \E v \in Installed(p) : SameID(u, v)

\* start returns early when the unit runs, stop when it does not; restart stops first.
Switch(p) ==
  /\ At(p, "act")
  /\ LET id == ID(job[p]) IN
     \/ /\ arg[p].cmd = "start" /\ (UnitExists(p, job[p]) \/ id \in active[Host(p)])
        /\ active' = [active EXCEPT ![Host(p)] = @ \cup {id}]
        /\ Goto(p, "done") /\ UNCHANGED memory
     \/ /\ arg[p].cmd = "start" /\ ~ (UnitExists(p, job[p]) \/ id \in active[Host(p)])
        /\ Exit(p) /\ UNCHANGED active
     \/ /\ arg[p].cmd \in {"stop", "restart"}
        /\ active' = [active EXCEPT ![Host(p)] = @ \ {id}]
        /\ Goto(p, IF arg[p].cmd = "stop" THEN "done" ELSE "react") /\ UNCHANGED memory
  /\ UNCHANGED << catalog, address, kv, local, faults >>

\* The second half of restart.
Restart(p) ==
  /\ At(p, "react")
  /\ IF UnitExists(p, job[p])
     THEN /\ active' = [active EXCEPT ![Host(p)] = @ \cup {ID(job[p])}]
          /\ Goto(p, "done") /\ UNCHANGED memory
     ELSE Exit(p) /\ UNCHANGED active
  /\ UNCHANGED << catalog, address, kv, local, faults >>

\* One round of the loop over the unit files; errors are kept (in missing) and make
\* the command fail in the end.
SwitchEach(p) ==
  /\ At(p, "all")
  /\ \/ /\ todo[p] = {}
        /\ IF missing[p] = {} THEN Goto(p, "done") /\ UNCHANGED memory ELSE Exit(p)
        /\ UNCHANGED active
     \/ \E u \in todo[p] :
          /\ todo' = [todo EXCEPT ![p] = StillToDo(p, u)]
          /\ job' = [job EXCEPT ![p] = u]
          /\ IF arg[p].cmd = "startall"
             THEN IF UnitExists(p, u) \/ ID(u) \in active[Host(p)]
                  THEN /\ active' = [active EXCEPT ![Host(p)] = @ \cup {ID(u)}]
                       /\ UNCHANGED missing
                  ELSE /\ missing' = [missing EXCEPT ![p] = @ \cup {u}]
                       /\ UNCHANGED active
             ELSE /\ active' = [active EXCEPT ![Host(p)] = @ \ {ID(u)}]
                  /\ UNCHANGED missing
          /\ Goto(p, IF arg[p].cmd = "restartall" THEN "allreact" ELSE "all")
          /\ UNCHANGED << arg, rest >>
  /\ UNCHANGED << catalog, address, kv, local, faults >>

RestartEach(p) ==
  /\ At(p, "allreact")
  /\ Goto(p, "all")
  /\ IF UnitExists(p, job[p])
     THEN /\ active' = [active EXCEPT ![Host(p)] = @ \cup {ID(job[p])}]
          /\ UNCHANGED missing
     ELSE missing' = [missing EXCEPT ![p] = @ \cup {job[p]}] /\ UNCHANGED active
  /\ UNCHANGED << catalog, address, kv, local, arg, job, rest, todo, faults >>

-----------------------------------------------------------------------------
(* What may go wrong *)

Fault(kind) == kind \in FaultKinds /\ faults < MaxFaults /\ faults' = faults + 1

\* A call fails and its error ends the command, or the process is killed before it.  A
\* call that took effect although its reply was lost is that call and this action after it.
Fail(p) ==
  /\ Fault("exit")
  /\ pc[p] \notin {"idle", "done"}
  /\ Exit(p)
  /\ UNCHANGED world

\* A call of RemoveMetrics fails where its caller goes on, the service manager fails on
\* one of the units of a loop that goes on, or DeleteTree fails in repair.
IgnoredError(p) ==
  /\ Fault("ignored")
  /\ \/ /\ pc[p] \in {"lookup", "deregister", "deltree", "halt", "uninstall"}
        /\ Tolerant(p) /\ AfterRemove(p)
     \/ /\ pc[p] \in {"sweephalt", "sweepunit"} /\ arg[p].cmd = "uninstall"
        /\ Goto(p, "sweep") /\ UNCHANGED memory
     \/ At(p, "purgekv") /\ Goto(p, "purge") /\ UNCHANGED memory
     \/ /\ At(p, "allreact")
        /\ missing' = [missing EXCEPT ![p] = @ \cup {job[p]}]
        /\ Goto(p, "all") /\ UNCHANGED << arg, job, rest, todo >>
     \/ /\ At(p, "all")
        /\ \E u \in todo[p] :
             /\ todo' = [todo EXCEPT ![p] = StillToDo(p, u)]
             /\ missing' = [missing EXCEPT ![p] = @ \cup {u}]
        /\ UNCHANGED << pc, arg, job, rest >>
  /\ UNCHANGED world

\* Catalog.Node fails where the code takes that for an empty catalog: all units are
\* orphans to CheckInstallation, and nothing is left to do for RemoveAllMonitoring.
ReadError(p) ==
  /\ Fault("read")
  /\ \/ At(p, "check") /\ Verdict(p, todo[p], {})
     \/ At(p, "snapshot") /\ Goto(p, "each") /\ UNCHANGED memory
  /\ UNCHANGED world

-----------------------------------------------------------------------------
\* One call of a running process.
Step(p) ==
  \/ Finish(p) \/ ListUnits(p) \/ CheckInstallation(p)
  \/ AddLookup(p) \/ CheckClient(p) \/ CheckUnique(p) \/ ChoosePort(p)
  \/ Register(p) \/ PutKeys(p) \/ InstallUnit(p) \/ StartUnit(p)
  \/ FindService(p) \/ Deregister(p) \/ DeleteTree(p)
  \/ HaltUnit(p, "halt", "uninstall") \/ UninstallUnit(p)
  \/ Snapshot(p) \/ RemoveEach(p)
  \/ Sweep(p) \/ HaltUnit(p, "sweephalt", "sweepunit") \/ SweepUnit(p)
  \/ Purge(p) \/ PurgeKeys(p)
  \/ Switch(p) \/ Restart(p) \/ SwitchEach(p) \/ RestartEach(p)

Next == \E p \in Procs : Begin(p) \/ Step(p) \/ Fail(p) \/ IgnoredError(p) \/ ReadError(p)

Spec == Init /\ [][Next]_vars

\* A process that was started runs on: its calls return, or time out.
FairSpec == Spec /\ \A p \in Procs : WF_vars(Step(p))

-----------------------------------------------------------------------------
(* Properties *)

\* One pmm-admin at a time on a host, and a client name of its own for every host: how
\* the tool is meant to be used.  Nothing in the code enforces the first.
Exclusive ==
  /\ \A p, q \in Procs : HostOf[p] = HostOf[q] => p = q
  /\ \A h, k \in Hosts : ClientName[h] = ClientName[k] => h = k

AllIdle == \A p \in Procs : At(p, "idle")
Settled(h) == catalog[ClientName[h]] = local[h]

\* Two services of a client never get the same port, so each of the exporters can
\* listen and is scraped under its own name, and never the same type and name, whatever
\* --force let through.  The check and the choice of the port come calls before the
\* Register that relies on them (metrics.go:47-97, pmm.go:503-545).
ServicesDistinct ==
  \A n \in ClientNames : \A s, u \in catalog[n] :
    s.port = u.port \/ (s.type = u.type /\ s.alias = u.alias) => s = u

\* What is scraped under a name comes from the exporter that was installed for that
\* name: a registration and the unit on its port agree on the alias, whatever failed,
\* was killed or was repaired before.  The unit's name does not hold the alias, and
\* nothing in the code compares the two (pmm.go:623, metrics.go:141).
UnitServesAlias ==
  \A h \in Hosts : \A s \in catalog[ClientName[h]], u \in local[h] :
    SameID(s, u) => s = u

\* No exporter runs on without its unit: uninstallService stops before it deletes the
\* file (service.go:86-102).
NoStrayExporter == \A h \in Hosts : active[h] \subseteq { ID(u) : u \in local[h] }

\* No two clients monitor something of one type under one name
\* (pmm.go:473 and 488: "globally unique").
AliasGloballyUnique ==
  \A n, m \in ClientNames : \A s \in catalog[n], u \in catalog[m] :
    s.type = u.type /\ s.alias = u.alias => n = m /\ s = u

\* Without a fault, commands leave Consul, its keys, the units and the running
\* exporters in agreement: no command, refused or not, stops half-way on its own.
SettledWhenIdle ==
  AllIdle /\ faults = 0 =>
    \A h \in Hosts :
      /\ Settled(h)
      /\ kv[ClientName[h]] = { ID(s) : s \in { s \in local[h] : s.type \in HasKV } }
      /\ {"stop", "stopall"} \cap Commands = {} => active[h] = { ID(u) : u \in local[h] }

\* When hosts share a client name, every service is still found at the address Consul
\* has for that name (pmm.go:474-486: "Prevent duplicate clients").
FoundAtAddress ==
  AllIdle /\ faults = 0 =>
    \A n \in ClientNames : \A s \in catalog[n], h \in address[n] : s \in local[h]

Succeeded(p, commands) == At(p, "done") /\ arg[p].cmd \in commands

\* "OK, now monitoring": every plugin of the bundle is registered and installed for
\* this name, with its keys (pmm-admin.go:276-286, 322-345).
AddIsTrue ==
  \A p \in Procs : Succeeded(p, {"add"}) =>
    \A i \in 1 .. Len(arg[p].types) :
      \E s \in Registered(p) \cap Installed(p) :
        /\ s.type = arg[p].types[i]
        /\ s.type \in Multiple => s.alias = arg[p].alias
        /\ s.type \in HasKV => ID(s) \in kv[Client(p)]

\* "OK, removed": nothing of that type and name is left in Consul, on the host or
\* running, even if earlier commands failed (pmm-admin.go:892-898, 907-913).  "remove
\* <database>" says it only when no error was skipped.
RemoveIsTrue ==
  \A p \in Procs : Succeeded(p, {"remove"}) /\ (Len(arg[p].types) > 1 => faults = 0) =>
    \A s \in Registered(p) \cup Installed(p), i \in 1 .. Len(arg[p].types) :
      ~ (s.type = arg[p].types[i] /\ s.alias = arg[p].alias)

\* "OK, removed n services" and "OK, no services found" of remove --all: none is left
\* (pmm-admin.go:831-845).
RemoveAllIsTrue ==
  \A p \in Procs : Succeeded(p, {"removeall"}) => Registered(p) = {}

\* A repair that succeeds leaves registrations and units in full agreement, whatever
\* the faults before it (pmm.go:646-693).
RepairIsTrue ==
  \A p \in Procs : Succeeded(p, {"repair"}) => Settled(Host(p))

\* Uninstall leaves no unit and no exporter when the service manager does its part,
\* whether or not the server is alive (pmm.go:695-719).
UninstallIsTrue ==
  \A p \in Procs : Succeeded(p, {"uninstall"}) /\ (faults > 0 => "ignored" \notin FaultKinds) =>
    Installed(p) = {} /\ active[Host(p)] = {}

\* A service is only added to a client whose registrations and units agree: what an
\* earlier command left half done blocks the next add until it is repaired, from the
\* check at its start up to the registration many calls later (pmm-admin.go:162-185).
AddsOnlyWhenSettled ==
  [][\A h \in Hosts :
       ~ (catalog'[ClientName[h]] \subseteq catalog[ClientName[h]]) => Settled(h)]_vars

\* Repair uninstalls only "local system services that are not associated with Consul
\* services" (pmm.go:619, pmm-admin.go:1393-1395).
RepairSparesRegistered ==
  [][\A p \in Procs : arg[p].cmd = "repair" /\ arg'[p] = arg[p] =>
       \A u \in Installed(p) \ local'[Host(p)] : \A s \in Registered(p) : ~ SameID(s, u)]_vars

\* The registrations of a client behave as the registry promises.
MonitoringRegistry == INSTANCE Registry
  WITH Clients <- ClientNames, Services <- Services, monitored <- catalog
Registry == MonitoringRegistry!RegistrySpec

\* Every command ends.
Terminates == \A p \in Procs : ~ At(p, "idle") ~> At(p, "idle")

\* A repair that meets no fault heals: it runs to its end and the client is settled.
RepairHeals ==
  \A p \in Procs :
    arg[p].cmd = "repair" /\ At(p, "list") /\ faults = MaxFaults
      ~> At(p, "done") /\ arg[p].cmd = "repair" /\ Settled(Host(p))
=============================================================================
