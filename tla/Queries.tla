-------------------------------- MODULE Queries --------------------------------
(***************************************************************************)
(* The life of the queries services of pmm-client, on one host.  For every *)
(* kind of database there is one unit (pmm-<type>-queries-0) that runs     *)
(* percona-qan-agent, and one service in Consul whose tags are the names   *)
(* of the databases monitored.  For every database there is an instance in *)
(* the QAN API, a file and a tool (the QAN analyzer) on the agent, and a   *)
(* key in Consul with the UUID of the instance.                            *)
(*                                                                         *)
(* As in Monitoring, every action is one remote call, or one call of the   *)
(* service manager, with the code that runs up to the next one.  An agent  *)
(* and its parent instance are one number here, and an instance carries    *)
(* what QAN knows of it in its UUID.                                       *)
(***************************************************************************)
EXTENDS Integers, FiniteSets

CONSTANTS
  Procs,        \* pmm-admin processes that may run at the same time
  Types,        \* plugins with queries: "mysql", "mongodb"
  Aliases,      \* service names
  Commands,     \* the commands users give
  FaultKinds,   \* of "exit", "ignored", "read", "lost", "reinstalled": what may go wrong
  MaxFaults,    \* bound on the number of faults
  MaxActive,    \* bound on the number of processes running at once
  MaxAgents,    \* bound on the agents that get registered
  MaxCopies,    \* bound on the instances of one database under one agent
  Nil           \* no instance

Jobs == [type : Types, alias : Aliases]
Agents == 1 .. MaxAgents
UUIDs == [type : Types, alias : Aliases, agent : Agents, copy : 1 .. MaxCopies]

ASSUME QueriesConstants ==
  /\ Types # {} /\ Aliases # {}
  /\ Commands \subseteq {"add", "remove", "removeall", "repair", "uninstall", "start", "stop", "restart"}
  /\ MaxFaults \in Nat /\ MaxActive \in Nat
  /\ MaxAgents \in Nat \ {0} /\ MaxCopies \in Nat \ {0}
  /\ Nil \notin UUIDs

VARIABLES
  tags,       \* Consul: the names tagged on the service of each type; {} is no service
  keys,       \* Consul: the UUIDs kept under <client name>/<service>/<name>/
  agents,     \* QAN: the agents it knows
  instances,  \* QAN: the instances it knows, deleted ones included
  live,       \* QAN: the instances not marked as deleted
  unit,       \* the types whose unit is installed
  proc,       \* the agent that the process of a unit runs as; 0 if it does not run
  conf,       \* the agent in agent.conf; 0 if there is no such file
  files,      \* the instances with a file on the agent
  tools,      \* the instances the agent collects queries of
  pc,         \* where each process is
  cmd,        \* its command
  job,        \* the database it works on
  uuid,       \* the instance of it
  seen,       \* the tags of the service when it was read
  agent,      \* the agent it read from agent.conf
  todo,       \* databases its loop has still to visit
  units,      \* units it has still to remove
  lost,       \* repair: services without a unit it has still to remove
  faults      \* the number of faults so far

server == << tags, keys, agents, instances, live >>
host == << unit, proc, conf, files, tools >>
memory == << cmd, job, uuid, seen, agent, todo, units, lost >>
vars == << server, host, pc, memory, faults >>

NoJob == CHOOSE j \in Jobs : TRUE
Of(S, j) == { u \in S : u.type = j.type /\ u.alias = j.alias }
OfType(S, t) == { u \in S : u.type = t }

Adding == {"lookup", "unique", "service", "agent", "wipe", "install", "parent", "rewipe",
           "reinstall", "reparent", "instance", "undelete", "create", "file", "unit",
           "startunit", "wake", "starttool", "register", "keys"}
Removing == {"lookup", "rmwake", "getkey", "stoptool", "delete", "deltree", "retag",
             "halt", "uninstall"}
Others == {"idle", "done", "check", "snapshot", "each", "list", "sweep", "sweephalt",
           "sweepunit", "purge", "names", "purgekeys", "stop", "rouse"}

\* Where a process relies on having an instance.
Instanced == {"undelete", "file", "unit", "startunit", "wake", "starttool", "register",
              "keys", "stoptool", "delete"}

ServerOK ==
  /\ tags \in [Types -> SUBSET Aliases]
  /\ keys \subseteq UUIDs /\ instances \subseteq UUIDs /\ live \subseteq instances
  /\ agents \subseteq Agents

HostOK ==
  /\ unit \subseteq Types /\ proc \in [Types -> Agents \cup {0}] /\ conf \in Agents \cup {0}
  /\ files \subseteq UUIDs /\ tools \subseteq UUIDs

MemoryOK ==
  /\ pc \in [Procs -> Adding \cup Removing \cup Others]
  /\ cmd \in [Procs -> Commands \cup {"none"}] /\ job \in [Procs -> Jobs]
  /\ uuid \in [Procs -> UUIDs \cup {Nil}]
  /\ seen \in [Procs -> SUBSET Aliases] /\ agent \in [Procs -> Agents \cup {0}]
  /\ todo \in [Procs -> SUBSET Jobs]
  /\ units \in [Procs -> SUBSET Types] /\ lost \in [Procs -> SUBSET Types]

\* Wherever a process uses an instance, it has one, of the database it works on.
KnowsInstance == \A p \in Procs : pc[p] \in Instanced => uuid[p] \in Of(UUIDs, job[p])

TypeOK == ServerOK /\ HostOK /\ MemoryOK /\ KnowsInstance /\ faults \in 0 .. MaxFaults

Init ==
  /\ tags = [t \in Types |-> {}] /\ keys = {}
  /\ agents = {} /\ instances = {} /\ live = {}
  /\ unit = {} /\ proc = [t \in Types |-> 0] /\ conf = 0 /\ files = {} /\ tools = {}
  /\ pc = [p \in Procs |-> "idle"] /\ cmd = [p \in Procs |-> "none"]
  /\ job = [p \in Procs |-> NoJob] /\ uuid = [p \in Procs |-> Nil]
  /\ seen = [p \in Procs |-> {}] /\ agent = [p \in Procs |-> 0]
  /\ todo = [p \in Procs |-> {}]
  /\ units = [p \in Procs |-> {}] /\ lost = [p \in Procs |-> {}]
  /\ faults = 0

-----------------------------------------------------------------------------
At(p, l) == pc[p] = l
Goto(p, l) == pc' = [pc EXCEPT ![p] = l]
Type(p) == job[p].type

\* The process ends: os.Exit, an error returned up to main, or a kill.
Exit(p) ==
  /\ Goto(p, "idle")
  /\ cmd' = [cmd EXCEPT ![p] = "none"] /\ job' = [job EXCEPT ![p] = NoJob]
  /\ uuid' = [uuid EXCEPT ![p] = Nil] /\ seen' = [seen EXCEPT ![p] = {}]
  /\ agent' = [agent EXCEPT ![p] = 0] /\ todo' = [todo EXCEPT ![p] = {}]
  /\ units' = [units EXCEPT ![p] = {}] /\ lost' = [lost EXCEPT ![p] = {}]

\* What is kept for one database is forgotten before the next.
Return(p, l) ==
  /\ Goto(p, l)
  /\ uuid' = [uuid EXCEPT ![p] = Nil] /\ seen' = [seen EXCEPT ![p] = {}]
  /\ agent' = [agent EXCEPT ![p] = 0] /\ job' = [job EXCEPT ![p] = NoJob]
  /\ UNCHANGED << cmd, todo, units, lost >>

\* An error: Uninstall's loop over the services ignores it, every other command ends.
Fails(p) == IF cmd[p] = "uninstall" THEN Return(p, "each") ELSE Exit(p)

\* RemoveQueries returns to "remove", or to the loop of RemoveAllMonitoring.
AfterRemove(p) ==
  IF cmd[p] = "remove" THEN Goto(p, "done") /\ UNCHANGED memory ELSE Return(p, "each")

OnService == {"add", "remove", "start", "stop", "restart"}

Begin(p) ==
  /\ At(p, "idle")
  /\ Cardinality({q \in Procs : ~ At(q, "idle")}) < MaxActive
  /\ \E c \in Commands, j \in Jobs :
       /\ c \notin OnService => j = NoJob
       /\ cmd' = [cmd EXCEPT ![p] = c] /\ job' = [job EXCEPT ![p] = j]
       /\ Goto(p, IF c = "uninstall" THEN "snapshot" ELSE "check")
  /\ UNCHANGED << server, host, uuid, seen, agent, todo, units, lost, faults >>

Finish(p) == At(p, "done") /\ Exit(p) /\ UNCHANGED << server, host, faults >>

\* Mutant: repair looks for orphaned units only.
Missing_None == {}

\* CheckInstallation: units without a service, and services without a unit.
Orphans == { t \in unit : tags[t] = {} }
Missing == { t \in Types \ unit : tags[t] # {} }

\* Repair goes to work on what is found; every other command stops if there is any.
Verdict(p, orphans, missing) ==
  IF cmd[p] = "repair"
  THEN /\ units' = [units EXCEPT ![p] = orphans] /\ lost' = [lost EXCEPT ![p] = missing]
       /\ Goto(p, "sweep") /\ UNCHANGED << cmd, job, uuid, seen, agent, todo >>
  ELSE IF orphans \cup missing # {} THEN Exit(p)
  ELSE Goto(p, IF cmd[p] = "removeall" THEN "snapshot" ELSE "lookup") /\ UNCHANGED memory

CheckInstallation(p) ==
  At(p, "check") /\ Verdict(p, Orphans, Missing) /\ UNCHANGED << server, host, faults >>

-----------------------------------------------------------------------------
(* AddQueries *)

\* getConsulService and then checkGlobalDuplicateService look for the name.
NoDuplicate(p, from, to) ==
  /\ At(p, from) /\ cmd[p] = "add"
  /\ IF job[p].alias \in tags[Type(p)] THEN Exit(p) ELSE Goto(p, to) /\ UNCHANGED memory
  /\ UNCHANGED << server, host, faults >>

\* The service of the type, if there is one already.
ReadService(p) ==
  /\ At(p, "service")
  /\ seen' = [seen EXCEPT ![p] = tags[Type(p)]]
  /\ Goto(p, "agent")
  /\ UNCHANGED << server, host, cmd, job, uuid, agent, todo, units, lost, faults >>

\* Mutant: every add registers the agent.
FindAgent_Always(p) ==
  /\ At(p, "agent")
  /\ Goto(p, "wipe")
  /\ UNCHANGED << server, host, memory, faults >>

\* Without agent.conf an agent is registered, else its ID is read.
FindAgent(p) ==
  /\ At(p, "agent")
  /\ agent' = [agent EXCEPT ![p] = conf]
  /\ Goto(p, IF conf = 0 THEN "wipe" ELSE "parent")
  /\ UNCHANGED << server, host, cmd, job, uuid, seen, todo, units, lost, faults >>

\* registerAgent removes config, data and instance, whatever they hold ...
WipeAgent(p, from, to) ==
  /\ At(p, from)
  /\ conf' = 0 /\ files' = {} /\ tools' = {}
  /\ Goto(p, to)
  /\ UNCHANGED << server, unit, proc, memory, faults >>

\* An agent ID that occurs nowhere yet.
Used == agents \cup {conf} \cup { proc[t] : t \in Types }
          \cup { u.agent : u \in instances \cup keys \cup files \cup tools }
Fresh == CHOOSE n \in Agents \ Used : TRUE

\* ... and runs the installer, which registers the agent, or finds the one that the
\* server knows of this host, and writes agent.conf.
InstallAgent(p, from, to) ==
  /\ At(p, from)
  /\ Agents \ Used # {}
  /\ \E n \in agents \cup {Fresh} :
       /\ agents' = agents \cup {n} /\ conf' = n
       /\ agent' = [agent EXCEPT ![p] = n]
  /\ Goto(p, to)
  /\ UNCHANGED << tags, keys, instances, live, unit, proc, files, tools,
                  cmd, job, uuid, seen, todo, units, lost, faults >>

\* Mutant: an agent unknown to the server is an error.
Unknown_Exits(p) == Exit(p)

\* errNoInstance: the agent is registered again.
Unknown(p) == Goto(p, "rewipe") /\ UNCHANGED memory

GetParent(p) ==
  /\ At(p, "parent")
  /\ IF agent[p] \in agents THEN Goto(p, "instance") /\ UNCHANGED memory ELSE Unknown(p)
  /\ UNCHANGED << server, host, faults >>

\* The second time it must be known.
GetParentAgain(p) ==
  /\ At(p, "reparent")
  /\ IF agent[p] \in agents THEN Goto(p, "instance") /\ UNCHANGED memory ELSE Exit(p)
  /\ UNCHANGED << server, host, faults >>

\* Mutant: deleted instances are not found.
Found_Live(p) == { u \in Of(live, job[p]) : u.agent = agent[p] }

\* getInstance: QAN's instance of this name and parent, deleted or not.
Found(p) == { u \in Of(instances, job[p]) : u.agent = agent[p] }

FindInstance(p) ==
  /\ At(p, "instance")
  /\ \/ Found(p) = {} /\ Goto(p, "create") /\ UNCHANGED uuid
     \/ \E u \in Found(p) : uuid' = [uuid EXCEPT ![p] = u] /\ Goto(p, "undelete")
  /\ UNCHANGED << server, host, cmd, job, seen, agent, todo, units, lost, faults >>

\* Mutant: the instance found is used as it is.
Undelete_Skip(p) ==
  At(p, "undelete") /\ Goto(p, "file") /\ UNCHANGED << server, host, memory, faults >>

\* The instance found is marked as not deleted.
Undelete(p) ==
  /\ At(p, "undelete")
  /\ IF uuid[p] \in instances THEN live' = live \cup {uuid[p]} ELSE UNCHANGED live
  /\ IF uuid[p] \in instances THEN Goto(p, "file") /\ UNCHANGED memory ELSE Exit(p)
  /\ UNCHANGED << tags, keys, agents, instances, host, faults >>

\* QAN gives the new instance a UUID of its own.
CreateInstance(p) ==
  /\ At(p, "create")
  /\ LET same == { u \in Of(instances, job[p]) : u.agent = agent[p] }
         u == [type |-> Type(p), alias |-> job[p].alias, agent |-> agent[p],
               copy |-> Cardinality(same) + 1] IN
     /\ u \in UUIDs
     /\ instances' = instances \cup {u} /\ live' = live \cup {u}
     /\ uuid' = [uuid EXCEPT ![p] = u]
  /\ Goto(p, "file")
  /\ UNCHANGED << tags, keys, agents, host, cmd, job, seen, agent, todo, units, lost, faults >>

\* The instance with its real DSN is written for the agent; the first service of its
\* type brings the unit.
WriteFile(p) ==
  /\ At(p, "file")
  /\ files' = files \cup {uuid[p]}
  /\ Goto(p, IF seen[p] = {} THEN "unit" ELSE "wake")
  /\ UNCHANGED << server, unit, proc, conf, tools, memory, faults >>

\* Install refuses to replace a unit file.
InstallUnit(p) ==
  /\ At(p, "unit")
  /\ IF Type(p) \in unit THEN Exit(p) /\ UNCHANGED unit
     ELSE unit' = unit \cup {Type(p)} /\ Goto(p, "startunit") /\ UNCHANGED memory
  /\ UNCHANGED << server, proc, conf, files, tools, faults >>

\* svc.Start of installService; the process runs as the agent of agent.conf, and ends
\* when there is none.
StartUnit(p) ==
  /\ At(p, "startunit")
  /\ IF Type(p) \in unit
     THEN proc' = [proc EXCEPT ![Type(p)] = conf] /\ Goto(p, "starttool") /\ UNCHANGED memory
     ELSE Exit(p) /\ UNCHANGED proc
  /\ UNCHANGED << server, unit, conf, files, tools, faults >>

\* startService does nothing when the unit runs, as whatever agent it was started.
Wake(p, from, to) ==
  /\ At(p, from)
  /\ IF proc[Type(p)] = 0 /\ Type(p) \notin unit
     THEN Fails(p) /\ UNCHANGED proc
     ELSE /\ proc' = [proc EXCEPT ![Type(p)] = IF @ = 0 THEN conf ELSE @]
          /\ Goto(p, to) /\ UNCHANGED memory
  /\ UNCHANGED << server, unit, conf, files, tools, faults >>

\* QAN relays a command to any process that runs as the agent, and answers 404 as long
\* as there is none; sendQANCmd tries ten times.
Connected(p) == agent[p] \in agents /\ \E t \in Types : proc[t] = agent[p]

\* The agent may refuse to start a tool that it runs already.
StartTool(p) ==
  /\ At(p, "starttool")
  /\ \/ /\ Connected(p)
        /\ tools' = tools \cup {uuid[p]}
        /\ Goto(p, "register") /\ UNCHANGED memory
     \/ /\ ~ Connected(p) \/ uuid[p] \in tools
        /\ Exit(p) /\ UNCHANGED tools
  /\ UNCHANGED << server, unit, proc, conf, files, faults >>

\* Mutant: the tags of the service are replaced.
Tagged_Only(p) == {job[p].alias}

\* For an existing service the name is appended to the tags that were read.
Tagged(p) == seen[p] \cup {job[p].alias}

Register(p) ==
  /\ At(p, "register")
  /\ tags' = [tags EXCEPT ![Type(p)] = Tagged(p)]
  /\ Goto(p, "keys")
  /\ UNCHANGED << keys, agents, instances, live, host, memory, faults >>

\* The sanitized DSN and the UUID; a failure between the two is a Fail at "keys".
PutKeys(p) ==
  /\ At(p, "keys")
  /\ keys' = (keys \ Of(keys, job[p])) \cup {uuid[p]}
  /\ Goto(p, "done")
  /\ UNCHANGED << tags, agents, instances, live, host, memory, faults >>

-----------------------------------------------------------------------------
(* RemoveQueries; start, stop and restart share its getConsulService *)

FindService(p) ==
  /\ At(p, "lookup") /\ cmd[p] # "add"
  /\ IF job[p].alias \in tags[Type(p)]
     THEN /\ seen' = [seen EXCEPT ![p] = tags[Type(p)]]
          /\ Goto(p, CASE cmd[p] = "start" -> "rouse"
                       [] cmd[p] \in {"stop", "restart"} -> "stop"
                       [] OTHER -> "rmwake")
          /\ UNCHANGED << cmd, job, uuid, agent, todo, units, lost >>
     ELSE Fails(p)
  /\ UNCHANGED << server, host, faults >>

\* Mutant: the answer is not compared with nil.
GetKey_NoCheck(p) ==
  /\ At(p, "getkey")
  /\ agent' = [agent EXCEPT ![p] = conf]
  /\ \/ Of(keys, job[p]) = {} /\ UNCHANGED uuid
     \/ \E u \in Of(keys, job[p]) : uuid' = [uuid EXCEPT ![p] = u]
  /\ Goto(p, "stoptool")
  /\ UNCHANGED << server, host, cmd, job, seen, todo, units, lost, faults >>

\* The UUID from its key, and the ID of the agent from agent.conf.
GetKey(p) ==
  /\ At(p, "getkey")
  /\ \/ (Of(keys, job[p]) = {} \/ conf = 0) /\ Fails(p)
     \/ \E u \in Of(keys, job[p]) :
          /\ conf # 0
          /\ uuid' = [uuid EXCEPT ![p] = u] /\ agent' = [agent EXCEPT ![p] = conf]
          /\ Goto(p, "stoptool")
          /\ UNCHANGED << cmd, job, seen, todo, units, lost >>
  /\ UNCHANGED << server, host, faults >>

\* The agent may refuse to stop a tool that it does not run.
StopTool(p) ==
  /\ At(p, "stoptool")
  /\ \/ /\ Connected(p)
        /\ tools' = tools \ {uuid[p]}
        /\ Goto(p, "delete") /\ UNCHANGED memory
     \/ /\ ~ Connected(p) \/ uuid[p] \notin tools
        /\ Fails(p) /\ UNCHANGED tools
  /\ UNCHANGED << server, unit, proc, conf, files, faults >>

\* Mutant: the instance is left alone.
DeleteInstance_Skip(p) ==
  At(p, "delete") /\ Goto(p, "deltree") /\ UNCHANGED << server, host, memory, faults >>

\* QAN marks the instance as deleted, and may refuse one that is so or that it does not know.
DeleteInstance(p) ==
  /\ At(p, "delete")
  /\ \/ live' = live \ {uuid[p]} /\ Goto(p, "deltree") /\ UNCHANGED memory
     \/ uuid[p] \notin live /\ Fails(p) /\ UNCHANGED live
  /\ UNCHANGED << tags, keys, agents, instances, host, faults >>

DeleteTree(p) ==
  /\ At(p, "deltree")
  /\ keys' = keys \ Of(keys, job[p])
  /\ Goto(p, "retag")
  /\ UNCHANGED << tags, agents, instances, live, host, memory, faults >>

\* Mutant: the tag of the name itself is kept.
Remaining_All(p) == seen[p]

\* The tags that were read, without the name.
Remaining(p) == seen[p] \ {job[p].alias}

\* The service is registered with the remaining tags, or deregistered with its last one.
Retag(p) ==
  /\ At(p, "retag")
  /\ tags' = [tags EXCEPT ![Type(p)] = Remaining(p)]
  /\ IF Remaining(p) = {} THEN Goto(p, "halt") /\ UNCHANGED memory ELSE AfterRemove(p)
  /\ UNCHANGED << keys, agents, instances, live, host, faults >>

\* uninstallService: stop the unit if it runs, then disable it and delete its file.
HaltUnit(p, from, to) ==
  /\ At(p, from)
  /\ proc' = [proc EXCEPT ![Type(p)] = 0]
  /\ Goto(p, to)
  /\ UNCHANGED << server, unit, conf, files, tools, memory, faults >>

UninstallUnit(p) ==
  /\ At(p, "uninstall")
  /\ unit' = unit \ {Type(p)}
  /\ IF Type(p) \in unit THEN AfterRemove(p) ELSE Fails(p)
  /\ UNCHANGED << server, proc, conf, files, tools, faults >>

-----------------------------------------------------------------------------
(* RemoveAllMonitoring, of "remove --all" and of Uninstall *)

\* Mutant: one name of every service.
ToRemove_One == { [type |-> t, alias |-> CHOOSE a \in tags[t] : TRUE] :
                   t \in { t \in Types : tags[t] # {} } }

\* Every name of every service.
ToRemove == { j \in Jobs : j.alias \in tags[j.type] }

Snapshot(p) ==
  /\ At(p, "snapshot")
  /\ todo' = [todo EXCEPT ![p] = ToRemove]
  /\ Goto(p, "each")
  /\ UNCHANGED << server, host, cmd, job, uuid, seen, agent, units, lost, faults >>

\* Mutant: a visited name stays in the loop.
StillToDo_Same(p, j) == todo[p]

\* The loop over the snapshot.
StillToDo(p, j) == todo[p] \ {j}

RemoveEach(p) ==
  /\ At(p, "each")
  /\ \/ /\ todo[p] = {} /\ Goto(p, IF cmd[p] = "uninstall" THEN "list" ELSE "done")
        /\ UNCHANGED << job, todo >>
     \/ \E j \in todo[p] :
          /\ job' = [job EXCEPT ![p] = j] /\ todo' = [todo EXCEPT ![p] = StillToDo(p, j)]
          /\ Goto(p, "lookup")
  /\ UNCHANGED << server, host, cmd, uuid, seen, agent, units, lost, faults >>

\* Uninstall then removes every unit that is left.
ListUnits(p) ==
  /\ At(p, "list")
  /\ units' = [units EXCEPT ![p] = unit]
  /\ Goto(p, "sweep")
  /\ UNCHANGED << server, host, cmd, job, uuid, seen, agent, todo, lost, faults >>

-----------------------------------------------------------------------------
(* RepairInstallation, and the last loop of Uninstall *)

ForType(p, t) == job' = [job EXCEPT ![p] = [NoJob EXCEPT !.type = t]]

Sweep(p) ==
  /\ At(p, "sweep")
  /\ \/ /\ units[p] = {} /\ Goto(p, IF cmd[p] = "repair" THEN "purge" ELSE "done")
        /\ UNCHANGED << job, units >>
     \/ \E t \in units[p] :
          /\ ForType(p, t) /\ units' = [units EXCEPT ![p] = @ \ {t}]
          /\ Goto(p, "sweephalt")
  /\ UNCHANGED << server, host, cmd, uuid, seen, agent, todo, lost, faults >>

SweepUnit(p) ==
  /\ At(p, "sweepunit")
  /\ unit' = unit \ {Type(p)}
  /\ IF Type(p) \in unit \/ cmd[p] = "uninstall" THEN Goto(p, "sweep") /\ UNCHANGED memory
     ELSE Exit(p)
  /\ UNCHANGED << server, proc, conf, files, tools, faults >>

\* A missing service is deregistered with all its names, and its keys are listed.
Purge(p) ==
  /\ At(p, "purge")
  /\ \/ lost[p] = {} /\ Goto(p, "done") /\ UNCHANGED << tags, job, todo, lost >>
     \/ \E t \in lost[p] :
          /\ tags' = [tags EXCEPT ![t] = {}]
          /\ ForType(p, t) /\ lost' = [lost EXCEPT ![p] = @ \ {t}]
          /\ todo' = [todo EXCEPT ![p] =
                        { [type |-> t, alias |-> u.alias] : u \in OfType(keys, t) }]
          /\ Goto(p, "names")
  /\ UNCHANGED << keys, agents, instances, live, host, cmd, uuid, seen, agent, units, faults >>

\* Mutant: the instances stay.
Purged_None(j) == {}

\* The instance of a key.
Purged(j) == Of(keys, j)

\* The instance of every key is deleted; whether QAN agrees is not looked at.
PurgeInstance(p) ==
  /\ At(p, "names")
  /\ \/ todo[p] = {} /\ Goto(p, "purgekeys") /\ UNCHANGED << live, todo >>
     \/ \E j \in todo[p] :
          /\ live' = live \ Purged(j)
          /\ todo' = [todo EXCEPT ![p] = StillToDo(p, j)]
          /\ UNCHANGED pc
  /\ UNCHANGED << tags, keys, agents, instances, host, cmd, job, uuid, seen, agent, units,
                  lost, faults >>

PurgeKeys(p) ==
  /\ At(p, "purgekeys")
  /\ keys' = keys \ OfType(keys, Type(p))
  /\ Goto(p, "purge")
  /\ UNCHANGED << tags, agents, instances, live, host, memory, faults >>

-----------------------------------------------------------------------------
(* StartStopMonitoring *)

Stop(p) ==
  /\ At(p, "stop")
  /\ proc' = [proc EXCEPT ![Type(p)] = 0]
  /\ Goto(p, IF cmd[p] = "restart" THEN "rouse" ELSE "done")
  /\ UNCHANGED << server, unit, conf, files, tools, memory, faults >>

-----------------------------------------------------------------------------
(* What may go wrong *)

Fault(kind) == kind \in FaultKinds /\ faults < MaxFaults /\ faults' = faults + 1
AllIdle == \A p \in Procs : At(p, "idle")

\* A call fails and its error ends the command, or the process is killed before it.
Fail(p) ==
  /\ Fault("exit")
  /\ pc[p] \notin {"idle", "done"}
  /\ Exit(p)
  /\ UNCHANGED << server, host >>

\* The installer registers the agent and fails before it writes agent.conf.
FailInstall(p) ==
  /\ Fault("exit")
  /\ pc[p] \in {"install", "reinstall"} /\ Agents \ Used # {}
  /\ agents' = agents \cup {Fresh}
  /\ Exit(p)
  /\ UNCHANGED << tags, keys, instances, live, host >>

\* A call fails and its caller goes on: in the loops of Uninstall, and for the
\* instances and keys in repair.
IgnoredError(p) ==
  /\ Fault("ignored")
  /\ \/ cmd[p] = "uninstall" /\ pc[p] \in Removing /\ Fails(p)
     \/ /\ cmd[p] = "uninstall" /\ pc[p] \in {"sweephalt", "sweepunit"}
        /\ Goto(p, "sweep") /\ UNCHANGED memory
     \/ /\ At(p, "names") /\ todo[p] # {}
        /\ \/ todo' = [todo EXCEPT ![p] = {}]
           \/ \E j \in todo[p] : todo' = [todo EXCEPT ![p] = @ \ {j}]
        /\ UNCHANGED << pc, cmd, job, uuid, seen, agent, units, lost >>
     \/ At(p, "purgekeys") /\ Goto(p, "purge") /\ UNCHANGED memory
  /\ UNCHANGED << server, host >>

\* Catalog.Node fails where the code takes that for an empty catalog: every unit is an
\* orphan to CheckInstallation and no service misses one, and RemoveAllMonitoring finds
\* nothing to remove.
ReadError(p) ==
  /\ Fault("read")
  /\ \/ At(p, "check") /\ Verdict(p, unit, {})
     \/ At(p, "snapshot") /\ Goto(p, "each") /\ UNCHANGED memory
  /\ UNCHANGED << server, host >>

\* Between commands the server loses its data: that of QAN, or that of Consul too.
LoseServer ==
  /\ Fault("lost") /\ AllIdle
  /\ agents' = {} /\ instances' = {} /\ live' = {}
  /\ \/ UNCHANGED << tags, keys >>
     \/ tags' = [t \in Types |-> {}] /\ keys' = {}
  /\ UNCHANGED << host, pc, memory >>

\* The client's system is installed anew.
Reinstall ==
  /\ Fault("reinstalled") /\ AllIdle
  /\ unit' = {} /\ proc' = [t \in Types |-> 0] /\ conf' = 0 /\ files' = {} /\ tools' = {}
  /\ UNCHANGED << server, pc, memory >>

-----------------------------------------------------------------------------
\* One call of a running process.
Step(p) ==
  \/ Finish(p) \/ CheckInstallation(p)
  \/ NoDuplicate(p, "lookup", "unique") \/ NoDuplicate(p, "unique", "service")
  \/ ReadService(p) \/ FindAgent(p)
  \/ WipeAgent(p, "wipe", "install") \/ InstallAgent(p, "install", "parent")
  \/ GetParent(p)
  \/ WipeAgent(p, "rewipe", "reinstall") \/ InstallAgent(p, "reinstall", "reparent")
  \/ GetParentAgain(p)
  \/ FindInstance(p) \/ Undelete(p) \/ CreateInstance(p) \/ WriteFile(p)
  \/ InstallUnit(p) \/ StartUnit(p) \/ Wake(p, "wake", "starttool")
  \/ StartTool(p) \/ Register(p) \/ PutKeys(p)
  \/ FindService(p) \/ Wake(p, "rmwake", "getkey") \/ GetKey(p) \/ StopTool(p)
  \/ DeleteInstance(p) \/ DeleteTree(p) \/ Retag(p)
  \/ HaltUnit(p, "halt", "uninstall") \/ UninstallUnit(p)
  \/ Snapshot(p) \/ RemoveEach(p) \/ ListUnits(p)
  \/ Sweep(p) \/ HaltUnit(p, "sweephalt", "sweepunit") \/ SweepUnit(p)
  \/ Purge(p) \/ PurgeInstance(p) \/ PurgeKeys(p)
  \/ Stop(p) \/ Wake(p, "rouse", "done")

Next ==
  \/ \E p \in Procs : Begin(p) \/ Step(p) \/ Fail(p) \/ FailInstall(p)
                     \/ IgnoredError(p) \/ ReadError(p)
  \/ LoseServer \/ Reinstall

Spec == Init /\ [][Next]_vars

\* A process that was started runs on: its calls return, or time out.
FairSpec == Spec /\ \A p \in Procs : WF_vars(Step(p))

-----------------------------------------------------------------------------
(* Properties *)

\* One pmm-admin at a time, which nothing in the code enforces.
OneAtATime == \A p, q \in Procs : p = q

\* The databases that have a tag, and those that have a key.
Monitored == { j \in Jobs : j.alias \in tags[j.type] }
Keyed == { [type |-> u.type, alias |-> u.alias] : u \in keys }
Succeeded(p, c) == At(p, "done") /\ cmd[p] = c

\* No database gets two instances under one agent, however often an add is broken off
\* and tried again, so its history stays in one place (queries.go:109-117, "try to re-use
\* the existing one").
InstancesUnique ==
  \A u, v \in instances : u.type = v.type /\ u.alias = v.alias /\ u.agent = v.agent => u = v

\* "OK, now monitoring MySQL queries": Consul has the name and the UUID of an instance that
\* QAN knows, has not deleted, and has under an agent that runs on this host, collects its
\* queries and has its file (pmm-admin.go:416-423).
AddIsTrue ==
  \A p \in Procs : Succeeded(p, "add") =>
    /\ job[p].alias \in tags[Type(p)]
    /\ \E u \in Of(keys, job[p]) :
         /\ u \in live /\ u \in tools /\ u \in files
         /\ u.agent = conf /\ conf \in agents
         /\ \E t \in unit : proc[t] = conf

\* "OK, removed MySQL queries": the name and its key are gone, the instance of the key is
\* deleted and no longer collected, and the unit is gone with the last name, but not before
\* (pmm-admin.go:922-928).
RemoveIsTrue ==
  \A p \in Procs : Succeeded(p, "remove") =>
    /\ job[p].alias \notin tags[Type(p)]
    /\ Of(keys, job[p]) = {}
    /\ uuid[p] \notin live \cup tools
    /\ tags[Type(p)] = {} <=> Type(p) \notin unit

\* A command on one database leaves the registrations of all others alone: with the tags
\* of a service it read, it writes all of them back (queries.go:161-167 and 258-290).
TagsIndependent ==
  [][\A p \in Procs : cmd[p] \in {"add", "remove"} /\ cmd'[p] = cmd[p] =>
       \A j \in Jobs \ {job[p]} : (j.alias \in tags[j.type]) <=> (j.alias \in tags'[j.type])]_vars

\* An add never takes the tool or the file of an instance that QAN still has: registerAgent
\* removes them all, so it must only run when the server knows nothing of them
\* (queries.go:75-104 and 505-509).
AddKeepsCollecting ==
  [][\A p \in Procs : cmd[p] = "add" =>
       tools \cap live \subseteq tools' /\ files \cap live \subseteq files']_vars

\* For an existing service, add appends a tag (queries.go:164).
AddAppends ==
  [][\A p \in Procs : At(p, "register") /\ cmd'[p] = "add" /\ pc'[p] = "keys" =>
       tags[Type(p)] \subseteq tags'[Type(p)]]_vars

\* A repair that succeeds leaves a unit for every service and a service for every unit
\* (pmm.go:646-693).  Not so where the catalog cannot be read (pmm.go:614-617).
RepairIsTrue ==
  \A p \in Procs : Succeeded(p, "repair") => unit = { j.type : j \in Monitored }

\* The key that tells the instance of a database is only dropped when QAN has marked the
\* instance as deleted; afterwards nobody could find it (queries.go:248-256, pmm.go:670-685).
KeysLast ==
  [][\A p \in Procs : cmd[p] \in {"remove", "removeall", "repair", "uninstall"} =>
       \A u \in keys \ keys' : u \notin live']_vars

\* "OK, n services were removed" or "OK, no services found": after remove --all no name is
\* left (pmm-admin.go:831-845).  Not so where the catalog cannot be read (pmm.go:361-363).
RemoveAllIsTrue == \A p \in Procs : Succeeded(p, "removeall") => Monitored = {}

\* Without a fault the five places where a database is kept agree between commands: its
\* tag, its key, its instance in QAN and the tool and the unit of its agent.
SettledWhenIdle ==
  AllIdle /\ faults = 0 =>
    /\ Keyed = Monitored /\ keys = live
    /\ tools = keys /\ tools \subseteq files
    /\ unit = { j.type : j \in Monitored }

\* What is registered can be removed: its key is there to tell the instance
\* (pmm-admin.go:918, "This command removes MySQL instance from Query Analytics").
Removable == AllIdle => Monitored \subseteq Keyed

\* Every command ends.
Terminates == \A p \in Procs : ~ At(p, "idle") ~> At(p, "idle")

\* After the last fault, whatever the server has lost, the first database of a type can be
\* added: an agent the server does not know is registered again (queries.go:90-104).
AddSucceeds ==
  \A p \in Procs, j \in Jobs :
    (/\ cmd[p] = "add" /\ At(p, "check") /\ job[p] = j /\ faults = MaxFaults
     /\ Orphans \cup Missing = {} /\ tags[j.type] = {} /\ Of(tools, j) = {})
      ~> (Succeeded(p, "add") /\ job[p] = j)
=============================================================================
