------------------------------ MODULE ClientConfig ------------------------------
(***************************************************************************)
(* pmm-admin config on one client: it sets the options of pmm.yml and, when *)
(* the client is renamed, moves everything the server keeps under the old  *)
(* name to the new one, call by call.                                      *)
(*                                                                         *)
(* A service is known by its type, and registered if it has a tag (the     *)
(* names it has, here Aliases).  A name that contains a client name is     *)
(* [of |-> that client, rest |-> ...], with an empty rest where it is the  *)
(* name; what strings.Replace does to names and to the paths of keys is    *)
(* then a change of "of".  Keys are those of queries services, which hold  *)
(* the UUID of an instance; those of metrics services move in the same way. *)
(***************************************************************************)
EXTENDS Integers, FiniteSets

CONSTANTS
  Procs,           \* pmm-admin processes
  Names, Hostname, \* client names; the one that is taken if none is given
  ValidNames,      \* those that match NameRegex
  Addresses,
  LocalAddresses,  \* those bound on this system
  Auths, NoAuth,   \* credentials of the server; none
  Services,        \* types of services; those below with an agent's unit
  QueriesServices,
  Aliases,         \* names of services
  Passwords,       \* what pmm.yml may hold for the user pmm
  NoPassword,
  Unset,           \* an option not set or not given
  ConfigRequests,  \* what users ask of config
  Catalogs,        \* what may be registered when the history begins
  FaultKinds,      \* of "exit", "fail", "register": what may go wrong
  MaxCommands,     \* bound on the number of commands
  MaxFaults        \* bound on the number of faults

UUIDs == [service : QueriesServices, alias : Aliases]
Keys == [node : Names, service : QueriesServices, alias : Aliases, uuid : UUIDs]
Configs == [server : BOOLEAN, auth : Auths, name : Names \cup {Unset},
            addr : Addresses \cup {Unset}, bind : Addresses \cup {Unset},
            password : Passwords \cup {NoPassword}]
Requests == [server : BOOLEAN, auth : Auths \cup {Unset}, name : Names \cup {Unset},
             addr : Addresses \cup {Unset}, bind : Addresses \cup {Unset}, force : BOOLEAN]

ASSUME ConfigConstants ==
  /\ ConfigRequests \subseteq Requests
  /\ Aliases \subseteq [of : Names \cup {Unset}, rest : STRING]
  /\ \A a \in Aliases, n \in Names : a.of # Unset => [a EXCEPT !.of = n] \in Aliases
  /\ \A n \in Names : [of |-> n, rest |-> ""] \in Aliases
  /\ Hostname \in Names /\ ValidNames \subseteq Names /\ LocalAddresses \subseteq Addresses
  /\ LocalAddresses # {}
  /\ NoAuth \in Auths /\ NoPassword \notin Passwords
  /\ QueriesServices = {"mysql:queries", "mongodb:queries"} /\ QueriesServices \subseteq Services
  /\ Catalogs \subseteq [Services -> SUBSET Aliases]
  /\ Unset \notin Names \cup Addresses \cup Auths \cup Aliases
  /\ MaxCommands \in Nat /\ MaxFaults \in Nat

VARIABLES
  yml,       \* pmm.yml
  catalog,   \* Consul: the tags of each service under each client name; {} is no service
  address,   \* Consul: the address of each node
  keys,      \* Consul: keys with UUIDs
  qan,       \* QAN: the name of each instance; Unset is no instance
  files,     \* the name in the instance's file on the agent
  agent,     \* the credentials in agent.conf; Unset is no such file
  units,     \* the credentials each unit has loaded; Unset is no unit
  pc,        \* where each process is
  conf,      \* its copy of pmm.yml
  req,       \* config: what it was asked
  seen,      \* the tags of the services as they were read
  todo,      \* the services its loop has still to visit
  cur,       \* the service it works on
  ktodo,     \* the keys of it still to move
  key,       \* the key it moves
  errs,      \* whether renaming has met an error
  commands,  \* the number of commands so far
  faults     \* the number of faults so far

shared == << yml, catalog, address, keys, qan, files, agent, units >>
task == << req, seen, todo, cur, ktodo, key, errs >>

NoRequest == CHOOSE r \in Requests : TRUE
NoService == CHOOSE s \in Services : TRUE
NoKey == CHOOSE k \in Keys : TRUE
NoConf == [server |-> FALSE, auth |-> NoAuth, name |-> Unset, addr |-> Unset, bind |-> Unset,
           password |-> NoPassword]
Nothing == [s \in Services |-> {}]

Locations == {"name", "repair", "source", "svc", "dereg", "keys", "key", "instance", "file",
              "put", "delete", "address", "bind", "sync", "mysql", "mongodb", "write",
              "each", "configured"}

ConfigTypeOK ==
  /\ yml \in Configs
  /\ catalog \in [Names -> [Services -> SUBSET Aliases]]
  /\ address \in [Names -> Addresses \cup {Unset}]
  /\ keys \subseteq Keys
  /\ qan \in [UUIDs -> Aliases \cup {Unset}] /\ files \in [UUIDs -> Aliases \cup {Unset}]
  /\ agent \in Auths \cup {Unset} /\ units \in [Services -> Auths \cup {Unset}]
  /\ conf \in [Procs -> Configs]
  /\ req \in [Procs -> Requests] /\ seen \in [Procs -> [Services -> SUBSET Aliases]]
  /\ todo \in [Procs -> SUBSET Services] /\ cur \in [Procs -> Services]
  /\ ktodo \in [Procs -> SUBSET Keys] /\ key \in [Procs -> Keys]
  /\ errs \in [Procs -> BOOLEAN]
  /\ commands \in 0 .. MaxCommands /\ faults \in 0 .. MaxFaults

-----------------------------------------------------------------------------
At(p, l) == pc[p] = l
Goto(p, l) == pc' = [pc EXCEPT ![p] = l]
Registered(n) == { s \in Services : catalog[n][s] # {} }
Units == { s \in Services : units[s] # Unset }
Default(n) == [of |-> n, rest |-> ""]

ForgetTask(p) ==
  /\ req' = [req EXCEPT ![p] = NoRequest] /\ seen' = [seen EXCEPT ![p] = Nothing]
  /\ todo' = [todo EXCEPT ![p] = {}] /\ cur' = [cur EXCEPT ![p] = NoService]
  /\ ktodo' = [ktodo EXCEPT ![p] = {}] /\ key' = [key EXCEPT ![p] = NoKey]
  /\ errs' = [errs EXCEPT ![p] = FALSE]

\* The process ends: os.Exit, an error returned up to main, or a kill.
Exit(p) == Goto(p, "idle") /\ conf' = [conf EXCEPT ![p] = NoConf] /\ ForgetTask(p)

\* A new command starts when no other runs, and reads pmm.yml; an old file may lack the
\* bind address.
Load ==
  IF yml.bind = Unset THEN [yml EXCEPT !.bind = yml.addr] ELSE yml

Ready(p) ==
  /\ \A q \in Procs : At(q, "idle")
  /\ commands < MaxCommands /\ commands' = commands + 1

\* Giving the address of the server clears its credentials, which may be given with it.
ServerOptions(c, r) ==
  [c EXCEPT !.server = @ \/ r.server,
            !.auth = IF r.auth # Unset THEN r.auth ELSE IF r.server THEN NoAuth ELSE @]

BeginConfig(p) ==
  /\ Ready(p)
  /\ \E r \in ConfigRequests :
       /\ ServerOptions(Load, r).server
       /\ conf' = [conf EXCEPT ![p] = ServerOptions(Load, r)]
       /\ req' = [req EXCEPT ![p] = r]
  /\ Goto(p, "name")
  /\ UNCHANGED << shared, seen, todo, cur, ktodo, key, errs, faults >>

Finish(p) == At(p, "configured") /\ Exit(p) /\ UNCHANGED << shared, commands, faults >>

\* The process is killed, or a call fails whose error ends the command.
Fail(p) ==
  /\ pc[p] \in Locations /\ "exit" \in FaultKinds
  /\ faults < MaxFaults /\ faults' = faults + 1
  /\ Exit(p) /\ UNCHANGED << shared, commands >>

-----------------------------------------------------------------------------
(* The client name *)

\* Code between two calls that only moves the process on.
Move(p, from, to) ==
  At(p, from) /\ Goto(p, to) /\ UNCHANGED << shared, conf, task, commands, faults >>
Leave(p) == Exit(p) /\ UNCHANGED << shared, commands, faults >>
SetName(p, n) == conf' = [conf EXCEPT ![p].name = n]

Renames(p) == conf[p].name # Unset /\ req[p].name \notin {Unset, conf[p].name}

\* The first configuration takes the name, unless another client has services under it;
\* with --force they are taken for its own, of an earlier installation, and repaired.
InitialName(p) ==
  /\ At(p, "name") /\ conf[p].name = Unset
  /\ LET n == IF req[p].name = Unset THEN Hostname ELSE req[p].name
     IN /\ Registered(n) = {} \/ req[p].force
        /\ SetName(p, n)
        /\ Goto(p, IF Registered(n) # {} THEN "repair" ELSE "address")
  /\ UNCHANGED << shared, task, commands, faults >>

NameTaken(p) ==
  /\ At(p, "name") /\ conf[p].name = Unset /\ ~ req[p].force
  /\ Registered(IF req[p].name = Unset THEN Hostname ELSE req[p].name) # {}
  /\ Leave(p)

KeepName(p) == Move(p, "name", "address") /\ conf[p].name # Unset /\ ~ Renames(p)

\* RepairInstallation, as Monitoring and Queries have it: services without a unit go, with
\* their keys and instances, and units without a service.
Repairs(p, gone, orphans) ==
  LET n == conf[p].name
      dead == { k \in keys : k.node = n /\ k.service \in gone }
  IN /\ At(p, "repair")
     /\ catalog' = [catalog EXCEPT ![n] = [s \in Services |-> IF s \in gone THEN {} ELSE @[s]]]
     /\ keys' = keys \ dead
     /\ qan' = [u \in UUIDs |-> IF \E k \in dead : k.uuid = u THEN Unset ELSE qan[u]]
     /\ units' = [s \in Services |-> IF s \in orphans THEN Unset ELSE units[s]]
     /\ Goto(p, "address")
     /\ UNCHANGED << yml, address, files, agent, conf, task, commands >>

Missing(p) == Registered(conf[p].name) \ Units
Orphans(p) == Units \ Registered(conf[p].name)

Repair(p) == Repairs(p, Missing(p), Orphans(p)) /\ UNCHANGED faults

\* It stops at the first error, which config ignores.
RepairFails(p) ==
  /\ At(p, "repair")
  /\ "fail" \in FaultKinds /\ faults < MaxFaults /\ faults' = faults + 1
  /\ \E gone \in SUBSET Missing(p), orphans \in SUBSET Orphans(p) : Repairs(p, gone, orphans)

\* A client takes no name under which there are services ...
CheckTarget(p) ==
  /\ At(p, "name") /\ Renames(p)
  /\ \/ Registered(req[p].name) = {} /\ Move(p, "name", "source")
     \/ Registered(req[p].name) # {} /\ Leave(p)

\* ... and gives up one under which it has services only with --force.
Unforced(p) == Registered(conf[p].name) # {} /\ ~ req[p].force

CheckSource(p) ==
  /\ At(p, "source")
  /\ \/ Unforced(p) /\ Leave(p)
     \/ /\ Registered(conf[p].name) = {}
        /\ SetName(p, req[p].name) /\ Goto(p, "address")
        /\ UNCHANGED << shared, task, commands, faults >>
     \/ /\ Registered(conf[p].name) # {} /\ ~ Unforced(p)
        /\ seen' = [seen EXCEPT ![p] = catalog[conf[p].name]]
        /\ todo' = [todo EXCEPT ![p] = Registered(conf[p].name)]
        /\ Goto(p, "svc")
        /\ UNCHANGED << shared, conf, req, cur, ktodo, key, errs, commands, faults >>

-----------------------------------------------------------------------------
(* renameClientNameInServices: the errors of a step are collected and end the step *)

\* A tag is the client's name if it is all of it ...
NewTags(p, s) ==
  { IF a = Default(conf[p].name) THEN Default(req[p].name) ELSE a : a \in seen[p][s] }

\* Mutant: all of a key's path but the name in it.
NewKey_Prefix(p, k) == [k EXCEPT !.node = req[p].name]

\* ... but in keys and in names of instances it is replaced wherever it occurs.
Replaced(p, a) == IF a.of = conf[p].name THEN [a EXCEPT !.of = req[p].name] ELSE a
NewKey(p, k) == [k EXCEPT !.node = req[p].name, !.alias = Replaced(p, @)]

Erred(p, kind) ==
  /\ kind \in FaultKinds /\ faults < MaxFaults /\ faults' = faults + 1
  /\ errs' = [errs EXCEPT ![p] = TRUE]

Visited(p, s) == todo' = [todo EXCEPT ![p] = @ \ {s}]

RegisterNew(p) ==
  /\ At(p, "svc")
  /\ \E s \in todo[p] :
       /\ Visited(p, s)
       /\ catalog' = [catalog EXCEPT ![req[p].name][s] = NewTags(p, s)]
       /\ address' = [address EXCEPT ![req[p].name] = conf[p].addr]
       /\ cur' = [cur EXCEPT ![p] = s]
  /\ Goto(p, "dereg")
  /\ UNCHANGED << yml, keys, qan, files, agent, units, conf, req, seen, ktodo, key, errs,
                  commands, faults >>

RegisterFails(p) ==
  /\ At(p, "svc") /\ Erred(p, "register")
  /\ \E s \in todo[p] : Visited(p, s)
  /\ UNCHANGED << shared, pc, conf, req, seen, cur, ktodo, key, commands >>

DeregisterOld(p) ==
  /\ At(p, "dereg")
  /\ catalog' = [catalog EXCEPT ![conf[p].name][cur[p]] = {}]
  /\ Goto(p, "keys")
  /\ UNCHANGED << yml, address, keys, qan, files, agent, units, conf, task, commands, faults >>

ListKeys(p) ==
  /\ At(p, "keys")
  /\ ktodo' = [ktodo EXCEPT ![p] = { k \in keys : k.node = conf[p].name /\ k.service = cur[p] }]
  /\ Goto(p, "key")
  /\ UNCHANGED << shared, conf, req, seen, todo, cur, key, errs, commands, faults >>

\* The instances of mysql:queries are renamed too.
GetKey(p) ==
  /\ At(p, "key")
  /\ \E k \in ktodo[p] :
       /\ ktodo' = [ktodo EXCEPT ![p] = @ \ {k}]
       /\ key' = [key EXCEPT ![p] = k]
       /\ Goto(p, IF k.service = "mysql:queries" THEN "instance" ELSE "put")
  /\ UNCHANGED << shared, conf, req, seen, todo, cur, errs, commands, faults >>

NextService(p) == ktodo[p] = {} /\ Move(p, "key", "svc")

\* renameInstance: QAN is told the name in the instance's file with the new client name, and
\* then the file is written; nothing happens to a name without the old one, and a file that is
\* not there is an error.
UpdateInstance(p) ==
  /\ At(p, "instance")
  /\ LET u == key[p].uuid
         renamed == files[u] # Unset /\ Replaced(p, files[u]) # files[u]
     IN /\ qan' = IF renamed THEN [qan EXCEPT ![u] = Replaced(p, files[u])] ELSE qan
        /\ errs' = [errs EXCEPT ![p] = @ \/ files[u] = Unset]
        /\ Goto(p, IF renamed THEN "file" ELSE "put")
  /\ UNCHANGED << yml, catalog, address, keys, files, agent, units, conf, req, seen, todo, cur,
                  ktodo, key, commands, faults >>

WriteInstance(p) ==
  /\ At(p, "file")
  /\ files' = [files EXCEPT ![key[p].uuid] = Replaced(p, @)]
  /\ Goto(p, "put")
  /\ UNCHANGED << yml, catalog, address, keys, qan, agent, units, conf, task, commands, faults >>

SamePath(k, l) == k.node = l.node /\ k.service = l.service /\ k.alias = l.alias

PutKey(p) ==
  /\ At(p, "put")
  /\ keys' = { k \in keys : ~ SamePath(k, NewKey(p, key[p])) } \cup { NewKey(p, key[p]) }
  /\ Goto(p, "delete")
  /\ UNCHANGED << yml, catalog, address, qan, files, agent, units, conf, task, commands, faults >>

DeleteKey(p) ==
  /\ At(p, "delete")
  /\ keys' = { k \in keys : ~ SamePath(k, key[p]) }
  /\ Goto(p, "key")
  /\ UNCHANGED << yml, catalog, address, qan, files, agent, units, conf, task, commands, faults >>

\* Mutant: the old key goes although the new one could not be written.
AfterError_Deletes == [dereg |-> "svc", keys |-> "svc", instance |-> "put", file |-> "put",
                       put |-> "delete", delete |-> "key"]

\* What follows the error of a call: the service, or the key, is left as it is.
AfterError == [dereg |-> "svc", keys |-> "svc", instance |-> "put", file |-> "put",
               put |-> "key", delete |-> "key"]

CallFails(p) ==
  /\ pc[p] \in DOMAIN AfterError /\ Erred(p, "fail")
  /\ Goto(p, AfterError[pc[p]])
  /\ UNCHANGED << shared, conf, req, seen, todo, cur, ktodo, key, commands >>

GetFails(p) ==
  /\ At(p, "key") /\ Erred(p, "fail")
  /\ \E k \in ktodo[p] : ktodo' = [ktodo EXCEPT ![p] = @ \ {k}]
  /\ UNCHANGED << shared, pc, conf, req, seen, todo, cur, key, commands >>

\* The old node is dropped with what is left of it; an error is only logged.
DropNode(p) ==
  /\ At(p, "svc") /\ todo[p] = {}
  /\ \/ catalog' = [catalog EXCEPT ![conf[p].name] = Nothing] /\ UNCHANGED faults
     \/ /\ "fail" \in FaultKinds /\ faults < MaxFaults /\ faults' = faults + 1
        /\ UNCHANGED catalog
  /\ SetName(p, req[p].name) /\ Goto(p, "address")
  /\ UNCHANGED << yml, address, keys, qan, files, agent, units, task, commands >>

-----------------------------------------------------------------------------
(* Addresses, the agent's configuration and pmm.yml *)

\* The new name is checked only now, when the services have moved to it.
InvalidName(p) == At(p, "address") /\ conf[p].name \notin ValidNames /\ Leave(p)

TakeAddress(p, a) ==
  /\ At(p, "address") /\ conf[p].name \in ValidNames
  /\ conf' = [conf EXCEPT ![p].addr = a] /\ Goto(p, "bind")
  /\ UNCHANGED << shared, task, commands, faults >>

\* Without a flag the first address is the one that the server sees, which may be none.
FirstAddress(p) ==
  /\ conf[p].addr = Unset
  /\ \E a \in IF req[p].addr = Unset THEN Addresses ELSE {req[p].addr} : TakeAddress(p, a)

NotDetected(p) ==
  At(p, "address") /\ conf[p].addr = Unset /\ req[p].addr = Unset /\ Leave(p)

ChangesAddress(p) == conf[p].addr # Unset /\ req[p].addr \notin {Unset, conf[p].addr}
KeepAddress(p) == conf[p].addr # Unset /\ ~ ChangesAddress(p) /\ TakeAddress(p, conf[p].addr)

\* Mutant: the services are looked for under the name in pmm.yml.
Pinned_OldName(p) == Registered(yml.name) # {}

\* Addresses stay as long as there are services under the client's name.
Pinned(p) == Registered(conf[p].name) # {}

ChangeAddress(p) ==
  /\ At(p, "address") /\ conf[p].name \in ValidNames /\ ChangesAddress(p)
  /\ \/ ~ Pinned(p) /\ TakeAddress(p, req[p].addr)
     \/ Pinned(p) /\ Leave(p)

\* The bind address defaults to the client's, and must be local.
SetBind(p) ==
  /\ At(p, "bind")
  /\ LET old == conf[p].bind
         b == IF req[p].bind # Unset THEN req[p].bind
              ELSE IF old # Unset THEN old ELSE conf[p].addr
         refused == (old \notin {Unset, b} /\ Pinned(p)) \/ b \notin LocalAddresses
     IN \/ refused /\ Leave(p)
        \/ /\ ~ refused
           /\ conf' = [conf EXCEPT ![p].bind = b] /\ Goto(p, "sync")
           /\ UNCHANGED << shared, task, commands, faults >>

\* syncAgentConfig, if there is an agent.
SyncAgent(p) ==
  /\ At(p, "sync")
  /\ agent' = IF agent = Unset THEN Unset ELSE conf[p].auth
  /\ Goto(p, IF agent = Unset THEN "write" ELSE "mysql")
  /\ UNCHANGED << yml, catalog, address, keys, qan, files, units, conf, task, commands, faults >>

\* An agent reads agent.conf when it starts, an exporter pmm.yml.
Loads(s) == IF s \in QueriesServices THEN agent ELSE yml.auth
Restart(s) == units' = [units EXCEPT ![s] = Loads(s)]

\* The unit of a registered service; one that is missing cannot be restarted.
RestartAgent(p, s, from, to) ==
  /\ At(p, from)
  /\ \/ s \in Registered(conf[p].name) \ Units /\ Leave(p)
     \/ s \notin Registered(conf[p].name) /\ Move(p, from, to)
     \/ /\ s \in Registered(conf[p].name) \cap Units
        /\ Restart(s) /\ Goto(p, to)
        /\ UNCHANGED << yml, catalog, address, keys, qan, files, agent, conf, task, commands, faults >>

\* New credentials, or none, are for the exporters too.
RestartsAll(p) == req[p].server \/ req[p].auth # Unset

WriteConfig(p) ==
  /\ At(p, "write")
  /\ yml' = conf[p]
  /\ todo' = [todo EXCEPT ![p] = IF RestartsAll(p) THEN Units ELSE {}]
  /\ Goto(p, "each")
  /\ UNCHANGED << catalog, address, keys, qan, files, agent, units, conf, req, seen, cur, ktodo,
                  key, errs, commands, faults >>

\* StartStopAllMonitoring visits the units of this system.
RestartEach(p) ==
  /\ At(p, "each")
  /\ \E s \in todo[p] : Restart(s) /\ Visited(p, s)
  /\ UNCHANGED << yml, catalog, address, keys, qan, files, agent, pc, conf, req, seen, cur, ktodo,
                  key, errs, commands, faults >>

Configured(p) == todo[p] = {} /\ Move(p, "each", "configured")

ConfigStep(p) ==
  \/ BeginConfig(p) \/ InitialName(p) \/ NameTaken(p) \/ KeepName(p)
  \/ Repair(p) \/ RepairFails(p)
  \/ CheckTarget(p) \/ CheckSource(p)
  \/ RegisterNew(p) \/ RegisterFails(p) \/ DeregisterOld(p) \/ ListKeys(p) \/ GetKey(p)
  \/ GetFails(p) \/ NextService(p) \/ UpdateInstance(p) \/ WriteInstance(p)
  \/ PutKey(p) \/ DeleteKey(p) \/ CallFails(p) \/ DropNode(p)
  \/ InvalidName(p) \/ FirstAddress(p) \/ NotDetected(p) \/ KeepAddress(p) \/ ChangeAddress(p)
  \/ SetBind(p) \/ SyncAgent(p)
  \/ RestartAgent(p, "mysql:queries", "mysql", "mongodb")
  \/ RestartAgent(p, "mongodb:queries", "mongodb", "write")
  \/ WriteConfig(p) \/ RestartEach(p) \/ Configured(p) \/ Finish(p)
=============================================================================
