# A verification project for pmm-client

`pmm-admin` is the command line tool with which a host joins Percona Monitoring and
Management. It is not a daemon. Every invocation is a process that calls the services of
the PMM server (Consul, Query Analytics, pmm-managed), the local service manager and the
monitored databases, one call after the other, and ends. There is no transaction and no
lock: what a command leaves behind when a call fails, when it is killed, or when another
host works at the same time, is what the next command starts from. This directory models
that life as state machines, checks them with TLC and proves theorems about them with
TLAPS.

## Inventory

| Component | Source | State it keeps | Operations | Module |
|---|---|---|---|---|
| Metrics services | `pmm/metrics.go`, `pmm/pmm.go`, `pmm/service.go` | services and keys in Consul, units and running exporters on the host | AddMetrics, RemoveMetrics, RemoveAllMonitoring, CheckInstallation, RepairInstallation, Uninstall, StartStopMonitoring, StartStopAllMonitoring | `Monitoring`, `Registry` |
| Command line | `pmm-admin.go` | none between invocations | the preflight of `PersistentPreRun`; bundles such as `add mysql` | `Monitoring` |
| Consul, service manager | external, as used | catalog and KV; unit files and processes | Register, Deregister, Put, DeleteTree; install, start, stop, uninstall | inside `Monitoring` |
| Query Analytics services | `pmm/queries.go`, `pmm/qan_api.go` | agent and instances in QAN, `agent.conf` and instance files, a shared service with one alias tag per database, keys with the uuid | AddQueries, RemoveQueries, registerAgent, createInstance, StartTool/StopTool | `Queries` |
| Client configuration | `pmm/config.go` | `pmm.yml`, the node, its services and keys in Consul, names of instances in QAN and in files, `agent.conf` | LoadConfig, SetConfig, renameClientNameInServices, renameInstance, deregisterNode, syncAgentConfig, writeConfig | `ClientConfig` |
| External services | `pmm/external.go`, `pmm/managed` | scrape configurations in pmm-managed | AddExternalService, AddExternalMetrics, AddExternalInstances and their removal | `External` |
| Database users | `pmm/plugin/mysql`, `pmm/plugin/postgresql` | accounts of the user `pmm`, the schema of PostgreSQL, the password in `pmm.yml` | Init, getInfo, check, createUser, createUserUsingSudoPSQL, makeGrants, optsToDisable, RemoveAllMonitoring's last step | `DbUser` |
| Version check | `pmm/pmm.go` CheckVersion | none | a comparison of two versions | a fatal verdict is one of the failures of `Monitoring` |
| list, info, ping, check-network, summary, annotate, purge, verbose transport | `pmm/list.go`, `pmm/check_network.go`, `pmm/summary.go`, `pmm/annotation.go`, `pmm/utils` | none that another command reads | printing, one request | not modelled |

The components meet in shared state only. The catalog of a node is written by metrics and
queries services alike and read by the preflight of nearly every command; the service
manager's directory is listed by the preflight and by `uninstall`; `pmm.yml` is read at
the start of every command and written by `config`, by the MySQL plugin (the generated
password) and by `remove --all`.

What makes the code hard to get right:

- **Two stores, no transaction.** `AddMetrics` registers in Consul and then installs the
  unit; `RemoveMetrics` deregisters and then uninstalls. Any failure in between leaves
  the stores in disagreement. The preflight and `repair` are the only answer.
- **Check, then act.** The duplicate, uniqueness and port checks read the catalog several
  calls before `Register` writes it.
- **What is compared.** Registrations and units are matched by type and port alone; the
  name (alias) is a tag of the registration and not part of the unit.
- **Errors that are not errors.** `CheckInstallation` and `RemoveAllMonitoring` take a
  read that failed for an empty catalog; several callers print an error and go on.
- **Read-modify-write** of the tags of the queries service and of the scrape
  configurations; **renaming** that copies every service and key; **retries** of commands
  to the query agent.

What correctness means for each component:

- Metrics services: a port and a name belong to one service; what is scraped under a name
  is the exporter installed for it; a failure blocks further adds until repair, and repair
  heals; success messages are true; commands end.
- Query Analytics: an alias is monitored exactly when its instance runs in the agent, and
  it can always be removed again; instances do not leak; tags are not lost.
- Configuration: Consul and `pmm.yml` agree on the client name after success, and a
  failure does not lose a service.
- External services: commands of several clients change only their own targets.
- Database users: the exporter gets credentials that work, and re-running does not break
  the credentials of a running exporter.

## Modules

- `Monitoring` - the system: hosts, processes of pmm-admin on them, Consul and the service
  managers. One action is one remote call or one call of the service manager, with the
  code up to the next call.
- `Registry` - what the registrations promise to the server: services come and go one at
  a time and a service is never altered or displaced by another. `Monitoring` implements
  it (`Registry == MonitoringRegistry!RegistrySpec`, with `catalog` for `monitored`).
- `MCMonitoring` - values for the constants. The five `monitoring_*.cfg` instantiate it.
- `Monitoring_proofs`, `Settled_proofs`, `Answers_proofs`, `Faultless_proofs` - the theorems
  about it; the last two stand on the second, and that on the first.
- `Queries` - the same life cycle for the queries services of one host, whose state is
  spread wider: the shared service and its tags and keys in Consul, agents and instances in
  the QAN API, the unit, its process, and the directories of percona-qan-agent.
- `MCQueries` - values for its constants, for the five `queries_*.cfg`.
- `Queries_proofs` - the theorems about it.
- `External` - the scrape jobs of pmm-managed and the commands of any number of clients that
  read one, change it and write it back. `MCExternal`, `external_*.cfg`, `External_proofs`.
- `ClientConfig` - `pmm-admin config` on one client: the variables and actions of SetConfig,
  with the renaming call by call.
- `DbUser` - extends `ClientConfig`: `pmm-admin add` on MySQL and PostgreSQL as far as the user
  `pmm` and its password go, and `remove --all`, which forgets the password.
- `Client` - composes the two over the life of one client, which is where they interact:
  `Init`, `Next` and the properties. `MCClient`, `client_life.cfg`; `Client_proofs` and, on
  it, `Life_proofs`.

### How Monitoring corresponds to the code

A service is a record `[type, port, alias]`. Its Consul ID is `type-port` and its alias a
tag; its unit is `pmm-<type>-<port>`; in `local` the alias is the name the unit was
installed for, which the code does not keep and no action compares. `catalog[n]` is what
`Catalog().Node(n)` returns, `address[n]` the address of that node, `kv[n]` the IDs that
have keys under `<n>/<ID>/`, `local[h]` the unit files and `active[h]` the exporters that
run. Everything else is the memory of the processes: `pc` (the next call), `arg` (the
command line), `job` (the service worked on), `rest` (plugins left in a bundle), `todo`
and `missing` (lists the loops still have to visit).

| Code | Actions |
|---|---|
| preflight: GetLocalServices, CheckInstallation | `ListUnits`, `CheckInstallation` |
| AddMetrics: getConsulService, checkGlobalDuplicateService (two reads), choosePort (one read per port), Register, KV().Put, Install, Start | `AddLookup`, `CheckClient`, `CheckUnique`, `ChoosePort`, `Register`, `PutKeys`, `InstallUnit`, `StartUnit` |
| RemoveMetrics: getConsulService, Deregister, DeleteTree, stop, uninstall | `FindService`, `Deregister`, `DeleteTree`, `HaltUnit`, `UninstallUnit` |
| RemoveAllMonitoring | `Snapshot`, `RemoveEach`, then the actions of RemoveMetrics |
| RepairInstallation | `ListUnits`, `CheckInstallation`, `Sweep`, `HaltUnit`, `SweepUnit`, `Purge`, `PurgeKeys` |
| Uninstall | `Snapshot`, `RemoveEach`, ..., `ListUnits`, `Sweep`, `HaltUnit`, `SweepUnit` |
| StartStopMonitoring, StartStopAllMonitoring | `FindService`, `Switch`, `Restart`; `ListUnits`, `SwitchEach`, `RestartEach` |
| a call fails and the error ends the command; a kill | `Fail` |
| a call fails and the caller goes on | `IgnoredError` |
| a failed read of the catalog is taken for an empty catalog | `ReadError` |

Commands on a database (`add mysql`) are `Bundles` of plugins; the differences between
their callers are in `AddLookup` (ErrDuplicate is fine in a bundle), `Tolerant` and
`RemoveFails`. A call that took effect although its reply was lost is the call followed
by `Fail`. A failing version check, a plugin's `Init` or the certificate is a `Fail` at
the location before it.

Abstracted: what the exporter's arguments, tags (other than the alias) and keys contain;
the keys of one service are put in one step, and a failure among them is a `Fail` after
it; systemd's restart of an exporter that crashed by itself; the queries services, which
the same loops visit (they are in `Queries`).

### How Queries corresponds to the code

There is one unit and one Consul service per type of database (port 0), and one agent
per host, whose ID is in agent.conf. `tags[t]` are the names tagged on the service of `t`
(no tags: no service), `keys` the UUIDs stored under `<client>/<service>/<name>/`,
`agents`, `instances` and `live` what QAN knows and has not marked as deleted. On the host
there are `unit`, `proc` (as which agent the process of a unit runs), `conf` (agent.conf),
`files` (`instance/<uuid>.json`) and `tools` (what the agent of `conf` is told to collect).
A UUID carries what QAN knows of an instance: type, name, the agent it belongs to.

| Code | Actions |
|---|---|
| preflight | `CheckInstallation` (both of its reads) |
| AddQueries up to the agent | `NoDuplicate` (getConsulService, checkGlobalDuplicateService), `ReadService`, `FindAgent`, `GetParent`, `GetParentAgain` |
| registerAgent | `WipeAgent`, `InstallAgent`; `FailInstall` when the installer registers the agent but writes no agent.conf |
| getInstance, createInstance | `FindInstance`, `Undelete`, `CreateInstance` |
| the rest of AddQueries | `WriteFile`, `InstallUnit` and `StartUnit` or `Wake`, `StartTool`, `Register`, `PutKeys` |
| RemoveQueries | `FindService`, `Wake`, `GetKey`, `StopTool`, `DeleteInstance`, `DeleteTree`, `Retag`, `HaltUnit`, `UninstallUnit` |
| RemoveAllMonitoring, Uninstall | `Snapshot`, `RemoveEach`, ..., `ListUnits`, `Sweep`, `HaltUnit`, `SweepUnit` |
| RepairInstallation | `CheckInstallation`, `Sweep`, ..., `Purge`, `PurgeInstance`, `PurgeKeys` |
| StartStopMonitoring | `FindService`, `Stop`, `Wake` |
| a failed read of the catalog is taken for an empty catalog, by CheckInstallation (pmm.go:614) and by RemoveAllMonitoring (pmm.go:361) | `ReadError` |
| an error that ends the command, a kill; one that RepairInstallation goes on after | `Fail`; `IgnoredError` |
| the two situations the preflight's messages describe (pmm-admin.go:162-185) | `LoseServer`, `Reinstall` |

`sendQANCmd` is one step: it succeeds if some process on the host runs as the agent and the
server knows it, and else, after its ten attempts, fails. QAN and the agent are outside of
this repository. Where the code does not tell what they answer - a second StartTool for one
instance, StopTool for a tool that does not run, the deletion of an instance that is gone,
an installer on a host the server knows - either answer is possible.

Abstracted: an agent and its parent instance (the host, for QAN) are one number; DSN and
version; the fallback for a QAN API that cannot undelete instances; the second client a
global duplicate could come from (in `Monitoring`); the process that a unit's restart
policy would start again.

### How External corresponds to the code

`jobs` are the scrape configurations of pmm-managed: the parameters of a job (interval,
timeout, path, scheme) and its entries, an address and the instance it is labelled with. A
process has its command (`cmd`, `req`), and in `seen` the job it read.

| Code | Actions |
|---|---|
| ScrapeConfigsGet and what is made of its answer, the checks without `--force` included | `Get`, `Refused` |
| AddExternalService | `Get`, `AddExternalService` (Create or Update) |
| AddExternalMetrics, RemoveExternalMetrics | `AddExternalMetrics`, `RemoveExternalMetrics` |
| AddExternalInstances, RemoveExternalInstances | `Get`, `AddExternalInstances`, `RemoveExternalInstances` |
| an error, a target the server cannot reach, a kill | `Fail` |

external:service writes a job of one static configuration, also over a job that it found
(`ServiceJob`, external.go:166-190); the others write back what they read, with entries added
or left out. How entries are grouped into static configurations, and an entry given twice, make no
difference to any command and are left out.

### How ClientConfig, DbUser and Client correspond to the code

`yml` is `pmm.yml`, and `conf[p]` the copy of it that a process reads when it starts and
writes back as a whole. In Consul there are `catalog[n][s]`, the names (tags) of the services
of type `s` under the client name `n`, `address[n]`, and `keys`, those of queries services,
each with the UUID of an instance. `qan` is the name QAN has of an instance and `files` that in
the instance's file. `agent` and `units[s]` are the credentials in `agent.conf` and those that
the process of a unit has loaded. A name is `[of, rest]`: the client name it contains, if any,
and what comes after it, since it is only with that that the two ways of renaming, by equality
and by `strings.Replace`, differ. In the databases there are `account` (the password of each
account of `pmm`), `schema`, and of what was added `dsn` and `stats`.

| Code | Actions |
|---|---|
| LoadConfig, the server's options | `BeginConfig` (`Load`, `ServerOptions`) |
| first client name, with `--force` and its repair | `InitialName`, `NameTaken`, `Repair`, `RepairFails` |
| change of the client name | `CheckTarget`, `CheckSource`, `DropNode`, `InvalidName` |
| renameClientNameInServices | `RegisterNew`, `DeregisterOld`, `ListKeys`, `GetKey`, `PutKey`, `DeleteKey`; `RegisterFails`, `GetFails`, `CallFails` |
| renameInstance, updateInstance | `UpdateInstance`, `WriteInstance` |
| addresses | `FirstAddress`, `NotDetected`, `KeepAddress`, `ChangeAddress`, `SetBind` |
| syncAgentConfig, restarts of the agents, writeConfig, restart of all | `SyncAgent`, `RestartAgent`, `WriteConfig`, `RestartEach` |
| Init of the plugins | `CheckFlags`, `Access`, `NoAccess`, `GetInfo`, then `CheckUser`, `GrantUser`, `Granted`, `Verify` or, with sudo, `CheckSudo`, `GrantSudo`, `VerifySudo` |
| AddMetrics and AddQueries after Init | `CountTables`, `Store`, `CheckDuplicate`, `Install` |
| RemoveAllMonitoring | `BeginRemoveAll`, `RemoveService`, `NotRemovable`, `ClearPassword` |
| check (MySQL) looks for the accounts; a `SHOW GRANTS` that fails counts as an account that does not exist (mysql.go:178) | `CheckUser`; `CheckBlind`, for a command that was given as `blind` |
| an error that ends the command, a kill | `Fail`, `FailAdd` |

What `Monitoring` and `Queries` have in steps of their own (installation, removal, repair) is
one step here. `Ready` lets a command begin only when no other runs on the client: the code
does not enforce it, and what two at a time do to `pmm.yml` is under "Not modelled". MySQL
picks the account of the host, or else the one of every host (`Picked`). Fresh passwords are
numbers: twenty random characters do not repeat (`EnoughPasswords`: there are more of them than
accounts, `pmm.yml` and data source names can hold). An instance gets the UUID of its name, or
another one if that is taken (`NewInstance`); an add for which `UUIDs` has none left is beyond
the bound and does not happen (`Unknown(s) # {}`).

## Runs

All runs have `linux` (not Multiple, no keys) and/or `mysql` (Multiple, keys) as plugins.
These two differ in every way the code distinguishes metrics plugins.

- **monitoring_solo** - one host and every command in any order, up to two faults of the
  kinds "exit" and "ignored". Port ranges overlap (linux 1..2, mysql 2..3) as the code's
  overlap, and `--service-port=2` aims into the overlap; there are two names, so that a
  client fills its ports, a name moves to another port, and a stale unit meets a new name.
  Two faults are enough to break a command and then break the repair. Checks the types;
  `ServicesDistinct`, `UnitServesAlias`, `NoStrayExporter`; that success messages are true
  (`AddIsTrue`, `RemoveIsTrue`, `RemoveAllIsTrue`, `RepairIsTrue`); `AddsOnlyWhenSettled`,
  `RepairSparesRegistered` and the refinement `Registry`.
- **monitoring_hosts** - two hosts with a name each, running at the same time, and one
  fault of the kinds "exit" and "read". `SettledWhenIdle`: with no fault nothing is left
  half done. `UninstallIsTrue`: uninstall leaves nothing even when the server cannot be
  read. `Terminates`: every command ends. `RepairHeals`: a repair after the last fault
  runs to its end and settles the client. One plugin, one name and one port per host keep
  the product of the two hosts small; the interleavings are all there.
- **monitoring_shared** - three hosts, two with one client name, taking turns
  (`MaxActive` = 1). `FoundAtAddress`: the address check keeps every service findable at
  the address of its node. `AliasGloballyUnique`: a type and name exists once among all
  clients.
- **monitoring_race** (violation) - `AliasGloballyUnique` with two adds at the same time:
  both hosts pass `Catalog().Service(...)` before either registers. `pmm.go:472` and `488`
  promise a globally unique name.
- **monitoring_repair** (violation) - `RepairSparesRegistered` with one failed read:
  `pmm.go:615` returns all local services as orphaned and `repair` uninstalls the exporters
  of registered services.

- **queries_names** - one type, two names, three faults of every kind but "read" ("exit", "ignored",
  loss of QAN's data or of all of the server's, a reinstalled client). `TagsIndependent`:
  commands on one name write the shared tags without touching another's;
  `InstancesUnique`: no database gets a second instance under one agent, whatever was
  broken off; `RemoveIsTrue`, `RemoveAllIsTrue`: what is reported removed is gone;
  `RepairIsTrue`: a repair that succeeds leaves a unit for every service and a service for every unit.
- **queries_types** - two types that share the agent, three faults, misread catalogs ("read")
  among them. `AddIsTrue`:
  "now monitoring" means registered, with a key to a live instance of an agent the server
  knows, which runs and collects; `AddKeepsCollecting`: registerAgent wipes the
  directories of all databases, but only when the server knows none of their instances;
  `SettledWhenIdle`.
- **queries_lost** - losses, misread catalogs, and commands broken off, under fairness. `AddSucceeds`: after
  the last fault the first database of a type can be added, through the registration of a
  new agent if need be; `Terminates`; `KeysLast`: the key that tells an instance is dropped
  only after the instance is deleted.
- **queries_race** (violation) - `AddAppends`: two adds of one type at the same time on one
  host; the second registration drops the tag of the first (`queries.go:164`).
- **queries_stuck** (violation) - `Removable`: after an add broken off between `Register`
  and `PutKeys` (or a remove between `DeleteTree` and `Retag`) the name is registered
  without its UUID. It can be neither removed nor added, and repair does not see it.

- **external_shared** - two clients, one job, entries on two addresses (one with two labels),
  parameters given or not. `JobsHaveTargets`: no job is left empty, whoever takes the last
  entry. `KeepsOthers`: an entry leaves the job only by a command that names it (or removes the
  whole job), by one that read the job before the entry came (`CameLater`), or by external:service on
  a job that it found (`Replaces`). `ParamsNeedForce`: a parameter changes only with `--force`, or by a
  command that read the job before another changed it. Two processes are every interleaving of
  one reader and one writer.
- **client_life** - any three commands in a row (config with eight requests, add with ten,
  remove --all), or any two of which one is broken off or meets an error that is collected or
  ignored, or a query that fails (`Bounded`, a CONSTRAINT; no liveness is checked under it), on a client that was never
  configured, possibly with the services of a lost installation under its name, or a configured
  one. Three commands are enough for set up, rename, use, and for add, add again, empty; two for
  a failure and a retry. Three client names:
  the host's, another, and one that NameRegex refuses. A database is named after the client,
  with a suffix, or on its own. `NothingLost`: a rename loses no service and no instance,
  wherever it stops. `ConfigIsTrue`: after "OK" all that was registered when renaming began is
  under the new name, the names of queries services lead to their instances (those of MySQL by
  that name in QAN and in the agent's file), and what runs has loaded the credentials of
  `pmm.yml`. It does not say that nothing is registered under another name: services of a lost
  installation, or of a client that was renamed by hand, stay where they are.
  `AddressAgrees`. `ForceOnly`: no account's password changes without `--force`, but by a command for
  which `SHOW GRANTS` may fail (`Unchecked`); one of the ten adds is such a command, and differs from
  another in nothing else. `StoredWorks`: the password in `pmm.yml` is an account's.
  `AddIsTrue`: what is reported as added is registered and installed, has a data source name that
  opens the database, unless a later service of the same command may change the password
  (`Overtaken`), and has table statistics as the limit demands (1200 tables, limit 1000). `Halt` is the end of the
  history at the bound, so that any other state without a step is a deadlock.

What the queries runs do not claim: an add that fails after `CreateInstance` leaves a live
instance that no key names. If a repair is killed between `Purge` and `PurgeKeys`, and the
re-add of one of its databases between `Register` and `PutKeys`, a remove finds the old
key and leaves the new instance; so `RemoveIsTrue` speaks of the instance of the key.

With "read" faults some further promises are void, for the same reason: on a client
without units the preflight passes with an unreadable catalog, so an add may run although
registrations are missing locally, and `remove --all` reports "no services found". The
solo run and queries_names therefore have no "read" faults; queries_types and queries_lost, whose
claims do not depend on what the catalog was taken for, have them. Keys whose service is gone (a kill between
Deregister and DeleteTree) are never cleaned up by `repair`, so no property says so.

Bounds, all constants: `MaxAgents` and `MaxCopies` (one more agent than faults can
require, one more copy than the code makes), `MaxFaults` (faults per behaviour), `MaxActive` (processes at a
time), `PortRange` (1000 in the code; two ports already reach the skipped port, the last
port and the error), the numbers of names, ports and hosts above.

**Fairness.** `FairSpec` adds weak fairness of `Step(p)` for every process: a process that
was started goes on, because every call it makes returns or times out (HTTP and context
timeouts; the service manager's commands). Nothing is assumed of users, who may never
start a command, nor of faults.

`CHECK_DEADLOCK` is on: an idle process may always begin a command.

## Theorems

`Monitoring_proofs`, for all values of the constants that satisfy `MonitoringConstants`:

- `TypeCorrect`: `Spec => []TypeOK`. `TypeOK` is not inductive: that a chosen port lies in
  `Ports` needs that the job has its port wherever it is used as a service (`PortKnown`)
  and that the search stays inside the plugin's range (`InRange`). `TypeInv` adds both.
- `DistinctServices`: `Exclusive => (Spec => []ServicesDistinct)`.
- `UnitsServeAliases`: `Exclusive => (Spec => []UnitServesAlias)`.
- `ImplementsRegistry`: `Exclusive => (Spec => Registry)`, the refinement.

`Exclusive` is a condition on the constants: one pmm-admin process at a time per host and
a client name of its own per host. The code enforces neither, and without it the checks
before `Register` can be overtaken (the race run shows it between hosts). Faults of every
kind, including misread catalogs, are covered.

The argument is one inductive invariant, `IInv`: the types, the two properties, and for
every process what it still knows from its earlier reads (`Knows`). At `check` its listing
of units is current; during an add every unit has a registration of the same type and
port (the preflight established it, and nobody else works on this host); from `port` on no
registration has the job's type and name; at `register` the port is free; up to `install`
the job is registered. So `Register` adds a service that is distinct and has no unit yet
(a unit on its port would have a registration there), and `InstallUnit` installs a unit
whose only matching registration is the job itself. A unit left behind by a failed
removal keeps its port in disuse, because the preflight stops every add until `repair`.
Steps that add nothing are handled together (`ShrinkStep`, `QuietStep`), and a step of one
process leaves what others know alone (`OthersKnow`), which is where `Exclusive` is used.

`Settled_proofs` and `Answers_proofs`, on the same constants. `OnePerHost` is the first half of
`Exclusive` alone: hosts may share a client name. `CatalogRead` is `"read" \notin FaultKinds`: an
error of `Catalog.Node` is never taken for an empty catalog. All other faults are covered.

- `ExportersHaveUnits`: `OnePerHost => (Spec => []NoStrayExporter)`, and `NothingLeft`:
  `OnePerHost => (Spec => []UninstallIsTrue)`.
- `OnlySettledClientsGrow`, `RepairSparesServices`, `RepairsSettle`, `AllRemoved`:
  `Exclusive /\ CatalogRead` implies `AddsOnlyWhenSettled`, `RepairSparesRegistered`,
  `[]RepairIsTrue` and `[]RemoveAllIsTrue`.
- `AddsAreTrue`, `RemovesAreTrue`: the same condition implies `[]AddIsTrue` and `[]RemoveIsTrue`.

Misread catalogs are excluded for a reason: the repair run finds one that makes repair uninstall
every healthy unit, and `RepairSparesServices` says that this is the only way it can happen.

The argument starts from `Path`, which commands come by which locations: without it nothing is
known of the process that reaches `uninstall`. On it stand invariants about what a command has
still to do. `Halted`: between the halt of an exporter and the removal of its unit it does not
run. `Uninstalls`: in the last loop every unit is still in the list or is the one in hand.
`Adds`: registrations and units agree up to `register`, and differ by the job alone until its
unit is installed. `Repairs`: what is in `todo` serves no registration, every other unit does, and
every registration without a unit is in `missing`; that units and registrations which match
are equal is `UnitServesAlias` again. `Removals`: what is registered is still in the snapshot
or in hand. For the answers, `Line` ties the plugin in hand to its place in the bundle; `AddedSoFar`
says that every plugin before it is there, `RemovedSoFar` that nothing of them is left; and
`KeysOn` that what is registered and installed has its keys, since keys are only deleted
of a service that is no longer registered (`KeysOfJob`).

`Faultless_proofs`: `NothingHalfDone`, `Exclusive => (Spec => []SettledWhenIdle)`. The invariant says
of every location between two writes what the client looks like there (`Half`), and what lies
ahead of the command in hand (`Ahead`): that the unit it installs is not there, the one it
starts or removes is, that a repair finds nothing to do and the last loop of Uninstall nothing
left, so that no step of the way can be refused.

The same module has the two theorems about hosts that share a client name, which hold when
pmm-admin runs in one place at a time. `InTurn` is that condition on the constants: `MaxActive` is
1 and `Procs`, whose busy members `Begin` counts, is finite. The race run shows that the first needs it.

- `NamesAreGlobal`: `InTurn => (Spec => []AliasGloballyUnique)`, whatever fails. From it follows
  that one process at most is busy (`Alone`), so that a name found free stays free up to its
  registration (`NameFree`).
- `FoundWhereRegistered`: `InTurn => (Spec => []FoundAtAddress)`. `Found` has the property in every
  state, but for the service in hand between `register` and `install` (`Pending`); `Named` says
  that the address of a client is a host of that name. Besides it takes that an add which gets
  past the address check has all registered services on its own host, that no unit is
  in its way (`Prepared`), that a unit which is uninstalled serves no registration (`Spared`), and
  that the last loop of Uninstall starts with none left (`Emptied`). `Emptied` needs `NamesAreGlobal`:
  the service that is found by type and name is the one of the snapshot. Like the
  property, these claims end with the first fault.

`Queries_proofs`, for all values of the constants that satisfy `QueriesConstants`:

- `QueriesTypeCorrect`: `Spec => []TypeOK`, which contains that a process has the instance of
  its own database wherever it uses one.
- `OthersKeepTheirTags`: `OneAtATime => (Spec => TagsIndependent)`. `OneAtATime` is again a
  condition on the constants, one pmm-admin process; the race run shows that it is needed.
  The invariant behind it is `SeenIsCurrent`: from the read of the service up to the write
  the tags in memory are those in Consul.
- `QueriesRemoved`, `QueriesAdded`: `OneAtATime` implies `[]RemoveIsTrue` and `[]AddIsTrue`, whatever
  fails, is misread, ignored or lost before and during the command that reports success.
- `QueriesAllRemoved`, `QueriesRepaired`: `OneAtATime /\ CatalogRead` implies `[]RemoveAllIsTrue` and
  `[]RepairIsTrue`. `CatalogRead` is `"read" \notin FaultKinds`, as in `Settled_proofs`: with a misread catalog
  both are false of the code (pmm.go:361-363 and 614-617). All other faults are covered.
- `OneInstanceEach`, `OthersKeepCollecting`: the same condition implies `[]InstancesUnique` and
  `AddKeepsCollecting`.
- `QueriesSettle`: `OneAtATime /\ Procs # {}` implies `[]SettledWhenIdle`. With no process at all
  nothing happens, but the invariant, which speaks of processes, says nothing either.
- `KeysGoLast`: `OneAtATime /\ "ignored" \notin FaultKinds` implies `KeysLast`. An error that repair or
  uninstall ignores is excluded because it drops the key of an instance that is still there.

They share `Paths`, which command comes by which location; it is the only place where
`QueriesConstants` is asked which commands there are. `PInv` says what a removal or a repair has
done: tool, instance, key and tag have gone in this order (`Removed`), units and services agree
but for the type between its last tag and its unit (`Settled`), the names that are left are in the
loop (`Left`), and what repair has not mended is in its lists (`Repairs`). `CInv` does the same for
an add (`Adds`), over four facts about places (`Places`): instances belong to agents that QAN
knows, tools and files to the agent of `agent.conf`, what runs has a unit, and instances are
unique. `OthersKeepCollecting` follows from them, since registerAgent only runs when that agent is
unknown. `Even` is for `SettledWhenIdle`: it says of every location what Consul, QAN and the agent have
of the database in hand, while every other one is `Kept` in all three or in none; no step can then
be refused, so no command stops half way. `KInv` says that a database has one key (`OneKey`) and
which instances must be gone before it is dropped (`Dropping`).

`External_proofs`, for all values of the constants that satisfy `ExternalConstants`, with any
number of concurrent processes: `ExternalTypeCorrect`, `NoEmptyJob` (`Spec => []JobsHaveTargets`),
`OthersKeepTheirEntries` (`Spec => KeepsOthers`) and `ParametersNeedForce`
(`Spec => ParamsNeedForce`). `JobsHaveTargets` is not inductive: a
command that adds must have been given an entry (`Asked`); for the entries, what a command writes
back is what it read, but for those it names; and for the parameters, what
external:service found when it read the job must still hold when it writes (`Checked`).

`Client_proofs` and, on it, `Life_proofs`, for all values of the constants that satisfy
`ConfigConstants`, `DbConstants` and `EnoughPasswords`, any number of processes that take turns,
and commands and faults of any number. In `Client_proofs`:

- `AccountsNeedForce`: `Spec => ForceOnly`. The accounts are looked at once, in `check`, and then
  changed one statement at a time, with failures in between. The invariant: only one process
  is busy (`Alone`, from `Ready`), and what is left of its plan names no account twice and,
  unless the command is `Unchecked`, only accounts that do not exist (`Respects`). Every step is shown either to
  leave accounts and plans alone or to be one of those that check and grant.
- `ClientTypeCorrect`: `Spec => []TypeOK`; the ones below are of this form too.
- `AddressesAgree`: `AddressAgrees`.
- `StoredPasswordWorks`: `StoredWorks`.

and in `Life_proofs`:

- `AddedWorks`: `AddIsTrue`.
- `ConfigurationTrue`: `ConfigIsTrue`.

There is one invariant to each, which uses those before it and `Alone`.
`Typed` adds to the types what a location says of the variables that are in use there: that a
command which renames has two names, that the list of services left is not empty, that a
password was generated. `AInv` says what the command under way knows of `pmm.yml` and of Consul:
up to `write` the copy it read is still the file, and under the name that it will write there is
no installed service at another address. It is what makes the check of `SetConfig` for registered
services (config.go:203) enough, although the same command may just have renamed the client.
`SInv` follows the last password that was given to an account from `createUser` to `pmm.yml`;
`StoredWorks` speaks of idle clients only, and between the statement and `Store` it does not
hold. `BInv` says of what the command has added so far that it is there and opens the database.
It needs that a later plugin of the bundle meets a user that exists (`Taken`), so that nothing
but `--force` or a failed `SHOW GRANTS` changes the password under the one before; what is
then left of the claim is everything but the password (`Overtaken`).

`ConfigIsTrue` needs two. `KInv` describes the renaming at every call between two writes: which
names of the service in hand have their key still under the old client name and which already
under the new (`Halfway`), that no two keys have one path or, but for the moment between put and
delete, one instance (`Paths`, `Owners`), and that QAN and the agent's files have the name of every
key but the one in hand (`Right`, `Filed`). From the renaming of `Plain` names, by equality in the
tags and by replacement in the keys, the two results are shown to be the same set; for
other names they are not, which is the defect listed below. `KInv` is
stated while `faults = 0`: one that is broken off leaves a key or a tag behind, and
`ConfigIsTrue` claims the names only until then. `RInv` holds whatever fails: what has been
visited without an error is registered under the new name (`Arrived`), and of each unit that has
been restarted, that it has loaded what `write` puts into `pmm.yml` (`Reloads`).

Only model-checked: `NothingLost` of `Client`, and liveness (`Terminates`, `RepairHeals`,
`AddSucceeds`), which is out of the prover's reach.

## Found without a run

What the models say of the code without a run of its own, each visible in the definitions
named.  Some are at odds with what the code or its help says, which they quote:

- `add mysql --create-user`, the help's own example (pmm-admin.go:289 and 302), ends with an error
  at its second service on a server without the user: mysql:metrics creates it, mysql:queries
  finds that it exists (mysql.go:130; `Taken`).
- The user that sudo creates in a local PostgreSQL is not the one that is tested next: "use that
  connection" (postgresql.go:115 and 122). Where nobody could log in before, the command is
  refused and the new password stored nowhere (`VerifySudo`).
- After a rename of client `n1` a database `n1-x` keeps its tag, but its key is moved to `n2-x`
  (config.go:397 and 343): it can never be removed (pmm-admin.go:984; `NewKey`).
- external:instances "adds targets to existing scrape job" (external.go:231), but writes back the
  job it read: of two clients that add at a time one loses its targets (`AddExternalInstances`;
  `KeepsOthers` allows it by `CameLater`).
- The check of `--create-user-password` is inverted (mysql.go:41, postgresql.go:81): it refuses
  the flag together with `--create-user` and accepts it without (`CheckFlags`).
- `add mysql --create-user --force` creates the user twice and leaves mysql:metrics with the
  password of the first time, which no longer works (`AddIsTrue` excepts it by `Overtaken`).
- An error of `SHOW GRANTS` is taken for an account that does not exist (mysql.go:178; `CheckBlind`),
  which is then altered without `--force` (`ForceOnly` excepts it by `Unchecked`).
- When the catalog cannot be read, `remove --all` prints "OK, no services found." and repair, for
  queries as for metrics, uninstalls every unit and reports success (`ReadError`).
- external:service, which the help says adds "to new or existing scrape job" (pmm-admin.go:677),
  replaces all targets of a job that exists by its own (`ServiceJob`; `KeepsOthers` excepts it by
  `Replaces`).
- A rename whose later options are refused (name, address, bind address) leaves the services
  under the new name and the old one in `pmm.yml`; the retry is refused because the new name
  has services, and `repair` would uninstall every healthy unit (`InvalidName`, `SetBind`).
- A service whose registration under the new name fails is dropped with the old node
  (`RegisterFails`, `DropNode`); the error is only logged.
- The instance of mongodb:queries keeps the old client name in QAN (`GetKey`).
- The removal of a target that is not there reports success (`RemoveExternalInstances`).
- The number of tables is cut to 16 bits (`TooManyTables`), and the help says that statistics are
  disabled above 10000 tables where the default limit is 1000.
- remove --all on a client without services returns before it forgets the password
  (`BeginRemoveAll`).

## Not modelled

- The version check: a pure comparison; a fatal verdict is a `Fail` at the start of a command.
- list, info, ping, check-network, summary, annotate, purge: they read and print, or send one
  request, and change nothing another command reads.
- `pmm/utils`, the transports and the output.
- The certificate that config and the exporters share; the detection of data source names
  from `my.cnf` and sockets; the checks for a read-only server and for a replica, which end a
  command the way `Taken` does.
- The external commands' host part of an address (`config` of a new bind address leaves targets
  of external:service at the old one).
- Two pmm-admin at a time on one client in `Client`. Nothing in the code keeps them apart: each
  writes all of `pmm.yml` from the copy it read, and each may create the account the other has
  just found free. `Monitoring` and `Queries` do run processes of one host concurrently.

## What further work would add

1. `NothingLost` as a theorem. Its half about UUIDs depends on the names: two that `Replaced`
   makes equal (`n1` and `n2` in a rename from one to the other) share a path, and the key of one
   overwrites that of the other.
2. Two processes in `Client`.
