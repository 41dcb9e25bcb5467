---------------------------- MODULE Answers_proofs ----------------------------
(***************************************************************************)
(* Proofs that the answers of add and remove in Monitoring are true: that  *)
(* every service of a bundle is there, with its keys, when add answers OK, *)
(* and that none is left when remove does.                                 *)
(***************************************************************************)
EXTENDS Settled_proofs

-----------------------------------------------------------------------------
(* The bundle on the command line, and what of it is still to come *)

Bundled(p) == pc[p] # "idle" /\ arg[p].cmd \in {"add", "remove"}

\* The place in the bundle of the plugin that p works on.
Current(p) == Len(arg[p].types) - Len(rest[p])

Line(p) ==
  Bundled(p) =>
    /\ arg[p].types \in Seq(Types) /\ rest[p] \in Seq(Types)
    /\ Current(p) \in 1 .. Len(arg[p].types)
    /\ pc[p] \in {"list", "check"} => Current(p) = 1
    /\ \A i \in 1 .. Len(rest[p]) : rest[p][i] = arg[p].types[Current(p) + i]
    /\ job[p].type = arg[p].types[Current(p)] /\ job[p].alias = arg[p].alias

LineInv == PathInv /\ \A p \in Procs : Line(p)

LEMMA BeginLine ==
  ASSUME PathInv, NEW p \in Procs, Begin(p)
  PROVE  Line(p)'
<1>1. PICK a \in Invocation :
        /\ arg' = [arg EXCEPT ![p] = a]
        /\ IF a.cmd \in OnType
           THEN /\ job' = [job EXCEPT ![p] = [type |-> Head(a.types), port |-> 0, alias |-> a.alias]]
                /\ rest' = [rest EXCEPT ![p] = Tail(a.types)]
           ELSE UNCHANGED << job, rest >>
  BY DEF Begin
<1>2. a.types \in Seq(Types) /\ a.types # << >> BY Defaults
<1>3. arg'[p] = a BY <1>1 DEF PathInv, TypeInv, MemoryOK
<1>4. CASE a.cmd \notin {"add", "remove"} BY <1>3, <1>4 DEF Line, Bundled
<1>5. CASE a.cmd \in {"add", "remove"}
  <2>1. /\ job'[p] = [type |-> Head(a.types), port |-> 0, alias |-> a.alias]
        /\ rest'[p] = Tail(a.types)
    BY <1>1, <1>5 DEF OnType, PathInv, TypeInv, MemoryOK
  <2>2. /\ Len(a.types) \in Nat /\ Len(a.types) > 0 /\ Head(a.types) = a.types[1]
        /\ Tail(a.types) \in Seq(Types) /\ Len(Tail(a.types)) = Len(a.types) - 1
        /\ \A i \in 1 .. Len(Tail(a.types)) : Tail(a.types)[i] = a.types[i + 1]
    BY <1>2
  <2>3. Current(p)' = 1 BY <1>3, <2>1, <2>2 DEF Current
  <2> QED BY <1>2, <1>3, <2>1, <2>2, <2>3 DEF Line
<1> QED BY <1>4, <1>5

LEMMA NextTypeLine ==
  ASSUME PathInv, NEW p \in Procs, Line(p), Bundled(p), NextType(p), pc[p] \notin {"list", "check"}
  PROVE  /\ Line(p)'
         /\ rest[p] = << >> => Current(p) = Len(arg[p].types) /\ pc'[p] = "done"
         /\ rest[p] # << >> => Current(p)' = Current(p) + 1 /\ pc'[p] = "lookup"
<1>0. TypeInv BY DEF PathInv
<1>1. CASE rest[p] = << >>
  <2>1. /\ pc'[p] = "done" /\ arg'[p] = arg[p] /\ job'[p] = job[p] /\ rest'[p] = rest[p]
    BY <1>0, <1>1 DEF NextType, Goto, memory, TypeInv, MemoryOK
  <2>2. Len(rest[p]) = 0 /\ Len(arg[p].types) \in Nat BY <1>1 DEF Line
  <2>3. Line(p)' BY <2>1 DEF Line, Bundled, Current
  <2>4. Current(p) = Len(arg[p].types) BY <2>2 DEF Current
  <2> QED BY <1>1, <2>1, <2>3, <2>4
<1>2. CASE rest[p] # << >>
  <2>1. /\ pc'[p] = "lookup" /\ arg'[p] = arg[p] /\ rest'[p] = Tail(rest[p])
        /\ job'[p].type = Head(rest[p]) /\ job'[p].alias = job[p].alias
    BY <1>0, <1>2 DEF NextType, Goto, TypeInv, MemoryOK
  <2>2. /\ rest[p] \in Seq(Types) /\ arg[p].types \in Seq(Types)
        /\ Current(p) \in 1 .. Len(arg[p].types)
        /\ \A i \in 1 .. Len(rest[p]) : rest[p][i] = arg[p].types[Current(p) + i]
        /\ job[p].alias = arg[p].alias
    BY DEF Line
  <2>3. /\ Len(rest[p]) \in Nat \ {0} /\ Head(rest[p]) = rest[p][1]
        /\ Tail(rest[p]) \in Seq(Types) /\ Len(Tail(rest[p])) = Len(rest[p]) - 1
        /\ \A i \in 1 .. Len(Tail(rest[p])) : Tail(rest[p])[i] = rest[p][i + 1]
    BY <1>2, <2>2
  <2>4. Len(arg[p].types) \in Nat BY <2>2
  <2>5. Current(p)' = Current(p) + 1 /\ Current(p)' \in 1 .. Len(arg[p].types)
    <3>1. Len(rest'[p]) = Len(Tail(rest[p])) /\ Len(arg'[p].types) = Len(arg[p].types)
      BY <2>1, Zenon
    <3>2. Current(p)' = Len(arg[p].types) - (Len(rest[p]) - 1)
      BY <2>3, <3>1 DEF Current
    <3>3. Current(p) = Len(arg[p].types) - Len(rest[p]) BY DEF Current
    <3>4. Len(rest[p]) \in Nat \ {0} BY <2>3
    <3>5. Current(p) \in Nat \ {0} BY <2>2, <2>4
    <3>6. Current(p)' = Current(p) + 1 BY <2>4, <3>2, <3>3, <3>4
    <3>7. \A l \in Nat, r, c \in Nat \ {0} : c = l - r => c + 1 \in 1 .. l OBVIOUS
    <3>8. Current(p) + 1 \in 1 .. Len(arg[p].types) BY <2>4, <3>3, <3>4, <3>5, <3>7, Zenon
    <3> QED BY <3>6, <3>8
  <2>6. job'[p].type = arg[p].types[Current(p)'] BY <2>1, <2>2, <2>3, <2>5
  <2>7. ASSUME NEW i \in 1 .. Len(Tail(rest[p]))
        PROVE  Tail(rest[p])[i] = arg[p].types[Current(p)' + i]
    <3>1. i + 1 \in 1 .. Len(rest[p]) BY <2>3
    <3>2. Current(p) + (i + 1) = Current(p)' + i BY <2>2, <2>4, <2>5
    <3> QED BY <2>2, <2>3, <3>1, <3>2
  <2>8. Line(p)' BY <2>1, <2>2, <2>3, <2>5, <2>6, <2>7 DEF Line
  <2> QED BY <1>2, <2>1, <2>5, <2>8
<1> QED BY <1>1, <1>2

\* Every other step of an add or a remove stays with its plugin.
LEMMA StayLine ==
  ASSUME PathInv, NEW p \in Procs, Line(p), Bundled(p),
         Step(p) \/ Fail(p) \/ IgnoredError(p) \/ ReadError(p), ~ Exit(p), ~ NextType(p)
  PROVE  /\ arg'[p] = arg[p] /\ rest'[p] = rest[p]
         /\ job'[p].type = job[p].type /\ job'[p].alias = job[p].alias
         /\ pc'[p] = "check" => At(p, "list")
         /\ pc'[p] # "list" /\ Line(p)'
<1>0. TypeInv /\ Path(p) /\ arg[p].cmd \in {"add", "remove"} /\ pc[p] # "idle"
  BY DEF PathInv, Bundled
<1>1. \/ ListUnits(p) \/ CheckInstallation(p) \/ AddLookup(p) \/ CheckClient(p) \/ CheckUnique(p)
      \/ ChoosePort(p) \/ Register(p) \/ PutKeys(p) \/ InstallUnit(p) \/ StartUnit(p)
      \/ FindService(p) \/ Deregister(p) \/ DeleteTree(p) \/ HaltUnit(p, "halt", "uninstall")
      \/ UninstallUnit(p) \/ IgnoredError(p) \/ (ReadError(p) /\ At(p, "check"))
  BY <1>0
  DEF Step, Fail, ReadError, Finish, Snapshot, RemoveEach, Sweep, HaltUnit, SweepUnit, Purge,
      PurgeKeys, Switch, Restart, SwitchEach, RestartEach, Path, At, Switching, OnUnits
<1>2. ~ AfterRemove(p) \/ arg[p].cmd # "remove" BY DEF AfterRemove
<1>3. ~ RemoveFails(p) \/ arg[p].cmd # "remove" BY <1>2 DEF RemoveFails
<1>4. /\ arg'[p] = arg[p] /\ rest'[p] = rest[p]
      /\ job'[p].type = job[p].type /\ job'[p].alias = job[p].alias
      /\ pc'[p] \notin {"idle", "list"} /\ (pc'[p] = "check" => At(p, "list"))
  <2>1. CASE ListUnits(p)
    BY <1>0, <2>1 DEF ListUnits, Goto, At, TypeInv, MemoryOK, OnUnits
  <2>2. CASE CheckInstallation(p) \/ (ReadError(p) /\ At(p, "check"))
    <3>1. PICK orphans, lost : Verdict(p, orphans, lost)
      BY <2>2 DEF CheckInstallation, ReadError, At
    <3> QED BY <1>0, <3>1 DEF Verdict, Goto, TypeInv, MemoryOK
  <2>3. CASE AddLookup(p) \/ CheckClient(p) \/ CheckUnique(p) \/ ChoosePort(p)
    BY <1>0, <2>3 DEF AddLookup, CheckClient, CheckUnique, ChoosePort, Goto, At, memory,
                      WithPort, TypeInv, MemoryOK
  <2>4. CASE Register(p) \/ PutKeys(p) \/ InstallUnit(p) \/ StartUnit(p)
    BY <1>0, <2>4 DEF Register, PutKeys, InstallUnit, StartUnit, Goto, At, memory, TypeInv, MemoryOK
  <2>5. CASE FindService(p)
    <3>1. PICK s \in Matches(Registered(p), job[p].type, job[p].alias) :
            /\ job'[p] = s /\ pc'[p] \in {"act", "deregister"}
            /\ UNCHANGED << arg, rest >>
      BY <1>0, <1>3, <2>5 DEF FindService, Goto, TypeInv, MemoryOK
    <3> QED BY <3>1 DEF Matches
  <2>6. CASE Deregister(p) \/ DeleteTree(p) \/ HaltUnit(p, "halt", "uninstall")
    BY <1>0, <2>6 DEF Deregister, DeleteTree, HaltUnit, Goto, memory, TypeInv, MemoryOK
  <2>7. CASE UninstallUnit(p)
    <3>1. arg[p].cmd = "remove" BY <1>0, <2>7 DEF UninstallUnit, Path, At
    <3> QED BY <1>2, <1>3, <2>7, <3>1 DEF UninstallUnit
  <2>8. CASE IgnoredError(p)
    BY <1>0, <1>2, <2>8 DEF IgnoredError, Tolerant, Path, At, OnUnits
  <2> QED BY <1>1, <2>1, <2>2, <2>3, <2>4, <2>5, <2>6, <2>7, <2>8
<1>5. Line(p)' BY <1>4 DEF Line, Bundled, Current, At
<1> QED BY <1>4, <1>5

LEMMA MoveLine ==
  ASSUME LineInv, NEW p \in Procs,
         Begin(p) \/ Step(p) \/ Fail(p) \/ IgnoredError(p) \/ ReadError(p)
  PROVE  Line(p)'
<1>0. TypeInv /\ PathInv /\ Line(p) BY DEF LineInv, PathInv
<1>1. CASE Begin(p) BY <1>0, <1>1, BeginLine
<1>2. CASE Exit(p) BY <1>0, <1>2, ExitPath DEF Line, Bundled
<1>3. CASE ~ Begin(p) /\ ~ Exit(p) /\ ~ Bundled(p)
  <2>1. arg'[p] = arg[p] BY <1>3, ArgKept
  <2>2. pc[p] # "idle"
    BY <1>3 DEF Step, Fail, IgnoredError, ReadError, Finish, ListUnits, CheckInstallation,
         AddLookup, CheckClient, CheckUnique, ChoosePort, Register, PutKeys, InstallUnit,
         StartUnit, FindService, Deregister, DeleteTree, HaltUnit, UninstallUnit, Snapshot,
         RemoveEach, Sweep, SweepUnit, Purge, PurgeKeys, Switch, Restart, SwitchEach,
         RestartEach, At
  <2> QED BY <1>3, <2>1, <2>2 DEF Line, Bundled
<1>4. CASE ~ Begin(p) /\ ~ Exit(p) /\ Bundled(p) /\ NextType(p)
  <2>1. ASSUME pc[p] \in {"list", "check"} PROVE FALSE
    <3>1. CASE ListUnits(p)
      BY <1>0, <1>4, <3>1, NextTypePath DEF ListUnits, Goto, TypeInv, MemoryOK, Bundled, OnUnits
    <3>2. CASE ~ ListUnits(p)
      <4>1. PICK orphans, lost : Verdict(p, orphans, lost)
        BY <1>4, <2>1, <3>2
        DEF Step, Fail, IgnoredError, ReadError, Finish, CheckInstallation, AddLookup, CheckClient,
            CheckUnique, ChoosePort, Register, PutKeys, InstallUnit, StartUnit, FindService,
            Deregister, DeleteTree, HaltUnit, UninstallUnit, Snapshot, RemoveEach, Sweep,
            SweepUnit, Purge, PurgeKeys, Switch, Restart, SwitchEach, RestartEach, At
      <4>2. pc'[p] # "done" /\ rest' = rest
        BY <1>0, <1>4, <4>1 DEF Verdict, Goto, TypeInv, MemoryOK
      <4>3. rest[p] # << >> /\ rest[p] = Tail(rest[p])
        BY <1>0, <1>4, <4>2 DEF NextType, Goto, TypeInv, MemoryOK
      <4>4. rest[p] \in Seq(Types) BY <1>0 DEF TypeInv, MemoryOK
      <4>5. Len(Tail(rest[p])) = Len(rest[p]) - 1 /\ Len(rest[p]) \in Nat BY <4>3, <4>4
      <4>6. Len(Tail(rest[p])) = Len(rest[p]) BY <4>3, Zenon
      <4> QED BY <4>5, <4>6
    <3> QED BY <3>1, <3>2
  <2> QED BY <1>0, <1>4, <2>1, NextTypeLine
<1> QED BY <1>0, <1>1, <1>2, <1>3, <1>4, StayLine

-----------------------------------------------------------------------------
(* The keys of what is registered and installed *)

\* What a process knows of keys: those of the unit it is about to install are there, and
\* those it is about to delete are of no service.
KeysOfJob(p) ==
  /\ At(p, "install") /\ job[p].type \in HasKV => ID(job[p]) \in kv[Client(p)]
  /\ pc[p] \in {"deltree", "purgekv"} => ~ Serves(job[p], Registered(p))

KeysOn(h) ==
  \A s \in catalog[ClientName[h]] \cap local[h] :
    s.type \in HasKV => ID(s) \in kv[ClientName[h]]

KeysInv == SoundInv /\ (\A h \in Hosts : KeysOn(h)) /\ \A p \in Procs : KeysOfJob(p)

\* A step of p leaves the keys of other clients alone.
LEMMA OwnKeys ==
  ASSUME TypeInv, NEW p \in Procs,
         Begin(p) \/ Step(p) \/ Fail(p) \/ IgnoredError(p) \/ ReadError(p)
  PROVE  \A n \in ClientNames \ {Client(p)} : kv'[n] = kv[n]
<1>1. Client(p) \in ClientNames BY Places
<1>2. UNCHANGED kv \/ \E S : kv' = [kv EXCEPT ![Client(p)] = S]
  BY DEF Begin, Step, Fail, IgnoredError, ReadError, Finish, ListUnits, CheckInstallation,
         AddLookup, CheckClient, CheckUnique, ChoosePort, Register, PutKeys, InstallUnit,
         StartUnit, FindService, Deregister, DeleteTree, HaltUnit, UninstallUnit, Snapshot,
         RemoveEach, Sweep, SweepUnit, Purge, PurgeKeys, Switch, Restart, SwitchEach,
         RestartEach, world
<1> QED BY <1>1, <1>2 DEF TypeInv, WorldOK

\* The steps that write neither the catalog, nor keys, nor units.
LEMMA QuietKeys ==
  ASSUME KeysInv, NEW p \in Procs, catalog' = catalog, kv' = kv, local' = local,
         pc'[p] \notin {"install", "deltree", "purgekv"}
  PROVE  KeysOn(Host(p))' /\ KeysOfJob(p)'
<1>1. Host(p) \in Hosts BY MonitoringConstants DEF Host
<1> QED BY <1>1 DEF KeysInv, KeysOn, KeysOfJob, At, Host

LEMMA AddKeys ==
  ASSUME KeysInv, NEW p \in Procs, Register(p) \/ PutKeys(p) \/ InstallUnit(p)
  PROVE  KeysOn(Host(p))' /\ KeysOfJob(p)'
<1>0. /\ TypeInv /\ Adds(p) /\ Knows(p) /\ KeysOn(Host(p)) /\ KeysOfJob(p)
      /\ Client(p) \in ClientNames /\ Host(p) \in Hosts /\ Client(p) = ClientName[Host(p)]
  BY Places DEF KeysInv, SoundInv, PathInv, IInv, Sound, Client, Host
<1>1. CASE Register(p)
  <2>1. /\ \A s \in Registered(p) : s.port # job[p].port
        /\ Registered(p) = Installed(p)
    BY <1>0, <1>1 DEF Register, Knows, Available, Adds, At
  <2>2. /\ catalog'[Client(p)] = Without(catalog[Client(p)], job[p]) \cup {job[p]}
        /\ local' = local /\ kv' = kv /\ job' = job
        /\ pc'[p] = (IF job[p].type \in HasKV THEN "kv" ELSE "install")
    BY <1>0, <1>1 DEF Register, Goto, memory, TypeInv, WorldOK, MemoryOK
  <2>3. job[p] \notin local[Host(p)] BY <2>1 DEF Registered, Installed
  <2>4. KeysOn(Host(p))' BY <1>0, <2>2, <2>3 DEF KeysOn, Without, Host
  <2> QED BY <2>2, <2>4 DEF KeysOfJob, At
<1>2. CASE PutKeys(p)
  <2>1. /\ kv'[Client(p)] = kv[Client(p)] \cup {ID(job[p])} /\ pc'[p] = "install"
        /\ catalog' = catalog /\ local' = local /\ job' = job
    BY <1>0, <1>2 DEF PutKeys, Goto, memory, TypeInv, WorldOK, MemoryOK
  <2> QED BY <1>0, <2>1 DEF KeysOn, KeysOfJob, At, Host, Client
<1>3. CASE InstallUnit(p)
  <2>1. catalog' = catalog /\ kv' = kv /\ At(p, "install") BY <1>3 DEF InstallUnit
  <2>2. pc'[p] \in {"idle", "start"}
    BY <1>0, <1>3, ExitPath, GotoPath DEF InstallUnit, Locations
  <2>3. local'[Host(p)] \in {local[Host(p)], local[Host(p)] \cup {job[p]}}
    BY <1>0, <1>3 DEF InstallUnit, TypeInv, WorldOK
  <2>4. KeysOn(Host(p))' BY <1>0, <2>1, <2>3 DEF KeysOn, KeysOfJob, Host
  <2> QED BY <2>2, <2>4 DEF KeysOfJob, At
<1> QED BY <1>1, <1>2, <1>3

LEMMA RemoveKeys ==
  ASSUME KeysInv, NEW p \in Procs,
         \/ Deregister(p) \/ DeleteTree(p) \/ UninstallUnit(p) \/ SweepUnit(p)
         \/ Purge(p) \/ PurgeKeys(p)
  PROVE  KeysOn(Host(p))' /\ KeysOfJob(p)'
<1>0. /\ TypeInv /\ Path(p) /\ KeysOn(Host(p)) /\ KeysOfJob(p)
      /\ Client(p) \in ClientNames /\ Host(p) \in Hosts /\ Client(p) = ClientName[Host(p)]
  BY Places DEF KeysInv, SoundInv, PathInv, Client, Host
<1>1. CASE Deregister(p)
  <2>1. /\ catalog'[Client(p)] = Without(catalog[Client(p)], job[p])
        /\ local' = local /\ kv' = kv /\ job' = job /\ pc'[p] = "deltree"
    BY <1>0, <1>1 DEF Deregister, Goto, memory, TypeInv, WorldOK, MemoryOK
  <2>2. KeysOn(Host(p))' BY <1>0, <2>1 DEF KeysOn, Without, Host
  <2> QED BY <2>1, <2>2 DEF KeysOfJob, At, Serves, Without, SameID, Registered, Client
<1>2. CASE DeleteTree(p) \/ PurgeKeys(p)
  <2>1. /\ kv'[Client(p)] = kv[Client(p)] \ {ID(job[p])} /\ pc'[p] \in {"halt", "purge"}
        /\ catalog' = catalog /\ local' = local /\ pc[p] \in {"deltree", "purgekv"}
    BY <1>0, <1>2 DEF DeleteTree, PurgeKeys, At, Goto, TypeInv, WorldOK, MemoryOK
  <2>2. \A s \in Registered(p) : ID(s) # ID(job[p])
    BY <1>0, <2>1, SameIDs DEF KeysOfJob, Serves
  <2> QED BY <1>0, <2>1, <2>2 DEF KeysOn, KeysOfJob, At, Registered, Client, Host
<1>3. CASE UninstallUnit(p) \/ SweepUnit(p)
  <2>1. catalog' = catalog /\ kv' = kv /\ local'[Host(p)] \subseteq local[Host(p)]
    BY <1>0, <1>3 DEF UninstallUnit, SweepUnit, Without, TypeInv, WorldOK
  <2>2. pc'[p] \notin {"install", "deltree", "purgekv"}
    <3>1. CASE UninstallUnit(p)
      BY <1>0, <3>1, AfterRemovePath DEF UninstallUnit, Path, At
    <3>2. CASE SweepUnit(p)
      BY <1>0, <3>2, ExitPath, GotoPath DEF SweepUnit, Locations
    <3> QED BY <1>3, <3>1, <3>2
  <2> QED BY <1>0, <2>1, <2>2 DEF KeysOn, KeysOfJob, At, Host
<1>4. CASE Purge(p)
  <2>1. local' = local /\ kv' = kv BY <1>4 DEF Purge
  <2>2. CASE catalog' = catalog /\ pc'[p] = "done"
    BY <1>0, <2>1, <2>2 DEF KeysOn, KeysOfJob, At, Host
  <2>3. CASE ~ (catalog' = catalog /\ pc'[p] = "done")
    <3>1. PICK s : /\ catalog'[Client(p)] = Without(catalog[Client(p)], s)
                   /\ job'[p] = s /\ pc'[p] = "purgekv"
      BY <1>0, <1>4, <2>3 DEF Purge, Goto, TypeInv, WorldOK, MemoryOK
    <3>2. KeysOn(Host(p))' BY <1>0, <2>1, <3>1 DEF KeysOn, Without, Host
    <3> QED BY <3>1, <3>2 DEF KeysOfJob, At, Serves, Without, SameID, Registered, Client
  <2> QED BY <2>2, <2>3
<1> QED BY <1>1, <1>2, <1>3, <1>4

LEMMA MoveKeys ==
  ASSUME KeysInv, NEW p \in Procs,
         Begin(p) \/ Step(p) \/ Fail(p) \/ IgnoredError(p) \/ ReadError(p)
  PROVE  KeysOn(Host(p))' /\ KeysOfJob(p)'
<1>0. TypeInv /\ Path(p) BY DEF KeysInv, SoundInv, PathInv
<1>1. CASE Register(p) \/ PutKeys(p) \/ InstallUnit(p) BY <1>1, AddKeys
<1>2. CASE \/ Deregister(p) \/ DeleteTree(p) \/ UninstallUnit(p) \/ SweepUnit(p)
           \/ Purge(p) \/ PurgeKeys(p)
  BY <1>2, RemoveKeys
<1>3. CASE ~ (\/ Register(p) \/ PutKeys(p) \/ InstallUnit(p) \/ Deregister(p) \/ DeleteTree(p)
              \/ UninstallUnit(p) \/ SweepUnit(p) \/ Purge(p) \/ PurgeKeys(p))
  <2>1. catalog' = catalog /\ kv' = kv /\ local' = local
    BY <1>3
    DEF Begin, Step, Fail, IgnoredError, ReadError, Finish, ListUnits, CheckInstallation,
        AddLookup, CheckClient, CheckUnique, ChoosePort, StartUnit, FindService, HaltUnit,
        Snapshot, RemoveEach, Sweep, Switch, Restart, SwitchEach, RestartEach, world
  <2>2. pc'[p] \notin {"install", "deltree", "purgekv"}
    <3>1. CASE Exit(p) BY <1>0, <3>1, ExitPath
    <3>2. CASE NextType(p) BY <1>0, <3>2, NextTypePath
    <3>3. CASE Begin(p) BY <3>3, BeginPath DEF KeysInv, SoundInv
    <3>4. CASE /\ arg[p].cmd \in {"remove", "removeall", "uninstall"}
               /\ AfterRemove(p) \/ RemoveFails(p)
      BY <1>0, <3>4, AfterRemovePath
    <3>5. CASE CheckInstallation(p) \/ (ReadError(p) /\ At(p, "check"))
      BY <1>0, <3>5, VerdictPath DEF CheckInstallation, ReadError, At
    <3>6. CASE FindService(p) /\ ~ Exit(p) /\ ~ RemoveFails(p)
      BY <1>0, <3>6 DEF FindService, Goto, TypeInv, MemoryOK
    <3>7. CASE FindService(p) /\ RemoveFails(p) /\ ~ Exit(p)
      <4>1. CASE arg[p].cmd \in Switching
        BY <1>0, <3>7, <4>1 DEF FindService, Switching, Goto, TypeInv, MemoryOK
      <4>2. CASE arg[p].cmd \notin Switching
        BY <1>0, <3>4, <3>7, <4>2 DEF FindService, Path
      <4> QED BY <4>1, <4>2
    <3>8. CASE IgnoredError(p) /\ ~ (Tolerant(p) /\ AfterRemove(p))
      BY <1>0, <3>8 DEF IgnoredError, Goto, At, TypeInv, MemoryOK
    <3>9. CASE IgnoredError(p) /\ Tolerant(p) /\ AfterRemove(p)
      BY <3>4, <3>9 DEF Tolerant
    <3>10. CASE /\ ~ Exit(p)
                /\ \/ ListUnits(p) \/ (AddLookup(p) /\ ~ NextType(p)) \/ CheckClient(p)
                   \/ CheckUnique(p) \/ ChoosePort(p)
                   \/ HaltUnit(p, "halt", "uninstall") \/ HaltUnit(p, "sweephalt", "sweepunit")
                   \/ Snapshot(p) \/ RemoveEach(p) \/ Sweep(p)
                   \/ Switch(p) \/ Restart(p) \/ SwitchEach(p) \/ RestartEach(p)
                   \/ (ReadError(p) /\ ~ At(p, "check"))
      BY <1>0, <3>10
      DEF ListUnits, AddLookup, CheckClient, CheckUnique, ChoosePort, HaltUnit, Snapshot,
          RemoveEach, AfterEach, Sweep, AfterSweep, Switch, Restart, SwitchEach, RestartEach,
          ReadError, Goto, At, memory, TypeInv, MemoryOK
    <3>11. CASE Finish(p) \/ Fail(p) BY <3>1, <3>11 DEF Finish, Fail
    <3>12. CASE StartUnit(p) BY <3>1, <3>2, <3>12 DEF StartUnit
    <3> QED
      BY <1>3, <3>1, <3>2, <3>3, <3>5, <3>6, <3>7, <3>8, <3>9, <3>10, <3>11, <3>12 DEF Step
  <2> QED BY <2>1, <2>2, QuietKeys
<1> QED BY <1>1, <1>2, <1>3

-----------------------------------------------------------------------------
(* What an add has reached *)

Has(p, t) ==
  \E s \in Registered(p) \cap Installed(p) :
    s.type = t /\ (t \in Multiple => s.alias = arg[p].alias)

Listed(p, n) == \A i \in 1 .. n : Has(p, arg[p].types[i])

AddedSoFar(p) ==
  arg[p].cmd = "add" =>
    /\ pc[p] \in {"lookup"} \cup Adding => Listed(p, Current(p) - 1)
    /\ At(p, "start") => job[p] \in Installed(p)
    /\ At(p, "done") => Listed(p, Len(arg[p].types))

\* What a remove has left.
Gone(p, n) ==
  \A i \in 1 .. n : Matches(Registered(p), arg[p].types[i], arg[p].alias) = {}

NoneSkipped(p) == Len(arg[p].types) > 1 => faults = 0

RemovedSoFar(p) ==
  arg[p].cmd = "remove" /\ NoneSkipped(p) =>
    /\ pc[p] \in {"lookup", "deregister"} =>
         Registered(p) = Installed(p) /\ Gone(p, Current(p) - 1)
    /\ At(p, "deregister") => job[p] \in Registered(p)
    /\ pc[p] \in {"deltree", "halt", "uninstall"} =>
         /\ Installed(p) = Registered(p) \cup {job[p]}
         /\ ~ Serves(job[p], Registered(p)) /\ Gone(p, Current(p))
    /\ At(p, "done") => Registered(p) = Installed(p) /\ Gone(p, Len(arg[p].types))

Answers(p) == AddedSoFar(p) /\ RemovedSoFar(p)

AnswerInv == LineInv /\ KeysInv /\ \A p \in Procs : Answers(p)

LEMMA Counted ==
  ASSUME NEW p \in Procs, Line(p), Bundled(p)
  PROVE  /\ Len(arg[p].types) \in Nat /\ Current(p) \in Nat
         /\ 1 .. Current(p) = (1 .. (Current(p) - 1)) \cup {Current(p)}
<1>1. Len(arg[p].types) \in Nat BY DEF Line
<1>2. \A l, c \in Nat : c \in 1 .. l => 1 .. c = (1 .. (c - 1)) \cup {c} OBVIOUS
<1>3. Current(p) \in 1 .. Len(arg[p].types) BY DEF Line
<1>4. Current(p) \in Nat BY <1>1, <1>3
<1> QED BY <1>1, <1>2, <1>3, <1>4, Zenon

\* The plugin p works on is done: the next one, or the end.
LEMMA NextTypeAdded ==
  ASSUME AnswerInv, NEW p \in Procs, arg[p].cmd = "add", NextType(p),
         pc[p] \in {"lookup", "start"}, Has(p, job[p].type), catalog' = catalog, local' = local
  PROVE  Answers(p)'
<1>0. /\ TypeInv /\ PathInv /\ Line(p) /\ Bundled(p) /\ AddedSoFar(p)
  BY DEF AnswerInv, LineInv, PathInv, Answers, Bundled
<1>1. /\ rest[p] = << >> => Current(p) = Len(arg[p].types) /\ pc'[p] = "done"
      /\ rest[p] # << >> => Current(p)' = Current(p) + 1 /\ pc'[p] = "lookup"
  BY <1>0, NextTypeLine
<1>2. arg'[p] = arg[p] BY <1>0, NextTypePath
<1>3. Registered(p)' = Registered(p) /\ Installed(p)' = Installed(p) BY WorldKept
<1>4. Listed(p, Current(p))
  <2>1. Listed(p, Current(p) - 1) BY <1>0 DEF AddedSoFar, Adding
  <2>2. Has(p, arg[p].types[Current(p)]) BY <1>0 DEF Line
  <2> QED BY <1>0, <2>1, <2>2, Counted, Zenon DEF Listed
<1>5. \A n : Listed(p, n) => Listed(p, n)' BY <1>2, <1>3 DEF Listed, Has
<1>6. CASE rest[p] = << >> BY <1>1, <1>2, <1>4, <1>5, <1>6 DEF Answers, AddedSoFar, RemovedSoFar, At, Adding
<1>7. CASE rest[p] # << >>
  <2>1. Current(p)' - 1 = Current(p) BY <1>0, <1>1, <1>7, Counted
  <2>2. Listed(p, Current(p)' - 1) BY <1>4, <2>1
  <2> QED BY <1>1, <1>2, <1>5, <1>7, <2>2 DEF Answers, AddedSoFar, RemovedSoFar, At, Adding
<1> QED BY <1>6, <1>7

\* An add only adds, and what it found stays.
LEMMA AddAnswers ==
  ASSUME AnswerInv, NEW p \in Procs,
         \/ AddLookup(p) \/ CheckClient(p) \/ CheckUnique(p) \/ ChoosePort(p)
         \/ Register(p) \/ PutKeys(p) \/ InstallUnit(p) \/ StartUnit(p)
  PROVE  Answers(p)'
<1>0. /\ TypeInv /\ PathInv /\ Path(p) /\ Knows(p) /\ Adds(p) /\ Line(p) /\ AddedSoFar(p)
      /\ Client(p) \in ClientNames /\ Host(p) \in Hosts
  BY Places DEF AnswerInv, LineInv, PathInv, KeysInv, SoundInv, IInv, Sound, Answers
<1>1. arg[p].cmd = "add" /\ Bundled(p) /\ Step(p)
  BY <1>0 DEF Path, AddLookup, CheckClient, CheckUnique, ChoosePort, Register, PutKeys,
              InstallUnit, StartUnit, At, Adding, Bundled, Step
<1>2. CASE Exit(p) BY <1>0, <1>2, ExitPath DEF Answers, AddedSoFar, RemovedSoFar, At, Adding
<1>3. CASE AddLookup(p) /\ Duplicates(p) # {} /\ ~ Exit(p)
  <2>1. NextType(p) /\ At(p, "lookup") /\ catalog' = catalog /\ local' = local
    BY <1>3 DEF AddLookup, world
  <2>2. PICK s \in Registered(p) : s.type = job[p].type /\ (s.type \in Multiple => s.alias = job[p].alias)
    BY <1>3 DEF Duplicates
  <2>3. Registered(p) = Installed(p) BY <1>0, <1>1, <2>1 DEF Adds, At
  <2>4. Has(p, job[p].type) BY <1>0, <1>1, <2>2, <2>3 DEF Has, Line
  <2> QED BY <1>1, <2>1, <2>4, NextTypeAdded DEF At
<1>4. CASE StartUnit(p) /\ ~ Exit(p)
  <2>1. NextType(p) /\ At(p, "start") /\ catalog' = catalog /\ local' = local
    BY <1>4 DEF StartUnit
  <2>2. job[p] \in Installed(p) /\ Registered(p) = Installed(p)
    BY <1>0, <1>1, <2>1 DEF Adds, AddedSoFar, At
  <2>3. Has(p, job[p].type) BY <1>0, <1>1, <2>2 DEF Has, Line
  <2> QED BY <1>1, <2>1, <2>3, NextTypeAdded DEF At
<1>5. CASE /\ ~ Exit(p) /\ ~ StartUnit(p) /\ ~ (AddLookup(p) /\ Duplicates(p) # {})
  <2>1. /\ pc'[p] \in Adding /\ ~ NextType(p)
        /\ pc'[p] = "start" => InstallUnit(p)
    BY <1>0, <1>5
    DEF AddLookup, CheckClient, CheckUnique, ChoosePort, Register, PutKeys, InstallUnit,
        NextType, Goto, At, memory, TypeInv, MemoryOK, Adding
  <2>2. arg'[p] = arg[p] /\ rest'[p] = rest[p] BY <1>0, <1>1, <1>5, <2>1, StayLine
  <2>3. Current(p)' = Current(p) BY <2>2 DEF Current
  <2>4. Registered(p) \subseteq Registered(p)' /\ Installed(p) \subseteq Installed(p)'
    <3>1. CASE Register(p)
      <4>1. \A s \in Registered(p) : s.port # job[p].port
        BY <1>0, <3>1 DEF Register, Knows, Available
      <4>2. /\ Registered(p)' = Without(Registered(p), job[p]) \cup {job[p]}
            /\ Installed(p)' = Installed(p)
        BY <1>0, <3>1 DEF Register, Registered, Installed, Client, Host, TypeInv, WorldOK
      <4> QED BY <4>1, <4>2 DEF Without, SameID
    <3>2. CASE InstallUnit(p)
      BY <1>0, <3>2 DEF InstallUnit, Registered, Installed, Client, Host, TypeInv, WorldOK
    <3>3. CASE ~ Register(p) /\ ~ InstallUnit(p)
      BY <1>5, <3>3, WorldKept DEF AddLookup, CheckClient, CheckUnique, ChoosePort, PutKeys, world
    <3> QED BY <3>1, <3>2, <3>3
  <2>5. Listed(p, Current(p) - 1)
    BY <1>0, <1>1
    DEF AddedSoFar, AddLookup, CheckClient, CheckUnique, ChoosePort, Register, PutKeys,
        InstallUnit, StartUnit, At, Adding
  <2>6. Listed(p, Current(p) - 1)' BY <2>2, <2>3, <2>4, <2>5 DEF Listed, Has
  <2>7. pc'[p] = "start" => (job[p] \in Installed(p))'
    BY <1>0, <1>5, <2>1
    DEF InstallUnit, Installed, Host, memory, TypeInv, WorldOK
  <2> QED BY <1>1, <2>1, <2>2, <2>6, <2>7 DEF Answers, AddedSoFar, RemovedSoFar, At, Adding
<1> QED BY <1>2, <1>3, <1>4, <1>5

LEMMA NextTypeRemoved ==
  ASSUME AnswerInv, NEW p \in Procs, arg[p].cmd = "remove", NextType(p),
         pc[p] \in {"lookup", "uninstall"},
         NoneSkipped(p) => Registered(p)' = Installed(p)' /\ Gone(p, Current(p)),
         catalog' = catalog, faults' = faults
  PROVE  Answers(p)'
<1>0. /\ TypeInv /\ PathInv /\ Line(p) /\ Bundled(p)
  BY DEF AnswerInv, LineInv, PathInv, Bundled
<1>1. /\ rest[p] = << >> => Current(p) = Len(arg[p].types) /\ pc'[p] = "done"
      /\ rest[p] # << >> => Current(p)' = Current(p) + 1 /\ pc'[p] = "lookup"
  BY <1>0, NextTypeLine
<1>2. arg'[p] = arg[p] /\ Registered(p)' = Registered(p)
  BY <1>0, NextTypePath DEF Registered, Client
<1>3. NoneSkipped(p)' => NoneSkipped(p) BY <1>2 DEF NoneSkipped
<1>4. \A n : Gone(p, n) => Gone(p, n)' BY <1>2 DEF Gone
<1>5. CASE rest[p] = << >>
  BY <1>1, <1>2, <1>3, <1>4, <1>5 DEF Answers, AddedSoFar, RemovedSoFar, At
<1>6. CASE rest[p] # << >>
  <2>1. Current(p)' - 1 = Current(p) BY <1>0, <1>1, <1>6, Counted
  <2> QED BY <1>1, <1>2, <1>3, <1>4, <1>6, <2>1 DEF Answers, AddedSoFar, RemovedSoFar, At
<1> QED BY <1>5, <1>6

LEMMA StayedAnswers ==
  ASSUME NEW p \in Procs, arg'[p] = arg[p], rest'[p] = rest[p]
  PROVE  /\ Current(p)' = Current(p)
         /\ Registered(p)' \subseteq Registered(p) => \A n : Gone(p, n) => Gone(p, n)'
BY DEF Current, Gone, Matches

\* One service leaves Consul, then the host, before the next is looked up.
LEMMA RemoveAnswers ==
  ASSUME AnswerInv, NEW p \in Procs, arg[p].cmd = "remove",
         \/ FindService(p) \/ Deregister(p) \/ DeleteTree(p)
         \/ HaltUnit(p, "halt", "uninstall") \/ UninstallUnit(p)
  PROVE  Answers(p)'
<1>0. /\ TypeInv /\ PathInv /\ Path(p) /\ ServicesDistinct /\ Line(p) /\ RemovedSoFar(p)
      /\ Client(p) \in ClientNames /\ Host(p) \in Hosts
  BY Places DEF AnswerInv, LineInv, PathInv, KeysInv, SoundInv, IInv, Answers
<1>1. Bundled(p) /\ Step(p) /\ pc[p] \notin {"list", "check"}
  BY <1>0 DEF FindService, Deregister, DeleteTree, HaltUnit, UninstallUnit, At, Bundled, Step
<1>2. CASE Exit(p) BY <1>0, <1>2, ExitPath DEF Answers, AddedSoFar, RemovedSoFar, At, Adding
<1>3. \A s, u \in Registered(p) : s.port = u.port \/ (s.type = u.type /\ s.alias = u.alias) => s = u
  BY <1>0 DEF ServicesDistinct, Registered
<1>4. Current(p) \in Nat /\ 1 .. Current(p) = (1 .. (Current(p) - 1)) \cup {Current(p)}
  BY <1>0, <1>1, Counted
<1>5. ASSUME Gone(p, Current(p) - 1),
             Matches(Registered(p), job[p].type, job[p].alias) = {}
      PROVE  Gone(p, Current(p))
  <2>1. job[p].type = arg[p].types[Current(p)] /\ job[p].alias = arg[p].alias
    BY <1>0, <1>1 DEF Line
  <2> QED BY <1>4, <1>5, <2>1, Zenon DEF Gone
<1>6. CASE FindService(p) /\ ~ Exit(p)
           /\ Matches(Registered(p), job[p].type, job[p].alias) = {}
  <2>1. /\ NextType(p) /\ At(p, "lookup") /\ catalog' = catalog /\ local' = local
        /\ faults' = faults
    BY <1>6 DEF FindService, RemoveFails, AfterRemove, world
  <2>2. NoneSkipped(p) => Registered(p)' = Installed(p)' /\ Gone(p, Current(p))
    BY <1>0, <1>5, <1>6, <2>1, WorldKept DEF RemovedSoFar, At
  <2> QED BY <2>1, <2>2, NextTypeRemoved DEF At
<1>7. CASE UninstallUnit(p) /\ ~ Exit(p)
  <2>1. /\ NextType(p) /\ At(p, "uninstall") /\ catalog' = catalog /\ faults' = faults
    BY <1>7 DEF UninstallUnit, RemoveFails, AfterRemove
  <2>2. ASSUME NoneSkipped(p) PROVE Registered(p)' = Installed(p)' /\ Gone(p, Current(p))
    <3>1. /\ Installed(p) = Registered(p) \cup {job[p]}
          /\ ~ Serves(job[p], Registered(p)) /\ Gone(p, Current(p))
      BY <1>0, <2>1, <2>2 DEF RemovedSoFar, At
    <3>2. SameID(job[p], job[p]) BY DEF SameID
    <3>3. Installed(p)' = Without(Installed(p), job[p]) /\ Registered(p)' = Registered(p)
      BY <1>0, <1>7, <2>1, <3>1, <3>2
      DEF UninstallUnit, Installed, Registered, Client, Host, TypeInv, WorldOK
    <3>4. Without(Installed(p), job[p]) = Registered(p)
      BY <3>1 DEF Without, Serves, SameID
    <3> QED BY <3>1, <3>3, <3>4
  <2> QED BY <2>1, <2>2, NextTypeRemoved DEF At
<1>8. CASE /\ ~ Exit(p) /\ FindService(p)
           /\ Matches(Registered(p), job[p].type, job[p].alias) # {}
  <2>1. PICK s \in Matches(Registered(p), job[p].type, job[p].alias) :
          job'[p] = s /\ pc'[p] = "deregister"
    BY <1>0, <1>8 DEF FindService, Goto, TypeInv, MemoryOK
  <2>2. ~ NextType(p) BY <1>0, <2>1, NextTypePath
  <2>3. arg'[p] = arg[p] /\ rest'[p] = rest[p] BY <1>0, <1>1, <1>8, <2>2, StayLine
  <2>4. /\ Registered(p)' = Registered(p) /\ Installed(p)' = Installed(p)
        /\ faults' = faults /\ At(p, "lookup")
    BY <1>8, WorldKept DEF FindService, world
  <2>5. s \in Registered(p) BY DEF Matches
  <2>6. \A n : Gone(p, n) => Gone(p, n)' BY <2>3, <2>4, StayedAnswers
  <2> QED
    BY <1>0, <2>1, <2>3, <2>4, <2>5, <2>6, StayedAnswers
    DEF Answers, AddedSoFar, RemovedSoFar, NoneSkipped, At
<1>9. CASE Deregister(p)
  <2>1. /\ At(p, "deregister") /\ pc'[p] = "deltree" /\ job'[p] = job[p]
        /\ Registered(p)' = Without(Registered(p), job[p]) /\ Installed(p)' = Installed(p)
        /\ faults' = faults
    BY <1>0, <1>9
    DEF Deregister, Goto, memory, Registered, Installed, Client, Host, TypeInv, WorldOK, MemoryOK
  <2>2. ~ NextType(p) /\ ~ Exit(p) BY <1>0, <2>1, NextTypePath, ExitPath
  <2>3. arg'[p] = arg[p] /\ rest'[p] = rest[p] BY <1>0, <1>1, <2>2, StayLine
  <2>4. ASSUME NoneSkipped(p) PROVE RemovedSoFar(p)'
    <3>1. Registered(p) = Installed(p) /\ Gone(p, Current(p) - 1) /\ job[p] \in Registered(p)
      BY <1>0, <2>1, <2>4 DEF RemovedSoFar, At
    <3>2. Registered(p)' = Registered(p) \ {job[p]}
      BY <1>3, <2>1, <3>1 DEF Without, SameID
    <3>3. \A s \in Registered(p) \ {job[p]} :
            ~ SameID(s, job[p]) /\ ~ (s.type = job[p].type /\ s.alias = job[p].alias)
      BY <1>3, <3>1 DEF SameID
    <3>4. Gone(p, Current(p) - 1)' BY <2>3, <3>1, <3>2, StayedAnswers DEF Gone
    <3>5. Gone(p, Current(p))'
      <4>1. job[p].type = arg[p].types[Current(p)] /\ job[p].alias = arg[p].alias
        BY <1>0, <1>1 DEF Line
      <4>2. Matches(Registered(p)', arg[p].types[Current(p)], arg[p].alias) = {}
        BY <3>2, <3>3, <4>1 DEF Matches
      <4>3. \A i \in 1 .. (Current(p) - 1) :
              Matches(Registered(p)', arg[p].types[i], arg[p].alias) = {}
        BY <2>3, <3>4, StayedAnswers DEF Gone
      <4>4. Current(p)' = Current(p) BY <2>3, StayedAnswers
      <4>5. \A i \in 1 .. Current(p) :
              Matches(Registered(p)', arg[p].types[i], arg[p].alias) = {}
        BY <1>4, <4>2, <4>3, Zenon
      <4> QED BY <2>3, <4>4, <4>5 DEF Gone
    <3>6. Installed(p)' = Registered(p)' \cup {job'[p]} BY <2>1, <3>1, <3>2
    <3>7. ~ Serves(job'[p], Registered(p)') BY <2>1, <3>2, <3>3 DEF Serves
    <3> QED BY <2>1, <3>5, <3>6, <3>7 DEF RemovedSoFar, At, Serves
  <2> QED BY <2>1, <2>3, <2>4 DEF Answers, AddedSoFar, RemovedSoFar, NoneSkipped
<1>10. CASE DeleteTree(p) \/ HaltUnit(p, "halt", "uninstall")
  <2>1. /\ pc[p] \in {"deltree", "halt"} /\ pc'[p] \in {"halt", "uninstall"}
        /\ job'[p] = job[p] /\ Registered(p)' = Registered(p) /\ Installed(p)' = Installed(p)
        /\ faults' = faults
    BY <1>0, <1>10, WorldKept DEF DeleteTree, HaltUnit, At, Goto, memory, TypeInv, MemoryOK
  <2>2. ~ NextType(p) /\ ~ Exit(p) BY <1>0, <2>1, NextTypePath, ExitPath
  <2>3. arg'[p] = arg[p] /\ rest'[p] = rest[p] BY <1>0, <1>1, <2>2, StayLine
  <2>4. \A n : Gone(p, n) => Gone(p, n)' BY <2>1, <2>3, StayedAnswers
  <2>5. Serves(job[p], Registered(p))' = Serves(job[p], Registered(p)) BY <2>1 DEF Serves
  <2> QED
    BY <1>0, <2>1, <2>3, <2>4, <2>5, StayedAnswers
    DEF Answers, AddedSoFar, RemovedSoFar, NoneSkipped, At
<1> QED BY <1>2, <1>6, <1>7, <1>8, <1>9, <1>10

\* The first plugin of the bundle follows a check that found both in agreement.
LEMMA PreflightAnswers ==
  ASSUME Exclusive, CatalogRead, AnswerInv, NEW p \in Procs,
         Begin(p) \/ Finish(p) \/ ListUnits(p) \/ CheckInstallation(p) \/ Fail(p) \/ ReadError(p)
  PROVE  Answers(p)'
<1>0. TypeInv /\ PathInv /\ Path(p) /\ Line(p)
  BY DEF AnswerInv, LineInv, PathInv
<1>1. CASE Begin(p)
  <2>1. pc'[p] \in {"list", "snapshot"} BY <1>0, <1>1, BeginPath
  <2> QED BY <2>1 DEF Answers, AddedSoFar, RemovedSoFar, At, Adding
<1>2. CASE Finish(p) \/ Fail(p)
  BY <1>0, <1>2, ExitPath DEF Finish, Fail, Answers, AddedSoFar, RemovedSoFar, At, Adding
<1>3. CASE ListUnits(p)
  <2>1. pc'[p] \in {"all", "sweep", "check"}
    BY <1>0, <1>3 DEF ListUnits, Goto, TypeInv, MemoryOK
  <2> QED BY <2>1 DEF Answers, AddedSoFar, RemovedSoFar, At, Adding
<1>4. CASE ReadError(p) BY <1>4 DEF CatalogRead, ReadError, Fault
<1>5. CASE CheckInstallation(p)
  <2>1. PICK orphans, lost : Verdict(p, orphans, lost) /\ At(p, "check") /\ UNCHANGED world
    BY <1>5 DEF CheckInstallation
  <2>2. /\ pc'[p] \in {"idle", "sweep", "snapshot", "lookup"}
        /\ pc'[p] = "lookup" => arg'[p] = arg[p] /\ rest'[p] = rest[p]
    BY <1>0, <2>1, ExitPath DEF Verdict, Goto, TypeInv, MemoryOK
  <2>3. CASE pc'[p] # "lookup"
    BY <2>2, <2>3 DEF Answers, AddedSoFar, RemovedSoFar, At, Adding
  <2>4. CASE pc'[p] = "lookup" /\ arg[p].cmd = "add"
    <3>1. Current(p)' = 1 BY <1>0, <2>1, <2>2, <2>4, StayedAnswers DEF Line, Bundled, At
    <3>2. Listed(p, Current(p) - 1)' BY <3>1 DEF Listed
    <3> QED BY <2>2, <2>4, <3>2 DEF Answers, AddedSoFar, RemovedSoFar, At, Adding
  <2>5. CASE pc'[p] = "lookup" /\ arg[p].cmd = "remove"
    <3>1. Current(p)' = 1 BY <1>0, <2>1, <2>2, <2>5, StayedAnswers DEF Line, Bundled, At
    <3>2. Gone(p, Current(p) - 1)' BY <3>1 DEF Gone
    <3>3. Registered(p)' = Installed(p)'
      <4>1. Sound(p)' BY <1>5, PreflightSound DEF AnswerInv, KeysInv
      <4>2. Orphans(Installed(p), Registered(p)) = {} /\ Missing(Installed(p), Registered(p)) = {}
        BY <1>0, <1>5, <2>2, <2>5
        DEF CheckInstallation, Verdict, Broken, Exit, Goto, TypeInv, MemoryOK, AnswerInv, KeysInv,
            SoundInv, IInv, Knows
      <4>3. Registered(p) = Installed(p)
        BY <4>2, MatchedSettled DEF Orphans, Missing, Serves, SameID, AnswerInv, KeysInv, SoundInv
      <4> QED BY <2>1, <4>3, WorldKept DEF world
    <3> QED BY <2>2, <2>5, <3>2, <3>3 DEF Answers, AddedSoFar, RemovedSoFar, At, Adding
  <2>6. CASE pc'[p] = "lookup" /\ arg[p].cmd \notin {"add", "remove"}
    BY <2>2, <2>6 DEF Answers, AddedSoFar, RemovedSoFar
  <2> QED BY <2>3, <2>4, <2>5, <2>6
<1> QED BY <1>1, <1>2, <1>3, <1>4, <1>5

LEMMA StepAnswers ==
  ASSUME Exclusive, CatalogRead, AnswerInv, NEW p \in Procs,
         Begin(p) \/ Step(p) \/ Fail(p) \/ IgnoredError(p) \/ ReadError(p)
  PROVE  Answers(p)'
<1>0. TypeInv /\ PathInv /\ Path(p) BY DEF AnswerInv, LineInv, PathInv
<1>1. CASE \/ Begin(p) \/ Finish(p) \/ ListUnits(p) \/ CheckInstallation(p) \/ Fail(p)
           \/ ReadError(p)
  BY <1>1, PreflightAnswers
<1>2. CASE \/ AddLookup(p) \/ CheckClient(p) \/ CheckUnique(p) \/ ChoosePort(p)
           \/ Register(p) \/ PutKeys(p) \/ InstallUnit(p) \/ StartUnit(p)
  BY <1>2, AddAnswers
<1>3. CASE /\ arg[p].cmd = "remove"
           /\ \/ FindService(p) \/ Deregister(p) \/ DeleteTree(p)
              \/ HaltUnit(p, "halt", "uninstall") \/ UninstallUnit(p)
  BY <1>3, RemoveAnswers
<1>4. CASE Exit(p) BY <1>0, <1>4, ExitPath DEF Answers, AddedSoFar, RemovedSoFar, At, Adding
<1>5. CASE arg'[p] = arg[p] /\ arg[p].cmd \notin {"add", "remove"}
  BY <1>5 DEF Answers, AddedSoFar, RemovedSoFar
<1>6. CASE IgnoredError(p) /\ arg[p].cmd \in {"add", "remove"} /\ arg'[p] = arg[p]
  <2>1. Tolerant(p)
    BY <1>0, <1>6 DEF IgnoredError, Path, At, OnUnits
  <2>2. arg[p].cmd = "remove" /\ Len(arg[p].types) > 1 BY <1>6, <2>1 DEF Tolerant
  <2>3. faults' # 0 BY <1>0, <1>6 DEF IgnoredError, Fault, TypeInv
  <2> QED BY <1>6, <2>2, <2>3 DEF Answers, AddedSoFar, RemovedSoFar, NoneSkipped
<1>7. Begin(p) \/ Exit(p) \/ arg'[p] = arg[p] BY ArgKept
<1>8. CASE Step(p) /\ arg[p].cmd \in {"add", "remove"}
  BY <1>0, <1>1, <1>2, <1>3, <1>8
  DEF Step, FindService, Deregister, DeleteTree, HaltUnit, UninstallUnit, Snapshot, RemoveEach,
      Sweep, SweepUnit, Purge, PurgeKeys, Switch, Restart, SwitchEach, RestartEach, Path, At,
      Switching, OnUnits
<1> QED BY <1>1, <1>4, <1>5, <1>6, <1>7, <1>8

LEMMA OthersAnswer ==
  ASSUME Exclusive, AnswerInv, NEW p \in Procs, NEW q \in Procs \ {p},
         Begin(p) \/ Step(p) \/ Fail(p) \/ IgnoredError(p) \/ ReadError(p)
  PROVE  Line(q)' /\ KeysOfJob(q)' /\ Answers(q)'
<1>0. /\ TypeInv /\ PathInv /\ Line(q) /\ KeysOfJob(q) /\ Answers(q) /\ Host(q) \in Hosts
  BY Places DEF AnswerInv, LineInv, PathInv, KeysInv
<1>1. Own(p) /\ OwnWorld(p) BY <1>0, MovePath
<1>2. rest'[q] = rest[q]
  BY <1>0
  DEF Begin, Step, Fail, IgnoredError, ReadError, Finish, Exit, ListUnits, CheckInstallation,
      Verdict, AddLookup, CheckClient, CheckUnique, ChoosePort, Register, PutKeys, InstallUnit,
      StartUnit, NextType, FindService, RemoveFails, AfterRemove, Deregister, DeleteTree,
      HaltUnit, UninstallUnit, Snapshot, RemoveEach, Sweep, SweepUnit, Purge, PurgeKeys, Switch,
      Restart, SwitchEach, RestartEach, memory, TypeInv, MemoryOK
<1>3. Client(q) \in ClientNames \ {Client(p)} /\ Host(q) \in Hosts \ {Host(p)}
  BY MonitoringConstants DEF Exclusive, Client, Host
<1>4. Registered(q)' = Registered(q) /\ Installed(q)' = Installed(q)
  BY <1>1, <1>3 DEF OwnWorld, Registered, Installed, Client, Host
<1>5. kv'[Client(q)] = kv[Client(q)] BY <1>0, <1>3, OwnKeys
<1>6. pc'[q] = pc[q] /\ arg'[q] = arg[q] /\ job'[q] = job[q] BY <1>1 DEF Own
<1>7. Line(q)' BY <1>0, <1>2, <1>6 DEF Line, Bundled, Current
<1>8. KeysOfJob(q)' BY <1>0, <1>4, <1>5, <1>6 DEF KeysOfJob, At, Serves, Client, Host
<1>9. Current(q)' = Current(q) BY <1>2, <1>6, StayedAnswers
<1>10. AddedSoFar(q)'
  BY <1>0, <1>4, <1>6, <1>9 DEF Answers, AddedSoFar, Listed, Has, At
<1>11. NoneSkipped(q)' => NoneSkipped(q)
  <2>1. faults \in Nat /\ faults' \in {faults, faults + 1}
    BY <1>0, MonitoringConstants, SMTT(30)
    DEF TypeInv, Begin, Step, Fail, IgnoredError, ReadError, Fault, Finish, ListUnits,
        CheckInstallation, AddLookup, CheckClient, CheckUnique, ChoosePort, Register, PutKeys,
        InstallUnit, StartUnit, FindService, Deregister, DeleteTree, HaltUnit, UninstallUnit,
        Snapshot, RemoveEach, Sweep, SweepUnit, Purge, PurgeKeys, Switch, Restart, SwitchEach,
        RestartEach
  <2> QED BY <1>6, <2>1 DEF NoneSkipped
<1>12. RemovedSoFar(q)'
  BY <1>0, <1>4, <1>6, <1>9, <1>11 DEF Answers, RemovedSoFar, Gone, Serves, At
<1> QED BY <1>7, <1>8, <1>10, <1>12 DEF Answers

LEMMA StepAnswerInv == Exclusive /\ CatalogRead /\ AnswerInv /\ [Next]_vars => AnswerInv'
<1> SUFFICES ASSUME Exclusive, CatalogRead, AnswerInv, [Next]_vars PROVE AnswerInv'
  OBVIOUS
<1>0. SoundInv' /\ PathInv' BY StepSoundInv DEF AnswerInv, KeysInv, SoundInv
<1>1. CASE UNCHANGED vars
  <2>1. /\ catalog' = catalog /\ local' = local /\ kv' = kv /\ pc' = pc /\ arg' = arg
        /\ job' = job /\ rest' = rest /\ faults' = faults
    BY <1>1 DEF vars, world, memory
  <2>2. \A h \in Hosts : KeysOn(h)' BY <2>1 DEF AnswerInv, KeysInv, KeysOn
  <2>3. ASSUME NEW p \in Procs PROVE Line(p)' /\ KeysOfJob(p)' /\ Answers(p)'
    <3>1. /\ Registered(p)' = Registered(p) /\ Installed(p)' = Installed(p)
          /\ Current(p)' = Current(p)
      BY <2>1, WorldKept DEF Current
    <3>2. Line(p)' BY <2>1 DEF AnswerInv, LineInv, Line, Bundled, Current
    <3>3. KeysOfJob(p)'
      BY <2>1, <3>1 DEF AnswerInv, KeysInv, KeysOfJob, At, Serves, Client, Host
    <3>4. AddedSoFar(p)'
      BY <2>1, <3>1 DEF AnswerInv, Answers, AddedSoFar, Listed, Has, At
    <3>5. RemovedSoFar(p)'
      BY <2>1, <3>1 DEF AnswerInv, Answers, RemovedSoFar, Gone, NoneSkipped, Serves, At
    <3> QED BY <3>2, <3>3, <3>4, <3>5 DEF Answers
  <2> QED BY <1>0, <2>2, <2>3 DEF AnswerInv, LineInv, KeysInv
<1>2. ASSUME NEW p \in Procs, Begin(p) \/ Step(p) \/ Fail(p) \/ IgnoredError(p) \/ ReadError(p)
      PROVE  AnswerInv'
  <2>0. TypeInv /\ PathInv /\ Host(p) \in Hosts BY Places DEF AnswerInv, LineInv, PathInv
  <2>1. Line(p)' /\ KeysOn(Host(p))' /\ KeysOfJob(p)' /\ Answers(p)'
    BY <1>2, MoveLine, MoveKeys, StepAnswers DEF AnswerInv
  <2>2. \A q \in Procs \ {p} : Line(q)' /\ KeysOfJob(q)' /\ Answers(q)'
    BY <1>2, OthersAnswer
  <2>3. ASSUME NEW h \in Hosts \ {Host(p)} PROVE KeysOn(h)'
    <3>1. ClientName[h] \in ClientNames \ {Client(p)}
      BY <2>0, MonitoringConstants DEF Exclusive, Client, Host
    <3>2. catalog'[ClientName[h]] = catalog[ClientName[h]] /\ local'[h] = local[h]
      BY <1>2, <2>0, <3>1, MovePath DEF OwnWorld
    <3>3. kv'[ClientName[h]] = kv[ClientName[h]] BY <1>2, <2>0, <3>1, OwnKeys
    <3> QED BY <3>2, <3>3 DEF AnswerInv, KeysInv, KeysOn
  <2> QED BY <1>0, <2>1, <2>2, <2>3 DEF AnswerInv, LineInv, KeysInv
<1> QED BY <1>1, <1>2 DEF Next

LEMMA InitAnswerInv == Init => AnswerInv
BY InitSoundInv, InitPath
DEF Init, AnswerInv, LineInv, Line, Bundled, KeysInv, KeysOn, KeysOfJob, Answers, AddedSoFar,
    RemovedSoFar, At, Adding

-----------------------------------------------------------------------------
\* "OK, now monitoring" is true of every plugin of the bundle at once, with its keys, when
\* the tool is used as it is meant to be: what an add finds or adds for one plugin, neither
\* the next plugins nor an error after it take away.
THEOREM AddsAreTrue == Exclusive /\ CatalogRead => (Spec => []AddIsTrue)
<1> SUFFICES ASSUME Exclusive, CatalogRead PROVE Spec => []AddIsTrue
  OBVIOUS
<1>1. AnswerInv /\ [Next]_vars => AnswerInv' BY StepAnswerInv
<1>2. AnswerInv => AddIsTrue
  <2> SUFFICES ASSUME AnswerInv, NEW p \in Procs, Succeeded(p, {"add"}),
                      NEW i \in 1 .. Len(arg[p].types)
               PROVE  \E s \in Registered(p) \cap Installed(p) :
                        /\ s.type = arg[p].types[i]
                        /\ s.type \in Multiple => s.alias = arg[p].alias
                        /\ s.type \in HasKV => ID(s) \in kv[Client(p)]
    BY DEF AddIsTrue
  <2>1. Has(p, arg[p].types[i])
    BY DEF AnswerInv, Answers, AddedSoFar, Listed, Succeeded, At
  <2>2. Host(p) \in Hosts BY MonitoringConstants DEF Host
  <2>3. \A s \in Registered(p) \cap Installed(p) : s.type \in HasKV => ID(s) \in kv[Client(p)]
    BY <2>2 DEF AnswerInv, KeysInv, KeysOn, Registered, Installed, Client, Host
  <2> QED BY <2>1, <2>3 DEF Has
<1> QED BY <1>1, <1>2, InitAnswerInv, PTL DEF Spec

\* "OK, removed" leaves nothing of that type and name, in Consul or on the host: what
\* FindService looks up by type and name is the only such service, and the unit it
\* uninstalls is that service's.
THEOREM RemovesAreTrue == Exclusive /\ CatalogRead => (Spec => []RemoveIsTrue)
<1> SUFFICES ASSUME Exclusive, CatalogRead PROVE Spec => []RemoveIsTrue
  OBVIOUS
<1>1. AnswerInv /\ [Next]_vars => AnswerInv' BY StepAnswerInv
<1>2. AnswerInv => RemoveIsTrue
  <2> SUFFICES ASSUME AnswerInv, NEW p \in Procs, Succeeded(p, {"remove"}), NoneSkipped(p),
                      NEW s \in Registered(p) \cup Installed(p),
                      NEW i \in 1 .. Len(arg[p].types)
               PROVE  ~ (s.type = arg[p].types[i] /\ s.alias = arg[p].alias)
    BY DEF RemoveIsTrue, NoneSkipped
  <2>1. Registered(p) = Installed(p) /\ Gone(p, Len(arg[p].types))
    BY DEF AnswerInv, Answers, RemovedSoFar, Succeeded, At
  <2> QED BY <2>1 DEF Gone, Matches
<1> QED BY <1>1, <1>2, InitAnswerInv, PTL DEF Spec
=============================================================================
