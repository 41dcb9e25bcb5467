--------------------------- MODULE Faultless_proofs ---------------------------
(***************************************************************************)
(* Proof that no command of Monitoring stops half-way on its own: without  *)
(* a fault, the catalog, the keys, the units and the running exporters of  *)
(* a client agree whenever no pmm-admin runs.  And, for clients that take  *)
(* turns, that names are unique among all of them and that services are    *)
(* found at the address of their client, whatever hosts share a name.      *)
(***************************************************************************)
EXTENDS Settled_proofs, FiniteSetTheorems

Keyed(S) == { ID(s) : s \in { s \in S : s.type \in HasKV } }
Running(S) == { ID(u) : u \in S }

\* Nobody stops exporters.
NoStop == {"stop", "stopall"} \cap Commands = {}

Whole(p) ==
  /\ Registered(p) = Installed(p)
  /\ kv[Client(p)] = Keyed(Installed(p))
  /\ NoStop => active[Host(p)] = Running(Installed(p))

Agree(h) ==
  /\ Settled(h)
  /\ kv[ClientName[h]] = Keyed(local[h])
  /\ NoStop => active[h] = Running(local[h])

\* Where a command is between two writes, and how far it has come.
Busy == {"kv", "install", "start", "deltree", "halt", "uninstall", "react", "allreact"}

Half(p) ==
  /\ pc[p] \in {"kv", "install"} =>
       /\ Registered(p) = Installed(p) \cup {job[p]} /\ ~ Serves(job[p], Installed(p))
       /\ At(p, "kv") => job[p].type \in HasKV
       /\ kv[Client(p)] = Keyed(IF At(p, "kv") THEN Installed(p) ELSE Registered(p))
       /\ NoStop => active[Host(p)] = Running(Installed(p))
  /\ pc[p] \in {"start", "react", "allreact"} =>
       /\ Registered(p) = Installed(p) /\ job[p] \in Installed(p)
       /\ kv[Client(p)] = Keyed(Installed(p))
       /\ NoStop => active[Host(p)] \cup {ID(job[p])} = Running(Installed(p))
  /\ pc[p] \in {"deltree", "halt", "uninstall"} =>
       /\ Installed(p) = Registered(p) \cup {job[p]} /\ ~ Serves(job[p], Registered(p))
       /\ kv[Client(p)] = Keyed(IF At(p, "deltree") THEN Installed(p) ELSE Registered(p))
       /\ NoStop => active[Host(p)] = Running(IF At(p, "uninstall") THEN Registered(p) ELSE Installed(p))

\* What a command knows of what lies ahead.
Ahead(p) ==
  /\ ~ At(p, "idle") => arg[p].cmd \in Commands
  /\ pc[p] \in {"deregister", "act"} => job[p] \in Registered(p)
  /\ pc[p] \in {"all", "allreact"} => todo[p] \subseteq Installed(p)
  /\ pc[p] \notin {"sweephalt", "sweepunit", "purgekv"}
  /\ At(p, "sweep") => todo[p] = {}
  /\ pc[p] \in {"sweep", "purge"} /\ arg[p].cmd = "repair" => missing[p] = {}
  /\ arg[p].cmd = "uninstall" =>
       /\ pc[p] \in {"each", "deltree", "halt", "uninstall"} => Registered(p) \subseteq todo[p]
       /\ At(p, "lookup") =>
            \A s \in Registered(p) :
              s \in todo[p] \/ (s.type = job[p].type /\ s.alias = job[p].alias)
       /\ At(p, "deregister") => Registered(p) \subseteq todo[p] \cup {job[p]}
       /\ pc[p] \in {"list", "sweep"} => Registered(p) = {}

Good(p) == (pc[p] \notin Busy => Whole(p)) /\ Half(p) /\ Ahead(p)

Free(h) == (\A p \in Procs : Host(p) # h) => Agree(h)

FaultlessInv ==
  /\ IInv /\ PathInv
  /\ faults = 0 => (\A p \in Procs : Good(p)) /\ \A h \in Hosts : Free(h)

LEMMA NewOne ==
  ASSUME NEW S, NEW s
  PROVE  /\ Keyed(S \cup {s}) = IF s.type \in HasKV THEN Keyed(S) \cup {ID(s)} ELSE Keyed(S)
         /\ Running(S \cup {s}) = Running(S) \cup {ID(s)}
<1>1. \A i : i \in Keyed(S \cup {s}) <=> i \in Keyed(S) \/ (i = ID(s) /\ s.type \in HasKV)
  BY DEF Keyed
<1>2. \A i : i \in Running(S \cup {s}) <=> i \in Running(S) \/ i = ID(s)
  BY DEF Running
<1>3. Running(S \cup {s}) = Running(S) \cup {ID(s)} BY <1>2
<1>4. CASE s.type \in HasKV
  <2>1. Keyed(S \cup {s}) = Keyed(S) \cup {ID(s)} BY <1>1, <1>4
  <2> QED BY <1>3, <1>4, <2>1
<1>5. CASE s.type \notin HasKV
  <2>1. \A i : i \in Keyed(S \cup {s}) <=> i \in Keyed(S) BY <1>1, <1>5
  <2>2. Keyed(S \cup {s}) = Keyed(S) BY <2>1, Zenon DEF Keyed
  <2> QED BY <1>3, <1>5, <2>2
<1> QED BY <1>4, <1>5

LEMMA OneLess ==
  ASSUME NEW S, NEW s, ~ Serves(s, S)
  PROVE  Keyed(S) \ {ID(s)} = Keyed(S) /\ Running(S) \ {ID(s)} = Running(S)
BY SameIDs DEF Keyed, Running, Serves

LEMMA NoLongerOne ==
  ASSUME NEW S, NEW s, ~ Serves(s, S)
  PROVE  /\ Keyed(S \cup {s}) \ {ID(s)} = Keyed(S)
         /\ Running(S \cup {s}) \ {ID(s)} = Running(S)
<1>1. Keyed(S \cup {s}) \ {ID(s)} = Keyed(S) \ {ID(s)}
  <2>1. CASE s.type \in HasKV
    <3>1. Keyed(S \cup {s}) = Keyed(S) \cup {ID(s)} BY <2>1, NewOne
    <3> QED BY <3>1
  <2>2. CASE s.type \notin HasKV
    <3>1. Keyed(S \cup {s}) = Keyed(S) BY <2>2, NewOne
    <3> QED BY <3>1
  <2> QED BY <2>1, <2>2
<1>2. Running(S \cup {s}) \ {ID(s)} = Running(S) \ {ID(s)}
  <2>1. Running(S \cup {s}) = Running(S) \cup {ID(s)} BY NewOne
  <2> QED BY <2>1
<1> QED BY <1>1, <1>2, OneLess

\* The steps that change nothing of the world.
LEMMA QuietGood ==
  ASSUME NEW p \in Procs, Whole(p), catalog' = catalog, kv' = kv, local' = local,
         active' = active
  PROVE  Whole(p)'
BY DEF Whole, Registered, Installed, Client, Host

LEMMA ExitGood ==
  ASSUME TypeInv, NEW p \in Procs, Exit(p), Whole(p)'
  PROVE  Good(p)'
<1>1. pc'[p] = "idle" BY ExitPath
<1> QED BY <1>1 DEF Good, Half, Ahead, At

LEMMA PreflightGood ==
  ASSUME IInv, PathInv, NEW p \in Procs, Good(p),
         Begin(p) \/ Finish(p) \/ ListUnits(p) \/ CheckInstallation(p) \/ Snapshot(p)
  PROVE  Good(p)'
<1>0. TypeInv /\ Path(p) /\ Knows(p) /\ Ahead(p) BY DEF IInv, PathInv, Good
<1>1. Whole(p) /\ Whole(p)'
  <2>1. Whole(p)
    BY DEF Good, Busy, Begin, Finish, ListUnits, CheckInstallation, Snapshot, At
  <2>2. UNCHANGED world BY DEF Begin, Finish, ListUnits, CheckInstallation, Snapshot
  <2> QED BY <2>1, <2>2, QuietGood DEF world
<1>2. Registered(p)' = Registered(p) /\ Installed(p)' = Installed(p)
  BY WorldKept DEF Begin, Finish, ListUnits, CheckInstallation, Snapshot, world
<1>3. CASE Begin(p)
  <2>1. PICK a \in Invocation :
          /\ arg' = [arg EXCEPT ![p] = a] /\ a.cmd \in Commands
          /\ Goto(p, IF a.cmd = "uninstall" THEN "snapshot" ELSE "list")
    BY <1>3 DEF Begin, Sensible
  <2>2. /\ arg'[p] = a /\ a.cmd \in Commands
        /\ pc'[p] = (IF a.cmd = "uninstall" THEN "snapshot" ELSE "list")
    BY <1>0, <2>1 DEF Goto, TypeInv, MemoryOK
  <2> QED BY <1>1, <2>2 DEF Good, Half, Ahead, At
<1>4. CASE Finish(p) BY <1>0, <1>1, <1>4, ExitGood DEF Finish
<1>5. CASE ListUnits(p)
  <2>1. /\ arg'[p] = arg[p] /\ todo'[p] = Installed(p) /\ At(p, "list")
        /\ pc'[p] = CASE arg[p].cmd \in OnUnits -> "all"
                      [] arg[p].cmd = "uninstall" -> "sweep"
                      [] OTHER -> "check"
    BY <1>0, <1>5 DEF ListUnits, Goto, TypeInv, MemoryOK
  <2>2. arg[p].cmd \in AllCommands BY <1>0 DEF TypeInv, MemoryOK, Invocation, AllCommands
  <2>3. arg[p].cmd = "uninstall" => Registered(p) = {} /\ Installed(p) = {}
    BY <1>0, <1>1, <2>1 DEF Ahead, Whole, At
  <2> QED BY <1>0, <1>1, <1>2, <2>1, <2>2, <2>3 DEF Good, Half, Ahead, At, OnUnits, AllCommands
<1>6. CASE CheckInstallation(p)
  <2>1. Orphans(Installed(p), Registered(p)) = {} /\ Missing(Installed(p), Registered(p)) = {}
    BY <1>1 DEF Whole, Orphans, Missing, SameID
  <2>2. Verdict(p, {}, {}) /\ At(p, "check")
    BY <1>0, <1>6, <2>1 DEF CheckInstallation, Knows
  <2>3. ~ At(p, "idle") /\ arg[p].cmd # "uninstall" BY <1>0, <2>2 DEF Path, At
  <2>4. /\ arg'[p] = arg[p]
        /\ \/ pc'[p] = "sweep" /\ todo'[p] = {} /\ missing'[p] = {}
           \/ pc'[p] \in {"snapshot", "lookup"}
    BY <1>0, <2>2 DEF Verdict, Broken, Goto, TypeInv, MemoryOK
  <2> QED BY <1>0, <1>1, <2>3, <2>4 DEF Good, Half, Ahead, At
<1>7. CASE Snapshot(p)
  <2>1. /\ arg'[p] = arg[p] /\ pc'[p] = "each" /\ todo'[p] = Registered(p) /\ ~ At(p, "idle")
    BY <1>0, <1>7 DEF Snapshot, At, Goto, TypeInv, MemoryOK
  <2> QED BY <1>0, <1>1, <1>2, <2>1 DEF Good, Half, Ahead, At
<1> QED BY <1>3, <1>4, <1>5, <1>6, <1>7

LEMMA AddGood ==
  ASSUME IInv, PathInv, NEW p \in Procs, Good(p),
         \/ AddLookup(p) \/ CheckClient(p) \/ CheckUnique(p) \/ ChoosePort(p)
         \/ Register(p) \/ PutKeys(p) \/ InstallUnit(p) \/ StartUnit(p)
  PROVE  Good(p)'
<1>0. /\ TypeInv /\ Path(p) /\ Knows(p) /\ Half(p) /\ Ahead(p)
      /\ Client(p) \in ClientNames /\ Host(p) \in Hosts
  BY Places DEF IInv, PathInv, Good
<1>1. arg[p].cmd = "add" /\ arg[p].cmd \in Commands /\ Step(p)
  BY <1>0
  DEF Path, AddLookup, CheckClient, CheckUnique, ChoosePort, Register, PutKeys, InstallUnit,
      StartUnit, At, Adding, Ahead, Step
<1>2. ASSUME Whole(p)', arg'[p] = arg[p],
             pc'[p] \in {"done", "lookup", "client", "unique", "port", "register"}
      PROVE  Good(p)'
  BY <1>1, <1>2 DEF Good, Half, Ahead, At
<1>3. CASE AddLookup(p) \/ CheckClient(p) \/ CheckUnique(p) \/ ChoosePort(p)
  <2>1. Whole(p)'
    <3>1. Whole(p)
      BY <1>3 DEF Good, Busy, AddLookup, CheckClient, CheckUnique, ChoosePort, At
    <3>2. UNCHANGED world BY <1>3 DEF AddLookup, CheckClient, CheckUnique, ChoosePort
    <3> QED BY <3>1, <3>2, QuietGood DEF world
  <2>2. CASE Exit(p) BY <1>0, <2>1, <2>2, ExitGood
  <2>3. CASE ~ Exit(p)
    <3>1. /\ arg'[p] = arg[p]
          /\ pc'[p] \in {"done", "lookup", "client", "unique", "port", "register"}
      BY <1>0, <1>3, <2>3, NextTypePath
      DEF AddLookup, CheckClient, CheckUnique, ChoosePort, Goto, At, memory, TypeInv, MemoryOK
    <3> QED BY <1>2, <2>1, <3>1
  <2> QED BY <2>2, <2>3
<1>4. CASE Register(p)
  <2>1. Whole(p) /\ \A s \in Registered(p) : ~ SameID(s, job[p])
    BY <1>0, <1>4 DEF Good, Busy, Register, At, Knows, Available, SameID
  <2>2. Without(Registered(p), job[p]) = Registered(p) BY <2>1 DEF Without, SameID
  <2>3. /\ Registered(p)' = Registered(p) \cup {job[p]} /\ Installed(p)' = Installed(p)
        /\ kv' = kv /\ active' = active /\ arg'[p] = arg[p] /\ job'[p] = job[p]
        /\ pc'[p] = (IF job[p].type \in HasKV THEN "kv" ELSE "install")
    BY <1>0, <1>4, <2>2
    DEF Register, Registered, Installed, Client, Host, Goto, memory, TypeInv, WorldOK, MemoryOK
  <2>4. ~ Serves(job[p], Installed(p)) BY <2>1 DEF Whole, Serves
  <2>5. kv'[Client(p)] = Keyed(Installed(p)) /\ (NoStop => active'[Host(p)] = Running(Installed(p)))
    BY <2>1, <2>3 DEF Whole
  <2>6. job[p].type \notin HasKV => Keyed(Installed(p) \cup {job[p]}) = Keyed(Installed(p))
    BY NewOne
  <2>7. Half(p)'
    BY <2>1, <2>3, <2>4, <2>5, <2>6 DEF Whole, Half, At, Serves, Client, Host
  <2> QED BY <1>1, <2>3, <2>7 DEF Good, Busy, Ahead, At
<1>5. CASE PutKeys(p)
  <2>1. /\ At(p, "kv") /\ pc'[p] = "install" /\ arg'[p] = arg[p] /\ job'[p] = job[p]
        /\ Registered(p)' = Registered(p) /\ Installed(p)' = Installed(p) /\ active' = active
        /\ kv'[Client(p)] = kv[Client(p)] \cup {ID(job[p])}
    BY <1>0, <1>5, WorldKept DEF PutKeys, Goto, memory, TypeInv, WorldOK, MemoryOK
  <2>2. kv'[Client(p)] = Keyed(Registered(p))
    BY <1>0, <2>1, NewOne DEF Half, At
  <2>3. Half(p)' BY <1>0, <2>1, <2>2 DEF Half, At, Serves, Client, Host
  <2> QED BY <1>1, <2>1, <2>3 DEF Good, Busy, Ahead, At
<1>6. CASE InstallUnit(p)
  <2>1. At(p, "install") /\ ~ \E u \in Installed(p) : SameID(u, job[p])
    BY <1>0, <1>6 DEF InstallUnit, Half, At, Serves
  <2>2. /\ pc'[p] = "start" /\ arg'[p] = arg[p] /\ job'[p] = job[p]
        /\ Registered(p)' = Registered(p) /\ Installed(p)' = Installed(p) \cup {job[p]}
        /\ kv' = kv /\ active' = active
    BY <1>0, <1>6, <2>1
    DEF InstallUnit, Registered, Installed, Client, Host, Goto, memory, TypeInv, WorldOK, MemoryOK
  <2>3. NoStop => active[Host(p)] \cup {ID(job[p])} = Running(Installed(p) \cup {job[p]})
    BY <1>0, <2>1, NewOne DEF Half, At
  <2>4. Half(p)' BY <1>0, <2>1, <2>2, <2>3 DEF Half, At, Client, Host
  <2> QED BY <1>1, <2>2, <2>4 DEF Good, Busy, Ahead, At
<1>7. CASE StartUnit(p)
  <2>1. At(p, "start") /\ job[p] \in Installed(p) /\ \E u \in Installed(p) : SameID(u, job[p])
    BY <1>0, <1>7 DEF StartUnit, Half, At, SameID
  <2>2. /\ NextType(p) /\ active'[Host(p)] = active[Host(p)] \cup {ID(job[p])}
        /\ Registered(p)' = Registered(p) /\ Installed(p)' = Installed(p) /\ kv' = kv
    BY <1>0, <1>7, <2>1, WorldKept DEF StartUnit, TypeInv, WorldOK
  <2>3. Whole(p)' BY <1>0, <2>1, <2>2 DEF Half, Whole, At, Client, Host
  <2>4. arg'[p] = arg[p] /\ pc'[p] \in {"done", "lookup"} BY <1>0, <2>2, NextTypePath
  <2> QED BY <1>2, <2>3, <2>4
<1> QED BY <1>3, <1>4, <1>5, <1>6, <1>7

LEMMA FindGood ==
  ASSUME IInv, PathInv, NEW p \in Procs, Good(p), FindService(p)
  PROVE  Good(p)'
<1>0. TypeInv /\ Path(p) /\ Ahead(p) /\ Host(p) \in Hosts /\ Client(p) \in ClientNames
  BY Places DEF IInv, PathInv, Good
<1>1. /\ At(p, "lookup") /\ arg[p].cmd \in {"remove", "removeall", "uninstall"} \cup Switching
      /\ arg[p].cmd \in Commands
  BY <1>0 DEF FindService, Path, Ahead, At
<1>2. Whole(p)' /\ Registered(p)' = Registered(p)
  BY <1>1, QuietGood, WorldKept DEF Good, Busy, FindService, At, world
<1>3. CASE Exit(p) BY <1>0, <1>2, <1>3, ExitGood
<1>4. CASE /\ RemoveFails(p) /\ arg[p].cmd \notin Switching
           /\ Matches(Registered(p), job[p].type, job[p].alias) = {}
  <2>1. arg[p].cmd = "uninstall" => Registered(p) \subseteq todo[p]
    BY <1>0, <1>1, <1>4 DEF Ahead, Matches, At
  <2>2. \/ pc'[p] = "idle"
        \/ /\ arg'[p] = arg[p] /\ todo'[p] = todo[p]
           /\ \/ arg[p].cmd = "remove" /\ pc'[p] \in {"done", "lookup"}
              \/ pc'[p] = "each"
    BY <1>0, <1>1, <1>4, AfterRemovePath
  <2> QED BY <1>1, <1>2, <2>1, <2>2 DEF Good, Half, Ahead, At
<1>5. CASE /\ ~ Exit(p)
           /\ ~ (/\ RemoveFails(p) /\ arg[p].cmd \notin Switching
                 /\ Matches(Registered(p), job[p].type, job[p].alias) = {})
  <2>1. PICK s \in Matches(Registered(p), job[p].type, job[p].alias) :
          /\ job'[p] = s /\ arg'[p] = arg[p] /\ todo'[p] = todo[p]
          /\ pc'[p] = (IF arg[p].cmd \in Switching THEN "act" ELSE "deregister")
    BY <1>0, <1>5 DEF FindService, Switching, Goto, TypeInv, MemoryOK
  <2>2. s \in Registered(p) /\ s.type = job[p].type /\ s.alias = job[p].alias BY DEF Matches
  <2>3. \A u \in Registered(p) : u.type = s.type /\ u.alias = s.alias => u = s
    BY <1>0, <2>2 DEF IInv, ServicesDistinct, Registered
  <2>4. arg[p].cmd = "uninstall" => Registered(p) \subseteq todo[p] \cup {s}
    BY <1>0, <1>1, <2>2, <2>3 DEF Ahead, At
  <2> QED BY <1>1, <1>2, <2>1, <2>2, <2>4 DEF Good, Half, Ahead, At, Switching
<1> QED BY <1>3, <1>4, <1>5

LEMMA RemoveGood ==
  ASSUME IInv, PathInv, NEW p \in Procs, Good(p),
         \/ Deregister(p) \/ DeleteTree(p) \/ HaltUnit(p, "halt", "uninstall")
         \/ UninstallUnit(p) \/ RemoveEach(p)
  PROVE  Good(p)'
<1>0. /\ TypeInv /\ Path(p) /\ Half(p) /\ Ahead(p)
      /\ Client(p) \in ClientNames /\ Host(p) \in Hosts
  BY Places DEF IInv, PathInv, Good
<1>1. /\ arg[p].cmd \in {"remove", "removeall", "uninstall"} /\ arg[p].cmd \in Commands
      /\ ~ At(p, "idle")
  BY <1>0 DEF Deregister, DeleteTree, HaltUnit, UninstallUnit, RemoveEach, Path, Ahead, At
<1>2. CASE Deregister(p)
  <2>1. Whole(p) /\ At(p, "deregister") /\ job[p] \in Registered(p)
    BY <1>0, <1>2 DEF Deregister, Good, Busy, Ahead, At
  <2>2. \A s \in Registered(p) : SameID(s, job[p]) => s = job[p]
    BY <1>0, <2>1 DEF IInv, ServicesDistinct, Registered, SameID
  <2>3. Without(Registered(p), job[p]) = Registered(p) \ {job[p]}
    BY <2>2 DEF Without, SameID
  <2>4. /\ Registered(p)' = Registered(p) \ {job[p]} /\ Installed(p)' = Installed(p)
        /\ kv' = kv /\ active' = active /\ arg'[p] = arg[p] /\ job'[p] = job[p]
        /\ todo'[p] = todo[p] /\ pc'[p] = "deltree"
    BY <1>0, <1>2, <2>3
    DEF Deregister, Registered, Installed, Client, Host, Goto, memory, TypeInv, WorldOK, MemoryOK
  <2>5. /\ Installed(p) = (Registered(p) \ {job[p]}) \cup {job[p]}
        /\ ~ Serves(job[p], Registered(p) \ {job[p]})
    BY <2>1, <2>2 DEF Whole, Serves
  <2>6. Half(p)' BY <2>1, <2>4, <2>5 DEF Half, Whole, At, Serves, Client, Host
  <2>7. arg[p].cmd = "uninstall" => Registered(p) \subseteq todo[p] \cup {job[p]}
    BY <1>0, <2>1 DEF Ahead, At
  <2>8. Ahead(p)' BY <1>1, <2>4, <2>7 DEF Ahead, At
  <2> QED BY <2>4, <2>6, <2>8 DEF Good, Busy
<1>3. CASE DeleteTree(p)
  <2>1. /\ At(p, "deltree") /\ Registered(p)' = Registered(p) /\ Installed(p)' = Installed(p)
        /\ kv'[Client(p)] = kv[Client(p)] \ {ID(job[p])} /\ active' = active
        /\ arg'[p] = arg[p] /\ job'[p] = job[p] /\ todo'[p] = todo[p] /\ pc'[p] = "halt"
    BY <1>0, <1>3, WorldKept DEF DeleteTree, Goto, memory, TypeInv, WorldOK, MemoryOK
  <2>2. kv'[Client(p)] = Keyed(Registered(p))
    BY <1>0, <2>1, NoLongerOne DEF Half, At
  <2>3. Half(p)' BY <1>0, <2>1, <2>2 DEF Half, At, Serves, Client, Host
  <2>4. Ahead(p)' BY <1>0, <1>1, <2>1 DEF Ahead, At
  <2> QED BY <2>1, <2>3, <2>4 DEF Good, Busy
<1>4. CASE HaltUnit(p, "halt", "uninstall")
  <2>1. /\ At(p, "halt") /\ Registered(p)' = Registered(p) /\ Installed(p)' = Installed(p)
        /\ active'[Host(p)] = active[Host(p)] \ {ID(job[p])} /\ kv' = kv
        /\ arg'[p] = arg[p] /\ job'[p] = job[p] /\ todo'[p] = todo[p] /\ pc'[p] = "uninstall"
    BY <1>0, <1>4, WorldKept DEF HaltUnit, Goto, memory, TypeInv, WorldOK, MemoryOK
  <2>2. NoStop => active'[Host(p)] = Running(Registered(p))
    BY <1>0, <2>1, NoLongerOne DEF Half, At
  <2>3. Half(p)' BY <1>0, <2>1, <2>2 DEF Half, At, Serves, Client, Host
  <2>4. Ahead(p)' BY <1>0, <1>1, <2>1 DEF Ahead, At
  <2> QED BY <2>1, <2>3, <2>4 DEF Good, Busy
<1>5. CASE UninstallUnit(p)
  <2>1. /\ At(p, "uninstall") /\ Installed(p) = Registered(p) \cup {job[p]}
        /\ ~ Serves(job[p], Registered(p))
    BY <1>0, <1>5 DEF UninstallUnit, Half, At
  <2>2. Without(Installed(p), job[p]) = Registered(p) BY <2>1 DEF Without, Serves, SameID
  <2>3. /\ AfterRemove(p) /\ kv' = kv /\ active' = active
        /\ Installed(p)' = Registered(p) /\ Registered(p)' = Registered(p)
    BY <1>0, <1>5, <2>1, <2>2
    DEF UninstallUnit, SameID, Installed, Registered, Client, Host, TypeInv, WorldOK
  <2>4. Whole(p)' BY <1>0, <2>1, <2>3 DEF Half, Whole, At, Client, Host
  <2>5. \/ pc'[p] = "idle"
        \/ /\ arg'[p] = arg[p] /\ todo'[p] = todo[p]
           /\ \/ arg[p].cmd = "remove" /\ pc'[p] \in {"done", "lookup"}
              \/ pc'[p] = "each"
    BY <1>0, <1>1, <2>3, AfterRemovePath
  <2>6. arg[p].cmd = "uninstall" => Registered(p) \subseteq todo[p] BY <1>0, <2>1 DEF Ahead, At
  <2> QED BY <1>1, <2>3, <2>4, <2>5, <2>6 DEF Good, Half, Ahead, At
<1>6. CASE RemoveEach(p)
  <2>1. /\ Whole(p)' /\ Registered(p)' = Registered(p) /\ At(p, "each")
        /\ arg'[p] = arg[p]
    BY <1>6, QuietGood, WorldKept DEF Good, Busy, RemoveEach, At, world
  <2>2. arg[p].cmd = "uninstall" => Registered(p) \subseteq todo[p] BY <1>0, <2>1 DEF Ahead, At
  <2>3. CASE todo[p] = {} /\ Goto(p, AfterEach(p))
    <3>1. pc'[p] \in {"list", "done"} BY <1>0, <2>3 DEF AfterEach, Goto, TypeInv, MemoryOK
    <3> QED BY <1>1, <2>1, <2>2, <2>3, <3>1 DEF Good, Half, Ahead, At
  <2>4. CASE ~ (todo[p] = {} /\ Goto(p, AfterEach(p)))
    <3>1. PICK s \in todo[p] :
            job'[p] = WithPort(s, 0) /\ todo'[p] = todo[p] \ {s} /\ pc'[p] = "lookup"
      BY <1>0, <1>6, <2>4 DEF RemoveEach, StillToDo, Goto, TypeInv, MemoryOK
    <3> QED BY <1>1, <2>1, <2>2, <3>1 DEF Good, Half, Ahead, At, WithPort
  <2> QED BY <2>3, <2>4
<1> QED BY <1>2, <1>3, <1>4, <1>5, <1>6

\* There is nothing to repair, and nothing left for the last loop of Uninstall.
LEMMA LoopGood ==
  ASSUME IInv, PathInv, NEW p \in Procs, Good(p),
         \/ Sweep(p) \/ HaltUnit(p, "sweephalt", "sweepunit") \/ SweepUnit(p)
         \/ Purge(p) \/ PurgeKeys(p)
  PROVE  Good(p)'
<1>0. TypeInv /\ Path(p) /\ Ahead(p) BY DEF IInv, PathInv, Good
<1>1. Sweep(p) \/ Purge(p) BY <1>0 DEF HaltUnit, SweepUnit, PurgeKeys, Ahead, At
<1>2. Whole(p) /\ arg[p].cmd \in Commands BY <1>0, <1>1 DEF Good, Busy, Sweep, Purge, Ahead, At
<1>3. CASE Sweep(p)
  <2>1. Goto(p, AfterSweep(p)) /\ UNCHANGED << world, arg, missing >>
    BY <1>0, <1>3 DEF Sweep, Ahead
  <2>2. pc'[p] = (IF arg[p].cmd = "repair" THEN "purge" ELSE "done")
    BY <1>0, <2>1 DEF AfterSweep, Goto, TypeInv, MemoryOK
  <2>3. Whole(p)' BY <1>2, <2>1, QuietGood DEF world
  <2>4. arg[p].cmd = "repair" => missing'[p] = {} BY <1>0, <1>3, <2>1 DEF Sweep, Ahead, At
  <2> QED BY <1>2, <2>1, <2>2, <2>3, <2>4 DEF Good, Half, Ahead, At
<1>4. CASE Purge(p)
  <2>1. missing[p] = {} BY <1>0, <1>4 DEF Purge, Path, Ahead, At
  <2>2. Goto(p, "done") /\ UNCHANGED << world, arg >> BY <1>4, <2>1 DEF Purge, world
  <2>3. pc'[p] = "done" BY <1>0, <2>2 DEF Goto, TypeInv, MemoryOK
  <2>4. Whole(p)' BY <1>2, <2>2, QuietGood DEF world
  <2> QED BY <1>2, <2>2, <2>3, <2>4 DEF Good, Half, Ahead, At
<1> QED BY <1>1, <1>3, <1>4

LEMMA RunningOnes ==
  ASSUME NEW S, NEW u \in S
  PROVE  Running(S) \cup {ID(u)} = Running(S) /\ (Running(S) \ {ID(u)}) \cup {ID(u)} = Running(S)
BY DEF Running

LEMMA SwitchGood ==
  ASSUME IInv, PathInv, NEW p \in Procs, Good(p), Switch(p) \/ Restart(p)
  PROVE  Good(p)'
<1>0. /\ TypeInv /\ Path(p) /\ Half(p) /\ Ahead(p)
      /\ Client(p) \in ClientNames /\ Host(p) \in Hosts
  BY Places DEF IInv, PathInv, Good
<1>1. /\ arg[p].cmd \in Switching /\ arg[p].cmd \in Commands
      /\ Registered(p)' = Registered(p) /\ Installed(p)' = Installed(p) /\ kv' = kv
  BY <1>0, WorldKept DEF Switch, Restart, Path, Ahead, At
<1>2. Registered(p) = Installed(p) /\ kv[Client(p)] = Keyed(Installed(p)) /\ job[p] \in Installed(p)
  BY <1>0 DEF Good, Busy, Whole, Half, Ahead, Switch, Restart, At
<1>3. UnitExists(p, job[p]) BY <1>2 DEF UnitExists, SameID
<1>4. ASSUME NoStop => active'[Host(p)] = Running(Installed(p)),
             pc'[p] = "done", arg'[p] = arg[p]
      PROVE  Good(p)'
  <2>1. Whole(p)' BY <1>1, <1>2, <1>4 DEF Whole, Client, Host
  <2> QED BY <1>1, <1>4, <2>1, Zenon DEF Good, Half, Ahead, At, Switching
<1>5. CASE Switch(p)
  <2>1. At(p, "act") /\ (NoStop => active[Host(p)] = Running(Installed(p)))
    BY <1>0, <1>5 DEF Switch, Good, Busy, Whole, At
  <2>2. CASE arg[p].cmd = "start"
    <3>1. /\ active'[Host(p)] = active[Host(p)] \cup {ID(job[p])}
          /\ pc'[p] = "done" /\ arg'[p] = arg[p]
      BY <1>0, <1>3, <1>5, <2>2 DEF Switch, Goto, memory, TypeInv, WorldOK, MemoryOK
    <3> QED BY <1>2, <1>4, <2>1, <3>1, RunningOnes
  <2>3. CASE arg[p].cmd = "stop"
    <3>1. ~ NoStop BY <1>1, <2>3 DEF NoStop
    <3>2. pc'[p] = "done" /\ arg'[p] = arg[p]
      BY <1>0, <1>5, <2>3 DEF Switch, Goto, memory, TypeInv, MemoryOK
    <3> QED BY <1>4, <3>1, <3>2
  <2>4. CASE arg[p].cmd = "restart"
    <3>1. /\ active'[Host(p)] = active[Host(p)] \ {ID(job[p])}
          /\ pc'[p] = "react" /\ arg'[p] = arg[p] /\ job'[p] = job[p]
      BY <1>0, <1>5, <2>4 DEF Switch, Goto, memory, TypeInv, WorldOK, MemoryOK
    <3>2. NoStop => active'[Host(p)] \cup {ID(job[p])} = Running(Installed(p))
      BY <1>2, <2>1, <3>1, RunningOnes
    <3>3. Half(p)' BY <1>1, <1>2, <3>1, <3>2 DEF Half, At, Client, Host
    <3>4. Ahead(p)' BY <1>1, <3>1 DEF Ahead, At, Switching
    <3> QED BY <3>1, <3>3, <3>4 DEF Good, Busy
  <2> QED BY <1>1, <2>2, <2>3, <2>4 DEF Switching
<1>6. CASE Restart(p)
  <2>1. /\ At(p, "react") /\ pc'[p] = "done" /\ arg'[p] = arg[p]
        /\ active'[Host(p)] = active[Host(p)] \cup {ID(job[p])}
    BY <1>0, <1>3, <1>6 DEF Restart, Goto, memory, TypeInv, WorldOK, MemoryOK
  <2> QED BY <1>0, <1>4, <2>1 DEF Half, At
<1> QED BY <1>5, <1>6

LEMMA SwitchAllGood ==
  ASSUME IInv, PathInv, NEW p \in Procs, Good(p), SwitchEach(p) \/ RestartEach(p)
  PROVE  Good(p)'
<1>0. /\ TypeInv /\ Path(p) /\ Half(p) /\ Ahead(p)
      /\ Client(p) \in ClientNames /\ Host(p) \in Hosts
  BY Places DEF IInv, PathInv, Good
<1>1. /\ arg[p].cmd \in OnUnits /\ arg[p].cmd \in Commands /\ todo[p] \subseteq Installed(p)
      /\ Registered(p)' = Registered(p) /\ Installed(p)' = Installed(p) /\ kv' = kv
  BY <1>0, WorldKept DEF SwitchEach, RestartEach, Path, Ahead, At
<1>2. Registered(p) = Installed(p) /\ kv[Client(p)] = Keyed(Installed(p))
  BY <1>0 DEF Good, Busy, Whole, Half, SwitchEach, RestartEach, At
<1>3. \A u \in Installed(p) : UnitExists(p, u) BY DEF UnitExists, SameID
<1>4. ASSUME NoStop => active'[Host(p)] = Running(Installed(p)),
             \/ pc'[p] = "done"
             \/ pc'[p] = "all" /\ todo'[p] \subseteq Installed(p),
             arg'[p] = arg[p]
      PROVE  Good(p)'
  <2>1. Whole(p)' BY <1>1, <1>2, <1>4 DEF Whole, Client, Host
  <2> QED BY <1>1, <1>4, <2>1 DEF Good, Half, Ahead, At, OnUnits
<1>5. CASE SwitchEach(p)
  <2>1. At(p, "all") /\ (NoStop => active[Host(p)] = Running(Installed(p)))
    BY <1>0, <1>5 DEF SwitchEach, Good, Busy, Whole, At
  <2>2. CASE Exit(p)
    <3>1. CASE active' = active
      <4>1. Whole(p)' BY <1>1, <1>2, <2>1, <3>1 DEF Whole, Client, Host
      <4> QED BY <1>0, <2>2, <4>1, ExitGood
    <3>2. CASE active' # active
      <4>1. pc'[p] \in {"all", "allreact"} BY <1>0, <1>5, <3>2 DEF SwitchEach, Goto, TypeInv, MemoryOK
      <4> QED BY <1>0, <2>2, <4>1, ExitPath
    <3> QED BY <3>1, <3>2
  <2>3. CASE todo[p] = {} /\ Goto(p, "done") /\ UNCHANGED << memory, active >>
    <3>1. pc'[p] = "done" /\ arg'[p] = arg[p] BY <1>0, <2>3 DEF Goto, memory, TypeInv, MemoryOK
    <3> QED BY <1>4, <2>1, <2>3, <3>1
  <2>4. CASE /\ ~ Exit(p) /\ ~ (todo[p] = {} /\ Goto(p, "done") /\ UNCHANGED << memory, active >>)
    <3>1. PICK u \in todo[p] :
            /\ todo'[p] = todo[p] \ {u} /\ job'[p] = u /\ arg'[p] = arg[p]
            /\ pc'[p] = (IF arg[p].cmd = "restartall" THEN "allreact" ELSE "all")
            /\ IF arg[p].cmd = "startall"
               THEN UnitExists(p, u) =>
                      active'[Host(p)] = active[Host(p)] \cup {ID(u)}
               ELSE active'[Host(p)] = active[Host(p)] \ {ID(u)}
      BY <1>0, <1>5, <2>4
      DEF SwitchEach, StillToDo, Goto, memory, TypeInv, WorldOK, MemoryOK
    <3>2. u \in Installed(p) /\ todo'[p] \subseteq Installed(p) BY <1>1, <3>1
    <3>3. CASE arg[p].cmd = "startall"
      <4>1. active'[Host(p)] = active[Host(p)] \cup {ID(u)} BY <1>3, <3>1, <3>2, <3>3
      <4>2. NoStop => active'[Host(p)] = Running(Installed(p)) BY <2>1, <3>2, <4>1, RunningOnes
      <4> QED BY <1>4, <3>1, <3>2, <3>3, <4>2
    <3>4. CASE arg[p].cmd = "stopall"
      <4>1. ~ NoStop BY <1>1, <3>4 DEF NoStop
      <4> QED BY <1>4, <3>1, <3>2, <3>4, <4>1
    <3>5. CASE arg[p].cmd = "restartall"
      <4>1. NoStop => active'[Host(p)] \cup {ID(u)} = Running(Installed(p))
        BY <2>1, <3>1, <3>2, <3>5, RunningOnes
      <4>2. Half(p)' BY <1>1, <1>2, <3>1, <3>2, <3>5, <4>1 DEF Half, At, Client, Host
      <4>3. Ahead(p)' BY <1>1, <3>1, <3>2, <3>5 DEF Ahead, At, OnUnits
      <4> QED BY <3>1, <3>5, <4>2, <4>3 DEF Good, Busy
    <3> QED BY <1>1, <3>3, <3>4, <3>5 DEF OnUnits
  <2> QED BY <2>2, <2>3, <2>4
<1>6. CASE RestartEach(p)
  <2>1. /\ At(p, "allreact") /\ job[p] \in Installed(p)
        /\ NoStop => active[Host(p)] \cup {ID(job[p])} = Running(Installed(p))
    BY <1>0, <1>6 DEF RestartEach, Half, At
  <2>2. /\ pc'[p] = "all" /\ arg'[p] = arg[p] /\ todo'[p] = todo[p]
        /\ active'[Host(p)] = active[Host(p)] \cup {ID(job[p])}
    BY <1>0, <1>3, <1>6, <2>1 DEF RestartEach, Goto, TypeInv, WorldOK, MemoryOK
  <2> QED BY <1>1, <1>4, <2>1, <2>2
<1> QED BY <1>5, <1>6

LEMMA StepGood ==
  ASSUME IInv, PathInv, NEW p \in Procs, Good(p), Begin(p) \/ Step(p)
  PROVE  Good(p)'
BY PreflightGood, AddGood, FindGood, RemoveGood, LoopGood, SwitchGood, SwitchAllGood DEF Step

LEMMA StepFaultlessInv == Exclusive /\ FaultlessInv /\ [Next]_vars => FaultlessInv'
<1> SUFFICES ASSUME Exclusive, FaultlessInv, [Next]_vars PROVE FaultlessInv'
  OBVIOUS
<1>0. IInv' /\ PathInv' /\ TypeInv BY StepIInv, StepPath DEF FaultlessInv, PathInv
<1>1. CASE UNCHANGED vars
  <2>1. UNCHANGED << catalog, kv, local, active, pc, arg, job, todo, missing, faults >>
    BY <1>1 DEF vars, world, memory
  <2>2. ASSUME faults = 0, NEW h \in Hosts PROVE Free(h)'
    BY <2>1, <2>2 DEF FaultlessInv, Free, Agree, Settled, Host
  <2>3. ASSUME faults = 0, NEW p \in Procs PROVE Good(p)'
    <3>0. Good(p) BY <2>3 DEF FaultlessInv
    <3>1. Registered(p)' = Registered(p) /\ Installed(p)' = Installed(p) BY <2>1, WorldKept
    <3>2. Whole(p) => Whole(p)' BY <2>1, QuietGood
    <3>3. Half(p)' BY <2>1, <3>0, <3>1 DEF Good, Half, At, Serves, Client, Host
    <3>4. Ahead(p)' BY <2>1, <3>0, <3>1 DEF Good, Ahead, At
    <3> QED BY <2>1, <3>0, <3>2, <3>3, <3>4 DEF Good
  <2> QED BY <1>0, <2>1, <2>2, <2>3 DEF FaultlessInv
<1>2. ASSUME NEW p \in Procs, Begin(p) \/ Step(p) \/ Fail(p) \/ IgnoredError(p) \/ ReadError(p),
             faults' = 0
      PROVE  FaultlessInv'
  <2>1. faults = 0 /\ (Begin(p) \/ Step(p))
    <3>1. faults \in Nat BY <1>0, MonitoringConstants DEF TypeInv
    <3>2. CASE Fail(p) \/ IgnoredError(p) \/ ReadError(p)
      BY <1>2, <3>1, <3>2 DEF Fail, IgnoredError, ReadError, Fault
    <3>3. CASE Begin(p) \/ Step(p)
      BY <1>2, <3>3
      DEF Begin, Step, Finish, ListUnits, CheckInstallation, AddLookup, CheckClient, CheckUnique,
          ChoosePort, Register, PutKeys, InstallUnit, StartUnit, FindService, Deregister,
          DeleteTree, HaltUnit, UninstallUnit, Snapshot, RemoveEach, Sweep, SweepUnit, Purge,
          PurgeKeys, Switch, Restart, SwitchEach, RestartEach
    <3> QED BY <1>2, <3>2, <3>3
  <2>2. Own(p) /\ OwnWorld(p) BY <2>1, MovePath DEF FaultlessInv
  <2>3. \A n \in ClientNames \ {Client(p)} : kv'[n] = kv[n]
    <3>1. UNCHANGED kv \/ \E S : kv' = [kv EXCEPT ![Client(p)] = S]
      BY <2>1 DEF Begin, Step, Finish, ListUnits, CheckInstallation, AddLookup, CheckClient,
          CheckUnique, ChoosePort, Register, PutKeys, InstallUnit, StartUnit, FindService,
          Deregister, DeleteTree, HaltUnit, UninstallUnit, Snapshot, RemoveEach, Sweep,
          SweepUnit, Purge, PurgeKeys, Switch, Restart, SwitchEach, RestartEach, world
    <3> QED BY <1>0, <3>1, Places DEF TypeInv, WorldOK
  <2>4. Good(p)' BY <2>1, StepGood DEF FaultlessInv
  <2>5. ASSUME NEW q \in Procs \ {p} PROVE Good(q)'
    <3>0. Good(q) BY <2>1 DEF FaultlessInv
    <3>1. Client(q) \in ClientNames \ {Client(p)} /\ Host(q) \in Hosts \ {Host(p)}
      BY MonitoringConstants DEF Exclusive, Client, Host
    <3>2. /\ Registered(q)' = Registered(q) /\ Installed(q)' = Installed(q)
          /\ kv'[Client(q)] = kv[Client(q)] /\ active'[Host(q)] = active[Host(q)]
      BY <2>2, <2>3, <3>1 DEF OwnWorld, Registered, Installed, Client, Host
    <3>3. /\ pc'[q] = pc[q] /\ arg'[q] = arg[q] /\ job'[q] = job[q]
          /\ todo'[q] = todo[q] /\ missing'[q] = missing[q]
      BY <2>2 DEF Own
    <3>4. Whole(q) => Whole(q)' BY <3>2 DEF Whole, Client, Host
    <3>5. Half(q)' BY <3>0, <3>2, <3>3 DEF Good, Half, At, Serves, Client, Host
    <3>6. Ahead(q)' BY <3>0, <3>2, <3>3 DEF Good, Ahead, At
    <3> QED BY <3>0, <3>3, <3>4, <3>5, <3>6 DEF Good
  <2>6. ASSUME NEW h \in Hosts, \A q \in Procs : Host(q) # h PROVE Agree(h)'
    <3>1. Agree(h) BY <2>1, <2>6 DEF FaultlessInv, Free
    <3>2. h # Host(p) BY <2>6
    <3>3. ClientName[h] \in ClientNames \ {Client(p)}
      BY <1>0, <3>2, Places, MonitoringConstants DEF Exclusive, Client, Host
    <3> QED BY <2>2, <2>3, <3>1, <3>2, <3>3 DEF OwnWorld, Agree, Settled
  <2>7. \A h \in Hosts : Free(h)' BY <2>6 DEF Free, Host
  <2> QED BY <1>0, <2>4, <2>5, <2>7 DEF FaultlessInv
<1>3. CASE faults' # 0 BY <1>0, <1>3 DEF FaultlessInv
<1> QED BY <1>1, <1>2, <1>3 DEF Next

LEMMA InitFaultlessInv == Init => FaultlessInv
<1> SUFFICES ASSUME Init PROVE FaultlessInv
  OBVIOUS
<1>1. IInv /\ PathInv BY InitIInv, InitPath
<1>2. ASSUME NEW h \in Hosts PROVE Agree(h)
  <2>1. ClientName[h] \in ClientNames BY MonitoringConstants
  <2> QED BY <2>1 DEF Init, Agree, Settled, Keyed, Running
<1>3. ASSUME NEW p \in Procs PROVE Good(p)
  <2>1. Host(p) \in Hosts BY MonitoringConstants DEF Host
  <2>2. Whole(p) BY <1>2, <2>1 DEF Whole, Agree, Settled, Registered, Installed, Client, Host
  <2> QED BY <2>2 DEF Init, Good, Half, Ahead, At
<1> QED BY <1>1, <1>2, <1>3 DEF FaultlessInv, Free

-----------------------------------------------------------------------------
\* No command, refused or not, stops half-way on its own: while nothing fails, whatever an
\* exclusive client is asked to do in whatever order, its registrations, keys, units
\* and exporters agree again when pmm-admin returns.
THEOREM NothingHalfDone == Exclusive => (Spec => []SettledWhenIdle)
<1> SUFFICES ASSUME Exclusive PROVE Spec => []SettledWhenIdle
  OBVIOUS
<1>1. FaultlessInv /\ [Next]_vars => FaultlessInv' BY StepFaultlessInv
<1>2. FaultlessInv => SettledWhenIdle
  <2> SUFFICES ASSUME FaultlessInv, AllIdle, faults = 0, NEW h \in Hosts PROVE Agree(h)
    BY DEF SettledWhenIdle, Agree, Keyed, Running, NoStop
  <2>1. CASE \A p \in Procs : Host(p) # h BY <2>1 DEF FaultlessInv, Free
  <2>2. ASSUME NEW p \in Procs, Host(p) = h PROVE Agree(h)
    <3>1. Whole(p) BY <2>2 DEF FaultlessInv, Good, AllIdle, At, Busy
    <3> QED BY <2>2, <3>1 DEF Whole, Agree, Settled, Registered, Installed, Client, Host
  <2> QED BY <2>1, <2>2
<1> QED BY <1>1, <1>2, InitFaultlessInv, PTL DEF Spec

-----------------------------------------------------------------------------
(* One command at a time, on any number of hosts *)

\* Somebody sees to it that only one pmm-admin runs, anywhere.
InTurn == IsFiniteSet(Procs) /\ MaxActive = 1

Alone == \A p, q \in Procs : pc[p] # "idle" /\ pc[q] # "idle" => p = q

\* A process that moves is the only one there is.
LEMMA StepAlone ==
  ASSUME InTurn, PathInv, Alone, NEW p \in Procs,
         Begin(p) \/ Step(p) \/ Fail(p) \/ IgnoredError(p) \/ ReadError(p)
  PROVE  Own(p) /\ Alone' /\ \A q \in Procs \ {p} : pc[q] = "idle" /\ pc'[q] = "idle"
<1>1. Own(p) BY MovePath
<1>2. ASSUME NEW q \in Procs \ {p} PROVE pc[q] = "idle"
  <2>1. CASE Begin(p)
    <3> DEFINE S == { r \in Procs : ~ At(r, "idle") }
    <3>1. Cardinality(S) < 1 BY <2>1 DEF Begin, InTurn
    <3>2. IsFiniteSet(S) BY FS_Subset DEF InTurn
    <3>3. Cardinality(S) = 0 BY <3>1, <3>2, FS_CardinalityType
    <3>4. S = {} BY <3>2, <3>3, FS_EmptySet
    <3> QED BY <3>4 DEF At
  <2>2. CASE pc[p] # "idle" BY <1>2, <2>2 DEF Alone
  <2>3. CASE Step(p) \/ Fail(p) \/ IgnoredError(p) \/ ReadError(p)
    <3>1. pc[p] # "idle"
      BY <2>3
        DEF Step, Fail, IgnoredError, ReadError, Finish, ListUnits, CheckInstallation,
            AddLookup, CheckClient, CheckUnique, ChoosePort, Register, PutKeys, InstallUnit, StartUnit,
            FindService, Deregister, DeleteTree, HaltUnit, UninstallUnit, Snapshot, RemoveEach, Sweep,
            SweepUnit, Purge, PurgeKeys, Switch, Restart, SwitchEach, RestartEach, At
    <3> QED BY <3>1, <2>2
  <2> QED BY <2>1, <2>3
<1>3. \A q \in Procs \ {p} : pc'[q] = "idle" BY <1>1, <1>2 DEF Own
<1> QED BY <1>1, <1>2, <1>3 DEF Alone

-----------------------------------------------------------------------------
(* Names are unique among all clients *)

\* From the search of the catalog up to the registration the name stays free.
NameFree(p) == pc[p] \in {"port", "register"} => UniqueAlias(p)

FreeInv == PathInv /\ Alone /\ AliasGloballyUnique /\ \A p \in Procs : NameFree(p)

\* Services only go.
LEMMA FewerNames ==
  ASSUME FreeInv, PathInv', Alone', \A n \in ClientNames : catalog'[n] \subseteq catalog[n],
         NEW p \in Procs, Own(p), \A q \in Procs \ {p} : pc'[q] = "idle", NameFree(p)'
  PROVE  FreeInv'
BY DEF FreeInv, AliasGloballyUnique, NameFree

LEMMA StepFree ==
  ASSUME InTurn, FreeInv, NEW p \in Procs,
         Begin(p) \/ Step(p) \/ Fail(p) \/ IgnoredError(p) \/ ReadError(p), PathInv'
  PROVE  FreeInv'
<1>1. /\ Own(p) /\ Alone' /\ \A q \in Procs \ {p} : pc[q] = "idle" /\ pc'[q] = "idle"
      /\ NameFree(p) /\ TypeInv
  BY StepAlone DEF FreeInv, PathInv
<1>2. Client(p) \in ClientNames BY <1>1, Places
<1>3. CASE CheckUnique(p)
  <2>1. UNCHANGED catalog BY <1>3 DEF CheckUnique, world
  <2>2. pc'[p] \in {"idle", "port"} BY <1>1, <1>3 DEF CheckUnique, Exit, Goto, TypeInv, MemoryOK
  <2>3. pc'[p] = "port" => UniqueAlias(p) /\ job'[p] = WithPort(job[p], FirstPort(p))
    BY <1>1, <1>3 DEF CheckUnique, Exit, Goto, TypeInv, MemoryOK
  <2>4. NameFree(p)' BY <2>1, <2>2, <2>3 DEF NameFree, UniqueAlias, WithPort, Matches
  <2> QED BY <1>1, <2>1, <2>4, FewerNames
<1>4. CASE ChoosePort(p)
  <2>1. UNCHANGED catalog /\ pc[p] = "port" BY <1>4 DEF ChoosePort, world, At
  <2>2. \/ pc'[p] = "idle"
        \/ UNCHANGED job
        \/ job'[p] = WithPort(job[p], job[p].port + 1)
    BY <1>1, <1>4 DEF ChoosePort, Exit, Goto, memory, TypeInv, MemoryOK
  <2>3. NameFree(p)' BY <1>1, <2>1, <2>2 DEF NameFree, UniqueAlias, WithPort, Matches
  <2> QED BY <1>1, <2>1, <2>3, FewerNames
<1>5. CASE Register(p)
  <2>1. /\ catalog' = [catalog EXCEPT ![Client(p)] = Without(@, job[p]) \cup {job[p]}]
        /\ UniqueAlias(p) /\ pc'[p] \in {"kv", "install"}
    BY <1>1, <1>5 DEF Register, At, NameFree, Goto, TypeInv, MemoryOK
  <2>2. \A n \in ClientNames : \A s \in catalog'[n] :
          s \in catalog[n] \/ (n = Client(p) /\ s = job[p])
    BY <1>1, <1>2, <2>1 DEF TypeInv, WorldOK, Without
  <2>3. \A n \in ClientNames : \A s \in catalog[n] : ~ (s.type = job[p].type /\ s.alias = job[p].alias)
    BY <2>1 DEF UniqueAlias, Matches
  <2>4. AliasGloballyUnique' BY <2>2, <2>3 DEF FreeInv, AliasGloballyUnique
  <2> QED BY <1>1, <2>1, <2>4 DEF FreeInv, NameFree
<1>6. CASE Deregister(p) \/ Purge(p)
  <2>1. UNCHANGED catalog \/ \E s : catalog' = [catalog EXCEPT ![Client(p)] = Without(@, s)]
    BY <1>6 DEF Deregister, Purge
  <2>2. \A n \in ClientNames : catalog'[n] \subseteq catalog[n]
    BY <1>1, <1>2, <2>1 DEF TypeInv, WorldOK, Without
  <2>3. pc'[p] \in {"deltree", "done", "purgekv"}
    BY <1>1, <1>6 DEF Deregister, Purge, Goto, TypeInv, MemoryOK
  <2> QED BY <1>1, <2>2, <2>3, FewerNames DEF NameFree
<1>7. CASE ~ (CheckUnique(p) \/ ChoosePort(p) \/ Register(p) \/ Deregister(p) \/ Purge(p))
  <2>1. UNCHANGED catalog BY <1>7, CatalogKept
  <2>2. pc'[p] \notin {"port", "register"}
    BY <1>1, <1>7
      DEF Begin, Step, Fail, IgnoredError, ReadError, Finish, ListUnits, CheckInstallation, Verdict,
          AddLookup, CheckClient, PutKeys, InstallUnit, StartUnit, NextType,
          FindService, DeleteTree, HaltUnit, UninstallUnit, Snapshot, RemoveEach, Sweep, AfterEach, AfterSweep,
          AfterRemove, RemoveFails, Exit, At, Goto, memory, TypeInv, MemoryOK,
          SweepUnit, PurgeKeys, Switch, Restart, SwitchEach, RestartEach
  <2> QED BY <1>1, <2>1, <2>2, FewerNames DEF NameFree
<1> QED BY <1>3, <1>4, <1>5, <1>6, <1>7

LEMMA StepFreeInv == InTurn /\ FreeInv /\ [Next]_vars => FreeInv'
<1> SUFFICES ASSUME InTurn, FreeInv, [Next]_vars PROVE FreeInv' OBVIOUS
<1>1. PathInv' BY StepPath DEF FreeInv
<1>2. CASE UNCHANGED vars
  BY <1>1, <1>2 DEF vars, world, memory, FreeInv, Alone, AliasGloballyUnique, NameFree, UniqueAlias
<1> QED BY <1>1, <1>2, StepFree DEF Next

\* Whatever else fails, no two clients monitor something of one type under one name, as long as
\* one pmm-admin runs at a time (checkGlobalDuplicateService, pmm.go:473-490: "globally unique").
\* The search of the catalog comes calls before the registration that relies on it.
THEOREM NamesAreGlobal == InTurn => (Spec => []AliasGloballyUnique)
<1> SUFFICES ASSUME InTurn PROVE Spec => []AliasGloballyUnique OBVIOUS
<1>1. Init => FreeInv
  BY InitPath DEF Init, FreeInv, Alone, AliasGloballyUnique, NameFree
<1>2. FreeInv /\ [Next]_vars => FreeInv' BY StepFreeInv
<1>3. FreeInv => AliasGloballyUnique BY DEF FreeInv
<1> QED BY <1>1, <1>2, <1>3, PTL DEF Spec

-----------------------------------------------------------------------------
(* Services are found at the address of their client *)

\* Registered, and not yet installed.
Pending(p, n, s, h) == pc[p] \in {"kv", "install"} /\ Client(p) = n /\ Host(p) = h /\ job[p] = s

Found ==
  \A n \in ClientNames : \A s \in catalog[n], h \in address[n] :
    s \in local[h] \/ \E p \in Procs : Pending(p, n, s, h)

\* What is registered has an address, which is that of a host of this client name.
Named ==
  \A n \in ClientNames :
    /\ catalog[n] # {} => address[n] # {}
    /\ \A h \in address[n] : ClientName[h] = n

\* What an add knows of its client and its host.
Prepared(p) ==
  /\ At(p, "check") => todo[p] = Installed(p)
  /\ pc[p] \in Adding \/ (At(p, "lookup") /\ arg[p].cmd = "add")
       => \A u \in Installed(p) : Serves(u, Registered(p))
  /\ pc[p] \in {"unique", "port", "register"} => Registered(p) \subseteq Installed(p)
  /\ At(p, "register") => Available(p)
  /\ pc[p] \in {"kv", "install"} =>
       job[p] \in Registered(p) /\ \A u \in Installed(p) : ~ SameID(u, job[p])

\* Nothing that is registered loses its unit.
Spared(p) ==
  /\ At(p, "deregister") => job[p] \in Registered(p)
  /\ pc[p] \in {"deltree", "halt", "uninstall"} => ~ Serves(job[p], Registered(p))
  /\ pc[p] \in Sweeping => \A u \in todo[p] : ~ Serves(u, Registered(p))
  /\ pc[p] \in {"sweephalt", "sweepunit"} => ~ Serves(job[p], Registered(p))

\* What Uninstall has still to remove is in its loop or in hand.
Emptied(p) ==
  arg[p].cmd = "uninstall" =>
    /\ pc[p] \in Sweeping \cup {"list"} => Registered(p) = {}
    /\ pc[p] \in {"each", "deltree", "halt", "uninstall"} => Registered(p) \subseteq todo[p]
    /\ pc[p] \in {"lookup", "deregister"} =>
         \A s \in Registered(p) :
           s \in todo[p] \/ (s.type = job[p].type /\ s.alias = job[p].alias)

Work(p) == Prepared(p) /\ Spared(p) /\ Emptied(p)
Sited == Found /\ Named /\ \A p \in Procs : Work(p)
SiteInv == FreeInv /\ (faults = 0 => Sited)

LEMMA IdleWork == ASSUME NEW p \in Procs, pc'[p] \in {"idle", "done"} PROVE Work(p)'
BY DEF Work, Prepared, Spared, Emptied, At, Adding, Sweeping

\* Where the world stays, or loses services, only the process that moves is of interest.
LEMMA Moves ==
  ASSUME PathInv, Sited, NEW p \in Procs, Work(p)',
         \A q \in Procs \ {p} : pc[q] = "idle" /\ pc'[q] = "idle",
         \A n \in ClientNames : catalog'[n] \subseteq catalog[n], UNCHANGED << address, local >>,
         pc[p] \notin {"kv", "install"}
  PROVE  Sited'
<1>1. \A n, s, h : \A q \in Procs : ~ Pending(q, n, s, h) BY DEF Pending
<1>2. Found' BY <1>1 DEF Sited, Found
<1>3. Named' BY DEF Sited, Named
<1>4. \A q \in Procs \ {p} : Work(q)' BY IdleWork
<1> QED BY <1>2, <1>3, <1>4 DEF Sited

\* What stays the same for a process.
LEMMA Surroundings ==
  ASSUME UNCHANGED << catalog, local >>
  PROVE  \A p : Registered(p)' = Registered(p) /\ Installed(p)' = Installed(p)
BY DEF Registered, Installed, Client, Host

LEMMA PreflightWork ==
  ASSUME PathInv, Sited, NEW p \in Procs,
         Begin(p) \/ Finish(p) \/ ListUnits(p) \/ CheckInstallation(p) \/ Snapshot(p)
  PROVE  Work(p)'
<1>1. UNCHANGED << catalog, address, local >> /\ TypeInv /\ Path(p) /\ Work(p)
  BY DEF Begin, Finish, ListUnits, CheckInstallation, Snapshot, world, PathInv, Sited
<1>2. Registered(p)' = Registered(p) /\ Installed(p)' = Installed(p) BY <1>1, Surroundings
<1>3. CASE Begin(p)
  <2>1. (pc'[p] = "list" /\ arg'[p].cmd # "uninstall") \/ pc'[p] = "snapshot"
    <3>1. PICK a \in Invocation :
            arg' = [arg EXCEPT ![p] = a] /\ Goto(p, IF a.cmd = "uninstall" THEN "snapshot" ELSE "list")
      BY <1>3 DEF Begin
    <3> QED BY <1>1, <3>1 DEF Goto, TypeInv, MemoryOK
  <2> QED BY <2>1 DEF Work, Prepared, Spared, Emptied, At, Adding, Sweeping
<1>4. CASE Finish(p) BY <1>1, <1>4, ExitPath, IdleWork DEF Finish
<1>5. CASE ListUnits(p)
  <2>1. /\ pc[p] = "list" /\ todo'[p] = Installed(p) /\ arg'[p] = arg[p]
        /\ pc'[p] \in {"all", "sweep", "check"} /\ (pc'[p] = "sweep" => arg[p].cmd = "uninstall")
        /\ arg[p].cmd = "uninstall" => pc'[p] = "sweep"
    BY <1>1, <1>5 DEF ListUnits, At, Goto, TypeInv, MemoryOK, OnUnits
  <2>2. arg[p].cmd = "uninstall" => Registered(p) = {}
    BY <1>1, <2>1 DEF Work, Emptied
  <2> QED BY <1>2, <2>1, <2>2 DEF Work, Prepared, Spared, Emptied, At, Adding, Sweeping, Serves
<1>6. CASE CheckInstallation(p)
  <2>1. /\ At(p, "check") /\ todo[p] = Installed(p)
        /\ Verdict(p, Orphans(todo[p], Registered(p)), Missing(todo[p], Registered(p)))
    BY <1>1, <1>6 DEF CheckInstallation, Work, Prepared
  <2>2. \/ pc'[p] = "idle"
        \/ /\ pc'[p] = "sweep" /\ arg'[p] = arg[p] /\ arg[p].cmd = "repair"
           /\ todo'[p] = Orphans(todo[p], Registered(p))
        \/ /\ pc'[p] \in {"snapshot", "lookup"} /\ arg'[p] = arg[p]
           /\ Orphans(todo[p], Registered(p)) = {}
    BY <1>1, <2>1, VerdictPath
  <2>3. arg[p].cmd # "uninstall" BY <1>1, <2>1 DEF Path
  <2>4. \A u \in Orphans(todo[p], Registered(p)) : ~ Serves(u, Registered(p)) BY DEF Orphans, Serves
  <2>5. Orphans(todo[p], Registered(p)) = {} => \A u \in Installed(p) : Serves(u, Registered(p))
    BY <2>1 DEF Orphans, Serves
  <2> QED
    BY <1>2, <2>2, <2>3, <2>4, <2>5 DEF Work, Prepared, Spared, Emptied, At, Adding, Sweeping
<1>7. CASE Snapshot(p)
  <2>1. pc'[p] = "each" /\ todo'[p] = Registered(p)
    BY <1>1, <1>7 DEF Snapshot, Goto, TypeInv, MemoryOK
  <2> QED BY <1>2, <2>1 DEF Work, Prepared, Spared, Emptied, At, Adding, Sweeping
<1> QED BY <1>3, <1>4, <1>5, <1>6, <1>7

LEMMA AddWork ==
  ASSUME PathInv, Sited, NEW p \in Procs,
         \A q \in Procs \ {p} : pc[q] = "idle",
         AddLookup(p) \/ CheckClient(p) \/ CheckUnique(p) \/ ChoosePort(p) \/ StartUnit(p)
  PROVE  Work(p)'
<1>1. UNCHANGED << catalog, address, local >> /\ TypeInv /\ Path(p) /\ Work(p)
  BY DEF AddLookup, CheckClient, CheckUnique, ChoosePort, StartUnit, world, PathInv, Sited
<1>2. Registered(p)' = Registered(p) /\ Installed(p)' = Installed(p) BY <1>1, Surroundings
<1>3. /\ pc[p] \in Adding \/ (At(p, "lookup") /\ arg[p].cmd = "add")
      /\ arg[p].cmd = "add" /\ pc[p] \notin {"kv", "install"}
  BY <1>1 DEF AddLookup, CheckClient, CheckUnique, ChoosePort, StartUnit, Path, Adding, At
<1>4. \A u \in Installed(p) : Serves(u, Registered(p)) BY <1>1, <1>3 DEF Work, Prepared
<1>5. CASE pc'[p] \in {"idle", "done"} BY <1>5, IdleWork
<1>6. CASE pc'[p] \in {"lookup", "client"} /\ arg'[p] = arg[p]
  BY <1>2, <1>3, <1>4, <1>6 DEF Work, Prepared, Spared, Emptied, At, Adding, Sweeping
<1>7. CASE pc'[p] \in {"unique", "port", "register"} /\ arg'[p] = arg[p]
           /\ Registered(p) \subseteq Installed(p) /\ (At(p, "register")' => Available(p)')
  BY <1>2, <1>3, <1>4, <1>7 DEF Work, Prepared, Spared, Emptied, At, Adding, Sweeping
<1>8. CASE AddLookup(p) \/ StartUnit(p)
  <2>1. pc'[p] \in {"idle", "done"} \/ (pc'[p] \in {"lookup", "client"} /\ arg'[p] = arg[p])
    BY <1>1, <1>8, NextTypePath, ExitPath DEF AddLookup, StartUnit, Goto, memory, TypeInv, MemoryOK
  <2> QED BY <1>5, <1>6, <2>1
<1>9. CASE CheckClient(p)
  <2>1. CASE Exit(p) BY <1>1, <2>1, <1>5, ExitPath
  <2>2. CASE ~ OtherHost(p) /\ Goto(p, "unique") /\ UNCHANGED memory
    <3>1. pc[p] = "client" /\ pc'[p] = "unique" /\ arg'[p] = arg[p]
      BY <1>1, <1>9, <2>2 DEF CheckClient, At, Goto, memory, TypeInv, MemoryOK
    <3>2. ASSUME NEW s \in Registered(p) PROVE s \in Installed(p)
      <4>1. Client(p) \in ClientNames /\ Host(p) \in Hosts BY <1>1, Places
      <4>2. address[Client(p)] # {} BY <3>2, <4>1 DEF Sited, Named, Registered
      <4>3. address[Client(p)] \subseteq {Host(p)} BY <2>2, <3>2 DEF OtherHost
      <4>4. Host(p) \in address[Client(p)] BY <4>2, <4>3
      <4>5. \A q \in Procs : ~ Pending(q, Client(p), s, Host(p)) BY <3>1 DEF Pending
      <4> QED BY <3>2, <4>1, <4>4, <4>5 DEF Sited, Found, Registered, Installed
    <3> QED BY <1>7, <3>1, <3>2 DEF At
  <2> QED BY <1>9, <2>1, <2>2 DEF CheckClient
<1>10. CASE CheckUnique(p) \/ ChoosePort(p)
  <2>1. pc[p] \in {"unique", "port"} BY <1>10 DEF CheckUnique, ChoosePort, At
  <2>2. Registered(p) \subseteq Installed(p) BY <1>1, <2>1 DEF Work, Prepared
  <2>3. pc'[p] = "idle" \/ (pc'[p] \in {"port", "register"} /\ arg'[p] = arg[p])
    BY <1>1, <1>10, ExitPath DEF CheckUnique, ChoosePort, At, Goto, memory, TypeInv, MemoryOK
  <2>4. pc'[p] = "register" => Available(p) /\ job'[p] = job[p]
    BY <1>1, <1>10, ExitPath DEF CheckUnique, ChoosePort, At, Goto, memory, TypeInv, MemoryOK
  <2>5. pc'[p] = "register" => Available(p)' BY <1>2, <2>4 DEF Available
  <2> QED BY <1>5, <1>7, <2>2, <2>3, <2>5 DEF At
<1> QED BY <1>8, <1>9, <1>10

LEMMA RemoveWork ==
  ASSUME PathInv, Sited, NEW p \in Procs,
         \/ FindService(p) \/ DeleteTree(p) \/ HaltUnit(p, "halt", "uninstall")
         \/ RemoveEach(p) \/ Sweep(p) \/ HaltUnit(p, "sweephalt", "sweepunit") \/ PurgeKeys(p)
         \/ Switch(p) \/ Restart(p) \/ SwitchEach(p) \/ RestartEach(p)
  PROVE  Work(p)' /\ UNCHANGED << catalog, address, local >> /\ pc[p] \notin {"kv", "install"}
<1>1. /\ UNCHANGED << catalog, address, local >> /\ TypeInv /\ Path(p) /\ Work(p)
      /\ pc[p] \notin {"kv", "install"}
  BY DEF FindService, DeleteTree, HaltUnit, RemoveEach, Sweep, PurgeKeys, Switch, Restart, SwitchEach,
         RestartEach, At, world, PathInv, Sited
<1>2. Registered(p)' = Registered(p) /\ Installed(p)' = Installed(p) BY <1>1, Surroundings
<1> SUFFICES Work(p)' BY <1>1
<1>3. CASE FindService(p)
  <2>1. pc[p] = "lookup" /\ arg[p].cmd \in {"remove", "removeall", "uninstall"} \cup Switching
    BY <1>1, <1>3 DEF FindService, Path, At
  <2>2. CASE Exit(p) BY <1>1, <2>2, ExitPath, IdleWork
  <2>3. CASE RemoveFails(p) /\ arg[p].cmd \notin Switching
             /\ Matches(Registered(p), job[p].type, job[p].alias) = {}
    <3>1. \/ pc'[p] = "idle"
          \/ /\ arg'[p] = arg[p] /\ todo'[p] = todo[p]
             /\ \/ arg[p].cmd = "remove" /\ pc'[p] \in {"done", "lookup"}
                \/ arg[p].cmd # "remove" /\ pc'[p] = "each"
      BY <1>1, <2>1, <2>3, AfterRemovePath
    <3>2. arg[p].cmd = "uninstall" => Registered(p) \subseteq todo[p]
      BY <1>1, <2>1, <2>3 DEF Work, Emptied, Matches
    <3> QED BY <1>2, <2>1, <2>3, <3>1, <3>2 DEF Work, Prepared, Spared, Emptied, At, Adding, Sweeping, Switching
  <2>4. CASE \E s \in Matches(Registered(p), job[p].type, job[p].alias) :
               /\ job' = [job EXCEPT ![p] = s]
               /\ Goto(p, IF arg[p].cmd \in Switching THEN "act" ELSE "deregister")
               /\ UNCHANGED << arg, rest, todo, missing >>
    <3>1. PICK s \in Matches(Registered(p), job[p].type, job[p].alias) :
            /\ job'[p] = s /\ arg'[p] = arg[p] /\ todo'[p] = todo[p]
            /\ pc'[p] = (IF arg[p].cmd \in Switching THEN "act" ELSE "deregister")
      BY <1>1, <2>4 DEF Goto, TypeInv, MemoryOK
    <3>2. s \in Registered(p) /\ s.type = job[p].type /\ s.alias = job[p].alias BY <3>1 DEF Matches
    <3>3. arg[p].cmd = "uninstall" =>
            \A u \in Registered(p) : u \in todo[p] \/ (u.type = job[p].type /\ u.alias = job[p].alias)
      BY <1>1, <2>1 DEF Work, Emptied
    <3> QED BY <1>2, <3>1, <3>2, <3>3 DEF Work, Prepared, Spared, Emptied, At, Adding, Sweeping, Switching
  <2> QED BY <1>3, <2>1, <2>2, <2>3, <2>4 DEF FindService, Switching
<1>4. CASE DeleteTree(p) \/ HaltUnit(p, "halt", "uninstall") \/ HaltUnit(p, "sweephalt", "sweepunit")
           \/ PurgeKeys(p)
  <2>1. /\ arg'[p] = arg[p] /\ job'[p] = job[p] /\ todo'[p] = todo[p]
        /\ \/ pc[p] \in {"deltree", "halt"} /\ pc'[p] \in {"halt", "uninstall"}
           \/ pc[p] = "sweephalt" /\ pc'[p] = "sweepunit"
           \/ pc'[p] = "purge"
    BY <1>1, <1>4 DEF DeleteTree, HaltUnit, PurgeKeys, At, Goto, memory, TypeInv, MemoryOK
  <2> QED BY <1>1, <1>2, <2>1 DEF Work, Prepared, Spared, Emptied, At, Adding, Sweeping
<1>5. CASE RemoveEach(p)
  <2>1. arg[p].cmd = "uninstall" => Registered(p) \subseteq todo[p]
    BY <1>1, <1>5 DEF RemoveEach, Work, Emptied, At
  <2>2. arg[p].cmd \in {"removeall", "uninstall"} BY <1>1, <1>5 DEF RemoveEach, Path, At
  <2>3. CASE todo[p] = {} /\ Goto(p, AfterEach(p)) /\ UNCHANGED << job, todo >>
    <3>1. pc'[p] \in {"list", "done"} /\ arg'[p] = arg[p]
      BY <1>1, <1>5, <2>3 DEF RemoveEach, AfterEach, Goto, TypeInv, MemoryOK
    <3> QED BY <1>2, <2>1, <2>3, <3>1 DEF Work, Prepared, Spared, Emptied, At, Adding, Sweeping
  <2>4. CASE \E s \in todo[p] : /\ job' = [job EXCEPT ![p] = WithPort(s, 0)]
                                /\ todo' = [todo EXCEPT ![p] = StillToDo(p, s)]
                                /\ Goto(p, "lookup")
    <3>1. PICK s \in todo[p] : /\ job'[p] = WithPort(s, 0) /\ todo'[p] = todo[p] \ {s}
                               /\ pc'[p] = "lookup" /\ arg'[p] = arg[p]
      BY <1>1, <1>5, <2>4 DEF RemoveEach, StillToDo, Goto, TypeInv, MemoryOK
    <3>2. job'[p].type = s.type /\ job'[p].alias = s.alias BY <3>1 DEF WithPort
    <3> QED BY <1>2, <2>1, <2>2, <3>1, <3>2 DEF Work, Prepared, Spared, Emptied, At, Adding, Sweeping
  <2> QED BY <1>5, <2>3, <2>4 DEF RemoveEach
<1>6. CASE Sweep(p)
  <2>1. /\ arg'[p] = arg[p] /\ pc[p] = "sweep"
        /\ \/ pc'[p] \in {"purge", "done"}
           \/ \E u \in todo[p] : /\ job'[p] = u /\ todo'[p] = todo[p] \ {u} /\ pc'[p] = "sweephalt"
    BY <1>1, <1>6 DEF Sweep, AfterSweep, StillToDo, At, Goto, TypeInv, MemoryOK
  <2> QED BY <1>1, <1>2, <2>1 DEF Work, Prepared, Spared, Emptied, At, Adding, Sweeping
<1>7. CASE Switch(p) \/ Restart(p) \/ SwitchEach(p) \/ RestartEach(p)
  <2>1. pc'[p] \in {"idle", "done", "react", "all", "allreact"}
    BY <1>1, <1>7, ExitPath DEF Switch, Restart, SwitchEach, RestartEach, Goto, TypeInv, MemoryOK
  <2> QED BY <2>1 DEF Work, Prepared, Spared, Emptied, At, Adding, Sweeping
<1> QED BY <1>1, <1>3, <1>4, <1>5, <1>6, <1>7

\* The new service is pending, and those the client had are on this host.
LEMMA RegisterSited ==
  ASSUME PathInv, Sited, NEW p \in Procs, Register(p),
         \A q \in Procs \ {p} : pc[q] = "idle" /\ pc'[q] = "idle"
  PROVE  Sited'
<1>1. /\ TypeInv /\ Path(p) /\ Work(p) /\ pc[p] = "register"
      /\ Client(p) \in ClientNames /\ Host(p) \in Hosts
  BY Places DEF Register, At, PathInv, Sited
<1>2. /\ pc'[p] \in {"kv", "install"} /\ arg'[p] = arg[p] /\ job'[p] = job[p] /\ UNCHANGED local
      /\ address' = [address EXCEPT ![Client(p)] = {Host(p)}]
  BY <1>1 DEF Register, Goto, memory, TypeInv, MemoryOK
<1>3. /\ Registered(p) \subseteq Installed(p) /\ Available(p) /\ arg[p].cmd = "add"
      /\ \A u \in Installed(p) : Serves(u, Registered(p))
  BY <1>1 DEF Work, Prepared, At, Path, Adding
<1>4. catalog' = [catalog EXCEPT ![Client(p)] = Registered(p) \cup {job[p]}]
  BY <1>3 DEF Register, Without, SameID, Available, Registered
<1>5. Registered(p)' = Registered(p) \cup {job[p]} /\ Installed(p)' = Installed(p)
  BY <1>1, <1>2, <1>4 DEF Registered, Installed, Client, Host, TypeInv, WorldOK
<1>6. /\ address'[Client(p)] = {Host(p)}
      /\ \A n \in ClientNames \ {Client(p)} : address'[n] = address[n] /\ catalog'[n] = catalog[n]
  BY <1>1, <1>2, <1>4 DEF TypeInv, WorldOK
<1>7. Found'
  <2>1. ASSUME NEW n \in ClientNames, NEW s \in catalog'[n], NEW h \in address'[n]
        PROVE  s \in local'[h] \/ \E q \in Procs : Pending(q, n, s, h)'
    <3>1. CASE n = Client(p) /\ s = job[p]
      BY <1>2, <1>6, <2>1, <3>1 DEF Pending, Client, Host
    <3>2. CASE n = Client(p) /\ s # job[p]
      BY <1>2, <1>3, <1>5, <1>6, <2>1, <3>2 DEF Registered, Installed, Client, Host
    <3>3. CASE n # Client(p)
      <4>1. s \in catalog[n] /\ h \in address[n] BY <1>6, <2>1, <3>3
      <4>2. \A q \in Procs : ~ Pending(q, n, s, h) BY <1>1 DEF Pending
      <4> QED BY <1>2, <4>1, <4>2 DEF Sited, Found
    <3> QED BY <3>1, <3>2, <3>3
  <2> QED BY <2>1 DEF Found
<1>8. Named'
  BY <1>1, <1>6 DEF Sited, Named, Client, Host
<1>9. Work(p)'
  <2>1. \A u \in Installed(p) : ~ SameID(u, job[p])
    BY <1>3 DEF Serves, Available, SameID
  <2>2. \A u \in Installed(p) : Serves(u, Registered(p) \cup {job[p]}) BY <1>3 DEF Serves
  <2>3. Prepared(p)'
    <3>1. \A u \in Installed(p)' : ~ SameID(u, job[p]') BY <1>2, <1>5, <2>1
    <3>2. \A u \in Installed(p)' : Serves(u, Registered(p)') BY <1>5, <2>2
    <3>3. job[p]' \in Registered(p)' BY <1>2, <1>5
    <3> QED BY <1>2, <3>1, <3>2, <3>3 DEF Prepared, At, SameID, Serves
  <2>4. Spared(p)' /\ Emptied(p)'
    BY <1>2, <1>3 DEF Spared, Emptied, At, Sweeping
  <2> QED BY <2>3, <2>4 DEF Work
<1>10. \A q \in Procs \ {p} : Work(q)' BY IdleWork
<1> QED BY <1>7, <1>8, <1>9, <1>10 DEF Sited

LEMMA PutKeysSited ==
  ASSUME PathInv, Sited, NEW p \in Procs, PutKeys(p),
         \A q \in Procs \ {p} : pc[q] = "idle" /\ pc'[q] = "idle"
  PROVE  Sited'
<1>1. /\ TypeInv /\ Work(p) /\ pc[p] = "kv" /\ pc'[p] = "install"
      /\ arg'[p] = arg[p] /\ job'[p] = job[p] /\ UNCHANGED << catalog, address, local >>
  BY DEF PutKeys, At, Goto, memory, TypeInv, MemoryOK, PathInv, Sited
<1>2. Registered(p)' = Registered(p) /\ Installed(p)' = Installed(p) BY <1>1, Surroundings
<1>3. ASSUME NEW n, NEW s, NEW h, NEW q \in Procs, Pending(q, n, s, h) PROVE Pending(p, n, s, h)'
  BY <1>1, <1>3 DEF Pending, Client, Host
<1>4. Found' BY <1>1, <1>3 DEF Sited, Found
<1>5. Named' BY <1>1 DEF Sited, Named
<1>6. Work(p)'
  BY <1>1, <1>2 DEF Work, Prepared, Spared, Emptied, At, Adding, Sweeping, SameID, Serves
<1>7. \A q \in Procs \ {p} : Work(q)' BY IdleWork
<1> QED BY <1>4, <1>5, <1>6, <1>7 DEF Sited

LEMMA InstallSited ==
  ASSUME PathInv, Sited, NEW p \in Procs, InstallUnit(p),
         \A q \in Procs \ {p} : pc[q] = "idle" /\ pc'[q] = "idle"
  PROVE  Sited'
<1>1. /\ TypeInv /\ Path(p) /\ Work(p) /\ pc[p] = "install"
      /\ Client(p) \in ClientNames /\ Host(p) \in Hosts /\ UNCHANGED << catalog, address >>
  BY Places DEF InstallUnit, At, PathInv, Sited
<1>2. /\ job[p] \in Registered(p) /\ \A u \in Installed(p) : ~ SameID(u, job[p])
      /\ \A u \in Installed(p) : Serves(u, Registered(p))
      /\ arg[p].cmd = "add"
  BY <1>1 DEF Work, Prepared, Path, Adding
<1>3. /\ local' = [local EXCEPT ![Host(p)] = @ \cup {job[p]}]
      /\ pc'[p] = "start" /\ arg'[p] = arg[p]
  BY <1>1, <1>2 DEF InstallUnit, Goto, memory, TypeInv, MemoryOK
<1>4. /\ local'[Host(p)] = Installed(p) \cup {job[p]}
      /\ \A h \in Hosts \ {Host(p)} : local'[h] = local[h]
  BY <1>1, <1>3 DEF TypeInv, WorldOK, Installed
<1>5. Registered(p)' = Registered(p) /\ Installed(p)' = Installed(p) \cup {job[p]}
  BY <1>1, <1>4 DEF Registered, Installed, Client, Host
<1>6. Found'
  <2>1. ASSUME NEW n \in ClientNames, NEW s \in catalog[n], NEW h \in address[n]
        PROVE  s \in local'[h]
    <3>1. h \in Hosts BY <1>1, <2>1 DEF TypeInv, WorldOK
    <3>2. CASE s \in local[h] BY <1>4, <3>1, <3>2 DEF Installed
    <3>3. CASE \E q \in Procs : Pending(q, n, s, h)
      <4>1. Pending(p, n, s, h) BY <3>3 DEF Pending
      <4> QED BY <1>4, <4>1 DEF Pending
    <3> QED BY <2>1, <3>2, <3>3 DEF Sited, Found
  <2> QED BY <1>1, <2>1 DEF Found
<1>7. Named' BY <1>1 DEF Sited, Named
<1>8. Work(p)'
  <2>1. \A u \in Installed(p)' : Serves(u, Registered(p)')
    BY <1>2, <1>5 DEF Serves, SameID
  <2> QED BY <1>2, <1>3, <2>1 DEF Work, Prepared, Spared, Emptied, At, Adding, Sweeping
<1>9. \A q \in Procs \ {p} : Work(q)' BY IdleWork
<1> QED BY <1>6, <1>7, <1>8, <1>9 DEF Sited

\* One service goes from the catalog.
LEMMA DeregisterSited ==
  ASSUME PathInv, AliasGloballyUnique, Sited, NEW p \in Procs, Deregister(p) \/ Purge(p),
         \A q \in Procs \ {p} : pc[q] = "idle" /\ pc'[q] = "idle"
  PROVE  Sited'
<1>1. /\ TypeInv /\ Path(p) /\ Work(p) /\ pc[p] \in {"deregister", "purge"}
      /\ Client(p) \in ClientNames /\ UNCHANGED << address, local >>
  BY Places DEF Deregister, Purge, At, PathInv, Sited
<1>2. \A n \in ClientNames : catalog'[n] \subseteq catalog[n]
  BY <1>1 DEF Deregister, Purge, Without, TypeInv, WorldOK
<1>3. CASE Deregister(p)
  <2>1. /\ pc[p] = "deregister" /\ pc'[p] = "deltree" /\ arg'[p] = arg[p] /\ job'[p] = job[p]
        /\ todo'[p] = todo[p] /\ job[p] \in Registered(p)
        /\ Registered(p)' = Without(Registered(p), job[p])
    BY <1>1, <1>3 DEF Deregister, At, Goto, memory, TypeInv, MemoryOK, WorldOK, Work, Spared,
                      Registered, Client
  <2>2. ~ Serves(job[p], Registered(p)')
    BY <2>1 DEF Serves, Without, SameID
  <2>3. ASSUME arg[p].cmd = "uninstall" PROVE Registered(p)' \subseteq todo[p]
    <3>1. ASSUME NEW s \in Registered(p)' PROVE s \in todo[p]
      <4>1. s \in Registered(p) /\ ~ SameID(s, job[p]) BY <2>1, <3>1 DEF Without, SameID
      <4>2. s # job[p] BY <4>1 DEF SameID
      <4>3. ~ (s.type = job[p].type /\ s.alias = job[p].alias)
        BY <1>1, <2>1, <4>1, <4>2 DEF AliasGloballyUnique, Registered
      <4> QED BY <1>1, <2>1, <2>3, <4>1, <4>3 DEF Work, Emptied
    <3> QED BY <3>1
  <2>4. Work(p)'
    BY <2>1, <2>2, <2>3 DEF Work, Prepared, Spared, Emptied, At, Adding, Sweeping, Serves, SameID
  <2> QED BY <1>1, <1>2, <2>4, Moves
<1>4. CASE Purge(p)
  <2>1. pc'[p] \in {"purgekv", "done"} BY <1>1, <1>4 DEF Purge, Goto, TypeInv, MemoryOK
  <2>2. Work(p)' BY <2>1 DEF Work, Prepared, Spared, Emptied, At, Adding, Sweeping
  <2> QED BY <1>1, <1>2, <2>2, Moves
<1> QED BY <1>3, <1>4

\* A unit goes that serves no registered service.
LEMMA UninstallSited ==
  ASSUME PathInv, Sited, NEW p \in Procs, UninstallUnit(p) \/ SweepUnit(p),
         \A q \in Procs \ {p} : pc[q] = "idle" /\ pc'[q] = "idle"
  PROVE  Sited'
<1>1. /\ TypeInv /\ Path(p) /\ Work(p) /\ pc[p] \in {"uninstall", "sweepunit"}
      /\ Client(p) \in ClientNames /\ Host(p) \in Hosts /\ UNCHANGED << catalog, address >>
  BY Places DEF UninstallUnit, SweepUnit, At, PathInv, Sited
<1>2. \A s \in Registered(p) : ~ SameID(s, job[p])
  BY <1>1 DEF Work, Spared, Serves, SameID
<1>3. /\ Without(local[Host(p)], job[p]) \subseteq local'[Host(p)]
      /\ \A h \in Hosts \ {Host(p)} : local'[h] = local[h]
  BY <1>1 DEF UninstallUnit, SweepUnit, Without, TypeInv, WorldOK
<1>4. Registered(p)' = Registered(p) BY <1>1 DEF Registered, Client
<1>5. Found'
  <2>1. ASSUME NEW n \in ClientNames, NEW s \in catalog[n], NEW h \in address[n]
        PROVE  s \in local'[h]
    <3>1. h \in Hosts /\ ClientName[h] = n BY <1>1, <2>1 DEF TypeInv, WorldOK, Sited, Named
    <3>2. s \in local[h]
      BY <1>1, <2>1 DEF Sited, Found, Pending
    <3>3. CASE h = Host(p)
      <4>1. s \in Registered(p) BY <2>1, <3>1, <3>3 DEF Registered, Client, Host
      <4>2. ~ SameID(s, job[p]) BY <1>2, <4>1
      <4>3. s \in local[Host(p)] BY <3>2, <3>3
      <4>4. s \in Without(local[Host(p)], job[p]) BY <4>2, <4>3 DEF Without, SameID
      <4> QED BY <1>3, <3>3, <4>4
    <3>4. CASE h # Host(p) BY <1>3, <3>1, <3>2, <3>4
    <3> QED BY <3>3, <3>4
  <2> QED BY <1>1, <2>1 DEF Found
<1>6. Named' BY <1>1 DEF Sited, Named
<1>7. Work(p)'
  <2>1. CASE UninstallUnit(p)
    <3>1. pc[p] = "uninstall" /\ arg[p].cmd \in {"remove", "removeall", "uninstall"}
      BY <1>1, <2>1 DEF UninstallUnit, Path, At
    <3>2. AfterRemove(p) \/ RemoveFails(p) BY <2>1 DEF UninstallUnit
    <3>3. \/ pc'[p] = "idle"
          \/ /\ arg'[p] = arg[p] /\ todo'[p] = todo[p]
             /\ \/ arg[p].cmd = "remove" /\ pc'[p] \in {"done", "lookup"}
                \/ arg[p].cmd # "remove" /\ pc'[p] = "each"
      BY <1>1, <3>1, <3>2, AfterRemovePath
    <3>4. arg[p].cmd = "uninstall" => Registered(p) \subseteq todo[p]
      BY <1>1, <3>1 DEF Work, Emptied
    <3> QED BY <1>4, <3>1, <3>3, <3>4 DEF Work, Prepared, Spared, Emptied, At, Adding, Sweeping
  <2>2. CASE SweepUnit(p)
    <3>1. CASE Exit(p) BY <1>1, <3>1, ExitPath, IdleWork
    <3>2. CASE Goto(p, "sweep") /\ UNCHANGED memory
      <4>1. pc'[p] = "sweep" /\ arg'[p] = arg[p] /\ todo'[p] = todo[p] /\ pc[p] = "sweepunit"
        BY <1>1, <2>2, <3>2 DEF SweepUnit, At, Goto, memory, TypeInv, MemoryOK
      <4> QED BY <1>1, <1>4, <4>1 DEF Work, Prepared, Spared, Emptied, At, Adding, Sweeping, Serves
    <3> QED BY <2>2, <3>1, <3>2 DEF SweepUnit
  <2> QED BY <2>1, <2>2
<1>8. \A q \in Procs \ {p} : Work(q)' BY IdleWork
<1> QED BY <1>5, <1>6, <1>7, <1>8 DEF Sited

LEMMA StepSited ==
  ASSUME InTurn, FreeInv, Sited, NEW p \in Procs, Begin(p) \/ Step(p)
  PROVE  Sited'
<1>1. PathInv /\ AliasGloballyUnique /\ \A q \in Procs \ {p} : pc[q] = "idle" /\ pc'[q] = "idle"
  BY StepAlone DEF FreeInv
<1>2. CASE Register(p) \/ PutKeys(p) \/ InstallUnit(p)
  BY <1>1, <1>2, RegisterSited, PutKeysSited, InstallSited
<1>3. CASE Deregister(p) \/ Purge(p) \/ UninstallUnit(p) \/ SweepUnit(p)
  BY <1>1, <1>3, DeregisterSited, UninstallSited
<1>4. CASE \/ Begin(p) \/ Finish(p) \/ ListUnits(p) \/ CheckInstallation(p) \/ Snapshot(p)
           \/ AddLookup(p) \/ CheckClient(p) \/ CheckUnique(p) \/ ChoosePort(p) \/ StartUnit(p)
  <2>1. Work(p)' BY <1>1, <1>4, PreflightWork, AddWork
  <2>2. UNCHANGED << catalog, address, local >> /\ pc[p] \notin {"kv", "install"}
    BY <1>4 DEF Begin, Finish, ListUnits, CheckInstallation, Snapshot, AddLookup, CheckClient,
                CheckUnique, ChoosePort, StartUnit, world, At
  <2> QED BY <1>1, <2>1, <2>2, Moves
<1>5. CASE \/ FindService(p) \/ DeleteTree(p) \/ HaltUnit(p, "halt", "uninstall")
           \/ RemoveEach(p) \/ Sweep(p) \/ HaltUnit(p, "sweephalt", "sweepunit") \/ PurgeKeys(p)
           \/ Switch(p) \/ Restart(p) \/ SwitchEach(p) \/ RestartEach(p)
  BY <1>1, <1>5, RemoveWork, Moves
<1> QED BY <1>2, <1>3, <1>4, <1>5 DEF Step

LEMMA StepSiteInv == InTurn /\ SiteInv /\ [Next]_vars => SiteInv'
<1> SUFFICES ASSUME InTurn, SiteInv, [Next]_vars PROVE SiteInv' OBVIOUS
<1>1. FreeInv /\ FreeInv' BY StepFreeInv DEF SiteInv
<1>2. CASE UNCHANGED vars
  <2>1. UNCHANGED << catalog, address, local, pc, arg, job, todo, faults >>
    BY <1>2 DEF vars, world, memory
  <2>2. ASSUME Sited PROVE Sited'
    <3>1. Found' BY <2>1, <2>2 DEF Sited, Found, Pending, Client, Host
    <3>2. Named' BY <2>1, <2>2 DEF Sited, Named
    <3>3. \A p : Registered(p)' = Registered(p) /\ Installed(p)' = Installed(p)
      BY <2>1, Surroundings
    <3>4. \A p \in Procs : Work(p)'
      BY <2>1, <2>2, <3>3 DEF Sited, Work, Prepared, Spared, Emptied, At, Available, Serves, SameID
    <3> QED BY <3>1, <3>2, <3>4 DEF Sited
  <2> QED BY <1>1, <2>1, <2>2 DEF SiteInv
<1>3. ASSUME NEW p \in Procs, Begin(p) \/ Step(p) PROVE SiteInv'
  <2>1. UNCHANGED faults
    BY <1>3 DEF Begin, Step, Finish, ListUnits, CheckInstallation, AddLookup, CheckClient, CheckUnique,
      ChoosePort, Register, PutKeys, InstallUnit, StartUnit, FindService, Deregister, DeleteTree,
      HaltUnit, UninstallUnit, Snapshot, RemoveEach, Sweep, SweepUnit, Purge, PurgeKeys,
      Switch, Restart, SwitchEach, RestartEach
  <2> QED BY <1>1, <1>3, <2>1, StepSited DEF SiteInv
<1>4. ASSUME NEW p \in Procs, Fail(p) \/ IgnoredError(p) \/ ReadError(p) PROVE SiteInv'
  <2>1. faults \in Nat BY MonitoringConstants DEF SiteInv, FreeInv, PathInv, TypeInv
  <2>2. faults' # 0 BY <1>4, <2>1 DEF Fail, IgnoredError, ReadError, Fault
  <2> QED BY <1>1, <2>2 DEF SiteInv
<1> QED BY <1>2, <1>3, <1>4 DEF Next

\* Hosts may share a client name: without a fault every service that is registered under a name
\* runs at the address the name has in Consul (pmm.go:474-486: "Prevent duplicate clients").
\* AddMetrics checks the address once; Register sets it for all services of the client.
THEOREM FoundWhereRegistered == InTurn => (Spec => []FoundAtAddress)
<1> SUFFICES ASSUME InTurn PROVE Spec => []FoundAtAddress OBVIOUS
<1>1. Init => SiteInv
  <2> SUFFICES ASSUME Init PROVE SiteInv OBVIOUS
  <2>1. FreeInv
    BY InitPath DEF Init, FreeInv, Alone, AliasGloballyUnique, NameFree
  <2>2. Found /\ Named BY DEF Init, Found, Named
  <2>3. \A p \in Procs : Work(p)
    BY DEF Init, Work, Prepared, Spared, Emptied, At, Adding, Sweeping
  <2> QED BY <2>1, <2>2, <2>3 DEF SiteInv, Sited
<1>2. SiteInv /\ [Next]_vars => SiteInv' BY StepSiteInv
<1>3. SiteInv => FoundAtAddress
  <2> SUFFICES ASSUME SiteInv, AllIdle, faults = 0,
                      NEW n \in ClientNames, NEW s \in catalog[n], NEW h \in address[n]
               PROVE  s \in local[h]
    BY DEF FoundAtAddress
  <2> QED BY DEF SiteInv, Sited, Found, Pending, AllIdle, At
<1> QED BY <1>1, <1>2, <1>3, PTL DEF Spec
=============================================================================
