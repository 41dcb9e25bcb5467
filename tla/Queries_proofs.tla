---------------------------- MODULE Queries_proofs ----------------------------
(***************************************************************************)
(* Proofs about Queries: types, that commands on one database leave the    *)
(* others alone, and that a command that reports success has done what it  *)
(* reports.                                                                *)
(***************************************************************************)
EXTENDS Queries, TLAPS

USE DEF Adding, Removing, Others, Instanced

LEMMA NoJobOK == NoJob \in Jobs
<1>1. \E j \in Jobs : TRUE
  <2>1. PICK t \in Types, a \in Aliases : TRUE BY QueriesConstants
  <2>2. [type |-> t, alias |-> a] \in Jobs BY DEF Jobs
  <2> QED BY <2>2
<1> QED BY <1>1 DEF NoJob

LEMMA OfOK ==
  ASSUME NEW S, S \subseteq UUIDs, NEW j
  PROVE  Of(S, j) \subseteq Of(UUIDs, j) /\ Of(S, j) \subseteq S
BY DEF Of

LEMMA FreshOK == Agents \ Used # {} => Fresh \in Agents
BY DEF Fresh

-----------------------------------------------------------------------------
(* What the ways to leave a step do to the memory *)

MemoryInv == MemoryOK /\ KnowsInstance

LEMMA ExitType ==
  ASSUME MemoryInv, NEW p \in Procs, Exit(p)
  PROVE  MemoryInv'
BY NoJobOK DEF MemoryInv, MemoryOK, KnowsInstance, Exit, Goto

LEMMA ReturnType ==
  ASSUME MemoryInv, NEW p \in Procs, Return(p, "each")
  PROVE  MemoryInv'
BY NoJobOK DEF MemoryInv, MemoryOK, KnowsInstance, Return, Goto

LEMMA FailsType ==
  ASSUME MemoryInv, NEW p \in Procs, Fails(p)
  PROVE  MemoryInv'
BY ExitType, ReturnType DEF Fails

LEMMA GotoType ==
  ASSUME MemoryInv, NEW p \in Procs, NEW l \in Adding \cup Removing \cup Others, Goto(p, l),
         UNCHANGED memory, l \in Instanced => uuid[p] \in Of(UUIDs, job[p])
  PROVE  MemoryInv'
BY DEF MemoryInv, MemoryOK, KnowsInstance, Goto, memory

LEMMA AfterRemoveType ==
  ASSUME MemoryInv, NEW p \in Procs, AfterRemove(p)
  PROVE  MemoryInv'
BY GotoType, ReturnType DEF AfterRemove

-----------------------------------------------------------------------------
(* Types: one lemma per action *)

LEMMA TypeParts == TypeOK <=> ServerOK /\ HostOK /\ MemoryInv /\ faults \in 0 .. MaxFaults
BY DEF TypeOK, MemoryInv

LEMMA FinishType ==
  ASSUME TypeOK, NEW p \in Procs, Finish(p)
  PROVE  TypeOK'
<1>1. MemoryInv' BY ExitType, TypeParts DEF Finish, At
<1>2. ServerOK' /\ HostOK' /\ faults' = faults
  BY TypeParts DEF Finish, ServerOK, HostOK, server, host
<1> QED BY <1>1, <1>2, TypeParts DEF TypeOK, MemoryInv

LEMMA NoDuplicateType ==
  ASSUME TypeOK, NEW p \in Procs, NEW to \in Adding \cup Removing \cup Others, NEW from,
         to \notin Instanced, NoDuplicate(p, from, to)
  PROVE  TypeOK'
<1>1. MemoryInv' BY ExitType, GotoType, TypeParts DEF NoDuplicate, At
<1>2. ServerOK' /\ HostOK' /\ faults' = faults
  BY TypeParts DEF NoDuplicate, ServerOK, HostOK, server, host
<1> QED BY <1>1, <1>2, TypeParts DEF TypeOK, MemoryInv

LEMMA GetParentType ==
  ASSUME TypeOK, NEW p \in Procs, GetParent(p)
  PROVE  TypeOK'
<1>1. MemoryInv' BY GotoType, TypeParts DEF GetParent, Unknown, At
<1>2. ServerOK' /\ HostOK' /\ faults' = faults
  BY TypeParts DEF GetParent, ServerOK, HostOK, server, host
<1> QED BY <1>1, <1>2, TypeParts DEF TypeOK, MemoryInv

LEMMA GetParentAgainType ==
  ASSUME TypeOK, NEW p \in Procs, GetParentAgain(p)
  PROVE  TypeOK'
<1>1. MemoryInv' BY ExitType, GotoType, TypeParts DEF GetParentAgain, At
<1>2. ServerOK' /\ HostOK' /\ faults' = faults
  BY TypeParts DEF GetParentAgain, ServerOK, HostOK, server, host
<1> QED BY <1>1, <1>2, TypeParts DEF TypeOK, MemoryInv

LEMMA WipeAgentType ==
  ASSUME TypeOK, NEW p \in Procs, NEW to \in Adding \cup Removing \cup Others, NEW from,
         to \notin Instanced, WipeAgent(p, from, to)
  PROVE  TypeOK'
<1>1. MemoryInv' BY GotoType, TypeParts DEF WipeAgent, At
<1>2. ServerOK' /\ HostOK' /\ faults' = faults
  BY TypeParts DEF WipeAgent, ServerOK, HostOK, server, host
<1> QED BY <1>1, <1>2, TypeParts DEF TypeOK, MemoryInv

LEMMA UndeleteType ==
  ASSUME TypeOK, NEW p \in Procs, Undelete(p)
  PROVE  TypeOK'
<1>1. MemoryInv' BY ExitType, GotoType, TypeParts DEF Undelete, At, MemoryInv, KnowsInstance
<1>2. ServerOK' /\ HostOK' /\ faults' = faults
  BY TypeParts DEF Undelete, ServerOK, HostOK, server, host
<1> QED BY <1>1, <1>2, TypeParts DEF TypeOK, MemoryInv

LEMMA WriteFileType ==
  ASSUME TypeOK, NEW p \in Procs, WriteFile(p)
  PROVE  TypeOK'
<1>1. MemoryInv' BY GotoType, TypeParts DEF WriteFile, At, MemoryInv, KnowsInstance
<1>2. uuid[p] \in UUIDs
  BY TypeParts DEF WriteFile, At, MemoryInv, KnowsInstance, Of
<1>3. ServerOK' /\ HostOK' /\ faults' = faults
  BY <1>2, TypeParts DEF WriteFile, ServerOK, HostOK, server, host
<1> QED BY <1>1, <1>3, TypeParts DEF TypeOK, MemoryInv

LEMMA InstallUnitType ==
  ASSUME TypeOK, NEW p \in Procs, InstallUnit(p)
  PROVE  TypeOK'
<1>1. MemoryInv' BY ExitType, GotoType, TypeParts DEF InstallUnit, At, MemoryInv, KnowsInstance
<1>2. ServerOK' /\ HostOK' /\ faults' = faults
  BY TypeParts DEF InstallUnit, ServerOK, HostOK, server, host, Type, MemoryInv, MemoryOK, Jobs
<1> QED BY <1>1, <1>2, TypeParts DEF TypeOK, MemoryInv

LEMMA StartUnitType ==
  ASSUME TypeOK, NEW p \in Procs, StartUnit(p)
  PROVE  TypeOK'
<1>1. MemoryInv' BY ExitType, GotoType, TypeParts DEF StartUnit, At, MemoryInv, KnowsInstance
<1>2. ServerOK' /\ HostOK' /\ faults' = faults
  BY TypeParts DEF StartUnit, ServerOK, HostOK, server, host, Type, MemoryInv, MemoryOK, Jobs
<1> QED BY <1>1, <1>2, TypeParts DEF TypeOK, MemoryInv

LEMMA StartToolType ==
  ASSUME TypeOK, NEW p \in Procs, StartTool(p)
  PROVE  TypeOK'
<1>1. MemoryInv' BY ExitType, GotoType, TypeParts DEF StartTool, At, MemoryInv, KnowsInstance
<1>2. uuid[p] \in UUIDs
  BY TypeParts DEF StartTool, At, MemoryInv, KnowsInstance, Of
<1>3. ServerOK' /\ HostOK' /\ faults' = faults
  BY <1>2, TypeParts DEF StartTool, ServerOK, HostOK, server, host
<1> QED BY <1>1, <1>3, TypeParts DEF TypeOK, MemoryInv

LEMMA RegisterType ==
  ASSUME TypeOK, NEW p \in Procs, Register(p)
  PROVE  TypeOK'
<1>1. MemoryInv' BY GotoType, TypeParts DEF Register, At, MemoryInv, KnowsInstance
<1>2. ServerOK' /\ HostOK' /\ faults' = faults
  BY TypeParts DEF Register, ServerOK, HostOK, server, host, Tagged, Type, MemoryInv, MemoryOK, Jobs
<1> QED BY <1>1, <1>2, TypeParts DEF TypeOK, MemoryInv

LEMMA PutKeysType ==
  ASSUME TypeOK, NEW p \in Procs, PutKeys(p)
  PROVE  TypeOK'
<1>1. MemoryInv' BY GotoType, TypeParts DEF PutKeys, At, MemoryInv, KnowsInstance
<1>2. uuid[p] \in UUIDs
  BY TypeParts DEF PutKeys, At, MemoryInv, KnowsInstance, Of
<1>3. ServerOK' /\ HostOK' /\ faults' = faults
  BY <1>2, TypeParts DEF PutKeys, ServerOK, HostOK, server, host, Of
<1> QED BY <1>1, <1>3, TypeParts DEF TypeOK, MemoryInv

LEMMA StopToolType ==
  ASSUME TypeOK, NEW p \in Procs, StopTool(p)
  PROVE  TypeOK'
<1>1. MemoryInv' BY FailsType, GotoType, TypeParts DEF StopTool, At, MemoryInv, KnowsInstance
<1>2. ServerOK' /\ HostOK' /\ faults' = faults
  BY TypeParts DEF StopTool, ServerOK, HostOK, server, host
<1> QED BY <1>1, <1>2, TypeParts DEF TypeOK, MemoryInv

LEMMA DeleteInstanceType ==
  ASSUME TypeOK, NEW p \in Procs, DeleteInstance(p)
  PROVE  TypeOK'
<1>1. MemoryInv' BY FailsType, GotoType, TypeParts DEF DeleteInstance, At
<1>2. ServerOK' /\ HostOK' /\ faults' = faults
  BY TypeParts DEF DeleteInstance, ServerOK, HostOK, server, host
<1> QED BY <1>1, <1>2, TypeParts DEF TypeOK, MemoryInv

LEMMA DeleteTreeType ==
  ASSUME TypeOK, NEW p \in Procs, DeleteTree(p)
  PROVE  TypeOK'
<1>1. MemoryInv' BY GotoType, TypeParts DEF DeleteTree, At
<1>2. ServerOK' /\ HostOK' /\ faults' = faults
  BY TypeParts DEF DeleteTree, ServerOK, HostOK, server, host, Of
<1> QED BY <1>1, <1>2, TypeParts DEF TypeOK, MemoryInv

LEMMA RetagType ==
  ASSUME TypeOK, NEW p \in Procs, Retag(p)
  PROVE  TypeOK'
<1>1. MemoryInv' BY AfterRemoveType, GotoType, TypeParts DEF Retag, At
<1>2. ServerOK' /\ HostOK' /\ faults' = faults
  BY TypeParts DEF Retag, ServerOK, HostOK, server, host, Remaining, Type, MemoryInv, MemoryOK, Jobs
<1> QED BY <1>1, <1>2, TypeParts DEF TypeOK, MemoryInv

LEMMA UninstallUnitType ==
  ASSUME TypeOK, NEW p \in Procs, UninstallUnit(p)
  PROVE  TypeOK'
<1>1. MemoryInv' BY AfterRemoveType, FailsType, TypeParts DEF UninstallUnit, At
<1>2. ServerOK' /\ HostOK' /\ faults' = faults
  BY TypeParts DEF UninstallUnit, ServerOK, HostOK, server, host
<1> QED BY <1>1, <1>2, TypeParts DEF TypeOK, MemoryInv

LEMMA SweepUnitType ==
  ASSUME TypeOK, NEW p \in Procs, SweepUnit(p)
  PROVE  TypeOK'
<1>1. MemoryInv' BY ExitType, GotoType, TypeParts DEF SweepUnit, At
<1>2. ServerOK' /\ HostOK' /\ faults' = faults
  BY TypeParts DEF SweepUnit, ServerOK, HostOK, server, host
<1> QED BY <1>1, <1>2, TypeParts DEF TypeOK, MemoryInv

LEMMA PurgeKeysType ==
  ASSUME TypeOK, NEW p \in Procs, PurgeKeys(p)
  PROVE  TypeOK'
<1>1. MemoryInv' BY GotoType, TypeParts DEF PurgeKeys, At
<1>2. ServerOK' /\ HostOK' /\ faults' = faults
  BY TypeParts DEF PurgeKeys, ServerOK, HostOK, server, host, OfType
<1> QED BY <1>1, <1>2, TypeParts DEF TypeOK, MemoryInv

LEMMA StopType ==
  ASSUME TypeOK, NEW p \in Procs, Stop(p)
  PROVE  TypeOK'
<1>1. MemoryInv' BY GotoType, TypeParts DEF Stop, At
<1>2. ServerOK' /\ HostOK' /\ faults' = faults
  BY TypeParts DEF Stop, ServerOK, HostOK, server, host, Type, MemoryInv, MemoryOK, Jobs
<1> QED BY <1>1, <1>2, TypeParts DEF TypeOK, MemoryInv

LEMMA WakeType ==
  ASSUME TypeOK, NEW p \in Procs, NEW to \in Adding \cup Removing \cup Others, NEW from,
         to \in Instanced => uuid[p] \in Of(UUIDs, job[p]), Wake(p, from, to)
  PROVE  TypeOK'
<1>1. MemoryInv' BY FailsType, GotoType, TypeParts DEF Wake, At
<1>2. ServerOK' /\ HostOK' /\ faults' = faults
  BY TypeParts DEF Wake, ServerOK, HostOK, server, host, Type, MemoryInv, MemoryOK, Jobs
<1> QED BY <1>1, <1>2, TypeParts DEF TypeOK, MemoryInv

LEMMA HaltUnitType ==
  ASSUME TypeOK, NEW p \in Procs, NEW to \in Adding \cup Removing \cup Others, NEW from,
         to \notin Instanced, HaltUnit(p, from, to)
  PROVE  TypeOK'
<1>1. MemoryInv' BY GotoType, TypeParts DEF HaltUnit, At
<1>2. ServerOK' /\ HostOK' /\ faults' = faults
  BY TypeParts DEF HaltUnit, ServerOK, HostOK, server, host, Type, MemoryInv, MemoryOK, Jobs
<1> QED BY <1>1, <1>2, TypeParts DEF TypeOK, MemoryInv

LEMMA BeginType == ASSUME TypeOK, NEW p \in Procs, Begin(p) PROVE TypeOK'
<1>1. MemoryInv'
  BY NoJobOK, TypeParts DEF Begin, At, Goto, MemoryInv, MemoryOK, KnowsInstance
<1>2. ServerOK' /\ HostOK' /\ faults' = faults
  BY TypeParts DEF Begin, ServerOK, HostOK, server, host
<1> QED BY <1>1, <1>2, TypeParts DEF TypeOK, MemoryInv

LEMMA VerdictType ==
  ASSUME MemoryInv, NEW p \in Procs, NEW O \in SUBSET Types, NEW M \in SUBSET Types,
         At(p, "check"), Verdict(p, O, M)
  PROVE  MemoryInv'
<1>1. CASE cmd[p] = "repair"
  BY <1>1 DEF Verdict, At, Goto, MemoryInv, MemoryOK, KnowsInstance
<1>2. CASE cmd[p] # "repair" BY <1>2, ExitType, GotoType DEF Verdict
<1> QED BY <1>1, <1>2

LEMMA CheckInstallationType ==
  ASSUME TypeOK, NEW p \in Procs, CheckInstallation(p)
  PROVE  TypeOK'
<1>1. Orphans \subseteq Types /\ Missing \subseteq Types
  BY TypeParts DEF Orphans, Missing, HostOK
<1>2. MemoryInv' BY <1>1, VerdictType, TypeParts DEF CheckInstallation
<1>3. ServerOK' /\ HostOK' /\ faults' = faults
  BY TypeParts DEF CheckInstallation, ServerOK, HostOK, server, host
<1> QED BY <1>2, <1>3, TypeParts DEF TypeOK, MemoryInv

LEMMA ReadServiceType == ASSUME TypeOK, NEW p \in Procs, ReadService(p) PROVE TypeOK'
<1>1. tags[Type(p)] \subseteq Aliases
  BY TypeParts DEF ServerOK, MemoryInv, MemoryOK, Type, Jobs
<1>2. MemoryInv'
  BY <1>1, TypeParts DEF ReadService, At, Goto, MemoryInv, MemoryOK, KnowsInstance
<1>3. ServerOK' /\ HostOK' /\ faults' = faults
  BY TypeParts DEF ReadService, ServerOK, HostOK, server, host
<1> QED BY <1>2, <1>3, TypeParts DEF TypeOK, MemoryInv

LEMMA FindAgentType == ASSUME TypeOK, NEW p \in Procs, FindAgent(p) PROVE TypeOK'
<1>1. MemoryInv'
  BY TypeParts DEF FindAgent, At, Goto, MemoryInv, MemoryOK, KnowsInstance, HostOK
<1>2. ServerOK' /\ HostOK' /\ faults' = faults
  BY TypeParts DEF FindAgent, ServerOK, HostOK, server, host
<1> QED BY <1>1, <1>2, TypeParts DEF TypeOK, MemoryInv

LEMMA InstallAgentType ==
  ASSUME TypeOK, NEW p \in Procs,
         NEW from, NEW to \in Adding \cup Removing \cup Others, to \notin Instanced,
         InstallAgent(p, from, to)
  PROVE  TypeOK'
<1>1. PICK n \in agents \cup {Fresh} :
        agents' = agents \cup {n} /\ conf' = n /\ agent' = [agent EXCEPT ![p] = n]
  BY DEF InstallAgent
<1>2. n \in Agents BY FreshOK, TypeParts DEF InstallAgent, ServerOK
<1>3. MemoryInv'
  BY <1>1, <1>2, TypeParts DEF InstallAgent, Goto, MemoryInv, MemoryOK, KnowsInstance
<1>4. ServerOK' /\ HostOK' /\ faults' = faults
  BY <1>1, <1>2, TypeParts DEF InstallAgent, ServerOK, HostOK
<1> QED BY <1>3, <1>4, TypeParts DEF TypeOK, MemoryInv

LEMMA FindInstanceType == ASSUME TypeOK, NEW p \in Procs, FindInstance(p) PROVE TypeOK'
<1>1. Found(p) \subseteq Of(UUIDs, job[p]) /\ Found(p) \subseteq UUIDs
  BY TypeParts DEF Found, Of, ServerOK
<1>2. MemoryInv'
  BY <1>1, TypeParts DEF FindInstance, At, Goto, MemoryInv, MemoryOK, KnowsInstance
<1>3. ServerOK' /\ HostOK' /\ faults' = faults
  BY TypeParts DEF FindInstance, ServerOK, HostOK, server, host
<1> QED BY <1>2, <1>3, TypeParts DEF TypeOK, MemoryInv

LEMMA CreateInstanceType ==
  ASSUME TypeOK, NEW p \in Procs, CreateInstance(p)
  PROVE  TypeOK'
<1> DEFINE same == { u \in Of(instances, job[p]) : u.agent = agent[p] }
           u == [type |-> Type(p), alias |-> job[p].alias, agent |-> agent[p],
                 copy |-> Cardinality(same) + 1]
<1>1. /\ u \in UUIDs
      /\ instances' = instances \cup {u} /\ live' = live \cup {u}
      /\ uuid' = [uuid EXCEPT ![p] = u]
  BY DEF CreateInstance
<1>2. u \in Of(UUIDs, job[p]) BY <1>1 DEF Of, Type
<1> HIDE DEF u
<1>3. MemoryInv'
  BY <1>1, <1>2, TypeParts, ZenonT(60) DEF CreateInstance, Goto, MemoryInv, MemoryOK, KnowsInstance
<1>4. ServerOK' /\ HostOK' /\ faults' = faults
  BY <1>1, TypeParts DEF CreateInstance, ServerOK, HostOK, host
<1> QED BY <1>3, <1>4, TypeParts DEF TypeOK, MemoryInv

LEMMA FindServiceType == ASSUME TypeOK, NEW p \in Procs, FindService(p) PROVE TypeOK'
<1>1. tags[Type(p)] \subseteq Aliases
  BY TypeParts DEF ServerOK, MemoryInv, MemoryOK, Type, Jobs
<1>2. MemoryInv'
  <2>1. CASE job[p].alias \in tags[Type(p)]
    BY <1>1, <2>1, TypeParts DEF FindService, At, Goto, MemoryInv, MemoryOK, KnowsInstance
  <2>2. CASE job[p].alias \notin tags[Type(p)]
    BY <2>2, FailsType, TypeParts DEF FindService
  <2> QED BY <2>1, <2>2
<1>3. ServerOK' /\ HostOK' /\ faults' = faults
  BY TypeParts DEF FindService, ServerOK, HostOK, server, host
<1> QED BY <1>2, <1>3, TypeParts DEF TypeOK, MemoryInv

LEMMA GetKeyType == ASSUME TypeOK, NEW p \in Procs, GetKey(p) PROVE TypeOK'
<1>1. Of(keys, job[p]) \subseteq Of(UUIDs, job[p]) /\ Of(keys, job[p]) \subseteq UUIDs
  BY TypeParts DEF Of, ServerOK
<1>2. MemoryInv'
  <2>1. CASE Fails(p) BY <2>1, FailsType, TypeParts
  <2>2. CASE ~ Fails(p)
    BY <1>1, <2>2, TypeParts
    DEF GetKey, At, Goto, MemoryInv, MemoryOK, KnowsInstance, HostOK
  <2> QED BY <2>1, <2>2
<1>3. ServerOK' /\ HostOK' /\ faults' = faults
  BY TypeParts DEF GetKey, ServerOK, HostOK, server, host
<1> QED BY <1>2, <1>3, TypeParts DEF TypeOK, MemoryInv

LEMMA SnapshotType == ASSUME TypeOK, NEW p \in Procs, Snapshot(p) PROVE TypeOK'
<1>1. MemoryInv'
  BY TypeParts DEF Snapshot, At, Goto, ToRemove, MemoryInv, MemoryOK, KnowsInstance
<1>2. ServerOK' /\ HostOK' /\ faults' = faults
  BY TypeParts DEF Snapshot, ServerOK, HostOK, server, host
<1> QED BY <1>1, <1>2, TypeParts DEF TypeOK, MemoryInv

LEMMA RemoveEachType == ASSUME TypeOK, NEW p \in Procs, RemoveEach(p) PROVE TypeOK'
<1>1. MemoryInv'
  <2>1. CASE todo[p] = {} /\ UNCHANGED << job, todo >>
    BY <2>1, TypeParts DEF RemoveEach, At, Goto, MemoryInv, MemoryOK, KnowsInstance
  <2>2. ASSUME NEW j \in todo[p], job' = [job EXCEPT ![p] = j],
               todo' = [todo EXCEPT ![p] = StillToDo(p, j)], Goto(p, "lookup")
        PROVE  MemoryInv'
    BY <2>2, TypeParts
    DEF RemoveEach, At, Goto, StillToDo, MemoryInv, MemoryOK, KnowsInstance
  <2> QED BY <2>1, <2>2 DEF RemoveEach
<1>2. ServerOK' /\ HostOK' /\ faults' = faults
  BY TypeParts DEF RemoveEach, ServerOK, HostOK, server, host
<1> QED BY <1>1, <1>2, TypeParts DEF TypeOK, MemoryInv

LEMMA ListUnitsType == ASSUME TypeOK, NEW p \in Procs, ListUnits(p) PROVE TypeOK'
<1>1. MemoryInv'
  BY TypeParts DEF ListUnits, At, Goto, MemoryInv, MemoryOK, KnowsInstance, HostOK
<1>2. ServerOK' /\ HostOK' /\ faults' = faults
  BY TypeParts DEF ListUnits, ServerOK, HostOK, server, host
<1> QED BY <1>1, <1>2, TypeParts DEF TypeOK, MemoryInv

LEMMA ForTypeOK == \A t \in Types : [NoJob EXCEPT !.type = t] \in Jobs
BY NoJobOK DEF Jobs

LEMMA SweepType == ASSUME TypeOK, NEW p \in Procs, Sweep(p) PROVE TypeOK'
<1>1. MemoryInv'
  <2>1. CASE units[p] = {} /\ UNCHANGED << job, units >>
    BY <2>1, TypeParts DEF Sweep, At, Goto, MemoryInv, MemoryOK, KnowsInstance
  <2>2. ASSUME NEW t \in units[p], ForType(p, t), units' = [units EXCEPT ![p] = @ \ {t}],
               Goto(p, "sweephalt")
        PROVE  MemoryInv'
    <3>1. [NoJob EXCEPT !.type = t] \in Jobs
      BY ForTypeOK, TypeParts DEF MemoryInv, MemoryOK
    <3> QED BY <2>2, <3>1, TypeParts
            DEF Sweep, At, Goto, ForType, MemoryInv, MemoryOK, KnowsInstance
  <2> QED BY <2>1, <2>2 DEF Sweep
<1>2. ServerOK' /\ HostOK' /\ faults' = faults
  BY TypeParts DEF Sweep, ServerOK, HostOK, server, host
<1> QED BY <1>1, <1>2, TypeParts DEF TypeOK, MemoryInv

LEMMA PurgeType == ASSUME TypeOK, NEW p \in Procs, Purge(p) PROVE TypeOK'
<1>1. CASE lost[p] = {} /\ Goto(p, "done") /\ UNCHANGED << tags, job, todo, lost >>
  <2>1. MemoryInv'
    BY <1>1, TypeParts DEF Purge, At, Goto, MemoryInv, MemoryOK, KnowsInstance
  <2>2. ServerOK' /\ HostOK' /\ faults' = faults
    BY <1>1, TypeParts DEF Purge, ServerOK, HostOK, host
  <2> QED BY <2>1, <2>2, TypeParts DEF TypeOK, MemoryInv
<1>2. ASSUME NEW t \in lost[p],
             tags' = [tags EXCEPT ![t] = {}],
             ForType(p, t), lost' = [lost EXCEPT ![p] = @ \ {t}],
             todo' = [todo EXCEPT ![p] =
                        { [type |-> t, alias |-> u.alias] : u \in OfType(keys, t) }],
             Goto(p, "names")
      PROVE  TypeOK'
  <2>1. t \in Types BY TypeParts DEF MemoryInv, MemoryOK
  <2>2. [NoJob EXCEPT !.type = t] \in Jobs BY <2>1, ForTypeOK
  <2>3. { [type |-> t, alias |-> u.alias] : u \in OfType(keys, t) } \subseteq Jobs
    BY <2>1, TypeParts DEF OfType, ServerOK, UUIDs, Jobs
  <2>4. MemoryInv'
    BY <1>2, <2>2, <2>3, TypeParts
    DEF Purge, At, Goto, ForType, MemoryInv, MemoryOK, KnowsInstance
  <2>5. ServerOK' /\ HostOK' /\ faults' = faults
    BY <1>2, TypeParts DEF Purge, ServerOK, HostOK, host
  <2> QED BY <2>4, <2>5, TypeParts DEF TypeOK, MemoryInv
<1> QED BY <1>1, <1>2 DEF Purge

LEMMA PurgeInstanceType ==
  ASSUME TypeOK, NEW p \in Procs, PurgeInstance(p)
  PROVE  TypeOK'
<1>1. MemoryInv'
  BY TypeParts DEF PurgeInstance, At, Goto, StillToDo, MemoryInv, MemoryOK, KnowsInstance
<1>2. ServerOK' /\ HostOK' /\ faults' = faults
  BY TypeParts DEF PurgeInstance, ServerOK, HostOK, host
<1> QED BY <1>1, <1>2, TypeParts DEF TypeOK, MemoryInv

-----------------------------------------------------------------------------
(* Types: faults *)

LEMMA CountFault ==
  ASSUME TypeOK, NEW kind, Fault(kind)
  PROVE  faults' \in 0 .. MaxFaults
BY QueriesConstants DEF TypeOK, Fault

LEMMA FailType ==
  ASSUME TypeOK, NEW p \in Procs, Fail(p) \/ FailInstall(p)
  PROVE  TypeOK'
<1>1. faults' \in 0 .. MaxFaults BY CountFault DEF Fail, FailInstall
<1>2. MemoryInv' BY ExitType, TypeParts DEF Fail, FailInstall
<1>3. ServerOK' /\ HostOK'
  BY FreshOK, TypeParts DEF Fail, FailInstall, ServerOK, HostOK, server, host
<1> QED BY <1>1, <1>2, <1>3 DEF TypeOK, MemoryInv

LEMMA IgnoredErrorType ==
  ASSUME TypeOK, NEW p \in Procs, IgnoredError(p)
  PROVE  TypeOK'
<1>1. faults' \in 0 .. MaxFaults BY CountFault DEF IgnoredError
<1>2. MemoryInv'
  <2>1. CASE Fails(p) BY <2>1, FailsType, TypeParts
  <2>2. CASE (Goto(p, "sweep") \/ Goto(p, "purge")) /\ UNCHANGED memory
    BY <2>2, GotoType, TypeParts
  <2>3. CASE /\ \/ todo' = [todo EXCEPT ![p] = {}]
                \/ \E j \in todo[p] : todo' = [todo EXCEPT ![p] = @ \ {j}]
             /\ UNCHANGED << pc, cmd, job, uuid, seen, agent, units, lost >>
    BY <2>3, TypeParts DEF MemoryInv, MemoryOK, KnowsInstance
  <2> QED BY <2>1, <2>2, <2>3 DEF IgnoredError
<1>3. ServerOK' /\ HostOK'
  BY TypeParts DEF IgnoredError, ServerOK, HostOK, server, host
<1> QED BY <1>1, <1>2, <1>3 DEF TypeOK, MemoryInv

LEMMA ReadErrorType ==
  ASSUME TypeOK, NEW p \in Procs, ReadError(p)
  PROVE  TypeOK'
<1>1. faults' \in 0 .. MaxFaults BY CountFault DEF ReadError
<1>2. MemoryInv'
  BY VerdictType, GotoType, TypeParts DEF ReadError, HostOK
<1>3. ServerOK' /\ HostOK'
  BY TypeParts DEF ReadError, ServerOK, HostOK, server, host
<1> QED BY <1>1, <1>2, <1>3 DEF TypeOK, MemoryInv

LEMMA LossType ==
  ASSUME TypeOK, LoseServer \/ Reinstall
  PROVE  TypeOK'
<1>1. faults' \in 0 .. MaxFaults BY CountFault DEF LoseServer, Reinstall
<1>2. MemoryInv'
  BY TypeParts DEF LoseServer, Reinstall, memory, MemoryInv, MemoryOK, KnowsInstance
<1>3. ServerOK' /\ HostOK'
  BY TypeParts DEF LoseServer, Reinstall, ServerOK, HostOK, server, host
<1> QED BY <1>1, <1>2, <1>3 DEF TypeOK, MemoryInv

-----------------------------------------------------------------------------
(* Every step keeps the types *)

LEMMA StepType == ASSUME TypeOK, NEW p \in Procs, Step(p) PROVE TypeOK'
<1>1. CASE Finish(p) BY <1>1, FinishType
<1>2. CASE CheckInstallation(p) BY <1>2, CheckInstallationType
<1>3. CASE NoDuplicate(p, "lookup", "unique") BY <1>3, NoDuplicateType
<1>4. CASE NoDuplicate(p, "unique", "service") BY <1>4, NoDuplicateType
<1>5. CASE ReadService(p) BY <1>5, ReadServiceType
<1>6. CASE FindAgent(p) BY <1>6, FindAgentType
<1>7. CASE WipeAgent(p, "wipe", "install") BY <1>7, WipeAgentType
<1>8. CASE InstallAgent(p, "install", "parent") BY <1>8, InstallAgentType
<1>9. CASE GetParent(p) BY <1>9, GetParentType
<1>10. CASE WipeAgent(p, "rewipe", "reinstall") BY <1>10, WipeAgentType
<1>11. CASE InstallAgent(p, "reinstall", "reparent") BY <1>11, InstallAgentType
<1>12. CASE GetParentAgain(p) BY <1>12, GetParentAgainType
<1>13. CASE FindInstance(p) BY <1>13, FindInstanceType
<1>14. CASE Undelete(p) BY <1>14, UndeleteType
<1>15. CASE CreateInstance(p) BY <1>15, CreateInstanceType
<1>16. CASE WriteFile(p) BY <1>16, WriteFileType
<1>17. CASE InstallUnit(p) BY <1>17, InstallUnitType
<1>18. CASE StartUnit(p) BY <1>18, StartUnitType
<1>19. CASE Wake(p, "wake", "starttool")
  BY <1>19, WakeType, TypeParts DEF Wake, At, MemoryInv, KnowsInstance
<1>20. CASE StartTool(p) BY <1>20, StartToolType
<1>21. CASE Register(p) BY <1>21, RegisterType
<1>22. CASE PutKeys(p) BY <1>22, PutKeysType
<1>23. CASE FindService(p) BY <1>23, FindServiceType
<1>24. CASE Wake(p, "rmwake", "getkey") BY <1>24, WakeType
<1>25. CASE GetKey(p) BY <1>25, GetKeyType
<1>26. CASE StopTool(p) BY <1>26, StopToolType
<1>27. CASE DeleteInstance(p) BY <1>27, DeleteInstanceType
<1>28. CASE DeleteTree(p) BY <1>28, DeleteTreeType
<1>29. CASE Retag(p) BY <1>29, RetagType
<1>30. CASE HaltUnit(p, "halt", "uninstall") BY <1>30, HaltUnitType
<1>31. CASE UninstallUnit(p) BY <1>31, UninstallUnitType
<1>32. CASE Snapshot(p) BY <1>32, SnapshotType
<1>33. CASE RemoveEach(p) BY <1>33, RemoveEachType
<1>34. CASE ListUnits(p) BY <1>34, ListUnitsType
<1>35. CASE Sweep(p) BY <1>35, SweepType
<1>36. CASE HaltUnit(p, "sweephalt", "sweepunit") BY <1>36, HaltUnitType
<1>37. CASE SweepUnit(p) BY <1>37, SweepUnitType
<1>38. CASE Purge(p) BY <1>38, PurgeType
<1>39. CASE PurgeInstance(p) BY <1>39, PurgeInstanceType
<1>40. CASE PurgeKeys(p) BY <1>40, PurgeKeysType
<1>41. CASE Stop(p) BY <1>41, StopType
<1>42. CASE Wake(p, "rouse", "done") BY <1>42, WakeType
<1> QED BY <1>1, <1>2, <1>3, <1>4, <1>5, <1>6, <1>7, <1>8, <1>9, <1>10, <1>11, <1>12,
           <1>13, <1>14, <1>15, <1>16, <1>17, <1>18, <1>19, <1>20, <1>21, <1>22, <1>23,
           <1>24, <1>25, <1>26, <1>27, <1>28, <1>29, <1>30, <1>31, <1>32, <1>33, <1>34,
           <1>35, <1>36, <1>37, <1>38, <1>39, <1>40, <1>41, <1>42
        DEF Step

LEMMA TypeInductive == ASSUME TypeOK, [Next]_vars PROVE TypeOK'
<1>1. CASE UNCHANGED vars
  BY <1>1 DEF TypeOK, ServerOK, HostOK, MemoryOK, KnowsInstance, vars, server, host, memory
<1>2. CASE LoseServer \/ Reinstall BY <1>2, LossType
<1>3. ASSUME NEW p \in Procs,
             Begin(p) \/ Step(p) \/ Fail(p) \/ FailInstall(p) \/ IgnoredError(p) \/ ReadError(p)
      PROVE  TypeOK'
  BY <1>3, BeginType, StepType, FailType, IgnoredErrorType, ReadErrorType
<1> QED BY <1>1, <1>2, <1>3 DEF Next

LEMMA TypeInit == Init => TypeOK
BY NoJobOK, QueriesConstants
DEF Init, TypeOK, ServerOK, HostOK, MemoryOK, KnowsInstance

\* Every variable keeps its type, and wherever the code uses the UUID of an instance -
\* when it undeletes, starts, stops or deletes it - it has one, and of the database it
\* works on (queries.go:109-119 and 225-234).
THEOREM QueriesTypeCorrect == Spec => []TypeOK
BY TypeInit, TypeInductive, PTL DEF Spec

-----------------------------------------------------------------------------
(* Tags: what a process has read of the service is still so when it writes it *)

\* From the read of the service to the last use of it.
Holding == {"agent", "wipe", "install", "parent", "rewipe", "reinstall", "reparent",
            "instance", "undelete", "create", "file", "unit", "startunit", "wake",
            "starttool", "register", "rmwake", "getkey", "stoptool", "delete", "deltree",
            "retag"}
Purging == {"purge", "names", "purgekeys"}
USE DEF Holding, Purging

\* The tags in memory are those in Consul.
SeenIsCurrent == \A p \in Procs : pc[p] \in Holding => seen[p] = tags[Type(p)]

\* Only repair purges, and an idle process has no command.
RightCommand ==
  \A p \in Procs :
    /\ pc[p] \in Purging => cmd[p] = "repair"
    /\ pc[p] = "idle" => cmd[p] = "none"

TagsInv == SeenIsCurrent /\ RightCommand

LEMMA ExitTags ==
  ASSUME TypeOK, OneAtATime, NEW p \in Procs, Exit(p)
  PROVE  TagsInv'
BY DEF TypeOK, MemoryOK, OneAtATime, Exit, Goto, TagsInv, SeenIsCurrent, RightCommand

LEMMA ReturnTags ==
  ASSUME TypeOK, OneAtATime, NEW p \in Procs, Return(p, "each")
  PROVE  TagsInv'
BY DEF TypeOK, MemoryOK, OneAtATime, Return, Goto, TagsInv, SeenIsCurrent, RightCommand

LEMMA FailsTags ==
  ASSUME TypeOK, OneAtATime, NEW p \in Procs, Fails(p)
  PROVE  TagsInv'
BY ExitTags, ReturnTags DEF Fails

\* The memory but for uuid and agent stays, and the process goes on holding its tags, or
\* lets go of them.
LEMMA GoesOn ==
  ASSUME TypeOK, TagsInv, OneAtATime, NEW p \in Procs, NEW l, Goto(p, l),
         UNCHANGED << tags, cmd, job, seen >>,
         l \in Holding => pc[p] \in Holding,
         l \in Purging => pc[p] \in Purging, l # "idle"
  PROVE  TagsInv'
BY DEF TypeOK, MemoryOK, OneAtATime, Goto, TagsInv, SeenIsCurrent, RightCommand, Type

\* The process holds no tags afterwards.
LEMMA LetsGo ==
  ASSUME TypeOK, TagsInv, OneAtATime, NEW p \in Procs, NEW l, Goto(p, l), UNCHANGED cmd,
         l \notin Holding, l \in Purging => cmd[p] = "repair", l # "idle"
  PROVE  TagsInv'
BY DEF TypeOK, MemoryOK, OneAtATime, Goto, TagsInv, SeenIsCurrent, RightCommand

LEMMA AfterRemoveTags ==
  ASSUME TypeOK, TagsInv, OneAtATime, NEW p \in Procs, AfterRemove(p)
  PROVE  TagsInv'
BY LetsGo, ReturnTags DEF AfterRemove, memory

-----------------------------------------------------------------------------
(* Tags: every step *)

\* The steps of an add.
LEMMA AddTags ==
  ASSUME TypeOK, TagsInv, OneAtATime, NEW p \in Procs,
         \/ NoDuplicate(p, "lookup", "unique") \/ NoDuplicate(p, "unique", "service")
         \/ ReadService(p) \/ FindAgent(p)
         \/ WipeAgent(p, "wipe", "install") \/ InstallAgent(p, "install", "parent")
         \/ GetParent(p)
         \/ WipeAgent(p, "rewipe", "reinstall") \/ InstallAgent(p, "reinstall", "reparent")
         \/ GetParentAgain(p)
         \/ FindInstance(p) \/ Undelete(p) \/ CreateInstance(p) \/ WriteFile(p)
         \/ InstallUnit(p) \/ StartUnit(p) \/ Wake(p, "wake", "starttool")
         \/ StartTool(p) \/ Register(p) \/ PutKeys(p)
  PROVE  TagsInv'
<1>1. CASE NoDuplicate(p, "lookup", "unique") \/ NoDuplicate(p, "unique", "service")
  BY <1>1, ExitTags, LetsGo DEF NoDuplicate, memory
<1>2. CASE ReadService(p)
  BY <1>2 DEF ReadService, Goto, Type, TypeOK, MemoryOK, OneAtATime, TagsInv, SeenIsCurrent,
              RightCommand, server
<1>3. CASE FindAgent(p) BY <1>3, GoesOn DEF FindAgent, At, server
<1>4. CASE WipeAgent(p, "wipe", "install") \/ WipeAgent(p, "rewipe", "reinstall")
  BY <1>4, GoesOn DEF WipeAgent, At, server, memory
<1>5. CASE InstallAgent(p, "install", "parent") \/ InstallAgent(p, "reinstall", "reparent")
  BY <1>5, GoesOn DEF InstallAgent, At
<1>6. CASE GetParent(p) \/ GetParentAgain(p)
  BY <1>6, ExitTags, GoesOn DEF GetParent, GetParentAgain, Unknown, At, server, memory
<1>7. CASE FindInstance(p) BY <1>7, GoesOn DEF FindInstance, At, server
<1>8. CASE Undelete(p) BY <1>8, ExitTags, GoesOn DEF Undelete, At, memory
<1>9. CASE CreateInstance(p) BY <1>9, GoesOn DEF CreateInstance, At
<1>10. CASE WriteFile(p) BY <1>10, GoesOn DEF WriteFile, At, server, memory
<1>11. CASE InstallUnit(p) \/ StartUnit(p)
  BY <1>11, ExitTags, GoesOn DEF InstallUnit, StartUnit, At, server, memory
<1>12. CASE Wake(p, "wake", "starttool")
  BY <1>12, FailsTags, GoesOn DEF Wake, At, server, memory
<1>13. CASE StartTool(p) BY <1>13, ExitTags, GoesOn DEF StartTool, At, server, memory
<1>14. CASE Register(p) \/ PutKeys(p) BY <1>14, LetsGo DEF Register, PutKeys, memory
<1> QED BY <1>1, <1>2, <1>3, <1>4, <1>5, <1>6, <1>7, <1>8, <1>9, <1>10, <1>11, <1>12, <1>13,
           <1>14

\* The steps of a removal, and of start, stop and restart.
LEMMA RemoveTags ==
  ASSUME TypeOK, TagsInv, OneAtATime, NEW p \in Procs,
         \/ FindService(p) \/ Wake(p, "rmwake", "getkey") \/ GetKey(p) \/ StopTool(p)
         \/ DeleteInstance(p) \/ DeleteTree(p) \/ Retag(p)
         \/ HaltUnit(p, "halt", "uninstall") \/ UninstallUnit(p)
         \/ Stop(p) \/ Wake(p, "rouse", "done")
  PROVE  TagsInv'
<1>1. CASE FindService(p)
  <2>1. CASE Fails(p) BY <2>1, FailsTags
  <2>2. CASE ~ Fails(p)
    BY <1>1, <2>2 DEF FindService, Goto, Type, TypeOK, MemoryOK, OneAtATime, TagsInv,
                      SeenIsCurrent, RightCommand, server
  <2> QED BY <2>1, <2>2
<1>2. CASE Wake(p, "rmwake", "getkey")
  BY <1>2, FailsTags, GoesOn DEF Wake, At, server, memory
<1>3. CASE GetKey(p) BY <1>3, FailsTags, GoesOn DEF GetKey, At, server
<1>4. CASE StopTool(p) \/ DeleteInstance(p)
  BY <1>4, FailsTags, GoesOn DEF StopTool, DeleteInstance, At, server, memory
<1>5. CASE DeleteTree(p) BY <1>5, GoesOn DEF DeleteTree, At, memory
<1>6. CASE Retag(p) BY <1>6, AfterRemoveTags, LetsGo DEF Retag, memory
<1>7. CASE HaltUnit(p, "halt", "uninstall") BY <1>7, LetsGo DEF HaltUnit, memory
<1>8. CASE UninstallUnit(p) BY <1>8, AfterRemoveTags, FailsTags DEF UninstallUnit
<1>9. CASE Stop(p) BY <1>9, LetsGo DEF Stop, memory
<1>10. CASE Wake(p, "rouse", "done") BY <1>10, FailsTags, LetsGo DEF Wake, memory
<1> QED BY <1>1, <1>2, <1>3, <1>4, <1>5, <1>6, <1>7, <1>8, <1>9, <1>10

\* The steps of the loops, of repair, and of the end of a command.
LEMMA LoopTags ==
  ASSUME TypeOK, TagsInv, OneAtATime, NEW p \in Procs,
         \/ Finish(p) \/ CheckInstallation(p)
         \/ Snapshot(p) \/ RemoveEach(p) \/ ListUnits(p)
         \/ Sweep(p) \/ HaltUnit(p, "sweephalt", "sweepunit") \/ SweepUnit(p)
         \/ Purge(p) \/ PurgeInstance(p) \/ PurgeKeys(p)
  PROVE  TagsInv'
<1>1. CASE Finish(p) BY <1>1, ExitTags DEF Finish
<1>2. CASE CheckInstallation(p)
  BY <1>2, ExitTags, LetsGo DEF CheckInstallation, Verdict, memory
<1>3. CASE Snapshot(p) \/ RemoveEach(p) \/ ListUnits(p)
  BY <1>3, LetsGo DEF Snapshot, RemoveEach, ListUnits
<1>4. CASE Sweep(p) BY <1>4, LetsGo DEF Sweep
<1>5. CASE HaltUnit(p, "sweephalt", "sweepunit") BY <1>5, LetsGo DEF HaltUnit, memory
<1>6. CASE SweepUnit(p) BY <1>6, ExitTags, LetsGo DEF SweepUnit, memory
<1>7. CASE Purge(p) \/ PurgeKeys(p)
  <2>1. cmd[p] = "repair" BY <1>7 DEF Purge, PurgeKeys, At, TagsInv, RightCommand
  <2> QED BY <1>7, <2>1, LetsGo DEF Purge, PurgeKeys, memory
<1>8. CASE PurgeInstance(p)
  <2>1. cmd[p] = "repair" BY <1>8 DEF PurgeInstance, At, TagsInv, RightCommand
  <2>2. CASE Goto(p, "purgekeys") BY <1>8, <2>1, <2>2, LetsGo DEF PurgeInstance
  <2>3. CASE UNCHANGED pc
    BY <1>8, <2>3 DEF PurgeInstance, TagsInv, SeenIsCurrent, RightCommand, Type
  <2> QED BY <1>8, <2>2, <2>3 DEF PurgeInstance
<1> QED BY <1>1, <1>2, <1>3, <1>4, <1>5, <1>6, <1>7, <1>8

LEMMA StepTags == ASSUME TypeOK, TagsInv, OneAtATime, NEW p \in Procs, Step(p) PROVE TagsInv'
BY AddTags, RemoveTags, LoopTags DEF Step

LEMMA FaultTags ==
  ASSUME TypeOK, TagsInv, OneAtATime,
         \/ \E p \in Procs : Fail(p) \/ FailInstall(p) \/ IgnoredError(p) \/ ReadError(p)
         \/ LoseServer \/ Reinstall
  PROVE  TagsInv'
<1>1. ASSUME NEW p \in Procs, Fail(p) \/ FailInstall(p) PROVE TagsInv'
  BY <1>1, ExitTags DEF Fail, FailInstall
<1>2. ASSUME NEW p \in Procs, IgnoredError(p) PROVE TagsInv'
  <2>1. CASE Fails(p) BY <2>1, FailsTags
  <2>2. CASE Goto(p, "sweep") /\ UNCHANGED memory BY <2>2, LetsGo DEF memory
  <2>3. CASE At(p, "purgekeys") /\ Goto(p, "purge") /\ UNCHANGED memory
    BY <2>3, LetsGo DEF memory, At, TagsInv, RightCommand
  <2>4. CASE UNCHANGED << pc, cmd, job, uuid, seen, agent, units, lost >>
    BY <1>2, <2>4 DEF IgnoredError, TagsInv, SeenIsCurrent, RightCommand, Type, server
  <2> QED BY <1>2, <2>1, <2>2, <2>3, <2>4 DEF IgnoredError
<1>3. CASE LoseServer
  BY <1>3 DEF LoseServer, AllIdle, At, memory, TagsInv, SeenIsCurrent, RightCommand
<1>4. CASE Reinstall
  BY <1>4 DEF Reinstall, memory, server, TagsInv, SeenIsCurrent, RightCommand, Type
<1>5. ASSUME NEW p \in Procs, ReadError(p) PROVE TagsInv'
  BY <1>5, ExitTags, LetsGo DEF ReadError, Verdict, memory
<1> QED BY <1>1, <1>2, <1>3, <1>4, <1>5

LEMMA BeginTags ==
  ASSUME TypeOK, TagsInv, OneAtATime, NEW p \in Procs, Begin(p)
  PROVE  TagsInv'
BY DEF Begin, Goto, TypeOK, MemoryOK, OneAtATime, TagsInv, SeenIsCurrent, RightCommand

LEMMA TagsInductive ==
  ASSUME TypeOK, TagsInv, OneAtATime, [Next]_vars
  PROVE  TagsInv'
<1>1. CASE UNCHANGED vars
  BY <1>1 DEF TagsInv, SeenIsCurrent, RightCommand, Type, vars, server, memory
<1> QED BY <1>1, StepTags, FaultTags, BeginTags DEF Next

-----------------------------------------------------------------------------
\* A step that writes tags writes those that were read, but for the name it works on.
LEMMA WritesItsOwn ==
  ASSUME TypeOK, TagsInv, NEW p \in Procs, Register(p) \/ Retag(p)
  PROVE  \A j \in Jobs \ {job[p]} : (j.alias \in tags[j.type]) <=> (j.alias \in tags'[j.type])
<1> SUFFICES ASSUME NEW j \in Jobs \ {job[p]}
             PROVE  (j.alias \in tags[j.type]) <=> (j.alias \in tags'[j.type])
  OBVIOUS
<1>1. job[p] \in Jobs /\ tags \in [Types -> SUBSET Aliases]
  BY DEF TypeOK, MemoryOK, ServerOK
<1>2. seen[p] = tags[Type(p)] BY DEF Register, Retag, At, TagsInv, SeenIsCurrent
<1>3. tags' = [tags EXCEPT ![Type(p)] = Tagged(p)]
      \/ tags' = [tags EXCEPT ![Type(p)] = Remaining(p)]
  BY DEF Register, Retag
<1>4. CASE j.type # Type(p) BY <1>1, <1>3, <1>4 DEF Jobs
<1>5. CASE j.type = Type(p)
  <2>1. j.alias # job[p].alias BY <1>1, <1>5 DEF Jobs, Type
  <2>2. tags'[j.type] = Tagged(p) \/ tags'[j.type] = Remaining(p)
    BY <1>1, <1>3, <1>5 DEF Jobs
  <2> QED BY <1>2, <1>5, <2>1, <2>2 DEF Tagged, Remaining
<1> QED BY <1>4, <1>5

\* No other step of an add or a removal changes the tags.
LEMMA OnlyTwoWrite ==
  ASSUME TypeOK, TagsInv, OneAtATime, [Next]_vars, NEW p \in Procs,
         cmd[p] \in {"add", "remove"}, cmd'[p] = cmd[p]
  PROVE  Register(p) \/ Retag(p) \/ UNCHANGED tags
<1>1. CASE UNCHANGED vars BY <1>1 DEF vars, server
<1>2. CASE LoseServer BY <1>2 DEF LoseServer, AllIdle, At, TagsInv, RightCommand
<1>3. CASE Reinstall BY <1>3 DEF Reinstall, server
<1>4. ASSUME NEW q \in Procs,
             Begin(q) \/ Fail(q) \/ FailInstall(q) \/ IgnoredError(q) \/ ReadError(q)
      PROVE  UNCHANGED tags
  BY <1>4 DEF Begin, Fail, FailInstall, IgnoredError, ReadError, server
<1>5. ASSUME NEW q \in Procs, Step(q) PROVE Register(p) \/ Retag(p) \/ UNCHANGED tags
  <2>1. q = p BY DEF OneAtATime
  <2>2. CASE Purge(q) BY <2>1, <2>2 DEF Purge, At, TagsInv, RightCommand
  <2>3. CASE Register(q) \/ Retag(q) BY <2>1, <2>3
  <2>4. CASE ~ (Purge(q) \/ Register(q) \/ Retag(q))
    BY <1>5, <2>4
    DEF Step, Finish, CheckInstallation, NoDuplicate, ReadService, FindAgent, WipeAgent,
        InstallAgent, GetParent, GetParentAgain, FindInstance, Undelete, CreateInstance,
        WriteFile, InstallUnit, StartUnit, Wake, StartTool, PutKeys, FindService, GetKey,
        StopTool, DeleteInstance, DeleteTree, HaltUnit, UninstallUnit, Snapshot, RemoveEach,
        ListUnits, Sweep, SweepUnit, PurgeInstance, PurgeKeys, Stop, server
  <2> QED BY <2>2, <2>3, <2>4
<1> QED BY <1>1, <1>2, <1>3, <1>4, <1>5 DEF Next

\* With one pmm-admin at a time, an add or a remove never takes away or brings back the
\* tag of another database, although it writes all tags of the service back, many calls
\* after it read them and whatever fails in between (queries.go:161-184 and 258-290).
THEOREM OthersKeepTheirTags == OneAtATime => (Spec => TagsIndependent)
<1> SUFFICES ASSUME OneAtATime PROVE Spec => TagsIndependent
  OBVIOUS
<1> DEFINE Own == \A p \in Procs : cmd[p] \in {"add", "remove"} /\ cmd'[p] = cmd[p] =>
             \A j \in Jobs \ {job[p]} : (j.alias \in tags[j.type]) <=> (j.alias \in tags'[j.type])
<1>1. Init => TypeOK /\ TagsInv
  BY TypeInit DEF Init, TagsInv, SeenIsCurrent, RightCommand
<1>2. TypeOK /\ TagsInv /\ [Next]_vars => (TypeOK /\ TagsInv)'
  BY TypeInductive, TagsInductive
<1>3. TypeOK /\ TagsInv /\ [Next]_vars => Own
  <2> SUFFICES ASSUME TypeOK, TagsInv, [Next]_vars, NEW p \in Procs,
                      cmd[p] \in {"add", "remove"}, cmd'[p] = cmd[p]
               PROVE  \A j \in Jobs \ {job[p]} :
                        (j.alias \in tags[j.type]) <=> (j.alias \in tags'[j.type])
    OBVIOUS
  <2>1. Register(p) \/ Retag(p) \/ UNCHANGED tags BY OnlyTwoWrite
  <2>2. CASE UNCHANGED tags BY <2>2
  <2> QED BY <2>1, <2>2, WritesItsOwn
<1> QED BY <1>1, <1>2, <1>3, PTL DEF Spec, TagsIndependent

-----------------------------------------------------------------------------
(* Which command comes by which location *)

Removes == {"remove", "removeall", "uninstall"}

\* Command c may be at location l.
Comes(c, l) ==
  /\ l = "idle" <=> c = "none"
  /\ l \in Adding \ {"lookup"} => c = "add"
  /\ l \in Removing \ {"lookup"} => c \in Removes
  /\ l = "lookup" => c \in OnService \cup Removes
  /\ l \in {"snapshot", "each"} => c \in {"removeall", "uninstall"}
  /\ l = "list" => c = "uninstall"
  /\ l \in {"sweep", "sweephalt", "sweepunit"} => c \in {"repair", "uninstall"}
  /\ l \in Purging => c = "repair"
  /\ l = "check" => c # "uninstall"
  /\ l = "stop" => c \in {"stop", "restart"}
  /\ l = "rouse" => c \in {"start", "restart"}
  /\ l # "idle" => c \in Commands

Paths == \A p \in Procs : Comes(cmd[p], pc[p])

LEMMA KnownCommands == \A c \in Commands : c # "none" /\ c \in OnService \cup Removes \cup {"repair"}
BY QueriesConstants DEF OnService, Removes

LEMMA GotoPath ==
  ASSUME TypeOK, Paths, NEW p \in Procs, NEW l, Goto(p, l), UNCHANGED cmd, Comes(cmd[p], l)
  PROVE  Paths'
BY DEF TypeOK, MemoryOK, Paths, Goto

LEMMA ExitPath == ASSUME TypeOK, Paths, NEW p \in Procs, Exit(p) PROVE Paths'
<1>1. Comes("none", "idle") BY DEF Comes
<1> QED BY <1>1 DEF TypeOK, MemoryOK, Paths, Exit, Goto

LEMMA ReturnPath ==
  ASSUME TypeOK, Paths, NEW p \in Procs, cmd[p] \in {"removeall", "uninstall"} \cap Commands, Return(p, "each")
  PROVE Paths'
<1>1. Comes(cmd[p], "each") BY KnownCommands DEF Comes
<1> QED BY <1>1, GotoPath DEF Return

LEMMA FailsPath ==
  ASSUME TypeOK, Paths, NEW p \in Procs, cmd[p] \in Commands, Fails(p)
  PROVE Paths'
BY ExitPath, ReturnPath DEF Fails

LEMMA AfterRemovePath ==
  ASSUME TypeOK, Paths, NEW p \in Procs, cmd[p] \in Removes \cap Commands, AfterRemove(p)
  PROVE Paths'
<1>1. Comes(cmd[p], "done") BY KnownCommands DEF Comes
<1> QED BY <1>1, GotoPath, ReturnPath DEF AfterRemove, Removes, memory

LEMMA StepPath == ASSUME TypeOK, Paths, NEW p \in Procs, Step(p) PROVE Paths'
<1>1. Comes(cmd[p], pc[p]) BY DEF Paths
<1>2. cmd[p] \in Commands => cmd[p] # "none" BY KnownCommands
<1> USE <1>1, <1>2 DEF Comes, At
<1>3. CASE \/ Finish(p) \/ CheckInstallation(p)
           \/ NoDuplicate(p, "lookup", "unique") \/ NoDuplicate(p, "unique", "service")
  BY <1>3, KnownCommands, ExitPath, GotoPath
  DEF Finish, CheckInstallation, Verdict, NoDuplicate, memory, Removes
<1>4. CASE \/ ReadService(p) \/ FindAgent(p)
           \/ WipeAgent(p, "wipe", "install") \/ InstallAgent(p, "install", "parent")
           \/ WipeAgent(p, "rewipe", "reinstall") \/ InstallAgent(p, "reinstall", "reparent")
  BY <1>4, GotoPath DEF ReadService, FindAgent, WipeAgent, InstallAgent, memory
<1>5. CASE GetParent(p) \/ GetParentAgain(p) \/ FindInstance(p) \/ Undelete(p) \/ CreateInstance(p)
  BY <1>5, ExitPath, GotoPath DEF GetParent, GetParentAgain, Unknown, FindInstance, Undelete, CreateInstance, memory
<1>6. CASE WriteFile(p) \/ InstallUnit(p) \/ StartUnit(p) \/ StartTool(p) \/ Register(p) \/ PutKeys(p)
  BY <1>6, ExitPath, GotoPath DEF WriteFile, InstallUnit, StartUnit, StartTool, Register, PutKeys, memory
<1>7. CASE Wake(p, "wake", "starttool") \/ Wake(p, "rmwake", "getkey") \/ Wake(p, "rouse", "done")
  BY <1>7, FailsPath, GotoPath DEF Wake, memory
<1>8. CASE FindService(p)
  BY <1>8, FailsPath, GotoPath DEF FindService, OnService, Removes
<1>9. CASE GetKey(p) \/ StopTool(p) \/ DeleteInstance(p) \/ DeleteTree(p)
  BY <1>9, FailsPath, GotoPath DEF GetKey, StopTool, DeleteInstance, DeleteTree, memory
<1>10. CASE Retag(p) \/ UninstallUnit(p)
  BY <1>10, FailsPath, AfterRemovePath, GotoPath DEF Retag, UninstallUnit, memory
<1>11. CASE HaltUnit(p, "halt", "uninstall") \/ HaltUnit(p, "sweephalt", "sweepunit") \/ Stop(p)
  BY <1>11, GotoPath DEF HaltUnit, Stop, memory
<1>12. CASE Snapshot(p) \/ RemoveEach(p) \/ ListUnits(p)
  BY <1>12, GotoPath DEF Snapshot, RemoveEach, ListUnits, Removes
<1>13. CASE Sweep(p) \/ SweepUnit(p)
  BY <1>13, ExitPath, GotoPath DEF Sweep, SweepUnit, memory
<1>14. CASE Purge(p) \/ PurgeKeys(p)
  BY <1>14, GotoPath DEF Purge, PurgeKeys, memory
<1>15. CASE PurgeInstance(p)
  <2>1. CASE UNCHANGED pc BY <1>15, <2>1 DEF PurgeInstance, Paths
  <2> QED BY <1>15, <2>1, GotoPath DEF PurgeInstance
<1> QED BY <1>3, <1>4, <1>5, <1>6, <1>7, <1>8, <1>9, <1>10, <1>11, <1>12, <1>13, <1>14, <1>15 DEF Step

LEMMA NextPath == ASSUME TypeOK, Paths, [Next]_vars PROVE Paths'
<1>1. CASE UNCHANGED vars BY <1>1 DEF Paths, vars, memory
<1>2. CASE LoseServer \/ Reinstall BY <1>2 DEF Paths, LoseServer, Reinstall, memory
<1>3. ASSUME NEW p \in Procs, Begin(p) PROVE Paths'
  <2>1. PICK c \in Commands : cmd' = [cmd EXCEPT ![p] = c] /\ Goto(p, IF c = "uninstall" THEN "snapshot" ELSE "check")
    BY <1>3 DEF Begin
  <2>2. Comes(c, IF c = "uninstall" THEN "snapshot" ELSE "check") BY KnownCommands DEF Comes
  <2> QED BY <2>1, <2>2 DEF TypeOK, MemoryOK, Paths, Goto
<1>4. ASSUME NEW p \in Procs, Fail(p) \/ FailInstall(p) PROVE Paths'
  BY <1>4, ExitPath DEF Fail, FailInstall
<1>5. ASSUME NEW p \in Procs, IgnoredError(p) PROVE Paths'
  <2>1. Comes(cmd[p], pc[p]) BY DEF Paths
  <2>2. CASE cmd[p] = "uninstall" /\ pc[p] \in Removing /\ Fails(p)
    BY <2>1, <2>2, FailsPath DEF Comes
  <2>3. CASE cmd[p] = "uninstall" /\ pc[p] \in {"sweephalt", "sweepunit"} /\ Goto(p, "sweep") /\ UNCHANGED memory
    BY <2>1, <2>3, GotoPath DEF Comes, memory
  <2>4. CASE At(p, "purgekeys") /\ Goto(p, "purge") /\ UNCHANGED memory
    BY <2>1, <2>4, GotoPath DEF Comes, memory, At
  <2>5. CASE UNCHANGED << pc, cmd >> BY <2>5 DEF Paths
  <2> QED BY <1>5, <2>2, <2>3, <2>4, <2>5 DEF IgnoredError
<1>6. ASSUME NEW p \in Procs, ReadError(p) PROVE Paths'
  <2>1. Comes(cmd[p], pc[p]) BY DEF Paths
  <2> QED BY <1>6, <2>1, KnownCommands, ExitPath, GotoPath
          DEF ReadError, Verdict, At, Comes, memory, Removes
<1> QED BY <1>1, <1>2, <1>3, <1>4, <1>5, <1>6, StepPath DEF Next

LEMMA PathAlways == Spec => []Paths
<1>1. Init => Paths BY DEF Init, Paths, Comes
<1> QED BY <1>1, QueriesTypeCorrect, NextPath, PTL DEF Spec

-----------------------------------------------------------------------------
(* What an add has done so far *)

\* Instances belong to agents that QAN knows, tools and files to the agent of agent.conf, and
\* what runs has a unit.
Located == \A u \in instances : u.agent \in agents
Hosted == \A u \in tools \cup files : u.agent = conf
Running == \A t \in Types : proc[t] # 0 => t \in unit
Places == InstancesUnique /\ Located /\ Hosted /\ Running

Finding == {"instance", "undelete", "create"}
Writing == {"unit", "startunit", "wake", "starttool", "register", "keys", "done"}

Adds(p) ==
  cmd[p] = "add" =>
    /\ pc[p] \in {"install", "reinstall"} => tools = {} /\ files = {}
    /\ pc[p] = "wipe" => conf = 0
    /\ pc[p] = "rewipe" => agent[p] \notin agents
    /\ pc[p] \in {"parent", "rewipe", "reparent", "file"} \cup Finding \cup Writing => agent[p] = conf
    /\ pc[p] \in {"file"} \cup Finding \cup Writing => conf \in agents
    /\ pc[p] = "create" => Found(p) = {}
    /\ pc[p] \in {"undelete", "file"} \cup Writing =>
         uuid[p] \in Of(UUIDs, job[p]) /\ uuid[p].agent = agent[p]
    /\ pc[p] \in {"file"} \cup Writing => uuid[p] \in live
    /\ pc[p] \in Writing => uuid[p] \in files
    /\ pc[p] \in {"register", "keys", "done"} => uuid[p] \in tools /\ \E t \in Types : proc[t] = conf
    /\ pc[p] \in {"keys", "done"} => job[p].alias \in tags[Type(p)]
    /\ pc[p] = "done" => uuid[p] \in keys

Stopped(p) == pc[p] \in {"uninstall", "sweepunit"} => proc[Type(p)] = 0

CInv == Places /\ \A p \in Procs : Adds(p) /\ Stopped(p)

LEMMA JobOK == ASSUME TypeOK, NEW p \in Procs
  PROVE /\ job[p] \in Jobs /\ Type(p) \in Types /\ job[p].alias \in Aliases
        /\ job[p] = [type |-> Type(p), alias |-> job[p].alias]
        /\ \A j \in Jobs : j.type = Type(p) /\ j.alias = job[p].alias => j = job[p]
BY DEF TypeOK, MemoryOK, Jobs, Type

LEMMA PlacesStay ==
  ASSUME Places, UNCHANGED << agents, instances, tools, files, conf, unit, proc >>
  PROVE  Places'
BY DEF Places, InstancesUnique, Located, Hosted, Running

LEMMA NoAdd ==
  ASSUME Places', OneAtATime, NEW p \in Procs, cmd'[p] # "add", pc'[p] \notin {"uninstall", "sweepunit"}
  PROVE  CInv'
BY DEF CInv, Adds, Stopped, OneAtATime

LEMMA ExitAdd == ASSUME TypeOK, Places', OneAtATime, NEW p \in Procs, Exit(p) PROVE CInv'
BY NoAdd DEF Exit, Goto, TypeOK, MemoryOK

LEMMA AddAdd ==
  ASSUME TypeOK, Paths, CInv, OneAtATime, NEW p \in Procs,
         \/ NoDuplicate(p, "lookup", "unique") \/ NoDuplicate(p, "unique", "service")
         \/ ReadService(p) \/ FindAgent(p)
         \/ WipeAgent(p, "wipe", "install") \/ InstallAgent(p, "install", "parent")
         \/ GetParent(p)
         \/ WipeAgent(p, "rewipe", "reinstall") \/ InstallAgent(p, "reinstall", "reparent")
         \/ GetParentAgain(p)
         \/ FindInstance(p) \/ Undelete(p) \/ CreateInstance(p) \/ WriteFile(p)
         \/ InstallUnit(p) \/ StartUnit(p) \/ Wake(p, "wake", "starttool")
         \/ StartTool(p) \/ Register(p) \/ PutKeys(p)
  PROVE  CInv'
<1>1. Comes(cmd[p], pc[p]) /\ Adds(p) /\ Places BY DEF Paths, CInv
<1>2. cmd[p] = "add"
  BY <1>1 DEF Comes, At, NoDuplicate, ReadService, FindAgent, WipeAgent, InstallAgent, GetParent,
      GetParentAgain, FindInstance, Undelete, CreateInstance, WriteFile, InstallUnit, StartUnit, Wake,
      StartTool, Register, PutKeys
<1>3. job[p] \in Jobs /\ Type(p) \in Types /\ job[p].alias \in Aliases BY JobOK
<1> USE <1>1, <1>2 DEF At, Goto, server, host, memory, TypeOK, MemoryOK, OneAtATime, CInv, Adds, Stopped, Type, Finding, Writing
<1>4. CASE NoDuplicate(p, "lookup", "unique") \/ NoDuplicate(p, "unique", "service") \/ ReadService(p)
  BY <1>4, PlacesStay, ExitAdd DEF NoDuplicate, ReadService
<1>5. CASE FindAgent(p) BY <1>5, PlacesStay DEF FindAgent
<1>6. CASE WipeAgent(p, "wipe", "install") \/ WipeAgent(p, "rewipe", "reinstall")
  <2>1. Places' BY <1>6 DEF WipeAgent, Places, InstancesUnique, Located, Hosted, Running
  <2> QED BY <1>6, <2>1 DEF WipeAgent
<1>7. CASE InstallAgent(p, "install", "parent") \/ InstallAgent(p, "reinstall", "reparent")
  <2>1. Places' BY <1>7 DEF InstallAgent, Places, InstancesUnique, Located, Hosted, Running
  <2> QED BY <1>7, <2>1 DEF InstallAgent
<1>8. CASE GetParent(p) \/ GetParentAgain(p)
  BY <1>8, PlacesStay, ExitAdd DEF GetParent, GetParentAgain, Unknown
<1>9. CASE FindInstance(p)
  <2>1. Found(p) \subseteq Of(UUIDs, job[p]) /\ \A u \in Found(p) : u.agent = agent[p]
    BY DEF Found, Of, ServerOK
  <2> QED BY <1>9, <2>1, PlacesStay DEF FindInstance, Found
<1>10. CASE Undelete(p)
  <2>1. Places' BY <1>10, PlacesStay DEF Undelete
  <2> QED BY <1>10, <2>1, ExitAdd DEF Undelete
<1>11. CASE CreateInstance(p)
  <2>1. PICK u \in UUIDs : /\ u.type = job[p].type /\ u.alias = job[p].alias /\ u.agent = agent[p]
                           /\ instances' = instances \cup {u} /\ live' = live \cup {u}
                           /\ uuid' = [uuid EXCEPT ![p] = u] /\ Goto(p, "file")
    BY <1>11 DEF CreateInstance
  <2>2. Found(p) = {} /\ agent[p] = conf /\ conf \in agents BY <1>11 DEF CreateInstance
  <2>3. UNCHANGED << agents, tags, keys, host, cmd, job, agent >> BY <1>11 DEF CreateInstance
  <2>4. \A v \in instances : ~ (v.type = u.type /\ v.alias = u.alias /\ v.agent = u.agent)
    BY <2>1, <2>2 DEF Found, Of
  <2>5. InstancesUnique' BY <2>1, <2>4 DEF Places, InstancesUnique
  <2>6. Places' BY <2>1, <2>2, <2>3, <2>5 DEF Places, Located, Hosted, Running
  <2>7. u \in Of(UUIDs, job[p]) BY <2>1 DEF Of
  <2> QED BY <2>1, <2>2, <2>3, <2>6, <2>7
<1>12. CASE WriteFile(p)
  <2>1. Places' BY <1>12 DEF WriteFile, Places, InstancesUnique, Located, Hosted, Running
  <2> QED BY <1>12, <2>1 DEF WriteFile
<1>13. CASE InstallUnit(p)
  <2>1. Places' BY <1>13 DEF InstallUnit, Places, InstancesUnique, Located, Hosted, Running
  <2> QED BY <1>13, <2>1, ExitAdd DEF InstallUnit
<1>14. CASE StartUnit(p)
  <2>1. Places' BY <1>14 DEF StartUnit, Places, InstancesUnique, Located, Hosted, Running, HostOK
  <2> QED BY <1>14, <2>1, ExitAdd DEF StartUnit
<1>15. CASE Wake(p, "wake", "starttool")
  <2>1. Places' BY <1>15 DEF Wake, Places, InstancesUnique, Located, Hosted, Running, HostOK
  <2> QED BY <1>15, <2>1, ExitAdd DEF Wake, Fails
<1>16. CASE StartTool(p)
  <2>1. Places' BY <1>16 DEF StartTool, Places, InstancesUnique, Located, Hosted, Running
  <2> QED BY <1>16, <2>1, ExitAdd DEF StartTool, Connected
<1>17. CASE Register(p)
  <2>1. job[p].alias \in tags'[Type(p)] BY <1>3, <1>17 DEF Register, Tagged, ServerOK
  <2> QED BY <1>17, <2>1, PlacesStay DEF Register
<1>18. CASE PutKeys(p) BY <1>18, PlacesStay DEF PutKeys
<1> QED
  BY <1>4, <1>5, <1>6, <1>7, <1>8, <1>9, <1>10, <1>11, <1>12, <1>13, <1>14, <1>15, <1>16, <1>17, <1>18

\* The steps of every other command.
LEMMA OtherAdd ==
  ASSUME TypeOK, Paths, CInv, OneAtATime, NEW p \in Procs,
         \/ Finish(p) \/ CheckInstallation(p)
         \/ FindService(p) \/ Wake(p, "rmwake", "getkey") \/ GetKey(p) \/ StopTool(p)
         \/ DeleteInstance(p) \/ DeleteTree(p) \/ Retag(p)
         \/ HaltUnit(p, "halt", "uninstall") \/ UninstallUnit(p)
         \/ Snapshot(p) \/ RemoveEach(p) \/ ListUnits(p)
         \/ Sweep(p) \/ HaltUnit(p, "sweephalt", "sweepunit") \/ SweepUnit(p)
         \/ Purge(p) \/ PurgeInstance(p) \/ PurgeKeys(p)
         \/ Stop(p) \/ Wake(p, "rouse", "done")
  PROVE  CInv'
<1>1. Comes(cmd[p], pc[p]) /\ Adds(p) /\ Stopped(p) /\ Places BY DEF Paths, CInv
<1>2. Type(p) \in Types BY JobOK
<1>3. CASE Finish(p) BY <1>1, <1>3, ExitAdd, PlacesStay DEF Finish, server, host
<1>4. CASE CheckInstallation(p)
  <2>1. Places' BY <1>1, <1>4, PlacesStay DEF CheckInstallation, server, host
  <2>2. pc'[p] \in {"idle", "sweep", "snapshot", "lookup"}
    BY <1>4 DEF CheckInstallation, Verdict, Exit, Goto, TypeOK, MemoryOK
  <2> QED BY <2>1, <2>2 DEF CInv, Adds, Stopped, OneAtATime, Finding, Writing
<1>5. CASE ~ Finish(p) /\ ~ CheckInstallation(p)
  <2>1. cmd[p] # "add"
    BY <1>1, <1>5 DEF Comes, At, FindService, Wake, GetKey, StopTool, DeleteInstance, DeleteTree, Retag, HaltUnit,
        UninstallUnit, Snapshot, RemoveEach, ListUnits, Sweep, SweepUnit, Purge, PurgeInstance, PurgeKeys, Stop, Removes
  <2>2. cmd'[p] = cmd[p] \/ cmd'[p] = "none"
    BY <1>5 DEF FindService, Wake, GetKey, StopTool, DeleteInstance, DeleteTree, Retag, HaltUnit,
        UninstallUnit, Snapshot, RemoveEach, ListUnits, Sweep, SweepUnit, Purge, PurgeInstance, PurgeKeys, Stop,
        AfterRemove, Fails, Exit, Return, memory, TypeOK, MemoryOK
  <2>3. CASE HaltUnit(p, "halt", "uninstall") \/ HaltUnit(p, "sweephalt", "sweepunit")
    <3>1. Places'
      BY <1>1, <2>3 DEF HaltUnit, Places, InstancesUnique, Located, Hosted, Running, server, TypeOK, HostOK
    <3>2. Stopped(p)' BY <1>2, <2>3 DEF HaltUnit, Stopped, memory, Type, TypeOK, HostOK
    <3> QED BY <2>1, <2>2, <3>1, <3>2 DEF CInv, Adds, OneAtATime
  <2>4. CASE ~ (HaltUnit(p, "halt", "uninstall") \/ HaltUnit(p, "sweephalt", "sweepunit"))
    <3>1. pc'[p] \notin {"uninstall", "sweepunit"}
      BY <1>5, <2>4 DEF At, FindService, Wake, GetKey, StopTool, DeleteInstance, DeleteTree, Retag,
        UninstallUnit, Snapshot, RemoveEach, ListUnits, Sweep, SweepUnit, Purge, PurgeInstance, PurgeKeys, Stop,
        AfterRemove, Fails, Exit, Return, memory, TypeOK, MemoryOK, Goto
    <3>2. Places'
      <4>1. CASE UNCHANGED << agents, instances, tools, files, conf, unit, proc >>
        BY <1>1, <4>1, PlacesStay
      <4>2. CASE StopTool(p)
        BY <1>1, <4>2 DEF StopTool, server, Places, InstancesUnique, Located, Hosted, Running
      <4>3. CASE Wake(p, "rmwake", "getkey") \/ Wake(p, "rouse", "done") \/ Stop(p)
        BY <1>1, <4>3 DEF Wake, Stop, server, Places, InstancesUnique, Located, Hosted, Running, TypeOK, HostOK
      <4>4. CASE UninstallUnit(p) \/ SweepUnit(p)
        BY <1>1, <4>4 DEF UninstallUnit, SweepUnit, Stopped, At, server, Places, InstancesUnique, Located, Hosted, Running
      <4> QED BY <1>5, <2>4, <4>1, <4>2, <4>3, <4>4
        DEF FindService, GetKey, DeleteInstance, DeleteTree, Retag,
            Snapshot, RemoveEach, ListUnits, Sweep, Purge, PurgeInstance, PurgeKeys, server, host
    <3> QED BY <2>1, <2>2, <3>1, <3>2, NoAdd
  <2> QED BY <2>3, <2>4
<1> QED BY <1>3, <1>4, <1>5

LEMMA NextAdd == ASSUME TypeOK, Paths, CInv, OneAtATime, [Next]_vars PROVE CInv'
<1> USE DEF Places, InstancesUnique, Located, Hosted, Running
<1>1. CASE UNCHANGED vars
  BY <1>1 DEF CInv, Adds, Stopped, Found, Of, Type, vars, server, host, memory
<1>2. CASE LoseServer \/ Reinstall
  <2>1. \A p \in Procs : cmd'[p] = "none" /\ pc'[p] = "idle"
    BY <1>2 DEF LoseServer, Reinstall, AllIdle, At, Paths, Comes, memory
  <2>2. Places' BY <1>2 DEF LoseServer, Reinstall, host, server, CInv
  <2> QED BY <2>1, <2>2 DEF CInv, Adds, Stopped
<1>3. ASSUME NEW p \in Procs, Begin(p) PROVE CInv'
  <2>1. pc'[p] \in {"snapshot", "check"}
    BY <1>3 DEF Begin, Goto, TypeOK, MemoryOK
  <2>2. Places' BY <1>3, PlacesStay DEF Begin, host, server, CInv
  <2> QED BY <2>1, <2>2 DEF CInv, Adds, Stopped, OneAtATime, Finding, Writing
<1>4. ASSUME NEW p \in Procs, Fail(p) \/ FailInstall(p) PROVE CInv'
  BY <1>4, ExitAdd DEF Fail, FailInstall, CInv, server, host
<1>5. ASSUME NEW p \in Procs, IgnoredError(p) PROVE CInv'
  <2>1. Places' BY <1>5, PlacesStay DEF IgnoredError, host, server, CInv
  <2>2. Comes(cmd[p], pc[p]) BY DEF Paths
  <2>3. CASE Exit(p) BY <2>1, <2>3, ExitAdd
  <2>4. CASE ~ Exit(p)
    <3>1. cmd'[p] = cmd[p] /\ cmd[p] # "add" /\ pc'[p] \notin {"uninstall", "sweepunit"}
      BY <1>5, <2>2, <2>4 DEF IgnoredError, Fails, Return, memory, At, Comes, Goto, TypeOK, MemoryOK
    <3> QED BY <2>1, <3>1, NoAdd
  <2> QED BY <2>3, <2>4
<1>6. ASSUME NEW p \in Procs, Step(p) PROVE CInv' BY <1>6, AddAdd, OtherAdd DEF Step
<1>7. ASSUME NEW p \in Procs, ReadError(p) PROVE CInv'
  <2>1. Places' BY <1>7, PlacesStay DEF ReadError, host, server, CInv
  <2>2. pc'[p] \in {"idle", "sweep", "snapshot", "lookup", "each"}
    BY <1>7 DEF ReadError, Verdict, Exit, Goto, TypeOK, MemoryOK
  <2> QED BY <2>1, <2>2 DEF CInv, Adds, Stopped, OneAtATime, Finding, Writing
<1> QED BY <1>1, <1>2, <1>3, <1>4, <1>5, <1>6, <1>7 DEF Next

LEMMA AddAlways == ASSUME OneAtATime PROVE Spec => []CInv
<1>1. Init => CInv
  BY DEF Init, CInv, Places, InstancesUnique, Located, Hosted, Running, Adds, Stopped
<1> QED BY <1>1, QueriesTypeCorrect, PathAlways, NextAdd, PTL DEF Spec

\* With one pmm-admin at a time, no database ever gets a second instance under its agent,
\* however often an add is broken off, repeated or run after a reinstallation of the agent
\* (queries.go:109-117).
THEOREM OneInstanceEach == OneAtATime => (Spec => []InstancesUnique)
<1> SUFFICES ASSUME OneAtATime PROVE Spec => []InstancesUnique OBVIOUS
<1>1. CInv => InstancesUnique BY DEF CInv, Places
<1> QED BY <1>1, AddAlways, PTL

\* With one pmm-admin at a time, an add that reports success has an instance that QAN knows,
\* that the agent of agent.conf runs, and whose key is in Consul (queries.go:41-205).
THEOREM QueriesAdded == OneAtATime => (Spec => []AddIsTrue)
<1> SUFFICES ASSUME OneAtATime PROVE Spec => []AddIsTrue OBVIOUS
<1>1. TypeOK /\ CInv => AddIsTrue
  <2> SUFFICES ASSUME TypeOK, CInv, NEW p \in Procs, Succeeded(p, "add")
               PROVE  /\ job[p].alias \in tags[Type(p)]
                      /\ \E u \in Of(keys, job[p]) :
                           /\ u \in live /\ u \in tools /\ u \in files
                           /\ u.agent = conf /\ conf \in agents
                           /\ \E t \in unit : proc[t] = conf
    BY DEF AddIsTrue
  <2>1. cmd[p] = "add" /\ pc[p] = "done" /\ Adds(p) BY DEF Succeeded, At, CInv
  <2>2. conf # 0 /\ conf \in agents
    BY <2>1, QueriesConstants DEF Adds, Writing, TypeOK, ServerOK, Agents
  <2>3. \E t \in unit : proc[t] = conf BY <2>1, <2>2 DEF Adds, CInv, Places, Running
  <2>4. uuid[p] \in Of(keys, job[p]) BY <2>1 DEF Adds, Writing, Of
  <2> QED BY <2>1, <2>2, <2>3, <2>4 DEF Adds, Writing
<1> QED BY <1>1, QueriesTypeCorrect, AddAlways, PTL

LEMMA NextKeeps ==
  ASSUME TypeOK, Paths, CInv, [Next]_vars, NEW p \in Procs, cmd[p] = "add", OneAtATime
  PROVE  tools \cap live \subseteq tools' /\ files \cap live \subseteq files'
<1> USE DEF server, host
<1>1. Comes(cmd[p], pc[p]) /\ Adds(p) /\ Places BY DEF Paths, CInv
<1>2. pc[p] # "idle" BY <1>1 DEF Comes
<1>3. CASE UNCHANGED << tools, files >> BY <1>3
<1>4. CASE WipeAgent(p, "wipe", "install") \/ WipeAgent(p, "rewipe", "reinstall")
  <2>1. conf \notin agents
    <3>1. CASE pc[p] = "wipe" BY <1>1, <3>1, QueriesConstants DEF Adds, TypeOK, ServerOK, Agents
    <3>2. CASE pc[p] = "rewipe" BY <1>1, <3>2 DEF Adds
    <3> QED BY <1>4, <3>1, <3>2 DEF WipeAgent, At
  <2>2. \A u \in live : u.agent \in agents BY <1>1 DEF Places, Located, TypeOK, ServerOK
  <2> QED BY <1>1, <2>1, <2>2 DEF Places, Hosted
<1>5. CASE LoseServer \/ Reinstall BY <1>2, <1>5 DEF LoseServer, Reinstall, AllIdle, At
<1>6. CASE StopTool(p) BY <1>1, <1>6 DEF StopTool, At, Comes, Removes
<1>7. CASE WriteFile(p) \/ StartTool(p) BY <1>7 DEF WriteFile, StartTool
<1>8. ASSUME NEW q \in Procs, Begin(q) \/ Fail(q) \/ FailInstall(q) \/ IgnoredError(q) \/ ReadError(q)
      PROVE  UNCHANGED << tools, files >>
  BY <1>8 DEF Begin, Fail, FailInstall, IgnoredError, ReadError
<1>9. ASSUME Step(p), ~ (WipeAgent(p, "wipe", "install") \/ WipeAgent(p, "rewipe", "reinstall")),
             ~ (StopTool(p) \/ WriteFile(p) \/ StartTool(p))
      PROVE  UNCHANGED << tools, files >>
  BY <1>9
    DEF Step, Finish, CheckInstallation, NoDuplicate, ReadService, FindAgent,
        InstallAgent, GetParent, GetParentAgain, FindInstance, Undelete, CreateInstance,
        InstallUnit, StartUnit, Wake, Register, PutKeys, FindService, GetKey, Retag,
        DeleteInstance, DeleteTree, HaltUnit, UninstallUnit, Snapshot, RemoveEach,
        ListUnits, Sweep, SweepUnit, Purge, PurgeInstance, PurgeKeys, Stop
<1>10. CASE UNCHANGED vars BY <1>10 DEF vars
<1> QED BY <1>3, <1>4, <1>5, <1>6, <1>7, <1>8, <1>9, <1>10 DEF Next, OneAtATime

\* With one pmm-admin at a time, an add never takes the tool or the file of an instance that
\* QAN still has, although registerAgent removes them all (queries.go:75-104 and 505-509).
THEOREM OthersKeepCollecting == OneAtATime => (Spec => AddKeepsCollecting)
<1> SUFFICES ASSUME OneAtATime PROVE Spec => AddKeepsCollecting OBVIOUS
<1> DEFINE Kept == \A p \in Procs : cmd[p] = "add" =>
                    tools \cap live \subseteq tools' /\ files \cap live \subseteq files'
<1>1. TypeOK /\ Paths /\ CInv /\ [Next]_vars => Kept BY NextKeeps
<1> QED BY <1>1, QueriesTypeCorrect, PathAlways, AddAlways, PTL DEF Spec, AddKeepsCollecting

-----------------------------------------------------------------------------
(* What a removal or a repair has done so far *)

Agreed == \A t \in Types : t \in unit <=> tags[t] # {}

\* The catalog can be read whenever it is asked for.
CatalogRead == "read" \notin FaultKinds

\* Units and registrations agree, but for the moment between the last name and its unit.
\* Where the catalog could not be read the preflight passes if there is no unit at all, and
\* the removal gets no further than to wake one.
Settled(p) ==
  cmd[p] \in {"remove", "removeall"} =>
    /\ pc[p] \in {"snapshot", "each", "lookup", "rmwake"} => Agreed \/ unit = {}
    /\ pc[p] \in {"getkey", "stoptool", "delete", "deltree", "retag"} => Agreed
    /\ pc[p] = "done" /\ cmd[p] = "remove" => Agreed
    /\ pc[p] \in {"rmwake", "getkey", "stoptool", "delete", "deltree", "retag"} => job[p].alias \in tags[Type(p)]
    /\ pc[p] \in {"halt", "uninstall"} =>
         /\ Type(p) \in unit /\ tags[Type(p)] = {}
         /\ \A t \in Types \ {Type(p)} : t \in unit <=> tags[t] # {}

\* The names that remove --all has still to visit, or has in hand.
Left(p) ==
  CatalogRead /\ cmd[p] = "removeall" =>
    /\ pc[p] \in {"each", "halt", "uninstall"} => ToRemove \subseteq todo[p]
    /\ pc[p] \in Removing => ToRemove \subseteq todo[p] \cup {job[p]}
    /\ pc[p] = "done" => ToRemove = {}

\* The tool, the instance, the key and the tag of a database go in this order.
Removed(p) ==
  cmd[p] = "remove" =>
    /\ pc[p] \in {"delete", "deltree", "retag", "halt", "uninstall", "done"} => uuid[p] \notin tools
    /\ pc[p] \in {"deltree", "retag", "halt", "uninstall", "done"} => uuid[p] \notin live
    /\ pc[p] \in {"retag", "halt", "uninstall", "done"} => Of(keys, job[p]) = {}
    /\ pc[p] \in {"halt", "uninstall", "done"} => job[p].alias \notin tags[Type(p)]

\* What repair has found and not yet mended is in its lists or in hand.
Repairs(p) ==
  CatalogRead /\ cmd[p] = "repair" =>
    /\ pc[p] = "sweep" => Orphans = units[p]
    /\ pc[p] \in {"sweephalt", "sweepunit"} => Orphans = units[p] \cup {Type(p)} /\ Type(p) \notin units[p]
    /\ pc[p] \in Purging \cup {"done"} => Orphans = {}
    /\ pc[p] \in Purging \cup {"sweep", "sweephalt", "sweepunit"} => Missing = lost[p]
    /\ pc[p] = "done" => Missing = {}

Progress(p) == Settled(p) /\ Left(p) /\ Removed(p) /\ Repairs(p)
PInv == \A p \in Procs : Progress(p)

LEMMA OtherWork ==
  ASSUME OneAtATime, NEW p \in Procs, cmd'[p] \notin {"remove", "removeall", "repair"}
  PROVE  PInv'
BY DEF OneAtATime, PInv, Progress, Settled, Left, Removed, Repairs

LEMMA ExitWork == ASSUME TypeOK, OneAtATime, NEW p \in Procs, Exit(p) PROVE PInv'
BY OtherWork DEF Exit, TypeOK, MemoryOK

LEMMA AgreedIs == ASSUME TypeOK PROVE Agreed <=> Orphans \cup Missing = {}
BY DEF Agreed, Orphans, Missing, TypeOK, HostOK

\* The steps of adds and of start, stop and restart.
LEMMA AddWork ==
  ASSUME TypeOK, Paths, OneAtATime, NEW p \in Procs,
         \/ NoDuplicate(p, "lookup", "unique") \/ NoDuplicate(p, "unique", "service")
         \/ ReadService(p) \/ FindAgent(p)
         \/ WipeAgent(p, "wipe", "install") \/ InstallAgent(p, "install", "parent")
         \/ GetParent(p)
         \/ WipeAgent(p, "rewipe", "reinstall") \/ InstallAgent(p, "reinstall", "reparent")
         \/ GetParentAgain(p)
         \/ FindInstance(p) \/ Undelete(p) \/ CreateInstance(p) \/ WriteFile(p)
         \/ InstallUnit(p) \/ StartUnit(p) \/ Wake(p, "wake", "starttool")
         \/ StartTool(p) \/ Register(p) \/ PutKeys(p)
         \/ Stop(p) \/ Wake(p, "rouse", "done") \/ ListUnits(p) \/ Finish(p)
  PROVE  PInv'
<1>1. Comes(cmd[p], pc[p]) BY DEF Paths
<1>2. CASE Finish(p) BY <1>2, ExitWork DEF Finish
<1>3. CASE ~ Finish(p)
  <2>1. cmd[p] \notin {"remove", "removeall", "repair"}
    BY <1>1, <1>3 DEF Comes, At, NoDuplicate, ReadService, FindAgent, WipeAgent, InstallAgent, GetParent,
        GetParentAgain, FindInstance, Undelete, CreateInstance, WriteFile, InstallUnit, StartUnit, Wake,
        StartTool, Register, PutKeys, Stop, ListUnits
  <2>2. cmd'[p] = cmd[p] \/ cmd'[p] = "none"
    BY <1>3 DEF NoDuplicate, ReadService, FindAgent, WipeAgent, InstallAgent, GetParent, Unknown,
        GetParentAgain, FindInstance, Undelete, CreateInstance, WriteFile, InstallUnit, StartUnit, Wake,
        StartTool, Register, PutKeys, Stop, ListUnits, Fails, Exit, Return, memory, TypeOK, MemoryOK
  <2> QED BY <2>1, <2>2, OtherWork
<1> QED BY <1>2, <1>3

LEMMA FindServiceWork ==
  ASSUME TypeOK, Paths, PInv, OneAtATime, NEW p \in Procs, CheckInstallation(p) \/ FindService(p)
  PROVE  PInv'
<1>1. Progress(p) /\ Comes(cmd[p], pc[p]) BY DEF PInv, Paths
<1>2. CASE Exit(p) BY <1>2, ExitWork
<1>3. CASE CheckInstallation(p) /\ ~ Exit(p)
  <2>1. CASE cmd[p] = "repair"
    BY <1>3, <2>1 DEF CheckInstallation, Verdict, Goto, server, host, OneAtATime, TypeOK, MemoryOK, PInv, Progress,
        Settled, Left, Removed, Repairs, Orphans, Missing
  <2>2. CASE cmd[p] # "repair"
    <3>1. Agreed /\ UNCHANGED memory /\ Goto(p, IF cmd[p] = "removeall" THEN "snapshot" ELSE "lookup")
      BY <1>3, <2>2, AgreedIs DEF CheckInstallation, Verdict
    <3> QED
      BY <1>3, <2>2, <3>1 DEF CheckInstallation, Goto, memory, server, host, OneAtATime, TypeOK, MemoryOK, PInv, Progress,
        Settled, Left, Removed, Repairs, Agreed
  <2> QED BY <2>1, <2>2
<1>4. CASE FindService(p) /\ ~ Exit(p)
  <2>1. CASE cmd[p] = "uninstall"
    BY <1>4, <2>1, OtherWork DEF FindService, Fails, Return
  <2>2. CASE cmd[p] # "uninstall"
    <3>1. /\ Goto(p, CASE cmd[p] = "start" -> "rouse" [] cmd[p] \in {"stop", "restart"} -> "stop" [] OTHER -> "rmwake")
          /\ UNCHANGED << cmd, job, uuid, agent, todo, units, lost >>
      BY <1>4, <2>2 DEF FindService, Fails
    <3>2. At(p, "lookup") /\ UNCHANGED << unit, tags, keys, live, tools >>
      BY <1>4 DEF FindService, server, host
    <3>3. job[p].alias \in tags[Type(p)] BY <1>4, <2>2 DEF FindService, Fails
    <3>4. CASE cmd[p] \in {"remove", "removeall"}
      <4>1. pc'[p] = "rmwake" /\ pc[p] = "lookup" /\ Type(p)' = Type(p)
        BY <3>1, <3>2, <3>4 DEF Goto, TypeOK, MemoryOK, At, Type
      <4>2. (Agreed \/ unit = {})' BY <1>1, <3>2, <3>4, <4>1 DEF Progress, Settled, Agreed
      <4>3. Settled(p)' BY <3>1, <3>2, <3>3, <4>1, <4>2 DEF Settled
      <4>4. Left(p)' BY <1>1, <3>1, <3>2, <4>1 DEF Progress, Left, ToRemove
      <4> QED BY <3>1, <3>4, <4>1, <4>3, <4>4 DEF OneAtATime, PInv, Progress, Removed, Repairs
    <3>5. CASE cmd[p] \notin {"remove", "removeall"}
      <4>1. cmd'[p] = cmd[p] /\ cmd[p] # "repair"
        BY <1>1, <3>1, <3>2 DEF Comes, At, OnService, Removes
      <4> QED BY <3>5, <4>1, OtherWork
    <3> QED BY <3>4, <3>5
  <2> QED BY <2>1, <2>2
<1> QED BY <1>2, <1>3, <1>4

\* A step of a removal that changes neither units nor tags, and goes on.
LEMMA RemoveWork ==
  ASSUME TypeOK, Paths, CInv, PInv, OneAtATime, NEW p \in Procs,
         \/ Wake(p, "rmwake", "getkey") \/ GetKey(p) \/ StopTool(p) \/ DeleteInstance(p)
         \/ DeleteTree(p) \/ HaltUnit(p, "halt", "uninstall")
  PROVE  PInv'
<1>1. Progress(p) /\ Comes(cmd[p], pc[p]) BY DEF PInv, Paths
<1>2. CASE Exit(p) BY <1>2, ExitWork
<1>3. CASE cmd[p] = "uninstall"
  <2>1. cmd'[p] = cmd[p]
    BY <1>3 DEF Wake, GetKey, StopTool, DeleteInstance, DeleteTree, HaltUnit, Fails, Return, memory
  <2> QED BY <1>3, <2>1, OtherWork
<1>4. CASE cmd[p] # "uninstall" /\ ~ Exit(p)
  <2> USE <1>1, <1>4 DEF At, Comes, Goto, OneAtATime, TypeOK, MemoryOK, PInv, Progress, Settled, Left, Removed,
          Agreed, Removes, ToRemove, Type, Fails, memory, server, host, Repairs
  <2>1. CASE Wake(p, "rmwake", "getkey")
    <3>1. Type(p) \in unit BY <2>1, JobOK DEF Wake, CInv, Places, Running
    <3> QED BY <2>1, <3>1 DEF Wake
  <2>2. CASE GetKey(p) BY <2>2 DEF GetKey
  <2>3. CASE StopTool(p) BY <2>3 DEF StopTool
  <2>4. CASE DeleteInstance(p) BY <2>4 DEF DeleteInstance
  <2>5. CASE DeleteTree(p) BY <2>5 DEF DeleteTree, Of
  <2>6. CASE HaltUnit(p, "halt", "uninstall") BY <2>6 DEF HaltUnit
  <2> QED BY <2>1, <2>2, <2>3, <2>4, <2>5, <2>6
<1> QED BY <1>2, <1>3, <1>4

\* Where a removal comes back to.
LEMMA AfterRemoveWork ==
  ASSUME TypeOK, OneAtATime, NEW p \in Procs, AfterRemove(p), UNCHANGED << keys, live, tools >>,
         cmd[p] \in {"remove", "removeall"} => Agreed',
         CatalogRead /\ cmd[p] = "removeall" => ToRemove' \subseteq todo[p],
         cmd[p] = "remove" => /\ uuid[p] \notin tools \cup live /\ Of(keys, job[p]) = {}
                              /\ job[p].alias \notin tags'[Type(p)],
         cmd[p] \in Removes
  PROVE  PInv'
<1>1. CASE cmd[p] = "remove"
  BY <1>1 DEF AfterRemove, Goto, memory, OneAtATime, TypeOK, MemoryOK, PInv, Progress, Settled, Left, Removed,
              Repairs, Agreed, Type
<1>2. CASE cmd[p] # "remove"
  BY <1>2 DEF AfterRemove, Return, Goto, OneAtATime, TypeOK, MemoryOK, PInv, Progress, Settled, Left, Removed,
              Repairs, Agreed, ToRemove, Removes
<1> QED BY <1>1, <1>2

LEMMA RetagWork ==
  ASSUME TypeOK, Paths, TagsInv, PInv, OneAtATime, NEW p \in Procs, Retag(p) \/ UninstallUnit(p)
  PROVE  PInv'
<1>1. Progress(p) /\ Comes(cmd[p], pc[p]) BY DEF PInv, Paths
<1>2. CASE Exit(p) BY <1>2, ExitWork
<1>3. CASE cmd[p] = "uninstall"
  <2>1. cmd'[p] = cmd[p]
    BY <1>3 DEF Retag, UninstallUnit, AfterRemove, Fails, Return, memory
  <2> QED BY <1>3, <2>1, OtherWork
<1>4. CASE cmd[p] # "uninstall" /\ ~ Exit(p) /\ Retag(p)
  <2>1. tags \in [Types -> SUBSET Aliases] /\ Type(p) \in Types BY JobOK DEF TypeOK, ServerOK
  <2>2. tags' = [tags EXCEPT ![Type(p)] = tags[Type(p)] \ {job[p].alias}]
    BY <1>4 DEF Retag, Remaining, At, TagsInv, SeenIsCurrent
  <2>3. cmd[p] \in {"remove", "removeall"} /\ At(p, "retag")
    BY <1>1, <1>4 DEF Retag, At, Comes, Removes
  <2>4. Agreed BY <1>1, <2>3 DEF Progress, Settled, At
  <2>5. CatalogRead /\ cmd[p] = "removeall" => ToRemove' \subseteq todo[p]
    <3>1. ToRemove' \subseteq ToRemove \ {job[p]} BY <2>1, <2>2 DEF ToRemove, Jobs, Type
    <3> QED BY <1>1, <2>3, <3>1 DEF Progress, Left, At
  <2>6. Type(p) \in unit /\ UNCHANGED << unit, keys, live, tools >>
    BY <1>1, <1>4, <2>1, <2>3, <2>4 DEF Agreed, Progress, Settled, At, Retag, host
  <2>7. CASE Remaining(p) = {}
    <3>1. Goto(p, "halt") /\ UNCHANGED memory /\ tags'[Type(p)] = {} BY <1>4, <2>1, <2>7 DEF Retag
    <3>2. \A t \in Types \ {Type(p)} : t \in unit' <=> tags'[t] # {}
      BY <2>1, <2>2, <2>4, <2>6 DEF Agreed
    <3>3. Settled(p)' BY <2>6, <3>1, <3>2, JobOK DEF Settled, Goto, TypeOK, MemoryOK, memory, Type
    <3>4. Left(p)' BY <2>5, <3>1 DEF Left, Goto, TypeOK, MemoryOK, memory
    <3>5. Removed(p)' BY <1>1, <2>3, <2>6, <3>1, JobOK
      DEF Progress, Removed, Goto, TypeOK, MemoryOK, memory, At, Of, Type
    <3>6. Repairs(p)' BY <2>3, <3>1 DEF Repairs, memory
    <3> QED BY <3>3, <3>4, <3>5, <3>6 DEF PInv, Progress, OneAtATime
  <2>8. CASE Remaining(p) # {}
    <3>1. AfterRemove(p) BY <1>4, <2>8 DEF Retag
    <3>2. tags'[Type(p)] # {} /\ job[p].alias \notin tags'[Type(p)]
      BY <1>4, <2>1, <2>2, <2>8 DEF Retag
    <3>3. Agreed' BY <2>1, <2>2, <2>4, <2>6, <3>2 DEF Agreed
    <3>4. cmd[p] = "remove" => uuid[p] \notin tools \cup live /\ Of(keys, job[p]) = {}
      BY <1>1, <2>3 DEF Progress, Removed, At
    <3> QED BY <2>3, <2>5, <2>6, <3>1, <3>2, <3>3, <3>4, AfterRemoveWork DEF Removes
  <2> QED BY <2>7, <2>8
<1>5. CASE cmd[p] # "uninstall" /\ ~ Exit(p) /\ UninstallUnit(p)
  <2>1. cmd[p] \in {"remove", "removeall"} /\ At(p, "uninstall") /\ UNCHANGED << tags, keys, live, tools >>
    BY <1>1, <1>5 DEF UninstallUnit, At, Comes, Removes, server
  <2>2. unit' = unit \ {Type(p)} /\ Type(p) \in unit /\ AfterRemove(p)
    BY <1>1, <1>5, <2>1 DEF UninstallUnit, Progress, Settled, At
  <2>3. Agreed' BY <1>1, <2>1, <2>2 DEF Progress, Settled, At, Agreed
  <2> QED BY <1>1, <2>1, <2>2, <2>3, AfterRemoveWork DEF Progress, Left, Removed, At, ToRemove, Removes
<1> QED BY <1>2, <1>3, <1>4, <1>5

LEMMA LoopWork ==
  ASSUME TypeOK, Paths, PInv, OneAtATime, NEW p \in Procs, Snapshot(p) \/ RemoveEach(p)
  PROVE  PInv'
<1>1. Progress(p) /\ Comes(cmd[p], pc[p]) BY DEF PInv, Paths
<1>2. cmd[p] \in {"removeall", "uninstall"} /\ UNCHANGED << cmd, unit, tags, keys, live, tools >>
  BY <1>1 DEF Snapshot, RemoveEach, At, Comes, server, host
<1>3. CASE cmd[p] = "uninstall" BY <1>2, <1>3, OtherWork
<1>4. CASE cmd[p] = "removeall"
  <2> USE <1>1, <1>2, <1>4 DEF At, Goto, OneAtATime, TypeOK, MemoryOK, PInv, Progress, Settled, Left, Removed,
          Agreed, ToRemove, Repairs
  <2>1. CASE Snapshot(p) BY <2>1 DEF Snapshot
  <2>2. CASE RemoveEach(p) BY <2>2 DEF RemoveEach, StillToDo
  <2> QED BY <2>1, <2>2
<1> QED BY <1>2, <1>3, <1>4

LEMMA RepairWork ==
  ASSUME TypeOK, Paths, PInv, OneAtATime, NEW p \in Procs,
         \/ Sweep(p) \/ HaltUnit(p, "sweephalt", "sweepunit") \/ SweepUnit(p)
         \/ Purge(p) \/ PurgeInstance(p) \/ PurgeKeys(p)
  PROVE  PInv'
<1>1. Progress(p) /\ Comes(cmd[p], pc[p]) BY DEF PInv, Paths
<1>2. CASE Exit(p) BY <1>2, ExitWork
<1>3. CASE ~ Exit(p)
  <2>1. cmd[p] \in {"repair", "uninstall"} /\ UNCHANGED cmd
    BY <1>1, <1>3 DEF Sweep, HaltUnit, SweepUnit, Purge, PurgeInstance, PurgeKeys, At, Comes, memory
  <2>2. CASE cmd[p] = "uninstall" BY <2>1, <2>2, OtherWork
  <2>3. CASE cmd[p] = "repair"
    <3>1. \A t \in Types : [NoJob EXCEPT !.type = t].type = t BY NoJobOK DEF Jobs
    <3>2. Orphans \subseteq Types /\ Missing \subseteq Types /\ units[p] \subseteq Types /\ lost[p] \subseteq Types
      BY DEF Orphans, Missing, TypeOK, HostOK, MemoryOK
    <3>3. SUFFICES ASSUME CatalogRead PROVE Repairs(p)'
      BY <2>1, <2>3 DEF OneAtATime, PInv, Progress, Settled, Left, Removed, Repairs, CatalogRead
    <3>4. UNCHANGED << unit, tags >> => UNCHANGED << Orphans, Missing >> BY DEF Orphans, Missing
    <3> USE <1>1, <2>1, <2>3, <3>3 DEF At, Goto, TypeOK, MemoryOK, Progress, Repairs
    <3>5. CASE Sweep(p)
      <4>1. UNCHANGED << unit, tags, lost >> BY <3>5 DEF Sweep, server, host
      <4>2. CASE units[p] = {} BY <3>2, <3>4, <3>5, <4>1, <4>2 DEF Sweep
      <4>3. CASE units[p] # {}
        <5>1. PICK t \in units[p] : ForType(p, t) /\ units' = [units EXCEPT ![p] = @ \ {t}] /\ Goto(p, "sweephalt")
          BY <3>5, <4>3 DEF Sweep
        <5>2. Type(p)' = t BY <3>1, <3>2, <5>1 DEF ForType, Type
        <5> QED BY <3>4, <3>5, <4>1, <5>1, <5>2 DEF Sweep
      <4> QED BY <4>2, <4>3
    <3>6. CASE HaltUnit(p, "sweephalt", "sweepunit")
      BY <3>4, <3>6 DEF HaltUnit, server, memory, Type
    <3>7. CASE SweepUnit(p)
      <4>1. Orphans' = Orphans \ {Type(p)} /\ Type(p) \in Orphans
        BY <3>7 DEF SweepUnit, Orphans, server
      <4>2. Missing' = Missing BY <3>7, <4>1 DEF SweepUnit, Missing, Orphans, server
      <4> QED BY <1>3, <3>7, <4>1, <4>2 DEF SweepUnit, memory
    <3>8. CASE Purge(p)
      <4>1. CASE lost[p] = {} /\ Goto(p, "done") /\ UNCHANGED << tags, job, todo, lost >>
        BY <3>4, <3>8, <4>1 DEF Purge, host
      <4>2. ASSUME NEW t \in lost[p], tags' = [tags EXCEPT ![t] = {}], lost' = [lost EXCEPT ![p] = @ \ {t}],
                   Goto(p, "names")
            PROVE Repairs(p)'
        <5>1. Missing' = Missing \ {t} BY <3>2, <3>8, <4>2 DEF Purge, Missing, host, ServerOK
        <5>2. Orphans' = Orphans BY <3>2, <3>8, <4>2 DEF Purge, Missing, Orphans, host, ServerOK
        <5> QED BY <3>8, <4>2, <5>1, <5>2 DEF Purge
      <4> QED BY <3>8, <4>1, <4>2 DEF Purge
    <3>9. CASE PurgeInstance(p) \/ PurgeKeys(p)
      BY <3>4, <3>9 DEF PurgeInstance, PurgeKeys, host, memory
    <3> QED BY <3>5, <3>6, <3>7, <3>8, <3>9
  <2> QED BY <2>1, <2>2, <2>3
<1> QED BY <1>2, <1>3

LEMMA StepWork ==
  ASSUME TypeOK, Paths, TagsInv, CInv, PInv, OneAtATime, NEW p \in Procs, Step(p)
  PROVE  PInv'
BY AddWork, FindServiceWork, RemoveWork, RetagWork, LoopWork, RepairWork DEF Step

LEMMA NextWork == ASSUME TypeOK, Paths, TagsInv, CInv, PInv, OneAtATime, [Next]_vars PROVE PInv'
<1> USE DEF Progress, Settled, Left, Removed, Repairs, Type, Orphans, Missing, ToRemove, Agreed
<1>1. CASE UNCHANGED vars BY <1>1 DEF PInv, vars, server, host, memory
<1>2. CASE LoseServer \/ Reinstall
  <2>1. \A p \in Procs : cmd'[p] = "none"
    BY <1>2 DEF LoseServer, Reinstall, AllIdle, At, Paths, Comes, memory
  <2> QED BY <2>1 DEF PInv
<1>3. ASSUME NEW p \in Procs, Begin(p) PROVE PInv'
  <2>1. PICK c \in Commands : cmd'[p] = c /\ pc'[p] = IF c = "uninstall" THEN "snapshot" ELSE "check"
    BY <1>3 DEF Begin, Goto, TypeOK, MemoryOK
  <2> QED BY <2>1 DEF PInv, OneAtATime
<1>4. ASSUME NEW p \in Procs, Fail(p) \/ FailInstall(p) PROVE PInv'
  BY <1>4, ExitWork DEF Fail, FailInstall
<1>5. ASSUME NEW p \in Procs, IgnoredError(p) PROVE PInv'
  <2>1. Comes(cmd[p], pc[p]) /\ Progress(p) BY DEF Paths, PInv
  <2>2. CASE Exit(p) BY <2>2, ExitWork
  <2>3. CASE ~ Exit(p)
    <3>1. UNCHANGED cmd /\ cmd[p] \in {"repair", "uninstall"}
      BY <1>5, <2>1, <2>3 DEF IgnoredError, Fails, Return, memory, At, Comes
    <3>2. CASE cmd[p] = "uninstall" BY <3>1, <3>2, OtherWork
    <3>3. CASE cmd[p] = "repair"
      <4>1. pc[p] \in {"names", "purgekeys"} /\ pc'[p] \in {"names", "purge"} /\ UNCHANGED << unit, tags, lost >>
        BY <1>5, <3>3 DEF IgnoredError, At, Goto, TypeOK, MemoryOK, memory, server, host
      <4> QED BY <2>1, <3>1, <3>3, <4>1 DEF PInv, OneAtATime
    <3> QED BY <3>1, <3>2, <3>3
  <2> QED BY <2>2, <2>3
<1>6. ASSUME NEW p \in Procs, ReadError(p) PROVE PInv'
  <2>1. Comes(cmd[p], pc[p]) /\ Progress(p) BY DEF Paths, PInv
  <2>2. ~ CatalogRead BY <1>6 DEF ReadError, Fault, CatalogRead
  <2>3. CASE Exit(p) BY <2>3, ExitWork
  <2>4. CASE ~ Exit(p)
    <3>1. UNCHANGED << unit, tags, keys, live, tools, cmd >> BY <1>6, <2>4 DEF ReadError, Verdict, server, host, memory
    <3>2. \/ pc'[p] = "sweep" /\ cmd[p] = "repair"
          \/ pc'[p] \in {"snapshot", "lookup"} /\ unit = {}
          \/ pc[p] = "snapshot" /\ pc'[p] = "each"
      BY <1>6, <2>4 DEF ReadError, Verdict, At, Goto, TypeOK, MemoryOK
    <3> QED BY <2>1, <2>2, <3>1, <3>2 DEF PInv, OneAtATime
  <2> QED BY <2>3, <2>4
<1> QED BY <1>1, <1>2, <1>3, <1>4, <1>5, <1>6, StepWork DEF Next

LEMMA TagsAlways == ASSUME OneAtATime PROVE Spec => []TagsInv
<1>1. Init => TagsInv BY DEF Init, TagsInv, SeenIsCurrent, RightCommand
<1> QED BY <1>1, QueriesTypeCorrect, TagsInductive, PTL DEF Spec

LEMMA WorkAlways == ASSUME OneAtATime PROVE Spec => []PInv
<1>1. Init => PInv BY DEF Init, PInv, Progress, Settled, Left, Removed, Repairs
<1> QED BY <1>1, QueriesTypeCorrect, PathAlways, TagsAlways, AddAlways, NextWork, PTL DEF Spec

\* With one pmm-admin at a time and a catalog that can be read, remove --all that reports
\* success has left no name of any service, whatever else fails: a name it could not remove
\* makes it fail (pmm-admin.go:832-845, pmm.go:366-412).  The condition is needed: a catalog
\* that cannot be read counts as an empty one (pmm.go:361-363).
THEOREM QueriesAllRemoved == OneAtATime /\ CatalogRead => (Spec => []RemoveAllIsTrue)
<1> SUFFICES ASSUME OneAtATime, CatalogRead PROVE Spec => []RemoveAllIsTrue OBVIOUS
<1>1. PInv => RemoveAllIsTrue
  BY DEF PInv, Progress, Left, RemoveAllIsTrue, Succeeded, At, Monitored, ToRemove
<1> QED BY <1>1, WorkAlways, PTL

\* With one pmm-admin at a time and any faults, after a remove that reports success the name and its key are
\* gone, its instance is deleted and not collected any more, and the unit is gone exactly
\* when no name is left (queries.go:208-294).
THEOREM QueriesRemoved == OneAtATime => (Spec => []RemoveIsTrue)
<1> SUFFICES ASSUME OneAtATime PROVE Spec => []RemoveIsTrue OBVIOUS
<1>1. TypeOK /\ PInv => RemoveIsTrue
  BY JobOK DEF PInv, Progress, Settled, Removed, RemoveIsTrue, Succeeded, At, Agreed
<1> QED BY <1>1, QueriesTypeCorrect, WorkAlways, PTL

\* With one pmm-admin at a time and a catalog that can be read, a repair that reports success
\* leaves a unit for every service and a service for every unit, whatever earlier commands left
\* behind (pmm.go:647-693).  The condition is needed: of a catalog that cannot be read it
\* concludes that every unit is an orphan (pmm.go:614-617).
THEOREM QueriesRepaired == OneAtATime /\ CatalogRead => (Spec => []RepairIsTrue)
<1> SUFFICES ASSUME OneAtATime, CatalogRead PROVE Spec => []RepairIsTrue OBVIOUS
<1>1. TypeOK /\ PInv => RepairIsTrue
  <2> SUFFICES ASSUME TypeOK, PInv, NEW p \in Procs, Succeeded(p, "repair")
               PROVE  unit = { j.type : j \in Monitored }
    BY DEF RepairIsTrue
  <2>1. Orphans \cup Missing = {} BY DEF PInv, Progress, Repairs, Succeeded, At
  <2>2. unit = { t \in Types : tags[t] # {} } BY <2>1, AgreedIs DEF Agreed, TypeOK, HostOK
  <2>3. \A t \in Types : tags[t] # {} => \E j \in Monitored : j.type = t
    <3> SUFFICES ASSUME NEW t \in Types, NEW a \in tags[t] PROVE \E j \in Monitored : j.type = t OBVIOUS
    <3>1. [type |-> t, alias |-> a] \in Jobs BY DEF Jobs, TypeOK, ServerOK
    <3> QED BY <3>1 DEF Monitored
  <2>4. \A j \in Monitored : j.type \in Types /\ tags[j.type] # {} BY DEF Monitored, Jobs
  <2> QED BY <2>2, <2>3, <2>4
<1> QED BY <1>1, QueriesTypeCorrect, WorkAlways, PTL

-----------------------------------------------------------------------------
(* Without faults: nothing is left half done *)

\* There is one agent, which everything that runs is.
Ground ==
  /\ agents = IF conf = 0 THEN {} ELSE {conf}
  /\ \A t \in Types : proc[t] \in {0, conf}
  /\ tools \subseteq files

\* What is kept of a database, in Consul, QAN and the agent.
Has(j, K, L, T) == Of(keys, j) = K /\ Of(live, j) = L /\ Of(tools, j) = T
Tag(j) == j.alias \in tags[j.type]
Kept(j) == Has(j, Of(keys, j), Of(keys, j), Of(keys, j)) /\ (Tag(j) <=> Of(keys, j) # {})

\* The locations between the first and the last write for one database.
Wanting == {"file", "unit", "startunit", "wake", "starttool"}
InHand == Wanting \cup {"register", "keys", "delete", "deltree", "retag"}

Stored(p) ==
  /\ \A j \in Jobs : j # job[p] \/ pc[p] \notin InHand => Kept(j)
  /\ pc[p] \in {"unique", "service", "agent", "wipe", "install", "parent", "instance", "undelete", "create"} =>
       ~ Tag(job[p])
  /\ pc[p] \in Wanting => ~ Tag(job[p]) /\ Has(job[p], {}, {uuid[p]}, {})
  /\ pc[p] = "register" => ~ Tag(job[p]) /\ Has(job[p], {}, {uuid[p]}, {uuid[p]})
  /\ pc[p] = "keys" => Tag(job[p]) /\ Has(job[p], {}, {uuid[p]}, {uuid[p]})
  /\ pc[p] = "stoptool" => Has(job[p], {uuid[p]}, {uuid[p]}, {uuid[p]})
  /\ pc[p] \in {"rmwake", "getkey", "stoptool"} => Tag(job[p])
  /\ pc[p] = "delete" => Tag(job[p]) /\ Has(job[p], {uuid[p]}, {uuid[p]}, {})
  /\ pc[p] = "deltree" => Tag(job[p]) /\ Has(job[p], {uuid[p]}, {}, {})
  /\ pc[p] = "retag" => Tag(job[p]) /\ Has(job[p], {}, {}, {})

\* Units and registrations agree, but for the type that is being added or removed.
Extra == {"startunit", "starttool", "register", "halt", "uninstall"}
Installed(p) ==
  /\ pc[p] \notin Extra => Agreed
  /\ pc[p] \in Extra => /\ Type(p) \in unit
                        /\ \A t \in Types \ {Type(p)} : t \in unit <=> tags[t] # {}
  /\ pc[p] \in {"halt", "uninstall"} => tags[Type(p)] = {}
  /\ pc[p] = "unit" => seen[p] = {}
  /\ pc[p] = "wake" => seen[p] # {}
  /\ pc[p] = "starttool" => proc[Type(p)] = conf
  /\ pc[p] = "parent" => conf # 0
  /\ pc[p] = "install" => conf = 0
  /\ pc[p] \in {"getkey", "stoptool"} => proc[Type(p)] = conf
  /\ pc[p] = "stoptool" => agent[p] = conf

\* A repair finds nothing to do, and the last loop of Uninstall nothing left.
Idles(p) ==
  /\ pc[p] \notin {"rewipe", "reinstall", "reparent", "sweephalt", "sweepunit", "names", "purgekeys"}
  /\ pc[p] = "sweep" => units[p] = {}
  /\ pc[p] \in {"sweep", "purge"} /\ cmd[p] = "repair" => lost[p] = {}
  /\ cmd[p] = "uninstall" =>
       /\ pc[p] \in {"each", "halt", "uninstall"} => ToRemove \subseteq todo[p]
       /\ pc[p] \in Removing => ToRemove \subseteq todo[p] \cup {job[p]}
       /\ pc[p] = "list" => ToRemove = {}

Even == Ground /\ \A p \in Procs : Stored(p) /\ Installed(p) /\ Idles(p)
EInv == faults = 0 => Even

LEMMA OneProcess ==
  ASSUME OneAtATime, NEW p \in Procs, Ground', Stored(p)', Installed(p)', Idles(p)'
  PROVE  Even'
BY DEF Even, OneAtATime

\* Where nothing is in hand a command may end, or go on with the next database.
LEMMA Leaves ==
  ASSUME TypeOK, Even, OneAtATime, NEW p \in Procs, UNCHANGED << server, host >>,
         pc[p] \notin InHand \cup Extra, pc'[p] \in {"idle", "done", "each"},
         cmd'[p] = cmd[p] \/ (pc'[p] = "idle" /\ cmd'[p] = "none"),
         cmd[p] = "uninstall" /\ pc'[p] = "each" => ToRemove \subseteq todo'[p]
  PROVE  Even'
<1> USE DEF server, host
<1>1. Ground' BY DEF Even, Ground
<1>2. \A j \in Jobs : Kept(j)' <=> Kept(j) BY DEF Kept, Has, Tag, Of
<1>3. Stored(p)' BY <1>2 DEF Even, Stored, InHand, Wanting
<1>4. Installed(p)' BY DEF Even, Installed, Extra, Agreed
<1>5. Idles(p)' BY DEF Idles, ToRemove
<1> QED BY <1>1, <1>3, <1>4, <1>5, OneProcess

LEMMA ExitLeaves ==
  ASSUME TypeOK, Even, OneAtATime, NEW p \in Procs, UNCHANGED << server, host >>,
         pc[p] \notin InHand \cup Extra, Exit(p)
  PROVE  Even'
BY Leaves DEF Exit, Goto, TypeOK, MemoryOK

LEMMA FailsLeaves ==
  ASSUME TypeOK, Even, OneAtATime, NEW p \in Procs, UNCHANGED << server, host >>,
         pc[p] \in Removing \ (InHand \cup Extra), Fails(p),
         cmd[p] = "uninstall" => ~ Tag(job[p])
  PROVE  Even'
<1>1. CASE Exit(p) BY <1>1, ExitLeaves
<1>2. CASE ~ Exit(p)
  <2>1. cmd[p] = "uninstall" /\ Return(p, "each") BY <1>2 DEF Fails
  <2>2. ToRemove \subseteq todo[p] BY <2>1 DEF Even, Idles, Extra, ToRemove, Tag
  <2>3. pc'[p] = "each" /\ UNCHANGED << cmd, todo >> BY <2>1 DEF Return, Goto, TypeOK, MemoryOK
  <2>4. pc[p] \notin InHand \cup Extra OBVIOUS
  <2>5. ToRemove \subseteq todo'[p] BY <2>2, <2>3
  <2> QED BY <2>3, <2>4, <2>5, Leaves
<1> QED BY <1>1, <1>2

\* A step that writes nothing.
LEMMA Reads ==
  ASSUME TypeOK, Even, OneAtATime, NEW p \in Procs, UNCHANGED << server, host, cmd, job >>,
         pc[p] \notin InHand \cup Extra, pc'[p] \notin InHand \cup Extra,
         pc'[p] \in {"unique", "service", "agent", "wipe", "install", "parent", "instance", "undelete", "create"} =>
           ~ Tag(job[p]),
         pc'[p] \in {"rmwake", "getkey", "stoptool"} => Tag(job[p]),
         pc'[p] = "stoptool" => Has(job[p], {uuid'[p]}, {uuid'[p]}, {uuid'[p]}),
         pc'[p] = "parent" => conf # 0, pc'[p] \notin {"install", "getkey"},
         pc'[p] = "stoptool" => agent'[p] = conf /\ proc[Type(p)] = conf, Idles(p)'
  PROVE  Even'
<1> USE DEF server, host
<1>1. Ground' BY DEF Even, Ground
<1>2. \A j \in Jobs : Kept(j)' <=> Kept(j) BY DEF Kept, Has, Tag, Of
<1>3. Tag(job[p])' <=> Tag(job[p]) BY DEF Tag
<1>5. Stored(p)' BY <1>2, <1>3 DEF Even, Stored, InHand, Wanting, Has
<1>6. Installed(p)' BY DEF Even, Installed, Extra, InHand, Wanting, Agreed, Type
<1> QED BY <1>1, <1>5, <1>6, OneProcess

LEMMA AddReads ==
  ASSUME TypeOK, Paths, TagsInv, CInv, Even, OneAtATime, NEW p \in Procs,
         \/ CheckInstallation(p) \/ NoDuplicate(p, "lookup", "unique") \/ NoDuplicate(p, "unique", "service")
         \/ ReadService(p) \/ FindAgent(p) \/ GetParent(p) \/ GetParentAgain(p) \/ FindInstance(p)
  PROVE  Even'
<1>1. Comes(cmd[p], pc[p]) /\ Stored(p) /\ Installed(p) /\ Idles(p) /\ Ground /\ Adds(p)
  BY DEF Paths, Even, CInv
<1>2. UNCHANGED << server, host >>
  BY DEF CheckInstallation, NoDuplicate, ReadService, FindAgent, GetParent, GetParentAgain, FindInstance
<1>3. pc[p] \notin InHand \cup Extra
  BY DEF CheckInstallation, NoDuplicate, ReadService, FindAgent, GetParent, GetParentAgain, FindInstance, At,
         InHand, Wanting, Extra
<1>4. CASE Exit(p) BY <1>2, <1>3, <1>4, ExitLeaves
<1> USE <1>1, <1>2, <1>3 DEF At, Goto, memory, TypeOK, MemoryOK, InHand, Wanting, Extra, Comes, Idles
<1>5. CASE CheckInstallation(p) /\ ~ Exit(p)
  <2>1. Orphans \cup Missing = {} BY <1>5, AgreedIs DEF CheckInstallation, Installed
  <2> USE DEF Verdict
  <2>2. CASE cmd[p] = "repair"
    <3>1. pc'[p] = "sweep" /\ UNCHANGED << cmd, job >> BY <1>5, <2>2 DEF CheckInstallation
    <3>2. Idles(p)' BY <1>5, <2>1, <2>2 DEF CheckInstallation
    <3> QED BY <3>1, <3>2, Reads
  <2>3. CASE cmd[p] # "repair"
    <3>1. UNCHANGED << cmd, job >> /\ cmd[p] # "uninstall" BY <1>5, <2>3 DEF CheckInstallation
    <3>2. pc'[p] \in {"snapshot", "lookup"} BY <1>5, <2>3 DEF CheckInstallation
    <3>3. Idles(p)' BY <3>1, <3>2
    <3> QED BY <3>1, <3>2, <3>3, Reads
  <2> QED BY <2>2, <2>3
<1>6. CASE (NoDuplicate(p, "lookup", "unique") \/ NoDuplicate(p, "unique", "service")) /\ ~ Exit(p)
  <2>1. ~ Tag(job[p]) /\ UNCHANGED << cmd, job >> /\ cmd[p] = "add" BY <1>6 DEF NoDuplicate, Tag, Type
  <2>2. pc'[p] \in {"unique", "service"} BY <1>6 DEF NoDuplicate
  <2>3. Idles(p)' BY <2>1, <2>2
  <2> QED BY <2>1, <2>2, <2>3, Reads
<1>7. CASE ReadService(p) \/ FindAgent(p)
  <2>1. ~ Tag(job[p]) /\ UNCHANGED << cmd, job >> /\ cmd[p] = "add"
    BY <1>7 DEF ReadService, FindAgent, Stored
  <2>2. pc'[p] \in {"agent", "wipe", "parent"} BY <1>7 DEF ReadService, FindAgent
  <2>3. Idles(p)' BY <2>1, <2>2
  <2>4. pc'[p] = "parent" => conf # 0 BY <1>7, <2>2 DEF ReadService, FindAgent
  <2> QED BY <2>1, <2>2, <2>3, <2>4, Reads
<1>8. CASE GetParent(p) /\ ~ Exit(p)
  <2>1. conf # 0 BY <1>8 DEF GetParent, Installed
  <2>2. agent[p] \in agents BY <1>8, <2>1 DEF GetParent, Adds, Ground
  <2>3. ~ Tag(job[p]) /\ UNCHANGED << cmd, job >> /\ cmd[p] = "add" /\ pc'[p] = "instance"
    BY <1>8, <2>2 DEF GetParent, Stored
  <2>4. Idles(p)' BY <2>3
  <2> QED BY <2>3, <2>4, Reads
<1>9. CASE GetParentAgain(p) BY <1>9 DEF GetParentAgain
<1>10. CASE FindInstance(p)
  <2>1. ~ Tag(job[p]) /\ UNCHANGED << cmd, job >> /\ cmd[p] = "add" BY <1>10 DEF FindInstance, Stored
  <2>2. pc'[p] \in {"undelete", "create"} BY <1>10 DEF FindInstance
  <2>3. Idles(p)' BY <2>1, <2>2
  <2> QED BY <2>1, <2>2, <2>3, Reads
<1> QED BY <1>4, <1>5, <1>6, <1>7, <1>8, <1>9, <1>10

LEMMA SameKept ==
  ASSUME UNCHANGED tags, UNCHANGED keys, UNCHANGED live, UNCHANGED tools
  PROVE  \A j : (Kept(j)' <=> Kept(j)) /\ (Tag(j)' <=> Tag(j))
BY DEF Kept, Has, Tag, Of

\* What is written for one database makes no difference to another.
LEMMA OfApart ==
  ASSUME NEW i \in Jobs, NEW j \in Jobs, j # i, NEW S, NEW T,
         \A u : ~ (u.type = i.type /\ u.alias = i.alias) => (u \in S <=> u \in T)
  PROVE  Of(S, j) = Of(T, j)
<1>1. i.type # j.type \/ i.alias # j.alias BY DEF Jobs
<1> QED BY <1>1 DEF Of

LEMMA KeptApart ==
  ASSUME TypeOK, NEW p \in Procs,
         \A u : ~ (u.type = job[p].type /\ u.alias = job[p].alias) =>
           (u \in keys <=> u \in keys') /\ (u \in live <=> u \in live') /\ (u \in tools <=> u \in tools'),
         \A j \in Jobs : j # job[p] => Kept(j),
         \A j \in Jobs : j # job[p] => (Tag(j)' <=> Tag(j))
  PROVE  \A j \in Jobs : j # job[p] => Kept(j)'
<1> SUFFICES ASSUME NEW j \in Jobs, j # job[p] PROVE Kept(j)' OBVIOUS
<1>1. job[p] \in Jobs BY DEF TypeOK, MemoryOK
<1>2. Of(keys, j) = Of(keys', j) BY <1>1, OfApart
<1>3. Of(live, j) = Of(live', j) BY <1>1, OfApart
<1>4. Of(tools, j) = Of(tools', j) BY <1>1, OfApart
<1> QED BY <1>2, <1>3, <1>4 DEF Kept, Has

LEMMA NothingKept ==
  ASSUME NEW j, Kept(j), ~ Tag(j)
  PROVE  Has(j, {}, {}, {})
BY DEF Kept, Has

LEMMA AddWrites ==
  ASSUME TypeOK, TypeOK', Paths, TagsInv, CInv, CInv', Even, OneAtATime, NEW p \in Procs,
         \/ WipeAgent(p, "wipe", "install") \/ InstallAgent(p, "install", "parent")
         \/ WipeAgent(p, "rewipe", "reinstall") \/ InstallAgent(p, "reinstall", "reparent")
         \/ Undelete(p) \/ CreateInstance(p) \/ WriteFile(p)
         \/ InstallUnit(p) \/ StartUnit(p) \/ Wake(p, "wake", "starttool")
         \/ StartTool(p) \/ Register(p) \/ PutKeys(p)
  PROVE  Even'
<1>1. Comes(cmd[p], pc[p]) /\ Stored(p) /\ Installed(p) /\ Idles(p) /\ Ground /\ Adds(p) /\ Places
  BY DEF Paths, Even, CInv
<1>2. cmd[p] = "add"
  BY <1>1 DEF WipeAgent, InstallAgent, Undelete, CreateInstance, WriteFile, InstallUnit, StartUnit, Wake,
              StartTool, Register, PutKeys, At, Comes
<1>3. job[p] \in Jobs /\ Type(p) \in Types /\ job[p].alias \in Aliases /\ tags \in [Types -> SUBSET Aliases]
  BY JobOK DEF TypeOK, ServerOK
<1>5. \A l : Goto(p, l) => pc'[p] = l BY DEF Goto, TypeOK, MemoryOK
<1>6. cmd'[p] = "add" /\ pc'[p] \in {"install", "parent", "file", "unit", "startunit", "wake",
                                    "starttool", "register", "keys", "done"} => Idles(p)'
  BY DEF Idles
<1> USE <1>1, <1>2 DEF At, server, host, memory, Type
<1>7. CASE WipeAgent(p, "wipe", "install") \/ WipeAgent(p, "rewipe", "reinstall")
  <2>1. pc[p] = "wipe" /\ pc'[p] = "install" /\ conf = 0 /\ UNCHANGED << server, memory, unit, proc >>
    BY <1>5, <1>7 DEF WipeAgent, Idles, Adds
  <2>2. tools = {} /\ files = {}
    BY <2>1, QueriesConstants DEF Places, Hosted, TypeOK, HostOK, UUIDs, Agents
  <2>3. tools' = {} /\ files' = {} /\ conf' = 0 BY <1>7 DEF WipeAgent
  <2>8. UNCHANGED << tags, keys, live, tools, job >> BY <2>1, <2>2, <2>3
  <2>9. \A j \in Jobs : Kept(j)' <=> Kept(j) BY <2>8, SameKept
  <2>10. Tag(job[p])' <=> Tag(job[p]) BY <2>8 DEF Tag
  <2>4. Ground' BY <2>1, <2>3 DEF Ground
  <2>5. Stored(p)' BY <2>1, <2>8, <2>9, <2>10 DEF Stored, InHand, Wanting
  <2>6. Installed(p)' BY <2>1, <2>3 DEF Installed, Extra, Agreed
  <2> QED BY <1>6, <2>1, <2>4, <2>5, <2>6, OneProcess
<1>8. CASE InstallAgent(p, "install", "parent") \/ InstallAgent(p, "reinstall", "reparent")
  <2>1. pc[p] = "install" /\ pc'[p] = "parent"
    BY <1>5, <1>8 DEF InstallAgent, Idles
  <2>2. UNCHANGED << tags, keys, live, tools, files, unit, proc, cmd, job, seen >>
    BY <1>8 DEF InstallAgent
  <2>3. conf = 0 /\ tools = {} /\ files = {} /\ agents = {} BY <2>1 DEF Adds, Installed, Ground
  <2>4. Fresh \in Agents BY <1>8, FreshOK DEF InstallAgent
  <2>5. agents' = {Fresh} /\ conf' = Fresh BY <1>8, <2>3 DEF InstallAgent
  <2>6. Fresh # 0 BY <2>4, QueriesConstants DEF Agents
  <2>7. Ground' BY <2>2, <2>3, <2>5, <2>6 DEF Ground
  <2>8. \A j \in Jobs : Kept(j)' <=> Kept(j) BY <2>2, SameKept
  <2>9. Tag(job[p])' <=> Tag(job[p]) BY <2>2 DEF Tag
  <2>10. Stored(p)' BY <2>1, <2>2, <2>8, <2>9 DEF Stored, InHand, Wanting
  <2>11. Installed(p)' BY <2>1, <2>2, <2>5, <2>6 DEF Installed, Extra, Agreed
  <2> QED BY <1>6, <2>1, <2>2, <2>7, <2>10, <2>11, OneProcess
<1>9. CASE Undelete(p) \/ CreateInstance(p)
  <2>1. CASE Exit(p)
    BY <1>9, <2>1, ExitLeaves DEF Undelete, CreateInstance, InHand, Wanting, Extra, Exit, Goto, TypeOK, MemoryOK
  <2>2. CASE ~ Exit(p)
    <3>1. /\ pc'[p] = "file" /\ pc[p] \in {"undelete", "create"}
          /\ live' = live \cup {uuid'[p]} /\ UNCHANGED << tags, keys, agents, host, cmd, job, seen >>
      BY <1>5, <1>9, <2>2 DEF Undelete, CreateInstance, TypeOK, MemoryOK
    <3>2. uuid'[p] \in Of(UUIDs, job[p]) BY <3>1 DEF CInv, Adds
    <3>3. Ground' BY <3>1 DEF Ground
    <3>4. Has(job[p], {}, {}, {}) /\ ~ Tag(job[p])
      BY <1>3, <3>1, NothingKept DEF Stored, InHand, Wanting
    <3>9. Of(live', job[p]) = {uuid'[p]} BY <1>3, <3>1, <3>2, <3>4 DEF Has, Of
    <3>5. Has(job[p], {}, {uuid[p]}, {})' BY <3>1, <3>4, <3>9 DEF Has
    <3>6. \A j \in Jobs : j # job[p] => Kept(j)'
      BY <3>1, <3>2, KeptApart DEF Stored, Tag, Of
    <3>10. ~ Tag(job[p])' BY <3>1, <3>4 DEF Tag
    <3>7. Stored(p)' BY <3>1, <3>5, <3>6, <3>10 DEF Stored, InHand, Wanting
    <3>8. Installed(p)' BY <3>1 DEF Installed, Extra, Agreed
    <3> QED BY <1>6, <3>1, <3>3, <3>7, <3>8, OneProcess
  <2> QED BY <2>1, <2>2
<1>10. CASE WriteFile(p)
  <2>1. pc[p] = "file" /\ pc'[p] = IF seen[p] = {} THEN "unit" ELSE "wake" BY <1>5, <1>10 DEF WriteFile
  <2>2. UNCHANGED << server, unit, proc, conf, tools, memory >> /\ files \subseteq files'
    BY <1>10 DEF WriteFile
  <2>3. Ground' BY <2>2 DEF Ground
  <2>4. \A j \in Jobs : Kept(j)' <=> Kept(j) BY <2>2, SameKept
  <2>5. Tag(job[p])' <=> Tag(job[p]) BY <2>2 DEF Tag
  <2>6. Has(job[p], {}, {uuid[p]}, {})' BY <2>1, <2>2 DEF Stored, InHand, Wanting, Has
  <2>7. Stored(p)' BY <2>1, <2>2, <2>4, <2>5, <2>6 DEF Stored, InHand, Wanting
  <2>8. Installed(p)' BY <2>1, <2>2 DEF Installed, Extra, Agreed
  <2> QED BY <1>6, <2>1, <2>2, <2>3, <2>7, <2>8, OneProcess
<1>11. CASE InstallUnit(p) \/ StartUnit(p) \/ Wake(p, "wake", "starttool")
  <2>1. /\ pc[p] \in {"unit", "startunit", "wake"} /\ pc'[p] \in {"startunit", "starttool"}
        /\ UNCHANGED << server, conf, files, tools, memory >>
        /\ Type(p) \in unit' /\ unit' \in {unit, unit \cup {Type(p)}}
        /\ pc[p] = "unit" => pc'[p] = "startunit" /\ UNCHANGED proc
        /\ pc[p] # "unit" => pc'[p] = "starttool" /\ UNCHANGED unit
        /\ proc' \in {proc, [proc EXCEPT ![Type(p)] = conf]}
        /\ pc'[p] = "starttool" => proc'[Type(p)] = conf
    <3>1. CASE InstallUnit(p)
      <4>1. seen[p] = {} /\ tags[Type(p)] = {}
        BY <3>1 DEF InstallUnit, Installed, TagsInv, SeenIsCurrent
      <4>2. Type(p) \notin unit BY <1>3, <3>1, <4>1 DEF InstallUnit, Installed, Extra, Agreed
      <4> QED BY <1>5, <3>1, <4>2 DEF InstallUnit
    <3>2. CASE StartUnit(p)
      <4>1. Type(p) \in unit BY <3>2 DEF StartUnit, Installed, Extra
      <4> QED BY <1>3, <1>5, <3>2, <4>1 DEF StartUnit, TypeOK, HostOK
    <3>3. CASE Wake(p, "wake", "starttool")
      <4>1. tags[Type(p)] # {} BY <3>3 DEF Wake, Installed, TagsInv, SeenIsCurrent
      <4>2. Type(p) \in unit BY <1>3, <3>3, <4>1 DEF Wake, Installed, Extra, Agreed
      <4>3. proc[Type(p)] \in {0, conf} BY <1>3 DEF Ground
      <4> QED BY <1>3, <1>5, <3>3, <4>2, <4>3 DEF Wake, TypeOK, HostOK
    <3> QED BY <1>11, <3>1, <3>2, <3>3
  <2>2. Ground' BY <1>3, <2>1 DEF Ground, TypeOK, HostOK
  <2>3. \A j \in Jobs : Kept(j)' <=> Kept(j) BY <2>1, SameKept
  <2>4. Tag(job[p])' <=> Tag(job[p]) BY <2>1 DEF Tag
  <2>5. Has(job[p], {}, {uuid[p]}, {})' BY <2>1 DEF Stored, InHand, Wanting, Has
  <2>6. Stored(p)' BY <2>1, <2>3, <2>4, <2>5 DEF Stored, InHand, Wanting
  <2>7. Installed(p)' BY <2>1 DEF Installed, Extra, Agreed
  <2> QED BY <1>6, <2>1, <2>2, <2>6, <2>7, OneProcess
<1>12. CASE StartTool(p)
  <2>1. pc[p] = "starttool" /\ Has(job[p], {}, {uuid[p]}, {}) /\ ~ Tag(job[p])
    BY <1>12 DEF StartTool, Stored, Wanting
  <2>2. Connected(p) BY <1>3, <2>1 DEF Connected, Adds, Writing, Installed
  <2>3. uuid[p] \in Of(UUIDs, job[p]) /\ uuid[p] \in files BY <2>1 DEF Adds, Writing
  <2>4. uuid[p] \notin tools BY <2>1, <2>3 DEF Has, Of
  <2>5. pc'[p] = "register" /\ tools' = tools \cup {uuid[p]}
    BY <1>5, <1>12, <2>2, <2>4 DEF StartTool
  <2>6. UNCHANGED << server, unit, proc, conf, files, memory >> BY <1>12, <2>2, <2>4 DEF StartTool
  <2>7. Ground' BY <2>3, <2>5, <2>6 DEF Ground
  <2>8. Of(tools', job[p]) = {uuid[p]} BY <2>1, <2>3, <2>5 DEF Has, Of
  <2>9. Has(job[p], {}, {uuid[p]}, {uuid[p]})' BY <2>1, <2>6, <2>8 DEF Has
  <2>10. \A j \in Jobs : j # job[p] => Kept(j)'
    BY <2>3, <2>5, <2>6, KeptApart DEF Stored, Tag, Of
  <2>11. ~ Tag(job[p])' BY <2>1, <2>6 DEF Tag
  <2>12. Stored(p)' BY <2>5, <2>6, <2>9, <2>10, <2>11 DEF Stored, InHand, Wanting
  <2>13. Installed(p)' BY <2>1, <2>5, <2>6 DEF Installed, Extra
  <2> QED BY <1>6, <2>5, <2>6, <2>7, <2>12, <2>13, OneProcess
<1>13. CASE Register(p)
  <2>1. pc[p] = "register" /\ pc'[p] = "keys" BY <1>5, <1>13 DEF Register
  <2>2. tags' = [tags EXCEPT ![Type(p)] = @ \cup {job[p].alias}]
    BY <1>13, <2>1 DEF Register, Tagged, TagsInv, SeenIsCurrent
  <2>3. UNCHANGED << keys, agents, instances, live, host, memory >> BY <1>13 DEF Register
  <2>4. Ground' BY <2>3 DEF Ground
  <2>5. Has(job[p], {}, {uuid[p]}, {uuid[p]})' BY <2>1, <2>3 DEF Stored, Has
  <2>6. Tag(job[p])' BY <1>3, <2>2, <2>3 DEF Tag
  <2>7. \A j \in Jobs : j # job[p] => (Tag(j)' <=> Tag(j)) BY <1>3, <2>2 DEF Tag, Jobs
  <2>8. \A j \in Jobs : j # job[p] => Kept(j)' BY <2>1, <2>3, <2>7, KeptApart DEF Stored
  <2>9. Stored(p)' BY <2>1, <2>3, <2>5, <2>6, <2>8 DEF Stored, InHand, Wanting
  <2>10. Installed(p)' BY <1>3, <2>1, <2>2, <2>3 DEF Installed, Extra, Agreed
  <2> QED BY <1>6, <2>1, <2>3, <2>4, <2>9, <2>10, OneProcess
<1>14. CASE PutKeys(p)
  <2>1. pc[p] = "keys" /\ pc'[p] = "done" BY <1>5, <1>14 DEF PutKeys
  <2>2. keys' = (keys \ Of(keys, job[p])) \cup {uuid[p]} BY <1>14 DEF PutKeys
  <2>3. UNCHANGED << tags, agents, instances, live, host, memory >> BY <1>14 DEF PutKeys
  <2>4. Ground' BY <2>3 DEF Ground
  <2>5. uuid[p] \in Of(UUIDs, job[p]) BY <2>1 DEF Adds, Writing
  <2>6. Of(keys', job[p]) = {uuid[p]} BY <2>2, <2>5 DEF Of
  <2>7. Kept(job[p])' BY <2>1, <2>3, <2>6 DEF Stored, Kept, Has, Tag
  <2>8. \A j \in Jobs : j # job[p] => Kept(j)'
    BY <2>1, <2>2, <2>3, <2>5, KeptApart DEF Stored, Tag, Of
  <2>9. Stored(p)' BY <2>1, <2>3, <2>7, <2>8 DEF Stored, InHand, Wanting
  <2>10. Installed(p)' BY <2>1, <2>3 DEF Installed, Extra, Agreed
  <2> QED BY <1>6, <2>1, <2>3, <2>4, <2>9, <2>10, OneProcess
<1> QED BY <1>7, <1>8, <1>9, <1>10, <1>11, <1>12, <1>13, <1>14

\* A step between two locations where nothing is in hand and nothing is known.
Plain == {"idle", "done", "check", "snapshot", "each", "lookup", "list", "sweep", "purge", "stop", "rouse"}

LEMMA Plainly ==
  ASSUME TypeOK, Even, OneAtATime, NEW p \in Procs, UNCHANGED << server, host >>,
         pc[p] \notin InHand \cup Extra, pc'[p] \in Plain, Idles(p)'
  PROVE  Even'
<1> USE DEF server, host, Plain
<1>1. Ground' BY DEF Even, Ground
<1>2. \A j \in Jobs : Kept(j)' <=> Kept(j) BY SameKept
<1>3. Stored(p)' BY <1>2 DEF Even, Stored, InHand, Wanting
<1>4. Installed(p)' BY DEF Even, Installed, Extra, InHand, Wanting, Agreed
<1> QED BY <1>1, <1>3, <1>4, OneProcess

LEMMA AgreedUnit ==
  ASSUME TypeOK, Agreed
  PROVE  \A t \in Types : t \in unit <=> \E a \in Aliases : [type |-> t, alias |-> a] \in ToRemove
<1> SUFFICES ASSUME NEW t \in Types
             PROVE  t \in unit <=> \E a \in Aliases : [type |-> t, alias |-> a] \in ToRemove
  OBVIOUS
<1>1. t \in unit <=> tags[t] # {} BY DEF Agreed
<1>2. tags[t] \subseteq Aliases BY DEF TypeOK, ServerOK
<1>3. \A a \in Aliases : [type |-> t, alias |-> a] \in Jobs BY DEF Jobs
<1>4. \A a \in Aliases : [type |-> t, alias |-> a] \in ToRemove <=> a \in tags[t] BY <1>3 DEF ToRemove
<1> QED BY <1>1, <1>2, <1>4

LEMMA LoopEven ==
  ASSUME TypeOK, Paths, TagsInv, Even, OneAtATime, NEW p \in Procs,
         Snapshot(p) \/ RemoveEach(p) \/ ListUnits(p) \/ Sweep(p) \/ Purge(p) \/ Finish(p)
  PROVE  Even'
<1>1. Comes(cmd[p], pc[p]) /\ Stored(p) /\ Installed(p) /\ Idles(p) BY DEF Paths, Even
<1>2. \A l : Goto(p, l) => pc'[p] = l BY DEF Goto, TypeOK, MemoryOK
<1> USE <1>1 DEF At, server, host, Extra, InHand, Wanting, Plain
<1>3. CASE Snapshot(p)
  <2>1. pc'[p] = "each" /\ todo'[p] = ToRemove /\ UNCHANGED << server, host, cmd >>
    BY <1>2, <1>3 DEF Snapshot, TypeOK, MemoryOK
  <2>2. Idles(p)' BY <2>1 DEF Idles, ToRemove
  <2> QED BY <1>3, <2>1, <2>2, Plainly DEF Snapshot
<1>4. CASE RemoveEach(p)
  <2>1. pc[p] = "each" /\ UNCHANGED << server, host, cmd, lost >> BY <1>4 DEF RemoveEach
  <2>2. CASE todo[p] = {} /\ Goto(p, IF cmd[p] = "uninstall" THEN "list" ELSE "done") /\ UNCHANGED << job, todo >>
    <3>1. pc'[p] = IF cmd[p] = "uninstall" THEN "list" ELSE "done" BY <1>2, <2>2
    <3>2. Idles(p)' BY <2>1, <2>2, <3>1 DEF Idles, ToRemove
    <3> QED BY <2>1, <3>1, <3>2, Plainly
  <2>3. ASSUME NEW j \in todo[p], job' = [job EXCEPT ![p] = j],
               todo' = [todo EXCEPT ![p] = StillToDo(p, j)], Goto(p, "lookup")
        PROVE  Even'
    <3>1. pc'[p] = "lookup" /\ job'[p] = j /\ todo'[p] = todo[p] \ {j}
      BY <1>2, <2>3 DEF StillToDo, TypeOK, MemoryOK
    <3>2. Idles(p)' BY <2>1, <3>1 DEF Idles, ToRemove
    <3> QED BY <2>1, <3>1, <3>2, Plainly
  <2> QED BY <1>4, <2>2, <2>3 DEF RemoveEach
<1>5. CASE ListUnits(p)
  <2>1. pc[p] = "list" /\ pc'[p] = "sweep" /\ units'[p] = unit /\ UNCHANGED << server, host, cmd >> /\ cmd[p] = "uninstall"
    BY <1>2, <1>5 DEF ListUnits, TypeOK, MemoryOK, Comes
  <2>2. ToRemove = {} /\ Agreed BY <2>1 DEF Idles, Installed
  <2>3. unit = {} BY <2>2, AgreedUnit DEF TypeOK, HostOK
  <2>4. Idles(p)' BY <2>1, <2>3 DEF Idles
  <2> QED BY <2>1, <2>4, Plainly
<1>6. CASE Sweep(p)
  <2>1. units[p] = {} /\ pc[p] = "sweep" BY <1>6 DEF Sweep, Idles
  <2>2. /\ pc'[p] = IF cmd[p] = "repair" THEN "purge" ELSE "done"
        /\ UNCHANGED << server, host, cmd, lost >>
    BY <1>2, <1>6, <2>1 DEF Sweep
  <2>3. Idles(p)' BY <2>1, <2>2 DEF Idles
  <2> QED BY <2>1, <2>2, <2>3, Plainly
<1>7. CASE Purge(p)
  <2>1. pc[p] = "purge" /\ lost[p] = {} BY <1>7 DEF Purge, Idles, TagsInv, RightCommand
  <2>2. pc'[p] = "done" /\ UNCHANGED << server, host >> BY <1>2, <1>7, <2>1 DEF Purge
  <2>3. Idles(p)' BY <2>2 DEF Idles
  <2> QED BY <2>1, <2>2, <2>3, Plainly
<1>8. CASE Finish(p) BY <1>8, ExitLeaves DEF Finish
<1> QED BY <1>3, <1>4, <1>5, <1>6, <1>7, <1>8

\* start, stop and restart move processes only.
LEMMA ProcEven ==
  ASSUME TypeOK, Even, OneAtATime, NEW p \in Procs, NEW n \in {0, conf},
         proc' = [proc EXCEPT ![Type(p)] = n],
         UNCHANGED << server, unit, conf, files, tools, memory >>,
         pc'[p] \in Plain \cup {"getkey", "uninstall"}, pc[p] \notin InHand,
         pc[p] \in Extra <=> pc'[p] = "uninstall",
         pc'[p] = "uninstall" => pc[p] = "halt",
         pc'[p] \in {"getkey", "uninstall"} => pc[p] \in Removing,
         pc'[p] = "getkey" => n = conf /\ Tag(job[p]), Idles(p)'
  PROVE  Even'
<1> USE DEF server, host, memory, Plain, Extra, InHand, Wanting
<1>1. Ground' BY DEF Even, Ground, TypeOK, HostOK
<1>2. \A j \in Jobs : Kept(j)' <=> Kept(j) BY SameKept
<1>3. Tag(job[p])' <=> Tag(job[p]) BY DEF Tag
<1>4. Stored(p)' BY <1>2, <1>3 DEF Even, Stored
<1>5. proc'[Type(p)] = n BY JobOK DEF TypeOK, HostOK
<1>6. Installed(p)' BY <1>5 DEF Even, Installed, Agreed, Type
<1> QED BY <1>1, <1>4, <1>6, OneProcess

LEMMA WakeEven ==
  ASSUME TypeOK, Paths, Even, OneAtATime, NEW p \in Procs,
         Stop(p) \/ Wake(p, "rouse", "done") \/ Wake(p, "rmwake", "getkey") \/ HaltUnit(p, "halt", "uninstall")
  PROVE  Even'
<1>1. Comes(cmd[p], pc[p]) /\ Stored(p) /\ Installed(p) /\ Idles(p) /\ Ground BY DEF Paths, Even
<1>2. \A l : Goto(p, l) => pc'[p] = l BY DEF Goto, TypeOK, MemoryOK
<1>3. job[p] \in Jobs /\ Type(p) \in Types BY JobOK
<1> USE <1>1, <1>3 DEF At, Extra, InHand, Wanting, Plain, memory, server, host
<1>4. CASE Stop(p)
  <2>1. /\ pc[p] = "stop" /\ pc'[p] \in {"rouse", "done"} /\ cmd[p] \in {"stop", "restart"}
        /\ proc' = [proc EXCEPT ![Type(p)] = 0]
        /\ UNCHANGED << server, unit, conf, files, tools, memory >>
    BY <1>2, <1>4 DEF Stop, Comes
  <2>2. Idles(p)' BY <2>1 DEF Idles
  <2> QED BY <2>1, <2>2, ProcEven
<1>5. CASE Wake(p, "rouse", "done") \/ Wake(p, "rmwake", "getkey")
  <2>1. CASE Fails(p) /\ UNCHANGED proc
    <3>1. Type(p) \notin unit BY <1>5, <2>1 DEF Wake, Fails, Goto, TypeOK, MemoryOK, Exit, Return
    <3>2. pc[p] \in {"rouse", "rmwake"} /\ UNCHANGED << server, host >> BY <1>5, <2>1 DEF Wake
    <3>3. tags[Type(p)] = {} BY <3>1, <3>2 DEF Installed, Agreed
    <3>4. pc[p] = "rouse" BY <3>2, <3>3 DEF Stored, Tag, Type
    <3>5. cmd[p] # "uninstall" BY <3>4 DEF Comes
    <3> QED BY <2>1, <3>2, <3>4, <3>5, ExitLeaves DEF Fails
  <2>2. CASE ~ (Fails(p) /\ UNCHANGED proc)
    <3> DEFINE n == IF proc[Type(p)] = 0 THEN conf ELSE proc[Type(p)]
    <3>1. n \in {0, conf} /\ (n = 0 => conf = 0) BY DEF Ground
    <3>2. /\ proc' = [proc EXCEPT ![Type(p)] = n]
          /\ UNCHANGED << server, unit, conf, files, tools, memory >>
          /\ \/ pc[p] = "rouse" /\ pc'[p] = "done"
             \/ pc[p] = "rmwake" /\ pc'[p] = "getkey"
      BY <1>2, <1>5, <2>2 DEF Wake
    <3>3. pc'[p] = "getkey" => n = conf /\ Tag(job[p]) BY <3>1, <3>2 DEF Stored
    <3>4. Idles(p)' BY <3>2 DEF Idles, ToRemove
    <3> HIDE DEF n
    <3> QED BY <3>1, <3>2, <3>3, <3>4, ProcEven
  <2> QED BY <2>1, <2>2
<1>6. CASE HaltUnit(p, "halt", "uninstall")
  <2>1. /\ pc[p] = "halt" /\ pc'[p] = "uninstall"
        /\ proc' = [proc EXCEPT ![Type(p)] = 0]
        /\ UNCHANGED << server, unit, conf, files, tools, memory >>
    BY <1>2, <1>6 DEF HaltUnit
  <2>2. Idles(p)' BY <2>1 DEF Idles, ToRemove
  <2> QED BY <2>1, <2>2, ProcEven
<1> QED BY <1>4, <1>5, <1>6

LEMMA FindEven ==
  ASSUME TypeOK, Paths, Even, OneAtATime, NEW p \in Procs, FindService(p)
  PROVE  Even'
<1>1. Comes(cmd[p], pc[p]) /\ Idles(p) BY DEF Paths, Even
<1>2. pc[p] = "lookup" /\ cmd[p] # "add" /\ UNCHANGED << server, host >> BY DEF FindService, At
<1> USE DEF InHand, Wanting, Extra
<1>3. CASE Fails(p)
  <2>1. cmd[p] = "uninstall" => ~ Tag(job[p])
    BY <1>2, <1>3 DEF FindService, Tag, Type, Fails, Goto, Return, TypeOK, MemoryOK
  <2> QED BY <1>2, <1>3, <2>1, FailsLeaves
<1>4. CASE ~ Fails(p)
  <2>1. /\ Tag(job[p]) /\ UNCHANGED << cmd, job, todo >>
        /\ pc'[p] \in {"rouse", "stop", "rmwake"}
        /\ cmd[p] \in {"start", "stop", "restart"} <=> pc'[p] # "rmwake"
    BY <1>2, <1>4 DEF FindService, Tag, Type, Goto, TypeOK, MemoryOK
  <2>2. Idles(p)' BY <1>1, <1>2, <2>1 DEF Idles, ToRemove, server
  <2> QED BY <1>2, <2>1, <2>2, Reads
<1> QED BY <1>3, <1>4

\* The key of a name that has a tag, and the only one.
LEMMA KeyKnown ==
  ASSUME TypeOK, Places, Ground, NEW j \in Jobs, Kept(j), Tag(j)
  PROVE  /\ conf # 0 /\ Of(keys, j) # {}
         /\ \A u \in Of(keys, j) : Has(j, {u}, {u}, {u})
<1>1. Of(keys, j) # {} /\ Of(keys, j) = Of(live, j) BY DEF Kept, Has
<1>2. \A u \in Of(keys, j) : u \in instances /\ u.agent \in agents /\ u.type = j.type /\ u.alias = j.alias
  BY <1>1 DEF Of, Places, Located, TypeOK, ServerOK
<1>3. conf # 0 /\ agents = {conf} BY <1>1, <1>2 DEF Ground
<1>4. \A u, v \in Of(keys, j) : u = v BY <1>2, <1>3 DEF Places, InstancesUnique
<1> QED BY <1>1, <1>3, <1>4 DEF Kept, Has

LEMMA GetKeyEven ==
  ASSUME TypeOK, Paths, CInv, Even, OneAtATime, NEW p \in Procs, GetKey(p)
  PROVE  Even'
<1>1. Comes(cmd[p], pc[p]) /\ Stored(p) /\ Installed(p) /\ Idles(p) /\ Ground /\ Places
  BY DEF Paths, Even, CInv
<1>2. pc[p] = "getkey" /\ UNCHANGED << server, host >> BY DEF GetKey, At
<1>3. Kept(job[p]) /\ Tag(job[p]) /\ job[p] \in Jobs
  BY <1>1, <1>2, JobOK DEF Stored, InHand, Wanting
<1>4. PICK u \in Of(keys, job[p]) :
        /\ uuid' = [uuid EXCEPT ![p] = u] /\ agent' = [agent EXCEPT ![p] = conf]
        /\ Goto(p, "stoptool") /\ UNCHANGED << cmd, job, todo >>
  BY <1>1, <1>3, KeyKnown DEF GetKey
<1>5. pc'[p] = "stoptool" /\ uuid'[p] = u /\ agent'[p] = conf BY <1>4 DEF Goto, TypeOK, MemoryOK
<1>6. Has(job[p], {u}, {u}, {u}) BY <1>1, <1>3, KeyKnown
<1>7. proc[Type(p)] = conf BY <1>1, <1>2 DEF Installed
<1>8. Idles(p)' BY <1>1, <1>2, <1>4, <1>5 DEF Idles, ToRemove, server
<1> QED BY <1>2, <1>3, <1>4, <1>5, <1>6, <1>7, <1>8, Reads DEF InHand, Wanting, Extra

LEMMA DropEven ==
  ASSUME TypeOK, Paths, CInv, Even, OneAtATime, NEW p \in Procs,
         StopTool(p) \/ DeleteInstance(p) \/ DeleteTree(p)
  PROVE  Even'
<1>1. Comes(cmd[p], pc[p]) /\ Stored(p) /\ Installed(p) /\ Idles(p) /\ Ground /\ Places
  BY DEF Paths, Even, CInv
<1>2. \A l : Goto(p, l) => pc'[p] = l BY DEF Goto, TypeOK, MemoryOK
<1>3. job[p] \in Jobs BY JobOK
<1> USE DEF At, server, host, memory
<1>4. CASE StopTool(p)
  <2>1. pc[p] = "stoptool" /\ Tag(job[p]) /\ Has(job[p], {uuid[p]}, {uuid[p]}, {uuid[p]})
    BY <1>1, <1>4 DEF StopTool, Stored
  <2>2. uuid[p] \in tools /\ uuid[p] \in live /\ uuid[p] \in Of(UUIDs, job[p])
    BY <2>1 DEF Has, Of, TypeOK, ServerOK
  <2>3. agents = {conf} BY <1>1, <2>2 DEF Places, Located, Ground, TypeOK, ServerOK
  <2>4. Connected(p) BY <1>1, <2>1, <2>3, JobOK DEF Connected, Installed
  <2>5. /\ pc'[p] = "delete" /\ tools' = tools \ {uuid[p]}
        /\ UNCHANGED << server, unit, proc, conf, files, memory >>
    BY <1>2, <1>4, <2>2, <2>4 DEF StopTool
  <2>6. Ground' BY <1>1, <2>5 DEF Ground
  <2>7. Of(tools', job[p]) = {} BY <2>1, <2>5 DEF Has, Of
  <2>8. Has(job[p], {uuid[p]}, {uuid[p]}, {})' BY <2>1, <2>5, <2>7 DEF Has
  <2>9. \A j \in Jobs : j # job[p] => Kept(j)'
    BY <1>1, <2>2, <2>5, KeptApart DEF Stored, Tag, Of
  <2>10. Tag(job[p])' BY <2>1, <2>5 DEF Tag
  <2>11. Stored(p)' BY <2>5, <2>8, <2>9, <2>10 DEF Stored, InHand, Wanting
  <2>12. Installed(p)' BY <1>1, <2>1, <2>5 DEF Installed, Extra, Agreed
  <2>13. Idles(p)' BY <1>1, <2>1, <2>5 DEF Idles, ToRemove
  <2> QED BY <2>6, <2>11, <2>12, <2>13, OneProcess
<1>5. CASE DeleteInstance(p)
  <2>1. pc[p] = "delete" /\ Tag(job[p]) /\ Has(job[p], {uuid[p]}, {uuid[p]}, {})
    BY <1>1, <1>5 DEF DeleteInstance, Stored
  <2>2. uuid[p] \in live /\ uuid[p] \in Of(UUIDs, job[p]) BY <2>1 DEF Has, Of, TypeOK, ServerOK
  <2>5. /\ pc'[p] = "deltree" /\ live' = live \ {uuid[p]}
        /\ UNCHANGED << tags, keys, agents, instances, host, memory >>
    BY <1>2, <1>5, <2>2 DEF DeleteInstance
  <2>6. Ground' BY <1>1, <2>5 DEF Ground
  <2>7. Of(live', job[p]) = {} BY <2>1, <2>5 DEF Has, Of
  <2>8. Has(job[p], {uuid[p]}, {}, {})' BY <2>1, <2>5, <2>7 DEF Has
  <2>9. \A j \in Jobs : j # job[p] => Kept(j)'
    BY <1>1, <2>2, <2>5, KeptApart DEF Stored, Tag, Of
  <2>10. Tag(job[p])' BY <2>1, <2>5 DEF Tag
  <2>11. Stored(p)' BY <2>5, <2>8, <2>9, <2>10 DEF Stored, InHand, Wanting
  <2>12. Installed(p)' BY <1>1, <2>1, <2>5 DEF Installed, Extra, Agreed
  <2>13. Idles(p)' BY <1>1, <2>1, <2>5 DEF Idles, ToRemove
  <2> QED BY <2>6, <2>11, <2>12, <2>13, OneProcess
<1>6. CASE DeleteTree(p)
  <2>1. pc[p] = "deltree" /\ Tag(job[p]) /\ Has(job[p], {uuid[p]}, {}, {})
    BY <1>1, <1>6 DEF DeleteTree, Stored
  <2>5. /\ pc'[p] = "retag" /\ keys' = keys \ Of(keys, job[p])
        /\ UNCHANGED << tags, agents, instances, live, host, memory >>
    BY <1>2, <1>6 DEF DeleteTree
  <2>6. Ground' BY <1>1, <2>5 DEF Ground
  <2>7. Of(keys', job[p]) = {} BY <2>5 DEF Of
  <2>8. Has(job[p], {}, {}, {})' BY <2>1, <2>5, <2>7 DEF Has
  <2>9. \A j \in Jobs : j # job[p] => Kept(j)'
    BY <1>1, <2>1, <2>5, KeptApart DEF Stored, Tag, Of
  <2>10. Tag(job[p])' BY <2>1, <2>5 DEF Tag
  <2>11. Stored(p)' BY <2>5, <2>8, <2>9, <2>10 DEF Stored, InHand, Wanting
  <2>12. Installed(p)' BY <1>1, <2>1, <2>5 DEF Installed, Extra, Agreed
  <2>13. Idles(p)' BY <1>1, <2>1, <2>5 DEF Idles, ToRemove
  <2> QED BY <2>6, <2>11, <2>12, <2>13, OneProcess
<1> QED BY <1>4, <1>5, <1>6

\* The last writes of a removal, after which nothing is in hand.
LEMMA LastEven ==
  ASSUME TypeOK, Paths, TagsInv, Even, OneAtATime, NEW p \in Procs, Retag(p) \/ UninstallUnit(p)
  PROVE  Even'
<1>1. Comes(cmd[p], pc[p]) /\ Stored(p) /\ Installed(p) /\ Idles(p) /\ Ground
  BY DEF Paths, Even
<1>2. \A l : Goto(p, l) => pc'[p] = l BY DEF Goto, TypeOK, MemoryOK
<1>3. job[p] \in Jobs /\ Type(p) \in Types /\ job[p].alias \in Aliases /\ tags \in [Types -> SUBSET Aliases]
  BY JobOK DEF TypeOK, ServerOK
<1> USE DEF At, server, host, memory
<1>4. AfterRemove(p) => pc'[p] \in {"done", "each"} /\ UNCHANGED << cmd, todo >> /\ (cmd[p] = "uninstall" => pc'[p] = "each")
  BY <1>2 DEF AfterRemove, Return
<1>5. CASE Retag(p)
  <2>1. pc[p] = "retag" /\ Tag(job[p]) /\ Has(job[p], {}, {}, {}) BY <1>1, <1>5 DEF Retag, Stored
  <2>2. tags' = [tags EXCEPT ![Type(p)] = @ \ {job[p].alias}]
    BY <1>5, <2>1 DEF Retag, Remaining, TagsInv, SeenIsCurrent
  <2>3. /\ UNCHANGED << keys, agents, instances, live, host, cmd, todo >>
        /\ tags'[Type(p)] = {} => pc'[p] = "halt" /\ UNCHANGED job
        /\ tags'[Type(p)] # {} => pc'[p] \in {"done", "each"} /\ (cmd[p] = "uninstall" => pc'[p] = "each")
    BY <1>2, <1>3, <1>4, <1>5, <2>1, <2>2 DEF Retag, Remaining, TagsInv, SeenIsCurrent
  <2>4. Ground' BY <1>1, <2>3 DEF Ground
  <2>5. Tag(job[p]) /\ \A j \in Jobs : Tag(j)' <=> Tag(j) /\ j # job[p]
    BY <1>3, <2>1, <2>2 DEF Tag, Jobs, Type
  <2>6. \A j \in Jobs : j # job[p] => Kept(j)' BY <1>1, <2>3, <2>5, KeptApart DEF Stored
  <2>8. \A j \in Jobs : j = job[p] => Kept(j)'
    BY <2>1, <2>3, <2>5 DEF Kept, Has
  <2>9. Stored(p)' BY <2>3, <2>6, <2>8 DEF Stored, InHand, Wanting
  <2>10. tags[Type(p)] # {} BY <2>1 DEF Tag, Type
  <2>11. Agreed /\ Type(p) \in unit BY <1>1, <1>3, <2>1, <2>10 DEF Installed, Extra, Agreed
  <2>12. \A t \in Types \ {Type(p)} : tags'[t] = tags[t] BY <1>3, <2>2
  <2>13. Installed(p)' BY <1>3, <2>3, <2>11, <2>12 DEF Installed, Extra, Agreed, Type
  <2>14. ToRemove' = ToRemove \ {job[p]} BY <2>5 DEF ToRemove, Tag
  <2>15. Idles(p)' BY <1>1, <2>1, <2>3, <2>14 DEF Idles
  <2> QED BY <2>4, <2>9, <2>13, <2>15, OneProcess
<1>6. CASE UninstallUnit(p)
  <2>1. pc[p] = "uninstall" /\ Type(p) \in unit /\ tags[Type(p)] = {}
    BY <1>1, <1>6 DEF UninstallUnit, Installed, Extra
  <2>2. /\ unit' = unit \ {Type(p)} /\ UNCHANGED << server, proc, conf, files, tools, cmd, todo >>
        /\ pc'[p] \in {"done", "each"} /\ (cmd[p] = "uninstall" => pc'[p] = "each")
    BY <1>4, <1>6, <2>1 DEF UninstallUnit
  <2>3. Ground' BY <1>1, <2>2 DEF Ground
  <2>4. \A j \in Jobs : Kept(j)' <=> Kept(j) BY <2>2, SameKept
  <2>5. Stored(p)' BY <1>1, <2>1, <2>2, <2>4 DEF Stored, InHand, Wanting
  <2>6. Installed(p)' BY <1>1, <2>1, <2>2 DEF Installed, Extra, Agreed
  <2>7. Idles(p)' BY <1>1, <2>1, <2>2 DEF Idles, ToRemove
  <2> QED BY <2>3, <2>5, <2>6, <2>7, OneProcess
<1> QED BY <1>5, <1>6

LEMMA NextEven ==
  ASSUME TypeOK, TypeOK', Paths, TagsInv, CInv, CInv', Even, OneAtATime, [Next]_vars, faults' = 0
  PROVE  Even'
<1>1. CASE UNCHANGED vars
  BY <1>1 DEF vars, server, host, memory, Even, Ground, Stored, Installed, Idles, Kept, Has, Tag, Of, Agreed, Type, ToRemove
<1>2. \A k : ~ Fault(k) BY DEF Fault, TypeOK
<1>3. CASE LoseServer \/ Reinstall BY <1>2, <1>3 DEF LoseServer, Reinstall
<1>4. ASSUME NEW p \in Procs, Begin(p) PROVE Even'
  <2>1. pc[p] = "idle" /\ pc'[p] \in {"check", "snapshot"} /\ UNCHANGED << server, host >>
    BY <1>4 DEF Begin, At, Goto, TypeOK, MemoryOK
  <2>2. Idles(p)' BY <2>1 DEF Idles
  <2> QED BY <2>1, <2>2, Plainly DEF InHand, Wanting, Extra, Plain
<1>5. ASSUME NEW p \in Procs, Fail(p) \/ FailInstall(p) \/ IgnoredError(p) \/ ReadError(p) PROVE Even'
  BY <1>2, <1>5 DEF Fail, FailInstall, IgnoredError, ReadError
<1>6. ASSUME NEW p \in Procs, Step(p) PROVE Even'
  <2>1. Idles(p) BY DEF Even
  <2>2. CASE HaltUnit(p, "sweephalt", "sweepunit") \/ SweepUnit(p) \/ PurgeInstance(p) \/ PurgeKeys(p)
    <3>1. pc[p] # "sweepunit"
      BY <2>1 DEF Idles
    <3> QED BY <2>1, <2>2, <3>1 DEF Idles, HaltUnit, SweepUnit, PurgeInstance, PurgeKeys, At
  <2>3. CASE \/ Finish(p) \/ Snapshot(p) \/ RemoveEach(p) \/ ListUnits(p) \/ Sweep(p) \/ Purge(p)
             \/ Stop(p) \/ Wake(p, "rouse", "done") \/ Wake(p, "rmwake", "getkey")
             \/ HaltUnit(p, "halt", "uninstall")
    BY <2>3, LoopEven, WakeEven
  <2>4. CASE \/ FindService(p) \/ GetKey(p) \/ StopTool(p) \/ DeleteInstance(p) \/ DeleteTree(p)
             \/ Retag(p) \/ UninstallUnit(p)
    BY <2>4, FindEven, GetKeyEven, DropEven, LastEven
  <2> QED BY <1>6, <2>2, <2>3, <2>4, AddReads, AddWrites DEF Step
<1> QED BY <1>1, <1>3, <1>4, <1>5, <1>6 DEF Next

LEMMA EvenAlways == ASSUME OneAtATime PROVE Spec => []EInv
<1>1. Init => EInv
  <2> SUFFICES ASSUME Init PROVE Even BY DEF EInv
  <2>1. Ground BY DEF Init, Ground
  <2>2. \A j \in Jobs : Kept(j) BY DEF Init, Kept, Has, Of, Tag, Jobs
  <2>3. Agreed BY DEF Init, Agreed
  <2> QED BY <2>1, <2>2, <2>3 DEF Init, Even, Stored, Installed, Idles, InHand, Wanting, Extra
<1>2. TypeOK /\ TypeOK' /\ Paths /\ TagsInv /\ CInv /\ CInv' /\ EInv /\ [Next]_vars => EInv'
  <2> SUFFICES ASSUME TypeOK, TypeOK', Paths, TagsInv, CInv, CInv', EInv, [Next]_vars, faults' = 0
               PROVE  Even'
    BY DEF EInv
  <2>1. faults = 0
    <3>1. \A k : Fault(k) => faults' # 0 BY DEF Fault, TypeOK
    <3>2. CASE LoseServer \/ Reinstall BY <3>1, <3>2 DEF LoseServer, Reinstall
    <3>3. ASSUME NEW p \in Procs, Fail(p) \/ FailInstall(p) \/ IgnoredError(p) \/ ReadError(p) PROVE faults = 0
      BY <3>1, <3>3 DEF Fail, FailInstall, IgnoredError, ReadError
    <3>4. ASSUME NEW p \in Procs, Begin(p) PROVE faults = 0 BY <3>4 DEF Begin
    <3>5. ASSUME NEW p \in Procs, Step(p) PROVE UNCHANGED faults
      BY <3>5
        DEF Step, Finish, CheckInstallation, NoDuplicate, ReadService, FindAgent, WipeAgent,
            InstallAgent, GetParent, GetParentAgain, FindInstance, Undelete, CreateInstance,
            WriteFile, InstallUnit, StartUnit, StartTool, Wake, Register, PutKeys, FindService,
            GetKey, StopTool, Retag, DeleteInstance, DeleteTree, HaltUnit, UninstallUnit,
            Snapshot, RemoveEach, ListUnits, Sweep, SweepUnit, Purge, PurgeInstance, PurgeKeys, Stop
    <3>6. CASE UNCHANGED vars BY <3>6 DEF vars
    <3> QED BY <3>2, <3>3, <3>4, <3>5, <3>6 DEF Next
  <2> QED BY <2>1, NextEven DEF EInv
<1> QED BY <1>1, <1>2, QueriesTypeCorrect, PathAlways, TagsAlways, AddAlways, PTL DEF Spec

\* With one pmm-admin at a time and no fault, Consul, QAN, the agent and the units agree
\* about every database whenever no command runs (queries.go:41-294, pmm.go:360-412 and 647-755).
THEOREM QueriesSettle == OneAtATime /\ Procs # {} => (Spec => []SettledWhenIdle)
<1> SUFFICES ASSUME OneAtATime, Procs # {} PROVE Spec => []SettledWhenIdle OBVIOUS
<1>1. TypeOK /\ EInv => SettledWhenIdle
  <2> SUFFICES ASSUME TypeOK, Even, AllIdle
               PROVE  /\ Keyed = Monitored /\ keys = live
                      /\ tools = keys /\ tools \subseteq files
                      /\ unit = { j.type : j \in Monitored }
    BY DEF SettledWhenIdle, EInv
  <2>1. \A j \in Jobs : Kept(j) /\ Agreed
    BY DEF AllIdle, At, Even, Stored, Installed, InHand, Wanting, Extra
  <2>2. \A u \in UUIDs : /\ [type |-> u.type, alias |-> u.alias] \in Jobs
                         /\ u \in Of(UUIDs, [type |-> u.type, alias |-> u.alias])
    BY DEF UUIDs, Jobs, Of
  <2>3. \A u \in UUIDs : (u \in keys <=> u \in live) /\ (u \in keys <=> u \in tools)
    BY <2>1, <2>2 DEF Kept, Has, Of
  <2>4. keys \subseteq UUIDs /\ live \subseteq UUIDs /\ tools \subseteq UUIDs
    BY DEF TypeOK, ServerOK, HostOK
  <2>5. keys = live /\ tools = keys BY <2>3, <2>4
  <2>6. \A j \in Jobs : j \in Monitored <=> Of(keys, j) # {} BY <2>1 DEF Kept, Tag, Monitored
  <2>7. Keyed = Monitored
    <3>1. Keyed \subseteq Monitored BY <2>2, <2>4, <2>6 DEF Keyed, Of
    <3>2. ASSUME NEW j \in Monitored PROVE j \in Keyed
      <4>1. PICK u \in Of(keys, j) : TRUE BY <2>6 DEF Monitored
      <4>2. j = [type |-> u.type, alias |-> u.alias] BY <4>1 DEF Monitored, Jobs, Of
      <4> QED BY <4>1, <4>2 DEF Keyed, Of
    <3> QED BY <3>1, <3>2
  <2>8. ToRemove = Monitored BY DEF ToRemove, Monitored
  <2>9. Agreed BY DEF AllIdle, At, Even, Installed, Extra
  <2>10. \A t \in Types : t \in unit <=> \E j \in Monitored : j.type = t
    <3>1. \A t \in Types : t \in unit <=> \E a \in Aliases : [type |-> t, alias |-> a] \in Monitored
      BY <2>8, <2>9, AgreedUnit
    <3>2. \A j \in Monitored : j.alias \in Aliases /\ j = [type |-> j.type, alias |-> j.alias]
      BY DEF Monitored, Jobs
    <3> QED BY <3>1, <3>2
  <2>11. unit \subseteq Types /\ \A j \in Monitored : j.type \in Types
    BY DEF TypeOK, HostOK, Monitored, Jobs
  <2>12. unit = { j.type : j \in Monitored } BY <2>10, <2>11
  <2> QED BY <2>5, <2>7, <2>12 DEF Even, Ground
<1> QED BY <1>1, QueriesTypeCorrect, EvenAlways, PTL

-----------------------------------------------------------------------------
(* The keys that are about to be dropped *)

\* A database has one key; removal has it in hand, and repair knows which instances still
\* have to be deleted before the keys of a service go.
OneKey == \A u, v \in keys : u.type = v.type /\ u.alias = v.alias => u = v

Dropping(p) ==
  /\ pc[p] \in {"stoptool", "delete"} => Of(keys, job[p]) = {uuid[p]}
  /\ pc[p] = "deltree" => Of(keys, job[p]) \cap live = {}
  /\ pc[p] = "names" =>
       \A u \in OfType(keys, Type(p)) \cap live : [type |-> u.type, alias |-> u.alias] \in todo[p]
  /\ pc[p] = "purgekeys" => OfType(keys, Type(p)) \cap live = {}

KInv == OneKey /\ \A p \in Procs : Dropping(p)

LEMMA NotDropping ==
  ASSUME OneKey', OneAtATime, NEW p \in Procs,
         pc'[p] \notin {"stoptool", "delete", "deltree", "names", "purgekeys"}
  PROVE  KInv'
BY DEF KInv, Dropping, OneAtATime

LEMMA StepKeys ==
  ASSUME TypeOK, Paths, KInv, OneAtATime, NEW p \in Procs, Step(p)
  PROVE  KInv'
<1> USE DEF server, host, memory, At
<1>1. \A l : Goto(p, l) => pc'[p] = l BY DEF Goto, TypeOK, MemoryOK
<1>2. Dropping(p) /\ OneKey BY DEF KInv
<1>3. CASE \/ Finish(p) \/ CheckInstallation(p)
           \/ NoDuplicate(p, "lookup", "unique") \/ NoDuplicate(p, "unique", "service")
           \/ ReadService(p) \/ FindAgent(p)
           \/ WipeAgent(p, "wipe", "install") \/ InstallAgent(p, "install", "parent")
           \/ GetParent(p)
           \/ WipeAgent(p, "rewipe", "reinstall") \/ InstallAgent(p, "reinstall", "reparent")
           \/ GetParentAgain(p)
           \/ FindInstance(p) \/ Undelete(p) \/ CreateInstance(p) \/ WriteFile(p)
           \/ InstallUnit(p) \/ StartUnit(p) \/ Wake(p, "wake", "starttool")
           \/ StartTool(p) \/ Register(p)
           \/ FindService(p) \/ Wake(p, "rmwake", "getkey") \/ Retag(p)
           \/ HaltUnit(p, "halt", "uninstall") \/ UninstallUnit(p)
           \/ Snapshot(p) \/ RemoveEach(p) \/ ListUnits(p)
           \/ Sweep(p) \/ HaltUnit(p, "sweephalt", "sweepunit") \/ SweepUnit(p)
           \/ Stop(p) \/ Wake(p, "rouse", "done")
  <2>1. UNCHANGED keys
    BY <1>3
      DEF Finish, CheckInstallation, NoDuplicate, ReadService, FindAgent, WipeAgent,
          InstallAgent, GetParent, GetParentAgain, FindInstance, Undelete, CreateInstance,
          WriteFile, InstallUnit, StartUnit, StartTool, Wake, Register, FindService,
          Retag, HaltUnit, UninstallUnit, Snapshot, RemoveEach, ListUnits, Sweep, SweepUnit, Stop
  <2>2. OneKey' BY <1>2, <2>1 DEF OneKey
  <2>3. pc'[p] \notin {"stoptool", "delete", "deltree", "names", "purgekeys"}
    BY <1>1, <1>3
      DEF Finish, CheckInstallation, Verdict, NoDuplicate, ReadService, FindAgent, WipeAgent,
          InstallAgent, GetParent, GetParentAgain, Unknown, FindInstance, Undelete, CreateInstance,
          WriteFile, InstallUnit, StartUnit, StartTool, Wake, Register, FindService,
          Retag, HaltUnit, UninstallUnit, Snapshot, RemoveEach, ListUnits, Sweep, SweepUnit, Stop,
          Exit, Fails, Return, AfterRemove
  <2> QED BY <2>2, <2>3, NotDropping
<1>4. CASE PutKeys(p)
  <2>1. OneKey'
    <3> SUFFICES ASSUME NEW u \in keys', NEW v \in keys', u.type = v.type, u.alias = v.alias PROVE u = v
      BY DEF OneKey
    <3>1. uuid[p] \in Of(UUIDs, job[p]) BY <1>4 DEF PutKeys, TypeOK, KnowsInstance
    <3>2. keys' = (keys \ Of(keys, job[p])) \cup {uuid[p]} BY <1>4 DEF PutKeys
    <3> QED BY <1>2, <3>1, <3>2 DEF OneKey, Of
  <2> QED BY <1>1, <1>4, <2>1, NotDropping DEF PutKeys
<1>5. CASE GetKey(p)
  <2>1. OneKey' BY <1>2, <1>5 DEF GetKey, OneKey
  <2>2. CASE Fails(p) BY <1>1, <2>1, <2>2, NotDropping DEF Fails, Exit, Return
  <2>3. CASE ~ Fails(p)
    <3>1. PICK u \in Of(keys, job[p]) : uuid' = [uuid EXCEPT ![p] = u] /\ Goto(p, "stoptool") /\ UNCHANGED << keys, job >>
      BY <1>5, <2>3 DEF GetKey
    <3>2. uuid'[p] = u /\ pc'[p] = "stoptool" BY <1>1, <3>1 DEF TypeOK, MemoryOK
    <3>3. Of(keys, job[p]) = {u} BY <1>2, <3>1 DEF OneKey, Of
    <3> QED BY <2>1, <3>1, <3>2, <3>3 DEF KInv, Dropping, OneAtATime
  <2> QED BY <2>2, <2>3
<1>6. CASE StopTool(p)
  <2>1. OneKey' BY <1>2, <1>6 DEF StopTool, OneKey
  <2>2. CASE Fails(p) BY <1>1, <2>1, <2>2, NotDropping DEF Fails, Exit, Return
  <2>3. CASE ~ Fails(p)
    <3>1. pc[p] = "stoptool" /\ pc'[p] = "delete" /\ UNCHANGED << keys, job, uuid >>
      BY <1>1, <1>6, <2>3 DEF StopTool
    <3> QED BY <1>2, <2>1, <3>1 DEF KInv, Dropping, OneAtATime
  <2> QED BY <2>2, <2>3
<1>7. CASE DeleteInstance(p)
  <2>1. OneKey' BY <1>2, <1>7 DEF DeleteInstance, OneKey
  <2>2. CASE Fails(p) BY <1>1, <2>1, <2>2, NotDropping DEF Fails, Exit, Return
  <2>3. CASE ~ Fails(p)
    <3>1. pc[p] = "delete" /\ pc'[p] = "deltree" /\ live' = live \ {uuid[p]} /\ UNCHANGED << keys, job >>
      BY <1>1, <1>7, <2>3 DEF DeleteInstance
    <3>2. Of(keys, job[p]) = {uuid[p]} BY <1>2, <3>1 DEF Dropping
    <3>3. Of(keys, job[p])' \cap live' = {} BY <3>1, <3>2
    <3> QED BY <2>1, <3>1, <3>3 DEF KInv, Dropping, OneAtATime
  <2> QED BY <2>2, <2>3
<1>8. CASE DeleteTree(p)
  <2>1. OneKey' BY <1>2, <1>8 DEF DeleteTree, OneKey
  <2> QED BY <1>1, <1>8, <2>1, NotDropping DEF DeleteTree
<1>9. CASE Purge(p)
  <2>1. OneKey' BY <1>2, <1>9 DEF Purge, OneKey
  <2>2. CASE pc'[p] = "done" BY <2>1, <2>2, NotDropping
  <2>3. CASE pc'[p] # "done"
    <3>1. PICK t \in lost[p] :
            /\ ForType(p, t) /\ Goto(p, "names") /\ UNCHANGED << keys, live >>
            /\ todo' = [todo EXCEPT ![p] = { [type |-> t, alias |-> u.alias] : u \in OfType(keys, t) }]
      BY <1>1, <1>9, <2>3 DEF Purge
    <3>2. t \in Types BY <3>1 DEF TypeOK, MemoryOK
    <3>3. pc'[p] = "names" /\ Type(p)' = t
      BY <1>1, <3>1, <3>2, NoJobOK DEF ForType, Type, TypeOK, MemoryOK, Jobs
    <3>4. \A u \in OfType(keys, t) : [type |-> u.type, alias |-> u.alias] \in todo'[p]
      BY <3>1 DEF OfType, TypeOK, MemoryOK
    <3> QED BY <2>1, <3>1, <3>3, <3>4 DEF KInv, Dropping, OneAtATime
  <2> QED BY <2>2, <2>3
<1>10. CASE PurgeInstance(p)
  <2>1. OneKey' BY <1>2, <1>10 DEF PurgeInstance, OneKey
  <2>2. pc[p] = "names" /\ UNCHANGED << keys, job >> BY <1>10 DEF PurgeInstance
  <2>3. CASE todo[p] = {} /\ Goto(p, "purgekeys") /\ UNCHANGED << live, todo >>
    <3>1. pc'[p] = "purgekeys" /\ OfType(keys, Type(p)) \cap live = {}
      BY <1>1, <1>2, <2>2, <2>3 DEF Dropping
    <3> QED BY <2>1, <2>2, <2>3, <3>1 DEF KInv, Dropping, OneAtATime, Type
  <2>4. ASSUME NEW j \in todo[p], live' = live \ Purged(j), UNCHANGED pc,
               todo' = [todo EXCEPT ![p] = StillToDo(p, j)]
        PROVE  KInv'
    <3>1. todo'[p] = todo[p] \ {j} BY <2>4 DEF StillToDo, TypeOK, MemoryOK
    <3>2. \A u \in keys : [type |-> u.type, alias |-> u.alias] = j => u \notin live'
      BY <2>4 DEF Purged, Of
    <3>3. \A u \in OfType(keys, Type(p)) \cap live' : [type |-> u.type, alias |-> u.alias] \in todo'[p]
      BY <1>2, <2>2, <2>4, <3>1, <3>2 DEF Dropping, OfType
    <3> QED BY <2>1, <2>2, <2>4, <3>3 DEF KInv, Dropping, OneAtATime, Type
  <2> QED BY <1>10, <2>3, <2>4 DEF PurgeInstance
<1>11. CASE PurgeKeys(p)
  <2>1. OneKey' BY <1>2, <1>11 DEF PurgeKeys, OneKey
  <2> QED BY <1>1, <1>11, <2>1, NotDropping DEF PurgeKeys
<1> QED BY <1>3, <1>4, <1>5, <1>6, <1>7, <1>8, <1>9, <1>10, <1>11 DEF Step

LEMMA NextKeys ==
  ASSUME TypeOK, Paths, KInv, OneAtATime, "ignored" \notin FaultKinds, [Next]_vars
  PROVE  KInv'
<1> USE DEF server, host, memory, At
<1>1. CASE UNCHANGED vars BY <1>1 DEF vars, KInv, OneKey, Dropping, Type, Of, OfType
<1>2. CASE LoseServer \/ Reinstall
  <2>1. \A p \in Procs : pc'[p] = "idle" BY <1>2 DEF LoseServer, Reinstall, AllIdle
  <2>2. OneKey' BY <1>2 DEF LoseServer, Reinstall, KInv, OneKey
  <2> QED BY <2>1, <2>2 DEF KInv, Dropping
<1>3. ASSUME NEW p \in Procs, Begin(p) \/ Fail(p) \/ FailInstall(p) \/ ReadError(p) PROVE KInv'
  <2>1. OneKey' BY <1>3 DEF Begin, Fail, FailInstall, ReadError, KInv, OneKey
  <2>2. pc'[p] \in {"idle", "check", "snapshot", "lookup", "each", "sweep"}
    BY <1>3 DEF Begin, Fail, FailInstall, ReadError, Verdict, Exit, Goto, TypeOK, MemoryOK
  <2> QED BY <2>1, <2>2, NotDropping
<1>4. ASSUME NEW p \in Procs, IgnoredError(p) PROVE FALSE BY <1>4 DEF IgnoredError, Fault
<1> QED BY <1>1, <1>2, <1>3, <1>4, StepKeys DEF Next

LEMMA KeysAlways == ASSUME OneAtATime, "ignored" \notin FaultKinds PROVE Spec => []KInv
<1>1. Init => KInv BY DEF Init, KInv, OneKey, Dropping
<1> QED BY <1>1, QueriesTypeCorrect, PathAlways, NextKeys, PTL DEF Spec

LEMMA DroppedIsDeleted ==
  ASSUME TypeOK, Paths, KInv, OneAtATime, "ignored" \notin FaultKinds, [Next]_vars,
         NEW p \in Procs, cmd[p] \in {"remove", "removeall", "repair", "uninstall"}
  PROVE  \A u \in keys \ keys' : u \notin live'
<1> USE DEF server, host, memory, At
<1>1. Comes(cmd[p], pc[p]) /\ Dropping(p) BY DEF Paths, KInv
<1>2. pc[p] # "idle" BY <1>1 DEF Comes
<1>3. CASE UNCHANGED keys BY <1>3
<1>4. CASE DeleteTree(p) BY <1>1, <1>4 DEF DeleteTree, Dropping
<1>5. CASE PurgeKeys(p) BY <1>1, <1>5 DEF PurgeKeys, Dropping
<1>6. CASE PutKeys(p) BY <1>1, <1>6 DEF PutKeys, Comes
<1>7. CASE LoseServer \/ Reinstall BY <1>2, <1>7 DEF LoseServer, Reinstall, AllIdle
<1>8. ASSUME NEW q \in Procs, Begin(q) \/ Fail(q) \/ FailInstall(q) \/ IgnoredError(q) \/ ReadError(q)
      PROVE  UNCHANGED keys
  BY <1>8 DEF Begin, Fail, FailInstall, IgnoredError, ReadError
<1>9. ASSUME Step(p), ~ (DeleteTree(p) \/ PurgeKeys(p) \/ PutKeys(p)) PROVE UNCHANGED keys
  BY <1>9
    DEF Step, Finish, CheckInstallation, NoDuplicate, ReadService, FindAgent, WipeAgent,
        InstallAgent, GetParent, GetParentAgain, FindInstance, Undelete, CreateInstance, WriteFile,
        InstallUnit, StartUnit, StartTool, Wake, Register, FindService, GetKey, StopTool, Retag,
        DeleteInstance, HaltUnit, UninstallUnit, Snapshot, RemoveEach,
        ListUnits, Sweep, SweepUnit, Purge, PurgeInstance, Stop
<1>10. CASE UNCHANGED vars BY <1>10 DEF vars
<1> QED BY <1>3, <1>4, <1>5, <1>6, <1>7, <1>8, <1>9, <1>10 DEF Next, OneAtATime

\* With one pmm-admin at a time and no error ignored, the key of an instance is only dropped
\* when QAN has marked the instance as deleted (queries.go:246-255, pmm.go:670-685).
THEOREM KeysGoLast == OneAtATime /\ "ignored" \notin FaultKinds => (Spec => KeysLast)
<1> SUFFICES ASSUME OneAtATime, "ignored" \notin FaultKinds PROVE Spec => KeysLast OBVIOUS
<1> DEFINE Last == \A p \in Procs : cmd[p] \in {"remove", "removeall", "repair", "uninstall"} =>
                     \A u \in keys \ keys' : u \notin live'
<1>1. TypeOK /\ Paths /\ KInv /\ [Next]_vars => Last BY DroppedIsDeleted
<1> QED BY <1>1, QueriesTypeCorrect, PathAlways, KeysAlways, PTL DEF Spec, KeysLast
=============================================================================
