----------------------------- MODULE Client_proofs -----------------------------
(***************************************************************************)
(* Proofs about Client, for every value of its constants.  Each part states *)
(* an inductive invariant next to what it is for, and uses those before it: *)
(*   IInv   one command runs at a time, and what it has found free stays   *)
(*          free, if no query fails;                                       *)
(*   Typed  the types, with what a location says of the variables in use   *)
(*          there;                                                         *)
(*   AInv   where the services of a client are, and what a command that is *)
(*          under way knows of pmm.yml and of Consul;                      *)
(*   SInv   where the last password that an account was given is.          *)
(***************************************************************************)
EXTENDS Client, SequenceTheorems, FiniteSetTheorems, TLAPS

(***************************************************************************)
(* The accounts are looked at once, in check, and changed one by one       *)
(* afterwards.  What carries from there to here: only one command runs, so *)
(* no account of the plan appears in between; and the plan names none      *)
(* twice, so the command does not meet what it has created itself.         *)
(***************************************************************************)
Granting == {"grant", "schema", "sudogrant", "sudoschema"}
Creating == {"check", "sudo"} \cup Granting

Distinct(s) == \A i, j \in DOMAIN s : s[i] = s[j] => i = j
Free(s) == \A i \in DOMAIN s : account[s[i]] = NoPassword

Shape ==
  /\ DOMAIN pc = Procs /\ DOMAIN account = Accounts
  /\ job \in [Procs -> AddRequests] /\ plan \in [Procs -> Seq(Accounts)]

Alone == \A p, q \in Procs : p = q \/ pc[p] = "idle" \/ pc[q] = "idle"

Respects(p) ==
  /\ pc[p] \in Creating => job[p].create
  /\ pc[p] \in Granting /\ ~ Unchecked(p) => Distinct(plan[p]) /\ Free(plan[p])

IInv == Shape /\ Alone /\ \A p \in Procs : Respects(p)

-----------------------------------------------------------------------------
(* Lemmas about operators *)

LEMMA NoJobOK == NoJob \in AddRequests
BY DbConstants DEF NoJob

LEMMA HostsOK ==
  ASSUME NEW how
  PROVE  Hosts(how) \in Seq(Accounts) /\ Distinct(Hosts(how))
<1>1. CASE how = "socket"
  <2>1. Hosts(how) = << "localhost", "127.0.0.1" >> BY <1>1 DEF Hosts
  <2> QED BY <2>1 DEF Accounts, Distinct
<1>2. CASE how = "tcp"
  <2>1. Hosts(how) = << "127.0.0.1" >> BY <1>2 DEF Hosts
  <2> QED BY <2>1 DEF Accounts, Distinct
<1>3. CASE how = "remote"
  <2>1. Hosts(how) = << "%" >> BY <1>3 DEF Hosts
  <2> QED BY <2>1 DEF Accounts, Distinct
<1>4. CASE how \notin {"socket", "tcp", "remote"}
  <2>1. Hosts(how) = << "pg" >> BY <1>4 DEF Hosts
  <2> QED BY <2>1 DEF Accounts, Distinct
<1> QED BY <1>1, <1>2, <1>3, <1>4

LEMMA UntakenFree ==
  ASSUME NEW p, ~ Taken(p), ~ job[p].force
  PROVE  Free(Hosts(job[p].how))
BY DEF Taken, Exists, Free

LEMMA TailOK ==
  ASSUME NEW s \in Seq(Accounts), s # << >>, Distinct(s)
  PROVE  /\ Head(s) \in Accounts /\ Tail(s) \in Seq(Accounts) /\ Distinct(Tail(s))
         /\ \A i \in DOMAIN Tail(s) : i + 1 \in DOMAIN s /\ Tail(s)[i] = s[i + 1] /\ s[i + 1] # Head(s)
<1>1. /\ Head(s) = s[1] /\ 1 \in DOMAIN s /\ Head(s) \in Accounts /\ Tail(s) \in Seq(Accounts)
  OBVIOUS
<1>2. \A i \in DOMAIN Tail(s) : i \in Nat \ {0} /\ i + 1 \in DOMAIN s /\ Tail(s)[i] = s[i + 1]
  OBVIOUS
<1>3. Distinct(Tail(s))
  <2> SUFFICES ASSUME NEW i \in DOMAIN Tail(s), NEW j \in DOMAIN Tail(s), Tail(s)[i] = Tail(s)[j]
               PROVE  i = j
    BY DEF Distinct
  <2>1. s[i + 1] = s[j + 1] /\ i + 1 \in DOMAIN s /\ j + 1 \in DOMAIN s BY <1>2
  <2>2. i + 1 = j + 1 BY <2>1 DEF Distinct
  <2> QED BY <2>2, <1>2
<1>4. \A i \in DOMAIN Tail(s) : s[i + 1] # s[1]
  BY <1>1, <1>2 DEF Distinct
<1> QED BY <1>1, <1>2, <1>3, <1>4

-----------------------------------------------------------------------------
(* What moves where *)

\* A process goes on, or begins when all are idle.
Goes(p, l) == pc' = [pc EXCEPT ![p] = l] /\ (pc[p] # "idle" \/ \A q \in Procs : pc[q] = "idle")

LEMMA StaysAlone ==
  ASSUME Shape, Alone, NEW p \in Procs, NEW l, Goes(p, l)
  PROVE  Alone' /\ DOMAIN pc' = Procs /\ pc'[p] = l
         /\ \A q \in Procs \ {p} : pc'[q] = pc[q] /\ (l # "idle" => pc[q] = "idle")
BY DEF Shape, Alone, Goes

\* A step that leaves the accounts and plans alone, and ends where no plan is carried out.
LEMMA Elsewhere ==
  ASSUME IInv, NEW p \in Procs, NEW l, Goes(p, l), l \notin Creating,
         UNCHANGED account, job' \in [Procs -> AddRequests], plan' \in [Procs -> Seq(Accounts)],
         \A q \in Procs \ {p} : job'[q] = job[q] /\ plan'[q] = plan[q]
  PROVE  IInv'
<1>1. Shape' /\ Alone' /\ pc'[p] = l /\ \A q \in Procs \ {p} : pc'[q] = pc[q]
  BY StaysAlone DEF IInv, Shape
<1>2. \A q \in Procs : Respects(q)'
  <2> TAKE q \in Procs
  <2>1. CASE q = p BY <2>1, <1>1 DEF Respects, Creating
  <2>2. CASE q # p BY <2>2, <1>1 DEF IInv, Respects, Free, Unchecked
  <2> QED BY <2>1, <2>2
<1> QED BY <1>1, <1>2 DEF IInv

LEMMA ConfigMoves ==
  ASSUME NEW p \in Procs, ConfigStep(p)
  PROVE  UNCHANGED pc \/ \E l \in Locations \cup {"idle"} : Goes(p, l)
<1> USE DEF Goes, Goto, At, Locations, Exit, Leave, Move
<1>1. CASE BeginConfig(p) BY <1>1 DEF BeginConfig, Ready
<1>2. CASE InitialName(p) BY <1>2 DEF InitialName
<1>3. CASE NameTaken(p) BY <1>3 DEF NameTaken
<1>4. CASE KeepName(p) BY <1>4 DEF KeepName
<1>5. CASE Repair(p) BY <1>5 DEF Repair, Repairs
<1>6. CASE RepairFails(p) BY <1>6 DEF RepairFails, Repairs
<1>7. CASE CheckTarget(p) BY <1>7 DEF CheckTarget
<1>8. CASE CheckSource(p) BY <1>8 DEF CheckSource
<1>9. CASE RegisterNew(p) BY <1>9 DEF RegisterNew
<1>10. CASE RegisterFails(p) BY <1>10 DEF RegisterFails
<1>11. CASE DeregisterOld(p) BY <1>11 DEF DeregisterOld
<1>12. CASE ListKeys(p) BY <1>12 DEF ListKeys
<1>13. CASE GetKey(p) BY <1>13 DEF GetKey
<1>14. CASE GetFails(p) BY <1>14 DEF GetFails
<1>15. CASE NextService(p) BY <1>15 DEF NextService
<1>16. CASE UpdateInstance(p) BY <1>16 DEF UpdateInstance
<1>17. CASE WriteInstance(p) BY <1>17 DEF WriteInstance
<1>18. CASE PutKey(p) BY <1>18 DEF PutKey
<1>19. CASE DeleteKey(p) BY <1>19 DEF DeleteKey
<1>20. CASE CallFails(p)
  <2>1. AfterError[pc[p]] \in Locations /\ pc[p] # "idle" BY <1>20 DEF CallFails, AfterError
  <2> QED BY <1>20, <2>1 DEF CallFails
<1>21. CASE DropNode(p) BY <1>21 DEF DropNode
<1>22. CASE InvalidName(p) BY <1>22 DEF InvalidName
<1>23. CASE FirstAddress(p) BY <1>23 DEF FirstAddress, TakeAddress
<1>24. CASE NotDetected(p) BY <1>24 DEF NotDetected
<1>25. CASE KeepAddress(p) BY <1>25 DEF KeepAddress, TakeAddress
<1>26. CASE ChangeAddress(p) BY <1>26 DEF ChangeAddress, TakeAddress
<1>27. CASE SetBind(p) BY <1>27 DEF SetBind
<1>28. CASE SyncAgent(p) BY <1>28 DEF SyncAgent
<1>29. CASE RestartAgent(p, "mysql:queries", "mysql", "mongodb") BY <1>29 DEF RestartAgent
<1>30. CASE RestartAgent(p, "mongodb:queries", "mongodb", "write") BY <1>30 DEF RestartAgent
<1>31. CASE WriteConfig(p) BY <1>31 DEF WriteConfig
<1>32. CASE RestartEach(p) BY <1>32 DEF RestartEach
<1>33. CASE Configured(p) BY <1>33 DEF Configured
<1>34. CASE Finish(p) BY <1>34 DEF Finish
<1> QED BY <1>1, <1>2, <1>3, <1>4, <1>5, <1>6, <1>7, <1>8, <1>9, <1>10, <1>11, <1>12, <1>13,
           <1>14, <1>15, <1>16, <1>17, <1>18, <1>19, <1>20, <1>21, <1>22, <1>23, <1>24, <1>25,
           <1>26, <1>27, <1>28, <1>29, <1>30, <1>31, <1>32, <1>33, <1>34 DEF ConfigStep

LEMMA MovesKeepInv ==
  ASSUME IInv, NEW p \in Procs, ConfigStep(p) \/ Fail(p), UNCHANGED dbvars
  PROVE  IInv'
<1>1. UNCHANGED << account, job, plan >> BY DEF dbvars, database, adding
<1>2. ASSUME NEW l \in Locations \cup {"idle"}, Goes(p, l) PROVE IInv'
  <2>1. l \notin Creating BY DEF Locations, Creating, Granting
  <2> QED BY <1>1, <1>2, <2>1, Elsewhere DEF IInv, Shape
<1>3. CASE UNCHANGED pc
  BY <1>1, <1>3 DEF IInv, Shape, Alone, Respects, Creating, Granting, Free, Unchecked
<1>4. CASE Fail(p)
  <2>1. Goes(p, "idle") BY <1>4 DEF Fail, Exit, Goto, Goes, Locations
  <2> QED BY <1>2, <2>1
<1>5. CASE ConfigStep(p) BY <1>2, <1>3, <1>5, ConfigMoves
<1> QED BY <1>4, <1>5

-----------------------------------------------------------------------------
(* The steps of DbUser *)

ForgetsJob(p) == ForgetJob(p) /\ UNCHANGED account /\ Goes(p, "idle")

LEMMA ForgettingKeepsInv ==
  ASSUME IInv, NEW p \in Procs, ForgetsJob(p)
  PROVE  IInv'
<1>1. /\ job' = [job EXCEPT ![p] = NoJob] /\ plan' = [plan EXCEPT ![p] = << >>]
      /\ UNCHANGED account /\ Goes(p, "idle")
  BY DEF ForgetsJob, ForgetJob
<1>2. /\ job' \in [Procs -> AddRequests] /\ plan' \in [Procs -> Seq(Accounts)]
      /\ \A q \in Procs \ {p} : job'[q] = job[q] /\ plan'[q] = plan[q]
  BY <1>1, NoJobOK DEF IInv, Shape
<1>3. "idle" \notin Creating BY DEF Creating, Granting
<1> QED BY <1>1, <1>2, <1>3, Elsewhere

\* A step of pmm-admin add that neither looks for accounts nor changes one.
Passing(p) ==
  /\ UNCHANGED << account, job, plan >>
  /\ \E l : Goes(p, l) /\ (l \in Creating => l \in {"check", "sudo"} /\ job[p].create)

LEMMA PassingKeepsInv ==
  ASSUME IInv, NEW p \in Procs, Passing(p)
  PROVE  IInv'
<1>1. PICK l : Goes(p, l) /\ (l \in Creating => l \in {"check", "sudo"} /\ job[p].create)
  BY DEF Passing
<1>2. UNCHANGED << account, job, plan >> BY DEF Passing
<1>3. Shape' /\ Alone' /\ pc'[p] = l /\ \A q \in Procs \ {p} : pc'[q] = pc[q]
  BY <1>1, <1>2, StaysAlone DEF IInv, Shape
<1>4. \A q \in Procs : Respects(q)'
  <2> TAKE q \in Procs
  <2>1. CASE q = p
    <3>1. l \notin Granting BY <1>1 DEF Creating, Granting
    <3> QED BY <1>1, <1>2, <1>3, <2>1, <3>1 DEF Respects
  <2>2. CASE q # p BY <2>2, <1>2, <1>3 DEF IInv, Respects, Free, Unchecked
  <2> QED BY <2>1, <2>2
<1> QED BY <1>3, <1>4 DEF IInv

LEMMA PlanKeepsInv ==
  ASSUME IInv, NEW p \in Procs, NEW from \in {"check", "sudo"}, NEW to \in Granting,
         Plan(p, from, to), Taken(p) => Unchecked(p)
  PROVE  IInv'
<1>1. /\ At(p, from) /\ plan' = [plan EXCEPT ![p] = Hosts(job[p].how)] /\ Goto(p, to)
      /\ UNCHANGED << account, job >>
  BY DEF Plan, database
<1>2. Goes(p, to) BY <1>1 DEF Goes, Goto, At
<1>3. plan' \in [Procs -> Seq(Accounts)] BY <1>1, HostsOK DEF IInv, Shape
<1>4. Shape' /\ Alone' /\ pc'[p] = to /\ \A q \in Procs \ {p} : pc'[q] = pc[q]
  BY <1>1, <1>2, <1>3, StaysAlone DEF IInv, Shape
<1>5. \A q \in Procs : Respects(q)'
  <2> TAKE q \in Procs
  <2>1. CASE q = p
    <3>1. plan'[p] = Hosts(job[p].how) BY <1>1 DEF IInv, Shape
    <3>2. job[p].create BY <1>1 DEF IInv, Respects, Creating, At
    <3>3. Distinct(plan'[p]) BY <3>1, HostsOK
    <3>4. ~ Unchecked(p) => \A i \in DOMAIN plan'[p] : account[plan'[p][i]] = NoPassword
      BY <3>1, UntakenFree DEF Free, Unchecked
    <3> QED BY <1>1, <2>1, <3>2, <3>3, <3>4 DEF Respects, Free, Distinct, Unchecked
  <2>2. CASE q # p BY <2>2, <1>1, <1>4 DEF IInv, Respects, Free, Unchecked
  <2> QED BY <2>1, <2>2
<1> QED BY <1>4, <1>5 DEF IInv

LEMMA CheckKeepsInv ==
  ASSUME IInv, NEW p \in Procs, NEW from \in {"check", "sudo"}, NEW to \in Granting,
         Check(p, from, to)
  PROVE  IInv'
<1>1. CASE At(p, from) /\ Quit(p)
  <2>1. ForgetsJob(p) BY <1>1 DEF Quit, ForgetsJob, Goes, Goto, At, database
  <2> QED BY <2>1, ForgettingKeepsInv
<1> QED BY <1>1, PlanKeepsInv DEF Check

LEMMA GrantKeepsInv ==
  ASSUME IInv, NEW p \in Procs, NEW at \in Granting, NEW schemaat \in Granting,
         Grant(p, at, schemaat)
  PROVE  IInv'
<1> DEFINE to == IF Head(plan[p]) = "pg" THEN schemaat ELSE at
<1>1. /\ pc[p] = at /\ plan[p] # << >>
      /\ account' = [account EXCEPT ![Head(plan[p])] = new[p]]
      /\ plan' = [plan EXCEPT ![p] = Tail(@)]
      /\ Goto(p, to) /\ UNCHANGED job
  BY DEF Grant, At
<1>2. to \in Granting /\ pc[p] # "idle" BY <1>1 DEF Granting
<1>3. Goes(p, to) BY <1>1, <1>2 DEF Goes, Goto
<1>4. plan[p] \in Seq(Accounts) BY DEF IInv, Shape
<1>5. plan' \in [Procs -> Seq(Accounts)] /\ plan'[p] = Tail(plan[p]) /\ DOMAIN account' = Accounts
  BY <1>1, <1>4 DEF IInv, Shape
<1>6. Shape' /\ Alone' /\ pc'[p] = to /\ \A q \in Procs \ {p} : pc'[q] = pc[q] /\ pc[q] = "idle"
  BY <1>1, <1>2, <1>3, <1>5, StaysAlone DEF IInv, Shape, Granting
<1>7. Respects(p)'
  <2>1. job[p].create BY <1>1 DEF IInv, Respects, Creating
  <2>2. ASSUME ~ Unchecked(p)
             PROVE  Distinct(plan'[p]) /\ \A i \in DOMAIN plan'[p] : account'[plan'[p][i]] = NoPassword
    <3>1. Distinct(plan[p]) /\ Free(plan[p]) BY <1>1, <2>2 DEF IInv, Respects
    <3>2. Distinct(Tail(plan[p])) BY <1>1, <1>4, <3>1, TailOK
    <3>3. ASSUME NEW i \in DOMAIN Tail(plan[p]) PROVE account'[Tail(plan[p])[i]] = NoPassword
      <4>1. /\ i + 1 \in DOMAIN plan[p] /\ Tail(plan[p])[i] = plan[p][i + 1]
            /\ plan[p][i + 1] # Head(plan[p])
        BY <1>1, <1>4, <3>1, <3>3, TailOK
      <4>2. account[plan[p][i + 1]] = NoPassword BY <3>1, <4>1 DEF Free
      <4>3. plan[p][i + 1] \in Accounts BY <1>4, <4>1
      <4> QED BY <1>1, <4>1, <4>2, <4>3 DEF IInv, Shape
    <3>4. plan'[p] = Tail(plan[p]) BY <1>5
    <3> QED BY <3>2, <3>3, <3>4 DEF Distinct
  <2> QED BY <1>1, <2>1, <2>2 DEF Respects, Free, Distinct, Unchecked
<1>8. ASSUME NEW q \in Procs \ {p} PROVE Respects(q)'
  BY <1>6 DEF Respects, Creating, Granting
<1> QED BY <1>6, <1>7, <1>8 DEF IInv

LEMMA GrantSchemaKeepsInv ==
  ASSUME IInv, NEW p \in Procs, NEW from \in Granting, NEW to \in Granting,
         GrantSchema(p, from, to)
  PROVE  IInv'
<1>1. /\ pc[p] = from /\ Goto(p, to) /\ UNCHANGED << account, job, plan >>
  BY DEF GrantSchema, At, adding
<1>2. Goes(p, to) BY <1>1 DEF Goes, Goto, Granting
<1>3. Shape' /\ Alone' /\ pc'[p] = to /\ \A q \in Procs \ {p} : pc'[q] = pc[q]
  BY <1>1, <1>2, StaysAlone DEF IInv, Shape
<1>4. \A q \in Procs : Respects(q)'
  <2> TAKE q \in Procs
  <2>1. CASE q = p BY <1>1, <1>3, <2>1 DEF IInv, Respects, Creating, Free, Unchecked
  <2>2. CASE q # p BY <1>1, <1>3, <2>2 DEF IInv, Respects, Free, Unchecked
  <2> QED BY <2>1, <2>2
<1> QED BY <1>3, <1>4 DEF IInv

LEMMA BeginAddKeepsInv ==
  ASSUME IInv, NEW p \in Procs, BeginAdd(p)
  PROVE  IInv'
<1>1. PICK r \in AddRequests : job' = [job EXCEPT ![p] = r] BY DEF BeginAdd
<1>2. UNCHANGED << account, plan >> /\ Goes(p, "init")
  BY DEF BeginAdd, Ready, Goes, Goto, At, database
<1>3. /\ job' \in [Procs -> AddRequests] /\ plan' \in [Procs -> Seq(Accounts)]
      /\ \A q \in Procs \ {p} : job'[q] = job[q] /\ plan'[q] = plan[q]
  BY <1>1, <1>2 DEF IInv, Shape
<1>4. "init" \notin Creating BY DEF Creating, Granting
<1> QED BY <1>2, <1>3, <1>4, Elsewhere

LEMMA GoingPasses ==
  ASSUME NEW p \in Procs, NEW l, pc[p] # "idle", Goto(p, l), UNCHANGED << account, job, plan >>,
         l \in Creating => l \in {"check", "sudo"} /\ job[p].create
  PROVE  Passing(p)
<1>1. Goes(p, l) BY DEF Goes, Goto
<1> QED BY <1>1 DEF Passing

LEMMA GoPasses ==
  ASSUME NEW p \in Procs, NEW from \in DbLocations, NEW to, Go(p, from, to),
         to \in Creating => to \in {"check", "sudo"} /\ job[p].create
  PROVE  Passing(p)
<1>1. pc[p] # "idle" /\ Goto(p, to) /\ UNCHANGED << account, job, plan >>
  BY DEF Go, At, database, adding, DbLocations
<1> QED BY <1>1, GoingPasses

LEMMA QuittingForgets ==
  ASSUME NEW p \in Procs, NEW from \in DbLocations, At(p, from), Quit(p)
  PROVE  ForgetsJob(p)
BY DEF Quit, ForgetsJob, Goes, Goto, At, database, DbLocations

LEMMA NextPassPasses ==
  ASSUME NEW p \in Procs, NEW from \in DbLocations, At(p, from), NextPass(p),
         UNCHANGED << account, job, plan >>
  PROVE  Passing(p)
<1>1. PICK l \in {"added", "init"} : Goto(p, l) BY DEF NextPass
<1>2. pc[p] # "idle" /\ l \notin Creating BY DEF At, DbLocations, Creating, Granting
<1> QED BY <1>1, <1>2, GoingPasses

\* The actions that neither look for accounts nor change one.
LEMMA DbMoves ==
  ASSUME NEW p \in Procs, DbStep(p)
  PROVE  \/ BeginAdd(p) \/ CheckUser(p) \/ GrantUser(p) \/ CheckSudo(p) \/ GrantSudo(p)
         \/ ForgetsJob(p) \/ Passing(p)
         \/ UNCHANGED << pc, account, job, plan >>
<1> USE DEF DbLocations, Creating, Granting
<1>1. CASE CheckFlags(p)
  <2>1. CASE Go(p, "init", "access") BY <2>1, GoPasses
  <2> QED BY <1>1, <2>1, QuittingForgets DEF CheckFlags
<1>2. CASE Access(p)
  <2>1. /\ pc[p] = "access" /\ Goto(p, "getinfo") /\ UNCHANGED << account, job, plan >>
    BY <1>2 DEF Access, LogIn, At, database
  <2> QED BY <2>1, GoingPasses
<1>3. CASE NoAccess(p)
  <2>1. CASE job[p].create /\ Go(p, "access", "sudo") BY <2>1, GoPasses
  <2> QED BY <1>3, <2>1, QuittingForgets DEF NoAccess
<1>4. CASE GetInfo(p)
  <2>1. CASE Go(p, "getinfo", IF Creates(p) THEN "check" ELSE "tables")
    <3>1. CASE Creates(p) BY <2>1, <3>1, GoPasses DEF Creates
    <3>2. CASE ~ Creates(p) BY <2>1, <3>2, GoPasses
    <3> QED BY <3>1, <3>2
  <2> QED BY <1>4, <2>1, QuittingForgets DEF GetInfo
<1>5. CASE Granted(p) BY <1>5, GoPasses DEF Granted
<1>6. CASE Verify(p) BY <1>6, GoPasses DEF Verify
<1>7. CASE VerifySudo(p) BY <1>7, QuittingForgets DEF VerifySudo
<1>8. CASE CountTables(p)
  <2>1. CASE Go(p, "tables", "store") BY <2>1, GoPasses
  <2>2. CASE Go(p, "tables", "duplicate") BY <2>2, GoPasses
  <2> QED BY <1>8, <2>1, <2>2 DEF CountTables
<1>9. CASE Store(p)
  <2>1. pc[p] = "store" /\ Goto(p, "duplicate") /\ UNCHANGED << account, job, plan >>
    BY <1>9 DEF Store, At, database, adding
  <2> QED BY <2>1, GoingPasses
<1>10. CASE CheckDuplicate(p)
  <2>1. CASE At(p, "duplicate") /\ Quit(p) BY <2>1, QuittingForgets
  <2>2. CASE Go(p, "duplicate", "install") BY <2>2, GoPasses
  <2>3. CASE At(p, "duplicate") /\ NextPass(p) /\ UNCHANGED << account, job, plan >>
    BY <2>3, NextPassPasses
  <2> QED BY <1>10, <2>1, <2>2, <2>3 DEF CheckDuplicate, database
<1>11. CASE Install(p)
  <2>1. At(p, "install") /\ NextPass(p) /\ UNCHANGED << account, job, plan >>
    BY <1>11 DEF Install
  <2> QED BY <2>1, NextPassPasses
<1>12. CASE FinishAdd(p) BY <1>12, QuittingForgets DEF FinishAdd
<1>13. CASE BeginRemoveAll(p)
  <2>1. /\ pc[p] = "idle" /\ (\A q \in Procs : pc[q] = "idle") /\ Goto(p, "remove")
        /\ UNCHANGED << account, job, plan >>
    BY <1>13 DEF BeginRemoveAll, Ready, At, dbvars, database, adding
  <2>2. Goes(p, "remove") BY <2>1 DEF Goes, Goto
  <2> QED BY <2>1, <2>2 DEF Passing
<1>14. CASE RemoveService(p)
  BY <1>14 DEF RemoveService, adding
<1>15. CASE NotRemovable(p)
  <2>1. pc[p] = "remove" /\ Goto(p, "idle") /\ UNCHANGED << account, job, plan >>
    BY <1>15 DEF NotRemovable, Leave, Exit, At, dbvars, database, adding
  <2> QED BY <2>1, GoingPasses
<1>16. CASE ClearPassword(p)
  <2>1. pc[p] = "remove" /\ Goto(p, "idle") /\ UNCHANGED << account, job, plan >>
    BY <1>16 DEF ClearPassword, Exit, At, dbvars, database, adding
  <2> QED BY <2>1, GoingPasses
<1> QED BY <1>1, <1>2, <1>3, <1>4, <1>5, <1>6, <1>7, <1>8, <1>9, <1>10, <1>11, <1>12, <1>13,
           <1>14, <1>15, <1>16 DEF DbStep

LEMMA DbStepKeepsInv ==
  ASSUME IInv, NEW p \in Procs, DbStep(p)
  PROVE  IInv'
<1>1. CASE BeginAdd(p) BY <1>1, BeginAddKeepsInv
<1>2. CASE CheckUser(p) BY <1>2, CheckKeepsInv DEF CheckUser, Granting
<1>3. CASE GrantUser(p) BY <1>3, GrantKeepsInv, GrantSchemaKeepsInv DEF GrantUser, Granting
<1>4. CASE CheckSudo(p) BY <1>4, CheckKeepsInv DEF CheckSudo, Granting
<1>5. CASE GrantSudo(p) BY <1>5, GrantKeepsInv, GrantSchemaKeepsInv DEF GrantSudo, Granting
<1>6. CASE ForgetsJob(p) BY <1>6, ForgettingKeepsInv
<1>7. CASE Passing(p) BY <1>7, PassingKeepsInv
<1>8. CASE UNCHANGED << pc, account, job, plan >>
  BY <1>8 DEF IInv, Shape, Alone, Respects, Free, Unchecked
<1> QED BY <1>1, <1>2, <1>3, <1>4, <1>5, <1>6, <1>7, <1>8, DbMoves

-----------------------------------------------------------------------------
(* The theorem *)

LEMMA InvInit == Init => IInv
<1> SUFFICES ASSUME Init PROVE IInv
  OBVIOUS
<1>1. /\ pc = [p \in Procs |-> "idle"] /\ job = [p \in Procs |-> NoJob]
      /\ plan = [p \in Procs |-> << >>] /\ DOMAIN account = Accounts
  BY DEF Init, Beginning
<1>2. Shape BY <1>1, NoJobOK DEF Shape
<1> QED BY <1>1, <1>2 DEF IInv, Alone, Respects, Creating, Granting

LEMMA InvNext == IInv /\ [Next]_vars => IInv'
<1> SUFFICES ASSUME IInv, [Next]_vars PROVE IInv'
  OBVIOUS
<1>1. CASE UNCHANGED vars
  BY <1>1 DEF vars, dbvars, database, adding, IInv, Shape, Alone, Respects, Free, Unchecked
<1>2. CASE Halt BY <1>1, <1>2 DEF Halt
<1>3. ASSUME NEW p \in Procs, (ConfigStep(p) \/ Fail(p)) /\ UNCHANGED dbvars PROVE IInv'
  BY <1>3, MovesKeepInv
<1>4. ASSUME NEW p \in Procs, DbStep(p) PROVE IInv' BY <1>4, DbStepKeepsInv
<1>5. ASSUME NEW p \in Procs, FailAdd(p) PROVE IInv'
  <2>1. ForgetsJob(p)
    BY <1>5 DEF FailAdd, Exit, Goto, Goes, ForgetsJob, DbLocations, database
  <2> QED BY <2>1, ForgettingKeepsInv
<1>6. ASSUME NEW p \in Procs, CheckBlind(p) PROVE IInv'
  BY <1>6, PlanKeepsInv DEF CheckBlind, Unchecked, Granting
<1> QED BY <1>1, <1>2, <1>3, <1>4, <1>5, <1>6 DEF Next

Respectful ==
  \A a \in Accounts : account[a] # NoPassword /\ account'[a] # account[a] =>
    \E p \in Procs : job[p].create /\ Unchecked(p)

\* The accounts are changed by Grant alone.
LEMMA GrantRespectful ==
  ASSUME IInv, NEW p \in Procs, NEW at \in Granting, NEW schemaat, Grant(p, at, schemaat)
  PROVE  Respectful
<1>1. /\ pc[p] = at /\ plan[p] # << >> /\ account' = [account EXCEPT ![Head(plan[p])] = new[p]]
  BY DEF Grant, At
<1>2. job[p].create BY <1>1 DEF IInv, Respects, Creating
<1>3. CASE Unchecked(p) BY <1>2, <1>3 DEF Respectful
<1>4. CASE ~ Unchecked(p)
  <2>1. Free(plan[p]) BY <1>1, <1>4 DEF IInv, Respects
  <2>2. plan[p] \in Seq(Accounts) BY DEF IInv, Shape
  <2>3. 1 \in DOMAIN plan[p] /\ Head(plan[p]) = plan[p][1] BY <1>1, <2>2
  <2>4. account[Head(plan[p])] = NoPassword BY <2>1, <2>3 DEF Free
  <2> QED BY <1>1, <2>4 DEF Respectful, IInv, Shape
<1> QED BY <1>3, <1>4

LEMMA NextRespectful == IInv /\ [Next]_vars => [Respectful]_vars
<1> SUFFICES ASSUME IInv, [Next]_vars PROVE Respectful
  OBVIOUS
<1> USE DEF vars, dbvars, database, adding
<1>1. CASE UNCHANGED account BY <1>1 DEF Respectful
<1>2. ASSUME NEW p \in Procs, DbStep(p) PROVE Respectful
  <2>1. CASE BeginAdd(p) BY <1>1, <2>1 DEF BeginAdd
  <2>2. CASE CheckUser(p) BY <1>1, <2>2 DEF CheckUser, Check, Plan, Quit
  <2>3. CASE GrantUser(p) BY <1>1, <2>3, GrantRespectful DEF GrantUser, GrantSchema, Granting
  <2>4. CASE CheckSudo(p) BY <1>1, <2>4 DEF CheckSudo, Check, Plan, Quit
  <2>5. CASE GrantSudo(p) BY <1>1, <2>5, GrantRespectful DEF GrantSudo, GrantSchema, Granting
  <2>6. CASE ForgetsJob(p) BY <1>1, <2>6 DEF ForgetsJob
  <2>7. CASE Passing(p) BY <1>1, <2>7 DEF Passing
  <2>8. CASE UNCHANGED << pc, account, job, plan >> BY <1>1, <2>8
  <2> QED BY <1>2, <2>1, <2>2, <2>3, <2>4, <2>5, <2>6, <2>7, <2>8, DbMoves
<1>3. CASE Halt BY <1>1, <1>3 DEF Halt
<1>4. ASSUME NEW p \in Procs, FailAdd(p) PROVE Respectful BY <1>1, <1>4 DEF FailAdd
<1>6. ASSUME NEW p \in Procs, CheckBlind(p) PROVE Respectful BY <1>1, <1>6 DEF CheckBlind, Plan
<1>5. ASSUME NEW p \in Procs, UNCHANGED dbvars PROVE Respectful BY <1>1, <1>5
<1> QED BY <1>1, <1>2, <1>3, <1>4, <1>5, <1>6 DEF Next

\* No password of an account that exists is changed without --force (mysql.go:130 and 175-192,
\* postgresql.go:178 and 236), but by a command for which SHOW GRANTS may fail (mysql.go:178),
\* whatever commands are given and wherever they are broken off.
THEOREM AccountsNeedForce == Spec => ForceOnly
<1>1. Spec => []IInv BY InvInit, InvNext, PTL DEF Spec
<1>2. IInv /\ [Next]_vars => [Respectful]_vars BY NextRespectful
<1>3. Spec => [][Respectful]_vars BY <1>1, <1>2, PTL DEF Spec
<1> QED BY <1>3, PTL DEF ForceOnly, Respectful

-----------------------------------------------------------------------------
(* The types *)

Renaming == {"source", "svc", "dereg", "keys", "key", "instance", "file", "put", "delete"}

TInv ==
  /\ ConfigTypeOK
  /\ pc \in [Procs -> {"idle"} \cup Locations \cup DbLocations]
  /\ \A p \in Procs : pc[p] \in Renaming => {conf[p].name, req[p].name} \subseteq Names
  /\ \A p \in Procs : pc[p] \in DbLocations => conf[p].name \in Names
  /\ \A p \in Procs : pc[p] = "file" => files[key[p].uuid] \in Aliases

-----------------------------------------------------------------------------
(* Lemmas about operators *)

LEMMA Increased == \A n \in Nat : \A c \in 0 .. n : c < n => c + 1 \in 0 .. n
OBVIOUS

LEMMA DefaultOK == \A n \in Names : Default(n) \in Aliases
BY ConfigConstants DEF Default

LEMMA KeyRecord ==
  ASSUME NEW n \in Names, NEW s \in QueriesServices, NEW a \in Aliases, NEW u \in UUIDs
  PROVE  [node |-> n, service |-> s, alias |-> a, uuid |-> u] \in Keys
BY DEF Keys

LEMMA RowOK ==
  ASSUME NEW c \in [Names -> [Services -> SUBSET Aliases]], NEW n, NEW row,
         n \in Names => row \in [Services -> SUBSET Aliases]
  PROVE  [c EXCEPT ![n] = row] \in [Names -> [Services -> SUBSET Aliases]]
OBVIOUS

LEMMA NoTaskOK ==
  /\ NoRequest \in Requests /\ NoService \in Services /\ NoKey \in Keys
  /\ NoConf \in Configs /\ Nothing \in [Services -> SUBSET Aliases]
<1>1. NoRequest \in Requests
  <2>1. [server |-> FALSE, auth |-> Unset, name |-> Unset, addr |-> Unset, bind |-> Unset,
         force |-> FALSE] \in Requests
    BY DEF Requests
  <2> QED BY <2>1 DEF NoRequest
<1>2. "mysql:queries" \in QueriesServices /\ "mysql:queries" \in Services BY ConfigConstants
<1>3. NoService \in Services BY <1>2 DEF NoService
<1>4. NoKey \in Keys
  <2>1. Hostname \in Names /\ Default(Hostname) \in Aliases BY ConfigConstants, DefaultOK
  <2>2. [service |-> "mysql:queries", alias |-> Default(Hostname)] \in UUIDs
    BY <1>2, <2>1 DEF UUIDs
  <2>3. \E k : k \in Keys BY <1>2, <2>1, <2>2, KeyRecord
  <2> QED BY <2>3 DEF NoKey
<1>5. NoConf \in Configs BY ConfigConstants DEF NoConf, Configs
<1>6. Nothing \in [Services -> SUBSET Aliases] BY DEF Nothing
<1> QED BY <1>1, <1>3, <1>4, <1>5, <1>6

LEMMA OptionsOK ==
  ASSUME yml \in Configs, NEW r \in Requests
  PROVE  Load \in Configs /\ ServerOptions(Load, r) \in Configs
<1>1. Load \in Configs
  BY DEF Load, Configs
<1>2. r.auth \in Auths \cup {Unset} /\ r.server \in BOOLEAN BY DEF Requests
<1>3. NoAuth \in Auths BY ConfigConstants
<1> QED BY <1>1, <1>2, <1>3, ZenonT(60) DEF ServerOptions, Configs

\* One option of the copy of pmm.yml is set.
LEMMA OptionSet ==
  ASSUME conf \in [Procs -> Configs], NEW p \in Procs
  PROVE  /\ \A n \in Names : conf' = [conf EXCEPT ![p].name = n] =>
              conf' \in [Procs -> Configs] /\ conf'[p] = [conf[p] EXCEPT !.name = n]
         /\ \A a \in Addresses : conf' = [conf EXCEPT ![p].addr = a] =>
              conf' \in [Procs -> Configs] /\ conf'[p] = [conf[p] EXCEPT !.addr = a]
         /\ \A b \in Addresses : conf' = [conf EXCEPT ![p].bind = b] =>
              conf' \in [Procs -> Configs] /\ conf'[p] = [conf[p] EXCEPT !.bind = b]
<1>1. \A n \in Names : [conf[p] EXCEPT !.name = n] \in Configs BY DEF Configs
<1>2. \A a \in Addresses : [conf[p] EXCEPT !.addr = a] \in Configs /\ [conf[p] EXCEPT !.bind = a] \in Configs
  BY DEF Configs
<1> QED BY <1>1, <1>2

LEMMA ReplacedOK ==
  ASSUME NEW p \in Procs, {conf[p].name, req[p].name} \subseteq Names, NEW a \in Aliases
  PROVE  Replaced(p, a) \in Aliases
BY ConfigConstants DEF Replaced

LEMMA NewKeyOK ==
  ASSUME NEW p \in Procs, {conf[p].name, req[p].name} \subseteq Names, NEW k \in Keys
  PROVE  NewKey(p, k) \in Keys
<1>1. k.alias \in Aliases BY DEF Keys
<1>2. Replaced(p, k.alias) \in Aliases BY <1>1, ReplacedOK
<1> QED BY <1>2 DEF NewKey, Keys

LEMMA NewTagsOK ==
  ASSUME NEW p \in Procs, req[p].name \in Names, seen[p] \in [Services -> SUBSET Aliases],
         NEW s \in Services
  PROVE  NewTags(p, s) \in SUBSET Aliases
BY DefaultOK DEF NewTags

-----------------------------------------------------------------------------
(* The steps of ClientConfig *)

\* A step is taken by the command that runs, or starts one when none does.
Turn(p) == \A q \in Procs \ {p} : pc[q] = "idle"

LEMMA ConfigTurn ==
  ASSUME Alone, NEW p \in Procs, ConfigStep(p)
  PROVE  Turn(p)
<1> SUFFICES pc[p] # "idle" \/ \A q \in Procs : pc[q] = "idle"
  BY DEF Alone, Turn
<1> USE DEF At, Move, Leave
<1>1. CASE BeginConfig(p) BY <1>1 DEF BeginConfig, Ready
<1>2. CASE FirstAddress(p) \/ KeepAddress(p) \/ ChangeAddress(p) \/ InvalidName(p) \/ NotDetected(p)
  BY <1>2 DEF FirstAddress, KeepAddress, ChangeAddress, InvalidName, NotDetected, TakeAddress
<1>3. CASE CallFails(p) BY <1>3 DEF CallFails, AfterError
<1>4. CASE Repair(p) \/ RepairFails(p) BY <1>4 DEF Repair, RepairFails, Repairs
<1> QED BY <1>1, <1>2, <1>3, <1>4 DEF ConfigStep, InitialName, NameTaken, KeepName, CheckTarget, CheckSource,
  RegisterNew, RegisterFails, DeregisterOld, ListKeys, GetKey, GetFails, NextService, UpdateInstance, WriteInstance,
  PutKey, DeleteKey, DropNode, SetBind, SyncAgent, RestartAgent, WriteConfig, RestartEach, Configured, Finish

LEMMA DbTurn ==
  ASSUME Alone, NEW p \in Procs, DbStep(p)
  PROVE  Turn(p)
<1> SUFFICES pc[p] # "idle" \/ \A q \in Procs : pc[q] = "idle"
  BY DEF Alone, Turn
<1> QED BY DEF At, Go, DbStep, BeginAdd, Ready, CheckFlags, Access, LogIn, NoAccess, GetInfo, CheckUser, Check, Plan, GrantUser,
   Grant, GrantSchema, Granted, Verify, CheckSudo, GrantSudo, VerifySudo, CountTables, Store, CheckDuplicate, Install,
   FinishAdd, BeginRemoveAll, RemoveService, NotRemovable, ClearPassword

LEMMA BlindTurn ==
  ASSUME Alone, NEW p \in Procs, CheckBlind(p)
  PROVE  Turn(p)
BY DEF Alone, Turn, CheckBlind, At

LEMMA ExitTypes ==
  ASSUME TInv, NEW p \in Procs, Turn(p), Exit(p), yml' \in Configs,
         UNCHANGED << catalog, address, keys, qan, files, agent, units >>,
         commands' \in 0 .. MaxCommands, faults' \in 0 .. MaxFaults
  PROVE  TInv'
BY NoTaskOK DEF TInv, Turn, ConfigTypeOK, Goto, Exit, ForgetTask, Locations, DbLocations, Renaming

\* A fault, or none.
LEMMA CountedFault ==
  ASSUME faults \in 0 .. MaxFaults, UNCHANGED faults \/ (faults < MaxFaults /\ faults' = faults + 1)
  PROVE  faults' \in 0 .. MaxFaults
<1>1. MaxFaults \in Nat BY ConfigConstants
<1> QED BY <1>1, Increased

LEMMA CountedCommand ==
  ASSUME commands \in 0 .. MaxCommands, NEW p, Ready(p)
  PROVE  commands' \in 0 .. MaxCommands
<1>1. MaxCommands \in Nat BY ConfigConstants
<1> QED BY <1>1, Increased DEF Ready

LEMMA ConfigTypes ==
  ASSUME TInv, NEW p \in Procs, Turn(p), ConfigStep(p)
  PROVE  TInv'
<1> USE DEF TInv, ConfigTypeOK, At, Goto, shared, task, Locations, DbLocations, Renaming, Turn
<1>1. CASE BeginConfig(p)
  <2>1. PICK r \in ConfigRequests : /\ conf' = [conf EXCEPT ![p] = ServerOptions(Load, r)]
                                    /\ req' = [req EXCEPT ![p] = r]
    BY <1>1 DEF BeginConfig
  <2>2. r \in Requests BY ConfigConstants
  <2>3. ServerOptions(Load, r) \in Configs BY <2>2, OptionsOK
  <2>4. commands' \in 0 .. MaxCommands BY <1>1, CountedCommand DEF BeginConfig
  <2> QED BY <1>1, <2>1, <2>2, <2>3, <2>4 DEF BeginConfig
<1>2. CASE InitialName(p)
  <2>1. PICK n \in Names, l \in {"repair", "address"} :
          SetName(p, n) /\ Goto(p, l) /\ UNCHANGED << shared, task, commands, faults >>
     BY <1>2, ConfigConstants, ZenonT(60) DEF InitialName, Requests
  <2> QED BY <2>1, ZenonT(60) DEF SetName, Configs
<1>3. CASE NameTaken(p) BY <1>3, ExitTypes DEF NameTaken, Leave
<1>4. CASE KeepName(p) BY <1>4 DEF KeepName, Move
<1>5. ASSUME NEW gone, NEW orphans, Repairs(p, gone, orphans), faults' \in 0 .. MaxFaults PROVE TInv'
  <2>1. catalog' \in [Names -> [Services -> SUBSET Aliases]]
    <3> DEFINE n == conf[p].name
               kept == [s \in Services |-> IF s \in gone THEN {} ELSE catalog[n][s]]
    <3>1. n \in Names => kept \in [Services -> SUBSET Aliases] OBVIOUS
    <3>2. catalog' = [catalog EXCEPT ![n] = kept] BY <1>5 DEF Repairs
    <3>3. catalog \in [Names -> [Services -> SUBSET Aliases]] OBVIOUS
    <3> HIDE DEF TInv, ConfigTypeOK, kept
    <3> QED BY <3>1, <3>2, <3>3, RowOK
  <2>2. /\ keys' \subseteq Keys /\ qan' \in [UUIDs -> Aliases \cup {Unset}]
        /\ units' \in [Services -> Auths \cup {Unset}]
    BY <1>5 DEF Repairs
  <2> QED BY <1>5, <2>1, <2>2 DEF Repairs
<1>6. CASE Repair(p) BY <1>5, <1>6 DEF Repair
<1>7. CASE RepairFails(p) BY <1>5, <1>7, CountedFault DEF RepairFails
<1>8. CASE CheckTarget(p)
  <2>1. CASE At(p, "name") /\ Leave(p) BY <2>1, ExitTypes DEF Leave
  <2>2. CASE Renames(p) /\ Move(p, "name", "source") BY <2>2 DEF Move, Renames, Requests, Configs
  <2> QED BY <2>1, <2>2, <1>8 DEF CheckTarget
<1>9. CASE CheckSource(p) 
  <2>1. CASE At(p, "source") /\ Leave(p) BY <2>1, ExitTypes DEF Leave
  <2>2. CASE /\ SetName(p, req[p].name) /\ Goto(p, "address") /\ At(p, "source")
             /\ UNCHANGED << shared, task, commands, faults >>
    <3>1. req[p].name \in Names BY <2>2
    <3>2. conf' \in [Procs -> Configs] /\ conf' = [conf EXCEPT ![p].name = req[p].name]
      BY <2>2, <3>1, OptionSet DEF SetName
    <3> QED BY <2>2, <3>2
  <2>3. CASE /\ seen' = [seen EXCEPT ![p] = catalog[conf[p].name]]
        /\ todo' = [todo EXCEPT ![p] = Registered(conf[p].name)]
        /\ Goto(p, "svc") /\ At(p, "source")
        /\ UNCHANGED << shared, conf, req, cur, ktodo, key, errs, commands, faults >>
     BY <2>3 DEF Registered
  <2> QED BY <1>9, <2>1, <2>2, <2>3 DEF CheckSource
<1>10. CASE RegisterNew(p)
   <2>1. PICK s \in todo[p] : /\ Visited(p, s)
       /\ catalog' = [catalog EXCEPT ![req[p].name][s] = NewTags(p, s)]
       /\ address' = [address EXCEPT ![req[p].name] = conf[p].addr]
       /\ cur' = [cur EXCEPT ![p] = s]
     BY <1>10 DEF RegisterNew
   <2>2. s \in Services /\ NewTags(p, s) \in SUBSET Aliases BY <1>10, NewTagsOK DEF RegisterNew
   <2>3. conf[p].addr \in Addresses \cup {Unset} BY DEF Configs
   <2> QED BY <1>10, <2>1, <2>2, <2>3 DEF RegisterNew, Visited
<1>11. CASE RegisterFails(p) BY <1>11, CountedFault DEF RegisterFails, Erred, Visited
<1>12. CASE DeregisterOld(p) BY <1>12 DEF DeregisterOld
<1>13. CASE ListKeys(p) BY <1>13 DEF ListKeys
<1>14. CASE GetKey(p) BY <1>14 DEF GetKey
<1>15. CASE GetFails(p) BY <1>15, CountedFault DEF GetFails, Erred
<1>16. CASE NextService(p) BY <1>16 DEF NextService, Move
<1>17. CASE UpdateInstance(p)
  <2>1. key[p].uuid \in UUIDs /\ {conf[p].name, req[p].name} \subseteq Names BY <1>17 DEF UpdateInstance, Keys
  <2>2. files[key[p].uuid] # Unset => Replaced(p, files[key[p].uuid]) \in Aliases
    BY <2>1, ReplacedOK
  <2>3. qan' \in [UUIDs -> Aliases \cup {Unset}] BY <1>17, <2>1, <2>2 DEF UpdateInstance
  <2>4. errs' \in [Procs -> BOOLEAN] BY <1>17 DEF UpdateInstance
  <2>5. \E l \in {"file", "put"} : Goto(p, l) /\ (l = "file" => files[key[p].uuid] \in Aliases)
    BY <1>17, <2>1, ZenonT(60) DEF UpdateInstance
  <2> QED BY <1>17, <2>3, <2>4, <2>5 DEF UpdateInstance
<1>18. CASE WriteInstance(p)
  <2>1. key[p].uuid \in UUIDs /\ {conf[p].name, req[p].name} \subseteq Names BY <1>18 DEF WriteInstance, Keys
  <2>3. files[key[p].uuid] \in Aliases BY <1>18 DEF WriteInstance
  <2> QED BY <1>18, <2>1, <2>3, ReplacedOK DEF WriteInstance
<1>19. CASE PutKey(p)
  <2>1. NewKey(p, key[p]) \in Keys BY <1>19, NewKeyOK DEF PutKey
  <2> QED BY <1>19, <2>1 DEF PutKey
<1>20. CASE DeleteKey(p) BY <1>20 DEF DeleteKey
<1>21. CASE CallFails(p)
  <2>1. AfterError[pc[p]] \in Renaming \ {"file"} /\ pc[p] \in Renaming BY <1>21 DEF CallFails, AfterError
  <2>2. faults' \in 0 .. MaxFaults /\ errs' \in [Procs -> BOOLEAN] BY <1>21, CountedFault DEF CallFails, Erred
  <2> QED BY <1>21, <2>1, <2>2, ZenonT(60) DEF CallFails
<1>22. CASE DropNode(p)
  <2>1. catalog' \in [Names -> [Services -> SUBSET Aliases]] BY <1>22, NoTaskOK, ZenonT(60) DEF DropNode
  <2>2. faults' \in 0 .. MaxFaults BY <1>22, CountedFault DEF DropNode
  <2>3. conf' \in [Procs -> Configs]
    <3>1. req[p].name \in Names BY <1>22 DEF DropNode
    <3> QED BY <1>22, <3>1, OptionSet DEF DropNode, SetName
  <2>4. pc' = [pc EXCEPT ![p] = "address"] /\ UNCHANGED << yml, address, keys, qan, files, agent, units, task, commands >>
                /\ conf' = [conf EXCEPT ![p].name = req[p].name]
    BY <1>22 DEF DropNode, SetName
  <2> QED BY <2>1, <2>2, <2>3, <2>4
<1>23. CASE InvalidName(p) BY <1>23, ExitTypes DEF InvalidName, Leave
<1>24. ASSUME NEW a \in Addresses, TakeAddress(p, a) PROVE TInv'
  <2>1. conf' \in [Procs -> Configs] /\ conf' = [conf EXCEPT ![p].addr = a]
    BY <1>24, OptionSet DEF TakeAddress
  <2> QED BY <1>24, <2>1 DEF TakeAddress
<1>25. CASE FirstAddress(p) BY <1>24, <1>25 DEF FirstAddress, Requests
<1>26. CASE NotDetected(p) BY <1>26, ExitTypes DEF NotDetected, Leave
<1>27. CASE KeepAddress(p) BY <1>24, <1>27 DEF KeepAddress, Configs
<1>28. CASE ChangeAddress(p)
  <2>1. CASE At(p, "address") /\ Leave(p) BY <2>1, ExitTypes DEF Leave
  <2> QED BY <1>24, <1>28, <2>1 DEF ChangeAddress, ChangesAddress, Requests
<1>29. CASE SetBind(p)
  <2>1. CASE At(p, "bind") /\ Leave(p) BY <2>1, ExitTypes DEF Leave
  <2>2. ASSUME NEW b \in LocalAddresses, conf' = [conf EXCEPT ![p].bind = b], Goto(p, "sync"), At(p, "bind"),
           UNCHANGED << shared, task, commands, faults >>
        PROVE TInv'
    <3>1. b \in Addresses BY ConfigConstants
    <3>2. conf' \in [Procs -> Configs] BY <2>2, <3>1, OptionSet
    <3> QED BY <2>2, <3>2
  <2> QED BY <1>29, <2>1, <2>2 DEF SetBind
<1>30. CASE SyncAgent(p)
  <2>1. agent' \in Auths \cup {Unset} BY <1>30 DEF SyncAgent, Configs
  <2>2. \E l \in {"write", "mysql"} : Goto(p, l) BY <1>30 DEF SyncAgent
  <2> QED BY <1>30, <2>1, <2>2 DEF SyncAgent
<1>31. ASSUME NEW s, NEW from \in {"mysql", "mongodb"}, NEW to \in {"mongodb", "write"},
              RestartAgent(p, s, from, to)
       PROVE TInv'
  <2>1. CASE At(p, from) /\ Leave(p) BY <2>1, ExitTypes DEF Leave
  <2>2. Loads(s) \in Auths \cup {Unset} BY DEF Loads, Configs
  <2>3. CASE Move(p, from, to) BY <1>31, <2>3 DEF Move
  <2>4. CASE /\ At(p, from) /\ Restart(s) /\ Goto(p, to)
             /\ UNCHANGED << yml, catalog, address, keys, qan, files, agent, conf, task, commands, faults >>
    BY <1>31, <2>2, <2>4, ZenonT(60) DEF Restart
  <2> QED BY <1>31, <2>1, <2>3, <2>4 DEF RestartAgent
<1>32. CASE WriteConfig(p) BY <1>32 DEF WriteConfig, Units
<1>33. CASE RestartEach(p)
  <2>2. \A s : Loads(s) \in Auths \cup {Unset} BY DEF Loads, Configs
  <2> QED BY <1>33, <2>2 DEF RestartEach, Restart, Visited
<1>34. CASE Configured(p) BY <1>34 DEF Configured, Move
<1>35. CASE Finish(p) BY <1>35, ExitTypes DEF Finish
<1> QED BY <1>1, <1>2, <1>3, <1>4, <1>6, <1>7, <1>8, <1>9, <1>10, <1>11, <1>12, <1>13,
           <1>14, <1>15, <1>16, <1>17, <1>18, <1>19, <1>20, <1>21, <1>22, <1>23, <1>25,
           <1>26, <1>27, <1>28, <1>29, <1>30, <1>31, <1>32, <1>33, <1>34, <1>35 DEF ConfigStep

-----------------------------------------------------------------------------
(* The steps of DbUser *)

DInv ==
  /\ DbTypeOK
  /\ \A p \in Procs : pc[p] \in {"grant", "schema", "store"} => new[p] \in Passwords
  /\ \A p \in Procs : pc[p] \in DbLocations \ {"remove", "added"} => left[p] # << >>

Typed == TInv /\ DInv

AtMost(S, n) == IsFiniteSet(S) /\ Cardinality(S) <= n

LEMMA OneMore ==
  ASSUME NEW S, NEW T, NEW x, NEW n \in Nat, NEW m \in Nat, T = S \cup {x}, m = n + 1, AtMost(S, n)
  PROVE  AtMost(T, m)
<1>1. Cardinality(S) \in Nat BY FS_CardinalityType DEF AtMost
<1>2. Cardinality(S \cup {x}) \in {Cardinality(S), Cardinality(S) + 1} BY FS_AddElement DEF AtMost
<1> QED BY <1>1, <1>2, FS_AddElement DEF AtMost

LEMMA FreshOK == Fresh \in Passwords \ InUse
<1> DEFINE D(s) == dsn[s].password
           Bound == { account["localhost"], account["127.0.0.1"], account["%"], account["pg"], yml.password,
                      D("mysql:metrics"), D("mysql:queries"), D("postgresql:metrics") }
<1>1. InUse \subseteq Bound BY DEF InUse, Accounts, DbServices
<1>2. IsFiniteSet(Bound) /\ Cardinality(Bound) <= 8
  <2> HIDE DEF D
  <2> DEFINE S1 == {account["localhost"]}
             S2 == S1 \cup {account["127.0.0.1"]}
             S3 == S2 \cup {account["%"]}
             S4 == S3 \cup {account["pg"]}
             S5 == S4 \cup {yml.password}
             S6 == S5 \cup {D("mysql:metrics")}
             S7 == S6 \cup {D("mysql:queries")}
             S8 == S7 \cup {D("postgresql:metrics")}
  <2>1. AtMost({}, 0) BY FS_EmptySet DEF AtMost
  <2>2. Bound = S8 OBVIOUS
  <2> HIDE DEF S1, S2, S3, S4, S5, S6, S7, S8
  <2>3. AtMost(S1, 1)
    <3>1. 0 \in Nat /\ 1 \in Nat /\ 1 = 0 + 1 OBVIOUS
    <3>2. S1 = {} \cup {account["localhost"]} BY DEF S1
    <3> QED BY ONLY <2>1, <3>1, <3>2, OneMore, ZenonT(60)
  <2>4. AtMost(S2, 2)
    <3>1. 1 \in Nat /\ 2 \in Nat /\ 2 = 1 + 1 OBVIOUS
    <3>2. S2 = S1 \cup {account["127.0.0.1"]} BY DEF S2
    <3> QED BY ONLY <2>3, <3>1, <3>2, OneMore, ZenonT(60)
  <2>5. AtMost(S3, 3)
    <3>1. 2 \in Nat /\ 3 \in Nat /\ 3 = 2 + 1 OBVIOUS
    <3>2. S3 = S2 \cup {account["%"]} BY DEF S3
    <3> QED BY ONLY <2>4, <3>1, <3>2, OneMore, ZenonT(60)
  <2>6. AtMost(S4, 4)
    <3>1. 3 \in Nat /\ 4 \in Nat /\ 4 = 3 + 1 OBVIOUS
    <3>2. S4 = S3 \cup {account["pg"]} BY DEF S4
    <3> QED BY ONLY <2>5, <3>1, <3>2, OneMore, ZenonT(60)
  <2>7. AtMost(S5, 5)
    <3>1. 4 \in Nat /\ 5 \in Nat /\ 5 = 4 + 1 OBVIOUS
    <3>2. S5 = S4 \cup {yml.password} BY DEF S5
    <3> QED BY ONLY <2>6, <3>1, <3>2, OneMore, ZenonT(60)
  <2>8. AtMost(S6, 6)
    <3>1. 5 \in Nat /\ 6 \in Nat /\ 6 = 5 + 1 OBVIOUS
    <3>2. S6 = S5 \cup {D("mysql:metrics")} BY DEF S6
    <3> QED BY ONLY <2>7, <3>1, <3>2, OneMore, ZenonT(60)
  <2>9. AtMost(S7, 7)
    <3>1. 6 \in Nat /\ 7 \in Nat /\ 7 = 6 + 1 OBVIOUS
    <3>2. S7 = S6 \cup {D("mysql:queries")} BY DEF S7
    <3> QED BY ONLY <2>8, <3>1, <3>2, OneMore, ZenonT(60)
  <2>10. AtMost(S8, 8)
    <3>1. 7 \in Nat /\ 8 \in Nat /\ 8 = 7 + 1 OBVIOUS
    <3>2. S8 = S7 \cup {D("postgresql:metrics")} BY DEF S8
    <3> QED BY ONLY <2>9, <3>1, <3>2, OneMore, ZenonT(60)
  <2> QED BY <2>2, <2>10 DEF AtMost
<1> HIDE DEF Bound
<1>3. \E w \in Passwords : w \notin InUse
  <2> SUFFICES ASSUME Passwords \subseteq Bound PROVE FALSE
    BY <1>1
  <2>1. IsFiniteSet(Passwords) /\ Cardinality(Passwords) <= Cardinality(Bound) BY <1>2, FS_Subset
  <2>2. Cardinality(Passwords) \in Nat /\ Cardinality(Bound) \in Nat BY <1>2, <2>1, FS_CardinalityType
  <2> QED BY <1>2, <2>1, <2>2, EnoughPasswords
<1> QED BY <1>3 DEF Fresh

LEMMA ForgottenJob ==
  ASSUME DInv, NEW p \in Procs, ForgetJob(p)
  PROVE  /\ job' \in [Procs -> AddRequests] /\ left' \in [Procs -> Seq(DbServices)]
         /\ login' \in [Procs -> Passwords \cup {NoPassword}] /\ new' \in [Procs -> Passwords \cup {NoPassword}]
         /\ plan' \in [Procs -> Seq(Accounts)] /\ added' \in [Procs -> SUBSET DbServices]
BY NoJobOK DEF DInv, DbTypeOK, ForgetJob

LEMMA QuitTypes ==
  ASSUME Typed, NEW p \in Procs, Turn(p), Quit(p)
  PROVE  Typed'
<1>1. TInv'
  BY NoTaskOK DEF Typed, TInv, Turn, ConfigTypeOK, Quit, Goto, configvars, shared, task, Locations, DbLocations, Renaming
<1>2. DbTypeOK' BY ForgottenJob DEF Typed, DInv, DbTypeOK, Quit, database
<1>3. /\ pc' = [pc EXCEPT ![p] = "idle"] /\ new' = [new EXCEPT ![p] = NoPassword]
      /\ left' = [left EXCEPT ![p] = << >>]
  BY DEF Quit, Goto, ForgetJob
<1> QED BY <1>1, <1>2, <1>3 DEF Typed, TInv, DInv, Turn, DbLocations, Locations

\* A step of add that leaves what ClientConfig keeps alone, but for pc.
LEMMA MovesTypes ==
  ASSUME TInv, NEW p \in Procs, Turn(p), NEW l \in DbLocations, Goto(p, l), pc[p] \in DbLocations,
         UNCHANGED << configvars, conf, commands >>
  PROVE  TInv'
BY DEF TInv, Turn, ConfigTypeOK, Goto, configvars, shared, task, Locations, DbLocations, Renaming

LEMMA GoTypes ==
  ASSUME Typed, NEW p \in Procs, Turn(p), NEW from \in DbLocations \ {"added", "remove"},
         NEW to \in DbLocations \ {"added", "remove"},
         Go(p, from, to), to \in {"grant", "schema", "store"} => new[p] \in Passwords
  PROVE  Typed'
<1>1. TInv' BY MovesTypes DEF Go, At, Typed
<1>2. DbTypeOK' BY DEF Typed, DInv, DbTypeOK, Go, database, adding
<1> QED BY <1>1, <1>2 DEF Typed, DInv, TInv, Go, Goto, At, adding

LEMMA PlanTypes ==
  ASSUME Typed, NEW p \in Procs, Turn(p), NEW from \in {"check", "sudo"}, NEW to \in {"grant", "sudogrant"},
         Plan(p, from, to), UNCHANGED faults \/ (faults < MaxFaults /\ faults' = faults + 1)
  PROVE  Typed'
<1>1. TInv'
  <2>1. faults' \in 0 .. MaxFaults BY CountedFault DEF Typed, TInv, ConfigTypeOK
  <2> QED BY <2>1 DEF Plan, At, Goto, Typed, TInv, ConfigTypeOK, shared, task, DbLocations, Locations, Renaming
<1>2. Fresh \in Passwords /\ Hosts(job[p].how) \in Seq(Accounts) BY FreshOK, HostsOK
<1>3. DbTypeOK' BY <1>2 DEF Plan, Typed, DInv, DbTypeOK, database
<1> QED BY <1>1, <1>2, <1>3 DEF Plan, Typed, DInv, TInv, DbTypeOK, Goto, At, DbLocations

LEMMA CheckTypes ==
  ASSUME Typed, NEW p \in Procs, Turn(p), NEW from \in {"check", "sudo"}, NEW to \in {"grant", "sudogrant"},
         Check(p, from, to)
  PROVE  Typed'
BY QuitTypes, PlanTypes DEF Check

LEMMA GrantTypes ==
  ASSUME Typed, NEW p \in Procs, Turn(p),
         \/ Grant(p, "grant", "schema") \/ Grant(p, "sudogrant", "sudoschema")
         \/ GrantSchema(p, "schema", "grant") \/ GrantSchema(p, "sudoschema", "sudogrant")
  PROVE  Typed'
<1>1. ASSUME NEW at \in {"grant", "sudogrant"}, NEW schemaat \in {"schema", "sudoschema"}, Grant(p, at, schemaat),
             at = "sudogrant" => schemaat = "sudoschema"
      PROVE  Typed'
  <2>1. TInv'
    <3>1. PICK l \in {at, schemaat} : Goto(p, l) BY <1>1 DEF Grant
    <3>2. UNCHANGED << configvars, conf, commands >> /\ pc[p] = at BY <1>1 DEF Grant, At
    <3> QED BY <1>1, <3>1, <3>2, MovesTypes DEF Typed, DbLocations
  <2>2. /\ account' = [account EXCEPT ![Head(plan[p])] = new[p]]
        /\ plan' = [plan EXCEPT ![p] = Tail(@)] /\ plan[p] # << >>
        /\ UNCHANGED << schema, dsn, stats, job, left, login, new, added >>
    BY <1>1 DEF Grant
  <2>3. plan[p] \in Seq(Accounts) /\ Tail(plan[p]) \in Seq(Accounts) BY <2>2 DEF Typed, DInv, DbTypeOK
  <2>4. DbTypeOK' BY <2>2, <2>3 DEF Typed, DInv, DbTypeOK
  <2>5. pc[p] = at /\ \E l \in {at, schemaat} : Goto(p, l) BY <1>1 DEF Grant, At
  <2> QED BY <1>1, <2>1, <2>2, <2>4, <2>5 DEF Typed, DInv, TInv, Goto, DbLocations
<1>2. ASSUME NEW from \in {"schema", "sudoschema"}, NEW to \in {"grant", "sudogrant"}, GrantSchema(p, from, to),
             from = "sudoschema" => to = "sudogrant"
      PROVE  Typed'
  <2>1. TInv' BY <1>2, MovesTypes DEF GrantSchema, At, Typed, DbLocations
  <2>2. DbTypeOK' BY <1>2 DEF Typed, DInv, DbTypeOK, GrantSchema, adding
  <2> QED BY <1>2, <2>1, <2>2 DEF Typed, DInv, TInv, Goto, GrantSchema, At, adding, DbLocations
<1> QED BY <1>1, <1>2

LEMMA TailLonger ==
  ASSUME NEW S, NEW s \in Seq(S), s # << >>
  PROVE  Tail(s) \in Seq(S) /\ (Len(s) # 1 => Tail(s) # << >>)
<1>1. Tail(s) \in Seq(S) /\ Len(Tail(s)) = Len(s) - 1 /\ Len(s) \in Nat OBVIOUS
<1>2. Len(<< >>) = 0 OBVIOUS
<1>3. Len(s) # 1 => Len(Tail(s)) # 0 BY <1>1
<1> QED BY <1>1, <1>2, <1>3

LEMMA NextPassTypes ==
  ASSUME DInv, NEW p \in Procs, NextPass(p), pc[p] \in {"duplicate", "install"},
         pc \in [Procs -> {"idle"} \cup Locations \cup DbLocations], UNCHANGED << job, plan >>,
         account' \in [Accounts -> Passwords \cup {NoPassword}], schema' \in BOOLEAN, stats' \in BOOLEAN,
         dsn' \in [DbServices -> DSNs \cup {Unset}], added' \in [Procs -> SUBSET DbServices]
  PROVE  DInv'
<1>1. /\ left' = [left EXCEPT ![p] = Tail(@)]
      /\ login' = [login EXCEPT ![p] = NoPassword] /\ new' = [new EXCEPT ![p] = NoPassword]
      /\ pc' = [pc EXCEPT ![p] = IF Len(left[p]) = 1 THEN "added" ELSE "init"]
  BY DEF NextPass, Goto
<1>2. left[p] \in Seq(DbServices) /\ left[p] # << >> BY DEF DInv, DbTypeOK, DbLocations
<1>3. Tail(left[p]) \in Seq(DbServices) /\ (Len(left[p]) # 1 => Tail(left[p]) # << >>)
  BY <1>2, TailLonger
<1>4. DbTypeOK' BY <1>1, <1>3 DEF DInv, DbTypeOK
<1> QED BY <1>1, <1>3, <1>4 DEF DInv, DbTypeOK

LEMMA InstallTypes ==
  ASSUME Typed, NEW p \in Procs, Turn(p), Install(p)
  PROVE  Typed'
<1> DEFINE s == Service(p)
           n == conf[p].name
           a == Default(n)
           u == NewInstance(s, a)
           queries == s \in QueriesServices
<1>1. /\ queries => Unknown(s) # {}
      /\ catalog' = [catalog EXCEPT ![n][s] = @ \cup {a}]
      /\ address' = [address EXCEPT ![n] = conf[p].addr]
      /\ agent' = IF queries /\ agent = Unset THEN conf[p].auth ELSE agent
      /\ units' = [units EXCEPT ![s] = IF @ # Unset THEN @ ELSE IF queries THEN agent' ELSE yml.auth]
      /\ keys' = IF queries
                   THEN keys \cup {[node |-> n, service |-> s, alias |-> a, uuid |-> u]} ELSE keys
      /\ qan' = IF queries THEN [qan EXCEPT ![u] = a] ELSE qan
      /\ files' = IF queries THEN [files EXCEPT ![u] = a] ELSE files
      /\ dsn' = [dsn EXCEPT ![s] = [how |-> job[p].how, password |-> Password(p)]]
      /\ stats' = IF s = "mysql:metrics" THEN ~ TooManyTables ELSE stats
      /\ added' = [added EXCEPT ![p] = @ \cup {s}]
      /\ NextPass(p) /\ pc[p] = "install"
      /\ UNCHANGED << yml, task, conf, commands, faults, account, schema, job, plan >>
  BY DEF Install, At
<1>2. n \in Names /\ a \in Aliases /\ conf[p].addr \in Addresses \cup {Unset} /\ conf[p].auth \in Auths
  BY <1>1, DefaultOK DEF Typed, TInv, ConfigTypeOK, Configs, DbLocations
<1>3. s \in DbServices /\ s \in Services
  <2>1. left[p] \in Seq(DbServices) /\ left[p] # << >> BY <1>1 DEF Typed, DInv, DbTypeOK, DbLocations
  <2>2. s \in DbServices BY <2>1 DEF Service
  <2> QED BY <2>2, DbConstants
<1>4. queries => u \in UUIDs
  <2>1. Unknown(s) \subseteq UUIDs BY DEF Unknown
  <2> QED BY <1>1, <2>1 DEF NewInstance
<1>5. Password(p) \in Passwords \cup {NoPassword} BY DEF Typed, DInv, DbTypeOK, Password
<1>6. job[p].how \in Hows BY DbConstants DEF Typed, DInv, DbTypeOK, Jobs
<1> HIDE DEF s, n, a, u, queries
<1>7. catalog' \in [Names -> [Services -> SUBSET Aliases]] BY <1>1, <1>2, <1>3 DEF Typed, TInv, ConfigTypeOK
<1>8. address' \in [Names -> Addresses \cup {Unset}] BY <1>1, <1>2, <1>3 DEF Typed, TInv, ConfigTypeOK
<1>9. keys' \subseteq Keys
  BY <1>1, <1>2, <1>4, KeyRecord DEF Typed, TInv, ConfigTypeOK, queries
<1>10. qan' \in [UUIDs -> Aliases \cup {Unset}] /\ files' \in [UUIDs -> Aliases \cup {Unset}]
  BY <1>1, <1>2, <1>4 DEF Typed, TInv, ConfigTypeOK
<1>11. agent' \in Auths \cup {Unset} BY <1>1, <1>2 DEF Typed, TInv, ConfigTypeOK
<1>12. units' \in [Services -> Auths \cup {Unset}]
  <2>1. yml.auth \in Auths BY DEF Typed, TInv, ConfigTypeOK, Configs
  <2> QED BY <1>1, <1>11, <2>1 DEF Typed, TInv, ConfigTypeOK
<1>13. dsn' \in [DbServices -> DSNs \cup {Unset}]
  <2>1. [how |-> job[p].how, password |-> Password(p)] \in DSNs BY <1>5, <1>6 DEF DSNs
  <2> QED BY <1>1, <2>1 DEF Typed, DInv, DbTypeOK
<1>14. stats' \in BOOLEAN BY <1>1 DEF Typed, DInv, DbTypeOK, TooManyTables
<1>15. added' \in [Procs -> SUBSET DbServices] BY <1>1, <1>3 DEF Typed, DInv, DbTypeOK
<1>16. DInv' BY <1>1, <1>13, <1>14, <1>15, NextPassTypes DEF Typed, TInv, DInv, DbTypeOK
<1>17. \E l \in {"added", "init"} : Goto(p, l) BY <1>1 DEF NextPass
<1>18. TInv'
  BY <1>1, <1>7, <1>8, <1>9, <1>10, <1>11, <1>12, <1>17
  DEF Typed, TInv, Turn, ConfigTypeOK, Goto, task, Locations, DbLocations, Renaming
<1> QED BY <1>16, <1>18 DEF Typed

LEMMA DbTypes ==
  ASSUME Typed, NEW p \in Procs, Turn(p), DbStep(p)
  PROVE  Typed'
<1> USE DEF DbLocations, At
<1>1. CASE BeginAdd(p)
  <2>1. PICK r \in AddRequests : job' = [job EXCEPT ![p] = r] /\ left' = [left EXCEPT ![p] = r.services]
    BY <1>1 DEF BeginAdd
  <2>2. r.services \in Seq(DbServices) /\ r.services # << >> BY DbConstants DEF Jobs
  <2>3. Load \in Configs /\ Load.name \in Names
    BY <1>1 DEF Load, BeginAdd, Usable, Typed, TInv, ConfigTypeOK, Configs
  <2>4. commands' \in 0 .. MaxCommands BY <1>1, CountedCommand DEF BeginAdd, Typed, TInv, ConfigTypeOK
  <2>5. TInv'
    BY <1>1, <2>3, <2>4
    DEF BeginAdd, Typed, TInv, Turn, ConfigTypeOK, Goto, configvars, shared, task, Locations, Renaming
  <2>6. DbTypeOK' BY <1>1, <2>1, <2>2 DEF BeginAdd, Typed, DInv, DbTypeOK, database
  <2> QED BY <1>1, <2>1, <2>2, <2>5, <2>6 DEF BeginAdd, Typed, DInv, TInv, DbTypeOK, Goto
<1>2. CASE CheckFlags(p)
  BY <1>2, QuitTypes, GoTypes DEF CheckFlags
<1>3. ASSUME NEW w \in Passwords \cup {NoPassword}, LogIn(p, w) PROVE Typed'
  <2>1. TInv' BY <1>3, MovesTypes DEF LogIn, Typed
  <2>2. DbTypeOK' BY <1>3 DEF LogIn, Typed, DInv, DbTypeOK, database
  <2> QED BY <1>3, <2>1, <2>2 DEF LogIn, Typed, DInv, TInv, Goto
<1>4. CASE Access(p)
  <2>1. conf[p].password \in Passwords \cup {NoPassword} BY DEF Typed, TInv, ConfigTypeOK, Configs
  <2> QED BY <1>3, <1>4, <2>1 DEF Access
<1>5. CASE NoAccess(p) BY <1>5, QuitTypes, GoTypes DEF NoAccess
<1>6. CASE GetInfo(p)
  <2>1. (IF Creates(p) THEN "check" ELSE "tables") \in {"check", "tables"} OBVIOUS
  <2> QED BY <1>6, <2>1, QuitTypes, GoTypes DEF GetInfo
<1>7. CASE CheckUser(p) BY <1>7, CheckTypes DEF CheckUser
<1>8. CASE GrantUser(p) BY <1>8, GrantTypes DEF GrantUser
<1>9. CASE Granted(p) BY <1>9, GoTypes DEF Granted
<1>10. CASE Verify(p) BY <1>10, GoTypes DEF Verify
<1>11. CASE CheckSudo(p) BY <1>11, CheckTypes DEF CheckSudo
<1>12. CASE GrantSudo(p) BY <1>12, GrantTypes DEF GrantSudo
<1>13. CASE VerifySudo(p) BY <1>13, QuitTypes DEF VerifySudo
<1>14. CASE CountTables(p)
  <2>1. new[p] \in Passwords \cup {NoPassword} BY DEF Typed, DInv, DbTypeOK
  <2>2. CASE new[p] # NoPassword BY <1>14, <2>1, <2>2, GoTypes DEF CountTables
  <2>3. CASE new[p] = NoPassword BY <1>14, <2>3, GoTypes DEF CountTables
  <2> QED BY <2>2, <2>3
<1>15. CASE Store(p)
  <2>1. /\ pc[p] = "store"
        /\ conf' = [conf EXCEPT ![p].password = new[p]]
        /\ yml' = [conf[p] EXCEPT !.password = new[p]]
        /\ Goto(p, "duplicate")
        /\ UNCHANGED << catalog, address, keys, qan, files, agent, units, task, faults, commands, database, adding >>
    BY <1>15 DEF Store
  <2>2. new[p] \in Passwords BY <2>1 DEF Typed, DInv
  <2>3. [conf[p] EXCEPT !.password = new[p]] \in Configs /\ conf[p] \in Configs
    BY <2>2 DEF Typed, TInv, ConfigTypeOK, Configs
  <2>4. conf' = [conf EXCEPT ![p] = [conf[p] EXCEPT !.password = new[p]]] BY <2>1
  <2>5. conf' \in [Procs -> Configs] /\ conf'[p].name = conf[p].name /\ \A q \in Procs \ {p} : conf'[q] = conf[q]
    BY <2>3, <2>4 DEF Typed, TInv, ConfigTypeOK, Configs
  <2>6. TInv'
    BY <2>1, <2>3, <2>5 DEF Typed, TInv, Turn, ConfigTypeOK, Goto, task, Locations, Renaming
  <2>7. DbTypeOK' BY <2>1 DEF Typed, DInv, DbTypeOK, database, adding
  <2> QED BY <2>1, <2>6, <2>7 DEF Typed, DInv, TInv, Goto, adding
<1>16. CASE CheckDuplicate(p)
  <2>1. CASE Quit(p) BY <2>1, QuitTypes
  <2>2. CASE Go(p, "duplicate", "install") BY <2>2, GoTypes
  <2>3. CASE /\ pc[p] = "duplicate" /\ NextPass(p)
             /\ UNCHANGED << configvars, conf, commands, database, job, plan, added >>
    <3>1. DInv' BY <2>3, NextPassTypes DEF Typed, TInv, DInv, DbTypeOK, database
    <3>2. TInv' BY <2>3, MovesTypes DEF NextPass, Typed
    <3> QED BY <3>1, <3>2 DEF Typed
  <2> QED BY <1>16, <2>1, <2>2, <2>3 DEF CheckDuplicate
<1>17. CASE Install(p) BY <1>17, InstallTypes
<1>18. CASE FinishAdd(p) BY <1>18, QuitTypes DEF FinishAdd
<1>19. CASE BeginRemoveAll(p)
  <2>1. Load \in Configs /\ Load.name \in Names
    BY <1>19 DEF Load, BeginRemoveAll, Usable, Typed, TInv, ConfigTypeOK, Configs
  <2>2. commands' \in 0 .. MaxCommands BY <1>19, CountedCommand DEF BeginRemoveAll, Typed, TInv, ConfigTypeOK
  <2>3. TInv'
    BY <1>19, <2>1, <2>2
    DEF BeginRemoveAll, Typed, TInv, Turn, ConfigTypeOK, Goto, shared, Locations, Renaming, Units
  <2>4. DbTypeOK' BY <1>19 DEF BeginRemoveAll, Typed, DInv, DbTypeOK, dbvars, database, adding
  <2> QED BY <1>19, <2>3, <2>4 DEF BeginRemoveAll, Typed, DInv, TInv, Goto, dbvars, adding
<1>20. CASE RemoveService(p)
  <2>1. PICK s \in todo[p] :
          /\ catalog' = [catalog EXCEPT ![conf[p].name][s] = {}]
          /\ keys' = keys \ KeysOf(conf[p].name, s)
          /\ qan' = [u \in UUIDs |-> IF \E k \in KeysOf(conf[p].name, s) : k.uuid = u THEN Unset ELSE qan[u]]
          /\ files' = [u \in UUIDs |-> IF \E k \in KeysOf(conf[p].name, s) : k.uuid = u THEN Unset ELSE files[u]]
          /\ units' = [units EXCEPT ![s] = Unset]
          /\ todo' = [todo EXCEPT ![p] = @ \ {s}]
    BY <1>20 DEF RemoveService, Visited
  <2>2. catalog' \in [Names -> [Services -> SUBSET Aliases]] BY <2>1 DEF Typed, TInv, ConfigTypeOK
  <2>3. qan' \in [UUIDs -> Aliases \cup {Unset}] /\ files' \in [UUIDs -> Aliases \cup {Unset}]
    BY <2>1 DEF Typed, TInv, ConfigTypeOK
  <2>4. TInv'
    BY <1>20, <2>1, <2>2, <2>3 DEF RemoveService, Typed, TInv, Turn, ConfigTypeOK, Renaming
  <2>5. DbTypeOK' BY <1>20 DEF RemoveService, Typed, DInv, DbTypeOK, adding
  <2> QED BY <1>20, <2>4, <2>5 DEF RemoveService, Typed, DInv, TInv, adding
<1>21. CASE NotRemovable(p)
  <2>1. TInv' BY <1>21, ExitTypes DEF NotRemovable, Leave, shared, Typed, TInv, ConfigTypeOK
  <2>2. DbTypeOK' BY <1>21 DEF NotRemovable, Typed, DInv, DbTypeOK, dbvars, database, adding
  <2> QED BY <1>21, <2>1, <2>2 DEF NotRemovable, Leave, Exit, Typed, DInv, TInv, Goto, dbvars, adding
<1>22. CASE ClearPassword(p)
  <2>1. [conf[p] EXCEPT !.password = NoPassword] \in Configs BY DEF Typed, TInv, ConfigTypeOK, Configs
  <2>2. TInv' BY <1>22, <2>1, ExitTypes DEF ClearPassword, Typed, TInv, ConfigTypeOK
  <2>3. DbTypeOK' BY <1>22 DEF ClearPassword, Typed, DInv, DbTypeOK, dbvars, database, adding
  <2> QED BY <1>22, <2>2, <2>3 DEF ClearPassword, Exit, Typed, DInv, TInv, Goto, dbvars, adding
<1> QED BY <1>1, <1>2, <1>4, <1>5, <1>6, <1>7, <1>8, <1>9, <1>10, <1>11, <1>12, <1>13, <1>14, <1>15,
           <1>16, <1>17, <1>18, <1>19, <1>20, <1>21, <1>22 DEF DbStep

LEMMA FailAddTypes ==
  ASSUME Typed, NEW p \in Procs, Turn(p), FailAdd(p)
  PROVE  Typed'
<1>1. faults' \in 0 .. MaxFaults BY CountedFault DEF FailAdd, Typed, TInv, ConfigTypeOK
<1>2. TInv' BY <1>1, ExitTypes DEF FailAdd, shared, Typed, TInv, ConfigTypeOK
<1>3. DbTypeOK' BY ForgottenJob DEF FailAdd, Typed, DInv, DbTypeOK, database
<1>4. pc' = [pc EXCEPT ![p] = "idle"] /\ new' = [new EXCEPT ![p] = NoPassword] /\ left' = [left EXCEPT ![p] = << >>]
  BY DEF FailAdd, Exit, Goto, ForgetJob
<1> QED BY <1>2, <1>3, <1>4 DEF Typed, DInv, TInv, Turn, DbLocations

LEMMA ConfigStepTypes ==
  ASSUME Typed, NEW p \in Procs, Turn(p), ConfigStep(p) \/ Fail(p), UNCHANGED dbvars
  PROVE  Typed'
<1>1. TInv'
  <2>1. CASE ConfigStep(p) BY <2>1, ConfigTypes DEF Typed
  <2>2. CASE Fail(p)
    <3>1. faults' \in 0 .. MaxFaults BY <2>2, CountedFault DEF Fail, Typed, TInv, ConfigTypeOK
    <3> QED BY <2>2, <3>1, ExitTypes DEF Fail, shared, Typed, TInv, ConfigTypeOK
  <2> QED BY <2>1, <2>2
<1>2. DbTypeOK' BY DEF Typed, DInv, DbTypeOK, dbvars, database, adding
<1>3. UNCHANGED << new, left >> BY DEF dbvars, adding
<1>4. \A q \in Procs : pc'[q] = pc[q] \/ pc'[q] \notin DbLocations
  <2>1. UNCHANGED pc \/ \E l \in Locations \cup {"idle"} : pc' = [pc EXCEPT ![p] = l]
    BY ConfigMoves DEF Goes, Fail, Exit, Goto
  <2>2. \A l \in Locations \cup {"idle"} : l \notin DbLocations BY DEF Locations, DbLocations
  <2> QED BY <2>1, <2>2 DEF Typed, TInv
<1> QED BY <1>1, <1>2, <1>3, <1>4 DEF Typed, DInv, DbLocations

-----------------------------------------------------------------------------
(* The theorem *)

LEMMA TypesInit == Init => Typed
<1> SUFFICES ASSUME Init PROVE Typed
  OBVIOUS
<1>1. PICK c \in Catalogs, configured \in BOOLEAN, own \in SUBSET Owned : Beginning(c, configured, own)
  BY DEF Init
<1> DEFINE a == CHOOSE x \in LocalAddresses : TRUE
           named == { u \in UUIDs : u.alias \in c[u.service] }
<1>2. Hostname \in Names /\ a \in Addresses /\ NoAuth \in Auths BY ConfigConstants
<1>3. (CHOOSE w \in Passwords : TRUE) \in Passwords BY FreshOK
<1>4. yml \in Configs BY <1>1, <1>2, NoTaskOK DEF Beginning, NoConf, Configs
<1>5. c \in [Services -> SUBSET Aliases] BY ConfigConstants
<1>6. \A u \in UUIDs : u.service \in QueriesServices /\ u.alias \in Aliases BY DEF UUIDs
<1>7. keys \subseteq Keys
  <2>1. \A u \in named : [node |-> Hostname, service |-> u.service, alias |-> u.alias, uuid |-> u] \in Keys
    BY <1>2, <1>6, KeyRecord
  <2> QED BY <1>1, <2>1 DEF Beginning
<1>8. /\ catalog \in [Names -> [Services -> SUBSET Aliases]] /\ address \in [Names -> Addresses \cup {Unset}]
      /\ qan \in [UUIDs -> Aliases \cup {Unset}] /\ files \in [UUIDs -> Aliases \cup {Unset}]
      /\ agent \in Auths \cup {Unset} /\ units \in [Services -> Auths \cup {Unset}]
      /\ account \in [Accounts -> Passwords \cup {NoPassword}]
  BY <1>1, <1>2, <1>3, <1>5, <1>6, NoTaskOK DEF Beginning
<1>9. /\ schema = FALSE /\ stats = TRUE /\ dsn = [s \in DbServices |-> Unset]
      /\ pc = [p \in Procs |-> "idle"] /\ conf = [p \in Procs |-> NoConf]
      /\ req = [p \in Procs |-> NoRequest] /\ seen = [p \in Procs |-> Nothing]
      /\ todo = [p \in Procs |-> {}] /\ cur = [p \in Procs |-> NoService]
      /\ ktodo = [p \in Procs |-> {}] /\ key = [p \in Procs |-> NoKey]
      /\ errs = [p \in Procs |-> FALSE]
      /\ job = [p \in Procs |-> NoJob] /\ left = [p \in Procs |-> << >>]
      /\ login = [p \in Procs |-> NoPassword] /\ new = [p \in Procs |-> NoPassword]
      /\ plan = [p \in Procs |-> << >>] /\ added = [p \in Procs |-> {}]
      /\ commands = 0 /\ faults = 0
  BY <1>1 DEF Beginning
<1>10. 0 \in 0 .. MaxCommands /\ 0 \in 0 .. MaxFaults
  <2>1. MaxCommands \in Nat /\ MaxFaults \in Nat BY ConfigConstants
  <2> QED BY <2>1
<1>11. ConfigTypeOK BY <1>4, <1>7, <1>8, <1>9, <1>10, NoTaskOK DEF ConfigTypeOK
<1>12. DbTypeOK
  <2>1. schema \in BOOLEAN /\ stats \in BOOLEAN BY <1>9
  <2>2. job \in [Procs -> AddRequests] BY <1>9, NoJobOK
  <2>3. dsn \in [DbServices -> DSNs \cup {Unset}] BY <1>9
  <2>4. /\ new \in [Procs -> Passwords \cup {NoPassword}] /\ login \in [Procs -> Passwords \cup {NoPassword}]
        /\ left \in [Procs -> Seq(DbServices)] /\ plan \in [Procs -> Seq(Accounts)]
        /\ added \in [Procs -> SUBSET DbServices]
    BY <1>9
  <2> QED BY <1>8, <2>1, <2>2, <2>3, <2>4 DEF DbTypeOK
<1> QED BY <1>9, <1>11, <1>12 DEF Typed, TInv, DInv, Renaming, DbLocations

LEMMA TypesNext == IInv /\ Typed /\ [Next]_vars => Typed'
<1> SUFFICES ASSUME IInv, Typed, [Next]_vars PROVE Typed'
  OBVIOUS
<1>1. CASE UNCHANGED vars
  <2>1. TInv'
    BY <1>1 DEF vars, configvars, shared, task, Typed, TInv, ConfigTypeOK
  <2>2. DInv' BY <1>1 DEF vars, dbvars, database, adding, Typed, DInv, DbTypeOK
  <2> QED BY <2>1, <2>2 DEF Typed
<1>2. CASE Halt BY <1>1, <1>2 DEF Halt
<1>3. ASSUME NEW p \in Procs, ConfigStep(p) \/ Fail(p), UNCHANGED dbvars PROVE Typed'
  <2>1. Turn(p) BY <1>3, ConfigTurn DEF IInv, Alone, Turn, Fail, Locations
  <2> QED BY <1>3, <2>1, ConfigStepTypes
<1>4. ASSUME NEW p \in Procs, DbStep(p) PROVE Typed' BY <1>4, DbTurn, DbTypes DEF IInv
<1>5. ASSUME NEW p \in Procs, FailAdd(p) PROVE Typed'
  <2>1. Turn(p) BY <1>5 DEF IInv, Alone, Turn, FailAdd, DbLocations
  <2> QED BY <1>5, <2>1, FailAddTypes
<1>6. ASSUME NEW p \in Procs, CheckBlind(p) PROVE Typed'
  <2>1. Turn(p) BY <1>6, BlindTurn DEF IInv
  <2> QED BY <1>6, <2>1, PlanTypes DEF CheckBlind
<1> QED BY <1>1, <1>2, <1>3, <1>4, <1>5, <1>6 DEF Next

LEMMA TypedAlways == Spec => []IInv /\ []Typed
<1>1. Spec => []IInv BY InvInit, InvNext, PTL DEF Spec
<1> QED BY <1>1, TypesInit, TypesNext, PTL DEF Spec

LEMMA TypedTypeOK == Typed => TypeOK
<1>1. NoPassword \notin Passwords BY ConfigConstants
<1> QED BY <1>1 DEF Typed, TInv, DInv, TypeOK, At

\* Every variable keeps its type; a password that is granted or stored has been generated.
THEOREM ClientTypeCorrect == Spec => []TypeOK
BY TypedAlways, TypedTypeOK, PTL

-----------------------------------------------------------------------------
(* The addresses *)

Settling == {"repair", "address", "bind", "sync", "mysql", "mongodb", "write"}

\* The services under a name whose units run are where their node says that they are.
Sited(n, a) == \A s \in Registered(n) \cap Units : address[n] = a

\* What a command knows of pmm.yml and of Consul, by where it is.
Follows(p) ==
  /\ pc[p] \in Renaming \cup DbLocations \cup {"name"} =>
       conf[p].name = yml.name /\ conf[p].addr = yml.addr
  /\ pc[p] = "source" => Registered(req[p].name) = {}
  /\ pc[p] \in Renaming => req[p].name # yml.name /\ Sited(req[p].name, yml.addr)
  /\ pc[p] = "repair" => yml.name = Unset
  /\ pc[p] \in Settling => /\ conf[p].name \in Names
                           /\ yml.name = Unset \/ (conf[p].addr # Unset /\ Sited(conf[p].name, conf[p].addr))
  /\ pc[p] \in Settling \ {"repair", "address"} => conf[p].addr # Unset
  /\ pc[p] = "each" => todo[p] \subseteq Units

AInv ==
  /\ yml.name = Unset => Units = {}
  /\ yml.name # Unset => yml.addr # Unset
  /\ AddressAgrees
  /\ \A p \in Procs : Follows(p)

\* A step that neither registers a service nor starts a unit, on the way or to the end.
LEMMA FewerKeeps ==
  ASSUME Typed, AInv, NEW p \in Procs, Turn(p), NEW l, Goto(p, l), UNCHANGED << yml, address, req >>,
         Units' \subseteq Units, \A n \in Names : Registered(n)' \subseteq Registered(n),
         \/ UNCHANGED conf /\ l \in Renaming \ {"source"} /\ pc[p] \in Renaming
         \/ /\ UNCHANGED conf /\ l \in Settling \ {"repair"} /\ pc[p] \in Settling
            /\ l # "address" => pc[p] \notin {"repair", "address"}
  PROVE  AInv'
<1>1. yml.name \in Names \cup {Unset} BY DEF Typed, TInv, ConfigTypeOK, Configs
<1>2. pc' = [pc EXCEPT ![p] = l] /\ pc \in [Procs -> {"idle"} \cup Locations \cup DbLocations]
  BY DEF Goto, Typed, TInv
<1>3. AddressAgrees' /\ (yml'.name = Unset => Units' = {}) /\ (yml'.name # Unset => yml'.addr # Unset)
  BY <1>1 DEF AInv, AddressAgrees
<1>4. \A q \in Procs \ {p} : Follows(q)'
  BY <1>2 DEF Turn, Follows, Renaming, DbLocations, Settling
<1>5. Follows(p)'
  <2>2. CASE UNCHANGED conf /\ l \in Renaming \ {"source"} /\ pc[p] \in Renaming
    <3>1. req[p].name \in Names BY <2>2 DEF Typed, TInv
    <3> QED BY <1>2, <2>2, <3>1 DEF AInv, Follows, Sited, Renaming, DbLocations, Settling
  <2>3. CASE /\ UNCHANGED conf /\ l \in Settling \ {"repair"} /\ pc[p] \in Settling
             /\ l # "address" => pc[p] \notin {"repair", "address"}
    <3>1. Follows(p) BY DEF AInv
    <3> QED BY <1>2, <2>3, <3>1 DEF Follows, Sited, Renaming, DbLocations, Settling
  <2> QED BY <2>2, <2>3
<1> QED BY <1>3, <1>4, <1>5 DEF AInv

LEMMA LeavingKeeps ==
  ASSUME Typed, AInv, NEW p \in Procs, Turn(p), Leave(p)
  PROVE  AInv'
<1> USE DEF AInv, Leave, Exit, ForgetTask, shared, Goto
<1>1. yml.name \in Names \cup {Unset} /\ pc \in [Procs -> {"idle"} \cup Locations \cup DbLocations]
  BY DEF Typed, TInv, ConfigTypeOK, Configs
<1>2. AddressAgrees' BY DEF AddressAgrees, Registered, Units
<1>3. \A q \in Procs : Follows(q)'
  BY <1>1 DEF Follows, Turn, Renaming, DbLocations, Settling
<1> QED BY <1>2, <1>3 DEF Units

LEMMA AddressConfig ==
  ASSUME Typed, AInv, NEW p \in Procs, Turn(p), ConfigStep(p)
  PROVE  AInv'
<1> USE DEF AInv, AddressAgrees, Follows, Sited, Registered, Units, Settling, Renaming, DbLocations, Typed, TInv, ConfigTypeOK,
     At, Goto, shared, task, Turn, Locations
<1>a. /\ Unset \notin Names /\ Unset \notin Addresses BY ConfigConstants
<1>1. CASE NameTaken(p) BY <1>1, LeavingKeeps DEF NameTaken
<1>2. CASE KeepName(p) BY <1>2, <1>a DEF KeepName, Move, Configs
<1>3. CASE InitialName(p)
  <2>1. PICK n \in Names, l \in {"repair", "address"} : conf' = [conf EXCEPT ![p].name = n] /\ pc' = [pc EXCEPT ![p] = l]
    BY <1>3, ConfigConstants, ZenonT(60) DEF InitialName, SetName, Requests
  <2>2. conf'[p] = [conf[p] EXCEPT !.name = n] /\ conf' \in [Procs -> Configs] BY <2>1, OptionSet
  <2>3. conf'[p].name = n /\ yml.name = Unset BY <1>3, <2>2 DEF InitialName, Configs
  <2> QED BY <1>3, <1>a, <2>1, <2>3, SMTT(30) DEF InitialName
<1>4. CASE BeginConfig(p) BY <1>4, <1>a DEF BeginConfig, Ready, ServerOptions, Load, Configs, Requests
<1>5. ASSUME NEW gone, NEW orphans, Repairs(p, gone, orphans) PROVE AInv'
  <2>1. \A n \in Names : Registered(n)' \subseteq Registered(n)
    <3> DEFINE kept == [s \in Services |-> IF s \in gone THEN {} ELSE catalog[conf[p].name][s]]
    <3>1. catalog' = [catalog EXCEPT ![conf[p].name] = kept] BY <1>5 DEF Repairs
    <3>2. \A s \in Services : kept[s] \subseteq catalog[conf[p].name][s] OBVIOUS
    <3> QED BY <3>1, <3>2
  <2>2. Units' \subseteq Units BY <1>5 DEF Repairs
  <2>3. Goto(p, "address") /\ pc[p] = "repair" /\ UNCHANGED << yml, address, req, conf >> BY <1>5 DEF Repairs
  <2> QED BY <2>1, <2>2, <2>3, FewerKeeps
<1>6. CASE CheckTarget(p)
  <2>1. CASE Leave(p) BY <2>1, LeavingKeeps
  <2>2. CASE Registered(req[p].name) = {} /\ Renames(p) /\ Move(p, "name", "source")
    BY <1>a, <2>2 DEF Move, Renames, Configs, Requests
  <2> QED BY <1>6, <2>1, <2>2 DEF CheckTarget
<1>7. CASE CheckSource(p) BY <1>7, <1>a, SMTT(30) DEF CheckSource, SetName, Configs, Requests, Exit, ForgetTask, Leave, Renames
<1>8. CASE RegisterNew(p) BY <1>8, <1>a DEF RegisterNew
<1>9. CASE RegisterFails(p) BY <1>9, <1>a DEF RegisterFails, Erred, Visited
<1>10. CASE DeregisterOld(p)
  <2>1. /\ catalog' = [catalog EXCEPT ![conf[p].name][cur[p]] = {}]
        /\ Goto(p, "keys") /\ pc[p] = "dereg" /\ UNCHANGED << yml, address, units, conf, req >>
    BY <1>10 DEF DeregisterOld
  <2>2. \A n \in Names : Registered(n)' \subseteq Registered(n) BY <2>1
  <2>3. Units' \subseteq Units BY <2>1
  <2> QED BY <2>1, <2>2, <2>3, FewerKeeps
<1>11. CASE ListKeys(p) BY <1>11, <1>a DEF ListKeys
<1>12. CASE GetKey(p) BY <1>12, <1>a DEF GetKey
<1>13. CASE GetFails(p) BY <1>13, <1>a DEF GetFails, Erred
<1>14. CASE NextService(p) BY <1>14, <1>a DEF NextService, Move
<1>15. CASE UpdateInstance(p) BY <1>15, <1>a DEF UpdateInstance
<1>16. CASE WriteInstance(p) BY <1>16, <1>a DEF WriteInstance
<1>17. CASE PutKey(p) BY <1>17, <1>a DEF PutKey
<1>18. CASE DeleteKey(p) BY <1>18, <1>a DEF DeleteKey
<1>19. CASE CallFails(p)
  <2>1. AfterError[pc[p]] \in Renaming \ {"source"} /\ pc[p] \in Renaming BY <1>19 DEF CallFails, AfterError
  <2>2. Goto(p, AfterError[pc[p]]) /\ UNCHANGED << shared, conf, req >> BY <1>19 DEF CallFails
  <2>3. Units' \subseteq Units /\ \A n \in Names : Registered(n)' \subseteq Registered(n) BY <2>2
  <2> QED BY <2>1, <2>2, <2>3, FewerKeeps
<1>20. CASE DropNode(p) BY <1>20, <1>a DEF DropNode, SetName, Nothing, Configs, Requests
<1>21. CASE InvalidName(p) BY <1>21, LeavingKeeps DEF InvalidName
<1>22. CASE FirstAddress(p) BY <1>22, <1>a DEF FirstAddress, TakeAddress, Configs, Requests
<1>23. CASE NotDetected(p) BY <1>23, LeavingKeeps DEF NotDetected
<1>24. CASE KeepAddress(p) BY <1>24, <1>a DEF KeepAddress, TakeAddress, Configs
<1>25. CASE ChangeAddress(p)
  <2>1. CASE Leave(p) BY <2>1, LeavingKeeps
  <2>2. CASE ChangesAddress(p) /\ ~ Pinned(p) /\ TakeAddress(p, req[p].addr)
    <3>1. req[p].addr \in Addresses BY <2>2 DEF ChangesAddress, Requests
    <3>2. /\ conf' = [conf EXCEPT ![p].addr = req[p].addr] /\ conf'[p] = [conf[p] EXCEPT !.addr = req[p].addr]
          /\ conf' \in [Procs -> Configs]
      BY <2>2, <3>1, OptionSet DEF TakeAddress
    <3>3. conf'[p].addr = req[p].addr /\ conf'[p].name = conf[p].name BY <3>2 DEF Configs
    <3>4. Registered(conf[p].name) = {} BY <2>2 DEF Pinned
    <3> QED BY <1>a, <2>2, <3>1, <3>2, <3>3, <3>4 DEF TakeAddress
  <2> QED BY <1>25, <2>1, <2>2 DEF ChangeAddress
<1>26. CASE SetBind(p)
  <2>1. CASE Leave(p) BY <2>1, LeavingKeeps
  <2>2. ASSUME NEW b \in LocalAddresses, conf' = [conf EXCEPT ![p].bind = b], Goto(p, "sync"), pc[p] = "bind",
           UNCHANGED << shared, task, commands, faults >>
        PROVE AInv'
    <3>1. b \in Addresses BY ConfigConstants
    <3>2. conf'[p] = [conf[p] EXCEPT !.bind = b] /\ conf' \in [Procs -> Configs] BY <2>2, <3>1, OptionSet
    <3>3. conf'[p].addr = conf[p].addr /\ conf'[p].name = conf[p].name BY <3>2 DEF Configs
    <3> QED BY <2>2, <3>2, <3>3
  <2> QED BY <1>26, <2>1, <2>2 DEF SetBind
<1>27. CASE SyncAgent(p) BY <1>27, <1>a DEF SyncAgent
<1>28. CASE WriteConfig(p) BY <1>28, <1>a DEF WriteConfig
<1>29. CASE RestartEach(p) BY <1>29, <1>a DEF RestartEach, Restart, Loads, Visited
<1>30. CASE Configured(p) BY <1>30, <1>a DEF Configured, Move
<1>31. CASE Finish(p) BY <1>31, <1>a DEF Finish, Exit, ForgetTask
<1>32. ASSUME NEW s, NEW from \in {"mysql", "mongodb"}, NEW to \in {"mongodb", "write"}, RestartAgent(p, s, from, to)
       PROVE  AInv'
  <2>1. CASE Leave(p) BY <2>1, LeavingKeeps
  <2>2. CASE Move(p, from, to) BY <2>2, FewerKeeps DEF Move
  <2>3. CASE /\ s \in Registered(conf[p].name) \cap Units /\ At(p, from) /\ Restart(s) /\ Goto(p, to)
             /\ UNCHANGED << yml, catalog, address, keys, qan, files, agent, conf, task, commands, faults >>
    <3>1. Units' \subseteq Units BY <2>3 DEF Restart
    <3> QED BY <2>3, <3>1, FewerKeeps
  <2> QED BY <1>32, <2>1, <2>2, <2>3 DEF RestartAgent
<1> QED BY <1>1, <1>2, <1>3, <1>4, <1>5, <1>6, <1>7, <1>8, <1>9, <1>10, <1>11, <1>12, <1>13, <1>14, <1>15, <1>16, <1>17, <1>18, <1>19, <1>20, <1>21, <1>22, <1>23, <1>24, <1>25, <1>26, <1>27, <1>28, <1>29, <1>30, <1>31, <1>32 DEF ConfigStep, Repair, RepairFails

LEMMA LoadKeeps == yml \in Configs => Load \in Configs /\ Load.name = yml.name /\ Load.addr = yml.addr
                                      /\ Load.password = yml.password
BY DEF Load, Configs

\* A step of add that leaves pmm.yml, the catalog and the units alone, or ends the command.
LEMMA PassingSites ==
  ASSUME Typed, AInv, NEW p \in Procs, Turn(p), pc[p] \in DbLocations, UNCHANGED << yml, catalog, address, units >>,
         \/ \E l \in DbLocations : Goto(p, l) /\ UNCHANGED conf
         \/ Goto(p, "idle")
  PROVE  AInv'
<1>1. pc \in [Procs -> {"idle"} \cup Locations \cup DbLocations] BY DEF Typed, TInv
<1>2. AddressAgrees' /\ Units' = Units BY DEF AInv, AddressAgrees, Registered, Units
<1>3. \A q \in Procs : Follows(q)'
  BY <1>1 DEF AInv, Follows, Turn, Renaming, DbLocations, Settling, Goto
<1> QED BY <1>2, <1>3 DEF AInv

LEMMA AddressDb ==
  ASSUME Typed, AInv, NEW p \in Procs, Turn(p), DbStep(p)
  PROVE  AInv'
<1> USE DEF Go, At, configvars, shared, DbLocations
<1>a. Unset \notin Names /\ Unset \notin Addresses BY ConfigConstants
<1>b. yml \in Configs BY DEF Typed, TInv, ConfigTypeOK
<1>1. CASE BeginAdd(p) \/ BeginRemoveAll(p)
  <2>1. PICK l \in {"init", "remove"} : Goto(p, l) /\ conf' = [conf EXCEPT ![p] = Load]
    BY <1>1 DEF BeginAdd, BeginRemoveAll
  <2>2. UNCHANGED << yml, catalog, address, units, req >> BY <1>1 DEF BeginAdd, BeginRemoveAll, task
  <2>3. AddressAgrees' BY <2>2 DEF AInv, AddressAgrees, Registered, Units
  <2>4. conf \in [Procs -> Configs] /\ pc \in [Procs -> {"idle"} \cup Locations \cup DbLocations]
    BY DEF Typed, TInv, ConfigTypeOK
  <2>5. Follows(p)'
    BY <1>b, <2>1, <2>2, <2>4, LoadKeeps DEF Follows, Renaming, Settling, Goto
  <2>6. \A q \in Procs \ {p} : Follows(q)' BY <2>1, <2>4 DEF Follows, Renaming, Settling, Goto, Turn
  <2> QED BY <2>2, <2>3, <2>5, <2>6 DEF AInv, Units
<1>2. CASE Quit(p) /\ pc[p] \in DbLocations BY <1>2, PassingSites DEF Quit
<1>3. ASSUME NEW from \in DbLocations, NEW to \in DbLocations, Check(p, from, to) PROVE AInv'
  BY <1>2, <1>3, PassingSites DEF Check, Plan, task
<1>4. ASSUME NEW at \in DbLocations, NEW schemaat \in DbLocations, Grant(p, at, schemaat) \/ GrantSchema(p, at, schemaat)
      PROVE  AInv'
  <2>1. \E l \in DbLocations : Goto(p, l) BY <1>4 DEF Grant, GrantSchema
  <2> QED BY <1>4, <2>1, PassingSites DEF Grant, GrantSchema, task
<1>5. ASSUME NEW from \in DbLocations, NEW to \in DbLocations, Go(p, from, to) PROVE AInv'
  BY <1>5, PassingSites DEF task
<1>6. CASE Access(p) BY <1>6, PassingSites DEF Access, LogIn, task
<1>7. CASE GetInfo(p)
  <2>1. (IF Creates(p) THEN "check" ELSE "tables") \in DbLocations OBVIOUS
  <2> QED BY <1>2, <1>5, <1>7, <2>1 DEF GetInfo
<1>8. CASE CountTables(p)
  <2>1. (IF new[p] # NoPassword THEN "store" ELSE "duplicate") \in DbLocations OBVIOUS
  <2> QED BY <1>5, <1>8, <2>1 DEF CountTables
<1>9. CASE CheckDuplicate(p)
  <2>1. CASE NextPass(p) /\ pc[p] = "duplicate" /\ UNCHANGED << configvars, conf >>
    <3>1. \E l \in DbLocations : Goto(p, l) BY <2>1 DEF NextPass
    <3> QED BY <2>1, <3>1, PassingSites DEF task
  <2> QED BY <1>2, <1>5, <1>9, <2>1 DEF CheckDuplicate
<1>10. CASE Store(p)
  <2>1. /\ pc[p] = "store" /\ Goto(p, "duplicate") /\ UNCHANGED << catalog, address, units, req >>
        /\ conf' = [conf EXCEPT ![p].password = new[p]] /\ yml' = [conf[p] EXCEPT !.password = new[p]]
    BY <1>10 DEF Store, task
  <2>2. conf[p] \in Configs /\ conf[p].name = yml.name /\ conf[p].addr = yml.addr
    BY <2>1 DEF Typed, TInv, ConfigTypeOK, AInv, Follows
  <2>3. yml'.name = yml.name /\ yml'.addr = yml.addr BY <2>1, <2>2 DEF Configs
  <2>4. conf \in [Procs -> Configs] /\ pc \in [Procs -> {"idle"} \cup Locations \cup DbLocations]
    BY DEF Typed, TInv, ConfigTypeOK
  <2>5. conf'[p] = [conf[p] EXCEPT !.password = new[p]] /\ \A q \in Procs \ {p} : conf'[q] = conf[q]
    BY <2>1, <2>4
  <2>6. conf'[p].name = conf[p].name /\ conf'[p].addr = conf[p].addr BY <2>2, <2>5 DEF Configs
  <2>7. AddressAgrees' BY <2>1, <2>3 DEF AInv, AddressAgrees, Registered, Units
  <2>8. \A q \in Procs : Follows(q)'
    BY <2>1, <2>2, <2>3, <2>4, <2>6 DEF Follows, Renaming, Settling, Goto, Turn
  <2> QED BY <2>1, <2>3, <2>7, <2>8 DEF AInv, Units
<1>11. CASE Install(p)
  <2>1. /\ pc[p] = "install" /\ \E l \in DbLocations : Goto(p, l)
        /\ address' = [address EXCEPT ![conf[p].name] = conf[p].addr]
        /\ UNCHANGED << yml, conf, req, todo >>
    BY <1>11 DEF Install, NextPass, task
  <2>2. conf[p].name = yml.name /\ conf[p].addr = yml.addr /\ conf[p].name \in Names
    BY <2>1 DEF AInv, Follows, Typed, TInv
  <2>3. AddressAgrees' BY <2>1, <2>2 DEF AddressAgrees, Typed, TInv, ConfigTypeOK
  <2>4. pc \in [Procs -> {"idle"} \cup Locations \cup DbLocations] BY DEF Typed, TInv
  <2>5. \A q \in Procs : Follows(q)'
    BY <2>1, <2>2, <2>4 DEF AInv, Follows, Renaming, Settling, Goto, Turn
  <2> QED BY <1>a, <2>1, <2>2, <2>3, <2>5 DEF AInv
<1>12. CASE RemoveService(p)
  <2>1. PICK s \in todo[p] : catalog' = [catalog EXCEPT ![conf[p].name][s] = {}] /\ units' = [units EXCEPT ![s] = Unset]
    BY <1>12 DEF RemoveService
  <2>2. UNCHANGED << yml, address, pc, conf, req >> /\ pc[p] = "remove" BY <1>12 DEF RemoveService
  <2>3. Units' \subseteq Units BY <2>1 DEF Units, Typed, TInv, ConfigTypeOK
  <2>4. \A n \in Names : Registered(n)' \subseteq Registered(n) BY <2>1 DEF Registered, Typed, TInv, ConfigTypeOK
  <2>5. yml.name \in Names \cup {Unset} BY DEF Typed, TInv, ConfigTypeOK, Configs
  <2>6. AddressAgrees' BY <2>2, <2>3, <2>4, <2>5 DEF AInv, AddressAgrees
  <2>7. \A q \in Procs : Follows(q)' BY <2>2 DEF AInv, Follows, Renaming, Settling, Turn
  <2> QED BY <2>2, <2>3, <2>6, <2>7 DEF AInv
<1>13. CASE NotRemovable(p) BY <1>13, LeavingKeeps DEF NotRemovable
<1>14. CASE ClearPassword(p)
  <2>1. /\ pc[p] = "remove" /\ Goto(p, "idle") /\ UNCHANGED << catalog, address, units >>
        /\ yml' = [conf[p] EXCEPT !.password = NoPassword]
    BY <1>14 DEF ClearPassword, Exit
  <2>2. conf[p] \in Configs /\ conf[p].name = yml.name /\ conf[p].addr = yml.addr
    BY <2>1 DEF Typed, TInv, ConfigTypeOK, AInv, Follows
  <2>3. yml'.name = yml.name /\ yml'.addr = yml.addr BY <2>1, <2>2 DEF Configs
  <2>4. pc \in [Procs -> {"idle"} \cup Locations \cup DbLocations] BY DEF Typed, TInv
  <2>5. AddressAgrees' BY <2>1, <2>3 DEF AInv, AddressAgrees, Registered, Units
  <2>6. \A q \in Procs : Follows(q)' BY <2>1, <2>4 DEF Follows, Renaming, Settling, Goto, Turn
  <2> QED BY <2>1, <2>3, <2>5, <2>6 DEF AInv, Units
<1> QED BY <1>1, <1>2, <1>3, <1>4, <1>5, <1>6, <1>7, <1>8, <1>9, <1>10, <1>11, <1>12, <1>13, <1>14
    DEF DbStep, CheckFlags, NoAccess, CheckUser, GrantUser, Granted, Verify, CheckSudo, GrantSudo, VerifySudo, FinishAdd

LEMMA AddressInit == Init => AInv
<1> SUFFICES ASSUME Init PROVE AInv
  OBVIOUS
<1>1. PICK c \in Catalogs, configured \in BOOLEAN, own \in SUBSET Owned : Beginning(c, configured, own)
  BY DEF Init
<1> DEFINE a == CHOOSE x \in LocalAddresses : TRUE
           installed == { s \in Services : configured /\ c[s] # {} }
<1>2. /\ Hostname \in Names /\ a \in Addresses /\ NoAuth # Unset /\ Unset \notin Names /\ Unset \notin Addresses
      /\ c \in [Services -> SUBSET Aliases]
  BY ConfigConstants
<1>3. /\ yml = IF configured
               THEN [NoConf EXCEPT !.server = TRUE, !.name = Hostname, !.addr = a, !.bind = a] ELSE NoConf
      /\ catalog = [m \in Names |-> IF m = Hostname THEN c ELSE Nothing]
      /\ address = [m \in Names |-> IF m = Hostname /\ c # Nothing THEN a ELSE Unset]
      /\ units = [s \in Services |-> IF s \in installed THEN NoAuth ELSE Unset]
      /\ pc = [p \in Procs |-> "idle"]
  BY <1>1 DEF Beginning
<1>4. yml.name = (IF configured THEN Hostname ELSE Unset) /\ yml.addr = (IF configured THEN a ELSE Unset)
  BY <1>3 DEF NoConf
<1>5. \A p \in Procs : Follows(p) BY <1>3 DEF Follows, Renaming, DbLocations, Settling
<1>6. Units = installed BY <1>2, <1>3 DEF Units
<1>7. AddressAgrees BY <1>2, <1>3, <1>4, <1>6 DEF AddressAgrees, Registered, Nothing
<1> QED BY <1>2, <1>4, <1>5, <1>6, <1>7 DEF AInv

LEMMA AddressNext == IInv /\ Typed /\ AInv /\ [Next]_vars => AInv'
<1> SUFFICES ASSUME IInv, Typed, AInv, [Next]_vars PROVE AInv'
  OBVIOUS
<1>1. CASE UNCHANGED vars
  BY <1>1 DEF vars, configvars, shared, task, AInv, AddressAgrees, Follows, Sited, Registered, Units
<1>2. CASE Halt BY <1>1, <1>2 DEF Halt
<1>3. ASSUME NEW p \in Procs, ConfigStep(p) PROVE AInv' BY <1>3, ConfigTurn, AddressConfig DEF IInv
<1>4. ASSUME NEW p \in Procs, Fail(p) \/ FailAdd(p) PROVE AInv'
  <2>1. Turn(p) /\ Goto(p, "idle") /\ UNCHANGED << yml, catalog, address, units >>
    BY <1>4 DEF IInv, Alone, Turn, Fail, FailAdd, Exit, Locations, DbLocations, shared
  <2>2. pc \in [Procs -> {"idle"} \cup Locations \cup DbLocations] BY DEF Typed, TInv
  <2>3. AddressAgrees' /\ Units' = Units BY <2>1 DEF AInv, AddressAgrees, Registered, Units
  <2>4. \A q \in Procs : Follows(q)' BY <2>1, <2>2 DEF Follows, Renaming, DbLocations, Settling, Goto, Turn
  <2> QED BY <2>1, <2>3, <2>4 DEF AInv
<1>5. ASSUME NEW p \in Procs, DbStep(p) PROVE AInv' BY <1>5, DbTurn, AddressDb DEF IInv
<1>6. ASSUME NEW p \in Procs, CheckBlind(p) PROVE AInv'
  <2>1. Turn(p) BY <1>6, BlindTurn DEF IInv
  <2> QED BY <1>6, <2>1, PassingSites DEF CheckBlind, Plan, At, shared, task, DbLocations
<1> QED BY <1>1, <1>2, <1>3, <1>4, <1>5, <1>6 DEF Next

LEMMA AddressAlways == Spec => []AInv
BY TypedAlways, AddressInit, AddressNext, PTL DEF Spec

\* The server looks for the services of a client where pmm.yml says that they are, whatever
\* was renamed, moved, broken off or failed on the way.
THEOREM AddressesAgree == Spec => []AddressAgrees
<1>1. AInv => AddressAgrees BY DEF AInv
<1> QED BY <1>1, AddressAlways, PTL

-----------------------------------------------------------------------------
(* The password *)

Renewing == {"grant", "schema", "verify", "tables", "store"}
Asking == {"sudo", "sudogrant", "sudoschema"}

\* A password, if there is one, is that of an account among some.
Works(w, A) == w # NoPassword => \E a \in A : account[a] = w

\* The account may have the new password already, and pmm.yml the old one still.
Replacing(p) == pc[p] \in {"grant", "schema", "verify"} \/ (pc[p] \in {"tables", "store"} /\ new[p] # NoPassword)

Remembers(p) ==
  /\ pc[p] # "idle" => conf[p].password = yml.password
  /\ pc[p] \notin Renewing \cup Asking \cup {"duplicate", "install"} => new[p] = NoPassword
  /\ pc[p] \in {"tables", "store"} => Works(new[p], Accounts)
  /\ pc[p] \in Asking => job[p].how = "pglocal" /\ (faults = 0 => Works(yml.password, Accounts \ {"pg"}))
  /\ pc[p] \in {"sudogrant", "sudoschema"} => \A i \in DOMAIN plan[p] : plan[p][i] = "pg"

SInv ==
  /\ \A p \in Procs : Remembers(p)
  /\ faults = 0 => Works(yml.password, Accounts) \/ \E p \in Procs : Replacing(p)

\* Nothing but add and remove --all changes the password.
LEMMA ConfigKeepsPassword ==
  ASSUME Typed, NEW p \in Procs, Turn(p), ConfigStep(p), pc[p] # "idle" => conf[p].password = yml.password
  PROVE  /\ yml'.password = yml.password
         /\ pc'[p] # "idle" => conf'[p].password = yml.password
         /\ faults' = 0 => faults = 0
<1> USE DEF Typed, TInv, ConfigTypeOK, At, Goto, shared
<1>1. CASE BeginConfig(p)
  <2>1. PICK r \in ConfigRequests : conf' = [conf EXCEPT ![p] = ServerOptions(Load, r)] BY <1>1 DEF BeginConfig
  <2>2. ServerOptions(Load, r).password = yml.password BY LoadKeeps DEF ServerOptions, Load, Configs
  <2> QED BY <1>1, <2>1, <2>2 DEF BeginConfig
<1>2. CASE pc'[p] = "idle" /\ UNCHANGED << yml, faults >> BY <1>2
<1>3. CASE UNCHANGED conf /\ pc[p] # "idle" /\ UNCHANGED << yml, faults >> BY <1>3
<1>4. ASSUME pc[p] # "idle", UNCHANGED << yml >>, \E n \in Names : SetName(p, n)
      PROVE  yml'.password = yml.password /\ conf'[p].password = yml.password
  BY <1>4, OptionSet DEF SetName, Configs
<1>5. CASE InitialName(p)
  <2>1. \E n \in Names : SetName(p, n) BY <1>5, ConfigConstants DEF InitialName, Requests
  <2> QED BY <1>4, <1>5, <2>1 DEF InitialName
<1>6. CASE CheckSource(p)
  <2>1. CASE SetName(p, req[p].name) /\ pc[p] = "source" /\ UNCHANGED << yml, faults >>
    <3>1. req[p].name \in Names BY <2>1 DEF Renaming
    <3> QED BY <1>4, <2>1, <3>1
  <2>2. CASE Leave(p) BY <2>2, <1>2 DEF Leave, Exit
  <2> QED BY <1>3, <1>6, <2>1, <2>2 DEF CheckSource
<1>7. CASE DropNode(p)
  <2>1. SetName(p, req[p].name) /\ pc[p] = "svc" /\ UNCHANGED yml BY <1>7 DEF DropNode
  <2>2. req[p].name \in Names BY <2>1 DEF Renaming
  <2>3. faults' = 0 => faults = 0 BY <1>7 DEF DropNode
  <2> QED BY <1>4, <2>1, <2>2, <2>3
<1>8. ASSUME NEW a \in Addresses, TakeAddress(p, a)
      PROVE  yml'.password = yml.password /\ conf'[p].password = yml.password /\ UNCHANGED faults
  BY <1>8, OptionSet DEF TakeAddress, Configs
<1>9. CASE FirstAddress(p) BY <1>8, <1>9 DEF FirstAddress, Requests
<1>10. CASE KeepAddress(p) BY <1>8, <1>10 DEF KeepAddress, Configs
<1>11. CASE ChangeAddress(p) BY <1>2, <1>8, <1>11 DEF ChangeAddress, ChangesAddress, Requests, Leave, Exit
<1>12. CASE SetBind(p)
  <2>1. CASE Leave(p) BY <2>1, <1>2 DEF Leave, Exit
  <2>2. CASE \E b \in Addresses : conf' = [conf EXCEPT ![p].bind = b] /\ pc[p] = "bind" /\ UNCHANGED << yml, faults >>
    BY <2>2, OptionSet DEF Configs
  <2> QED BY <1>12, <2>1, <2>2, ConfigConstants DEF SetBind
<1>13. CASE WriteConfig(p) BY <1>13 DEF WriteConfig
<1>14. CASE CallFails(p) \/ RegisterFails(p) \/ GetFails(p)
  <2>1. faults' = 0 => faults = 0 BY <1>14 DEF CallFails, RegisterFails, GetFails, Erred
  <2>2. pc[p] # "idle" /\ UNCHANGED << yml, conf >> BY <1>14 DEF CallFails, RegisterFails, GetFails, AfterError
  <2> QED BY <2>1, <2>2
<1>15. CASE RepairFails(p)
  <2>1. faults' = 0 => faults = 0 BY <1>15 DEF RepairFails
  <2>2. pc[p] # "idle" /\ UNCHANGED << yml, conf >> BY <1>15 DEF RepairFails, Repairs
  <2> QED BY <2>1, <2>2
<1>16. CASE Repair(p) BY <1>3, <1>16 DEF Repair, Repairs
<1>17. CASE NameTaken(p) \/ InvalidName(p) \/ NotDetected(p) \/ Finish(p)
  BY <1>2, <1>17 DEF NameTaken, InvalidName, NotDetected, Finish, Leave, Exit
<1>18. CASE CheckTarget(p) BY <1>2, <1>3, <1>18 DEF CheckTarget, Move, Leave, Exit
<1>19. ASSUME NEW s, NEW from \in {"mysql", "mongodb"}, NEW to, RestartAgent(p, s, from, to)
       PROVE  ((UNCHANGED conf /\ pc[p] # "idle") \/ pc'[p] = "idle") /\ UNCHANGED << yml, faults >>
  BY <1>19 DEF RestartAgent, Move, Leave, Exit
<1>20. CASE KeepName(p) \/ RegisterNew(p) \/ DeregisterOld(p) \/ ListKeys(p) \/ GetKey(p) \/ NextService(p)
            \/ UpdateInstance(p) \/ WriteInstance(p) \/ PutKey(p) \/ DeleteKey(p) \/ SyncAgent(p)
            \/ RestartEach(p) \/ Configured(p)
  BY <1>3, <1>20 DEF KeepName, Move, RegisterNew, DeregisterOld, ListKeys, GetKey, NextService, UpdateInstance, WriteInstance,
        PutKey, DeleteKey, SyncAgent, RestartEach, Configured
<1> QED BY <1>1, <1>2, <1>3, <1>5, <1>6, <1>7, <1>9, <1>10, <1>11, <1>12, <1>13, <1>14, <1>15, <1>16, <1>17, <1>18,
           <1>19, <1>20 DEF ConfigStep

LEMMA ConfigFrom ==
  ASSUME NEW p \in Procs, ConfigStep(p)
  PROVE  pc[p] \in Locations \cup {"idle"}
<1> USE DEF At, Move, Leave, Locations
<1>1. CASE BeginConfig(p) BY <1>1 DEF BeginConfig, Ready
<1>2. CASE FirstAddress(p) \/ KeepAddress(p) \/ ChangeAddress(p) \/ InvalidName(p) \/ NotDetected(p)
  BY <1>2 DEF FirstAddress, KeepAddress, ChangeAddress, InvalidName, NotDetected, TakeAddress
<1>3. CASE CallFails(p) BY <1>3 DEF CallFails, AfterError
<1>4. CASE Repair(p) \/ RepairFails(p) BY <1>4 DEF Repair, RepairFails, Repairs
<1> QED BY <1>1, <1>2, <1>3, <1>4 DEF ConfigStep, InitialName, NameTaken, KeepName, CheckTarget, CheckSource,
  RegisterNew, RegisterFails, DeregisterOld, ListKeys, GetKey, GetFails, NextService, UpdateInstance, WriteInstance,
  PutKey, DeleteKey, DropNode, SetBind, SyncAgent, RestartAgent, WriteConfig, RestartEach, Configured, Finish

LEMMA StoredConfig ==
  ASSUME Typed, SInv, NEW p \in Procs, Turn(p), ConfigStep(p), UNCHANGED dbvars
  PROVE  SInv'
<1> DEFINE Steady == {"idle"} \cup Locations
<1>1. /\ yml'.password = yml.password
      /\ pc'[p] # "idle" => conf'[p].password = yml.password
      /\ faults' = 0 => faults = 0
  BY ConfigKeepsPassword DEF SInv, Remembers
<1>2. /\ pc[p] \in Steady /\ pc'[p] \in Steady
      /\ \A q \in Procs \ {p} : pc'[q] = "idle" /\ pc[q] = "idle"
  BY ConfigMoves, ConfigFrom DEF Goes, Turn, Typed, TInv
<1>3. UNCHANGED << account, job, new, plan >> BY DEF dbvars, database, adding
<1>4. \A l \in Steady : l \notin Renewing \cup Asking \cup {"duplicate", "install"}
  BY DEF Locations, Renewing, Asking
<1>5. \A q \in Procs : pc[q] \in Steady /\ pc'[q] \in Steady BY <1>2
<1> HIDE DEF Steady
<1>6. \A q \in Procs : Remembers(q)'
  BY <1>1, <1>2, <1>3, <1>4, <1>5 DEF SInv, Remembers, Renewing, Asking
<1>7. \A q \in Procs : ~ Replacing(q)
  BY <1>4, <1>5 DEF Replacing, Renewing
<1> QED BY <1>1, <1>3, <1>6, <1>7 DEF SInv, Works

LEMMA StoredDb ==
  ASSUME Typed, SInv, NEW p \in Procs, Turn(p), DbStep(p)
  PROVE  SInv'
<1> USE DEF SInv, Remembers, Replacing, Works, Turn, Renewing, Asking, DbLocations, Go, At, Goto, configvars, shared, database, adding, ForgetJob
<1>a. /\ pc \in [Procs -> {"idle"} \cup Locations \cup DbLocations] /\ conf \in [Procs -> Configs] /\ yml \in Configs
      /\ new \in [Procs -> Passwords \cup {NoPassword}] /\ job \in [Procs -> AddRequests] /\ plan \in [Procs -> Seq(Accounts)]
      /\ account \in [Accounts -> Passwords \cup {NoPassword}]
  BY DEF Typed, TInv, DInv, ConfigTypeOK, DbTypeOK
<1>1. CASE BeginAdd(p) \/ BeginRemoveAll(p)
  <2>1. PICK l \in {"init", "remove"} : Goto(p, l) BY <1>1 DEF BeginAdd, BeginRemoveAll
  <2>2. pc[p] = "idle" /\ conf' = [conf EXCEPT ![p] = Load] /\ UNCHANGED << yml, faults, account, new, plan >>
    BY <1>1 DEF BeginAdd, BeginRemoveAll, Ready, dbvars
  <2>3. \A q \in Procs \ {p} : pc'[q] = "idle" /\ new'[q] = NoPassword BY <1>a, <2>1, <2>2
  <2>4. conf'[p].password = yml.password /\ pc'[p] = l /\ new'[p] = NoPassword BY <1>a, <2>1, <2>2, LoadKeeps
  <2>5. \A q \in Procs : Remembers(q)' BY <2>2, <2>3, <2>4
  <2>6. \A q \in Procs : ~ Replacing(q) BY <2>2
  <2> QED BY <2>2, <2>5, <2>6
<1>2. CASE Quit(p) /\ pc[p] \in DbLocations \ {"grant", "schema", "verify", "store", "tables"} BY <1>a, <1>2 DEF Quit
<1>3. CASE Go(p, "init", "access") BY <1>a, <1>3
<1>4. CASE Access(p) 
  <2>1. pc[p] = "access" /\ Goto(p, "getinfo") /\ UNCHANGED << yml, faults, account, conf, new, job, plan >>
    BY <1>4 DEF Access, LogIn
  <2> QED BY <1>a, <2>1
<1>5. CASE NoAccess(p)
  <2>1. CASE job[p].how = "pglocal" /\ ~ Stored(p) /\ Go(p, "access", "sudo")
    <3>1. Picked("pglocal") = "pg" BY DEF Picked, Hosts, MySQL
    <3>2. faults = 0 => Works(yml.password, Accounts \ {"pg"}) BY <1>a, <2>1, <3>1 DEF Stored, Opens
    <3> QED BY <1>a, <2>1, <3>2
  <2> QED BY <1>2, <1>5, <2>1 DEF NoAccess
<1>6. CASE GetInfo(p)
  <2>1. CASE Go(p, "getinfo", IF Creates(p) THEN "check" ELSE "tables")
    <3>1. PICK l \in {"check", "tables"} : Goto(p, l) BY <2>1
    <3> QED BY <1>a, <2>1, <3>1
  <2> QED BY <1>2, <1>6, <2>1 DEF GetInfo
<1>7. CASE CheckUser(p) 
  <2>1. CASE /\ pc[p] = "check" /\ Goto(p, "grant") /\ UNCHANGED << yml, faults, conf, account, job >>
             /\ new' = [new EXCEPT ![p] = Fresh]
    BY <1>a, <2>1
  <2> QED BY <1>2, <1>7, <2>1 DEF CheckUser, Check, Plan
<1>8. CASE GrantUser(p) 
  <2>1. PICK l \in {"grant", "schema"} : Goto(p, l) BY <1>8 DEF GrantUser, Grant, GrantSchema
  <2>2. pc[p] \in {"grant", "schema"} /\ UNCHANGED << yml, conf, faults, new >> BY <1>8 DEF GrantUser, Grant, GrantSchema
  <2> QED BY <1>a, <2>1, <2>2
<1>9. CASE Granted(p) BY <1>a, <1>9 DEF Granted
<1>10. CASE Verify(p)
  <2>1. Picked(job[p].how) \in Accounts BY DEF Picked, Hosts, Accounts
  <2> QED BY <1>a, <1>10, <2>1 DEF Verify, Opens
<1>11. CASE CheckSudo(p)
  <2>1. CASE /\ pc[p] = "sudo" /\ Goto(p, "sudogrant") /\ plan' = [plan EXCEPT ![p] = Hosts(job[p].how)]
             /\ UNCHANGED << yml, faults, conf, account, job >>
             /\ new' = [new EXCEPT ![p] = Fresh]
    <3>1. Hosts("pglocal") = << "pg" >> BY DEF Hosts
    <3> QED BY <1>a, <2>1, <3>1
  <2> QED BY <1>2, <1>11, <2>1 DEF CheckSudo, Check, Plan
<1>12. CASE Grant(p, "sudogrant", "sudoschema")
  <2>1. /\ pc[p] = "sudogrant" /\ plan[p] # << >> /\ UNCHANGED << yml, faults, conf, job, new >>
        /\ account' = [account EXCEPT ![Head(plan[p])] = new[p]] /\ plan' = [plan EXCEPT ![p] = Tail(@)]
        /\ \E l \in {"sudogrant", "sudoschema"} : Goto(p, l)
    BY <1>12 DEF Grant
  <2>2. /\ Head(plan[p]) = "pg"
        /\ \A i \in DOMAIN Tail(plan[p]) : Tail(plan[p])[i] = "pg"
    BY <1>a, <2>1
  <2> QED BY <1>a, <2>1, <2>2
<1>13. CASE GrantSchema(p, "sudoschema", "sudogrant") BY <1>a, <1>13 DEF GrantSchema
<1>14. CASE VerifySudo(p) BY <1>2, <1>14 DEF VerifySudo
<1>15. CASE CountTables(p) BY <1>a, <1>15 DEF CountTables
<1>16. CASE Store(p)
  <2>1. conf'[p].password = new[p] /\ yml'.password = new[p] BY <1>a, <1>16 DEF Store, Configs
  <2> QED BY <1>a, <1>16, <2>1 DEF Store
<1>17. CASE CheckDuplicate(p) 
  <2>1. CASE Go(p, "duplicate", "install") BY <1>a, <2>1
  <2>2. CASE /\ pc[p] = "duplicate" /\ NextPass(p) /\ UNCHANGED << yml, faults, conf, account, job, plan >>
    <3>1. PICK l \in {"added", "init"} : Goto(p, l) /\ new' = [new EXCEPT ![p] = NoPassword] BY <2>2 DEF NextPass
    <3> QED BY <1>a, <2>2, <3>1
  <2> QED BY <1>2, <1>17, <2>1, <2>2 DEF CheckDuplicate
<1>18. CASE Install(p)
  <2>1. PICK l \in {"added", "init"} : /\ pc[p] = "install" /\ Goto(p, l) /\ new' = [new EXCEPT ![p] = NoPassword]
         /\ UNCHANGED << yml, conf, faults, account, job, plan >>
    BY <1>18 DEF Install, NextPass
  <2> QED BY <1>a, <2>1
<1>19. CASE FinishAdd(p) BY <1>2, <1>19 DEF FinishAdd
<1>20. CASE RemoveService(p) BY <1>20 DEF RemoveService
<1>21. CASE NotRemovable(p) BY <1>a, <1>21 DEF NotRemovable, Leave, Exit, dbvars
<1>22. CASE ClearPassword(p)
  <2>1. yml'.password = NoPassword BY <1>a, <1>22 DEF ClearPassword, Configs
  <2> QED BY <1>a, <1>22, <2>1 DEF ClearPassword, Exit, dbvars
<1> QED BY <1>1, <1>2, <1>3, <1>4, <1>5, <1>6, <1>7, <1>8, <1>9, <1>10, <1>11, <1>12, <1>13, <1>14, <1>15, <1>16, <1>17, <1>18, <1>19, <1>20, <1>21, <1>22
    DEF DbStep, CheckFlags, GrantSudo

LEMMA StoredFault ==
  ASSUME Typed, SInv, NEW p \in Procs, Turn(p), (Fail(p) /\ UNCHANGED dbvars) \/ FailAdd(p)
  PROVE  SInv'
<1>1. faults' # 0 BY DEF Fail, FailAdd, Typed, TInv, ConfigTypeOK
<1>2. Goto(p, "idle") /\ UNCHANGED << yml, account >>
  BY DEF Fail, FailAdd, Exit, shared, database, dbvars
<1>3. pc \in [Procs -> {"idle"} \cup Locations \cup DbLocations] /\ new \in [Procs -> Passwords \cup {NoPassword}]
  BY DEF Typed, TInv, DInv, DbTypeOK
<1>4. new'[p] = NoPassword
  <2>1. CASE Fail(p) /\ UNCHANGED dbvars
    <3>1. pc[p] \notin Renewing \cup Asking \cup {"duplicate", "install"} BY <2>1 DEF Fail, Locations, Renewing, Asking
    <3> QED BY <2>1, <3>1 DEF SInv, Remembers, dbvars, adding
  <2> QED BY <1>3, <2>1 DEF FailAdd, ForgetJob
<1>5. \A q \in Procs \ {p} : new'[q] = new[q] /\ pc'[q] = "idle" /\ pc[q] = "idle"
  <2>1. UNCHANGED new \/ new' = [new EXCEPT ![p] = NoPassword] BY DEF FailAdd, ForgetJob, dbvars, adding
  <2> QED BY <1>2, <1>3, <2>1 DEF Goto, Turn
<1>6. pc'[p] = "idle" BY <1>2, <1>3 DEF Goto
<1>7. \A q \in Procs : Remembers(q)' BY <1>4, <1>5, <1>6 DEF SInv, Remembers, Renewing, Asking
<1> QED BY <1>1, <1>7 DEF SInv

LEMMA StoredBlind ==
  ASSUME Typed, SInv, NEW p \in Procs, Turn(p), CheckBlind(p)
  PROVE  SInv'
<1>1. /\ pc[p] = "check" /\ pc' = [pc EXCEPT ![p] = "grant"] /\ UNCHANGED << yml, account, conf >>
      /\ new' = [new EXCEPT ![p] = Fresh]
  BY DEF CheckBlind, Plan, At, Goto, shared, database
<1>2. faults' # 0 BY DEF CheckBlind, Typed, TInv, ConfigTypeOK
<1>3. /\ pc'[p] = "grant" /\ \A q \in Procs \ {p} : pc'[q] = "idle" /\ pc[q] = "idle" /\ new'[q] = new[q]
  BY <1>1 DEF Turn, Typed, TInv, DInv, DbTypeOK
<1>4. \A q \in Procs : Remembers(q)' BY <1>1, <1>3 DEF SInv, Remembers, Renewing, Asking
<1> QED BY <1>2, <1>4 DEF SInv

LEMMA StoredInit == Init => SInv
<1> SUFFICES ASSUME Init PROVE SInv
  OBVIOUS
<1>1. PICK c \in Catalogs, configured \in BOOLEAN, own \in SUBSET Owned : Beginning(c, configured, own)
  BY DEF Init
<1>2. pc = [p \in Procs |-> "idle"] /\ new = [p \in Procs |-> NoPassword] BY <1>1 DEF Beginning
<1>3. yml.password = NoPassword BY <1>1 DEF Beginning, NoConf
<1> QED BY <1>2, <1>3 DEF SInv, Remembers, Works, Renewing, Asking

LEMMA StoredNext == IInv /\ Typed /\ SInv /\ [Next]_vars => SInv'
<1> SUFFICES ASSUME IInv, Typed, SInv, [Next]_vars PROVE SInv'
  OBVIOUS
<1>1. CASE UNCHANGED vars
  BY <1>1 DEF vars, configvars, shared, dbvars, database, adding, SInv, Remembers, Replacing, Works
<1>2. CASE Halt BY <1>1, <1>2 DEF Halt
<1>3. ASSUME NEW p \in Procs, ConfigStep(p), UNCHANGED dbvars PROVE SInv' BY <1>3, ConfigTurn, StoredConfig DEF IInv
<1>4. ASSUME NEW p \in Procs, (Fail(p) /\ UNCHANGED dbvars) \/ FailAdd(p) PROVE SInv'
  <2>1. Turn(p) BY <1>4 DEF IInv, Alone, Turn, Fail, FailAdd, Locations, DbLocations
  <2> QED BY <1>4, <2>1, StoredFault
<1>5. ASSUME NEW p \in Procs, DbStep(p) PROVE SInv' BY <1>5, DbTurn, StoredDb DEF IInv
<1>6. ASSUME NEW p \in Procs, CheckBlind(p) PROVE SInv' BY <1>6, BlindTurn, StoredBlind DEF IInv
<1> QED BY <1>1, <1>2, <1>3, <1>4, <1>5, <1>6 DEF Next

LEMMA StoredAlways == Spec => []SInv
BY TypedAlways, StoredInit, StoredNext, PTL DEF Spec

\* As long as nothing fails, the password in pmm.yml, which every later add tries
\* first, is that of an account: whichever of the two database commands has set it last, on
\* whatever path, and although both write to the same option.
THEOREM StoredPasswordWorks == Spec => []StoredWorks
<1>1. SInv => StoredWorks BY DEF SInv, StoredWorks, Works, Replacing, At
<1> QED BY <1>1, StoredAlways, PTL
=============================================================================
