--------------------------- MODULE External_proofs ---------------------------
(***************************************************************************)
(* Proofs about External, for any number of clients, jobs, entries,        *)
(* parameters and commands.                                                *)
(***************************************************************************)
EXTENDS External, TLAPS

\* A request that is made is one that the command line accepted.
Asked ==
  \A p \in Procs : pc[p] # "idle" /\ cmd[p] \in Writing => req[p].entries # {}

\* external:service goes on with a job only if it keeps the job's parameters or is forced to.
Checked ==
  \A p \in Procs :
    pc[p] = "put" /\ cmd[p] = "service" /\ seen[p] # NoJob /\ ~ req[p].force =>
      Wanted(seen[p], req[p]) = seen[p].params

Inv == TypeOK /\ JobsHaveTargets /\ Asked /\ Checked

-----------------------------------------------------------------------------
LEMMA RequestType == NoRequest \in Requests
<1>1. PICK j \in Jobs, g \in Given : TRUE  BY ExternalConstants
<1>2. [job |-> j, entries |-> {}, addresses |-> {}, given |-> g, force |-> FALSE] \in Requests
  BY <1>1 DEF Requests
<1> QED BY <1>2 DEF NoRequest

LEMMA WantedType ==
  ASSUME NEW c \in Configs, NEW r \in Requests
  PROVE  Wanted(c, r) \in Params
<1>1. r.given \in [Fields -> Values \cup {Omit}]  BY ExternalConstants DEF Requests
<1>2. c.params \in [Fields -> Values]  BY DEF Configs, Params
<1> QED BY <1>1, <1>2 DEF Wanted, Params

LEMMA NewJobType ==
  ASSUME NEW r \in Requests
  PROVE  NewJob(r) \in Configs /\ NewJob(r) # NoJob /\ NewJob(r).entries = r.entries
<1>1. r.given \in [Fields -> Values \cup {Omit}] /\ r.entries \in SUBSET Entries
  BY ExternalConstants DEF Requests
<1> DEFINE ps == [f \in Fields |-> IF r.given[f] = Omit THEN Default ELSE r.given[f]]
<1>2. ps \in Params  BY <1>1, ExternalConstants DEF Params
<1>3. NewJob(r) = [params |-> ps, entries |-> r.entries]  BY DEF NewJob
<1> HIDE DEF ps
<1> QED BY <1>1, <1>2, <1>3, ExternalConstants DEF Configs

LEMMA ServiceJobType ==
  ASSUME NEW c \in Configs, NEW r \in Requests
  PROVE  /\ ServiceJob(c, r) \in Configs
         /\ ServiceJob(c, r).entries = r.entries /\ ServiceJob(c, r).params = Wanted(c, r)
BY WantedType DEF ServiceJob, Configs, Requests

LEMMA JoinedType ==
  ASSUME NEW c \in Configs, NEW r \in Requests
  PROVE  /\ Joined(c, r) \in Configs
         /\ Joined(c, r).entries = c.entries \cup r.entries /\ Joined(c, r).params = c.params
BY DEF Joined, Configs, Requests

LEMMA WithoutType ==
  ASSUME NEW c \in Configs, NEW r \in Requests
  PROVE  /\ Without(c, r) \in Configs
         /\ Without(c, r).entries = { e \in c.entries : e.at \notin r.addresses }
         /\ Without(c, r).params = c.params
BY DEF Without, Configs, Requests

-----------------------------------------------------------------------------
LEMMA Initially == Init => Inv
<1> SUFFICES ASSUME Init PROVE Inv  OBVIOUS
<1>1. TypeOK  BY RequestType DEF Init, TypeOK
<1>2. JobsHaveTargets  BY DEF Init, JobsHaveTargets
<1>3. Asked /\ Checked  BY DEF Init, Asked, Checked
<1> QED BY <1>1, <1>2, <1>3 DEF Inv

\* What is asked and checked stands while the process stays where it is, or ends.
LEMMA ExitKeeps ==
  ASSUME Inv, NEW p \in Procs, Exit(p)
  PROVE  /\ pc' \in [Procs -> {"idle", "get", "put"}] /\ cmd' \in [Procs -> Commands \cup {"none"}]
         /\ req' \in [Procs -> Requests] /\ seen' \in [Procs -> Configs \cup {NoJob}]
         /\ \A q \in Procs :
              pc'[q] = "put" /\ cmd'[q] \in {"instances", "rminstances"} => seen'[q] # NoJob
         /\ Asked' /\ Checked'
<1>1. TypeOK /\ Asked /\ Checked  BY DEF Inv
<1>2. \A q \in Procs : q # p =>
        pc'[q] = pc[q] /\ cmd'[q] = cmd[q] /\ req'[q] = req[q] /\ seen'[q] = seen[q]
  BY <1>1 DEF Exit, TypeOK
<1>3. pc'[p] = "idle"  BY <1>1 DEF Exit, TypeOK
<1>4. /\ pc' \in [Procs -> {"idle", "get", "put"}] /\ cmd' \in [Procs -> Commands \cup {"none"}]
      /\ req' \in [Procs -> Requests] /\ seen' \in [Procs -> Configs \cup {NoJob}]
  BY <1>1, RequestType DEF Exit, TypeOK
<1>5. \A q \in Procs :
        pc'[q] = "put" /\ cmd'[q] \in {"instances", "rminstances"} => seen'[q] # NoJob
  BY <1>1, <1>2, <1>3 DEF TypeOK
<1>6. Asked'  BY <1>1, <1>2, <1>3 DEF Asked
<1>7. Checked'
  <2> SUFFICES ASSUME NEW q \in Procs, pc'[q] = "put", cmd'[q] = "service", seen'[q] # NoJob,
                      ~ req'[q].force
               PROVE  Wanted(seen'[q], req'[q]) = seen'[q].params
    BY DEF Checked
  <2>1. q # p  BY <1>3
  <2> QED BY <1>1, <1>2, <2>1 DEF Checked
<1> QED BY <1>4, <1>5, <1>6, <1>7

\* A write leaves the invariant alone if what it writes is a job with targets, or no job.
LEMMA PutKeeps ==
  ASSUME Inv, NEW p \in Procs, NEW c \in Configs \cup {NoJob}, Exit(p),
         c # NoJob => c.entries # {}, Put(p, c) \/ UNCHANGED jobs
  PROVE  Inv'
<1>1. TypeOK /\ JobsHaveTargets  BY DEF Inv
<1>2. jobs' \in [Jobs -> Configs \cup {NoJob}]  BY <1>1 DEF Put, TypeOK, Requests
<1>3. TypeOK'  BY <1>2, ExitKeeps DEF TypeOK
<1>4. JobsHaveTargets'  BY <1>1 DEF JobsHaveTargets, Put, TypeOK, Requests
<1> QED BY <1>3, <1>4, ExitKeeps DEF Inv

-----------------------------------------------------------------------------
LEMMA BeginKeeps == ASSUME Inv, NEW p \in Procs, Begin(p) PROVE Inv'
<1>1. TypeOK /\ JobsHaveTargets /\ Asked /\ Checked  BY DEF Inv
<1>2. PICK c \in Commands, r \in Requests :
        /\ Accepted(p, c, r)
        /\ cmd' = [cmd EXCEPT ![p] = c] /\ req' = [req EXCEPT ![p] = r]
        /\ pc' = [pc EXCEPT ![p] = IF c \in Reading THEN "get" ELSE "put"]
  BY DEF Begin
<1>3. pc[p] = "idle" /\ jobs' = jobs /\ seen' = seen  BY DEF Begin
<1>4. \A q \in Procs : q # p => pc'[q] = pc[q] /\ cmd'[q] = cmd[q] /\ req'[q] = req[q]
  BY <1>1, <1>2 DEF TypeOK
<1>5. /\ cmd'[p] = c /\ req'[p] = r
      /\ pc'[p] = IF c \in Reading THEN "get" ELSE "put"
  BY <1>1, <1>2 DEF TypeOK
<1>6. TypeOK'
  <2>1. /\ pc' \in [Procs -> {"idle", "get", "put"}] /\ cmd' \in [Procs -> Commands \cup {"none"}]
        /\ req' \in [Procs -> Requests]
    BY <1>1, <1>2 DEF TypeOK
  <2>2. \A q \in Procs :
          pc'[q] = "put" /\ cmd'[q] \in {"instances", "rminstances"} => seen'[q] # NoJob
    BY <1>1, <1>3, <1>4, <1>5 DEF TypeOK, Reading
  <2> QED BY <1>1, <1>3, <2>1, <2>2 DEF TypeOK
<1>7. JobsHaveTargets'  BY <1>1, <1>3 DEF JobsHaveTargets
<1>8. Asked'  BY <1>1, <1>2, <1>4, <1>5 DEF Asked, Accepted
<1>9. Checked'
  <2> SUFFICES ASSUME NEW q \in Procs, pc'[q] = "put", cmd'[q] = "service", seen'[q] # NoJob,
                      ~ req'[q].force
               PROVE  Wanted(seen'[q], req'[q]) = seen'[q].params
    BY DEF Checked
  <2>1. q # p  BY <1>5 DEF Reading
  <2> QED BY <1>1, <1>3, <1>4, <2>1 DEF Checked
<1> QED BY <1>6, <1>7, <1>8, <1>9 DEF Inv

LEMMA GetKeeps == ASSUME Inv, NEW p \in Procs, Get(p) PROVE Inv'
<1>1. TypeOK /\ JobsHaveTargets /\ Asked /\ Checked  BY DEF Inv
<1>2. jobs' = jobs /\ pc[p] = "get"  BY DEF Get
<1> DEFINE c == jobs[req[p].job]
<1>3. CASE Exit(p)
  <2>1. TypeOK'  BY <1>1, <1>2, <1>3, ExitKeeps DEF TypeOK
  <2>2. JobsHaveTargets'  BY <1>1, <1>2 DEF JobsHaveTargets
  <2> QED BY <1>3, <2>1, <2>2, ExitKeeps DEF Inv
<1>4. CASE /\ ~ Refused(p, c)
           /\ seen' = [seen EXCEPT ![p] = c] /\ pc' = [pc EXCEPT ![p] = "put"]
           /\ UNCHANGED << cmd, req >>
  <2>1. req[p] \in Requests /\ c \in Configs \cup {NoJob}  BY <1>1 DEF TypeOK, Requests
  <2>2. \A q \in Procs : q # p => pc'[q] = pc[q] /\ seen'[q] = seen[q]
    BY <1>1, <1>4 DEF TypeOK
  <2>3. pc'[p] = "put" /\ seen'[p] = c  BY <1>1, <1>4 DEF TypeOK
  <2>4. cmd[p] \in {"instances", "rminstances"} => c # NoJob  BY <1>4 DEF Refused
  <2>5. /\ pc' \in [Procs -> {"idle", "get", "put"}] /\ seen' \in [Procs -> Configs \cup {NoJob}]
    BY <1>1, <1>4, <2>1 DEF TypeOK
  <2>6. TypeOK'
    <3>1. \A q \in Procs :
            pc'[q] = "put" /\ cmd'[q] \in {"instances", "rminstances"} => seen'[q] # NoJob
      BY <1>1, <1>4, <2>2, <2>3, <2>4 DEF TypeOK
    <3> QED BY <1>1, <1>2, <1>4, <2>5, <3>1 DEF TypeOK
  <2>7. JobsHaveTargets'  BY <1>1, <1>2 DEF JobsHaveTargets
  <2>8. Asked'  BY <1>1, <1>2, <1>4, <2>2 DEF Asked
  <2>9. Checked'
    <3> SUFFICES ASSUME NEW q \in Procs, pc'[q] = "put", cmd'[q] = "service", seen'[q] # NoJob,
                        ~ req'[q].force
                 PROVE  Wanted(seen'[q], req'[q]) = seen'[q].params
      BY DEF Checked
    <3>1. CASE q = p
      <4>1. c # NoJob /\ cmd[p] = "service" /\ ~ req[p].force  BY <1>4, <2>3, <3>1
      <4>2. Changes(c, req[p]) = {}  BY <1>4, <4>1 DEF Refused
      <4>3. \A f \in Fields : Wanted(c, req[p])[f] = c.params[f]  BY <4>2 DEF Changes
      <4>4. c.params \in [Fields -> Values]  BY <2>1, <4>1 DEF Configs, Params
      <4>5. Wanted(c, req[p]) \in [Fields -> Values]  BY <2>1, <4>1, WantedType DEF Params
      <4>6. Wanted(c, req[p]) = c.params  BY <4>3, <4>4, <4>5
      <4> QED BY <1>4, <2>3, <3>1, <4>6
    <3>2. CASE q # p  BY <1>1, <1>4, <2>2, <3>2 DEF Checked
    <3> QED BY <3>1, <3>2
  <2> QED BY <2>6, <2>7, <2>8, <2>9 DEF Inv
<1> QED BY <1>3, <1>4 DEF Get

\* What a command writes, when it writes at all, is one of these jobs.
Written(p, c) ==
  \/ cmd[p] \in {"service", "metrics"} /\ jobs[req[p].job] = NoJob /\ c = NewJob(req[p])
  \/ cmd[p] = "service" /\ seen[p] # NoJob /\ c = ServiceJob(seen[p], req[p])
  \/ cmd[p] = "instances" /\ c = Joined(seen[p], req[p])
  \/ cmd[p] = "rminstances" /\ c = Without(seen[p], req[p]) /\ c.entries # {}
  \/ cmd[p] = "rminstances" /\ Without(seen[p], req[p]).entries = {} /\ c = NoJob
  \/ cmd[p] = "rmmetrics" /\ c = NoJob

Write(p) ==
  \/ AddExternalService(p) \/ AddExternalMetrics(p) \/ AddExternalInstances(p)
  \/ RemoveExternalMetrics(p) \/ RemoveExternalInstances(p)

LEMMA WriteWrites ==
  ASSUME Inv, NEW p \in Procs, Write(p)
  PROVE  /\ pc[p] = "put" /\ Exit(p)
         /\ \/ UNCHANGED jobs
            \/ \E c \in Configs \cup {NoJob} :
                 Put(p, c) /\ Written(p, c) /\ (c # NoJob => c.entries # {})
<1>1. TypeOK /\ Asked  BY DEF Inv
<1>2. pc[p] = "put" /\ Exit(p)
  BY DEF Write, AddExternalService, AddExternalMetrics, AddExternalInstances,
         RemoveExternalMetrics, RemoveExternalInstances
<1>3. req[p] \in Requests /\ seen[p] \in Configs \cup {NoJob}  BY <1>1 DEF TypeOK
<1>4. cmd[p] \in Writing => req[p].entries # {}  BY <1>1, <1>2 DEF Asked
<1> DEFINE Goal == \/ UNCHANGED jobs
                   \/ \E c \in Configs \cup {NoJob} :
                        Put(p, c) /\ Written(p, c) /\ (c # NoJob => c.entries # {})
<1>5. ASSUME AddExternalService(p) PROVE Goal
  <2>1. cmd[p] = "service"  BY <1>5 DEF AddExternalService
  <2>2. CASE Create(p, NewJob(req[p])) /\ ~ UNCHANGED jobs
    <3>1. jobs[req[p].job] = NoJob /\ Put(p, NewJob(req[p]))  BY <2>2 DEF Create
    <3>2. Written(p, NewJob(req[p]))  BY <2>1, <3>1 DEF Written
    <3> QED BY <1>3, <1>4, <2>1, <3>1, <3>2, NewJobType DEF Writing
  <2>3. CASE seen[p] # NoJob /\ Update(p, ServiceJob(seen[p], req[p])) /\ ~ UNCHANGED jobs
    <3>1. Put(p, ServiceJob(seen[p], req[p]))  BY <2>3 DEF Update
    <3>2. Written(p, ServiceJob(seen[p], req[p]))  BY <2>1, <2>3 DEF Written
    <3> QED BY <1>3, <1>4, <2>1, <2>3, <3>1, <3>2, ServiceJobType DEF Writing
  <2> QED BY <1>5, <2>2, <2>3 DEF AddExternalService
<1>6. ASSUME AddExternalMetrics(p) PROVE Goal
  <2>1. cmd[p] = "metrics" /\ Create(p, NewJob(req[p]))  BY <1>6 DEF AddExternalMetrics
  <2>2. CASE jobs[req[p].job] = NoJob
    <3>1. Put(p, NewJob(req[p])) /\ Written(p, NewJob(req[p]))  BY <2>1, <2>2 DEF Create, Written
    <3> QED BY <1>3, <1>4, <2>1, <3>1, NewJobType DEF Writing
  <2> QED BY <2>1, <2>2 DEF Create
<1>7. ASSUME AddExternalInstances(p) PROVE Goal
  <2>1. cmd[p] = "instances" /\ Update(p, Joined(seen[p], req[p]))
    BY <1>7 DEF AddExternalInstances
  <2>2. seen[p] \in Configs  BY <1>1, <1>2, <1>3, <2>1 DEF TypeOK
  <2>3. CASE ~ UNCHANGED jobs
    <3>1. Put(p, Joined(seen[p], req[p])) /\ Written(p, Joined(seen[p], req[p]))
      BY <2>1, <2>3 DEF Update, Written
    <3> QED BY <1>3, <1>4, <2>1, <2>2, <3>1, JoinedType DEF Writing
  <2> QED BY <2>3
<1>8. ASSUME RemoveExternalMetrics(p) PROVE Goal
  BY <1>8 DEF RemoveExternalMetrics, Delete, Written
<1>9. ASSUME RemoveExternalInstances(p) PROVE Goal
  <2>1. cmd[p] = "rminstances"  BY <1>9 DEF RemoveExternalInstances
  <2>2. seen[p] \in Configs  BY <1>1, <1>2, <1>3, <2>1 DEF TypeOK
  <2>3. CASE Without(seen[p], req[p]).entries = {}
    BY <1>9, <2>1, <2>3 DEF RemoveExternalInstances, Delete, Written
  <2>4. CASE Without(seen[p], req[p]).entries # {} /\ ~ UNCHANGED jobs
    <3>1. Put(p, Without(seen[p], req[p])) /\ Written(p, Without(seen[p], req[p]))
      BY <1>9, <2>1, <2>4 DEF RemoveExternalInstances, Update, Written
    <3> QED BY <1>3, <2>2, <2>4, <3>1, WithoutType
  <2> QED BY <2>3, <2>4
<1> QED BY <1>2, <1>5, <1>6, <1>7, <1>8, <1>9 DEF Write

LEMMA NextSteps ==
  ASSUME Next
  PROVE  \E p \in Procs : Begin(p) \/ Get(p) \/ Fail(p) \/ Write(p)
BY DEF Next, Step, Write

LEMMA NextKeeps == Inv /\ [Next]_vars => Inv'
<1> SUFFICES ASSUME Inv, [Next]_vars PROVE Inv'  OBVIOUS
<1>1. CASE UNCHANGED vars
  BY <1>1 DEF Inv, TypeOK, JobsHaveTargets, Asked, Checked, vars, memory
<1>2. CASE Next
  <2>1. PICK p \in Procs : Begin(p) \/ Get(p) \/ Fail(p) \/ Write(p)  BY <1>2, NextSteps
  <2>2. CASE Begin(p)  BY <2>2, BeginKeeps
  <2>3. CASE Get(p)  BY <2>3, GetKeeps
  <2>4. CASE Fail(p)  BY <2>4, PutKeeps DEF Fail
  <2>5. CASE Write(p)  BY <2>5, WriteWrites, PutKeeps
  <2> QED BY <2>1, <2>2, <2>3, <2>4, <2>5
<1> QED BY <1>1, <1>2

\* Inv is inductive.
LEMMA Invariant == Spec => []Inv
<1>1. Init => Inv  BY Initially
<1>2. Inv /\ [Next]_vars => Inv'  BY NextKeeps
<1> QED BY <1>1, <1>2, PTL DEF Spec

\* Every variable keeps its type, and a command that needs a job goes on only with one
\* (external.go, the errors of ScrapeConfigsGet).
THEOREM ExternalTypeCorrect == Spec => []TypeOK
<1>1. Inv => TypeOK  BY DEF Inv
<1> QED BY <1>1, Invariant, PTL

\* However many clients change the jobs, no job is left without a target
\* (external.go, RemoveExternalInstances).
THEOREM NoEmptyJob == Spec => []JobsHaveTargets
<1>1. Inv => JobsHaveTargets  BY DEF Inv
<1> QED BY <1>1, Invariant, PTL

-----------------------------------------------------------------------------
\* A job changes only by a write of a process that works on it.
LEMMA ChangedByWrite ==
  ASSUME Inv, Next, NEW j \in Jobs, jobs'[j] # jobs[j]
  PROVE  \E p \in Procs, c \in Configs \cup {NoJob} :
           Writes(p, j) /\ Written(p, c) /\ jobs'[j] = c
<1>1. PICK p \in Procs : Begin(p) \/ Get(p) \/ Fail(p) \/ Write(p)  BY NextSteps
<1>2. Write(p)  BY <1>1 DEF Begin, Get, Fail
<1>3. pc[p] = "put" /\ Exit(p)  BY <1>2, WriteWrites
<1>4. PICK c \in Configs \cup {NoJob} : Put(p, c) /\ Written(p, c)  BY <1>2, WriteWrites
<1>5. TypeOK  BY DEF Inv
<1>6. j = req[p].job /\ jobs'[j] = c  BY <1>4, <1>5 DEF Put, TypeOK
<1>7. pc'[p] = "idle"  BY <1>3, <1>5 DEF Exit, TypeOK
<1> QED BY <1>3, <1>4, <1>6, <1>7 DEF Writes

LEMMA StepKeepsOthers ==
  ASSUME Inv, [Next]_vars, NEW j \in Jobs, NEW e \in Of(j) \ Of(j)'
  PROVE  \E p \in Procs : Writes(p, j) /\ (MayTake(p, e) \/ Replaces(p) \/ CameLater(p, e))
<1>1. jobs'[j] # jobs[j]  BY DEF Of
<1>2. Next  BY <1>1 DEF vars
<1>3. PICK p \in Procs, c \in Configs \cup {NoJob} :
        Writes(p, j) /\ Written(p, c) /\ jobs'[j] = c
  BY <1>1, <1>2, ChangedByWrite
<1>4. TypeOK  BY DEF Inv
<1>5. jobs[j] # NoJob /\ jobs[j] \in Configs /\ e \in jobs[j].entries
  BY <1>4 DEF Of, TypeOK
<1>6. c # NoJob => e \notin c.entries  BY <1>3 DEF Of
<1>7. j = req[p].job  BY <1>3 DEF Writes
<1>8. SUFFICES ASSUME ~ CameLater(p, e) PROVE MayTake(p, e) \/ Replaces(p)  BY <1>3
<1>9. req[p] \in Requests /\ (seen[p] # NoJob => seen[p] \in Configs /\ e \in seen[p].entries)
  BY <1>4, <1>8 DEF CameLater, TypeOK
<1>10. c \in Configs => c # NoJob  BY ExternalConstants
<1>11. CASE cmd[p] = "rmmetrics"  BY <1>11 DEF MayTake
<1>12. CASE cmd[p] \in {"service", "metrics"}
  BY <1>3, <1>5, <1>7, <1>12 DEF Written, Replaces
<1>13. CASE cmd[p] = "instances"
  <2>1. c = Joined(seen[p], req[p])  BY <1>3, <1>13 DEF Written
  <2>2. seen[p] # NoJob  BY <1>3, <1>4, <1>13 DEF Writes, TypeOK
  <2>3. c \in Configs /\ e \in c.entries  BY <2>1, <2>2, <1>9, JoinedType
  <2> QED BY <2>3, <1>6, <1>10
<1>14. CASE cmd[p] = "rminstances"
  <2> DEFINE left == Without(seen[p], req[p])
  <2>1. seen[p] # NoJob  BY <1>3, <1>4, <1>14 DEF Writes, TypeOK
  <2>2. left \in Configs /\ left.entries = { x \in seen[p].entries : x.at \notin req[p].addresses }
    BY <1>9, <2>1, WithoutType
  <2>3. c = left \/ left.entries = {}  BY <1>3, <1>14 DEF Written
  <2>4. e \notin left.entries  BY <1>6, <1>10, <2>2, <2>3
  <2>5. e.at \in req[p].addresses  BY <1>9, <2>1, <2>2, <2>4
  <2> QED BY <1>14, <2>5 DEF MayTake
<1> QED BY <1>3, <1>11, <1>12, <1>13, <1>14 DEF Written

LEMMA StepNeedsForce ==
  ASSUME Inv, [Next]_vars, NEW j \in Jobs,
         jobs[j] # NoJob, jobs'[j] # NoJob, jobs'[j].params # jobs[j].params
  PROVE  \E p \in Procs : Writes(p, j) /\ ((cmd[p] = "service" /\ req[p].force) \/ ~ Current(p))
<1>1. Next  BY DEF vars
<1>2. PICK p \in Procs, c \in Configs \cup {NoJob} :
        Writes(p, j) /\ Written(p, c) /\ jobs'[j] = c
  BY <1>1, ChangedByWrite
<1>3. TypeOK /\ Checked  BY DEF Inv
<1>4. jobs[j] \in Configs  BY <1>3 DEF TypeOK
<1>5. j = req[p].job /\ pc[p] = "put"  BY <1>2 DEF Writes
<1>6. SUFFICES ASSUME Current(p) PROVE cmd[p] = "service" /\ req[p].force  BY <1>2
<1>7. seen[p] = jobs[j] /\ req[p] \in Requests  BY <1>3, <1>5, <1>6 DEF Current, TypeOK
<1>8. cmd[p] \notin {"instances", "rminstances"}
  <2>1. cmd[p] = "instances" => jobs'[j].params = jobs[j].params
    BY <1>2, <1>4, <1>7, JoinedType DEF Written
  <2>2. cmd[p] = "rminstances" => jobs'[j].params = jobs[j].params
    BY <1>2, <1>4, <1>7, WithoutType DEF Written
  <2> QED BY <2>1, <2>2
<1>9. cmd[p] = "service" /\ jobs'[j] = ServiceJob(seen[p], req[p])
  BY <1>2, <1>5, <1>8 DEF Written
<1>10. Wanted(seen[p], req[p]) # seen[p].params  BY <1>4, <1>7, <1>9, ServiceJobType
<1> QED BY <1>3, <1>5, <1>7, <1>9, <1>10 DEF Checked

\* A target leaves its job by a removal that names it, by a command of another client that
\* read the job before the target came, or by external:service on a job it found, which
\* replaces all targets against its help (external.go:166-190 and 200-289).
THEOREM OthersKeepTheirEntries == Spec => KeepsOthers
<1>1. Inv /\ [Next]_vars =>
        [\A j \in Jobs : \A e \in Of(j) \ Of(j)' :
           \E p \in Procs : Writes(p, j) /\ (MayTake(p, e) \/ Replaces(p) \/ CameLater(p, e))]_vars
  BY StepKeepsOthers
<1> QED BY <1>1, Invariant, PTL DEF Spec, KeepsOthers

\* The parameters of a job are safe from external:service without --force, except where
\* two clients overlap (external.go:143-156).
THEOREM ParametersNeedForce == Spec => ParamsNeedForce
<1>1. Inv /\ [Next]_vars =>
        [\A j \in Jobs :
           jobs[j] # NoJob /\ jobs'[j] # NoJob /\ jobs'[j].params # jobs[j].params =>
             \E p \in Procs :
               Writes(p, j) /\ ((cmd[p] = "service" /\ req[p].force) \/ ~ Current(p))]_vars
  BY StepNeedsForce
<1> QED BY <1>1, Invariant, PTL DEF Spec, ParamsNeedForce
=============================================================================
