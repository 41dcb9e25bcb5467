-------------------------------- MODULE External --------------------------------
(***************************************************************************)
(* External services: scrape jobs that pmm-managed keeps for the exporters *)
(* users run themselves.  pmm-admin changes a job by reading it,           *)
(* changing what it read, and writing all of it back; any number of        *)
(* clients do so with the same job, and neither side compares versions.    *)
(*                                                                         *)
(* A job is a record of its parameters (interval, timeout, path, scheme)   *)
(* and of its entries, each a target address with the instance it is       *)
(* labelled with.  The static configurations that group the entries, and   *)
(* an entry given twice, make no difference to any command.                *)
(***************************************************************************)
EXTENDS FiniteSets, Integers

CONSTANTS
  Procs,      \* pmm-admin processes, on any client of the server
  Jobs,       \* names of scrape jobs
  Entries,    \* records [at : an address, instance : a label]
  Local,      \* for every process, the address external:service works with there
  Fields,     \* the parameters of a job
  Values,     \* what they may be
  Default,    \* what the server stores for a parameter that is not given
  Given,      \* what a user may give: a value, or Omit, for every parameter
  Omit,
  NoJob,      \* what is read of a job that does not exist
  Commands,   \* the commands users give
  MaxActive   \* bound on the number of processes running at once

Addresses == { e.at : e \in Entries }
Params == [Fields -> Values]
Configs == [params : Params, entries : SUBSET Entries]

ASSUME ExternalConstants ==
  /\ Jobs # {} /\ Given # {}
  /\ Given \subseteq [Fields -> Values \cup {Omit}]
  /\ Default \in Values /\ Omit \notin Values
  /\ NoJob \notin Configs
  /\ Local \in [Procs -> Addresses]
  /\ MaxActive \in Nat

\* What a command was given; entries only where it adds, addresses only where it removes.
Requests == [job : Jobs, entries : SUBSET Entries, addresses : SUBSET Addresses,
             given : Given, force : BOOLEAN]

VARIABLES
  jobs,   \* the scrape jobs of the server
  pc,     \* where each process is
  cmd,    \* its command
  req,    \* what the command was given
  seen    \* the job as it was read

memory == << pc, cmd, req, seen >>
vars == << jobs, memory >>

NoRequest == CHOOSE r \in Requests : TRUE

\* The commands that read a job before they write it.
Reading == {"service", "instances", "rminstances"}
Writing == {"service", "metrics", "instances"}

TypeOK ==
  /\ jobs \in [Jobs -> Configs \cup {NoJob}]
  /\ pc \in [Procs -> {"idle", "get", "put"}]
  /\ cmd \in [Procs -> Commands \cup {"none"}]
  /\ req \in [Procs -> Requests]
  /\ seen \in [Procs -> Configs \cup {NoJob}]
  /\ \A p \in Procs : pc[p] = "put" /\ cmd[p] \in {"instances", "rminstances"} => seen[p] # NoJob

Init ==
  /\ jobs = [j \in Jobs |-> NoJob]
  /\ pc = [p \in Procs |-> "idle"] /\ cmd = [p \in Procs |-> "none"]
  /\ req = [p \in Procs |-> NoRequest] /\ seen = [p \in Procs |-> NoJob]

-----------------------------------------------------------------------------
Exit(p) ==
  /\ pc' = [pc EXCEPT ![p] = "idle"] /\ cmd' = [cmd EXCEPT ![p] = "none"]
  /\ req' = [req EXCEPT ![p] = NoRequest] /\ seen' = [seen EXCEPT ![p] = NoJob]

\* What the command line accepts: at least one target; external:service names one
\* target, on the host it is given on.
Accepted(p, c, r) ==
  /\ r.entries # {} <=> c \in Writing
  /\ r.addresses # {} <=> c = "rminstances"
  /\ c = "service" => Cardinality(r.entries) = 1 /\ \A e \in r.entries : e.at = Local[p]
  /\ c \notin {"service", "metrics"} => r.given = NoRequest.given
  /\ c = "metrics" \/ c = "service" \/ ~ r.force

Begin(p) ==
  /\ pc[p] = "idle"
  /\ Cardinality({q \in Procs : pc[q] # "idle"}) < MaxActive
  /\ \E c \in Commands, r \in Requests :
       /\ Accepted(p, c, r)
       /\ cmd' = [cmd EXCEPT ![p] = c] /\ req' = [req EXCEPT ![p] = r]
       /\ pc' = [pc EXCEPT ![p] = IF c \in Reading THEN "get" ELSE "put"]
  /\ UNCHANGED << jobs, seen >>

\* The parameters that external:service would give the job.
Wanted(c, r) == [f \in Fields |-> IF r.given[f] = Omit THEN c.params[f] ELSE r.given[f]]

\* The parameters given that are not the job's.
Changes(c, r) == { f \in Fields : Wanted(c, r)[f] # c.params[f] }

\* Mutant: no command minds a job that is not there.
Refused_Missing(p, c) ==
  cmd[p] = "service" /\ c # NoJob /\ ~ req[p].force /\ Changes(c, req[p]) # {}

\* Mutant: external:service changes whatever parameters it is given.
Refused_Changed(p, c) == cmd[p] # "service" /\ c = NoJob

\* A job that is not there is an error, but for external:service, which stops instead if it
\* would change a parameter without --force.
Refused(p, c) ==
  IF cmd[p] = "service"
  THEN c # NoJob /\ ~ req[p].force /\ Changes(c, req[p]) # {}
  ELSE c = NoJob

\* ScrapeConfigsGet, and what the command makes of its answer.
Get(p) ==
  /\ pc[p] = "get"
  /\ LET c == jobs[req[p].job]
     IN IF Refused(p, c)
        THEN Exit(p)
        ELSE /\ seen' = [seen EXCEPT ![p] = c] /\ pc' = [pc EXCEPT ![p] = "put"]
             /\ UNCHANGED << cmd, req >>
  /\ UNCHANGED jobs

Put(p, c) == jobs' = [jobs EXCEPT ![req[p].job] = c]

\* pmm-managed: Create refuses a job that exists, Update and Delete one that does not.
Create(p, c) == IF jobs[req[p].job] = NoJob THEN Put(p, c) ELSE UNCHANGED jobs
Update(p, c) == IF jobs[req[p].job] # NoJob THEN Put(p, c) ELSE UNCHANGED jobs
Delete(p) == Put(p, NoJob)

\* A job as it is made of a command: the server fills in what is not given.
NewJob(r) ==
  [params |-> [f \in Fields |-> IF r.given[f] = Omit THEN Default ELSE r.given[f]],
   entries |-> r.entries]

\* A job that exists is given the one target of the command in place of its own.
ServiceJob(c, r) == [params |-> Wanted(c, r), entries |-> r.entries]

AddExternalService(p) ==
  /\ pc[p] = "put" /\ cmd[p] = "service"
  /\ IF seen[p] = NoJob THEN Create(p, NewJob(req[p])) ELSE Update(p, ServiceJob(seen[p], req[p]))
  /\ Exit(p)

AddExternalMetrics(p) ==
  /\ pc[p] = "put" /\ cmd[p] = "metrics"
  /\ Create(p, NewJob(req[p]))
  /\ Exit(p)

RemoveExternalMetrics(p) ==
  /\ pc[p] = "put" /\ cmd[p] = "rmmetrics"
  /\ Delete(p)
  /\ Exit(p)

\* Mutant: the entries of the command in place of those of the job.
Joined_Replaced(c, r) == [c EXCEPT !.entries = r.entries]

\* The job with the entries of the command.
Joined(c, r) == [c EXCEPT !.entries = @ \cup r.entries]

AddExternalInstances(p) ==
  /\ pc[p] = "put" /\ cmd[p] = "instances"
  /\ Update(p, Joined(seen[p], req[p]))
  /\ Exit(p)

\* The job without any entry that has an address of the command.
Without(c, r) == [c EXCEPT !.entries = { e \in @ : e.at \notin r.addresses }]

\* Mutant: a job is written back whatever is left of it.
RemoveExternalInstances_NoDelete(p) ==
  /\ pc[p] = "put" /\ cmd[p] = "rminstances"
  /\ Update(p, Without(seen[p], req[p]))
  /\ Exit(p)

\* external:service and external:instances; the job goes with its last entry.
RemoveExternalInstances(p) ==
  /\ pc[p] = "put" /\ cmd[p] = "rminstances"
  /\ LET c == Without(seen[p], req[p])
     IN IF c.entries = {} THEN Delete(p) ELSE Update(p, c)
  /\ Exit(p)

\* A call fails, the server refuses a target it cannot reach, or the process is killed.
\* A call that is carried out but not answered looks like one that succeeds.
Fail(p) == pc[p] # "idle" /\ Exit(p) /\ UNCHANGED jobs

Step(p) ==
  \/ Begin(p) \/ Get(p) \/ Fail(p)
  \/ AddExternalService(p) \/ AddExternalMetrics(p) \/ AddExternalInstances(p)
  \/ RemoveExternalMetrics(p) \/ RemoveExternalInstances(p)

Next == \E p \in Procs : Step(p)

Spec == Init /\ [][Next]_vars

-----------------------------------------------------------------------------
\* No job is left without a target, however the commands of several clients interleave:
\* the one that takes the last entry deletes the job (external.go, RemoveExternalInstances).
JobsHaveTargets == \A j \in Jobs : jobs[j] # NoJob => jobs[j].entries # {}

Of(j) == IF jobs[j] = NoJob THEN {} ELSE jobs[j].entries

\* What p read of its job is what the job is now.
Current(p) == seen[p] = jobs[req[p].job]

Writes(p, j) == pc[p] = "put" /\ pc'[p] = "idle" /\ req[p].job = j

\* p was asked to take e away.
MayTake(p, e) ==
  cmd[p] = "rmmetrics" \/ (cmd[p] = "rminstances" /\ e.at \in req[p].addresses)

\* p is external:service and found the job: it writes its one target in place of all the
\* job has (external.go:166-190), although its help says it adds to the job (pmm-admin.go:677).
Replaces(p) == cmd[p] = "service" /\ seen[p] # NoJob

\* e came to the job after p had read it.
CameLater(p, e) == seen[p] # NoJob /\ e \notin seen[p].entries

\* But for external:service on a job that exists, an entry leaves a job only by a command
\* that names it, or by a command that read the job before the entry came: what is read is
\* written back, and a job that exists is never created again (external.go:200-289).
KeepsOthers ==
  [][\A j \in Jobs : \A e \in Of(j) \ Of(j)' :
       \E p \in Procs : Writes(p, j) /\ (MayTake(p, e) \/ Replaces(p) \/ CameLater(p, e))]_vars

\* The parameters of a job that stays change only by external:service --force, or by a
\* client that writes back what another has changed since (external.go:143-156).
ParamsNeedForce ==
  [][\A j \in Jobs : jobs[j] # NoJob /\ jobs'[j] # NoJob /\ jobs'[j].params # jobs[j].params =>
       \E p \in Procs : Writes(p, j) /\ ((cmd[p] = "service" /\ req[p].force) \/ ~ Current(p))]_vars
=============================================================================
