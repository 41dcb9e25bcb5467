--------------------------------- MODULE DbUser ---------------------------------
(***************************************************************************)
(* The user pmm that pmm-admin add creates in the databases of a client    *)
(* that ClientConfig configures: how MySQL and PostgreSQL are logged in to, *)
(* when an account may be created or changed, and the one password in      *)
(* pmm.yml that both of them share.                                        *)
(*                                                                         *)
(* An account is a host pattern of the MySQL user pmm, or "pg", the role   *)
(* of PostgreSQL.  The credentials a command is given or detects either    *)
(* work, with all privileges, or do not.  What AddMetrics and AddQueries   *)
(* do once the user is known is one step here, and many in Monitoring and  *)
(* Queries.                                                                *)
(***************************************************************************)
EXTENDS ClientConfig, Sequences

CONSTANTS
  AddRequests,   \* what users ask of add
  Owned,         \* accounts that may exist when the history begins
  Tables,        \* the number of tables of the MySQL server
  TableLimit     \* above which table statistics are turned off

Accounts == {"localhost", "127.0.0.1", "%", "pg"}
Hows == {"socket", "tcp", "remote", "pglocal", "pgremote"}
DbServices == {"mysql:metrics", "mysql:queries", "postgresql:metrics"}
MySQL(how) == how \in {"socket", "tcp", "remote"}

\* The values of a uint16.
TableCounts == 65536

\* A data source name with the password of pmm, or with the given user and NoPassword.
DSNs == [how : Hows, password : Passwords \cup {NoPassword}]

\* The services one command adds in turn, and whether it goes on with the next when there
\* is one already, as the commands for a whole database do; and whether SHOW GRANTS may fail
\* for it (blind).
Jobs == [services : Seq(DbServices), bundle : BOOLEAN, how : Hows, works : BOOLEAN,
         create : BOOLEAN, given : BOOLEAN, force : BOOLEAN, blind : BOOLEAN]

ASSUME DbConstants ==
  /\ AddRequests \subseteq Jobs /\ AddRequests # {}
  /\ \A r \in AddRequests :
       /\ r.services # << >> /\ (r.bundle \/ Len(r.services) = 1)
       /\ \A i \in DOMAIN r.services : MySQL(r.how) <=> r.services[i] # "postgresql:metrics"
  /\ Owned \subseteq Accounts
  /\ Tables \in Nat /\ TableLimit \in 0 .. TableCounts - 1
  /\ DbServices \subseteq Services /\ Unset \notin DSNs

\* Random passwords do not run out: more of them than accounts, pmm.yml and data source names.
ASSUME EnoughPasswords == IsFiniteSet(Passwords) => Cardinality(Passwords) > 8

VARIABLES
  account,   \* the password of each account; NoPassword is no such account
  schema,    \* whether PostgreSQL has the schema and the views of pmm
  dsn,       \* the data source name each service was installed with; Unset is none
  stats,     \* whether the exporter of MySQL collects table statistics
  job,       \* add: what it was asked
  left,      \* the services it has still to add, the current one first
  login,     \* the password of pmm it logs in with; NoPassword is the given credentials
  new,       \* the password it has generated
  plan,      \* the accounts it has still to create or change
  added      \* the services it has installed

database == << account, schema, dsn, stats >>
adding == << job, left, login, new, plan, added >>
dbvars == << database, adding >>
configvars == << shared, task, faults >>

NoJob == CHOOSE r \in AddRequests : TRUE
Service(p) == Head(left[p])

DbLocations == {"init", "access", "getinfo", "check", "grant", "schema", "verify", "sudo", "sudogrant",
                "sudoschema", "store", "duplicate", "tables", "install", "added", "remove"}

DbTypeOK ==
  /\ account \in [Accounts -> Passwords \cup {NoPassword}]
  /\ schema \in BOOLEAN /\ stats \in BOOLEAN
  /\ dsn \in [DbServices -> DSNs \cup {Unset}]
  /\ job \in [Procs -> AddRequests] /\ new \in [Procs -> Passwords \cup {NoPassword}]
  /\ login \in [Procs -> Passwords \cup {NoPassword}]
  /\ left \in [Procs -> Seq(DbServices)] /\ plan \in [Procs -> Seq(Accounts)]
  /\ added \in [Procs -> SUBSET DbServices]

-----------------------------------------------------------------------------
\* The hosts that createUser makes accounts for.
Hosts(how) ==
  CASE how = "socket" -> << "localhost", "127.0.0.1" >>
    [] how = "tcp" -> << "127.0.0.1" >>
    [] how = "remote" -> << "%" >>
    [] OTHER -> << "pg" >>

\* The server's choice: the account of the host, or else the one of every host.
Picked(how) ==
  LET own == Head(Hosts(how))
  IN IF MySQL(how) /\ account[own] = NoPassword THEN "%" ELSE own

Opens(how, w) == w # NoPassword /\ account[Picked(how)] = w
Exists(how) == \E i \in DOMAIN Hosts(how) : account[Hosts(how)[i]] # NoPassword

ForgetJob(p) ==
  /\ job' = [job EXCEPT ![p] = NoJob] /\ left' = [left EXCEPT ![p] = << >>]
  /\ login' = [login EXCEPT ![p] = NoPassword] /\ new' = [new EXCEPT ![p] = NoPassword]
  /\ plan' = [plan EXCEPT ![p] = << >>] /\ added' = [added EXCEPT ![p] = {}]

\* The command ends, with what it has done so far.
Quit(p) ==
  /\ Goto(p, "idle") /\ conf' = [conf EXCEPT ![p] = NoConf] /\ ForgetJob(p)
  /\ UNCHANGED << configvars, database, commands >>

\* The preflight: pmm.yml is complete, and units and registrations agree.
Usable ==
  yml.server /\ Unset \notin {yml.name, yml.addr} /\ Registered(yml.name) = Units

BeginAdd(p) ==
  /\ Ready(p) /\ Usable
  /\ \E r \in AddRequests :
       job' = [job EXCEPT ![p] = r] /\ left' = [left EXCEPT ![p] = r.services]
  /\ conf' = [conf EXCEPT ![p] = Load]
  /\ Goto(p, "init")
  /\ UNCHANGED << configvars, database, login, new, plan, added >>

Go(p, from, to) ==
  At(p, from) /\ Goto(p, to) /\ UNCHANGED << configvars, conf, commands, database, adding >>

FinishAdd(p) == At(p, "added") /\ Quit(p)

\* A password for --create-user is refused with --create-user.
CheckFlags(p) ==
  \/ At(p, "init") /\ job[p].create /\ job[p].given /\ Quit(p)
  \/ ~ (job[p].create /\ job[p].given) /\ Go(p, "init", "access")

\* Mutant: the stored password is not tried.
Stored_Untried(p) == conf[p].password # NoPassword

Stored(p) == conf[p].password # NoPassword /\ Opens(job[p].how, conf[p].password)

LogIn(p, w) ==
  /\ At(p, "access")
  /\ login' = [login EXCEPT ![p] = w]
  /\ Goto(p, "getinfo")
  /\ UNCHANGED << configvars, conf, commands, database, job, left, new, plan, added >>

\* The stored password is tried first, then the credentials of the command.
Access(p) ==
  \/ Stored(p) /\ LogIn(p, conf[p].password)
  \/ ~ Stored(p) /\ job[p].works /\ LogIn(p, NoPassword)

\* Without either, a local PostgreSQL is asked through sudo for a new user.
NoAccess(p) ==
  /\ ~ Stored(p) /\ ~ job[p].works
  /\ \/ job[p].how = "pglocal" /\ job[p].create /\ Go(p, "access", "sudo")
     \/ ~ (job[p].how = "pglocal" /\ job[p].create) /\ At(p, "access") /\ Quit(p)

\* PostgreSQL is left alone when it is pmm that logs in, MySQL is not.
Creates(p) == job[p].create /\ (MySQL(job[p].how) \/ login[p] = NoPassword)

\* getInfo asks MySQL with the given credentials, whichever logged in.
GetInfo(p) ==
  \/ At(p, "getinfo") /\ MySQL(job[p].how) /\ ~ job[p].works /\ Quit(p)
  \/ /\ ~ MySQL(job[p].how) \/ job[p].works
     /\ Go(p, "getinfo", IF Creates(p) THEN "check" ELSE "tables")

-----------------------------------------------------------------------------
(* Creating the user *)

\* Mutant: one of the accounts may exist.
Taken_All(p) ==
  ~ job[p].force /\ \A i \in DOMAIN Hosts(job[p].how) : account[Hosts(job[p].how)[i]] # NoPassword

\* An account that exists is changed only with --force.
Taken(p) == ~ job[p].force /\ Exists(job[p].how)

\* A password that is not in use; it stands for twenty random characters.
InUse == { account[a] : a \in Accounts } \cup { yml.password }
           \cup { dsn[s].password : s \in { t \in DbServices : dsn[t] # Unset } }
Fresh == CHOOSE w \in Passwords : w \notin InUse

\* The accounts makeGrants has statements for: CREATE, or ALTER for one that exists.
Plan(p, from, to) ==
  /\ At(p, from)
  /\ new' = [new EXCEPT ![p] = Fresh]
  /\ plan' = [plan EXCEPT ![p] = Hosts(job[p].how)]
  /\ Goto(p, to)
  /\ UNCHANGED << shared, task, conf, commands, database, job, left, login, added >>

Check(p, from, to) ==
  \/ At(p, from) /\ Taken(p) /\ Quit(p)
  \/ ~ Taken(p) /\ Plan(p, from, to) /\ UNCHANGED faults

\* SHOW GRANTS fails, which to MySQL's check is an account that does not exist.
CheckBlind(p) ==
  /\ At(p, "check") /\ MySQL(job[p].how) /\ Taken(p)
  /\ job[p].blind /\ faults < MaxFaults /\ faults' = faults + 1
  /\ Plan(p, "check", "grant")

\* The statements for one account; those of PostgreSQL go on with the schema and its views.
Grant(p, at, schemaat) ==
  /\ At(p, at) /\ plan[p] # << >>
  /\ account' = [account EXCEPT ![Head(plan[p])] = new[p]]
  /\ plan' = [plan EXCEPT ![p] = Tail(@)]
  /\ Goto(p, IF Head(plan[p]) = "pg" THEN schemaat ELSE at)
  /\ UNCHANGED << configvars, conf, commands, schema, dsn, stats, job, left, login, new, added >>

GrantSchema(p, from, to) ==
  /\ At(p, from)
  /\ schema' = TRUE
  /\ Goto(p, to)
  /\ UNCHANGED << configvars, conf, commands, account, dsn, stats, adding >>

CheckUser(p) == Check(p, "check", "grant")
GrantUser(p) == Grant(p, "grant", "schema") \/ GrantSchema(p, "schema", "grant")
CheckSudo(p) == Check(p, "sudo", "sudogrant")
GrantSudo(p) == Grant(p, "sudogrant", "sudoschema") \/ GrantSchema(p, "sudoschema", "sudogrant")

Granted(p) == plan[p] = << >> /\ Go(p, "grant", "verify")

\* testConnection with the new user, which can log in (or else this step would deadlock).
Verify(p) == Opens(job[p].how, new[p]) /\ Go(p, "verify", "tables")

\* The user that sudo made is good, but what is tested then is the user of the command,
\* which has failed before.
VerifySudo(p) == At(p, "sudogrant") /\ plan[p] = << >> /\ Quit(p)

-----------------------------------------------------------------------------
(* Adding the service *)

Password(p) == IF new[p] # NoPassword THEN new[p] ELSE login[p]

Duplicate(p) == Default(conf[p].name) \in catalog[conf[p].name][Service(p)]

\* Mutants: the password is written only for a service to be added; for every service.
CountTables_AfterDuplicate(p) ==
  Go(p, "tables", IF new[p] # NoPassword /\ ~ Duplicate(p) THEN "store" ELSE "duplicate")
CountTables_Always(p) == Go(p, "tables", "store")

\* The password goes to pmm.yml as soon as Init returns; AddMetrics counts tables before.
CountTables(p) == Go(p, "tables", IF new[p] # NoPassword THEN "store" ELSE "duplicate")

Store(p) ==
  /\ At(p, "store")
  /\ conf' = [conf EXCEPT ![p].password = new[p]]
  /\ yml' = [conf[p] EXCEPT !.password = new[p]]
  /\ Goto(p, "duplicate")
  /\ UNCHANGED << catalog, address, keys, qan, files, agent, units, task, faults, commands,
                  database, adding >>

\* The next service starts over, from the flags.
NextPass(p) ==
  /\ left' = [left EXCEPT ![p] = Tail(@)]
  /\ login' = [login EXCEPT ![p] = NoPassword] /\ new' = [new EXCEPT ![p] = NoPassword]
  /\ Goto(p, IF Len(left[p]) = 1 THEN "added" ELSE "init")

CheckDuplicate(p) ==
  \/ Go(p, "duplicate", "install") /\ ~ Duplicate(p)
  \/ At(p, "duplicate") /\ Duplicate(p) /\ ~ job[p].bundle /\ Quit(p)
  \/ /\ At(p, "duplicate") /\ Duplicate(p) /\ job[p].bundle
     /\ NextPass(p)
     /\ UNCHANGED << configvars, conf, commands, database, job, plan, added >>

\* The number of tables is cut to 16 bits.
TooManyTables == Tables % TableCounts > TableLimit

\* The instances that QAN does not know yet, and the one it makes; UUIDs bounds their number.
Unknown(s) == { u \in UUIDs : u.service = s /\ qan[u] = Unset }
NewInstance(s, a) ==
  LET u == [service |-> s, alias |-> a]
  IN IF u \in Unknown(s) THEN u ELSE CHOOSE v \in Unknown(s) : TRUE

Install(p) ==
  /\ At(p, "install")
  /\ LET s == Service(p)
         n == conf[p].name
         a == Default(n)
         u == NewInstance(s, a)
         queries == s \in QueriesServices
     IN /\ queries => Unknown(s) # {}
        /\ catalog' = [catalog EXCEPT ![n][s] = @ \cup {a}]
        /\ address' = [address EXCEPT ![n] = conf[p].addr]
        /\ agent' = IF queries /\ agent = Unset THEN conf[p].auth ELSE agent
        /\ units' = [units EXCEPT ![s] = IF @ # Unset THEN @ ELSE IF queries THEN agent' ELSE yml.auth]
        /\ keys' = IF queries
                   THEN keys \cup {[node |-> n, service |-> s, alias |-> a, uuid |-> u]} ELSE keys
        /\ qan' = IF queries THEN [qan EXCEPT ![u] = a] ELSE qan
        /\ files' = IF queries THEN [files EXCEPT ![u] = a] ELSE files
        /\ dsn' = [dsn EXCEPT ![s] = [how |-> job[p].how, password |-> Password(p)]]
        /\ stats' = IF s = "mysql:metrics" THEN ~ TooManyTables ELSE stats
        /\ added' = [added EXCEPT ![p] = @ \cup {s}]
  /\ NextPass(p)
  /\ UNCHANGED << yml, task, conf, commands, faults, account, schema, job, plan >>

-----------------------------------------------------------------------------
(* remove --all, which ends with the password *)

BeginRemoveAll(p) ==
  /\ Ready(p) /\ Usable /\ Units # {}
  /\ conf' = [conf EXCEPT ![p] = Load]
  /\ todo' = [todo EXCEPT ![p] = Units]
  /\ Goto(p, "remove")
  /\ UNCHANGED << shared, req, seen, cur, ktodo, key, errs, faults, dbvars >>

KeysOf(n, s) == { k \in keys : k.node = n /\ k.service = s /\ k.alias \in catalog[n][s] }
Removable(n, s) == s \in QueriesServices => { k.alias : k \in KeysOf(n, s) } = catalog[n][s]

\* RemoveMetrics and RemoveQueries, which needs the key of every name.
RemoveService(p) ==
  /\ At(p, "remove")
  /\ LET n == conf[p].name
     IN \E s \in todo[p] :
          /\ Removable(n, s)
          /\ Visited(p, s)
          /\ catalog' = [catalog EXCEPT ![n][s] = {}]
          /\ keys' = keys \ KeysOf(n, s)
          /\ qan' = [u \in UUIDs |-> IF \E k \in KeysOf(n, s) : k.uuid = u THEN Unset ELSE qan[u]]
          /\ files' = [u \in UUIDs |-> IF \E k \in KeysOf(n, s) : k.uuid = u THEN Unset ELSE files[u]]
          /\ units' = [units EXCEPT ![s] = Unset]
          /\ dsn' = [t \in DbServices |-> IF t = s THEN Unset ELSE dsn[t]]
  /\ UNCHANGED << yml, address, agent, pc, conf, req, seen, cur, ktodo, key, errs, commands, faults,
                  account, schema, stats, adding >>

NotRemovable(p) ==
  /\ At(p, "remove") /\ \E s \in todo[p] : ~ Removable(conf[p].name, s)
  /\ Leave(p) /\ UNCHANGED dbvars

\* PMM-606: the password is forgotten with the services.
ClearPassword(p) ==
  /\ At(p, "remove") /\ todo[p] = {}
  /\ yml' = [conf[p] EXCEPT !.password = NoPassword]
  /\ Exit(p)
  /\ UNCHANGED << catalog, address, keys, qan, files, agent, units, commands, faults, dbvars >>

FailAdd(p) ==
  /\ pc[p] \in DbLocations /\ "exit" \in FaultKinds
  /\ faults < MaxFaults /\ faults' = faults + 1
  /\ Exit(p) /\ ForgetJob(p)
  /\ UNCHANGED << shared, commands, database >>

DbStep(p) ==
  \/ BeginAdd(p) \/ CheckFlags(p) \/ Access(p) \/ NoAccess(p) \/ GetInfo(p)
  \/ CheckUser(p) \/ GrantUser(p) \/ Granted(p) \/ Verify(p)
  \/ CheckSudo(p) \/ GrantSudo(p) \/ VerifySudo(p)
  \/ CountTables(p) \/ Store(p) \/ CheckDuplicate(p) \/ Install(p) \/ FinishAdd(p)
  \/ BeginRemoveAll(p) \/ RemoveService(p) \/ NotRemovable(p) \/ ClearPassword(p)
=============================================================================
