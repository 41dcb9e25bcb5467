--------------------------------- MODULE Client ---------------------------------
(***************************************************************************)
(* One client over its life: configured, renamed, given users in its       *)
(* databases and services, and emptied again, one pmm-admin at a time.     *)
(* ClientConfig and DbUser meet in pmm.yml, which every command reads when *)
(* it starts and writes as a whole, and in what is registered.             *)
(***************************************************************************)
EXTENDS DbUser

vars == << configvars, pc, conf, commands, dbvars >>

TypeOK ==
  /\ ConfigTypeOK /\ DbTypeOK
  /\ pc \in [Procs -> {"idle"} \cup Locations \cup DbLocations]
  /\ \A p \in Procs : At(p, "grant") \/ At(p, "store") => new[p] # NoPassword
  /\ \A p \in Procs : pc[p] \in DbLocations \ {"remove", "added"} => left[p] # << >>

\* Before the history the client was never configured, or a configured one whose services
\* are those of a catalog; in the first case they and the agent may be what a lost client left.
Beginning(c, configured, own) ==
  LET n == Hostname
      a == CHOOSE x \in LocalAddresses : TRUE
      named == { u \in UUIDs : u.alias \in c[u.service] }
      installed == { s \in Services : configured /\ c[s] # {} }
  IN /\ yml = IF configured
              THEN [NoConf EXCEPT !.server = TRUE, !.name = n, !.addr = a, !.bind = a] ELSE NoConf
     /\ catalog = [m \in Names |-> IF m = n THEN c ELSE Nothing]
     /\ address = [m \in Names |-> IF m = n /\ c # Nothing THEN a ELSE Unset]
     /\ keys = { [node |-> n, service |-> u.service, alias |-> u.alias, uuid |-> u] : u \in named }
     /\ qan = [u \in UUIDs |-> IF u \in named THEN u.alias ELSE Unset]
     /\ files = [u \in UUIDs |-> IF u \in named /\ configured THEN u.alias ELSE Unset]
     /\ agent = IF configured /\ installed \cap QueriesServices = {} THEN Unset ELSE NoAuth
     /\ units = [s \in Services |-> IF s \in installed THEN NoAuth ELSE Unset]
     /\ account = [x \in Accounts |-> IF x \in own THEN CHOOSE w \in Passwords : TRUE ELSE NoPassword]
     /\ schema = FALSE /\ stats = TRUE /\ dsn = [s \in DbServices |-> Unset]
     /\ pc = [p \in Procs |-> "idle"] /\ conf = [p \in Procs |-> NoConf]
     /\ req = [p \in Procs |-> NoRequest] /\ seen = [p \in Procs |-> Nothing]
     /\ todo = [p \in Procs |-> {}] /\ cur = [p \in Procs |-> NoService]
     /\ ktodo = [p \in Procs |-> {}] /\ key = [p \in Procs |-> NoKey]
     /\ errs = [p \in Procs |-> FALSE]
     /\ job = [p \in Procs |-> NoJob] /\ left = [p \in Procs |-> << >>]
     /\ login = [p \in Procs |-> NoPassword] /\ new = [p \in Procs |-> NoPassword]
     /\ plan = [p \in Procs |-> << >>] /\ added = [p \in Procs |-> {}]
     /\ commands = 0 /\ faults = 0

Init ==
  \E c \in Catalogs, configured \in BOOLEAN, own \in SUBSET Owned : Beginning(c, configured, own)

\* The end of the history: the bound on the number of commands.
Halt == commands = MaxCommands /\ (\A p \in Procs : At(p, "idle")) /\ UNCHANGED vars

Next ==
  \/ Halt
  \/ \E p \in Procs :
       \/ ConfigStep(p) /\ UNCHANGED dbvars
       \/ Fail(p) /\ UNCHANGED dbvars
       \/ DbStep(p)
       \/ FailAdd(p)
       \/ CheckBlind(p)

Spec == Init /\ [][Next]_vars

-----------------------------------------------------------------------------
Everywhere == UNION { Registered(n) : n \in Names }
Known == { u \in UUIDs : qan[u] # Unset /\ \E k \in keys : k.uuid = u }

\* A service is registered somewhere, and the UUID of an instance that QAN has is kept
\* somewhere, until they are removed, repaired, or dropped with the old node after renaming
\* met an error (config.go:340-419: register before deregister, put before delete).
NothingLost ==
  [][\/ Everywhere \subseteq Everywhere' /\ \A u \in Known : qan'[u] # Unset => u \in Known'
     \/ \E p \in Procs : \/ At(p, "remove") \/ At(p, "repair")
                         \/ At(p, "svc") /\ todo[p] = {} /\ errs[p]]_vars

Moved(p) == { s \in Services : seen[p][s] # {} }

\* Where renaming has succeeded: the services are all under the new name, and, if nothing
\* failed before either, every name of a queries service that is the client's, or none of it,
\* still leads to its instance, for MySQL by that name in QAN and on the agent.
Leads(s, a) ==
  \E k \in keys :
    /\ k.node = yml.name /\ k.service = s /\ k.alias = a /\ qan[k.uuid] # Unset
    /\ s = "mysql:queries" => qan[k.uuid] = a /\ files[k.uuid] = a

Named(s) == { a \in catalog[yml.name][s] : a.rest = "" \/ a.of = Unset }

Renamed(p) ==
  \A s \in Moved(p) :
    /\ s \in Registered(yml.name)
    /\ faults = 0 /\ s \in QueriesServices => \A a \in Named(s) : Leads(s, a)

\* Where the credentials may have changed: what runs has loaded those that are now in pmm.yml.
Reloaded(p) ==
  /\ RestartsAll(p) => \A s \in Units : units[s] = yml.auth
  /\ \A s \in Units \cap QueriesServices \cap Registered(yml.name) : units[s] = yml.auth

\* When config answers OK and renaming met no error, Consul, QAN and the units say what
\* pmm.yml says (config.go:261-287, and config --help: the credentials are used "for all
\* metric services automatically").
ConfigIsTrue ==
  \A p \in Procs : At(p, "configured") /\ ~ errs[p] => Renamed(p) /\ Reloaded(p)

\* The server looks for the services of a client where pmm.yml says that they are
\* (config.go:208 and 228 refuse a change "if there are no services under monitoring" only).
AddressAgrees ==
  yml.name # Unset =>
    \A s \in Registered(yml.name) \cap Units : address[yml.name] = yml.addr

\* The check for an account is not made with --force, and does not find it where SHOW GRANTS
\* fails (mysql.go:178).
Unchecked(p) == job[p].force \/ job[p].blind

\* An account that exists gets another password only with --force, or by a command for which
\* SHOW GRANTS may fail (mysql.go:130 and 175-192, postgresql.go:178 and 236).
ForceOnly ==
  [][\A a \in Accounts : account[a] # NoPassword /\ account'[a] # account[a] =>
       \E p \in Procs : job[p].create /\ Unchecked(p)]_vars

\* The password in pmm.yml is that of an account, as long as nothing fails.
StoredWorks ==
  (faults = 0 /\ \A p \in Procs : At(p, "idle")) /\ yml.password # NoPassword =>
    \E a \in Accounts : account[a] = yml.password

Reaches(s) ==
  /\ dsn[s] # Unset
  /\ dsn[s].password = NoPassword \/ Opens(dsn[s].how, dsn[s].password)

\* A later service of the same command may change the password that this one was installed
\* with.
Overtaken(p) == job[p].bundle /\ job[p].create /\ Unchecked(p)

\* When add answers OK, what it has installed runs, with a data source name that works if it
\* is not overtaken, and without table statistics if there are too many tables, counted in
\* 16 bits.
AddIsTrue ==
  \A p \in Procs : At(p, "added") =>
    \A s \in added[p] :
      /\ s \in Units \cap Registered(yml.name) /\ (Overtaken(p) \/ Reaches(s))
      /\ s = "postgresql:metrics" /\ dsn[s].password # NoPassword => schema
      /\ s = "mysql:metrics" /\ Tables < TableCounts => stats = (Tables <= TableLimit)
=============================================================================
