------------------------------ MODULE Life_proofs ------------------------------
(***************************************************************************)
(* Proofs about Client, continued: what add and config report is true.     *)
(*   BInv   what the command has installed, while it adds the rest;        *)
(*   KInv   what Consul, QAN and the agent have of the names of a client's *)
(*          queries services, at every step of moving them to a new name,  *)
(*          as long as nothing fails;                                      *)
(*   RInv   what renaming has registered, and which credentials have been  *)
(*          loaded by what runs.                                           *)
(* The invariants of Client_proofs are below all of them.                  *)
(***************************************************************************)
EXTENDS Client_proofs

-----------------------------------------------------------------------------
(* What add has installed *)

Working == {"tables", "store", "duplicate", "install"}

\* What add has installed is there, and works unless it is overtaken.
Good(p, s) ==
  /\ units[s] # Unset /\ catalog[conf[p].name][s] # {} /\ dsn[s] # Unset
  /\ Overtaken(p) \/ Reaches(s)
  /\ s = "postgresql:metrics" /\ dsn[s].password # NoPassword => schema
  /\ s = "mysql:metrics" /\ Tables < TableCounts => stats = (Tables <= TableLimit)

\* The services left are those of the database that the job is about.
Suited(p) == \A i \in DOMAIN left[p] : MySQL(job[p].how) <=> left[p][i] # "postgresql:metrics"

Installs(p) ==
  /\ pc[p] \in DbLocations \ {"remove"} => Suited(p)
  /\ \A s \in added[p] : pc[p] \in DbLocations \ {"remove"} /\ dsn[s].how = job[p].how /\ Good(p, s)
  /\ pc[p] \in DbLocations \ {"remove", "added"} /\ ~ job[p].bundle => added[p] = {} /\ Len(left[p]) = 1
  /\ pc[p] \in Granting => (added[p] = {} \/ Unchecked(p)) /\ new[p] \notin {NoPassword, yml.password}
  /\ job[p].create /\ (added[p] # {} \/ pc[p] \in Working \cup {"schema", "sudoschema", "verify"}) => Exists(job[p].how)
  /\ pc[p] \in {"grant", "sudogrant"} => plan[p] = Hosts(job[p].how) \/ Exists(job[p].how)
  /\ pc[p] \in Working \cup {"getinfo"} /\ Password(p) # NoPassword => Opens(job[p].how, Password(p))
  /\ pc[p] \in {"getinfo", "duplicate", "install"} \/ (pc[p] = "tables" /\ new[p] = NoPassword) =>
       Password(p) \in {NoPassword, yml.password}
  /\ pc[p] \in {"grant", "sudogrant", "verify", "tables", "store"} /\ new[p] # NoPassword /\ account["pg"] = new[p] =>
       schema

BInv ==
  /\ account["pg"] # NoPassword /\ account["pg"] = yml.password => schema
  /\ \A p \in Procs : Installs(p)

LEMMA PickedOK ==
  ASSUME NEW how
  PROVE  /\ Picked(how) \in Accounts
         /\ ~ MySQL(how) => Picked(how) = "pg" /\ Hosts(how) = << "pg" >>
         /\ Hosts(how) # << >>
BY DEF Picked, Hosts, Accounts, MySQL

\* What is not idle has the turn.
LEMMA OthersInstall ==
  ASSUME Typed, BInv, NEW p \in Procs, Turn(p), \A q \in Procs \ {p} : pc'[q] = pc[q] /\ added'[q] = added[q]
  PROVE  \A q \in Procs \ {p} : Installs(q)'
<1> TAKE q \in Procs \ {p}
<1>1. pc[q] = "idle" BY DEF Turn
<1>2. added[q] = {} BY <1>1 DEF BInv, Installs, DbLocations
<1> QED BY <1>1, <1>2 DEF Installs, DbLocations, Granting, Working

\* A command that is outside add has added nothing.
LEMMA OutsideInstall ==
  ASSUME NEW p \in Procs, pc'[p] \notin DbLocations \ {"remove"}, added'[p] = {}
  PROVE  Installs(p)'
BY DEF Installs, DbLocations, Granting, Working

LEMMA FreshUnused == Fresh \notin {NoPassword, yml.password} /\ account["pg"] # Fresh
BY FreshOK, ConfigConstants DEF InUse, Accounts

LEMMA InstallsConfig ==
  ASSUME Typed, SInv, BInv, NEW p \in Procs, Turn(p), ConfigStep(p), UNCHANGED dbvars
  PROVE  BInv'
<1>1. UNCHANGED << account, schema, added >> BY DEF dbvars, database, adding
<1>2. yml'.password = yml.password BY ConfigKeepsPassword DEF SInv, Remembers
<1>3. pc[p] \in Locations \cup {"idle"} /\ pc'[p] \in Locations \cup {"idle"} /\ \A q \in Procs \ {p} : pc'[q] = pc[q]
  BY ConfigMoves, ConfigFrom DEF Goes, Typed, TInv
<1>4. \A l \in Locations \cup {"idle"} : l \notin DbLocations BY DEF Locations, DbLocations
<1>5. added[p] = {} BY <1>3, <1>4 DEF BInv, Installs
<1>6. Installs(p)' BY <1>1, <1>3, <1>4, <1>5, OutsideInstall
<1> QED BY <1>1, <1>2, <1>3, <1>6, OthersInstall DEF BInv

\* A command ends, or starts to configure or remove.
LEMMA InstallsOutside ==
  ASSUME Typed, BInv, NEW p \in Procs, Turn(p), NEW l \in {"idle", "remove"}, pc' = [pc EXCEPT ![p] = l],
         added'[p] = {}, \A q \in Procs \ {p} : added'[q] = added[q], UNCHANGED << account, schema >>,
         yml'.password \in {NoPassword, yml.password}
  PROVE  BInv'
<1>1. pc'[p] = l /\ \A q \in Procs \ {p} : pc'[q] = pc[q] BY DEF Typed, TInv
<1>2. Installs(p)' BY <1>1, OutsideInstall DEF DbLocations
<1> QED BY <1>1, <1>2, OthersInstall DEF BInv

LEMMA QuitInstalls ==
  ASSUME Typed, BInv, NEW p \in Procs, Turn(p), Quit(p)
  PROVE  BInv'
<1>1. added' = [added EXCEPT ![p] = {}] /\ pc' = [pc EXCEPT ![p] = "idle"] /\ UNCHANGED << account, schema, yml >>
  BY DEF Quit, ForgetJob, Goto, configvars, shared, database
<1>2. added'[p] = {} /\ \A q \in Procs \ {p} : added'[q] = added[q] BY <1>1 DEF Typed, DInv, DbTypeOK
<1> QED BY <1>1, <1>2, InstallsOutside

\* Steps of add that change neither what is installed nor the accounts.
LEMMA GoInstalls ==
  ASSUME Typed, SInv, BInv, NEW p \in Procs, Turn(p), NEW from \in DbLocations, NEW to \in DbLocations,
         Go(p, from, to),
         \/ from = "init" /\ to = "access"
         \/ from = "access" /\ to = "sudo"
         \/ from = "getinfo" /\ to = "check"
         \/ from = "getinfo" /\ to = "tables" /\ ~ Creates(p)
         \/ from = "grant" /\ to = "verify" /\ plan[p] = << >>
         \/ from = "verify" /\ to = "tables" /\ Opens(job[p].how, new[p])
         \/ from = "tables" /\ to = "store" /\ new[p] # NoPassword
         \/ from = "tables" /\ to = "duplicate" /\ new[p] = NoPassword
         \/ from = "duplicate" /\ to = "install"
  PROVE  BInv'
<1>1. /\ pc[p] = from /\ pc' = [pc EXCEPT ![p] = to]
      /\ UNCHANGED << yml, faults, catalog, units, conf, account, schema, dsn, stats, job, left, login, new, plan, added >>
  BY DEF Go, At, Goto, configvars, shared, database, adding
<1>2. pc'[p] = to /\ \A q \in Procs \ {p} : pc'[q] = pc[q] BY <1>1 DEF Typed, TInv
<1>3. Installs(p) /\ Remembers(p) BY DEF BInv, SInv
<1>4. Suited(p)' = Suited(p) /\ \A s \in added[p] : Good(p, s)' <=> Good(p, s)
  BY <1>1 DEF Suited, Good, Overtaken, Unchecked, Reaches, Opens, Picked
<1>5. Password(p)' = Password(p) /\ Exists(job[p].how)' = Exists(job[p].how)
      /\ \A w : Opens(job[p].how, w)' = Opens(job[p].how, w)
  BY <1>1 DEF Password, Exists, Opens, Picked
<1>6. from = "getinfo" => new[p] = NoPassword BY <1>1, <1>3 DEF Remembers, Renewing, Asking
<1>7. Opens(job[p].how, new[p]) => new[p] # NoPassword BY DEF Opens
<1>8. Hosts(job[p].how) # << >> BY PickedOK
<1>9. from = "getinfo" /\ to = "tables" /\ job[p].create => Exists(job[p].how)
  <2> SUFFICES ASSUME from = "getinfo", to = "tables", job[p].create PROVE Exists(job[p].how)
    OBVIOUS
  <2>1. ~ MySQL(job[p].how) /\ login[p] # NoPassword BY DEF Creates
  <2>2. Opens(job[p].how, login[p]) BY <1>1, <1>3, <1>6, <2>1 DEF Installs, Password
  <2>3. Picked(job[p].how) = "pg" /\ Hosts(job[p].how) = << "pg" >> BY <2>1, PickedOK
  <2> QED BY <2>1, <2>2, <2>3 DEF Opens, Exists
<1> HIDE DEF Opens
<1>10. Installs(p)'
  BY <1>1, <1>2, <1>3, <1>4, <1>5, <1>6, <1>7, <1>8, <1>9 DEF Installs, DbLocations, Working, Granting, Password, Unchecked
<1> QED BY <1>1, <1>2, <1>10, OthersInstall DEF BInv

LEMMA LogInInstalls ==
  ASSUME Typed, SInv, BInv, NEW p \in Procs, Turn(p), Access(p)
  PROVE  BInv'
<1>1. PICK w : /\ login' = [login EXCEPT ![p] = w] /\ pc[p] = "access" /\ pc' = [pc EXCEPT ![p] = "getinfo"]
               /\ UNCHANGED << yml, faults, catalog, units, conf, account, schema, dsn, stats, job, left, new, plan, added >>
               /\ w # NoPassword => w = conf[p].password /\ Opens(job[p].how, w)
  BY DEF Access, LogIn, At, Goto, configvars, shared, database, Stored
<1>2. pc'[p] = "getinfo" /\ login'[p] = w /\ \A q \in Procs \ {p} : pc'[q] = pc[q]
  BY <1>1 DEF Typed, TInv, DInv, DbTypeOK
<1>3. Installs(p) /\ Remembers(p) BY DEF BInv, SInv
<1>4. Suited(p)' = Suited(p) /\ \A s \in added[p] : Good(p, s)' <=> Good(p, s)
  BY <1>1 DEF Suited, Good, Overtaken, Unchecked, Reaches, Opens, Picked
<1>5. Exists(job[p].how)' = Exists(job[p].how) /\ \A v : Opens(job[p].how, v)' = Opens(job[p].how, v)
  BY <1>1 DEF Exists, Opens, Picked
<1>6. new[p] = NoPassword /\ conf[p].password = yml.password BY <1>1, <1>3 DEF Remembers, Renewing, Asking
<1> HIDE DEF Opens
<1>7. Password(p)' = w BY <1>1, <1>2, <1>6 DEF Password
<1>8. Installs(p)'
  BY <1>1, <1>2, <1>3, <1>4, <1>5, <1>6, <1>7 DEF Installs, DbLocations, Working, Granting
<1> QED BY <1>1, <1>2, <1>8, OthersInstall DEF BInv

LEMMA PlanInstalls ==
  ASSUME IInv, Typed, SInv, BInv, NEW p \in Procs, Turn(p), NEW from \in {"check", "sudo"}, NEW to \in {"grant", "sudogrant"},
         Plan(p, from, to), Unchecked(p) => Unchecked(p)', Taken(p) => Unchecked(p)'
  PROVE  BInv'
<1>1. /\ pc[p] = from /\ pc' = [pc EXCEPT ![p] = to]
      /\ new' = [new EXCEPT ![p] = Fresh] /\ plan' = [plan EXCEPT ![p] = Hosts(job[p].how)]
      /\ UNCHANGED << yml, catalog, units, conf, account, schema, dsn, stats, job, left, login, added >>
  BY DEF Plan, At, Goto, shared, database
<1>2. /\ pc'[p] = to /\ new'[p] = Fresh /\ plan'[p] = Hosts(job[p].how)
      /\ \A q \in Procs \ {p} : pc'[q] = pc[q]
  BY <1>1 DEF Typed, TInv, DInv, DbTypeOK
<1>3. Installs(p) /\ job[p].create BY <1>1 DEF BInv, IInv, Respects, Creating
<1>4. Overtaken(p) => Overtaken(p)' BY <1>1 DEF Overtaken
<1>5. Suited(p)' = Suited(p) /\ \A s \in added[p] : Good(p, s) => Good(p, s)'
  BY <1>1, <1>4 DEF Suited, Good, Reaches, Opens, Picked
<1>6. Exists(job[p].how)' = Exists(job[p].how) /\ Hosts(job[p].how)' = Hosts(job[p].how)
  BY <1>1 DEF Exists, Hosts
<1>7. added[p] = {} \/ Unchecked(p)'
  <2>1. job[p].force => Unchecked(p) BY DEF Unchecked
  <2> QED BY <2>1, <1>1, <1>3 DEF Taken, Installs
<1> HIDE DEF Unchecked
<1>8. Installs(p)'
  BY <1>1, <1>2, <1>3, <1>5, <1>6, <1>7, FreshUnused DEF Installs, DbLocations, Working, Granting
<1> QED BY <1>1, <1>2, <1>8, OthersInstall DEF BInv

LEMMA CheckInstalls ==
  ASSUME IInv, Typed, SInv, BInv, NEW p \in Procs, Turn(p), NEW from \in {"check", "sudo"}, NEW to \in {"grant", "sudogrant"},
         Check(p, from, to)
  PROVE  BInv'
<1>1. CASE Quit(p) BY <1>1, QuitInstalls
<1>2. CASE ~ Taken(p) /\ Plan(p, from, to) /\ UNCHANGED faults
  <2>1. Unchecked(p)' = Unchecked(p) BY <1>2 DEF Unchecked, Plan
  <2> QED BY <1>2, <2>1, PlanInstalls
<1> QED BY <1>1, <1>2 DEF Check

LEMMA BlindInstalls ==
  ASSUME IInv, Typed, SInv, BInv, NEW p \in Procs, Turn(p), CheckBlind(p)
  PROVE  BInv'
<1>1. Unchecked(p) /\ Unchecked(p)' BY DEF CheckBlind, Plan, Unchecked
<1> QED BY <1>1, PlanInstalls DEF CheckBlind

LEMMA GrantInstalls ==
  ASSUME IInv, Typed, SInv, BInv, NEW p \in Procs, Turn(p),
         Grant(p, "grant", "schema") \/ Grant(p, "sudogrant", "sudoschema")
  PROVE  BInv'
<1> DEFINE x == Head(plan[p])
<1>1. /\ pc[p] \in {"grant", "sudogrant"} /\ plan[p] # << >>
      /\ account' = [account EXCEPT ![x] = new[p]] /\ plan' = [plan EXCEPT ![p] = Tail(@)]
      /\ UNCHANGED << yml, faults, catalog, units, conf, schema, dsn, stats, job, left, login, new, added >>
  BY DEF Grant, At, configvars, shared
<1>2. PICK l \in Granting : /\ pc' = [pc EXCEPT ![p] = l]
                            /\ x = "pg" => l \in {"schema", "sudoschema"}
                            /\ x # "pg" => l \in {"grant", "sudogrant"}
  BY DEF Grant, Goto, Granting
<1>3. pc'[p] = l /\ \A q \in Procs \ {p} : pc'[q] = pc[q] BY <1>2 DEF Typed, TInv
<1>4. x \in Accounts /\ new[p] # NoPassword /\ new[p] # yml.password /\ Installs(p) /\ job[p].create
  BY <1>1 DEF BInv, Installs, Granting, Creating, Typed, DInv, DbTypeOK, IInv, Respects
<1>5. account'[x] = new[p] /\ \A y \in Accounts \ {x} : account'[y] = account[y]
  BY <1>1, <1>4 DEF Typed, DInv, DbTypeOK
<1>6. Exists(job[p].how)'
  <2>1. /\ Hosts(job[p].how)' = Hosts(job[p].how) /\ Hosts(job[p].how) \in Seq(Accounts)
        /\ \A i \in DOMAIN Hosts(job[p].how) : Hosts(job[p].how)[i] \in Accounts
    <3>1. Hosts(job[p].how)' = Hosts(job[p].how) BY <1>1 DEF Hosts
    <3> QED BY <3>1, HostsOK
  <2>2. CASE Exists(job[p].how) BY <1>1, <1>4, <1>5, <2>1, <2>2 DEF Exists
  <2>3. CASE plan[p] = Hosts(job[p].how)
    <3>1. 1 \in DOMAIN Hosts(job[p].how) /\ x = Hosts(job[p].how)[1] BY <1>1, <2>1, <2>3
    <3> QED BY <1>1, <1>4, <1>5, <2>1, <3>1 DEF Exists
  <2> QED BY <1>1, <1>4, <2>2, <2>3 DEF Installs
<1>7. added[p] = {} \/ (Unchecked(p) /\ job[p].bundle)
  BY <1>1, <1>4 DEF Installs, Granting, DbLocations
<1>8. /\ Suited(p)' = Suited(p)
      /\ \A s \in added[p] : Good(p, s)' /\ dsn'[s].how = job'[p].how
  BY <1>1, <1>4, <1>7 DEF Installs, Suited, Good, Overtaken, Unchecked
<1>9. schema \/ x = "pg" \/ account["pg"] # new[p]
  BY <1>1, <1>4 DEF Installs
<1>10. "pg" \in Accounts BY DEF Accounts
<1> HIDE DEF x
<1>11. Installs(p)'
  BY <1>1, <1>2, <1>3, <1>4, <1>5, <1>6, <1>7, <1>8, <1>9, <1>10 DEF Installs, DbLocations, Working, Granting, Unchecked
<1>12. account'["pg"] # NoPassword /\ account'["pg"] = yml'.password => schema'
  BY <1>1, <1>4, <1>5, <1>10 DEF BInv
<1> QED BY <1>1, <1>3, <1>11, <1>12, OthersInstall DEF BInv

LEMMA SchemaInstalls ==
  ASSUME IInv, Typed, SInv, BInv, NEW p \in Procs, Turn(p),
         GrantSchema(p, "schema", "grant") \/ GrantSchema(p, "sudoschema", "sudogrant")
  PROVE  BInv'
<1>1. PICK l \in {"grant", "sudogrant"} :
        /\ pc[p] \in {"schema", "sudoschema"} /\ pc' = [pc EXCEPT ![p] = l] /\ schema' = TRUE
        /\ UNCHANGED << yml, faults, catalog, units, conf, account, dsn, stats, job, left, login, new, plan, added >>
  BY DEF GrantSchema, At, Goto, configvars, shared, adding
<1>2. pc'[p] = l /\ \A q \in Procs \ {p} : pc'[q] = pc[q] BY <1>1 DEF Typed, TInv
<1>3. Installs(p) BY DEF BInv
<1>4. Suited(p)' = Suited(p) /\ \A s \in added[p] : Good(p, s) => Good(p, s)'
  BY <1>1 DEF Suited, Good, Overtaken, Unchecked, Reaches, Opens, Picked
<1>5. Exists(job[p].how)' = Exists(job[p].how) BY <1>1 DEF Exists
<1>6. Exists(job[p].how) BY <1>1, <1>3 DEF Installs, IInv, Respects, Creating, Granting
<1>7. Installs(p)'
  BY <1>1, <1>2, <1>3, <1>4, <1>5, <1>6 DEF Installs, DbLocations, Working, Granting, Unchecked
<1> QED BY <1>1, <1>2, <1>7, OthersInstall DEF BInv

LEMMA StoreInstalls ==
  ASSUME Typed, SInv, BInv, NEW p \in Procs, Turn(p), Store(p)
  PROVE  BInv'
<1>1. /\ pc[p] = "store" /\ pc' = [pc EXCEPT ![p] = "duplicate"]
      /\ conf' = [conf EXCEPT ![p].password = new[p]] /\ yml' = [conf[p] EXCEPT !.password = new[p]]
      /\ UNCHANGED << faults, catalog, units, account, schema, dsn, stats, job, left, login, new, plan, added >>
  BY DEF Store, At, Goto, database, adding
<1>2. /\ pc'[p] = "duplicate" /\ yml'.password = new[p] /\ conf'[p].name = conf[p].name
      /\ \A q \in Procs \ {p} : pc'[q] = pc[q]
  BY <1>1 DEF Typed, TInv, ConfigTypeOK, Configs
<1>3. Installs(p) /\ new[p] # NoPassword BY <1>1, ConfigConstants DEF BInv, Typed, DInv
<1>4. Suited(p)' = Suited(p) /\ \A s \in added[p] : Good(p, s)' <=> Good(p, s)
  BY <1>1, <1>2 DEF Suited, Good, Overtaken, Unchecked, Reaches, Opens, Picked
<1>5. Exists(job[p].how)' = Exists(job[p].how) /\ Password(p) = new[p] /\ Password(p)' = new[p]
      /\ \A w : Opens(job[p].how, w)' = Opens(job[p].how, w)
  BY <1>1, <1>3 DEF Exists, Opens, Picked, Password
<1> HIDE DEF Opens
<1>6. Installs(p)'
  BY <1>1, <1>2, <1>3, <1>4, <1>5 DEF Installs, DbLocations, Working, Granting
<1>7. account["pg"] = new[p] => schema BY <1>1, <1>3 DEF Installs
<1> QED BY <1>1, <1>2, <1>6, <1>7, OthersInstall DEF BInv

LEMMA NextSuited ==
  ASSUME Typed, NEW p \in Procs, pc[p] \in {"duplicate", "install"}, NextPass(p), UNCHANGED job, Suited(p)
  PROVE  Suited(p)'
<1>1. left[p] \in Seq(DbServices) /\ left[p] # << >> BY DEF Typed, DInv, DbTypeOK, DbLocations
<1>2. left'[p] = Tail(left[p]) BY DEF NextPass, Typed, DInv, DbTypeOK
<1>3. \A i \in DOMAIN Tail(left[p]) : i + 1 \in DOMAIN left[p] /\ Tail(left[p])[i] = left[p][i + 1] BY <1>1
<1> QED BY <1>2, <1>3 DEF Suited

LEMMA SkipInstalls ==
  ASSUME Typed, SInv, BInv, NEW p \in Procs, Turn(p), pc[p] = "duplicate", job[p].bundle, NextPass(p),
         UNCHANGED << configvars, conf, commands, database, job, plan, added >>
  PROVE  BInv'
<1>1. PICK l \in {"added", "init"} : pc' = [pc EXCEPT ![p] = l] BY DEF NextPass, Goto
<1>2. UNCHANGED << yml, faults, catalog, units, conf, account, schema, dsn, stats, job, plan, added >>
  BY DEF configvars, shared, database
<1>3. pc'[p] = l /\ \A q \in Procs \ {p} : pc'[q] = pc[q] BY <1>1 DEF Typed, TInv
<1>4. Installs(p) BY DEF BInv
<1>5. \A s \in added[p] : Good(p, s)' <=> Good(p, s)
  BY <1>2 DEF Good, Overtaken, Unchecked, Reaches, Opens, Picked
<1>6. Exists(job[p].how)' = Exists(job[p].how) /\ Suited(p)'
  BY <1>2, <1>4, NextSuited DEF Exists, Installs, DbLocations
<1>7. Installs(p)'
  BY <1>2, <1>3, <1>4, <1>5, <1>6 DEF Installs, DbLocations, Working, Granting
<1> QED BY <1>2, <1>3, <1>7, OthersInstall DEF BInv

LEMMA TablesCounted == Tables < TableCounts => TooManyTables = (Tables > TableLimit)
<1>1. Tables \in Nat BY DbConstants
<1>2. Tables < 65536 => Tables % 65536 = Tables BY <1>1
<1> QED BY <1>2 DEF TooManyTables, TableCounts

LEMMA InstallInstalls ==
  ASSUME Typed, SInv, BInv, NEW p \in Procs, Turn(p), Install(p)
  PROVE  BInv'
<1>s. PICK s, n : s = Service(p) /\ n = conf[p].name OBVIOUS
<1>1. PICK l \in {"added", "init"} : pc' = [pc EXCEPT ![p] = l] BY DEF Install, NextPass, Goto
<1>2. /\ pc[p] = "install" /\ l = IF Len(left[p]) = 1 THEN "added" ELSE "init"
      /\ catalog' = [catalog EXCEPT ![n][s] = @ \cup {Default(n)}]
      /\ agent' = IF s \in QueriesServices /\ agent = Unset THEN conf[p].auth ELSE agent
      /\ units' = [units EXCEPT ![s] = IF @ # Unset THEN @ ELSE IF s \in QueriesServices THEN agent' ELSE yml.auth]
      /\ dsn' = [dsn EXCEPT ![s] = [how |-> job[p].how, password |-> Password(p)]]
      /\ stats' = IF s = "mysql:metrics" THEN ~ TooManyTables ELSE stats
      /\ added' = [added EXCEPT ![p] = @ \cup {s}]
      /\ UNCHANGED << yml, faults, conf, account, schema, job, plan >>
  BY <1>1, <1>s DEF Install, NextPass, At, Goto, Typed, TInv
<1>3. pc'[p] = l /\ \A q \in Procs \ {p} : pc'[q] = pc[q] BY <1>1 DEF Typed, TInv
<1>4. Installs(p) BY DEF BInv
<1>5. s \in DbServices /\ s \in Services /\ n \in Names
  <2>1. left[p] \in Seq(DbServices) /\ left[p] # << >> BY <1>2 DEF Typed, DInv, DbTypeOK, DbLocations
  <2>2. s \in DbServices BY <1>s, <2>1 DEF Service
  <2> QED BY <1>2, <1>s, <2>2, DbConstants DEF Typed, TInv, DbLocations
<1>6. units'[s] # Unset /\ \A t \in Services : units[t] # Unset => units'[t] # Unset
  <2>1. agent' # Unset \/ s \notin QueriesServices
    <3>1. conf[p].auth \in Auths /\ Unset \notin Auths BY ConfigConstants DEF Typed, TInv, ConfigTypeOK, Configs
    <3> QED BY <1>2, <3>1
  <2>2. yml.auth # Unset BY ConfigConstants DEF Typed, TInv, ConfigTypeOK, Configs
  <2> QED BY <1>2, <1>5, <2>1, <2>2 DEF Typed, TInv, ConfigTypeOK
<1>7. catalog'[n][s] # {} /\ \A t \in Services : catalog[n][t] # {} => catalog'[n][t] # {}
  BY <1>2, <1>5 DEF Typed, TInv, ConfigTypeOK
<1>8. dsn'[s] = [how |-> job[p].how, password |-> Password(p)] /\ \A t \in DbServices \ {s} : dsn'[t] = dsn[t]
  BY <1>2, <1>5 DEF Typed, DInv, DbTypeOK
<1>9. \A how, w : Opens(how, w)' = Opens(how, w) BY <1>2 DEF Opens, Picked
<1>10. Exists(job[p].how)' = Exists(job[p].how) BY <1>2 DEF Exists
<1>11. Password(p) \in {NoPassword, yml.password} /\ (Password(p) # NoPassword => Opens(job[p].how, Password(p)))
  BY <1>2, <1>4 DEF Installs, Working
<1>12. added'[p] = added[p] \cup {s} /\ added[p] \subseteq DbServices /\ \A q \in Procs \ {p} : added'[q] = added[q]
  BY <1>2 DEF Typed, DInv, DbTypeOK
<1>13. stats' = IF s = "mysql:metrics" THEN ~ TooManyTables ELSE stats BY <1>2
<1>14. [how |-> job[p].how, password |-> Password(p)] # Unset
  <2>1. job[p].how \in Hows BY DbConstants DEF Typed, DInv, DbTypeOK, Jobs
  <2>2. Password(p) \in Passwords \cup {NoPassword} BY DEF Typed, DInv, DbTypeOK, Password
  <2> QED BY <2>1, <2>2, DbConstants DEF DSNs
<1>15. Good(p, s)'
  <2>1. s = "postgresql:metrics" /\ Password(p) # NoPassword => schema
    <3> SUFFICES ASSUME s = "postgresql:metrics", Password(p) # NoPassword PROVE schema
      OBVIOUS
    <3>1. left[p] \in Seq(DbServices) /\ left[p] # << >> BY <1>2 DEF Typed, DInv, DbTypeOK, DbLocations
    <3>2. 1 \in DOMAIN left[p] /\ s = left[p][1] BY <1>s, <3>1 DEF Service
    <3>3. ~ MySQL(job[p].how) BY <1>2, <1>4, <3>2 DEF Installs, Suited, DbLocations
    <3> QED BY <1>11, <3>3, PickedOK DEF Opens, BInv
  <2>2. s = "mysql:metrics" /\ Tables < TableCounts => stats' = (Tables <= TableLimit)
    <3>0. Tables \in Nat /\ TableLimit \in 0 .. TableCounts - 1 BY DbConstants
    <3>a. TableCounts \in Nat BY DEF TableCounts
    <3>1. TableLimit \in Nat BY <3>0, <3>a
    <3>2. (Tables <= TableLimit) = ~ (Tables > TableLimit) BY <3>0, <3>1
    <3> QED BY <1>13, <3>2, TablesCounted
  <2>3. \A t : t = s => Reaches(t)' BY <1>8, <1>9, <1>11, <1>14 DEF Reaches
  <2>4. conf'[p].name = n BY <1>2, <1>s
  <2>5. units'[s] # Unset /\ catalog'[conf'[p].name][s] # {} /\ dsn'[s] # Unset BY <1>6, <1>7, <1>8, <1>14, <2>4
  <2>6. s = "postgresql:metrics" /\ dsn'[s].password # NoPassword => schema' BY <1>2, <1>8, <2>1
  <2> QED BY <2>2, <2>3, <2>5, <2>6 DEF Good
<1>16. \A t \in added[p] \ {s} : Good(p, t)'
  <2> TAKE t \in added[p] \ {s}
  <2>1. t \in DbServices /\ t \in Services /\ Good(p, t) BY <1>4, <1>12, DbConstants DEF Installs
  <2>2. Reaches(t) => Reaches(t)' BY <1>8, <1>9, <2>1 DEF Reaches
  <2>3. dsn'[t] = dsn[t] BY <1>8, <2>1
  <2>4. t = "mysql:metrics" => stats' = stats BY <1>13
  <2>5. Overtaken(p) => Overtaken(p)' BY <1>2 DEF Overtaken, Unchecked
  <2> QED BY <1>2, <1>s, <1>6, <1>7, <2>1, <2>2, <2>3, <2>4, <2>5 DEF Good
<1>17. Suited(p)' BY <1>2, <1>4, NextSuited DEF Install, Installs, DbLocations
<1>18. Installs(p)'
  <2>1. job[p].create => Exists(job[p].how) BY <1>2, <1>4 DEF Installs, Working
  <2>2. \A t \in added'[p] : dsn'[t].how = job'[p].how
    BY <1>2, <1>4, <1>8, <1>12 DEF Installs
  <2>3. \A t \in added'[p] : Good(p, t)' BY <1>12, <1>15, <1>16
  <2>4. ~ job[p].bundle => Len(left[p]) = 1 BY <1>2, <1>4 DEF Installs, DbLocations
  <2> QED BY <1>2, <1>3, <1>10, <1>17, <2>1, <2>2, <2>3, <2>4 DEF Installs, DbLocations, Working, Granting
<1> QED BY <1>2, <1>3, <1>12, <1>18, OthersInstall DEF BInv

LEMMA BeginInstalls ==
  ASSUME Typed, BInv, NEW p \in Procs, Turn(p), BeginAdd(p)
  PROVE  BInv'
<1>1. PICK r \in AddRequests : job' = [job EXCEPT ![p] = r] /\ left' = [left EXCEPT ![p] = r.services]
  BY DEF BeginAdd
<1>2. pc[p] = "idle" /\ pc' = [pc EXCEPT ![p] = "init"] /\ UNCHANGED << yml, account, schema, added >>
  BY DEF BeginAdd, Ready, At, Goto, configvars, shared, database
<1>3. pc'[p] = "init" /\ job'[p] = r /\ left'[p] = r.services /\ \A q \in Procs \ {p} : pc'[q] = pc[q]
  BY <1>1, <1>2 DEF Typed, TInv, DInv, DbTypeOK
<1>4. added[p] = {} BY <1>2 DEF BInv, Installs, DbLocations
<1>5. Suited(p)' /\ (~ r.bundle => Len(r.services) = 1) BY <1>3, DbConstants DEF Suited
<1>6. Installs(p)' BY <1>2, <1>3, <1>4, <1>5 DEF Installs, DbLocations, Working, Granting
<1> QED BY <1>2, <1>3, <1>6, OthersInstall DEF BInv

LEMMA InstallsDb ==
  ASSUME IInv, Typed, SInv, BInv, NEW p \in Procs, Turn(p), DbStep(p)
  PROVE  BInv'
<1> USE DEF At, DbLocations
<1>1. CASE BeginAdd(p) BY <1>1, BeginInstalls
<1>2. CASE Quit(p) BY <1>2, QuitInstalls
<1>3. CASE CheckFlags(p) BY <1>2, <1>3, GoInstalls DEF CheckFlags
<1>4. CASE Access(p) BY <1>4, LogInInstalls
<1>5. CASE NoAccess(p) BY <1>2, <1>5, GoInstalls DEF NoAccess
<1>6. CASE GetInfo(p)
  <2>1. CASE Creates(p) /\ Go(p, "getinfo", "check") BY <2>1, GoInstalls
  <2>2. CASE ~ Creates(p) /\ Go(p, "getinfo", "tables") BY <2>2, GoInstalls
  <2> QED BY <1>2, <1>6, <2>1, <2>2 DEF GetInfo
<1>7. CASE CheckUser(p) BY <1>7, CheckInstalls DEF CheckUser
<1>8. CASE GrantUser(p) BY <1>8, GrantInstalls, SchemaInstalls DEF GrantUser
<1>9. CASE Granted(p) BY <1>9, GoInstalls DEF Granted
<1>10. CASE Verify(p) BY <1>10, GoInstalls DEF Verify
<1>11. CASE CheckSudo(p) BY <1>11, CheckInstalls DEF CheckSudo
<1>12. CASE GrantSudo(p) BY <1>12, GrantInstalls, SchemaInstalls DEF GrantSudo
<1>13. CASE VerifySudo(p) BY <1>2, <1>13 DEF VerifySudo
<1>14. CASE CountTables(p)
  <2>1. CASE new[p] # NoPassword BY <1>14, <2>1, GoInstalls DEF CountTables
  <2>2. CASE new[p] = NoPassword BY <1>14, <2>2, GoInstalls DEF CountTables
  <2> QED BY <2>1, <2>2
<1>15. CASE Store(p) BY <1>15, StoreInstalls
<1>16. CASE CheckDuplicate(p)
  <2>1. CASE Go(p, "duplicate", "install") BY <2>1, GoInstalls
  <2> QED BY <1>2, <1>16, <2>1, SkipInstalls DEF CheckDuplicate
<1>17. CASE Install(p) BY <1>17, InstallInstalls
<1>18. CASE FinishAdd(p) BY <1>2, <1>18 DEF FinishAdd
<1>19. CASE BeginRemoveAll(p)
  <2>1. pc[p] = "idle" /\ pc' = [pc EXCEPT ![p] = "remove"] /\ UNCHANGED << yml, account, schema, added >>
    BY <1>19 DEF BeginRemoveAll, Ready, Goto, shared, dbvars, database, adding
  <2>2. added[p] = {} BY <2>1 DEF BInv, Installs
  <2> QED BY <2>1, <2>2, InstallsOutside
<1>20. CASE RemoveService(p)
  <2>1. pc[p] = "remove" /\ UNCHANGED << yml, pc, account, schema, added >> BY <1>20 DEF RemoveService, adding
  <2>2. added[p] = {} BY <2>1 DEF BInv, Installs
  <2>3. Installs(p)' BY <2>1, <2>2, OutsideInstall
  <2> QED BY <2>1, <2>3, OthersInstall DEF BInv
<1>21. CASE NotRemovable(p) \/ ClearPassword(p)
  <2>1. /\ pc[p] = "remove" /\ pc' = [pc EXCEPT ![p] = "idle"] /\ UNCHANGED << account, schema, added >>
        /\ yml' \in {yml, [conf[p] EXCEPT !.password = NoPassword]}
    BY <1>21 DEF NotRemovable, ClearPassword, Leave, Exit, Goto, shared, dbvars, database, adding
  <2>2. added[p] = {} BY <2>1 DEF BInv, Installs
  <2>3. yml'.password \in {NoPassword, yml.password} BY <2>1 DEF Typed, TInv, ConfigTypeOK, Configs
  <2> QED BY <2>1, <2>2, <2>3, InstallsOutside
<1> QED BY <1>1, <1>2, <1>3, <1>4, <1>5, <1>6, <1>7, <1>8, <1>9, <1>10, <1>11, <1>12, <1>13, <1>14, <1>15, <1>16,
           <1>17, <1>18, <1>19, <1>20, <1>21 DEF DbStep

LEMMA InstallsInit == Init => BInv
<1> SUFFICES ASSUME Init PROVE BInv
  OBVIOUS
<1>1. PICK c \in Catalogs, configured \in BOOLEAN, own \in SUBSET Owned : Beginning(c, configured, own)
  BY DEF Init
<1>2. pc = [p \in Procs |-> "idle"] /\ added = [p \in Procs |-> {}] BY <1>1 DEF Beginning
<1>3. yml.password = NoPassword BY <1>1 DEF Beginning, NoConf
<1> QED BY <1>2, <1>3 DEF BInv, Installs, Working, Granting, DbLocations

LEMMA InstallsNext == IInv /\ Typed /\ SInv /\ BInv /\ [Next]_vars => BInv'
<1> SUFFICES ASSUME IInv, Typed, SInv, BInv, [Next]_vars PROVE BInv'
  OBVIOUS
<1>1. CASE UNCHANGED vars
  BY <1>1 DEF vars, configvars, shared, dbvars, database, adding, BInv, Installs, Suited, Good, Overtaken, Unchecked, Reaches, Opens, Picked,
     Exists, Password
<1>2. CASE Halt BY <1>1, <1>2 DEF Halt
<1>3. ASSUME NEW p \in Procs, ConfigStep(p), UNCHANGED dbvars PROVE BInv' BY <1>3, ConfigTurn, InstallsConfig DEF IInv
<1>4. ASSUME NEW p \in Procs, (Fail(p) /\ UNCHANGED dbvars) \/ FailAdd(p) PROVE BInv'
  <2>1. Turn(p) BY <1>4 DEF IInv, Alone, Turn, Fail, FailAdd, Locations, DbLocations
  <2>2. pc' = [pc EXCEPT ![p] = "idle"] /\ UNCHANGED << account, schema, yml >>
    BY <1>4 DEF Fail, FailAdd, Exit, Goto, shared, database, dbvars
  <2>3. added'[p] = {} /\ \A q \in Procs \ {p} : added'[q] = added[q]
    <3>1. CASE FailAdd(p) BY <3>1 DEF FailAdd, ForgetJob, Typed, DInv, DbTypeOK
    <3>2. CASE Fail(p) /\ UNCHANGED dbvars
      <4>1. pc[p] \notin DbLocations BY <3>2 DEF Fail, Locations, DbLocations
      <4> QED BY <3>2, <4>1 DEF BInv, Installs, dbvars, adding
    <3> QED BY <1>4, <3>1, <3>2
  <2> QED BY <2>1, <2>2, <2>3, InstallsOutside
<1>5. ASSUME NEW p \in Procs, DbStep(p) PROVE BInv' BY <1>5, DbTurn, InstallsDb DEF IInv
<1>6. ASSUME NEW p \in Procs, CheckBlind(p) PROVE BInv' BY <1>6, BlindTurn, BlindInstalls DEF IInv
<1> QED BY <1>1, <1>2, <1>3, <1>4, <1>5, <1>6 DEF Next

LEMMA InstallsAlways == Spec => []BInv
BY TypedAlways, StoredAlways, InstallsInit, InstallsNext, PTL DEF Spec

\* What add reports as added runs, is registered, and is connected with credentials that the
\* database accepts unless a later service has overtaken it, for a bundle of any length.
THEOREM AddedWorks == Spec => []AddIsTrue
<1>1. Typed /\ AInv /\ BInv => AddIsTrue
  <2> SUFFICES ASSUME Typed, AInv, BInv, NEW p \in Procs, At(p, "added"), NEW s \in added[p]
               PROVE  /\ s \in Units \cap Registered(yml.name) /\ (Overtaken(p) \/ Reaches(s))
                      /\ s = "postgresql:metrics" /\ dsn[s].password # NoPassword => schema
                      /\ s = "mysql:metrics" /\ Tables < TableCounts => stats = (Tables <= TableLimit)
    BY DEF AddIsTrue
  <2>1. Good(p, s) BY DEF BInv, Installs
  <2>2. conf[p].name = yml.name BY DEF AInv, Follows, At, DbLocations
  <2>3. s \in Services BY DbConstants DEF Typed, DInv, DbTypeOK
  <2> QED BY <2>1, <2>2, <2>3 DEF Good, Units, Registered
<1> QED BY <1>1, TypedAlways, AddressAlways, InstallsAlways, PTL

-----------------------------------------------------------------------------
(* What is moved while a client is renamed *)

Moving == {"dereg", "keys", "key", "instance", "file", "put", "delete"}
InHand == {"instance", "file", "put", "delete"}

\* The names that renaming treats as the client's or as none of it, whole.
Plain(a) == a.rest = "" \/ a.of = Unset
PlainMySQL(k) == k.service = "mysql:queries" /\ Plain(k.alias)

\* A name has a key, and the plain names of a service are those that have one.
Held(n, s, a) == \E k \in keys : k.node = n /\ k.service = s /\ k.alias = a
HeldAt(n, s) == { k \in keys : k.node = n /\ k.service = s }
Kept(n, s) == \A a \in Aliases : Plain(a) => (a \in catalog[n][s] <=> Held(n, s, a))

\* A path leads to one key, and an instance has one key but for the moment between put and delete.
Paths == \A k, l \in keys : SamePath(k, l) => k = l

Twins(p, k, l) == pc[p] = "delete" /\ k = key[p] /\ l = NewKey(p, key[p])
Owners(p) == \A k, l \in keys : k.uuid = l.uuid => k = l \/ Twins(p, k, l) \/ Twins(p, l, k)

\* QAN has the instance of every key.  For MySQL it has it under the name of the key, as its
\* file does, except for the key in hand.
Right(p) ==
  \A k \in keys :
    /\ qan[k.uuid] # Unset
    /\ PlainMySQL(k) /\ ~ (pc[p] \in {"file", "put", "delete"} /\ k = key[p]) =>
         qan[k.uuid] = k.alias /\ files[k.uuid] \in {k.alias, Unset}

\* The names that are the client's now or after this command; under them every instance has
\* its file, under others it may be on another system.
Ours(p, n) ==
  \/ n = yml.name
  \/ pc[p] \in Renaming \cup (Settling \ {"repair"}) /\ n = conf[p].name
  \/ pc[p] \in Renaming /\ n = req[p].name
Filed(p) == \A k \in keys : PlainMySQL(k) /\ Ours(p, k.node) => files[k.uuid] # Unset

\* The tags of a service are the names of its keys, unless it is the one that is being moved.
Tagged(p) ==
  \A n \in Names, s \in QueriesServices :
    Kept(n, s) \/ (pc[p] \in Moving /\ cur[p] = s /\ n \in {conf[p].name, req[p].name})

\* The keys of the service in hand that are under the old name.
Waiting(p) == IF pc[p] \in {"instance", "file", "put"} THEN ktodo[p] \cup {key[p]} ELSE ktodo[p]

\* The service that is being moved: the new tags are the names of the keys that have been moved
\* and those that the others will have.
Halfway(p) ==
  /\ cur[p] \notin todo[p]
  /\ cur[p] \in QueriesServices => catalog[req[p].name][cur[p]] = NewTags(p, cur[p])
  /\ pc[p] \in {"dereg", "keys"} /\ cur[p] \in QueriesServices =>
       \A a \in Aliases : Plain(a) =>
         (Held(conf[p].name, cur[p], a) <=> a \in seen[p][cur[p]]) /\ ~ Held(req[p].name, cur[p], a)
  /\ pc[p] \notin {"dereg", "keys"} =>
       /\ HeldAt(conf[p].name, cur[p]) = IF pc[p] \in InHand THEN ktodo[p] \cup {key[p]} ELSE ktodo[p]
       /\ cur[p] \in QueriesServices =>
            \A b \in Aliases : Plain(b) =>
              (b \in NewTags(p, cur[p]) <=>
                 Held(req[p].name, cur[p], b) \/ \E k \in Waiting(p) : Plain(k.alias) /\ Replaced(p, k.alias) = b)
  /\ pc[p] \in InHand => key[p] \notin ktodo[p]
  /\ pc[p] \in {"instance", "file"} => key[p].service = "mysql:queries"
  /\ pc[p] = "file" /\ PlainMySQL(key[p]) =>
       qan[key[p].uuid] = Replaced(p, key[p].alias) /\ files[key[p].uuid] = key[p].alias
  /\ pc[p] = "put" /\ PlainMySQL(key[p]) =>
       qan[key[p].uuid] = Replaced(p, key[p].alias) /\ files[key[p].uuid] = Replaced(p, key[p].alias)

\* Renaming has still to visit what is under the old name, and nothing of it is under the new.
Visits(p) ==
  pc[p] \in Renaming \ {"source"} =>
    \A s \in Services :
      /\ s \in todo[p] => seen[p][s] = catalog[conf[p].name][s] /\ catalog[req[p].name][s] = {}
      /\ catalog[conf[p].name][s] # {} => s \in todo[p] \/ (s = cur[p] /\ pc[p] = "dereg")

\* A new client starts without services, and add installs no name twice.
Empties(p) ==
  /\ pc[p] \in Settling \ {"repair"} /\ yml.name = Unset => Registered(conf[p].name) = {}
  /\ pc[p] = "install" => ~ Duplicate(p)

Whole(p) ==
  /\ Paths /\ Owners(p) /\ Right(p) /\ Filed(p) /\ Tagged(p)
  /\ Visits(p) /\ Empties(p) /\ (pc[p] \in Moving => Halfway(p))

\* With a fault a key, or a tag, may stay behind.
KInv == faults = 0 => \A p \in Procs : Turn(p) => Whole(p)

-----------------------------------------------------------------------------
\* When the command ends, the next may be that of any process.
LEMMA TurnPasses ==
  ASSUME NEW p \in Procs, Turn(p), Whole(p)', \A q \in Procs \ {p} : pc'[q] = pc[q]
  PROVE  \A q \in Procs : Turn(q)' => Whole(q)'
<1> SUFFICES ASSUME NEW q \in Procs \ {p}, Turn(q)' PROVE Whole(q)'
  OBVIOUS
<1>1. pc'[p] = "idle" /\ pc'[q] = "idle" BY DEF Turn
<1>2. Paths' BY DEF Whole
<1>3. Owners(q)' BY <1>1 DEF Whole, Owners, Twins
<1>4. Right(q)' BY <1>1 DEF Whole, Right
<1>5. Filed(q)' BY <1>1 DEF Whole, Filed, Ours, Renaming, Settling
<1>6. Tagged(q)' BY <1>1 DEF Whole, Tagged, Moving
<1> QED BY <1>1, <1>2, <1>3, <1>4, <1>5, <1>6 DEF Whole, Visits, Empties, Moving, Renaming, Settling

\* While nothing is being moved, what Consul has of the names of queries services is what QAN
\* has of them.
Calm ==
  /\ Paths
  /\ \A k, l \in keys : k.uuid = l.uuid => k = l
  /\ \A k \in keys :
       /\ qan[k.uuid] # Unset
       /\ PlainMySQL(k) => qan[k.uuid] = k.alias /\ files[k.uuid] \in {k.alias, Unset}
  /\ \A n \in Names, s \in QueriesServices : Kept(n, s)

LEMMA WholeCalm ==
  ASSUME NEW p \in Procs, pc[p] \notin Moving
  PROVE  Whole(p) <=> Calm /\ Filed(p) /\ Visits(p) /\ Empties(p)
<1> USE DEF Calm, Whole, Moving
<1>1. Owners(p) <=> \A k, l \in keys : k.uuid = l.uuid => k = l BY DEF Owners, Twins
<1>2. Right(p) <=> \A k \in keys :
       /\ qan[k.uuid] # Unset
       /\ PlainMySQL(k) => qan[k.uuid] = k.alias /\ files[k.uuid] \in {k.alias, Unset}
  BY DEF Right
<1>3. Tagged(p) <=> \A n \in Names, s \in QueriesServices : Kept(n, s) BY DEF Tagged
<1> QED BY <1>1, <1>2, <1>3

LEMMA WholeCalmNext ==
  ASSUME NEW p \in Procs, pc'[p] \notin Moving
  PROVE  Whole(p)' <=> (Calm /\ Filed(p) /\ Visits(p) /\ Empties(p))'
<1> USE DEF Calm, Whole, Moving
<1>1. Owners(p)' <=> \A k, l \in keys' : k.uuid = l.uuid => k = l BY DEF Owners, Twins
<1>2. Right(p)' <=> \A k \in keys' :
       /\ qan'[k.uuid] # Unset
       /\ PlainMySQL(k) => qan'[k.uuid] = k.alias /\ files'[k.uuid] \in {k.alias, Unset}
  BY DEF Right, PlainMySQL
<1>3. Tagged(p)' <=> \A n \in Names, s \in QueriesServices : Kept(n, s)' BY DEF Tagged
<1> QED BY <1>1, <1>2, <1>3 DEF PlainMySQL

\* A client without services has no plain names either.
LEMMA NoneHeld ==
  ASSUME Typed, Calm, NEW n \in Names, Registered(n) = {}
  PROVE  \A k \in keys : k.node = n => ~ PlainMySQL(k)
<1> SUFFICES ASSUME NEW k \in keys, k.node = n, k.service = "mysql:queries", Plain(k.alias) PROVE FALSE
  BY DEF PlainMySQL
<1>1. "mysql:queries" \in QueriesServices /\ "mysql:queries" \in Services BY ConfigConstants
<1>2. Kept(n, "mysql:queries") /\ Held(n, "mysql:queries", k.alias) BY <1>1 DEF Calm, Held
<1>3. k.alias \in Aliases BY DEF Typed, TInv, ConfigTypeOK, Keys
<1>4. k.alias \in catalog[n]["mysql:queries"] BY <1>2, <1>3 DEF Kept
<1> QED BY <1>1, <1>4 DEF Registered

LEMMA CalmSame ==
  ASSUME UNCHANGED << catalog, keys, qan, files >>
  PROVE  /\ Calm' <=> Calm
         /\ Paths' <=> Paths
         /\ \A n, s, a : Held(n, s, a)' <=> Held(n, s, a)
         /\ \A n, s : HeldAt(n, s)' = HeldAt(n, s) /\ (Kept(n, s)' <=> Kept(n, s))
         /\ \A n : Registered(n)' = Registered(n)
<1>1. \A n, s, a : Held(n, s, a)' <=> Held(n, s, a) BY DEF Held
<1>2. \A n, s : Kept(n, s)' <=> Kept(n, s) BY <1>1 DEF Kept
<1>3. Paths' <=> Paths BY DEF Paths
<1>4. (\A n \in Names, s \in QueriesServices : Kept(n, s))' <=> \A n \in Names, s \in QueriesServices : Kept(n, s)
  BY <1>2
<1>5. Calm' <=> Calm BY <1>3, <1>4 DEF Calm
<1> QED BY <1>1, <1>2, <1>3, <1>5 DEF HeldAt, Registered

\* A step that changes nothing of all that, and claims only names without services.
LEMMA CalmStays ==
  ASSUME Typed, NEW p \in Procs, Whole(p), UNCHANGED << catalog, keys, qan, files >>,
         pc[p] \notin Moving, pc'[p] \notin Moving,
         \A n \in Names : Ours(p, n)' => Ours(p, n) \/ Registered(n) = {},
         Visits(p)', Empties(p)'
  PROVE  Whole(p)'
<1>1. Calm /\ Filed(p) BY WholeCalm
<1>2. Calm' BY <1>1, CalmSame
<1>3. \A k \in keys : k.node \in Names BY DEF Typed, TInv, ConfigTypeOK, Keys
<1>4. Filed(p)'
  <2> SUFFICES ASSUME NEW k \in keys, PlainMySQL(k), Ours(p, k.node)' PROVE files[k.uuid] # Unset
    BY DEF Filed
  <2>1. Ours(p, k.node) BY <1>1, <1>3, NoneHeld
  <2> QED BY <1>1, <2>1 DEF Filed
<1> QED BY <1>2, <1>4, WholeCalmNext

-----------------------------------------------------------------------------
\* What renaming makes of a plain name is the same in tags and in keys, and plain.
LEMMA PlainReplaced ==
  ASSUME NEW p \in Procs, {conf[p].name, req[p].name} \subseteq Names, NEW a \in Aliases
  PROVE  /\ Plain(Replaced(p, a)) <=> Plain(a)
         /\ Plain(a) => Replaced(p, a) = IF a = Default(conf[p].name) THEN Default(req[p].name) ELSE a
<1>1. PICK f \in Names \cup {Unset}, r \in STRING : a = [of |-> f, rest |-> r] BY ConfigConstants
<1>2. Unset \notin Names BY ConfigConstants
<1>3. CASE f = conf[p].name
  <2>1. Replaced(p, a) = [of |-> req[p].name, rest |-> r] BY <1>1, <1>3 DEF Replaced
  <2>2. a = Default(conf[p].name) <=> r = "" BY <1>1, <1>3 DEF Default
  <2>3. Plain(a) <=> r = "" BY <1>1, <1>2, <1>3 DEF Plain
  <2>4. Plain(Replaced(p, a)) <=> r = ""
    <3>1. req[p].name # Unset BY <1>2
    <3>2. Replaced(p, a).of = req[p].name /\ Replaced(p, a).rest = r BY <2>1
    <3> QED BY <3>1, <3>2 DEF Plain
  <2>5. r = "" => Replaced(p, a) = Default(req[p].name) BY <2>1 DEF Default
  <2> QED BY <2>2, <2>3, <2>4, <2>5
<1>4. CASE f # conf[p].name
  <2>1. Replaced(p, a) = a /\ a # Default(conf[p].name) BY <1>1, <1>4 DEF Replaced, Default
  <2> QED BY <2>1
<1> QED BY <1>3, <1>4

LEMMA PlainTags ==
  ASSUME Typed, NEW p \in Procs, {conf[p].name, req[p].name} \subseteq Names, NEW s \in Services,
         NEW b \in Aliases, Plain(b)
  PROVE  b \in NewTags(p, s) <=> \E a \in seen[p][s] : Plain(a) /\ Replaced(p, a) = b
<1>1. seen[p][s] \subseteq Aliases BY DEF Typed, TInv, ConfigTypeOK
<1>2. ASSUME NEW a \in seen[p][s], b = IF a = Default(conf[p].name) THEN Default(req[p].name) ELSE a
      PROVE  Plain(a) /\ Replaced(p, a) = b
  <2>0. Plain(Default(conf[p].name)) BY DEF Plain, Default
  <2>1. a = Default(conf[p].name) => Plain(a) BY <2>0
  <2>2. a # Default(conf[p].name) => a = b BY <1>2
  <2>3. Plain(a) BY <2>1, <2>2
  <2> QED BY <1>1, <1>2, <2>3, PlainReplaced
<1>3. ASSUME NEW a \in seen[p][s], Plain(a), Replaced(p, a) = b
      PROVE  b = IF a = Default(conf[p].name) THEN Default(req[p].name) ELSE a
  BY <1>1, <1>3, PlainReplaced
<1> QED BY <1>2, <1>3 DEF NewTags

LEMMA SameNames ==
  ASSUME NEW p, UNCHANGED << conf, req >>
  PROVE  /\ \A a : Replaced(p, a)' = Replaced(p, a)
         /\ \A k : NewKey(p, k)' = NewKey(p, k)
         /\ UNCHANGED seen => \A s : NewTags(p, s)' = NewTags(p, s)
         /\ UNCHANGED yml /\ pc[p] \in Renaming /\ pc'[p] \in Renaming => \A n : Ours(p, n)' <=> Ours(p, n)
BY DEF Replaced, NewKey, NewTags, Ours

\* What is known of a command that renames.
LEMMA RenamesFrom ==
  ASSUME Typed, AInv, NEW p \in Procs, pc[p] \in Renaming
  PROVE  /\ conf[p].name \in Names /\ req[p].name \in Names /\ conf[p].name # req[p].name
         /\ conf[p].name = yml.name
BY DEF Typed, TInv, AInv, Follows

LEMMA RegisterNewKeeps ==
  ASSUME Typed, AInv, NEW p \in Procs, Whole(p), RegisterNew(p)
  PROVE  Whole(p)'
<1> DEFINE n == conf[p].name
           m == req[p].name
<1>1. PICK s \in todo[p] : /\ Visited(p, s) /\ cur' = [cur EXCEPT ![p] = s]
                           /\ catalog' = [catalog EXCEPT ![m][s] = NewTags(p, s)]
  BY DEF RegisterNew
<1>2. /\ pc[p] = "svc" /\ pc' = [pc EXCEPT ![p] = "dereg"]
      /\ UNCHANGED << yml, keys, qan, files, conf, req, seen, ktodo, key >>
  BY DEF RegisterNew, At, Goto
<1>3. pc'[p] = "dereg" /\ cur'[p] = s /\ todo'[p] = todo[p] \ {s} /\ s \in Services
  BY <1>1, <1>2 DEF Visited, Typed, TInv, ConfigTypeOK
<1>4. n \in Names /\ m \in Names /\ n # m BY <1>2, RenamesFrom DEF Renaming
<1>5. /\ catalog'[m][s] = NewTags(p, s)
      /\ \A x \in Names, t \in Services : x # m \/ t # s => catalog'[x][t] = catalog[x][t]
  BY <1>1, <1>3, <1>4 DEF Typed, TInv, ConfigTypeOK
<1>6. Calm /\ Filed(p) /\ Visits(p) BY <1>2, WholeCalm DEF Moving
<1>7. \A x, t, a : Held(x, t, a)' <=> Held(x, t, a) BY <1>2 DEF Held
<1>8. Paths' /\ Owners(p)' /\ Right(p)' BY <1>2, <1>3, <1>6 DEF Calm, Paths, Owners, Right, PlainMySQL
<1>9. Filed(p)' BY <1>2, <1>3, <1>6, SameNames DEF Filed, PlainMySQL, Renaming
<1>10. Tagged(p)'
  <2> SUFFICES ASSUME NEW x \in Names, NEW t \in QueriesServices, t # s \/ x \notin {n, m}
               PROVE  Kept(x, t)'
    BY <1>2, <1>3 DEF Tagged, Moving
  <2>1. Kept(x, t) /\ catalog'[x][t] = catalog[x][t] BY <1>5, <1>6, ConfigConstants DEF Calm
  <2> QED BY <1>7, <2>1 DEF Kept
<1>11. seen[p][s] = catalog[n][s] /\ catalog[m][s] = {} BY <1>2, <1>3, <1>6 DEF Visits, Renaming
<1>12. Halfway(p)'
  <2>1. ASSUME s \in QueriesServices, NEW a \in Aliases, Plain(a)
        PROVE  (Held(n, s, a) <=> a \in seen[p][s]) /\ ~ Held(m, s, a)
    BY <1>4, <1>6, <1>11, <2>1 DEF Calm, Kept
  <2> QED BY <1>2, <1>3, <1>5, <1>7, <2>1, SameNames DEF Halfway, InHand
<1>13. Visits(p)'
  <2> SUFFICES ASSUME NEW t \in Services
               PROVE  /\ t \in todo'[p] => seen[p][t] = catalog'[n][t] /\ catalog'[m][t] = {}
                      /\ catalog'[n][t] # {} => t \in todo'[p] \/ t = s
    BY <1>2, <1>3 DEF Visits
  <2> QED BY <1>2, <1>3, <1>4, <1>5, <1>6 DEF Visits, Renaming
<1> QED BY <1>3, <1>8, <1>9, <1>10, <1>12, <1>13 DEF Whole, Empties, Settling

LEMMA DeregisterOldKeeps ==
  ASSUME Typed, AInv, NEW p \in Procs, Whole(p), DeregisterOld(p)
  PROVE  Whole(p)'
<1> DEFINE n == conf[p].name
           m == req[p].name
           s == cur[p]
<1>2. /\ pc[p] = "dereg" /\ pc' = [pc EXCEPT ![p] = "keys"] /\ catalog' = [catalog EXCEPT ![n][s] = {}]
      /\ UNCHANGED << yml, keys, qan, files, conf, req, seen, todo, cur, ktodo, key >>
  BY DEF DeregisterOld, At, Goto, task
<1>3. pc'[p] = "keys" /\ s \in Services BY <1>2 DEF Typed, TInv, ConfigTypeOK
<1>4. n \in Names /\ m \in Names /\ n # m BY <1>2, RenamesFrom DEF Renaming
<1>5. /\ catalog'[n][s] = {}
      /\ \A x \in Names, t \in Services : x # n \/ t # s => catalog'[x][t] = catalog[x][t]
  BY <1>2, <1>3, <1>4 DEF Typed, TInv, ConfigTypeOK
<1>7. \A x, t, a : Held(x, t, a)' <=> Held(x, t, a) BY <1>2 DEF Held
<1>8. Paths' /\ Owners(p)' /\ Right(p)' BY <1>2, <1>3 DEF Whole, Paths, Owners, Right, Twins, PlainMySQL
<1>9. Filed(p)' BY <1>2, <1>3, SameNames DEF Whole, Filed, PlainMySQL, Renaming
<1>10. Tagged(p)'
  <2> SUFFICES ASSUME NEW x \in Names, NEW t \in QueriesServices, t # s \/ x \notin {n, m}
               PROVE  Kept(x, t)'
    BY <1>2, <1>3 DEF Tagged, Moving
  <2>1. Kept(x, t) /\ catalog'[x][t] = catalog[x][t] BY <1>2, <1>5, ConfigConstants DEF Whole, Tagged
  <2> QED BY <1>7, <2>1 DEF Kept
<1>12. Halfway(p)'
  <2>1. Halfway(p) BY <1>2 DEF Whole, Moving
  <2> QED BY <1>2, <1>3, <1>4, <1>5, <1>7, <2>1, SameNames DEF Halfway, InHand
<1>13. Visits(p)'
  <2>1. Visits(p) /\ s \notin todo[p] BY <1>2 DEF Whole, Halfway, Moving
  <2> QED BY <1>2, <1>3, <1>4, <1>5, <2>1 DEF Visits, Renaming
<1> QED BY <1>3, <1>8, <1>9, <1>10, <1>12, <1>13 DEF Whole, Empties, Settling

\* The steps on one service that leave Consul alone.
LEMMA StaysTagged ==
  ASSUME NEW p \in Procs, Whole(p), pc[p] \in Moving, pc'[p] \in Moving, UNCHANGED << yml, catalog, keys, conf, req, seen, todo, cur >>,
         pc[p] # "dereg"
  PROVE  Paths' /\ Tagged(p)' /\ Visits(p)'
<1>1. Paths' BY DEF Whole, Paths
<1>2. \A n, s : Kept(n, s)' <=> Kept(n, s) BY DEF Kept, Held
<1>3. Tagged(p)' BY <1>2 DEF Whole, Tagged
<1>4. Visits(p)' BY DEF Whole, Visits, Renaming, Moving
<1> QED BY <1>1, <1>3, <1>4

LEMMA ListKeysKeeps ==
  ASSUME Typed, AInv, NEW p \in Procs, Whole(p), ListKeys(p)
  PROVE  Whole(p)'
<1> DEFINE n == conf[p].name
           m == req[p].name
           s == cur[p]
<1>2. /\ pc[p] = "keys" /\ pc' = [pc EXCEPT ![p] = "key"]
      /\ ktodo' = [ktodo EXCEPT ![p] = { k \in keys : k.node = conf[p].name /\ k.service = cur[p] }]
      /\ UNCHANGED << yml, catalog, keys, qan, files, conf, req, seen, todo, cur, key >>
  BY DEF ListKeys, At, Goto, shared
<1>3. pc'[p] = "key" /\ ktodo'[p] = HeldAt(n, s) /\ s \in Services BY <1>2 DEF Typed, TInv, ConfigTypeOK, HeldAt
<1>4. n \in Names /\ m \in Names /\ n # m BY <1>2, RenamesFrom DEF Renaming
<1>5. Paths' /\ Tagged(p)' /\ Visits(p)' BY <1>2, <1>3, StaysTagged DEF Moving
<1>6. Owners(p)' /\ Right(p)' BY <1>2, <1>3 DEF Whole, Owners, Right, Twins, PlainMySQL
<1>7. Filed(p)' BY <1>2, <1>3, SameNames DEF Whole, Filed, PlainMySQL, Renaming
<1>8. Halfway(p) BY <1>2 DEF Whole, Moving
<1>9. HeldAt(n, s)' = ktodo'[p] BY <1>2, <1>3 DEF HeldAt
<1>10. ASSUME s \in QueriesServices, NEW b \in Aliases, Plain(b)
       PROVE  b \in NewTags(p, s) <=> Held(m, s, b) \/ \E k \in HeldAt(n, s) : Plain(k.alias) /\ Replaced(p, k.alias) = b
  <2>1. \A a \in Aliases : Plain(a) => (Held(n, s, a) <=> a \in seen[p][s]) /\ ~ Held(m, s, a)
    BY <1>2, <1>8, <1>10 DEF Halfway
  <2>2. b \in NewTags(p, s) <=> \E a \in seen[p][s] : Plain(a) /\ Replaced(p, a) = b BY <1>3, <1>4, <1>10, PlainTags
  <2>3. \A a : Held(n, s, a) <=> \E k \in HeldAt(n, s) : k.alias = a BY DEF Held, HeldAt
  <2>4. seen[p][s] \subseteq Aliases /\ \A k \in HeldAt(n, s) : k.alias \in Aliases
    BY <1>3 DEF Typed, TInv, ConfigTypeOK, HeldAt, Keys
  <2> QED BY <1>10, <2>1, <2>2, <2>3, <2>4
<1>11. Halfway(p)'
  <2>1. cur'[p] = s /\ conf'[p].name = n /\ req'[p].name = m /\ catalog' = catalog /\ todo' = todo BY <1>2
  <2>2. \A b : Held(m, s, b)' <=> Held(m, s, b) BY <1>2 DEF Held
  <2>3. Waiting(p)' = HeldAt(n, s) BY <1>3 DEF Waiting
  <2>4. s \notin todo[p] /\ (s \in QueriesServices => catalog[m][s] = NewTags(p, s)) BY <1>8 DEF Halfway
  <2> QED BY <1>2, <1>3, <1>9, <1>10, <2>1, <2>2, <2>3, <2>4, SameNames DEF Halfway, InHand
<1> QED BY <1>3, <1>5, <1>6, <1>7, <1>11 DEF Whole, Empties, Settling

LEMMA GetKeyKeeps ==
  ASSUME Typed, AInv, NEW p \in Procs, Whole(p), GetKey(p)
  PROVE  Whole(p)'
<1> DEFINE n == conf[p].name
           m == req[p].name
           s == cur[p]
<1>1. PICK k \in ktodo[p] : /\ ktodo' = [ktodo EXCEPT ![p] = @ \ {k}] /\ key' = [key EXCEPT ![p] = k]
                            /\ pc' = [pc EXCEPT ![p] = IF k.service = "mysql:queries" THEN "instance" ELSE "put"]
  BY DEF GetKey, Goto
<1>2. /\ pc[p] = "key" /\ UNCHANGED << yml, catalog, keys, qan, files, conf, req, seen, todo, cur >>
  BY DEF GetKey, At, shared
<1>3. /\ pc'[p] = (IF k.service = "mysql:queries" THEN "instance" ELSE "put")
      /\ ktodo'[p] = ktodo[p] \ {k} /\ key'[p] = k
  BY <1>1 DEF Typed, TInv, ConfigTypeOK
<1>5. Paths' /\ Tagged(p)' /\ Visits(p)' BY <1>2, <1>3, StaysTagged DEF Moving
<1>6. Owners(p)' /\ Right(p)' BY <1>2, <1>3 DEF Whole, Owners, Right, Twins, PlainMySQL
<1>7. Filed(p)' BY <1>2, <1>3, SameNames DEF Whole, Filed, PlainMySQL, Renaming
<1>8. Halfway(p) BY <1>2 DEF Whole, Moving
<1>9. \A x, t, a : Held(x, t, a)' <=> Held(x, t, a) BY <1>2 DEF Held
<1>10. HeldAt(n, s)' = HeldAt(n, s) BY <1>2 DEF HeldAt
<1>11. Waiting(p)' = Waiting(p) BY <1>2, <1>3 DEF Waiting
<1>12. Halfway(p)' BY <1>2, <1>3, <1>8, <1>9, <1>10, <1>11, SameNames DEF Halfway, InHand, PlainMySQL
<1> QED BY <1>3, <1>5, <1>6, <1>7, <1>12 DEF Whole, Empties, Settling

\* The key in hand is one of the old name, and no other key has its instance.
LEMMA HandHeld ==
  ASSUME Typed, AInv, NEW p \in Procs, Whole(p), pc[p] \in InHand
  PROVE  /\ key[p] \in keys /\ key[p].node = conf[p].name /\ key[p].service = cur[p] /\ cur[p] \in QueriesServices
         /\ pc[p] # "delete" => \A k \in keys : k.uuid = key[p].uuid => k = key[p]
         /\ PlainMySQL(key[p]) => files[key[p].uuid] # Unset
<1>1. Halfway(p) BY DEF Whole, Moving, InHand
<1>2. key[p] \in HeldAt(conf[p].name, cur[p]) BY <1>1 DEF Halfway, InHand
<1>3. key[p] \in keys /\ key[p].node = conf[p].name /\ key[p].service = cur[p] BY <1>2 DEF HeldAt
<1>4. cur[p] \in QueriesServices BY <1>3 DEF Typed, TInv, ConfigTypeOK, Keys
<1>5. pc[p] # "delete" => \A k \in keys : k.uuid = key[p].uuid => k = key[p] BY <1>3 DEF Whole, Owners, Twins
<1>6. Ours(p, conf[p].name) BY DEF Ours, Renaming, InHand
<1> QED BY <1>3, <1>4, <1>5, <1>6 DEF Whole, Filed

LEMMA InHandKeeps ==
  ASSUME Typed, AInv, NEW p \in Procs, Whole(p), pc[p] \in {"instance", "file"}, pc'[p] \in {"file", "put"},
         UNCHANGED << yml, catalog, keys, conf, req, seen, todo, cur, ktodo, key >>,
         \A u : u # key[p].uuid => qan'[u] = qan[u] /\ files'[u] = files[u],
         qan'[key[p].uuid] # Unset, files[key[p].uuid] # Unset => files'[key[p].uuid] # Unset,
         PlainMySQL(key[p]) => /\ qan'[key[p].uuid] = Replaced(p, key[p].alias)
                               /\ files'[key[p].uuid] = IF pc'[p] = "file" THEN key[p].alias ELSE Replaced(p, key[p].alias)
  PROVE  Whole(p)'
<1> DEFINE n == conf[p].name
           s == cur[p]
<1>1. Paths' /\ Tagged(p)' /\ Visits(p)' BY StaysTagged DEF Moving
<1>2. key[p] \in keys /\ key[p].service = s /\ \A k \in keys : k.uuid = key[p].uuid => k = key[p]
  BY HandHeld DEF InHand
<1>3. Owners(p)' BY DEF Whole, Owners, Twins
<1>4. Right(p)' BY <1>2 DEF Whole, Right, PlainMySQL
<1>5. Filed(p)' BY <1>2, SameNames DEF Whole, Filed, PlainMySQL, Renaming
<1>6. Halfway(p)'
  <2>1. Halfway(p) BY DEF Whole, Moving
  <2>2. \A x, t, a : Held(x, t, a)' <=> Held(x, t, a) BY DEF Held
  <2>3. HeldAt(n, s)' = HeldAt(n, s) BY DEF HeldAt
  <2>4. Waiting(p)' = Waiting(p) BY DEF Waiting
  <2>5. key[p].service = "mysql:queries" BY <2>1 DEF Halfway
  <2> QED BY <2>1, <2>2, <2>3, <2>4, <2>5, SameNames DEF Halfway, InHand, PlainMySQL
<1> QED BY <1>1, <1>3, <1>4, <1>5, <1>6 DEF Whole, Empties, Settling

LEMMA UpdateInstanceKeeps ==
  ASSUME Typed, AInv, NEW p \in Procs, Whole(p), UpdateInstance(p)
  PROVE  Whole(p)'
<1> DEFINE u == key[p].uuid
           renamed == files[u] # Unset /\ Replaced(p, files[u]) # files[u]
<1>1. /\ pc[p] = "instance" /\ qan' = (IF renamed THEN [qan EXCEPT ![u] = Replaced(p, files[u])] ELSE qan)
      /\ pc' = [pc EXCEPT ![p] = IF renamed THEN "file" ELSE "put"]
      /\ UNCHANGED << yml, catalog, keys, files, conf, req, seen, todo, cur, ktodo, key >>
  BY DEF UpdateInstance, At, Goto
<1>2. pc'[p] = IF renamed THEN "file" ELSE "put" BY <1>1 DEF Typed, TInv
<1>3. key[p] \in keys /\ u \in UUIDs BY <1>1, HandHeld DEF InHand, Typed, TInv, ConfigTypeOK, Keys
<1>4. renamed => qan'[u] = Replaced(p, files[u]) /\ qan'[u] # Unset
  <2> SUFFICES ASSUME renamed PROVE qan'[u] = Replaced(p, files[u]) /\ qan'[u] # Unset
    OBVIOUS
  <2>1. qan'[u] = Replaced(p, files[u]) BY <1>1, <1>3 DEF Typed, TInv, ConfigTypeOK
  <2>2. {conf[p].name, req[p].name} \subseteq Names BY <1>1, RenamesFrom DEF Renaming
  <2>3. files[u] \in Aliases BY <1>3 DEF Typed, TInv, ConfigTypeOK
  <2>4. Replaced(p, files[u]) \in Aliases BY <2>2, <2>3, ReplacedOK
  <2> QED BY <2>1, <2>4, ConfigConstants
<1>5. qan[u] # Unset BY <1>3 DEF Whole, Right
<1>6. PlainMySQL(key[p]) => qan[u] = key[p].alias /\ files[u] = key[p].alias
  BY <1>1, <1>3, HandHeld DEF Whole, Right, InHand
<1>7. PlainMySQL(key[p]) => /\ qan'[u] = Replaced(p, key[p].alias)
                            /\ files'[u] = IF pc'[p] = "file" THEN key[p].alias ELSE Replaced(p, key[p].alias)
  BY <1>1, <1>2, <1>4, <1>6, HandHeld DEF InHand
<1>8. \A v : v # u => qan'[v] = qan[v] /\ files'[v] = files[v] BY <1>1
<1>9. pc'[p] \in {"file", "put"} BY <1>2
<1> QED BY <1>1, <1>4, <1>5, <1>7, <1>8, <1>9, InHandKeeps

LEMMA WriteInstanceKeeps ==
  ASSUME Typed, AInv, NEW p \in Procs, Whole(p), WriteInstance(p)
  PROVE  Whole(p)'
<1> DEFINE u == key[p].uuid
<1>1. /\ pc[p] = "file" /\ files' = [files EXCEPT ![u] = Replaced(p, @)] /\ pc' = [pc EXCEPT ![p] = "put"]
      /\ UNCHANGED << yml, catalog, keys, qan, conf, req, seen, todo, cur, ktodo, key >>
  BY DEF WriteInstance, At, Goto, task
<1>2. pc'[p] = "put" BY <1>1 DEF Typed, TInv
<1>3. key[p] \in keys /\ u \in UUIDs BY <1>1, HandHeld DEF InHand, Typed, TInv, ConfigTypeOK, Keys
<1>4. files'[u] = Replaced(p, files[u]) /\ files'[u] # Unset
  <2>1. files'[u] = Replaced(p, files[u]) BY <1>1, <1>3 DEF Typed, TInv, ConfigTypeOK
  <2>2. {conf[p].name, req[p].name} \subseteq Names BY <1>1, RenamesFrom DEF Renaming
  <2>3. files[u] \in Aliases BY <1>1 DEF Typed, TInv
  <2>4. Replaced(p, files[u]) \in Aliases BY <2>2, <2>3, ReplacedOK
  <2> QED BY <2>1, <2>4, ConfigConstants
<1>5. qan[u] # Unset BY <1>3 DEF Whole, Right
<1>6. PlainMySQL(key[p]) => qan[u] = Replaced(p, key[p].alias) /\ files[u] = key[p].alias
  BY <1>1 DEF Whole, Halfway, Moving
<1>8. \A v : v # u => qan'[v] = qan[v] /\ files'[v] = files[v] BY <1>1
<1> QED BY <1>1, <1>2, <1>4, <1>5, <1>6, <1>8, InHandKeeps

LEMMA PutKeyKeeps ==
  ASSUME Typed, AInv, NEW p \in Procs, Whole(p), PutKey(p)
  PROVE  Whole(p)'
<1> DEFINE n == conf[p].name
           m == req[p].name
           s == cur[p]
           k == key[p]
           l == NewKey(p, key[p])
<1>1. /\ pc[p] = "put" /\ keys' = { x \in keys : ~ SamePath(x, l) } \cup {l} /\ pc' = [pc EXCEPT ![p] = "delete"]
      /\ UNCHANGED << yml, catalog, qan, files, conf, req, seen, todo, cur, ktodo, key >>
  BY DEF PutKey, At, Goto, task
<1>2. pc'[p] = "delete" BY <1>1 DEF Typed, TInv
<1>3. n \in Names /\ m \in Names /\ n # m BY <1>1, RenamesFrom DEF Renaming
<1>4. /\ k \in keys /\ k.node = n /\ k.service = s /\ s \in QueriesServices /\ s \in Services
      /\ \A x \in keys : x.uuid = k.uuid => x = k
  BY <1>1, HandHeld, ConfigConstants DEF InHand
<1>5. /\ l.node = m /\ l.service = s /\ l.alias = Replaced(p, k.alias) /\ l.uuid = k.uuid /\ l # k /\ ~ SamePath(k, l)
      /\ k.alias \in Aliases
  BY <1>3, <1>4 DEF NewKey, Typed, TInv, ConfigTypeOK, Keys, SamePath
<1>6. k \in keys' /\ l \in keys' BY <1>1, <1>4, <1>5
<1>7. Halfway(p) BY <1>1 DEF Whole, Moving
<1>8. (PlainMySQL(l) <=> PlainMySQL(k)) /\ (Plain(l.alias) <=> Plain(k.alias))
  BY <1>3, <1>4, <1>5, PlainReplaced DEF PlainMySQL
<1>9. PlainMySQL(k) => qan[k.uuid] = l.alias /\ files[k.uuid] = l.alias BY <1>1, <1>5, <1>7 DEF Halfway
<1>10. PlainMySQL(l) => files[l.uuid] # Unset BY <1>1, <1>5, <1>8, HandHeld DEF InHand
<1>11. Paths' BY <1>1 DEF Whole, Paths, SamePath
<1>12. Owners(p)'
  <2> SUFFICES ASSUME NEW x \in keys', NEW y \in keys', x.uuid = y.uuid, x # y PROVE {x, y} = {k, l}
    BY <1>1, <1>2, SameNames DEF Owners, Twins
  <2>1. \A z \in keys' : z = l \/ z \in keys BY <1>1
  <2>2. x \in keys /\ y \in keys => x = y BY <1>1 DEF Whole, Owners, Twins
  <2> QED BY <1>4, <1>5, <2>1, <2>2
<1>13. Right(p)'
  <2> SUFFICES ASSUME NEW x \in keys'
               PROVE  /\ qan[x.uuid] # Unset
                      /\ PlainMySQL(x) /\ x # k => qan[x.uuid] = x.alias /\ files[x.uuid] \in {x.alias, Unset}
    BY <1>1, <1>2 DEF Right, PlainMySQL
  <2>1. CASE x = l BY <1>4, <1>5, <1>8, <1>9, <2>1 DEF Whole, Right
  <2>2. CASE x \in keys BY <2>2 DEF Whole, Right
  <2> QED BY <1>1, <2>1, <2>2
<1>14. Filed(p)'
  <2> SUFFICES ASSUME NEW x \in keys', PlainMySQL(x), Ours(p, x.node) PROVE files[x.uuid] # Unset
    BY <1>1, <1>2, SameNames DEF Filed, PlainMySQL, Renaming
  <2>1. CASE x = l BY <1>10, <2>1
  <2>2. CASE x \in keys BY <2>2 DEF Whole, Filed
  <2> QED BY <1>1, <2>1, <2>2
<1>15. ASSUME NEW x, NEW t, x # m \/ t # s PROVE \A a : Held(x, t, a)' <=> Held(x, t, a)
  BY <1>1, <1>5, <1>15 DEF Held, SamePath
<1>16. Tagged(p)'
  <2> SUFFICES ASSUME NEW x \in Names, NEW t \in QueriesServices, t # s \/ x \notin {n, m}
               PROVE  Kept(x, t)'
    BY <1>1, <1>2 DEF Tagged, Moving
  <2>1. Kept(x, t) /\ catalog'[x][t] = catalog[x][t] BY <1>1 DEF Whole, Tagged
  <2> QED BY <1>15, <2>1 DEF Kept
<1>17. Visits(p)' BY <1>1, <1>2 DEF Whole, Visits, Renaming
<1>18. HeldAt(n, s)' = HeldAt(n, s) BY <1>1, <1>3, <1>5 DEF HeldAt, SamePath
<1>19. \A b : Held(m, s, b)' <=> Held(m, s, b) \/ b = l.alias BY <1>1, <1>5 DEF Held, SamePath
<1>20. Halfway(p)'
  <2>1. ASSUME NEW b \in Aliases, Plain(b)
        PROVE  b \in NewTags(p, s) <=> Held(m, s, b)' \/ \E x \in ktodo[p] : Plain(x.alias) /\ Replaced(p, x.alias) = b
    <3>1. b \in NewTags(p, s) <=> Held(m, s, b) \/ \E x \in ktodo[p] \cup {k} : Plain(x.alias) /\ Replaced(p, x.alias) = b
      BY <1>1, <1>4, <1>7, <2>1 DEF Halfway, Waiting
    <3>2. b = l.alias <=> Plain(k.alias) /\ Replaced(p, k.alias) = b BY <1>5, <1>8, <2>1
    <3> QED BY <1>19, <3>1, <3>2
  <2>2. Waiting(p)' = ktodo[p] BY <1>1, <1>2 DEF Waiting
  <2>3. s \notin todo[p] /\ catalog[m][s] = NewTags(p, s) /\ k \notin ktodo[p] /\ HeldAt(n, s) = ktodo[p] \cup {k}
    BY <1>1, <1>4, <1>7 DEF Halfway, InHand
  <2> QED BY <1>1, <1>2, <1>18, <2>1, <2>2, <2>3, SameNames DEF Halfway, InHand
<1> QED BY <1>2, <1>11, <1>12, <1>13, <1>14, <1>16, <1>17, <1>20 DEF Whole, Empties, Settling

LEMMA DeleteKeyKeeps ==
  ASSUME Typed, AInv, NEW p \in Procs, Whole(p), DeleteKey(p)
  PROVE  Whole(p)'
<1> DEFINE n == conf[p].name
           m == req[p].name
           s == cur[p]
           k == key[p]
<1>1. /\ pc[p] = "delete" /\ keys' = { x \in keys : ~ SamePath(x, k) } /\ pc' = [pc EXCEPT ![p] = "key"]
      /\ UNCHANGED << yml, catalog, qan, files, conf, req, seen, todo, cur, ktodo, key >>
  BY DEF DeleteKey, At, Goto, task
<1>2. pc'[p] = "key" BY <1>1 DEF Typed, TInv
<1>3. n \in Names /\ m \in Names /\ n # m BY <1>1, RenamesFrom DEF Renaming
<1>4. k \in keys /\ k.node = n /\ k.service = s /\ s \in QueriesServices BY <1>1, HandHeld DEF InHand
<1>5. keys' = keys \ {k} BY <1>1, <1>4 DEF Whole, Paths, SamePath
<1>7. Halfway(p) BY <1>1 DEF Whole, Moving
<1>11. Paths' BY <1>5 DEF Whole, Paths
<1>12. Owners(p)' BY <1>1, <1>5 DEF Whole, Owners, Twins
<1>13. Right(p)' BY <1>1, <1>2, <1>5 DEF Whole, Right, PlainMySQL
<1>14. Filed(p)' BY <1>1, <1>2, <1>5, SameNames DEF Whole, Filed, PlainMySQL, Renaming
<1>15. ASSUME NEW x, NEW t, x # n \/ t # s PROVE \A a : Held(x, t, a)' <=> Held(x, t, a)
  BY <1>4, <1>5, <1>15 DEF Held
<1>16. Tagged(p)'
  <2> SUFFICES ASSUME NEW x \in Names, NEW t \in QueriesServices, t # s \/ x \notin {n, m}
               PROVE  Kept(x, t)'
    BY <1>1, <1>2 DEF Tagged, Moving
  <2>1. Kept(x, t) /\ catalog'[x][t] = catalog[x][t] BY <1>1 DEF Whole, Tagged
  <2> QED BY <1>15, <2>1 DEF Kept
<1>17. Visits(p)' BY <1>1, <1>2 DEF Whole, Visits, Renaming
<1>20. Halfway(p)'
  <2>1. HeldAt(n, s)' = ktodo[p] BY <1>1, <1>5, <1>7 DEF HeldAt, Halfway, InHand
  <2>2. Waiting(p)' = Waiting(p) BY <1>1, <1>2 DEF Waiting
  <2>3. \A b : Held(m, s, b)' <=> Held(m, s, b) BY <1>1, <1>3, <1>15
  <2> QED BY <1>1, <1>2, <1>7, <2>1, <2>2, <2>3, SameNames DEF Halfway, InHand
<1> QED BY <1>2, <1>11, <1>12, <1>13, <1>14, <1>16, <1>17, <1>20 DEF Whole, Empties, Settling

LEMMA NextServiceKeeps ==
  ASSUME Typed, AInv, NEW p \in Procs, Whole(p), NextService(p)
  PROVE  Whole(p)'
<1> DEFINE n == conf[p].name
           m == req[p].name
           s == cur[p]
<1>1. /\ pc[p] = "key" /\ ktodo[p] = {} /\ pc' = [pc EXCEPT ![p] = "svc"]
      /\ UNCHANGED << yml, catalog, keys, qan, files, conf, req, seen, todo, cur >>
  BY DEF NextService, Move, At, Goto, shared, task
<1>2. pc'[p] = "svc" BY <1>1 DEF Typed, TInv
<1>3. Halfway(p) BY <1>1 DEF Whole, Moving
<1>4. \A t \in Services : catalog[n][t] # {} => t \in todo[p] BY <1>1 DEF Whole, Visits, Renaming
<1>5. ASSUME s \in QueriesServices PROVE Kept(n, s) /\ Kept(m, s)
  <2>1. catalog[n][s] = {} BY <1>3, <1>4, <1>5, ConfigConstants DEF Halfway
  <2>2. HeldAt(n, s) = {} BY <1>1, <1>3 DEF Halfway, InHand
  <2>3. \A b \in Aliases : Plain(b) => (b \in catalog[m][s] <=> Held(m, s, b))
    BY <1>1, <1>3, <1>5 DEF Halfway, Waiting
  <2> QED BY <2>1, <2>2, <2>3 DEF Kept, Held, HeldAt
<1>6. \A x \in Names, t \in QueriesServices : Kept(x, t) BY <1>1, <1>5 DEF Whole, Tagged
<1>7. Calm BY <1>1, <1>6 DEF Whole, Calm, Owners, Right, Twins
<1>8. Calm' BY <1>1, <1>7, CalmSame
<1>9. Filed(p)' BY <1>1, <1>2, SameNames DEF Whole, Filed, PlainMySQL, Renaming
<1>10. Visits(p)' /\ Empties(p)' BY <1>1, <1>2, <1>4 DEF Whole, Visits, Renaming, Empties, Settling
<1> QED BY <1>2, <1>8, <1>9, <1>10, WholeCalmNext DEF Moving

LEMMA DropNodeKeeps ==
  ASSUME Typed, AInv, NEW p \in Procs, Whole(p), DropNode(p), faults' = faults
  PROVE  Whole(p)'
<1>1. /\ pc[p] = "svc" /\ todo[p] = {} /\ pc' = [pc EXCEPT ![p] = "address"]
      /\ catalog' \in {[catalog EXCEPT ![conf[p].name] = Nothing], catalog}
      /\ conf' = [conf EXCEPT ![p].name = req[p].name]
      /\ UNCHANGED << yml, keys, qan, files, req >>
  BY DEF DropNode, At, Goto, SetName, task
<1>2. pc'[p] = "address" BY <1>1 DEF Typed, TInv
<1>3. conf[p].name \in Names /\ req[p].name \in Names /\ conf[p].name = yml.name BY <1>1, RenamesFrom DEF Renaming
<1>4. Calm /\ Filed(p) BY <1>1, WholeCalm DEF Moving
<1>5. \A s \in Services : catalog[conf[p].name][s] = {} BY <1>1 DEF Whole, Visits, Renaming
<1>6. catalog' = catalog
  <2>1. catalog[conf[p].name] = Nothing BY <1>3, <1>5 DEF Typed, TInv, ConfigTypeOK, Nothing
  <2> QED BY <1>1, <1>3, <2>1 DEF Typed, TInv, ConfigTypeOK
<1>7. conf'[p].name = req[p].name
  <2>1. conf'[p] = [conf[p] EXCEPT !.name = req[p].name] /\ conf[p] \in Configs
    BY <1>1 DEF Typed, TInv, ConfigTypeOK
  <2> QED BY <2>1 DEF Configs
<1>8. \A n \in Names : Ours(p, n)' => Ours(p, n) BY <1>1, <1>2, <1>7 DEF Ours, Renaming, Settling
<1>9. yml'.name # Unset BY <1>1, <1>3, ConfigConstants
<1>10. Visits(p)' /\ Empties(p)' BY <1>2, <1>9 DEF Visits, Empties, Renaming, Settling
<1> QED BY <1>1, <1>2, <1>6, <1>8, <1>10, CalmStays DEF Moving

-----------------------------------------------------------------------------
\* A step that is none of renaming's and changes nothing of what is moved.
LEMMA QuietKeeps ==
  ASSUME Typed, NEW p \in Procs, Whole(p), UNCHANGED << catalog, keys, qan, files >>,
         pc[p] \notin Moving, pc'[p] \notin Renaming \cup (Settling \ {"repair"}) \cup {"install"}, Ours(p, yml'.name)
  PROVE  Whole(p)'
<1>1. \A n \in Names : Ours(p, n)' => Ours(p, n) BY DEF Ours
<1>2. Visits(p)' /\ Empties(p)' BY DEF Visits, Empties
<1>3. pc'[p] \notin Moving BY DEF Moving, Renaming
<1> QED BY <1>1, <1>2, <1>3, CalmStays

LEMMA SettlingKeeps ==
  ASSUME Typed, NEW p \in Procs, Whole(p), UNCHANGED << yml, catalog, keys, qan, files >>,
         pc[p] \in Settling \ {"repair"}, pc'[p] \in Settling \ {"repair"}, conf'[p].name = conf[p].name
  PROVE  Whole(p)'
<1>1. \A n \in Names : Ours(p, n)' => Ours(p, n) BY DEF Ours, Renaming, Settling
<1>2. Visits(p)' /\ Empties(p)' BY DEF Whole, Visits, Empties, Renaming, Settling, Registered
<1> QED BY <1>1, <1>2, CalmStays DEF Moving, Settling

LEMMA LeaveKeeps ==
  ASSUME Typed, NEW p \in Procs, Whole(p), Leave(p), pc[p] \notin Moving
  PROVE  Whole(p)'
<1>1. pc'[p] = "idle" /\ UNCHANGED << yml, catalog, keys, qan, files >>
  BY DEF Leave, Exit, Goto, shared, Typed, TInv
<1> QED BY <1>1, QuietKeeps DEF Ours, Renaming, Settling

LEMMA InitialNameKeeps ==
  ASSUME Typed, AInv, NEW p \in Procs, Whole(p), InitialName(p)
  PROVE  Whole(p)'
<1>1. PICK n \in Names : /\ conf' = [conf EXCEPT ![p].name = n]
                         /\ pc' = [pc EXCEPT ![p] = IF Registered(n) # {} THEN "repair" ELSE "address"]
  BY ConfigConstants DEF InitialName, SetName, Goto, Typed, TInv, ConfigTypeOK, Requests
<1>2. pc[p] = "name" /\ UNCHANGED << yml, catalog, keys, qan, files, req >> BY DEF InitialName, At, shared, task
<1>3. pc'[p] = IF Registered(n) # {} THEN "repair" ELSE "address" BY <1>1 DEF Typed, TInv
<1>4. conf'[p].name = n
  <2>1. conf'[p] = [conf[p] EXCEPT !.name = n] /\ conf[p] \in Configs BY <1>1 DEF Typed, TInv, ConfigTypeOK
  <2> QED BY <2>1 DEF Configs
<1>5. CASE Registered(n) # {} BY <1>2, <1>3, <1>5, QuietKeeps DEF Ours, Renaming, Settling, Moving
<1>6. CASE Registered(n) = {}
  <2>1. \A m \in Names : Ours(p, m)' => Ours(p, m) \/ Registered(m) = {}
    BY <1>2, <1>3, <1>4, <1>6 DEF Ours, Renaming, Settling
  <2>2. Registered(n)' = {} BY <1>2, <1>6 DEF Registered
  <2>3. Visits(p)' /\ Empties(p)' BY <1>3, <1>4, <1>6, <2>2 DEF Visits, Empties, Renaming, Settling, Registered
  <2> QED BY <1>2, <1>3, <1>6, <2>1, <2>3, CalmStays DEF Moving
<1> QED BY <1>5, <1>6

LEMMA CheckTargetKeeps ==
  ASSUME Typed, AInv, NEW p \in Procs, Whole(p), CheckTarget(p)
  PROVE  Whole(p)'
<1>1. pc[p] = "name" /\ Renames(p) BY DEF CheckTarget, At
<1>2. CASE Leave(p) BY <1>1, <1>2, LeaveKeeps DEF Moving
<1>3. CASE Registered(req[p].name) = {} /\ Move(p, "name", "source")
  <2>1. pc'[p] = "source" /\ UNCHANGED << yml, catalog, keys, qan, files, conf, req >>
    BY <1>3 DEF Move, Goto, shared, task, Typed, TInv
  <2>2. conf[p].name = yml.name BY <1>1 DEF AInv, Follows
  <2>3. \A m \in Names : Ours(p, m)' => Ours(p, m) \/ Registered(m) = {}
    BY <1>3, <2>1, <2>2 DEF Ours, Renaming, Settling
  <2>4. Visits(p)' /\ Empties(p)' BY <2>1 DEF Visits, Empties, Renaming, Settling
  <2> QED BY <1>1, <2>1, <2>3, <2>4, CalmStays DEF Moving
<1> QED BY <1>2, <1>3 DEF CheckTarget

LEMMA CheckSourceKeeps ==
  ASSUME Typed, AInv, NEW p \in Procs, Whole(p), CheckSource(p)
  PROVE  Whole(p)'
<1>1. pc[p] = "source" BY DEF CheckSource, At
<1>2. conf[p].name \in Names /\ req[p].name \in Names /\ conf[p].name = yml.name BY <1>1, RenamesFrom DEF Renaming
<1>3. CASE Leave(p) BY <1>1, <1>3, LeaveKeeps DEF Moving
<1>4. CASE SetName(p, req[p].name) /\ Goto(p, "address") /\ UNCHANGED << shared, task, commands, faults >>
  <2>1. pc'[p] = "address" /\ UNCHANGED << yml, catalog, keys, qan, files, req >>
    BY <1>4 DEF Goto, shared, task, Typed, TInv
  <2>2. conf'[p].name = req[p].name
    <3>1. conf'[p] = [conf[p] EXCEPT !.name = req[p].name] /\ conf[p] \in Configs
      BY <1>4 DEF SetName, Typed, TInv, ConfigTypeOK
    <3> QED BY <3>1 DEF Configs
  <2>3. \A m \in Names : Ours(p, m)' => Ours(p, m) BY <1>1, <2>1, <2>2 DEF Ours, Renaming, Settling
  <2>4. yml'.name # Unset BY <1>2, <2>1, ConfigConstants
  <2>5. Visits(p)' /\ Empties(p)' BY <2>1, <2>4 DEF Visits, Empties, Renaming, Settling
  <2> QED BY <1>1, <2>1, <2>3, <2>5, CalmStays DEF Moving
<1>5. CASE /\ seen' = [seen EXCEPT ![p] = catalog[conf[p].name]] /\ todo' = [todo EXCEPT ![p] = Registered(conf[p].name)]
           /\ Goto(p, "svc") /\ UNCHANGED << shared, conf, req, cur, ktodo, key, errs, commands, faults >>
  <2>1. pc'[p] = "svc" /\ UNCHANGED << yml, catalog, keys, qan, files, conf, req >>
    BY <1>5 DEF Goto, shared, Typed, TInv
  <2>2. seen'[p] = catalog[conf[p].name] /\ todo'[p] = Registered(conf[p].name)
    BY <1>5 DEF Typed, TInv, ConfigTypeOK
  <2>3. \A m \in Names : Ours(p, m)' => Ours(p, m) BY <1>1, <2>1, SameNames DEF Renaming
  <2>4. Registered(req[p].name) = {} BY <1>1 DEF AInv, Follows
  <2>5. Visits(p)' BY <2>1, <2>2, <2>4 DEF Visits, Renaming, Registered
  <2>6. Empties(p)' BY <2>1 DEF Empties, Settling
  <2> QED BY <1>1, <2>1, <2>3, <2>5, <2>6, CalmStays DEF Moving
<1> QED BY <1>3, <1>4, <1>5 DEF CheckSource

\* What repair leaves under the name that the client takes has no tag.
LEMMA RepairKeeps ==
  ASSUME Typed, AInv, NEW p \in Procs, Whole(p), Repair(p)
  PROVE  Whole(p)'
<1> DEFINE n == conf[p].name
           gone == Registered(n)
           dead == { k \in keys : k.node = n /\ k.service \in gone }
<1>1. pc[p] = "repair" /\ yml.name = Unset /\ Units = {} /\ n \in Names
  BY DEF Repair, Repairs, At, AInv, Follows, Settling
<1>2. Missing(p) = gone BY <1>1 DEF Missing
<1>3. /\ catalog' = [catalog EXCEPT ![n] = [s \in Services |-> IF s \in gone THEN {} ELSE @[s]]]
      /\ keys' = keys \ dead
      /\ qan' = [u \in UUIDs |-> IF \E k \in dead : k.uuid = u THEN Unset ELSE qan[u]]
      /\ pc' = [pc EXCEPT ![p] = "address"]
      /\ UNCHANGED << yml, files, conf >>
  BY <1>2 DEF Repair, Repairs, Goto
<1>4. pc'[p] = "address" BY <1>3 DEF Typed, TInv
<1>5. /\ \A s \in Services : catalog'[n][s] = {}
      /\ \A m \in Names \ {n} : catalog'[m] = catalog[m]
  BY <1>1, <1>3 DEF Typed, TInv, ConfigTypeOK, Registered
<1>6. Calm /\ Filed(p) BY <1>1, WholeCalm DEF Moving
<1>7. \A k \in keys' : k \in keys /\ k.uuid \in UUIDs /\ ~ \E l \in dead : l.uuid = k.uuid
  BY <1>3, <1>6 DEF Calm, Typed, TInv, ConfigTypeOK, Keys
<1>8. \A k \in keys' : qan'[k.uuid] = qan[k.uuid] BY <1>3, <1>7
<1>9. ASSUME NEW m \in Names, NEW s \in QueriesServices PROVE Kept(m, s)'
  <2>1. Kept(m, s) BY <1>6 DEF Calm
  <2>2. CASE m # n
    <3>1. \A a : Held(m, s, a)' <=> Held(m, s, a) BY <1>3, <2>2 DEF Held
    <3> QED BY <1>5, <2>1, <2>2, <3>1 DEF Kept
  <2>3. CASE m = n
    <3>1. s \in Services BY ConfigConstants
    <3>2. catalog'[m][s] = {} BY <1>5, <2>3, <3>1
    <3>3. ASSUME NEW a \in Aliases, Plain(a) PROVE ~ Held(m, s, a)'
      <4>1. s \in gone => ~ Held(m, s, a)' BY <1>3, <2>3 DEF Held
      <4>2. s \notin gone => ~ Held(m, s, a) BY <2>1, <2>3, <3>1, <3>3 DEF Kept, Registered
      <4> QED BY <1>3, <4>1, <4>2 DEF Held
    <3> QED BY <3>2, <3>3 DEF Kept
  <2> QED BY <2>2, <2>3
<1>10. Calm'
  <2>1. Paths' /\ \A k, l \in keys' : k.uuid = l.uuid => k = l BY <1>6, <1>7 DEF Calm, Paths
  <2>2. \A k \in keys' : /\ qan'[k.uuid] # Unset
                         /\ PlainMySQL(k) => qan'[k.uuid] = k.alias /\ files'[k.uuid] \in {k.alias, Unset}
    BY <1>3, <1>6, <1>7, <1>8 DEF Calm
  <2> QED BY <1>9, <2>1, <2>2 DEF Calm, PlainMySQL
<1>11. Filed(p)'
  <2> SUFFICES ASSUME NEW k \in keys', PlainMySQL(k), Ours(p, k.node)' PROVE FALSE
    BY DEF Filed, PlainMySQL
  <2>1. "mysql:queries" \in QueriesServices /\ "mysql:queries" \in Services BY ConfigConstants
  <2>2. k.node \in Names /\ k.alias \in Aliases BY <1>7 DEF Typed, TInv, ConfigTypeOK, Keys
  <2>3. k.node = n BY <1>1, <1>3, <1>4, <2>2, ConfigConstants DEF Ours, Renaming
  <2>4. Kept(n, "mysql:queries")' BY <1>1, <1>3, <1>9, <2>1
  <2>5. k.alias \in catalog'[n]["mysql:queries"] BY <1>3, <2>2, <2>3, <2>4 DEF Kept, Held, PlainMySQL
  <2> QED BY <1>5, <2>1, <2>5
<1>12. Visits(p)' /\ Empties(p)' BY <1>3, <1>4, <1>5 DEF Visits, Empties, Renaming, Settling, Registered
<1> QED BY <1>4, <1>10, <1>11, <1>12, WholeCalmNext DEF Moving

\* Every step of config but those that fail.
LEMMA WholeConfig ==
  ASSUME IInv, Typed, AInv, NEW p \in Procs, Turn(p), Whole(p), ConfigStep(p), faults' = faults
  PROVE  Whole(p)'
<1> USE DEF At, Goto, shared, task, Moving
<1>0. pc \in [Procs -> {"idle"} \cup Locations \cup DbLocations] /\ conf \in [Procs -> Configs]
  BY DEF Typed, TInv, ConfigTypeOK
<1>a. faults # faults + 1
  <2>1. MaxFaults \in Nat BY ConfigConstants
  <2>2. faults \in 0 .. MaxFaults BY DEF Typed, TInv, ConfigTypeOK
  <2>3. faults \in Nat BY <2>1, <2>2
  <2> QED BY <2>3
<1>1. CASE BeginConfig(p)
  <2>1. pc[p] = "idle" /\ pc'[p] = "name" /\ UNCHANGED << yml, catalog, keys, qan, files >>
    BY <1>0, <1>1 DEF BeginConfig, Ready
  <2> QED BY <2>1, QuietKeeps DEF Ours, Renaming, Settling
<1>2. CASE InitialName(p) BY <1>2, InitialNameKeeps
<1>3. CASE Leave(p) /\ pc[p] \notin Moving BY <1>3, LeaveKeeps
<1>4. CASE NameTaken(p) BY <1>3, <1>4 DEF NameTaken
<1>5. CASE KeepName(p)
  <2>1. /\ pc[p] = "name" /\ pc'[p] = "address" /\ UNCHANGED << yml, catalog, keys, qan, files, conf >>
        /\ conf[p].name # Unset
    BY <1>0, <1>5 DEF KeepName, Move
  <2>2. conf[p].name = yml.name BY <2>1 DEF AInv, Follows
  <2>3. \A n \in Names : Ours(p, n)' => Ours(p, n) BY <2>1, <2>2 DEF Ours, Renaming, Settling
  <2>4. Visits(p)' /\ Empties(p)' BY <2>1, <2>2 DEF Visits, Empties, Renaming, Settling
  <2> QED BY <2>1, <2>3, <2>4, CalmStays
<1>6. CASE Repair(p) BY <1>6, RepairKeeps
<1>7. CASE RepairFails(p) BY <1>7, <1>a DEF RepairFails
<1>8. CASE CheckTarget(p) BY <1>8, CheckTargetKeeps
<1>9. CASE CheckSource(p) BY <1>9, CheckSourceKeeps
<1>10. CASE RegisterNew(p) BY <1>10, RegisterNewKeeps
<1>11. CASE RegisterFails(p) BY <1>11, <1>a DEF RegisterFails, Erred
<1>12. CASE DeregisterOld(p) BY <1>12, DeregisterOldKeeps
<1>13. CASE ListKeys(p) BY <1>13, ListKeysKeeps
<1>14. CASE GetKey(p) BY <1>14, GetKeyKeeps
<1>15. CASE GetFails(p) BY <1>15, <1>a DEF GetFails, Erred
<1>16. CASE NextService(p) BY <1>16, NextServiceKeeps
<1>17. CASE UpdateInstance(p) BY <1>17, UpdateInstanceKeeps
<1>18. CASE WriteInstance(p) BY <1>18, WriteInstanceKeeps
<1>19. CASE PutKey(p) BY <1>19, PutKeyKeeps
<1>20. CASE DeleteKey(p) BY <1>20, DeleteKeyKeeps
<1>21. CASE CallFails(p) BY <1>21, <1>a DEF CallFails, Erred
<1>22. CASE DropNode(p) BY <1>22, DropNodeKeeps
<1>23. CASE InvalidName(p) BY <1>3, <1>23 DEF InvalidName
<1>24. ASSUME NEW a \in Addresses, TakeAddress(p, a) PROVE Whole(p)'
  <2>1. /\ pc[p] = "address" /\ pc'[p] = "bind" /\ UNCHANGED << yml, catalog, keys, qan, files >>
        /\ conf' = [conf EXCEPT ![p].addr = a]
    BY <1>0, <1>24 DEF TakeAddress
  <2>2. conf'[p] = [conf[p] EXCEPT !.addr = a] /\ conf[p] \in Configs BY <1>0, <2>1
  <2>3. conf'[p].name = conf[p].name BY <2>2 DEF Configs
  <2> QED BY <2>1, <2>3, SettlingKeeps DEF Settling
<1>25. CASE FirstAddress(p) BY <1>24, <1>25 DEF FirstAddress, Typed, TInv, ConfigTypeOK, Requests
<1>26. CASE NotDetected(p) BY <1>3, <1>26 DEF NotDetected
<1>27. CASE KeepAddress(p) BY <1>0, <1>24, <1>27 DEF KeepAddress, Configs
<1>28. CASE ChangeAddress(p)
  BY <1>3, <1>24, <1>28 DEF ChangeAddress, ChangesAddress, Typed, TInv, ConfigTypeOK, Requests
<1>29. CASE SetBind(p)
  <2>1. ASSUME NEW b, conf' = [conf EXCEPT ![p].bind = b], Goto(p, "sync"), pc[p] = "bind", UNCHANGED shared
        PROVE  Whole(p)'
    <3>1. conf'[p] = [conf[p] EXCEPT !.bind = b] /\ conf[p] \in Configs BY <1>0, <2>1
    <3>2. conf'[p].name = conf[p].name BY <3>1 DEF Configs
    <3>3. pc'[p] = "sync" BY <1>0, <2>1
    <3> QED BY <2>1, <3>2, <3>3, SettlingKeeps DEF Settling
  <2> QED BY <1>3, <1>29, <2>1 DEF SetBind
<1>30. CASE SyncAgent(p)
  <2>1. /\ pc[p] = "sync" /\ pc'[p] \in {"write", "mysql"} /\ UNCHANGED << yml, catalog, keys, qan, files, conf >>
    BY <1>0, <1>30 DEF SyncAgent
  <2> QED BY <2>1, SettlingKeeps DEF Settling
<1>31. ASSUME NEW s, NEW from \in {"mysql", "mongodb"}, NEW to \in {"mongodb", "write"}, RestartAgent(p, s, from, to)
       PROVE  Whole(p)'
  <2>1. CASE ~ Leave(p)
    <3>1. pc[p] = from /\ pc'[p] = to /\ UNCHANGED << yml, catalog, keys, qan, files, conf >>
      BY <1>0, <1>31, <2>1 DEF RestartAgent, Move
    <3> QED BY <3>1, SettlingKeeps DEF Settling
  <2> QED BY <1>3, <1>31, <2>1 DEF RestartAgent
<1>32. CASE WriteConfig(p)
  <2>1. pc[p] = "write" /\ pc'[p] = "each" /\ yml' = conf[p] /\ UNCHANGED << catalog, keys, qan, files >>
    BY <1>0, <1>32 DEF WriteConfig
  <2> QED BY <2>1, QuietKeeps DEF Ours, Renaming, Settling
<1>33. CASE RestartEach(p) \/ Configured(p) \/ Finish(p)
  <2>1. /\ pc[p] \in {"each", "configured"} /\ pc'[p] \in {"each", "configured", "idle"}
        /\ UNCHANGED << yml, catalog, keys, qan, files >>
    BY <1>0, <1>33 DEF RestartEach, Configured, Move, Finish, Exit
  <2> QED BY <2>1, QuietKeeps DEF Ours, Renaming, Settling
<1> QED BY <1>1, <1>2, <1>4, <1>5, <1>6, <1>7, <1>8, <1>9, <1>10, <1>11, <1>12, <1>13, <1>14, <1>15, <1>16, <1>17, <1>18,
    <1>19, <1>20, <1>21, <1>22, <1>23, <1>25, <1>26, <1>27, <1>28, <1>29, <1>30, <1>31, <1>32, <1>33 DEF ConfigStep

LEMMA InstallKeeps ==
  ASSUME Typed, AInv, NEW p \in Procs, Whole(p), Install(p)
  PROVE  Whole(p)'
<1>s. PICK s, n, a, u : s = Service(p) /\ n = conf[p].name /\ a = Default(n) /\ u = NewInstance(s, a) OBVIOUS
<1>1. /\ pc[p] = "install" /\ catalog' = [catalog EXCEPT ![n][s] = @ \cup {a}]
      /\ s \in QueriesServices =>
           /\ Unknown(s) # {} /\ keys' = keys \cup {[node |-> n, service |-> s, alias |-> a, uuid |-> u]}
           /\ qan' = [qan EXCEPT ![u] = a] /\ files' = [files EXCEPT ![u] = a]
      /\ s \notin QueriesServices => UNCHANGED << keys, qan, files >>
      /\ UNCHANGED yml
  BY <1>s DEF Install, At
<1>2. pc'[p] \in {"added", "init"} BY DEF Install, NextPass, Goto, Typed, TInv
<1>3. s \in Services /\ n \in Names /\ a \in Aliases /\ Plain(a) /\ n = yml.name
  <2>1. left[p] \in Seq(DbServices) /\ left[p] # << >> BY <1>1 DEF Typed, DInv, DbTypeOK, DbLocations
  <2>2. s \in DbServices BY <1>s, <2>1 DEF Service
  <2>3. n \in Names /\ n = yml.name BY <1>1, <1>s DEF Typed, TInv, AInv, Follows, DbLocations
  <2> QED BY <1>s, <2>2, <2>3, DbConstants, DefaultOK DEF Plain, Default
<1>4. a \notin catalog[n][s] BY <1>1, <1>s DEF Whole, Empties, Duplicate
<1>5. /\ catalog'[n][s] = catalog[n][s] \cup {a}
      /\ \A x \in Names, t \in Services : x # n \/ t # s => catalog'[x][t] = catalog[x][t]
  BY <1>1, <1>3 DEF Typed, TInv, ConfigTypeOK
<1>6. Calm /\ Filed(p) BY <1>1, WholeCalm DEF Moving
<1>7. Calm' /\ \A k \in keys : PlainMySQL(k) /\ files[k.uuid] # Unset => files'[k.uuid] # Unset
  <2>1. CASE s \notin QueriesServices
    <3>1. ASSUME NEW x \in Names, NEW t \in QueriesServices PROVE Kept(x, t)'
      <4>1. Kept(x, t) /\ catalog'[x][t] = catalog[x][t] BY <1>5, <1>6, <2>1, ConfigConstants DEF Calm
      <4> QED BY <1>1, <2>1, <4>1 DEF Kept, Held
    <3> QED BY <1>1, <1>6, <2>1, <3>1 DEF Calm, Paths, PlainMySQL
  <2>2. CASE s \in QueriesServices
    <3> DEFINE l == [node |-> n, service |-> s, alias |-> a, uuid |-> u]
    <3>1. u \in UUIDs /\ qan[u] = Unset BY <1>1, <1>s, <2>2 DEF NewInstance, Unknown
    <3>2. /\ qan'[u] = a /\ files'[u] = a
          /\ \A v \in UUIDs \ {u} : qan'[v] = qan[v] /\ files'[v] = files[v]
      BY <1>1, <2>2, <3>1 DEF Typed, TInv, ConfigTypeOK
    <3>3. \A k \in keys : k.uuid \in UUIDs \ {u}
      BY <1>6, <3>1 DEF Calm, Typed, TInv, ConfigTypeOK, Keys
    <3>4. keys' = keys \cup {l} BY <1>1, <2>2
    <3>5. ~ Held(n, s, a) BY <1>3, <1>4, <1>6, <2>2 DEF Calm, Kept
    <3>6. Paths' BY <1>6, <3>4, <3>5 DEF Calm, Paths, SamePath, Held
    <3>7. \A k, m \in keys' : k.uuid = m.uuid => k = m BY <1>6, <3>3, <3>4 DEF Calm
    <3>8. a # Unset BY <1>3, ConfigConstants
    <3>9. \A k \in keys' : /\ qan'[k.uuid] # Unset
                           /\ PlainMySQL(k) => qan'[k.uuid] = k.alias /\ files'[k.uuid] \in {k.alias, Unset}
      BY <1>6, <3>2, <3>3, <3>4, <3>8 DEF Calm
    <3>10. ASSUME NEW x \in Names, NEW t \in QueriesServices PROVE Kept(x, t)'
      <4>1. Kept(x, t) BY <1>6 DEF Calm
      <4>2. CASE x = n /\ t = s
        <5>0. l.node = n /\ l.service = s /\ l.alias = a OBVIOUS
        <5> HIDE DEF l
        <5>1. \A b : Held(n, s, b)' <=> Held(n, s, b) \/ b = a BY <3>4, <5>0 DEF Held
        <5> QED BY <1>5, <4>1, <4>2, <5>1 DEF Kept
      <4>3. CASE x # n \/ t # s
        <5>1. \A b : Held(x, t, b)' <=> Held(x, t, b) BY <3>4, <4>3 DEF Held
        <5> QED BY <1>5, <4>1, <4>3, <5>1, ConfigConstants DEF Kept
      <4> QED BY <4>2, <4>3
    <3>11. Calm' BY <3>6, <3>7, <3>9, <3>10 DEF Calm, PlainMySQL
    <3>12. \A k \in keys : PlainMySQL(k) /\ files[k.uuid] # Unset => files'[k.uuid] # Unset BY <3>2, <3>3
    <3> QED BY <3>11, <3>12
  <2> QED BY <2>1, <2>2
<1>8. Filed(p)'
  <2> SUFFICES ASSUME NEW k \in keys', PlainMySQL(k), Ours(p, k.node)' PROVE files'[k.uuid] # Unset
    BY DEF Filed, PlainMySQL
  <2>1. Ours(p, k.node) BY <1>1, <1>2 DEF Ours, Renaming, Settling
  <2>2. CASE k \in keys BY <1>6, <1>7, <2>1, <2>2 DEF Filed
  <2>3. CASE k \notin keys
    <3>1. s \in QueriesServices /\ k.uuid = u BY <1>1, <2>3
    <3>2. u \in UUIDs BY <1>1, <1>s, <3>1 DEF NewInstance, Unknown
    <3>3. files'[u] = a BY <1>1, <3>1, <3>2 DEF Typed, TInv, ConfigTypeOK
    <3> QED BY <1>3, <3>1, <3>3, ConfigConstants
  <2> QED BY <2>2, <2>3
<1>9. Visits(p)' /\ Empties(p)' BY <1>2 DEF Visits, Empties, Renaming, Settling
<1> QED BY <1>2, <1>7, <1>8, <1>9, WholeCalmNext DEF Moving

LEMMA RemoveServiceKeeps ==
  ASSUME Typed, AInv, NEW p \in Procs, Whole(p), RemoveService(p)
  PROVE  Whole(p)'
<1> DEFINE n == conf[p].name
<1>s. PICK s \in todo[p] :
          /\ catalog' = [catalog EXCEPT ![n][s] = {}]
          /\ keys' = keys \ KeysOf(n, s)
          /\ qan' = [v \in UUIDs |-> IF \E k \in KeysOf(n, s) : k.uuid = v THEN Unset ELSE qan[v]]
          /\ files' = [v \in UUIDs |-> IF \E k \in KeysOf(n, s) : k.uuid = v THEN Unset ELSE files[v]]
  BY DEF RemoveService
<1>1. pc[p] = "remove" /\ UNCHANGED << yml, pc >> BY DEF RemoveService, At
<1>2. s \in Services /\ n \in Names BY <1>1, <1>s DEF Typed, TInv, ConfigTypeOK, DbLocations
<1>5. /\ catalog'[n][s] = {}
      /\ \A x \in Names, t \in Services : x # n \/ t # s => catalog'[x][t] = catalog[x][t]
  BY <1>s, <1>2 DEF Typed, TInv, ConfigTypeOK
<1>6. Calm /\ Filed(p) BY <1>1, WholeCalm DEF Moving
<1>7. \A k \in keys' : /\ k \in keys /\ k.uuid \in UUIDs /\ ~ \E l \in KeysOf(n, s) : l.uuid = k.uuid
                       /\ k.node = n /\ k.service = s => k.alias \notin catalog[n][s]
  BY <1>s, <1>6 DEF Calm, Typed, TInv, ConfigTypeOK, Keys, KeysOf
<1>8. \A k \in keys' : qan'[k.uuid] = qan[k.uuid] /\ files'[k.uuid] = files[k.uuid] BY <1>s, <1>7
<1>9. ASSUME NEW x \in Names, NEW t \in QueriesServices PROVE Kept(x, t)'
  <2>1. Kept(x, t) /\ t \in Services BY <1>6, ConfigConstants DEF Calm
  <2>2. CASE x # n \/ t # s
    <3>1. \A a : Held(x, t, a)' <=> Held(x, t, a) BY <1>s, <2>2 DEF Held, KeysOf
    <3> QED BY <1>5, <2>1, <2>2, <3>1 DEF Kept
  <2>3. CASE x = n /\ t = s
    <3>1. ASSUME NEW a \in Aliases, Plain(a) PROVE ~ Held(x, t, a)'
      <4>1. Held(x, t, a)' => Held(x, t, a) /\ a \notin catalog[n][s] BY <1>7, <2>3 DEF Held
      <4> QED BY <2>1, <2>3, <3>1, <4>1 DEF Kept
    <3> QED BY <1>5, <2>3, <3>1 DEF Kept
  <2> QED BY <2>2, <2>3
<1>10. Calm'
  <2>1. Paths' /\ \A k, l \in keys' : k.uuid = l.uuid => k = l BY <1>6, <1>7 DEF Calm, Paths
  <2>2. \A k \in keys' : /\ qan'[k.uuid] # Unset
                         /\ PlainMySQL(k) => qan'[k.uuid] = k.alias /\ files'[k.uuid] \in {k.alias, Unset}
    BY <1>6, <1>7, <1>8 DEF Calm
  <2> QED BY <1>9, <2>1, <2>2 DEF Calm, PlainMySQL
<1>11. Filed(p)'
  <2> SUFFICES ASSUME NEW k \in keys', PlainMySQL(k), Ours(p, k.node)' PROVE files'[k.uuid] # Unset
    BY DEF Filed, PlainMySQL
  <2>1. Ours(p, k.node) BY <1>1 DEF Ours, Renaming, Settling
  <2> QED BY <1>6, <1>7, <1>8, <2>1 DEF Filed
<1>12. Visits(p)' /\ Empties(p)' BY <1>1 DEF Visits, Empties, Renaming, Settling
<1> QED BY <1>1, <1>10, <1>11, <1>12, WholeCalmNext DEF Moving

LEMMA WholeDb ==
  ASSUME IInv, Typed, AInv, NEW p \in Procs, Turn(p), Whole(p), DbStep(p)
  PROVE  Whole(p)'
<1> USE DEF At, DbLocations, configvars, shared, task, Moving, Goto
<1>0. pc \in [Procs -> {"idle"} \cup Locations \cup DbLocations] /\ conf \in [Procs -> Configs]
  BY DEF Typed, TInv, ConfigTypeOK
<1>q. ASSUME NEW l \in DbLocations \cup {"idle"}, pc'[p] = l, l # "install", pc[p] \in DbLocations \cup {"idle"},
             UNCHANGED << catalog, keys, qan, files >>, yml'.name = yml.name
      PROVE  Whole(p)'
  BY <1>q, QuietKeeps DEF Ours, Renaming, Settling
<1>g. ASSUME NEW from \in DbLocations, NEW to \in DbLocations \ {"install"}, Go(p, from, to) PROVE Whole(p)'
  <2>1. pc[p] = from /\ pc'[p] = to /\ UNCHANGED << yml, catalog, keys, qan, files >> BY <1>0, <1>g DEF Go
  <2> QED BY <1>q, <2>1
<1>i. CASE Quit(p) /\ pc[p] \in DbLocations
  <2>1. pc'[p] = "idle" /\ UNCHANGED << yml, catalog, keys, qan, files >> BY <1>0, <1>i DEF Quit
  <2> QED BY <1>i, <1>q, <2>1
<1>1. CASE BeginAdd(p) \/ BeginRemoveAll(p)
  <2>1. pc[p] = "idle" /\ pc'[p] \in {"init", "remove"} /\ UNCHANGED << yml, catalog, keys, qan, files >>
    BY <1>0, <1>1 DEF BeginAdd, BeginRemoveAll, Ready
  <2> QED BY <1>q, <2>1
<1>3. ASSUME NEW from \in DbLocations, NEW to \in DbLocations \ {"install"}, Check(p, from, to) PROVE Whole(p)'
  <2>1. CASE ~ Quit(p)
    <3>1. pc[p] = from /\ pc'[p] = to /\ UNCHANGED << yml, catalog, keys, qan, files >> BY <1>0, <1>3, <2>1 DEF Check, Plan
    <3> QED BY <1>q, <3>1
  <2> QED BY <1>3, <1>i, <2>1 DEF Check, Plan
<1>4. ASSUME NEW at \in DbLocations \ {"install"}, NEW schemaat \in DbLocations \ {"install"},
             Grant(p, at, schemaat) \/ GrantSchema(p, at, schemaat)
      PROVE  Whole(p)'
  <2>1. pc[p] = at /\ pc'[p] \in {at, schemaat} /\ UNCHANGED << yml, catalog, keys, qan, files >>
    BY <1>0, <1>4 DEF Grant, GrantSchema
  <2> QED BY <1>q, <2>1
<1>6. CASE Access(p)
  <2>1. pc[p] = "access" /\ pc'[p] = "getinfo" /\ UNCHANGED << yml, catalog, keys, qan, files >>
    BY <1>0, <1>6 DEF Access, LogIn
  <2> QED BY <1>q, <2>1
<1>7. CASE GetInfo(p)
  <2>1. (IF Creates(p) THEN "check" ELSE "tables") \in DbLocations \ {"install"} OBVIOUS
  <2> QED BY <1>i, <1>g, <1>7, <2>1 DEF GetInfo
<1>8. CASE CountTables(p)
  <2>1. (IF new[p] # NoPassword THEN "store" ELSE "duplicate") \in DbLocations \ {"install"} OBVIOUS
  <2> QED BY <1>g, <1>8, <2>1 DEF CountTables
<1>9. CASE CheckDuplicate(p)
  <2>1. CASE NextPass(p) /\ pc[p] = "duplicate" /\ UNCHANGED << configvars, conf >>
    <3>1. pc'[p] \in {"added", "init"} BY <1>0, <2>1 DEF NextPass
    <3> QED BY <1>q, <2>1, <3>1
  <2>2. CASE Go(p, "duplicate", "install") /\ ~ Duplicate(p)
    <3>1. /\ pc[p] = "duplicate" /\ pc'[p] = "install" /\ UNCHANGED << yml, catalog, keys, qan, files, conf >>
          /\ Service(p)' = Service(p)
      BY <1>0, <2>2 DEF Go, adding, Service
    <3>2. Visits(p)' /\ Empties(p)' BY <2>2, <3>1 DEF Visits, Empties, Renaming, Settling, Duplicate
    <3>3. \A n \in Names : Ours(p, n)' => Ours(p, n) BY <3>1 DEF Ours, Renaming, Settling
    <3> QED BY <3>1, <3>2, <3>3, CalmStays
  <2> QED BY <1>i, <1>9, <2>1, <2>2 DEF CheckDuplicate
<1>10. CASE Store(p) \/ ClearPassword(p)
  <2>1. PICK w : /\ yml' = [conf[p] EXCEPT !.password = w] /\ pc[p] \in {"store", "remove"} /\ pc'[p] \in {"duplicate", "idle"}
                 /\ UNCHANGED << catalog, keys, qan, files >>
    BY <1>0, <1>10 DEF Store, ClearPassword, Exit
  <2>2. conf[p] \in Configs /\ conf[p].name = yml.name BY <1>0, <2>1 DEF AInv, Follows
  <2>3. yml'.name = yml.name BY <2>1, <2>2 DEF Configs
  <2> QED BY <1>q, <2>1, <2>3
<1>11. CASE Install(p) BY <1>11, InstallKeeps
<1>12. CASE RemoveService(p) BY <1>12, RemoveServiceKeeps
<1>13. CASE NotRemovable(p) BY <1>13, LeaveKeeps DEF NotRemovable
<1> QED BY <1>1, <1>3, <1>4, <1>6, <1>7, <1>8, <1>9, <1>10, <1>11, <1>12, <1>13, <1>g, <1>i
    DEF DbStep, CheckFlags, NoAccess, CheckUser, GrantUser, Granted, Verify, CheckSudo, GrantSudo, VerifySudo, FinishAdd

LEMMA WholeInit == Init => KInv
<1> SUFFICES ASSUME Init, NEW p \in Procs PROVE Whole(p)
  BY DEF KInv
<1>1. PICK c \in Catalogs, configured \in BOOLEAN, own \in SUBSET Owned : Beginning(c, configured, own)
  BY DEF Init
<1> DEFINE named == { u \in UUIDs : u.alias \in c[u.service] }
           KeyOf(u) == [node |-> Hostname, service |-> u.service, alias |-> u.alias, uuid |-> u]
<1>2. /\ Hostname \in Names /\ Unset \notin Names /\ Unset \notin Aliases /\ c \in [Services -> SUBSET Aliases]
      /\ QueriesServices \subseteq Services
  BY ConfigConstants
<1>3. /\ yml = IF configured
               THEN [NoConf EXCEPT !.server = TRUE, !.name = Hostname, !.addr = CHOOSE x \in LocalAddresses : TRUE,
                                   !.bind = CHOOSE x \in LocalAddresses : TRUE] ELSE NoConf
      /\ catalog = [m \in Names |-> IF m = Hostname THEN c ELSE Nothing]
      /\ keys = { KeyOf(u) : u \in named }
      /\ qan = [u \in UUIDs |-> IF u \in named THEN u.alias ELSE Unset]
      /\ files = [u \in UUIDs |-> IF u \in named /\ configured THEN u.alias ELSE Unset]
      /\ pc = [q \in Procs |-> "idle"]
  BY <1>1 DEF Beginning
<1>4. yml.name = IF configured THEN Hostname ELSE Unset BY <1>3 DEF NoConf
<1>5. \A k \in keys : /\ k.uuid \in named /\ k.node = Hostname /\ k.service = k.uuid.service
                      /\ k.alias = k.uuid.alias /\ k = KeyOf(k.uuid)
  BY <1>3
<1>6. \A u \in UUIDs : u \in named => u.alias \in Aliases /\ qan[u] = u.alias
                                      /\ files[u] = (IF configured THEN u.alias ELSE Unset)
  BY <1>3 DEF UUIDs
<1>7. \A u, v \in UUIDs : u.service = v.service /\ u.alias = v.alias => u = v BY DEF UUIDs
<1>8. named \subseteq UUIDs OBVIOUS
<1>9. Paths /\ \A k, l \in keys : k.uuid = l.uuid => k = l BY <1>5, <1>7, <1>8 DEF Paths, SamePath
<1>10. \A k \in keys : qan[k.uuid] # Unset /\ qan[k.uuid] = k.alias /\ files[k.uuid] \in {k.alias, Unset}
  BY <1>2, <1>5, <1>6, <1>8
<1>11. ASSUME NEW n \in Names, NEW s \in QueriesServices, NEW a \in Aliases PROVE a \in catalog[n][s] <=> Held(n, s, a)
  <2>1. CASE n = Hostname
    <3>1. catalog[n][s] = c[s] BY <1>3, <2>1
    <3>2. ASSUME a \in c[s] PROVE Held(n, s, a)
      <4> DEFINE u == [service |-> s, alias |-> a]
      <4>1. u \in named BY <3>2 DEF UUIDs
      <4>2. KeyOf(u) \in keys BY <1>3, <4>1
      <4>3. KeyOf(u).node = n /\ KeyOf(u).service = s /\ KeyOf(u).alias = a BY <2>1
      <4> QED BY <4>2, <4>3 DEF Held
    <3>3. ASSUME Held(n, s, a) PROVE a \in c[s]
      <4>1. PICK k \in keys : k.service = s /\ k.alias = a BY <3>3 DEF Held
      <4>2. k.uuid \in named /\ k.uuid.service = s /\ k.uuid.alias = a BY <1>5, <4>1
      <4> QED BY <4>2
    <3> QED BY <3>1, <3>2, <3>3
  <2>2. CASE n # Hostname
    <3>1. catalog[n][s] = {} BY <1>2, <1>3, <2>2 DEF Nothing
    <3> QED BY <1>5, <2>2, <3>1 DEF Held
  <2> QED BY <2>1, <2>2
<1> HIDE DEF named, KeyOf
<1>12. Calm BY <1>9, <1>10, <1>11 DEF Calm, Kept
<1>13. Filed(p)
  <2> SUFFICES ASSUME NEW k \in keys, Ours(p, k.node) PROVE files[k.uuid] # Unset
    BY DEF Filed
  <2>1. k.node = yml.name BY <1>3 DEF Ours, Renaming, Settling
  <2>2. configured BY <1>2, <1>4, <1>5, <2>1
  <2> QED BY <1>2, <1>5, <1>6, <1>8, <2>2
<1>14. Visits(p) /\ Empties(p) BY <1>3 DEF Visits, Empties, Renaming, Settling
<1> QED BY <1>3, <1>12, <1>13, <1>14, WholeCalm DEF Moving

LEMMA DbKeepsFaults ==
  ASSUME Typed, NEW p \in Procs, DbStep(p)
  PROVE  UNCHANGED faults /\ \A q \in Procs \ {p} : pc'[q] = pc[q]
<1> USE DEF Goto, configvars
<1>0. pc \in [Procs -> {"idle"} \cup Locations \cup DbLocations] BY DEF Typed, TInv
<1>1. ASSUME UNCHANGED faults, UNCHANGED pc \/ \E l : pc' = [pc EXCEPT ![p] = l]
      PROVE  UNCHANGED faults /\ \A q \in Procs \ {p} : pc'[q] = pc[q]
  BY <1>0, <1>1
<1>2. ASSUME NEW from, NEW to, Go(p, from, to) \/ Check(p, from, to) \/ Grant(p, from, to) \/ GrantSchema(p, from, to)
      PROVE  UNCHANGED faults /\ \E l : pc' = [pc EXCEPT ![p] = l]
  BY <1>2 DEF Go, Check, Plan, Quit, Grant, GrantSchema
<1>3. CASE Quit(p) BY <1>1, <1>3 DEF Quit
<1>4. ASSUME NEW w, LogIn(p, w) PROVE UNCHANGED faults /\ \E l : pc' = [pc EXCEPT ![p] = l]
  BY <1>4 DEF LogIn
<1>5. CASE BeginAdd(p) \/ BeginRemoveAll(p) \/ RemoveService(p) \/ NotRemovable(p) \/ ClearPassword(p) \/ Store(p)
           \/ Install(p)
  BY <1>1, <1>5 DEF BeginAdd, BeginRemoveAll, RemoveService, NotRemovable, ClearPassword, Store, Install, NextPass, Leave, Exit
<1>6. CASE CheckDuplicate(p)
  BY <1>1, <1>2, <1>3, <1>6 DEF CheckDuplicate, NextPass
<1> QED BY <1>1, <1>2, <1>3, <1>4, <1>5, <1>6 DEF DbStep, CheckFlags, Access, NoAccess, GetInfo, CheckUser, GrantUser, Granted,
        Verify, CheckSudo, GrantSudo, VerifySudo, CountTables, FinishAdd

LEMMA WholeNext == IInv /\ Typed /\ AInv /\ SInv /\ KInv /\ [Next]_vars => KInv'
<1> SUFFICES ASSUME IInv, Typed, AInv, SInv, KInv, [Next]_vars, faults' = 0 PROVE \A p \in Procs : Turn(p)' => Whole(p)'
  BY DEF KInv
<1>1. CASE UNCHANGED vars
  <2>1. faults = 0 BY <1>1 DEF vars, configvars
  <2> SUFFICES ASSUME NEW p \in Procs, Turn(p)' PROVE Whole(p)'
    OBVIOUS
  <2>2. Whole(p) BY <1>1, <2>1 DEF KInv, Turn, vars
  <2>3. UNCHANGED << pc, yml, catalog, keys, qan, files, conf, req, seen, todo, cur, ktodo, key, left >>
    BY <1>1 DEF vars, configvars, shared, task, dbvars, adding
  <2>4. /\ Paths' /\ Owners(p)' /\ Right(p)' /\ Filed(p)' /\ Tagged(p)'
    BY <2>2, <2>3 DEF Whole, Paths, SamePath, Owners, Twins, NewKey, Replaced, Right, PlainMySQL, Filed, Ours, Tagged, Kept, Held
  <2>5. Visits(p)' /\ Empties(p)' BY <2>2, <2>3 DEF Whole, Visits, Empties, Registered, Duplicate, Service
  <2>6. pc[p] \in Moving => Halfway(p)'
    BY <2>2, <2>3 DEF Whole, Halfway, NewTags, Held, HeldAt, Waiting, Replaced, PlainMySQL
  <2> QED BY <2>3, <2>4, <2>5, <2>6 DEF Whole
<1>2. CASE Halt BY <1>1, <1>2 DEF Halt
<1>3. ASSUME NEW p \in Procs, ConfigStep(p) PROVE \A q \in Procs : Turn(q)' => Whole(q)'
  <2>1. Turn(p) BY <1>3, ConfigTurn DEF IInv
  <2>2. faults = 0 BY <1>3, <2>1, ConfigKeepsPassword DEF SInv, Remembers
  <2>3. Whole(p)' BY <1>3, <2>1, <2>2, WholeConfig DEF KInv
  <2>4. \A q \in Procs \ {p} : pc'[q] = pc[q] BY <1>3, <2>1, ConfigMoves DEF Goes, Typed, TInv
  <2> QED BY <2>1, <2>3, <2>4, TurnPasses
<1>4. ASSUME NEW p \in Procs, Fail(p) \/ FailAdd(p) \/ CheckBlind(p) PROVE FALSE
  BY <1>4 DEF Fail, FailAdd, CheckBlind, Typed, TInv, ConfigTypeOK
<1>5. ASSUME NEW p \in Procs, DbStep(p) PROVE \A q \in Procs : Turn(q)' => Whole(q)'
  <2>1. Turn(p) BY <1>5, DbTurn DEF IInv
  <2>2. UNCHANGED faults /\ \A q \in Procs \ {p} : pc'[q] = pc[q] BY <1>5, <2>1, DbKeepsFaults
  <2>3. Whole(p)' BY <1>5, <2>1, <2>2, WholeDb DEF KInv
  <2> QED BY <2>1, <2>2, <2>3, TurnPasses
<1> QED BY <1>1, <1>2, <1>3, <1>4, <1>5 DEF Next

LEMMA WholeAlways == Spec => []KInv
BY TypedAlways, AddressAlways, StoredAlways, WholeInit, WholeNext, PTL DEF Spec

-----------------------------------------------------------------------------
(* What runs has loaded *)

Ending == {"each", "configured"}

\* What renaming has visited is registered under the new name, or it has met an error.
Arrived(p) ==
  /\ pc[p] \notin (Renaming \ {"source"}) \cup (Settling \ {"repair"}) \cup Ending => seen[p] = Nothing
  /\ pc[p] \in Renaming /\ ~ errs[p] =>
       \A s \in Services : seen[p][s] # {} => s \in todo[p] \cup Registered(req[p].name)
  /\ pc[p] \in Settling \cup Ending /\ ~ errs[p] =>
       \A s \in Services : seen[p][s] # {} => s \in Registered(conf[p].name)

\* The unit of a queries service of the client has loaded the credentials that pmm.yml gets.
Fits(p, s) == s \in Registered(conf[p].name) \cap Units => units[s] = conf[p].auth

Reloads(p) ==
  /\ pc[p] \in {"mysql", "mongodb"} => agent = conf[p].auth
  /\ pc[p] \in {"write"} \cup Ending => agent \in {Unset, conf[p].auth}
  /\ pc[p] \in Ending => yml = conf[p] /\ yml.name \in Names
  /\ pc[p] \in {"mongodb", "write"} \cup Ending => Fits(p, "mysql:queries")
  /\ pc[p] \in {"write"} \cup Ending => Fits(p, "mongodb:queries")
  /\ pc[p] \in Ending /\ RestartsAll(p) => \A s \in Units \ todo[p] : units[s] = yml.auth
  /\ pc[p] = "configured" => todo[p] = {}

\* Whatever runs for queries runs in an agent that is configured.
Attached == Units \cap QueriesServices # {} => agent # Unset

RInv ==
  /\ Attached
  /\ \A p \in Procs : Arrived(p) /\ Reloads(p)

-----------------------------------------------------------------------------
\* A command that has not renamed anything has seen nothing.
LEMMA NothingSeen ==
  ASSUME NEW p \in Procs, seen'[p] = Nothing
  PROVE  Arrived(p)'
BY DEF Arrived, Nothing

LEMMA ExitArrived ==
  ASSUME Typed, NEW p \in Procs, Exit(p)
  PROVE  Arrived(p)' /\ Reloads(p)'
<1>1. seen'[p] = Nothing /\ pc'[p] = "idle" BY DEF Exit, ForgetTask, Goto, Typed, TInv, ConfigTypeOK
<1> QED BY <1>1, NothingSeen DEF Reloads, Ending

LEMMA StaysArrived ==
  ASSUME NEW p \in Procs, Arrived(p), UNCHANGED << seen, errs, catalog >>,
         pc[p] \in Settling \cup Ending, pc'[p] \in (Settling \ {"repair"}) \cup Ending, conf'[p].name = conf[p].name
  PROVE  Arrived(p)'
<1>1. pc'[p] \notin Renaming BY DEF Settling, Ending, Renaming
<1> QED BY <1>1 DEF Arrived, Registered, Settling, Ending, Renaming

LEMMA MovesArrived ==
  ASSUME NEW p \in Procs, Arrived(p), UNCHANGED << seen, req >>, pc[p] \in Renaming, pc'[p] \in Renaming \ {"source"},
         ~ errs'[p] => ~ errs[p] /\ \A s \in todo[p] \cup Registered(req[p].name) :
                                       seen[p][s] # {} => s \in todo'[p] \cup Registered(req[p].name)'
  PROVE  Arrived(p)'
BY DEF Arrived, Settling, Ending, Renaming

LEMMA ArrivedConfig ==
  ASSUME Typed, AInv, RInv, NEW p \in Procs, Turn(p), ConfigStep(p)
  PROVE  Arrived(p)'
<1> USE DEF At, Goto, shared, task, Renaming
<1>0. pc \in [Procs -> {"idle"} \cup Locations \cup DbLocations] /\ conf \in [Procs -> Configs] /\ errs \in [Procs -> BOOLEAN]
  BY DEF Typed, TInv, ConfigTypeOK
<1>a. Arrived(p) BY DEF RInv
<1>1. CASE UNCHANGED seen /\ pc[p] \in {"idle", "name", "source", "repair"}
  <2>1. seen[p] = Nothing BY <1>1, <1>a DEF Arrived, Settling, Ending
  <2> QED BY <1>1, <2>1, NothingSeen
<1>2. CASE Leave(p) BY <1>2, ExitArrived DEF Leave
<1>3. CASE BeginConfig(p) BY <1>1, <1>3 DEF BeginConfig, Ready
<1>4. CASE InitialName(p) \/ KeepName(p) \/ Repair(p) \/ RepairFails(p)
  BY <1>1, <1>4 DEF InitialName, KeepName, Move, Repair, RepairFails, Repairs
<1>5. CASE CheckTarget(p) \/ NameTaken(p) BY <1>1, <1>2, <1>5 DEF CheckTarget, NameTaken, Move
<1>6. CASE CheckSource(p)
  <2>1. CASE /\ seen' = [seen EXCEPT ![p] = catalog[conf[p].name]]
             /\ todo' = [todo EXCEPT ![p] = Registered(conf[p].name)]
             /\ pc' = [pc EXCEPT ![p] = "svc"]
    <3>1. seen'[p] = catalog[conf[p].name] /\ todo'[p] = Registered(conf[p].name) /\ pc'[p] = "svc"
      BY <1>0, <2>1 DEF Typed, TInv, ConfigTypeOK
    <3> QED BY <3>1 DEF Arrived, Registered, Settling, Ending
  <2> QED BY <1>1, <1>2, <1>6, <2>1 DEF CheckSource
<1>7. CASE RegisterNew(p)
  <2> DEFINE n == req[p].name
  <2>8. pc[p] = "svc" /\ pc'[p] = "dereg" /\ UNCHANGED << seen, req, errs >> BY <1>0, <1>7 DEF RegisterNew
  <2>1. PICK s \in todo[p] : Visited(p, s) /\ catalog' = [catalog EXCEPT ![n][s] = NewTags(p, s)] BY <1>7 DEF RegisterNew
  <2>2. n \in Names /\ s \in Services BY <1>7 DEF RegisterNew, Typed, TInv, ConfigTypeOK
  <2>3. catalog'[n] = [catalog[n] EXCEPT ![s] = NewTags(p, s)] /\ todo'[p] = todo[p] \ {s}
    BY <2>1, <2>2 DEF Visited, Typed, TInv, ConfigTypeOK
  <2>4. catalog[n] \in [Services -> SUBSET Aliases] BY <2>2 DEF Typed, TInv, ConfigTypeOK
  <2>5. seen[p][s] # {} => NewTags(p, s) # {} BY DEF NewTags
  <2>6. \A t \in Services : (t # s => catalog'[n][t] = catalog[n][t]) /\ (t = s => catalog'[n][t] = NewTags(p, s))
    BY <2>3, <2>4
  <2>7. \A t \in todo[p] \cup Registered(n) : seen[p][t] # {} => t \in todo'[p] \cup Registered(n)'
    <3> SUFFICES ASSUME NEW t \in todo[p] \cup Registered(n), seen[p][t] # {}, t \notin todo'[p]
                 PROVE  t \in Services /\ catalog'[n][t] # {}
      BY <2>8 DEF Registered
    <3>1. t \in Services BY DEF Registered, Typed, TInv, ConfigTypeOK
    <3>2. t = s \/ catalog[n][t] # {} BY <2>3 DEF Registered
    <3> QED BY <2>5, <2>6, <3>1, <3>2
  <2> QED BY <1>a, <2>7, <2>8, MovesArrived
<1>8. CASE DeregisterOld(p)
  <2> DEFINE n == req[p].name
  <2>1. /\ pc[p] = "dereg" /\ pc'[p] = "keys" /\ UNCHANGED << seen, req, errs, todo >>
        /\ catalog' = [catalog EXCEPT ![conf[p].name][cur[p]] = {}]
    BY <1>0, <1>8 DEF DeregisterOld
  <2>2. n \in Names /\ conf[p].name \in Names /\ n # conf[p].name BY <2>1 DEF AInv, Follows, Typed, TInv
  <2>3. catalog'[n] = catalog[n] BY <2>1, <2>2 DEF Typed, TInv, ConfigTypeOK
  <2> QED BY <1>a, <2>1, <2>3, MovesArrived DEF Registered
<1>9. CASE ListKeys(p) \/ GetKey(p) \/ NextService(p) \/ WriteInstance(p) \/ PutKey(p) \/ DeleteKey(p)
  <2>1. /\ pc[p] \in Renaming \ {"source"} /\ pc'[p] \in Renaming \ {"source"}
        /\ UNCHANGED << seen, req, errs, todo, catalog >>
    BY <1>0, <1>9 DEF ListKeys, GetKey, NextService, WriteInstance, PutKey, DeleteKey, Move
  <2> QED BY <1>a, <2>1, MovesArrived DEF Registered
<1>10. CASE UpdateInstance(p)
  <2>1. /\ pc[p] = "instance" /\ pc'[p] \in {"file", "put"} /\ UNCHANGED << seen, req, todo, catalog >>
        /\ errs' = [errs EXCEPT ![p] = @ \/ files[key[p].uuid] = Unset]
    BY <1>0, <1>10 DEF UpdateInstance
  <2>2. ~ errs'[p] => ~ errs[p] BY <1>0, <2>1
  <2> QED BY <1>a, <2>1, <2>2, MovesArrived DEF Registered
<1>11. CASE RegisterFails(p) \/ CallFails(p) \/ GetFails(p)
  <2>1. /\ pc[p] \in Renaming \ {"source"} /\ pc'[p] \in Renaming \ {"source"} /\ UNCHANGED << seen, req >>
        /\ errs' = [errs EXCEPT ![p] = TRUE]
    BY <1>0, <1>11 DEF RegisterFails, CallFails, GetFails, Erred, AfterError
  <2>2. errs'[p] BY <1>0, <2>1
  <2> QED BY <1>a, <2>1, <2>2, MovesArrived
<1>12. CASE DropNode(p)
  <2> DEFINE n == req[p].name
  <2>1. /\ pc[p] = "svc" /\ todo[p] = {} /\ pc'[p] = "address" /\ UNCHANGED << seen, errs >>
        /\ conf' = [conf EXCEPT ![p].name = n]
        /\ catalog' = [catalog EXCEPT ![conf[p].name] = Nothing] \/ UNCHANGED catalog
    BY <1>0, <1>12 DEF DropNode, SetName
  <2>2. n \in Names /\ conf[p].name \in Names /\ n # conf[p].name BY <2>1 DEF AInv, Follows, Typed, TInv
  <2>3. catalog'[n] = catalog[n] BY <2>1, <2>2 DEF Typed, TInv, ConfigTypeOK
  <2>4. conf'[p].name = n BY <1>0, <2>1, <2>2, OptionSet DEF Configs
  <2>5. ~ errs[p] => \A s \in Services : seen[p][s] # {} => s \in Registered(n) BY <1>a, <2>1 DEF Arrived
  <2> QED BY <2>1, <2>3, <2>4, <2>5 DEF Arrived, Registered, Settling, Ending
<1>13. CASE InvalidName(p) \/ NotDetected(p) \/ Finish(p)
  BY <1>2, <1>13, ExitArrived DEF InvalidName, NotDetected, Finish
<1>14. ASSUME NEW a \in Addresses, TakeAddress(p, a) PROVE Arrived(p)'
  <2>1. conf'[p] = [conf[p] EXCEPT !.addr = a] /\ pc[p] = "address" /\ pc'[p] = "bind" /\ UNCHANGED << seen, errs, catalog >>
    BY <1>0, <1>14 DEF TakeAddress
  <2> QED BY <1>0, <1>a, <2>1, StaysArrived DEF Configs, Settling
<1>15. CASE FirstAddress(p) \/ KeepAddress(p) \/ ChangeAddress(p)
  BY <1>0, <1>2, <1>14, <1>15 DEF FirstAddress, KeepAddress, ChangeAddress, ChangesAddress, Typed, TInv, ConfigTypeOK,
     Requests, Configs
<1>16. CASE SetBind(p)
  <2>1. ASSUME NEW b, conf' = [conf EXCEPT ![p].bind = b], Goto(p, "sync"), pc[p] = "bind", UNCHANGED << shared, task >>
        PROVE  Arrived(p)'
    <3>1. conf'[p] = [conf[p] EXCEPT !.bind = b] /\ conf[p] \in Configs /\ pc'[p] = "sync" BY <1>0, <2>1
    <3> QED BY <1>a, <2>1, <3>1, StaysArrived DEF Configs, Settling
  <2> QED BY <1>2, <1>16, <2>1 DEF SetBind
<1>17. ASSUME pc[p] \in Settling \cup Ending, pc'[p] \in (Settling \ {"repair"}) \cup Ending, UNCHANGED << seen, errs, catalog, conf >>
       PROVE  Arrived(p)'
  BY <1>a, <1>17, StaysArrived
<1>18. CASE SyncAgent(p) \/ WriteConfig(p) \/ RestartEach(p) \/ Configured(p)
  BY <1>0, <1>17, <1>18 DEF SyncAgent, WriteConfig, RestartEach, Configured, Move, Settling, Ending
<1>19. ASSUME NEW s, NEW from \in {"mysql", "mongodb"}, NEW to \in {"mongodb", "write"}, RestartAgent(p, s, from, to)
       PROVE  Arrived(p)'
  <2>1. CASE ~ Leave(p)
    <3>1. pc[p] = from /\ pc'[p] = to /\ UNCHANGED << seen, errs, catalog, conf >>
      BY <1>0, <1>19, <2>1 DEF RestartAgent, Move
    <3> QED BY <1>17, <3>1 DEF Settling
  <2> QED BY <1>2, <1>19, <2>1 DEF RestartAgent
<1> QED BY <1>3, <1>4, <1>5, <1>6, <1>7, <1>8, <1>9, <1>10, <1>11, <1>12, <1>13, <1>15, <1>16, <1>18, <1>19 DEF ConfigStep

LEMMA EarlyReloads ==
  ASSUME NEW p \in Procs, UNCHANGED agent, Attached, Units' \subseteq Units,
         pc'[p] \notin {"mysql", "mongodb", "write"} \cup Ending
  PROVE  Attached' /\ Reloads(p)'
BY DEF Attached, Reloads, Ending

LEMMA ReloadsConfig ==
  ASSUME Typed, AInv, RInv, NEW p \in Procs, Turn(p), ConfigStep(p)
  PROVE  Attached' /\ Reloads(p)'
<1> USE DEF At, Goto, shared, task
<1>0. pc \in [Procs -> {"idle"} \cup Locations \cup DbLocations] /\ conf \in [Procs -> Configs]
  BY DEF Typed, TInv, ConfigTypeOK
<1>a. Reloads(p) /\ Attached BY DEF RInv
<1>b. Unset \notin Auths /\ QueriesServices = {"mysql:queries", "mongodb:queries"} BY ConfigConstants
<1>c. conf[p].auth \in Auths /\ yml.auth \in Auths BY <1>0 DEF Typed, TInv, ConfigTypeOK, Configs
<1>d. units \in [Services -> Auths \cup {Unset}] BY DEF Typed, TInv, ConfigTypeOK
<1>1. ASSUME UNCHANGED << agent, units >>, NEW l, l \notin {"mysql", "mongodb", "write"} \cup Ending,
             pc' = [pc EXCEPT ![p] = l]
      PROVE  Attached' /\ Reloads(p)'
  BY <1>0, <1>1, <1>a, EarlyReloads DEF Units
<1>2. CASE Leave(p) BY <1>1, <1>2 DEF Leave, Exit, Ending
<1>3. CASE \/ BeginConfig(p) \/ InitialName(p) \/ NameTaken(p) \/ KeepName(p) \/ CheckTarget(p) \/ CheckSource(p)
  BY <1>1, <1>2, <1>3 DEF BeginConfig, InitialName, NameTaken, KeepName, CheckTarget, CheckSource, Move, Ending
<1>4. CASE Repair(p) \/ RepairFails(p)
  <2>1. PICK orphans : /\ units' = [s \in Services |-> IF s \in orphans THEN Unset ELSE units[s]]
                       /\ pc' = [pc EXCEPT ![p] = "address"] /\ UNCHANGED agent
    BY <1>4 DEF Repair, RepairFails, Repairs
  <2>2. Units' \subseteq Units BY <2>1 DEF Units
  <2> QED BY <1>0, <1>a, <2>1, <2>2, EarlyReloads DEF Ending
<1>5. CASE \/ RegisterNew(p) \/ DeregisterOld(p) \/ ListKeys(p) \/ GetKey(p) \/ NextService(p) \/ UpdateInstance(p)
           \/ WriteInstance(p) \/ PutKey(p) \/ DeleteKey(p) \/ DropNode(p)
  BY <1>1, <1>5 DEF RegisterNew, DeregisterOld, ListKeys, GetKey, NextService, UpdateInstance, WriteInstance, PutKey,
     DeleteKey, DropNode, Move, Ending
<1>6. CASE RegisterFails(p) \/ GetFails(p) \/ CallFails(p)
  <2>1. /\ pc'[p] \in {"svc", "key", "put", "delete"} /\ UNCHANGED << agent, units >>
    BY <1>0, <1>6 DEF RegisterFails, GetFails, CallFails, AfterError
  <2> QED BY <1>a, <2>1, EarlyReloads DEF Ending, Units
<1>7. CASE InvalidName(p) \/ NotDetected(p) \/ Finish(p)
  BY <1>1, <1>2, <1>7 DEF InvalidName, NotDetected, Finish, Exit, Ending
<1>8. ASSUME NEW a, TakeAddress(p, a) PROVE Attached' /\ Reloads(p)' BY <1>1, <1>8 DEF TakeAddress, Ending
<1>9. CASE FirstAddress(p) \/ KeepAddress(p) \/ ChangeAddress(p)
  BY <1>2, <1>8, <1>9 DEF FirstAddress, KeepAddress, ChangeAddress
<1>10. CASE SetBind(p) BY <1>1, <1>2, <1>10 DEF SetBind, Ending
<1>11. CASE SyncAgent(p)
  <2>1. /\ agent' = (IF agent = Unset THEN Unset ELSE conf[p].auth) /\ pc'[p] = (IF agent = Unset THEN "write" ELSE "mysql")
        /\ UNCHANGED << units, conf, catalog >>
    BY <1>0, <1>11 DEF SyncAgent
  <2>2. Attached' BY <1>a, <1>b, <1>c, <2>1 DEF Attached, Units
  <2>3. agent = Unset => \A s \in QueriesServices : Fits(p, s) BY <1>a, <1>b DEF Attached, Fits
  <2>4. \A s \in QueriesServices : Fits(p, s)' <=> Fits(p, s) BY <2>1 DEF Fits, Registered, Units
  <2> QED BY <1>b, <2>1, <2>2, <2>3, <2>4 DEF Reloads, Ending
<1>12. ASSUME NEW s \in QueriesServices, NEW from \in {"mysql", "mongodb"}, NEW to \in {"mongodb", "write"},
              RestartAgent(p, s, from, to), from = "mysql" => s = "mysql:queries" /\ to = "mongodb",
              from = "mongodb" => s = "mongodb:queries" /\ to = "write"
       PROVE  Attached' /\ Reloads(p)'
  <2>1. CASE ~ Leave(p)
    <3>1. /\ pc[p] = from /\ pc'[p] = to /\ UNCHANGED << agent, conf, catalog >> /\ agent = conf[p].auth
          /\ \/ s \notin Registered(conf[p].name) /\ UNCHANGED units
             \/ s \in Registered(conf[p].name) \cap Units /\ units' = [units EXCEPT ![s] = agent]
      BY <1>0, <1>12, <1>a, <2>1 DEF RestartAgent, Move, Restart, Loads, Reloads
    <3>2. s \in Services BY ConfigConstants
    <3>3. Units' = Units /\ \A t \in Units : units'[t] = units[t] \/ units'[t] = conf[p].auth
      BY <1>b, <1>c, <1>d, <3>1, <3>2 DEF Units
    <3>4. Attached' BY <1>a, <3>1, <3>3 DEF Attached
    <3>5. Fits(p, s)' BY <1>d, <3>1, <3>2, <3>3 DEF Fits, Registered, Units
    <3>6. \A t : Fits(p, t) => Fits(p, t)' BY <3>1, <3>3 DEF Fits, Registered
    <3> QED BY <1>12, <1>a, <3>1, <3>4, <3>5, <3>6 DEF Reloads, Ending
  <2> QED BY <1>2, <1>12, <2>1 DEF RestartAgent
<1>13. CASE RestartAgent(p, "mysql:queries", "mysql", "mongodb") \/ RestartAgent(p, "mongodb:queries", "mongodb", "write")
  BY <1>12, <1>13, <1>b
<1>14. CASE WriteConfig(p)
  <2>1. /\ pc[p] = "write" /\ pc'[p] = "each" /\ yml' = conf[p] /\ UNCHANGED << agent, conf, catalog, units, req >>
        /\ todo' = [todo EXCEPT ![p] = IF RestartsAll(p) THEN Units ELSE {}]
    BY <1>0, <1>14 DEF WriteConfig
  <2>2. todo'[p] = IF RestartsAll(p) THEN Units ELSE {} BY <2>1 DEF Typed, TInv, ConfigTypeOK
  <2>3. conf[p].name \in Names BY <2>1 DEF AInv, Follows, Settling
  <2> QED BY <1>a, <2>1, <2>2, <2>3 DEF Attached, Reloads, Ending, Fits, Registered, Units, RestartsAll
<1>15. CASE RestartEach(p)
  <2>1. PICK s \in todo[p] : /\ pc[p] = "each" /\ UNCHANGED << pc, agent, conf, catalog, yml, req >>
                             /\ units' = [units EXCEPT ![s] = Loads(s)] /\ todo' = [todo EXCEPT ![p] = @ \ {s}]
    BY <1>15 DEF RestartEach, Restart, Visited
  <2>2. s \in Units /\ s \in Services BY <2>1 DEF AInv, Follows, Units
  <2>3. todo'[p] = todo[p] \ {s} BY <2>1 DEF Typed, TInv, ConfigTypeOK
  <2>4. agent \in {Unset, conf[p].auth} /\ yml = conf[p] BY <1>a, <2>1 DEF Reloads, Ending
  <2>5. Loads(s) = conf[p].auth BY <1>a, <2>2, <2>4 DEF Loads, Attached
  <2>6. units'[s] = conf[p].auth /\ \A t \in Services \ {s} : units'[t] = units[t] BY <1>d, <2>1, <2>2, <2>5
  <2>7. Units' = Units BY <1>b, <1>c, <2>2, <2>6 DEF Units
  <2>8. Attached' BY <1>a, <2>1, <2>7 DEF Attached
  <2>9. \A t : Fits(p, t) => Fits(p, t)' BY <2>1, <2>6, <2>7 DEF Fits, Registered
  <2> QED BY <1>a, <2>1, <2>3, <2>4, <2>6, <2>7, <2>8, <2>9 DEF Reloads, Ending, RestartsAll, Units
<1>16. CASE Configured(p)
  <2>1. pc[p] = "each" /\ pc'[p] = "configured" /\ todo[p] = {} /\ UNCHANGED << yml, agent, conf, catalog, units, req, todo >>
    BY <1>0, <1>16 DEF Configured, Move
  <2> QED BY <1>a, <2>1 DEF Attached, Reloads, Ending, Fits, Registered, Units, RestartsAll
<1> QED BY <1>3, <1>4, <1>5, <1>6, <1>7, <1>9, <1>10, <1>11, <1>13, <1>14, <1>15, <1>16 DEF ConfigStep

\* The process does not configure.
Outside(p) == pc[p] \in DbLocations \cup {"idle"}

LEMMA DbStays ==
  ASSUME Typed, NEW p \in Procs, DbStep(p)
  PROVE  /\ Outside(p) /\ Outside(p)'
         /\ UNCHANGED seen \/ seen' = [seen EXCEPT ![p] = Nothing]
         /\ Install(p) \/ (UNCHANGED agent /\ Units' \subseteq Units)
<1> USE DEF Outside, Goto, configvars, At, shared, task
<1>0. pc \in [Procs -> {"idle"} \cup Locations \cup DbLocations] BY DEF Typed, TInv
<1> DEFINE Same == UNCHANGED << seen, agent, units >>
           Moves == pc[p] \in DbLocations /\ \E l \in DbLocations \cup {"idle"} : pc' = [pc EXCEPT ![p] = l]
<1>a. ASSUME Same, Moves
      PROVE  /\ Outside(p) /\ Outside(p)'
             /\ UNCHANGED seen \/ seen' = [seen EXCEPT ![p] = Nothing]
             /\ UNCHANGED agent /\ Units' \subseteq Units
  BY <1>0, <1>a DEF Units
<1>1. ASSUME NEW from \in DbLocations, NEW to \in DbLocations,
             Go(p, from, to) \/ Check(p, from, to) \/ Grant(p, from, to) \/ GrantSchema(p, from, to)
      PROVE  Same /\ Moves
  BY <1>1 DEF Go, Check, Plan, Quit, Grant, GrantSchema
<1>2. CASE Quit(p) /\ pc[p] \in DbLocations BY <1>a, <1>2 DEF Quit
<1>3. ASSUME NEW w, LogIn(p, w) PROVE Same /\ Moves BY <1>3 DEF LogIn, DbLocations
<1>4. CASE BeginAdd(p) \/ BeginRemoveAll(p)
  BY <1>0, <1>4 DEF BeginAdd, BeginRemoveAll, Ready, DbLocations, Units
<1>5. CASE Store(p) BY <1>a, <1>5 DEF Store, DbLocations
<1>6. CASE Install(p) BY <1>0, <1>6 DEF Install, NextPass, DbLocations
<1>7. CASE CheckDuplicate(p)
  <2>1. CASE NextPass(p) /\ pc[p] = "duplicate" /\ Same BY <1>a, <2>1 DEF NextPass, DbLocations
  <2> QED BY <1>a, <1>1, <1>2, <1>7, <2>1 DEF CheckDuplicate, DbLocations
<1>8. CASE NotRemovable(p) \/ ClearPassword(p)
  BY <1>0, <1>8 DEF NotRemovable, ClearPassword, Leave, Exit, ForgetTask, DbLocations, Units
<1>9. CASE RemoveService(p)
  <2>1. pc[p] = "remove" /\ UNCHANGED << pc, seen, agent >> /\ \E s \in todo[p] : units' = [units EXCEPT ![s] = Unset]
    BY <1>9 DEF RemoveService
  <2>2. Units' \subseteq Units BY <2>1 DEF Units, Typed, TInv, ConfigTypeOK
  <2> QED BY <2>1, <2>2 DEF DbLocations
<1>10. \A b : (IF b THEN "check" ELSE "tables") \in DbLocations /\ (IF b THEN "store" ELSE "duplicate") \in DbLocations
  BY DEF DbLocations
<1>11. CASE GetInfo(p) \/ CountTables(p)
  <2>1. CASE GetInfo(p) BY <1>a, <1>1, <1>2, <1>10, <2>1 DEF GetInfo, DbLocations
  <2>2. CASE CountTables(p) BY <1>a, <1>1, <1>10, <2>2 DEF CountTables, DbLocations
  <2> QED BY <1>11, <2>1, <2>2
<1>12. CASE Access(p) BY <1>a, <1>3, <1>12 DEF Access
<1>13. CASE CheckFlags(p) \/ NoAccess(p) \/ FinishAdd(p)
  BY <1>a, <1>1, <1>2, <1>13 DEF CheckFlags, NoAccess, FinishAdd, DbLocations
<1>14. CASE CheckUser(p) \/ GrantUser(p) \/ Granted(p) \/ Verify(p)
  BY <1>a, <1>1, <1>14 DEF CheckUser, GrantUser, Granted, Verify, DbLocations
<1>15. CASE CheckSudo(p) \/ GrantSudo(p) \/ VerifySudo(p)
  BY <1>a, <1>1, <1>2, <1>15 DEF CheckSudo, GrantSudo, VerifySudo, DbLocations
<1> QED BY <1>4, <1>5, <1>6, <1>7, <1>8, <1>9, <1>11, <1>12, <1>13, <1>14, <1>15 DEF DbStep

LEMMA ReloadsDb ==
  ASSUME Typed, RInv, NEW p \in Procs, DbStep(p)
  PROVE  Attached' /\ Arrived(p)' /\ Reloads(p)'
<1>1. /\ Outside(p) /\ Outside(p)'
      /\ UNCHANGED seen \/ seen' = [seen EXCEPT ![p] = Nothing]
      /\ Install(p) \/ (UNCHANGED agent /\ Units' \subseteq Units)
  BY DbStays
<1>2. pc'[p] \notin {"mysql", "mongodb", "write"} \cup Ending /\ pc[p] \notin Renaming \cup Settling \cup Ending
  BY <1>1 DEF Outside, DbLocations, Renaming, Settling, Ending
<1>3. seen[p] = Nothing BY <1>2 DEF RInv, Arrived
<1>4. Arrived(p)'
  <2>1. seen'[p] = Nothing BY <1>1, <1>3 DEF Typed, TInv, ConfigTypeOK
  <2> QED BY <2>1, NothingSeen
<1>5. Reloads(p)' BY <1>2 DEF Reloads, Ending
<1>6. Attached'
  <2>1. CASE ~ Install(p) BY <1>1, <2>1 DEF RInv, Attached
  <2>2. CASE Install(p)
    <3> DEFINE s == Service(p)
    <3>1. /\ agent' = (IF s \in QueriesServices /\ agent = Unset THEN conf[p].auth ELSE agent)
          /\ units' = [units EXCEPT ![s] = IF @ # Unset THEN @ ELSE IF s \in QueriesServices THEN agent' ELSE yml.auth]
      BY <2>2 DEF Install
    <3>2. conf[p].auth # Unset
      <4>1. conf[p].auth \in Auths BY DEF Typed, TInv, ConfigTypeOK, Configs
      <4> QED BY <4>1, ConfigConstants
    <3>3. s \notin QueriesServices => Units' \cap QueriesServices \subseteq Units
      BY <3>1 DEF Units, Typed, TInv, ConfigTypeOK
    <3> QED BY <3>1, <3>2, <3>3 DEF RInv, Attached
  <2> QED BY <2>1, <2>2
<1> QED BY <1>4, <1>5, <1>6

LEMMA ConfigSees ==
  ASSUME NEW p \in Procs, ConfigStep(p)
  PROVE  UNCHANGED seen \/ seen' = [seen EXCEPT ![p] = Nothing] \/ seen' = [seen EXCEPT ![p] = catalog[conf[p].name]]
<1> USE DEF task, Move, Leave, Exit, ForgetTask
<1>1. CASE FirstAddress(p) \/ KeepAddress(p) \/ ChangeAddress(p) \/ InvalidName(p) \/ NotDetected(p)
  BY <1>1 DEF FirstAddress, KeepAddress, ChangeAddress, InvalidName, NotDetected, TakeAddress
<1>2. CASE Repair(p) \/ RepairFails(p) BY <1>2 DEF Repair, RepairFails, Repairs
<1>3. CASE BeginConfig(p) \/ InitialName(p) \/ NameTaken(p) \/ KeepName(p) \/ CheckTarget(p) \/ CheckSource(p)
  BY <1>3 DEF BeginConfig, InitialName, NameTaken, KeepName, CheckTarget, CheckSource
<1> QED BY <1>1, <1>2, <1>3 DEF ConfigStep, RegisterNew, RegisterFails, DeregisterOld, ListKeys, GetKey, GetFails,
  NextService, UpdateInstance, WriteInstance, PutKey, DeleteKey, CallFails, DropNode, SetBind, SyncAgent, RestartAgent,
  WriteConfig, RestartEach, Configured, Finish

LEMMA IdleLoads ==
  ASSUME RInv, NEW p \in Procs, pc[p] = "idle", pc'[p] = "idle", seen'[p] = seen[p]
  PROVE  Arrived(p)' /\ Reloads(p)'
<1>1. seen[p] = Nothing BY DEF RInv, Arrived, Renaming, Settling, Ending
<1> QED BY <1>1, NothingSeen DEF Reloads, Ending

LEMMA LoadedInit == Init => RInv
<1> SUFFICES ASSUME Init PROVE RInv
  OBVIOUS
<1>1. PICK c \in Catalogs, configured \in BOOLEAN, own \in SUBSET Owned : Beginning(c, configured, own)
  BY DEF Init
<1> DEFINE installed == { s \in Services : configured /\ c[s] # {} }
<1>2. /\ agent = (IF configured /\ installed \cap QueriesServices = {} THEN Unset ELSE NoAuth)
      /\ units = [s \in Services |-> IF s \in installed THEN NoAuth ELSE Unset]
      /\ pc = [p \in Procs |-> "idle"] /\ seen = [p \in Procs |-> Nothing]
  BY <1>1 DEF Beginning
<1>3. NoAuth # Unset /\ QueriesServices \subseteq Services BY ConfigConstants
<1>4. Units = installed BY <1>2, <1>3 DEF Units
<1>5. Attached BY <1>2, <1>3, <1>4 DEF Attached
<1>6. ASSUME NEW p \in Procs PROVE Arrived(p) /\ Reloads(p)
  BY <1>2 DEF Arrived, Reloads, Renaming, Settling, Ending
<1> QED BY <1>5, <1>6 DEF RInv

LEMMA LoadedNext == IInv /\ Typed /\ AInv /\ RInv /\ [Next]_vars => RInv'
<1> SUFFICES ASSUME IInv, Typed, AInv, RInv, [Next]_vars PROVE RInv'
  OBVIOUS
<1>0. seen \in [Procs -> [Services -> SUBSET Aliases]] BY DEF Typed, TInv, ConfigTypeOK
<1>1. CASE UNCHANGED vars
  BY <1>1 DEF vars, configvars, shared, task, RInv, Attached, Arrived, Reloads, Fits, RestartsAll, Registered, Units
<1>2. CASE Halt BY <1>1, <1>2 DEF Halt
<1>3. ASSUME NEW p \in Procs, Turn(p), UNCHANGED seen \/ seen' = [seen EXCEPT ![p] = Nothing]
                                       \/ seen' = [seen EXCEPT ![p] = catalog[conf[p].name]],
             \A q \in Procs \ {p} : pc'[q] = pc[q], Attached', Arrived(p)' /\ Reloads(p)'
      PROVE  RInv'
  <2>1. ASSUME NEW q \in Procs \ {p} PROVE Arrived(q)' /\ Reloads(q)'
    <3>1. pc[q] = "idle" /\ pc'[q] = "idle" /\ seen'[q] = seen[q] BY <1>0, <1>3 DEF Turn
    <3> QED BY <3>1, IdleLoads
  <2> QED BY <1>3, <2>1 DEF RInv
<1>4. ASSUME NEW p \in Procs, ConfigStep(p) PROVE RInv'
  <2>1. Turn(p) BY <1>4, ConfigTurn DEF IInv
  <2>2. \A q \in Procs \ {p} : pc'[q] = pc[q] BY <1>4, <2>1, ConfigMoves DEF Goes, Typed, TInv
  <2>3. UNCHANGED seen \/ seen' = [seen EXCEPT ![p] = Nothing] \/ seen' = [seen EXCEPT ![p] = catalog[conf[p].name]]
    BY <1>4, ConfigSees
  <2>4. Attached' /\ Arrived(p)' /\ Reloads(p)' BY <1>4, <2>1, ArrivedConfig, ReloadsConfig
  <2> QED BY <1>3, <2>1, <2>2, <2>3, <2>4
<1>5. ASSUME NEW p \in Procs, DbStep(p) PROVE RInv'
  <2>1. Turn(p) BY <1>5, DbTurn DEF IInv
  <2>2. \A q \in Procs \ {p} : pc'[q] = pc[q] BY <1>5, <2>1, DbKeepsFaults
  <2> QED BY <1>3, <1>5, <2>1, <2>2, DbStays, ReloadsDb
<1>6. ASSUME NEW p \in Procs, Fail(p) \/ FailAdd(p) PROVE RInv'
  <2>1. Turn(p) BY <1>6 DEF IInv, Alone, Turn, Fail, FailAdd, Locations, DbLocations
  <2>2. Exit(p) /\ UNCHANGED << agent, units >> BY <1>6 DEF Fail, FailAdd, shared
  <2>3. Attached' BY <2>2 DEF RInv, Attached, Units
  <2>4. seen' = [seen EXCEPT ![p] = Nothing] /\ \A q \in Procs \ {p} : pc'[q] = pc[q]
    BY <2>2 DEF Exit, ForgetTask, Goto, Typed, TInv
  <2> QED BY <1>3, <2>1, <2>2, <2>3, <2>4, ExitArrived
<1>7. ASSUME NEW p \in Procs, CheckBlind(p) PROVE RInv'
  <2>1. Turn(p) BY <1>7, BlindTurn DEF IInv
  <2>2. /\ pc[p] = "check" /\ pc' = [pc EXCEPT ![p] = "grant"]
        /\ UNCHANGED << yml, catalog, seen, todo, errs, conf, req, agent, units >>
    BY <1>7 DEF CheckBlind, Plan, At, Goto, shared, task
  <2>3. pc'[p] = "grant" /\ \A q \in Procs \ {p} : pc'[q] = pc[q] BY <2>2 DEF Typed, TInv
  <2>4. Attached' BY <2>2 DEF RInv, Attached, Units
  <2>5. Arrived(p)' /\ Reloads(p)' BY <2>2, <2>3 DEF RInv, Arrived, Reloads, Renaming, Settling, Ending
  <2> QED BY <1>3, <2>1, <2>2, <2>3, <2>4, <2>5
<1> QED BY <1>1, <1>2, <1>4, <1>5, <1>6, <1>7 DEF Next

LEMMA LoadedAlways == Spec => []RInv
BY TypedAlways, AddressAlways, LoadedInit, LoadedNext, PTL DEF Spec

\* When config answers OK and renaming met no error, every service that the old client name had
\* is under the new one; if no call failed, every name that is the client's leads to its instance
\* in QAN and on the agent; and what runs has loaded the credentials that pmm.yml now has.
THEOREM ConfigurationTrue == Spec => []ConfigIsTrue
<1>1. IInv /\ Typed /\ KInv /\ RInv => ConfigIsTrue
  <2> SUFFICES ASSUME IInv, Typed, KInv, RInv, NEW p \in Procs, At(p, "configured"), ~ errs[p]
               PROVE  Renamed(p) /\ Reloaded(p)
    BY DEF ConfigIsTrue
  <2>1. yml = conf[p] /\ Reloads(p) BY DEF RInv, Reloads, Ending, At
  <2>2. Reloaded(p)
    <3>1. Fits(p, "mysql:queries") /\ Fits(p, "mongodb:queries") /\ todo[p] = {} BY <2>1 DEF Reloads, Ending, At
    <3>2. RestartsAll(p) => \A s \in Units : units[s] = yml.auth BY <2>1, <3>1 DEF Reloads, Ending, At
    <3> QED BY <2>1, <3>1, <3>2, ConfigConstants DEF Reloaded, Fits
  <2>3. ASSUME NEW s \in Moved(p) PROVE s \in Registered(yml.name)
    BY <2>1, <2>3 DEF Moved, RInv, Arrived, Ending, At
  <2>4. ASSUME faults = 0, NEW s \in QueriesServices, NEW a \in Named(s), s \in Registered(yml.name) PROVE Leads(s, a)
    <3>1. Turn(p) BY DEF IInv, Alone, Turn, At
    <3>2. Calm /\ Filed(p) BY <2>4, <3>1, WholeCalm DEF KInv, At, Moving
    <3>3. yml.name \in Names BY DEF RInv, Reloads, Ending, At
    <3>4. a \in Aliases /\ a \in catalog[yml.name][s] /\ Plain(a)
      <4>1. s \in Services /\ a \in catalog[yml.name][s] /\ Plain(a) BY <2>4, ConfigConstants DEF Named, Plain
      <4> QED BY <3>3, <4>1 DEF Typed, TInv, ConfigTypeOK
    <3>5. PICK k \in keys : k.node = yml.name /\ k.service = s /\ k.alias = a
      BY <2>4, <3>2, <3>3, <3>4 DEF Calm, Kept, Held
    <3>6. qan[k.uuid] # Unset BY <3>2 DEF Calm
    <3>7. ASSUME s = "mysql:queries" PROVE qan[k.uuid] = a /\ files[k.uuid] = a
      BY <3>2, <3>4, <3>5, <3>7 DEF Calm, Filed, Ours, PlainMySQL
    <3> QED BY <3>5, <3>6, <3>7 DEF Leads
  <2> QED BY <2>2, <2>3, <2>4 DEF Renamed
<1> QED BY <1>1, TypedAlways, AddressAlways, WholeAlways, LoadedAlways, PTL
=============================================================================
