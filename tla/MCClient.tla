------------------------------- MODULE MCClient -------------------------------
(***************************************************************************)
(* Values for the constants of Client: a host that is named n1 and may be  *)
(* renamed n2, or by mistake n3, a name that is not allowed.               *)
(***************************************************************************)
EXTENDS Client, TLC

CONSTANTS p1, n1, n2, n3, here, there, abroad, none, secret

Clients == {n1, n2, n3}
MCAliases == [of : Clients, rest : {"", "-x"}] \cup {[of |-> Unset, rest |-> "db"]}
One(n) == { [of |-> n, rest |-> ""] }
Db == { [of |-> Unset, rest |-> "db"] }

MCServices == {"linux:metrics", "mysql:metrics", "mysql:queries", "mongodb:queries",
               "postgresql:metrics"}

\* No service; exporters and queries of databases, one with a name made of the client's.
MCCatalogs ==
  { [s \in MCServices |-> {}],
    [s \in MCServices |-> CASE s = "linux:metrics" -> One(n1)
                            [] s = "mysql:queries" -> One(n1) \cup Db
                            [] s = "mongodb:queries" -> One(n1) \cup {[of |-> n1, rest |-> "-x"]}
                            [] OTHER -> {}] }

Asks == [server |-> FALSE, auth |-> Unset, name |-> Unset, addr |-> Unset, bind |-> Unset,
         force |-> FALSE]

\* Point at the server, with a password or none; rename, also to a bad name or with another
\* address; change the addresses.
MCConfigRequests ==
  { [Asks EXCEPT !.server = TRUE],
    [Asks EXCEPT !.server = TRUE, !.auth = secret, !.force = TRUE],
    [Asks EXCEPT !.auth = secret],
    [Asks EXCEPT !.name = n2], [Asks EXCEPT !.name = n2, !.force = TRUE],
    [Asks EXCEPT !.name = n3, !.force = TRUE],
    [Asks EXCEPT !.name = n2, !.addr = there, !.force = TRUE],
    [Asks EXCEPT !.addr = there, !.bind = there] }

Add == [services |-> << "mysql:metrics", "mysql:queries" >>, bundle |-> TRUE, how |-> "socket",
        works |-> TRUE, create |-> TRUE, given |-> FALSE, force |-> FALSE,
        blind |-> FALSE]

\* The commands for MySQL and for PostgreSQL, with and without --create-user, --force,
\* credentials that work, and a SHOW GRANTS that may fail.
MCAddRequests ==
  { Add, [Add EXCEPT !.force = TRUE], [Add EXCEPT !.blind = TRUE],
    [Add EXCEPT !.given = TRUE],
    [Add EXCEPT !.services = << "mysql:metrics" >>, !.bundle = FALSE],
    [Add EXCEPT !.services = << "mysql:metrics" >>, !.bundle = FALSE, !.how = "tcp", !.force = TRUE],
    [Add EXCEPT !.services = << "mysql:queries" >>, !.bundle = FALSE, !.create = FALSE, !.works = FALSE],
    [Add EXCEPT !.services = << "mysql:queries" >>, !.bundle = FALSE, !.how = "remote"],
    [Add EXCEPT !.services = << "postgresql:metrics" >>, !.how = "pglocal"],
    [Add EXCEPT !.services = << "postgresql:metrics" >>, !.how = "pglocal", !.works = FALSE,
                !.force = TRUE] }

\* A history with a fault is one command shorter.
Bounded == faults = 0 \/ commands < MaxCommands
=============================================================================
