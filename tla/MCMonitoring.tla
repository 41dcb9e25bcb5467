---------------------------- MODULE MCMonitoring ----------------------------
(***************************************************************************)
(* Values for the constants of Monitoring.                                 *)
(***************************************************************************)
EXTENDS Monitoring

CONSTANTS p1, p2, p3, h1, h2, h3, n1, n2

\* linux tries ports 1 and 2, mysql ports 2 and 3: as in the code the ranges overlap.
MCDefaultPort == [t \in Types |-> IF t = "linux" THEN 1 ELSE 2]

OneHost == [p \in Procs |-> h1]
OneName == [h \in Hosts |-> n1]
OwnHost == [p \in Procs |-> IF p = p1 THEN h1 ELSE h2]
OwnName == [h \in Hosts |-> IF h = h1 THEN n1 ELSE n2]

\* h1 and h2 have the same client_name, h3 has one of its own.
ThreeHosts == [p \in Procs |-> CASE p = p1 -> h1 [] p = p2 -> h2 [] OTHER -> h3]
SharedName == [h \in Hosts |-> IF h = h3 THEN n2 ELSE n1]

Singles == { << t >> : t \in Types }
Database == { << "linux", "mysql" >> }
AllBundles == Singles \cup Database
=============================================================================
