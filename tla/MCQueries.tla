------------------------------ MODULE MCQueries ------------------------------
(***************************************************************************)
(* Values for the constants of Queries.                                    *)
(***************************************************************************)
EXTENDS Queries

CONSTANTS p1, p2, a1, a2, mysql, mongodb

\* What users may do with queries services.
AllCommands == {"add", "remove", "removeall", "repair", "uninstall", "start", "stop", "restart"}
=============================================================================
