------------------------------ MODULE MCExternal ------------------------------
(***************************************************************************)
(* Values for the constants of External.                                   *)
(***************************************************************************)
EXTENDS External

CONSTANTS p1, p2, here, there, old, new

\* Two addresses, one of which is labelled in two ways.
MCEntries == { [at |-> here, instance |-> "a"], [at |-> here, instance |-> "b"],
               [at |-> there, instance |-> "b"] }
OwnHost == [p \in Procs |-> IF p = p1 THEN here ELSE there]

\* Nothing is given, one parameter, or both.
MCGiven == { [interval |-> Omit, path |-> Omit], [interval |-> new, path |-> Omit],
             [interval |-> old, path |-> new] }

AllCommands == {"service", "metrics", "instances", "rmmetrics", "rminstances"}
=============================================================================
