------------------------------- MODULE Registry -------------------------------
(***************************************************************************)
(* What the registration of metrics services promises to the server that   *)
(* scrapes them: services come and go one at a time; a service that is     *)
(* registered is never altered or displaced, so that a port of a client    *)
(* belongs to one service, and a name to one service of its type.          *)
(***************************************************************************)
CONSTANTS Clients, Services

VARIABLE monitored   \* the services of each client

RegistryInit == monitored = [c \in Clients |-> {}]

Compatible(s, u) == s.port # u.port /\ ~ (s.type = u.type /\ s.alias = u.alias)

Monitor(c, s) ==
  /\ \A u \in monitored[c] : Compatible(s, u)
  /\ monitored' = [monitored EXCEPT ![c] = @ \cup {s}]

Forget(c, s) ==
  /\ s \in monitored[c]
  /\ monitored' = [monitored EXCEPT ![c] = @ \ {s}]

RegistryNext == \E c \in Clients, s \in Services : Monitor(c, s) \/ Forget(c, s)

RegistrySpec == RegistryInit /\ [][RegistryNext]_monitored
=============================================================================
