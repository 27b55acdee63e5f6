------------------------------ MODULE MCBroker ------------------------------
(* One Resolve call over every configuration and a few source contents. *)
EXTENDS Broker, TLC

CONSTANTS k1, s1, s2

MCConfigs == [sops : BOOLEAN, kdbx : BOOLEAN, setec : BOOLEAN]

\* Each source holds s1, s2, the empty string or nothing for k1.
MCStores ==
    {[src \in Sources |-> [k \in {k1} |-> f[src]]] :
        f \in [Sources -> {s1, s2, Empty, Absent}]}

=============================================================================
