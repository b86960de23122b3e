------------------------------ MODULE MCSystem ------------------------------
(***************************************************************************)
(* Instances of the whole program for TLC.                                 *)
(***************************************************************************)
EXTENDS System

CONSTANTS cm, ing, G1, n1, n2, a, b, c

BothKinds == [r \in Resource |-> IF r = ing THEN "Ingress" ELSE "ConfigMap"]

Watched(name, net, hosts) == [watched |-> TRUE, name |-> name, net |-> net, hosts |-> hosts]

\* A ConfigMap, and an Ingress that may change its group and its hosts.
FewContents ==
    [r \in Resource |->
        IF r = ing THEN {Watched(G1, n1, <<b, c>>), Watched(Empty, n1, <<c>>)}
        ELSE {Watched(Empty, n1, <<a>>)}]
=============================================================================
