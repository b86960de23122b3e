---------------------------- MODULE MCK8sClient -----------------------------
(***************************************************************************)
(* Instances of the orchestration client for TLC.                          *)
(***************************************************************************)
EXTENDS K8sClientProperties

CONSTANTS cm, ing, G1, n1, n2, a, b, c

BothKinds == [r \in Resource |-> IF r = ing THEN "Ingress" ELSE "ConfigMap"]

Watched(name, net, hosts) == [watched |-> TRUE, name |-> name, net |-> net, hosts |-> hosts]
Unwatched(name, net, hosts) == [watched |-> FALSE, name |-> name, net |-> net, hosts |-> hosts]

Only(cms, ings) == [r \in Resource |-> IF r = ing THEN ings ELSE cms]

\* A ConfigMap that may be watched or not, have any host, or lack an annotation;
\* an Ingress with one or two hosts or none, in a group or on its own.
MixedContents ==
    Only({Watched(Empty, n1, <<a>>), Watched(Empty, n1, <<b>>), Watched(Empty, n1, <<>>)},
         {Watched(G1, n1, <<b, c>>), Watched(Empty, n1, <<c>>), Unwatched(G1, n1, <<b, c>>),
          Watched(G1, None, <<>>), Watched(G1, n1, <<>>)})

\* An Ingress that stays in its group, loses and gains a host, and has the other one
\* in two rules at times.
OnlyIngress == Only({}, {Watched(G1, n1, <<a, b>>), Watched(G1, n1, <<b, b>>)})
=============================================================================
