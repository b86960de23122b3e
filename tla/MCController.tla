---------------------------- MODULE MCController ----------------------------
(***************************************************************************)
(* Instances of the controller for TLC.                                    *)
(***************************************************************************)
EXTENDS ControllerProperties, TLC

CONSTANTS h1, h2, h3, i1, i2, i3, i4, i5, v1, c1, c2, G1

\* One network, or one for the named group and one for the other specs.
OneNetPool == [v \in View |-> [c \in Cidr |-> IF c = c1 THEN IP ELSE {}]]
TwoNetPool == [v \in View |-> [c \in Cidr |-> IF c = c1 THEN {i1, i2, i3} ELSE IP \ {i1, i2, i3}]]
OneZone    == [h \in Host |-> "zone"]

Shared(c) == [name |-> G1, view |-> v1, cidr |-> c]
Own(c)    == [name |-> Empty, view |-> v1, cidr |-> c]
OneNetKeys == {Shared(c1), Own(c1)}
TwoNetKeys == {Shared(c1), Own(c2)}

\* The host lists over a set of hosts, in every order.
Lists(S) == UNION {{f \in [1..n -> S] : IsInjective(f)} : n \in 1..Cardinality(S)}
Pairs(S) == {p \in Lists(S) \X Lists(S) : Range(p[1]) \cap Range(p[2]) = {}}

With(key, specs) == [NoGroups EXCEPT ![key] = specs]

\* Every way to spread hosts, in every order, over one or two resources, in one
\* group or in two.
AnyConfigs ==
    LET s == Shared(c1)
        o == Own(c1)
    IN  {NoGroups}
        \cup {With(k, <<l>>) : k \in OneNetKeys, l \in Lists(Host)}
        \cup {With(k, p) : k \in OneNetKeys, p \in Pairs(Host)}
        \cup {[With(s, <<p[1]>>) EXCEPT ![o] = <<p[2]>>] : p \in Pairs(Host)}

\* One resource, which may come and go, and lose and regain its first host.
LeavingConfigs ==
    {NoGroups} \cup {With(k, <<l>>) : k \in OneNetKeys, l \in {<<h1, h2>>, <<h2>>}}

\* A group in one network and resources of their own in another.  A host stays
\* in its network.
TwoNetConfigs ==
    LET one == {<<>>} \cup {<<l>> : l \in Lists({h1, h2})} \cup {p : p \in Pairs({h1, h2})}
        own == {<<>>, <<<<h3>>>>}
    IN  {[With(Shared(c1), s) EXCEPT ![Own(c2)] = o] : s \in one, o \in own}

TwoNetSymmetry ==
    {p @@ q : p \in Permutations({i1, i2, i3}), q \in Permutations({i4, i5})}

AddressSymmetry == Permutations(IP)
=============================================================================
