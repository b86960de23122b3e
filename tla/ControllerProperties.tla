------------------------ MODULE ControllerProperties ------------------------
(***************************************************************************)
(* What the controller is supposed to do to the IPAM system.  Which of     *)
(* these hold depends on the environment (failing requests, restarts, the  *)
(* verify timer, pools that run dry); README.md says which run checks what *)
(* under which assumptions.                                                *)
(***************************************************************************)
EXTENDS Controller

Addr == [view : View, ip : IP]
AddrOf(r)  == [view |-> r.view, ip |-> r.ip]
Reserved   == {AddrOf(f) : f \in fixed}
Bound      == {AddrOf(r) : r \in aRecs}
Names      == {r.name : r \in aRecs} \cup {c.name : c \in cnames}

\* The address processIPGroups has reserved and not yet given to a host.
Held ==
    IF mk.next # Empty /\ ~mk.used
    THEN {[view |-> mk.key.view, ip |-> mk.next]} ELSE {}

\* nextAddr (controller.go:133,142) is a reserved address of the group's network
\* for as long as the create loops use it: nothing releases it underneath them.
HeldReserved ==
    mk.next # Empty =>
       [view |-> mk.key.view, cidr |-> mk.key.cidr, ip |-> mk.next] \in fixed

\* An address with an A record stays reserved: nobody else is given an address
\* that one of our names resolves to (DeleteARecord, CNAMEToA, ReleaseAddr).
AddrReserved == Bound \subseteq Reserved

\* Between two passes every reserved address has a name: a pass neither forgets
\* to release nextAddr nor an address whose last name it deletes.
NoLeak == pc = "select" => Reserved \subseteq Bound

\* Between two passes the store says of every host exactly what record the IPAM
\* system has of it, and files it under one address only.
StoreMirrorsIPAM ==
    pc = "select" =>
       \A h \in Host :
          /\ \A i \in IP : store.records[i][h] = "A" <=> \E r \in aRecs : r.name = h /\ r.ip = i
          /\ (\E i \in IP : store.records[i][h] = "CNAME") <=> \E c \in cnames : c.name = h
          /\ Cardinality(IPsOf(store, h)) <= 1

\* The store knows the network of each of its addresses, without which the
\* records are not deleted and the addresses not released (infoblox.go:155,204).
StoreKnowsNetwork ==
    \A i \in IP : HostsOf(store, i) # {} =>
       store.cidrs[i] = getNetworkCIDR(store.netviews[i], i)

\* Whatever requests fail, and whatever others do to the IPAM system, the controller
\* takes no record from a host of the groups, although the delete loop passes A records
\* on and adds hosts to the map it iterates over (controller.go:188-218).  There is one
\* exception: CNAMEToA deletes the CNAME of the host it promotes before it renames the
\* A record (infoblox.go:241,244), and the host is left with nothing if that fails.
SparesWanted ==
    [][ctlr' # ctlr =>
         LET lost == HostsIn(groups) \cap (Names \ Names')
         IN  \/ lost = {}
             \/ /\ pc = "delete"
                /\ \E d \in rm.left \ rm'.left :
                      /\ store.records[rm.ip][d] = "A"
                      /\ \E a \in rm.avail \ {d} : lost = {a}]_vars

\* The release at the end of a spec or group (controller.go:176-184) gives back
\* the address reserved for it and no other.
ReleasesOwn ==
    [][pc' \in {"specs", "groups"} /\ pc \in {"hosts", "specs"}
         => {AddrOf(f) : f \in fixed \ fixed'} \subseteq Held]_vars

\* Deleting a host whose address is shared by hosts that stay (CNAMEToA) leaves
\* them the address and one of those in the list its A record.
PromotionKeepsAddress ==
    [][\A h \in Host : pc = "delete" /\ pc' = "delete"
         /\ h \in rm.left /\ h \notin rm'.left
         /\ store.records[rm.ip][h] = "A"
         /\ rm'.avail \cap HostsIn(groups) # {}
         => fixed' = fixed /\ Bound' = Bound]_vars

\* The controller implements the life cycle of module AddressLease.
Lease == INSTANCE AddressLease WITH reserved <- Reserved, held <- Held, bound <- Bound
LeaseLifeCycle == Lease!LeaseSpec

\* The controller implements module Reconciler: no host of the groups is left out
\* of a pass or loses its record in one, hosts that are in no group lose theirs
\* only after all new ones have got one, and when a pass ends the names with
\* records are the hosts of the groups (processIPGroups).
Reconciliation == INSTANCE Reconciler WITH
    Name <- Host, want <- HostsIn(groups), names <- Names,
    passing <- pc \in {"groups", "specs", "hosts", "delete", "purge"}
Reconciles == Reconciliation!RSpec

(***************************************************************************)
(* Liveness                                                                *)
(***************************************************************************)
\* Every pass ends: the controller always comes back to its select.
PassesEnd == []<>(pc = "select")

\* A name resolves if a chain of CNAMEs leads from it to an A record.
ResolvesIn[n \in 0..Cardinality(Host)] ==
    IF n = 0 THEN {r.name : r \in aRecs}
    ELSE ResolvesIn[n - 1]
         \cup {c.name : c \in {d \in cnames : d.canonical \in ResolvesIn[n - 1]}}
Resolving == ResolvesIn[Cardinality(Host)]

\* The firstHost of the i-th spec of a group, at which the CNAME records of the others
\* point: that of its own hosts or, in a group that shares an address, of the first
\* spec with hosts (controller.go:146-153).
FirstOf(k, i) ==
    LET filled == {j \in DOMAIN groups[k] : groups[k][j] # <<>>}
        j == IF Unique(k) THEN i ELSE CHOOSE m \in filled : \A n \in filled : m <= n
    IN  groups[k][j][1]

\* The server refuses a record to a host that has a CNAME record, even if that leads
\* nowhere, and the client takes the refusal of an A record for success
\* (infoblox.go:125-129).
Refused(k, i, h) ==
    \E c \in cnames : c.name \in {h, FirstOf(k, i)} /\ c.name \notin Resolving

\* Once the groups stop changing, the verify timer brings back whatever failed
\* requests, restarts or somebody else's deletions took away, for good: all but what
\* the server refuses for ever, and what finds no free address.
Heals ==
    <>[][\A g \in GroupConfigs : ~Receive(g)]_vars
       => <>[](heard =>
                 \A k \in GroupKey : \A i \in DOMAIN groups[k] :
                    \A h \in Range(groups[k][i]) :
                       h \in Resolving \/ Refused(k, i, h) \/ Free(k.view, k.cidr) = {})
=============================================================================
