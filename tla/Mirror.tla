------------------------------- MODULE Mirror -------------------------------
(***************************************************************************)
(* What ties the controller's store, the client's recordRef and the IPAM   *)
(* system together while nothing goes wrong: the conditions that Calm      *)
(* names, and the invariant from which the theorems of MirrorProofs and    *)
(* RefinementProofs follow.                                                *)
(***************************************************************************)
EXTENDS ControllerProperties

Network == [view : View, cidr : Cidr]
NetOf(key) == [view |-> key.view, cidr |-> key.cidr]
PoolOf(net) == Pool[net.view][net.cidr]

\* A network for each host, such that the groups ask for it nowhere else.
Homes ==
    {home \in [Host -> Network] :
        \A g \in GroupConfigs, k \in GroupKey :
           \A i \in DOMAIN g[k] : \A h \in Range(g[k][i]) : home[h] = NetOf(k)}

Home == CHOOSE home \in Homes : TRUE

\* No request fails, nobody restarts the controller or deletes records, and the
\* verify timer is off; a host stays in its network, an address is in one network
\* only, and a network has more addresses than hosts.
Calm ==
    /\ FaultKinds = {} /\ VInterval = 0
    /\ Homes # {}
    /\ \A m, n \in Network : PoolOf(m) \cap PoolOf(n) # {} => m = n
    /\ \A k \in GroupKey :
          LET hosts == {h \in Host : Home[h] = NetOf(k)}
              pool  == PoolOf(NetOf(k))
          IN  IsFiniteSet(hosts) /\ IsFiniteSet(pool) /\ Cardinality(hosts) < Cardinality(pool)

Filed(h) == \E i \in IP0 : store.records[i][h] # "none"

\* A host is filed under one address, and the address under the host's network;
\* at the start nothing is filed.
StoreInv ==
    /\ \A i \in IP0, h \in Host0 : store.records[i][h] # "none" =>
          /\ h \in Host /\ i \in PoolOf(Home[h])
          /\ store.netviews[i] = Home[h].view /\ store.cidrs[i] = Home[h].cidr
    /\ \A i, j \in IP0, h \in Host0 :
          store.records[i][h] # "none" /\ store.records[j][h] # "none" => i = j
    /\ pc = "start" => \A i \in IP0, h \in Host0 : store.records[i][h] = "none"

\* The host is filed under the address with a record of this type, and the delete
\* loop has not deleted that.
FiledAs(type, i, h) == store.records[i][h] = type /\ rm.gone[h] = 0

ARec(i, h) == [name |-> h, ip |-> i, view |-> Home[h].view]

\* The IPAM system has the records that the store says, recordRef has their refs,
\* and every address has one A record.
RecordInv ==
    /\ \A r \in aRecs : FiledAs("A", r.ip, r.name) /\ r.view = Home[r.name].view
    /\ \A c \in cnames : (\E i \in IP0 : FiledAs("CNAME", i, c.name)) /\ c.view = Home[c.name].view
    /\ \A i \in IP0, h \in Host0 :
          /\ FiledAs("A", i, h) =>
                ARec(i, h) \in aRecs /\ recordRef[h] = ARef(i, Home[h].view)
          /\ FiledAs("CNAME", i, h) =>
                /\ \E c \in cnames : c.name = h
                /\ recordRef[h] = CNAMERef(Home[h].view)
                /\ \E a \in Host0 : FiledAs("A", i, a)
    /\ \A i \in IP0, h, a \in Host0 : FiledAs("A", i, h) /\ FiledAs("A", i, a) => h = a

HeldAddr == [view |-> mk.key.view, cidr |-> mk.key.cidr, ip |-> mk.next]

FixedOf(i, h) == [view |-> Home[h].view, cidr |-> Home[h].cidr, ip |-> i]

\* The fixed addresses are those with an A record, and nextAddr until it is used.
FixedInv ==
    /\ \A f \in fixed :
          \/ mk.next # Empty /\ ~mk.used /\ f = HeldAddr
          \/ \E h \in Host : FiledAs("A", f.ip, h) /\ f = FixedOf(f.ip, h)
    /\ \A i \in IP0, h \in Host0 : FiledAs("A", i, h) => FixedOf(i, h) \in fixed

\* The create loops: nextAddr is an address of the network, free of hosts until
\* firstHost gets it; firstHost has a record, or is next; and a CNAME is filed
\* under curAddr only when others are.
LoopInv ==
    /\ mk.next = Empty <=> pc \notin {"specs", "hosts"} \/ (pc = "specs" /\ Unique(mk.key))
    /\ mk.next = Empty => mk.first = Empty
    /\ mk.next # Empty =>
          /\ mk.next \in PoolOf(NetOf(mk.key))
          /\ ~mk.used => \A h \in Host0 : store.records[mk.next][h] = "none"
    /\ mk.first = Empty => mk.cur = mk.next /\ ~mk.used
    /\ mk.first # Empty =>
          \/ /\ Filed(mk.first)
             /\ mk.cur \in PoolOf(NetOf(mk.key))
             /\ \E h \in Host0 : store.records[mk.cur][h] # "none"
          \/ /\ mk.hosts # <<>> /\ Head(mk.hosts) = mk.first
             /\ mk.cur = mk.next /\ ~mk.used

\* The delete loop: availHosts are the hosts at the address whose records are not
\* deleted; at the addresses still to come nothing is; and no host is twice in
\* toRemove, which has only hosts that are filed.
DeleteInv ==
    /\ pc \notin {"delete", "purge"} => rm.gone = [h \in Host0 |-> 0]
    /\ \A h \in Host0 : rm.gone[h] # 0 => rm.gone[h] = 1 /\ Filed(h)
    /\ pc = "delete" =>
          /\ rm.avail = {h \in HostsOf(store, rm.ip) : rm.gone[h] = 0}
          /\ rm.left \subseteq rm.avail
          /\ rm.ip \notin rm.ips
          /\ \A i \in rm.ips : \A h \in HostsOf(store, i) : rm.gone[h] = 0

\* The hosts that the inner create loops, with locals m, have still to come to.
ToCome(m) == Range(m.hosts) \cup UNION {Range(m.specs[i]) : i \in DOMAIN m.specs}

\* A host of the groups is filed once its turn has come, and what is filed but in no
\* group is deleted before the pass ends.
WantInv ==
    /\ groups \in GroupConfigs \cup {NoGroups}
    /\ pc \in {"specs", "hosts"} =>
          /\ mk.key \notin mk.keys
          /\ \A h \in ToCome(mk) : h \in HostsIn(groups) /\ Home[h] = NetOf(mk.key)
    /\ pc \in {"groups", "specs", "hosts"} =>
          \A k \in GroupKey \ mk.keys : \A i \in DOMAIN groups[k] : \A h \in Range(groups[k][i]) :
             Filed(h) \/ (pc # "groups" /\ k = mk.key /\ h \in ToCome(mk))
    /\ pc \in {"delete", "purge"} => \A h \in HostsIn(groups) : Filed(h)
    /\ pc \in {"delete", "purge"} =>
          \A i \in IP0, h \in Host0 : store.records[i][h] # "none" /\ rm.gone[h] = 0 =>
             \/ h \in HostsIn(groups)
             \/ pc = "delete" /\ (i \in rm.ips \/ (i = rm.ip /\ h \in rm.left))

MirrorInv == StoreInv /\ RecordInv /\ FixedInv /\ LoopInv /\ DeleteInv /\ WantInv
=============================================================================
