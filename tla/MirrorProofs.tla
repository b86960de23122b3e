---------------------------- MODULE MirrorProofs ----------------------------
(***************************************************************************)
(* The store, recordRef and the IPAM system agree: for all hosts,          *)
(* addresses, networks and groups that meet the conditions of Calm.        *)
(***************************************************************************)
EXTENDS Mirror, ControllerProofs, FiniteSetTheorems

\* The inductive invariant.
IInv == HeldInv /\ SparesInv /\ MirrorInv

(***************************************************************************)
(* Networks                                                                *)
(***************************************************************************)
LEMMA Networks ==
    ASSUME Calm
    PROVE  /\ \A h \in Host : Home[h] \in Network
           /\ \A k \in GroupKey : NetOf(k) \in Network
           /\ \A n \in Network : n.view \in View /\ n.cidr \in Cidr /\ PoolOf(n) \subseteq IP
           /\ \A m, n \in Network, i \in IP0 : i \in PoolOf(m) /\ i \in PoolOf(n) => m = n
           /\ \A n \in Network : \A i \in PoolOf(n) : getNetworkCIDR(n.view, i) = n.cidr
  <1>1. Home \in Homes
    BY DEF Calm, Home
  <1>2. \A h \in Host : Home[h] \in Network
    BY <1>1 DEF Homes
  <1>3. \A k \in GroupKey : NetOf(k) \in Network
    BY KeyTypes DEF NetOf, Network
  <1>4. \A n \in Network : n.view \in View /\ n.cidr \in Cidr /\ PoolOf(n) \subseteq IP
    BY PoolAssumption DEF Network, PoolOf
  <1>5. \A m, n \in Network, i \in IP0 : i \in PoolOf(m) /\ i \in PoolOf(n) => m = n
    <2>1. \A m, n \in Network : PoolOf(m) \cap PoolOf(n) # {} => m = n
      BY DEF Calm
    <2> QED BY <2>1
  <1>6. ASSUME NEW n \in Network, NEW i \in PoolOf(n) PROVE getNetworkCIDR(n.view, i) = n.cidr
    <2>1. n.view \in View /\ n.cidr \in Cidr /\ i \in Pool[n.view][n.cidr]
      BY <1>4 DEF PoolOf
    <2>2. \A c \in Cidr : i \in Pool[n.view][c] => c = n.cidr
      BY <2>1, PoolAssumption
    <2> QED BY <2>1, <2>2 DEF getNetworkCIDR
  <1> QED BY <1>2, <1>3, <1>4, <1>5, <1>6

LEMMA HomeOfGroup ==
    ASSUME Calm, NEW g \in GroupConfigs \cup {NoGroups}, NEW k \in GroupKey,
           NEW i \in DOMAIN g[k], NEW h \in Range(g[k][i])
    PROVE  h \in HostsIn(g) /\ Home[h] = NetOf(k)
  <1>1. h \in HostsIn(g)
    BY DEF HostsIn
  <1>2. g # NoGroups
    BY DEF NoGroups
  <1>3. Home \in Homes
    BY DEF Calm, Home
  <1> QED BY <1>1, <1>2, <1>3 DEF Homes

\* An address that holds a host is in the host's network, and the store has that.
LEMMA FiledAddress ==
    ASSUME Calm, StoreInv, NEW i \in IP0, NEW h \in Host0, store.records[i][h] # "none"
    PROVE  /\ h \in Host /\ i \in IP /\ Home[h] \in Network /\ i \in PoolOf(Home[h])
           /\ store.netviews[i] = Home[h].view /\ store.cidrs[i] = Home[h].cidr
           /\ store.netviews[i] \in View /\ store.cidrs[i] \in Cidr
           /\ getNetworkCIDR(store.netviews[i], i) = store.cidrs[i]
           /\ \A n \in Network : i \in PoolOf(n) => Home[h] = n
  BY Networks DEF StoreInv

\* A host whose record is not deleted has one.
LEMMA FiledKinds ==
    ASSUME TypeOK, NEW i \in IP0, NEW h \in Host0, rm.gone[h] = 0,
           store.records[i][h] # "none"
    PROVE  FiledAs("A", i, h) \/ FiledAs("CNAME", i, h)
  BY DEF TypeOK, CtlrTypeOK, Stores, RecordType, FiledAs

LEMMA KeyOf ==
    ASSUME TypeOK, pc \in {"specs", "hosts"}
    PROVE  mk.key \in GroupKey
  BY DEF TypeOK, CtlrTypeOK

(***************************************************************************)
(* Steps that leave the store and the IPAM system alone.                   *)
(***************************************************************************)
LEMMA SameRecords ==
    ASSUME TypeOK, RecordInv, UNCHANGED <<aRecs, cnames, recordRef>>,
           \A i \in IP0, h \in Host0 : /\ FiledAs("A", i, h)' <=> FiledAs("A", i, h)
                                       /\ FiledAs("CNAME", i, h)' <=> FiledAs("CNAME", i, h)
    PROVE  RecordInv'
  <1>1. \A r \in aRecs : r.name \in Host0 /\ r.ip \in IP0
    BY DEF TypeOK, IpamTypeOK, ARecord, Host0, IP0
  <1>2. \A c \in cnames : c.name \in Host0
    BY DEF TypeOK, IpamTypeOK, CNAMERecord, Host0
  <1> HIDE DEF FiledAs
  <1> QED BY <1>1, <1>2 DEF RecordInv

LEMMA SameFixed ==
    ASSUME TypeOK, FixedInv, UNCHANGED fixed,
           \A i \in IP0, h \in Host0 : FiledAs("A", i, h)' <=> FiledAs("A", i, h),
           mk.next # Empty => mk'.next = mk.next /\ mk'.used = mk.used /\ mk'.key = mk.key
    PROVE  FixedInv'
  <1>1. \A f \in fixed : f.ip \in IP0
    BY DEF TypeOK, IpamTypeOK, FixedAddr, IP0
  <1>2. Host \subseteq Host0
    BY DEF Host0
  <1> QED BY <1>1, <1>2 DEF FixedInv, HeldAddr

LEMMA Quiet ==
    ASSUME TypeOK, StoreInv, RecordInv, FixedInv, UNCHANGED <<store, ipam>>, pc' # "start",
           rm'.gone = rm.gone,
           mk.next # Empty => mk'.next = mk.next /\ mk'.used = mk.used /\ mk'.key = mk.key
    PROVE  StoreInv' /\ RecordInv' /\ FixedInv'
  <1>1. \A i \in IP0, h \in Host0 : /\ FiledAs("A", i, h)' <=> FiledAs("A", i, h)
                                    /\ FiledAs("CNAME", i, h)' <=> FiledAs("CNAME", i, h)
    BY DEF FiledAs
  <1>2. StoreInv'
    BY DEF StoreInv
  <1> QED BY <1>1, <1>2, SameRecords, SameFixed DEF ipam

(***************************************************************************)
(* The steps outside of the create loops and the deletions.                *)
(***************************************************************************)
Idle(m) == m.next = Empty /\ m.first = Empty /\ m.cur = Empty /\ ~m.used

LEMMA LoopsIdle ==
    ASSUME LoopInv, pc \notin {"specs", "hosts"}
    PROVE  Idle(mk)
  BY DEF LoopInv, Idle

LEMMA IdleLoops ==
    ASSUME Idle(mk)', pc' \notin {"specs", "hosts"}
    PROVE  LoopInv'
  BY DEF LoopInv, Idle

LEMMA IdleStays ==
    ASSUME LoopInv, pc \notin {"specs", "hosts"}, pc' \notin {"specs", "hosts"}, mk' = mk
    PROVE  LoopInv'
  BY LoopsIdle, IdleLoops DEF Idle

LEMMA SameHosts == ASSUME groups' = groups PROVE HostsIn(groups') = HostsIn(groups)
  BY DEF HostsIn

LEMMA InitMirror == Init => MirrorInv
  <1> SUFFICES ASSUME Init PROVE MirrorInv
    OBVIOUS
  <1>1. /\ pc = "start" /\ groups = NoGroups /\ Idle(mk) /\ rm.gone = [h \in Host0 |-> 0]
        /\ \A i \in IP0, h \in Host0 : store.records[i][h] = "none"
        /\ aRecs = {} /\ cnames = {} /\ fixed = {}
    BY DEF Init, IpamInit, NewStore, MkIdle, RmIdle, Idle
  <1>2. StoreInv /\ RecordInv /\ FixedInv
    BY <1>1 DEF StoreInv, RecordInv, FixedInv, FiledAs
  <1>3. LoopInv /\ DeleteInv /\ WantInv
    BY <1>1 DEF LoopInv, Idle, DeleteInv, WantInv
  <1> QED BY <1>2, <1>3 DEF MirrorInv

\* There is nothing to refresh the store from yet.
LEMMA StartMirrors ==
    ASSUME IInv, Start
    PROVE  MirrorInv'
  <1> USE DEF IInv, MirrorInv, SparesInv, TypeOK
  <1>1. GetRecords(store') /\ UNCHANGED <<aRecs, cnames, fixed, recordRef>>
    BY GetRecordsType DEF Start
  <1>2. /\ pc = "start" /\ pc' = "select" /\ UNCHANGED <<groups, mk, rm>>
        /\ rm.gone = [h \in Host0 |-> 0]
    BY DEF Start, DeleteInv
  <1>3. \A i \in IP0, h \in Host0 : ~FiledAs("A", i, h) /\ ~FiledAs("CNAME", i, h)
    BY <1>2 DEF StoreInv, FiledAs
  <1>4. aRecs = {} /\ cnames = {}
    <2>1. \A r \in aRecs : r.name \in Host0 /\ r.ip \in IP0
      BY DEF IpamTypeOK, ARecord, Host0, IP0
    <2>2. \A c \in cnames : c.name \in Host0
      BY DEF IpamTypeOK, CNAMERecord, Host0
    <2> QED BY <1>3, <2>1, <2>2 DEF RecordInv
  <1>5. fixed = {}
    <2>1. mk.next = Empty
      BY <1>2, LoopsIdle DEF Idle
    <2>2. \A f \in fixed : f.ip \in IP0
      BY DEF IpamTypeOK, FixedAddr, IP0
    <2> QED BY <1>3, <2>1, <2>2 DEF FixedInv, Host0
  <1>6. \A i \in IP0, h \in Host0 : store'.records[i][h] = "none"
    <2>1. PICK whole, part, addrOf, lastView, failed :
             store' = StoreFrom(whole, part, addrOf, lastView, failed)
      BY <1>1 DEF GetRecords
    <2> QED BY <1>4, <2>1 DEF StoreFrom
  <1>7. StoreInv' /\ RecordInv' /\ FixedInv'
    BY <1>1, <1>2, <1>4, <1>5, <1>6 DEF StoreInv, RecordInv, FixedInv, FiledAs
  <1>8. LoopInv' /\ DeleteInv' /\ WantInv'
    BY <1>2, IdleStays DEF DeleteInv, WantInv
  <1> QED BY <1>7, <1>8

\* A pass begins with all hosts of the groups to come.
LEMMA ReceiveMirrors ==
    ASSUME IInv, NEW g \in GroupConfigs, Receive(g)
    PROVE  MirrorInv'
  <1> USE DEF IInv, MirrorInv, SparesInv
  <1>1. /\ pc = "select" /\ pc' = "groups" /\ groups' = g /\ UNCHANGED <<store, rm, ipam>>
        /\ mk' = [MkIdle EXCEPT !.keys = {k \in GroupKey : g[k] # <<>>}]
    BY DEF Receive, BeginProcess
  <1>2. mk'.keys = {k \in GroupKey : g[k] # <<>>} /\ Idle(mk')
    BY <1>1 DEF MkIdle, Idle
  <1>3. mk.next = Empty
    BY <1>1, LoopsIdle DEF Idle
  <1>4. StoreInv' /\ RecordInv' /\ FixedInv'
    BY <1>1, <1>3, Quiet
  <1>5. LoopInv'
    BY <1>1, <1>2, IdleLoops DEF Idle
  <1>6. DeleteInv'
    BY <1>1 DEF DeleteInv
  <1>7. WantInv'
    BY <1>1, <1>2 DEF WantInv
  <1> QED BY <1>4, <1>5, <1>6, <1>7

LEMMA WriteMirrors ==
    ASSUME IInv, WriteIPHosts
    PROVE  MirrorInv'
  <1> USE DEF IInv, MirrorInv, SparesInv
  <1>1. pc = "write" /\ pc' = "select" /\ UNCHANGED <<store, groups, mk, rm, ipam>>
    BY DEF WriteIPHosts
  <1>2. StoreInv' /\ RecordInv' /\ FixedInv'
    BY <1>1, Quiet
  <1>3. LoopInv' /\ DeleteInv' /\ WantInv'
    BY <1>1, IdleStays DEF DeleteInv, WantInv
  <1> QED BY <1>2, <1>3

(***************************************************************************)
(* The moves of the delete loop, and DeleteHosts.                          *)
(***************************************************************************)
LEMMA BeginDeleteMirrors ==
    ASSUME Calm, IInv, BeginDelete
    PROVE  MirrorInv'
  <1> USE DEF IInv, MirrorInv, SparesInv
  <1>1. /\ pc = "groups" /\ pc' = "delete" /\ mk.keys = {}
        /\ UNCHANGED <<store, groups, mk, ipam>>
        /\ rm.gone = [h \in Host0 |-> 0]
    BY DEF BeginDelete, DeleteInv
  <1>2. /\ rm'.ips = {i \in IP0 : Dead(i) # {}} /\ rm'.ip = Empty /\ rm'.avail = {}
        /\ rm'.left = {} /\ rm'.gone = rm.gone
    BY <1>1 DEF BeginDelete, RmIdle
  <1>3. StoreInv' /\ RecordInv' /\ FixedInv' /\ LoopInv'
    BY <1>1, <1>2, Quiet, IdleStays
  <1>4. \A h \in Host0 : store.records[Empty][h] = "none"
    BY FiledAddress, EmptyAssumption DEF IP0
  <1>5. DeleteInv'
    <2>1. HostsOf(store', rm'.ip) = {}
      BY <1>1, <1>2, <1>4 DEF HostsOf
    <2>2. Empty \notin rm'.ips
      BY <1>2, <1>4 DEF Dead, HostsOf
    <2>3. \A h \in Host0 : rm'.gone[h] = 0
      BY <1>1, <1>2
    <2>4. \A i \in IP0 : HostsOf(store', i) \subseteq Host0
      BY DEF HostsOf
    <2> QED BY <1>1, <1>2, <2>1, <2>2, <2>3, <2>4 DEF DeleteInv
  <1>6. WantInv'
    <2>1. \A h \in HostsIn(groups) : Filed(h)
      BY <1>1 DEF WantInv, HostsIn
    <2>2. ASSUME NEW i \in IP0, NEW h \in Host0, store.records[i][h] # "none",
                 h \notin HostsIn(groups)
          PROVE  i \in rm'.ips
      BY <1>2, <2>2 DEF Dead, HostsOf
    <2> QED BY <1>1, <2>1, <2>2, SameHosts DEF WantInv, Filed
  <1> QED BY <1>3, <1>5, <1>6

LEMMA DeleteAtIPMirrors ==
    ASSUME IInv, NEW ip \in IP0, DeleteAtIP(ip)
    PROVE  MirrorInv'
  <1> USE DEF IInv, MirrorInv, SparesInv
  <1>1. /\ pc = "delete" /\ pc' = pc /\ UNCHANGED <<store, groups, mk, ipam>>
        /\ rm.left = {} /\ ip \in rm.ips
    BY DEF DeleteAtIP
  <1>2. /\ rm'.ips = rm.ips \ {ip} /\ rm'.ip = ip /\ rm'.gone = rm.gone
        /\ rm'.avail = HostsOf(store, ip) /\ rm'.left = Dead(ip)
    BY DEF DeleteAtIP, TypeOK, CtlrTypeOK, RmType
  <1>3. StoreInv' /\ RecordInv' /\ FixedInv' /\ LoopInv'
    BY <1>1, <1>2, Quiet, IdleStays
  <1>4. DeleteInv'
    <2>1. \A i : HostsOf(store', i) = HostsOf(store, i)
      BY <1>1 DEF HostsOf
    <2>2. HostsOf(store, ip) = {h \in HostsOf(store, ip) : rm.gone[h] = 0}
      BY <1>1 DEF DeleteInv
    <2>3. Dead(ip) \subseteq HostsOf(store, ip)
      BY DEF Dead
    <2>4. \A h \in Host0 : rm.gone[h] # 0 => rm.gone[h] = 1 /\ Filed(h)
      BY DEF DeleteInv
    <2>5. \A i \in rm.ips : \A h \in HostsOf(store, i) : rm.gone[h] = 0
      BY <1>1 DEF DeleteInv
    <2> QED BY <1>1, <1>2, <2>1, <2>2, <2>3, <2>4, <2>5 DEF DeleteInv, Filed
  <1>5. WantInv'
    <2>1. ASSUME NEW h \in Host0, store.records[ip][h] # "none", h \notin HostsIn(groups)
          PROVE  h \in Dead(ip)
      BY <2>1 DEF Dead, HostsOf
    <2> QED BY <1>1, <1>2, <2>1, SameHosts DEF WantInv, Filed
  <1> QED BY <1>3, <1>4, <1>5

LEMMA EndDeleteMirrors ==
    ASSUME IInv, EndDelete
    PROVE  MirrorInv'
  <1> USE DEF IInv, MirrorInv, SparesInv
  <1>1. /\ pc = "delete" /\ pc' = "purge" /\ UNCHANGED <<store, groups, mk, ipam>>
        /\ rm.left = {} /\ rm.ips = {} /\ rm'.gone = rm.gone
    BY DEF EndDelete, RmIdle
  <1>2. StoreInv' /\ RecordInv' /\ FixedInv' /\ LoopInv'
    BY <1>1, Quiet, IdleStays
  <1>3. DeleteInv'
    BY <1>1 DEF DeleteInv, Filed
  <1>4. WantInv'
    BY <1>1, SameHosts DEF WantInv, Filed
  <1> QED BY <1>2, <1>3, <1>4

LEMMA EndPurgeMirrors ==
    ASSUME IInv, EndPurge
    PROVE  MirrorInv'
  <1> USE DEF IInv, MirrorInv, SparesInv
  <1>1. /\ pc = "purge" /\ pc' \in {"select", "write"}
        /\ UNCHANGED <<store, groups, mk, ipam>>
        /\ \A h \in Host0 : rm.gone[h] = 0
        /\ rm'.gone = [h \in Host0 |-> 0]
    BY DEF EndPurge, RmIdle
  <1>2. rm'.gone = rm.gone
    BY <1>1 DEF TypeOK, CtlrTypeOK, RmType
  <1>3. StoreInv' /\ RecordInv' /\ FixedInv' /\ LoopInv'
    BY <1>1, <1>2, Quiet, IdleStays
  <1>4. DeleteInv' /\ WantInv'
    BY <1>1 DEF DeleteInv, WantInv
  <1> QED BY <1>3, <1>4

\* What is removed from the store has no record any more.
LEMMA PurgeMirrors ==
    ASSUME Calm, IInv, NEW host \in Host0, Purge(host)
    PROVE  MirrorInv'
  <1> USE DEF IInv, MirrorInv, SparesInv
  <1>1. /\ pc = "purge" /\ pc' = pc /\ UNCHANGED <<groups, mk, ipam>>
        /\ rm.gone \in [Host0 -> Nat] /\ rm.gone[host] > 0
        /\ rm'.gone = [rm.gone EXCEPT ![host] = @ - 1]
    BY DEF Purge, TypeOK, CtlrTypeOK, RmType
  <1>2. rm.gone[host] = 1 /\ Filed(host)
    BY <1>1 DEF DeleteInv
  <1>3. PICK ip \in IP0 : store.records[ip][host] # "none" /\ store' = DeleteHost(store, ip, host)
    BY <1>2 DEF Purge, GetIP, IPsOf, Filed
  <1>4. \A i \in IP0, h \in Host0 :
           /\ store'.records[i][h] = IF i = ip /\ h = host THEN "none" ELSE store.records[i][h]
           /\ store'.records[i][h] # "none" =>
                 store'.netviews[i] = store.netviews[i] /\ store'.cidrs[i] = store.cidrs[i]
    <2>1. store \in Stores
      BY DEF TypeOK, CtlrTypeOK
    <2> QED BY <1>3, <2>1, DeleteHostEffect
  <1>5. \A i \in IP0 : store.records[i][host] # "none" => i = ip
    BY <1>3 DEF StoreInv
  <1>6. \A h \in Host0 : rm'.gone[h] = IF h = host THEN 0 ELSE rm.gone[h]
    BY <1>1, <1>2
  <1>7. StoreInv'
    BY <1>1, <1>4 DEF StoreInv
  <1>8. \A i \in IP0, h \in Host0 : /\ FiledAs("A", i, h)' <=> FiledAs("A", i, h)
                                    /\ FiledAs("CNAME", i, h)' <=> FiledAs("CNAME", i, h)
    BY <1>2, <1>4, <1>5, <1>6 DEF FiledAs
  <1>9. RecordInv' /\ FixedInv' /\ LoopInv'
    BY <1>1, <1>8, SameRecords, SameFixed, IdleStays DEF ipam
  <1>10. \A h \in Host0 \ {host} : Filed(h)' <=> Filed(h)
    BY <1>4 DEF Filed
  <1>11. DeleteInv'
    BY <1>1, <1>6, <1>10 DEF DeleteInv
  <1>12. WantInv'
    <2>1. host \notin HostsIn(groups) /\ HostsIn(groups) \subseteq Host0
      BY <1>1, HostsInHost DEF LoopsSpare, TypeOK, CtlrTypeOK, Host0
    <2>2. HostsIn(groups') = HostsIn(groups)
      BY <1>1, SameHosts
    <2>3. \A h \in HostsIn(groups) : Filed(h)'
      BY <1>1, <1>10, <2>1 DEF WantInv
    <2>4. ASSUME NEW i \in IP0, NEW h \in Host0, store'.records[i][h] # "none", rm'.gone[h] = 0
          PROVE  h \in HostsIn(groups)
      <3>1. store.records[i][h] # "none" /\ h # host
        BY <1>4, <1>5, <2>4
      <3>2. rm.gone[h] = 0
        BY <1>6, <2>4, <3>1
      <3> QED BY <1>1, <3>1, <3>2 DEF WantInv
    <2> QED BY <1>1, <2>2, <2>3, <2>4 DEF WantInv
  <1> QED BY <1>7, <1>9, <1>11, <1>12

(***************************************************************************)
(* The deletions.                                                          *)
(***************************************************************************)
\* The delete loop goes on behind the host it has deleted.
LEMMA DeletedMirrors ==
    ASSUME IInv, pc = "delete", pc' = pc, UNCHANGED <<groups, mk>>,
           NEW host \in Host0, host \in rm.left, Deleted(host, {}),
           \A i \in IP0, h \in Host0 :
              store'.records[i][h] # "none" <=> store.records[i][h] # "none"
    PROVE  /\ \A h \in Host0 : rm'.gone[h] = IF h = host THEN 1 ELSE rm.gone[h]
           /\ rm.gone[host] = 0 /\ host \in HostsOf(store, rm.ip)
           /\ DeleteInv' /\ WantInv'
  <1> USE DEF IInv, MirrorInv, SparesInv
  <1>1. /\ rm'.ips = rm.ips /\ rm'.ip = rm.ip /\ rm'.avail = rm.avail \ {host}
        /\ rm'.left = rm.left \ {host}
        /\ rm'.gone = [rm.gone EXCEPT ![host] = @ + 1]
        /\ rm.gone \in [Host0 -> Nat] /\ rm.ips \subseteq IP0 /\ rm.ip \in IP0
    BY DEF Deleted, TypeOK, CtlrTypeOK, RmType
  <1>2. rm.gone[host] = 0 /\ host \in HostsOf(store, rm.ip)
    BY DEF DeleteInv
  <1>3. \A h \in Host0 : rm'.gone[h] = IF h = host THEN 1 ELSE rm.gone[h]
    BY <1>1, <1>2
  <1>4. \A i \in IP0 : HostsOf(store', i) = HostsOf(store, i)
    BY DEF HostsOf
  <1>5. \A h \in Host0 : Filed(h)' <=> Filed(h)
    BY DEF Filed
  <1>6. DeleteInv'
    <2>1. \A h \in Host0 : rm'.gone[h] # 0 => rm'.gone[h] = 1 /\ Filed(h)'
      <3>1. Filed(host)
        BY <1>1, <1>2 DEF HostsOf, Filed
      <3>2. \A h \in Host0 : rm.gone[h] # 0 => rm.gone[h] = 1 /\ Filed(h)
        BY DEF DeleteInv
      <3> QED BY <1>3, <1>5, <3>1, <3>2
    <2>2. rm'.avail = {h \in HostsOf(store', rm'.ip) : rm'.gone[h] = 0}
      <3>1. rm.avail = {h \in HostsOf(store, rm.ip) : rm.gone[h] = 0}
        BY DEF DeleteInv
      <3>2. HostsOf(store, rm.ip) \subseteq Host0
        BY DEF HostsOf
      <3> QED BY <1>1, <1>3, <1>4, <3>1, <3>2
    <2>3. rm'.left \subseteq rm'.avail /\ rm'.ip \notin rm'.ips
      BY <1>1 DEF DeleteInv
    <2>4. ASSUME NEW i \in rm'.ips, NEW h \in HostsOf(store', i) PROVE rm'.gone[h] = 0
      <3>1. i # rm.ip /\ i \in IP0 /\ h \in HostsOf(store, i) /\ h \in Host0
        BY <1>1, <1>4 DEF DeleteInv, HostsOf
      <3>2. h # host
        BY <1>1, <1>2, <3>1 DEF HostsOf, StoreInv
      <3> QED BY <1>1, <1>3, <3>1, <3>2 DEF DeleteInv
    <2> QED BY <2>1, <2>2, <2>3, <2>4 DEF DeleteInv
  <1>7. WantInv'
    <2>1. HostsIn(groups) \subseteq Host0
      BY HostsInHost DEF TypeOK, CtlrTypeOK, Host0
    <2>2. HostsIn(groups') = HostsIn(groups)
      BY SameHosts
    <2>3. \A h \in HostsIn(groups) : Filed(h)'
      BY <1>5, <2>1 DEF WantInv
    <2>4. ASSUME NEW i \in IP0, NEW h \in Host0, store'.records[i][h] # "none", rm'.gone[h] = 0
          PROVE  h \in HostsIn(groups) \/ i \in rm'.ips \/ (i = rm'.ip /\ h \in rm'.left)
      <3>1. h # host /\ rm.gone[h] = 0 /\ store.records[i][h] # "none"
        BY <1>3, <2>4
      <3> QED BY <1>1, <3>1 DEF WantInv
    <2> QED BY <2>2, <2>3, <2>4 DEF WantInv
  <1> QED BY <1>2, <1>3, <1>6, <1>7

LEMMA DeleteLastAMirrors ==
    ASSUME Calm, IInv, NEW host \in Host0, DeleteLastA(host)
    PROVE  MirrorInv' /\ fixed' = fixed \ {FixedOf(rm.ip, host)}
           /\ aRecs' = aRecs \ {ARec(rm.ip, host)} /\ UNCHANGED cnames
           /\ FiledAs("A", rm.ip, host)
  <1> USE DEF IInv, MirrorInv, SparesInv
  <1> DEFINE i == rm.ip
  <1>1. /\ pc = "delete" /\ pc' = pc /\ host \in rm.left /\ store.records[i][host] = "A"
        /\ rm.avail \ {host} = {} /\ Deleted(host, {}) /\ UNCHANGED <<store, groups, mk>>
        /\ DeleteARecord(host, i, store.netviews[i], store.cidrs[i])
    BY DEF DeleteLastA
  <1>2. /\ \A h \in Host0 : rm'.gone[h] = IF h = host THEN 1 ELSE rm.gone[h]
        /\ rm.gone[host] = 0 /\ DeleteInv' /\ WantInv'
    BY <1>1, DeletedMirrors
  <1>3. i \in IP0
    BY DEF TypeOK, CtlrTypeOK, RmType
  <1>4. FiledAs("A", i, host)
    BY <1>1, <1>2 DEF FiledAs
  <1>5. /\ host \in Host /\ i \in IP
        /\ store.netviews[i] = Home[host].view /\ store.cidrs[i] = Home[host].cidr
        /\ store.netviews[i] \in View /\ store.cidrs[i] \in Cidr
        /\ getNetworkCIDR(store.netviews[i], i) = store.cidrs[i]
    BY <1>1, <1>3, FiledAddress
  <1>6. ARec(i, host) \in aRecs /\ FixedOf(i, host) \in fixed
    BY <1>3, <1>4 DEF RecordInv, FixedInv
  <1>7. /\ aRecs' = aRecs \ {ARec(i, host)} /\ UNCHANGED cnames
        /\ recordRef' = [recordRef EXCEPT ![host] = NoRef]
        /\ fixed' = fixed \ {FixedOf(i, host)}
    BY <1>1, <1>5, <1>6, DeleteARecordDone DEF Calm, TypeOK, ARec, FixedOf
  <1>8. \A j \in IP0, h \in Host0 :
           /\ FiledAs("A", j, h)' <=> FiledAs("A", j, h) /\ h # host
           /\ FiledAs("CNAME", j, h)' <=> FiledAs("CNAME", j, h) /\ h # host
    BY <1>1, <1>2 DEF FiledAs
  <1>9. \A j \in IP0 : store.records[j][host] # "none" => j = i
    BY <1>1, <1>3 DEF StoreInv
  <1>10. \A h \in Host0 : store.records[i][h] # "none" /\ rm.gone[h] = 0 => h = host
    BY <1>1 DEF DeleteInv, HostsOf
  <1>11. /\ \A r \in aRecs : r.name \in Host0 /\ r.ip \in IP0 /\ r = [name |-> r.name, ip |-> r.ip, view |-> r.view]
         /\ \A c \in cnames : c.name \in Host0
         /\ \A f \in fixed : f.ip \in IP0
         /\ recordRef \in [Host0 -> Refs]
    BY DEF TypeOK, IpamTypeOK, ARecord, CNAMERecord, FixedAddr, Host0, IP0
  <1>12. RecordInv'
    <2>1. \A r \in aRecs' : FiledAs("A", r.ip, r.name)' /\ r.view = Home[r.name].view
      <3>1. ASSUME NEW r \in aRecs, r.name = host PROVE r = ARec(i, host)
        BY <1>9, <1>11, <3>1 DEF RecordInv, FiledAs, ARec
      <3> QED BY <1>7, <1>8, <1>11, <3>1 DEF RecordInv
    <2>2. \A c \in cnames' : (\E j \in IP0 : FiledAs("CNAME", j, c.name)') /\ c.view = Home[c.name].view
      BY <1>1, <1>7, <1>8, <1>9, <1>11 DEF RecordInv, FiledAs
    <2>3. ASSUME NEW j \in IP0, NEW h \in Host0, FiledAs("A", j, h)'
          PROVE  ARec(j, h) \in aRecs' /\ recordRef'[h] = ARef(j, Home[h].view)
      BY <1>7, <1>8, <1>11, <2>3 DEF RecordInv, ARec
    <2>4. ASSUME NEW j \in IP0, NEW h \in Host0, FiledAs("CNAME", j, h)'
          PROVE  /\ \E c \in cnames' : c.name = h
                 /\ recordRef'[h] = CNAMERef(Home[h].view)
                 /\ \E a \in Host0 : FiledAs("A", j, a)'
      <3>1. FiledAs("CNAME", j, h) /\ h # host
        BY <1>8, <2>4
      <3>2. j # i
        BY <1>10, <3>1 DEF FiledAs
      <3>3. PICK a \in Host0 : FiledAs("A", j, a)
        BY <3>1 DEF RecordInv
      <3>4. a # host
        BY <1>9, <3>2, <3>3 DEF FiledAs
      <3> QED BY <1>7, <1>8, <1>11, <3>1, <3>3, <3>4 DEF RecordInv
    <2>5. \A j \in IP0, h, a \in Host0 : FiledAs("A", j, h)' /\ FiledAs("A", j, a)' => h = a
      BY <1>8 DEF RecordInv
    <2> QED BY <2>1, <2>2, <2>3, <2>4, <2>5 DEF RecordInv
  <1>13. FixedInv'
    <2>1. mk.next = Empty
      BY <1>1, LoopsIdle DEF Idle
    <2>2. ASSUME NEW f \in fixed'
          PROVE  \E h \in Host : FiledAs("A", f.ip, h)' /\ f = FixedOf(f.ip, h)
      <3>1. PICK h \in Host : FiledAs("A", f.ip, h) /\ f = FixedOf(f.ip, h)
        BY <1>7, <2>1 DEF FixedInv
      <3>2. h # host
        BY <1>7, <1>9, <1>11, <3>1 DEF FiledAs
      <3> QED BY <1>7, <1>8, <1>11, <3>1, <3>2 DEF Host0
    <2>3. ASSUME NEW j \in IP0, NEW h \in Host0, FiledAs("A", j, h)'
          PROVE  FixedOf(j, h) \in fixed'
      <3>1. FiledAs("A", j, h) /\ h # host
        BY <1>8, <2>3
      <3>2. j # i
        BY <1>4, <3>1 DEF RecordInv
      <3>3. FixedOf(j, h) # FixedOf(i, host)
        BY <3>2 DEF FixedOf
      <3> QED BY <1>7, <3>1, <3>3 DEF FixedInv
    <2> QED BY <2>2, <2>3 DEF FixedInv
  <1>14. StoreInv' /\ LoopInv'
    BY <1>1, IdleStays DEF StoreInv
  <1> QED BY <1>2, <1>4, <1>7, <1>12, <1>13, <1>14

LEMMA DeleteCNAMEMirrors ==
    ASSUME Calm, IInv, NEW host \in Host0, DeleteCNAME(host)
    PROVE  /\ MirrorInv' /\ UNCHANGED <<aRecs, fixed>>
           /\ cnames' = {c \in cnames : c.name # host}
           /\ \E i \in IP0 : FiledAs("CNAME", i, host)
  <1> USE DEF IInv, MirrorInv, SparesInv
  <1> DEFINE i == rm.ip
  <1>1. /\ pc = "delete" /\ pc' = pc /\ host \in rm.left /\ store.records[i][host] = "CNAME"
        /\ Deleted(host, {}) /\ UNCHANGED <<store, groups, mk>>
        /\ DeleteCNAMERecord(host, i, store.netviews[i], store.cidrs[i])
    BY DEF DeleteCNAME
  <1>2. /\ \A h \in Host0 : rm'.gone[h] = IF h = host THEN 1 ELSE rm.gone[h]
        /\ rm.gone[host] = 0 /\ DeleteInv' /\ WantInv'
    BY <1>1, DeletedMirrors
  <1>3. i \in IP0
    BY DEF TypeOK, CtlrTypeOK, RmType
  <1>4. FiledAs("CNAME", i, host)
    BY <1>1, <1>2 DEF FiledAs
  <1>5. /\ host \in Host
        /\ store.netviews[i] = Home[host].view
        /\ getNetworkCIDR(store.netviews[i], i) = store.cidrs[i]
    BY <1>1, <1>3, FiledAddress
  <1>6. \A c \in cnames : c.view = Home[c.name].view
    BY DEF RecordInv
  <1>7. CNAMEsOf(host, Home[host].view) = {c \in cnames : c.name = host}
    BY <1>6 DEF CNAMEsOf
  <1>8. \E c \in cnames : c.name = host
    BY <1>3, <1>4 DEF RecordInv
  <1>9. /\ cnames' = cnames \ CNAMEsOf(host, Home[host].view)
        /\ recordRef' = [recordRef EXCEPT ![host] = NoRef]
        /\ UNCHANGED <<aRecs, fixed>>
    BY <1>1, <1>5, <1>7, <1>8, DeleteCNAMERecordDone DEF Calm
  <1>10. cnames' = {c \in cnames : c.name # host}
    BY <1>7, <1>9
  <1>11. \A j \in IP0, h \in Host0 :
           /\ FiledAs("A", j, h)' <=> FiledAs("A", j, h)
           /\ FiledAs("CNAME", j, h)' <=> FiledAs("CNAME", j, h) /\ h # host
    <2>1. \A j \in IP0 : store.records[j][host] # "A"
      BY <1>1, <1>3 DEF StoreInv
    <2> QED BY <1>1, <1>2, <2>1 DEF FiledAs
  <1>12. /\ \A r \in aRecs : r.name \in Host0 /\ r.ip \in IP0
         /\ \A c \in cnames : c.name \in Host0
         /\ recordRef \in [Host0 -> Refs]
    BY DEF TypeOK, IpamTypeOK, ARecord, CNAMERecord, Host0, IP0
  <1>13. RecordInv'
    <2>1. \A r \in aRecs' : FiledAs("A", r.ip, r.name)' /\ r.view = Home[r.name].view
      BY <1>9, <1>11, <1>12 DEF RecordInv
    <2>2. \A c \in cnames' : (\E j \in IP0 : FiledAs("CNAME", j, c.name)') /\ c.view = Home[c.name].view
      BY <1>10, <1>11, <1>12 DEF RecordInv
    <2>3. ASSUME NEW j \in IP0, NEW h \in Host0, FiledAs("A", j, h)'
          PROVE  ARec(j, h) \in aRecs' /\ recordRef'[h] = ARef(j, Home[h].view)
      <3>1. FiledAs("A", j, h) /\ h # host
        BY <1>1, <1>3, <1>11, <2>3 DEF FiledAs, StoreInv
      <3> QED BY <1>9, <1>12, <3>1 DEF RecordInv
    <2>4. ASSUME NEW j \in IP0, NEW h \in Host0, FiledAs("CNAME", j, h)'
          PROVE  /\ \E c \in cnames' : c.name = h
                 /\ recordRef'[h] = CNAMERef(Home[h].view)
                 /\ \E a \in Host0 : FiledAs("A", j, a)'
      <3>1. FiledAs("CNAME", j, h) /\ h # host
        BY <1>11, <2>4
      <3> QED BY <1>9, <1>10, <1>11, <1>12, <3>1 DEF RecordInv
    <2>5. \A j \in IP0, h, a \in Host0 : FiledAs("A", j, h)' /\ FiledAs("A", j, a)' => h = a
      BY <1>11 DEF RecordInv
    <2> QED BY <2>1, <2>2, <2>3, <2>4, <2>5 DEF RecordInv
  <1>14. FixedInv'
    BY <1>1, <1>9, <1>11, SameFixed
  <1>15. StoreInv' /\ LoopInv'
    BY <1>1, IdleStays DEF StoreInv
  <1> QED BY <1>2, <1>3, <1>4, <1>9, <1>10, <1>13, <1>14, <1>15

\* The others at the address have CNAMEs, and recordRef has refs for all of them.
LEMMA OthersHaveCNAMEs ==
    ASSUME Calm, IInv, pc = "delete", NEW host \in Host0, host \in rm.left,
           store.records[rm.ip][host] = "A"
    PROVE  /\ rm.avail \ {host} \subseteq Host
           /\ \A h \in rm.avail \ {host} :
                 /\ FiledAs("CNAME", rm.ip, h)
                 /\ Home[h] = Home[host]
                 /\ recordRef[h] = CNAMERef(Home[host].view)
                 /\ \E c \in cnames : c.name = h /\ c.view = Home[host].view
  <1> USE DEF IInv, MirrorInv, SparesInv
  <1>1. rm.ip \in IP0 /\ rm.avail \subseteq Host0
    BY DEF TypeOK, CtlrTypeOK, RmType
  <1>2. FiledAs("A", rm.ip, host)
    BY DEF DeleteInv, FiledAs
  <1>3. SUFFICES ASSUME NEW h \in rm.avail \ {host}
                 PROVE  /\ h \in Host
                        /\ FiledAs("CNAME", rm.ip, h)
                        /\ Home[h] = Home[host]
                        /\ recordRef[h] = CNAMERef(Home[host].view)
                        /\ \E c \in cnames : c.name = h /\ c.view = Home[host].view
    OBVIOUS
  <1>4. h \in Host0 /\ rm.gone[h] = 0 /\ store.records[rm.ip][h] # "none"
    BY <1>1 DEF DeleteInv, HostsOf
  <1>5. FiledAs("CNAME", rm.ip, h)
    BY <1>1, <1>2, <1>4, FiledKinds DEF RecordInv
  <1>6. h \in Host /\ Home[h] = Home[host]
    BY <1>1, <1>4, FiledAddress
  <1>7. recordRef[h] = CNAMERef(Home[h].view) /\ \E c \in cnames : c.name = h
    BY <1>1, <1>4, <1>5 DEF RecordInv
  <1>8. \A c \in cnames : c.name = h => c.view = Home[h].view
    BY DEF RecordInv
  <1> QED BY <1>5, <1>6, <1>7, <1>8

\* A promotion: newA has the A record in the place of host, and no CNAME.
PromotedTo(host, newA) ==
    /\ newA \in rm.avail \ {host}
    /\ FiledAs("A", rm.ip, host) /\ FiledAs("CNAME", rm.ip, newA)
    /\ ARec(rm.ip, host) \in aRecs /\ Home[newA] = Home[host]
    /\ aRecs' = (aRecs \ {ARec(rm.ip, host)}) \cup {ARec(rm.ip, newA)}
    /\ \A n, v : (\E c \in cnames' : c.name = n /\ c.view = v) <=>
                    (\E c \in cnames : c.name = n /\ c.view = v) /\ n # newA
    /\ recordRef' = [recordRef EXCEPT ![newA] = ARef(rm.ip, Home[newA].view)]
    /\ UNCHANGED fixed
    /\ \A j \in IP0, h \in Host0 :
          store'.records[j][h] = IF j = rm.ip /\ h = newA THEN "A" ELSE store.records[j][h]
    /\ store'.netviews = store.netviews /\ store'.cidrs = store.cidrs
    /\ Deleted(host, {})

LEMMA PromotionDone ==
    ASSUME Calm, IInv, NEW host \in Host0, PromoteAndDelete(host)
    PROVE  \E newA \in Host : PromotedTo(host, newA)
  <1> USE DEF IInv, MirrorInv, SparesInv
  <1> DEFINE i == rm.ip
             avail == rm.avail \ {host}
  <1>1. /\ pc = "delete" /\ host \in rm.left /\ store.records[i][host] = "A"
    BY DEF PromoteAndDelete
  <1>2. PICK newA \in Host0 :
           /\ CNAMEToA(avail, host, i, store.netviews[i], store.cidrs[i], newA)
           /\ store' = MarkA(store, i, newA)
           /\ \E also \in {{}} \cup IF store.records[i][newA] = "none" THEN {{newA}} ELSE {} :
                 Deleted(host, also)
    BY DEF PromoteAndDelete
  <1>3. i \in IP0 /\ store \in Stores
    BY DEF TypeOK, CtlrTypeOK, RmType
  <1>4. FiledAs("A", i, host)
    BY <1>1 DEF DeleteInv, FiledAs
  <1>5. /\ host \in Host /\ i \in IP
        /\ store.netviews[i] = Home[host].view /\ store.netviews[i] \in View
        /\ getNetworkCIDR(store.netviews[i], i) = store.cidrs[i]
    BY <1>1, <1>3, FiledAddress
  <1>6. ARec(i, host) \in aRecs /\ recordRef[host] = ARef(i, Home[host].view)
    BY <1>3, <1>4 DEF RecordInv
  <1>7. /\ avail \subseteq Host
        /\ \A h \in avail : /\ FiledAs("CNAME", i, h) /\ Home[h] = Home[host]
                            /\ recordRef[h] = CNAMERef(Home[host].view)
                            /\ \E c \in cnames : c.name = h /\ c.view = Home[host].view
    BY <1>1, OthersHaveCNAMEs
  <1> DEFINE view == Home[host].view
  <1>8. /\ newA \in avail
        /\ aRecs' = (aRecs \ {ARec(i, host)}) \cup {[name |-> newA, ip |-> i, view |-> view]}
        /\ \A n, v : (\E c \in cnames' : c.name = n /\ c.view = v) <=>
                        (\E c \in cnames : c.name = n /\ c.view = v) /\ ~(n = newA /\ v = view)
        /\ recordRef' = [recordRef EXCEPT ![newA] = ARef(i, view)]
        /\ UNCHANGED fixed
    <2> DEFINE cidr == store.cidrs[i]
    <2> HIDE DEF avail, view, i, cidr, IInv, MirrorInv, SparesInv
    <2>1. CNAMEToA(avail, host, i, view, cidr, newA) /\ view \in View
          /\ getNetworkCIDR(view, i) = cidr
      BY <1>2, <1>5 DEF view, cidr
    <2>2. [name |-> host, ip |-> i, view |-> view] \in aRecs /\ recordRef[host] = ARef(i, view)
      BY <1>6 DEF ARec, view
    <2>3. HaveCNAMEs(avail, view)
      BY <1>7 DEF view, HaveCNAMEs
    <2>4. /\ FaultKinds = {} /\ IpamTypeOK /\ avail \in SUBSET Host
          /\ host \in Host /\ i \in IP
      BY <1>5, <1>7 DEF Calm, IInv, SparesInv, TypeOK, avail, i
    <2>5. /\ newA \in avail
          /\ aRecs' = (aRecs \ {[name |-> host, ip |-> i, view |-> view]})
                         \cup {[name |-> newA, ip |-> i, view |-> view]}
          /\ \A n, v : (\E c \in cnames' : c.name = n /\ c.view = v) <=>
                          (\E c \in cnames : c.name = n /\ c.view = v) /\ ~(n = newA /\ v = view)
          /\ recordRef' = [recordRef EXCEPT ![newA] = ARef(i, view)]
          /\ UNCHANGED fixed
      BY <2>1, <2>2, <2>3, <2>4, CNAMEToADone
    <2> QED BY <2>5 DEF ARec, view
  <1>9. \A n, v : (\E c \in cnames' : c.name = n /\ c.view = v) <=>
                     (\E c \in cnames : c.name = n /\ c.view = v) /\ n # newA
    <2>1. \A c \in cnames : c.name = newA => c.view = view
      BY <1>7, <1>8 DEF RecordInv
    <2> QED BY <1>8, <2>1
  <1>10. \A j \in IP0, h \in Host0 :
            store'.records[j][h] = IF j = i /\ h = newA THEN "A" ELSE store.records[j][h]
    BY <1>2, <1>3 DEF MarkA, Stores
  <1>11. store'.netviews = store.netviews /\ store'.cidrs = store.cidrs
    BY <1>2, <1>3 DEF MarkA, Stores
  <1>12. Deleted(host, {})
    BY <1>2, <1>7, <1>8 DEF FiledAs
  <1>13. FiledAs("CNAME", i, newA) /\ Home[newA] = Home[host] /\ newA \in Host
    BY <1>7, <1>8
  <1>14. PromotedTo(host, newA)
    BY <1>4, <1>6, <1>8, <1>9, <1>10, <1>11, <1>12, <1>13 DEF PromotedTo, ARec
  <1> QED BY <1>13, <1>14

LEMMA PromoteMirrors ==
    ASSUME Calm, IInv, NEW host \in Host0, PromoteAndDelete(host)
    PROVE  MirrorInv'
  <1> USE DEF IInv, MirrorInv, SparesInv
  <1> DEFINE i == rm.ip
  <1>1. PICK newA \in Host : PromotedTo(host, newA)
    BY PromotionDone
  <1>2. /\ pc = "delete" /\ pc' = pc /\ host \in rm.left /\ store.records[i][host] = "A"
        /\ UNCHANGED <<groups, mk>>
    BY DEF PromoteAndDelete
  <1>3. /\ newA \in Host0 /\ newA # host /\ i \in IP0
        /\ FiledAs("A", i, host) /\ FiledAs("CNAME", i, newA)
    BY <1>1 DEF PromotedTo, Host0, TypeOK, CtlrTypeOK, RmType
  <1>4. \A j \in IP0, h \in Host0 :
           store'.records[j][h] = IF j = i /\ h = newA THEN "A" ELSE store.records[j][h]
    BY <1>1 DEF PromotedTo
  <1>5. /\ \A h \in Host0 : rm'.gone[h] = IF h = host THEN 1 ELSE rm.gone[h]
        /\ rm.gone[host] = 0 /\ DeleteInv' /\ WantInv'
    <2>1. \A j \in IP0, h \in Host0 : store'.records[j][h] # "none" <=> store.records[j][h] # "none"
      BY <1>3, <1>4 DEF FiledAs
    <2>2. Deleted(host, {})
      BY <1>1 DEF PromotedTo
    <2> QED BY <1>2, <2>1, <2>2, DeletedMirrors
  <1>6. \A j \in IP0 : /\ store.records[j][host] # "none" => j = i
                       /\ store.records[j][newA] # "none" => j = i
    BY <1>3 DEF StoreInv, FiledAs
  <1>7. \A j \in IP0, h \in Host0 :
           /\ FiledAs("A", j, h)' <=>
                 (FiledAs("A", j, h) /\ h # host) \/ (j = i /\ h = newA)
           /\ FiledAs("CNAME", j, h)' <=> FiledAs("CNAME", j, h) /\ h # newA
    BY <1>3, <1>4, <1>5, <1>6 DEF FiledAs
  <1>8. /\ \A r \in aRecs : r.name \in Host0 /\ r.ip \in IP0 /\ r = [name |-> r.name, ip |-> r.ip, view |-> r.view]
        /\ \A f \in fixed : f.ip \in IP0
        /\ recordRef \in [Host0 -> Refs]
    BY DEF TypeOK, IpamTypeOK, ARecord, FixedAddr, Host0, IP0
  <1>9. /\ aRecs' = (aRecs \ {ARec(i, host)}) \cup {ARec(i, newA)}
        /\ recordRef' = [recordRef EXCEPT ![newA] = ARef(i, Home[newA].view)]
        /\ UNCHANGED fixed /\ Home[newA] = Home[host]
    BY <1>1 DEF PromotedTo
  <1>10. \A n, v : (\E c \in cnames' : c.name = n /\ c.view = v) <=>
                      (\E c \in cnames : c.name = n /\ c.view = v) /\ n # newA
    BY <1>1 DEF PromotedTo
  <1>11. StoreInv'
    <2>1. store'.netviews = store.netviews /\ store'.cidrs = store.cidrs
      BY <1>1 DEF PromotedTo
    <2>2. \A j \in IP0, h \in Host0 : store'.records[j][h] # "none" <=> store.records[j][h] # "none"
      BY <1>3, <1>4 DEF FiledAs
    <2> QED BY <1>2, <2>1, <2>2 DEF StoreInv
  <1>12. RecordInv'
    <2>1. \A r \in aRecs' : FiledAs("A", r.ip, r.name)' /\ r.view = Home[r.name].view
      <3>1. ASSUME NEW r \in aRecs, r.name = host PROVE r = ARec(i, host)
        BY <1>6, <1>8, <3>1 DEF RecordInv, FiledAs, ARec
      <3>2. ASSUME NEW r \in aRecs, r # ARec(i, host)
            PROVE  FiledAs("A", r.ip, r.name)' /\ r.view = Home[r.name].view
        BY <1>7, <1>8, <3>1, <3>2 DEF RecordInv
      <3>3. ASSUME NEW r, r = ARec(i, newA)
            PROVE  FiledAs("A", r.ip, r.name)' /\ r.view = Home[r.name].view
        <4>1. r.name = newA /\ r.ip = i /\ r.view = Home[newA].view
          BY <3>3 DEF ARec
        <4> QED BY <1>3, <1>7, <4>1
      <3> QED BY <1>9, <3>2, <3>3
    <2>2. \A c \in cnames' : (\E j \in IP0 : FiledAs("CNAME", j, c.name)') /\ c.view = Home[c.name].view
      <3>1. SUFFICES ASSUME NEW c \in cnames'
                     PROVE  (\E j \in IP0 : FiledAs("CNAME", j, c.name)') /\ c.view = Home[c.name].view
        OBVIOUS
      <3>2. PICK d \in cnames : d.name = c.name /\ d.view = c.view /\ d.name # newA
        <4>1. \E d \in cnames' : d.name = c.name /\ d.view = c.view
          OBVIOUS
        <4>2. (\E d \in cnames : d.name = c.name /\ d.view = c.view) /\ c.name # newA
          BY <1>10, <4>1
        <4> QED BY <4>2
      <3>3. d.name \in Host0
        BY DEF TypeOK, IpamTypeOK, CNAMERecord, Host0
      <3> QED BY <1>7, <3>2, <3>3 DEF RecordInv
    <2>3. ASSUME NEW j \in IP0, NEW h \in Host0, FiledAs("A", j, h)'
          PROVE  ARec(j, h) \in aRecs' /\ recordRef'[h] = ARef(j, Home[h].view)
      <3>1. CASE h = newA
        <4>1. j = i
          BY <1>3, <1>6, <1>7, <2>3, <3>1 DEF FiledAs
        <4> QED BY <1>3, <1>8, <1>9, <3>1, <4>1
      <3>2. CASE h # newA
        <4>1. FiledAs("A", j, h) /\ h # host
          BY <1>7, <2>3, <3>2
        <4>2. ARec(j, h) \in aRecs /\ recordRef[h] = ARef(j, Home[h].view)
          BY <4>1 DEF RecordInv
        <4>3. ARec(j, h) # ARec(i, host)
          BY <4>1 DEF ARec
        <4> QED BY <1>3, <1>8, <1>9, <3>2, <4>2, <4>3
      <3> QED BY <3>1, <3>2
    <2>4. ASSUME NEW j \in IP0, NEW h \in Host0, FiledAs("CNAME", j, h)'
          PROVE  /\ \E c \in cnames' : c.name = h
                 /\ recordRef'[h] = CNAMERef(Home[h].view)
                 /\ \E a \in Host0 : FiledAs("A", j, a)'
      <3>1. FiledAs("CNAME", j, h) /\ h # newA
        BY <1>7, <2>4
      <3>2. PICK c \in cnames : c.name = h
        BY <3>1 DEF RecordInv
      <3>3. \E d \in cnames' : d.name = h
        <4>1. \E d \in cnames : d.name = h /\ d.view = c.view
          BY <3>2
        <4>2. \E d \in cnames' : d.name = h /\ d.view = c.view
          BY <1>10, <3>1, <4>1
        <4> QED BY <4>2
      <3>4. recordRef'[h] = CNAMERef(Home[h].view)
        BY <1>3, <1>8, <1>9, <3>1 DEF RecordInv
      <3>5. PICK a \in Host0 : FiledAs("A", j, a)
        BY <3>1 DEF RecordInv
      <3>6. a = host => j = i
        BY <1>6, <3>5 DEF FiledAs
      <3> QED BY <1>3, <1>7, <3>3, <3>4, <3>5, <3>6
    <2>5. ASSUME NEW j \in IP0, NEW h \in Host0, NEW a \in Host0,
                 FiledAs("A", j, h)', FiledAs("A", j, a)'
          PROVE  h = a
      <3>1. \A b \in Host0 : FiledAs("A", i, b) => b = host
        BY <1>3 DEF RecordInv
      <3> QED BY <1>3, <1>7, <2>5, <3>1 DEF RecordInv
    <2> QED BY <2>1, <2>2, <2>3, <2>4, <2>5 DEF RecordInv
  <1>13. FixedInv'
    <2>1. mk.next = Empty
      BY <1>2, LoopsIdle DEF Idle
    <2>2. FixedOf(i, newA) = FixedOf(i, host)
      BY <1>9 DEF FixedOf
    <2>3. ASSUME NEW f \in fixed'
          PROVE  \E h \in Host : FiledAs("A", f.ip, h)' /\ f = FixedOf(f.ip, h)
      <3>1. PICK h \in Host : FiledAs("A", f.ip, h) /\ f = FixedOf(f.ip, h)
        BY <1>9, <2>1 DEF FixedInv
      <3>2. f.ip \in IP0 /\ h \in Host0
        BY <1>8, <1>9 DEF Host0
      <3>3. CASE h = host
        <4>1. f.ip = i
          BY <1>6, <3>1, <3>2, <3>3 DEF FiledAs
        <4>2. FiledAs("A", f.ip, newA)'
          BY <1>3, <1>7, <3>2, <4>1
        <4> QED BY <2>2, <3>1, <3>3, <4>1, <4>2
      <3> QED BY <1>7, <3>1, <3>2, <3>3
    <2>4. ASSUME NEW j \in IP0, NEW h \in Host0, FiledAs("A", j, h)'
          PROVE  FixedOf(j, h) \in fixed'
      BY <1>3, <1>7, <1>9, <2>2, <2>4 DEF FixedInv
    <2> QED BY <2>3, <2>4 DEF FixedInv
  <1>14. LoopInv'
    BY <1>2, IdleStays
  <1> QED BY <1>5, <1>11, <1>12, <1>13, <1>14

(***************************************************************************)
(* What the create loops have still to come to.                            *)
(***************************************************************************)
LEMMA HeadAndTail ==
    ASSUME NEW S, NEW s \in Seq(S), s # <<>>
    PROVE  /\ 1 \in DOMAIN s /\ s[1] = Head(s) /\ Head(s) \in S /\ Tail(s) \in Seq(S)
           /\ \A i \in DOMAIN s : i = 1 \/ (i - 1 \in DOMAIN Tail(s) /\ Tail(s)[i - 1] = s[i])
           /\ \A i \in DOMAIN Tail(s) : i + 1 \in DOMAIN s /\ s[i + 1] = Tail(s)[i]
  OBVIOUS

LEMMA RangeOfTail ==
    ASSUME NEW S, NEW s \in Seq(S), s # <<>>
    PROVE  \A x : x \in Range(s) <=> x = Head(s) \/ x \in Range(Tail(s))
  <1> DEFINE t == Tail(s)
             first == Head(s)
  <1>1. /\ 1 \in DOMAIN s /\ s[1] = first
        /\ \A i \in DOMAIN s : i = 1 \/ (i - 1 \in DOMAIN t /\ t[i - 1] = s[i])
        /\ \A i \in DOMAIN t : i + 1 \in DOMAIN s /\ s[i + 1] = t[i]
    BY HeadAndTail
  <1> HIDE DEF t, first
  <1>2. ASSUME NEW x \in Range(s) PROVE x = first \/ x \in Range(t)
    BY <1>1 DEF Range
  <1>3. ASSUME NEW x \in Range(t) PROVE x \in Range(s)
    BY <1>1 DEF Range
  <1>4. first \in Range(s)
    BY <1>1 DEF Range
  <1> QED BY <1>2, <1>3, <1>4 DEF t, first

LEMMA ToComeIn ==
    ASSUME NEW m, NEW h
    PROVE  h \in ToCome(m) <=> \/ h \in Range(m.hosts)
                               \/ \E i \in DOMAIN m.specs : h \in Range(m.specs[i])
  BY DEF ToCome

\* The next host of the host loop has been among those to come, and is not any more
\* unless it is there twice.
LEMMA HostTaken ==
    ASSUME NEW m \in MkType, m.hosts # <<>>, NEW n, n.hosts = Tail(m.hosts), n.specs = m.specs
    PROVE  /\ Head(m.hosts) \in ToCome(m) /\ Head(m.hosts) \in Host
           /\ \A h \in ToCome(n) : h \in ToCome(m)
           /\ \A h \in ToCome(m) : h = Head(m.hosts) \/ h \in ToCome(n)
  <1>1. m.hosts \in Seq(Host)
    BY DEF MkType
  <1> QED BY <1>1, HeadAndTail, RangeOfTail, ToComeIn

\* The next spec's hosts become the hosts of the host loop.
LEMMA SpecTaken ==
    ASSUME NEW m \in MkType, m.hosts = <<>>, m.specs # <<>>,
           NEW n, n.hosts = Head(m.specs), n.specs = Tail(m.specs)
    PROVE  \A h : h \in ToCome(n) <=> h \in ToCome(m)
  <1>1. m.specs \in Seq(Seq(Host))
    BY DEF MkType
  <1>2. \A h : h \notin Range(m.hosts)
    BY DEF Range
  <1>3. \A h : (\E i \in DOMAIN m.specs : h \in Range(m.specs[i])) <=>
                  \/ h \in Range(Head(m.specs))
                  \/ \E i \in DOMAIN Tail(m.specs) : h \in Range(Tail(m.specs)[i])
    <2> DEFINE s == m.specs
               t == Tail(s)
               first == Head(s)
    <2>1. /\ 1 \in DOMAIN s /\ s[1] = first
          /\ \A i \in DOMAIN s : i = 1 \/ (i - 1 \in DOMAIN t /\ t[i - 1] = s[i])
          /\ \A i \in DOMAIN t : i + 1 \in DOMAIN s /\ s[i + 1] = t[i]
      BY <1>1, HeadAndTail
    <2> HIDE DEF s, t, first
    <2> SUFFICES ASSUME NEW h
                 PROVE  (\E i \in DOMAIN s : h \in Range(s[i])) <=>
                           h \in Range(first) \/ \E i \in DOMAIN t : h \in Range(t[i])
      BY DEF s, t, first
    <2> QED BY <2>1
  <1> QED BY <1>2, <1>3, ToComeIn

LEMMA WantKept ==
    ASSUME IInv, pc \in {"specs", "hosts"}, pc' \in {"specs", "hosts"}, UNCHANGED groups,
           mk'.key = mk.key, mk'.keys = mk.keys,
           \A h \in Host0 : Filed(h) => Filed(h)',
           \A h \in ToCome(mk') : h \in ToCome(mk),
           \A h \in ToCome(mk) : Filed(h)' \/ h \in ToCome(mk')
    PROVE  WantInv'
  <1>1. WantInv /\ HostsIn(groups) \subseteq Host0
    BY HostsInHost DEF IInv, MirrorInv, SparesInv, TypeOK, CtlrTypeOK, Host0
  <1>2. HostsIn(groups') = HostsIn(groups)
    BY SameHosts
  <1>3. \A h \in ToCome(mk') : h \in HostsIn(groups') /\ Home[h] = NetOf(mk'.key)
    BY <1>1, <1>2 DEF WantInv
  <1>4. ASSUME NEW k \in GroupKey \ mk'.keys, NEW i \in DOMAIN groups'[k],
               NEW h \in Range(groups'[k][i])
        PROVE  Filed(h)' \/ (k = mk'.key /\ h \in ToCome(mk'))
    <2>1. Filed(h) \/ (k = mk.key /\ h \in ToCome(mk))
      BY <1>1 DEF WantInv
    <2>2. h \in Host0
      <3>1. h \in HostsIn(groups')
        BY DEF HostsIn
      <3> QED BY <1>1, <1>2, <3>1
    <2> QED BY <2>1, <2>2
  <1> QED BY <1>1, <1>3, <1>4 DEF WantInv

(***************************************************************************)
(* Taking an address: the pool has one that no host is filed under.        *)
(***************************************************************************)
LEMMA PoolNotDry ==
    ASSUME Calm, IInv, mk.next = Empty, NEW k \in GroupKey
    PROVE  Free(k.view, k.cidr) # {}
  <1> DEFINE net   == NetOf(k)
             pool  == PoolOf(net)
             hosts == {h \in Host : Home[h] = net}
             who   == [i \in pool |-> CHOOSE h \in hosts : FiledAs("A", i, h)]
  <1>1. net \in Network /\ pool \subseteq IP
    BY Networks
  <1>2. IsFiniteSet(hosts) /\ IsFiniteSet(pool) /\ Cardinality(hosts) < Cardinality(pool)
    BY DEF Calm
  <1> SUFFICES ASSUME Free(k.view, k.cidr) = {} PROVE FALSE
    OBVIOUS
  <1>3. ASSUME NEW i \in pool PROVE \E h \in hosts : FiledAs("A", i, h)
    <2>1. i \in Pool[k.view][k.cidr]
      BY DEF PoolOf, NetOf
    <2>2. PICK f \in fixed : f.ip = i
      BY <2>1 DEF Free
    <2>3. PICK h \in Host : FiledAs("A", i, h)
      BY <2>2 DEF IInv, MirrorInv, FixedInv
    <2>4. Home[h] = net
      BY <1>1, <2>3, FiledAddress DEF FiledAs, IInv, MirrorInv, Host0, IP0
    <2> QED BY <2>3, <2>4
  <1> HIDE DEF pool, hosts
  <1>4. who \in [pool -> hosts] /\ \A i \in pool : FiledAs("A", i, who[i])
    BY <1>3
  <1>5. PICK i, j \in pool : i # j /\ who[i] = who[j]
    <2> HIDE DEF who
    <2> QED BY <1>2, <1>4, FS_PigeonHole
  <1>6. i \in IP0 /\ j \in IP0 /\ who[i] \in Host0
    BY <1>1, <1>4, <1>5 DEF hosts, Host0, IP0
  <1>7. FiledAs("A", i, who[i]) /\ FiledAs("A", j, who[i])
    BY <1>4, <1>5
  <1> QED BY <1>5, <1>6, <1>7 DEF IInv, MirrorInv, StoreInv, FiledAs

LEMMA FreeUnfiled ==
    ASSUME Calm, IInv, pc \notin {"delete", "purge"}, NEW k \in GroupKey,
           NEW i \in Free(k.view, k.cidr)
    PROVE  /\ i \in PoolOf(NetOf(k)) /\ i \in IP /\ i # Empty
           /\ \A h \in Host0 : store.records[i][h] = "none"
  <1> USE DEF IInv, MirrorInv, SparesInv
  <1>1. /\ i \in PoolOf(NetOf(k)) /\ NetOf(k) \in Network /\ i \in IP /\ i # Empty
        /\ \A f \in fixed : ~(f.view = k.view /\ f.ip = i)
    BY Networks, EmptyAssumption DEF Free, PoolOf, NetOf
  <1>2. ASSUME NEW h \in Host0, store.records[i][h] # "none" PROVE FALSE
    <2>1. i \in IP0 /\ rm.gone[h] = 0
      BY <1>1 DEF DeleteInv, IP0
    <2>2. PICK a \in Host0 : FiledAs("A", i, a)
      BY <1>2, <2>1, FiledKinds DEF RecordInv
    <2>3. FixedOf(i, a) \in fixed
      BY <2>1, <2>2 DEF FixedInv
    <2>4. Home[a] = NetOf(k)
      BY <1>1, <2>1, <2>2, FiledAddress DEF FiledAs
    <2> QED BY <1>1, <2>3, <2>4 DEF FixedOf, NetOf
  <1> QED BY <1>1, <1>2

LEMMA Reserving ==
    ASSUME Calm, IInv, mk.next = Empty, pc \notin {"delete", "purge"}, pc' # "start",
           NEW k \in GroupKey, NEW addr \in IP0, GetNextAddr(k.view, k.cidr, addr),
           UNCHANGED <<store, rm>>, mk'.key = k, mk'.next = addr, ~mk'.used
    PROVE  /\ addr \in Free(k.view, k.cidr) /\ addr \in PoolOf(NetOf(k)) /\ addr # Empty
           /\ \A h \in Host0 : store.records[addr][h] = "none"
           /\ fixed' = fixed \cup {[view |-> k.view, cidr |-> k.cidr, ip |-> addr]}
           /\ UNCHANGED <<aRecs, cnames, recordRef>>
           /\ StoreInv' /\ RecordInv' /\ FixedInv'
  <1> USE DEF IInv, MirrorInv, SparesInv
  <1>1. /\ addr \in Free(k.view, k.cidr)
        /\ fixed' = fixed \cup {[view |-> k.view, cidr |-> k.cidr, ip |-> addr]}
        /\ UNCHANGED <<aRecs, cnames, recordRef>>
    BY PoolNotDry, GetNextAddrDone DEF Calm
  <1>2. /\ addr \in PoolOf(NetOf(k)) /\ addr # Empty
        /\ \A h \in Host0 : store.records[addr][h] = "none"
    BY <1>1, FreeUnfiled
  <1>3. \A i \in IP0, h \in Host0 : /\ FiledAs("A", i, h)' <=> FiledAs("A", i, h)
                                    /\ FiledAs("CNAME", i, h)' <=> FiledAs("CNAME", i, h)
    BY DEF FiledAs
  <1>4. StoreInv' /\ RecordInv'
    BY <1>1, <1>3, SameRecords DEF StoreInv
  <1>5. FixedInv'
    <2>1. \A f \in fixed : f.ip \in IP0
      BY DEF TypeOK, IpamTypeOK, FixedAddr, IP0
    <2>2. Host \subseteq Host0
      BY DEF Host0
    <2> QED BY <1>1, <1>2, <1>3, <2>1, <2>2 DEF FixedInv, HeldAddr
  <1> QED BY <1>1, <1>2, <1>4, <1>5

(***************************************************************************)
(* The moves of the create loops.                                          *)
(***************************************************************************)
\* All hosts of the group are to come.
LEMMA GroupTaken ==
    ASSUME Calm, IInv, pc = "groups", pc' \in {"specs", "hosts"}, UNCHANGED <<store, groups>>,
           NEW k \in mk.keys, k \in GroupKey, mk'.key = k, mk'.keys = mk.keys \ {k},
           mk'.specs = groups[k], mk'.hosts = <<>>
    PROVE  WantInv'
  <1>1. WantInv /\ groups \in GroupConfigs \cup {NoGroups}
    BY DEF IInv, MirrorInv, WantInv
  <1>2. HostsIn(groups') = HostsIn(groups)
    BY SameHosts
  <1>3. \A h : h \in ToCome(mk') <=> \E i \in DOMAIN groups[k] : h \in Range(groups[k][i])
    BY ToComeIn DEF Range
  <1>4. \A h \in ToCome(mk') : h \in HostsIn(groups) /\ Home[h] = NetOf(k)
    BY <1>1, <1>3, HomeOfGroup
  <1>5. ASSUME NEW j \in GroupKey \ mk'.keys, NEW i \in DOMAIN groups'[j],
               NEW h \in Range(groups'[j][i])
        PROVE  Filed(h)' \/ (j = mk'.key /\ h \in ToCome(mk'))
    <2>1. CASE j = k
      BY <1>3, <2>1
    <2>2. CASE j # k
      BY <1>1, <2>2 DEF WantInv, Filed
    <2> QED BY <2>1, <2>2
  <1> QED BY <1>1, <1>2, <1>4, <1>5 DEF WantInv

LEMMA GroupsLocals ==
    ASSUME IInv, pc = "groups"
    PROVE  mk \in MkType /\ mk.hosts = <<>> /\ Idle(mk)
  BY LoopsIdle DEF IInv, MirrorInv, SparesInv, TypeOK, CtlrTypeOK

LEMMA BeginSharedMirrors ==
    ASSUME Calm, IInv, NEW k \in GroupKey, BeginSharedGroup(k)
    PROVE  MirrorInv'
  <1> USE DEF IInv, MirrorInv, SparesInv
  <1>1. PICK addr \in IP0 :
           /\ GetNextAddr(k.view, k.cidr, addr)
           /\ mk' = [mk EXCEPT !.keys = @ \ {k}, !.key = k, !.specs = groups[k],
                               !.next = addr, !.cur = addr]
    BY DEF BeginSharedGroup
  <1>2. /\ pc = "groups" /\ pc' = "specs" /\ k \in mk.keys /\ ~Unique(k)
        /\ UNCHANGED <<store, groups, rm>>
    BY DEF BeginSharedGroup
  <1>3. /\ mk'.key = k /\ mk'.keys = mk.keys \ {k} /\ mk'.specs = groups[k] /\ mk'.hosts = <<>>
        /\ mk'.next = addr /\ mk'.cur = addr /\ mk'.first = Empty /\ ~mk'.used
    BY <1>1, <1>2, GroupsLocals DEF MkType, Idle
  <1>4. mk.next = Empty
    BY <1>2, GroupsLocals DEF Idle
  <1>5. /\ addr \in PoolOf(NetOf(k)) /\ addr # Empty
        /\ \A h \in Host0 : store.records[addr][h] = "none"
        /\ StoreInv' /\ RecordInv' /\ FixedInv'
    BY <1>1, <1>2, <1>3, <1>4, Reserving
  <1>6. LoopInv'
    BY <1>2, <1>3, <1>5 DEF LoopInv
  <1>7. DeleteInv'
    BY <1>2 DEF DeleteInv, Filed
  <1>8. WantInv'
    BY <1>2, <1>3, GroupTaken
  <1> QED BY <1>5, <1>6, <1>7, <1>8

LEMMA BeginUniqueMirrors ==
    ASSUME Calm, IInv, NEW k \in GroupKey, BeginUniqueGroup(k)
    PROVE  MirrorInv'
  <1> USE DEF IInv, MirrorInv, SparesInv
  <1>1. /\ pc = "groups" /\ pc' = "specs" /\ k \in mk.keys /\ Unique(k)
        /\ UNCHANGED <<store, groups, rm, ipam>>
        /\ mk' = [mk EXCEPT !.keys = @ \ {k}, !.key = k, !.specs = groups[k]]
    BY DEF BeginUniqueGroup
  <1>2. /\ mk'.key = k /\ mk'.keys = mk.keys \ {k} /\ mk'.specs = groups[k] /\ mk'.hosts = <<>>
        /\ Idle(mk')
    BY <1>1, GroupsLocals DEF MkType, Idle
  <1>3. mk.next = Empty
    BY <1>1, GroupsLocals DEF Idle
  <1>4. StoreInv' /\ RecordInv' /\ FixedInv'
    BY <1>1, <1>3, Quiet
  <1>5. LoopInv'
    BY <1>1, <1>2 DEF LoopInv, Idle
  <1>6. DeleteInv'
    BY <1>1 DEF DeleteInv, Filed
  <1>7. WantInv'
    BY <1>1, <1>2, GroupTaken
  <1> QED BY <1>4, <1>5, <1>6, <1>7

LEMMA BeginSpecMirrors ==
    ASSUME Calm, IInv, BeginSpec
    PROVE  MirrorInv'
  <1> USE DEF IInv, MirrorInv, SparesInv
  <1> DEFINE spec == Head(mk.specs)
             m    == [mk EXCEPT !.specs = Tail(@), !.hosts = spec,
                                !.first = FirstHost(@, spec, mk.key)]
  <1>1. /\ pc = "specs" /\ pc' = "hosts" /\ mk.specs # <<>> /\ UNCHANGED <<store, groups, rm>>
        /\ mk \in MkType /\ mk.key \in GroupKey /\ mk.hosts = <<>>
    BY DEF BeginSpec, TypeOK, CtlrTypeOK
  <1>2. /\ m.keys = mk.keys /\ m.key = mk.key /\ m.specs = Tail(mk.specs) /\ m.hosts = spec
        /\ m.first = FirstHost(mk.first, spec, mk.key) /\ m.next = mk.next /\ m.cur = mk.cur
        /\ m.used = mk.used
        /\ \A addr : LET n == [m EXCEPT !.next = addr, !.cur = addr, !.used = FALSE]
                   IN  /\ n.keys = mk.keys /\ n.key = mk.key /\ n.specs = Tail(mk.specs)
                       /\ n.hosts = spec /\ n.first = FirstHost(mk.first, spec, mk.key)
                       /\ n.next = addr /\ n.cur = addr /\ n.used = FALSE
    BY <1>1 DEF MkType
  <1>3. spec # <<>> => Head(spec) \in Host
    <2>1. spec \in Seq(Host)
      BY <1>1, HeadAndTail DEF MkType
    <2> QED BY <2>1, HeadAndTail
  <1>4. Empty \notin Host
    BY EmptyAssumption
  <1>5. /\ mk'.keys = mk.keys /\ mk'.key = mk.key
        /\ mk'.specs = Tail(mk.specs) /\ mk'.hosts = spec
        /\ mk'.first = FirstHost(mk.first, spec, mk.key)
        /\ ~Unique(mk.key) => /\ mk'.next = mk.next /\ mk'.cur = mk.cur /\ mk'.used = mk.used
                              /\ UNCHANGED ipam
        /\ Unique(mk.key) => /\ mk'.cur = mk'.next /\ ~mk'.used /\ mk'.next \in IP0
                             /\ GetNextAddr(mk.key.view, mk.key.cidr, mk'.next)
    <2>1. CASE Unique(mk.key)
      <3>1. PICK addr \in IP0 :
               /\ GetNextAddr(mk.key.view, mk.key.cidr, addr)
               /\ mk' = [m EXCEPT !.next = addr, !.cur = addr, !.used = FALSE]
        BY <2>1 DEF BeginSpec
      <3> HIDE DEF m
      <3> QED BY <1>2, <2>1, <3>1
    <2>2. CASE ~Unique(mk.key)
      <3>1. mk' = m /\ UNCHANGED ipam
        BY <2>2 DEF BeginSpec
      <3> HIDE DEF m
      <3> QED BY <1>2, <2>2, <3>1
    <2> QED BY <2>1, <2>2
  <1> HIDE DEF m
  <1>6. ASSUME Unique(mk.key) PROVE StoreInv' /\ RecordInv' /\ FixedInv' /\ LoopInv'
    <2>1. mk.next = Empty /\ mk.first = Empty
      BY <1>1, <1>6 DEF LoopInv
    <2>2. /\ mk'.next \in PoolOf(NetOf(mk.key)) /\ mk'.next # Empty
          /\ \A h \in Host0 : store.records[mk'.next][h] = "none"
          /\ StoreInv' /\ RecordInv' /\ FixedInv'
      BY <1>1, <1>5, <1>6, <2>1, Reserving
    <2>3. LoopInv'
      BY <1>1, <1>3, <1>4, <1>5, <1>6, <2>1, <2>2 DEF LoopInv, FirstHost
    <2> QED BY <2>2, <2>3
  <1>7. ASSUME ~Unique(mk.key) PROVE StoreInv' /\ RecordInv' /\ FixedInv' /\ LoopInv'
    <2>1. mk.next # Empty /\ mk'.next = mk.next /\ mk'.cur = mk.cur /\ mk'.used = mk.used
      BY <1>1, <1>5, <1>7 DEF LoopInv
    <2>2. StoreInv' /\ RecordInv' /\ FixedInv'
      BY <1>1, <1>5, <1>7, Quiet
    <2>3. LoopInv'
      <3>1. CASE mk.first = Empty
        BY <1>1, <1>3, <1>4, <1>5, <1>7, <2>1, <3>1 DEF LoopInv, FirstHost
      <3>2. CASE mk.first # Empty
        BY <1>1, <1>3, <1>4, <1>5, <1>7, <2>1, <3>2 DEF LoopInv, FirstHost, Filed
      <3> QED BY <3>1, <3>2
    <2> QED BY <2>2, <2>3
  <1>8. StoreInv' /\ RecordInv' /\ FixedInv' /\ LoopInv'
    BY <1>6, <1>7
  <1>9. DeleteInv'
    BY <1>1 DEF DeleteInv, Filed
  <1>10. WantInv'
    <2>1. \A h : h \in ToCome(mk') <=> h \in ToCome(mk)
      BY <1>1, <1>5, SpecTaken
    <2>2. \A h \in Host0 : Filed(h) => Filed(h)'
      BY <1>1 DEF Filed
    <2> QED BY <1>1, <1>5, <2>1, <2>2, WantKept
  <1> QED BY <1>8, <1>9, <1>10

(***************************************************************************)
(* The host loop.                                                          *)
(***************************************************************************)
LEMMA HostLocals ==
    ASSUME Calm, IInv, pc = "hosts", mk.hosts # <<>>
    PROVE  /\ mk \in MkType /\ mk.key \in GroupKey /\ mk.first \in Host /\ mk.first # Empty
           /\ Head(mk.hosts) \in Host /\ Head(mk.hosts) \in Host0
           /\ Head(mk.hosts) \in ToCome(mk) /\ Home[Head(mk.hosts)] = NetOf(mk.key)
           /\ mk.next # Empty /\ mk.next \in PoolOf(NetOf(mk.key)) /\ mk.next \in IP
           /\ mk.cur \in PoolOf(NetOf(mk.key)) /\ mk.cur \in IP
           /\ mk.key.view = Home[Head(mk.hosts)].view /\ mk.key.view \in View
           /\ mk.key.cidr = Home[Head(mk.hosts)].cidr /\ mk.key.cidr \in Cidr
  <1> USE DEF IInv, MirrorInv, SparesInv
  <1>1. mk \in MkType /\ mk.key \in GroupKey /\ mk.first \in Host /\ mk.first # Empty
    BY EmptyAssumption DEF TypeOK, CtlrTypeOK
  <1> DEFINE host == Head(mk.hosts)
  <1>2. /\ host \in Host /\ host \in ToCome(mk)
    <2>1. [mk EXCEPT !.hosts = Tail(@)].hosts = Tail(mk.hosts)
          /\ [mk EXCEPT !.hosts = Tail(@)].specs = mk.specs
      BY <1>1 DEF MkType
    <2> QED BY <1>1, <2>1, HostTaken
  <1>3. Home[host] = NetOf(mk.key)
    BY <1>2 DEF WantInv
  <1>4. mk.next # Empty /\ mk.next \in PoolOf(NetOf(mk.key)) /\ mk.cur \in PoolOf(NetOf(mk.key))
    BY <1>1 DEF LoopInv
  <1>5. PoolOf(NetOf(mk.key)) \subseteq IP
    BY <1>1, Networks
  <1>6. mk.key.view \in View /\ mk.key.cidr \in Cidr
    BY <1>1, KeyTypes
  <1> QED BY <1>1, <1>2, <1>3, <1>4, <1>5, <1>6 DEF NetOf, Host0

LEMMA KnownHostMirrors ==
    ASSUME Calm, IInv, KnownHost
    PROVE  MirrorInv'
  <1> USE DEF IInv, MirrorInv, SparesInv
  <1> DEFINE host == Head(mk.hosts)
  <1>1. /\ pc = "hosts" /\ pc' = pc /\ mk.hosts # <<>> /\ UNCHANGED <<store, groups, rm, ipam>>
    BY DEF KnownHost
  <1>2. /\ mk \in MkType /\ mk.key \in GroupKey /\ mk.first \in Host /\ mk.first # Empty
        /\ host \in Host0 /\ Home[host] = NetOf(mk.key) /\ mk.next # Empty
    BY <1>1, HostLocals
  <1>3. PICK addr \in IP0 : /\ store.records[addr][host] # "none"
                            /\ mk' = [mk EXCEPT !.hosts = Tail(@), !.cur = addr]
    BY DEF KnownHost, GetIP, IPsOf
  <1>4. /\ mk'.keys = mk.keys /\ mk'.key = mk.key /\ mk'.specs = mk.specs
        /\ mk'.hosts = Tail(mk.hosts) /\ mk'.first = mk.first /\ mk'.next = mk.next
        /\ mk'.cur = addr /\ mk'.used = mk.used
    BY <1>2, <1>3 DEF MkType
  <1>5. StoreInv' /\ RecordInv' /\ FixedInv'
    BY <1>1, <1>4, Quiet
  <1>6. LoopInv'
    <2>1. addr \in PoolOf(NetOf(mk.key))
      BY <1>2, <1>3, FiledAddress
    <2>2. Filed(mk.first)
      BY <1>2, <1>3 DEF LoopInv, Filed
    <2>3. Filed(mk.first)' /\ \E h \in Host0 : store'.records[mk'.cur][h] # "none"
      BY <1>1, <1>2, <1>3, <1>4, <2>2 DEF Filed
    <2> QED BY <1>1, <1>2, <1>4, <2>1, <2>3 DEF LoopInv
  <1>7. DeleteInv'
    BY <1>1 DEF DeleteInv, Filed
  <1>8. WantInv'
    <2>1. \A h \in Host0 : Filed(h)' <=> Filed(h)
      BY <1>1 DEF Filed
    <2>2. Filed(host)
      BY <1>3 DEF Filed
    <2>3. /\ \A h \in ToCome(mk') : h \in ToCome(mk)
          /\ \A h \in ToCome(mk) : h = host \/ h \in ToCome(mk')
      BY <1>1, <1>2, <1>4, HostTaken
    <2> QED BY <1>1, <1>2, <1>4, <2>1, <2>2, <2>3, WantKept
  <1> QED BY <1>5, <1>6, <1>7, <1>8

\* A host that the store does not have is not in the IPAM system either.
LEMMA NewHost ==
    ASSUME Calm, IInv, pc = "hosts", mk.hosts # <<>>, Empty \in GetIP(store, Head(mk.hosts))
    PROVE  /\ \A i \in IP0 : store.records[i][Head(mk.hosts)] = "none"
           /\ \A h \in Host0 : rm.gone[h] = 0
           /\ \A r \in aRecs : r.name # Head(mk.hosts)
           /\ \A c \in cnames : c.name # Head(mk.hosts)
  <1> USE DEF IInv, MirrorInv, SparesInv
  <1> DEFINE host == Head(mk.hosts)
  <1>1. host \in Host0
    BY HostLocals
  <1>2. \A i \in IP0 : store.records[i][host] = "none"
    <2>1. SUFFICES ASSUME IPsOf(store, host) # {} PROVE FALSE
      BY DEF IPsOf
    <2>2. Empty \in IP0 /\ store.records[Empty][host] # "none"
      BY <2>1 DEF GetIP, IPsOf
    <2> QED BY <1>1, <2>2, FiledAddress, EmptyAssumption
  <1>3. \A h \in Host0 : rm.gone[h] = 0
    BY DEF DeleteInv
  <1>4. /\ \A r \in aRecs : r.ip \in IP0 /\ store.records[r.ip][r.name] # "none"
        /\ \A c \in cnames : \E i \in IP0 : store.records[i][c.name] # "none"
    BY DEF RecordInv, FiledAs, TypeOK, IpamTypeOK, ARecord, IP0
  <1> QED BY <1>2, <1>3, <1>4

\* The next host of the host loop is filed under address i, which is curAddr.
Filing(type, i, host) ==
    /\ host = Head(mk.hosts) /\ i = mk.cur
    /\ \A j \in IP0 :
          /\ \A h \in Host0 : store'.records[j][h] =
                IF j = i /\ h = host THEN type ELSE store.records[j][h]
          /\ store'.netviews[j] = IF j = i THEN Home[host].view ELSE store.netviews[j]
          /\ store'.cidrs[j] = IF j = i THEN Home[host].cidr ELSE store.cidrs[j]
    /\ mk'.keys = mk.keys /\ mk'.key = mk.key /\ mk'.specs = mk.specs
    /\ mk'.hosts = Tail(mk.hosts) /\ mk'.first = mk.first /\ mk'.next = mk.next
    /\ mk'.cur = mk.cur

LEMMA FilingMirrors ==
    ASSUME Calm, IInv, pc = "hosts", pc' = pc, mk.hosts # <<>>, UNCHANGED <<groups, rm>>,
           NEW type \in {"A", "CNAME"}, NEW i \in IP0, NEW host \in Host0,
           Empty \in GetIP(store, host), Filing(type, i, host),
           host = mk.first \/ Filed(mk.first), mk'.used \/ (i # mk.next /\ ~mk.used)
    PROVE  /\ StoreInv' /\ LoopInv' /\ DeleteInv' /\ WantInv'
           /\ FiledAs(type, i, host)'
           /\ \A t \in {"A", "CNAME"}, j \in IP0, h \in Host0 :
                 FiledAs(t, j, h)' <=> FiledAs(t, j, h) \/ (t = type /\ j = i /\ h = host)
  <1> USE DEF IInv, MirrorInv, SparesInv
  <1>1. /\ host = Head(mk.hosts) /\ i = mk.cur
        /\ mk'.keys = mk.keys /\ mk'.key = mk.key /\ mk'.specs = mk.specs
        /\ mk'.hosts = Tail(mk.hosts) /\ mk'.first = mk.first /\ mk'.next = mk.next
        /\ mk'.cur = mk.cur
    BY DEF Filing
  <1>2. \A j \in IP0, h \in Host0 : store'.records[j][h] =
           IF j = i /\ h = host THEN type ELSE store.records[j][h]
    BY DEF Filing
  <1>3. /\ mk \in MkType /\ mk.key \in GroupKey /\ mk.first \in Host /\ mk.first # Empty
        /\ mk.next # Empty /\ mk.next \in PoolOf(NetOf(mk.key)) /\ i \in PoolOf(NetOf(mk.key))
        /\ host \in Host /\ Home[host] = NetOf(mk.key) /\ NetOf(mk.key) \in Network
    BY <1>1, HostLocals, Networks
  <1>4. /\ \A j \in IP0 : store.records[j][host] = "none"
        /\ \A h \in Host0 : rm.gone[h] = 0
    BY <1>1, NewHost
  <1>5. StoreInv'
    <2>1. ASSUME NEW j \in IP0, NEW h \in Host0, store'.records[j][h] # "none"
          PROVE  /\ h \in Host /\ j \in PoolOf(Home[h])
                 /\ store'.netviews[j] = Home[h].view /\ store'.cidrs[j] = Home[h].cidr
      <3>1. store'.netviews[j] = (IF j = i THEN Home[host].view ELSE store.netviews[j])
            /\ store'.cidrs[j] = (IF j = i THEN Home[host].cidr ELSE store.cidrs[j])
        BY DEF Filing
      <3>2. CASE h = host
        BY <1>2, <1>3, <1>4, <2>1, <3>1, <3>2
      <3>3. CASE h # host
        <4>1. store.records[j][h] # "none"
          BY <1>2, <2>1, <3>3
        <4>2. j = i => Home[h] = Home[host]
          BY <1>3, <4>1, FiledAddress
        <4> QED BY <3>1, <4>1, <4>2, FiledAddress
      <3> QED BY <3>2, <3>3
    <2>2. ASSUME NEW j \in IP0, NEW k \in IP0, NEW h \in Host0,
                 store'.records[j][h] # "none", store'.records[k][h] # "none"
          PROVE  j = k
      <3>1. CASE h = host
        BY <1>2, <1>4, <2>2, <3>1
      <3>2. CASE h # host
        BY <1>2, <2>2, <3>2 DEF StoreInv
      <3> QED BY <3>1, <3>2
    <2>3. pc' # "start"
      OBVIOUS
    <2> QED BY <2>1, <2>2, <2>3 DEF StoreInv
  <1>6. \A h \in Host0 : Filed(h)' <=> Filed(h) \/ h = host
    BY <1>2, <1>4 DEF Filed
  <1>7. LoopInv'
    <2>1. Filed(mk.first)'
      <3>1. Filed(mk.first) => \E j \in IP0 : store'.records[j][mk.first] # "none"
        BY <1>2, <1>3 DEF Filed, Host0
      <3>2. host = mk.first => \E j \in IP0 : store'.records[j][mk.first] # "none"
        BY <1>2
      <3> QED BY <1>1, <3>1, <3>2 DEF Filed
    <2>2. store'.records[i][host] # "none"
      BY <1>2
    <2>3. ~mk'.used => \A h \in Host0 : store'.records[mk.next][h] = "none"
      <3>1. mk.next \in IP0
        BY <1>3 DEF MkType
      <3>2. ~mk.used => \A h \in Host0 : store.records[mk.next][h] = "none"
        BY <1>3 DEF LoopInv
      <3> QED BY <1>2, <3>1, <3>2
    <2> QED BY <1>1, <1>3, <2>1, <2>2, <2>3 DEF LoopInv
  <1>8. DeleteInv'
    BY <1>4 DEF DeleteInv
  <1>9. WantInv'
    <2>1. /\ \A h \in ToCome(mk') : h \in ToCome(mk)
          /\ \A h \in ToCome(mk) : h = host \/ h \in ToCome(mk')
      BY <1>1, <1>3, HostTaken
    <2> QED BY <1>1, <1>6, <2>1, WantKept
  <1>10. /\ FiledAs(type, i, host)'
         /\ \A t \in {"A", "CNAME"}, j \in IP0, h \in Host0 :
               FiledAs(t, j, h)' <=> FiledAs(t, j, h) \/ (t = type /\ j = i /\ h = host)
    BY <1>2, <1>4 DEF FiledAs
  <1> QED BY <1>5, <1>7, <1>8, <1>9, <1>10

\* The first host gets nextAddr: an A record.
LEMMA CreatedA ==
    ASSUME Calm, IInv, CreateA, NEW host, host = Head(mk.hosts)
    PROVE  /\ host = mk.first /\ host \in Host /\ mk.cur = mk.next /\ ~mk.used /\ mk'.used
           /\ mk.next # Empty /\ mk.next \in IP /\ HeldAddr \in fixed
           /\ HeldAddr = FixedOf(mk.next, host)
           /\ \A h \in Host0 : store.records[mk.next][h] = "none"
           /\ aRecs' = aRecs \cup {ARec(mk.next, host)}
           /\ recordRef' = [recordRef EXCEPT ![host] = ARef(mk.next, Home[host].view)]
           /\ UNCHANGED <<cnames, fixed>>
           /\ Filing("A", mk.next, host)
  <1> USE DEF IInv, MirrorInv, SparesInv
  <1>1. pc = "hosts" /\ mk.hosts # <<>> /\ Empty \in GetIP(store, host) /\ host = mk.first
    BY DEF CreateA
  <1>2. /\ mk \in MkType /\ host \in Host /\ mk.first # Empty /\ Home[host] = NetOf(mk.key)
        /\ mk.next # Empty /\ mk.next \in IP /\ mk.key.view \in View
    BY <1>1, HostLocals
  <1>3. \A i \in IP0 : store.records[i][host] = "none"
    BY <1>1, NewHost
  <1>4. mk.cur = mk.next /\ ~mk.used /\ \A h \in Host0 : store.records[mk.next][h] = "none"
    BY <1>1, <1>2, <1>3 DEF LoopInv, Filed
  <1>5. HeldAddr \in fixed /\ HeldAddr = FixedOf(mk.next, host)
    BY <1>2 DEF HeldInv, HeldReserved, HeldAddr, FixedOf, NetOf
  <1>6. PICK created \in BOOLEAN :
           /\ CreateARecord(host, mk.next, mk.key.view, created)
           /\ mk' = [mk EXCEPT !.hosts = Tail(@), !.used = @ \/ created]
           /\ store' = IF created
                       THEN AddRecord(store, mk.cur, host, "A", mk.key.view, mk.key.cidr)
                       ELSE store
    BY DEF CreateA
  <1>7. mk.key.view = Home[host].view /\ mk.key.cidr = Home[host].cidr
    BY <1>2 DEF NetOf
  <1>8. /\ [name |-> host, ip |-> mk.next, view |-> mk.key.view] \notin aRecs
        /\ CNAMEsOf(host, mk.key.view) = {}
    BY <1>1, NewHost DEF CNAMEsOf
  <1>9. /\ created
        /\ aRecs' = aRecs \cup {[name |-> host, ip |-> mk.next, view |-> mk.key.view]}
        /\ recordRef' = [recordRef EXCEPT ![host] = ARef(mk.next, mk.key.view)]
        /\ UNCHANGED <<cnames, fixed>>
    BY <1>2, <1>6, <1>8, CreateARecordDone DEF Calm
  <1>10. /\ mk'.keys = mk.keys /\ mk'.key = mk.key /\ mk'.specs = mk.specs
         /\ mk'.hosts = Tail(mk.hosts) /\ mk'.first = mk.first /\ mk'.next = mk.next
         /\ mk'.cur = mk.cur /\ mk'.used
    BY <1>2, <1>6, <1>9 DEF MkType
  <1>11. Filing("A", mk.next, host)
    <2>1. /\ store \in Stores /\ mk.next \in IP0 /\ host \in Host0
          /\ mk.key.view \in View0 /\ mk.key.cidr \in Cidr0
      BY <1>1, <1>2, HostLocals DEF TypeOK, CtlrTypeOK, IP0, Host0, View0, Cidr0
    <2>2. store' = AddRecord(store, mk.next, host, "A", mk.key.view, mk.key.cidr)
      BY <1>4, <1>6, <1>9
    <2>3. \A i \in IP0 :
             /\ \A h \in Host0 : store'.records[i][h] =
                   IF i = mk.next /\ h = host THEN "A" ELSE store.records[i][h]
             /\ store'.netviews[i] = IF i = mk.next THEN mk.key.view ELSE store.netviews[i]
             /\ store'.cidrs[i] = IF i = mk.next THEN mk.key.cidr ELSE store.cidrs[i]
      BY <1>3, <2>1, <2>2, AddRecordEffect DEF RecordType
    <2> QED BY <1>4, <1>7, <1>10, <2>3 DEF Filing
  <1> QED BY <1>1, <1>2, <1>4, <1>5, <1>7, <1>9, <1>10, <1>11 DEF ARec

LEMMA CreateAMirrors ==
    ASSUME Calm, IInv, CreateA
    PROVE  MirrorInv'
  <1> USE DEF IInv, MirrorInv, SparesInv
  <1>1. /\ pc = "hosts" /\ pc' = pc /\ mk.hosts # <<>> /\ UNCHANGED <<groups, rm>>
    BY DEF CreateA
  <1>2. PICK i \in IP0, host \in Host0 : i = mk.next /\ host = Head(mk.hosts)
    BY <1>1, HostLocals DEF IP0
  <1>3. /\ host = mk.first /\ host \in Host /\ mk.cur = i /\ ~mk.used /\ mk'.used
        /\ i # Empty /\ i \in IP /\ HeldAddr \in fixed /\ HeldAddr = FixedOf(i, host)
        /\ \A h \in Host0 : store.records[i][h] = "none"
        /\ aRecs' = aRecs \cup {ARec(i, host)}
        /\ recordRef' = [recordRef EXCEPT ![host] = ARef(i, Home[host].view)]
        /\ UNCHANGED <<cnames, fixed>> /\ Filing("A", i, host)
    BY <1>2, CreatedA
  <1>4. Empty \in GetIP(store, host)
    BY <1>2 DEF CreateA
  <1>5. /\ StoreInv' /\ LoopInv' /\ DeleteInv' /\ WantInv'
        /\ \A t \in {"A", "CNAME"}, j \in IP0, h \in Host0 :
              FiledAs(t, j, h)' <=> FiledAs(t, j, h) \/ (t = "A" /\ j = i /\ h = host)
    BY <1>1, <1>3, <1>4, FilingMirrors
  <1>6. \A j \in IP0, h \in Host0 :
           /\ FiledAs("A", j, h)' <=> FiledAs("A", j, h) \/ (j = i /\ h = host)
           /\ FiledAs("CNAME", j, h)' <=> FiledAs("CNAME", j, h)
    BY <1>5
  <1>7. /\ \A t \in {"A", "CNAME"}, j \in IP0 : ~FiledAs(t, j, host)
        /\ \A h \in Host0 : ~FiledAs("A", i, h)
    BY <1>1, <1>2, <1>3, <1>4, NewHost DEF FiledAs
  <1>8. /\ \A r \in aRecs : r.name \in Host0 /\ r.ip \in IP0
        /\ \A c \in cnames : c.name \in Host0
        /\ \A f \in fixed : f.ip \in IP0
        /\ recordRef \in [Host0 -> Refs]
    BY DEF TypeOK, IpamTypeOK, ARecord, CNAMERecord, FixedAddr, Host0, IP0
  <1>9. RecordInv'
    <2>1. \A r \in aRecs' : FiledAs("A", r.ip, r.name)' /\ r.view = Home[r.name].view
      <3>1. ASSUME NEW r, r = ARec(i, host)
            PROVE  FiledAs("A", r.ip, r.name)' /\ r.view = Home[r.name].view
        <4>1. r.ip = i /\ r.name = host /\ r.view = Home[host].view
          BY <3>1 DEF ARec
        <4> QED BY <1>6, <4>1
      <3> QED BY <1>3, <1>6, <1>8, <3>1 DEF RecordInv
    <2>2. \A c \in cnames' : (\E j \in IP0 : FiledAs("CNAME", j, c.name)') /\ c.view = Home[c.name].view
      BY <1>3, <1>6, <1>8 DEF RecordInv
    <2>3. ASSUME NEW j \in IP0, NEW h \in Host0, FiledAs("A", j, h)'
          PROVE  ARec(j, h) \in aRecs' /\ recordRef'[h] = ARef(j, Home[h].view)
      <3>1. CASE h = host
        BY <1>3, <1>6, <1>7, <1>8, <2>3, <3>1
      <3>2. CASE h # host
        BY <1>3, <1>6, <1>8, <2>3, <3>2 DEF RecordInv
      <3> QED BY <3>1, <3>2
    <2>4. ASSUME NEW j \in IP0, NEW h \in Host0, FiledAs("CNAME", j, h)'
          PROVE  /\ \E c \in cnames' : c.name = h
                 /\ recordRef'[h] = CNAMERef(Home[h].view)
                 /\ \E a \in Host0 : FiledAs("A", j, a)'
      <3>1. FiledAs("CNAME", j, h) /\ h # host
        BY <1>6, <1>7, <2>4
      <3> QED BY <1>3, <1>6, <1>8, <3>1 DEF RecordInv
    <2>5. \A j \in IP0, h, a \in Host0 : FiledAs("A", j, h)' /\ FiledAs("A", j, a)' => h = a
      BY <1>6, <1>7 DEF RecordInv
    <2> QED BY <2>1, <2>2, <2>3, <2>4, <2>5 DEF RecordInv
  <1>10. FixedInv'
    <2>1. ASSUME NEW f \in fixed'
          PROVE  \E h \in Host : FiledAs("A", f.ip, h)' /\ f = FixedOf(f.ip, h)
      <3>1. CASE f = HeldAddr
        <4>1. f.ip = i /\ f = FixedOf(i, host)
          BY <1>3, <3>1 DEF FixedOf
        <4> QED BY <1>3, <1>6, <4>1
      <3>2. CASE f # HeldAddr
        <4>1. PICK h \in Host : FiledAs("A", f.ip, h) /\ f = FixedOf(f.ip, h)
          BY <1>3, <3>2 DEF FixedInv
        <4> QED BY <1>3, <1>6, <1>8, <4>1 DEF Host0
      <3> QED BY <3>1, <3>2
    <2>2. \A j \in IP0, h \in Host0 : FiledAs("A", j, h)' => FixedOf(j, h) \in fixed'
      BY <1>3, <1>6 DEF FixedInv
    <2> QED BY <2>1, <2>2 DEF FixedInv
  <1> QED BY <1>5, <1>9, <1>10

\* Another host gets the address of firstHost: a CNAME.
LEMMA CreatedCNAME ==
    ASSUME Calm, IInv, CreateCNAME, NEW host, host = Head(mk.hosts)
    PROVE  /\ host \in Host /\ host # mk.first /\ Filed(mk.first)
           /\ \E h \in Host0 : store.records[mk.cur][h] # "none"
           /\ cnames' = cnames \cup {[name |-> host, canonical |-> mk.first, view |-> Home[host].view]}
           /\ recordRef' = [recordRef EXCEPT ![host] = CNAMERef(Home[host].view)]
           /\ UNCHANGED <<aRecs, fixed>>
           /\ mk'.used = mk.used /\ Filing("CNAME", mk.cur, host)
  <1> USE DEF IInv, MirrorInv, SparesInv
  <1>1. pc = "hosts" /\ mk.hosts # <<>> /\ Empty \in GetIP(store, host) /\ host # mk.first
    BY DEF CreateCNAME
  <1>2. /\ mk \in MkType /\ host \in Host /\ mk.first # Empty /\ Home[host] = NetOf(mk.key)
    BY <1>1, HostLocals
  <1>3. \A i \in IP0 : store.records[i][host] = "none"
    BY <1>1, NewHost
  <1>4. Filed(mk.first) /\ \E h \in Host0 : store.records[mk.cur][h] # "none"
    BY <1>1, <1>2 DEF LoopInv
  <1>5. /\ CreateCNAMERecord(host, mk.first, mk.key.view)
        /\ mk' = [mk EXCEPT !.hosts = Tail(@)]
        /\ store' = AddRecord(store, mk.cur, host, "CNAME", mk.key.view, mk.key.cidr)
    BY DEF CreateCNAME
  <1>6. mk.key.view = Home[host].view /\ mk.key.cidr = Home[host].cidr
    BY <1>2 DEF NetOf
  <1>7. CNAMEsOf(host, mk.key.view) = {} /\ AsOf(host, mk.key.view) = {}
    BY <1>1, NewHost DEF CNAMEsOf, AsOf
  <1>8. /\ cnames' = cnames \cup {[name |-> host, canonical |-> mk.first, view |-> mk.key.view]}
        /\ recordRef' = [recordRef EXCEPT ![host] = CNAMERef(mk.key.view)]
        /\ UNCHANGED <<aRecs, fixed>>
    BY <1>5, <1>7, CreateCNAMERecordDone DEF Calm
  <1>9. /\ mk'.keys = mk.keys /\ mk'.key = mk.key /\ mk'.specs = mk.specs
        /\ mk'.hosts = Tail(mk.hosts) /\ mk'.first = mk.first /\ mk'.next = mk.next
        /\ mk'.cur = mk.cur /\ mk'.used = mk.used
    BY <1>2, <1>5 DEF MkType
  <1>10. Filing("CNAME", mk.cur, host)
    <2>1. /\ store \in Stores /\ mk.cur \in IP0 /\ host \in Host0
          /\ mk.key.view \in View0 /\ mk.key.cidr \in Cidr0
      BY <1>1, <1>2, HostLocals DEF TypeOK, CtlrTypeOK, IP0, Host0, View0, Cidr0
    <2>2. \A i \in IP0 :
             /\ \A h \in Host0 : store'.records[i][h] =
                   IF i = mk.cur /\ h = host THEN "CNAME" ELSE store.records[i][h]
             /\ store'.netviews[i] = IF i = mk.cur THEN mk.key.view ELSE store.netviews[i]
             /\ store'.cidrs[i] = IF i = mk.cur THEN mk.key.cidr ELSE store.cidrs[i]
      BY <1>3, <1>5, <2>1, AddRecordEffect DEF RecordType
    <2> QED BY <1>6, <1>9, <2>2 DEF Filing
  <1> QED BY <1>1, <1>2, <1>4, <1>6, <1>8, <1>9, <1>10

LEMMA CreateCNAMEMirrors ==
    ASSUME Calm, IInv, CreateCNAME
    PROVE  MirrorInv'
  <1> USE DEF IInv, MirrorInv, SparesInv
  <1>1. /\ pc = "hosts" /\ pc' = pc /\ mk.hosts # <<>> /\ UNCHANGED <<groups, rm>>
    BY DEF CreateCNAME
  <1>2. PICK i \in IP0, host \in Host0 : i = mk.cur /\ host = Head(mk.hosts)
    BY <1>1, HostLocals DEF IP0
  <1>3. /\ host \in Host /\ host # mk.first /\ Filed(mk.first)
        /\ \E h \in Host0 : store.records[i][h] # "none"
        /\ cnames' = cnames \cup {[name |-> host, canonical |-> mk.first, view |-> Home[host].view]}
        /\ recordRef' = [recordRef EXCEPT ![host] = CNAMERef(Home[host].view)]
        /\ UNCHANGED <<aRecs, fixed>>
        /\ mk'.used = mk.used /\ Filing("CNAME", i, host)
    BY <1>2, CreatedCNAME
  <1>4. Empty \in GetIP(store, host)
    BY <1>2 DEF CreateCNAME
  <1>5. mk'.used \/ (i # mk.next /\ ~mk.used)
    <2>1. mk.next # Empty
      BY <1>1, HostLocals
    <2> QED BY <1>3, <2>1 DEF LoopInv
  <1>6. /\ StoreInv' /\ LoopInv' /\ DeleteInv' /\ WantInv'
        /\ \A t \in {"A", "CNAME"}, j \in IP0, h \in Host0 :
              FiledAs(t, j, h)' <=> FiledAs(t, j, h) \/ (t = "CNAME" /\ j = i /\ h = host)
    BY <1>1, <1>3, <1>4, <1>5, FilingMirrors
  <1>7. \A j \in IP0, h \in Host0 :
           /\ FiledAs("A", j, h)' <=> FiledAs("A", j, h)
           /\ FiledAs("CNAME", j, h)' <=> FiledAs("CNAME", j, h) \/ (j = i /\ h = host)
    BY <1>6
  <1>8. \A t \in {"A", "CNAME"}, j \in IP0 : ~FiledAs(t, j, host)
    BY <1>1, <1>2, <1>4, NewHost DEF FiledAs
  <1>9. /\ \A r \in aRecs : r.name \in Host0 /\ r.ip \in IP0
        /\ \A c \in cnames : c.name \in Host0
        /\ recordRef \in [Host0 -> Refs]
    BY DEF TypeOK, IpamTypeOK, ARecord, CNAMERecord, Host0, IP0
  <1>10. \E a \in Host0 : FiledAs("A", i, a)
    <2>1. PICK h \in Host0 : store.records[i][h] # "none"
      BY <1>3
    <2>2. rm.gone[h] = 0
      BY <1>1 DEF DeleteInv
    <2> QED BY <2>1, <2>2, FiledKinds DEF RecordInv
  <1>11. RecordInv'
    <2>1. \A r \in aRecs' : FiledAs("A", r.ip, r.name)' /\ r.view = Home[r.name].view
      BY <1>3, <1>7, <1>9 DEF RecordInv
    <2>2. \A c \in cnames' : (\E j \in IP0 : FiledAs("CNAME", j, c.name)') /\ c.view = Home[c.name].view
      <3>1. ASSUME NEW c \in cnames
            PROVE  (\E j \in IP0 : FiledAs("CNAME", j, c.name)') /\ c.view = Home[c.name].view
        BY <1>7, <1>9 DEF RecordInv
      <3>2. ASSUME NEW c, c.name = host, c.view = Home[host].view
            PROVE  (\E j \in IP0 : FiledAs("CNAME", j, c.name)') /\ c.view = Home[c.name].view
        BY <1>7, <3>2
      <3> QED BY <1>3, <3>1, <3>2
    <2>3. ASSUME NEW j \in IP0, NEW h \in Host0, FiledAs("A", j, h)'
          PROVE  ARec(j, h) \in aRecs' /\ recordRef'[h] = ARef(j, Home[h].view)
      <3>1. FiledAs("A", j, h) /\ h # host
        BY <1>7, <1>8, <2>3
      <3> QED BY <1>3, <1>9, <3>1 DEF RecordInv
    <2>4. ASSUME NEW j \in IP0, NEW h \in Host0, FiledAs("CNAME", j, h)'
          PROVE  /\ \E c \in cnames' : c.name = h
                 /\ recordRef'[h] = CNAMERef(Home[h].view)
                 /\ \E a \in Host0 : FiledAs("A", j, a)'
      <3>1. CASE h = host
        <4>1. j = i
          BY <1>7, <1>8, <2>4, <3>1
        <4>2. \E c \in cnames' : c.name = host
          <5> DEFINE c == [name |-> host, canonical |-> mk.first, view |-> Home[host].view]
          <5>1. c \in cnames' /\ c.name = host
            BY <1>3
          <5> QED BY <5>1
        <4>3. recordRef'[host] = CNAMERef(Home[host].view)
          BY <1>3, <1>9
        <4>4. \E a \in Host0 : FiledAs("A", i, a)'
          BY <1>7, <1>10
        <4> QED BY <3>1, <4>1, <4>2, <4>3, <4>4
      <3>2. CASE h # host
        <4>1. FiledAs("CNAME", j, h)
          BY <1>7, <2>4, <3>2
        <4> QED BY <1>3, <1>7, <1>9, <3>2, <4>1 DEF RecordInv
      <3> QED BY <3>1, <3>2
    <2>5. \A j \in IP0, h, a \in Host0 : FiledAs("A", j, h)' /\ FiledAs("A", j, a)' => h = a
      BY <1>7 DEF RecordInv
    <2> QED BY <2>1, <2>2, <2>3, <2>4, <2>5 DEF RecordInv
  <1>12. FixedInv'
    BY <1>3, <1>7, SameFixed DEF Filing
  <1> QED BY <1>6, <1>11, <1>12

(***************************************************************************)
(* The ends of the create loops.                                           *)
(***************************************************************************)
\* An address that no host has got is given back.
LEMMA Releasing ==
    ASSUME Calm, IInv, mk.next # Empty, ReleaseUnused(mk.key, mk.next, mk.used),
           UNCHANGED <<store, rm>>, pc' # "start", mk'.next = Empty
    PROVE  /\ fixed' = IF mk.used THEN fixed ELSE fixed \ {HeldAddr}
           /\ UNCHANGED <<aRecs, cnames, recordRef>>
           /\ StoreInv' /\ RecordInv' /\ FixedInv'
  <1> USE DEF IInv, MirrorInv, SparesInv
  <1>1. mk.key \in GroupKey
    BY DEF LoopInv, TypeOK, CtlrTypeOK
  <1>2. /\ mk.key.view \in View /\ mk.key.cidr \in Cidr
        /\ mk.next \in IP /\ HeldAddr \in fixed
    BY <1>1, KeyTypes, Networks DEF LoopInv, HeldInv, HeldReserved, HeldAddr
  <1>3. /\ fixed' = IF mk.used THEN fixed ELSE fixed \ {HeldAddr}
        /\ UNCHANGED <<aRecs, cnames, recordRef>>
    <2>1. CASE mk.used
      BY <2>1 DEF ReleaseUnused, ipam
    <2>2. CASE ~mk.used
      <3>1. ReleaseAddr(mk.key.view, mk.key.cidr, mk.next)
        BY <2>2 DEF ReleaseUnused
      <3> QED BY <1>2, <2>2, <3>1, ReleaseAddrDone DEF Calm, TypeOK, HeldAddr
    <2> QED BY <2>1, <2>2
  <1>4. \A i \in IP0, h \in Host0 : /\ FiledAs("A", i, h)' <=> FiledAs("A", i, h)
                                    /\ FiledAs("CNAME", i, h)' <=> FiledAs("CNAME", i, h)
    BY DEF FiledAs
  <1>5. StoreInv' /\ RecordInv'
    BY <1>3, <1>4, SameRecords DEF StoreInv
  <1>6. FixedInv'
    <2>1. \A f \in fixed : f.ip \in IP0
      BY DEF TypeOK, IpamTypeOK, FixedAddr, IP0
    <2>2. ASSUME NEW f \in fixed'
          PROVE  \E h \in Host : FiledAs("A", f.ip, h)' /\ f = FixedOf(f.ip, h)
      BY <1>3, <1>4, <2>1, <2>2 DEF FixedInv, Host0
    <2>3. ASSUME NEW i \in IP0, NEW h \in Host0, FiledAs("A", i, h) PROVE FixedOf(i, h) \in fixed'
      <3>1. ~mk.used => i # mk.next
        BY <2>3 DEF LoopInv, FiledAs
      <3>2. ~mk.used => FixedOf(i, h) # HeldAddr
        BY <3>1 DEF FixedOf, HeldAddr
      <3>3. FixedOf(i, h) \in fixed
        BY <2>3 DEF FixedInv
      <3> QED BY <1>3, <3>2, <3>3
    <2> QED BY <1>4, <2>2, <2>3 DEF FixedInv
  <1> QED BY <1>3, <1>5, <1>6

LEMMA EndSpecMirrors ==
    ASSUME Calm, IInv, EndSpec
    PROVE  MirrorInv'
  <1> USE DEF IInv, MirrorInv, SparesInv
  <1>1. /\ pc = "hosts" /\ pc' = "specs" /\ mk.hosts = <<>> /\ UNCHANGED <<store, groups, rm>>
        /\ mk \in MkType /\ mk.next # Empty
    BY DEF EndSpec, TypeOK, CtlrTypeOK, LoopInv
  <1>2. /\ mk'.keys = mk.keys /\ mk'.key = mk.key /\ mk'.specs = mk.specs /\ mk'.hosts = mk.hosts
    BY <1>1 DEF EndSpec, MkType
  <1>3. StoreInv' /\ RecordInv' /\ FixedInv' /\ LoopInv'
    <2>1. CASE Unique(mk.key)
      <3>1. /\ ReleaseUnused(mk.key, mk.next, mk.used)
            /\ mk'.first = Empty /\ mk'.next = Empty /\ mk'.cur = Empty /\ mk'.used = FALSE
        BY <1>1, <2>1 DEF EndSpec, MkType
      <3>2. LoopInv'
        BY <1>1, <1>2, <2>1, <3>1 DEF LoopInv
      <3> QED BY <1>1, <3>1, <3>2, Releasing
    <2>2. CASE ~Unique(mk.key)
      <3>1. UNCHANGED <<mk, ipam>>
        BY <2>2 DEF EndSpec
      <3>2. LoopInv'
        BY <1>1, <2>2, <3>1 DEF LoopInv, Filed
      <3> QED BY <1>1, <3>1, <3>2, Quiet
    <2> QED BY <2>1, <2>2
  <1>4. DeleteInv'
    BY <1>1 DEF DeleteInv, Filed
  <1>5. WantInv'
    <2>1. \A h : h \in ToCome(mk') <=> h \in ToCome(mk)
      BY <1>2, ToComeIn
    <2>2. \A h \in Host0 : Filed(h)' <=> Filed(h)
      BY <1>1 DEF Filed
    <2> QED BY <1>1, <1>2, <2>1, <2>2, WantKept
  <1> QED BY <1>3, <1>4, <1>5

LEMMA EndGroupMirrors ==
    ASSUME Calm, IInv, EndGroup
    PROVE  MirrorInv'
  <1> USE DEF IInv, MirrorInv, SparesInv
  <1>1. /\ pc = "specs" /\ pc' = "groups" /\ mk.specs = <<>> /\ UNCHANGED <<store, groups, rm>>
        /\ mk \in MkType /\ mk.hosts = <<>> /\ mk' = [MkIdle EXCEPT !.keys = mk.keys]
    BY DEF EndGroup, TypeOK, CtlrTypeOK
  <1>2. mk'.keys = mk.keys /\ Idle(mk')
    BY <1>1 DEF MkIdle, Idle
  <1>3. StoreInv' /\ RecordInv' /\ FixedInv'
    <2>1. CASE Unique(mk.key)
      <3>1. UNCHANGED ipam /\ mk.next = Empty
        BY <1>1, <2>1 DEF EndGroup, LoopInv
      <3> QED BY <1>1, <3>1, Quiet
    <2>2. CASE ~Unique(mk.key)
      <3>1. ReleaseUnused(mk.key, mk.next, mk.used) /\ mk.next # Empty
        BY <1>1, <2>2 DEF EndGroup, LoopInv
      <3> QED BY <1>1, <1>2, <3>1, Releasing DEF Idle
    <2> QED BY <2>1, <2>2
  <1>4. LoopInv'
    BY <1>1, <1>2, IdleLoops DEF Idle
  <1>5. DeleteInv'
    BY <1>1 DEF DeleteInv, Filed
  <1>6. WantInv'
    <2>1. \A h : h \notin ToCome(mk)
      BY <1>1, ToComeIn DEF Range
    <2>2. \A h : Filed(h)' <=> Filed(h)
      BY <1>1 DEF Filed
    <2>3. \A k \in GroupKey \ mk.keys : \A i \in DOMAIN groups[k] :
             \A h \in Range(groups[k][i]) : Filed(h)
      BY <1>1, <2>1 DEF WantInv
    <2> QED BY <1>1, <1>2, <2>2, <2>3 DEF WantInv
  <1> QED BY <1>3, <1>4, <1>5, <1>6

(***************************************************************************)
(* The invariant, and the theorems that follow from it.                    *)
(***************************************************************************)
\* The inductive invariant.
LEMMA MirrorInvariant == ASSUME Calm PROVE Spec => []IInv
  <1>1. HeldInv /\ SparesInv /\ MirrorInv /\ [Next]_vars => MirrorInv'
    <2> SUFFICES ASSUME IInv, [Next]_vars PROVE MirrorInv'
      BY DEF IInv
    <2>1. CASE Work
      BY <2>1, StartMirrors, BeginSpecMirrors, KnownHostMirrors, CreateAMirrors,
         CreateCNAMEMirrors, EndSpecMirrors, EndGroupMirrors, BeginDeleteMirrors,
         EndDeleteMirrors, EndPurgeMirrors, WriteMirrors, BeginSharedMirrors,
         BeginUniqueMirrors, DeleteAtIPMirrors, PromoteMirrors, DeleteLastAMirrors,
         DeleteCNAMEMirrors, PurgeMirrors DEF Work
    <2>2. CASE \E g \in GroupConfigs : Receive(g)
      BY <2>2, ReceiveMirrors
    <2>3. ~VerifyTick /\ ~Restart /\ ~ExternalDelete
      BY FaultNone DEF Calm, VerifyTick, Restart, ExternalDelete
    <2>4. CASE UNCHANGED vars
      <3>1. UNCHANGED <<pc, store, groups, mk, rm, ipam>>
        BY <2>4 DEF vars
      <3>2. StoreInv' /\ RecordInv' /\ FixedInv'
        BY <3>1 DEF IInv, MirrorInv, StoreInv, RecordInv, FixedInv, FiledAs, HeldAddr, ipam
      <3>3. LoopInv'
        BY <3>1 DEF IInv, MirrorInv, LoopInv, Filed
      <3>4. DeleteInv'
        BY <3>1 DEF IInv, MirrorInv, DeleteInv, Filed, HostsOf
      <3>5. WantInv'
        BY <3>1 DEF IInv, MirrorInv, WantInv, Filed, HostsIn, ToCome
      <3> QED BY <3>2, <3>3, <3>4, <3>5 DEF MirrorInv
    <2> QED BY <2>1, <2>2, <2>3, <2>4 DEF Next
  <1> QED BY InitMirror, <1>1, HeldInvariant, SparesInvariant, PTL DEF Spec, IInv

\* An A record's address is a fixed address of its own network, so that nobody is
\* given the address while the name is there (infoblox.go:111,145,264,280).
THEOREM AddressesStayReserved == ASSUME Calm PROVE Spec => []AddrReserved
  <1>1. IInv => AddrReserved
    <2> SUFFICES ASSUME IInv, NEW r \in aRecs PROVE AddrOf(r) \in Reserved
      BY DEF AddrReserved, Bound
    <2>1. r.name \in Host0 /\ r.ip \in IP0
      BY DEF IInv, SparesInv, TypeOK, IpamTypeOK, ARecord, Host0, IP0
    <2>2. FixedOf(r.ip, r.name) \in fixed /\ r.view = Home[r.name].view
      BY <2>1 DEF IInv, MirrorInv, RecordInv, FixedInv
    <2>3. AddrOf(FixedOf(r.ip, r.name)) = AddrOf(r)
      BY <2>2 DEF AddrOf, FixedOf
    <2> QED BY <2>2, <2>3 DEF Reserved
  <1> QED BY <1>1, MirrorInvariant, PTL

\* A pass leaves no address reserved without a name (controller.go:176-184 for the
\* create loops, infoblox.go:145-175 for the delete loop).
THEOREM NothingLeaks == ASSUME Calm PROVE Spec => []NoLeak
  <1>1. IInv => NoLeak
    <2> SUFFICES ASSUME IInv, pc = "select", NEW f \in fixed PROVE AddrOf(f) \in Bound
      BY DEF NoLeak, Reserved
    <2>1. mk.next = Empty
      BY LoopsIdle DEF IInv, MirrorInv, Idle
    <2>2. PICK h \in Host : FiledAs("A", f.ip, h) /\ f = FixedOf(f.ip, h)
      BY <2>1 DEF IInv, MirrorInv, FixedInv
    <2>3. f.ip \in IP0 /\ h \in Host0
      BY DEF IInv, SparesInv, TypeOK, IpamTypeOK, FixedAddr, IP0, Host0
    <2>4. ARec(f.ip, h) \in aRecs
      BY <2>2, <2>3 DEF IInv, MirrorInv, RecordInv
    <2>5. AddrOf(ARec(f.ip, h)) = AddrOf(f)
      BY <2>2 DEF AddrOf, ARec, FixedOf
    <2> QED BY <2>4, <2>5 DEF Bound
  <1> QED BY <1>1, MirrorInvariant, PTL

\* Between two passes the store (store.go) and the IPAM system say the same of every
\* host: which record it has, and at which one address.
THEOREM StoreIsMirror == ASSUME Calm PROVE Spec => []StoreMirrorsIPAM
  <1>1. IInv => StoreMirrorsIPAM
    <2> SUFFICES ASSUME IInv, pc = "select", NEW h \in Host
                 PROVE  /\ \A i \in IP : store.records[i][h] = "A" <=>
                                            \E r \in aRecs : r.name = h /\ r.ip = i
                        /\ (\E i \in IP : store.records[i][h] = "CNAME") <=>
                              \E c \in cnames : c.name = h
                        /\ Cardinality(IPsOf(store, h)) <= 1
      BY DEF StoreMirrorsIPAM
    <2> USE DEF IInv, MirrorInv, SparesInv
    <2>1. h \in Host0 /\ IP \subseteq IP0
      BY DEF Host0, IP0
    <2>2. /\ \A i \in IP0 : store.records[i][h] = "A" <=> FiledAs("A", i, h)
          /\ \A i \in IP0 : store.records[i][h] = "CNAME" <=> FiledAs("CNAME", i, h)
      BY <2>1 DEF DeleteInv, FiledAs
    <2>3. \A r \in aRecs : r.name \in Host0 /\ r.ip \in IP0
      BY DEF TypeOK, IpamTypeOK, ARecord, Host0, IP0
    <2>4. ASSUME NEW i \in IP
          PROVE  store.records[i][h] = "A" <=> \E r \in aRecs : r.name = h /\ r.ip = i
      <3>1. ASSUME store.records[i][h] = "A" PROVE \E r \in aRecs : r.name = h /\ r.ip = i
        <4>1. ARec(i, h) \in aRecs
          BY <2>1, <2>2, <3>1 DEF RecordInv
        <4>2. ARec(i, h).name = h /\ ARec(i, h).ip = i
          BY DEF ARec
        <4> QED BY <4>1, <4>2
      <3>2. ASSUME NEW r \in aRecs, r.name = h, r.ip = i PROVE store.records[i][h] = "A"
        BY <2>1, <2>2, <2>3, <3>2 DEF RecordInv
      <3> QED BY <3>1, <3>2
    <2>5. (\E i \in IP : store.records[i][h] = "CNAME") <=> \E c \in cnames : c.name = h
      <3>1. ASSUME NEW i \in IP, store.records[i][h] = "CNAME" PROVE \E c \in cnames : c.name = h
        BY <2>1, <2>2, <3>1 DEF RecordInv
      <3>2. ASSUME NEW c \in cnames, c.name = h PROVE \E i \in IP : store.records[i][h] = "CNAME"
        <4>1. PICK i \in IP0 : FiledAs("CNAME", i, h)
          BY <3>2 DEF RecordInv
        <4>2. store.records[i][h] = "CNAME"
          BY <2>2, <4>1
        <4>3. i \in IP
          BY <2>1, <4>2, FiledAddress
        <4> QED BY <4>2, <4>3
      <3> QED BY <3>1, <3>2
    <2>6. Cardinality(IPsOf(store, h)) <= 1
      <3>1. \A i, j \in IPsOf(store, h) : i = j
        BY <2>1 DEF StoreInv, IPsOf
      <3>2. CASE IPsOf(store, h) = {}
        BY <3>2, FS_EmptySet
      <3>3. ASSUME NEW i \in IPsOf(store, h) PROVE Cardinality(IPsOf(store, h)) <= 1
        <4>1. IPsOf(store, h) = {i}
          BY <3>1, <3>3
        <4>2. Cardinality({i}) = 1
          BY FS_Singleton
        <4> QED BY <4>1, <4>2
      <3> QED BY <3>2, <3>3
    <2> QED BY <2>4, <2>5, <2>6
  <1> QED BY <1>1, MirrorInvariant, PTL

\* The store has the CIDR of every address it holds (store.go:46), the one that the
\* server answers with when a record is deleted (infoblox.go:155,204).
THEOREM NetworksKnown == ASSUME Calm PROVE Spec => []StoreKnowsNetwork
  <1>1. IInv => StoreKnowsNetwork
    <2> SUFFICES ASSUME IInv, NEW i \in IP, NEW h \in HostsOf(store, i)
                 PROVE  store.cidrs[i] = getNetworkCIDR(store.netviews[i], i)
      BY DEF StoreKnowsNetwork
    <2> QED BY FiledAddress DEF IInv, MirrorInv, HostsOf, IP0
  <1> QED BY <1>1, MirrorInvariant, PTL

\* The end of a spec or group takes nothing but the address reserved for it
\* (controller.go:176-184).
THEOREM ReleasesOnlyOwn == ASSUME Calm PROVE Spec => ReleasesOwn
  <1> DEFINE A == pc' \in {"specs", "groups"} /\ pc \in {"hosts", "specs"}
                     => {AddrOf(f) : f \in fixed \ fixed'} \subseteq Held
  <1>1. IInv /\ [Next]_vars => [A]_vars
    <2> SUFFICES ASSUME IInv, Next, pc' \in {"specs", "groups"}, pc \in {"hosts", "specs"},
                        NEW f \in fixed \ fixed'
                 PROVE  AddrOf(f) \in Held
      OBVIOUS
    <2>1. EndSpec \/ EndGroup
      BY DEF Next, Work, Start, BeginSpec, KnownHost, CreateA, CreateCNAME, BeginDelete,
             EndDelete, EndPurge, WriteIPHosts, BeginSharedGroup, BeginUniqueGroup,
             DeleteAtIP, PromoteAndDelete, DeleteLastA, DeleteCNAME, Purge, Receive,
             VerifyTick, Restart, ExternalDelete, ctlr
    <2>2. /\ ReleaseUnused(mk.key, mk.next, mk.used) /\ mk.next # Empty /\ mk'.next = Empty
          /\ UNCHANGED <<store, rm>>
      <3>1. f \notin fixed'
        OBVIOUS
      <3>2. CASE EndSpec
        <4>1. Unique(mk.key)
          BY <3>1, <3>2 DEF EndSpec, ipam
        <4>2. mk \in MkType /\ mk.next # Empty
          BY <3>2 DEF EndSpec, IInv, MirrorInv, LoopInv, SparesInv, TypeOK, CtlrTypeOK
        <4> QED BY <3>2, <4>1, <4>2 DEF EndSpec, MkType
      <3>3. CASE EndGroup
        <4>1. ~Unique(mk.key)
          BY <3>1, <3>3 DEF EndGroup, ipam
        <4>2. mk.next # Empty
          BY <3>3, <4>1 DEF EndGroup, IInv, MirrorInv, LoopInv
        <4> QED BY <3>3, <4>1, <4>2 DEF EndGroup, MkIdle
      <3> QED BY <2>1, <3>2, <3>3
    <2>3. fixed' = IF mk.used THEN fixed ELSE fixed \ {HeldAddr}
      BY <2>2, Releasing
    <2>4. ~mk.used /\ f = HeldAddr
      BY <2>3
    <2> QED BY <2>2, <2>4 DEF Held, AddrOf, HeldAddr
  <1> QED BY <1>1, MirrorInvariant, PTL DEF Spec, ReleasesOwn

\* The address has the A record of another host.
LEMMA PromotedBound ==
    ASSUME NEW host, NEW newA, PromotedTo(host, newA)
    PROVE  fixed' = fixed /\ Bound' = Bound
  <1>1. /\ fixed' = fixed /\ ARec(rm.ip, host) \in aRecs /\ Home[newA] = Home[host]
        /\ aRecs' = (aRecs \ {ARec(rm.ip, host)}) \cup {ARec(rm.ip, newA)}
    BY DEF PromotedTo
  <1>2. AddrOf(ARec(rm.ip, newA)) = AddrOf(ARec(rm.ip, host))
    BY <1>1 DEF AddrOf, ARec
  <1>3. Bound' = {AddrOf(r) : r \in aRecs'}
    BY DEF Bound, AddrOf
  <1> QED BY <1>1, <1>2, <1>3 DEF Bound

\* The hosts that stay at an address keep it when the host with the A record goes:
\* one of them gets the A record (controller.go:199-207, infoblox.go:210).
THEOREM PromotionsKeepAddress == ASSUME Calm PROVE Spec => PromotionKeepsAddress
  <1> DEFINE A == \A h \in Host : pc = "delete" /\ pc' = "delete"
                     /\ h \in rm.left /\ h \notin rm'.left
                     /\ store.records[rm.ip][h] = "A"
                     /\ rm'.avail \cap HostsIn(groups) # {}
                     => fixed' = fixed /\ Bound' = Bound
  <1>1. IInv /\ [Next]_vars => [A]_vars
    <2> SUFFICES ASSUME IInv, Next, NEW h \in Host, pc = "delete", pc' = "delete",
                        h \in rm.left, h \notin rm'.left, store.records[rm.ip][h] = "A",
                        rm'.avail # {}
                 PROVE  fixed' = fixed /\ Bound' = Bound
      OBVIOUS
    <2>1. rm \in RmType /\ h \in Host0
      BY DEF IInv, SparesInv, TypeOK, CtlrTypeOK, Host0
    <2>2. \E host \in Host0 : PromoteAndDelete(host) \/ DeleteLastA(host) \/ DeleteCNAME(host)
      BY DEF Next, Work, Start, BeginSpec, KnownHost, CreateA, CreateCNAME, EndSpec, EndGroup,
             BeginDelete, EndDelete, EndPurge, WriteIPHosts, BeginSharedGroup,
             BeginUniqueGroup, DeleteAtIP, Purge, Receive, VerifyTick, Restart,
             ExternalDelete, ctlr
    <2>3. \A host \in Host0 : (\E also : Deleted(host, also)) =>
             rm'.avail = rm.avail \ {host} /\ (h # host => h \in rm'.left)
      BY <2>1 DEF Deleted, RmType
    <2>4. PromoteAndDelete(h)
      <3>1. PICK host \in Host0 : PromoteAndDelete(host) \/ DeleteLastA(host) \/ DeleteCNAME(host)
        BY <2>2
      <3>2. \E also : Deleted(host, also)
        BY <3>1 DEF PromoteAndDelete, DeleteLastA, DeleteCNAME
      <3>3. host = h /\ rm'.avail = rm.avail \ {h}
        BY <2>3, <3>2
      <3>4. ~DeleteLastA(h) /\ ~DeleteCNAME(h)
        BY <3>3 DEF DeleteLastA, DeleteCNAME
      <3> QED BY <3>1, <3>3, <3>4
    <2>5. PICK newA \in Host : PromotedTo(h, newA)
      BY <2>1, <2>4, PromotionDone
    <2> QED BY <2>5, PromotedBound
  <1> QED BY <1>1, MirrorInvariant, PTL DEF Spec, PromotionKeepsAddress
=============================================================================
