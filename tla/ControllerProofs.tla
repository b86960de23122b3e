-------------------------- MODULE ControllerProofs --------------------------
(***************************************************************************)
(* Theorems about the controller, for all hosts, addresses, networks,      *)
(* groups, failing requests, restarts and external deletions.              *)
(***************************************************************************)
EXTENDS ControllerProperties, InfobloxProofs, SequenceTheorems

LEMMA MkTypes ==
    /\ MkIdle \in MkType
    /\ RmIdle \in RmType
    /\ NoGroups \in GroupsType
  BY DEF MkIdle, MkType, NoKey, RmIdle, RmType, NoGroups, GroupsType, Host0, IP0

LEMMA KeyTypes == \A k \in GroupKey : k.view \in View /\ k.cidr \in Cidr
  BY GroupAssumption

LEMMA InitTypes == Init => TypeOK
  <1> SUFFICES ASSUME Init PROVE IpamTypeOK /\ CtlrTypeOK
    BY DEF TypeOK
  <1>1. IpamTypeOK
    BY RefTypes DEF Init, IpamInit, IpamTypeOK, NewInfobloxClient
  <1>2. CtlrTypeOK
    BY MkTypes, NewStoreType DEF Init, CtlrTypeOK, PCs, MkIdle, IP0
  <1> QED BY <1>1, <1>2

\* A pass begins with no group chosen.
LEMMA BeginProcessTypes ==
    ASSUME NEW g, BeginProcess(g)
    PROVE  /\ pc' = "groups" /\ mk' \in MkType /\ mk'.hosts = <<>>
           /\ mk'.next = Empty /\ mk'.used = FALSE
  BY MkTypes DEF BeginProcess, MkIdle, MkType

\* Every step of the select loop keeps the types.
LEMMA SelectTypes ==
    ASSUME TypeOK,
           Start \/ VerifyTick \/ \E g \in GroupConfigs : Receive(g)
    PROVE  TypeOK'
  <1> USE DEF TypeOK
  <1>1. CASE Start
    <2>1. IpamTypeOK' /\ store' \in Stores
      BY <1>1, GetRecordsType DEF Start
    <2>2. CtlrTypeOK'
      BY <1>1, <2>1 DEF Start, CtlrTypeOK, PCs
    <2> QED BY <2>1, <2>2
  <1>2. CASE VerifyTick
    <2>1. IpamTypeOK' /\ store' \in Stores
      BY <1>2, GetRecordsType DEF VerifyTick
    <2>2. CASE BeginProcess(groups) /\ verifying' = TRUE
      BY <1>2, <2>1, <2>2, BeginProcessTypes DEF VerifyTick, CtlrTypeOK, PCs
    <2>3. CASE UNCHANGED <<pc, mk, verifying>>
      BY <1>2, <2>1, <2>3 DEF VerifyTick, CtlrTypeOK
    <2> QED BY <1>2, <2>2, <2>3 DEF VerifyTick
  <1>3. ASSUME NEW g \in GroupConfigs, Receive(g) PROVE TypeOK'
    <2>1. IpamTypeOK'
      BY <1>3 DEF Receive, ipam, IpamTypeOK
    <2>2. CtlrTypeOK'
      BY <1>3, BeginProcessTypes, GroupAssumption DEF Receive, CtlrTypeOK, PCs
    <2> QED BY <2>1, <2>2
  <1> QED BY <1>1, <1>2, <1>3

\* Every step of the create loops (controller.go:121-186) keeps the types.
LEMMA CreateTypes ==
    ASSUME TypeOK,
           \/ \E k \in GroupKey : BeginSharedGroup(k) \/ BeginUniqueGroup(k)
           \/ BeginSpec \/ KnownHost \/ CreateA \/ CreateCNAME \/ EndSpec \/ EndGroup
    PROVE  TypeOK'
  <1> USE DEF TypeOK
  <1>1. ASSUME NEW k \in GroupKey, BeginSharedGroup(k) PROVE TypeOK'
    <2>1. PICK addr \in IP0 :
             /\ GetNextAddr(k.view, k.cidr, addr)
             /\ mk' = [mk EXCEPT !.keys = @ \ {k}, !.key = k, !.specs = groups[k],
                                 !.next = addr, !.cur = addr]
      BY <1>1 DEF BeginSharedGroup
    <2>2. IpamTypeOK'
      BY <2>1, KeyTypes, GetNextAddrType
    <2>3. CtlrTypeOK'
      BY <1>1, <2>1 DEF BeginSharedGroup, CtlrTypeOK, PCs, MkType, GroupsType
    <2> QED BY <2>2, <2>3
  <1>2. ASSUME NEW k \in GroupKey, BeginUniqueGroup(k) PROVE TypeOK'
    <2>1. IpamTypeOK'
      BY <1>2 DEF BeginUniqueGroup, ipam, IpamTypeOK
    <2>2. CtlrTypeOK'
      BY <1>2 DEF BeginUniqueGroup, CtlrTypeOK, PCs, MkType, GroupsType
    <2> QED BY <2>1, <2>2
  <1>3. CASE BeginSpec
    <2> DEFINE spec == Head(mk.specs)
               m    == [mk EXCEPT !.specs = Tail(@), !.hosts = spec,
                                  !.first = FirstHost(@, spec, mk.key)]
    <2>1. mk \in MkType /\ mk.key \in GroupKey /\ mk.specs # <<>> /\ pc' = "hosts"
      BY <1>3 DEF BeginSpec, CtlrTypeOK
    <2>2. spec \in Seq(Host) /\ Tail(mk.specs) \in Seq(Seq(Host))
      BY <2>1 DEF MkType
    <2>3. spec # <<>> => Head(spec) \in Host
      BY <2>2
    <2>4. /\ FirstHost(mk.first, spec, mk.key) \in Host0
          /\ spec # <<>> => FirstHost(mk.first, spec, mk.key) \in Host
      BY <2>1, <2>3 DEF FirstHost, MkType, Host0
    <2>5. m \in MkType
      BY <2>1, <2>2, <2>4 DEF MkType
    <2>6. CASE Unique(mk.key)
      <3>1. PICK addr \in IP0 :
               /\ GetNextAddr(mk.key.view, mk.key.cidr, addr)
               /\ mk' = [m EXCEPT !.next = addr, !.cur = addr, !.used = FALSE]
        BY <1>3, <2>6 DEF BeginSpec
      <3>2. IpamTypeOK'
        BY <2>1, <3>1, KeyTypes, GetNextAddrType
      <3>3. mk' \in MkType /\ mk'.key = mk.key /\ mk'.hosts = spec
            /\ mk'.first = FirstHost(mk.first, spec, mk.key)
        BY <2>5, <3>1 DEF MkType
      <3>4. CtlrTypeOK'
        BY <1>3, <2>1, <2>4, <3>3 DEF BeginSpec, CtlrTypeOK, PCs
      <3> QED BY <3>2, <3>4
    <2>7. CASE ~Unique(mk.key)
      <3>1. mk' = m /\ UNCHANGED ipam
        BY <1>3, <2>7 DEF BeginSpec
      <3>2. mk'.key = mk.key /\ mk'.hosts = spec
            /\ mk'.first = FirstHost(mk.first, spec, mk.key)
        BY <2>1, <3>1 DEF MkType
      <3>3. CtlrTypeOK'
        BY <1>3, <2>1, <2>4, <2>5, <3>1, <3>2 DEF BeginSpec, CtlrTypeOK, PCs
      <3> QED BY <3>1, <3>3 DEF ipam, IpamTypeOK
    <2> QED BY <2>6, <2>7
  <1>4. CASE KnownHost
    <2>1. IpamTypeOK'
      BY <1>4 DEF KnownHost, ipam, IpamTypeOK
    <2>2. CtlrTypeOK'
      <3>1. PICK addr \in IP0 : mk' = [mk EXCEPT !.hosts = Tail(@), !.cur = addr]
        BY <1>4, GetIPType DEF KnownHost
      <3>2. mk \in MkType /\ mk.hosts # <<>> /\ pc = "hosts" /\ mk.first \in Host
        BY <1>4 DEF KnownHost, CtlrTypeOK
      <3>a. Tail(mk.hosts) \in Seq(Host)
        BY <3>2 DEF MkType
      <3>3. mk' \in MkType /\ mk'.key = mk.key /\ mk'.first = mk.first
        BY <3>1, <3>2, <3>a DEF MkType
      <3>4. UNCHANGED <<pc, store, groups, rm, verifying, annot, heard>>
        BY <1>4 DEF KnownHost
      <3> QED BY <3>2, <3>3, <3>4 DEF CtlrTypeOK
    <2> QED BY <2>1, <2>2
  <1>5. CASE CreateA
    <2> DEFINE host == Head(mk.hosts)
    <2>1. PICK created \in BOOLEAN :
             /\ CreateARecord(host, mk.next, mk.key.view, created)
             /\ mk' = [mk EXCEPT !.hosts = Tail(@), !.used = @ \/ created]
             /\ store' = IF created
                         THEN AddRecord(store, mk.cur, host, "A", mk.key.view, mk.key.cidr)
                         ELSE store
      BY <1>5 DEF CreateA
    <2>2. /\ host \in Host /\ Tail(mk.hosts) \in Seq(Host)
          /\ mk \in MkType /\ mk.key \in GroupKey /\ mk.first \in Host
      <3>1. mk.hosts # <<>> /\ mk \in MkType /\ mk.key \in GroupKey /\ mk.first \in Host
        BY <1>5 DEF CreateA, CtlrTypeOK
      <3> QED BY <3>1 DEF MkType
    <2>3. mk.key.view \in View /\ mk.key.cidr \in Cidr /\ mk.next \in IP0 /\ mk.cur \in IP0
      BY <2>2, KeyTypes DEF MkType
    <2>4. IpamTypeOK'
      BY <2>1, <2>2, <2>3, CreateARecordType
    <2>5. AddRecord(store, mk.cur, host, "A", mk.key.view, mk.key.cidr) \in Stores
      BY <2>2, <2>3, AddRecordType DEF CtlrTypeOK, Host0, View0, Cidr0, RecordType
    <2>6. mk' \in MkType /\ mk'.key = mk.key /\ mk'.first = mk.first
      BY <2>1, <2>2 DEF MkType
    <2>7. CtlrTypeOK'
      BY <1>5, <2>1, <2>2, <2>5, <2>6 DEF CreateA, CtlrTypeOK
    <2> QED BY <2>4, <2>7
  <1>6. CASE CreateCNAME
    <2> DEFINE host == Head(mk.hosts)
    <2>1. /\ host \in Host /\ Tail(mk.hosts) \in Seq(Host)
          /\ mk \in MkType /\ mk.key \in GroupKey /\ mk.first \in Host
      BY <1>6 DEF CreateCNAME, CtlrTypeOK, MkType
    <2>2. mk.key.view \in View /\ mk.key.cidr \in Cidr /\ mk.cur \in IP0
      BY <2>1, KeyTypes DEF MkType
    <2>3. IpamTypeOK'
      BY <1>6, <2>1, <2>2, CreateCNAMERecordType DEF CreateCNAME
    <2>4. store' \in Stores
      BY <1>6, <2>1, <2>2, AddRecordType
         DEF CreateCNAME, CtlrTypeOK, Host0, View0, Cidr0, RecordType
    <2>5. CtlrTypeOK'
      BY <1>6, <2>1, <2>4 DEF CreateCNAME, CtlrTypeOK, MkType
    <2> QED BY <2>3, <2>5
  <1>7. CASE EndSpec
    <2>1. IpamTypeOK'
      <3>1. UNCHANGED ipam \/ ReleaseAddr(mk.key.view, mk.key.cidr, mk.next)
        BY <1>7 DEF EndSpec, ReleaseUnused
      <3> QED BY <3>1, ReleaseAddrType DEF ipam, IpamTypeOK
    <2>2. CtlrTypeOK'
      BY <1>7 DEF EndSpec, CtlrTypeOK, PCs, MkType, Host0, IP0
    <2> QED BY <2>1, <2>2
  <1>8. CASE EndGroup
    <2>1. IpamTypeOK'
      <3>1. UNCHANGED ipam \/ ReleaseAddr(mk.key.view, mk.key.cidr, mk.next)
        BY <1>8 DEF EndGroup, ReleaseUnused
      <3> QED BY <3>1, ReleaseAddrType DEF ipam, IpamTypeOK
    <2>2. mk' \in MkType /\ mk'.hosts = <<>>
      BY <1>8, MkTypes DEF EndGroup, CtlrTypeOK, MkType, MkIdle
    <2>3. CtlrTypeOK'
      BY <1>8, <2>2 DEF EndGroup, CtlrTypeOK, PCs
    <2> QED BY <2>1, <2>3
  <1> QED BY <1>1, <1>2, <1>3, <1>4, <1>5, <1>6, <1>7, <1>8

\* Every step of the delete loop (controller.go:188-218), of DeleteHosts and of
\* writeIPHosts keeps the types.
LEMMA DeleteTypes ==
    ASSUME TypeOK,
           \/ BeginDelete \/ EndDelete \/ EndPurge \/ WriteIPHosts
           \/ \E ip \in IP0 : DeleteAtIP(ip)
           \/ \E h \in Host0 : \/ PromoteAndDelete(h) \/ DeleteLastA(h)
                               \/ DeleteCNAME(h) \/ Purge(h)
    PROVE  TypeOK'
  <1> USE DEF TypeOK
  <1>1. CASE BeginDelete
    <2>1. rm' \in RmType
      BY <1>1, MkTypes DEF BeginDelete, RmType, RmIdle
    <2> QED BY <1>1, <2>1 DEF BeginDelete, CtlrTypeOK, PCs, ipam, IpamTypeOK
  <1>2. CASE EndDelete
    <2>1. rm' \in RmType
      BY <1>2, MkTypes DEF EndDelete, CtlrTypeOK, RmType, RmIdle
    <2> QED BY <1>2, <2>1 DEF EndDelete, CtlrTypeOK, PCs, ipam, IpamTypeOK
  <1>3. CASE EndPurge
    BY <1>3, MkTypes DEF EndPurge, CtlrTypeOK, PCs, ipam, IpamTypeOK
  <1>4. CASE WriteIPHosts
    BY <1>4 DEF WriteIPHosts, CtlrTypeOK, PCs, ipam, IpamTypeOK
  <1>5. ASSUME NEW ip \in IP0, DeleteAtIP(ip) PROVE TypeOK'
    <2>1. HostsOf(store, ip) \subseteq Host0 /\ Dead(ip) \subseteq Host0
      BY DEF HostsOf, Dead
    <2>2. rm' \in RmType
      BY <1>5, <2>1 DEF DeleteAtIP, CtlrTypeOK, RmType
    <2> QED BY <1>5, <2>2 DEF DeleteAtIP, CtlrTypeOK, ipam, IpamTypeOK
  <1>6. ASSUME NEW h \in Host0, NEW also \in SUBSET Host0, Deleted(h, also)
        PROVE  rm' \in RmType
    <2> DEFINE gone == [rm.gone EXCEPT ![h] = @ + 1]
    <2>1. rm \in RmType /\ rm.gone \in [Host0 -> Nat]
      BY DEF CtlrTypeOK, RmType
    <2>2. gone \in [Host0 -> Nat]
      BY <2>1
    <2>3. rm.avail \ {h} \in SUBSET Host0 /\ (rm.left \ {h}) \cup also \in SUBSET Host0
      BY <2>1 DEF RmType
    <2>4. rm' = [rm EXCEPT !.avail = @ \ {h}, !.left = (@ \ {h}) \cup also, !.gone = gone]
      BY <1>6, <2>1 DEF Deleted, RmType
    <2> HIDE DEF gone
    <2> QED BY <2>1, <2>2, <2>3, <2>4 DEF RmType
  <1>7. ASSUME NEW h \in Host0, PromoteAndDelete(h) PROVE TypeOK'
    <2>1. PICK newA \in Host0 :
             /\ CNAMEToA(rm.avail \ {h}, h, rm.ip, store.netviews[rm.ip],
                         store.cidrs[rm.ip], newA)
             /\ store' = MarkA(store, rm.ip, newA)
             /\ \E also \in {{}} \cup IF store.records[rm.ip][newA] = "none"
                                      THEN {{newA}} ELSE {} : Deleted(h, also)
      BY <1>7 DEF PromoteAndDelete
    <2>2. rm.ip \in IP0 /\ rm.avail \ {h} \in SUBSET Host0
      BY DEF CtlrTypeOK, RmType
    <2>3. IpamTypeOK'
      BY <2>1, <2>2, CNAMEToAType
    <2>4. store' \in Stores
      BY <2>1, <2>2 DEF MarkA, Stores, RecordType, CtlrTypeOK
    <2>5. rm' \in RmType
      BY <1>6, <2>1
    <2> QED BY <1>7, <2>3, <2>4, <2>5 DEF PromoteAndDelete, CtlrTypeOK
  <1>8. ASSUME NEW h \in Host0, DeleteLastA(h) PROVE TypeOK'
    <2>1. IpamTypeOK'
      BY <1>8, DeleteARecordType DEF DeleteLastA
    <2> QED BY <1>6, <1>8, <2>1 DEF DeleteLastA, CtlrTypeOK
  <1>9. ASSUME NEW h \in Host0, DeleteCNAME(h) PROVE TypeOK'
    <2>1. IpamTypeOK'
      BY <1>9, DeleteCNAMERecordType DEF DeleteCNAME
    <2> QED BY <1>6, <1>9, <2>1 DEF DeleteCNAME, CtlrTypeOK
  <1>10. ASSUME NEW h \in Host0, Purge(h) PROVE TypeOK'
    <2>1. store' \in Stores
      BY <1>10, DeleteHostType, GetIPType DEF Purge, CtlrTypeOK
    <2>2. rm' \in RmType
      <3> DEFINE gone == [rm.gone EXCEPT ![h] = @ - 1]
      <3>1. rm \in RmType /\ rm.gone \in [Host0 -> Nat] /\ rm.gone[h] > 0
        BY <1>10 DEF Purge, CtlrTypeOK, RmType
      <3>2. gone \in [Host0 -> Nat]
        BY <3>1
      <3>3. rm' = [rm EXCEPT !.gone = gone]
        BY <1>10, <3>1 DEF Purge, RmType
      <3> HIDE DEF gone
      <3> QED BY <3>1, <3>2, <3>3 DEF RmType
    <2> QED BY <1>10, <2>1, <2>2 DEF Purge, CtlrTypeOK, ipam, IpamTypeOK
  <1> QED BY <1>1, <1>2, <1>3, <1>4, <1>5, <1>7, <1>8, <1>9, <1>10

\* A restart and another party's deletion keep the types.
LEMMA EnvironmentTypes ==
    ASSUME TypeOK, Restart \/ ExternalDelete
    PROVE  TypeOK'
  <1> USE DEF TypeOK
  <1>1. CASE Restart
    <2>1. IpamTypeOK'
      BY <1>1, RefTypes, CountFaultType DEF Restart, IpamTypeOK, NewInfobloxClient
    <2>2. CtlrTypeOK'
      BY <1>1, MkTypes, NewStoreType DEF Restart, CtlrTypeOK, PCs, MkIdle
    <2> QED BY <2>1, <2>2
  <1>2. CASE ExternalDelete
    <2>1. IpamTypeOK'
      BY <1>2, CountFaultType DEF ExternalDelete, IpamTypeOK, ctlr
    <2> QED BY <1>2, <2>1 DEF ExternalDelete, CtlrTypeOK, ctlr
  <1> QED BY <1>1, <1>2

\* Every variable keeps its type whatever fails: the create loops always have a
\* group and a first host when they need one (controller.go:121-185).
THEOREM TypeCorrect == Spec => []TypeOK
  <1>1. TypeOK /\ [Next]_vars => TypeOK'
    <2> SUFFICES ASSUME TypeOK, [Next]_vars PROVE TypeOK'
      OBVIOUS
    <2>1. CASE Work
      BY <2>1, SelectTypes, CreateTypes, DeleteTypes DEF Work
    <2>2. CASE (\E g \in GroupConfigs : Receive(g)) \/ VerifyTick
      BY <2>2, SelectTypes
    <2>3. CASE Restart \/ ExternalDelete
      BY <2>3, EnvironmentTypes
    <2>4. CASE UNCHANGED vars
      BY <2>4 DEF vars, TypeOK, CtlrTypeOK, ipam, IpamTypeOK
    <2> QED BY <2>1, <2>2, <2>3, <2>4 DEF Next
  <1> QED BY InitTypes, <1>1, PTL DEF Spec

(***************************************************************************)
(* HeldReserved.  nextAddr is reserved when it is taken.  It could be lost *)
(* only to a release: one in the create loops, which ends the use of       *)
(* nextAddr, or one in the delete loop, during which there is none.  The   *)
(* second part of the invariant says so.                                   *)
(***************************************************************************)
HeldInLoops == mk.next # Empty => pc \in {"specs", "hosts"}

HeldInv == TypeOK /\ HeldReserved /\ HeldInLoops

\* nextAddr is what GetNextAddr just reserved, or "".
LEMMA TakenReserved ==
    ASSUME HeldInv,
           BeginSpec \/ \E k \in GroupKey : BeginSharedGroup(k) \/ BeginUniqueGroup(k)
    PROVE  HeldReserved' /\ HeldInLoops'
  <1> USE DEF HeldInv, TypeOK
  <1>1. ASSUME NEW k \in GroupKey, BeginSharedGroup(k) PROVE HeldReserved' /\ HeldInLoops'
    <2>1. PICK addr \in IP0 :
             /\ GetNextAddr(k.view, k.cidr, addr)
             /\ mk' = [mk EXCEPT !.keys = @ \ {k}, !.key = k, !.specs = groups[k],
                                 !.next = addr, !.cur = addr]
      BY <1>1 DEF BeginSharedGroup
    <2>2. addr # Empty => [view |-> k.view, cidr |-> k.cidr, ip |-> addr] \in fixed'
      BY <2>1, KeyTypes, GetNextAddrType
    <2>3. mk'.next = addr /\ mk'.key = k /\ pc' = "specs"
      BY <1>1, <2>1 DEF BeginSharedGroup, CtlrTypeOK, MkType
    <2> QED BY <2>2, <2>3 DEF HeldReserved, HeldInLoops
  <1>2. ASSUME NEW k \in GroupKey, BeginUniqueGroup(k) PROVE HeldReserved' /\ HeldInLoops'
    <2>1. mk.next = Empty
      BY <1>2 DEF BeginUniqueGroup, HeldInLoops
    <2>2. mk'.next = mk.next
      BY <1>2 DEF BeginUniqueGroup, CtlrTypeOK, MkType
    <2> QED BY <2>1, <2>2 DEF HeldReserved, HeldInLoops
  <1>3. CASE BeginSpec
    <2> DEFINE m == [mk EXCEPT !.specs = Tail(@), !.hosts = Head(mk.specs),
                               !.first = FirstHost(@, Head(mk.specs), mk.key)]
    <2>1. mk \in MkType /\ mk.key \in GroupKey /\ pc' = "hosts"
      BY <1>3 DEF BeginSpec, CtlrTypeOK
    <2>2. m.next = mk.next /\ m.key = mk.key
      BY <2>1 DEF MkType
    <2>3. CASE Unique(mk.key)
      <3>1. PICK addr \in IP0 :
               /\ GetNextAddr(mk.key.view, mk.key.cidr, addr)
               /\ mk' = [m EXCEPT !.next = addr, !.cur = addr, !.used = FALSE]
        BY <1>3, <2>3 DEF BeginSpec
      <3>2. addr # Empty =>
               [view |-> mk.key.view, cidr |-> mk.key.cidr, ip |-> addr] \in fixed'
        BY <2>1, <3>1, KeyTypes, GetNextAddrType
      <3>3. mk'.next = addr /\ mk'.key = mk.key
        BY <2>1, <3>1 DEF MkType
      <3> QED BY <2>1, <3>2, <3>3 DEF HeldReserved, HeldInLoops
    <2>4. CASE ~Unique(mk.key)
      <3>1. mk' = m /\ fixed' = fixed
        BY <1>3, <2>4 DEF BeginSpec, ipam
      <3> HIDE DEF m
      <3> QED BY <2>1, <2>2, <3>1 DEF HeldReserved, HeldInLoops
    <2> QED BY <2>3, <2>4
  <1> QED BY <1>1, <1>2, <1>3

\* The host loop takes no address away.
LEMMA HostsKeepHeld ==
    ASSUME HeldInv, KnownHost \/ CreateA \/ CreateCNAME
    PROVE  HeldReserved' /\ HeldInLoops'
  <1>1. mk \in MkType
    BY DEF HeldInv, TypeOK, CtlrTypeOK
  <1>2. mk'.next = mk.next /\ mk'.key = mk.key
    BY <1>1 DEF KnownHost, CreateA, CreateCNAME, MkType
  <1>3. fixed' = fixed
    BY DEF KnownHost, ipam, CreateA, CreateARecord, CreateCNAME, CreateCNAMERecord
  <1>4. pc = "hosts" /\ pc' = pc
    BY DEF KnownHost, CreateA, CreateCNAME
  <1> QED BY <1>2, <1>3, <1>4 DEF HeldInv, HeldReserved, HeldInLoops

\* After the releases of the create loops there is no nextAddr; a spec of a
\* shared group ends without one.
LEMMA EndsKeepHeld ==
    ASSUME HeldInv, EndSpec \/ EndGroup
    PROVE  HeldReserved' /\ HeldInLoops'
  <1>1. mk \in MkType
    BY DEF HeldInv, TypeOK, CtlrTypeOK
  <1>2. CASE EndSpec
    <2>1. CASE Unique(mk.key)
      <3>1. mk'.next = Empty
        BY <1>1, <1>2, <2>1 DEF EndSpec, MkType
      <3> QED BY <3>1 DEF HeldReserved, HeldInLoops
    <2>2. CASE ~Unique(mk.key)
      BY <1>2, <2>2 DEF EndSpec, ipam, HeldInv, HeldReserved, HeldInLoops
    <2> QED BY <2>1, <2>2
  <1>3. CASE EndGroup
    <2>1. mk'.next = Empty
      BY <1>1, <1>3 DEF EndGroup, MkIdle, MkType
    <2> QED BY <2>1 DEF HeldReserved, HeldInLoops
  <1> QED BY <1>2, <1>3

\* Outside of the create loops there is no nextAddr to lose.
LEMMA OthersKeepHeld ==
    ASSUME HeldInv,
           \/ Start \/ VerifyTick \/ Restart \/ \E g \in GroupConfigs : Receive(g)
           \/ BeginDelete \/ EndDelete \/ EndPurge \/ WriteIPHosts
           \/ \E ip \in IP0 : DeleteAtIP(ip)
           \/ \E h \in Host0 : \/ PromoteAndDelete(h) \/ DeleteLastA(h)
                               \/ DeleteCNAME(h) \/ Purge(h)
    PROVE  HeldReserved' /\ HeldInLoops'
  <1>1. CASE Restart \/ (VerifyTick /\ BeginProcess(groups))
             \/ \E g \in GroupConfigs : Receive(g)
    <2>1. mk'.next = Empty
      <3>1. CASE Restart
        BY <3>1 DEF Restart, MkIdle
      <3>2. ASSUME NEW g, BeginProcess(g) PROVE mk'.next = Empty
        BY <3>2 DEF BeginProcess, MkIdle
      <3>3. CASE \E g \in GroupConfigs : Receive(g)
        BY <3>3, <3>2 DEF Receive
      <3> QED BY <1>1, <3>1, <3>2, <3>3
    <2> QED BY <2>1 DEF HeldReserved, HeldInLoops
  <1>2. CASE \/ Start \/ BeginDelete \/ EndDelete \/ EndPurge \/ WriteIPHosts
             \/ VerifyTick /\ UNCHANGED mk
             \/ \E ip \in IP0 : DeleteAtIP(ip)
             \/ \E h \in Host0 : \/ PromoteAndDelete(h) \/ DeleteLastA(h)
                                 \/ DeleteCNAME(h) \/ Purge(h)
    <2>1. pc \notin {"specs", "hosts"} /\ mk' = mk
      BY <1>2 DEF Start, VerifyTick, BeginDelete, EndDelete, EndPurge, WriteIPHosts,
                  DeleteAtIP, PromoteAndDelete, DeleteLastA, DeleteCNAME, Purge
    <2>2. mk.next = Empty
      BY <2>1 DEF HeldInv, HeldInLoops
    <2> QED BY <2>1, <2>2 DEF HeldReserved, HeldInLoops
  <1>3. VerifyTick => BeginProcess(groups) \/ UNCHANGED mk
    BY DEF VerifyTick
  <1> QED BY <1>1, <1>2, <1>3

\* The inductive invariant of HeldReserved.
LEMMA HeldInvariant == Spec => []HeldInv
  <1>1. Init => HeldInv
    BY InitTypes DEF Init, HeldInv, HeldReserved, HeldInLoops, MkIdle
  <1>2. HeldInv /\ [Next]_vars => HeldReserved' /\ HeldInLoops'
    <2> SUFFICES ASSUME HeldInv, [Next]_vars PROVE HeldReserved' /\ HeldInLoops'
      OBVIOUS
    <2>1. CASE Work
      BY <2>1, TakenReserved, HostsKeepHeld, EndsKeepHeld, OthersKeepHeld DEF Work
    <2>2. CASE (\E g \in GroupConfigs : Receive(g)) \/ VerifyTick \/ Restart
      BY <2>2, OthersKeepHeld
    <2>3. CASE ExternalDelete
      BY <2>3 DEF ExternalDelete, ctlr, HeldInv, HeldReserved, HeldInLoops
    <2>4. CASE UNCHANGED vars
      BY <2>4 DEF vars, ipam, HeldInv, HeldReserved, HeldInLoops
    <2> QED BY <2>1, <2>2, <2>3, <2>4 DEF Next
  <1> QED BY <1>1, <1>2, TypeCorrect, PTL DEF Spec, HeldInv

\* The address the create loops work with stays reserved in the group's network,
\* whatever fails and however often the controller is restarted
\* (controller.go:129-185).
THEOREM HeldStaysReserved == Spec => []HeldReserved
  BY HeldInvariant, PTL DEF HeldInv

(***************************************************************************)
(* A pass spares the hosts of its groups                                   *)
(***************************************************************************)

\* The delete loop visits, and DeleteHosts forgets, only hosts that are in no group.
LoopsSpare ==
    pc \in {"delete", "purge"} =>
       \A h \in HostsIn(groups) : h \notin rm.left /\ rm.gone[h] = 0

\* availHosts are in the store, so that the host which takes over an A record is no
\* new key of the map, unless it is "" after an error.
AvailStored == pc = "delete" => rm.avail \subseteq HostsOf(store, rm.ip)

SparesInv == TypeOK /\ LoopsSpare /\ AvailStored

LEMMA HostsInHost == ASSUME NEW g \in GroupsType PROVE HostsIn(g) \subseteq Host
  <1> SUFFICES ASSUME NEW h \in HostsIn(g) PROVE h \in Host
    OBVIOUS
  <1>1. PICK k \in GroupKey : \E i \in DOMAIN g[k] : h \in Range(g[k][i])
    BY DEF HostsIn
  <1>2. PICK i \in DOMAIN g[k] : h \in Range(g[k][i])
    BY <1>1
  <1>3. g[k] \in Seq(Seq(Host))
    BY DEF GroupsType
  <1>4. g[k][i] \in Seq(Host)
    BY <1>3
  <1> QED BY <1>2, <1>4 DEF Range

\* CNAMEToA answers with one of availHosts, or "".
LEMMA PromotedAvail ==
    ASSUME NEW avail, NEW delHost, NEW ip, NEW view, NEW cidr, NEW newA,
           CNAMEToA(avail, delHost, ip, view, cidr, newA)
    PROVE  newA = Empty \/ newA \in avail
  BY DEF CNAMEToA

\* A step outside of the two loops, or one that ends in another.
LEMMA OthersSpare ==
    ASSUME SparesInv, pc' \notin {"delete", "purge"}
    PROVE  LoopsSpare' /\ AvailStored'
  BY DEF LoopsSpare, AvailStored

\* The loops find and visit hosts that are in no group.
LEMMA VisitsSpare ==
    ASSUME SparesInv,
           \/ BeginDelete \/ EndDelete
           \/ \E ip \in IP0 : DeleteAtIP(ip)
           \/ \E h \in Host0 : Purge(h)
    PROVE  LoopsSpare' /\ AvailStored'
  <1>1. HostsIn(groups) \subseteq Host /\ Host \subseteq Host0 /\ rm \in RmType
    BY HostsInHost DEF SparesInv, TypeOK, CtlrTypeOK, Host0
  <1>2. groups' = groups => HostsIn(groups') = HostsIn(groups)
    BY DEF HostsIn
  <1>3. CASE BeginDelete
    <2>1. groups' = groups /\ rm'.avail = {} /\ rm'.left = {} /\ rm'.gone = [h \in Host0 |-> 0]
      BY <1>3 DEF BeginDelete, RmIdle
    <2> QED BY <1>1, <1>2, <2>1 DEF LoopsSpare, AvailStored
  <1>4. CASE EndDelete
    <2>1. groups' = groups /\ pc = "delete" /\ rm'.left = {} /\ rm'.gone = rm.gone /\ pc' = "purge"
      BY <1>4 DEF EndDelete, RmIdle
    <2> QED BY <1>2, <2>1 DEF SparesInv, LoopsSpare, AvailStored
  <1>5. ASSUME NEW ip \in IP0, DeleteAtIP(ip) PROVE LoopsSpare' /\ AvailStored'
    <2>1. /\ groups' = groups /\ store' = store /\ pc = "delete"
          /\ rm'.ip = ip /\ rm'.gone = rm.gone
          /\ rm'.avail = HostsOf(store, ip) /\ rm'.left = Dead(ip)
      BY <1>1, <1>5 DEF DeleteAtIP, RmType
    <2>2. HostsOf(store', ip) = HostsOf(store, ip)
      BY <2>1 DEF HostsOf
    <2> QED BY <1>2, <2>1, <2>2 DEF SparesInv, LoopsSpare, AvailStored, Dead
  <1>6. ASSUME NEW h \in Host0, Purge(h) PROVE LoopsSpare' /\ AvailStored'
    <2>1. groups' = groups /\ pc = "purge" /\ pc' = pc /\ rm.gone[h] > 0
      BY <1>6 DEF Purge
    <2>2. rm'.left = rm.left /\ rm'.gone = [rm.gone EXCEPT ![h] = @ - 1]
      BY <1>1, <1>6 DEF Purge, RmType
    <2>3. h \notin HostsIn(groups)
      BY <2>1 DEF SparesInv, LoopsSpare
    <2> QED BY <1>1, <1>2, <2>1, <2>2, <2>3 DEF SparesInv, LoopsSpare, AvailStored, RmType
  <1> QED BY <1>3, <1>4, <1>5, <1>6

\* So they are when one is deleted, if the keys that the step adds are not theirs.
LEMMA DeletedSpares ==
    ASSUME SparesInv, pc = "delete", pc' = pc, groups' = groups,
           NEW h \in Host0, h \in rm.left,
           NEW also \in SUBSET {Empty}, Deleted(h, also),
           HostsOf(store, rm.ip) \subseteq HostsOf(store', rm.ip)
    PROVE  LoopsSpare' /\ AvailStored'
  <1>1. /\ HostsIn(groups) \subseteq Host /\ Host \subseteq Host0 /\ Empty \notin Host
        /\ rm \in RmType
    BY HostsInHost, EmptyAssumption DEF SparesInv, TypeOK, CtlrTypeOK, Host0
  <1>2. /\ rm'.ip = rm.ip /\ rm'.avail = rm.avail \ {h}
        /\ rm'.left = (rm.left \ {h}) \cup also
        /\ rm'.gone = [rm.gone EXCEPT ![h] = @ + 1]
    BY <1>1 DEF Deleted, RmType
  <1>3. h \notin HostsIn(groups)
    BY DEF SparesInv, LoopsSpare
  <1>4. HostsIn(groups') = HostsIn(groups)
    BY DEF HostsIn
  <1>5. LoopsSpare'
    BY <1>1, <1>2, <1>3, <1>4 DEF SparesInv, LoopsSpare, RmType
  <1>6. AvailStored'
    BY <1>2 DEF SparesInv, AvailStored
  <1> QED BY <1>5, <1>6

LEMMA DeletesSpare ==
    ASSUME SparesInv,
           \E h \in Host0 : PromoteAndDelete(h) \/ DeleteLastA(h) \/ DeleteCNAME(h)
    PROVE  LoopsSpare' /\ AvailStored'
  <1>1. ASSUME NEW h \in Host0, DeleteLastA(h) \/ DeleteCNAME(h)
        PROVE  LoopsSpare' /\ AvailStored'
    <2>1. Deleted(h, {}) /\ pc = "delete" /\ pc' = pc /\ groups' = groups
          /\ h \in rm.left /\ store' = store
      BY <1>1 DEF DeleteLastA, DeleteCNAME
    <2>2. HostsOf(store, rm.ip) \subseteq HostsOf(store', rm.ip)
      BY <2>1 DEF HostsOf
    <2> QED BY <2>1, <2>2, DeletedSpares
  <1>2. ASSUME NEW h \in Host0, PromoteAndDelete(h) PROVE LoopsSpare' /\ AvailStored'
    <2>1. PICK newA \in Host0 :
             /\ CNAMEToA(rm.avail \ {h}, h, rm.ip, store.netviews[rm.ip],
                         store.cidrs[rm.ip], newA)
             /\ store' = MarkA(store, rm.ip, newA)
             /\ \E also \in {{}} \cup IF store.records[rm.ip][newA] = "none"
                                      THEN {{newA}} ELSE {} : Deleted(h, also)
      BY <1>2 DEF PromoteAndDelete
    <2>2. pc = "delete" /\ pc' = pc /\ groups' = groups /\ h \in rm.left
      BY <1>2 DEF PromoteAndDelete
    <2>3. newA = Empty \/ store.records[rm.ip][newA] # "none"
      BY <2>1, <2>2, PromotedAvail DEF SparesInv, AvailStored, HostsOf
    <2>4. PICK also \in SUBSET {Empty} : Deleted(h, also)
      BY <2>1, <2>3
    <2>5. HostsOf(store, rm.ip) \subseteq HostsOf(store', rm.ip)
      <3>1. store \in Stores /\ rm.ip \in IP0
        BY DEF SparesInv, TypeOK, CtlrTypeOK, RmType
      <3>2. store'.records[rm.ip] = [store.records[rm.ip] EXCEPT ![newA] = "A"]
        BY <2>1, <3>1 DEF MarkA, Stores
      <3>3. store.records[rm.ip] \in [Host0 -> RecordType]
        BY <3>1 DEF Stores
      <3> QED BY <3>2, <3>3 DEF HostsOf
    <2> QED BY <2>2, <2>4, <2>5, DeletedSpares
  <1> QED BY <1>1, <1>2

\* The inductive invariant behind SparesWanted.
LEMMA SparesInvariant == Spec => []SparesInv
  <1>1. Init => SparesInv
    BY InitTypes DEF Init, SparesInv, LoopsSpare, AvailStored
  <1>2. SparesInv /\ [Next]_vars => LoopsSpare' /\ AvailStored'
    <2> SUFFICES ASSUME SparesInv, [Next]_vars PROVE LoopsSpare' /\ AvailStored'
      OBVIOUS
    <2>1. CASE \/ BeginDelete \/ EndDelete
               \/ \E ip \in IP0 : DeleteAtIP(ip)
               \/ \E h \in Host0 : Purge(h)
      BY <2>1, VisitsSpare
    <2>2. CASE \E h \in Host0 : PromoteAndDelete(h) \/ DeleteLastA(h) \/ DeleteCNAME(h)
      BY <2>2, DeletesSpare
    <2>3. CASE \/ Start \/ BeginSpec \/ KnownHost \/ CreateA \/ CreateCNAME
               \/ EndSpec \/ EndGroup \/ EndPurge \/ WriteIPHosts
               \/ \E k \in GroupKey : BeginSharedGroup(k) \/ BeginUniqueGroup(k)
               \/ Restart \/ VerifyTick \/ \E g \in GroupConfigs : Receive(g)
      <3>1. pc' \notin {"delete", "purge"}
        BY <2>3 DEF Start, BeginSpec, KnownHost, CreateA, CreateCNAME, EndSpec, EndGroup,
                    EndPurge, WriteIPHosts, BeginSharedGroup, BeginUniqueGroup, Restart,
                    VerifyTick, Receive, BeginProcess
      <3> QED BY <3>1, OthersSpare
    <2>4. CASE ExternalDelete \/ UNCHANGED vars
      <3>1. UNCHANGED <<pc, store, groups, rm>>
        BY <2>4 DEF ExternalDelete, ctlr, vars
      <3>2. HostsIn(groups') = HostsIn(groups) /\ HostsOf(store', rm'.ip) = HostsOf(store, rm.ip)
        BY <3>1 DEF HostsIn, HostsOf
      <3> QED BY <3>1, <3>2 DEF SparesInv, LoopsSpare, AvailStored
    <2> QED BY <2>1, <2>2, <2>3, <2>4 DEF Next, Work
  <1> QED BY <1>1, <1>2, TypeCorrect, PTL DEF Spec, SparesInv

\* What a call takes away: the names that had a record and have none any more.
Lost == Names \ Names'

LEMMA NothingLost ==
    ASSUME aRecs \subseteq aRecs', cnames \subseteq cnames'
    PROVE  Lost = {}
  BY DEF Lost, Names

LEMMA DeletesLose ==
    ASSUME NEW name, NEW ip, NEW view, NEW cidr,
           \/ DeleteARecord(name, ip, view, cidr)
           \/ DeleteCNAMERecord(name, ip, view, cidr)
    PROVE  Lost \subseteq {name}
  <1>1. CASE DeleteARecord(name, ip, view, cidr)
    <2>1. aRecs' \in {aRecs, aRecs \ {[name |-> name, ip |-> ip, view |-> view]}} /\ cnames' = cnames
      BY <1>1 DEF DeleteARecord
    <2> QED BY <2>1 DEF Lost, Names
  <1>2. CASE DeleteCNAMERecord(name, ip, view, cidr)
    <2>1. aRecs' = aRecs /\ cnames \ cnames' \subseteq CNAMEsOf(name, view)
      BY <1>2 DEF DeleteCNAMERecord, CNAMEsToDelete
    <2> QED BY <2>1 DEF Lost, Names, CNAMEsOf
  <1> QED BY <1>1, <1>2

\* CNAMEToA takes its record from delHost and, if the PUT fails, from the host that it
\* has begun to promote.
LEMMA PromotionLoses ==
    ASSUME IpamTypeOK, NEW avail, NEW delHost, NEW ip, NEW view, NEW cidr, NEW newA,
           CNAMEToA(avail, delHost, ip, view, cidr, newA)
    PROVE  Lost \subseteq {delHost} \/ \E a \in avail : Lost \subseteq {delHost, a}
  <1>1. CASE recordRef[delHost].kind = "absent"
    BY <1>1, DeletesLose DEF CNAMEToA
  <1>2. CASE recordRef[delHost].kind # "absent"
    <2>a. PICK a \in avail :
             \E t, f, done : PromoteCNAME(avail, delHost, ip, view, cidr, a, t, f, done)
      BY <1>2 DEF CNAMEToA
    <2>1. PICK t, f, done : PromoteCNAME(avail, delHost, ip, view, cidr, a, t, f, done)
      BY <2>a
    <2> DEFINE asked == CNAMEsToDelete(a, ip, view, cidr, f)
               left  == IF f = "delete" THEN cnames ELSE cnames \ asked
               old   == [name |-> delHost, ip |-> recordRef[delHost].ip,
                         view |-> recordRef[delHost].view]
    <2>2. aRecs \ {old} \subseteq aRecs'
      BY <2>1 DEF PromoteCNAME
    <2>3. \A c \in left : c \in cnames' \/ [c EXCEPT !.canonical = a] \in cnames'
      BY <2>1 DEF PromoteCNAME
    <2>4. \A c \in cnames \ left : c.name = a
      BY DEF CNAMEsToDelete, CNAMEsOf
    <2>5. \A c \in cnames : [c EXCEPT !.canonical = a].name = c.name
      BY DEF IpamTypeOK, CNAMERecord
    <2> HIDE DEF left
    <2>6. \A c \in cnames : c.name = a \/ c.name \in Names'
      <3> SUFFICES ASSUME NEW c \in cnames, c \in left PROVE c.name \in Names'
        BY <2>4
      <3>1. PICK d \in cnames' : d.name = c.name
        BY <2>3, <2>5
      <3> QED BY <3>1 DEF Names
    <2>7. \A r \in aRecs : r.name = delHost \/ r.name \in Names'
      BY <2>2 DEF Names
    <2>8. Lost \subseteq {delHost, a}
      BY <2>6, <2>7 DEF Lost, Names
    <2> QED BY <2>8
  <1> QED BY <1>1, <1>2

\* The controller takes no record from a host of the groups, but for the promotion that
\* fails half way, whatever fails and however often it is restarted
\* (controller.go:188-218, infoblox.go:229-258).
THEOREM WantedSpared == Spec => SparesWanted
  <1> DEFINE lost == HostsIn(groups) \cap (Names \ Names')
             Promotion == /\ pc = "delete"
                          /\ \E d \in rm.left \ rm'.left :
                                /\ store.records[rm.ip][d] = "A"
                                /\ \E a \in rm.avail \ {d} : lost = {a}
  <1>1. SparesInv /\ [Next]_vars => [ctlr' # ctlr => lost = {} \/ Promotion]_vars
    <2> SUFFICES ASSUME SparesInv, Next, ctlr' # ctlr PROVE lost = {} \/ Promotion
      OBVIOUS
    <2>1. ASSUME Lost = {} PROVE lost = {}
      BY <2>1 DEF Lost
    <2>2. ASSUME NEW h \in Host0, DeleteLastA(h) \/ DeleteCNAME(h) PROVE lost = {}
      <3>1. Lost \subseteq {h} /\ h \in rm.left /\ pc = "delete"
        BY <2>2, DeletesLose DEF DeleteLastA, DeleteCNAME
      <3>2. h \notin HostsIn(groups)
        BY <3>1 DEF SparesInv, LoopsSpare
      <3> QED BY <3>1, <3>2 DEF Lost
    <2>3. ASSUME NEW h \in Host0, PromoteAndDelete(h) PROVE lost = {} \/ Promotion
      <3>1. /\ pc = "delete" /\ h \in rm.left /\ store.records[rm.ip][h] = "A"
            /\ h \notin HostsIn(groups)
        BY <2>3 DEF PromoteAndDelete, SparesInv, LoopsSpare
      <3>2. PICK newA \in Host0 :
               /\ CNAMEToA(rm.avail \ {h}, h, rm.ip, store.netviews[rm.ip],
                           store.cidrs[rm.ip], newA)
               /\ \E also \in {{}} \cup IF store.records[rm.ip][newA] = "none"
                                        THEN {{newA}} ELSE {} : Deleted(h, also)
        BY <2>3 DEF PromoteAndDelete
      <3>3. h \notin rm'.left
        <4>1. PICK also \in {{}} \cup IF store.records[rm.ip][newA] = "none"
                                      THEN {{newA}} ELSE {} : Deleted(h, also)
          BY <3>2
        <4>2. h \notin also
          BY <3>1, <4>1
        <4>3. rm'.left = (rm.left \ {h}) \cup also
          BY <4>1 DEF Deleted, SparesInv, TypeOK, CtlrTypeOK, RmType
        <4> QED BY <4>2, <4>3
      <3>4. \/ Lost \subseteq {h}
            \/ \E a \in rm.avail \ {h} : Lost \subseteq {h, a}
        BY <3>2, PromotionLoses DEF SparesInv, TypeOK
      <3> QED BY <3>1, <3>3, <3>4 DEF Lost
    <2>4. CASE CreateA \/ CreateCNAME
      <3>1. aRecs \subseteq aRecs' /\ cnames \subseteq cnames'
        BY <2>4 DEF CreateA, CreateCNAME, CreateARecord, CreateCNAMERecord
      <3> QED BY <2>1, <3>1, NothingLost
    <2>5. CASE \/ Start \/ BeginSpec \/ KnownHost
               \/ EndSpec \/ EndGroup \/ BeginDelete \/ EndDelete \/ EndPurge \/ WriteIPHosts
               \/ \E k \in GroupKey : BeginSharedGroup(k) \/ BeginUniqueGroup(k)
               \/ \E ip \in IP0 : DeleteAtIP(ip)
               \/ \E h \in Host0 : Purge(h)
               \/ Restart \/ VerifyTick \/ \E g \in GroupConfigs : Receive(g)
      <3>1. UNCHANGED <<aRecs, cnames>>
        BY <2>5 DEF Start, BeginSpec, KnownHost, EndSpec, EndGroup, BeginDelete, EndDelete,
                    EndPurge, WriteIPHosts, BeginSharedGroup, BeginUniqueGroup, DeleteAtIP,
                    Purge, Restart, VerifyTick, Receive, ReleaseUnused, ReleaseAddr,
                    GetNextAddr, GetRecords, ipam
      <3> QED BY <2>1, <3>1, NothingLost
    <2>6. ~ExternalDelete
      BY DEF ExternalDelete
    <2> QED BY <2>2, <2>3, <2>4, <2>5, <2>6 DEF Next, Work
  <1> QED BY <1>1, SparesInvariant, PTL DEF Spec, SparesWanted
=============================================================================
