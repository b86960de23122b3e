-------------------------- MODULE RefinementProofs --------------------------
(***************************************************************************)
(* The controller implements modules AddressLease and Reconciler: for all  *)
(* hosts, addresses, networks and groups that meet the conditions of Calm. *)
(***************************************************************************)
EXTENDS MirrorProofs

(***************************************************************************)
(* The life cycle of an address.                                           *)
(***************************************************************************)
LEMMA NothingHeld == (mk.next = Empty \/ mk.used) => Held = {}
  BY DEF Held

\* Only one fixed address stands for a reserved address.
LEMMA OneFixed ==
    ASSUME IInv, NEW f \in fixed, NEW g \in fixed, AddrOf(f) = AddrOf(g)
    PROVE  f = g
  <1> USE DEF IInv, MirrorInv
  <1>1. f.ip = g.ip /\ f.ip \in IP0
    BY DEF AddrOf, SparesInv, TypeOK, IpamTypeOK, FixedAddr, IP0
  <1>2. CASE mk.next # Empty /\ ~mk.used /\ f.ip = mk.next
    <2>1. \A h \in Host : ~FiledAs("A", f.ip, h)
      BY <1>2 DEF LoopInv, FiledAs, Host0
    <2> QED BY <1>1, <2>1 DEF FixedInv
  <1>3. CASE ~(mk.next # Empty /\ ~mk.used /\ f.ip = mk.next)
    <2>1. /\ \E h \in Host : FiledAs("A", f.ip, h) /\ f = FixedOf(f.ip, h)
          /\ \E h \in Host : FiledAs("A", g.ip, h) /\ g = FixedOf(g.ip, h)
      BY <1>1, <1>3 DEF FixedInv, HeldAddr
    <2> QED BY <1>1, <2>1 DEF RecordInv, Host0
  <1> QED BY <1>2, <1>3

LEMMA ReservedWithout ==
    ASSUME IInv, NEW f \in fixed, fixed' = fixed \ {f}
    PROVE  Reserved' = Reserved \ {AddrOf(f)}
  <1>1. Reserved' = {AddrOf(g) : g \in fixed'}
    BY DEF Reserved, AddrOf
  <1>2. \A g \in fixed : AddrOf(g) = AddrOf(f) => g = f
    BY OneFixed
  <1> QED BY <1>1, <1>2 DEF Reserved

LEMMA ReservedWith ==
    ASSUME NEW f, fixed' = fixed \cup {f}
    PROVE  Reserved' = Reserved \cup {AddrOf(f)}
  <1>1. Reserved' = {AddrOf(g) : g \in fixed'}
    BY DEF Reserved, AddrOf
  <1> QED BY <1>1 DEF Reserved

LEMMA SameLease ==
    ASSUME UNCHANGED <<fixed, aRecs>>, Held' = Held
    PROVE  UNCHANGED Lease!lease
  BY DEF Lease!lease, Reserved, Bound, AddrOf

\* GetNextAddr
LEMMA ReserveStep ==
    ASSUME Calm, IInv, mk.next = Empty, pc \notin {"delete", "purge"}, pc' # "start",
           NEW k \in GroupKey, NEW addr \in IP0, GetNextAddr(k.view, k.cidr, addr),
           UNCHANGED <<store, rm>>, mk'.key = k, mk'.next = addr, ~mk'.used
    PROVE  Lease!LeaseNext
  <1> DEFINE a == [view |-> k.view, ip |-> addr]
             f == [view |-> k.view, cidr |-> k.cidr, ip |-> addr]
  <1>1. /\ addr \in Free(k.view, k.cidr) /\ addr # Empty /\ fixed' = fixed \cup {f}
        /\ UNCHANGED aRecs
    BY Reserving
  <1>2. a \in Addr
    BY <1>1, KeyTypes DEF Addr, IP0
  <1>3. a \notin Reserved
    BY <1>1 DEF Free, Reserved, AddrOf
  <1>4. Reserved' = Reserved \cup {a}
    <2>1. AddrOf(f) = a
      BY DEF AddrOf
    <2> QED BY <1>1, <2>1, ReservedWith
  <1>5. Held = {} /\ Held' = {a}
    BY <1>1 DEF Held
  <1>6. Bound' = Bound
    BY <1>1 DEF Bound, AddrOf
  <1>7. Lease!Reserve(a)
    BY <1>3, <1>4, <1>5, <1>6 DEF Lease!Reserve
  <1> QED BY <1>2, <1>7 DEF Lease!LeaseNext

\* CreateARecord
LEMMA BindStep ==
    ASSUME Calm, IInv, CreateA
    PROVE  Lease!LeaseNext
  <1> DEFINE host == Head(mk.hosts)
             a    == [view |-> mk.key.view, ip |-> mk.next]
  <1>1. /\ ~mk.used /\ mk'.used /\ mk.next # Empty /\ mk.next \in IP
        /\ HeldAddr = FixedOf(mk.next, host)
        /\ aRecs' = aRecs \cup {ARec(mk.next, host)} /\ UNCHANGED fixed
    BY CreatedA
  <1>2. a \in Addr
    BY <1>1, HostLocals DEF CreateA, Addr
  <1>3. AddrOf(ARec(mk.next, host)) = a
    BY <1>1 DEF AddrOf, ARec, FixedOf, HeldAddr
  <1>4. Bound' = Bound \cup {a}
    <2>1. Bound' = {AddrOf(r) : r \in aRecs'}
      BY DEF Bound, AddrOf
    <2> QED BY <1>1, <1>3, <2>1 DEF Bound
  <1>5. Held = {a} /\ Held' = {}
    BY <1>1 DEF Held
  <1>6. Reserved' = Reserved
    BY <1>1 DEF Reserved, AddrOf
  <1>7. Lease!Bind(a)
    BY <1>4, <1>5, <1>6 DEF Lease!Bind
  <1> QED BY <1>2, <1>7 DEF Lease!LeaseNext

\* ReleaseAddr, or nothing if the address is used
LEMMA GiveBackStep ==
    ASSUME Calm, IInv, mk.next # Empty, ReleaseUnused(mk.key, mk.next, mk.used),
           UNCHANGED <<store, rm>>, pc' # "start", mk'.next = Empty
    PROVE  [Lease!LeaseNext]_Lease!lease
  <1>1. /\ fixed' = IF mk.used THEN fixed ELSE fixed \ {HeldAddr}
        /\ UNCHANGED aRecs
    BY Releasing
  <1>2. Held' = {}
    BY DEF Held
  <1>3. CASE mk.used
    BY <1>1, <1>2, <1>3, NothingHeld, SameLease
  <1>4. CASE ~mk.used
    <2> DEFINE a == [view |-> mk.key.view, ip |-> mk.next]
    <2>1. HeldAddr \in fixed /\ AddrOf(HeldAddr) = a
      BY DEF IInv, HeldInv, HeldReserved, HeldAddr, AddrOf
    <2>2. a \in Addr
      BY <2>1 DEF Addr, AddrOf, IInv, SparesInv, TypeOK, IpamTypeOK, FixedAddr
    <2>3. Reserved' = Reserved \ {a}
      BY <1>1, <1>4, <2>1, ReservedWithout
    <2>4. Held = {a} /\ Bound' = Bound
      BY <1>1, <1>4 DEF Held, Bound, AddrOf
    <2>5. Lease!GiveBack(a)
      BY <1>2, <2>3, <2>4 DEF Lease!GiveBack
    <2> QED BY <2>2, <2>5 DEF Lease!LeaseNext
  <1> QED BY <1>3, <1>4

\* DeleteARecord
LEMMA VacateStep ==
    ASSUME Calm, IInv, NEW host \in Host0, DeleteLastA(host)
    PROVE  Lease!LeaseNext
  <1> USE DEF IInv, MirrorInv
  <1>1. PICK i \in IP0 : i = rm.ip
    BY DEF SparesInv, TypeOK, CtlrTypeOK, RmType
  <1>2. /\ fixed' = fixed \ {FixedOf(i, host)} /\ aRecs' = aRecs \ {ARec(i, host)}
        /\ FiledAs("A", i, host)
    BY <1>1, DeleteLastAMirrors
  <1>3. FixedOf(i, host) \in fixed /\ ARec(i, host) \in aRecs
    BY <1>2 DEF RecordInv, FixedInv
  <1> DEFINE a == AddrOf(ARec(i, host))
  <1>4. AddrOf(FixedOf(i, host)) = a
    BY DEF AddrOf, FixedOf, ARec
  <1>5. a \in Addr
    BY <1>3 DEF AddrOf, Addr, SparesInv, TypeOK, IpamTypeOK, ARecord
  <1>6. Reserved' = Reserved \ {a}
    BY <1>2, <1>3, <1>4, ReservedWithout
  <1>7. Bound' = Bound \ {a}
    <2>1. Bound' = {AddrOf(r) : r \in aRecs'}
      BY DEF Bound, AddrOf
    <2>2. ASSUME NEW r \in aRecs, AddrOf(r) = a PROVE r = ARec(i, host)
      <3>1. r = [name |-> r.name, ip |-> r.ip, view |-> r.view] /\ r.name \in Host0
        BY DEF SparesInv, TypeOK, IpamTypeOK, ARecord, Host0
      <3>2. r.ip = i /\ FiledAs("A", i, r.name) /\ r.view = Home[r.name].view
        BY <2>2 DEF AddrOf, ARec, RecordInv
      <3>3. r.name = host
        BY <1>2, <3>1, <3>2 DEF RecordInv
      <3> QED BY <3>1, <3>2, <3>3 DEF ARec
    <2> QED BY <1>2, <2>1, <2>2 DEF Bound
  <1>8. a \in Bound
    BY <1>3 DEF Bound
  <1>9. Held = {} /\ Held' = {}
    <2>1. mk.next = Empty /\ mk' = mk
      BY LoopsIdle DEF DeleteLastA, Idle
    <2> QED BY <2>1 DEF Held
  <1> HIDE DEF a
  <1>10. Lease!Vacate(a)
    BY <1>6, <1>7, <1>8, <1>9 DEF Lease!Vacate
  <1> QED BY <1>5, <1>10 DEF Lease!LeaseNext

\* The steps that move on in the create loops, with no other address in use after.
LEMMA LoopSteps ==
    ASSUME Calm, IInv,
           \/ BeginSpec \/ EndSpec \/ EndGroup \/ KnownHost \/ CreateCNAME
           \/ \E k \in GroupKey : BeginSharedGroup(k) \/ BeginUniqueGroup(k)
    PROVE  [Lease!LeaseNext]_Lease!lease
  <1> USE DEF IInv, MirrorInv, SparesInv
  <1>1. mk \in MkType
    BY DEF TypeOK, CtlrTypeOK
  <1>2. ASSUME NEW k \in GroupKey, BeginSharedGroup(k) PROVE Lease!LeaseNext
    <2>1. pc = "groups" /\ pc' = "specs" /\ UNCHANGED <<store, rm>>
      BY <1>2 DEF BeginSharedGroup
    <2>2. mk.next = Empty /\ ~mk.used
      BY <2>1, LoopsIdle DEF Idle
    <2>3. PICK addr \in IP0 : /\ GetNextAddr(k.view, k.cidr, addr)
                              /\ mk'.key = k /\ mk'.next = addr /\ ~mk'.used
      BY <1>1, <1>2, <2>2 DEF BeginSharedGroup, MkType
    <2> QED BY <2>1, <2>2, <2>3, ReserveStep
  <1>3. ASSUME NEW k \in GroupKey, BeginUniqueGroup(k) PROVE UNCHANGED Lease!lease
    <2>1. UNCHANGED <<fixed, aRecs>> /\ pc = "groups" /\ mk'.next = mk.next
      BY <1>1, <1>3 DEF BeginUniqueGroup, ipam, MkType
    <2>2. mk.next = Empty
      BY <2>1, LoopsIdle DEF Idle
    <2> QED BY <2>1, <2>2, SameLease DEF Held
  <1>4. ASSUME BeginSpec PROVE [Lease!LeaseNext]_Lease!lease
    <2> DEFINE spec == Head(mk.specs)
               m    == [mk EXCEPT !.specs = Tail(@), !.hosts = spec,
                                  !.first = FirstHost(@, spec, mk.key)]
    <2>1. /\ pc = "specs" /\ pc' = "hosts" /\ UNCHANGED <<store, rm>> /\ mk.key \in GroupKey
      BY <1>4 DEF BeginSpec, TypeOK, CtlrTypeOK
    <2>2. /\ m.key = mk.key /\ m.next = mk.next /\ m.used = mk.used
          /\ \A addr : LET n == [m EXCEPT !.next = addr, !.cur = addr, !.used = FALSE]
                       IN  n.key = mk.key /\ n.next = addr /\ n.used = FALSE
      BY <1>1 DEF MkType
    <2> HIDE DEF m
    <2>3. CASE Unique(mk.key)
      <3>1. PICK addr \in IP0 : /\ GetNextAddr(mk.key.view, mk.key.cidr, addr)
                                /\ mk' = [m EXCEPT !.next = addr, !.cur = addr, !.used = FALSE]
        BY <1>4, <2>3 DEF BeginSpec, m
      <3>2. mk'.key = mk.key /\ mk'.next = addr /\ ~mk'.used
        BY <2>2, <3>1
      <3>3. mk.next = Empty
        BY <2>1, <2>3 DEF LoopInv
      <3> QED BY <2>1, <3>1, <3>2, <3>3, ReserveStep
    <2>4. CASE ~Unique(mk.key)
      <3>1. mk' = m /\ UNCHANGED <<fixed, aRecs>>
        BY <1>4, <2>4 DEF BeginSpec, m, ipam
      <3> QED BY <2>2, <3>1, SameLease DEF Held
    <2> QED BY <2>3, <2>4
  <1>5. ASSUME EndSpec PROVE [Lease!LeaseNext]_Lease!lease
    <2>1. CASE Unique(mk.key)
      <3>1. /\ ReleaseUnused(mk.key, mk.next, mk.used) /\ UNCHANGED <<store, rm>>
            /\ pc = "hosts" /\ pc' = "specs" /\ mk'.next = Empty
        BY <1>1, <1>5, <2>1 DEF EndSpec, MkType
      <3>2. mk.next # Empty
        BY <3>1 DEF LoopInv
      <3> QED BY <3>1, <3>2, GiveBackStep
    <2>2. CASE ~Unique(mk.key)
      <3>1. UNCHANGED <<mk, fixed, aRecs>>
        BY <1>5, <2>2 DEF EndSpec, ipam
      <3> QED BY <3>1, SameLease DEF Held
    <2> QED BY <2>1, <2>2
  <1>6. ASSUME EndGroup PROVE [Lease!LeaseNext]_Lease!lease
    <2>1. /\ pc = "specs" /\ pc' = "groups" /\ UNCHANGED <<store, rm>> /\ mk'.next = Empty
      BY <1>6 DEF EndGroup, MkIdle
    <2>2. CASE Unique(mk.key)
      <3>1. UNCHANGED <<fixed, aRecs>> /\ mk.next = Empty
        BY <1>6, <2>1, <2>2 DEF EndGroup, ipam, LoopInv
      <3> QED BY <2>1, <3>1, SameLease DEF Held
    <2>3. CASE ~Unique(mk.key)
      <3>1. ReleaseUnused(mk.key, mk.next, mk.used) /\ mk.next # Empty
        BY <1>6, <2>1, <2>3 DEF EndGroup, LoopInv
      <3> QED BY <2>1, <3>1, GiveBackStep
    <2> QED BY <2>2, <2>3
  <1>7. ASSUME KnownHost \/ CreateCNAME PROVE UNCHANGED Lease!lease
    <2>1. UNCHANGED <<fixed, aRecs>>
      BY <1>7 DEF KnownHost, ipam, CreateCNAME, CreateCNAMERecord
    <2>2. mk'.next = mk.next /\ mk'.used = mk.used /\ mk'.key = mk.key
      BY <1>1, <1>7 DEF KnownHost, CreateCNAME, MkType
    <2> QED BY <2>1, <2>2, SameLease DEF Held
  <1> QED BY <1>2, <1>3, <1>4, <1>5, <1>6, <1>7

\* Steps outside of the create loops: no address is held before or after.
LEMMA OtherSteps ==
    ASSUME Calm, IInv,
           \/ Start \/ BeginDelete \/ EndDelete \/ EndPurge \/ WriteIPHosts
           \/ \E g \in GroupConfigs : Receive(g)
           \/ \E ip \in IP0 : DeleteAtIP(ip)
           \/ \E h \in Host0 : PromoteAndDelete(h) \/ DeleteCNAME(h) \/ Purge(h)
    PROVE  UNCHANGED Lease!lease
  <1>1. /\ pc \notin {"specs", "hosts"}
        /\ mk' = mk \/ \E g \in GroupConfigs : BeginProcess(g)
    BY DEF Start, BeginDelete, EndDelete, EndPurge, WriteIPHosts, Receive, DeleteAtIP,
           PromoteAndDelete, DeleteCNAME, Purge
  <1>2. mk.next = Empty /\ mk'.next = Empty
    <2>1. mk.next = Empty
      BY <1>1, LoopsIdle DEF IInv, MirrorInv, Idle
    <2>2. ASSUME NEW g, BeginProcess(g) PROVE mk'.next = Empty
      BY <2>2 DEF BeginProcess, MkIdle
    <2> QED BY <1>1, <2>1, <2>2
  <1>3. Held = {} /\ Held' = {}
    BY <1>2 DEF Held
  <1>4. CASE \/ Start \/ BeginDelete \/ EndDelete \/ EndPurge \/ WriteIPHosts
             \/ \E g \in GroupConfigs : Receive(g)
             \/ \E ip \in IP0 : DeleteAtIP(ip)
             \/ \E h \in Host0 : DeleteCNAME(h) \/ Purge(h)
    <2>1. UNCHANGED <<fixed, aRecs>>
      <3>1. CASE Start
        BY <3>1 DEF Start, GetRecords
      <3>2. CASE \E h \in Host0 : DeleteCNAME(h)
        BY <3>2 DEF DeleteCNAME, DeleteCNAMERecord
      <3>3. CASE ~Start /\ ~\E h \in Host0 : DeleteCNAME(h)
        BY <1>4, <3>3 DEF BeginDelete, EndDelete, EndPurge, WriteIPHosts, Receive, DeleteAtIP,
           Purge, ipam
      <3> QED BY <3>1, <3>2, <3>3
    <2> QED BY <1>3, <2>1, SameLease
  <1>5. ASSUME NEW host \in Host0, PromoteAndDelete(host) PROVE UNCHANGED Lease!lease
    <2>1. PICK newA \in Host : PromotedTo(host, newA)
      BY <1>5, PromotionDone
    <2>2. fixed' = fixed /\ Bound' = Bound
      BY <2>1, PromotedBound
    <2>3. Reserved' = Reserved
      BY <2>2 DEF Reserved, AddrOf
    <2> QED BY <1>3, <2>2, <2>3 DEF Lease!lease
  <1> QED BY <1>4, <1>5

\* Every address of the IPAM system is reserved, bound or given back, and vacated in
\* that order, and a pass holds one at a time (controller.go:129-207).
THEOREM LeaseImplemented == ASSUME Calm PROVE Spec => LeaseLifeCycle
  <1>1. Init => Lease!LeaseInit
    BY DEF Init, IpamInit, Lease!LeaseInit, Bound, Reserved, AddrOf, Held, MkIdle
  <1>2. IInv /\ [Next]_vars => [Lease!LeaseNext]_Lease!lease
    <2> SUFFICES ASSUME IInv, [Next]_vars PROVE [Lease!LeaseNext]_Lease!lease
      OBVIOUS
    <2>1. CASE Work
      BY <2>1, LoopSteps, OtherSteps, BindStep, VacateStep DEF Work
    <2>2. CASE \E g \in GroupConfigs : Receive(g)
      BY <2>2, OtherSteps
    <2>3. ~VerifyTick /\ ~Restart /\ ~ExternalDelete
      BY FaultNone DEF Calm, VerifyTick, Restart, ExternalDelete
    <2>4. CASE UNCHANGED vars
      BY <2>4, SameLease DEF vars, ipam, Held
    <2> QED BY <2>1, <2>2, <2>3, <2>4 DEF Next
  <1> QED BY <1>1, <1>2, MirrorInvariant, PTL DEF Spec, LeaseLifeCycle, Lease!LeaseSpec, Lease!lease

(***************************************************************************)
(* A pass, seen from outside.                                              *)
(***************************************************************************)
\* The names with records are the hosts the store has, except those in toRemove.
NamesAreFiled ==
    /\ Names \subseteq Host /\ Names \subseteq Host0
    /\ \A h \in Host0 : h \in Names <=> rm.gone[h] = 0 /\ Filed(h)

LEMMA NamesFiled == IInv => NamesAreFiled
  <1> SUFFICES ASSUME IInv PROVE NamesAreFiled
    OBVIOUS
  <1> USE DEF IInv, MirrorInv, SparesInv
  <1>1. ASSUME NEW h \in Names PROVE h \in Host0 /\ rm.gone[h] = 0 /\ Filed(h)
    <2>1. h \in Host0
      BY DEF Names, TypeOK, IpamTypeOK, ARecord, CNAMERecord, Host0
    <2>2. CASE \E r \in aRecs : r.name = h
      BY <2>1, <2>2 DEF RecordInv, FiledAs, Filed, TypeOK, IpamTypeOK, ARecord, IP0
    <2>3. CASE \E c \in cnames : c.name = h
      BY <2>1, <2>3 DEF RecordInv, FiledAs, Filed
    <2> QED BY <2>2, <2>3 DEF Names
  <1>2. ASSUME NEW h \in Host0, rm.gone[h] = 0, Filed(h) PROVE h \in Names
    <2>1. PICK i \in IP0 : FiledAs("A", i, h) \/ FiledAs("CNAME", i, h)
      BY <1>2, FiledKinds DEF Filed
    <2>2. CASE FiledAs("A", i, h)
      <3>1. ARec(i, h) \in aRecs /\ ARec(i, h).name = h
        BY <2>2 DEF RecordInv, ARec
      <3> QED BY <3>1 DEF Names
    <2>3. CASE FiledAs("CNAME", i, h)
      BY <2>3 DEF RecordInv, Names
    <2> QED BY <2>1, <2>2, <2>3
  <1>3. Names \subseteq Host
    BY DEF Names, TypeOK, IpamTypeOK, ARecord, CNAMERecord
  <1> QED BY <1>1, <1>2, <1>3 DEF NamesAreFiled

LEMMA SameNames == ASSUME UNCHANGED <<aRecs, cnames>> PROVE Names' = Names
  BY DEF Names

LEMMA AskStep ==
    ASSUME NEW g \in GroupConfigs, Receive(g)
    PROVE  Reconciliation!RNext
  <1>1. groups' = g /\ g \in GroupsType /\ UNCHANGED <<aRecs, cnames>>
        /\ pc = "select" /\ pc' = "groups"
    BY GroupAssumption DEF Receive, BeginProcess, ipam
  <1>2. HostsIn(groups') \in SUBSET Host
    BY <1>1, HostsInHost
  <1>3. Reconciliation!Ask(HostsIn(groups'))
    BY <1>1, SameNames DEF Reconciliation!Ask
  <1> QED BY <1>1, <1>2, <1>3 DEF Reconciliation!RNext

\* CreateARecord, CreateCNAMERecord
LEMMA CreateStep ==
    ASSUME Calm, IInv, CreateA \/ CreateCNAME
    PROVE  Reconciliation!RNext
  <1> DEFINE host == Head(mk.hosts)
  <1>1. /\ pc = "hosts" /\ pc' = pc /\ mk.hosts # <<>> /\ groups' = groups
        /\ Empty \in GetIP(store, host)
    BY DEF CreateA, CreateCNAME
  <1>2. host \in Host /\ host \in HostsIn(groups)
    BY <1>1, HostLocals DEF IInv, MirrorInv, WantInv
  <1>3. host \notin Names
    BY <1>1, NewHost DEF Names
  <1>4. Names' = Names \cup {host}
    <2>1. Names' = {r.name : r \in aRecs'} \cup {c.name : c \in cnames'}
      BY DEF Names
    <2>2. CASE CreateA
      <3>1. /\ aRecs' = aRecs \cup {ARec(mk.next, host)} /\ cnames' = cnames
            /\ ARec(mk.next, host).name = host
        BY <2>2, CreatedA DEF ARec
      <3> QED BY <2>1, <3>1 DEF Names
    <2>3. CASE CreateCNAME
      <3> DEFINE c == [name |-> host, canonical |-> mk.first, view |-> Home[host].view]
      <3>1. cnames' = cnames \cup {c} /\ aRecs' = aRecs /\ c.name = host
        BY <2>3, CreatedCNAME
      <3> HIDE DEF c
      <3> QED BY <2>1, <3>1 DEF Names
    <2> QED BY <2>2, <2>3
  <1>5. Reconciliation!Create(host)
    BY <1>1, <1>2, <1>3, <1>4, SameHosts DEF Reconciliation!Create
  <1> QED BY <1>2, <1>5 DEF Reconciliation!RNext

\* CNAMEToA, DeleteARecord, DeleteCNAMERecord
LEMMA DeleteStep ==
    ASSUME Calm, IInv, IInv', NEW host \in Host0,
           PromoteAndDelete(host) \/ DeleteLastA(host) \/ DeleteCNAME(host)
    PROVE  Reconciliation!RNext
  <1> USE DEF IInv, SparesInv
  <1>1. /\ pc = "delete" /\ pc' = pc /\ UNCHANGED <<groups, mk>> /\ host \in rm.left
    BY DEF PromoteAndDelete, DeleteLastA, DeleteCNAME
  <1>2. HostsIn(groups) \subseteq Host /\ HostsIn(groups) \subseteq Host0
    BY HostsInHost DEF TypeOK, CtlrTypeOK, Host0
  <1>3. Deleted(host, {}) /\ \A i \in IP0, h \in Host0 :
           store'.records[i][h] # "none" <=> store.records[i][h] # "none"
    <2>1. CASE PromoteAndDelete(host)
      <3>1. PICK newA \in Host : PromotedTo(host, newA)
        BY <2>1, PromotionDone
      <3> QED BY <3>1 DEF PromotedTo, FiledAs
    <2>2. CASE DeleteLastA(host) \/ DeleteCNAME(host)
      BY <2>2 DEF DeleteLastA, DeleteCNAME
    <2> QED BY <2>1, <2>2
  <1>4. \A h \in Host0 : rm'.gone[h] = IF h = host THEN 1 ELSE rm.gone[h]
    BY <1>1, <1>3, DeletedMirrors
  <1>5. \A h \in Host0 : Filed(h)' <=> Filed(h)
    BY <1>3 DEF Filed
  <1>6. Names' = Names \ {host}
    <2>1. NamesAreFiled /\ NamesAreFiled'
      BY NamesFiled, PTL
    <2> QED BY <1>4, <1>5, <2>1 DEF NamesAreFiled
  <1>7. HostsIn(groups) \subseteq Names /\ host \notin HostsIn(groups)
    <2>1. \A h \in HostsIn(groups) : Filed(h) /\ rm.gone[h] = 0
      BY <1>1 DEF MirrorInv, WantInv, LoopsSpare
    <2> QED BY <1>1, <1>2, <2>1, NamesFiled DEF LoopsSpare, NamesAreFiled
  <1>8. Reconciliation!Delete(host)
    BY <1>1, <1>6, <1>7, SameHosts DEF Reconciliation!Delete
  <1>9. host \in Host
    BY <1>1, FiledAddress DEF MirrorInv, DeleteInv, HostsOf, TypeOK, CtlrTypeOK, RmType
  <1> QED BY <1>8, <1>9 DEF Reconciliation!RNext

LEMMA FinishStep ==
    ASSUME IInv, EndPurge
    PROVE  Reconciliation!RNext
  <1> USE DEF IInv, SparesInv
  <1>1. /\ pc = "purge" /\ pc' \in {"select", "write"} /\ \A h \in Host0 : rm.gone[h] = 0
        /\ groups' = groups /\ UNCHANGED <<aRecs, cnames>>
    BY DEF EndPurge, ipam
  <1>2. HostsIn(groups) \subseteq Host0
    BY HostsInHost DEF TypeOK, CtlrTypeOK, Host0
  <1>3. Names = HostsIn(groups)
    <2>1. \A h \in HostsIn(groups) : Filed(h)
      BY <1>1 DEF MirrorInv, WantInv
    <2>2. \A h \in Host0 : Filed(h) => h \in HostsIn(groups)
      BY <1>1 DEF MirrorInv, WantInv, Filed
    <2> QED BY <1>1, <1>2, <2>1, <2>2, NamesFiled DEF NamesAreFiled
  <1>4. Reconciliation!Finish
    BY <1>1, <1>3, SameNames, SameHosts DEF Reconciliation!Finish
  <1> QED BY <1>4 DEF Reconciliation!RNext

\* The steps that nobody sees from outside.
LEMMA HiddenSteps ==
    ASSUME IInv,
           \/ Start \/ BeginSpec \/ KnownHost \/ EndSpec \/ EndGroup
           \/ BeginDelete \/ EndDelete \/ WriteIPHosts
           \/ \E k \in GroupKey : BeginSharedGroup(k) \/ BeginUniqueGroup(k)
           \/ \E ip \in IP0 : DeleteAtIP(ip)
           \/ \E h \in Host0 : Purge(h)
    PROVE  /\ UNCHANGED <<HostsIn(groups), Names>>
           /\ pc' \in {"groups", "specs", "hosts", "delete", "purge"} <=>
              pc \in {"groups", "specs", "hosts", "delete", "purge"}
  <1>1. groups' = groups
    BY DEF Start, BeginSpec, KnownHost, EndSpec, EndGroup, BeginDelete, EndDelete,
           WriteIPHosts, BeginSharedGroup, BeginUniqueGroup, DeleteAtIP, Purge
  <1>2. UNCHANGED <<aRecs, cnames>>
    <2>1. CASE Start \/ BeginSpec \/ KnownHost \/ EndSpec \/ EndGroup
      <3>1. CASE Start
        BY <3>1 DEF Start, GetRecords
      <3>2. CASE BeginSpec \/ KnownHost
        BY <3>2 DEF BeginSpec, KnownHost, GetNextAddr, ipam
      <3>3. CASE EndSpec \/ EndGroup
        BY <3>3 DEF EndSpec, EndGroup, ReleaseUnused, ReleaseAddr, ipam
      <3> QED BY <2>1, <3>1, <3>2, <3>3
    <2>2. CASE \E k \in GroupKey : BeginSharedGroup(k) \/ BeginUniqueGroup(k)
      BY <2>2 DEF BeginSharedGroup, BeginUniqueGroup, GetNextAddr, ipam
    <2>3. CASE \/ BeginDelete \/ EndDelete \/ WriteIPHosts
               \/ \E ip \in IP0 : DeleteAtIP(ip)
               \/ \E h \in Host0 : Purge(h)
      BY <2>3 DEF BeginDelete, EndDelete, WriteIPHosts, DeleteAtIP, Purge, ipam
    <2> QED BY <2>1, <2>2, <2>3
  <1>3. pc' \in {"groups", "specs", "hosts", "delete", "purge"} <=>
        pc \in {"groups", "specs", "hosts", "delete", "purge"}
    BY DEF Start, BeginSpec, KnownHost, EndSpec, EndGroup, BeginDelete, EndDelete,
           WriteIPHosts, BeginSharedGroup, BeginUniqueGroup, DeleteAtIP, Purge
  <1> QED BY <1>1, <1>2, <1>3, SameNames, SameHosts

\* A pass gives every new host of the groups a record before it takes any away, takes
\* records only from hosts in no group, and ends with the records of the groups'
\* hosts and no others (processIPGroups, controller.go:121-220).
THEOREM PassesReconcile == ASSUME Calm PROVE Spec => Reconciles
  <1> DEFINE passing == pc \in {"groups", "specs", "hosts", "delete", "purge"}
  <1>1. Init => Reconciliation!RInit
    <2> SUFFICES ASSUME Init PROVE Reconciliation!RInit
      OBVIOUS
    <2>1. HostsIn(groups) = {}
      BY DEF Init, HostsIn, NoGroups
    <2>2. Names = {} /\ pc = "start"
      BY DEF Init, IpamInit, Names
    <2> QED BY <2>1, <2>2 DEF Reconciliation!RInit
  <1>2. IInv /\ IInv' /\ [Next]_vars
           => [Reconciliation!RNext]_<<HostsIn(groups), Names, passing>>
    <2> SUFFICES ASSUME IInv, IInv', [Next]_vars
                 PROVE  [Reconciliation!RNext]_<<HostsIn(groups), Names, passing>>
      OBVIOUS
    <2>1. CASE Work
      BY <2>1, HiddenSteps, CreateStep, DeleteStep, FinishStep DEF Work
    <2>2. CASE \E g \in GroupConfigs : Receive(g)
      BY <2>2, AskStep
    <2>3. ~VerifyTick /\ ~Restart /\ ~ExternalDelete
      BY FaultNone DEF Calm, VerifyTick, Restart, ExternalDelete
    <2>4. CASE UNCHANGED vars
      BY <2>4, SameNames, SameHosts DEF vars, ipam
    <2> QED BY <2>1, <2>2, <2>3, <2>4 DEF Next
  <1> QED BY <1>1, <1>2, MirrorInvariant, PTL DEF Spec, Reconciles, Reconciliation!RSpec
=============================================================================
