--------------------------- MODULE InfobloxProofs ---------------------------
(***************************************************************************)
(* Facts about the IPAM client's calls and the store's operations: every   *)
(* one keeps the types, and what a failing request can change is bounded;  *)
(* and what exactly the calls do when no request fails.                    *)
(***************************************************************************)
EXTENDS Infoblox, TLAPS

\* A store stays a store when AddRecord (store.go:41) files a host.
LEMMA AddRecordType ==
    ASSUME NEW st \in Stores, NEW ip \in IP0, NEW host \in Host0,
           NEW type \in RecordType, NEW view \in View0, NEW cidr \in Cidr0
    PROVE  AddRecord(st, ip, host, type, view, cidr) \in Stores
  BY DEF AddRecord, Stores

\* A store stays a store when deleteHost (store.go:70) removes a host.
LEMMA DeleteHostType ==
    ASSUME NEW st \in Stores, NEW ip \in IP0, NEW host \in Host0
    PROVE  DeleteHost(st, ip, host) \in Stores
  BY DEF DeleteHost, Stores, RecordType, View0, Cidr0

LEMMA NewStoreType == NewStore \in Stores
  BY DEF NewStore, Stores, RecordType, View0, Cidr0

\* GetIP (store.go:102) answers with an address that holds the host, or with "".
LEMMA GetIPType ==
    ASSUME NEW st, NEW host, NEW ip \in GetIP(st, host)
    PROVE  ip \in IP0
  BY DEF GetIP, IPsOf, IP0

\* What a failing request leaves of the fault counter.
LEMMA CountFaultType ==
    ASSUME NEW f, faults \in Nat, CountFault(f)
    PROVE  faults' \in Nat
  BY DEF CountFault

LEMMA RefTypes ==
    /\ NoRef \in Refs /\ EmptyRef \in Refs
    /\ \A ip \in IP0, view \in View0 : ARef(ip, view) \in Refs
    /\ \A view \in View0 : CNAMERef(view) \in Refs
  BY DEF NoRef, EmptyRef, ARef, CNAMERef, Refs, IP0, View0

\* CreateARecord (infoblox.go:111) keeps the types.
LEMMA CreateARecordType ==
    ASSUME IpamTypeOK, NEW name \in Host, NEW ip \in IP0, NEW view \in View,
           NEW created \in BOOLEAN, CreateARecord(name, ip, view, created)
    PROVE  IpamTypeOK'
  <1>1. PICK f \in Fault({"getA", "post", "lost"}) :
          LET stored == created /\ f # "post" /\ AcceptsA(name, ip, view)
          IN  /\ aRecs' = IF stored
                          THEN aRecs \cup {[name |-> name, ip |-> ip, view |-> view]}
                          ELSE aRecs
              /\ recordRef' = IF ~created THEN recordRef
                              ELSE [recordRef EXCEPT ![name] =
                                      IF stored /\ f # "lost" THEN ARef(ip, view)
                                      ELSE EmptyRef]
              /\ CountFault(f)
              /\ UNCHANGED <<cnames, fixed>>
    BY DEF CreateARecord
  <1>2. aRecs' \subseteq ARecord
    BY <1>1 DEF IpamTypeOK, AcceptsA, ARecord
  <1>3. recordRef' \in [Host0 -> Refs]
    BY <1>1, RefTypes DEF IpamTypeOK, Host0, View0
  <1> QED BY <1>1, <1>2, <1>3, CountFaultType DEF IpamTypeOK

\* CreateCNAMERecord (infoblox.go:167) keeps the types.
LEMMA CreateCNAMERecordType ==
    ASSUME IpamTypeOK, NEW name \in Host, NEW canonical \in Host, NEW view \in View,
           CreateCNAMERecord(name, canonical, view)
    PROVE  IpamTypeOK'
  <1> DEFINE rec == [name |-> name, canonical |-> canonical, view |-> view]
  <1>1. PICK f : /\ cnames' = cnames \/ cnames' = cnames \cup {rec}
                 /\ \/ recordRef' = recordRef
                    \/ \E r \in {CNAMERef(view), EmptyRef} :
                          recordRef' = [recordRef EXCEPT ![name] = r]
                 /\ CountFault(f)
                 /\ UNCHANGED <<aRecs, fixed>>
    BY DEF CreateCNAMERecord
  <1>2. cnames' \subseteq CNAMERecord
    BY <1>1 DEF IpamTypeOK, CNAMERecord
  <1>3. recordRef' \in [Host0 -> Refs]
    BY <1>1, RefTypes DEF IpamTypeOK, Host0, View0
  <1> QED BY <1>1, <1>2, <1>3, CountFaultType DEF IpamTypeOK

\* ReleaseIP takes away one fixed address at most, and gives none.
LEMMA ReleasedSubset ==
    ASSUME NEW view, NEW cidr, NEW ip, NEW f, NEW left \in Released(view, cidr, ip, f)
    PROVE  left \subseteq fixed
  BY DEF Released

\* ReleaseAddr (infoblox.go:280) keeps the types.
LEMMA ReleaseAddrType ==
    ASSUME IpamTypeOK, NEW view, NEW cidr, NEW ip, ReleaseAddr(view, cidr, ip)
    PROVE  IpamTypeOK'
  <1>1. PICK f : /\ fixed' \in Released(view, cidr, ip, f)
                 /\ CountFault(f)
                 /\ UNCHANGED <<aRecs, cnames, recordRef>>
    BY DEF ReleaseAddr
  <1> QED BY <1>1, ReleasedSubset, CountFaultType DEF IpamTypeOK

\* DeleteARecord (infoblox.go:133) keeps the types and creates nothing.
LEMMA DeleteARecordType ==
    ASSUME IpamTypeOK, NEW name, NEW ip, NEW view, NEW cidr,
           DeleteARecord(name, ip, view, cidr)
    PROVE  IpamTypeOK'
  <1>1. PICK f : /\ aRecs' \subseteq aRecs
                 /\ \/ recordRef' = recordRef
                    \/ recordRef' = [recordRef EXCEPT ![name] = NoRef]
                 /\ fixed' \in {fixed} \cup Released(view, cidr, ip, f)
                 /\ CountFault(f)
                 /\ UNCHANGED cnames
    BY DEF DeleteARecord
  <1>2. recordRef' \in [Host0 -> Refs]
    BY <1>1, RefTypes DEF IpamTypeOK
  <1> QED BY <1>1, <1>2, ReleasedSubset, CountFaultType DEF IpamTypeOK

\* DeleteCNAMERecord (infoblox.go:188) keeps the types.
LEMMA DeleteCNAMERecordType ==
    ASSUME IpamTypeOK, NEW name, NEW ip, NEW view, NEW cidr,
           DeleteCNAMERecord(name, ip, view, cidr)
    PROVE  IpamTypeOK'
  <1>1. PICK f : /\ cnames' \subseteq cnames
                 /\ \/ recordRef' = recordRef
                    \/ recordRef' = [recordRef EXCEPT ![name] = NoRef]
                 /\ CountFault(f)
                 /\ UNCHANGED <<aRecs, fixed>>
    BY DEF DeleteCNAMERecord
  <1>2. recordRef' \in [Host0 -> Refs]
    BY <1>1, RefTypes DEF IpamTypeOK
  <1> QED BY <1>1, <1>2, CountFaultType DEF IpamTypeOK

\* GetNextAddr (infoblox.go:271) answers with an address of the network, which is
\* reserved from then on, or with "".
LEMMA GetNextAddrType ==
    ASSUME IpamTypeOK, NEW view \in View, NEW cidr \in Cidr, NEW addr \in IP0,
           GetNextAddr(view, cidr, addr)
    PROVE  /\ IpamTypeOK'
           /\ fixed \subseteq fixed'
           /\ addr # Empty => [view |-> view, cidr |-> cidr, ip |-> addr] \in fixed'
  <1>1. PICK f \in Fault({"alloc", "lost"}) :
          /\ \/ addr = Empty /\ fixed' = fixed
             \/ \E i \in Free(view, cidr) :
                   /\ addr = IF f = "lost" THEN Empty ELSE i
                   /\ fixed' = fixed \cup {[view |-> view, cidr |-> cidr, ip |-> i]}
          /\ CountFault(f)
          /\ UNCHANGED <<aRecs, cnames, recordRef>>
    BY DEF GetNextAddr
  <1>2. Free(view, cidr) \subseteq IP
    BY PoolAssumption DEF Free
  <1>3. fixed' \subseteq FixedAddr
    BY <1>1, <1>2 DEF IpamTypeOK, FixedAddr
  <1>4. IpamTypeOK'
    BY <1>1, <1>3, CountFaultType DEF IpamTypeOK
  <1>5. fixed \subseteq fixed' /\ (addr # Empty => [view |-> view, cidr |-> cidr, ip |-> addr] \in fixed')
    BY <1>1
  <1> QED BY <1>4, <1>5

\* The part of CNAMEToA (infoblox.go:214) that promotes a CNAME keeps the types,
\* and gives and takes no address.
LEMMA PromoteCNAMEType ==
    ASSUME IpamTypeOK, NEW avail \in SUBSET Host0, NEW delHost \in Host0, NEW ip \in IP0,
           NEW view, NEW cidr, NEW a \in Host0, NEW t, NEW f, NEW done \in SUBSET Host0,
           PromoteCNAME(avail, delHost, ip, view, cidr, a, t, f, done)
    PROVE  IpamTypeOK' /\ fixed' = fixed
  <1> DEFINE old   == [name |-> delHost, ip |-> recordRef[delHost].ip,
                       view |-> recordRef[delHost].view]
             new   == [name |-> IF a = Empty THEN delHost ELSE a,
                       ip   |-> IF ip = Empty THEN old.ip ELSE ip,
                       view |-> old.view]
             asked == CNAMEsToDelete(a, ip, view, cidr, f)
             left  == IF f = "delete" THEN cnames ELSE cnames \ asked
             putA  == /\ ~(f = "put" /\ t = a)
                      /\ recordRef[delHost].kind = "A" /\ old \in aRecs
                      /\ \A c \in left : ~(c.name = new.name /\ c.view = new.view)
             putC(h) == /\ ~(f = "put" /\ t = h)
                        /\ recordRef[h].kind = "CNAME"
                        /\ \E c \in left : c.name = h /\ c.view = recordRef[h].view
             answered(h) == ~(f = "lost" /\ t = h)
  <1>1. /\ aRecs' = IF putA THEN (aRecs \ {old}) \cup {new} ELSE aRecs
        /\ cnames' = {IF /\ a # Empty /\ c.name \in done /\ putC(c.name)
                         /\ c.view = recordRef[c.name].view
                      THEN [c EXCEPT !.canonical = a] ELSE c : c \in left}
        /\ recordRef' =
              [h \in Host0 |->
                 IF h = a
                 THEN IF putA /\ answered(a) THEN ARef(new.ip, new.view) ELSE EmptyRef
                 ELSE IF h \in done
                 THEN IF putC(h) /\ answered(h) THEN recordRef[h] ELSE EmptyRef
                 ELSE recordRef[h]]
        /\ CountFault(f)
        /\ UNCHANGED fixed
    BY DEF PromoteCNAME
  <1>2. putA => new \in ARecord /\ old \in ARecord
    <2> SUFFICES ASSUME putA PROVE new \in ARecord /\ old \in ARecord
      OBVIOUS
    <2>1. old \in ARecord
      BY DEF IpamTypeOK
    <2>2. delHost \in Host /\ old.ip \in IP /\ old.view \in View
      BY <2>1 DEF ARecord
    <2> HIDE DEF old
    <2>3. new \in ARecord
      BY <2>2 DEF ARecord, Host0, IP0
    <2> QED BY <2>1, <2>3
  <1>3. aRecs' \subseteq ARecord
    BY <1>1, <1>2 DEF IpamTypeOK
  <1>4. left \subseteq CNAMERecord
    BY DEF IpamTypeOK
  <1>5. cnames' \subseteq CNAMERecord
    <2>1. \A c \in CNAMERecord : a # Empty => [c EXCEPT !.canonical = a] \in CNAMERecord
      BY DEF CNAMERecord, Host0
    <2> HIDE DEF left, putC
    <2> QED BY <1>1, <1>4, <2>1
  <1>6. recordRef' \in [Host0 -> Refs]
    <2>1. putA => ARef(new.ip, new.view) \in Refs
      BY <1>2, RefTypes DEF ARecord, IP0, View0
    <2> HIDE DEF putA, putC, new, answered
    <2> QED BY <1>1, <2>1, RefTypes DEF IpamTypeOK
  <1> QED BY <1>1, <1>3, <1>5, <1>6, CountFaultType DEF IpamTypeOK

\* CNAMEToA (infoblox.go:214) keeps the types.
LEMMA CNAMEToAType ==
    ASSUME IpamTypeOK, NEW avail \in SUBSET Host0, NEW delHost \in Host0, NEW ip \in IP0,
           NEW view, NEW cidr, NEW newA \in Host0,
           CNAMEToA(avail, delHost, ip, view, cidr, newA)
    PROVE  IpamTypeOK'
  <1>1. CASE recordRef[delHost].kind = "absent"
    BY <1>1, DeleteARecordType DEF CNAMEToA
  <1>2. CASE recordRef[delHost].kind # "absent"
    <2>1. PICK a \in avail, f \in Fault({"get", "cidr", "delete", "put", "lost"}) :
             \E t \in IF f \in {"put", "lost"} THEN avail ELSE {a},
                done \in IF {h \in avail \ {a} : recordRef[h].kind = "absent"} = {}
                         THEN {avail \ {a}}
                         ELSE SUBSET ((avail \ {a})
                                 \ {h \in avail \ {a} : recordRef[h].kind = "absent"}) :
                PromoteCNAME(avail, delHost, ip, view, cidr, a, t, f, done)
      BY <1>2 DEF CNAMEToA
    <2>2. PICK t, done :
             /\ \/ done = avail \ {a}
                \/ done \in SUBSET ((avail \ {a})
                                 \ {h \in avail \ {a} : recordRef[h].kind = "absent"})
             /\ PromoteCNAME(avail, delHost, ip, view, cidr, a, t, f, done)
      BY <2>1
    <2>3. done \in SUBSET Host0 /\ a \in Host0
      BY <2>2
    <2> QED BY <2>2, <2>3, PromoteCNAMEType
  <1> QED BY <1>1, <1>2

LEMMA getNetworkCIDRType ==
    ASSUME NEW view, NEW ip
    PROVE  getNetworkCIDR(view, ip) \in Cidr0
  BY DEF getNetworkCIDR, Cidr0

LEMMA StoreFromType ==
    ASSUME NEW whole, NEW part, NEW addrOf, NEW lastView \in [IP0 -> View], NEW failed
    PROVE  StoreFrom(whole, part, addrOf, lastView, failed) \in Stores
  BY getNetworkCIDRType DEF StoreFrom, Stores, RecordType, View0, Cidr0

\* GetRecords (infoblox.go:285) returns a store, and keeps the IPAM system.
LEMMA GetRecordsType ==
    ASSUME IpamTypeOK, NEW st, GetRecords(st)
    PROVE  IpamTypeOK' /\ st \in Stores /\ UNCHANGED <<aRecs, cnames, fixed, recordRef>>
  <1>1. PICK f \in Fault({"list", "cidr"}) :
          \E whole \in SUBSET Zone, part \in SUBSET Zone, addrOf \in [cnames -> IP0],
             lastView \in [IP0 -> View], failed \in IF f = "cidr" THEN IP ELSE {Empty} :
             /\ st = StoreFrom(whole, part, addrOf, lastView, failed)
             /\ CountFault(f)
             /\ UNCHANGED <<aRecs, cnames, fixed, recordRef>>
    BY DEF GetRecords
  <1>2. PICK whole \in SUBSET Zone, part \in SUBSET Zone, addrOf \in [cnames -> IP0],
             lastView \in [IP0 -> View], failed \in IF f = "cidr" THEN IP ELSE {Empty} :
             /\ st = StoreFrom(whole, part, addrOf, lastView, failed)
             /\ CountFault(f)
             /\ UNCHANGED <<aRecs, cnames, fixed, recordRef>>
    BY <1>1
  <1> QED BY <1>2, StoreFromType, CountFaultType DEF IpamTypeOK

(***************************************************************************)
(* What the store's operations do, entry by entry.                         *)
(***************************************************************************)
\* AddRecord (store.go:41) files the one host, and gives the address its network.
LEMMA AddRecordEffect ==
    ASSUME NEW st \in Stores, NEW ip \in IP0, NEW host \in Host0,
           NEW type \in RecordType, NEW view \in View0, NEW cidr \in Cidr0,
           NEW new, new = AddRecord(st, ip, host, type, view, cidr),
           st.records[ip][host] = "none"
    PROVE  \A i \in IP0 :
              /\ \A h \in Host0 : new.records[i][h] =
                    IF i = ip /\ h = host THEN type ELSE st.records[i][h]
              /\ new.netviews[i] = IF i = ip THEN view ELSE st.netviews[i]
              /\ new.cidrs[i] = IF i = ip THEN cidr ELSE st.cidrs[i]
  BY DEF AddRecord, Stores

\* deleteHost (store.go:70) removes the one host; an address that others are filed
\* under keeps its network.
LEMMA DeleteHostEffect ==
    ASSUME NEW st \in Stores, NEW ip \in IP0, NEW host \in Host0,
           NEW new, new = DeleteHost(st, ip, host)
    PROVE  \A i \in IP0, h \in Host0 :
              /\ new.records[i][h] =
                    IF i = ip /\ h = host THEN "none" ELSE st.records[i][h]
              /\ new.records[i][h] # "none" =>
                    new.netviews[i] = st.netviews[i] /\ new.cidrs[i] = st.cidrs[i]
  <1> DEFINE last == HostsOf(st, ip) \subseteq {host}
  <1>1. \A i \in IP0, h \in Host0 :
           new.records[i][h] = IF i = ip /\ h = host THEN "none" ELSE st.records[i][h]
    BY DEF DeleteHost, Stores
  <1>2. /\ new.netviews = [st.netviews EXCEPT ![ip] = IF last THEN Empty ELSE @]
        /\ new.cidrs = [st.cidrs EXCEPT ![ip] = IF last THEN Empty ELSE @]
    BY DEF DeleteHost
  <1>3. ASSUME NEW i \in IP0, NEW h \in Host0, new.records[i][h] # "none"
        PROVE  new.netviews[i] = st.netviews[i] /\ new.cidrs[i] = st.cidrs[i]
    <2>1. i = ip => ~last
      BY <1>1, <1>3 DEF HostsOf
    <2> HIDE DEF last
    <2> QED BY <1>2, <2>1 DEF Stores
  <1> QED BY <1>1, <1>3

(***************************************************************************)
(* What the client's calls do when no request can fail.                    *)
(***************************************************************************)
LEMMA FaultNone == ASSUME FaultKinds = {}, NEW kinds PROVE Fault(kinds) = {"none"}
  BY DEF Fault

\* CreateARecord (infoblox.go:111) for a new name.
LEMMA CreateARecordDone ==
    ASSUME FaultKinds = {}, NEW name \in Host, NEW ip \in IP, NEW view, NEW created \in BOOLEAN,
           CreateARecord(name, ip, view, created),
           [name |-> name, ip |-> ip, view |-> view] \notin aRecs, CNAMEsOf(name, view) = {}
    PROVE  /\ created
           /\ aRecs' = aRecs \cup {[name |-> name, ip |-> ip, view |-> view]}
           /\ recordRef' = [recordRef EXCEPT ![name] = ARef(ip, view)]
           /\ UNCHANGED <<cnames, fixed>>
  BY FaultNone DEF CreateARecord, AcceptsA

\* CreateCNAMERecord (infoblox.go:167) for a new name.
LEMMA CreateCNAMERecordDone ==
    ASSUME FaultKinds = {}, NEW name, NEW canonical, NEW view,
           CreateCNAMERecord(name, canonical, view),
           CNAMEsOf(name, view) = {}, AsOf(name, view) = {}
    PROVE  /\ cnames' = cnames \cup {[name |-> name, canonical |-> canonical, view |-> view]}
           /\ recordRef' = [recordRef EXCEPT ![name] = CNAMERef(view)]
           /\ UNCHANGED <<aRecs, fixed>>
  BY FaultNone DEF CreateCNAMERecord, AcceptsCNAME

\* A search by a whole fixed address finds that one.
LEMMA ReleasedOne ==
    ASSUME IpamTypeOK, NEW view \in View, NEW cidr \in Cidr, NEW ip \in IP,
           [view |-> view, cidr |-> cidr, ip |-> ip] \in fixed
    PROVE  Released(view, cidr, ip, "none") =
              {fixed \ {[view |-> view, cidr |-> cidr, ip |-> ip]}}
  <1>1. view # Empty /\ cidr # Empty /\ ip # Empty
    BY EmptyAssumption
  <1>2. FixedMatching(view, cidr, ip) = {[view |-> view, cidr |-> cidr, ip |-> ip]}
    BY <1>1 DEF FixedMatching, IpamTypeOK, FixedAddr
  <1> QED BY <1>2 DEF Released

\* ReleaseAddr (infoblox.go:280) of a reserved address.
LEMMA ReleaseAddrDone ==
    ASSUME FaultKinds = {}, IpamTypeOK, NEW view \in View, NEW cidr \in Cidr, NEW ip \in IP,
           [view |-> view, cidr |-> cidr, ip |-> ip] \in fixed,
           ReleaseAddr(view, cidr, ip)
    PROVE  /\ fixed' = fixed \ {[view |-> view, cidr |-> cidr, ip |-> ip]}
           /\ UNCHANGED <<aRecs, cnames, recordRef>>
  <1>1. fixed' \in Released(view, cidr, ip, "none") /\ UNCHANGED <<aRecs, cnames, recordRef>>
    BY FaultNone DEF ReleaseAddr
  <1> QED BY <1>1, ReleasedOne

\* DeleteARecord (infoblox.go:133) of a record in the network the caller names.
LEMMA DeleteARecordDone ==
    ASSUME FaultKinds = {}, IpamTypeOK,
           NEW name, NEW ip \in IP, NEW view \in View, NEW cidr \in Cidr,
           [name |-> name, ip |-> ip, view |-> view] \in aRecs,
           [view |-> view, cidr |-> cidr, ip |-> ip] \in fixed,
           getNetworkCIDR(view, ip) = cidr,
           DeleteARecord(name, ip, view, cidr)
    PROVE  /\ aRecs' = aRecs \ {[name |-> name, ip |-> ip, view |-> view]}
           /\ recordRef' = [recordRef EXCEPT ![name] = NoRef]
           /\ fixed' = fixed \ {[view |-> view, cidr |-> cidr, ip |-> ip]}
           /\ UNCHANGED cnames
  <1> DEFINE rec == [name |-> name, ip |-> ip, view |-> view]
             asked == rec \in aRecs /\ LookupCIDR(view, ip, "none") = cidr
  <1>1. /\ aRecs' = IF asked THEN aRecs \ {rec} ELSE aRecs
        /\ recordRef' = IF asked THEN [recordRef EXCEPT ![name] = NoRef] ELSE recordRef
        /\ fixed' \in Released(view, cidr, ip, "none")
        /\ UNCHANGED cnames
    BY FaultNone DEF DeleteARecord
  <1>2. asked
    BY DEF LookupCIDR
  <1> QED BY <1>1, <1>2, ReleasedOne

\* DeleteCNAMERecord (infoblox.go:188) of records in the network the caller names.
LEMMA DeleteCNAMERecordDone ==
    ASSUME FaultKinds = {}, NEW name, NEW ip, NEW view, NEW cidr,
           CNAMEsOf(name, view) # {}, getNetworkCIDR(view, ip) = cidr,
           DeleteCNAMERecord(name, ip, view, cidr)
    PROVE  /\ cnames' = cnames \ CNAMEsOf(name, view)
           /\ recordRef' = [recordRef EXCEPT ![name] = NoRef]
           /\ UNCHANGED <<aRecs, fixed>>
  BY FaultNone DEF DeleteCNAMERecord, CNAMEsToDelete, LookupCIDR

\* GetNextAddr (infoblox.go:271) while the network has free addresses.
LEMMA GetNextAddrDone ==
    ASSUME FaultKinds = {}, NEW view, NEW cidr, NEW addr,
           Free(view, cidr) # {}, GetNextAddr(view, cidr, addr)
    PROVE  /\ addr \in Free(view, cidr)
           /\ fixed' = fixed \cup {[view |-> view, cidr |-> cidr, ip |-> addr]}
           /\ UNCHANGED <<aRecs, cnames, recordRef>>
  BY FaultNone DEF GetNextAddr

\* The hosts have CNAMEs in the view, and recordRef has the refs.
HaveCNAMEs(hosts, view) ==
    \A h \in hosts : /\ recordRef[h] = CNAMERef(view)
                     /\ \E c \in cnames : c.name = h /\ c.view = view

\* CNAMEToA (infoblox.go:214) when recordRef has the refs of all the hosts at the
\* address: one of them gets the A record, and the others keep their CNAMEs.
LEMMA CNAMEToADone ==
    ASSUME FaultKinds = {}, IpamTypeOK,
           NEW avail \in SUBSET Host, NEW delHost \in Host, NEW ip \in IP, NEW view \in View,
           NEW cidr, NEW newA,
           CNAMEToA(avail, delHost, ip, view, cidr, newA),
           getNetworkCIDR(view, ip) = cidr,
           [name |-> delHost, ip |-> ip, view |-> view] \in aRecs,
           recordRef[delHost] = ARef(ip, view), HaveCNAMEs(avail, view)
    PROVE  /\ newA \in avail
           /\ aRecs' = (aRecs \ {[name |-> delHost, ip |-> ip, view |-> view]})
                          \cup {[name |-> newA, ip |-> ip, view |-> view]}
           /\ \A n, v : (\E c \in cnames' : c.name = n /\ c.view = v) <=>
                           /\ \E c \in cnames : c.name = n /\ c.view = v
                           /\ ~(n = newA /\ v = view)
           /\ recordRef' = [recordRef EXCEPT ![newA] = ARef(ip, view)]
           /\ UNCHANGED fixed
  <1>1. recordRef[delHost].kind = "A" /\ \A h \in avail : recordRef[h].kind = "CNAME"
    BY DEF ARef, CNAMERef, HaveCNAMEs
  <1>2. PICK a \in avail :
           newA = a /\ PromoteCNAME(avail, delHost, ip, view, cidr, a, a, "none", avail \ {a})
    <2>1. recordRef[delHost].kind # "absent" /\ \A h \in avail : recordRef[h].kind # "absent"
      BY <1>1
    <2>2. PICK a \in avail, f \in {"none"} :
             \E t \in {a}, done \in {avail \ {a}} :
                newA = a /\ PromoteCNAME(avail, delHost, ip, view, cidr, a, t, f, done)
      <3>1. \A a : {h \in avail \ {a} : recordRef[h].kind = "absent"} = {}
        BY <2>1
      <3>2. Fault({"get", "cidr", "delete", "put", "lost"}) = {"none"}
        BY FaultNone
      <3>3. PICK a \in avail, f \in {"none"} :
               \E t \in IF f \in {"put", "lost"} THEN avail ELSE {a}, done \in {avail \ {a}} :
                  newA = a /\ PromoteCNAME(avail, delHost, ip, view, cidr, a, t, f, done)
        BY <2>1, <3>1, <3>2 DEF CNAMEToA
      <3> QED BY <3>3
    <2> QED BY <2>2
  <1> DEFINE old  == [name |-> delHost, ip |-> recordRef[delHost].ip,
                      view |-> recordRef[delHost].view]
             left == cnames \ CNAMEsToDelete(a, ip, view, cidr, "none")
             new  == [name |-> IF a = Empty THEN delHost ELSE a,
                      ip   |-> IF ip = Empty THEN old.ip ELSE ip, view |-> old.view]
             putA == /\ recordRef[delHost].kind = "A" /\ old \in aRecs
                     /\ \A c \in left : ~(c.name = new.name /\ c.view = new.view)
             putC(h) == /\ recordRef[h].kind = "CNAME"
                        /\ \E c \in left : c.name = h /\ c.view = recordRef[h].view
             moved(c) == /\ a # Empty /\ c.name \in avail \ {a} /\ putC(c.name)
                         /\ c.view = recordRef[c.name].view
  <1>3. /\ aRecs' = IF putA THEN (aRecs \ {old}) \cup {new} ELSE aRecs
        /\ cnames' = {IF moved(c) THEN [c EXCEPT !.canonical = a] ELSE c : c \in left}
        /\ recordRef' =
              [h \in Host0 |->
                 IF h = a THEN IF putA THEN ARef(new.ip, new.view) ELSE EmptyRef
                 ELSE IF h \in avail \ {a}
                 THEN IF putC(h) THEN recordRef[h] ELSE EmptyRef
                 ELSE recordRef[h]]
        /\ UNCHANGED fixed
    BY <1>2 DEF PromoteCNAME
  <1>4. left = cnames \ CNAMEsOf(a, view)
    BY DEF CNAMEsToDelete, LookupCIDR
  <1>5. /\ old = [name |-> delHost, ip |-> ip, view |-> view]
        /\ new = [name |-> a, ip |-> ip, view |-> view]
    BY EmptyAssumption DEF ARef
  <1>6. putA
    BY <1>1, <1>4, <1>5 DEF CNAMEsOf
  <1>7. \A h \in avail \ {a} : putC(h)
    BY <1>1, <1>4 DEF CNAMEsOf, CNAMERef, HaveCNAMEs
  <1>8. recordRef' = [recordRef EXCEPT ![a] = ARef(ip, view)]
    <2> HIDE DEF putA, putC
    <2> QED BY <1>3, <1>5, <1>6, <1>7 DEF IpamTypeOK
  <1>9. ASSUME NEW n, NEW v
        PROVE  (\E c \in cnames' : c.name = n /\ c.view = v) <=>
                  (\E c \in cnames : c.name = n /\ c.view = v) /\ ~(n = a /\ v = view)
    <2>1. \A c \in CNAMERecord : /\ [c EXCEPT !.canonical = a].name = c.name
                                 /\ [c EXCEPT !.canonical = a].view = c.view
      BY DEF CNAMERecord
    <2>2. left \subseteq CNAMERecord
      BY DEF IpamTypeOK
    <2> HIDE DEF moved, left
    <2>3. (\E c \in cnames' : c.name = n /\ c.view = v) <=> \E c \in left : c.name = n /\ c.view = v
      <3>1. cnames' = {IF moved(c) THEN [c EXCEPT !.canonical = a] ELSE c : c \in left}
        BY <1>3
      <3>2. ASSUME NEW d \in cnames' PROVE \E c \in left : c.name = d.name /\ c.view = d.view
        <4>1. PICK c \in left : d = IF moved(c) THEN [c EXCEPT !.canonical = a] ELSE c
          BY <3>1
        <4>2. d = [c EXCEPT !.canonical = a] \/ d = c
          BY <4>1
        <4>3. c \in CNAMERecord
          BY <2>2
        <4>4. d.name = c.name /\ d.view = c.view
          BY <2>1, <4>2, <4>3
        <4> QED BY <4>4
      <3>3. ASSUME NEW c \in left PROVE \E d \in cnames' : c.name = d.name /\ c.view = d.view
        <4> DEFINE d == IF moved(c) THEN [c EXCEPT !.canonical = a] ELSE c
        <4>1. d \in cnames'
          BY <3>1
        <4>2. d.name = c.name /\ d.view = c.view
          BY <2>1, <2>2
        <4> QED BY <4>1, <4>2
      <3> QED BY <3>2, <3>3
    <2> QED BY <1>4, <2>3 DEF CNAMEsOf
  <1>10. aRecs' = (aRecs \ {old}) \cup {new} /\ UNCHANGED fixed
    BY <1>3, <1>6
  <1>11. newA = a
    BY <1>2
  <1> HIDE DEF old, left, new, putA, moved
  <1> QED BY <1>5, <1>8, <1>9, <1>10, <1>11
=============================================================================
