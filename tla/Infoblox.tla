------------------------------ MODULE Infoblox ------------------------------
(***************************************************************************)
(* pkg/manager/infoblox.go: the IPAM client the controller calls, together *)
(* with the Infoblox server it talks to.  The server is not part of the    *)
(* repository; it is modelled from the requests the client makes:          *)
(*   - a name has A records or one CNAME record in a view, never both      *)
(*     (CNAMEToA deletes the CNAME before it turns a name into an A        *)
(*     record), and an A record has an address;                            *)
(*   - func:nextavailableip reserves any free address of the network;      *)
(*   - a search leaves out the fields that are "" (omitempty), so "" there *)
(*     matches everything;                                                 *)
(*   - an object's ref names the object: its type, name, view and, for an  *)
(*     A record, its address.  Once the object is gone the ref is dead.    *)
(* A client method is an operator on the state; where the Go method        *)
(* returns something, the last parameter is the value it returns.  Every   *)
(* request can fail; the environment chooses at most one failing request   *)
(* per call, and MaxFaults in a behaviour, from FaultKinds.                *)
(***************************************************************************)
EXTENDS Naturals, Store

CONSTANTS
    Pool,         \* Pool[v][c]: the addresses of network c of view v
    Zone, ZoneOf, \* DNS zones, and the zone each host name is in
    FaultKinds,   \* what may go wrong
    MaxFaults     \* bound on how often something goes wrong in a behaviour

ASSUME PoolAssumption ==
    /\ Pool \in [View -> [Cidr -> SUBSET IP]]
    /\ \A v \in View, c, d \in Cidr : c # d => Pool[v][c] \cap Pool[v][d] = {}
ASSUME ZoneAssumption  == ZoneOf \in [Host -> Zone]
ASSUME FaultAssumption == MaxFaults \in Nat

VARIABLES
    aRecs,      \* the server's A records tagged F5-IPAM: managed
    cnames,     \* the server's CNAME records tagged F5-IPAM: managed
    fixed,      \* the server's fixed addresses: the reserved addresses
    recordRef,  \* the client's recordRef: host -> ref string
    faults      \* how often something has gone wrong so far

ipam == <<aRecs, cnames, fixed, recordRef, faults>>

ARecord     == [name : Host, ip : IP, view : View]
CNAMERecord == [name : Host, canonical : Host, view : View]
FixedAddr   == [view : View, cidr : Cidr, ip : IP]

\* A value of the recordRef map: "absent" is a missing key, "empty" the ref ""
\* that a failed request leaves behind.
Refs == [kind : {"absent", "empty", "A", "CNAME"}, ip : IP0, view : View0]
NoRef    == [kind |-> "absent", ip |-> Empty, view |-> Empty]
EmptyRef == [kind |-> "empty",  ip |-> Empty, view |-> Empty]
ARef(ip, view)  == [kind |-> "A",     ip |-> ip,    view |-> view]
CNAMERef(view)  == [kind |-> "CNAME", ip |-> Empty, view |-> view]

IpamTypeOK ==
    /\ aRecs \subseteq ARecord
    /\ cnames \subseteq CNAMERecord
    /\ fixed \subseteq FixedAddr
    /\ recordRef \in [Host0 -> Refs]
    /\ faults \in Nat

\* NewInfobloxClient: an empty recordRef, whatever the server holds.
NewInfobloxClient == [h \in Host0 |-> NoRef]

IpamInit ==
    /\ aRecs = {} /\ cnames = {} /\ fixed = {}
    /\ recordRef = NewInfobloxClient
    /\ faults = 0

(***************************************************************************)
(* The server.                                                             *)
(***************************************************************************)
\* The requests of a call, among kinds, that the environment may make fail.
Fault(kinds) ==
    {"none"} \cup IF faults < MaxFaults THEN FaultKinds \cap kinds ELSE {}

CountFault(f) == faults' = IF f = "none" THEN faults ELSE faults + 1

CNAMEsOf(name, view) == {c \in cnames : c.name = name /\ c.view = view}
AsOf(name, view)     == {a \in aRecs : a.name = name /\ a.view = view}

AcceptsA(name, ip, view) ==
    name \in Host /\ ip \in IP /\ CNAMEsOf(name, view) = {}

AcceptsCNAME(name, view) ==
    CNAMEsOf(name, view) = {} /\ AsOf(name, view) = {}

Free(view, cidr) ==
    {i \in Pool[view][cidr] : \A f \in fixed : ~(f.view = view /\ f.ip = i)}

\* The fixed addresses that a search by (view, cidr, ip) finds.
FixedMatching(view, cidr, ip) ==
    {f \in fixed : /\ view \in {Empty, f.view}
                   /\ cidr \in {Empty, f.cidr}
                   /\ ip   \in {Empty, f.ip}}

\* getNetworkCIDR: "" for no address and for an address in no network.
getNetworkCIDR(view, ip) ==
    IF \E c \in Cidr : ip \in Pool[view][c]
    THEN CHOOSE c \in Cidr : ip \in Pool[view][c]
    ELSE Empty

\* The same lookup, or its silent failure when f is "cidr".
LookupCIDR(view, ip, f) == IF f = "cidr" THEN Empty ELSE getNetworkCIDR(view, ip)

(***************************************************************************)
(* The client.                                                             *)
(***************************************************************************)
\* The client ignores the error of the POST: it reports success and remembers
\* the ref "".  "lost" is a POST that the server carries out but whose answer
\* does not arrive.
CreateARecord(name, ip, view, created) ==
    \E f \in Fault({"getA", "post", "lost"}) :
       /\ created = (f # "getA" /\ [name |-> name, ip |-> ip, view |-> view] \notin aRecs)
       /\ LET stored == created /\ f # "post" /\ AcceptsA(name, ip, view)
          IN  /\ aRecs' = IF stored
                          THEN aRecs \cup {[name |-> name, ip |-> ip, view |-> view]}
                          ELSE aRecs
              /\ recordRef' = IF ~created THEN recordRef
                              ELSE [recordRef EXCEPT ![name] =
                                      IF stored /\ f # "lost" THEN ARef(ip, view)
                                      ELSE EmptyRef]
       /\ CountFault(f)
       /\ UNCHANGED <<cnames, fixed>>

CreateCNAMERecord(name, canonical, view) ==
    \E f \in Fault({"get", "post", "lost"}) :
       LET asked  == f # "get" /\ CNAMEsOf(name, view) = {}
           stored == asked /\ f # "post" /\ AcceptsCNAME(name, view)
       IN  /\ cnames' = IF stored
                        THEN cnames \cup {[name |-> name, canonical |-> canonical,
                                           view |-> view]}
                        ELSE cnames
           /\ recordRef' = IF ~asked THEN recordRef
                           ELSE [recordRef EXCEPT ![name] =
                                   IF stored /\ f # "lost" THEN CNAMERef(view)
                                   ELSE EmptyRef]
           /\ CountFault(f)
           /\ UNCHANGED <<aRecs, fixed>>

\* ReleaseIP deletes the first fixed address its search finds.
Released(view, cidr, ip, f) ==
    IF f = "release" \/ FixedMatching(view, cidr, ip) = {}
    THEN {fixed}
    ELSE {fixed \ {m} : m \in FixedMatching(view, cidr, ip)}

ReleaseAddr(view, cidr, ip) ==
    \E f \in Fault({"release"}) :
       /\ fixed' \in Released(view, cidr, ip, f)
       /\ CountFault(f)
       /\ UNCHANGED <<aRecs, cnames, recordRef>>

\* The record goes only if it is in the network the caller believes it is in;
\* the address is released whether or not the record went.
DeleteARecord(name, ip, view, cidr) ==
    \E f \in Fault({"get", "cidr", "delete", "release"}) :
       LET rec   == [name |-> name, ip |-> ip, view |-> view]
           asked == rec \in aRecs /\ f # "get" /\ LookupCIDR(view, ip, f) = cidr
       IN  /\ aRecs' = IF asked /\ f # "delete" THEN aRecs \ {rec} ELSE aRecs
           /\ recordRef' = IF asked THEN [recordRef EXCEPT ![name] = NoRef]
                           ELSE recordRef
           /\ fixed' \in IF f = "get" THEN {fixed} ELSE Released(view, cidr, ip, f)
           /\ CountFault(f)
           /\ UNCHANGED cnames

\* The CNAME records that DeleteCNAMERecord asks the server to delete.
CNAMEsToDelete(name, ip, view, cidr, f) ==
    IF f # "get" /\ LookupCIDR(view, ip, f) = cidr THEN CNAMEsOf(name, view) ELSE {}

DeleteCNAMERecord(name, ip, view, cidr) ==
    \E f \in Fault({"get", "cidr", "delete"}) :
       LET asked == CNAMEsToDelete(name, ip, view, cidr, f)
       IN  /\ cnames' = IF f = "delete" THEN cnames ELSE cnames \ asked
           /\ recordRef' = IF asked = {} THEN recordRef
                           ELSE [recordRef EXCEPT ![name] = NoRef]
           /\ CountFault(f)
           /\ UNCHANGED <<aRecs, fixed>>

\* CNAMEToA when it has a ref for delHost: a, the host that happens to be first
\* in availHosts, becomes the A record in delHost's place, and the others'
\* CNAMEs are pointed at it in turn, until one without a ref ends the loop.
\* t is the host whose PUT fails ("put") or whose answer is lost ("lost").
PromoteCNAME(avail, delHost, ip, view, cidr, a, t, f, done) ==
    LET old     == [name |-> delHost, ip |-> recordRef[delHost].ip,
                    view |-> recordRef[delHost].view]
        asked   == CNAMEsToDelete(a, ip, view, cidr, f)
        left    == IF f = "delete" THEN cnames ELSE cnames \ asked
        new     == [name |-> IF a = Empty THEN delHost ELSE a,
                    ip   |-> IF ip = Empty THEN old.ip ELSE ip,
                    view |-> old.view]
        putA    == /\ ~(f = "put" /\ t = a)
                   /\ recordRef[delHost].kind = "A" /\ old \in aRecs
                   /\ \A c \in left : ~(c.name = new.name /\ c.view = new.view)
        putC(h) == /\ ~(f = "put" /\ t = h)
                   /\ recordRef[h].kind = "CNAME"
                   /\ \E c \in left : c.name = h /\ c.view = recordRef[h].view
        answered(h) == ~(f = "lost" /\ t = h)
    IN  /\ aRecs' = IF putA THEN (aRecs \ {old}) \cup {new} ELSE aRecs
        /\ cnames' = {IF /\ a # Empty /\ c.name \in done /\ putC(c.name)
                         /\ c.view = recordRef[c.name].view
                      THEN [c EXCEPT !.canonical = a] ELSE c : c \in left}
        /\ recordRef' =
              [h \in Host0 |->
                 IF h = a
                 THEN IF putA /\ answered(a) THEN ARef(new.ip, new.view) ELSE EmptyRef
                 ELSE IF h \in done
                 THEN IF putC(h) /\ answered(h) THEN recordRef[h] ELSE EmptyRef
                 ELSE recordRef[h]]
        /\ CountFault(f)
        /\ UNCHANGED fixed

\* Fault for mutation: the A record is deleted although others use its address.
CNAMEToANever(avail, delHost, ip, view, cidr, newA) ==
    /\ newA \in avail
    /\ DeleteARecord(delHost, ip, view, cidr)

\* Without a ref for delHost the A record is deleted and its address released,
\* although availHosts still use it, and the answer is "".
CNAMEToA(avail, delHost, ip, view, cidr, newA) ==
    IF recordRef[delHost].kind = "absent"
    THEN newA = Empty /\ DeleteARecord(delHost, ip, view, cidr)
    ELSE \E a \in avail, f \in Fault({"get", "cidr", "delete", "put", "lost"}) :
         LET others  == avail \ {a}
             missing == {h \in others : recordRef[h].kind = "absent"}
         IN  \E t \in IF f \in {"put", "lost"} THEN avail ELSE {a},
                done \in IF missing = {} THEN {others} ELSE SUBSET (others \ missing) :
                /\ newA = IF missing = {} THEN a ELSE Empty
                /\ PromoteCNAME(avail, delHost, ip, view, cidr, a, t, f, done)

GetNextAddr(view, cidr, addr) ==
    \E f \in Fault({"alloc", "lost"}) :
       /\ IF f = "alloc" \/ Free(view, cidr) = {}
          THEN addr = Empty /\ fixed' = fixed
          ELSE \E i \in Free(view, cidr) :
                 /\ addr = IF f = "lost" THEN Empty ELSE i
                 /\ fixed' = fixed \cup {[view |-> view, cidr |-> cidr, ip |-> i]}
       /\ CountFault(f)
       /\ UNCHANGED <<aRecs, cnames, recordRef>>

\* The store read from the records of the zones in whole, and the A records of
\* those in part.  A CNAME is filed under the address of an A record of its own
\* zone with the canonical name, and under "" if there is none.
StoreFrom(whole, part, addrOf, lastView, failed) ==
    LET as == {a \in aRecs : ZoneOf[a.name] \in whole \cup part}
        cs == {c \in cnames : ZoneOf[c.name] \in whole}
        used(i) == \/ \E a \in as : a.ip = i
                   \/ \E c \in cs : addrOf[c] = i
    IN  [records  |-> [i \in IP0 |-> [h \in Host0 |->
                         IF \E a \in as : a.ip = i /\ a.name = h THEN "A"
                         ELSE IF \E c \in cs : addrOf[c] = i /\ c.name = h THEN "CNAME"
                         ELSE "none"]],
         netviews |-> [i \in IP0 |-> IF used(i) THEN lastView[i] ELSE Empty],
         cidrs    |-> [i \in IP0 |-> IF used(i) /\ i # failed
                                     THEN getNetworkCIDR(lastView[i], i) ELSE Empty]]

\* The address of a CNAME is one of its canonical name, "" if that has none.
Resolves(addrOf) ==
    \A c \in cnames :
       LET targets == {a \in aRecs : a.name = c.canonical /\ ZoneOf[a.name] = ZoneOf[c.name]}
       IN  IF targets = {} THEN addrOf[c] = Empty
           ELSE \E a \in targets : addrOf[c] = a.ip

\* The view of an address is that of the last record there.
LastRead(addrOf, lastView) ==
    \A i \in IP0 :
       LET views == {r.view : r \in {a \in aRecs : a.ip = i}
                                 \cup {c \in cnames : addrOf[c] = i}}
       IN  views # {} => lastView[i] \in views

\* A failing GET ends the method with what it has read so far, without an error.
GetRecords(st) ==
    \E f \in Fault({"list", "cidr"}) :
    \E whole \in SUBSET Zone, part \in SUBSET Zone :
    \E addrOf \in [cnames -> IP0], lastView \in [IP0 -> View],
       failed \in IF f = "cidr" THEN IP ELSE {Empty} :
       /\ IF f = "list"
          THEN whole # Zone /\ part \cap whole = {} /\ Cardinality(part) <= 1
          ELSE whole = Zone /\ part = {}
       /\ Resolves(addrOf) /\ LastRead(addrOf, lastView)
       /\ st = StoreFrom(whole, part, addrOf, lastView, failed)
       /\ CountFault(f)
       /\ UNCHANGED <<aRecs, cnames, fixed, recordRef>>
=============================================================================
