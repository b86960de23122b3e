------------------------------- MODULE Store -------------------------------
(***************************************************************************)
(* pkg/store/store.go: the controller's record of which host names have    *)
(* which IP address.  Records (ip -> host -> record type), Netviews and    *)
(* Cidrs are Go maps; here each is a total function with a value for       *)
(* "absent".  Iterating a Go map yields an arbitrary order, so an operator *)
(* whose answer depends on that order is the set of the possible answers.  *)
(***************************************************************************)
EXTENDS Functions, FiniteSets

CONSTANTS
    Host,    \* host names
    IP,      \* IP addresses
    View,    \* Infoblox network views
    Cidr,    \* network CIDRs
    Empty    \* Go's "": no name, no address, no view, no CIDR

ASSUME EmptyAssumption == Empty \notin Host \cup IP \cup View \cup Cidr

Host0 == Host \cup {Empty}
IP0   == IP \cup {Empty}
View0 == View \cup {Empty}
Cidr0 == Cidr \cup {Empty}

RecordType == {"A", "CNAME", "none"}     \* "none": the host is not in the map

Stores == [records  : [IP0 -> [Host0 -> RecordType]],
           netviews : [IP0 -> View0],
           cidrs    : [IP0 -> Cidr0]]

NewStore ==
    [records  |-> [i \in IP0 |-> [h \in Host0 |-> "none"]],
     netviews |-> [i \in IP0 |-> Empty],
     cidrs    |-> [i \in IP0 |-> Empty]]

\* The keys of Records[ip]; Records has the key ip iff this is not empty.
HostsOf(st, ip) == {h \in Host0 : st.records[ip][h] # "none"}

\* The addresses that hold a host; more than one after a failed refresh or
\* when a CNAME of the IPAM system could not be resolved.
IPsOf(st, host) == {i \in IP0 : st.records[i][host] # "none"}

StoredHosts(st) == {h \in Host0 : IPsOf(st, h) # {}}

\* GetIP's possible answers: some address that holds the host, "" for none.
GetIP(st, host) ==
    IF IPsOf(st, host) = {} THEN {Empty} ELSE IPsOf(st, host)

\* Fault for mutation: line 46 is missing.
AddRecordNoCidr(st, ip, host, type, netview, cidr) ==
    IF st.records[ip][host] # "none"
    THEN st
    ELSE [st EXCEPT !.records[ip][host] = type, !.netviews[ip] = netview]

\* A host already filed under ip keeps its type, and ip its network.
AddRecord(st, ip, host, type, netview, cidr) ==
    IF st.records[ip][host] # "none"
    THEN st
    ELSE [records  |-> [st.records  EXCEPT ![ip][host] = type],
          netviews |-> [st.netviews EXCEPT ![ip] = netview],
          cidrs    |-> [st.cidrs    EXCEPT ![ip] = cidr]]

\* deleteHost, for the address ip the map iteration met first.  The address
\* goes with its last host.
DeleteHost(st, ip, host) ==
    LET records == [st.records EXCEPT ![ip][host] = "none"]
        last    == HostsOf(st, ip) \subseteq {host}
    IN  [records  |-> records,
         netviews |-> [st.netviews EXCEPT ![ip] = IF last THEN Empty ELSE @],
         cidrs    |-> [st.cidrs    EXCEPT ![ip] = IF last THEN Empty ELSE @]]
=============================================================================
