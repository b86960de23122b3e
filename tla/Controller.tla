----------------------------- MODULE Controller -----------------------------
(***************************************************************************)
(* pkg/controller/controller.go: the loop that makes the IPAM system agree *)
(* with the groups of host names the orchestration client sends, over the  *)
(* IPAM client and server of module Infoblox.                              *)
(*                                                                         *)
(* The controller is one goroutine.  A step is one call of the IPAM client *)
(* or one move of a loop; pc says which loop it is in:                     *)
(*   start   Run: the first refreshStore                                   *)
(*   select  Run: waiting for groups or for the verify timer               *)
(*   groups, specs, hosts   processIPGroups: the three nested create loops *)
(*   delete  processIPGroups: the loop over the store                      *)
(*   purge   processIPGroups: store.DeleteHosts                            *)
(*   write   writeIPHosts                                                  *)
(* A crash, a failing request or somebody else's change to the IPAM system *)
(* can come between any two steps.                                         *)
(***************************************************************************)
EXTENDS Sequences, Infoblox

CONSTANTS
    GroupName,     \* the names of the groups that share an address
    GroupKey,      \* the keys of IPGroups: (name, view, cidr)
    GroupConfigs,  \* the IPGroups the orchestration may send
    VInterval      \* the verify interval; 0 disables the verify timer

GroupsType == [GroupKey -> Seq(Seq(Host))]

ASSUME GroupAssumption ==
    /\ Empty \notin GroupName
    /\ GroupKey \subseteq [name : GroupName \cup {Empty}, view : View, cidr : Cidr]
    /\ \A g \in GroupConfigs : g \in GroupsType
ASSUME IntervalAssumption == VInterval \in Nat

VARIABLES
    pc,
    store,      \* ctlr.store
    groups,     \* ipGroup.Groups: the host lists of each group's specs, <<>> for
                \* a key that is not in the map
    mk,         \* locals of the create loops
    rm,         \* locals of the delete loop and of DeleteHosts
    verifying,  \* this pass was started by the verify timer
    annot,      \* the IP annotation last written to the resource whose first
                \* host is h
    heard       \* the controller has received groups since it started

ctlr == <<pc, store, groups, mk, rm, verifying, annot, heard>>
vars == <<pc, store, groups, mk, rm, verifying, annot, heard, ipam>>

PCs == {"start", "select", "groups", "specs", "hosts", "delete", "purge", "write"}

\* keys, specs, hosts: what the three loops have left; first, next, cur, used:
\* firstHost, nextAddr, curAddr, addrUsed.  netview and cidr are those of key.
NoKey == [name |-> Empty, view |-> Empty, cidr |-> Empty]
MkIdle == [keys |-> {}, key |-> NoKey, specs |-> <<>>, hosts |-> <<>>,
           first |-> Empty, next |-> Empty, cur |-> Empty, used |-> FALSE]
MkType == [keys : SUBSET GroupKey, key : GroupKey \cup {NoKey},
           specs : Seq(Seq(Host)), hosts : Seq(Host),
           first : Host0, next : IP0, cur : IP0, used : BOOLEAN]

\* ips: addresses left to visit; ip, avail, left: the current one, availHosts
\* and the hosts left to delete there; gone: toRemove, as a bag.
RmIdle == [ips |-> {}, ip |-> Empty, avail |-> {}, left |-> {},
           gone |-> [h \in Host0 |-> 0]]
RmType == [ips : SUBSET IP0, ip : IP0, avail : SUBSET Host0,
           left : SUBSET Host0, gone : [Host0 -> Nat]]

NoGroups == [k \in GroupKey |-> <<>>]

\* The hosts that getSpecsWithHosts looks at: the first of every spec.
FirstHosts(g) ==
    UNION {{g[k][i][1] : i \in {j \in DOMAIN g[k] : g[k][j] # <<>>}} : k \in GroupKey}

\* GetAllHosts
HostsIn(g) == UNION {UNION {Range(g[k][i]) : i \in DOMAIN g[k]} : k \in GroupKey}

Unique(key) == key.name = Empty    \* every spec gets an address of its own

CtlrTypeOK ==
    /\ pc \in PCs
    /\ store \in Stores
    /\ groups \in GroupsType
    /\ mk \in MkType
    /\ pc \in {"specs", "hosts"} => mk.key \in GroupKey
    /\ mk.hosts # <<>> => pc = "hosts" /\ mk.first \in Host
    /\ rm \in RmType
    /\ verifying \in BOOLEAN /\ heard \in BOOLEAN
    /\ annot \in [Host -> IP0]

\* Every variable has its type, the create loops have a group while they are in
\* one and a firstHost while they are at its hosts.
TypeOK == IpamTypeOK /\ CtlrTypeOK

Init ==
    /\ IpamInit
    /\ pc = "start" /\ store = NewStore /\ groups = NoGroups
    /\ mk = MkIdle /\ rm = RmIdle
    /\ verifying = FALSE /\ heard = FALSE
    /\ annot = [h \in Host |-> Empty]

(***************************************************************************)
(* Run                                                                     *)
(***************************************************************************)
\* processIPGroups on groups g: to the create loops.
BeginProcess(g) ==
    /\ pc' = "groups"
    /\ mk' = [MkIdle EXCEPT !.keys = {k \in GroupKey : g[k] # <<>>}]

\* The first refreshStore; only then is the orchestration client started.
Start ==
    /\ pc = "start"
    /\ GetRecords(store')
    /\ pc' = "select"
    /\ UNCHANGED <<groups, mk, rm, verifying, annot, heard>>

\* handleIPGroups: the groups replace the previous ones.
Receive(g) ==
    /\ pc = "select"
    /\ groups' = g
    /\ heard' = TRUE
    /\ BeginProcess(g)
    /\ UNCHANGED <<store, rm, verifying, annot, ipam>>

\* Fault for mutation: the timer refreshes the store and leaves it at that.
VerifyTickRefreshOnly ==
    /\ pc = "select" /\ VInterval # 0
    /\ GetRecords(store')
    /\ UNCHANGED <<pc, mk, verifying, groups, rm, annot, heard>>

\* The verify timer: refreshStore, and a pass over the groups held so far if
\* the IPAM system and the store differ.
VerifyTick ==
    /\ pc = "select" /\ VInterval # 0
    /\ GetRecords(store')
    /\ IF store' # store
       THEN BeginProcess(groups) /\ verifying' = TRUE
       ELSE UNCHANGED <<pc, mk, verifying>>
    /\ UNCHANGED <<groups, rm, annot, heard>>

(***************************************************************************)
(* processIPGroups: the create loops                                       *)
(***************************************************************************)
\* A named group shares one address, reserved before it is known whether it
\* will be needed.
BeginSharedGroup(k) ==
    /\ pc = "groups" /\ k \in mk.keys /\ ~Unique(k)
    /\ \E addr \in IP0 :
          /\ GetNextAddr(k.view, k.cidr, addr)
          /\ mk' = [mk EXCEPT !.keys = @ \ {k}, !.key = k, !.specs = groups[k],
                              !.next = addr, !.cur = addr]
    /\ pc' = "specs"
    /\ UNCHANGED <<store, groups, rm, verifying, annot, heard>>

BeginUniqueGroup(k) ==
    /\ pc = "groups" /\ k \in mk.keys /\ Unique(k)
    /\ mk' = [mk EXCEPT !.keys = @ \ {k}, !.key = k, !.specs = groups[k]]
    /\ pc' = "specs"
    /\ UNCHANGED <<store, groups, rm, verifying, annot, heard, ipam>>

\* Fault for mutation: firstHost is never set.
FirstHostUnset(first, spec, key) == first

\* firstHost after the first turn of the host loop: the spec's first host,
\* unless the group shares an address and has a first host already.
FirstHost(first, spec, key) ==
    IF spec # <<>> /\ (Unique(key) \/ first = Empty) THEN Head(spec) ELSE first

BeginSpec ==
    /\ pc = "specs" /\ mk.specs # <<>>
    /\ LET spec  == Head(mk.specs)
           m     == [mk EXCEPT !.specs = Tail(@), !.hosts = spec,
                               !.first = FirstHost(@, spec, mk.key)]
       IN  IF Unique(mk.key)
           THEN \E addr \in IP0 :
                   /\ GetNextAddr(mk.key.view, mk.key.cidr, addr)
                   /\ mk' = [m EXCEPT !.next = addr, !.cur = addr, !.used = FALSE]
           ELSE mk' = m /\ UNCHANGED ipam
    /\ pc' = "hosts"
    /\ UNCHANGED <<store, groups, rm, verifying, annot, heard>>

\* GetIP is called twice; the answers may differ if the store files the host
\* under two addresses.
KnownHost ==
    /\ pc = "hosts" /\ mk.hosts # <<>>
    /\ LET answers == GetIP(store, Head(mk.hosts))
       IN  /\ answers # {Empty}
           /\ \E addr \in answers :
                 mk' = [mk EXCEPT !.hosts = Tail(@), !.cur = addr]
    /\ UNCHANGED <<pc, store, groups, rm, verifying, annot, heard, ipam>>

\* A failed CreateARecord leaves the host out of the store, for another pass.
CreateA ==
    /\ pc = "hosts" /\ mk.hosts # <<>>
    /\ LET host == Head(mk.hosts)
       IN  /\ Empty \in GetIP(store, host)
           /\ host = mk.first
           /\ \E created \in BOOLEAN :
                 /\ CreateARecord(host, mk.next, mk.key.view, created)
                 /\ mk' = [mk EXCEPT !.hosts = Tail(@), !.used = @ \/ created]
                 /\ store' = IF created
                             THEN AddRecord(store, mk.cur, host, "A",
                                            mk.key.view, mk.key.cidr)
                             ELSE store
    /\ UNCHANGED <<pc, groups, rm, verifying, annot, heard>>

CreateCNAME ==
    /\ pc = "hosts" /\ mk.hosts # <<>>
    /\ LET host == Head(mk.hosts)
       IN  /\ Empty \in GetIP(store, host)
           /\ host # mk.first
           /\ CreateCNAMERecord(host, mk.first, mk.key.view)
           /\ mk' = [mk EXCEPT !.hosts = Tail(@)]
           /\ store' = AddRecord(store, mk.cur, host, "CNAME",
                                 mk.key.view, mk.key.cidr)
    /\ UNCHANGED <<pc, groups, rm, verifying, annot, heard>>

\* Faults for mutation: the address goes even if it is used; it never goes; the
\* wrong address goes.
ReleaseEvenUsed(key, addr, used) == ReleaseAddr(key.view, key.cidr, addr)
KeepUnused(key, addr, used)      == UNCHANGED ipam
ReleaseSomeAddr(key, addr, used) ==
    IF used THEN UNCHANGED ipam ELSE ReleaseAddr(key.view, key.cidr, Empty)

\* "If nextAddr was reserved but not used, release it"
ReleaseUnused(key, addr, used) ==
    IF used THEN UNCHANGED ipam ELSE ReleaseAddr(key.view, key.cidr, addr)

\* Fault for mutation: the address of a shared group goes after its first spec.
EndSpecReleasesShared ==
    /\ pc = "hosts" /\ mk.hosts = <<>>
    /\ ReleaseUnused(mk.key, mk.next, mk.used)
    /\ mk' = IF Unique(mk.key)
             THEN [mk EXCEPT !.first = Empty, !.next = Empty, !.cur = Empty, !.used = FALSE]
             ELSE mk
    /\ pc' = "specs"
    /\ UNCHANGED <<store, groups, rm, verifying, annot, heard>>

EndSpec ==
    /\ pc = "hosts" /\ mk.hosts = <<>>
    /\ IF Unique(mk.key)
       THEN /\ ReleaseUnused(mk.key, mk.next, mk.used)
            /\ mk' = [mk EXCEPT !.first = Empty, !.next = Empty, !.cur = Empty,
                                !.used = FALSE]
       ELSE UNCHANGED <<mk, ipam>>
    /\ pc' = "specs"
    /\ UNCHANGED <<store, groups, rm, verifying, annot, heard>>

EndGroup ==
    /\ pc = "specs" /\ mk.specs = <<>>
    /\ IF Unique(mk.key) THEN UNCHANGED ipam
       ELSE ReleaseUnused(mk.key, mk.next, mk.used)
    /\ mk' = [MkIdle EXCEPT !.keys = mk.keys]
    /\ pc' = "groups"
    /\ UNCHANGED <<store, groups, rm, verifying, annot, heard>>

(***************************************************************************)
(* processIPGroups: the delete loop and store.DeleteHosts                  *)
(***************************************************************************)
\* Fault for mutation: only the first host of a spec is looked for.
DeadUnlessFirst(ip) == HostsOf(store, ip) \ FirstHosts(groups)

\* The hosts at ip that are in no group any more.
Dead(ip) == HostsOf(store, ip) \ HostsIn(groups)

BeginDelete ==
    /\ pc = "groups" /\ mk.keys = {}
    /\ rm' = [RmIdle EXCEPT !.ips = {i \in IP0 : Dead(i) # {}}]
    /\ pc' = "delete"
    /\ UNCHANGED <<store, groups, mk, verifying, annot, heard, ipam>>

DeleteAtIP(ip) ==
    /\ pc = "delete" /\ rm.left = {} /\ ip \in rm.ips
    /\ rm' = [rm EXCEPT !.ips = @ \ {ip}, !.ip = ip,
                        !.avail = HostsOf(store, ip), !.left = Dead(ip)]
    /\ UNCHANGED <<pc, store, groups, mk, verifying, annot, heard, ipam>>

\* The host leaves availHosts and joins toRemove.  also: keys the step added to
\* the map under iteration, if the iteration goes on to meet them.
Deleted(host, also) ==
    rm' = [rm EXCEPT !.avail = @ \ {host}, !.left = (@ \ {host}) \cup also,
                     !.gone[host] = @ + 1]

\* Fault for mutation: line 206 is missing.
MarkAForgotten(st, ip, newA) == st

\* ctlr.store.Records[ip][newA] = A
MarkA(st, ip, newA) == [st EXCEPT !.records[ip][newA] = "A"]

\* An A record whose address other names share: one of them takes it over, and
\* is filed as the A record.  After an error that name is "".
PromoteAndDelete(host) ==
    /\ pc = "delete" /\ host \in rm.left
    /\ store.records[rm.ip][host] = "A"
    /\ rm.avail \ {host} # {}
    /\ \E newA \in Host0 :
          /\ CNAMEToA(rm.avail \ {host}, host, rm.ip, store.netviews[rm.ip],
                      store.cidrs[rm.ip], newA)
          /\ store' = MarkA(store, rm.ip, newA)
          /\ \E also \in {{}} \cup IF store.records[rm.ip][newA] = "none"
                                   THEN {{newA}} ELSE {} : Deleted(host, also)
    /\ UNCHANGED <<pc, groups, mk, verifying, annot, heard>>

DeleteLastA(host) ==
    /\ pc = "delete" /\ host \in rm.left
    /\ store.records[rm.ip][host] = "A"
    /\ rm.avail \ {host} = {}
    /\ DeleteARecord(host, rm.ip, store.netviews[rm.ip], store.cidrs[rm.ip])
    /\ Deleted(host, {})
    /\ UNCHANGED <<pc, store, groups, mk, verifying, annot, heard>>

DeleteCNAME(host) ==
    /\ pc = "delete" /\ host \in rm.left
    /\ store.records[rm.ip][host] = "CNAME"
    /\ DeleteCNAMERecord(host, rm.ip, store.netviews[rm.ip], store.cidrs[rm.ip])
    /\ Deleted(host, {})
    /\ UNCHANGED <<pc, store, groups, mk, verifying, annot, heard>>

EndDelete ==
    /\ pc = "delete" /\ rm.left = {} /\ rm.ips = {}
    /\ rm' = [RmIdle EXCEPT !.gone = rm.gone]
    /\ pc' = "purge"
    /\ UNCHANGED <<store, groups, mk, verifying, annot, heard, ipam>>

\* Fault for mutation: the loop does not advance.
PurgeStuck(host) ==
    /\ pc = "purge" /\ rm.gone[host] > 0
    /\ \E ip \in GetIP(store, host) : store' = DeleteHost(store, ip, host)
    /\ UNCHANGED <<pc, groups, mk, rm, verifying, annot, heard, ipam>>

\* store.deleteHost, for a host of toRemove.
Purge(host) ==
    /\ pc = "purge" /\ rm.gone[host] > 0
    /\ \E ip \in GetIP(store, host) : store' = DeleteHost(store, ip, host)
    /\ rm' = [rm EXCEPT !.gone[host] = @ - 1]
    /\ UNCHANGED <<pc, groups, mk, verifying, annot, heard, ipam>>

\* Only a pass over newly received groups goes on to write the addresses out.
EndPurge ==
    /\ pc = "purge" /\ \A h \in Host0 : rm.gone[h] = 0
    /\ rm' = RmIdle
    /\ pc' = IF verifying THEN "select" ELSE "write"
    /\ verifying' = FALSE
    /\ UNCHANGED <<store, groups, mk, annot, heard, ipam>>

\* writeIPHosts: a resource is annotated with the addresses that hold its first
\* host, one after the other; the last one stays.
WriteIPHosts ==
    /\ pc = "write"
    /\ annot' \in {f \in [Host -> IP0] : \A h \in Host :
                     IF h \in FirstHosts(groups) /\ IPsOf(store, h) # {}
                     THEN f[h] \in IPsOf(store, h) ELSE f[h] = annot[h]}
    /\ pc' = "select"
    /\ UNCHANGED <<store, groups, mk, rm, verifying, heard, ipam>>

(***************************************************************************)
(* The environment                                                         *)
(***************************************************************************)
\* The container is restarted: everything but the IPAM system and the
\* annotations is lost.
Restart ==
    /\ "restart" \in Fault({"restart"}) /\ CountFault("restart")
    /\ pc' = "start" /\ store' = NewStore /\ groups' = NoGroups
    /\ mk' = MkIdle /\ rm' = RmIdle
    /\ verifying' = FALSE /\ heard' = FALSE
    /\ recordRef' = NewInfobloxClient
    /\ UNCHANGED <<annot, aRecs, cnames, fixed>>

\* Somebody else deletes a record from the IPAM system.
ExternalDelete ==
    /\ "external" \in Fault({"external"}) /\ CountFault("external")
    /\ \/ /\ \E r \in aRecs : aRecs' = aRecs \ {r}
          /\ UNCHANGED cnames
       \/ /\ \E c \in cnames : cnames' = cnames \ {c}
          /\ UNCHANGED aRecs
    /\ UNCHANGED <<ctlr, fixed, recordRef>>

\* The steps of the controller's own goroutine, once it has something to do.
Work ==
    \/ Start \/ BeginSpec \/ KnownHost \/ CreateA \/ CreateCNAME
    \/ EndSpec \/ EndGroup \/ BeginDelete \/ EndDelete \/ EndPurge \/ WriteIPHosts
    \/ \E k \in GroupKey : BeginSharedGroup(k) \/ BeginUniqueGroup(k)
    \/ \E ip \in IP0 : DeleteAtIP(ip)
    \/ \E h \in Host0 : \/ PromoteAndDelete(h) \/ DeleteLastA(h)
                        \/ DeleteCNAME(h) \/ Purge(h)

Next ==
    \/ Work
    \/ \E g \in GroupConfigs : Receive(g)
    \/ VerifyTick
    \/ Restart
    \/ ExternalDelete

Spec == Init /\ [][Next]_vars

\* The goroutine is never blocked for good, and the timer keeps firing.  Nothing
\* is assumed of the environment.
FairSpec == Spec /\ WF_vars(Work) /\ WF_vars(VerifyTick)
=============================================================================
