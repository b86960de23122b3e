------------------------------ MODULE K8sClient -----------------------------
(***************************************************************************)
(* pkg/orchestration/kubernetes.go: the client that watches ConfigMaps and *)
(* Ingresses, keeps the groups of module IPGroups, and sends them to the   *)
(* controller.  It runs several goroutines:                                *)
(*   - the event handlers, one goroutine per kind of resource, which get   *)
(*     the informer's notifications in order, after its cache changed;     *)
(*   - the resource worker, which takes resources from the workqueue;      *)
(*   - the startup goroutines, which send the groups although no resource  *)
(*     asks for it;                                                        *)
(*   - the controller, at the other end of the channel, which annotates    *)
(*     resources between two receptions.                                   *)
(* GroupMutex is held in a single step by the operations on the groups and *)
(* over several by writeIPGroups, which waits for the controller while it  *)
(* holds it; nothing changes the groups in the meantime.                   *)
(***************************************************************************)
EXTENDS FiniteSets, IPGroups

CONSTANTS
    KindOf,        \* the kind of each resource
    Contents,      \* what a resource may contain
    ResyncPeriod,  \* of the informers: 30s, or 0 (never) under a namespace label
    MaxEvents,     \* bound on the changes to the resources and the crashes that come
                   \* from outside, together
    MaxPending,    \* bound on the notifications of a kind with which a resync or an
                   \* annotation still adds one
    MaxStarters,   \* bound on the startup goroutines there are at a time
    Absent,        \* there is no such resource
    Unknown,       \* cache.DeletedFinalStateUnknown: a deletion that the watch missed
    None           \* no resource, no sender, no groups

Kinds == {"ConfigMap", "Ingress"}

\* watched: the ip-allocation annotation; name, net, hosts: the group name, the
\* netview and CIDR annotations and the host names, None and <<>> if missing.
ContentType == [watched : BOOLEAN, name : GroupName \cup {Empty},
                net : Net \cup {None}, hosts : Seq(Host)]

AnyContent == UNION Range(Contents)

\* The groups as the controller receives them.
SentType == [GroupKey -> Seq([rs : Resource, hosts : Seq(Host)])]

ASSUME ClientAssumption ==
    /\ IsFiniteSet(Resource)
    /\ KindOf \in [Resource -> Kinds]
    /\ DOMAIN Contents = Resource
    /\ \A r \in Resource : /\ Contents[r] \subseteq ContentType
                           /\ Absent \notin Contents[r]
    /\ \A r \in Resource : KindOf[r] = "ConfigMap" =>
          \A c \in Contents[r] : c.name = Empty /\ Len(c.hosts) <= 1
    /\ None \notin Resource \cup Net \cup SentType
    /\ \A r \in Resource : Unknown \notin Contents[r] \cup {Absent}
    /\ {ResyncPeriod, MaxEvents} \subseteq Nat
    /\ MaxPending \in Nat /\ MaxStarters \in Nat \ {0}

VARIABLES
    cache,         \* the informers' caches
    notif,         \* per kind, the notifications not yet handled
    h,             \* per kind, the locals of the handler
    dirty,         \* rsQueue: the resources added and not yet taken
    w,             \* the locals of the resource worker
    starters,      \* the startup goroutines: how many sleep, how many will send
    groups,        \* ipGroup.Groups
    sender,        \* who is in the select of writeIPGroups and holds GroupMutex
    updated,       \* "IPGroups were updated and need to be written out"
    initialState,  \* "the client is fully synced on startup"
    ctl,           \* where the controller is: select, busy or annotate
    received,      \* the groups it received last, None before the first
    events         \* changes and crashes so far

env  == <<cache, events>>
chan == <<sender, initialState, ctl, received>>
vars == <<env, notif, h, dirty, w, starters, groups, updated, chan>>

Of(K) == {r \in Resource : KindOf[r] = K}

\* checkValidConfigMap, checkValidIngress
checkValid(c) == c # Absent /\ c.watched

KeyOf(c) == [name |-> c.name, net |-> c.net]

\* The resource is as syncResource needs it to add a spec.
Complete(c) == c.net # None /\ c.hosts # <<>>

(***************************************************************************)
(* The handler's locals: the event, key the group getSpec found, turn and  *)
(* end the range loop over spec.Hosts.  The loop reads the cells of the    *)
(* spec's own array (alias) unless the array was left behind for a larger  *)
(* one (own).                                                              *)
(***************************************************************************)
NoKey == [name |-> Empty, net |-> None]
Idle == [pc |-> "idle", rs |-> None, cur |-> Absent, key |-> NoKey,
         turn |-> 0, end |-> 0, alias |-> TRUE, own |-> <<>>]
HandlerType == [pc : {"idle", "hosts", "enqueue", "remove", "write"},
                rs : Resource \cup {None}, cur : AnyContent \cup {Absent},
                key : GroupKey \cup {NoKey}, turn : Nat, end : Nat,
                alias : BOOLEAN, own : Seq(Host)]

Resting == [pc |-> "get", rs |-> None, c |-> Absent, val |-> FALSE]
WorkerType == [pc : {"get", "add", "read", "store", "check", "write", "done"},
               rs : Resource \cup {None}, c : AnyContent \cup {Absent},
               val : BOOLEAN]

EventType == [rs : Resource, old : AnyContent \cup {Absent},
              cur : AnyContent \cup {Absent, Unknown}]

Senders == Kinds \cup {"worker", "starter"}

TypeOK ==
    /\ cache \in [Resource -> AnyContent \cup {Absent}]
    /\ \A r \in Resource : cache[r] \in Contents[r] \cup {Absent}
    /\ notif \in [Kinds -> Seq(EventType)]
    /\ h \in [Kinds -> HandlerType]
    /\ dirty \subseteq Resource
    /\ w \in WorkerType
    /\ starters \in [sleep : 0..MaxStarters, wait : 0..MaxStarters]
    /\ groups \in GroupsType
    /\ sender \in Senders \cup {None}
    /\ updated \in BOOLEAN /\ initialState \in BOOLEAN
    /\ ctl \in {"select", "busy", "annotate"}
    /\ received \in SentType \cup {None}
    /\ events \in 0..MaxEvents


\* What the informers notify of after they listed the resources.
Listed == [K \in Kinds |->
    SetToSeq({[rs |-> r, old |-> Absent, cur |-> cache[r]] :
                 r \in {s \in Of(K) : cache[s] # Absent}})]
OneStarter == [sleep |-> 1, wait |-> 0]

\* A new process: the caches are synced, the worker has started its first
\* startup goroutine, and the controller waits for groups.
Boot ==
    /\ notif = Listed
    /\ h = [K \in Kinds |-> Idle]
    /\ dirty = {} /\ w = Resting
    /\ starters = OneStarter
    /\ groups = NoGroups /\ sender = None
    /\ updated = FALSE /\ initialState = FALSE
    /\ ctl = "select" /\ received = None

\* The process ends and is started again; the resources stay.
Reboot ==
    /\ notif' = Listed
    /\ h' = [K \in Kinds |-> Idle]
    /\ dirty' = {} /\ w' = Resting
    /\ starters' = OneStarter
    /\ groups' = NoGroups /\ sender' = None
    /\ updated' = FALSE /\ initialState' = FALSE
    /\ ctl' = "select" /\ received' = None
    /\ UNCHANGED cache

Init ==
    /\ cache \in [Resource -> AnyContent \cup {Absent}]
    /\ \A r \in Resource : cache[r] \in Contents[r] \cup {Absent}
    /\ Boot
    /\ events = 0

\* rsQueue.Len(): a resource added while it is processed waits for its Done.
Queued == dirty \ {w.rs}

(***************************************************************************)
(* The event handlers                                                      *)
(***************************************************************************)
Event(K)     == Head(notif[K])
NextEvent(K) == h[K].pc = "idle" /\ notif[K] # <<>> /\ Event(K).cur # Unknown
Handled(K)   == notif' = [notif EXCEPT ![K] = Tail(@)]

\* A deletion that the watch missed comes as a DeletedFinalStateUnknown, which the
\* type assertion in checkValidConfigMap or checkValidIngress does not expect: the
\* panic ends the process.
OnUnknown(K) ==
    /\ h[K].pc = "idle" /\ notif[K] # <<>> /\ Event(K).cur = Unknown
    /\ Reboot
    /\ UNCHANGED events

\* addConfigMap, addIngress
OnAdd(K) ==
    /\ NextEvent(K) /\ Event(K).old = Absent
    /\ Handled(K)
    /\ dirty' = IF checkValid(Event(K).cur) THEN dirty \cup {Event(K).rs} ELSE dirty
    /\ UNCHANGED <<env, h, w, starters, groups, updated, chan>>

\* The events that end in removeFromIPGroup if getSpec finds the resource.
Leaves(e) == checkValid(e.old) /\ ~checkValid(e.cur)

\* deleteConfigMap, deleteIngress, and an update after which the resource is no
\* longer watched.
OnLeave(K) ==
    /\ NextEvent(K) /\ Leaves(Event(K))
    /\ Handled(K)
    /\ h' = IF getSpec(groups, Event(K).rs) = {} THEN h
            ELSE [h EXCEPT ![K] = [Idle EXCEPT !.pc = "remove", !.rs = Event(K).rs]]
    /\ UNCHANGED <<env, dirty, w, starters, groups, updated, chan>>

\* updateConfigMap, updateIngress on a resource that is watched after the update:
\* to the loop over the hosts, if getSpec finds a spec.
OnUpdate(K) ==
    /\ NextEvent(K) /\ Event(K).old # Absent /\ checkValid(Event(K).cur)
    /\ Handled(K)
    /\ LET e     == Event(K)
           found == getSpec(groups, e.rs)
       IN  IF checkValid(e.old) /\ found # {}
           THEN /\ \E k \in found :
                      h' = [h EXCEPT ![K] = [Idle EXCEPT !.pc = "hosts", !.rs = e.rs,
                              !.cur = e.cur, !.key = k, !.turn = 1,
                              !.end = SpecAt(groups, k, e.rs).len]]
                /\ UNCHANGED dirty
           ELSE /\ dirty' = dirty \cup {e.rs}
                /\ UNCHANGED h
    /\ UNCHANGED <<env, w, starters, groups, updated, chan>>

\* An event of a resource that was not watched and is not.
OnOther(K) ==
    /\ NextEvent(K) /\ Event(K).old # Absent
    /\ ~checkValid(Event(K).old) /\ ~checkValid(Event(K).cur)
    /\ Handled(K)
    /\ UNCHANGED <<env, h, dirty, w, starters, groups, updated, chan>>

Cells(K) == IF h[K].alias THEN SpecAt(groups, h[K].key, h[K].rs).arr ELSE h[K].own

\* One turn of the loop over spec.Hosts; cmHostExists, ingHostExists.  Only the
\* Ingress handler marks the groups as updated.
HostTurn(K) ==
    /\ h[K].pc = "hosts" /\ h[K].turn <= h[K].end
    /\ LET host == Cells(K)[h[K].turn]
       IN  IF host \in Range(h[K].cur.hosts)
           THEN UNCHANGED <<groups, updated>>
           ELSE /\ sender = None
                /\ groups' \in removeHost(groups, h[K].rs, host)
                /\ updated' = (updated \/ K = "Ingress")
    /\ h' = [h EXCEPT ![K].turn = @ + 1]
    /\ UNCHANGED <<env, notif, dirty, w, starters, chan>>

\* After the loop an Ingress whose group name changed leaves its group.
Regroup(K) ==
    /\ h[K].pc = "hosts" /\ h[K].turn > h[K].end
    /\ K = "Ingress" /\ h[K].cur.name # h[K].key.name
    /\ sender = None
    /\ groups' \in removeFromIPGroup(groups, h[K].rs)
    /\ h' = [h EXCEPT ![K] = [Idle EXCEPT !.pc = "enqueue", !.rs = h[K].rs]]
    /\ UNCHANGED <<env, notif, dirty, w, starters, updated, chan>>

\* rsQueue.Add(*key), at the end of an update.
Enqueue(K) ==
    /\ \/ h[K].pc = "enqueue"
       \/ /\ h[K].pc = "hosts" /\ h[K].turn > h[K].end
          /\ K = "Ingress" => h[K].cur.name = h[K].key.name
    /\ dirty' = dirty \cup {h[K].rs}
    /\ h' = [h EXCEPT ![K] = Idle]
    /\ UNCHANGED <<env, notif, w, starters, groups, updated, chan>>

RemoveSpec(K) ==
    /\ h[K].pc = "remove"
    /\ sender = None
    /\ groups' \in removeFromIPGroup(groups, h[K].rs)
    /\ h' = [h EXCEPT ![K] = [Idle EXCEPT !.pc = "write"]]
    /\ UNCHANGED <<env, notif, dirty, w, starters, updated, chan>>

(***************************************************************************)
(* The resource worker: processNextResource and syncResource               *)
(***************************************************************************)
Get(r) ==
    /\ w.pc = "get" /\ r \in Queued
    /\ dirty' = dirty \ {r}
    /\ w' = [Resting EXCEPT !.pc = "add", !.rs = r, !.c = cache[r]]
    /\ UNCHANGED <<env, notif, h, starters, groups, updated, chan>>

\* Returns early, without writing: an annotation that is required is missing.
SkipIncomplete ==
    /\ w.pc = "add" /\ w.c # Absent
    /\ w.c.net = None \/ (KindOf[w.rs] = "ConfigMap" /\ w.c.hosts = <<>>)
    /\ w' = [Resting EXCEPT !.rs = w.rs, !.pc = "done"]
    /\ UNCHANGED <<env, notif, h, dirty, starters, groups, updated, chan>>

\* The resource is gone, or is an Ingress without a host: only the write is left.
SkipAdd ==
    /\ w.pc = "add"
    /\ \/ w.c = Absent
       \/ /\ w.c # Absent /\ w.c.net # None
          /\ KindOf[w.rs] = "Ingress" /\ w.c.hosts = <<>>
    /\ w' = [Resting EXCEPT !.rs = w.rs, !.pc = "check"]
    /\ UNCHANGED <<env, notif, h, dirty, starters, groups, updated, chan>>

\* addToIPGroup.  It may leave the array a handler is looping over for a larger
\* one; capacities are not modelled.
AddSpec ==
    /\ w.pc = "add" /\ w.c # Absent /\ Complete(w.c)
    /\ sender = None
    /\ LET k == KeyOf(w.c)
           g == addToIPGroup(groups, k, w.rs, w.c.hosts)
           K == KindOf[w.rs]
       IN  /\ groups' = g
           /\ w' = [Resting EXCEPT !.rs = w.rs, !.val = (g # groups),
                                   !.pc = IF g # groups THEN "store" ELSE "read"]
           /\ \/ UNCHANGED h
              \/ /\ h[K].pc = "hosts" /\ h[K].rs = w.rs /\ h[K].key = k /\ h[K].alias
                 /\ Len(SpecAt(g, k, w.rs).arr) > Len(Cells(K))
                 /\ h' = [h EXCEPT ![K].alias = FALSE,
                            ![K].own = SubSeq(SpecAt(g, k, w.rs).arr, 1, Len(Cells(K)))]
    /\ UNCHANGED <<env, notif, dirty, starters, updated, chan>>

\* client.updated = client.updated || ret, which nothing protects: if addToIPGroup
\* returned false it is a read and, later, a write of what was read.
ReadUpdated ==
    /\ w.pc = "read"
    /\ w' = [w EXCEPT !.pc = "store", !.val = updated]
    /\ UNCHANGED <<env, notif, h, dirty, starters, groups, updated, chan>>

\* Faults for mutation: && for ||; no regard to whether anything was added.
StoreUpdatedAnd ==
    /\ w.pc = "store"
    /\ updated' = (updated /\ w.val)
    /\ w' = [Resting EXCEPT !.rs = w.rs, !.pc = "check"]
    /\ UNCHANGED <<env, notif, h, dirty, starters, groups, chan>>
StoreUpdatedAlways ==
    /\ w.pc = "store"
    /\ updated' = TRUE
    /\ w' = [Resting EXCEPT !.rs = w.rs, !.pc = "check"]
    /\ UNCHANGED <<env, notif, h, dirty, starters, groups, chan>>

StoreUpdated ==
    /\ w.pc = "store"
    /\ updated' = w.val
    /\ w' = [Resting EXCEPT !.rs = w.rs, !.pc = "check"]
    /\ UNCHANGED <<env, notif, h, dirty, starters, groups, chan>>

\* if client.updated, which somebody else may have changed since.
CheckUpdated ==
    /\ w.pc = "check"
    /\ w' = [w EXCEPT !.pc = IF updated THEN "write" ELSE "done"]
    /\ UNCHANGED <<env, notif, h, dirty, starters, groups, updated, chan>>

\* rsQueue.Done, and the top of the next processNextResource.
Done ==
    /\ w.pc = "done"
    /\ w' = Resting
    /\ starters' = IF initialState \/ starters.sleep + starters.wait >= MaxStarters THEN starters
                   ELSE [starters EXCEPT !.sleep = @ + 1]
    /\ UNCHANGED <<env, notif, h, dirty, groups, updated, chan>>

\* Fault for mutation: the goroutine only looks at the queue.
WakeOnly ==
    /\ starters.sleep > 0
    /\ starters' = [starters EXCEPT !.sleep = @ - 1]
    /\ UNCHANGED <<env, notif, h, dirty, w, groups, updated, chan>>

\* A startup goroutine after its two seconds.
Wake ==
    /\ starters.sleep > 0
    /\ starters' = [sleep |-> starters.sleep - 1,
                    wait |-> starters.wait + IF Queued = {} THEN 1 ELSE 0]
    /\ UNCHANGED <<env, notif, h, dirty, w, groups, updated, chan>>

(***************************************************************************)
(* writeIPGroups                                                           *)
(***************************************************************************)
Writing(p) ==
    CASE p \in Kinds   -> h[p].pc = "write"
      [] p = "worker"  -> w.pc = "write"
      [] p = "starter" -> starters.wait > 0

\* writeIPGroups returns.
Returns(p) ==
    /\ h' = IF p \in Kinds THEN [h EXCEPT ![p] = Idle] ELSE h
    /\ w' = IF p = "worker" THEN [w EXCEPT !.pc = "done"] ELSE w
    /\ starters' = IF p = "starter" THEN [starters EXCEPT !.wait = @ - 1] ELSE starters

\* It takes GroupMutex, and goes on to send if the queue is empty or the groups
\* have been sent before.
BeginWrite(p) ==
    /\ sender = None /\ Writing(p)
    /\ IF Queued = {} \/ initialState
       THEN sender' = p /\ UNCHANGED <<h, w, starters>>
       ELSE Returns(p) /\ UNCHANGED sender
    /\ UNCHANGED <<env, notif, dirty, groups, updated, initialState, ctl, received>>

\* The gob encoding of the groups has the hosts, not what is behind them.
Sent(g) == [k \in GroupKey |->
    [i \in DOMAIN g[k] |-> [rs |-> g[k][i].rs, hosts |-> HostsOf(g[k][i])]]]

EndWrite ==
    /\ sender' = None
    /\ initialState' = TRUE /\ updated' = FALSE
    /\ Returns(sender)
    /\ UNCHANGED <<env, notif, dirty, groups>>

Deliver ==
    /\ sender # None /\ ctl = "select"
    /\ received' = Sent(groups)
    /\ ctl' = "busy"
    /\ EndWrite

\* Fault for mutation: the send waits as long as it takes.
TimeoutNever == FALSE /\ UNCHANGED vars

\* Three seconds without a controller in its select.
Timeout ==
    /\ sender # None /\ ctl # "select"
    /\ EndWrite
    /\ UNCHANGED <<ctl, received>>

(***************************************************************************)
(* The controller's side of the channel, and its call of AnnotateResources *)
(***************************************************************************)
\* processIPGroups is over; writeIPHosts has addresses to write out, or none.
CtlProcessed ==
    /\ ctl = "busy"
    /\ ctl' \in {"annotate", "select"}
    /\ UNCHANGED <<env, notif, h, dirty, w, starters, groups, updated, sender,
                   initialState, received>>

NoFirstHost == \E k \in GroupKey : \E i \in DOMAIN groups[k] : groups[k][i].len = 0

\* The hosts in groups as the controller receives them.
HostsSent(sent) ==
    IF sent = None THEN {}
    ELSE UNION {Range(s.hosts) : s \in UNION {Range(sent[k]) : k \in GroupKey}}

\* getSpecsWithHosts: the resources of the specs whose first host has a record.
getSpecsWithHosts ==
    {s.rs : s \in {t \in UNION {Range(groups[k]) : k \in GroupKey} :
                       HostsOf(t)[1] \in HostsSent(received)}}

Room(r) == Len(notif[KindOf[r]]) < MaxPending

\* The informers notify of a change to all resources in S that leaves their
\* content alone, and keeps them as they are.
NotifySame(S) ==
    notif' = [K \in Kinds |-> notif[K] \o
        SetToSeq({[rs |-> r, old |-> cache[r], cur |-> cache[r]] : r \in S \cap Of(K)})]

\* AnnotateResources, for all addresses at once.  getSpecsWithHosts takes
\* GroupMutex and reads the first host of every spec.  A spec without hosts is an
\* index out of range, which ends the process; the container is started again.
\* S are the resources whose annotation changes: the others have it already, or
\* their update fails, and is not tried again.
CtlAnnotate ==
    /\ ctl = "annotate" /\ sender = None
    /\ IF NoFirstHost
       THEN Reboot
       ELSE /\ ctl' = "select"
            /\ \E S \in SUBSET {r \in getSpecsWithHosts : cache[r] # Absent /\ Room(r)} :
                  NotifySame(S)
            /\ UNCHANGED <<cache, h, dirty, w, starters, groups, updated,
                           sender, initialState, received>>
    /\ UNCHANGED events

(***************************************************************************)
(* The environment                                                         *)
(***************************************************************************)
Notify(e) == notif' = [notif EXCEPT ![KindOf[e.rs]] = Append(@, e)]

\* A resource is created, edited or deleted.
Change(r, c) ==
    /\ events < MaxEvents
    /\ c # cache[r]
    /\ cache' = [cache EXCEPT ![r] = c]
    /\ Notify([rs |-> r, old |-> cache[r], cur |-> c])
    /\ events' = events + 1
    /\ UNCHANGED <<h, dirty, w, starters, groups, updated, chan>>

\* A resource is deleted while the watch is down; the next list shows it.
DeleteUnseen(r) ==
    /\ events < MaxEvents
    /\ cache[r] # Absent
    /\ cache' = [cache EXCEPT ![r] = Absent]
    /\ Notify([rs |-> r, old |-> cache[r], cur |-> Unknown])
    /\ events' = events + 1
    /\ UNCHANGED <<h, dirty, w, starters, groups, updated, chan>>

\* The informer's periodic resync.
Resync(r) ==
    /\ ResyncPeriod # 0 /\ cache[r] # Absent
    /\ Room(r)
    /\ NotifySame({r})
    /\ UNCHANGED <<env, h, dirty, w, starters, groups, updated, chan>>

\* The process is killed.
Crash ==
    /\ events < MaxEvents
    /\ events' = events + 1
    /\ Reboot

Handle(K) ==
    \/ OnUnknown(K) \/ OnAdd(K) \/ OnLeave(K) \/ OnUpdate(K) \/ OnOther(K)
    \/ HostTurn(K) \/ Regroup(K) \/ Enqueue(K) \/ RemoveSpec(K)

Work ==
    \/ \E r \in Resource : Get(r)
    \/ SkipIncomplete \/ SkipAdd \/ AddSpec \/ ReadUpdated \/ StoreUpdated \/ CheckUpdated \/ Done

Edit(r) == (\E c \in Contents[r] \cup {Absent} : Change(r, c)) \/ DeleteUnseen(r)

\* All that happens elsewhere than on the channel.
Elsewhere ==
    \/ \E K \in Kinds : Handle(K)
    \/ Work \/ Wake \/ CtlAnnotate
    \/ \E p \in Senders : BeginWrite(p)
    \/ \E r \in Resource : Resync(r) \/ Edit(r)
    \/ Crash

Next == Elsewhere \/ Deliver \/ Timeout \/ CtlProcessed

Spec == Init /\ [][Next]_vars

\* Of the groups that have the resource, the first one that the iteration meets
\* is not the one that the annotations name.
LeavesStaleGroup(K) ==
    /\ Regroup(K)
    /\ getSpec(groups', h[K].rs) \cap {KeyOf(h[K].cur)} # {}

\* Every goroutine that can go on does, the three seconds pass, the informers
\* resync, and the iteration over a map, whose order Go draws each time, does not
\* always start elsewhere.  Nothing is assumed of the changes and of the crashes.
FairSpec ==
    /\ Spec
    /\ \A K \in Kinds : WF_vars(Handle(K)) /\ SF_vars(LeavesStaleGroup(K))
    /\ WF_vars(Work) /\ WF_vars(Wake)
    /\ WF_vars((\E p \in Senders : BeginWrite(p)) \/ Deliver \/ Timeout)
    /\ WF_vars(CtlProcessed \/ CtlAnnotate)
    /\ \A r \in Resource : WF_vars(Resync(r))
=============================================================================
