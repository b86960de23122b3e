--------------------------- MODULE NamespaceWatch ---------------------------
(***************************************************************************)
(* pkg/orchestration/kubernetes.go under a namespace label: informers for  *)
(* the resources of a namespace come and go with its label.  It runs       *)
(*   - the handler of the namespace informer, which queues names;          *)
(*   - the namespace worker, which adds and removes resource informers;    *)
(*   - runImpl, which starts the informers there are while the namespace   *)
(*     worker is running already;                                          *)
(*   - the resource handlers and the resource worker of module K8sClient,  *)
(*     as far as they depend on the informers, and its startup goroutines. *)
(* A namespace has one resource or none, which stays as it is.  A send is  *)
(* always received.  informersMutex is held over several steps only by     *)
(* startResourceInformers, which waits for caches while it holds it.       *)
(***************************************************************************)
EXTENDS Naturals, FiniteSets

CONSTANTS
    Namespace,
    Inhabited,  \* the namespaces that have a resource
    ResyncPeriod, \* of the namespace informer (30 s); 0: before it first passes
    MaxEvents,  \* bound on the changes of labels and the crashes from outside
    None        \* no namespace, nothing sent

ASSUME WatchAssumption ==
    /\ Inhabited \subseteq Namespace
    /\ None \notin Namespace
    /\ MaxEvents \in Nat
    /\ ResyncPeriod \in Nat

VARIABLES
    labelled,  \* the namespace informer's cache
    nsEvents,  \* its notifications that are not handled yet
    nsQueue,   \* nsQueue: the namespaces added and not yet taken
    nw,        \* the locals of the namespace worker
    boot,      \* where runImpl is: it starts the informers, waits for them, is up
    inf,       \* rsInformers and what became of each
    rsEvents,  \* namespaces whose resource the informers notified of
    rsQueue,   \* rsQueue, with a namespace for its resource
    rw,        \* the locals of the resource worker
    starters,  \* how many startup goroutines sleep
    groups,    \* the namespaces whose resource is in the groups
    updated,   \* "IPGroups were updated and need to be written out"
    sent,      \* the groups sent last; initialState says that there are any
    events     \* changes and crashes so far

env  == <<labelled, events>>
nsrv == <<nsEvents, nsQueue, nw>>
rsrv == <<rsEvents, rsQueue, rw>>
out  == <<starters, groups, updated, sent>>
vars == <<env, nsrv, boot, inf, rsrv, out>>

\* in: there is an entry in rsInformers; runs: calls of Run; listed: the runs whose
\* first list is in the cache; stopped: stopCh is closed.
NoInformer  == [in |-> FALSE, runs |-> 0, listed |-> 0, stopped |-> FALSE]
NewInformer == [NoInformer EXCEPT !.in = TRUE]

Idle == [pc |-> "get", ns |-> None]

WorkerOf(PC, S) == {w \in [pc : PC \cup {"get"}, ns : S \cup {None}] :
                       w.pc = "get" <=> w.ns = None}

TypeOK ==
    /\ labelled \subseteq Namespace
    /\ nsEvents \subseteq [ns : Namespace, known : BOOLEAN]
    /\ nsQueue \subseteq Namespace
    /\ nw \in WorkerOf({"exists", "gone", "start", "sync", "stop", "remove"}, Namespace)
    /\ boot \in {"start", "wait", "up"}
    /\ inf \in [Namespace -> [in : BOOLEAN, runs : 0..2, listed : 0..2, stopped : BOOLEAN]]
    /\ rsEvents \subseteq Inhabited
    /\ rsQueue \subseteq Inhabited
    /\ rw \in WorkerOf({"find", "write"}, Inhabited)
    /\ starters \in Nat
    /\ groups \subseteq Inhabited
    /\ updated \in BOOLEAN
    /\ sent \in (SUBSET Inhabited) \cup {None}
    /\ events \in 0..MaxEvents

Known(ns) == [ns |-> ns, known |-> TRUE]

\* A new process, after startNamespaceInformer: the namespaces are in the cache.
Boot ==
    /\ nsEvents = {Known(ns) : ns \in labelled}
    /\ nsQueue = {} /\ nw = Idle /\ boot = "start"
    /\ inf = [ns \in Namespace |-> NoInformer]
    /\ rsEvents = {} /\ rsQueue = {} /\ rw = Idle
    /\ starters = 0 /\ groups = {} /\ updated = FALSE /\ sent = None

Reboot ==
    /\ nsEvents' = {Known(ns) : ns \in labelled}
    /\ nsQueue' = {} /\ nw' = Idle /\ boot' = "start"
    /\ inf' = [ns \in Namespace |-> NoInformer]
    /\ rsEvents' = {} /\ rsQueue' = {} /\ rw' = Idle
    /\ starters' = 0 /\ groups' = {} /\ updated' = FALSE /\ sent' = None
    /\ UNCHANGED labelled

Init == labelled \in SUBSET Namespace /\ events = 0 /\ Boot

MutexFree == boot # "wait"

(***************************************************************************)
(* The namespace informer's handler                                        *)
(***************************************************************************)
\* Fault for mutation: the informer has no DeleteFunc.
enqueueNamespaceNoDelete(e) ==
    /\ e \in nsEvents
    /\ nsEvents' = nsEvents \ {e}
    /\ nsQueue' = nsQueue \cup ({e.ns} \cap labelled)
    /\ UNCHANGED <<env, nw, boot, inf, rsrv, out>>

\* enqueueNamespace.  The type assertion does not expect the tombstone of a
\* namespace whose deletion the watch missed, and the panic ends the process.
enqueueNamespace(e) ==
    /\ e \in nsEvents
    /\ IF e.known
       THEN /\ nsEvents' = nsEvents \ {e}
            /\ nsQueue' = nsQueue \cup {e.ns}
            /\ UNCHANGED <<labelled, nw, boot, inf, rsrv, out>>
       ELSE Reboot
    /\ UNCHANGED events

(***************************************************************************)
(* The namespace worker: processNextNamespace and syncNamespace            *)
(***************************************************************************)
\* Takes a namespace and looks it up in the cache.
NsGet(ns) ==
    /\ nw.pc = "get" /\ ns \in nsQueue
    /\ nsQueue' = nsQueue \ {ns}
    /\ nw' = [pc |-> IF ns \in labelled THEN "exists" ELSE "gone", ns |-> ns]
    /\ UNCHANGED <<env, nsEvents, boot, inf, rsrv, out>>

\* The namespace is there and has informers: return nil.
NsKeep ==
    /\ nw.pc = "exists" /\ MutexFree /\ inf[nw.ns].in
    /\ nw' = Idle
    /\ UNCHANGED <<env, nsEvents, nsQueue, boot, inf, rsrv, out>>

\* Fault for mutation: the informers of the new namespace are not started.
NsAddOnly ==
    /\ nw.pc = "exists" /\ MutexFree /\ ~inf[nw.ns].in
    /\ inf' = [inf EXCEPT ![nw.ns] = NewInformer]
    /\ nw' = [nw EXCEPT !.pc = "sync"]
    /\ UNCHANGED <<env, nsEvents, nsQueue, boot, rsrv, out>>

\* addNamespace
NsAdd ==
    /\ nw.pc = "exists" /\ MutexFree /\ ~inf[nw.ns].in
    /\ inf' = [inf EXCEPT ![nw.ns] = NewInformer]
    /\ nw' = [nw EXCEPT !.pc = "start"]
    /\ UNCHANGED <<env, nsEvents, nsQueue, boot, rsrv, out>>

\* rsInf.start
NsStart ==
    /\ nw.pc = "start"
    /\ inf' = [inf EXCEPT ![nw.ns].runs = @ + 1]
    /\ nw' = [nw EXCEPT !.pc = "sync"]
    /\ UNCHANGED <<env, nsEvents, nsQueue, boot, rsrv, out>>

\* rsInf.waitForCacheSync
NsSynced ==
    /\ nw.pc = "sync" /\ inf[nw.ns].listed > 0
    /\ nw' = Idle
    /\ UNCHANGED <<env, nsEvents, nsQueue, boot, inf, rsrv, out>>

\* The namespace is gone: rsInf is its informers, or nil, whose stop is a nil
\* dereference that ends the process.
NsGone ==
    /\ nw.pc = "gone" /\ MutexFree
    /\ IF inf[nw.ns].in
       THEN /\ nw' = [nw EXCEPT !.pc = "stop"]
            /\ UNCHANGED <<labelled, nsEvents, nsQueue, boot, inf, rsrv, out>>
       ELSE Reboot
    /\ UNCHANGED events

\* rsInf.stop, without the mutex.  Each run of the informers closes the channel of
\* each handler when it ends: the second one to do so ends the process.
NsStop ==
    /\ nw.pc = "stop"
    /\ IF inf[nw.ns].runs > 1
       THEN Reboot
       ELSE /\ inf' = [inf EXCEPT ![nw.ns].stopped = TRUE]
            /\ nw' = [nw EXCEPT !.pc = "remove"]
            /\ UNCHANGED <<labelled, nsEvents, nsQueue, boot, rsrv, out>>
    /\ UNCHANGED events

\* Faults for mutation: the worker does not let go of the namespace; the entry stays.
NsRemoveHolds ==
    /\ nw.pc = "remove" /\ MutexFree
    /\ inf' = [inf EXCEPT ![nw.ns] = NoInformer]
    /\ nw' = [nw EXCEPT !.pc = "get"]
    /\ UNCHANGED <<env, nsEvents, nsQueue, boot, rsrv, out>>

NsRemoveNothing ==
    /\ nw.pc = "remove" /\ MutexFree
    /\ nw' = Idle
    /\ UNCHANGED <<env, nsEvents, nsQueue, boot, inf, rsrv, out>>

\* removeResourceInformers
NsRemove ==
    /\ nw.pc = "remove" /\ MutexFree
    /\ inf' = [inf EXCEPT ![nw.ns] = NoInformer]
    /\ nw' = Idle
    /\ UNCHANGED <<env, nsEvents, nsQueue, boot, rsrv, out>>

(***************************************************************************)
(* runImpl                                                                 *)
(***************************************************************************)
\* startResourceInformers starts what the namespace worker has added by now, may
\* have started itself, and may have stopped again: the latter ends the process.
StartInformers ==
    /\ boot = "start"
    /\ IF \E ns \in Namespace : inf[ns].stopped
       THEN Reboot
       ELSE /\ inf' = [ns \in Namespace |->
                          IF inf[ns].in THEN [inf[ns] EXCEPT !.runs = @ + 1] ELSE inf[ns]]
            /\ boot' = "wait"
            /\ UNCHANGED <<labelled, nsrv, rsrv, out>>
    /\ UNCHANGED events

\* The caches are synced: the mutex is free, and the resource worker starts with a
\* startup goroutine.
InformersSynced ==
    /\ boot = "wait"
    /\ \A ns \in Namespace : inf[ns].in => inf[ns].stopped \/ inf[ns].listed > 0
    /\ boot' = "up"
    /\ starters' = 1
    /\ UNCHANGED <<env, nsrv, inf, rsrv, groups, updated, sent>>

(***************************************************************************)
(* The informers of a namespace and their handlers                         *)
(***************************************************************************)
\* A run lists the resources and the handlers' notifications are on their way.
List(ns) ==
    /\ inf[ns].listed < inf[ns].runs /\ ~inf[ns].stopped
    /\ inf' = [inf EXCEPT ![ns].listed = @ + 1]
    /\ rsEvents' = rsEvents \cup ({ns} \cap Inhabited)
    /\ UNCHANGED <<env, nsrv, boot, rsQueue, rw, out>>

\* addConfigMap, or updateConfigMap after a second list: checkValidConfigMap looks
\* for the informers of the namespace.
OnResource(ns) ==
    /\ ns \in rsEvents /\ MutexFree
    /\ rsEvents' = rsEvents \ {ns}
    /\ rsQueue' = rsQueue \cup (IF inf[ns].in THEN {ns} ELSE {})
    /\ UNCHANGED <<env, nsrv, boot, inf, rw, out>>

\* What informers that were stopped had not passed to their handlers is lost.
Drop(ns) ==
    /\ ns \in rsEvents /\ (inf[ns].stopped \/ ~inf[ns].in)
    /\ rsEvents' = rsEvents \ {ns}
    /\ UNCHANGED <<env, nsrv, boot, inf, rsQueue, rw, out>>

(***************************************************************************)
(* The resource worker and the startup goroutines                          *)
(***************************************************************************)
RsGet(ns) ==
    /\ boot = "up" /\ rw.pc = "get" /\ ns \in rsQueue
    /\ rsQueue' = rsQueue \ {ns}
    /\ rw' = [pc |-> "find", ns |-> ns]
    /\ UNCHANGED <<env, nsrv, boot, inf, rsEvents, out>>

\* syncResource, up to the write.  Without informers rsInf is nil, and reading it
\* ends the process; with new ones the resource may not be in the cache yet.
RsSync ==
    /\ rw.pc = "find" /\ MutexFree
    /\ IF inf[rw.ns].in
       THEN /\ groups' = groups \cup {ns \in {rw.ns} : inf[ns].listed > 0}
            /\ updated' = (updated \/ groups' # groups)
            /\ rw' = [rw EXCEPT !.pc = "write"]
            /\ UNCHANGED <<labelled, nsrv, boot, inf, rsEvents, rsQueue, starters, sent>>
       ELSE Reboot
    /\ UNCHANGED events

\* Fault for mutation: the queues have to be empty later, too.
MaySendWhenIdle == rsQueue \ {rw.ns} = {} /\ nsQueue \ {nw.ns} = {}

\* The condition of writeIPGroups: the lengths of both queues, which do not count
\* what is added again while it is processed.
MaySend ==
    (rsQueue \ {rw.ns} = {} /\ nsQueue \ {nw.ns} = {}) \/ sent # None

writeIPGroups ==
    IF MaySend THEN sent' = groups /\ updated' = FALSE
    ELSE UNCHANGED <<sent, updated>>

\* The write, rsQueue.Done, and the top of the next processNextResource.
RsWrite ==
    /\ rw.pc = "write"
    /\ IF updated THEN writeIPGroups ELSE UNCHANGED <<sent, updated>>
    /\ rw' = Idle
    /\ starters' = IF sent' = None THEN starters + 1 ELSE starters
    /\ UNCHANGED <<env, nsrv, boot, inf, rsEvents, rsQueue, groups>>

\* A startup goroutine after its two seconds.
Wake ==
    /\ starters > 0
    /\ starters' = starters - 1
    /\ IF rsQueue \ {rw.ns} = {} /\ nsQueue \ {nw.ns} = {} THEN writeIPGroups
       ELSE UNCHANGED <<sent, updated>>
    /\ UNCHANGED <<env, nsrv, boot, inf, rsrv, groups>>

(***************************************************************************)
(* The environment                                                         *)
(***************************************************************************)
Count == events < MaxEvents /\ events' = events + 1

\* A namespace gets the label or loses it; the watch may miss the latter, which the
\* next list shows.
Relabel(ns, known) ==
    /\ Count
    /\ known \/ ns \in labelled
    /\ labelled' = IF ns \in labelled THEN labelled \ {ns} ELSE labelled \cup {ns}
    /\ nsEvents' = nsEvents \cup {[ns |-> ns, known |-> known]}
    /\ UNCHANGED <<nsQueue, nw, boot, inf, rsrv, out>>

\* The resync of the namespace informer, which has a period of 30s: all names have
\* been taken by then.
Resync(ns) ==
    /\ ResyncPeriod # 0
    /\ ns \in labelled /\ nsEvents = {} /\ nsQueue = {}
    /\ nsEvents' = {Known(ns)}
    /\ UNCHANGED <<env, nsQueue, nw, boot, inf, rsrv, out>>

Crash == Count /\ Reboot

NsWork ==
    \/ \E ns \in Namespace : NsGet(ns)
    \/ NsKeep \/ NsAdd \/ NsStart \/ NsSynced \/ NsGone \/ NsStop \/ NsRemove

RsWork == (\E ns \in Namespace : RsGet(ns)) \/ RsSync \/ RsWrite

Next ==
    \/ \E e \in nsEvents : enqueueNamespace(e)
    \/ NsWork \/ RsWork \/ Wake
    \/ StartInformers \/ InformersSynced
    \/ \E ns \in Namespace : List(ns) \/ OnResource(ns) \/ Drop(ns) \/ Resync(ns)
    \/ \E ns \in Namespace, known \in BOOLEAN : Relabel(ns, known)
    \/ Crash

Spec == Init /\ [][Next]_vars

\* Every goroutine that can go on does, a queue is first in, first out, so that
\* nothing in it waits for good, and lists are answered.  Nothing is assumed of the
\* labels and of the crashes.
Fairness ==
    /\ WF_vars(\E e \in nsEvents : enqueueNamespace(e))
    /\ WF_vars(NsWork) /\ WF_vars(RsWork) /\ WF_vars(Wake)
    /\ WF_vars(StartInformers \/ InformersSynced)
    /\ \A ns \in Namespace : /\ SF_vars(NsGet(ns)) /\ SF_vars(RsGet(ns))
                             /\ WF_vars(List(ns)) /\ WF_vars(Resync(ns))
                             /\ WF_vars(OnResource(ns) \/ Drop(ns))

FairSpec == Spec /\ Fairness

\* The behaviours in which two seconds are enough for all but the wait for a cache:
\* if a name is still queued when a startup goroutine looks, the namespace worker
\* waits for the cache of an earlier one.
Prompt == nsEvents = {} /\ (nsQueue # {} => nw.pc = "sync")

PromptSpec == Init /\ [][Next /\ (Wake => Prompt)]_vars /\ Fairness

(***************************************************************************)
(* Properties                                                              *)
(***************************************************************************)
\* Between two sections of informersMutex the map stays as the namespace worker found
\* or left it for its namespace, and informers that were stopped are in the map only
\* until the worker that stopped them removes them.  (syncNamespace)
WorkerOwns ==
    /\ nw.pc \in {"start", "sync", "stop", "remove"} => inf[nw.ns].in
    /\ \A ns \in Namespace : inf[ns].stopped => nw.pc = "remove" /\ nw.ns = ns

\* There are running informers for the namespaces with the label and for no others.
Following ==
    \A ns \in Namespace : /\ ns \in labelled <=> inf[ns].in
                          /\ inf[ns].in => inf[ns].runs > 0 /\ ~inf[ns].stopped

\* The groups have the resources of the labelled namespaces, and so does the
\* controller if it got any groups.
Gathered ==
    /\ labelled \cap Inhabited \subseteq groups
    /\ sent # None => labelled \cap Inhabited \subseteq sent

\* Once the labels stop changing, there are running informers for the namespaces
\* with the label and for no others, whatever the namespace worker read before a
\* change, and whatever ended the process meanwhile.  (syncNamespace)
InformersFollow == <>[]Following

\* Once the labels stop changing, the groups have the resources of the labelled
\* namespaces, and so does the controller if it got any: no event is lost between
\* informers that are replaced, the two queues and the two workers.
\* (checkValidConfigMap, syncResource, writeIPGroups)
ResourcesCovered == <>[]Gathered

\* The namespace worker has nothing left to do.
NamespacesQuiet == nsEvents = {} /\ nsQueue = {} /\ nw.pc = "get"

\* Nor have the informers, their handlers and the resource worker.
ResourcesQuiet ==
    /\ NamespacesQuiet
    /\ \A ns \in Namespace : inf[ns].listed = inf[ns].runs
    /\ rsEvents = {} /\ rsQueue = {} /\ rw.pc = "get"

\* The namespace worker does not come to rest with informers missing or left over:
\* when what it read of a namespace is out of date, the namespace is queued again,
\* or will be.  (syncNamespace, enqueueNamespace)
FollowingAtRest == NamespacesQuiet => Following

\* Nor does the resource worker with resources missing: what is dropped with
\* informers that are replaced, or is not in the cache of new ones, is listed once
\* more.  (checkValidConfigMap, syncResource, writeIPGroups)
GatheredAtRest == ResourcesQuiet => Gathered

\* The goroutines do not wait for each other for good: the mutex that is held while
\* caches sync is given back, and the namespace worker comes back to its queue.
\* (startResourceInformers, processNextNamespace)
WorkerReturns == []<>(boot = "up" /\ nw.pc = "get")

\* Without a resource "we still need to send the empty groups to the Controller".
\* (processNextResource)
EmptySent == []<>(sent # None)
=============================================================================
