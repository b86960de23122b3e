------------------------ MODULE K8sClientProperties -------------------------
(***************************************************************************)
(* What the orchestration client promises.                                 *)
(***************************************************************************)
EXTENDS K8sClient

\* No goroutine of the client has anything left to do.
Quiet ==
    /\ \A K \in Kinds : notif[K] = <<>> /\ h[K].pc = "idle"
    /\ dirty = {} /\ w.pc = "get"
    /\ starters.sleep = 0 /\ starters.wait = 0 /\ sender = None

\* The hosts that no version of a resource names twice; nobody keeps an Ingress from
\* having two rules for a host.  (kubernetes.go:703-706)
NamedOnce == [r \in Resource |-> {x \in Host : \A c \in Contents[r] : Once(c.hosts, x)}]

\* A resource has one spec in a group at most, and a spec has a host twice only if
\* the resource has named it twice, however the worker's appends and the handlers'
\* removals share the host array.  (addToIPGroup, removeHost)
DistinctSpecs ==
    \A k \in GroupKey :
       /\ \A i, j \in DOMAIN groups[k] : groups[k][i].rs = groups[k][j].rs => i = j
       /\ \A i \in DOMAIN groups[k] : \A x \in NamedOnce[groups[k][i].rs] :
             Once(HostsOf(groups[k][i]), x)

\* All hosts of every watched and complete resource are in the group it names.
Covered ==
    \A r \in Resource : checkValid(cache[r]) /\ Complete(cache[r]) =>
       /\ r \in {s.rs : s \in Range(groups[KeyOf(cache[r])])}
       /\ Range(cache[r].hosts)
             \subseteq Range(HostsOf(SpecAt(groups, KeyOf(cache[r]), r)))

\* Once the resources stop changing, the groups have every host of every
\* watched resource, and keep it, although handlers that lag behind the cache
\* remove hosts again.  (updateIngress, syncResource)
HostsCovered == <>[]Covered

\* When the client has nothing left to do, the groups lack no host of a watched
\* resource: every removal that a handler makes for an older version of it is
\* made good by an event or a turn of the worker that is still to come.
\* (updateIngress, removeFromIPGroup, syncResource)
RestCovered == Quiet => Covered

\* No spec of a watched resource has a host the resource has not.
Exact ==
    \A k \in GroupKey : \A i \in DOMAIN groups[k] :
       LET s == groups[k][i]
       IN  checkValid(cache[s.rs]) => Range(HostsOf(s)) \subseteq Range(cache[s.rs].hosts)


\* The controller always comes back to its select: its wait for GroupMutex and
\* the client's wait for the controller, with GroupMutex held, end.
\* (writeIPGroups, getSpecsWithHosts)
ControllerReturns == []<>(ctl = "select")

\* A client that starts sends its groups, if only the empty ones: "we still need
\* to send the empty groups to the Controller".  (processNextResource)
StartupSends == []<>(received # None)

\* What the controller has is what the groups are, when the client has nothing
\* left to do: "updated" "tells whether IPGroups were updated and need to be
\* written out".  (writeIPGroups)
NothingUnsent == Quiet /\ ctl = "select" => received = Sent(groups)

\* The client comes to rest: what the controller writes to a resource comes back
\* to the client as an update of that resource, and does not make it send again
\* and again.  (AnnotateResources, updateIngress, syncResource)
ComesToRest == <>[](Quiet /\ ctl = "select")
=============================================================================
