------------------------ MODULE NamespaceWatchProofs ------------------------
(***************************************************************************)
(* The namespace watch, for any set of namespaces and any number of        *)
(* changes: the types; that the namespace worker finds the informers as it *)
(* left them although runImpl starts them at the same time; and that       *)
(* nothing is missing or left over when the workers are at rest.           *)
(***************************************************************************)
EXTENDS NamespaceWatch, TLAPS

\* How often the informers of ns may have been started: once by runImpl after it
\* came by, and once by the worker after it did.
Starts(ns) ==
    (IF boot = "start" THEN 0 ELSE 1) + (IF nw.pc = "start" /\ nw.ns = ns THEN 0 ELSE 1)

\* Informers that are not in the map have not run, and the others not too often;
\* a list belongs to a run.
RunsCounted ==
    \A ns \in Namespace :
        /\ ~inf[ns].in => inf[ns].runs = 0
        /\ inf[ns].runs <= Starts(ns)
        /\ inf[ns].listed <= inf[ns].runs

IInv == TypeOK /\ WorkerOwns /\ RunsCounted

InformerType == [in : BOOLEAN, runs : 0..2, listed : 0..2, stopped : BOOLEAN]

LEMMA InformerTypes == NoInformer \in InformerType /\ NewInformer \in InformerType
  <1>1. NoInformer \in InformerType
    BY DEF NoInformer, InformerType
  <1>2. NewInformer \in InformerType
    BY <1>1 DEF NewInformer, InformerType
  <1> QED BY <1>1, <1>2

LEMMA KnownTypes ==
    ASSUME NEW S, S \subseteq Namespace
    PROVE  {Known(ns) : ns \in S} \subseteq [ns : Namespace, known : BOOLEAN]
  <1>1. ASSUME NEW ns \in S PROVE Known(ns) \in [ns : Namespace, known : BOOLEAN]
    BY DEF Known
  <1> QED BY <1>1

LEMMA IdleTypes == ASSUME NEW PC, NEW S PROVE Idle \in WorkerOf(PC, S)
  BY DEF Idle, WorkerOf

\* What IInv says of the informers, for a step that leaves the other variables in
\* their types.
LEMMA OneInformer ==
    ASSUME TypeOK, NEW ns \in Namespace, NEW v \in InformerType,
           inf' = [inf EXCEPT ![ns] = v]
    PROVE  /\ inf' \in [Namespace -> InformerType]
           /\ inf'[ns] = v
           /\ \A m \in Namespace \ {ns} : inf'[m] = inf[m]
  BY DEF TypeOK, InformerType

\* The end of the process leaves a state as after its start.
LEMMA RebootKeeps ==
    ASSUME IInv, Reboot, events' \in 0..MaxEvents
    PROVE  IInv'
  <1> USE DEF IInv
  <1>1. TypeOK'
    <2>1. inf' \in [Namespace -> InformerType]
      BY InformerTypes DEF Reboot
    <2>2. nsEvents' \subseteq [ns : Namespace, known : BOOLEAN]
      BY KnownTypes DEF TypeOK, Reboot
    <2>3. Idle' = Idle
      BY DEF Idle
    <2> QED BY <2>1, <2>2, <2>3, IdleTypes DEF TypeOK, Reboot, InformerType
  <1>2. WorkerOwns' /\ RunsCounted'
    BY DEF Reboot, WorkerOwns, RunsCounted, Starts, Idle, NoInformer
  <1> QED BY <1>1, <1>2

LEMMA InitKeeps == Init => IInv
  <1> SUFFICES ASSUME Init PROVE IInv
    OBVIOUS
  <1>1. TypeOK
    <2>1. inf \in [Namespace -> InformerType]
      BY InformerTypes DEF Init, Boot
    <2>2. nsEvents \subseteq [ns : Namespace, known : BOOLEAN]
      BY KnownTypes DEF Init, Boot
    <2>3. /\ nw \in WorkerOf({"exists", "gone", "start", "sync", "stop", "remove"}, Namespace)
          /\ rw \in WorkerOf({"find", "write"}, Inhabited)
      BY IdleTypes DEF Init, Boot
    <2>4. events \in 0..MaxEvents /\ starters \in Nat
      BY WatchAssumption DEF Init, Boot
    <2> QED BY <2>1, <2>2, <2>3, <2>4 DEF Init, Boot, TypeOK, InformerType
  <1>2. WorkerOwns /\ RunsCounted
    BY DEF Init, Boot, WorkerOwns, RunsCounted, Starts, Idle, NoInformer
  <1> QED BY <1>1, <1>2 DEF IInv

\* The namespace worker's steps.  The informers it changes are those of the namespace
\* it works on.
LEMMA WorkerKeeps ==
    ASSUME IInv, NsWork PROVE IInv'
  <1> USE DEF IInv
  <1>1. ASSUME NEW ns \in Namespace, NsGet(ns) PROVE IInv'
    BY <1>1, WatchAssumption DEF NsGet, TypeOK, WorkerOf, WorkerOwns, RunsCounted, Starts,
                env, rsrv, out
  <1>2. CASE NsKeep \/ NsSynced
    BY <1>2 DEF NsKeep, NsSynced, Idle, TypeOK, WorkerOf, WorkerOwns, RunsCounted, Starts,
                env, rsrv, out
  <1>3. CASE NsAdd
    <2>1. nw.ns \in Namespace /\ nw'.ns = nw.ns /\ nw'.pc = "start"
      BY <1>3 DEF NsAdd, TypeOK, WorkerOf
    <2>2. /\ inf' \in [Namespace -> InformerType]
          /\ inf'[nw.ns] = NewInformer
          /\ \A m \in Namespace \ {nw.ns} : inf'[m] = inf[m]
      BY <1>3, <2>1, OneInformer, InformerTypes DEF NsAdd
    <2>3. TypeOK'
      BY <1>3, <2>1, <2>2 DEF NsAdd, TypeOK, WorkerOf, InformerType, env, rsrv, out
    <2>4. WorkerOwns' /\ RunsCounted'
      BY <1>3, <2>1, <2>2
         DEF NsAdd, WorkerOwns, RunsCounted, Starts, NewInformer, NoInformer
    <2> QED BY <2>3, <2>4
  <1>4. CASE NsStart
    <2>1. nw.ns \in Namespace /\ nw'.ns = nw.ns /\ nw'.pc = "sync"
      BY <1>4 DEF NsStart, TypeOK, WorkerOf
    <2> DEFINE v == [inf[nw.ns] EXCEPT !.runs = @ + 1]
    <2>2. v \in InformerType
      BY <1>4, <2>1 DEF NsStart, TypeOK, RunsCounted, Starts, InformerType
    <2>3. inf' = [inf EXCEPT ![nw.ns] = v]
      BY <1>4 DEF NsStart
    <2>4. /\ inf' \in [Namespace -> InformerType]
          /\ inf'[nw.ns] = v
          /\ \A m \in Namespace \ {nw.ns} : inf'[m] = inf[m]
      BY <2>1, <2>2, <2>3, OneInformer
    <2>5. TypeOK'
      BY <1>4, <2>1, <2>4 DEF NsStart, TypeOK, WorkerOf, InformerType, env, rsrv, out
    <2>6. WorkerOwns' /\ RunsCounted'
      BY <1>4, <2>1, <2>4
         DEF NsStart, WorkerOwns, RunsCounted, Starts, TypeOK, InformerType
    <2> QED BY <2>5, <2>6
  <1>5. CASE NsGone
    <2>1. CASE inf[nw.ns].in
      BY <1>5, <2>1 DEF NsGone, TypeOK, WorkerOf, WorkerOwns, RunsCounted, Starts,
                        rsrv, out
    <2>2. CASE ~inf[nw.ns].in
      BY <1>5, <2>2, RebootKeeps DEF NsGone, TypeOK
    <2> QED BY <2>1, <2>2
  <1>6. CASE NsStop
    <2>1. CASE inf[nw.ns].runs > 1
      BY <1>6, <2>1, RebootKeeps DEF NsStop, TypeOK
    <2>2. CASE ~(inf[nw.ns].runs > 1)
      <3>1. nw.ns \in Namespace /\ nw'.ns = nw.ns /\ nw'.pc = "remove"
        BY <1>6, <2>2 DEF NsStop, TypeOK, WorkerOf
      <3> DEFINE v == [inf[nw.ns] EXCEPT !.stopped = TRUE]
      <3>2. v \in InformerType
        BY <3>1 DEF TypeOK, InformerType
      <3> HIDE DEF v
      <3>3. inf' = [inf EXCEPT ![nw.ns] = v]
        BY <1>6, <2>2 DEF NsStop, v
      <3>4. /\ inf' \in [Namespace -> InformerType]
            /\ inf'[nw.ns] = v
            /\ \A m \in Namespace \ {nw.ns} : inf'[m] = inf[m]
        BY <3>1, <3>2, <3>3, OneInformer
      <3>5. TypeOK'
        BY <1>6, <2>2, <3>1, <3>4 DEF NsStop, TypeOK, WorkerOf, InformerType, rsrv, out
      <3>6. WorkerOwns' /\ RunsCounted'
        BY <1>6, <2>2, <3>1, <3>4
           DEF v, NsStop, WorkerOwns, RunsCounted, Starts, TypeOK, InformerType
      <3> QED BY <3>5, <3>6
    <2> QED BY <2>1, <2>2
  <1>7. CASE NsRemove
    <2>1. nw.ns \in Namespace /\ nw' = Idle
      BY <1>7 DEF NsRemove, TypeOK, WorkerOf
    <2>2. /\ inf' \in [Namespace -> InformerType]
          /\ inf'[nw.ns] = NoInformer
          /\ \A m \in Namespace \ {nw.ns} : inf'[m] = inf[m]
      BY <1>7, <2>1, OneInformer, InformerTypes DEF NsRemove
    <2>3. TypeOK'
      BY <1>7, <2>1, <2>2, IdleTypes
         DEF NsRemove, TypeOK, InformerType, env, rsrv, out
    <2>4. WorkerOwns' /\ RunsCounted'
      BY <1>7, <2>1, <2>2
         DEF NsRemove, WorkerOwns, RunsCounted, Starts, NoInformer, Idle
    <2> QED BY <2>3, <2>4
  <1> QED
    BY <1>1, <1>2, <1>3, <1>4, <1>5, <1>6, <1>7 DEF NsWork

\* runImpl starts the informers in the map, once.
LEMMA BootKeeps ==
    ASSUME IInv, StartInformers \/ InformersSynced PROVE IInv'
  <1> USE DEF IInv
  <1>1. CASE StartInformers
    <2>1. CASE \E ns \in Namespace : inf[ns].stopped
      BY <1>1, <2>1, RebootKeeps DEF StartInformers, TypeOK
    <2>2. CASE ~\E ns \in Namespace : inf[ns].stopped
      <3> DEFINE run(ns) == [inf[ns] EXCEPT !.runs = @ + 1]
      <3>1. ASSUME NEW ns \in Namespace
            PROVE  /\ inf[ns].runs <= 1
                   /\ run(ns) \in InformerType
                   /\ run(ns).in = inf[ns].in /\ run(ns).runs = inf[ns].runs + 1
                   /\ run(ns).listed = inf[ns].listed /\ run(ns).stopped = inf[ns].stopped
        BY <1>1 DEF StartInformers, TypeOK, RunsCounted, Starts, InformerType
      <3>2. /\ inf' = [ns \in Namespace |-> IF inf[ns].in THEN run(ns) ELSE inf[ns]]
            /\ boot' = "wait" /\ nw' = nw
        BY <1>1, <2>2 DEF StartInformers, nsrv
      <3> HIDE DEF run
      <3>3. inf' \in [Namespace -> InformerType]
        BY <3>1, <3>2 DEF TypeOK, InformerType
      <3>4. TypeOK'
        BY <1>1, <2>2, <3>2, <3>3
           DEF StartInformers, TypeOK, InformerType, nsrv, rsrv, out
      <3>5. WorkerOwns'
        <4>1. nw.pc \in {"start", "sync", "stop", "remove"} => nw.ns \in Namespace
          BY DEF TypeOK, WorkerOf
        <4> QED BY <3>1, <3>2, <4>1 DEF WorkerOwns
      <3>6. RunsCounted'
        BY <1>1, <3>1, <3>2 DEF StartInformers, RunsCounted, Starts, TypeOK, InformerType
      <3> QED BY <3>4, <3>5, <3>6
    <2> QED BY <2>1, <2>2
  <1>2. CASE InformersSynced
    BY <1>2 DEF InformersSynced, TypeOK, WorkerOf, WorkerOwns, RunsCounted, Starts,
                env, nsrv, rsrv
  <1> QED BY <1>1, <1>2

\* The informers of the resources, and the handlers of both kinds.
LEMMA HandlersKeep ==
    ASSUME IInv,
           \/ \E e \in nsEvents : enqueueNamespace(e)
           \/ \E ns \in Namespace : List(ns) \/ OnResource(ns) \/ Drop(ns)
    PROVE  IInv'
  <1> USE DEF IInv
  <1>1. ASSUME NEW e \in nsEvents, enqueueNamespace(e) PROVE IInv'
    <2>1. CASE e.known
      BY <1>1, <2>1 DEF enqueueNamespace, TypeOK, WorkerOwns, RunsCounted, Starts,
                        rsrv, out
    <2>2. CASE ~e.known
      BY <1>1, <2>2, RebootKeeps DEF enqueueNamespace, TypeOK
    <2> QED BY <2>1, <2>2
  <1>2. ASSUME NEW ns \in Namespace, List(ns) PROVE IInv'
    <2> DEFINE v == [inf[ns] EXCEPT !.listed = @ + 1]
    <2>1. v \in InformerType /\ inf' = [inf EXCEPT ![ns] = v]
      <3>1. inf[ns] \in InformerType /\ inf[ns].listed + 1 \in 0..2
        BY <1>2 DEF List, TypeOK, InformerType
      <3>2. v \in InformerType
        BY <3>1 DEF InformerType
      <3> QED BY <1>2, <3>2 DEF List
    <2>2. /\ inf' \in [Namespace -> InformerType]
          /\ inf'[ns] = v
          /\ \A m \in Namespace \ {ns} : inf'[m] = inf[m]
      BY <2>1, OneInformer
    <2>3. TypeOK'
      BY <1>2, <2>2 DEF List, TypeOK, InformerType, env, nsrv, out
    <2>4. WorkerOwns' /\ RunsCounted'
      BY <1>2, <2>2
         DEF List, WorkerOwns, RunsCounted, Starts, TypeOK, InformerType, WorkerOf, nsrv
    <2> QED BY <2>3, <2>4
  <1>3. ASSUME NEW ns \in Namespace, OnResource(ns) \/ Drop(ns) PROVE IInv'
    BY <1>3 DEF OnResource, Drop, TypeOK, WorkerOwns, RunsCounted, Starts,
                env, nsrv, out
  <1> QED BY <1>1, <1>2, <1>3

\* The resource worker and the startup goroutines.
LEMMA ResourcesKeep ==
    ASSUME IInv, RsWork \/ Wake PROVE IInv'
  <1> USE DEF IInv
  <1>1. ASSUME NEW ns \in Namespace, RsGet(ns) PROVE IInv'
    BY <1>1, WatchAssumption
       DEF RsGet, TypeOK, WorkerOf, WorkerOwns, RunsCounted, Starts, env, nsrv, out
  <1>2. CASE RsSync
    <2>1. CASE inf[rw.ns].in
      BY <1>2, <2>1 DEF RsSync, TypeOK, WorkerOf, WorkerOwns, RunsCounted, Starts,
                        nsrv
    <2>2. CASE ~inf[rw.ns].in
      BY <1>2, <2>2, RebootKeeps DEF RsSync, TypeOK
    <2> QED BY <2>1, <2>2
  <1>3. ASSUME writeIPGroups \/ UNCHANGED <<sent, updated>>
        PROVE  sent' \in (SUBSET Inhabited) \cup {None} /\ updated' \in BOOLEAN
    BY <1>3 DEF writeIPGroups, TypeOK
  <1>4. CASE RsWrite
    <2>1. sent' \in (SUBSET Inhabited) \cup {None} /\ updated' \in BOOLEAN
      BY <1>3, <1>4 DEF RsWrite
    <2>2. starters' \in Nat
      BY <1>4 DEF RsWrite, TypeOK
    <2>3. rw' \in WorkerOf({"find", "write"}, Inhabited)
      BY <1>4, IdleTypes DEF RsWrite
    <2> QED
      BY <1>4, <2>1, <2>2, <2>3
         DEF RsWrite, TypeOK, WorkerOwns, RunsCounted, Starts, env, nsrv
  <1>5. CASE Wake
    <2>1. sent' \in (SUBSET Inhabited) \cup {None} /\ updated' \in BOOLEAN
      BY <1>3, <1>5 DEF Wake
    <2> QED
      BY <1>5, <2>1
         DEF Wake, TypeOK, WorkerOwns, RunsCounted, Starts, env, nsrv, rsrv
  <1> QED BY <1>1, <1>2, <1>4, <1>5 DEF RsWork

LEMMA EnvironmentKeeps ==
    ASSUME IInv,
           \/ \E ns \in Namespace, known \in BOOLEAN : Relabel(ns, known)
           \/ \E ns \in Namespace : Resync(ns)
           \/ Crash
    PROVE  IInv'
  <1> USE DEF IInv
  <1>1. Count => events' \in 0..MaxEvents
    BY WatchAssumption DEF Count, TypeOK
  <1>2. ASSUME NEW ns \in Namespace, NEW known \in BOOLEAN, Relabel(ns, known) PROVE IInv'
    BY <1>1, <1>2 DEF Relabel, TypeOK, WorkerOwns, RunsCounted, Starts, rsrv, out
  <1>3. ASSUME NEW ns \in Namespace, Resync(ns) PROVE IInv'
    BY <1>3 DEF Resync, Known, TypeOK, WorkerOwns, RunsCounted, Starts, env, rsrv, out
  <1>4. CASE Crash
    BY <1>1, <1>4, RebootKeeps DEF Crash
  <1> QED BY <1>2, <1>3, <1>4

LEMMA StutterKeeps == ASSUME IInv, UNCHANGED vars PROVE IInv'
  BY DEF IInv, vars, env, nsrv, rsrv, out, TypeOK, WorkerOwns, RunsCounted, Starts

LEMMA Inductive == Spec => []IInv
  <1>1. IInv /\ [Next]_vars => IInv'
    BY WorkerKeeps, BootKeeps, HandlersKeep, ResourcesKeep, EnvironmentKeeps, StutterKeeps
       DEF Next
  <1> QED BY <1>1, InitKeeps, PTL DEF Spec

\* The variables keep their types; informers are started at most twice.
\* (startResourceInformers, syncNamespace)
THEOREM WatchTypes == Spec => []TypeOK
  BY Inductive, PTL DEF IInv

\* The namespace worker's informers are in the map while it works on them, and only
\* it ever sees stopped ones there, however runImpl and the end of the process
\* interleave with it.  (syncNamespace)
THEOREM WatchOwned == Spec => []WorkerOwns
  BY Inductive, PTL DEF IInv

(***************************************************************************)
(* At rest                                                                 *)
(***************************************************************************)
\* The namespace is queued, or will be.
Pending(ns) == ns \in nsQueue \/ \E e \in nsEvents : e.ns = ns

\* What the namespace worker has read of its namespace holds, and what it did about
\* the others is right, unless they are pending.
ReadRight ==
    \A ns \in Namespace : ~Pending(ns) =>
       IF nw.ns = ns THEN ns \in labelled <=> nw.pc \in {"exists", "start", "sync"}
                     ELSE ns \in labelled <=> inf[ns].in

\* Informers in the map have been started, or the worker is about to.
Started ==
    \A ns \in Namespace : inf[ns].in => inf[ns].runs > 0 \/ (nw.pc = "start" /\ nw.ns = ns)

\* The resource of a namespace with informers is in the groups, or on its way there,
\* or will be listed, unless the informers are stopped.
Informed ==
    \A ns \in Inhabited : inf[ns].in =>
       \/ ns \in groups \cup rsEvents \cup rsQueue
       \/ rw.pc = "find" /\ rw.ns = ns
       \/ inf[ns].runs = 0
       \/ inf[ns].listed < inf[ns].runs
       \/ inf[ns].stopped

\* From the first send on the controller has the groups, or the worker sends them.
Written == sent # None => groups \subseteq sent \/ (updated /\ rw.pc = "write")

RestInv == ReadRight /\ Started /\ Informed /\ Written

LEMMA BootRests ==
    ASSUME nsEvents = {Known(ns) : ns \in labelled}, nsQueue = {}, nw = Idle,
           inf = [ns \in Namespace |-> NoInformer], sent = None
    PROVE  RestInv
  <1>1. ASSUME NEW ns \in Namespace, ~Pending(ns) PROVE ns \notin labelled
    <2> SUFFICES ASSUME ns \in labelled PROVE FALSE
      OBVIOUS
    <2>1. Known(ns) \in nsEvents /\ Known(ns).ns = ns
      BY DEF Known
    <2> QED BY <1>1, <2>1 DEF Pending
  <1>2. ASSUME NEW ns \in Namespace PROVE ~inf[ns].in /\ nw.ns # ns
    BY WatchAssumption DEF Idle, NoInformer
  <1>3. Inhabited \subseteq Namespace
    BY WatchAssumption
  <1> QED BY <1>1, <1>2, <1>3 DEF RestInv, ReadRight, Started, Informed, Written

LEMMA RebootRests ==
    ASSUME Reboot PROVE RestInv'
  <1>1. /\ nsEvents' = {Known(ns) : ns \in labelled'} /\ nsQueue' = {} /\ nw' = Idle
        /\ inf' = [ns \in Namespace |-> NoInformer] /\ sent' = None
    BY DEF Reboot
  <1>2. (  nsEvents = {Known(ns) : ns \in labelled} /\ nsQueue = {} /\ nw = Idle
        /\ inf = [ns \in Namespace |-> NoInformer] /\ sent = None => RestInv)'
    BY BootRests, PTL
  <1>3. Idle' = Idle /\ NoInformer' = NoInformer
    BY DEF Idle, NoInformer
  <1> QED BY <1>1, <1>2, <1>3 DEF Known

\* What a step of the namespace worker leaves, other than taking a namespace: it is
\* done with the namespace, or goes on and reads as it did; the informers run or
\* will; a list is due unless nothing was changed.
WorkerStep(n) ==
    /\ \A ns \in Namespace \ {n} : inf'[ns] = inf[ns]
    /\ \/ nw'.ns = n /\ (nw'.pc \in {"exists", "start", "sync"} <=>
                         nw.pc \in {"exists", "start", "sync"})
       \/ nw'.ns = None /\ (inf'[n].in <=> nw.pc \in {"exists", "start", "sync"})
    /\ inf'[n].in => inf'[n].runs > 0 \/ (nw'.pc = "start" /\ nw'.ns = n)
    /\ \/ inf'[n] = inf[n] \/ inf'[n].runs = 0 \/ inf'[n].stopped
       \/ inf'[n].listed < inf'[n].runs

\* Every step of the namespace worker but the first
LEMMA WorkerSteps ==
    ASSUME IInv, Started, NsWork, ~Reboot, ~\E ns \in Namespace : NsGet(ns)
    PROVE  nw.ns \in Namespace /\ WorkerStep(nw.ns)
  <1> USE DEF IInv
  <1> DEFINE n == nw.ns
  <1>1. /\ n \in Namespace /\ inf \in [Namespace -> InformerType]
        /\ inf[n] \in InformerType /\ n # None
    BY WatchAssumption DEF NsWork, NsKeep, NsAdd, NsStart, NsSynced, NsGone, NsStop, NsRemove,
       TypeOK, WorkerOf, InformerType
  <1>2. CASE NsKeep
    BY <1>1, <1>2 DEF NsKeep, WorkerStep, Started, Idle
  <1>3. CASE NsSynced
    BY <1>1, <1>3 DEF NsSynced, WorkerStep, Started, WorkerOwns, Idle
  <1>4. CASE NsAdd
    <2>1. /\ inf'[n] = NewInformer /\ \A m \in Namespace \ {n} : inf'[m] = inf[m]
          /\ nw'.pc = "start" /\ nw'.ns = n
      BY <1>1, <1>4 DEF NsAdd, TypeOK, WorkerOf
    <2> QED BY <1>1, <1>4, <2>1 DEF NsAdd, WorkerStep, NewInformer, NoInformer
  <1>5. CASE NsStart
    <2> DEFINE v == [inf[n] EXCEPT !.runs = @ + 1]
    <2>1. v.runs > 0 /\ v.listed < v.runs
      BY <1>1, <1>5 DEF RunsCounted, InformerType
    <2>2. /\ inf'[n] = v /\ \A m \in Namespace \ {n} : inf'[m] = inf[m]
          /\ nw'.pc = "sync" /\ nw'.ns = n
      BY <1>1, <1>5 DEF NsStart, TypeOK, WorkerOf
    <2> HIDE DEF v
    <2> QED BY <1>1, <1>5, <2>1, <2>2 DEF NsStart, WorkerStep
  <1>6. CASE NsGone
    BY <1>1, <1>6 DEF NsGone, WorkerStep, Started, TypeOK, WorkerOf
  <1>7. CASE NsStop
    <2> DEFINE v == [inf[n] EXCEPT !.stopped = TRUE]
    <2>1. v.stopped /\ (v.in => v.runs > 0)
      BY <1>1, <1>7 DEF NsStop, Started, InformerType
    <2>2. /\ inf'[n] = v /\ \A m \in Namespace \ {n} : inf'[m] = inf[m]
          /\ nw'.pc = "remove" /\ nw'.ns = n
      BY <1>1, <1>7 DEF NsStop, TypeOK, WorkerOf
    <2> HIDE DEF v
    <2> QED BY <1>1, <1>7, <2>1, <2>2 DEF NsStop, WorkerStep
  <1>8. CASE NsRemove
    <2>1. /\ inf'[n] = NoInformer /\ \A m \in Namespace \ {n} : inf'[m] = inf[m]
          /\ nw'.ns = None
      BY <1>1, <1>8 DEF NsRemove, Idle
    <2> QED BY <1>1, <1>8, <2>1 DEF NsRemove, WorkerStep, NoInformer
  <1> QED
    BY <1>1, <1>2, <1>3, <1>4, <1>5, <1>6, <1>7, <1>8 DEF NsWork

\* The namespace worker, whose step is about its own namespace
LEMMA WorkerRests ==
    ASSUME IInv, RestInv, NsWork PROVE RestInv'
  <1> USE DEF IInv
  <1>1. /\ \A ns \in Namespace : ns # None
        /\ nw.pc # "get" => nw.ns \in Namespace
        /\ inf \in [Namespace -> InformerType] /\ Inhabited \subseteq Namespace
    BY WatchAssumption DEF TypeOK, WorkerOf, InformerType
  <1>2. CASE Reboot
    BY <1>2, RebootRests
  <1>3. CASE NsWork /\ ~Reboot
    <2>1. /\ UNCHANGED <<labelled, nsEvents, boot, rsrv, out>>
          /\ \A ns \in Namespace : NsGet(ns) \/ Pending(ns)' = Pending(ns)
      BY <1>3 DEF NsWork, NsGet, NsKeep, NsAdd, NsStart, NsSynced, NsGone, NsStop, NsRemove,
                  env, Pending
    <2>2. Written'
      BY <2>1 DEF RestInv, Written, rsrv, out
    <2>3. ASSUME NEW n \in Namespace, NsGet(n) PROVE ReadRight' /\ Started' /\ Informed'
      <3>1. /\ nw.pc = "get" /\ nw.ns = None /\ inf' = inf /\ nw'.ns = n
            /\ nw'.pc = IF n \in labelled THEN "exists" ELSE "gone"
            /\ \A ns \in Namespace \ {n} : Pending(ns)' = Pending(ns)
        BY <2>3 DEF NsGet, TypeOK, WorkerOf, Pending
      <3>2. ReadRight'
        BY <1>1, <2>1, <3>1 DEF RestInv, ReadRight
      <3>3. Started' /\ Informed'
        BY <1>1, <2>1, <3>1 DEF RestInv, Started, Informed, rsrv, out
      <3> QED BY <3>2, <3>3
    <2>4. ASSUME ~\E ns \in Namespace : NsGet(ns) PROVE ReadRight' /\ Started' /\ Informed'
      <3> DEFINE n == nw.ns
      <3>1. n \in Namespace /\ WorkerStep(n)
        BY <1>3, <2>4, WorkerSteps DEF RestInv
      <3>2. \A ns \in Namespace : Pending(ns)' = Pending(ns) /\ ns # None
        BY <1>1, <2>1, <2>4
      <3>3. ReadRight'
        BY <2>1, <3>1, <3>2 DEF RestInv, ReadRight, WorkerStep
      <3>4. Started'
        <4>1. ASSUME NEW ns \in Namespace \ {n}, inf'[ns].in PROVE inf'[ns].runs > 0
          BY <3>1, <4>1 DEF RestInv, Started, WorkerStep
        <4> QED BY <3>1, <4>1 DEF Started, WorkerStep
      <3>5. Informed'
        BY <1>1, <2>1, <3>1 DEF RestInv, Informed, WorkerStep, rsrv, out
      <3> QED BY <3>3, <3>4, <3>5
    <2> QED BY <2>2, <2>3, <2>4 DEF RestInv
  <1> QED BY <1>2, <1>3

\* runImpl, which has a list follow for every informer it starts
LEMMA StartRests ==
    ASSUME IInv, RestInv, StartInformers \/ InformersSynced PROVE RestInv'
  <1> USE DEF IInv
  <1>1. CASE Reboot
    BY <1>1, RebootRests
  <1>2. CASE StartInformers /\ ~Reboot
    <2> DEFINE run(ns) == [inf[ns] EXCEPT !.runs = @ + 1]
    <2>1. ASSUME NEW ns \in Namespace
          PROVE  /\ run(ns).in = inf[ns].in /\ run(ns).runs > 0
                 /\ run(ns).listed < run(ns).runs
      BY DEF TypeOK, RunsCounted
    <2>2. /\ inf' = [ns \in Namespace |-> IF inf[ns].in THEN run(ns) ELSE inf[ns]]
          /\ UNCHANGED <<labelled, nsEvents, nsQueue, nw, rsEvents, rsQueue, rw, groups>>
          /\ UNCHANGED <<updated, sent>>
      BY <1>2 DEF StartInformers, nsrv, rsrv, out
    <2> HIDE DEF run
    <2>3. \A ns \in Namespace : /\ inf'[ns].in = inf[ns].in
                                /\ inf'[ns].in => /\ inf'[ns].runs > 0
                                                  /\ inf'[ns].listed < inf'[ns].runs
      BY <2>1, <2>2
    <2>4. ReadRight'
      BY <2>2, <2>3 DEF RestInv, ReadRight, Pending
    <2>5. Started' /\ Informed'
      BY <2>3, WatchAssumption DEF Started, Informed
    <2> QED BY <2>2, <2>4, <2>5 DEF RestInv, Written
  <1>3. CASE InformersSynced
    BY <1>3 DEF InformersSynced, env, nsrv, rsrv, RestInv, ReadRight, Pending, Started,
       Informed, Written
  <1> QED BY <1>1, <1>2, <1>3

\* The handlers, and the lists of the informers
LEMMA HandlersRest ==
    ASSUME IInv, RestInv,
           \/ \E e \in nsEvents : enqueueNamespace(e)
           \/ \E ns \in Namespace : List(ns) \/ OnResource(ns) \/ Drop(ns)
    PROVE  RestInv'
  <1> USE DEF IInv
  <1>1. Inhabited \subseteq Namespace
    BY WatchAssumption
  <1>2. ASSUME NEW e \in nsEvents, enqueueNamespace(e) PROVE RestInv'
    <2>1. CASE e.known
      <3>1. \A ns \in Namespace : Pending(ns)' = Pending(ns)
        BY <1>2, <2>1 DEF enqueueNamespace, Pending
      <3>2. UNCHANGED <<labelled, nw, inf, rsEvents, rsQueue, rw, groups, updated, sent>>
        BY <1>2, <2>1 DEF enqueueNamespace, rsrv, out
      <3> QED BY <3>1, <3>2 DEF RestInv, ReadRight, Started, Informed, Written
    <2>2. CASE ~e.known
      BY <1>2, <2>2, RebootRests DEF enqueueNamespace
    <2> QED BY <2>1, <2>2
  <1>3. ASSUME NEW ns \in Namespace, List(ns) PROVE RestInv'
    <2> DEFINE v == [inf[ns] EXCEPT !.listed = @ + 1]
    <2>1. v.in = inf[ns].in /\ v.runs = inf[ns].runs
      BY DEF TypeOK
    <2>2. inf'[ns] = v /\ \A m \in Namespace \ {ns} : inf'[m] = inf[m]
      BY <1>3 DEF List, TypeOK
    <2> HIDE DEF v
    <2>3. /\ UNCHANGED <<labelled, nsEvents, nsQueue, nw, rsQueue, rw, groups, updated>>
          /\ UNCHANGED sent
          /\ rsEvents' = rsEvents \cup ({ns} \cap Inhabited)
      BY <1>3 DEF List, env, nsrv, out
    <2>4. \A m \in Namespace : inf'[m].in = inf[m].in /\ inf'[m].runs = inf[m].runs
      BY <2>1, <2>2
    <2>5. ReadRight' /\ Started'
      BY <2>3, <2>4 DEF RestInv, ReadRight, Pending, Started
    <2>6. Informed'
      BY <1>1, <2>2, <2>3, <2>4 DEF RestInv, Informed
    <2> QED BY <2>3, <2>5, <2>6 DEF RestInv, Written
  <1>4. ASSUME NEW ns \in Namespace, OnResource(ns) \/ Drop(ns) PROVE RestInv'
    <2>1. /\ UNCHANGED <<labelled, nsEvents, nsQueue, nw, inf, rw, groups, updated, sent>>
          /\ rsEvents' = rsEvents \ {ns}
          /\ \/ rsQueue' = rsQueue \cup (IF inf[ns].in THEN {ns} ELSE {})
             \/ rsQueue' = rsQueue /\ (inf[ns].stopped \/ ~inf[ns].in)
      BY <1>4 DEF OnResource, Drop, env, nsrv, out
    <2>2. Informed'
      BY <2>1 DEF RestInv, Informed
    <2> QED BY <2>1, <2>2 DEF RestInv, ReadRight, Pending, Started, Written
  <1> QED BY <1>2, <1>3, <1>4

\* The resource worker, which sends what it puts into the groups
LEMMA ResourcesRest ==
    ASSUME IInv, RestInv, RsWork \/ Wake PROVE RestInv'
  <1> USE DEF IInv
  <1>1. Inhabited \subseteq Namespace
    BY WatchAssumption
  <1>2. CASE Reboot
    BY <1>2, RebootRests
  <1>3. ASSUME UNCHANGED <<labelled, nsEvents, nsQueue, nw, inf>>
        PROVE  ReadRight' /\ Started'
    BY <1>3 DEF RestInv, ReadRight, Pending, Started
  <1>4. ASSUME NEW ns \in Namespace, RsGet(ns) PROVE RestInv'
    <2>1. /\ UNCHANGED <<labelled, nsEvents, nsQueue, nw, inf, rsEvents, groups, updated>>
          /\ UNCHANGED sent
          /\ rw.pc = "get" /\ rw'.pc = "find" /\ rw'.ns = ns /\ rsQueue' = rsQueue \ {ns}
      BY <1>4 DEF RsGet, env, nsrv, out
    <2>2. Informed' /\ Written'
      BY <2>1 DEF RestInv, Informed, Written
    <2> QED BY <1>3, <2>1, <2>2 DEF RestInv
  <1>5. CASE RsSync /\ ~Reboot
    <2> DEFINE n == rw.ns
    <2>1. /\ UNCHANGED <<labelled, nsEvents, nsQueue, nw, inf, rsEvents, rsQueue, sent>>
          /\ groups' = groups \cup {ns \in {n} : inf[ns].listed > 0}
          /\ updated' = (updated \/ groups' # groups)
          /\ rw.pc = "find" /\ rw'.pc = "write"
      BY <1>5 DEF RsSync, nsrv, TypeOK, WorkerOf
    <2>2. \A ns \in Inhabited :
             /\ inf[ns].listed \in Nat /\ inf[ns].runs \in Nat /\ inf[ns].listed <= inf[ns].runs
      BY <1>1 DEF TypeOK, RunsCounted
    <2>3. Informed'
      <3> SUFFICES ASSUME NEW ns \in Inhabited, inf[ns].in, ~inf[ns].stopped,
                          inf[ns].runs # 0, ~(inf[ns].listed < inf[ns].runs),
                          ns \notin groups' \cup rsEvents \cup rsQueue
                   PROVE  FALSE
        BY <2>1 DEF Informed
      <3>1. inf[ns].listed > 0
        BY <2>2
      <3>2. ns # n
        BY <2>1, <3>1
      <3> QED BY <2>1, <3>2 DEF RestInv, Informed
    <2>4. Written'
      <3>1. CASE groups' = groups
        BY <2>1, <3>1 DEF RestInv, Written
      <3>2. CASE groups' # groups
        BY <2>1, <3>2 DEF Written
      <3> QED BY <3>1, <3>2
    <2> QED BY <1>3, <2>1, <2>3, <2>4 DEF RestInv
  <1>6. CASE RsWrite
    <2>1. /\ UNCHANGED <<labelled, nsEvents, nsQueue, nw, inf, rsEvents, rsQueue, groups>>
          /\ rw.pc = "write" /\ rw'.pc = "get"
          /\ IF updated THEN writeIPGroups ELSE UNCHANGED <<sent, updated>>
      BY <1>6 DEF RsWrite, Idle, env, nsrv
    <2>2. Informed'
      BY <2>1 DEF RestInv, Informed
    <2>3. Written'
      BY <2>1 DEF RestInv, Written, writeIPGroups, MaySend
    <2> QED BY <1>3, <2>1, <2>2, <2>3 DEF RestInv
  <1>7. CASE Wake
    <2>1. /\ UNCHANGED <<labelled, nsEvents, nsQueue, nw, inf, rsEvents, rsQueue, rw, groups>>
          /\ (sent' = groups) \/ UNCHANGED <<sent, updated>>
      BY <1>7 DEF Wake, writeIPGroups, env, nsrv, rsrv
    <2>2. Informed' /\ Written'
      BY <2>1 DEF RestInv, Informed, Written
    <2> QED BY <1>3, <2>1, <2>2 DEF RestInv
  <1> QED BY <1>2, <1>4, <1>5, <1>6, <1>7 DEF RsWork

\* A namespace whose label changes is pending.
LEMMA EnvironmentRests ==
    ASSUME IInv, RestInv,
           \/ \E ns \in Namespace, known \in BOOLEAN : Relabel(ns, known)
           \/ \E ns \in Namespace : Resync(ns)
           \/ Crash
    PROVE  RestInv'
  <1>1. ASSUME UNCHANGED <<nw, inf, rsEvents, rsQueue, rw, groups, updated, sent>>
        PROVE  Started' /\ Informed' /\ Written'
    BY <1>1 DEF RestInv, Started, Informed, Written
  <1>2. ASSUME NEW ns \in Namespace, NEW known \in BOOLEAN, Relabel(ns, known)
        PROVE  RestInv'
    <2>1. /\ UNCHANGED <<nsQueue, nw, inf, rsEvents, rsQueue, rw, groups, updated, sent>>
          /\ nsEvents' = nsEvents \cup {[ns |-> ns, known |-> known]}
          /\ labelled' = IF ns \in labelled THEN labelled \ {ns} ELSE labelled \cup {ns}
      BY <1>2 DEF Relabel, rsrv, out
    <2>2. Pending(ns)'
      <3>1. [ns |-> ns, known |-> known] \in nsEvents' /\ [ns |-> ns, known |-> known].ns = ns
        BY <2>1
      <3> QED BY <3>1 DEF Pending
    <2>3. \A m \in Namespace : Pending(m) => Pending(m)'
      BY <2>1 DEF Pending
    <2>4. ReadRight'
      BY <2>1, <2>2, <2>3 DEF RestInv, ReadRight
    <2> QED BY <1>1, <2>1, <2>4 DEF RestInv
  <1>3. ASSUME NEW ns \in Namespace, Resync(ns) PROVE RestInv'
    <2>1. /\ UNCHANGED <<nsQueue, nw, inf, rsEvents, rsQueue, rw, groups, updated, sent>>
          /\ labelled' = labelled /\ nsEvents = {}
      BY <1>3 DEF Resync, env, rsrv, out
    <2>2. \A m \in Namespace : Pending(m) => Pending(m)'
      BY <2>1 DEF Pending
    <2>3. ReadRight'
      BY <2>1, <2>2 DEF RestInv, ReadRight
    <2> QED BY <1>1, <2>1, <2>3 DEF RestInv
  <1>4. CASE Crash
    BY <1>4, RebootRests DEF Crash
  <1> QED BY <1>2, <1>3, <1>4

LEMMA StutterRests == ASSUME RestInv, UNCHANGED vars PROVE RestInv'
  BY DEF vars, env, nsrv, rsrv, out, RestInv, ReadRight, Pending, Started, Informed, Written

LEMMA InductiveAtRest == Spec => [](IInv /\ RestInv)
  <1>1. Init => RestInv
    BY BootRests DEF Init, Boot
  <1>2. IInv /\ RestInv /\ [Next]_vars => RestInv'
    BY WorkerRests, StartRests, HandlersRest, ResourcesRest, EnvironmentRests, StutterRests
       DEF Next
  <1> QED BY <1>1, <1>2, Inductive, PTL DEF Spec

\* When the namespace worker has nothing left to do there are running informers for
\* the namespaces with the label and for no others, whatever it had read of them
\* before a change, and whether runImpl or it started them.  (syncNamespace,
\* enqueueNamespace, startResourceInformers)
THEOREM FollowedAtRest == Spec => []FollowingAtRest
  <1>1. IInv /\ RestInv => FollowingAtRest
    <2> SUFFICES ASSUME IInv, RestInv, NamespacesQuiet, NEW ns \in Namespace
                 PROVE  /\ ns \in labelled <=> inf[ns].in
                        /\ inf[ns].in => inf[ns].runs > 0 /\ ~inf[ns].stopped
      BY DEF FollowingAtRest, Following
    <2>1. ~Pending(ns) /\ nw.pc = "get" /\ nw.ns # ns
      BY WatchAssumption DEF NamespacesQuiet, Pending, IInv, TypeOK, WorkerOf
    <2> QED BY <2>1 DEF RestInv, ReadRight, Started, IInv, WorkerOwns
  <1> QED BY <1>1, InductiveAtRest, PTL

\* When the resource worker has nothing left to do either, the groups have the
\* resources of the labelled namespaces, and so has the controller if it was sent
\* any groups.  (checkValidConfigMap, syncResource, writeIPGroups)
THEOREM GatheredWhenAtRest == Spec => []GatheredAtRest
  <1>1. IInv /\ RestInv /\ FollowingAtRest => GatheredAtRest
    <2> SUFFICES ASSUME IInv, RestInv, Following, ResourcesQuiet PROVE Gathered
      BY DEF FollowingAtRest, GatheredAtRest, ResourcesQuiet
    <2>1. labelled \cap Inhabited \subseteq groups
      <3> SUFFICES ASSUME NEW ns \in labelled \cap Inhabited PROVE ns \in groups
        OBVIOUS
      <3>1. ns \in Namespace /\ inf[ns] \in InformerType
        BY WatchAssumption DEF IInv, TypeOK, InformerType
      <3>2. inf[ns].in /\ inf[ns].runs > 0 /\ ~inf[ns].stopped
            /\ inf[ns].listed = inf[ns].runs
        BY <3>1 DEF Following, ResourcesQuiet
      <3>3. inf[ns].runs # 0 /\ ~(inf[ns].listed < inf[ns].runs)
        BY <3>1, <3>2 DEF InformerType
      <3> QED BY <3>2, <3>3 DEF RestInv, Informed, ResourcesQuiet
    <2>2. sent # None => groups \subseteq sent
      BY DEF RestInv, Written, ResourcesQuiet
    <2> QED BY <2>1, <2>2 DEF Gathered
  <1> QED BY <1>1, FollowedAtRest, InductiveAtRest, PTL
=============================================================================
