--------------------------- MODULE K8sClientProofs ---------------------------
(***************************************************************************)
(* The orchestration client, for any resources and any number of changes   *)
(* and crashes: the types, and that the groups have no spec and no host    *)
(* twice although handlers and worker change the same arrays.              *)
(***************************************************************************)
EXTENDS K8sClientProperties, IPGroupsProofs, FiniteSetTheorems

\* The notifications of a kind are of its resources.
Addressed == \A K \in Kinds : \A i \in DOMAIN notif[K] : notif[K][i].rs \in Of(K)

\* The cells that a handler with locals x reads, in groups g.
CellsOf(x, g) == IF x.alias THEN SpecAt(g, x.key, x.rs).arr ELSE x.own

\* The handler of kind K works on resources of its kind.  The spec it loops over is
\* still in the group, and the loop is inside of the array that it reads.
Looping(K, x, g) ==
    /\ x.pc \in {"hosts", "enqueue", "remove"} => x.rs \in Of(K)
    /\ x.pc = "hosts" =>
          /\ x.key \in GroupKey /\ SpecIndex(g, x.key, x.rs) # 0
          /\ x.end <= Len(CellsOf(x, g))

\* The worker adds what it read of a resource.
Adding == w.pc = "add" => w.rs \in Resource /\ w.c \in Contents[w.rs] \cup {Absent}

\* Who holds GroupMutex in writeIPGroups is there.
Sending ==
    /\ sender # None => Writing(sender)
    /\ starters.sleep + starters.wait <= MaxStarters

IInv == /\ TypeOK /\ Distinct(groups, NamedOnce)
        /\ Addressed /\ Adding /\ Sending
        /\ \A K \in Kinds : Looping(K, h[K], groups)

LEMMA ContentTypes ==
    /\ \A r \in Resource : Contents[r] \subseteq AnyContent
    /\ AnyContent \subseteq ContentType
  BY ClientAssumption DEF AnyContent, Range

LEMMA NamedOnceIs ==
    ASSUME NEW r \in Resource, NEW c \in Contents[r]
    PROVE  EachOnce(c.hosts, NamedOnce[r])
  BY DEF NamedOnce, EachOnce

LEMMA SetToSeqIs ==
    ASSUME NEW S, IsFiniteSet(S)
    PROVE  /\ SetToSeq(S) \in Seq(S)
           /\ \A i \in DOMAIN SetToSeq(S) : SetToSeq(S)[i] \in S
  <1>1. Cardinality(S) \in Nat /\ Bijection(1..Cardinality(S), S) # {}
    BY FS_CardinalityType DEF ExistsBijection
  <1>2. \E f \in [1..Cardinality(S) -> S] : IsInjective(f)
    BY <1>1 DEF Bijection, Injection
  <1>3. SetToSeq(S) \in [1..Cardinality(S) -> S]
    BY <1>2 DEF SetToSeq
  <1> QED BY <1>1, <1>3

\* The informers notify of some resources of a kind, of each with the event f[r].
LEMMA NotifiedTypes ==
    ASSUME NEW K \in Kinds, NEW S \in SUBSET Of(K), NEW f,
           \A r \in S : f[r] \in EventType /\ f[r].rs \in Of(K)
    PROVE  LET s == SetToSeq({f[r] : r \in S})
           IN  s \in Seq(EventType) /\ \A i \in DOMAIN s : s[i].rs \in Of(K)
  <1> DEFINE E == {f[r] : r \in S}
             e == [r \in S |-> f[r]]
  <1>1. e \in Surjection(S, E)
    BY DEF Surjection
  <1>2. IsFiniteSet(S)
    <2>1. S \in SUBSET Resource
      BY DEF Of
    <2> QED BY <2>1, ClientAssumption, FS_Subset
  <1>3. IsFiniteSet(E)
    BY <1>1, <1>2, FS_Surjection
  <1>4. E \subseteq EventType /\ \A x \in E : x.rs \in Of(K)
    OBVIOUS
  <1> HIDE DEF E, e
  <1>5. SetToSeq(E) \in Seq(E) /\ \A i \in DOMAIN SetToSeq(E) : SetToSeq(E)[i] \in E
    BY <1>3, SetToSeqIs
  <1>6. SetToSeq(E) \in Seq(EventType)
    BY <1>4, <1>5, SeqMonotonic
  <1> QED BY <1>4, <1>5, <1>6 DEF E

LEMMA IdleTypes == Idle \in HandlerType /\ Resting \in WorkerType
  <1>1. <<>> \in Seq(Host) /\ NoKey \in GroupKey \cup {NoKey} /\ Absent \in AnyContent \cup {Absent}
    OBVIOUS
  <1>2. Idle \in HandlerType
    BY <1>1 DEF Idle, HandlerType
  <1>3. Resting \in WorkerType
    BY <1>1 DEF Resting, WorkerType
  <1> QED BY <1>2, <1>3

LEMMA SpecTypes ==
    ASSUME NEW g \in GroupsType, NEW k \in GroupKey, NEW rs, SpecIndex(g, k, rs) # 0
    PROVE  /\ SpecAt(g, k, rs) \in SpecType /\ SpecAt(g, k, rs).arr \in Seq(Host)
           /\ Len(SpecAt(g, k, rs).arr) \in Nat
  BY SpecIndexIs, HostsAre DEF SpecAt

\* A handler can go on in groups that keep the specs of its resources.
LEMMA LoopStays ==
    ASSUME NEW K \in Kinds, NEW x \in HandlerType, NEW g \in GroupsType, NEW g2 \in GroupsType,
           Looping(K, x, g), \A k \in GroupKey, rs \in Of(K) : Keeps(g, g2, k, rs)
    PROVE  Looping(K, x, g2)
  <1> SUFFICES ASSUME x.pc = "hosts"
               PROVE  SpecIndex(g2, x.key, x.rs) # 0 /\ x.end <= Len(CellsOf(x, g2))
    BY DEF Looping
  <1>1. /\ x.rs \in Of(K) /\ x.key \in GroupKey
        /\ SpecIndex(g, x.key, x.rs) # 0 /\ x.end <= Len(CellsOf(x, g))
    BY DEF Looping
  <1>2. /\ SpecIndex(g2, x.key, x.rs) # 0
        /\ Len(SpecAt(g2, x.key, x.rs).arr) >= Len(SpecAt(g, x.key, x.rs).arr)
    BY <1>1 DEF Keeps
  <1>3. x.end \in Nat /\ x.own \in Seq(Host)
    BY DEF HandlerType
  <1>4. CASE x.alias
    <2>1. /\ Len(SpecAt(g, x.key, x.rs).arr) \in Nat
          /\ Len(SpecAt(g2, x.key, x.rs).arr) \in Nat
      BY <1>1, <1>2, SpecTypes
    <2>2. /\ CellsOf(x, g) = SpecAt(g, x.key, x.rs).arr
          /\ CellsOf(x, g2) = SpecAt(g2, x.key, x.rs).arr
      BY <1>4 DEF CellsOf
    <2> QED BY <1>1, <1>2, <1>3, <2>1, <2>2
  <1>5. CASE ~x.alias
    BY <1>1, <1>2, <1>5 DEF CellsOf
  <1> QED BY <1>4, <1>5

LEMMA WritingIs ==
    /\ \A K \in Kinds : Writing(K) <=> h[K].pc = "write"
    /\ Writing("worker") <=> w.pc = "write"
    /\ Writing("starter") <=> starters.wait > 0
  BY DEF Writing, Kinds

\* Who waits in writeIPGroups is still there.
LEMMA SendingStays ==
    ASSUME TypeOK, Sending, sender' = sender,
           \A K \in Kinds : h[K].pc = "write" => h'[K].pc = "write",
           w.pc = "write" => w'.pc = "write",
           starters.wait > 0 => starters'.wait > 0,
           starters'.sleep + starters'.wait <= MaxStarters
    PROVE  Sending'
  <1> SUFFICES ASSUME sender # None PROVE Writing(sender)'
    BY DEF Sending
  <1>1. Writing(sender) /\ sender \in Kinds \cup {"worker", "starter"}
    BY DEF Sending, TypeOK, Senders
  <1>2. /\ \A K \in Kinds : Writing(K)' <=> h'[K].pc = "write"
        /\ Writing("worker")' <=> w'.pc = "write"
        /\ Writing("starter")' <=> starters'.wait > 0
    BY DEF Writing, Kinds
  <1>3. CASE sender \in Kinds
    BY <1>1, <1>2, <1>3, WritingIs
  <1>4. CASE sender = "worker"
    BY <1>1, <1>2, <1>4, WritingIs
  <1>5. CASE sender = "starter"
    BY <1>1, <1>2, <1>5, WritingIs
  <1> QED BY <1>1, <1>3, <1>4, <1>5

\* A step of at most one handler, to locals x that suit the groups.
LEMMA HandlerKeeps ==
    ASSUME TypeOK, NEW K \in Kinds, NEW g, \A J \in Kinds : Looping(J, h[J], g),
           h' = h \/ \E x \in HandlerType : h' = [h EXCEPT ![K] = x] /\ Looping(K, x, g)
    PROVE  /\ h' \in [Kinds -> HandlerType] /\ \A J \in Kinds : Looping(J, h'[J], g)
           /\ \A J \in Kinds \ {K} : h'[J] = h[J]
  BY DEF TypeOK

LEMMA EventTypes ==
    ASSUME IInv, NEW K \in Kinds, notif[K] # <<>>
    PROVE  /\ Event(K) \in EventType /\ Event(K).rs \in Of(K) /\ Event(K).rs \in Resource
           /\ Event(K).cur # Unknown => Event(K).cur \in AnyContent \cup {Absent}
           /\ Handled(K) => notif' \in [Kinds -> Seq(EventType)] /\ Addressed'
  <1> USE DEF IInv
  <1>1. notif[K] \in Seq(EventType) /\ notif[K][1] = Event(K) /\ 1 \in DOMAIN notif[K]
    BY DEF TypeOK, Event
  <1>2. Event(K) \in EventType /\ Event(K).rs \in Of(K)
    BY <1>1 DEF Addressed
  <1>3. Event(K).cur # Unknown => Event(K).cur \in AnyContent \cup {Absent}
    BY <1>2 DEF EventType
  <1>4. ASSUME Handled(K) PROVE notif' \in [Kinds -> Seq(EventType)] /\ Addressed'
    <2>1. /\ notif' = [notif EXCEPT ![K] = Tail(@)] /\ notif \in [Kinds -> Seq(EventType)]
          /\ Tail(notif[K]) \in Seq(EventType) /\ Len(Tail(notif[K])) = Len(notif[K]) - 1
          /\ \A i \in 1..Len(Tail(notif[K])) : Tail(notif[K])[i] = notif[K][i + 1]
      BY <1>1, <1>4 DEF Handled, TypeOK
    <2>2. \A i \in DOMAIN Tail(notif[K]) : Tail(notif[K])[i].rs \in Of(K)
      BY <1>1, <2>1 DEF Addressed
    <2> QED BY <2>1, <2>2 DEF Addressed, Of
  <1> QED BY <1>2, <1>3, <1>4 DEF Of

\* addConfigMap, deleteConfigMap, updateConfigMap and those of the Ingress
LEMMA EventsKeep ==
    ASSUME IInv, NEW K \in Kinds, OnAdd(K) \/ OnLeave(K) \/ OnUpdate(K) \/ OnOther(K)
    PROVE  IInv'
  <1> USE DEF IInv
  <1>1. /\ h[K].pc = "idle" /\ notif[K] # <<>> /\ Event(K).cur # Unknown /\ Handled(K)
        /\ UNCHANGED <<env, w, starters, groups, updated, chan>>
    BY DEF OnAdd, OnLeave, OnUpdate, OnOther, NextEvent
  <1> DEFINE e == Event(K)
  <1>2. /\ notif' \in [Kinds -> Seq(EventType)] /\ Addressed'
        /\ e.rs \in Of(K) /\ e.rs \in Resource /\ e.cur \in AnyContent \cup {Absent}
    BY <1>1, EventTypes
  <1>3. dirty' \subseteq Resource
    BY <1>1, <1>2 DEF OnAdd, OnLeave, OnUpdate, OnOther, TypeOK
  <1>4. h' = h \/ \E x \in HandlerType : h' = [h EXCEPT ![K] = x] /\ Looping(K, x, groups)
    <2> HIDE DEF e
    <2>1. CASE OnAdd(K) \/ OnOther(K)
      BY <2>1 DEF OnAdd, OnOther
    <2>2. CASE OnLeave(K)
      <3> DEFINE x == [Idle EXCEPT !.pc = "remove", !.rs = e.rs]
      <3>1. x \in HandlerType /\ Looping(K, x, groups)
        BY <1>2, IdleTypes DEF HandlerType, Looping
      <3>2. h' = h \/ h' = [h EXCEPT ![K] = x]
        BY <2>2 DEF OnLeave, e
      <3> QED BY <3>1, <3>2
    <2>3. CASE OnUpdate(K)
      <3>1. h' = h \/ \E k \in getSpec(groups, e.rs) :
               h' = [h EXCEPT ![K] = [Idle EXCEPT !.pc = "hosts", !.rs = e.rs,
                              !.cur = e.cur, !.key = k, !.turn = 1,
                              !.end = SpecAt(groups, k, e.rs).len]]
        BY <2>3 DEF OnUpdate, e
      <3>2. ASSUME NEW k \in getSpec(groups, e.rs)
            PROVE  LET x == [Idle EXCEPT !.pc = "hosts", !.rs = e.rs,
                              !.cur = e.cur, !.key = k, !.turn = 1,
                              !.end = SpecAt(groups, k, e.rs).len]
                   IN  x \in HandlerType /\ Looping(K, x, groups)
        <4> DEFINE s == SpecAt(groups, k, e.rs)
                   x == [Idle EXCEPT !.pc = "hosts", !.rs = e.rs,
                              !.cur = e.cur, !.key = k, !.turn = 1, !.end = s.len]
        <4>1. k \in GroupKey /\ SpecIndex(groups, k, e.rs) # 0
          BY DEF getSpec, KeysOf
        <4>2. s.len \in Nat /\ s.len <= Len(s.arr)
          BY <4>1, SpecTypes, HostsAre DEF TypeOK
        <4> HIDE DEF s
        <4>3. x \in HandlerType /\ x.rs = e.rs /\ x.key = k /\ x.alias /\ x.end = s.len
          BY <1>2, <4>1, <4>2, IdleTypes DEF HandlerType, Idle
        <4> QED BY <1>2, <4>1, <4>2, <4>3 DEF s, Looping, CellsOf
      <3> QED BY <3>1, <3>2
    <2> QED BY <2>1, <2>2, <2>3
  <1> HIDE DEF e
  <1>5. h' \in [Kinds -> HandlerType] /\ \A J \in Kinds : Looping(J, h'[J], groups)
    BY <1>4, HandlerKeeps
  <1>6. TypeOK'
    BY <1>1, <1>2, <1>3, <1>5 DEF TypeOK, env, chan
  <1>7. Sending'
    <2>1. \A J \in Kinds : h[J].pc = "write" => h'[J].pc = "write"
      BY <1>1, <1>4 DEF TypeOK
    <2> QED BY <1>1, <2>1, SendingStays DEF chan, Sending
  <1> QED BY <1>1, <1>2, <1>5, <1>6, <1>7 DEF Adding

\* The loop over the hosts, what follows it, and removeFromIPGroup.
LEMMA LoopKeeps ==
    ASSUME IInv, NEW K \in Kinds, HostTurn(K) \/ Regroup(K) \/ Enqueue(K) \/ RemoveSpec(K)
    PROVE  IInv'
  <1> USE DEF IInv
  <1>1. /\ h[K] \in HandlerType /\ h[K].pc \in {"hosts", "enqueue", "remove"}
        /\ h[K].rs \in Of(K) /\ h[K].rs \in Resource /\ h[K].turn \in Nat
        /\ UNCHANGED <<env, notif, w, starters, chan>>
    BY DEF HostTurn, Regroup, Enqueue, RemoveSpec, TypeOK, Looping, Of, HandlerType
  <1>2. dirty' \subseteq Resource /\ updated' \in BOOLEAN
    BY <1>1 DEF HostTurn, Regroup, Enqueue, RemoveSpec, TypeOK
  <1>3. \E x \in HandlerType :
           /\ h' = [h EXCEPT ![K] = x]
           /\ \/ Looping(K, x, groups) /\ \A j \in GroupKey, r \in Resource : Keeps(groups, groups', j, r)
              \/ /\ Looping(K, x, groups')
                 /\ \A j \in GroupKey, r \in Resource \ {h[K].rs} : Keeps(groups, groups', j, r)
           /\ groups' \in GroupsType /\ Distinct(groups', NamedOnce)
    <2>1. CASE HostTurn(K)
      <3> DEFINE x == [h[K] EXCEPT !.turn = @ + 1]
      <3>1. h' = [h EXCEPT ![K] = x] /\ x \in HandlerType /\ Looping(K, x, groups)
        <4>1. h' = [h EXCEPT ![K] = x] /\ h[K].pc = "hosts"
          BY <2>1 DEF HostTurn, TypeOK
        <4>2. x \in HandlerType
          BY <1>1 DEF HandlerType
        <4>3. /\ x.pc = h[K].pc /\ x.rs = h[K].rs /\ x.key = h[K].key /\ x.end = h[K].end
              /\ x.alias = h[K].alias /\ x.own = h[K].own
          BY <1>1 DEF HandlerType
        <4>4. CellsOf(x, groups) = CellsOf(h[K], groups)
          BY <4>3 DEF CellsOf
        <4> HIDE DEF x
        <4>5. Looping(K, x, groups)
          BY <4>3, <4>4 DEF Looping
        <4> QED BY <4>1, <4>2, <4>5
      <3>2. /\ groups' \in GroupsType /\ Distinct(groups', NamedOnce)
            /\ \A j \in GroupKey, r \in Resource : Keeps(groups, groups', j, r)
        <4>1. groups' = groups \/ \E host : groups' \in removeHost(groups, h[K].rs, host)
          BY <2>1 DEF HostTurn
        <4>2. \A j \in GroupKey, r \in Resource : Keeps(groups, groups, j, r)
          BY SpecTypes DEF Keeps, TypeOK
        <4> QED BY <1>1, <4>1, <4>2, RemoveHostKeeps DEF TypeOK
      <3> QED BY <3>1, <3>2
    <2>2. CASE Regroup(K) \/ RemoveSpec(K)
      <3>1. groups' \in removeFromIPGroup(groups, h[K].rs)
        BY <2>2 DEF Regroup, RemoveSpec
      <3>2. /\ groups' \in GroupsType /\ Distinct(groups', NamedOnce)
            /\ \A j \in GroupKey, r \in Resource \ {h[K].rs} : Keeps(groups, groups', j, r)
        BY <1>1, <3>1, RemoveSpecKeeps DEF TypeOK
      <3>3. \E x \in HandlerType :
               /\ h' = [h EXCEPT ![K] = x] /\ Looping(K, x, groups')
        <4>1. CASE Regroup(K)
          <5> DEFINE x == [Idle EXCEPT !.pc = "enqueue", !.rs = h[K].rs]
          <5>1. x \in HandlerType /\ x.pc = "enqueue" /\ x.rs = h[K].rs
            BY <1>1, IdleTypes DEF HandlerType
          <5>2. h' = [h EXCEPT ![K] = x]
            BY <4>1 DEF Regroup
          <5> HIDE DEF x
          <5> QED BY <1>1, <5>1, <5>2 DEF Looping
        <4>2. CASE RemoveSpec(K)
          <5> DEFINE x == [Idle EXCEPT !.pc = "write"]
          <5>1. x \in HandlerType /\ x.pc = "write"
            BY IdleTypes DEF HandlerType
          <5>2. h' = [h EXCEPT ![K] = x]
            BY <4>2 DEF RemoveSpec
          <5> HIDE DEF x
          <5> QED BY <5>1, <5>2 DEF Looping
        <4> QED BY <2>2, <4>1, <4>2
      <3> QED BY <3>2, <3>3
    <2>3. CASE Enqueue(K)
      <3>1. h' = [h EXCEPT ![K] = Idle] /\ groups' = groups
        BY <2>3 DEF Enqueue
      <3>2. \A j \in GroupKey, r \in Resource : Keeps(groups, groups, j, r)
        BY SpecTypes DEF Keeps, TypeOK
      <3>3. Idle \in HandlerType /\ Looping(K, Idle, groups)
        BY IdleTypes DEF Looping, Idle
      <3> QED BY <3>1, <3>2, <3>3 DEF TypeOK
    <2> QED BY <2>1, <2>2, <2>3
  <1>4. PICK x \in HandlerType :
           /\ h' = [h EXCEPT ![K] = x]
           /\ \/ Looping(K, x, groups) /\ \A j \in GroupKey, r \in Resource : Keeps(groups, groups', j, r)
              \/ /\ Looping(K, x, groups')
                 /\ \A j \in GroupKey, r \in Resource \ {h[K].rs} : Keeps(groups, groups', j, r)
           /\ groups' \in GroupsType /\ Distinct(groups', NamedOnce)
    BY <1>3
  <1>5. /\ h' \in [Kinds -> HandlerType] /\ h'[K] = x
        /\ \A J \in Kinds \ {K} : h'[J] = h[J]
    BY <1>4 DEF TypeOK
  <1>6. \A J \in Kinds : Looping(J, h'[J], groups')
    <2>1. ASSUME NEW J \in Kinds, J # K PROVE Looping(J, h'[J], groups')
      <3>1. \A j \in GroupKey, r \in Of(J) : Keeps(groups, groups', j, r)
        BY <1>1, <1>4, <2>1 DEF Of
      <3>2. h[J] \in HandlerType /\ groups \in GroupsType /\ Looping(J, h[J], groups)
        BY DEF TypeOK
      <3>3. Looping(J, h[J], groups')
        BY <1>4, <3>1, <3>2, LoopStays
      <3> QED BY <1>5, <2>1, <3>3
    <2>2. Looping(K, x, groups')
      <3>1. CASE Looping(K, x, groups) /\ \A j \in GroupKey, r \in Resource : Keeps(groups, groups', j, r)
        <4>1. Of(K) \subseteq Resource /\ groups \in GroupsType
          BY DEF Of, TypeOK
        <4> QED BY <1>4, <3>1, <4>1, LoopStays
      <3> QED BY <1>4, <3>1
    <2> QED BY <1>5, <2>1, <2>2
  <1>7. TypeOK'
    BY <1>1, <1>2, <1>4, <1>5 DEF TypeOK, env, chan
  <1>8. Sending'
    <2>1. \A J \in Kinds : h[J].pc = "write" => h'[J].pc = "write"
      BY <1>1, <1>5
    <2> QED BY <1>1, <2>1, SendingStays DEF chan, Sending
  <1> QED BY <1>1, <1>4, <1>6, <1>7, <1>8 DEF Adding, Addressed

LEMMA EmptyGroups == NoGroups \in GroupsType /\ Distinct(NoGroups, NamedOnce)
  BY DEF NoGroups, GroupsType, Distinct, OneEach

LEMMA ListedTypes ==
    ASSUME \A r \in Resource : cache[r] \in AnyContent \cup {Absent}
    PROVE  /\ Listed \in [Kinds -> Seq(EventType)]
           /\ \A K \in Kinds : \A i \in DOMAIN Listed[K] : Listed[K][i].rs \in Of(K)
  <1> SUFFICES ASSUME NEW K \in Kinds
               PROVE  /\ Listed[K] \in Seq(EventType)
                      /\ \A i \in DOMAIN Listed[K] : Listed[K][i].rs \in Of(K)
    BY DEF Listed
  <1> DEFINE S == {s \in Of(K) : cache[s] # Absent}
             f == [r \in S |-> [rs |-> r, old |-> Absent, cur |-> cache[r]]]
  <1>1. S \in SUBSET Of(K) /\ \A r \in S : f[r] \in EventType /\ f[r].rs \in Of(K)
    BY DEF EventType, Of
  <1>2. Listed[K] = SetToSeq({f[r] : r \in S})
    <2>1. {f[r] : r \in S} = {[rs |-> r, old |-> Absent, cur |-> cache[r]] : r \in S}
      OBVIOUS
    <2> QED BY <2>1 DEF Listed
  <1> HIDE DEF S, f
  <1> QED BY <1>1, <1>2, NotifiedTypes

\* The end of the process leaves a state as after its start.
LEMMA RebootKeeps ==
    ASSUME IInv, Reboot, events' \in 0..MaxEvents
    PROVE  IInv'
  <1> USE DEF IInv
  <1>1. cache' = cache /\ cache \in [Resource -> AnyContent \cup {Absent}]
    BY DEF Reboot, TypeOK
  <1>2. notif' \in [Kinds -> Seq(EventType)] /\ Addressed'
    BY <1>1, ListedTypes DEF Reboot, Addressed
  <1>3. h' = [K \in Kinds |-> Idle] /\ w' = Resting /\ groups' = NoGroups
    BY DEF Reboot
  <1>4. starters' = [sleep |-> 1, wait |-> 0] /\ MaxStarters \in Nat \ {0}
    BY ClientAssumption DEF Reboot, OneStarter
  <1>5. starters' \in [sleep : 0..MaxStarters, wait : 0..MaxStarters]
    BY <1>4
  <1>6. TypeOK'
    BY <1>1, <1>2, <1>3, <1>5, IdleTypes, EmptyGroups DEF TypeOK, Reboot
  <1>7. \A K \in Kinds : Looping(K, h'[K], groups')
    BY <1>3 DEF Looping, Idle
  <1>8. Sending' /\ Adding'
    BY <1>3, <1>4 DEF Reboot, Sending, Adding, Resting
  <1> QED BY <1>2, <1>3, <1>6, <1>7, <1>8, EmptyGroups

LEMMA InitKeeps == Init => IInv
  <1> SUFFICES ASSUME Init PROVE IInv
    OBVIOUS
  <1>1. cache \in [Resource -> AnyContent \cup {Absent}]
    BY DEF Init
  <1>2. notif \in [Kinds -> Seq(EventType)] /\ Addressed
    BY <1>1, ListedTypes DEF Init, Boot, Addressed
  <1>3. h = [K \in Kinds |-> Idle] /\ w = Resting /\ groups = NoGroups
    BY DEF Init, Boot
  <1>4. starters = [sleep |-> 1, wait |-> 0] /\ MaxStarters \in Nat \ {0} /\ MaxEvents \in Nat
    BY ClientAssumption DEF Init, Boot, OneStarter
  <1>5. starters \in [sleep : 0..MaxStarters, wait : 0..MaxStarters]
    BY <1>4
  <1>6. TypeOK
    <2>1. events \in 0..MaxEvents
      BY <1>4 DEF Init
    <2>2. /\ \A r \in Resource : cache[r] \in Contents[r] \cup {Absent}
          /\ dirty \subseteq Resource /\ sender = None /\ updated \in BOOLEAN
          /\ initialState \in BOOLEAN /\ ctl = "select" /\ received = None
      BY DEF Init, Boot
    <2>3. h \in [Kinds -> HandlerType] /\ w \in WorkerType /\ groups \in GroupsType
      BY <1>3, IdleTypes, EmptyGroups
    <2> QED BY <1>1, <1>2, <1>5, <2>1, <2>2, <2>3 DEF TypeOK
  <1>7. \A K \in Kinds : Looping(K, h[K], groups)
    BY <1>3 DEF Looping, Idle
  <1>8. Sending /\ Adding
    BY <1>3, <1>4 DEF Init, Boot, Sending, Adding, Resting
  <1> QED BY <1>2, <1>3, <1>6, <1>7, <1>8, EmptyGroups DEF IInv

\* A step that leaves the handlers and the groups as they are.
LEMMA OthersStay ==
    ASSUME IInv, TypeOK', Addressed', Adding', h' = h, groups' = groups, sender' = sender,
           w.pc = "write" => w'.pc = "write",
           starters.wait > 0 => starters'.wait > 0,
           starters'.sleep + starters'.wait <= MaxStarters
    PROVE  IInv'
  BY SendingStays DEF IInv

\* processNextResource and syncResource, but for addToIPGroup
LEMMA WorkerKeeps ==
    ASSUME IInv, 
           \/ \E r \in Resource : Get(r)
           \/ SkipIncomplete \/ SkipAdd \/ ReadUpdated \/ StoreUpdated \/ CheckUpdated \/ Done
    PROVE  IInv'
  <1> USE DEF IInv
  <1>1. /\ w \in WorkerType /\ w.pc # "write"
        /\ UNCHANGED <<env, notif, h, groups, chan>>
    BY DEF Get, SkipIncomplete, SkipAdd, ReadUpdated, StoreUpdated, CheckUpdated, Done, TypeOK
  <1>2. w' \in WorkerType /\ Adding'
    <2>1. ASSUME NEW r \in Resource, Get(r) PROVE w' \in WorkerType /\ Adding'
      <3>1. w' = [Resting EXCEPT !.pc = "add", !.rs = r, !.c = cache[r]]
        BY <2>1 DEF Get
      <3>2. cache[r] \in Contents[r] \cup {Absent} /\ cache[r] \in AnyContent \cup {Absent}
        BY DEF TypeOK
      <3>3. w' \in WorkerType /\ w'.rs = r /\ w'.c = cache[r]
        BY <3>1, <3>2, IdleTypes DEF WorkerType
      <3> QED BY <3>2, <3>3 DEF Adding
    <2>2. CASE SkipIncomplete \/ SkipAdd \/ StoreUpdated
      <3>1. \E pc \in {"done", "check"} : w' = [Resting EXCEPT !.rs = w.rs, !.pc = pc]
        BY <2>2 DEF SkipIncomplete, SkipAdd, StoreUpdated
      <3>2. w' \in WorkerType /\ w'.pc # "add"
        BY <1>1, <3>1, IdleTypes DEF WorkerType
      <3> QED BY <3>2 DEF Adding
    <2>3. CASE ReadUpdated \/ CheckUpdated
      <3>1. \/ w' = [w EXCEPT !.pc = "store", !.val = updated]
            \/ \E pc \in {"write", "done"} : w' = [w EXCEPT !.pc = pc]
        BY <2>3 DEF ReadUpdated, CheckUpdated
      <3>2. w' \in WorkerType /\ w'.pc # "add"
        BY <1>1, <3>1 DEF WorkerType, TypeOK
      <3> QED BY <3>2 DEF Adding
    <2>4. CASE Done
      BY <2>4, IdleTypes DEF Done, Adding, Resting
    <2> QED BY <2>1, <2>2, <2>3, <2>4
  <1>3. /\ starters' \in [sleep : 0..MaxStarters, wait : 0..MaxStarters]
        /\ starters.wait > 0 => starters'.wait > 0
        /\ starters'.sleep + starters'.wait <= MaxStarters
    <2>1. /\ starters \in [sleep : 0..MaxStarters, wait : 0..MaxStarters]
          /\ starters.sleep + starters.wait <= MaxStarters /\ MaxStarters \in Nat
      BY ClientAssumption DEF TypeOK, Sending
    <2>2. starters' = starters \/ /\ starters' = [starters EXCEPT !.sleep = @ + 1]
                                  /\ ~(starters.sleep + starters.wait >= MaxStarters)
      BY DEF Get, SkipIncomplete, SkipAdd, ReadUpdated, StoreUpdated, CheckUpdated, Done
    <2> QED BY <2>1, <2>2
  <1>4. dirty' \subseteq Resource /\ updated' \in BOOLEAN
    BY <1>1 DEF Get, SkipIncomplete, SkipAdd, ReadUpdated, StoreUpdated, CheckUpdated, Done,
       TypeOK, WorkerType
  <1>5. TypeOK' /\ Addressed'
    BY <1>1, <1>2, <1>3, <1>4 DEF TypeOK, Addressed, env, chan
  <1> QED BY <1>1, <1>2, <1>3, <1>5, OthersStay DEF chan

\* addToIPGroup, called by the worker
LEMMA AddSpecKeeps ==
    ASSUME IInv, AddSpec
    PROVE  IInv'
  <1> USE DEF IInv
  <1> DEFINE k == KeyOf(w.c)
             K == KindOf[w.rs]
  <1>1. /\ w \in WorkerType /\ w.rs \in Resource /\ w.c \in Contents[w.rs]
        /\ w.c.net # None /\ groups' = addToIPGroup(groups, k, w.rs, w.c.hosts)
        /\ UNCHANGED <<env, notif, dirty, starters, updated, chan>> /\ sender = None
    BY DEF AddSpec, Adding, Complete, TypeOK
  <1>2. /\ w.c.hosts \in Seq(Host) /\ k \in GroupKey
        /\ EachOnce(w.c.hosts, NamedOnce[w.rs])
        /\ K \in Kinds /\ w.rs \in Of(K)
    <2>1. w.c \in ContentType
      BY <1>1, ClientAssumption
    <2>2. k \in GroupKey
      BY <1>1, <2>1 DEF KeyOf, ContentType, GroupKey
    <2> QED BY <1>1, <2>1, <2>2, ClientAssumption, NamedOnceIs DEF ContentType, Of
  <1> HIDE DEF k
  <1>3. /\ groups' \in GroupsType /\ Distinct(groups', NamedOnce) /\ SpecIndex(groups', k, w.rs) # 0
        /\ \A j \in GroupKey, r \in Resource : Keeps(groups, groups', j, r)
    BY <1>1, <1>2, AddKeeps DEF TypeOK
  <1>4. \A J \in Kinds : Looping(J, h[J], groups')
    <2> SUFFICES ASSUME NEW J \in Kinds PROVE Looping(J, h[J], groups')
      OBVIOUS
    <2>1. Of(J) \subseteq Resource /\ h[J] \in HandlerType /\ groups \in GroupsType
      BY DEF Of, TypeOK
    <2>2. \A j \in GroupKey, r \in Of(J) : Keeps(groups, groups', j, r)
      BY <1>3, <2>1
    <2> QED BY <1>3, <2>1, <2>2, LoopStays
  <1>5. h' = h \/ \E x \in HandlerType : h' = [h EXCEPT ![K] = x] /\ Looping(K, x, groups')
    <2> SUFFICES ASSUME h' # h
                 PROVE  \E x \in HandlerType : h' = [h EXCEPT ![K] = x] /\ Looping(K, x, groups')
      OBVIOUS
    <2> DEFINE n == Len(Cells(K))
               arr == SpecAt(groups', k, w.rs).arr
               x == [h[K] EXCEPT !.alias = FALSE, !.own = SubSeq(arr, 1, n)]
    <2>1. /\ h[K].pc = "hosts" /\ h[K].rs = w.rs /\ h[K].key = k /\ h[K].alias
          /\ Len(arr) > n
          /\ h' = [h EXCEPT ![K].alias = FALSE, ![K].own = SubSeq(arr, 1, n)]
      BY <1>1 DEF AddSpec, k
    <2>2. h' = [h EXCEPT ![K] = x]
      BY <1>2, <2>1 DEF TypeOK
    <2>3. arr \in Seq(Host) /\ Len(arr) \in Nat
      BY <1>2, <1>3, SpecTypes
    <2>4. Cells(K) = CellsOf(h[K], groups) /\ n \in Nat
      <3>1. SpecIndex(groups, h[K].key, h[K].rs) # 0
        BY <1>2, <2>1 DEF Looping
      <3> QED BY <1>2, <2>1, <3>1, SpecTypes DEF Cells, CellsOf, TypeOK
    <2> HIDE DEF n, arr
    <2>5. SubSeq(arr, 1, n) \in Seq(Host) /\ Len(SubSeq(arr, 1, n)) = n
      <3>1. \A i \in 1..n : arr[i] \in Host
        BY <2>1, <2>3, <2>4
      <3>2. /\ SubSeq(arr, 1, n) \in Seq(Host)
            /\ Len(SubSeq(arr, 1, n)) = IF 1 <= n THEN n - 1 + 1 ELSE 0
        BY <2>4, <3>1, SubSeqProperties
      <3> QED BY <2>4, <3>2
    <2>6. h[K] \in HandlerType
      BY <1>2 DEF TypeOK
    <2>7. /\ x \in HandlerType /\ x.pc = h[K].pc /\ x.rs = w.rs /\ x.key = k
          /\ x.end = h[K].end /\ x.own = SubSeq(arr, 1, n) /\ ~x.alias
      BY <2>1, <2>5, <2>6 DEF HandlerType
    <2>8. h[K].end <= n
      BY <1>2, <2>1, <2>4 DEF Looping, n
    <2> HIDE DEF x
    <2>9. Looping(K, x, groups')
      BY <1>2, <1>3, <2>5, <2>7, <2>8 DEF Looping, CellsOf
    <2> QED BY <2>2, <2>7, <2>9
  <1>6. /\ h' \in [Kinds -> HandlerType] /\ \A J \in Kinds : Looping(J, h'[J], groups')
        /\ \A J \in Kinds : h[J].pc = "write" => h'[J].pc = "write"
    <2>1. /\ h' \in [Kinds -> HandlerType] /\ \A J \in Kinds : Looping(J, h'[J], groups')
      BY <1>2, <1>4, <1>5, HandlerKeeps
    <2> QED BY <1>1, <2>1 DEF AddSpec, TypeOK
  <1>7. w' \in WorkerType /\ w'.pc # "add"
    <2>1. \E pc \in {"store", "read"}, val \in BOOLEAN :
             w' = [Resting EXCEPT !.rs = w.rs, !.val = val, !.pc = pc]
      BY DEF AddSpec
    <2> QED BY <1>1, <2>1, IdleTypes DEF WorkerType
  <1>8. TypeOK'
    BY <1>1, <1>3, <1>6, <1>7 DEF TypeOK, env, chan
  <1>9. Sending'
    BY <1>1, <1>6, SendingStays DEF chan, Sending, AddSpec
  <1> QED BY <1>1, <1>3, <1>6, <1>7, <1>8, <1>9 DEF Adding, Addressed

LEMMA WakeKeeps ==
    ASSUME IInv, Wake
    PROVE  IInv'
  <1> USE DEF IInv
  <1>1. /\ starters \in [sleep : 0..MaxStarters, wait : 0..MaxStarters] /\ starters.sleep > 0
        /\ starters.sleep + starters.wait <= MaxStarters /\ MaxStarters \in Nat
        /\ UNCHANGED <<env, notif, h, dirty, w, groups, updated, chan>>
    BY ClientAssumption DEF TypeOK, Sending, Wake
  <1>2. \E n \in {0, 1} : starters' = [sleep |-> starters.sleep - 1, wait |-> starters.wait + n]
    BY DEF Wake
  <1>3. /\ starters' \in [sleep : 0..MaxStarters, wait : 0..MaxStarters]
        /\ starters.wait > 0 => starters'.wait > 0
        /\ starters'.sleep + starters'.wait <= MaxStarters
    BY <1>1, <1>2
  <1>4. TypeOK' /\ Addressed' /\ Adding'
    BY <1>1, <1>3 DEF TypeOK, Addressed, Adding, env, chan
  <1> QED BY <1>1, <1>3, <1>4, OthersStay DEF chan

\* A return from writeIPGroups moves its caller on.
LEMMA ReturnsTypes ==
    ASSUME IInv, NEW p \in Senders, Writing(p), Returns(p), groups' = groups
    PROVE  /\ h' \in [Kinds -> HandlerType] /\ \A K \in Kinds : Looping(K, h'[K], groups')
           /\ w' \in WorkerType /\ (w'.pc = "add" => w' = w)
           /\ starters' \in [sleep : 0..MaxStarters, wait : 0..MaxStarters]
           /\ starters'.sleep + starters'.wait <= MaxStarters
  <1> USE DEF IInv
  <1>1. h' \in [Kinds -> HandlerType] /\ \A K \in Kinds : Looping(K, h'[K], groups')
    <2>1. Looping(p, Idle, groups) /\ Idle \in HandlerType
      BY IdleTypes DEF Looping, Idle
    <2>2. h' = h \/ (p \in Kinds /\ h' = [h EXCEPT ![p] = Idle])
      BY DEF Returns
    <2> QED BY <2>1, <2>2 DEF TypeOK
  <1>2. w' \in WorkerType /\ (w'.pc = "add" => w' = w)
    BY DEF Returns, TypeOK, WorkerType
  <1>3. /\ starters' \in [sleep : 0..MaxStarters, wait : 0..MaxStarters]
        /\ starters'.sleep + starters'.wait <= MaxStarters
    <2>1. /\ starters \in [sleep : 0..MaxStarters, wait : 0..MaxStarters]
          /\ starters.sleep + starters.wait <= MaxStarters /\ MaxStarters \in Nat
      BY ClientAssumption DEF TypeOK, Sending
    <2>2. CASE p = "starter"
      BY <2>1, <2>2, WritingIs DEF Returns
    <2>3. CASE p # "starter"
      BY <2>1, <2>3 DEF Returns
    <2> QED BY <2>2, <2>3
  <1> QED BY <1>1, <1>2, <1>3

\* writeIPGroups, up to the select
LEMMA BeginKeeps ==
    ASSUME IInv, NEW p \in Senders, BeginWrite(p)
    PROVE  IInv'
  <1>1. /\ sender = None /\ Writing(p)
        /\ UNCHANGED <<env, notif, dirty, groups, updated, initialState, ctl, received>>
    BY DEF BeginWrite
  <1>2. CASE sender' = p /\ UNCHANGED <<h, w, starters>>
    <2>1. Sending'
      BY <1>1, <1>2 DEF IInv, Sending, Writing
    <2>2. TypeOK'
      BY <1>1, <1>2 DEF IInv, TypeOK, env
    <2> QED BY <1>1, <1>2, <2>1, <2>2 DEF IInv, Addressed, Adding
  <1>3. CASE Returns(p) /\ UNCHANGED sender
    <2>1. /\ h' \in [Kinds -> HandlerType] /\ \A K \in Kinds : Looping(K, h'[K], groups')
          /\ w' \in WorkerType /\ (w'.pc = "add" => w' = w)
          /\ starters' \in [sleep : 0..MaxStarters, wait : 0..MaxStarters]
          /\ starters'.sleep + starters'.wait <= MaxStarters
      BY <1>1, <1>3, ReturnsTypes
    <2>2. TypeOK'
      BY <1>1, <1>3, <2>1 DEF IInv, TypeOK, env
    <2> QED BY <1>1, <1>3, <2>1, <2>2 DEF IInv, Addressed, Adding, Sending
  <1> QED BY <1>2, <1>3 DEF BeginWrite

LEMMA SentTypes ==
    ASSUME NEW g \in GroupsType
    PROVE  Sent(g) \in SentType
  <1> SUFFICES ASSUME NEW k \in GroupKey
               PROVE  [i \in DOMAIN g[k] |-> [rs |-> g[k][i].rs, hosts |-> HostsOf(g[k][i])]]
                         \in Seq([rs : Resource, hosts : Seq(Host)])
    BY DEF Sent, SentType
  <1>1. g[k] \in Seq(SpecType)
    BY DEF GroupsType
  <1>2. \A i \in 1..Len(g[k]) : g[k][i].rs \in Resource /\ HostsOf(g[k][i]) \in Seq(Host)
    <2> SUFFICES ASSUME NEW i \in 1..Len(g[k])
                 PROVE  g[k][i].rs \in Resource /\ HostsOf(g[k][i]) \in Seq(Host)
      OBVIOUS
    <2>1. g[k][i] \in SpecType
      BY <1>1
    <2> QED BY <2>1, HostsAre DEF SpecType
  <1>3. DOMAIN g[k] = 1..Len(g[k]) /\ Len(g[k]) \in Nat
    BY <1>1
  <1> QED BY <1>2, <1>3, SeqDef

\* The two ends of the select in writeIPGroups
LEMMA EndKeeps ==
    ASSUME IInv, Deliver \/ Timeout
    PROVE  IInv'
  <1>1. /\ sender \in Senders /\ Writing(sender) /\ Returns(sender)
        /\ sender' = None /\ initialState' = TRUE /\ updated' = FALSE
        /\ UNCHANGED <<env, notif, dirty, groups>>
    BY DEF IInv, Deliver, Timeout, EndWrite, TypeOK, Sending
  <1>2. /\ received' \in SentType \cup {None}
        /\ ctl' \in {"select", "busy", "annotate"}
    BY SentTypes DEF IInv, Deliver, Timeout, TypeOK
  <1>3. /\ h' \in [Kinds -> HandlerType] /\ \A K \in Kinds : Looping(K, h'[K], groups')
        /\ w' \in WorkerType /\ (w'.pc = "add" => w' = w)
        /\ starters' \in [sleep : 0..MaxStarters, wait : 0..MaxStarters]
        /\ starters'.sleep + starters'.wait <= MaxStarters
    BY <1>1, ReturnsTypes
  <1>4. TypeOK'
    BY <1>1, <1>2, <1>3 DEF IInv, TypeOK, env
  <1> QED BY <1>1, <1>3, <1>4 DEF IInv, Addressed, Adding, Sending

LEMMA CtlProcessedKeeps ==
    ASSUME IInv, CtlProcessed
    PROVE  IInv'
  <1>1. /\ UNCHANGED <<env, notif, h, dirty, w, starters, groups, updated, sender,
                       initialState, received>>
        /\ ctl' \in {"select", "busy", "annotate"}
    BY DEF CtlProcessed
  <1>2. TypeOK' /\ Addressed' /\ Adding'
    BY <1>1 DEF IInv, TypeOK, Addressed, Adding, env
  <1> QED BY <1>1, <1>2, OthersStay DEF IInv, Sending

\* An informer notifies of resources as they are.
LEMMA SameTypes ==
    ASSUME IInv, NEW S, NotifySame(S)
    PROVE  notif' \in [Kinds -> Seq(EventType)] /\ Addressed'
  <1> DEFINE f(r) == [rs |-> r, old |-> cache[r], cur |-> cache[r]]
             s(K) == SetToSeq({f(r) : r \in S \cap Of(K)})
  <1>1. notif' = [K \in Kinds |-> notif[K] \o s(K)]
    BY DEF NotifySame
  <1>2. ASSUME NEW K \in Kinds
        PROVE  s(K) \in Seq(EventType) /\ \A i \in DOMAIN s(K) : s(K)[i].rs \in Of(K)
    <2> DEFINE T == S \cap Of(K)
               e == [r \in T |-> f(r)]
    <2>1. T \in SUBSET Of(K) /\ \A r \in T : e[r] \in EventType /\ e[r].rs \in Of(K)
      BY DEF IInv, TypeOK, EventType, Of
    <2>2. s(K) = SetToSeq({e[r] : r \in T})
      <3>1. {f(r) : r \in T} = {e[r] : r \in T}
        OBVIOUS
      <3> QED BY <3>1
    <2> HIDE DEF e, s, T
    <2>3. LET t == SetToSeq({e[r] : r \in T})
          IN  t \in Seq(EventType) /\ \A i \in DOMAIN t : t[i].rs \in Of(K)
      BY <2>1, NotifiedTypes
    <2> QED BY <2>2, <2>3
  <1> HIDE DEF s
  <1>3. ASSUME NEW K \in Kinds
        PROVE  notif'[K] \in Seq(EventType) /\ \A i \in DOMAIN notif'[K] : notif'[K][i].rs \in Of(K)
    <2>1. /\ notif[K] \in Seq(EventType) /\ \A i \in DOMAIN notif[K] : notif[K][i].rs \in Of(K)
          /\ notif'[K] = notif[K] \o s(K)
      BY <1>1 DEF IInv, TypeOK, Addressed
    <2>2. /\ notif[K] \o s(K) \in Seq(EventType)
          /\ DOMAIN (notif[K] \o s(K)) = 1..(Len(notif[K]) + Len(s(K)))
          /\ Len(notif[K]) \in Nat /\ Len(s(K)) \in Nat
      BY <1>2, <2>1
    <2>3. ASSUME NEW i \in 1..(Len(notif[K]) + Len(s(K)))
          PROVE  (notif[K] \o s(K))[i].rs \in Of(K)
      <3>1. CASE i <= Len(notif[K])
        BY <2>1, <2>2, <3>1
      <3>2. CASE i > Len(notif[K])
        <4>1. /\ (notif[K] \o s(K))[i] = s(K)[i - Len(notif[K])]
              /\ i - Len(notif[K]) \in DOMAIN s(K)
          BY <1>2, <2>1, <2>2, <3>2
        <4> QED BY <1>2, <4>1
      <3> QED BY <2>2, <3>1, <3>2
    <2> QED BY <2>1, <2>2, <2>3
  <1>4. notif' \in [Kinds -> Seq(EventType)]
    BY <1>1, <1>3
  <1> QED BY <1>3, <1>4 DEF Addressed, Of

\* AnnotateResources, in which a spec without hosts ends the process, and the resync
LEMMA AnnotateKeeps ==
    ASSUME IInv, CtlAnnotate \/ \E r \in Resource : Resync(r)
    PROVE  IInv'
  <1>1. CASE CtlAnnotate /\ NoFirstHost
    BY <1>1, RebootKeeps DEF CtlAnnotate, IInv, TypeOK
  <1>2. CASE ~(CtlAnnotate /\ NoFirstHost)
    <2>1. /\ \E S : NotifySame(S)
          /\ ctl' \in {"select", "busy", "annotate"}
          /\ UNCHANGED <<env, h, dirty, w, starters, groups, updated,
                         sender, initialState, received>>
      BY <1>2 DEF CtlAnnotate, Resync, IInv, TypeOK, env, chan
    <2>2. notif' \in [Kinds -> Seq(EventType)] /\ Addressed'
      BY <2>1, SameTypes
    <2>3. TypeOK' /\ Adding'
      BY <2>1, <2>2 DEF IInv, TypeOK, Adding, env
    <2> QED BY <2>1, <2>2, <2>3, OthersStay DEF IInv, Sending
  <1> QED BY <1>1, <1>2

\* A resource is created, edited or deleted, seen or unseen.
LEMMA EditKeeps ==
    ASSUME IInv, NEW r \in Resource, Edit(r)
    PROVE  IInv'
  <1> USE DEF IInv
  <1>1. PICK c \in Contents[r] \cup {Absent}, cur \in AnyContent \cup {Absent, Unknown} :
           /\ cache' = [cache EXCEPT ![r] = c]
           /\ Notify([rs |-> r, old |-> cache[r], cur |-> cur])
    <2>1. Contents[r] \subseteq AnyContent
      BY ContentTypes
    <2> QED BY <2>1 DEF Edit, Change, DeleteUnseen
  <1>2. /\ events < MaxEvents /\ events' = events + 1
        /\ UNCHANGED <<h, dirty, w, starters, groups, updated, chan>>
    BY DEF Edit, Change, DeleteUnseen
  <1>3. /\ cache' \in [Resource -> AnyContent \cup {Absent}]
        /\ \A q \in Resource : cache'[q] \in Contents[q] \cup {Absent}
    BY <1>1, ContentTypes DEF TypeOK
  <1>4. notif' \in [Kinds -> Seq(EventType)] /\ Addressed'
    <2> DEFINE e == [rs |-> r, old |-> cache[r], cur |-> cur]
               K == KindOf[r]
    <2>1. e \in EventType /\ e.rs = r /\ K \in Kinds /\ r \in Of(K)
      BY ClientAssumption DEF EventType, TypeOK, Of
    <2>2. notif' = [notif EXCEPT ![K] = Append(@, e)]
      BY <1>1 DEF Notify
    <2> HIDE DEF e, K
    <2>3. /\ notif[K] \in Seq(EventType) /\ Append(notif[K], e) \in Seq(EventType)
          /\ Len(notif[K]) \in Nat /\ DOMAIN Append(notif[K], e) = 1..(Len(notif[K]) + 1)
          /\ \A i \in 1..Len(notif[K]) : Append(notif[K], e)[i] = notif[K][i]
          /\ Append(notif[K], e)[Len(notif[K]) + 1] = e
      BY <2>1 DEF TypeOK
    <2>4. \A i \in DOMAIN notif[K] : notif[K][i].rs \in Of(K)
      BY <2>1 DEF Addressed
    <2>5. \A i \in DOMAIN Append(notif[K], e) : Append(notif[K], e)[i].rs \in Of(K)
      <3> SUFFICES ASSUME NEW i \in 1..(Len(notif[K]) + 1)
                   PROVE  Append(notif[K], e)[i].rs \in Of(K)
        BY <2>3
      <3>1. CASE i = Len(notif[K]) + 1
        BY <2>1, <2>3, <3>1
      <3>2. CASE i # Len(notif[K]) + 1
        <4>1. i \in 1..Len(notif[K]) /\ DOMAIN notif[K] = 1..Len(notif[K])
          BY <2>3, <3>2
        <4> QED BY <2>3, <2>4, <4>1
      <3> QED BY <3>1, <3>2
    <2>6. notif' \in [Kinds -> Seq(EventType)] /\ notif'[K] = Append(notif[K], e)
          /\ \A J \in Kinds \ {K} : notif'[J] = notif[J]
      BY <2>1, <2>2, <2>3 DEF TypeOK
    <2> QED BY <2>5, <2>6 DEF Addressed, Of
  <1>5. events' \in 0..MaxEvents
    BY <1>2, ClientAssumption DEF TypeOK
  <1>6. TypeOK' /\ Adding'
    BY <1>2, <1>3, <1>4, <1>5 DEF TypeOK, Adding, chan
  <1> QED BY <1>2, <1>4, <1>6, OthersStay DEF Sending, chan

\* The panics of the handlers, and the kill
LEMMA EndsKeep ==
    ASSUME IInv, Crash \/ \E K \in Kinds : OnUnknown(K)
    PROVE  IInv'
  <1>1. Reboot /\ events' \in 0..MaxEvents
    BY ClientAssumption DEF IInv, TypeOK, Crash, OnUnknown
  <1> QED BY <1>1, RebootKeeps

LEMMA StutterKeeps == IInv /\ UNCHANGED vars => IInv'
  <1> SUFFICES ASSUME IInv, UNCHANGED vars PROVE IInv'
    OBVIOUS
  <1>1. TypeOK' /\ Addressed' /\ Adding'
    BY DEF IInv, TypeOK, Addressed, Adding, vars, env, chan
  <1> QED BY <1>1, OthersStay DEF IInv, Sending, vars, env, chan

LEMMA NextKeeps == IInv /\ [Next]_vars => IInv'
  <1> SUFFICES ASSUME IInv, Next \/ UNCHANGED vars PROVE IInv'
    OBVIOUS
  <1>1. CASE \E K \in Kinds : Handle(K)
    BY <1>1, EventsKeep, LoopKeeps, EndsKeep DEF Handle
  <1>2. CASE Work
    BY <1>2, WorkerKeeps, AddSpecKeeps DEF Work
  <1>3. CASE \E r \in Resource : Resync(r) \/ Edit(r)
    BY <1>3, AnnotateKeeps, EditKeeps
  <1>4. CASE \E p \in Senders : BeginWrite(p)
    BY <1>4, BeginKeeps
  <1>5. CASE Deliver \/ Timeout \/ CtlProcessed \/ CtlAnnotate
    BY <1>5, EndKeeps, CtlProcessedKeeps, AnnotateKeeps
  <1> QED BY <1>1, <1>2, <1>3, <1>4, <1>5, WakeKeeps, EndsKeep, StutterKeeps DEF Next, Elsewhere

LEMMA ClientInvariant == Spec => []IInv
  BY InitKeeps, NextKeeps, PTL DEF Spec

\* Whatever the changes, the crashes and the order in which the goroutines take
\* their turns, the state of the client stays well formed: every spec in the groups
\* of orchestration.go has no more hosts than its array has cells, no handler is
\* left with a resource that is not of its kind, and what the controller receives
\* are specs with hosts.
THEOREM ClientTypes == Spec => []TypeOK
  BY ClientInvariant, PTL DEF IInv

\* addToIPGroup, removeHost and removeFromIPGroup, called by two handlers and the
\* worker in any order and on arrays that they share, never leave a resource twice
\* in a group, nor a host twice in a spec.
THEOREM SpecsDistinct == Spec => []DistinctSpecs
  <1>1. IInv => DistinctSpecs
    <2> SUFFICES ASSUME IInv, NEW k \in GroupKey
                 PROVE  /\ OneEach(groups[k])
                        /\ \A i \in DOMAIN groups[k] : \A x \in NamedOnce[groups[k][i].rs] :
                              Once(HostsOf(groups[k][i]), x)
      BY DEF DistinctSpecs, OneEach
    <2>1. OneEach(groups[k]) /\ \A i \in DOMAIN groups[k] : Clean(groups[k][i], NamedOnce)
      BY DEF IInv, Distinct
    <2>2. \A i \in DOMAIN groups[k] : groups[k][i].rs \in Resource
      <3>1. groups \in GroupsType
        BY DEF IInv, TypeOK
      <3>2. groups[k] \in Seq(SpecType)
        BY <3>1 DEF GroupsType
      <3>3. \A i \in DOMAIN groups[k] : groups[k][i] \in SpecType
        BY <3>2
      <3> QED BY <3>3 DEF SpecType
    <2>3. \A r \in Resource : NamedOnce[r] \subseteq Host
      BY DEF NamedOnce
    <2> QED BY <2>1, <2>2, <2>3 DEF Clean, EachOnce
  <1> QED BY <1>1, ClientInvariant, PTL
=============================================================================
