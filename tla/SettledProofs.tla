---------------------------- MODULE SettledProofs -----------------------------
(***************************************************************************)
(* What there is when the program is at rest, for any resources and any    *)
(* number of changes and crashes: in the groups of the orchestration       *)
(* client every host of every watched resource, and in the IPAM system a   *)
(* record for each of them.                                                *)
(***************************************************************************)
EXTENDS System, K8sClientProofs

(***************************************************************************)
(* The groups.  What a resource asks for is in them (InGroup), or somebody *)
(* is still to see to it (Pending).                                        *)
(***************************************************************************)
Due(r) == checkValid(cache[r]) /\ Complete(cache[r])

InGroup(r) ==
    LET k == KeyOf(cache[r])
    IN  /\ SpecIndex(groups, k, r) # 0
        /\ Range(cache[r].hosts) \subseteq Range(HostsOf(SpecAt(groups, k, r)))

\* There is a notification of the resource among those in n.
Told(n, r) == \E i \in DOMAIN n[KindOf[r]] : n[KindOf[r]][i].rs = r

Busy(x, r) == x.pc \in {"hosts", "enqueue"} /\ x.rs = r

Pending(r) ==
    \/ r \in dirty \/ Told(notif, r)
    \/ Busy(h[KindOf[r]], r)
    \/ w.pc = "add" /\ w.rs = r /\ w.c = cache[r]

\* A notification that says what the resource is in cache c.
Fresh(e, c) == e.cur = c[e.rs] \/ (e.cur = Unknown /\ c[e.rs] = Absent)

\* The last notification of a resource is fresh.
LatestOf(s, c) ==
    \A i \in DOMAIN s : Fresh(s[i], c) \/ \E j \in DOMAIN s : j > i /\ s[j].rs = s[i].rs

Latest == \A K \in Kinds : LatestOf(notif[K], cache)

\* A handler that is about to remove the spec of a resource that is watched again
\* has not heard the last of it.
Removing ==
    \A K \in Kinds : h[K].pc = "remove" /\ checkValid(cache[h[K].rs]) => Told(notif, h[K].rs)

Owed == \A r \in Resource : Due(r) => InGroup(r) \/ Pending(r)

CoverInv == Latest /\ Removing /\ Owed

LEMMA SetToSeqOnto ==
    ASSUME NEW S, IsFiniteSet(S)
    PROVE  \A x \in S : \E i \in DOMAIN SetToSeq(S) : SetToSeq(S)[i] = x
  <1> DEFINE n == Cardinality(S)
  <1>1. n \in Nat /\ Bijection(1..n, S) # {}
    BY FS_CardinalityType DEF ExistsBijection
  <1>2. \E f \in [1..n -> S] : IsInjective(f)
    BY <1>1 DEF Bijection, Injection
  <1>3. SetToSeq(S) \in [1..n -> S] /\ IsInjective(SetToSeq(S))
    BY <1>2 DEF SetToSeq
  <1>4. IsFiniteSet(1..n) /\ Cardinality(1..n) = n
    BY <1>1, FS_Interval
  <1> HIDE DEF n
  <1>5. SetToSeq(S) \in Injection(1..n, S)
    BY <1>3 DEF Injection, IsInjective
  <1>6. SetToSeq(S) \in Surjection(1..n, S)
    BY <1>4, <1>5, FS_Injection DEF n
  <1> QED BY <1>6 DEF Surjection

LEMMA ListedAll ==
    ASSUME NEW r \in Resource, cache[r] # Absent
    PROVE  \E i \in DOMAIN Listed[KindOf[r]] : Listed[KindOf[r]][i].rs = r
  <1> DEFINE K == KindOf[r]
             S == {s \in Of(K) : cache[s] # Absent}
             e == [s \in S |-> [rs |-> s, old |-> Absent, cur |-> cache[s]]]
             E == {e[s] : s \in S}
  <1>1. K \in Kinds /\ r \in S /\ S \in SUBSET Resource
    BY ClientAssumption DEF Of
  <1>2. IsFiniteSet(S)
    BY <1>1, ClientAssumption, FS_Subset
  <1>3. IsFiniteSet(E)
    <2>1. e \in Surjection(S, E)
      BY DEF Surjection
    <2> HIDE DEF e, S, E
    <2> QED BY <1>2, <2>1, FS_Surjection
  <1>4. Listed[K] = SetToSeq(E)
    <2>1. E = {[rs |-> s, old |-> Absent, cur |-> cache[s]] : s \in S}
      OBVIOUS
    <2> QED BY <1>1, <2>1 DEF Listed
  <1>5. e[r] \in E /\ e[r].rs = r
    BY <1>1
  <1> HIDE DEF E, e, S, K
  <1>6. \E i \in DOMAIN SetToSeq(E) : SetToSeq(E)[i] = e[r]
    BY <1>3, <1>5, SetToSeqOnto
  <1> QED BY <1>4, <1>5, <1>6 DEF K

\* What the informers list is fresh.
LEMMA ListedFresh ==
    ASSUME NEW K \in Kinds, NEW i \in DOMAIN Listed[K]
    PROVE  Listed[K][i].rs \in Of(K) /\ Listed[K][i].cur = cache[Listed[K][i].rs]
  <1> DEFINE S == {s \in Of(K) : cache[s] # Absent}
             e == [s \in S |-> [rs |-> s, old |-> Absent, cur |-> cache[s]]]
             E == {e[s] : s \in S}
  <1>1. IsFiniteSet(S)
    <2>1. S \in SUBSET Resource
      BY DEF Of
    <2> QED BY <2>1, ClientAssumption, FS_Subset
  <1>2. IsFiniteSet(E)
    <2>1. e \in Surjection(S, E)
      BY DEF Surjection
    <2> HIDE DEF e, S, E
    <2> QED BY <1>1, <2>1, FS_Surjection
  <1>3. Listed[K] = SetToSeq(E)
    <2>1. E = {[rs |-> s, old |-> Absent, cur |-> cache[s]] : s \in S}
      OBVIOUS
    <2> QED BY <2>1 DEF Listed
  <1>4. \A x \in E : x.rs \in Of(K) /\ x.cur = cache[x.rs]
    <2>1. \A s \in S : e[s].rs = s /\ e[s].cur = cache[s] /\ s \in Of(K)
      OBVIOUS
    <2> HIDE DEF e, S
    <2> QED BY <2>1
  <1> HIDE DEF E
  <1>5. SetToSeq(E)[i] \in E
    BY <1>2, <1>3, SetToSeqIs
  <1> QED BY <1>3, <1>4, <1>5

(***************************************************************************)
(* The notifications                                                       *)
(***************************************************************************)
\* What a step may do to the notifications: it takes none away, and the last word
\* on every resource stays the last.
Tells == Latest' /\ \A r \in Resource : Told(notif, r) => Told(notif', r)

LEMMA SameNotif ==
    ASSUME Latest, UNCHANGED <<cache, notif>>
    PROVE  Tells
  BY DEF Tells, Latest

\* The first of a sequence is taken.
LEMMA TailLatest ==
    ASSUME NEW s \in Seq(EventType), s # <<>>, NEW c, LatestOf(s, c)
    PROVE  /\ LatestOf(Tail(s), c)
           /\ \A i \in DOMAIN s : i # 1 => \E j \in DOMAIN Tail(s) : Tail(s)[j] = s[i]
           /\ Fresh(s[1], c) \/ \E j \in DOMAIN Tail(s) : Tail(s)[j].rs = s[1].rs
  <1>1. /\ DOMAIN s = 1..Len(s) /\ Len(s) \in Nat /\ Len(s) > 0
        /\ DOMAIN Tail(s) = 1..Len(s) - 1
        /\ \A i \in 1..Len(s) - 1 : Tail(s)[i] = s[i + 1]
    OBVIOUS
  <1>2. \A i \in DOMAIN s : i # 1 => \E j \in DOMAIN Tail(s) : Tail(s)[j] = s[i]
    <2> SUFFICES ASSUME NEW i \in 2..Len(s) PROVE \E j \in DOMAIN Tail(s) : Tail(s)[j] = s[i]
      BY <1>1
    <2>1. i - 1 \in 1..Len(s) - 1 /\ (i - 1) + 1 = i
      BY <1>1
    <2>2. Tail(s)[i - 1] = s[i]
      BY <1>1, <2>1
    <2> QED BY <1>1, <2>1, <2>2
  <1>3. Fresh(s[1], c) \/ \E j \in DOMAIN Tail(s) : Tail(s)[j].rs = s[1].rs
    <2> SUFFICES ASSUME ~Fresh(s[1], c) PROVE \E j \in DOMAIN Tail(s) : Tail(s)[j].rs = s[1].rs
      OBVIOUS
    <2>1. PICK j \in DOMAIN s : j > 1 /\ s[j].rs = s[1].rs
      BY <1>1 DEF LatestOf
    <2> QED BY <1>1, <1>2, <2>1
  <1>4. LatestOf(Tail(s), c)
    <2> SUFFICES ASSUME NEW i \in 1..Len(s) - 1, ~Fresh(Tail(s)[i], c)
                 PROVE  \E j \in DOMAIN Tail(s) : j > i /\ Tail(s)[j].rs = Tail(s)[i].rs
      BY <1>1 DEF LatestOf
    <2>1. i + 1 \in DOMAIN s /\ Tail(s)[i] = s[i + 1]
      BY <1>1
    <2>2. PICK j \in 1..Len(s) : j > i + 1 /\ s[j].rs = s[i + 1].rs
      BY <1>1, <2>1 DEF LatestOf
    <2>3. j - 1 \in 1..Len(s) - 1 /\ j - 1 > i /\ (j - 1) + 1 = j
      BY <1>1, <2>2
    <2>4. Tail(s)[j - 1] = s[j]
      BY <1>1, <2>3
    <2> QED BY <1>1, <2>1, <2>2, <2>3, <2>4
  <1> QED BY <1>2, <1>3, <1>4

\* A handler takes a notification: its resource stays told unless this was the last.
LEMMA HandledTells ==
    ASSUME IInv, Latest, NEW K \in Kinds, notif[K] # <<>>, Handled(K), UNCHANGED cache
    PROVE  /\ Latest'
           /\ \A r \in Resource :
                 Told(notif, r) => \/ Told(notif', r)
                                   \/ K = KindOf[r] /\ r = Event(K).rs /\ Fresh(Event(K), cache)
           /\ ~Fresh(Event(K), cache) => Told(notif', Event(K).rs)
  <1> DEFINE s == notif[K]
  <1>1. s \in Seq(EventType) /\ s[1] = Event(K) /\ LatestOf(s, cache) /\ KindOf[s[1].rs] = K
    <2>1. s \in Seq(EventType) /\ 1 \in DOMAIN s
      BY DEF IInv, TypeOK
    <2> QED BY <2>1 DEF IInv, Addressed, Latest, Event, Of
  <1>2. notif'[K] = Tail(s) /\ \A J \in Kinds \ {K} : notif'[J] = notif[J]
    BY DEF Handled, IInv, TypeOK
  <1>3. /\ LatestOf(Tail(s), cache)
        /\ \A i \in DOMAIN s : i # 1 => \E j \in DOMAIN Tail(s) : Tail(s)[j] = s[i]
        /\ Fresh(s[1], cache) \/ \E j \in DOMAIN Tail(s) : Tail(s)[j].rs = s[1].rs
    BY <1>1, TailLatest
  <1>4. Latest'
    BY <1>2, <1>3 DEF Latest
  <1>5. ~Fresh(Event(K), cache) => Told(notif', Event(K).rs)
    BY <1>1, <1>2, <1>3 DEF Told
  <1>6. ASSUME NEW r \in Resource, Told(notif, r), ~Told(notif', r)
        PROVE  K = KindOf[r] /\ r = Event(K).rs /\ Fresh(Event(K), cache)
    <2>1. K = KindOf[r]
      BY <1>2, <1>6, ClientAssumption DEF Told
    <2>2. PICK i \in DOMAIN s : s[i].rs = r
      BY <1>6, <2>1 DEF Told
    <2>3. ASSUME i # 1 PROVE FALSE
      <3>1. PICK j \in DOMAIN Tail(s) : Tail(s)[j] = s[i]
        BY <1>3, <2>3
      <3>2. j \in DOMAIN notif'[KindOf[r]] /\ notif'[KindOf[r]][j].rs = r
        BY <1>2, <2>1, <2>2, <3>1
      <3> QED BY <1>6, <3>2 DEF Told
    <2> QED BY <1>1, <1>5, <1>6, <2>1, <2>2, <2>3
  <1> QED BY <1>4, <1>5, <1>6

\* Fresh notifications are added: of every resource that changes, and perhaps others.
LEMMA MoreTells ==
    ASSUME IInv, Latest, notif' \in [Kinds -> Seq(EventType)],
           NEW R \in SUBSET Resource, \A r \in Resource \ R : cache'[r] = cache[r],
           \A K \in Kinds :
              /\ Len(notif[K]) <= Len(notif'[K])
              /\ \A i \in 1..Len(notif[K]) : notif'[K][i] = notif[K][i]
              /\ \A i \in 1..Len(notif'[K]) : i > Len(notif[K]) => Fresh(notif'[K][i], cache'),
           \A r \in R : \E i \in 1..Len(notif'[KindOf[r]]) :
              i > Len(notif[KindOf[r]]) /\ notif'[KindOf[r]][i].rs = r
    PROVE  Tells
  <1>1. \A K \in Kinds : /\ Len(notif[K]) \in Nat /\ DOMAIN notif[K] = 1..Len(notif[K])
                         /\ Len(notif'[K]) \in Nat /\ DOMAIN notif'[K] = 1..Len(notif'[K])
    BY DEF IInv, TypeOK
  <1>2. ASSUME NEW r \in Resource, Told(notif, r) PROVE Told(notif', r)
    <2> DEFINE K == KindOf[r]
    <2>1. K \in Kinds
      BY ClientAssumption
    <2>2. PICK i \in DOMAIN notif[K] : notif[K][i].rs = r
      BY <1>2 DEF Told
    <2>3. i \in DOMAIN notif'[K] /\ notif'[K][i] = notif[K][i]
      BY <1>1, <2>1
    <2> QED BY <2>2, <2>3 DEF Told
  <1>3. ASSUME NEW K \in Kinds, NEW i \in 1..Len(notif'[K]), ~Fresh(notif'[K][i], cache')
        PROVE  \E j \in 1..Len(notif'[K]) : j > i /\ notif'[K][j].rs = notif'[K][i].rs
    <2>1. i \in 1..Len(notif[K]) /\ notif'[K][i] = notif[K][i]
      BY <1>1, <1>3
    <2>2. notif[K][i].rs \in Resource /\ KindOf[notif[K][i].rs] = K
      BY <1>1, <2>1 DEF IInv, Addressed, Of
    <2>3. CASE notif[K][i].rs \in R
      <3>1. PICK j \in 1..Len(notif'[K]) : j > Len(notif[K]) /\ notif'[K][j].rs = notif[K][i].rs
        BY <2>2, <2>3
      <3> QED BY <1>1, <2>1, <3>1
    <2>4. CASE notif[K][i].rs \notin R
      <3>1. ~Fresh(notif[K][i], cache)
        BY <1>3, <2>1, <2>2, <2>4 DEF Fresh
      <3>2. PICK j \in 1..Len(notif[K]) : j > i /\ notif[K][j].rs = notif[K][i].rs
        BY <1>1, <2>1, <3>1 DEF Latest, LatestOf
      <3>3. j \in 1..Len(notif'[K]) /\ notif'[K][j] = notif[K][j]
        BY <1>1
      <3> QED BY <2>1, <3>2, <3>3
    <2> QED BY <2>3, <2>4
  <1>4. Latest'
    BY <1>1, <1>3 DEF Latest, LatestOf
  <1> QED BY <1>2, <1>4 DEF Tells

LEMMA SameTells ==
    ASSUME IInv, IInv', Latest, NEW S, NotifySame(S), UNCHANGED cache
    PROVE  Tells
  <1> DEFINE f(r) == [rs |-> r, old |-> cache[r], cur |-> cache[r]]
             s(K) == SetToSeq({f(r) : r \in S \cap Of(K)})
  <1>1. notif' = [K \in Kinds |-> notif[K] \o s(K)]
    BY DEF NotifySame
  <1>2. ASSUME NEW K \in Kinds
        PROVE  s(K) \in Seq(EventType) /\ \A i \in DOMAIN s(K) : Fresh(s(K)[i], cache)
    <2> DEFINE T == S \cap Of(K)
               e == [r \in T |-> f(r)]
               E == {f(r) : r \in T}
    <2>1. \A x \in E : x \in EventType /\ Fresh(x, cache)
      <3> SUFFICES ASSUME NEW r \in T PROVE f(r) \in EventType /\ Fresh(f(r), cache)
        OBVIOUS
      <3>1. r \in Resource /\ cache[r] \in AnyContent \cup {Absent}
        BY DEF IInv, TypeOK, Of
      <3> QED BY <3>1 DEF EventType, Fresh
    <2>2. IsFiniteSet(E)
      <3>1. e \in Surjection(T, E)
        BY DEF Surjection
      <3>2. IsFiniteSet(T)
        <4>1. T \in SUBSET Resource
          BY DEF Of
        <4> QED BY <4>1, ClientAssumption, FS_Subset
      <3> HIDE DEF e, E, T
      <3> QED BY <3>1, <3>2, FS_Surjection
    <2> HIDE DEF E
    <2>3. SetToSeq(E) \in Seq(E) /\ \A i \in DOMAIN SetToSeq(E) : SetToSeq(E)[i] \in E
      BY <2>2, SetToSeqIs
    <2>4. SetToSeq(E) \in Seq(EventType)
      <3>1. E \subseteq EventType
        BY <2>1
      <3> QED BY <2>3, <3>1, SeqMonotonic
    <2>5. s(K) = SetToSeq(E)
      BY DEF E
    <2> HIDE DEF s
    <2> QED BY <2>1, <2>3, <2>4, <2>5
  <1> HIDE DEF s, f
  <1>3. ASSUME NEW K \in Kinds
        PROVE  /\ Len(notif[K]) <= Len(notif'[K])
               /\ \A i \in 1..Len(notif[K]) : notif'[K][i] = notif[K][i]
               /\ \A i \in 1..Len(notif'[K]) : i > Len(notif[K]) => Fresh(notif'[K][i], cache')
    <2>1. notif[K] \in Seq(EventType) /\ notif'[K] = notif[K] \o s(K)
      BY <1>1 DEF IInv, TypeOK
    <2>2. /\ Len(notif[K] \o s(K)) = Len(notif[K]) + Len(s(K))
          /\ \A i \in 1..Len(notif[K]) + Len(s(K)) : (notif[K] \o s(K))[i] =
                IF i <= Len(notif[K]) THEN notif[K][i] ELSE s(K)[i - Len(notif[K])]
          /\ Len(notif[K]) \in Nat /\ Len(s(K)) \in Nat /\ DOMAIN s(K) = 1..Len(s(K))
      BY <1>2, <2>1, ConcatProperties
    <2>3. ASSUME NEW i \in 1..Len(notif'[K]), i > Len(notif[K]) PROVE Fresh(notif'[K][i], cache')
      <3>1. /\ notif'[K][i] = s(K)[i - Len(notif[K])]
            /\ i - Len(notif[K]) \in DOMAIN s(K)
        BY <2>1, <2>2, <2>3
      <3> QED BY <1>2, <3>1
    <2> QED BY <2>1, <2>2, <2>3
  <1>4. notif' \in [Kinds -> Seq(EventType)]
    BY DEF IInv, TypeOK
  <1>5. /\ {} \in SUBSET Resource /\ \A r \in Resource \ {} : cache'[r] = cache[r]
        /\ \A r \in {} : \E i \in 1..Len(notif'[KindOf[r]]) :
              i > Len(notif[KindOf[r]]) /\ notif'[KindOf[r]][i].rs = r
    OBVIOUS
  <1> QED BY <1>3, <1>4, <1>5, MoreTells

LEMMA EditTells ==
    ASSUME IInv, IInv', Latest, NEW r \in Resource, Edit(r)
    PROVE  /\ Tells /\ Told(notif', r)
           /\ \A q \in Resource \ {r} : cache'[q] = cache[q]
  <1>1. PICK e \in [rs : {r}, old : {cache[r]}, cur : AnyContent \cup {Absent, Unknown}] :
           /\ Fresh(e, cache') /\ e.rs = r /\ Notify(e)
           /\ \A q \in Resource \ {r} : cache'[q] = cache[q]
    <2>1. ASSUME NEW c \in Contents[r] \cup {Absent}, Change(r, c)
          PROVE  LET e == [rs |-> r, old |-> cache[r], cur |-> c]
                 IN  /\ e \in [rs : {r}, old : {cache[r]}, cur : AnyContent \cup {Absent, Unknown}]
                     /\ Fresh(e, cache') /\ e.rs = r /\ Notify(e)
                     /\ \A q \in Resource \ {r} : cache'[q] = cache[q]
      BY <2>1, ContentTypes DEF Change, Fresh, IInv, TypeOK
    <2>2. ASSUME DeleteUnseen(r)
          PROVE  LET e == [rs |-> r, old |-> cache[r], cur |-> Unknown]
                 IN  /\ e \in [rs : {r}, old : {cache[r]}, cur : AnyContent \cup {Absent, Unknown}]
                     /\ Fresh(e, cache') /\ e.rs = r /\ Notify(e)
                     /\ \A q \in Resource \ {r} : cache'[q] = cache[q]
      BY <2>2 DEF DeleteUnseen, Fresh, IInv, TypeOK
    <2> QED BY <2>1, <2>2 DEF Edit
  <1> DEFINE K == KindOf[r]
  <1>2. K \in Kinds /\ e \in EventType /\ notif' = [notif EXCEPT ![K] = Append(@, e)]
    BY <1>1, ClientAssumption DEF Notify, EventType, IInv, TypeOK
  <1>3. /\ notif \in [Kinds -> Seq(EventType)] /\ notif' \in [Kinds -> Seq(EventType)]
    BY DEF IInv, TypeOK
  <1> HIDE DEF K
  <1>4. /\ notif'[K] = Append(notif[K], e) /\ \A J \in Kinds \ {K} : notif'[J] = notif[J]
        /\ Len(notif'[K]) = Len(notif[K]) + 1 /\ notif'[K][Len(notif[K]) + 1] = e
        /\ \A i \in 1..Len(notif[K]) : notif'[K][i] = notif[K][i]
        /\ \A J \in Kinds : Len(notif[J]) \in Nat /\ DOMAIN notif'[J] = 1..Len(notif'[J])
    BY <1>2, <1>3
  <1>5. \A J \in Kinds :
              /\ Len(notif[J]) <= Len(notif'[J])
              /\ \A i \in 1..Len(notif[J]) : notif'[J][i] = notif[J][i]
              /\ \A i \in 1..Len(notif'[J]) : i > Len(notif[J]) => Fresh(notif'[J][i], cache')
    <2> SUFFICES ASSUME NEW J \in Kinds
                 PROVE  /\ Len(notif[J]) <= Len(notif'[J])
                        /\ \A i \in 1..Len(notif[J]) : notif'[J][i] = notif[J][i]
                        /\ \A i \in 1..Len(notif'[J]) : i > Len(notif[J]) => Fresh(notif'[J][i], cache')
      OBVIOUS
    <2>1. CASE J # K
      BY <1>4, <2>1
    <2>2. CASE J = K
      <3>1. \A i \in 1..Len(notif'[J]) : i > Len(notif[J]) => notif'[J][i] = e
        BY <1>4, <2>2
      <3> QED BY <1>1, <1>2, <1>4, <2>2, <3>1
    <2> QED BY <2>1, <2>2
  <1>6. \E i \in 1..Len(notif'[K]) : i > Len(notif[K]) /\ notif'[K][i].rs = r
    BY <1>1, <1>2, <1>4
  <1>7. Tells
    <2>1. /\ {r} \in SUBSET Resource /\ \A q \in Resource \ {r} : cache'[q] = cache[q]
          /\ \A q \in {r} : \E i \in 1..Len(notif'[KindOf[q]]) :
                i > Len(notif[KindOf[q]]) /\ notif'[KindOf[q]][i].rs = q
      BY <1>1, <1>6 DEF K
    <2> QED BY <1>3, <1>5, <2>1, MoreTells
  <1>8. Told(notif', r)
    BY <1>2, <1>4, <1>6 DEF Told, K
  <1> QED BY <1>1, <1>7, <1>8

(***************************************************************************)
(* The groups cover what is due, step by step.                             *)
(***************************************************************************)
LEMMA DueTypes ==
    ASSUME IInv, NEW r \in Resource, Due(r)
    PROVE  /\ cache[r] \in ContentType /\ KeyOf(cache[r]) \in GroupKey
           /\ cache[r].hosts \in Seq(Host)
           /\ cache[r] # Absent
  <1>1. cache[r] \in AnyContent /\ cache[r] # Absent
    BY DEF IInv, TypeOK, Due, checkValid
  <1>2. cache[r] \in ContentType /\ cache[r].net # None
    BY <1>1, ContentTypes DEF Due, Complete
  <1> QED BY <1>1, <1>2 DEF ContentType, KeyOf, GroupKey

LEMMA InGroupStays ==
    ASSUME IInv, NEW r \in Resource, Due(r), InGroup(r), cache'[r] = cache[r],
           groups' = groups \/ \A k \in GroupKey : Grows(groups, groups', k, r)
    PROVE  InGroup(r)'
  <1> DEFINE k == KeyOf(cache[r])
  <1>1. k \in GroupKey /\ KeyOf(cache'[r]) = k
    BY DueTypes DEF KeyOf
  <1>2. /\ SpecIndex(groups, k, r) # 0
        /\ Range(cache[r].hosts) \subseteq Range(HostsOf(SpecAt(groups, k, r)))
    BY DEF InGroup
  <1> HIDE DEF k
  <1>3. /\ SpecIndex(groups', k, r) # 0
        /\ Range(cache[r].hosts) \subseteq Range(HostsOf(SpecAt(groups', k, r)))
    BY <1>1, <1>2 DEF Grows
  <1> QED BY <1>1, <1>3 DEF InGroup

\* A step that changes neither groups nor handlers, and hears of no change.
LEMMA QuietCovers ==
    ASSUME IInv, CoverInv, Tells, UNCHANGED <<cache, groups>>,
           \A K \in Kinds : /\ h'[K].pc = "remove" => h'[K] = h[K]
                            /\ h[K].pc \in {"hosts", "enqueue"} => h'[K] = h[K],
           dirty \subseteq dirty', w.pc = "add" => w' = w
    PROVE  CoverInv'
  <1>1. Removing'
    <2> SUFFICES ASSUME NEW K \in Kinds, h'[K].pc = "remove", checkValid(cache'[h'[K].rs])
                 PROVE  Told(notif', h'[K].rs)
      BY DEF Removing
    <2>1. h'[K] = h[K] /\ h[K].rs \in Resource /\ Told(notif, h[K].rs)
      BY DEF CoverInv, Removing, IInv, Looping, Of
    <2> QED BY <2>1 DEF Tells
  <1>2. Owed'
    <2> SUFFICES ASSUME NEW r \in Resource, Due(r)' PROVE InGroup(r)' \/ Pending(r)'
      BY DEF Owed
    <2>1. Due(r) /\ KindOf[r] \in Kinds
      BY ClientAssumption DEF Due
    <2>2. InGroup(r) => InGroup(r)'
      BY <2>1, InGroupStays
    <2>3. Pending(r) => Pending(r)'
      BY <2>1 DEF Pending, Tells, Busy
    <2> QED BY <2>1, <2>2, <2>3 DEF CoverInv, Owed
  <1> QED BY <1>1, <1>2 DEF CoverInv, Tells

\* The last word on a watched resource leads to a turn of the worker, or to the loop
\* that ends in one.
LEMMA EventsCover ==
    ASSUME IInv, CoverInv, NEW K \in Kinds, OnAdd(K) \/ OnLeave(K) \/ OnUpdate(K) \/ OnOther(K)
    PROVE  CoverInv'
  <1> DEFINE e == Event(K)
  <1>1. /\ h[K].pc = "idle" /\ notif[K] # <<>> /\ e.cur # Unknown /\ Handled(K)
        /\ UNCHANGED <<cache, groups, w>> /\ dirty \subseteq dirty'
    BY DEF OnAdd, OnLeave, OnUpdate, OnOther, NextEvent, env
  <1>2. /\ Latest'
        /\ \A r \in Resource :
              Told(notif, r) => \/ Told(notif', r)
                                \/ K = KindOf[r] /\ r = e.rs /\ Fresh(e, cache)
        /\ ~Fresh(e, cache) => Told(notif', e.rs)
    BY <1>1, HandledTells DEF CoverInv
  <1>3. h \in [Kinds -> HandlerType] /\ e.rs \in Resource /\ KindOf[e.rs] = K
    BY <1>1, EventTypes DEF IInv, TypeOK, Of
  <1>4. \A J \in Kinds \ {K} : h'[J] = h[J]
    BY <1>3 DEF OnAdd, OnLeave, OnUpdate, OnOther
  <1>5. h'[K].pc = "remove" => Leaves(e) /\ h'[K].rs = e.rs
    BY <1>1, <1>3 DEF OnAdd, OnLeave, OnUpdate, OnOther, Idle
  <1>6. checkValid(e.cur) => e.rs \in dirty' \/ Busy(h'[K], e.rs)
    <2> SUFFICES ASSUME checkValid(e.cur) PROVE e.rs \in dirty' \/ Busy(h'[K], e.rs)
      OBVIOUS
    <2>1. CASE OnAdd(K)
      BY <2>1 DEF OnAdd
    <2>2. CASE OnLeave(K) \/ OnOther(K)
      BY <2>2 DEF OnLeave, OnOther, Leaves
    <2>3. CASE OnUpdate(K)
      <3>1. \/ dirty' = dirty \cup {e.rs}
            \/ \E k \in getSpec(groups, e.rs) :
                  h' = [h EXCEPT ![K] = [Idle EXCEPT !.pc = "hosts", !.rs = e.rs,
                              !.cur = e.cur, !.key = k, !.turn = 1,
                              !.end = SpecAt(groups, k, e.rs).len]]
        BY <2>3 DEF OnUpdate
      <3> HIDE DEF e
      <3>2. ASSUME NEW k, NEW n,
                   h' = [h EXCEPT ![K] = [Idle EXCEPT !.pc = "hosts", !.rs = e.rs,
                              !.cur = e.cur, !.key = k, !.turn = 1, !.end = n]]
            PROVE  Busy(h'[K], e.rs)
        BY <1>3, <3>2 DEF Busy, Idle
      <3> QED BY <3>1, <3>2
    <2> QED BY <2>1, <2>2, <2>3
  <1> HIDE DEF e
  <1>7. Removing'
    <2> SUFFICES ASSUME NEW J \in Kinds, h'[J].pc = "remove", checkValid(cache[h'[J].rs])
                 PROVE  Told(notif', h'[J].rs)
      BY <1>1 DEF Removing
    <2>1. CASE J = K
      <3>1. ~checkValid(e.cur) /\ h'[J].rs = e.rs
        BY <1>5, <2>1 DEF Leaves
      <3>2. ~Fresh(e, cache)
        BY <1>1, <3>1 DEF Fresh, checkValid
      <3> QED BY <1>2, <3>1, <3>2
    <2>2. CASE J # K
      <3>1. h'[J] = h[J] /\ h[J].rs \in Of(J) /\ Told(notif, h[J].rs)
        BY <1>4, <2>2 DEF CoverInv, Removing, IInv, Looping
      <3> QED BY <1>2, <2>2, <3>1 DEF Of
    <2> QED BY <2>1, <2>2
  <1>8. Owed'
    <2> SUFFICES ASSUME NEW r \in Resource, Due(r)' PROVE InGroup(r)' \/ Pending(r)'
      BY DEF Owed
    <2>1. Due(r) /\ KindOf[r] \in Kinds
      BY <1>1, ClientAssumption DEF Due
    <2>2. InGroup(r) => InGroup(r)'
      BY <1>1, <2>1, InGroupStays
    <2>3. Busy(h[KindOf[r]], r) => Busy(h'[KindOf[r]], r)
      BY <1>1, <1>4, <2>1 DEF Busy
    <2>4. Told(notif, r) => Told(notif', r) \/ r \in dirty' \/ Busy(h'[KindOf[r]], r)
      <3>1. SUFFICES ASSUME K = KindOf[r], r = e.rs, Fresh(e, cache)
                     PROVE  r \in dirty' \/ Busy(h'[KindOf[r]], r)
        BY <1>2
      <3>2. checkValid(e.cur)
        BY <1>1, <2>1, <3>1 DEF Fresh, Due
      <3> QED BY <1>6, <3>1, <3>2
    <2>5. Pending(r) => Pending(r)'
      BY <1>1, <2>3, <2>4 DEF Pending
    <2> QED BY <2>1, <2>2, <2>5 DEF CoverInv, Owed
  <1> QED BY <1>2, <1>7, <1>8 DEF CoverInv

\* The loop and Regroup touch the spec of a resource whose turn is still to come;
\* RemoveSpec touches one that is not watched, or of which there is more to hear.
LEMMA LoopCovers ==
    ASSUME IInv, CoverInv, NEW K \in Kinds, HostTurn(K) \/ Regroup(K) \/ Enqueue(K) \/ RemoveSpec(K)
    PROVE  CoverInv'
  <1>1. /\ h \in [Kinds -> HandlerType] /\ h[K].rs \in Of(K) /\ h[K].rs \in Resource
        /\ h[K].pc \in {"hosts", "enqueue", "remove"} /\ groups \in GroupsType /\ Distinct(groups, NamedOnce)
        /\ UNCHANGED <<cache, notif, w>> /\ dirty \subseteq dirty'
    BY DEF HostTurn, Regroup, Enqueue, RemoveSpec, IInv, TypeOK, Looping, Of, env
  <1>2. /\ \A J \in Kinds \ {K} : h'[J] = h[J]
        /\ h'[K].pc # "remove"
    <2>1. \/ h[K].pc = "hosts" /\ h' = [h EXCEPT ![K].turn = @ + 1]
          \/ \E x : h' = [h EXCEPT ![K] = x] /\ x.pc # "remove"
      <3>1. \A rs : [Idle EXCEPT !.pc = "enqueue", !.rs = rs].pc # "remove"
        BY DEF Idle
      <3>2. [Idle EXCEPT !.pc = "write"].pc # "remove" /\ Idle.pc # "remove"
        BY DEF Idle
      <3>3. CASE HostTurn(K)
        BY <3>3 DEF HostTurn
      <3>4. CASE Regroup(K)
        BY <3>1, <3>4 DEF Regroup
      <3>5. CASE RemoveSpec(K) \/ Enqueue(K)
        BY <3>2, <3>5 DEF RemoveSpec, Enqueue
      <3> QED BY <3>3, <3>4, <3>5
    <2>2. CASE h[K].pc = "hosts" /\ h' = [h EXCEPT ![K].turn = @ + 1]
      <3>1. h[K] \in HandlerType
        BY <1>1
      <3> QED BY <1>1, <2>2, <3>1 DEF HandlerType
    <2> QED BY <1>1, <2>1, <2>2
  <1>3. \/ h[K].pc = "remove"
        \/ h[K].rs \in dirty'
        \/ Busy(h'[K], h[K].rs)
    <2>1. CASE HostTurn(K)
      <3>1. h[K] \in HandlerType /\ h[K].pc = "hosts" /\ h' = [h EXCEPT ![K].turn = @ + 1]
        BY <1>1, <2>1 DEF HostTurn
      <3>2. h'[K].pc = h[K].pc /\ h'[K].rs = h[K].rs
        BY <1>1, <3>1 DEF HandlerType
      <3> QED BY <3>1, <3>2 DEF Busy
    <2>2. CASE Regroup(K)
      <3>1. h'[K].pc = "enqueue" /\ h'[K].rs = h[K].rs
        BY <1>1, <2>2 DEF Regroup, Idle
      <3> QED BY <3>1 DEF Busy
    <2>3. CASE Enqueue(K) \/ RemoveSpec(K)
      BY <2>3 DEF Enqueue, RemoveSpec
    <2> QED BY <2>1, <2>2, <2>3
  <1>4. \/ groups' = groups
        \/ \A k \in GroupKey, r \in Resource \ {h[K].rs} : Grows(groups, groups', k, r)
    <2>1. \/ groups' = groups
          \/ \E host : groups' \in removeHost(groups, h[K].rs, host)
          \/ groups' \in removeFromIPGroup(groups, h[K].rs)
      BY DEF HostTurn, Regroup, Enqueue, RemoveSpec
    <2> QED BY <1>1, <2>1, RemoveHostKeeps, RemoveSpecKeeps
  <1>5. Tells
    BY <1>1, SameNotif DEF CoverInv
  <1>6. Removing'
    <2> SUFFICES ASSUME NEW J \in Kinds, h'[J].pc = "remove", checkValid(cache[h'[J].rs])
                 PROVE  Told(notif', h'[J].rs)
      BY <1>1 DEF Removing
    <2>1. h'[J] = h[J] /\ h[J].rs \in Resource /\ Told(notif, h[J].rs)
      BY <1>2 DEF CoverInv, Removing, IInv, Looping, Of
    <2> QED BY <1>5, <2>1 DEF Tells
  <1>7. Owed'
    <2> SUFFICES ASSUME NEW r \in Resource, Due(r)' PROVE InGroup(r)' \/ Pending(r)'
      BY DEF Owed
    <2>1. Due(r) /\ KindOf[r] \in Kinds
      BY <1>1, ClientAssumption DEF Due
    <2>2. CASE r = h[K].rs
      <3>1. KindOf[r] = K
        BY <1>1, <2>2 DEF Of
      <3>2. h[K].pc = "remove" => Told(notif', r)
        BY <1>1, <2>1, <2>2 DEF CoverInv, Removing, Due
      <3> QED BY <1>3, <2>2, <3>1, <3>2 DEF Pending
    <2>3. CASE r # h[K].rs
      <3>1. InGroup(r) => InGroup(r)'
        BY <1>1, <1>4, <2>1, <2>3, InGroupStays
      <3>2. Busy(h[KindOf[r]], r) => Busy(h'[KindOf[r]], r)
        BY <1>2, <2>1, <2>3 DEF Busy
      <3>3. Pending(r) => Pending(r)'
        BY <1>1, <3>2 DEF Pending
      <3> QED BY <2>1, <3>1, <3>3 DEF CoverInv, Owed
    <2> QED BY <2>2, <2>3
  <1> QED BY <1>5, <1>6, <1>7 DEF CoverInv, Tells

\* The worker: taken from the queue, a resource is read; added as it was read, it is
\* in its group, unless it has changed since.
LEMMA WorkCovers ==
    ASSUME IInv, CoverInv, Work
    PROVE  CoverInv'
  <1>1. /\ UNCHANGED <<cache, notif>> /\ h \in [Kinds -> HandlerType]
        /\ groups \in GroupsType /\ Distinct(groups, NamedOnce) /\ w \in WorkerType
    BY DEF Work, Get, SkipIncomplete, SkipAdd, AddSpec, ReadUpdated, StoreUpdated,
           CheckUpdated, Done, env, IInv, TypeOK
  <1>2. \A K \in Kinds : h'[K].pc = h[K].pc /\ h'[K].rs = h[K].rs
    <2>1. \/ h' = h
          \/ \E own : h' = [h EXCEPT ![KindOf[w.rs]].alias = FALSE, ![KindOf[w.rs]].own = own]
      BY DEF Work, Get, SkipIncomplete, SkipAdd, AddSpec, ReadUpdated, StoreUpdated,
             CheckUpdated, Done
    <2>2. ASSUME NEW K \in Kinds, NEW J, NEW own,
                 h' = [h EXCEPT ![J].alias = FALSE, ![J].own = own]
          PROVE  h'[K].pc = h[K].pc /\ h'[K].rs = h[K].rs
      <3>1. h[K] \in HandlerType
        BY <1>1
      <3> QED BY <1>1, <2>2, <3>1 DEF HandlerType
    <2> QED BY <2>1, <2>2
  <1>3. Tells
    BY <1>1, SameNotif DEF CoverInv
  <1>4. Removing'
    <2> SUFFICES ASSUME NEW J \in Kinds, h'[J].pc = "remove", checkValid(cache[h'[J].rs])
                 PROVE  Told(notif', h'[J].rs)
      BY <1>1 DEF Removing
    <2>1. h'[J].rs = h[J].rs /\ h[J].rs \in Resource /\ Told(notif, h[J].rs)
      BY <1>2 DEF CoverInv, Removing, IInv, Looping, Of
    <2> QED BY <1>3, <2>1 DEF Tells
  <1>5. ASSUME NEW r \in Resource, Due(r) PROVE InGroup(r)' \/ Pending(r)'
    <2>1. KindOf[r] \in Kinds /\ (Busy(h[KindOf[r]], r) => Busy(h'[KindOf[r]], r))
      BY <1>2, ClientAssumption DEF Busy
    <2>2. CASE \E q \in Resource : Get(q)
      <3>1. PICK q \in Resource : Get(q)
        BY <2>2
      <3>2. InGroup(r) => InGroup(r)'
        BY <1>1, <1>5, <3>1, InGroupStays DEF Get
      <3>3. r \in dirty => r \in dirty' \/ (w'.pc = "add" /\ w'.rs = r /\ w'.c = cache'[r])
        BY <1>1, <3>1 DEF Get, Resting
      <3>4. w.pc # "add"
        BY <3>1 DEF Get
      <3>5. Pending(r) => Pending(r)'
        BY <1>1, <2>1, <3>3, <3>4 DEF Pending
      <3> QED BY <1>5, <3>2, <3>5 DEF CoverInv, Owed
    <2>3. CASE AddSpec
      <3>1. /\ w.rs \in Resource /\ w.c \in Contents[w.rs] /\ dirty' = dirty
            /\ w.c # Absent /\ Complete(w.c)
            /\ groups' = addToIPGroup(groups, KeyOf(w.c), w.rs, w.c.hosts)
        BY <2>3 DEF AddSpec, IInv, Adding
      <3>2. /\ KeyOf(w.c) \in GroupKey /\ w.c.hosts \in Seq(Host)
            /\ EachOnce(w.c.hosts, NamedOnce[w.rs])
        <4>1. w.c \in ContentType
          BY <3>1, ClientAssumption
        <4> QED BY <3>1, <4>1, NamedOnceIs DEF Complete, ContentType, KeyOf, GroupKey
      <3>3. /\ SpecIndex(groups', KeyOf(w.c), w.rs) # 0
            /\ \A j \in GroupKey, q \in Resource : Grows(groups, groups', j, q)
            /\ Range(w.c.hosts) \subseteq Range(HostsOf(SpecAt(groups', KeyOf(w.c), w.rs)))
        BY <1>1, <3>1, <3>2, AddKeeps
      <3>4. InGroup(r) => InGroup(r)'
        BY <1>1, <1>5, <3>3, InGroupStays
      <3>5. w.rs = r /\ w.c = cache[r] => InGroup(r)'
        BY <1>1, <3>3 DEF InGroup
      <3>6. Pending(r) => Pending(r)' \/ InGroup(r)'
        BY <1>1, <2>1, <3>1, <3>5 DEF Pending
      <3> QED BY <1>5, <3>4, <3>6 DEF CoverInv, Owed
    <2>4. CASE SkipIncomplete \/ SkipAdd \/ ReadUpdated \/ StoreUpdated \/ CheckUpdated \/ Done
      <3>1. dirty' = dirty /\ groups' = groups
        BY <2>4 DEF SkipIncomplete, SkipAdd, ReadUpdated, StoreUpdated, CheckUpdated, Done
      <3>2. ~(w.pc = "add" /\ w.rs = r /\ w.c = cache[r])
        BY <1>5, <2>4 DEF SkipIncomplete, SkipAdd, ReadUpdated, StoreUpdated, CheckUpdated, Done,
           Due, Complete, checkValid
      <3>3. InGroup(r) => InGroup(r)'
        BY <1>1, <1>5, <3>1, InGroupStays
      <3>4. Pending(r) => Pending(r)'
        BY <1>1, <2>1, <3>1, <3>2 DEF Pending
      <3> QED BY <1>5, <3>3, <3>4 DEF CoverInv, Owed
    <2> QED BY <2>2, <2>3, <2>4 DEF Work
  <1>6. Owed'
    BY <1>1, <1>5 DEF Owed, Due
  <1> QED BY <1>3, <1>4, <1>6 DEF CoverInv, Tells

\* The writes, the controller's end, and what the informers notify of again
LEMMA OthersCover ==
    ASSUME IInv, IInv', CoverInv,
           \/ Wake \/ Deliver \/ Timeout \/ CtlProcessed
           \/ \E p \in Senders : BeginWrite(p)
           \/ \E r \in Resource : Resync(r)
           \/ CtlAnnotate /\ ~NoFirstHost
    PROVE  CoverInv'
  <1>1. UNCHANGED <<cache, groups, dirty>>
    BY DEF Wake, Deliver, Timeout, EndWrite, CtlProcessed, BeginWrite, Resync, CtlAnnotate, env
  <1>2. Tells
    <2>1. notif' = notif \/ \E S : NotifySame(S)
      BY DEF Wake, Deliver, Timeout, EndWrite, CtlProcessed, BeginWrite, Resync, CtlAnnotate
    <2> QED BY <1>1, <2>1, SameNotif, SameTells DEF CoverInv
  <1>3. \/ h' = h /\ w' = w
        \/ \E p \in Senders : Writing(p) /\ Returns(p)
    <2>1. CASE Deliver \/ Timeout
      BY <2>1 DEF Deliver, Timeout, EndWrite, IInv, TypeOK, Sending
    <2>2. CASE ~(Deliver \/ Timeout)
      BY <2>2 DEF Wake, CtlProcessed, BeginWrite, Resync, CtlAnnotate
    <2> QED BY <2>1, <2>2
  <1>4. /\ \A K \in Kinds : /\ h'[K].pc = "remove" => h'[K] = h[K]
                            /\ h[K].pc \in {"hosts", "enqueue"} => h'[K] = h[K]
        /\ w.pc = "add" => w' = w
    <2> SUFFICES ASSUME NEW p \in Senders, Writing(p), Returns(p)
                 PROVE  /\ \A K \in Kinds : /\ h'[K].pc = "remove" => h'[K] = h[K]
                                            /\ h[K].pc \in {"hosts", "enqueue"} => h'[K] = h[K]
                        /\ w.pc = "add" => w' = w
      BY <1>3
    <2>1. h \in [Kinds -> HandlerType]
      BY DEF IInv, TypeOK
    <2>2. \A K \in Kinds : h'[K] = h[K] \/ (h[K].pc = "write" /\ h'[K] = Idle)
      BY <2>1, WritingIs DEF Returns
    <2>3. w.pc = "add" => w' = w
      BY WritingIs DEF Returns
    <2> QED BY <2>2, <2>3 DEF Idle
  <1> QED BY <1>1, <1>2, <1>4, QuietCovers

\* A resource that changes is heard of.
LEMMA EditCovers ==
    ASSUME IInv, IInv', CoverInv, NEW r \in Resource, Edit(r)
    PROVE  CoverInv'
  <1>1. UNCHANGED <<h, dirty, w, groups>>
    BY DEF Edit, Change, DeleteUnseen
  <1>2. /\ Tells /\ Told(notif', r)
        /\ \A q \in Resource \ {r} : cache'[q] = cache[q]
    BY EditTells DEF CoverInv
  <1>3. Removing'
    <2> SUFFICES ASSUME NEW K \in Kinds, h[K].pc = "remove", checkValid(cache'[h[K].rs])
                 PROVE  Told(notif', h[K].rs)
      BY <1>1 DEF Removing
    <2>1. h[K].rs \in Resource
      BY DEF IInv, Looping, Of
    <2> QED BY <1>2, <2>1 DEF CoverInv, Removing, Tells
  <1>4. Owed'
    <2> SUFFICES ASSUME NEW q \in Resource, Due(q)' PROVE InGroup(q)' \/ Pending(q)'
      BY DEF Owed
    <2>1. CASE q = r
      BY <1>2, <2>1 DEF Pending
    <2>2. CASE q # r
      <3>1. cache'[q] = cache[q] /\ Due(q)
        BY <1>2, <2>2 DEF Due
      <3>2. InGroup(q) => InGroup(q)'
        BY <1>1, <3>1, InGroupStays
      <3>3. Pending(q) => Pending(q)'
        BY <1>1, <1>2, <3>1 DEF Pending, Tells
      <3> QED BY <3>1, <3>2, <3>3 DEF CoverInv, Owed
    <2> QED BY <2>1, <2>2
  <1> QED BY <1>2, <1>3, <1>4 DEF CoverInv, Tells

\* After a start the informers notify of every resource there is.
LEMMA ListedCovers ==
    ASSUME IInv, notif = Listed, h = [K \in Kinds |-> Idle]
    PROVE  CoverInv
  <1>1. Latest
    BY ListedFresh DEF Latest, LatestOf, Fresh
  <1>2. Removing
    BY DEF Removing, Idle
  <1>3. Owed
    BY DueTypes, ListedAll DEF Owed, Pending, Told
  <1> QED BY <1>1, <1>2, <1>3 DEF CoverInv

LEMMA RebootCovers ==
    ASSUME IInv', Reboot
    PROVE  CoverInv'
  <1>1. notif' = Listed' /\ h' = [K \in Kinds |-> Idle]
    BY DEF Reboot, Listed
  <1>2. (IInv /\ notif = Listed /\ h = [K \in Kinds |-> Idle] => CoverInv)'
    BY ListedCovers, PTL
  <1> QED BY <1>1, <1>2

LEMMA StepCovers == IInv /\ IInv' /\ CoverInv /\ [Next]_vars => CoverInv'
  <1> SUFFICES ASSUME IInv, IInv', CoverInv, [Next]_vars PROVE CoverInv'
    OBVIOUS
  <1>1. CASE \E K \in Kinds : Handle(K)
    BY <1>1, EventsCover, LoopCovers, RebootCovers DEF Handle, OnUnknown
  <1>2. CASE Work
    BY <1>2, WorkCovers
  <1>3. CASE \E r \in Resource : Resync(r) \/ Edit(r)
    BY <1>3, OthersCover, EditCovers
  <1>4. CASE (\E p \in Senders : BeginWrite(p)) \/ Wake \/ Deliver \/ Timeout \/ CtlProcessed
    BY <1>4, OthersCover
  <1>5. CASE CtlAnnotate
    BY <1>5, OthersCover, RebootCovers DEF CtlAnnotate
  <1>6. CASE Crash
    BY <1>6, RebootCovers DEF Crash
  <1>7. CASE UNCHANGED vars
    BY <1>7, SameNotif, QuietCovers DEF vars, env, chan, CoverInv
  <1> QED BY <1>1, <1>2, <1>3, <1>4, <1>5, <1>6, <1>7 DEF Next, Elsewhere

LEMMA CoverInvariant == Spec => [](IInv /\ CoverInv)
  <1>1. Init => IInv /\ CoverInv
    BY InitKeeps, ListedCovers DEF Init, Boot
  <1> QED BY <1>1, NextKeeps, StepCovers, PTL DEF Spec

LEMMA CoveredIs ==
    ASSUME IInv
    PROVE  Covered <=> \A r \in Resource : Due(r) => InGroup(r)
  <1> SUFFICES ASSUME NEW r \in Resource, Due(r)
               PROVE  r \in {s.rs : s \in Range(groups[KeyOf(cache[r])])}
                         <=> SpecIndex(groups, KeyOf(cache[r]), r) # 0
    BY DEF Covered, Due, InGroup
  <1> DEFINE k == KeyOf(cache[r])
  <1>1. k \in GroupKey /\ groups \in GroupsType
    BY DueTypes DEF IInv, TypeOK
  <1>2. groups[k] \in Seq(SpecType)
    BY <1>1 DEF GroupsType
  <1> HIDE DEF k
  <1>3. SpecIndex(groups, k, r) # 0 <=> \E j \in DOMAIN groups[k] : groups[k][j].rs = r
    BY <1>1, <1>2, SpecIndexIs
  <1> QED BY <1>3 DEF Range, k

\* However far the handlers and the worker lag behind the informers' caches, whatever
\* they remove for what a resource was, and whenever the process ends: when nothing
\* is left to be done the groups have every host of every resource that is watched
\* (the handlers of kubernetes.go, syncResource, removeHost, addToIPGroup).
THEOREM AtRestCovered == Spec => []RestCovered
  <1>1. IInv /\ CoverInv => RestCovered
    <2> SUFFICES ASSUME IInv, CoverInv, Quiet, NEW r \in Resource, Due(r)
                 PROVE  InGroup(r)
      BY CoveredIs DEF RestCovered
    <2>1. ~Pending(r)
      BY ClientAssumption DEF Quiet, Pending, Told, Busy
    <2> QED BY <2>1 DEF CoverInv, Owed
  <1> QED BY <1>1, CoverInvariant, PTL

(***************************************************************************)
(* The whole program                                                       *)
(***************************************************************************)
\* The worker is on its way to a write.
Unsent ==
    \/ w.pc = "store" /\ w.val
    \/ w.pc = "check" /\ updated
    \/ w.pc = "write"

\* What the worker added has been received, or will be sent.
Flushed == initialState /\ ~lost => Unsent \/ AllHosts(groups) \subseteq HostsSent(received)

\* Before the first send somebody is still to look whether there is one to make.
Started == initialState \/ starters.sleep + starters.wait > 0 \/ Queued # {} \/ w.pc # "get"

\* After a pass the records are those of the groups received.
Recorded == ctl # "busy" /\ received # None => names = HostsSent(received)

LEMMA HostsSentIs ==
    ASSUME NEW g \in GroupsType
    PROVE  HostsSent(Sent(g)) = AllHosts(g)
  <1>1. Sent(g) # None
    BY SentTypes, ClientAssumption
  <1>2. \A k \in GroupKey : /\ DOMAIN Sent(g)[k] = DOMAIN g[k]
                            /\ \A i \in DOMAIN g[k] : Sent(g)[k][i].hosts = HostsOf(g[k][i])
    BY DEF Sent
  <1>3. HostsSent(Sent(g)) = UNION {Range(s.hosts) : s \in UNION {Range(Sent(g)[k]) : k \in GroupKey}}
    BY <1>1 DEF HostsSent
  <1>4. \A x : x \in HostsSent(Sent(g)) <=>
               \E k \in GroupKey : \E i \in DOMAIN Sent(g)[k] : x \in Range(Sent(g)[k][i].hosts)
    <2>1. \A x : x \in HostsSent(Sent(g)) <=>
                 \E k \in GroupKey : \E s \in Range(Sent(g)[k]) : x \in Range(s.hosts)
      BY <1>3, Zenon
    <2> QED BY <2>1 DEF Range
  <1>5. \A x : x \in AllHosts(g) <=>
               \E k \in GroupKey : \E i \in DOMAIN g[k] : x \in Range(HostsOf(g[k][i]))
    BY AllHostsAre
  <1>6. ASSUME NEW x \in HostsSent(Sent(g)) PROVE x \in AllHosts(g)
    <2>1. PICK k \in GroupKey : \E i \in DOMAIN Sent(g)[k] : x \in Range(Sent(g)[k][i].hosts)
      BY <1>4
    <2>2. PICK i \in DOMAIN Sent(g)[k] : x \in Range(Sent(g)[k][i].hosts)
      BY <2>1
    <2>3. i \in DOMAIN g[k] /\ x \in Range(HostsOf(g[k][i]))
      BY <1>2, <2>2
    <2> QED BY <1>5, <2>3
  <1>7. ASSUME NEW x \in AllHosts(g) PROVE x \in HostsSent(Sent(g))
    <2>1. PICK k \in GroupKey : \E i \in DOMAIN g[k] : x \in Range(HostsOf(g[k][i]))
      BY <1>5
    <2>2. PICK i \in DOMAIN g[k] : x \in Range(HostsOf(g[k][i]))
      BY <2>1
    <2>3. i \in DOMAIN Sent(g)[k] /\ x \in Range(Sent(g)[k][i].hosts)
      BY <1>2, <2>2
    <2> QED BY <1>4, <2>3
  <1> QED BY <1>6, <1>7

LEMMA StartedKept == IInv /\ Started /\ [Next]_vars => Started'
  <1> SUFFICES ASSUME IInv, Started, [Next]_vars, ~initialState' PROVE Started'
    BY DEF Started
  <1>1. /\ starters \in [sleep : 0..MaxStarters, wait : 0..MaxStarters] /\ MaxStarters \in Nat \ {0}
        /\ starters' \in [sleep : 0..MaxStarters, wait : 0..MaxStarters]
        /\ w \in WorkerType
    BY ClientAssumption, NextKeeps DEF IInv, TypeOK
  <1>2. CASE Reboot
    BY <1>2 DEF Reboot, OneStarter, Started
  <1>3. CASE Work
    <2>1. CASE Done
      BY <1>1, <2>1 DEF Done, Started, chan
    <2>2. CASE Work /\ ~Done
      BY <1>1, <2>2 DEF Work, Get, SkipIncomplete, SkipAdd, AddSpec, ReadUpdated, StoreUpdated,
         CheckUpdated, Started, Resting, WorkerType
    <2> QED BY <1>3, <2>1, <2>2
  <1>4. CASE Wake
    BY <1>1, <1>4 DEF Wake, Started, Queued, chan
  <1>5. CASE \E p \in Senders : BeginWrite(p)
    <2>1. PICK p \in Senders : BeginWrite(p)
      BY <1>5
    <2>2. CASE UNCHANGED <<w, starters>>
      BY <2>1, <2>2 DEF BeginWrite, Started, Queued
    <2>3. CASE Queued # {} /\ Returns(p)
      <3>1. w'.rs = w.rs /\ dirty' = dirty
        BY <1>1, <2>1, <2>3 DEF BeginWrite, Returns, WorkerType
      <3> QED BY <2>3, <3>1 DEF Started, Queued
    <2> QED BY <2>1, <2>2, <2>3 DEF BeginWrite
  <1>6. CASE UNCHANGED <<w, starters, initialState>> /\ dirty \subseteq dirty'
    BY <1>6 DEF Started, Queued
  <1>7. ASSUME NEW K \in Kinds, Handle(K), ~Reboot
        PROVE  UNCHANGED <<w, starters, initialState>> /\ dirty \subseteq dirty'
    BY <1>7 DEF Handle, OnUnknown, OnAdd, OnLeave, OnUpdate, OnOther, HostTurn, Regroup, Enqueue,
       RemoveSpec, chan
  <1>8. ASSUME CtlProcessed \/ CtlAnnotate \/ (\E r \in Resource : Resync(r) \/ Edit(r)) \/ UNCHANGED vars,
               ~Reboot
        PROVE  UNCHANGED <<w, starters, initialState>> /\ dirty \subseteq dirty'
    BY <1>8 DEF CtlProcessed, CtlAnnotate, Resync, Edit, Change, DeleteUnseen, vars, chan
  <1>9. ~Deliver /\ ~Timeout
    BY DEF Deliver, Timeout, EndWrite
  <1> QED BY <1>2, <1>3, <1>4, <1>5, <1>6, <1>7, <1>8, <1>9 DEF Next, Elsewhere, Crash

\* A client that has started does not come to rest before it has sent its groups, if
\* only the empty ones, or waited for the controller in vain: a startup goroutine that
\* finds something in the queue leaves it to the worker, which starts another one
\* (processNextResource; the queue of namespaces is not considered).
THEOREM AtRestSynced == Spec => [](Quiet => initialState)
  <1>1. Init => IInv /\ Started
    BY InitKeeps DEF Init, Boot, OneStarter, Started
  <1>2. Started /\ Quiet => initialState
    BY DEF Started, Quiet, Queued
  <1> QED BY <1>1, <1>2, StartedKept, NextKeeps, PTL DEF Spec

\* What a handler takes out of the groups need not be sent, and it leaves the rest.
LEMMA HandleFlushes ==
    ASSUME IInv, NEW K \in Kinds, Handle(K), ~Reboot
    PROVE  /\ AllHosts(groups') \subseteq AllHosts(groups)
           /\ UNCHANGED <<w, chan>> /\ (updated => updated')
  <1>1. UNCHANGED <<w, chan>> /\ (updated => updated')
    BY DEF Handle, OnUnknown, OnAdd, OnLeave, OnUpdate, OnOther, HostTurn, Regroup, Enqueue,
       RemoveSpec, IInv, TypeOK
  <1>2. groups \in GroupsType /\ Distinct(groups, NamedOnce)
    BY DEF IInv, TypeOK
  <1>3. CASE HostTurn(K)
    <2>1. h[K].rs \in Resource
      BY <1>3 DEF HostTurn, IInv, Looping, Of
    <2>2. groups' = groups \/ \E host : groups' \in removeHost(groups, h[K].rs, host)
      BY <1>3 DEF HostTurn
    <2> QED BY <1>1, <1>2, <2>1, <2>2, RemoveHostKeeps
  <1>4. CASE Regroup(K) \/ RemoveSpec(K)
    <2>1. h[K].rs \in Resource /\ groups' \in removeFromIPGroup(groups, h[K].rs)
      BY <1>4 DEF Regroup, RemoveSpec, IInv, Looping, Of
    <2> QED BY <1>1, <1>2, <2>1, RemoveSpecKeeps
  <1>5. CASE ~(HostTurn(K) \/ Regroup(K) \/ RemoveSpec(K))
    <2>1. groups' = groups
      BY <1>5 DEF Handle, OnUnknown, OnAdd, OnLeave, OnUpdate, OnOther, Enqueue
    <2> QED BY <1>1, <2>1
  <1> QED BY <1>1, <1>3, <1>4, <1>5

\* The worker is on its way to a write from when it has added something.
LEMMA WorkFlushes ==
    ASSUME IInv, Work, Unsent \/ AllHosts(groups) \subseteq HostsSent(received)
    PROVE  /\ Unsent' \/ AllHosts(groups') \subseteq HostsSent(received)
           /\ received' = received
  <1>1. received' = received /\ w \in WorkerType
    BY DEF Work, Get, SkipIncomplete, SkipAdd, AddSpec, ReadUpdated, StoreUpdated, CheckUpdated,
       Done, chan, IInv, TypeOK
  <1>2. CASE AddSpec
    <2>1. ~Unsent
      BY <1>2 DEF AddSpec, Unsent
    <2>2. groups' = groups \/ (w'.pc = "store" /\ w'.val)
      BY <1>2 DEF AddSpec, Resting
    <2> QED BY <1>1, <2>1, <2>2 DEF Unsent
  <1>3. CASE StoreUpdated \/ CheckUpdated
    <2>1. groups' = groups /\ (Unsent => Unsent')
      BY <1>1, <1>3 DEF StoreUpdated, CheckUpdated, Unsent, Resting, WorkerType
    <2> QED BY <1>1, <2>1
  <1>4. CASE (\E r \in Resource : Get(r)) \/ SkipIncomplete \/ SkipAdd \/ ReadUpdated \/ Done
    <2>1. groups' = groups /\ ~Unsent
      BY <1>4 DEF Get, SkipIncomplete, SkipAdd, ReadUpdated, Done, Unsent
    <2> QED BY <1>1, <2>1
  <1> QED BY <1>2, <1>3, <1>4 DEF Work

\* The steps of the client that are not on the channel
LEMMA ElsewhereFlushes ==
    ASSUME IInv, Elsewhere, initialState',
           initialState => Unsent \/ AllHosts(groups) \subseteq HostsSent(received)
    PROVE  Unsent' \/ AllHosts(groups') \subseteq HostsSent(received')
  <1>1. ~Reboot
    BY DEF Reboot
  <1>2. CASE \E K \in Kinds : Handle(K)
    <2>1. PICK K \in Kinds : Handle(K)
      BY <1>2
    <2>2. /\ AllHosts(groups') \subseteq AllHosts(groups)
          /\ UNCHANGED <<w, chan>> /\ (updated => updated')
      BY <1>1, <2>1, HandleFlushes
    <2> QED BY <2>2 DEF Unsent, chan
  <1>3. CASE Work
    <2>1. initialState
      BY <1>3 DEF Work, Get, SkipIncomplete, SkipAdd, AddSpec, ReadUpdated, StoreUpdated,
         CheckUpdated, Done, chan
    <2>2. /\ Unsent' \/ AllHosts(groups') \subseteq HostsSent(received)
          /\ received' = received
      BY <1>3, <2>1, WorkFlushes
    <2> QED BY <2>2
  <1>4. CASE ~Work /\ ~\E K \in Kinds : Handle(K)
    <2>1. UNCHANGED <<w, updated, groups, initialState, received>>
      BY <1>1, <1>4, WritingIs DEF Elsewhere, Wake, CtlAnnotate, BeginWrite, Resync, Edit, Change,
         DeleteUnseen, Crash, chan, Returns, Senders
    <2> QED BY <2>1 DEF Unsent
  <1> QED BY <1>2, <1>3, <1>4

LEMMA FlushedKept == IInv /\ Flushed /\ [SystemNext]_svars => Flushed'
  <1> SUFFICES ASSUME IInv, Flushed, [SystemNext]_svars, initialState', ~lost'
               PROVE  Unsent' \/ AllHosts(groups') \subseteq HostsSent(received')
    BY DEF Flushed
  <1>1. CASE Hand
    <2>1. groups \in GroupsType /\ groups' = groups /\ received' = Sent(groups)
      BY <1>1 DEF Hand, Deliver, EndWrite, IInv, TypeOK
    <2> QED BY <2>1, HostsSentIs
  <1>2. CASE Own(Elsewhere)
    <2>1. Elsewhere /\ ~lost
      BY <1>2 DEF Own
    <2> QED BY <2>1, ElsewhereFlushes DEF Flushed
  <1>3. CASE Reconcile \/ EndPass \/ UNCHANGED svars
    <2>1. UNCHANGED <<w, updated, groups, initialState, received, lost>>
      BY <1>3 DEF Reconcile, EndPass, CtlProcessed, svars, vars, chan
    <2> QED BY <2>1 DEF Flushed, Unsent
  <1>4. ~GiveUp
    BY DEF GiveUp
  <1> QED BY <1>1, <1>2, <1>3, <1>4 DEF SystemNext

LEMMA RecordedKept == Recorded /\ [SystemNext]_svars => Recorded'
  <1> SUFFICES ASSUME Recorded, [SystemNext]_svars, ctl' # "busy", received' # None
               PROVE  names' = HostsSent(received')
    BY DEF Recorded
  <1>1. ~Hand /\ ~Reconcile
    BY DEF Hand, Deliver, Reconcile, IPAM!Create, IPAM!Delete, vars, chan
  <1>2. CASE GiveUp \/ UNCHANGED svars
    BY <1>2 DEF Recorded, GiveUp, Timeout, svars, vars, chan
  <1>3. CASE EndPass
    BY <1>3 DEF EndPass, CtlProcessed, IPAM!Finish
  <1>4. CASE Own(Elsewhere)
    <2>1. Elsewhere /\ names' = names /\ ~Reboot
      BY <1>4 DEF Own, Reboot
    <2>2. received' = received /\ (ctl = "busy" => ctl' = "busy")
      BY <2>1 DEF Elsewhere, Handle, OnUnknown, OnAdd, OnLeave, OnUpdate, OnOther, HostTurn,
         Regroup, Enqueue, RemoveSpec, Work, Get, SkipIncomplete, SkipAdd, AddSpec, ReadUpdated,
         StoreUpdated, CheckUpdated, Done, Wake, CtlAnnotate, BeginWrite, Resync, Edit, Change,
         DeleteUnseen, Crash, chan
    <2> QED BY <2>1, <2>2 DEF Recorded
  <1> QED BY <1>1, <1>2, <1>3, <1>4 DEF SystemNext

LEMMA SystemSteps == [SystemNext]_svars => [Next]_vars
  BY DEF SystemNext, Hand, GiveUp, Reconcile, EndPass, Own, Next, svars

\* The program with the controller and the IPAM system attached does to the client
\* nothing that the client alone could not see: what is proved of kubernetes.go and
\* orchestration.go holds of it in the whole program.
LEMMA SystemIsClient == SystemSpec => Spec
  BY SystemSteps, PTL DEF SystemSpec, SystemInit, Spec

LEMMA SystemInvariant ==
    SystemSpec => [](IInv /\ CoverInv /\ Started /\ Flushed /\ Recorded)
  <1>1. SystemInit => IInv /\ CoverInv /\ Started /\ Flushed /\ Recorded
    BY InitKeeps, ListedCovers DEF SystemInit, Init, Boot, OneStarter, Started, Flushed, Recorded
  <1> QED BY <1>1, SystemSteps, NextKeeps, StepCovers, StartedKept, FlushedKept, RecordedKept,
             PTL DEF SystemSpec

\* The records are always of hosts, whatever the passes of processIPGroups do to them
\* and whatever an earlier process left.
THEOREM SystemTypes == SystemSpec => []SystemTypeOK
  <1> DEFINE Records == names \subseteq Host /\ lost \in BOOLEAN
  <1>1. SystemInit => Records
    BY DEF SystemInit
  <1>2. Records /\ IInv /\ [SystemNext]_svars => Records'
    BY DEF SystemNext, Hand, GiveUp, Reconcile, EndPass, Own, svars, IInv, TypeOK,
       IPAM!Ask, IPAM!Create, IPAM!Delete, IPAM!Finish
  <1>3. IInv /\ Records => SystemTypeOK
    BY DEF IInv, SystemTypeOK
  <1> QED BY <1>1, <1>2, <1>3, SystemInvariant, PTL DEF SystemSpec

\* When the client has nothing left to do and the controller waits in its select, every
\* host of every watched resource has a record, unless the last send timed out
\* (syncResource, writeIPGroups, processNextResource; the pass of processIPGroups as
\* module Reconciler has it).
THEOREM AtRestServed == SystemSpec => []RestServed
  <1>1. ASSUME IInv, CoverInv, Started, Flushed, Recorded, Quiet, ctl = "select", ~lost
        PROVE  Wanted \subseteq names
    <2>1. AllHosts(groups) \subseteq HostsSent(received)
      BY <1>1 DEF Started, Flushed, Unsent, Quiet, Queued
    <2> SUFFICES ASSUME NEW r \in Resource, Due(r), NEW x \in Range(cache[r].hosts)
                 PROVE  x \in names
      BY DEF Wanted, Due
    <2>2. ~Pending(r)
      BY <1>1, ClientAssumption DEF Quiet, Pending, Told, Busy
    <2>3. InGroup(r)
      BY <1>1, <2>2 DEF CoverInv, Owed
    <2> DEFINE k == KeyOf(cache[r])
               i == SpecIndex(groups, k, r)
    <2>4. k \in GroupKey /\ groups \in GroupsType
      BY <1>1, DueTypes DEF IInv, TypeOK
    <2>5. i # 0 /\ x \in Range(HostsOf(groups[k][i]))
      BY <2>3 DEF InGroup, SpecAt
    <2> HIDE DEF k
    <2>6. i \in DOMAIN groups[k]
      BY <2>4, <2>5, SpecIndexIs DEF GroupsType
    <2> HIDE DEF i
    <2>7. x \in AllHosts(groups)
      BY <2>4, <2>5, <2>6, AllHostsAre
    <2>8. received # None
      BY <2>1, <2>7 DEF HostsSent
    <2> QED BY <1>1, <2>1, <2>7, <2>8 DEF Recorded
  <1>2. IInv /\ CoverInv /\ Started /\ Flushed /\ Recorded => RestServed
    BY <1>1 DEF RestServed
  <1> QED BY <1>2, SystemInvariant, PTL
=============================================================================
