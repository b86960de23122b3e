--------------------------- MODULE IPGroupsProofs ---------------------------
(***************************************************************************)
(* What the operations on the groups preserve: the types, that a resource  *)
(* has one spec in a group and a spec no host twice that the resource does *)
(* not name twice, and, for a handler that loops over a spec, that the     *)
(* spec and the cells of its array stay.                                   *)
(***************************************************************************)
EXTENDS IPGroups, WellFoundedInduction, SequenceTheorems, TLAPS

\* A set of naturals has a least element.
LEMMA LeastNatural ==
    ASSUME NEW T \in SUBSET Nat, T # {}
    PROVE  \E x \in T : \A y \in T : x <= y
  <1> DEFINE R == OpToRel(<, Nat)
  <1>1. \A a, b \in Nat : a < b => <<a, b>> \in R
    BY Zenon DEF OpToRel
  <1>2. IsWellFoundedOn(R, Nat)
    BY NatLessThanWellFounded, Zenon
  <1> HIDE DEF R
  <1>3. PICK x \in T : \A y \in T : ~(<<y, x>> \in R)
    BY <1>2, WFMin, Zenon
  <1>4. \A y \in T : y \in Nat /\ x \in Nat
    OBVIOUS
  <1>5. \A y \in T : ~(y < x)
    BY <1>1, <1>3, <1>4, Zenon
  <1> QED BY <1>4, <1>5
\* Induction over the naturals, for a set: the library's theorem is about an operator,
\* which none of the provers can instantiate.
LEMMA SetInduction == 
    ASSUME NEW S, 0 \in S, \A n \in Nat : n \in S => n + 1 \in S
    PROVE  Nat \subseteq S
  <1> SUFFICES ASSUME Nat \ S # {} PROVE FALSE
     OBVIOUS
  <1>1. PICK x \in Nat \ S : \A y \in Nat \ S : x <= y
    BY LeastNatural
  <1>2. x - 1 \in Nat /\ x - 1 \in S
     BY <1>1
  <1> QED BY <1>1, <1>2

\* The loop of addToIPGroup (orchestration.go:60-65), turn by turn: the recursive
\* function in WithHosts exists, and its values are sequences of hosts.
LEMMA WithHostsLoop ==
    ASSUME NEW old \in Seq(Host), NEW new \in Seq(Host)
    PROVE  \E with \in [0..Len(new) -> Seq(Host)] :
             /\ with[0] = old /\ WithHosts(old, new) = with[Len(new)]
             /\ \A i \in 1..Len(new) :
                   with[i] = IF new[i] \in Range(with[i-1]) THEN with[i - 1]
                             ELSE Append(with[i - 1], new[i])
  <1> DEFINE Turn(l, i) == IF new[i] \in Range(l) THEN l ELSE Append(l, new[i])
             Body(f, i) == IF i = 0 THEN old ELSE Turn(f[i - 1], i)
             P(n) == \E f \in [0..n -> Seq(Host)] : \A i \in 0..n : f[i] = Body(f, i)
             T == {n \in Nat : n <= Len(new) => P(n)}
  <1>0. Len(new) \in Nat /\ \A i \in 1..Len(new) : new[i] \in Host
    OBVIOUS
  <1>1. \A l \in Seq(Host), i \in 1..Len(new) : Turn(l, i) \in Seq(Host)
    BY <1>0
  <1> HIDE DEF Turn
  <1>2. 0 \in T
    <2> DEFINE f == [i \in 0..0 |-> old]
    <2>1. f \in [0..0 -> Seq(Host)] /\ \A i \in 0..0 : f[i] = Body(f, i)
      OBVIOUS
    <2> QED BY <2>1
  <1>3. ASSUME NEW n \in Nat, n \in T PROVE n + 1 \in T
    <2> HIDE DEF P
    <2> SUFFICES ASSUME n + 1 <= Len(new) PROVE P(n + 1)
      OBVIOUS
    <2>0. P(n)
      BY <1>0, <1>3
    <2> USE DEF P
    <2>1. PICK g \in [0..n -> Seq(Host)] : \A i \in 0..n : g[i] = Body(g, i)
      BY <2>0
    <2> DEFINE f == [i \in 0..n + 1 |-> IF i <= n THEN g[i] ELSE Turn(g[n], n + 1)]
    <2>2. f \in [0..n + 1 -> Seq(Host)]
      BY <1>0, <1>1, <2>1
    <2>3. \A i \in 0..n + 1 : f[i] = Body(f, i)
      <3> SUFFICES ASSUME NEW i \in 0..n + 1 PROVE f[i] = Body(f, i)
        OBVIOUS
      <3>1. CASE i = n + 1
        <4>1. f[i - 1] = g[n]
          BY <3>1
        <4> QED BY <3>1, <4>1
      <3>2. CASE i = 0
        BY <2>1, <3>2
      <3>3. CASE i \in 1..n
        <4>1. f[i - 1] = g[i - 1]
          BY <3>3
        <4> QED BY <2>1, <3>3, <4>1
      <3> QED BY <3>1, <3>2, <3>3
    <2> QED BY <2>2, <2>3
  <1>4. Len(new) \in T
    <2> HIDE DEF T
    <2> QED BY <1>0, <1>2, <1>3, SetInduction
  <1>5. PICK f \in [0..Len(new) -> Seq(Host)] : \A i \in 0..Len(new) : f[i] = Body(f, i)
    BY <1>0, <1>4
  <1>6. f = [i \in 0..Len(new) |-> Body(f, i)]
    BY <1>5
  <1> DEFINE W == CHOOSE w : w = [i \in 0..Len(new) |-> Body(w, i)]
  <1>7. W = [i \in 0..Len(new) |-> Body(W, i)]
    BY <1>6
  <1>8. WithHosts(old, new) = W[Len(new)]
    BY DEF WithHosts, Turn
  <1> DEFINE U == {n \in Nat : n <= Len(new) => W[n] \in Seq(Host)}
  <1> HIDE DEF W
  <1>9. 0 \in U
    BY <1>0, <1>7
  <1>10. ASSUME NEW n \in Nat, n \in U PROVE n + 1 \in U
    <2> SUFFICES ASSUME n + 1 <= Len(new) PROVE W[n + 1] \in Seq(Host)
      OBVIOUS
    <2>1. W[n + 1] = Turn(W[n], n + 1)
      BY <1>0, <1>7
    <2> QED BY <1>0, <1>1, <1>10, <2>1
  <1>11. Nat \subseteq U
    <2> HIDE DEF U
    <2> QED BY <1>9, <1>10, SetInduction
  <1>12. W \in [0..Len(new) -> Seq(Host)]
    BY <1>0, <1>7, <1>11
  <1>13. W[0] = old
    BY <1>0, <1>7
  <1>14. \A i \in 1..Len(new) : W[i] = Turn(W[i - 1], i)
    BY <1>0, <1>7
  <1> QED BY <1>8, <1>12, <1>13, <1>14 DEF Turn

\* The loop keeps the hosts that were there and their order, adds the new ones, and
\* repeats none.
LEMMA WithHostsIs ==
    ASSUME NEW old \in Seq(Host), NEW new \in Seq(Host)
    PROVE  LET live == WithHosts(old, new)
           IN  /\ live \in Seq(Host) /\ Len(live) >= Len(old)
               /\ \A x \in Host : Once(old, x) => Once(live, x)
               /\ Range(live) = Range(old) \cup Range(new)
  <1>1. PICK with \in [0..Len(new) -> Seq(Host)] :
             /\ with[0] = old /\ WithHosts(old, new) = with[Len(new)]
             /\ \A i \in 1..Len(new) :
                   with[i] = IF new[i] \in Range(with[i-1]) THEN with[i - 1]
                             ELSE Append(with[i - 1], new[i])
    BY WithHostsLoop
  <1> DEFINE Good(l, n) == /\ l \in Seq(Host) /\ Len(l) >= Len(old)
                           /\ \A x \in Host : Once(old, x) => Once(l, x)
                           /\ Range(l) = Range(old) \cup {new[i] : i \in 1..n}
             T == {n \in Nat : n <= Len(new) => Good(with[n], n)}
  <1>2. Len(new) \in Nat /\ \A i \in 1..Len(new) : new[i] \in Host
    OBVIOUS
  <1>3. Good(old, 0)
    OBVIOUS
  <1>4. ASSUME NEW n \in Nat, n + 1 <= Len(new), NEW l, Good(l, n), NEW e, e = new[n + 1]
        PROVE  Good(IF e \in Range(l) THEN l ELSE Append(l, e), n + 1)
    <2>0. e \in Host /\ {new[i] : i \in 1..n + 1} = {new[i] : i \in 1..n} \cup {e}
      BY <1>2, <1>4
    <2> SUFFICES ASSUME e \notin Range(l) PROVE Good(Append(l, e), n + 1)
      BY <1>4, <2>0
    <2>1. Append(l, e) \in Seq(Host) /\ Len(Append(l, e)) = Len(l) + 1
      BY <1>4, <2>0
    <2>2. /\ \A i \in 1..Len(l) : Append(l, e)[i] = l[i] /\ l[i] # e
          /\ Append(l, e)[Len(l) + 1] = e
      BY <1>4, <2>0 DEF Range
    <2>3. ASSUME NEW x, Once(l, x) PROVE Once(Append(l, e), x)
      <3> SUFFICES ASSUME NEW a \in DOMAIN Append(l, e), NEW b \in DOMAIN Append(l, e),
                          Append(l, e)[a] = x, Append(l, e)[b] = x
                   PROVE  a = b
        BY Zenon DEF Once
      <3>1. a \in 1..Len(l) + 1 /\ b \in 1..Len(l) + 1 /\ Len(l) \in Nat /\ DOMAIN l = 1..Len(l)
        BY <1>4, <2>1
      <3>2. CASE a \in 1..Len(l) /\ b \in 1..Len(l)
        BY <2>2, <2>3, <3>1, <3>2 DEF Once
      <3>3. CASE a = Len(l) + 1 \/ b = Len(l) + 1
        BY <2>2, <3>1, <3>3
      <3> QED BY <3>1, <3>2, <3>3
    <2>4. Range(Append(l, e)) = Range(l) \cup {e}
      <3>1. DOMAIN Append(l, e) = 1..Len(l) + 1 /\ DOMAIN l = 1..Len(l) /\ Len(l) \in Nat
        BY <1>4, <2>1
      <3> QED BY <2>2, <3>1 DEF Range
    <2> QED BY <1>4, <2>0, <2>1, <2>3, <2>4
  <1> HIDE DEF Good
  <1>5. 0 \in T
    BY <1>1, <1>3
  <1>6. ASSUME NEW n \in Nat, n \in T PROVE n + 1 \in T
    <2> SUFFICES ASSUME n + 1 <= Len(new) PROVE Good(with[n + 1], n + 1)
      OBVIOUS
    <2>1. /\ n + 1 \in 1..Len(new) /\ Good(with[n], n)
          /\ with[n + 1] = IF new[n + 1] \in Range(with[n]) THEN with[n]
                           ELSE Append(with[n], new[n + 1])
      BY <1>1, <1>2, <1>6
    <2> QED BY <1>2, <1>4, <2>1
  <1>7. Len(new) \in T
    <2> HIDE DEF T
    <2> QED BY <1>2, <1>5, <1>6, SetInduction
  <1>8. Range(new) = {new[i] : i \in 1..Len(new)}
    BY DEF Range
  <1> QED BY <1>1, <1>2, <1>7, <1>8 DEF Good

\* SelectInSeq finds the first spec of the resource.
LEMMA SpecIndexIs ==
    ASSUME NEW g \in GroupsType, NEW k \in GroupKey, NEW rs
    PROVE  LET i == SpecIndex(g, k, rs)
           IN  \/ i = 0 /\ \A j \in DOMAIN g[k] : g[k][j].rs # rs
               \/ /\ i \in DOMAIN g[k] /\ g[k][i].rs = rs /\ g[k][i] \in SpecType
                  /\ \A j \in DOMAIN g[k] : g[k][j].rs = rs => i <= j
  <1> DEFINE I == {i \in 1..Len(g[k]) : g[k][i].rs = rs}
  <1>1. g[k] \in Seq(SpecType) /\ DOMAIN g[k] = 1..Len(g[k]) /\ Len(g[k]) \in Nat
    BY DEF GroupsType
  <1>2. SpecIndex(g, k, rs) = IF I # {} THEN Min(I) ELSE 0
    BY Zenon DEF SpecIndex, SelectInSeq
  <1>3. ASSUME I # {} PROVE Min(I) \in I /\ \A j \in I : Min(I) <= j
    <2>1. I \in SUBSET Nat
      BY <1>1
    <2> HIDE DEF I
    <2>2. \E i \in I : \A j \in I : i <= j
      BY <1>3, <2>1, LeastNatural
    <2> QED BY <2>2 DEF Min
  <1>4. CASE I = {}
    BY <1>1, <1>2, <1>4
  <1>5. CASE I # {}
    <2>1. /\ SpecIndex(g, k, rs) \in 1..Len(g[k]) /\ g[k][SpecIndex(g, k, rs)].rs = rs
          /\ \A j \in I : SpecIndex(g, k, rs) <= j
      BY <1>2, <1>3, <1>5
    <2> QED BY <1>1, <2>1
  <1> QED BY <1>4, <1>5

\* S[rs]: hosts that no version of the resource rs names twice.
EachOnce(hosts, X) == \A x \in X \cap Host : Once(hosts, x)

Clean(s, S) == EachOnce(HostsOf(s), S[s.rs])

OneEach(specs) == \A i, j \in DOMAIN specs : specs[i].rs = specs[j].rs => i = j

Distinct(g, S) ==
    \A k \in GroupKey : OneEach(g[k]) /\ \A i \in DOMAIN g[k] : Clean(g[k][i], S)

\* A spec t in the place of s is still good for whoever loops over s.
Follows(t, s) ==
    /\ t \in SpecType /\ t.rs = s.rs /\ Len(t.arr) >= Len(s.arr)
    /\ \A x \in Host : Once(HostsOf(s), x) => Once(HostsOf(t), x)

Keeps(g, g2, k, rs) ==
    SpecIndex(g, k, rs) # 0 =>
       /\ SpecIndex(g2, k, rs) # 0
       /\ Len(SpecAt(g2, k, rs).arr) >= Len(SpecAt(g, k, rs).arr)

SamePlace(g, g2, k, rs) ==
    SpecIndex(g, k, rs) # 0 => SpecIndex(g2, k, rs) = SpecIndex(g, k, rs)

Grows(g, g2, k, rs) ==
    SpecIndex(g, k, rs) # 0 =>
       /\ SpecIndex(g2, k, rs) # 0
       /\ Range(HostsOf(SpecAt(g, k, rs))) \subseteq Range(HostsOf(SpecAt(g2, k, rs)))

\* The hosts of all specs.
AllHosts(g) == UNION {Range(HostsOf(s)) : s \in UNION {Range(g[k]) : k \in GroupKey}}

LEMMA AllHostsAre ==
    ASSUME NEW g, NEW x
    PROVE  x \in AllHosts(g) <=> \E k \in GroupKey : \E i \in DOMAIN g[k] : x \in Range(HostsOf(g[k][i]))
  BY DEF AllHosts, Range

\* A resource's only spec in a group is the one that SpecAt finds.
LEMMA TheSpec ==
    ASSUME NEW g \in GroupsType, NEW k \in GroupKey, OneEach(g[k]), NEW i \in DOMAIN g[k]
    PROVE  /\ SpecIndex(g, k, g[k][i].rs) = i /\ i # 0
           /\ SpecAt(g, k, g[k][i].rs) = g[k][i]
  <1>1. DOMAIN g[k] = 1..Len(g[k]) /\ Len(g[k]) \in Nat
    BY DEF GroupsType
  <1> QED BY <1>1, SpecIndexIs DEF OneEach, SpecAt

\* Groups in which some specs have been replaced by others that follow them.
Replacing(g, g2) ==
    /\ g2 = [k \in GroupKey |-> g2[k]]
    /\ \A k \in GroupKey :
          \/ g2[k] = g[k]
          \/ \E i \in DOMAIN g[k], t \in SpecType :
                g2[k] = [g[k] EXCEPT ![i] = t] /\ Follows(t, g[k][i])

LEMMA Replaced ==
    ASSUME NEW S, NEW g \in GroupsType, NEW g2, Replacing(g, g2)
    PROVE  /\ g2 \in GroupsType
           /\ Distinct(g, S) =>
                 /\ Distinct(g2, S)
                 /\ \A k \in GroupKey, rs \in Resource : Keeps(g, g2, k, rs) /\ SamePlace(g, g2, k, rs)
  <1>1. \A k \in GroupKey : /\ g[k] \in Seq(SpecType) /\ DOMAIN g[k] = 1..Len(g[k])
                            /\ Len(g[k]) \in Nat
    BY DEF GroupsType
  <1>2. ASSUME NEW k \in GroupKey
        PROVE  /\ g2[k] \in Seq(SpecType) /\ DOMAIN g2[k] = DOMAIN g[k]
               /\ \A i \in DOMAIN g[k] : g2[k][i] = g[k][i] \/ Follows(g2[k][i], g[k][i])
    <2>1. CASE g2[k] = g[k]
      BY <1>1, <2>1
    <2>2. ASSUME NEW i \in DOMAIN g[k], NEW t \in SpecType,
                 g2[k] = [g[k] EXCEPT ![i] = t] /\ Follows(t, g[k][i])
          PROVE  /\ g2[k] \in Seq(SpecType) /\ DOMAIN g2[k] = DOMAIN g[k]
                 /\ \A j \in DOMAIN g[k] : g2[k][j] = g[k][j] \/ Follows(g2[k][j], g[k][j])
      BY <1>1, <2>2
    <2> QED BY <2>1, <2>2 DEF Replacing
  <1>3. g2 \in GroupsType
    BY <1>2 DEF GroupsType, Replacing
  <1>4. ASSUME Distinct(g, S) PROVE Distinct(g2, S)
    <2> SUFFICES ASSUME NEW k \in GroupKey
                 PROVE  OneEach(g2[k]) /\ \A i \in DOMAIN g2[k] : Clean(g2[k][i], S)
      BY DEF Distinct
    <2>1. OneEach(g[k]) /\ \A i \in DOMAIN g[k] : Clean(g[k][i], S)
      BY <1>4 DEF Distinct
    <2>2. OneEach(g2[k])
      BY <1>2, <2>1 DEF OneEach, Follows
    <2>3. \A i \in DOMAIN g2[k] : Clean(g2[k][i], S)
      BY <1>2, <2>1 DEF Follows, Clean, EachOnce
    <2> QED BY <2>2, <2>3
  <1>5. ASSUME Distinct(g, S), NEW k \in GroupKey, NEW rs \in Resource, SpecIndex(g, k, rs) # 0
        PROVE  /\ SpecIndex(g2, k, rs) # 0
               /\ Len(SpecAt(g2, k, rs).arr) >= Len(SpecAt(g, k, rs).arr)
               /\ SpecIndex(g2, k, rs) = SpecIndex(g, k, rs)
    <2> DEFINE i == SpecIndex(g, k, rs)
    <2>1. i \in DOMAIN g[k] /\ g[k][i].rs = rs /\ g[k][i] \in SpecType
      BY <1>5, SpecIndexIs
    <2>a. \A t, s : Follows(t, s) => t.rs = s.rs /\ Len(t.arr) >= Len(s.arr)
      BY DEF Follows
    <2>2. i \in DOMAIN g2[k] /\ g2[k][i].rs = rs /\ Len(g2[k][i].arr) >= Len(g[k][i].arr)
      <3>1. Len(g[k][i].arr) \in Nat
        BY <2>1 DEF SpecType
      <3> HIDE DEF i
      <3> QED BY <1>2, <2>1, <2>a, <3>1
    <2>3. OneEach(g2[k])
      BY <1>4, <1>5 DEF Distinct
    <2> HIDE DEF i
    <2>4. SpecIndex(g2, k, rs) = i /\ i # 0 /\ SpecAt(g2, k, rs) = g2[k][i]
      BY <1>3, <2>2, <2>3, TheSpec
    <2> QED BY <2>2, <2>4 DEF SpecAt, i
  <1> QED BY <1>3, <1>4, <1>5 DEF Keeps, SamePlace

LEMMA HostsAre ==
    ASSUME NEW s \in SpecType
    PROVE  /\ HostsOf(s) \in Seq(Host) /\ Len(HostsOf(s)) = s.len /\ DOMAIN HostsOf(s) = 1..s.len
           /\ \A i \in 1..s.len : HostsOf(s)[i] = s.arr[i]
           /\ s.len \in Nat /\ Len(s.arr) \in Nat /\ s.len <= Len(s.arr) /\ s.arr \in Seq(Host)
           /\ DOMAIN s.arr = 1..Len(s.arr)
  <1>1. s.len \in Nat /\ s.arr \in Seq(Host) /\ s.len <= Len(s.arr)
    BY DEF SpecType
  <1>2. \A i \in 1..s.len : s.arr[i] \in Host
    BY <1>1
  <1>3. /\ HostsOf(s) \in Seq(Host) /\ Len(HostsOf(s)) = s.len
        /\ \A i \in 1..s.len : HostsOf(s)[i] = s.arr[i]
    BY <1>1, <1>2, SubSeqProperties DEF HostsOf
  <1> QED BY <1>1, <1>3

\* What addToIPGroup makes of a spec that is there already.
LEMMA Extended ==
    ASSUME NEW s \in SpecType, NEW hosts \in Seq(Host), NEW t,
           NEW live, live = WithHosts(HostsOf(s), hosts),
           t = [s EXCEPT !.arr = live \o SubSeq(s.arr, Len(live) + 1, Len(s.arr)),
                         !.len = Len(live)]
    PROVE  Follows(t, s) /\ Range(HostsOf(t)) = Range(HostsOf(s)) \cup Range(hosts)
  <1> DEFINE rest == SubSeq(s.arr, Len(live) + 1, Len(s.arr))
  <1>1. HostsOf(s) \in Seq(Host) /\ s.arr \in Seq(Host) /\ Len(s.arr) \in Nat
    BY HostsAre
  <1>2. /\ live \in Seq(Host) /\ Len(live) \in Nat
        /\ \A x \in Host : Once(HostsOf(s), x) => Once(live, x)
        /\ Range(live) = Range(HostsOf(s)) \cup Range(hosts)
    BY <1>1, WithHostsIs
  <1>3. t = [s EXCEPT !.arr = live \o rest, !.len = Len(live)]
    OBVIOUS
  <1>4. /\ rest \in Seq(Host)
        /\ Len(rest) \in Nat /\ Len(live) + Len(rest) >= Len(s.arr)
    <2>1. \A i \in Len(live) + 1..Len(s.arr) : s.arr[i] \in Host
      BY <1>1, <1>2
    <2>2. /\ rest \in Seq(Host)
          /\ Len(rest) = IF Len(live) + 1 <= Len(s.arr)
                         THEN Len(s.arr) - (Len(live) + 1) + 1 ELSE 0
      BY <1>1, <1>2, <2>1, SubSeqProperties
    <2> QED BY <1>1, <1>2, <2>2
  <1> HIDE DEF rest
  <1>5. /\ live \o rest \in Seq(Host) /\ Len(live \o rest) = Len(live) + Len(rest)
        /\ \A i \in 1..Len(live) : (live \o rest)[i] = live[i]
    BY <1>2, <1>4, ConcatProperties
  <1>6. /\ t.rs = s.rs /\ t.arr = live \o rest /\ t.len = Len(live)
        /\ t = [rs |-> s.rs, arr |-> live \o rest, len |-> Len(live)]
        /\ s.rs \in Resource
    BY <1>3 DEF SpecType
  <1>7. t \in SpecType /\ Len(t.arr) >= Len(s.arr)
    <2>1. Len(live \o rest) >= Len(live) /\ Len(live \o rest) >= Len(s.arr)
      BY <1>1, <1>2, <1>4, <1>5
    <2> QED BY <1>2, <1>5, <1>6, <2>1 DEF SpecType
  <1>8. HostsOf(t) = live
    <2>1. /\ HostsOf(t) \in Seq(Host) /\ Len(HostsOf(t)) = t.len
          /\ \A i \in 1..t.len : HostsOf(t)[i] = t.arr[i]
      BY <1>7, HostsAre
    <2>2. \A i \in 1..Len(live) : HostsOf(t)[i] = live[i]
      BY <1>5, <1>6, <2>1
    <2> QED BY <1>2, <1>6, <2>1, <2>2, SeqEqual
  <1> QED BY <1>2, <1>6, <1>7, <1>8 DEF Follows

\* What removeHost makes of a spec with the host.
LEMMA CellRemoved ==
    ASSUME NEW s \in SpecType, NEW host \in Range(HostsOf(s))
    PROVE  /\ Follows(WithoutHost(s, host), s)
           /\ Range(HostsOf(WithoutHost(s, host))) \subseteq Range(HostsOf(s))
  <1> DEFINE I == {i \in 1..Len(s.arr) : s.arr[i] = host}
             j == SelectInSeq(s.arr, LAMBDA x : x = host)
             t == WithoutHost(s, host)
  <1>1. /\ HostsOf(s) \in Seq(Host) /\ DOMAIN HostsOf(s) = 1..s.len
        /\ \A i \in 1..s.len : HostsOf(s)[i] = s.arr[i]
        /\ s.len \in Nat /\ Len(s.arr) \in Nat /\ s.len <= Len(s.arr) /\ s.arr \in Seq(Host)
        /\ DOMAIN s.arr = 1..Len(s.arr)
    BY HostsAre
  <1>2. PICK n \in 1..s.len : s.arr[n] = host
    BY <1>1 DEF Range
  <1>3. n \in I /\ I \in SUBSET Nat
    BY <1>1, <1>2
  <1>4. j = IF I # {} THEN Min(I) ELSE 0
    BY Zenon DEF SelectInSeq
  <1>5. Min(I) \in I /\ \A i \in I : Min(I) <= i
    <2> HIDE DEF I
    <2>1. \E i \in I : \A m \in I : i <= m
      BY <1>3, LeastNatural
    <2> QED BY <2>1 DEF Min
  <1>6. j \in 1..s.len
    <2>1. j = Min(I) /\ j \in 1..Len(s.arr) /\ j <= n
      BY <1>3, <1>4, <1>5
    <2> QED BY <1>1, <2>1
  <1>7. t = RemoveCell(s, j)
    BY Zenon DEF WithoutHost
  <1> HIDE DEF j, I, t
  <1> DEFINE arr == [i \in DOMAIN s.arr |-> IF i >= j /\ i < s.len THEN s.arr[i + 1] ELSE s.arr[i]]
  <1>8. t = [s EXCEPT !.arr = arr, !.len = s.len - 1]
    BY <1>7 DEF RemoveCell
  <1>9. arr \in Seq(Host) /\ Len(arr) = Len(s.arr)
    <2>1. arr \in [1..Len(s.arr) -> Host]
      BY <1>1, <1>6
    <2> QED BY <1>1, <2>1
  <1>10. \A i \in 1..s.len - 1 : arr[i] = IF i >= j THEN s.arr[i + 1] ELSE s.arr[i]
    BY <1>1
  <1> HIDE DEF arr
  <1>11. /\ t.rs = s.rs /\ t.arr = arr /\ t.len = s.len - 1
         /\ t = [rs |-> s.rs, arr |-> arr, len |-> s.len - 1] /\ s.rs \in Resource
    BY <1>8 DEF SpecType
  <1>12. t \in SpecType
    BY <1>1, <1>6, <1>9, <1>11 DEF SpecType
  <1>13. /\ DOMAIN HostsOf(t) = 1..s.len - 1
         /\ \A i \in 1..s.len - 1 : HostsOf(t)[i] = IF i >= j THEN s.arr[i + 1] ELSE s.arr[i]
    BY <1>10, <1>11, <1>12, HostsAre
  <1>14. ASSUME NEW x \in Host, Once(HostsOf(s), x) PROVE Once(HostsOf(t), x)
    <2>1. \A a, b \in 1..s.len : s.arr[a] = x /\ s.arr[b] = x => a = b
      BY <1>1, <1>14 DEF Once
    <2>2. ASSUME NEW a \in 1..s.len - 1, NEW b \in 1..s.len - 1,
                 HostsOf(t)[a] = x, HostsOf(t)[b] = x
          PROVE  a = b
      <3> DEFINE from(i) == IF i >= j THEN i + 1 ELSE i
      <3>1. ASSUME NEW i \in 1..s.len - 1
            PROVE  from(i) \in 1..s.len /\ HostsOf(t)[i] = s.arr[from(i)]
        <4>1. from(i) \in 1..s.len
          BY <1>1, <1>6
        <4>2. HostsOf(t)[i] = s.arr[from(i)]
          BY <1>13
        <4> QED BY <4>1, <4>2
      <3>2. from(a) = from(b)
        BY <2>1, <2>2, <3>1
      <3> QED BY <1>1, <1>6, <3>2
    <2> QED BY <1>13, <2>2 DEF Once
  <1>15. Follows(t, s)
    BY <1>9, <1>11, <1>12, <1>14 DEF Follows
  <1>16. Range(HostsOf(t)) \subseteq Range(HostsOf(s))
    <2>1. \A i \in 1..s.len - 1 : i + 1 \in 1..s.len /\ i \in 1..s.len
      BY <1>1
    <2> QED BY <1>1, <1>13, <2>1 DEF Range
  <1> QED BY <1>15, <1>16 DEF t

\* addToIPGroup: the resource is in the group afterwards.
LEMMA AddKeeps ==
    ASSUME NEW S, NEW g \in GroupsType, NEW k \in GroupKey, NEW rs \in Resource,
           NEW hosts \in Seq(Host), EachOnce(hosts, S[rs]), Distinct(g, S),
           NEW g2, g2 = addToIPGroup(g, k, rs, hosts)
    PROVE  /\ g2 \in GroupsType /\ Distinct(g2, S)
           /\ SpecIndex(g2, k, rs) # 0
           /\ \A j \in GroupKey, r \in Resource : Keeps(g, g2, j, r) /\ Grows(g, g2, j, r)
           /\ Range(hosts) \subseteq Range(HostsOf(SpecAt(g2, k, rs)))
  <1> DEFINE i == SpecIndex(g, k, rs)
  <1>1. /\ g[k] \in Seq(SpecType) /\ DOMAIN g[k] = 1..Len(g[k]) /\ Len(g[k]) \in Nat
        /\ g = [j \in GroupKey |-> g[j]]
    BY DEF GroupsType
  <1>2. CASE i = 0
    <2> DEFINE s == NewSpec(rs, hosts)
               n == Len(g[k]) + 1
    <2>1. g2 = [g EXCEPT ![k] = Append(g[k], s)]
      BY <1>2 DEF addToIPGroup
    <2>2. s \in SpecType /\ s.rs = rs /\ Clean(s, S) /\ HostsOf(s) = hosts
      <3>1. s \in SpecType /\ s.rs = rs /\ s.arr = hosts /\ s.len = Len(hosts)
        BY DEF NewSpec, SpecType
      <3>2. HostsOf(s) = hosts
        BY <3>1, SubSeqFull DEF HostsOf
      <3> QED BY <3>1, <3>2 DEF Clean
    <2> HIDE DEF s
    <2>3. /\ g2[k] \in Seq(SpecType) /\ DOMAIN g2[k] = 1..n
          /\ \A j \in 1..Len(g[k]) : g2[k][j] = g[k][j]
          /\ g2[k][n] = s
          /\ \A j \in GroupKey \ {k} : g2[j] = g[j]
      <3>1. g2[k] = Append(g[k], s) /\ \A j \in GroupKey \ {k} : g2[j] = g[j]
        BY <1>1, <2>1
      <3>2. /\ Append(g[k], s) \in Seq(SpecType) /\ Len(Append(g[k], s)) = n
            /\ \A j \in 1..Len(g[k]) : Append(g[k], s)[j] = g[k][j]
            /\ Append(g[k], s)[n] = s
        BY <1>1, <2>2, AppendProperties
      <3> QED BY <3>1, <3>2
    <2>4. g2 \in GroupsType
      BY <1>1, <2>1, <2>2, <2>3 DEF GroupsType
    <2>5. \A j \in 1..Len(g[k]) : g[k][j].rs # rs
      BY <1>1, <1>2, SpecIndexIs
    <2>6. OneEach(g2[k]) /\ \A j \in DOMAIN g2[k] : Clean(g2[k][j], S)
      <3>1. OneEach(g[k]) /\ \A j \in DOMAIN g[k] : Clean(g[k][j], S)
        BY DEF Distinct
      <3>2. OneEach(g2[k])
        <4> SUFFICES ASSUME NEW a \in 1..n, NEW b \in 1..n, g2[k][a].rs = g2[k][b].rs
                     PROVE  a = b
          BY <2>3 DEF OneEach
        <4>1. CASE a # n /\ b # n
          BY <1>1, <2>3, <3>1, <4>1 DEF OneEach
        <4>2. CASE a = n \/ b = n
          BY <1>1, <2>2, <2>3, <2>5, <4>2
        <4> QED BY <4>1, <4>2
      <3>3. \A j \in DOMAIN g2[k] : Clean(g2[k][j], S)
        <4>1. Clean(s, S)
          BY <2>2
        <4>2. ASSUME NEW j \in 1..n, j # n PROVE j \in DOMAIN g[k] /\ g2[k][j] = g[k][j]
          <5>1. j \in 1..Len(g[k]) /\ DOMAIN g[k] = 1..Len(g[k])
            BY <1>1, <4>2
          <5> QED BY <2>3, <5>1
        <4> QED BY <2>3, <3>1, <4>1, <4>2
      <3> QED BY <3>2, <3>3
    <2>7. Distinct(g2, S)
      BY <2>3, <2>6 DEF Distinct
    <2>8. SpecIndex(g2, k, rs) # 0 /\ SpecAt(g2, k, rs) = s
      <3>1. n \in DOMAIN g2[k] /\ g2[k][n].rs = rs
        BY <1>1, <2>2, <2>3
      <3> HIDE DEF n
      <3> QED BY <2>3, <2>4, <2>6, <3>1, TheSpec
    <2>9. ASSUME NEW j \in GroupKey, NEW r \in Resource PROVE Keeps(g, g2, j, r) /\ Grows(g, g2, j, r)
      <3> SUFFICES ASSUME SpecIndex(g, j, r) # 0 PROVE SpecAt(g2, j, r) = SpecAt(g, j, r) /\ SpecIndex(g2, j, r) # 0
                                                      /\ SpecAt(g, j, r) \in SpecType
        <4>1. \A t \in SpecType : Len(t.arr) >= Len(t.arr)
          BY DEF SpecType
        <4> QED BY <4>1 DEF Keeps, Grows
      <3>1. PICK m \in DOMAIN g[j] : /\ m = SpecIndex(g, j, r) /\ g[j][m].rs = r
                                     /\ g[j][m] \in SpecType
        BY SpecIndexIs
      <3>2. m \in DOMAIN g2[j] /\ g2[j][m] = g[j][m]
        BY <1>1, <2>3, <3>1
      <3>3. OneEach(g2[j])
        BY <2>7 DEF Distinct
      <3>4. SpecIndex(g2, j, r) = m /\ m # 0 /\ SpecAt(g2, j, r) = g[j][m]
        BY <2>4, <3>1, <3>2, <3>3, TheSpec
      <3> QED BY <3>1, <3>4 DEF SpecAt
    <2> QED BY <2>2, <2>4, <2>7, <2>8, <2>9
  <1>3. CASE i # 0
    <2>1. i \in DOMAIN g[k] /\ g[k][i] \in SpecType /\ g[k][i].rs = rs
      BY <1>3, SpecIndexIs
    <2> DEFINE s == g[k][i]
               live == WithHosts(HostsOf(s), hosts)
               arr == live \o SubSeq(s.arr, Len(live) + 1, Len(s.arr))
               t == [s EXCEPT !.arr = arr, !.len = Len(live)]
    <2>2. g2 = [g EXCEPT ![k] = [@ EXCEPT ![i] = t]]
      <3>1. g2 = [g EXCEPT ![k][i].arr = arr, ![k][i].len = Len(live)]
        BY <1>3 DEF addToIPGroup
      <3> HIDE DEF arr, live, i
      <3> QED BY <1>1, <2>1, <3>1
    <2>3. Follows(t, s) /\ Range(HostsOf(t)) = Range(HostsOf(s)) \cup Range(hosts)
      <3> HIDE DEF i
      <3>1. s \in SpecType
        BY <2>1
      <3> HIDE DEF s
      <3> QED BY <3>1, Extended
    <2>4. t \in SpecType
      BY <2>3 DEF Follows
    <2> HIDE DEF t, i
    <2>5. /\ g2 = [j \in GroupKey |-> g2[j]]
          /\ \A j \in GroupKey : g2[j] = g[j] \/ (j = k /\ g2[j] = [g[j] EXCEPT ![i] = t])
      BY <1>1, <2>2
    <2>6. Replacing(g, g2)
      BY <2>1, <2>3, <2>4, <2>5 DEF Replacing
    <2>7. /\ g2 \in GroupsType /\ Distinct(g2, S)
          /\ \A j \in GroupKey, r \in Resource :
                Keeps(g, g2, j, r) /\ SamePlace(g, g2, j, r)
      BY <2>6, Replaced
    <2>8. SpecIndex(g2, k, rs) = i /\ g2[k][i] = t /\ i # 0
      BY <1>1, <1>3, <2>1, <2>2, <2>7 DEF i, SamePlace
    <2>9. \A j \in GroupKey, m \in Nat :
             m \in DOMAIN g[j] => g2[j][m] = g[j][m] \/ (g[j][m] = s /\ g2[j][m] = t)
      BY <1>1, <2>1, <2>5
    <2>10. ASSUME NEW j \in GroupKey, NEW r \in Resource PROVE Grows(g, g2, j, r)
      <3> SUFFICES ASSUME SpecIndex(g, j, r) # 0
                   PROVE  Range(HostsOf(SpecAt(g, j, r))) \subseteq Range(HostsOf(SpecAt(g2, j, r)))
        BY <2>7 DEF Grows, SamePlace
      <3>1. SpecIndex(g, j, r) \in DOMAIN g[j] /\ DOMAIN g[j] = 1..Len(g[j])
        BY SpecIndexIs DEF GroupsType
      <3>2. SpecIndex(g2, j, r) = SpecIndex(g, j, r) /\ SpecIndex(g, j, r) \in Nat
        BY <2>7, <3>1 DEF SamePlace
      <3> QED BY <2>3, <2>9, <3>1, <3>2 DEF SpecAt
    <2> QED BY <2>3, <2>7, <2>8, <2>10 DEF SpecAt
  <1> QED BY <1>2, <1>3

\* removeHost
LEMMA RemoveHostKeeps ==
    ASSUME NEW S, NEW g \in GroupsType, NEW rs \in Resource, NEW host, Distinct(g, S),
           NEW g2 \in removeHost(g, rs, host)
    PROVE  /\ g2 \in GroupsType /\ Distinct(g2, S)
           /\ \A j \in GroupKey, r \in Resource : Keeps(g, g2, j, r)
           /\ \A j \in GroupKey, r \in Resource \ {rs} : Grows(g, g2, j, r)
           /\ AllHosts(g2) \subseteq AllHosts(g)
  <1> DEFINE at == {k \in KeysOf(g, rs) : host \in Range(HostsOf(SpecAt(g, k, rs)))}
  <1>1. g = [j \in GroupKey |-> g[j]]
    BY DEF GroupsType
  <1>2. /\ g2 = [j \in GroupKey |-> g2[j]]
        /\ \A j \in GroupKey :
              \/ g2[j] = g[j]
              \/ j \in at /\ g2[j] = [g[j] EXCEPT ![SpecIndex(g, j, rs)] = WithoutHost(@, host)]
    <2>1. CASE at = {}
      BY <1>1, <2>1 DEF removeHost
    <2>2. CASE at # {}
      <3>1. PICK k \in at :
              g2 = [j \in GroupKey |->
                 IF j = k \/ (j \in at /\ SpecIndex(g, j, rs) = 1)
                 THEN [g[j] EXCEPT ![SpecIndex(g, j, rs)] = WithoutHost(@, host)]
                 ELSE g[j]]
        BY <2>2 DEF removeHost
      <3> HIDE DEF at
      <3> QED BY <3>1
    <2> QED BY <2>1, <2>2
  <1>3. ASSUME NEW j \in at
        PROVE  \E t \in SpecType :
                  /\ [g[j] EXCEPT ![SpecIndex(g, j, rs)] = WithoutHost(@, host)]
                        = [g[j] EXCEPT ![SpecIndex(g, j, rs)] = t]
                  /\ SpecIndex(g, j, rs) \in DOMAIN g[j]
                  /\ Follows(t, g[j][SpecIndex(g, j, rs)])
                  /\ Range(HostsOf(t)) \subseteq Range(HostsOf(g[j][SpecIndex(g, j, rs)]))
    <2> DEFINE i == SpecIndex(g, j, rs)
    <2>1. j \in GroupKey /\ i # 0 /\ host \in Range(HostsOf(g[j][i]))
      BY DEF KeysOf, SpecAt
    <2>2. i \in DOMAIN g[j] /\ g[j][i] \in SpecType
      BY <2>1, SpecIndexIs
    <2> HIDE DEF i
    <2>3. /\ Follows(WithoutHost(g[j][i], host), g[j][i])
          /\ Range(HostsOf(WithoutHost(g[j][i], host))) \subseteq Range(HostsOf(g[j][i]))
      BY <2>1, <2>2, CellRemoved
    <2>4. WithoutHost(g[j][i], host) \in SpecType
      BY <2>3 DEF Follows
    <2> QED BY <2>2, <2>3, <2>4 DEF i
  <1> HIDE DEF at
  <1>4. \A j \in GroupKey :
             \/ g2[j] = g[j]
             \/ \E m \in DOMAIN g[j], u \in SpecType :
                    g2[j] = [g[j] EXCEPT ![m] = u] /\ Follows(u, g[j][m])
    BY <1>2, <1>3
  <1>5. /\ g2 \in GroupsType /\ Distinct(g2, S)
        /\ \A j \in GroupKey, r \in Resource :
              Keeps(g, g2, j, r) /\ SamePlace(g, g2, j, r)
    <2>1. Replacing(g, g2)
      BY <1>2, <1>4 DEF Replacing
    <2> QED BY <2>1, Replaced
  <1>6. \A j \in GroupKey :
           /\ DOMAIN g2[j] = DOMAIN g[j]
           /\ \A m \in DOMAIN g[j] :
                 /\ Range(HostsOf(g2[j][m])) \subseteq Range(HostsOf(g[j][m]))
                 /\ g2[j][m] = g[j][m] \/ (m = SpecIndex(g, j, rs) /\ m # 0)
    <2> SUFFICES ASSUME NEW j \in GroupKey, g2[j] # g[j]
                 PROVE  /\ DOMAIN g2[j] = DOMAIN g[j]
                        /\ \A m \in DOMAIN g[j] :
                              /\ Range(HostsOf(g2[j][m])) \subseteq Range(HostsOf(g[j][m]))
                              /\ g2[j][m] = g[j][m] \/ (m = SpecIndex(g, j, rs) /\ m # 0)
      OBVIOUS
    <2> DEFINE i == SpecIndex(g, j, rs)
    <2>1. PICK t : /\ g2[j] = [g[j] EXCEPT ![i] = t] /\ i \in DOMAIN g[j]
                   /\ Range(HostsOf(t)) \subseteq Range(HostsOf(g[j][i]))
      BY <1>2, <1>3
    <2>2. i # 0 /\ g[j] \in Seq(SpecType)
      BY <2>1 DEF GroupsType
    <2> HIDE DEF i
    <2>3. \A m \in DOMAIN g[j] : g2[j][m] = IF m = i THEN t ELSE g[j][m]
      BY <2>1
    <2>4. DOMAIN g2[j] = DOMAIN g[j]
      BY <2>1
    <2> QED BY <2>1, <2>2, <2>3, <2>4 DEF i
  <1>7. AllHosts(g2) \subseteq AllHosts(g)
    <2> SUFFICES ASSUME NEW x \in AllHosts(g2) PROVE x \in AllHosts(g)
      OBVIOUS
    <2>1. PICK j \in GroupKey : \E m \in DOMAIN g2[j] : x \in Range(HostsOf(g2[j][m]))
      BY AllHostsAre
    <2> QED BY <1>6, <2>1, AllHostsAre
  <1>8. ASSUME NEW j \in GroupKey, NEW r \in Resource \ {rs} PROVE Grows(g, g2, j, r)
    <2> SUFFICES ASSUME SpecIndex(g, j, r) # 0 PROVE SpecAt(g2, j, r) = SpecAt(g, j, r)
      BY <1>5 DEF Grows, SamePlace
    <2>1. /\ SpecIndex(g, j, r) \in DOMAIN g[j] /\ g[j][SpecIndex(g, j, r)].rs = r
          /\ SpecIndex(g, j, rs) # 0 => g[j][SpecIndex(g, j, rs)].rs = rs
      BY SpecIndexIs
    <2> QED BY <1>5, <1>6, <2>1 DEF SpecAt, SamePlace
  <1> QED BY <1>5, <1>7, <1>8

\* removeFromIPGroup: the specs of other resources stay.
LEMMA RemoveSpecKeeps ==
    ASSUME NEW S, NEW g \in GroupsType, NEW rs \in Resource, Distinct(g, S),
           NEW g2 \in removeFromIPGroup(g, rs)
    PROVE  /\ g2 \in GroupsType /\ Distinct(g2, S)
           /\ \A j \in GroupKey, r \in Resource \ {rs} : Keeps(g, g2, j, r) /\ Grows(g, g2, j, r)
           /\ AllHosts(g2) \subseteq AllHosts(g)
  <1>1. PICK k \in GroupKey : /\ SpecIndex(g, k, rs) # 0
                              /\ g2 = [g EXCEPT ![k] = RemoveAt(@, SpecIndex(g, k, rs))]
    BY DEF removeFromIPGroup, KeysOf
  <1> DEFINE i == SpecIndex(g, k, rs)
             from(j) == IF j < i THEN j ELSE j + 1
             n == Len(g[k])
  <1>2. /\ g[k] \in Seq(SpecType) /\ DOMAIN g[k] = 1..n /\ n \in Nat
        /\ i \in 1..n /\ g[k][i].rs = rs
    BY <1>1, SpecIndexIs DEF GroupsType
  <1> HIDE DEF i
  <1>3. /\ g2[k] \in Seq(SpecType) /\ DOMAIN g2[k] = 1..n - 1
        /\ \A j \in 1..n - 1 : g2[k][j] = g[k][from(j)]
        /\ \A j \in GroupKey \ {k} : g2[j] = g[j]
        /\ g2 \in GroupsType
    <2> DEFINE a == SubSeq(g[k], 1, i - 1)
               b == SubSeq(g[k], i + 1, n)
    <2>1. /\ a \in Seq(SpecType) /\ Len(a) = i - 1
          /\ \A j \in 1..i - 1 : a[j] = g[k][j]
      <3>1. \A j \in 1..i - 1 : g[k][j] \in SpecType
        BY <1>2
      <3> QED BY <1>2, <3>1, SubSeqProperties
    <2>2. /\ b \in Seq(SpecType) /\ Len(b) = n - i
          /\ \A j \in 1..n - i : b[j] = g[k][i + j]
      <3>1. \A j \in i + 1..n : g[k][j] \in SpecType
        BY <1>2
      <3> QED BY <1>2, <3>1, SubSeqProperties
    <2>3. g2 = [g EXCEPT ![k] = a \o b]
      BY <1>1 DEF RemoveAt, i
    <2> HIDE DEF a, b
    <2>4. /\ a \o b \in Seq(SpecType) /\ Len(a \o b) = n - 1
          /\ \A j \in 1..n - 1 : (a \o b)[j] = IF j <= i - 1 THEN a[j] ELSE b[j - (i - 1)]
      <3>1. /\ a \o b \in Seq(SpecType) /\ Len(a \o b) = Len(a) + Len(b)
            /\ \A j \in 1..Len(a) + Len(b) : (a \o b)[j] = IF j <= Len(a) THEN a[j] ELSE b[j - Len(a)]
        BY <2>1, <2>2, ConcatProperties
      <3>2. Len(a) + Len(b) = n - 1
        BY <1>2, <2>1, <2>2
      <3> QED BY <2>1, <3>1, <3>2
    <2>5. ASSUME NEW j \in 1..n - 1 PROVE (a \o b)[j] = g[k][from(j)]
      <3>1. CASE j < i
        BY <1>2, <2>1, <2>4, <3>1
      <3>2. CASE ~(j < i)
        <4>1. j - (i - 1) \in 1..n - i /\ i + (j - (i - 1)) = j + 1
          BY <1>2, <3>2
        <4>2. (a \o b)[j] = b[j - (i - 1)]
          BY <1>2, <2>4, <3>2
        <4> QED BY <2>2, <3>2, <4>1, <4>2
      <3> QED BY <3>1, <3>2
    <2>6. /\ g2[k] = a \o b /\ \A j \in GroupKey \ {k} : g2[j] = g[j]
          /\ g2 \in GroupsType
      BY <2>3, <2>4 DEF GroupsType
    <2>7. DOMAIN (a \o b) = 1..n - 1
      BY <2>4
    <2> QED BY <2>4, <2>5, <2>6, <2>7
  <1>4. /\ \A j \in 1..n - 1 : from(j) \in 1..n \ {i}
        /\ \A j, m \in 1..n - 1 : from(j) = from(m) => j = m
        /\ \A m \in 1..n \ {i} : \E j \in 1..n - 1 : from(j) = m
    <2> DEFINE to(m) == IF m < i THEN m ELSE m - 1
    <2>1. \A m \in 1..n \ {i} : from(to(m)) = m /\ to(m) \in 1..n - 1
      BY <1>2
    <2>2. /\ \A j \in 1..n - 1 : from(j) \in 1..n \ {i}
          /\ \A j, m \in 1..n - 1 : from(j) = from(m) => j = m
      BY <1>2
    <2> HIDE DEF to, from
    <2> QED BY <2>1, <2>2
  <1>5. OneEach(g[k]) /\ \A j \in DOMAIN g[k] : Clean(g[k][j], S)
    BY DEF Distinct
  <1> HIDE DEF from, n
  <1>6. OneEach(g2[k]) /\ \A j \in DOMAIN g2[k] : Clean(g2[k][j], S)
    <2> SUFFICES ASSUME NEW a \in 1..n - 1
                 PROVE  /\ Clean(g2[k][a], S)
                        /\ \A b \in 1..n - 1 : g2[k][a].rs = g2[k][b].rs => a = b
      BY <1>3 DEF OneEach
    <2>1. from(a) \in DOMAIN g[k] /\ g2[k][a] = g[k][from(a)]
      BY <1>2, <1>3, <1>4
    <2>2. \A b \in 1..n - 1 : from(b) \in DOMAIN g[k] /\ g2[k][b] = g[k][from(b)]
      BY <1>2, <1>3, <1>4
    <2>3. \A b \in 1..n - 1 : g2[k][a].rs = g2[k][b].rs => from(a) = from(b)
      BY <1>5, <2>1, <2>2 DEF OneEach
    <2> QED BY <1>4, <1>5, <2>1, <2>3
  <1>7. Distinct(g2, S)
    BY <1>3, <1>6 DEF Distinct
  <1>8. ASSUME NEW j \in GroupKey, NEW r \in Resource \ {rs}, SpecIndex(g, j, r) # 0
        PROVE  SpecIndex(g2, j, r) # 0 /\ SpecAt(g2, j, r) = SpecAt(g, j, r)
    <2>1. PICK m \in DOMAIN g[j] : m = SpecIndex(g, j, r) /\ g[j][m].rs = r
      BY <1>8, SpecIndexIs
    <2>2. PICK x \in DOMAIN g2[j] : g2[j][x] = g[j][m]
      <3>1. CASE j # k
        BY <1>3, <2>1, <3>1
      <3>2. CASE j = k
        <4>1. m \in 1..n /\ m # i
          BY <1>2, <2>1, <3>2
        <4>2. PICK x \in 1..n - 1 : from(x) = m
          BY <1>4, <4>1
        <4>3. x \in DOMAIN g2[j] /\ g2[j][x] = g[j][m]
          BY <1>3, <3>2, <4>2
        <4> QED BY <4>3
      <3> QED BY <3>1, <3>2
    <2>3. OneEach(g2[j])
      BY <1>7 DEF Distinct
    <2>4. SpecIndex(g2, j, r) = x /\ x # 0 /\ SpecAt(g2, j, r) = g[j][m]
      BY <1>3, <2>1, <2>2, <2>3, TheSpec
    <2> QED BY <2>1, <2>4 DEF SpecAt
  <1>9. \A j \in GroupKey, r \in Resource : SpecIndex(g, j, r) # 0 => SpecAt(g, j, r) \in SpecType
    BY SpecIndexIs DEF SpecAt
  <1>10. \A t \in SpecType : Len(t.arr) >= Len(t.arr)
    BY DEF SpecType
  <1>11. AllHosts(g2) \subseteq AllHosts(g)
    <2> SUFFICES ASSUME NEW x \in AllHosts(g2) PROVE x \in AllHosts(g)
      OBVIOUS
    <2>1. PICK j \in GroupKey : \E m \in DOMAIN g2[j] : x \in Range(HostsOf(g2[j][m]))
      BY AllHostsAre
    <2>2. \A m \in DOMAIN g2[j] : \E b \in DOMAIN g[j] : g2[j][m] = g[j][b]
      BY <1>2, <1>3, <1>4
    <2> QED BY <2>1, <2>2, AllHostsAre
  <1> QED BY <1>3, <1>7, <1>8, <1>9, <1>10, <1>11 DEF Keeps, Grows
=============================================================================
