------------------------------ MODULE IPGroups ------------------------------
(***************************************************************************)
(* pkg/orchestration/orchestration.go and types.go: the groups of resource *)
(* specs that share an address.  IPGroups is a Go map from GroupKey to a   *)
(* slice of specs; here it is a total function, with <<>> for a key that   *)
(* is not in the map.  A spec is identified by its resource, which stands  *)
(* for the kind, the name and the namespace.                               *)
(*                                                                         *)
(* The hosts of a spec are a Go slice: an array arr, of which the first    *)
(* len cells are the hosts.  The cells after them can be seen by whoever   *)
(* took a longer slice of the same array before.                           *)
(***************************************************************************)
EXTENDS Naturals, SequencesExt

CONSTANTS
    Resource,   \* the ConfigMaps and the Ingresses
    GroupName,  \* the names of the groups that share an address
    Net,        \* the networks: a netview and a CIDR
    Host,
    Empty       \* the empty string

ASSUME NameAssumption == Empty \notin GroupName

GroupKey == [name : GroupName \cup {Empty}, net : Net]

NoGroups == [k \in GroupKey |-> <<>>]

NewSpec(rs, hosts) == [rs |-> rs, arr |-> hosts, len |-> Len(hosts)]
HostsOf(s) == SubSeq(s.arr, 1, s.len)

\* The sequence has x once at most.
Once(s, x) == \A i, j \in DOMAIN s : s[i] = x /\ s[j] = x => i = j

SpecType == {s \in [rs : Resource, arr : Seq(Host), len : Nat] : s.len <= Len(s.arr)}
GroupsType == [GroupKey -> Seq(SpecType)]

SpecIndex(g, k, rs) == SelectInSeq(g[k], LAMBDA s : s.rs = rs)

\* The groups that have a spec of the resource.
KeysOf(g, rs) == {k \in GroupKey : SpecIndex(g, k, rs) # 0}

SpecAt(g, k, rs) == g[k][SpecIndex(g, k, rs)]

\* getSpec: the first spec of the resource that the iteration over the map
\* meets, by the key of its group; there is none if this set is empty.
getSpec(g, rs) == KeysOf(g, rs)

\* Faults for mutation: a resource that is there already keeps its hosts; it is
\* not looked for.
addToIPGroupOnce(g, k, rs, hosts) ==
    IF SpecIndex(g, k, rs) # 0 THEN g
    ELSE [g EXCEPT ![k] = Append(@, NewSpec(rs, hosts))]
addToIPGroupBlindly(g, k, rs, hosts) ==
    [g EXCEPT ![k] = Append(@, NewSpec(rs, hosts))]

\* The hosts after the loop that appends those of new which are not there yet.
WithHosts(old, new) ==
    LET with[i \in 0..Len(new)] ==
           IF i = 0 THEN old
           ELSE IF new[i] \in Range(with[i - 1]) THEN with[i - 1]
           ELSE Append(with[i - 1], new[i])
    IN  with[Len(new)]

\* A spec that is there already gets the hosts it lacks, at the end, over the
\* cells that removed hosts left behind.
addToIPGroup(g, k, rs, hosts) ==
    LET i    == SpecIndex(g, k, rs)
        live == WithHosts(HostsOf(g[k][i]), hosts)
    IN  IF i = 0 THEN [g EXCEPT ![k] = Append(@, NewSpec(rs, hosts))]
        ELSE [g EXCEPT ![k][i].arr = live \o SubSeq(@, Len(live) + 1, Len(@)),
                       ![k][i].len = Len(live)]

\* Fault for mutation: the last slot of the group is cleared, but stays.
removeFromIPGroupKeepsSlot(g, rs) ==
    {[g EXCEPT ![k] = Append(RemoveAt(@, SpecIndex(g, k, rs)),
                             [rs |-> Empty, arr |-> <<>>, len |-> 0])] : k \in KeysOf(g, rs)}

\* removeFromIPGroup: the spec of the resource leaves the first group that the
\* iteration meets it in.  With its last spec a group leaves the map.
removeFromIPGroup(g, rs) ==
    {[g EXCEPT ![k] = RemoveAt(@, SpecIndex(g, k, rs))] : k \in KeysOf(g, rs)}

\* append(s[:j], s[j+1:]...): the cells after j move down by one, and the last
\* one keeps its value as well.
RemoveCell(s, j) ==
    [s EXCEPT !.arr = [i \in DOMAIN @ |-> IF i >= j /\ i < s.len THEN @[i + 1] ELSE @[i]],
              !.len = @ - 1]

WithoutHost(s, host) == RemoveCell(s, SelectInSeq(s.arr, LAMBDA h : h = host))


\* removeHost, by the group k that the iteration removes the host in first.  It
\* breaks out of that group only: in every other one the first spec is still
\* looked at.
removeHost(g, rs, host) ==
    LET at == {k \in KeysOf(g, rs) : host \in Range(HostsOf(SpecAt(g, k, rs)))}
    IN  IF at = {} THEN {g}
        ELSE {[j \in GroupKey |->
                 IF j = k \/ (j \in at /\ SpecIndex(g, j, rs) = 1)
                 THEN [g[j] EXCEPT ![SpecIndex(g, j, rs)] = WithoutHost(@, host)]
                 ELSE g[j]] : k \in at}
=============================================================================
