----------------------------- MODULE Reconciler -----------------------------
(***************************************************************************)
(* What a pass of the controller does to the names of the IPAM system, for *)
(* whoever only sees the groups go in and the records come out: a pass is  *)
(* over a set of wanted names; it first creates what is missing and only   *)
(* then deletes what is not wanted, one name at a time; and it ends when   *)
(* the names with records are the wanted ones.                             *)
(***************************************************************************)
CONSTANT Name

VARIABLES
    want,     \* the names last asked for
    names,    \* the names that have a record
    passing   \* a pass is under way

RInit == want = {} /\ names = {} /\ passing = FALSE

\* A pass over newly received names, or once more over the last ones.
Ask(S) ==
    /\ ~passing
    /\ want' = S /\ passing' = TRUE
    /\ UNCHANGED names

Create(n) ==
    /\ passing /\ n \in want \ names
    /\ names' = names \cup {n}
    /\ UNCHANGED <<want, passing>>

Delete(n) ==
    /\ passing /\ want \subseteq names /\ n \notin want
    /\ names' = names \ {n}
    /\ UNCHANGED <<want, passing>>

Finish ==
    /\ passing /\ names = want
    /\ passing' = FALSE
    /\ UNCHANGED <<want, names>>

RNext ==
    \/ \E S \in SUBSET Name : Ask(S)
    \/ \E n \in Name : Create(n) \/ Delete(n)
    \/ Finish

RSpec == RInit /\ [][RNext]_<<want, names, passing>>
=============================================================================
