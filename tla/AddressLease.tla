---------------------------- MODULE AddressLease ----------------------------
(***************************************************************************)
(* What the controller promises about the addresses of the IPAM system: an *)
(* address is reserved, then either bound to a host name by an A record or *)
(* given back; a bound address stays reserved until the last name leaves   *)
(* it; and at no time is more than one address reserved without a name.    *)
(***************************************************************************)
CONSTANT Addr

VARIABLES
    reserved,   \* the addresses that are not available to anybody else
    held,       \* the one address, if any, that is reserved and not yet bound
    bound       \* the addresses some A record points to

lease == <<reserved, held, bound>>

LeaseInit == reserved = {} /\ held = {} /\ bound = {}

Reserve(a) ==
    /\ held = {} /\ a \notin reserved
    /\ reserved' = reserved \cup {a} /\ held' = {a}
    /\ UNCHANGED bound

Bind(a) ==
    /\ held = {a}
    /\ held' = {} /\ bound' = bound \cup {a}
    /\ UNCHANGED reserved

GiveBack(a) ==
    /\ held = {a}
    /\ held' = {} /\ reserved' = reserved \ {a}
    /\ UNCHANGED bound

Vacate(a) ==
    /\ a \in bound /\ held = {}
    /\ bound' = bound \ {a} /\ reserved' = reserved \ {a}
    /\ UNCHANGED held

LeaseNext == \E a \in Addr : Reserve(a) \/ Bind(a) \/ GiveBack(a) \/ Vacate(a)

LeaseSpec == LeaseInit /\ [][LeaseNext]_lease
=============================================================================
