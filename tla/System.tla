------------------------------- MODULE System -------------------------------
(***************************************************************************)
(* The whole program: the orchestration client of module K8sClient at one  *)
(* end of the channel, and at the other the controller, reduced to what    *)
(* module Reconciler says of it, which ControllerProperties shows that it  *)
(* implements.  The names that have a record in the IPAM system are the    *)
(* only state that survives the end of the process.                        *)
(*                                                                         *)
(* The controller runs without the verify timer here, and no request to    *)
(* the IPAM system fails.                                                  *)
(***************************************************************************)
EXTENDS K8sClientProperties

VARIABLES
    names,  \* the hosts that have a record
    lost    \* history: the last send of this process timed out

IPAM == INSTANCE Reconciler WITH
    Name <- Host, want <- HostsSent(received), passing <- ctl = "busy"

svars == <<vars, names, lost>>

SystemTypeOK == TypeOK /\ names \subseteq Host /\ lost \in BOOLEAN

\* The IPAM system may have records of an earlier life of the program.
SystemInit == Init /\ names \in SUBSET Host /\ lost = FALSE

\* writeIPGroups hands the groups to handleIPGroups, which starts a pass.
Hand ==
    /\ Deliver
    /\ IPAM!Ask(HostsSent(Sent(groups)))
    /\ lost' = FALSE

\* writeIPGroups goes on without having handed them over.
GiveUp ==
    /\ Timeout
    /\ lost' = TRUE
    /\ UNCHANGED names

\* A turn of the loops of processIPGroups: a record more or less.
Reconcile ==
    /\ UNCHANGED <<vars, lost>>
    /\ \E n \in Host : IPAM!Create(n) \/ IPAM!Delete(n)

EndPass ==
    /\ CtlProcessed
    /\ IPAM!Finish
    /\ UNCHANGED lost

\* The client's own steps leave the records alone.  So does the end of the process,
\* which may come in the middle of a pass.
Own(A) ==
    /\ A
    /\ lost' = (lost /\ initialState')
    /\ UNCHANGED names

SystemNext == Hand \/ GiveUp \/ Reconcile \/ EndPass \/ Own(Elsewhere)

SystemSpec == SystemInit /\ [][SystemNext]_svars

\* The fairness of K8sClient, and a pass goes on until it ends.
FairSystemSpec ==
    /\ SystemSpec
    /\ \A K \in Kinds : WF_svars(Own(Handle(K))) /\ SF_svars(Own(LeavesStaleGroup(K)))
    /\ WF_svars(Own(Work)) /\ WF_svars(Own(Wake))
    /\ WF_svars(Own(\E p \in Senders : BeginWrite(p)) \/ Hand \/ GiveUp)
    /\ WF_svars(Reconcile \/ EndPass \/ Own(CtlAnnotate))
    /\ \A r \in Resource : WF_svars(Own(Resync(r)))

\* The hosts of the watched resources.
Wanted == UNION {Range(cache[r].hosts) :
                    r \in {s \in Resource : checkValid(cache[s]) /\ Complete(cache[s])}}

\* Once the resources stop changing, every host of every watched resource has a
\* record, and keeps it, unless the last send timed out: no interleaving of the
\* handlers, the worker, the startup goroutines and a restart leaves the
\* controller with less, or with nothing.  (syncResource, writeIPGroups)
Served == <>[](lost \/ Wanted \subseteq names)

\* When the client has nothing left to do and the controller waits in its select,
\* every host of every watched resource has a record, unless the last send timed
\* out: what the worker adds is sent, whoever clears "updated" meanwhile, and a
\* client that starts does not stop before it has sent.
\* (syncResource, writeIPGroups, processNextResource)
RestServed == Quiet /\ ctl = "select" => lost \/ Wanted \subseteq names

\* From when "the client is fully synced on startup", and what it sent is not
\* empty, no record of a host is deleted that a watched resource has.
\* (writeIPGroups)
FullySynced ==
    [][\A n \in Wanted \cap names :
          initialState /\ HostsSent(received) # {} => n \in names']_svars
=============================================================================
