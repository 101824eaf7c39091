---------------------------- MODULE ExportLedger ----------------------------
(***************************************************************************)
(* What the service promises a tenant about an export of a world: what GET *)
(* shows of it, with no queue, worker, pod, sweep or files behind it.      *)
(*                                                                         *)
(* An export is accepted when its tenant has none of that server going on, *)
(* waits until the node's one export is over, and ends ready or failed,    *)
(* once and for all.  It is gone when it is removed, which takes one that  *)
(* has ended, or with its server, and never comes back.                    *)
(***************************************************************************)
CONSTANTS
    Exports,   \* ids, each given to one export at most
    Keys,      \* a tenant and a server of its
    None

VARIABLES
    shown,     \* what a GET says of the export
    whose      \* export -> its key, None before it is asked for

vars == <<shown, whose>>

UnderWay == {"queued", "running"}
Over == {"ready", "failed"}
Known(e) == shown[e] # "unasked"

Init ==
    /\ shown = [e \in Exports |-> "unasked"]
    /\ whose = [e \in Exports |-> None]

Accept(e, k) ==
    /\ ~Known(e)
    /\ \A f \in Exports : whose[f] = k => shown[f] \notin UnderWay
    /\ shown' = [shown EXCEPT ![e] = "queued"]
    /\ whose' = [whose EXCEPT ![e] = k]

Begin(e) ==
    /\ shown[e] = "queued"
    /\ \A f \in Exports : shown[f] # "running"
    /\ shown' = [shown EXCEPT ![e] = "running"]
    /\ UNCHANGED whose

End(e) ==
    /\ shown[e] = "running"
    /\ \E end \in Over : shown' = [shown EXCEPT ![e] = end]
    /\ UNCHANGED whose

Remove(e) ==
    /\ shown[e] \in Over
    /\ shown' = [shown EXCEPT ![e] = "gone"]
    /\ UNCHANGED whose

\* The server is deleted: all that was asked of it goes, whoever asked.
Forget(K) ==
    /\ shown' = [e \in Exports |-> IF Known(e) /\ whose[e] \in K THEN "gone" ELSE shown[e]]
    /\ UNCHANGED whose

\* A restart lets nothing go on, and leaves what is over or removes it.
Restart ==
    /\ \E swept \in SUBSET {e \in Exports : Known(e)} :
         shown' = [e \in Exports |->
            IF e \in swept THEN "gone"
            ELSE IF shown[e] \in UnderWay THEN "failed" ELSE shown[e]]
    /\ UNCHANGED whose

Next ==
    \/ \E e \in Exports, k \in Keys : Accept(e, k)
    \/ \E e \in Exports : Begin(e) \/ End(e) \/ Remove(e)
    \/ \E K \in SUBSET Keys : Forget(K)
    \/ Restart

Spec == Init /\ [][Next]_vars
=============================================================================
