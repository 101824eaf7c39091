---------------------------- MODULE ServerLedger ----------------------------
(***************************************************************************)
(* What the service promises a tenant about its servers: the rows as GET   *)
(* shows them, with no requests, jobs or cluster behind them.              *)
(*                                                                         *)
(* A create is accepted for a free name when the tenant has no create in   *)
(* flight and a slot left, and ends ready or failed.  Only a server that   *)
(* is neither being created nor deleted can be deleted; the delete ends    *)
(* with the name free, or with the server as it was.                       *)
(***************************************************************************)
EXTENDS Integers, FiniteSets

CONSTANTS Names, Tenants, MaxServers, None

VARIABLES
    ledger,    \* name -> None or who holds it, its status, its status before the delete
    restarts   \* how often the service has been restarted

vars == <<ledger, restarts>>

Held(t) == {n \in Names : ledger[n] # None /\ ledger[n].tenant = t}
Is(n, status) == ledger[n] # None /\ ledger[n].status = status
Put(n, status, was) == ledger' = [ledger EXCEPT ![n].status = status, ![n].was = was]

Init == ledger = [n \in Names |-> None] /\ restarts = 0

Accept(t, n) ==
    /\ ledger[n] = None
    /\ \A m \in Held(t) : ~Is(m, "provisioning")
    /\ Cardinality(Held(t)) < MaxServers
    /\ ledger' = [ledger EXCEPT ![n] = [tenant |-> t, status |-> "provisioning", was |-> "none"]]

Created(n) == Is(n, "provisioning") /\ \E end \in {"ready", "failed"} : Put(n, end, "none")

AcceptDelete(n) ==
    \E was \in {"ready", "failed"} : Is(n, was) /\ Put(n, "deleting", was)

Deleted(n) == Is(n, "deleting") /\ ledger' = [ledger EXCEPT ![n] = None]

PutBack(n) == Is(n, "deleting") /\ Put(n, ledger[n].was, "none")

\* A restart ends every create as failed and every delete one way or the other.
Restart ==
    /\ restarts' = restarts + 1
    /\ \E ready \in SUBSET {n \in Names : Is(n, "deleting")} :
        ledger' = [n \in Names |->
            CASE Is(n, "provisioning") -> [ledger[n] EXCEPT !.status = "failed"]
              [] n \in ready -> [ledger[n] EXCEPT !.status = "ready", !.was = "none"]
              [] Is(n, "deleting") /\ n \notin ready ->
                     [ledger[n] EXCEPT !.status = "failed", !.was = "none"]
              [] OTHER -> ledger[n]]

Next ==
    \/ /\ \/ \E t \in Tenants, n \in Names : Accept(t, n)
          \/ \E n \in Names : Created(n) \/ AcceptDelete(n) \/ Deleted(n) \/ PutBack(n)
       /\ UNCHANGED restarts
    \/ Restart

Spec == Init /\ [][Next]_vars
=============================================================================
