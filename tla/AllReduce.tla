------------------------------ MODULE AllReduce ------------------------------
(***************************************************************************)
(* What inccl_allreduce_sendrecv (api.c:537-545) promises its callers, with *)
(* no switch in sight: every host contributes its chunks 1..Total in order, *)
(* and is handed, in order, the sum of chunk k -- one contribution of every *)
(* host -- and never before every host has contributed its chunk k.         *)
(*                                                                          *)
(* A sum is represented by what was added to obtain it: for every host the  *)
(* sequence of its chunks that went into it.                                *)
(***************************************************************************)
EXTENDS Naturals, Sequences

CONSTANTS Hosts,    \* the members of the group
          Total     \* how many chunks (packets) the vector is cut into

VARIABLES contributed,  \* contributed[h]: how many chunks h has handed over
          delivered     \* delivered[h]: the sums h was given, in order

arVars == <<contributed, delivered>>

(* The only correct sum of chunk k: every host's chunk k, exactly once. *)
ExactSum(k) == [h \in Hosts |-> <<k>>]

ARInit == /\ contributed = [h \in Hosts |-> 0]
          /\ delivered = [h \in Hosts |-> << >>]

Contribute(h) ==
    /\ contributed[h] < Total
    /\ contributed' = [contributed EXCEPT ![h] = @ + 1]
    /\ UNCHANGED delivered

(* The barrier: chunk k comes back only when everyone has contributed it. *)
Deliver(h) ==
    LET k == Len(delivered[h]) + 1
    IN  /\ \A g \in Hosts : contributed[g] >= k
        /\ k <= Total
        /\ delivered' = [delivered EXCEPT ![h] = Append(@, ExactSum(k))]
        /\ UNCHANGED contributed

ARNext == \E h \in Hosts : Contribute(h) \/ Deliver(h)

ARSpec == ARInit /\ [][ARNext]_arVars

(* Every host keeps contributing, and a sum that is due is handed out. *)
ARFairness == \A h \in Hosts : WF_arVars(Contribute(h)) /\ WF_arVars(Deliver(h))

ARFairSpec == ARSpec /\ ARFairness
==============================================================================
