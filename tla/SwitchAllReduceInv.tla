-------------------------- MODULE SwitchAllReduceInv --------------------------
(***************************************************************************)
(* The inductive invariant behind the safety properties of SwitchAllReduce, *)
(* for control messages that reach the switch once (MaxCtl = 1).            *)
(*                                                                          *)
(* The argument: a thread adds its packets in PSN order and does nothing    *)
(* else while it broadcasts.  So the PSN after the one being broadcast      *)
(* lacks the contribution of the broadcasting thread and cannot complete:   *)
(* broadcasts never overlap.  A host is at most Window packets ahead of the *)
(* results it received, hence of the broadcasts, and Window < N: the PSNs   *)
(* the threads are working on occupy distinct slots, all of which have been *)
(* freed before.                                                            *)
(***************************************************************************)
EXTENDS SwitchAllReduce

(* The first data packet of h that is not in its slot yet. *)
NextToAdd(h) == IF pc[h] = "aggregate" THEN cur[h]
                ELSE IF agg_epsn[h] = 0 THEN 1 ELSE agg_epsn[h]

(* The last data packet whose slot has been freed. *)
Freed == IF \E h \in Hosts : pc[h] \in {"send", "cleanup"}
         THEN down_epsn - 1 ELSE down_epsn

(* How far a host, its NIC and its connection can be from each other. *)
HostInv ==
    \A h \in Hosts :
        /\ agg_epsn[h] = 0 <=> ctl[h] = 0
        /\ acked[h] <= agg_epsn[h]
        /\ posted[h] => acked[h] > 0
        /\ sent[h] > 1 => posted[h]
        /\ agg_epsn[h] <= sent[h]
        /\ sent[h] <= recvd[h] + Window + 1
        /\ recvd[h] <= Len(out[h])

(* What a thread works on. *)
ThreadInv ==
    \A h \in Hosts :
        /\ pc[h] # "idle" => cur[h] > 0 /\ agg_epsn[h] = cur[h] + 1
        /\ pc[h] = "cache" => cur[h] = down_epsn + 1
        /\ pc[h] \in {"send", "cleanup"} => cur[h] = down_epsn
        /\ pc[h] # "send" => todo[h] = {}
        /\ pc[h] = "send" => /\ todo[h] # {}
                             /\ bcast_buffer[Idx(cur[h])] = ExactSum(cur[h])

(* down_epsn counts the PSNs every host is in, one less while the thread *)
(* that completed the last of them has not incremented it yet.           *)
ProgressInv ==
    /\ \A h \in Hosts : NextToAdd(h) > down_epsn
    /\ \A t, h \in Hosts : pc[t] = "cache" => NextToAdd(h) > down_epsn + 1
    /\ (\A t \in Hosts : pc[t] # "cache")
         => \E h \in Hosts : NextToAdd(h) = down_epsn + 1

(* The N slots after the freed ones hold what has been added, and only it. *)
SlotInv ==
    \A p \in Freed + 1 .. Freed + N :
        /\ arrival[Idx(p)] = {h \in Hosts : NextToAdd(h) > p}
        /\ degree[Idx(p)] = Cardinality(arrival[Idx(p)])
        /\ degree[Idx(p)] > 0
             => agg_buffer[Idx(p)] = [g \in Hosts |-> IF g \in arrival[Idx(p)]
                                                      THEN <<p>> ELSE << >>]

(* send_psn[g] = down_epsn but for the connections the broadcasting thread *)
(* has not reached.                                                        *)
OutInv ==
    \A g \in Hosts :
        Len(out[g]) = IF \E t \in Hosts : g \in todo[t] THEN down_epsn - 1
                                                        ELSE down_epsn

IInv == /\ TypeOK /\ HostInv /\ ThreadInv /\ OneBroadcaster /\ ProgressInv
        /\ SlotInv /\ OutInv /\ ResultsExact
==============================================================================
