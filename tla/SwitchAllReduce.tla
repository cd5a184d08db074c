--------------------------- MODULE SwitchAllReduce ---------------------------
(***************************************************************************)
(* One AllReduce through the termination switch (termination_switch/src/    *)
(* switch_main.c) and the host library (src/api.c, inccl_allreduce_sendrecv)*)
(*                                                                          *)
(* The switch runs one pcap thread per connection; the handler of thread h  *)
(* is cut where another thread can get in between: at the unlocks of the    *)
(* slot mutex and between the unlocked accesses to down_epsn and send_psn.  *)
(* A connection, its host, its rank and its thread share one name h.        *)
(*                                                                          *)
(* PSN 0 of every host is the control message, PSNs 1..Total its data       *)
(* packets.  A packet stands for one path-MTU of payload; its value is      *)
(* named by (host, psn) and a sum by the packets added into it.             *)
(*                                                                          *)
(* The uplink loses, duplicates and reorders data packets: every packet     *)
(* posted so far may reach the switch at any time, any number of times      *)
(* (RC retransmission included), or never.  Each ACK may be lost.  The      *)
(* downlink may stop delivering, but what the host's RC receiver accepts is *)
(* the gap-free prefix, in PSN order, of what the switch sent.              *)
(***************************************************************************)
EXTENDS Integers, Sequences, FiniteSets

CONSTANTS Hosts,    \* the connections of the switch; fan_in is their number
          N,        \* SWITCH_ARRAY_LENGTH, the number of psn_states slots
          Window,   \* packets a host may send ahead of the results it has
          Total,    \* data packets per host in this AllReduce
          MaxCtl    \* how often one control message can reach the switch

ASSUME HostsAssumption == IsFiniteSet(Hosts) /\ Hosts # {}
ASSUME SizeAssumption == /\ N \in Nat \ {0}
                         /\ Window \in Nat \ {0}
                         /\ Total \in Nat
                         /\ MaxCtl \in Nat \ {0}
(* The window fits in the slot array with one slot to spare (300 slots, and *)
(* WINDOW_SIZE / MESSAGE_SIZE = 2 messages of at most 16 packets).          *)
ASSUME WindowAssumption == Window < N

VARIABLES
  (* hosts *)
  sent,       \* sent[h]: PSNs 0..sent[h]-1 have been posted to the QP
  acked,      \* acked[h]: PSNs below it are acknowledged as far as h knows
  posted,     \* posted[h]: h has posted all its receive requests
  recvd,      \* recvd[h]: results the host has taken off the downlink
  (* switch: global context *)
  agg_epsn,   \* agg_epsn[h]: PSN expected next from h
  down_epsn,  \* count of broadcasts started
  (* switch: the slots psn_states[0..N-1] *)
  degree,     \* contributions counted since the last cleanup
  arrival,    \* the connections marked as arrived since the last cleanup
  agg_buffer, \* what has been added up
  bcast_buffer, \* the copy that is broadcast
  (* switch: the handler in progress of each thread *)
  pc,         \* where thread h is
  cur,        \* psn of the packet thread h works on
  todo,       \* connections thread h has still to send the result to
  (* links *)
  ctl,        \* ctl[h]: how often h's control message reached the switch
  out         \* out[h]: the results sent to h; send_psn[h] is its length

hostVars == <<sent, posted, recvd>>
slotVars == <<degree, arrival, agg_buffer>>
threadVars == <<pc, cur, todo>>
vars == <<sent, acked, posted, recvd, agg_epsn, down_epsn, degree, arrival,
          agg_buffer, bcast_buffer, pc, cur, todo, ctl, out>>

------------------------------------------------------------------------------
Slots == 0 .. N - 1
Psns == 0 .. Total
fan_in == Cardinality(Hosts)

(* #define Idx(psn) *)
Idx(psn) == psn % N

(* A sum: for every host the sequence of its PSNs added into it. *)
Sums == [Hosts -> Seq(Psns)]
NoData == [h \in Hosts |-> << >>]
(* The only right result for data packet k. *)
ExactSum(k) == [h \in Hosts |-> <<k>>]

Init ==
    /\ sent = [h \in Hosts |-> 0]
    /\ acked = [h \in Hosts |-> 0]
    /\ posted = [h \in Hosts |-> FALSE]
    /\ recvd = [h \in Hosts |-> 0]
    /\ agg_epsn = [h \in Hosts |-> 0]
    /\ down_epsn = 0
    /\ degree = [i \in Slots |-> 0]
    /\ arrival = [i \in Slots |-> {}]
    /\ agg_buffer = [i \in Slots |-> NoData]
    /\ bcast_buffer = [i \in Slots |-> NoData]
    /\ pc = [h \in Hosts |-> "idle"]
    /\ cur = [h \in Hosts |-> 0]
    /\ todo = [h \in Hosts |-> {}]
    /\ ctl = [h \in Hosts |-> 0]
    /\ out = [h \in Hosts |-> << >>]

------------------------------------------------------------------------------
(* The hosts: inccl_allreduce_sendrecv *)

(* send_control_message posts PSN 0. *)
SendControl(h) ==
    /\ sent[h] = 0
    /\ sent' = [sent EXCEPT ![h] = 1]
    /\ UNCHANGED <<acked, posted, recvd, agg_epsn, down_epsn, slotVars,
                   bcast_buffer, threadVars, ctl, out>>

(* The control message's completion is polled (its ACK came), then all the *)
(* receive requests are posted, before any data is sent.                   *)
PostReceives(h) ==
    /\ acked[h] > 0
    /\ ~ posted[h]
    /\ posted' = [posted EXCEPT ![h] = TRUE]
    /\ UNCHANGED <<sent, acked, recvd, agg_epsn, down_epsn, slotVars,
                   bcast_buffer, threadVars, ctl, out>>

(* The initial window, then one more packet for every result received. *)
InWindow_OffByOne(h) == sent[h] <= recvd[h] + Window + 1
InWindow(h) == sent[h] <= recvd[h] + Window

(* The loop bound message_num. *)
MoreToSend_OffByOne(h) == sent[h] <= Total + 1
MoreToSend(h) == sent[h] <= Total

(* Data follows the completion of the control message and the receives. *)
ReadyToSend_OnAck(h) == acked[h] > 0
ReadyToSend(h) == posted[h]

SendData(h) ==
    /\ ReadyToSend(h)
    /\ MoreToSend(h)
    /\ InWindow(h)
    /\ sent' = [sent EXCEPT ![h] = @ + 1]
    /\ UNCHANGED <<acked, posted, recvd, agg_epsn, down_epsn, slotVars,
                   bcast_buffer, threadVars, ctl, out>>

(* The next result in PSN order completes a receive request. *)
ReceiveResult(h) ==
    /\ posted[h]
    /\ recvd[h] < Len(out[h])
    /\ recvd' = [recvd EXCEPT ![h] = @ + 1]
    /\ UNCHANGED <<sent, acked, posted, agg_epsn, down_epsn, slotVars,
                   bcast_buffer, threadVars, ctl, out>>

------------------------------------------------------------------------------
(* The switch: packet_handler of thread h *)

(* An ACK of everything below n reaches host h, or is lost on the way. *)
Acked(h, n) == [acked EXCEPT ![h] = IF n > @ THEN n ELSE @]
AckTo(h, n) == acked' = Acked(h, n) \/ acked' = acked

(* A control message is not compared with the expected PSN: whatever its  *)
(* PSN, agg_epsn moves on by one and an ACK goes out.  Its ACK is lost     *)
(* only if the host will send it again.                                    *)
HandleControl(h) ==
    /\ pc[h] = "idle"
    /\ sent[h] > 0
    /\ ctl[h] < MaxCtl
    /\ ctl' = [ctl EXCEPT ![h] = @ + 1]
    /\ agg_epsn' = [agg_epsn EXCEPT ![h] = @ + 1]
    /\ \/ acked' = Acked(h, 1)
       \/ ctl[h] + 1 < MaxCtl /\ acked' = acked
    /\ UNCHANGED <<hostVars, down_epsn, slotVars, bcast_buffer, threadVars,
                   out>>

(* A data packet h has posted arrives at its idle thread. *)
DataArrives(h, psn) == /\ pc[h] = "idle"
                       /\ psn \in 1 .. sent[h] - 1

(* Behind the expected PSN: the ACK of the last one accepted is repeated. *)
HandleLagging(h) ==
    /\ \E psn \in Psns : DataArrives(h, psn) /\ psn < agg_epsn[h]
    /\ AckTo(h, agg_epsn[h])
    /\ UNCHANGED <<hostVars, agg_epsn, down_epsn, slotVars, bcast_buffer,
                   threadVars, ctl, out>>

(* Ahead of it: a NAK, which acknowledges all that precedes the gap. *)
HandleAhead(h) ==
    /\ \E psn \in Psns : DataArrives(h, psn) /\ psn > agg_epsn[h]
    /\ AckTo(h, agg_epsn[h])
    /\ UNCHANGED <<hostVars, agg_epsn, down_epsn, slotVars, bcast_buffer,
                   threadVars, ctl, out>>

(* The expected one: agg_epsn moves on and the ACK leaves, both before the *)
(* packet is added to its slot.                                            *)
HandleExpected(h) ==
    /\ DataArrives(h, agg_epsn[h])
    /\ agg_epsn' = [agg_epsn EXCEPT ![h] = @ + 1]
    /\ AckTo(h, agg_epsn[h] + 1)
    /\ cur' = [cur EXCEPT ![h] = agg_epsn[h]]
    /\ pc' = [pc EXCEPT ![h] = "aggregate"]
    /\ UNCHANGED <<hostVars, down_epsn, slotVars, bcast_buffer, todo, ctl,
                   out>>

(* The thread that brings degree to fan_in owns the broadcast. *)
Completes_Early(h) == degree[Idx(cur[h])] + 1 >= fan_in - 1
Completes(h) == degree[Idx(cur[h])] + 1 = fan_in

(* What the slot holds once h's packet is in: the first contribution *)
(* overwrites the buffer, the later ones are added to it.            *)
Summed_NeverReset(h, psn) == [agg_buffer[Idx(psn)] EXCEPT ![h] = Append(@, psn)]
Summed(h, psn) ==
    LET i == Idx(psn)
        base == IF degree[i] = 0 THEN NoData ELSE agg_buffer[i]
    IN  [base EXCEPT ![h] = Append(@, psn)]

(* aggregate(), under the slot's mutex. *)
Aggregate(h) ==
    LET i == Idx(cur[h])
    IN  /\ pc[h] = "aggregate"
        /\ agg_buffer' = [agg_buffer EXCEPT ![i] = Summed(h, cur[h])]
        /\ arrival' = [arrival EXCEPT ![i] = @ \union {h}]
        /\ degree' = [degree EXCEPT ![i] = @ + 1]
        /\ pc' = [pc EXCEPT ![h] = IF Completes(h)
                                   THEN "cache" ELSE "idle"]
        /\ UNCHANGED <<hostVars, acked, agg_epsn, down_epsn, bcast_buffer,
                       cur, todo, ctl, out>>

(* cache_and_broadcast(), no lock held: the sum is copied and down_epsn *)
(* incremented.                                                         *)
Cache(h) ==
    LET i == Idx(cur[h])
    IN  /\ pc[h] = "cache"
        /\ bcast_buffer' = [bcast_buffer EXCEPT ![i] = agg_buffer[i]]
        /\ down_epsn' = down_epsn + 1
        /\ todo' = [todo EXCEPT ![h] = Hosts]
        /\ pc' = [pc EXCEPT ![h] = "send"]
        /\ UNCHANGED <<hostVars, acked, agg_epsn, slotVars, cur, ctl, out>>

(* One turn of its loop: send_psn of connection g is taken and incremented, *)
(* and the cached sum is sent with it.                                      *)
SendResult(h, g) ==
    /\ pc[h] = "send"
    /\ g \in todo[h]
    /\ out' = [out EXCEPT ![g] = Append(@, bcast_buffer[Idx(cur[h])])]
    /\ todo' = [todo EXCEPT ![h] = @ \ {g}]
    /\ pc' = [pc EXCEPT ![h] = IF todo[h] = {g} THEN "cleanup" ELSE "send"]
    /\ UNCHANGED <<hostVars, acked, agg_epsn, down_epsn, slotVars,
                   bcast_buffer, cur, ctl>>

(* The mutex is taken again and the slot is freed. *)
Cleanup_KeepsDegree(h) ==
    LET i == Idx(cur[h])
    IN  /\ pc[h] = "cleanup"
        /\ arrival' = [arrival EXCEPT ![i] = {}]
        /\ pc' = [pc EXCEPT ![h] = "idle"]
        /\ UNCHANGED <<hostVars, acked, agg_epsn, down_epsn, degree,
                       agg_buffer, bcast_buffer, cur, todo, ctl, out>>

Cleanup_KeepsArrival(h) ==
    LET i == Idx(cur[h])
    IN  /\ pc[h] = "cleanup"
        /\ degree' = [degree EXCEPT ![i] = 0]
        /\ pc' = [pc EXCEPT ![h] = "idle"]
        /\ UNCHANGED <<hostVars, acked, agg_epsn, down_epsn, arrival,
                       agg_buffer, bcast_buffer, cur, todo, ctl, out>>

Cleanup(h) ==
    LET i == Idx(cur[h])
    IN  /\ pc[h] = "cleanup"
        /\ degree' = [degree EXCEPT ![i] = 0]
        /\ arrival' = [arrival EXCEPT ![i] = {}]
        /\ pc' = [pc EXCEPT ![h] = "idle"]
        /\ UNCHANGED <<hostVars, acked, agg_epsn, down_epsn, agg_buffer,
                       bcast_buffer, cur, todo, ctl, out>>

------------------------------------------------------------------------------
HostStep(h) == SendControl(h) \/ PostReceives(h) \/ SendData(h)
               \/ ReceiveResult(h)

Broadcast(h) == Cache(h) \/ (\E g \in Hosts : SendResult(h, g)) \/ Cleanup(h)

ThreadStep(h) == \/ HandleControl(h) \/ HandleLagging(h) \/ HandleAhead(h)
                 \/ HandleExpected(h) \/ Aggregate(h) \/ Broadcast(h)

Next == \E h \in Hosts : HostStep(h) \/ ThreadStep(h)

Spec == Init /\ [][Next]_vars

(* What progress needs: the host program keeps polling and posting; the    *)
(* host NIC retransmits the packet the switch expects until it is taken;   *)
(* a pcap thread in its handler is scheduled; the downlink loses nothing.  *)
Fairness ==
    \A h \in Hosts :
        /\ WF_vars(SendControl(h)) /\ WF_vars(PostReceives(h))
        /\ WF_vars(SendData(h)) /\ WF_vars(ReceiveResult(h))
        /\ WF_vars(HandleControl(h)) /\ WF_vars(HandleExpected(h))
        /\ WF_vars(Aggregate(h)) /\ WF_vars(Broadcast(h))

FairSpec == Spec /\ Fairness

------------------------------------------------------------------------------
(* Types of the state of the hosts, the switch and the links. *)
TypeOK ==
    /\ sent \in [Hosts -> 0 .. Total + 1]
    /\ acked \in [Hosts -> Nat]
    /\ posted \in [Hosts -> BOOLEAN]
    /\ recvd \in [Hosts -> Nat]
    /\ agg_epsn \in [Hosts -> Nat]
    /\ down_epsn \in Nat
    /\ degree \in [Slots -> Nat]
    /\ arrival \in [Slots -> SUBSET Hosts]
    /\ agg_buffer \in [Slots -> Sums]
    /\ bcast_buffer \in [Slots -> Sums]
    /\ pc \in [Hosts -> {"idle", "aggregate", "cache", "send", "cleanup"}]
    /\ cur \in [Hosts -> Psns]
    /\ todo \in [Hosts -> SUBSET Hosts]
    /\ ctl \in [Hosts -> 0 .. MaxCtl]
    /\ out \in [Hosts -> Seq(Sums)]

(* down_epsn and send_psn[] are incremented with no lock held              *)
(* (switch_main.c:111, 133).  No two threads are ever between completing a *)
(* slot and freeing it, so no increment and no PSN is lost.                *)
OneBroadcaster ==
    \A g, h \in Hosts :
        /\ pc[g] \in {"cache", "send", "cleanup"}
        /\ pc[h] \in {"cache", "send", "cleanup"}
        => g = h

(* The k-th packet a host is sent is the sum over all hosts of data packet *)
(* k, each added exactly once: nothing lost to a slot overwritten or freed *)
(* too early, nothing added twice by a retransmission, no two PSNs mixed   *)
(* in one slot, no result sent out of order (switch_main.c:177-238).       *)
ResultsExact ==
    \A h \in Hosts : \A k \in 1 .. Len(out[h]) : out[h][k] = ExactSum(k)

(* A thread about to add packet cur[h] finds the slot free, or in use for  *)
(* that very PSN with h not in it yet.  The code never tests arrival[]: it *)
(* relies on the window to keep a slot from being reused while occupied    *)
(* (switch_main.c:188-217).                                                *)
NoSlotCollision ==
    \A h \in Hosts :
        LET i == Idx(cur[h])
        IN  pc[h] = "aggregate" /\ degree[i] > 0
            => /\ h \notin arrival[i]
               /\ \A g \in Hosts :
                     agg_buffer[i][g] = IF g \in arrival[i] THEN <<cur[h]>>
                                                            ELSE << >>

(* No result is sent to a host whose receive requests are not posted: with *)
(* rnr_retry = 0 and a switch that ignores NAKs it would be lost           *)
(* (api.c:560-583, switch_main.c:331).                                     *)
ReceiverReady == \A h \in Hosts : Len(out[h]) > 0 => posted[h]

(* When the last packet is handled and every host has returned, all slots  *)
(* are free again for the next collective (switch_main.c:233-238).         *)
SlotsFreeAtEnd ==
    (\A h \in Hosts : recvd[h] = Total /\ pc[h] = "idle")
        => \A i \in Slots : degree[i] = 0 /\ arrival[i] = {}

(* The switch and the library implement AllReduce: a packet counts as      *)
(* contributed once posted, a result as delivered once received.           *)
AR == INSTANCE AllReduce
        WITH contributed <- [h \in Hosts |-> IF sent[h] = 0 THEN 0
                                                           ELSE sent[h] - 1],
             delivered <- [h \in Hosts |-> SubSeq(out[h], 1, recvd[h])]

ImplementsAllReduce == AR!ARSpec

(* Every host's call returns: the window never waits for a result that     *)
(* waits for the window (api.c:633-728).                                   *)
AllReturn == <>(\A h \in Hosts : recvd[h] = Total)
==============================================================================
