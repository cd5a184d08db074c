------------------------- MODULE SwitchAllReduceProofs -------------------------
(***************************************************************************)
(* Proofs about SwitchAllReduce, for every number of hosts, slots, packets  *)
(* and every window smaller than the slot array.                            *)
(***************************************************************************)
EXTENDS SwitchAllReduceInv, SlotArithmetic, FiniteSetTheorems, TLAPS

(* A slot index is one of the N slots. *)
LEMMA IdxInSlots == ASSUME NEW p \in Nat PROVE Idx(p) \in Slots
BY SizeAssumption DEF Idx, Slots

(* An ACK keeps the hosts' knowledge a number. *)
LEMMA AckType ==
    ASSUME acked \in [Hosts -> Nat], NEW h \in Hosts, NEW n \in Nat, AckTo(h, n)
    PROVE  acked' \in [Hosts -> Nat]
BY DEF AckTo, Acked

(* The state stays within its types, however often a control message *)
(* reaches the switch.                                               *)
LEMMA TypeStep == ASSUME TypeOK, [Next]_vars PROVE TypeOK'
<1> USE SizeAssumption
<1>a. CASE UNCHANGED vars
  BY <1>a DEF TypeOK, vars
<1> SUFFICES ASSUME NEW h \in Hosts, HostStep(h) \/ ThreadStep(h)
             PROVE  TypeOK'
  BY <1>a DEF Next
<1>1. CASE SendControl(h)
  BY SMTT(30), <1>1 DEF TypeOK, SendControl, slotVars, threadVars
<1>2. CASE PostReceives(h)
  BY <1>2 DEF TypeOK, PostReceives, slotVars, threadVars
<1>3. CASE SendData(h)
  BY SMTT(30), <1>3 DEF TypeOK, SendData, MoreToSend, slotVars, threadVars
<1>4. CASE ReceiveResult(h)
  BY SMTT(30), <1>4 DEF TypeOK, ReceiveResult, slotVars, threadVars
<1>5. CASE HandleControl(h)
  <2>1. AckTo(h, 1)
    BY <1>5 DEF HandleControl, AckTo
  <2>2. acked' \in [Hosts -> Nat]
    BY <2>1, AckType DEF TypeOK
  <2>3. /\ agg_epsn' \in [Hosts -> Nat]
        /\ ctl' \in [Hosts -> 0 .. MaxCtl]
    BY SMTT(30), <1>5 DEF TypeOK, HandleControl
  <2> QED BY <1>5, <2>2, <2>3 DEF TypeOK, HandleControl, hostVars, slotVars,
                                  threadVars
<1>6. CASE HandleLagging(h)
  <2>1. acked' \in [Hosts -> Nat]
    BY <1>6, AckType DEF TypeOK, HandleLagging
  <2> QED BY <1>6, <2>1 DEF TypeOK, HandleLagging, hostVars, slotVars, threadVars
<1>7. CASE HandleAhead(h)
  <2>1. acked' \in [Hosts -> Nat]
    BY <1>7, AckType DEF TypeOK, HandleAhead
  <2> QED BY <1>7, <2>1 DEF TypeOK, HandleAhead, hostVars, slotVars, threadVars
<1>8. CASE HandleExpected(h)
  <2>1. agg_epsn[h] \in Psns
    BY <1>8 DEF TypeOK, HandleExpected, DataArrives, Psns
  <2>2. acked' \in [Hosts -> Nat]
    <3>1. agg_epsn[h] + 1 \in Nat /\ AckTo(h, agg_epsn[h] + 1)
      BY <1>8 DEF TypeOK, HandleExpected
    <3> QED BY <3>1, AckType DEF TypeOK
  <2>3. /\ agg_epsn' \in [Hosts -> Nat]
        /\ cur' \in [Hosts -> Psns]
        /\ pc' \in [Hosts -> {"idle", "aggregate", "cache", "send", "cleanup"}]
    BY <1>8, <2>1 DEF TypeOK, HandleExpected
  <2> QED BY <1>8, <2>2, <2>3 DEF TypeOK, HandleExpected, hostVars, slotVars
<1>9. CASE Aggregate(h)
  <2>1. /\ Idx(cur[h]) \in Slots
        /\ cur[h] \in Psns
    BY IdxInSlots DEF TypeOK, Psns
  <2>2. agg_buffer[Idx(cur[h])] \in Sums /\ NoData \in Sums
    BY <2>1 DEF TypeOK, NoData, Sums
  <2>3. \A base \in Sums : [base EXCEPT ![h] = Append(@, cur[h])] \in Sums
    BY <2>1 DEF Sums
  <2>4. Summed(h, cur[h]) \in Sums
    BY <2>2, <2>3 DEF Summed
  <2> QED BY <1>9, <2>1, <2>4 DEF TypeOK, Aggregate, hostVars
<1>10. CASE Cache(h)
  <2>1. Idx(cur[h]) \in Slots
    BY IdxInSlots DEF TypeOK, Psns
  <2> QED BY SMTT(30), <1>10, <2>1 DEF TypeOK, Cache, hostVars, slotVars
<1>11. CASE \E g \in Hosts : SendResult(h, g)
  <2>1. PICK g \in Hosts : SendResult(h, g)
    BY <1>11
  <2>2. bcast_buffer[Idx(cur[h])] \in Sums
    BY SMTT(30), IdxInSlots DEF TypeOK, Psns
  <2>3. out' \in [Hosts -> Seq(Sums)]
    BY <2>1, <2>2 DEF TypeOK, SendResult
  <2> QED BY <2>1, <2>3 DEF TypeOK, SendResult, hostVars, slotVars
<1>12. CASE Cleanup(h)
  <2>1. Idx(cur[h]) \in Slots
    BY IdxInSlots DEF TypeOK, Psns
  <2> QED BY <1>12, <2>1 DEF TypeOK, Cleanup, hostVars
<1> QED BY <1>1, <1>2, <1>3, <1>4, <1>5, <1>6, <1>7, <1>8, <1>9, <1>10,
           <1>11, <1>12 DEF HostStep, ThreadStep, Broadcast

LEMMA InitType == Init => TypeOK
BY SizeAssumption DEF Init, TypeOK, Slots, Psns, Sums, NoData

(* Every variable keeps its type, however often control messages arrive. *)
THEOREM TypeCorrect == Spec => []TypeOK
BY InitType, TypeStep, PTL DEF Spec

------------------------------------------------------------------------------
(* Steps that leave the progress of the threads alone *)

(* The slots keep their meaning while nothing is added or freed. *)
LEMMA SlotsSame ==
    ASSUME SlotInv, Freed' = Freed, UNCHANGED slotVars,
           \A g \in Hosts : NextToAdd(g)' = NextToAdd(g)
    PROVE  SlotInv'
BY DEF SlotInv, slotVars

(* A step of a host, or an ACK, touches none of the switch's invariants. *)
LEMMA SwitchSame ==
    ASSUME TypeOK, ThreadInv, OneBroadcaster, ProgressInv, SlotInv, OutInv,
           ResultsExact,
           UNCHANGED <<down_epsn, slotVars, bcast_buffer, threadVars, out>>,
           \A g \in Hosts : NextToAdd(g)' = NextToAdd(g),
           \A g \in Hosts : pc[g] # "idle" => agg_epsn'[g] = agg_epsn[g]
    PROVE  /\ ThreadInv' /\ OneBroadcaster' /\ ProgressInv'
           /\ SlotInv' /\ OutInv' /\ ResultsExact'
<1>1. Freed' = Freed
  BY DEF Freed, threadVars
<1>2. SlotInv'
  BY <1>1, SlotsSame
<1>3. ThreadInv' /\ OneBroadcaster'
  BY DEF ThreadInv, OneBroadcaster, threadVars
<1>4. ProgressInv'
  BY DEF ProgressInv, threadVars
<1>5. OutInv' /\ ResultsExact'
  BY DEF OutInv, ResultsExact, threadVars
<1> QED BY <1>2, <1>3, <1>4, <1>5

(* The threads' next packets are numbers, and the window keeps every thread *)
(* less than N packets ahead of the broadcasts.                             *)
LEMMA Bounds ==
    ASSUME TypeOK, HostInv, ThreadInv, OutInv
    PROVE  /\ Freed \in Nat /\ Freed <= down_epsn /\ down_epsn <= Freed + 1
           /\ \A g \in Hosts : /\ NextToAdd(g) \in Nat
                               /\ NextToAdd(g) <= down_epsn + N
           /\ \A g \in Hosts : pc[g] = "aggregate" => cur[g] < down_epsn + N
<1> USE SizeAssumption, WindowAssumption
<1>1. Freed \in Nat /\ Freed <= down_epsn /\ down_epsn <= Freed + 1
  <2>1. down_epsn \in Nat
    BY DEF TypeOK
  <2>2. CASE \E t \in Hosts : pc[t] \in {"send", "cleanup"}
    <3>1. PICK t \in Hosts : pc[t] \in {"send", "cleanup"}
      BY <2>2
    <3>2. cur[t] > 0 /\ cur[t] = down_epsn
      BY <3>1 DEF ThreadInv
    <3> QED BY <2>1, <2>2, <3>2 DEF Freed
  <2>3. CASE ~ \E t \in Hosts : pc[t] \in {"send", "cleanup"}
    BY <2>1, <2>3 DEF Freed
  <2> QED BY <2>2, <2>3
<1> SUFFICES ASSUME NEW g \in Hosts
             PROVE  /\ NextToAdd(g) \in Nat
                    /\ NextToAdd(g) <= down_epsn + N
                    /\ pc[g] = "aggregate" => cur[g] < down_epsn + N
  BY <1>1
<1>2. /\ sent[g] \in Nat /\ agg_epsn[g] \in Nat /\ recvd[g] \in Nat
      /\ cur[g] \in Nat /\ down_epsn \in Nat /\ Len(out[g]) \in Nat
  BY DEF TypeOK, Psns
<1>3. Len(out[g]) <= down_epsn
  BY <1>2 DEF OutInv
<1>4. agg_epsn[g] <= down_epsn + Window + 1
  BY <1>2, <1>3 DEF HostInv
<1>5. pc[g] = "aggregate" => agg_epsn[g] = cur[g] + 1
  BY DEF ThreadInv
<1>6. pc[g] = "aggregate" => cur[g] < down_epsn + N
  BY <1>2, <1>4, <1>5
<1>7. NextToAdd(g) \in Nat /\ NextToAdd(g) <= down_epsn + N
  BY <1>2, <1>4, <1>6 DEF NextToAdd
<1> QED BY <1>6, <1>7

(* The four steps of a host. *)
LEMMA HostStepInv ==
    ASSUME IInv, TypeOK', NEW h \in Hosts, HostStep(h)
    PROVE  IInv'
<1> USE SizeAssumption DEF slotVars, threadVars
<1>1. \A g \in Hosts : /\ sent[g] \in Nat /\ agg_epsn[g] \in Nat
                       /\ recvd[g] \in Nat /\ Len(out[g]) \in Nat
                       /\ acked[g] \in Nat
  BY DEF IInv, TypeOK
<1>2. /\ UNCHANGED <<down_epsn, slotVars, bcast_buffer, threadVars, out>>
      /\ UNCHANGED <<agg_epsn, acked, ctl>>
  BY DEF HostStep, SendControl, PostReceives, SendData, ReceiveResult
<1>3. \A g \in Hosts : NextToAdd(g)' = NextToAdd(g)
  BY <1>2 DEF NextToAdd
<1>4. /\ ThreadInv' /\ OneBroadcaster' /\ ProgressInv'
      /\ SlotInv' /\ OutInv' /\ ResultsExact'
  BY <1>2, <1>3, SwitchSame DEF IInv
<1>5. HostInv'
  <2>1. CASE SendControl(h)
    <3>1. /\ sent[h] = 0 /\ sent'[h] = 1
          /\ \A g \in Hosts : g # h => sent'[g] = sent[g]
          /\ UNCHANGED <<posted, recvd>>
      BY <2>1 DEF IInv, TypeOK, SendControl
    <3>2. HostInv
      BY DEF IInv
    <3> QED BY <1>1, <1>2, <3>1, <3>2 DEF HostInv
  <2>2. CASE PostReceives(h)
    BY <1>1, <2>2 DEF IInv, TypeOK, HostInv, PostReceives
  <2>3. CASE SendData(h)
    <3>1. /\ posted[h] /\ sent[h] <= recvd[h] + Window
          /\ sent'[h] = sent[h] + 1
          /\ \A g \in Hosts : g # h => sent'[g] = sent[g]
          /\ UNCHANGED <<posted, recvd>>
      BY <2>3 DEF IInv, TypeOK, SendData, ReadyToSend, InWindow
    <3>2. HostInv
      BY DEF IInv
    <3>3. \A g \in Hosts : /\ sent[g] <= sent'[g]
                           /\ sent'[g] <= recvd[g] + Window + 1
                           /\ sent'[g] > 1 => posted[g]
      BY <1>1, <3>1, <3>2 DEF HostInv
    <3>4. \A g \in Hosts : sent'[g] \in Nat
      BY DEF TypeOK
    <3> QED BY SMTT(30), <1>1, <1>2, <3>1, <3>2, <3>3, <3>4 DEF HostInv
  <2>4. CASE ReceiveResult(h)
    BY SMTT(30), <1>1, <2>4 DEF IInv, TypeOK, HostInv, ReceiveResult
  <2> QED BY <2>1, <2>2, <2>3, <2>4 DEF HostStep
<1> QED BY <1>4, <1>5 DEF IInv

(* A control message that arrives once moves agg_epsn from 0 to 1. *)
LEMMA HandleControlInv ==
    ASSUME MaxCtl = 1, IInv, TypeOK', NEW h \in Hosts, HandleControl(h)
    PROVE  IInv'
<1> USE DEF slotVars, threadVars, hostVars
<1>1. agg_epsn[h] = 0 /\ acked[h] = 0 /\ agg_epsn'[h] = 1 /\ ctl'[h] = 1
  BY DEF IInv, TypeOK, HostInv, HandleControl
<1>2. \A g \in Hosts : g # h => /\ agg_epsn'[g] = agg_epsn[g]
                               /\ acked'[g] = acked[g]
                               /\ ctl'[g] = ctl[g]
  BY DEF IInv, TypeOK, HandleControl, Acked
<1>3. acked'[h] \in {0, 1}
  BY <1>1 DEF IInv, TypeOK, HandleControl, Acked
<1>4. \A g \in Hosts : NextToAdd(g)' = NextToAdd(g)
  BY <1>1, <1>2 DEF NextToAdd, HandleControl
<1>5. \A g \in Hosts : pc[g] # "idle" => agg_epsn'[g] = agg_epsn[g]
  BY <1>2 DEF HandleControl
<1>6. /\ ThreadInv' /\ OneBroadcaster' /\ ProgressInv'
      /\ SlotInv' /\ OutInv' /\ ResultsExact'
  BY <1>4, <1>5, SwitchSame DEF IInv, HandleControl
<1>7. HostInv'
  <2>1. UNCHANGED <<sent, posted, recvd, out>> /\ sent[h] >= 1
    BY DEF HandleControl, IInv, TypeOK
  <2>2. HostInv /\ recvd[h] \in Nat /\ sent[h] \in Nat
    BY DEF IInv, TypeOK
  <2>3. ASSUME NEW g \in Hosts, g # h
        PROVE  /\ agg_epsn'[g] = 0 <=> ctl'[g] = 0
               /\ acked'[g] <= agg_epsn'[g]
               /\ posted'[g] => acked'[g] > 0
               /\ sent'[g] > 1 => posted'[g]
               /\ agg_epsn'[g] <= sent'[g]
               /\ sent'[g] <= recvd'[g] + Window + 1
               /\ recvd'[g] <= Len(out'[g])
    BY <1>2, <2>1, <2>2, <2>3 DEF HostInv
  <2>4. /\ agg_epsn'[h] = 0 <=> ctl'[h] = 0
        /\ acked'[h] <= agg_epsn'[h]
        /\ posted'[h] => acked'[h] > 0
        /\ sent'[h] > 1 => posted'[h]
        /\ agg_epsn'[h] <= sent'[h]
        /\ sent'[h] <= recvd'[h] + Window + 1
        /\ recvd'[h] <= Len(out'[h])
    BY <1>1, <1>3, <2>1, <2>2 DEF HostInv
  <2> QED BY <2>3, <2>4 DEF HostInv
<1> QED BY <1>6, <1>7 DEF IInv

(* A repeated ACK or a NAK: only the host's knowledge can change. *)
LEMMA AckOnlyInv ==
    ASSUME IInv, TypeOK', NEW h \in Hosts, HandleLagging(h) \/ HandleAhead(h)
    PROVE  IInv'
<1> USE DEF slotVars, threadVars, hostVars
<1>1. /\ AckTo(h, agg_epsn[h])
      /\ UNCHANGED <<hostVars, agg_epsn, down_epsn, slotVars, bcast_buffer,
                     threadVars, ctl, out>>
  BY DEF HandleLagging, HandleAhead
<1>2. \A g \in Hosts : acked[g] <= acked'[g] /\ acked'[g] <= agg_epsn[g]
  <2>1. AckTo(h, agg_epsn[h]) /\ acked \in [Hosts -> Nat]
        /\ agg_epsn \in [Hosts -> Nat]
    BY <1>1 DEF IInv, TypeOK
  <2>2. \A g \in Hosts : acked[g] <= agg_epsn[g]
    BY DEF IInv, HostInv
  <2> QED BY <2>1, <2>2 DEF AckTo, Acked
<1>3. HostInv'
  <2>1. /\ UNCHANGED <<sent, posted, recvd, agg_epsn, ctl, out>> /\ HostInv
        /\ acked \in [Hosts -> Nat] /\ acked' \in [Hosts -> Nat]
    BY <1>1 DEF IInv, TypeOK
  <2> QED BY <1>2, <2>1 DEF HostInv
<1>4. \A g \in Hosts : NextToAdd(g)' = NextToAdd(g)
  BY <1>1 DEF NextToAdd
<1> QED BY <1>1, <1>3, <1>4, SwitchSame DEF IInv

(* The expected packet is taken: its thread now has it in hand. *)
LEMMA HandleExpectedInv ==
    ASSUME IInv, TypeOK', NEW h \in Hosts, HandleExpected(h)
    PROVE  IInv'
<1> USE DEF slotVars, hostVars
<1>1. /\ pc[h] = "idle" /\ pc'[h] = "aggregate"
      /\ cur'[h] = agg_epsn[h] /\ agg_epsn'[h] = agg_epsn[h] + 1
      /\ agg_epsn[h] >= 1 /\ agg_epsn[h] <= sent[h] - 1
      /\ agg_epsn[h] \in Nat
  BY DEF IInv, TypeOK, HandleExpected, DataArrives
<1>2. \A g \in Hosts : g # h => /\ agg_epsn'[g] = agg_epsn[g]
                               /\ cur'[g] = cur[g] /\ pc'[g] = pc[g]
  BY DEF IInv, TypeOK, HandleExpected
<1>3. \A g \in Hosts : /\ acked[g] <= acked'[g]
                       /\ acked'[g] <= agg_epsn'[g]
  BY SMTT(30), <1>1, <1>2 DEF HandleExpected, AckTo, Acked, IInv, TypeOK, HostInv
<1>4. UNCHANGED <<hostVars, down_epsn, slotVars, bcast_buffer, todo, ctl, out>>
  BY DEF HandleExpected
<1>5. \A g \in Hosts : NextToAdd(g)' = NextToAdd(g)
  BY <1>1, <1>2 DEF NextToAdd
<1>6. HostInv'
  <2>1. /\ UNCHANGED <<sent, posted, recvd, ctl, out>> /\ HostInv
        /\ acked \in [Hosts -> Nat] /\ acked' \in [Hosts -> Nat]
        /\ sent[h] \in Nat /\ ctl[h] \in Nat
    BY <1>4 DEF IInv, TypeOK
  <2> QED BY SMTT(30), <1>1, <1>2, <1>3, <2>1 DEF HostInv
<1>7. ThreadInv' /\ OneBroadcaster'
  BY <1>1, <1>2, <1>4 DEF ThreadInv, OneBroadcaster, IInv
<1>8. ProgressInv'
  BY <1>1, <1>2, <1>4, <1>5 DEF ProgressInv, IInv
<1>9. Freed' = Freed
  BY <1>1, <1>2, <1>4 DEF Freed
<1>10. SlotInv'
  BY <1>4, <1>5, <1>9, SlotsSame DEF IInv
<1>11. OutInv' /\ ResultsExact'
  BY <1>4 DEF OutInv, ResultsExact, IInv
<1> QED BY <1>6, <1>7, <1>8, <1>10, <1>11 DEF IInv

------------------------------------------------------------------------------
(* Steps of a thread on its slot *)

(* The packet in hand belongs to one of the N slots that are in use. *)
LEMMA InHandInRange ==
    ASSUME IInv, NEW h \in Hosts, pc[h] = "aggregate"
    PROVE  /\ cur[h] \in Freed + 1 .. Freed + N
           /\ NextToAdd(h) = cur[h] /\ cur[h] \in Nat
           /\ h \notin arrival[Idx(cur[h])]
<1>1. NextToAdd(h) = cur[h] /\ cur[h] \in Nat /\ down_epsn \in Nat
  BY DEF NextToAdd, IInv, TypeOK, Psns
<1>2. cur[h] > down_epsn
  BY <1>1 DEF IInv, ProgressInv
<1>3. /\ Freed \in Nat /\ Freed <= down_epsn /\ down_epsn <= Freed + 1
      /\ cur[h] < down_epsn + N
  BY Bounds DEF IInv
<1>4. cur[h] \in Freed + 1 .. Freed + N
  BY <1>1, <1>2, <1>3, SizeAssumption
<1>5. ~ (NextToAdd(h) > cur[h])
  BY <1>1
<1>6. h \notin arrival[Idx(cur[h])]
  BY <1>4, <1>5 DEF IInv, SlotInv
<1> QED BY <1>1, <1>4, <1>6

(* Two different PSNs in the range of the slots in use have two slots. *)
LEMMA RangeInjective ==
    ASSUME NEW f \in Nat, NEW p \in f + 1 .. f + N, NEW q \in f + 1 .. f + N,
           p # q
    PROVE  Idx(p) # Idx(q)
<1>1. p \in Nat /\ q \in Nat /\ p - q < N /\ q - p < N
  BY SizeAssumption
<1> QED BY <1>1, SlotInjective, SizeAssumption DEF Idx

(* A full slot is one whose set of arrivals is everybody. *)
LEMMA FullSlot ==
    ASSUME NEW S \in SUBSET Hosts, Cardinality(S) = fan_in
    PROVE  S = Hosts
BY HostsAssumption, FS_Subset DEF fan_in

(* Under the mutex a thread adds its packet to the slot of its PSN. *)
LEMMA AggregateSlots ==
    ASSUME IInv, NEW h \in Hosts, Aggregate(h),
           NextToAdd(h)' = cur[h] + 1, Freed' = Freed,
           \A g \in Hosts : g # h => NextToAdd(g)' = NextToAdd(g)
    PROVE  SlotInv'
<1> DEFINE p == cur[h]
           i == Idx(p)
<1>1. /\ p \in Freed + 1 .. Freed + N /\ NextToAdd(h) = p /\ p \in Nat
      /\ h \notin arrival[i] /\ Freed \in Nat
  BY InHandInRange, Bounds DEF Aggregate, IInv
<1>2. i \in Slots
  BY <1>1, IdxInSlots
<1>3. /\ arrival' = [arrival EXCEPT ![i] = @ \union {h}]
      /\ degree' = [degree EXCEPT ![i] = @ + 1]
      /\ agg_buffer' = [agg_buffer EXCEPT ![i] = Summed(h, p)]
  BY DEF Aggregate
<1>4. /\ arrival \in [Slots -> SUBSET Hosts] /\ degree \in [Slots -> Nat]
      /\ agg_buffer \in [Slots -> Sums] /\ SlotInv
  BY DEF IInv, TypeOK
<1> HIDE DEF i
<1> SUFFICES ASSUME NEW q \in Freed + 1 .. Freed + N
             PROVE  /\ arrival'[Idx(q)] = {g \in Hosts : NextToAdd(g)' > q}
                    /\ degree'[Idx(q)] = Cardinality(arrival'[Idx(q)])
                    /\ degree'[Idx(q)] > 0
                         => agg_buffer'[Idx(q)] =
                              [g \in Hosts |-> IF g \in arrival'[Idx(q)]
                                               THEN <<q>> ELSE << >>]
  BY DEF SlotInv
<1>5. q \in Nat /\ Idx(q) \in Slots
  BY <1>1, IdxInSlots
<1>6. \A g \in Hosts : NextToAdd(g) \in Nat
  BY Bounds DEF IInv
<1>7. CASE q # p
  <2>1. Idx(q) # i
    BY <1>1, <1>7, RangeInjective DEF i
  <2>2. \A g \in Hosts : NextToAdd(g)' > q <=> NextToAdd(g) > q
    BY <1>1, <1>5, <1>6, <1>7
  <2>3. /\ arrival'[Idx(q)] = arrival[Idx(q)]
        /\ degree'[Idx(q)] = degree[Idx(q)]
        /\ agg_buffer'[Idx(q)] = agg_buffer[Idx(q)]
    BY <1>3, <1>4, <1>5, <2>1
  <2> QED BY <1>4, <2>2, <2>3 DEF SlotInv
<1>8. CASE q = p
  <2>1. Idx(q) = i
    BY <1>8 DEF i
  <2>2. /\ arrival'[i] = arrival[i] \union {h}
        /\ degree'[i] = degree[i] + 1
        /\ agg_buffer'[i] = Summed(h, p)
    BY <1>2, <1>3, <1>4
  <2>3. /\ arrival[i] = {g \in Hosts : NextToAdd(g) > p}
        /\ degree[i] = Cardinality(arrival[i])
        /\ degree[i] > 0
             => agg_buffer[i] = [g \in Hosts |-> IF g \in arrival[i]
                                                 THEN <<p>> ELSE << >>]
    BY <1>4, <1>8, <2>1 DEF SlotInv
  <2>4. arrival'[i] = {g \in Hosts : NextToAdd(g)' > p}
    BY <1>1, <1>6, <2>2, <2>3
  <2>5. IsFiniteSet(arrival[i])
    BY HostsAssumption, FS_Subset, <1>2, <1>4
  <2>6. degree'[i] = Cardinality(arrival'[i])
    <3>1. h \notin arrival[i]
      BY <1>1, <2>3
    <3>2. Cardinality(arrival[i] \union {h}) = Cardinality(arrival[i]) + 1
      BY <2>5, <3>1, FS_AddElement
    <3> QED BY <2>2, <2>3, <3>2
  <2>7. degree[i] = 0 => arrival[i] = {}
    BY <2>3, <2>5, FS_EmptySet
  <2>8. agg_buffer'[i] = [g \in Hosts |-> IF g \in arrival'[i]
                                          THEN <<p>> ELSE << >>]
    <3>1. Append(<< >>, p) = <<p>>
      OBVIOUS
    <3>2. CASE degree[i] = 0
      <4>1. agg_buffer'[i] = [NoData EXCEPT ![h] = Append(@, p)]
        BY <2>2, <3>2 DEF Summed, i
      <4>2. arrival'[i] = {h}
        BY <2>2, <2>7, <3>2
      <4> QED BY <3>1, <4>1, <4>2 DEF NoData
    <3>3. CASE degree[i] > 0
      <4>1. agg_buffer'[i] = [agg_buffer[i] EXCEPT ![h] = Append(@, p)]
        BY <2>2, <3>3 DEF Summed, i
      <4>2. agg_buffer[i] = [g \in Hosts |-> IF g \in arrival[i]
                                             THEN <<p>> ELSE << >>]
        BY <2>3, <3>3
      <4>3. agg_buffer[i][h] = << >>
        BY <1>1, <4>2 DEF i
      <4> QED BY <2>2, <3>1, <4>1, <4>2, <4>3
    <3>4. degree[i] \in Nat
      BY <1>2, <1>4
    <3> QED BY <3>2, <3>3, <3>4
  <2> QED BY <1>8, <2>1, <2>4, <2>6, <2>8
<1> QED BY <1>7, <1>8

(* A thread adds its packet; if the slot is full it goes on to broadcast, *)
(* and then it is the only one.                                           *)
LEMMA AggregateInv ==
    ASSUME IInv, TypeOK', NEW h \in Hosts, Aggregate(h)
    PROVE  IInv'
<1> DEFINE p == cur[h]
           i == Idx(p)
<1> USE DEF hostVars
<1>1. /\ pc[h] = "aggregate" /\ p \in Nat /\ down_epsn \in Nat
      /\ agg_epsn[h] = p + 1 /\ p > 0
  BY DEF Aggregate, IInv, TypeOK, ThreadInv, Psns
<1>2. /\ UNCHANGED <<hostVars, acked, agg_epsn, down_epsn, bcast_buffer, cur,
                     todo, ctl, out>>
      /\ pc' = [pc EXCEPT ![h] = IF Completes(h) THEN "cache" ELSE "idle"]
      /\ \A g \in Hosts : g # h => pc'[g] = pc[g]
      /\ pc'[h] = IF Completes(h) THEN "cache" ELSE "idle"
  BY DEF Aggregate, IInv, TypeOK
<1>3. /\ p \in Freed + 1 .. Freed + N /\ NextToAdd(h) = p
      /\ h \notin arrival[i] /\ Freed \in Nat
      /\ \A g \in Hosts : NextToAdd(g) \in Nat
  BY <1>1, InHandInRange, Bounds DEF IInv
<1>4. NextToAdd(h)' = p + 1
  BY <1>1, <1>2 DEF NextToAdd
<1>5. \A g \in Hosts : g # h => NextToAdd(g)' = NextToAdd(g)
  BY <1>2 DEF NextToAdd
<1>6. Freed' = Freed
  BY <1>1, <1>2 DEF Freed
<1>7. SlotInv'
  BY <1>4, <1>5, <1>6, AggregateSlots
<1>8. Completes(h) <=> \A g \in Hosts : NextToAdd(g)' > p
  <2>1. i \in Slots /\ arrival \in [Slots -> SUBSET Hosts]
        /\ degree \in [Slots -> Nat]
    BY <1>1, IdxInSlots DEF IInv, TypeOK
  <2>2. /\ arrival'[i] = arrival[i] \union {h}
        /\ degree'[i] = degree[i] + 1
    BY <2>1 DEF Aggregate
  <2>3. /\ arrival'[i] = {g \in Hosts : NextToAdd(g)' > p}
        /\ degree'[i] = Cardinality(arrival'[i])
    BY <1>3, <1>6, <1>7 DEF SlotInv
  <2>4. Completes(h) <=> Cardinality(arrival'[i]) = fan_in
    BY <2>2, <2>3 DEF Completes
  <2>5. arrival'[i] \in SUBSET Hosts
    BY <2>3
  <2>6. Cardinality(arrival'[i]) = fan_in <=> arrival'[i] = Hosts
    BY <2>5, FullSlot DEF fan_in
  <2> QED BY <2>3, <2>4, <2>6
<1>9. /\ p > down_epsn
      /\ \A g \in Hosts : NextToAdd(g) > down_epsn
  BY <1>1, <1>3 DEF IInv, ProgressInv
<1>10. Completes(h) => \A g \in Hosts : pc[g] \notin {"cache", "send", "cleanup"}
  <2> SUFFICES ASSUME Completes(h), NEW g \in Hosts,
                      pc[g] \in {"cache", "send", "cleanup"}
               PROVE  FALSE
    OBVIOUS
  <2>1. g # h
    BY <1>1
  <2>2. NextToAdd(g) > p
    BY <1>5, <1>8, <2>1
  <2>3. /\ NextToAdd(g) = cur[g] + 1 /\ cur[g] \in Nat
    <3>1. cur[g] \in Nat
      BY DEF IInv, TypeOK, Psns
    <3>2. cur[g] > 0 /\ agg_epsn[g] = cur[g] + 1 /\ pc[g] # "aggregate"
      BY DEF IInv, ThreadInv
    <3> QED BY <3>1, <3>2 DEF NextToAdd
  <2>4. CASE pc[g] = "cache"
    <3>1. cur[g] = down_epsn + 1
      BY <2>4 DEF IInv, ThreadInv
    <3>2. p > down_epsn + 1
      BY <1>3, <2>4 DEF IInv, ProgressInv
    <3> QED BY <1>1, <2>2, <2>3, <3>1, <3>2
  <2>5. CASE pc[g] \in {"send", "cleanup"}
    <3>1. cur[g] = down_epsn
      BY <2>5 DEF IInv, ThreadInv
    <3> QED BY <1>1, <1>9, <2>2, <2>3, <3>1
  <2> QED BY <2>4, <2>5
<1>11. OneBroadcaster'
  BY <1>2, <1>10 DEF OneBroadcaster, IInv
<1>12. \A g \in Hosts : NextToAdd(g)' \in Nat /\ NextToAdd(g)' >= NextToAdd(g)
  BY <1>1, <1>3, <1>4, <1>5
<1>13. Completes(h) => p = down_epsn + 1
  <2> SUFFICES ASSUME Completes(h) PROVE p = down_epsn + 1
    OBVIOUS
  <2>1. PICK g \in Hosts : NextToAdd(g) = down_epsn + 1
    BY <1>10 DEF IInv, ProgressInv
  <2>2. CASE g = h
    BY <1>3, <2>1, <2>2
  <2>3. CASE g # h
    <3>1. NextToAdd(g) > p
      BY <1>5, <1>8, <2>3
    <3> QED BY <1>1, <1>9, <2>1, <3>1
  <2> QED BY <2>2, <2>3
<1>14. ProgressInv'
  <2>1. \A g \in Hosts : NextToAdd(g)' > down_epsn
    BY <1>1, <1>3, <1>9, <1>12
  <2>2. ASSUME NEW t \in Hosts, NEW g \in Hosts, pc'[t] = "cache"
        PROVE  NextToAdd(g)' > down_epsn + 1
    <3>1. CASE t = h
      BY <1>2, <1>8, <1>13, <2>2, <3>1
    <3>2. CASE t # h
      <4>1. pc[t] = "cache"
        BY <1>2, <2>2, <3>2
      <4>2. NextToAdd(g) > down_epsn + 1
        BY <4>1 DEF IInv, ProgressInv
      <4> QED BY <1>1, <1>3, <1>12, <4>2
    <3> QED BY <3>1, <3>2
  <2>3. ASSUME \A t \in Hosts : pc'[t] # "cache"
        PROVE  \E g \in Hosts : NextToAdd(g)' = down_epsn + 1
    <3>1. ~ Completes(h) /\ \A t \in Hosts : pc[t] # "cache"
      BY <1>1, <1>2, <2>3
    <3>2. PICK g \in Hosts : NextToAdd(g) = down_epsn + 1
      BY <3>1 DEF IInv, ProgressInv
    <3>3. CASE g # h
      BY <1>5, <3>2, <3>3
    <3>4. CASE g = h
      <4>1. PICK g2 \in Hosts : ~ (NextToAdd(g2)' > p)
        BY <1>8, <3>1
      <4>2. NextToAdd(g2)' > down_epsn /\ p = down_epsn + 1
        BY <1>3, <2>1, <3>2, <3>4
      <4>3. NextToAdd(g2)' = down_epsn + 1
        BY <1>1, <1>12, <4>1, <4>2
      <4> QED BY <4>3
    <3> QED BY <3>3, <3>4
  <2> QED BY <1>2, <2>1, <2>2, <2>3 DEF ProgressInv
<1>15. ThreadInv'
  <2>1. ThreadInv
    BY DEF IInv
  <2> QED BY <1>1, <1>2, <1>13, <2>1 DEF ThreadInv
<1>16. HostInv' /\ OutInv' /\ ResultsExact'
  BY <1>2 DEF IInv, HostInv, OutInv, ResultsExact
<1> QED BY <1>7, <1>11, <1>14, <1>15, <1>16 DEF IInv

(* The thread that filled a slot copies it, counts it and sees no other *)
(* thread anywhere in a broadcast.                                      *)
LEMMA CacheInv ==
    ASSUME IInv, TypeOK', NEW h \in Hosts, Cache(h)
    PROVE  IInv'
<1> DEFINE p == cur[h]
           i == Idx(p)
<1> USE SizeAssumption DEF hostVars, slotVars
<1>1. /\ pc[h] = "cache" /\ p = down_epsn + 1 /\ down_epsn \in Nat /\ p \in Nat
      /\ agg_epsn[h] = p + 1
  BY DEF Cache, IInv, TypeOK, ThreadInv, Psns
<1>2. /\ UNCHANGED <<hostVars, acked, agg_epsn, slotVars, cur, ctl, out>>
      /\ down_epsn' = down_epsn + 1
      /\ pc'[h] = "send" /\ todo'[h] = Hosts
      /\ \A g \in Hosts : g # h => pc'[g] = pc[g] /\ todo'[g] = todo[g]
  BY DEF Cache, IInv, TypeOK
<1>3. \A g \in Hosts : g # h => pc[g] \notin {"cache", "send", "cleanup"}
  BY <1>1 DEF IInv, OneBroadcaster
<1>4. Freed = down_epsn /\ Freed' = down_epsn
  BY <1>1, <1>2, <1>3 DEF Freed
<1>5. \A g \in Hosts : /\ NextToAdd(g)' = NextToAdd(g)
                       /\ NextToAdd(g) \in Nat
                       /\ NextToAdd(g) > down_epsn + 1
  <2>1. \A g \in Hosts : NextToAdd(g)' = NextToAdd(g)
    BY <1>1, <1>2 DEF NextToAdd
  <2> QED BY <1>1, <2>1, Bounds DEF IInv, ProgressInv
<1>6. SlotInv'
  BY <1>2, <1>4, <1>5, SlotsSame DEF IInv
<1>7. bcast_buffer'[i] = ExactSum(p)
  <2>1. p \in Freed + 1 .. Freed + N
    BY <1>1, <1>4
  <2>2. arrival[i] = Hosts
    <3>1. arrival[i] = {g \in Hosts : NextToAdd(g) > p}
      BY <2>1 DEF IInv, SlotInv
    <3>2. \A g \in Hosts : NextToAdd(g) > p
      BY <1>1, <1>5
    <3> QED BY <3>1, <3>2
  <2>3. degree[i] = Cardinality(Hosts)
    BY <2>1, <2>2 DEF IInv, SlotInv
  <2>4. Cardinality(Hosts) > 0
    BY HostsAssumption, FS_EmptySet, FS_CardinalityType
  <2>5. agg_buffer[i] = ExactSum(p)
    BY <2>1, <2>2, <2>3, <2>4 DEF IInv, SlotInv, ExactSum
  <2>6. bcast_buffer'[i] = agg_buffer[i]
    BY <1>1, IdxInSlots DEF Cache, IInv, TypeOK
  <2> QED BY <2>5, <2>6
<1>8. ThreadInv'
  <2>1. ThreadInv /\ Hosts # {}
    BY HostsAssumption DEF IInv
  <2>2. ASSUME NEW g \in Hosts, g # h
        PROVE  /\ pc'[g] # "idle" => cur'[g] > 0 /\ agg_epsn'[g] = cur'[g] + 1
               /\ pc'[g] \notin {"cache", "send", "cleanup"}
               /\ todo'[g] = {}
    BY <1>2, <1>3, <2>1, <2>2 DEF ThreadInv
  <2>3. /\ cur'[h] > 0 /\ agg_epsn'[h] = cur'[h] + 1
        /\ cur'[h] = down_epsn' /\ todo'[h] # {}
        /\ bcast_buffer'[Idx(cur'[h])] = ExactSum(cur'[h])
    BY <1>1, <1>2, <1>7, <2>1
  <2> QED BY <1>2, <2>2, <2>3 DEF ThreadInv
<1>9. OneBroadcaster'
  BY <1>2, <1>3 DEF OneBroadcaster
<1>10. ProgressInv'
  <2>1. \A g \in Hosts : pc'[g] # "cache"
    BY <1>2, <1>3
  <2>2. NextToAdd(h) = down_epsn + 2
    BY <1>1 DEF NextToAdd
  <2> QED BY <1>1, <1>2, <1>5, <2>1, <2>2 DEF ProgressInv
<1>11. OutInv'
  <2>1. \A t \in Hosts : todo[t] = {}
    BY <1>1, <1>3 DEF IInv, ThreadInv
  <2> QED BY <1>1, <1>2, <2>1 DEF IInv, OutInv
<1>12. HostInv' /\ ResultsExact'
  BY <1>2 DEF IInv, HostInv, ResultsExact
<1> QED BY <1>6, <1>8, <1>9, <1>10, <1>11, <1>12 DEF IInv

(* One more connection gets the sum, which is the next it is due. *)
LEMMA SendResultInv ==
    ASSUME IInv, TypeOK', NEW h \in Hosts, NEW g \in Hosts, SendResult(h, g)
    PROVE  IInv'
<1> USE SizeAssumption DEF hostVars, slotVars
<1>1. /\ pc[h] = "send" /\ g \in todo[h] /\ cur[h] = down_epsn
      /\ down_epsn \in Nat
      /\ bcast_buffer[Idx(cur[h])] = ExactSum(down_epsn)
  BY DEF SendResult, IInv, TypeOK, ThreadInv
<1>2. /\ UNCHANGED <<hostVars, acked, agg_epsn, down_epsn, slotVars,
                     bcast_buffer, cur, ctl>>
      /\ pc'[h] = IF todo[h] = {g} THEN "cleanup" ELSE "send"
      /\ todo'[h] = todo[h] \ {g}
      /\ \A t \in Hosts : t # h => pc'[t] = pc[t] /\ todo'[t] = todo[t]
      /\ out'[g] = Append(out[g], ExactSum(down_epsn))
      /\ \A t \in Hosts : t # g => out'[t] = out[t]
  BY <1>1 DEF SendResult, IInv, TypeOK
<1>3. \A t \in Hosts : t # h => /\ pc[t] \notin {"cache", "send", "cleanup"}
                               /\ todo[t] = {}
  BY <1>1 DEF IInv, OneBroadcaster, ThreadInv
<1>4. Freed' = Freed
  BY <1>1, <1>2, <1>3 DEF Freed
<1>5. \A t \in Hosts : NextToAdd(t)' = NextToAdd(t)
  BY <1>1, <1>2 DEF NextToAdd
<1>6. SlotInv'
  BY <1>2, <1>4, <1>5, SlotsSame DEF IInv
<1>7. ThreadInv'
  <2>1. ThreadInv
    BY DEF IInv
  <2>2. todo'[h] = {} <=> todo[h] = {g}
    BY <1>1, <1>2
  <2> QED BY <1>1, <1>2, <1>3, <2>1, <2>2 DEF ThreadInv
<1>8. OneBroadcaster'
  BY <1>1, <1>2, <1>3 DEF OneBroadcaster
<1>9. ProgressInv'
  BY <1>1, <1>2, <1>3, <1>5 DEF IInv, ProgressInv
<1>10. out[g] \in Seq(Sums) /\ Len(out[g]) = down_epsn - 1
  BY <1>1 DEF IInv, TypeOK, OutInv
<1>11. Len(out'[g]) = down_epsn
  BY <1>1, <1>2, <1>10
<1>12. OutInv'
  <2>1. \A t \in Hosts : g \notin todo'[t]
    BY <1>2, <1>3
  <2>2. ASSUME NEW k \in Hosts, k # g
        PROVE  (\E t \in Hosts : k \in todo'[t]) <=> (\E t \in Hosts : k \in todo[t])
    BY <1>2, <1>3, <2>2
  <2> QED BY <1>2, <1>11, <2>1, <2>2 DEF IInv, OutInv
<1>13. ResultsExact'
  <2>1. ASSUME NEW k \in 1 .. Len(out'[g])
        PROVE  out'[g][k] = ExactSum(k)
    <3>1. CASE k = down_epsn
      BY <1>1, <1>2, <1>10, <3>1
    <3>2. CASE k # down_epsn
      <4>1. k \in 1 .. Len(out[g])
        BY <1>1, <1>10, <1>11, <3>2
      <4>2. out'[g][k] = out[g][k]
        BY <1>2, <1>10, <4>1
      <4> QED BY <4>1, <4>2 DEF IInv, ResultsExact
    <3> QED BY <3>1, <3>2
  <2> QED BY SMTT(30), <1>2, <2>1 DEF IInv, ResultsExact
<1>14. HostInv'
  <2>1. HostInv /\ recvd[g] \in Nat
    BY DEF IInv, TypeOK
  <2> QED BY <1>1, <1>2, <1>10, <1>11, <2>1 DEF HostInv
<1> QED BY <1>6, <1>7, <1>8, <1>9, <1>12, <1>13, <1>14 DEF IInv

(* The slot is freed for the PSN N further on, which nobody has reached. *)
LEMMA CleanupInv ==
    ASSUME IInv, TypeOK', NEW h \in Hosts, Cleanup(h)
    PROVE  IInv'
<1> DEFINE p == cur[h]
           i == Idx(p)
<1> USE SizeAssumption DEF hostVars, slotVars
<1>1. /\ pc[h] = "cleanup" /\ p = down_epsn /\ down_epsn \in Nat /\ p > 0
      /\ agg_epsn[h] = p + 1
  BY DEF Cleanup, IInv, TypeOK, ThreadInv
<1>2. /\ UNCHANGED <<hostVars, acked, agg_epsn, down_epsn, agg_buffer,
                     bcast_buffer, cur, todo, ctl, out>>
      /\ pc'[h] = "idle"
      /\ \A g \in Hosts : g # h => pc'[g] = pc[g]
  BY DEF Cleanup, IInv, TypeOK
<1>3. \A g \in Hosts : g # h => pc[g] \notin {"cache", "send", "cleanup"}
  BY <1>1 DEF IInv, OneBroadcaster
<1>4. Freed = down_epsn - 1 /\ Freed' = down_epsn
  BY <1>1, <1>2, <1>3 DEF Freed
<1>5. \A g \in Hosts : /\ NextToAdd(g)' = NextToAdd(g)
                       /\ NextToAdd(g) \in Nat
                       /\ NextToAdd(g) <= down_epsn + N
  <2>1. \A g \in Hosts : NextToAdd(g)' = NextToAdd(g)
    BY <1>1, <1>2 DEF NextToAdd
  <2> QED BY <2>1, Bounds DEF IInv
<1>6. SlotInv'
  <2>1. /\ i \in Slots /\ degree \in [Slots -> Nat]
        /\ arrival \in [Slots -> SUBSET Hosts]
    BY <1>1, IdxInSlots DEF IInv, TypeOK
  <2>2. /\ arrival'[i] = {} /\ degree'[i] = 0
        /\ \A j \in Slots : j # i => /\ arrival'[j] = arrival[j]
                                    /\ degree'[j] = degree[j]
    BY <2>1 DEF Cleanup
  <2> SUFFICES ASSUME NEW q \in down_epsn + 1 .. down_epsn + N
               PROVE  /\ arrival'[Idx(q)] = {g \in Hosts : NextToAdd(g)' > q}
                      /\ degree'[Idx(q)] = Cardinality(arrival'[Idx(q)])
                      /\ degree'[Idx(q)] > 0
                           => agg_buffer'[Idx(q)] =
                                [g \in Hosts |-> IF g \in arrival'[Idx(q)]
                                                 THEN <<q>> ELSE << >>]
    BY <1>4 DEF SlotInv
  <2>3. Idx(q) \in Slots /\ q \in Nat
    BY <1>1, IdxInSlots
  <2>4. CASE q <= Freed + N
    <3>1. /\ q \in Freed + 1 .. Freed + N /\ p \in Freed + 1 .. Freed + N
          /\ q # p /\ Freed \in Nat
      BY <1>1, <1>4, <2>3, <2>4
    <3>2. Idx(q) # i
      BY SMTT(30), <3>1, RangeInjective
    <3> QED BY <1>2, <1>5, <2>2, <2>3, <3>1, <3>2 DEF IInv, SlotInv
  <2>5. CASE q > Freed + N
    <3>1. q = p + N
      BY <1>1, <1>4, <2>3, <2>5
    <3>2. Idx(q) = i
      BY <1>1, <3>1, SlotPeriodic DEF Idx
    <3>3. \A g \in Hosts : ~ (NextToAdd(g)' > q)
      BY <1>1, <1>5, <3>1
    <3>4. {g \in Hosts : NextToAdd(g)' > q} = {}
      BY <3>3
    <3>5. arrival'[Idx(q)] = {} /\ degree'[Idx(q)] = 0
      BY <2>2, <3>2
    <3>6. Cardinality({}) = 0
      BY FS_EmptySet
    <3> QED BY <3>4, <3>5, <3>6
  <2> QED BY <1>1, <1>4, <2>3, <2>4, <2>5
<1>7. ThreadInv'
  <2>1. ThreadInv
    BY DEF IInv
  <2> QED BY <1>1, <1>2, <2>1 DEF ThreadInv
<1>8. OneBroadcaster'
  BY <1>2, <1>3 DEF OneBroadcaster
<1>9. ProgressInv'
  <2>1. NextToAdd(h) = down_epsn + 1
    BY <1>1 DEF NextToAdd
  <2>2. \A g \in Hosts : pc'[g] # "cache"
    BY <1>2, <1>3
  <2>3. \A g \in Hosts : NextToAdd(g) > down_epsn
    BY DEF IInv, ProgressInv
  <2> QED BY <1>2, <1>5, <2>1, <2>2, <2>3 DEF ProgressInv
<1>10. HostInv' /\ OutInv' /\ ResultsExact'
  BY <1>2 DEF IInv, HostInv, OutInv, ResultsExact
<1> QED BY <1>6, <1>7, <1>8, <1>9, <1>10 DEF IInv

------------------------------------------------------------------------------
(* The invariant and what follows from it *)

LEMMA InitInv == Init => IInv
<1> SUFFICES ASSUME Init PROVE IInv
  OBVIOUS
<1> USE SizeAssumption DEF Init
<1>1. TypeOK
  BY InitType
<1>2. HostInv /\ ThreadInv /\ OneBroadcaster /\ OutInv /\ ResultsExact
  BY DEF HostInv, ThreadInv, OneBroadcaster, OutInv, ResultsExact
<1>3. Freed = 0 /\ \A h \in Hosts : NextToAdd(h) = 1
  BY DEF Freed, NextToAdd
<1>4. ProgressInv
  BY <1>3, HostsAssumption DEF ProgressInv
<1>5. ASSUME NEW p \in Freed + 1 .. Freed + N
      PROVE  /\ arrival[Idx(p)] = {h \in Hosts : NextToAdd(h) > p}
             /\ degree[Idx(p)] = Cardinality(arrival[Idx(p)])
             /\ ~ (degree[Idx(p)] > 0)
  <2>1. p \in Nat /\ p >= 1
    BY <1>3, <1>5
  <2>2. arrival[Idx(p)] = {} /\ degree[Idx(p)] = 0
    BY <2>1, IdxInSlots
  <2>3. {h \in Hosts : NextToAdd(h) > p} = {}
    BY <1>3, <2>1
  <2>4. Cardinality({}) = 0
    BY FS_EmptySet
  <2> HIDE SizeAssumption DEF Init
  <2>5. Cardinality(arrival[Idx(p)]) = 0
    BY <2>2, <2>4
  <2>6. arrival[Idx(p)] = {h \in Hosts : NextToAdd(h) > p}
    BY <2>2, <2>3, Zenon
  <2>7. ~ (degree[Idx(p)] > 0)
    BY <2>2
  <2> QED BY <2>2, <2>5, <2>6, <2>7, Zenon
<1>6. SlotInv
  BY <1>5 DEF SlotInv
<1> QED BY <1>1, <1>2, <1>4, <1>6 DEF IInv

LEMMA StepInv ==
    ASSUME MaxCtl = 1, IInv, [Next]_vars
    PROVE  IInv'
<1>1. TypeOK'
  BY TypeStep DEF IInv
<1>2. CASE UNCHANGED vars
  <2>1. Freed' = Freed /\ \A g \in Hosts : NextToAdd(g)' = NextToAdd(g)
    BY <1>2 DEF Freed, NextToAdd, vars
  <2>2. UNCHANGED <<down_epsn, slotVars, bcast_buffer, threadVars, out>>
    BY <1>2 DEF vars, slotVars, threadVars
  <2>3. UNCHANGED <<hostVars, acked, agg_epsn, ctl, out>>
    BY <1>2 DEF vars, hostVars
  <2>4. HostInv'
    BY <2>3 DEF IInv, HostInv, hostVars
  <2> QED BY <1>1, <2>1, <2>2, <2>3, <2>4, SwitchSame DEF IInv
<1>3. CASE Next
  <2>1. PICK h \in Hosts : HostStep(h) \/ ThreadStep(h)
    BY <1>3 DEF Next
  <2>2. CASE HostStep(h)
    BY <1>1, <2>2, HostStepInv
  <2>3. CASE HandleControl(h)
    BY <1>1, <2>3, HandleControlInv
  <2>4. CASE HandleLagging(h) \/ HandleAhead(h)
    BY <1>1, <2>4, AckOnlyInv
  <2>5. CASE HandleExpected(h)
    BY <1>1, <2>5, HandleExpectedInv
  <2>6. CASE Aggregate(h)
    BY <1>1, <2>6, AggregateInv
  <2>7. CASE Cache(h)
    BY <1>1, <2>7, CacheInv
  <2>8. CASE \E g \in Hosts : SendResult(h, g)
    BY <1>1, <2>8, SendResultInv
  <2>9. CASE Cleanup(h)
    BY <1>1, <2>9, CleanupInv
  <2> QED BY <2>1, <2>2, <2>3, <2>4, <2>5, <2>6, <2>7, <2>8, <2>9
          DEF ThreadStep, Broadcast
<1> QED BY <1>2, <1>3

(* The invariant is inductive when control messages arrive once. *)
THEOREM Invariance == ASSUME MaxCtl = 1 PROVE Spec => []IInv
<1>1. Init => IInv
  BY InitInv
<1>2. IInv /\ [Next]_vars => IInv'
  BY StepInv
<1> QED BY <1>1, <1>2, PTL DEF Spec

(* The unlocked counters down_epsn and send_psn[] of switch_main.c:111,133 *)
(* are never touched by two threads at a time.                             *)
THEOREM BroadcastsExclusive == ASSUME MaxCtl = 1 PROVE Spec => []OneBroadcaster
<1>1. IInv => OneBroadcaster
  BY DEF IInv
<1> QED BY <1>1, Invariance, PTL

(* Every host is sent, in order, exactly the sums of all the hosts' packets: *)
(* what aggregate() and cache_and_broadcast() are for.                       *)
THEOREM AllResultsExact == ASSUME MaxCtl = 1 PROVE Spec => []ResultsExact
<1>1. IInv => ResultsExact
  BY DEF IInv
<1> QED BY <1>1, Invariance, PTL

(* The slot array is never overrun: the untested arrival[] flags and the *)
(* reuse of slots modulo SWITCH_ARRAY_LENGTH are safe.                   *)
THEOREM SlotsNeverCollide == ASSUME MaxCtl = 1 PROVE Spec => []NoSlotCollision
<1>1. IInv => NoSlotCollision
  <2> SUFFICES ASSUME IInv, NEW h \in Hosts, pc[h] = "aggregate",
                      degree[Idx(cur[h])] > 0
               PROVE  /\ h \notin arrival[Idx(cur[h])]
                      /\ \A g \in Hosts :
                           agg_buffer[Idx(cur[h])][g] =
                             IF g \in arrival[Idx(cur[h])] THEN <<cur[h]>>
                                                           ELSE << >>
    BY DEF NoSlotCollision
  <2>1. /\ cur[h] \in Freed + 1 .. Freed + N
        /\ h \notin arrival[Idx(cur[h])]
    BY InHandInRange
  <2>2. agg_buffer[Idx(cur[h])] =
          [g \in Hosts |-> IF g \in arrival[Idx(cur[h])] THEN <<cur[h]>>
                                                        ELSE << >>]
    BY <2>1 DEF IInv, SlotInv
  <2> QED BY <2>1, <2>2
<1> QED BY <1>1, Invariance, PTL

(* No result is sent to a host that has not posted its receive requests. *)
THEOREM ReceiversReady == ASSUME MaxCtl = 1 PROVE Spec => []ReceiverReady
<1>1. IInv => ReceiverReady
  <2> SUFFICES ASSUME IInv, NEW h \in Hosts, Len(out[h]) > 0
               PROVE  posted[h]
    BY DEF ReceiverReady
  <2>1. /\ down_epsn \in Nat /\ sent[h] \in Nat /\ agg_epsn[h] \in Nat
        /\ cur[h] \in Nat /\ Len(out[h]) \in Nat
    BY DEF IInv, TypeOK, Psns
  <2>2. down_epsn >= 1
    BY <2>1 DEF IInv, OutInv
  <2>3. NextToAdd(h) > down_epsn
    BY DEF IInv, ProgressInv
  <2>4. agg_epsn[h] > 1
    <3>1. pc[h] = "aggregate" => agg_epsn[h] = cur[h] + 1
      BY DEF IInv, ThreadInv
    <3> QED BY <2>1, <2>2, <2>3, <3>1 DEF NextToAdd
  <2>5. agg_epsn[h] <= sent[h] /\ (sent[h] > 1 => posted[h])
    BY DEF IInv, HostInv
  <2> QED BY <2>1, <2>4, <2>5
<1> QED BY <1>1, Invariance, PTL

(* The next collective starts from clean slots: once every host has its     *)
(* results and no thread is in its handler, all of them have been freed.    *)
THEOREM SlotsFreed == ASSUME MaxCtl = 1 PROVE Spec => []SlotsFreeAtEnd
<1>1. IInv => SlotsFreeAtEnd
  <2> SUFFICES ASSUME IInv, NEW i \in Slots,
                      \A h \in Hosts : recvd[h] = Total /\ pc[h] = "idle"
               PROVE  degree[i] = 0 /\ arrival[i] = {}
    BY DEF SlotsFreeAtEnd
  <2> USE SizeAssumption
  <2>1. PICK g \in Hosts : TRUE
    BY HostsAssumption
  <2>2. /\ down_epsn \in Nat /\ Freed = down_epsn
        /\ \A t \in Hosts : todo[t] = {}
    BY DEF IInv, TypeOK, Freed, ThreadInv
  <2>3. down_epsn >= Total
    <3>1. Len(out[g]) = down_epsn /\ recvd[g] <= Len(out[g])
      BY <2>2 DEF IInv, OutInv, HostInv
    <3> QED BY <3>1
  <2>4. ASSUME NEW h \in Hosts
        PROVE  NextToAdd(h) \in Nat /\ NextToAdd(h) <= Total + 1
    BY SMTT(30) DEF IInv, TypeOK, HostInv, NextToAdd
  <2>5. PICK p \in down_epsn + 1 .. down_epsn + N : p % N = i
    BY <2>2, SlotCovered DEF Slots
  <2>6. arrival[i] = {h \in Hosts : NextToAdd(h) > p}
        /\ degree[i] = Cardinality(arrival[i])
    BY <2>2, <2>5 DEF IInv, SlotInv, Idx
  <2>7. {h \in Hosts : NextToAdd(h) > p} = {}
    BY <2>2, <2>3, <2>4, <2>5
  <2> QED BY <2>6, <2>7, FS_EmptySet
<1> QED BY <1>1, Invariance, PTL

------------------------------------------------------------------------------
(* SwitchAllReduce implements AllReduce *)

(* The beginning of a sequence, and the beginning one longer. *)
LEMMA BeginningOf ==
    ASSUME NEW S, NEW s \in Seq(S), NEW n \in 0 .. Len(s)
    PROVE  /\ Len(SubSeq(s, 1, n)) = n
           /\ \A x \in S : SubSeq(Append(s, x), 1, n) = SubSeq(s, 1, n)
           /\ n < Len(s) => SubSeq(s, 1, n + 1) = Append(SubSeq(s, 1, n), s[n + 1])
OBVIOUS

LEMMA InitRefines == Init => AR!ARInit
<1> SUFFICES ASSUME Init PROVE AR!ARInit
  OBVIOUS
<1>1. \A h \in Hosts : sent[h] = 0 /\ SubSeq(out[h], 1, recvd[h]) = << >>
  BY DEF Init
<1> QED BY <1>1 DEF AR!ARInit

(* What a step that posts no data and receives nothing looks like to the    *)
(* callers: nothing.                                                        *)
LEMMA StutterRefines ==
    ASSUME UNCHANGED <<sent, recvd, out>>
    PROVE  UNCHANGED AR!arVars
BY DEF AR!arVars

(* Every step is a contribution, a delivery behind the barrier, or nothing  *)
(* to the callers.                                                          *)
LEMMA StepRefines ==
    ASSUME IInv, IInv', [Next]_vars
    PROVE  [AR!ARNext]_AR!arVars
<1> DEFINE con(h) == IF sent[h] = 0 THEN 0 ELSE sent[h] - 1
           del(h) == SubSeq(out[h], 1, recvd[h])
<1> USE SizeAssumption
<1>0. /\ sent \in [Hosts -> 0 .. Total + 1] /\ recvd \in [Hosts -> Nat]
      /\ out \in [Hosts -> Seq(Sums)] /\ down_epsn \in Nat
      /\ agg_epsn \in [Hosts -> Nat] /\ cur \in [Hosts -> Nat]
      /\ sent' \in [Hosts -> 0 .. Total + 1]
  BY DEF IInv, TypeOK, Psns
<1>1. \A h \in Hosts : /\ sent[h] \in 0 .. Total + 1 /\ recvd[h] \in Nat
                       /\ out[h] \in Seq(Sums) /\ recvd[h] \in 0 .. Len(out[h])
                       /\ Len(out[h]) \in Nat
  BY <1>0 DEF IInv, HostInv
<1>2. CASE UNCHANGED vars
  BY <1>2, StutterRefines DEF vars
<1> SUFFICES ASSUME NEW h \in Hosts, HostStep(h) \/ ThreadStep(h)
             PROVE  [AR!ARNext]_AR!arVars
  BY <1>2 DEF Next
<1>3. CASE SendControl(h)
  <2>1. UNCHANGED <<recvd, out>> /\ sent[h] = 0 /\ sent' = [sent EXCEPT ![h] = 1]
    BY <1>3 DEF SendControl
  <2>2. \A g \in Hosts : (IF sent'[g] = 0 THEN 0 ELSE sent'[g] - 1) = con(g)
    BY <1>0, <2>1
  <2>3. [g \in Hosts |-> IF sent'[g] = 0 THEN 0 ELSE sent'[g] - 1]
          = [g \in Hosts |-> IF sent[g] = 0 THEN 0 ELSE sent[g] - 1]
    BY <2>2
  <2> QED BY <2>1, <2>3 DEF AR!arVars
<1>4. CASE PostReceives(h)
  BY <1>4, StutterRefines DEF PostReceives
<1>5. CASE SendData(h)
  <2>1. /\ UNCHANGED <<recvd, out>> /\ sent[h] <= Total
        /\ sent' = [sent EXCEPT ![h] = @ + 1]
    BY <1>5 DEF SendData, MoreToSend
  <2>2. sent[h] > 0
    <3>1. posted[h] /\ acked[h] \in Nat /\ agg_epsn[h] \in Nat
      BY <1>5 DEF SendData, ReadyToSend, IInv, TypeOK
    <3> QED BY <1>1, <3>1 DEF IInv, HostInv
  <2>3. \A g \in Hosts : (IF sent'[g] = 0 THEN 0 ELSE sent'[g] - 1)
                           = IF g = h THEN con(g) + 1 ELSE con(g)
    BY SMTT(30), <1>0, <2>1, <2>2
  <2>4. [g \in Hosts |-> IF sent'[g] = 0 THEN 0 ELSE sent'[g] - 1]
          = [[g \in Hosts |-> con(g)] EXCEPT ![h] = @ + 1]
    BY <2>3
  <2>5. con(h) < Total
    BY <1>1, <2>1, <2>2
  <2>6. AR!Contribute(h)
    BY <2>1, <2>4, <2>5 DEF AR!Contribute
  <2> QED BY <2>6 DEF AR!ARNext
<1>6. CASE ReceiveResult(h)
  <2> DEFINE k == recvd[h] + 1
  <2>1. /\ UNCHANGED <<sent, out>> /\ recvd[h] < Len(out[h])
        /\ recvd' = [recvd EXCEPT ![h] = @ + 1]
    BY <1>6 DEF ReceiveResult
  <2>2. \A g \in Hosts : con(g) >= k
    <3>1. /\ down_epsn \in Nat /\ Len(out[h]) \in Nat
          /\ \A g \in Hosts : agg_epsn[g] \in Nat /\ cur[g] \in Nat
      BY <1>0
    <3>2. k <= down_epsn
      BY <1>1, <2>1, <3>1 DEF IInv, OutInv
    <3>3. ASSUME NEW g \in Hosts PROVE con(g) >= k
      <4>1. NextToAdd(g) > down_epsn /\ agg_epsn[g] <= sent[g]
        BY DEF IInv, ProgressInv, HostInv
      <4>2. pc[g] = "aggregate" => agg_epsn[g] = cur[g] + 1
        BY DEF IInv, ThreadInv
      <4> QED BY <1>1, <3>1, <3>2, <4>1, <4>2 DEF NextToAdd
    <3> QED BY <3>3
  <2>3. k <= Total
    BY <1>1, <2>2
  <2>4. out[h][k] = ExactSum(k)
    BY <1>1, <2>1 DEF IInv, ResultsExact
  <2>5. Len(del(h)) + 1 = k
    BY <1>1, BeginningOf
  <2>6. SubSeq(out[h], 1, recvd[h] + 1) = Append(del(h), ExactSum(k))
    BY <1>1, <2>1, <2>4, BeginningOf
  <2>7. [g \in Hosts |-> SubSeq(out'[g], 1, recvd'[g])]
          = [[g \in Hosts |-> del(g)] EXCEPT ![h] = Append(@, ExactSum(k))]
    BY <2>1, <2>6 DEF IInv, TypeOK
  <2>8. AR!ExactSum(k) = ExactSum(k)
    BY DEF AR!ExactSum, ExactSum
  <2> HIDE DEF con, del, k
  <2>9. AR!Deliver(h)
    BY <2>1, <2>2, <2>3, <2>5, <2>7, <2>8 DEF AR!Deliver, con, del
  <2> QED BY <2>9 DEF AR!ARNext
<1>7. CASE \E g \in Hosts : SendResult(h, g)
  <2>1. PICK g \in Hosts : SendResult(h, g)
    BY <1>7
  <2>2. /\ UNCHANGED <<sent, recvd>>
        /\ out' = [out EXCEPT ![g] = Append(@, bcast_buffer[Idx(cur[h])])]
    BY <2>1 DEF SendResult, hostVars
  <2>3. bcast_buffer[Idx(cur[h])] \in Sums
    <3>1. Idx(cur[h]) \in Slots
      BY <1>0, IdxInSlots
    <3> QED BY <3>1 DEF IInv, TypeOK
  <2>4. ASSUME NEW t \in Hosts
        PROVE  SubSeq(out'[t], 1, recvd[t]) = SubSeq(out[t], 1, recvd[t])
    <3>1. CASE t = g
      <4>1. out'[t] = Append(out[t], bcast_buffer[Idx(cur[h])])
        BY <1>0, <2>2, <3>1
      <4> QED BY <1>1, <2>3, <4>1, BeginningOf
    <3>2. CASE t # g
      BY <1>0, <2>2, <3>2
    <3> QED BY <3>1, <3>2
  <2>5. [t \in Hosts |-> SubSeq(out'[t], 1, recvd'[t])]
          = [t \in Hosts |-> SubSeq(out[t], 1, recvd[t])]
    BY <2>2, <2>4
  <2> QED BY <2>2, <2>5 DEF AR!arVars
<1>8. CASE HandleControl(h)
  BY <1>8, StutterRefines DEF HandleControl, hostVars
<1>9. CASE HandleLagging(h) \/ HandleAhead(h)
  BY <1>9, StutterRefines DEF HandleLagging, HandleAhead, hostVars
<1>10. CASE HandleExpected(h)
  BY <1>10, StutterRefines DEF HandleExpected, hostVars
<1>11. CASE Aggregate(h)
  BY <1>11, StutterRefines DEF Aggregate, hostVars
<1>12. CASE Cache(h)
  BY <1>12, StutterRefines DEF Cache, hostVars
<1>13. CASE Cleanup(h)
  BY <1>13, StutterRefines DEF Cleanup, hostVars
<1> QED BY <1>3, <1>4, <1>5, <1>6, <1>7, <1>8, <1>9, <1>10, <1>11, <1>12, <1>13
        DEF HostStep, ThreadStep, Broadcast

(* The switch and the library implement AllReduce, whatever the numbers of  *)
(* hosts, slots and packets: no result precedes any host's contribution.    *)
THEOREM Refinement == ASSUME MaxCtl = 1 PROVE Spec => ImplementsAllReduce
<1>1. Init => AR!ARInit
  BY InitRefines
<1>2. IInv /\ IInv' /\ [Next]_vars => [AR!ARNext]_AR!arVars
  BY StepRefines
<1> QED BY <1>1, <1>2, Invariance, PTL DEF Spec, ImplementsAllReduce, AR!ARSpec
==============================================================================
