---------------------------- MODULE NonTermination ----------------------------
(***************************************************************************)
(* AllReduce through the switch that terminates no connection               *)
(* (src/non_termination_switch.c), by hosts that call inccl_allreduce_write *)
(* (src/api.c).                                                             *)
(*                                                                          *)
(* The switches form a tree.  A switch adds up the packets of its ports,    *)
(* passes the sum to its parent with the PSN the hosts gave it, and hands   *)
(* the result down under that same PSN.  It acknowledges nothing itself: a  *)
(* host's RDMA WRITE is acknowledged by the host's own ACK of the result,   *)
(* which the switch reflects.  Recovery is the hosts' retransmission.       *)
(*                                                                          *)
(* One thread handles one packet at a time, so a call of pipeline() is one  *)
(* step.  Each host keeps its name for the port it is on, and its NIC is a  *)
(* go-back-N RC requester and responder.  Links are FIFO; a link may lose   *)
(* an ACK or a NAK, and the data packets whose PSN is in Losable, MaxLoss   *)
(* packets in all.                                                          *)
(*                                                                          *)
(* A packet's payload is the record of what was added into it and of the    *)
(* byte order its words are in.                                             *)
(***************************************************************************)
EXTENDS Integers, Sequences, FiniteSets

CONSTANTS Hosts, Switches, Root,
          Parent,       \* the switch above a host or a switch
          WINDOW_SIZE,  \* of the switch, in packets
          MsgLen,       \* packets of an RDMA WRITE (MESSAGE_SIZE)
          Messages,     \* message_num of the call
          HostWindow,   \* window_size / MESSAGE_SIZE of the library
          Losable,      \* the PSNs whose data packets can be lost
          MaxLoss,      \* how many packets are lost
          InFlight      \* a NIC times out with at most so many packets on its
                        \* link, and on the link of the switch it is at

Below == (Hosts \union Switches) \ {Root}

(* No switch has a port with nothing behind it: FAN_IN counts them all. *)
ASSUME TreeAssumption == /\ Root \in Switches
                         /\ Hosts \intersect Switches = {}
                         /\ IsFiniteSet(Below)
                         /\ Parent \in [Below -> Switches]
                         /\ \A n \in Below : Parent[n] # n
                         /\ \A s \in Switches : \E n \in Below : Parent[n] = s
ASSUME CallAssumption == /\ {WINDOW_SIZE, MsgLen, HostWindow} \subseteq Nat \ {0}
                         /\ {Messages, MaxLoss, InFlight} \subseteq Nat
                         /\ Losable \subseteq Nat
(* What a host may have outstanding is what the switch allows for: 2        *)
(* messages of 4 packets against 8.                                         *)
ASSUME WindowsAgree == HostWindow * MsgLen <= WINDOW_SIZE

VARIABLES
  (* hosts: the library *)
  posted,       \* RDMA WRITEs posted (send_num)
  dst,          \* what was copied out of receive_payload, packet by packet
  (* hosts: the NIC *)
  una,          \* PSNs below it are acknowledged
  nxt,          \* PSN transmitted next
  hi,           \* PSNs below it have been transmitted
  placed,       \* results placed in receive_payload; its length is the ePSN
  nakked,       \* a NAK went out for the gap now open
  (* switches: the N slots *)
  aggregator,
  reth_keeper,  \* for each of its ports the RETH of the port's packet
  arrival_state, \* ports that arrived, and Up when the slot holds the result
  degree,       \* packets counted, modulo FAN_IN, which is all that is used
  (* links *)
  up, down,     \* up[n] from n to its parent, down[n] from its parent to n
  losses

appVars == <<posted, dst>>
requesterVars == <<una, nxt, hi>>
responderVars == <<placed, nakked>>
hostVars == <<appVars, requesterVars, responderVars>>
slotVars == <<aggregator, reth_keeper, arrival_state, degree>>
vars == <<hostVars, slotVars, up, down, losses>>

------------------------------------------------------------------------------
N == 2 * WINDOW_SIZE
Slots == 0 .. N - 1
Idx(psn) == psn % N
Total == Messages * MsgLen
Psns == 0 .. Total - 1

Ports(s) == {n \in Below : Parent[n] = s}
FAN_IN(s) == Cardinality(Ports(s))
Up == "parent"

(* The port to the parent is none of those to the children. *)
ASSUME UpAssumption == Up \notin Below

(* Payloads.  PSN k carries chunk k + 1 of the vector. *)
NoSum == [h \in Hosts |-> << >>]
Zero == [sum |-> NoSum, order |-> "zero"]
ExactSum(k) == [h \in Hosts |-> <<k>>]
Own(h, psn) == [sum |-> [NoSum EXCEPT ![h] = <<psn + 1>>], order |-> "net"]

(* ntohl and htonl over the words of a buffer. *)
Swapped(order) == CASE order = "net" -> "host"
                    [] order = "host" -> "net"
                    [] OTHER -> order

(* aggregator[..][i] += ntohl(data[i]).  Words in different orders, or two  *)
(* in the wrong one, do not add up to a sum in any order.                   *)
Plus_Overwrites(cell, val) == [val EXCEPT !.order = Swapped(@)]
Plus(cell, val) ==
    LET order == Swapped(val.order)
    IN  [sum |-> [h \in Hosts |-> cell.sum[h] \o val.sum[h]],
         order |-> IF cell.order = "zero" THEN order
                   ELSE IF cell.order = "host" /\ order = "host" THEN "host"
                   ELSE "mixed"]

(* Packets.  A RETH is named by the PSN of the message's first packet. *)
NoReth == -1
Packet(kind, psn, val, reth) ==
    [kind |-> kind, psn |-> psn, val |-> val, reth |-> reth]

(* RDMA WRITE FIRST or ONLY, or what follows it. *)
KindOf(psn) == IF psn % MsgLen = 0 THEN "write" ELSE "data"

send_roce_ack_Next(psn) == Packet("ack", psn + 1, Zero, NoReth)
send_roce_ack(psn) == Packet("ack", psn, Zero, NoReth)
send_roce_data(val, psn) == Packet("data", psn, val, NoReth)
send_roce_data_with_reth(val, psn, reth) ==
    Packet("write", psn, [val EXCEPT !.order = Swapped(@)], reth)

(* build_eth_packet turns the words around only behind a RETH. *)
Frame(kind, val, psn, reth) ==
    IF kind = "write" THEN send_roce_data_with_reth(val, psn, reth)
                      ELSE send_roce_data(val, psn)

Init ==
    /\ posted = [h \in Hosts |-> 0]
    /\ dst = [h \in Hosts |-> << >>]
    /\ una = [h \in Hosts |-> 0]
    /\ nxt = [h \in Hosts |-> 0]
    /\ hi = [h \in Hosts |-> 0]
    /\ placed = [h \in Hosts |-> << >>]
    /\ nakked = [h \in Hosts |-> FALSE]
    /\ aggregator = [s \in Switches |-> [i \in Slots |-> Zero]]
    /\ reth_keeper = [s \in Switches |->
                        [i \in Slots |-> [n \in Below |-> NoReth]]]
    /\ arrival_state = [s \in Switches |-> [i \in Slots |-> {}]]
    /\ degree = [s \in Switches |-> [i \in Slots |-> 0]]
    /\ up = [n \in Below |-> << >>]
    /\ down = [n \in Below |-> << >>]
    /\ losses = 0

------------------------------------------------------------------------------
(* The library: inccl_allreduce_write *)

InitialWindow == IF HostWindow < Messages THEN HostWindow ELSE Messages

(* The first window of RDMA WRITEs, before any completion is polled. *)
PostInitial(h) ==
    /\ posted[h] = 0
    /\ posted' = [posted EXCEPT ![h] = InitialWindow]
    /\ UNCHANGED <<dst, requesterVars, responderVars, slotVars, up, down,
                   losses>>

(* What is in receive_payload where no result of this call was placed. *)
Content(h, psn) == IF psn < Len(placed[h]) THEN placed[h][psn + 1] ELSE Zero

Message(h, m) == [k \in 1 .. MsgLen |-> Content(h, m * MsgLen + k - 1)]

(* A WRITE is complete when its last packet is acknowledged; the library   *)
(* takes that for the arrival of the result, copies it out and posts the   *)
(* next message.                                                           *)
PollCompletion(h) ==
    /\ Len(dst[h]) < Total
    /\ una[h] >= Len(dst[h]) + MsgLen
    /\ dst' = [dst EXCEPT ![h] = @ \o Message(h, Len(@) \div MsgLen)]
    /\ posted' = [posted EXCEPT ![h] = IF @ < Messages THEN @ + 1 ELSE @]
    /\ UNCHANGED <<requesterVars, responderVars, slotVars, up, down, losses>>

------------------------------------------------------------------------------
(* The host's NIC *)

(* The requester sends what is posted, in PSN order. *)
Transmit(h) ==
    /\ nxt[h] < posted[h] * MsgLen
    /\ up' = [up EXCEPT ![h] =
                Append(@, Packet(KindOf(nxt[h]), nxt[h], Own(h, nxt[h]),
                                 IF KindOf(nxt[h]) = "write" THEN nxt[h]
                                                             ELSE NoReth))]
    /\ nxt' = [nxt EXCEPT ![h] = @ + 1]
    /\ hi' = [hi EXCEPT ![h] = IF nxt[h] = @ THEN @ + 1 ELSE @]
    /\ UNCHANGED <<appVars, una, responderVars, slotVars, down, losses>>

(* No ACK in time: everything unacknowledged is sent again. *)
Timeout(h) ==
    /\ una[h] < nxt[h]
    /\ \A n \in Below \intersect {h, Parent[h]} :
          Len(up[n]) + Len(down[n]) <= InFlight
    /\ nxt' = [nxt EXCEPT ![h] = una[h]]
    /\ UNCHANGED <<appVars, una, hi, responderVars, slotVars, up, down,
                   losses>>

(* An ACK covers all PSNs up to its own. *)
TakeAck(h, p) ==
    /\ p.kind = "ack"
    /\ una' = [una EXCEPT ![h] = IF @ <= p.psn /\ p.psn < hi[h]
                                 THEN p.psn + 1 ELSE @]
    /\ nxt' = [nxt EXCEPT ![h] = IF @ < una'[h] THEN una'[h] ELSE @]
    /\ UNCHANGED <<up, responderVars>>

Answer(h, kind, psn) ==
    up' = [up EXCEPT ![h] = Append(@, Packet(kind, psn, Zero, NoReth))]

(* The expected PSN is placed, one already placed is acknowledged again,   *)
(* and a gap is reported once.                                             *)
Place(h, p) ==
    /\ p.kind # "ack"
    /\ p.psn = Len(placed[h])
    /\ placed' = [placed EXCEPT ![h] = Append(@, p.val)]
    /\ nakked' = [nakked EXCEPT ![h] = FALSE]
    /\ Answer(h, "ack", p.psn)
    /\ UNCHANGED <<una, nxt>>

AnswerAgain(h, p) ==
    /\ p.kind # "ack"
    /\ p.psn < Len(placed[h])
    /\ Answer(h, "ack", Len(placed[h]) - 1)
    /\ UNCHANGED <<una, nxt, responderVars>>

ReportGap(h, p) ==
    /\ p.kind # "ack"
    /\ p.psn > Len(placed[h])
    /\ IF nakked[h] THEN up' = up ELSE Answer(h, "nak", Len(placed[h]))
    /\ nakked' = [nakked EXCEPT ![h] = TRUE]
    /\ UNCHANGED <<una, nxt, placed>>

Receive(h) ==
    /\ down[h] # << >>
    /\ LET p == Head(down[h])
       IN  TakeAck(h, p) \/ Place(h, p) \/ AnswerAgain(h, p) \/ ReportGap(h, p)
    /\ down' = [down EXCEPT ![h] = Tail(@)]
    /\ UNCHANGED <<appVars, hi, slotVars, losses>>

------------------------------------------------------------------------------
(* The switch: pipeline() *)

recv_from_port(s, port, psn) == port \in arrival_state[s][Idx(psn)]

AllIn_ButOne(s, arrived) == Cardinality(Ports(s) \ arrived) <= 1
AllIn(s, arrived) == Ports(s) \subseteq arrived
recv_from_all_fan_in(s, psn) == AllIn(s, arrival_state[s][Idx(psn)])

(* degree[Idx(psn)] += 1 *)
Counted_Plain(s, psn) == degree[s][Idx(psn)] + 1
Counted(s, psn) == (degree[s][Idx(psn)] + 1) % FAN_IN(s)

TakeUp(n) == [up EXCEPT ![n] = Tail(@)]
TakeUpSend(n, s, frame) == [up EXCEPT ![n] = Tail(@), ![s] = Append(@, frame)]
ToPort(n, frame) == [down EXCEPT ![n] = Append(@, frame)]

Broadcast(s, kind, val, psn, reths) ==
    [n \in Below |-> IF Parent[n] = s
                     THEN Append(down[n], Frame(kind, val, psn, reths[n]))
                     ELSE down[n]]

(* Retransmission of a packet whose result is here: the result again. *)
AnswerFromSlot_Silent(n, p) ==
    /\ recv_from_port(Parent[n], Up, p.psn)
    /\ up' = TakeUp(n)
    /\ down' = down

AnswerFromSlot(n, p) ==
    LET s == Parent[n]
        i == Idx(p.psn)
    IN  /\ recv_from_port(s, Up, p.psn)
        /\ up' = TakeUp(n)
        /\ down' = ToPort(n, Frame(p.kind, aggregator[s][i], p.psn,
                                   reth_keeper[s][i][n]))

(* And of one whose result is not: below the root, every FAN_IN-th packet  *)
(* of a complete slot sends the sum to the parent again.                   *)
UploadAgain_Never(n, p) ==
    LET s == Parent[n]
    IN  /\ ~ recv_from_port(s, Up, p.psn)
        /\ up' = TakeUp(n)
        /\ down' = down

UploadAgain_Acks(n, p) ==
    /\ ~ recv_from_port(Parent[n], Up, p.psn)
    /\ up' = TakeUp(n)
    /\ down' = ToPort(n, send_roce_ack(p.psn))

UploadAgain(n, p) ==
    LET s == Parent[n]
        i == Idx(p.psn)
    IN  /\ ~ recv_from_port(s, Up, p.psn)
        /\ up' = IF s # Root /\ recv_from_all_fan_in(s, p.psn)
                             /\ Counted(s, p.psn) = 0
                 THEN TakeUpSend(n, s, Frame(p.kind, aggregator[s][i], p.psn,
                                             NoReth))
                 ELSE TakeUp(n)
        /\ down' = down

UpRetransmission(n, p) ==
    LET s == Parent[n]
    IN  /\ recv_from_port(s, n, p.psn)
        /\ degree' = [degree EXCEPT ![s][Idx(p.psn)] = Counted(s, p.psn)]
        /\ AnswerFromSlot(n, p) \/ UploadAgain(n, p)
        /\ UNCHANGED <<aggregator, reth_keeper, arrival_state>>

(* What the first transmission leaves in the slot. *)
SumWith(n, p) == Plus(aggregator[Parent[n]][Idx(p.psn)], p.val)
ArrivedWith(n, p) == arrival_state[Parent[n]][Idx(p.psn)] \union {n}
RethsWith_FirstOnly(n, p) ==
    LET s == Parent[n]
        i == Idx(p.psn)
    IN  IF p.kind = "write" /\ arrival_state[s][i] = {}
        THEN [reth_keeper[s][i] EXCEPT ![n] = p.reth] ELSE reth_keeper[s][i]
RethsWith(n, p) ==
    LET kept == reth_keeper[Parent[n]][Idx(p.psn)]
    IN  IF p.kind = "write" THEN [kept EXCEPT ![n] = p.reth] ELSE kept

(* Not the last one: it is added, and that is all. *)
AddOnly(n, p) ==
    LET s == Parent[n]
        i == Idx(p.psn)
    IN  /\ ~ AllIn(s, ArrivedWith(n, p))
        /\ aggregator' = [aggregator EXCEPT ![s][i] = SumWith(n, p)]
        /\ reth_keeper' = [reth_keeper EXCEPT ![s][i] = RethsWith(n, p)]
        /\ arrival_state' = [arrival_state EXCEPT ![s][i] = ArrivedWith(n, p)]
        /\ degree' = [degree EXCEPT ![s][i] = Counted(s, p.psn)]
        /\ up' = TakeUp(n)
        /\ down' = down

(* The last one, below the root: the sum goes to the parent. *)
ForwardToParent(n, p) ==
    LET s == Parent[n]
        i == Idx(p.psn)
    IN  /\ s # Root
        /\ AllIn(s, ArrivedWith(n, p))
        /\ aggregator' = [aggregator EXCEPT ![s][i] = SumWith(n, p)]
        /\ reth_keeper' = [reth_keeper EXCEPT ![s][i] = RethsWith(n, p)]
        /\ arrival_state' = [arrival_state EXCEPT ![s][i] = ArrivedWith(n, p)]
        /\ degree' = [degree EXCEPT ![s][i] = Counted(s, p.psn)]
        /\ up' = TakeUpSend(n, s, Frame(p.kind, SumWith(n, p), p.psn, NoReth))
        /\ down' = down

(* The slot that clear_state_data is given when psn completes. *)
ToClear_Next(psn) == Idx(psn + 1)
ToClear_Late(psn) == Idx(psn + WINDOW_SIZE - 1)
ToClear(psn) == Idx(psn + WINDOW_SIZE)

(* The last one, at the root: the sum is the result.  The slot half the    *)
(* array ahead is cleared, and the result goes to every port.              *)
CompleteAtRoot(n, p) ==
    LET s == Parent[n]
        i == Idx(p.psn)
        j == ToClear(p.psn)
    IN  /\ s = Root
        /\ AllIn(s, ArrivedWith(n, p))
        /\ aggregator' = [aggregator EXCEPT ![s][i] = SumWith(n, p),
                                            ![s][j] = Zero]
        /\ reth_keeper' = [reth_keeper EXCEPT
                             ![s][i] = RethsWith(n, p),
                             ![s][j] = [m \in Below |-> NoReth]]
        /\ arrival_state' = [arrival_state EXCEPT
                               ![s][i] = ArrivedWith(n, p) \union {Up},
                               ![s][j] = {}]
        /\ degree' = [degree EXCEPT ![s][i] = Counted(s, p.psn), ![s][j] = 0]
        /\ up' = TakeUp(n)
        /\ down' = Broadcast(s, p.kind, SumWith(n, p), p.psn, RethsWith(n, p))

UpFirst(n, p) ==
    /\ ~ recv_from_port(Parent[n], n, p.psn)
    /\ AddOnly(n, p) \/ ForwardToParent(n, p) \/ CompleteAtRoot(n, p)

(* The two branches for data from below differ in the RETH only. *)
UpData(n) ==
    /\ up[n] # << >>
    /\ LET p == Head(up[n])
       IN  p.kind = "data" /\ (UpRetransmission(n, p) \/ UpFirst(n, p))
    /\ UNCHANGED <<hostVars, losses>>

UpWriteFirstOnly(n) ==
    /\ up[n] # << >>
    /\ LET p == Head(up[n])
       IN  p.kind = "write" /\ (UpRetransmission(n, p) \/ UpFirst(n, p))
    /\ UNCHANGED <<hostVars, losses>>

(* ACK reflection: whatever has opcode 0x11 goes back as an ACK. *)
UpAck(n) ==
    /\ up[n] # << >>
    /\ Head(up[n]).kind \in {"ack", "nak"}
    /\ down' = ToPort(n, send_roce_ack(Head(up[n]).psn))
    /\ up' = TakeUp(n)
    /\ UNCHANGED <<hostVars, slotVars, losses>>

(* A result from the parent, at switch s. *)
TakeResult(s, p) ==
    LET i == Idx(p.psn)
    IN  IF ~ recv_from_port(s, Up, p.psn) /\ recv_from_all_fan_in(s, p.psn)
        THEN /\ aggregator' = [aggregator EXCEPT ![s][i] = p.val]
             /\ arrival_state' = [arrival_state EXCEPT ![s][i] = @ \union {Up}]
             /\ down' = [Broadcast(s, p.kind, p.val, p.psn, reth_keeper[s][i])
                           EXCEPT ![s] = Tail(@)]
        ELSE /\ down' = [down EXCEPT ![s] = Tail(@)]
             /\ UNCHANGED <<aggregator, arrival_state>>

DownData(s) ==
    /\ down[s] # << >>
    /\ Head(down[s]).kind = "data" /\ TakeResult(s, Head(down[s]))
    /\ UNCHANGED <<hostVars, reth_keeper, degree, up, losses>>

DownWriteFirstOnly(s) ==
    /\ down[s] # << >>
    /\ Head(down[s]).kind = "write" /\ TakeResult(s, Head(down[s]))
    /\ UNCHANGED <<hostVars, reth_keeper, degree, up, losses>>

------------------------------------------------------------------------------
(* The links *)

CanLose(link) ==
    /\ link # << >>
    /\ losses < MaxLoss
    /\ Head(link).kind \in {"ack", "nak"} \/ Head(link).psn \in Losable

Lose(n) ==
    /\ \/ CanLose(up[n]) /\ up' = TakeUp(n) /\ down' = down
       \/ CanLose(down[n]) /\ down' = [down EXCEPT ![n] = Tail(@)] /\ up' = up
    /\ losses' = losses + 1
    /\ UNCHANGED <<hostVars, slotVars>>

------------------------------------------------------------------------------
HandleUp(n) == UpData(n) \/ UpWriteFirstOnly(n) \/ UpAck(n)
HandleDown(s) == DownData(s) \/ DownWriteFirstOnly(s)

Next ==
    \/ \E h \in Hosts : \/ PostInitial(h) \/ PollCompletion(h)
                        \/ Transmit(h) \/ Timeout(h) \/ Receive(h)
    \/ \E n \in Below : HandleUp(n) \/ Lose(n)
    \/ \E s \in Switches \ {Root} : HandleDown(s)

Spec == Init /\ [][Next]_vars

(* The library polls, the NIC sends, receives and times out, the switch    *)
(* takes what its ports have; the links lose MaxLoss packets at the most.  *)
Fairness ==
    /\ \A h \in Hosts : /\ WF_vars(PostInitial(h)) /\ WF_vars(PollCompletion(h))
                        /\ WF_vars(Transmit(h)) /\ WF_vars(Timeout(h))
                        /\ WF_vars(Receive(h))
    /\ \A n \in Below : WF_vars(HandleUp(n))
    /\ \A s \in Switches \ {Root} : WF_vars(HandleDown(s))

FairSpec == Spec /\ Fairness

------------------------------------------------------------------------------
Orders == {"zero", "net", "host", "mixed"}
Values == [sum : [Hosts -> Seq(1 .. Total)], order : Orders]
Packets == [kind : {"data", "write", "ack", "nak"}, psn : Psns,
            val : Values, reth : Psns \union {NoReth}]

(* Types of the state of the hosts, the switches and the links. *)
TypeOK ==
    /\ posted \in [Hosts -> 0 .. Messages]
    /\ dst \in [Hosts -> Seq(Values)]
    /\ una \in [Hosts -> 0 .. Total]
    /\ nxt \in [Hosts -> 0 .. Total]
    /\ hi \in [Hosts -> 0 .. Total]
    /\ placed \in [Hosts -> Seq(Values)]
    /\ \A h \in Hosts : Len(placed[h]) <= Total
    /\ nakked \in [Hosts -> BOOLEAN]
    /\ aggregator \in [Switches -> [Slots -> Values]]
    /\ reth_keeper \in [Switches -> [Slots -> [Below -> Psns \union {NoReth}]]]
    /\ arrival_state \in [Switches -> [Slots -> SUBSET (Below \union {Up})]]
    /\ degree \in [Switches -> [Slots -> Nat]]
    /\ \A s \in Switches : \A i \in Slots :
          /\ arrival_state[s][i] \subseteq Ports(s) \union {Up}
          /\ degree[s][i] < FAN_IN(s)
    /\ up \in [Below -> Seq(Packets)]
    /\ down \in [Below -> Seq(Packets)]
    /\ losses \in 0 .. MaxLoss

IsData(p) == p.kind \in {"data", "write"}

(* Every result a host's NIC places in the buffer is the sum of the packets *)
(* with its PSN, one of every host: nothing is added twice when it was sent *)
(* again, and no slot mixes two PSNs (non_termination_switch.c:370-446).    *)
ResultsExact ==
    \A h \in Hosts : \A k \in 1 .. Len(placed[h]) :
        placed[h][k].sum = ExactSum(k)

(* The slots carry no PSN: that a port's bit is set is all that tells a     *)
(* retransmission (:375, 412).  What is about to be taken for one is one:   *)
(* the slot holds the port's packet with the same PSN.                      *)
HoldsFrom(s, n, psn) ==
    \A h \in Hosts : (h = n \/ (n \in Switches /\ Parent[h] = n))
        => aggregator[s][Idx(psn)].sum[h] = <<psn + 1>>

RetransmissionsAreOnes ==
    \A n \in Below :
        up[n] # << >> /\ IsData(Head(up[n]))
            /\ recv_from_port(Parent[n], n, Head(up[n]).psn)
        => HoldsFrom(Parent[n], n, Head(up[n]).psn)

(* A reflected ACK tells a host that its packet was sent, and the library   *)
(* takes it for the arrival of the result (api.c:772): whatever is          *)
(* acknowledged has been placed.                                            *)
AckedIsPlaced == \A h \in Hosts : una[h] <= Len(placed[h])

(* What the call hands back, once a message is complete, is its result      *)
(* (api.c:735, 777-781).                                                    *)
CompletionIsResult ==
    \A h \in Hosts : \A k \in 1 .. Len(dst[h]) : dst[h][k].sum = ExactSum(k)

(* A result that starts a message carries the address its host gave for     *)
(* that message: the one kept with the slot (:513, 530).                    *)
RethIsOfMessage ==
    \A h \in Hosts : \A k \in 1 .. Len(down[h]) :
        down[h][k].kind = "write" => down[h][k].reth = down[h][k].psn

(* Words reach the hosts in network order: "the data is already in network  *)
(* order" (util.c:407), which ntohl in the library relies on.               *)
NetworkOrder ==
    \A h \in Hosts : \A k \in 1 .. Len(placed[h]) : placed[h][k].order = "net"

(* The slot cleared half the array ahead is one nobody can ask for again:   *)
(* every host has the acknowledgement of what it held (:235-242, 399, 527). *)
ClearedIsDone ==
    [][\A i \in Slots :
          arrival_state[Root][i] # {} /\ arrival_state'[Root][i] = {}
          => \A g, h \in Hosts :
                \A k \in 1 .. Len(aggregator[Root][i].sum[g]) :
                    una[h] >= aggregator[Root][i].sum[g][k]]_vars

(* Hosts, NICs and switches implement AllReduce, up to byte order: a chunk  *)
(* is contributed when first transmitted, delivered when placed.            *)
AR == INSTANCE AllReduce
        WITH contributed <- hi,
             delivered <- [h \in Hosts |->
                             [k \in 1 .. Len(placed[h]) |-> placed[h][k].sum]]

ImplementsAllReduce == AR!ARSpec

(* Every call returns: retransmission makes good what was lost             *)
(* (:374-383, 412-428).                                                    *)
AllReturn == <>(\A h \in Hosts : Len(dst[h]) = Total)

(* "Under this condition, all child can't get the result packet, so all fan *)
(* in will retransmit packets" (:421): no host has the acknowledgement of a *)
(* packet that its switch holds with all the others and without a result.   *)
FanInWillRetransmit ==
    \A s \in Switches \ {Root} : \A i \in Slots :
        AllIn(s, arrival_state[s][i]) /\ Up \notin arrival_state[s][i]
        => \A h \in Hosts : \A k \in 1 .. Len(aggregator[s][i].sum[h]) :
              una[h] < aggregator[s][i].sum[h][k]
==============================================================================
