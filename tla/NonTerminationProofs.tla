-------------------------- MODULE NonTerminationProofs --------------------------
(***************************************************************************)
(* Proofs about NonTermination, for every tree of switches, every window,   *)
(* message length and number of messages, and whatever is lost: the types   *)
(* of its state, and the arithmetic the proofs about trees go on with.      *)
(***************************************************************************)
EXTENDS NonTerminationInv, SlotArithmetic, FiniteSetTheorems, SequenceTheorems

------------------------------------------------------------------------------
(* Sizes *)

LEMMA Sizes ==
    /\ WINDOW_SIZE \in Nat \ {0} /\ MsgLen \in Nat \ {0}
    /\ HostWindow \in Nat \ {0} /\ Messages \in Nat
    /\ N \in Nat \ {0} /\ N = 2 * WINDOW_SIZE
    /\ HostWindow * MsgLen <= WINDOW_SIZE
    /\ MaxLoss \in Nat
BY CallAssumption, WindowsAgree DEF N

LEMMA MulMonotone ==
    ASSUME NEW a \in Nat, NEW b \in Nat, NEW m \in Nat, a <= b
    PROVE  a * m <= b * m
<1>1. PICK c \in Nat : b = a + c
  <2>1. b - a \in Nat /\ b = a + (b - a)
    OBVIOUS
  <2> QED BY <2>1
<1>2. (a + c) * m = a * m + c * m
  OBVIOUS
<1>3. a * m \in Nat /\ c * m \in Nat
  OBVIOUS
<1> QED BY <1>1, <1>2, <1>3

LEMMA DivMul ==
    ASSUME NEW a \in Nat, NEW m \in Nat \ {0}
    PROVE  /\ a \div m \in Nat
           /\ \A d \in Nat : a = d * m => a \div m = d
<1> DEFINE q == a \div m
           r == a % m
<1>1. q \in Int /\ r \in 0 .. m - 1 /\ a = (m * q) + r
  OBVIOUS
<1> HIDE DEF q, r
<1>2. q \in Nat
  <2>1. CASE q <= -1
    <3>1. m * q <= m * (-1)
      BY <1>1, <2>1
    <3> QED BY <1>1, <3>1
  <2> QED BY <1>1, <2>1
<1>3. ASSUME NEW d \in Nat, a = d * m PROVE q = d
  <2>1. m * d = d * m
    OBVIOUS
  <2>2. CASE q >= d + 1
    <3>1. m * q >= (m * d) + m
      BY <1>1, <2>2
    <3> QED BY <1>1, <1>3, <2>1, <3>1
  <2>3. CASE d >= q + 1
    <3>1. m * d >= (m * q) + m
      BY <1>1, <2>3
    <3> QED BY <1>1, <1>3, <2>1, <3>1
  <2> QED BY <1>1, <2>2, <2>3
<1> QED BY <1>2, <1>3 DEF q

LEMMA TotalNat == Total \in Nat /\ Total = Messages * MsgLen
BY Sizes DEF Total

LEMMA IdxInSlots == ASSUME NEW psn \in Nat PROVE Idx(psn) \in Slots
BY Sizes DEF Idx, Slots

LEMMA FanIn == ASSUME NEW s \in Switches PROVE FAN_IN(s) \in Nat \ {0}
<1>1. IsFiniteSet(Ports(s))
  BY TreeAssumption, FS_Subset DEF Ports
<1>2. Ports(s) # {}
  BY TreeAssumption DEF Ports
<1> QED BY <1>1, <1>2, FS_EmptySet, FS_CardinalityType DEF FAN_IN

LEMMA CountedType ==
    ASSUME TypeOK, NEW s \in Switches, NEW psn \in Psns
    PROVE  Counted(s, psn) \in Nat /\ Counted(s, psn) < FAN_IN(s)
<1>1. degree[s][Idx(psn)] \in Nat
  BY IdxInSlots DEF TypeOK, Psns
<1>2. FAN_IN(s) \in Nat \ {0}
  BY FanIn
<1> QED BY <1>1, <1>2 DEF Counted

------------------------------------------------------------------------------
(* Types of payloads and packets *)

LEMMA ZeroType == Zero \in Values
BY DEF Zero, NoSum, Values, Orders

LEMMA OwnType ==
    ASSUME NEW h \in Hosts, NEW psn \in Psns
    PROVE  Own(h, psn) \in Values
<1>1. psn + 1 \in 1 .. Total
  BY TotalNat DEF Psns
<1>2. <<psn + 1>> \in Seq(1 .. Total)
  BY <1>1
<1>3. [NoSum EXCEPT ![h] = <<psn + 1>>] \in [Hosts -> Seq(1 .. Total)]
  <2>1. NoSum \in [Hosts -> Seq(1 .. Total)]
    BY DEF NoSum
  <2> HIDE DEF NoSum
  <2> QED BY <1>2, <2>1
<1> QED BY <1>3 DEF Own, Values, Orders

LEMMA PlusType ==
    ASSUME NEW v \in Values, NEW w \in Values
    PROVE  Plus(v, w) \in Values
<1>1. ASSUME NEW h \in Hosts
      PROVE  v.sum[h] \o w.sum[h] \in Seq(1 .. Total)
  BY ConcatProperties DEF Values
<1>2. [h \in Hosts |-> v.sum[h] \o w.sum[h]] \in [Hosts -> Seq(1 .. Total)]
  BY <1>1
<1>3. w.order \in Orders /\ v.order \in Orders
  BY DEF Values
<1>4. Swapped(w.order) \in Orders
  BY <1>3 DEF Swapped, Orders
<1> QED BY <1>2, <1>4 DEF Plus, Values, Orders

LEMMA PacketType ==
    ASSUME NEW kind \in {"data", "write", "ack", "nak"}, NEW psn \in Psns,
           NEW v \in Values, NEW reth \in Psns \union {NoReth}
    PROVE  Packet(kind, psn, v, reth) \in Packets
BY DEF Packet, Packets

LEMMA FrameType ==
    ASSUME NEW kind \in {"data", "write", "ack", "nak"}, NEW psn \in Psns,
           NEW v \in Values, NEW reth \in Psns \union {NoReth}
    PROVE  Frame(kind, v, psn, reth) \in Packets
<1>1. v.order \in Orders
  BY DEF Values
<1>2. Swapped(v.order) \in Orders
  BY <1>1 DEF Swapped, Orders
<1>3. [v EXCEPT !.order = Swapped(@)] \in Values
  BY <1>2 DEF Values
<1>4. NoReth \in Psns \union {NoReth}
  OBVIOUS
<1> QED BY <1>3, <1>4, PacketType DEF Frame, send_roce_data_with_reth,
                                      send_roce_data

LEMMA AckType == ASSUME NEW psn \in Psns PROVE send_roce_ack(psn) \in Packets
BY ZeroType, PacketType DEF send_roce_ack

(* The links after something is taken from one or put on one. *)
LEMMA LinkTypes ==
    ASSUME NEW link \in [Below -> Seq(Packets)], NEW n \in Below
    PROVE  /\ \A p \in Packets :
                 [link EXCEPT ![n] = Append(@, p)] \in [Below -> Seq(Packets)]
           /\ link[n] # << >> =>
                 /\ Head(link[n]) \in Packets
                 /\ [link EXCEPT ![n] = Tail(@)] \in [Below -> Seq(Packets)]
<1>1. link[n] \in Seq(Packets)
  OBVIOUS
<1> QED BY <1>1

LEMMA BroadcastType ==
    ASSUME TypeOK, NEW s \in Switches, NEW v \in Values, NEW psn \in Psns,
           NEW kind \in {"data", "write"},
           NEW reths \in [Below -> Psns \union {NoReth}]
    PROVE  Broadcast(s, kind, v, psn, reths) \in [Below -> Seq(Packets)]
<1>1. ASSUME NEW n \in Below
      PROVE  Append(down[n], Frame(kind, v, psn, reths[n])) \in Seq(Packets)
  <2>1. Frame(kind, v, psn, reths[n]) \in Packets
    BY FrameType
  <2> QED BY <2>1 DEF TypeOK
<1> QED BY <1>1 DEF Broadcast, TypeOK

------------------------------------------------------------------------------
(* Types of the state, for every tree *)

LEMMA InitType == Init => TypeOK
<1> SUFFICES ASSUME Init PROVE TypeOK
  OBVIOUS
<1>1. Total \in Nat /\ Messages \in Nat /\ MaxLoss \in Nat
  BY Sizes, TotalNat
<1>2. aggregator \in [Switches -> [Slots -> Values]]
  BY ZeroType DEF Init
<1>3. /\ reth_keeper \in [Switches -> [Slots -> [Below -> Psns \union {NoReth}]]]
      /\ arrival_state \in [Switches -> [Slots -> SUBSET (Below \union {Up})]]
      /\ degree \in [Switches -> [Slots -> Nat]]
  BY DEF Init
<1>4. \A s \in Switches : \A i \in Slots :
          /\ arrival_state[s][i] \subseteq Ports(s) \union {Up}
          /\ degree[s][i] < FAN_IN(s)
  BY FanIn DEF Init
<1> QED BY <1>1, <1>2, <1>3, <1>4 DEF Init, TypeOK

(* What the library copies out for a message. *)
LEMMA MessageType ==
    ASSUME TypeOK, NEW h \in Hosts, NEW m \in Nat
    PROVE  Message(h, m) \in Seq(Values) /\ Len(Message(h, m)) = MsgLen
<1>1. ASSUME NEW psn \in Nat PROVE Content(h, psn) \in Values
  BY ZeroType DEF TypeOK, Content
<1>2. ASSUME NEW k \in 1 .. MsgLen PROVE m * MsgLen + k - 1 \in Nat
  BY Sizes
<1>3. Message(h, m) \in [1 .. MsgLen -> Values]
  BY <1>1, <1>2 DEF Message
<1>4. Message(h, m) \in Seq(Values)
  BY <1>3, Sizes, SeqDef
<1> QED BY <1>3, <1>4, Sizes, LenProperties

(* The library. *)
LEMMA LibraryType ==
    ASSUME TypeOK, NEW h \in Hosts, PostInitial(h) \/ PollCompletion(h)
    PROVE  TypeOK'
<1>1. CASE PostInitial(h)
  <2>1. InitialWindow \in 0 .. Messages
    BY Sizes DEF InitialWindow
  <2> QED BY <1>1, <2>1 DEF TypeOK, PostInitial, requesterVars,
                            responderVars, slotVars
<1>2. CASE PollCompletion(h)
  <2>1. \A m \in Nat : Message(h, m) \in Seq(Values)
    BY MessageType
  <2>2. Len(dst[h]) \div MsgLen \in Nat
    <3>1. Len(dst[h]) \in Nat
      BY DEF TypeOK
    <3> QED BY <3>1, Sizes, DivMul
  <2>3. dst[h] \o Message(h, Len(dst[h]) \div MsgLen) \in Seq(Values)
    BY <2>1, <2>2, ConcatProperties DEF TypeOK
  <2>4. dst' \in [Hosts -> Seq(Values)]
    BY <1>2, <2>3 DEF TypeOK, PollCompletion
  <2>5. posted' \in [Hosts -> 0 .. Messages]
    BY <1>2, Sizes DEF TypeOK, PollCompletion
  <2> QED BY <1>2, <2>4, <2>5 DEF TypeOK, PollCompletion, requesterVars,
                                  responderVars, slotVars
<1> QED BY <1>1, <1>2

(* The requester side of a host's NIC. *)
LEMMA RequesterType ==
    ASSUME TypeOK, NEW h \in Hosts, Transmit(h) \/ Timeout(h)
    PROVE  TypeOK'
<1>0. h \in Below
  BY TreeAssumption DEF Below
<1>1. CASE Transmit(h)
  <2>1. nxt[h] \in 0 .. Total /\ posted[h] \in 0 .. Messages
        /\ nxt[h] < posted[h] * MsgLen
    BY <1>1 DEF TypeOK, Transmit
  <2>2. posted[h] * MsgLen <= Total /\ posted[h] * MsgLen \in Nat
    BY <2>1, Sizes, TotalNat, MulMonotone
  <2>3. nxt[h] \in Psns /\ nxt[h] + 1 \in 0 .. Total
    BY <2>1, <2>2, TotalNat DEF Psns
  <2>4. /\ nxt' \in [Hosts -> 0 .. Total]
        /\ hi' \in [Hosts -> 0 .. Total]
    BY <1>1, <2>3 DEF TypeOK, Transmit
  <2>5. KindOf(nxt[h]) \in {"data", "write", "ack", "nak"}
    BY DEF KindOf
  <2>6. Packet(KindOf(nxt[h]), nxt[h], Own(h, nxt[h]),
               IF KindOf(nxt[h]) = "write" THEN nxt[h] ELSE NoReth) \in Packets
    <3>1. Own(h, nxt[h]) \in Values
      BY <2>3, OwnType
    <3> QED BY <2>3, <2>5, <3>1, PacketType
  <2>7. up' \in [Below -> Seq(Packets)]
    BY <1>0, <1>1, <2>6, LinkTypes DEF TypeOK, Transmit
  <2> QED BY <1>1, <2>4, <2>7 DEF TypeOK, Transmit, appVars, responderVars,
                                  slotVars
<1>2. CASE Timeout(h)
  BY <1>2 DEF TypeOK, Timeout, appVars, responderVars, slotVars
<1> QED BY <1>1, <1>2

(* The responder side. *)
LEMMA ReceiveType ==
    ASSUME TypeOK, NEW h \in Hosts, Receive(h)
    PROVE  TypeOK'
<1> DEFINE p == Head(down[h])
<1>0. h \in Below
  BY TreeAssumption DEF Below
<1>1. p \in Packets /\ down' \in [Below -> Seq(Packets)]
  BY <1>0, LinkTypes DEF TypeOK, Receive
<1>2. p.psn \in Psns /\ p.val \in Values /\ p.psn \in Nat
  BY <1>1 DEF Packets, Psns
<1>3. /\ Len(placed[h]) \in 0 .. Total /\ Total \in Nat
      /\ una[h] \in 0 .. Total /\ nxt[h] \in 0 .. Total /\ hi[h] \in 0 .. Total
  BY TotalNat DEF TypeOK
<1>4. /\ una' \in [Hosts -> 0 .. Total] /\ nxt' \in [Hosts -> 0 .. Total]
      /\ placed' \in [Hosts -> Seq(Values)]
      /\ \A g \in Hosts : Len(placed'[g]) <= Total
      /\ nakked' \in [Hosts -> BOOLEAN]
      /\ up' \in [Below -> Seq(Packets)]
  <2>1. CASE TakeAck(h, p)
    <3>1. una' \in [Hosts -> 0 .. Total]
      <4>1. \A u \in 0 .. Total : p.psn < hi[h] =>
               (IF u <= p.psn /\ p.psn < hi[h] THEN p.psn + 1 ELSE u) \in 0 .. Total
        BY <1>2, <1>3
      <4> HIDE DEF p
      <4> QED BY <1>3, <2>1, <4>1 DEF TypeOK, TakeAck
    <3>2. nxt' \in [Hosts -> 0 .. Total]
      BY <2>1, <3>1 DEF TypeOK, TakeAck
    <3> QED BY <2>1, <3>1, <3>2 DEF TypeOK, TakeAck, responderVars
  <2>2. ASSUME NEW kind \in {"ack", "nak"}, NEW psn \in Psns,
               Answer(h, kind, psn)
        PROVE  up' \in [Below -> Seq(Packets)]
    <3>1. Packet(kind, psn, Zero, NoReth) \in Packets
      BY ZeroType, PacketType
    <3> QED BY <1>0, <2>2, <3>1, LinkTypes DEF TypeOK, Answer
  <2>3. CASE Place(h, p)
    <3>1. up' \in [Below -> Seq(Packets)]
      BY <1>2, <2>2, <2>3 DEF Place
    <3>2. Append(placed[h], p.val) \in Seq(Values)
          /\ Len(Append(placed[h], p.val)) <= Total
      <4>1. /\ p.psn = Len(placed[h]) /\ p.psn < Total /\ Total \in Nat
            /\ placed[h] \in Seq(Values)
        BY SMTT(30), <1>2, <1>3, <2>3 DEF TypeOK, Place, Psns
      <4> HIDE DEF p
      <4> QED BY <1>2, <4>1
    <3> QED BY <2>3, <3>1, <3>2 DEF TypeOK, Place
  <2>4. CASE AnswerAgain(h, p)
    <3>1. Len(placed[h]) - 1 \in Psns
      BY <1>2, <1>3, <2>4 DEF AnswerAgain, Psns
    <3> QED BY <1>2, <2>2, <2>4, <3>1 DEF TypeOK, AnswerAgain, responderVars
  <2>5. CASE ReportGap(h, p)
    <3>1. Len(placed[h]) \in Psns
      BY <1>2, <1>3, <2>5 DEF ReportGap, Psns
    <3>2. up' \in [Below -> Seq(Packets)]
      BY <2>2, <2>5, <3>1 DEF ReportGap, TypeOK
    <3> QED BY <2>5, <3>2 DEF TypeOK, ReportGap
  <2> QED BY <2>1, <2>3, <2>4, <2>5 DEF Receive
<1> QED BY <1>1, <1>4 DEF TypeOK, Receive, appVars, slotVars

(* What the first transmission of a packet leaves in its slot. *)
LEMMA SlotTypes ==
    ASSUME TypeOK, NEW n \in Below, NEW p \in Packets, NEW s, s = Parent[n],
           NEW i, i = Idx(p.psn)
    PROVE  /\ s \in Switches /\ i \in Slots /\ p.psn \in Psns /\ p.psn \in Nat
           /\ SumWith(n, p) \in Values
           /\ RethsWith(n, p) \in [Below -> Psns \union {NoReth}]
           /\ ArrivedWith(n, p) \in SUBSET (Below \union {Up})
           /\ ArrivedWith(n, p) \subseteq Ports(s) \union {Up}
<1>1. s \in Switches /\ p.psn \in Psns /\ p.psn \in Nat
      /\ p.val \in Values /\ p.reth \in Psns \union {NoReth}
  BY TreeAssumption DEF Packets, Psns
<1>2. i \in Slots
  BY <1>1, IdxInSlots
<1>3. SumWith(n, p) \in Values
  <2>1. aggregator[s][i] \in Values
    BY <1>1, <1>2 DEF TypeOK
  <2> QED BY <1>1, <2>1, PlusType DEF SumWith
<1>4. RethsWith(n, p) \in [Below -> Psns \union {NoReth}]
  <2>1. reth_keeper[s][i] \in [Below -> Psns \union {NoReth}]
    BY <1>1, <1>2 DEF TypeOK
  <2> QED BY <1>1, <2>1 DEF RethsWith
<1>5. /\ ArrivedWith(n, p) \in SUBSET (Below \union {Up})
      /\ ArrivedWith(n, p) \subseteq Ports(s) \union {Up}
  <2>1. arrival_state[s][i] \subseteq Ports(s) \union {Up}
        /\ arrival_state[s][i] \in SUBSET (Below \union {Up})
    BY <1>1, <1>2 DEF TypeOK
  <2>2. n \in Ports(s)
    BY DEF Ports
  <2> QED BY <2>1, <2>2 DEF ArrivedWith
<1> QED BY <1>1, <1>2, <1>3, <1>4, <1>5

(* Data from below. *)
LEMMA UpType ==
    ASSUME TypeOK, NEW n \in Below, up[n] # << >>, NEW p, p = Head(up[n]),
           p.kind \in {"data", "write"},
           UpRetransmission(n, p) \/ UpFirst(n, p)
    PROVE  /\ aggregator' \in [Switches -> [Slots -> Values]]
           /\ reth_keeper' \in [Switches ->
                                  [Slots -> [Below -> Psns \union {NoReth}]]]
           /\ arrival_state' \in [Switches -> [Slots -> SUBSET (Below \union {Up})]]
           /\ degree' \in [Switches -> [Slots -> Nat]]
           /\ \A t \in Switches : \A j \in Slots :
                 /\ arrival_state'[t][j] \subseteq Ports(t) \union {Up}
                 /\ degree'[t][j] < FAN_IN(t)
           /\ up' \in [Below -> Seq(Packets)]
           /\ down' \in [Below -> Seq(Packets)]
<1> DEFINE s == Parent[n]
           i == Idx(p.psn)
<1>1. p \in Packets /\ TakeUp(n) \in [Below -> Seq(Packets)]
  BY LinkTypes DEF TypeOK, TakeUp
<1>2. /\ s \in Switches /\ i \in Slots /\ p.psn \in Psns /\ p.psn \in Nat
      /\ SumWith(n, p) \in Values
      /\ RethsWith(n, p) \in [Below -> Psns \union {NoReth}]
      /\ ArrivedWith(n, p) \in SUBSET (Below \union {Up})
      /\ ArrivedWith(n, p) \subseteq Ports(s) \union {Up}
  BY <1>1, SlotTypes
<1>3. Counted(s, p.psn) \in Nat /\ Counted(s, p.psn) < FAN_IN(s)
  BY <1>2, CountedType
<1>4. aggregator[s][i] \in Values
      /\ reth_keeper[s][i] \in [Below -> Psns \union {NoReth}]
  BY <1>2 DEF TypeOK
<1>5. ASSUME NEW q \in Packets, s # Root
      PROVE  TakeUpSend(n, s, q) \in [Below -> Seq(Packets)]
  <2>1. s \in Below
    BY <1>2, <1>5 DEF Below
  <2>2. s # n
    BY TreeAssumption
  <2> HIDE DEF s
  <2>3. TakeUpSend(n, s, q) = [TakeUp(n) EXCEPT ![s] = Append(TakeUp(n)[s], q)]
    BY <2>1, <2>2 DEF TakeUpSend, TakeUp, TypeOK
  <2> QED BY <1>1, <1>5, <2>1, <2>3, LinkTypes
<1>6. NoReth \in Psns \union {NoReth} /\ p.kind \in {"data", "write", "ack", "nak"}
  OBVIOUS
<1> HIDE DEF s, i
<1>7. CASE UpRetransmission(n, p)
  <2>1. /\ degree' = [degree EXCEPT ![s][i] = Counted(s, p.psn)]
        /\ UNCHANGED <<aggregator, reth_keeper, arrival_state>>
    BY <1>7 DEF UpRetransmission, s, i
  <2>2. /\ degree' \in [Switches -> [Slots -> Nat]]
        /\ \A t \in Switches : \A j \in Slots : degree'[t][j] < FAN_IN(t)
    BY <1>2, <1>3, <2>1 DEF TypeOK
  <2>3. CASE AnswerFromSlot(n, p)
    <3>1. reth_keeper[s][i][n] \in Psns \union {NoReth}
      BY <1>4
    <3>2. Frame(p.kind, aggregator[s][i], p.psn, reth_keeper[s][i][n]) \in Packets
      BY <1>2, <1>4, <1>6, <3>1, FrameType
    <3>3. down' \in [Below -> Seq(Packets)] /\ up' = TakeUp(n)
      BY <2>3, <3>2, LinkTypes DEF AnswerFromSlot, ToPort, TypeOK, s, i
    <3> QED BY <1>1, <2>1, <2>2, <3>3 DEF TypeOK
  <2>4. CASE UploadAgain(n, p)
    <3>1. Frame(p.kind, aggregator[s][i], p.psn, NoReth) \in Packets
      BY <1>2, <1>4, <1>6, FrameType
    <3>2. up' \in [Below -> Seq(Packets)] /\ down' = down
      BY <1>1, <1>5, <2>4, <3>1 DEF UploadAgain, s, i
    <3> QED BY <2>1, <2>2, <3>2 DEF TypeOK
  <2> QED BY <1>7, <2>3, <2>4 DEF UpRetransmission
<1>8. CASE AddOnly(n, p) \/ ForwardToParent(n, p)
  <2>1. /\ aggregator' = [aggregator EXCEPT ![s][i] = SumWith(n, p)]
        /\ reth_keeper' = [reth_keeper EXCEPT ![s][i] = RethsWith(n, p)]
        /\ arrival_state' = [arrival_state EXCEPT ![s][i] = ArrivedWith(n, p)]
        /\ degree' = [degree EXCEPT ![s][i] = Counted(s, p.psn)]
        /\ down' = down
    BY <1>8 DEF AddOnly, ForwardToParent, s, i
  <2>2. up' \in [Below -> Seq(Packets)]
    <3>1. Frame(p.kind, SumWith(n, p), p.psn, NoReth) \in Packets
      BY <1>2, <1>6, FrameType
    <3> QED BY <1>1, <1>5, <1>8, <3>1 DEF AddOnly, ForwardToParent, s, i
  <2>3. /\ aggregator' \in [Switches -> [Slots -> Values]]
        /\ reth_keeper' \in [Switches ->
                               [Slots -> [Below -> Psns \union {NoReth}]]]
    BY <1>2, <2>1 DEF TypeOK
  <2>4. /\ arrival_state' \in [Switches -> [Slots -> SUBSET (Below \union {Up})]]
        /\ degree' \in [Switches -> [Slots -> Nat]]
    BY <1>2, <1>3, <2>1 DEF TypeOK
  <2>5. \A t \in Switches : \A j \in Slots :
            /\ arrival_state'[t][j] \subseteq Ports(t) \union {Up}
            /\ degree'[t][j] < FAN_IN(t)
    BY <1>2, <1>3, <2>1 DEF TypeOK
  <2> QED BY <2>1, <2>2, <2>3, <2>4, <2>5 DEF TypeOK
<1>9. CASE CompleteAtRoot(n, p)
  <2> DEFINE j == ToClear(p.psn)
             clear == [m \in Below |-> NoReth]
  <2>1. j \in Slots
    <3>1. p.psn + WINDOW_SIZE \in Nat
      BY <1>2, Sizes
    <3> QED BY <3>1, IdxInSlots DEF ToClear
  <2>2. /\ aggregator' = [aggregator EXCEPT ![s][i] = SumWith(n, p),
                                            ![s][j] = Zero]
        /\ reth_keeper' = [reth_keeper EXCEPT ![s][i] = RethsWith(n, p),
                                              ![s][j] = clear]
        /\ arrival_state' = [arrival_state EXCEPT
                               ![s][i] = ArrivedWith(n, p) \union {Up},
                               ![s][j] = {}]
        /\ degree' = [degree EXCEPT ![s][i] = Counted(s, p.psn), ![s][j] = 0]
        /\ up' = TakeUp(n)
        /\ down' = Broadcast(s, p.kind, SumWith(n, p), p.psn, RethsWith(n, p))
    BY <1>9 DEF CompleteAtRoot, s, i
  <2>3. clear \in [Below -> Psns \union {NoReth}] /\ Zero \in Values
    BY ZeroType
  <2> HIDE DEF j, clear
  <2>4. down' \in [Below -> Seq(Packets)]
    BY <1>2, <2>2, BroadcastType
  <2>5. aggregator' \in [Switches -> [Slots -> Values]]
    BY <1>2, <2>1, <2>2, <2>3 DEF TypeOK
  <2>6. reth_keeper' \in [Switches -> [Slots -> [Below -> Psns \union {NoReth}]]]
    BY <1>2, <2>1, <2>2, <2>3 DEF TypeOK
  <2>7. arrival_state' \in [Switches -> [Slots -> SUBSET (Below \union {Up})]]
    BY <1>2, <2>1, <2>2 DEF TypeOK
  <2>8. degree' \in [Switches -> [Slots -> Nat]]
    BY <1>2, <1>3, <2>1, <2>2 DEF TypeOK
  <2>9. FAN_IN(s) \in Nat \ {0}
    BY <1>2, FanIn
  <2>10. ASSUME NEW t \in Switches, NEW k \in Slots
         PROVE  /\ arrival_state'[t][k] \subseteq Ports(t) \union {Up}
                /\ degree'[t][k] < FAN_IN(t)
    <3>1. arrival_state'[t][k] \subseteq Ports(t) \union {Up}
      BY <1>2, <2>1, <2>2 DEF TypeOK
    <3>2. degree'[t][k] < FAN_IN(t)
      <4>1. degree[t][k] < FAN_IN(t) /\ 0 < FAN_IN(s)
        BY <2>9 DEF TypeOK
      <4>2. degree'[t][k] = IF t # s THEN degree[t][k]
                            ELSE IF k = j THEN 0
                            ELSE IF k = i THEN Counted(s, p.psn)
                            ELSE degree[t][k]
        BY <1>2, <2>1, <2>2 DEF TypeOK
      <4> QED BY <1>3, <4>1, <4>2
    <3> QED BY <3>1, <3>2
  <2> QED BY <1>1, <2>2, <2>4, <2>5, <2>6, <2>7, <2>8, <2>10
<1> QED BY <1>7, <1>8, <1>9 DEF UpFirst

(* A result from the parent. *)
LEMMA DownType ==
    ASSUME TypeOK, NEW s \in Switches \ {Root}, HandleDown(s)
    PROVE  TypeOK'
<1> DEFINE p == Head(down[s])
           i == Idx(p.psn)
<1>0. s \in Below /\ s \in Switches
  BY DEF Below
<1>1. down[s] # << >> /\ p.kind \in {"data", "write"} /\ TakeResult(s, p)
      /\ UNCHANGED <<hostVars, reth_keeper, degree, up, losses>>
  BY DEF HandleDown, DownData, DownWriteFirstOnly
<1>2. /\ p \in Packets
      /\ [down EXCEPT ![s] = Tail(@)] \in [Below -> Seq(Packets)]
  BY <1>0, <1>1, LinkTypes DEF TypeOK
<1>3. p.psn \in Psns /\ p.psn \in Nat /\ p.val \in Values
  BY <1>2 DEF Packets, Psns
<1>4. i \in Slots
  BY <1>3, IdxInSlots
<1> HIDE DEF p, i
<1>5. /\ aggregator' \in [Switches -> [Slots -> Values]]
      /\ arrival_state' \in [Switches -> [Slots -> SUBSET (Below \union {Up})]]
      /\ \A t \in Switches : \A j \in Slots :
            arrival_state'[t][j] \subseteq Ports(t) \union {Up}
      /\ down' \in [Below -> Seq(Packets)]
  <2>1. CASE ~ recv_from_port(s, Up, p.psn) /\ recv_from_all_fan_in(s, p.psn)
    <3>1. /\ aggregator' = [aggregator EXCEPT ![s][i] = p.val]
          /\ arrival_state' = [arrival_state EXCEPT ![s][i] = @ \union {Up}]
          /\ down' = [Broadcast(s, p.kind, p.val, p.psn, reth_keeper[s][i])
                        EXCEPT ![s] = Tail(@)]
      BY <1>1, <2>1 DEF TakeResult, i
    <3>2. reth_keeper[s][i] \in [Below -> Psns \union {NoReth}]
      BY <1>0, <1>4 DEF TypeOK
    <3>3. Broadcast(s, p.kind, p.val, p.psn, reth_keeper[s][i])
            \in [Below -> Seq(Packets)]
      BY <1>0, <1>1, <1>3, <3>2, BroadcastType
    <3>4. Broadcast(s, p.kind, p.val, p.psn, reth_keeper[s][i])[s] # << >>
      <4>1. down[s] \in Seq(Packets) /\ down[s] # << >>
        BY <1>0, <1>1 DEF TypeOK
      <4>2. Broadcast(s, p.kind, p.val, p.psn, reth_keeper[s][i])[s]
              \in {down[s], Append(down[s], Frame(p.kind, p.val, p.psn,
                                                  reth_keeper[s][i][s]))}
        BY <1>0 DEF Broadcast
      <4>3. Frame(p.kind, p.val, p.psn, reth_keeper[s][i][s]) \in Packets
        BY <1>0, <1>1, <1>3, <3>2, FrameType
      <4> QED BY <4>1, <4>2, <4>3
    <3>5. down' \in [Below -> Seq(Packets)]
      BY <1>0, <3>1, <3>3, <3>4, LinkTypes
    <3> QED BY <1>0, <1>3, <1>4, <3>1, <3>5 DEF TypeOK
  <2>2. CASE ~ (~ recv_from_port(s, Up, p.psn) /\ recv_from_all_fan_in(s, p.psn))
    BY <1>1, <1>2, <2>2 DEF TakeResult, TypeOK, p
  <2> QED BY <2>1, <2>2
<1> QED BY <1>1, <1>5 DEF TypeOK, hostVars, appVars, requesterVars, responderVars

LEMMA TypeStep == ASSUME TypeOK, [Next]_vars PROVE TypeOK'
<1> USE DEF hostVars, appVars, requesterVars, responderVars, slotVars
<1>1. CASE UNCHANGED vars
  BY <1>1 DEF TypeOK, vars
<1>2. ASSUME NEW h \in Hosts,
             \/ PostInitial(h) \/ PollCompletion(h)
             \/ Transmit(h) \/ Timeout(h) \/ Receive(h)
      PROVE  TypeOK'
  BY <1>2, LibraryType, RequesterType, ReceiveType
<1>3. ASSUME NEW n \in Below, UpData(n) \/ UpWriteFirstOnly(n)
      PROVE  TypeOK'
  <2> DEFINE p == Head(up[n])
  <2>1. /\ up[n] # << >> /\ p.kind \in {"data", "write"}
        /\ UpRetransmission(n, p) \/ UpFirst(n, p)
        /\ UNCHANGED <<hostVars, losses>>
    BY <1>3 DEF UpData, UpWriteFirstOnly
  <2> HIDE DEF p
  <2>2. p = Head(up[n])
    BY DEF p
  <2>3. /\ aggregator' \in [Switches -> [Slots -> Values]]
        /\ reth_keeper' \in [Switches ->
                               [Slots -> [Below -> Psns \union {NoReth}]]]
        /\ arrival_state' \in [Switches -> [Slots -> SUBSET (Below \union {Up})]]
        /\ degree' \in [Switches -> [Slots -> Nat]]
        /\ \A t \in Switches : \A j \in Slots :
              /\ arrival_state'[t][j] \subseteq Ports(t) \union {Up}
              /\ degree'[t][j] < FAN_IN(t)
        /\ up' \in [Below -> Seq(Packets)]
        /\ down' \in [Below -> Seq(Packets)]
    BY <2>1, <2>2, UpType
  <2> QED BY <2>1, <2>3 DEF TypeOK
<1>4. ASSUME NEW n \in Below, UpAck(n) PROVE TypeOK'
  <2>1. Head(up[n]) \in Packets /\ TakeUp(n) \in [Below -> Seq(Packets)]
    BY <1>4, LinkTypes DEF TypeOK, UpAck, TakeUp
  <2>2. send_roce_ack(Head(up[n]).psn) \in Packets
    BY <2>1, AckType DEF Packets
  <2>3. down' \in [Below -> Seq(Packets)]
    BY <1>4, <2>2, LinkTypes DEF TypeOK, UpAck, ToPort
  <2> QED BY <1>4, <2>1, <2>3 DEF TypeOK, UpAck
<1>5. ASSUME NEW n \in Below, Lose(n) PROVE TypeOK'
  <2>1. losses' \in 0 .. MaxLoss
    BY <1>5, Sizes DEF TypeOK, Lose, CanLose
  <2>2. up' \in [Below -> Seq(Packets)] /\ down' \in [Below -> Seq(Packets)]
    <3>1. CASE CanLose(up[n]) /\ up' = TakeUp(n) /\ down' = down
      BY <3>1, LinkTypes DEF TypeOK, CanLose, TakeUp
    <3>2. CASE /\ CanLose(down[n])
               /\ down' = [down EXCEPT ![n] = Tail(@)] /\ up' = up
      BY <3>2, LinkTypes DEF TypeOK, CanLose
    <3> QED BY <1>5, <3>1, <3>2 DEF Lose
  <2> QED BY <1>5, <2>1, <2>2 DEF TypeOK, Lose
<1> QED BY <1>1, <1>2, <1>3, <1>4, <1>5, DownType DEF Next, HandleUp

(* Every variable keeps its type, on every tree of switches and whatever    *)
(* packets are lost: the hosts' windows bound the PSNs.                     *)
THEOREM TypeCorrect == Spec => []TypeOK
BY InitType, TypeStep, PTL DEF Spec
==============================================================================
