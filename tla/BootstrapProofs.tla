---------------------------- MODULE BootstrapProofs ----------------------------
(***************************************************************************)
(* Proofs about Bootstrap: types, who is paired with whom, and that no       *)
(* configuration reaches a switch in the middle of a call, for groups of    *)
(* any size that create any number of communicators.                        *)
(***************************************************************************)
EXTENDS BootstrapInv, SequenceTheorems, FiniteSetTheorems, TLAPS

LEMMA RankFacts ==
    /\ world_size \in Nat /\ world_size >= 1
    /\ 0 \in Ranks /\ Connections \subseteq Ranks
    /\ \A r \in Ranks : r \in Nat /\ r < world_size
    /\ \A r \in Workers : r \in Ranks /\ r \in Nat /\ r >= 1 /\ r # 0
    /\ \A r \in Ranks : r = 0 \/ r \in Workers
    /\ \A k \in Communicators : k \in Nat /\ k >= 1
BY GroupAssumption, CapacityAssumption
   DEF Ranks, Workers, Connections, connections_cnt, Communicators

(* The connections are those of as many ranks as the switch has room for.   *)
LEMMA ConnectionFacts ==
    /\ connections_cnt \in Nat /\ connections_cnt # 0
    /\ connections_cnt <= world_size
    /\ 0 \in Connections /\ Connections # {}
    /\ \A c \in Connections : c \in Nat /\ c < connections_cnt
    /\ \A n \in Nat : n < connections_cnt => n \in Connections
<1>1. /\ connections_cnt \in Nat /\ connections_cnt # 0
      /\ connections_cnt <= world_size
  BY GroupAssumption, CapacityAssumption DEF connections_cnt
<1>2. Connections = 0 .. connections_cnt - 1
  BY DEF Connections
<1>3. 0 \in Connections
  BY <1>1, <1>2
<1>4. \A c \in Connections : c \in Nat /\ c < connections_cnt
  BY <1>1, <1>2
<1>5. \A n \in Nat : n < connections_cnt => n \in Connections
  BY <1>1, <1>2
<1> QED BY <1>1, <1>3, <1>4, <1>5

LEMMA FullType ==
    ASSUME NEW k \in Communicators
    PROVE  /\ Full(k) \in Seq(QPs) /\ Full(k) # << >>
           /\ \A r \in Ranks : r + 1 \in 1 .. world_size /\ Full(k)[r + 1] = <<r, k>>
           /\ Full(k)[1][2] = k
<1>1. \A n \in 1 .. world_size : n - 1 \in Ranks
  BY RankFacts DEF Ranks
<1>2. \A n \in 1 .. world_size : <<n - 1, k>> \in QPs
  BY <1>1 DEF QPs
<1>3. Full(k) \in Seq(QPs) /\ Len(Full(k)) = world_size
  BY <1>2, RankFacts DEF Full
<1>4. \A r \in Ranks : r + 1 \in 1 .. world_size /\ Full(k)[r + 1] = <<r, k>>
  BY RankFacts DEF Full, Ranks
<1>5. Full(k)[1] = <<0, k>>
  BY RankFacts DEF Full
<1> QED BY <1>3, <1>4, <1>5, RankFacts

LEMMA CommType ==
    ASSUME TypeOK
    PROVE  /\ communicators \in Communicators
           /\ DOMAIN comm = Ranks /\ DOMAIN pc = Ranks /\ DOMAIN topology = Ranks
           /\ DOMAIN group_fd_list = Ranks
           /\ \A r \in Ranks : comm[r] \in 0 .. communicators /\ comm[r] \in Nat
           /\ \A k \in 1 .. comm[0] : k \in Communicators /\ k \in 1 .. communicators
<1>1. communicators \in Communicators /\ comm \in [Ranks -> 0 .. communicators]
  BY DEF TypeOK
<1>2. comm[0] \in 0 .. communicators
  BY <1>1, RankFacts
<1> QED BY <1>1, <1>2, GroupAssumption DEF TypeOK, Communicators

LEMMA CommInCall ==
    ASSUME IInv, NEW r \in Ranks, pc[r] \in {"call", "control", "data"}
    PROVE  comm[r] \in Communicators
<1>1. comm[r] > 0
  BY RankFacts DEF IInv, RootInv, WorkerInv
<1> QED BY <1>1, CommType, GroupAssumption DEF IInv, Communicators

------------------------------------------------------------------------------
(* What does not depend on a step. *)

(* Steps of the controller's main, of the switch and of the data plane leave *)
(* hosts and connections alone.                                              *)
LEMMA HostsKept ==
    ASSUME IInv, UNCHANGED <<pc, comm, topology, rootVars, tcpVars, reply>>
    PROVE  /\ RootInv' /\ (\A r \in Workers : WorkerInv(r)')
           /\ LinksInv' /\ SessionInv'
<1>1. RootInv'
  BY DEF IInv, RootInv, AllAccepted, rootVars
<1>2. ASSUME NEW r \in Workers PROVE WorkerInv(r)'
  BY <1>2 DEF IInv, WorkerInv, Hello, Number, InBacklog, Collected, Forwarded,
              rootVars, tcpVars
<1>3. LinksInv' /\ SessionInv'
  BY DEF IInv, LinksInv, SessionInv, tcpVars
<1> QED BY <1>1, <1>2, <1>3

LEMMA WorkerKept ==
    ASSUME NEW r \in Workers, WorkerInv(r), comm[r] \in Nat,
           pc'[r] = pc[r], comm'[r] = comm[r], topology'[r] = topology[r],
           to_root'[r] = to_root[r], to_rank'[r] = to_rank[r],
           group_fd_list'[r] = group_fd_list[r],
           InBacklog(r)' <=> InBacklog(r),
           \A k \in Nat : Collected(r, k)' <=> Collected(r, k),
           \A k \in Nat : Forwarded(k)' <=> Forwarded(k)
    PROVE  WorkerInv(r)'
<1>1. PICK n \in Nat : n = comm[r] /\ n = comm'[r]
  OBVIOUS
<1>2. Collected(r, n)' <=> Collected(r, n)
  OBVIOUS
<1>3. /\ Forwarded(n)' <=> Forwarded(n)
      /\ n > 0 => (Forwarded(n - 1)' <=> Forwarded(n - 1))
  <2>1. n > 0 => n - 1 \in Nat
    OBVIOUS
  <2> QED BY <2>1
<1>4. to_root'[r] = Hello(r)' \o Number(r)'
  <2>1. Hello(r)' = Hello(r)
    BY DEF Hello
  <2>2. Number(r)' = Number(r)
    BY <1>1, <1>2 DEF Number, Collected
  <2> QED BY <2>1, <2>2 DEF WorkerInv
<1>5. \A k \in Communicators : Collected(r, k)' => k <= comm'[r]
  BY RankFacts DEF WorkerInv
<1>6. /\ to_rank[r] = IF pc[r] = "topology" /\ Forwarded(n)
                      THEN <<Full(n)>> ELSE << >>
      /\ pc[r] # "topology" => Forwarded(n)
      /\ pc[r] = "topology" => n > 0 /\ Forwarded(n - 1)
  BY <1>1 DEF WorkerInv, Forwarded
<1>7. /\ to_rank'[r] = IF pc'[r] = "topology" /\ Forwarded(n)'
                       THEN <<Full(n)>> ELSE << >>
      /\ pc'[r] # "topology" => Forwarded(n)'
      /\ pc'[r] = "topology" => n > 0 /\ Forwarded(n - 1)'
  BY <1>3, <1>6
<1> QED BY <1>1, <1>4, <1>5, <1>7 DEF WorkerInv, Forwarded

LEMMA SwitchKept ==
    ASSUME IInv, TypeOK', UNCHANGED <<to_switch, step, config, conns, idx, i>>,
           comm[0] <= comm'[0],
           comm'[0] = comm[0] /\ pc[0] # "collect" => pc'[0] # "collect"
    PROVE  SwitchInv'
<1>1. comm[0] \in Nat /\ comm'[0] \in Nat
  BY CommType, RankFacts DEF IInv, TypeOK, Communicators
<1>2. ASSUME NEW qps, Route(qps) PROVE Route(qps)'
  <2>1. PICK k \in 1 .. comm[0] : qps = Full(k) /\ Asked(k)
    BY <1>2 DEF Route
  <2>2. k \in 1 .. comm'[0] /\ Asked(k)'
    BY <1>1, <2>1 DEF Asked
  <2> QED BY <2>1, <2>2 DEF Route
<1>3. \A n \in 1 .. Len(to_switch') : Route(to_switch[n])'
  <2>1. ASSUME NEW n \in 1 .. Len(to_switch') PROVE Route(to_switch[n])'
    <3>1. PICK qps : qps = to_switch[n] /\ qps = to_switch'[n]
      OBVIOUS
    <3>2. Route(qps)'
      BY <1>2, <2>1, <3>1 DEF IInv, SwitchInv
    <3> QED BY <3>1, <3>2 DEF Route
  <2> QED BY <2>1
<1>4. step' # "receive" => Route(config)'
  <2>1. PICK qps : qps = config /\ qps = config'
    OBVIOUS
  <2>2. step' # "receive" => Route(qps)'
    BY <1>2, <2>1 DEF IInv, SwitchInv
  <2> QED BY <2>1, <2>2 DEF Route
<1>5. \A c \in Connections : conns'[c].qp # NoQP =>
         \E k \in 1 .. comm'[0] : conns'[c].qp = <<c, k>>
  <2>1. ASSUME NEW c \in Connections, conns[c].qp # NoQP
        PROVE  \E k \in 1 .. comm'[0] : conns[c].qp = <<c, k>>
    <3>1. PICK k \in 1 .. comm[0] : conns[c].qp = <<c, k>>
      BY <2>1 DEF IInv, SwitchInv
    <3>2. k \in 1 .. comm'[0]
      BY <1>1
    <3> QED BY <3>1, <3>2
  <2>2. conns' = conns
    OBVIOUS
  <2> QED BY <2>1, <2>2, Zenon
<1>6. /\ to_switch' \in Seq(Seq(QPs))
      /\ step' \in {"receive", "rules cleared", "reset", "connections", "rules"}
      /\ idx' \in 0 .. connections_cnt /\ i' \in Nat
  BY DEF IInv, SwitchInv
<1> QED BY <1>3, <1>4, <1>5, <1>6 DEF SwitchInv

------------------------------------------------------------------------------
(* Types, action by action. *)

LEMMA AnsweredType ==
    ASSUME TypeOK, NEW c \in Connections, NEW epsn \in Nat
    PROVE  Answered(c, epsn) \in [Ranks -> [Communicators -> 0 .. 2]]
<1>1. acked \in [Ranks -> [Communicators -> 0 .. 2]]
      /\ conns[c].qp \in QPs \union {NoQP}
  BY DEF TypeOK
<1>2. CASE conns[c].qp = NoQP
  BY <1>1, <1>2 DEF Answered
<1>3. CASE conns[c].qp \in QPs /\ conns[c].qp # NoQP
  <2>1. PICK r \in Ranks, k \in Communicators : conns[c].qp = <<r, k>>
    BY <1>3 DEF QPs
  <2> DEFINE new == IF epsn > acked[r][k] /\ epsn <= posted[r][k]
                    THEN epsn ELSE acked[r][k]
  <2>2. new \in 0 .. 2
    <3>1. acked[r][k] \in 0 .. 2 /\ posted[r][k] \in 0 .. 2
      BY <1>1 DEF TypeOK
    <3> QED BY <3>1
  <2>3. Answered(c, epsn) = [acked EXCEPT ![r][k] = new]
    BY <1>3, <2>1 DEF Answered
  <2> HIDE DEF new
  <2> QED BY <1>1, <2>2, <2>3
<1> QED BY <1>1, <1>2, <1>3

LEMMA GroupTypes ==
    ASSUME IInv, Group PROVE TypeOK'
<1>0. TypeOK
  BY DEF IInv
<1> USE RankFacts DEF hostVars, rootVars, tcpVars, sessionVars, configVars,
                      receiverVars, psnVars, Goto
<1>1. CASE Listen
  BY <1>0, <1>1 DEF TypeOK, Listen
<1>2. CASE Accept
  <2>1. PICK r \in Workers : /\ group_fd_list[r] = None /\ to_root[r] # << >>
                             /\ Head(to_root[r]).rank = r
                             /\ r = Head(backlog)
    <3>1. backlog # << >> /\ backlog \in Seq(Workers)
      BY <1>0, <1>2 DEF TypeOK, Accept
    <3>2. PICK r : r = Head(backlog)
      OBVIOUS
    <3>3. r \in Workers /\ r = backlog[1] /\ 1 \in 1 .. Len(backlog)
      BY <3>1, <3>2
    <3>4. InBacklog(r) /\ WorkerInv(r)
      BY <3>3 DEF IInv, InBacklog
    <3>5. Head(to_root[r]) = [rank |-> r] /\ to_root[r] # << >>
      BY <3>4 DEF WorkerInv, Hello, Number
    <3> QED BY <3>2, <3>3, <3>4, <3>5 DEF WorkerInv
  <2>2. /\ group_fd_list' = [group_fd_list EXCEPT ![r] = r]
        /\ backlog' = Tail(backlog) /\ backlog # << >>
    BY <1>2, <2>1 DEF Accept
  <2>3. group_fd_list' \in [Ranks -> Workers \union {None}]
    BY <1>0, <2>2 DEF TypeOK
  <2>4. backlog' \in Seq(Workers)
    BY <1>0, <2>2 DEF TypeOK
  <2> QED BY <1>0, <1>2, <2>3, <2>4 DEF TypeOK, Accept
<1>3. CASE RegisterGroup
  BY <1>0, <1>3 DEF TypeOK, RegisterGroup
<1>4. CASE RegisterGroupFails
  BY <1>0, <1>4 DEF TypeOK, RegisterGroupFails
<1>5. CASE ReceiveGroupId
  BY <1>0, <1>5 DEF TypeOK, ReceiveGroupId
<1>6. ASSUME NEW r \in Workers, ConnectMaster(r) PROVE TypeOK'
  <2>1. backlog' \in Seq(Workers)
    BY <1>0, <1>6 DEF TypeOK, ConnectMaster
  <2>2. pc' = [pc EXCEPT ![r] = "create"]
    BY <1>6 DEF ConnectMaster
  <2> QED BY <1>0, <1>6, <2>1, <2>2 DEF TypeOK, ConnectMaster
<1>7. ASSUME NEW r \in Workers, ConnectMasterFails(r) PROVE TypeOK'
  BY <1>0, <1>7 DEF TypeOK, ConnectMasterFails
<1> QED BY <1>1, <1>2, <1>3, <1>4, <1>5, <1>6, <1>7 DEF Group

LEMMA CallerTypes ==
    ASSUME IInv, Caller PROVE TypeOK'
<1>0. TypeOK
  BY DEF IInv
<1> USE RankFacts DEF hostVars, rootVars, tcpVars, sessionVars, configVars,
                      receiverVars, psnVars, Goto
<1>1. ASSUME NEW r \in Ranks, PostControl(r) PROVE TypeOK'
  <2> DEFINE old == posted[r]
             sent == [old EXCEPT ![comm[r]] = 1]
  <2>1. /\ posted \in [Ranks -> [Communicators -> 0 .. 2]]
        /\ old \in [Communicators -> 0 .. 2]
    BY <1>0 DEF TypeOK
  <2>2. posted' = [posted EXCEPT ![r] = sent]
    BY <1>1 DEF PostControl
  <2> HIDE DEF old
  <2>3. sent \in [Communicators -> 0 .. 2]
    <3>1. pc[r] \in {"call", "control", "data"}
      BY <1>1 DEF PostControl
    <3>2. PICK k \in Communicators : k = comm[r]
      BY <3>1, CommInCall
    <3>3. sent = [old EXCEPT ![k] = 1]
      BY <3>2
    <3> QED BY ONLY <2>1, <3>2, <3>3
  <2> HIDE DEF sent
  <2>4. posted' \in [Ranks -> [Communicators -> 0 .. 2]]
    BY <2>1, <2>2, <2>3
  <2> QED BY <1>0, <1>1, <2>4 DEF TypeOK, PostControl
<1>2. ASSUME NEW r \in Ranks, PostData(r) PROVE TypeOK'
  <2> DEFINE old == posted[r]
             sent == [old EXCEPT ![comm[r]] = 2]
  <2>1. /\ posted \in [Ranks -> [Communicators -> 0 .. 2]]
        /\ old \in [Communicators -> 0 .. 2]
    BY <1>0 DEF TypeOK
  <2>2. posted' = [posted EXCEPT ![r] = sent]
    BY <1>2 DEF PostData
  <2> HIDE DEF old
  <2>3. sent \in [Communicators -> 0 .. 2]
    <3>1. pc[r] \in {"call", "control", "data"}
      BY <1>2 DEF PostData
    <3>2. PICK k \in Communicators : k = comm[r]
      BY <3>1, CommInCall
    <3>3. sent = [old EXCEPT ![k] = 2]
      BY <3>2
    <3> QED BY ONLY <2>1, <3>2, <3>3
  <2> HIDE DEF sent
  <2>4. posted' \in [Ranks -> [Communicators -> 0 .. 2]]
    BY <2>1, <2>2, <2>3
  <2> QED BY <1>0, <1>2, <2>4 DEF TypeOK, PostData
<1>3. ASSUME NEW r \in Ranks, Return(r) PROVE TypeOK'
  BY <1>0, <1>3 DEF TypeOK, Return
<1> QED BY <1>1, <1>2, <1>3 DEF Caller

LEMMA ControllerTypes ==
    ASSUME IInv, Controller PROVE TypeOK'
BY DEF IInv, TypeOK, Controller, StartController, AcceptSwitch, SessionGroup,
       SessionRoute, SessionReply, hostVars, rootVars, tcpVars, sessionVars,
       configVars, receiverVars, psnVars

LEMMA ReceiverTypes ==
    ASSUME IInv, Receiver PROVE TypeOK'
<1>0. TypeOK /\ i \in Nat /\ fan_in \in 0 .. connections_cnt
  BY DEF IInv, SwitchInv, TypeOK
<1>00. i < fan_in => i \in Connections
  BY <1>0, ConnectionFacts
<1> USE DEF hostVars, rootVars, tcpVars, sessionVars, configVars,
            receiverVars, psnVars
<1>1. CASE StartReceiving
  BY <1>0, <1>1 DEF TypeOK, StartReceiving
<1>2. CASE OpenHandle
  <2>1. conns' \in [Connections -> [qp : QPs \union {NoQP}, ok : BOOLEAN,
                                    handle : BOOLEAN]]
    <3>1. i \in Connections
      BY <1>00, <1>2 DEF OpenHandle
    <3>2. conns \in [Connections -> [qp : QPs \union {NoQP}, ok : BOOLEAN,
                                     handle : BOOLEAN]]
      BY <1>0 DEF TypeOK
    <3>3. conns' = [conns EXCEPT ![i] =
                       [[@ EXCEPT !.handle = TRUE] EXCEPT !.ok = TRUE]]
      BY <1>2, <3>1, <3>2 DEF OpenHandle
    <3> QED BY ONLY <3>1, <3>2, <3>3
  <2> QED BY <1>0, <1>2, <2>1 DEF TypeOK, OpenHandle
<1>3. CASE CreateThreads
  BY <1>0, <1>3 DEF TypeOK, CreateThreads
<1>4. CASE CreateThread
  BY <1>0, <1>00, <1>4 DEF TypeOK, CreateThread
<1>5. CASE JoinThreads
  BY <1>0, <1>5 DEF TypeOK, JoinThreads
<1>6. CASE JoinThread
  BY <1>0, <1>6 DEF TypeOK, JoinThread
<1> QED BY <1>1, <1>2, <1>3, <1>4, <1>5, <1>6 DEF Receiver

(* What a configuration being applied holds for the connection parsed next. *)
LEMMA ConfigEntry ==
    ASSUME IInv, step = "connections", idx \in Connections
    PROVE  /\ idx \in Connections
           /\ \E k \in 1 .. comm[0] : k \in Communicators
                                      /\ config[idx + 1] = <<idx, k>>
<1>1. idx \in Ranks
  BY RankFacts
<1>2. PICK k \in 1 .. comm[0] : config = Full(k)
  BY DEF IInv, SwitchInv, Route
<1>3. k \in Communicators
  BY CommType DEF IInv
<1>4. config[idx + 1] = <<idx, k>>
  BY <1>1, <1>2, <1>3, FullType
<1> QED BY <1>1, <1>3, <1>4

LEMMA ConfigTypes ==
    ASSUME IInv, ConfigThread PROVE TypeOK'
<1>0. TypeOK /\ idx \in 0 .. connections_cnt
  BY DEF IInv, SwitchInv
<1> USE DEF hostVars, rootVars, tcpVars, sessionVars, configVars,
            receiverVars, psnVars
<1>1. CASE ConnectController
  BY <1>0, <1>1 DEF TypeOK, ConnectController
<1>2. CASE ReceiveConfig
  <2>1. Cleared \in [qp : QPs \union {NoQP}, ok : BOOLEAN, handle : BOOLEAN]
    BY DEF Cleared
  <2>2. conns' \in [Connections -> [qp : QPs \union {NoQP}, ok : BOOLEAN,
                                    handle : BOOLEAN]]
    BY <1>2, <2>1 DEF ReceiveConfig
  <2>3. fan_in' \in 0 .. connections_cnt
    <3>1. fan_in' = 0
      BY <1>2 DEF ReceiveConfig
    <3> QED BY <3>1, ConnectionFacts
  <2> QED BY <1>0, <1>2, <2>2, <2>3 DEF TypeOK, ReceiveConfig
<1>3. CASE ClearRules
  <2>1. count' \in 0 .. MAX_RULES
    <3>1. count' = 0
      BY <1>3 DEF ClearRules
    <3>2. MAX_RULES \in Nat
      BY CapacityAssumption
    <3> QED BY <3>1, <3>2
  <2> QED BY <1>0, <1>3, <2>1 DEF TypeOK, ClearRules
<1>4. CASE switch_context_reset_psn_states
  BY <1>0, <1>4 DEF TypeOK, switch_context_reset_psn_states
<1>5. CASE ParseConnection
  <2>1. idx \in Connections /\ config[idx + 1] \in QPs
    <3>1. step = "connections" /\ idx \in Connections
      BY <1>5 DEF ParseConnection
    <3>2. idx \in Connections /\ idx \in Ranks
      BY <3>1, ConfigEntry, RankFacts
    <3>3. PICK k \in Communicators : config[idx + 1] = <<idx, k>>
      BY <3>1, ConfigEntry
    <3> QED BY <3>2, <3>3 DEF QPs
  <2> DEFINE qp == config[idx + 1]
  <2>2. conns' = [conns EXCEPT ![idx] = [[@ EXCEPT !.qp = qp] EXCEPT !.ok = TRUE]]
    BY <1>0, <1>5, <2>1 DEF ParseConnection, TypeOK
  <2> HIDE DEF qp
  <2>3. conns' \in [Connections -> [qp : QPs \union {NoQP}, ok : BOOLEAN,
                                    handle : BOOLEAN]]
    BY <1>0, <2>1, <2>2 DEF TypeOK, qp
  <2> QED BY <1>0, <1>5, <2>3 DEF TypeOK, ParseConnection
<1>6. CASE SetFanIn
  BY <1>0, <1>6 DEF TypeOK, SetFanIn
<1>7. CASE ParseRule
  BY <1>0, <1>7, CapacityAssumption DEF TypeOK, ParseRule
<1>8. CASE ConfigApplied
  BY <1>0, <1>8 DEF TypeOK, ConfigApplied
<1> QED BY <1>1, <1>2, <1>3, <1>4, <1>5, <1>6, <1>7, <1>8 DEF ConfigThread

LEMMA HandlerTypes ==
    ASSUME IInv, NEW c \in Connections, Handler(c) PROVE TypeOK'
<1>0. TypeOK
  BY DEF IInv
<1> USE DEF hostVars, rootVars, tcpVars, sessionVars, configVars,
            receiverVars, psnVars
<1>1. ASSUME NEW k \in Communicators, HandleControl(c, k) PROVE TypeOK'
  <2>1. acked' = acked \/ acked' = Answered(c, 1)
    BY <1>1 DEF HandleControl
  <2>2. acked' \in [Ranks -> [Communicators -> 0 .. 2]]
    BY <1>0, <2>1, AnsweredType DEF TypeOK
  <2>3. <<c, k>> \in QPs
    BY RankFacts DEF QPs
  <2>4. handled' \subseteq QPs
    BY <1>0, <1>1, <2>3 DEF TypeOK, HandleControl
  <2>5. agg_epsn' \in [Connections -> Nat]
    BY <1>0, <1>1 DEF TypeOK, HandleControl
  <2>6. repeats' \in 0 .. MaxRepeats
    BY <1>0, <1>1, GroupAssumption DEF TypeOK, HandleControl
  <2> QED BY <1>0, <1>1, <2>2, <2>4, <2>5, <2>6 DEF TypeOK, HandleControl
<1>2. CASE HandleData(c)
  <2>1. acked' = acked \/ acked' = Answered(c, 2)
    BY <1>2 DEF HandleData
  <2>2. acked' \in [Ranks -> [Communicators -> 0 .. 2]]
    BY <1>0, <2>1, AnsweredType DEF TypeOK
  <2>3. got' \in [Ranks -> 0 .. communicators]
    <3>1. ASSUME NEW r \in Connections, conns[r].qp # NoQP
          PROVE  conns[r].qp[2] \in 0 .. communicators
      <4>1. PICK k \in 1 .. comm[0] : conns[r].qp = <<r, k>>
        BY <3>1, RankFacts DEF IInv, SwitchInv
      <4> QED BY <1>0, <4>1, CommType
    <3>2. got \in [Ranks -> 0 .. communicators]
      BY <1>0 DEF TypeOK
    <3>3. CASE got' = got
      BY <3>2, <3>3
    <3>4. CASE got' = [r \in Ranks |->
                          IF /\ r \in Connections
                             /\ conns[r].qp # NoQP
                             /\ conns[r].qp[1] = r
                             /\ send_psn[r] = 0
                          THEN conns[r].qp[2] ELSE got[r]]
      <4>1. ASSUME NEW r \in Ranks PROVE got'[r] \in 0 .. communicators
        BY <3>1, <3>2, <3>4
      <4> QED BY <3>4, <4>1
    <3> QED BY <1>2, <3>3, <3>4 DEF HandleData
  <2>4. arrival' \subseteq Connections
    BY <1>0, <1>2 DEF TypeOK, HandleData
  <2>5. agg_epsn' \in [Connections -> Nat]
    BY <1>0, <1>2 DEF TypeOK, HandleData
  <2> QED BY <1>0, <1>2, <2>2, <2>3, <2>4, <2>5 DEF TypeOK, HandleData
<1>3. CASE HandleOther(c)
  <2>1. agg_epsn[c] \in Nat /\ acked' = Answered(c, agg_epsn[c])
    BY <1>0, <1>3 DEF HandleOther, TypeOK
  <2>2. acked' \in [Ranks -> [Communicators -> 0 .. 2]]
    BY <1>0, <2>1, AnsweredType
  <2> QED BY <1>0, <1>3, <2>2 DEF TypeOK, HandleOther
<1>4. ASSUME NEW psn \in {0, 1}, Crash(c, psn) PROVE TypeOK'
  BY <1>0, <1>4 DEF TypeOK, Crash
<1> QED BY <1>1, <1>2, <1>3, <1>4 DEF Handler

(* The number taken from a socket is the one its worker made for this      *)
(* communicator: the worker waits for the topology of it.                  *)
LEMMA CollectFacts ==
    ASSUME IInv, CollectQP
    PROVE  \E n \in Workers :
              /\ n = Len(group_qp_num_list) /\ group_fd_list[n] = n
              /\ ~ InBacklog(n) /\ comm[n] = comm[0] /\ pc[n] = "topology"
              /\ comm[0] \in Communicators
              /\ to_root[n] = <<[qp |-> <<n, comm[0]>>]>>
<1>1. PICK n \in Nat : n = Len(group_qp_num_list) /\ n >= 1 /\ n < world_size
  BY DEF IInv, RootInv, TypeOK, CollectQP
<1>2. n \in Workers
  BY <1>1, RankFacts DEF Workers, Ranks
<1>3. group_fd_list[n] = n /\ WorkerInv(n) /\ ~ InBacklog(n)
  BY <1>2, RankFacts DEF IInv, RootInv, WorkerInv, AllAccepted, CollectQP, None
<1>4. to_root[n] # << >> /\ pc[0] = "collect" /\ comm[0] > 0
  BY <1>1, <1>3 DEF CollectQP, IInv, RootInv
<1>5. to_root[n] = Number(n) /\ ~ Collected(n, comm[n])
  BY <1>3, <1>4 DEF WorkerInv, Hello, Number
<1>6. comm[0] \in Nat /\ comm[n] \in Nat
  BY <1>2, CommType, RankFacts DEF IInv
<1>7. pc[n] = "topology" /\ comm[n] = comm[0]
  BY <1>1, <1>3, <1>4, <1>5, <1>6 DEF WorkerInv, Collected, Forwarded
<1>8. comm[0] \in Communicators
  BY <1>4, <1>6, CommType, RankFacts DEF IInv
<1>9. to_root[n] = <<[qp |-> <<n, comm[0]>>]>>
  BY <1>5, <1>7 DEF Number
<1> QED BY <1>1, <1>2, <1>3, <1>7, <1>8, <1>9

(* What rank 0 receives, and what a worker receives, is the route of the    *)
(* communicator it is creating.                                             *)
LEMMA TopologyFacts ==
    ASSUME IInv
    PROVE  /\ ForwardTopology =>
                 comm[0] \in Communicators /\ from_controller = <<Full(comm[0])>>
           /\ \A r \in Workers : ReceiveTopology(r) =>
                 /\ comm[r] \in Communicators /\ to_rank[r] = <<Full(comm[r])>>
                 /\ Forwarded(comm[r])
<1>1. ASSUME ForwardTopology
      PROVE  comm[0] \in Communicators /\ from_controller = <<Full(comm[0])>>
  <2>1. pc[0] = "topology" /\ from_controller # << >> /\ comm[0] > 0
    BY <1>1 DEF ForwardTopology, IInv, RootInv
  <2>2. from_controller = <<Full(comm[0])>>
    BY <2>1 DEF IInv, SessionInv
  <2> QED BY <2>1, <2>2, CommType, RankFacts DEF IInv
<1>2. ASSUME NEW r \in Workers, ReceiveTopology(r)
      PROVE  /\ comm[r] \in Communicators /\ to_rank[r] = <<Full(comm[r])>>
             /\ Forwarded(comm[r])
  <2>1. pc[r] = "topology" /\ to_rank[r] # << >> /\ WorkerInv(r)
    BY <1>2 DEF ReceiveTopology, IInv
  <2>2. comm[r] > 0 /\ to_rank[r] = <<Full(comm[r])>> /\ Forwarded(comm[r])
    BY <2>1 DEF WorkerInv
  <2> QED BY <2>2, CommType, RankFacts, GroupAssumption DEF IInv, Communicators
<1> QED BY <1>1, <1>2

LEMMA CommunicatorTypes ==
    ASSUME IInv, Communicator PROVE TypeOK'
<1>0. TypeOK
  BY DEF IInv
<1> USE RankFacts DEF hostVars, rootVars, tcpVars, sessionVars, configVars,
                      receiverVars, psnVars, Goto
<1>1. CASE CollectQP
  <2>1. PICK n \in Workers : n = Len(group_qp_num_list) /\ group_fd_list[n] = n
                             /\ comm[0] \in Communicators
                             /\ to_root[n] = <<[qp |-> <<n, comm[0]>>]>>
    BY <1>1, CollectFacts
  <2>2. group_qp_num_list' = Append(group_qp_num_list, <<n, comm[0]>>)
    BY <1>1, <2>1 DEF CollectQP
  <2>3. <<n, comm[0]>> \in QPs /\ group_qp_num_list \in Seq(QPs)
    BY <1>0, <2>1 DEF QPs, TypeOK
  <2>4. group_qp_num_list' \in Seq(QPs)
    BY <2>2, <2>3
  <2> QED BY <1>0, <1>1, <2>4 DEF TypeOK, CollectQP
<1>2. CASE RequestRoute
  BY <1>0, <1>2 DEF TypeOK, RequestRoute
<1>3. CASE ForwardTopology
  <2>1. Head(from_controller) \in Seq(QPs)
    BY <1>3, TopologyFacts, FullType
  <2>2. topology' \in [Ranks -> Seq(QPs)]
    BY <1>0, <1>3, <2>1 DEF TypeOK, ForwardTopology
  <2> QED BY <1>0, <1>3, <2>2 DEF TypeOK, ForwardTopology
<1>4. ASSUME NEW r \in Ranks, CreateQP(r) PROVE TypeOK'
  <2>1. comm[r] + 1 \in 1 .. communicators /\ comm[r] + 1 \in Communicators
    BY <1>4, CommType, GroupAssumption DEF IInv, CreateQP, Communicators
  <2>2. comm' \in [Ranks -> 0 .. communicators]
    BY <1>0, <1>4, <2>1 DEF TypeOK, CreateQP
  <2>3. <<r, comm[r] + 1>> \in QPs
    BY <2>1 DEF QPs
  <2>4. group_qp_num_list' = <<<<r, comm[r] + 1>>>>
           \/ group_qp_num_list' = group_qp_num_list
    BY <1>4 DEF CreateQP
  <2>5. group_qp_num_list' \in Seq(QPs)
    <3>1. PICK qp \in QPs : qp = <<r, comm[r] + 1>>
      BY <2>3
    <3>2. <<qp>> \in Seq(QPs)
      BY ONLY qp \in QPs
    <3>3. group_qp_num_list \in Seq(QPs)
      BY <1>0 DEF TypeOK
    <3> QED BY <2>4, <3>1, <3>2, <3>3
  <2>6. pc' = [pc EXCEPT ![r] = "collect"] \/ pc' = [pc EXCEPT ![r] = "topology"]
    BY <1>4 DEF CreateQP
  <2> QED BY <1>0, <1>4, <2>2, <2>5, <2>6 DEF TypeOK, CreateQP
<1>5. ASSUME NEW r \in Workers, ReceiveTopology(r) PROVE TypeOK'
  <2>1. Head(to_rank[r]) \in Seq(QPs)
    BY <1>5, TopologyFacts, FullType
  <2>2. topology' \in [Ranks -> Seq(QPs)]
    BY <1>0, <1>5, <2>1 DEF TypeOK, ReceiveTopology
  <2> QED BY <1>0, <1>5, <2>2 DEF TypeOK, ReceiveTopology
<1> QED BY <1>1, <1>2, <1>3, <1>4, <1>5 DEF Communicator

LEMMA TypeKept ==
    ASSUME IInv, [Next]_vars PROVE TypeOK'
<1>1. CASE Next
  BY <1>1, GroupTypes, CommunicatorTypes, CallerTypes, ControllerTypes,
     ConfigTypes, ReceiverTypes, HandlerTypes DEF Next
<1>2. CASE UNCHANGED vars
  BY <1>2 DEF IInv, TypeOK, vars, hostVars, rootVars, tcpVars, sessionVars,
              configVars, receiverVars, psnVars
<1> QED BY <1>1, <1>2

------------------------------------------------------------------------------
(* The switch. *)

LEMMA ConfigThreadKeeps ==
    ASSUME IInv, ConfigThread PROVE IInv'
<1> USE DEF hostVars, rootVars, tcpVars, sessionVars, configVars, receiverVars,
            psnVars
<1>1. UNCHANGED <<pc, comm, topology, rootVars, tcpVars, reply, i>>
  BY DEF ConfigThread, ConnectController, ReceiveConfig, ClearRules,
         switch_context_reset_psn_states, ParseConnection, SetFanIn, ParseRule,
         ConfigApplied
<1>2. TypeOK'
  BY ConfigTypes
<1>3. RootInv' /\ (\A r \in Workers : WorkerInv(r)') /\ LinksInv' /\ SessionInv'
  BY <1>1, HostsKept
<1>4. SwitchInv
  BY DEF IInv
<1>5. CASE ReceiveConfig
  <2>1. /\ to_switch # << >> /\ to_switch \in Seq(Seq(QPs))
        /\ to_switch' = Tail(to_switch) /\ config' = to_switch[1]
    <3>1. to_switch # << >> /\ to_switch' = Tail(to_switch)
          /\ config' = Head(to_switch)
      BY <1>5 DEF ReceiveConfig
    <3>2. to_switch \in Seq(Seq(QPs))
      BY <1>4 DEF SwitchInv
    <3> QED BY ONLY <3>1, <3>2
  <2>2. Len(to_switch') = Len(to_switch) - 1 /\ to_switch' \in Seq(Seq(QPs))
        /\ \A n \in 1 .. Len(to_switch') : to_switch'[n] = to_switch[n + 1]
        /\ Len(to_switch) \in Nat \ {0}
    BY <2>1
  <2>3. \A n \in 1 .. Len(to_switch) :
           \E k \in 1 .. comm[0] : to_switch[n] = Full(k) /\ Asked(k)
    BY <1>4 DEF SwitchInv, Route
  <2>4. \A n \in 1 .. Len(to_switch') : Route(to_switch[n])'
    <3>1. ASSUME NEW n \in 1 .. Len(to_switch')
          PROVE  \E k \in 1 .. comm'[0] : to_switch'[n] = Full(k) /\ Asked(k)'
      <4>1. n + 1 \in 1 .. Len(to_switch)
        BY <2>2
      <4> QED BY <1>1, <2>2, <2>3, <4>1 DEF Asked
    <3> QED BY <3>1 DEF Route
  <2>5. Route(config)'
    <3>1. \E k \in 1 .. comm[0] : to_switch[1] = Full(k) /\ Asked(k)
      BY <2>2, <2>3
    <3> QED BY <1>1, <2>1, <3>1 DEF Route, Asked
  <2>6. \A c \in Connections : conns'[c].qp = NoQP
    BY <1>5 DEF ReceiveConfig, Cleared
  <2>7. step' = "rules cleared" /\ idx' = idx /\ i' = i
    BY <1>5 DEF ReceiveConfig
  <2>8. SwitchInv'
    BY <1>4, <2>2, <2>4, <2>5, <2>6, <2>7 DEF SwitchInv
  <2> QED BY <1>2, <1>3, <2>8 DEF IInv
<1>6. ASSUME ~ ReceiveConfig PROVE IInv'
  <2>1. /\ UNCHANGED to_switch
        /\ step' # "receive" => UNCHANGED config /\ step # "receive"
        /\ step' \in {"receive", "rules cleared", "reset", "connections", "rules"}
        /\ idx' \in 0 .. connections_cnt
    <3>1. CASE ConnectController
      BY <1>4, <3>1 DEF SwitchInv, ConnectController
    <3>2. CASE ClearRules
      BY <1>4, <3>2 DEF SwitchInv, ClearRules
    <3>3. CASE switch_context_reset_psn_states
      BY <1>4, <3>3, ConnectionFacts DEF SwitchInv, switch_context_reset_psn_states
    <3>4. CASE ParseConnection
      BY <1>4, <3>4, ConnectionFacts DEF SwitchInv, ParseConnection
    <3>5. CASE SetFanIn
      BY <1>4, <3>5 DEF SwitchInv, SetFanIn
    <3>6. CASE ParseRule
      BY <1>4, <3>6 DEF SwitchInv, ParseRule
    <3>7. CASE ConfigApplied
      BY <1>4, <3>7 DEF SwitchInv, ConfigApplied
    <3> QED BY <1>6, <3>1, <3>2, <3>3, <3>4, <3>5, <3>6, <3>7 DEF ConfigThread
  <2>2. \A n \in 1 .. Len(to_switch') : Route(to_switch[n])'
    BY <1>1, <1>4, <2>1 DEF SwitchInv, Route, Asked
  <2>3. step' # "receive" => Route(config)'
    BY <1>1, <1>4, <2>1 DEF SwitchInv, Route, Asked
  <2>4. ASSUME NEW c \in Connections, conns'[c].qp # NoQP
        PROVE  \E k \in 1 .. comm'[0] : conns'[c].qp = <<c, k>>
    <3>1. CASE ParseConnection
      <4>1. step = "connections" /\ idx \in Connections
        BY <3>1 DEF ParseConnection
      <4>2. PICK k \in 1 .. comm[0] : config[idx + 1] = <<idx, k>>
        BY <4>1, ConfigEntry
      <4>3. conns'[c].qp = IF c = idx THEN config[idx + 1] ELSE conns[c].qp
        BY <2>4, <3>1, <4>1, ConfigEntry DEF ParseConnection, IInv, TypeOK
      <4>4. CASE c = idx
        BY <1>1, <4>2, <4>3, <4>4
      <4>5. CASE c # idx
        BY <1>1, <1>4, <2>4, <4>3, <4>5 DEF SwitchInv
      <4> QED BY <4>4, <4>5
    <3>2. CASE conns' = conns
      BY <1>1, <1>4, <2>4, <3>2 DEF SwitchInv
    <3> QED BY <1>6, <3>1, <3>2 DEF ConfigThread, ConnectController, ClearRules,
               switch_context_reset_psn_states, SetFanIn, ParseRule, ConfigApplied
  <2>5. SwitchInv'
    BY <1>1, <1>4, <2>1, <2>2, <2>3, <2>4 DEF SwitchInv
  <2> QED BY <1>2, <1>3, <2>5 DEF IInv
<1> QED BY <1>5, <1>6

LEMMA ReceiverKeeps ==
    ASSUME IInv, Receiver PROVE IInv'
<1> USE DEF hostVars, rootVars, tcpVars, sessionVars, configVars, receiverVars,
            psnVars
<1>1. /\ UNCHANGED <<pc, comm, topology, rootVars, tcpVars, reply>>
      /\ UNCHANGED <<to_switch, step, config, idx>>
  BY DEF Receiver, StartReceiving, OpenHandle, CreateThreads, CreateThread,
         JoinThreads, JoinThread
<1>2. TypeOK'
  BY ReceiverTypes
<1>3. RootInv' /\ (\A r \in Workers : WorkerInv(r)') /\ LinksInv' /\ SessionInv'
  BY <1>1, HostsKept
<1>4. SwitchInv
  BY DEF IInv
<1>5. i' \in Nat
  <2>1. i' = i \/ i' = i + 1 \/ i' = 0
    BY DEF Receiver, StartReceiving, OpenHandle, CreateThreads, CreateThread,
           JoinThreads, JoinThread
  <2>2. i \in Nat
    BY <1>4 DEF SwitchInv
  <2> QED BY ONLY <2>1, <2>2
<1>6. \A c \in Connections : conns'[c].qp = conns[c].qp
  <2>1. CASE OpenHandle
    <3>1. i \in Connections
      <4>1. i \in Nat /\ fan_in \in 0 .. connections_cnt /\ i < fan_in
        BY <1>4, <2>1 DEF SwitchInv, OpenHandle, IInv, TypeOK
      <4> QED BY <4>1, ConnectionFacts
    <3>2. conns' = [conns EXCEPT ![i] =
                       [[@ EXCEPT !.handle = TRUE] EXCEPT !.ok = TRUE]]
      BY <2>1, <3>1 DEF OpenHandle, IInv, TypeOK
    <3> QED BY <3>1, <3>2 DEF IInv, TypeOK
  <2>2. CASE conns' = conns
    BY <2>2
  <2> QED BY <2>1, <2>2 DEF Receiver, StartReceiving, CreateThreads,
                            CreateThread, JoinThreads, JoinThread
<1>7. SwitchInv'
  <2>1. \A n \in 1 .. Len(to_switch') : Route(to_switch[n])'
    BY <1>1, <1>4 DEF SwitchInv, Route, Asked
  <2>2. step' # "receive" => Route(config)'
    BY <1>1, <1>4 DEF SwitchInv, Route, Asked
  <2>3. ASSUME NEW c \in Connections, conns'[c].qp # NoQP
        PROVE  \E k \in 1 .. comm'[0] : conns'[c].qp = <<c, k>>
    BY <1>1, <1>4, <1>6, <2>3 DEF SwitchInv
  <2> QED BY <1>1, <1>4, <1>5, <2>1, <2>2, <2>3 DEF SwitchInv
<1> QED BY <1>2, <1>3, <1>7 DEF IInv

(* The data plane, the controller's main and a step of nobody.              *)
LEMMA OthersKeep ==
    ASSUME IInv, TypeOK',
           UNCHANGED <<pc, comm, topology, rootVars, tcpVars, reply>>,
           UNCHANGED <<to_switch, step, config, conns, idx, i>>
    PROVE  IInv'
<1>1. RootInv' /\ (\A r \in Workers : WorkerInv(r)') /\ LinksInv' /\ SessionInv'
  BY HostsKept
<1>2. comm[0] \in Nat
  BY CommType, RankFacts DEF IInv
<1>3. SwitchInv'
  BY <1>2, SwitchKept
<1> QED BY <1>1, <1>3 DEF IInv

LEMMA HandlerKeeps ==
    ASSUME IInv, NEW c \in Connections, Handler(c) PROVE IInv'
<1>1. /\ UNCHANGED <<pc, comm, topology, rootVars, tcpVars, reply>>
      /\ UNCHANGED <<to_switch, step, config, conns, idx, i>>
  BY DEF Handler, HandleControl, HandleData, HandleOther, Crash, hostVars,
         rootVars, tcpVars, sessionVars, configVars, receiverVars, psnVars
<1> QED BY <1>1, HandlerTypes, OthersKeep

------------------------------------------------------------------------------
(* The hosts. *)

(* Only rank 0's phase and communicator, its list and its sockets count for *)
(* the workers that take no step.                                           *)
LEMMA PhaseKept ==
    ASSUME pc'[0] = pc[0], comm'[0] = comm[0],
           UNCHANGED group_qp_num_list, NEW r
    PROVE  /\ \A k \in Nat : Collected(r, k)' <=> Collected(r, k)
           /\ \A k \in Nat : Forwarded(k)' <=> Forwarded(k)
BY DEF Collected, Forwarded

(* A call leaves everything but the rank's own phase alone. *)
LEMMA CallKeeps ==
    ASSUME IInv, TypeOK', NEW r \in Ranks, NEW where \in {"control", "data", "create"},
           pc[r] \in {"call", "control", "data"}, Goto(r, where),
           UNCHANGED <<comm, topology, rootVars, tcpVars, reply>>,
           UNCHANGED <<to_switch, step, config, conns, idx, i>>
    PROVE  IInv'
<1> USE DEF rootVars, tcpVars
<1>0. /\ pc \in [Ranks -> {"start", "accept", "register", "create", "collect",
                           "topology", "call", "control", "data", "failed"}]
      /\ pc' = [pc EXCEPT ![r] = where]
      /\ \A s \in Ranks : comm[s] \in Nat
  BY CommType DEF IInv, TypeOK, Goto
<1>1. /\ pc'[r] = where
      /\ \A s \in Ranks : s # r => pc'[s] = pc[s]
      /\ \A s \in Ranks : pc'[s] \in {"control", "data", "create"} \/ pc'[s] = pc[s]
  BY <1>0
<1>2. /\ \A k \in Nat : Forwarded(k)' <=> Forwarded(k)
      /\ \A s, k \in Nat : Collected(s, k)' <=> Collected(s, k)
  <2>1. CASE r = 0
    BY <1>0, <1>1, <2>1, RankFacts DEF Forwarded, Collected
  <2>2. CASE r # 0
    BY <1>0, <1>1, <2>2, RankFacts DEF Forwarded, Collected
  <2> QED BY <2>1, <2>2
<1>3. \A s \in Ranks : InBacklog(s)' <=> InBacklog(s)
  BY DEF InBacklog
<1>4. RootInv'
  <2>1. RootInv
    BY DEF IInv
  <2>2. CASE r = 0
    <3>1. pc[0] \in {"call", "control", "data"} /\ pc'[0] = where
      BY <1>1, <2>2
    <3> QED BY <2>1, <3>1 DEF RootInv, AllAccepted
  <2>3. CASE r # 0
    <3>1. pc'[0] = pc[0]
      BY <1>1, <2>3, RankFacts
    <3> QED BY <2>1, <3>1 DEF RootInv, AllAccepted
  <2> QED BY <2>2, <2>3
<1>5. ASSUME NEW s \in Workers PROVE WorkerInv(s)'
  <2>1. WorkerInv(s) /\ s \in Ranks /\ s \in Nat
    BY RankFacts DEF IInv
  <2>2. CASE s # r
    <3>1. pc'[s] = pc[s]
      BY <1>1, <2>1, <2>2
    <3>2. \A k \in Nat : Collected(s, k)' <=> Collected(s, k)
      BY <1>2, <2>1
    <3> QED BY <1>0, <1>2, <1>3, <2>1, <3>1, <3>2, WorkerKept
  <2>3. CASE s = r
    <3>1. PICK n \in Nat : n = comm[r] /\ n = comm'[r] /\ n > 0
      BY <1>0, <2>1, <2>3 DEF WorkerInv
    <3>2. Forwarded(n)
      BY <2>1, <2>3, <3>1 DEF WorkerInv, Forwarded
    <3>3. Forwarded(n)'
      BY <1>2, <3>1, <3>2
    <3>4. to_root'[r] = Hello(r)' \o Number(r)'
      <4>1. Hello(r)' = Hello(r)
        BY <1>3 DEF Hello
      <4>2. Collected(r, n)' <=> Collected(r, n)
        BY <1>2, <2>1, <2>3
      <4>3. Number(r)' = Number(r)
        BY <3>1, <4>2 DEF Number, Collected
      <4> QED BY <2>1, <2>3, <4>1, <4>3 DEF WorkerInv
    <3>5. to_rank'[r] = << >>
      BY <2>1, <2>3 DEF WorkerInv
    <3>6. \A k \in Communicators : Collected(r, k)' => k <= comm'[r]
      BY <1>2, <2>1, <2>3, RankFacts DEF WorkerInv
    <3>7. Forwarded(comm[r])'
      BY <3>1, <3>3 DEF Forwarded
    <3>8. InBacklog(r)' => group_fd_list'[r] = None
      BY <1>3, <2>1, <2>3 DEF WorkerInv
    <3>9. topology'[r] = Full(comm'[r])
      BY <2>1, <2>3 DEF WorkerInv
    <3> QED BY <1>1, <2>3, <3>1, <3>4, <3>5, <3>6, <3>7, <3>8, <3>9 DEF WorkerInv
  <2> QED BY <2>2, <2>3
<1>6. LinksInv'
  BY DEF IInv, LinksInv
<1>7. SessionInv'
  <2>1. SessionInv
    BY DEF IInv
  <2>2. CASE r = 0
    <3>1. pc[0] \in {"call", "control", "data"} /\ pc'[0] = where
      BY <1>1, <2>2
    <3> QED BY <2>1, <3>1 DEF SessionInv
  <2>3. CASE r # 0
    <3>1. pc'[0] = pc[0]
      BY <1>1, <2>3, RankFacts
    <3> QED BY <2>1, <3>1 DEF SessionInv
  <2> QED BY <2>2, <2>3
<1>8. SwitchInv'
  BY <1>0, <1>1, SwitchKept, RankFacts
<1> QED BY <1>4, <1>5, <1>6, <1>7, <1>8 DEF IInv

LEMMA CallerKeeps ==
    ASSUME IInv, Caller PROVE IInv'
<1> USE DEF hostVars, rootVars, tcpVars, sessionVars, configVars, receiverVars,
            psnVars
<1>1. PICK r \in Ranks : PostControl(r) \/ PostData(r) \/ Return(r)
  BY DEF Caller
<1>2. /\ UNCHANGED <<comm, topology, rootVars, tcpVars, reply>>
      /\ UNCHANGED <<to_switch, step, config, conns, idx, i>>
      /\ pc[r] \in {"call", "control", "data"}
      /\ Goto(r, "control") \/ Goto(r, "data") \/ Goto(r, "create")
  BY <1>1 DEF PostControl, PostData, Return
<1>3. TypeOK'
  BY CallerTypes
<1> QED BY <1>2, <1>3, CallKeeps

(* While no number is collected and no topology is waited for, rank 0's     *)
(* phase does not matter to the workers.                                    *)
LEMMA RootMoves ==
    ASSUME IInv, pc'[0] = pc[0] \/ {pc[0], pc'[0]} \cap {"collect", "topology"} = {},
           \A r \in Workers : pc'[r] = pc[r],
           UNCHANGED <<comm, topology, rootVars, to_root, to_rank>>
    PROVE  \A r \in Workers : WorkerInv(r)'
<1> USE DEF rootVars
<1>1. /\ \A k \in Nat : Forwarded(k)' <=> Forwarded(k)
      /\ \A s, k \in Nat : Collected(s, k)' <=> Collected(s, k)
  BY DEF Forwarded, Collected
<1>2. ASSUME NEW r \in Workers PROVE WorkerInv(r)'
  <2>1. WorkerInv(r) /\ comm[r] \in Nat /\ r \in Nat
    BY CommType, RankFacts DEF IInv
  <2>2. \A k \in Nat : Collected(r, k)' <=> Collected(r, k)
    BY <1>1, <2>1
  <2>3. InBacklog(r)' <=> InBacklog(r)
    BY DEF InBacklog
  <2> QED BY <1>1, <2>1, <2>2, <2>3, WorkerKept
<1> QED BY <1>2

LEMMA ListenKeeps ==
    ASSUME IInv, Listen PROVE IInv'
<1> USE DEF hostVars, rootVars, tcpVars, sessionVars, configVars, receiverVars,
            psnVars
<1>1. /\ pc[0] = "start" /\ pc'[0] = "accept"
      /\ \A r \in Workers : pc'[r] = pc[r]
      /\ UNCHANGED <<comm, topology, rootVars, tcpVars, sessionVars>>
      /\ UNCHANGED <<step, config, conns, idx, i>>
  BY RankFacts DEF Listen, Goto, IInv, TypeOK
<1>2. TypeOK'
  BY GroupTypes DEF Group
<1>3. RootInv'
  BY <1>1 DEF IInv, RootInv
<1>4. \A r \in Workers : WorkerInv(r)'
  BY <1>1, RootMoves
<1>5. LinksInv' /\ SessionInv'
  BY <1>1 DEF IInv, LinksInv, SessionInv
<1>6. SwitchInv'
  BY <1>1, <1>2, SwitchKept, CommType, RankFacts DEF IInv
<1> QED BY <1>2, <1>3, <1>4, <1>5, <1>6 DEF IInv

LEMMA RegisterKeeps ==
    ASSUME IInv, RegisterGroup \/ RegisterGroupFails PROVE IInv'
<1> USE DEF hostVars, rootVars, tcpVars, sessionVars, configVars, receiverVars,
            psnVars
<1>1. /\ pc[0] = "accept" /\ pc'[0] \in {"register", "failed"} /\ AllAccepted
      /\ pc'[0] = "register" => to_controller' = Append(to_controller, [type |-> "G"])
      /\ pc'[0] = "failed" => to_controller' = to_controller
      /\ \A r \in Workers : pc'[r] = pc[r]
      /\ UNCHANGED <<comm, topology, rootVars, to_root, to_rank, from_controller,
                     sessionVars>>
      /\ UNCHANGED <<step, config, conns, idx, i>>
  BY RankFacts DEF RegisterGroup, RegisterGroupFails, Goto, IInv, TypeOK
<1>2. TypeOK'
  BY GroupTypes DEF Group
<1>3. RootInv'
  BY <1>1 DEF IInv, RootInv, AllAccepted
<1>4. \A r \in Workers : WorkerInv(r)'
  BY <1>1, RootMoves
<1>5. LinksInv'
  BY <1>1 DEF IInv, LinksInv
<1>6. SessionInv'
  BY <1>1 DEF IInv, SessionInv
<1>7. SwitchInv'
  BY <1>1, <1>2, SwitchKept, CommType, RankFacts DEF IInv
<1> QED BY <1>2, <1>3, <1>4, <1>5, <1>6, <1>7 DEF IInv

LEMMA ReceiveGroupIdKeeps ==
    ASSUME IInv, ReceiveGroupId PROVE IInv'
<1> USE DEF hostVars, rootVars, tcpVars, sessionVars, configVars, receiverVars,
            psnVars
<1>1. /\ pc[0] = "register" /\ pc'[0] = "create" /\ from_controller # << >>
      /\ from_controller' = Tail(from_controller)
      /\ \A r \in Workers : pc'[r] = pc[r]
      /\ UNCHANGED <<comm, topology, rootVars, to_root, to_rank, to_controller,
                     sessionVars>>
      /\ UNCHANGED <<step, config, conns, idx, i>>
  BY RankFacts DEF ReceiveGroupId, Goto, IInv, TypeOK
<1>2. TypeOK'
  BY GroupTypes DEF Group
<1>3. RootInv'
  BY <1>1 DEF IInv, RootInv, AllAccepted
<1>4. \A r \in Workers : WorkerInv(r)'
  BY <1>1, RootMoves
<1>5. LinksInv'
  BY <1>1 DEF IInv, LinksInv
<1>6. SessionInv'
  BY <1>1 DEF IInv, SessionInv
<1>7. SwitchInv'
  BY <1>1, <1>2, SwitchKept, CommType, RankFacts DEF IInv
<1> QED BY <1>2, <1>3, <1>4, <1>5, <1>6, <1>7 DEF IInv

LEMMA ConnectMasterKeeps ==
    ASSUME IInv, NEW r \in Workers, ConnectMaster(r) PROVE IInv'
<1> USE DEF hostVars, rootVars, tcpVars, sessionVars, configVars, receiverVars,
            psnVars
<1>1. /\ pc[r] = "start" /\ pc[0] = "accept" /\ pc'[r] = "create"
      /\ pc'[0] = "accept"
      /\ \A s \in Ranks : s # r => pc'[s] = pc[s]
      /\ backlog' = Append(backlog, r) /\ backlog \in Seq(Workers)
      /\ to_root'[r] = Append(to_root[r], [rank |-> r])
      /\ \A s \in Workers : s # r => to_root'[s] = to_root[s]
      /\ DOMAIN to_root' = DOMAIN to_root
      /\ UNCHANGED <<comm, topology, group_fd_list, group_qp_num_list, to_rank,
                     to_controller, from_controller, sessionVars>>
      /\ UNCHANGED <<step, config, conns, idx, i>>
  BY RankFacts DEF ConnectMaster, Goto, IInv, TypeOK, LinksInv
<1>2. TypeOK'
  BY GroupTypes DEF Group
<1>3. WorkerInv(r) /\ ~ InBacklog(r) /\ comm[r] = 0 /\ group_fd_list[r] = None
      /\ comm[0] = 0
  BY <1>1 DEF IInv, WorkerInv, RootInv
<1>4. /\ \A n \in 1 .. Len(backlog) : backlog'[n] = backlog[n]
      /\ Len(backlog') = Len(backlog) + 1 /\ backlog'[Len(backlog) + 1] = r
      /\ Len(backlog) \in Nat
  BY <1>1
<1>5. /\ \A s \in Workers : s # r => (InBacklog(s)' <=> InBacklog(s))
      /\ InBacklog(r)'
  BY <1>4 DEF InBacklog
<1>6. /\ \A k \in Nat : Forwarded(k)' <=> Forwarded(k)
      /\ \A s, k \in Nat : Collected(s, k)' <=> Collected(s, k)
  BY <1>1 DEF Forwarded, Collected
<1>7. RootInv'
  <2>1. \A m, n \in 1 .. Len(backlog') : backlog'[m] = backlog'[n] => m = n
    BY <1>3, <1>4 DEF IInv, RootInv, InBacklog
  <2> QED BY <1>1, <2>1 DEF IInv, RootInv
<1>8. ASSUME NEW s \in Workers PROVE WorkerInv(s)'
  <2>1. CASE s # r
    <3>1. WorkerInv(s) /\ comm[s] \in Nat /\ s \in Nat
      BY CommType, RankFacts DEF IInv
    <3>2. \A k \in Nat : Collected(s, k)' <=> Collected(s, k)
      BY <1>6, <3>1
    <3> QED BY <1>1, <1>5, <1>6, <2>1, <3>1, <3>2, WorkerKept, RankFacts
  <2>2. CASE s = r
    <3>1. Collected(r, 0) /\ Collected(r, 0)' /\ Forwarded(0) /\ Forwarded(0)'
      BY <1>1, <1>3 DEF Collected, Forwarded
    <3>2. to_root[r] = << >>
      BY <1>3, <3>1 DEF WorkerInv, Hello, Number
    <3>3. to_root'[r] = Hello(r)' \o Number(r)'
      BY <1>1, <1>3, <1>5, <3>1, <3>2 DEF Hello, Number, Collected
    <3>4. to_rank'[r] = << >>
      BY <1>1, <1>3 DEF WorkerInv
    <3>5. \A k \in Communicators : Collected(r, k)' => k <= comm'[r]
      BY <1>1, <1>3, <1>6, RankFacts DEF WorkerInv
    <3>6. Forwarded(comm[r])'
      BY <1>1, <1>3, <3>1 DEF Forwarded
    <3> QED BY <1>1, <1>3, <2>2, <3>3, <3>4, <3>5, <3>6 DEF WorkerInv
  <2> QED BY <2>1, <2>2
<1>9. LinksInv' /\ SessionInv'
  BY <1>1 DEF IInv, LinksInv, SessionInv
<1>10. SwitchInv'
  BY <1>1, <1>2, SwitchKept, CommType, RankFacts DEF IInv
<1> QED BY <1>2, <1>7, <1>8, <1>9, <1>10 DEF IInv

LEMMA ConnectMasterFailsKeeps ==
    ASSUME IInv, NEW r \in Workers, ConnectMasterFails(r) PROVE IInv'
<1> USE DEF hostVars, rootVars, tcpVars, sessionVars, configVars, receiverVars,
            psnVars
<1>1. /\ pc[r] = "start" /\ pc'[r] = "failed" /\ pc'[0] = pc[0]
      /\ \A s \in Ranks : s # r => pc'[s] = pc[s]
      /\ UNCHANGED <<comm, topology, rootVars, tcpVars, sessionVars>>
      /\ UNCHANGED <<step, config, conns, idx, i>>
  BY RankFacts DEF ConnectMasterFails, Goto, IInv, TypeOK
<1>2. TypeOK'
  BY GroupTypes DEF Group
<1>3. RootInv'
  BY <1>1 DEF IInv, RootInv, AllAccepted
<1>4. ASSUME NEW s \in Workers PROVE WorkerInv(s)'
  <2>1. WorkerInv(s) /\ comm[s] \in Nat
    BY CommType, RankFacts DEF IInv
  <2>2. CASE s # r
    <3>1. /\ \A k \in Nat : Collected(s, k)' <=> Collected(s, k)
          /\ \A k \in Nat : Forwarded(k)' <=> Forwarded(k)
      BY <1>1 DEF Collected, Forwarded
    <3>2. InBacklog(s)' <=> InBacklog(s)
      BY <1>1 DEF InBacklog
    <3> QED BY <1>1, <2>1, <2>2, <3>1, <3>2, WorkerKept, RankFacts
  <2>3. CASE s = r
    BY <1>1, <2>1, <2>3 DEF WorkerInv, Hello, Number, InBacklog, Collected,
                            Forwarded
  <2> QED BY <2>2, <2>3
<1>5. LinksInv' /\ SessionInv'
  BY <1>1 DEF IInv, LinksInv, SessionInv
<1>6. SwitchInv'
  BY <1>1, <1>2, SwitchKept, CommType, RankFacts DEF IInv
<1> QED BY <1>2, <1>3, <1>4, <1>5, <1>6 DEF IInv

LEMMA AcceptKeeps ==
    ASSUME IInv, Accept PROVE IInv'
<1> USE DEF hostVars, rootVars, tcpVars, sessionVars, configVars, receiverVars,
            psnVars
<1>1. /\ backlog # << >> /\ backlog \in Seq(Workers) /\ pc[0] = "accept"
      /\ backlog' = Tail(backlog)
  BY DEF Accept, IInv, TypeOK
<1>2. PICK r \in Workers : r = Head(backlog) /\ r = backlog[1]
  BY <1>1
<1>3. Len(backlog) \in Nat \ {0} /\ Len(backlog') = Len(backlog) - 1
      /\ \A n \in 1 .. Len(backlog') : backlog'[n] = backlog[n + 1]
  BY <1>1
<1>4. InBacklog(r) /\ WorkerInv(r)
  <2>1. 1 \in 1 .. Len(backlog)
    BY <1>3
  <2> QED BY <1>2, <2>1 DEF InBacklog, IInv
<1>5. /\ to_root[r] = <<[rank |-> r]>> \o Number(r) /\ group_fd_list[r] = None
      /\ Head(to_root[r]) = [rank |-> r] /\ Tail(to_root[r]) = Number(r)
  <2>1. to_root[r] = <<[rank |-> r]>> \o Number(r) /\ group_fd_list[r] = None
    BY <1>4 DEF WorkerInv, Hello
  <2>2. Number(r) \in Seq({[qp |-> <<r, comm[r]>>]})
    BY SMTT(30) DEF Number
  <2> HIDE DEF Number
  <2>3. PICK hello : hello = [rank |-> r]
    OBVIOUS
  <2>4. Head(<<hello>> \o Number(r)) = hello /\ Tail(<<hello>> \o Number(r)) = Number(r)
    BY <2>2
  <2> QED BY <2>1, <2>3, <2>4
<1>6. /\ group_fd_list' = [group_fd_list EXCEPT ![r] = r]
      /\ to_root' = [to_root EXCEPT ![r] = Tail(@)]
      /\ UNCHANGED <<pc, comm, topology, group_qp_num_list, to_rank,
                     to_controller, from_controller, sessionVars>>
      /\ UNCHANGED <<step, config, conns, idx, i>>
  <2>1. /\ group_fd_list' = [group_fd_list EXCEPT ![Head(to_root[r]).rank] = r]
        /\ to_root' = [to_root EXCEPT ![r] = Tail(@)]
    BY <1>2 DEF Accept
  <2>2. Head(to_root[r]).rank = r
    <3>1. PICK hello : hello = [rank |-> r] /\ Head(to_root[r]) = hello
      BY <1>5
    <3> QED BY <3>1
  <2>3. group_fd_list' = [group_fd_list EXCEPT ![r] = r]
    BY <2>1, <2>2
  <2> QED BY <2>1, <2>3 DEF Accept
<1>7. TypeOK'
  BY GroupTypes DEF Group
<1>8. /\ ~ InBacklog(r)'
      /\ \A s \in Workers : s # r => (InBacklog(s)' <=> InBacklog(s))
  <2>1. \A m, n \in 1 .. Len(backlog) : backlog[m] = backlog[n] => m = n
    BY DEF IInv, RootInv
  <2>2. ASSUME InBacklog(r)' PROVE FALSE
    <3>1. PICK n \in 1 .. Len(backlog') : backlog'[n] = r
      BY <2>2 DEF InBacklog
    <3>2. n + 1 \in 1 .. Len(backlog) /\ 1 \in 1 .. Len(backlog)
          /\ backlog[n + 1] = backlog[1] /\ n + 1 # 1
      BY <1>2, <1>3, <3>1
    <3> QED BY <2>1, <3>2
  <2>3. ASSUME NEW s \in Workers, s # r PROVE InBacklog(s)' <=> InBacklog(s)
    <3>1. ASSUME InBacklog(s)' PROVE InBacklog(s)
      <4>1. PICK n \in 1 .. Len(backlog') : backlog'[n] = s
        BY <3>1 DEF InBacklog
      <4>2. n + 1 \in 1 .. Len(backlog) /\ backlog[n + 1] = s
        BY <1>3, <4>1
      <4> QED BY <4>2 DEF InBacklog
    <3>2. ASSUME InBacklog(s) PROVE InBacklog(s)'
      <4>1. PICK n \in 1 .. Len(backlog) : backlog[n] = s
        BY <3>2 DEF InBacklog
      <4>2. n # 1
        BY <1>2, <2>3, <4>1
      <4>3. n - 1 \in 1 .. Len(backlog') /\ backlog'[n - 1] = s
        BY <1>3, <4>1, <4>2
      <4> QED BY <4>3 DEF InBacklog
    <3> QED BY <3>1, <3>2
  <2> QED BY <2>2, <2>3
<1>9. /\ \A k \in Nat : Forwarded(k)' <=> Forwarded(k)
      /\ \A s, k \in Nat : Collected(s, k)' <=> Collected(s, k)
  BY <1>6 DEF Forwarded, Collected
<1>10. RootInv'
  <2>1. ASSUME NEW m \in 1 .. Len(backlog'), NEW n \in 1 .. Len(backlog'),
               backlog'[m] = backlog'[n]
        PROVE  m = n
    <3>1. m + 1 \in 1 .. Len(backlog) /\ n + 1 \in 1 .. Len(backlog)
          /\ backlog[m + 1] = backlog[n + 1]
      BY <1>3, <2>1
    <3>2. m + 1 = n + 1
      BY <3>1 DEF IInv, RootInv
    <3> QED BY <3>2
  <2>2. \A s \in Ranks : group_fd_list'[s] \in {None, s}
    BY <1>6, RankFacts DEF IInv, RootInv, TypeOK
  <2> QED BY <1>1, <1>6, <2>1, <2>2 DEF IInv, RootInv
<1>11. ASSUME NEW s \in Workers PROVE WorkerInv(s)'
  <2>0. WorkerInv(s) /\ comm[s] \in Nat /\ s \in Nat /\ s \in Ranks
    BY CommType, RankFacts DEF IInv
  <2>1. CASE s # r
    <3>1. \A k \in Nat : Collected(s, k)' <=> Collected(s, k)
      BY <1>9, <2>0
    <3>2. to_root'[s] = to_root[s] /\ group_fd_list'[s] = group_fd_list[s]
      BY <1>6, <2>0, <2>1 DEF IInv, LinksInv, TypeOK
    <3> QED BY <1>6, <1>8, <1>9, <2>0, <2>1, <3>1, <3>2, WorkerKept
  <2>2. CASE s = r
    <3>1. PICK n \in Nat : n = comm[r] /\ n = comm'[r]
      BY <1>6, <2>0, <2>2
    <3>2. to_root'[r] = Hello(r)' \o Number(r)'
      <4>1. Collected(r, n)' <=> Collected(r, n)
        BY <1>9, <2>0, <2>2
      <4>2. Number(r)' = Number(r)
        BY <3>1, <4>1 DEF Number, Collected
      <4>3. to_root'[r] = Number(r)
        BY <1>5, <1>6, <2>0, <2>2 DEF IInv, LinksInv
      <4>4. Hello(r)' = << >>
        BY <1>8 DEF Hello
      <4>5. Number(r) \in Seq({[qp |-> <<r, comm[r]>>]})
        BY SMTT(30) DEF Number
      <4> HIDE DEF Number
      <4>6. << >> \o Number(r) = Number(r)
        BY <4>5
      <4> QED BY <4>2, <4>3, <4>4, <4>6
    <3>3. pc[r] \notin {"start", "failed"}
      BY <1>4 DEF WorkerInv
    <3>4. /\ to_rank[r] = IF pc[r] = "topology" /\ Forwarded(n)
                          THEN <<Full(n)>> ELSE << >>
          /\ pc[r] # "topology" => Forwarded(n)
          /\ pc[r] = "topology" => n > 0 /\ Forwarded(n - 1)
      BY <2>0, <2>2, <3>1 DEF WorkerInv, Forwarded
    <3>5. /\ Forwarded(n)' <=> Forwarded(n)
          /\ n > 0 => (Forwarded(n - 1)' <=> Forwarded(n - 1))
      <4>1. n > 0 => n - 1 \in Nat
        OBVIOUS
      <4> QED BY <1>9, <4>1
    <3>6. \A k \in Communicators : Collected(r, k)' => k <= comm'[r]
      BY <1>6, <1>9, <2>0, <2>2, RankFacts DEF WorkerInv
    <3>7. /\ to_rank'[r] = IF pc'[r] = "topology" /\ Forwarded(n)'
                           THEN <<Full(n)>> ELSE << >>
          /\ pc'[r] # "topology" => Forwarded(n)'
          /\ pc'[r] = "topology" => n > 0 /\ Forwarded(n - 1)'
      BY <1>6, <3>4, <3>5
    <3>8. pc'[r] = pc[r] /\ comm'[r] = comm[r] /\ topology'[r] = topology[r]
      BY <1>6
    <3> QED BY <1>8, <2>0, <2>2, <3>1, <3>2, <3>3, <3>6, <3>7, <3>8
            DEF WorkerInv, Forwarded
  <2> QED BY <2>1, <2>2
<1>12. LinksInv' /\ SessionInv'
  BY <1>6 DEF IInv, LinksInv, SessionInv
<1>13. SwitchInv'
  BY <1>6, <1>7, SwitchKept, CommType, RankFacts DEF IInv
<1> QED BY <1>7, <1>10, <1>11, <1>12, <1>13 DEF IInv

LEMMA GroupKeeps ==
    ASSUME IInv, Group PROVE IInv'
BY ListenKeeps, AcceptKeeps, RegisterKeeps, ReceiveGroupIdKeeps,
   ConnectMasterKeeps, ConnectMasterFailsKeeps DEF Group

(* A topology is sent on after all numbers are collected. *)
LEMMA ForwardedCollected ==
    ASSUME NEW r, NEW k \in Nat, Forwarded(k) PROVE Collected(r, k)
BY DEF Forwarded, Collected

(* Rank 0 begins its next communicator.                                     *)
LEMMA CreateQPRootKeeps ==
    ASSUME IInv, CreateQP(0) PROVE IInv'
<1> USE DEF hostVars, rootVars, tcpVars, sessionVars, configVars, receiverVars,
            psnVars
<1>0. TypeOK'
  BY CommunicatorTypes, RankFacts DEF Communicator
<1>1. /\ pc[0] = "create" /\ pc'[0] = "collect"
      /\ comm[0] \in Nat /\ comm'[0] = comm[0] + 1
      /\ group_qp_num_list' = <<<<0, comm[0] + 1>>>>
      /\ \A r \in Workers : pc'[r] = pc[r] /\ comm'[r] = comm[r]
      /\ UNCHANGED <<topology, backlog, group_fd_list, tcpVars, sessionVars>>
      /\ UNCHANGED <<step, config, conns, idx, i>>
  BY RankFacts, CommType DEF CreateQP, Goto, IInv, TypeOK
<1>2. RootInv'
  <2>1. Len(group_qp_num_list') = 1 /\ group_qp_num_list'[1] = <<0, comm[0] + 1>>
    BY <1>1
  <2>2. /\ Len(group_qp_num_list') \in 1 .. world_size
        /\ \A n \in 1 .. Len(group_qp_num_list') :
              group_qp_num_list'[n] = <<n - 1, comm'[0]>>
    BY <1>1, <2>1, RankFacts
  <2> QED BY <1>1, <2>2 DEF IInv, RootInv, AllAccepted
<1>3. ASSUME NEW r \in Workers PROVE WorkerInv(r)'
  <2>1. WorkerInv(r) /\ comm[r] \in Nat /\ r \in Nat /\ r >= 1
    BY CommType, RankFacts DEF IInv
  <2>2. \A k \in Nat : Forwarded(k)' <=> Forwarded(k)
    BY <1>1 DEF Forwarded
  <2>3. Len(group_qp_num_list') = 1
    BY <1>1
  <2>4. \A k \in Nat : Collected(r, k)' <=> Collected(r, k)
    BY <1>1, <2>1, <2>3 DEF Collected
  <2>5. InBacklog(r)' <=> InBacklog(r)
    BY <1>1 DEF InBacklog
  <2> QED BY <1>1, <2>1, <2>2, <2>4, <2>5, WorkerKept
<1>4. LinksInv' /\ SessionInv'
  BY <1>1 DEF IInv, LinksInv, SessionInv
<1>5. SwitchInv'
  BY <1>0, <1>1, SwitchKept
<1> QED BY <1>0, <1>2, <1>3, <1>4, <1>5 DEF IInv

(* A worker does not begin one before it has the topology of the last,      *)
(* which rank 0 sends when it has the worker's last number.                 *)
LEMMA CreateQPWorkerKeeps ==
    ASSUME IInv, NEW r \in Workers, CreateQP(r) PROVE IInv'
<1> USE DEF hostVars, rootVars, tcpVars, sessionVars, configVars, receiverVars,
            psnVars
<1>0. TypeOK' /\ WorkerInv(r) /\ r \in Ranks /\ r # 0
  BY CommunicatorTypes, RankFacts DEF Communicator, IInv
<1>1. PICK c \in Nat : c = comm[r] /\ c + 1 \in Communicators
  BY <1>0, CommType, GroupAssumption DEF IInv, CreateQP, Communicators
<1>2. /\ pc[r] = "create" /\ pc'[r] = "topology" /\ comm'[r] = c + 1
      /\ to_root'[r] = Append(to_root[r], [qp |-> <<r, c + 1>>])
      /\ \A s \in Ranks : s # r => pc'[s] = pc[s] /\ comm'[s] = comm[s]
      /\ \A s \in Workers : s # r => to_root'[s] = to_root[s]
      /\ DOMAIN to_root' = DOMAIN to_root
      /\ UNCHANGED <<topology, rootVars, to_rank, to_controller, from_controller,
                     sessionVars>>
      /\ UNCHANGED <<step, config, conns, idx, i>>
  <2>1. /\ pc[r] = "create" /\ comm' = [comm EXCEPT ![r] = @ + 1]
        /\ pc' = [pc EXCEPT ![r] = "topology"]
        /\ to_root' = [to_root EXCEPT ![r] = Append(@, [qp |-> <<r, comm[r] + 1>>])]
        /\ UNCHANGED <<topology, rootVars, to_rank, to_controller,
                       from_controller, sessionVars>>
        /\ UNCHANGED <<step, config, conns, idx, i>>
    BY <1>0 DEF CreateQP, Goto
  <2>2. DOMAIN pc = Ranks /\ DOMAIN comm = Ranks /\ DOMAIN to_root = Ranks
    BY DEF IInv, TypeOK, LinksInv
  <2> QED BY <1>0, <1>1, <2>1, <2>2, RankFacts
<1>3. pc'[0] = pc[0] /\ comm'[0] = comm[0] /\ comm[0] \in Nat
  BY <1>0, <1>2, RankFacts, CommType DEF IInv
<1>4. /\ \A k \in Nat : Forwarded(k)' <=> Forwarded(k)
      /\ \A s, k \in Nat : Collected(s, k)' <=> Collected(s, k)
      /\ \A s \in Ranks : InBacklog(s)' <=> InBacklog(s)
  BY <1>2, <1>3 DEF Forwarded, Collected, InBacklog
<1>5. RootInv'
  BY <1>2, <1>3 DEF IInv, RootInv, AllAccepted
<1>6. ASSUME NEW s \in Workers PROVE WorkerInv(s)'
  <2>1. WorkerInv(s) /\ s \in Ranks /\ s \in Nat /\ comm[s] \in Nat
    BY RankFacts, CommType DEF IInv
  <2>2. CASE s # r
    <3>1. \A k \in Nat : Collected(s, k)' <=> Collected(s, k)
      BY <1>4, <2>1
    <3> QED BY <1>2, <1>4, <2>1, <2>2, <3>1, WorkerKept
  <2>3. CASE s = r
    <3>1. Forwarded(c) /\ Collected(r, c)
      BY <1>0, <1>1, <1>2, ForwardedCollected DEF WorkerInv, Forwarded
    <3>2. ~ Collected(r, c + 1) /\ ~ Forwarded(c + 1)
      <4>1. ~ Collected(r, c + 1)
        BY <1>0, <1>1 DEF WorkerInv
      <4> QED BY <4>1, ForwardedCollected
    <3>3. to_root[r] = Hello(r)
      <4>1. Number(r) = << >>
        BY <1>1, <3>1 DEF Number, Collected
      <4>2. Hello(r) \o << >> = Hello(r)
        <5>1. PICK hello : hello = [rank |-> r]
          OBVIOUS
        <5>2. Hello(r) = <<hello>> \/ Hello(r) = << >>
          BY <5>1 DEF Hello
        <5> QED BY <5>2
      <4> QED BY <1>0, <4>1, <4>2 DEF WorkerInv
    <3>4. ~ Collected(r, c + 1)' /\ ~ Forwarded(c + 1)' /\ Forwarded(c)'
      BY <1>4, <2>1, <2>3, <3>1, <3>2
    <3>5. to_root'[r] = Hello(r)' \o Number(r)'
      <4>1. PICK qp : qp = [qp |-> <<r, c + 1>>]
        OBVIOUS
      <4>2. Number(r)' = <<qp>>
        BY <1>2, <3>4, <4>1 DEF Number, Collected
      <4>3. Hello(r)' = Hello(r)
        BY <1>0, <1>4 DEF Hello
      <4>4. Append(Hello(r), qp) = Hello(r) \o <<qp>>
        <5>1. PICK hello : hello = [rank |-> r]
          OBVIOUS
        <5>2. Hello(r) = <<hello>> \/ Hello(r) = << >>
          BY <5>1 DEF Hello
        <5> QED BY <5>2
      <4> QED BY <1>2, <3>3, <4>1, <4>2, <4>3, <4>4
    <3>6. to_rank'[r] = << >>
      BY <1>0, <1>2 DEF WorkerInv
    <3>7. \A k \in Communicators : Collected(r, k)' => k <= comm'[r]
      BY <1>0, <1>1, <1>2, <1>4, RankFacts DEF WorkerInv
    <3>8. ~ Forwarded(comm[r])' /\ Forwarded(comm[r] - 1)' /\ comm'[r] > 0
      <4>1. c + 1 - 1 = c /\ c + 1 > 0
        OBVIOUS
      <4> QED BY <1>2, <3>4, <4>1 DEF Forwarded
    <3>9. InBacklog(r)' => group_fd_list'[r] = None
      BY <1>0, <1>2, <1>4 DEF WorkerInv
    <3> QED BY <1>2, <2>3, <3>5, <3>6, <3>7, <3>8, <3>9 DEF WorkerInv
  <2> QED BY <2>2, <2>3
<1>7. LinksInv' /\ SessionInv'
  BY <1>2, <1>3 DEF IInv, LinksInv, SessionInv
<1>8. SwitchInv'
  BY <1>0, <1>2, <1>3, SwitchKept
<1> QED BY <1>0, <1>5, <1>6, <1>7, <1>8 DEF IInv

LEMMA CollectQPKeeps ==
    ASSUME IInv, CollectQP PROVE IInv'
<1> USE DEF hostVars, rootVars, tcpVars, sessionVars, configVars, receiverVars,
            psnVars
<1>0. TypeOK'
  BY CommunicatorTypes DEF Communicator
<1>1. PICK n \in Workers :
          /\ n = Len(group_qp_num_list) /\ group_fd_list[n] = n
          /\ ~ InBacklog(n) /\ comm[n] = comm[0] /\ pc[n] = "topology"
          /\ comm[0] \in Communicators
          /\ to_root[n] = <<[qp |-> <<n, comm[0]>>]>>
  BY CollectFacts
<1>2. /\ pc[0] = "collect" /\ n < world_size
      /\ group_qp_num_list' = Append(group_qp_num_list, <<n, comm[0]>>)
      /\ to_root' = [to_root EXCEPT ![n] = << >>]
      /\ UNCHANGED <<pc, comm, topology, backlog, group_fd_list, to_rank,
                     to_controller, from_controller, sessionVars>>
      /\ UNCHANGED <<step, config, conns, idx, i>>
  <2>1. PICK qp : qp = [qp |-> <<n, comm[0]>>] /\ to_root[n] = <<qp>>
    BY <1>1
  <2>2. Tail(to_root[n]) = << >> /\ Head(to_root[n]).qp = <<n, comm[0]>>
    BY <2>1
  <2>3. /\ group_qp_num_list' = Append(group_qp_num_list, Head(to_root[n]).qp)
        /\ to_root' = [to_root EXCEPT ![n] = Tail(to_root[n])]
    BY <1>1 DEF CollectQP
  <2>4. /\ group_qp_num_list' = Append(group_qp_num_list, <<n, comm[0]>>)
        /\ to_root' = [to_root EXCEPT ![n] = << >>]
    BY <2>2, <2>3
  <2> QED BY <1>1, <2>4 DEF CollectQP
<1>3. /\ group_qp_num_list \in Seq(QPs) /\ Len(group_qp_num_list') = n + 1
      /\ \A m \in 1 .. n : group_qp_num_list'[m] = group_qp_num_list[m]
      /\ group_qp_num_list'[n + 1] = <<n, comm[0]>>
      /\ n \in Nat /\ n >= 1 /\ n < world_size
  <2>1. group_qp_num_list \in Seq(QPs)
    BY DEF IInv, TypeOK
  <2> QED BY <1>1, <1>2, <2>1, RankFacts
<1>4. RootInv'
  <2>1. Len(group_qp_num_list') \in 1 .. world_size
    BY <1>3, RankFacts
  <2>2. \A m \in 1 .. Len(group_qp_num_list') :
           group_qp_num_list'[m] = <<m - 1, comm'[0]>>
    <3>1. \A m \in 1 .. n : group_qp_num_list[m] = <<m - 1, comm[0]>>
      BY <1>1, <1>2 DEF IInv, RootInv
    <3>2. ASSUME NEW m \in 1 .. n + 1
          PROVE  group_qp_num_list'[m] = <<m - 1, comm'[0]>>
      <4>1. CASE m = n + 1
        BY <1>2, <1>3, <4>1
      <4>2. CASE m # n + 1
        BY <1>2, <1>3, <3>1, <4>2
      <4> QED BY <4>1, <4>2
    <3> QED BY <1>3, <3>2
  <2> QED BY <1>2, <2>1, <2>2 DEF IInv, RootInv, AllAccepted
<1>5. \A k \in Nat : Forwarded(k)' <=> Forwarded(k)
  BY <1>2 DEF Forwarded
<1>6. ASSUME NEW s \in Workers PROVE WorkerInv(s)'
  <2>1. WorkerInv(s) /\ s \in Ranks /\ s \in Nat /\ comm[s] \in Nat
    BY RankFacts, CommType DEF IInv
  <2>2. InBacklog(s)' <=> InBacklog(s)
    BY <1>2 DEF InBacklog
  <2>3. CASE s # n
    <3>1. \A k \in Nat : Collected(s, k)' <=> Collected(s, k)
      BY <1>1, <1>2, <1>3, <2>1, <2>3 DEF Collected
    <3>2. to_root'[s] = to_root[s]
      BY <1>2, <2>1, <2>3 DEF IInv, LinksInv
    <3> QED BY <1>2, <1>5, <2>1, <2>2, <3>1, <3>2, WorkerKept
  <2>4. CASE s = n
    <3>1. PICK k \in Nat : k = comm[n] /\ k = comm'[n] /\ k = comm[0] /\ k = comm'[0]
      BY <1>1, <1>2, RankFacts
    <3>2. Collected(n, k)'
      BY <1>2, <1>3, <3>1 DEF Collected
    <3>3. to_root'[n] = Hello(n)' \o Number(n)'
      <4>1. Number(n)' = << >>
        BY <3>1, <3>2 DEF Number, Collected
      <4>2. Hello(n)' = << >>
        BY <1>1, <2>2, <2>4 DEF Hello
      <4>3. to_root'[n] = << >>
        BY <1>2, <2>1, <2>4 DEF IInv, LinksInv
      <4> QED BY <4>1, <4>2, <4>3
    <3>4. \A m \in Communicators : Collected(n, m)' => m <= comm'[n]
      BY <1>2, <3>1, RankFacts DEF Collected
    <3>5. /\ to_rank[n] = IF pc[n] = "topology" /\ Forwarded(k)
                          THEN <<Full(k)>> ELSE << >>
          /\ k > 0 /\ Forwarded(k - 1)
      BY <1>1, <2>1, <2>4, <3>1 DEF WorkerInv, Forwarded
    <3>6. /\ to_rank'[n] = IF pc'[n] = "topology" /\ Forwarded(k)'
                           THEN <<Full(k)>> ELSE << >>
          /\ Forwarded(k - 1)'
      <4>1. k - 1 \in Nat
        BY <3>5
      <4> QED BY <1>2, <1>5, <3>5, <4>1
    <3>7. InBacklog(n)' => group_fd_list'[n] = None
      BY <1>2, <2>1, <2>2, <2>4 DEF WorkerInv
    <3>8. pc'[n] = "topology"
      BY <1>1, <1>2
    <3> QED BY <2>4, <3>1, <3>3, <3>4, <3>5, <3>6, <3>7, <3>8
            DEF WorkerInv, Forwarded
  <2> QED BY <2>3, <2>4
<1>7. LinksInv' /\ SessionInv'
  BY <1>2 DEF IInv, LinksInv, SessionInv
<1>8. SwitchInv'
  BY <1>0, <1>2, SwitchKept, CommType, RankFacts DEF IInv
<1> QED BY <1>0, <1>4, <1>6, <1>7, <1>8 DEF IInv

(* The list it asks with is complete: the QPs of all ranks in rank order.   *)
LEMMA RequestRouteKeeps ==
    ASSUME IInv, RequestRoute PROVE IInv'
<1> USE DEF hostVars, rootVars, tcpVars, sessionVars, configVars, receiverVars,
            psnVars
<1>0. TypeOK'
  BY CommunicatorTypes DEF Communicator
<1>1. /\ pc[0] = "collect" /\ pc'[0] = "topology"
      /\ Len(group_qp_num_list) = world_size
      /\ to_controller' = Append(to_controller,
                                 [type |-> "C", qps |-> group_qp_num_list])
      /\ \A r \in Workers : pc'[r] = pc[r]
      /\ UNCHANGED <<comm, topology, rootVars, to_root, to_rank, from_controller,
                     sessionVars>>
      /\ UNCHANGED <<step, config, conns, idx, i>>
  BY RankFacts DEF RequestRoute, Goto, IInv, TypeOK
<1>2. group_qp_num_list = Full(comm[0])
  <2>1. group_qp_num_list \in Seq(QPs)
    BY DEF IInv, TypeOK
  <2>2. \A n \in 1 .. world_size : group_qp_num_list[n] = <<n - 1, comm[0]>>
    BY <1>1 DEF IInv, RootInv
  <2>3. DOMAIN group_qp_num_list = 1 .. world_size
        /\ group_qp_num_list = [n \in DOMAIN group_qp_num_list |-> group_qp_num_list[n]]
    BY <1>1, <2>1
  <2>4. group_qp_num_list = [n \in 1 .. world_size |-> group_qp_num_list[n]]
    BY <2>3
  <2>5. group_qp_num_list = [n \in 1 .. world_size |-> <<n - 1, comm[0]>>]
    BY <2>2, <2>4
  <2> QED BY <2>5 DEF Full
<1>3. RootInv'
  BY <1>1 DEF IInv, RootInv, AllAccepted
<1>4. ASSUME NEW r \in Workers PROVE WorkerInv(r)'
  <2>1. WorkerInv(r) /\ comm[r] \in Nat /\ r < world_size
    BY RankFacts, CommType DEF IInv
  <2>2. /\ \A k \in Nat : Forwarded(k)' <=> Forwarded(k)
        /\ \A k \in Nat : Collected(r, k)' <=> Collected(r, k)
    BY <1>1, <2>1, RankFacts DEF Forwarded, Collected
  <2>3. InBacklog(r)' <=> InBacklog(r)
    BY <1>1 DEF InBacklog
  <2> QED BY <1>1, <2>1, <2>2, <2>3, WorkerKept
<1>5. LinksInv'
  BY <1>1 DEF IInv, LinksInv
<1>6. SessionInv'
  <2>1. to_controller = << >> /\ reply = << >> /\ from_controller = << >>
    BY <1>1 DEF IInv, SessionInv
  <2>2. to_controller' = <<[type |-> "C", qps |-> Full(comm[0])]>>
    BY <1>1, <1>2, <2>1
  <2> QED BY <1>1, <2>1, <2>2 DEF SessionInv, Full
<1>7. SwitchInv'
  BY <1>0, <1>1, SwitchKept, CommType, RankFacts DEF IInv
<1> QED BY <1>0, <1>3, <1>4, <1>5, <1>6, <1>7 DEF IInv

(* When rank 0 sends the topology on, every worker is waiting for it.       *)
LEMMA ForwardTopologyKeeps ==
    ASSUME IInv, ForwardTopology PROVE IInv'
<1> USE DEF hostVars, rootVars, tcpVars, sessionVars, configVars, receiverVars,
            psnVars
<1>0. TypeOK'
  BY CommunicatorTypes DEF Communicator
<1>1. comm[0] \in Communicators /\ from_controller = <<Full(comm[0])>>
      /\ Head(from_controller) = Full(comm[0]) /\ Tail(from_controller) = << >>
  <2>1. PICK qps : qps = Full(comm[0])
    OBVIOUS
  <2>2. comm[0] \in Communicators /\ from_controller = <<qps>>
    BY <2>1, TopologyFacts
  <2>3. Head(from_controller) = qps /\ Tail(from_controller) = << >>
    BY ONLY <2>2
  <2> QED BY <2>1, <2>2, <2>3
<1>2. /\ pc[0] = "topology" /\ pc'[0] = "call" /\ from_controller' = << >>
      /\ topology'[0] = Full(comm[0])
      /\ \A r \in Workers : pc'[r] = pc[r] /\ topology'[r] = topology[r]
      /\ UNCHANGED <<comm, rootVars, to_root, to_controller, sessionVars>>
      /\ UNCHANGED <<step, config, conns, idx, i>>
  BY <1>1, RankFacts DEF ForwardTopology, Goto, IInv, TypeOK
<1>3. \A r \in Workers : to_rank'[r] = Append(to_rank[r], Full(comm[0]))
  <2>1. \A r \in Workers : group_fd_list[r] = r
    BY <1>2, RankFacts DEF IInv, RootInv, AllAccepted
  <2>2. to_rank' = [r \in Ranks |->
                       IF \E s \in Workers : group_fd_list[s] = r
                       THEN Append(to_rank[r], Full(comm[0])) ELSE to_rank[r]]
    BY <1>1 DEF ForwardTopology
  <2> QED BY <2>1, <2>2, RankFacts
<1>4. RootInv'
  BY <1>2 DEF IInv, RootInv, AllAccepted, Full
<1>5. ASSUME NEW r \in Workers PROVE WorkerInv(r)'
  <2>1. WorkerInv(r) /\ comm[r] \in Nat /\ comm[0] \in Nat
    BY RankFacts, CommType DEF IInv
  <2>2. pc[r] = "topology" /\ comm[r] = comm[0]
    <3>1. Collected(r, comm[0])
      BY <1>2 DEF Collected
    <3>2. comm[0] <= comm[r]
      BY <1>1, <2>1, <3>1 DEF WorkerInv
    <3>3. pc[r] = "topology" /\ Forwarded(comm[r] - 1)
      BY <1>2, <2>1, <3>2 DEF WorkerInv, Forwarded
    <3> QED BY <1>2, <2>1, <3>2, <3>3 DEF Forwarded
  <2>3. to_rank[r] = << >>
    BY <1>2, <2>1, <2>2 DEF WorkerInv, Forwarded
  <2>4. to_rank'[r] = <<Full(comm[0])>>
    BY <1>3, <2>3
  <2>5. /\ Forwarded(comm[r])' /\ comm[r] > 0 /\ Forwarded(comm[r] - 1)'
    BY <1>1, <1>2, <2>1, <2>2, RankFacts DEF Forwarded
  <2>6. \A k \in Nat : Collected(r, k)' <=> Collected(r, k)
    BY <1>2 DEF Collected
  <2>7. to_root'[r] = Hello(r)' \o Number(r)'
    <3>1. Hello(r)' = Hello(r)
      BY <1>2 DEF Hello, InBacklog
    <3>2. Number(r)' = Number(r)
      BY <1>2 DEF Number, Collected
    <3> QED BY <1>2, <2>1, <3>1, <3>2 DEF WorkerInv
  <2>8. \A k \in Communicators : Collected(r, k)' => k <= comm'[r]
    BY <1>2, <2>1, <2>6, RankFacts DEF WorkerInv
  <2>9. InBacklog(r)' => group_fd_list'[r] = None
    BY <1>2, <2>1 DEF WorkerInv, InBacklog
  <2> QED BY <1>2, <2>2, <2>4, <2>5, <2>7, <2>8, <2>9 DEF WorkerInv, Full
<1>6. LinksInv'
  BY <1>2 DEF IInv, LinksInv, ForwardTopology
<1>7. SessionInv'
  BY <1>1, <1>2 DEF IInv, SessionInv
<1>8. SwitchInv'
  BY <1>0, <1>2, SwitchKept, CommType, RankFacts DEF IInv
<1> QED BY <1>0, <1>4, <1>5, <1>6, <1>7, <1>8 DEF IInv

LEMMA ReceiveTopologyKeeps ==
    ASSUME IInv, NEW r \in Workers, ReceiveTopology(r) PROVE IInv'
<1> USE DEF hostVars, rootVars, tcpVars, sessionVars, configVars, receiverVars,
            psnVars
<1>0. TypeOK' /\ r \in Ranks /\ r # 0 /\ WorkerInv(r)
  BY CommunicatorTypes, RankFacts DEF Communicator, IInv
<1>1. comm[r] \in Communicators /\ to_rank[r] = <<Full(comm[r])>>
      /\ Forwarded(comm[r]) /\ comm[r] > 0
      /\ Head(to_rank[r]) = Full(comm[r]) /\ Tail(to_rank[r]) = << >>
  <2>1. PICK qps : qps = Full(comm[r])
    OBVIOUS
  <2>2. /\ comm[r] \in Communicators /\ to_rank[r] = <<qps>> /\ Forwarded(comm[r])
    BY <2>1, TopologyFacts
  <2>3. Head(to_rank[r]) = qps /\ Tail(to_rank[r]) = << >>
    BY ONLY <2>2
  <2>4. comm[r] > 0
    BY <2>2, RankFacts
  <2> QED BY <2>1, <2>2, <2>3, <2>4
<1>2. /\ pc[r] = "topology" /\ pc'[r] = "call" /\ topology'[r] = Full(comm[r])
      /\ to_rank'[r] = << >>
      /\ \A s \in Ranks : s # r => /\ pc'[s] = pc[s] /\ topology'[s] = topology[s]
                                   /\ to_rank'[s] = to_rank[s]
      /\ DOMAIN to_rank' = DOMAIN to_rank
      /\ UNCHANGED <<comm, rootVars, to_root, to_controller, from_controller,
                     sessionVars>>
      /\ UNCHANGED <<step, config, conns, idx, i>>
  BY <1>0, <1>1 DEF ReceiveTopology, Goto, IInv, TypeOK, LinksInv
<1>3. pc'[0] = pc[0] /\ topology'[0] = topology[0]
  BY <1>0, <1>2, RankFacts
<1>4. RootInv'
  BY <1>2, <1>3 DEF IInv, RootInv, AllAccepted
<1>5. /\ \A k \in Nat : Forwarded(k)' <=> Forwarded(k)
      /\ \A s, k \in Nat : Collected(s, k)' <=> Collected(s, k)
      /\ \A s \in Ranks : InBacklog(s)' <=> InBacklog(s)
  BY <1>2, <1>3 DEF Forwarded, Collected, InBacklog
<1>6. ASSUME NEW s \in Workers PROVE WorkerInv(s)'
  <2>1. WorkerInv(s) /\ s \in Ranks /\ s \in Nat /\ comm[s] \in Nat
    BY RankFacts, CommType DEF IInv
  <2>2. CASE s # r
    <3>1. \A k \in Nat : Collected(s, k)' <=> Collected(s, k)
      BY <1>5, <2>1
    <3> QED BY <1>2, <1>5, <2>1, <2>2, <3>1, WorkerKept
  <2>3. CASE s = r
    <3>1. to_root'[r] = Hello(r)' \o Number(r)'
      <4>1. Hello(r)' = Hello(r)
        BY <1>0, <1>5 DEF Hello
      <4>2. Number(r)' = Number(r)
        BY <1>2, <1>3 DEF Number, Collected
      <4> QED BY <1>0, <1>2, <4>1, <4>2 DEF WorkerInv
    <3>2. Forwarded(comm[r])'
      BY <1>1, <1>2, <1>3 DEF Forwarded
    <3>3. \A k \in Communicators : Collected(r, k)' => k <= comm'[r]
      BY <1>0, <1>2, <1>5, <2>1, <2>3, RankFacts DEF WorkerInv
    <3>4. InBacklog(r)' => group_fd_list'[r] = None
      BY <1>0, <1>2, <1>5 DEF WorkerInv
    <3> QED BY <1>1, <1>2, <2>3, <3>1, <3>2, <3>3, <3>4 DEF WorkerInv, Full
  <2> QED BY <2>2, <2>3
<1>7. LinksInv' /\ SessionInv'
  BY <1>2, <1>3 DEF IInv, LinksInv, SessionInv
<1>8. SwitchInv'
  BY <1>0, <1>2, <1>3, SwitchKept, CommType, RankFacts DEF IInv
<1> QED BY <1>0, <1>4, <1>6, <1>7, <1>8 DEF IInv

LEMMA CommunicatorKeeps ==
    ASSUME IInv, Communicator PROVE IInv'
BY CreateQPRootKeeps, CreateQPWorkerKeeps, CollectQPKeeps, RequestRouteKeeps,
   ForwardTopologyKeeps, ReceiveTopologyKeeps, RankFacts DEF Communicator

------------------------------------------------------------------------------
(* The controller. *)

LEMMA ControllerKeeps ==
    ASSUME IInv, Controller PROVE IInv'
<1> USE DEF hostVars, rootVars, tcpVars, sessionVars, configVars, receiverVars,
            psnVars
<1>0. TypeOK' /\ SessionInv /\ SwitchInv
  BY ControllerTypes DEF IInv
<1>1. CASE StartController \/ AcceptSwitch
  <2>1. /\ UNCHANGED <<pc, comm, topology, rootVars, tcpVars, reply>>
        /\ UNCHANGED <<to_switch, step, config, conns, idx, i>>
    BY <1>1 DEF StartController, AcceptSwitch
  <2> QED BY <1>0, <2>1, OthersKeep
<1>2. CASE SessionGroup \/ SessionRoute \/ SessionReply
  <2>1. /\ UNCHANGED <<pc, comm, topology, rootVars, to_root, to_rank>>
        /\ UNCHANGED <<step, config, conns, idx, i>>
    BY <1>2 DEF SessionGroup, SessionRoute, SessionReply
  <2>2. RootInv' /\ LinksInv'
    BY <2>1 DEF IInv, RootInv, AllAccepted, LinksInv
  <2>3. \A r \in Workers : WorkerInv(r)'
    BY <2>1, RootMoves
  <2>4. CASE SessionRoute
    <3>1. pc[0] = "topology"
          /\ to_controller = <<[type |-> "C", qps |-> Full(comm[0])]>>
          /\ reply = << >> /\ from_controller = << >>
      <4>1. to_controller # << >> /\ Head(to_controller).type = "C"
        BY <2>4 DEF SessionRoute
      <4>2. Head(<<[type |-> "G"]>>).type # "C"
        <5>1. PICK g : g = [type |-> "G"]
          OBVIOUS
        <5>2. g.type = "G" /\ Head(<<g>>) = g
          BY <5>1
        <5> QED BY <5>1, <5>2
      <4> QED BY <1>0, <4>1, <4>2 DEF SessionInv
    <3>2. Tail(to_controller) = << >> /\ Head(to_controller).qps = Full(comm[0])
      <4>1. PICK request : request = [type |-> "C", qps |-> Full(comm[0])]
        OBVIOUS
      <4>2. request.qps = Full(comm[0])
        BY <4>1
      <4>3. to_controller = <<request>>
        BY <3>1, <4>1
      <4>4. Tail(to_controller) = << >> /\ Head(to_controller) = request
        BY ONLY <4>3
      <4> QED BY <4>2, <4>4
    <3>3. /\ to_controller' = << >> /\ reply' = Full(comm[0])
          /\ to_switch' = Append(to_switch, Full(comm[0]))
          /\ from_controller' = from_controller
      BY <2>4, <3>2 DEF SessionRoute
    <3>4. SessionInv'
      BY <2>1, <3>1, <3>3 DEF SessionInv, Full
    <3>5. comm[0] \in Communicators /\ comm[0] \in 1 .. comm[0] /\ Asked(comm[0])
      <4>1. comm[0] > 0 /\ comm[0] \in Nat
        BY <3>1, CommType, RankFacts DEF IInv, RootInv
      <4> QED BY <3>1, <4>1, CommType, RankFacts DEF IInv, Asked
    <3>6. PICK qps \in Seq(QPs) : qps = Full(comm[0])
      BY <3>5, FullType
    <3>7. /\ to_switch \in Seq(Seq(QPs)) /\ to_switch' \in Seq(Seq(QPs))
          /\ Len(to_switch') = Len(to_switch) + 1 /\ Len(to_switch) \in Nat
          /\ \A n \in 1 .. Len(to_switch) : to_switch'[n] = to_switch[n]
          /\ to_switch'[Len(to_switch) + 1] = qps
      <4>1. to_switch \in Seq(Seq(QPs)) /\ to_switch' = Append(to_switch, qps)
        BY <1>0, <3>3, <3>6 DEF SwitchInv
      <4> QED BY ONLY <4>1, qps \in Seq(QPs)
    <3>8. \A n \in 1 .. Len(to_switch') : Route(to_switch[n])'
      <4>1. ASSUME NEW n \in 1 .. Len(to_switch')
            PROVE  \E k \in 1 .. comm'[0] : to_switch'[n] = Full(k) /\ Asked(k)'
        <5>1. CASE n = Len(to_switch) + 1
          BY <2>1, <3>5, <3>6, <3>7, <5>1 DEF Asked
        <5>2. CASE n # Len(to_switch) + 1
          <6>1. n \in 1 .. Len(to_switch) /\ to_switch'[n] = to_switch[n]
            BY <3>7, <5>2
          <6>2. \E k \in 1 .. comm[0] : to_switch[n] = Full(k) /\ Asked(k)
            BY <1>0, <6>1 DEF SwitchInv, Route
          <6> QED BY <2>1, <6>1, <6>2 DEF Asked
        <5> QED BY <5>1, <5>2
      <4> QED BY <4>1 DEF Route
    <3>9. SwitchInv'
      <4>1. step' # "receive" => Route(config)'
        BY <1>0, <2>1 DEF SwitchInv, Route, Asked
      <4> QED BY <1>0, <2>1, <3>7, <3>8, <4>1 DEF SwitchInv
    <3> QED BY <1>0, <2>2, <2>3, <3>4, <3>9 DEF IInv
  <2>5. CASE SessionGroup \/ SessionReply
    <3>1. UNCHANGED to_switch
      BY <2>5 DEF SessionGroup, SessionReply
    <3>2. SwitchInv'
      BY <1>0, <2>1, <3>1, SwitchKept, CommType, RankFacts DEF IInv
    <3>3. SessionInv'
      <4>1. CASE SessionReply
        <5>1. Full(comm[0]) # << >> \/ reply # Full(comm[0])
          BY <4>1 DEF SessionReply
        <5>2. pc[0] = "topology" /\ to_controller = << >>
              /\ from_controller = << >> /\ reply = Full(comm[0])
          BY <1>0, <4>1 DEF SessionInv, SessionReply
        <5>3. from_controller' = <<Full(comm[0])>> /\ reply' = << >>
              /\ to_controller' = << >>
          BY <4>1, <5>2 DEF SessionReply
        <5> QED BY <2>1, <5>2, <5>3 DEF SessionInv, Full
      <4>2. CASE SessionGroup
        <5>1. to_controller # << >> /\ Head(to_controller).type = "G"
          BY <4>2 DEF SessionGroup
        <5>2. Head(<<[type |-> "C", qps |-> Full(comm[0])]>>).type # "G"
          <6>1. PICK request : request = [type |-> "C", qps |-> Full(comm[0])]
            OBVIOUS
          <6>2. request.type = "C" /\ Head(<<request>>) = request
            BY <6>1
          <6> QED BY <6>1, <6>2
        <5>3. pc[0] = "register" /\ to_controller = <<[type |-> "G"]>>
              /\ from_controller = << >> /\ reply = << >>
          BY <1>0, <5>1, <5>2 DEF SessionInv
        <5>4. from_controller' = << << >> >> /\ reply' = << >>
              /\ to_controller' = << >>
          <6>1. PICK g : g = [type |-> "G"]
            OBVIOUS
          <6>2. Tail(<<g>>) = << >>
            OBVIOUS
          <6> QED BY <4>2, <5>3, <6>1, <6>2 DEF SessionGroup
        <5> QED BY <2>1, <5>3, <5>4 DEF SessionInv
      <4> QED BY <2>5, <4>1, <4>2
    <3> QED BY <1>0, <2>2, <2>3, <3>2, <3>3 DEF IInv
  <2> QED BY <1>2, <2>4, <2>5
<1> QED BY <1>1, <1>2 DEF Controller

------------------------------------------------------------------------------
(* The invariant, and what it implies. *)

LEMMA InitIInv ==
    ASSUME Init PROVE IInv
<1>1. communicators \in Communicators /\ communicators \in Nat /\ 0 \in 0 .. communicators
  BY RankFacts DEF Init
<1>2. TypeOK
  <2>1. /\ conns = [c \in Connections |-> Cleared]
        /\ Cleared \in [qp : QPs \union {NoQP}, ok : BOOLEAN, handle : BOOLEAN]
    BY DEF Init, Cleared
  <2>2. conns \in [Connections -> [qp : QPs \union {NoQP}, ok : BOOLEAN,
                                   handle : BOOLEAN]]
    BY <2>1
  <2>3. MAX_RULES \in Nat /\ connections_cnt \in Nat
    BY CapacityAssumption, ConnectionFacts
  <2>4. 0 \in 0 .. MAX_RULES /\ 0 \in 0 .. connections_cnt
    BY <2>3
  <2>5. << >> \in Seq(QPs) /\ << >> \in Seq(Workers)
    OBVIOUS
  <2>6. topology \in [Ranks -> Seq(QPs)] /\ backlog \in Seq(Workers)
        /\ group_qp_num_list \in Seq(QPs)
    BY <2>5 DEF Init
  <2>7. /\ posted \in [Ranks -> [Communicators -> 0 .. 2]]
        /\ acked \in [Ranks -> [Communicators -> 0 .. 2]]
    BY DEF Init
  <2>8. fan_in \in 0 .. connections_cnt /\ count \in 0 .. MAX_RULES
    BY <2>4 DEF Init
  <2>9. /\ comm \in [Ranks -> 0 .. communicators]
        /\ got \in [Ranks -> 0 .. communicators]
    BY <1>1 DEF Init
  <2>10. repeats \in 0 .. MaxRepeats /\ handled \subseteq QPs
    BY GroupAssumption DEF Init
  <2> QED BY <1>1, <2>2, <2>6, <2>7, <2>8, <2>9, <2>10 DEF Init, TypeOK
<1>3. \A r : ~ InBacklog(r)
  <2>1. Len(backlog) = 0
    BY DEF Init
  <2> QED BY <2>1 DEF InBacklog
<1>4. pc[0] = "start" /\ comm[0] = 0
  BY RankFacts DEF Init
<1>5. RootInv
  <2>1. Len(backlog) = 0
    BY DEF Init
  <2> QED BY <1>4, <2>1 DEF Init, RootInv
<1>6. ASSUME NEW r \in Workers PROVE WorkerInv(r)
  <2>1. pc[r] = "start" /\ comm[r] = 0 /\ group_fd_list[r] = None
        /\ to_root[r] = << >> /\ to_rank[r] = << >>
    BY RankFacts DEF Init
  <2>2. Forwarded(0) /\ Collected(r, 0)
    BY <1>4 DEF Forwarded, Collected
  <2>3. \A k \in Communicators : ~ Collected(r, k)
    BY <1>4, RankFacts DEF Collected
  <2>4. Hello(r) \o Number(r) = << >>
    BY <1>3, <2>1, <2>2 DEF Hello, Number, Collected
  <2> QED BY <1>3, <2>1, <2>2, <2>3, <2>4 DEF WorkerInv, Forwarded
<1>7. LinksInv
  BY DEF Init, LinksInv
<1>8. SessionInv
  BY <1>4 DEF Init, SessionInv
<1>9. SwitchInv
  <2>1. to_switch \in Seq(Seq(QPs)) /\ Len(to_switch) = 0
    BY DEF Init
  <2>2. \A c \in Connections : conns[c].qp = NoQP
    BY DEF Init, Cleared
  <2>3. step = "receive" /\ idx \in 0 .. connections_cnt /\ i \in Nat
    BY ConnectionFacts DEF Init
  <2> QED BY <2>1, <2>2, <2>3 DEF SwitchInv
<1> QED BY <1>2, <1>5, <1>6, <1>7, <1>8, <1>9 DEF IInv

LEMMA NextKeeps ==
    ASSUME IInv, [Next]_vars PROVE IInv'
<1>1. CASE Next
  BY <1>1, GroupKeeps, CommunicatorKeeps, CallerKeeps, ControllerKeeps,
     ConfigThreadKeeps, ReceiverKeeps, HandlerKeeps DEF Next
<1>2. CASE UNCHANGED vars
  BY <1>2, TypeKept, OthersKeep DEF vars, hostVars, rootVars, tcpVars,
     sessionVars, configVars, receiverVars, psnVars
<1> QED BY <1>1, <1>2

(* The inductive invariant holds of every group.                            *)
THEOREM Inductive == Spec => []IInv
<1>1. Init => IInv
  BY InitIInv
<1>2. IInv /\ [Next]_vars => IInv'
  BY NextKeeps
<1> QED BY <1>1, <1>2, PTL DEF Spec

(* Every variable of a group that comes up keeps its type, whatever its size *)
(* and the number of its communicators.                                     *)
THEOREM TypeCorrect == Spec => []TypeOK
<1>1. IInv => TypeOK
  BY DEF IInv
<1> QED BY <1>1, Inductive, PTL

(* In whatever order the ranks connect, create and call, no connection of   *)
(* the switch and no topology file ever names the QP of another rank, or    *)
(* the QP of an earlier or later communicator.                              *)
THEOREM PairedByRank == Spec => []Paired
<1>1. ASSUME IInv PROVE Paired
  <2>1. ASSUME NEW c \in Connections, conns[c].qp # NoQP PROVE conns[c].qp[1] = c
    <3>1. PICK k \in 1 .. comm[0] : conns[c].qp = <<c, k>>
      BY <1>1, <2>1 DEF IInv, SwitchInv
    <3> QED BY <3>1
  <2>2. ASSUME NEW r \in Ranks, pc[r] \in {"call", "control", "data"}
        PROVE  topology[r] = Full(comm[r])
    BY <1>1, <2>2, RankFacts DEF IInv, RootInv, WorkerInv
  <2> QED BY <2>1, <2>2 DEF Paired, Full
<1> QED BY <1>1, Inductive, PTL

(* No configuration, sent, received or being applied, is of a communicator  *)
(* that a rank in a call has not yet begun: no call is reset by the route   *)
(* of a later communicator, in groups of any size.                          *)
THEOREM ConfigsBetweenCalls == Spec => []NoConfigDuringCall
<1>1. ASSUME IInv PROVE NoConfigDuringCall
  <2>1. ASSUME NEW pending \in PendingConfigs PROVE Route(pending)
    <3>1. /\ to_switch \in Seq(Seq(QPs))
          /\ \A n \in 1 .. Len(to_switch) : Route(to_switch[n])
          /\ step # "receive" => Route(config)
      BY <1>1 DEF IInv, SwitchInv
    <3>2. DOMAIN to_switch = 1 .. Len(to_switch)
      BY <3>1
    <3>3. CASE \E n \in DOMAIN to_switch : pending = to_switch[n]
      BY <3>1, <3>2, <3>3 DEF Route
    <3>4. CASE step # "receive" /\ pending = config
      BY <3>1, <3>4 DEF Route
    <3> QED BY <3>3, <3>4 DEF PendingConfigs
  <2>2. ASSUME NEW pending \in PendingConfigs, NEW r \in Ranks
        PROVE  comm[r] >= pending[1][2]
    <3>1. PICK k \in 1 .. comm[0] : pending = Full(k) /\ Asked(k)
      BY <2>1 DEF Route
    <3>2. k \in Communicators /\ k \in Nat /\ comm[r] \in Nat /\ comm[0] \in Nat
      BY <1>1, <3>1, CommType, RankFacts DEF IInv
    <3>3. pending[1][2] = k
      BY <3>1, <3>2, FullType
    <3>4. CASE r = 0
      BY <3>1, <3>2, <3>3, <3>4
    <3>5. CASE r \in Workers
      <4>1. Collected(r, k)
        BY <3>1 DEF Asked, Collected
      <4> QED BY <1>1, <3>2, <3>3, <3>5, <4>1 DEF IInv, WorkerInv
    <3> QED BY <3>4, <3>5, RankFacts
  <2> QED BY <2>2 DEF NoConfigDuringCall
<1> QED BY <1>1, Inductive, PTL

------------------------------------------------------------------------------
(* The start of the receiver threads. *)

LEMMA TailOfOne ==
    ASSUME NEW S, NEW s \in Seq(S), Len(s) = 1
    PROVE  Tail(s) = << >>
<1>1. Tail(s) \in Seq(S) /\ Len(Tail(s)) = 0
  <2>1. s # << >>
    BY EmptySeq
  <2>2. Tail(s) \in Seq(S) /\ Len(Tail(s)) = Len(s) - 1
    BY ONLY <2>1, s \in Seq(S), HeadTailProperties
  <2> QED BY <2>2
<1>2. Tail(s) # << >> => Len(Tail(s)) \in Nat \ {0}
  BY <1>1, EmptySeq
<1> QED BY <1>1, <1>2

LEMMA OnceStable ==
    ASSUME threads \subseteq threads', threads' \subseteq Connections,
           communicators' = communicators, Once'
    PROVE  Once
BY DEF Once

(* While the switch has had one configuration, rank 0 has not begun its      *)
(* second communicator.                                                     *)
LEMMA OneCommunicator ==
    ASSUME IInv, StartInv, Once
    PROVE  comm[0] \in {0, 1} /\ (comm[0] = 1 => pc[0] # "create" \/ communicators = 1)
<1>1. comm[0] \in 0 .. communicators /\ communicators \in Nat
  BY CommType, RankFacts DEF IInv
<1>2. CASE communicators = 1
  BY <1>1, <1>2
<1>3. CASE threads # Connections
  <2>1. ~ (got[0] >= 1)
    BY <1>3, RankFacts DEF StartInv, DataInv
  <2>2. ~ (comm[0] > 1 \/ (comm[0] = 1 /\ pc[0] = "create"))
    BY <2>1, RankFacts DEF StartInv, CallInv
  <2> QED BY <1>1, <2>2
<1> QED BY <1>2, <1>3 DEF Once

(* Hosts and controller leave the switch alone, but for what is sent to it. *)
LEMMA HostStep ==
    ASSUME IInv, StartInv, CallInv', Once => (Unsent' <=> Unsent),
           UNCHANGED <<communicators, to_switch, step, idx, conns, fan_in,
                       receiving, i, threads, switch, arrival, got>>
    PROVE  StartInv'
<1>1. Once' <=> Once
  BY DEF Once
<1>2. DataInv'
  BY DEF StartInv, DataInv
<1>3. ConfigInv'
  BY <1>1 DEF StartInv, ConfigInv
<1>4. ReceiverInv'
  BY <1>1 DEF StartInv, ReceiverInv, AllOpen
<1> QED BY <1>2, <1>3, <1>4 DEF StartInv

LEMMA GroupStep ==
    ASSUME IInv, StartInv, Group PROVE StartInv'
<1> USE DEF hostVars, rootVars, tcpVars, sessionVars, configVars, receiverVars,
            psnVars
<1>1. /\ UNCHANGED <<communicators, to_switch, step, idx, conns, fan_in,
                     receiving, i, threads, switch, arrival, got>>
      /\ comm' = comm
  BY DEF Group, Listen, Accept, RegisterGroup, RegisterGroupFails,
         ReceiveGroupId, ConnectMaster, ConnectMasterFails
<1>2. comm[0] = 0
  <2>1. pc[0] \in {"start", "accept", "register", "failed"}
    BY DEF Group, Listen, Accept, RegisterGroup, RegisterGroupFails,
           ReceiveGroupId, ConnectMaster, ConnectMasterFails
  <2> QED BY <2>1 DEF IInv, RootInv
<1>3. CallInv'
  <2>1. ASSUME NEW r \in Ranks, comm[r] # 0 PROVE pc'[r] = pc[r]
    <3>1. r # 0 /\ r \in Workers /\ pc[r] \notin {"start", "failed"}
      BY <1>2, <2>1, RankFacts DEF IInv, WorkerInv
    <3> QED BY <3>1, RankFacts DEF Group, Listen, Accept, RegisterGroup,
            RegisterGroupFails, ReceiveGroupId, ConnectMaster,
            ConnectMasterFails, Goto, IInv, TypeOK
  <2>2. \A r \in Ranks : comm[r] \in Nat
    BY CommType DEF IInv
  <2> QED BY <1>1, <2>1, <2>2 DEF StartInv, CallInv
<1>4. Unsent /\ Unsent'
  BY <1>1, <1>2 DEF Unsent
<1> QED BY <1>1, <1>3, <1>4, HostStep

LEMMA CommunicatorStep ==
    ASSUME IInv, StartInv, Communicator PROVE StartInv'
<1> USE DEF hostVars, rootVars, tcpVars, sessionVars, configVars, receiverVars,
            psnVars
<1>0. UNCHANGED <<communicators, to_switch, step, idx, conns, fan_in,
                  receiving, i, threads, switch, arrival, got>>
  BY DEF Communicator, CreateQP, CollectQP, RequestRoute, ForwardTopology,
         ReceiveTopology
<1>1. \A r \in Ranks : comm[r] \in Nat
  BY CommType DEF IInv
<1>2. CASE CollectQP
  <2>1. UNCHANGED <<pc, comm, to_controller>>
    BY <1>2 DEF CollectQP
  <2> QED BY <1>0, <2>1, HostStep DEF StartInv, CallInv, Unsent
<1>3. CASE RequestRoute
  <2>1. /\ pc[0] = "collect" /\ pc'[0] = "topology" /\ comm' = comm
        /\ \A r \in Ranks : pc'[r] # "create" \/ pc'[r] = pc[r]
        /\ to_controller' # << >>
    <3>1. to_controller = << >>
      BY <1>3 DEF RequestRoute, IInv, SessionInv
    <3> QED BY <1>3, <3>1, RankFacts DEF RequestRoute, Goto, IInv, TypeOK
  <2>2. CallInv'
    BY <1>0, <2>1 DEF StartInv, CallInv
  <2>3. Unsent' <=> Unsent
    BY <2>1 DEF Unsent
  <2> QED BY <1>0, <2>2, <2>3, HostStep
<1>4. CASE ForwardTopology
  <2>1. /\ pc[0] = "topology" /\ pc'[0] = "call" /\ comm' = comm
        /\ \A r \in Ranks : pc'[r] # "create" \/ pc'[r] = pc[r]
        /\ to_controller' = to_controller
    BY <1>4, RankFacts DEF ForwardTopology, Goto, IInv, TypeOK
  <2>2. CallInv'
    BY <1>0, <2>1 DEF StartInv, CallInv
  <2>3. Unsent' <=> Unsent
    BY <2>1 DEF Unsent
  <2> QED BY <1>0, <2>2, <2>3, HostStep
<1>5. ASSUME NEW r \in Workers, ReceiveTopology(r) PROVE StartInv'
  <2>1. /\ pc'[0] = pc[0] /\ UNCHANGED <<comm, to_controller>>
        /\ \A s \in Ranks : pc'[s] # "create" \/ pc'[s] = pc[s]
    BY <1>5, RankFacts DEF ReceiveTopology, Goto, IInv, TypeOK
  <2>2. CallInv'
    BY <1>0, <2>1 DEF StartInv, CallInv
  <2>3. Unsent' <=> Unsent
    BY <2>1 DEF Unsent
  <2> QED BY <1>0, <2>2, <2>3, HostStep
<1>6. ASSUME NEW r \in Ranks, CreateQP(r) PROVE StartInv'
  <2>1. /\ pc[r] = "create" /\ pc'[r] \in {"collect", "topology"}
        /\ comm'[r] = comm[r] + 1 /\ comm[r] < communicators
        /\ \A s \in Ranks : s # r => pc'[s] = pc[s] /\ comm'[s] = comm[s]
        /\ to_controller' = to_controller
        /\ r = 0 => pc'[0] = "collect"
    BY <1>6 DEF CreateQP, Goto, IInv, TypeOK
  <2>2. CallInv'
    BY <1>0, <1>1, <2>1 DEF StartInv, CallInv
  <2>3. ASSUME Once PROVE Unsent' <=> Unsent
    <3>1. CASE r # 0
      BY <2>1, <3>1, RankFacts DEF Unsent
    <3>2. CASE r = 0
      <4>1. comm[0] = 0
        BY <2>1, <2>3, <3>2, OneCommunicator
      <4> QED BY <2>1, <3>2, <4>1 DEF Unsent
    <3> QED BY <3>1, <3>2
  <2> QED BY <1>0, <2>2, <2>3, HostStep
<1> QED BY <1>2, <1>3, <1>4, <1>5, <1>6 DEF Communicator

LEMMA CallerStep ==
    ASSUME IInv, StartInv, Caller PROVE StartInv'
<1> USE DEF hostVars, rootVars, tcpVars, sessionVars, configVars, receiverVars,
            psnVars
<1>0. /\ UNCHANGED <<communicators, to_switch, step, idx, conns, fan_in,
                     receiving, i, threads, switch, arrival, got>>
      /\ UNCHANGED <<comm, to_controller>>
  BY DEF Caller, PostControl, PostData, Return
<1>1. PICK r \in Ranks :
          /\ pc[r] \in {"call", "control", "data"}
          /\ pc'[r] \in {"control", "data", "create"}
          /\ pc'[r] = "create" => got[r] = comm[r]
          /\ \A s \in Ranks : s # r => pc'[s] = pc[s]
  BY DEF Caller, PostControl, PostData, Return, Goto, IInv, TypeOK
<1>2. CallInv'
  <2>1. \A s \in Ranks : comm[s] \in Nat
    BY CommType DEF IInv
  <2> QED BY <1>0, <1>1, <2>1 DEF StartInv, CallInv
<1>3. Unsent' <=> Unsent
  BY <1>0, <1>1, RankFacts DEF Unsent
<1> QED BY <1>0, <1>2, <1>3, HostStep

LEMMA ControllerStep ==
    ASSUME IInv, StartInv, Controller PROVE StartInv'
<1> USE DEF hostVars, rootVars, tcpVars, sessionVars, configVars, receiverVars,
            psnVars
<1>0. /\ UNCHANGED <<communicators, step, idx, conns, fan_in, receiving, i,
                     threads, switch, arrival, got, pc, comm>>
      /\ CallInv'
  BY DEF Controller, StartController, AcceptSwitch, SessionGroup, SessionRoute,
         SessionReply, StartInv, CallInv
<1>1. CASE StartController \/ AcceptSwitch \/ SessionReply
  BY <1>0, <1>1, HostStep DEF StartController, AcceptSwitch, SessionReply, Unsent
<1>2. CASE SessionGroup
  <2>1. comm[0] = 0
    <3>1. to_controller # << >> /\ Head(to_controller).type = "G"
      BY <1>2 DEF SessionGroup
    <3>2. Head(<<[type |-> "C", qps |-> Full(comm[0])]>>).type # "G"
      <4>1. PICK request : request = [type |-> "C", qps |-> Full(comm[0])]
        OBVIOUS
      <4>2. request.type = "C" /\ Head(<<request>>) = request
        BY <4>1
      <4> QED BY <4>1, <4>2
    <3>3. pc[0] = "register"
      BY <3>1, <3>2 DEF IInv, SessionInv
    <3> QED BY <3>3 DEF IInv, RootInv
  <2>2. Unsent /\ Unsent'
    BY <1>0, <2>1 DEF Unsent
  <2> QED BY <1>0, <1>2, <2>2, HostStep DEF SessionGroup
<1>3. CASE SessionRoute
  <2>1. /\ pc[0] = "topology" /\ Len(to_controller) = 1 /\ comm[0] > 0
        /\ to_controller # << >> /\ to_controller' = << >>
    <3>1. to_controller # << >> /\ Head(to_controller).type = "C"
          /\ to_controller' = Tail(to_controller)
      BY <1>3 DEF SessionRoute
    <3>2. Head(<<[type |-> "G"]>>).type # "C"
      <4>1. PICK g : g = [type |-> "G"]
        OBVIOUS
      <4>2. g.type = "G" /\ Head(<<g>>) = g
        BY <4>1
      <4> QED BY <4>1, <4>2
    <3>3. pc[0] = "topology"
          /\ to_controller = <<[type |-> "C", qps |-> Full(comm[0])]>>
      BY <3>1, <3>2 DEF IInv, SessionInv
    <3>4. comm[0] > 0
      BY <3>3 DEF IInv, RootInv
    <3>5. PICK request : to_controller = <<request>>
      BY <3>3
    <3>6. Tail(to_controller) = << >> /\ Len(to_controller) = 1
      BY ONLY <3>5
    <3> QED BY <3>1, <3>3, <3>4, <3>6
  <2>2. PICK qps : to_switch' = Append(to_switch, qps)
    BY <1>3 DEF SessionRoute
  <2>3. Once' <=> Once
    BY <1>0 DEF Once
  <2>4. ASSUME Once
        PROVE  ~ Unsent' /\ Len(to_switch') = 1 /\ step' = "receive" /\ fan_in' = 0
    <3>1. comm[0] = 1
      BY <2>1, <2>4, OneCommunicator
    <3>2. Unsent /\ ~ Unsent'
      BY <1>0, <2>1, <3>1 DEF Unsent
    <3>3. to_switch = << >> /\ step = "receive" /\ fan_in = 0
      BY <2>4, <3>2 DEF StartInv, ConfigInv
    <3>4. Len(to_switch') = 1
      BY <2>2, <3>3
    <3> QED BY <1>0, <3>2, <3>3, <3>4
  <2>5. ConfigInv'
    BY <2>3, <2>4 DEF ConfigInv
  <2>6. DataInv' /\ ReceiverInv'
    BY <1>0, <2>3 DEF StartInv, DataInv, ReceiverInv, AllOpen
  <2> QED BY <1>0, <2>5, <2>6 DEF StartInv
<1> QED BY <1>1, <1>2, <1>3 DEF Controller

(* The switch takes the configuration before any thread exists.             *)
LEMMA ConfigThreadStep ==
    ASSUME IInv, StartInv, ConfigThread PROVE StartInv'
<1> USE DEF hostVars, rootVars, tcpVars, sessionVars, configVars, receiverVars,
            psnVars
<1>0. /\ UNCHANGED <<communicators, pc, comm, to_controller, threads, got,
                     receiving, i>>
      /\ arrival' = arrival \/ arrival' = {}
      /\ switch' # "stopped" \/ switch' = switch
  BY DEF ConfigThread, ConnectController, ReceiveConfig, ClearRules,
         switch_context_reset_psn_states, ParseConnection, SetFanIn, ParseRule,
         ConfigApplied
<1>1. CallInv' /\ DataInv' /\ (communicators' = 1 => switch' # "stopped")
      /\ (Unsent' <=> Unsent) /\ (Once' <=> Once)
  BY <1>0 DEF StartInv, CallInv, DataInv, Unsent, Once
<1>2. Once => ConfigInv /\ ReceiverInv
  BY DEF StartInv
<1>3. connections_cnt \in Nat /\ connections_cnt # 0 /\ idx \in 0 .. connections_cnt
      /\ fan_in \in {0, connections_cnt}
  <2>1. connections_cnt \in Nat /\ connections_cnt # 0
    BY ConnectionFacts
  <2>2. idx \in 0 .. connections_cnt
    BY DEF IInv, SwitchInv
  <2>3. fan_in \in {0, connections_cnt}
    BY DEF StartInv
  <2> QED BY <2>1, <2>2, <2>3
<1>4. to_switch \in Seq(Seq(QPs))
  BY DEF IInv, SwitchInv
<1>5. CASE ReceiveConfig
  <2>1. /\ to_switch # << >> /\ to_switch' = Tail(to_switch) /\ fan_in' = 0
        /\ step = "receive" /\ step' = "rules cleared"
    BY <1>5 DEF ReceiveConfig
  <2>2. ASSUME Once
        PROVE  ~ Unsent /\ to_switch' = << >> /\ receiving = "wait"
    <3>1. Len(to_switch) = 1 /\ ~ Unsent /\ fan_in = 0
      BY <2>1, <2>2, <1>2 DEF ConfigInv
    <3>2. to_switch' = << >>
      BY <1>4, <2>1, <3>1, TailOfOne
    <3>3. receiving = "wait"
      BY <1>2, <1>3, <2>2, <3>1 DEF ReceiverInv
    <3> QED BY <3>1, <3>2, <3>3
  <2>3. ConfigInv'
    BY <1>1, <2>1, <2>2 DEF ConfigInv
  <2>4. ReceiverInv'
    <3>1. receiving = "open" => Once
      BY ConnectionFacts DEF StartInv, ReceiverInv, Once
    <3> QED BY <1>0, <1>1, <2>2, <3>1 DEF StartInv, ReceiverInv
  <2> QED BY <1>1, <2>1, <2>3, <2>4 DEF StartInv
<1>6. ASSUME ~ ReceiveConfig PROVE StartInv'
  <2>1. /\ to_switch' = to_switch
        /\ \A c \in Connections : /\ conns[c].ok => conns'[c].ok
                                  /\ conns'[c].handle = conns[c].handle
    <3>1. CASE ParseConnection
      <4>1. idx \in Connections
        BY <3>1, ConfigEntry DEF ParseConnection
      <4>2. conns \in [Connections -> [qp : QPs \union {NoQP}, ok : BOOLEAN,
                                       handle : BOOLEAN]]
        BY DEF IInv, TypeOK
      <4>3. /\ conns' = [conns EXCEPT ![idx] =
                            [[@ EXCEPT !.qp = config[idx + 1]] EXCEPT !.ok = TRUE]]
            /\ to_switch' = to_switch
        BY <3>1, <4>1, <4>2 DEF ParseConnection
      <4> QED BY <4>1, <4>2, <4>3
    <3>2. CASE conns' = conns /\ to_switch' = to_switch
      BY <3>2
    <3> QED BY <1>6, <3>1, <3>2 DEF ConfigThread, ConnectController, ClearRules,
               switch_context_reset_psn_states, SetFanIn, ParseRule, ConfigApplied
  <2>2. fan_in' = fan_in \/ (step = "connections" /\ fan_in' = connections_cnt)
    <3>1. CASE SetFanIn
      <4>1. idx = connections_cnt
        <5>1. idx \notin Connections
          BY <3>1 DEF SetFanIn
        <5> QED BY <1>3, <5>1, ConnectionFacts
      <4> QED BY <3>1, <4>1 DEF SetFanIn
    <3> QED BY <1>6, <3>1 DEF ConfigThread, ConnectController, ClearRules,
            ParseRule, switch_context_reset_psn_states, ParseConnection,
            ConfigApplied
  <2>3. ConfigInv'
    <3>1. CASE ConnectController
      BY <1>1, <1>2, <3>1 DEF ConfigInv, ConnectController
    <3>2. CASE ClearRules
      BY <1>1, <1>2, <1>3, <3>2 DEF ConfigInv, ClearRules
    <3>3. CASE switch_context_reset_psn_states
      <4>1. \A c \in Connections : ~ (c < 0)
        BY ConnectionFacts
      <4> QED BY <1>1, <1>2, <3>3, <4>1
              DEF ConfigInv, switch_context_reset_psn_states
    <3>4. CASE ParseConnection
      <4>1. /\ step = "connections" /\ step' = step /\ idx' = idx + 1
            /\ fan_in' = fan_in /\ idx \in Connections
        BY <3>4 DEF ParseConnection
      <4>2. conns'[idx].ok /\ idx \in Connections
        BY <3>4, <4>1, ConfigEntry DEF ParseConnection, IInv, TypeOK
      <4>3. \A c \in Connections : c < idx + 1 => c < idx \/ c = idx
        BY <1>3, ConnectionFacts
      <4> QED BY <1>1, <1>2, <2>1, <4>1, <4>2, <4>3 DEF ConfigInv
    <3>5. CASE SetFanIn
      <4>1. /\ step = "connections" /\ step' = "rules" /\ idx = connections_cnt
            /\ fan_in' = connections_cnt /\ conns' = conns
        BY <1>3, <3>5, ConnectionFacts DEF SetFanIn
      <4>2. \A c \in Connections : c < connections_cnt
        BY ConnectionFacts
      <4> QED BY <1>1, <1>2, <2>1, <4>1, <4>2 DEF ConfigInv
    <3>6. CASE ParseRule
      BY <1>1, <1>2, <3>6 DEF ConfigInv, ParseRule
    <3>7. CASE ConfigApplied
      BY <1>1, <1>2, <1>3, <3>7 DEF ConfigInv, ConfigApplied
    <3> QED BY <1>6, <3>1, <3>2, <3>3, <3>4, <3>5, <3>6, <3>7 DEF ConfigThread
  <2>4. ReceiverInv'
    <3>1. Once => (fan_in = connections_cnt => fan_in' = connections_cnt)
      BY <2>2
    <3>2. AllOpen => AllOpen'
      BY <2>1 DEF AllOpen
    <3>3. ReceiverInv
      BY DEF StartInv
    <3>4. CASE receiving = "wait"
      BY <1>0, <3>3, <3>4 DEF ReceiverInv
    <3>5. CASE receiving = "open"
      BY <1>0, <2>1, <3>3, <3>5, <2>2 DEF ReceiverInv
    <3>6. CASE receiving = "create"
      BY <1>0, <1>1, <3>1, <3>2, <3>3, <3>6 DEF ReceiverInv
    <3>7. CASE receiving \in {"join", "joining"}
      BY <1>0, <1>1, <3>1, <3>2, <3>3, <3>7 DEF ReceiverInv
    <3> QED BY <3>3, <3>4, <3>5, <3>6, <3>7 DEF ReceiverInv
  <2> QED BY <1>1, <1>3, <2>2, <2>3, <2>4 DEF StartInv
<1> QED BY <1>5, <1>6

(* Each of its loops runs to the number of connections or not at all.       *)
LEMMA ReceiverStep ==
    ASSUME IInv, StartInv, Receiver PROVE StartInv'
<1> USE DEF hostVars, rootVars, tcpVars, sessionVars, configVars, receiverVars,
            psnVars
<1>0. UNCHANGED <<communicators, pc, comm, to_controller, to_switch, step, idx,
                  fan_in, got, arrival>>
  BY DEF Receiver, StartReceiving, OpenHandle, CreateThreads, CreateThread,
         JoinThreads, JoinThread
<1>1. /\ connections_cnt \in Nat /\ connections_cnt # 0 /\ i \in Nat
      /\ fan_in \in {0, connections_cnt} /\ ReceiverInv /\ Connections # {}
      /\ \A c \in Connections : c \in Nat /\ c < connections_cnt
      /\ 0 \in Connections
      /\ \A n \in Nat : n < connections_cnt => n \in Connections
  <2>1. i \in Nat
    BY DEF IInv, SwitchInv
  <2>2. fan_in \in {0, connections_cnt} /\ ReceiverInv
    BY DEF StartInv
  <2> QED BY <2>1, <2>2, ConnectionFacts
<1>2. threads \subseteq threads' /\ threads' \subseteq Connections
  <2>1. CASE CreateThread
    <3>1. i < fan_in
      BY <2>1 DEF CreateThread
    <3>2. i \in Connections
      BY <1>1, <3>1
    <3> QED BY <2>1, <3>2 DEF CreateThread, IInv, TypeOK
  <2>2. CASE threads' = threads
    BY <2>2 DEF IInv, TypeOK
  <2> QED BY <2>1, <2>2 DEF Receiver, StartReceiving, OpenHandle, CreateThreads,
                            JoinThreads, JoinThread
<1>3. Once' => Once
  BY <1>0, <1>2, OnceStable
<1>4. CallInv' /\ (Unsent' <=> Unsent)
  BY <1>0 DEF StartInv, CallInv, Unsent
<1>5. DataInv'
  BY <1>0, <1>2 DEF StartInv, DataInv
<1>6. \A c \in Connections : /\ conns[c].ok => conns'[c].ok
                             /\ conns[c].handle => conns'[c].handle
                             /\ OpenHandle => conns'[i].handle
  <2>1. CASE OpenHandle
    <3>1. i \in Connections
      <4>1. i < fan_in
        BY <2>1 DEF OpenHandle
      <4> QED BY <1>1, <4>1
    <3>2. conns \in [Connections -> [qp : QPs \union {NoQP}, ok : BOOLEAN,
                                     handle : BOOLEAN]]
      BY DEF IInv, TypeOK
    <3>3. conns' = [conns EXCEPT ![i] =
                       [[@ EXCEPT !.handle = TRUE] EXCEPT !.ok = TRUE]]
      BY <2>1, <3>1, <3>2 DEF OpenHandle
    <3> QED BY <3>1, <3>2, <3>3
  <2>2. CASE ~ OpenHandle /\ conns' = conns
    BY <2>2
  <2> QED BY <2>1, <2>2 DEF Receiver, StartReceiving, CreateThreads,
                            CreateThread, JoinThreads, JoinThread
<1>7. ConfigInv'
  <2>1. ASSUME Once PROVE ConfigInv'
    BY <1>0, <1>4, <1>6, <2>1 DEF StartInv, ConfigInv
  <2> QED BY <1>3, <2>1 DEF ConfigInv
<1>8. ReceiverInv' /\ (communicators' = 1 => switch' # "stopped")
  <2>0. communicators = 1 => switch # "stopped" /\ Once
    BY DEF StartInv, Once
  <2>1. CASE StartReceiving
    BY <1>1, <2>0, <2>1 DEF ReceiverInv, StartReceiving
  <2>2. CASE OpenHandle
    <3>1. /\ receiving = "open" /\ receiving' = receiving /\ i < fan_in
          /\ i' = i + 1 /\ threads' = threads /\ switch' = switch
      BY <2>2 DEF OpenHandle
    <3>2. \A c \in Connections : c < i + 1 => conns'[c].handle
      <4>1. \A c \in Connections : c < i => conns[c].handle
        BY <1>1, <3>1 DEF ReceiverInv
      <4>2. \A c \in Connections : c < i + 1 => c < i \/ c = i
        BY <1>1
      <4> QED BY <1>6, <2>2, <4>1, <4>2
    <3> QED BY <1>0, <1>1, <2>0, <3>1, <3>2 DEF ReceiverInv
  <2>3. CASE CreateThreads
    <3>1. /\ receiving = "open" /\ receiving' = "create" /\ i >= fan_in /\ i' = 0
          /\ threads' = threads /\ switch' = switch /\ conns' = conns
      BY <2>3 DEF CreateThreads
    <3>2. fan_in = connections_cnt /\ threads = {} /\ AllOpen'
      BY <1>1, <3>1 DEF ReceiverInv, AllOpen
    <3>3. threads' = {c \in Connections : c < 0}
      BY <1>1, <3>1, <3>2
    <3> QED BY <1>0, <1>1, <2>0, <3>1, <3>2, <3>3 DEF ReceiverInv
  <2>4. CASE CreateThread
    <3>1. /\ receiving = "create" /\ receiving' = receiving /\ i < fan_in
          /\ threads' = IF conns[i].ok THEN threads \union {i} ELSE threads
          /\ i' = i + 1 /\ switch' = switch /\ conns' = conns
      BY <2>4 DEF CreateThread
    <3>2. /\ threads = {c \in Connections : c < i} /\ i \in Connections
          /\ Once => fan_in = connections_cnt /\ AllOpen
      BY <1>1, <3>1 DEF ReceiverInv
    <3>3. Once
      BY <1>1, <3>2 DEF Once
    <3>4. conns[i].ok
      <4>1. fan_in = connections_cnt
        BY <3>2, <3>3
      <4> QED BY <1>1, <3>2, <3>3, <4>1 DEF StartInv, ConfigInv
    <3>5. threads' = {c \in Connections : c < i + 1}
      <4>1. threads' = threads \union {i}
        BY <3>1, <3>4
      <4>2. \A c \in Connections : c < i + 1 <=> (c < i \/ c = i)
        BY <1>1
      <4> QED BY <3>2, <4>1, <4>2
    <3>6. AllOpen'
      BY <3>1, <3>2, <3>3 DEF AllOpen
    <3> QED BY <1>0, <1>1, <2>0, <3>1, <3>2, <3>3, <3>5, <3>6 DEF ReceiverInv
  <2>5. CASE JoinThreads
    <3>1. /\ receiving = "create" /\ receiving' = "join" /\ i >= fan_in /\ i' = 0
          /\ threads' = threads /\ switch' = switch /\ conns' = conns
      BY <2>5 DEF JoinThreads
    <3>2. /\ threads = {c \in Connections : c < i}
          /\ Once => fan_in = connections_cnt /\ AllOpen
      BY <1>1, <3>1 DEF ReceiverInv
    <3>3. threads = Connections
      <4>1. CASE Once
        BY <1>1, <3>1, <3>2, <4>1
      <4> QED BY <4>1 DEF Once
    <3>4. AllOpen => AllOpen'
      BY <3>1 DEF AllOpen
    <3> QED BY <1>0, <1>3, <2>0, <3>1, <3>2, <3>3, <3>4 DEF ReceiverInv
  <2>6. CASE JoinThread
    <3>1. /\ receiving = "join" /\ threads' = threads /\ conns' = conns
          /\ \/ receiving' = "joining" /\ i' = i /\ switch' = switch
             \/ i < fan_in /\ ~ conns[i].ok /\ i' = i + 1
                /\ receiving' = receiving /\ switch' = switch
             \/ i >= fan_in /\ receiving' = receiving /\ i' = i
      <4>1. CASE i < fan_in
        BY <2>6, <4>1 DEF JoinThread
      <4>2. CASE ~ (i < fan_in)
        <5>1. i >= fan_in
          BY <1>1, <4>2
        <5> QED BY <2>6, <4>2, <5>1 DEF JoinThread
      <4> QED BY <4>1, <4>2
    <3>2. /\ threads = Connections
          /\ Once => fan_in = connections_cnt /\ AllOpen /\ i = 0
      BY <1>1, <3>1 DEF ReceiverInv
    <3>3. Once => i < fan_in /\ conns[i].ok
      <4>1. ASSUME Once PROVE i < fan_in /\ conns[i].ok
        <5>1. fan_in = connections_cnt /\ fan_in # 0 /\ i = 0
          BY <1>1, <3>2, <4>1
        <5>2. \A c \in Connections : conns[c].ok
          BY <4>1, <5>1 DEF StartInv, ConfigInv
        <5> QED BY <1>1, <5>1, <5>2
      <4> QED BY <4>1
    <3>4. AllOpen => AllOpen'
      BY <3>1 DEF AllOpen
    <3>5. Once => i' = 0 /\ switch' = switch
      BY <1>1, <3>1, <3>2, <3>3
    <3>6. receiving' \in {"join", "joining"}
      BY <3>1
    <3> QED BY <1>0, <1>3, <2>0, <3>1, <3>2, <3>4, <3>5, <3>6 DEF ReceiverInv
  <2> QED BY <2>1, <2>2, <2>3, <2>4, <2>5, <2>6 DEF Receiver
<1> QED BY <1>0, <1>4, <1>5, <1>7, <1>8 DEF StartInv

------------------------------------------------------------------------------
(* Packets. *)

(* A slot that is complete has a packet of every thread.                    *)
LEMMA CompleteSlot ==
    ASSUME IInv, StartInv, NEW c \in threads,
           Cardinality(arrival \union {c}) = fan_in
    PROVE  threads = Connections
<1> DEFINE slot == arrival \union {c}
<1>1. slot \subseteq threads /\ threads \subseteq Connections /\ c \in slot
  BY DEF StartInv, DataInv, IInv, TypeOK
<1>2. connections_cnt \in Nat /\ IsFiniteSet(Connections)
      /\ Cardinality(Connections) = connections_cnt
  <2>1. connections_cnt \in Nat /\ connections_cnt # 0
        /\ Connections = 0 .. connections_cnt - 1
    BY ConnectionFacts DEF Connections
  <2>2. IsFiniteSet(0 .. connections_cnt - 1)
        /\ Cardinality(0 .. connections_cnt - 1) = connections_cnt
    BY <2>1, FS_Interval
  <2> QED BY <2>1, <2>2
<1>3. IsFiniteSet(slot) /\ Cardinality(slot) \in Nat
  BY <1>1, <1>2, FS_Subset, FS_CardinalityType
<1>4. Cardinality(slot) # 0
  BY <1>1, <1>3, FS_EmptySet
<1>5. fan_in = connections_cnt
  BY <1>4 DEF StartInv
<1>6. slot = Connections
  BY <1>1, <1>2, <1>5, FS_Subset
<1> QED BY <1>1, <1>6

LEMMA HandlerStep ==
    ASSUME IInv, StartInv, NEW c \in Connections, Handler(c) PROVE StartInv'
<1> USE DEF hostVars, rootVars, tcpVars, sessionVars, configVars, receiverVars,
            psnVars
<1>0. /\ UNCHANGED <<communicators, pc, comm, to_controller, to_switch, step,
                     idx, conns, fan_in, receiving, i, threads>>
      /\ c \in threads
  BY DEF Handler, HandleControl, HandleData, HandleOther, Crash, Receives
<1>1. (Unsent' <=> Unsent) /\ (Once' <=> Once)
  BY <1>0 DEF Unsent, Once
<1>2. ConfigInv' /\ ReceiverInv'
  BY <1>0, <1>1 DEF StartInv, ConfigInv, ReceiverInv, AllOpen
<1>3. CallInv' /\ DataInv'
  <2>1. CASE HandleData(c) /\ Cardinality(arrival \union {c}) = fan_in
    <3>1. threads = Connections
      BY <1>0, <2>1, CompleteSlot
    <3>2. got' = [r \in Ranks |-> IF /\ r \in Connections
                                     /\ conns[r].qp # NoQP
                                     /\ conns[r].qp[1] = r
                                     /\ send_psn[r] = 0
                                  THEN conns[r].qp[2] ELSE got[r]]
          /\ arrival' = {}
      BY <2>1 DEF HandleData
    <3>3. ASSUME NEW r \in Ranks, got[r] >= 1 PROVE got'[r] >= 1
      <4>1. CASE r \in Connections /\ conns[r].qp # NoQP
        <5>1. PICK k \in 1 .. comm[0] : conns[r].qp = <<r, k>>
          BY <4>1, RankFacts DEF IInv, SwitchInv
        <5> QED BY <3>2, <3>3, <5>1
      <4>2. CASE ~ (r \in Connections /\ conns[r].qp # NoQP)
        BY <3>2, <3>3, <4>2
      <4> QED BY <4>1, <4>2
    <3> QED BY <1>0, <3>1, <3>2, <3>3 DEF StartInv, CallInv, DataInv
  <2>2. CASE ~ (HandleData(c) /\ Cardinality(arrival \union {c}) = fan_in)
    <3>1. got' = got /\ (arrival' = arrival \/ arrival' = arrival \union {c})
      BY <2>2 DEF Handler, HandleControl, HandleData, HandleOther, Crash
    <3> QED BY <1>0, <3>1 DEF StartInv, CallInv, DataInv
  <2> QED BY <2>1, <2>2
<1>4. communicators' = 1 => switch' # "stopped"
  <2>1. ASSUME NEW psn \in {0, 1}, Crash(c, psn) PROVE communicators # 1
    <3>1. ~ conns[c].handle
      BY <2>1 DEF Crash
    <3>2. receiving \notin {"wait", "open"}
      BY <1>0 DEF StartInv, ReceiverInv
    <3>3. ~ AllOpen
      BY <3>1 DEF AllOpen
    <3>4. ~ Once
      BY <3>2, <3>3 DEF StartInv, ReceiverInv
    <3> QED BY <3>4 DEF Once
  <2>2. (\E psn \in {0, 1} : Crash(c, psn)) \/ switch' = switch
    BY DEF Handler, HandleControl, HandleData, HandleOther
  <2> QED BY <1>0, <2>1, <2>2 DEF StartInv
<1> QED BY <1>0, <1>2, <1>3, <1>4 DEF StartInv

------------------------------------------------------------------------------
LEMMA InitStartInv ==
    ASSUME Init PROVE StartInv
<1>1. comm[0] = 0 /\ \A r \in Ranks : comm[r] = 0 /\ got[r] = 0
  BY RankFacts DEF Init
<1> QED BY <1>1 DEF Init, StartInv, CallInv, DataInv, ConfigInv, ReceiverInv,
                    Unsent

LEMMA NextStart ==
    ASSUME IInv, StartInv, [Next]_vars PROVE StartInv'
<1>1. CASE Next
  BY <1>1, GroupStep, CommunicatorStep, CallerStep, ControllerStep,
     ConfigThreadStep, ReceiverStep, HandlerStep DEF Next
<1>2. CASE UNCHANGED vars
  BY <1>2 DEF vars, hostVars, rootVars, tcpVars, sessionVars, configVars,
     receiverVars, psnVars, StartInv, CallInv, DataInv, ConfigInv, ReceiverInv,
     AllOpen, Unsent, Once
<1> QED BY <1>1, <1>2

(* The invariant of the switch's start holds of every group.                *)
THEOREM StartInvariant == Spec => []StartInv
<1>1. Init => StartInv
  BY InitStartInv
<1>2. IInv /\ StartInv /\ [Next]_vars => StartInv'
  BY NextStart
<1> QED BY <1>1, <1>2, Inductive, PTL DEF Spec

(* Although the receiver reads fan_in and conns while they are written,      *)
(* every connection the switch has room for, at most MAX_CONNECTIONS_NUM,    *)
(* has its thread when the first is joined, in groups of any size            *)
(* (background_receiving, switch_main.c:532-585).  The ranks beyond have     *)
(* neither a connection nor a thread (controller_comm.cpp:39-42).            *)
THEOREM AllConnectionsReceived == Spec => []EveryConnectionReceived
<1>1. StartInv => EveryConnectionReceived
  BY DEF StartInv, ReceiverInv, EveryConnectionReceived
<1> QED BY <1>1, StartInvariant, PTL

(* A group with one communicator never brings the switch down: no answer is *)
(* sent without a handle, and the join loop meets a thread.                 *)
THEOREM OneCommunicatorSurvives == Spec => []SurvivesOneCommunicator
<1>1. StartInv => SurvivesOneCommunicator
  BY DEF StartInv, SurvivesOneCommunicator
<1> QED BY <1>1, StartInvariant, PTL
==============================================================================
