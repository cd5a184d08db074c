------------------------------ MODULE Bootstrap ------------------------------
(***************************************************************************)
(* How a group comes up: inccl_group_create and inccl_communicator_create   *)
(* (src/api.c), the controller (src/controller.cpp) and the switch          *)
(* receiving its configurations (termination_switch/src/controller_comm.cpp *)
(* and the start of the receiver threads in switch_main.c), with as much of *)
(* the data plane as shows whether the hosts are served: on every           *)
(* communicator each host makes one AllReduce call of one packet, preceded  *)
(* by its control message.                                                  *)
(*                                                                          *)
(* All of these are processes started in any order.  TCP connections are    *)
(* FIFO; connecting to a port nobody listens on fails and is not retried.   *)
(* A packet is handled in one step here (SwitchAllReduce has the            *)
(* interleavings of the handlers); uplink packets and their ACKs may be     *)
(* lost, repeated and reordered.  The switch counts every control message,   *)
(* those that come again as well, of which there are at most MaxRepeats.    *)
(*                                                                          *)
(* A QP is named by the rank and the communicator it was created for, and a *)
(* configuration by the QP of each rank: <<r, k>> is what qp_num of rank r   *)
(* stands for.                                                              *)
(***************************************************************************)
EXTENDS Rules, FiniteSets

CONSTANTS world_size,       \* ranks of the group
          MaxCommunicators, \* how many communicators it creates at most
          MaxRepeats        \* bound: control messages that are handled again

ASSUME GroupAssumption == /\ world_size \in Nat \ {0}
                          /\ MaxCommunicators \in Nat \ {0}
                          /\ MAX_CONNECTIONS_NUM > 0
                          /\ MaxRepeats \in Nat \ {0}

Ranks == 0 .. world_size - 1
Workers == Ranks \ {0}

(* The connections the switch has room for are those of the first ranks.    *)
connections_cnt == IF world_size < MAX_CONNECTIONS_NUM
                   THEN world_size ELSE MAX_CONNECTIONS_NUM
Connections == 0 .. connections_cnt - 1
Communicators == 1 .. MaxCommunicators
QPs == Ranks \X Communicators
None == -1
NoQP == << >>

VARIABLES
  communicators,  \* how many the program creates
  (* hosts *)
  pc,             \* where the rank is
  comm,           \* the communicator it is creating or calling on
  topology,       \* topology[r]: the QPs of the file it received last
  posted,         \* posted[r][k]: packets posted on QP <<r, k>>: 0 control, 1 data
  acked,          \* acked[r][k]: PSNs below it are acknowledged
  got,            \* got[r]: the communicator of the last result received
  (* rank 0 *)
  backlog,        \* connections waiting in accept(), by the rank behind each
  group_fd_list,  \* group_fd_list[i]: the rank at the other end of socket i
  group_qp_num_list, \* QP numbers collected so far, in rank order
  (* TCP connections *)
  to_root,        \* to_root[r]: from rank r to rank 0
  to_rank,        \* to_rank[r]: from rank 0 to rank r
  to_controller, from_controller,  \* rank 0 and its session
  to_switch,      \* the session and the switch
  (* controller *)
  controller,     \* "off", "switches" (accepting the switch), "groups"
  reply,          \* the file the session has still to send to rank 0
  (* switch: the thread of the controller connection *)
  switch,         \* "off", "up", "refused" (no controller), "stopped"
  step,           \* where parse_yaml_config is
  config,         \* the configuration it is applying
  idx,            \* the connection it parses next
  conns,          \* ctx->conns
  fan_in,         \* ctx->fan_in
  count,          \* rules in the routing table
  (* switch: background_receiving *)
  receiving, i, threads,
  (* switch: the data plane *)
  agg_epsn, send_psn, arrival,
  (* history *)
  handled,        \* the QPs whose control message was handled
  repeats         \* how often one was handled again

hostVars == <<pc, comm, topology, posted, got>>
rootVars == <<backlog, group_fd_list, group_qp_num_list>>
tcpVars == <<to_root, to_rank, to_controller, from_controller>>
sessionVars == <<to_switch, reply>>
configVars == <<step, config, idx, conns, fan_in, count>>
receiverVars == <<receiving, i, threads>>
psnVars == <<agg_epsn, send_psn, arrival, handled, repeats>>
vars == <<communicators, hostVars, acked, rootVars, tcpVars, sessionVars,
          controller, switch, configVars, receiverVars, psnVars>>

(* connection_t: the peer's QP, whether it is in use, whether its pcap      *)
(* handle is open (else NULL).                                              *)
Cleared == [qp |-> NoQP, ok |-> FALSE, handle |-> FALSE]

Init ==
    /\ communicators \in Communicators
    /\ pc = [r \in Ranks |-> "start"]
    /\ comm = [r \in Ranks |-> 0]
    /\ topology = [r \in Ranks |-> << >>]
    /\ posted = [r \in Ranks |-> [k \in Communicators |-> 0]]
    /\ acked = [r \in Ranks |-> [k \in Communicators |-> 0]]
    /\ got = [r \in Ranks |-> 0]
    /\ backlog = << >>
    /\ group_fd_list = [r \in Ranks |-> None]
    /\ group_qp_num_list = << >>
    /\ to_root = [r \in Ranks |-> << >>]
    /\ to_rank = [r \in Ranks |-> << >>]
    /\ to_controller = << >> /\ from_controller = << >> /\ to_switch = << >>
    /\ controller = "off"
    /\ reply = << >>
    /\ switch = "off"
    /\ step = "receive"
    /\ config = << >>
    /\ idx = 0
    /\ conns = [c \in Connections |-> Cleared]
    /\ fan_in = 0
    /\ count = 0
    /\ receiving = "wait"
    /\ i = 0
    /\ threads = {}
    /\ agg_epsn = [c \in Connections |-> 0]
    /\ send_psn = [c \in Connections |-> 0]
    /\ arrival = {}
    /\ handled = {}
    /\ repeats = 0

Goto(r, where) == pc' = [pc EXCEPT ![r] = where]

------------------------------------------------------------------------------
(* inccl_group_create *)

Listen ==
    /\ pc[0] = "start"
    /\ Goto(0, "accept")
    /\ UNCHANGED <<communicators, comm, topology, posted, got, acked, rootVars,
                   tcpVars, sessionVars, controller, switch, configVars,
                   receiverVars, psnVars>>

(* A worker connects and sends its rank; it waits for nothing. *)
ConnectMaster(r) ==
    /\ pc[r] = "start"
    /\ pc[0] = "accept"
    /\ backlog' = Append(backlog, r)
    /\ to_root' = [to_root EXCEPT ![r] = Append(@, [rank |-> r])]
    /\ Goto(r, "create")
    /\ UNCHANGED <<communicators, comm, topology, posted, got, acked,
                   group_fd_list, group_qp_num_list, to_rank, to_controller,
                   from_controller, sessionVars, controller, switch, configVars,
                   receiverVars, psnVars>>

(* The group is NULL: rank 0 does not listen yet, or has given up. *)
ConnectMasterFails(r) ==
    /\ pc[r] = "start"
    /\ pc[0] \in {"start", "failed"}
    /\ Goto(r, "failed")
    /\ UNCHANGED <<communicators, comm, topology, posted, got, acked, rootVars,
                   tcpVars, sessionVars, controller, switch, configVars,
                   receiverVars, psnVars>>

(* Stored in the order of the accepts. *)
Accept_InOrder ==
    /\ pc[0] = "accept"
    /\ backlog # << >>
    /\ LET r == Head(backlog)
           n == Cardinality({s \in Ranks : group_fd_list[s] # None})
       IN  /\ to_root[r] # << >>
           /\ group_fd_list' = [group_fd_list EXCEPT ![n + 1] = r]
           /\ to_root' = [to_root EXCEPT ![r] = Tail(@)]
    /\ backlog' = Tail(backlog)
    /\ UNCHANGED <<communicators, hostVars, acked, group_qp_num_list, to_rank,
                   to_controller, from_controller, sessionVars, controller,
                   switch, configVars, receiverVars, psnVars>>

(* The socket is stored by the rank its peer sends, whatever the order. *)
Accept ==
    /\ pc[0] = "accept"
    /\ backlog # << >>
    /\ LET r == Head(backlog)
       IN  /\ to_root[r] # << >>
           /\ group_fd_list' = [group_fd_list EXCEPT ![Head(to_root[r]).rank] = r]
           /\ to_root' = [to_root EXCEPT ![r] = Tail(@)]
    /\ backlog' = Tail(backlog)
    /\ UNCHANGED <<communicators, hostVars, acked, group_qp_num_list, to_rank,
                   to_controller, from_controller, sessionVars, controller,
                   switch, configVars, receiverVars, psnVars>>

AllAccepted == \A r \in Workers : group_fd_list[r] # None

(* "G", the world size and the addresses; a session is started for them. *)
RegisterGroup ==
    /\ pc[0] = "accept"
    /\ AllAccepted
    /\ controller = "groups"
    /\ to_controller' = Append(to_controller, [type |-> "G"])
    /\ Goto(0, "register")
    /\ UNCHANGED <<communicators, comm, topology, posted, got, acked, rootVars,
                   to_root, to_rank, from_controller, sessionVars, controller,
                   switch, configVars, receiverVars, psnVars>>

(* The controller does not listen for groups: NULL again. *)
RegisterGroupFails ==
    /\ pc[0] = "accept"
    /\ AllAccepted
    /\ controller # "groups"
    /\ Goto(0, "failed")
    /\ UNCHANGED <<communicators, comm, topology, posted, got, acked, rootVars,
                   tcpVars, sessionVars, controller, switch, configVars,
                   receiverVars, psnVars>>

ReceiveGroupId ==
    /\ pc[0] = "register"
    /\ from_controller # << >>
    /\ from_controller' = Tail(from_controller)
    /\ Goto(0, "create")
    /\ UNCHANGED <<communicators, comm, topology, posted, got, acked, rootVars,
                   to_root, to_rank, to_controller, sessionVars, controller,
                   switch, configVars, receiverVars, psnVars>>

------------------------------------------------------------------------------
(* inccl_communicator_create *)

(* A worker sends the number of its new QP and waits for the topology; rank *)
(* 0 begins its list with its own.                                          *)
CreateQP(r) ==
    /\ pc[r] = "create"
    /\ comm[r] < communicators
    /\ comm' = [comm EXCEPT ![r] = @ + 1]
    /\ LET qp == <<r, comm[r] + 1>>
       IN  IF r = 0
           THEN /\ group_qp_num_list' = <<qp>>
                /\ Goto(r, "collect")
                /\ UNCHANGED to_root
           ELSE /\ to_root' = [to_root EXCEPT ![r] = Append(@, [qp |-> qp])]
                /\ Goto(r, "topology")
                /\ UNCHANGED group_qp_num_list
    /\ UNCHANGED <<communicators, topology, posted, got, acked, backlog,
                   group_fd_list, to_rank, to_controller, from_controller,
                   sessionVars, controller, switch, configVars, receiverVars,
                   psnVars>>

(* It does not wait for them: what the NIC will number next. *)
CollectQP_Guesses ==
    /\ pc[0] = "collect"
    /\ Len(group_qp_num_list) < world_size
    /\ LET r == group_fd_list[Len(group_qp_num_list)]
       IN  group_qp_num_list' = Append(group_qp_num_list, <<r, comm[0]>>)
    /\ UNCHANGED <<communicators, hostVars, acked, backlog, group_fd_list,
                   to_root, to_rank, to_controller, from_controller,
                   sessionVars, controller, switch, configVars, receiverVars,
                   psnVars>>

(* Rank 0 takes the QP numbers from its sockets in rank order. *)
CollectQP ==
    /\ pc[0] = "collect"
    /\ Len(group_qp_num_list) < world_size
    /\ LET r == group_fd_list[Len(group_qp_num_list)]
       IN  /\ to_root[r] # << >>
           /\ group_qp_num_list' =
                  Append(group_qp_num_list, Head(to_root[r]).qp)
           /\ to_root' = [to_root EXCEPT ![r] = Tail(@)]
    /\ UNCHANGED <<communicators, hostVars, acked, backlog, group_fd_list,
                   to_rank, to_controller, from_controller, sessionVars,
                   controller, switch, configVars, receiverVars, psnVars>>

(* "C" and the list. *)
RequestRoute ==
    /\ pc[0] = "collect"
    /\ Len(group_qp_num_list) = world_size
    /\ to_controller' = Append(to_controller,
                               [type |-> "C", qps |-> group_qp_num_list])
    /\ Goto(0, "topology")
    /\ UNCHANGED <<communicators, comm, topology, posted, got, acked, rootVars,
                   to_root, to_rank, from_controller, sessionVars, controller,
                   switch, configVars, receiverVars, psnVars>>

(* The topology file: its connection to the switch is all a rank takes from *)
(* it, and its QP is ready to receive and to send from then on.             *)
ReceiveTopology(r) ==
    /\ pc[r] = "topology"
    /\ to_rank[r] # << >>
    /\ to_rank' = [to_rank EXCEPT ![r] = Tail(@)]
    /\ topology' = [topology EXCEPT ![r] = Head(to_rank[r])]
    /\ Goto(r, "call")
    /\ UNCHANGED <<communicators, comm, posted, got, acked, rootVars, to_root,
                   to_controller, from_controller, sessionVars, controller,
                   switch, configVars, receiverVars, psnVars>>

(* The loop ends one rank early. *)
ForwardTopology_SkipsLast ==
    /\ pc[0] = "topology"
    /\ from_controller # << >>
    /\ from_controller' = Tail(from_controller)
    /\ topology' = [topology EXCEPT ![0] = Head(from_controller)]
    /\ to_rank' = [r \in Ranks |->
                      IF \E s \in 1 .. world_size - 2 : group_fd_list[s] = r
                      THEN Append(to_rank[r], Head(from_controller))
                      ELSE to_rank[r]]
    /\ Goto(0, "call")
    /\ UNCHANGED <<communicators, comm, posted, got, acked, rootVars, to_root,
                   to_controller, sessionVars, controller, switch, configVars,
                   receiverVars, psnVars>>

(* Rank 0 gets it from the controller and sends it on to all others. *)
ForwardTopology ==
    /\ pc[0] = "topology"
    /\ from_controller # << >>
    /\ from_controller' = Tail(from_controller)
    /\ topology' = [topology EXCEPT ![0] = Head(from_controller)]
    /\ to_rank' = [r \in Ranks |->
                      IF \E s \in Workers : group_fd_list[s] = r
                      THEN Append(to_rank[r], Head(from_controller))
                      ELSE to_rank[r]]
    /\ Goto(0, "call")
    /\ UNCHANGED <<communicators, comm, posted, got, acked, rootVars, to_root,
                   to_controller, sessionVars, controller, switch, configVars,
                   receiverVars, psnVars>>

------------------------------------------------------------------------------
(* One call of inccl_allreduce_sendrecv on the communicator: the control    *)
(* message, the data packet once it is acknowledged, the result.            *)

PostControl(r) ==
    /\ pc[r] = "call"
    /\ posted' = [posted EXCEPT ![r][comm[r]] = 1]
    /\ Goto(r, "control")
    /\ UNCHANGED <<communicators, comm, topology, got, acked, rootVars, tcpVars,
                   sessionVars, controller, switch, configVars, receiverVars,
                   psnVars>>

PostData(r) ==
    /\ pc[r] = "control"
    /\ acked[r][comm[r]] >= 1
    /\ posted' = [posted EXCEPT ![r][comm[r]] = 2]
    /\ Goto(r, "data")
    /\ UNCHANGED <<communicators, comm, topology, got, acked, rootVars, tcpVars,
                   sessionVars, controller, switch, configVars, receiverVars,
                   psnVars>>

Return(r) ==
    /\ pc[r] = "data"
    /\ got[r] = comm[r]
    /\ Goto(r, "create")
    /\ UNCHANGED <<communicators, comm, topology, posted, got, acked, rootVars,
                   tcpVars, sessionVars, controller, switch, configVars,
                   receiverVars, psnVars>>

------------------------------------------------------------------------------
(* The controller *)

StartController ==
    /\ controller = "off"
    /\ controller' = "switches"
    /\ UNCHANGED <<communicators, hostVars, acked, rootVars, tcpVars,
                   sessionVars, switch, configVars, receiverVars, psnVars>>

(* Only with its switch connected does it listen for groups. *)
AcceptSwitch ==
    /\ controller = "switches"
    /\ switch = "up"
    /\ controller' = "groups"
    /\ UNCHANGED <<communicators, hostVars, acked, rootVars, tcpVars,
                   sessionVars, switch, configVars, receiverVars, psnVars>>

(* group_session: 'G' *)
SessionGroup ==
    /\ to_controller # << >>
    /\ Head(to_controller).type = "G"
    /\ to_controller' = Tail(to_controller)
    /\ from_controller' = Append(from_controller, << >>)
    /\ UNCHANGED <<communicators, hostVars, acked, rootVars, to_root, to_rank,
                   sessionVars, controller, switch, configVars, receiverVars,
                   psnVars>>

(* 'C': the route is calculated and sent to the switch; what the switch     *)
(* does with it is not waited for.                                          *)
SessionRoute ==
    /\ reply = << >>
    /\ to_controller # << >>
    /\ Head(to_controller).type = "C"
    /\ to_controller' = Tail(to_controller)
    /\ to_switch' = Append(to_switch, Head(to_controller).qps)
    /\ reply' = Head(to_controller).qps
    /\ UNCHANGED <<communicators, hostVars, acked, rootVars, to_root, to_rank,
                   from_controller, controller, switch, configVars,
                   receiverVars, psnVars>>

(* Then the topology file is sent to rank 0. *)
SessionReply ==
    /\ reply # << >>
    /\ from_controller' = Append(from_controller, reply)
    /\ reply' = << >>
    /\ UNCHANGED <<communicators, hostVars, acked, rootVars, to_root, to_rank,
                   to_controller, to_switch, controller, switch, configVars,
                   receiverVars, psnVars>>

------------------------------------------------------------------------------
(* The switch: controller_connect and controller_thread *)

ConnectController ==
    /\ switch = "off"
    /\ switch' = IF controller = "off" THEN "refused" ELSE "up"
    /\ UNCHANGED <<communicators, hostVars, acked, rootVars, tcpVars,
                   sessionVars, controller, configVars, receiverVars, psnVars>>

(* The connections are cleared, their handles with them, then the rules,    *)
(* then the PSN state; send_psn is not part of it.                          *)
ReceiveConfig ==
    /\ switch = "up"
    /\ step = "receive"
    /\ to_switch # << >>
    /\ config' = Head(to_switch)
    /\ to_switch' = Tail(to_switch)
    /\ conns' = [c \in Connections |-> Cleared]
    /\ fan_in' = 0
    /\ step' = "rules cleared"
    /\ UNCHANGED <<communicators, hostVars, acked, rootVars, tcpVars, reply,
                   controller, switch, idx, count, receiverVars, psnVars>>

ClearRules ==
    /\ switch = "up"
    /\ step = "rules cleared"
    /\ count' = 0
    /\ step' = "reset"
    /\ UNCHANGED <<communicators, hostVars, acked, rootVars, tcpVars,
                   sessionVars, controller, switch, config, idx, conns, fan_in,
                   receiverVars, psnVars>>

switch_context_reset_psn_states ==
    /\ switch = "up"
    /\ step = "reset"
    /\ agg_epsn' = [c \in Connections |-> 0]
    /\ arrival' = {}
    /\ idx' = 0
    /\ step' = "connections"
    /\ UNCHANGED <<communicators, hostVars, acked, rootVars, tcpVars,
                   sessionVars, controller, switch, config, conns, fan_in,
                   count, receiverVars, send_psn, handled, repeats>>

(* fan_in counts the connections parsed so far. *)
ParseConnection_Counts ==
    /\ switch = "up"
    /\ step = "connections"
    /\ idx \in Connections
    /\ conns' = [conns EXCEPT ![idx].qp = config[idx + 1], ![idx].ok = TRUE]
    /\ idx' = idx + 1
    /\ fan_in' = idx + 1
    /\ UNCHANGED <<communicators, hostVars, acked, rootVars, tcpVars,
                   sessionVars, controller, switch, step, config, count,
                   receiverVars, psnVars>>

(* The loop ends at the file's last connection or at a full array. *)
ParseConnection ==
    /\ switch = "up"
    /\ step = "connections"
    /\ idx \in Connections
    /\ conns' = [conns EXCEPT ![idx].qp = config[idx + 1], ![idx].ok = TRUE]
    /\ idx' = idx + 1
    /\ UNCHANGED <<communicators, hostVars, acked, rootVars, tcpVars,
                   sessionVars, controller, switch, step, config, fan_in, count,
                   receiverVars, psnVars>>

(* Counts from one. *)
SetFanIn_OffByOne ==
    /\ switch = "up"
    /\ step = "connections"
    /\ idx \notin Connections
    /\ fan_in' = idx + 1
    /\ step' = "rules"
    /\ UNCHANGED <<communicators, hostVars, acked, rootVars, tcpVars,
                   sessionVars, controller, switch, config, idx, conns, count,
                   receiverVars, psnVars>>

SetFanIn ==
    /\ switch = "up"
    /\ step = "connections"
    /\ idx \notin Connections
    /\ fan_in' = idx
    /\ step' = "rules"
    /\ UNCHANGED <<communicators, hostVars, acked, rootVars, tcpVars,
                   sessionVars, controller, switch, config, idx, conns, count,
                   receiverVars, psnVars>>

ParseRule ==
    /\ switch = "up"
    /\ step = "rules"
    /\ count < RulesNeeded(world_size)
    /\ count < MAX_RULES
    /\ count' = count + 1
    /\ UNCHANGED <<communicators, hostVars, acked, rootVars, tcpVars,
                   sessionVars, controller, switch, step, config, idx, conns,
                   fan_in, receiverVars, psnVars>>

ConfigApplied ==
    /\ switch = "up"
    /\ step = "rules"
    /\ count \in {RulesNeeded(world_size), MAX_RULES}
    /\ step' = "receive"
    /\ UNCHANGED <<communicators, hostVars, acked, rootVars, tcpVars,
                   sessionVars, controller, switch, config, idx, conns, fan_in,
                   count, receiverVars, psnVars>>

------------------------------------------------------------------------------
(* The switch: background_receiving *)

StartReceiving ==
    /\ switch = "up"
    /\ receiving = "wait"
    /\ fan_in # 0
    /\ receiving' = "open"
    /\ UNCHANGED <<communicators, hostVars, acked, rootVars, tcpVars,
                   sessionVars, controller, switch, configVars, i, threads,
                   psnVars>>

(* The handle stays in a local variable. *)
OpenHandle_Local ==
    /\ switch = "up"
    /\ receiving = "open"
    /\ i < fan_in
    /\ conns' = [conns EXCEPT ![i].ok = TRUE]
    /\ i' = i + 1
    /\ UNCHANGED <<communicators, hostVars, acked, rootVars, tcpVars,
                   sessionVars, controller, switch, step, config, idx, fan_in,
                   count, receiving, threads, psnVars>>

OpenHandle ==
    /\ switch = "up"
    /\ receiving = "open"
    /\ i < fan_in
    /\ conns' = [conns EXCEPT ![i].handle = TRUE, ![i].ok = TRUE]
    /\ i' = i + 1
    /\ UNCHANGED <<communicators, hostVars, acked, rootVars, tcpVars,
                   sessionVars, controller, switch, step, config, idx, fan_in,
                   count, receiving, threads, psnVars>>

CreateThreads ==
    /\ switch = "up"
    /\ receiving = "open"
    /\ i >= fan_in
    /\ receiving' = "create"
    /\ i' = 0
    /\ UNCHANGED <<communicators, hostVars, acked, rootVars, tcpVars,
                   sessionVars, controller, switch, configVars, threads,
                   psnVars>>

CreateThread ==
    /\ switch = "up"
    /\ receiving = "create"
    /\ i < fan_in
    /\ threads' = IF conns[i].ok THEN threads \union {i} ELSE threads
    /\ i' = i + 1
    /\ UNCHANGED <<communicators, hostVars, acked, rootVars, tcpVars,
                   sessionVars, controller, switch, configVars, receiving,
                   psnVars>>

JoinThreads ==
    /\ switch = "up"
    /\ receiving = "create"
    /\ i >= fan_in
    /\ receiving' = "join"
    /\ i' = 0
    /\ UNCHANGED <<communicators, hostVars, acked, rootVars, tcpVars,
                   sessionVars, controller, switch, configVars, threads,
                   psnVars>>

(* The first thread that is joined never ends.  With none to join the       *)
(* program does.                                                            *)
JoinThread ==
    /\ switch = "up"
    /\ receiving = "join"
    /\ IF i < fan_in
       THEN IF conns[i].ok
            THEN receiving' = "joining" /\ UNCHANGED <<i, switch>>
            ELSE i' = i + 1 /\ UNCHANGED <<receiving, switch>>
       ELSE switch' = "stopped" /\ UNCHANGED <<receiving, i>>
    /\ UNCHANGED <<communicators, hostVars, acked, rootVars, tcpVars,
                   sessionVars, controller, configVars, threads, psnVars>>

------------------------------------------------------------------------------
(* The switch: packets *)

(* The AllReduce rule of connection c is number c + 1 of the file (Rules), *)
(* and lookup_rule finds it as soon as it is in the table.                  *)
HasRule(c) == count > c

(* A thread has a packet of its host with this PSN, sent on whatever QP,    *)
(* and finds a rule for it; without a rule a packet leaves no trace.        *)
Receives(c, psn) ==
    /\ switch = "up"
    /\ c \in threads
    /\ \E k \in Communicators : psn < posted[c][k]
    /\ HasRule(c)

(* An answer leaves by the connection's handle, addressed to its QP; the    *)
(* NIC of that QP takes it for as many packets as it has sent.              *)
Answered(c, epsn) ==
    LET qp == conns[c].qp
    IN  IF qp = NoQP THEN acked
        ELSE [acked EXCEPT ![qp[1]][qp[2]] =
                 IF epsn > @ /\ epsn <= posted[qp[1]][qp[2]] THEN epsn ELSE @]

(* send_packet without a handle: the process dies. *)
Crash(c, psn) ==
    /\ Receives(c, psn)
    /\ ~ conns[c].handle
    /\ switch' = "stopped"
    /\ UNCHANGED <<communicators, hostVars, acked, rootVars, tcpVars,
                   sessionVars, controller, configVars, receiverVars, psnVars>>

(* A control message is counted and acknowledged whenever it comes; no PSN  *)
(* is compared.                                                             *)
HandleControl(c, k) ==
    /\ Receives(c, 0)
    /\ posted[c][k] > 0
    /\ <<c, k>> \in handled => repeats < MaxRepeats
    /\ conns[c].handle
    /\ agg_epsn' = [agg_epsn EXCEPT ![c] = @ + 1]
    /\ acked' = Answered(c, 1) \/ UNCHANGED acked
    /\ handled' = handled \union {<<c, k>>}
    /\ repeats' = IF <<c, k>> \in handled THEN repeats + 1 ELSE repeats
    /\ UNCHANGED <<communicators, hostVars, rootVars, tcpVars, sessionVars,
                   controller, switch, configVars, receiverVars, send_psn,
                   arrival>>

(* Not the expected data packet: an ACK or a NAK. *)
HandleOther(c) ==
    /\ Receives(c, 1)
    /\ conns[c].handle
    /\ agg_epsn[c] # 1
    /\ acked' = Answered(c, agg_epsn[c])
    /\ UNCHANGED <<communicators, hostVars, rootVars, tcpVars, sessionVars,
                   controller, switch, configVars, receiverVars, psnVars>>

(* The last packet of the slot sends the result to every connection: each   *)
(* host takes it on the QP it is sent to if it has the expected PSN, 0.     *)
(* (The handles are opened before the first thread runs and cleared at once.) *)
HandleData(c) ==
    /\ Receives(c, 1)
    /\ conns[c].handle
    /\ agg_epsn[c] = 1
    /\ agg_epsn' = [agg_epsn EXCEPT ![c] = 2]
    /\ acked' = Answered(c, 2) \/ UNCHANGED acked
    /\ IF Cardinality(arrival \union {c}) = fan_in
       THEN /\ send_psn' = [d \in Connections |-> send_psn[d] + 1]
            /\ got' = [r \in Ranks |->
                          IF /\ r \in Connections
                             /\ conns[r].qp # NoQP
                             /\ conns[r].qp[1] = r
                             /\ send_psn[r] = 0
                          THEN conns[r].qp[2] ELSE got[r]]
            /\ arrival' = {}
       ELSE /\ arrival' = arrival \union {c}
            /\ UNCHANGED <<send_psn, got>>
    /\ UNCHANGED <<communicators, pc, comm, topology, posted, rootVars, tcpVars,
                   sessionVars, controller, switch, configVars, receiverVars,
                   handled, repeats>>

------------------------------------------------------------------------------
Group == \/ Listen \/ Accept \/ RegisterGroup \/ RegisterGroupFails
         \/ ReceiveGroupId
         \/ \E r \in Workers : ConnectMaster(r) \/ ConnectMasterFails(r)
Communicator == \/ CollectQP \/ RequestRoute \/ ForwardTopology
                \/ \E r \in Ranks : CreateQP(r)
                \/ \E r \in Workers : ReceiveTopology(r)
Caller == \E r \in Ranks : PostControl(r) \/ PostData(r) \/ Return(r)
Controller == \/ StartController \/ AcceptSwitch
              \/ SessionGroup \/ SessionRoute \/ SessionReply
ConfigThread == \/ ConnectController \/ ReceiveConfig \/ ClearRules
                \/ switch_context_reset_psn_states
                \/ ParseConnection \/ SetFanIn \/ ParseRule \/ ConfigApplied
Receiver == \/ StartReceiving \/ OpenHandle \/ CreateThreads \/ CreateThread
            \/ JoinThreads \/ JoinThread
Handler(c) == \/ \E k \in Communicators : HandleControl(c, k)
              \/ HandleData(c) \/ HandleOther(c)
              \/ \E psn \in {0, 1} : Crash(c, psn)

Next == \/ Group \/ Communicator \/ Caller \/ Controller
        \/ ConfigThread \/ Receiver
        \/ \E c \in Connections : Handler(c)

Spec == Init /\ [][Next]_vars

(* Every process and thread runs on; a packet that is not acknowledged is   *)
(* sent again until it is handled.                                          *)
Fairness == /\ WF_vars(Group) /\ WF_vars(Controller)
            /\ \A r \in Ranks : WF_vars(CreateQP(r)) /\ WF_vars(PostControl(r))
                                /\ WF_vars(PostData(r)) /\ WF_vars(Return(r))
            /\ WF_vars(CollectQP \/ RequestRoute \/ ForwardTopology)
            /\ \A r \in Workers : WF_vars(ReceiveTopology(r))
            /\ WF_vars(ConfigThread) /\ WF_vars(Receiver)
            /\ \A c \in Connections :
                   /\ \A k \in Communicators :
                          WF_vars(acked[c][k] = 0 /\ HandleControl(c, k))
                   /\ WF_vars(HandleData(c)) /\ WF_vars(HandleOther(c))

FairSpec == Spec /\ Fairness

------------------------------------------------------------------------------
TypeOK ==
    /\ communicators \in Communicators
    /\ pc \in [Ranks -> {"start", "accept", "register", "create", "collect",
                         "topology", "call", "control", "data", "failed"}]
    /\ comm \in [Ranks -> 0 .. communicators]
    /\ topology \in [Ranks -> Seq(QPs)]
    /\ posted \in [Ranks -> [Communicators -> 0 .. 2]]
    /\ acked \in [Ranks -> [Communicators -> 0 .. 2]]
    /\ got \in [Ranks -> 0 .. communicators]
    /\ backlog \in Seq(Workers)
    /\ group_fd_list \in [Ranks -> Workers \union {None}]
    /\ group_qp_num_list \in Seq(QPs)
    /\ controller \in {"off", "switches", "groups"}
    /\ switch \in {"off", "up", "refused", "stopped"}
    /\ conns \in [Connections -> [qp : QPs \union {NoQP}, ok : BOOLEAN,
                                  handle : BOOLEAN]]
    /\ fan_in \in 0 .. connections_cnt
    /\ count \in 0 .. MAX_RULES
    /\ threads \subseteq Connections
    /\ agg_epsn \in [Connections -> Nat]
    /\ arrival \subseteq Connections
    /\ handled \subseteq QPs
    /\ repeats \in 0 .. MaxRepeats

(* In whatever order the workers reach rank 0 (accept, api.c:113-126), each *)
(* connection of the switch is given the QP of the rank behind it, and the  *)
(* file a rank receives names its own QP at its own place, of the           *)
(* communicator it is creating.                                             *)
Paired ==
    /\ \A c \in Connections : conns[c].qp # NoQP => conns[c].qp[1] = c
    /\ \A r \in Ranks :
           pc[r] \in {"call", "control", "data"} =>
               topology[r] = [n \in 1 .. world_size |-> <<n - 1, comm[r]>>]

PendingConfigs == {to_switch[n] : n \in DOMAIN to_switch}
                      \union IF step = "receive" THEN {} ELSE {config}

(* Nobody is in a call when the switch gets the configuration of a later    *)
(* communicator: rank 0 collects the QP numbers of all ranks before it asks *)
(* for a route, and a rank sends its number only after its last call has    *)
(* returned.  Nothing else protects the calls from the reset                *)
(* (controller_comm.cpp:193-200).                                           *)
NoConfigDuringCall ==
    \A pending \in PendingConfigs : \A r \in Ranks :
        pc[r] \in {"control", "data"} => comm[r] >= pending[1][2]

(* The receiver threads are started from conns and fan_in, read with no     *)
(* lock while the configuration is being applied (switch_main.c:532-585):   *)
(* yet every connection the switch has room for gets its thread.            *)
EveryConnectionReceived == receiving = "joining" => threads = Connections

(* A group with one communicator never brings the switch down. *)
SurvivesOneCommunicator == communicators = 1 => switch # "stopped"

(* Nor does one with several: a group can create several communicators,     *)
(* each with its own QPs and its own routes (src/readme.md:42).             *)
SurvivesAllCommunicators == switch # "stopped"

(* Once every connection attempt of the start has found somebody listening  *)
(* and as long as no control message is handled twice, all hosts the switch *)
(* has a connection for return from their first call.  One that is handled  *)
(* again, its ACK lost, is counted as if it were the data packet and costs  *)
(* the call that packet (switch_main.c:447).                                *)
Refused == switch = "refused" \/ \E r \in Ranks : pc[r] = "failed"
FirstCallReturns ==
    <>(Refused \/ repeats > 0 \/ \A r \in Connections : got[r] >= 1)
==============================================================================
