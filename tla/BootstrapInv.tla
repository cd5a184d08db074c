----------------------------- MODULE BootstrapInv -----------------------------
(***************************************************************************)
(* The inductive invariant behind Paired and NoConfigDuringCall of          *)
(* Bootstrap, for groups of any size and any number of communicators.       *)
(*                                                                          *)
(* The argument: what a TCP connection carries follows from where its two   *)
(* ends are.  A worker is at most one communicator behind rank 0 or ahead   *)
(* of it, since each waits for the other once per communicator: rank 0 for  *)
(* the worker's QP number, the worker for the topology file.  Rank 0 asks   *)
(* for a route when it has all numbers, hence no configuration is of a      *)
(* communicator that some rank has not yet begun.                           *)
(***************************************************************************)
EXTENDS Bootstrap

(* The QP of every rank, in rank order, of communicator k. *)
Full(k) == [n \in 1 .. world_size |-> <<n - 1, k>>]

(* How far rank 0 has come with communicator k: it has the number of rank   *)
(* r's QP, it has asked for the route, it has sent the topology on.         *)
Collected(r, k) ==
    \/ comm[0] > k
    \/ comm[0] = k /\ (pc[0] = "collect" => Len(group_qp_num_list) > r)
Asked(k) == comm[0] > k \/ (comm[0] = k /\ pc[0] # "collect")
Forwarded(k) ==
    \/ comm[0] > k
    \/ comm[0] = k /\ pc[0] \notin {"collect", "topology"}

InBacklog(r) == \E n \in 1 .. Len(backlog) : backlog[n] = r

(* Rank 0: sockets are stored by rank, and the list begins with the QPs of  *)
(* ranks 0, 1, 2, ...                                                       *)
RootInv ==
    /\ \A r \in Ranks : group_fd_list[r] \in {None, r}
    /\ pc[0] \notin {"start", "accept", "failed"} => AllAccepted
    /\ pc[0] \in {"start", "accept", "register", "failed"} => comm[0] = 0
    /\ pc[0] \in {"collect", "topology", "call", "control", "data"}
          => comm[0] > 0
    /\ pc[0] = "collect" =>
          /\ Len(group_qp_num_list) \in 1 .. world_size
          /\ \A n \in 1 .. Len(group_qp_num_list) :
                group_qp_num_list[n] = <<n - 1, comm[0]>>
    /\ pc[0] \in {"call", "control", "data"} => topology[0] = Full(comm[0])
    /\ \A m, n \in 1 .. Len(backlog) : backlog[m] = backlog[n] => m = n

(* On the connection to rank 0: the worker's rank until it was accepted,    *)
(* and the number of its QP until it was collected.                         *)
Hello(r) == IF InBacklog(r) THEN <<[rank |-> r]>> ELSE << >>
Number(r) == IF Collected(r, comm[r]) THEN << >>
                                      ELSE <<[qp |-> <<r, comm[r]>>]>>

(* A worker and its two connections. *)
WorkerInv(r) ==
    /\ pc[r] \notin {"accept", "register", "collect"}
    /\ pc[r] \in {"start", "failed"}
          => comm[r] = 0 /\ ~ InBacklog(r) /\ group_fd_list[r] = None
    /\ InBacklog(r) => group_fd_list[r] = None
    /\ to_root[r] = Hello(r) \o Number(r)
    /\ to_rank[r] = IF pc[r] = "topology" /\ Forwarded(comm[r])
                    THEN <<Full(comm[r])>> ELSE << >>
    /\ \A k \in Communicators : Collected(r, k) => k <= comm[r]
    /\ pc[r] # "topology" => Forwarded(comm[r])
    /\ pc[r] = "topology" => comm[r] > 0 /\ Forwarded(comm[r] - 1)
    /\ pc[r] \in {"call", "control", "data"} =>
          comm[r] > 0 /\ topology[r] = Full(comm[r])

(* One connection for each rank. *)
LinksInv == DOMAIN to_root = Ranks /\ DOMAIN to_rank = Ranks

(* The session holds one request at a time, or its answer. *)
SessionInv ==
    \/ /\ pc[0] \notin {"register", "topology"}
       /\ to_controller = << >> /\ reply = << >> /\ from_controller = << >>
    \/ /\ pc[0] = "register" /\ reply = << >>
       /\ \/ to_controller = <<[type |-> "G"]>> /\ from_controller = << >>
          \/ to_controller = << >> /\ from_controller = << << >> >>
    \/ /\ pc[0] = "topology"
       /\ \/ /\ to_controller = <<[type |-> "C", qps |-> Full(comm[0])]>>
             /\ reply = << >> /\ from_controller = << >>
          \/ /\ to_controller = << >> /\ from_controller = << >>
             /\ reply = Full(comm[0])
          \/ /\ to_controller = << >> /\ reply = << >>
             /\ from_controller = <<Full(comm[0])>>

(* What the switch is sent, applies and has applied. *)
Route(qps) == \E k \in 1 .. comm[0] : qps = Full(k) /\ Asked(k)

SwitchInv ==
    /\ step \in {"receive", "rules cleared", "reset", "connections", "rules"}
    /\ to_switch \in Seq(Seq(QPs))
    /\ \A n \in 1 .. Len(to_switch) : Route(to_switch[n])
    /\ step # "receive" => Route(config)
    /\ \A c \in Connections : conns[c].qp # NoQP =>
          \E k \in 1 .. comm[0] : conns[c].qp = <<c, k>>
    /\ idx \in 0 .. connections_cnt
    /\ i \in Nat

IInv ==
    /\ TypeOK
    /\ RootInv
    /\ \A r \in Workers : WorkerInv(r)
    /\ LinksInv
    /\ SessionInv
    /\ SwitchInv

------------------------------------------------------------------------------
(* The invariant behind EveryConnectionReceived and SurvivesOneCommunicator. *)
(* The receiver reads fan_in and conns with no lock, but until all threads   *)
(* are there the switch gets one configuration only: a call returns on a     *)
(* result, a result takes a packet of every thread, and nobody begins a      *)
(* second communicator before its first call has returned.                   *)

(* The switch has had at most one configuration. *)
Once == threads # Connections \/ communicators = 1

(* It is not sent yet. *)
Unsent ==
    \/ comm[0] = 0
    \/ comm[0] = 1 /\ (pc[0] = "collect" \/ to_controller # << >>)

CallInv ==
    \A r \in Ranks :
        comm[r] > 1 \/ (comm[r] = 1 /\ pc[r] = "create") => got[r] >= 1

DataInv ==
    /\ arrival \subseteq threads
    /\ \A r \in Ranks : got[r] >= 1 => threads = Connections

(* How far the only configuration is: fan_in is written last, when all      *)
(* connections are there.                                                   *)
ConfigInv ==
    Once =>
        \/ Unsent /\ to_switch = << >> /\ step = "receive" /\ fan_in = 0
        \/ ~ Unsent /\ Len(to_switch) = 1 /\ step = "receive" /\ fan_in = 0
        \/ /\ ~ Unsent /\ to_switch = << >>
           /\ \/ step \in {"rules cleared", "reset"} /\ fan_in = 0
              \/ /\ step = "connections" /\ fan_in = 0
                 /\ \A c \in Connections : c < idx => conns[c].ok
              \/ /\ step \in {"rules", "receive"} /\ fan_in = connections_cnt
                 /\ \A c \in Connections : conns[c].ok

AllOpen == \A c \in Connections : conns[c].handle

(* How far the receiver is, and what it has made so far. *)
ReceiverInv ==
    \/ receiving = "wait" /\ i = 0 /\ threads = {}
    \/ /\ receiving = "open" /\ i <= connections_cnt /\ threads = {}
       /\ fan_in = connections_cnt
       /\ \A c \in Connections : c < i => conns[c].handle
    \/ /\ receiving = "create" /\ i <= connections_cnt
       /\ threads = {c \in Connections : c < i}
       /\ Once => fan_in = connections_cnt /\ AllOpen
    \/ /\ receiving \in {"join", "joining"} /\ threads = Connections
       /\ Once => fan_in = connections_cnt /\ AllOpen /\ i = 0

StartInv ==
    /\ CallInv
    /\ DataInv
    /\ ConfigInv
    /\ ReceiverInv
    /\ fan_in \in {0, connections_cnt}
    /\ communicators = 1 => switch # "stopped"
==============================================================================
