------------------------------ MODULE SwitchOps ------------------------------
(***************************************************************************)
(* A program of collective operations on one communicator: the calls of     *)
(* inccl_reduce_sendrecv, inccl_allreduce_sendrecv and                      *)
(* inccl_broadcast_sendrecv (src/api.c) one after the other, and the switch *)
(* threads (termination_switch/src/switch_main.c) that serve them.          *)
(*                                                                          *)
(* What the operations share is modelled here: the operation metadata       *)
(* operation_type and root_rank, written by any thread's control message    *)
(* and read with no lock by every other thread; the PSN spaces of the       *)
(* connections, which the operations use up at different rates; the slots;  *)
(* and each host's completion queue.                                        *)
(*                                                                          *)
(* Ranks, connections and threads are 0..fan_in-1 alike.  A message is one  *)
(* packet.  Links are as in SwitchAllReduce: the uplink loses, duplicates   *)
(* and reorders data packets, ACKs may be lost, the downlink is FIFO.  A    *)
(* control message is handled once.                                         *)
(***************************************************************************)
EXTENDS Integers, Sequences, FiniteSetsExt

CONSTANTS fan_in,   \* number of connections
          N,        \* SWITCH_ARRAY_LENGTH
          Window,   \* window_size / MESSAGE_SIZE
          Programs  \* programs: each a sequence of calls every host makes

Hosts == 0 .. fan_in - 1
Slots == 0 .. N - 1

(* root is the rank operand of Reduce and Broadcast, -1 for AllReduce; *)
(* len is message_num, the number of messages the vector is cut into.  *)
Operations == [prim : {"allreduce"}, root : {-1}, len : Nat \ {0}]
              \union [prim : {"reduce", "broadcast"}, root : Hosts,
                      len : Nat \ {0}]

ASSUME SizesAssumption == /\ fan_in \in Nat \ {0}
                          /\ N \in Nat \ {0}
                          /\ Window \in Nat \ {0}
ASSUME ProgramsAssumption == \A p \in Programs : p \in Seq(Operations)

VARIABLES
  program,    \* the one of Programs the hosts run
  (* hosts *)
  op,         \* op[h]: which call of the program h is in
  phase,      \* "start": not in it yet; "ctl": in send_control_message; "run"
  send_num,   \* data messages of this call posted
  receive_num, \* results this call has received
  send_complete, \* send completions this call has counted
  got,        \* all that h received: which chunk h took it for, and what it is
  (* each host's QP and completion queue *)
  sent,       \* sent[h]: the messages posted; the psn of sent[h][i] is i - 1
  acked,      \* PSNs below it are acknowledged: their completions are queued
  polled,     \* send completions taken off the queue
  posted,     \* receive requests posted
  arrived,    \* results that matched a receive request
  dropped,    \* a result found no receive request posted
  (* switch *)
  agg_epsn, operation_type, root_rank,
  degree, arrival, agg_buffer, bcast_buffer,
  (* switch: the handler in progress of each thread *)
  pc,         \* where it is
  cur,        \* psn of its packet
  prim,       \* its copy of operation_type
  param,      \* its copy of root_rank
  out_conns,  \* the connections of the rule it found
  todo,       \* the connections it has still to send to
  (* links *)
  ctl,        \* how many of h's control messages the switch has handled
  out         \* out[h]: what was sent to h; send_psn[h] is its length

callVars == <<program, op, phase, send_num, receive_num, send_complete,
              got>>
qpVars == <<sent, polled, posted>>
nicVars == <<arrived, dropped>>
metaVars == <<operation_type, root_rank>>
slotVars == <<degree, arrival, agg_buffer>>
handlerVars == <<cur, prim, param, out_conns>>
switchVars == <<agg_epsn, metaVars, slotVars, bcast_buffer, pc, handlerVars,
                todo, ctl, out>>
vars == <<callVars, qpVars, acked, nicVars, switchVars>>

------------------------------------------------------------------------------
Calls == 1 .. Len(program)
Idx(psn) == psn % N

(* Data message k of call o is named <<o, k>>; a sum is what was added. *)
Chunks == UNION {{o} \X (1 .. program[o].len) : o \in Calls}
NoData == [h \in Hosts |-> << >>]
From(h, chunk) == [NoData EXCEPT ![h] = <<chunk>>]

Control(o) == [kind |-> "ctl", call |-> o]
Data(o, k) == [kind |-> "data", call |-> o, chunk |-> <<o, k>>]

Init ==
    /\ program \in Programs
    /\ op = [h \in Hosts |-> 1]
    /\ phase = [h \in Hosts |-> "start"]
    /\ send_num = [h \in Hosts |-> 0]
    /\ receive_num = [h \in Hosts |-> 0]
    /\ send_complete = [h \in Hosts |-> 0]
    /\ got = [h \in Hosts |-> << >>]
    /\ sent = [h \in Hosts |-> << >>]
    /\ acked = [h \in Hosts |-> 0]
    /\ polled = [h \in Hosts |-> 0]
    /\ posted = [h \in Hosts |-> 0]
    /\ arrived = [h \in Hosts |-> 0]
    /\ dropped = [h \in Hosts |-> FALSE]
    /\ agg_epsn = [h \in Hosts |-> 0]
    /\ operation_type = "allreduce"
    /\ root_rank = -1
    /\ degree = [i \in Slots |-> 0]
    /\ arrival = [i \in Slots |-> {}]
    /\ agg_buffer = [i \in Slots |-> NoData]
    /\ bcast_buffer = [i \in Slots |-> NoData]
    /\ pc = [h \in Hosts |-> "idle"]
    /\ cur = [h \in Hosts |-> 0]
    /\ prim = [h \in Hosts |-> "allreduce"]
    /\ param = [h \in Hosts |-> -1]
    /\ out_conns = [h \in Hosts |-> {}]
    /\ todo = [h \in Hosts |-> {}]
    /\ ctl = [h \in Hosts |-> 0]
    /\ out = [h \in Hosts |-> << >>]

------------------------------------------------------------------------------
(* The hosts *)

InCall(h) == op[h] \in Calls
Call(h) == program[op[h]]
message_num(h) == Call(h).len
IsRoot(h) == Call(h).root = h

(* Who is sent results, who sends messages, and what paces the sender: the  *)
(* results it receives, or the completions of what it sent.                 *)
Receives(h) == CASE Call(h).prim = "allreduce" -> TRUE
                 [] Call(h).prim = "reduce"    -> IsRoot(h)
                 [] Call(h).prim = "broadcast" -> ~ IsRoot(h)
Sends(h) == Call(h).prim # "broadcast" \/ IsRoot(h)
PacedByResults(h) == Receives(h) /\ Sends(h)

(* Every sender begins with its control message; a Broadcast receiver posts *)
(* its receive requests and sends nothing.                                  *)
Begin(h) ==
    /\ InCall(h) /\ phase[h] = "start"
    /\ IF Sends(h)
       THEN /\ sent' = [sent EXCEPT ![h] = Append(@, Control(op[h]))]
            /\ phase' = [phase EXCEPT ![h] = "ctl"]
            /\ UNCHANGED posted
       ELSE /\ posted' = [posted EXCEPT ![h] = @ + message_num(h)]
            /\ phase' = [phase EXCEPT ![h] = "run"]
            /\ UNCHANGED sent
    /\ UNCHANGED <<program, op, send_num, receive_num, send_complete, got,
                   acked, polled, nicVars, switchVars>>

(* The receive requests a caller that sends and receives posts before data. *)
ReceivesPosted_Window(h) == IF Receives(h) THEN Min({Window, message_num(h)})
                                          ELSE 0
ReceivesPosted(h) == IF Receives(h) THEN message_num(h) ELSE 0

(* send_control_message returns on whatever send completion it polls; the   *)
(* receive requests are posted, then the initial window of data messages.   *)
Start(h) ==
    LET window == Min({Window, message_num(h)})
    IN  /\ phase[h] = "ctl"
        /\ polled[h] < acked[h]
        /\ polled' = [polled EXCEPT ![h] = @ + 1]
        /\ posted' = [posted EXCEPT ![h] = @ + ReceivesPosted(h)]
        /\ sent' = [sent EXCEPT ![h] =
                       @ \o [k \in 1 .. window |-> Data(op[h], k)]]
        /\ send_num' = [send_num EXCEPT ![h] = window]
        /\ phase' = [phase EXCEPT ![h] = "run"]
        /\ UNCHANGED <<program, op, receive_num, send_complete, got, acked,
                       nicVars, switchVars>>

(* One more data message slides into the window, if one is left. *)
PostNext_OffByOne(h) ==
    IF send_num[h] <= message_num(h)
    THEN /\ sent' = [sent EXCEPT ![h] =
                        Append(@, Data(op[h], send_num[h] + 1))]
         /\ send_num' = [send_num EXCEPT ![h] = @ + 1]
    ELSE UNCHANGED <<sent, send_num>>

PostNext(h) ==
    IF send_num[h] < message_num(h)
    THEN /\ sent' = [sent EXCEPT ![h] =
                        Append(@, Data(op[h], send_num[h] + 1))]
         /\ send_num' = [send_num EXCEPT ![h] = @ + 1]
    ELSE UNCHANGED <<sent, send_num>>

(* A receive completion: the result is kept as the call's next chunk. *)
PollRecv(h) ==
    /\ InCall(h) /\ phase[h] = "run" /\ Receives(h)
    /\ Len(got[h]) < arrived[h]
    /\ receive_num' = [receive_num EXCEPT ![h] = @ + 1]
    /\ got' = [got EXCEPT ![h] =
                  Append(@, [chunk |-> <<op[h], receive_num[h] + 1>>,
                             sum |-> out[h][Len(@) + 1]])]
    /\ IF PacedByResults(h) THEN PostNext(h) ELSE UNCHANGED <<sent, send_num>>
    /\ UNCHANGED <<program, op, phase, send_complete, acked, polled, posted,
                   nicVars, switchVars>>

(* A send completion counts only for a caller that waits for no result. *)
PollSend(h) ==
    /\ InCall(h) /\ phase[h] = "run"
    /\ polled[h] < acked[h]
    /\ polled' = [polled EXCEPT ![h] = @ + 1]
    /\ IF Receives(h)
       THEN UNCHANGED <<sent, send_num, send_complete>>
       ELSE /\ send_complete' = [send_complete EXCEPT ![h] = @ + 1]
            /\ PostNext(h)
    /\ UNCHANGED <<program, op, phase, receive_num, got, acked, posted,
                   nicVars, switchVars>>

(* The condition that ends the polling loop of the call. *)
Complete_OneEarly(h) ==
    IF Receives(h) THEN receive_num[h] + 1 >= message_num(h)
                   ELSE send_complete[h] >= send_num[h]
Complete(h) ==
    IF Receives(h) THEN receive_num[h] = message_num(h)
    ELSE CASE Call(h).prim = "reduce"    -> send_complete[h] >= send_num[h]
           [] Call(h).prim = "broadcast" -> send_complete[h] >= message_num(h)

Return(h) ==
    /\ InCall(h) /\ phase[h] = "run" /\ Complete(h)
    /\ op' = [op EXCEPT ![h] = @ + 1]
    /\ phase' = [phase EXCEPT ![h] = "start"]
    /\ send_num' = [send_num EXCEPT ![h] = 0]
    /\ receive_num' = [receive_num EXCEPT ![h] = 0]
    /\ send_complete' = [send_complete EXCEPT ![h] = 0]
    /\ UNCHANGED <<program, got, qpVars, acked, nicVars, switchVars>>

(* The NIC takes the next result off the downlink.  With no receive request *)
(* posted it is refused; the switch ignores the NAK, and every later result *)
(* is out of sequence for the NIC.                                          *)
Arrive(h) ==
    /\ arrived[h] < Len(out[h]) /\ ~ dropped[h]
    /\ IF arrived[h] < posted[h]
       THEN arrived' = [arrived EXCEPT ![h] = @ + 1] /\ UNCHANGED dropped
       ELSE dropped' = [dropped EXCEPT ![h] = TRUE] /\ UNCHANGED arrived
    /\ UNCHANGED <<callVars, qpVars, acked, switchVars>>

------------------------------------------------------------------------------
(* The switch: packet_handler up to the aggregation *)

Message(h, psn) == sent[h][psn + 1]
Psns(h) == 0 .. Len(sent[h]) - 1

(* An ACK of everything below n. *)
Acked(h, n) == [acked EXCEPT ![h] = Max({@, n})]

(* The rules the controller generates; none for a Broadcast's receivers. *)
HasRule_RootOnly(h, p, root) == p = "allreduce" \/ root = h
HasRule(h, p, root) == \/ p = "allreduce"
                       \/ p = "reduce" /\ root \in Hosts
                       \/ p = "broadcast" /\ root = h
OutConns(p, root) == CASE p = "allreduce" -> Hosts
                       [] p = "reduce"    -> {root}
                       [] p = "broadcast" -> Hosts \ {root}

(* The PSN of the first control message of h not handled yet. *)
ControlPsns(h) == {psn \in Psns(h) : Message(h, psn).kind = "ctl"}
NextControl(h) ==
    CHOOSE psn \in ControlPsns(h) :
        Cardinality({p \in ControlPsns(h) : p < psn}) = ctl[h]

(* A control message sets the metadata for all the connections, one after   *)
(* the other: the mutex keeps other control messages out, but no reader.    *)
HandleControl(h) ==
    /\ pc[h] = "idle"
    /\ ctl[h] < Cardinality(ControlPsns(h))
    /\ \A g \in Hosts : pc[g] # "meta"
    /\ LET psn == NextControl(h)
           call == program[Message(h, psn).call]
       IN  /\ cur' = [cur EXCEPT ![h] = psn]
           /\ prim' = [prim EXCEPT ![h] = call.prim]
           /\ param' = [param EXCEPT ![h] = call.root]
           /\ operation_type' = call.prim
    /\ pc' = [pc EXCEPT ![h] = "meta"]
    /\ UNCHANGED <<callVars, qpVars, acked, nicVars, agg_epsn, root_rank,
                   slotVars, bcast_buffer, out_conns, todo, ctl, out>>

(* Now root_rank, and the mutex is released. *)
SetRoot(h) ==
    /\ pc[h] = "meta"
    /\ root_rank' = param[h]
    /\ pc' = [pc EXCEPT ![h] = "control"]
    /\ UNCHANGED <<callVars, qpVars, acked, nicVars, agg_epsn, operation_type,
                   slotVars, bcast_buffer, handlerVars, todo, ctl, out>>

(* The rule is looked up under the metadata of the message itself.  Its PSN *)
(* is not compared with the expected one.                                   *)
AckControl(h) ==
    /\ pc[h] = "control"
    /\ IF HasRule(h, prim[h], param[h])
       THEN /\ agg_epsn' = [agg_epsn EXCEPT ![h] = @ + 1]
            /\ acked' = Acked(h, cur[h] + 1)
            /\ ctl' = [ctl EXCEPT ![h] = @ + 1]
       ELSE UNCHANGED <<agg_epsn, acked, ctl>>
    /\ pc' = [pc EXCEPT ![h] = "idle"]
    /\ UNCHANGED <<callVars, qpVars, nicVars, metaVars, slotVars, bcast_buffer,
                   handlerVars, todo, out>>

(* A data packet arrives; operation_type is read, with no lock. *)
ReceiveData(h, psn) ==
    /\ pc[h] = "idle"
    /\ psn \in Psns(h)
    /\ Message(h, psn).kind = "data"
    /\ cur' = [cur EXCEPT ![h] = psn]
    /\ prim' = [prim EXCEPT ![h] = operation_type]
    /\ pc' = [pc EXCEPT ![h] = "lookup"]
    /\ UNCHANGED <<callVars, qpVars, acked, nicVars, agg_epsn, metaVars,
                   slotVars, bcast_buffer, param, out_conns, todo, ctl, out>>

(* root_rank is read, and the rule looked up: without one, no answer. *)
DropData(h) ==
    /\ pc[h] = "lookup"
    /\ ~ HasRule(h, prim[h], root_rank)
    /\ pc' = [pc EXCEPT ![h] = "idle"]
    /\ UNCHANGED <<callVars, qpVars, acked, nicVars, agg_epsn, metaVars,
                   slotVars, bcast_buffer, handlerVars, todo, ctl, out>>

(* Not the expected packet: an ACK of the last one expected, or a NAK.  *)
(* Either acknowledges all below the expected PSN, or gets lost.        *)
AnswerData(h) ==
    /\ pc[h] = "lookup"
    /\ HasRule(h, prim[h], root_rank)
    /\ cur[h] # agg_epsn[h]
    /\ acked' = Acked(h, agg_epsn[h]) \/ UNCHANGED acked
    /\ pc' = [pc EXCEPT ![h] = "idle"]
    /\ UNCHANGED <<callVars, qpVars, nicVars, agg_epsn, metaVars, slotVars,
                   bcast_buffer, handlerVars, todo, ctl, out>>

(* The expected packet: acknowledged first, then handed to aggregate(). *)
AcceptData_KeepsEpsn(h) ==
    /\ pc[h] = "lookup"
    /\ HasRule(h, prim[h], root_rank)
    /\ cur[h] = agg_epsn[h]
    /\ acked' = Acked(h, agg_epsn[h] + 1) \/ UNCHANGED acked
    /\ out_conns' = [out_conns EXCEPT ![h] = OutConns(prim[h], root_rank)]
    /\ pc' = [pc EXCEPT ![h] = "accepted"]
    /\ UNCHANGED <<callVars, qpVars, nicVars, agg_epsn, metaVars, slotVars,
                   bcast_buffer, cur, prim, param, todo, ctl, out>>

AcceptData(h) ==
    /\ pc[h] = "lookup"
    /\ HasRule(h, prim[h], root_rank)
    /\ cur[h] = agg_epsn[h]
    /\ agg_epsn' = [agg_epsn EXCEPT ![h] = @ + 1]
    /\ acked' = Acked(h, agg_epsn[h] + 1) \/ UNCHANGED acked
    /\ out_conns' = [out_conns EXCEPT ![h] = OutConns(prim[h], root_rank)]
    /\ pc' = [pc EXCEPT ![h] = "accepted"]
    /\ UNCHANGED <<callVars, qpVars, nicVars, metaVars, slotVars, bcast_buffer,
                   cur, prim, param, todo, ctl, out>>

------------------------------------------------------------------------------
(* The switch: aggregate() *)

(* operation_type is read again, then root_rank: both may have changed. *)
ReadOperation(h) ==
    /\ pc[h] = "accepted"
    /\ prim' = [prim EXCEPT ![h] = operation_type]
    /\ pc' = [pc EXCEPT ![h] = "typed"]
    /\ UNCHANGED <<callVars, qpVars, acked, nicVars, agg_epsn, metaVars,
                   slotVars, bcast_buffer, cur, param, out_conns, todo, ctl,
                   out>>

(* A Broadcast packet goes to every connection but its own. *)
ReadRoot(h) ==
    /\ pc[h] = "typed"
    /\ param' = [param EXCEPT ![h] = root_rank]
    /\ IF prim[h] = "broadcast"
       THEN /\ todo' = [todo EXCEPT ![h] = Hosts \ {h}]
            /\ pc' = [pc EXCEPT ![h] = IF fan_in > 1 THEN "forward" ELSE "idle"]
       ELSE /\ pc' = [pc EXCEPT ![h] = "aggregate"]
            /\ UNCHANGED todo
    /\ UNCHANGED <<callVars, qpVars, acked, nicVars, agg_epsn, metaVars,
                   slotVars, bcast_buffer, cur, prim, out_conns, ctl, out>>

(* handle_broadcast: one turn of its loop over the connections. *)
Forward(h) ==
    LET g == Min(todo[h])
    IN  /\ pc[h] = "forward"
        /\ out' = [out EXCEPT ![g] =
                      Append(@, From(h, Message(h, cur[h]).chunk))]
        /\ todo' = [todo EXCEPT ![h] = @ \ {g}]
        /\ pc' = [pc EXCEPT ![h] = IF todo[h] = {g} THEN "idle" ELSE "forward"]
        /\ UNCHANGED <<callVars, qpVars, acked, nicVars, agg_epsn, metaVars,
                       slotVars, bcast_buffer, handlerVars, ctl>>

(* What the slot holds once h's packet is in. *)
Summed_NeverReset(h) ==
    [agg_buffer[Idx(cur[h])] EXCEPT ![h] =
        Append(@, Message(h, cur[h]).chunk)]
Summed(h) ==
    LET i == Idx(cur[h])
        base == IF degree[i] = 0 THEN NoData ELSE agg_buffer[i]
    IN  [base EXCEPT ![h] = Append(@, Message(h, cur[h]).chunk)]

(* Where the thread that brings degree to fan_in goes. *)
Completion_Early(h) ==
    IF degree[Idx(cur[h])] + 1 < fan_in - 1 THEN "idle"
    ELSE CASE prim[h] = "allreduce" -> "cache"
           [] prim[h] = "reduce"    -> "reduce"
Completion(h) ==
    IF degree[Idx(cur[h])] + 1 # fan_in THEN "idle"
    ELSE CASE prim[h] = "allreduce" -> "cache"
           [] prim[h] = "reduce"    -> "reduce"

(* Under the slot's mutex. *)
Aggregate(h) ==
    LET i == Idx(cur[h])
    IN  /\ pc[h] = "aggregate"
        /\ agg_buffer' = [agg_buffer EXCEPT ![i] = Summed(h)]
        /\ arrival' = [arrival EXCEPT ![i] = @ \union {h}]
        /\ degree' = [degree EXCEPT ![i] = @ + 1]
        /\ pc' = [pc EXCEPT ![h] = Completion(h)]
        /\ UNCHANGED <<callVars, qpVars, acked, nicVars, agg_epsn, metaVars,
                       bcast_buffer, handlerVars, todo, ctl, out>>

(* AllReduce: cache_and_broadcast over the connections of the rule. *)
Cache(h) ==
    LET i == Idx(cur[h])
    IN  /\ pc[h] = "cache"
        /\ bcast_buffer' = [bcast_buffer EXCEPT ![i] = agg_buffer[i]]
        /\ todo' = [todo EXCEPT ![h] = out_conns[h]]
        /\ pc' = [pc EXCEPT ![h] = "send"]
        /\ UNCHANGED <<callVars, qpVars, acked, nicVars, agg_epsn, metaVars,
                       slotVars, handlerVars, ctl, out>>

SendResult(h) ==
    LET g == Min(todo[h])
    IN  /\ pc[h] = "send"
        /\ out' = [out EXCEPT ![g] = Append(@, bcast_buffer[Idx(cur[h])])]
        /\ todo' = [todo EXCEPT ![h] = @ \ {g}]
        /\ pc' = [pc EXCEPT ![h] = IF todo[h] = {g} THEN "cleanup" ELSE "send"]
        /\ UNCHANGED <<callVars, qpVars, acked, nicVars, agg_epsn, metaVars,
                       slotVars, bcast_buffer, handlerVars, ctl>>

(* Reduce: the sum goes to the root's connection.  A root_rank of -1, read  *)
(* after another operation has begun, indexes outside rank_to_conn: any     *)
(* connection, or none.                                                     *)
SendToRoot(h) ==
    /\ pc[h] = "reduce"
    /\ \/ \E g \in IF param[h] \in Hosts THEN {param[h]} ELSE Hosts :
             out' = [out EXCEPT ![g] = Append(@, agg_buffer[Idx(cur[h])])]
       \/ param[h] \notin Hosts /\ UNCHANGED out
    /\ pc' = [pc EXCEPT ![h] = "cleanup"]
    /\ UNCHANGED <<callVars, qpVars, acked, nicVars, agg_epsn, metaVars,
                   slotVars, bcast_buffer, handlerVars, todo, ctl>>

(* The slot is freed, under its mutex. *)
Cleanup_KeepsDegree(h) ==
    LET i == Idx(cur[h])
    IN  /\ pc[h] = "cleanup"
        /\ arrival' = [arrival EXCEPT ![i] = {}]
        /\ pc' = [pc EXCEPT ![h] = "idle"]
        /\ UNCHANGED <<callVars, qpVars, acked, nicVars, agg_epsn, metaVars,
                       degree, agg_buffer, bcast_buffer, handlerVars, todo, ctl,
                       out>>

Cleanup(h) ==
    LET i == Idx(cur[h])
    IN  /\ pc[h] = "cleanup"
        /\ degree' = [degree EXCEPT ![i] = 0]
        /\ arrival' = [arrival EXCEPT ![i] = {}]
        /\ pc' = [pc EXCEPT ![h] = "idle"]
        /\ UNCHANGED <<callVars, qpVars, acked, nicVars, agg_epsn, metaVars,
                       agg_buffer, bcast_buffer, handlerVars, todo, ctl, out>>

------------------------------------------------------------------------------
HostStep(h) == Begin(h) \/ Start(h) \/ PollRecv(h) \/ PollSend(h) \/ Return(h)

HandlerStep(h) == \/ SetRoot(h) \/ AckControl(h)
                  \/ DropData(h) \/ AnswerData(h) \/ AcceptData(h)
                  \/ ReadOperation(h) \/ ReadRoot(h) \/ Forward(h)
                  \/ Aggregate(h) \/ Cache(h) \/ SendResult(h)
                  \/ SendToRoot(h) \/ Cleanup(h)

Next == \E h \in Hosts :
           \/ HostStep(h) \/ Arrive(h) \/ HandlerStep(h)
           \/ HandleControl(h)
           \/ \E psn \in Psns(h) : ReceiveData(h, psn)

Spec == Init /\ [][Next]_vars

(* What progress needs: hosts keep polling, threads are scheduled, the      *)
(* downlink delivers; the NIC retransmits its oldest unacknowledged packet  *)
(* over and over, and not every answer to it is lost.                       *)
Fairness ==
    \A h \in Hosts :
        /\ WF_vars(HostStep(h)) /\ WF_vars(Arrive(h)) /\ WF_vars(HandlerStep(h))
        /\ SF_vars(HandleControl(h)) /\ SF_vars(ReceiveData(h, acked[h]))
        /\ SF_vars((AnswerData(h) \/ AcceptData(h)) /\ acked' # acked)

FairSpec == Spec /\ Fairness

------------------------------------------------------------------------------
(* Types of the state. *)
Sums == [Hosts -> Seq(Chunks)]
Results == [chunk : Chunks, sum : Sums]
Messages == [kind : {"ctl"}, call : Calls]
            \union [kind : {"data"}, call : Calls, chunk : Chunks]
Primitives == {"allreduce", "reduce", "broadcast"}
TypeOK ==
    /\ program \in Programs
    /\ op \in [Hosts -> 1 .. Len(program) + 1]
    /\ phase \in [Hosts -> {"start", "ctl", "run"}]
    /\ send_num \in [Hosts -> Nat]
    /\ receive_num \in [Hosts -> Nat]
    /\ send_complete \in [Hosts -> Nat]
    /\ got \in [Hosts -> Seq(Results)]
    /\ sent \in [Hosts -> Seq(Messages)]
    /\ acked \in [Hosts -> Nat] /\ polled \in [Hosts -> Nat]
    /\ posted \in [Hosts -> Nat] /\ arrived \in [Hosts -> Nat]
    /\ dropped \in [Hosts -> BOOLEAN]
    /\ agg_epsn \in [Hosts -> Nat]
    /\ operation_type \in Primitives /\ root_rank \in Hosts \union {-1}
    /\ degree \in [Slots -> Nat]
    /\ arrival \in [Slots -> SUBSET Hosts]
    /\ agg_buffer \in [Slots -> Sums] /\ bcast_buffer \in [Slots -> Sums]
    /\ pc \in [Hosts -> {"idle", "meta", "control", "lookup", "accepted",
                         "typed", "forward", "aggregate", "cache", "send",
                         "reduce", "cleanup"}]
    /\ cur \in [Hosts -> Nat]
    /\ prim \in [Hosts -> Primitives] /\ param \in [Hosts -> Hosts \union {-1}]
    /\ out_conns \in [Hosts -> SUBSET Hosts] /\ todo \in [Hosts -> SUBSET Hosts]
    /\ ctl \in [Hosts -> Nat]
    /\ out \in [Hosts -> Seq(Sums)]

(* The right content of a chunk of call o: the sum over all hosts, or the  *)
(* root's data.                                                            *)
Expected(chunk) ==
    LET call == program[chunk[1]]
    IN  IF call.prim = "broadcast" THEN From(call.root, chunk)
        ELSE [h \in Hosts |-> <<chunk>>]

(* What a call hands its caller is the result of that call: no other call's *)
(* data, no other chunk, nobody's share missing or counted twice            *)
(* (verify_reduce_result, verify_allreduce_result and                       *)
(* verify_broadcast_result of src/host_multi_ops.c).                        *)
ResultsCorrect ==
    \A h \in Hosts : \A i \in 1 .. Len(got[h]) :
        got[h][i].sum = Expected(got[h][i].chunk)

(* send_psn[g] is incremented with no lock (switch_main.c:133, 162, 245):   *)
(* no two threads have a packet for the same connection on their hands.     *)
Pending(h) == CASE pc[h] \in {"send", "forward"} -> todo[h]
                [] pc[h] = "cache"               -> out_conns[h]
                [] pc[h] = "reduce"              -> {param[h]}
                [] OTHER                         -> {}
OneSenderPerConnection ==
    \A g, h \in Hosts : g # h => Pending(g) \intersect Pending(h) = {}

(* A packet is added to a slot that is free, or that holds the same chunk   *)
(* of other hosts: slots are reused modulo N and never checked              *)
(* (switch_main.c:188-217).                                                 *)
SlotHoldsOneChunk ==
    \A h \in Hosts :
        LET i == Idx(cur[h])
        IN  pc[h] = "aggregate" /\ degree[i] > 0
            => /\ h \notin arrival[i]
               /\ \A g \in arrival[i] :
                     agg_buffer[i][g] = <<Message(h, cur[h]).chunk>>

(* SEND/RECV semantics require the receive to be posted before the sender   *)
(* may send (api.c:569): no result reaches a host without one.              *)
ReceiversReady == \A h \in Hosts : ~ dropped[h]

(* Between calls, and while the control message is out, no receive request  *)
(* and no receive completion of an earlier call is left (api.c:644, 928,    *)
(* 1442): send_control_message, which takes whatever completion it polls    *)
(* for its own (api.c:521), never takes a result, and no call finds another *)
(* call's results in its requests.                                          *)
RequestsUsedUp ==
    \A h \in Hosts : phase[h] # "run" => posted[h] = Len(got[h])

(* Every data packet gets an ACK or a NAK (switch_main.c:496-505), although *)
(* its rule is looked up under metadata that another operation may have     *)
(* set, half of them even (416-417): the packet that is expected always     *)
(* finds its rule, and any other one unless it is looked up between the two *)
(* writes of a control message.  Its host sends it again.                   *)
PacketsAnswered ==
    \A h \in Hosts :
        pc[h] = "lookup" => \/ HasRule(h, prim[h], root_rank)
                            \/ /\ cur[h] # agg_epsn[h]
                               /\ \E g \in Hosts : pc[g] = "meta"

(* No packet is ever left without an answer. *)
AlwaysAnswered ==
    \A h \in Hosts : pc[h] = "lookup" => HasRule(h, prim[h], root_rank)

(* Hosts, NICs and switch keep the promise of the collective calls: results *)
(* are handed out in order, right, and not before all hosts have made the   *)
(* call (verify_*_result of src/host_multi_ops.c run after each call).      *)
Promise == INSTANCE Collectives
           WITH called <- [h \in Hosts |-> IF phase[h] = "start" THEN op[h] - 1
                                                                ELSE op[h]]
ImplementsCollectives == Promise!CSpec

(* Every host gets through the whole program. *)
AllCallsReturn == <>(\A h \in Hosts : ~ InCall(h))
==============================================================================
