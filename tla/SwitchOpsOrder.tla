---------------------------- MODULE SwitchOpsOrder ----------------------------
(***************************************************************************)
(* Which programs of calls SwitchOps serves right, and the inductive        *)
(* invariant that shows it, for every number of hosts.                      *)
(*                                                                          *)
(* A program is orderly if it is AllReduces, ended by at most one Reduce,   *)
(* or Reduces to one root, and the slots suffice.  Then all hosts use up    *)
(* their PSNs alike: chunk c has PSN Psn(c) on every connection.  A host    *)
(* begins a call when all its packets of the calls before are accepted, so  *)
(* its control messages are handled in their turn.  A Reduce begins when    *)
(* all AllReduces are complete, so a thread reads the operation of the      *)
(* packet it has on its hands.  The thread that completes a chunk does      *)
(* nothing else while it sends the result, so no later chunk can complete:  *)
(* results leave in order, one thread at a time.  And the chunks that are   *)
(* not finished are fewer than the slots, so each has its own.              *)
(***************************************************************************)
EXTENDS SwitchOpsInv

(* Base(p)[o] is the PSN of the control message of call o of program p, if *)
(* every host sends all its calls: each takes len PSNs, and one for that.  *)
Base(p) ==
    LET b[o \in 1 .. Len(p) + 1] ==
            IF o = 1 THEN 0 ELSE b[o - 1] + p[o - 1].len + 1
    IN  b

IsAllReduce(call) == call.prim = "allreduce"
IsReduce(call) == call.prim = "reduce"

AllReducesThenReduce(p) ==
    \A o \in 1 .. Len(p) : IsAllReduce(p[o]) \/ (o = Len(p) /\ IsReduce(p[o]))
ReducesToOneRoot(p) ==
    \A o, q \in 1 .. Len(p) : IsReduce(p[o]) /\ p[o].root = p[q].root

(* The chunks in flight have slots of their own: those of an AllReduce are *)
(* a window of them and the last of the call before; those of a Reduce are *)
(* all it has, and what paces nothing but the root lets calls run together.*)
Fits(p) ==
    IF ReducesToOneRoot(p) THEN Base(p)[Len(p) + 1] < N + 2
    ELSE \A o \in 1 .. Len(p) :
            IF IsAllReduce(p[o]) THEN Window + 1 < N ELSE p[o].len + 1 < N

(* The programs the theorems are about. *)
Orderly(p) == (AllReducesThenReduce(p) \/ ReducesToOneRoot(p)) /\ Fits(p)

------------------------------------------------------------------------------
(* Chunks and PSNs *)

At(o) == Base(program)[o]
Psn(c) == At(c[1]) + c[2]
CallOf(c) == program[c[1]]

(* Results are numbered without the control messages. *)
Before(o) == At(o) - (o - 1)
Index(c) == Before(c[1]) + c[2]
Receiver(g, c) == IsAllReduce(CallOf(c)) \/ CallOf(c).root = g

(* The chunk thread h has on its hands. *)
InHand(h) == Message(h, cur[h]).chunk

(* The packets of h with PSNs below Added(h) are in their slots. *)
Added(h) == IF pc[h] \in {"accepted", "typed", "aggregate"} THEN cur[h]
                                                           ELSE agg_epsn[h]
Full(c) == \A h \in Hosts : Psn(c) < Added(h)

(* Thread t completed chunk c and is sending the result. *)
Busy(t) == pc[t] \in {"cache", "send", "reduce", "cleanup"}
Serves(t, c) == Busy(t) /\ cur[t] = Psn(c)
Freed(c) == Full(c) /\ \A t \in Hosts : ~ Serves(t, c)
SentTo(g, c) ==
    /\ Full(c)
    /\ \A t \in Hosts :
          Serves(t, c) => \/ pc[t] = "cleanup"
                          \/ pc[t] = "send" /\ g \notin todo[t]

------------------------------------------------------------------------------
(* The invariant: callers *)

(* What a host has sent, and how far it is: a sender is a window ahead of *)
(* the results, or the completions, that pace it.                         *)
Progress(h) == IF Receives(h) THEN receive_num[h] ELSE send_complete[h]
SentInv(h) ==
    /\ Len(sent[h]) = At(op[h]) + IF phase[h] = "start" THEN 0
                                                        ELSE 1 + send_num[h]
    /\ phase[h] = "run" =>
          /\ send_num[h] <= Window + Progress(h)
          /\ send_num[h] \in {message_num(h), Window + Progress(h)}
    /\ phase[h] # "run" => send_complete[h] = 0
    /\ \A psn \in Psns(h) :
          psn = IF Message(h, psn).kind = "ctl" THEN At(Message(h, psn).call)
                                                ELSE Psn(Message(h, psn).chunk)

(* What it has received. *)
GotInv(h) ==
    /\ Len(got[h]) <= arrived[h]
    /\ InCall(h) /\ Receives(h)
          => Len(got[h]) = Before(op[h]) + receive_num[h]
    /\ \A c \in Chunks : Receiver(h, c) /\ c[1] < op[h] => Index(c) <= Len(got[h])

(* What the switch has accepted of it, and what it knows of that. *)
AckInv(h) ==
    /\ polled[h] <= acked[h] /\ acked[h] <= agg_epsn[h]
    /\ agg_epsn[h] <= Len(sent[h])
    /\ \A o \in Calls : o <= op[h] => At(o) <= agg_epsn[h]
    /\ InCall(h) /\ ~ Receives(h) /\ ReducesToOneRoot(program)
          => polled[h] = At(op[h]) + IF phase[h] = "run" THEN 1 + send_complete[h]
                                                         ELSE 0

------------------------------------------------------------------------------
(* The invariant: the switch *)

(* Control messages are handled in their turn. *)
ControlInv(h) ==
    /\ ctl[h] <= Len(program)
    /\ agg_epsn[h] <= At(ctl[h] + 1)
    /\ ctl[h] > 0 => At(ctl[h]) < agg_epsn[h]

(* The thread of h handles the control message of the next call. *)
InControl(h) == pc[h] \in {"meta", "control"}
ControlHandlerInv(h) ==
    LET o == ctl[h] + 1
    IN  /\ InControl(h) => /\ o \in Calls
                           /\ cur[h] = At(o) /\ agg_epsn[h] = At(o)
                           /\ prim[h] = program[o].prim
                           /\ param[h] = program[o].root
        /\ pc[h] = "meta" => operation_type = prim[h]

(* The calls of h whose control messages have set operation_type, and those *)
(* of them whose control messages have set root_rank too.                   *)
Typed(h) == 1 .. IF InControl(h) THEN ctl[h] + 1 ELSE ctl[h]
Rooted(h) == 1 .. IF pc[h] = "control" THEN ctl[h] + 1 ELSE ctl[h]

(* The metadata are those of the last operation that has begun, but for the *)
(* root_rank of a Reduce that is about to be set.                           *)
MetaInv ==
    /\ \A h \in Hosts : ControlHandlerInv(h)
    /\ operation_type \in {"allreduce", "reduce"}
    /\ operation_type = "reduce"
          => \E h \in Hosts : \E o \in Typed(h) : IsReduce(program[o])
    /\ \A h \in Hosts : \A o \in Rooted(h) :
          IsReduce(program[o]) => /\ operation_type = "reduce"
                                  /\ root_rank = program[o].root

(* A thread and the chunk it has on its hands. *)
ThreadInv(h) ==
    LET call == CallOf(InHand(h))
    IN  /\ pc[h] # "forward"
        /\ pc[h] \notin {"idle", "lookup"} /\ ~ InControl(h)
              => agg_epsn[h] = cur[h] + 1
        /\ pc[h] = "lookup" => \/ prim[h] = "allreduce"
                               \/ prim[h] = "reduce" /\ operation_type = "reduce"
        /\ pc[h] = "lookup" /\ cur[h] = agg_epsn[h] => prim[h] = call.prim
        /\ pc[h] \in {"typed", "aggregate"} => prim[h] = call.prim
        /\ pc[h] \in {"accepted", "typed", "aggregate", "cache"}
              => (IsAllReduce(call) => out_conns[h] = Hosts)
        /\ pc[h] \in {"aggregate", "reduce"}
              => (IsReduce(call) => param[h] = call.root)
        /\ Busy(h) => Full(InHand(h))
        /\ pc[h] \in {"cache", "send"} => IsAllReduce(call)
        /\ pc[h] = "reduce" => IsReduce(call)
        /\ pc[h] = "send" => /\ todo[h] # {}
                             /\ bcast_buffer[Idx(cur[h])] = Expected(InHand(h))

OneBusy == \A t, u \in Hosts : Busy(t) /\ Busy(u) => t = u

(* A slot holds what has been added of the chunk it belongs to. *)
Owner(i, c) == Idx(Psn(c)) = i /\ ~ Freed(c)
Parts(c) == [g \in Hosts |-> IF Psn(c) < Added(g) THEN <<c>> ELSE << >>]
SlotInv ==
    /\ \A i \in Slots :
          /\ arrival[i] = {h \in Hosts : \E c \in Chunks : Owner(i, c)
                                                         /\ Psn(c) < Added(h)}
          /\ degree[i] = Cardinality(arrival[i])
    /\ \A c \in Chunks : \A h \in Hosts :
          ~ Freed(c) /\ Psn(c) < Added(h) => agg_buffer[Idx(Psn(c))] = Parts(c)

(* The results sent to g, in order. *)
OutInv(g) ==
    /\ \A c \in Chunks :
          Receiver(g, c) => (SentTo(g, c) <=> Index(c) <= Len(out[g]))
    /\ \A n \in 1 .. Len(out[g]) :
          \E c \in Chunks : Receiver(g, c) /\ Index(c) = n /\ out[g][n] = Expected(c)

CallersInv == \A h \in Hosts : SentInv(h) /\ GotInv(h)
AcksInv == \A h \in Hosts : AckInv(h) /\ ControlInv(h)
ThreadsInv == \A h \in Hosts : ThreadInv(h) /\ OutInv(h)
Order == /\ CallersInv /\ AcksInv /\ MetaInv
         /\ ThreadsInv /\ OneBusy /\ SlotInv
         /\ ResultsCorrect /\ ReceiversReady

OrderInv == Orderly(program) => Order
==============================================================================
