----------------------------- MODULE Collectives -----------------------------
(***************************************************************************)
(* What the collective calls of src/api.c promise a group that makes the    *)
(* same calls in the same order, with no switch in sight: a host is handed  *)
(* the results of its call in order, each the sum of that chunk over the    *)
(* hosts that contribute to it, and none before all of these have made the  *)
(* call; a call that waits for results returns when it has them all.        *)
(*                                                                          *)
(* A Reduce returns on the other hosts, and a Broadcast on its root, without*)
(* waiting for anyone: hosts may be any number of calls apart.              *)
(***************************************************************************)
EXTENDS Integers, Sequences

CONSTANTS fan_in,   \* the members of the group
          Programs  \* the sequences of calls a group may make

VARIABLES program,     \* the one of Programs the hosts run
          op,          \* op[h]: the call h is in, or is to make next
          called,      \* called[h]: how many calls h has made
          receive_num, \* receive_num[h]: the results its call was handed
          got          \* got[h]: all that h was handed, and what it took it for

collVars == <<program, op, called, receive_num, got>>

Hosts == 0 .. fan_in - 1
Call(h) == program[op[h]]

(* Whose data a result holds, and who is sent it. *)
Contributors(call) == IF call.prim = "broadcast" THEN {call.root} ELSE Hosts
Receives(h) == \/ Call(h).prim = "allreduce"
               \/ Call(h).prim = "reduce" /\ Call(h).root = h
               \/ Call(h).prim = "broadcast" /\ Call(h).root # h

RightSum(chunk) ==
    [h \in Hosts |-> IF h \in Contributors(program[chunk[1]]) THEN <<chunk>>
                                                             ELSE << >>]

CInit ==
    /\ program \in Programs
    /\ op = [h \in Hosts |-> 1]
    /\ called = [h \in Hosts |-> 0]
    /\ receive_num = [h \in Hosts |-> 0]
    /\ got = [h \in Hosts |-> << >>]

Make(h) ==
    /\ op[h] <= Len(program) /\ called[h] < op[h]
    /\ called' = [called EXCEPT ![h] = op[h]]
    /\ UNCHANGED <<program, op, receive_num, got>>

(* The barrier: a result comes when all it is made of has been called for. *)
Take(h) ==
    LET chunk == <<op[h], receive_num[h] + 1>>
    IN  /\ called[h] = op[h] /\ Receives(h)
        /\ receive_num[h] < Call(h).len
        /\ \A g \in Contributors(Call(h)) : called[g] >= op[h]
        /\ receive_num' = [receive_num EXCEPT ![h] = @ + 1]
        /\ got' = [got EXCEPT ![h] =
                      Append(@, [chunk |-> chunk, sum |-> RightSum(chunk)])]
        /\ UNCHANGED <<program, op, called>>

Finish(h) ==
    /\ called[h] = op[h]
    /\ Receives(h) => receive_num[h] = Call(h).len
    /\ op' = [op EXCEPT ![h] = @ + 1]
    /\ receive_num' = [receive_num EXCEPT ![h] = 0]
    /\ UNCHANGED <<program, called, got>>

CNext == \E h \in Hosts : Make(h) \/ Take(h) \/ Finish(h)

CSpec == CInit /\ [][CNext]_collVars
==============================================================================
