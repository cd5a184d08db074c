----------------------------- MODULE SwitchOpsInv -----------------------------
(***************************************************************************)
(* The inductive invariant behind the types of SwitchOps, for every number  *)
(* of hosts and every program of calls.                                     *)
(*                                                                          *)
(* That a result is taken for a chunk of its call needs the receive         *)
(* requests to be counted: a result arrives only for a request, a call      *)
(* posts as many requests as it has messages, and it returns when all of    *)
(* them have been used.                                                     *)
(***************************************************************************)
EXTENDS SwitchOps

(* The receive requests host h has not used yet. *)
Unused(h) == posted[h] - Len(got[h])

(* A host and its calls: what is sent and received never exceeds the call's *)
(* messages, and a receiver's requests are those for the missing results.   *)
CallInv(h) ==
    /\ phase[h] # "start" => InCall(h)
    /\ phase[h] # "run" => send_num[h] = 0 /\ receive_num[h] = 0
    /\ phase[h] = "run" => /\ send_num[h] <= message_num(h)
                           /\ receive_num[h] <= message_num(h)
    /\ Unused(h) = IF phase[h] = "run" /\ Receives(h)
                   THEN message_num(h) - receive_num[h] ELSE 0
    /\ arrived[h] <= posted[h] /\ arrived[h] <= Len(out[h])

(* A thread and the packet it has on its hands. *)
HandlerInv(h) ==
    /\ pc[h] # "idle" => cur[h] \in Psns(h)
    /\ pc[h] \notin {"idle", "meta", "control"}
          => Message(h, cur[h]).kind = "data"
    /\ pc[h] = "aggregate" => prim[h] # "broadcast"

IInv == TypeOK /\ \A h \in Hosts : CallInv(h) /\ HandlerInv(h)
==============================================================================
