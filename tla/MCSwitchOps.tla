----------------------------- MODULE MCSwitchOps -----------------------------
(* Programs of collective operations for TLC: pairs of neighbouring calls, *)
(* those of src/host_multi_ops.c among them.                               *)
EXTENDS SwitchOpsOrder

AllReduce(len) == [prim |-> "allreduce", root |-> -1, len |-> len]
Reduce(root, len) == [prim |-> "reduce", root |-> root, len |-> len]
Broadcast(root, len) == [prim |-> "broadcast", root |-> root, len |-> len]

(* Calls that may follow one another: slots are reused, hosts drift apart. *)
SafeSequences == {<<AllReduce(1), AllReduce(2)>>,
                  <<Reduce(0, 2), Reduce(0, 1)>>,
                  <<AllReduce(2), Reduce(1, 2)>>,
                  <<Reduce(0, 1), Broadcast(0, 2)>>}
ShortMixed == {<<AllReduce(1), Reduce(1, 2)>>, <<Reduce(0, 1), Reduce(0, 1)>>}

ReduceToAnotherRoot == {<<Reduce(1, 1), Reduce(0, 1)>>}
AllReduceThenBroadcast == {<<AllReduce(1), Broadcast(0, 1)>>}
BroadcastThenAllReduce == {<<Broadcast(0, 1), AllReduce(3)>>}
==============================================================================
