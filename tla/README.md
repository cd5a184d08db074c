# INC_Emulation: a TLA+ model of in-network collectives

INC_Emulation emulates in-network computing: hosts call collective operations
(`inccl_allreduce_sendrecv`, `inccl_reduce_sendrecv`, `inccl_broadcast_sendrecv`
of `src/api.c`) over RDMA RC queue pairs that do not end at another host but at
a software switch (`termination_switch/`), which terminates every connection,
adds up the packets of all hosts slot by slot and sends the sums back. A
controller (`src/controller.cpp`) tells each switch its connections and rules.
An older design, `src/non_termination_switch.c`, terminates nothing: hosts call
`inccl_allreduce_write`, whose RDMA WRITEs pass through a tree of switches that add
them up on the way to the root and hand the results down again.

This directory holds TLA+ models of that code, configurations that check
them with TLC on small instances, and proofs checked by TLAPS. Line numbers are
those of the sources in `src/repository/`.

## 1. Inventory

| Component | State it keeps | Operations | Talks to |
|---|---|---|---|
| Switch data plane, `termination_switch/src/switch_main.c` | 300 slots (`agg_buffer`, `arrival`, `degree`, `r_degree`, `bcast_buffer`), `agg_epsn[]`, `send_psn[]`, `down_epsn`, `latest_ack[]`, the current `operation_type`, `root_rank`, `ctrl_psn` | one pcap thread per connection runs `packet_handler`: control messages, data, ACKs; `aggregate`, `cache_and_broadcast`, `handle_broadcast` | hosts (RoCE packets), the other threads (shared context) |
| Switch context, `switch_context.c`, and configuration client, `controller_comm.cpp` | connections, `fan_in`, rules, `rank_to_conn` | initialise, read a YAML file off a TCP connection, reset the PSN states | controller; the data plane reads what it writes |
| Rule table, `src/rule.c` | an array of at most 100 rules | add, match (first hit) | data plane |
| Host library, `src/api.c` | group, communicator, QP, completion queue, payload buffers; per call: `send_num`, `receive_num`, completions | group and communicator creation, the collectives over SEND/RECV, older ones over RDMA WRITE | NIC (verbs), controller (TCP) |
| Controller, `src/controller.cpp`, `include/controller.h` | groups, host and switch descriptions, sessions | one session thread per group, route and rule generation, YAML delivery | hosts, switches |
| Topology parser, `src/topo_parser.cpp` | - | reads the topology YAML | controller |
| Non-termination switch, `src/non_termination_switch.c` | 16 slots (`aggregator`, `arrival_state`, `degree`, `reth_keeper`), used over and over by PSN | one thread takes packets off all ports; `pipeline` adds data, answers retransmissions, broadcasts results, reflects ACKs | hosts' NICs, its parent and children |
| RDMA WRITE collectives, `src/api.c:735-823` | per call: WRITEs posted and completed, the receive buffer | `inccl_allreduce_write` | NIC |
| First termination switch, `src/switch.c` | per-flow state | superseded; does not compile at this commit | - |
| Utilities, `src/util.c`, `include/util.h` | - | frame construction, ICRC, immediate-data word, file transfer | all |

What is hard here:

* **Threads.** One thread per connection, all on one context. Only the addition
  into a slot and its reset are under a mutex (`switch_main.c:190-221, 234-238`);
  the completion test, the broadcast, `down_epsn`, `send_psn[]` and the metadata
  of the operation are not.
* **Ordering.** ACKs are sent before a packet is aggregated (line 505), and
  control messages are not ordered with the data of the other connections.
* **Slots are reused** modulo 300, and neither `arrival[]` nor the PSN a slot holds
  is tested before adding to it.
* **Loss, duplication, retransmission** on the uplink are the NIC's RC protocol
  against `agg_epsn`; on the downlink nothing recovers.
* **Completion queues** outlive calls: a call can find completions of the one before.
* **The non-termination switch** has no expected PSN and no ACK of its own: a port's
  bit in a slot is all that tells a retransmission from new data, slots are cleared by
  the root alone and half the array ahead, and what a host takes for the arrival of
  its result is its own ACK, reflected (`non_termination_switch.c:455`, `api.c:772`).

What makes each component correct:

* data plane: every host is sent, in order, exactly the sums of all hosts' packets,
  each added once; no slot is used by two PSNs; unlocked counters are in one
  thread's hands at a time; no result goes to a host that cannot take it;
* host library: a call returns, with the result of that call and of no other;
* rule table: every packet of an operation finds its one rule, and the table
  holds all of them;
* configuration: handlers run only on a complete configuration, and a new one
  leaves no state of the old;
* controller: every member of a group is answered, once all have connected;
* non-termination switch: what is taken for a retransmission is one, no slot is cleared
  that somebody may still ask for, no packet is added twice, and a WRITE that is
  acknowledged has its result in the receive buffer.

The list of hazards in `PROJECT.json` names the lines where these can go wrong.

## 2. Modules

| Module | What it is |
|---|---|
| `AllReduce` | The abstract promise: hosts contribute chunks in order and are delivered sum *k* after all have contributed chunk *k*. |
| `SwitchAllReduce` | One AllReduce in detail: host library and all switch threads, over lossy links. Implements `AllReduce`. |
| `SwitchAllReduceInv` | Its inductive invariant `IInv`. |
| `SlotArithmetic` | Lemmas on slot numbers `p % N`, used by the proofs about both switches. |
| `SwitchAllReduceProofs` | TLAPS proofs: types, invariance, the properties that follow, the refinement. |
| `MCSwitchAllReduce` | Its instances for TLC. |
| `Collectives` | The abstract promise of a sequence of calls: a host is handed the results of its call in order, each the sum of all that contribute, none before these have made the call. |
| `SwitchOps` | Sequences of calls (Reduce, AllReduce, Broadcast) on one communicator: metadata, PSN drift, completion queues, rules. Implements `Collectives`, for programs that keep in step. |
| `SwitchOpsInv` | The inductive invariant of its types. |
| `SwitchOpsProofs` | TLAPS proofs of its types and of `RequestsUsedUp`, for any program of calls. |
| `SwitchOpsOrder` | Which programs of calls are served right (`Orderly`), and the inductive invariant `OrderInv` that shows it. |
| `SwitchOpsOrderProofs` | TLAPS proofs: `OrderInv`, the safety properties of orderly programs, the refinement of `Collectives`. |
| `MCSwitchOps` | The sequences TLC checks. |
| `Rules` | Constant module: the rules the controller generates, parsing and lookup as functions. |
| `RuleTable` | The table while configurations are applied to it, rule by rule, under lookups without a lock. |
| `RuleTableProofs` | TLAPS proofs about both. |
| `Bootstrap` | From starting the processes to the first calls: group and communicator creation, controller, configuration client, receiver threads. Uses `Rules`. |
| `BootstrapInv` | Its inductive invariants: `IInv` for hosts, controller and configurations, `StartInv` for the receiver threads. |
| `BootstrapProofs` | TLAPS proofs about both and what follows, for any number of ranks and communicators. |
| `NonTermination` | One AllReduce by RDMA WRITEs through a tree of switches: the library, the hosts' NICs, all of `pipeline`, lossy links. Implements `AllReduce`. |
| `MCNonTermination` | The trees TLC checks. |
| `NonTerminationInv` | What is above and below a node of the tree, and the inductive invariant `TreeInv`. |
| `NonTerminationProofs` | TLAPS proof of its types, for any tree and any losses. |
| `TreeProofs` | TLAPS proofs of all its safety properties and of the refinement, for any tree. |

### 2.1 `SwitchAllReduce` and the code

Connection, host, rank and thread *h* are one name. A message is one packet; a
packet's value is named by (host, PSN), and a sum is the record of what was added:
for each host the sequence of its PSNs in it. So "added twice", "missing", "of
another slot" are all visible, which an integer sum would not show.

| Model | Code |
|---|---|
| `sent`, `acked`, `posted`, `recvd` | the QP's send queue, its acknowledged prefix, the posted receives, `receive_num` (`api.c:545-729`) |
| `agg_epsn`, `down_epsn`, `degree`, `arrival`, `agg_buffer`, `bcast_buffer` | the fields of `switch_context_t` and `agg_buffer_t` of the same names |
| `Len(out[g])` | `send_psn[g]`, with the packets that were sent |
| `pc`, `cur`, `todo` | where the handler of thread *h* is, its packet, the connections its loop has left |
| `SendControl`, `PostReceives`, `SendData`, `ReceiveResult` | `send_control_message`, the receive loop, the sliding window, the receive completions |
| `HandleControl`, `HandleLagging`, `HandleAhead`, `HandleExpected` | `packet_handler`, up to the call of `aggregate` |
| `Aggregate`, `Cache`, `SendResult`, `Cleanup` | the locked part of `aggregate`; `cache_and_broadcast`; one turn of its loop; the second locked part |

The handler is cut into actions exactly where another thread can intervene: the
two critical sections on the slot's mutex are one step each (the comparison with
`fan_in` uses a copy of `degree` taken inside the first), and the unlocked code
between them is cut at every access to `down_epsn`, `send_psn[]` and the buffers.

`MaxCtl` is how often a control message may reach the switch: 1 models a control
message whose ACK is not lost, 2 its retransmission.

### 2.2 `SwitchOps` and the code

Each host runs the same program, a sequence of calls with an operation, a root and
a length. `Begin` is the entry of a call, `Start` the return from
`send_control_message` with the posting of receives and of the first window,
`PollRecv` and `PollSend` the two kinds of completions of the polling loop,
`Return` its exit. `Arrive` is the host's NIC (external): it takes the next result
if a receive request is posted and otherwise refuses it for good, since the switch
ignores NAKs. On the switch a control message is three steps: `HandleControl` takes
the mutex of the metadata and writes `operation_type` (`switch_main.c:416`), `SetRoot`
writes `root_rank` (`:417`) and releases it, `AckControl` counts and acknowledges.
`ReceiveData`, the rule lookup (`DropData`, `AnswerData`, `AcceptData`),
`ReadOperation` and `ReadRoot` are the four places a thread reads the two fields, each
a step of its own, and none of them takes the mutex: a thread may see the operation of
one call with the root of another. `Forward` is `handle_broadcast`, `SendToRoot` the
Reduce branch of `aggregate`.

`HasRule` and `OutConns` are the answer of `lookup_rule` over the rules the
controller generates for a single switch (`controller.h:221-318`): every
connection has a rule for AllReduce and for Reduce to every root; for Broadcast only
the root's connection has. They are `Sends` and `Receivers` of `Rules`, which
`RuleTableProofs` proves to be what a lookup finds.

`root_rank = -1` (AllReduce) as an index of `rank_to_conn` reads outside the array;
`SendToRoot` then sends to any connection or to none.

### 2.3 `Rules`, `RuleTable` and the code

`generate_*_rules` give the sequences of rules of the functions of the same names
for one switch whose connections lead to hosts, in their order; `calculate_route` is
their concatenation, the order of the YAML file. `match_rule` and `lookup_rule` are
`src/rule.c`. A connection stands for its two addresses, and `out_conns` is a set,
since no receiver occurs twice.

`ReceiveConfig` is the clearing in `parse_yaml_config`, `ParseRule` one turn of the
loop of `parse_rules`, `SkipRest` its break when the table is full. A lookup reads
the table between any two of these, so it is not an action: the properties
quantify over all lookups in every state.

### 2.4 `Bootstrap` and the code

| Model | Code |
|---|---|
| `pc[r]` | where rank *r* is: `inccl_group_create` (`start`, `accept`, `register`), `inccl_communicator_create` (`create`, `collect`, `topology`), its call (`call`, `control`, `data`), or `failed` |
| `backlog`, `to_root`, `to_rank`, `to_controller`, `from_controller`, `to_switch` | the TCP connections |
| `controller` | how far `main` of `controller.cpp` is: no listener, accepting the switch, accepting groups |
| `SessionGroup`, `SessionRoute`, `SessionReply` | `group_session`: 'G', 'C' up to the send to the switch, the topology file |
| `step`, `config`, `idx` | where the thread of the controller connection is in `parse_yaml_config` |
| `conns`, `fan_in`, `count` | `ctx->conns` (the peer's QP, `ok`, the handle), `ctx->fan_in`, the rules in the table |
| `receiving`, `i`, `threads` | where `background_receiving` is, and the threads it created |
| `Crash` | `send_packet` through a connection whose handle is NULL |

`parse_yaml_config` is cut at every write another thread may see, and
`background_receiving` at every read. A packet is handled in one step, as
`SwitchAllReduce` has the interleavings of the handlers; a call is one control
message and one data packet. A QP is named by its rank and communicator.

`parse_connections` stops at `MAX_CONNECTIONS_NUM` (`controller_comm.cpp:39-42`), so the
switch has `Connections`, the first ranks of the group, and `fan_in` is their number. An
eleventh rank gets its topology and posts its packets, and nobody receives them.

`HandleControl` increments `agg_epsn` for every control message, one that comes again
included (`switch_main.c:447`, finding 1). `handled` and `repeats` are history
variables: they count those that came again, so that `MaxRepeats` can bound them and
`FirstCallReturns` can name them.

`SwitchAllReduce` and `SwitchOps` begin where this module ends: all connections
have threads, rules and cleared PSNs. `EveryConnectionReceived`, `Paired` and
`NoConfigDuringCall` are what justifies their initial states.

### 2.5 `NonTermination` and the code

| Model | Code |
|---|---|
| `posted`, `dst` | `send_num` of `inccl_allreduce_write` and what it has copied out of `receive_payload` (`api.c:735-823`) |
| `una`, `nxt`, `hi`, `placed`, `nakked` | the host's NIC (external): a go-back-N requester, and a responder that places the expected PSN |
| `aggregator`, `reth_keeper`, `arrival_state`, `degree` | the arrays of the same names, for each switch |
| `Parent`, `Ports`, `FAN_IN`, `Up` | the topology: `conns[0 .. FAN_IN - 1]` lead down, `conns[FAN_IN]` up |
| `up[n]`, `down[n]` | the link between *n* and the port it is on |
| `PostInitial`, `PollCompletion` | the first window of WRITEs; one turn of the polling loop, with its copy out and the next post |
| `UpData`, `UpWriteFirstOnly`, `UpAck`, `DownData`, `DownWriteFirstOnly` | the branches of `pipeline` by packet type (`DOWN_ACK` has none) |
| `UpRetransmission`: `AnswerFromSlot`, `UploadAgain` | a set bit: the result again, or the sum to the parent again (`:374-383, 412-428`) |
| `UpFirst`: `AddOnly`, `ForwardToParent`, `CompleteAtRoot` | a clear bit: added; added and passed up; added, slot half the array ahead cleared, result broadcast (`:384-406, 429-447`) |
| `TakeResult` | a result from the parent is stored and broadcast, if the slot has all ports' packets and no result (`:466-482`) |

`epoll_process_packets` handles one packet after the other in one thread, so a call of
`pipeline` is one step. Packet *k* of a call has PSN *k*; messages are `MsgLen` packets
of which the first has a RETH, named by the PSN of the message it belongs to. A value is
again the record of what was added into it, here together with the byte order of its
words: `aggregator` holds host order, `build_eth_packet` turns the words around behind a
RETH and leaves them alone otherwise (`util.c:414-428`).

`degree` counts modulo `FAN_IN`, the only way it is read. Links are FIFO. A link may lose
an ACK or a NAK, and data packets whose PSN is in `Losable`, `MaxLoss` packets in all.

Two things the handler leaves undefined are not in the model. `pipeline` assigns
`meta_p->type` only for the opcodes it lists, and `epoll_process_packets` passes it a
record it has not initialised (`:317, 625`), so what a packet with any other opcode does
is arbitrary; the hosts modelled send RDMA WRITEs and ACKs only. And a slot of a leaf
has the RETH of the last message that passed; only its PSN is kept here.

## 3. What is checked

| Run | Instance | Shows |
|---|---|---|
| `allreduce_two` | 2 hosts, 3 slots, window 2, 4 packets | all safety properties, `IInv` (the invariant of the proofs), that `SwitchAllReduce` implements `AllReduce`, and that every call returns |
| `allreduce_ctl` | control message handled up to twice | `ResultsExact` fails: finding 1 |
| `ops_safety` | 2 hosts, 4 slots, window 1, four sequences of calls | results of every call, senders, slots, receive requests, `IInv` of `SwitchOpsInv`, and that `SwitchOps` implements `Collectives` |
| `ops_live` | AllReduce then Reduce, and Reduce then Reduce; 4 slots, window 1 | every call returns, the expected packets find their rule and others too unless looked up between the two writes of the metadata, no result is refused by a receiver, and `OrderInv`, the invariant of the proofs |
| `rule_table` | groups of 1, 2, 4, 9 and 10 hosts, 100 rules | no lookup finds a wrong rule at any time; what fits is served |
| `boot` | 3 hosts, 1 or 2 communicators, any start order | pairing, exclusion of reconfiguration from calls, threads for all connections, the first call returns unless a control message is handled twice |
| `boot_again` | 2 hosts, 2 communicators | `SurvivesAllCommunicators` fails: finding 3 |
| `ops_psn` | Broadcast then AllReduce | `ResultsCorrect` fails: finding 2 |
| `nt_star` | 2 hosts at one switch, 4 messages of 2 packets, 4 slots | all safety properties over two laps of the slots, and that `NonTermination` implements `AllReduce` |
| `nt_tree` | 2 hosts under a leaf switch, one message of 2 packets, one loss of its last packet, of a result or of an ACK on any link | every call returns with exact sums; what the leaf's repeated upload rests on |
| `nt_nak` | 2 hosts at one switch, a result that is not the first is lost | `CompletionIsResult` fails: finding 4 |
| `nt_reuse` | 2 hosts under a leaf, one at the root, 3 packets, 2 slots | `RetransmissionsAreOnes` fails: finding 5 |

Further configurations lie beside these and can be run in the same way:

| Configuration | Shows |
|---|---|
| `MCSwitchOps_meta.cfg` | Reduce to rank 1, then to rank 0: `ResultsCorrect` fails. A host that has returned from the first begins the second; its control message changes the root before the other host's packet completes the slot, and the first sum goes to rank 0. |
| `MCSwitchOps_overtake.cfg` | AllReduce, then Broadcast: `ResultsCorrect` fails. The Broadcast overtakes the last result of the AllReduce on its way to a host served late. |
| `MCSwitchOps_torn.cfg` | `AlwaysAnswered` fails in a program of `ops_live`: an AllReduce packet that comes again is looked up when the next call's control message has written `operation_type` and not yet `root_rank`; (Reduce, -1) has no rule, and the packet is dropped without an answer. |
| `RuleTable_full.cfg` | `AllOperationsServed` fails at ten hosts: they need 120 rules, the table holds 100, the rest is skipped with a warning. |
| `MCNonTermination_order.cfg` | `NetworkOrder` fails: "the data is already in network order" (`util.c:407`) is not so for MIDDLE and LAST packets, which are sent as `aggregator` holds them. |
| `MCNonTermination_leaf.cfg` | `nt_tree` with a third host at the root and two losses of a one-packet message, with `TreeInvAt`: passes, 311 000 states. |
| `MCNonTermination_short.cfg` | `nt_star` with five messages of one packet, two outstanding: passes, 1.3 million states. |
| `BootstrapInv.cfg` | `IInv` and `StartInv` of `BootstrapInv`, with three hosts: passes, 379 000 states. |
| `BootstrapInv_cap.cfg` | Three ranks at a switch with room for two connections: both invariants and all properties of `boot` pass, 68 000 states. |
| `MCNonTermination_inv.cfg` | `TreeInvAt` where the slots of one switch are used again: passes, 469 000 states. |

`TreeInvAt` is `TreeInv`, the invariant of the proofs, with the witnesses TLC would look
for too long read off the slots; `MCNonTermination` also compares `Ancestors`, which the
proofs need without recursion, with what the graph module computes.

### 3.1 Properties

`SwitchAllReduce`: `OneBroadcaster` (the unlocked counters are safe),
`ResultsExact` (the sums, in order), `NoSlotCollision` (the slots are never
overrun), `ReceiverReady`, `SlotsFreeAtEnd` (the next collective starts clean),
`ImplementsAllReduce`, `AllReturn`.

`SwitchOps`: `ResultsCorrect` (each call's caller is handed the result of that call),
`OneSenderPerConnection`, `SlotHoldsOneChunk`, `RequestsUsedUp` (the control message's
wait, which takes any completion for its own, never takes a result), `ReceiversReady`,
`PacketsAnswered` (the packet that is expected always has a rule to be answered by, any
other one unless it is looked up between the two writes of the metadata; without that
exception it is `AlwaysAnswered`, violated),
`AllCallsReturn`, `ImplementsCollectives`.

`RuleTable`: `LookupSound` (a lookup finds nothing or the right rule, in the middle of
a configuration too), `FittingOperationsServed` (all operations have rules, if
they fit), `AllOperationsServed` (without the condition: violated).

`Bootstrap`: `Paired` (whatever the order of the connections, each switch connection has
the QP of its rank), `NoConfigDuringCall` (the hosts' order of calls is all that
keeps the reset out of a call), `EveryConnectionReceived` (the threads are started
from fields that are being written), `SurvivesOneCommunicator`,
`SurvivesAllCommunicators` (violated), `FirstCallReturns` (every host with a connection
returns from its first call, unless a connection was refused or a control message was
handled twice, after which the call may hang: finding 1 again).

`NonTermination`: `ResultsExact` (nothing is added twice, no slot mixes PSNs),
`RetransmissionsAreOnes` (a set bit means the same PSN, not the same slot a lap ago),
`ClearedIsDone` (a cleared slot is one every host has the acknowledgement of),
`AckedIsPlaced` and `CompletionIsResult` (the reflected ACK may be taken for the result),
`RethIsOfMessage`, `FanInWillRetransmit` (the comment of line 421: no host has its
acknowledgement while a complete slot of the leaf has no result), `ImplementsAllReduce`,
`AllReturn`.

Each property of a passing run has a mutant: a definition changed the way a plausible bug would change it
(a window off by one, a slot not reset, a completion one packet early, an expected
PSN not advanced, receive requests for one window only, rules for the root only),
for which TLC finds the property violated. A mutant stands before the definition
it changes and has its name with a suffix (`Accept_InOrder`).

### 3.2 Bounds

* Slots. 300 in the code, 3 or 4 here, with 4 to 6 packets per host, so that every
  run reuses slots. What matters is `Window < N`, which the code has by far
  (2 messages against 300 slots) and the proofs assume.
* Calls. Pairs, of one or two messages each: a host can be in the second call while
  another is still in the first, which is what the hazards need. In three of the four
  sequences of `ops_safety` the second call uses slots of the first again. The proofs
  have any number of calls.
* Packets. A message is one packet (a message of 16 KB is several in the code,
  with the same handler for each; the window is then a multiple).
* Hosts. Two hosts are enough for every finding; three are used where two threads
  must be in a slot while a third broadcasts. The proofs cover any number.
* Rules. The capacities are the code's, 100 and 10. Sizes 9 and 10 are the last that
  fits and the first that does not; the proofs cover all.
* Start-up. Three hosts, so that two workers can connect in either order; two
  communicators, so that there is one reconfiguration. `calculate_route` fills in
  the peers of ranks 0 and 1 only (a TODO of the code, `controller.h:353`); the
  library, the generators and the switch are written for any number, and the models
  take the rest to be filled in the same way.
* `MaxRepeats` is 1: one control message that is handled again is enough to lose a data
  packet. Connections: the runs of `Bootstrap` have room for ten; `BootstrapInv_cap.cfg`
  has more ranks than connections, and the proofs any numbers of both.
* Deadlock is not checked in `Bootstrap`: programs that have returned from their last
  call stop, and a connection that is refused at the start ends one process and
  leaves the others waiting.
* PSNs stay far below 2^24: wrap-around is not modelled.
* `NonTermination`. `WINDOW_SIZE` is 8 in the code, `MsgLen` 4 and `HostWindow` 2, so
  that a host may have exactly `WINDOW_SIZE` packets outstanding; the runs keep that
  equality (`WindowsAgree`) with 1 or 2 for 8, and `nt_star` goes through the slots
  twice. `InFlight` bounds copies: a NIC times out with at most so many packets on its
  link and its switch's. 0 still lets a host send again while others have not arrived,
  and while the result for which it waited is on its way; the proofs have any value.
* What is lost. In the passing runs a data packet is lost only if none of the same host
  follows it (`Losable` has the last PSN): behind a packet that is missing the NIC
  reports a gap, and `nt_nak` shows what becomes of any report. With gaps,
  `FanInWillRetransmit` fails for the same reason. ACKs may be lost anywhere.
* Below a leaf switch a call has at most `N` packets in the passing runs; `nt_reuse`
  shows what the packet after these meets.

### 3.3 Fairness

Hosts keep polling and posting (their loops have no exit but completion); threads
in a handler are scheduled; the control message and the packet the switch expects
keep arriving until they are handled (the NIC retransmits its oldest unacknowledged
packet over and over, and not every copy or answer is lost); and the downlink
delivers. The last is an assumption, not a property of the code: the NAK
and retransmission branches of the downlink are empty (`switch_main.c:331-335`), so
a lost result is never sent again. `ops_live` needs strong fairness for the
answers, since an answer may be lost any number of times but not for ever.

In `NonTermination` the library polls, NICs send, receive and time out, switches handle
what their ports have. Nothing is assumed of the links but that they lose `MaxLoss`
packets: recovery is the model's own, so weak fairness is enough.

In `Bootstrap` every process and thread runs on, and packets that are not
acknowledged are sent again, so that each connection's next packet is handled in the
end; connecting is not retried, hence `FirstCallReturns` allows for a refusal. No fairness
makes a control message that is acknowledged come again.

## 4. What is proved

`SwitchAllReduceProofs`, for any finite set of hosts, any `Window < N`, any number
of packets:

* `TypeCorrect`: `Spec => []TypeOK`, for any `MaxCtl`;
* for `MaxCtl = 1`: `Invariance` (`[]IInv`), `BroadcastsExclusive`
  (`[]OneBroadcaster`), `AllResultsExact` (`[]ResultsExact`), `SlotsNeverCollide`
  (`[]NoSlotCollision`), `ReceiversReady` (`[]ReceiverReady`), `SlotsFreed`
  (`[]SlotsFreeAtEnd`) and `Refinement` (`ImplementsAllReduce`).

None of these is inductive alone. The argument of `IInv`: a thread adds
its packets in PSN order and does nothing else while it broadcasts
(`ThreadInv`), so while it broadcasts PSN *p* its own packet *p+1* is missing and
no other thread can complete *p+1*: broadcasts never overlap, `down_epsn` is the
number of PSNs every host is in (`ProgressInv`) and `send_psn[]` follows it
(`OutInv`). A host is at most `Window` packets ahead of the results it received
(`HostInv`), hence of the broadcasts, and `Window < N`: the PSNs in progress occupy
distinct slots that have been freed (`SlotInv`), so what a slot holds is what its PSN
needs. The refinement adds that a result is in `bcast_buffer`, hence on its way to a
host, only when every host is in its slot, hence has sent it. The restriction to `MaxCtl = 1` is necessary: `allreduce_ctl` shows that
`ResultsExact` fails without it.

`RuleTableProofs`, for any capacities and any sizes of groups:

* `TypeCorrect`, `LookupsSound` (`[]LookupSound`, for groups with no more hosts than a
  switch has connections), `FittingServed` (`[]FittingOperationsServed`).

The invariant here is that the table is the parsed beginning of the file of the
current group, and once loaded as much of it as fits. The work is in the lemmas on
the file: a position in the Reduce part is a root and a connection by division
(`DivMod`, `ProductBound`, `ProductSplit`), every rule that matches a lookup is right
(`RouteSound`), and every operation has one (`RouteComplete`).

`BootstrapProofs`, for any number of ranks, of connections the switch has room for and of
communicators, any `MaxRepeats`, and processes started in any order: `TypeCorrect` (`[]TypeOK`), `PairedByRank` (`[]Paired`) and
`ConfigsBetweenCalls` (`[]NoConfigDuringCall`), all from `Inductive` (`[]IInv`).

The argument is that what is on a TCP connection follows from where its two ends are. A
worker's connection carries its rank until it is accepted and then its QP number until
it is collected (`Hello`, `Number`); the one back carries the topology while it is waited for. Rank
0 collects the numbers of communicator *k* from all workers before it asks for the
route, and each worker has the topology of *k* before it sends the number for *k + 1*, so
neither end is more than one communicator ahead (`WorkerInv`): what rank 0
takes from socket *r* is the number of rank *r* for the communicator it is creating, the
list it asks with is `Full(k)`, and every configuration on its way to the switch is one whose
communicator all ranks have begun (`SwitchInv`).

Of the receiver threads, likewise: `AllConnectionsReceived` (`[]EveryConnectionReceived`) and
`OneCommunicatorSurvives` (`[]SurvivesOneCommunicator`), from `StartInvariant`
(`[]StartInv`). Connections are those the switch has room for; of ranks beyond
`MAX_CONNECTIONS_NUM` nothing is claimed. The receiver would miss connections if `fan_in` were cleared under its loops. It is
not, because of the hosts: a result takes a packet of every thread (`DataInv`), a rank
begins its second communicator only with the result of its first call (`CallInv`), so
until all threads are there the switch has one configuration, in which
`fan_in` is written once and last (`ConfigInv`, `Once`).

`SwitchOpsProofs`, for any number of hosts and slots and any program of Reduce, AllReduce
and Broadcast calls, those with wrong results included: `TypeCorrect` (`[]TypeOK`) and
`RequestsAreUsedUp` (`[]RequestsUsedUp`), from `Inductive` (`[]IInv`).

That a result is taken for a chunk of the running call does not follow from types: the
library counts to `message_num` and looks at nothing else. The invariant counts the receive
requests (`CallInv`): a result arrives only for a request, and the requests not used yet
are those for the messages the call still waits for. `HandlerInv` says that a
thread's packet is a posted data message until its handler ends, and that no packet of a
Broadcast reaches a slot, though `operation_type` may change at every step in between.
That the next control message exists among those posted is `KthMember`, on finite sets
of numbers.

`SwitchOpsOrderProofs`, for any number of hosts, slots, calls and messages, and every
program that is `Orderly`: AllReduces, ended by at most one Reduce, or Reduces to one
root, and in either case such that the packets in flight fit in the slots (`Fits`).
`OrderInductive` (`[]OrderInv`), from it `ResultsAreCorrect` (`ResultsCorrect`),
`ReceiversAreReady` (`ReceiversReady`), `OneSenderAtATime` (`OneSenderPerConnection`),
`SlotsHoldOneChunk` (`SlotHoldsOneChunk`) and `PacketsAreAnswered` (`PacketsAnswered`),
each as `Spec => [](Orderly(program) => ...)`, and `OpsRefinement`
(`ImplementsCollectives`) when all of `Programs` are orderly.

The argument, each part of which fails without the others:

* Every host sends every call, so chunk *c* has the same PSN on every connection
  (`Psn`, `SentInv`), which a Broadcast would end. A host begins a call when all its
  packets of the calls before are accepted (`AckInv`), so its control messages are
  handled in their turn (`ControlInv`).
* `operation_type` is that of the last operation any host has begun to announce, and
  `root_rank` follows it, one write behind (`MetaInv`). A host begins a Reduce behind
  AllReduces only with all their results, so by then nobody has a packet of an AllReduce
  left to add: what meets the half-written pair is a retransmission, and a thread that
  adds a chunk reads the operation of that chunk (`ThreadInv`), though the reads are not
  together either.
* The thread that completes a chunk does nothing else until its result is sent; a later
  chunk lacks this thread's packet and cannot complete. So one thread sends at a time,
  and results leave in the order of their chunks, each to its receivers
  (`OneBusy`, `OutInv`).
* The chunks that are not finished are fewer than the slots, so no two share one, and
  what is in a slot is what its chunk needs (`SlotInv` and what goes with it). An AllReduce
  is paced by its results, whatever follows; what paces a host in a Reduce to another is
  ACKs alone, and it may run through all Reduces of the program before the root has
  begun. `Fits` says just that: a window and one more below the number of slots for an
  AllReduce, a Reduce's packets for one that ends a program of AllReduces, all
  PSNs of the program if it is Reduces. Findings like `<<Reduce(0, 3)>>` with two
  slots, below, are outside it.
* That a Reduce ends the AllReduces is necessary for the proof: its host is paced by
  completions, those of the AllReduce before it included
  (`api.c:998` counts any), so it may return before its own packets are accepted, and a
  call after it would begin with some of them on their way.

The refinement maps `called` to the calls a host has begun; `Begin`, `PollRecv` and
`Return` are the steps of `Collectives`, all others stutter. That a result is handed over only
when all hosts have made the call follows from `OutInv`: a result that has arrived is
of a chunk all hosts have in its slot, hence have sent.

`NonTerminationProofs`, for any tree of switches, any window, message length and
number of messages, whatever is lost: `TypeCorrect` (`[]TypeOK`).

`TreeProofs`, for any tree of switches with any finite number of hosts:
`ResultsAreExact` (`[]ResultsExact`), `CompletionsAreResults`
(`[]CompletionIsResult`), `AckedWritesHaveResults` (`[]AckedIsPlaced`),
`RetransmissionsRecognised` (`[]RetransmissionsAreOnes`), `RethsOfMessages`
(`[]RethIsOfMessage`), `FanInRetransmits` (`[]FanInWillRetransmit`),
`SlotsClearedWhenDone` (`ClearedIsDone`) and `Refinement` (`ImplementsAllReduce`). Three
hypotheses, on the constants, and none can be dropped:

* `IsTree`: every way up leads to the root, as the topology's levels do
  (`TreeAssumption` alone allows a circle of switches beside the root).
* `SlotsSuffice`: there is one switch, or the call has at most `N` packets. Only the root
  clears slots; `nt_reuse` shows what the packet after these meets below it.
* `OnlyLastLost`: links lose ACKs, and of the data no packets but copies of the call's
  last. Behind another that is missing the NIC reports a gap; `nt_nak` shows what becomes
  of a report.

With one switch the first two always hold (`StarIsTree`). `nt_star` and `nt_tree` are
instances of all three.

The state has no record of what the switches have done, since slots carry no PSN and
are cleared. `TreeInv` says that there is one that explains the state: for each node *n*
below the root the number *A[n]* of its packets that were added, and for each switch *s*
the numbers *C[s]* of complete PSNs and *R[s]* of PSNs whose result is there, with
`IInv(A, C, R)`. A step of the invariance proof names the new ones: an added packet makes
*A[n]* one more (`AddOnlyInv`), the last of a PSN also *C[s]* (`ForwardToParentInv`,
`CompleteAtRootInv`), a result taken from above *R[s]* (`TakeResultInv`, and at the root
with *C*). All other steps keep them. The parts of `IInv`:

* `HostInv`: what a host has outstanding fits into `WINDOW_SIZE`, and what is
  acknowledged to it was placed.
* `NodeInv`: along every link *C* of the switch above <= *A[n]* <= what *n* has sent (a
  host's `hi`, a switch's *C[n]*) <= what *n* has got + `WINDOW_SIZE`, and what *n* has
  got <= *R* of the switch above. On the way to the switch, all that was sent and not
  added is on the link in order (`UpLink`, `Sent`), among copies: so the first new packet is the
  expected one, and a copy behind it was sent when the window had not moved on.
  `DownLink` says the same of results, so neither a NIC nor a switch ever sees a gap.
* `SwitchInv`: some port is no further than *C[s]*, and each PSN in `Held` has a slot of its
  own, which holds the sum of the packets added of it, or the result (`SlotOf`). At the root these are
  the PSNs from *C - WINDOW_SIZE* to *C + WINDOW_SIZE - 1*, and no node is outside
  that range; below it they are all PSNs of the call.

A packet of a switch carries one packet of every host under it (`SumUnder`), so that
sums of different ports never share a host: two nodes with a host below both are
above one another (`AncestorsComparable`, `PortsApart`). And what a host has placed, the
switches above it all have (`PlacedAbove`), which gives `FanInWillRetransmit`, the clearing of slots
and the refinement. Each part fails without the others, which is why none of
the properties is inductive.

Assumptions: `HostsAssumption` (finite, not empty), `SizeAssumption`,
`WindowAssumption`; `GroupAssumption`; `CapacityAssumption`, `WorldSizesAssumption`; `TreeAssumption`,
`CallAssumption`, `WindowsAgree`, `UpAssumption`; `SizesAssumption`,
`ProgramsAssumption`. `Orderly`, `IsTree`, `SlotsSuffice` and `OnlyLastLost` are not
assumptions on constants but hypotheses of the theorems that name them; the programs of
`ops_live` and three of the four of `ops_safety` satisfy `Orderly`.
Liveness is model-checked only, as are programs in which a
Broadcast follows a Reduce. No proof uses the library's induction theorems: the one
recursive function reasoned about, `Base`, is unfolded by way of a least counterexample
(`LeastNumber`, `BaseRecursion`).

## 5. Findings

1. `allreduce_ctl`: a retransmitted control message advances `agg_epsn` again
   (`switch_main.c:447`); the host's first data packet is acknowledged and never added.
2. `ops_psn`: a Broadcast uses up PSNs of the root's connection only; slots are
   indexed by absolute PSN, so a later AllReduce adds different chunks.
3. `boot_again`: the second configuration clears the open pcap handles. (`send_psn`
   is not reset either, so results would be misnumbered if the handles were kept.)
4. `nt_nak`: a NAK has the opcode of an ACK and is reflected as one
   (`non_termination_switch.c:455`): a NIC that reports PSN *k* missing is told that its own packet *k*
   has arrived, and the call copies out a buffer its result never reached.
5. `nt_reuse`: only the root clears slots (`:399, 527`), so below it the first packet of
   a slot's second lap is taken for a retransmission and answered with the old sum.

The further configurations of section 3 show more: the metadata changed by a host that
is a call ahead, results overtaken by a Broadcast, the full rule table, and the byte
order of MIDDLE and LAST packets.

Three more can be seen by putting other programs in a configuration of
`MCSwitchOps`: `ReceiversReady` fails for `<<Broadcast(0, 2)>>`
(the root does not wait for the receivers); `PacketsAnswered` fails for an AllReduce
or a Reduce followed by a Broadcast (a packet of the first call whose ACK was lost is
dropped without answer); `ResultsCorrect` fails for `<<Reduce(0, 3)>>` with two slots
(a host that is not the root is paced by ACKs alone and laps the slots).

## 6. Not modelled

* The hosts' ACKs (`handle_upstream_ack`): the state they maintain is read by nobody.
* Downlink rules: the controller generates none. Failed completions: the callers return.
* Verbs set-up, YAML syntax, frame layout, ICRC: no protocol state.
* Several groups at one controller, a configuration that is malformed, the end of a
  TCP connection, pcap failures.
* `src/switch.c`: it calls `lookup_rule` with three of its five arguments, uses a field
  `rule_t` does not have and constants nothing defines, so there is no program to model.
* `inccl_reduce_write`: nothing calls it (`host_reduce.c:88` has it commented out), and
  its root waits for receive completions that an RDMA WRITE does not produce.
* `init_topology` of the non-termination switch, packets of other opcodes, trees that
  are cut or change.
* Wrap-around of PSNs.

## 7. Plan

What is left, in this order:

1. `Orderly` extended by a Broadcast as the last call of Reduces to its root;
2. several groups at one controller.
