--------------------------- MODULE NonTerminationInv ---------------------------
(***************************************************************************)
(* The inductive invariant behind the safety properties of NonTermination: *)
(* for every tree of switches whose call fits into the slots below the      *)
(* root, and links that lose ACKs and no data packet but the call's last.   *)
(*                                                                          *)
(* The argument: A[n] packets from port n have been added, C[s] PSNs are    *)
(* complete at switch s, R[s] results are there.  A node is at most         *)
(* WINDOW_SIZE packets ahead of the results it has, so at the root the PSNs *)
(* from C - WINDOW_SIZE to C + WINDOW_SIZE - 1 have the N slots to          *)
(* themselves.  A link delivers in order: behind a copy of packet q there   *)
(* is nothing its sender sent before q had a slot, and when the copy        *)
(* arrives its slot has not been cleared.                                   *)
(***************************************************************************)
EXTENDS NonTermination

Nodes == Hosts \union Switches

(* The nodes on the way from n up, n included: what every set of nodes that *)
(* has n, and with a node its parent, has.                                  *)
Ancestors ==
    [n \in Nodes |->
       {s \in Nodes :
          \A X \in SUBSET Nodes :
             n \in X /\ (\A m \in X \intersect Below : Parent[m] \in X)
             => s \in X}]

Under == [n \in Nodes |-> {h \in Hosts : n \in Ancestors[h]}]

(* Every way up leads to the root.                                          *)
IsTree == \A n \in Below : Root \in Ancestors[n]

(* Only the root clears slots, so what goes through another switch has to   *)
(* fit: nt_reuse shows what happens otherwise.                              *)
SlotsSuffice == Switches = {Root} \/ Total <= N

(* Nothing is sent behind a data packet that can be lost: nt_nak shows what *)
(* a gap leads to.                                                          *)
OnlyLastLost == Losable \subseteq {Total - 1}

(* The first n packets of a link have a data packet with PSN q. *)
Sent(link, n, q) == \E j \in 1 .. n : IsData(link[j]) /\ link[j].psn = q

(* One packet with PSN q of every host below node n. *)
SumUnder(n, q) == [h \in Hosts |-> IF h \in Under[n] THEN <<q + 1>> ELSE << >>]

(* A data packet as node n builds it. *)
OwnPacket(n, p) ==
    /\ p.kind = KindOf(p.psn)
    /\ p.val.sum = SumUnder(n, p.psn)
    /\ p.kind = "write" /\ n \in Hosts => p.reth = p.psn

(* A result, for a host with the address it gave. *)
Result(n, p) ==
    /\ p.kind = KindOf(p.psn)
    /\ p.val.sum = ExactSum(p.psn + 1)
    /\ p.kind = "write" /\ n \in Hosts => p.reth = p.psn

(* A link to a switch carries the packets from a on that were sent, in      *)
(* order, among copies of earlier ones, and a host's ACKs of the results    *)
(* it has got.                                                              *)
UpPacket(link, k, n, a, sent, got) ==
    LET p == link[k]
    IN  /\ p.kind \in {"write", "data", "ack"}
        /\ p.kind = "ack" => n \in Hosts /\ p.psn < got
        /\ IsData(p) =>
              /\ OwnPacket(n, p)
              /\ p.psn < sent
              /\ a <= p.psn + WINDOW_SIZE
              /\ \A j \in 1 .. k - 1 :
                    IsData(link[j]) => link[j].psn < p.psn + WINDOW_SIZE
              /\ \A q \in a .. p.psn - 1 : Sent(link, k - 1, q)

UpLink(link, n, a, sent, got) ==
    /\ \A k \in 1 .. Len(link) : UpPacket(link, k, n, a, sent, got)
    /\ \A q \in a .. sent - 1 : Sent(link, Len(link), q) \/ q \in Losable

(* A link from a switch carries the results from got on that are there, in  *)
(* order, among copies of earlier ones, and ACKs of what a host placed.     *)
DownPacket(link, k, n, got, ready) ==
    LET p == link[k]
    IN  /\ p.kind \in {"write", "data", "ack"}
        /\ p.kind = "ack" => n \in Hosts /\ p.psn < got
        /\ IsData(p) =>
              /\ Result(n, p)
              /\ p.psn < ready
              /\ \A q \in got .. p.psn - 1 : Sent(link, k - 1, q)

DownLink(link, n, got, ready) ==
    /\ \A k \in 1 .. Len(link) : DownPacket(link, k, n, got, ready)
    /\ \A q \in got .. ready - 1 : Sent(link, Len(link), q) \/ q \in Losable

(* The library and the requester: the window in packets, and what is        *)
(* acknowledged was placed.                                                 *)
HostInv(h) ==
    /\ \E d \in 0 .. Messages :
          Len(dst[h]) = d * MsgLen /\ posted[h] <= d + HostWindow
    /\ Len(dst[h]) <= una[h]
    /\ una[h] <= nxt[h]
    /\ nxt[h] <= hi[h]
    /\ hi[h] <= posted[h] * MsgLen
    /\ una[h] <= Len(placed[h])

(* Packets node n has sent to its parent, and results it has from it. *)
SentBy(n, C) == IF n \in Hosts THEN hi[n] ELSE C[n]
GotBy(n, R) == IF n \in Hosts THEN Len(placed[n]) ELSE R[n]

(* Node n and the switch it is at, where a of its packets were added, c     *)
(* PSNs are complete and r results are there.                               *)
LinkInv(n, a, sent, got, c, r) ==
    /\ c <= a
    /\ a <= sent
    /\ sent <= got + WINDOW_SIZE
    /\ got <= r
    /\ UpLink(up[n], n, a, sent, got)
    /\ DownLink(down[n], n, got, r)

NodeInv(n, A, C, R) ==
    LinkInv(n, A[n], SentBy(n, C), GotBy(n, R), C[Parent[n]], R[Parent[n]])

(* Slot Idx(q) of switch s is that of PSN q: the packets added of it, or    *)
(* the result.                                                              *)
ArrivedAt(s, q, A, r) ==
    {n \in Ports(s) : q < A[n]} \union (IF q < r THEN {Up} ELSE {})

PartialSum(s, q, A) ==
    [h \in Hosts |-> IF \E n \in Ports(s) : q < A[n] /\ h \in Under[n]
                     THEN <<q + 1>> ELSE << >>]

SlotOf(s, q, A, r) ==
    /\ arrival_state[s][Idx(q)] = ArrivedAt(s, q, A, r)
    /\ aggregator[s][Idx(q)].sum =
          IF q < r THEN ExactSum(q + 1) ELSE PartialSum(s, q, A)
    /\ KindOf(q) = "write" =>
          \A h \in Ports(s) \intersect Hosts :
             q < A[h] => reth_keeper[s][Idx(q)][h] = q

(* The N PSNs that have the slots of switch s when c are complete. *)
FirstHeld(s, c) == IF s = Root /\ c > WINDOW_SIZE THEN c - WINDOW_SIZE ELSE 0
Held(s, c) == FirstHeld(s, c) .. FirstHeld(s, c) + N - 1

SwitchInv(s, A, c, r) ==
    /\ r <= c
    /\ s = Root => r = c
    /\ \E n \in Ports(s) : A[n] = c
    /\ \A q \in Held(s, c) : SlotOf(s, q, A, r)

IInv(A, C, R) ==
    /\ \A h \in Hosts : HostInv(h)
    /\ \A n \in Below : NodeInv(n, A, C, R)
    /\ \A s \in Switches : SwitchInv(s, A, C[s], R[s])

(* Some progress of the switches explains the state of hosts, slots and     *)
(* links: the invariant the proofs rest on (non_termination_switch.c:366-   *)
(* 565, api.c:735-790).                                                     *)
TreeInv ==
    \E A \in [Below -> 0 .. Total] :
        \E C \in [Switches -> 0 .. Total] :
            \E R \in [Switches -> 0 .. Total] : IInv(A, C, R)
==============================================================================
