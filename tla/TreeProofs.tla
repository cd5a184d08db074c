------------------------------- MODULE TreeProofs -------------------------------
(***************************************************************************)
(* Proofs about NonTermination for every tree of switches: the invariant of *)
(* NonTerminationInv, the safety properties that follow from it, and that   *)
(* hosts, NICs and switches implement AllReduce.                            *)
(*                                                                          *)
(* They assume that the call fits into the slots below the root, and that   *)
(* no data packet is lost but copies of the call's last.                    *)
(***************************************************************************)
EXTENDS NonTerminationProofs

------------------------------------------------------------------------------
(* Trees *)

(* Names, and which nodes are what. *)
LEMMA NodeFacts ==
    /\ Root \in Switches /\ Root \in Nodes /\ Root \notin Below
    /\ Hosts \subseteq Below /\ Below \subseteq Nodes
    /\ Switches \subseteq Nodes /\ Nodes = Below \union {Root}
    /\ Hosts \intersect Switches = {}
    /\ \A n \in Below : Parent[n] \in Switches /\ Parent[n] \in Nodes
                        /\ Parent[n] # n /\ n \in Ports(Parent[n])
    /\ \A s \in Switches : Ports(s) \subseteq Below
                           /\ \A n \in Ports(s) : Parent[n] = s
    /\ Up \notin Below
BY TreeAssumption, UpAssumption DEF Nodes, Below, Ports

LEMMA AncestorsClosed ==
    ASSUME NEW n \in Nodes
    PROVE  /\ n \in Ancestors[n] /\ Ancestors[n] \subseteq Nodes
           /\ \A m \in Ancestors[n] \intersect Below : Parent[m] \in Ancestors[n]
<1>1. Ancestors[n] = {s \in Nodes :
          \A X \in SUBSET Nodes :
             n \in X /\ (\A m \in X \intersect Below : Parent[m] \in X)
             => s \in X}
  BY DEF Ancestors
<1>2. \A m \in Below : Parent[m] \in Nodes
  BY NodeFacts
<1> QED BY <1>1, <1>2

LEMMA AncestorsLeast ==
    ASSUME NEW n \in Nodes, NEW X \in SUBSET Nodes, n \in X,
           \A m \in X \intersect Below : Parent[m] \in X
    PROVE  Ancestors[n] \subseteq X
BY DEF Ancestors

LEMMA AncestorsAbove ==
    ASSUME NEW n \in Nodes, NEW m \in Ancestors[n]
    PROVE  Ancestors[m] \subseteq Ancestors[n]
<1>1. m \in Nodes /\ Ancestors[n] \in SUBSET Nodes
  BY AncestorsClosed
<1> QED BY <1>1, AncestorsClosed, AncestorsLeast

LEMMA AncestorsStep ==
    ASSUME NEW n \in Below
    PROVE  Ancestors[n] = {n} \union Ancestors[Parent[n]]
<1> DEFINE X == {n} \union Ancestors[Parent[n]]
<1>1. n \in Nodes /\ Parent[n] \in Nodes
  BY NodeFacts
<1>2. X \in SUBSET Nodes /\ Parent[n] \in X
  BY <1>1, AncestorsClosed
<1>3. \A m \in X \intersect Below : Parent[m] \in X
  BY <1>1, <1>2, AncestorsClosed
<1>4. Ancestors[n] \subseteq X
  BY <1>1, <1>2, <1>3, AncestorsLeast
<1>5. n \in Ancestors[n] /\ Parent[n] \in Ancestors[n]
  BY <1>1, AncestorsClosed
<1>6. Ancestors[Parent[n]] \subseteq Ancestors[n]
  BY <1>1, <1>5, AncestorsAbove
<1> QED BY <1>4, <1>5, <1>6

LEMMA AncestorsOfRoot == Ancestors[Root] = {Root}
<1>1. {Root} \in SUBSET Nodes /\ {Root} \intersect Below = {}
  BY NodeFacts
<1>2. Ancestors[Root] \subseteq {Root}
  BY <1>1, NodeFacts, AncestorsLeast
<1> QED BY <1>2, NodeFacts, AncestorsClosed

(* In a tree no node is above itself. *)
LEMMA Acyclic ==
    ASSUME IsTree, NEW n \in Below
    PROVE  n \notin Ancestors[Parent[n]]
<1> SUFFICES ASSUME n \in Ancestors[Parent[n]] PROVE FALSE
  OBVIOUS
<1> DEFINE X == {t \in Ancestors[n] : n \in Ancestors[t]}
<1>1. n \in Nodes /\ n # Root
  BY NodeFacts
<1>2. n \in X /\ X \in SUBSET Nodes
  BY <1>1, AncestorsClosed
<1>3. ASSUME NEW t \in X \intersect Below PROVE Parent[t] \in X
  <2>1. Parent[t] \in Ancestors[n]
    BY <1>1, <1>3, AncestorsClosed
  <2>2. CASE t = n
    BY <2>1, <2>2
  <2>3. CASE t # n
    <3>1. Ancestors[t] = {t} \union Ancestors[Parent[t]]
      BY AncestorsStep
    <3> QED BY <2>1, <2>3, <3>1
  <2> QED BY <2>2, <2>3
<1>4. Ancestors[n] \subseteq X
  BY <1>1, <1>2, <1>3, AncestorsLeast
<1>5. n \in Ancestors[Root]
  BY <1>4 DEF IsTree
<1> QED BY <1>1, <1>5, AncestorsOfRoot

(* Of two nodes on one way up, one is above the other. *)
LEMMA AncestorsComparable ==
    ASSUME NEW n \in Nodes, NEW s \in Ancestors[n], NEW t \in Ancestors[n]
    PROVE  s \in Ancestors[t] \/ t \in Ancestors[s]
<1> DEFINE X == {u \in Ancestors[n] : s \in Ancestors[u] \/ u \in Ancestors[s]}
<1>1. n \in X /\ X \in SUBSET Nodes /\ s \in Nodes
  BY AncestorsClosed
<1>2. ASSUME NEW u \in X \intersect Below PROVE Parent[u] \in X
  <2>1. Parent[u] \in Ancestors[n]
    BY <1>2, AncestorsClosed
  <2>2. CASE u \in Ancestors[s]
    <3>1. Parent[u] \in Ancestors[s]
      BY <1>1, <2>2, AncestorsClosed
    <3> QED BY <2>1, <3>1
  <2>3. CASE u \notin Ancestors[s]
    <3>1. s \in Ancestors[u] /\ s # u
      BY <1>1, <2>3, AncestorsClosed
    <3>2. Ancestors[u] = {u} \union Ancestors[Parent[u]]
      BY AncestorsStep
    <3> QED BY <2>1, <3>1, <3>2
  <2> QED BY <2>2, <2>3
<1>3. Ancestors[n] \subseteq X
  BY <1>1, <1>2, AncestorsLeast
<1> QED BY <1>3

(* A host is below one port of a switch at most. *)
LEMMA PortsApart ==
    ASSUME IsTree, NEW s \in Switches, NEW m \in Ports(s), NEW n \in Ports(s),
           NEW h \in Hosts, h \in Under[m], h \in Under[n]
    PROVE  m = n
<1>1. m \in Below /\ n \in Below /\ h \in Nodes /\ m \in Nodes /\ n \in Nodes
      /\ Parent[m] = s /\ Parent[n] = s
  BY NodeFacts
<1>2. m \in Ancestors[h] /\ n \in Ancestors[h]
  BY <1>1 DEF Under
<1>3. ASSUME NEW x \in Below, NEW y \in Below, x # y, Parent[x] = s, Parent[y] = s
      PROVE  x \notin Ancestors[y]
  <2>1. Ancestors[y] = {y} \union Ancestors[s] /\ x \notin Ancestors[s]
    BY <1>3, AncestorsStep, Acyclic
  <2> QED BY <1>3, <2>1
<1> QED BY <1>1, <1>2, <1>3, AncestorsComparable

(* What is below a switch is below one of its ports. *)
LEMMA UnderPorts ==
    ASSUME NEW s \in Switches, NEW h \in Hosts
    PROVE  h \in Under[s] <=> \E n \in Ports(s) : h \in Under[n]
<1>1. s \in Nodes /\ h \in Nodes /\ h # s
      /\ \A n \in Ports(s) : n \in Nodes /\ n \in Below /\ Parent[n] = s
  BY NodeFacts
<1>2. ASSUME NEW n \in Ports(s), h \in Under[n] PROVE h \in Under[s]
  <2>1. n \in Ancestors[h]
    BY <1>1, <1>2 DEF Under
  <2>2. s \in Ancestors[h]
    BY <1>1, <2>1, AncestorsClosed
  <2> QED BY <1>1, <2>2 DEF Under
<1>3. ASSUME h \in Under[s], \A n \in Ports(s) : h \notin Under[n] PROVE FALSE
  <2> DEFINE X == Ancestors[h] \ {s}
  <2>1. s \in Ancestors[h] /\ \A n \in Ports(s) : n \notin Ancestors[h]
    BY <1>1, <1>3 DEF Under
  <2>2. h \in X /\ X \in SUBSET Nodes
    BY <1>1, AncestorsClosed
  <2>3. ASSUME NEW m \in X \intersect Below PROVE Parent[m] \in X
    <3>1. Parent[m] \in Ancestors[h]
      BY <1>1, <2>3, AncestorsClosed
    <3>2. Parent[m] # s
      BY <2>1, <2>3 DEF Ports
    <3> QED BY <3>1, <3>2
  <2>4. Ancestors[h] \subseteq X
    BY <1>1, <2>2, <2>3, AncestorsLeast
  <2> QED BY <2>1, <2>4
<1> QED BY <1>2, <1>3

LEMMA UnderRoot == ASSUME IsTree PROVE Under[Root] = Hosts
BY NodeFacts DEF IsTree, Under

LEMMA UnderHost == ASSUME NEW h \in Hosts PROVE Under[h] = {h}
<1>1. h \in Nodes /\ h \notin Switches /\ h \in Ancestors[h]
  BY NodeFacts, AncestorsClosed
<1>2. ASSUME NEW g \in Hosts, h \in Ancestors[g] PROVE g = h
  <2>1. g \in Below /\ Parent[g] \in Switches /\ Parent[g] \in Nodes
    BY NodeFacts
  <2>2. Ancestors[Parent[g]] \subseteq Switches
    <3>1. Switches \in SUBSET Nodes /\ \A m \in Switches \intersect Below : Parent[m] \in Switches
      BY NodeFacts
    <3> QED BY <2>1, <3>1, AncestorsLeast
  <2>3. Ancestors[g] = {g} \union Ancestors[Parent[g]]
    BY <2>1, AncestorsStep
  <2> QED BY <1>1, <1>2, <2>2, <2>3
<1> QED BY <1>1, <1>2 DEF Under

(* One switch is a tree, whatever the number of its ports. *)
LEMMA StarIsTree == ASSUME Switches = {Root} PROVE IsTree /\ SlotsSuffice
<1>1. ASSUME NEW n \in Below PROVE Root \in Ancestors[n]
  <2>1. n \in Nodes /\ Parent[n] = Root
    BY NodeFacts
  <2> QED BY <2>1, AncestorsClosed
<1> QED BY <1>1 DEF IsTree, SlotsSuffice

------------------------------------------------------------------------------
(* Links *)

LEMMA LinkPsns ==
    ASSUME NEW link \in Seq(Packets)
    PROVE  /\ \A k \in 1 .. Len(link) : link[k].psn \in Nat
           /\ link # << >> => /\ Head(link) = link[1] /\ 1 \in 1 .. Len(link)
                              /\ Head(link).psn \in Nat
<1>1. \A p \in Packets : p.psn \in Nat
  BY DEF Packets, Psns
<1>2. \A k \in 1 .. Len(link) : link[k] \in Packets
  OBVIOUS
<1> QED BY <1>1, <1>2

(* What is on a link after a packet is put on it. *)
LEMMA SentAppend ==
    ASSUME NEW link \in Seq(Packets), NEW p \in Packets, NEW q
    PROVE  /\ \A n \in 0 .. Len(link) :
                 Sent(Append(link, p), n, q) <=> Sent(link, n, q)
           /\ Sent(link, Len(link), q) => Sent(Append(link, p), Len(link) + 1, q)
           /\ IsData(p) => Sent(Append(link, p), Len(link) + 1, p.psn)
<1> DEFINE new == Append(link, p)
<1>1. /\ Len(link) \in Nat /\ Len(new) = Len(link) + 1
      /\ \A j \in 1 .. Len(link) : new[j] = link[j]
      /\ new[Len(link) + 1] = p
  OBVIOUS
<1> HIDE DEF new
<1>2. \A n \in 0 .. Len(link) : Sent(new, n, q) <=> Sent(link, n, q)
  BY <1>1 DEF Sent
<1>3. Sent(link, Len(link), q) => Sent(new, Len(link) + 1, q)
  BY <1>1 DEF Sent
<1>4. IsData(p) => Sent(new, Len(link) + 1, p.psn)
  BY <1>1 DEF Sent
<1> QED BY <1>2, <1>3, <1>4 DEF new

(* And after the first packet is taken from it. *)
LEMMA SentTail ==
    ASSUME NEW link \in Seq(Packets), link # << >>, NEW q,
           ~ (IsData(Head(link)) /\ Head(link).psn = q),
           NEW n \in 1 .. Len(link), Sent(link, n, q)
    PROVE  Sent(Tail(link), n - 1, q)
<1> DEFINE new == Tail(link)
<1>1. /\ Len(link) \in Nat /\ Len(new) = Len(link) - 1
      /\ \A j \in 1 .. Len(new) : new[j] = link[j + 1]
      /\ Head(link) = link[1]
  OBVIOUS
<1> HIDE DEF new
<1>2. PICK j \in 1 .. n : IsData(link[j]) /\ link[j].psn = q
  BY DEF Sent
<1>3. j # 1
  BY <1>1, <1>2
<1>4. j - 1 \in 1 .. n - 1 /\ j - 1 \in 1 .. Len(new)
  BY <1>1, <1>2, <1>3
<1>5. new[j - 1] = link[j]
  BY <1>1, <1>4
<1>6. Sent(new, n - 1, q)
  BY <1>2, <1>4, <1>5 DEF Sent
<1> QED BY <1>6 DEF new

(* An ACK is put on a host's link to its switch, when one more result was   *)
(* placed or none.                                                          *)
LEMMA UpAppendAck ==
    ASSUME NEW link \in Seq(Packets), NEW h \in Hosts, NEW a \in Nat,
           NEW sent \in Nat, NEW got \in Nat, NEW more \in Nat, got <= more,
           UpLink(link, h, a, sent, got),
           NEW p \in Packets, p.kind = "ack", p.psn < more
    PROVE  UpLink(Append(link, p), h, a, sent, more)
<1> DEFINE new == Append(link, p)
<1>1. /\ Len(link) \in Nat /\ Len(new) = Len(link) + 1
      /\ \A j \in 1 .. Len(link) : new[j] = link[j]
      /\ new[Len(link) + 1] = p
  OBVIOUS
<1>2. \A q : \A n \in 0 .. Len(link) : Sent(new, n, q) <=> Sent(link, n, q)
  BY SentAppend
<1>3. \A q : Sent(link, Len(link), q) => Sent(new, Len(link) + 1, q)
  BY SentAppend
<1>4. \A k \in 1 .. Len(link) : link[k] \in Packets
  OBVIOUS
<1> HIDE DEF new
<1>5. ASSUME NEW k \in 1 .. Len(new) PROVE UpPacket(new, k, h, a, sent, more)
  <2>1. CASE k \in 1 .. Len(link)
    <3>1. UpPacket(link, k, h, a, sent, got) /\ new[k] = link[k]
          /\ k - 1 \in 0 .. Len(link)
      BY <1>1, <2>1 DEF UpLink
    <3>2. \A j \in 1 .. k - 1 : new[j] = link[j]
      BY <1>1, <2>1
    <3>3. link[k].psn \in Nat
      BY <1>4, <2>1 DEF Packets, Psns
    <3> QED BY SMTT(30), <1>2, <3>1, <3>2, <3>3 DEF UpPacket
  <2>2. CASE k = Len(link) + 1
    BY <1>1, <2>2 DEF UpPacket, IsData
  <2> QED BY <1>1, <2>1, <2>2
<1>6. \A q \in a .. sent - 1 : Sent(new, Len(new), q) \/ q \in Losable
  BY <1>1, <1>3 DEF UpLink
<1>7. UpLink(new, h, a, sent, more)
  BY <1>5, <1>6 DEF UpLink
<1> QED BY <1>7 DEF new

(* A data packet is put on it, the next one or a copy.  None is behind one  *)
(* that can be lost.                                                        *)
LEMMA UpAppendData ==
    ASSUME NEW link \in Seq(Packets), NEW n, NEW a \in Nat,
           NEW sent \in Nat, NEW more \in Nat, NEW got \in Nat,
           UpLink(link, n, a, sent, got),
           NEW p \in Packets, IsData(p), OwnPacket(n, p), OnlyLastLost,
           \/ p.psn = sent /\ more = sent + 1
           \/ p.psn < sent /\ more = sent,
           a <= p.psn + WINDOW_SIZE, sent <= p.psn + WINDOW_SIZE
    PROVE  UpLink(Append(link, p), n, a, more, got)
<1> DEFINE new == Append(link, p)
<1>0. p.psn \in Nat /\ WINDOW_SIZE \in Nat /\ p.psn < Total
  BY Sizes, TotalNat DEF Packets, Psns
<1>1. /\ Len(link) \in Nat /\ Len(new) = Len(link) + 1
      /\ \A j \in 1 .. Len(link) : new[j] = link[j]
      /\ new[Len(link) + 1] = p
  OBVIOUS
<1>2. \A q : \A m \in 0 .. Len(link) : Sent(new, m, q) <=> Sent(link, m, q)
  BY SentAppend
<1>3. /\ \A q : Sent(link, Len(link), q) => Sent(new, Len(link) + 1, q)
      /\ Sent(new, Len(link) + 1, p.psn)
  BY SentAppend
<1>4. \A k \in 1 .. Len(link) : link[k].psn \in Nat
  BY LinkPsns
<1> HIDE DEF new
<1>5. ASSUME NEW k \in 1 .. Len(new) PROVE UpPacket(new, k, n, a, more, got)
  <2>1. CASE k \in 1 .. Len(link)
    <3>1. UpPacket(link, k, n, a, sent, got) /\ new[k] = link[k]
          /\ k - 1 \in 0 .. Len(link)
      BY <1>1, <2>1 DEF UpLink
    <3>2. \A j \in 1 .. k - 1 : new[j] = link[j]
      BY <1>1, <2>1
    <3>3. link[k].psn \in Nat /\ (link[k].psn < sent => link[k].psn < more)
      BY <1>4, <2>1
    <3> QED BY SMTT(30), <1>2, <3>1, <3>2, <3>3 DEF UpPacket
  <2>2. CASE k = Len(link) + 1
    <3>1. ASSUME NEW q \in a .. p.psn - 1 PROVE Sent(new, k - 1, q)
      <4>1. q \notin Losable /\ q \in a .. sent - 1
        BY <1>0, <3>1, TotalNat DEF OnlyLastLost
      <4>2. Sent(link, Len(link), q)
        BY <4>1 DEF UpLink
      <4> QED BY <1>1, <1>2, <2>2, <4>2
    <3>2. ASSUME NEW j \in 1 .. k - 1, IsData(new[j])
          PROVE  new[j].psn < p.psn + WINDOW_SIZE
      <4>1. UpPacket(link, j, n, a, sent, got) /\ new[j] = link[j]
            /\ link[j].psn \in Nat
        BY <1>1, <1>4, <2>2 DEF UpLink
      <4> QED BY SMTT(30), <1>0, <3>2, <4>1 DEF UpPacket
    <3>3. p.psn < more /\ p.kind \in {"write", "data", "ack"} /\ p.kind # "ack"
      BY <1>0 DEF IsData
    <3> QED BY <1>1, <2>2, <3>1, <3>2, <3>3 DEF UpPacket
  <2> QED BY <1>1, <2>1, <2>2
<1>6. \A q \in a .. more - 1 : Sent(new, Len(new), q) \/ q \in Losable
  BY <1>0, <1>1, <1>3 DEF UpLink
<1>7. UpLink(new, n, a, more, got)
  BY <1>5, <1>6 DEF UpLink
<1> QED BY <1>7 DEF new

(* The first packet is taken: an ACK, a copy of one added, or the next. *)
LEMMA UpTail ==
    ASSUME NEW link \in Seq(Packets), link # << >>, NEW n,
           NEW a \in Nat, NEW b \in Nat, NEW sent \in Nat, NEW got \in Nat,
           UpLink(link, n, a, sent, got),
           \/ b = a /\ (IsData(Head(link)) => Head(link).psn < a)
           \/ b = a + 1 /\ IsData(Head(link)) /\ Head(link).psn = a
    PROVE  UpLink(Tail(link), n, b, sent, got)
<1> DEFINE new == Tail(link)
<1>1. /\ Len(link) \in Nat \ {0} /\ Len(new) = Len(link) - 1
      /\ \A j \in 1 .. Len(new) : new[j] = link[j + 1]
      /\ Head(link) = link[1]
  OBVIOUS
<1>2. \A k \in 1 .. Len(link) : link[k].psn \in Nat
  BY LinkPsns
<1>3. ASSUME NEW m \in 1 .. Len(link), NEW q \in Int, b <= q, Sent(link, m, q)
      PROVE  Sent(new, m - 1, q)
  <2>1. ~ (IsData(Head(link)) /\ Head(link).psn = q)
    BY <1>1, <1>2, <1>3
  <2> QED BY <1>3, <2>1, SentTail
<1> HIDE DEF new
<1>4. ASSUME NEW k \in 1 .. Len(new) PROVE UpPacket(new, k, n, b, sent, got)
  <2> DEFINE p == new[k]
  <2>1. /\ k + 1 \in 1 .. Len(link) /\ p = link[k + 1]
        /\ UpPacket(link, k + 1, n, a, sent, got)
    BY <1>1 DEF UpLink
  <2>2. p.psn \in Nat
    BY <1>2, <2>1
  <2>3. p.kind \in {"write", "data", "ack"}
        /\ (p.kind = "ack" => n \in Hosts /\ p.psn < got)
    BY <2>1 DEF UpPacket
  <2>4. ASSUME IsData(p)
        PROVE  /\ OwnPacket(n, p) /\ p.psn < sent /\ b <= p.psn + WINDOW_SIZE
               /\ \A j \in 1 .. k - 1 :
                     IsData(new[j]) => new[j].psn < p.psn + WINDOW_SIZE
               /\ \A q \in b .. p.psn - 1 : Sent(new, k - 1, q)
    <3>1. /\ OwnPacket(n, p) /\ p.psn < sent /\ a <= p.psn + WINDOW_SIZE
          /\ \A j \in 1 .. k :
                IsData(link[j]) => link[j].psn < p.psn + WINDOW_SIZE
          /\ \A q \in a .. p.psn - 1 : Sent(link, k, q)
      BY SMTT(30), <2>1, <2>4 DEF UpPacket
    <3>2. b <= p.psn + WINDOW_SIZE
      <4>1. 1 \in 1 .. k
        BY <1>1
      <4>2. IsData(Head(link)) => Head(link).psn < p.psn + WINDOW_SIZE
        BY <1>1, <3>1, <4>1
      <4> DEFINE top == p.psn + WINDOW_SIZE
                 hd == Head(link)
      <4>5. IsData(hd) => hd.psn < top
        BY <4>2
      <4>6. b = a \/ (b = a + 1 /\ IsData(hd) /\ hd.psn = a)
        OBVIOUS
      <4> HIDE DEF top, hd
      <4>3. b = a \/ (b = a + 1 /\ a < top)
        BY ONLY <4>5, <4>6
      <4>4. p.psn + WINDOW_SIZE \in Nat
        BY <2>2, Sizes
      <4>7. a <= top /\ top \in Nat
        BY <3>1, <4>4 DEF top
      <4>8. b <= top
        BY ONLY a \in Nat, <4>3, <4>7
      <4> QED BY <4>8 DEF top
    <3>3. \A j \in 1 .. k - 1 :
             IsData(new[j]) => new[j].psn < p.psn + WINDOW_SIZE
      <4>1. \A j \in 1 .. k - 1 : j + 1 \in 1 .. k /\ new[j] = link[j + 1]
        BY <1>1
      <4> QED BY <3>1, <4>1
    <3>4. ASSUME NEW q \in b .. p.psn - 1 PROVE Sent(new, k - 1, q)
      <4>1. q \in Int /\ b <= q /\ q \in a .. p.psn - 1 /\ k \in 1 .. Len(link)
        BY <1>1, <2>2
      <4> QED BY <1>3, <3>1, <4>1
    <3> QED BY <3>1, <3>2, <3>3, <3>4
  <2> QED BY <2>3, <2>4 DEF UpPacket
<1>5. ASSUME NEW q \in b .. sent - 1
      PROVE  Sent(new, Len(new), q) \/ q \in Losable
  <2>1. q \in Int /\ b <= q /\ q \in a .. sent - 1
    OBVIOUS
  <2>2. Sent(link, Len(link), q) \/ q \in Losable
    BY <2>1 DEF UpLink
  <2> QED BY <1>1, <1>3, <2>1, <2>2
<1>6. UpLink(new, n, b, sent, got)
  BY <1>4, <1>5 DEF UpLink
<1> QED BY <1>6 DEF new

(* The first packet is lost: an ACK, or a copy of the last of the call,     *)
(* which nothing is behind.                                                 *)
LEMMA UpLost ==
    ASSUME NEW link \in Seq(Packets), link # << >>, NEW n, OnlyLastLost,
           NEW a \in Nat, NEW sent \in Nat, NEW got \in Nat,
           UpLink(link, n, a, sent, got),
           IsData(Head(link)) => Head(link).psn \in Losable
    PROVE  UpLink(Tail(link), n, a, sent, got)
<1> DEFINE new == Tail(link)
<1>1. /\ Len(link) \in Nat \ {0} /\ Len(new) = Len(link) - 1
      /\ \A j \in 1 .. Len(new) : new[j] = link[j + 1]
      /\ Head(link) = link[1] /\ \A k \in 1 .. Len(link) : link[k] \in Packets
  OBVIOUS
<1>2. \A k \in 1 .. Len(link) : link[k].psn \in Nat /\ link[k].psn < Total
  BY <1>1, TotalNat DEF Packets, Psns
<1>3. ASSUME NEW m \in 1 .. Len(link), NEW q, q \notin Losable, Sent(link, m, q)
      PROVE  Sent(new, m - 1, q)
  <2>1. ~ (IsData(Head(link)) /\ Head(link).psn = q)
    BY <1>3
  <2> QED BY <1>3, <2>1, SentTail
<1> HIDE DEF new
<1>4. ASSUME NEW k \in 1 .. Len(new) PROVE UpPacket(new, k, n, a, sent, got)
  <2> DEFINE p == new[k]
  <2>1. /\ k + 1 \in 1 .. Len(link) /\ p = link[k + 1]
        /\ UpPacket(link, k + 1, n, a, sent, got)
    BY <1>1 DEF UpLink
  <2>2. p.psn \in Nat /\ p.psn < Total
    BY <1>2, <2>1
  <2>3. p.kind \in {"write", "data", "ack"}
        /\ (p.kind = "ack" => n \in Hosts /\ p.psn < got)
    BY <2>1 DEF UpPacket
  <2>4. ASSUME IsData(p)
        PROVE  /\ OwnPacket(n, p) /\ p.psn < sent /\ a <= p.psn + WINDOW_SIZE
               /\ \A j \in 1 .. k - 1 :
                     IsData(new[j]) => new[j].psn < p.psn + WINDOW_SIZE
               /\ \A q \in a .. p.psn - 1 : Sent(new, k - 1, q)
    <3>1. /\ OwnPacket(n, p) /\ p.psn < sent /\ a <= p.psn + WINDOW_SIZE
          /\ \A j \in 1 .. k :
                IsData(link[j]) => link[j].psn < p.psn + WINDOW_SIZE
          /\ \A q \in a .. p.psn - 1 : Sent(link, k, q)
      BY SMTT(30), <2>1, <2>4 DEF UpPacket
    <3>2. \A j \in 1 .. k - 1 :
             IsData(new[j]) => new[j].psn < p.psn + WINDOW_SIZE
      <4>1. \A j \in 1 .. k - 1 : j + 1 \in 1 .. k /\ new[j] = link[j + 1]
        BY <1>1
      <4> QED BY <3>1, <4>1
    <3>3. ASSUME NEW q \in a .. p.psn - 1 PROVE Sent(new, k - 1, q)
      <4>1. q \notin Losable /\ k \in 1 .. Len(link)
        BY <1>1, <2>2, TotalNat DEF OnlyLastLost
      <4> QED BY <1>3, <3>1, <4>1
    <3> QED BY <3>1, <3>2, <3>3
  <2> QED BY <2>3, <2>4 DEF UpPacket
<1>5. \A q \in a .. sent - 1 : Sent(new, Len(new), q) \/ q \in Losable
  BY <1>1, <1>3 DEF UpLink
<1>6. UpLink(new, n, a, sent, got)
  BY <1>4, <1>5 DEF UpLink
<1> QED BY <1>6 DEF new

(* The first packet on a link is one already added, or the next. *)
LEMMA UpHead ==
    ASSUME NEW link \in Seq(Packets), link # << >>, NEW n,
           NEW a \in Nat, NEW sent \in Nat, NEW got \in Nat,
           UpLink(link, n, a, sent, got), NEW p, p = Head(link)
    PROVE  /\ p.kind \in {"write", "data", "ack"}
           /\ p.kind = "ack" => n \in Hosts /\ p.psn < got
           /\ IsData(p) => /\ OwnPacket(n, p) /\ p.psn < sent
                           /\ a <= p.psn + WINDOW_SIZE /\ p.psn <= a
<1>1. p = link[1] /\ 1 \in 1 .. Len(link) /\ p.psn \in Nat
  BY LinkPsns
<1>2. UpPacket(link, 1, n, a, sent, got)
  BY <1>1 DEF UpLink
<1>3. ASSUME IsData(p), p.psn > a PROVE FALSE
  <2>1. a \in a .. p.psn - 1
    BY <1>1, <1>3
  <2>2. Sent(link, 1 - 1, a)
    BY <1>1, <1>2, <1>3, <2>1 DEF UpPacket
  <2> QED BY <2>2 DEF Sent
<1> QED BY <1>1, <1>2, <1>3 DEF UpPacket

(* The links from the switches, likewise. *)
LEMMA DownAppend ==
    ASSUME NEW link \in Seq(Packets), NEW n, NEW got \in Nat, OnlyLastLost,
           NEW ready \in Nat, NEW more \in Nat,
           DownLink(link, n, got, ready), NEW p \in Packets,
           \/ p.kind = "ack" /\ n \in Hosts /\ p.psn < got /\ more = ready
           \/ /\ IsData(p) /\ Result(n, p)
              /\ \/ p.psn = ready /\ more = ready + 1
                 \/ p.psn < ready /\ more = ready
    PROVE  DownLink(Append(link, p), n, got, more)
<1> DEFINE new == Append(link, p)
<1>0. p.psn \in Nat /\ p.psn < Total
  BY TotalNat DEF Packets, Psns
<1>1. /\ Len(link) \in Nat /\ Len(new) = Len(link) + 1
      /\ \A j \in 1 .. Len(link) : new[j] = link[j]
      /\ new[Len(link) + 1] = p
  OBVIOUS
<1>2. \A q : \A m \in 0 .. Len(link) : Sent(new, m, q) <=> Sent(link, m, q)
  BY SentAppend
<1>3. /\ \A q : Sent(link, Len(link), q) => Sent(new, Len(link) + 1, q)
      /\ IsData(p) => Sent(new, Len(link) + 1, p.psn)
  BY SentAppend
<1>4. \A k \in 1 .. Len(link) : link[k].psn \in Nat
  BY LinkPsns
<1> HIDE DEF new
<1>5. ASSUME NEW k \in 1 .. Len(new) PROVE DownPacket(new, k, n, got, more)
  <2>1. CASE k \in 1 .. Len(link)
    <3>1. DownPacket(link, k, n, got, ready) /\ new[k] = link[k]
          /\ k - 1 \in 0 .. Len(link)
      BY <1>1, <2>1 DEF DownLink
    <3>2. link[k].psn \in Nat /\ (link[k].psn < ready => link[k].psn < more)
      BY <1>4, <2>1
    <3> QED BY <1>2, <3>1, <3>2 DEF DownPacket
  <2>2. CASE k = Len(link) + 1
    <3>1. CASE p.kind = "ack" /\ n \in Hosts /\ p.psn < got
      BY <1>1, <2>2, <3>1 DEF DownPacket, IsData
    <3>2. CASE IsData(p) /\ Result(n, p) /\ p.psn <= ready /\ p.psn < more
      <4>1. ASSUME NEW q \in got .. p.psn - 1 PROVE Sent(new, k - 1, q)
        <5>1. q \notin Losable /\ q \in got .. ready - 1
          BY <1>0, <3>2, <4>1, TotalNat DEF OnlyLastLost
        <5>2. Sent(link, Len(link), q)
          BY <5>1 DEF DownLink
        <5> QED BY <1>1, <1>2, <2>2, <5>2
      <4> QED BY <1>1, <2>2, <3>2, <4>1 DEF DownPacket, IsData
    <3> QED BY <1>0, <3>1, <3>2
  <2> QED BY <1>1, <2>1, <2>2
<1>6. \A q \in got .. more - 1 : Sent(new, Len(new), q) \/ q \in Losable
  BY <1>0, <1>1, <1>3 DEF DownLink, IsData
<1>7. DownLink(new, n, got, more)
  BY <1>5, <1>6 DEF DownLink
<1> QED BY <1>7 DEF new

LEMMA DownTail ==
    ASSUME NEW link \in Seq(Packets), link # << >>, NEW n, NEW got \in Nat,
           NEW more \in Nat, NEW ready \in Nat,
           DownLink(link, n, got, ready),
           got <= more, IsData(Head(link)) => Head(link).psn < more
    PROVE  DownLink(Tail(link), n, more, ready)
<1> DEFINE new == Tail(link)
<1>1. /\ Len(link) \in Nat \ {0} /\ Len(new) = Len(link) - 1
      /\ \A j \in 1 .. Len(new) : new[j] = link[j + 1]
      /\ Head(link) = link[1]
  OBVIOUS
<1>2. \A k \in 1 .. Len(link) : link[k].psn \in Nat
  BY LinkPsns
<1>3. ASSUME NEW m \in 1 .. Len(link), NEW q \in Int, more <= q, Sent(link, m, q)
      PROVE  Sent(new, m - 1, q)
  <2>1. ~ (IsData(Head(link)) /\ Head(link).psn = q)
    BY <1>1, <1>2, <1>3
  <2> QED BY <1>3, <2>1, SentTail
<1> HIDE DEF new
<1>4. ASSUME NEW k \in 1 .. Len(new) PROVE DownPacket(new, k, n, more, ready)
  <2> DEFINE p == new[k]
  <2>1. /\ k + 1 \in 1 .. Len(link) /\ p = link[k + 1]
        /\ DownPacket(link, k + 1, n, got, ready)
    BY <1>1 DEF DownLink
  <2>2. p.psn \in Nat
    BY <1>2, <2>1
  <2>3. p.kind \in {"write", "data", "ack"}
        /\ (p.kind = "ack" => n \in Hosts /\ p.psn < more)
    BY SMTT(30), <2>1, <2>2 DEF DownPacket
  <2>4. ASSUME IsData(p)
        PROVE  /\ Result(n, p) /\ p.psn < ready
               /\ \A q \in more .. p.psn - 1 : Sent(new, k - 1, q)
    <3>1. /\ Result(n, p) /\ p.psn < ready
          /\ \A q \in got .. p.psn - 1 : Sent(link, k, q)
      BY <2>1, <2>4 DEF DownPacket
    <3>2. ASSUME NEW q \in more .. p.psn - 1 PROVE Sent(new, k - 1, q)
      <4>1. q \in Int /\ more <= q /\ q \in got .. p.psn - 1 /\ k \in 1 .. Len(link)
        BY <1>1, <2>2
      <4> QED BY <1>3, <3>1, <4>1
    <3> QED BY <3>1, <3>2
  <2> QED BY <2>3, <2>4 DEF DownPacket
<1>5. ASSUME NEW q \in more .. ready - 1
      PROVE  Sent(new, Len(new), q) \/ q \in Losable
  <2>1. q \in Int /\ more <= q /\ q \in got .. ready - 1
    OBVIOUS
  <2>2. Sent(link, Len(link), q) \/ q \in Losable
    BY <2>1 DEF DownLink
  <2> QED BY <1>1, <1>3, <2>1, <2>2
<1>6. DownLink(new, n, more, ready)
  BY <1>4, <1>5 DEF DownLink
<1> QED BY <1>6 DEF new

LEMMA DownLost ==
    ASSUME NEW link \in Seq(Packets), link # << >>, NEW n, OnlyLastLost,
           NEW got \in Nat, NEW ready \in Nat,
           DownLink(link, n, got, ready),
           IsData(Head(link)) => Head(link).psn \in Losable
    PROVE  DownLink(Tail(link), n, got, ready)
<1> DEFINE new == Tail(link)
<1>1. /\ Len(link) \in Nat \ {0} /\ Len(new) = Len(link) - 1
      /\ \A j \in 1 .. Len(new) : new[j] = link[j + 1]
      /\ Head(link) = link[1] /\ \A k \in 1 .. Len(link) : link[k] \in Packets
  OBVIOUS
<1>2. \A k \in 1 .. Len(link) : link[k].psn \in Nat /\ link[k].psn < Total
  BY <1>1, TotalNat DEF Packets, Psns
<1>3. ASSUME NEW m \in 1 .. Len(link), NEW q, q \notin Losable, Sent(link, m, q)
      PROVE  Sent(new, m - 1, q)
  <2>1. ~ (IsData(Head(link)) /\ Head(link).psn = q)
    BY <1>3
  <2> QED BY <1>3, <2>1, SentTail
<1> HIDE DEF new
<1>4. ASSUME NEW k \in 1 .. Len(new) PROVE DownPacket(new, k, n, got, ready)
  <2> DEFINE p == new[k]
  <2>1. /\ k + 1 \in 1 .. Len(link) /\ p = link[k + 1]
        /\ DownPacket(link, k + 1, n, got, ready)
    BY <1>1 DEF DownLink
  <2>2. p.psn \in Nat /\ p.psn < Total
    BY <1>2, <2>1
  <2>3. p.kind \in {"write", "data", "ack"}
        /\ (p.kind = "ack" => n \in Hosts /\ p.psn < got)
    BY <2>1 DEF DownPacket
  <2>4. ASSUME IsData(p)
        PROVE  /\ Result(n, p) /\ p.psn < ready
               /\ \A q \in got .. p.psn - 1 : Sent(new, k - 1, q)
    <3>1. /\ Result(n, p) /\ p.psn < ready
          /\ \A q \in got .. p.psn - 1 : Sent(link, k, q)
      BY <2>1, <2>4 DEF DownPacket
    <3>2. ASSUME NEW q \in got .. p.psn - 1 PROVE Sent(new, k - 1, q)
      <4>1. q \notin Losable /\ k \in 1 .. Len(link)
        BY <1>1, <2>2, TotalNat DEF OnlyLastLost
      <4> QED BY <1>3, <3>1, <4>1
    <3> QED BY <3>1, <3>2
  <2> QED BY <2>3, <2>4 DEF DownPacket
<1>5. \A q \in got .. ready - 1 : Sent(new, Len(new), q) \/ q \in Losable
  BY <1>1, <1>3 DEF DownLink
<1>6. DownLink(new, n, got, ready)
  BY <1>4, <1>5 DEF DownLink
<1> QED BY <1>6 DEF new

LEMMA DownHead ==
    ASSUME NEW link \in Seq(Packets), link # << >>, NEW n, NEW got \in Nat,
           NEW ready \in Nat, DownLink(link, n, got, ready),
           NEW p, p = Head(link)
    PROVE  /\ p.kind \in {"write", "data", "ack"}
           /\ p.kind = "ack" => n \in Hosts /\ p.psn < got
           /\ IsData(p) => /\ Result(n, p) /\ p.psn < ready /\ p.psn <= got
<1>1. p = link[1] /\ 1 \in 1 .. Len(link) /\ p.psn \in Nat
  BY LinkPsns
<1>2. DownPacket(link, 1, n, got, ready)
  BY <1>1 DEF DownLink
<1>3. ASSUME IsData(p), p.psn > got PROVE FALSE
  <2>1. got \in got .. p.psn - 1
    BY <1>1, <1>3
  <2>2. Sent(link, 1 - 1, got)
    BY <1>1, <1>2, <1>3, <2>1 DEF DownPacket
  <2> QED BY <2>2 DEF Sent
<1> QED BY <1>1, <1>2, <1>3 DEF DownPacket

------------------------------------------------------------------------------
(* What the invariant speaks of *)

(* The types of what belongs to one host, and to one link. *)
LEMMA HostTypes ==
    ASSUME TypeOK, NEW h \in Hosts
    PROVE  /\ posted[h] \in 0 .. Messages /\ dst[h] \in Seq(Values)
           /\ una[h] \in Nat /\ nxt[h] \in Nat /\ hi[h] \in Nat
           /\ hi[h] <= Total /\ Len(placed[h]) <= Total
           /\ placed[h] \in Seq(Values) /\ Len(placed[h]) \in Nat
           /\ Len(dst[h]) \in Nat /\ Total \in Nat
BY TotalNat DEF TypeOK

LEMMA NodeTypes ==
    ASSUME TypeOK, NEW n \in Below
    PROVE  up[n] \in Seq(Packets) /\ down[n] \in Seq(Packets)
BY DEF TypeOK

(* Added, complete, and with a result. *)
Ghosts(A, C, R) ==
    /\ A \in [Below -> 0 .. Total]
    /\ C \in [Switches -> 0 .. Total]
    /\ R \in [Switches -> 0 .. Total]

LEMMA GhostTypes ==
    ASSUME TypeOK, NEW A, NEW C, NEW R, Ghosts(A, C, R), NEW n \in Below
    PROVE  /\ A[n] \in Nat /\ A[n] <= Total
           /\ C[Parent[n]] \in Nat /\ C[Parent[n]] <= Total
           /\ R[Parent[n]] \in Nat /\ R[Parent[n]] <= Total
           /\ SentBy(n, C) \in Nat /\ SentBy(n, C) <= Total
           /\ GotBy(n, R) \in Nat /\ GotBy(n, R) <= Total
           /\ Total \in Nat /\ WINDOW_SIZE \in Nat \ {0}
<1>1. A[n] \in 0 .. Total /\ C[Parent[n]] \in 0 .. Total /\ R[Parent[n]] \in 0 .. Total
  BY NodeFacts DEF Ghosts
<1>2. CASE n \in Hosts
  BY <1>1, <1>2, HostTypes, TotalNat, Sizes DEF SentBy, GotBy
<1>3. CASE n \notin Hosts
  <2>1. n \in Switches
    BY <1>3, NodeFacts DEF Nodes
  <2>2. C[n] \in 0 .. Total /\ R[n] \in 0 .. Total
    BY <2>1 DEF Ghosts
  <2> QED BY <1>1, <1>3, <2>2, TotalNat, Sizes DEF SentBy, GotBy
<1> QED BY <1>2, <1>3

LEMMA NodeOf ==
    ASSUME NEW A, NEW C, NEW R, IInv(A, C, R), NEW n \in Below
    PROVE  /\ NodeInv(n, A, C, R)
           /\ C[Parent[n]] <= A[n] /\ A[n] <= SentBy(n, C)
           /\ SentBy(n, C) <= GotBy(n, R) + WINDOW_SIZE
           /\ GotBy(n, R) <= R[Parent[n]]
           /\ UpLink(up[n], n, A[n], SentBy(n, C), GotBy(n, R))
           /\ DownLink(down[n], n, GotBy(n, R), R[Parent[n]])
<1>1. NodeInv(n, A, C, R)
  BY DEF IInv
<1> QED BY <1>1 DEF NodeInv, LinkInv

LEMMA SwitchOf ==
    ASSUME NEW A, NEW C, NEW R, IInv(A, C, R), NEW s \in Switches
    PROVE  /\ SwitchInv(s, A, C[s], R[s])
           /\ R[s] <= C[s] /\ (s = Root => R[s] = C[s])
           /\ \E n \in Ports(s) : A[n] = C[s]
           /\ \A q \in Held(s, C[s]) : SlotOf(s, q, A, R[s])
BY DEF IInv, SwitchInv

(* A node a step has nothing to do with. *)
LEMMA NodeKept ==
    ASSUME NEW A, NEW C, NEW R, NEW B, NEW D, NEW S, NEW n \in Below,
           NodeInv(n, A, C, R),
           up'[n] = up[n], down'[n] = down[n],
           n \in Hosts => hi'[n] = hi[n] /\ placed'[n] = placed[n],
           n \notin Hosts => D[n] = C[n] /\ S[n] = R[n],
           B[n] = A[n], D[Parent[n]] = C[Parent[n]], S[Parent[n]] = R[Parent[n]]
    PROVE  NodeInv(n, B, D, S)'
BY DEF NodeInv, LinkInv, SentBy, GotBy

(* And a switch. *)
LEMMA SlotKept ==
    ASSUME NEW s, NEW q, NEW A, NEW B, NEW r, NEW t, SlotOf(s, q, A, r),
           aggregator'[s][Idx(q)] = aggregator[s][Idx(q)],
           reth_keeper'[s][Idx(q)] = reth_keeper[s][Idx(q)],
           arrival_state'[s][Idx(q)] = arrival_state[s][Idx(q)],
           \A n \in Ports(s) : q < B[n] <=> q < A[n],
           q < t <=> q < r
    PROVE  SlotOf(s, q, B, t)'
<1>1. ArrivedAt(s, q, B, t) = ArrivedAt(s, q, A, r)
  BY DEF ArrivedAt
<1>2. PartialSum(s, q, B) = PartialSum(s, q, A)
  BY DEF PartialSum
<1>3. \A h \in Ports(s) \intersect Hosts : q < B[h] <=> q < A[h]
  OBVIOUS
<1> QED BY <1>1, <1>2, <1>3 DEF SlotOf

LEMMA SwitchKept ==
    ASSUME NEW A, NEW B, NEW c, NEW r, NEW s \in Switches,
           SwitchInv(s, A, c, r),
           aggregator'[s] = aggregator[s],
           reth_keeper'[s] = reth_keeper[s],
           arrival_state'[s] = arrival_state[s],
           \A n \in Ports(s) : B[n] = A[n]
    PROVE  SwitchInv(s, B, c, r)'
<1>1. ASSUME NEW q \in Held(s, c) PROVE SlotOf(s, q, B, r)'
  <2>1. SlotOf(s, q, A, r)
    BY DEF SwitchInv
  <2> QED BY <2>1, SlotKept
<1> QED BY <1>1 DEF SwitchInv

LEMMA HostKept ==
    ASSUME NEW h \in Hosts, HostInv(h),
           dst'[h] = dst[h], posted'[h] = posted[h], una'[h] = una[h],
           nxt'[h] = nxt[h], hi'[h] = hi[h], placed'[h] = placed[h]
    PROVE  HostInv(h)'
BY DEF HostInv

(* What a host has transmitted is at most a window ahead of the ACKs. *)
LEMMA HostWindowHolds ==
    ASSUME TypeOK, NEW h \in Hosts, HostInv(h)
    PROVE  /\ posted[h] * MsgLen <= una[h] + WINDOW_SIZE
           /\ hi[h] <= una[h] + WINDOW_SIZE
<1>1. PICK d \in 0 .. Messages :
         Len(dst[h]) = d * MsgLen /\ posted[h] <= d + HostWindow
  BY DEF HostInv
<1>2. posted[h] \in Nat /\ d + HostWindow \in Nat /\ MsgLen \in Nat
  BY Sizes, HostTypes
<1>3. posted[h] * MsgLen <= (d + HostWindow) * MsgLen
  BY <1>1, <1>2, MulMonotone
<1>4. (d + HostWindow) * MsgLen = d * MsgLen + HostWindow * MsgLen
  BY Sizes
<1>5. HostWindow * MsgLen <= WINDOW_SIZE /\ HostWindow * MsgLen \in Nat
      /\ posted[h] * MsgLen \in Nat
      /\ WINDOW_SIZE \in Nat
  BY <1>2, Sizes
<1>6. Len(dst[h]) <= una[h] /\ hi[h] <= posted[h] * MsgLen
  BY DEF HostInv
<1> QED BY SMTT(30), <1>1, <1>3, <1>4, <1>5, <1>6, HostTypes

(* What the results at a switch say of the hosts below it, and the packets  *)
(* complete there.                                                          *)
LEMMA PlacedAbove ==
    ASSUME TypeOK, NEW A, NEW C, NEW R, Ghosts(A, C, R), IInv(A, C, R),
           NEW h \in Hosts, NEW s \in Switches, h \in Under[s]
    PROVE  Len(placed[h]) <= R[s] /\ C[s] <= hi[h]
<1> DEFINE X == {h} \union {t \in Switches : Len(placed[h]) <= R[t] /\ C[t] <= hi[h]}
<1>1. h \in Nodes /\ s \in Nodes /\ s # h /\ X \in SUBSET Nodes
  BY NodeFacts
<1>2. ASSUME NEW t \in X \intersect Below PROVE Parent[t] \in X
  <2>1. C[Parent[t]] <= A[t] /\ A[t] <= SentBy(t, C) /\ GotBy(t, R) <= R[Parent[t]]
    BY NodeOf
  <2>2. Len(placed[h]) <= GotBy(t, R) /\ SentBy(t, C) <= hi[h]
    <3>1. CASE t = h
      BY <3>1, HostTypes DEF GotBy, SentBy
    <3>2. CASE t # h
      BY <1>2, <3>2, NodeFacts DEF GotBy, SentBy
    <3> QED BY <3>1, <3>2
  <2>3. Len(placed[h]) <= R[Parent[t]] /\ C[Parent[t]] <= hi[h]
    BY <2>1, <2>2, GhostTypes, HostTypes
  <2> QED BY <2>3, NodeFacts
<1>3. Ancestors[h] \subseteq X
  BY <1>1, <1>2, AncestorsLeast
<1>4. s \in Ancestors[h]
  BY <1>1 DEF Under
<1> QED BY <1>1, <1>3, <1>4

------------------------------------------------------------------------------
(* The hosts' steps *)

(* A step that changes the state of one host and its link, and no slot. *)
LEMMA OneHost ==
    ASSUME NEW A, NEW C, NEW R, IInv(A, C, R), NEW h \in Hosts,
           HostInv(h)', NodeInv(h, A, C, R)',
           UNCHANGED <<aggregator, reth_keeper, arrival_state>>,
           \A g \in Hosts \ {h} :
              /\ dst'[g] = dst[g] /\ posted'[g] = posted[g]
              /\ una'[g] = una[g] /\ nxt'[g] = nxt[g] /\ hi'[g] = hi[g]
              /\ placed'[g] = placed[g],
           \A n \in Below \ {h} : up'[n] = up[n] /\ down'[n] = down[n]
    PROVE  IInv(A, C, R)'
<1>1. ASSUME NEW g \in Hosts PROVE HostInv(g)'
  <2>1. CASE g # h
    BY <2>1, HostKept DEF IInv
  <2> QED BY <2>1
<1>2. ASSUME NEW n \in Below PROVE NodeInv(n, A, C, R)'
  <2>1. CASE n # h
    <3>1. NodeInv(n, A, C, R)
      BY DEF IInv
    <3> QED BY <2>1, <3>1, NodeKept
  <2> QED BY <2>1
<1>3. ASSUME NEW s \in Switches PROVE SwitchInv(s, A, C[s], R[s])'
  <2>1. SwitchInv(s, A, C[s], R[s])
    BY DEF IInv
  <2>2. ASSUME NEW c, NEW r, SwitchInv(s, A, c, r) PROVE SwitchInv(s, A, c, r)'
    BY <2>2, SwitchKept
  <2> QED BY <2>1, <2>2
<1> QED BY <1>1, <1>2, <1>3 DEF IInv

(* The library's steps, and a timeout, leave the links and the results. *)
LEMMA LibraryInv ==
    ASSUME NEW A, NEW C, NEW R, IInv(A, C, R), NEW h \in Hosts, HostInv(h)',
           UNCHANGED <<aggregator, reth_keeper, arrival_state>>,
           UNCHANGED <<hi, placed, up, down>>,
           \A g \in Hosts \ {h} :
              /\ dst'[g] = dst[g] /\ posted'[g] = posted[g]
              /\ una'[g] = una[g] /\ nxt'[g] = nxt[g]
    PROVE  IInv(A, C, R)'
<1>1. NodeInv(h, A, C, R)'
  <2>1. NodeInv(h, A, C, R) /\ h \in Below
    BY NodeFacts DEF IInv
  <2> QED BY <2>1, NodeKept
<1> QED BY <1>1, OneHost

LEMMA PostInitialInv ==
    ASSUME TypeOK, TypeOK', NEW A, NEW C, NEW R, IInv(A, C, R),
           NEW h \in Hosts, PostInitial(h)
    PROVE  IInv(A, C, R)'
<1>1. HostInv(h)
  BY DEF IInv
<1>2. /\ posted[h] = 0 /\ posted' = [posted EXCEPT ![h] = InitialWindow]
      /\ UNCHANGED <<dst, requesterVars, responderVars, slotVars, up, down>>
  BY DEF PostInitial
<1>3. InitialWindow \in Nat /\ InitialWindow <= HostWindow
  BY Sizes DEF InitialWindow
<1>4. posted'[h] = InitialWindow
  BY <1>2 DEF TypeOK
<1>5. HostInv(h)'
  <2>2. hi[h] <= 0 * MsgLen /\ 0 * MsgLen = 0
    BY <1>1, <1>2, Sizes DEF HostInv
  <2>3. InitialWindow * MsgLen \in Nat
    BY <1>3, Sizes
  <2>4. hi[h] <= InitialWindow * MsgLen
    BY <2>2, <2>3, HostTypes
  <2>5. PICK d \in 0 .. Messages : Len(dst[h]) = d * MsgLen
    BY <1>1 DEF HostInv
  <2>6. InitialWindow <= d + HostWindow
    BY <1>3, Sizes
  <2> QED BY <1>1, <1>2, <1>4, <2>4, <2>5, <2>6
          DEF HostInv, requesterVars, responderVars
<1>6. \A g \in Hosts \ {h} :
         /\ dst'[g] = dst[g] /\ posted'[g] = posted[g]
         /\ una'[g] = una[g] /\ nxt'[g] = nxt[g]
  BY SMTT(30), <1>2 DEF TypeOK, requesterVars
<1>7. UNCHANGED <<aggregator, reth_keeper, arrival_state, hi, placed, up, down>>
  BY <1>2 DEF slotVars, requesterVars, responderVars
<1> QED BY <1>5, <1>6, <1>7, LibraryInv

LEMMA PollCompletionInv ==
    ASSUME TypeOK, TypeOK', NEW A, NEW C, NEW R, IInv(A, C, R),
           NEW h \in Hosts, PollCompletion(h)
    PROVE  IInv(A, C, R)'
<1>1. HostInv(h)
  BY DEF IInv
<1>2. /\ Len(dst[h]) < Total /\ una[h] >= Len(dst[h]) + MsgLen
      /\ dst' = [dst EXCEPT ![h] = @ \o Message(h, Len(@) \div MsgLen)]
      /\ posted' = [posted EXCEPT ![h] = IF @ < Messages THEN @ + 1 ELSE @]
      /\ UNCHANGED <<requesterVars, responderVars, slotVars, up, down>>
  BY DEF PollCompletion
<1>3. Len(dst'[h]) = Len(dst[h]) + MsgLen
  <2> DEFINE m == Len(dst[h]) \div MsgLen
  <2>1. m \in Nat
    BY HostTypes, Sizes, DivMul
  <2>2. Message(h, m) \in Seq(Values) /\ Len(Message(h, m)) = MsgLen
    BY <2>1, MessageType
  <2>3. dst'[h] = dst[h] \o Message(h, m)
    BY <1>2 DEF TypeOK
  <2>4. dst[h] \in Seq(Values)
    BY HostTypes
  <2> HIDE DEF m
  <2> QED BY <2>2, <2>3, <2>4, ConcatProperties
<1>4. posted'[h] \in {posted[h], posted[h] + 1} /\ posted[h] \in Nat
  BY <1>2, HostTypes DEF TypeOK
<1>5. HostInv(h)'
  <2>2. PICK d \in 0 .. Messages :
           Len(dst[h]) = d * MsgLen /\ posted[h] <= d + HostWindow
    BY <1>1 DEF HostInv
  <2>3. d < Messages
    <3>1. CASE d >= Messages
      BY <1>2, <2>2, <3>1, Sizes, TotalNat, MulMonotone, HostTypes
    <3> QED BY <3>1, Sizes
  <2>4. Len(dst'[h]) = (d + 1) * MsgLen
    BY <1>3, <2>2, Sizes
  <2>5. d + 1 \in 0 .. Messages /\ posted'[h] <= (d + 1) + HostWindow
    BY <1>4, <2>2, <2>3, Sizes
  <2>6. posted[h] * MsgLen <= posted'[h] * MsgLen
        /\ posted[h] * MsgLen \in Nat /\ posted'[h] * MsgLen \in Nat
    BY <1>4, Sizes, MulMonotone
  <2>7. hi[h] <= posted'[h] * MsgLen
    <3>1. hi[h] <= posted[h] * MsgLen
      BY <1>1 DEF HostInv
    <3> QED BY <2>6, <3>1, HostTypes
  <2>8. Len(dst'[h]) <= una[h]
    BY <1>2, <1>3, HostTypes, Sizes
  <2> QED BY <1>1, <1>2, <2>4, <2>5, <2>7, <2>8
          DEF HostInv, requesterVars, responderVars
<1>6. \A g \in Hosts \ {h} :
         /\ dst'[g] = dst[g] /\ posted'[g] = posted[g]
         /\ una'[g] = una[g] /\ nxt'[g] = nxt[g]
  BY SMTT(30), <1>2 DEF TypeOK, requesterVars
<1>7. UNCHANGED <<aggregator, reth_keeper, arrival_state, hi, placed, up, down>>
  BY <1>2 DEF slotVars, requesterVars, responderVars
<1> QED BY <1>5, <1>6, <1>7, LibraryInv

LEMMA TimeoutInv ==
    ASSUME TypeOK, TypeOK', NEW A, NEW C, NEW R, IInv(A, C, R),
           NEW h \in Hosts, Timeout(h)
    PROVE  IInv(A, C, R)'
<1>1. HostInv(h)
  BY DEF IInv
<1>2. /\ una[h] < nxt[h] /\ nxt' = [nxt EXCEPT ![h] = una[h]]
      /\ UNCHANGED <<appVars, una, hi, responderVars, slotVars, up, down>>
  BY DEF Timeout
<1>3. nxt'[h] = una[h] /\ una[h] <= hi[h]
  BY <1>1, <1>2, HostTypes DEF TypeOK, HostInv
<1>4. HostInv(h)'
  BY <1>1, <1>2, <1>3, HostTypes DEF HostInv, appVars, responderVars
<1>5. \A g \in Hosts \ {h} :
         /\ dst'[g] = dst[g] /\ posted'[g] = posted[g]
         /\ una'[g] = una[g] /\ nxt'[g] = nxt[g]
  BY SMTT(30), <1>2 DEF TypeOK, appVars
<1>6. UNCHANGED <<aggregator, reth_keeper, arrival_state, hi, placed, up, down>>
  BY <1>2 DEF slotVars, responderVars
<1> QED BY <1>4, <1>5, <1>6, LibraryInv

(* A NIC transmits its next PSN, for the first time or again. *)
LEMMA TransmitInv ==
    ASSUME OnlyLastLost, TypeOK, TypeOK', NEW A, NEW C, NEW R,
           Ghosts(A, C, R), IInv(A, C, R), NEW h \in Hosts, Transmit(h)
    PROVE  IInv(A, C, R)'
<1> DEFINE psn == nxt[h]
           p == Packet(KindOf(psn), psn, Own(h, psn),
                       IF KindOf(psn) = "write" THEN psn ELSE NoReth)
<1>0. h \in Below
  BY NodeFacts
<1>1. HostInv(h)
  BY DEF IInv
<1>2. /\ psn < posted[h] * MsgLen
      /\ up' = [up EXCEPT ![h] = Append(@, p)]
      /\ nxt' = [nxt EXCEPT ![h] = @ + 1]
      /\ hi' = [hi EXCEPT ![h] = IF nxt[h] = @ THEN @ + 1 ELSE @]
      /\ UNCHANGED <<appVars, una, responderVars, slotVars, down>>
  BY DEF Transmit
<1>3. /\ up'[h] = Append(up[h], p) /\ nxt'[h] = psn + 1
      /\ hi'[h] = IF psn = hi[h] THEN hi[h] + 1 ELSE hi[h]
  BY <1>0, <1>2 DEF TypeOK
<1>4. /\ psn \in Nat /\ una[h] \in Nat /\ hi[h] \in Nat /\ A[h] \in Nat
      /\ Len(placed[h]) \in Nat /\ WINDOW_SIZE \in Nat
      /\ una[h] <= psn /\ psn <= hi[h] /\ A[h] <= hi[h]
      /\ hi[h] <= una[h] + WINDOW_SIZE /\ una[h] <= Len(placed[h])
      /\ posted[h] * MsgLen \in Nat /\ hi[h] <= posted[h] * MsgLen
      /\ posted[h] * MsgLen <= una[h] + WINDOW_SIZE
  <2>1. posted[h] * MsgLen \in Nat
    BY HostTypes, Sizes
  <2>2. A[h] <= hi[h] /\ A[h] \in Nat
    BY <1>0, NodeOf, GhostTypes DEF SentBy
  <2>3. hi[h] <= una[h] + WINDOW_SIZE /\ posted[h] * MsgLen <= una[h] + WINDOW_SIZE
    BY <1>1, HostWindowHolds
  <2>4. una[h] <= psn /\ psn <= hi[h] /\ hi[h] <= posted[h] * MsgLen
        /\ una[h] <= Len(placed[h])
    BY <1>1 DEF HostInv
  <2>5. /\ psn \in Nat /\ una[h] \in Nat /\ hi[h] \in Nat
        /\ Len(placed[h]) \in Nat /\ WINDOW_SIZE \in Nat
    BY HostTypes, Sizes
  <2> QED BY <2>1, <2>2, <2>3, <2>4, <2>5
<1>5. p \in Packets /\ p.psn = psn /\ IsData(p) /\ OwnPacket(h, p)
  <2>1. psn \in Psns
    <3> DEFINE top == posted[h] * MsgLen
    <3>1. top <= Total
      BY HostTypes, Sizes, TotalNat, MulMonotone
    <3>2. psn \in Nat /\ top \in Nat /\ Total \in Nat /\ psn < top
      BY <1>2, <1>4, TotalNat
    <3> HIDE DEF top, psn
    <3> QED BY <3>1, <3>2 DEF Psns
  <2>2. KindOf(psn) \in {"data", "write"} /\ Own(h, psn) \in Values
    BY <2>1, OwnType DEF KindOf
  <2> HIDE DEF psn
  <2>3. p \in Packets
    BY <2>1, <2>2, PacketType
  <2>4. p.psn = psn /\ p.kind = KindOf(psn) /\ p.val = Own(h, psn)
        /\ (p.kind = "write" => p.reth = psn)
    BY DEF Packet
  <2>5. Own(h, psn).sum = SumUnder(h, psn)
    BY UnderHost DEF Own, NoSum, SumUnder
  <2> QED BY <2>2, <2>3, <2>4, <2>5 DEF IsData, OwnPacket
<1> HIDE DEF p, psn
<1>6. UpLink(up'[h], h, A[h], hi'[h], Len(placed[h]))
  <2>1. UpLink(up[h], h, A[h], hi[h], Len(placed[h]))
    BY <1>0, NodeOf DEF SentBy, GotBy
  <2>2. \/ p.psn = hi[h] /\ hi'[h] = hi[h] + 1
        \/ p.psn < hi[h] /\ hi'[h] = hi[h]
    BY <1>3, <1>4, <1>5
  <2>3. A[h] <= p.psn + WINDOW_SIZE /\ hi[h] <= p.psn + WINDOW_SIZE
    BY <1>4, <1>5
  <2>4. hi'[h] \in Nat
    BY <1>3, <1>4
  <2>5. up[h] \in Seq(Packets)
    BY <1>0, NodeTypes
  <2>6. UpLink(Append(up[h], p), h, A[h], hi'[h], Len(placed[h]))
    BY <1>4, <1>5, <2>1, <2>2, <2>3, <2>4, <2>5, UpAppendData
  <2> QED BY <1>3, <2>6
<1>7. una[h] <= nxt'[h] /\ nxt'[h] <= hi'[h] /\ hi'[h] <= posted[h] * MsgLen
  <2> DEFINE top == posted[h] * MsgLen
  <2>1. top \in Nat /\ psn < top /\ hi[h] <= top
    BY <1>2, <1>4
  <2> HIDE DEF top
  <2>2. una[h] <= nxt'[h] /\ nxt'[h] <= hi'[h] /\ hi'[h] <= top
    BY SMTT(30), <1>3, <1>4, <2>1
  <2> QED BY <2>2 DEF top
<1>8. HostInv(h)'
  BY <1>1, <1>2, <1>7 DEF HostInv, appVars, responderVars
<1>9. NodeInv(h, A, C, R)'
  <2>1. A[h] <= hi'[h] /\ hi'[h] <= Len(placed[h]) + WINDOW_SIZE
    <3> DEFINE top == posted[h] * MsgLen
    <3>1. top \in Nat /\ top <= una[h] + WINDOW_SIZE /\ hi'[h] <= top
      BY <1>4, <1>7
    <3>2. hi'[h] \in Nat /\ hi[h] <= hi'[h]
      BY <1>3, <1>4
    <3> HIDE DEF top
    <3> QED BY <1>4, <3>1, <3>2
  <2>2. placed' = placed /\ down' = down
    BY <1>2 DEF responderVars
  <2>3. NodeInv(h, A, C, R)
    BY <1>0, NodeOf
  <2> QED BY <1>6, <2>1, <2>2, <2>3 DEF NodeInv, LinkInv, SentBy, GotBy
<1>10. \A g \in Hosts \ {h} :
         /\ dst'[g] = dst[g] /\ posted'[g] = posted[g]
         /\ una'[g] = una[g] /\ nxt'[g] = nxt[g] /\ hi'[g] = hi[g]
         /\ placed'[g] = placed[g]
  BY SMTT(30), <1>2 DEF TypeOK, appVars, responderVars
<1>11. \A n \in Below \ {h} : up'[n] = up[n] /\ down'[n] = down[n]
  BY <1>2 DEF TypeOK
<1>12. UNCHANGED <<aggregator, reth_keeper, arrival_state>>
  BY <1>2 DEF slotVars
<1> QED BY <1>8, <1>9, <1>10, <1>11, <1>12, OneHost

(* A NIC receives an ACK, the next result, or a copy of an earlier one. *)
LEMMA ReceiveInv ==
    ASSUME OnlyLastLost, TypeOK, TypeOK', NEW A, NEW C, NEW R,
           Ghosts(A, C, R), IInv(A, C, R), NEW h \in Hosts, Receive(h)
    PROVE  IInv(A, C, R)' /\ (ResultsExact => ResultsExact')
<1> DEFINE p == Head(down[h])
           got == Len(placed[h])
           ready == R[Parent[h]]
<1>0. h \in Below
  BY NodeFacts
<1>1. HostInv(h) /\ NodeInv(h, A, C, R)
  BY <1>0 DEF IInv
<1>2. /\ down[h] # << >>
      /\ TakeAck(h, p) \/ Place(h, p) \/ AnswerAgain(h, p) \/ ReportGap(h, p)
      /\ down' = [down EXCEPT ![h] = Tail(@)]
      /\ UNCHANGED <<appVars, hi, slotVars>>
  BY DEF Receive
<1>3. down'[h] = Tail(down[h])
  BY <1>0, <1>2 DEF TypeOK
<1>4. /\ una[h] \in Nat /\ nxt[h] \in Nat /\ hi[h] \in Nat /\ A[h] \in Nat
      /\ ready \in Nat /\ got \in Nat /\ p.psn \in Nat /\ p \in Packets
      /\ una[h] <= nxt[h] /\ nxt[h] <= hi[h] /\ una[h] <= got /\ got <= ready
      /\ hi[h] <= got + WINDOW_SIZE /\ WINDOW_SIZE \in Nat
  <2>1. p.psn \in Nat /\ p \in Packets
    BY <1>0, <1>2, NodeTypes, LinkPsns
  <2>2. got <= ready /\ hi[h] <= got + WINDOW_SIZE /\ A[h] \in Nat /\ ready \in Nat
        /\ WINDOW_SIZE \in Nat
    BY <1>0, NodeOf, GhostTypes DEF GotBy, SentBy
  <2>3. una[h] <= nxt[h] /\ nxt[h] <= hi[h] /\ una[h] <= got
    BY <1>1 DEF HostInv
  <2> QED BY <2>1, <2>2, <2>3, HostTypes
<1>5. /\ p.kind \in {"write", "data", "ack"}
      /\ p.kind = "ack" => p.psn < got
      /\ IsData(p) => Result(h, p) /\ p.psn < ready /\ p.psn <= got
  <2>1. DownLink(down[h], h, got, ready)
    BY <1>0, NodeOf DEF GotBy
  <2> QED BY <1>0, <1>2, <1>4, <2>1, NodeTypes, DownHead
<1>6. ASSUME NEW more \in Nat, got <= more, IsData(p) => p.psn < more
      PROVE  DownLink(down'[h], h, more, ready)
  <2>1. DownLink(down[h], h, got, ready)
    BY <1>0, NodeOf DEF GotBy
  <2> QED BY <1>0, <1>2, <1>3, <1>4, <1>6, <2>1, NodeTypes, DownTail
<1>7. ASSUME NEW psn \in Psns, NEW more \in Nat, got <= more, psn < more,
             Answer(h, "ack", psn)
      PROVE  /\ UpLink(up'[h], h, A[h], hi[h], more)
             /\ \A n \in Below \ {h} : up'[n] = up[n]
  <2> DEFINE a == Packet("ack", psn, Zero, NoReth)
  <2>1. up'[h] = Append(up[h], a) /\ \A n \in Below \ {h} : up'[n] = up[n]
    BY <1>0, <1>7 DEF TypeOK, Answer
  <2>2. a \in Packets /\ a.kind = "ack" /\ a.psn = psn
    BY ZeroType DEF Packet, Packets
  <2>3. UpLink(up[h], h, A[h], hi[h], got)
    BY <1>0, NodeOf DEF GotBy, SentBy
  <2>4. up[h] \in Seq(Packets)
    BY <1>0, NodeTypes
  <2> HIDE DEF a, got
  <2> QED BY SMTT(30), <1>4, <1>7, <2>1, <2>2, <2>3, <2>4, UpAppendAck
<1>8. \A n \in Below \ {h} : down'[n] = down[n]
  BY <1>2 DEF TypeOK
<1>13. UNCHANGED <<aggregator, reth_keeper, arrival_state>>
  BY <1>2 DEF slotVars
<1>14. C[Parent[h]] <= A[h] /\ A[h] <= hi[h]
  BY <1>0, NodeOf DEF SentBy
<1> HIDE DEF p, got, ready
<1>15. ASSUME NEW more \in Nat, Len(placed'[h]) = more, got <= more, more <= ready,
              UpLink(up'[h], h, A[h], hi[h], more),
              DownLink(down'[h], h, more, ready)
       PROVE  NodeInv(h, A, C, R)'
  <2>1. hi'[h] = hi[h] /\ hi[h] <= more + WINDOW_SIZE
    BY <1>2, <1>4, <1>15
  <2> QED BY <1>14, <1>15, <2>1 DEF NodeInv, LinkInv, SentBy, GotBy, ready
<1>9. CASE TakeAck(h, p)
  <2>1. /\ una' = [una EXCEPT ![h] = IF @ <= p.psn /\ p.psn < hi[h]
                                     THEN p.psn + 1 ELSE @]
        /\ nxt' = [nxt EXCEPT ![h] = IF @ < una'[h] THEN una'[h] ELSE @]
        /\ UNCHANGED <<up, placed>> /\ p.psn < got /\ ~ IsData(p)
    BY <1>5, <1>9 DEF TakeAck, responderVars, IsData
  <2>2. una[h] <= una'[h] /\ una'[h] <= got /\ una'[h] <= hi[h] /\ una'[h] \in Nat
    <3>1. una'[h] = IF una[h] <= p.psn /\ p.psn < hi[h] THEN p.psn + 1 ELSE una[h]
      BY <2>1 DEF TypeOK
    <3>2. una[h] <= hi[h]
      BY <1>4
    <3> QED BY <1>4, <2>1, <3>1, <3>2
  <2>3. una'[h] <= nxt'[h] /\ nxt'[h] <= hi[h]
    BY SMTT(30), <1>4, <2>1, <2>2 DEF TypeOK
  <2>4. DownLink(down'[h], h, got, ready)
    BY <1>4, <1>6, <2>1
  <2>5. HostInv(h)'
    <3>1. Len(dst[h]) <= una'[h]
      BY SMTT(30), <1>1, <1>4, <2>2, HostTypes DEF HostInv
    <3> QED BY <1>1, <1>2, <2>1, <2>2, <2>3, <3>1 DEF HostInv, appVars, got
  <2>6. NodeInv(h, A, C, R)'
    <3>1. UpLink(up'[h], h, A[h], hi[h], got) /\ Len(placed'[h]) = got
      BY <1>0, <2>1, NodeOf DEF SentBy, GotBy, got
    <3> QED BY <1>4, <1>15, <2>4, <3>1
  <2>7. IInv(A, C, R)'
    <3>1. \A g \in Hosts \ {h} : una'[g] = una[g] /\ nxt'[g] = nxt[g]
      BY <2>1 DEF TypeOK
    <3>2. \A g \in Hosts \ {h} :
             /\ dst'[g] = dst[g] /\ posted'[g] = posted[g] /\ hi'[g] = hi[g]
             /\ placed'[g] = placed[g]
      BY <1>2, <2>1 DEF appVars
    <3>3. \A n \in Below \ {h} : up'[n] = up[n]
      BY <2>1
    <3> QED BY <1>8, <1>13, <2>5, <2>6, <3>1, <3>2, <3>3, OneHost
  <2> QED BY <2>1, <2>7 DEF ResultsExact
<1>10. CASE Place(h, p)
  <2>1. /\ IsData(p) /\ p.psn = got
        /\ placed' = [placed EXCEPT ![h] = Append(@, p.val)]
        /\ Answer(h, "ack", p.psn) /\ UNCHANGED <<una, nxt>>
    BY <1>5, <1>10 DEF Place, IsData, got
  <2>2. placed'[h] = Append(placed[h], p.val) /\ Len(placed'[h]) = got + 1
    BY <2>1, HostTypes DEF TypeOK, got
  <2>3. p.psn \in Psns /\ p.val \in Values
    BY <1>4 DEF Packets
  <2>4. DownLink(down'[h], h, got + 1, ready)
    BY <1>4, <1>6, <2>1
  <2>5. /\ UpLink(up'[h], h, A[h], hi[h], got + 1)
        /\ \A n \in Below \ {h} : up'[n] = up[n]
    BY <1>4, <1>7, <2>1, <2>3
  <2>6. una[h] <= got + 1 /\ got + 1 <= ready
    BY <1>4, <1>5, <2>1
  <2>7. HostInv(h)'
    BY <1>1, <1>2, <2>1, <2>2, <2>6 DEF HostInv, appVars
  <2>8. NodeInv(h, A, C, R)'
    BY <1>4, <1>15, <2>2, <2>4, <2>5, <2>6
  <2>9. \A g \in Hosts \ {h} :
           /\ dst'[g] = dst[g] /\ posted'[g] = posted[g]
           /\ una'[g] = una[g] /\ nxt'[g] = nxt[g] /\ hi'[g] = hi[g]
           /\ placed'[g] = placed[g]
    BY SMTT(30), <1>2, <2>1 DEF TypeOK, appVars
  <2>12. IInv(A, C, R)'
    BY <1>8, <1>13, <2>5, <2>7, <2>8, <2>9, OneHost
  <2>10. ASSUME ResultsExact PROVE ResultsExact'
    <3>1. p.val.sum = ExactSum(got + 1)
      BY <1>5, <2>1 DEF Result
    <3>2. ASSUME NEW g \in Hosts, NEW k \in 1 .. Len(placed'[g])
          PROVE  placed'[g][k].sum = ExactSum(k)
      <4>1. CASE g = h
        <5>0. placed[h] \in Seq(Values) /\ Len(placed[h]) = got
          BY HostTypes DEF got
        <5>1. k \in 1 .. got => placed'[g][k] = placed[h][k]
          <6>1. \A j \in 1 .. got : Append(placed[h], p.val)[j] = placed[h][j]
            BY <2>3, <5>0, AppendProperties
          <6> QED BY <2>2, <4>1, <6>1
        <5>2. k = got + 1 => placed'[g][k] = p.val
          BY <2>2, <2>3, <4>1, <5>0
        <5>3. k \in 1 .. got \/ k = got + 1
          BY <1>4, <2>2, <3>2, <4>1
        <5> QED BY <2>10, <3>1, <5>1, <5>2, <5>3 DEF ResultsExact, got
      <4>2. CASE g # h
        BY <2>1, <2>10, <3>2, <4>2 DEF ResultsExact, TypeOK
      <4> QED BY <4>1, <4>2
    <3> QED BY <3>2 DEF ResultsExact
  <2> QED BY <2>12, <2>10
<1>11. CASE AnswerAgain(h, p)
  <2>1. /\ IsData(p) /\ p.psn < got /\ Answer(h, "ack", got - 1)
        /\ UNCHANGED <<una, nxt, placed>>
    BY <1>5, <1>11 DEF AnswerAgain, responderVars, IsData, got
  <2>2. DownLink(down'[h], h, got, ready)
    BY <1>4, <1>6, <2>1
  <2>3. got - 1 \in Psns
    BY SMTT(30), <1>4, <2>1, TotalNat DEF TypeOK, Psns, got
  <2>4. /\ UpLink(up'[h], h, A[h], hi[h], got)
        /\ \A n \in Below \ {h} : up'[n] = up[n]
    BY <1>4, <1>7, <2>1, <2>3
  <2>5. HostInv(h)'
    BY <1>1, <1>2, <2>1 DEF HostInv, appVars
  <2>9. NodeInv(h, A, C, R)'
    <3>1. Len(placed'[h]) = got
      BY <2>1 DEF got
    <3> QED BY <1>4, <1>15, <2>2, <2>4, <3>1
  <2>6. \A g \in Hosts \ {h} :
           /\ dst'[g] = dst[g] /\ posted'[g] = posted[g]
           /\ una'[g] = una[g] /\ nxt'[g] = nxt[g] /\ hi'[g] = hi[g]
           /\ placed'[g] = placed[g]
    BY SMTT(30), <1>2, <2>1 DEF TypeOK, appVars
  <2>8. IInv(A, C, R)'
    BY <1>8, <1>13, <2>4, <2>5, <2>6, <2>9, OneHost
  <2> QED BY <2>1, <2>8 DEF ResultsExact
<1>12. CASE ReportGap(h, p)
  BY <1>4, <1>5, <1>12 DEF ReportGap, IsData, got
<1> QED BY <1>2, <1>9, <1>10, <1>11, <1>12 DEF p

(* What is copied out for a complete message has been placed. *)
LEMMA PollCompletionExact ==
    ASSUME TypeOK, NEW h \in Hosts, HostInv(h),
           una[h] <= Len(placed[h]), PollCompletion(h),
           ResultsExact, CompletionIsResult
    PROVE  CompletionIsResult'
<1> DEFINE len == Len(dst[h])
           m == len \div MsgLen
<1>1. /\ una[h] >= len + MsgLen
      /\ dst' = [dst EXCEPT ![h] = @ \o Message(h, m)]
  BY DEF PollCompletion
<1>2. len \in Nat /\ una[h] \in Nat /\ Len(placed[h]) \in Nat
      /\ dst[h] \in Seq(Values) /\ MsgLen \in Nat \ {0}
  BY HostTypes, Sizes
<1>3. m \in Nat /\ m * MsgLen = len
  <2>1. PICK d \in 0 .. Messages : len = d * MsgLen
    BY DEF HostInv
  <2> QED BY <1>2, <2>1, DivMul
<1>4. Message(h, m) \in Seq(Values) /\ Len(Message(h, m)) = MsgLen
  BY <1>3, MessageType
<1>5. ASSUME NEW k \in 1 .. MsgLen
      PROVE  Message(h, m)[k].sum = ExactSum(len + k)
  <2>1. Message(h, m)[k] = Content(h, len + k - 1)
    BY <1>3 DEF Message
  <2>2. len + k - 1 < Len(placed[h]) /\ (len + k - 1) + 1 = len + k
        /\ len + k \in 1 .. Len(placed[h])
    BY <1>1, <1>2
  <2>3. Message(h, m)[k] = placed[h][len + k]
    BY <2>1, <2>2 DEF Content
  <2> QED BY <2>2, <2>3 DEF ResultsExact
<1>6. dst'[h] = dst[h] \o Message(h, m)
  BY <1>1 DEF TypeOK
<1> HIDE DEF m
<1>7. /\ Len(dst'[h]) = len + MsgLen
      /\ \A k \in 1 .. len : dst'[h][k] = dst[h][k]
      /\ \A k \in len + 1 .. len + MsgLen : dst'[h][k] = Message(h, m)[k - len]
  <2> DEFINE msg == Message(h, m)
  <2> HIDE DEF msg
  <2>1. msg \in Seq(Values) /\ Len(msg) = MsgLen /\ dst'[h] = dst[h] \o msg
    BY <1>4, <1>6 DEF msg
  <2>2. /\ Len(dst'[h]) = len + MsgLen
        /\ \A k \in 1 .. len + MsgLen :
              dst'[h][k] = IF k <= len THEN dst[h][k] ELSE msg[k - len]
    <3>1. dst[h] \in Seq(Values) /\ msg \in Seq(Values)
      BY <1>2, <2>1
    <3>2. /\ Len(dst[h] \o msg) = Len(dst[h]) + Len(msg)
          /\ \A k \in 1 .. Len(dst[h]) + Len(msg) :
                (dst[h] \o msg)[k] =
                  IF k <= Len(dst[h]) THEN dst[h][k] ELSE msg[k - Len(dst[h])]
      BY <3>1, ConcatProperties, Zenon
    <3> QED BY <2>1, <3>2, Zenon
  <2>3. \A k \in 1 .. len : k \in 1 .. len + MsgLen /\ k <= len
    BY <1>2
  <2>4. \A k \in len + 1 .. len + MsgLen : k \in 1 .. len + MsgLen /\ ~ (k <= len)
    BY <1>2
  <2> QED BY <2>2, <2>3, <2>4 DEF msg
<1> SUFFICES ASSUME NEW g \in Hosts, NEW k \in 1 .. Len(dst'[g])
             PROVE  dst'[g][k].sum = ExactSum(k)
  BY DEF CompletionIsResult
<1>8. CASE g = h /\ k \in 1 .. len
  BY <1>7, <1>8 DEF CompletionIsResult
<1>9. CASE g = h /\ k \in len + 1 .. len + MsgLen
  <2>1. k - len \in 1 .. MsgLen /\ len + (k - len) = k
    BY <1>2, <1>9
  <2> QED BY <1>5, <1>7, <1>9, <2>1
<1>10. CASE g # h
  BY <1>1, <1>10 DEF CompletionIsResult, TypeOK
<1> QED BY <1>2, <1>7, <1>8, <1>9, <1>10

------------------------------------------------------------------------------
(* The switches' slots *)

LEMMA SlotApart ==
    ASSUME NEW p \in Nat, NEW q \in Nat, p # q, p - q < N, q - p < N
    PROVE  Idx(p) # Idx(q)
BY Sizes, SlotInjective DEF Idx

LEMMA SlotSelf == \A q \in 0 .. N - 1 : q \in Nat /\ Idx(q) = q
BY Sizes DEF Idx

LEMMA FirstHeldNat ==
    ASSUME NEW s, NEW c \in Nat
    PROVE  FirstHeld(s, c) \in Nat
BY Sizes DEF FirstHeld

(* The PSNs that have slots have one each. *)
LEMMA HeldApart ==
    ASSUME NEW s, NEW c \in Nat, NEW q \in Held(s, c)
    PROVE  /\ q \in Nat /\ Idx(q) \in Slots
           /\ \A k \in Held(s, c) : k # q => Idx(k) # Idx(q)
<1> DEFINE lo == FirstHeld(s, c)
<1>1. lo \in Nat /\ N \in Nat
  BY FirstHeldNat, Sizes
<1>2. Held(s, c) = lo .. lo + N - 1
  BY DEF Held
<1> HIDE DEF lo
<1>3. q \in Nat
  BY <1>1, <1>2
<1>4. ASSUME NEW k \in Held(s, c), k # q PROVE Idx(k) # Idx(q)
  <2>1. k \in Nat /\ k - q < N /\ q - k < N
    BY <1>1, <1>2
  <2> QED BY <1>3, <1>4, <2>1, SlotApart
<1> QED BY <1>3, <1>4, IdxInSlots

(* At the root, where slots are cleared, and below it. *)
LEMMA HeldRoot ==
    ASSUME NEW c \in Nat, NEW q \in Nat, c <= q + WINDOW_SIZE, q < c + WINDOW_SIZE
    PROVE  q \in Held(Root, c)
<1>1. WINDOW_SIZE \in Nat /\ N = 2 * WINDOW_SIZE
  BY Sizes
<1>2. CASE c > WINDOW_SIZE
  <2>1. FirstHeld(Root, c) = c - WINDOW_SIZE
    BY <1>2 DEF FirstHeld
  <2> QED BY <1>1, <2>1 DEF Held
<1>3. CASE ~ (c > WINDOW_SIZE)
  <2>1. FirstHeld(Root, c) = 0
    BY <1>3 DEF FirstHeld
  <2> QED BY <1>1, <1>3, <2>1 DEF Held
<1> QED BY <1>2, <1>3

LEMMA HeldNext ==
    ASSUME NEW q \in Nat, NEW k \in Held(Root, q + 1), k # q,
           k # q + WINDOW_SIZE
    PROVE  /\ k \in Nat /\ k \in Held(Root, q) /\ q - k < N /\ k - q < N
           /\ (q + WINDOW_SIZE) - k < N /\ k - (q + WINDOW_SIZE) < N
<1> DEFINE W == WINDOW_SIZE
<1>1. W \in Nat \ {0} /\ N = 2 * W /\ N \in Nat
  BY Sizes
<1>2. /\ \A c : c > W => Held(Root, c) = c - W .. c - W + N - 1
      /\ \A c : ~ (c > W) => Held(Root, c) = 0 .. 0 + N - 1
  BY DEF Held, FirstHeld
<1> HIDE DEF W
<1>3. k # q + W
  BY DEF W
<1>4. CASE q + 1 > W
  <2> DEFINE c == q + 1
  <2>0. k \in Held(Root, c) /\ c > W
    BY <1>4
  <2> HIDE DEF c
  <2>00. Held(Root, c) = c - W .. c - W + N - 1
    BY <2>0 DEF Held, FirstHeld, W
  <2>a. k \in c - W .. c - W + N - 1
    BY <2>0, <2>00
  <2>1. k \in q + 1 - W .. q + 1 - W + N - 1
    BY <1>1, <2>a DEF c
  <2>2. /\ k \in Nat /\ k \in q - W .. q - W + N - 1 /\ k \in 0 .. q + W - 1
        /\ q - k < N /\ k - q < N /\ (q + W) - k < N /\ k - (q + W) < N
    BY ONLY q \in Nat, k # q, <1>1, <1>3, <1>4, <2>1, SMTT(30)
  <2>3. k \in Held(Root, q)
    <3>1. CASE q > W
      BY <1>2, <2>2, <3>1
    <3>2. CASE ~ (q > W)
      <4>1. k \in 0 .. 0 + N - 1
        BY ONLY q \in Nat, <1>1, <2>2, <3>2
      <4> QED BY <1>2, <3>2, <4>1
    <3> QED BY <3>1, <3>2
  <2> QED BY <2>2, <2>3 DEF W
<1>5. CASE ~ (q + 1 > W)
  <2>1. k \in 0 .. 0 + N - 1
    BY <1>2, <1>5
  <2>2. /\ k \in Nat /\ ~ (q > W)
        /\ q - k < N /\ k - q < N /\ (q + W) - k < N /\ k - (q + W) < N
    BY ONLY q \in Nat, <1>1, <1>5, <2>1, SMTT(30)
  <2>3. k \in Held(Root, q)
    BY <1>2, <2>1, <2>2
  <2> QED BY <2>2, <2>3 DEF W
<1> QED BY <1>4, <1>5

LEMMA HeldBelow ==
    ASSUME NEW s \in Switches \ {Root}, NEW c
    PROVE  Held(s, c) = Slots
BY Sizes DEF Held, FirstHeld, Slots

LEMMA PsnsFit ==
    ASSUME SlotsSuffice, NEW s \in Switches \ {Root}, NEW q \in Nat, q < Total
    PROVE  q \in Slots /\ Idx(q) = q
<1>1. Total <= N /\ Total \in Nat /\ N \in Nat
  BY Sizes, TotalNat DEF SlotsSuffice
<1>2. q \in 0 .. N - 1
  BY <1>1
<1> QED BY <1>2, SlotSelf DEF Slots

(* What the slot of an arriving data packet holds. *)
LEMMA HeadSlot ==
    ASSUME SlotsSuffice, TypeOK, NEW A, NEW C, NEW R,
           Ghosts(A, C, R), IInv(A, C, R),
           NEW n \in Below, up[n] # << >>, IsData(Head(up[n])),
           NEW q, q = Head(up[n]).psn, NEW s, s = Parent[n]
    PROVE  /\ Head(up[n]) \in Packets /\ q \in Psns /\ q \in Nat
           /\ q < SentBy(n, C) /\ q <= A[n]
           /\ A[n] <= q + WINDOW_SIZE /\ OwnPacket(n, Head(up[n]))
           /\ q \in Held(s, C[s]) /\ SlotOf(s, q, A, R[s])
           /\ n \in arrival_state[s][Idx(q)] <=> q < A[n]
           /\ Up \in arrival_state[s][Idx(q)] <=> q < R[s]
<1>1. /\ C[s] <= A[n] /\ A[n] <= SentBy(n, C)
      /\ SentBy(n, C) <= GotBy(n, R) + WINDOW_SIZE /\ GotBy(n, R) <= R[s]
      /\ UpLink(up[n], n, A[n], SentBy(n, C), GotBy(n, R))
  BY NodeOf
<1>2. /\ A[n] \in Nat /\ C[s] \in Nat /\ R[s] \in Nat /\ SentBy(n, C) \in Nat
      /\ GotBy(n, R) \in Nat /\ WINDOW_SIZE \in Nat /\ SentBy(n, C) <= Total
      /\ Total \in Nat
  BY GhostTypes
<1>3. Head(up[n]) \in Packets /\ q \in Nat
  BY NodeTypes, LinkPsns
<1>4. /\ OwnPacket(n, Head(up[n])) /\ q < SentBy(n, C)
      /\ A[n] <= q + WINDOW_SIZE /\ q <= A[n]
  BY <1>1, <1>2, NodeTypes, UpHead
<1>5. s \in Switches /\ R[s] <= C[s]
  BY NodeFacts, SwitchOf
<1>6. q \in Held(s, C[s])
  <2>1. CASE s = Root
    <3>1. ASSUME NEW a \in Nat, NEW c \in Nat, NEW r \in Nat, NEW sent \in Nat,
                 NEW got \in Nat, c <= a, r <= c, got <= r, a <= q + WINDOW_SIZE,
                 sent <= got + WINDOW_SIZE, q < sent
          PROVE  c <= q + WINDOW_SIZE /\ q < c + WINDOW_SIZE
      BY SMTT(30), <1>2, <1>3, <3>1
    <3>2. C[s] <= q + WINDOW_SIZE /\ q < C[s] + WINDOW_SIZE
      BY <1>1, <1>2, <1>4, <1>5, <3>1
    <3> QED BY <1>2, <1>3, <2>1, <3>2, HeldRoot
  <2>2. CASE s # Root
    <3>1. q < Total
      BY <1>2, <1>3, <1>4
    <3> QED BY <1>3, <1>5, <2>2, <3>1, PsnsFit, HeldBelow
  <2> QED BY <2>1, <2>2
<1>7. SlotOf(s, q, A, R[s])
  BY <1>5, <1>6, SwitchOf
<1>8. /\ n \in arrival_state[s][Idx(q)] <=> q < A[n]
      /\ Up \in arrival_state[s][Idx(q)] <=> q < R[s]
  <2>1. n \in Ports(s) /\ Up \notin Ports(s) /\ n # Up
    BY <1>5, NodeFacts
  <2> QED BY <1>7, <2>1 DEF SlotOf, ArrivedAt
<1> QED BY <1>3, <1>4, <1>6, <1>7, <1>8 DEF Packets

(* When all ports have sent their packet, the sum is that of all hosts      *)
(* below.                                                                   *)
LEMMA AllInSum ==
    ASSUME IsTree, NEW s \in Switches, NEW q, NEW B,
           \A m \in Ports(s) : q < B[m]
    PROVE  /\ PartialSum(s, q, B) = SumUnder(s, q)
           /\ s = Root => PartialSum(s, q, B) = ExactSum(q + 1)
<1>1. \A h \in Hosts : (\E n \in Ports(s) : q < B[n] /\ h \in Under[n]) <=> h \in Under[s]
  BY UnderPorts
<1>2. PartialSum(s, q, B) = SumUnder(s, q)
  BY <1>1 DEF PartialSum, SumUnder
<1>3. s = Root => SumUnder(s, q) = ExactSum(q + 1)
  BY UnderRoot DEF SumUnder, ExactSum
<1> QED BY <1>2, <1>3

(* The slots as functions of switch and slot. *)
LEMMA SlotArrays ==
    ASSUME TypeOK
    PROVE  /\ aggregator \in [Switches -> [Slots -> Values]]
           /\ reth_keeper \in
                 [Switches -> [Slots -> [Below -> Psns \union {NoReth}]]]
           /\ arrival_state \in
                 [Switches -> [Slots -> SUBSET (Below \union {Up})]]
BY DEF TypeOK

(* One more packet of node n has been added. *)
OneMore(A, n, B) ==
    /\ B \in [Below -> 0 .. Total]
    /\ B[n] = A[n] + 1
    /\ \A m \in Below \ {n} : B[m] = A[m]

(* What is in a slot after packet p, the q-th of one more port. *)
Added(n, p, s, q, B, r) ==
    /\ ArrivedWith(n, p) = ArrivedAt(s, q, B, r)
    /\ SumWith(n, p).sum = PartialSum(s, q, B)
    /\ KindOf(q) = "write" =>
          \A h \in Ports(s) \intersect Hosts :
             q < B[h] => RethsWith(n, p)[h] = q

LEMMA AddedToSlot ==
    ASSUME IsTree, SlotsSuffice, TypeOK, NEW A, NEW C, NEW R,
           Ghosts(A, C, R), IInv(A, C, R),
           NEW n \in Below, up[n] # << >>, NEW p, p = Head(up[n]), IsData(p),
           NEW s, s = Parent[n], ~ recv_from_port(s, n, p.psn),
           NEW B, OneMore(A, n, B),
           NEW q, q = A[n]
    PROVE  /\ p.psn = q /\ p.kind = KindOf(q)
           /\ Added(n, p, s, q, B, R[s])
<1> DEFINE i == Idx(q)
<1>1. /\ p.psn \in Nat /\ p.psn <= A[n] /\ OwnPacket(n, p) /\ p \in Packets
      /\ p.psn \in Psns
      /\ SlotOf(s, p.psn, A, R[s])
      /\ n \in arrival_state[s][Idx(p.psn)] <=> p.psn < A[n]
  BY HeadSlot
<1>2. /\ s \in Switches /\ n \in Ports(s) /\ q \in Nat /\ R[s] <= q
      /\ \A m \in Ports(s) : A[m] \in Nat /\ m \in Below
      /\ Up \notin Ports(s)
  <2>1. s \in Switches /\ n \in Ports(s) /\ Up \notin Ports(s)
        /\ \A m \in Ports(s) : m \in Below
    BY NodeFacts
  <2>2. C[s] <= A[n] /\ R[s] <= C[s]
    BY <2>1, NodeOf, SwitchOf
  <2>3. C[s] \in Nat /\ R[s] \in Nat /\ A[n] \in Nat
    BY GhostTypes
  <2> QED BY <2>1, <2>2, <2>3, GhostTypes
<1>3. p.psn = q
  BY <1>1, <1>2 DEF recv_from_port
<1>4. SlotOf(s, q, A, R[s]) /\ i \in Slots /\ ~ (q < R[s]) /\ OwnPacket(n, p)
  <2>1. R[s] \in Nat
    BY GhostTypes
  <2> QED BY <1>1, <1>2, <1>3, <2>1, IdxInSlots
<1> HIDE DEF i
<1>5. \A m \in Ports(s) : q < B[m] <=> (m = n \/ q < A[m])
  BY <1>2 DEF OneMore
<1>6. ArrivedWith(n, p) = {m \in Ports(s) : q < B[m]}
  <2>1. ArrivedWith(n, p) = {m \in Ports(s) : q < A[m]} \union {n}
    BY <1>3, <1>4 DEF ArrivedWith, SlotOf, ArrivedAt
  <2> QED BY <1>2, <1>5, <2>1
<1>9. ArrivedAt(s, q, B, R[s]) = {m \in Ports(s) : q < B[m]}
  BY <1>4 DEF ArrivedAt
<1>7. SumWith(n, p).sum = PartialSum(s, q, B)
  <2> DEFINE old == aggregator[s][i].sum
  <2>1. SumWith(n, p).sum = [h \in Hosts |-> old[h] \o p.val.sum[h]]
    BY <1>3 DEF SumWith, Plus, i
  <2>2. old = PartialSum(s, q, A)
    BY <1>4 DEF SlotOf, i
  <2>3. p.val.sum = SumUnder(n, q)
    BY <1>3, <1>4 DEF OwnPacket
  <2> HIDE DEF old
  <2>4. <<q + 1>> \in Seq(Nat) /\ << >> \in Seq(Nat)
    BY <1>2
  <2>5. ASSUME NEW h \in Hosts
        PROVE  old[h] \o p.val.sum[h] = PartialSum(s, q, B)[h]
    <3>1. CASE h \in Under[n]
      <4>1. ~ \E m \in Ports(s) : q < A[m] /\ h \in Under[m]
        <5>1. ~ (q < A[n])
          BY <1>2
        <5> QED BY <1>2, <3>1, <5>1, PortsApart
      <4>2. old[h] = << >> /\ p.val.sum[h] = <<q + 1>>
        BY <2>2, <2>3, <3>1, <4>1 DEF PartialSum, SumUnder
      <4>3. PartialSum(s, q, B)[h] = <<q + 1>>
        BY <1>2, <1>5, <3>1 DEF PartialSum
      <4> QED BY <2>4, <4>2, <4>3, ConcatEmptySeq
    <3>2. CASE h \notin Under[n]
      <4>1. (\E m \in Ports(s) : q < B[m] /\ h \in Under[m])
              <=> (\E m \in Ports(s) : q < A[m] /\ h \in Under[m])
        BY <1>5, <3>2
      <4>2. PartialSum(s, q, B)[h] = PartialSum(s, q, A)[h]
            /\ PartialSum(s, q, A)[h] \in {<<q + 1>>, << >>}
        BY <4>1 DEF PartialSum
      <4>3. p.val.sum[h] = << >>
        BY <2>3, <3>2 DEF SumUnder
      <4>4. old[h] \in Seq(Nat) /\ old[h] = PartialSum(s, q, B)[h]
        BY <2>2, <2>4, <4>2
      <4> QED BY <4>3, <4>4, ConcatEmptySeq
    <3> QED BY <3>1, <3>2
  <2>6. PartialSum(s, q, B) = [h \in Hosts |-> PartialSum(s, q, B)[h]]
    BY DEF PartialSum
  <2> QED BY <2>1, <2>5, <2>6
<1>8. ASSUME KindOf(q) = "write", NEW h \in Ports(s) \intersect Hosts, q < B[h]
      PROVE  RethsWith(n, p)[h] = q
  <2>1. p.kind = "write" /\ (n \in Hosts => p.reth = q)
    BY <1>3, <1>4, <1>8 DEF OwnPacket
  <2>2. /\ RethsWith(n, p) = [reth_keeper[s][i] EXCEPT ![n] = p.reth]
        /\ reth_keeper[s][i] \in [Below -> Psns \union {NoReth}]
    <3>1. reth_keeper[s][i] \in [Below -> Psns \union {NoReth}]
      BY <1>2, <1>4, SlotArrays
    <3> QED BY <1>3, <2>1, <3>1 DEF RethsWith, i
  <2>3. h # n => reth_keeper[s][i][h] = q
    BY <1>4, <1>5, <1>8 DEF SlotOf, i
  <2>4. h = n => p.reth = q
    BY <2>1
  <2> QED BY <1>2, <2>2, <2>3, <2>4
<1> QED BY <1>3, <1>4, <1>6, <1>7, <1>8, <1>9 DEF OwnPacket, Added

------------------------------------------------------------------------------
(* What the switches pass on *)

LEMMA HostsKept ==
    ASSUME NEW A, NEW C, NEW R, IInv(A, C, R), UNCHANGED hostVars
    PROVE  \A h \in Hosts : HostInv(h)'
<1> USE DEF hostVars, appVars, requesterVars, responderVars
<1>1. ASSUME NEW h \in Hosts PROVE HostInv(h)'
  BY HostKept DEF IInv
<1> QED BY <1>1

(* A node after a step of a switch. *)
LEMMA NodeNow ==
    ASSUME UNCHANGED hostVars, NEW B, NEW D, NEW S, NEW n \in Below,
           D[Parent[n]] <= B[n], B[n] <= SentBy(n, D),
           SentBy(n, D) <= GotBy(n, S) + WINDOW_SIZE,
           GotBy(n, S) <= S[Parent[n]],
           UpLink(up'[n], n, B[n], SentBy(n, D), GotBy(n, S)),
           DownLink(down'[n], n, GotBy(n, S), S[Parent[n]])
    PROVE  NodeInv(n, B, D, S)'
<1>1. SentBy(n, D)' = SentBy(n, D) /\ GotBy(n, S)' = GotBy(n, S)
  BY DEF SentBy, GotBy, hostVars, requesterVars, responderVars
<1> QED BY <1>1 DEF NodeInv, LinkInv

(* A step that takes the first packet from a node's link to its switch, an  *)
(* ACK or a copy of one added.  It may be answered, and a copy of a sum     *)
(* without a result may go to the switch above.                             *)
LEMMA TakeUpInv ==
    ASSUME OnlyLastLost, TypeOK, TypeOK', NEW A, NEW C, NEW R,
           Ghosts(A, C, R), IInv(A, C, R), NEW n \in Below, up[n] # << >>,
           NEW s, s = Parent[n],
           IsData(Head(up[n])) => Head(up[n]).psn < A[n],
           UNCHANGED hostVars,
           UNCHANGED <<aggregator, reth_keeper, arrival_state>>,
           \/ up' = TakeUp(n)
           \/ /\ s # Root
              /\ \E f \in Packets :
                    /\ up' = TakeUpSend(n, s, f)
                    /\ IsData(f) /\ OwnPacket(s, f)
                    /\ R[s] <= f.psn /\ f.psn < C[s],
           \/ down' = down
           \/ \E p \in Packets :
                 /\ down' = ToPort(n, p)
                 /\ \/ p.kind = "ack" /\ n \in Hosts /\ p.psn < GotBy(n, R)
                    \/ IsData(p) /\ Result(n, p) /\ p.psn < R[s]
    PROVE  IInv(A, C, R)'
<1>0. s \in Switches /\ n # s /\ n \in Ports(s) /\ (s # Root => s \in Below)
      /\ (s \in Below => s \notin Hosts)
  BY NodeFacts DEF Nodes
<1>1. up'[n] = Tail(up[n]) /\ \A m \in Below \ {n, s} : up'[m] = up[m]
  BY <1>0 DEF TypeOK, TakeUp, TakeUpSend
<1>2. \A m \in Below \ {n} : down'[m] = down[m]
  BY DEF TypeOK, ToPort
<1>3. NodeInv(n, A, C, R)'
  <2>1. UpLink(up[n], n, A[n], SentBy(n, C), GotBy(n, R))
        /\ DownLink(down[n], n, GotBy(n, R), R[s])
    BY NodeOf
  <2>2. /\ A[n] \in Nat /\ SentBy(n, C) \in Nat /\ GotBy(n, R) \in Nat
        /\ R[s] \in Nat /\ up[n] \in Seq(Packets) /\ down[n] \in Seq(Packets)
    BY GhostTypes, NodeTypes
  <2>3. UpLink(up'[n], n, A[n], SentBy(n, C), GotBy(n, R))
    BY <1>1, <2>1, <2>2, UpTail
  <2>4. DownLink(down'[n], n, GotBy(n, R), R[s])
    <3>1. CASE down' = down
      BY <2>1, <3>1
    <3>2. ASSUME NEW p \in Packets, down' = ToPort(n, p),
                 \/ p.kind = "ack" /\ n \in Hosts /\ p.psn < GotBy(n, R)
                 \/ IsData(p) /\ Result(n, p) /\ p.psn < R[s]
          PROVE  DownLink(down'[n], n, GotBy(n, R), R[s])
      <4>1. down'[n] = Append(down[n], p)
        BY <3>2 DEF TypeOK, ToPort
      <4> QED BY <2>1, <2>2, <3>2, <4>1, DownAppend
    <3> QED BY <3>1, <3>2
  <2> QED BY <2>3, <2>4, NodeOf, NodeNow
<1>4. ASSUME s \in Below PROVE NodeInv(s, A, C, R)'
  <2>1. NodeInv(s, A, C, R) /\ UpLink(up[s], s, A[s], SentBy(s, C), GotBy(s, R))
        /\ A[s] <= SentBy(s, C) /\ SentBy(s, C) <= GotBy(s, R) + WINDOW_SIZE
        /\ C[Parent[s]] <= A[s] /\ GotBy(s, R) <= R[Parent[s]]
        /\ DownLink(down[s], s, GotBy(s, R), R[Parent[s]])
    BY <1>4, NodeOf
  <2>2. CASE up' = TakeUp(n)
    <3>1. up'[s] = up[s]
      BY <1>0, <1>4, <2>2 DEF TypeOK, TakeUp
    <3> QED BY <1>0, <1>2, <1>4, <2>1, <3>1, NodeKept
            DEF hostVars, appVars, requesterVars, responderVars
  <2>3. ASSUME NEW f \in Packets, up' = TakeUpSend(n, s, f), IsData(f),
               OwnPacket(s, f), R[s] <= f.psn, f.psn < C[s]
        PROVE  NodeInv(s, A, C, R)'
    <3>1. up'[s] = Append(up[s], f)
      BY <1>0, <1>4, <2>3 DEF TypeOK, TakeUpSend
    <3>2. SentBy(s, C) = C[s] /\ GotBy(s, R) = R[s]
      BY <1>0, <1>4 DEF SentBy, GotBy
    <3>3. /\ A[s] \in Nat /\ C[s] \in Nat /\ R[s] \in Nat /\ f.psn \in Nat
          /\ WINDOW_SIZE \in Nat /\ up[s] \in Seq(Packets)
      <4>1. f.psn \in Nat
        BY DEF Packets, Psns
      <4> QED BY <1>4, <3>2, <4>1, GhostTypes, NodeTypes
    <3>4. A[s] <= f.psn + WINDOW_SIZE /\ C[s] <= f.psn + WINDOW_SIZE
      <4>1. A[s] <= C[s] /\ C[s] <= R[s] + WINDOW_SIZE
        BY <2>1, <3>2
      <4> QED BY <2>3, <3>3, <4>1
    <3>5. UpLink(Append(up[s], f), s, A[s], C[s], R[s])
      BY <2>1, <2>3, <3>2, <3>3, <3>4, UpAppendData
    <3>6. UpLink(up'[s], s, A[s], SentBy(s, C), GotBy(s, R))
      BY <3>1, <3>2, <3>5
    <3>7. down'[s] = down[s]
      BY <1>0, <1>2, <1>4
    <3> QED BY <1>4, <2>1, <3>6, <3>7, NodeNow
  <2> QED BY <2>2, <2>3
<1>5. ASSUME NEW m \in Below PROVE NodeInv(m, A, C, R)'
  <2>1. CASE m \notin {n, s}
    <3>1. NodeInv(m, A, C, R)
      BY NodeOf
    <3> QED BY <1>1, <1>2, <2>1, <3>1, NodeKept
            DEF hostVars, appVars, requesterVars, responderVars
  <2> QED BY <1>3, <1>4, <2>1
<1>6. ASSUME NEW t \in Switches PROVE SwitchInv(t, A, C[t], R[t])'
  <2>1. SwitchInv(t, A, C[t], R[t])
    BY SwitchOf
  <2>2. ASSUME NEW c, NEW r, SwitchInv(t, A, c, r) PROVE SwitchInv(t, A, c, r)'
    BY <2>2, SwitchKept
  <2> QED BY <2>1, <2>2
<1> QED BY <1>5, <1>6, HostsKept DEF IInv

(* What a frame carries. *)
LEMMA FrameIs ==
    ASSUME NEW kind \in {"data", "write"}, NEW psn \in Psns, NEW v \in Values,
           NEW reth \in Psns \union {NoReth}, NEW f,
           f = Frame(kind, v, psn, reth)
    PROVE  /\ f \in Packets /\ f.kind = kind /\ f.psn = psn
           /\ f.val.sum = v.sum /\ IsData(f)
           /\ kind = "write" => f.reth = reth
<1>1. f \in Packets
  BY FrameType
<1>2. CASE kind = "write"
  <2>1. f = Packet("write", psn, [v EXCEPT !.order = Swapped(@)], reth)
    BY <1>2 DEF Frame, send_roce_data_with_reth
  <2> QED BY <1>1, <1>2, <2>1 DEF Packet, IsData, Values
<1>3. CASE kind = "data"
  <2>1. f = Packet("data", psn, v, NoReth)
    BY <1>3 DEF Frame, send_roce_data
  <2> QED BY <1>1, <1>3, <2>1 DEF Packet, IsData
<1> QED BY <1>2, <1>3

(* When the packets of all ports of a switch are in a slot, all of them     *)
(* have been added, and the PSN is complete.                                *)
LEMMA AllArrived ==
    ASSUME IsTree, TypeOK, NEW A, NEW C, NEW R, Ghosts(A, C, R),
           IInv(A, C, R), NEW s \in Switches, NEW q, SlotOf(s, q, A, R[s]),
           recv_from_all_fan_in(s, q)
    PROVE  q < C[s] /\ PartialSum(s, q, A) = SumUnder(s, q)
<1>1. \A n \in Ports(s) : q < A[n]
  BY NodeFacts DEF SlotOf, ArrivedAt, recv_from_all_fan_in, AllIn
<1>2. \E n \in Ports(s) : A[n] = C[s]
  BY SwitchOf
<1> QED BY <1>1, <1>2, AllInSum

(* A copy of a packet that was added: the result again, or the sum.         *)
LEMMA RetransmissionInv ==
    ASSUME IsTree, SlotsSuffice, OnlyLastLost, TypeOK, TypeOK',
           NEW A, NEW C, NEW R, Ghosts(A, C, R), IInv(A, C, R),
           NEW n \in Below, up[n] # << >>, NEW p, p = Head(up[n]),
           IsData(p), UpRetransmission(n, p), UNCHANGED hostVars
    PROVE  IInv(A, C, R)'
<1> DEFINE q == p.psn
           i == Idx(q)
           s == Parent[n]
<1>1. /\ n \in arrival_state[s][i]
      /\ AnswerFromSlot(n, p) \/ UploadAgain(n, p)
      /\ UNCHANGED <<aggregator, reth_keeper, arrival_state>>
  BY DEF UpRetransmission, recv_from_port
<1>2. /\ p \in Packets /\ q \in Nat /\ q \in Psns /\ OwnPacket(n, p)
      /\ q < A[n] /\ SlotOf(s, q, A, R[s])
      /\ Up \in arrival_state[s][i] <=> q < R[s]
  BY <1>1, HeadSlot
<1>3. p.kind \in {"data", "write"} /\ p.kind = KindOf(q) /\ q \in Psns
  BY <1>2 DEF IsData, OwnPacket
<1>4. s \in Switches /\ i \in Slots /\ R[s] \in Nat /\ n \in Ports(s)
  BY <1>2, IdxInSlots, NodeFacts, GhostTypes
<1>5. /\ aggregator[s][i] \in Values
      /\ reth_keeper[s][i][n] \in Psns \union {NoReth}
  BY <1>4, SlotArrays
<1>6. CASE AnswerFromSlot(n, p)
  <2> DEFINE f == Frame(p.kind, aggregator[s][i], q, reth_keeper[s][i][n])
  <2>1. q < R[s] /\ up' = TakeUp(n) /\ down' = ToPort(n, f)
    BY <1>2, <1>6 DEF AnswerFromSlot, recv_from_port
  <2> HIDE DEF f, i, q, s
  <2>2. /\ f \in Packets /\ f.kind = p.kind /\ f.psn = q /\ IsData(f)
        /\ f.val.sum = aggregator[s][i].sum
        /\ p.kind = "write" => f.reth = reth_keeper[s][i][n]
    BY SMTT(30), <1>3, <1>5, FrameIs DEF f
  <2>3. /\ aggregator[s][i].sum = ExactSum(q + 1)
        /\ KindOf(q) = "write" /\ n \in Hosts => reth_keeper[s][i][n] = q
    BY <1>2, <1>4, <2>1 DEF SlotOf, i
  <2>4. Result(n, f) /\ f.psn < R[s]
    BY <1>3, <2>1, <2>2, <2>3 DEF Result
  <2> QED BY <1>1, <1>2, <2>1, <2>2, <2>4, TakeUpInv DEF q, s
<1>7. CASE UploadAgain(n, p)
  <2> DEFINE f == Frame(p.kind, aggregator[s][i], q, NoReth)
  <2>1. /\ ~ (q < R[s]) /\ down' = down
        /\ up' = IF s # Root /\ recv_from_all_fan_in(s, q)
                             /\ Counted(s, q) = 0
                 THEN TakeUpSend(n, s, f) ELSE TakeUp(n)
    BY <1>2, <1>7 DEF UploadAgain, recv_from_port
  <2> HIDE DEF f, i, q, s
  <2>2. CASE up' = TakeUp(n)
    BY <1>1, <1>2, <2>1, <2>2, TakeUpInv DEF q, s
  <2>3. CASE s # Root /\ recv_from_all_fan_in(s, q) /\ up' = TakeUpSend(n, s, f)
    <3>1. /\ f \in Packets /\ f.kind = p.kind /\ f.psn = q /\ IsData(f)
          /\ f.val.sum = aggregator[s][i].sum
      BY SMTT(30), <1>3, <1>5, FrameIs DEF f
    <3>2. q < C[s] /\ PartialSum(s, q, A) = SumUnder(s, q)
      BY <1>2, <1>4, <2>3, AllArrived
    <3>3. aggregator[s][i].sum = SumUnder(s, q)
      BY <1>2, <2>1, <3>2 DEF SlotOf, i
    <3>4. OwnPacket(s, f)
      BY <1>3, <1>4, <3>1, <3>3, NodeFacts DEF OwnPacket
    <3>5. R[s] <= q
      BY <1>2, <1>4, <2>1
    <3> QED BY <1>1, <1>2, <2>1, <2>3, <3>1, <3>2, <3>4, <3>5, TakeUpInv DEF q, s
  <2> QED BY <2>1, <2>2, <2>3
<1> QED BY <1>1, <1>6, <1>7

LEMMA UpAckInv ==
    ASSUME OnlyLastLost, TypeOK, TypeOK', NEW A, NEW C, NEW R,
           Ghosts(A, C, R), IInv(A, C, R), NEW n \in Below, UpAck(n)
    PROVE  IInv(A, C, R)'
<1> DEFINE p == Head(up[n])
           a == send_roce_ack(p.psn)
<1>1. /\ up[n] # << >> /\ p.kind \in {"ack", "nak"} /\ up' = TakeUp(n)
      /\ down' = ToPort(n, a) /\ UNCHANGED <<hostVars, slotVars>>
  BY DEF UpAck
<1>2. UpLink(up[n], n, A[n], SentBy(n, C), GotBy(n, R)) /\ up[n] \in Seq(Packets)
      /\ A[n] \in Nat /\ SentBy(n, C) \in Nat /\ GotBy(n, R) \in Nat
  BY NodeOf, GhostTypes, NodeTypes
<1>3. p.kind = "ack" /\ n \in Hosts /\ p.psn < GotBy(n, R)
  <2>1. /\ p.kind \in {"write", "data", "ack"}
        /\ p.kind = "ack" => n \in Hosts /\ p.psn < GotBy(n, R)
    BY <1>1, <1>2, UpHead
  <2> QED BY <1>1, <2>1
<1>4. p.psn \in Psns /\ ~ IsData(p)
  <2>1. p \in Packets
    BY <1>1, <1>2
  <2> QED BY <1>3, <2>1 DEF Packets, IsData
<1> HIDE DEF p
<1>5. a \in Packets /\ a.kind = "ack" /\ a.psn = p.psn
  BY <1>4, AckType DEF send_roce_ack, Packet
<1> HIDE DEF a
<1> QED BY <1>1, <1>3, <1>4, <1>5, TakeUpInv DEF p, slotVars

(* A link loses an ACK, or a copy of the call's last packet. *)
LEMMA LoseInv ==
    ASSUME OnlyLastLost, TypeOK, TypeOK', NEW A, NEW C, NEW R,
           Ghosts(A, C, R), IInv(A, C, R), NEW n \in Below, Lose(n)
    PROVE  IInv(A, C, R)'
<1>1. ASSUME NEW link, CanLose(link)
      PROVE  link # << >> /\ (IsData(Head(link)) => Head(link).psn \in Losable)
  BY <1>1 DEF CanLose, IsData
<1>2. UNCHANGED hostVars /\ UNCHANGED <<aggregator, reth_keeper, arrival_state>>
  BY DEF Lose, slotVars
<1>3. /\ UpLink(up[n], n, A[n], SentBy(n, C), GotBy(n, R))
      /\ DownLink(down[n], n, GotBy(n, R), R[Parent[n]])
      /\ A[n] \in Nat /\ SentBy(n, C) \in Nat /\ GotBy(n, R) \in Nat
      /\ R[Parent[n]] \in Nat
      /\ up[n] \in Seq(Packets) /\ down[n] \in Seq(Packets)
  BY NodeOf, GhostTypes, NodeTypes
<1>4. /\ UpLink(up'[n], n, A[n], SentBy(n, C), GotBy(n, R))
      /\ DownLink(down'[n], n, GotBy(n, R), R[Parent[n]])
      /\ \A m \in Below \ {n} : up'[m] = up[m] /\ down'[m] = down[m]
  <2>1. CASE CanLose(up[n]) /\ up' = TakeUp(n) /\ down' = down
    <3>1. up'[n] = Tail(up[n]) /\ \A m \in Below \ {n} : up'[m] = up[m]
      BY <2>1 DEF TypeOK, TakeUp
    <3> QED BY <1>1, <1>3, <2>1, <3>1, UpLost
  <2>2. CASE CanLose(down[n]) /\ down' = [down EXCEPT ![n] = Tail(@)] /\ up' = up
    <3>1. down'[n] = Tail(down[n]) /\ \A m \in Below \ {n} : down'[m] = down[m]
      BY <2>2 DEF TypeOK
    <3> QED BY <1>1, <1>3, <2>2, <3>1, DownLost
  <2> QED BY <2>1, <2>2 DEF Lose
<1>5. ASSUME NEW m \in Below PROVE NodeInv(m, A, C, R)'
  <2>1. CASE m = n
    BY <1>2, <1>4, <2>1, NodeOf, NodeNow
  <2>2. CASE m # n
    <3>1. NodeInv(m, A, C, R)
      BY NodeOf
    <3> QED BY <1>2, <1>4, <2>2, <3>1, NodeKept
            DEF hostVars, appVars, requesterVars, responderVars
  <2> QED BY <2>1, <2>2
<1>6. ASSUME NEW t \in Switches PROVE SwitchInv(t, A, C[t], R[t])'
  <2>1. SwitchInv(t, A, C[t], R[t])
    BY SwitchOf
  <2>2. ASSUME NEW c, NEW r, SwitchInv(t, A, c, r) PROVE SwitchInv(t, A, c, r)'
    BY <1>2, <2>2, SwitchKept
  <2> QED BY <2>1, <2>2
<1> QED BY <1>2, <1>5, <1>6, HostsKept DEF IInv
(* A packet that a switch does not take for a copy is the next of its port. *)
LEMMA FirstIsNext ==
    ASSUME IsTree, SlotsSuffice, TypeOK, NEW A, NEW C, NEW R,
           Ghosts(A, C, R), IInv(A, C, R),
           NEW n \in Below, up[n] # << >>, NEW p, p = Head(up[n]), IsData(p),
           NEW s, s = Parent[n], ~ recv_from_port(s, n, p.psn),
           NEW q, q = A[n]
    PROVE  /\ p \in Packets /\ p.psn = q /\ p.kind = KindOf(q)
           /\ p.kind \in {"data", "write"} /\ q \in Psns /\ q \in Nat
           /\ q + 1 <= SentBy(n, C) /\ SentBy(n, C) <= Total
           /\ C[s] <= q /\ C[s] \in Nat /\ R[s] <= C[s] /\ R[s] \in Nat
           /\ s \in Switches /\ n \in Ports(s) /\ n # s
           /\ q \in Held(s, C[s]) /\ Idx(q) \in Slots
           /\ \E B : OneMore(A, n, B)
<1>1. /\ p \in Packets /\ p.psn \in Psns /\ p.psn \in Nat
      /\ p.psn < SentBy(n, C) /\ p.psn <= A[n] /\ OwnPacket(n, p)
      /\ p.psn \in Held(s, C[s])
      /\ n \in arrival_state[s][Idx(p.psn)] <=> p.psn < A[n]
  BY HeadSlot
<1>2. /\ A[n] \in Nat /\ C[s] \in Nat /\ R[s] \in Nat /\ SentBy(n, C) \in Nat
      /\ SentBy(n, C) <= Total /\ Total \in Nat /\ C[s] <= A[n]
  BY NodeOf, GhostTypes
<1>3. p.psn = q
  BY <1>1, <1>2 DEF recv_from_port
<1>4. s \in Switches /\ n \in Ports(s) /\ n # s /\ R[s] <= C[s]
  BY NodeFacts, SwitchOf
<1>5. p.kind = KindOf(q) /\ p.kind \in {"data", "write"}
  BY <1>1, <1>3 DEF OwnPacket, IsData
<1>6. \E B : OneMore(A, n, B)
  <2> DEFINE B == [A EXCEPT ![n] = A[n] + 1]
  <2>1. q + 1 \in 0 .. Total
    BY <1>1, <1>2, <1>3
  <2>2. A \in [Below -> 0 .. Total]
    BY DEF Ghosts
  <2>3. OneMore(A, n, B)
    BY <2>1, <2>2 DEF OneMore
  <2> QED BY <2>3
<1>7. Idx(q) \in Slots /\ q + 1 <= SentBy(n, C)
  BY <1>1, <1>2, <1>3, IdxInSlots
<1> QED BY <1>1, <1>2, <1>3, <1>4, <1>5, <1>6, <1>7

(* One slot of one switch changes. *)
SetSlot(s, i, cell, reths, arrived) ==
    /\ aggregator' = [aggregator EXCEPT ![s][i] = cell]
    /\ reth_keeper' = [reth_keeper EXCEPT ![s][i] = reths]
    /\ arrival_state' = [arrival_state EXCEPT ![s][i] = arrived]

(* The slots of the switch, when it added the packet to its slot. *)
LEMMA AddedSlots ==
    ASSUME IsTree, SlotsSuffice, TypeOK, NEW A, NEW C, NEW R,
           Ghosts(A, C, R), IInv(A, C, R),
           NEW n \in Below, up[n] # << >>, NEW p, p = Head(up[n]), IsData(p),
           NEW s, s = Parent[n], ~ recv_from_port(s, n, p.psn),
           NEW q, q = A[n], NEW B, OneMore(A, n, B),
           SetSlot(s, Idx(q), SumWith(n, p), RethsWith(n, p), ArrivedWith(n, p))
    PROVE  \A k \in Held(s, C[s]) : SlotOf(s, k, B, R[s])'
<1> DEFINE i == Idx(q)
<1>1. /\ q \in Nat /\ C[s] \in Nat /\ R[s] \in Nat /\ R[s] <= q
      /\ s \in Switches /\ n \in Ports(s) /\ q \in Held(s, C[s]) /\ i \in Slots
  BY FirstIsNext
<1>6. B[n] = q + 1 /\ \A m \in Below \ {n} : B[m] = A[m]
  BY DEF OneMore
<1>2. Added(n, p, s, q, B, R[s])
  BY AddedToSlot
<1>3. /\ aggregator'[s][i] = SumWith(n, p)
      /\ reth_keeper'[s][i] = RethsWith(n, p)
      /\ arrival_state'[s][i] = ArrivedWith(n, p)
      /\ \A j \in Slots \ {i} : /\ aggregator'[s][j] = aggregator[s][j]
                                /\ reth_keeper'[s][j] = reth_keeper[s][j]
                                /\ arrival_state'[s][j] = arrival_state[s][j]
  BY SMTT(30), <1>1, SlotArrays DEF SetSlot
<1>4. SlotOf(s, q, B, R[s])'
  <2>1. ASSUME NEW r, r = R[s] PROVE SlotOf(s, q, B, r)'
    <3>1. ~ (q < r)
      BY <1>1, <2>1
    <3>3. /\ arrival_state'[s][Idx(q)] = ArrivedAt(s, q, B, r)
          /\ aggregator'[s][Idx(q)].sum = PartialSum(s, q, B)
          /\ reth_keeper'[s][Idx(q)] = RethsWith(n, p)
      BY <1>2, <1>3, <2>1 DEF Added
    <3>4. KindOf(q) = "write" =>
             \A h \in Ports(s) \intersect Hosts :
                q < B[h] => reth_keeper'[s][Idx(q)][h] = q
      BY <1>2, <3>3 DEF Added
    <3> QED BY <3>1, <3>3, <3>4 DEF SlotOf
  <2> QED BY <2>1
<1>5. ASSUME NEW k \in Held(s, C[s]), k # q PROVE SlotOf(s, k, B, R[s])'
  <2>1. SlotOf(s, k, A, R[s])
    BY <1>1, SwitchOf
  <2>2. k \in Nat /\ Idx(k) \in Slots \ {i}
    BY <1>1, <1>5, HeldApart
  <2>3. \A m \in Ports(s) : k < B[m] <=> k < A[m]
    <3>1. k < B[n] <=> k < A[n]
      BY <1>1, <1>5, <1>6, <2>2
    <3> QED BY <1>1, <1>6, <3>1, NodeFacts
  <2>4. /\ aggregator'[s][Idx(k)] = aggregator[s][Idx(k)]
        /\ reth_keeper'[s][Idx(k)] = reth_keeper[s][Idx(k)]
        /\ arrival_state'[s][Idx(k)] = arrival_state[s][Idx(k)]
    BY <1>3, <2>2
  <2>5. ASSUME NEW r, SlotOf(s, k, A, r) PROVE SlotOf(s, k, B, r)'
    BY ONLY <2>3, <2>4, <2>5, SlotKept
  <2> QED BY <2>1, <2>5
<1> QED BY <1>4, <1>5

(* A packet is added, and others of its slot are missing. *)
LEMMA AddOnlyInv ==
    ASSUME IsTree, SlotsSuffice, TypeOK, TypeOK', NEW A, NEW C, NEW R,
           Ghosts(A, C, R), IInv(A, C, R),
           NEW n \in Below, up[n] # << >>, NEW p, p = Head(up[n]), IsData(p),
           NEW s, s = Parent[n], ~ recv_from_port(s, n, p.psn),
           AddOnly(n, p), UNCHANGED hostVars,
           NEW q, q = A[n], NEW B, OneMore(A, n, B)
    PROVE  Ghosts(B, C, R) /\ IInv(B, C, R)'
<1>1. /\ p.psn = q /\ q \in Nat /\ q + 1 <= SentBy(n, C)
      /\ C[s] <= q /\ C[s] \in Nat
      /\ s \in Switches /\ n \in Ports(s) /\ n # s
      /\ B \in [Below -> 0 .. Total]
      /\ B[n] = q + 1 /\ \A m \in Below \ {n} : B[m] = A[m]
      /\ Added(n, p, s, q, B, R[s])
  <2>1. /\ p.psn = q /\ q \in Nat /\ q + 1 <= SentBy(n, C)
        /\ C[s] <= q /\ C[s] \in Nat
        /\ s \in Switches /\ n \in Ports(s) /\ n # s
    BY FirstIsNext
  <2>2. Added(n, p, s, q, B, R[s])
    BY AddedToSlot
  <2> QED BY <2>1, <2>2 DEF OneMore
<1>2. /\ ~ AllIn(s, ArrivedWith(n, p))
      /\ SetSlot(s, Idx(q), SumWith(n, p), RethsWith(n, p), ArrivedWith(n, p))
      /\ up' = TakeUp(n) /\ down' = down
  BY <1>1 DEF AddOnly, SetSlot
<1>3. /\ \A k \in Held(s, C[s]) : SlotOf(s, k, B, R[s])'
      /\ \A t \in Switches \ {s} :
            /\ aggregator'[t] = aggregator[t]
            /\ reth_keeper'[t] = reth_keeper[t]
            /\ arrival_state'[t] = arrival_state[t]
  <2>1. SetSlot(s, Idx(q), SumWith(n, p), RethsWith(n, p), ArrivedWith(n, p))
    BY <1>2
  <2>2. \A k \in Held(s, C[s]) : SlotOf(s, k, B, R[s])'
    BY <2>1, AddedSlots
  <2>3. \A t \in Switches \ {s} :
           /\ aggregator'[t] = aggregator[t]
           /\ reth_keeper'[t] = reth_keeper[t]
           /\ arrival_state'[t] = arrival_state[t]
    BY <1>1, <2>1, SlotArrays DEF SetSlot
  <2> QED BY <2>2, <2>3
<1>5. \E m \in Ports(s) : B[m] = C[s]
  <2>1. PICK g \in Ports(s) : A[g] = C[s]
    BY <1>1, SwitchOf
  <2>2. PICK m \in Ports(s) : ~ (q < B[m])
    BY <1>1, <1>2 DEF AllIn, ArrivedAt, Added
  <2>3. m # n /\ B[m] = A[m] /\ A[m] \in Nat /\ C[s] <= A[m] /\ A[n] = q
    <3>1. m \in Below /\ Parent[m] = s
      BY <1>1, NodeFacts
    <3>2. m # n
      BY <1>1, <2>2
    <3> QED BY <1>1, <3>1, <3>2, NodeOf, GhostTypes
  <2>4. CASE g = n
    BY <1>1, <2>1, <2>2, <2>3, <2>4
  <2>5. CASE g # n
    BY <1>1, <2>1, <2>5, NodeFacts
  <2> QED BY <2>4, <2>5
<1>6. SwitchInv(s, B, C[s], R[s])'
  <2>1. R[s] <= C[s] /\ (s = Root => R[s] = C[s])
    BY <1>1, SwitchOf
  <2>2. ASSUME NEW c, NEW r, c = C[s], r = R[s] PROVE SwitchInv(s, B, c, r)'
    BY <1>3, <1>5, <2>1, <2>2 DEF SwitchInv
  <2> QED BY <2>2
<1>7. ASSUME NEW t \in Switches \ {s} PROVE SwitchInv(t, B, C[t], R[t])'
  <2>1. SwitchInv(t, A, C[t], R[t])
    BY SwitchOf
  <2>2. \A m \in Ports(t) : B[m] = A[m]
    BY <1>1, NodeFacts
  <2>3. ASSUME NEW c, NEW r, SwitchInv(t, A, c, r) PROVE SwitchInv(t, B, c, r)'
    BY <1>3, <2>2, <2>3, SwitchKept
  <2> QED BY <2>1, <2>3
<1>8. ASSUME NEW m \in Below PROVE NodeInv(m, B, C, R)'
  <2>1. CASE m = n
    <3>1. up'[n] = Tail(up[n]) /\ down'[n] = down[n]
      BY <1>2 DEF TypeOK, TakeUp
    <3>2. /\ UpLink(up[n], n, q, SentBy(n, C), GotBy(n, R))
          /\ SentBy(n, C) \in Nat /\ GotBy(n, R) \in Nat /\ up[n] \in Seq(Packets)
      BY NodeOf, GhostTypes, NodeTypes
    <3>3. UpLink(up'[n], n, B[n], SentBy(n, C), GotBy(n, R))
      <4>1. p.psn = q /\ q \in Nat /\ q + 1 \in Nat
        BY <1>1
      <4>2. UpLink(Tail(up[n]), n, q + 1, SentBy(n, C), GotBy(n, R))
        BY <3>2, <4>1, UpTail
      <4> QED BY <1>1, <3>1, <4>2
    <3>4. C[s] <= B[n] /\ B[n] <= SentBy(n, C)
      BY <1>1
    <3> QED BY <2>1, <3>1, <3>3, <3>4, NodeOf, NodeNow
  <2>2. CASE m # n
    <3>1. NodeInv(m, A, C, R) /\ up'[m] = up[m] /\ down'[m] = down[m]
      BY <1>2, <2>2, NodeOf DEF TypeOK, TakeUp
    <3> QED BY <1>1, <2>2, <3>1, NodeKept
            DEF hostVars, appVars, requesterVars, responderVars
  <2> QED BY <2>1, <2>2
<1>9. IInv(B, C, R)'
  <2>1. \A t \in Switches : SwitchInv(t, B, C[t], R[t])'
    BY <1>6, <1>7
  <2> QED BY <1>8, <2>1, HostsKept DEF IInv
<1>10. Ghosts(B, C, R)
  BY <1>1 DEF Ghosts
<1> QED BY <1>9, <1>10

(* The last packet of a PSN that a switch waits for is its next to be       *)
(* complete.                                                                *)
LEMMA LastIsNext ==
    ASSUME IsTree, SlotsSuffice, TypeOK, NEW A, NEW C, NEW R,
           Ghosts(A, C, R), IInv(A, C, R),
           NEW n \in Below, up[n] # << >>, NEW p, p = Head(up[n]), IsData(p),
           NEW s, s = Parent[n], ~ recv_from_port(s, n, p.psn),
           AllIn(s, ArrivedWith(n, p)),
           NEW q, q = A[n], NEW B, OneMore(A, n, B)
    PROVE  q = C[s] /\ \A m \in Ports(s) : q + 1 <= B[m]
<1>1. /\ q \in Nat /\ C[s] <= q /\ C[s] \in Nat /\ s \in Switches
      /\ R[s] <= q /\ R[s] \in Nat
  BY FirstIsNext
<1>2. Added(n, p, s, q, B, R[s])
  BY AddedToSlot
<1>3. B[n] = q + 1 /\ \A m \in Below \ {n} : B[m] = A[m]
  BY DEF OneMore
<1>4. \A m \in Ports(s) : q < B[m]
  BY <1>1, <1>2, NodeFacts DEF Added, ArrivedAt, AllIn
<1>5. \A m \in Ports(s) : m \in Below /\ B[m] \in Nat
  BY <1>1, NodeFacts, TotalNat DEF OneMore
<1>6. PICK g \in Ports(s) : A[g] = C[s]
  BY <1>1, SwitchOf
<1>7. q = C[s]
  <2>1. CASE g = n
    BY <1>6, <2>1
  <2>2. CASE g # n
    BY <1>1, <1>3, <1>4, <1>5, <1>6, <2>2
  <2> QED BY <2>1, <2>2
<1> QED BY <1>1, <1>4, <1>5, <1>7

(* The last packet arrives below the root: the sum goes up. *)
LEMMA ForwardToParentInv ==
    ASSUME IsTree, SlotsSuffice, OnlyLastLost, TypeOK, TypeOK',
           NEW A, NEW C, NEW R, Ghosts(A, C, R), IInv(A, C, R),
           NEW n \in Below, up[n] # << >>, NEW p, p = Head(up[n]), IsData(p),
           NEW s, s = Parent[n], ~ recv_from_port(s, n, p.psn),
           ForwardToParent(n, p), UNCHANGED hostVars,
           NEW q, q = A[n], NEW B, OneMore(A, n, B)
    PROVE  \E D : Ghosts(B, D, R) /\ IInv(B, D, R)'
<1> DEFINE D == [C EXCEPT ![s] = C[s] + 1]
           f == Frame(p.kind, SumWith(n, p), q, NoReth)
<1>1. /\ p \in Packets /\ p.psn = q /\ p.kind = KindOf(q)
      /\ p.kind \in {"data", "write"} /\ q \in Psns
      /\ q \in Nat /\ q + 1 <= SentBy(n, C) /\ SentBy(n, C) <= Total
      /\ C[s] \in Nat /\ R[s] <= C[s] /\ R[s] \in Nat
      /\ s \in Switches /\ n \in Ports(s) /\ n # s /\ Idx(q) \in Slots
  BY FirstIsNext
<1>2. /\ s # Root /\ AllIn(s, ArrivedWith(n, p))
      /\ SetSlot(s, Idx(q), SumWith(n, p), RethsWith(n, p), ArrivedWith(n, p))
      /\ up' = TakeUpSend(n, s, f) /\ down' = down
  BY <1>1 DEF ForwardToParent, SetSlot
<1>3. q = C[s] /\ \A m \in Ports(s) : q + 1 <= B[m]
  BY <1>2, LastIsNext
<1>4. Added(n, p, s, q, B, R[s])
  BY AddedToSlot
<1>5. B[n] = q + 1 /\ \A m \in Below \ {n} : B[m] = A[m]
  BY DEF OneMore
<1>6. s \in Below /\ s \notin Hosts /\ s \notin Ports(s) /\ Ports(s) \subseteq Below
  BY <1>1, <1>2, NodeFacts DEF Nodes
<1>7. /\ C \in [Switches -> 0 .. Total] /\ D \in [Switches -> 0 .. Total]
      /\ D[s] = q + 1 /\ \A t \in Switches \ {s} : D[t] = C[t]
  <2>1. q + 1 \in 0 .. Total
    <3>1. SentBy(n, C) \in Nat /\ Total \in Nat
      BY GhostTypes
    <3> QED BY <1>1, <3>1
  <2> QED BY <1>1, <1>3, <2>1 DEF Ghosts
<1>8. f \in Packets /\ f.kind = p.kind /\ f.psn = q /\ IsData(f) /\ OwnPacket(s, f)
  <2>1. SumWith(n, p) \in Values
    BY <1>1, SlotTypes
  <2>2. /\ f \in Packets /\ f.kind = p.kind /\ f.psn = q /\ IsData(f)
        /\ f.val.sum = SumWith(n, p).sum
    <3> DEFINE v == SumWith(n, p)
    <3> HIDE DEF f, v
    <3>1. v \in Values /\ f = Frame(p.kind, v, q, NoReth)
      BY <2>1 DEF f, v
    <3>2. p.kind \in {"data", "write"} /\ q \in Psns
      BY <1>1
    <3>3. /\ f \in Packets /\ f.kind = p.kind /\ f.psn = q /\ IsData(f)
          /\ f.val.sum = v.sum
      BY ONLY <3>1, <3>2, FrameIs, SMTT(30)
    <3> QED BY <3>3 DEF v
  <2>3. PartialSum(s, q, B) = SumUnder(s, q)
    <3>1. \A m \in Ports(s) : q < B[m]
      BY <1>1, <1>3, <1>6, TotalNat DEF OneMore
    <3> QED BY <1>1, <3>1, AllInSum
  <2>4. SumWith(n, p).sum = SumUnder(s, q)
    BY <1>4, <2>3 DEF Added
  <2> HIDE DEF f
  <2> QED BY <1>1, <1>6, <2>2, <2>4 DEF OwnPacket
<1> HIDE DEF D, f
<1>9. /\ up'[n] = Tail(up[n]) /\ up'[s] = Append(up[s], f)
      /\ \A m \in Below \ {n, s} : up'[m] = up[m]
  BY <1>1, <1>2, <1>6 DEF TypeOK, TakeUpSend
<1>10. \A m \in Below \ {s} : SentBy(m, D) = SentBy(m, C)
  BY <1>7 DEF SentBy, Below
<1>11. ASSUME NEW m \in Below, Parent[m] = s PROVE NodeInv(m, B, D, R)'
  <2>0. m # s /\ m \in Ports(s) /\ SentBy(m, D) = SentBy(m, C)
    BY <1>6, <1>10, <1>11 DEF Ports
  <2>1. D[s] <= B[m]
    BY <1>3, <1>7, <2>0
  <2>2. B[m] <= SentBy(m, C) /\ UpLink(up'[m], m, B[m], SentBy(m, C), GotBy(m, R))
    <3>1. UpLink(up[m], m, A[m], SentBy(m, C), GotBy(m, R)) /\ A[m] <= SentBy(m, C)
      BY NodeOf
    <3>2. CASE m = n
      <4>1. /\ SentBy(n, C) \in Nat /\ GotBy(n, R) \in Nat
            /\ up[n] \in Seq(Packets)
        BY GhostTypes, NodeTypes
      <4> QED BY <1>1, <1>5, <1>9, <3>1, <3>2, <4>1, UpTail
    <3>3. CASE m # n
      BY <1>5, <1>9, <2>0, <3>1, <3>3
    <3> QED BY <3>2, <3>3
  <2> QED BY <1>2, <1>11, <2>0, <2>1, <2>2, NodeOf, NodeNow
<1>12. NodeInv(s, B, D, R)'
  <2>1. SentBy(s, C) = C[s] /\ SentBy(s, D) = q + 1 /\ GotBy(s, R) = R[s]
        /\ B[s] = A[s]
    BY <1>1, <1>5, <1>6, <1>7 DEF SentBy, GotBy
  <2>2. /\ C[Parent[s]] <= A[s] /\ A[s] <= q /\ q <= R[s] + WINDOW_SIZE
        /\ R[s] <= R[Parent[s]]
        /\ UpLink(up[s], s, A[s], q, R[s])
        /\ DownLink(down[s], s, R[s], R[Parent[s]])
    BY <1>3, <1>6, <2>1, NodeOf
  <2>3. A[s] \in Nat /\ WINDOW_SIZE \in Nat /\ up[s] \in Seq(Packets)
    BY <1>6, GhostTypes, NodeTypes
  <2>4. D[Parent[s]] = C[Parent[s]]
    BY <1>6, <1>7, NodeFacts
  <2>5. q + 1 <= R[s] + WINDOW_SIZE
    <3>1. SentBy(n, C) <= GotBy(n, R) + WINDOW_SIZE /\ GotBy(n, R) <= R[s]
          /\ SentBy(n, C) \in Nat /\ GotBy(n, R) \in Nat
      BY NodeOf, GhostTypes
    <3> QED BY <1>1, <2>3, <3>1
  <2>6. UpLink(up'[s], s, A[s], q + 1, R[s])
    <3>1. A[s] <= q + WINDOW_SIZE /\ q <= q + WINDOW_SIZE /\ q + 1 \in Nat
      BY <1>1, <2>2, <2>3
    <3>2. UpLink(Append(up[s], f), s, A[s], q + 1, R[s])
      BY <1>1, <1>8, <2>2, <2>3, <3>1, UpAppendData
    <3> QED BY <1>9, <3>2
  <2>7. A[s] <= q + 1
    BY <1>1, <2>2, <2>3
  <2> QED BY <1>2, <1>6, <2>1, <2>2, <2>4, <2>5, <2>6, <2>7, NodeNow
<1>13. ASSUME NEW m \in Below, m # s, Parent[m] # s PROVE NodeInv(m, B, D, R)'
  <2>1. m # n /\ NodeInv(m, A, C, R)
    BY <1>13, NodeOf
  <2>2. D[Parent[m]] = C[Parent[m]] /\ (m \notin Hosts => D[m] = C[m])
    BY <1>7, <1>13, NodeFacts DEF Nodes
  <2>3. B[m] = A[m] /\ up'[m] = up[m] /\ down'[m] = down[m]
    BY <1>2, <1>5, <1>9, <1>13, <2>1
  <2> QED BY <2>1, <2>2, <2>3, NodeKept
          DEF hostVars, appVars, requesterVars, responderVars
<1>14. SwitchInv(s, B, D[s], R[s])'
  <2>1. \A k \in Held(s, C[s]) : SlotOf(s, k, B, R[s])'
    BY <1>2, AddedSlots
  <2>2. Held(s, C[s]) = Held(s, q + 1)
    BY <1>1, <1>2, HeldBelow
  <2>3. R[s] <= q + 1
    BY <1>1, <1>3
  <2>4. ASSUME NEW c, NEW r, c = q + 1, r = R[s] PROVE SwitchInv(s, B, c, r)'
    BY <1>1, <1>2, <1>5, <2>1, <2>2, <2>3, <2>4 DEF SwitchInv
  <2> QED BY <1>7, <2>4
<1>15. ASSUME NEW t \in Switches \ {s} PROVE SwitchInv(t, B, D[t], R[t])'
  <2>1. SwitchInv(t, A, D[t], R[t])
    BY <1>7, SwitchOf
  <2>2. \A m \in Ports(t) : B[m] = A[m]
    BY <1>1, <1>5, NodeFacts
  <2>3. /\ aggregator'[t] = aggregator[t]
        /\ reth_keeper'[t] = reth_keeper[t]
        /\ arrival_state'[t] = arrival_state[t]
    BY <1>1, <1>2, SlotArrays DEF SetSlot
  <2>4. ASSUME NEW c, NEW r, SwitchInv(t, A, c, r) PROVE SwitchInv(t, B, c, r)'
    BY <2>2, <2>3, <2>4, SwitchKept
  <2> QED BY <2>1, <2>4
<1>16. IInv(B, D, R)'
  <2>1. \A t \in Switches : SwitchInv(t, B, D[t], R[t])'
    BY <1>14, <1>15
  <2>2. \A m \in Below : NodeInv(m, B, D, R)'
    BY <1>11, <1>12, <1>13
  <2> QED BY <2>1, <2>2, HostsKept DEF IInv
<1>17. Ghosts(B, D, R)
  BY <1>7 DEF Ghosts, OneMore
<1> QED BY <1>16, <1>17

(* The last packet arrives at the root: the result goes to the ports, and   *)
(* the slot half the array ahead is cleared.                                *)
LEMMA CompleteAtRootInv ==
    ASSUME IsTree, SlotsSuffice, OnlyLastLost, TypeOK, TypeOK',
           NEW A, NEW C, NEW R, Ghosts(A, C, R), IInv(A, C, R),
           NEW n \in Below, up[n] # << >>, NEW p, p = Head(up[n]), IsData(p),
           NEW s, s = Parent[n], ~ recv_from_port(s, n, p.psn),
           CompleteAtRoot(n, p), UNCHANGED hostVars,
           NEW q, q = A[n], NEW B, OneMore(A, n, B)
    PROVE  \E D, S : Ghosts(B, D, S) /\ IInv(B, D, S)'
<1> DEFINE D == [C EXCEPT ![s] = C[s] + 1]
           S == [R EXCEPT ![s] = R[s] + 1]
           i == Idx(q)
           j == ToClear(q)
           v == SumWith(n, p)
           reths == RethsWith(n, p)
           f(m) == Frame(p.kind, v, q, reths[m])
<1>1. /\ p \in Packets /\ p.psn = q /\ p.kind = KindOf(q)
      /\ p.kind \in {"data", "write"} /\ q \in Psns
      /\ q \in Nat /\ q + 1 <= SentBy(n, C) /\ SentBy(n, C) <= Total
      /\ C[s] \in Nat /\ R[s] <= C[s] /\ R[s] \in Nat
      /\ s \in Switches /\ n \in Ports(s) /\ n # s /\ i \in Slots
      /\ q \in Held(s, C[s])
  BY FirstIsNext
<1>2. /\ s = Root /\ AllIn(s, ArrivedWith(n, p))
      /\ aggregator' = [aggregator EXCEPT ![s][i] = v, ![s][j] = Zero]
      /\ reth_keeper' = [reth_keeper EXCEPT ![s][i] = reths,
                                            ![s][j] = [m \in Below |-> NoReth]]
      /\ arrival_state' = [arrival_state EXCEPT
                             ![s][i] = ArrivedWith(n, p) \union {Up},
                             ![s][j] = {}]
      /\ up' = TakeUp(n)
      /\ down' = Broadcast(s, p.kind, v, q, reths)
  BY <1>1 DEF CompleteAtRoot
<1>3. q = C[s] /\ q = R[s] /\ \A m \in Ports(s) : q + 1 <= B[m]
  <2>0. AllIn(s, ArrivedWith(n, p))
    BY <1>2
  <2>1. q = C[s] /\ \A m \in Ports(s) : q + 1 <= B[m]
    BY <2>0, LastIsNext
  <2>2. R[s] = C[s]
    <3>1. s \in Switches /\ s = Root
      BY <1>1, <1>2
    <3> QED BY <3>1, SwitchOf
  <2> QED BY <2>1, <2>2
<1>4. Added(n, p, s, q, B, R[s])
  BY AddedToSlot
<1>5. B[n] = q + 1 /\ \A m \in Below \ {n} : B[m] = A[m]
  BY DEF OneMore
<1>6. /\ Ports(s) \subseteq Below /\ \A m \in Below : m # s
      /\ WINDOW_SIZE \in Nat \ {0} /\ N = 2 * WINDOW_SIZE /\ N \in Nat
      /\ \A m \in Ports(s) : A[m] \in Nat /\ B[m] \in Nat
  <2>1. Ports(s) \subseteq Below /\ \A m \in Below : m # s
    BY <1>1, <1>2, NodeFacts
  <2>2. \A m \in Below : A[m] \in Nat /\ B[m] \in Nat
    BY GhostTypes, TotalNat DEF OneMore
  <2> QED BY <2>1, <2>2, Sizes
<1>7. /\ C \in [Switches -> 0 .. Total] /\ D \in [Switches -> 0 .. Total]
      /\ R \in [Switches -> 0 .. Total] /\ S \in [Switches -> 0 .. Total]
      /\ D[s] = q + 1 /\ S[s] = q + 1
      /\ \A t \in Switches \ {s} : D[t] = C[t] /\ S[t] = R[t]
  <2>1. q + 1 \in 0 .. Total
    <3>1. SentBy(n, C) \in Nat /\ Total \in Nat
      BY GhostTypes
    <3> QED BY <1>1, <3>1
  <2> QED BY <1>1, <1>3, <2>1 DEF Ghosts
<1> HIDE DEF D, S, i, j, v, reths
<1>8. /\ v.sum = ExactSum(q + 1) /\ ArrivedWith(n, p) = Ports(s)
      /\ KindOf(q) = "write" =>
            \A h \in Ports(s) \intersect Hosts : reths[h] = q
  <2>1. \A m \in Ports(s) : q < B[m]
    BY <1>1, <1>3, <1>6
  <2>2. PartialSum(s, q, B) = ExactSum(q + 1)
    BY <1>1, <1>2, <2>1, AllInSum
  <2>3. ArrivedWith(n, p) = Ports(s)
    <3>1. ~ (q < R[s])
      BY <1>1, <1>3
    <3>2. ArrivedAt(s, q, B, R[s]) = Ports(s)
      BY <2>1, <3>1 DEF ArrivedAt
    <3> QED BY <1>4, <3>2 DEF Added
  <2> QED BY <1>4, <2>1, <2>2, <2>3 DEF Added, v, reths
<1>9. v \in Values /\ reths \in [Below -> Psns \union {NoReth}]
  BY <1>1, SlotTypes DEF v, reths
<1>10. ASSUME NEW m \in Below, Parent[m] = s
       PROVE  /\ down'[m] = Append(down[m], f(m)) /\ f(m) \in Packets
              /\ f(m).psn = q /\ IsData(f(m)) /\ Result(m, f(m))
  <2> DEFINE r == reths[m]
             g == f(m)
  <2>1. down'[m] = Append(down[m], g)
    BY <1>2, <1>10 DEF Broadcast
  <2>2. r \in Psns \union {NoReth}
    BY <1>9
  <2> HIDE DEF r
  <2>3. g = Frame(p.kind, v, q, r)
    BY DEF r
  <2> HIDE DEF g
  <2>4. p.kind \in {"data", "write"} /\ q \in Psns /\ v \in Values
    BY <1>1, <1>9
  <2>5. /\ g \in Packets /\ g.kind = p.kind /\ g.psn = q /\ IsData(g)
        /\ g.val.sum = v.sum
        /\ p.kind = "write" => g.reth = r
    BY ONLY <2>2, <2>3, <2>4, FrameIs, SMTT(30)
  <2>6. m \in Hosts /\ p.kind = "write" => r = q
    BY <1>1, <1>8, <1>10 DEF r, Ports
  <2>7. Result(m, g)
    BY <1>1, <1>8, <2>5, <2>6 DEF Result
  <2> QED BY <2>1, <2>5, <2>7 DEF g
<1> HIDE DEF f
<1>11. /\ up'[n] = Tail(up[n]) /\ \A m \in Below \ {n} : up'[m] = up[m]
       /\ \A m \in Below : Parent[m] # s => down'[m] = down[m]
  BY <1>2 DEF TypeOK, TakeUp, Broadcast
<1>12. \A m \in Below : SentBy(m, D) = SentBy(m, C) /\ GotBy(m, S) = GotBy(m, R)
  BY <1>2, <1>7 DEF SentBy, GotBy, Below
<1>13. ASSUME NEW m \in Below, Parent[m] = s PROVE NodeInv(m, B, D, S)'
  <2>0. m \in Ports(s) /\ SentBy(m, D) = SentBy(m, C) /\ GotBy(m, S) = GotBy(m, R)
    BY <1>12, <1>13 DEF Ports
  <2>1. D[s] <= B[m]
    BY <1>3, <1>7, <2>0
  <2>2. /\ UpLink(up[m], m, A[m], SentBy(m, C), GotBy(m, R)) /\ A[m] <= SentBy(m, C)
        /\ SentBy(m, C) <= GotBy(m, R) + WINDOW_SIZE /\ GotBy(m, R) <= q
        /\ DownLink(down[m], m, GotBy(m, R), q)
    BY <1>3, <1>13, NodeOf
  <2>3. /\ SentBy(m, C) \in Nat /\ GotBy(m, R) \in Nat
        /\ up[m] \in Seq(Packets) /\ down[m] \in Seq(Packets)
    BY GhostTypes, NodeTypes
  <2>4. B[m] <= SentBy(m, C) /\ UpLink(up'[m], m, B[m], SentBy(m, C), GotBy(m, R))
    <3>1. CASE m = n
      <4>1. /\ up'[n] = Tail(up[n]) /\ A[n] = q /\ B[n] = q + 1 /\ q + 1 \in Nat
            /\ q \in Nat /\ p.psn = q /\ q + 1 <= SentBy(n, C)
        BY <1>1, <1>5, <1>11
      <4>2. UpLink(up[n], n, q, SentBy(n, C), GotBy(n, R))
        BY <2>2, <3>1, <4>1
      <4>3. UpLink(up'[n], n, q + 1, SentBy(n, C), GotBy(n, R))
        BY <2>3, <3>1, <4>1, <4>2, UpTail
      <4> QED BY <3>1, <4>1, <4>3
    <3>2. CASE m # n
      BY <1>5, <1>11, <2>2, <3>2
    <3> QED BY <3>1, <3>2
  <2>5. DownLink(down'[m], m, GotBy(m, R), q + 1)
    <3>1. q + 1 \in Nat
      BY <1>1
    <3>2. /\ down'[m] = Append(down[m], f(m)) /\ f(m) \in Packets
          /\ f(m).psn = q /\ IsData(f(m)) /\ Result(m, f(m))
      BY <1>10, <1>13
    <3>3. DownLink(Append(down[m], f(m)), m, GotBy(m, R), q + 1)
      <4> DEFINE g == f(m)
      <4>1. g \in Packets /\ g.psn = q /\ IsData(g) /\ Result(m, g) /\ q \in Nat
        BY <1>1, <3>2
      <4> HIDE DEF g
      <4>2. DownLink(Append(down[m], g), m, GotBy(m, R), q + 1)
        BY <2>2, <2>3, <3>1, <4>1, DownAppend
      <4> QED BY <4>2 DEF g
    <3> QED BY <3>2, <3>3
  <2>6. GotBy(m, R) <= q + 1
    BY <1>1, <2>2, <2>3
  <2> QED BY <1>7, <1>13, <2>0, <2>1, <2>2, <2>4, <2>5, <2>6, NodeNow
<1>14. ASSUME NEW m \in Below, Parent[m] # s PROVE NodeInv(m, B, D, S)'
  <2>1. m # n /\ NodeInv(m, A, C, R)
    BY <1>14, NodeOf
  <2>2. /\ D[Parent[m]] = C[Parent[m]] /\ S[Parent[m]] = R[Parent[m]]
        /\ m \notin Hosts => D[m] = C[m] /\ S[m] = R[m]
    BY <1>6, <1>7, <1>14, NodeFacts DEF Nodes
  <2>3. B[m] = A[m] /\ up'[m] = up[m] /\ down'[m] = down[m]
    BY <1>5, <1>11, <1>14, <2>1
  <2> QED BY <2>1, <2>2, <2>3, NodeKept
          DEF hostVars, appVars, requesterVars, responderVars
<1>15. i # j /\ j \in Slots
  <2>1. q + WINDOW_SIZE \in Nat /\ q # q + WINDOW_SIZE
        /\ q - (q + WINDOW_SIZE) < N /\ (q + WINDOW_SIZE) - q < N
    BY <1>1, <1>6
  <2> QED BY <1>1, <2>1, SlotApart, IdxInSlots DEF i, j, ToClear
<1>16. /\ aggregator'[s][i] = v /\ reth_keeper'[s][i] = reths
       /\ arrival_state'[s][i] = ArrivedWith(n, p) \union {Up}
       /\ aggregator'[s][j] = Zero /\ arrival_state'[s][j] = {}
  BY SMTT(30), <1>1, <1>2, <1>15, SlotArrays
<1>17. /\ \A k \in Slots \ {i, j} :
             /\ aggregator'[s][k] = aggregator[s][k]
             /\ reth_keeper'[s][k] = reth_keeper[s][k]
             /\ arrival_state'[s][k] = arrival_state[s][k]
       /\ \A t \in Switches \ {s} :
             /\ aggregator'[t] = aggregator[t]
             /\ reth_keeper'[t] = reth_keeper[t]
             /\ arrival_state'[t] = arrival_state[t]
  BY SMTT(30), <1>1, <1>2, <1>15, SlotArrays
<1>18. SlotOf(s, q, B, q + 1)'
  <2>1. q < q + 1 /\ \A m \in Ports(s) : q < B[m]
    BY <1>1, <1>3, <1>6
  <2>2. ArrivedAt(s, q, B, q + 1) = Ports(s) \union {Up}
    BY <2>1 DEF ArrivedAt
  <2>3. /\ arrival_state'[s][Idx(q)] = ArrivedAt(s, q, B, q + 1)
        /\ aggregator'[s][Idx(q)].sum = ExactSum(q + 1)
        /\ reth_keeper'[s][Idx(q)] = reths
    BY <1>8, <1>16, <2>2 DEF i
  <2>4. KindOf(q) = "write" =>
           \A h \in Ports(s) \intersect Hosts :
              q < B[h] => reth_keeper'[s][Idx(q)][h] = q
    BY <1>8, <2>3
  <2> DEFINE r == q + 1
  <2> HIDE DEF r
  <2>5. /\ arrival_state'[s][Idx(q)] = ArrivedAt(s, q, B, r) /\ q < r
    BY <2>1, <2>3 DEF r
  <2>6. SlotOf(s, q, B, r)'
    BY <2>3, <2>4, <2>5 DEF SlotOf
  <2> QED BY <2>6 DEF r
<1>19. SlotOf(s, q + WINDOW_SIZE, B, q + 1)'
  <2> DEFINE k == q + WINDOW_SIZE
             r == q + 1
  <2>1. ASSUME NEW m \in Ports(s) PROVE ~ (k < B[m])
    <3>1. CASE m = n
      BY <1>1, <1>5, <1>6, <3>1
    <3>2. CASE m # n
      <4>1. m \in Below /\ Parent[m] = s /\ B[m] = A[m]
        BY <1>1, <1>5, <3>2, NodeFacts
      <4>2. A[m] <= SentBy(m, C) /\ SentBy(m, C) <= GotBy(m, R) + WINDOW_SIZE
            /\ GotBy(m, R) <= q
        BY <1>3, <4>1, NodeOf
      <4>3. SentBy(m, C) \in Nat /\ GotBy(m, R) \in Nat
        BY <4>1, GhostTypes
      <4> QED BY SMTT(30), <1>1, <1>6, <4>1, <4>2, <4>3
    <3> QED BY <3>1, <3>2
  <2>2. ~ (k < r) /\ Idx(k) = j
    BY <1>1, <1>6, <1>2 DEF j, ToClear
  <2> HIDE DEF k, r
  <2>3. ArrivedAt(s, k, B, r) = {} /\ PartialSum(s, k, B) = Zero.sum
    BY <2>1, <2>2 DEF ArrivedAt, PartialSum, Zero, NoSum
  <2>4. /\ arrival_state'[s][Idx(k)] = ArrivedAt(s, k, B, r)
        /\ aggregator'[s][Idx(k)].sum = PartialSum(s, k, B)
    BY <1>16, <2>2, <2>3
  <2>5. SlotOf(s, k, B, r)'
    BY <2>1, <2>2, <2>4 DEF SlotOf
  <2> QED BY <2>5 DEF k, r
<1>20. ASSUME NEW k \in Held(s, q + 1), k # q, k # q + WINDOW_SIZE
       PROVE  SlotOf(s, k, B, q + 1)'
  <2>1. k \in Nat /\ k \in Held(s, q) /\ q - k < N /\ k - q < N
        /\ (q + WINDOW_SIZE) - k < N /\ k - (q + WINDOW_SIZE) < N
    BY <1>1, <1>2, <1>20, HeldNext
  <2>2. Idx(k) \in Slots \ {i, j}
    <3>1. Idx(k) # Idx(q) /\ Idx(k) # Idx(q + WINDOW_SIZE)
      <4>1. q + WINDOW_SIZE \in Nat
        BY <1>1, <1>6
      <4> QED BY <1>1, <1>20, <2>1, <4>1, SlotApart
    <3> QED BY <2>1, <3>1, IdxInSlots DEF i, j, ToClear
  <2>3. SlotOf(s, k, A, q)
    <3>1. SlotOf(s, k, A, R[s])
      BY <1>1, <1>3, <2>1, SwitchOf
    <3> QED BY <1>3, <3>1
  <2>4. \A m \in Ports(s) : k < B[m] <=> k < A[m]
    <3>1. k < B[n] <=> k < A[n]
      BY <1>1, <1>5, <1>20, <2>1
    <3> QED BY <1>5, <1>6, <3>1
  <2>5. k < q + 1 <=> k < q
    BY <1>1, <1>20, <2>1
  <2>6. /\ aggregator'[s][Idx(k)] = aggregator[s][Idx(k)]
        /\ reth_keeper'[s][Idx(k)] = reth_keeper[s][Idx(k)]
        /\ arrival_state'[s][Idx(k)] = arrival_state[s][Idx(k)]
    BY <1>17, <2>2
  <2>7. ASSUME NEW r, k < r <=> k < q PROVE SlotOf(s, k, B, r)'
    BY ONLY <2>3, <2>4, <2>6, <2>7, SlotKept
  <2> QED BY <2>5, <2>7
<1>21. SwitchInv(s, B, D[s], S[s])'
  <2>1. ASSUME NEW k \in Held(s, q + 1) PROVE SlotOf(s, k, B, q + 1)'
    BY <1>18, <1>19, <1>20
  <2>2. ASSUME NEW c, c = q + 1 PROVE SwitchInv(s, B, c, c)'
    <3>1. \A k \in Held(s, c) : SlotOf(s, k, B, c)'
      BY <2>1, <2>2
    <3>2. \E m \in Ports(s) : B[m] = c
      BY <1>1, <1>5, <2>2
    <3>3. c <= c
      BY <1>1, <2>2
    <3> QED BY <3>1, <3>2, <3>3 DEF SwitchInv
  <2> QED BY <1>7, <2>2
<1>22. ASSUME NEW t \in Switches \ {s} PROVE SwitchInv(t, B, D[t], S[t])'
  <2>1. SwitchInv(t, A, D[t], S[t])
    BY <1>7, SwitchOf
  <2>2. \A m \in Ports(t) : B[m] = A[m]
    BY <1>1, <1>5, NodeFacts
  <2>4. ASSUME NEW c, NEW r, SwitchInv(t, A, c, r) PROVE SwitchInv(t, B, c, r)'
    BY <1>17, <2>2, <2>4, SwitchKept
  <2> QED BY <2>1, <2>4
<1>23. IInv(B, D, S)'
  <2>1. \A t \in Switches : SwitchInv(t, B, D[t], S[t])'
    BY <1>21, <1>22
  <2>2. \A m \in Below : NodeInv(m, B, D, S)'
    BY <1>13, <1>14
  <2> QED BY <2>1, <2>2, HostsKept DEF IInv
<1>24. Ghosts(B, D, S)
  BY <1>7 DEF Ghosts, OneMore
<1> QED BY <1>23, <1>24

(* A link to a switch, when more results are there for who sends on it. *)
LEMMA UpMore ==
    ASSUME NEW link, NEW n, n \notin Hosts, NEW a, NEW sent, NEW got, NEW more,
           UpLink(link, n, a, sent, got)
    PROVE  UpLink(link, n, a, sent, more)
BY DEF UpLink, UpPacket

(* A result that comes from the parent: where it belongs, the packets of    *)
(* all ports are, for the parent had the sum.                               *)
LEMMA ResultHasSlot ==
    ASSUME IsTree, SlotsSuffice, TypeOK, NEW A, NEW C, NEW R,
           Ghosts(A, C, R), IInv(A, C, R),
           NEW s \in Switches \ {Root}, down[s] # << >>,
           NEW p, p = Head(down[s]), IsData(p), NEW q, q = p.psn
    PROVE  /\ p \in Packets /\ q \in Psns /\ q \in Nat /\ Idx(q) \in Slots
           /\ p.kind \in {"data", "write"} /\ p.val \in Values /\ Result(s, p)
           /\ q <= R[s] /\ q < R[Parent[s]] /\ q < C[s] /\ q + 1 <= Total
           /\ q \in Held(s, C[s]) /\ SlotOf(s, q, A, R[s])
           /\ \A m \in Ports(s) : q < A[m]
           /\ recv_from_all_fan_in(s, q)
           /\ recv_from_port(s, Up, q) <=> q < R[s]
<1>1. /\ s \in Below /\ s \notin Hosts /\ Parent[s] \in Switches
      /\ \A m \in Ports(s) : m \in Below /\ Parent[m] = s
      /\ Up \notin Ports(s)
  BY NodeFacts DEF Nodes
<1>2. /\ SentBy(s, C) = C[s] /\ GotBy(s, R) = R[s]
      /\ C[Parent[s]] <= A[s] /\ A[s] <= C[s] /\ R[Parent[s]] <= C[Parent[s]]
      /\ DownLink(down[s], s, R[s], R[Parent[s]])
  BY <1>1, NodeOf, SwitchOf DEF SentBy, GotBy
<1>3. /\ C[s] \in Nat /\ R[s] \in Nat /\ R[Parent[s]] \in Nat /\ A[s] \in Nat
      /\ C[Parent[s]] \in Nat /\ Total \in Nat /\ C[s] <= Total
      /\ \A m \in Ports(s) : A[m] \in Nat
  BY <1>1, <1>2, GhostTypes
<1>4. /\ p \in Packets /\ q \in Nat /\ down[s] \in Seq(Packets)
  BY <1>1, NodeTypes, LinkPsns
<1>5. Result(s, p) /\ q < R[Parent[s]] /\ q <= R[s]
  BY <1>1, <1>2, <1>3, <1>4, DownHead
<1>6. q < C[s] /\ q + 1 <= Total /\ q < Total
  BY <1>2, <1>3, <1>4, <1>5
<1>7. q \in Held(s, C[s]) /\ Idx(q) \in Slots
  BY <1>4, <1>6, PsnsFit, HeldBelow
<1>8. SlotOf(s, q, A, R[s])
  BY <1>7, SwitchOf
<1>9. ASSUME NEW m \in Ports(s) PROVE q < A[m]
  <2>1. C[s] <= A[m]
    BY <1>1, NodeOf
  <2> QED BY <1>3, <1>4, <1>6, <2>1
<1>10. recv_from_all_fan_in(s, q) /\ (recv_from_port(s, Up, q) <=> q < R[s])
  BY <1>1, <1>8, <1>9
     DEF SlotOf, ArrivedAt, recv_from_all_fan_in, recv_from_port, AllIn
<1>11. q \in Psns /\ p.val \in Values
  BY <1>4 DEF Packets
<1>12. p.kind \in {"data", "write"}
  BY DEF IsData
<1> QED BY <1>4, <1>5, <1>6, <1>7, <1>8, <1>9, <1>10, <1>11, <1>12

(* A switch takes a result it is the next to have, and hands it down; a     *)
(* copy of one it has is dropped.                                           *)
LEMMA TakeResultInv ==
    ASSUME IsTree, SlotsSuffice, OnlyLastLost, TypeOK, TypeOK',
           NEW A, NEW C, NEW R, Ghosts(A, C, R), IInv(A, C, R),
           NEW s \in Switches \ {Root}, down[s] # << >>,
           NEW p, p = Head(down[s]), IsData(p), TakeResult(s, p),
           UNCHANGED hostVars, UNCHANGED reth_keeper, UNCHANGED up
    PROVE  \E S : Ghosts(A, C, S) /\ IInv(A, C, S)'
<1> DEFINE q == p.psn
           i == Idx(q)
           reths == reth_keeper[s][i]
           f(m) == Frame(p.kind, p.val, q, reths[m])
           S == [R EXCEPT ![s] = q + 1]
<1>1. /\ p \in Packets /\ q \in Psns /\ q \in Nat /\ i \in Slots
      /\ p.kind \in {"data", "write"} /\ p.val \in Values /\ Result(s, p)
      /\ q <= R[s] /\ q < R[Parent[s]] /\ q < C[s] /\ q + 1 <= Total
      /\ q \in Held(s, C[s]) /\ SlotOf(s, q, A, R[s])
      /\ \A m \in Ports(s) : q < A[m]
      /\ recv_from_all_fan_in(s, q)
      /\ recv_from_port(s, Up, q) <=> q < R[s]
  BY ResultHasSlot
<1>2. /\ s \in Below /\ s \notin Hosts /\ s \notin Ports(s)
      /\ Parent[s] \in Switches /\ Parent[s] # s
  BY NodeFacts DEF Nodes
<1>3. /\ SentBy(s, C) = C[s] /\ GotBy(s, R) = R[s]
      /\ C[Parent[s]] <= A[s] /\ A[s] <= C[s] /\ C[s] <= R[s] + WINDOW_SIZE
      /\ R[s] <= R[Parent[s]]
      /\ UpLink(up[s], s, A[s], C[s], R[s])
      /\ DownLink(down[s], s, R[s], R[Parent[s]])
  BY <1>2, NodeOf DEF SentBy, GotBy
<1>4. /\ R[s] \in Nat /\ C[s] \in Nat /\ R[Parent[s]] \in Nat
      /\ WINDOW_SIZE \in Nat /\ down[s] \in Seq(Packets)
  BY <1>2, <1>3, GhostTypes, NodeTypes
<1> HIDE DEF i, reths, f, S
<1>5. CASE q < R[s]
  <2>1. /\ down'[s] = Tail(down[s])
        /\ \A m \in Below \ {s} : down'[m] = down[m]
        /\ UNCHANGED <<aggregator, arrival_state>>
    BY <1>1, <1>2, <1>5 DEF TakeResult, TypeOK
  <2>2. NodeInv(s, A, C, R)'
    <3>1. DownLink(down'[s], s, R[s], R[Parent[s]])
      BY <1>3, <1>4, <1>5, <2>1, DownTail
    <3> QED BY <1>2, <1>3, <3>1, NodeNow
  <2>3. ASSUME NEW m \in Below, m # s PROVE NodeInv(m, A, C, R)'
    <3>1. NodeInv(m, A, C, R)
      BY NodeOf
    <3> QED BY <2>1, <2>3, <3>1, NodeKept
            DEF hostVars, appVars, requesterVars, responderVars
  <2>4. ASSUME NEW t \in Switches PROVE SwitchInv(t, A, C[t], R[t])'
    <3>1. SwitchInv(t, A, C[t], R[t])
      BY SwitchOf
    <3>2. ASSUME NEW c, NEW r, SwitchInv(t, A, c, r) PROVE SwitchInv(t, A, c, r)'
      BY <2>1, <3>2, SwitchKept
    <3> QED BY <3>1, <3>2
  <2>5. IInv(A, C, R)'
    BY <2>2, <2>3, <2>4, HostsKept DEF IInv
  <2> QED BY <2>5
<1>6. CASE q = R[s]
  <2>1. /\ aggregator' = [aggregator EXCEPT ![s][i] = p.val]
        /\ arrival_state' = [arrival_state EXCEPT ![s][i] = @ \union {Up}]
        /\ down' = [Broadcast(s, p.kind, p.val, q, reths) EXCEPT ![s] = Tail(@)]
    <3>1. ~ recv_from_port(s, Up, q) /\ recv_from_all_fan_in(s, q)
      BY <1>1, <1>4, <1>6
    <3> QED BY <3>1 DEF TakeResult, i, reths
  <2>2. /\ S \in [Switches -> 0 .. Total] /\ S[s] = q + 1
        /\ \A t \in Switches \ {s} : S[t] = R[t]
    <3>1. R \in [Switches -> 0 .. Total]
      BY DEF Ghosts
    <3>2. q + 1 \in 0 .. Total
      BY <1>1, TotalNat
    <3> QED BY <3>1, <3>2 DEF S
  <2>3. /\ down'[s] = Tail(down[s])
        /\ \A m \in Ports(s) : down'[m] = Append(down[m], f(m))
        /\ \A m \in Below \ {s} : Parent[m] # s => down'[m] = down[m]
    BY <1>2, <2>1 DEF Broadcast, Ports, f
  <2>4. \A m \in Below : m # s => GotBy(m, S) = GotBy(m, R)
    BY <2>2, <1>2 DEF GotBy, Below
  <2>5. NodeInv(s, A, C, S)'
    <3>1. q + 1 \in Nat /\ R[s] <= q + 1 /\ q < q + 1 /\ q + 1 <= R[Parent[s]]
          /\ C[s] <= q + 1 + WINDOW_SIZE
      <4>1. q \in Nat /\ q < R[Parent[s]] /\ C[s] <= R[s] + WINDOW_SIZE
        BY <1>1, <1>3
      <4> QED BY ONLY <1>4, <1>6, <4>1
    <3>2. DownLink(down'[s], s, q + 1, R[Parent[s]])
      BY <1>3, <1>4, <2>3, <3>1, DownTail
    <3>3. UpLink(up'[s], s, A[s], C[s], q + 1)
      BY <1>2, <1>3, UpMore
    <3>4. GotBy(s, S) = q + 1 /\ S[Parent[s]] = R[Parent[s]]
      BY <1>2, <2>2 DEF GotBy
    <3> QED BY <1>2, <1>3, <3>1, <3>2, <3>3, <3>4, NodeNow
  <2>6. ASSUME NEW m \in Ports(s) PROVE NodeInv(m, A, C, S)'
    <3>1. m \in Below /\ Parent[m] = s /\ m # s
      BY <1>2, NodeFacts
    <3>2. /\ C[s] <= A[m] /\ A[m] <= SentBy(m, C)
          /\ SentBy(m, C) <= GotBy(m, R) + WINDOW_SIZE /\ GotBy(m, R) <= R[s]
          /\ UpLink(up[m], m, A[m], SentBy(m, C), GotBy(m, R))
          /\ DownLink(down[m], m, GotBy(m, R), R[s])
      BY <3>1, NodeOf
    <3>3. GotBy(m, R) \in Nat /\ down[m] \in Seq(Packets)
      BY <3>1, GhostTypes, NodeTypes
    <3> DEFINE r == reths[m]
               g == f(m)
    <3>4. r \in Psns \union {NoReth}
      BY <1>1, <3>1, SlotArrays DEF reths
    <3> HIDE DEF r
    <3>5. g = Frame(p.kind, p.val, q, r)
      BY DEF r, f
    <3> HIDE DEF g
    <3>6. /\ g \in Packets /\ g.kind = p.kind /\ g.psn = q /\ IsData(g)
          /\ g.val.sum = p.val.sum
          /\ p.kind = "write" => g.reth = r
      <4> DEFINE v == p.val
      <4> HIDE DEF v
      <4>0. v \in Values /\ g = Frame(p.kind, v, q, r)
        BY <1>1, <3>5 DEF v
      <4>1. /\ g \in Packets /\ g.kind = p.kind /\ g.psn = q /\ IsData(g)
            /\ g.val.sum = v.sum
            /\ p.kind = "write" => g.reth = r
        <5>1. p.kind \in {"data", "write"} /\ q \in Psns
          BY <1>1
        <5> HIDE DEF q
        <5> QED BY ONLY <3>4, <4>0, <5>1, FrameIs, SMTT(30)
      <4> QED BY <4>1 DEF v
    <3>7. Result(m, g)
      <4>1. KindOf(q) = "write" /\ m \in Hosts => r = q
        BY <1>1 DEF SlotOf, reths, r, i
      <4> QED BY <1>1, <3>6, <4>1 DEF Result
    <3>8. DownLink(down'[m], m, GotBy(m, R), q + 1)
      <4>1. down'[m] = Append(down[m], g) /\ q + 1 \in Nat
        BY <1>1, <2>3 DEF g
      <4>2. DownLink(Append(down[m], g), m, GotBy(m, R), q + 1)
        BY <1>1, <1>6, <3>2, <3>3, <3>6, <3>7, <4>1, DownAppend
      <4> QED BY <4>1, <4>2
    <3>9. GotBy(m, R) <= q + 1 /\ GotBy(m, S) = GotBy(m, R) /\ S[s] = q + 1
      BY <1>1, <1>6, <2>2, <2>4, <3>1, <3>2, <3>3
    <3> QED BY <3>1, <3>2, <3>8, <3>9, NodeNow
  <2>7. ASSUME NEW m \in Below, m # s, Parent[m] # s PROVE NodeInv(m, A, C, S)'
    <3>1. NodeInv(m, A, C, R) /\ down'[m] = down[m]
      BY <2>3, <2>7, NodeOf
    <3>2. S[Parent[m]] = R[Parent[m]] /\ (m \notin Hosts => S[m] = R[m])
      BY <2>2, <2>7, NodeFacts DEF Nodes
    <3> QED BY <3>1, <3>2, NodeKept
            DEF hostVars, appVars, requesterVars, responderVars
  <2>8. /\ aggregator'[s][i] = p.val
        /\ arrival_state'[s][i] = arrival_state[s][i] \union {Up}
        /\ \A j \in Slots \ {i} : /\ aggregator'[s][j] = aggregator[s][j]
                                  /\ arrival_state'[s][j] = arrival_state[s][j]
        /\ \A t \in Switches \ {s} : /\ aggregator'[t] = aggregator[t]
                                     /\ arrival_state'[t] = arrival_state[t]
    <3> HIDE DEF q
    <3>1. /\ aggregator'[s][i] = p.val
          /\ \A j \in Slots \ {i} : aggregator'[s][j] = aggregator[s][j]
          /\ \A t \in Switches \ {s} : aggregator'[t] = aggregator[t]
      BY <1>1, <2>1, SlotArrays
    <3>2. /\ arrival_state'[s][i] = arrival_state[s][i] \union {Up}
          /\ \A j \in Slots \ {i} : arrival_state'[s][j] = arrival_state[s][j]
          /\ \A t \in Switches \ {s} : arrival_state'[t] = arrival_state[t]
      BY <1>1, <2>1, SlotArrays
    <3> QED BY <3>1, <3>2
  <2>9. SlotOf(s, q, A, q + 1)'
    <3> DEFINE r == q + 1
    <3>1. q < r /\ ~ (q < R[s])
      BY <1>1, <1>4, <1>6
    <3> HIDE DEF r
    <3>2. /\ arrival_state[s][i] = ArrivedAt(s, q, A, R[s])
          /\ KindOf(q) = "write" =>
                \A h \in Ports(s) \intersect Hosts : q < A[h] => reths[h] = q
      BY <1>1 DEF SlotOf, i, reths
    <3>3. arrival_state'[s][i] = ArrivedAt(s, q, A, r)
      BY <2>8, <3>1, <3>2 DEF ArrivedAt
    <3>4. aggregator'[s][i].sum = ExactSum(q + 1)
      BY <1>1, <2>8 DEF Result
    <3>5. reth_keeper'[s][i] = reths
      BY DEF reths
    <3>6. SlotOf(s, q, A, r)'
      BY <3>1, <3>2, <3>3, <3>4, <3>5 DEF SlotOf, i
    <3> QED BY <3>6 DEF r
  <2>10. ASSUME NEW k \in Held(s, C[s]), k # q PROVE SlotOf(s, k, A, q + 1)'
    <3>1. SlotOf(s, k, A, q)
      <4>1. SlotOf(s, k, A, R[s])
        BY SwitchOf
      <4> QED BY <1>6, <4>1
    <3>2. k \in Nat /\ Idx(k) \in Slots \ {i}
      BY <1>1, <1>4, <2>10, HeldApart DEF i
    <3>3. /\ aggregator'[s][Idx(k)] = aggregator[s][Idx(k)]
          /\ reth_keeper'[s][Idx(k)] = reth_keeper[s][Idx(k)]
          /\ arrival_state'[s][Idx(k)] = arrival_state[s][Idx(k)]
      BY <2>8, <3>2
    <3>4. k < q + 1 <=> k < q
      BY <1>1, <2>10, <3>2
    <3>5. ASSUME NEW r, k < r <=> k < q PROVE SlotOf(s, k, A, r)'
      BY ONLY <3>1, <3>3, <3>5, SlotKept
    <3> QED BY <3>4, <3>5
  <2>11. SwitchInv(s, A, C[s], S[s])'
    <3>1. \A k \in Held(s, C[s]) : SlotOf(s, k, A, q + 1)'
      BY <2>9, <2>10
    <3>2. q + 1 <= C[s] /\ \E m \in Ports(s) : A[m] = C[s]
      BY <1>1, <1>4, SwitchOf
    <3>3. ASSUME NEW c, NEW r, c = C[s], r = q + 1 PROVE SwitchInv(s, A, c, r)'
      BY <3>1, <3>2, <3>3 DEF SwitchInv
    <3> QED BY <2>2, <3>3
  <2>12. ASSUME NEW t \in Switches \ {s} PROVE SwitchInv(t, A, C[t], S[t])'
    <3>1. SwitchInv(t, A, C[t], S[t])
      BY <2>2, SwitchOf
    <3>2. ASSUME NEW c, NEW r, SwitchInv(t, A, c, r) PROVE SwitchInv(t, A, c, r)'
      BY <2>8, <3>2, SwitchKept
    <3> QED BY <3>1, <3>2
  <2>13. IInv(A, C, S)'
    <3>1. \A m \in Below : NodeInv(m, A, C, S)'
      BY <2>5, <2>6, <2>7 DEF Ports
    <3>2. \A t \in Switches : SwitchInv(t, A, C[t], S[t])'
      BY <2>11, <2>12
    <3> QED BY <3>1, <3>2, HostsKept DEF IInv
  <2>14. Ghosts(A, C, S)
    BY <2>2 DEF Ghosts
  <2> QED BY <2>13, <2>14
<1> QED BY <1>1, <1>4, <1>5, <1>6

------------------------------------------------------------------------------
(* The invariant *)

LEMMA InitInv == Init => TreeInv /\ ResultsExact /\ CompletionIsResult
<1> SUFFICES ASSUME Init
             PROVE  TreeInv /\ ResultsExact /\ CompletionIsResult
  OBVIOUS
<1> DEFINE A == [n \in Below |-> 0]
           C == [s \in Switches |-> 0]
<1>1. /\ A \in [Below -> 0 .. Total] /\ C \in [Switches -> 0 .. Total]
      /\ \A n \in Below : A[n] = 0
      /\ \A s \in Switches : C[s] = 0
  BY TotalNat
<1> HIDE DEF A, C
<1>2. ASSUME NEW h \in Hosts PROVE HostInv(h)
  <2>1. /\ posted[h] = 0 /\ dst[h] = << >> /\ una[h] = 0 /\ nxt[h] = 0
        /\ hi[h] = 0 /\ placed[h] = << >>
    BY DEF Init
  <2>2. 0 \in 0 .. Messages /\ 0 * MsgLen = 0 /\ 0 <= 0 + HostWindow
    BY Sizes
  <2> QED BY <2>1, <2>2 DEF HostInv
<1>3. ASSUME NEW n \in Below PROVE NodeInv(n, A, C, C)
  <2>1. SentBy(n, C) = 0 /\ GotBy(n, C) = 0 /\ C[Parent[n]] = 0 /\ A[n] = 0
    BY <1>1, NodeFacts DEF Init, SentBy, GotBy, Nodes
  <2>2. up[n] = << >> /\ down[n] = << >>
    BY DEF Init
  <2>3. UpLink(up[n], n, 0, 0, 0) /\ DownLink(down[n], n, 0, 0)
    BY <2>2 DEF UpLink, DownLink
  <2>4. 0 <= 0 + WINDOW_SIZE
    BY Sizes
  <2> QED BY <2>1, <2>3, <2>4 DEF NodeInv, LinkInv
<1>4. ASSUME NEW s \in Switches PROVE SwitchInv(s, A, C[s], C[s])
  <2>1. \E n \in Ports(s) : A[n] = 0
    BY <1>1, TreeAssumption DEF Ports, Below
  <2>2. ASSUME NEW q \in Held(s, 0) PROVE SlotOf(s, q, A, 0)
    <3>1. q \in Nat /\ Idx(q) \in Slots /\ ~ (q < 0)
      BY <2>2, HeldApart
    <3>2. arrival_state[s][Idx(q)] = {} /\ aggregator[s][Idx(q)] = Zero
      BY <3>1 DEF Init
    <3>3. \A n \in Ports(s) : ~ (q < A[n])
      BY <1>1, <3>1, NodeFacts
    <3>4. ArrivedAt(s, q, A, 0) = {} /\ PartialSum(s, q, A) = NoSum
      BY <3>1, <3>3 DEF ArrivedAt, PartialSum, NoSum
    <3> QED BY <3>1, <3>2, <3>3, <3>4 DEF SlotOf, Zero
  <2>3. SwitchInv(s, A, 0, 0)
    BY <2>1, <2>2 DEF SwitchInv
  <2> QED BY <1>1, <2>3
<1>5. IInv(A, C, C)
  BY <1>2, <1>3, <1>4 DEF IInv
<1>6. ResultsExact /\ CompletionIsResult
  BY DEF Init, ResultsExact, CompletionIsResult
<1> QED BY <1>1, <1>5, <1>6 DEF TreeInv

(* Packets from below and from above, without their kinds. *)
LEMMA UpSteps ==
    ASSUME NEW n \in Below, HandleUp(n)
    PROVE  \/ UpAck(n)
           \/ /\ up[n] # << >> /\ IsData(Head(up[n])) /\ UNCHANGED hostVars
              /\ \/ UpRetransmission(n, Head(up[n]))
                 \/ /\ ~ recv_from_port(Parent[n], n, Head(up[n]).psn)
                    /\ \/ AddOnly(n, Head(up[n]))
                       \/ ForwardToParent(n, Head(up[n]))
                       \/ CompleteAtRoot(n, Head(up[n]))
<1>1. CASE UpData(n)
  BY <1>1 DEF UpData, IsData, UpFirst
<1>2. CASE UpWriteFirstOnly(n)
  BY <1>2 DEF UpWriteFirstOnly, IsData, UpFirst
<1> QED BY <1>1, <1>2 DEF HandleUp

LEMMA DownSteps ==
    ASSUME NEW s \in Switches \ {Root}, HandleDown(s)
    PROVE  /\ down[s] # << >> /\ IsData(Head(down[s]))
           /\ TakeResult(s, Head(down[s]))
           /\ UNCHANGED hostVars /\ UNCHANGED reth_keeper /\ UNCHANGED up
BY DEF HandleDown, DownData, DownWriteFirstOnly, IsData

LEMMA SameInv ==
    ASSUME NEW A, NEW C, NEW R, IInv(A, C, R), UNCHANGED vars
    PROVE  IInv(A, C, R)'
<1> USE DEF vars, hostVars, slotVars, appVars, requesterVars, responderVars
<1>1. ASSUME NEW n \in Below PROVE NodeInv(n, A, C, R)'
  BY NodeOf, NodeKept
<1>2. ASSUME NEW t \in Switches PROVE SwitchInv(t, A, C[t], R[t])'
  <2>1. SwitchInv(t, A, C[t], R[t])
    BY SwitchOf
  <2>2. ASSUME NEW c, NEW r, SwitchInv(t, A, c, r) PROVE SwitchInv(t, A, c, r)'
    BY <2>2, SwitchKept
  <2> QED BY <2>1, <2>2
<1> QED BY <1>1, <1>2, HostsKept DEF IInv

LEMMA Explained ==
    ASSUME NEW A, NEW C, NEW R, Ghosts(A, C, R), IInv(A, C, R)'
    PROVE  TreeInv'
BY DEF Ghosts, TreeInv

LEMMA Explanation ==
    ASSUME TreeInv
    PROVE  \E A, C, R : Ghosts(A, C, R) /\ IInv(A, C, R)
BY DEF Ghosts, TreeInv

(* A data packet that comes up. *)
LEMMA UpDataInv ==
    ASSUME IsTree, SlotsSuffice, OnlyLastLost, TypeOK, TypeOK',
           NEW A, NEW C, NEW R, Ghosts(A, C, R), IInv(A, C, R),
           NEW n \in Below, up[n] # << >>, NEW p, p = Head(up[n]), IsData(p),
           NEW s, s = Parent[n], ~ recv_from_port(s, n, p.psn),
           UNCHANGED hostVars,
           AddOnly(n, p) \/ ForwardToParent(n, p) \/ CompleteAtRoot(n, p)
    PROVE  TreeInv'
<1>1. PICK q : q = A[n]
  OBVIOUS
<1>2. PICK B : OneMore(A, n, B)
  BY <1>1, FirstIsNext
<1>3. CASE AddOnly(n, p)
  <2>1. Ghosts(B, C, R) /\ IInv(B, C, R)'
    BY <1>1, <1>2, <1>3, AddOnlyInv
  <2> QED BY <2>1, Explained
<1>4. CASE ForwardToParent(n, p)
  <2>1. \E D : Ghosts(B, D, R) /\ IInv(B, D, R)'
    BY <1>1, <1>2, <1>4, ForwardToParentInv
  <2> QED BY <2>1, Explained
<1>5. CASE CompleteAtRoot(n, p)
  <2>1. \E D, S : Ghosts(B, D, S) /\ IInv(B, D, S)'
    BY <1>1, <1>2, <1>5, CompleteAtRootInv
  <2> QED BY <2>1, Explained
<1> QED BY <1>3, <1>4, <1>5

LEMMA StepInv ==
    ASSUME IsTree, SlotsSuffice, OnlyLastLost, TypeOK, TypeOK', TreeInv,
           [Next]_vars
    PROVE  TreeInv'
<1>1. PICK A, C, R : Ghosts(A, C, R) /\ IInv(A, C, R)
  BY Explanation
<1>2. CASE UNCHANGED vars
  <2>1. IInv(A, C, R)'
    BY <1>1, <1>2, SameInv
  <2> QED BY <1>1, <2>1, Explained
<1>3. ASSUME NEW h \in Hosts,
             \/ PostInitial(h) \/ PollCompletion(h)
             \/ Transmit(h) \/ Timeout(h) \/ Receive(h)
      PROVE  TreeInv'
  <2>1. IInv(A, C, R)'
    BY <1>1, <1>3, PostInitialInv, PollCompletionInv, TransmitInv,
       TimeoutInv, ReceiveInv
  <2> QED BY <1>1, <2>1, Explained
<1>4. ASSUME NEW n \in Below, Lose(n) PROVE TreeInv'
  <2>1. IInv(A, C, R)'
    BY <1>1, <1>4, LoseInv
  <2> QED BY <1>1, <2>1, Explained
<1>5. ASSUME NEW n \in Below, HandleUp(n) PROVE TreeInv'
  <2>1. CASE UpAck(n)
    <3>1. IInv(A, C, R)'
      BY <1>1, <2>1, UpAckInv
    <3> QED BY <1>1, <3>1, Explained
  <2>2. ASSUME NEW p, p = Head(up[n]), up[n] # << >>, IsData(p),
               UNCHANGED hostVars, UpRetransmission(n, p)
        PROVE  TreeInv'
    <3>1. IInv(A, C, R)'
      BY <1>1, <2>2, RetransmissionInv
    <3> QED BY <1>1, <3>1, Explained
  <2>3. ASSUME NEW p, p = Head(up[n]), up[n] # << >>, IsData(p),
               UNCHANGED hostVars, ~ recv_from_port(Parent[n], n, p.psn),
               AddOnly(n, p) \/ ForwardToParent(n, p) \/ CompleteAtRoot(n, p)
        PROVE  TreeInv'
    BY <1>1, <2>3, UpDataInv
  <2> QED BY <1>5, <2>1, <2>2, <2>3, UpSteps
<1>6. ASSUME NEW s \in Switches \ {Root}, HandleDown(s) PROVE TreeInv'
  <2>1. ASSUME NEW p, p = Head(down[s]), down[s] # << >>, IsData(p),
               TakeResult(s, p), UNCHANGED hostVars, UNCHANGED reth_keeper,
               UNCHANGED up
        PROVE  TreeInv'
    <3>1. \E S : Ghosts(A, C, S) /\ IInv(A, C, S)'
      BY <1>1, <2>1, TakeResultInv
    <3> QED BY <3>1, Explained
  <2> QED BY <1>6, <2>1, DownSteps
<1> QED BY <1>2, <1>3, <1>4, <1>5, <1>6 DEF Next

(* What the results carry, and what the call hands back. *)
LEMMA StepExact ==
    ASSUME OnlyLastLost, TypeOK, TypeOK', TreeInv, ResultsExact,
           CompletionIsResult, [Next]_vars
    PROVE  ResultsExact' /\ CompletionIsResult'
<1> USE DEF hostVars, appVars, requesterVars, responderVars
<1>1. UNCHANGED <<placed, dst>> => ResultsExact' /\ CompletionIsResult'
  BY DEF ResultsExact, CompletionIsResult
<1>2. CASE UNCHANGED vars
  BY <1>1, <1>2 DEF vars
<1>3. ASSUME NEW h \in Hosts, PostInitial(h) \/ Transmit(h) \/ Timeout(h)
      PROVE  UNCHANGED <<placed, dst>>
  BY <1>3 DEF PostInitial, Transmit, Timeout
<1>4. PICK A, C, R : Ghosts(A, C, R) /\ IInv(A, C, R)
  BY Explanation
<1>5. ASSUME NEW h \in Hosts, PollCompletion(h)
      PROVE  ResultsExact' /\ CompletionIsResult'
  <2>0. HostInv(h)
    BY <1>4 DEF IInv
  <2>1. HostInv(h) /\ una[h] <= Len(placed[h])
    BY <2>0 DEF HostInv
  <2>2. CompletionIsResult'
    BY <1>5, <2>1, PollCompletionExact
  <2>3. placed' = placed
    BY <1>5 DEF PollCompletion
  <2> QED BY <2>2, <2>3 DEF ResultsExact
<1>6. ASSUME NEW h \in Hosts, Receive(h)
      PROVE  ResultsExact' /\ CompletionIsResult'
  <2>1. ResultsExact'
    BY <1>4, <1>6, ReceiveInv
  <2>2. dst' = dst
    BY <1>6 DEF Receive
  <2> QED BY <2>1, <2>2 DEF CompletionIsResult
<1>7. ASSUME NEW n \in Below, HandleUp(n) \/ Lose(n)
      PROVE  UNCHANGED <<placed, dst>>
  BY <1>7 DEF HandleUp, UpData, UpWriteFirstOnly, UpAck, Lose
<1>8. ASSUME NEW s \in Switches \ {Root}, HandleDown(s)
      PROVE  UNCHANGED <<placed, dst>>
  BY <1>8, DownSteps
<1> QED BY <1>1, <1>2, <1>3, <1>5, <1>6, <1>7, <1>8 DEF Next

LEMMA Invariance ==
    ASSUME IsTree, SlotsSuffice, OnlyLastLost
    PROVE  Spec => [](TypeOK /\ TreeInv /\ ResultsExact /\ CompletionIsResult)
<1> DEFINE Inv == TypeOK /\ TreeInv /\ ResultsExact /\ CompletionIsResult
<1>1. Init => Inv
  BY InitType, InitInv
<1>2. Inv /\ [Next]_vars => Inv'
  BY TypeStep, StepInv, StepExact
<1> QED BY <1>1, <1>2, PTL DEF Spec

------------------------------------------------------------------------------
(* The safety properties *)

(* Through every tree of switches, whatever ACKs are lost and however NICs  *)
(* time out, every result is the sum of one packet of every host.           *)
THEOREM ResultsAreExact ==
    ASSUME IsTree, SlotsSuffice, OnlyLastLost PROVE Spec => []ResultsExact
BY Invariance, PTL

(* And it is what the call hands back. *)
THEOREM CompletionsAreResults ==
    ASSUME IsTree, SlotsSuffice, OnlyLastLost
    PROVE  Spec => []CompletionIsResult
BY Invariance, PTL

LEMMA InvAcked == ASSUME TreeInv PROVE AckedIsPlaced
BY DEF TreeInv, IInv, HostInv, AckedIsPlaced

(* An acknowledged WRITE means that its result is there. *)
THEOREM AckedWritesHaveResults ==
    ASSUME IsTree, SlotsSuffice, OnlyLastLost PROVE Spec => []AckedIsPlaced
BY InvAcked, Invariance, PTL

(* A node is above itself, and above the hosts that are at it. *)
LEMMA UnderNode ==
    ASSUME NEW n \in Below, NEW h \in Hosts,
           h = n \/ (n \in Switches /\ Parent[h] = n)
    PROVE  h \in Under[n]
<1>1. CASE h = n
  BY <1>1, UnderHost
<1>2. CASE n \in Switches /\ Parent[h] = n
  <2>1. h \in Below /\ n \in Nodes
    BY NodeFacts
  <2>2. n \in Ancestors[h]
    BY <1>2, <2>1, AncestorsStep, AncestorsClosed
  <2> QED BY <2>1, <2>2 DEF Under
<1> QED BY <1>1, <1>2

LEMMA InvRetransmissions ==
    ASSUME IsTree, SlotsSuffice, TypeOK, TreeInv PROVE RetransmissionsAreOnes
<1> SUFFICES ASSUME NEW n \in Below, up[n] # << >>, IsData(Head(up[n])),
                    NEW q, q = Head(up[n]).psn, NEW s, s = Parent[n],
                    recv_from_port(s, n, q)
             PROVE  HoldsFrom(s, n, q)
  BY DEF RetransmissionsAreOnes
<1>1. PICK A, C, R : Ghosts(A, C, R) /\ IInv(A, C, R)
  BY Explanation
<1>2. /\ SlotOf(s, q, A, R[s]) /\ q \in Nat
      /\ n \in arrival_state[s][Idx(q)] <=> q < A[n]
  BY <1>1, HeadSlot
<1>3. q < A[n] /\ n \in Ports(s)
  BY <1>2, NodeFacts DEF recv_from_port
<1>4. ASSUME NEW h \in Hosts, h = n \/ (n \in Switches /\ Parent[h] = n)
      PROVE  aggregator[s][Idx(q)].sum[h] = <<q + 1>>
  <2>1. h \in Under[n]
    BY <1>4, UnderNode
  <2>2. ExactSum(q + 1)[h] = <<q + 1>>
    BY DEF ExactSum
  <2>3. PartialSum(s, q, A)[h] = <<q + 1>>
    BY <1>3, <2>1 DEF PartialSum
  <2> QED BY <1>2, <2>2, <2>3 DEF SlotOf
<1> QED BY <1>4 DEF HoldsFrom

(* The arrival bits tell retransmissions from first transmissions: what a   *)
(* set bit makes a switch take for a copy is one, with the packets of every *)
(* host behind that port.                                                   *)
THEOREM RetransmissionsRecognised ==
    ASSUME IsTree, SlotsSuffice, OnlyLastLost
    PROVE  Spec => []RetransmissionsAreOnes
BY InvRetransmissions, Invariance, PTL

LEMMA InvReth == ASSUME TypeOK, TreeInv PROVE RethIsOfMessage
<1> SUFFICES ASSUME NEW h \in Hosts, NEW k \in 1 .. Len(down[h]),
                    down[h][k].kind = "write"
             PROVE  down[h][k].reth = down[h][k].psn
  BY DEF RethIsOfMessage
<1>1. PICK A, C, R : Ghosts(A, C, R) /\ IInv(A, C, R)
  BY Explanation
<1>2. DownLink(down[h], h, GotBy(h, R), R[Parent[h]])
  BY <1>1, NodeOf, NodeFacts
<1>3. DownPacket(down[h], k, h, GotBy(h, R), R[Parent[h]])
  BY <1>2 DEF DownLink
<1> QED BY <1>3 DEF DownPacket, Result, IsData

(* A result that starts a message has the address the host gave for it. *)
THEOREM RethsOfMessages ==
    ASSUME IsTree, SlotsSuffice, OnlyLastLost PROVE Spec => []RethIsOfMessage
BY InvReth, Invariance, PTL

LEMMA InvFanIn ==
    ASSUME IsTree, SlotsSuffice, TypeOK, TreeInv PROVE FanInWillRetransmit
<1> SUFFICES ASSUME NEW s \in Switches \ {Root}, NEW i \in Slots,
                    AllIn(s, arrival_state[s][i]),
                    Up \notin arrival_state[s][i], NEW h \in Hosts,
                    NEW k \in 1 .. Len(aggregator[s][i].sum[h])
             PROVE  una[h] < aggregator[s][i].sum[h][k]
  BY DEF FanInWillRetransmit
<1>1. PICK A, C, R : Ghosts(A, C, R) /\ IInv(A, C, R)
  BY Explanation
<1>2. Idx(i) = i /\ i \in Nat /\ i \in Held(s, C[s])
  BY SlotSelf, HeldBelow DEF Slots
<1>3. SlotOf(s, i, A, R[s])
  BY <1>1, <1>2, SwitchOf
<1>4. ~ (i < R[s])
  BY <1>2, <1>3 DEF SlotOf, ArrivedAt
<1>5. PartialSum(s, i, A) = SumUnder(s, i)
  <2>1. recv_from_all_fan_in(s, i)
    BY <1>2 DEF recv_from_all_fan_in
  <2> QED BY <1>1, <1>3, <2>1, AllArrived
<1>6. aggregator[s][i].sum = SumUnder(s, i)
  BY <1>2, <1>3, <1>4, <1>5 DEF SlotOf
<1>7. CASE h \notin Under[s]
  <2>1. aggregator[s][i].sum[h] = << >>
    BY <1>6, <1>7 DEF SumUnder
  <2> QED BY <2>1
<1>8. CASE h \in Under[s]
  <2>1. aggregator[s][i].sum[h] = <<i + 1>>
    BY <1>6, <1>8 DEF SumUnder
  <2>2. k = 1 /\ aggregator[s][i].sum[h][k] = i + 1
    BY <2>1
  <2>3. una[h] <= Len(placed[h]) /\ Len(placed[h]) <= R[s]
    BY <1>1, <1>8, PlacedAbove DEF IInv, HostInv
  <2>4. una[h] \in Nat /\ Len(placed[h]) \in Nat /\ R[s] \in Nat
    BY <1>1, HostTypes, TotalNat DEF Ghosts
  <2>5. una[h] < i + 1
    BY <1>2, <1>4, <2>3, <2>4
  <2> QED BY <2>2, <2>5
<1> QED BY <1>7, <1>8

(* A switch that holds a sum without its result is sent it again: no host   *)
(* has the acknowledgement of a packet that is in it.                       *)
THEOREM FanInRetransmits ==
    ASSUME IsTree, SlotsSuffice, OnlyLastLost
    PROVE  Spec => []FanInWillRetransmit
BY InvFanIn, Invariance, PTL

(* Only the completion of a PSN clears a slot. *)
LEMMA SlotsKept ==
    ASSUME TypeOK, [Next]_vars, NEW i \in Slots,
           arrival_state[Root][i] # {}, arrival_state'[Root][i] = {}
    PROVE  \E n \in Below :
              /\ up[n] # << >> /\ IsData(Head(up[n]))
              /\ ~ recv_from_port(Parent[n], n, Head(up[n]).psn)
              /\ CompleteAtRoot(n, Head(up[n]))
<1> USE DEF slotVars
<1>0. /\ arrival_state \in [Switches -> [Slots -> SUBSET (Below \union {Up})]]
      /\ Root \in Switches
  BY SlotArrays, NodeFacts
<1>1. CASE UNCHANGED vars
  BY <1>1 DEF vars
<1>2. CASE \E h \in Hosts : \/ PostInitial(h) \/ PollCompletion(h)
                            \/ Transmit(h) \/ Timeout(h) \/ Receive(h)
  BY <1>2 DEF PostInitial, PollCompletion, Transmit, Timeout, Receive
<1>3. CASE \E n \in Below : Lose(n)
  BY <1>3 DEF Lose
<1>4. ASSUME NEW n \in Below, HandleUp(n)
      PROVE  /\ up[n] # << >> /\ IsData(Head(up[n]))
             /\ ~ recv_from_port(Parent[n], n, Head(up[n]).psn)
             /\ CompleteAtRoot(n, Head(up[n]))
  <2> DEFINE p == Head(up[n])
  <2>1. CASE UpAck(n)
    BY <2>1 DEF UpAck
  <2>2. CASE UpRetransmission(n, p)
    BY <2>2 DEF UpRetransmission
  <2>3. CASE AddOnly(n, p) \/ ForwardToParent(n, p)
    <3>1. arrival_state' = [arrival_state EXCEPT ![Parent[n]][Idx(p.psn)] =
                                                    ArrivedWith(n, p)]
      BY <2>3 DEF AddOnly, ForwardToParent
    <3>2. ArrivedWith(n, p) # {}
      BY DEF ArrivedWith
    <3> HIDE DEF p
    <3>3. arrival_state'[Root][i] \in {arrival_state[Root][i], ArrivedWith(n, p)}
      BY <1>0, <3>1
    <3> QED BY <3>2, <3>3
  <2> QED BY <1>4, <2>1, <2>2, <2>3, UpSteps
<1>5. ASSUME NEW s \in Switches \ {Root}, HandleDown(s) PROVE FALSE
  <2> DEFINE p == Head(down[s])
  <2>1. TakeResult(s, p)
    BY <1>5, DownSteps
  <2>2. arrival_state'[Root] = arrival_state[Root]
    BY <1>0, <2>1 DEF TakeResult
  <2> QED BY <2>2
<1> QED BY <1>1, <1>2, <1>3, <1>4, <1>5 DEF Next

(* What is complete at the root, with one packet more of one port, was sent *)
(* by every host.                                                           *)
LEMMA SentByAll ==
    ASSUME IsTree, TypeOK, NEW A, NEW C, NEW R, Ghosts(A, C, R), IInv(A, C, R),
           NEW q \in Nat, \A m \in Ports(Root) : q < SentBy(m, C),
           NEW h \in Hosts
    PROVE  q < hi[h]
<1>1. PICK m \in Ports(Root) : h \in Under[m]
  BY UnderRoot, UnderPorts, NodeFacts
<1>2. CASE m \in Hosts
  <2>1. m = h
    BY <1>1, <1>2, UnderHost
  <2> QED BY <1>2, <2>1 DEF SentBy
<1>3. CASE m \notin Hosts
  <2>1. m \in Switches /\ m \in Below
    BY <1>3, NodeFacts DEF Below
  <2>2. C[m] <= hi[h] /\ SentBy(m, C) = C[m]
    BY <1>1, <1>3, <2>1, PlacedAbove DEF SentBy
  <2>3. C[m] \in Nat /\ hi[h] \in Nat
    BY <2>1, HostTypes, TotalNat DEF Ghosts
  <2> QED BY <2>2, <2>3
<1> QED BY <1>2, <1>3

LEMMA ClearStep ==
    ASSUME IsTree, SlotsSuffice, TypeOK, TreeInv, [Next]_vars, NEW i \in Slots,
           arrival_state[Root][i] # {}, arrival_state'[Root][i] = {},
           NEW g \in Hosts, NEW h \in Hosts,
           NEW k \in 1 .. Len(aggregator[Root][i].sum[g])
    PROVE  una[h] >= aggregator[Root][i].sum[g][k]
<1>1. PICK n \in Below : /\ up[n] # << >> /\ IsData(Head(up[n]))
                         /\ ~ recv_from_port(Parent[n], n, Head(up[n]).psn)
                         /\ CompleteAtRoot(n, Head(up[n]))
  BY SlotsKept
<1>2. PICK A, C, R : Ghosts(A, C, R) /\ IInv(A, C, R)
  BY Explanation
<1>3. PICK p : p = Head(up[n])
  OBVIOUS
<1>4. PICK q : q = A[n]
  OBVIOUS
<1>5. Parent[n] = Root /\ AllIn(Root, ArrivedWith(n, p))
  BY <1>1, <1>3 DEF CompleteAtRoot
<1>6. /\ p.psn = q /\ q \in Nat /\ q + 1 <= SentBy(n, C)
      /\ n \in Ports(Root)
  BY <1>1, <1>2, <1>3, <1>4, <1>5, FirstIsNext
<1>7. PICK B : OneMore(A, n, B)
  BY <1>1, <1>2, <1>3, <1>4, <1>5, FirstIsNext
<1>8. q = C[Root] /\ \A m \in Ports(Root) : q + 1 <= B[m]
  BY <1>1, <1>2, <1>3, <1>4, <1>5, <1>7, LastIsNext
<1>9. R[Root] = q /\ Root \in Switches
  BY <1>2, <1>8, SwitchOf, NodeFacts
<1>10. ASSUME NEW m \in Ports(Root)
       PROVE  /\ q < SentBy(m, C) /\ A[m] <= q + WINDOW_SIZE /\ A[m] \in Nat
  <2>1. m \in Below /\ Parent[m] = Root
    BY <1>9, NodeFacts
  <2>2. /\ A[m] <= SentBy(m, C) /\ SentBy(m, C) <= GotBy(m, R) + WINDOW_SIZE
        /\ GotBy(m, R) <= q
    BY <1>2, <1>9, <2>1, NodeOf
  <2>3. /\ A[m] \in Nat /\ SentBy(m, C) \in Nat /\ GotBy(m, R) \in Nat
        /\ WINDOW_SIZE \in Nat
    BY <1>2, <2>1, GhostTypes
  <2>4. A[m] <= q + WINDOW_SIZE
    BY <1>6, <2>2, <2>3
  <2>5. q < SentBy(m, C)
    <3>1. CASE m = n
      BY <1>6, <2>3, <3>1
    <3>2. CASE m # n
      <4>1. q + 1 <= A[m]
        BY <1>7, <1>8, <2>1, <3>2 DEF OneMore
      <4> QED BY <1>6, <2>2, <2>3, <4>1
    <3> QED BY <3>1, <3>2
  <2> QED BY <2>3, <2>4, <2>5
<1>11. q < hi[h] /\ hi[h] <= una[h] + WINDOW_SIZE
  <2>1. q < hi[h]
    BY <1>2, <1>6, <1>10, SentByAll
  <2> QED BY <1>2, <2>1, HostWindowHolds DEF IInv
<1>12. q \in Nat /\ WINDOW_SIZE \in Nat \ {0} /\ N = 2 * WINDOW_SIZE
       /\ una[h] \in Nat /\ hi[h] \in Nat
  BY <1>6, HostTypes, Sizes
<1>13. i = Idx(q + WINDOW_SIZE)
  <2> DEFINE bits == arrival_state[Root]
             all == ArrivedWith(n, p) \union {Up}
  <2>1. bits \in [Slots -> SUBSET (Below \union {Up})]
    BY <1>9, SlotArrays
  <2>2. arrival_state'[Root] = [bits EXCEPT ![Idx(q)] = all, ![ToClear(q)] = {}]
    <3>1. arrival_state' = [arrival_state EXCEPT ![Root][Idx(q)] = all,
                                                 ![Root][ToClear(q)] = {}]
      BY <1>1, <1>3, <1>5, <1>6 DEF CompleteAtRoot
    <3> QED BY <1>9, <3>1, SlotArrays
  <2>3. all # {}
    OBVIOUS
  <2>4. bits[i] # {} /\ arrival_state'[Root][i] = {}
    OBVIOUS
  <2> HIDE DEF bits, all
  <2> QED BY <2>1, <2>2, <2>3, <2>4 DEF ToClear
<1>14. CASE q < WINDOW_SIZE
  <2> DEFINE f == q + WINDOW_SIZE
  <2>1. f \in Nat /\ ~ (f < q) /\ \A m \in Ports(Root) : ~ (f < A[m])
    BY <1>10, <1>12
  <2>2. f \in Held(Root, q)
    <3>1. FirstHeld(Root, q) = 0
      BY <1>12, <1>14 DEF FirstHeld
    <3> QED BY <1>12, <1>14, <3>1 DEF Held
  <2> HIDE DEF f
  <2>3. SlotOf(Root, f, A, q)
    BY <1>2, <1>8, <1>9, <2>2, SwitchOf
  <2>4. arrival_state[Root][Idx(f)] = {}
    BY <2>1, <2>3 DEF SlotOf, ArrivedAt
  <2> QED BY <1>13, <2>4 DEF f
<1>15. CASE q >= WINDOW_SIZE
  <2> DEFINE f == q - WINDOW_SIZE
  <2>1. f \in Nat /\ f < q /\ q <= f + WINDOW_SIZE /\ f < q + WINDOW_SIZE
        /\ f + N = q + WINDOW_SIZE /\ una[h] >= f + 1
    BY <1>11, <1>12, <1>15
  <2> HIDE DEF f
  <2>2. Idx(f) = i
    BY <1>13, <2>1, Sizes, SlotPeriodic DEF Idx
  <2>3. SlotOf(Root, f, A, q)
    <3>1. f \in Held(Root, q)
      BY <1>12, <2>1, HeldRoot
    <3> QED BY <1>2, <1>8, <1>9, <3>1, SwitchOf
  <2>4. aggregator[Root][i].sum = ExactSum(f + 1)
    BY <2>1, <2>2, <2>3 DEF SlotOf
  <2>5. aggregator[Root][i].sum[g] = <<f + 1>>
    BY <2>4 DEF ExactSum
  <2> QED BY <2>1, <2>5
<1> QED BY <1>12, <1>14, <1>15

(* A slot of the root is cleared only when every host has the               *)
(* acknowledgement of what it held.                                         *)
THEOREM SlotsClearedWhenDone ==
    ASSUME IsTree, SlotsSuffice, OnlyLastLost PROVE Spec => ClearedIsDone
<1>1. TypeOK /\ TreeInv /\ [Next]_vars
         => [\A i \in Slots :
               arrival_state[Root][i] # {} /\ arrival_state'[Root][i] = {}
               => \A g, h \in Hosts :
                     \A k \in 1 .. Len(aggregator[Root][i].sum[g]) :
                         una[h] >= aggregator[Root][i].sum[g][k]]_vars
  BY ClearStep
<1> QED BY <1>1, Invariance, PTL DEF ClearedIsDone, Spec

------------------------------------------------------------------------------
(* Hosts, NICs and switches implement AllReduce *)

(* No result is placed that some host has not sent its packet for. *)
Contributed == \A g, h \in Hosts : Len(placed[h]) <= hi[g]

LEMMA InvContributed == ASSUME IsTree, TypeOK, TreeInv PROVE Contributed
<1> SUFFICES ASSUME NEW g \in Hosts, NEW h \in Hosts
             PROVE  Len(placed[h]) <= hi[g]
  BY DEF Contributed
<1>1. PICK A, C, R : Ghosts(A, C, R) /\ IInv(A, C, R)
  BY Explanation
<1>2. Root \in Switches /\ g \in Under[Root] /\ h \in Under[Root]
  BY UnderRoot, NodeFacts
<1>3. Len(placed[h]) <= R[Root] /\ C[Root] <= hi[g] /\ R[Root] = C[Root]
  BY <1>1, <1>2, PlacedAbove, SwitchOf
<1>4. C[Root] \in Nat
  BY <1>1, <1>2, TotalNat DEF Ghosts
<1> QED BY <1>3, <1>4, HostTypes

LEMMA InitRefines == Init => AR!ARInit
<1> SUFFICES ASSUME Init PROVE AR!ARInit
  OBVIOUS
<1>1. \A h \in Hosts : Len(placed[h]) = 0 /\ placed[h] = << >>
  BY DEF Init
<1>2. \A h \in Hosts : [k \in 1 .. Len(placed[h]) |-> placed[h][k].sum] = << >>
  BY <1>1
<1> QED BY <1>2 DEF AR!ARInit, Init

LEMMA StutterRefines ==
    ASSUME UNCHANGED <<hi, placed>> PROVE UNCHANGED AR!arVars
BY DEF AR!arVars

(* A packet's first transmission contributes it. *)
LEMMA TransmitRefines ==
    ASSUME TypeOK, TypeOK', NEW h \in Hosts, Transmit(h)
    PROVE  [AR!ARNext]_AR!arVars
<1>1. hi' = [hi EXCEPT ![h] = IF nxt[h] = @ THEN @ + 1 ELSE @] /\ placed' = placed
  BY DEF Transmit, responderVars
<1>2. CASE nxt[h] # hi[h]
  <2>1. hi' = hi
    BY <1>1, <1>2 DEF TypeOK
  <2> QED BY <1>1, <2>1, StutterRefines
<1>3. CASE nxt[h] = hi[h]
  <2>1. hi' = [hi EXCEPT ![h] = @ + 1]
    BY <1>1, <1>3
  <2>2. hi[h] < Total
    <3>1. hi'[h] = hi[h] + 1 /\ hi'[h] <= Total
      BY <2>1 DEF TypeOK
    <3> QED BY <3>1, HostTypes
  <2>3. AR!Contribute(h)
    BY <1>1, <2>1, <2>2 DEF AR!Contribute
  <2> QED BY <2>3 DEF AR!ARNext
<1> QED BY <1>2, <1>3

(* The sums of what was placed, after one more. *)
LEMMA SumsAppend ==
    ASSUME NEW s \in Seq(Values), NEW v \in Values
    PROVE  [k \in 1 .. Len(Append(s, v)) |-> Append(s, v)[k].sum]
             = Append([k \in 1 .. Len(s) |-> s[k].sum], v.sum)
<1> DEFINE S == [Hosts -> Seq(1 .. Total)]
           old == [k \in 1 .. Len(s) |-> s[k].sum]
           new == Append(s, v)
<1>1. /\ Len(new) = Len(s) + 1 /\ Len(s) \in Nat
      /\ \A k \in 1 .. Len(s) : new[k] = s[k]
      /\ new[Len(s) + 1] = v
  BY AppendProperties
<1>2. old \in Seq(S) /\ Len(old) = Len(s) /\ v.sum \in S
  <2>0. \A w \in Values : w.sum \in S
    BY DEF Values
  <2>1. \A k \in 1 .. Len(s) : s[k] \in Values /\ s[k].sum \in S
    BY <2>0, LenProperties
  <2>2. old \in [1 .. Len(s) -> S]
    BY <2>1
  <2>3. old \in Seq(S)
    BY <1>1, <2>2, SeqDef
  <2> HIDE DEF S, old
  <2>4. Len(old) = Len(s)
    BY <1>1, <2>2, <2>3, LenProperties
  <2>5. v.sum \in S
    BY DEF S, Values
  <2> QED BY <2>3, <2>4, <2>5
<1> HIDE DEF S, new
<1>3. \A k \in 1 .. Len(s) : old[k] = s[k].sum
  OBVIOUS
<1> HIDE DEF old
<1>4. Append(old, v.sum) = [k \in 1 .. Len(s) + 1 |-> Append(old, v.sum)[k]]
  BY <1>1, <1>2, AppendProperties, LenProperties
<1>5. ASSUME NEW k \in 1 .. Len(s) + 1
      PROVE  Append(old, v.sum)[k] = new[k].sum
  <2>1. CASE k \in 1 .. Len(s)
    BY <1>1, <1>2, <1>3, <2>1, AppendProperties
  <2>2. CASE k = Len(s) + 1
    BY <1>1, <1>2, <2>2, AppendProperties
  <2>3. Len(s) \in Nat
    BY <1>1
  <2>4. k \in 1 .. Len(s) \/ k = Len(s) + 1
    BY <2>3
  <2> QED BY <2>1, <2>2, <2>4, Zenon
<1>6. [k \in 1 .. Len(new) |-> new[k].sum] = Append(old, v.sum)
  BY <1>1, <1>4, <1>5
<1> QED BY <1>6 DEF new, old

(* Placing a result delivers its sum, when every host has contributed. *)
LEMMA ReceiveRefines ==
    ASSUME TypeOK, TypeOK', ResultsExact', Contributed', NEW h \in Hosts,
           Receive(h)
    PROVE  [AR!ARNext]_AR!arVars
<1> DEFINE p == Head(down[h])
           k == Len(placed[h]) + 1
           sums(g) == [j \in 1 .. Len(placed[g]) |-> placed[g][j].sum]
<1>1. CASE placed' = placed
  BY <1>1, StutterRefines DEF Receive
<1>2. CASE Place(h, p)
  <2>1. placed' = [placed EXCEPT ![h] = Append(@, p.val)] /\ UNCHANGED hi
    BY <1>2 DEF Place, Receive
  <2>2. p.val \in Values /\ placed[h] \in Seq(Values)
    <3>1. p \in Packets
      BY NodeTypes, NodeFacts DEF Receive
    <3> QED BY <3>1, HostTypes DEF Packets
  <2> HIDE DEF p
  <2>3. placed'[h] = Append(placed[h], p.val)
        /\ \A g \in Hosts \ {h} : placed'[g] = placed[g]
    BY <2>1 DEF TypeOK
  <2>4. k \in 1 .. Len(placed'[h]) /\ Len(placed'[h]) = k /\ placed'[h][k] = p.val
        /\ k \in Nat
    BY <2>2, <2>3
  <2>5. p.val.sum = ExactSum(k)
    BY <2>4 DEF ResultsExact
  <2>6. k <= Total
    BY <2>4 DEF TypeOK
  <2>7. \A g \in Hosts : hi[g] >= k
    <3>1. \A g \in Hosts : k <= hi[g]
      BY <2>1, <2>4 DEF Contributed
    <3> QED BY <2>4, <3>1, HostTypes
  <2>8. [j \in 1 .. Len(placed'[h]) |-> placed'[h][j].sum]
          = Append(sums(h), ExactSum(k))
    BY <2>2, <2>3, <2>5, SumsAppend
  <2>9. [g \in Hosts |-> [j \in 1 .. Len(placed'[g]) |-> placed'[g][j].sum]]
          = [[g \in Hosts |-> sums(g)] EXCEPT ![h] = Append(@, ExactSum(k))]
    BY <2>3, <2>8
  <2>10. Len(sums(h)) + 1 = k
    BY <2>2
  <2>11. AR!ExactSum(k) = ExactSum(k)
    BY DEF AR!ExactSum, ExactSum
  <2>12. AR!Deliver(h)
    BY <2>1, <2>6, <2>7, <2>9, <2>10, <2>11 DEF AR!Deliver
  <2> QED BY <2>12 DEF AR!ARNext
<1> QED BY <1>1, <1>2 DEF Receive, TakeAck, AnswerAgain, ReportGap, responderVars

LEMMA StepRefines ==
    ASSUME TypeOK, TypeOK', ResultsExact', Contributed', [Next]_vars
    PROVE  [AR!ARNext]_AR!arVars
<1> USE DEF hostVars, requesterVars, responderVars
<1>1. CASE UNCHANGED vars
  BY <1>1, StutterRefines DEF vars
<1>2. ASSUME NEW h \in Hosts, PostInitial(h) \/ PollCompletion(h) \/ Timeout(h)
      PROVE  UNCHANGED <<hi, placed>>
  BY <1>2 DEF PostInitial, PollCompletion, Timeout
<1>3. ASSUME NEW n \in Below, HandleUp(n) \/ Lose(n)
      PROVE  UNCHANGED <<hi, placed>>
  BY <1>3 DEF HandleUp, UpData, UpWriteFirstOnly, UpAck, Lose
<1>4. ASSUME NEW s \in Switches \ {Root}, HandleDown(s)
      PROVE  UNCHANGED <<hi, placed>>
  BY <1>4, DownSteps
<1> QED BY <1>1, <1>2, <1>3, <1>4, StutterRefines, TransmitRefines,
           ReceiveRefines DEF Next

(* Through every tree of switches, whatever ACKs are lost, hosts, NICs and  *)
(* switches implement AllReduce: no result is placed before every host's    *)
(* packet was sent.                                                         *)
THEOREM Refinement ==
    ASSUME IsTree, SlotsSuffice, OnlyLastLost PROVE Spec => ImplementsAllReduce
<1>1. Init => AR!ARInit
  BY InitRefines
<1>2. TypeOK /\ TreeInv => Contributed
  BY InvContributed
<1>3. TypeOK /\ (TypeOK /\ ResultsExact /\ Contributed)' /\ [Next]_vars
         => [AR!ARNext]_AR!arVars
  BY StepRefines
<1> QED BY <1>1, <1>2, <1>3, Invariance, PTL
        DEF Spec, ImplementsAllReduce, AR!ARSpec
==============================================================================
