--------------------------- MODULE MCNonTermination ---------------------------
(* Trees of switches for NonTermination. *)
EXTENDS NonTerminationInv, TLC

LOCAL INSTANCE FiniteSetsExt
Graph == INSTANCE Graphs

CONSTANTS a, b, c, r, leaf

(* All hosts at the root. *)
Star == [n \in Hosts |-> r]
(* Two hosts under a leaf switch, the third at the root. *)
LeafTree == (a :> leaf) @@ (b :> leaf) @@ (c :> r) @@ (leaf :> r)
(* Two hosts under a leaf switch, which is the root's only port. *)
Chain == (a :> leaf) @@ (b :> leaf) @@ (leaf :> r)
Symmetry == Permutations({a, b})

(* Ancestors are what the edges to the parents lead to. *)
Tree == [node |-> Nodes, edge |-> {<<n, Parent[n]>> : n \in Below}]
ASSUME \A n, s \in Nodes : s \in Ancestors[n] <=> Graph!ConnectionsIn(Tree)[n, s]

(* TreeInv, with its witnesses read off the slots of the switches that      *)
(* clear none: TLC need only guess what was added at the root.              *)
Counted_At(s, port) == Cardinality({i \in Slots : port \in arrival_state[s][i]})

TreeInvAt ==
    \E atRoot \in [Ports(Root) -> 0 .. Total] :
        LET A == [n \in Below |-> IF Parent[n] = Root THEN atRoot[n]
                                  ELSE Counted_At(Parent[n], n)]
            C == [s \in Switches |-> Min({A[n] : n \in Ports(s)})]
            R == [s \in Switches |-> IF s = Root THEN C[s]
                                     ELSE Counted_At(s, Up)]
        IN  IInv(A, C, R)
==============================================================================
