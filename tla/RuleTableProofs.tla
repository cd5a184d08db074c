--------------------------- MODULE RuleTableProofs ---------------------------
(* Proofs about the rule table, for groups of any size and tables of any   *)
(* capacity.  The heart is arithmetic: rule world_size + root * world_size  *)
(* + conn + 1 is the one of a Reduce to root from connection conn.          *)
EXTENDS RuleTable, SequenceTheorems, WellFoundedInduction, TLAPS

(* Division recovers root and conn from root * n + conn. *)
LEMMA DivMod ==
    ASSUME NEW n \in Nat \ {0}, NEW root \in Nat, NEW conn \in 0 .. n - 1
    PROVE  /\ (root * n + conn) \div n = root
           /\ (root * n + conn) % n = conn
<1> DEFINE p == root * n + conn
           a == p \div n
           r == p % n
<1>1. a \in Int /\ r \in 0 .. n - 1
  OBVIOUS
<1>2. p = (n * a) + r
  OBVIOUS
<1>3. p = (n * root) + conn
  OBVIOUS
<1> HIDE DEF p, a, r
<1>4. CASE a >= root + 1
  <2>1. n * a >= (n * root) + n
    BY <1>1, <1>4
  <2> QED BY <2>1, <1>1, <1>2, <1>3
<1>5. CASE root >= a + 1
  <2>1. n * root >= (n * a) + n
    BY <1>1, <1>5
  <2> QED BY <2>1, <1>1, <1>2, <1>3
<1>6. CASE a = root
  BY <1>1, <1>2, <1>3, <1>6 DEF p, a, r
<1> QED BY <1>1, <1>4, <1>5, <1>6

(* The position of a rule of a Reduce lies among those of the Reduces. *)
LEMMA ProductBound ==
    ASSUME NEW n \in Nat \ {0}, NEW root \in 0 .. n - 1, NEW conn \in 0 .. n - 1
    PROVE  /\ root * n + conn \in Nat
           /\ root * n + conn < n * n
<1>1. n * (n - 1) >= n * root
  OBVIOUS
<1>2. n * (n - 1) = (n * n) - n
  OBVIOUS
<1> QED BY <1>1, <1>2

(* And every position among them divides into a root and a connection. *)
LEMMA ProductSplit ==
    ASSUME NEW n \in Nat \ {0}, NEW k \in 0 .. n * n - 1
    PROVE  /\ k \div n \in 0 .. n - 1
           /\ k % n \in 0 .. n - 1
<1> DEFINE a == k \div n
           r == k % n
<1>1. a \in Int /\ r \in 0 .. n - 1
  OBVIOUS
<1>2. k = (n * a) + r
  OBVIOUS
<1> HIDE DEF a, r
<1>3. CASE a >= n
  <2>1. n * a >= n * n
    BY <1>1, <1>3
  <2> QED BY <2>1, <1>1, <1>2
<1>4. CASE a <= -1
  <2>1. n * a <= n * (-1)
    BY <1>1, <1>4
  <2> QED BY <2>1, <1>1, <1>2
<1>5. CASE a \in 0 .. n - 1
  BY <1>1, <1>5 DEF a, r
<1> QED BY <1>1, <1>3, <1>4, <1>5

(* A function on 1 .. k with values in S is a sequence of length k. *)
LEMMA FunctionSeq ==
    ASSUME NEW S, NEW k \in Nat, NEW f, f = [i \in 1 .. k |-> f[i]],
           \A i \in 1 .. k : f[i] \in S
    PROVE  f \in Seq(S) /\ Len(f) = k
<1>1. f \in [1 .. k -> S]
  OBVIOUS
<1>2. f \in Seq(S)
  BY <1>1
<1>3. DOMAIN f = 1 .. k
  BY <1>1
<1> QED BY <1>2, <1>3, LenProperties

(* The file has the rules of the three operations one after the other. *)
LEMMA RouteRules ==
    ASSUME NEW n \in Nat \ {0}
    PROVE  /\ calculate_route(n) \in Seq(RuleSet(n))
           /\ Len(calculate_route(n)) = RulesNeeded(n)
           /\ \A i \in 1 .. RulesNeeded(n) :
                  calculate_route(n)[i] =
                      IF i <= n THEN generate_allreduce_rules(n)[i]
                      ELSE IF i <= n + n * n
                           THEN generate_reduce_rules(n)[i - n]
                           ELSE generate_broadcast_rules(n)[i - (n + n * n)]
<1> DEFINE a == generate_allreduce_rules(n)
           r == generate_reduce_rules(n)
           b == generate_broadcast_rules(n)
           sq == n * n
<1>1. sq \in Nat /\ RulesNeeded(n) = n + sq + n
  BY DEF RulesNeeded
<1>2. a \in Seq(RuleSet(n)) /\ Len(a) = n
  <2>1. \A i \in 1 .. n : a[i] \in RuleSet(n)
    BY DEF generate_allreduce_rules, RuleSet, Rule, Conns, Params, Primitives
  <2>2. a = [i \in 1 .. n |-> a[i]]
    BY DEF generate_allreduce_rules
  <2> HIDE DEF a
  <2> QED BY <2>1, <2>2, FunctionSeq
<1>3. r \in Seq(RuleSet(n)) /\ Len(r) = sq
  <2>1. ASSUME NEW i \in 1 .. sq PROVE r[i] \in RuleSet(n)
    <3>1. i - 1 \in 0 .. n * n - 1
      BY <1>1
    <3>2. /\ (i - 1) \div n \in 0 .. n - 1
          /\ (i - 1) % n \in 0 .. n - 1
      BY <3>1, ProductSplit
    <3> DEFINE d == (i - 1) \div n
               m == (i - 1) % n
    <3>3. r[i] = Rule(m, "reduce", d, {d})
      BY DEF generate_reduce_rules
    <3> HIDE DEF d, m
    <3>4. d \in 0 .. n - 1 /\ m \in 0 .. n - 1
      BY <3>2 DEF d, m
    <3> QED BY <3>3, <3>4 DEF RuleSet, Rule, Conns, Params, Primitives
  <2>2. r = [i \in 1 .. sq |-> r[i]]
    BY DEF generate_reduce_rules
  <2> HIDE DEF r, sq
  <2> QED BY <1>1, <2>1, <2>2, FunctionSeq
<1>4. b \in Seq(RuleSet(n)) /\ Len(b) = n
  <2>1. \A i \in 1 .. n : b[i] \in RuleSet(n)
    BY DEF generate_broadcast_rules, RuleSet, Rule, Conns, Params, Primitives
  <2>2. b = [i \in 1 .. n |-> b[i]]
    BY DEF generate_broadcast_rules
  <2> HIDE DEF b
  <2> QED BY <2>1, <2>2, FunctionSeq
<1>5. calculate_route(n) = (a \o r) \o b
  BY DEF calculate_route
<1> HIDE DEF a, r, b, sq
<1>6. a \o r \in Seq(RuleSet(n)) /\ Len(a \o r) = n + sq
  BY <1>1, <1>2, <1>3
<1>7. /\ (a \o r) \o b \in Seq(RuleSet(n))
      /\ Len((a \o r) \o b) = n + sq + n
      /\ \A i \in 1 .. n + sq + n :
             ((a \o r) \o b)[i] = IF i <= n THEN a[i]
                                  ELSE IF i <= n + sq THEN r[i - n]
                                       ELSE b[i - (n + sq)]
  BY <1>1, <1>2, <1>3, <1>4, <1>6
<1> QED BY <1>1, <1>5, <1>7 DEF a, r, b, sq

(* Every rule of the file leads where its operation needs it to. *)
LEMMA RouteSound ==
    ASSUME NEW n \in Nat \ {0}, NEW i \in 1 .. RulesNeeded(n)
    PROVE  calculate_route(n)[i].out
               = Receivers(n, calculate_route(n)[i].primitive,
                           calculate_route(n)[i].param)
<1> DEFINE rule == calculate_route(n)[i]
           sq == n * n
<1>1. sq \in Nat /\ i \in 1 .. n + sq + n
  BY DEF RulesNeeded
<1>2. CASE i \in 1 .. n
  <2>1. rule = generate_allreduce_rules(n)[i]
    BY <1>2, RouteRules
  <2> HIDE DEF rule
  <2>2. rule = Rule(i - 1, "allreduce", -1, Conns(n))
    BY <1>2, <2>1 DEF generate_allreduce_rules
  <2>3. rule.out = Receivers(n, rule.primitive, rule.param)
    BY <2>2 DEF Rule, Receivers
  <2> QED BY <2>3 DEF rule
<1>3. CASE i \in n + 1 .. n + sq
  <2> DEFINE j == i - n
             root == (j - 1) \div n
  <2>1. j \in 1 .. n * n /\ ~ (i <= n) /\ i <= n + n * n
    BY <1>1, <1>3
  <2>2. rule = generate_reduce_rules(n)[j]
    BY <2>1, RouteRules
  <2> HIDE DEF j, sq, rule
  <2>3. rule = Rule((j - 1) % n, "reduce", root, {root})
    BY <2>1, <2>2 DEF generate_reduce_rules
  <2> HIDE DEF root
  <2>4. rule.out = Receivers(n, rule.primitive, rule.param)
    BY <2>3 DEF Rule, Receivers
  <2> QED BY <2>4 DEF rule
<1>4. CASE i \in n + sq + 1 .. n + sq + n
  <2> DEFINE j == i - (n + sq)
  <2>1. j \in 1 .. n /\ ~ (i <= n) /\ ~ (i <= n + n * n)
    BY <1>1, <1>4
  <2>2. rule = generate_broadcast_rules(n)[j]
    BY <2>1, RouteRules
  <2> HIDE DEF j, sq, rule
  <2>3. rule = Rule(j - 1, "broadcast", j - 1, Conns(n) \ {j - 1})
    BY <2>1, <2>2 DEF generate_broadcast_rules
  <2>4. rule.out = Receivers(n, rule.primitive, rule.param)
    BY <2>3 DEF Rule, Receivers
  <2> QED BY <2>4 DEF rule
<1>5. i \in 1 .. n \/ i \in n + 1 .. n + sq \/ i \in n + sq + 1 .. n + sq + n
  <2> HIDE DEF sq
  <2> QED BY <1>1
<1> QED BY <1>2, <1>3, <1>4, <1>5

(* And for every packet of every operation the file has a rule. *)
LEMMA RouteComplete ==
    ASSUME NEW n \in Nat \ {0}, NEW conn, NEW primitive \in Primitives, NEW param,
           Sends(n, conn, primitive, param)
    PROVE  \E i \in 1 .. RulesNeeded(n) :
               match_rule(calculate_route(n)[i], conn, primitive, param)
<1> DEFINE route == calculate_route(n)
           sq == n * n
<1>1. sq \in Nat /\ RulesNeeded(n) = n + sq + n /\ conn \in 0 .. n - 1
  BY DEF RulesNeeded, Sends, Conns
<1> USE DEF Rule, match_rule
<1>2. CASE primitive = "allreduce"
  <2> DEFINE i == conn + 1
  <2>1. i \in 1 .. RulesNeeded(n) /\ i \in 1 .. n /\ i - 1 = conn
    BY <1>1
  <2> HIDE DEF i, route, sq
  <2>2. route[i] = generate_allreduce_rules(n)[i]
    BY <2>1, RouteRules DEF route
  <2>3. route[i] = Rule(conn, "allreduce", -1, Conns(n))
    BY <2>1, <2>2 DEF generate_allreduce_rules
  <2>4. match_rule(route[i], conn, primitive, param)
    BY <1>2, <2>3
  <2> QED BY <2>1, <2>4 DEF route
<1>3. CASE primitive = "reduce"
  <2> DEFINE k == param * n + conn
             i == k + 1 + n
  <2>1. param \in 0 .. n - 1
    BY <1>3 DEF Sends, Conns
  <2>2. k \in Nat /\ k < sq
    BY <1>1, <2>1, ProductBound
  <2>3. k \div n = param /\ k % n = conn
    BY <1>1, <2>1, DivMod
  <2> HIDE DEF k, route, sq
  <2>4. /\ k + 1 \in 1 .. sq /\ (k + 1) - 1 = k
        /\ i \in 1 .. RulesNeeded(n) /\ ~ (i <= n) /\ i <= n + sq
        /\ i - n = k + 1
    BY <1>1, <2>2
  <2> HIDE DEF i
  <2>5. route[i] = generate_reduce_rules(n)[k + 1]
    BY <2>4, RouteRules DEF route, sq
  <2>6. route[i] = Rule(conn, "reduce", param, {param})
    BY <2>3, <2>4, <2>5 DEF generate_reduce_rules, sq
  <2>7. match_rule(route[i], conn, primitive, param)
    BY <1>3, <2>6
  <2> QED BY <2>4, <2>7 DEF route
<1>4. CASE primitive = "broadcast"
  <2> DEFINE i == conn + 1 + (n + sq)
  <2> HIDE DEF route, sq
  <2>1. /\ param = conn
        /\ conn + 1 \in 1 .. n /\ (conn + 1) - 1 = conn
        /\ i \in 1 .. RulesNeeded(n) /\ ~ (i <= n) /\ ~ (i <= n + sq)
        /\ i - (n + sq) = conn + 1
    BY <1>1, <1>4 DEF Sends
  <2> HIDE DEF i
  <2>2. route[i] = generate_broadcast_rules(n)[conn + 1]
    BY <2>1, RouteRules DEF route, sq
  <2>3. route[i] = Rule(conn, "broadcast", conn, Conns(n) \ {conn})
    BY <2>1, <2>2 DEF generate_broadcast_rules
  <2>4. match_rule(route[i], conn, primitive, param)
    BY <1>4, <2>1, <2>3
  <2> QED BY <2>1, <2>4 DEF route
<1> QED BY <1>2, <1>3, <1>4 DEF Primitives

------------------------------------------------------------------------------
(* What a lookup finds is in the table and matches. *)
LEMMA LookupFinds ==
    ASSUME NEW t, NEW conn, NEW primitive, NEW param,
           DOMAIN t \subseteq Nat,
           Matches(t, conn, primitive, param) # {}
    PROVE  \E i \in DOMAIN t :
               /\ lookup_rule(t, conn, primitive, param) = t[i]
               /\ match_rule(t[i], conn, primitive, param)
<1> DEFINE found == Matches(t, conn, primitive, param)
           First(i) == \A j \in found : i <= j
           lt == OpToRel(<, Nat)
<1>1. found \subseteq Nat /\ found # {}
  BY DEF Matches
<1>2. IsWellFoundedOn(lt, Nat)
  BY NatLessThanWellFounded
<1>3. \A i, j \in Nat : <<i, j>> \notin lt => j <= i
  BY DEF OpToRel
<1>4. \E i \in found : First(i)
  <2> HIDE DEF lt, found
  <2>1. \E i \in found : \A j \in found : <<j, i>> \notin lt
    BY <1>1, <1>2, WFMin
  <2> QED BY <1>1, <1>3, <2>1
<1> QED BY <1>4 DEF lookup_rule, Matches

(* No rule of the table is NoRule: it belongs to a connection. *)
LEMMA LookupNone ==
    ASSUME NEW n \in Nat, NEW t \in Seq(RuleSet(n)),
           NEW conn, NEW primitive, NEW param
    PROVE  lookup_rule(t, conn, primitive, param) = NoRule
               <=> Matches(t, conn, primitive, param) = {}
<1>1. CASE Matches(t, conn, primitive, param) = {}
  BY <1>1 DEF lookup_rule
<1>2. CASE Matches(t, conn, primitive, param) # {}
  <2>1. PICK i \in DOMAIN t : lookup_rule(t, conn, primitive, param) = t[i]
    BY <1>2, LookupFinds
  <2>2. t[i].conn \in Conns(n)
    <3>1. t[i] \in RuleSet(n)
      OBVIOUS
    <3> QED BY <3>1 DEF RuleSet
  <2>3. NoRule.conn \notin Conns(n)
    BY DEF NoRule, Conns
  <2> QED BY <1>2, <2>1, <2>2, <2>3
<1> QED BY <1>1, <1>2

------------------------------------------------------------------------------
(* The inductive invariant: the table is the beginning of the file, up to   *)
(* the rule parsed next or up to its capacity.                              *)
Parsed(n, i) == parse_rule(calculate_route(n)[i])

IInv ==
    /\ world_size \in WorldSizes \union {0}
    /\ next \in 1 .. RulesNeeded(world_size) + 1
    /\ Len(table) <= MAX_RULES
    /\ table \in Seq(RuleSet(world_size))
    /\ Len(table) <= RulesNeeded(world_size)
    /\ \A i \in 1 .. Len(table) : table[i] = Parsed(world_size, i)
    /\ \/ Len(table) = next - 1
       \/ Loaded /\ Len(table) = MAX_RULES

LEMMA NeededInNat ==
    ASSUME NEW n \in Nat
    PROVE  RulesNeeded(n) \in Nat
<1>1. n * n \in Nat
  OBVIOUS
<1> QED BY <1>1 DEF RulesNeeded

LEMMA ParsedRule ==
    ASSUME NEW n \in Nat \ {0}, NEW i \in 1 .. RulesNeeded(n)
    PROVE  Parsed(n, i) \in RuleSet(n)
<1> DEFINE rule == calculate_route(n)[i]
<1>1. rule \in RuleSet(n)
  BY RouteRules
<1> HIDE DEF rule
<1>2. parse_rule(rule) \in RuleSet(n)
  BY <1>1 DEF parse_rule, RuleSet
<1> QED BY <1>2 DEF Parsed, rule

LEMMA InitIInv ==
    ASSUME Init
    PROVE  IInv
BY CapacityAssumption DEF Init, IInv, RulesNeeded, Loaded

LEMMA StepIInv ==
    ASSUME IInv, [Next]_vars
    PROVE  IInv'
<1>1. CASE UNCHANGED vars
  BY <1>1 DEF IInv, vars, Loaded
<1>2. ASSUME NEW size \in WorldSizes, ReceiveConfig(size)
      PROVE  IInv'
  <2>1. RulesNeeded(size) \in Nat
    BY NeededInNat, WorldSizesAssumption
  <2> QED BY <1>2, <2>1, CapacityAssumption DEF IInv, ReceiveConfig, Loaded
<1>3. CASE ParseRule
  <2> DEFINE n == world_size
             needed == RulesNeeded(world_size)
  <2>1. n \in Nat \ {0} /\ needed \in Nat
    <3>1. n \in Nat
      BY WorldSizesAssumption DEF IInv
    <3>2. n # 0
      BY <1>3 DEF IInv, ParseRule, Loaded, RulesNeeded
    <3> QED BY <3>1, <3>2, NeededInNat
  <2>2. next \in 1 .. needed /\ Len(table) = next - 1
    BY <1>3, <2>1 DEF IInv, ParseRule, Loaded
  <2>3. Parsed(n, next) \in RuleSet(n)
    BY <2>1, <2>2, ParsedRule
  <2>4. /\ table' = Append(table, Parsed(n, next))
        /\ next' = next + 1 /\ n' = n /\ Len(table) < MAX_RULES
    BY <1>3 DEF ParseRule, Parsed
  <2> HIDE DEF needed
  <2>5. /\ table' \in Seq(RuleSet(n)) /\ Len(table') = next
        /\ \A i \in 1 .. next : table'[i] = Parsed(n, i)
    BY <2>2, <2>3, <2>4 DEF IInv
  <2> QED BY <2>1, <2>2, <2>4, <2>5, CapacityAssumption DEF IInv, needed
<1>4. CASE SkipRest
  <2>1. RulesNeeded(world_size) \in Nat
    BY NeededInNat, WorldSizesAssumption DEF IInv
  <2> QED BY <1>4, <2>1, CapacityAssumption DEF IInv, SkipRest, Loaded
<1> QED BY <1>1, <1>2, <1>3, <1>4 DEF Next

LEMMA Invariance == Spec => []IInv
<1>1. Init => IInv
  BY InitIInv
<1>2. IInv /\ [Next]_vars => IInv'
  BY StepIInv
<1> QED BY <1>1, <1>2, PTL DEF Spec

(* The table never holds more rules than it has room for, nor a rule that  *)
(* is not of the group being configured (controller_comm.cpp:107-168).      *)
THEOREM TypeCorrect == Spec => []TypeOK
<1>1. IInv => TypeOK
  BY DEF IInv, TypeOK
<1> QED BY <1>1, Invariance, PTL

(* Whatever a thread finds while a configuration is being applied leads to *)
(* the receivers of its operation, for groups of any size: rules are read  *)
(* with no lock, and yet no packet is sent by a wrong one.                  *)
THEOREM LookupsSound == Spec => []LookupSound
<1>1. ASSUME IInv PROVE LookupSound
  <2> SUFFICES ASSUME world_size <= MAX_CONNECTIONS_NUM,
                      NEW conn \in Conns(world_size), NEW primitive \in Primitives,
                      NEW param \in Params(world_size),
                      lookup_rule(table, conn, primitive, param) # NoRule
               PROVE  lookup_rule(table, conn, primitive, param).out
                          = Receivers(world_size, primitive, param)
    BY DEF LookupSound
  <2> DEFINE n == world_size
  <2>1. n \in Nat \ {0}
    BY <1>1, WorldSizesAssumption DEF IInv, Conns
  <2>2. DOMAIN table = 1 .. Len(table) /\ Len(table) \in Nat
    BY <1>1 DEF IInv
  <2>3. Matches(table, conn, primitive, param) # {}
    BY <1>1, <2>1, LookupNone DEF IInv
  <2>4. PICK i \in DOMAIN table :
            /\ lookup_rule(table, conn, primitive, param) = table[i]
            /\ match_rule(table[i], conn, primitive, param)
    BY <2>2, <2>3, LookupFinds
  <2> DEFINE rule == calculate_route(n)[i]
  <2>5. i \in 1 .. RulesNeeded(n) /\ table[i] = parse_rule(rule)
    <3>1. RulesNeeded(n) \in Nat
      BY <2>1, NeededInNat
    <3>2. i \in 1 .. Len(table) /\ Len(table) <= RulesNeeded(n)
      BY <1>1, <2>2 DEF IInv
    <3>3. table[i] = Parsed(n, i)
      BY <1>1, <3>2 DEF IInv
    <3> QED BY <2>2, <3>1, <3>2, <3>3 DEF Parsed
  <2>6. rule \in RuleSet(n) /\ rule.out = Receivers(n, rule.primitive, rule.param)
    BY <2>1, <2>5, RouteRules, RouteSound
  <2> HIDE DEF rule
  <2>7. table[i].out = rule.out
    BY <1>1, <2>1, <2>5, <2>6, CapacityAssumption DEF parse_rule, RuleSet, Conns
  <2>8. table[i].primitive = rule.primitive /\ table[i].param = rule.param
    BY <2>5, <2>6 DEF parse_rule, RuleSet
  <2>9. /\ rule.primitive = primitive
        /\ primitive = "allreduce" \/ rule.param = param
    BY <2>4, <2>8 DEF match_rule
  <2>10. Receivers(n, rule.primitive, rule.param) = Receivers(n, primitive, param)
    BY <2>9 DEF Receivers
  <2> QED BY <2>4, <2>6, <2>7, <2>10
<1> QED BY <1>1, Invariance, PTL

(* When the rules of the group fit in the table, a packet of any operation *)
(* finds a rule once the configuration is applied: n * n + 2 * n rules are  *)
(* needed, 99 for nine hosts.                                               *)
THEOREM FittingServed == Spec => []FittingOperationsServed
<1>1. ASSUME IInv PROVE FittingOperationsServed
  <2> SUFFICES ASSUME RulesNeeded(world_size) <= MAX_RULES, Loaded,
                      NEW conn \in Conns(world_size), NEW primitive \in Primitives,
                      NEW param \in Params(world_size),
                      Sends(world_size, conn, primitive, param)
               PROVE  lookup_rule(table, conn, primitive, param) # NoRule
    BY DEF FittingOperationsServed, AllOperationsServed
  <2> DEFINE n == world_size
             route == calculate_route(n)
  <2>1. n \in Nat \ {0}
    BY <1>1, WorldSizesAssumption DEF IInv, Conns
  <2>2. RulesNeeded(n) \in Nat /\ Len(table) = RulesNeeded(n)
    BY SMTT(30), <1>1, <2>1, NeededInNat, CapacityAssumption DEF IInv, Loaded
  <2>3. PICK i \in 1 .. RulesNeeded(n) :
            match_rule(route[i], conn, primitive, param)
    BY <2>1, RouteComplete
  <2>4. table[i] = parse_rule(route[i]) /\ i \in DOMAIN table
    BY <1>1, <2>2, <2>3 DEF IInv, Parsed
  <2>5. route[i] \in RuleSet(n)
    BY <2>1, <2>3, RouteRules
  <2> HIDE DEF route
  <2>6. match_rule(table[i], conn, primitive, param)
    BY <2>3, <2>4, <2>5 DEF match_rule, parse_rule, RuleSet
  <2>7. Matches(table, conn, primitive, param) # {}
    BY <2>4, <2>6 DEF Matches
  <2> QED BY <1>1, <2>1, <2>7, LookupNone DEF IInv
<1> QED BY <1>1, Invariance, PTL
==============================================================================
