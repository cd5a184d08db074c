-------------------------------- MODULE Rules --------------------------------
(***************************************************************************)
(* The routing table of a switch: the rules the controller generates for    *)
(* one switch with a connection to every host (include/controller.h), what  *)
(* the switch keeps of a rule it parses (controller_comm.cpp), and how a    *)
(* packet's rule is looked up (src/rule.c).                                 *)
(*                                                                          *)
(* Rank r is the peer of connection r, as calculate_route fills them in for *)
(* ranks 0 and 1 (the rest is a TODO of the code; the generators are        *)
(* written for any number).  A connection stands for its pair of addresses, *)
(* src_ip and dst_ip.  Of a rule only the key and out_conns are kept:       *)
(* direction is always DIR_UP, root always true, ack_conn and conn_id the   *)
(* connection itself.                                                       *)
(***************************************************************************)
EXTENDS Integers, Sequences

CONSTANTS MAX_RULES,            \* capacity of the table
          MAX_CONNECTIONS_NUM   \* connections a switch can have

ASSUME CapacityAssumption == /\ MAX_RULES \in Nat
                             /\ MAX_CONNECTIONS_NUM \in Nat

Conns(world_size) == 0 .. world_size - 1
Primitives == {"allreduce", "reduce", "broadcast"}
Params(world_size) == Conns(world_size) \union {-1}

RuleSet(world_size) ==
    [conn : Conns(world_size), primitive : Primitives,
     param : Params(world_size), out : SUBSET Conns(world_size)]

Rule(conn, primitive, param, out_conns) ==
    [conn |-> conn, primitive |-> primitive, param |-> param, out |-> out_conns]

------------------------------------------------------------------------------
(* The rules, in the order they are generated and stand in the YAML file. *)

generate_allreduce_rules(world_size) ==
    [i \in 1 .. world_size |->
        Rule(i - 1, "allreduce", -1, Conns(world_size))]

(* The copy of another generator with its out_conns left in. *)
generate_reduce_rules_ToAll(world_size) ==
    [i \in 1 .. world_size * world_size |->
        LET root_rank == (i - 1) \div world_size
        IN  Rule((i - 1) % world_size, "reduce", root_rank, Conns(world_size))]

generate_reduce_rules(world_size) ==
    [i \in 1 .. world_size * world_size |->
        LET root_rank == (i - 1) \div world_size
        IN  Rule((i - 1) % world_size, "reduce", root_rank, {root_rank})]

(* The sender's connection only: nobody else sends in a Broadcast. *)
generate_broadcast_rules(world_size) ==
    [i \in 1 .. world_size |->
        Rule(i - 1, "broadcast", i - 1, Conns(world_size) \ {i - 1})]

calculate_route(world_size) ==
    generate_allreduce_rules(world_size)
        \o generate_reduce_rules(world_size)
        \o generate_broadcast_rules(world_size)

------------------------------------------------------------------------------
(* Connections the switch has no place for are left out of out_conns. *)
parse_rule(rule) ==
    [rule EXCEPT !.out = {c \in @ : c < MAX_CONNECTIONS_NUM}]

(* The root rank is compared whatever the primitive. *)
match_rule_Param(rule, conn, primitive, param) ==
    /\ rule.conn = conn
    /\ rule.primitive = primitive
    /\ rule.param = param

(* The root rank is no part of an AllReduce's key. *)
match_rule(rule, conn, primitive, param) ==
    /\ rule.conn = conn
    /\ rule.primitive = primitive
    /\ primitive = "allreduce" \/ rule.param = param

Matches(table, conn, primitive, param) ==
    {i \in DOMAIN table : match_rule(table[i], conn, primitive, param)}

NoRule == [conn |-> -1]

(* The first rule that matches, NoRule for NULL. *)
lookup_rule(table, conn, primitive, param) ==
    LET found == Matches(table, conn, primitive, param)
    IN  IF found = {} THEN NoRule
        ELSE table[CHOOSE i \in found : \A j \in found : i <= j]

------------------------------------------------------------------------------
(* What the operations need: where a packet that a host sends in one of     *)
(* them leads.  An AllReduce may be looked up with the root of an           *)
(* operation before it.                                                     *)
Sends(world_size, conn, primitive, param) ==
    /\ conn \in Conns(world_size)
    /\ \/ primitive = "allreduce" /\ param \in Params(world_size)
       \/ primitive = "reduce" /\ param \in Conns(world_size)
       \/ primitive = "broadcast" /\ param = conn

Receivers(world_size, primitive, param) ==
    CASE primitive = "allreduce" -> Conns(world_size)
      [] primitive = "reduce"    -> {param}
      [] primitive = "broadcast" -> Conns(world_size) \ {param}

(* How many rules a group needs. *)
RulesNeeded(world_size) == world_size * world_size + 2 * world_size
==============================================================================
