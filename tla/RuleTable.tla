------------------------------ MODULE RuleTable ------------------------------
(***************************************************************************)
(* The routing table of a switch while configurations are applied to it     *)
(* (parse_yaml_config and parse_rules, controller_comm.cpp): the thread of  *)
(* the controller connection clears the table and adds one rule after the   *)
(* other, while the threads of the connections look rules up with no lock.  *)
(* The properties say what a lookup can find between any two steps.         *)
(***************************************************************************)
EXTENDS Rules

CONSTANT WorldSizes   \* the sizes of the groups that are configured

ASSUME WorldSizesAssumption == WorldSizes \subseteq Nat \ {0}

VARIABLES world_size,  \* of the configuration being applied; 0 before the first
          next,        \* the rule of the file that is parsed next
          table        \* routing_table.rules[0 .. count - 1]

vars == <<world_size, next, table>>

Init == world_size = 0 /\ next = 1 /\ table = << >>

Loaded == next > RulesNeeded(world_size)

(* The table is not cleared first. *)
ReceiveConfig_Keeps(size) ==
    /\ Loaded
    /\ world_size' = size
    /\ next' = 1
    /\ UNCHANGED table

(* A file arrives when the one before it is done with. *)
ReceiveConfig(size) ==
    /\ Loaded
    /\ world_size' = size
    /\ next' = 1
    /\ table' = << >>

ParseRule ==
    /\ ~ Loaded
    /\ Len(table) < MAX_RULES
    /\ table' = Append(table, parse_rule(calculate_route(world_size)[next]))
    /\ next' = next + 1
    /\ UNCHANGED world_size

(* No room: the rest of the file is skipped, with a warning. *)
SkipRest ==
    /\ ~ Loaded
    /\ Len(table) >= MAX_RULES
    /\ next' = RulesNeeded(world_size) + 1
    /\ UNCHANGED <<world_size, table>>

Next == \/ \E size \in WorldSizes : ReceiveConfig(size)
        \/ ParseRule
        \/ SkipRest

Spec == Init /\ [][Next]_vars

------------------------------------------------------------------------------
(* The table holds what has been parsed and never more than it has room     *)
(* for (controller_comm.cpp:114).                                           *)
TypeOK ==
    /\ world_size \in WorldSizes \union {0}
    /\ next \in 1 .. RulesNeeded(world_size) + 1
    /\ Len(table) <= MAX_RULES
    /\ table \in Seq(RuleSet(world_size))

(* A lookup, however far the configuration has been applied, finds no rule  *)
(* or the one that leads to the receivers of the operation; in particular   *)
(* no rule of an earlier, larger or smaller group (lookup_rule,             *)
(* rule.c:39-47, called with no lock from switch_main.c:459).               *)
LookupSound ==
    world_size <= MAX_CONNECTIONS_NUM =>
        \A conn \in Conns(world_size), primitive \in Primitives,
           param \in Params(world_size) :
            LET rule == lookup_rule(table, conn, primitive, param)
            IN  rule # NoRule =>
                    rule.out = Receivers(world_size, primitive, param)

(* Once the configuration is applied every packet of every operation finds  *)
(* a rule.                                                                  *)
AllOperationsServed ==
    Loaded =>
        \A conn \in Conns(world_size), primitive \in Primitives,
           param \in Params(world_size) :
            Sends(world_size, conn, primitive, param) =>
                lookup_rule(table, conn, primitive, param) # NoRule

(* The same for the groups whose rules fit in the table (MAX_RULES,         *)
(* parameter.h:16): with 100 rules those of up to nine hosts.               *)
FittingOperationsServed ==
    RulesNeeded(world_size) <= MAX_RULES => AllOperationsServed
==============================================================================
