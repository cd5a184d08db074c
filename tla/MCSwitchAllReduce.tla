-------------------------- MODULE MCSwitchAllReduce --------------------------
(* Small instances of SwitchAllReduce for TLC. *)
EXTENDS SwitchAllReduceInv, TLC

(* Every host runs the same code on the same terms. *)
HostSymmetry == Permutations(Hosts)
==============================================================================
