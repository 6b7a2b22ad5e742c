------------------------- MODULE MCFlushAccounting -------------------------
(***************************************************************************)
(* Small instances of FlushAccounting                                      *)
(***************************************************************************)
EXTENDS FlushAccounting, TLC

(* Thresholds that one call may stay below and two calls reach             *)
MCPolicies == { [kind |-> "Always", n |-> 0], [kind |-> "EveryBytes", n |-> 2],
                [kind |-> "EveryWrites", n |-> 2] }

(* Calls, and blocks, are interchangeable: safety properties only          *)
Symmetry == Permutations(Op) \union Permutations(Block)

=============================================================================
