---------------------------- MODULE MCOpenCreate ----------------------------
(***************************************************************************)
(* Small instances of OpenCreate                                           *)
(***************************************************************************)
EXTENDS OpenCreate, TLC

(* Callers are interchangeable: safety properties only                     *)
Symmetry == Permutations(Caller)

=============================================================================
