----------------------------- MODULE MCRestarts -----------------------------
(***************************************************************************)
(* Instance of Restarts: a pod of two containers, of which one may restart *)
(* while the other is calm.  The containers are interchangeable.           *)
(***************************************************************************)
EXTENDS Restarts, TLC

Symmetry == Permutations(Containers)
=============================================================================
