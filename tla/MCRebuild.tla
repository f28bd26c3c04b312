----------------------------- MODULE MCRebuild -----------------------------
(***************************************************************************)
(* Instance of Rebuild: three of the kinds, in buildGraph's order.         *)
(***************************************************************************)
EXTENDS Rebuild

MCReadOrder == <<"Node", "Pod", "Namespace">>
MCKinds == {"Node", "Pod", "Namespace"}
=============================================================================
