---------------------------- MODULE MCRxReorder -----------------------------
(***************************************************************************)
(* Instances of RxReorder for TLC.                                         *)
(***************************************************************************)
EXTENDS RxReorder
=============================================================================
