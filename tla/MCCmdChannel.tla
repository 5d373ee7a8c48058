---------------------------- MODULE MCCmdChannel ----------------------------
(***************************************************************************)
(* Instances of CmdChannel for TLC.                                        *)
(***************************************************************************)
EXTENDS CmdChannel
=============================================================================
