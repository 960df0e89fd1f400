-------------------------- MODULE MCCommandServer --------------------------
(***************************************************************************)
(* Instances of CommandServer for TLC.                                     *)
(***************************************************************************)
EXTENDS CommandServer

============================================================================
