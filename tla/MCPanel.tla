------------------------------- MODULE MCPanel -------------------------------
(***************************************************************************)
(* Instances of Panel for TLC: two node ids of which one is registered at  *)
(* the start, two addresses, two tunnels, two ports, one tunnel type of    *)
(* each orientation.                                                       *)
(***************************************************************************)
EXTENDS Panel
=============================================================================
