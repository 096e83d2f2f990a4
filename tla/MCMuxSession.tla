----------------------------- MODULE MCMuxSession -----------------------------
(***************************************************************************)
(* Instances of MuxSession for TLC; the constants are numbers and sets of  *)
(* strings given in the configurations.                                    *)
(***************************************************************************)
EXTENDS MuxSession
=============================================================================
