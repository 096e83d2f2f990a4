---------------------------- MODULE MCControlPlane ----------------------------
(***************************************************************************)
(* Instances of ControlPlane for TLC.  Every host calls from an address of *)
(* its own; a second address is what the operator may have typed when the  *)
(* node was added.                                                         *)
(***************************************************************************)
EXTENDS ControlPlane

CONSTANTS h1, h2, ipA, ipB, ipC

MCHostIp == [h \in Hosts |-> IF h = h1 THEN ipA ELSE ipB]
=============================================================================
