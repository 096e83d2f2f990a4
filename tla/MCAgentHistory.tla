---------------------------- MODULE MCAgentHistory ----------------------------
(***************************************************************************)
(* The instance of AgentHistory for TLC.  One host, which calls from ipA.  *)
(***************************************************************************)
EXTENDS AgentHistory

CONSTANTS h1, ipA, n1, r1

MCHostIp == [h \in Hosts |-> ipA]
=============================================================================
