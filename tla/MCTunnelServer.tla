---------------------------- MODULE MCTunnelServer ----------------------------
(***************************************************************************)
(* Instances of TunnelServer for TLC. The token has the greatest length    *)
(* that fits the largest payload, and every frame the longest padding.     *)
(***************************************************************************)
EXTENDS TunnelServer

CONSTANTS c1, c2, c3, c4
MCPads == {MaxPaddingSize}
MCTokenLen == MaxPayloadSize - 7
=============================================================================
