------------------------------ MODULE MCTraffic ------------------------------
(***************************************************************************)
(* Instances of Traffic for TLC: two tunnels with ports of which neither   *)
(* begins with the other, and two of which one does.                       *)
(***************************************************************************)
EXTENDS Traffic, TLC

CONSTANTS t1, t2
MCApartPorts == t1 :> 443 @@ t2 :> 8443
MCPrefixPorts == t1 :> 44 @@ t2 :> 443
MCOneOfEach == t1 :> "paqet" @@ t2 :> "hawal"
MCPaqet == t1 :> "paqet" @@ t2 :> "paqet"
=============================================================================
