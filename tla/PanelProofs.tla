----------------------------- MODULE PanelProofs -----------------------------
(***************************************************************************)
(* Theorems about Panel for every value of its constants: the database     *)
(* keeps its types, the transport port of two unedited tunnels is unique   *)
(* on their server node, and the ends of a tunnel are told the same.       *)
(***************************************************************************)
EXTENDS Panel, TLAPS

\* What Upsert returns: the new row under its key, the old rows elsewhere.
LEMMA UpsertRow ==
    ASSUME NEW table, NEW key, NEW row
    PROVE  /\ DOMAIN Upsert(table, key, row) = DOMAIN table \cup {key}
           /\ Upsert(table, key, row)[key] = row
           /\ \A k \in DOMAIN table \ {key} :
                 Upsert(table, key, row)[k] = table[k]
    BY DEF Upsert

\* Upsert keeps the type of a table.
LEMMA UpsertType ==
    ASSUME NEW Row, NEW key, NEW row \in Row,
           NEW table, table \in [DOMAIN table -> Row]
    PROVE  Upsert(table, key, row) \in [DOMAIN Upsert(table, key, row) -> Row]
    BY DEF Upsert

\* DeleteRow returns the table without the key, and keeps its type.
LEMMA DeleteRowType ==
    ASSUME NEW Row, NEW key, NEW table, table \in [DOMAIN table -> Row]
    PROVE  /\ DOMAIN DeleteRow(table, key) = DOMAIN table \ {key}
           /\ DeleteRow(table, key) \in [DOMAIN DeleteRow(table, key) -> Row]
           /\ \A k \in DOMAIN table \ {key} :
                 DeleteRow(table, key)[k] = table[k]
    BY DEF DeleteRow

\* The database of a new panel is well typed.
LEMMA PanelInitType == PanelInit => PanelTypeOK
  <1> SUFFICES ASSUME PanelInit PROVE PanelTypeOK
      OBVIOUS
  <1>1. PICK addr \in [InitNodes -> Ips] :
           nodes = [n \in InitNodes |-> NewNodeRow(addr[n])]
      BY DEF PanelInit
  <1>2. \A n \in InitNodes : NewNodeRow(addr[n]) \in NodeRow
      BY DEF NewNodeRow, NodeRow
  <1>3. nodes \in [DOMAIN nodes -> NodeRow] /\ DOMAIN nodes = InitNodes
      BY <1>1, <1>2
  <1>4. DOMAIN tunnels = {} /\ tunnels \in [DOMAIN tunnels -> TunnelRow]
      BY DEF PanelInit
  <1> QED
      BY <1>3, <1>4, PanelAssumption DEF PanelInit, PanelTypeOK

\* Every operator action keeps the database well typed.
LEMMA OperatorType ==
    ASSUME PanelTypeOK, OperatorStep PROVE PanelTypeOK'
  <1> USE PanelAssumption DEF PanelTypeOK
  <1>1. ASSUME NEW n \in NodeIds, NEW ip \in Ips, CreateNode(n, ip)
        PROVE  PanelTypeOK'
    <2>1. NewNodeRow(ip) \in NodeRow
        BY DEF NewNodeRow, NodeRow
    <2>2. nodes' = Upsert(nodes, n, NewNodeRow(ip))
        BY <1>1 DEF CreateNode
    <2>3. /\ nodes' \in [DOMAIN nodes' -> NodeRow]
          /\ DOMAIN nodes' = DOMAIN nodes \cup {n}
        BY <2>1, <2>2, UpsertRow, UpsertType
    <2> QED
        BY <1>1, <2>3 DEF CreateNode
  <1>2. ASSUME NEW n \in NodeIds, DeleteNode(n) PROVE PanelTypeOK'
      BY <1>2, DeleteRowType DEF DeleteNode
  <1>3. CASE RequestAllAgentsRestart
      BY <1>3 DEF RequestAllAgentsRestart, NodeRow
  <1>4. ASSUME NEW s \in NodeIds, NEW c \in NodeIds, NEW type \in CoreTypes,
               NEW port \in CorePorts, NEW r \in Rules,
               CreateTunnel(s, c, type, port, r)
        PROVE  PanelTypeOK'
    <2> DEFINE row == [core_type |-> type, server_node_id |-> s,
                       client_node_id |-> c, core_port |-> port, ports |-> r,
                       status |-> "running", restart_nonce |-> 0]
    <2>1. row \in TunnelRow
        BY DEF TunnelRow
    <2>2. tunnels' = Upsert(tunnels, lastTunnelId + 1, row)
        BY <1>4 DEF CreateTunnel
    <2> HIDE DEF row
    <2>3. /\ tunnels' \in [DOMAIN tunnels' -> TunnelRow]
          /\ DOMAIN tunnels' = DOMAIN tunnels \cup {lastTunnelId + 1}
        BY <2>1, <2>2, UpsertRow, UpsertType
    <2> QED
        BY <1>4, <2>3 DEF CreateTunnel
  <1>5. ASSUME NEW t \in TunnelIds, NEW type \in CoreTypes,
               NEW port \in CorePorts, NEW r \in Rules,
               UpdateTunnel(t, type, port, r)
        PROVE  PanelTypeOK'
      BY <1>5 DEF UpdateTunnel, TunnelRow
  <1>6. ASSUME NEW t \in TunnelIds, NEW st \in {"running", "stopped"},
               SetTunnelStatus(t, st)
        PROVE  PanelTypeOK'
      BY <1>6 DEF SetTunnelStatus, TunnelRow
  <1>7. ASSUME NEW t \in TunnelIds, RequestTunnelRestart(t) PROVE PanelTypeOK'
      BY <1>7 DEF RequestTunnelRestart, TunnelRow
  <1>8. ASSUME NEW t \in TunnelIds, DeleteTunnel(t) PROVE PanelTypeOK'
      BY <1>8, DeleteRowType DEF DeleteTunnel
  <1> QED
      BY <1>1, <1>2, <1>3, <1>4, <1>5, <1>6, <1>7, <1>8 DEF OperatorStep

\* A heartbeat keeps the database well typed.
LEMMA HeartbeatType ==
    ASSUME PanelTypeOK, NEW n \in NodeIds, NEW ip \in Ips,
           UpdateNodeHeartbeat(n, ip)
    PROVE  PanelTypeOK'
    BY DEF PanelTypeOK, UpdateNodeHeartbeat, NodeRow

\* The tables keep their types, whatever the operator and the agents do.
THEOREM PanelTypeCorrect == PanelSpec => []PanelTypeOK
  <1>1. PanelTypeOK /\ [PanelNext]_panelVars => PanelTypeOK'
    <2> SUFFICES ASSUME PanelTypeOK, [PanelNext]_panelVars PROVE PanelTypeOK'
        OBVIOUS
    <2>1. CASE UNCHANGED panelVars
        BY <2>1 DEF panelVars, PanelTypeOK
    <2>2. CASE PanelNext
        BY <2>2, OperatorType, HeartbeatType DEF PanelNext
    <2> QED
        BY <2>1, <2>2
  <1> QED
      BY <1>1, PanelInitType, PTL DEF PanelSpec

-----------------------------------------------------------------------------
(* Ports of unedited tunnels *)

\* An action keeps UniqueUnlessEdited when it adds no row and leaves alone
\* the server node and the port of every row that stays unedited.
LEMMA UniqueFrame ==
    ASSUME UniqueUnlessEdited,
           DOMAIN tunnels' \ edited' \subseteq DOMAIN tunnels \ edited,
           \A t \in DOMAIN tunnels' \ edited' :
              /\ tunnels'[t].server_node_id = tunnels[t].server_node_id
              /\ tunnels'[t].core_port = tunnels[t].core_port
    PROVE  UniqueUnlessEdited'
    BY DEF UniqueUnlessEdited

\* The check of POST /api/tunnels covers every tunnel the new row could
\* clash with.
LEMMA UniqueCreate ==
    ASSUME PanelTypeOK, UniqueUnlessEdited,
           NEW s \in NodeIds, NEW c \in NodeIds, NEW type \in CoreTypes,
           NEW port \in CorePorts, NEW r \in Rules,
           CreateTunnel(s, c, type, port, r)
    PROVE  UniqueUnlessEdited'
  <1> DEFINE new == lastTunnelId + 1
             row == [core_type |-> type, server_node_id |-> s,
                     client_node_id |-> c, core_port |-> port, ports |-> r,
                     status |-> "running", restart_nonce |-> 0]
  <1>1. tunnels' = Upsert(tunnels, new, row) /\ edited' = edited
      BY DEF CreateTunnel
  <1>2. row.server_node_id = s /\ row.core_port = port
      OBVIOUS
  <1>3. new \notin DOMAIN tunnels
      BY DEF PanelTypeOK
  <1> HIDE DEF row, new
  <1>4. /\ DOMAIN tunnels' = DOMAIN tunnels \cup {new}
        /\ tunnels'[new] = row
        /\ \A t \in DOMAIN tunnels : tunnels'[t] = tunnels[t]
      BY <1>1, <1>3 DEF Upsert
  <1>5. \A t \in DOMAIN tunnels :
           tunnels[t].server_node_id = s => tunnels[t].core_port # port
      BY DEF CreateTunnel, ValidateTunnelPorts
  <1> QED
      BY <1>1, <1>2, <1>3, <1>4, <1>5 DEF UniqueUnlessEdited

\* No operator action gives two unedited tunnels of a server node one port.
LEMMA UniqueOperator ==
    ASSUME PanelTypeOK, UniqueUnlessEdited, OperatorStep
    PROVE  UniqueUnlessEdited'
  <1>1. ASSUME NEW n \in NodeIds, NEW ip \in Ips, CreateNode(n, ip)
        PROVE  UniqueUnlessEdited'
      BY <1>1, UniqueFrame DEF CreateNode
  <1>2. ASSUME NEW n \in NodeIds, DeleteNode(n) PROVE UniqueUnlessEdited'
      BY <1>2, UniqueFrame DEF DeleteNode
  <1>3. CASE RequestAllAgentsRestart
      BY <1>3, UniqueFrame DEF RequestAllAgentsRestart
  <1>4. ASSUME NEW s \in NodeIds, NEW c \in NodeIds, NEW type \in CoreTypes,
               NEW port \in CorePorts, NEW r \in Rules,
               CreateTunnel(s, c, type, port, r)
        PROVE  UniqueUnlessEdited'
      BY <1>4, UniqueCreate
  <1>5. ASSUME NEW t \in TunnelIds, NEW type \in CoreTypes,
               NEW port \in CorePorts, NEW r \in Rules,
               UpdateTunnel(t, type, port, r)
        PROVE  UniqueUnlessEdited'
      BY <1>5, UniqueFrame DEF UpdateTunnel
  <1>6. ASSUME NEW t \in TunnelIds, NEW st \in {"running", "stopped"},
               SetTunnelStatus(t, st)
        PROVE  UniqueUnlessEdited'
      BY <1>6, UniqueFrame DEF SetTunnelStatus, PanelTypeOK, TunnelRow
  <1>7. ASSUME NEW t \in TunnelIds, RequestTunnelRestart(t)
        PROVE  UniqueUnlessEdited'
      BY <1>7, UniqueFrame DEF RequestTunnelRestart, PanelTypeOK, TunnelRow
  <1>8. ASSUME NEW t \in TunnelIds, DeleteTunnel(t) PROVE UniqueUnlessEdited'
      BY <1>8, UniqueFrame DEF DeleteTunnel, DeleteRow
  <1> QED
      BY <1>1, <1>2, <1>3, <1>4, <1>5, <1>6, <1>7, <1>8 DEF OperatorStep

\* Two tunnels that are as POST /api/tunnels made them never share a port on
\* their server node. PanelTypeOK is the strengthening: it says that the new
\* row's key is fresh.
THEOREM UniquePorts == PanelSpec => []UniqueUnlessEdited
  <1>1. PanelInit => UniqueUnlessEdited
      BY DEF PanelInit, UniqueUnlessEdited
  <1>2. /\ PanelTypeOK
        /\ UniqueUnlessEdited
        /\ [PanelNext]_panelVars
        => UniqueUnlessEdited'
    <2> SUFFICES ASSUME PanelTypeOK, UniqueUnlessEdited, [PanelNext]_panelVars
                 PROVE  UniqueUnlessEdited'
        OBVIOUS
    <2>1. CASE UNCHANGED panelVars
        BY <2>1, UniqueFrame DEF panelVars
    <2>2. CASE OperatorStep
        BY <2>2, UniqueOperator
    <2>3. ASSUME NEW n \in NodeIds, NEW ip \in Ips, UpdateNodeHeartbeat(n, ip)
          PROVE  UniqueUnlessEdited'
        BY <2>3, UniqueFrame DEF UpdateNodeHeartbeat
    <2> QED
        BY <2>1, <2>2, <2>3 DEF PanelNext
  <1> QED
      BY <1>1, <1>2, PanelTypeCorrect, PTL DEF PanelSpec

-----------------------------------------------------------------------------
\* The two ends of a running tunnel are served one port, one type and the
\* listening node's current address, in every state: both items are computed
\* from one row, whatever the order of edits and heartbeats.
THEOREM EndsAlwaysAgree == PanelSpec => []EndsAgree
  <1>1. EndsAgree
    <2> SUFFICES ASSUME NEW m \in DOMAIN nodes, NEW n \in DOMAIN nodes,
                        NEW i \in SyncItems(m), NEW j \in SyncItems(n),
                        i.tunnel_id = j.tunnel_id,
                        i.role = "server", j.role = "client"
                 PROVE  /\ i.core_port = j.core_port
                        /\ i.core_type = j.core_type
                        /\ j.peer = nodes[m].ip
                        /\ m # n
        BY DEF EndsAgree
    <2>1. PICK t \in DOMAIN tunnels :
             i = SyncItem(t, "server") /\ ListeningNode(tunnels[t]) = m
        BY DEF SyncItems, SyncItem
    <2>2. PICK u \in DOMAIN tunnels :
             j = SyncItem(u, "client") /\ ListeningNode(tunnels[u]) # n
        BY DEF SyncItems, SyncItem
    <2>3. t = u
        BY <2>1, <2>2 DEF SyncItem
    <2>4. j.peer = PeerAddress(tunnels[u])
        BY <2>2 DEF SyncItem
    <2> QED
        BY <2>1, <2>2, <2>3, <2>4 DEF SyncItem, PeerAddress
  <1> QED
      BY <1>1, PTL
=============================================================================
