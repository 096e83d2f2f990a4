-------------------------------- MODULE Panel --------------------------------
(***************************************************************************)
(* The control panel's database (app/db.py) and the REST handlers that     *)
(* change it (app/server.py).                                              *)
(*                                                                         *)
(* The panel is one asyncio process: a handler runs without interleaving   *)
(* between two awaits, and none of the handlers below awaits between its   *)
(* first read of the database and its last write, so each is one action.   *)
(* Every operation commits before the response is sent, hence the database *)
(* is also what a restarted panel finds.                                   *)
(*                                                                         *)
(* A table is a function whose domain is the set of primary keys present.  *)
(* Kept of a row: what decides which configuration a node is served.       *)
(* Names, flags, metrics, transports and time stamps are left out; the     *)
(* creation order, by which list_tunnels sorts, is the order of the ids.   *)
(***************************************************************************)
EXTENDS Naturals

CONSTANTS
    NodeIds,        \* the primary keys POST /api/nodes can draw
    InitNodes,      \* nodes already registered in the initial state
    MaxTunnels,     \* bound: tunnels ever created
    CoreTypes,      \* subset of {"hawal", "backhaul", "paqet", "gost"}
    CorePorts,      \* transport ports an operator may choose
    Rules,          \* values of a tunnel's list of forwarded ports
    Ips,            \* public addresses a node may have
    MaxNonce        \* bound: restart requests per tunnel and per node

ASSUME PanelAssumption ==
    /\ InitNodes \subseteq NodeIds
    /\ MaxTunnels \in Nat
    /\ CoreTypes \subseteq {"hawal", "backhaul", "paqet", "gost"}
    /\ CorePorts \subseteq Nat \ {0}
    /\ Ips # {} /\ "127.0.0.1" \notin Ips
    /\ MaxNonce \in Nat

VARIABLES
    nodes,          \* table nodes: id -> [ip, agent_restart_nonce]
    everNodes,      \* ids drawn so far; random ids are never drawn twice
    tunnels,        \* table tunnels: id -> row
    lastTunnelId,   \* ids are numbered by creation time
    edited          \* history: tunnels changed by PUT since their creation

panelVars == <<nodes, everNodes, tunnels, lastTunnelId, edited>>

TunnelIds == 1 .. MaxTunnels
Localhost == "127.0.0.1"
NoRules == "-"

NodeRow == [ip : Ips, agent_restart_nonce : Nat]

TunnelRow ==
    [core_type      : CoreTypes,
     server_node_id : NodeIds,
     client_node_id : NodeIds,
     core_port      : CorePorts,
     ports          : Rules,
     status         : {"running", "stopped"},
     restart_nonce  : Nat]

PanelTypeOK ==
    /\ everNodes \subseteq NodeIds
    /\ DOMAIN nodes \subseteq everNodes
    /\ nodes \in [DOMAIN nodes -> NodeRow]
    /\ lastTunnelId \in 0 .. MaxTunnels
    /\ DOMAIN tunnels \subseteq 1 .. lastTunnelId
    /\ tunnels \in [DOMAIN tunnels -> TunnelRow]
    /\ edited \subseteq DOMAIN tunnels

\* INSERT or UPDATE of one row, and DELETE of one row.
Upsert(table, key, row) ==
    [k \in DOMAIN table \cup {key} |-> IF k = key THEN row ELSE table[k]]

DeleteRow(table, key) == [k \in DOMAIN table \ {key} |-> table[k]]

\* A row as save_node inserts it: the restart nonce takes its default.
NewNodeRow(ip) == [ip |-> ip, agent_restart_nonce |-> 0]

PanelInit ==
    /\ \E addr \in [InitNodes -> Ips] :
          nodes = [n \in InitNodes |-> NewNodeRow(addr[n])]
    /\ everNodes = InitNodes
    /\ tunnels = [t \in {} |-> {}]
    /\ lastTunnelId = 0
    /\ edited = {}

-----------------------------------------------------------------------------
(* Node handlers *)

\* POST /api/nodes: a fresh random id and token.
CreateNode(n, ip) ==
    /\ n \notin everNodes
    /\ nodes' = Upsert(nodes, n, NewNodeRow(ip))
    /\ everNodes' = everNodes \cup {n}
    /\ UNCHANGED <<tunnels, lastTunnelId, edited>>

\* DELETE /api/nodes/<id>. The schema declares ON DELETE CASCADE, but
\* SQLite enforces foreign keys only after PRAGMA foreign_keys = ON, which
\* get_db never issues: the tunnels stay.
DeleteNode(n) ==
    /\ n \in DOMAIN nodes
    /\ nodes' = DeleteRow(nodes, n)
    /\ UNCHANGED <<everNodes, tunnels, lastTunnelId, edited>>

\* Mutant of UpdateNodeHeartbeat: INSERT OR REPLACE instead of UPDATE.
UpsertNodeHeartbeat(n, ip) ==
    /\ nodes' = Upsert(nodes, n, NewNodeRow(ip))
    /\ UNCHANGED <<everNodes, tunnels, lastTunnelId, edited>>

\* Mutant of UpdateNodeHeartbeat: the reported address is not stored.
HeartbeatWithoutIp(n, ip) ==
    /\ n \in DOMAIN nodes
    /\ UNCHANGED panelVars

\* POST /api/agent/heartbeat: the node's address becomes the one it calls
\* from. An unknown token is answered 401 and changes nothing.
UpdateNodeHeartbeat(n, ip) ==
    /\ n \in DOMAIN nodes
    /\ nodes' = [nodes EXCEPT ![n].ip = ip]
    /\ UNCHANGED <<everNodes, tunnels, lastTunnelId, edited>>

\* POST /api/agents/restart
RequestAllAgentsRestart ==
    /\ DOMAIN nodes # {}
    /\ \A n \in DOMAIN nodes : nodes[n].agent_restart_nonce < MaxNonce
    /\ nodes' = [n \in DOMAIN nodes |->
                    [nodes[n] EXCEPT !.agent_restart_nonce = @ + 1]]
    /\ UNCHANGED <<everNodes, tunnels, lastTunnelId, edited>>

-----------------------------------------------------------------------------
(* Tunnel handlers *)

\* Mutant of ValidateTunnelPorts: only running tunnels are compared.
ValidateActivePorts(port, server) ==
    \A t \in DOMAIN tunnels :
        ~ /\ tunnels[t].status = "running"
          /\ tunnels[t].server_node_id = server
          /\ tunnels[t].core_port = port

\* validate_tunnel_ports: it compares with every tunnel, stopped ones too,
\* whose server_node_id is the given one.
ValidateTunnelPorts(port, server) ==
    \A t \in DOMAIN tunnels :
        ~ (tunnels[t].server_node_id = server /\ tunnels[t].core_port = port)

\* POST /api/tunnels. The handler only checks the port; the form offers the
\* nodes of a list that another tab may have made stale.
CreateTunnel(server, client, type, port, rules) ==
    /\ lastTunnelId < MaxTunnels
    /\ {server, client} \subseteq everNodes
    /\ ValidateTunnelPorts(port, server)
    /\ lastTunnelId' = lastTunnelId + 1
    /\ tunnels' = Upsert(tunnels, lastTunnelId + 1,
                         [core_type      |-> type,
                          server_node_id |-> server,
                          client_node_id |-> client,
                          core_port      |-> port,
                          ports          |-> rules,
                          status         |-> "running",
                          restart_nonce  |-> 0])
    /\ UNCHANGED <<nodes, everNodes, edited>>

\* PUT /api/tunnels/<id>: validate_tunnel_ports, which has a parameter for
\* the tunnel being changed, is not called here.
UpdateTunnel(t, type, port, rules) ==
    /\ t \in DOMAIN tunnels
    /\ tunnels' = [tunnels EXCEPT ![t].core_type = type,
                                  ![t].core_port = port,
                                  ![t].ports = rules]
    /\ edited' = edited \cup {t}
    /\ UNCHANGED <<nodes, everNodes, lastTunnelId>>

\* POST /api/tunnels/<id>/status
SetTunnelStatus(t, status) ==
    /\ t \in DOMAIN tunnels
    /\ tunnels' = [tunnels EXCEPT ![t].status = status]
    /\ UNCHANGED <<nodes, everNodes, lastTunnelId, edited>>

\* POST /api/tunnels/<id>/restart
RequestTunnelRestart(t) ==
    /\ t \in DOMAIN tunnels
    /\ tunnels[t].restart_nonce < MaxNonce
    /\ tunnels' = [tunnels EXCEPT ![t].restart_nonce = @ + 1]
    /\ UNCHANGED <<nodes, everNodes, lastTunnelId, edited>>

\* DELETE /api/tunnels/<id>
DeleteTunnel(t) ==
    /\ t \in DOMAIN tunnels
    /\ tunnels' = DeleteRow(tunnels, t)
    /\ edited' = edited \ {t}
    /\ UNCHANGED <<nodes, everNodes, lastTunnelId>>

-----------------------------------------------------------------------------
(* What GET /api/agent/sync serves a node *)

\* Paqet and GOST listen on the foreign node, so their roles are reversed.
ListeningNode(row) ==
    IF row.core_type \in {"paqet", "gost"}
    THEN row.client_node_id ELSE row.server_node_id

DialingNode(row) ==
    IF row.core_type \in {"paqet", "gost"}
    THEN row.server_node_id ELSE row.client_node_id

\* Mutant of PeerAddress: the roles are never reversed.
ServerNodeAddress(row) ==
    IF row.server_node_id \in DOMAIN nodes
    THEN nodes[row.server_node_id].ip ELSE Localhost

\* The address written in the dialing side's configuration.
PeerAddress(row) ==
    IF ListeningNode(row) \in DOMAIN nodes
    THEN nodes[ListeningNode(row)].ip ELSE Localhost

\* Which generated configurations list the forwarded ports: not those of
\* Backhaul's client and of the Paqet and GOST servers.
ListsRules(type, role) ==
    \/ type = "hawal"
    \/ type = "backhaul" /\ role = "server"
    \/ type \in {"paqet", "gost"} /\ role = "client"

SyncItem(t, role) ==
    LET row == tunnels[t] IN
    [tunnel_id     |-> t,
     core_type     |-> row.core_type,
     role          |-> role,
     core_port     |-> row.core_port,
     peer          |-> IF role = "client" THEN PeerAddress(row) ELSE Localhost,
     ports         |-> IF ListsRules(row.core_type, role) THEN row.ports
                       ELSE NoRules,
     restart_nonce |-> row.restart_nonce]

\* The items of the answer; a node that is both ends of a tunnel is only
\* given the listening side.
SyncItems(n) ==
    LET Running == {t \in DOMAIN tunnels : tunnels[t].status = "running"} IN
    {SyncItem(t, "server") : t \in {u \in Running : ListeningNode(tunnels[u]) = n}}
    \cup
    {SyncItem(t, "client") : t \in {u \in Running : /\ ListeningNode(tunnels[u]) # n
                                                    /\ DialingNode(tunnels[u]) = n}}

Item == [tunnel_id     : TunnelIds,
         core_type     : CoreTypes,
         role          : {"server", "client"},
         core_port     : CorePorts,
         peer          : Ips \cup {Localhost},
         ports         : Rules \cup {NoRules},
         restart_nonce : Nat]

-----------------------------------------------------------------------------
\* Everything the operator can do in the dashboard.
OperatorStep ==
    \/ \E n \in NodeIds, ip \in Ips : CreateNode(n, ip)
    \/ \E n \in NodeIds : DeleteNode(n)
    \/ RequestAllAgentsRestart
    \/ \E s, c \in NodeIds, type \in CoreTypes, port \in CorePorts, r \in Rules :
          CreateTunnel(s, c, type, port, r)
    \/ \E t \in TunnelIds, type \in CoreTypes, port \in CorePorts, r \in Rules :
          UpdateTunnel(t, type, port, r)
    \/ \E t \in TunnelIds, st \in {"running", "stopped"} : SetTunnelStatus(t, st)
    \/ \E t \in TunnelIds : RequestTunnelRestart(t)
    \/ \E t \in TunnelIds : DeleteTunnel(t)

PanelNext ==
    \/ OperatorStep
    \/ \E n \in NodeIds, ip \in Ips : UpdateNodeHeartbeat(n, ip)

PanelSpec == PanelInit /\ [][PanelNext]_panelVars

-----------------------------------------------------------------------------
(* Properties *)

\* Two tunnels that still are as POST /api/tunnels created them never share
\* a transport port on the same server_node_id, whatever happened to the
\* other tunnels in between: the check in the POST handler and the insert
\* are one step, and no other handler gives an unedited tunnel a new port.
UniqueUnlessEdited ==
    \A t, u \in DOMAIN tunnels \ edited :
        /\ t # u
        /\ tunnels[t].server_node_id = tunnels[u].server_node_id
        => tunnels[t].core_port # tunnels[u].core_port

\* The two ends of a running tunnel are told the same transport port and,
\* as long as the listening node is registered, the dialing end is told its
\* current address: the configurations are derived from one row and never
\* stored per node.
EndsAgree ==
    \A m, n \in DOMAIN nodes :
        \A i \in SyncItems(m), j \in SyncItems(n) :
            i.tunnel_id = j.tunnel_id /\ i.role = "server" /\ j.role = "client"
            => /\ i.core_port = j.core_port
               /\ i.core_type = j.core_type
               /\ j.peer = nodes[m].ip
               /\ m # n
=============================================================================
