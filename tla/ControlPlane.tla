----------------------------- MODULE ControlPlane -----------------------------
(***************************************************************************)
(* The panel together with the node agents (app/static/js/agent.py, the    *)
(* agent the panel serves to its nodes) and the hosts they run on.         *)
(*                                                                         *)
(* An agent is a sequential loop: heartbeat, sync, apply the answer one    *)
(* tunnel after the other, honour a restart request, report, sleep.  The   *)
(* panel may change between any two of its steps, tunnel processes may     *)
(* die, the agent may be killed and the host rebooted.  systemd            *)
(* (Restart=always) starts the agent again.  What an agent leaves on its   *)
(* host is kept apart from what it holds in memory: the restart nonce file *)
(* and the iptables rules of Paqet survive it, its child processes do not  *)
(* (they are in the service's control group).                              *)
(*                                                                         *)
(* A generated configuration is represented by the item it is generated    *)
(* from: `marker` in apply_configs is the configuration text followed by   *)
(* the restart nonce.                                                      *)
(***************************************************************************)
EXTENDS Panel

CONSTANTS
    Hosts,          \* machines an agent may be installed on
    HostIp,         \* the address each host calls from
    NoNode,         \* agent.json is absent
    Faults,         \* kinds of failure that may happen
    MaxEvents       \* bound: operator actions and failures together

FaultKinds ==
    {"unreachable",     \* the panel does not answer in time
     "missing",         \* a tunnel binary cannot be installed
     "disk",            \* a file cannot be written
     "nonet",           \* no default route or gateway address
     "iptables",        \* a rule cannot be added
     "popen",           \* a tunnel process cannot be started
     "exit",            \* a tunnel process dies
     "term",            \* systemctl restart hawal-agent
     "crash",           \* the agent is killed
     "reboot"}          \* the host restarts

ASSUME ControlAssumption ==
    /\ HostIp \in [Hosts -> Ips]
    /\ NoNode \notin NodeIds
    /\ Faults \subseteq FaultKinds
    /\ MaxEvents \in Nat

VARIABLES
    agentJson,      \* host -> the node whose token /etc/hawal/agent.json has
    pc,             \* host -> where the agent is in its loop
    token,          \* host -> the node the running agent speaks for
    shutdown,       \* host -> shutdown_requested
    pending,        \* host -> items of the answer not yet applied
    active,         \* host -> active_ids
    wanted,         \* host -> agent_restart_nonce of the answer
    procs,          \* host -> running_processes, _configs and _metadata
    rules,          \* host -> ports with Paqet's iptables rules
    memNonce,       \* host -> self.agent_restart_nonce
    fileNonce,      \* host -> the agent-restart-nonce file
    lastTaken,      \* history: host -> last request of its node honoured
    owed,           \* history: hosts told to restart that have not
    events          \* operator actions and failures so far

agentVars == <<pc, token, shutdown>>
replyVars == <<pending, active, wanted>>
procVars  == <<procs, rules>>
nonceVars == <<memNonce, fileNonce, lastTaken>>
vars == <<panelVars, agentJson, agentVars, replyVars, procVars, nonceVars,
          owed, events>>

NoProcs == [t \in {} |-> {}]
Process == [item : Item, alive : BOOLEAN]

\* The values of an agent's running_processes: tunnel -> its process.
IsProcTable(ps) ==
    /\ DOMAIN ps \subseteq TunnelIds
    /\ ps \in [DOMAIN ps -> Process]

ProcsOK == DOMAIN procs = Hosts /\ \A h \in Hosts : IsProcTable(procs[h])

CPTypeOK ==
    /\ PanelTypeOK
    /\ agentJson \in [Hosts -> NodeIds \cup {NoNode}]
    /\ pc \in [Hosts -> {"down", "heartbeat", "sync", "apply", "save", "end",
                         "exit"}]
    /\ token \in [Hosts -> NodeIds \cup {NoNode}]
    /\ shutdown \in [Hosts -> BOOLEAN]
    /\ pending \in [Hosts -> SUBSET Item]
    /\ active \in [Hosts -> SUBSET TunnelIds]
    /\ wanted \in [Hosts -> Nat]
    /\ ProcsOK
    /\ rules \in [Hosts -> SUBSET CorePorts]
    /\ memNonce \in [Hosts -> Nat]
    /\ fileNonce \in [Hosts -> Nat]
    /\ lastTaken \in [Hosts -> Nat]
    /\ owed \subseteq Hosts
    /\ events \in 0 .. MaxEvents

Init ==
    /\ PanelInit
    /\ agentJson \in [Hosts -> InitNodes \cup {NoNode}]
    /\ pc = [h \in Hosts |-> "down"]
    /\ token = [h \in Hosts |-> NoNode]
    /\ shutdown = [h \in Hosts |-> FALSE]
    /\ pending = [h \in Hosts |-> {}]
    /\ active = [h \in Hosts |-> {}]
    /\ wanted = [h \in Hosts |-> 0]
    /\ procs = [h \in Hosts |-> NoProcs]
    /\ rules = [h \in Hosts |-> {}]
    /\ memNonce = [h \in Hosts |-> 0]
    /\ fileNonce = [h \in Hosts |-> 0]
    /\ lastTaken = [h \in Hosts |-> 0]
    /\ owed = {}
    /\ events = 0

\* An operator action or a failure, charged to the bound.
Event ==
    /\ events < MaxEvents
    /\ events' = events + 1

Fault(kind) == kind \in Faults /\ Event

Goto(h, label) ==
    /\ pc' = [pc EXCEPT ![h] = label]
    /\ UNCHANGED <<token, shutdown>>

-----------------------------------------------------------------------------
(* systemd and the operator's shell *)

\* main and HawalAgent.__init__: the token and the nonce are read from disk.
StartAgent(h) ==
    /\ pc[h] = "down"
    /\ agentJson[h] # NoNode
    /\ pc' = [pc EXCEPT ![h] = "heartbeat"]
    /\ token' = [token EXCEPT ![h] = agentJson[h]]
    /\ shutdown' = [shutdown EXCEPT ![h] = FALSE]
    /\ memNonce' = [memNonce EXCEPT ![h] = fileNonce[h]]
    /\ owed' = owed \ {h}
    /\ UNCHANGED <<panelVars, agentJson, replyVars, procVars, fileNonce,
                   lastTaken, events>>

\* SIGTERM goes to the whole control group: the agent only takes note of it,
\* its children die.
Signalled(h) ==
    /\ shutdown' = [shutdown EXCEPT ![h] = (pc[h] # "down")]
    /\ procs' = [procs EXCEPT ![h] =
                    [t \in DOMAIN @ |-> [@[t] EXCEPT !.alive = FALSE]]]
    /\ UNCHANGED <<pc, token, rules>>

\* The install command of a node, on a new host or on one already enrolled:
\* agent.json is rewritten and the service restarted. The nonce file stays.
\* The histories start anew: they are about the requests of one node.
Install(h, n) ==
    /\ Event
    /\ n \in DOMAIN nodes \ {agentJson[h]}
    /\ agentJson' = [agentJson EXCEPT ![h] = n]
    /\ Signalled(h)
    /\ owed' = owed \ {h}
    /\ lastTaken' = [lastTaken EXCEPT ![h] = 0]
    /\ UNCHANGED <<panelVars, replyVars, memNonce, fileNonce>>

SigTerm(h) ==
    /\ Fault("term")
    /\ pc[h] # "down"
    /\ Signalled(h)
    /\ UNCHANGED <<panelVars, agentJson, replyVars, nonceVars, owed>>

Killed(h) ==
    /\ pc[h] # "down"
    /\ Goto(h, "down")
    /\ procs' = [procs EXCEPT ![h] = NoProcs]
    /\ UNCHANGED <<panelVars, agentJson, replyVars, nonceVars, owed>>

CrashAgent(h) == Fault("crash") /\ Killed(h) /\ UNCHANGED rules

\* The iptables rules are not saved across a boot.
Reboot(h) ==
    /\ Fault("reboot")
    /\ Killed(h)
    /\ rules' = [rules EXCEPT ![h] = {}]

ProcExits(h, t) ==
    /\ Fault("exit")
    /\ t \in DOMAIN procs[h] /\ procs[h][t].alive
    /\ procs' = [procs EXCEPT ![h][t].alive = FALSE]
    /\ UNCHANGED <<panelVars, agentJson, agentVars, replyVars, rules,
                   nonceVars, owed>>

-----------------------------------------------------------------------------
(* The dashboard *)

\* The hosts an answered restart request is meant for.
Enrolled == {h \in Hosts : agentJson[h] \in DOMAIN nodes}

Operator ==
    /\ Event
    /\ OperatorStep
    /\ owed' = IF RequestAllAgentsRestart THEN owed \cup Enrolled ELSE owed
    /\ UNCHANGED <<agentJson, agentVars, replyVars, procVars, nonceVars>>

-----------------------------------------------------------------------------
(* send_heartbeat and sync_tunnels *)

Heartbeat(h) ==
    /\ pc[h] = "heartbeat"
    /\ Goto(h, "sync")
    /\ IF token[h] \in DOMAIN nodes
       THEN UpdateNodeHeartbeat(token[h], HostIp[h])
       ELSE UNCHANGED panelVars
    /\ UNCHANGED <<agentJson, replyVars, procVars, nonceVars, owed, events>>

HeartbeatLost(h) ==
    /\ Fault("unreachable")
    /\ pc[h] = "heartbeat"
    /\ Goto(h, "sync")
    /\ UNCHANGED <<panelVars, agentJson, replyVars, procVars, nonceVars, owed>>

\* GET /api/agent/sync, answered: the panel's database is read in one step.
Sync(h) ==
    /\ pc[h] = "sync"
    /\ token[h] \in DOMAIN nodes
    /\ Goto(h, "apply")
    /\ pending' = [pending EXCEPT ![h] = SyncItems(token[h])]
    /\ active' = [active EXCEPT ![h] = {}]
    /\ wanted' = [wanted EXCEPT ![h] = nodes[token[h]].agent_restart_nonce]
    /\ UNCHANGED <<panelVars, agentJson, procVars, nonceVars, owed, events>>

\* 401 for a node that was deleted: urlopen raises, nothing is applied.
SyncRefused(h) ==
    /\ pc[h] = "sync"
    /\ token[h] \notin DOMAIN nodes
    /\ Goto(h, "end")
    /\ UNCHANGED <<panelVars, agentJson, replyVars, procVars, nonceVars, owed,
                   events>>

SyncLost(h) ==
    /\ Fault("unreachable")
    /\ pc[h] = "sync"
    /\ Goto(h, "end")
    /\ UNCHANGED <<panelVars, agentJson, replyVars, procVars, nonceVars, owed>>

-----------------------------------------------------------------------------
(* apply_configs *)

\* The loop takes the items in the order of list_tunnels.
NextItem(h, i) ==
    /\ pc[h] = "apply"
    /\ i \in pending[h]
    /\ \A j \in pending[h] : i.tunnel_id <= j.tunnel_id

\* Mutant of UpToDate: the marker is compared, the process is not polled.
SameMarker(h, i) ==
    /\ i.tunnel_id \in DOMAIN procs[h]
    /\ procs[h][i.tunnel_id].item = i

\* is_running and running_configs.get(tun_id) == marker
UpToDate(h, i) ==
    /\ i.tunnel_id \in DOMAIN procs[h]
    /\ procs[h][i.tunnel_id].alive
    /\ procs[h][i.tunnel_id].item = i

\* Mutant of PaqetServerPort: the wrong field of the metadata.
PortByTunnelId(i) ==
    IF i.core_type = "paqet" /\ i.role = "server" THEN {i.tunnel_id} ELSE {}

\* The port whose rules cleanup_paqet_iptables removes, from the metadata.
PaqetServerPort(i) ==
    IF i.core_type = "paqet" /\ i.role = "server" THEN {i.core_port} ELSE {}

\* stop_tunnel_process
StopProcs(h, t) == DeleteRow(procs[h], t)

\* Mutant of StopRules: the process is stopped, its rules are forgotten.
StopWithoutCleanup(h, t) == rules[h]

\* Mutant of StopRules: the raw table is flushed.
FlushRules(h, t) == IF t \in DOMAIN procs[h] THEN {} ELSE rules[h]

StopRules(h, t) ==
    IF t \in DOMAIN procs[h]
    THEN rules[h] \ PaqetServerPort(procs[h][t].item) ELSE rules[h]

\* The loop goes on with the next item; procs and rules of h become ps, rs.
ItemDone(h, i, ps, rs) ==
    /\ pending' = [pending EXCEPT ![h] = @ \ {i}]
    /\ active' = [active EXCEPT ![h] = @ \cup {i.tunnel_id}]
    /\ procs' = [procs EXCEPT ![h] = ps]
    /\ rules' = [rules EXCEPT ![h] = rs]
    /\ UNCHANGED <<panelVars, agentJson, agentVars, wanted, nonceVars, owed>>

KeepItem(h, i) ==
    /\ NextItem(h, i)
    /\ UpToDate(h, i)
    /\ ItemDone(h, i, procs[h], rules[h])
    /\ UNCHANGED events

\* Stop, configure_paqet_iptables for a Paqet server, restart_tunnel_process.
LaunchItem(h, i) ==
    /\ NextItem(h, i)
    /\ ~ UpToDate(h, i)
    /\ ItemDone(h, i,
                Upsert(procs[h], i.tunnel_id, [item |-> i, alive |-> TRUE]),
                StopRules(h, i.tunnel_id) \cup PaqetServerPort(i))
    /\ UNCHANGED events

\* Mutant of SkipItem: the tunnel is not entered into active_ids.
SkipItemUnlisted(h, i) ==
    /\ Fault("missing")
    /\ NextItem(h, i)
    /\ i.core_type # "backhaul"
    /\ pending' = [pending EXCEPT ![h] = @ \ {i}]
    /\ UNCHANGED <<panelVars, agentJson, agentVars, active, wanted, procVars,
                   nonceVars, owed>>

\* ensure_hawal_core_binary, ensure_paqet_binary, ensure_gost_binary: the
\* item is passed over, a process of its former configuration keeps running.
SkipItem(h, i) ==
    /\ Fault("missing")
    /\ NextItem(h, i)
    /\ i.core_type # "backhaul"
    /\ ItemDone(h, i, procs[h], rules[h])

\* get_network_info finds no interface, address or gateway.
StopForNoNetwork(h, i) ==
    /\ Fault("nonet")
    /\ NextItem(h, i)
    /\ i.core_type = "paqet"
    /\ ItemDone(h, i, StopProcs(h, i.tunnel_id), StopRules(h, i.tunnel_id))

\* configure_paqet_iptables fails and cleans up behind itself.
FirewallFails(h, i) ==
    /\ Fault("iptables")
    /\ NextItem(h, i)
    /\ ~ UpToDate(h, i)
    /\ PaqetServerPort(i) # {}
    /\ ItemDone(h, i, StopProcs(h, i.tunnel_id),
                StopRules(h, i.tunnel_id) \ PaqetServerPort(i))

\* Popen (or opening the log) raises inside restart_tunnel_process. For a
\* Paqet server the rules are in place by then, and no metadata records them.
LaunchFails(h, i) ==
    /\ Fault("popen")
    /\ NextItem(h, i)
    /\ ~ UpToDate(h, i)
    /\ ItemDone(h, i, StopProcs(h, i.tunnel_id),
                StopRules(h, i.tunnel_id) \cup PaqetServerPort(i))

\* Writing the configuration file raises: the exception ends the whole
\* sync. Paqet has been stopped before the write, GOST has no file.
AbortItem(h, i) ==
    /\ Fault("disk")
    /\ NextItem(h, i)
    /\ ~ UpToDate(h, i)
    /\ i.core_type # "gost"
    /\ Goto(h, "end")
    /\ IF i.core_type = "paqet"
       THEN /\ procs' = [procs EXCEPT ![h] = StopProcs(h, i.tunnel_id)]
            /\ rules' = [rules EXCEPT ![h] = StopRules(h, i.tunnel_id)]
       ELSE UNCHANGED procVars
    /\ UNCHANGED <<panelVars, agentJson, replyVars, nonceVars, owed>>

Stale(h) == DOMAIN procs[h] \ active[h]

StopTunnel(h, t) ==
    /\ procs' = [procs EXCEPT ![h] = StopProcs(h, t)]
    /\ rules' = [rules EXCEPT ![h] = StopRules(h, t)]
    /\ UNCHANGED <<panelVars, agentJson, agentVars, replyVars, nonceVars, owed,
                   events>>

\* "Stop removed tunnels"
RemoveStale(h, t) ==
    /\ pc[h] = "apply" /\ pending[h] = {}
    /\ t \in Stale(h)
    /\ StopTunnel(h, t)

-----------------------------------------------------------------------------
(* The restart request, the end of an iteration and the end of the agent *)

Applied(h) == pc[h] = "apply" /\ pending[h] = {} /\ Stale(h) = {}

NoRestart(h) ==
    /\ Applied(h)
    /\ wanted[h] <= memNonce[h]
    /\ Goto(h, "end")
    /\ UNCHANGED <<panelVars, agentJson, replyVars, procVars, nonceVars, owed,
                   events>>

\* Mutant of TruncateNonce: >= instead of >.
TruncateNonceAgain(h) ==
    /\ Applied(h)
    /\ wanted[h] >= memNonce[h]
    /\ Goto(h, "save")
    /\ fileNonce' = [fileNonce EXCEPT ![h] = 0]
    /\ UNCHANGED <<panelVars, agentJson, replyVars, procVars, memNonce,
                   lastTaken, owed, events>>

\* open(..., "w") in _save_agent_restart_nonce empties the file, which
\* _load_agent_restart_nonce reads as 0.
TruncateNonce(h) ==
    /\ Applied(h)
    /\ wanted[h] > memNonce[h]
    /\ Goto(h, "save")
    /\ fileNonce' = [fileNonce EXCEPT ![h] = 0]
    /\ UNCHANGED <<panelVars, agentJson, replyVars, procVars, memNonce,
                   lastTaken, owed, events>>

\* An agent that still speaks for the node its host was moved from does not
\* take a request of the new one.
TakeRequest(h) ==
    lastTaken' = IF token[h] = agentJson[h]
                 THEN [lastTaken EXCEPT ![h] = wanted[h]] ELSE lastTaken

\* Mutant of SaveNonce: the nonce is not written to the file.
SaveNonceInMemory(h) ==
    /\ pc[h] = "save"
    /\ pc' = [pc EXCEPT ![h] = "end"]
    /\ shutdown' = [shutdown EXCEPT ![h] = TRUE]
    /\ memNonce' = [memNonce EXCEPT ![h] = wanted[h]]
    /\ TakeRequest(h)
    /\ UNCHANGED <<panelVars, agentJson, token, replyVars, procVars, fileNonce,
                   owed, events>>

\* Mutant of SaveNonce: the agent does not ask itself to shut down.
SaveNonceOnly(h) ==
    /\ pc[h] = "save"
    /\ Goto(h, "end")
    /\ fileNonce' = [fileNonce EXCEPT ![h] = wanted[h]]
    /\ memNonce' = [memNonce EXCEPT ![h] = wanted[h]]
    /\ TakeRequest(h)
    /\ UNCHANGED <<panelVars, agentJson, replyVars, procVars, owed, events>>

SaveNonce(h) ==
    /\ pc[h] = "save"
    /\ pc' = [pc EXCEPT ![h] = "end"]
    /\ shutdown' = [shutdown EXCEPT ![h] = TRUE]
    /\ fileNonce' = [fileNonce EXCEPT ![h] = wanted[h]]
    /\ memNonce' = [memNonce EXCEPT ![h] = wanted[h]]
    /\ TakeRequest(h)
    /\ UNCHANGED <<panelVars, agentJson, token, replyVars, procVars, owed,
                   events>>

\* The disk is full: the file is empty, the request stays open.
SaveFails(h) ==
    /\ Fault("disk")
    /\ pc[h] = "save"
    /\ Goto(h, "end")
    /\ UNCHANGED <<panelVars, agentJson, replyVars, procVars, nonceVars, owed>>

\* report_logs, track_and_report_traffic and the sleep change nothing here.
EndIteration(h) ==
    /\ pc[h] = "end"
    /\ Goto(h, IF shutdown[h] THEN "exit" ELSE "heartbeat")
    /\ UNCHANGED <<panelVars, agentJson, replyVars, procVars, nonceVars, owed,
                   events>>

\* The finally block of run.
StopForExit(h, t) ==
    /\ pc[h] = "exit"
    /\ t \in DOMAIN procs[h]
    /\ StopTunnel(h, t)

Exit(h) ==
    /\ pc[h] = "exit"
    /\ DOMAIN procs[h] = {}
    /\ Goto(h, "down")
    /\ UNCHANGED <<panelVars, agentJson, replyVars, procVars, nonceVars, owed,
                   events>>

-----------------------------------------------------------------------------
AgentStep(h) ==
    \/ StartAgent(h)
    \/ Heartbeat(h) \/ Sync(h) \/ SyncRefused(h)
    \/ \E i \in pending[h] : KeepItem(h, i) \/ LaunchItem(h, i)
    \/ \E t \in TunnelIds : RemoveStale(h, t) \/ StopForExit(h, t)
    \/ NoRestart(h) \/ TruncateNonce(h) \/ SaveNonce(h)
    \/ EndIteration(h) \/ Exit(h)

Failure(h) ==
    \/ HeartbeatLost(h) \/ SyncLost(h) \/ SaveFails(h)
    \/ \E i \in pending[h] :
          \/ SkipItem(h, i) \/ StopForNoNetwork(h, i) \/ FirewallFails(h, i)
          \/ LaunchFails(h, i) \/ AbortItem(h, i)
    \/ \E t \in TunnelIds : ProcExits(h, t)
    \/ SigTerm(h) \/ CrashAgent(h) \/ Reboot(h)

Next ==
    \/ Operator
    \/ \E h \in Hosts : AgentStep(h) \/ Failure(h)
    \/ \E h \in Hosts, n \in NodeIds : Install(h, n)

Spec == Init /\ [][Next]_vars

\* The loop of an agent never blocks for good (every call it makes has a
\* timeout) and systemd restarts an agent that ended; failures are finite in
\* number because they are charged to MaxEvents.
Fairness == \A h \in Hosts : WF_vars(AgentStep(h))

FairSpec == Spec /\ Fairness

-----------------------------------------------------------------------------
(* Properties *)

\* The core ports of the Paqet servers in a process table.
PaqetPorts(ps) == UNION {PaqetServerPort(ps[t].item) : t \in DOMAIN ps}

\* An agent that is neither killed nor refused a process leaves no NOTRACK
\* and RST-drop rule behind: every port that has them is the core port of a
\* Paqet server the agent holds, through restarts of the agent, port and
\* type changes, failed syncs and failed firewall calls.
NoOrphanRules ==
    \A h \in Hosts : rules[h] \subseteq PaqetPorts(procs[h])

\* A Paqet server that keeps running loses its rules only through a second
\* tunnel of the host with the same core port: one that is held, or one
\* that is being applied.
RulesLostOnlyBySharing ==
    [][\A h \in Hosts : \A t \in DOMAIN procs[h] \cap DOMAIN procs'[h] :
          \A p \in PaqetServerPort(procs[h][t].item) :
             procs'[h][t].item = procs[h][t].item /\ p \in rules[h] \ rules'[h]
             => \/ \E u \in DOMAIN procs[h] \ {t} :
                      p \in PaqetServerPort(procs[h][u].item)
                \/ \E i \in pending[h] :
                      i.tunnel_id # t /\ p \in PaqetServerPort(i)
      ]_vars

\* A restart request of the node a host is enrolled with is honoured at most
\* once, also when the agent is killed while it rewrites the nonce file or
\* cannot write it: the agent never restarts in a loop.
NoRestartLoop ==
    \A h \in Hosts : pc[h] = "save" => wanted[h] > lastTaken[h]

\* A newer request than the last one honoured is outstanding.
RequestOutstanding(h) ==
    agentJson[h] \in DOMAIN nodes
       => nodes[agentJson[h]].agent_restart_nonce > lastTaken[h]

\* Why NoRestartLoop holds: when the file or the memory of an agent falls
\* behind the last request it honoured, that is because a newer request was
\* being saved, and the panel still has that one; an agent whose host was
\* moved to another node is on its way out.
HostRestartInv(h) ==
    /\ {agentJson[h], token[h]} \subseteq everNodes \cup {NoNode}
    /\ fileNonce[h] < lastTaken[h] => RequestOutstanding(h)
    /\ pc[h] # "down" /\ memNonce[h] < lastTaken[h] => RequestOutstanding(h)
    /\ pc[h] = "apply" /\ memNonce[h] < lastTaken[h] => wanted[h] > lastTaken[h]
    /\ pc[h] \in {"apply", "save"} /\ token[h] \in DOMAIN nodes
          => wanted[h] <= nodes[token[h]].agent_restart_nonce
    /\ pc[h] = "save" => wanted[h] > memNonce[h] /\ wanted[h] > lastTaken[h]
    /\ pc[h] # "down" /\ token[h] # agentJson[h]
          => shutdown[h] /\ lastTaken[h] = 0

RestartInv == \A h \in Hosts : HostRestartInv(h)

\* The host runs exactly the tunnels the panel assigns to its node, with
\* their present configuration.
Converged(h) ==
    LET items == SyncItems(agentJson[h]) IN
    /\ token[h] = agentJson[h]
    /\ DOMAIN procs[h] = {i.tunnel_id : i \in items}
    /\ \A i \in items : procs[h][i.tunnel_id] = [item |-> i, alive |-> TRUE]

\* Once the operator and the failures leave it alone, every host whose node
\* is registered settles on the panel's configuration.
Convergence ==
    <>[](\A h \in Enrolled : Converged(h))

\* Both ends of a running tunnel whose nodes are each enrolled on one host
\* settle on the same port, and the dialing end on the listening host's
\* address, which reached it through a heartbeat, the database and a sync.
EndsMeet ==
    <>[](\A h, g \in Enrolled :
           \A t \in DOMAIN procs[h] \cap DOMAIN procs[g] :
              /\ \A f \in Hosts \ {h} : agentJson[f] # agentJson[h]
              /\ procs[h][t].item.role = "server"
              /\ procs[g][t].item.role = "client"
              => /\ procs[g][t].item.core_port = procs[h][t].item.core_port
                 /\ procs[g][t].item.peer = HostIp[h])

\* The host still has the nonce of a node it was enrolled with before.
LeftoverNonce(h) ==
    \/ fileNonce[h] > lastTaken[h]
    \/ pc[h] # "down" /\ memNonce[h] > lastTaken[h]

\* An agent told to restart does restart, through failed saves, kills and
\* tunnels that cannot be started, unless its node is deleted first or the
\* host was moved to another node.
RestartHonoured ==
    \A h \in Hosts :
        h \in owed ~> h \notin owed \/ h \notin Enrolled \/ LeftoverNonce(h)
=============================================================================
