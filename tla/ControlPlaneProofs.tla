-------------------------- MODULE ControlPlaneProofs --------------------------
(***************************************************************************)
(* Theorems about ControlPlane for every set of hosts, nodes, tunnels and  *)
(* ports, and every bound on the number of events.                         *)
(***************************************************************************)
EXTENDS ControlPlane, PanelProofs

-----------------------------------------------------------------------------
(* The agents' tables *)

\* Launching and stopping a tunnel give a process table again.
LEMMA LaunchTable ==
    ASSUME NEW ps, IsProcTable(ps), NEW t \in TunnelIds, NEW p \in Process
    PROVE  IsProcTable(Upsert(ps, t, p))
    BY DEF IsProcTable, Upsert

\* A process table without one tunnel is a process table.
LEMMA StopTable ==
    ASSUME NEW ps, IsProcTable(ps), NEW t
    PROVE  IsProcTable(DeleteRow(ps, t))
    BY DEF IsProcTable, DeleteRow

\* So does the death of all its processes, or of one.
LEMMA DeadTable ==
    ASSUME NEW ps, IsProcTable(ps)
    PROVE  /\ IsProcTable([t \in DOMAIN ps |-> [ps[t] EXCEPT !.alive = FALSE]])
           /\ \A t \in DOMAIN ps :
                 IsProcTable([ps EXCEPT ![t].alive = FALSE])
    BY DEF IsProcTable, Process

\* A killed agent is left with a process table, the empty one.
LEMMA EmptyTable == IsProcTable(NoProcs)
    BY DEF IsProcTable, NoProcs

\* The answer to a sync is made of items.
LEMMA SyncItemsType ==
    ASSUME PanelTypeOK, NEW n PROVE SyncItems(n) \subseteq Item
  <1>1. ASSUME NEW t \in DOMAIN tunnels, NEW role \in {"server", "client"}
        PROVE  SyncItem(t, role) \in Item
    <2>1. tunnels[t] \in TunnelRow /\ t \in TunnelIds
        BY PanelAssumption DEF PanelTypeOK, TunnelIds
    <2>2. PeerAddress(tunnels[t]) \in Ips \cup {Localhost}
        BY DEF PanelTypeOK, PeerAddress, NodeRow
    <2> QED
        BY <2>1, <2>2 DEF SyncItem, Item, TunnelRow
  <1> QED
      BY <1>1 DEF SyncItems

\* The ports with rules are core ports.
LEMMA PaqetServerPortType ==
    ASSUME NEW i \in Item PROVE PaqetServerPort(i) \subseteq CorePorts
    BY DEF PaqetServerPort, Item

-----------------------------------------------------------------------------
(* Type correctness *)

\* Newly installed hosts and a new panel are well typed.
LEMMA InitType == Init => CPTypeOK
    BY PanelInitType, EmptyTable, PanelAssumption, ControlAssumption
    DEF Init, CPTypeOK, ProcsOK

\* What the actions of apply_configs on one item have in common.
LEMMA ItemDoneType ==
    ASSUME CPTypeOK, NEW h \in Hosts, NEW i \in pending[h],
           NEW ps, IsProcTable(ps), NEW rs \in SUBSET CorePorts,
           ItemDone(h, i, ps, rs), events' \in 0 .. MaxEvents
    PROVE  CPTypeOK'
  <1>1. i.tunnel_id \in TunnelIds
      BY DEF CPTypeOK, Item
  <1>2. PanelTypeOK'
      BY DEF CPTypeOK, ItemDone, PanelTypeOK, panelVars
  <1>3. /\ pending' \in [Hosts -> SUBSET Item]
        /\ active' \in [Hosts -> SUBSET TunnelIds]
        /\ ProcsOK'
        /\ rules' \in [Hosts -> SUBSET CorePorts]
      BY <1>1 DEF CPTypeOK, ProcsOK, ItemDone
  <1> QED
      BY <1>2, <1>3 DEF CPTypeOK, ItemDone, agentVars, nonceVars

\* The bound on events is kept.
LEMMA EventType ==
    ASSUME CPTypeOK, Event PROVE events' \in 0 .. MaxEvents
    BY ControlAssumption DEF CPTypeOK, Event

\* Stopping one tunnel keeps the types of the tables and of the rules.
LEMMA StopType ==
    ASSUME CPTypeOK, NEW h \in Hosts, NEW t
    PROVE  IsProcTable(StopProcs(h, t)) /\ StopRules(h, t) \in SUBSET CorePorts
    BY StopTable DEF CPTypeOK, ProcsOK, StopProcs, StopRules

\* So does launching one.
LEMMA LaunchType ==
    ASSUME CPTypeOK, NEW h \in Hosts, NEW i \in pending[h]
    PROVE  /\ IsProcTable(Upsert(procs[h], i.tunnel_id,
                              [item |-> i, alive |-> TRUE]))
           /\ StopRules(h, i.tunnel_id) \cup PaqetServerPort(i)
                 \in SUBSET CorePorts
  <1>1. /\ i \in Item /\ i.tunnel_id \in TunnelIds
        /\ [item |-> i, alive |-> TRUE] \in Process
        /\ IsProcTable(procs[h])
      BY DEF CPTypeOK, ProcsOK, Item, Process
  <1> QED
      BY <1>1, LaunchTable, StopType, PaqetServerPortType

\* Each step of an agent keeps the types.
LEMMA AgentStepType ==
    ASSUME CPTypeOK, NEW h \in Hosts, AgentStep(h) PROVE CPTypeOK'
  <1> USE DEF CPTypeOK, ProcsOK, Goto, agentVars, replyVars, procVars, nonceVars
  <1>0. UNCHANGED panelVars => PanelTypeOK'
      BY DEF PanelTypeOK, panelVars
  <1>1. CASE StartAgent(h)
      BY <1>1, <1>0 DEF StartAgent
  <1>2. CASE Heartbeat(h)
    <2>1. PanelTypeOK'
        BY <1>2, <1>0, HeartbeatType, ControlAssumption DEF Heartbeat, PanelTypeOK
    <2> QED
        BY <1>2, <2>1 DEF Heartbeat
  <1>3. CASE Sync(h)
    <2>1. SyncItems(token[h]) \subseteq Item
        BY SyncItemsType
    <2>2. nodes[token[h]].agent_restart_nonce \in Nat
        BY <1>3 DEF Sync, PanelTypeOK, NodeRow
    <2> QED
        BY <1>3, <1>0, <2>1, <2>2 DEF Sync
  <1>4. CASE SyncRefused(h)
      BY <1>4, <1>0 DEF SyncRefused
  <1>5. ASSUME NEW i \in pending[h], KeepItem(h, i) PROVE CPTypeOK'
      BY <1>5, ItemDoneType DEF KeepItem
  <1>6. ASSUME NEW i \in pending[h], LaunchItem(h, i) PROVE CPTypeOK'
    <2> HIDE DEF CPTypeOK
    <2>1. events' \in 0 .. MaxEvents
        BY <1>6 DEF CPTypeOK, LaunchItem
    <2> QED
        BY <1>6, <2>1, ItemDoneType, LaunchType DEF LaunchItem
  <1>7. ASSUME NEW t \in TunnelIds, StopTunnel(h, t) PROVE CPTypeOK'
      BY <1>7, <1>0, StopType DEF StopTunnel
  <1>8. CASE NoRestart(h)
      BY <1>8, <1>0 DEF NoRestart
  <1>9. CASE TruncateNonce(h)
      BY <1>9, <1>0 DEF TruncateNonce
  <1>10. CASE SaveNonce(h)
      BY <1>10, <1>0 DEF SaveNonce, TakeRequest
  <1>11. CASE EndIteration(h)
      BY <1>11, <1>0 DEF EndIteration
  <1>12. CASE Exit(h)
      BY <1>12, <1>0 DEF Exit
  <1> QED
      BY <1>1, <1>2, <1>3, <1>4, <1>5, <1>6, <1>7, <1>8, <1>9, <1>10, <1>11,
         <1>12 DEF AgentStep, RemoveStale, StopForExit

\* Each failure keeps the types.
LEMMA FailureType ==
    ASSUME CPTypeOK, NEW h \in Hosts, Failure(h) PROVE CPTypeOK'
  <1> USE DEF CPTypeOK, ProcsOK, Goto, agentVars, replyVars, procVars, nonceVars, Fault
  <1>0. UNCHANGED panelVars => PanelTypeOK'
      BY DEF PanelTypeOK, panelVars
  <1>1. CASE HeartbeatLost(h)
      BY <1>1, <1>0, EventType DEF HeartbeatLost
  <1>2. CASE SyncLost(h)
      BY <1>2, <1>0, EventType DEF SyncLost
  <1>3. CASE SaveFails(h)
      BY <1>3, <1>0, EventType DEF SaveFails
  <1>4. ASSUME NEW i \in pending[h], SkipItem(h, i) PROVE CPTypeOK'
      BY <1>4, EventType, ItemDoneType DEF SkipItem
  <1>5. ASSUME NEW i \in pending[h], StopForNoNetwork(h, i) PROVE CPTypeOK'
      BY <1>5, EventType, ItemDoneType, StopType DEF StopForNoNetwork
  <1>6. ASSUME NEW i \in pending[h], FirewallFails(h, i) PROVE CPTypeOK'
    <2>1. /\ IsProcTable(StopProcs(h, i.tunnel_id))
          /\ StopRules(h, i.tunnel_id) \ PaqetServerPort(i) \in SUBSET CorePorts
        BY StopType
    <2> QED
        BY <1>6, <2>1, EventType, ItemDoneType DEF FirewallFails
  <1>7. ASSUME NEW i \in pending[h], LaunchFails(h, i) PROVE CPTypeOK'
      BY <1>7, EventType, ItemDoneType, StopType, LaunchType DEF LaunchFails
  <1>8. ASSUME NEW i \in pending[h], AbortItem(h, i) PROVE CPTypeOK'
    <2>1. /\ ProcsOK'
          /\ rules' \in [Hosts -> SUBSET CorePorts]
        BY <1>8, StopType DEF AbortItem
    <2> QED
        BY <1>8, <1>0, <2>1, EventType DEF AbortItem
  <1>9. ASSUME NEW t \in TunnelIds, ProcExits(h, t) PROVE CPTypeOK'
    <2>1. ProcsOK'
        BY <1>9, DeadTable DEF ProcExits
    <2> QED
        BY <1>9, <1>0, <2>1, EventType DEF ProcExits
  <1>10. CASE SigTerm(h)
    <2>1. ProcsOK'
        BY <1>10, DeadTable DEF SigTerm, Signalled
    <2> QED
        BY <1>10, <1>0, <2>1, EventType DEF SigTerm, Signalled
  <1>11. CASE CrashAgent(h)
      BY <1>11, <1>0, EmptyTable, EventType DEF CrashAgent, Killed
  <1>12. CASE Reboot(h)
      BY <1>12, <1>0, EmptyTable, EventType DEF Reboot, Killed
  <1> QED
      BY <1>1, <1>2, <1>3, <1>4, <1>5, <1>6, <1>7, <1>8, <1>9, <1>10, <1>11,
         <1>12 DEF Failure

\* Every variable keeps its type: in particular an agent never holds a
\* process or a rule for a port that no operator chose.
THEOREM TypeCorrect == Spec => []CPTypeOK
  <1>1. ASSUME CPTypeOK, [Next]_vars PROVE CPTypeOK'
    <2>1. CASE UNCHANGED vars
        BY <1>1, <2>1 DEF vars, CPTypeOK, ProcsOK, PanelTypeOK, panelVars, agentVars,
                          replyVars, procVars, nonceVars
    <2>2. CASE Operator
      <3>1. PanelTypeOK'
          BY <1>1, <2>2, OperatorType DEF Operator, CPTypeOK
      <3> QED
          BY <1>1, <2>2, <3>1, EventType
          DEF Operator, Enrolled, CPTypeOK, ProcsOK, agentVars, replyVars, procVars,
              nonceVars
    <2>3. ASSUME NEW h \in Hosts, AgentStep(h) PROVE CPTypeOK'
        BY <1>1, <2>3, AgentStepType
    <2>4. ASSUME NEW h \in Hosts, Failure(h) PROVE CPTypeOK'
        BY <1>1, <2>4, FailureType
    <2>5. ASSUME NEW h \in Hosts, NEW n \in NodeIds, Install(h, n)
          PROVE  CPTypeOK'
      <3>1. ProcsOK'
          BY <1>1, <2>5, DeadTable DEF Install, Signalled, CPTypeOK, ProcsOK
      <3>2. PanelTypeOK'
          BY <1>1, <2>5 DEF Install, CPTypeOK, PanelTypeOK, panelVars
      <3> QED
          BY <1>1, <2>5, <3>1, <3>2, EventType
          DEF Install, Signalled, CPTypeOK, replyVars
    <2> QED
        BY <1>1, <2>1, <2>2, <2>3, <2>4, <2>5 DEF Next
  <1> QED
      BY <1>1, InitType, PTL DEF Spec

-----------------------------------------------------------------------------
(* Firewall rules *)

\* Replacing the table and the rules of one host keeps NoOrphanRules when
\* the new rules are ports of the new table.
LEMMA OrphanFrame ==
    ASSUME CPTypeOK, NoOrphanRules, NEW h \in Hosts, NEW ps, NEW rs,
           procs' = [procs EXCEPT ![h] = ps], rules' = [rules EXCEPT ![h] = rs],
           rs \subseteq PaqetPorts(ps)
    PROVE  NoOrphanRules'
    BY DEF CPTypeOK, ProcsOK, NoOrphanRules

\* stop_tunnel_process removes the rules of the tunnel it forgets.
LEMMA StopPorts ==
    ASSUME NEW h \in Hosts, rules[h] \subseteq PaqetPorts(procs[h]), NEW t
    PROVE  StopRules(h, t) \subseteq PaqetPorts(StopProcs(h, t))
    BY DEF StopRules, StopProcs, DeleteRow, PaqetPorts

\* A launch adds rules for the tunnel it records only.
LEMMA LaunchPorts ==
    ASSUME NEW h \in Hosts, rules[h] \subseteq PaqetPorts(procs[h]), NEW i
    PROVE  StopRules(h, i.tunnel_id) \cup PaqetServerPort(i)
             \subseteq PaqetPorts(Upsert(procs[h], i.tunnel_id,
                                        [item |-> i, alive |-> TRUE]))
  <1> DEFINE new == Upsert(procs[h], i.tunnel_id, [item |-> i, alive |-> TRUE])
  <1>1. /\ DOMAIN new = DOMAIN procs[h] \cup {i.tunnel_id}
        /\ new[i.tunnel_id].item = i
        /\ \A t \in DOMAIN procs[h] \ {i.tunnel_id} : new[t] = procs[h][t]
      BY DEF Upsert
  <1> HIDE DEF new
  <1>2. PaqetServerPort(i) \subseteq PaqetPorts(new)
      BY <1>1 DEF PaqetPorts
  <1>3. ASSUME NEW p \in StopRules(h, i.tunnel_id) PROVE p \in PaqetPorts(new)
    <2>1. PICK t \in DOMAIN procs[h] : p \in PaqetServerPort(procs[h][t].item)
        BY <1>3 DEF StopRules, PaqetPorts
    <2>2. t # i.tunnel_id
        BY <1>3, <2>1 DEF StopRules
    <2> QED
        BY <1>1, <2>1, <2>2 DEF PaqetPorts
  <1> QED
      BY <1>2, <1>3 DEF new

\* Processes that die keep their metadata.
LEMMA DeadPorts ==
    ASSUME NEW ps, IsProcTable(ps)
    PROVE  /\ PaqetPorts([t \in DOMAIN ps |-> [ps[t] EXCEPT !.alive = FALSE]])
                = PaqetPorts(ps)
           /\ \A t \in DOMAIN ps :
                 PaqetPorts([ps EXCEPT ![t].alive = FALSE]) = PaqetPorts(ps)
    BY DEF IsProcTable, Process, PaqetPorts

\* A signal kills processes, but the agent still knows whose rules are set.
LEMMA OrphanSignalled ==
    ASSUME CPTypeOK, NoOrphanRules, NEW h \in Hosts, Signalled(h)
    PROVE  NoOrphanRules'
  <1> DEFINE dead == [t \in DOMAIN procs[h] |->
                         [procs[h][t] EXCEPT !.alive = FALSE]]
  <1>1. IsProcTable(procs[h])
      BY DEF CPTypeOK, ProcsOK
  <1>2. PaqetPorts(dead) = PaqetPorts(procs[h])
      BY <1>1, DeadPorts
  <1>3. procs' = [procs EXCEPT ![h] = dead] /\ rules' = rules
      BY DEF Signalled
  <1> HIDE DEF dead
  <1> QED
      BY <1>2, <1>3 DEF CPTypeOK, ProcsOK, NoOrphanRules

\* No step of an agent leaves a rule behind.
LEMMA OrphanAgentStep ==
    ASSUME CPTypeOK, NoOrphanRules, NEW h \in Hosts, AgentStep(h)
    PROVE  NoOrphanRules'
  <1>0. rules[h] \subseteq PaqetPorts(procs[h])
      BY DEF NoOrphanRules
  <1>1. ASSUME UNCHANGED procVars PROVE NoOrphanRules'
      BY <1>1 DEF procVars, NoOrphanRules
  <1>2. ASSUME NEW i \in pending[h], KeepItem(h, i) PROVE NoOrphanRules'
      BY <1>0, <1>2, OrphanFrame DEF KeepItem, ItemDone
  <1>3. ASSUME NEW i \in pending[h], LaunchItem(h, i) PROVE NoOrphanRules'
      BY <1>0, <1>3, OrphanFrame, LaunchPorts DEF LaunchItem, ItemDone
  <1>4. ASSUME NEW t \in TunnelIds, StopTunnel(h, t) PROVE NoOrphanRules'
      BY <1>0, <1>4, OrphanFrame, StopPorts DEF StopTunnel
  <1> QED
      BY <1>1, <1>2, <1>3, <1>4
      DEF AgentStep, StartAgent, Heartbeat, Sync, SyncRefused, RemoveStale,
          StopForExit, NoRestart, TruncateNonce, SaveNonce, EndIteration, Exit

\* Nor does any failure but a kill and a refused process.
LEMMA OrphanFailure ==
    ASSUME "crash" \notin Faults, "popen" \notin Faults,
           CPTypeOK, NoOrphanRules, NEW h \in Hosts, Failure(h)
    PROVE  NoOrphanRules'
  <1>0. rules[h] \subseteq PaqetPorts(procs[h]) /\ IsProcTable(procs[h])
      BY DEF NoOrphanRules, CPTypeOK, ProcsOK
  <1>1. ASSUME UNCHANGED procVars PROVE NoOrphanRules'
      BY <1>1 DEF procVars, NoOrphanRules
  <1>2. ASSUME NEW i \in pending[h], SkipItem(h, i) PROVE NoOrphanRules'
      BY <1>0, <1>2, OrphanFrame DEF SkipItem, ItemDone
  <1>3. ASSUME NEW i \in pending[h], StopForNoNetwork(h, i) PROVE NoOrphanRules'
      BY <1>0, <1>3, OrphanFrame, StopPorts DEF StopForNoNetwork, ItemDone
  <1>4. ASSUME NEW i \in pending[h], FirewallFails(h, i) PROVE NoOrphanRules'
    <2>1. StopRules(h, i.tunnel_id) \ PaqetServerPort(i)
             \subseteq PaqetPorts(StopProcs(h, i.tunnel_id))
        BY <1>0, StopPorts
    <2> QED
        BY <1>4, <2>1, OrphanFrame DEF FirewallFails, ItemDone
  <1>5. ASSUME NEW i \in pending[h], AbortItem(h, i) PROVE NoOrphanRules'
      BY <1>0, <1>1, <1>5, OrphanFrame, StopPorts DEF AbortItem
  <1>6. ASSUME NEW t \in TunnelIds, ProcExits(h, t) PROVE NoOrphanRules'
    <2> DEFINE dead == [procs[h] EXCEPT ![t].alive = FALSE]
    <2>1. PaqetPorts(dead) = PaqetPorts(procs[h])
        BY <1>0, <1>6, DeadPorts DEF ProcExits
    <2>2. procs' = [procs EXCEPT ![h] = dead] /\ rules' = rules
        BY <1>6 DEF ProcExits
    <2> HIDE DEF dead
    <2> QED
        BY <1>0, <2>1, <2>2 DEF CPTypeOK, ProcsOK, NoOrphanRules
  <1>7. CASE SigTerm(h)
      BY <1>7, OrphanSignalled DEF SigTerm
  <1>8. CASE Reboot(h)
      BY <1>8, OrphanFrame DEF Reboot, Killed
  <1> QED
      BY <1>1, <1>2, <1>3, <1>4, <1>5, <1>6, <1>7, <1>8
      DEF Failure, HeartbeatLost, SyncLost, SaveFails, LaunchFails, CrashAgent,
          Fault

\* As long as the agent is not killed and no process is refused, every rule
\* belongs to a Paqet server the agent holds.
THEOREM NoOrphans ==
    ASSUME "crash" \notin Faults, "popen" \notin Faults
    PROVE  Spec => []NoOrphanRules
  <1>1. Init => NoOrphanRules
      BY DEF Init, NoOrphanRules
  <1>2. CPTypeOK /\ NoOrphanRules /\ [Next]_vars => NoOrphanRules'
    <2> SUFFICES ASSUME CPTypeOK, NoOrphanRules, [Next]_vars
                 PROVE  NoOrphanRules'
        OBVIOUS
    <2>1. ASSUME UNCHANGED procVars PROVE NoOrphanRules'
        BY <2>1 DEF procVars, NoOrphanRules
    <2>2. ASSUME NEW h \in Hosts, NEW n \in NodeIds, Install(h, n)
          PROVE  NoOrphanRules'
        BY <2>2, OrphanSignalled DEF Install
    <2> QED
        BY <2>1, <2>2, OrphanAgentStep, OrphanFailure DEF Next, Operator, vars
  <1> QED
      BY <1>1, <1>2, TypeCorrect, PTL DEF Spec

-----------------------------------------------------------------------------
(* Rules of running Paqet servers *)

\* The body of RulesLostOnlyBySharing for one host.
KeepsUnshared(h) ==
    \A t \in DOMAIN procs[h] \cap DOMAIN procs'[h] :
       \A p \in PaqetServerPort(procs[h][t].item) :
          procs'[h][t].item = procs[h][t].item /\ p \in rules[h] \ rules'[h]
          => \/ \E u \in DOMAIN procs[h] \ {t} :
                   p \in PaqetServerPort(procs[h][u].item)
             \/ \E i \in pending[h] :
                   i.tunnel_id # t /\ p \in PaqetServerPort(i)

\* A tunnel that is stopped takes away only rules of its own port.
LEMMA StopShares ==
    ASSUME CPTypeOK, NEW h \in Hosts, NEW u,
           procs' = [procs EXCEPT ![h] = StopProcs(h, u)],
           StopRules(h, u) \subseteq rules'[h]
    PROVE  KeepsUnshared(h)
    BY DEF CPTypeOK, ProcsOK, StopProcs, StopRules, DeleteRow, KeepsUnshared

\* A launch takes away rules of its own former port only.
LEMMA LaunchShares ==
    ASSUME CPTypeOK, NEW h \in Hosts, NEW i \in pending[h], LaunchItem(h, i)
    PROVE  KeepsUnshared(h)
  <1> SUFFICES ASSUME NEW t \in DOMAIN procs[h],
                      NEW p \in PaqetServerPort(procs[h][t].item),
                      procs'[h][t].item = procs[h][t].item,
                      p \in rules[h], p \notin rules'[h]
               PROVE  \E u \in DOMAIN procs[h] \ {t} :
                         p \in PaqetServerPort(procs[h][u].item)
      BY DEF KeepsUnshared
  <1> DEFINE new == Upsert(procs[h], i.tunnel_id, [item |-> i, alive |-> TRUE])
  <1>1. /\ procs'[h] = new
        /\ rules'[h] = StopRules(h, i.tunnel_id) \cup PaqetServerPort(i)
      BY DEF LaunchItem, ItemDone, CPTypeOK, ProcsOK
  <1>2. new[i.tunnel_id].item = i
      BY DEF Upsert
  <1> HIDE DEF new
  <1>3. /\ i.tunnel_id \in DOMAIN procs[h]
        /\ p \in PaqetServerPort(procs[h][i.tunnel_id].item)
      BY <1>1 DEF StopRules
  <1>4. t # i.tunnel_id
      BY <1>1, <1>2
  <1> QED
      BY <1>3, <1>4

\* A failed firewall call cleans up the item's own port only.
LEMMA FirewallShares ==
    ASSUME CPTypeOK, NEW h \in Hosts, NEW i \in pending[h], FirewallFails(h, i)
    PROVE  KeepsUnshared(h)
    BY DEF FirewallFails, ItemDone, CPTypeOK, ProcsOK, StopProcs, StopRules,
           DeleteRow, KeepsUnshared

\* No step of an agent takes rules from a tunnel that shares its port with
\* none.
LEMMA AgentStepShares ==
    ASSUME CPTypeOK, NEW h \in Hosts, AgentStep(h)
    PROVE  \A g \in Hosts : KeepsUnshared(g)
  <1>1. ASSUME NEW g \in Hosts, rules'[g] = rules[g] PROVE KeepsUnshared(g)
      BY <1>1 DEF KeepsUnshared
  <1>2. ASSUME NEW i \in pending[h], KeepItem(h, i) \/ LaunchItem(h, i),
               NEW g \in Hosts
        PROVE  KeepsUnshared(g)
      BY <1>1, <1>2, LaunchShares DEF KeepItem, LaunchItem, ItemDone, CPTypeOK
  <1>3. ASSUME NEW t \in TunnelIds, StopTunnel(h, t), NEW g \in Hosts
        PROVE  KeepsUnshared(g)
      BY <1>1, <1>3, StopShares DEF StopTunnel, CPTypeOK
  <1> QED
      BY <1>1, <1>2, <1>3
      DEF AgentStep, StartAgent, Heartbeat, Sync, SyncRefused, RemoveStale,
          StopForExit, NoRestart, TruncateNonce, SaveNonce, EndIteration, Exit,
          procVars

\* Nor does any failure.
LEMMA FailureShares ==
    ASSUME CPTypeOK, NEW h \in Hosts, Failure(h)
    PROVE  \A g \in Hosts : KeepsUnshared(g)
  <1>1. ASSUME NEW g \in Hosts, rules'[g] = rules[g] PROVE KeepsUnshared(g)
      BY <1>1 DEF KeepsUnshared
  <1>2. ASSUME NEW i \in pending[h], NEW g \in Hosts,
               \/ SkipItem(h, i) \/ StopForNoNetwork(h, i)
               \/ LaunchFails(h, i) \/ AbortItem(h, i)
        PROVE  KeepsUnshared(g)
    <2>1. \/ rules'[g] = rules[g]
          \/ /\ g = h
             /\ procs' = [procs EXCEPT ![h] = StopProcs(h, i.tunnel_id)]
             /\ StopRules(h, i.tunnel_id) \subseteq rules'[h]
        BY <1>2 DEF SkipItem, StopForNoNetwork, LaunchFails, AbortItem,
                    ItemDone, CPTypeOK, procVars
    <2> QED
        BY <1>1, <2>1, StopShares
  <1>3. ASSUME NEW i \in pending[h], FirewallFails(h, i), NEW g \in Hosts
        PROVE  KeepsUnshared(g)
      BY <1>1, <1>3, FirewallShares DEF FirewallFails, ItemDone, CPTypeOK
  <1>4. ASSUME Reboot(h), NEW g \in Hosts PROVE KeepsUnshared(g)
      BY <1>1, <1>4
      DEF Reboot, Killed, NoProcs, CPTypeOK, ProcsOK, KeepsUnshared
  <1> QED
      BY <1>1, <1>2, <1>3, <1>4
      DEF Failure, HeartbeatLost, SyncLost, SaveFails, ProcExits, SigTerm,
          Signalled, CrashAgent, procVars

\* Whatever fails, a running Paqet server loses its rules only through
\* another tunnel of its host that has, or is being given, the same port.
THEOREM LostOnlyBySharing == Spec => RulesLostOnlyBySharing
  <1>1. ASSUME CPTypeOK, Next PROVE \A h \in Hosts : KeepsUnshared(h)
    <2>1. ASSUME rules' = rules PROVE \A h \in Hosts : KeepsUnshared(h)
        BY <2>1 DEF KeepsUnshared
    <2> QED
        BY <1>1, <2>1, AgentStepShares, FailureShares
        DEF Next, Operator, Install, Signalled, procVars
  <1>2. CPTypeOK /\ [Next]_vars => [\A h \in Hosts : KeepsUnshared(h)]_vars
      BY <1>1
  <1> QED
      BY <1>2, TypeCorrect, PTL DEF Spec, RulesLostOnlyBySharing, KeepsUnshared

-----------------------------------------------------------------------------
(* The panel among its agents *)

\* All an agent does to the panel, whatever fails, is its heartbeat.
LEMMA HostOnPanel ==
    ASSUME NEW h \in Hosts, AgentStep(h) \/ Failure(h)
    PROVE  \/ UNCHANGED panelVars
           \/ /\ token[h] \in DOMAIN nodes
              /\ UpdateNodeHeartbeat(token[h], HostIp[h])
  <1>1. CASE AgentStep(h)
      BY <1>1 DEF AgentStep, StartAgent, Heartbeat, Sync, SyncRefused,
                  KeepItem, LaunchItem, ItemDone, RemoveStale, StopForExit,
                  StopTunnel, NoRestart, TruncateNonce, SaveNonce,
                  EndIteration, Exit
  <1>2. CASE Failure(h)
      BY <1>2 DEF Failure, HeartbeatLost, SyncLost, SaveFails, SkipItem,
                  StopForNoNetwork, FirewallFails, LaunchFails, AbortItem,
                  ItemDone, ProcExits, SigTerm, CrashAgent, Reboot, Killed
  <1> QED
      BY <1>1, <1>2

\* The panel behaves as Panel says with any number of agents about it, late,
\* killed, enrolled anew or holding the token of a deleted node: what is
\* proved of PanelSpec holds of the whole system.
THEOREM PanelImplemented == Spec => PanelSpec
  <1>1. Init => PanelInit
      BY DEF Init
  <1>2. CPTypeOK /\ [Next]_vars => [PanelNext]_panelVars
    <2> SUFFICES ASSUME CPTypeOK, [Next]_vars PROVE [PanelNext]_panelVars
        OBVIOUS
    <2>1. CASE UNCHANGED vars
        BY <2>1 DEF vars
    <2>2. CASE Operator
        BY <2>2 DEF Operator, PanelNext
    <2>3. ASSUME NEW h \in Hosts, AgentStep(h) \/ Failure(h)
          PROVE  [PanelNext]_panelVars
      <3>1. token[h] \in DOMAIN nodes => token[h] \in NodeIds
          BY DEF CPTypeOK, PanelTypeOK
      <3>2. HostIp[h] \in Ips
          BY ControlAssumption
      <3> QED
          BY <2>3, <3>1, <3>2, HostOnPanel DEF PanelNext
    <2>4. ASSUME NEW h \in Hosts, NEW n \in NodeIds, Install(h, n)
          PROVE  [PanelNext]_panelVars
        BY <2>4 DEF Install
    <2> QED
        BY <2>1, <2>2, <2>3, <2>4 DEF Next
  <1> QED
      BY <1>1, <1>2, TypeCorrect, PTL DEF Spec, PanelSpec

\* Tunnels that are as they were created never share a port of a server
\* node, and both ends of a tunnel are served matching configurations, also
\* while agents report new addresses between any two requests.
THEOREM PanelAmongAgents == Spec => [](UniqueUnlessEdited /\ EndsAgree)
    BY PanelImplemented, UniquePorts, EndsAlwaysAgree, PTL

-----------------------------------------------------------------------------
(* Restart requests: NoRestartLoop from the inductive invariant RestartInv *)

\* What the panel promises the agents about restart requests: an id stays
\* drawn, a deleted node does not come back, and a counter never decreases.
PanelKeeps ==
    /\ everNodes \subseteq everNodes'
    /\ \A n \in DOMAIN nodes' \cap everNodes :
          /\ n \in DOMAIN nodes
          /\ nodes'[n].agent_restart_nonce >= nodes[n].agent_restart_nonce

\* A panel left alone keeps its nodes and their counters.
LEMMA UnchangedKeeps ==
    ASSUME PanelTypeOK, UNCHANGED panelVars PROVE PanelKeeps
    BY DEF PanelTypeOK, panelVars, PanelKeeps, NodeRow

\* A heartbeat leaves the restart counters alone.
LEMMA HeartbeatKeeps ==
    ASSUME PanelTypeOK, NEW n, NEW ip, UpdateNodeHeartbeat(n, ip)
    PROVE  PanelKeeps
    BY DEF PanelTypeOK, UpdateNodeHeartbeat, PanelKeeps, NodeRow

\* The operator can only raise a counter or delete its node.
LEMMA OperatorKeeps ==
    ASSUME PanelTypeOK, OperatorStep PROVE PanelKeeps
  <1> USE DEF PanelTypeOK, PanelKeeps, NodeRow
  <1>1. ASSUME NEW n \in NodeIds, NEW ip \in Ips, CreateNode(n, ip)
        PROVE  PanelKeeps
      BY <1>1 DEF CreateNode, Upsert
  <1>2. ASSUME NEW n \in NodeIds, DeleteNode(n) PROVE PanelKeeps
      BY <1>2 DEF DeleteNode, DeleteRow
  <1>3. CASE RequestAllAgentsRestart
      BY <1>3 DEF RequestAllAgentsRestart
  <1>4. ASSUME nodes' = nodes, everNodes' = everNodes PROVE PanelKeeps
      BY <1>4
  <1> QED
      BY <1>1, <1>2, <1>3, <1>4
      DEF OperatorStep, CreateTunnel, UpdateTunnel, SetTunnelStatus,
          RequestTunnelRestart, DeleteTunnel

\* An action that leaves the nonces and the token of a host alone, and its
\* position unless it is in front of the sync, keeps its part of the
\* invariant, whatever it does to the panel.
LEMMA RestartFrame ==
    ASSUME CPTypeOK, PanelTypeOK', PanelKeeps, NEW h \in Hosts, HostRestartInv(h),
           agentJson'[h] = agentJson[h], token'[h] = token[h],
           pc'[h] = pc[h] \/ {pc[h], pc'[h]} \subseteq {"heartbeat", "sync"},
           shutdown'[h] \in {shutdown[h], TRUE},
           wanted'[h] = wanted[h],
           memNonce'[h] = memNonce[h], fileNonce'[h] = fileNonce[h],
           lastTaken'[h] = lastTaken[h]
    PROVE  HostRestartInv(h)'
  <1>1. /\ agentJson[h] \in DOMAIN nodes' => agentJson[h] \in everNodes
        /\ token[h] \in DOMAIN nodes' => token[h] \in everNodes
      BY ControlAssumption DEF PanelTypeOK, HostRestartInv
  <1>2. RequestOutstanding(h) => RequestOutstanding(h)'
      BY <1>1 DEF CPTypeOK, PanelTypeOK, PanelKeeps, RequestOutstanding, NodeRow
  <1>3. ASSUME pc[h] \in {"apply", "save"}, token[h] \in DOMAIN nodes'
        PROVE  wanted[h] <= nodes'[token[h]].agent_restart_nonce
      BY <1>1, <1>3
      DEF CPTypeOK, PanelTypeOK, PanelKeeps, HostRestartInv, NodeRow
  <1>4. {agentJson[h], token[h]} \subseteq everNodes' \cup {NoNode}
      BY DEF HostRestartInv, PanelKeeps
  <1>5. shutdown[h] => shutdown'[h]
      OBVIOUS
  <1> QED
      BY <1>2, <1>3, <1>4, <1>5 DEF HostRestartInv

\* An action of a host leaves the other hosts' parts of the invariant alone.
LEMMA RestartOthers ==
    ASSUME CPTypeOK, CPTypeOK', PanelKeeps, NEW h \in Hosts,
           AgentStep(h) \/ Failure(h),
           NEW g \in Hosts, g # h, HostRestartInv(g)
    PROVE  HostRestartInv(g)'
  <1> USE DEF agentVars, replyVars, procVars, nonceVars, Goto
  <1>1. /\ agentJson'[g] = agentJson[g] /\ token'[g] = token[g]
        /\ pc'[g] = pc[g] /\ shutdown'[g] = shutdown[g]
        /\ wanted'[g] = wanted[g] /\ memNonce'[g] = memNonce[g]
        /\ fileNonce'[g] = fileNonce[g] /\ lastTaken'[g] = lastTaken[g]
    <2> USE DEF CPTypeOK
    <2>1. CASE StartAgent(h)
        BY <2>1 DEF StartAgent
    <2>2. CASE Heartbeat(h) \/ Sync(h) \/ SyncRefused(h)
        BY <2>2 DEF Heartbeat, Sync, SyncRefused
    <2>3. ASSUME NEW i \in pending[h], KeepItem(h, i) \/ LaunchItem(h, i)
          PROVE  UNCHANGED <<agentJson[g], token[g], pc[g], shutdown[g], wanted[g],
                              memNonce[g], fileNonce[g], lastTaken[g]>>
        BY <2>3 DEF KeepItem, LaunchItem, ItemDone
    <2>4. CASE \E t \in TunnelIds : StopTunnel(h, t)
        BY <2>4 DEF StopTunnel
    <2>5. CASE NoRestart(h) \/ TruncateNonce(h) \/ SaveNonce(h)
        BY <2>5 DEF NoRestart, TruncateNonce, SaveNonce, TakeRequest
    <2>6. CASE EndIteration(h) \/ Exit(h)
        BY <2>6 DEF EndIteration, Exit
    <2>7. CASE Failure(h)
        BY <2>7 DEF Failure, HeartbeatLost, SyncLost, SaveFails, SkipItem,
                    StopForNoNetwork, FirewallFails, LaunchFails, AbortItem,
                    ItemDone, ProcExits, SigTerm, Signalled, CrashAgent,
                    Reboot, Killed
    <2> QED
        BY <2>1, <2>2, <2>3, <2>4, <2>5, <2>6, <2>7
        DEF AgentStep, RemoveStale, StopForExit
  <1> QED
      BY <1>1, RestartFrame DEF CPTypeOK

\* The panel keeps its promise in the steps of the agents too.
LEMMA HostKeeps ==
    ASSUME CPTypeOK, NEW h \in Hosts, AgentStep(h) \/ Failure(h)
    PROVE  PanelKeeps
    BY HostOnPanel, UnchangedKeeps, HeartbeatKeeps DEF CPTypeOK

\* The steps of an agent keep its part of the invariant.
LEMMA RestartAgentStep ==
    ASSUME CPTypeOK, CPTypeOK', NEW h \in Hosts, HostRestartInv(h), AgentStep(h)
    PROVE  HostRestartInv(h)'
  <1>0. PanelKeeps /\ PanelTypeOK'
      BY HostKeeps DEF CPTypeOK
  <1> USE DEF agentVars, replyVars, procVars, nonceVars, Goto
  <1>1. CASE StartAgent(h)
      BY <1>1 DEF StartAgent, HostRestartInv, RequestOutstanding, CPTypeOK,
                  panelVars
  <1>2. CASE Heartbeat(h)
      BY <1>0, <1>2, RestartFrame DEF Heartbeat, CPTypeOK
  <1>3. CASE Sync(h)
      BY <1>3 DEF Sync, HostRestartInv, RequestOutstanding, CPTypeOK,
                  panelVars, PanelTypeOK, NodeRow
  <1>4. CASE SyncRefused(h)
      BY <1>4 DEF SyncRefused, HostRestartInv, RequestOutstanding, CPTypeOK,
                  panelVars
  <1>5. ASSUME NEW i \in pending[h], KeepItem(h, i) \/ LaunchItem(h, i)
        PROVE  HostRestartInv(h)'
      BY <1>0, <1>5, RestartFrame DEF KeepItem, LaunchItem, ItemDone
  <1>6. ASSUME NEW t \in TunnelIds, StopTunnel(h, t) PROVE HostRestartInv(h)'
      BY <1>0, <1>6, RestartFrame DEF StopTunnel
  <1>7. CASE NoRestart(h)
      BY <1>7 DEF NoRestart, Applied, HostRestartInv, RequestOutstanding,
                  CPTypeOK, panelVars
  <1>8. CASE TruncateNonce(h)
      BY <1>8 DEF TruncateNonce, Applied, HostRestartInv, RequestOutstanding,
                  CPTypeOK, panelVars, PanelTypeOK, NodeRow
  <1>9. CASE SaveNonce(h)
      BY <1>9 DEF SaveNonce, TakeRequest, HostRestartInv, RequestOutstanding, CPTypeOK,
                  panelVars
  <1>10. CASE EndIteration(h)
      BY <1>10 DEF EndIteration, HostRestartInv, RequestOutstanding, CPTypeOK,
                   panelVars
  <1>11. CASE Exit(h)
      BY <1>11 DEF Exit, HostRestartInv, RequestOutstanding, CPTypeOK,
                   panelVars
  <1> QED
      BY <1>1, <1>2, <1>3, <1>4, <1>5, <1>6, <1>7, <1>8, <1>9, <1>10, <1>11
      DEF AgentStep, RemoveStale, StopForExit

\* So do the failures, a kill between the two halves of the save included.
LEMMA RestartFailure ==
    ASSUME CPTypeOK, CPTypeOK', NEW h \in Hosts, HostRestartInv(h), Failure(h)
    PROVE  HostRestartInv(h)'
  <1>0. PanelKeeps /\ PanelTypeOK'
      BY HostKeeps DEF CPTypeOK
  <1> USE DEF agentVars, replyVars, procVars, nonceVars, Goto
  <1>1. CASE HeartbeatLost(h) \/ SyncLost(h)
      BY <1>1 DEF HeartbeatLost, SyncLost, HostRestartInv, RequestOutstanding,
                  CPTypeOK, panelVars
  <1>2. CASE SaveFails(h)
      BY <1>2 DEF SaveFails, HostRestartInv, RequestOutstanding, CPTypeOK,
                  panelVars
  <1>3. ASSUME NEW i \in pending[h],
               \/ SkipItem(h, i) \/ StopForNoNetwork(h, i)
               \/ FirewallFails(h, i) \/ LaunchFails(h, i)
        PROVE  HostRestartInv(h)'
      BY <1>0, <1>3, RestartFrame
      DEF SkipItem, StopForNoNetwork, FirewallFails, LaunchFails, ItemDone
  <1>4. ASSUME NEW i \in pending[h], AbortItem(h, i) PROVE HostRestartInv(h)'
      BY <1>4 DEF AbortItem, NextItem, HostRestartInv, RequestOutstanding,
                  CPTypeOK, panelVars
  <1>5. ASSUME NEW t \in TunnelIds, ProcExits(h, t) PROVE HostRestartInv(h)'
      BY <1>0, <1>5, RestartFrame DEF ProcExits
  <1>6. CASE SigTerm(h)
      BY <1>0, <1>6, RestartFrame DEF SigTerm, Signalled, CPTypeOK
  <1>7. CASE CrashAgent(h) \/ Reboot(h)
      BY <1>7 DEF CrashAgent, Reboot, Killed, HostRestartInv,
                  RequestOutstanding, CPTypeOK, panelVars
  <1> QED
      BY <1>1, <1>2, <1>3, <1>4, <1>5, <1>6, <1>7 DEF Failure

\* Enrolling a host with another node keeps its part of the invariant.
LEMMA RestartInstall ==
    ASSUME CPTypeOK, CPTypeOK', RestartInv, NEW h \in Hosts, NEW n \in NodeIds,
           Install(h, n)
    PROVE  RestartInv'
  <1>0. PanelKeeps /\ PanelTypeOK'
      BY UnchangedKeeps DEF CPTypeOK, Install
  <1>1. HostRestartInv(h)'
    <2>1. /\ agentJson'[h] = n /\ n \in everNodes
          /\ lastTaken'[h] = 0
          /\ pc[h] # "down" => shutdown'[h]
          /\ UNCHANGED <<nodes, everNodes, token, pc, wanted, memNonce, fileNonce>>
        BY DEF Install, Signalled, CPTypeOK, PanelTypeOK, panelVars, replyVars
    <2>2. HostRestartInv(h)
        BY DEF RestartInv
    <2>3. /\ wanted[h] \in Nat /\ memNonce[h] \in Nat /\ fileNonce[h] \in Nat
        BY DEF CPTypeOK
    <2> QED
        BY <2>1, <2>2, <2>3 DEF HostRestartInv
  <1>2. ASSUME NEW g \in Hosts, g # h PROVE HostRestartInv(g)'
      BY <1>0, <1>2, RestartFrame
      DEF Install, Signalled, RestartInv, CPTypeOK, replyVars
  <1> QED
      BY <1>1, <1>2 DEF RestartInv

\* Whenever the nonce file or the agent's memory is behind the last request
\* honoured, as after a save that was interrupted, a newer request is
\* outstanding in the panel: file and memory are tied to its counter whatever
\* fails and whenever the agent is killed.
THEOREM RestartInvariant == Spec => []RestartInv
  <1>1. Init => RestartInv
      BY DEF Init, PanelInit, RestartInv, HostRestartInv, RequestOutstanding
  <1>2. CPTypeOK /\ CPTypeOK' /\ RestartInv /\ [Next]_vars => RestartInv'
    <2> SUFFICES ASSUME CPTypeOK, CPTypeOK', RestartInv, [Next]_vars
                 PROVE  RestartInv'
        OBVIOUS
    <2>1. ASSUME PanelKeeps,
                 UNCHANGED <<agentJson, agentVars, replyVars, nonceVars>>
          PROVE  RestartInv'
        BY <2>1, RestartFrame
        DEF RestartInv, agentVars, replyVars, nonceVars, CPTypeOK
    <2>2. CASE UNCHANGED vars
        BY <2>1, <2>2, UnchangedKeeps DEF vars, CPTypeOK
    <2>3. CASE Operator
        BY <2>1, <2>3, OperatorKeeps DEF Operator, CPTypeOK
    <2>4. ASSUME NEW h \in Hosts, AgentStep(h) \/ Failure(h) PROVE RestartInv'
        BY <2>4, HostKeeps, RestartOthers, RestartAgentStep, RestartFailure
        DEF RestartInv
    <2> QED
        BY <2>2, <2>3, <2>4, RestartInstall DEF Next
  <1> QED
      BY <1>1, <1>2, TypeCorrect, PTL DEF Spec

\* Every agent honours a restart request of its node at most once, whatever
\* fails and whenever it is killed: the requests it takes only grow. The
\* nonce file alone does not show it, since the save empties it first.
THEOREM RestartAtMostOnce == Spec => []NoRestartLoop
  <1>1. RestartInv => NoRestartLoop
      BY DEF RestartInv, HostRestartInv, NoRestartLoop
  <1> QED
      BY <1>1, RestartInvariant, PTL
=============================================================================
