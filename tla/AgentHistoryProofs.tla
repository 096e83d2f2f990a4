--------------------------- MODULE AgentHistoryProofs ---------------------------
(***************************************************************************)
(* What an agent was told to run is what its host runs: the proofs of      *)
(* AnswerInForce and UpToDateKeptRunning for every set of failures, and    *)
(* what follows for a host that no failure has met since its last sync.    *)
(***************************************************************************)
EXTENDS AgentHistory, ControlPlaneProofs

-----------------------------------------------------------------------------
(* The inductive invariant *)

\* No answer names a tunnel twice.
OneItemEach(items) ==
    \A i, j \in items : i.tunnel_id = j.tunnel_id => i = j

\* A process is kept under the tunnel of its item.
Keyed(h) == \A t \in DOMAIN procs[h] : procs[h][t].item.tunnel_id = t

\* While an answer is applied, each of its items is still to come or its
\* tunnel is in active_ids, and never both; active_ids has no others.
Progress(h) ==
    pc[h] = "apply" =>
        /\ pending[h] \subseteq answer[h]
        /\ active[h] = Ids(answer[h]) \ Ids(pending[h])

\* An agent that is down holds nothing.
Holds(h) == pc[h] = "down" => procs[h] = NoProcs /\ answer[h] = {}

\* The two halves of AnswerInForce for one host.
Runs(h) ==
    pc[h] # "exit" =>
        \A i \in answer[h] :
           \/ i.tunnel_id \in spoilt[h]
           \/ pc[h] = "apply" /\ i \in pending[h]
           \/ InForce(h, i)

RunsNoOther(h) ==
    pc[h] \notin {"exit", "apply"}
        => DOMAIN procs[h] \ spoilt[h] \subseteq Ids(answer[h])

\* Why AnswerInForce and UpToDateKeptRunning hold: the first two parts and
\* Keyed say that the agent never relaunches or removes a tunnel that runs
\* as answered, Holds that an agent that starts has nothing to account for.
HostAnswerInv(h) ==
    /\ OneItemEach(answer[h])
    /\ Progress(h)
    /\ Keyed(h)
    /\ Holds(h)
    /\ Runs(h)
    /\ RunsNoOther(h)

AnswerInv == HTypeOK /\ \A h \in Hosts : HostAnswerInv(h)

-----------------------------------------------------------------------------
(* Lemmas about one step *)

\* What Record does to the account of the host that steps, and to others.
LEMMA RecordHere ==
    ASSUME HTypeOK, NEW h \in Hosts, NEW hit, Record(h, hit)
    PROVE  /\ \A g \in Hosts \ {h} : answer'[g] = answer[g] /\ spoilt'[g] = spoilt[g]
           /\ pc'[h] = "down" => answer'[h] = {} /\ spoilt'[h] = {}
           /\ pc[h] = "sync" /\ pc'[h] = "apply"
                 => answer'[h] = pending'[h] /\ spoilt'[h] = {}
           /\ pc'[h] # "down" /\ ~ (pc[h] = "sync" /\ pc'[h] = "apply")
                 => answer'[h] = answer[h] /\ spoilt'[h] = spoilt[h] \cup hit
    BY DEF HTypeOK, Record

\* The account keeps its type.
LEMMA RecordType ==
    ASSUME HTypeOK, CPTypeOK', NEW h \in Hosts, NEW hit \in SUBSET TunnelIds,
           Record(h, hit)
    PROVE  HTypeOK'
    BY DEF HTypeOK, CPTypeOK, Record

\* A failure meets tunnels.
LEMMA HitType == ASSUME NEW h PROVE Hit(h) \in SUBSET TunnelIds
    BY DEF Hit

\* The invariant of a host depends on six of its variables.
LEMMA AnswerFrame ==
    ASSUME NEW h \in Hosts, HostAnswerInv(h),
           pc'[h] = pc[h], procs'[h] = procs[h], pending'[h] = pending[h],
           active'[h] = active[h], answer'[h] = answer[h], spoilt'[h] = spoilt[h]
    PROVE  HostAnswerInv(h)'
    BY DEF HostAnswerInv, Progress, Keyed, Holds, Runs, RunsNoOther, InForce

\* A step of one host leaves the agents of the others alone.
LEMMA OthersAlone ==
    ASSUME CPTypeOK, NEW h \in Hosts, NEW g \in Hosts, g # h,
           AgentStep(h) \/ Failure(h) \/ \E n \in NodeIds : Install(h, n)
    PROVE  /\ pc'[g] = pc[g] /\ procs'[g] = procs[g]
           /\ pending'[g] = pending[g] /\ active'[g] = active[g]
  <1> USE DEF CPTypeOK, ProcsOK, agentVars, replyVars, procVars, Goto
  <1>1. CASE StartAgent(h)
      BY <1>1 DEF StartAgent
  <1>2. CASE Heartbeat(h) \/ Sync(h) \/ SyncRefused(h)
      BY <1>2 DEF Heartbeat, Sync, SyncRefused
  <1>3. ASSUME NEW i \in pending[h], KeepItem(h, i) \/ LaunchItem(h, i)
        PROVE  UNCHANGED <<pc[g], procs[g], pending[g], active[g]>>
      BY <1>3 DEF KeepItem, LaunchItem, ItemDone
  <1>4. CASE \E t \in TunnelIds : StopTunnel(h, t)
      BY <1>4 DEF StopTunnel
  <1>5. CASE NoRestart(h) \/ TruncateNonce(h) \/ SaveNonce(h)
      BY <1>5 DEF NoRestart, TruncateNonce, SaveNonce
  <1>6. CASE EndIteration(h) \/ Exit(h)
      BY <1>6 DEF EndIteration, Exit
  <1>7. CASE Failure(h)
      BY <1>7 DEF Failure, HeartbeatLost, SyncLost, SaveFails, SkipItem,
                  StopForNoNetwork, FirewallFails, LaunchFails, AbortItem,
                  ItemDone, ProcExits, SigTerm, Signalled, CrashAgent,
                  Reboot, Killed
  <1>8. CASE \E n \in NodeIds : Install(h, n)
      BY <1>8 DEF Install, Signalled
  <1> QED
      BY <1>1, <1>2, <1>3, <1>4, <1>5, <1>6, <1>7, <1>8
      DEF AgentStep, RemoveStale, StopForExit

\* The panel's answer names every tunnel once: a node is given either the
\* listening or the dialing side of it.
LEMMA AnswerOnce == ASSUME NEW n PROVE OneItemEach(SyncItems(n))
    BY DEF OneItemEach, SyncItems, SyncItem

\* An agent that goes on from one part of its loop to another, outside the
\* apply, keeps what it runs.
LEMMA AnswerMoves ==
    ASSUME NEW h \in Hosts, HostAnswerInv(h),
           pc[h] \notin {"apply", "exit"}, pc'[h] \notin {"apply", "down"},
           procs'[h] = procs[h], answer'[h] = answer[h],
           spoilt[h] \subseteq spoilt'[h]
    PROVE  HostAnswerInv(h)'
    BY DEF HostAnswerInv, Progress, Keyed, Holds, Runs, RunsNoOther, InForce

\* Processes that die, with their agent or alone, are accounted for.
LEMMA AnswerDies ==
    ASSUME CPTypeOK, NEW h \in Hosts, HostAnswerInv(h),
           pc'[h] = pc[h], pending'[h] = pending[h], active'[h] = active[h],
           DOMAIN procs'[h] = DOMAIN procs[h], pc[h] # "down",
           \A t \in DOMAIN procs[h] :
              \/ procs'[h][t] = procs[h][t]
              \/ procs'[h][t].item = procs[h][t].item /\ ~ procs'[h][t].alive,
           answer'[h] = answer[h], spoilt'[h] = spoilt[h] \cup Hit(h)
    PROVE  HostAnswerInv(h)'
  <1>1. Keyed(h)'
      BY DEF HostAnswerInv, Keyed
  <1>2. ASSUME NEW i \in answer[h], InForce(h, i), ~ InForce(h, i)'
        PROVE  i.tunnel_id \in spoilt'[h]
    <2>1. i.tunnel_id \in TunnelIds
        BY <1>2 DEF InForce, CPTypeOK, ProcsOK, IsProcTable
    <2>2. Ends(h, i.tunnel_id)
        BY <1>2 DEF InForce, Ends
    <2> QED
        BY <2>1, <2>2 DEF Hit
  <1>3. Runs(h)'
      BY <1>2 DEF HostAnswerInv, Runs
  <1> QED
      BY <1>1, <1>3 DEF HostAnswerInv, Progress, Holds, RunsNoOther

\* Taking an item of an answer, launched, kept or passed over: the process
\* table may change in the item's tunnel only, and unless the item's tunnel
\* is in force the failure is recorded.
LEMMA AnswerItem ==
    ASSUME CPTypeOK, NEW h \in Hosts, HostAnswerInv(h), NEW i \in pending[h],
           pc[h] = "apply", pc'[h] = "apply",
           pending'[h] = pending[h] \ {i},
           active'[h] = active[h] \cup {i.tunnel_id},
           answer'[h] = answer[h], spoilt[h] \subseteq spoilt'[h],
           DOMAIN procs'[h] \ {i.tunnel_id} = DOMAIN procs[h] \ {i.tunnel_id},
           \A t \in DOMAIN procs[h] \ {i.tunnel_id} : procs'[h][t] = procs[h][t],
           Keyed(h)',
           InForce(h, i)' \/ i.tunnel_id \in spoilt'[h]
    PROVE  HostAnswerInv(h)'
  <1>1. /\ OneItemEach(answer[h]) /\ pending[h] \subseteq answer[h]
        /\ active[h] = Ids(answer[h]) \ Ids(pending[h])
      BY DEF HostAnswerInv, Progress
  <1>2. Progress(h)'
    <2>1. Ids(pending'[h]) = Ids(pending[h]) \ {i.tunnel_id}
        BY <1>1 DEF Ids, OneItemEach
    <2>2. i.tunnel_id \in Ids(answer[h])
        BY <1>1 DEF Ids
    <2>3. \A all, left, t : t \in all => (all \ left) \cup {t} = all \ (left \ {t})
        OBVIOUS
    <2>4. active'[h] = Ids(answer[h]) \ Ids(pending'[h])
        BY <1>1, <2>1, <2>2, <2>3
    <2>5. pending'[h] \subseteq answer[h]
        BY <1>1
    <2> QED
        BY <2>4, <2>5 DEF Progress
  <1>3. Runs(h)'
    <2> SUFFICES ASSUME NEW j \in answer[h], j.tunnel_id \notin spoilt'[h],
                        j \notin pending'[h]
                 PROVE  InForce(h, j)'
        BY DEF Runs
    <2>1. CASE j = i
        BY <2>1
    <2>2. CASE j # i
      <3>1. j.tunnel_id # i.tunnel_id
          BY <1>1, <2>2 DEF OneItemEach
      <3>2. InForce(h, j)
          BY <2>2 DEF HostAnswerInv, Runs
      <3> QED
          BY <3>1, <3>2 DEF InForce
    <2> QED
        BY <2>1, <2>2
  <1> QED
      BY <1>2, <1>3 DEF HostAnswerInv, Holds, RunsNoOther

\* Launching an item puts it into force, and stopping a tunnel touches no
\* other one.
LEMMA LaunchKeyed ==
    ASSUME NEW ps, NEW i, \A t \in DOMAIN ps : ps[t].item.tunnel_id = t
    PROVE  LET new == Upsert(ps, i.tunnel_id, [item |-> i, alive |-> TRUE])
               old == DeleteRow(ps, i.tunnel_id)
           IN  /\ DOMAIN new = DOMAIN ps \cup {i.tunnel_id}
               /\ new[i.tunnel_id] = [item |-> i, alive |-> TRUE]
               /\ \A t \in DOMAIN ps \ {i.tunnel_id} : new[t] = ps[t]
               /\ \A t \in DOMAIN new : new[t].item.tunnel_id = t
               /\ DOMAIN old = DOMAIN ps \ {i.tunnel_id}
               /\ \A t \in DOMAIN old : old[t] = ps[t]
    BY DEF Upsert, DeleteRow

\* The steps of an agent leave its host as the answer says.
LEMMA AnswerAgentStep ==
    ASSUME CPTypeOK, AnswerInv, NEW h \in Hosts, AgentStep(h), Record(h, {})
    PROVE  HostAnswerInv(h)'
  <1>0. HostAnswerInv(h) /\ HTypeOK /\ DOMAIN procs = Hosts
      BY DEF AnswerInv, CPTypeOK, ProcsOK
  <1> USE DEF agentVars, replyVars, procVars, Goto
  <1>1. CASE StartAgent(h)
    <2>1. /\ pc[h] = "down" /\ pc'[h] = "heartbeat" /\ procs'[h] = procs[h]
        BY <1>1 DEF StartAgent, CPTypeOK
    <2> QED
        BY <1>0, <2>1, RecordHere, AnswerMoves
  <1>2. CASE Heartbeat(h) \/ SyncRefused(h) \/ SaveNonce(h) \/ EndIteration(h)
    <2>1. /\ pc[h] \notin {"apply", "exit"} /\ pc'[h] \notin {"apply", "down"}
          /\ procs'[h] = procs[h]
        BY <1>2 DEF Heartbeat, SyncRefused, SaveNonce, EndIteration, CPTypeOK
    <2> QED
        BY <1>0, <2>1, RecordHere, AnswerMoves
  <1>3. CASE Sync(h)
    <2>1. /\ pc[h] = "sync" /\ pc'[h] = "apply" /\ procs'[h] = procs[h]
          /\ pending'[h] = SyncItems(token[h]) /\ active'[h] = {}
        BY <1>3 DEF Sync, CPTypeOK
    <2>2. answer'[h] = pending'[h]
        BY <1>0, <2>1, RecordHere
    <2> QED
        BY <1>0, <2>1, <2>2, AnswerOnce
        DEF HostAnswerInv, Progress, Keyed, Holds, Runs, RunsNoOther
  <1>4. ASSUME NEW i \in pending[h], KeepItem(h, i) \/ LaunchItem(h, i)
        PROVE  HostAnswerInv(h)'
    <2>1. /\ pc[h] = "apply" /\ pc'[h] = "apply"
          /\ pending'[h] = pending[h] \ {i}
          /\ active'[h] = active[h] \cup {i.tunnel_id}
        BY <1>4 DEF KeepItem, LaunchItem, NextItem, ItemDone, CPTypeOK
    <2>2. answer'[h] = answer[h] /\ spoilt[h] \subseteq spoilt'[h]
        BY <1>0, <2>1, RecordHere
    <2>3. CASE KeepItem(h, i)
      <3>1. procs'[h] = procs[h] /\ UpToDate(h, i)
          BY <1>0, <2>3 DEF KeepItem, ItemDone
      <3>2. procs[h][i.tunnel_id] \in Process
          BY <3>1 DEF UpToDate, CPTypeOK, ProcsOK, IsProcTable
      <3>3. InForce(h, i)'
          BY <3>1, <3>2 DEF UpToDate, InForce, Process
      <3>4. Keyed(h)'
          BY <1>0, <3>1 DEF HostAnswerInv, Keyed
      <3>5. /\ DOMAIN procs'[h] = DOMAIN procs[h]
            /\ \A t \in DOMAIN procs[h] : procs'[h][t] = procs[h][t]
          BY <3>1
      <3> QED
          BY <1>0, <2>1, <2>2, <3>3, <3>4, <3>5, AnswerItem
    <2>4. CASE LaunchItem(h, i)
      <3> DEFINE new == Upsert(procs[h], i.tunnel_id, [item |-> i, alive |-> TRUE])
      <3>1. procs'[h] = new
          BY <1>0, <2>4 DEF LaunchItem, ItemDone
      <3>2. /\ DOMAIN new = DOMAIN procs[h] \cup {i.tunnel_id}
            /\ new[i.tunnel_id] = [item |-> i, alive |-> TRUE]
            /\ \A t \in DOMAIN procs[h] \ {i.tunnel_id} : new[t] = procs[h][t]
            /\ \A t \in DOMAIN new : new[t].item.tunnel_id = t
        <4>1. \A t \in DOMAIN procs[h] : procs[h][t].item.tunnel_id = t
            BY <1>0 DEF HostAnswerInv, Keyed
        <4> QED
            BY <4>1, LaunchKeyed
      <3> HIDE DEF new
      <3>3. Keyed(h)' /\ InForce(h, i)'
          BY <3>1, <3>2 DEF Keyed, InForce
      <3> QED
          BY <1>0, <2>1, <2>2, <3>1, <3>2, <3>3, AnswerItem
    <2> QED
        BY <1>4, <2>3, <2>4
  <1>5. ASSUME NEW t \in TunnelIds, RemoveStale(h, t) \/ StopForExit(h, t)
        PROVE  HostAnswerInv(h)'
    <2>1. /\ pc'[h] = pc[h] /\ pc[h] \in {"apply", "exit"}
          /\ pending'[h] = pending[h] /\ active'[h] = active[h]
          /\ procs'[h] = DeleteRow(procs[h], t)
          /\ pc[h] = "apply" => pending[h] = {} /\ t \notin active[h]
        BY <1>0, <1>5 DEF RemoveStale, StopForExit, StopTunnel, StopProcs, Stale
    <2>2. answer'[h] = answer[h] /\ spoilt[h] \subseteq spoilt'[h]
        BY <1>0, <2>1, RecordHere
    <2>3. /\ DOMAIN procs'[h] = DOMAIN procs[h] \ {t}
          /\ \A u \in DOMAIN procs'[h] : procs'[h][u] = procs[h][u]
        BY <2>1 DEF DeleteRow
    <2>4. ASSUME pc[h] = "apply", NEW i \in answer[h] PROVE i.tunnel_id # t
        BY <1>0, <2>1, <2>4 DEF HostAnswerInv, Progress, Ids
    <2>5. Runs(h)'
        BY <1>0, <2>1, <2>2, <2>3, <2>4 DEF HostAnswerInv, Runs, InForce
    <2>6. Keyed(h)'
        BY <1>0, <2>3 DEF HostAnswerInv, Keyed
    <2> QED
        BY <1>0, <2>1, <2>2, <2>5, <2>6
        DEF HostAnswerInv, Progress, Holds, RunsNoOther
  <1>6. CASE NoRestart(h) \/ TruncateNonce(h)
    <2>1. /\ pc[h] = "apply" /\ pc'[h] \in {"end", "save"}
          /\ pending[h] = {} /\ DOMAIN procs[h] \subseteq active[h]
          /\ procs'[h] = procs[h]
        BY <1>0, <1>6 DEF NoRestart, TruncateNonce, Applied, Stale, CPTypeOK
    <2>2. answer'[h] = answer[h] /\ spoilt[h] \subseteq spoilt'[h]
        BY <1>0, <2>1, RecordHere
    <2>3. DOMAIN procs[h] \subseteq Ids(answer[h])
        BY <1>0, <2>1 DEF HostAnswerInv, Progress
    <2> QED
        BY <1>0, <2>1, <2>2, <2>3
        DEF HostAnswerInv, Progress, Keyed, Holds, Runs, RunsNoOther, InForce
  <1>7. CASE Exit(h)
    <2>1. /\ pc'[h] = "down" /\ procs'[h] = procs[h] /\ DOMAIN procs[h] = {}
        BY <1>0, <1>7 DEF Exit, CPTypeOK
    <2>2. procs'[h] = NoProcs
        BY <2>1 DEF CPTypeOK, ProcsOK, IsProcTable, NoProcs
    <2> QED
        BY <1>0, <2>1, <2>2, RecordHere
        DEF HostAnswerInv, OneItemEach, Progress, Keyed, Holds, Runs, RunsNoOther
  <1> QED
      BY <1>1, <1>2, <1>3, <1>4, <1>5, <1>6, <1>7 DEF AgentStep

\* A failure that takes an item of the answer from the list leaves the
\* tunnel's process alone or stops it.
LEMMA AnswerPassed ==
    ASSUME CPTypeOK, AnswerInv, NEW h \in Hosts, NEW i \in pending[h],
           Record(h, Hit(h)),
           \/ SkipItem(h, i) \/ StopForNoNetwork(h, i)
           \/ FirewallFails(h, i) \/ LaunchFails(h, i)
    PROVE  HostAnswerInv(h)'
  <1>0. HostAnswerInv(h) /\ HTypeOK /\ DOMAIN procs = Hosts
      BY DEF AnswerInv, CPTypeOK, ProcsOK
  <1>1. /\ pc[h] = "apply" /\ pc'[h] = "apply"
        /\ pending'[h] = pending[h] \ {i}
        /\ active'[h] = active[h] \cup {i.tunnel_id}
        /\ procs'[h] \in {procs[h], DeleteRow(procs[h], i.tunnel_id)}
      BY <1>0 DEF SkipItem, StopForNoNetwork, FirewallFails, LaunchFails, NextItem,
             ItemDone, StopProcs, agentVars, CPTypeOK
  <1>2. answer'[h] = answer[h] /\ spoilt'[h] = spoilt[h] \cup Hit(h)
      BY <1>0, <1>1, RecordHere
  <1>3. /\ DOMAIN procs'[h] \ {i.tunnel_id} = DOMAIN procs[h] \ {i.tunnel_id}
        /\ \A t \in DOMAIN procs'[h] : /\ t \in DOMAIN procs[h]
                                       /\ procs'[h][t] = procs[h][t]
      BY <1>1 DEF DeleteRow
  <1>4. Keyed(h)'
      BY <1>0, <1>3 DEF HostAnswerInv, Keyed
  <1>5. ASSUME i.tunnel_id \notin spoilt'[h] PROVE InForce(h, i)'
    <2>1. i.tunnel_id \in TunnelIds
        BY DEF CPTypeOK, Item
    <2>2. UpToDate(h, i) /\ ~ Ends(h, i.tunnel_id)
        BY <1>1, <1>2, <1>5, <2>1 DEF Hit
    <2>3. /\ i.tunnel_id \in DOMAIN procs'[h]
          /\ procs'[h][i.tunnel_id].item = i /\ procs'[h][i.tunnel_id].alive
        BY <1>3, <2>2 DEF UpToDate, Ends
    <2>4. procs'[h][i.tunnel_id] \in Process
        BY <1>3, <2>3 DEF CPTypeOK, ProcsOK, IsProcTable
    <2> QED
        BY <2>3, <2>4 DEF InForce, Process
  <1> QED
      BY <1>0, <1>1, <1>2, <1>3, <1>4, <1>5, AnswerItem

\* A configuration file that cannot be written ends the apply; what it had
\* done stays in force.
LEMMA AnswerAborted ==
    ASSUME CPTypeOK, AnswerInv, NEW h \in Hosts, NEW i \in pending[h],
           Record(h, Hit(h)), AbortItem(h, i)
    PROVE  HostAnswerInv(h)'
  <1>0. HostAnswerInv(h) /\ HTypeOK /\ DOMAIN procs = Hosts
      BY DEF AnswerInv, CPTypeOK, ProcsOK
  <1>1. /\ pc[h] = "apply" /\ pc'[h] = "end"
        /\ procs'[h] \in {procs[h], DeleteRow(procs[h], i.tunnel_id)}
      BY <1>0 DEF AbortItem, NextItem, Goto, StopProcs, procVars, CPTypeOK
  <1>2. answer'[h] = answer[h] /\ spoilt'[h] = spoilt[h] \cup Hit(h)
      BY <1>0, <1>1, RecordHere
  <1>3. \A t \in DOMAIN procs'[h] : /\ t \in DOMAIN procs[h]
                                    /\ procs'[h][t] = procs[h][t]
      BY <1>1 DEF DeleteRow
  <1>4. TunnelIds \ active[h] \subseteq spoilt'[h]
      BY <1>1, <1>2 DEF Hit
  <1>5. /\ answer[h] \subseteq Item /\ DOMAIN procs[h] \subseteq TunnelIds
        /\ active[h] = Ids(answer[h]) \ Ids(pending[h])
      BY <1>0, <1>1
      DEF HTypeOK, CPTypeOK, ProcsOK, IsProcTable, HostAnswerInv, Progress
  <1>6. ASSUME NEW j \in answer[h], j.tunnel_id \notin spoilt'[h]
        PROVE  InForce(h, j)'
    <2>1. j.tunnel_id \in TunnelIds
        BY <1>5 DEF Item
    <2>2. j.tunnel_id \in active[h]
        BY <1>4, <1>6, <2>1
    <2>3. j.tunnel_id \notin Ids(pending[h])
        BY <1>5, <2>2
    <2>4. j \notin pending[h] /\ j.tunnel_id # i.tunnel_id
        BY <2>3 DEF Ids
    <2>5. InForce(h, j)
        BY <1>0, <1>1, <1>2, <1>6, <2>4 DEF HostAnswerInv, Runs
    <2> QED
        BY <1>1, <2>4, <2>5 DEF InForce, DeleteRow
  <1>7. RunsNoOther(h)'
    <2>1. DOMAIN procs'[h] \ spoilt'[h] \subseteq active[h]
        BY <1>3, <1>4, <1>5
    <2> QED
        BY <1>2, <1>5, <2>1 DEF RunsNoOther
  <1>8. Runs(h)' /\ Keyed(h)'
      BY <1>0, <1>2, <1>3, <1>6 DEF Runs, HostAnswerInv, Keyed
  <1> QED
      BY <1>0, <1>1, <1>2, <1>7, <1>8 DEF HostAnswerInv, Progress, Holds

\* An agent that is killed leaves neither processes nor an answer.
LEMMA AnswerKilled ==
    ASSUME CPTypeOK, AnswerInv, NEW h \in Hosts, NEW hit, Record(h, hit), Killed(h)
    PROVE  HostAnswerInv(h)'
  <1>1. pc'[h] = "down" /\ procs'[h] = NoProcs
      BY DEF Killed, Goto, CPTypeOK, ProcsOK
  <1>2. answer'[h] = {}
      BY <1>1, RecordHere DEF AnswerInv
  <1> QED
      BY <1>1, <1>2
      DEF HostAnswerInv, OneItemEach, Progress, Keyed, Holds, Runs, RunsNoOther,
          NoProcs, InForce

\* A process that dies keeps its item.
LEMMA DeadRow ==
    ASSUME NEW ps, IsProcTable(ps), NEW t \in DOMAIN ps
    PROVE  LET dead == [ps[t] EXCEPT !.alive = FALSE]
           IN  dead.item = ps[t].item /\ ~ dead.alive
    BY DEF IsProcTable, Process

\* A signal to the control group kills what the agent runs.
LEMMA AnswerSignalled ==
    ASSUME CPTypeOK, AnswerInv, NEW h \in Hosts, Record(h, Hit(h)), Signalled(h),
           UNCHANGED replyVars
    PROVE  HostAnswerInv(h)'
  <1>0. HostAnswerInv(h) /\ HTypeOK /\ DOMAIN procs = Hosts
      BY DEF AnswerInv, CPTypeOK, ProcsOK
  <1>1. /\ pc'[h] = pc[h] /\ pending'[h] = pending[h] /\ active'[h] = active[h]
        /\ procs'[h] = [t \in DOMAIN procs[h] |->
                           [procs[h][t] EXCEPT !.alive = FALSE]]
      BY <1>0 DEF Signalled, replyVars
  <1>2. /\ DOMAIN procs'[h] = DOMAIN procs[h]
        /\ \A t \in DOMAIN procs[h] :
              procs'[h][t].item = procs[h][t].item /\ ~ procs'[h][t].alive
    <2>1. IsProcTable(procs[h])
        BY DEF CPTypeOK, ProcsOK
    <2> QED
        BY <1>1, <2>1, DeadRow
  <1>3. CASE pc[h] = "down"
    <2>1. procs'[h] = procs[h] /\ procs[h] = NoProcs /\ answer[h] = {}
        BY <1>0, <1>1, <1>3 DEF HostAnswerInv, Holds, NoProcs
    <2>2. answer'[h] = {}
        BY <1>0, <1>1, <1>3, RecordHere
    <2> QED
        BY <1>1, <1>3, <2>1, <2>2
        DEF HostAnswerInv, OneItemEach, Progress, Keyed, Holds, Runs,
            RunsNoOther, NoProcs
  <1>4. CASE pc[h] # "down"
    <2>1. answer'[h] = answer[h] /\ spoilt'[h] = spoilt[h] \cup Hit(h)
        BY <1>0, <1>1, <1>4, RecordHere
    <2> QED
        BY <1>0, <1>1, <1>2, <1>4, <2>1, AnswerDies
  <1> QED
      BY <1>3, <1>4

\* No failure leaves a host with something else than the answer says, but
\* in the tunnels it meets.
LEMMA AnswerFailure ==
    ASSUME CPTypeOK, AnswerInv, NEW h \in Hosts, Failure(h), Record(h, Hit(h))
    PROVE  HostAnswerInv(h)'
  <1>0. HostAnswerInv(h) /\ HTypeOK /\ DOMAIN procs = Hosts
      BY DEF AnswerInv, CPTypeOK, ProcsOK
  <1>1. CASE HeartbeatLost(h) \/ SyncLost(h) \/ SaveFails(h)
    <2>1. /\ pc[h] \notin {"apply", "exit"} /\ pc'[h] \in {"sync", "end"}
          /\ procs'[h] = procs[h]
        BY <1>1 DEF HeartbeatLost, SyncLost, SaveFails, Goto, procVars, CPTypeOK
    <2> QED
        BY <1>0, <2>1, RecordHere, AnswerMoves
  <1>2. ASSUME NEW t \in TunnelIds, ProcExits(h, t) PROVE HostAnswerInv(h)'
    <2>1. /\ pc'[h] = pc[h] /\ pending'[h] = pending[h] /\ active'[h] = active[h]
          /\ procs'[h] = [procs[h] EXCEPT ![t].alive = FALSE]
          /\ t \in DOMAIN procs[h]
        BY <1>0, <1>2 DEF ProcExits, agentVars, replyVars
    <2>2. /\ DOMAIN procs'[h] = DOMAIN procs[h]
          /\ \A u \in DOMAIN procs[h] :
                \/ procs'[h][u] = procs[h][u]
                \/ procs'[h][u].item = procs[h][u].item /\ ~ procs'[h][u].alive
      <3>1. IsProcTable(procs[h])
          BY DEF CPTypeOK, ProcsOK
      <3> QED
          BY <2>1, <3>1, DeadRow DEF IsProcTable
    <2>3. pc[h] # "down"
        BY <1>0, <2>1 DEF HostAnswerInv, Holds, NoProcs
    <2>4. answer'[h] = answer[h] /\ spoilt'[h] = spoilt[h] \cup Hit(h)
        BY <1>0, <2>1, <2>3, RecordHere
    <2> QED
        BY <1>0, <2>1, <2>2, <2>3, <2>4, AnswerDies
  <1>3. CASE SigTerm(h)
      BY <1>3, AnswerSignalled DEF SigTerm
  <1>4. CASE CrashAgent(h) \/ Reboot(h)
      BY <1>4, AnswerKilled DEF CrashAgent, Reboot
  <1> QED
      BY <1>1, <1>2, <1>3, <1>4, AnswerPassed, AnswerAborted DEF Failure

-----------------------------------------------------------------------------
(* The theorems *)

\* The history variables only watch.
LEMMA WatchesOnly == HSpec => Spec
  <1>1. HInit => Init
      BY DEF HInit
  <1>2. [HNext]_hvars => [Next]_vars
      BY DEF HNext, Next, hvars
  <1> QED
      BY <1>1, <1>2, PTL DEF HSpec, Spec

\* The account of every host is right, whatever fails.
THEOREM AnswerInvariant == HSpec => []AnswerInv
  <1>1. HInit => AnswerInv
      BY DEF HInit, Init, AnswerInv, HTypeOK, HostAnswerInv, OneItemEach, Progress,
             Keyed, Holds, Runs, RunsNoOther, NoProcs
  <1>2. CPTypeOK /\ CPTypeOK' /\ AnswerInv /\ [HNext]_hvars => AnswerInv'
    <2> SUFFICES ASSUME CPTypeOK, CPTypeOK', AnswerInv, [HNext]_hvars
                 PROVE  AnswerInv'
        OBVIOUS
    <2>1. ASSUME UNCHANGED <<pc, procs, pending, active, history>>
          PROVE  AnswerInv'
        BY <2>1, AnswerFrame DEF AnswerInv, HTypeOK, history
    <2>2. ASSUME NEW h \in Hosts, NEW hit \in SUBSET TunnelIds, Record(h, hit),
                 AgentStep(h) \/ Failure(h) \/ \E n \in NodeIds : Install(h, n),
                 HostAnswerInv(h)'
          PROVE  AnswerInv'
      <3>1. HTypeOK'
          BY <2>2, RecordType DEF AnswerInv
      <3>2. ASSUME NEW g \in Hosts, g # h PROVE HostAnswerInv(g)'
          BY <2>2, <3>2, OthersAlone, RecordHere, AnswerFrame DEF AnswerInv
      <3> QED
          BY <2>2, <3>1, <3>2 DEF AnswerInv
    <2>3. ASSUME NEW h \in Hosts, AgentStep(h), Record(h, {}) PROVE AnswerInv'
        BY <2>2, <2>3, AnswerAgentStep
    <2>4. ASSUME NEW h \in Hosts, Failure(h), Record(h, Hit(h)) PROVE AnswerInv'
        BY <2>2, <2>4, AnswerFailure, HitType
    <2>5. ASSUME NEW h \in Hosts, NEW n \in NodeIds, Install(h, n),
                 Record(h, Hit(h))
          PROVE  AnswerInv'
        BY <2>2, <2>5, AnswerSignalled, HitType DEF Install
    <2>6. CASE UNCHANGED hvars
        BY <2>1, <2>6 DEF hvars, vars, agentVars, procVars, replyVars
    <2>7. CASE Operator /\ UNCHANGED history
        BY <2>1, <2>7 DEF Operator, agentVars, procVars, replyVars
    <2> QED
        BY <2>3, <2>4, <2>5, <2>6, <2>7 DEF HNext
  <1> QED
      BY <1>1, <1>2, WatchesOnly, TypeCorrect, PTL DEF HSpec

\* What an agent was last told is what its host runs, in every tunnel that
\* no failure has met since: for any hosts, tunnels and failures, kills and
\* failed process starts included.
THEOREM LastAnswerInForce == HSpec => []AnswerInForce
  <1>1. AnswerInv => AnswerInForce
      BY DEF AnswerInv, HostAnswerInv, Runs, RunsNoOther, AnswerInForce
  <1> QED
      BY <1>1, AnswerInvariant, PTL

\* The panel's answer is in force: the host's node, tunnels and addresses
\* have not changed since it was given, and no failure met a tunnel of the
\* host.
Undisturbed(h) ==
    /\ pc[h] \notin {"apply", "exit", "down"}
    /\ token[h] = agentJson[h]
    /\ answer[h] = SyncItems(agentJson[h])
    /\ spoilt[h] = {}

\* One iteration is enough: a host that nothing disturbed since its agent's
\* last sync runs exactly the tunnels of its node, with their present
\* configuration, and no process of its past. Convergence, which TLC checks,
\* adds that undisturbed iterations come.
THEOREM OneSyncConverges ==
    HSpec => [](\A h \in Hosts : Undisturbed(h) => Converged(h))
  <1>1. ASSUME AnswerInv, NEW h \in Hosts, Undisturbed(h) PROVE Converged(h)
    <2>1. \A i \in answer[h] : InForce(h, i)
        BY <1>1 DEF AnswerInv, HostAnswerInv, Runs, Undisturbed
    <2>2. DOMAIN procs[h] \subseteq Ids(answer[h])
        BY <1>1 DEF AnswerInv, HostAnswerInv, RunsNoOther, Undisturbed
    <2>3. DOMAIN procs[h] = {i.tunnel_id : i \in SyncItems(agentJson[h])}
        BY <1>1, <2>1, <2>2 DEF Ids, InForce, Undisturbed
    <2> QED
        BY <1>1, <2>1, <2>3 DEF Undisturbed, InForce, Converged
  <1>2. AnswerInv => \A h \in Hosts : Undisturbed(h) => Converged(h)
      BY <1>1
  <1> QED
      BY <1>2, AnswerInvariant, PTL

\* The steps of an agent never interrupt a tunnel that runs as answered.
THEOREM NeverInterrupted == HSpec => UpToDateKeptRunning
  <1> DEFINE Kept(h) ==
        pc[h] # "exit" =>
           \A t \in DOMAIN procs[h] :
              procs[h][t].alive /\ procs[h][t].item \in answer[h]
              => t \in DOMAIN procs'[h] /\ procs'[h][t] = procs[h][t]
  <1>1. ASSUME CPTypeOK, AnswerInv, HNext, events' = events
        PROVE  \A h \in Hosts : Kept(h)
    <2>1. ASSUME NEW g \in Hosts, procs'[g] = procs[g] PROVE Kept(g)
        BY <2>1
    <2>2. PICK h \in Hosts : AgentStep(h)
      <3>1. ~ Event
          BY <1>1 DEF Event, CPTypeOK
      <3>2. ASSUME NEW h \in Hosts, Failure(h) PROVE FALSE
          BY <3>1, <3>2
          DEF Failure, HeartbeatLost, SyncLost, SaveFails, SkipItem,
              StopForNoNetwork, FirewallFails, LaunchFails, AbortItem,
              ProcExits, SigTerm, CrashAgent, Reboot, Fault
      <3> QED
          BY <1>1, <3>1, <3>2 DEF HNext, Operator, Install
    <2>3. HostAnswerInv(h) /\ DOMAIN procs = Hosts
        BY <1>1 DEF AnswerInv, CPTypeOK, ProcsOK
    <2>4. ASSUME NEW i \in pending[h], LaunchItem(h, i) PROVE Kept(h)
      <3> SUFFICES ASSUME NEW t \in DOMAIN procs[h], procs[h][t].alive,
                          procs[h][t].item \in answer[h]
                   PROVE  t \in DOMAIN procs'[h] /\ procs'[h][t] = procs[h][t]
          OBVIOUS
      <3>1. /\ pc[h] = "apply" /\ ~ UpToDate(h, i)
            /\ procs'[h] = Upsert(procs[h], i.tunnel_id,
                                  [item |-> i, alive |-> TRUE])
          BY <2>3, <2>4 DEF LaunchItem, NextItem, ItemDone
      <3>2. t # i.tunnel_id
          BY <2>3, <3>1
          DEF HostAnswerInv, Progress, OneItemEach, Keyed, UpToDate
      <3> QED
          BY <3>1, <3>2 DEF Upsert
    <2>5. ASSUME NEW u \in TunnelIds, RemoveStale(h, u) PROVE Kept(h)
      <3> SUFFICES ASSUME NEW t \in DOMAIN procs[h], procs[h][t].alive,
                          procs[h][t].item \in answer[h]
                   PROVE  t \in DOMAIN procs'[h] /\ procs'[h][t] = procs[h][t]
          OBVIOUS
      <3>1. /\ pc[h] = "apply" /\ pending[h] = {} /\ u \notin active[h]
            /\ procs'[h] = DeleteRow(procs[h], u)
          BY <2>3, <2>5 DEF RemoveStale, StopTunnel, StopProcs, Stale
      <3>2. t # u
          BY <2>3, <3>1 DEF HostAnswerInv, Progress, Keyed, Ids
      <3> QED
          BY <3>1, <3>2 DEF DeleteRow
    <2>6. ASSUME NEW u \in TunnelIds, StopForExit(h, u) PROVE Kept(h)
        BY <2>6 DEF StopForExit
    <2>7. Kept(h)
      <3> HIDE DEF Kept
      <3> QED
          BY <2>1, <2>2, <2>3, <2>4, <2>5, <2>6
          DEF AgentStep, StartAgent, Heartbeat, Sync, SyncRefused, KeepItem,
              ItemDone, NoRestart, TruncateNonce, SaveNonce, EndIteration, Exit,
              procVars
    <2> HIDE DEF Kept
    <2> QED
        BY <1>1, <2>1, <2>2, <2>7, OthersAlone
  <1>2. CPTypeOK /\ AnswerInv /\ [HNext]_hvars
           => [events' = events => \A h \in Hosts : Kept(h)]_hvars
    <2> HIDE DEF Kept
    <2> QED
        BY <1>1
  <1> QED
      BY <1>2, WatchesOnly, TypeCorrect, AnswerInvariant, PTL
      DEF HSpec, UpToDateKeptRunning
=============================================================================
