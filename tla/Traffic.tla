------------------------------- MODULE Traffic -------------------------------
(***************************************************************************)
(* The traffic counters of the panel's tunnels (the column bytes_in; of    *)
(* its twin bytes_out only that it makes the collector write is kept). Two *)
(* writers race for them:                                                  *)
(*                                                                         *)
(*   - the agent of the listening node adds what its counters gained since *)
(*     its last look: the packet counter of the tunnel's firewall rule for *)
(*     a Paqet server, /proc/PID/io for the other cores                    *)
(*     (app/static/js/agent.py, track_and_report_traffic);                 *)
(*   - the panel's collector reads all rows, awaits one ss per tunnel and  *)
(*     writes absolute values (app/server.py,                              *)
(*     background_traffic_collector).                                      *)
(*                                                                         *)
(* A report is a POST the agent waits for at most 4 s: it is delivered,    *)
(* lost, or overtaken by the timeout and delivered late. Ports are those   *)
(* the tunnels were created with: what an edit does to a node's rules is   *)
(* ControlPlane's subject.                                                 *)
(***************************************************************************)
EXTENDS Integers

CONSTANTS
    Tunnels,        \* tunnels whose listening node is the modelled host
    CorePort,       \* the port of each tunnel
    FirstCore,      \* the core type each tunnel was created with
    MaxBytes,       \* bound: bytes transferred by all tunnels together
    MaxSocket,      \* bound: bytes ss shows for a tunnel's sockets
    MaxEvents,      \* bound: disturbances of all kinds
    Disturbances    \* kinds of disturbance of the run

Cores == {"paqet", "hawal"}
MaxPort == 65535
TcpPorts == 1 .. MaxPort

ASSUME TrafficAssumption ==
    /\ CorePort \in [Tunnels -> TcpPorts]
    /\ FirstCore \in [Tunnels -> Cores]
    /\ \A t, u \in Tunnels : t # u => CorePort[t] # CorePort[u]
    /\ MaxBytes \in Nat /\ MaxSocket \in Nat /\ MaxEvents \in Nat

Unseen == -1

VARIABLES
    row,        \* the panel's table: core type ("none": deleted) and bytes
    col,        \* the collector: position, rows it read, rows left to do
    stalled,    \* a dashboard connection whose buffer is full and not read
    proc,       \* the agent's processes: core type, running or not
    io,         \* /proc/PID/io of the processes
    rules,      \* tunnels with a rule in raw/PREROUTING
    above,      \* for each rule the rules listed before it
    counter,    \* bytes counted by each rule
    last,       \* _last_paqet_traffic and _last_io
    post,       \* the report the agent waits for
    late,       \* a report whose answer the agent gave up waiting for
    carried,    \* history: bytes that met the rule of a tunnel in pure
    base,       \* history: the part of carried that was never counted, or
                \* Unseen after a disturbance, until the next report
    pure,       \* history: the tunnel was Paqet from its creation
    bytes,      \* history: bytes transferred so far
    events      \* history: disturbances so far

panelVars == <<row, col, stalled>>
hostVars == <<proc, io, rules, above, counter>>
reportVars == <<last, post, late>>
vars == <<row, col, stalled, proc, io, rules, above, counter, last, post, late,
          carried, base, pure, bytes, events>>
bounds == <<bytes, events>>

Zero == [t \in Tunnels |-> 0]
Asleep == [at |-> "sleep", snap |-> Zero, todo |-> {}, changed |-> FALSE]
NoProc == [core |-> "none", alive |-> FALSE]

TrafficTypeOK ==
    /\ row \in [Tunnels -> [core : Cores \cup {"none"}, bytes : Nat]]
    /\ col \in [at : {"sleep", "pass"}, snap : [Tunnels -> Nat],
                todo : SUBSET Tunnels, changed : BOOLEAN]
    /\ stalled \in BOOLEAN
    /\ proc \in [Tunnels -> [core : Cores, alive : BOOLEAN] \cup {NoProc}]
    /\ io \in [Tunnels -> Nat]
    /\ rules \subseteq Tunnels
    /\ above \in [Tunnels -> SUBSET rules] /\ \A t \in Tunnels : t \notin above[t]
    /\ counter \in [Tunnels -> Nat]
    /\ last \in [Tunnels -> [Cores -> Nat \cup {Unseen}]]
    /\ post \in [Tunnels -> Nat]
    /\ late \in [Tunnels -> Nat]
    /\ carried \in [Tunnels -> Nat]
    /\ base \in [Tunnels -> Int]
    /\ pure \subseteq Tunnels
    /\ bytes \in Nat /\ events \in Nat

Init ==
    /\ row = [t \in Tunnels |-> [core |-> FirstCore[t], bytes |-> 0]]
    /\ col = Asleep
    /\ stalled = FALSE
    /\ proc = [t \in Tunnels |-> NoProc]
    /\ io = Zero
    /\ rules = {}
    /\ above = [t \in Tunnels |-> {}]
    /\ counter = Zero
    /\ last = [t \in Tunnels |-> [c \in Cores |-> Unseen]]
    /\ post = Zero
    /\ late = Zero
    /\ carried = Zero
    /\ base = [t \in Tunnels |-> Unseen]
    /\ pure = {t \in Tunnels : FirstCore[t] = "paqet"}
    /\ bytes = 0 /\ events = 0

Disturb(what) ==
    /\ what \in Disturbances
    /\ events < MaxEvents
    /\ events' = events + 1

-----------------------------------------------------------------------------
(* The host: packets, rules and processes *)

\* Packets to the tunnel's port meet its rule, also when no process is left.
CarryPackets(t) ==
    /\ t \in rules /\ bytes < MaxBytes
    /\ counter' = [counter EXCEPT ![t] = @ + 1]
    /\ carried' = IF t \in pure THEN [carried EXCEPT ![t] = @ + 1] ELSE carried
    /\ bytes' = bytes + 1
    /\ UNCHANGED <<panelVars, proc, io, rules, above, reportVars, base, pure, events>>

\* A process of another core reads or writes.
CarryStream(t) ==
    /\ proc[t] = [core |-> "hawal", alive |-> TRUE] /\ bytes < MaxBytes
    /\ io' = [io EXCEPT ![t] = @ + 1]
    /\ bytes' = bytes + 1
    /\ UNCHANGED <<panelVars, proc, rules, above, counter, reportVars, carried,
                   base, pure, events>>

\* The agent's loop goes on when its POST was answered or timed out.
Idle == post = Zero

\* cleanup_paqet_iptables: -D for the rules of the tunnels gone; a counter is 0
\* where there is no rule.
Cleanup(gone) ==
    /\ rules' = rules \ gone
    /\ above' = [t \in Tunnels |->
                    IF t \in gone THEN {} ELSE above[t] \ gone]
    /\ counter' = [t \in Tunnels |-> IF t \in gone THEN 0 ELSE counter[t]]

\* configure_paqet_iptables: -C, then -A at the end of the chain.
Configure(t, gone) ==
    IF t \in rules \ gone
    THEN Cleanup(gone)
    ELSE /\ rules' = (rules \ gone) \cup {t}
         /\ above' = [u \in Tunnels |->
                        IF u = t THEN rules \ gone ELSE above[u] \ gone]
         /\ counter' = [u \in Tunnels |->
                            IF u \in gone \cup {t} THEN 0 ELSE counter[u]]

\* The rules stop_tunnel_process removes.
OwnRules(t) == IF proc[t].core = "paqet" THEN {t} ELSE {}

\* apply_configs: the wanted process does not run; stop the old, start anew.
Apply(t) ==
    /\ Idle
    /\ row[t].core # "none"
    /\ proc[t] # [core |-> row[t].core, alive |-> TRUE]
    /\ proc' = [proc EXCEPT ![t] = [core |-> row[t].core, alive |-> TRUE]]
    /\ io' = [io EXCEPT ![t] = 0]
    /\ IF row[t].core = "paqet"
       THEN Configure(t, OwnRules(t))
       ELSE Cleanup(OwnRules(t))
    /\ base' = [base EXCEPT ![t] = Unseen]
    /\ UNCHANGED <<panelVars, reportVars, carried, pure, bounds>>

\* apply_configs: a process whose tunnel was deleted is stopped.
RemoveProc(t) ==
    /\ Idle
    /\ row[t].core = "none" /\ proc[t] # NoProc
    /\ proc' = [proc EXCEPT ![t] = NoProc]
    /\ io' = [io EXCEPT ![t] = 0]
    /\ Cleanup(OwnRules(t))
    /\ base' = [base EXCEPT ![t] = Unseen]
    /\ UNCHANGED <<panelVars, reportVars, carried, pure, bounds>>

ProcExits(t) ==
    /\ Disturb("exit")
    /\ proc[t].alive
    /\ proc' = [proc EXCEPT ![t].alive = FALSE]
    /\ io' = [io EXCEPT ![t] = 0]
    /\ UNCHANGED <<panelVars, rules, above, counter, reportVars, carried,
                   base, pure, bytes>>

\* What the agent remembers and waits for is gone, its request may be on its
\* way; late holds one request.
Forget ==
    /\ Idle \/ late = Zero
    /\ late' = IF Idle THEN late ELSE post
    /\ post' = Zero
    /\ last' = [t \in Tunnels |-> [c \in Cores |-> Unseen]]
    /\ proc' = [t \in Tunnels |-> NoProc]
    /\ base' = [t \in Tunnels |-> Unseen]
    /\ io' = Zero
    /\ UNCHANGED <<panelVars, carried, pure, bytes>>

\* SIGTERM: every process is stopped, systemd starts the agent again. A reboot
\* has the same effect, the rules are not kept.
AgentRestarts ==
    /\ Disturb("restart")
    /\ Cleanup({t \in Tunnels : proc[t].core = "paqet"})
    /\ Forget

\* SIGKILL of agent and processes: the rules stay and count on.
AgentKilled ==
    /\ Disturb("kill")
    /\ UNCHANGED <<rules, above, counter>>
    /\ Forget

-----------------------------------------------------------------------------
(* The agent's report *)

\* The text of t's port is the beginning of the text of u's port, so that the
\* line of u's rule ("dpt:<port>") contains the text looked for.
Matches(t, u) ==
    \E d \in {1, 10, 100, 1000, 10000} : CorePort[t] = CorePort[u] \div d

\* The first line of the chain with "dpt:<port>" in it, if any.
FirstLine(t) ==
    {u \in rules : Matches(t, u) /\ \A w \in above[u] : ~ Matches(t, w)}

IptablesBytes(t) == counter[CHOOSE u \in FirstLine(t) : TRUE]

\* A running process whose counter can be read.
Readable(t) ==
    proc[t].alive /\ (proc[t].core = "paqet" => FirstLine(t) # {})

Reading(t) == IF proc[t].core = "paqet" THEN IptablesBytes(t) ELSE io[t]

LastReading(t) == last[t][proc[t].core]

\* Mutant of Gain: a counter that was reset gives a negative gain.
GainUnclamped(now, before) == IF before # Unseen THEN now - before ELSE 0

Gain(now, before) == IF before # Unseen /\ now > before THEN now - before ELSE 0

Delta(t) == IF Readable(t) THEN Gain(Reading(t), LastReading(t)) ELSE 0

\* Mutant of Remembered: only the first reading is remembered, every later
\* report says all again.
RememberedOnce ==
    [t \in Tunnels |-> [c \in Cores |->
        IF Readable(t) /\ c = proc[t].core /\ last[t][c] = Unseen
        THEN Reading(t) ELSE last[t][c]]]

\* The readings are remembered whatever becomes of the report.
Remembered ==
    [t \in Tunnels |-> [c \in Cores |->
        IF Readable(t) /\ c = proc[t].core THEN Reading(t) ELSE last[t][c]]]

Counted(t) == row[t].bytes + post[t] + late[t]

\* A report that says nothing is not sent, which post = Zero stands for.
Report ==
    /\ Idle
    /\ last' = Remembered
    /\ post' = [t \in Tunnels |-> Delta(t)]
    /\ base' = [t \in Tunnels |->
                    IF t \in pure /\ Readable(t) /\ base[t] = Unseen
                    THEN carried[t] - Counted(t) - Delta(t) ELSE base[t]]
    /\ UNCHANGED <<panelVars, hostVars, late, carried, pure, bounds>>

-----------------------------------------------------------------------------
(* The network and POST /api/tunnels/traffic *)

\* Mutant of Add: a report replaces the row's counter.
AddReplaces(report, S) ==
    [t \in Tunnels |->
        IF t \in S /\ row[t].core # "none" /\ report[t] > 0
        THEN [row[t] EXCEPT !.bytes = report[t]] ELSE row[t]]

\* update_tunnel_traffic for each tunnel of S: an UPDATE of a deleted row does
\* nothing.
Add(report, S) ==
    [t \in Tunnels |->
        IF t \in S /\ row[t].core # "none"
        THEN [row[t] EXCEPT !.bytes = @ + report[t]] ELSE row[t]]

Disturbed(report) ==
    [t \in Tunnels |-> IF report[t] > 0 THEN Unseen ELSE base[t]]

Arrive ==
    /\ ~ Idle
    /\ row' = Add(post, Tunnels)
    /\ post' = Zero
    /\ UNCHANGED <<col, stalled, hostVars, last, late, carried, base, pure, bounds>>

\* After 4 s the agent goes on; one such report is kept track of.
TimeOut ==
    /\ Disturb("timeout")
    /\ ~ Idle /\ late = Zero
    /\ late' = post
    /\ post' = Zero
    /\ UNCHANGED <<panelVars, hostVars, last, carried, base, pure, bytes>>

ArriveLate ==
    /\ late # Zero
    /\ row' = Add(late, Tunnels)
    /\ late' = Zero
    /\ UNCHANGED <<col, stalled, hostVars, last, post, carried, base, pure, bounds>>

\* A refused connection or a lost request: the agent drops the report.
Lose ==
    /\ Disturb("lose")
    /\ ~ Idle
    /\ post' = Zero
    /\ base' = Disturbed(post)
    /\ UNCHANGED <<panelVars, hostVars, last, late, carried, pure, bytes>>

LoseLate ==
    /\ Disturb("lose")
    /\ late # Zero
    /\ late' = Zero
    /\ base' = Disturbed(late)
    /\ UNCHANGED <<panelVars, hostVars, last, post, carried, pure, bytes>>

\* The panel is killed and started again, possibly in the middle of a report:
\* each row of it is committed on its own.
PanelRestarts ==
    /\ Disturb("panel")
    /\ \E S \in SUBSET Tunnels : row' = Add(post, S)
    /\ post' = Zero
    /\ base' = Disturbed(post)
    /\ col' = Asleep
    /\ stalled' = FALSE
    /\ UNCHANGED <<hostVars, last, late, carried, pure, bytes>>

-----------------------------------------------------------------------------
(* The operator and the dashboards *)

\* PUT with another core type.
EditCore(t) ==
    /\ Disturb("edit")
    /\ \E c \in Cores \ {row[t].core} :
         /\ row[t].core # "none"
         /\ row' = [row EXCEPT ![t].core = c]
         /\ pure' = pure \ {t}
    /\ UNCHANGED <<col, stalled, hostVars, reportVars, carried, base, bytes>>

Delete(t) ==
    /\ Disturb("delete")
    /\ row[t].core # "none"
    /\ row' = [row EXCEPT ![t].core = "none"]
    /\ pure' = pure \ {t}
    /\ UNCHANGED <<col, stalled, hostVars, reportVars, carried, base, bytes>>

\* A dashboard stops reading and keeps its connection.
Stall ==
    /\ Disturb("stall")
    /\ ~ stalled
    /\ stalled' = TRUE
    /\ UNCHANGED <<row, col, hostVars, reportVars, carried, base, pure, bytes>>

\* It reads again, or its connection breaks and drain raises.
Leave ==
    /\ stalled
    /\ stalled' = FALSE
    /\ UNCHANGED <<row, col, hostVars, reportVars, carried, base, pure, bounds>>

-----------------------------------------------------------------------------
(* The collector *)

\* Mutant of Polled: the collector makes no exception for Paqet.
PolledAll == {t \in Tunnels : row[t].core # "none"}

\* list_tunnels; rows that are Paqet now are left out of the pass.
Polled == {t \in Tunnels : row[t].core = "hawal"}

\* What the collector read of the rows it has still to poll; the rest of the
\* list is not looked at again.
Snapshot(todo) == [t \in Tunnels |-> IF t \in todo THEN row[t].bytes ELSE 0]

\* The row of t is done with.
PassGoesOn(t, wrote) ==
    col' = [col EXCEPT !.snap[t] = 0, !.todo = @ \ {t}, !.changed = @ \/ wrote]

StartPass ==
    /\ col.at = "sleep" /\ Polled # {}
    /\ col' = [at |-> "pass", snap |-> Snapshot(Polled), todo |-> Polled,
               changed |-> FALSE]
    /\ UNCHANGED <<row, stalled, hostVars, reportVars, carried, base, pure, bounds>>

\* set_tunnel_absolute_traffic
SetAbsolute(t, value) ==
    IF row[t].core = "none" THEN row ELSE [row EXCEPT ![t].bytes = value]

\* Mutant of Larger: the collector writes what ss shows, also when that is
\* less than what it read.
Latest(read, cur) == cur

\* new_in = max(prev_in, cur_rcvd)
Larger(read, cur) == IF cur > read THEN cur ELSE read

\* ss answers for one tunnel; 0 stands for a failing ss too. Both counters are
\* written when one of them grew: twin says that bytes_out did.
Poll(t) ==
    /\ col.at = "pass" /\ t \in col.todo
    /\ \E cur \in 0 .. MaxSocket, twin \in BOOLEAN :
         IF cur > col.snap[t] \/ twin
         THEN row' = SetAbsolute(t, Larger(col.snap[t], cur)) /\ PassGoesOn(t, TRUE)
         ELSE UNCHANGED row /\ PassGoesOn(t, FALSE)
    /\ UNCHANGED <<stalled, hostVars, reportVars, carried, base, pure, bounds>>

\* Mutant of EndPass: the broadcast waits for the dashboards also when nothing changed.
EndPassAlwaysBroadcasts ==
    /\ col.at = "pass" /\ col.todo = {} /\ ~ stalled
    /\ col' = Asleep
    /\ UNCHANGED <<row, stalled, hostVars, reportVars, carried, base, pure, bounds>>

\* broadcast_ws awaits the drain of every dashboard, one after the other.
EndPass ==
    /\ col.at = "pass" /\ col.todo = {}
    /\ col.changed => ~ stalled
    /\ col' = Asleep
    /\ UNCHANGED <<row, stalled, hostVars, reportVars, carried, base, pure, bounds>>

-----------------------------------------------------------------------------
Collector == StartPass \/ (\E t \in Tunnels : Poll(t)) \/ EndPass

Sync(t) == Apply(t) \/ RemoveProc(t)

\* One iteration of the agent's loop applies every item and then reports.
SyncAll == \E t \in Tunnels : Sync(t)
ReportAll == Report \/ Arrive

Next ==
    \/ Collector \/ Report
    \/ Arrive \/ TimeOut \/ ArriveLate \/ Lose \/ LoseLate
    \/ AgentRestarts \/ AgentKilled \/ PanelRestarts
    \/ Stall \/ Leave
    \/ \E t \in Tunnels :
         \/ CarryPackets(t) \/ CarryStream(t) \/ Sync(t) \/ ProcExits(t)
         \/ EditCore(t) \/ Delete(t)

Spec == Init /\ [][Next]_vars

\* The agent's loop and the collector's go on; a request the agent waits for
\* ends one way or the other. Nobody makes a stalled dashboard leave.
Fairness ==
    /\ WF_vars(SyncAll)
    /\ WF_vars(ReportAll)
    /\ WF_vars(Collector)

FairSpec == Spec /\ Fairness

-----------------------------------------------------------------------------
(* Properties *)

\* No tunnel's port begins with the text of another's.
PortsApart == \A t, u \in Tunnels : Matches(t, u) => t = u

\* Bytes the agent will report if it looks now.
Unreported(t) ==
    IF t \in rules THEN Gain(counter[t], last[t]["paqet"]) ELSE 0

\* No byte of a Paqet tunnel is counted twice: what the panel shows and what
\* is on its way to it never exceeds what met the tunnel's rule, with reports
\* delivered late, lost or cut in half, processes and agents that come and go,
\* and rules that start at 0 again or survive their process
\* (agent.py, track_and_report_traffic).
NoOvercount ==
    \A t \in pure : Counted(t) + Unreported(t) =< carried[t]

\* Nor is one lost but by the disturbances that are known to lose some: from a
\* report on, until a report is lost or a process or the agent is restarted,
\* all that meets the rule is counted, on its way or will be in the next
\* report.
ExactBetweenLosses ==
    \A t \in pure :
        base[t] # Unseen => carried[t] = base[t] + Counted(t) + Unreported(t)

\* The counter of a tunnel that was Paqet from its creation never goes back:
\* the collector, whose absolute writes undo what was reported while it waited
\* for ss, leaves it alone (server.py:103).
NeverUndone ==
    [][\A t \in pure \cap pure' : row'[t].bytes >= row[t].bytes]_vars

\* What the collector undoes of a tunnel's counter is never older than its own
\* pass: it writes no less than it read (server.py:145).
UndoesNoMoreThanItsPass ==
    [][\A t \in Tunnels : row'[t].bytes < row[t].bytes =>
            col.at = "pass" /\ row'[t].bytes >= col.snap[t]]_vars

\* The collector keeps polling unless a dashboard stalls it for good
\* (server.py:72: every drain is awaited).
CollectorPolls == []<>(col.at = "sleep") \/ <>[](stalled /\ col.changed)

\* What a rule has counted is reported or given up, however often the agent is
\* disturbed: no reading stays ahead of the last report for ever.
EventuallyReported ==
    \A t \in Tunnels : []<>(proc[t].core # "paqet" \/ Unreported(t) = 0)

\* agent.py:560: "Return the exact byte counter for one Paqet raw-table rule."
\* What is read for a tunnel is the counter of the tunnel's own rule.
CounterOfOwnRule ==
    \A t \in rules : IptablesBytes(t) = counter[t]
=============================================================================
