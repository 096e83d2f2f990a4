---------------------------- MODULE TrafficProofs ----------------------------
(***************************************************************************)
(* Theorems about Traffic, for any number of tunnels, any ports and any    *)
(* number of bytes and disturbances.                                       *)
(***************************************************************************)
EXTENDS Traffic, TLAPS

\* What the counters of one tunnel add up to is proved in numbers: the gain of
\* a counter over its last reading is a natural number.
LEMMA GainNat ==
    ASSUME NEW now \in Nat, NEW before \in Nat \cup {Unseen}
    PROVE  /\ Gain(now, before) \in Nat
           /\ Gain(now, now) = 0
           /\ Gain(now, Unseen) = 0
           /\ Gain(0, before) = 0
           /\ Gain(now + 1, before) \in Gain(now, before) .. Gain(now, before) + 1
           /\ before # Unseen /\ before =< now => Gain(now, before) = now - before
    BY DEF Gain, Unseen

\* What the collector writes is not less than what it read.
LEMMA LargerNat ==
    ASSUME NEW read \in Nat, NEW cur \in 0 .. MaxSocket
    PROVE  Larger(read, cur) \in Nat /\ Larger(read, cur) >= read
    BY TrafficAssumption DEF Larger

\* A line read for a tunnel is a line of the chain.
LEMMA FirstLineInRules ==
    ASSUME TrafficTypeOK, NEW t \in Tunnels, FirstLine(t) # {}
    PROVE  IptablesBytes(t) \in Nat
    <1>1. (CHOOSE u \in FirstLine(t) : TRUE) \in FirstLine(t)
        OBVIOUS
    <1> QED
        BY <1>1 DEF FirstLine, IptablesBytes, TrafficTypeOK

\* With ports apart it is the tunnel's own.
LEMMA OwnLine ==
    ASSUME TrafficTypeOK, PortsApart, NEW t \in Tunnels, FirstLine(t) # {}
    PROVE  t \in rules /\ IptablesBytes(t) = counter[t]
    <1>1. FirstLine(t) = {t}
        BY DEF FirstLine, PortsApart, TrafficTypeOK
    <1> QED
        BY <1>1 DEF FirstLine, IptablesBytes

\* What the agent reads is a number.
LEMMA ReadingNat ==
    ASSUME TrafficTypeOK, NEW t \in Tunnels, Readable(t)
    PROVE  Reading(t) \in Nat
    BY FirstLineInRules DEF Readable, Reading, TrafficTypeOK

-----------------------------------------------------------------------------
(* Types *)

\* Removing rules keeps the types of the firewall.
FirewallOK ==
    /\ rules \subseteq Tunnels
    /\ above \in [Tunnels -> SUBSET rules] /\ \A t \in Tunnels : t \notin above[t]
    /\ counter \in [Tunnels -> Nat]

LEMMA CleanupTypes ==
    ASSUME FirewallOK, NEW gone, Cleanup(gone)
    PROVE  FirewallOK'
    BY DEF FirewallOK, Cleanup

\* So does adding one.
LEMMA ConfigureTypes ==
    ASSUME FirewallOK, NEW t \in Tunnels, NEW gone, Configure(t, gone)
    PROVE  FirewallOK'
    <1>1. CASE t \in rules \ gone
        BY <1>1, CleanupTypes DEF Configure
    <1>2. CASE t \notin rules \ gone
        <2> DEFINE R == (rules \ gone) \cup {t}
        <2>1. rules' = R /\ R \subseteq Tunnels
            BY <1>2 DEF Configure, FirewallOK
        <2>2. above' = [u \in Tunnels |->
                          IF u = t THEN rules \ gone ELSE above[u] \ gone]
            BY <1>2 DEF Configure
        <2>3. above' \in [Tunnels -> SUBSET R]
            BY <2>2 DEF FirewallOK
        <2>4. \A u \in Tunnels : u \notin above'[u]
            BY <1>2, <2>2 DEF FirewallOK
        <2>5. counter' \in [Tunnels -> Nat]
            BY <1>2 DEF Configure, FirewallOK
        <2> QED
            BY <2>1, <2>3, <2>4, <2>5 DEF FirewallOK
    <1> QED
        BY <1>1, <1>2

\* A process has a core type, and only one that is held runs.
LEMMA ProcTypes ==
    ASSUME TrafficTypeOK, NEW t \in Tunnels
    PROVE  /\ proc[t].core \in Cores \cup {"none"}
           /\ proc[t].alive \in BOOLEAN
           /\ proc[t].alive => proc[t].core \in Cores
    <1>1. proc[t] \in [core : Cores, alive : BOOLEAN] \cup {NoProc}
        BY DEF TrafficTypeOK
    <1>2. CASE proc[t] \in [core : Cores, alive : BOOLEAN]
        BY <1>2
    <1>3. CASE proc[t] = NoProc
        BY <1>3 DEF NoProc
    <1> QED
        BY <1>1, <1>2, <1>3

\* What a report holds.
LEMMA DeltaNat ==
    ASSUME TrafficTypeOK, NEW t \in Tunnels
    PROVE  Delta(t) \in Nat
    <1>1. CASE Readable(t)
        <2>1. proc[t].core \in Cores
            BY <1>1, ProcTypes DEF Readable
        <2>2. LastReading(t) \in Nat \cup {Unseen}
            BY <2>1 DEF TrafficTypeOK, LastReading
        <2>3. Reading(t) \in Nat
            BY <1>1, ReadingNat
        <2> QED
            BY <1>1, <2>2, <2>3, GainNat DEF Delta
    <1> QED
        BY <1>1 DEF Delta

\* What is remembered are readings.
LEMMA RememberedType ==
    ASSUME TrafficTypeOK
    PROVE  Remembered \in [Tunnels -> [Cores -> Nat \cup {Unseen}]]
    <1> SUFFICES ASSUME NEW t \in Tunnels, NEW c \in Cores
                 PROVE  (IF Readable(t) /\ c = proc[t].core
                         THEN Reading(t) ELSE last[t][c]) \in Nat \cup {Unseen}
        BY DEF Remembered
    <1> QED
        BY ReadingNat DEF TrafficTypeOK

\* Adding a report keeps the table.
LEMMA AddTypes ==
    ASSUME TrafficTypeOK, NEW report \in [Tunnels -> Nat], NEW S
    PROVE  /\ Add(report, S) \in [Tunnels -> [core : Cores \cup {"none"}, bytes : Nat]]
           /\ \A t \in Tunnels :
                /\ Add(report, S)[t].core = row[t].core
                /\ Add(report, S)[t].bytes =
                     IF t \in S /\ row[t].core # "none"
                     THEN row[t].bytes + report[t] ELSE row[t].bytes
    BY SMTT(30) DEF TrafficTypeOK, Add

\* The type invariant in three parts: the panel's state, the firewall's, the rest.
PanelOK ==
    /\ row \in [Tunnels -> [core : Cores \cup {"none"}, bytes : Nat]]
    /\ col \in [at : {"sleep", "pass"}, snap : [Tunnels -> Nat],
                todo : SUBSET Tunnels, changed : BOOLEAN]
    /\ stalled \in BOOLEAN

ProcOK ==
    /\ proc \in [Tunnels -> [core : Cores, alive : BOOLEAN] \cup {NoProc}]
    /\ io \in [Tunnels -> Nat]

ReportOK ==
    /\ last \in [Tunnels -> [Cores -> Nat \cup {Unseen}]]
    /\ post \in [Tunnels -> Nat]
    /\ late \in [Tunnels -> Nat]

HistoryOK ==
    /\ carried \in [Tunnels -> Nat]
    /\ base \in [Tunnels -> Int]
    /\ pure \subseteq Tunnels
    /\ bytes \in Nat /\ events \in Nat

LEMMA TypeParts ==
    TrafficTypeOK <=> PanelOK /\ FirewallOK /\ ProcOK /\ ReportOK /\ HistoryOK
    BY DEF TrafficTypeOK, PanelOK, FirewallOK, ProcOK, ReportOK, HistoryOK

\* The initial state has its types.
LEMMA InitTypes ==
    Init => TrafficTypeOK
    <1> SUFFICES ASSUME Init PROVE TrafficTypeOK
        OBVIOUS
    <1>1. PanelOK
        <2>1. row \in [Tunnels -> [core : Cores \cup {"none"}, bytes : Nat]]
            <3>1. FirstCore \in [Tunnels -> Cores]
                BY TrafficAssumption
            <3> QED
                BY <3>1 DEF Init
        <2>2. col \in [at : {"sleep", "pass"}, snap : [Tunnels -> Nat],
                       todo : SUBSET Tunnels, changed : BOOLEAN]
            BY DEF Init, Asleep, Zero
        <2> QED
            BY <2>1, <2>2 DEF Init, PanelOK
    <1>2. FirewallOK
        BY DEF Init, FirewallOK, Zero
    <1>3. ProcOK
        BY DEF Init, ProcOK, Zero
    <1>4. ReportOK
        BY DEF Init, ReportOK, Zero
    <1>5. HistoryOK
        BY DEF Init, HistoryOK, Zero, Unseen
    <1> QED
        BY <1>1, <1>2, <1>3, <1>4, <1>5, TypeParts

\* Every step keeps them.
LEMMA NextTypes ==
    TrafficTypeOK /\ [Next]_vars => TrafficTypeOK'
    <1> SUFFICES ASSUME TrafficTypeOK, [Next]_vars PROVE TrafficTypeOK'
        OBVIOUS
    <1> USE DEF panelVars, hostVars, reportVars, bounds, Disturb
    <1>0. PanelOK /\ FirewallOK /\ ProcOK /\ ReportOK /\ HistoryOK
        BY TypeParts
    <1> SUFFICES PanelOK' /\ FirewallOK' /\ ProcOK' /\ ReportOK' /\ HistoryOK'
        BY TypeParts DEF TrafficTypeOK, PanelOK, FirewallOK, ProcOK, ReportOK, HistoryOK
    <1>1. CASE StartPass
        <2>1. PanelOK'
            BY <1>0, <1>1 DEF StartPass, PanelOK, Polled, Snapshot
        <2> QED
            BY <1>0, <1>1, <2>1 DEF StartPass, FirewallOK, ProcOK, ReportOK, HistoryOK
    <1>2. ASSUME NEW t \in Tunnels, Poll(t)
          PROVE  PanelOK' /\ FirewallOK' /\ ProcOK' /\ ReportOK' /\ HistoryOK'
        <2>1. PICK cur \in 0 .. MaxSocket, twin \in BOOLEAN :
                 IF cur > col.snap[t] \/ twin
                 THEN row' = SetAbsolute(t, Larger(col.snap[t], cur)) /\ PassGoesOn(t, TRUE)
                 ELSE UNCHANGED row /\ PassGoesOn(t, FALSE)
            BY <1>2 DEF Poll
        <2>0. Larger(col.snap[t], cur) \in Nat
            BY <1>0, LargerNat DEF PanelOK
        <2>2. row' \in [Tunnels -> [core : Cores \cup {"none"}, bytes : Nat]]
          <3>1. row' = row \/ row' = SetAbsolute(t, Larger(col.snap[t], cur))
              BY <2>1
          <3>2. ASSUME NEW v \in Nat
                PROVE  SetAbsolute(t, v) \in
                          [Tunnels -> [core : Cores \cup {"none"}, bytes : Nat]]
              BY <1>0 DEF SetAbsolute, PanelOK
          <3>3. row \in [Tunnels -> [core : Cores \cup {"none"}, bytes : Nat]]
              BY <1>0 DEF PanelOK
          <3> QED
              BY <2>0, <3>1, <3>2, <3>3
        <2>3. col' \in [at : {"sleep", "pass"}, snap : [Tunnels -> Nat],
                        todo : SUBSET Tunnels, changed : BOOLEAN]
          <3>1. ASSUME NEW wrote \in BOOLEAN, PassGoesOn(t, wrote)
                PROVE  col' \in [at : {"sleep", "pass"}, snap : [Tunnels -> Nat],
                                 todo : SUBSET Tunnels, changed : BOOLEAN]
            <4>1. [col.snap EXCEPT ![t] = 0] \in [Tunnels -> Nat]
                BY <1>0 DEF PanelOK
            <4> QED
                BY <1>0, <3>1, <4>1 DEF PanelOK, PassGoesOn
          <3> QED
            BY <2>1, <3>1
        <2> QED
            BY <1>0, <1>2, <2>2, <2>3 DEF Poll, PanelOK, FirewallOK, ProcOK, ReportOK, HistoryOK
    <1>3. CASE EndPass
        BY <1>0, <1>3 DEF EndPass, PanelOK, FirewallOK, ProcOK, ReportOK, HistoryOK, Asleep, Zero
    <1>4. CASE Report
        <2>1. ReportOK'
            BY <1>0, <1>4, DeltaNat, RememberedType DEF Report, ReportOK
        <2>2. \A t \in Tunnels : carried[t] - Counted(t) - Delta(t) \in Int
            BY <1>0, DeltaNat DEF Counted, HistoryOK, PanelOK, ReportOK
        <2>3. HistoryOK'
            BY <1>0, <1>4, <2>2 DEF Report, HistoryOK
        <2> QED
            BY <1>0, <1>4, <2>1, <2>3 DEF Report, PanelOK, FirewallOK, ProcOK
    <1>5. CASE Arrive
        BY <1>0, <1>5, AddTypes DEF Arrive, PanelOK, FirewallOK, ProcOK, ReportOK, HistoryOK, Zero
    <1>6. CASE TimeOut
        BY <1>0, <1>6 DEF TimeOut, PanelOK, FirewallOK, ProcOK, ReportOK, HistoryOK, Zero
    <1>7. CASE ArriveLate
        BY <1>0, <1>7, AddTypes DEF ArriveLate, PanelOK, FirewallOK, ProcOK, ReportOK, HistoryOK, Zero
    <1>8. CASE Lose
        BY <1>0, <1>8 DEF Lose, PanelOK, FirewallOK, ProcOK, ReportOK, HistoryOK, Zero, Disturbed, Unseen
    <1>9. CASE LoseLate
        BY <1>0, <1>9 DEF LoseLate, PanelOK, FirewallOK, ProcOK, ReportOK, HistoryOK, Zero, Disturbed, Unseen
    <1>10. CASE AgentRestarts
        <2>1. FirewallOK'
            BY <1>0, <1>10, CleanupTypes DEF AgentRestarts
        <2>2. ReportOK' /\ ProcOK'
            BY <1>0, <1>10 DEF AgentRestarts, Forget, ReportOK, ProcOK, Zero
        <2>3. HistoryOK'
            BY <1>0, <1>10 DEF AgentRestarts, Forget, HistoryOK, Unseen
        <2> QED
            BY <1>0, <1>10, <2>1, <2>2, <2>3 DEF AgentRestarts, Forget, PanelOK
    <1>11. CASE AgentKilled
        <2>1. ReportOK' /\ ProcOK'
            BY <1>0, <1>11 DEF AgentKilled, Forget, ReportOK, ProcOK, Zero
        <2>2. HistoryOK'
            BY <1>0, <1>11 DEF AgentKilled, Forget, HistoryOK, Unseen
        <2> QED
            BY <1>0, <1>11, <2>1, <2>2 DEF AgentKilled, Forget, PanelOK, FirewallOK
    <1>12. CASE PanelRestarts
        <2>1. PICK S \in SUBSET Tunnels : row' = Add(post, S)
            BY <1>12 DEF PanelRestarts
        <2>2. row' \in [Tunnels -> [core : Cores \cup {"none"}, bytes : Nat]]
            BY <1>0, <2>1, AddTypes DEF ReportOK
        <2>3. PanelOK'
            BY <1>12, <2>2 DEF PanelRestarts, PanelOK, Asleep, Zero
        <2> QED
            BY <1>0, <1>12, <2>3 DEF PanelRestarts, FirewallOK, ProcOK, ReportOK, HistoryOK, Zero, Disturbed, Unseen
    <1>13. CASE Stall
        BY <1>0, <1>13 DEF Stall, PanelOK, FirewallOK, ProcOK, ReportOK, HistoryOK
    <1>14. CASE Leave
        BY <1>0, <1>14 DEF Leave, PanelOK, FirewallOK, ProcOK, ReportOK, HistoryOK
    <1>15. ASSUME NEW t \in Tunnels, CarryPackets(t)
           PROVE  PanelOK' /\ FirewallOK' /\ ProcOK' /\ ReportOK' /\ HistoryOK'
        BY <1>0, <1>15 DEF CarryPackets, PanelOK, FirewallOK, ProcOK, ReportOK, HistoryOK
    <1>16. ASSUME NEW t \in Tunnels, CarryStream(t)
           PROVE  PanelOK' /\ FirewallOK' /\ ProcOK' /\ ReportOK' /\ HistoryOK'
        BY <1>0, <1>16 DEF CarryStream, PanelOK, FirewallOK, ProcOK, ReportOK, HistoryOK
    <1>17. ASSUME NEW t \in Tunnels, Apply(t)
           PROVE  PanelOK' /\ FirewallOK' /\ ProcOK' /\ ReportOK' /\ HistoryOK'
        <2>1. FirewallOK'
            BY <1>0, <1>17, CleanupTypes, ConfigureTypes DEF Apply
        <2>2. row[t].core \in Cores
            BY <1>0, <1>17 DEF Apply, PanelOK
        <2>3. ProcOK'
            BY <1>0, <1>17, <2>2 DEF Apply, ProcOK
        <2>4. HistoryOK'
            BY <1>0, <1>17 DEF Apply, HistoryOK, Unseen
        <2> QED
            BY <1>0, <1>17, <2>1, <2>3, <2>4 DEF Apply, PanelOK, ReportOK
    <1>18. ASSUME NEW t \in Tunnels, RemoveProc(t)
           PROVE  PanelOK' /\ FirewallOK' /\ ProcOK' /\ ReportOK' /\ HistoryOK'
        <2>1. FirewallOK'
            BY <1>0, <1>18, CleanupTypes DEF RemoveProc
        <2>2. ProcOK' /\ HistoryOK'
            BY <1>0, <1>18 DEF RemoveProc, ProcOK, HistoryOK, Unseen
        <2> QED
            BY <1>0, <1>18, <2>1, <2>2 DEF RemoveProc, PanelOK, ReportOK
    <1>19. ASSUME NEW t \in Tunnels, ProcExits(t)
           PROVE  PanelOK' /\ FirewallOK' /\ ProcOK' /\ ReportOK' /\ HistoryOK'
        <2>1. proc[t] \in [core : Cores, alive : BOOLEAN]
            BY <1>0, <1>19 DEF ProcExits, ProcOK, NoProc
        <2>2. ProcOK'
            BY <1>0, <1>19, <2>1 DEF ProcExits, ProcOK
        <2> QED
            BY <1>0, <1>19, <2>2 DEF ProcExits, PanelOK, FirewallOK, ReportOK, HistoryOK
    <1>20. ASSUME NEW t \in Tunnels, EditCore(t)
           PROVE  PanelOK' /\ FirewallOK' /\ ProcOK' /\ ReportOK' /\ HistoryOK'
        <2>1. PICK c \in Cores : row' = [row EXCEPT ![t].core = c] /\ pure' = pure \ {t}
            BY <1>20 DEF EditCore
        <2>2. PanelOK'
            BY <1>0, <1>20, <2>1 DEF EditCore, PanelOK
        <2>3. HistoryOK'
            <3>1. pure' \subseteq Tunnels
                BY <1>0, <2>1 DEF HistoryOK
            <3> QED
                BY <1>0, <1>20, <3>1 DEF EditCore, HistoryOK
        <2> QED
            BY <1>0, <1>20, <2>2, <2>3 DEF EditCore, FirewallOK, ProcOK, ReportOK
    <1>21. ASSUME NEW t \in Tunnels, Delete(t)
           PROVE  PanelOK' /\ FirewallOK' /\ ProcOK' /\ ReportOK' /\ HistoryOK'
        <2>1. row' = [row EXCEPT ![t].core = "none"] /\ pure' = pure \ {t}
            BY <1>21 DEF Delete
        <2>2. PanelOK'
            BY <1>0, <1>21, <2>1 DEF Delete, PanelOK
        <2>3. HistoryOK'
            <3>1. pure' \subseteq Tunnels
                BY <1>0, <2>1 DEF HistoryOK
            <3> QED
                BY <1>0, <1>21, <3>1 DEF Delete, HistoryOK
        <2> QED
            BY <1>0, <1>21, <2>2, <2>3 DEF Delete, FirewallOK, ProcOK, ReportOK
    <1>22. CASE UNCHANGED vars
        BY <1>0, <1>22 DEF vars, PanelOK, FirewallOK, ProcOK, ReportOK, HistoryOK
    <1> QED
        BY <1>1, <1>2, <1>3, <1>4, <1>5, <1>6, <1>7, <1>8, <1>9, <1>10, <1>11,
           <1>12, <1>13, <1>14, <1>15, <1>16, <1>17, <1>18, <1>19, <1>20, <1>21,
           <1>22 DEF Next, Collector, Sync

\* The table, the collector's snapshot, the agent's memory and the firewall
\* keep their types whatever fails: above all, no negative number of bytes is
\* ever reported.
THEOREM TrafficTypeCorrect == Spec => []TrafficTypeOK
    BY InitTypes, NextTypes, PTL DEF Spec

-----------------------------------------------------------------------------
(* The books of a Paqet tunnel *)

\* A tunnel that was Paqet from its creation is Paqet now, its process is a
\* Paqet server if it has one, and no pass of the collector holds it.
PureIsPaqet ==
    \A t \in pure :
        row[t].core = "paqet" /\ proc[t].core # "hawal" /\ t \notin col.todo

\* What is counted, on its way and unreported against what was carried.
Books(t) ==
    /\ Counted(t) + Unreported(t) =< carried[t]
    /\ base[t] # Unseen => carried[t] = base[t] + Counted(t) + Unreported(t)

AllBooks == \A t \in pure : Books(t)

\* While the base is known, the last reading is one of the rule as it is now.
Current(t) ==
    base[t] # Unseen =>
        t \in rules /\ last[t]["paqet"] # Unseen /\ last[t]["paqet"] =< counter[t]

AllCurrent == \A t \in pure : Current(t)

LedgerInv == TrafficTypeOK /\ PureIsPaqet /\ AllCurrent /\ AllBooks

\* The sums are natural numbers.
LEMMA SumsNat ==
    ASSUME TrafficTypeOK, NEW t \in Tunnels
    PROVE  Counted(t) \in Nat /\ Unreported(t) \in Nat
    <1>1. Counted(t) \in Nat
        BY DEF TrafficTypeOK, Counted
    <1>2. counter[t] \in Nat /\ last[t]["paqet"] \in Nat \cup {Unseen}
        BY DEF TrafficTypeOK, Cores
    <1> QED
        BY <1>1, <1>2, GainNat DEF Unreported

\* The same after a step.
LEMMA SumsNatNext ==
    ASSUME TrafficTypeOK', NEW t \in Tunnels
    PROVE  Counted(t)' \in Nat /\ Unreported(t)' \in Nat
    <1>1. Counted(t)' \in Nat
        BY DEF TrafficTypeOK, Counted
    <1>2. counter'[t] \in Nat /\ last'[t]["paqet"] \in Nat \cup {Unseen}
        BY DEF TrafficTypeOK, Cores
    <1> QED
        BY <1>1, <1>2, GainNat DEF Unreported

\* A step that carries nothing for t and adds nothing to its sums keeps its
\* books, if it keeps the sums or forgets the base.
LEMMA BooksKept ==
    ASSUME TrafficTypeOK, TrafficTypeOK', NEW t \in Tunnels, Books(t),
           carried'[t] = carried[t],
           Counted(t)' + Unreported(t)' =< Counted(t) + Unreported(t),
           \/ base'[t] = Unseen
           \/ /\ base'[t] = base[t]
              /\ Counted(t)' + Unreported(t)' = Counted(t) + Unreported(t)
    PROVE  Books(t)'
    <1>1. /\ Counted(t) \in Nat /\ Unreported(t) \in Nat
          /\ Counted(t)' \in Nat /\ Unreported(t)' \in Nat
          /\ carried[t] \in Nat /\ base[t] \in Int
        BY SumsNat, SumsNatNext DEF TrafficTypeOK
    <1>2. Counted(t)' + Unreported(t)' =< carried'[t]
        BY <1>1 DEF Books
    <1>3. base'[t] # Unseen => carried'[t] = base'[t] + Counted(t)' + Unreported(t)'
        BY <1>1 DEF Books
    <1> QED
        BY <1>2, <1>3 DEF Books

\* Rules that go take their unread bytes with them, the others stay.
LEMMA CleanupUnread ==
    ASSUME TrafficTypeOK, NEW t \in Tunnels, NEW gone, Cleanup(gone),
           last'[t]["paqet"] = last[t]["paqet"]
    PROVE  /\ Unreported(t)' =< Unreported(t)
           /\ t \notin gone => Unreported(t)' = Unreported(t)
    <1>1. Unreported(t) \in Nat
        BY SumsNat
    <1>2. t \in rules' <=> t \in rules /\ t \notin gone
        BY DEF Cleanup
    <1>3. t \notin gone => counter'[t] = counter[t]
        BY DEF Cleanup
    <1>4. CASE t \in gone
        <2>1. Unreported(t)' = 0
            BY <1>2, <1>4 DEF Unreported
        <2> QED
            BY <1>1, <1>4, <2>1
    <1>5. CASE t \notin gone
        <2>1. Unreported(t)' = Unreported(t)
            BY <1>2, <1>3, <1>5 DEF Unreported
        <2> QED
            BY <1>1, <2>1
    <1> QED
        BY <1>4, <1>5

\* A new rule starts with nothing unread.
LEMMA ConfigureUnread ==
    ASSUME TrafficTypeOK, NEW t \in Tunnels, NEW u \in Tunnels,
           NEW gone \in SUBSET {u}, Configure(u, gone),
           last'[t]["paqet"] = last[t]["paqet"]
    PROVE  /\ Unreported(t)' =< Unreported(t)
           /\ t # u => Unreported(t)' = Unreported(t)
    <1>1. CASE u \in rules \ gone
        BY <1>1, CleanupUnread DEF Configure
    <1>2. CASE u \notin rules \ gone
        <2>1. rules' = (rules \ gone) \cup {u}
            BY <1>2 DEF Configure
        <2>2. counter' = [w \in Tunnels |->
                            IF w \in gone \cup {u} THEN 0 ELSE counter[w]]
            BY <1>2 DEF Configure
        <2>3. Unreported(t) \in Nat
            BY SumsNat
        <2>4. CASE t = u
            <3>1. counter'[t] = 0 /\ t \in rules'
                BY <2>1, <2>2, <2>4
            <3>2. last[t]["paqet"] \in Nat \cup {Unseen}
                BY DEF TrafficTypeOK, Cores
            <3>3. Unreported(t)' = 0
                BY <3>1, <3>2, GainNat DEF Unreported
            <3> QED
                BY <2>3, <2>4, <3>3
        <2>5. CASE t # u
            <3>1. counter'[t] = counter[t] /\ (t \in rules' <=> t \in rules)
                BY <2>1, <2>2, <2>5
            <3>2. Unreported(t)' = Unreported(t)
                BY <3>1 DEF Unreported
            <3> QED
                BY <2>3, <3>2
        <2> QED
            BY <2>4, <2>5
    <1> QED
        BY <1>1, <1>2

\* A report moves what is unread to what is on its way, if ports are apart; a
\* reading that fails leaves it unread.
LEMMA ReportMoves ==
    ASSUME LedgerInv, PortsApart, Report, NEW t \in pure
    PROVE  /\ Counted(t)' = Counted(t) + Delta(t)
           /\ Delta(t) + Unreported(t)' = Unreported(t)
           /\ Delta(t) \in Nat
    <1> USE DEF LedgerInv
    <1>0. t \in Tunnels /\ Delta(t) \in Nat
        BY DeltaNat DEF TrafficTypeOK
    <1>1. Counted(t)' = Counted(t) + Delta(t)
        <2>1. post[t] = 0
            BY <1>0 DEF Report, Idle, Zero
        <2>2. post'[t] = Delta(t) /\ row'[t] = row[t] /\ late'[t] = late[t]
            BY <1>0 DEF Report, panelVars
        <2>3. row[t].bytes \in Nat /\ late[t] \in Nat
            BY <1>0 DEF TrafficTypeOK
        <2> QED
            BY <1>0, <2>1, <2>2, <2>3 DEF Counted
    <1>2. rules' = rules /\ counter' = counter
        BY DEF Report, hostVars
    <1>3. last'[t]["paqet"] = IF Readable(t) /\ "paqet" = proc[t].core
                              THEN Reading(t) ELSE last[t]["paqet"]
        BY <1>0 DEF Report, Remembered, Cores
    <1>4. CASE Readable(t)
        <2>1. proc[t].core = "paqet"
            BY <1>0, <1>4, ProcTypes DEF Readable, PureIsPaqet, Cores
        <2>2. t \in rules /\ Reading(t) = counter[t]
            BY <1>0, <1>4, <2>1, OwnLine DEF Readable, Reading
        <2>3. Delta(t) = Unreported(t)
            BY <1>4, <2>1, <2>2 DEF Delta, Unreported, LastReading
        <2>4. last'[t]["paqet"] = counter'[t]
            BY <1>2, <1>3, <1>4, <2>1, <2>2
        <2>5. counter[t] \in Nat
            BY <1>0 DEF TrafficTypeOK
        <2>6. Unreported(t)' = 0
            BY <1>2, <2>2, <2>4, <2>5, GainNat DEF Unreported
        <2> QED
            BY <1>0, <1>1, <2>3, <2>6
    <1>5. CASE ~ Readable(t)
        <2>1. Delta(t) = 0
            BY <1>5 DEF Delta
        <2>2. Unreported(t)' = Unreported(t)
            BY <1>2, <1>3, <1>5 DEF Unreported
        <2>3. Unreported(t) \in Nat
            BY <1>0, SumsNat
        <2> QED
            BY <1>0, <1>1, <2>1, <2>2, <2>3
    <1> QED
        BY <1>4, <1>5

\* The initial books are empty.
LEMMA LedgerInit ==
    Init => LedgerInv
    <1> SUFFICES ASSUME Init PROVE LedgerInv
        OBVIOUS
    <1>1. TrafficTypeOK
        BY InitTypes
    <1>2. PureIsPaqet
        BY DEF Init, PureIsPaqet, Asleep, NoProc
    <1>3. ASSUME NEW t \in pure PROVE Books(t)
        <2>1. t \in Tunnels
            BY <1>1 DEF TrafficTypeOK
        <2>2. Counted(t) = 0 /\ carried[t] = 0 /\ base[t] = Unseen
            BY <2>1 DEF Init, Counted, Zero
        <2>3. Unreported(t) = 0
            BY DEF Init, Unreported
        <2> QED
            BY <2>2, <2>3 DEF Books
    <1>4. AllCurrent
        BY <1>1 DEF Init, AllCurrent, Current, TrafficTypeOK
    <1> QED
        BY <1>1, <1>2, <1>3, <1>4 DEF LedgerInv, AllBooks

\* Whatever happens, a tunnel that stays pure stays Paqet at both ends.
LEMMA PureNext ==
    ASSUME TrafficTypeOK, PureIsPaqet, [Next]_vars
    PROVE  PureIsPaqet' /\ pure' \subseteq pure
    <1>a. /\ post \in [Tunnels -> Nat] /\ late \in [Tunnels -> Nat]
          /\ row \in [Tunnels -> [core : Cores \cup {"none"}, bytes : Nat]]
        BY DEF TrafficTypeOK
    <1>b. ASSUME NEW report \in [Tunnels -> Nat], NEW S, row' = Add(report, S)
          PROVE  \A t \in Tunnels : row'[t].core = row[t].core
        BY <1>b, AddTypes
    <1>c. ASSUME NEW u \in Tunnels, NEW n, row' = SetAbsolute(u, n)
          PROVE  \A t \in Tunnels : row'[t].core = row[t].core
        BY <1>a, <1>c DEF SetAbsolute
    <1> USE DEF panelVars, hostVars, reportVars, bounds, PureIsPaqet, TrafficTypeOK
    <1>1. CASE StartPass
        BY <1>1 DEF StartPass, Polled
    <1>2. ASSUME NEW u \in Tunnels, Poll(u) PROVE PureIsPaqet' /\ pure' \subseteq pure
        <2>1. PICK cur \in 0 .. MaxSocket, twin \in BOOLEAN :
                 IF cur > col.snap[u] \/ twin
                 THEN row' = SetAbsolute(u, Larger(col.snap[u], cur)) /\ PassGoesOn(u, TRUE)
                 ELSE UNCHANGED row /\ PassGoesOn(u, FALSE)
            BY <1>2 DEF Poll
        <2>2. col'.todo = col.todo \ {u}
            BY <2>1 DEF PassGoesOn
        <2>3. \A t \in Tunnels : row'[t].core = row[t].core
            BY <2>1, <1>c
        <2> QED
            BY <1>2, <2>2, <2>3 DEF Poll
    <1>3. CASE EndPass
        BY <1>3 DEF EndPass, Asleep
    <1>4. CASE Report
        BY <1>4 DEF Report
    <1>5. CASE Arrive
        <2>1. \A t \in Tunnels : row'[t].core = row[t].core
            BY <1>5, <1>a, <1>b DEF Arrive
        <2> QED
            BY <1>5, <2>1 DEF Arrive
    <1>6. CASE TimeOut
        BY <1>6 DEF TimeOut
    <1>7. CASE ArriveLate
        <2>1. \A t \in Tunnels : row'[t].core = row[t].core
            BY <1>7, <1>a, <1>b DEF ArriveLate
        <2> QED
            BY <1>7, <2>1 DEF ArriveLate
    <1>8. CASE Lose \/ LoseLate
        BY <1>8 DEF Lose, LoseLate
    <1>9. CASE AgentRestarts \/ AgentKilled
        BY <1>9 DEF AgentRestarts, AgentKilled, Forget, NoProc
    <1>10. CASE PanelRestarts
        <2>1. PICK S \in SUBSET Tunnels : row' = Add(post, S)
            BY <1>10 DEF PanelRestarts
        <2>2. \A t \in Tunnels : row'[t].core = row[t].core
            BY <2>1, <1>a, <1>b
        <2> QED
            BY <1>10, <2>2 DEF PanelRestarts, Asleep
    <1>11. CASE Stall \/ Leave
        BY <1>11 DEF Stall, Leave
    <1>12. ASSUME NEW u \in Tunnels, CarryPackets(u) \/ CarryStream(u)
           PROVE  PureIsPaqet' /\ pure' \subseteq pure
        BY <1>12 DEF CarryPackets, CarryStream
    <1>13. ASSUME NEW u \in Tunnels, Apply(u)
           PROVE  PureIsPaqet' /\ pure' \subseteq pure
        BY <1>13 DEF Apply
    <1>14. ASSUME NEW u \in Tunnels, RemoveProc(u)
           PROVE  PureIsPaqet' /\ pure' \subseteq pure
        BY <1>14 DEF RemoveProc, NoProc
    <1>15. ASSUME NEW u \in Tunnels, ProcExits(u)
           PROVE  PureIsPaqet' /\ pure' \subseteq pure
        <2>1. \A t \in Tunnels : proc'[t].core = proc[t].core
            BY <1>15 DEF ProcExits
        <2> QED
            BY <1>15, <2>1 DEF ProcExits
    <1>16. ASSUME NEW u \in Tunnels, EditCore(u)
           PROVE  PureIsPaqet' /\ pure' \subseteq pure
        BY <1>16 DEF EditCore
    <1>17. ASSUME NEW u \in Tunnels, Delete(u)
           PROVE  PureIsPaqet' /\ pure' \subseteq pure
        BY <1>17 DEF Delete
    <1>18. CASE UNCHANGED vars
        BY <1>18 DEF vars
    <1> QED
        BY <1>1, <1>2, <1>3, <1>4, <1>5, <1>6, <1>7, <1>8, <1>9, <1>10, <1>11,
           <1>12, <1>13, <1>14, <1>15, <1>16, <1>17, <1>18 DEF Next, Collector, Sync

\* A base that is known keeps its last reading: what resets a rule or forgets a
\* reading forgets the base.
LEMMA CurrentNext ==
    ASSUME LedgerInv, PortsApart, [Next]_vars, TrafficTypeOK', pure' \subseteq pure
    PROVE  AllCurrent'
    <1> SUFFICES ASSUME NEW t \in pure' PROVE Current(t)'
        BY DEF AllCurrent
    <1> USE DEF panelVars, hostVars, reportVars, bounds
    <1>0. /\ t \in pure /\ t \in Tunnels /\ Current(t)
          /\ proc[t].core # "hawal"
        BY DEF LedgerInv, AllCurrent, TrafficTypeOK, PureIsPaqet
    <1>1. ASSUME rules' = rules, counter' = counter, last' = last,
                 base'[t] \in {base[t], Unseen}
          PROVE  Current(t)'
        BY <1>0, <1>1 DEF Current
    <1>2. ASSUME base'[t] = Unseen PROVE Current(t)'
        BY <1>2 DEF Current
    <1>3. CASE Collector
        BY <1>1, <1>3 DEF Collector, StartPass, Poll, EndPass
    <1>4. CASE Report
        <2>1. rules' = rules /\ counter' = counter
            BY <1>4 DEF Report
        <2>2. last'[t]["paqet"] = IF Readable(t) /\ "paqet" = proc[t].core
                                  THEN Reading(t) ELSE last[t]["paqet"]
            BY <1>0, <1>4 DEF Report, Remembered, Cores
        <2>3. CASE Readable(t)
            <3>1. proc[t].core = "paqet"
                BY <1>0, <2>3, ProcTypes DEF Readable, Cores, LedgerInv
            <3>2. t \in rules /\ Reading(t) = counter[t]
                BY <1>0, <2>3, <3>1, OwnLine DEF Readable, Reading, LedgerInv
            <3>3. counter[t] \in Nat
                BY <1>0 DEF LedgerInv, TrafficTypeOK
            <3> QED
                BY <2>1, <2>2, <2>3, <3>1, <3>2, <3>3 DEF Current, Unseen
        <2>4. CASE ~ Readable(t)
            <3>1. base'[t] = base[t] /\ last'[t]["paqet"] = last[t]["paqet"]
                BY <1>0, <1>4, <2>2, <2>4 DEF Report
            <3> QED
                BY <1>0, <2>1, <3>1 DEF Current
        <2> QED
            BY <2>3, <2>4
    <1>5. CASE Arrive \/ ArriveLate \/ TimeOut
        BY <1>1, <1>5 DEF Arrive, ArriveLate, TimeOut
    <1>6. CASE Lose \/ LoseLate \/ PanelRestarts
        <2>1. base'[t] \in {base[t], Unseen}
            BY <1>0, <1>6 DEF Lose, LoseLate, PanelRestarts, Disturbed
        <2> QED
            BY <1>1, <1>6, <2>1 DEF Lose, LoseLate, PanelRestarts
    <1>7. CASE AgentRestarts \/ AgentKilled
        BY <1>0, <1>2, <1>7 DEF AgentRestarts, AgentKilled, Forget
    <1>8. CASE Stall \/ Leave
        BY <1>1, <1>8 DEF Stall, Leave
    <1>9. ASSUME NEW u \in Tunnels, CarryPackets(u)
          PROVE  Current(t)'
        <2>1. /\ rules' = rules /\ last' = last /\ base' = base
              /\ counter' = [counter EXCEPT ![u] = @ + 1]
            BY <1>9 DEF CarryPackets
        <2>2. counter[t] \in Nat /\ last[t]["paqet"] \in Nat \cup {Unseen}
            BY <1>0 DEF LedgerInv, TrafficTypeOK, Cores
        <2>3. counter'[t] \in {counter[t], counter[t] + 1}
            BY <1>0, <2>1 DEF LedgerInv, TrafficTypeOK
        <2> QED
            BY <1>0, <2>1, <2>2, <2>3 DEF Current, Unseen
    <1>10. ASSUME NEW u \in Tunnels, CarryStream(u) \/ ProcExits(u) \/ EditCore(u) \/ Delete(u)
           PROVE  Current(t)'
        BY <1>1, <1>10 DEF CarryStream, ProcExits, EditCore, Delete
    <1>11. ASSUME NEW u \in Tunnels, Sync(u) PROVE Current(t)'
        <2>1. CASE t = u
            BY <1>0, <1>2, <1>11, <2>1 DEF Sync, Apply, RemoveProc, LedgerInv, TrafficTypeOK
        <2>2. CASE t # u
            <3>1. base'[t] = base[t] /\ last' = last
                BY <1>0, <1>11, <2>2 DEF Sync, Apply, RemoveProc, LedgerInv, TrafficTypeOK
            <3>2. t \notin OwnRules(u)
                BY <2>2 DEF OwnRules
            <3>3. (t \in rules' <=> t \in rules) /\ counter'[t] = counter[t]
                BY <1>0, <1>11, <2>2, <3>2
                   DEF Sync, Apply, RemoveProc, Configure, Cleanup
            <3> QED
                BY <1>0, <3>1, <3>3 DEF Current
        <2> QED
            BY <2>1, <2>2
    <1>12. CASE UNCHANGED vars
        BY <1>1, <1>12 DEF vars
    <1> QED
        BY <1>3, <1>4, <1>5, <1>6, <1>7, <1>8, <1>9, <1>10, <1>11, <1>12 DEF Next

\* Every step keeps the books.
LEMMA BooksNext ==
    ASSUME LedgerInv, PortsApart, [Next]_vars, TrafficTypeOK', pure' \subseteq pure
    PROVE  AllBooks'
    <1> SUFFICES ASSUME NEW t \in pure' PROVE Books(t)'
        BY DEF AllBooks
    <1> USE DEF panelVars, hostVars, reportVars, bounds
    <1>0. /\ t \in pure /\ t \in Tunnels /\ Books(t) /\ Current(t)
          /\ row[t].core = "paqet" /\ t \notin col.todo
          /\ TrafficTypeOK
        BY DEF LedgerInv, AllBooks, AllCurrent, TrafficTypeOK, PureIsPaqet
    <1>n. /\ Counted(t) \in Nat /\ Unreported(t) \in Nat
          /\ row[t].bytes \in Nat /\ post[t] \in Nat /\ late[t] \in Nat
          /\ carried[t] \in Nat /\ base[t] \in Int
        BY <1>0, SumsNat DEF TrafficTypeOK
    <1>p. post \in [Tunnels -> Nat] /\ late \in [Tunnels -> Nat]
        BY <1>0 DEF TrafficTypeOK
    \* A step that leaves all four parts of the books alone.
    <1>s. ASSUME row'[t].bytes = row[t].bytes, post' = post, late' = late,
                 rules' = rules, counter' = counter, last' = last,
                 carried' = carried, base' = base
          PROVE  Books(t)'
        BY <1>0, <1>s DEF Books, Counted, Unreported
    \* A step of the network: the rule is not touched.
    <1>w. ASSUME Counted(t)' =< Counted(t),
                 \/ base'[t] = Unseen
                 \/ base'[t] = base[t] /\ Counted(t)' = Counted(t),
                 rules' = rules, counter' = counter, last' = last,
                 carried' = carried
          PROVE  Books(t)'
        <2>1. Unreported(t)' = Unreported(t)
            BY <1>w DEF Unreported
        <2>2. Counted(t)' \in Nat
            BY <1>0, SumsNatNext
        <2> QED
            BY <1>0, <1>n, <1>w, <2>1, <2>2, BooksKept
    <1>1. CASE StartPass \/ EndPass \/ Stall \/ Leave
        BY <1>1, <1>s DEF StartPass, EndPass, Stall, Leave
    <1>2. ASSUME NEW u \in Tunnels, Poll(u) PROVE Books(t)'
        <2>1. t # u
            BY <1>0, <1>2 DEF Poll
        <2>2. row'[t] = row[t]
            BY <1>0, <1>2, <2>1 DEF Poll, SetAbsolute, TrafficTypeOK
        <2> QED
            BY <1>2, <1>s, <2>2 DEF Poll
    <1>3. CASE Report
        <2>1. /\ Counted(t)' = Counted(t) + Delta(t)
              /\ Delta(t) + Unreported(t)' = Unreported(t)
              /\ Delta(t) \in Nat
            BY <1>0, <1>3, ReportMoves
        <2>2. Counted(t)' \in Nat /\ Unreported(t)' \in Nat
            BY <1>0, SumsNatNext
        <2>3. carried'[t] = carried[t]
            BY <1>3 DEF Report
        <2>4. CASE Readable(t) /\ base[t] = Unseen
            <3>1. base'[t] = carried[t] - Counted(t) - Delta(t)
                BY <1>0, <1>3, <2>4 DEF Report
            <3>2. Unreported(t)' = 0
                <4>1. proc[t].core = "paqet"
                    BY <1>0, <2>4, ProcTypes DEF Readable, Cores, LedgerInv, PureIsPaqet
                <4>2. t \in rules /\ Reading(t) = counter[t]
                    BY <1>0, <2>4, <4>1, OwnLine DEF Readable, Reading
                <4>3. Delta(t) = Unreported(t)
                    BY <2>4, <4>1, <4>2 DEF Delta, Unreported, LastReading
                <4> QED
                    BY <1>n, <2>1, <2>2, <4>3
            <3> QED
                BY <1>0, <1>n, <2>1, <2>2, <2>3, <3>1, <3>2 DEF Books
        <2>5. CASE ~ (Readable(t) /\ base[t] = Unseen)
            <3>1. base'[t] = base[t]
                BY <1>0, <1>3, <2>5 DEF Report
            <3>2. Counted(t)' + Unreported(t)' = Counted(t) + Unreported(t)
                BY <1>n, <2>1, <2>2
            <3> QED
                BY <1>0, <1>n, <2>2, <2>3, <3>1, <3>2, BooksKept
        <2> QED
            BY <2>4, <2>5
    <1>4. CASE Arrive
        <2>1. row'[t].bytes = row[t].bytes + post[t]
            BY <1>0, <1>p, <1>4, AddTypes DEF Arrive
        <2>2. post'[t] = 0 /\ late'[t] = late[t]
            BY <1>0, <1>4 DEF Arrive, Zero
        <2>3. Counted(t)' = Counted(t)
            BY <1>n, <2>1, <2>2 DEF Counted
        <2> QED
            BY <1>4, <1>n, <1>w, <2>3 DEF Arrive
    <1>5. CASE TimeOut
        <2>1. row'[t].bytes = row[t].bytes /\ late[t] = 0
            BY <1>0, <1>5 DEF TimeOut, Zero
        <2>2. post'[t] = 0 /\ late'[t] = post[t]
            BY <1>0, <1>5 DEF TimeOut, Zero
        <2>3. Counted(t)' = Counted(t)
            BY <1>n, <2>1, <2>2 DEF Counted
        <2> QED
            BY <1>5, <1>n, <1>w, <2>3 DEF TimeOut
    <1>6. CASE ArriveLate
        <2>1. row'[t].bytes = row[t].bytes + late[t]
            BY <1>0, <1>p, <1>6, AddTypes DEF ArriveLate
        <2>2. late'[t] = 0 /\ post'[t] = post[t]
            BY <1>0, <1>6 DEF ArriveLate, Zero
        <2>3. Counted(t)' = Counted(t)
            BY <1>n, <2>1, <2>2 DEF Counted
        <2> QED
            BY <1>6, <1>n, <1>w, <2>3 DEF ArriveLate
    <1>7. CASE Lose
        <2>1. Counted(t)' = Counted(t) - post[t]
            BY <1>0, <1>n, <1>7 DEF Lose, Counted, Zero
        <2>2. base'[t] = IF post[t] > 0 THEN Unseen ELSE base[t]
            BY <1>0, <1>7 DEF Lose, Disturbed
        <2> QED
            BY <1>7, <1>n, <1>w, <2>1, <2>2 DEF Lose
    <1>8. CASE LoseLate
        <2>1. Counted(t)' = Counted(t) - late[t]
            BY <1>0, <1>n, <1>8 DEF LoseLate, Counted, Zero
        <2>2. base'[t] = IF late[t] > 0 THEN Unseen ELSE base[t]
            BY <1>0, <1>8 DEF LoseLate, Disturbed
        <2> QED
            BY <1>8, <1>n, <1>w, <2>1, <2>2 DEF LoseLate
    <1>9. CASE PanelRestarts
        <2>1. PICK S \in SUBSET Tunnels : row' = Add(post, S)
            BY <1>9 DEF PanelRestarts
        <2>2. row'[t].bytes \in {row[t].bytes, row[t].bytes + post[t]}
            BY <1>0, <1>p, <2>1, AddTypes
        <2>3. post'[t] = 0 /\ late'[t] = late[t]
            BY <1>0, <1>9 DEF PanelRestarts, Zero
        <2>4. Counted(t)' =< Counted(t) /\ (post[t] = 0 => Counted(t)' = Counted(t))
            BY <1>n, <2>2, <2>3 DEF Counted
        <2>5. base'[t] = IF post[t] > 0 THEN Unseen ELSE base[t]
            BY <1>0, <1>9 DEF PanelRestarts, Disturbed
        <2> QED
            BY <1>9, <1>n, <1>w, <2>4, <2>5 DEF PanelRestarts
    <1>10. CASE AgentRestarts \/ AgentKilled
        <2>1. row'[t] = row[t] /\ post'[t] = 0
            BY <1>0, <1>10 DEF AgentRestarts, AgentKilled, Forget, Zero
        <2>2. late'[t] = IF Idle THEN late[t] ELSE post[t]
            BY <1>10 DEF AgentRestarts, AgentKilled, Forget
        <2>3. Idle => post[t] = 0
            BY <1>0 DEF Idle, Zero
        <2>4. ~ Idle => late[t] = 0
            BY <1>0, <1>10 DEF AgentRestarts, AgentKilled, Forget, Zero
        <2>5. Counted(t)' = Counted(t)
            BY <1>n, <2>1, <2>2, <2>3, <2>4 DEF Counted
        <2>6. last'[t]["paqet"] = Unseen
            BY <1>0, <1>10 DEF AgentRestarts, AgentKilled, Forget, Cores
        <2>7. Unreported(t)' = 0
            BY <2>6 DEF Unreported, Gain
        <2>8. base'[t] = Unseen /\ carried'[t] = carried[t]
            BY <1>0, <1>10 DEF AgentRestarts, AgentKilled, Forget
        <2> QED
            BY <1>0, <1>n, <2>5, <2>7, <2>8, BooksKept
    <1>11. ASSUME NEW u \in Tunnels, CarryPackets(u) PROVE Books(t)'
        <2>1. /\ rules' = rules /\ last' = last /\ base' = base
              /\ u \in rules
              /\ counter' = [counter EXCEPT ![u] = @ + 1]
              /\ carried' = IF u \in pure THEN [carried EXCEPT ![u] = @ + 1] ELSE carried
            BY <1>11 DEF CarryPackets
        <2>2. Counted(t)' = Counted(t)
            BY <1>11 DEF CarryPackets, Counted
        <2>3. counter[t] \in Nat /\ last[t]["paqet"] \in Nat \cup {Unseen}
            BY <1>0 DEF TrafficTypeOK, Cores
        <2>4. CASE t = u
            <3>1. counter'[t] = counter[t] + 1 /\ carried'[t] = carried[t] + 1
                BY <1>0, <2>1, <2>4 DEF TrafficTypeOK
            <3>2. Unreported(t) = Gain(counter[t], last[t]["paqet"])
                BY <2>1, <2>4 DEF Unreported
            <3>3. Unreported(t)' = Gain(counter[t] + 1, last[t]["paqet"])
                BY <2>1, <2>4, <3>1 DEF Unreported
            <3>4. Unreported(t)' \in Unreported(t) .. Unreported(t) + 1
                BY <2>3, <3>2, <3>3, GainNat
            <3>5. base[t] # Unseen => Unreported(t)' = Unreported(t) + 1
                <4>1. base[t] # Unseen =>
                        last[t]["paqet"] # Unseen /\ last[t]["paqet"] =< counter[t]
                    BY <1>0 DEF Current
                <4> QED
                    BY <2>3, <3>2, <3>3, <4>1 DEF Gain, Unseen
            <3> QED
                BY <1>0, <1>n, <2>1, <2>2, <3>1, <3>4, <3>5 DEF Books
        <2>5. CASE t # u
            <3>1. counter'[t] = counter[t] /\ carried'[t] = carried[t]
                BY <1>0, <2>1, <2>5 DEF TrafficTypeOK
            <3>2. Unreported(t)' = Unreported(t)
                BY <2>1, <3>1 DEF Unreported
            <3> QED
                BY <1>0, <1>n, <2>1, <2>2, <3>1, <3>2, BooksKept
        <2> QED
            BY <2>4, <2>5
    <1>12. ASSUME NEW u \in Tunnels, CarryStream(u) \/ ProcExits(u) PROVE Books(t)'
        BY <1>12, <1>s DEF CarryStream, ProcExits
    <1>13. ASSUME NEW u \in Tunnels, EditCore(u) \/ Delete(u) PROVE Books(t)'
        <2>1. t # u
            BY <1>0, <1>13 DEF EditCore, Delete
        <2>2. row'[t] = row[t]
            BY <1>0, <1>13, <2>1 DEF EditCore, Delete, TrafficTypeOK
        <2> QED
            BY <1>13, <1>s, <2>2 DEF EditCore, Delete
    <1>14. ASSUME NEW u \in Tunnels, Sync(u) PROVE Books(t)'
        <2>1. /\ row' = row /\ post' = post /\ late' = late /\ last' = last
              /\ carried' = carried
              /\ base' = [base EXCEPT ![u] = Unseen]
            BY <1>14 DEF Sync, Apply, RemoveProc
        <2>2. Counted(t)' = Counted(t)
            BY <2>1 DEF Counted
        <2>3. OwnRules(u) \in SUBSET {u}
            BY DEF OwnRules
        <2>4. Cleanup(OwnRules(u)) \/ Configure(u, OwnRules(u))
            BY <1>14 DEF Sync, Apply, RemoveProc
        <2>5. /\ Unreported(t)' =< Unreported(t)
              /\ t # u => Unreported(t)' = Unreported(t)
            <3>1. CASE Cleanup(OwnRules(u))
                BY <1>0, <2>1, <2>3, <3>1, CleanupUnread
            <3>2. CASE Configure(u, OwnRules(u))
                BY <1>0, <2>1, <2>3, <3>2, ConfigureUnread
            <3> QED
                BY <2>4, <3>1, <3>2
        <2>6. Unreported(t)' \in Nat
            BY <1>0, SumsNatNext
        <2>7. base'[t] = IF t = u THEN Unseen ELSE base[t]
            BY <1>0, <2>1 DEF TrafficTypeOK
        <2>8. Counted(t)' + Unreported(t)' =< Counted(t) + Unreported(t)
            BY <1>n, <2>2, <2>5, <2>6
        <2> QED
            BY <1>0, <1>n, <2>1, <2>2, <2>5, <2>6, <2>7, <2>8, BooksKept
    <1>15. CASE UNCHANGED vars
        BY <1>15, <1>s DEF vars
    <1> QED
        BY <1>1, <1>2, <1>3, <1>4, <1>5, <1>6, <1>7, <1>8, <1>9, <1>10, <1>11,
           <1>12, <1>13, <1>14, <1>15 DEF Next, Collector

\* The books of a Paqet tunnel are right in every state.
LEMMA LedgerAlways ==
    ASSUME PortsApart
    PROVE  Spec => []LedgerInv
    <1>1. LedgerInv /\ [Next]_vars => LedgerInv'
        <2> SUFFICES ASSUME LedgerInv, [Next]_vars PROVE LedgerInv'
            OBVIOUS
        <2>1. TrafficTypeOK'
            BY NextTypes DEF LedgerInv
        <2>2. PureIsPaqet' /\ pure' \subseteq pure
            BY PureNext DEF LedgerInv
        <2> QED
            BY <2>1, <2>2, CurrentNext, BooksNext DEF LedgerInv
    <1> QED
        BY <1>1, LedgerInit, PTL DEF Spec

\* With no port the beginning of another, no byte of a Paqet tunnel is counted
\* twice (agent.py, track_and_report_traffic), for any number of tunnels,
\* bytes, lost or late reports, restarts and kills.
THEOREM NoByteTwice ==
    ASSUME PortsApart
    PROVE  Spec => []NoOvercount
    <1>1. LedgerInv => NoOvercount
        BY DEF LedgerInv, AllBooks, Books, NoOvercount
    <1> QED
        BY <1>1, LedgerAlways, PTL

\* And none is lost but by the disturbances that forget the base.
THEOREM NoByteForgotten ==
    ASSUME PortsApart
    PROVE  Spec => []ExactBetweenLosses
    <1>1. LedgerInv => ExactBetweenLosses
        BY DEF LedgerInv, AllBooks, Books, ExactBetweenLosses
    <1> QED
        BY <1>1, LedgerAlways, PTL

\* What is read for a tunnel is its own rule's counter, if ports are apart: what
\* the docstring of _iptables_bytes says (agent.py:560) holds exactly as far.
THEOREM OwnCounter ==
    ASSUME PortsApart
    PROVE  Spec => []CounterOfOwnRule
    <1>1. TrafficTypeOK => CounterOfOwnRule
        <2> SUFFICES ASSUME TrafficTypeOK, NEW t \in rules
                     PROVE  IptablesBytes(t) = counter[t]
            BY DEF CounterOfOwnRule
        <2>1. t \in Tunnels /\ \A w \in above[t] : w \in Tunnels /\ w # t
            BY DEF TrafficTypeOK
        <2>2. Matches(t, t)
            <3>1. CorePort[t] \in Int
                <4>1. CorePort \in [Tunnels -> TcpPorts]
                    BY TrafficAssumption
                <4>2. CorePort[t] \in TcpPorts
                    BY <2>1, <4>1
                <4> QED
                    BY <4>2 DEF TcpPorts
            <3>2. CorePort[t] = CorePort[t] \div 1
                BY <3>1
            <3> QED
                BY <3>2 DEF Matches
        <2>3. \A w \in above[t] : ~ Matches(t, w)
            BY <2>1 DEF PortsApart
        <2>4. t \in FirstLine(t)
            BY <2>2, <2>3 DEF FirstLine
        <2> QED
            BY <2>1, <2>4, OwnLine
    <1> QED
        BY <1>1, TrafficTypeCorrect, PTL

-----------------------------------------------------------------------------
(* What the collector may undo *)

\* Only the collector lowers a row, and not below what it read.
LEMMA RowsNext ==
    ASSUME TrafficTypeOK, [Next]_vars, NEW t \in Tunnels
    PROVE  \/ row'[t].bytes >= row[t].bytes
           \/ /\ Poll(t)
              /\ row'[t].bytes >= col.snap[t]
    <1> USE DEF panelVars, hostVars, reportVars, bounds
    <1>0. /\ row[t].bytes \in Nat
          /\ post \in [Tunnels -> Nat] /\ late \in [Tunnels -> Nat]
          /\ row \in [Tunnels -> [core : Cores \cup {"none"}, bytes : Nat]]
          /\ col.snap[t] \in Nat
        BY DEF TrafficTypeOK
    <1>1. ASSUME row'[t] = row[t] PROVE row'[t].bytes >= row[t].bytes
        BY <1>0, <1>1
    <1>2. ASSUME NEW report \in [Tunnels -> Nat], NEW S, row' = Add(report, S)
          PROVE  row'[t].bytes >= row[t].bytes
        BY <1>0, <1>2, AddTypes
    <1>3. ASSUME NEW u \in Tunnels, Poll(u)
          PROVE  \/ row'[t].bytes >= row[t].bytes
                 \/ Poll(t) /\ row'[t].bytes >= col.snap[t]
        <2>1. CASE u # t
            <3>1. row'[t] = row[t]
                BY <1>0, <1>3, <2>1 DEF Poll, SetAbsolute
            <3> QED
                BY <1>1, <3>1
        <2>2. CASE u = t
            <3>1. PICK cur \in 0 .. MaxSocket, twin \in BOOLEAN :
                     IF cur > col.snap[t] \/ twin
                     THEN row' = SetAbsolute(t, Larger(col.snap[t], cur)) /\ PassGoesOn(t, TRUE)
                     ELSE UNCHANGED row /\ PassGoesOn(t, FALSE)
                BY <1>3, <2>2 DEF Poll
            <3>2. CASE (cur > col.snap[t] \/ twin) /\ row[t].core # "none"
                <4>1. row'[t].bytes = Larger(col.snap[t], cur)
                    BY <1>0, <3>1, <3>2 DEF SetAbsolute
                <4>2. Larger(col.snap[t], cur) >= col.snap[t]
                    BY <1>0, LargerNat
                <4> QED
                    BY <1>3, <2>2, <4>1, <4>2
            <3>3. CASE ~ ((cur > col.snap[t] \/ twin) /\ row[t].core # "none")
                <4>1. row'[t] = row[t]
                    BY <3>1, <3>3 DEF SetAbsolute
                <4> QED
                    BY <1>1, <4>1
            <3> QED
                BY <3>2, <3>3
        <2> QED
            BY <2>1, <2>2
    <1>4. CASE Arrive \/ ArriveLate
        BY <1>0, <1>2, <1>4 DEF Arrive, ArriveLate
    <1>5. CASE PanelRestarts
        BY <1>0, <1>2, <1>5 DEF PanelRestarts
    <1>6. ASSUME NEW u \in Tunnels, EditCore(u) \/ Delete(u)
          PROVE  row'[t].bytes >= row[t].bytes
        <2>1. row'[t].bytes = row[t].bytes
            BY <1>0, <1>6 DEF EditCore, Delete
        <2> QED
            BY <1>0, <2>1
    <1>7. CASE \/ StartPass \/ EndPass \/ Report \/ TimeOut \/ Lose \/ LoseLate
               \/ AgentRestarts \/ AgentKilled \/ Stall \/ Leave
        <2>1. row' = row
            BY <1>7 DEF StartPass, EndPass, Report, TimeOut, Lose, LoseLate,
                        AgentRestarts, AgentKilled, Forget, Stall, Leave
        <2> QED
            BY <1>1, <2>1
    <1>8. ASSUME NEW u \in Tunnels,
                 CarryPackets(u) \/ CarryStream(u) \/ Sync(u) \/ ProcExits(u)
          PROVE  row'[t].bytes >= row[t].bytes
        <2>1. row' = row
            BY <1>8 DEF CarryPackets, CarryStream, Sync, Apply, RemoveProc, ProcExits
        <2> QED
            BY <1>1, <2>1
    <1>9. CASE UNCHANGED vars
        BY <1>1, <1>9 DEF vars
    <1> QED
        BY <1>3, <1>4, <1>5, <1>6, <1>7, <1>8, <1>9 DEF Next, Collector

\* The collector's absolute writes undo reports that arrived during its pass at
\* most (server.py:145).
THEOREM UndoesItsPassOnly == Spec => UndoesNoMoreThanItsPass
    <1>1. TrafficTypeOK /\ [Next]_vars =>
            [\A t \in Tunnels : row'[t].bytes < row[t].bytes =>
                col.at = "pass" /\ row'[t].bytes >= col.snap[t]]_vars
        <2> SUFFICES ASSUME TrafficTypeOK, [Next]_vars, NEW t \in Tunnels,
                            row'[t].bytes < row[t].bytes
                     PROVE  col.at = "pass" /\ row'[t].bytes >= col.snap[t]
            OBVIOUS
        <2>1. TrafficTypeOK'
            BY NextTypes
        <2>2. row[t].bytes \in Nat /\ row'[t].bytes \in Nat
            BY <2>1 DEF TrafficTypeOK
        <2>3. Poll(t) /\ row'[t].bytes >= col.snap[t]
            BY <2>2, RowsNext
        <2> QED
            BY <2>3 DEF Poll
    <1> QED
        BY <1>1, TrafficTypeCorrect, PTL DEF Spec, UndoesNoMoreThanItsPass

\* A tunnel that was Paqet from its creation is in no pass, so that its counter
\* never goes back, ports apart or not.
THEOREM PaqetNeverUndone == Spec => NeverUndone
    <1>1. Init => TrafficTypeOK /\ PureIsPaqet
        BY InitTypes DEF Init, PureIsPaqet, Asleep, NoProc
    <1>2. TrafficTypeOK /\ PureIsPaqet /\ [Next]_vars => (TrafficTypeOK /\ PureIsPaqet)'
        BY NextTypes, PureNext
    <1>3. TrafficTypeOK /\ PureIsPaqet /\ [Next]_vars =>
            [\A t \in pure \cap pure' : row'[t].bytes >= row[t].bytes]_vars
        <2> SUFFICES ASSUME TrafficTypeOK, PureIsPaqet, [Next]_vars, NEW t \in pure
                     PROVE  row'[t].bytes >= row[t].bytes
            OBVIOUS
        <2>1. t \in Tunnels /\ t \notin col.todo
            BY DEF TrafficTypeOK, PureIsPaqet
        <2>2. ~ Poll(t)
            BY <2>1 DEF Poll
        <2> QED
            BY <2>1, <2>2, RowsNext
    <1> QED
        BY <1>1, <1>2, <1>3, PTL DEF Spec, NeverUndone
=============================================================================
