----------------------------- MODULE AgentHistory -----------------------------
(***************************************************************************)
(* ControlPlane with two history variables: the answer an agent is working *)
(* from, and the tunnels a failure has met since that answer came.  They   *)
(* observe and constrain nothing: without them HSpec is Spec.              *)
(***************************************************************************)
EXTENDS ControlPlane

VARIABLES
    answer,         \* host -> items of the last answer its agent was given
    spoilt          \* host -> tunnels a failure met since

history == <<answer, spoilt>>
hvars == <<vars, history>>

Ids(items) == {i.tunnel_id : i \in items}

HTypeOK ==
    /\ answer \in [Hosts -> SUBSET Item]
    /\ spoilt \in [Hosts -> SUBSET TunnelIds]

HInit ==
    /\ Init
    /\ answer = [h \in Hosts |-> {}]
    /\ spoilt = [h \in Hosts |-> {}]

\* The process of tunnel t runs before the step and not after it.
Ends(h, t) ==
    /\ t \in DOMAIN procs[h] /\ procs[h][t].alive
    /\ t \in DOMAIN procs'[h] => ~ procs'[h][t].alive

\* The tunnels a failure meets: those whose process it ends, the one whose
\* new configuration is passed over, and all that an aborted apply_configs
\* has not come to, tunnels to be removed included.
Hit(h) ==
    {t \in TunnelIds :
        \/ Ends(h, t)
        \/ \E i \in pending[h] \ pending'[h] : i.tunnel_id = t /\ ~ UpToDate(h, i)
        \/ pc[h] = "apply" /\ pc'[h] = "end" /\ t \notin active[h]}

\* An agent that ended holds no answer; a new answer starts a new account.
Record(h, hit) ==
    LET ended    == pc'[h] = "down"
        answered == pc[h] = "sync" /\ pc'[h] = "apply"
    IN  /\ answer' = [answer EXCEPT ![h] = IF ended THEN {}
                                           ELSE IF answered THEN pending'[h]
                                           ELSE @]
        /\ spoilt' = [spoilt EXCEPT ![h] = IF ended \/ answered THEN {}
                                           ELSE @ \cup hit]

HNext ==
    \/ Operator /\ UNCHANGED history
    \/ \E h \in Hosts : AgentStep(h) /\ Record(h, {})
    \/ \E h \in Hosts : Failure(h) /\ Record(h, Hit(h))
    \/ \E h \in Hosts, n \in NodeIds : Install(h, n) /\ Record(h, Hit(h))

HSpec == HInit /\ [][HNext]_hvars

-----------------------------------------------------------------------------
(* Properties *)

\* The tunnel of item i runs with exactly that configuration.
InForce(h, i) ==
    /\ i.tunnel_id \in DOMAIN procs[h]
    /\ procs[h][i.tunnel_id] = [item |-> i, alive |-> TRUE]

\* Whatever failed in the iterations before: from the moment an agent has
\* applied an item of an answer until it is given the next answer, through
\* lost heartbeats, refused and lost syncs, saves and reports, the host runs
\* that item, and after the apply it runs nothing the answer does not
\* contain. Only tunnels that a failure met since the answer came differ.
AnswerInForce ==
    \A h \in Hosts : pc[h] # "exit" =>
        /\ \A i \in answer[h] :
              \/ i.tunnel_id \in spoilt[h]
              \/ pc[h] = "apply" /\ i \in pending[h]
              \/ InForce(h, i)
        /\ pc[h] # "apply" => DOMAIN procs[h] \ spoilt[h] \subseteq Ids(answer[h])

\* No step of an agent, the apply of an answer least of all, stops or
\* changes a running tunnel whose configuration is in the agent's answer: a
\* tunnel is interrupted by its own failure or by a change of its own
\* configuration, never by those of other tunnels, until the agent exits.
UpToDateKeptRunning ==
    [][events' = events =>
          \A h \in Hosts : pc[h] # "exit" =>
             \A t \in DOMAIN procs[h] :
                procs[h][t].alive /\ procs[h][t].item \in answer[h]
                => t \in DOMAIN procs'[h] /\ procs'[h][t] = procs[h][t]
      ]_hvars
=============================================================================
