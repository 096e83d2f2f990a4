------------------------------ MODULE MuxStream ------------------------------
(***************************************************************************)
(* What a multiplexed stream promises to the two connections it joins: in  *)
(* each direction a pipe of chunks. What comes out is the beginning of     *)
(* what went in, each chunk once and in order, and nothing comes out after *)
(* the end. A pipe may end early, with chunks still in it: the loss of the *)
(* transport, a reset, a blocked reader. The streams are numbered, and one *)
(* that ends leaves the others alone.                                      *)
(***************************************************************************)
EXTENDS Naturals

CONSTANTS
    Sides,      \* the two ends
    Peer(_),    \* the other end
    Ids         \* the streams

VARIABLES
    in,         \* side -> stream -> chunks the side wrote
    out,        \* side -> stream -> chunks the side was given
    ended       \* side -> stream -> the side is given no more

vars == <<in, out, ended>>

Init ==
    /\ in = [s \in Sides |-> [k \in Ids |-> 0]]
    /\ out = [s \in Sides |-> [k \in Ids |-> 0]]
    /\ ended = [s \in Sides |-> [k \in Ids |-> FALSE]]

Write(s, k) ==
    /\ in' = [in EXCEPT ![s][k] = @ + 1]
    /\ UNCHANGED <<out, ended>>

\* The next chunk that the other side wrote.
Give(s, k) ==
    /\ ~ ended[s][k]
    /\ out[s][k] < in[Peer(s)][k]
    /\ out' = [out EXCEPT ![s][k] = @ + 1]
    /\ UNCHANGED <<in, ended>>

End(s, k) ==
    /\ ~ ended[s][k]
    /\ ended' = [ended EXCEPT ![s][k] = TRUE]
    /\ UNCHANGED <<in, out>>

Next == \E s \in Sides, k \in Ids : Write(s, k) \/ Give(s, k) \/ End(s, k)

Spec == Init /\ [][Next]_vars
=============================================================================
