---------------------------- MODULE MuxCloseProofs ----------------------------
(***************************************************************************)
(* Theorems about how streams end, for any number of streams, chunks and   *)
(* pings and any capacities: what a side wrote before it closed a stream   *)
(* reaches the other side, and readLoop never waits for a stream it gave   *)
(* up.                                                                     *)
(*                                                                         *)
(* The invariant relates what took a stream on one side with the close     *)
(* frame it sends, the data before that frame, and what took the stream on *)
(* the other side. Where the frame is read, FlowInv says that wire and     *)
(* readChan hold all that was written; as the wire has none of it left,    *)
(* readChan has it all.                                                    *)
(***************************************************************************)
EXTENDS MuxFlowProofs

-----------------------------------------------------------------------------
(* The invariant *)

\* A close frame of stream k, in position i of the wire w.
CloseAt(w, k, i) == w[i].type = "close" /\ w[i].id = k

NoClose(w, k) == \A i \in DOMAIN w : ~ CloseAt(w, k, i)

\* No data of stream k behind a close frame of it.
DataFirst(w, k) ==
    \A i \in DOMAIN w : CloseAt(w, k, i) => \A j \in DataAt(w, k) : j < i

\* Who took the stream, and where that one is now: a copier has left its loop
\* for good, readLoop has its close frame still to write.
Who(s, k) ==
    /\ taker[s][k] # "none" => chan[s][k].state = "closed"
    /\ taker[s][k] = "copier" => pump[s][k] \in {"closeframe", "done"}
    /\ pump[s][k] = "closeframe" => taker[s][k] = "copier"
    /\ reader[s].id = k =>
          /\ reader[s].at = "closeframe" => taker[s][k] = "readLoop"
          /\ reader[s].at = "deliver"
                => taker[s][k] \in {"none", "copier", "session"}

\* A close frame on the wire comes from one of the two that write it, and
\* the copier's is behind all data.
Behind(s, k) ==
    ~ NoClose(wire[s], k) =>
        /\ taker[s][k] \in {"copier", "readLoop"}
        /\ taker[s][k] = "copier"
              => pump[s][k] = "done" /\ DataFirst(wire[s], k)

\* A stream that was closed from the other side was closed there before.
Earlier(s, k) ==
    taker[s][k] = "peer" => taker[Peer(s)][k] \in {"copier", "readLoop"}

\* A copier that ended without being refused saw the end of the channel.
SawEnd(s, k) ==
    drain[s][k] = "done" /\ k \notin refused[s] =>
        chan[s][k].state = "closed" /\ chan[s][k].q = <<>>

\* After the end of the other side's copier readChan has all that is left.
Rest(s, k) ==
    taker[s][k] = "peer" /\ taker[Peer(s)][k] = "copier" /\ k \notin refused[s]
        => got[s][k] + Len(chan[s][k].q) = sent[Peer(s)][k]

CleanEnd(s, k) ==
    Who(s, k) /\ Behind(s, k) /\ Earlier(s, k) /\ SawEnd(s, k) /\ Rest(s, k)

AllEnds == \A s \in Sides, k \in Ids : CleanEnd(s, k)

\* The inductive invariant.
EndsInv == FlowInv /\ HistoryOK /\ AllEnds

-----------------------------------------------------------------------------
(* Close frames on the wire *)

\* A frame that is written goes behind the others.
LEMMA CloseWritten ==
    ASSUME NEW w \in Seq(Frames), NEW f \in Frames, NEW k
    PROVE  /\ NoClose(w, k) /\ ~ (f.type = "close" /\ f.id = k)
                 => NoClose(Append(w, f), k)
           /\ NoClose(w, k) => DataFirst(Append(w, f), k)
           /\ DataFirst(w, k) /\ ~ (f.type = "data" /\ f.id = k)
                 => DataFirst(Append(w, f), k)
  <1> DEFINE v == Append(w, f)
             n == Len(w) + 1
  <1>1. /\ n \in Nat /\ DOMAIN v = 1 .. n /\ v[n] = f
        /\ \A i \in DOMAIN v : i = n \/ (i \in DOMAIN w /\ v[i] = w[i] /\ i < n)
      BY Appended
  <1>2. ASSUME NoClose(w, k), ~ (f.type = "close" /\ f.id = k)
        PROVE  NoClose(v, k)
      BY <1>1, <1>2 DEF NoClose, CloseAt
  <1>3. ASSUME NoClose(w, k) PROVE DataFirst(v, k)
    <2> SUFFICES ASSUME NEW i \in DOMAIN v, CloseAt(v, k, i),
                        NEW j \in DataAt(v, k)
                 PROVE  j < i
        BY DEF DataFirst
    <2>1. i = n /\ f.type = "close"
        BY <1>1, <1>3 DEF NoClose, CloseAt
    <2>2. j \in DOMAIN v /\ v[j].type = "data"
        BY DEF DataAt
    <2> QED
        BY <1>1, <2>1, <2>2
  <1>4. ASSUME DataFirst(w, k), ~ (f.type = "data" /\ f.id = k)
        PROVE  DataFirst(v, k)
    <2> SUFFICES ASSUME NEW i \in DOMAIN v, CloseAt(v, k, i),
                        NEW j \in DataAt(v, k)
                 PROVE  j < i
        BY DEF DataFirst
    <2>1. j \in DOMAIN v /\ v[j].type = "data" /\ v[j].id = k
        BY DEF DataAt
    <2>2. j \in DOMAIN w /\ j \in DataAt(w, k) /\ j < n
        BY <1>1, <1>4, <2>1 DEF DataAt
    <2>3. CASE i = n
        BY <2>2, <2>3
    <2>4. CASE i # n
        BY <1>1, <1>4, <2>2, <2>4 DEF DataFirst, CloseAt
    <2> QED
        BY <2>3, <2>4
  <1> QED
      BY <1>2, <1>3, <1>4

\* The frame that is read was the first: behind a close frame whose stream has
\* its data before it there is none left.
LEMMA CloseRead ==
    ASSUME NEW w \in Seq(Frames), w # <<>>, NEW k
    PROVE  /\ NoClose(w, k) => NoClose(Tail(w), k)
           /\ DataFirst(w, k) => DataFirst(Tail(w), k)
           /\ Head(w).type = "close" /\ Head(w).id = k =>
                 /\ ~ NoClose(w, k)
                 /\ DataFirst(w, k) => DataAt(w, k) = {}
  <1>1. ASSUME NoClose(w, k) PROVE NoClose(Tail(w), k)
      BY <1>1, Read DEF NoClose, CloseAt
  <1>2. ASSUME DataFirst(w, k) PROVE DataFirst(Tail(w), k)
    <2> SUFFICES ASSUME NEW i \in DOMAIN Tail(w), CloseAt(Tail(w), k, i),
                        NEW j \in DataAt(Tail(w), k)
                 PROVE  j < i
        BY DEF DataFirst
    <2>1. i + 1 \in DOMAIN w /\ CloseAt(w, k, i + 1) /\ i \in Nat
        BY Read DEF CloseAt
    <2>2. j + 1 \in DataAt(w, k) /\ j \in Nat
        BY Read DEF DataAt
    <2>3. j + 1 < i + 1
        BY <1>2, <2>1, <2>2 DEF DataFirst
    <2> QED
        BY <2>1, <2>2, <2>3
  <1>3. ASSUME Head(w).type = "close", Head(w).id = k
        PROVE  ~ NoClose(w, k) /\ (DataFirst(w, k) => DataAt(w, k) = {})
    <2>1. 1 \in DOMAIN w /\ CloseAt(w, k, 1)
        BY <1>3, Read DEF CloseAt
    <2>2. ASSUME DataFirst(w, k), NEW j \in DataAt(w, k) PROVE FALSE
      <3>1. j < 1
          BY <2>1, <2>2 DEF DataFirst
      <3>2. j \in 1 .. Len(w)
          BY DEF DataAt
      <3> QED
          BY <3>1, <3>2
    <2> QED
        BY <2>1, <2>2 DEF NoClose
  <1> QED
      BY <1>1, <1>2, <1>3

-----------------------------------------------------------------------------
(* What the histories record, said of a step as a whole *)

\* Who deletes an entry in this step: Session.Close, a copier's closeStream,
\* readLoop's own closeStream, or its FrameStreamClose case.
Taker(s, k) ==
    IF closed'[s] # closed[s] THEN "session"
    ELSE IF pump'[s][k] # pump[s][k] THEN "copier"
    ELSE IF reader[s].at = "drop" THEN "readLoop"
    ELSE "peer"

RecordTaker ==
    taker' = [s \in Sides |-> [k \in Ids |->
                 IF k \in streams[s] \ streams'[s] THEN Taker(s, k)
                                                   ELSE taker[s][k]]]

\* The copier to the connection never starts, as net.Dial fails, or it ends
\* with a chunk that conn.Write does not take.
Refuses(s, k) ==
    /\ drain[s][k] # "done" /\ drain'[s][k] = "done"
    /\ \/ drain[s][k] = "none"
       \/ local[s][k] = "reset" /\ chan[s][k].q # <<>>

RecordRefused ==
    refused' = [s \in Sides |-> refused[s] \cup {k \in Ids : Refuses(s, k)}]

LEMMA Recorded ==
    ASSUME RecordTaker, RecordRefused, NEW s \in Sides, NEW k \in Ids
    PROVE  /\ k \notin streams[s] \/ k \in streams'[s]
                 => taker'[s][k] = taker[s][k]
           /\ k \in streams[s] /\ k \notin streams'[s]
                 => taker'[s][k] = Taker(s, k)
           /\ k \in refused'[s] <=> k \in refused[s] \/ Refuses(s, k)
  <1>1. taker'[s][k] = IF k \in streams[s] \ streams'[s] THEN Taker(s, k)
                                                         ELSE taker[s][k]
      BY DEF RecordTaker
  <1>2. refused'[s] = refused[s] \cup {n \in Ids : Refuses(s, n)}
      BY DEF RecordRefused
  <1> QED
      BY <1>1, <1>2

-----------------------------------------------------------------------------
(* Steps that take no stream *)

\* A copier that has closed its stream goes on to the end.
PumpQuiet(s, k) ==
    \/ pump'[s][k] = pump[s][k]
    \/ pump'[s][k] = "done"
    \/ pump'[s][k] # "closeframe" /\ pump[s][k] \notin {"closeframe", "done"}

\* readLoop takes up a chunk only of a stream nobody has taken.
ReaderQuiet(s, k) ==
    reader'[s].id = k /\ reader'[s].at \in {"closeframe", "deliver"} =>
        \/ reader'[s] = reader[s]
        \/ reader'[s].at = "deliver" /\ taker[s][k] = "none"

\* A close frame is written by the two that have one to write, and data only
\* by a copier that runs.
Writes(s, k, f) ==
    /\ f.type = "data" /\ f.id = k => pump[s][k] = "run"
    /\ f.type = "close" /\ f.id = k =>
          \/ pump[s][k] = "closeframe" /\ pump'[s][k] = "done"
          \/ reader[s].at = "closeframe" /\ reader[s].id = k

WireQuiet(s, k) ==
    \/ wire'[s] = wire[s]
    \/ wire[s] # <<>> /\ wire'[s] = Tail(wire[s])
    \/ \E f \in Frames : wire'[s] = Append(wire[s], f) /\ Writes(s, k, f)

\* Of a closed channel chunks are passed on, or the connection refuses them.
DataQuiet(s, k) ==
    /\ chan[s][k].state = "closed" => chan'[s][k].state = "closed"
    /\ sent'[s][k] = sent[s][k] \/ pump[s][k] = "run"
    /\ \/ chan[s][k].state # "closed" /\ drain'[s][k] = drain[s][k]
       \/ k \in refused'[s]
       \/ /\ got'[s][k] + Len(chan'[s][k].q) = got[s][k] + Len(chan[s][k].q)
          /\ drain'[s][k] = "done" =>
                \/ drain[s][k] = "done" /\ chan'[s][k].q = chan[s][k].q
                \/ chan'[s][k].state = "closed" /\ chan'[s][k].q = <<>>

Quiet(s, k) ==
    /\ PumpQuiet(s, k) /\ ReaderQuiet(s, k)
    /\ WireQuiet(s, k) /\ DataQuiet(s, k)

LEMMA WhoKept ==
    ASSUME NEW s \in Sides, NEW k \in Ids, Who(s, k), Quiet(s, k),
           taker'[s][k] = taker[s][k]
    PROVE  Who(s, k)'
    BY DEF Who, Quiet, PumpQuiet, ReaderQuiet, DataQuiet

LEMMA BehindKept ==
    ASSUME NEW s \in Sides, NEW k \in Ids, wire[s] \in Seq(Frames),
           Who(s, k), Behind(s, k), Quiet(s, k), taker'[s][k] = taker[s][k]
    PROVE  Behind(s, k)'
  <1>1. pump[s][k] = "done" => pump'[s][k] = "done"
      BY DEF Quiet, PumpQuiet
  <1>2. CASE wire'[s] = wire[s]
      BY <1>1, <1>2 DEF Behind
  <1>3. CASE wire[s] # <<>> /\ wire'[s] = Tail(wire[s])
      BY <1>1, <1>3, CloseRead DEF Behind
  <1>4. ASSUME NEW f \in Frames, wire'[s] = Append(wire[s], f), Writes(s, k, f)
        PROVE  Behind(s, k)'
    <2>1. CASE f.type = "close" /\ f.id = k /\ pump[s][k] = "closeframe"
               /\ pump'[s][k] = "done"
      <3>1. taker[s][k] = "copier" /\ NoClose(wire[s], k)
          BY <2>1 DEF Who, Behind
      <3>2. DataFirst(wire'[s], k)
          BY <1>4, <3>1, CloseWritten
      <3> QED
          BY <2>1, <3>1, <3>2 DEF Behind
    <2>2. CASE f.type = "close" /\ f.id = k /\ reader[s].at = "closeframe"
               /\ reader[s].id = k
        BY <2>2 DEF Who, Behind
    <2>3. CASE ~ (f.type = "close" /\ f.id = k)
      <3>1. CASE NoClose(wire[s], k)
          BY <1>4, <2>3, <3>1, CloseWritten DEF Behind
      <3>2. CASE ~ NoClose(wire[s], k) /\ taker[s][k] = "copier"
        <4>1. pump[s][k] = "done" /\ DataFirst(wire[s], k)
            BY <3>2 DEF Behind
        <4>2. ~ (f.type = "data" /\ f.id = k)
            BY <1>4, <4>1 DEF Writes
        <4>3. DataFirst(wire'[s], k)
            BY <1>4, <4>1, <4>2, CloseWritten
        <4> QED
            BY <1>1, <3>2, <4>1, <4>3 DEF Behind
      <3>3. CASE ~ NoClose(wire[s], k) /\ taker[s][k] # "copier"
          BY <3>3 DEF Behind
      <3> QED
          BY <3>1, <3>2, <3>3
    <2> QED
        BY <1>4, <2>1, <2>2, <2>3 DEF Writes
  <1> QED
      BY <1>2, <1>3, <1>4 DEF Quiet, WireQuiet

\* One that is taken on the other side meanwhile was not closed from there.
LEMMA EarlierKept ==
    ASSUME NEW s \in Sides, NEW k \in Ids, Earlier(s, k),
           taker'[s][k] = taker[s][k],
           taker'[Peer(s)][k] = taker[Peer(s)][k] \/ taker[Peer(s)][k] = "none"
    PROVE  Earlier(s, k)'
    BY DEF Earlier

LEMMA SawEndKept ==
    ASSUME NEW s \in Sides, NEW k \in Ids, SawEnd(s, k), Quiet(s, k),
           k \in refused[s] => k \in refused'[s]
    PROVE  SawEnd(s, k)'
    BY DEF SawEnd, Quiet, DataQuiet

LEMMA RestKept ==
    ASSUME NEW s \in Sides, NEW k \in Ids, Rest(s, k), Earlier(s, k),
           Who(s, k), Who(Peer(s), k), Quiet(s, k), Quiet(Peer(s), k),
           k \in refused[s] => k \in refused'[s],
           taker'[s][k] = taker[s][k],
           taker'[Peer(s)][k] = taker[Peer(s)][k] \/ taker[Peer(s)][k] = "none"
    PROVE  Rest(s, k)'
  <1> SUFFICES ASSUME taker'[s][k] = "peer", taker'[Peer(s)][k] = "copier",
                      k \notin refused'[s]
               PROVE  got'[s][k] + Len(chan'[s][k].q) = sent'[Peer(s)][k]
      BY DEF Rest
  <1>1. taker[s][k] = "peer" /\ taker[Peer(s)][k] = "copier" /\ k \notin refused[s]
      BY DEF Earlier
  <1>2. chan[s][k].state = "closed" /\ pump[Peer(s)][k] # "run"
      BY <1>1 DEF Who
  <1>3. sent'[Peer(s)][k] = sent[Peer(s)][k]
      BY <1>2 DEF Quiet, DataQuiet
  <1>4. got'[s][k] + Len(chan'[s][k].q) = got[s][k] + Len(chan[s][k].q)
      BY <1>2 DEF Quiet, DataQuiet
  <1> QED
      BY <1>1, <1>3, <1>4 DEF Rest

\* A stream that is not taken by the step.
LEMMA EndsKept ==
    ASSUME EndsInv, RecordTaker, RecordRefused, NEW s \in Sides, NEW k \in Ids,
           k \notin streams[s] \/ k \in streams'[s],
           Quiet(s, k), Quiet(Peer(s), k)
    PROVE  CleanEnd(s, k)'
  <1>1. Peer(s) \in Sides /\ wire[s] \in Seq(Frames)
      BY FlowTypes DEF EndsInv
  <1>2. CleanEnd(s, k) /\ CleanEnd(Peer(s), k)
      BY <1>1 DEF EndsInv, AllEnds
  <1>3. taker'[s][k] = taker[s][k] /\ (k \in refused[s] => k \in refused'[s])
      BY Recorded
  <1>4. taker'[Peer(s)][k] = taker[Peer(s)][k] \/ taker[Peer(s)][k] = "none"
    <2>1. k \in streams[Peer(s)] => taker[Peer(s)][k] = "none"
        BY <1>1, <1>2, FlowTypes DEF EndsInv, CleanEnd, Who
    <2> QED
        BY <1>1, <2>1, Recorded
  <1>5. Who(s, k)' /\ Behind(s, k)'
      BY <1>1, <1>2, <1>3, WhoKept, BehindKept DEF CleanEnd
  <1>6. Earlier(s, k)' /\ SawEnd(s, k)'
      BY <1>2, <1>3, <1>4, EarlierKept, SawEndKept DEF CleanEnd
  <1>7. Rest(s, k)'
      BY <1>2, <1>3, <1>4, RestKept DEF CleanEnd
  <1> QED
      BY <1>5, <1>6, <1>7 DEF CleanEnd

\* A step that takes no stream at all.
LEMMA QuietStep ==
    ASSUME EndsInv, RecordTaker, RecordRefused,
           \A s \in Sides : streams[s] \subseteq streams'[s],
           \A s \in Sides, k \in Ids : Quiet(s, k)
    PROVE  AllEnds'
  <1> SUFFICES ASSUME NEW s \in Sides, NEW k \in Ids PROVE CleanEnd(s, k)'
      BY DEF AllEnds
  <1>1. Peer(s) \in Sides
      BY DEF Sides, Peer
  <1> QED
      BY <1>1, EndsKept

\* A stream that is taken otherwise than by a close frame.
LEMMA EndsTaken ==
    ASSUME EndsInv, RecordTaker, RecordRefused, NEW s \in Sides, NEW k \in Ids,
           k \in streams[s], k \notin streams'[s], Taker(s, k) # "peer",
           chan'[s][k].state = "closed", wire'[s] = wire[s],
           drain'[s][k] = drain[s][k] \/ Refuses(s, k),
           Taker(s, k) = "copier" => pump'[s][k] \in {"closeframe", "done"},
           pump'[s][k] = "closeframe" => Taker(s, k) = "copier",
           reader'[s].id = k =>
              /\ reader'[s].at = "closeframe" => Taker(s, k) = "readLoop"
              /\ reader'[s].at = "deliver" => Taker(s, k) # "readLoop"
    PROVE  CleanEnd(s, k)'
  <1>1. taker'[s][k] = Taker(s, k) /\ chan[s][k].state = "open"
        /\ Taker(s, k) \in {"session", "copier", "readLoop"}
      BY Recorded, FlowTypes DEF EndsInv, Taker
  <1>2. CleanEnd(s, k)
      BY DEF EndsInv, AllEnds
  <1>3. Who(s, k)'
      BY <1>1 DEF Who
  <1>4. Behind(s, k)'
    <2>1. NoClose(wire[s], k)
        BY <1>1, <1>2 DEF CleanEnd, Who, Behind
    <2> QED
        BY <2>1 DEF Behind
  <1>5. SawEnd(s, k)'
      BY <1>1, <1>2, Recorded DEF CleanEnd, SawEnd
  <1> QED
      BY <1>1, <1>3, <1>4, <1>5 DEF CleanEnd, Earlier, Rest

-----------------------------------------------------------------------------
(* Parts of the state that a step leaves alone, and what it writes *)

LEMMA EndsTypes ==
    ASSUME EndsInv
    PROVE  /\ closed \in [Sides -> BOOLEAN]
           /\ streams \in [Sides -> SUBSET Ids]
           /\ chan \in [Sides -> [Ids -> Channel]]
           /\ pump \in [Sides -> [Ids -> {"none", "opening", "dial", "run",
                                          "close", "closeframe", "done"}]]
           /\ drain \in [Sides -> [Ids -> {"none", "run", "done"}]]
           /\ got \in [Sides -> [Ids -> Nat]]
           /\ sent \in [Sides -> [Ids -> Nat]]
           /\ wire \in [Sides -> Seq(Frames)]
           /\ reader \in [Sides -> Positions]
           /\ acceptChan \in Seq(Ids)
  <1>1. sent \in [Sides -> [Ids -> 0 .. MaxChunks]] /\ MaxChunks \in Nat
      BY MuxAssumption DEF EndsInv, FlowInv, MuxInv, CopiersTypeOK
  <1>2. sent \in [Sides -> [Ids -> Nat]]
      BY <1>1
  <1> QED
      BY <1>2 DEF EndsInv, FlowInv, MuxInv, SessionInv, SessionTypeOK,
                  CopiersTypeOK, RestTypeOK

LEMMA SameIsQuiet ==
    ASSUME NEW s \in Sides, NEW k \in Ids
    PROVE  /\ UNCHANGED pump => PumpQuiet(s, k)
           /\ reader'[s] = reader[s] => ReaderQuiet(s, k)
           /\ UNCHANGED wire => WireQuiet(s, k)
           /\ UNCHANGED <<chan, drain, sent, got>> => DataQuiet(s, k)
    BY DEF PumpQuiet, ReaderQuiet, WireQuiet, DataQuiet

\* A frame written by s, or one whose error is ignored.
LEMMA WroteQuiet ==
    ASSUME EndsInv, NEW s \in Sides, NEW f \in Frames,
           WriteFrame(s, f) \/ WriteFrameOrFail(s, f),
           \A k \in Ids : Writes(s, k, f)
    PROVE  \A p \in Sides, k \in Ids : WireQuiet(p, k)
  <1>1. \A p \in Sides : \/ wire'[p] = wire[p]
                         \/ p = s /\ wire'[p] = Append(wire[p], f)
      BY EndsTypes DEF WriteFrame, WriteFrameOrFail
  <1> QED
      BY <1>1 DEF WireQuiet

\* What a copier's own variable becomes, for its stream and the others.
LEMMA CopierVariable ==
    ASSUME NEW V, NEW x \in [Sides -> [Ids -> V]], NEW s \in Sides,
           NEW k \in Ids, NEW v, NEW y, y = [x EXCEPT ![s][k] = v]
    PROVE  /\ y[s][k] = v
           /\ \A p \in Sides, j \in Ids : p # s \/ j # k => y[p][j] = x[p][j]
    OBVIOUS

\* The channel of the stream is closed with what it holds, and the entry goes.
LEMMA UnregisterFacts ==
    ASSUME EndsInv, NEW s \in Sides, NEW n \in Ids, NEW who,
           Unregister(s, n, who)
    PROVE  /\ chan'[s][n].state = "closed" /\ chan'[s][n].q = chan[s][n].q
           /\ n \notin streams'[s] /\ closed' = closed
           /\ \A p \in Sides, k \in Ids : p # s \/ k # n =>
                 /\ chan'[p][k] = chan[p][k]
                 /\ k \in streams[p] => k \in streams'[p]
  <1>1. /\ chan \in [Sides -> [Ids -> Channel]]
        /\ streams \in [Sides -> SUBSET Ids]
      BY EndsTypes
  <1>2. /\ chan' = [chan EXCEPT ![s] = [@ EXCEPT ![n] =
                       [chan[s][n] EXCEPT !.state = "closed"]]]
        /\ streams' = [streams EXCEPT ![s] = @ \ {n}]
        /\ closed' = closed
      BY DEF Unregister
  <1> DEFINE c == [chan[s][n] EXCEPT !.state = "closed"]
  <1>3. c.state = "closed" /\ c.q = chan[s][n].q
      BY <1>1 DEF Channel
  <1> HIDE DEF c
  <1>4. /\ chan'[s][n] = c
        /\ \A p \in Sides, k \in Ids : p # s \/ k # n =>
              chan'[p][k] = chan[p][k]
      BY <1>1, <1>2 DEF c
  <1> QED
      BY <1>1, <1>2, <1>3, <1>4

\* Sending to a channel, or receiving from it, does not close it.
LEMMA QueueFacts ==
    ASSUME chan \in [Sides -> [Ids -> Channel]], NEW s \in Sides, NEW n \in Ids,
           NEW q2, chan' = [chan EXCEPT ![s][n].q = q2]
    PROVE  /\ chan'[s][n].state = chan[s][n].state /\ chan'[s][n].q = q2
           /\ \A p \in Sides, k \in Ids : p # s \/ k # n =>
                 chan'[p][k] = chan[p][k]
  <1> DEFINE c == [chan[s][n] EXCEPT !.q = q2]
  <1>1. c.state = chan[s][n].state /\ c.q = q2
      BY DEF Channel
  <1>2. chan' = [chan EXCEPT ![s] = [@ EXCEPT ![n] = c]]
      OBVIOUS
  <1> HIDE DEF c
  <1> QED
      BY <1>1, <1>2

-----------------------------------------------------------------------------
(* The steps of readLoop *)

\* The stream in an open frame is new to the side.
LEMMA ReadOpenEnds ==
    ASSUME EndsInv, RecordTaker, RecordRefused, NEW s \in Sides, ReadFrame(s),
           ReadOpen(s, Head(wire[Peer(s)]))
    PROVE  AllEnds'
  <1> DEFINE n == Head(wire[Peer(s)]).id
  <1>1. /\ wire[Peer(s)] # <<>> /\ Peer(s) \in Sides
        /\ Head(wire[Peer(s)]) \in Frames /\ Head(wire[Peer(s)]).type = "open"
        /\ wire' = [wire EXCEPT ![Peer(s)] = Tail(@)]
        /\ UNCHANGED <<pump, drain, sent, got>>
      BY FlowTypes, Read DEF EndsInv, ReadFrame, ReadOpen, copyVars
  <1>2. n \in Ids
      BY <1>1 DEF Frames
  <1>3. chan[s][n].state = "none"
    <2>1. OpenedOnce(n)
        BY <1>2 DEF EndsInv, FlowInv, Control
    <2>2. ~ NoOpen(wire[Peer(s)], n)
        BY <1>1, FlowTypes, Read DEF EndsInv, NoOpen, OpenAt
    <2> QED
        BY <2>1, <2>2 DEF OpenedOnce, Sides, Peer
  <1>4. /\ \A p \in Sides : streams[p] \subseteq streams'[p]
        /\ \A p \in Sides, k \in Ids : p # s \/ k # n => chan'[p][k] = chan[p][k]
        /\ chan'[s][n].state = "open"
      BY <1>2, EndsTypes DEF ReadOpen, Register
  <1>5. ASSUME NEW p \in Sides, NEW k \in Ids PROVE Quiet(p, k)
    <2>1. PumpQuiet(p, k)
        BY <1>1, SameIsQuiet
    <2>2. ReaderQuiet(p, k)
        BY <1>2, GotoFacts DEF ReadOpen, EndsInv, ReaderQuiet
    <2>3. WireQuiet(p, k)
        BY <1>1, EndsTypes DEF WireQuiet
    <2>4. DataQuiet(p, k)
        BY <1>1, <1>3, <1>4 DEF DataQuiet
    <2> QED
        BY <2>1, <2>2, <2>3, <2>4 DEF Quiet
  <1> QED
      BY <1>4, <1>5, QuietStep

\* Data is taken in hand only for a registered stream; pings, pongs and
\* frames of streams that are gone change no stream.
LEMMA ReadOtherEnds ==
    ASSUME EndsInv, RecordTaker, RecordRefused, NEW s \in Sides, ReadFrame(s),
           LET f == Head(wire[Peer(s)]) IN
              \/ ReadData(s, f) \/ ReadPing(s, f) \/ ReadPong(s, f)
              \/ ReadClose(s, f) /\ f.id \notin streams[s]
    PROVE  AllEnds'
  <1> DEFINE f == Head(wire[Peer(s)])
  <1>1. /\ wire[Peer(s)] # <<>> /\ Peer(s) \in Sides /\ f \in Frames
        /\ wire' = [wire EXCEPT ![Peer(s)] = Tail(@)]
        /\ UNCHANGED <<pump, drain, sent, got, streams, chan>>
      BY FlowTypes, Read DEF EndsInv, ReadFrame, ReadData, ReadPing, ReadPong,
                            ReadClose, copyVars, sessionVars
  <1>2. ASSUME NEW p \in Sides, NEW k \in Ids PROVE ReaderQuiet(p, k)
    <2>1. CASE UNCHANGED reader
        BY <2>1, SameIsQuiet
    <2>2. CASE Goto(s, "pong", 0, 0)
        BY <2>2, GotoFacts DEF EndsInv, ReaderQuiet
    <2>3. CASE f.id \in streams[s] /\ Goto(s, "deliver", f.id, f.chunk)
      <3>1. f.id \in Ids /\ chan[s][f.id].state = "open"
          BY <2>3, EndsTypes, FlowTypes DEF EndsInv
      <3>2. taker[s][f.id] = "none"
          BY <3>1 DEF EndsInv, AllEnds, CleanEnd, Who
      <3> QED
          BY <2>3, <3>2, GotoFacts DEF EndsInv, ReaderQuiet
    <2> QED
        BY <2>1, <2>2, <2>3 DEF ReadData, ReadPing, ReadPong, ReadClose
  <1>3. ASSUME NEW p \in Sides, NEW k \in Ids PROVE Quiet(p, k)
    <2>1. WireQuiet(p, k)
        BY <1>1, EndsTypes DEF WireQuiet
    <2> QED
        BY <1>1, <1>2, <2>1, SameIsQuiet DEF Quiet
  <1> QED
      BY <1>1, <1>3, QuietStep

\* The close frame of a registered stream: if a copier of the other side sent
\* it, all data of that side has arrived.
LEMMA ReadCloseEnds ==
    ASSUME EndsInv, RecordTaker, RecordRefused, NEW s \in Sides, NEW n \in Ids,
           ReadFrame(s), ReadClose(s, Head(wire[Peer(s)])),
           Head(wire[Peer(s)]).id = n, n \in streams[s]
    PROVE  AllEnds'
  <1> DEFINE w == wire[Peer(s)]
  <1>1. /\ w # <<>> /\ Peer(s) \in Sides /\ Peer(s) # s /\ Peer(Peer(s)) = s
        /\ w \in Seq(Frames)
        /\ Head(w).type = "close" /\ Head(w).id = n
        /\ wire' = [wire EXCEPT ![Peer(s)] = Tail(@)]
        /\ UNCHANGED <<pump, drain, sent, got, reader, closed>>
        /\ Unregister(s, n, "peer") /\ reader[s].at = "read"
      BY FlowTypes, EndsTypes DEF EndsInv, ReadFrame, ReadClose, copyVars,
                                  Unregister
  <1>2. /\ chan[s][n].state = "open" /\ chan'[s][n].state = "closed"
        /\ chan'[s][n].q = chan[s][n].q /\ n \notin streams'[s]
        /\ \A p \in Sides, k \in Ids : p # s \/ k # n =>
              /\ chan'[p][k] = chan[p][k]
              /\ k \in streams[p] => k \in streams'[p]
    <2>1. chan[s][n].state = "open"
        BY <1>1, FlowTypes DEF EndsInv
    <2> QED
        BY <1>1, <2>1, UnregisterFacts
  <1>3. ASSUME NEW p \in Sides, NEW k \in Ids, p # s \/ k # n PROVE Quiet(p, k)
    <2>1. WireQuiet(p, k)
        BY <1>1, EndsTypes DEF WireQuiet
    <2>2. DataQuiet(p, k)
        BY <1>1, <1>2, <1>3 DEF DataQuiet
    <2> QED
        BY <1>1, <2>1, <2>2, SameIsQuiet DEF Quiet
  <1>4. /\ taker[s][n] = "none" /\ taker'[s][n] = "peer"
        /\ \A p \in Sides : refused'[p] = refused[p]
        /\ taker'[Peer(s)][n] = taker[Peer(s)][n]
    <2>1. taker[s][n] = "none"
        BY <1>1, <1>2 DEF EndsInv, AllEnds, CleanEnd, Who
    <2>2. taker'[s][n] = "peer"
        BY <1>1, <1>2, Recorded DEF Taker
    <2>3. \A p \in Sides, k \in Ids : ~ Refuses(p, k)
        BY <1>1 DEF Refuses
    <2>4. \A p \in Sides : refused'[p] = refused[p]
        BY <2>3 DEF RecordRefused
    <2> QED
        BY <1>1, <1>2, <2>1, <2>2, <2>4, Recorded
  <1>5. CleanEnd(s, n) /\ CleanEnd(Peer(s), n)
      BY <1>1 DEF EndsInv, AllEnds
  <1>6. ~ NoClose(w, n) /\ (DataFirst(w, n) => DataAt(w, n) = {})
      BY <1>1, CloseRead
  <1>7. taker[Peer(s)][n] \in {"copier", "readLoop"}
      BY <1>5, <1>6 DEF CleanEnd, Behind
  <1>8. Who(s, n)'
    <2>1. pump[s][n] # "closeframe"
        BY <1>4, <1>5 DEF CleanEnd, Who
    <2> QED
        BY <1>1, <1>2, <1>4, <2>1 DEF Who
  <1>9. Behind(s, n)'
    <2>1. NoClose(wire[s], n)
        BY <1>4, <1>5 DEF CleanEnd, Behind
    <2>2. wire'[s] = wire[s]
        BY <1>1, EndsTypes
    <2> QED
        BY <2>1, <2>2 DEF Behind
  <1>10. Earlier(s, n)' /\ Earlier(Peer(s), n)'
    <2>1. taker[Peer(s)][n] # "peer"
        BY <1>7
    <2> QED
        BY <1>1, <1>4, <1>7, <2>1 DEF Earlier
  <1>11. SawEnd(s, n)'
      BY <1>1, <1>2, <1>4, <1>5 DEF CleanEnd, SawEnd
  <1>12. Rest(s, n)'
    <2> SUFFICES ASSUME taker[Peer(s)][n] = "copier", n \notin refused[s]
                 PROVE  got[s][n] + Len(chan[s][n].q) = sent[Peer(s)][n]
        BY <1>1, <1>2, <1>4 DEF Rest
    <2>1. DataAt(w, n) = {}
        BY <1>5, <1>6 DEF CleanEnd, Behind
    <2>2. drain[s][n] # "done"
        BY <1>2, <1>5 DEF CleanEnd, SawEnd
    <2>3. Live(s, n) /\ ~ InHand(s, n)
        BY <1>1, <1>2, <2>2 DEF Live, Dropping, InHand
    <2>4. Travelling(s, n)
        BY <1>1, <2>3 DEF EndsInv, FlowInv, Flows, Flow
    <2>5. Arrived(s, n) = got[s][n] + Len(chan[s][n].q)
        BY <1>1, <2>3, EndsTypes DEF Arrived, Channel
    <2>6. Arrived(s, n) \in Nat /\ sent[Peer(s)][n] \in Nat
        BY <1>1, <2>5, EndsTypes DEF Channel
    <2>7. \A c \in Arrived(s, n) + 1 .. sent[Peer(s)][n] : FALSE
        BY <2>1, <2>4 DEF Travelling, Carries
    <2> QED
        BY <2>4, <2>5, <2>6, <2>7 DEF Travelling
  <1>13. CleanEnd(s, n)'
      BY <1>8, <1>9, <1>10, <1>11, <1>12 DEF CleanEnd
  <1>14. CleanEnd(Peer(s), n)'
    <2>1. Quiet(Peer(s), n)
        BY <1>1, <1>3
    <2>2. taker'[Peer(s)][n] = taker[Peer(s)][n]
        BY <1>4
    <2>3. wire[Peer(s)] \in Seq(Frames)
        BY <1>1
    <2>4. Who(Peer(s), n)' /\ Behind(Peer(s), n)' /\ SawEnd(Peer(s), n)'
        BY <1>1, <1>4, <1>5, <2>1, <2>2, <2>3, WhoKept, BehindKept, SawEndKept
           DEF CleanEnd
    <2>5. Rest(Peer(s), n)'
        BY <1>4, <1>7 DEF Rest
    <2> QED
        BY <1>10, <2>4, <2>5 DEF CleanEnd
  <1>15. ASSUME NEW p \in Sides, NEW k \in Ids PROVE CleanEnd(p, k)'
    <2>1. CASE k = n
        BY <1>1, <1>13, <1>14, <2>1 DEF Sides
    <2>2. CASE k # n
      <3>1. Peer(p) \in Sides /\ Quiet(p, k) /\ Quiet(Peer(p), k)
          BY <1>3, <2>2 DEF Sides, Peer
      <3> QED
          BY <1>2, <2>2, <3>1, EndsKept
    <2> QED
        BY <2>1, <2>2
  <1> QED
      BY <1>15 DEF AllEnds

LEMMA CalmReader ==
    ASSUME EndsInv, NEW s \in Sides, NEW where, NEW i, NEW n,
           Goto(s, where, i, n), where \notin {"closeframe", "deliver"}
    PROVE  \A p \in Sides, k \in Ids : ReaderQuiet(p, k)
    BY GotoFacts DEF EndsInv, ReaderQuiet

LEMMA ReadFrameEnds ==
    ASSUME EndsInv, RecordTaker, RecordRefused, NEW s \in Sides, ReadFrame(s)
    PROVE  AllEnds'
  <1> DEFINE f == Head(wire[Peer(s)])
  <1>1. CASE ReadOpen(s, f)
      BY <1>1, ReadOpenEnds
  <1>2. CASE ReadData(s, f) \/ ReadPing(s, f) \/ ReadPong(s, f)
      BY <1>2, ReadOtherEnds
  <1>3. CASE ReadClose(s, f)
    <2>1. CASE f.id \in streams[s]
      <3>1. f.id \in Ids
          BY <2>1, EndsTypes
      <3> QED
          BY <1>3, <2>1, <3>1, ReadCloseEnds
    <2>2. CASE f.id \notin streams[s]
        BY <1>3, <2>2, ReadOtherEnds
    <2> QED
        BY <2>1, <2>2
  <1> QED
      BY <1>1, <1>2, <1>3 DEF ReadFrame

\* Sending to a channel, to the accept queue or on the wire ends no stream.
LEMMA ReaderEnds ==
    ASSUME EndsInv, RecordTaker, RecordRefused, NEW s \in Sides,
           \/ Deliver(s) \/ DeliverPanics(s) \/ DeliverTimeout(s)
           \/ ReaderWrites(s) \/ (s = "client" /\ OfferStream)
           \/ (DropStream(s) /\ reader[s].id \notin streams[s])
    PROVE  AllEnds'
  <1>1. UNCHANGED <<streams, pump, drain, sent, got>>
      BY DEF Deliver, DeliverPanics, DeliverTimeout, ReaderWrites, OfferStream,
             DropStream, sessionVars, copyVars
  <1>2. \A p \in Sides, k \in Ids : ReaderQuiet(p, k)
    <2>1. CASE UNCHANGED reader
        BY <2>1, SameIsQuiet
    <2>2. CASE \E i : Goto(s, "read", i, 0) \/ Goto(s, "drop", i, 0)
        BY <2>2, CalmReader
    <2> QED
        BY <2>1, <2>2 DEF Deliver, DeliverPanics, DeliverTimeout, ReaderWrites,
                          OfferStream, DropStream
  <1>3. \A p \in Sides, k \in Ids : WireQuiet(p, k)
    <2>1. CASE ReaderWrites(s) /\ reader[s].at = "closeframe"
      <3> DEFINE f == Frame("close", reader[s].id, 0)
      <3>1. f \in Frames
          BY <2>1, FlowTypes DEF EndsInv, Positions, Frame, Frames
      <3>2. \A k \in Ids : Writes(s, k, f)
          BY <2>1 DEF Writes, Frame
      <3> QED
          BY <2>1, <3>1, <3>2, WroteQuiet DEF ReaderWrites
    <2>2. CASE ReaderWrites(s) /\ reader[s].at = "pong"
      <3> DEFINE f == Frame("pong", 0, 0)
      <3>1. f \in Frames /\ \A k \in Ids : Writes(s, k, f)
          BY DEF Frame, Frames, Writes
      <3> QED
          BY <2>2, <3>1, WroteQuiet DEF ReaderWrites
    <2>3. CASE UNCHANGED wire
        BY <2>3, SameIsQuiet
    <2> QED
        BY <2>1, <2>2, <2>3 DEF Deliver, DeliverPanics, DeliverTimeout,
                                ReaderWrites, OfferStream, DropStream
  <1>4. \A p \in Sides, k \in Ids : DataQuiet(p, k)
    <2>1. CASE UNCHANGED chan
        BY <1>1, <2>1, SameIsQuiet
    <2>2. CASE Deliver(s)
      <3>1. reader[s].id \in Ids /\ chan \in [Sides -> [Ids -> Channel]]
          BY <2>2, EndsTypes DEF Deliver, Positions
      <3>2. PICK n \in Ids :
               /\ chan[s][n].state = "open"
               /\ \E q2 : chan' = [chan EXCEPT ![s][n].q = q2]
          BY <2>2, <3>1, Zenon DEF Deliver
      <3>3. PICK q2 : chan' = [chan EXCEPT ![s][n].q = q2]
          BY <3>2
      <3>4. /\ chan'[s][n].state = "open"
            /\ \A p \in Sides, k \in Ids : p # s \/ k # n =>
                  chan'[p][k] = chan[p][k]
          BY <3>1, <3>2, <3>3, QueueFacts
      <3> QED
          BY <1>1, <3>2, <3>4 DEF DataQuiet
    <2> QED
        BY <2>1, <2>2 DEF DeliverPanics, DeliverTimeout, ReaderWrites,
                          OfferStream, DropStream, sessionVars
  <1> QED
      BY <1>1, <1>2, <1>3, <1>4, SameIsQuiet, QuietStep DEF Quiet

-----------------------------------------------------------------------------
(* Steps of a side that take streams from its own map *)

LEMMA TakenStep ==
    ASSUME EndsInv, RecordTaker, RecordRefused, NEW s \in Sides,
           streams[Peer(s)] \subseteq streams'[Peer(s)],
           \A k \in Ids :
              /\ Quiet(Peer(s), k)
              /\ k \notin streams[s] \/ k \in streams'[s] => Quiet(s, k)
              /\ k \in streams[s] /\ k \notin streams'[s] => CleanEnd(s, k)'
    PROVE  AllEnds'
  <1>1. Peer(s) \in Sides /\ Peer(s) # s /\ Peer(Peer(s)) = s
        /\ wire[Peer(s)] \in Seq(Frames)
      BY FlowTypes DEF EndsInv
  <1>2. ASSUME NEW k \in Ids, k \in streams[s], k \notin streams'[s]
        PROVE  CleanEnd(Peer(s), k)'
    <2>1. CleanEnd(s, k) /\ CleanEnd(Peer(s), k) /\ chan[s][k].state = "open"
        BY <1>1, <1>2, FlowTypes DEF EndsInv, AllEnds
    <2>2. taker[s][k] = "none" /\ taker[Peer(s)][k] # "peer"
        BY <1>1, <2>1 DEF CleanEnd, Who, Earlier
    <2>3. taker'[Peer(s)][k] = taker[Peer(s)][k]
          /\ (k \in refused[Peer(s)] => k \in refused'[Peer(s)])
        BY <1>1, Recorded
    <2>4. Who(Peer(s), k)' /\ Behind(Peer(s), k)' /\ SawEnd(Peer(s), k)'
        BY <1>1, <2>1, <2>3, WhoKept, BehindKept, SawEndKept DEF CleanEnd
    <2>5. Earlier(Peer(s), k)' /\ Rest(Peer(s), k)'
        BY <2>2, <2>3 DEF Earlier, Rest
    <2> QED
        BY <2>4, <2>5 DEF CleanEnd
  <1>3. ASSUME NEW p \in Sides, NEW k \in Ids PROVE CleanEnd(p, k)'
    <2>1. CASE k \in streams[s] /\ k \notin streams'[s]
      <3>1. p = s \/ p = Peer(s)
          BY DEF Sides, Peer
      <3> QED
          BY <1>2, <2>1, <3>1
    <2>2. CASE k \notin streams[s] \/ k \in streams'[s]
      <3>1. CASE p = s
          BY <2>2, <3>1, EndsKept
      <3>2. CASE p = Peer(s)
          BY <1>1, <2>2, <3>2, EndsKept
      <3> QED
          BY <3>1, <3>2 DEF Sides, Peer
    <2> QED
        BY <2>1, <2>2
  <1> QED
      BY <1>3 DEF AllEnds

\* What the invariant says of a stream that is still registered.
LEMMA RegisteredFacts ==
    ASSUME EndsInv, NEW s \in Sides, NEW k \in Ids, k \in streams[s]
    PROVE  /\ taker[s][k] = "none" /\ chan[s][k].state = "open"
           /\ pump[s][k] # "closeframe"
           /\ ~ (reader[s].at = "closeframe" /\ reader[s].id = k)
    BY FlowTypes DEF EndsInv, AllEnds, CleanEnd, Who

\* Session.Close takes all streams of its side.
LEMMA CloseSessionEnds ==
    ASSUME EndsInv, RecordTaker, RecordRefused, NEW s \in Sides,
           CloseSession(s), ~ closed[s], UNCHANGED wire, UNCHANGED copyVars,
           UNCHANGED reader \/ Goto(s, "done", 0, 0)
    PROVE  AllEnds'
  <1>1. /\ Peer(s) \in Sides /\ Peer(s) # s
        /\ UNCHANGED <<pump, drain, sent, got, wire>>
      BY FlowTypes DEF EndsInv, copyVars
  <1>2. /\ closed'[s] # closed[s]
        /\ streams'[s] = {} /\ streams'[Peer(s)] = streams[Peer(s)]
        /\ \A k \in Ids :
              /\ chan'[Peer(s)][k] = chan[Peer(s)][k]
              /\ k \notin streams[s] => chan'[s][k] = chan[s][k]
              /\ k \in streams[s] => chan'[s][k].state = "closed"
    <2>1. closed'[s] # closed[s] /\ streams'[s] = {}
          /\ streams'[Peer(s)] = streams[Peer(s)]
        BY <1>1, EndsTypes DEF CloseSession
    <2>2. /\ chan'[Peer(s)] = chan[Peer(s)]
          /\ \A k \in Ids :
                chan'[s][k] = IF k \in streams[s]
                              THEN [chan[s][k] EXCEPT !.state = "closed"]
                              ELSE chan[s][k]
        BY <1>1, EndsTypes, Zenon DEF CloseSession
    <2>3. \A c \in Channel : [c EXCEPT !.state = "closed"].state = "closed"
        BY DEF Channel
    <2>4. \A k \in Ids : chan[s][k] \in Channel
        BY EndsTypes
    <2> QED
        BY <2>1, <2>2, <2>3, <2>4
  <1>3. \A p \in Sides, k \in Ids : ReaderQuiet(p, k)
      BY CalmReader, SameIsQuiet
  <1>4. ASSUME NEW p \in Sides, NEW k \in Ids, chan'[p][k] = chan[p][k]
        PROVE  Quiet(p, k)
      BY <1>1, <1>3, <1>4, SameIsQuiet DEF Quiet, DataQuiet
  <1>5. ASSUME NEW k \in Ids, k \in streams[s] PROVE CleanEnd(s, k)'
    <2>1. Taker(s, k) = "session"
        BY <1>2 DEF Taker
    <2>2. \/ reader'[s] = reader[s]
          \/ reader'[s].at = "done"
        BY GotoFacts DEF EndsInv
    <2> QED
        BY <1>1, <1>2, <1>5, <2>1, <2>2, RegisteredFacts, EndsTaken
  <1> QED
      BY <1>1, <1>2, <1>4, <1>5, TakenStep

\* A goroutine of the side takes one stream.
LEMMA UnregisterEnds ==
    ASSUME EndsInv, RecordTaker, RecordRefused, NEW s \in Sides, NEW n \in Ids,
           NEW who, n \in streams[s], Unregister(s, n, who), UNCHANGED wire,
           CleanEnd(s, n)',
           \A p \in Sides, k \in Ids : p # s \/ k # n =>
              PumpQuiet(p, k) /\ ReaderQuiet(p, k)
              /\ drain'[p][k] = drain[p][k] /\ got'[p][k] = got[p][k]
              /\ sent'[p][k] = sent[p][k]
    PROVE  AllEnds'
  <1>1. Peer(s) \in Sides /\ Peer(s) # s
      BY FlowTypes DEF EndsInv
  <1>2. /\ n \notin streams'[s]
        /\ \A p \in Sides, k \in Ids : p # s \/ k # n =>
              /\ chan'[p][k] = chan[p][k]
              /\ k \in streams[p] => k \in streams'[p]
      BY UnregisterFacts
  <1>3. ASSUME NEW p \in Sides, NEW k \in Ids, p # s \/ k # n PROVE Quiet(p, k)
      BY <1>2, <1>3, SameIsQuiet DEF Quiet, DataQuiet
  <1>4. streams[Peer(s)] \subseteq streams'[Peer(s)]
    <2>1. streams[Peer(s)] \subseteq Ids
        BY <1>1, EndsTypes
    <2> QED
        BY <1>1, <1>2, <2>1
  <1> QED
      BY <1>1, <1>2, <1>3, <1>4, TakenStep

\* readLoop gives the stream up, and has its close frame to write.
LEMMA DropEnds ==
    ASSUME EndsInv, RecordTaker, RecordRefused, NEW s \in Sides,
           NEW n \in Ids, DropStream(s), reader[s].id = n, n \in streams[s]
    PROVE  AllEnds'
  <1>1. /\ Unregister(s, n, "readLoop") /\ Goto(s, "closeframe", n, 0)
        /\ reader[s].at = "drop"
        /\ UNCHANGED <<wire, pump, drain, sent, got>>
      BY DEF DropStream, copyVars
  <1>2. Taker(s, n) = "readLoop"
      BY <1>1, UnregisterFacts DEF Taker
  <1>3. /\ reader'[s].id = n /\ reader'[s].at = "closeframe"
        /\ \A p \in Sides : p # s => reader'[p] = reader[p]
      BY <1>1, GotoFacts DEF EndsInv
  <1>4. CleanEnd(s, n)'
      BY <1>1, <1>2, <1>3, UnregisterFacts, RegisteredFacts, EndsTaken
  <1>5. ASSUME NEW p \in Sides, NEW k \in Ids, p # s \/ k # n
        PROVE  PumpQuiet(p, k) /\ ReaderQuiet(p, k)
      BY <1>1, <1>3, <1>5, SameIsQuiet DEF ReaderQuiet
  <1> QED
      BY <1>1, <1>4, <1>5, UnregisterEnds

LEMMA ReadErrorEnds ==
    ASSUME EndsInv, RecordTaker, RecordRefused, NEW s \in Sides, ReadError(s)
    PROVE  AllEnds'
  <1>1. Goto(s, "done", 0, 0) /\ UNCHANGED wire /\ UNCHANGED copyVars
      BY DEF ReadError
  <1>2. CASE closed[s]
    <2>1. UNCHANGED <<streams, chan, pump, drain, sent, got>>
        BY <1>1, <1>2 DEF ReadError, sessionVars, copyVars
    <2>2. \A p \in Sides, k \in Ids : Quiet(p, k)
        BY <1>1, <2>1, CalmReader, SameIsQuiet DEF Quiet
    <2> QED
        BY <2>1, <2>2, QuietStep
  <1>3. CASE ~ closed[s]
      BY <1>1, <1>3, CloseSessionEnds DEF ReadError
  <1> QED
      BY <1>2, <1>3

-----------------------------------------------------------------------------
(* The copiers *)

\* What a step of the goroutines of one stream leaves alone.
LEMMA ElsewhereQuiet ==
    ASSUME NEW p \in Sides, NEW k \in Ids, WireQuiet(p, k),
           reader'[p] = reader[p], pump'[p][k] = pump[p][k],
           drain'[p][k] = drain[p][k], chan'[p][k] = chan[p][k],
           sent'[p][k] = sent[p][k], got'[p][k] = got[p][k]
    PROVE  Quiet(p, k)
    BY DEF Quiet, PumpQuiet, ReaderQuiet, DataQuiet

\* Steps of a copier that is not at the end of its loop.
LEMMA CopierQuiet ==
    ASSUME EndsInv, RecordTaker, RecordRefused, NEW s \in Sides, NEW n \in Ids,
           UNCHANGED <<streams, chan, reader, got>>,
           \A k \in Ids : WireQuiet(s, k) /\ WireQuiet(Peer(s), k),
           \A p \in Sides, k \in Ids : p # s \/ k # n =>
              /\ pump'[p][k] = pump[p][k] /\ drain'[p][k] = drain[p][k]
              /\ sent'[p][k] = sent[p][k],
           PumpQuiet(s, n),
           sent'[s][n] = sent[s][n] \/ pump[s][n] = "run",
           \/ drain'[s][n] = drain[s][n] \/ drain'[s][n] = "run"
           \/ Refuses(s, n)
    PROVE  AllEnds'
  <1>1. DataQuiet(s, n)
      BY Recorded DEF DataQuiet
  <1>2. \A p \in Sides, k \in Ids : WireQuiet(p, k)
      BY DEF Sides, Peer
  <1>3. Quiet(s, n)
      BY <1>1, <1>2, SameIsQuiet DEF Quiet
  <1>4. ASSUME NEW p \in Sides, NEW k \in Ids, p # s \/ k # n PROVE Quiet(p, k)
      BY <1>2, <1>4, ElsewhereQuiet
  <1> QED
      BY <1>3, <1>4, QuietStep

LEMMA CopierStepEnds ==
    ASSUME EndsInv, RecordTaker, RecordRefused, NEW s \in Sides, NEW n \in Ids,
           \/ s = "server" /\ SendOpen(n)
           \/ s = "client" /\ (Dial(n) \/ DialFails(n))
           \/ PumpChunk(s, n) \/ PumpEnds(s, n) \/ PumpWriteFails(s, n)
           \/ PumpSendsClose(s, n)
           \/ PumpCloses(s, n) /\ n \notin streams[s]
           \/ s = "server" /\ SendOpenFails(n) /\ n \notin streams[s]
    PROVE  AllEnds'
  <1> USE DEF sessionVars, copyVars, StartCopiers, PumpEnds, PumpWriteFails,
              PumpStops
  <1>1. UNCHANGED <<streams, chan, reader, got>>
      BY DEF SendOpen, Dial, DialFails, PumpChunk, PumpSendsClose, PumpCloses,
             SendOpenFails
  <1>2. \A p \in Sides, k \in Ids : WireQuiet(p, k)
    <2>1. CASE UNCHANGED wire
        BY <2>1, SameIsQuiet
    <2>2. CASE s = "server" /\ SendOpen(n)
      <3> DEFINE f == Frame("open", n, 0)
      <3>1. f \in Frames /\ \A k \in Ids : Writes(s, k, f)
          BY DEF Frame, Frames, Writes
      <3> QED
          BY <2>2, <3>1, WroteQuiet DEF SendOpen
    <2>3. CASE PumpChunk(s, n)
      <3> DEFINE f == Frame("data", n, sent[s][n] + 1)
      <3>1. sent[s][n] + 1 \in Chunks
        <4>1. sent[s][n] \in Nat /\ sent[s][n] < MaxChunks
            BY <2>3, EndsTypes DEF PumpChunk
        <4> QED
            BY <4>1, MuxAssumption DEF Chunks
      <3>2. f \in Frames /\ \A k \in Ids : Writes(s, k, f)
          BY <2>3, <3>1 DEF PumpChunk, Frame, Frames, Writes
      <3> QED
          BY <2>3, <3>2, WroteQuiet DEF PumpChunk
    <2>4. CASE PumpSendsClose(s, n)
      <3> DEFINE f == Frame("close", n, 0)
      <3>1. f \in Frames
          BY DEF Frame, Frames
      <3>2. pump[s][n] = "closeframe" /\ pump'[s][n] = "done"
          BY <2>4, EndsTypes DEF PumpSendsClose
      <3>3. \A k \in Ids : Writes(s, k, f)
          BY <3>2 DEF Frame, Writes
      <3> QED
          BY <2>4, <3>1, <3>3, WroteQuiet DEF PumpSendsClose
    <2> QED
        BY <2>1, <2>2, <2>3, <2>4 DEF Dial, DialFails, PumpCloses, SendOpenFails
  <1>3. /\ pump[s][n] \in Waiting => drain[s][n] = "none"
        /\ Peer(s) \in Sides
      BY FlowTypes DEF EndsInv, FlowInv, StartedOnce
  <1>4. /\ \A p \in Sides, k \in Ids : p # s \/ k # n =>
              /\ pump'[p][k] = pump[p][k] /\ drain'[p][k] = drain[p][k]
              /\ sent'[p][k] = sent[p][k]
        /\ PumpQuiet(s, n)
        /\ sent'[s][n] = sent[s][n] \/ pump[s][n] = "run"
        /\ \/ drain'[s][n] = drain[s][n] \/ drain'[s][n] = "run"
           \/ Refuses(s, n)
    <2>1. CASE s = "server" /\ SendOpen(n)
        BY <2>1, EndsTypes DEF SendOpen, PumpQuiet
    <2>2. CASE s = "client" /\ Dial(n)
        BY <2>2, EndsTypes DEF Dial, PumpQuiet
    <2>3. CASE s = "client" /\ DialFails(n)
        BY <1>3, <2>3, EndsTypes DEF DialFails, PumpQuiet, Waiting, Refuses
    <2>4. CASE PumpChunk(s, n)
        BY <2>4, EndsTypes DEF PumpChunk, PumpQuiet
    <2>5. CASE PumpEnds(s, n) \/ PumpWriteFails(s, n)
        BY <2>5, EndsTypes DEF PumpQuiet
    <2>6. CASE PumpSendsClose(s, n)
        BY <2>6, EndsTypes DEF PumpSendsClose, PumpQuiet
    <2>7. CASE PumpCloses(s, n) /\ n \notin streams[s]
        BY <2>7, EndsTypes DEF PumpCloses, PumpQuiet
    <2>8. CASE s = "server" /\ SendOpenFails(n) /\ n \notin streams[s]
        BY <1>3, <2>8, EndsTypes DEF SendOpenFails, PumpQuiet, Waiting, Refuses
    <2> QED
        BY <2>1, <2>2, <2>3, <2>4, <2>5, <2>6, <2>7, <2>8
  <1> HIDE DEF sessionVars, copyVars, StartCopiers, PumpEnds, PumpWriteFails,
               PumpStops
  <1> QED
      BY <1>1, <1>2, <1>3, <1>4, CopierQuiet

\* The copier, or the handler before it, takes its own stream.
LEMMA CopierTakes ==
    ASSUME EndsInv, RecordTaker, RecordRefused, NEW s \in Sides, NEW n \in Ids,
           PumpCloses(s, n) \/ (s = "server" /\ SendOpenFails(n)), n \in streams[s]
    PROVE  AllEnds'
  <1>1. /\ Unregister(s, n, "copier") /\ UNCHANGED <<wire, reader, sent, got>>
      BY DEF PumpCloses, SendOpenFails, copyVars
  <1>2. /\ pump'[s][n] # pump[s][n] /\ pump'[s][n] \in {"closeframe", "done"}
        /\ \A p \in Sides, k \in Ids : p # s \/ k # n =>
              pump'[p][k] = pump[p][k] /\ drain'[p][k] = drain[p][k]
    <2>1. CASE PumpCloses(s, n)
      <3>1. /\ pump[s][n] = "close" /\ UNCHANGED drain
            /\ pump' = [pump EXCEPT ![s][n] = "closeframe"]
          BY <2>1 DEF PumpCloses
      <3> QED
          BY <3>1, EndsTypes
    <2>2. CASE s = "server" /\ SendOpenFails(n)
      <3>1. /\ pump[s][n] = "opening"
            /\ pump' = [pump EXCEPT ![s][n] = "done"]
            /\ drain' = [drain EXCEPT ![s][n] = "done"]
          BY <2>2 DEF SendOpenFails
      <3> QED
          BY <3>1, EndsTypes
    <2> QED
        BY <2>1, <2>2
  <1>3. drain'[s][n] = drain[s][n] \/ Refuses(s, n)
    <2>1. pump[s][n] \in Waiting => drain[s][n] = "none"
        BY DEF EndsInv, FlowInv, StartedOnce
    <2> QED
        BY <2>1, EndsTypes DEF PumpCloses, SendOpenFails, Waiting, Refuses
  <1>4. Taker(s, n) = "copier"
      BY <1>1, <1>2, UnregisterFacts DEF Taker
  <1>5. CleanEnd(s, n)'
      BY <1>1, <1>2, <1>3, <1>4, UnregisterFacts, RegisteredFacts, EndsTaken
  <1>6. ASSUME NEW p \in Sides, NEW k \in Ids, p # s \/ k # n
        PROVE  PumpQuiet(p, k) /\ ReaderQuiet(p, k)
      BY <1>1, <1>2, <1>6, SameIsQuiet DEF PumpQuiet
  <1> QED
      BY <1>1, <1>2, <1>5, <1>6, UnregisterEnds

\* Chunks of a closed channel are passed on until it is empty, unless the
\* connection refuses one.
LEMMA DrainerEnds ==
    ASSUME EndsInv, RecordTaker, RecordRefused, NEW s \in Sides, NEW n \in Ids,
           Drainer(s, n)
    PROVE  AllEnds'
  <1>1. /\ UNCHANGED <<wire, reader, pump, sent, streams>>
        /\ chan'[s][n].state = chan[s][n].state /\ drain[s][n] = "run"
        /\ \A p \in Sides, k \in Ids : p # s \/ k # n =>
              /\ chan'[p][k] = chan[p][k] /\ drain'[p][k] = drain[p][k]
              /\ got'[p][k] = got[p][k]
      BY DrainFacts DEF EndsInv, Drainer, DrainChunk, DrainEnds, sessionVars
  <1>2. DataQuiet(s, n)
    <2>1. CASE DrainChunk(s, n)
      <3>1. /\ chan'[s][n].q = Tail(chan[s][n].q) /\ chan[s][n].q # <<>>
            /\ got'[s][n] = got[s][n] + 1 /\ drain' = drain
          BY <2>1, EndsTypes, QueueFacts DEF DrainChunk
      <3>2. chan[s][n].q \in Seq(Chunks) /\ got[s][n] \in Nat
          BY EndsTypes DEF Channel
      <3>3. got'[s][n] + Len(chan'[s][n].q) = got[s][n] + Len(chan[s][n].q)
        <4>1. \A q \in Seq(Chunks), g \in Nat :
                 q # <<>> => (g + 1) + Len(Tail(q)) = g + Len(q)
            OBVIOUS
        <4> QED
            BY <3>1, <3>2, <4>1, Zenon
      <3> QED
          BY <1>1, <3>1, <3>3 DEF DataQuiet
    <2>2. CASE DrainEnds(s, n) /\ chan[s][n].q = <<>>
        BY <1>1, <2>2 DEF DrainEnds, DataQuiet
    <2>3. CASE DrainEnds(s, n) /\ chan[s][n].q # <<>>
      <3>1. Refuses(s, n)
          BY <2>3, EndsTypes DEF DrainEnds, Refuses
      <3> QED
          BY <1>1, <3>1, Recorded DEF DataQuiet
    <2> QED
        BY <2>1, <2>2, <2>3 DEF Drainer
  <1>3. Quiet(s, n)
      BY <1>1, <1>2, SameIsQuiet DEF Quiet
  <1>4. ASSUME NEW p \in Sides, NEW k \in Ids, p # s \/ k # n PROVE Quiet(p, k)
      BY <1>1, <1>4, SameIsQuiet, ElsewhereQuiet
  <1> QED
      BY <1>1, <1>3, <1>4, QuietStep

\* A user connects: the stream is new to both sides.
LEMMA OpenStreamEnds ==
    ASSUME EndsInv, RecordTaker, RecordRefused, NEW n \in Ids, OpenStream(n)
    PROVE  AllEnds'
  <1>1. "server" \in Sides
      BY DEF Sides
  <1>2. chan["server"][n].state = "none" /\ pump["server"][n] = "none"
    <2>1. n > opened
        BY DEF OpenStream, EndsInv, FlowInv, MuxInv, RestTypeOK, Ids
    <2> QED
        BY <1>1, <2>1 DEF EndsInv, FlowInv, Control, OpenedOnce, Unborn
  <1>3. /\ UNCHANGED <<wire, reader, drain, sent, got>>
        /\ \A p \in Sides : streams[p] \subseteq streams'[p]
        /\ pump'["server"][n] = "opening"
        /\ \A p \in Sides, k \in Ids : p # "server" \/ k # n =>
              chan'[p][k] = chan[p][k] /\ pump'[p][k] = pump[p][k]
      BY <1>1, EndsTypes DEF OpenStream, Register
  <1>4. Quiet("server", n)
      BY <1>1, <1>2, <1>3, SameIsQuiet DEF Quiet, PumpQuiet, DataQuiet
  <1>5. ASSUME NEW p \in Sides, NEW k \in Ids, p # "server" \/ k # n
        PROVE  Quiet(p, k)
      BY <1>3, <1>5, SameIsQuiet, ElsewhereQuiet
  <1> QED
      BY <1>3, <1>4, <1>5, QuietStep

\* handleIncomingStream starts, with a stream that had no copiers before.
LEMMA AcceptEnds ==
    ASSUME EndsInv, RecordTaker, RecordRefused, AcceptStream
    PROVE  AllEnds'
  <1> DEFINE n == Head(acceptChan)
  <1>1. "client" \in Sides /\ acceptChan \in Seq(Ids) /\ acceptChan # <<>>
      BY EndsTypes DEF Sides, AcceptStream
  <1>2. n \in Ids /\ n = acceptChan[1] /\ 1 \in DOMAIN acceptChan
      BY <1>1
  <1>3. pump["client"][n] = "none"
      BY <1>2 DEF EndsInv, FlowInv, StartedOnce
  <1>4. UNCHANGED <<wire, reader, drain, sent, got, streams, chan>>
      BY DEF AcceptStream, sessionVars
  <1>5. \A p \in Sides, k \in Ids : PumpQuiet(p, k)
    <2>1. /\ pump'["client"][n] = "dial"
          /\ \A p \in Sides, k \in Ids : p # "client" \/ k # n =>
                pump'[p][k] = pump[p][k]
        BY <1>1, <1>2, EndsTypes DEF AcceptStream
    <2> QED
        BY <1>3, <2>1 DEF PumpQuiet
  <1>6. \A p \in Sides, k \in Ids : Quiet(p, k)
      BY <1>4, <1>5, SameIsQuiet DEF Quiet
  <1> QED
      BY <1>4, <1>6, QuietStep

\* Pings, the end of a local connection and the loss of the transport.
LEMMA OutsideEnds ==
    ASSUME EndsInv, RecordTaker, RecordRefused,
           \/ Break \/ (\E s \in Sides : PingLoop(s))
           \/ (\E s \in Sides, k \in Ids : LocalEnds(s, k))
    PROVE  AllEnds'
  <1>1. UNCHANGED <<reader, pump, drain, sent, got, streams, chan>>
      BY DEF Break, PingLoop, LocalEnds, sessionVars, copyVars
  <1>2. \A p \in Sides, k \in Ids : WireQuiet(p, k)
    <2>1. ASSUME NEW s \in Sides, PingLoop(s)
          PROVE  \A p \in Sides, k \in Ids : WireQuiet(p, k)
      <3> DEFINE f == Frame("ping", 0, 0)
      <3>1. f \in Frames /\ \A k \in Ids : Writes(s, k, f)
          BY DEF Frame, Frames, Writes
      <3> QED
          BY <2>1, <3>1, WroteQuiet DEF PingLoop
    <2>2. CASE UNCHANGED wire
        BY <2>2, SameIsQuiet
    <2> QED
        BY <2>1, <2>2 DEF Break, LocalEnds
  <1> QED
      BY <1>1, <1>2, SameIsQuiet, QuietStep DEF Quiet

-----------------------------------------------------------------------------
(* Every action records what RecordTaker and RecordRefused say *)

LEMMA TakerRecorded ==
    ASSUME EndsInv,
           \/ UNCHANGED taker /\ \A p \in Sides : streams[p] \subseteq streams'[p]
           \/ \E s \in Sides : CloseSession(s) /\ ~ closed[s]
           \/ \E s \in Sides : \E n \in streams[s] :
                 Unregister(s, n, Taker(s, n))
    PROVE  RecordTaker
  <1>1. /\ taker \in [Sides -> [Ids -> Takers]] /\ closed \in [Sides -> BOOLEAN]
        /\ streams \in [Sides -> SUBSET Ids]
      BY EndsTypes DEF EndsInv, HistoryOK
  <1>2. CASE UNCHANGED taker /\ \A p \in Sides : streams[p] \subseteq streams'[p]
    <2>1. \A p \in Sides, k \in Ids : k \notin streams[p] \ streams'[p]
        BY <1>2
    <2>2. taker = [p \in Sides |-> [k \in Ids |-> taker[p][k]]]
        BY <1>1
    <2> QED
        BY <1>2, <2>1, <2>2 DEF RecordTaker
  <1>3. ASSUME NEW s \in Sides, CloseSession(s), ~ closed[s] PROVE RecordTaker
    <2>1. /\ closed'[s] # closed[s] /\ streams'[s] = {}
          /\ \A p \in Sides : p # s => streams'[p] = streams[p]
        BY <1>1, <1>3 DEF CloseSession
    <2>2. \A k \in Ids : Taker(s, k) = "session"
        BY <2>1 DEF Taker
    <2>3. taker' = [taker EXCEPT ![s] =
                       [k \in Ids |-> IF k \in streams[s] THEN "session"
                                                          ELSE taker[s][k]]]
        BY <1>3 DEF CloseSession
    <2>4. \A p \in Sides, k \in Ids :
             taker'[p][k] = IF k \in streams[p] \ streams'[p] THEN Taker(p, k)
                                                              ELSE taker[p][k]
        BY <1>1, <2>1, <2>2, <2>3
    <2>5. taker' = [p \in Sides |-> [k \in Ids |-> taker'[p][k]]]
        BY <1>1, <2>3
    <2> QED
        BY <2>4, <2>5 DEF RecordTaker
  <1>4. ASSUME NEW s \in Sides, NEW n \in streams[s],
               Unregister(s, n, Taker(s, n))
        PROVE  RecordTaker
    <2>1. n \in Ids
        BY <1>1
    <2>2. /\ \A p \in Sides : p # s => streams'[p] = streams[p]
          /\ streams'[s] = streams[s] \ {n}
          /\ taker' = [taker EXCEPT ![s][n] = Taker(s, n)]
        BY <1>1, <1>4 DEF Unregister
    <2>3. \A p \in Sides, k \in Ids :
             taker'[p][k] = IF k \in streams[p] \ streams'[p] THEN Taker(p, k)
                                                              ELSE taker[p][k]
        BY <1>1, <1>4, <2>1, <2>2
    <2>4. taker' = [p \in Sides |-> [k \in Ids |-> taker'[p][k]]]
        BY <1>1, <2>2
    <2> QED
        BY <2>3, <2>4 DEF RecordTaker
  <1> QED
      BY <1>2, <1>3, <1>4

LEMMA RefusedRecorded ==
    ASSUME EndsInv,
           \/ UNCHANGED refused /\ \A p \in Sides, k \in Ids : ~ Refuses(p, k)
           \/ \E s \in Sides, n \in Ids :
                 /\ Refuse(s, n) /\ Refuses(s, n)
                 /\ \A p \in Sides, k \in Ids : p # s \/ k # n => ~ Refuses(p, k)
    PROVE  RecordRefused
  <1>1. refused \in [Sides -> SUBSET Ids]
      BY DEF EndsInv, HistoryOK
  <1>2. CASE UNCHANGED refused /\ \A p \in Sides, k \in Ids : ~ Refuses(p, k)
    <2>1. \A p \in Sides : refused[p] \cup {k \in Ids : Refuses(p, k)} = refused[p]
        BY <1>2
    <2>2. refused = [p \in Sides |-> refused[p]]
        BY <1>1
    <2> QED
        BY <1>2, <2>1, <2>2 DEF RecordRefused
  <1>3. ASSUME NEW s \in Sides, NEW n \in Ids, Refuse(s, n), Refuses(s, n),
               \A p \in Sides, k \in Ids : p # s \/ k # n => ~ Refuses(p, k)
        PROVE  RecordRefused
    <2>1. refused' = [refused EXCEPT ![s] = @ \cup {n}]
        BY <1>3 DEF Refuse
    <2>2. ASSUME NEW p \in Sides
          PROVE  refused'[p] = refused[p] \cup {k \in Ids : Refuses(p, k)}
      <3>1. p = s => {k \in Ids : Refuses(p, k)} = {n}
          BY <1>3
      <3>2. p # s => {k \in Ids : Refuses(p, k)} = {}
          BY <1>3
      <3> QED
          BY <1>1, <2>1, <3>1, <3>2
    <2>3. refused' = [p \in Sides |-> refused'[p]]
        BY <1>1, <2>1
    <2> QED
        BY <2>2, <2>3 DEF RecordRefused
  <1> QED
      BY <1>2, <1>3

LEMMA ReaderRecords ==
    ASSUME EndsInv, NEW s \in Sides, Reader(s)
    PROVE  RecordTaker /\ RecordRefused
  <1>1. UNCHANGED <<pump, drain, refused>>
      BY DEF Reader, ReadFrame, ReadError, OfferStream, Deliver, DeliverPanics,
             DeliverTimeout, DropStream, ReaderWrites, copyVars
  <1>2. SUFFICES RecordTaker
      BY <1>1, RefusedRecorded DEF Refuses
  <1>3. CASE ReadFrame(s)
    <2> DEFINE f == Head(wire[Peer(s)])
    <2>1. CASE UNCHANGED sessionVars
        BY <2>1, TakerRecorded DEF sessionVars
    <2>2. CASE ReadOpen(s, f)
      <3>1. UNCHANGED taker /\ \A p \in Sides : streams[p] \subseteq streams'[p]
          BY <2>2, EndsTypes DEF ReadOpen, Register
      <3> QED
          BY <3>1, TakerRecorded
    <2>3. CASE f.id \in streams[s] /\ Unregister(s, f.id, "peer")
      <3>1. closed' = closed /\ reader[s].at = "read"
          BY <1>3, <2>3 DEF ReadFrame, Unregister
      <3>2. Taker(s, f.id) = "peer"
          BY <1>1, <3>1 DEF Taker
      <3> QED
          BY <2>3, <3>2, TakerRecorded
    <2> QED
        BY <1>3, <2>1, <2>2, <2>3 DEF ReadFrame, ReadData, ReadClose, ReadPing,
                                      ReadPong, sessionVars
  <1>4. CASE DropStream(s)
    <2>1. CASE UNCHANGED sessionVars
        BY <2>1, TakerRecorded DEF sessionVars
    <2>2. CASE /\ reader[s].id \in streams[s]
               /\ Unregister(s, reader[s].id, "readLoop")
      <3>1. closed' = closed /\ reader[s].at = "drop"
          BY <1>4, <2>2 DEF DropStream, Unregister
      <3>2. Taker(s, reader[s].id) = "readLoop"
          BY <1>1, <3>1 DEF Taker
      <3> QED
          BY <2>2, <3>2, TakerRecorded
    <2> QED
        BY <1>4, <2>1, <2>2 DEF DropStream
  <1>5. CASE ReadError(s)
      BY <1>5, TakerRecorded DEF ReadError, sessionVars
  <1>6. CASE ~ ReadFrame(s) /\ ~ DropStream(s) /\ ~ ReadError(s)
    <2>1. UNCHANGED <<taker, streams>>
        BY <1>6 DEF Reader, OfferStream, Deliver, DeliverPanics,
                    DeliverTimeout, ReaderWrites, sessionVars
    <2> QED
        BY <2>1, TakerRecorded
  <1> QED
      BY <1>3, <1>4, <1>5, <1>6

\* Where the copier of a stream was before the step, and where it is now.
LEMMA OwnDrain ==
    ASSUME EndsInv, NEW s \in Sides, NEW n \in Ids, NEW v,
           drain' = [drain EXCEPT ![s][n] = v]
    PROVE  /\ drain'[s][n] = v
           /\ \A p \in Sides, k \in Ids : p # s \/ k # n => ~ Refuses(p, k)
  <1>1. drain \in [Sides -> [Ids -> {"none", "run", "done"}]]
      BY EndsTypes
  <1>2. \A p \in Sides, k \in Ids : p # s \/ k # n => drain'[p][k] = drain[p][k]
      BY <1>1
  <1> QED
      BY <1>1, <1>2 DEF Refuses

LEMMA CopierRecords ==
    ASSUME EndsInv, NEW s \in Sides, NEW n \in Ids,
           \/ PumpChunk(s, n) \/ PumpWriteFails(s, n)
           \/ Copier(s, n) \/ Drainer(s, n) \/ LocalEnds(s, n)
    PROVE  RecordTaker /\ RecordRefused
  <1> USE DEF sessionVars, PumpEnds, PumpWriteFails, PumpStops
  <1>1. CASE UNCHANGED <<streams, taker, drain, refused>>
      BY <1>1, TakerRecorded, RefusedRecorded DEF Refuses
  <1>2. CASE PumpCloses(s, n)
    <2>1. RecordRefused
        BY <1>2, RefusedRecorded DEF PumpCloses, Refuses
    <2>2. CASE n \in streams[s]
      <3>1. Unregister(s, n, "copier")
          BY <1>2, <2>2 DEF PumpCloses
      <3>2. pump'[s][n] # pump[s][n]
          BY <1>2, <2>2, EndsTypes DEF PumpCloses
      <3>3. Taker(s, n) = "copier"
          BY <3>1, <3>2 DEF Taker, Unregister
      <3> QED
          BY <2>1, <2>2, <3>1, <3>3, TakerRecorded
    <2>3. CASE n \notin streams[s]
        BY <1>2, <2>1, <2>3, TakerRecorded DEF PumpCloses
    <2> QED
        BY <2>2, <2>3
  <1>3. CASE s = "server" /\ SendOpenFails(n)
    <2>1. /\ Refuse(s, n) /\ drain' = [drain EXCEPT ![s][n] = "done"]
          /\ pump[s][n] = "opening" /\ pump' = [pump EXCEPT ![s][n] = "done"]
          /\ IF n \in streams[s] THEN Unregister(s, n, "copier")
                                 ELSE UNCHANGED sessionVars
        BY <1>3 DEF SendOpenFails
    <2>2. drain[s][n] = "none"
        BY <2>1 DEF EndsInv, FlowInv, StartedOnce, Waiting
    <2>3. Refuses(s, n)
        BY <2>1, <2>2, OwnDrain DEF Refuses
    <2>4. RecordRefused
        BY <2>1, <2>3, OwnDrain, RefusedRecorded
    <2>5. CASE n \in streams[s]
      <3>1. pump'[s][n] # pump[s][n]
          BY <2>1, EndsTypes
      <3>2. Taker(s, n) = "copier"
          BY <2>1, <2>5, <3>1 DEF Taker, Unregister
      <3> QED
          BY <2>1, <2>4, <2>5, <3>2, TakerRecorded
    <2>6. CASE n \notin streams[s]
        BY <2>1, <2>4, <2>6, TakerRecorded
    <2> QED
        BY <2>5, <2>6
  <1>4. CASE s = "client" /\ DialFails(n)
    <2>1. /\ Refuse(s, n) /\ drain' = [drain EXCEPT ![s][n] = "done"]
          /\ pump[s][n] = "dial" /\ UNCHANGED <<streams, taker>>
        BY <1>4 DEF DialFails
    <2>2. drain[s][n] = "none"
        BY <2>1 DEF EndsInv, FlowInv, StartedOnce, Waiting
    <2>3. Refuses(s, n)
        BY <2>1, <2>2, OwnDrain DEF Refuses
    <2> QED
        BY <2>1, <2>3, OwnDrain, TakerRecorded, RefusedRecorded
  <1>5. CASE (s = "server" /\ SendOpen(n)) \/ (s = "client" /\ Dial(n))
    <2>1. /\ drain' = [drain EXCEPT ![s][n] = "run"]
          /\ UNCHANGED <<streams, taker, refused>>
        BY <1>5 DEF SendOpen, Dial, StartCopiers
    <2>2. ~ Refuses(s, n)
        BY <2>1, OwnDrain DEF Refuses
    <2> QED
        BY <2>1, <2>2, OwnDrain, TakerRecorded, RefusedRecorded
  <1>6. CASE DrainEnds(s, n)
    <2>1. /\ drain[s][n] = "run" /\ drain' = [drain EXCEPT ![s][n] = "done"]
          /\ UNCHANGED <<streams, taker>>
          /\ \/ chan[s][n].q = <<>> /\ UNCHANGED refused
             \/ chan[s][n].q # <<>> /\ local[s][n] = "reset" /\ Refuse(s, n)
        BY <1>6 DEF DrainEnds
    <2>2. Refuses(s, n) <=> chan[s][n].q # <<>>
        BY <2>1, OwnDrain DEF Refuses
    <2> QED
        BY <2>1, <2>2, OwnDrain, TakerRecorded, RefusedRecorded
  <1>7. CASE \/ PumpChunk(s, n) \/ PumpWriteFails(s, n) \/ PumpEnds(s, n)
             \/ PumpSendsClose(s, n) \/ DrainChunk(s, n) \/ LocalEnds(s, n)
    <2>1. UNCHANGED <<streams, taker, drain, refused>>
        BY <1>7 DEF PumpChunk, PumpSendsClose, DrainChunk, LocalEnds
    <2> QED
        BY <1>1, <2>1
  <1> QED
      BY <1>2, <1>3, <1>4, <1>5, <1>6, <1>7 DEF Copier, Drainer

LEMMA Records == EndsInv /\ Next => RecordTaker /\ RecordRefused
  <1> SUFFICES ASSUME EndsInv, Next PROVE RecordTaker /\ RecordRefused
      OBVIOUS
  <1>1. ASSUME Replace PROVE RecordTaker /\ RecordRefused
    <2>1. "server" \in Sides
        BY DEF Sides
    <2> QED
        BY <1>1, <2>1, TakerRecorded, RefusedRecorded
           DEF Replace, copyVars, Refuses
  <1>2. ASSUME NEW k \in Ids, OpenStream(k) PROVE RecordTaker /\ RecordRefused
    <2>1. UNCHANGED taker /\ \A p \in Sides : streams[p] \subseteq streams'[p]
        BY <1>2, EndsTypes DEF OpenStream, Register
    <2> QED
        BY <1>2, <2>1, TakerRecorded, RefusedRecorded DEF OpenStream, Refuses
  <1>3. ASSUME Break \/ AcceptStream \/ \E s \in Sides : PingLoop(s)
        PROVE  RecordTaker /\ RecordRefused
    <2>1. UNCHANGED <<streams, taker, drain, refused>>
        BY <1>3 DEF Break, AcceptStream, PingLoop, sessionVars, copyVars
    <2> QED
        BY <2>1, TakerRecorded, RefusedRecorded DEF Refuses
  <1> QED
      BY <1>1, <1>2, <1>3, ReaderRecords, CopierRecords DEF Next

-----------------------------------------------------------------------------
(* The invariant holds *)

LEMMA EndsInit == Init => EndsInv
  <1> SUFFICES ASSUME Init PROVE EndsInv
      OBVIOUS
  <1>1. FlowInv
      BY FlowInit
  <1>2. HistoryOK
      BY HistoryInit
  <1>3. ASSUME NEW s \in Sides, NEW k \in Ids PROVE CleanEnd(s, k)
    <2>1. /\ Peer(s) \in Sides
          /\ taker[s][k] = "none" /\ pump[s][k] = "none" /\ drain[s][k] = "none"
          /\ wire[s] = <<>> /\ reader[s].at = "read"
        BY DEF Init, Sides, Peer, At
    <2>2. NoClose(wire[s], k)
        BY <2>1 DEF NoClose
    <2> QED
        BY <2>1, <2>2 DEF CleanEnd, Who, Behind, Earlier, SawEnd, Rest
  <1> QED
      BY <1>1, <1>2, <1>3 DEF EndsInv, AllEnds

LEMMA EndsStep == EndsInv /\ [Next]_vars => EndsInv'
  <1> SUFFICES ASSUME EndsInv, [Next]_vars PROVE EndsInv'
      OBVIOUS
  <1>1. CASE Next
    <2> USE <1>1, Records
    <2>1. FlowInv' /\ HistoryOK'
        BY FlowStep, HistoryStep DEF EndsInv, FlowInv
    <2>2. ASSUME NEW s \in Sides, Reader(s) PROVE AllEnds'
      <3>1. CASE DropStream(s)
        <4>1. reader[s].id \in Ids
            BY <3>1, EndsTypes DEF DropStream, Positions
        <4> QED
            BY <3>1, <4>1, DropEnds, ReaderEnds
      <3> QED
          BY <2>2, <3>1, ReadFrameEnds, ReadErrorEnds, ReaderEnds DEF Reader
    <2>3. ASSUME Replace PROVE AllEnds'
      <3>1. "server" \in Sides
          BY DEF Sides
      <3> QED
          BY <2>3, <3>1, CloseSessionEnds DEF Replace
    <2>4. ASSUME NEW s \in Sides, NEW k \in Ids,
                 PumpChunk(s, k) \/ PumpWriteFails(s, k) \/ Copier(s, k)
          PROVE  AllEnds'
        BY <2>4, CopierStepEnds, CopierTakes DEF Copier
    <2>5. ASSUME NEW s \in Sides, NEW k \in Ids, Drainer(s, k) PROVE AllEnds'
        BY <2>5, DrainerEnds
    <2>6. ASSUME NEW k \in Ids, OpenStream(k) PROVE AllEnds'
        BY <2>6, OpenStreamEnds
    <2>7. ASSUME AcceptStream PROVE AllEnds'
        BY <2>7, AcceptEnds
    <2>8. ASSUME \/ Break \/ (\E s \in Sides : PingLoop(s))
                 \/ (\E s \in Sides, k \in Ids : LocalEnds(s, k))
          PROVE  AllEnds'
        BY <2>8, OutsideEnds
    <2>9. AllEnds'
        BY <2>2, <2>3, <2>4, <2>5, <2>6, <2>7, <2>8 DEF Next
    <2> QED
        BY <2>1, <2>9 DEF EndsInv
  <1>2. CASE UNCHANGED vars
    <2>1. FlowInv'
        BY <1>2, FlowStep DEF EndsInv
    <2>2. HistoryOK' /\ AllEnds'
        BY <1>2 DEF EndsInv, vars, HistoryOK, AllEnds,
                    CleanEnd, Who, Behind, Earlier, SawEnd, Rest
    <2> QED
        BY <2>1, <2>2 DEF EndsInv
  <1> QED
      BY <1>1, <1>2

LEMMA EndsInvariant == Spec => []EndsInv
  <1> QED
      BY EndsInit, EndsStep, PTL DEF Spec

\* An orderly end cuts nothing short: what a copier wrote before it closed its
\* stream is in the other side's hands when that side's stream is closed by
\* the close frame, and has been passed on when its copier is done.
THEOREM OrderlyEnd == Spec => []EndIsComplete
  <1>1. EndsInv => EndIsComplete
    <2> SUFFICES ASSUME EndsInv, NEW s \in Sides, NEW k \in Ids,
                        taker[s][k] = "peer", taker[Peer(s)][k] = "copier",
                        k \notin refused[s]
                 PROVE  /\ got[s][k] + Len(chan[s][k].q) = sent[Peer(s)][k]
                        /\ drain[s][k] = "done" => got[s][k] = sent[Peer(s)][k]
        BY DEF EndIsComplete
    <2>1. SawEnd(s, k) /\ Rest(s, k)
        BY DEF EndsInv, AllEnds, CleanEnd
    <2>2. got[s][k] \in Nat
        BY EndsTypes
    <2> QED
        BY <2>1, <2>2 DEF SawEnd, Rest
  <1> QED
      BY <1>1, EndsInvariant, PTL

\* readLoop waits at most once for a stream that takes no data: a stream that
\* it gave up, or that the other side closed, is never in its hand again.
THEOREM WaitsOnce == Spec => []NeverWaitsAgain
  <1>1. EndsInv => NeverWaitsAgain
    <2> SUFFICES ASSUME EndsInv, NEW s \in Sides, reader[s].at = "deliver"
                 PROVE  taker[s][reader[s].id] \in {"none", "copier", "session"}
        BY DEF NeverWaitsAgain
    <2>1. reader[s].id \in Ids
        BY EndsTypes DEF Positions
    <2> QED
        BY <2>1 DEF EndsInv, AllEnds, CleanEnd, Who
  <1> QED
      BY <1>1, EndsInvariant, PTL
=============================================================================
