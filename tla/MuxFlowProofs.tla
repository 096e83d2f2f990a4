---------------------------- MODULE MuxFlowProofs ----------------------------
(***************************************************************************)
(* Theorems about the data that MuxSession carries, for any number of      *)
(* streams, chunks and pings and any capacities: what a copier passes on   *)
(* is the beginning of what the other side wrote, nothing is lost while a  *)
(* stream is registered and read, and a session implements the pipes of    *)
(* MuxStream.                                                              *)
(*                                                                         *)
(* The invariant follows every stream of a side through the places its     *)
(* chunks pass: wire, hand of readLoop, readChan, copier. It holds from    *)
(* before the stream is known to the side, and rests on how streams come   *)
(* into being: the open frame is alone, and before the data.               *)
(***************************************************************************)
EXTENDS MuxProofs

-----------------------------------------------------------------------------
(* The invariant *)

\* An open frame for stream k, in position i of the wire w.
OpenAt(w, k, i) == w[i].type = "open" /\ w[i].id = k

NoOpen(w, k) == \A i \in DOMAIN w : ~ OpenAt(w, k, i)

\* One open frame for stream k, and all its data behind it.
Announced(w, k) ==
    \E j \in DOMAIN w :
        /\ OpenAt(w, k, j)
        /\ \A i \in DOMAIN w : OpenAt(w, k, i) => i = j
        /\ \A i \in DataAt(w, k) : j < i

\* A stream that the side does not know of yet has no copiers and no data.
Unborn(s, k) ==
    chan[s][k].state = "none" =>
        /\ chan[s][k].q = <<>>
        /\ pump[s][k] = "none" /\ drain[s][k] = "none"
        /\ sent[s][k] = 0 /\ got[s][k] = 0

\* readLoop and the accept queue only hold streams the side knows of.
Known(s) ==
    /\ reader[s].at \in {"accept", "deliver", "drop"}
          => chan[s][reader[s].id].state # "none"
    /\ s = "client" => \A i \in DOMAIN acceptChan :
                          chan[s][acceptChan[i]].state # "none"

\* The open frame of a stream is sent once, before its data, and read once.
OpenedOnce(k) ==
    /\ k > opened => chan["server"][k].state = "none"
    /\ pump["server"][k] \in {"none", "opening"} =>
          /\ chan["client"][k].state = "none"
          /\ NoOpen(wire["server"], k)
          /\ sent["server"][k] = 0
    /\ chan["client"][k].state # "none" => NoOpen(wire["server"], k)
    /\ chan["client"][k].state = "none" =>
          \/ Announced(wire["server"], k)
          \/ /\ NoOpen(wire["server"], k)
             /\ sent["server"][k] = 0 /\ pump["server"][k] # "run"
    /\ NoOpen(wire["client"], k)

\* Before a stream has copiers.
Waiting == {"none", "opening", "dial"}

\* A stream goes through the accept queue once, and its copiers start once.
StartedOnce ==
    /\ \A i \in DOMAIN acceptChan : pump["client"][acceptChan[i]] = "none"
    /\ \A i, j \in DOMAIN acceptChan : acceptChan[i] = acceptChan[j] => i = j
    /\ reader["client"].at = "accept" =>
          /\ pump["client"][reader["client"].id] = "none"
          /\ \A i \in DOMAIN acceptChan : acceptChan[i] # reader["client"].id
    /\ \A s \in Sides, k \in Ids : pump[s][k] \in Waiting => drain[s][k] = "none"

\* What readChan holds is what comes next for the copier.
Queued(s, k) ==
    /\ \A i \in DOMAIN chan[s][k].q : chan[s][k].q[i] = got[s][k] + i
    /\ got[s][k] + Len(chan[s][k].q) <= sent[Peer(s)][k]

\* Nothing was taken from stream k yet that was not passed on.
Live(s, k) ==
    chan[s][k].state # "closed" /\ drain[s][k] # "done" /\ ~ Dropping(s, k)

\* The rest is in the hand of readLoop and on the wire.
Travelling(s, k) ==
    /\ InHand(s, k) => reader[s].chunk = Arrived(s, k)
    /\ Arrived(s, k) <= sent[Peer(s)][k]
    /\ Carries(wire[Peer(s)], k, Arrived(s, k), sent[Peer(s)][k])

Flow(s, k) ==
    /\ got[s][k] <= sent[Peer(s)][k]
    /\ drain[s][k] # "done" => Queued(s, k)
    /\ Live(s, k) => Travelling(s, k)

Control ==
    /\ \A s \in Sides : Known(s)
    /\ \A s \in Sides, k \in Ids : Unborn(s, k)
    /\ \A k \in Ids : OpenedOnce(k)

Flows == \A s \in Sides, k \in Ids : Flow(s, k)

FlowInv == MuxInv /\ Control /\ StartedOnce /\ Flows

-----------------------------------------------------------------------------
(* Frames on the wire *)

\* What is appended to a wire is at its end, the rest stays where it was.
LEMMA Appended ==
    ASSUME NEW w \in Seq(Frames), NEW f \in Frames
    PROVE  /\ Append(w, f) \in Seq(Frames)
           /\ DOMAIN Append(w, f) = 1 .. Len(w) + 1
           /\ DOMAIN w = 1 .. Len(w)
           /\ Len(w) \in Nat
           /\ \A i \in DOMAIN w : Append(w, f)[i] = w[i]
           /\ Append(w, f)[Len(w) + 1] = f
    OBVIOUS

\* What is read is the first frame, the rest moves up by one.
LEMMA Read ==
    ASSUME NEW w \in Seq(Frames), w # <<>>
    PROVE  /\ Tail(w) \in Seq(Frames)
           /\ Head(w) \in Frames
           /\ 1 \in DOMAIN w /\ w[1] = Head(w)
           /\ DOMAIN w \subseteq Nat
           /\ DOMAIN Tail(w) \subseteq Nat
           /\ \A i \in DOMAIN Tail(w) : i + 1 \in DOMAIN w /\ i + 1 # 1
                                        /\ Tail(w)[i] = w[i + 1]
           /\ \A i \in DOMAIN w : i # 1 => i - 1 \in DOMAIN Tail(w) /\ i > 1
                                           /\ Tail(w)[i - 1] = w[i]
    OBVIOUS

\* A frame that is not data of stream k changes nothing of its data.
LEMMA CarriesAppendOther ==
    ASSUME NEW w \in Seq(Frames), NEW f \in Frames, NEW k, NEW lo \in Nat,
           NEW hi \in Nat, Carries(w, k, lo, hi),
           ~ (f.type = "data" /\ f.id = k)
    PROVE  Carries(Append(w, f), k, lo, hi)
  <1>1. DataAt(Append(w, f), k) = DataAt(w, k)
      BY Appended DEF DataAt
  <1>2. \A i \in DataAt(w, k) : Append(w, f)[i] = w[i]
      BY Appended DEF DataAt
  <1> QED
      BY <1>1, <1>2 DEF Carries

\* The next chunk goes behind the others.
LEMMA CarriesAppendNext ==
    ASSUME NEW w \in Seq(Frames), NEW f \in Frames, NEW k, NEW lo \in Nat,
           NEW hi \in Nat, lo <= hi, Carries(w, k, lo, hi),
           f.type = "data", f.id = k, f.chunk = hi + 1
    PROVE  Carries(Append(w, f), k, lo, hi + 1)
  <1> DEFINE v == Append(w, f)
             n == Len(w) + 1
  <1>1. DataAt(v, k) = DataAt(w, k) \cup {n}
      BY Appended DEF DataAt
  <1>2. \A i \in DataAt(w, k) : v[i] = w[i] /\ i < n /\ i \in Nat
      BY Appended DEF DataAt
  <1>3. v[n] = f /\ n \in Nat
      BY Appended
  <1> HIDE DEF v, n
  <1>4. \A i \in DataAt(v, k) : v[i].chunk \in lo + 1 .. hi + 1
      BY <1>1, <1>2, <1>3 DEF Carries
  <1>5. \A c \in lo + 1 .. hi + 1 : \E i \in DataAt(v, k) : v[i].chunk = c
      BY <1>1, <1>2, <1>3 DEF Carries
  <1>6. \A i, j \in DataAt(v, k) : i < j => v[i].chunk < v[j].chunk
    <2> SUFFICES ASSUME NEW i \in DataAt(v, k), NEW j \in DataAt(v, k), i < j
                 PROVE  v[i].chunk < v[j].chunk
        OBVIOUS
    <2>1. CASE j = n
      <3>1. i \in DataAt(w, k)
          BY <1>1, <1>3, <2>1
      <3>2. v[i].chunk \in lo + 1 .. hi
          BY <3>1, <1>2 DEF Carries
      <3> QED
          BY <1>3, <2>1, <3>2
    <2>2. CASE j # n
      <3>1. j \in DataAt(w, k) /\ i \in DataAt(w, k)
          BY <1>1, <1>2, <1>3, <2>2
      <3> QED
          BY <1>2, <3>1 DEF Carries
    <2> QED
        BY <2>1, <2>2
  <1> QED
      BY <1>4, <1>5, <1>6 DEF Carries, v

\* Reading a frame that is not data of stream k changes nothing of its data.
LEMMA CarriesTailOther ==
    ASSUME NEW w \in Seq(Frames), w # <<>>, NEW k, NEW lo \in Nat,
           NEW hi \in Nat, Carries(w, k, lo, hi),
           ~ (Head(w).type = "data" /\ Head(w).id = k)
    PROVE  Carries(Tail(w), k, lo, hi)
  <1>1. \A i \in DataAt(Tail(w), k) :
           i + 1 \in DataAt(w, k) /\ Tail(w)[i] = w[i + 1] /\ i \in Nat
      BY Read DEF DataAt
  <1>2. \A i \in DataAt(w, k) :
           i - 1 \in DataAt(Tail(w), k) /\ Tail(w)[i - 1] = w[i]
      BY Read DEF DataAt
  <1>3. \A i \in DataAt(Tail(w), k) : Tail(w)[i].chunk \in lo + 1 .. hi
      BY <1>1 DEF Carries
  <1>4. \A c \in lo + 1 .. hi : \E i \in DataAt(Tail(w), k) : Tail(w)[i].chunk = c
    <2> SUFFICES ASSUME NEW c \in lo + 1 .. hi
                 PROVE  \E i \in DataAt(Tail(w), k) : Tail(w)[i].chunk = c
        OBVIOUS
    <2>1. PICK i \in DataAt(w, k) : w[i].chunk = c
        BY DEF Carries
    <2> QED
        BY <1>2, <2>1
  <1>5. \A i, j \in DataAt(Tail(w), k) :
           i < j => Tail(w)[i].chunk < Tail(w)[j].chunk
    <2> SUFFICES ASSUME NEW i \in DataAt(Tail(w), k),
                        NEW j \in DataAt(Tail(w), k), i < j
                 PROVE  w[i + 1].chunk < w[j + 1].chunk
        BY <1>1
    <2>1. i + 1 < j + 1
        BY <1>1
    <2> QED
        BY <1>1, <2>1 DEF Carries
  <1> QED
      BY <1>3, <1>4, <1>5 DEF Carries

\* The first data frame of stream k is the chunk after lo.
LEMMA CarriesTailNext ==
    ASSUME NEW w \in Seq(Frames), w # <<>>, NEW k, NEW lo \in Nat,
           NEW hi \in Nat, Carries(w, k, lo, hi),
           Head(w).type = "data", Head(w).id = k
    PROVE  /\ Head(w).chunk = lo + 1
           /\ lo + 1 <= hi
           /\ Carries(Tail(w), k, lo + 1, hi)
  <1>1. \A i \in DataAt(Tail(w), k) :
           i + 1 \in DataAt(w, k) /\ Tail(w)[i] = w[i + 1] /\ i \in Nat /\ i + 1 > 1
      BY Read DEF DataAt
  <1>2. \A i \in DataAt(w, k) :
           i # 1 => i - 1 \in DataAt(Tail(w), k) /\ Tail(w)[i - 1] = w[i] /\ i > 1
      BY Read DEF DataAt
  <1>3. 1 \in DataAt(w, k) /\ w[1] = Head(w)
      BY Read DEF DataAt
  <1>4. w[1].chunk \in lo + 1 .. hi
      BY <1>3 DEF Carries
  <1>5. w[1].chunk = lo + 1
    <2>1. PICK i \in DataAt(w, k) : w[i].chunk = lo + 1
        BY <1>4 DEF Carries
    <2>2. CASE i = 1
        BY <2>1, <2>2
    <2>3. CASE i # 1
      <3>1. 1 < i
          BY <1>2, <2>3
      <3>2. w[1].chunk < w[i].chunk
          BY <1>3, <3>1 DEF Carries
      <3> QED
          BY <1>4, <2>1, <3>2
    <2> QED
        BY <2>2, <2>3
  <1>6. \A i \in DataAt(Tail(w), k) : Tail(w)[i].chunk \in lo + 2 .. hi
    <2> SUFFICES ASSUME NEW i \in DataAt(Tail(w), k)
                 PROVE  w[i + 1].chunk \in lo + 2 .. hi
        BY <1>1
    <2>1. w[1].chunk < w[i + 1].chunk
        BY <1>1, <1>3 DEF Carries
    <2>2. w[i + 1].chunk \in lo + 1 .. hi
        BY <1>1 DEF Carries
    <2> QED
        BY <1>5, <2>1, <2>2
  <1>7. \A c \in lo + 2 .. hi : \E i \in DataAt(Tail(w), k) : Tail(w)[i].chunk = c
    <2> SUFFICES ASSUME NEW c \in lo + 2 .. hi
                 PROVE  \E i \in DataAt(Tail(w), k) : Tail(w)[i].chunk = c
        OBVIOUS
    <2>1. PICK i \in DataAt(w, k) : w[i].chunk = c
        BY DEF Carries
    <2>2. i # 1
        BY <1>5, <2>1
    <2> QED
        BY <1>2, <2>1, <2>2
  <1>8. \A i, j \in DataAt(Tail(w), k) :
           i < j => Tail(w)[i].chunk < Tail(w)[j].chunk
    <2> SUFFICES ASSUME NEW i \in DataAt(Tail(w), k),
                        NEW j \in DataAt(Tail(w), k), i < j
                 PROVE  w[i + 1].chunk < w[j + 1].chunk
        BY <1>1
    <2>1. i + 1 < j + 1
        BY <1>1
    <2> QED
        BY <1>1, <2>1 DEF Carries
  <1>9. lo + 1 + 1 = lo + 2
      OBVIOUS
  <1>10. Carries(Tail(w), k, lo + 1, hi)
      BY <1>6, <1>7, <1>8, <1>9 DEF Carries
  <1>11. lo + 1 <= hi
      BY <1>4
  <1> QED
      BY <1>3, <1>5, <1>10, <1>11

\* Where nothing is outstanding there is no data.
LEMMA CarriesNothing ==
    ASSUME NEW w, NEW k, Carries(w, k, 0, 0)
    PROVE  DataAt(w, k) = {}
    BY DEF Carries

\* Frames other than an open frame of stream k leave it alone.
LEMMA NoOpenKept ==
    ASSUME NEW w \in Seq(Frames), NEW k, NoOpen(w, k)
    PROVE  /\ \A f \in Frames : ~ (f.type = "open" /\ f.id = k)
                  => NoOpen(Append(w, f), k)
           /\ w # <<>> => /\ ~ (Head(w).type = "open" /\ Head(w).id = k)
                          /\ NoOpen(Tail(w), k)
  <1>1. ASSUME NEW f \in Frames, ~ (f.type = "open" /\ f.id = k)
        PROVE  NoOpen(Append(w, f), k)
      BY <1>1, Appended DEF NoOpen, OpenAt
  <1>2. ASSUME w # <<>>
        PROVE  ~ (Head(w).type = "open" /\ Head(w).id = k) /\ NoOpen(Tail(w), k)
      BY <1>2, Read DEF NoOpen, OpenAt
  <1> QED
      BY <1>1, <1>2

\* An announced stream stays so until its open frame is read: no data of it
\* is read before, and no open frame of it is left after.
LEMMA AnnouncedKept ==
    ASSUME NEW w \in Seq(Frames), NEW k, Announced(w, k)
    PROVE  /\ \A f \in Frames : ~ (f.type = "open" /\ f.id = k)
                  => Announced(Append(w, f), k)
           /\ w # <<>> =>
                 /\ ~ (Head(w).type = "data" /\ Head(w).id = k)
                 /\ Head(w).type = "open" /\ Head(w).id = k => NoOpen(Tail(w), k)
                 /\ ~ (Head(w).type = "open" /\ Head(w).id = k)
                       => Announced(Tail(w), k)
  <1>1. PICK j \in DOMAIN w :
           /\ OpenAt(w, k, j)
           /\ \A i \in DOMAIN w : OpenAt(w, k, i) => i = j
           /\ \A i \in DataAt(w, k) : j < i
      BY DEF Announced
  <1>2. ASSUME NEW f \in Frames, ~ (f.type = "open" /\ f.id = k)
        PROVE  Announced(Append(w, f), k)
    <2> DEFINE v == Append(w, f)
    <2>1. j \in DOMAIN v /\ OpenAt(v, k, j)
        BY <1>1, Appended DEF OpenAt
    <2>2. \A i \in DOMAIN v : OpenAt(v, k, i) => i = j
        BY <1>1, <1>2, Appended DEF OpenAt
    <2>3. \A i \in DataAt(v, k) : j < i
      <3> SUFFICES ASSUME NEW i \in DataAt(v, k) PROVE j < i
          OBVIOUS
      <3>1. i \in DataAt(w, k) \/ i = Len(w) + 1
          BY Appended DEF DataAt
      <3>2. j \in 1 .. Len(w) /\ Len(w) \in Nat
          BY Appended
      <3> QED
          BY <1>1, <3>1, <3>2
    <2> QED
        BY <2>1, <2>2, <2>3 DEF Announced
  <1>3. ASSUME w # <<>>, Head(w).type = "data", Head(w).id = k PROVE FALSE
    <2>1. 1 \in DataAt(w, k)
        BY <1>3, Read DEF DataAt
    <2> QED
        BY <1>1, <1>3, <2>1, Read
  <1>4. ASSUME w # <<>>, Head(w).type = "open", Head(w).id = k
        PROVE  NoOpen(Tail(w), k)
    <2>1. j = 1
        BY <1>1, <1>4, Read DEF OpenAt
    <2>2. \A i \in DOMAIN w : OpenAt(w, k, i) => i = 1
        BY <1>1, <2>1
    <2> QED
        BY <1>4, <2>2, Read DEF NoOpen, OpenAt
  <1>5. ASSUME w # <<>>, ~ (Head(w).type = "open" /\ Head(w).id = k)
        PROVE  Announced(Tail(w), k)
    <2> DEFINE v == Tail(w)
    <2>1. j # 1
        BY <1>1, <1>5, Read DEF OpenAt
    <2>2. j - 1 \in DOMAIN v /\ OpenAt(v, k, j - 1)
        BY <1>1, <1>5, <2>1, Read DEF OpenAt
    <2>3. ASSUME NEW i \in DOMAIN v, OpenAt(v, k, i) PROVE i = j - 1
      <3>1. i + 1 \in DOMAIN w /\ OpenAt(w, k, i + 1) /\ i \in Nat
          BY <1>5, <2>3, Read DEF OpenAt
      <3> QED
          BY <1>1, <3>1
    <2>4. ASSUME NEW i \in DataAt(v, k) PROVE j - 1 < i
      <3>1. i + 1 \in DataAt(w, k) /\ i \in Nat
          BY <1>5, Read DEF DataAt
      <3>2. j < i + 1 /\ j \in Nat
          BY <1>1, <1>5, <3>1, Read
      <3> QED
          BY <3>1, <3>2
    <2> QED
        BY <2>2, <2>3, <2>4 DEF Announced
  <1> QED
      BY <1>2, <1>3, <1>4, <1>5

\* An open frame announces a stream that has no frame on the wire yet.
LEMMA AnnouncedNew ==
    ASSUME NEW w \in Seq(Frames), NEW k, NoOpen(w, k), DataAt(w, k) = {},
           NEW f \in Frames, f.type = "open", f.id = k
    PROVE  Announced(Append(w, f), k)
  <1> DEFINE v == Append(w, f)
             n == Len(w) + 1
  <1>1. n \in DOMAIN v /\ OpenAt(v, k, n)
      BY Appended DEF OpenAt
  <1>2. \A i \in DOMAIN v : OpenAt(v, k, i) => i = n
      BY Appended DEF OpenAt, NoOpen
  <1>3. DataAt(v, k) = {}
      BY Appended DEF DataAt
  <1> QED
      BY <1>1, <1>2, <1>3 DEF Announced

-----------------------------------------------------------------------------
(* What most steps leave alone *)

\* From w to v: at most one frame written or read, none that opens stream k.
Plain(w, v, k) ==
    \/ v = w
    \/ \E f \in Frames : v = Append(w, f) /\ ~ (f.type = "open" /\ f.id = k)
    \/ w # <<>> /\ v = Tail(w) /\ ~ (Head(w).type = "open" /\ Head(w).id = k)

\* From w to v: at most one frame written or read, none with data of stream k.
Calm(w, v, k) ==
    \/ v = w
    \/ \E f \in Frames : v = Append(w, f) /\ ~ (f.type = "data" /\ f.id = k)
    \/ w # <<>> /\ v = Tail(w) /\ ~ (Head(w).type = "data" /\ Head(w).id = k)

\* Channels change at most from open to closed.
OnlyCloses ==
    \A s \in Sides, k \in Ids :
        \/ chan'[s][k] = chan[s][k]
        \/ /\ chan[s][k].state = "open" /\ chan'[s][k].state = "closed"
           /\ chan'[s][k].q = chan[s][k].q

\* No channel is made.
NoneRegistered ==
    \A s \in Sides, k \in Ids :
        \/ chan'[s][k] = chan[s][k]
        \/ chan[s][k].state # "none" /\ chan'[s][k].state # "none"

\* The wire keeps what it announces.
LEMMA PlainKeeps ==
    ASSUME NEW w \in Seq(Frames), NEW v, NEW k, Plain(w, v, k)
    PROVE  /\ NoOpen(w, k) => NoOpen(v, k)
           /\ Announced(w, k) => Announced(v, k)
    BY NoOpenKept, AnnouncedKept DEF Plain

\* The wire keeps what it carries.
LEMMA CalmKeeps ==
    ASSUME NEW w \in Seq(Frames), NEW v, NEW k, Calm(w, v, k),
           NEW lo \in Nat, NEW hi \in Nat, Carries(w, k, lo, hi)
    PROVE  Carries(v, k, lo, hi)
  <1>1. CASE v = w
      BY <1>1
  <1>2. ASSUME NEW f \in Frames, v = Append(w, f),
               ~ (f.type = "data" /\ f.id = k)
        PROVE  Carries(v, k, lo, hi)
      BY <1>2, CarriesAppendOther
  <1>3. CASE w # <<>> /\ v = Tail(w) /\ ~ (Head(w).type = "data" /\ Head(w).id = k)
      BY <1>3, CarriesTailOther
  <1> QED
      BY <1>1, <1>2, <1>3 DEF Calm

\* Writing a frame of a session: a close, a ping, a pong.
LEMMA WritePlain ==
    ASSUME MuxInv, NEW s \in Sides, NEW f \in Frames,
           WriteFrame(s, f) \/ WriteFrameOrFail(s, f)
    PROVE  \A p \in Sides, k \in Ids :
              /\ f.type # "open" \/ f.id # k \/ p # s => Plain(wire[p], wire'[p], k)
              /\ f.type # "data" \/ f.id # k \/ p # s => Calm(wire[p], wire'[p], k)
  <1>1. \A p \in Sides : \/ wire'[p] = wire[p]
                         \/ p = s /\ wire'[p] = Append(wire[p], f)
      BY DEF MuxInv, RestTypeOK, WriteFrame, WriteFrameOrFail
  <1> QED
      BY <1>1 DEF Plain, Calm

\* Steps that neither write nor read.
LEMMA WireSame ==
    ASSUME UNCHANGED wire
    PROVE  \A p \in Sides, k \in Ids :
              Plain(wire[p], wire'[p], k) /\ Calm(wire[p], wire'[p], k)
    BY DEF Plain, Calm

\* The critical sections that close streams.
LEMMA ClosingCloses ==
    ASSUME MuxInv, NEW s \in Sides,
           \/ UNCHANGED sessionVars
           \/ CloseSession(s)
           \/ \E k \in streams[s], who \in Takers : Unregister(s, k, who)
    PROVE  OnlyCloses
  <1> USE DEF MuxInv, SessionInv, SessionTypeOK, ChannelDiscipline, Channel,
             OnlyCloses
  <1>1. CASE UNCHANGED sessionVars
      BY <1>1 DEF sessionVars
  <1>2. CASE CloseSession(s)
      BY <1>2 DEF CloseSession
  <1>3. ASSUME NEW k \in streams[s], NEW who, Unregister(s, k, who)
        PROVE  OnlyCloses
      BY <1>3 DEF Unregister
  <1> QED
      BY <1>1, <1>2, <1>3

\* readLoop and the accept queue hold nothing new.
LEMMA KnownKept ==
    ASSUME NEW s \in Sides, Known(s), MuxInv,
           \A k \in Ids : chan[s][k].state # "none" => chan'[s][k].state # "none",
           \/ reader'[s] = reader[s]
           \/ reader'[s].at \notin {"accept", "deliver", "drop"}
           \/ /\ reader'[s].id \in Ids
              /\ chan'[s][reader'[s].id].state # "none",
           s = "client" =>
              \A i \in DOMAIN acceptChan' :
                 \/ \E j \in DOMAIN acceptChan : acceptChan'[i] = acceptChan[j]
                 \/ /\ acceptChan'[i] \in Ids
                    /\ chan'[s][acceptChan'[i]].state # "none"
    PROVE  Known(s)'
  <1>1. reader[s].at \in {"accept", "deliver", "drop"} => reader[s].id \in Ids
      BY DEF MuxInv, RestTypeOK, Positions
  <1>2. \A j \in DOMAIN acceptChan : acceptChan[j] \in Ids
      BY DEF MuxInv, RestTypeOK
  <1>3. reader'[s].at \in {"accept", "deliver", "drop"}
           => chan'[s][reader'[s].id].state # "none"
      BY <1>1 DEF Known
  <1>4. s = "client" => \A i \in DOMAIN acceptChan' :
                          chan'[s][acceptChan'[i]].state # "none"
      BY <1>2 DEF Known
  <1> QED
      BY <1>3, <1>4 DEF Known

\* A stream the side does not know of stays as it is.
LEMMA UnbornKept ==
    ASSUME NEW s \in Sides, NEW k \in Ids, Unborn(s, k),
           chan'[s][k].state = "none" =>
              /\ chan[s][k].state = "none"
              /\ chan'[s][k].q = chan[s][k].q
              /\ pump'[s][k] = pump[s][k] /\ drain'[s][k] = drain[s][k]
              /\ sent'[s][k] = sent[s][k] /\ got'[s][k] = got[s][k]
    PROVE  Unborn(s, k)'
    BY DEF Unborn

\* No stream is opened by the step.
LEMMA OpenedOnceKept ==
    ASSUME MuxInv, NEW k \in Ids, OpenedOnce(k),
           \A p \in Sides : Plain(wire[p], wire'[p], k),
           k > opened' => chan'["server"][k].state = "none",
           chan'["client"][k].state = "none" <=> chan["client"][k].state = "none",
           pump'["server"][k] \in {"none", "opening"}
              => pump["server"][k] \in {"none", "opening"},
           pump'["server"][k] = "run" => pump["server"][k] = "run",
           \/ sent'["server"][k] = sent["server"][k]
           \/ pump["server"][k] = "run" /\ pump'["server"][k] = "run"
    PROVE  OpenedOnce(k)'
  <1> DEFINE ws == wire["server"]
             wc == wire["client"]
  <1>1. /\ ws \in Seq(Frames) /\ Plain(ws, wire'["server"], k)
        /\ wc \in Seq(Frames) /\ Plain(wc, wire'["client"], k)
      BY DEF MuxInv, RestTypeOK, Sides
  <1>2. /\ NoOpen(ws, k) => NoOpen(wire'["server"], k)
        /\ Announced(ws, k) => Announced(wire'["server"], k)
        /\ NoOpen(wc, k) => NoOpen(wire'["client"], k)
      BY <1>1, PlainKeeps
  <1> QED
      BY <1>2 DEF OpenedOnce

\* The step moves no data of the stream towards s.
LEMMA FlowKept ==
    ASSUME MuxInv, NEW s \in Sides, NEW k \in Ids, Flow(s, k),
           got'[s][k] = got[s][k], sent'[Peer(s)][k] = sent[Peer(s)][k],
           chan'[s][k].q = chan[s][k].q,
           drain'[s][k] # "done" => drain[s][k] # "done",
           Live(s, k)' =>
              /\ Live(s, k)
              /\ InHand(s, k)' <=> InHand(s, k)
              /\ InHand(s, k) => reader'[s].chunk = reader[s].chunk
              /\ Calm(wire[Peer(s)], wire'[Peer(s)], k)
    PROVE  Flow(s, k)'
  <1>1. Peer(s) \in Sides /\ wire[Peer(s)] \in Seq(Frames)
      BY DEF MuxInv, RestTypeOK, Sides, Peer
  <1>2. drain'[s][k] # "done" => Queued(s, k)'
      BY DEF Flow, Queued
  <1>3. ASSUME Live(s, k)' PROVE Travelling(s, k)'
    <2>1. Arrived(s, k)' = Arrived(s, k)
        BY <1>3 DEF Arrived
    <2>2. Arrived(s, k) \in Nat /\ sent[Peer(s)][k] \in Nat
      <3>1. got[s][k] \in Nat /\ sent[Peer(s)][k] \in Nat
          BY <1>1, MuxAssumption DEF MuxInv, CopiersTypeOK
      <3>2. Len(chan[s][k].q) \in Nat
          BY DEF MuxInv, SessionInv, SessionTypeOK, Channel
      <3> QED
          BY <3>1, <3>2 DEF Arrived
    <2>3. Travelling(s, k)
        BY <1>3 DEF Flow
    <2>4. Carries(wire'[Peer(s)], k, Arrived(s, k), sent[Peer(s)][k])
        BY <1>1, <1>3, <2>2, <2>3, CalmKeeps DEF Travelling
    <2> QED
        BY <1>3, <2>1, <2>3, <2>4 DEF Travelling
  <1> QED
      BY <1>2, <1>3 DEF Flow

-----------------------------------------------------------------------------
(* The steps of readLoop and of the session *)

\* Types that the steps below use.
LEMMA FlowTypes ==
    ASSUME FlowInv, NEW s \in Sides
    PROVE  /\ Peer(s) \in Sides /\ Peer(s) # s /\ Peer(Peer(s)) = s
           /\ wire[s] \in Seq(Frames) /\ wire[Peer(s)] \in Seq(Frames)
           /\ reader[s] \in Positions
           /\ \A k \in Ids : /\ sent[s][k] \in Nat /\ got[s][k] \in Nat
                             /\ chan[s][k] \in Channel
                             /\ k \in streams[s] <=> chan[s][k].state = "open"
  <1> USE DEF FlowInv, MuxInv
  <1>1. Peer(s) \in Sides /\ Peer(s) # s /\ Peer(Peer(s)) = s
      BY DEF Sides, Peer
  <1>2. /\ wire[s] \in Seq(Frames) /\ wire[Peer(s)] \in Seq(Frames)
        /\ reader[s] \in Positions
      BY <1>1 DEF RestTypeOK
  <1>3. \A k \in Ids : sent[s][k] \in Nat /\ got[s][k] \in Nat
      BY MuxAssumption DEF CopiersTypeOK
  <1>4. \A k \in Ids : /\ chan[s][k] \in Channel
                       /\ k \in streams[s] <=> chan[s][k].state = "open"
      BY DEF SessionInv, SessionTypeOK, ChannelDiscipline
  <1> QED
      BY <1>1, <1>2, <1>3, <1>4

\* No step of the session opens a stream but the ones that register it.
LEMMA SessionControl ==
    ASSUME FlowInv, NEW s \in Sides, NoneRegistered,
           UNCHANGED <<opened, pump, drain, sent, got>>,
           \A p \in Sides, k \in Ids : Plain(wire[p], wire'[p], k),
           \A p \in Sides : p # s => reader'[p] = reader[p],
           \/ reader'[s] = reader[s]
           \/ reader'[s].at \notin {"accept", "deliver", "drop"}
           \/ /\ reader'[s].id \in Ids
              /\ chan[s][reader'[s].id].state # "none",
           \A i \in DOMAIN acceptChan' :
              \/ \E j \in DOMAIN acceptChan : acceptChan'[i] = acceptChan[j]
              \/ /\ acceptChan'[i] \in Ids
                 /\ chan["client"][acceptChan'[i]].state # "none"
    PROVE  Control'
  <1>1. \A p \in Sides, k \in Ids :
           /\ chan'[p][k].state = "none" <=> chan[p][k].state = "none"
           /\ chan'[p][k].state = "none" => chan'[p][k] = chan[p][k]
      BY DEF NoneRegistered
  <1>2. "client" \in Sides /\ "server" \in Sides
      BY DEF Sides
  <1>3. ASSUME NEW p \in Sides PROVE Known(p)'
    <2>1. p = "client" => \A i \in DOMAIN acceptChan' :
             \/ \E j \in DOMAIN acceptChan : acceptChan'[i] = acceptChan[j]
             \/ /\ acceptChan'[i] \in Ids
                /\ chan'[p][acceptChan'[i]].state # "none"
        BY <1>1, <1>2
    <2>2. \/ reader'[p] = reader[p]
          \/ reader'[p].at \notin {"accept", "deliver", "drop"}
          \/ /\ reader'[p].id \in Ids
             /\ chan'[p][reader'[p].id].state # "none"
        BY <1>1
    <2> QED
        BY <1>1, <2>1, <2>2, KnownKept DEF FlowInv, Control
  <1>4. ASSUME NEW p \in Sides, NEW k \in Ids PROVE Unborn(p, k)'
      BY <1>1, UnbornKept DEF FlowInv, Control
  <1>5. ASSUME NEW k \in Ids PROVE OpenedOnce(k)'
    <2>1. OpenedOnce(k)
        BY DEF FlowInv, Control
    <2>2. k > opened' => chan'["server"][k].state = "none"
        BY <1>1, <1>2, <2>1 DEF OpenedOnce
    <2> QED
        BY <1>1, <1>2, <2>1, <2>2, OpenedOnceKept DEF FlowInv
  <1> QED
      BY <1>3, <1>4, <1>5 DEF Control

\* Nor does it move data, but where readLoop takes or delivers a chunk.
LEMMA SessionFlow ==
    ASSUME FlowInv, NEW s \in Sides, NEW k \in Ids, OnlyCloses,
           UNCHANGED <<drain, sent, got>>,
           \/ reader'[s] = reader[s]
           \/ chan'[s][k].state = "closed"
           \/ /\ ~ Dropping(s, k)
              /\ ~ InHand(s, k) /\ ~ InHand(s, k)',
           \/ chan'[s][k].state = "closed"
           \/ Calm(wire[Peer(s)], wire'[Peer(s)], k)
    PROVE  Flow(s, k)'
  <1>1. /\ chan'[s][k].q = chan[s][k].q
        /\ chan'[s][k].state # "closed" => chan'[s][k] = chan[s][k]
      BY DEF OnlyCloses
  <1>2. Live(s, k)' =>
           /\ Live(s, k)
           /\ InHand(s, k)' <=> InHand(s, k)
           /\ InHand(s, k) => reader'[s].chunk = reader[s].chunk
           /\ Calm(wire[Peer(s)], wire'[Peer(s)], k)
      BY <1>1 DEF Live, InHand, Dropping
  <1>3. Flow(s, k)
      BY DEF FlowInv, Flows
  <1> QED
      BY <1>1, <1>2, <1>3, FlowKept DEF FlowInv

\* What is read of a stream that the side does not know of is its open frame.
LEMMA DataIsKnown ==
    ASSUME FlowInv, NEW s \in Sides, NEW k \in Ids, chan[s][k].state = "none",
           wire[Peer(s)] # <<>>
    PROVE  ~ (Head(wire[Peer(s)]).type = "data" /\ Head(wire[Peer(s)]).id = k)
  <1> DEFINE w == wire[Peer(s)]
  <1>1. /\ Known(s) /\ Unborn(s, k) /\ OpenedOnce(k) /\ Flow(s, k)
        /\ \A p \in Sides : Unborn(p, k)
      BY DEF FlowInv, Control, Flows
  <1>2. w \in Seq(Frames) /\ sent[Peer(s)][k] \in Nat /\ reader[s] \in Positions
        /\ got[s][k] \in Nat /\ Len(chan[s][k].q) \in Nat
      BY FlowTypes DEF Channel
  <1>3. ~ Dropping(s, k) /\ ~ InHand(s, k)
      BY <1>1 DEF Known, Dropping, InHand
  <1>4. Arrived(s, k) = 0
      BY <1>1, <1>2, <1>3 DEF Unborn, Arrived
  <1>5. Travelling(s, k)
      BY <1>1, <1>3 DEF Flow, Live, Unborn
  <1>6. ASSUME sent[Peer(s)][k] = 0
        PROVE  ~ (Head(w).type = "data" /\ Head(w).id = k)
    <2>1. DataAt(w, k) = {}
        BY <1>4, <1>5, <1>6, CarriesNothing DEF Travelling
    <2> QED
        BY <1>2, <2>1, Read DEF DataAt
  <1>7. CASE s = "client"
    <2>1. Peer(s) = "server"
        BY <1>7 DEF Peer
    <2>2. Announced(w, k) \/ sent[Peer(s)][k] = 0
        BY <1>1, <1>7, <2>1 DEF OpenedOnce
    <2> QED
        BY <1>2, <1>6, <2>2, AnnouncedKept
  <1>8. CASE s = "server"
    <2>1. Peer(s) = "client" /\ "client" \in Sides
        BY <1>8 DEF Peer, Sides
    <2>2. chan["client"][k].state = "none"
        BY <1>1, <1>8 DEF Unborn, OpenedOnce
    <2>3. sent[Peer(s)][k] = 0
        BY <1>1, <2>1, <2>2 DEF Unborn
    <2> QED
        BY <1>6, <2>3
  <1> QED
      BY <1>7, <1>8 DEF Sides

\* A step of the session that takes nothing in hand: what it closes is closed,
\* what it writes or reads is neither an open frame nor data.
LEMMA SessionKeeps ==
    ASSUME FlowInv, NEW s \in Sides, OnlyCloses,
           UNCHANGED <<opened, pump, drain, sent, got>>,
           \A p \in Sides, k \in Ids : /\ Plain(wire[p], wire'[p], k)
                                       /\ Calm(wire[p], wire'[p], k),
           \A p \in Sides : p # s => reader'[p] = reader[p],
           \/ reader'[s] = reader[s]
           \/ /\ reader[s].at \notin {"deliver", "drop"}
              /\ reader'[s].at # "deliver"
              /\ reader'[s].at \in {"accept", "drop"} =>
                    /\ reader'[s].id \in Ids
                    /\ chan[s][reader'[s].id].state # "none"
           \/ /\ chan'[s][reader[s].id].state = "closed"
              /\ reader'[s].at \notin {"accept", "deliver", "drop"},
           \A i \in DOMAIN acceptChan' :
              \/ \E j \in DOMAIN acceptChan : acceptChan'[i] = acceptChan[j]
              \/ /\ acceptChan'[i] \in Ids
                 /\ chan["client"][acceptChan'[i]].state # "none"
    PROVE  Control' /\ Flows'
  <1>1. NoneRegistered
      BY DEF OnlyCloses, NoneRegistered
  <1>2. Control'
      BY <1>1, SessionControl
  <1>3. ASSUME NEW p \in Sides, NEW k \in Ids PROVE Flow(p, k)'
    <2>1. Calm(wire[Peer(p)], wire'[Peer(p)], k)
        BY FlowTypes
    <2>2. \/ reader'[p] = reader[p]
          \/ chan'[p][k].state = "closed"
          \/ /\ ~ Dropping(p, k)
             /\ ~ InHand(p, k) /\ ~ InHand(p, k)'
        BY DEF Dropping, InHand
    <2> QED
        BY <2>1, <2>2, SessionFlow
  <1> QED
      BY <1>2, <1>3 DEF Flows

\* An open frame is read by the client, once; the stream has no data yet.
LEMMA ReadOpenKeeps ==
    ASSUME FlowInv, NEW s \in Sides, ReadFrame(s),
           ReadOpen(s, Head(wire[Peer(s)]))
    PROVE  Control' /\ Flows'
  <1> DEFINE f == Head(wire[Peer(s)])
             n == f.id
  <1>1. /\ wire[Peer(s)] \in Seq(Frames) /\ wire[Peer(s)] # <<>>
        /\ f \in Frames /\ f.type = "open"
        /\ wire' = [wire EXCEPT ![Peer(s)] = Tail(@)]
        /\ UNCHANGED <<opened, acceptChan, pump, drain, local, sent, got>>
        /\ Register(s, n) /\ Goto(s, "accept", n, 0)
      BY FlowTypes, Read DEF ReadFrame, ReadOpen, copyVars
  <1>2. n \in Ids
      BY <1>1 DEF Frames
  <1>3. ~ NoOpen(wire[Peer(s)], n)
      BY <1>1, NoOpenKept
  <1>4. s = "client" /\ Peer(s) = "server"
      BY <1>2, <1>3 DEF Sides, Peer, FlowInv, Control, OpenedOnce
  <1>5. /\ chan["client"][n].state = "none"
        /\ Announced(wire["server"], n)
        /\ pump["server"][n] \notin {"none", "opening"}
      BY <1>2, <1>3, <1>4 DEF FlowInv, Control, OpenedOnce
  <1>6. /\ \A k \in Ids \ {n} : chan'["client"][k] = chan["client"][k]
        /\ chan'["client"][n] = [state |-> "open", q |-> <<>>]
        /\ chan'["server"] = chan["server"]
        /\ reader'["client"] = At("accept", n, 0)
        /\ reader'["server"] = reader["server"]
        /\ wire'["server"] = Tail(wire["server"])
        /\ wire'["client"] = wire["client"]
    <2>1. /\ chan \in [Sides -> [Ids -> Channel]] /\ reader \in [Sides -> Positions]
          /\ wire \in [Sides -> Seq(Frames)]
        BY DEF FlowInv, MuxInv, SessionInv, SessionTypeOK, RestTypeOK
    <2> QED
        BY <1>1, <1>2, <1>4, <2>1 DEF Register, Goto, Sides
  <1>7. /\ chan["client"][n].q = <<>>
        /\ reader'["client"].at = "accept" /\ reader'["client"].id = n
      BY <1>2, <1>4, <1>5, <1>6 DEF FlowInv, Control, Unborn, At
  <1> HIDE DEF f, n
  <1>8. ASSUME NEW p \in Sides PROVE Known(p)'
    <2>1. \A k \in Ids : chan[p][k].state # "none" => chan'[p][k].state # "none"
        BY <1>5, <1>6 DEF Sides
    <2>2. \/ reader'[p] = reader[p]
          \/ reader'[p].id \in Ids /\ chan'[p][reader'[p].id].state # "none"
        BY <1>2, <1>6, <1>7 DEF Sides
    <2> QED
        BY <1>1, <2>1, <2>2, KnownKept DEF FlowInv, Control
  <1>9. ASSUME NEW p \in Sides, NEW k \in Ids PROVE Unborn(p, k)'
    <2>1. chan'[p][k].state = "none" => chan'[p][k] = chan[p][k]
        BY <1>2, <1>6 DEF Sides
    <2>2. Unborn(p, k)
        BY DEF FlowInv, Control
    <2> QED
        BY <1>1, <2>1, <2>2, UnbornKept
  <1>10. ASSUME NEW k \in Ids PROVE OpenedOnce(k)'
    <2>1. OpenedOnce(k)
        BY DEF FlowInv, Control
    <2>2. CASE k = n
      <3>1. NoOpen(wire'["server"], n)
          BY <1>1, <1>4, <1>5, <1>6, AnnouncedKept DEF n, f
      <3> QED
          BY <1>1, <1>5, <1>6, <2>1, <2>2, <3>1 DEF OpenedOnce
    <2>3. CASE k # n
      <3>1. \A p \in Sides : Plain(wire[p], wire'[p], k)
          BY <1>1, <1>4, <1>6, <2>3 DEF Sides, Plain, n, f
      <3>2. k > opened' => chan'["server"][k].state = "none"
          BY <1>1, <1>6, <2>1 DEF OpenedOnce
      <3> QED
          BY <1>1, <1>6, <2>1, <2>3, <3>1, <3>2, OpenedOnceKept DEF FlowInv
    <2> QED
        BY <2>2, <2>3
  <1>11. ASSUME NEW p \in Sides, NEW k \in Ids PROVE Flow(p, k)'
    <2>1. chan'[p][k].q = chan[p][k].q
        BY <1>2, <1>6, <1>7 DEF Sides
    <2>2. Calm(wire[Peer(p)], wire'[Peer(p)], k)
        BY <1>1, <1>4, <1>6 DEF Sides, Peer, Calm, f
    <2>3. Live(p, k)' =>
             /\ Live(p, k)
             /\ InHand(p, k)' <=> InHand(p, k)
             /\ InHand(p, k) => reader'[p].chunk = reader[p].chunk
      <3>1. CASE p = "server"
          BY <1>1, <1>6, <3>1 DEF Live, InHand, Dropping
      <3>2. CASE p = "client"
        <4>1. reader[p].at = "read"
            BY <1>4, <3>2 DEF ReadFrame
        <4> QED
            BY <1>1, <1>2, <1>5, <1>6, <1>7, <3>2, <4>1 DEF Live, InHand, Dropping
      <3> QED
          BY <3>1, <3>2 DEF Sides
    <2>4. Flow(p, k)
        BY DEF FlowInv, Flows
    <2> QED
        BY <1>1, <2>1, <2>2, <2>3, <2>4, FlowKept DEF FlowInv
  <1> QED
      BY <1>8, <1>9, <1>10, <1>11 DEF Control, Flows

\* Data is read of a registered stream: it is the next chunk. Data of a stream
\* that is closed is dropped.
LEMMA ReadDataKeeps ==
    ASSUME FlowInv, NEW s \in Sides, ReadFrame(s),
           ReadData(s, Head(wire[Peer(s)]))
    PROVE  Control' /\ Flows'
  <1> DEFINE w == wire[Peer(s)]
             f == Head(w)
  <1>1. /\ w \in Seq(Frames) /\ w # <<>> /\ f \in Frames /\ f.type = "data"
        /\ wire' = [wire EXCEPT ![Peer(s)] = Tail(@)]
        /\ UNCHANGED <<opened, acceptChan, pump, drain, local, sent, got>>
        /\ UNCHANGED sessionVars
        /\ reader[s].at = "read"
      BY FlowTypes, Read DEF ReadFrame, ReadData, copyVars
  <1>2. PICK n \in Ids : n = f.id
      BY <1>1 DEF Frames
  <1>3. OnlyCloses /\ NoneRegistered
      BY <1>1 DEF OnlyCloses, NoneRegistered, sessionVars
  <1>4. \A p \in Sides : /\ p # Peer(s) => wire'[p] = wire[p]
                         /\ p = Peer(s) => wire'[p] = Tail(w)
      BY <1>1, FlowTypes DEF FlowInv, MuxInv, RestTypeOK
  <1>5. \A p \in Sides, k \in Ids : /\ Plain(wire[p], wire'[p], k)
                                    /\ k # n => Calm(wire[p], wire'[p], k)
                                    /\ p # Peer(s) => Calm(wire[p], wire'[p], k)
      BY <1>1, <1>2, <1>4 DEF Plain, Calm
  <1>6. /\ \A p \in Sides : p # s => reader'[p] = reader[p]
        /\ n \notin streams[s] => reader'[s] = reader[s]
        /\ n \in streams[s] => reader'[s] = At("deliver", n, f.chunk)
    <2>1. reader \in [Sides -> Positions]
        BY DEF FlowInv, MuxInv, RestTypeOK
    <2> QED
        BY <1>2, <2>1 DEF ReadData, Goto
  <1>7. n \in streams[s] <=> chan[s][n].state = "open"
      BY <1>2, FlowTypes
  <1>8. n \in streams[s] => reader'[s].at = "deliver" /\ reader'[s].id = n
                            /\ reader'[s].chunk = f.chunk
      BY <1>6 DEF At
  <1>9. Control'
      BY <1>1, <1>2, <1>3, <1>5, <1>6, <1>7, <1>8, SessionControl
  <1>10. ASSUME NEW p \in Sides, NEW k \in Ids PROVE Flow(p, k)'
    <2>1. Peer(p) \in Sides /\ (p # s => Peer(p) # Peer(s))
        BY DEF Sides, Peer
    <2>2. CASE p # s \/ k # n
      <3>1. Calm(wire[Peer(p)], wire'[Peer(p)], k)
          BY <1>5, <2>1, <2>2
      <3>2. \/ reader'[p] = reader[p]
            \/ ~ Dropping(p, k) /\ ~ InHand(p, k) /\ ~ InHand(p, k)'
          BY <1>1, <1>6, <1>8, <2>2 DEF Dropping, InHand
      <3> QED
          BY <1>1, <1>3, <3>1, <3>2, SessionFlow
    <2>3. CASE p = s /\ k = n /\ n \notin streams[s]
      <3>1. chan[s][n].state # "none"
          BY <1>1, <1>2, DataIsKnown
      <3>2. chan[s][n] \in Channel
          BY <1>2, FlowTypes
      <3>3. chan'[s][n].state = "closed"
          BY <1>1, <1>7, <2>3, <3>1, <3>2 DEF Channel, sessionVars
      <3> QED
          BY <1>1, <1>3, <1>6, <2>3, <3>3, SessionFlow
    <2>4. CASE p = s /\ k = n /\ n \in streams[s]
      <3> DEFINE a == Arrived(s, n)
                 h == sent[Peer(s)][n]
      <3>1. Flow(s, n)
          BY <1>2 DEF FlowInv, Flows
      <3>2. got'[s][n] <= sent'[Peer(s)][n]
          BY <1>1, <3>1 DEF Flow
      <3>3. drain'[s][n] # "done" => Queued(s, n)'
          BY <1>1, <3>1 DEF Flow, Queued, sessionVars
      <3>4. ASSUME Live(s, n)' PROVE Travelling(s, n)'
        <4>1. Live(s, n)
            BY <1>1, <3>4 DEF Live, Dropping, sessionVars
        <4>2. Travelling(s, n) /\ ~ InHand(s, n)
            BY <1>1, <3>1, <4>1 DEF Flow, InHand
        <4>3. got[s][n] \in Nat /\ Len(chan[s][n].q) \in Nat /\ h \in Nat
            BY <1>2, FlowTypes DEF Channel
        <4>4. a = got[s][n] + Len(chan[s][n].q) /\ a \in Nat
            BY <4>2, <4>3 DEF Arrived
        <4>5. /\ f.chunk = a + 1
              /\ a + 1 <= h
              /\ Carries(Tail(w), n, a + 1, h)
          <5>1. Carries(w, n, a, h)
              BY <4>2 DEF Travelling
          <5> QED
              BY <1>1, <1>2, <4>3, <4>4, <5>1, CarriesTailNext
        <4>6. InHand(s, n)'
            BY <1>8, <2>4 DEF InHand
        <4>7. Arrived(s, n)' = a + 1
            BY <1>1, <4>4, <4>6 DEF Arrived, sessionVars
        <4>8. wire'[Peer(s)] = Tail(w) /\ sent'[Peer(s)][n] = h
              /\ reader'[s].chunk = a + 1
            BY <1>1, <1>4, <1>8, <2>1, <2>4, <4>5
        <4> QED
            BY <4>5, <4>7, <4>8 DEF Travelling
      <3> QED
          BY <2>4, <3>2, <3>3, <3>4 DEF Flow
    <2> QED
        BY <2>2, <2>3, <2>4
  <1> QED
      BY <1>9, <1>10 DEF Flows

\* Where readLoop is after a step of it.
LEMMA GotoFacts ==
    ASSUME FlowInv, NEW s \in Sides, NEW where, NEW k, NEW n,
           Goto(s, where, k, n)
    PROVE  /\ \A p \in Sides : p # s => reader'[p] = reader[p]
           /\ reader'[s].at = where /\ reader'[s].id = k /\ reader'[s].chunk = n
  <1>1. reader \in [Sides -> Positions]
      BY DEF FlowInv, MuxInv, RestTypeOK
  <1> QED
      BY <1>1 DEF Goto, At

\* Steps that leave the accept queue as it is.
LEMMA AcceptSame ==
    ASSUME UNCHANGED acceptChan
    PROVE  \A i \in DOMAIN acceptChan' :
              \E j \in DOMAIN acceptChan : acceptChan'[i] = acceptChan[j]
    OBVIOUS

\* Closes, pings and pongs are read.
LEMMA ReadOtherKeeps ==
    ASSUME FlowInv, NEW s \in Sides, ReadFrame(s),
           \/ ReadClose(s, Head(wire[Peer(s)]))
           \/ ReadPing(s, Head(wire[Peer(s)]))
           \/ ReadPong(s, Head(wire[Peer(s)]))
    PROVE  Control' /\ Flows'
  <1> DEFINE w == wire[Peer(s)]
             f == Head(w)
  <1>1. /\ w \in Seq(Frames) /\ w # <<>> /\ f \in Frames
        /\ f.type \in {"close", "ping", "pong"}
        /\ wire' = [wire EXCEPT ![Peer(s)] = Tail(@)]
        /\ UNCHANGED <<opened, acceptChan, pump, drain, local, sent, got>>
        /\ reader[s].at = "read"
      BY FlowTypes, Read DEF ReadFrame, ReadClose, ReadPing, ReadPong, copyVars
  <1>2. OnlyCloses
    <2>1. f.type = "close" => f.id \in Ids
        BY <1>1 DEF Frames
    <2> QED
        BY <2>1, ClosingCloses DEF ReadClose, ReadPing, ReadPong, FlowInv, Takers
  <1>3. \A p \in Sides : /\ p # Peer(s) => wire'[p] = wire[p]
                         /\ p = Peer(s) => wire'[p] = Tail(w)
      BY <1>1, FlowTypes DEF FlowInv, MuxInv, RestTypeOK
  <1>4. \A p \in Sides, k \in Ids : /\ Plain(wire[p], wire'[p], k)
                                    /\ Calm(wire[p], wire'[p], k)
      BY <1>1, <1>3 DEF Plain, Calm
  <1>5. \/ UNCHANGED reader
        \/ Goto(s, "pong", 0, 0)
      BY DEF ReadClose, ReadPing, ReadPong
  <1>6. /\ \A p \in Sides : p # s => reader'[p] = reader[p]
        /\ reader'[s] = reader[s] \/ reader'[s].at = "pong"
      BY <1>5, GotoFacts
  <1> QED
      BY <1>1, <1>2, <1>4, <1>6, AcceptSame, SessionKeeps

\* The chunk in hand is queued behind what the copier will take before it.
LEMMA DeliverKeeps ==
    ASSUME FlowInv, NEW s \in Sides, Deliver(s)
    PROVE  Control' /\ Flows'
  <1> DEFINE c == reader[s].chunk
  <1>1. PICK n \in Ids : n = reader[s].id
    <2>1. reader[s] \in Positions /\ reader[s].at = "deliver"
        BY FlowTypes DEF Deliver
    <2> QED
        BY <2>1 DEF Positions
  <1>2. /\ reader[s].at = "deliver" /\ c \in Chunks
        /\ chan[s][n].state = "open" /\ chan[s][n].q \in Seq(Chunks)
        /\ chan' = [chan EXCEPT ![s][n].q = Append(@, c)]
        /\ Goto(s, "read", 0, 0)
        /\ UNCHANGED <<wire, opened, acceptChan, pump, drain, local, sent, got>>
    <2>1. reader[s] \in Positions /\ chan[s][n] \in Channel
        BY FlowTypes
    <2> QED
        BY <1>1, <2>1 DEF Deliver, copyVars, Positions, Channel
  <1>3. /\ \A p \in Sides, k \in Ids : p # s \/ k # n => chan'[p][k] = chan[p][k]
        /\ chan'[s][n].state = "open"
        /\ chan'[s][n].q = Append(chan[s][n].q, c)
    <2>1. chan \in [Sides -> [Ids -> Channel]]
        BY DEF FlowInv, MuxInv, SessionInv, SessionTypeOK
    <2> QED
        BY <1>2, <2>1 DEF Channel
  <1>4. /\ \A p \in Sides : p # s => reader'[p] = reader[p]
        /\ reader'[s].at = "read"
      BY <1>2, GotoFacts
  <1>5. Control'
    <2>1. NoneRegistered
        BY <1>2, <1>3 DEF NoneRegistered
    <2> QED
        BY <1>2, <1>4, <2>1, WireSame, AcceptSame, SessionControl
  <1>6. ASSUME NEW p \in Sides, NEW k \in Ids PROVE Flow(p, k)'
    <2>1. Flow(p, k) /\ Calm(wire[Peer(p)], wire'[Peer(p)], k)
        BY <1>2 DEF FlowInv, Flows, Calm
    <2>2. CASE p # s \/ k # n
      <3>1. chan'[p][k] = chan[p][k]
          BY <1>3, <2>2
      <3>2. Live(p, k)' =>
               /\ Live(p, k)
               /\ InHand(p, k)' <=> InHand(p, k)
               /\ InHand(p, k) => reader'[p].chunk = reader[p].chunk
          BY <1>1, <1>2, <1>4, <2>2, <3>1 DEF Live, InHand, Dropping
      <3> QED
          BY <1>2, <2>1, <3>1, <3>2, FlowKept DEF FlowInv
    <2>3. CASE p = s /\ k = n
      <3> DEFINE h == sent[Peer(s)][n]
                 q == chan[s][n].q
                 g == got[s][n]
      <3>1. g \in Nat /\ h \in Nat /\ Len(q) \in Nat
          BY <1>2, FlowTypes
      <3>2. CASE drain[s][n] = "done"
        <4>1. ~ Live(s, n)' /\ drain'[s][n] = "done"
            BY <1>2, <3>2 DEF Live
        <4> QED
            BY <1>2, <2>1, <2>3, <4>1 DEF Flow
      <3>3. CASE drain[s][n] # "done"
        <4>1. Live(s, n) /\ InHand(s, n)
            BY <1>1, <1>2, <3>3 DEF Live, InHand, Dropping
        <4>2. Queued(s, n) /\ Travelling(s, n)
            BY <2>1, <2>3, <3>3, <4>1 DEF Flow
        <4>3. Arrived(s, n) = g + Len(q) + 1
            BY <4>1 DEF Arrived
        <4>4. c = g + Len(q) + 1 /\ c <= h
            BY <4>1, <4>2, <4>3 DEF Travelling
        <4>5. /\ Len(Append(q, c)) = Len(q) + 1
              /\ \A i \in DOMAIN Append(q, c) :
                    \/ i \in DOMAIN q /\ Append(q, c)[i] = q[i]
                    \/ i = Len(q) + 1 /\ Append(q, c)[i] = c
            BY <1>2
        <4>6. Queued(s, n)'
          <5>1. \A i \in DOMAIN Append(q, c) : Append(q, c)[i] = g + i
            <6> SUFFICES ASSUME NEW i \in DOMAIN Append(q, c)
                         PROVE  Append(q, c)[i] = g + i
                OBVIOUS
            <6>1. CASE i \in DOMAIN q /\ Append(q, c)[i] = q[i]
                BY <4>2, <6>1 DEF Queued
            <6>2. CASE i = Len(q) + 1 /\ Append(q, c)[i] = c
                BY <3>1, <4>4, <6>2
            <6> QED
                BY <4>5, <6>1, <6>2
          <5>2. g + Len(Append(q, c)) <= h
              BY <3>1, <4>4, <4>5
          <5> QED
              BY <1>2, <1>3, <5>1, <5>2 DEF Queued
        <4>7. Travelling(s, n)'
          <5>1. ~ InHand(s, n)'
              BY <1>4 DEF InHand
          <5>2. Arrived(s, n)' = Arrived(s, n)
            <6>1. Arrived(s, n)' = g + Len(Append(q, c)) + 0
                BY <1>2, <1>3, <5>1 DEF Arrived
            <6> QED
                BY <3>1, <4>3, <4>5, <6>1
          <5> QED
              BY <1>2, <4>2, <5>1, <5>2 DEF Travelling
        <4> QED
            BY <1>2, <2>1, <2>3, <4>6, <4>7 DEF Flow
      <3> QED
          BY <3>2, <3>3
    <2> QED
        BY <2>2, <2>3
  <1> QED
      BY <1>5, <1>6 DEF Flows

\* readLoop gives a stream up: from then on nothing is said of its data.
LEMMA TimeoutKeeps ==
    ASSUME FlowInv, NEW s \in Sides, DeliverTimeout(s)
    PROVE  Control' /\ Flows'
  <1>1. PICK n \in Ids : n = reader[s].id
    <2>1. reader[s] \in Positions /\ reader[s].at = "deliver"
        BY FlowTypes DEF DeliverTimeout
    <2> QED
        BY <2>1 DEF Positions
  <1>2. /\ reader[s].at = "deliver"
        /\ chan[s][n].state = "open"
        /\ Goto(s, "drop", n, 0)
        /\ UNCHANGED <<wire, chan, opened, acceptChan, pump, drain, local, sent, got>>
      BY <1>1 DEF DeliverTimeout, copyVars, sessionVars
  <1>3. /\ \A p \in Sides : p # s => reader'[p] = reader[p]
        /\ reader'[s].at = "drop" /\ reader'[s].id = n
      BY <1>2, GotoFacts
  <1>4. OnlyCloses /\ NoneRegistered
      BY <1>2 DEF OnlyCloses, NoneRegistered
  <1>5. Control'
      BY <1>2, <1>3, <1>4, WireSame, AcceptSame, SessionControl
  <1>6. ASSUME NEW p \in Sides, NEW k \in Ids PROVE Flow(p, k)'
    <2>1. Flow(p, k) /\ Calm(wire[Peer(p)], wire'[Peer(p)], k)
        BY <1>2 DEF FlowInv, Flows, Calm
    <2>2. CASE p # s \/ k # n
      <3>1. \/ reader'[p] = reader[p]
            \/ ~ Dropping(p, k) /\ ~ InHand(p, k) /\ ~ InHand(p, k)'
          BY <1>1, <1>2, <1>3, <2>2 DEF Dropping, InHand
      <3> QED
          BY <1>2, <1>4, <2>1, <3>1, SessionFlow
    <2>3. CASE p = s /\ k = n
      <3>1. ~ Live(s, n)'
          BY <1>3 DEF Live, Dropping
      <3> QED
          BY <1>2, <2>1, <2>3, <3>1, FlowKept DEF FlowInv
    <2> QED
        BY <2>2, <2>3
  <1> QED
      BY <1>5, <1>6 DEF Flows

\* closeStream by readLoop: the stream it gave up is closed now, or was.
LEMMA DropKeeps ==
    ASSUME FlowInv, NEW s \in Sides, DropStream(s)
    PROVE  Control' /\ Flows'
  <1>1. PICK n \in Ids : n = reader[s].id
    <2>1. reader[s] \in Positions /\ reader[s].at = "drop"
        BY FlowTypes DEF DropStream
    <2> QED
        BY <2>1 DEF Positions
  <1>2. /\ reader[s].at = "drop"
        /\ \/ /\ n \in streams[s] /\ Unregister(s, n, "readLoop")
              /\ Goto(s, "closeframe", n, 0)
           \/ n \notin streams[s] /\ UNCHANGED sessionVars /\ Goto(s, "read", 0, 0)
        /\ UNCHANGED <<wire, opened, acceptChan, pump, drain, local, sent, got>>
      BY <1>1 DEF DropStream, copyVars
  <1>3. /\ \A p \in Sides : p # s => reader'[p] = reader[p]
        /\ reader'[s].at \in {"closeframe", "read"}
      BY <1>2, GotoFacts
  <1>4. OnlyCloses
      BY <1>2, ClosingCloses DEF FlowInv, Takers
  <1>5. chan'[s][n].state = "closed"
    <2>1. CASE Unregister(s, n, "readLoop")
      <3>1. chan \in [Sides -> [Ids -> Channel]]
          BY DEF FlowInv, MuxInv, SessionInv, SessionTypeOK
      <3> QED
          BY <2>1, <3>1 DEF Unregister, Channel
    <2>2. CASE n \notin streams[s] /\ UNCHANGED sessionVars
      <3>1. chan[s][n] \in Channel /\ chan[s][n].state # "open"
          BY <2>2, FlowTypes
      <3>2. chan[s][n].state # "none"
          BY <1>1, <1>2 DEF FlowInv, Control, Known
      <3> QED
          BY <2>2, <3>1, <3>2 DEF Channel, sessionVars
    <2> QED
        BY <1>2, <2>1, <2>2
  <1> QED
      BY <1>1, <1>2, <1>3, <1>4, <1>5, WireSame, AcceptSame, SessionKeeps

\* Every step of readLoop.
LEMMA ReaderFlow ==
    ASSUME FlowInv, NEW s \in Sides, Reader(s)
    PROVE  Control' /\ Flows'
  <1>1. CASE ReadFrame(s)
      BY <1>1, ReadOpenKeeps, ReadDataKeeps, ReadOtherKeeps DEF ReadFrame
  <1>2. CASE ReadError(s)
    <2>1. /\ reader[s].at = "read" /\ Goto(s, "done", 0, 0)
          /\ UNCHANGED sessionVars \/ CloseSession(s)
          /\ UNCHANGED <<wire, opened, acceptChan, pump, drain, local, sent, got>>
        BY <1>2 DEF ReadError, copyVars
    <2>2. OnlyCloses
        BY <2>1, ClosingCloses DEF FlowInv
    <2>3. /\ \A p \in Sides : p # s => reader'[p] = reader[p]
          /\ reader'[s].at = "done"
        BY <2>1, GotoFacts
    <2> QED
        BY <2>1, <2>2, <2>3, WireSame, AcceptSame, SessionKeeps
  <1>3. CASE Deliver(s)
      BY <1>3, DeliverKeeps
  <1>4. CASE DeliverPanics(s)
    <2>1. OnlyCloses
        BY <1>4 DEF DeliverPanics, sessionVars, OnlyCloses
    <2> QED
        BY <1>4, <2>1, WireSame, AcceptSame, SessionKeeps DEF DeliverPanics, copyVars
  <1>5. CASE DeliverTimeout(s)
      BY <1>5, TimeoutKeeps
  <1>6. CASE DropStream(s)
      BY <1>6, DropKeeps
  <1>7. CASE ReaderWrites(s)
    <2>1. /\ reader[s].at \in {"closeframe", "pong"}
          /\ Goto(s, "read", 0, 0)
          /\ UNCHANGED <<chan, opened, acceptChan, pump, drain, local, sent, got>>
        BY <1>7 DEF ReaderWrites, sessionVars, copyVars
    <2>2. OnlyCloses
        BY <2>1 DEF OnlyCloses
    <2>3. /\ \A p \in Sides : p # s => reader'[p] = reader[p]
          /\ reader'[s].at = "read"
        BY <2>1, GotoFacts
    <2>4. \A p \in Sides, k \in Ids : /\ Plain(wire[p], wire'[p], k)
                                      /\ Calm(wire[p], wire'[p], k)
      <3>1. reader[s] \in Positions
          BY FlowTypes
      <3>2. CASE reader[s].at = "closeframe"
        <4>1. /\ Frame("close", reader[s].id, 0) \in Frames
              /\ Frame("close", reader[s].id, 0).type = "close"
            BY <3>1, <3>2 DEF Positions, Frames, Frame
        <4> QED
            BY <1>7, <3>2, <4>1, WritePlain DEF ReaderWrites, FlowInv
      <3>3. CASE reader[s].at = "pong"
        <4>1. Frame("pong", 0, 0) \in Frames /\ Frame("pong", 0, 0).type = "pong"
            BY DEF Frames, Frame
        <4> QED
            BY <1>7, <3>3, <4>1, WritePlain DEF ReaderWrites, FlowInv
      <3> QED
          BY <2>1, <3>2, <3>3
    <2> QED
        BY <2>1, <2>2, <2>3, <2>4, AcceptSame, SessionKeeps
  <1>8. CASE s = "client" /\ OfferStream
    <2>1. PICK n \in Ids : n = reader[s].id
      <3>1. reader[s] \in Positions /\ reader[s].at = "accept"
          BY <1>8, FlowTypes DEF OfferStream
      <3> QED
          BY <3>1 DEF Positions
    <2>2. /\ reader[s].at = "accept"
          /\ \/ acceptChan' = Append(acceptChan, n) /\ Goto(s, "read", 0, 0)
             \/ UNCHANGED acceptChan /\ Goto(s, "drop", n, 0)
          /\ UNCHANGED <<wire, chan, opened, pump, drain, local, sent, got>>
        BY <1>8, <2>1 DEF OfferStream, sessionVars, copyVars
    <2>3. OnlyCloses
        BY <2>2 DEF OnlyCloses
    <2>4. chan[s][n].state # "none"
        BY <2>1, <2>2 DEF FlowInv, Control, Known
    <2>5. /\ \A p \in Sides : p # s => reader'[p] = reader[p]
          /\ \/ reader'[s].at = "read"
             \/ reader'[s].at = "drop" /\ reader'[s].id = n
        BY <2>2, GotoFacts
    <2>6. \A i \in DOMAIN acceptChan' :
             \/ \E j \in DOMAIN acceptChan : acceptChan'[i] = acceptChan[j]
             \/ acceptChan'[i] = n
      <3>1. acceptChan \in Seq(Ids)
          BY DEF FlowInv, MuxInv, RestTypeOK
      <3> QED
          BY <2>2, <3>1
    <2> QED
        BY <1>8, <2>2, <2>3, <2>4, <2>5, <2>6, WireSame, SessionKeeps
  <1> QED
      BY <1>1, <1>2, <1>3, <1>4, <1>5, <1>6, <1>7, <1>8 DEF Reader

-----------------------------------------------------------------------------
(* The steps of the copiers and of those who start them *)

\* A step of the copiers of a stream the side knows of opens no other one.
LEMMA CopierControl ==
    ASSUME FlowInv, NEW s \in Sides, NEW n \in Ids, chan[s][n].state # "none",
           NoneRegistered, UNCHANGED <<opened, reader>>,
           \A p \in Sides, k \in Ids : Plain(wire[p], wire'[p], k),
           \A p \in Sides, k \in Ids :
              p # s \/ k # n =>
                 /\ pump'[p][k] = pump[p][k] /\ drain'[p][k] = drain[p][k]
                 /\ sent'[p][k] = sent[p][k] /\ got'[p][k] = got[p][k],
           s = "server" =>
              \/ pump'[s][n] = pump[s][n]
              \/ pump'[s][n] \notin {"none", "opening", "run"},
           \/ sent'[s][n] = sent[s][n]
           \/ pump[s][n] = "run" /\ pump'[s][n] = "run",
           \A i \in DOMAIN acceptChan' :
              \E j \in DOMAIN acceptChan : acceptChan'[i] = acceptChan[j]
    PROVE  Control'
  <1>1. \A p \in Sides, k \in Ids :
           /\ chan'[p][k].state = "none" <=> chan[p][k].state = "none"
           /\ chan'[p][k].state = "none" => chan'[p][k] = chan[p][k]
      BY DEF NoneRegistered
  <1>2. ASSUME NEW p \in Sides PROVE Known(p)'
      BY <1>1, KnownKept DEF FlowInv, Control
  <1>3. ASSUME NEW p \in Sides, NEW k \in Ids PROVE Unborn(p, k)'
    <2>1. Unborn(p, k)
        BY DEF FlowInv, Control
    <2>2. chan'[p][k].state = "none" => p # s \/ k # n
        BY <1>1
    <2> QED
        BY <1>1, <2>1, <2>2, UnbornKept
  <1>4. ASSUME NEW k \in Ids PROVE OpenedOnce(k)'
    <2>1. OpenedOnce(k) /\ "server" \in Sides /\ "client" \in Sides
        BY DEF FlowInv, Control, Sides
    <2>2. k > opened' => chan'["server"][k].state = "none"
        BY <1>1, <2>1 DEF OpenedOnce
    <2>3. /\ \/ pump'["server"][k] = pump["server"][k]
             \/ pump'["server"][k] \notin {"none", "opening", "run"}
          /\ \/ sent'["server"][k] = sent["server"][k]
             \/ pump["server"][k] = "run" /\ pump'["server"][k] = "run"
        BY <2>1
    <2> QED
        BY <1>1, <2>1, <2>2, <2>3, OpenedOnceKept DEF FlowInv
  <1> QED
      BY <1>2, <1>3, <1>4 DEF Control

\* A step that moves no data, and closes a stream or nothing.
LEMMA CopierKeeps ==
    ASSUME FlowInv, NEW s \in Sides, NEW n \in Ids, chan[s][n].state # "none",
           OnlyCloses, UNCHANGED <<opened, reader, sent, got>>,
           \A p \in Sides, k \in Ids : /\ Plain(wire[p], wire'[p], k)
                                       /\ Calm(wire[p], wire'[p], k),
           \A p \in Sides, k \in Ids :
              p # s \/ k # n =>
                 pump'[p][k] = pump[p][k] /\ drain'[p][k] = drain[p][k],
           drain'[s][n] # "done" => drain[s][n] # "done",
           s = "server" =>
              \/ pump'[s][n] = pump[s][n]
              \/ pump'[s][n] \notin {"none", "opening", "run"},
           \A i \in DOMAIN acceptChan' :
              \E j \in DOMAIN acceptChan : acceptChan'[i] = acceptChan[j]
    PROVE  Control' /\ Flows'
  <1>1. NoneRegistered
      BY DEF OnlyCloses, NoneRegistered
  <1>2. Control'
      BY <1>1, CopierControl
  <1>3. ASSUME NEW p \in Sides, NEW k \in Ids PROVE Flow(p, k)'
    <2>1. Flow(p, k) /\ Peer(p) \in Sides
        BY FlowTypes DEF FlowInv, Flows
    <2>2. drain'[p][k] # "done" => drain[p][k] # "done"
        OBVIOUS
    <2>3. Live(p, k)' =>
             /\ Live(p, k)
             /\ InHand(p, k)' <=> InHand(p, k)
             /\ InHand(p, k) => reader'[p].chunk = reader[p].chunk
             /\ Calm(wire[Peer(p)], wire'[Peer(p)], k)
        BY <2>1, <2>2 DEF Live, InHand, Dropping, OnlyCloses
    <2>4. chan'[p][k].q = chan[p][k].q
        BY DEF OnlyCloses
    <2> QED
        BY <2>1, <2>2, <2>3, <2>4, FlowKept DEF FlowInv
  <1> QED
      BY <1>2, <1>3 DEF Flows

\* A user connects: a stream that neither side knows of.
LEMMA OpenStreamKeeps ==
    ASSUME FlowInv, NEW n \in Ids, OpenStream(n)
    PROVE  Control' /\ Flows'
  <1>1. /\ n = opened + 1 /\ opened' = n /\ opened \in Nat
        /\ Register("server", n)
        /\ pump' = [pump EXCEPT !["server"][n] = "opening"]
        /\ UNCHANGED <<wire, acceptChan, reader, drain, sent, got>>
      BY MuxAssumption DEF OpenStream, FlowInv, MuxInv, RestTypeOK
  <1>2. \A k \in Ids : k \in Nat /\ OpenedOnce(k)
      BY DEF Ids, FlowInv, Control
  <1>3. /\ \A p \in Sides, k \in Ids : p # "server" \/ k # n =>
              chan'[p][k] = chan[p][k] /\ pump'[p][k] = pump[p][k]
        /\ chan'["server"][n] = [state |-> "open", q |-> <<>>]
        /\ pump'["server"][n] = "opening"
    <2>1. /\ chan \in [Sides -> [Ids -> Channel]]
          /\ pump \in [Sides -> [Ids -> {"none", "opening", "dial", "run",
                                         "close", "closeframe", "done"}]]
        BY DEF FlowInv, MuxInv, SessionInv, SessionTypeOK, CopiersTypeOK
    <2> QED
        BY <1>1, <2>1 DEF Register, Sides
  <1>4. chan["server"][n].state = "none" /\ "server" \in Sides
      BY <1>1, <1>2 DEF OpenedOnce, Sides
  <1>5. chan["server"][n].q = <<>> /\ pump["server"][n] = "none"
      BY <1>4 DEF FlowInv, Control, Unborn
  <1>6. ASSUME NEW p \in Sides PROVE Known(p)'
    <2>1. \A k \in Ids : chan[p][k].state # "none" => chan'[p][k].state # "none"
        BY <1>3
    <2> QED
        BY <1>1, <2>1, KnownKept DEF FlowInv, Control
  <1>7. ASSUME NEW p \in Sides, NEW k \in Ids PROVE Unborn(p, k)'
    <2>1. chan'[p][k].state = "none" =>
             chan'[p][k] = chan[p][k] /\ pump'[p][k] = pump[p][k]
        BY <1>3
    <2> QED
        BY <1>1, <2>1, UnbornKept DEF FlowInv, Control
  <1>8. ASSUME NEW k \in Ids PROVE OpenedOnce(k)'
    <2>1. k > opened' => chan'["server"][k].state = "none"
        BY <1>1, <1>2, <1>3, <1>4 DEF OpenedOnce
    <2>2. /\ chan'["client"][k] = chan["client"][k]
          /\ pump'["server"][k] = pump["server"][k] \/ k = n
        BY <1>3 DEF Sides
    <2> QED
        BY <1>1, <1>2, <1>3, <1>5, <2>1, <2>2, WireSame, OpenedOnceKept DEF FlowInv
  <1>9. ASSUME NEW p \in Sides, NEW k \in Ids PROVE Flow(p, k)'
    <2>1. Flow(p, k) /\ chan'[p][k].q = chan[p][k].q
        BY <1>3, <1>5 DEF FlowInv, Flows
    <2>2. Live(p, k)' =>
             /\ Live(p, k)
             /\ InHand(p, k)' <=> InHand(p, k)
             /\ InHand(p, k) => reader'[p].chunk = reader[p].chunk
             /\ Calm(wire[Peer(p)], wire'[Peer(p)], k)
        BY <1>1, <1>3, <1>4 DEF Live, InHand, Dropping, Calm
    <2> QED
        BY <1>1, <2>1, <2>2, FlowKept DEF FlowInv
  <1> QED
      BY <1>6, <1>7, <1>8, <1>9 DEF Control, Flows

\* The stream is announced before its copiers start.
LEMMA SendOpenKeeps ==
    ASSUME FlowInv, NEW n \in Ids, SendOpen(n)
    PROVE  Control' /\ Flows'
  <1> DEFINE s == "server"
             f == Frame("open", n, 0)
             w == wire[s]
  <1>1. /\ s \in Sides /\ pump[s][n] = "opening"
        /\ f \in Frames /\ f.type = "open" /\ f.id = n
        /\ WriteFrame(s, f)
        /\ StartCopiers(s, n)
        /\ UNCHANGED <<chan, opened, acceptChan, reader, sent, got>>
      BY DEF SendOpen, Sides, Frame, Frames, sessionVars
  <1>2. /\ \A p \in Sides, k \in Ids : p # s \/ k # n =>
              pump'[p][k] = pump[p][k] /\ drain'[p][k] = drain[p][k]
        /\ pump'[s][n] = "run" /\ drain'[s][n] = "run"
    <2>1. /\ drain \in [Sides -> [Ids -> {"none", "run", "done"}]]
          /\ pump \in [Sides -> [Ids -> {"none", "opening", "dial", "run",
                                         "close", "closeframe", "done"}]]
        BY DEF FlowInv, MuxInv, CopiersTypeOK
    <2> QED
        BY <1>1, <2>1 DEF StartCopiers
  <1>3. /\ w \in Seq(Frames) /\ wire'[s] = Append(w, f)
        /\ \A p \in Sides : p # s => wire'[p] = wire[p]
      BY <1>1 DEF WriteFrame, FlowInv, MuxInv, RestTypeOK
  <1>4. /\ NoOpen(w, n) /\ sent[s][n] = 0 /\ chan["client"][n].state = "none"
        /\ chan[s][n].state # "none"
      BY <1>1 DEF FlowInv, Control, OpenedOnce, Unborn
  <1>5. DataAt(w, n) = {}
    <2>1. "client" \in Sides /\ Peer("client") = s
        BY DEF Sides, Peer
    <2>2. /\ Known("client") /\ Unborn("client", n) /\ Flow("client", n)
        BY <2>1 DEF FlowInv, Control, Flows
    <2>3. ~ Dropping("client", n) /\ ~ InHand("client", n)
        BY <1>4, <2>2 DEF Known, Dropping, InHand
    <2>4. Travelling("client", n)
        BY <1>4, <2>2, <2>3 DEF Flow, Live, Unborn
    <2>5. Arrived("client", n) = 0
        BY <1>4, <2>2, <2>3 DEF Unborn, Arrived
    <2> QED
        BY <1>4, <2>1, <2>4, <2>5, CarriesNothing DEF Travelling
  <1>6. Announced(wire'[s], n)
      BY <1>1, <1>3, <1>4, <1>5, AnnouncedNew
  <1> HIDE DEF f, w
  <1>7. ASSUME NEW p \in Sides PROVE Known(p)'
      BY <1>1, KnownKept DEF FlowInv, Control
  <1>8. ASSUME NEW p \in Sides, NEW k \in Ids PROVE Unborn(p, k)'
    <2>1. chan'[p][k].state = "none" => p # s \/ k # n
        BY <1>1, <1>4
    <2> QED
        BY <1>1, <1>2, <2>1, UnbornKept DEF FlowInv, Control
  <1>9. ASSUME NEW k \in Ids PROVE OpenedOnce(k)'
    <2>1. OpenedOnce(k)
        BY DEF FlowInv, Control
    <2>2. CASE k = n
      <3>1. wire'["client"] = wire["client"]
          BY <1>3 DEF Sides
      <3> QED
          BY <1>1, <1>2, <1>4, <1>6, <2>1, <2>2, <3>1 DEF OpenedOnce
    <2>3. CASE k # n
      <3>1. \A p \in Sides : Plain(wire[p], wire'[p], k)
          BY <1>1, <1>3, <2>3 DEF Plain, w
      <3>2. k > opened' => chan'["server"][k].state = "none"
          BY <1>1, <2>1 DEF OpenedOnce
      <3> QED
          BY <1>1, <1>2, <2>1, <2>3, <3>1, <3>2, OpenedOnceKept DEF FlowInv
    <2> QED
        BY <2>2, <2>3
  <1>10. ASSUME NEW p \in Sides, NEW k \in Ids PROVE Flow(p, k)'
    <2>1. Flow(p, k) /\ Peer(p) \in Sides
        BY FlowTypes DEF FlowInv, Flows
    <2>2. Calm(wire[Peer(p)], wire'[Peer(p)], k)
        BY <1>1, <1>3, <2>1 DEF Calm, w
    <2>3. drain[s][n] # "done"
        BY <1>1 DEF FlowInv, StartedOnce, Waiting
    <2>4. Live(p, k)' =>
             /\ Live(p, k)
             /\ InHand(p, k)' <=> InHand(p, k)
             /\ InHand(p, k) => reader'[p].chunk = reader[p].chunk
        BY <1>1, <1>2, <2>3 DEF Live, InHand, Dropping
    <2> QED
        BY <1>1, <1>2, <2>1, <2>2, <2>3, <2>4, FlowKept DEF FlowInv
  <1> QED
      BY <1>7, <1>8, <1>9, <1>10 DEF Control, Flows

\* Steps that hand on no stream keep the order in which streams are started.
LEMMA StartedKept ==
    ASSUME FlowInv, UNCHANGED acceptChan,
           \/ reader'["client"] = reader["client"]
           \/ reader'["client"].at # "accept",
           \A p \in Sides, k \in Ids :
              \/ pump'[p][k] = pump[p][k]
              \/ pump[p][k] # "none"
              \/ p = "server",
           \A p \in Sides, k \in Ids :
              pump'[p][k] \in Waiting =>
                 pump[p][k] \in Waiting /\ drain'[p][k] = drain[p][k]
    PROVE  StartedOnce'
  <1>1. /\ \A i \in DOMAIN acceptChan : acceptChan[i] \in Ids
        /\ reader["client"].at = "accept" => reader["client"].id \in Ids
        /\ "client" \in Sides /\ "client" # "server"
      BY DEF FlowInv, MuxInv, RestTypeOK, Positions, Sides
  <1>2. \A k \in Ids : pump["client"][k] = "none" => pump'["client"][k] = "none"
      BY <1>1
  <1>3. \A p \in Sides, k \in Ids : pump'[p][k] \in Waiting => drain'[p][k] = "none"
      BY DEF FlowInv, StartedOnce
  <1>4. \A i \in DOMAIN acceptChan : pump'["client"][acceptChan[i]] = "none"
      BY <1>1, <1>2 DEF FlowInv, StartedOnce
  <1>5. reader'["client"].at = "accept" =>
          /\ pump'["client"][reader'["client"].id] = "none"
          /\ \A i \in DOMAIN acceptChan : acceptChan[i] # reader'["client"].id
      BY <1>1, <1>2 DEF FlowInv, StartedOnce
  <1>6. \A i, j \in DOMAIN acceptChan : acceptChan[i] = acceptChan[j] => i = j
      BY DEF FlowInv, StartedOnce
  <1> QED
      BY <1>3, <1>4, <1>5, <1>6 DEF StartedOnce

\* Every step starts a stream at most once.
LEMMA StartedStep ==
    ASSUME FlowInv, Next PROVE StartedOnce'
  <1> DEFINE Kept == /\ UNCHANGED acceptChan
                     /\ \/ reader'["client"] = reader["client"]
                        \/ reader'["client"].at # "accept"
                     /\ UNCHANGED <<pump, drain>>
  <1>0. /\ reader \in [Sides -> Positions] /\ acceptChan \in Seq(Ids)
        /\ drain \in [Sides -> [Ids -> {"none", "run", "done"}]]
        /\ pump \in [Sides -> [Ids -> {"none", "opening", "dial", "run",
                                       "close", "closeframe", "done"}]]
        /\ Sides = {"server", "client"}
      BY DEF FlowInv, MuxInv, CopiersTypeOK, RestTypeOK, Sides
  <1>1. ASSUME Kept PROVE StartedOnce'
      BY <1>1, StartedKept
  <1>2. ASSUME NEW s \in Sides, NEW where, NEW k, NEW n,
               Goto(s, where, k, n), where # "accept"
        PROVE  \/ reader'["client"] = reader["client"]
               \/ reader'["client"].at # "accept"
      BY <1>0, <1>2, GotoFacts
  <1>3. CASE Break \/ Replace
      BY <1>1, <1>3 DEF Break, Replace, copyVars
  <1>4. ASSUME NEW s \in Sides, PingLoop(s) PROVE StartedOnce'
      BY <1>1, <1>4 DEF PingLoop, copyVars
  <1>5. ASSUME NEW s \in Sides, NEW k \in Ids, LocalEnds(s, k) PROVE StartedOnce'
      BY <1>1, <1>5 DEF LocalEnds
  <1>6. ASSUME NEW s \in Sides, Reader(s) PROVE StartedOnce'
    <2> DEFINE f == Head(wire[Peer(s)])
    <2>1. CASE ReadFrame(s) /\ ~ ReadOpen(s, f)
      <3>1. UNCHANGED reader \/ Goto(s, "pong", 0, 0)
                \/ Goto(s, "deliver", f.id, f.chunk)
          BY <2>1 DEF ReadFrame, ReadData, ReadClose, ReadPing, ReadPong
      <3> QED
          BY <1>1, <1>2, <2>1, <3>1 DEF ReadFrame, copyVars
    <2>2. CASE ReadFrame(s) /\ ReadOpen(s, f)
      <3>1. PICK n : n = f.id
          OBVIOUS
      <3>2. /\ wire[Peer(s)] \in Seq(Frames) /\ wire[Peer(s)] # <<>>
            /\ f \in Frames /\ f.type = "open"
            /\ Goto(s, "accept", n, 0)
            /\ UNCHANGED <<acceptChan, pump, drain>>
          BY <2>2, <3>1, FlowTypes, Read DEF ReadFrame, ReadOpen, copyVars
      <3>3. n \in Ids
          BY <3>1, <3>2 DEF Frames
      <3>4. ~ NoOpen(wire[Peer(s)], n)
          BY <3>1, <3>2, NoOpenKept
      <3>5. s = "client"
          BY <3>3, <3>4 DEF Sides, Peer, FlowInv, Control, OpenedOnce
      <3>6. chan["client"][n].state = "none"
          BY <3>3, <3>4, <3>5 DEF Peer, FlowInv, Control, OpenedOnce
      <3>7. /\ pump["client"][n] = "none"
            /\ \A i \in DOMAIN acceptChan : acceptChan[i] # n
          BY <3>3, <3>5, <3>6 DEF FlowInv, Control, Unborn, Known
      <3>8. reader'["client"].at = "accept" /\ reader'["client"].id = n
          BY <3>2, <3>5, GotoFacts
      <3> QED
          BY <3>2, <3>7, <3>8 DEF FlowInv, StartedOnce
    <2>3. CASE ReadError(s) \/ Deliver(s) \/ DeliverTimeout(s) \/ ReaderWrites(s)
      <3>1. \/ Goto(s, "done", 0, 0) \/ Goto(s, "read", 0, 0)
            \/ Goto(s, "drop", reader[s].id, 0)
          BY <2>3 DEF ReadError, Deliver, DeliverTimeout, ReaderWrites
      <3> QED
          BY <1>1, <1>2, <2>3, <3>1
             DEF ReadError, Deliver, DeliverTimeout, ReaderWrites, copyVars
    <2>4. CASE DropStream(s)
      <3>1. Goto(s, "closeframe", reader[s].id, 0) \/ Goto(s, "read", 0, 0)
          BY <2>4 DEF DropStream
      <3> QED
          BY <1>1, <1>2, <2>4, <3>1 DEF DropStream, copyVars
    <2>5. CASE DeliverPanics(s)
        BY <1>1, <2>5 DEF DeliverPanics, copyVars
    <2>6. CASE s = "client" /\ OfferStream
      <3>1. PICK n \in Ids : n = reader["client"].id
        <4>1. reader["client"] \in Positions /\ reader["client"].at = "accept"
            BY <1>0, <2>6 DEF OfferStream
        <4> QED
            BY <4>1 DEF Positions
      <3>2. /\ reader["client"].at = "accept" /\ UNCHANGED <<pump, drain>>
            /\ \/ acceptChan' = Append(acceptChan, n) /\ Goto("client", "read", 0, 0)
               \/ UNCHANGED acceptChan /\ Goto("client", "drop", n, 0)
          BY <2>6, <3>1 DEF OfferStream, copyVars
      <3>3. CASE UNCHANGED acceptChan /\ Goto("client", "drop", n, 0)
          BY <1>0, <1>1, <1>2, <3>2, <3>3
      <3>4. CASE acceptChan' = Append(acceptChan, n) /\ Goto("client", "read", 0, 0)
        <4>1. reader'["client"].at = "read"
            BY <1>0, <3>4, GotoFacts
        <4>2. /\ pump["client"][n] = "none"
              /\ \A i \in DOMAIN acceptChan : acceptChan[i] # n
            BY <3>1, <3>2 DEF FlowInv, StartedOnce
        <4>3. /\ DOMAIN acceptChan' = 1 .. Len(acceptChan) + 1
              /\ DOMAIN acceptChan = 1 .. Len(acceptChan)
              /\ Len(acceptChan) \in Nat
              /\ \A i \in DOMAIN acceptChan : acceptChan'[i] = acceptChan[i]
              /\ acceptChan'[Len(acceptChan) + 1] = n
            BY <1>0, <3>4
        <4>4. \A i \in DOMAIN acceptChan' : pump'["client"][acceptChan'[i]] = "none"
            BY <3>2, <4>2, <4>3 DEF FlowInv, StartedOnce
        <4>5. \A i, j \in DOMAIN acceptChan' :
                 acceptChan'[i] = acceptChan'[j] => i = j
            BY <4>2, <4>3 DEF FlowInv, StartedOnce
        <4> QED
            BY <3>2, <4>1, <4>4, <4>5 DEF FlowInv, StartedOnce
      <3> QED
          BY <3>2, <3>3, <3>4
    <2> QED
        BY <1>6, <2>1, <2>2, <2>3, <2>4, <2>5, <2>6 DEF Reader
  <1>7. CASE AcceptStream
    <2> DEFINE n == Head(acceptChan)
    <2>1. /\ n \in Ids /\ acceptChan # <<>>
          /\ acceptChan' = Tail(acceptChan)
          /\ pump' = [pump EXCEPT !["client"][n] = "dial"]
          /\ UNCHANGED <<reader, drain>>
        BY <1>0, <1>7 DEF AcceptStream
    <2>2. /\ 1 \in DOMAIN acceptChan /\ acceptChan[1] = n
          /\ \A i \in DOMAIN acceptChan' :
                /\ i + 1 \in DOMAIN acceptChan /\ i \in Nat /\ i + 1 # 1
                /\ acceptChan'[i] = acceptChan[i + 1]
        BY <1>0, <2>1
    <2> HIDE DEF n
    <2>3. /\ \A p \in Sides, k \in Ids : p # "client" \/ k # n =>
                pump'[p][k] = pump[p][k]
          /\ pump'["client"][n] = "dial"
          /\ pump["client"][n] = "none"
        BY <1>0, <2>1, <2>2 DEF FlowInv, StartedOnce
    <2>4. \A i \in DOMAIN acceptChan' :
             acceptChan'[i] # n /\ acceptChan'[i] \in Ids
        BY <1>0, <2>2 DEF FlowInv, StartedOnce
    <2>5. \A i \in DOMAIN acceptChan' : pump'["client"][acceptChan'[i]] = "none"
        BY <1>0, <2>2, <2>3, <2>4 DEF FlowInv, StartedOnce
    <2>6. \A i, j \in DOMAIN acceptChan' : acceptChan'[i] = acceptChan'[j] => i = j
      <3> SUFFICES ASSUME NEW i \in DOMAIN acceptChan', NEW j \in DOMAIN acceptChan',
                          acceptChan'[i] = acceptChan'[j]
                   PROVE  i = j
          OBVIOUS
      <3>1. i + 1 = j + 1
          BY <2>2 DEF FlowInv, StartedOnce
      <3> QED
          BY <2>2, <3>1
    <2>7. reader'["client"].at = "accept" =>
            /\ pump'["client"][reader'["client"].id] = "none"
            /\ \A i \in DOMAIN acceptChan' : acceptChan'[i] # reader'["client"].id
      <3>1. reader["client"].at = "accept" =>
               reader["client"].id \in Ids /\ reader["client"].id # n
          BY <1>0, <2>2 DEF FlowInv, StartedOnce, Positions
      <3> QED
          BY <1>0, <2>1, <2>2, <2>3, <3>1 DEF FlowInv, StartedOnce
    <2>8. \A p \in Sides, k \in Ids : pump'[p][k] \in Waiting => drain'[p][k] = "none"
        BY <1>0, <2>1, <2>3 DEF FlowInv, StartedOnce, Waiting
    <2> QED
        BY <2>5, <2>6, <2>7, <2>8 DEF StartedOnce
  <1>8. ASSUME NEW n \in Ids, OpenStream(n) PROVE StartedOnce'
    <2>1. pump["server"][n] = "none"
      <3>1. n > opened
          BY <1>8 DEF OpenStream, FlowInv, MuxInv, RestTypeOK
      <3> QED
          BY <1>0, <3>1 DEF FlowInv, Control, OpenedOnce, Unborn
    <2> QED
        BY <1>0, <1>8, <2>1, StartedKept DEF OpenStream, Waiting
  <1>9. ASSUME NEW s \in Sides, NEW n \in Ids,
               Copier(s, n) \/ PumpChunk(s, n) \/ PumpWriteFails(s, n) \/ Drainer(s, n)
        PROVE  StartedOnce'
    <2>1. UNCHANGED acceptChan /\ UNCHANGED reader
        BY <1>9 DEF Copier, Drainer, SendOpen, SendOpenFails, Dial, DialFails,
           PumpEnds, PumpStops, PumpCloses, PumpSendsClose, PumpChunk,
           PumpWriteFails, DrainChunk, DrainEnds
    <2>2. \A p \in Sides, k \in Ids : p # s \/ k # n =>
             pump'[p][k] = pump[p][k] /\ drain'[p][k] = drain[p][k]
        BY <1>0, <1>9 DEF Copier, Drainer, SendOpen, SendOpenFails, Dial, DialFails,
           PumpEnds, PumpStops, PumpCloses, PumpSendsClose, PumpChunk,
           PumpWriteFails, DrainChunk, DrainEnds, StartCopiers
    <2>3. \/ /\ pump[s][n] # "none" /\ pump'[s][n] \notin Waiting
          \/ /\ UNCHANGED pump
             /\ UNCHANGED drain \/ drain[s][n] = "run"
        BY <1>0, <1>9 DEF Copier, Drainer, SendOpen, SendOpenFails, Dial, DialFails,
           PumpEnds, PumpStops, PumpCloses, PumpSendsClose, PumpChunk,
           PumpWriteFails, DrainChunk, DrainEnds, StartCopiers, Waiting
    <2>4. drain[s][n] = "run" => pump[s][n] \notin Waiting
        BY DEF FlowInv, StartedOnce
    <2> QED
        BY <2>1, <2>2, <2>3, <2>4, StartedKept
  <1> QED
      BY <1>3, <1>4, <1>5, <1>6, <1>7, <1>8, <1>9 DEF Next

\* The next chunk is written behind the others.
LEMMA PumpChunkKeeps ==
    ASSUME FlowInv, NEW s \in Sides, NEW n \in Ids, PumpChunk(s, n)
    PROVE  Control' /\ Flows'
  <1> DEFINE h == sent[s][n]
             f == Frame("data", n, h + 1)
             w == wire[s]
  <1>1. /\ h \in Nat /\ f \in Frames /\ w \in Seq(Frames)
        /\ f.type = "data" /\ f.id = n /\ f.chunk = h + 1
    <2>1. h \in 0 .. MaxChunks /\ h < MaxChunks
        BY DEF PumpChunk, FlowInv, MuxInv, CopiersTypeOK
    <2>2. h \in Nat /\ h + 1 \in Chunks
        BY <2>1, MuxAssumption DEF Chunks
    <2> QED
        BY <2>2, FlowTypes DEF Frame, Frames
  <1>2. /\ pump[s][n] = "run" /\ WriteFrame(s, f)
        /\ UNCHANGED <<chan, opened, acceptChan, reader, pump, drain, local, got>>
      BY DEF PumpChunk, sessionVars
  <1>3. /\ wire'[s] = Append(w, f)
        /\ \A p \in Sides : p # s => wire'[p] = wire[p]
        /\ sent'[s][n] = h + 1
        /\ \A p \in Sides, k \in Ids : p # s \/ k # n => sent'[p][k] = sent[p][k]
    <2>1. wire \in [Sides -> Seq(Frames)] /\ sent \in [Sides -> [Ids -> 0 .. MaxChunks]]
        BY DEF FlowInv, MuxInv, RestTypeOK, CopiersTypeOK
    <2> QED
        BY <1>2, <2>1 DEF PumpChunk, WriteFrame
  <1> HIDE DEF f, h, w
  <1>4. chan[s][n].state # "none"
      BY <1>2 DEF FlowInv, Control, Unborn
  <1>5. Control'
    <2>1. \A p \in Sides, k \in Ids : Plain(wire[p], wire'[p], k)
        BY <1>1, <1>3 DEF Plain, w
    <2>2. NoneRegistered
        BY <1>2 DEF NoneRegistered
    <2> QED
        BY <1>2, <1>3, <1>4, <2>1, <2>2, AcceptSame, CopierControl
  <1>6. ASSUME NEW p \in Sides, NEW k \in Ids PROVE Flow(p, k)'
    <2>1. /\ Flow(p, k) /\ Peer(p) \in Sides /\ Peer(p) # p
          /\ got[p][k] \in Nat /\ Len(chan[p][k].q) \in Nat
        BY FlowTypes DEF FlowInv, Flows, Channel
    <2>2. CASE Peer(p) # s \/ k # n
      <3>1. Calm(wire[Peer(p)], wire'[Peer(p)], k)
          BY <1>1, <1>3, <2>1, <2>2 DEF Calm, w
      <3>2. Live(p, k)' =>
               /\ Live(p, k)
               /\ InHand(p, k)' <=> InHand(p, k)
               /\ InHand(p, k) => reader'[p].chunk = reader[p].chunk
          BY <1>2 DEF Live, InHand, Dropping
      <3> QED
          BY <1>2, <1>3, <2>1, <2>2, <3>1, <3>2, FlowKept DEF FlowInv
    <2>3. CASE Peer(p) = s /\ k = n
      <3>1. got'[p][n] <= sent'[s][n]
          BY <1>1, <1>2, <1>3, <2>1, <2>3 DEF Flow, h
      <3>2. drain'[p][n] # "done" => Queued(p, n)'
        <4>1. ASSUME Queued(p, n)
              PROVE  got[p][n] + Len(chan[p][n].q) <= h + 1
          <5>1. got[p][n] + Len(chan[p][n].q) <= h
              BY <2>3, <4>1 DEF Queued, h
          <5> QED
              BY <1>1, <2>1, <2>3, <5>1
        <4> QED
            BY <1>2, <1>3, <2>1, <2>3, <4>1 DEF Flow, Queued
      <3>3. ASSUME Live(p, n)' PROVE Travelling(p, n)'
        <4>1. Travelling(p, n)
            BY <1>2, <2>1, <2>3, <3>3 DEF Flow, Live, Dropping
        <4>2. Arrived(p, n)' = Arrived(p, n) /\ Arrived(p, n) \in Nat
          <5>1. Arrived(p, n)' = Arrived(p, n)
              BY <1>2 DEF Arrived, InHand
          <5>2. got[p][n] \in Nat /\ Len(chan[p][n].q) \in Nat
              BY <2>1, <2>3
          <5>3. Arrived(p, n) \in Nat
              BY <5>2 DEF Arrived
          <5> QED
              BY <5>1, <5>3
        <4>3. Arrived(p, n) <= h /\ Carries(w, n, Arrived(p, n), h)
            BY <2>3, <4>1 DEF Travelling, w, h
        <4>4. Carries(wire'[s], n, Arrived(p, n), h + 1)
            BY <1>1, <1>3, <4>2, <4>3, CarriesAppendNext
        <4>5. InHand(p, n)' => reader'[p].chunk = Arrived(p, n)
            BY <1>2, <4>1 DEF Travelling, InHand
        <4>6. Arrived(p, n) <= h + 1
            BY <1>1, <4>2, <4>3
        <4> QED
            BY <1>3, <2>3, <4>2, <4>4, <4>5, <4>6 DEF Travelling
      <3> QED
          BY <2>3, <3>1, <3>2, <3>3 DEF Flow
    <2> QED
        BY <2>2, <2>3
  <1> QED
      BY <1>5, <1>6 DEF Flows

\* What a step of a drain changes.
LEMMA DrainFacts ==
    ASSUME FlowInv, NEW s \in Sides, NEW n \in Ids, Drainer(s, n)
    PROVE  /\ chan[s][n].state # "none" /\ drain[s][n] = "run"
           /\ UNCHANGED <<wire, opened, acceptChan, reader, pump, sent>>
           /\ \A p \in Sides, k \in Ids : p # s \/ k # n =>
                 /\ chan'[p][k] = chan[p][k] /\ drain'[p][k] = drain[p][k]
                 /\ got'[p][k] = got[p][k]
           /\ chan'[s][n].state = chan[s][n].state
           /\ NoneRegistered
           /\ Queued(s, n)
  <1>1. /\ chan \in [Sides -> [Ids -> Channel]]
        /\ drain \in [Sides -> [Ids -> {"none", "run", "done"}]]
        /\ got \in [Sides -> [Ids -> Nat]]
      BY DEF FlowInv, MuxInv, SessionInv, SessionTypeOK, CopiersTypeOK
  <1>2. /\ drain[s][n] = "run"
        /\ UNCHANGED <<wire, opened, acceptChan, reader, pump, sent>>
      BY DEF Drainer, DrainChunk, DrainEnds
  <1>3. chan[s][n].state # "none"
      BY <1>2 DEF FlowInv, Control, Unborn
  <1>4. /\ \A p \in Sides, k \in Ids : p # s \/ k # n =>
              /\ chan'[p][k] = chan[p][k] /\ drain'[p][k] = drain[p][k]
              /\ got'[p][k] = got[p][k]
        /\ chan'[s][n].state = chan[s][n].state
    <2>1. CASE DrainChunk(s, n)
        BY <1>1, <2>1 DEF DrainChunk, Channel
    <2>2. CASE DrainEnds(s, n)
      <3>1. /\ \/ UNCHANGED chan
               \/ chan' = [chan EXCEPT ![s][n].q = Tail(@)]
            /\ drain' = [drain EXCEPT ![s][n] = "done"]
            /\ UNCHANGED got
          BY <2>2 DEF DrainEnds
      <3>2. \A p \in Sides, k \in Ids : p # s \/ k # n => chan'[p][k] = chan[p][k]
          BY <1>1, <3>1
      <3>3. chan'[s][n].state = chan[s][n].state
        <4>1. CASE chan' = [chan EXCEPT ![s][n].q = Tail(@)]
            BY <1>1, <4>1 DEF Channel
        <4> QED
            BY <3>1, <4>1
      <3>4. \A p \in Sides, k \in Ids : p # s \/ k # n => drain'[p][k] = drain[p][k]
          BY <1>1, <3>1
      <3> QED
          BY <3>1, <3>2, <3>3, <3>4
    <2> QED
        BY <2>1, <2>2 DEF Drainer
  <1>5. Queued(s, n)
      BY <1>2 DEF FlowInv, Flows, Flow
  <1>6. NoneRegistered
      BY <1>3, <1>4 DEF NoneRegistered
  <1> QED
      BY <1>2, <1>3, <1>4, <1>5, <1>6

\* A copier passes on the chunk after the last one, or ends.
LEMMA DrainFlow ==
    ASSUME FlowInv, NEW s \in Sides, NEW n \in Ids, Drainer(s, n)
    PROVE  Control' /\ Flows'
  <1>1. Control'
      BY DrainFacts, WireSame, AcceptSame, CopierControl
  <1>2. ASSUME NEW p \in Sides, NEW k \in Ids PROVE Flow(p, k)'
    <2>1. Flow(p, k) /\ Calm(wire[Peer(p)], wire'[Peer(p)], k)
        BY DrainFacts DEF FlowInv, Flows, Calm
    <2>2. CASE p # s \/ k # n
      <3>1. Live(p, k)' =>
               /\ Live(p, k)
               /\ InHand(p, k)' <=> InHand(p, k)
               /\ InHand(p, k) => reader'[p].chunk = reader[p].chunk
          BY <2>2, DrainFacts DEF Live, InHand, Dropping
      <3> QED
          BY <2>1, <2>2, <3>1, DrainFacts, FlowKept DEF FlowInv
    <2>3. CASE p = s /\ k = n /\ DrainEnds(s, n)
      <3>1. drain'[s][n] = "done" /\ got' = got
          BY <2>3 DEF DrainEnds, FlowInv, MuxInv, CopiersTypeOK
      <3> QED
          BY <2>1, <2>3, <3>1, DrainFacts DEF Flow, Live
    <2>4. CASE p = s /\ k = n /\ DrainChunk(s, n)
      <3> DEFINE q == chan[s][n].q
                 g == got[s][n]
      <3>1. /\ q \in Seq(Chunks) /\ q # <<>> /\ g \in Nat /\ sent[Peer(s)][n] \in Nat
            /\ chan'[s][n].q = Tail(q) /\ got'[s][n] = g + 1
            /\ UNCHANGED drain
        <4>1. /\ chan \in [Sides -> [Ids -> Channel]]
              /\ got \in [Sides -> [Ids -> Nat]]
            BY DEF FlowInv, MuxInv, SessionInv, SessionTypeOK, CopiersTypeOK
        <4> QED
            BY <2>4, <4>1, FlowTypes DEF DrainChunk, Channel
      <3>2. /\ \A i \in DOMAIN Tail(q) : i + 1 \in DOMAIN q /\ i \in Nat
                                         /\ Tail(q)[i] = q[i + 1]
            /\ Len(q) \in Nat /\ Len(Tail(q)) = Len(q) - 1 /\ Len(q) >= 1
          BY <3>1
      <3>3. Queued(s, n)'
        <4>1. \A i \in DOMAIN Tail(q) : Tail(q)[i] = g + 1 + i
          <5> SUFFICES ASSUME NEW i \in DOMAIN Tail(q)
                       PROVE  Tail(q)[i] = g + 1 + i
              OBVIOUS
          <5>1. q[i + 1] = g + (i + 1) /\ i \in Nat
              BY <3>2, DrainFacts DEF Queued
          <5>2. g \in Nat
              BY <3>1
          <5>3. g + (i + 1) = g + 1 + i
              BY <5>1, <5>2
          <5>4. Tail(q)[i] = q[i + 1]
              BY <3>2
          <5> QED
              BY <5>1, <5>3, <5>4
        <4>2. g + 1 + Len(Tail(q)) <= sent[Peer(s)][n]
          <5>1. g + Len(q) <= sent[Peer(s)][n]
              BY DrainFacts DEF Queued
          <5>2. /\ g \in Nat /\ sent[Peer(s)][n] \in Nat
                /\ Len(q) \in Nat /\ Len(Tail(q)) = Len(q) - 1
              BY <3>1, <3>2
          <5>3. \A x, y, z \in Nat : x + y <= z => x + 1 + (y - 1) <= z
              OBVIOUS
          <5> QED
              BY <5>1, <5>2, <5>3, Zenon
        <4> QED
            BY <3>1, <4>1, <4>2, DrainFacts DEF Queued
      <3>4. got'[s][n] <= sent'[Peer(s)][n]
        <4>1. g + Len(q) <= sent[Peer(s)][n]
            BY DrainFacts DEF Queued
        <4>2. /\ g \in Nat /\ sent[Peer(s)][n] \in Nat
              /\ Len(q) \in Nat /\ Len(q) >= 1
            BY <3>1, <3>2
        <4>3. got'[s][n] = g + 1 /\ sent'[Peer(s)][n] = sent[Peer(s)][n]
            BY <3>1, DrainFacts
        <4>4. g + 1 <= sent[Peer(s)][n]
          <5> HIDE DEF g, q
          <5> QED
              BY <4>1, <4>2
        <4> QED
            BY <4>3, <4>4
      <3>5. ASSUME Live(s, n)' PROVE Travelling(s, n)'
        <4>1. Travelling(s, n)
            BY <2>1, <2>4, <3>1, <3>5, DrainFacts DEF Flow, Live, Dropping
        <4>2. Arrived(s, n)' = Arrived(s, n)
          <5>1. g + 1 + Len(Tail(q)) = g + Len(q)
            <6>1. /\ g \in Nat /\ Len(q) \in Nat
                  /\ Len(Tail(q)) = Len(q) - 1
                BY <3>1, <3>2
            <6> QED
                BY <6>1
          <5>2. InHand(s, n)' <=> InHand(s, n)
              BY DrainFacts DEF InHand
          <5> QED
              BY <3>1, <5>1, <5>2 DEF Arrived
        <4>3. InHand(s, n)' => InHand(s, n) /\ reader'[s].chunk = reader[s].chunk
            BY DrainFacts DEF InHand
        <4> QED
            BY <4>1, <4>2, <4>3, DrainFacts DEF Travelling
      <3> QED
          BY <2>4, <3>3, <3>4, <3>5 DEF Flow
    <2> QED
        BY <2>2, <2>3, <2>4 DEF Drainer
  <1> QED
      BY <1>1, <1>2 DEF Flows

\* What the other steps of a stream's copiers change.
LEMMA PumpFlow ==
    ASSUME FlowInv, NEW s \in Sides, NEW n \in Ids,
           Copier(s, n) \/ PumpWriteFails(s, n), ~ (s = "server" /\ SendOpen(n))
    PROVE  Control' /\ Flows'
  <1>0. /\ drain \in [Sides -> [Ids -> {"none", "run", "done"}]]
        /\ pump \in [Sides -> [Ids -> {"none", "opening", "dial", "run",
                                       "close", "closeframe", "done"}]]
      BY DEF FlowInv, MuxInv, CopiersTypeOK
  <1>1. /\ pump[s][n] # "none"
        /\ UNCHANGED <<opened, acceptChan, reader, sent, got>>
      BY DEF Copier, SendOpenFails, Dial, DialFails, PumpEnds, PumpWriteFails,
         PumpStops, PumpCloses, PumpSendsClose
  <1>2. chan[s][n].state # "none"
      BY <1>1 DEF FlowInv, Control, Unborn
  <1>3. OnlyCloses
    <2>1. \/ UNCHANGED sessionVars
          \/ n \in streams[s] /\ Unregister(s, n, "copier")
        BY DEF Copier, SendOpenFails, Dial, DialFails, PumpEnds, PumpWriteFails,
           PumpStops, PumpCloses, PumpSendsClose
    <2> QED
        BY <2>1, ClosingCloses DEF FlowInv, Takers
  <1>4. \A p \in Sides, k \in Ids : /\ Plain(wire[p], wire'[p], k)
                                    /\ Calm(wire[p], wire'[p], k)
    <2>1. CASE UNCHANGED wire
        BY <2>1, WireSame
    <2>2. CASE PumpSendsClose(s, n)
      <3>1. /\ Frame("close", n, 0) \in Frames
            /\ Frame("close", n, 0).type = "close"
          BY DEF Frame, Frames
      <3> QED
          BY <2>2, <3>1, WritePlain DEF PumpSendsClose, FlowInv
    <2> QED
        BY <2>1, <2>2 DEF Copier, SendOpenFails, Dial, DialFails, PumpEnds,
           PumpWriteFails, PumpStops, PumpCloses
  <1>5. /\ \A p \in Sides, k \in Ids : p # s \/ k # n =>
              pump'[p][k] = pump[p][k] /\ drain'[p][k] = drain[p][k]
        /\ s = "server" => pump'[s][n] \notin {"none", "opening", "run"}
      BY <1>0 DEF Copier, SendOpenFails, Dial, DialFails, PumpEnds,
         PumpWriteFails, PumpStops, PumpCloses, PumpSendsClose, StartCopiers
  <1>6. drain'[s][n] # "done" => drain[s][n] # "done"
    <2>1. UNCHANGED drain \/ drain'[s][n] = "done" \/ pump[s][n] = "dial"
        BY <1>0 DEF Copier, SendOpenFails, Dial, DialFails, PumpEnds,
           PumpWriteFails, PumpStops, PumpCloses, PumpSendsClose
    <2>2. pump[s][n] = "dial" => drain[s][n] = "none"
        BY DEF FlowInv, StartedOnce, Waiting
    <2> QED
        BY <2>1, <2>2
  <1> QED
      BY <1>1, <1>2, <1>3, <1>4, <1>5, <1>6, AcceptSame, CopierKeeps

\* A stream is handed to its handler.
LEMMA AcceptKeeps ==
    ASSUME FlowInv, AcceptStream
    PROVE  Control' /\ Flows'
  <1>1. /\ pump \in [Sides -> [Ids -> {"none", "opening", "dial", "run",
                                       "close", "closeframe", "done"}]]
        /\ acceptChan \in Seq(Ids) /\ "client" \in Sides
      BY DEF FlowInv, MuxInv, CopiersTypeOK, RestTypeOK, Sides
  <1>2. PICK n \in Ids : n = Head(acceptChan)
      BY <1>1 DEF AcceptStream
  <1>3. /\ acceptChan # <<>> /\ acceptChan' = Tail(acceptChan)
        /\ pump' = [pump EXCEPT !["client"][n] = "dial"]
        /\ UNCHANGED <<wire, chan, opened, reader, drain, sent, got>>
      BY <1>2 DEF AcceptStream, sessionVars
  <1>4. chan["client"][n].state # "none"
    <2>1. 1 \in DOMAIN acceptChan /\ acceptChan[1] = n
        BY <1>1, <1>2, <1>3
    <2> QED
        BY <1>1, <2>1 DEF FlowInv, Control, Known
  <1>5. \A i \in DOMAIN acceptChan' :
           \E j \in DOMAIN acceptChan : acceptChan'[i] = acceptChan[j]
    <2>1. \A i \in DOMAIN Tail(acceptChan) :
             i + 1 \in DOMAIN acceptChan /\ Tail(acceptChan)[i] = acceptChan[i + 1]
        BY <1>1, <1>3
    <2> QED
        BY <1>3, <2>1
  <1>6. OnlyCloses
      BY <1>3 DEF OnlyCloses
  <1> QED
      BY <1>1, <1>3, <1>4, <1>5, <1>6, WireSame, CopierKeeps

-----------------------------------------------------------------------------
(* The invariant *)

\* Nothing is under way initially.
LEMMA FlowInit == Init => FlowInv
  <1> SUFFICES ASSUME Init PROVE FlowInv
      OBVIOUS
  <1>1. MuxInv
      BY MuxInit
  <1>2. \A s \in Sides, k \in Ids :
           /\ chan[s][k].state = "none" /\ chan[s][k].q = <<>>
           /\ pump[s][k] = "none" /\ drain[s][k] = "none"
           /\ sent[s][k] = 0 /\ got[s][k] = 0
      BY DEF Init
  <1>3. \A s \in Sides : /\ wire[s] = <<>> /\ reader[s].at = "read"
                         /\ Peer(s) \in Sides
      BY DEF Init, At, Sides, Peer
  <1>4. acceptChan = <<>> /\ "client" \in Sides /\ "server" \in Sides
      BY DEF Init, Sides
  <1>5. \A s \in Sides, k \in Ids : NoOpen(wire[s], k) /\ DataAt(wire[s], k) = {}
      BY <1>3 DEF NoOpen, DataAt
  <1>6. Control
      BY <1>2, <1>3, <1>4, <1>5 DEF Control, Known, Unborn, OpenedOnce
  <1>7. StartedOnce
      BY <1>2, <1>3, <1>4 DEF StartedOnce
  <1>8. ASSUME NEW s \in Sides, NEW k \in Ids PROVE Flow(s, k)
    <2>1. Queued(s, k)
        BY <1>2, <1>3 DEF Queued
    <2>2. Arrived(s, k) = 0 /\ ~ InHand(s, k)
        BY <1>2, <1>3 DEF Arrived, InHand
    <2>3. Carries(wire[Peer(s)], k, 0, 0)
        BY <1>3, <1>5 DEF Carries
    <2> QED
        BY <1>2, <1>3, <2>1, <2>2, <2>3 DEF Flow, Travelling
  <1> QED
      BY <1>1, <1>6, <1>7, <1>8 DEF FlowInv, Flows

\* Steps of neither side: the connection, the heartbeat, the local connections.
LEMMA OtherKeeps ==
    ASSUME FlowInv,
           \/ Break \/ Replace
           \/ \E s \in Sides : PingLoop(s)
           \/ \E s \in Sides, k \in Ids : LocalEnds(s, k)
    PROVE  Control' /\ Flows'
  <1>1. UNCHANGED <<opened, acceptChan, reader, pump, drain, sent, got>>
      BY DEF Break, Replace, PingLoop, LocalEnds, copyVars
  <1>2. "server" \in Sides
      BY DEF Sides
  <1>3. OnlyCloses
    <2>1. UNCHANGED sessionVars \/ CloseSession("server")
        BY DEF Break, Replace, PingLoop, LocalEnds
    <2> QED
        BY <1>2, <2>1, ClosingCloses DEF FlowInv
  <1>4. \A p \in Sides, k \in Ids : /\ Plain(wire[p], wire'[p], k)
                                    /\ Calm(wire[p], wire'[p], k)
    <2>1. Frame("ping", 0, 0) \in Frames /\ Frame("ping", 0, 0).type = "ping"
        BY DEF Frame, Frames
    <2>2. ASSUME NEW s \in Sides, PingLoop(s)
          PROVE  \A p \in Sides, k \in Ids : /\ Plain(wire[p], wire'[p], k)
                                             /\ Calm(wire[p], wire'[p], k)
        BY <2>1, <2>2, WritePlain DEF PingLoop, FlowInv
    <2> QED
        BY <2>2, WireSame DEF Break, Replace, LocalEnds
  <1> QED
      BY <1>1, <1>2, <1>3, <1>4, AcceptSame, SessionKeeps

\* Every step keeps the invariant.
LEMMA FlowStep == FlowInv /\ [Next]_vars => FlowInv'
  <1> SUFFICES ASSUME FlowInv, [Next]_vars PROVE FlowInv'
      OBVIOUS
  <1>1. MuxInv'
      BY MuxStep DEF FlowInv
  <1>2. CASE Next
    <2>1. StartedOnce'
        BY <1>2, StartedStep
    <2>2. Control' /\ Flows'
      <3>1. ASSUME NEW s \in Sides, Reader(s) PROVE Control' /\ Flows'
          BY <3>1, ReaderFlow
      <3>2. ASSUME NEW k \in Ids, OpenStream(k) PROVE Control' /\ Flows'
          BY <3>2, OpenStreamKeeps
      <3>3. ASSUME NEW s \in Sides, NEW k \in Ids,
                   \/ PumpChunk(s, k) \/ PumpWriteFails(s, k)
                   \/ Copier(s, k) \/ Drainer(s, k)
            PROVE  Control' /\ Flows'
          BY <3>3, PumpChunkKeeps, PumpFlow, DrainFlow, SendOpenKeeps
      <3> QED
          BY <1>2, <3>1, <3>2, <3>3, AcceptKeeps, OtherKeeps DEF Next
    <2> QED
        BY <1>1, <2>1, <2>2 DEF FlowInv
  <1>3. CASE UNCHANGED vars
    <2>1. /\ Control' /\ Flows'
      <3>1. /\ OnlyCloses
            /\ UNCHANGED <<opened, acceptChan, reader, pump, drain, sent, got, wire>>
          BY <1>3 DEF vars, OnlyCloses
      <3>2. "server" \in Sides
          BY DEF Sides
      <3> QED
          BY <3>1, <3>2, WireSame, AcceptSame, SessionKeeps
    <2>2. StartedOnce'
        BY <1>3 DEF vars, FlowInv, StartedOnce
    <2> QED
        BY <1>1, <2>1, <2>2 DEF FlowInv
  <1> QED
      BY <1>2, <1>3

\* FlowInv is an invariant of every behaviour.
LEMMA FlowInvariant == Spec => []FlowInv
  <1> QED
      BY FlowInit, FlowStep, PTL DEF Spec

\* As long as a stream is registered and read, the wire, the hand of readLoop
\* and readChan hold in this order what was written and not yet passed on: for
\* any number of streams, chunks and pings and any capacities.
THEOREM NothingLost == Spec => []InOrderNoLoss
  <1>1. FlowInv => InOrderNoLoss
    <2> SUFFICES ASSUME FlowInv, NEW s \in Sides, NEW k \in streams[s],
                        drain[s][k] # "done", ~ Dropping(s, k)
                 PROVE  Queued(s, k) /\ Travelling(s, k)
        BY DEF InOrderNoLoss, Queued, Travelling
    <2>1. k \in Ids
        BY DEF FlowInv, MuxInv, SessionInv, SessionTypeOK
    <2>2. chan[s][k].state = "open" /\ Flow(s, k)
        BY <2>1, FlowTypes DEF FlowInv, Flows
    <2> QED
        BY <2>2 DEF Flow, Live
  <1> QED
      BY <1>1, FlowInvariant, PTL

\* What a copier has passed on is at any time the beginning of what the other
\* side wrote, whatever became of the stream.
THEOREM OnlyThePrefix == Spec => []PrefixDelivered
  <1>1. FlowInv => PrefixDelivered
      BY DEF FlowInv, Flows, Flow, Queued, PrefixDelivered
  <1> QED
      BY <1>1, FlowInvariant, PTL

-----------------------------------------------------------------------------
(* The refinement *)

\* The third component of the mapping.
Ended == [s \in Sides |-> [k \in Ids |-> drain[s][k] = "done"]]

\* Steps that end no drain, pass nothing on and write nothing are invisible.
LEMMA Stutters ==
    ASSUME UNCHANGED <<sent, got>>,
           \A p \in Sides, k \in Ids : drain'[p][k] = "done" <=> drain[p][k] = "done"
    PROVE  UNCHANGED Stream!vars
  <1>1. Ended' = Ended
      BY Zenon DEF Ended
  <1> QED
      BY <1>1 DEF Stream!vars, Ended

\* A drain ends.
LEMMA Ends ==
    ASSUME FlowInv, NEW s \in Sides, NEW n \in Ids, UNCHANGED <<sent, got>>,
           drain[s][n] # "done",
           drain' = [drain EXCEPT ![s][n] = "done"]
    PROVE  Stream!Next
  <1>1. drain \in [Sides -> [Ids -> {"none", "run", "done"}]]
      BY DEF FlowInv, MuxInv, CopiersTypeOK
  <1>2. /\ drain'[s][n] = "done"
        /\ \A p \in Sides, k \in Ids : p # s \/ k # n => drain'[p][k] = drain[p][k]
      BY <1>1
  <1>3. Ended' = [Ended EXCEPT ![s][n] = TRUE]
    <2> DEFINE now == [Ended EXCEPT ![s][n] = TRUE]
    <2>1. /\ Ended' \in [Sides -> [Ids -> BOOLEAN]]
          /\ Ended \in [Sides -> [Ids -> BOOLEAN]]
        BY DEF Ended
    <2>2. now \in [Sides -> [Ids -> BOOLEAN]]
        BY <2>1
    <2>3. ASSUME NEW p \in Sides, NEW k \in Ids PROVE Ended'[p][k] = now[p][k]
      <3>1. CASE p = s /\ k = n
        <4>1. Ended'[p][k]
            BY <1>2, <3>1 DEF Ended
        <4>2. now[p][k]
            BY <2>1, <3>1
        <4> QED
            BY <2>1, <2>2, <4>1, <4>2
      <3>2. CASE p # s \/ k # n
        <4>1. Ended'[p][k] = Ended[p][k]
            BY <1>2, <3>2 DEF Ended
        <4>2. now[p][k] = Ended[p][k]
            BY <2>1, <3>2
        <4> QED
            BY <4>1, <4>2
      <3> QED
          BY <3>1, <3>2
    <2> HIDE DEF now
    <2>4. Ended' = now
        BY <2>1, <2>2, <2>3
    <2> QED
        BY <2>4 DEF now
  <1>4. ~ Ended[s][n]
      BY DEF Ended
  <1>5. Stream!End(s, n)
      BY <1>3, <1>4 DEF Stream!End, Ended
  <1> QED
      BY <1>5 DEF Stream!Next

\* A drain passes on a chunk: it was written and is the next one.
LEMMA Gives ==
    ASSUME FlowInv, NEW s \in Sides, NEW n \in Ids, DrainChunk(s, n)
    PROVE  Stream!Next
  <1>1. /\ drain[s][n] = "run" /\ UNCHANGED <<sent, drain>>
        /\ chan[s][n].q # <<>>
        /\ got' = [got EXCEPT ![s][n] = @ + 1]
      BY DEF DrainChunk
  <1>2. got[s][n] < sent[Peer(s)][n]
    <2>1. Queued(s, n)
        BY <1>1 DEF FlowInv, Flows, Flow
    <2>2. got[s][n] + Len(chan[s][n].q) <= sent[Peer(s)][n]
        BY <2>1 DEF Queued
    <2>3. /\ got[s][n] \in Nat /\ sent[Peer(s)][n] \in Nat
          /\ chan[s][n].q \in Seq(Chunks)
        BY FlowTypes DEF Channel
    <2>4. Len(chan[s][n].q) \in Nat /\ Len(chan[s][n].q) > 0
        BY <1>1, <2>3
    <2> QED
        BY <2>2, <2>3, <2>4
  <1>3. Ended' = Ended /\ ~ Ended[s][n]
      BY <1>1 DEF Ended
  <1>4. Stream!Give(s, n)
      BY <1>1, <1>2, <1>3 DEF Stream!Give, Ended
  <1> QED
      BY <1>4 DEF Stream!Next

\* Every step of a session is one of its pipes, or none.
LEMMA StreamStep == FlowInv /\ [Next]_vars => [Stream!Next]_(Stream!vars)
  <1> SUFFICES ASSUME FlowInv, [Next]_vars
               PROVE  Stream!Next \/ UNCHANGED Stream!vars
      OBVIOUS
  <1>0. drain \in [Sides -> [Ids -> {"none", "run", "done"}]]
      BY DEF FlowInv, MuxInv, CopiersTypeOK
  <1>1. ASSUME UNCHANGED <<sent, got, drain>> PROVE UNCHANGED Stream!vars
      BY <1>1, Stutters
  <1>2. ASSUME NEW s \in Sides, NEW n \in Ids,
               pump[s][n] \in Waiting, StartCopiers(s, n), UNCHANGED <<sent, got>>
        PROVE  UNCHANGED Stream!vars
    <2>1. drain[s][n] = "none"
        BY <1>2 DEF FlowInv, StartedOnce
    <2>2. \A p \in Sides, k \in Ids : drain'[p][k] = "done" <=> drain[p][k] = "done"
        BY <1>0, <1>2, <2>1 DEF StartCopiers
    <2> QED
        BY <1>2, <2>2, Stutters
  <1>3. ASSUME NEW s \in Sides, NEW n \in Ids, pump[s][n] \in Waiting,
               drain' = [drain EXCEPT ![s][n] = "done"], UNCHANGED <<sent, got>>
        PROVE  Stream!Next
    <2>1. drain[s][n] # "done"
        BY <1>3 DEF FlowInv, StartedOnce
    <2> QED
        BY <1>3, <2>1, Ends
  <1>4. ASSUME NEW s \in Sides, NEW n \in Ids, Copier(s, n)
        PROVE  Stream!Next \/ UNCHANGED Stream!vars
    <2>1. CASE s = "server" /\ SendOpen(n)
        BY <1>2, <2>1 DEF SendOpen, Waiting
    <2>2. CASE s = "server" /\ SendOpenFails(n)
        BY <1>3, <2>2 DEF SendOpenFails, Waiting
    <2>3. CASE s = "client" /\ Dial(n)
        BY <1>2, <2>3 DEF Dial, Waiting
    <2>4. CASE s = "client" /\ DialFails(n)
        BY <1>3, <2>4 DEF DialFails, Waiting
    <2>5. CASE PumpEnds(s, n) \/ PumpCloses(s, n) \/ PumpSendsClose(s, n)
        BY <1>1, <2>5 DEF PumpEnds, PumpStops, PumpCloses, PumpSendsClose
    <2> QED
        BY <1>4, <2>1, <2>2, <2>3, <2>4, <2>5 DEF Copier
  <1>5. ASSUME NEW s \in Sides, NEW n \in Ids, Drainer(s, n) PROVE Stream!Next
    <2>1. CASE DrainChunk(s, n)
        BY <2>1, Gives
    <2>2. CASE DrainEnds(s, n)
        BY <2>2, Ends DEF DrainEnds
    <2> QED
        BY <1>5, <2>1, <2>2 DEF Drainer
  <1>6. ASSUME NEW s \in Sides, NEW n \in Ids, PumpChunk(s, n) PROVE Stream!Next
    <2>1. Stream!Write(s, n)
        BY <1>6 DEF PumpChunk, Stream!Write
    <2> QED
        BY <2>1 DEF Stream!Next
  <1>7. ASSUME NEW s \in Sides, Reader(s) PROVE UNCHANGED Stream!vars
      BY <1>1, <1>7 DEF Reader, ReadFrame, ReadError, Deliver, DeliverPanics,
         DeliverTimeout, DropStream, ReaderWrites, OfferStream, copyVars
  <1>8. ASSUME \/ Break \/ Replace \/ AcceptStream
               \/ \E s \in Sides : PingLoop(s)
               \/ \E k \in Ids : OpenStream(k)
               \/ \E s \in Sides, k \in Ids : PumpWriteFails(s, k) \/ LocalEnds(s, k)
        PROVE  UNCHANGED Stream!vars
      BY <1>1, <1>8 DEF Break, Replace, AcceptStream, PingLoop, OpenStream,
         PumpWriteFails, PumpStops, LocalEnds, copyVars
  <1>9. CASE UNCHANGED vars
      BY <1>1, <1>9 DEF vars
  <1> QED
      BY <1>4, <1>5, <1>6, <1>7, <1>8, <1>9 DEF Next

\* A session implements its streams: two pipes for each, whose reader is given
\* each chunk once and in order, and nothing after the end.
THEOREM SessionIsPipes == Spec => ImplementsStreams
  <1>1. Init => Stream!Init
    <2> SUFFICES ASSUME Init PROVE Stream!Init
        OBVIOUS
    <2>1. \A s \in Sides, k \in Ids : ~ (drain[s][k] = "done")
        BY DEF Init
    <2>2. Ended = [s \in Sides |-> [k \in Ids |-> FALSE]]
        BY <2>1 DEF Ended
    <2>3. /\ sent = [s \in Sides |-> [k \in Ids |-> 0]]
          /\ got = [s \in Sides |-> [k \in Ids |-> 0]]
        BY DEF Init
    <2> QED
        BY <2>2, <2>3 DEF Ended, Stream!Init
  <1> QED
      BY <1>1, FlowInvariant, StreamStep, PTL DEF Spec, ImplementsStreams, Stream!Spec
=============================================================================
