---------------------------- MODULE TunnelProofs ----------------------------
(***************************************************************************)
(* One tunnel from end to end is safe for any number of sessions and of    *)
(* frames, whatever sshd and the network do: the bytes of every session    *)
(* arrive in order, the server never confuses its agent, no connection to  *)
(* sshd is left behind while the tunnel is up, and the agent's sessions    *)
(* hold back when the server does not read.                                *)
(*                                                                         *)
(* First what appending a frame to a wire, and taking one from it, does to *)
(* the order of the bytes on it; then when a step leaves a part of         *)
(* TunnelInv alone; then one lemma per action, with one step per part.     *)
(***************************************************************************)
EXTENDS Tunnel, SequenceTheorems, FiniteSetTheorems, TLAPS

-----------------------------------------------------------------------------
(* Wires.                                                                  *)

\* A sequence is empty when its length is.
LEMMA EmptyWire ==
    ASSUME NEW S, NEW s \in Seq(S)
    PROVE  Len(s) \in Nat /\ (s = <<>> <=> Len(s) = 0)
BY EmptySeq, LenProperties

\* A frame is appended.
LEMMA Appended ==
    ASSUME NEW S, NEW w \in Seq(S), NEW f \in S, NEW v, v = Append(w, f)
    PROVE  /\ v \in Seq(S) /\ Len(w) \in Nat /\ Len(v) = Len(w) + 1
           /\ \A i \in 1..Len(w) : i \in 1..Len(v) /\ v[i] = w[i]
           /\ Len(w) + 1 \in 1..Len(v) /\ v[Len(w) + 1] = f
           /\ \A i \in 1..Len(v) : i \in 1..Len(w) \/ i = Len(w) + 1
<1>1. Len(w) \in Nat /\ v \in Seq(S) /\ Len(v) = Len(w) + 1 /\ v[Len(w) + 1] = f
  BY AppendProperties, EmptyWire
<1>2. \A i \in 1..Len(w) : v[i] = w[i]
  BY AppendProperties
<1>3. QED
  BY <1>1, <1>2

\* A frame is taken from the front.
LEMMA Shifted ==
    ASSUME NEW S, NEW w \in Seq(S), w # <<>>, NEW v, v = Tail(w)
    PROVE  /\ v \in Seq(S) /\ Len(w) \in Nat /\ Len(v) = Len(w) - 1 /\ Len(w) > 0
           /\ Head(w) = w[1] /\ 1 \in 1..Len(w) /\ Head(w) \in S
           /\ \A i \in 1..Len(v) : i + 1 \in 1..Len(w) /\ v[i] = w[i + 1]
           /\ \A i \in 1..Len(w) : i = 1 \/ (i - 1 \in 1..Len(v) /\ v[i - 1] = w[i])
<1>1. Len(w) \in Nat /\ Len(w) > 0
  BY EmptyWire
<1>2. v \in Seq(S) /\ Len(v) = Len(w) - 1 /\ Head(w) = w[1] /\ Head(w) \in S
  BY HeadTailProperties
<1>3. \A i \in 1..Len(v) : v[i] = w[i + 1]
  BY HeadTailProperties
<1>4. \A i \in 1..Len(v) : i + 1 \in 1..Len(w)
  BY <1>1, <1>2
<1>5. \A i \in 1..Len(w) : i = 1 \/ (i - 1 \in 1..Len(v) /\ v[i - 1] = w[i])
  <2> SUFFICES ASSUME NEW i \in 1..Len(w), i # 1
               PROVE  i - 1 \in 1..Len(v) /\ v[i - 1] = w[i]
    OBVIOUS
  <2>1. i - 1 \in 1..Len(v) /\ (i - 1) + 1 = i
    BY <1>1, <1>2
  <2>2. QED
    BY <1>3, <2>1
<1>6. QED
  BY <1>1, <1>2, <1>3, <1>4, <1>5

\* A data frame of the channel.
Data(f, ch) == f.type = "SESSION_DATA" /\ f.channel = ch

\* The next data frame extends what a wire carries; any other frame leaves it.
LEMMA CarriesAppended ==
    ASSUME NEW S, NEW w \in Seq(S), NEW f \in S, NEW v, v = Append(w, f),
           NEW ch, NEW first \in Nat, NEW last \in Nat, first <= last, Carries(w, ch, first, last),
           Data(f, ch) => f.at = last + 1
    PROVE  Carries(v, ch, first, IF Data(f, ch) THEN last + 1 ELSE last)
<1>1. /\ Len(w) \in Nat /\ Len(v) = Len(w) + 1
      /\ \A i \in 1..Len(w) : i \in 1..Len(v) /\ v[i] = w[i]
      /\ Len(w) + 1 \in 1..Len(v) /\ v[Len(w) + 1] = f
      /\ \A i \in 1..Len(v) : i \in 1..Len(w) \/ i = Len(w) + 1
  BY Appended
<1>2. /\ \A i \in 1..Len(w) : Data(w[i], ch) => w[i].at \in (first + 1)..last
      /\ \A n \in (first + 1)..last : \E i \in 1..Len(w) : Data(w[i], ch) /\ w[i].at = n
      /\ \A i, j \in 1..Len(w) : i < j /\ Data(w[i], ch) /\ Data(w[j], ch) => w[i].at < w[j].at
  BY DEF Carries, Data
<1>3. CASE Data(f, ch)
  <2>1. \A i \in 1..Len(v) : Data(v[i], ch) => v[i].at \in (first + 1)..(last + 1)
    BY <1>1, <1>2, <1>3
  <2>2. \A n \in (first + 1)..(last + 1) : \E i \in 1..Len(v) : Data(v[i], ch) /\ v[i].at = n
    <3> SUFFICES ASSUME NEW n \in (first + 1)..(last + 1)
                 PROVE  \E i \in 1..Len(v) : Data(v[i], ch) /\ v[i].at = n
      OBVIOUS
    <3>1. CASE n = last + 1
      BY <1>1, <1>3, <3>1
    <3>2. CASE n \in (first + 1)..last
      BY <1>1, <1>2, <3>2
    <3>3. QED
      BY <3>1, <3>2
  <2>3. \A i, j \in 1..Len(v) : i < j /\ Data(v[i], ch) /\ Data(v[j], ch) => v[i].at < v[j].at
    <3> SUFFICES ASSUME NEW i \in 1..Len(v), NEW j \in 1..Len(v), i < j, Data(v[i], ch), Data(v[j], ch)
                 PROVE  v[i].at < v[j].at
      OBVIOUS
    <3>1. i \in 1..Len(w)
      BY <1>1
    <3>2. CASE j \in 1..Len(w)
      BY <1>1, <1>2, <3>1, <3>2
    <3>3. CASE j = Len(w) + 1
      BY <1>1, <1>2, <1>3, <3>1, <3>3
    <3>4. QED
      BY <1>1, <3>2, <3>3
  <2>4. QED
    BY <1>3, <2>1, <2>2, <2>3 DEF Carries, Data
<1>4. CASE ~Data(f, ch)
  <2>1. \A i \in 1..Len(v) : Data(v[i], ch) => i \in 1..Len(w) /\ v[i] = w[i]
    BY <1>1, <1>4
  <2>2. QED
    BY <1>1, <1>2, <1>4, <2>1 DEF Carries, Data
<1>5. QED
  BY <1>3, <1>4

\* The first data frame on a wire has the position after those that were taken.
LEMMA CarriesShifted ==
    ASSUME NEW S, NEW w \in Seq(S), w # <<>>, NEW v, v = Tail(w),
           NEW ch, NEW first \in Nat, NEW last \in Nat, Carries(w, ch, first, last)
    PROVE  IF Data(Head(w), ch)
           THEN Head(w).at = first + 1 /\ first + 1 <= last /\ Carries(v, ch, first + 1, last)
           ELSE Carries(v, ch, first, last)
<1>1. /\ Len(w) \in Nat /\ Len(v) = Len(w) - 1 /\ Len(w) > 0
      /\ Head(w) = w[1] /\ 1 \in 1..Len(w)
      /\ \A i \in 1..Len(v) : i + 1 \in 1..Len(w) /\ v[i] = w[i + 1]
      /\ \A i \in 1..Len(w) : i = 1 \/ (i - 1 \in 1..Len(v) /\ v[i - 1] = w[i])
  BY Shifted
<1>2. /\ \A i \in 1..Len(w) : Data(w[i], ch) => w[i].at \in (first + 1)..last
      /\ \A n \in (first + 1)..last : \E i \in 1..Len(w) : Data(w[i], ch) /\ w[i].at = n
      /\ \A i, j \in 1..Len(w) : i < j /\ Data(w[i], ch) /\ Data(w[j], ch) => w[i].at < w[j].at
  BY DEF Carries, Data
<1>3. \A i, j \in 1..Len(v) : i < j /\ Data(v[i], ch) /\ Data(v[j], ch) => v[i].at < v[j].at
  <2> SUFFICES ASSUME NEW i \in 1..Len(v), NEW j \in 1..Len(v), i < j, Data(v[i], ch), Data(v[j], ch)
               PROVE  v[i].at < v[j].at
    OBVIOUS
  <2>1. i + 1 \in 1..Len(w) /\ j + 1 \in 1..Len(w) /\ i + 1 < j + 1
    BY <1>1
  <2>2. QED
    BY <1>1, <1>2, <2>1
<1>4. CASE Data(Head(w), ch)
  <2>1. w[1].at \in (first + 1)..last /\ Data(w[1], ch)
    BY <1>1, <1>2, <1>4
  <2>2. first + 1 \in (first + 1)..last
    BY <2>1
  <2>3. PICK k \in 1..Len(w) : Data(w[k], ch) /\ w[k].at = first + 1
    BY <1>2, <2>2
  <2>4. w[1].at = first + 1
    <3>1. k = 1 \/ 1 < k
      BY <1>1
    <3>2. 1 < k => w[1].at < first + 1
      BY <1>1, <1>2, <2>1, <2>3
    <3>3. QED
      BY <2>1, <2>3, <3>1, <3>2
  <2>5. \A i \in 1..Len(v) : Data(v[i], ch) => v[i].at \in (first + 2)..last
    <3> SUFFICES ASSUME NEW i \in 1..Len(v), Data(v[i], ch)
                 PROVE  v[i].at \in (first + 2)..last
      OBVIOUS
    <3>1. i + 1 \in 1..Len(w) /\ v[i] = w[i + 1] /\ 1 < i + 1
      BY <1>1
    <3>2. w[i + 1].at \in (first + 1)..last /\ w[1].at < w[i + 1].at
      BY <1>1, <1>2, <2>1, <3>1
    <3>3. QED
      BY <2>4, <3>1, <3>2
  <2>6. \A n \in (first + 2)..last : \E i \in 1..Len(v) : Data(v[i], ch) /\ v[i].at = n
    <3> SUFFICES ASSUME NEW n \in (first + 2)..last
                 PROVE  \E i \in 1..Len(v) : Data(v[i], ch) /\ v[i].at = n
      OBVIOUS
    <3>1. n \in (first + 1)..last /\ n # first + 1
      OBVIOUS
    <3>2. PICK i \in 1..Len(w) : Data(w[i], ch) /\ w[i].at = n
      BY <1>2, <3>1
    <3>3. i # 1
      BY <2>4, <3>1, <3>2
    <3>4. QED
      BY <1>1, <3>2, <3>3
  <2>7. (first + 1) + 1 = first + 2
    OBVIOUS
  <2>8. Carries(v, ch, first + 1, last)
    BY <1>3, <2>5, <2>6, <2>7 DEF Carries, Data
  <2>9. QED
    BY <1>1, <1>4, <2>1, <2>4, <2>8
<1>5. CASE ~Data(Head(w), ch)
  <2>1. \A i \in 1..Len(v) : Data(v[i], ch) => v[i].at \in (first + 1)..last
    BY <1>1, <1>2
  <2>2. \A n \in (first + 1)..last : \E i \in 1..Len(v) : Data(v[i], ch) /\ v[i].at = n
    <3> SUFFICES ASSUME NEW n \in (first + 1)..last
                 PROVE  \E i \in 1..Len(v) : Data(v[i], ch) /\ v[i].at = n
      OBVIOUS
    <3>1. PICK i \in 1..Len(w) : Data(w[i], ch) /\ w[i].at = n
      BY <1>2
    <3>2. QED
      BY <1>1, <1>5, <3>1
  <2>3. QED
    BY <1>3, <1>5, <2>1, <2>2 DEF Carries, Data
<1>6. QED
  BY <1>4, <1>5

\* An empty wire carries nothing.
LEMMA CarriesNothing ==
    ASSUME NEW ch, NEW n \in Nat
    PROVE  Carries(<<>>, ch, n, n)
BY DEF Carries

\* The positions of a wire are as many as it is long.
LEMMA IntervalCounted ==
    ASSUME NEW n \in Nat
    PROVE  IsFiniteSet(1..n) /\ Cardinality(1..n) = n
<1>1. IsFiniteSet(1..n) /\ Cardinality(1..n) = IF 1 > n THEN 0 ELSE n - 1 + 1
  BY FS_Interval
<1>2. QED
  BY <1>1

\* The frames of a channel on a wire, one more and one less.
LEMMA CountAppended ==
    ASSUME NEW S, NEW w \in Seq(S), NEW f \in S, NEW v, v = Append(w, f), NEW ch
    PROVE  /\ Waiting(w, ch) \in Nat /\ Waiting(v, ch) \in Nat /\ Waiting(w, ch) <= Len(w)
           /\ Waiting(v, ch) <= Waiting(w, ch) + 1
           /\ f.channel # ch => Waiting(v, ch) <= Waiting(w, ch)
<1> DEFINE W == {i \in 1..Len(w) : w[i].channel = ch}
           V == {i \in 1..Len(v) : v[i].channel = ch}
<1>1. /\ Len(w) \in Nat /\ Len(v) = Len(w) + 1
      /\ \A i \in 1..Len(w) : i \in 1..Len(v) /\ v[i] = w[i]
      /\ Len(w) + 1 \in 1..Len(v) /\ v[Len(w) + 1] = f
      /\ \A i \in 1..Len(v) : i \in 1..Len(w) \/ i = Len(w) + 1
  BY Appended
<1>2. IsFiniteSet(1..Len(w)) /\ Cardinality(1..Len(w)) = Len(w)
  BY <1>1, IntervalCounted
<1>3. IsFiniteSet(W) /\ Cardinality(W) <= Len(w) /\ Cardinality(W) \in Nat
  BY <1>2, FS_Subset, FS_CardinalityType
<1> Waiting(w, ch) = Cardinality(W) /\ Waiting(v, ch) = Cardinality(V)
  BY DEF Waiting
<1>4. CASE f.channel = ch
  <2>1. V = W \cup {Len(w) + 1} /\ Len(w) + 1 \notin W
    BY <1>1, <1>4
  <2>2. Cardinality(V) = Cardinality(W) + 1
    BY <1>3, <2>1, FS_AddElement
  <2> HIDE DEF V, W
  <2>3. QED
    BY <1>3, <1>4, <2>2
<1>5. CASE f.channel # ch
  <2>1. V = W
    BY <1>1, <1>5
  <2> HIDE DEF V, W
  <2>2. QED
    BY <1>1, <1>3, <2>1
<1>6. QED
  BY <1>4, <1>5

\* Taking a frame from a wire adds none.
LEMMA CountShifted ==
    ASSUME NEW S, NEW w \in Seq(S), w # <<>>, NEW v, v = Tail(w), NEW ch
    PROVE  /\ Waiting(w, ch) \in Nat /\ Waiting(v, ch) \in Nat /\ Waiting(v, ch) <= Waiting(w, ch)
<1> DEFINE W == {i \in 1..Len(w) : w[i].channel = ch}
           V == {i \in 1..Len(v) : v[i].channel = ch}
           next == [i \in V |-> i + 1]
<1>1. /\ Len(w) \in Nat /\ Len(v) = Len(w) - 1 /\ Len(w) > 0
      /\ \A i \in 1..Len(v) : i + 1 \in 1..Len(w) /\ v[i] = w[i + 1]
  BY Shifted
<1>2. IsFiniteSet(1..Len(w)) /\ IsFiniteSet(1..Len(v))
  BY <1>1, IntervalCounted
<1>3. IsFiniteSet(W) /\ IsFiniteSet(V) /\ Cardinality(W) \in Nat /\ Cardinality(V) \in Nat
  BY <1>2, FS_Subset, FS_CardinalityType
<1>4. next \in Injection(V, W)
  <2>1. next \in [V -> W]
    BY <1>1
  <2>2. \A a, b \in V : next[a] = next[b] => a = b
    BY <1>1
  <2>3. QED
    BY <2>1, <2>2 DEF Injection, IsInjective
<1>5. Cardinality(V) <= Cardinality(W)
  <2> HIDE DEF V, W, next
  <2>1. QED
    BY <1>3, <1>4, FS_Injection
<1>6. QED
  BY <1>3, <1>5 DEF Waiting

\* The channel's frames on a wire are no more than all of them.
LEMMA CountBounded ==
    ASSUME NEW S, NEW w \in Seq(S), NEW ch
    PROVE  Waiting(w, ch) \in Nat /\ Waiting(w, ch) <= Len(w)
<1>1. Len(w) \in Nat
  BY EmptyWire
<1>2. IsFiniteSet(1..Len(w)) /\ Cardinality(1..Len(w)) = Len(w)
  BY <1>1, IntervalCounted
<1>3. QED
  BY <1>2, FS_Subset, FS_CardinalityType DEF Waiting

-----------------------------------------------------------------------------
(* Steps that leave a part alone.                                          *)

\* What is on the wires.
LEMMA FramesTyped ==
    ASSUME TypeOK
    PROVE  /\ Len(up) \in Nat /\ Len(down) \in Nat
           /\ \A i \in 1..Len(up) :
                  up[i] \in DataFrames /\ up[i].channel \in Channels /\ up[i].type = "SESSION_DATA"
           /\ \A i \in 1..Len(down) : down[i] \in ServerFrames
           /\ handler \in {"handle", "error"} =>
                  pending \in DataFrames /\ pending.channel \in Channels /\ pending.type = "SESSION_DATA"
           /\ handler \notin {"handle", "error"} => pending = NoFrame /\ pending.channel \notin Channels
<1>1. Len(up) \in Nat /\ Len(down) \in Nat
  BY EmptyWire DEF TypeOK
<1>2. \A i \in 1..Len(up) : up[i] \in DataFrames
  BY ElementOfSeq DEF TypeOK
<1>3. \A i \in 1..Len(down) : down[i] \in ServerFrames
  BY ElementOfSeq DEF TypeOK
<1>4. \A f \in DataFrames : f.channel \in Channels /\ f.type = "SESSION_DATA"
  BY DEF DataFrames
<1>5. handler \in {"handle", "error"} => pending \in DataFrames
  BY DEF TypeOK
<1>6. handler \notin {"handle", "error"} => pending = NoFrame
  BY DEF TypeOK
<1>7. NoFrame.channel \notin Channels
  BY ChannelsAssumption DEF NoFrame, Frame, NoChannel
<1>8. QED
  BY <1>1, <1>2, <1>3, <1>4, <1>5, <1>6, <1>7

\* Nothing happens to what is on its way to the agent.
LEMMA TurnStays ==
    ASSUME FramesInTurn, Dispatching' => Dispatching, UNCHANGED <<down, connecting, channels>>,
           \A c \in Channels :
               /\ stream'[c] = "none" => stream[c] = "none"
               /\ forward[c] = "none" => forward'[c] = "none"
               /\ closeTask[c] \in {"drain", "done"} => closeTask'[c] \in {"drain", "done"}
    PROVE  FramesInTurn'
BY DEF FramesInTurn, Reached, InFlight

\* And the server has opened and closed nothing.
LEMMA MissingStays ==
    ASSUME NothingMissing, Dispatching' => Dispatching, Dead => Dead',
           UNCHANGED <<down, connecting, channels>>,
           \A c \in Channels :
               /\ stream'[c] # "none" => stream[c] # "none"
               /\ closeTask'[c] \in {"none", "ready"} => closeTask[c] \in {"none", "ready"}
               /\ closeTask'[c] \in {"drain", "done"} => closeTask[c] \in {"drain", "done"}
    PROVE  NothingMissing'
BY DEF NothingMissing, Reached, InFlight

\* Nothing is sent to the server.
LEMMA KnownStays ==
    ASSUME TypeOK, KnownChannels, Dispatching' => Dispatching, UNCHANGED up, channels' \subseteq channels,
           handler' = "handle" => handler = "handle" /\ pending' = pending,
           \A c \in Channels :
               /\ stream[c] # "none" => stream'[c] # "none"
               /\ forward'[c] = "none" <=> forward[c] = "none"
               /\ local'[c] # local[c] => forward[c] # "none"
               /\ local'[c] = "open" => local[c] = "open"
               /\ Dispatching' /\ local'[c] = "open" /\ c \in channels => c \in channels'
    PROVE  KnownChannels'
<1>1. /\ \A i \in 1..Len(up) : up[i].channel \in Channels
      /\ handler = "handle" => pending.channel \in Channels
  BY FramesTyped
<1>2. QED
  BY <1>1 DEF KnownChannels

\* Nothing is sent to the server or read there.
LEMMA UpStays ==
    ASSUME UpInOrder, UNCHANGED <<got, up, produced>>, Dead => Dead',
           handler' \in {"read", "handle"} => handler \in {"read", "handle"} /\ pending' = pending
    PROVE  UpInOrder'
<1> SUFFICES ASSUME handler' \in {"read", "handle"}, NEW ch \in Channels
             PROVE  /\ pending'.channel = ch => pending'.at = Len(got'[ch]) + 1
                    /\ \E last \in Taken(ch)'..produced'[ch] :
                          Carries(up', ch, Taken(ch)', last) /\ (~Dead' => last = produced'[ch])
  BY DEF UpInOrder
<1>1. Taken(ch)' = Taken(ch)
  BY DEF Taken
<1>2. PICK last \in Taken(ch)..produced[ch] :
              Carries(up, ch, Taken(ch), last) /\ (~Dead => last = produced[ch])
  BY DEF UpInOrder
<1>3. QED
  BY <1>1, <1>2 DEF UpInOrder

\* Nothing is sent to the agent or read there, and no write task is created.
LEMMA DownStays ==
    ASSUME DownInOrder, UNCHANGED <<down, delivered, written, queued>>, Dead => Dead',
           Dispatching' => Dispatching,
           \A c \in Channels : /\ Routed(c)' => Routed(c)
                               /\ transport'[c] # "closing" => transport[c] # "closing"
    PROVE  DownInOrder'
BY DEF DownInOrder

\* No frame waits longer for the server than before.
LEMMA BackpressureStays ==
    ASSUME TypeOK, AgentBackpressure, UNCHANGED up,
           \A c \in Channels : forward'[c] = "reading" => forward[c] = "reading"
    PROVE  AgentBackpressure'
<1>1. \A c \in Channels : Waiting(up, c)' = Waiting(up, c)
  BY DEF Waiting
<1>2. \A c \in Channels : Waiting(up, c) \in Nat
  BY CountBounded DEF TypeOK
<1>3. ASSUME NEW c \in Channels
      PROVE  Waiting(up, c) <= HighWater + (IF forward'[c] = "reading" THEN 0 ELSE 1)
  BY <1>2, BoundsAssumption DEF AgentBackpressure
<1>4. QED
  BY <1>1, <1>3 DEF AgentBackpressure

\* The bytes that have arrived stay, and no count of those sent goes back.
LEMMA BytesStay ==
    ASSUME BytesInOrder, UNCHANGED <<got, delivered>>,
           \A c \in Channels : /\ Len(got[c]) <= produced[c] => Len(got[c]) <= produced'[c]
                               /\ Len(delivered[c]) <= written[c] => Len(delivered[c]) <= written'[c]
    PROVE  BytesInOrder'
BY DEF BytesInOrder, InOrder

-----------------------------------------------------------------------------
(* Frames to the agent.                                                    *)

\* A frame goes out to the agent, unless nobody can reach it.
LEMMA SentDown ==
    ASSUME TypeOK, NEW f \in ServerFrames, SendDown(f)
    PROVE  /\ down' \in Seq(ServerFrames)
           /\ \A i \in 1..Len(down) : i \in 1..Len(down') /\ down'[i] = down[i]
           /\ \A i \in 1..Len(down') : \/ i \in 1..Len(down) /\ down'[i] = down[i]
                                       \/ ~Dead /\ i = Len(down) + 1 /\ down'[i] = f
           /\ ~Dead => Len(down) + 1 \in 1..Len(down') /\ down'[Len(down) + 1] = f
<1>1. CASE Dead
  BY <1>1 DEF SendDown, TypeOK
<1>2. CASE ~Dead
  <2>1. down' = Append(down, f) /\ down \in Seq(ServerFrames)
    BY <1>2 DEF SendDown, TypeOK
  <2>2. QED
    BY <1>2, <2>1, Appended
<1>3. QED
  BY <1>1, <1>2

\* What is in flight then.
LEMMA SentInFlight ==
    ASSUME TypeOK, NEW f \in ServerFrames, SendDown(f), NEW type, NEW c
    PROVE  InFlight(type, c)' <=> InFlight(type, c) \/ (~Dead /\ f.type = type /\ f.channel = c)
BY SentDown DEF InFlight

\* A frame in its turn: OPEN_SESSION for a new channel, data for one that is reached, and
\* nothing after CLOSE_SESSION.
LEMMA TurnSent ==
    ASSUME TypeOK, FramesInTurn, NEW f \in ServerFrames, SendDown(f),
           UNCHANGED <<agent, connecting, channels, forward>>,
           \A c \in Channels :
               /\ stream'[c] = "none" => stream[c] = "none" /\ f.channel # c
               /\ closeTask[c] \in {"drain", "done"} => closeTask'[c] \in {"drain", "done"}
               /\ Dispatching /\ ~Dead /\ f.channel = c =>
                    /\ ~InFlight("CLOSE_SESSION", c)
                    /\ f.type = "OPEN_SESSION" => stream[c] = "none" /\ forward[c] = "none"
                    /\ f.type = "SESSION_DATA" => Reached(c)
                    /\ f.type = "CLOSE_SESSION" => closeTask'[c] \in {"drain", "done"}
    PROVE  FramesInTurn'
<1> SUFFICES ASSUME Dispatching, NEW c \in Channels
             PROVE  ( /\ stream[c] = "none" => ~Reached(c) /\ \A i \in 1..Len(down) : down[i].channel # c
                      /\ connecting = c \/ InFlight("OPEN_SESSION", c) => c \notin channels /\ forward[c] = "none"
                      /\ connecting = c => ~InFlight("OPEN_SESSION", c)
                      /\ InFlight("SESSION_DATA", c) => Reached(c)
                      /\ InFlight("CLOSE_SESSION", c) => closeTask[c] \in {"drain", "done"}
                      /\ \A i, j \in 1..Len(down) : down[i].channel = c /\ down[j].channel = c /\ i < j =>
                             down[i].type # "CLOSE_SESSION" /\ down[j].type # "OPEN_SESSION" )'
  BY DEF FramesInTurn, Dispatching
<1>1. \A type : InFlight(type, c)' <=> InFlight(type, c) \/ (~Dead /\ f.type = type /\ f.channel = c)
  BY SentInFlight
<1>2. Reached(c)' <=> Reached(c) \/ (~Dead /\ f.type = "OPEN_SESSION" /\ f.channel = c)
  BY <1>1 DEF Reached
<1>3. /\ stream[c] = "none" => ~Reached(c) /\ \A i \in 1..Len(down) : down[i].channel # c
      /\ connecting = c \/ InFlight("OPEN_SESSION", c) => c \notin channels /\ forward[c] = "none"
      /\ connecting = c => ~InFlight("OPEN_SESSION", c)
      /\ InFlight("SESSION_DATA", c) => Reached(c)
      /\ InFlight("CLOSE_SESSION", c) => closeTask[c] \in {"drain", "done"}
      /\ \A i, j \in 1..Len(down) : down[i].channel = c /\ down[j].channel = c /\ i < j =>
             down[i].type # "CLOSE_SESSION" /\ down[j].type # "OPEN_SESSION"
  BY DEF FramesInTurn
<1>4. stream'[c] = "none" => ~Reached(c)' /\ \A i \in 1..Len(down') : down'[i].channel # c
  BY <1>2, <1>3, SentDown
<1>5. /\ connecting' = c \/ InFlight("OPEN_SESSION", c)' => c \notin channels' /\ forward'[c] = "none"
      /\ connecting' = c => ~InFlight("OPEN_SESSION", c)'
  BY <1>1, <1>3 DEF Reached
<1>6. /\ InFlight("SESSION_DATA", c)' => Reached(c)'
      /\ InFlight("CLOSE_SESSION", c)' => closeTask'[c] \in {"drain", "done"}
  BY <1>1, <1>2, <1>3
<1>7. ASSUME NEW i \in 1..Len(down'), NEW j \in 1..Len(down'),
             down'[i].channel = c, down'[j].channel = c, i < j
      PROVE  down'[i].type # "CLOSE_SESSION" /\ down'[j].type # "OPEN_SESSION"
  <2>1. Len(down) \in Nat
    BY FramesTyped
  <2>2. i \in 1..Len(down) /\ down'[i] = down[i]
    BY <1>7, <2>1, SentDown
  <2>3. CASE j \in 1..Len(down) /\ down'[j] = down[j]
    BY <1>3, <1>7, <2>2, <2>3
  <2>4. CASE ~Dead /\ down'[j] = f
    <3>1. ~InFlight("CLOSE_SESSION", c) /\ (f.type = "OPEN_SESSION" => stream[c] = "none")
      BY <1>7, <2>4
    <3>2. down[i].type # "CLOSE_SESSION" /\ stream[c] # "none"
      BY <1>3, <1>7, <2>2, <3>1 DEF InFlight
    <3>3. QED
      BY <2>2, <2>4, <3>1, <3>2
  <2>5. QED
    BY <2>3, <2>4, SentDown
<1>8. QED
  BY <1>4, <1>5, <1>6, <1>7

\* What goes out is what the server's bookkeeping says: OPEN_SESSION with the channel,
\* CLOSE_SESSION with the close task.
LEMMA MissingSent ==
    ASSUME TypeOK, NothingMissing, NEW f \in ServerFrames, SendDown(f), Dead => Dead',
           UNCHANGED <<agent, connecting, channels>>,
           \A c \in Channels : ~Dead =>
               /\ stream'[c] # "none" /\ closeTask'[c] \in {"none", "ready"} =>
                    \/ stream[c] # "none" /\ closeTask[c] \in {"none", "ready"}
                    \/ f.type = "OPEN_SESSION" /\ f.channel = c
               /\ closeTask'[c] \in {"drain", "done"} =>
                    \/ closeTask[c] \in {"drain", "done"}
                    \/ f.type = "CLOSE_SESSION" /\ f.channel = c
               /\ f.type = "OPEN_SESSION" /\ f.channel = c => closeTask'[c] = "none"
    PROVE  NothingMissing'
<1> SUFFICES ASSUME Dispatching, ~Dead, NEW c \in Channels
             PROVE  /\ stream'[c] # "none" /\ closeTask'[c] \in {"none", "ready"} => Reached(c)'
                    /\ closeTask'[c] \in {"drain", "done"} /\ Reached(c)' => InFlight("CLOSE_SESSION", c)'
  BY DEF NothingMissing, Dispatching
<1>1. \A type : InFlight(type, c)' <=> InFlight(type, c) \/ (f.type = type /\ f.channel = c)
  BY SentInFlight
<1>2. Reached(c)' <=> Reached(c) \/ (f.type = "OPEN_SESSION" /\ f.channel = c)
  BY <1>1 DEF Reached
<1>3. QED
  BY <1>1, <1>2 DEF NothingMissing

\* A frame that is no data does not disturb the bytes.
LEMMA DownSent ==
    ASSUME TypeOK, DownInOrder, NEW f \in ServerFrames, f.type # "SESSION_DATA", SendDown(f),
           UNCHANGED <<delivered, written, queued, agent, transport>>, Dead => Dead',
           \A c \in Channels : Routed(c)' /\ stream[c] # "none" => Routed(c),
           \A c \in Channels : stream[c] = "none" => written[c] = 0 /\ queued[c] = <<>>
    PROVE  DownInOrder'
<1> SUFFICES ASSUME NEW c \in Channels, Dispatching
             PROVE  \E last \in Len(delivered[c])..written[c] :
                      /\ Carries(down', c, Len(delivered[c]), last)
                      /\ ~Dead' /\ Routed(c)' /\ (transport[c] # "closing" \/ queued[c] # <<>>) =>
                             last = written[c] - Len(queued[c])
  BY DEF DownInOrder, Dispatching
<1>1. PICK last \in Len(delivered[c])..written[c] :
        /\ Carries(down, c, Len(delivered[c]), last)
        /\ ~Dead /\ Routed(c) /\ (transport[c] # "closing" \/ queued[c] # <<>>) =>
               last = written[c] - Len(queued[c])
  BY DEF DownInOrder
<1>2. Len(delivered[c]) \in Nat /\ written[c] \in Nat /\ last \in Nat /\ Len(delivered[c]) <= last
  BY <1>1, EmptyWire DEF TypeOK
<1>3. Carries(down', c, Len(delivered[c]), last)
  <2>1. CASE Dead
    BY <1>1, <2>1 DEF SendDown
  <2>2. CASE ~Dead
    <3>1. down' = Append(down, f) /\ down \in Seq(ServerFrames) /\ ~Data(f, c)
      BY <2>2 DEF SendDown, TypeOK, Data
    <3>2. QED
      BY <1>1, <1>2, <3>1, CarriesAppended
  <2>3. QED
    BY <2>1, <2>2
<1>4. stream[c] = "none" => last = 0 /\ written[c] - Len(queued[c]) = 0
  BY <1>2
<1>5. QED
  BY <1>1, <1>3, <1>4

-----------------------------------------------------------------------------
(* Frames read by the agent.                                               *)

\* What is in flight when the agent has read a frame.
LEMMA ReadInFlight ==
    ASSUME TypeOK, down # <<>>, down' = Tail(down), NEW type, NEW c
    PROVE  InFlight(type, c) <=> InFlight(type, c)' \/ (Head(down).type = type /\ Head(down).channel = c)
<1>1. /\ Head(down) = down[1] /\ 1 \in 1..Len(down)
      /\ \A i \in 1..Len(down') : i + 1 \in 1..Len(down) /\ down'[i] = down[i + 1]
      /\ \A i \in 1..Len(down) : i = 1 \/ (i - 1 \in 1..Len(down') /\ down'[i - 1] = down[i])
  BY Shifted DEF TypeOK
<1>2. ASSUME InFlight(type, c)' PROVE InFlight(type, c)
  <2>1. PICK i \in 1..Len(down') : down'[i].type = type /\ down'[i].channel = c
    BY <1>2 DEF InFlight
  <2>2. QED
    BY <1>1, <2>1 DEF InFlight
<1>3. ASSUME Head(down).type = type, Head(down).channel = c PROVE InFlight(type, c)
  BY <1>1, <1>3 DEF InFlight
<1>4. ASSUME InFlight(type, c), ~(Head(down).type = type /\ Head(down).channel = c)
      PROVE  InFlight(type, c)'
  <2>1. PICK i \in 1..Len(down) : down[i].type = type /\ down[i].channel = c
    BY <1>4 DEF InFlight
  <2>2. i - 1 \in 1..Len(down') /\ down'[i - 1] = down[i]
    BY <1>1, <1>4, <2>1
  <2>3. QED
    BY <2>1, <2>2 DEF InFlight
<1>5. QED
  BY <1>2, <1>3, <1>4

\* The agent takes a frame in its turn.
LEMMA TurnRead ==
    ASSUME TypeOK, FramesInTurn, NothingMissing, agent = "read", down # <<>>, down' = Tail(down),
           UNCHANGED <<stream, closeTask, lost, handler>>,
           \A c \in Channels : forward[c] = "none" /\ c \notin channels => forward'[c] = "none",
           Dispatching' => LET f == Head(down) IN
               /\ IF f.type = "OPEN_SESSION"
                  THEN agent' = "connect" /\ connecting' = f.channel
                  ELSE agent' = "read" /\ connecting' = connecting
               /\ channels' = IF f.type = "CLOSE_SESSION" THEN channels \ {f.channel} ELSE channels
    PROVE  FramesInTurn' /\ NothingMissing'
<1> DEFINE f == Head(down)
<1> SUFFICES ASSUME Dispatching'
             PROVE  FramesInTurn' /\ NothingMissing'
  BY DEF FramesInTurn, NothingMissing
<1>1. Dispatching /\ \A c \in Channels : connecting # c
  BY ChannelsAssumption DEF Dispatching, TypeOK, NoChannel
<1>2. /\ f = down[1] /\ 1 \in 1..Len(down) /\ Len(down) \in Nat /\ Len(down') \in Nat
      /\ \A i \in 1..Len(down') : i + 1 \in 1..Len(down) /\ down'[i] = down[i + 1]
  <2>1. down \in Seq(ServerFrames)
    BY DEF TypeOK
  <2>2. down' \in Seq(ServerFrames)
    BY <2>1, Shifted
  <2>3. QED
    BY <2>1, <2>2, Shifted, EmptyWire
<1>3. ASSUME NEW c \in Channels
      PROVE  /\ stream'[c] = "none" => ~Reached(c)' /\ \A i \in 1..Len(down') : down'[i].channel # c
             /\ connecting' = c \/ InFlight("OPEN_SESSION", c)' => c \notin channels' /\ forward'[c] = "none"
             /\ connecting' = c => ~InFlight("OPEN_SESSION", c)'
             /\ InFlight("SESSION_DATA", c)' => Reached(c)'
             /\ InFlight("CLOSE_SESSION", c)' => closeTask'[c] \in {"drain", "done"}
             /\ \A i, j \in 1..Len(down') : down'[i].channel = c /\ down'[j].channel = c /\ i < j =>
                    down'[i].type # "CLOSE_SESSION" /\ down'[j].type # "OPEN_SESSION"
             /\ ~Dead => /\ stream'[c] # "none" /\ closeTask'[c] \in {"none", "ready"} => Reached(c)'
                         /\ closeTask'[c] \in {"drain", "done"} /\ Reached(c)' => InFlight("CLOSE_SESSION", c)'
  <2>1. \A type : InFlight(type, c) <=> InFlight(type, c)' \/ (f.type = type /\ f.channel = c)
    BY ReadInFlight
  <2>2. /\ stream[c] = "none" => ~Reached(c) /\ \A i \in 1..Len(down) : down[i].channel # c
        /\ InFlight("OPEN_SESSION", c) => c \notin channels /\ forward[c] = "none"
        /\ InFlight("SESSION_DATA", c) => Reached(c)
        /\ InFlight("CLOSE_SESSION", c) => closeTask[c] \in {"drain", "done"}
        /\ \A i, j \in 1..Len(down) : down[i].channel = c /\ down[j].channel = c /\ i < j =>
               down[i].type # "CLOSE_SESSION" /\ down[j].type # "OPEN_SESSION"
    BY <1>1 DEF FramesInTurn
  <2>3. ~Dead => /\ stream[c] # "none" /\ closeTask[c] \in {"none", "ready"} => Reached(c)
                 /\ closeTask[c] \in {"drain", "done"} /\ Reached(c) => InFlight("CLOSE_SESSION", c)
    BY <1>1 DEF NothingMissing
  <2>4. f.channel = c => /\ ~InFlight("OPEN_SESSION", c)'
                         /\ f.type = "CLOSE_SESSION" => \A i \in 1..Len(down') : down'[i].channel # c
    <3> SUFFICES ASSUME f.channel = c, NEW i \in 1..Len(down'), down'[i].channel = c
                 PROVE  down'[i].type # "OPEN_SESSION" /\ f.type # "CLOSE_SESSION"
      BY DEF InFlight
    <3>1. i + 1 \in 1..Len(down) /\ down'[i] = down[i + 1] /\ 1 < i + 1
      BY <1>2
    <3>2. QED
      BY <1>2, <2>2, <3>1
  <2>5. f.type = "CLOSE_SESSION" /\ f.channel = c => \A type : ~InFlight(type, c)'
    BY <2>4 DEF InFlight
  <2>6. Reached(c)' <=> Reached(c) /\ ~(f.type = "CLOSE_SESSION" /\ f.channel = c)
    <3>1. CASE f.type = "CLOSE_SESSION" /\ f.channel = c
      BY <1>1, <2>5, <3>1 DEF Reached
    <3>2. CASE f.type = "OPEN_SESSION" /\ f.channel = c
      BY <2>1, <3>2 DEF Reached
    <3>3. CASE f.type \notin {"CLOSE_SESSION", "OPEN_SESSION"} \/ f.channel # c
      <4>1. c \in channels' <=> c \in channels
        BY <3>3
      <4>2. connecting' # c
        BY <1>1, <3>3
      <4>3. QED
        BY <1>1, <2>1, <3>3, <4>1, <4>2 DEF Reached
    <3>4. QED
      BY <3>1, <3>2, <3>3
  <2>7. stream'[c] = "none" => ~Reached(c)' /\ \A i \in 1..Len(down') : down'[i].channel # c
    BY <1>2, <2>2, <2>6
  <2>8. connecting' = c \/ InFlight("OPEN_SESSION", c)' => InFlight("OPEN_SESSION", c)
    BY <1>1, <2>1
  <2>9. connecting' = c \/ InFlight("OPEN_SESSION", c)' => c \notin channels' /\ forward'[c] = "none"
    BY <2>2, <2>8
  <2>10. connecting' = c => ~InFlight("OPEN_SESSION", c)'
    BY <1>1, <2>4
  <2>11. /\ InFlight("SESSION_DATA", c)' => Reached(c)'
         /\ InFlight("CLOSE_SESSION", c)' => closeTask'[c] \in {"drain", "done"}
    BY <2>1, <2>2, <2>5, <2>6
  <2>12. ASSUME NEW i \in 1..Len(down'), NEW j \in 1..Len(down'),
                down'[i].channel = c, down'[j].channel = c, i < j
         PROVE  down'[i].type # "CLOSE_SESSION" /\ down'[j].type # "OPEN_SESSION"
    <3>1. i + 1 \in 1..Len(down) /\ j + 1 \in 1..Len(down) /\ i + 1 < j + 1
      BY <1>2, <2>12
    <3>2. QED
      BY <1>2, <2>2, <2>12, <3>1
  <2>13. ~Dead => /\ stream'[c] # "none" /\ closeTask'[c] \in {"none", "ready"} => Reached(c)'
                  /\ closeTask'[c] \in {"drain", "done"} /\ Reached(c)' => InFlight("CLOSE_SESSION", c)'
    BY <2>1, <2>2, <2>3, <2>6
  <2>14. QED
    BY <2>7, <2>9, <2>10, <2>11, <2>12, <2>13
<1>4. Dead => Dead'
  BY <1>1 DEF Dead, Dispatching
<1>5. FramesInTurn'
  BY <1>3 DEF FramesInTurn
<1>6. NothingMissing'
  BY <1>3, <1>4 DEF NothingMissing
<1>7. QED
  BY <1>5, <1>6

\* The bytes on the way to the node when the agent has read a frame: data is delivered, or
\* the agent ends.
LEMMA DownRead ==
    ASSUME TypeOK, DownInOrder, Dispatching, down # <<>>, down' = Tail(down),
           UNCHANGED <<written, queued, open, transport, lost, handler>>, Dead => Dead',
           delivered' \in [Channels -> Seq(Nat)],
           Dispatching' => \A c \in Channels :
               IF Data(Head(down), c) THEN delivered'[c] = Append(delivered[c], Head(down).at)
               ELSE delivered'[c] = delivered[c]
    PROVE  DownInOrder'
<1> SUFFICES ASSUME NEW c \in Channels, Dispatching'
             PROVE  \E last \in Len(delivered'[c])..written[c] :
                      /\ Carries(down', c, Len(delivered'[c]), last)
                      /\ ~Dead' /\ Routed(c)' /\ (transport[c] # "closing" \/ queued[c] # <<>>) =>
                             last = written[c] - Len(queued[c])
  <2>1. \A c \in Channels : /\ Len(queued'[c]) <= written'[c]
                            /\ \A i \in 1..Len(queued'[c]) : queued'[c][i] = (written'[c] - Len(queued'[c])) + i
    BY DEF DownInOrder
  <2>2. QED
    BY <2>1 DEF DownInOrder, Carries
<1>1. PICK last \in Len(delivered[c])..written[c] :
        /\ Carries(down, c, Len(delivered[c]), last)
        /\ ~Dead /\ Routed(c) /\ (transport[c] # "closing" \/ queued[c] # <<>>) =>
               last = written[c] - Len(queued[c])
  BY DEF DownInOrder
<1>2. /\ Len(delivered[c]) \in Nat /\ written[c] \in Nat /\ last \in Nat /\ Len(delivered[c]) <= last
      /\ delivered[c] \in Seq(Nat) /\ down \in Seq(ServerFrames)
  BY <1>1, EmptyWire DEF TypeOK
<1>3. Routed(c)' <=> Routed(c)
  BY DEF Routed
<1>4. CASE Data(Head(down), c)
  <2>1. /\ Head(down).at = Len(delivered[c]) + 1 /\ Len(delivered[c]) + 1 <= last
        /\ Carries(down', c, Len(delivered[c]) + 1, last)
    BY <1>1, <1>2, <1>4, CarriesShifted
  <2>2. Len(delivered'[c]) = Len(delivered[c]) + 1
    <3>1. delivered'[c] = Append(delivered[c], Head(down).at) /\ Head(down).at \in Nat
      BY <1>2, <1>4, <2>1
    <3>2. QED
      BY <1>2, <3>1, AppendProperties
  <2>3. QED
    BY <1>1, <1>2, <1>3, <2>1, <2>2
<1>5. CASE ~Data(Head(down), c)
  <2>1. Carries(down', c, Len(delivered[c]), last)
    BY <1>1, <1>2, <1>5, CarriesShifted
  <2>2. QED
    BY <1>1, <1>3, <1>5, <2>1
<1>6. QED
  BY <1>4, <1>5

\* The next position goes to the end.
LEMMA InOrderAppended ==
    ASSUME NEW s \in Seq(Nat), InOrder(s)
    PROVE  InOrder(Append(s, Len(s) + 1))
<1> DEFINE t == Append(s, Len(s) + 1)
<1>1. Len(s) \in Nat /\ Len(s) + 1 \in Nat
  BY EmptyWire
<1>2. /\ t \in Seq(Nat) /\ Len(t) = Len(s) + 1 /\ t[Len(s) + 1] = Len(s) + 1
      /\ \A i \in 1..Len(s) : t[i] = s[i]
      /\ \A i \in 1..Len(t) : i \in 1..Len(s) \/ i = Len(s) + 1
  BY <1>1, Appended
<1>3. \A i \in 1..Len(t) : t[i] = i
  BY <1>1, <1>2 DEF InOrder
<1>4. t \in [1..Len(t) -> Nat]
  BY <1>2, LenProperties
<1>5. t = [i \in 1..Len(t) |-> i]
  BY <1>3, <1>4
<1>6. QED
  BY <1>5 DEF InOrder

\* The frames that the handlers build.
LEMMA FrameTyped ==
    ASSUME NEW c \in Channels, NEW n \in Nat
    PROVE  /\ \A type \in {"OPEN_SESSION", "SESSION_DATA", "CLOSE_SESSION"} :
                  /\ Frame(type, c, n) \in ServerFrames /\ Frame(type, c, n).type = type
                  /\ Frame(type, c, n).channel = c /\ Frame(type, c, n).at = n
           /\ Frame("SESSION_DATA", c, n) \in DataFrames
BY DEF Frame, ServerFrames, DataFrames

\* And the one that ends a tunnel.
LEMMA ErrorTyped ==
    /\ Frame("ERROR", NoChannel, 0) \in ServerFrames /\ Frame("ERROR", NoChannel, 0).type = "ERROR"
    /\ \A c \in Channels : Frame("ERROR", NoChannel, 0).channel # c
BY ChannelsAssumption DEF Frame, ServerFrames, NoChannel

\* A transport closes and drops its write tasks: what is on the wire stays in order.
LEMMA ClosedDown ==
    ASSUME TypeOK, DownInOrder, UNCHANGED <<down, delivered, written, agent, lost, handler, open>>,
           NEW ch \in Channels,
           \A c \in Channels : /\ queued'[c] = IF c = ch THEN <<>> ELSE queued[c]
                               /\ transport'[c] = IF c = ch THEN "closing" ELSE transport[c]
    PROVE  DownInOrder'
<1>1. ASSUME NEW c \in Channels
      PROVE  /\ Len(queued'[c]) <= written'[c]
             /\ \A i \in 1..Len(queued'[c]) : queued'[c][i] = (written'[c] - Len(queued'[c])) + i
  <2>1. written[c] \in Nat
    BY DEF TypeOK
  <2>2. CASE c = ch
    BY <2>1, <2>2
  <2>3. CASE c # ch
    BY <2>3 DEF DownInOrder
  <2>4. QED
    BY <2>2, <2>3
<1>2. ASSUME NEW c \in Channels, Dispatching
      PROVE  \E last \in Len(delivered[c])..written[c] :
               /\ Carries(down, c, Len(delivered[c]), last)
               /\ ~Dead /\ Routed(c) /\ (transport'[c] # "closing" \/ queued'[c] # <<>>) =>
                      last = written[c] - Len(queued'[c])
  <2>1. PICK last \in Len(delivered[c])..written[c] :
          /\ Carries(down, c, Len(delivered[c]), last)
          /\ ~Dead /\ Routed(c) /\ (transport[c] # "closing" \/ queued[c] # <<>>) =>
                 last = written[c] - Len(queued[c])
    BY <1>2 DEF DownInOrder
  <2>2. QED
    BY <2>1
<1>3. QED
  BY <1>1, <1>2 DEF DownInOrder, Carries, Dead, Routed, Dispatching

-----------------------------------------------------------------------------
(* The actions of the server.                                              *)

\* open_session: the channel is registered and OPEN_SESSION goes out.
LEMMA OpenSessionKeeps ==
    ASSUME TunnelInv, NEW ch \in Channels, OpenSession(ch)
    PROVE  TunnelInv'
<1>1. /\ stream[ch] = "none" /\ handler # "done"
      /\ open' = open \cup {ch} /\ stream' = [stream EXCEPT ![ch] = "live"]
      /\ SendDown(Frame("OPEN_SESSION", ch, 0))
      /\ UNCHANGED <<handler, pending, idle, retired, transport, queued, written, closeTask, got,
                      up, lost, agent, connecting, awaits, local, channels, forward, produced, delivered>>
  BY DEF OpenSession, agentVars
<1>2. \A c \in Channels : stream'[c] = IF c = ch THEN "live" ELSE stream[c]
  BY <1>1 DEF TunnelInv, TypeOK
<1>3. PICK f \in ServerFrames : f = Frame("OPEN_SESSION", ch, 0) /\ f.type = "OPEN_SESSION" /\ f.channel = ch
  BY FrameTyped
<1>4. /\ forward[ch] = "none" /\ closeTask[ch] = "none" /\ (Dispatching => ~InFlight("CLOSE_SESSION", ch))
  BY <1>1 DEF TunnelInv, SessionLife, KnownChannels, FramesInTurn
<1>5. TypeOK'
  <2>1. open' \subseteq Channels /\ stream' \in [Channels -> {"none", "live", "closed"}]
    BY <1>1 DEF TunnelInv, TypeOK
  <2>2. down' \in Seq(ServerFrames)
    BY <1>1, <1>3, SentDown DEF TunnelInv
  <2>3. QED
    BY <1>1, <2>2 DEF TunnelInv, TypeOK
<1>6. SessionLife'
  BY <1>1, <1>2 DEF TunnelInv, SessionLife
<1>7. FramesInTurn'
  <2>1. TypeOK /\ FramesInTurn
    BY DEF TunnelInv
  <2>2. \A c \in Channels : stream'[c] = "none" => stream[c] = "none" /\ f.channel # c
    BY <1>2, <1>3
  <2>3. QED
    BY <1>1, <1>3, <1>4, <2>1, <2>2, TurnSent
<1>8. NothingMissing'
  BY <1>1, <1>3, <1>4, MissingSent DEF TunnelInv, Dead
<1>9. KnownChannels'
  BY <1>1, KnownStays DEF TunnelInv, Dispatching
<1>10. DownInOrder'
  <2>1. \A c \in Channels : Routed(c)' /\ stream[c] # "none" => Routed(c)
    BY <1>1 DEF Routed
  <2>2. \A c \in Channels : stream[c] = "none" => written[c] = 0 /\ queued[c] = <<>>
    BY DEF TunnelInv, SessionLife
  <2>3. QED
    BY <1>1, <1>3, <2>1, <2>2, DownSent DEF TunnelInv, Dead
<1>11. UpInOrder' /\ BytesInOrder' /\ OnlyCrossingKills' /\ AgentBackpressure'
  BY <1>1, UpStays, BytesStay, BackpressureStays DEF TunnelInv, Dead, OnlyCrossingKills
<1>12. QED
  BY <1>5, <1>6, <1>7, <1>8, <1>9, <1>10, <1>11 DEF TunnelInv

\* AsyncSSH gets its transport.
LEMMA CreateConnectionKeeps ==
    ASSUME TunnelInv, NEW ch \in Channels, CreateConnection(ch)
    PROVE  TunnelInv'
<1>1. /\ stream[ch] # "none" /\ transport[ch] = "none"
      /\ transport' = [transport EXCEPT ![ch] = "open"]
      /\ UNCHANGED <<handler, pending, idle, open, retired, stream, queued, written, closeTask, got,
                      down, up, lost, agent, connecting, awaits, local, channels, forward, produced,
                      delivered>>
  BY DEF CreateConnection, agentVars
<1>2. TypeOK'
  BY <1>1 DEF TunnelInv, TypeOK
<1>3. SessionLife'
  BY <1>1 DEF TunnelInv, SessionLife
<1>4. DownInOrder'
  BY <1>1, DownStays DEF TunnelInv, Dead, Dispatching, Routed
<1>5. /\ FramesInTurn' /\ NothingMissing' /\ KnownChannels' /\ UpInOrder' /\ BytesInOrder'
      /\ OnlyCrossingKills' /\ AgentBackpressure'
  BY <1>1, TurnStays, MissingStays, KnownStays, UpStays, BytesStay, BackpressureStays
  DEF TunnelInv, Dispatching, Dead, OnlyCrossingKills
<1>6. QED
  BY <1>2, <1>3, <1>4, <1>5 DEF TunnelInv

\* transport.write: a write task for the next bytes.
LEMMA TransportWriteKeeps ==
    ASSUME TunnelInv, NEW ch \in Channels, TransportWrite(ch)
    PROVE  TunnelInv'
<1>1. /\ transport[ch] = "open" /\ written[ch] < MaxDown[ch]
      /\ written' = [written EXCEPT ![ch] = written[ch] + 1]
      /\ queued' = [queued EXCEPT ![ch] = Append(queued[ch], written[ch] + 1)]
      /\ UNCHANGED <<handler, pending, idle, open, retired, stream, transport, closeTask, got, down,
                      up, lost, agent, connecting, awaits, local, channels, forward, produced, delivered>>
  BY DEF TransportWrite, agentVars
<1>2. written[ch] \in Nat /\ queued[ch] \in Seq(Nat) /\ written[ch] + 1 \in Nat
  BY DEF TunnelInv, TypeOK
<1>3. /\ queued'[ch] \in Seq(Nat) /\ Len(queued'[ch]) = Len(queued[ch]) + 1 /\ Len(queued[ch]) \in Nat
      /\ \A i \in 1..Len(queued[ch]) : queued'[ch][i] = queued[ch][i]
      /\ queued'[ch][Len(queued[ch]) + 1] = written[ch] + 1
      /\ \A i \in 1..Len(queued'[ch]) : i \in 1..Len(queued[ch]) \/ i = Len(queued[ch]) + 1
      /\ written'[ch] = written[ch] + 1
  <2>1. queued'[ch] = Append(queued[ch], written[ch] + 1) /\ written'[ch] = written[ch] + 1
    BY <1>1 DEF TunnelInv, TypeOK
  <2>2. QED
    BY <1>2, <2>1
<1>4. \A c \in Channels \ {ch} : queued'[c] = queued[c] /\ written'[c] = written[c]
  BY <1>1
<1>5. TypeOK'
  <2>1. ASSUME NEW c \in Channels PROVE written'[c] <= MaxDown[c]
    <3>1. written[c] <= MaxDown[c] /\ MaxDown[ch] \in Nat
      BY BoundsAssumption DEF TunnelInv, TypeOK
    <3>2. CASE c = ch
      BY <1>1, <1>2, <3>1
    <3>3. CASE c # ch
      BY <1>4, <3>1, <3>3
    <3>4. QED
      BY <3>2, <3>3
  <2>2. written' \in [Channels -> Nat] /\ queued' \in [Channels -> Seq(Nat)]
    BY <1>1, <1>3 DEF TunnelInv, TypeOK
  <2>3. QED
    BY <1>1, <2>1, <2>2 DEF TunnelInv, TypeOK
<1>6. SessionLife'
  <2>1. transport[ch] # "none" /\ closeTask[ch] = "none"
    BY <1>1 DEF TunnelInv, SessionLife
  <2>2. QED
    BY <1>1 DEF TunnelInv, SessionLife
<1>7. DownInOrder'
  <2>1. ASSUME NEW c \in Channels
        PROVE  /\ Len(queued'[c]) <= written'[c]
               /\ \A i \in 1..Len(queued'[c]) : queued'[c][i] = (written'[c] - Len(queued'[c])) + i
    <3>1. /\ Len(queued[c]) <= written[c]
          /\ \A i \in 1..Len(queued[c]) : queued[c][i] = (written[c] - Len(queued[c])) + i
      BY DEF TunnelInv, DownInOrder
    <3>2. CASE c = ch
      <4> DEFINE q == Len(queued[ch])
                 r == Len(queued'[ch])
      <4>1. q \in Nat /\ r = q + 1 /\ written[ch] \in Nat /\ q <= written[ch] /\ written'[ch] = written[ch] + 1
        BY <1>2, <1>3, <3>1, <3>2
      <4>2. r <= written'[ch] /\ r \in Nat /\ written'[ch] \in Nat /\ written'[ch] - r = written[ch] - q
        <5> HIDE DEF q, r
        <5>1. QED
          BY <4>1
      <4>3. (written[ch] - Len(queued[ch])) + (Len(queued[ch]) + 1) = written[ch] + 1
        BY <1>2
      <4>4. QED
        BY <1>3, <3>1, <3>2, <4>2, <4>3
    <3>3. CASE c # ch
      BY <1>4, <3>1, <3>3
    <3>4. QED
      BY <3>2, <3>3
  <2>2. ASSUME NEW c \in Channels, Dispatching
        PROVE  \E last \in Len(delivered[c])..written'[c] :
                 /\ Carries(down, c, Len(delivered[c]), last)
                 /\ ~Dead /\ Routed(c) /\ (transport[c] # "closing" \/ queued'[c] # <<>>) =>
                        last = written'[c] - Len(queued'[c])
    <3>1. PICK last \in Len(delivered[c])..written[c] :
            /\ Carries(down, c, Len(delivered[c]), last)
            /\ ~Dead /\ Routed(c) /\ (transport[c] # "closing" \/ queued[c] # <<>>) =>
                   last = written[c] - Len(queued[c])
      BY <2>2 DEF TunnelInv, DownInOrder
    <3>2. CASE c = ch
      <4> DEFINE d == Len(delivered[c])
                 q == Len(queued[c])
      <4>1. /\ d \in Nat /\ written[c] \in Nat /\ q \in Nat
          /\ written'[c] = written[c] + 1 /\ Len(queued'[c]) = q + 1
        BY <1>3, <3>2 DEF TunnelInv, TypeOK
      <4>2. last \in d..written[c]
        OBVIOUS
      <4>3. last \in d..written'[c] /\ written'[c] - Len(queued'[c]) = written[c] - q
        <5> HIDE DEF d, q
        <5>1. QED
          BY <4>1, <4>2
      <4>4. transport[c] # "closing"
        BY <1>1, <3>2
      <4>5. QED
        BY <3>1, <4>3, <4>4
    <3>3. CASE c # ch
      BY <1>4, <3>1, <3>3
    <3>4. QED
      BY <3>2, <3>3
  <2>3. QED
    BY <1>1, <2>1, <2>2 DEF DownInOrder, Dead, Routed, Dispatching
<1>8. BytesInOrder'
  <2>1. \A c \in Channels : Len(delivered[c]) \in Nat /\ written[c] \in Nat
    BY DEF TunnelInv, TypeOK
  <2>2. QED
    BY <1>1, <2>1, BytesStay DEF TunnelInv
<1>9. /\ FramesInTurn' /\ NothingMissing' /\ KnownChannels' /\ UpInOrder' /\ OnlyCrossingKills'
      /\ AgentBackpressure'
  BY <1>1, TurnStays, MissingStays, KnownStays, UpStays, BackpressureStays DEF TunnelInv,
    Dispatching, Dead, OnlyCrossingKills
<1>10. QED
  BY <1>5, <1>6, <1>7, <1>8, <1>9 DEF TunnelInv

\* AsyncSSH closes its transport.
LEMMA SshClosesKeeps ==
    ASSUME TunnelInv, NEW ch \in Channels, SshCloses(ch)
    PROVE  TunnelInv'
<1>1. /\ transport[ch] = "open"
      /\ transport' = [transport EXCEPT ![ch] = "closing"]
      /\ closeTask' = [closeTask EXCEPT ![ch] = "ready"]
      /\ queued' = [queued EXCEPT ![ch] = <<>>]
      /\ UNCHANGED <<handler, pending, idle, open, retired, stream, written, got, down, up, lost,
                      agent, connecting, awaits, local, channels, forward, produced, delivered>>
  BY DEF SshCloses, TransportClose, agentVars
<1>2. closeTask[ch] = "none"
  BY <1>1 DEF TunnelInv, SessionLife
<1>3. \A c \in Channels : closeTask'[c] = IF c = ch THEN "ready" ELSE closeTask[c]
  BY <1>1 DEF TunnelInv, TypeOK
<1>4. \A c \in Channels : queued'[c] = IF c = ch THEN <<>> ELSE queued[c]
  BY <1>1 DEF TunnelInv, TypeOK
<1>5. \A c \in Channels : transport'[c] = IF c = ch THEN "closing" ELSE transport[c]
  BY <1>1 DEF TunnelInv, TypeOK
<1>6. TypeOK'
  <2>1. /\ transport' \in [Channels -> {"none", "open", "closing"}]
        /\ closeTask' \in [Channels -> {"none", "ready", "drain", "done"}]
        /\ queued' \in [Channels -> Seq(Nat)]
    BY <1>1 DEF TunnelInv, TypeOK
  <2>2. QED
    BY <1>1, <2>1 DEF TunnelInv, TypeOK
<1>7. SessionLife'
  BY <1>1, <1>4, <1>5 DEF TunnelInv, SessionLife
<1>8. FramesInTurn'
  BY <1>1, <1>2, TurnStays DEF TunnelInv, Dispatching
<1>9. NothingMissing'
  BY <1>1, <1>2, MissingStays DEF TunnelInv, Dispatching, Dead
<1>10. DownInOrder'
  BY <1>1, <1>4, <1>5, ClosedDown DEF TunnelInv
<1>11. KnownChannels' /\ UpInOrder' /\ BytesInOrder' /\ OnlyCrossingKills' /\ AgentBackpressure'
  BY <1>1, KnownStays, UpStays, BytesStay, BackpressureStays
  DEF TunnelInv, Dispatching, Dead, OnlyCrossingKills
<1>12. QED
  BY <1>6, <1>7, <1>8, <1>9, <1>10, <1>11 DEF TunnelInv

\* _read_loop meets the end of the stream.
LEMMA ReadLoopEndsKeeps ==
    ASSUME TunnelInv, NEW ch \in Channels, ReadLoopEnds(ch)
    PROVE  TunnelInv'
<1>1. /\ transport[ch] = "open" /\ stream[ch] = "closed"
      /\ transport' = [transport EXCEPT ![ch] = "closing"]
      /\ UNCHANGED <<handler, pending, idle, open, retired, stream, queued, written, closeTask, got,
                      down, up, lost, agent, connecting, awaits, local, channels, forward, produced,
                      delivered>>
  BY DEF ReadLoopEnds, agentVars
<1>2. \A c \in Channels : transport'[c] = IF c = ch THEN "closing" ELSE transport[c]
  BY <1>1 DEF TunnelInv, TypeOK
<1>3. TypeOK'
  BY <1>1 DEF TunnelInv, TypeOK
<1>4. SessionLife'
  BY <1>1 DEF TunnelInv, SessionLife
<1>5. DownInOrder'
  BY <1>1, DownStays DEF TunnelInv, Dead, Dispatching, Routed
<1>6. /\ FramesInTurn' /\ NothingMissing' /\ KnownChannels' /\ UpInOrder' /\ BytesInOrder'
      /\ OnlyCrossingKills' /\ AgentBackpressure'
  BY <1>1, TurnStays, MissingStays, KnownStays, UpStays, BytesStay, BackpressureStays
  DEF TunnelInv, Dispatching, Dead, OnlyCrossingKills
<1>7. QED
  BY <1>3, <1>4, <1>5, <1>6 DEF TunnelInv

\* The close task runs: CLOSE_SESSION goes out, or the handler is done.
LEMMA CloseRunsKeeps ==
    ASSUME TunnelInv, NEW ch \in Channels, CloseRuns(ch)
    PROVE  TunnelInv'
<1>1. /\ closeTask[ch] = "ready"
      /\ stream' = [stream EXCEPT ![ch] = "closed"]
      /\ \/ /\ stream[ch] = "live" /\ Routed(ch) /\ SendDown(Frame("CLOSE_SESSION", ch, 0))
            /\ closeTask' = [closeTask EXCEPT ![ch] = "drain"]
         \/ /\ ~(stream[ch] = "live" /\ Routed(ch)) /\ UNCHANGED down
            /\ closeTask' = [closeTask EXCEPT ![ch] = "done"]
      /\ UNCHANGED <<handler, pending, idle, open, retired, transport, queued, written, got, up,
                      lost, agent, connecting, awaits, local, channels, forward, produced, delivered>>
  BY DEF CloseRuns, agentVars
<1>2. \A c \in Channels : stream'[c] = IF c = ch THEN "closed" ELSE stream[c]
  BY <1>1 DEF TunnelInv, TypeOK
<1>3. /\ closeTask'[ch] \in {"drain", "done"} /\ closeTask' \in [Channels -> {"none", "ready", "drain", "done"}]
      /\ \A c \in Channels \ {ch} : closeTask'[c] = closeTask[c]
  BY <1>1 DEF TunnelInv, TypeOK
<1>4. /\ transport[ch] = "closing" /\ queued[ch] = <<>> /\ stream[ch] # "none" /\ ch \notin retired
      /\ handler # "done" => stream[ch] = "live" /\ Routed(ch)
  BY <1>1 DEF TunnelInv, TypeOK, SessionLife, Routed
<1>5. PICK f \in ServerFrames : /\ f = Frame("CLOSE_SESSION", ch, 0) /\ f.type = "CLOSE_SESSION"
                                /\ f.channel = ch
  BY FrameTyped
<1>6. \/ SendDown(f)
      \/ handler = "done" /\ UNCHANGED down
  BY <1>1, <1>4, <1>5
<1>7. Dispatching => ~InFlight("CLOSE_SESSION", ch)
  BY <1>1 DEF TunnelInv, FramesInTurn
<1>8. TypeOK'
  BY <1>1, <1>6, SentDown DEF TunnelInv, TypeOK
<1>9. SessionLife'
  BY <1>1, <1>3 DEF TunnelInv, SessionLife
<1>10. FramesInTurn'
  <2>1. CASE SendDown(f)
    BY <1>1, <1>3, <1>4, <1>5, <1>7, <2>1, TurnSent DEF TunnelInv
  <2>2. CASE UNCHANGED down
    BY <1>1, <1>3, <2>2, TurnStays DEF TunnelInv, Dispatching
  <2>3. QED
    BY <1>6, <2>1, <2>2
<1>11. NothingMissing'
  <2>1. CASE SendDown(f)
    <3>1. Dead => Dead'
      BY <1>1 DEF Dead
    <3>2. QED
      BY <1>1, <1>3, <1>5, <2>1, <3>1, MissingSent DEF TunnelInv
  <2>2. CASE handler = "done"
    BY <1>1, <2>2 DEF NothingMissing, Dead
  <2>3. QED
    BY <1>6, <2>1, <2>2
<1>12. KnownChannels'
  BY <1>1, KnownStays DEF TunnelInv, Dispatching
<1>13. DownInOrder'
  <2>1. (Dead => Dead') /\ \A c \in Channels : Routed(c)' => Routed(c)
    BY <1>1 DEF Dead, Routed
  <2>2. CASE SendDown(f)
    <3>1. \A c \in Channels : stream[c] = "none" => written[c] = 0 /\ queued[c] = <<>>
      BY DEF TunnelInv, SessionLife
    <3>2. QED
      BY <1>1, <1>5, <2>1, <2>2, <3>1, DownSent DEF TunnelInv
  <2>3. CASE UNCHANGED down
    BY <1>1, <2>1, <2>3, DownStays DEF TunnelInv, Dispatching
  <2>4. QED
    BY <1>6, <2>2, <2>3
<1>14. UpInOrder' /\ BytesInOrder' /\ OnlyCrossingKills' /\ AgentBackpressure'
  BY <1>1, UpStays, BytesStay, BackpressureStays DEF TunnelInv, Dead, OnlyCrossingKills
<1>15. QED
  BY <1>8, <1>9, <1>10, <1>11, <1>12, <1>13, <1>14 DEF TunnelInv


\* The write tasks of a channel when the oldest has run.
LEMMA TaskRun ==
    ASSUME TypeOK, DownInOrder, NEW ch \in Channels, queued[ch] # <<>>, UNCHANGED written,
           queued' = [queued EXCEPT ![ch] = Tail(queued[ch])]
    PROVE  /\ queued' \in [Channels -> Seq(Nat)]
           /\ \A c \in Channels \ {ch} : queued'[c] = queued[c]
           /\ Len(queued[ch]) \in Nat /\ Len(queued'[ch]) = Len(queued[ch]) - 1
           /\ Len(queued[ch]) > 0 /\ Len(queued[ch]) <= written[ch]
           /\ Head(queued[ch]) = (written[ch] - Len(queued[ch])) + 1 /\ Head(queued[ch]) \in Nat
           /\ \A c \in Channels :
                 /\ Len(queued'[c]) <= written'[c]
                 /\ \A i \in 1..Len(queued'[c]) : queued'[c][i] = (written'[c] - Len(queued'[c])) + i
<1> DEFINE q == Len(queued[ch])
           r == Len(queued'[ch])
<1>1. queued[ch] \in Seq(Nat) /\ queued'[ch] = Tail(queued[ch]) /\ written[ch] \in Nat
  BY DEF TypeOK
<1>2. /\ queued'[ch] \in Seq(Nat) /\ q \in Nat /\ r = q - 1 /\ q > 0
      /\ Head(queued[ch]) = queued[ch][1] /\ 1 \in 1..q /\ Head(queued[ch]) \in Nat
      /\ \A i \in 1..r : i + 1 \in 1..q /\ queued'[ch][i] = queued[ch][i + 1]
  <2> DEFINE t == Tail(queued[ch])
  <2>1. /\ t \in Seq(Nat) /\ q \in Nat /\ Len(t) = q - 1 /\ q > 0
        /\ Head(queued[ch]) = queued[ch][1] /\ 1 \in 1..q /\ Head(queued[ch]) \in Nat
        /\ \A i \in 1..Len(t) : i + 1 \in 1..q /\ t[i] = queued[ch][i + 1]
    BY <1>1
  <2> HIDE DEF t
  <2>2. QED
    BY <1>1, <2>1 DEF t
<1>3. /\ \A c \in Channels \ {ch} : queued'[c] = queued[c]
      /\ queued' \in [Channels -> Seq(Nat)]
  BY DEF TypeOK
<1>4. q <= written[ch] /\ \A i \in 1..q : queued[ch][i] = (written[ch] - q) + i
  BY DEF DownInOrder
<1>5. ASSUME NEW c \in Channels
      PROVE  /\ Len(queued'[c]) <= written'[c]
             /\ \A i \in 1..Len(queued'[c]) : queued'[c][i] = (written'[c] - Len(queued'[c])) + i
  <2>1. CASE c = ch
    <3>1. r <= written[ch] /\ \A i \in 1..r : queued'[ch][i] = (written[ch] - r) + i
      <4> HIDE DEF q, r
      <4>1. r <= written[ch] /\ written[ch] - r = (written[ch] - q) + 1
        BY <1>1, <1>2, <1>4
      <4>2. ASSUME NEW i \in 1..r PROVE queued'[ch][i] = (written[ch] - r) + i
        <5>1. queued'[ch][i] = (written[ch] - q) + (i + 1)
          BY <1>2, <1>4
        <5>2. (written[ch] - q) + (i + 1) = (written[ch] - r) + i
          <6>1. q \in Int /\ r = q - 1 /\ written[ch] \in Int /\ i \in Int
            BY <1>1, <1>2
          <6>2. QED
            BY <6>1
        <5>3. QED
          BY <5>1, <5>2
      <4>3. QED
        BY <4>1, <4>2
    <3>2. QED
      BY <2>1, <3>1
  <2>2. CASE c # ch
    BY <2>2 DEF DownInOrder
  <2>3. QED
    BY <2>1, <2>2
<1>6. QED
  BY <1>3, <1>4, <1>5

\* A write task puts its frame on the wire.
LEMMA WriteSentKeeps ==
    ASSUME TunnelInv, NEW ch \in Channels, WriteRuns(ch), Routed(ch)
    PROVE  TunnelInv'
<1>1. /\ queued[ch] # <<>> /\ Routed(ch)
      /\ queued' = [queued EXCEPT ![ch] = Tail(queued[ch])]
      /\ SendDown(Frame("SESSION_DATA", ch, Head(queued[ch])))
      /\ UNCHANGED <<handler, pending, idle, open, retired, stream, transport, written, closeTask,
                      got, up, lost, agent, connecting, awaits, local, channels, forward, produced,
                      delivered>>
  BY DEF WriteRuns, NextWrite, agentVars
<1>2. /\ queued' \in [Channels -> Seq(Nat)]
      /\ \A c \in Channels \ {ch} : queued'[c] = queued[c]
      /\ Len(queued[ch]) \in Nat /\ Len(queued'[ch]) = Len(queued[ch]) - 1
      /\ Len(queued[ch]) > 0 /\ Len(queued[ch]) <= written[ch]
      /\ Head(queued[ch]) = (written[ch] - Len(queued[ch])) + 1 /\ Head(queued[ch]) \in Nat
      /\ \A c \in Channels :
            /\ Len(queued'[c]) <= written'[c]
            /\ \A i \in 1..Len(queued'[c]) : queued'[c][i] = (written'[c] - Len(queued'[c])) + i
  BY <1>1, TaskRun DEF TunnelInv
<1>3. PICK f \in ServerFrames : /\ f = Frame("SESSION_DATA", ch, Head(queued[ch])) /\ f.type = "SESSION_DATA"
                                /\ f.channel = ch /\ f.at = Head(queued[ch])
  BY <1>2, FrameTyped
<1>4. /\ closeTask[ch] = "none" /\ transport[ch] # "none" /\ stream[ch] # "none"
      /\ Dispatching => ~InFlight("CLOSE_SESSION", ch)
      /\ Dispatching /\ ~Dead => Reached(ch)
  BY <1>1 DEF TunnelInv, SessionLife, FramesInTurn, NothingMissing
<1>5. (Dead <=> Dead') /\ \A c \in Channels : Routed(c)' <=> Routed(c)
  BY <1>1 DEF Dead, Routed
<1>6. TypeOK'
  BY <1>1, <1>2, <1>3, SentDown DEF TunnelInv, TypeOK
<1>7. SessionLife'
  BY <1>1 DEF TunnelInv, SessionLife
<1>8. FramesInTurn'
  BY <1>1, <1>3, <1>4, TurnSent DEF TunnelInv
<1>9. NothingMissing'
  BY <1>1, <1>3, <1>5, MissingSent DEF TunnelInv
<1>10. DownInOrder'
  <2>1. ASSUME NEW c \in Channels, Dispatching
        PROVE  \E last \in Len(delivered[c])..written[c] :
                 /\ Carries(down', c, Len(delivered[c]), last)
                 /\ ~Dead /\ Routed(c) /\ (transport[c] # "closing" \/ queued'[c] # <<>>) =>
                        last = written[c] - Len(queued'[c])
    <3>1. PICK last \in Len(delivered[c])..written[c] :
            /\ Carries(down, c, Len(delivered[c]), last)
            /\ ~Dead /\ Routed(c) /\ (transport[c] # "closing" \/ queued[c] # <<>>) =>
                   last = written[c] - Len(queued[c])
      BY <2>1 DEF TunnelInv, DownInOrder
    <3>2. /\ Len(delivered[c]) \in Nat /\ written[c] \in Nat /\ last \in Nat /\ Len(delivered[c]) <= last
          /\ down \in Seq(ServerFrames)
      BY DEF TunnelInv, TypeOK
    <3>3. CASE Dead
      BY <1>1, <3>1, <3>3 DEF SendDown
    <3>4. CASE ~Dead /\ c # ch
      <4>1. down' = Append(down, f) /\ ~Data(f, c)
        BY <1>1, <1>3, <3>4 DEF SendDown, Data
      <4>2. Carries(down', c, Len(delivered[c]), last)
        BY <3>1, <3>2, <4>1, CarriesAppended
      <4>3. QED
        BY <1>2, <3>1, <3>4, <4>2
    <3>5. CASE ~Dead /\ c = ch
      <4> DEFINE q == Len(queued[ch])
                 r == Len(queued'[ch])
                 d == Len(delivered[c])
      <4>1. /\ last = written[c] - q /\ q \in Nat /\ r = q - 1 /\ q > 0 /\ f.at = (written[c] - q) + 1
            /\ d \in Nat /\ d <= last
        BY <1>2, <1>3, <3>1, <3>5
      <4>2. f.at = last + 1 /\ last + 1 \in d..written[c] /\ last + 1 = written[c] - r
        <5> HIDE DEF q, r, d
        <5>1. QED
          BY <3>2, <4>1
      <4>3. down' = Append(down, f) /\ Data(f, c)
        BY <1>1, <1>3, <3>5 DEF SendDown, Data
      <4>4. Carries(down', c, Len(delivered[c]), last + 1)
        BY <3>1, <3>2, <4>2, <4>3, CarriesAppended
      <4>5. QED
        BY <3>5, <4>2, <4>4
    <3>6. QED
      BY <3>3, <3>4, <3>5
  <2>2. QED
    BY <1>1, <1>2, <1>5, <2>1 DEF DownInOrder, Dispatching
<1>11. KnownChannels' /\ UpInOrder' /\ BytesInOrder' /\ OnlyCrossingKills' /\ AgentBackpressure'
  BY <1>1, KnownStays, UpStays, BytesStay, BackpressureStays
  DEF TunnelInv, Dispatching, Dead, OnlyCrossingKills
<1>12. QED
  BY <1>6, <1>7, <1>8, <1>9, <1>10, <1>11 DEF TunnelInv

\* A write task finds its channel gone, and closes the transport.
LEMMA WriteFailsKeeps ==
    ASSUME TunnelInv, NEW ch \in Channels, WriteRuns(ch), ~Routed(ch), transport[ch] = "open"
    PROVE  TunnelInv'
<1>1. /\ transport[ch] = "open"
      /\ transport' = [transport EXCEPT ![ch] = "closing"]
      /\ closeTask' = [closeTask EXCEPT ![ch] = "ready"]
      /\ queued' = [queued EXCEPT ![ch] = <<>>]
      /\ UNCHANGED <<handler, pending, idle, open, retired, stream, written, got, down, up, lost,
                      agent, connecting, awaits, local, channels, forward, produced, delivered>>
  BY DEF WriteRuns, TransportClose, agentVars
<1>2. closeTask[ch] = "none"
  BY DEF TunnelInv, SessionLife
<1>3. \A c \in Channels : closeTask'[c] = IF c = ch THEN "ready" ELSE closeTask[c]
  BY <1>1 DEF TunnelInv, TypeOK
<1>4. \A c \in Channels : queued'[c] = IF c = ch THEN <<>> ELSE queued[c]
  BY <1>1 DEF TunnelInv, TypeOK
<1>5. \A c \in Channels : transport'[c] = IF c = ch THEN "closing" ELSE transport[c]
  BY <1>1 DEF TunnelInv, TypeOK
<1>6. TypeOK'
  <2>1. /\ transport' \in [Channels -> {"none", "open", "closing"}]
        /\ closeTask' \in [Channels -> {"none", "ready", "drain", "done"}]
        /\ queued' \in [Channels -> Seq(Nat)]
    BY <1>1 DEF TunnelInv, TypeOK
  <2>2. QED
    BY <1>1, <2>1 DEF TunnelInv, TypeOK
<1>7. SessionLife'
  BY <1>1, <1>4, <1>5 DEF TunnelInv, SessionLife
<1>8. FramesInTurn'
  BY <1>1, <1>2, TurnStays DEF TunnelInv, Dispatching
<1>9. NothingMissing'
  BY <1>1, <1>2, MissingStays DEF TunnelInv, Dispatching, Dead
<1>10. DownInOrder'
  BY <1>1, <1>4, <1>5, ClosedDown DEF TunnelInv
<1>11. KnownChannels' /\ UpInOrder' /\ BytesInOrder' /\ OnlyCrossingKills' /\ AgentBackpressure'
  BY <1>1, KnownStays, UpStays, BytesStay, BackpressureStays
  DEF TunnelInv, Dispatching, Dead, OnlyCrossingKills
<1>12. QED
  BY <1>6, <1>7, <1>8, <1>9, <1>10, <1>11 DEF TunnelInv

\* A write task of a transport that is closing raises for nobody.
LEMMA WriteDroppedKeeps ==
    ASSUME TunnelInv, NEW ch \in Channels, WriteRuns(ch), ~Routed(ch), transport[ch] # "open"
    PROVE  TunnelInv'
<1>1. /\ queued[ch] # <<>> /\ ~Routed(ch)
      /\ queued' = [queued EXCEPT ![ch] = Tail(queued[ch])]
      /\ UNCHANGED <<handler, pending, idle, open, retired, stream, transport, written, closeTask,
                      got, down, up, lost, agent, connecting, awaits, local, channels, forward, produced,
                      delivered>>
  BY DEF WriteRuns, agentVars
<1>2. /\ queued' \in [Channels -> Seq(Nat)]
      /\ \A c \in Channels \ {ch} : queued'[c] = queued[c]
      /\ \A c \in Channels :
            /\ Len(queued'[c]) <= written'[c]
            /\ \A i \in 1..Len(queued'[c]) : queued'[c][i] = (written'[c] - Len(queued'[c])) + i
  BY <1>1, TaskRun DEF TunnelInv
<1>3. TypeOK'
  BY <1>1, <1>2 DEF TunnelInv, TypeOK
<1>4. SessionLife'
  BY <1>1 DEF TunnelInv, SessionLife
<1>5. DownInOrder'
  <2>1. ASSUME NEW c \in Channels, Dispatching
        PROVE  \E last \in Len(delivered[c])..written[c] :
                 /\ Carries(down, c, Len(delivered[c]), last)
                 /\ ~Dead /\ Routed(c) /\ (transport[c] # "closing" \/ queued'[c] # <<>>) =>
                        last = written[c] - Len(queued'[c])
    <3>1. PICK last \in Len(delivered[c])..written[c] :
            /\ Carries(down, c, Len(delivered[c]), last)
            /\ ~Dead /\ Routed(c) /\ (transport[c] # "closing" \/ queued[c] # <<>>) =>
                   last = written[c] - Len(queued[c])
      BY <2>1 DEF TunnelInv, DownInOrder
    <3>2. QED
      BY <1>2, <3>1
  <2>2. (Dead <=> Dead') /\ \A c \in Channels : Routed(c)' <=> Routed(c)
    BY <1>1 DEF Dead, Routed
  <2>3. ASSUME NEW c \in Channels, Dispatching'
        PROVE  \E last \in Len(delivered'[c])..written'[c] :
                 /\ Carries(down', c, Len(delivered'[c]), last)
                 /\ ~Dead' /\ Routed(c)' /\ (transport'[c] # "closing" \/ queued'[c] # <<>>) =>
                        last = written'[c] - Len(queued'[c])
    <3>1. Dispatching
      BY <1>1, <2>3 DEF Dispatching
    <3>2. QED
      BY <1>1, <2>1, <2>2, <3>1
  <2>4. QED
    BY <1>2, <2>3 DEF DownInOrder
<1>6. /\ FramesInTurn' /\ NothingMissing' /\ KnownChannels' /\ UpInOrder' /\ BytesInOrder'
      /\ OnlyCrossingKills' /\ AgentBackpressure'
  BY <1>1, TurnStays, MissingStays, KnownStays, UpStays, BytesStay, BackpressureStays
  DEF TunnelInv, Dispatching, Dead, OnlyCrossingKills
<1>7. QED
  BY <1>3, <1>4, <1>5, <1>6 DEF TunnelInv

\* A write task runs.
LEMMA WriteRunsKeeps ==
    ASSUME TunnelInv, NEW ch \in Channels, WriteRuns(ch)
    PROVE  TunnelInv'
BY WriteSentKeeps, WriteFailsKeeps, WriteDroppedKeeps

\* The close task retires the channel, or fails with the connection.
LEMMA CloseDrainedKeeps ==
    ASSUME TunnelInv, NEW ch \in Channels, CloseDrained(ch)
    PROVE  TunnelInv'
<1>1. /\ closeTask[ch] = "drain" /\ closeTask' = [closeTask EXCEPT ![ch] = "done"]
      /\ \/ open' = open \ {ch} /\ retired' = retired \cup {ch}
         \/ UNCHANGED <<open, retired>>
      /\ UNCHANGED <<handler, pending, idle, stream, transport, queued, written, got, down, up,
                      lost, agent, connecting, awaits, local, channels, forward, produced, delivered>>
  BY DEF CloseDrained, agentVars
<1>2. \A c \in Channels : closeTask'[c] = IF c = ch THEN "done" ELSE closeTask[c]
  BY <1>1 DEF TunnelInv, TypeOK
<1>3. /\ transport[ch] = "closing" /\ queued[ch] = <<>> /\ stream[ch] # "none"
  BY <1>1 DEF TunnelInv, SessionLife
<1>4. TypeOK'
  BY <1>1 DEF TunnelInv, TypeOK
<1>5. SessionLife'
  <2>1. open' \cup retired' = open \cup retired \cup {ch} \/ UNCHANGED <<open, retired>>
    BY <1>1
  <2>2. ch \in open \cup retired /\ \A c \in Channels : c # ch => (c \in retired' <=> c \in retired)
    BY <1>1 DEF TunnelInv, SessionLife
  <2>3. QED
    BY <1>1 DEF TunnelInv, SessionLife
<1>6. FramesInTurn'
  BY <1>1, TurnStays DEF TunnelInv, Dispatching
<1>7. NothingMissing'
  BY <1>1, MissingStays DEF TunnelInv, Dispatching, Dead
<1>8. DownInOrder'
  BY <1>1, DownStays DEF TunnelInv, Dead, Dispatching, Routed
<1>9. OnlyCrossingKills'
  BY <1>1 DEF TunnelInv, OnlyCrossingKills
<1>10. KnownChannels' /\ UpInOrder' /\ BytesInOrder' /\ AgentBackpressure'
  BY <1>1, KnownStays, UpStays, BytesStay, BackpressureStays DEF TunnelInv, Dispatching, Dead
<1>11. QED
  BY <1>4, <1>5, <1>6, <1>7, <1>8, <1>9, <1>10 DEF TunnelInv

\* The server reads the next frame.
LEMMA ServerReadsKeeps ==
    ASSUME TunnelInv, ServerReads
    PROVE  TunnelInv'
<1>1. /\ handler = "read" /\ up # <<>> /\ pending' = Head(up) /\ up' = Tail(up)
      /\ idle' = 0 /\ handler' = "handle"
      /\ UNCHANGED <<open, retired, stream, transport, queued, written, closeTask, got, down, lost,
                      agent, connecting, awaits, local, channels, forward, produced, delivered>>
  BY DEF ServerReads, agentVars
<1>2. /\ up \in Seq(DataFrames) /\ up' \in Seq(DataFrames) /\ Head(up) \in DataFrames
      /\ Head(up) = up[1] /\ 1 \in 1..Len(up)
      /\ \A i \in 1..Len(up') : i + 1 \in 1..Len(up) /\ up'[i] = up[i + 1]
  <2>1. up \in Seq(DataFrames)
    BY DEF TunnelInv, TypeOK
  <2>2. QED
    BY <1>1, <2>1
<1>3. /\ Head(up).channel \in Channels /\ Head(up).type = "SESSION_DATA" /\ pending.channel \notin Channels
      /\ \A i \in 1..Len(up) : up[i].channel \in Channels
  BY <1>1, FramesTyped DEF TunnelInv
<1>4. TypeOK'
  BY <1>1, <1>2, BoundsAssumption DEF TunnelInv, TypeOK
<1>5. SessionLife'
  BY <1>1 DEF TunnelInv, SessionLife
<1>6. NothingMissing'
  BY <1>1, MissingStays DEF TunnelInv, Dispatching, Dead
<1>7. KnownChannels'
  <2>1. \A c \in Channels : forward[c] = "none" => \A i \in 1..Len(up') : up'[i].channel # c
    BY <1>2 DEF TunnelInv, KnownChannels
  <2>2. \A i \in 1..Len(up') : stream[up'[i].channel] # "none"
    BY <1>2 DEF TunnelInv, KnownChannels
  <2>3. stream[Head(up).channel] # "none"
    BY <1>2 DEF TunnelInv, KnownChannels
  <2>4. QED
    BY <1>1 DEF TunnelInv, KnownChannels, Dispatching
<1>8. UpInOrder'
  <2>1. ASSUME NEW c \in Channels
        PROVE  /\ pending'.channel = c => pending'.at = Len(got[c]) + 1
               /\ \E last \in Taken(c)'..produced[c] :
                    Carries(up', c, Taken(c)', last) /\ (~Dead' => last = produced[c])
    <3>1. Taken(c) = Len(got[c]) /\ Taken(c)' = IF Head(up).channel = c THEN Len(got[c]) + 1 ELSE Len(got[c])
      BY <1>1, <1>3 DEF Taken
    <3>2. PICK last \in Taken(c)..produced[c] :
            Carries(up, c, Taken(c), last) /\ (~Dead => last = produced[c])
      BY <1>1 DEF TunnelInv, UpInOrder
    <3>3. Dead => Dead'
      BY <1>1 DEF Dead
    <3> DEFINE n == Len(got[c])
    <3>4. n \in Nat /\ produced[c] \in Nat /\ last \in n..produced[c] /\ Carries(up, c, n, last)
      BY <3>1, <3>2 DEF TunnelInv, TypeOK
    <3>5. last \in Nat
      <4> HIDE DEF n
      <4>1. QED
        BY <3>4
    <3>6. Data(Head(up), c) <=> Head(up).channel = c
      BY <1>3 DEF Data
    <3>7. CASE Head(up).channel = c
      <4>1. Head(up).at = n + 1 /\ n + 1 <= last /\ Carries(up', c, n + 1, last)
        BY <1>1, <1>2, <3>4, <3>5, <3>6, <3>7, CarriesShifted
      <4>2. last \in (n + 1)..produced[c]
        <5> HIDE DEF n
        <5>1. QED
          BY <4>1
      <4>3. QED
        BY <1>1, <3>1, <3>2, <3>3, <3>7, <4>1
    <3>8. CASE Head(up).channel # c
      <4>1. Carries(up', c, n, last)
        BY <1>1, <1>2, <3>4, <3>5, <3>6, <3>8, CarriesShifted
      <4>2. QED
        BY <1>1, <3>1, <3>2, <3>3, <3>8, <4>1
    <3>9. QED
      BY <3>7, <3>8
  <2>2. QED
    BY <1>1, <2>1 DEF UpInOrder
<1>9. DownInOrder'
  BY <1>1, DownStays DEF TunnelInv, Dead, Dispatching, Routed
<1>10. OnlyCrossingKills'
  BY <1>1 DEF OnlyCrossingKills
<1>11. AgentBackpressure'
  <2>1. ASSUME NEW c \in Channels
        PROVE  Waiting(up', c) <= HighWater + (IF forward[c] = "reading" THEN 0 ELSE 1)
    <3>1. Waiting(up, c) \in Nat /\ Waiting(up', c) \in Nat /\ Waiting(up', c) <= Waiting(up, c)
      BY <1>1, <1>2, CountShifted
    <3>2. Waiting(up, c) <= HighWater + (IF forward[c] = "reading" THEN 0 ELSE 1)
      BY DEF TunnelInv, AgentBackpressure
    <3>3. QED
      BY <3>1, <3>2, BoundsAssumption
  <2>2. QED
    BY <1>1, <2>1 DEF AgentBackpressure
<1>12. FramesInTurn' /\ BytesInOrder'
  BY <1>1, TurnStays, BytesStay DEF TunnelInv, Dispatching
<1>13. QED
  BY <1>4, <1>5, <1>6, <1>7, <1>8, <1>9, <1>10, <1>11, <1>12 DEF TunnelInv

\* The server feeds the data of an open channel to its stream.
LEMMA ServerFeedsKeeps ==
    ASSUME TunnelInv, ServerHandles, pending.channel \in open
    PROVE  TunnelInv'
<1>1. /\ handler = "handle" /\ handler' = "read" /\ pending' = NoFrame
      /\ got' = [got EXCEPT ![pending.channel] = Append(got[pending.channel], pending.at)]
      /\ UNCHANGED <<idle, open, retired, stream, transport, queued, written, closeTask, down, up,
                      lost, agent, connecting, awaits, local, channels, forward, produced, delivered>>
  BY DEF ServerHandles, agentVars
<1>2. /\ pending \in DataFrames /\ pending.channel \in Channels /\ pending'.channel \notin Channels
  <2>1. NoFrame.channel \notin Channels
    BY ChannelsAssumption DEF NoFrame, Frame, NoChannel
  <2>2. QED
    BY <1>1, <2>1, FramesTyped DEF TunnelInv
<1>3. /\ got[pending.channel] \in Seq(Nat) /\ pending.at = Len(got[pending.channel]) + 1
      /\ Len(got[pending.channel]) + 1 \in Nat /\ Len(got[pending.channel]) \in Nat
  <2>1. got[pending.channel] \in Seq(Nat)
    BY DEF TunnelInv, TypeOK
  <2>2. pending.at = Len(got[pending.channel]) + 1
    BY <1>1, <1>2 DEF TunnelInv, UpInOrder
  <2>3. QED
    BY <2>1, <2>2
<1>4. /\ got'[pending.channel] = Append(got[pending.channel], Len(got[pending.channel]) + 1)
      /\ Len(got'[pending.channel]) = Len(got[pending.channel]) + 1 /\ got'[pending.channel] \in Seq(Nat)
      /\ got' \in [Channels -> Seq(Nat)]
      /\ \A c \in Channels : c # pending.channel => got'[c] = got[c]
  <2>1. got'[pending.channel] = Append(got[pending.channel], Len(got[pending.channel]) + 1)
    BY <1>1, <1>3 DEF TunnelInv, TypeOK
  <2>2. Len(got'[pending.channel]) = Len(got[pending.channel]) + 1 /\ got'[pending.channel] \in Seq(Nat)
    BY <1>3, <2>1
  <2>3. QED
    BY <1>1, <2>1, <2>2 DEF TunnelInv, TypeOK
<1>5. \A c \in Channels : Taken(c)' = Taken(c) /\ Taken(c)' = Len(got'[c])
  BY <1>2, <1>4 DEF Taken
<1>6. TypeOK'
  BY <1>1, <1>4 DEF TunnelInv, TypeOK
<1>7. SessionLife'
  BY <1>1 DEF TunnelInv, SessionLife
<1>8. NothingMissing'
  BY <1>1, MissingStays DEF TunnelInv, Dispatching, Dead
<1>9. KnownChannels'
  BY <1>1, KnownStays DEF TunnelInv, Dispatching
<1>10. UpInOrder'
  <2>1. ASSUME NEW c \in Channels
        PROVE  \E last \in Taken(c)..produced[c] :
                    Carries(up, c, Taken(c), last) /\ (~Dead' => last = produced[c])
    BY <1>1 DEF TunnelInv, UpInOrder, Dead
  <2>2. QED
    BY <1>1, <1>2, <1>5, <2>1 DEF UpInOrder
<1>11. DownInOrder'
  BY <1>1, DownStays DEF TunnelInv, Dead, Dispatching, Routed
<1>12. BytesInOrder'
  <2>1. ASSUME NEW c \in Channels
        PROVE  InOrder(got'[c]) /\ Len(got'[c]) <= produced[c]
    <3>1. PICK last \in Taken(c)..produced[c] : Carries(up, c, Taken(c), last)
      BY <1>1 DEF TunnelInv, UpInOrder
    <3>2. Len(got'[c]) \in Nat /\ produced[c] \in Nat
      BY <1>4 DEF TunnelInv, TypeOK
    <3>3. Len(got'[c]) <= produced[c]
      <4>1. last \in Len(got'[c])..produced[c]
        BY <1>5
      <4> DEFINE n == Len(got'[c])
      <4>2. last \in n..produced[c] /\ n \in Nat
        BY <4>1
      <4> HIDE DEF n
      <4>3. n <= produced[c]
        BY <3>2, <4>2
      <4>4. QED
        BY <4>3 DEF n
    <3>4. InOrder(got[c])
      BY DEF TunnelInv, BytesInOrder
    <3>5. InOrder(got'[c])
      <4>1. CASE c = pending.channel
        BY <1>3, <1>4, <3>4, InOrderAppended
      <4>2. CASE c # pending.channel
        BY <1>4, <3>4, <4>2
      <4>3. QED
        BY <4>1, <4>2
    <3>6. QED
      BY <3>3, <3>5
  <2>2. QED
    BY <1>1, <2>1 DEF TunnelInv, BytesInOrder
<1>13. OnlyCrossingKills'
  BY <1>1 DEF OnlyCrossingKills
<1>14. FramesInTurn' /\ AgentBackpressure'
  BY <1>1, TurnStays, BackpressureStays DEF TunnelInv, Dispatching
<1>15. QED
  BY <1>6, <1>7, <1>8, <1>9, <1>10, <1>11, <1>12, <1>13, <1>14 DEF TunnelInv

\* The server answers data of a channel that is not open with an ERROR frame.
LEMMA ServerRejectsKeeps ==
    ASSUME TunnelInv, ServerHandles, pending.channel \notin open
    PROVE  TunnelInv'
<1>1. /\ handler = "handle" /\ pending.channel \notin open /\ handler' = "error"
      /\ SendDown(Frame("ERROR", NoChannel, 0))
      /\ UNCHANGED <<pending, idle, open, retired, stream, transport, queued, written, closeTask,
                      got, up, lost, agent, connecting, awaits, local, channels, forward, produced,
                      delivered>>
  BY DEF ServerHandles, agentVars
<1>2. PICK f \in ServerFrames : /\ f = Frame("ERROR", NoChannel, 0) /\ f.type = "ERROR"
                                /\ \A c \in Channels : f.channel # c
  BY ErrorTyped
<1>3. pending \in DataFrames /\ pending.channel \in Channels /\ pending.type = "SESSION_DATA"
  BY <1>1, FramesTyped DEF TunnelInv
<1>4. pending.channel \in retired
  BY <1>1, <1>3 DEF TunnelInv, KnownChannels, SessionLife
<1>5. (Dead <=> Dead') /\ \A c \in Channels : Routed(c)' <=> Routed(c)
  BY <1>1 DEF Dead, Routed
<1>6. TypeOK'
  BY <1>1, <1>2, SentDown DEF TunnelInv, TypeOK
<1>7. SessionLife'
  BY <1>1 DEF TunnelInv, SessionLife
<1>8. FramesInTurn'
  BY <1>1, <1>2, TurnSent DEF TunnelInv
<1>9. NothingMissing'
  BY <1>1, <1>2, <1>5, MissingSent DEF TunnelInv
<1>10. KnownChannels'
  BY <1>1, KnownStays DEF TunnelInv, Dispatching
<1>11. UpInOrder'
  BY <1>1 DEF UpInOrder
<1>12. DownInOrder'
  <2>1. \A c \in Channels : stream[c] = "none" => written[c] = 0 /\ queued[c] = <<>>
    BY DEF TunnelInv, SessionLife
  <2>2. QED
    BY <1>1, <1>2, <1>5, <2>1, DownSent DEF TunnelInv
<1>13. OnlyCrossingKills'
  BY <1>1, <1>3, <1>4 DEF OnlyCrossingKills
<1>14. BytesInOrder' /\ AgentBackpressure'
  BY <1>1, BytesStay, BackpressureStays DEF TunnelInv
<1>15. QED
  BY <1>6, <1>7, <1>8, <1>9, <1>10, <1>11, <1>12, <1>13, <1>14 DEF TunnelInv

\* The server handles the frame it has read.
LEMMA ServerHandlesKeeps ==
    ASSUME TunnelInv, ServerHandles
    PROVE  TunnelInv'
BY ServerFeedsKeeps, ServerRejectsKeeps

\* A wire on which nothing is.
LEMMA NothingWaits ==
    ASSUME up' = <<>>, TypeOK
    PROVE  AgentBackpressure'
<1>1. \A c \in Channels : Waiting(up, c)' = 0
  BY FS_EmptySet DEF Waiting
<1>2. QED
  BY <1>1, BoundsAssumption DEF AgentBackpressure

\* The handler's finally clause ends the streams that are routed.
LEMMA DropKeeps ==
    ASSUME TunnelInv, DropConnection,
           UNCHANGED <<open, retired, transport, queued, written, closeTask, got, down, lost, agentVars>>
    PROVE  TunnelInv'
<1>1. /\ handler' = "done" /\ up' = <<>> /\ idle' = 0 /\ pending' = NoFrame
      /\ stream' = [c \in Channels |-> IF c \in open THEN "closed" ELSE stream[c]]
      /\ UNCHANGED <<open, retired, transport, queued, written, closeTask, got, down, lost, agent,
                      connecting, awaits, local, channels, forward, produced, delivered>>
  BY DEF DropConnection, agentVars
<1>2. \A c \in Channels : stream'[c] = "none" <=> stream[c] = "none"
  BY <1>1 DEF TunnelInv, SessionLife
<1>3. (Dead') /\ \A c \in Channels : ~Routed(c)'
  BY <1>1 DEF Dead, Routed
<1>4. TypeOK'
  <2>1. up' \in Seq(DataFrames)
    BY <1>1
  <2>2. stream' \in [Channels -> {"none", "live", "closed"}]
    BY <1>1 DEF TunnelInv, TypeOK
  <2>3. QED
    BY <1>1, BoundsAssumption DEF TunnelInv, TypeOK
<1>5. SessionLife'
  BY <1>1 DEF TunnelInv, SessionLife
<1>6. FramesInTurn'
  BY <1>1, TurnStays DEF TunnelInv, Dispatching
<1>7. NothingMissing'
  BY <1>3 DEF NothingMissing
<1>8. KnownChannels'
  BY <1>1 DEF TunnelInv, KnownChannels, Dispatching
<1>9. UpInOrder'
  BY <1>1 DEF UpInOrder
<1>10. DownInOrder'
  BY <1>1, <1>3, DownStays DEF TunnelInv, Dispatching
<1>11. OnlyCrossingKills'
  BY <1>1 DEF OnlyCrossingKills
<1>12. AgentBackpressure'
  BY <1>1, NothingWaits DEF TunnelInv
<1>13. BytesInOrder'
  BY <1>1, BytesStay DEF TunnelInv
<1>14. QED
  BY <1>4, <1>5, <1>6, <1>7, <1>8, <1>9, <1>10, <1>11, <1>12, <1>13 DEF TunnelInv

\* The handler ends after its ERROR frame, or at the end of the connection.
LEMMA ServerEndsKeeps ==
    ASSUME TunnelInv, ServerFails \/ ServerEof
    PROVE  TunnelInv'
BY DropKeeps DEF ServerFails, ServerEof

-----------------------------------------------------------------------------
(* The actions of the agent.                                               *)

\* What a turn of the dispatch loop does, whichever frame it read: the frame is acted upon, or
\* the loop is left.
LEMMA AgentTurn ==
    ASSUME TunnelInv, AgentReads
    PROVE  LET f == Head(down) IN
           /\ agent' \in {"read", "connect", "unwind"}
           /\ connecting' \in IF agent' = "connect" THEN Channels ELSE {NoChannel}
           /\ awaits' \in IF agent' = "connect" THEN {NoChannel} ELSE Channels \cup {NoChannel}
           /\ channels' \subseteq channels
           /\ local' \in [Channels -> {"none", "open", "reset", "closing", "closed"}]
           /\ forward' \in [Channels -> {"none", "reading", "drain", "ended", "raised"}]
           /\ Dispatching' =>
                /\ IF f.type = "OPEN_SESSION"
                   THEN agent' = "connect" /\ connecting' = f.channel
                   ELSE agent' = "read" /\ connecting' = connecting
                /\ channels' = IF f.type = "CLOSE_SESSION" THEN channels \ {f.channel} ELSE channels
           /\ \A c \in Channels :
                /\ forward'[c] = "none" <=> forward[c] = "none"
                /\ forward'[c] = "reading" => forward[c] = "reading"
                /\ local'[c] # local[c] => forward[c] # "none"
                /\ local'[c] = "open" => local[c] = "open"
                /\ Dispatching' /\ local'[c] = "open" /\ c \in channels => c \in channels'
                /\ \/ Data(f, c) /\ delivered'[c] = Append(delivered[c], f.at)
                   \/ delivered'[c] = delivered[c] /\ (Dispatching' => ~Data(f, c))
           /\ f.at \in Nat
           /\ delivered' \in [Channels -> Seq(Nat)]
<1> DEFINE f == Head(down)
<1>1. agent = "read" /\ connecting = NoChannel /\ awaits = NoChannel /\ f \in ServerFrames
  BY DEF AgentReads, TunnelInv, TypeOK
<1>2. /\ f.type \in {"OPEN_SESSION", "SESSION_DATA", "CLOSE_SESSION"} => f.channel \in Channels /\ f.at \in Nat
      /\ f.at \in Nat
  BY <1>1 DEF ServerFrames
<1>3. \A c \in channels : c \in Channels /\ forward[c] # "none"
  BY DEF TunnelInv, TypeOK, KnownChannels
<1>4. CASE f.type = "AUTH_OK"
  BY <1>1, <1>2, <1>4 DEF AgentReads, Data, TunnelInv, TypeOK
<1>5. CASE AgentRaises /\ f.type \in {"OPEN_SESSION", "SESSION_DATA", "ERROR"}
  BY <1>1, <1>2, <1>5 DEF AgentRaises, Dispatching, TunnelInv, TypeOK
<1>6. CASE f.type = "OPEN_SESSION" /\ ~AgentRaises
  BY <1>1, <1>2, <1>6 DEF AgentReads, AgentOpens, Data, TunnelInv, TypeOK
<1>7. CASE f.type = "SESSION_DATA" /\ ~AgentRaises
  <2>1. /\ delivered' = [delivered EXCEPT ![f.channel] = Append(delivered[f.channel], f.at)]
        /\ awaits' \in {NoChannel, f.channel} /\ UNCHANGED <<agent, connecting, local, channels, forward>>
    BY <1>7 DEF AgentReads, AgentDelivers
  <2>2. delivered[f.channel] \in Seq(Nat) /\ f.channel \in Channels
    BY <1>2, <1>7 DEF TunnelInv, TypeOK
  <2>3. Append(delivered[f.channel], f.at) \in Seq(Nat)
    BY <1>2, <2>2
  <2>4. delivered' \in [Channels -> Seq(Nat)]
    BY <2>1, <2>3 DEF TunnelInv, TypeOK
  <2>5. \A c \in Channels : \/ Data(f, c) /\ delivered'[c] = Append(delivered[c], f.at)
                            \/ delivered'[c] = delivered[c] /\ (Dispatching' => ~Data(f, c))
    BY <1>7, <2>1 DEF TunnelInv, TypeOK, Data
  <2>6. QED
    BY <1>1, <1>2, <1>7, <2>1, <2>2, <2>4, <2>5 DEF TunnelInv, TypeOK
<1>8. CASE f.type = "CLOSE_SESSION"
  <2>1. AgentCloses(f.channel)
    BY <1>8 DEF AgentReads
  <2>2. CASE f.channel \in channels
    <3>1. /\ channels' = channels \ {f.channel} /\ UNCHANGED <<connecting, delivered>>
          /\ IF forward[f.channel] = "raised" \/ local[f.channel] = "reset"
             THEN agent' = "unwind" ELSE agent' = "read"
      BY <1>1, <2>1, <2>2 DEF AgentCloses, CloseChannel, CloseRaises
    <3>2. PICK end \in {"closing", "closed"} :
             \/ forward[f.channel] = "raised" /\ UNCHANGED <<local, forward>>
             \/ /\ local' = [local EXCEPT ![f.channel] = end]
                /\ forward' = [forward EXCEPT ![f.channel] = "ended"]
      BY <2>1, <2>2 DEF AgentCloses, CloseChannel
    <3>3. /\ local' \in [Channels -> {"none", "open", "reset", "closing", "closed"}]
          /\ forward' \in [Channels -> {"none", "reading", "drain", "ended", "raised"}]
      <4>1. /\ local \in [Channels -> {"none", "open", "reset", "closing", "closed"}]
            /\ forward \in [Channels -> {"none", "reading", "drain", "ended", "raised"}]
        BY DEF TunnelInv, TypeOK
      <4>2. QED
        BY <3>2, <4>1
    <3>4. \A c \in Channels :
             /\ forward'[c] = "none" <=> forward[c] = "none"
             /\ forward'[c] = "reading" => forward[c] = "reading"
             /\ local'[c] # local[c] => forward[c] # "none"
             /\ local'[c] = "open" => local[c] = "open"
             /\ Dispatching' /\ local'[c] = "open" /\ c \in channels => c \in channels'
      <4>1. ASSUME NEW c \in Channels, c # f.channel
            PROVE  forward'[c] = forward[c] /\ local'[c] = local[c] /\ (c \in channels => c \in channels')
        <5>1. local \in [Channels -> {"none", "open", "reset", "closing", "closed"}]
              /\ forward \in [Channels -> {"none", "reading", "drain", "ended", "raised"}]
          BY DEF TunnelInv, TypeOK
        <5>2. QED
          BY <3>1, <3>2, <4>1, <5>1
      <4>2. /\ forward'[f.channel] = "none" <=> forward[f.channel] = "none"
            /\ forward'[f.channel] = "reading" => forward[f.channel] = "reading"
            /\ forward[f.channel] # "none"
            /\ local'[f.channel] = "open" => local[f.channel] = "open"
            /\ ~(Dispatching' /\ local'[f.channel] = "open")
        BY <1>3, <2>2, <3>1, <3>2 DEF TunnelInv, TypeOK, Dispatching
      <4>3. QED
        BY <4>1, <4>2
    <3>5. \A c \in Channels : delivered'[c] = delivered[c] /\ ~Data(f, c)
      BY <1>8, <3>1 DEF Data
    <3>6. /\ agent' \in {"read", "unwind"} /\ connecting' = connecting /\ channels' \subseteq channels
          /\ delivered' \in [Channels -> Seq(Nat)] /\ awaits' \in Channels \cup {NoChannel}
      BY <1>1, <1>3, <2>1, <2>2, <3>1 DEF AgentCloses, CloseChannel, TunnelInv, TypeOK
    <3>7. QED
      BY <1>1, <1>2, <1>8, <3>1, <3>3, <3>4, <3>5, <3>6 DEF Dispatching
  <2>3. CASE f.channel \notin channels
    BY <1>1, <1>2, <1>8, <2>1, <2>3 DEF AgentCloses, Data, TunnelInv, TypeOK
  <2>4. QED
    BY <2>2, <2>3
<1>9. QED
  <2>1. f.type \in {"AUTH_OK", "OPEN_SESSION", "SESSION_DATA", "CLOSE_SESSION", "ERROR"}
    BY <1>1 DEF ServerFrames
  <2>2. f.type = "ERROR" => AgentRaises
    BY DEF AgentReads
  <2>3. QED
    BY <1>4, <1>5, <1>6, <1>7, <1>8, <2>1, <2>2

\* One turn of the dispatch loop.
LEMMA AgentReadsKeeps ==
    ASSUME TunnelInv, AgentReads
    PROVE  TunnelInv'
<1>1. /\ agent = "read" /\ down # <<>> /\ down' = Tail(down)
      /\ UNCHANGED <<handler, pending, idle, open, retired, stream, transport, queued, written,
                      closeTask, got, up, lost, produced>>
  BY DEF AgentReads, serverVars
<1>2. /\ agent' \in {"read", "connect", "unwind"}
      /\ connecting' \in IF agent' = "connect" THEN Channels ELSE {NoChannel}
      /\ awaits' \in IF agent' = "connect" THEN {NoChannel} ELSE Channels \cup {NoChannel}
      /\ channels' \subseteq channels
      /\ local' \in [Channels -> {"none", "open", "reset", "closing", "closed"}]
      /\ forward' \in [Channels -> {"none", "reading", "drain", "ended", "raised"}]
      /\ delivered' \in [Channels -> Seq(Nat)]
  BY AgentTurn
<1>3. \A c \in Channels :
         /\ forward'[c] = "none" <=> forward[c] = "none"
         /\ forward'[c] = "reading" => forward[c] = "reading"
         /\ local'[c] # local[c] => forward[c] # "none"
         /\ local'[c] = "open" => local[c] = "open"
         /\ Dispatching' /\ local'[c] = "open" /\ c \in channels => c \in channels' 
  BY AgentTurn
<1>4. \A c \in Channels : \/ Data(Head(down), c) /\ delivered'[c] = Append(delivered[c], Head(down).at)
                          \/ delivered'[c] = delivered[c] /\ (Dispatching' => ~Data(Head(down), c))
  BY AgentTurn
<1>5. Dispatching' => LET f == Head(down) IN
          /\ IF f.type = "OPEN_SESSION"
             THEN agent' = "connect" /\ connecting' = f.channel
             ELSE agent' = "read" /\ connecting' = connecting
          /\ channels' = IF f.type = "CLOSE_SESSION" THEN channels \ {f.channel} ELSE channels
  BY AgentTurn
<1>6. (Dead => Dead') /\ Dispatching
  BY <1>1 DEF Dead, Dispatching
<1>7. TypeOK'
  <2>1. down' \in Seq(ServerFrames)
    BY <1>1 DEF TunnelInv, TypeOK
  <2>2. QED
    BY <1>1, <1>2, <2>1 DEF TunnelInv, TypeOK
<1>8. FramesInTurn'
  BY <1>1, <1>3, <1>5, TurnRead DEF TunnelInv
<1>9. NothingMissing'
  BY <1>1, <1>3, <1>5, TurnRead DEF TunnelInv
<1>10. KnownChannels'
  BY <1>1, <1>2, <1>3, <1>6, KnownStays DEF TunnelInv
<1>11. UpInOrder'
  BY <1>1, <1>6, UpStays DEF TunnelInv
<1>12. DownInOrder'
  BY <1>1, <1>2, <1>4, <1>6, DownRead DEF TunnelInv
<1>13. BytesInOrder'
  <2>1. ASSUME NEW c \in Channels
        PROVE  InOrder(delivered'[c]) /\ Len(delivered'[c]) <= written[c]
    <3>1. InOrder(delivered[c]) /\ Len(delivered[c]) <= written[c]
      BY DEF TunnelInv, BytesInOrder
    <3>2. CASE delivered'[c] = delivered[c]
      BY <3>1, <3>2
    <3>3. CASE Data(Head(down), c) /\ delivered'[c] = Append(delivered[c], Head(down).at)
      <4> DEFINE d == Len(delivered[c])
      <4>1. PICK last \in d..written[c] : Carries(down, c, d, last)
        BY <1>6 DEF TunnelInv, DownInOrder
      <4>2. /\ d \in Nat /\ written[c] \in Nat /\ delivered[c] \in Seq(Nat) /\ down \in Seq(ServerFrames)
        BY DEF TunnelInv, TypeOK
      <4>3. last \in Nat
        <5> HIDE DEF d
        <5>1. QED
          BY <4>2
      <4>4. Head(down).at = d + 1 /\ d + 1 <= last
        BY <1>1, <3>3, <4>1, <4>2, <4>3, CarriesShifted
      <4>5. d + 1 <= written[c] /\ d + 1 \in Nat
        <5> HIDE DEF d
        <5>1. QED
          BY <4>2, <4>4
      <4>6. delivered'[c] = Append(delivered[c], d + 1) /\ Len(delivered'[c]) = d + 1
        BY <3>3, <4>4
      <4>7. InOrder(delivered'[c])
        BY <3>1, <4>2, <4>6, InOrderAppended
      <4>8. QED
        BY <4>5, <4>6, <4>7
    <3>4. QED
      BY <1>4, <3>2, <3>3
  <2>2. QED
    BY <1>1, <2>1 DEF TunnelInv, BytesInOrder
<1>14. AgentBackpressure'
  BY <1>1, <1>3, BackpressureStays DEF TunnelInv
<1>15. SessionLife' /\ OnlyCrossingKills'
  BY <1>1 DEF TunnelInv, SessionLife, OnlyCrossingKills
<1>16. QED
  BY <1>7, <1>8, <1>9, <1>10, <1>11, <1>12, <1>13, <1>14, <1>15 DEF TunnelInv

\* connect_local returns: the channel that was awaited is one that the agent has.
LEMMA AgentConnectsKeeps ==
    ASSUME TunnelInv, AgentConnects
    PROVE  TunnelInv'
<1>1. /\ connecting # NoChannel
      /\ local' = [local EXCEPT ![connecting] = "open"]
      /\ forward' = [forward EXCEPT ![connecting] = "reading"]
      /\ channels' = channels \cup {connecting} /\ connecting' = NoChannel /\ agent' = "read"
      /\ UNCHANGED <<handler, pending, idle, open, retired, stream, transport, queued, written,
                      closeTask, got, down, up, lost, awaits, produced, delivered>>
  BY DEF AgentConnects, serverVars
<1>2. agent = "connect" /\ connecting \in Channels /\ Dispatching /\ Dispatching'
  BY <1>1 DEF TunnelInv, TypeOK, Dispatching
<1>3. \A c \in Channels : /\ local'[c] = IF c = connecting THEN "open" ELSE local[c]
                          /\ forward'[c] = IF c = connecting THEN "reading" ELSE forward[c]
                          /\ connecting' # c
  BY <1>1, ChannelsAssumption DEF TunnelInv, TypeOK, NoChannel
<1>4. \A c \in Channels : /\ Reached(c)' <=> Reached(c)
                          /\ \A type : InFlight(type, c)' <=> InFlight(type, c)
  BY <1>1, <1>3 DEF Reached, InFlight
<1>5. /\ stream[connecting] # "none" /\ forward[connecting] = "none" /\ connecting \notin channels
      /\ ~InFlight("OPEN_SESSION", connecting)
  BY <1>2 DEF TunnelInv, FramesInTurn, Reached
<1>6. Dead' <=> Dead
  BY <1>1, <1>2 DEF Dead
<1>7. TypeOK'
  BY <1>1 DEF TunnelInv, TypeOK
<1>8. FramesInTurn'
  <2>1. ASSUME NEW c \in Channels
        PROVE  /\ connecting' = c \/ InFlight("OPEN_SESSION", c)' => c \notin channels' /\ forward'[c] = "none"
               /\ connecting' = c => ~InFlight("OPEN_SESSION", c)'
    BY <1>1, <1>2, <1>3, <1>4 DEF TunnelInv, FramesInTurn
  <2>2. ASSUME NEW c \in Channels
        PROVE  /\ stream'[c] = "none" => ~Reached(c)' /\ \A i \in 1..Len(down') : down'[i].channel # c
               /\ InFlight("SESSION_DATA", c)' => Reached(c)'
               /\ InFlight("CLOSE_SESSION", c)' => closeTask'[c] \in {"drain", "done"}
               /\ \A i, j \in 1..Len(down') : down'[i].channel = c /\ down'[j].channel = c /\ i < j =>
                      down'[i].type # "CLOSE_SESSION" /\ down'[j].type # "OPEN_SESSION"
    BY <1>1, <1>2, <1>4 DEF TunnelInv, FramesInTurn
  <2>3. QED
    BY <2>1, <2>2 DEF FramesInTurn
<1>9. NothingMissing'
  BY <1>1, <1>2, <1>4, <1>6 DEF TunnelInv, NothingMissing
<1>10. KnownChannels'
  BY <1>1, <1>2, <1>3, <1>5 DEF TunnelInv, KnownChannels
<1>11. UpInOrder'
  BY <1>1, <1>6, UpStays DEF TunnelInv
<1>12. DownInOrder'
  BY <1>1, <1>2, <1>6, DownStays DEF TunnelInv, Routed
<1>13. AgentBackpressure'
  <2>1. Waiting(up, connecting) = 0
    <3>1. \A i \in 1..Len(up) : up[i].channel # connecting
      BY <1>2, <1>5 DEF TunnelInv, KnownChannels
    <3>2. {i \in 1..Len(up) : up[i].channel = connecting} = {}
      BY <3>1
    <3>3. QED
      BY <3>2, FS_EmptySet DEF Waiting
  <2>2. \A c \in Channels : Waiting(up, c)' = Waiting(up, c)
    BY <1>1
  <2>3. ASSUME NEW c \in Channels
        PROVE  Waiting(up, c) <= HighWater + (IF forward'[c] = "reading" THEN 0 ELSE 1)
    BY <1>3, <2>1, BoundsAssumption DEF TunnelInv, AgentBackpressure
  <2>4. QED
    BY <2>2, <2>3 DEF AgentBackpressure
<1>14. SessionLife' /\ BytesInOrder' /\ OnlyCrossingKills'
  BY <1>1, BytesStay DEF TunnelInv, SessionLife, OnlyCrossingKills
<1>15. QED
  BY <1>7, <1>8, <1>9, <1>10, <1>11, <1>12, <1>13, <1>14 DEF TunnelInv

\* connect_local raises, and the dispatch loop is left.
LEMMA AgentRefusedKeeps ==
    ASSUME TunnelInv, AgentRefused
    PROVE  TunnelInv'
<1>1. /\ agent = "connect" /\ agent' = "unwind" /\ connecting' = NoChannel
      /\ UNCHANGED <<handler, pending, idle, open, retired, stream, transport, queued, written,
                      closeTask, got, down, up, lost, awaits, local, channels, forward, produced,
                      delivered>>
  BY DEF AgentRefused, serverVars
<1>2. TypeOK'
  BY <1>1 DEF TunnelInv, TypeOK
<1>3. FramesInTurn'
  BY <1>1 DEF FramesInTurn, Dispatching
<1>4. NothingMissing'
  BY <1>1 DEF NothingMissing, Dispatching
<1>5. KnownChannels'
  BY <1>1, KnownStays DEF TunnelInv, Dispatching
<1>6. UpInOrder'
  BY <1>1, UpStays DEF TunnelInv, Dead
<1>7. DownInOrder'
  BY <1>1, DownStays DEF TunnelInv, Dead, Dispatching, Routed
<1>8. SessionLife' /\ BytesInOrder' /\ OnlyCrossingKills' /\ AgentBackpressure'
  BY <1>1, BytesStay, BackpressureStays DEF TunnelInv, SessionLife, OnlyCrossingKills
<1>9. QED
  BY <1>2, <1>3, <1>4, <1>5, <1>6, <1>7, <1>8 DEF TunnelInv

\* The agent meets the end of the connection.
LEMMA AgentEofKeeps ==
    ASSUME TunnelInv, AgentEof
    PROVE  TunnelInv'
<1>1. /\ agent = "read" /\ agent' = "unwind"
      /\ UNCHANGED <<handler, pending, idle, open, retired, stream, transport, queued, written,
                      closeTask, got, down, up, lost, connecting, awaits, local, channels, forward,
                      produced, delivered>>
  BY DEF AgentEof, serverVars
<1>2. TypeOK'
  BY <1>1 DEF TunnelInv, TypeOK
<1>3. FramesInTurn'
  BY <1>1 DEF FramesInTurn, Dispatching
<1>4. NothingMissing'
  BY <1>1 DEF NothingMissing, Dispatching
<1>5. KnownChannels'
  BY <1>1, KnownStays DEF TunnelInv, Dispatching
<1>6. UpInOrder'
  BY <1>1, UpStays DEF TunnelInv, Dead
<1>7. DownInOrder'
  BY <1>1, DownStays DEF TunnelInv, Dead, Dispatching, Routed
<1>8. SessionLife' /\ BytesInOrder' /\ OnlyCrossingKills' /\ AgentBackpressure'
  BY <1>1, BytesStay, BackpressureStays DEF TunnelInv, SessionLife, OnlyCrossingKills
<1>9. QED
  BY <1>2, <1>3, <1>4, <1>5, <1>6, <1>7, <1>8 DEF TunnelInv

\* The finally clause closes a channel, or the agent is done.
LEMMA AgentUnwindsKeeps ==
    ASSUME TunnelInv, AgentUnwinds
    PROVE  TunnelInv'
<1>1. /\ agent = "unwind" /\ agent' \in {"unwind", "done"} /\ down' \in {down, <<>>}
      /\ \/ UNCHANGED <<awaits, local, channels, forward>>
         \/ \E c \in channels : CloseChannel(c)
      /\ awaits = NoChannel
      /\ agent' = "done" => awaits' = NoChannel
      /\ UNCHANGED <<handler, pending, idle, open, retired, stream, transport, queued, written,
                      closeTask, got, up, lost, connecting, produced, delivered>>
  BY DEF AgentUnwinds, CloseChannel, CloseRaises, serverVars
<1>2. /\ awaits' \in Channels \cup {NoChannel}
      /\ local' \in [Channels -> {"none", "open", "reset", "closing", "closed"}]
      /\ forward' \in [Channels -> {"none", "reading", "drain", "ended", "raised"}]
      /\ channels' \subseteq channels
      /\ \A c \in Channels : /\ forward'[c] = "none" <=> forward[c] = "none"
                             /\ forward'[c] = "reading" => forward[c] = "reading"
                             /\ local'[c] # local[c] => forward[c] # "none"
                             /\ local'[c] = "open" => local[c] = "open"
  <2>1. CASE UNCHANGED <<awaits, local, channels, forward>>
    BY <1>1, <2>1 DEF TunnelInv, TypeOK
  <2>2. CASE \E c \in channels : CloseChannel(c)
    <3>1. PICK ch \in channels : CloseChannel(ch)
      BY <2>2
    <3>2. ch \in Channels /\ forward[ch] # "none"
      BY DEF TunnelInv, TypeOK, KnownChannels
    <3>3. channels' \subseteq channels /\ awaits' \in Channels \cup {NoChannel}
      BY <1>1, <3>1, <3>2 DEF CloseChannel
    <3>4. PICK end \in {"closing", "closed"} :
             \/ UNCHANGED <<local, forward>>
             \/ /\ local' = [local EXCEPT ![ch] = end]
                /\ forward' = [forward EXCEPT ![ch] = "ended"]
      BY <3>1 DEF CloseChannel
    <3>5. ASSUME NEW c \in Channels
          PROVE  \/ UNCHANGED <<local[c], forward[c]>>
                 \/ c = ch /\ local'[c] = end /\ forward'[c] = "ended"
      BY <3>4 DEF TunnelInv, TypeOK
    <3>6. /\ local' \in [Channels -> {"none", "open", "reset", "closing", "closed"}]
          /\ forward' \in [Channels -> {"none", "reading", "drain", "ended", "raised"}]
      <4>1. /\ local \in [Channels -> {"none", "open", "reset", "closing", "closed"}]
            /\ forward \in [Channels -> {"none", "reading", "drain", "ended", "raised"}]
        BY DEF TunnelInv, TypeOK
      <4>2. QED
        BY <3>4, <4>1
    <3>7. QED
      BY <3>2, <3>3, <3>5, <3>6
  <2>3. QED
    BY <1>1, <2>1, <2>2
<1>3. (Dead => Dead') /\ ~Dispatching /\ ~Dispatching'
  BY <1>1 DEF Dead, Dispatching
<1>4. TypeOK'
  <2>1. down' \in Seq(ServerFrames)
    <3>1. down \in Seq(ServerFrames) /\ <<>> \in Seq(ServerFrames)
      BY DEF TunnelInv, TypeOK
    <3>2. QED
      BY <1>1, <3>1
  <2>2. QED
    BY <1>1, <1>2, <2>1 DEF TunnelInv, TypeOK
<1>5. FramesInTurn'
  BY <1>3 DEF FramesInTurn
<1>6. NothingMissing'
  BY <1>3 DEF NothingMissing
<1>7. KnownChannels'
  BY <1>1, <1>2, <1>3, KnownStays DEF TunnelInv
<1>8. UpInOrder'
  BY <1>1, <1>3, UpStays DEF TunnelInv
<1>9. DownInOrder'
  BY <1>1, <1>3 DEF TunnelInv, DownInOrder
<1>10. AgentBackpressure'
  BY <1>1, <1>2, BackpressureStays DEF TunnelInv
<1>11. SessionLife' /\ BytesInOrder' /\ OnlyCrossingKills'
  BY <1>1, BytesStay DEF TunnelInv, SessionLife, OnlyCrossingKills
<1>12. QED
  BY <1>4, <1>5, <1>6, <1>7, <1>8, <1>9, <1>10, <1>11 DEF TunnelInv

\* sshd reads on, and what was awaited of it returns.
LEMMA AwaitReturnsKeeps ==
    ASSUME TunnelInv, AwaitReturns
    PROVE  TunnelInv'
<1>1. /\ awaits # NoChannel /\ awaits' = NoChannel
      /\ local' = [local EXCEPT ![awaits] = IF local[awaits] = "closing" THEN "closed" ELSE local[awaits]]
      /\ UNCHANGED <<handler, pending, idle, open, retired, stream, transport, queued, written,
                      closeTask, got, down, up, lost, agent, connecting, channels, forward, produced,
                      delivered>>
  BY DEF AwaitReturns, serverVars
<1>2. TypeOK'
  BY <1>1 DEF TunnelInv, TypeOK
<1>3. \A c \in Channels : /\ local'[c] # local[c] => forward[c] # "none"
                          /\ local'[c] = "open" => local[c] = "open"
  BY <1>1 DEF TunnelInv, TypeOK, KnownChannels
<1>4. FramesInTurn' /\ NothingMissing'
  BY <1>1, TurnStays, MissingStays DEF TunnelInv, Dispatching, Dead
<1>5. KnownChannels'
  BY <1>1, <1>3, KnownStays DEF TunnelInv, Dispatching
<1>6. UpInOrder' /\ DownInOrder'
  BY <1>1, UpStays, DownStays DEF TunnelInv, Dead, Dispatching, Routed
<1>7. SessionLife' /\ BytesInOrder' /\ OnlyCrossingKills' /\ AgentBackpressure'
  BY <1>1, BytesStay, BackpressureStays DEF TunnelInv, SessionLife, OnlyCrossingKills
<1>8. QED
  BY <1>2, <1>4, <1>5, <1>6, <1>7 DEF TunnelInv

\* sshd has reset the connection that is awaited: the loop or its finally clause is left.
LEMMA AwaitRaisesKeeps ==
    ASSUME TunnelInv, AwaitRaises
    PROVE  TunnelInv'
<1>1. /\ awaits # NoChannel /\ awaits' = NoChannel /\ down' \in {down, <<>>}
      /\ agent' = IF agent = "unwind" THEN "done" ELSE "unwind"
      /\ UNCHANGED <<handler, pending, idle, open, retired, stream, transport, queued, written,
                      closeTask, got, up, lost, connecting, local, channels, forward, produced,
                      delivered>>
  BY DEF AwaitRaises, serverVars
<1>2. agent \in {"read", "unwind"} /\ connecting = NoChannel
  BY <1>1 DEF TunnelInv, TypeOK
<1>3. (Dead => Dead') /\ ~Dispatching'
  BY <1>1, <1>2 DEF Dead, Dispatching
<1>4. TypeOK'
  <2>1. down' \in Seq(ServerFrames)
    <3>1. down \in Seq(ServerFrames) /\ <<>> \in Seq(ServerFrames)
      BY DEF TunnelInv, TypeOK
    <3>2. QED
      BY <1>1, <3>1
  <2>2. QED
    BY <1>1, <1>2, <2>1 DEF TunnelInv, TypeOK
<1>5. FramesInTurn' /\ NothingMissing'
  BY <1>3 DEF FramesInTurn, NothingMissing
<1>6. KnownChannels'
  BY <1>1, <1>3, KnownStays DEF TunnelInv
<1>7. UpInOrder'
  BY <1>1, <1>3, UpStays DEF TunnelInv
<1>8. DownInOrder'
  BY <1>1, <1>3 DEF TunnelInv, DownInOrder
<1>9. SessionLife' /\ BytesInOrder' /\ OnlyCrossingKills' /\ AgentBackpressure'
  BY <1>1, BytesStay, BackpressureStays DEF TunnelInv, SessionLife, OnlyCrossingKills
<1>10. QED
  BY <1>4, <1>5, <1>6, <1>7, <1>8, <1>9 DEF TunnelInv

\* A forwarder left behind by its agent raises.
LEMMA ForwardFailsKeeps ==
    ASSUME TunnelInv, NEW ch \in Channels, Forwards(ch), agent = "done"
    PROVE  TunnelInv'
<1>1. /\ forward[ch] = "reading" /\ forward' = [forward EXCEPT ![ch] = "raised"]
      /\ UNCHANGED <<handler, pending, idle, open, retired, stream, transport, queued, written,
                      closeTask, got, down, up, lost, agent, connecting, awaits, local, channels, produced,
                      delivered>>
  BY DEF Forwards, serverVars
<1>2. \A c \in Channels : forward'[c] = IF c = ch THEN "raised" ELSE forward[c]
  BY <1>1 DEF TunnelInv, TypeOK
<1>3. TypeOK'
  BY <1>1 DEF TunnelInv, TypeOK
<1>4. FramesInTurn'
  BY <1>1, TurnStays DEF TunnelInv, Dispatching
<1>5. KnownChannels'
  BY <1>1, KnownStays DEF TunnelInv, Dispatching
<1>6. AgentBackpressure'
  BY <1>1, BackpressureStays DEF TunnelInv
<1>7. /\ SessionLife' /\ NothingMissing' /\ UpInOrder' /\ DownInOrder' /\ BytesInOrder'
      /\ OnlyCrossingKills'
  BY <1>1, MissingStays, UpStays, DownStays, BytesStay
  DEF TunnelInv, SessionLife, Dispatching, Dead, Routed, OnlyCrossingKills
<1>8. QED
  BY <1>3, <1>4, <1>5, <1>6, <1>7 DEF TunnelInv

\* A forwarder puts the next bytes on the wire.
LEMMA ForwardSendsKeeps ==
    ASSUME TunnelInv, NEW ch \in Channels, Forwards(ch), agent # "done"
    PROVE  TunnelInv'
<1>1. /\ forward[ch] = "reading" /\ produced[ch] < MaxUp[ch] /\ forward' = [forward EXCEPT ![ch] = "drain"]
      /\ produced' = [produced EXCEPT ![ch] = produced[ch] + 1]
      /\ SendUp(Frame("SESSION_DATA", ch, produced[ch] + 1))
      /\ UNCHANGED <<handler, pending, idle, open, retired, stream, transport, queued, written,
                      closeTask, got, down, lost, agent, connecting, awaits, local, channels, delivered>>
  BY DEF Forwards, serverVars
<1>2. \A c \in Channels : /\ forward'[c] = IF c = ch THEN "drain" ELSE forward[c]
                          /\ produced'[c] = IF c = ch THEN produced[c] + 1 ELSE produced[c]
                          /\ produced[c] \in Nat /\ produced[c] + 1 \in Nat
  <2>1. forward \in [Channels -> {"none", "reading", "drain", "ended", "raised"}]
        /\ produced \in [Channels -> Nat]
    BY DEF TunnelInv, TypeOK
  <2>2. QED
    BY <1>1, <2>1
<1>3. PICK f \in DataFrames : /\ f = Frame("SESSION_DATA", ch, produced[ch] + 1) /\ f.type = "SESSION_DATA"
                              /\ f.channel = ch /\ f.at = produced[ch] + 1
  BY <1>2, FrameTyped
<1>4. /\ up \in Seq(DataFrames) /\ up' \in Seq(DataFrames)
      /\ \A i \in 1..Len(up') : (i \in 1..Len(up) /\ up'[i] = up[i]) \/ up'[i] = f
      /\ up' = IF Dead THEN up ELSE Append(up, f)
  <2>1. up \in Seq(DataFrames) /\ up' = IF Dead THEN up ELSE Append(up, f)
    BY <1>1, <1>3 DEF TunnelInv, TypeOK, SendUp
  <2>2. CASE Dead
    BY <2>1
  <2>3. CASE ~Dead
    BY <2>1
  <2>4. QED
    BY <2>2, <2>3
<1>5. stream[ch] # "none" /\ \A i \in 1..Len(up') : up'[i].channel \in Channels
  <2>1. \A i \in 1..Len(up) : up[i].channel \in Channels
    BY FramesTyped DEF TunnelInv
  <2>2. QED
    BY <1>1, <1>3, <1>4, <2>1 DEF TunnelInv, KnownChannels
<1>6. TypeOK'
  <2>1. \A c \in Channels : produced'[c] <= MaxUp[c]
    <3> SUFFICES ASSUME NEW c \in Channels PROVE produced'[c] <= MaxUp[c]
      OBVIOUS
    <3>1. produced[c] <= MaxUp[c] /\ MaxUp[ch] \in Nat
      BY BoundsAssumption DEF TunnelInv, TypeOK
    <3>2. CASE c = ch
      BY <1>1, <1>2, <3>1
    <3>3. CASE c # ch
      BY <1>2, <3>1, <3>3
    <3>4. QED
      BY <3>2, <3>3
  <2>2. produced' \in [Channels -> Nat]
    BY <1>1, <1>2 DEF TunnelInv, TypeOK
  <2>3. forward' \in [Channels -> {"none", "reading", "drain", "ended", "raised"}]
    BY <1>1 DEF TunnelInv, TypeOK
  <2>4. QED
    BY <1>1, <1>4, <2>1, <2>2 DEF TunnelInv, TypeOK
<1>7. FramesInTurn'
  BY <1>1, TurnStays DEF TunnelInv, Dispatching
<1>8. KnownChannels'
  <2>1. \A c \in Channels : forward'[c] = "none" => \A i \in 1..Len(up') : up'[i].channel # c
    BY <1>2, <1>3, <1>4 DEF TunnelInv, KnownChannels
  <2>2. \A i \in 1..Len(up') : stream[up'[i].channel] # "none"
    BY <1>3, <1>4, <1>5 DEF TunnelInv, KnownChannels
  <2>3. QED
    BY <1>1, <2>1, <2>2 DEF TunnelInv, KnownChannels, Dispatching
<1>9. UpInOrder'
  <2>1. \A c \in Channels : Taken(c)' = Taken(c) /\ Taken(c) \in Nat
    BY <1>1 DEF Taken
  <2>2. Dead' <=> Dead
    BY <1>1 DEF Dead
  <2>3. ASSUME NEW c \in Channels, handler \in {"read", "handle"}
        PROVE  \E last \in Taken(c)..produced'[c] :
                    Carries(up', c, Taken(c), last) /\ (~Dead => last = produced'[c])
    <3>1. PICK last \in Taken(c)..produced[c] :
            Carries(up, c, Taken(c), last) /\ (~Dead => last = produced[c])
      BY <2>3 DEF TunnelInv, UpInOrder
    <3>2. last \in Nat /\ Taken(c) \in Nat /\ Taken(c) <= last /\ last <= produced[c] /\ produced[c] \in Nat
      BY <1>2, <2>1
    <3>3. CASE Dead
      <4>1. last \in Taken(c)..produced'[c]
        BY <1>2
      <4>2. QED
        BY <1>4, <3>1, <3>3, <4>1
    <3>4. CASE ~Dead /\ c = ch
      <4>1. Data(f, c) /\ up' = Append(up, f) /\ f.at = last + 1
        BY <1>3, <1>4, <3>1, <3>4 DEF Data
      <4>2. Carries(up', c, Taken(c), last + 1)
        BY <1>4, <3>1, <3>2, <4>1, CarriesAppended
      <4>3. last + 1 \in Taken(c)..produced'[c] /\ last + 1 = produced'[c]
        BY <1>2, <3>1, <3>2, <3>4
      <4>4. QED
        BY <4>2, <4>3
    <3>5. CASE ~Dead /\ c # ch
      <4>1. ~Data(f, c) /\ up' = Append(up, f)
        BY <1>3, <1>4, <3>5 DEF Data
      <4>2. Carries(up', c, Taken(c), last)
        BY <1>4, <3>1, <3>2, <4>1, CarriesAppended
      <4>3. QED
        BY <1>2, <3>1, <3>5, <4>2
    <3>6. QED
      BY <3>3, <3>4, <3>5
  <2>4. ASSUME NEW c \in Channels, handler' \in {"read", "handle"}
        PROVE  /\ pending'.channel = c => pending'.at = Len(got'[c]) + 1
               /\ \E last \in Taken(c)'..produced'[c] :
                    Carries(up', c, Taken(c)', last) /\ (~Dead' => last = produced'[c])
    <3>1. handler \in {"read", "handle"}
      BY <1>1, <2>4
    <3>2. pending'.channel = c => pending'.at = Len(got'[c]) + 1
      BY <1>1, <3>1 DEF TunnelInv, UpInOrder
    <3>3. QED
      BY <2>1, <2>2, <2>3, <3>1, <3>2
  <2>5. QED
    BY <2>4 DEF UpInOrder
<1>10. BytesInOrder'
  <2>1. \A c \in Channels : Len(got[c]) \in Nat
    OBVIOUS
  <2>2. ASSUME NEW c \in Channels, Len(got[c]) <= produced[c] PROVE Len(got[c]) <= produced'[c]
    BY <1>2, <2>2
  <2>3. QED
    BY <1>1, <2>2, BytesStay DEF TunnelInv
<1>11. AgentBackpressure'
  <2>1. ASSUME NEW c \in Channels
        PROVE  Waiting(up', c) <= HighWater + (IF forward'[c] = "reading" THEN 0 ELSE 1)
    <3>1. Waiting(up, c) <= HighWater + (IF forward[c] = "reading" THEN 0 ELSE 1)
      BY DEF TunnelInv, AgentBackpressure
    <3>2. /\ Waiting(up, c) \in Nat /\ Waiting(up', c) \in Nat /\ Waiting(up', c) <= Waiting(up, c) + 1
          /\ c # ch => Waiting(up', c) <= Waiting(up, c)
      <4>1. CASE Dead
        <5>1. up' = up
          BY <1>4, <4>1
        <5>2. Waiting(up, c) \in Nat /\ Waiting(up', c) = Waiting(up, c)
          BY <1>4, <5>1, CountBounded
        <5>3. QED
          BY <5>2
      <4>2. CASE ~Dead
        BY <1>3, <1>4, <4>2, CountAppended
      <4>3. QED
        BY <4>1, <4>2
    <3>3. QED
      BY <1>1, <1>2, <3>1, <3>2, BoundsAssumption
  <2>2. QED
    BY <2>1 DEF AgentBackpressure
<1>12. SessionLife' /\ NothingMissing' /\ DownInOrder' /\ OnlyCrossingKills'
  BY <1>1, MissingStays, DownStays
  DEF TunnelInv, SessionLife, Dispatching, Dead, Routed, OnlyCrossingKills
<1>13. QED
  BY <1>6, <1>7, <1>8, <1>9, <1>10, <1>11, <1>12 DEF TunnelInv

\* A forwarder has read a chunk.
LEMMA ForwardsKeeps ==
    ASSUME TunnelInv, NEW ch \in Channels, Forwards(ch)
    PROVE  TunnelInv'
BY ForwardFailsKeeps, ForwardSendsKeeps

\* drain returns, or raises.
LEMMA ForwardDrainedKeeps ==
    ASSUME TunnelInv, NEW ch \in Channels, ForwardDrained(ch)
    PROVE  TunnelInv'
<1>1. /\ forward[ch] = "drain" /\ Len(up) <= HighWater
      /\ \/ forward' = [forward EXCEPT ![ch] = "reading"]
         \/ forward' = [forward EXCEPT ![ch] = "raised"]
      /\ UNCHANGED <<handler, pending, idle, open, retired, stream, transport, queued, written,
                      closeTask, got, down, up, lost, agent, connecting, awaits, local, channels, produced,
                      delivered>>
  BY DEF ForwardDrained, Drains, serverVars
<1>2. /\ \A c \in Channels : forward'[c] = "none" <=> forward[c] = "none"
      /\ \A c \in Channels \ {ch} : forward'[c] = forward[c]
  <2>1. forward \in [Channels -> {"none", "reading", "drain", "ended", "raised"}]
    BY DEF TunnelInv, TypeOK
  <2>2. QED
    BY <1>1, <2>1
<1>3. TypeOK'
  BY <1>1 DEF TunnelInv, TypeOK
<1>4. FramesInTurn'
  BY <1>1, <1>2, TurnStays DEF TunnelInv, Dispatching
<1>5. KnownChannels'
  BY <1>1, <1>2, KnownStays DEF TunnelInv, Dispatching
<1>6. AgentBackpressure'
  <2>1. ASSUME NEW c \in Channels
        PROVE  Waiting(up, c) <= HighWater + (IF forward'[c] = "reading" THEN 0 ELSE 1)
    <3>1. Waiting(up, c) \in Nat /\ Len(up) \in Nat /\ Waiting(up, c) <= Len(up)
      BY CountBounded, FramesTyped DEF TunnelInv, TypeOK
    <3>2. Waiting(up, c) <= HighWater
      BY <1>1, <3>1, BoundsAssumption
    <3>3. QED
      BY <3>1, <3>2, BoundsAssumption
  <2>2. QED
    BY <1>1, <2>1 DEF AgentBackpressure
<1>7. /\ SessionLife' /\ NothingMissing' /\ UpInOrder' /\ DownInOrder' /\ BytesInOrder'
      /\ OnlyCrossingKills'
  BY <1>1, MissingStays, UpStays, DownStays, BytesStay
  DEF TunnelInv, SessionLife, Dispatching, Dead, Routed, OnlyCrossingKills
<1>8. QED
  BY <1>3, <1>4, <1>5, <1>6, <1>7 DEF TunnelInv

\* sshd closes its side.
LEMMA LocalEofKeeps ==
    ASSUME TunnelInv, NEW ch \in Channels, LocalEof(ch)
    PROVE  TunnelInv'
<1>1. /\ forward[ch] = "reading" /\ forward' = [forward EXCEPT ![ch] = "ended"]
      /\ UNCHANGED <<handler, pending, idle, open, retired, stream, transport, queued, written,
                      closeTask, got, down, up, lost, agent, connecting, awaits, local, channels, produced,
                      delivered>>
  BY DEF LocalEof, serverVars
<1>2. \A c \in Channels : forward'[c] = IF c = ch THEN "ended" ELSE forward[c]
  BY <1>1 DEF TunnelInv, TypeOK
<1>3. TypeOK'
  BY <1>1 DEF TunnelInv, TypeOK
<1>4. FramesInTurn'
  BY <1>1, TurnStays DEF TunnelInv, Dispatching
<1>5. KnownChannels'
  BY <1>1, KnownStays DEF TunnelInv, Dispatching
<1>6. AgentBackpressure'
  BY <1>1, BackpressureStays DEF TunnelInv
<1>7. /\ SessionLife' /\ NothingMissing' /\ UpInOrder' /\ DownInOrder' /\ BytesInOrder'
      /\ OnlyCrossingKills'
  BY <1>1, MissingStays, UpStays, DownStays, BytesStay
  DEF TunnelInv, SessionLife, Dispatching, Dead, Routed, OnlyCrossingKills
<1>8. QED
  BY <1>3, <1>4, <1>5, <1>6, <1>7 DEF TunnelInv

\* sshd resets the connection.
LEMMA LocalResetKeeps ==
    ASSUME TunnelInv, NEW ch \in Channels, LocalReset(ch)
    PROVE  TunnelInv'
<1>1. /\ local[ch] \in {"open", "closing"} /\ local' = [local EXCEPT ![ch] = "reset"]
      /\ forward' = [forward EXCEPT ![ch] = IF forward[ch] = "ended" THEN forward[ch] ELSE "raised"]
      /\ UNCHANGED <<handler, pending, idle, open, retired, stream, transport, queued, written,
                      closeTask, got, down, up, lost, agent, connecting, awaits, channels, produced,
                      delivered>>
  BY DEF LocalReset, serverVars
<1>2. \A c \in Channels : /\ local'[c] = IF c = ch THEN "reset" ELSE local[c]
                          /\ c # ch => forward'[c] = forward[c]
  BY <1>1 DEF TunnelInv, TypeOK
<1>3. forward'[ch] # "none" /\ forward[ch] # "none" /\ forward'[ch] # "reading"
  BY <1>1 DEF TunnelInv, TypeOK, KnownChannels
<1>4. TypeOK'
  BY <1>1 DEF TunnelInv, TypeOK
<1>5. FramesInTurn'
  BY <1>1, <1>3, TurnStays DEF TunnelInv, Dispatching
<1>6. KnownChannels'
  BY <1>1, <1>3, KnownStays DEF TunnelInv, Dispatching
<1>7. AgentBackpressure'
  BY <1>1, BackpressureStays DEF TunnelInv
<1>8. /\ SessionLife' /\ NothingMissing' /\ UpInOrder' /\ DownInOrder' /\ BytesInOrder'
      /\ OnlyCrossingKills'
  BY <1>1, MissingStays, UpStays, DownStays, BytesStay
  DEF TunnelInv, SessionLife, Dispatching, Dead, Routed, OnlyCrossingKills
<1>9. QED
  BY <1>4, <1>5, <1>6, <1>7, <1>8 DEF TunnelInv

-----------------------------------------------------------------------------
(* The network and the clock.                                              *)

\* The connection drops with what is in flight.
LEMMA LoseTransportKeeps ==
    ASSUME TunnelInv, LoseTransport
    PROVE  TunnelInv'
<1>1. /\ lost' = TRUE /\ down' = <<>> /\ up' = <<>>
      /\ UNCHANGED <<handler, pending, idle, open, retired, stream, transport, queued, written,
                      closeTask, got, agent, connecting, awaits, local, channels, forward, produced,
                      delivered>>
  BY DEF LoseTransport, serverVars, agentVars
<1>2. Dead'
  BY <1>1 DEF Dead
<1>3. \A c \in Channels : \A type : ~InFlight(type, c)' 
  BY <1>1 DEF InFlight
<1>4. \A c \in Channels : Reached(c)' => Reached(c)
  BY <1>1, <1>3 DEF Reached
<1>5. TypeOK'
  <2>1. down' \in Seq(ServerFrames) /\ up' \in Seq(DataFrames)
    BY <1>1
  <2>2. QED
    BY <1>1 DEF TunnelInv, TypeOK
<1>6. FramesInTurn'
  BY <1>1, <1>3, <1>4 DEF TunnelInv, FramesInTurn, Dispatching
<1>7. NothingMissing'
  BY <1>2 DEF NothingMissing
<1>8. KnownChannels'
  BY <1>1 DEF TunnelInv, KnownChannels, Dispatching
<1>9. UpInOrder'
  <2>1. ASSUME NEW c \in Channels, handler \in {"read", "handle"}
        PROVE  /\ pending.channel = c => pending.at = Len(got[c]) + 1
               /\ \E last \in Taken(c)..produced[c] : Carries(<<>>, c, Taken(c), last)
    <3>1. Taken(c) \in Nat /\ produced[c] \in Nat
      BY DEF TunnelInv, TypeOK, Taken
    <3>2. PICK last \in Taken(c)..produced[c] : Carries(up, c, Taken(c), last)
      BY <2>1 DEF TunnelInv, UpInOrder
    <3>3. Taken(c) \in Taken(c)..produced[c] /\ Carries(<<>>, c, Taken(c), Taken(c))
      BY <3>1, CarriesNothing
    <3>4. QED
      BY <2>1, <3>3 DEF TunnelInv, UpInOrder
  <2>2. \A c \in Channels : Taken(c)' = Taken(c)
    BY <1>1 DEF Taken
  <2>3. QED
    BY <1>1, <1>2, <2>1, <2>2 DEF UpInOrder
<1>10. DownInOrder'
  <2>1. ASSUME NEW c \in Channels
        PROVE  \E last \in Len(delivered[c])..written[c] : Carries(<<>>, c, Len(delivered[c]), last)
    <3>1. Len(delivered[c]) \in Nat /\ written[c] \in Nat /\ Len(delivered[c]) <= written[c]
      BY DEF TunnelInv, TypeOK, BytesInOrder
    <3>2. Len(delivered[c]) \in Len(delivered[c])..written[c]
      BY <3>1
    <3>3. QED
      BY <3>2, CarriesNothing
  <2>2. QED
    BY <1>1, <1>2, <2>1 DEF TunnelInv, DownInOrder
<1>11. AgentBackpressure'
  BY <1>1, NothingWaits DEF TunnelInv
<1>12. SessionLife' /\ BytesInOrder' /\ OnlyCrossingKills'
  BY <1>1, BytesStay DEF TunnelInv, SessionLife, OnlyCrossingKills
<1>13. QED
  BY <1>5, <1>6, <1>7, <1>8, <1>9, <1>10, <1>11, <1>12 DEF TunnelInv

\* A heartbeat interval passes.
LEMMA IntervalKeeps ==
    ASSUME TunnelInv, Interval
    PROVE  TunnelInv'
<1>1. /\ idle < MaxIdle /\ idle' = idle + 1
      /\ UNCHANGED <<handler, pending, open, retired, stream, transport, queued, written, closeTask,
                      got, down, up, lost, agent, connecting, awaits, local, channels, forward, produced,
                      delivered>>
  BY DEF Interval, agentVars
<1>2. TypeOK'
  BY <1>1, BoundsAssumption DEF TunnelInv, TypeOK
<1>3. /\ SessionLife' /\ FramesInTurn' /\ NothingMissing' /\ KnownChannels' /\ UpInOrder'
      /\ DownInOrder' /\ BytesInOrder' /\ OnlyCrossingKills' /\ AgentBackpressure'
  BY <1>1, TurnStays, MissingStays, KnownStays, UpStays, DownStays, BytesStay, BackpressureStays
  DEF TunnelInv, SessionLife, Dispatching, Dead, Routed, OnlyCrossingKills
<1>4. QED
  BY <1>2, <1>3 DEF TunnelInv

-----------------------------------------------------------------------------
(* The theorems.                                                           *)

\* A stuttering step.
LEMMA StutterKeeps ==
    ASSUME TunnelInv, UNCHANGED vars
    PROVE  TunnelInv'
<1>1. UNCHANGED <<handler, pending, idle, open, retired, stream, transport, queued, written, closeTask,
                  got, down, up, lost, agent, connecting, awaits, local, channels, forward, produced, delivered>>
  BY DEF vars, serverVars, agentVars
<1>2. TypeOK' /\ SessionLife' /\ OnlyCrossingKills'
  BY <1>1 DEF TunnelInv, TypeOK, SessionLife, OnlyCrossingKills
<1>3. (Dead => Dead') /\ (Dispatching' => Dispatching) /\ \A c \in Channels : Routed(c)' => Routed(c)
  BY <1>1 DEF Dead, Dispatching, Routed
<1>4. FramesInTurn' /\ NothingMissing' /\ KnownChannels'
  BY <1>1, <1>3, TurnStays, MissingStays, KnownStays DEF TunnelInv
<1>5. UpInOrder' /\ DownInOrder'
  BY <1>1, <1>3, UpStays, DownStays DEF TunnelInv
<1>6. BytesInOrder' /\ AgentBackpressure'
  BY <1>1, BytesStay, BackpressureStays DEF TunnelInv
<1>7. QED
  BY <1>2, <1>4, <1>5, <1>6 DEF TunnelInv

\* A tunnel that has just been registered carries AUTH_OK and nothing else.
LEMMA InitHolds ==
    ASSUME Init
    PROVE  TunnelInv
<1>1. /\ Len(down) = 1 /\ down[1] = Frame("AUTH_OK", NoChannel, 0) /\ down \in Seq(ServerFrames)
      /\ up = <<>> /\ up \in Seq(DataFrames)
  BY DEF Init, ServerFrames, Frame
<1>2. \A c \in Channels : NoChannel # c /\ NoFrame.channel # c
  BY ChannelsAssumption DEF NoChannel, NoFrame, Frame
<1>3. \A i \in 1..Len(down) : down[i].type = "AUTH_OK" /\ \A c \in Channels : down[i].channel # c
  BY <1>1, <1>2 DEF Frame
<1>4. TypeOK
  <2>1. /\ queued \in [Channels -> Seq(Nat)] /\ got \in [Channels -> Seq(Nat)]
        /\ delivered \in [Channels -> Seq(Nat)]
    <3>1. <<>> \in Seq(Nat)
      OBVIOUS
    <3>2. QED
      BY DEF Init
  <2>2. \A c \in Channels : written[c] <= MaxDown[c] /\ produced[c] <= MaxUp[c]
    BY BoundsAssumption DEF Init
  <2>3. idle \in 0..MaxIdle
    BY BoundsAssumption DEF Init
  <2>4. QED
    BY <1>1, <2>1, <2>2, <2>3 DEF Init, TypeOK
<1>5. SessionLife /\ OnlyCrossingKills
  BY DEF Init, SessionLife, OnlyCrossingKills
<1>6. \A c \in Channels : ~Reached(c) /\ \A type : ~InFlight(type, c)
  BY <1>2, <1>3 DEF Init, Reached, InFlight
<1>7. FramesInTurn
  BY <1>3, <1>6 DEF Init, FramesInTurn
<1>8. NothingMissing
  BY DEF Init, NothingMissing
<1>9. KnownChannels
  BY DEF Init, KnownChannels
<1>10. UpInOrder
  <2>1. ASSUME NEW c \in Channels
        PROVE  Taken(c) = 0 /\ produced[c] = 0 /\ pending.channel # c
    BY <1>2 DEF Init, Taken
  <2>2. \A c \in Channels : Carries(up, c, 0, 0)
    BY <1>1, CarriesNothing
  <2>3. QED
    BY <2>1, <2>2 DEF UpInOrder
<1>11. DownInOrder
  <2>1. ASSUME NEW c \in Channels
        PROVE  Len(queued[c]) = 0 /\ Len(delivered[c]) = 0 /\ written[c] = 0
    BY DEF Init
  <2>2. \A c \in Channels : Carries(down, c, 0, 0)
    BY <1>3 DEF Carries
  <2>3. QED
    BY <2>1, <2>2 DEF DownInOrder
<1>12. BytesInOrder
  <2>1. InOrder(<<>>)
    BY DEF InOrder
  <2>2. QED
    BY <2>1 DEF Init, BytesInOrder
<1>13. AgentBackpressure
  <2>1. \A c \in Channels : Waiting(up, c) = 0
    BY <1>1, FS_EmptySet DEF Waiting
  <2>2. QED
    BY <2>1, BoundsAssumption DEF AgentBackpressure
<1>14. QED
  BY <1>4, <1>5, <1>7, <1>8, <1>9, <1>10, <1>11, <1>12, <1>13 DEF TunnelInv

\* Every step of the two programs, of sshd and of the network preserves the invariant.
LEMMA NextKeeps ==
    ASSUME TunnelInv, [Next]_vars
    PROVE  TunnelInv'
<1>1. ASSUME NEW ch \in Channels,
             \/ OpenSession(ch) \/ CreateConnection(ch) \/ TransportWrite(ch) \/ WriteRuns(ch)
             \/ SshCloses(ch) \/ ReadLoopEnds(ch) \/ CloseRuns(ch) \/ CloseDrained(ch)
      PROVE  TunnelInv'
  BY <1>1, OpenSessionKeeps, CreateConnectionKeeps, TransportWriteKeeps, WriteRunsKeeps,
     SshClosesKeeps, ReadLoopEndsKeeps, CloseRunsKeeps, CloseDrainedKeeps
<1>2. CASE HandleStream
  BY <1>2, ServerReadsKeeps, ServerHandlesKeeps, ServerEndsKeeps DEF HandleStream
<1>3. CASE DispatchLoop \/ AwaitReturns
  BY <1>3, AgentReadsKeeps, AgentConnectsKeeps, AgentRefusedKeeps, AgentEofKeeps, AgentUnwindsKeeps,
     AwaitRaisesKeeps, AwaitReturnsKeeps DEF DispatchLoop
<1>4. ASSUME NEW ch \in Channels, Forwards(ch) \/ ForwardDrained(ch) \/ LocalEof(ch) \/ LocalReset(ch)
      PROVE  TunnelInv'
  BY <1>4, ForwardsKeeps, ForwardDrainedKeeps, LocalEofKeeps, LocalResetKeeps
<1>5. CASE LoseTransport \/ Interval
  BY <1>5, LoseTransportKeeps, IntervalKeeps
<1>6. CASE UNCHANGED vars
  BY <1>6, StutterKeeps
<1>7. QED
  BY <1>1, <1>2, <1>3, <1>4, <1>5, <1>6 DEF Next, Server, Agent

\* TunnelInv is an inductive invariant of a tunnel: the types, the life of a session at the
\* server, the turn of its frames on the wire, and the positions of its bytes in both directions.
THEOREM TunnelInvariant == Spec => []TunnelInv
<1>1. Init => TunnelInv
  BY InitHolds
<1>2. TunnelInv /\ [Next]_vars => TunnelInv'
  BY NextKeeps
<1>3. QED
  BY <1>1, <1>2, PTL DEF Spec

\* The bytes of every session arrive in order, without a gap and without a repetition, at sshd
\* and at AsyncSSH, for any number of sessions and frames and wherever the tunnel breaks.
THEOREM BytesArriveInOrder == Spec => []BytesInOrder
<1>1. TunnelInv => BytesInOrder
  BY DEF TunnelInv
<1>2. QED
  BY <1>1, TunnelInvariant, PTL

\* The server's own frames never make the agent's dispatch loop raise: it has the channel of
\* every data frame it reads, and of no OPEN_SESSION.
THEOREM AgentIsNeverConfused == Spec => []AgentNeverConfused
<1>1. TunnelInv => AgentNeverConfused
  <2> SUFFICES ASSUME TunnelInv, agent = "read", down # <<>>
               PROVE  LET f == Head(down) IN
                      /\ f.type = "SESSION_DATA" => f.channel \in channels
                      /\ f.type = "OPEN_SESSION" => f.channel \notin channels
    BY DEF AgentNeverConfused
  <2> DEFINE f == Head(down)
  <2>1. f = down[1] /\ 1 \in 1..Len(down) /\ f \in ServerFrames /\ Len(down) \in Nat
    BY DEF TunnelInv, TypeOK
  <2>2. Dispatching /\ \A c \in Channels : connecting # c
    BY ChannelsAssumption DEF TunnelInv, TypeOK, Dispatching, NoChannel
  <2>3. ASSUME f.type \in {"SESSION_DATA", "OPEN_SESSION"}
        PROVE  f.channel \in Channels /\ InFlight(f.type, f.channel)
    BY <2>1, <2>3 DEF ServerFrames, InFlight
  <2>4. ASSUME f.type = "OPEN_SESSION" PROVE f.channel \notin channels
    BY <2>2, <2>3, <2>4 DEF TunnelInv, FramesInTurn
  <2>5. ASSUME f.type = "SESSION_DATA" PROVE f.channel \in channels
    <3>1. f.channel \in Channels /\ Reached(f.channel)
      BY <2>2, <2>3, <2>5 DEF TunnelInv, FramesInTurn
    <3>2. ASSUME InFlight("OPEN_SESSION", f.channel) PROVE FALSE
      <4>1. PICK j \in 1..Len(down) : down[j].type = "OPEN_SESSION" /\ down[j].channel = f.channel
        BY <3>2 DEF InFlight
      <4>2. 1 < j
        BY <2>5, <4>1
      <4>3. QED
        BY <2>2, <3>1, <4>1, <4>2 DEF TunnelInv, FramesInTurn
    <3>3. QED
      BY <2>2, <3>1, <3>2 DEF Reached
  <2>6. QED
    BY <2>4, <2>5
<1>2. QED
  BY <1>1, TunnelInvariant, PTL

\* The only frame of the agent that the server rejects is data of a channel that the server has
\* just closed itself.
THEOREM OnlyCrossingDataKills == Spec => []OnlyCrossingKills
<1>1. TunnelInv => OnlyCrossingKills
  BY DEF TunnelInv
<1>2. QED
  BY <1>1, TunnelInvariant, PTL

\* While the tunnel is up, a connection to sshd belongs to a channel that the server still has,
\* or CLOSE_SESSION for it is on the wire, or the agent is leaving.
THEOREM ConnectionsAreOwned == Spec => []NoStrayConnection
<1>1. TunnelInv => NoStrayConnection
  <2> SUFFICES ASSUME TunnelInv, NEW ch \in Channels, local[ch] = "open", handler # "done", ~lost,
                      ch \notin open, agent \notin {"unwind", "done"}
               PROVE  InFlight("CLOSE_SESSION", ch)
    BY DEF NoStrayConnection
  <2>1. Dispatching /\ ~Dead
    BY DEF TunnelInv, TypeOK, Dispatching, Dead
  <2>2. ch \in channels /\ Reached(ch) /\ stream[ch] # "none"
    BY <2>1 DEF TunnelInv, KnownChannels, Reached
  <2>3. closeTask[ch] \in {"drain", "done"}
    BY <2>2 DEF TunnelInv, TypeOK, SessionLife
  <2>4. QED
    BY <2>1, <2>2, <2>3 DEF TunnelInv, NothingMissing
<1>2. QED
  BY <1>1, TunnelInvariant, PTL

\* A session holds back when the server does not read: it reads from sshd only while no more of
\* its frames than the mark wait, and never has more than one beyond it.
THEOREM BackpressureHolds == Spec => []AgentBackpressure
<1>1. TunnelInv => AgentBackpressure
  BY DEF TunnelInv
<1>2. QED
  BY <1>1, TunnelInvariant, PTL
=============================================================================
