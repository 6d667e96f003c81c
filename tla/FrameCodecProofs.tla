-------------------------- MODULE FrameCodecProofs --------------------------
(***************************************************************************)
(* The framed protocol keeps its promise for any sizes, limits and numbers *)
(* of frames, wherever the connection is cut: FrameCodec implements        *)
(* FrameFifo, refuses nothing that the two programs encode but for the one *)
(* exception, and takes no torn stream for a clean end.                    *)
(*                                                                         *)
(* The heart of it is WireInStep: there is a numbering of the parts on the *)
(* wire by the frames they belong to.  A part that is read shifts the      *)
(* numbering, a cut shortens it and a frame that is written extends it.    *)
(***************************************************************************)
EXTENDS FrameCodec, SequenceTheorems, TLAPS

WireParts == [kind : {"prefix", "header", "payload"}, frame : Frames]

\* What is known of every frame.
LEMMA FrameFacts ==
    ASSUME NEW f \in Frames
    PROVE  /\ f.length \in Nat /\ f.flaw \in Flaws /\ f.own \in BOOLEAN
           /\ f.own => f \in OwnFrames /\ f.flaw = "none"
<1>1. f.length \in Nat /\ f.flaw \in Flaws
  BY SizesAssumption DEF Frames, OwnFrames, ForeignFrames, Flaws
<1>2. CASE f \in OwnFrames
  BY <1>1, <1>2 DEF OwnFrames
<1>3. CASE f \in ForeignFrames
  BY <1>1, <1>3 DEF ForeignFrames
<1>4. QED
  BY <1>2, <1>3 DEF Frames

\* The parts of a frame.
LEMMA PartsShape ==
    ASSUME NEW f \in Frames
    PROVE  /\ Parts(f) \in Seq(WireParts)
           /\ Len(Parts(f)) = IF f.length = 0 THEN 2 ELSE 3
           /\ Parts(f)[1] = Part("prefix", f) /\ Parts(f)[2] = Part("header", f)
           /\ f.length # 0 => Parts(f)[3] = Part("payload", f)
<1>1. \A kind \in {"prefix", "header", "payload"} : Part(kind, f) \in WireParts
  BY DEF Part, WireParts
<1>2. CASE f.length = 0
  <2>1. Parts(f) = <<Part("prefix", f), Part("header", f)>>
    BY <1>2 DEF Parts
  <2>2. QED
    BY <1>1, <1>2, <2>1
<1>3. CASE f.length # 0
  <2>1. Parts(f) = <<Part("prefix", f), Part("header", f), Part("payload", f)>>
    BY <1>3 DEF Parts
  <2>2. QED
    BY <1>1, <1>3, <2>1
<1>4. QED
  BY <1>2, <1>3

\* A part that is the last of its frame is followed by a prefix, and no other is.
LEMMA PrefixAfterClosing ==
    ASSUME NEW part \in WireParts
    PROVE  /\ KindAfter(part) = "prefix" <=> Closes(part)
           /\ KindAfter(part) \in {"prefix", "header", "payload"}
BY DEF KindAfter

\* A sequence is empty when its length is.
LEMMA EmptyWire ==
    ASSUME NEW S, NEW s \in Seq(S)
    PROVE  Len(s) \in Nat /\ (s = <<>> <=> Len(s) = 0)
BY EmptySeq, LenProperties

-----------------------------------------------------------------------------
\* A part is read: the numbering of the wire is shifted by one.
LEMMA WireAdvances ==
    ASSUME TypeOK, WireInStep, CutIsNoticed, end = "open", wire # <<>>,
           wire' = Tail(wire), UNCHANGED <<sent, cut, within>>,
           Due' = KindAfter(Head(wire)),
           \A n \in [1..Len(wire) -> 1..Len(sent)] : Numbers(n) => Begun' = n[1]
    PROVE  WireInStep' /\ CutIsNoticed'
<1> DEFINE L == Len(wire)
<1>1. wire \in Seq(WireParts) /\ L \in Nat /\ L > 0
  BY EmptyWire DEF TypeOK, WireParts
<1>2. /\ wire' \in Seq(WireParts) /\ Len(wire') = L - 1 /\ Head(wire) = wire[1]
      /\ \A i \in 1..(L - 1) : wire'[i] = wire[i + 1]
  BY <1>1, HeadTailProperties
<1>3. (wire' = <<>> <=> L = 1) /\ (L = 1 \/ L > 1)
  <2>1. wire' = <<>> <=> Len(wire') = 0
    BY <1>2, EmptyWire
  <2>2. QED
    BY <1>1, <1>2, <2>1
<1>4. \A i \in 1..L : wire[i] \in WireParts
  BY <1>1, ElementOfSeq
<1>5. PICK n \in [1..L -> 1..Len(sent)] : Numbers(n)
  BY DEF WireInStep
<1>6. PICK m : m = [i \in 1..(L - 1) |-> n[i + 1]]
  OBVIOUS
<1>7. m \in [1..(L - 1) -> 1..Len(sent)] /\ \A i \in 1..(L - 1) : m[i] = n[i + 1]
  BY <1>1, <1>5, <1>6
<1>8. Begun' = n[1] /\ Due' = KindAfter(wire[1])
  BY <1>2, <1>5
<1>9. Numbers(m)'
  <2>1. \A i \in 1..(L - 1) : wire'[i].frame = sent'[m[i]]
    BY <1>1, <1>2, <1>5, <1>7 DEF Numbers
  <2>2. \A i \in 1..(L - 1) : i < L - 1 =>
           /\ wire'[i + 1].kind = KindAfter(wire'[i])
           /\ m[i + 1] = IF Closes(wire'[i]) THEN m[i] + 1 ELSE m[i]
    <3> SUFFICES ASSUME NEW i \in 1..(L - 1), i < L - 1
                 PROVE  /\ wire'[i + 1].kind = KindAfter(wire'[i])
                        /\ m[i + 1] = IF Closes(wire'[i]) THEN m[i] + 1 ELSE m[i]
      OBVIOUS
    <3>1. i + 1 \in 1..(L - 1) /\ i + 1 \in 1..L /\ i + 1 < L
      BY <1>1
    <3>2. /\ wire'[i] = wire[i + 1] /\ wire'[i + 1] = wire[(i + 1) + 1]
          /\ m[i] = n[i + 1] /\ m[i + 1] = n[(i + 1) + 1]
      BY <1>2, <1>7, <3>1
    <3>3. QED
      BY <1>5, <3>1, <3>2 DEF Numbers
  <2>3. wire' # <<>> => wire'[1].kind = Due' /\ m[1] = IF Due' = "prefix" THEN Begun' + 1 ELSE Begun'
    <3> SUFFICES ASSUME wire' # <<>>
                 PROVE  wire'[1].kind = Due' /\ m[1] = IF Due' = "prefix" THEN Begun' + 1 ELSE Begun'
      OBVIOUS
    <3>1. L > 1 /\ 1 \in 1..(L - 1) /\ 1 \in 1..L
      BY <1>1, <1>3
    <3>2. wire'[1] = wire[2] /\ m[1] = n[2]
      BY <1>2, <1>7, <3>1
    <3>3. wire[2].kind = KindAfter(wire[1]) /\ n[2] = IF Closes(wire[1]) THEN n[1] + 1 ELSE n[1]
      BY <1>5, <3>1 DEF Numbers
    <3>4. QED
      BY <1>4, <1>8, <3>1, <3>2, <3>3, PrefixAfterClosing
  <2>4. cut' = "no" => IF wire' = <<>> THEN Due' = "prefix" /\ Begun' = Len(sent')
                       ELSE Closes(wire'[Len(wire')]) /\ m[Len(wire')] = Len(sent')
    <3> SUFFICES ASSUME cut = "no"
                 PROVE  IF wire' = <<>> THEN Due' = "prefix" /\ Begun' = Len(sent)
                        ELSE Closes(wire'[L - 1]) /\ m[L - 1] = Len(sent)
      BY <1>2
    <3>1. Closes(wire[L]) /\ n[L] = Len(sent)
      BY <1>5 DEF Numbers
    <3>2. CASE L = 1
      BY <1>3, <1>4, <1>8, <3>1, <3>2, PrefixAfterClosing
    <3>3. CASE L > 1
      <4>1. L - 1 \in 1..(L - 1) /\ (L - 1) + 1 = L
        BY <1>1, <3>3
      <4>2. wire'[L - 1] = wire[L] /\ m[L - 1] = n[L]
        BY <1>2, <1>7, <4>1
      <4>3. QED
        BY <1>3, <3>1, <3>3, <4>2
    <3>4. QED
      BY <1>3, <3>2, <3>3
  <2>5. QED
    BY <1>2, <2>1, <2>2, <2>3, <2>4 DEF Numbers, Closes, KindAfter
<1>10. WireInStep'
  BY <1>2, <1>7, <1>9 DEF WireInStep
<1>11. CutIsNoticed'
  <2>1. cut' = "no" => ~within'
    BY DEF CutIsNoticed
  <2>2. ASSUME cut = "clean", within
        PROVE  IF wire' = <<>> THEN stage' \in {"header", "payload"} ELSE ~Closes(wire'[L - 1])
    <3>1. ~Closes(wire[L])
      BY <2>2 DEF CutIsNoticed
    <3>2. CASE L = 1
      <4>1. Due' \in {"header", "payload"}
        BY <1>4, <1>8, <3>1, <3>2, PrefixAfterClosing
      <4>2. QED
        BY <1>3, <3>2, <4>1 DEF Due
    <3>3. CASE L > 1
      <4>1. wire'[L - 1] = wire[L]
        BY <1>1, <1>2, <3>3
      <4>2. QED
        BY <1>3, <3>1, <3>3, <4>1
    <3>4. QED
      BY <1>3, <3>2, <3>3
  <2>3. QED
    BY <1>2, <2>1, <2>2 DEF CutIsNoticed, Closes
<1>12. QED
  BY <1>10, <1>11

\* The connection is cut after part k: the numbering is shortened.
LEMMA CutKeepsStream ==
    ASSUME TypeOK, WireInStep, NEW k \in 0..Len(wire), Cut(k)
    PROVE  wire' \in Seq(WireParts) /\ WireInStep' /\ CutIsNoticed'
<1> DEFINE L == Len(wire)
<1>1. wire \in Seq(WireParts) /\ L \in Nat /\ k \in Nat /\ k =< L
  BY EmptyWire DEF TypeOK, WireParts
<1>2. wire' \in Seq(WireParts) /\ Len(wire') = k /\ \A i \in 1..k : wire'[i] = wire[i]
  <2>1. wire' = SubSeq(wire, 1, k)
    BY DEF Cut
  <2>2. QED
    BY <1>1, <2>1
<1>3. (wire' = <<>> <=> k = 0) /\ (wire = <<>> <=> L = 0)
  BY <1>1, <1>2, EmptyWire
<1>4. \A i \in 1..L : wire[i] \in WireParts
  BY <1>1, ElementOfSeq
<1>5. /\ end = "open" /\ cut' # "no" /\ UNCHANGED <<sent, stage, got, end>>
      /\ cut' = "clean" => within' = (k < L /\ wire[k + 1].kind # "prefix")
  BY DEF Cut, readerVars
<1>6. PICK n \in [1..L -> 1..Len(sent)] : Numbers(n)
  BY <1>5 DEF WireInStep
<1>7. WireInStep'
  <2>1. PICK m : m = [i \in 1..k |-> n[i]]
    OBVIOUS
  <2>2. m \in [1..k -> 1..Len(sent)] /\ \A i \in 1..k : m[i] = n[i] /\ i \in 1..L
    BY <1>1, <1>6, <2>1
  <2>3. \A i \in 1..k : wire'[i].frame = sent'[m[i]]
    BY <1>2, <1>5, <1>6, <2>2 DEF Numbers
  <2>4. ASSUME NEW i \in 1..k, i < k
        PROVE  /\ wire'[i + 1].kind = KindAfter(wire'[i])
               /\ m[i + 1] = IF Closes(wire'[i]) THEN m[i] + 1 ELSE m[i]
    <3>1. i + 1 \in 1..k /\ i < L
      BY <1>1, <2>4
    <3>2. QED
      BY <1>2, <1>6, <2>2, <3>1 DEF Numbers
  <2>5. wire' # <<>> => wire'[1].kind = Due' /\ m[1] = IF Due' = "prefix" THEN Begun' + 1 ELSE Begun'
    <3>1. wire' # <<>> => 1 \in 1..k /\ wire # <<>>
      BY <1>1, <1>3
    <3>2. Due' = Due /\ Begun' = Begun
      BY <1>5 DEF Due, Begun
    <3>3. QED
      BY <1>2, <1>6, <2>2, <3>1, <3>2 DEF Numbers
  <2>6. Numbers(m)'
    BY <1>2, <1>5, <2>3, <2>4, <2>5 DEF Numbers, Closes, KindAfter
  <2>7. QED
    BY <1>2, <1>5, <2>2, <2>6 DEF WireInStep
<1>8. CutIsNoticed'
  <2>1. ASSUME cut' = "clean", within'
        PROVE  IF wire' = <<>> THEN stage' \in {"header", "payload"} ELSE ~Closes(wire'[k])
    <3>1. k < L /\ wire[k + 1].kind # "prefix"
      BY <1>5, <2>1
    <3>2. CASE k = 0
      <4>1. Due # "prefix"
        BY <1>3, <1>6, <3>1, <3>2 DEF Numbers
      <4>2. stage \in {"header", "payload"}
        BY <4>1 DEF Due, TypeOK
      <4>3. QED
        BY <1>3, <1>5, <3>2, <4>2
    <3>3. CASE k > 0
      <4>1. k \in 1..L /\ k \in 1..k
        BY <1>1, <3>3
      <4>2. wire[k + 1].kind = KindAfter(wire[k])
        BY <1>6, <3>1, <4>1 DEF Numbers
      <4>3. ~Closes(wire[k])
        BY <1>4, <3>1, <4>1, <4>2, PrefixAfterClosing
      <4>4. QED
        BY <1>2, <1>3, <3>3, <4>1, <4>3
    <3>4. k = 0 \/ k > 0
      BY <1>1
    <3>5. QED
      BY <3>2, <3>3, <3>4
  <2>2. QED
    BY <1>2, <1>5, <2>1 DEF CutIsNoticed, Closes
<1>9. QED
  BY <1>2, <1>7, <1>8

\* A frame is written: the numbering goes on with it.
LEMMA SendKeepsStream ==
    ASSUME TypeOK, WireInStep, CutIsNoticed, NEW f \in Frames, Send(f)
    PROVE  /\ wire' \in Seq(WireParts) /\ sent' \in Seq(Frames) /\ Len(sent') = Len(sent) + 1
           /\ \A i \in 1..Len(sent) : sent'[i] = sent[i]
           /\ sent'[Len(sent) + 1] = f
           /\ WireInStep' /\ CutIsNoticed'
<1> DEFINE L == Len(wire)
           P == Len(Parts(f))
           S == Len(sent)
<1>1. wire \in Seq(WireParts) /\ L \in Nat /\ (P = 2 \/ P = 3) /\ Parts(f) \in Seq(WireParts) /\ S \in Nat
  BY EmptyWire, PartsShape DEF TypeOK, WireParts
<1>2. /\ wire' = wire \o Parts(f) /\ sent' = Append(sent, f)
      /\ end = "open" /\ cut = "no" /\ UNCHANGED <<cut, within, stage, got, end>>
  BY DEF Send, readerVars
<1>3. /\ sent' \in Seq(Frames) /\ Len(sent') = S + 1
      /\ \A i \in 1..S : sent'[i] = sent[i]
      /\ sent'[S + 1] = f
  BY <1>2, AppendProperties DEF TypeOK
<1>4. /\ wire' \in Seq(WireParts) /\ Len(wire') = L + P
      /\ \A i \in 1..L : wire'[i] = wire[i]
      /\ \A j \in 1..P : wire'[L + j] = Parts(f)[j]
  BY <1>1, <1>2, ConcatProperties
<1>5. /\ wire'[L + 1] = Part("prefix", f) /\ wire'[L + 2] = Part("header", f)
      /\ P = 3 => wire'[L + 3] = Part("payload", f)
      /\ P = 2 <=> f.length = 0
  BY <1>1, <1>4, PartsShape
<1>6. /\ Part("prefix", f).kind = "prefix" /\ Part("header", f).kind = "header"
      /\ Part("payload", f).kind = "payload"
      /\ \A kind : Part(kind, f).frame = f
  BY DEF Part
<1>7. wire' # <<>> /\ (wire = <<>> <=> L = 0)
  <2>1. Len(wire') # 0
    <3> HIDE DEF L, P
    <3> QED
      BY <1>1, <1>4
  <2>2. QED
    BY <1>1, <1>4, <2>1, EmptyWire
<1>8. PICK n \in [1..L -> 1..S] : Numbers(n)
  BY <1>2 DEF WireInStep
<1>9. PICK m : m = [i \in 1..(L + P) |-> IF i \in 1..L THEN n[i] ELSE S + 1]
  OBVIOUS
<1>10. /\ m \in [1..(L + P) -> 1..(S + 1)]
       /\ \A i \in 1..L : m[i] = n[i]
       /\ m[L + 1] = S + 1 /\ m[L + 2] = S + 1 /\ (P = 3 => m[L + 3] = S + 1)
  <2> HIDE DEF L, P, S
  <2> QED
    BY <1>1, <1>8, <1>9
<1>11. \A i \in 1..(L + P) : i \in 1..L \/ i = L + 1 \/ i = L + 2 \/ (P = 3 /\ i = L + 3)
  <2> HIDE DEF L, P
  <2> QED
    BY <1>1
<1>12. \A i \in 1..(L + P) : wire'[i].frame = sent'[m[i]]
  <2>1. ASSUME NEW i \in 1..L PROVE wire'[i].frame = sent'[m[i]]
    <3>1. wire[i].frame = sent[n[i]] /\ n[i] \in 1..S
      BY <1>8 DEF Numbers
    <3>2. QED
      BY <1>3, <1>4, <1>10, <3>1
  <2>2. /\ wire'[L + 1].frame = sent'[m[L + 1]] /\ wire'[L + 2].frame = sent'[m[L + 2]]
        /\ P = 3 => wire'[L + 3].frame = sent'[m[L + 3]]
    BY <1>3, <1>5, <1>6, <1>10
  <2> HIDE DEF L, P
  <2>3. QED
    BY <1>11, <2>1, <2>2
<1>13. ASSUME NEW i \in 1..(L + P), i < L + P
       PROVE  /\ wire'[i + 1].kind = KindAfter(wire'[i])
              /\ m[i + 1] = IF Closes(wire'[i]) THEN m[i] + 1 ELSE m[i]
  <2>2. CASE i < L
    <3>1. i \in 1..L /\ i + 1 \in 1..L
      BY <1>1, <2>2
    <3>2. QED
      BY <1>4, <1>8, <1>10, <2>2, <3>1 DEF Numbers
  <2>3. CASE i = L
    <3>1. L \in 1..L /\ Closes(wire[L]) /\ n[L] = S
      BY <1>1, <1>2, <1>7, <1>8, <2>3 DEF Numbers
    <3>2. wire'[i] = wire[L] /\ m[i] = S /\ m[i + 1] = S + 1 /\ wire'[i + 1].kind = "prefix"
      BY <1>4, <1>5, <1>6, <1>10, <2>3, <3>1
    <3>3. QED
      BY <3>1, <3>2 DEF KindAfter
  <2>4. CASE i = L + 1
    <3>1. i + 1 = L + 2
      BY <1>1, <2>4
    <3>2. QED
      BY <1>5, <1>6, <1>10, <2>4, <3>1 DEF KindAfter, Closes
  <2>5. CASE P = 3 /\ i = L + 2
    <3>1. i + 1 = L + 3
      BY <1>1, <2>5
    <3>2. QED
      BY <1>5, <1>6, <1>10, <2>5, <3>1 DEF KindAfter, Closes
  <2>6. i < L \/ i = L \/ i = L + 1 \/ (P = 3 /\ i = L + 2)
    <3> HIDE DEF L, P
    <3> QED
      BY <1>1, <1>13
  <2>7. QED
    BY <2>2, <2>3, <2>4, <2>5, <2>6
<1>14. wire'[1].kind = Due' /\ m[1] = IF Due' = "prefix" THEN Begun' + 1 ELSE Begun'
  <2>1. Due' = Due /\ Begun' = Begun
    BY <1>2 DEF Due, Begun
  <2>2. CASE L = 0
    BY <1>1, <1>2, <1>5, <1>6, <1>7, <1>8, <1>10, <2>1, <2>2 DEF Numbers
  <2>3. CASE L > 0
    <3>1. 1 \in 1..L /\ wire # <<>>
      BY <1>1, <1>7, <2>3
    <3>2. QED
      BY <1>4, <1>8, <1>10, <2>1, <3>1 DEF Numbers
  <2>4. L = 0 \/ L > 0
    BY <1>1
  <2>5. QED
    BY <2>2, <2>3, <2>4
<1>15. Closes(wire'[L + P]) /\ m[L + P] = S + 1
  <2>1. CASE P = 2
    BY <1>5, <1>6, <1>10, <2>1 DEF Closes
  <2>2. CASE P = 3
    BY <1>5, <1>6, <1>10, <2>2 DEF Closes
  <2>3. QED
    BY <1>1, <2>1, <2>2
<1>16. Numbers(m)'
  <2>1. Len(wire') = L + P /\ Len(sent') = S + 1
    BY <1>3, <1>4
  <2>2. \A i \in 1..(L + P) : i < L + P =>
           /\ wire'[i + 1].kind = KindAfter(wire'[i])
           /\ m[i + 1] = IF Closes(wire'[i]) THEN m[i] + 1 ELSE m[i]
    BY <1>13
  <2> HIDE DEF L, P, S
  <2>3. QED
    BY <1>7, <1>12, <1>14, <1>15, <2>1, <2>2 DEF Numbers, Closes, KindAfter
<1>17. WireInStep'
  BY <1>3, <1>4, <1>10, <1>16 DEF WireInStep
<1>18. CutIsNoticed'
  BY <1>2 DEF CutIsNoticed
<1>19. QED
  BY <1>3, <1>4, <1>17, <1>18

-----------------------------------------------------------------------------
(* One lemma per action.                                                   *)

\* A frame is written.
LEMMA SendKeeps ==
    ASSUME CodecInv, NEW f \in Frames, Send(f)
    PROVE  CodecInv'
<1>1. /\ wire' \in Seq(WireParts) /\ sent' \in Seq(Frames) /\ Len(sent') = Len(sent) + 1
      /\ \A i \in 1..Len(sent) : sent'[i] = sent[i]
      /\ sent'[Len(sent) + 1] = f
      /\ WireInStep' /\ CutIsNoticed'
  BY SendKeepsStream DEF CodecInv
<1>2. /\ UNCHANGED <<reader, limit, cut, within, stage, frame, got, refused, end>>
      /\ Encoded(f) \/ f \in ForeignFrames
  BY DEF Send, readerVars
<1>3. Len(sent) \in Nat /\ Len(got) \in Nat
  BY EmptyWire DEF CodecInv, TypeOK
<1>4. TypeOK'
  BY <1>1, <1>2 DEF CodecInv, TypeOK, WireParts, ValidLimit
<1>5. OwnFramesFit'
  <2>1. f.own => Encoded(f)
    BY <1>2 DEF ForeignFrames
  <2>2. \A i \in 1..Len(sent') : i \in 1..Len(sent) \/ i = Len(sent) + 1
    BY <1>1, <1>3
  <2>3. \A i \in 1..Len(sent') : sent'[i].own => Encoded(sent'[i])
    BY <1>1, <2>1, <2>2 DEF CodecInv, OwnFramesFit
  <2>4. QED
    BY <1>2, <2>3 DEF OwnFramesFit, Encoded, Writer, MaxFrameBytes
<1>6. ReaderInStep'
  <2>1. Len(got) < Len(sent) => Len(got) + 1 \in 1..Len(sent) /\ Len(got) < Len(sent')
    BY <1>1, <1>3
  <2>2. QED
    BY <1>1, <1>2, <2>1 DEF CodecInv, ReaderInStep, TooLarge, MaxFrameBytes
<1>7. OwnFramesAccepted' /\ CleanEndIsWhole'
  BY <1>2 DEF CodecInv, OwnFramesAccepted, CleanEndIsWhole
<1>8. QED
  BY <1>1, <1>4, <1>5, <1>6, <1>7 DEF CodecInv

\* The connection is cut.
LEMMA CutKeeps ==
    ASSUME CodecInv, NEW k \in 0..Len(wire), Cut(k)
    PROVE  CodecInv'
<1>1. wire' \in Seq(WireParts) /\ WireInStep' /\ CutIsNoticed'
  BY CutKeepsStream DEF CodecInv
<1>2. /\ UNCHANGED <<reader, limit, sent, stage, frame, got, refused, end>>
      /\ end = "open" /\ cut' \in {"clean", "torn"} /\ within' \in BOOLEAN
  BY DEF Cut, readerVars
<1>3. TypeOK'
  BY <1>1, <1>2 DEF CodecInv, TypeOK, WireParts, ValidLimit
<1>4. OwnFramesFit' /\ ReaderInStep'
  BY <1>2 DEF CodecInv, OwnFramesFit, ReaderInStep, Encoded, TooLarge, Writer, MaxFrameBytes
<1>5. OwnFramesAccepted' /\ CleanEndIsWhole'
  BY <1>2 DEF CodecInv, OwnFramesAccepted, CleanEndIsWhole
<1>6. QED
  BY <1>1, <1>3, <1>4, <1>5 DEF CodecInv

\* What the reader finds when a part has arrived: the head of the wire belongs to the frame
\* it is at, or to the next one.
LEMMA HeadIsDue ==
    ASSUME CodecInv, NEW kind \in {"prefix", "header", "payload"}, Arrives(kind)
    PROVE  /\ Head(wire) \in WireParts /\ Head(wire).kind = kind /\ stage = kind
           /\ wire # <<>> /\ wire' = Tail(wire) /\ wire' \in Seq(WireParts)
           /\ UNCHANGED <<reader, limit, sent, cut, within>> /\ end = "open"
           /\ Len(got) + 1 \in 1..Len(sent) /\ Head(wire).frame = sent[Len(got) + 1]
           /\ sent[Len(got) + 1] \in Frames
           /\ kind # "prefix" => Head(wire).frame = frame
           /\ \A n \in [1..Len(wire) -> 1..Len(sent)] : Numbers(n) => n[1] = Len(got) + 1
<1>1. /\ Head(wire).kind = kind /\ stage = kind /\ wire # <<>> /\ wire' = Tail(wire)
      /\ UNCHANGED <<reader, limit, sent, cut, within>> /\ end = "open"
  BY DEF Arrives
<1>2. wire \in Seq(WireParts) /\ sent \in Seq(Frames) /\ Len(got) \in Nat
  BY EmptyWire DEF CodecInv, TypeOK, WireParts
<1>3. /\ Head(wire) = wire[1] /\ wire' \in Seq(WireParts) /\ Len(wire) \in Nat /\ 1 \in 1..Len(wire)
      /\ wire[1] \in WireParts
  BY <1>1, <1>2, HeadTailProperties, ElementOfSeq, EmptyWire
<1>4. \A n \in [1..Len(wire) -> 1..Len(sent)] : Numbers(n) => n[1] = Len(got) + 1 /\ wire[1].frame = sent[n[1]]
  BY <1>1, <1>3 DEF Numbers, Due, Begun
<1>5. PICK n \in [1..Len(wire) -> 1..Len(sent)] : Numbers(n)
  BY <1>1 DEF CodecInv, WireInStep
<1>6. Len(got) + 1 \in 1..Len(sent) /\ wire[1].frame = sent[Len(got) + 1]
  BY <1>3, <1>4, <1>5
<1>7. sent[Len(got) + 1] \in Frames
  BY <1>2, <1>6, ElementOfSeq
<1>8. kind # "prefix" => frame = sent[Len(got) + 1]
  BY <1>1 DEF CodecInv, ReaderInStep
<1>9. QED
  BY <1>1, <1>3, <1>4, <1>6, <1>7, <1>8

\* The reader refuses the frame it is at: the two programs did not encode it, or it is a
\* frame of the server's that exceeds the agent's limit.
LEMMA RefusalIsJust ==
    ASSUME CodecInv, NEW i \in 1..Len(sent), sent[i] \in Frames,
           sent[i].flaw # "none" \/ TooLarge(sent[i])
    PROVE  \/ ~sent[i].own
           \/ reader = "agent" /\ limit > AgentLimit /\ sent[i].length > AgentLimit
<1> SUFFICES ASSUME sent[i].own
             PROVE  reader = "agent" /\ limit > AgentLimit /\ sent[i].length > AgentLimit
  OBVIOUS
<1>1. Encoded(sent[i]) /\ sent[i].flaw = "none" /\ sent[i].length \in Nat
  BY FrameFacts DEF CodecInv, OwnFramesFit
<1>2. TooLarge(sent[i])
  BY <1>1
<1>3. limit \in Int /\ MinLimit =< limit /\ reader \in {"server", "agent"}
  BY ServerLimitsAssumption DEF CodecInv, TypeOK, ValidLimit
<1>4. CASE reader = "server"
  BY <1>1, <1>2, <1>3, <1>4, ChunkAssumption, LimitsAssumption DEF Encoded, TooLarge, Writer, MaxFrameBytes
<1>5. CASE reader = "agent"
  BY <1>1, <1>2, <1>3, <1>5, LimitsAssumption DEF Encoded, TooLarge, Writer, MaxFrameBytes
<1>6. QED
  BY <1>3, <1>4, <1>5

\* Once the reader has ended, what is on the wire no longer matters.
LEMMA EndSettles ==
    ASSUME CodecInv, end = "open", end' \in {"retry", "exit", "quiet", "error", "raise"},
           UNCHANGED <<reader, limit, sent, cut, within, stage, got>>,
           wire' \in Seq(WireParts), frame' \in Frames \cup {NoFrame}, refused' \in BOOLEAN,
           stage # "prefix" => frame' = frame, OwnFramesAccepted'
    PROVE  CodecInv'
<1>1. TypeOK'
  BY DEF CodecInv, TypeOK, WireParts, ValidLimit
<1>2. OwnFramesFit' /\ ReaderInStep'
  BY DEF CodecInv, OwnFramesFit, ReaderInStep, Encoded, TooLarge, Writer, MaxFrameBytes
<1>3. WireInStep' /\ CutIsNoticed' /\ CleanEndIsWhole'
  BY DEF CodecInv, WireInStep, CutIsNoticed, CleanEndIsWhole
<1>4. QED
  BY <1>1, <1>2, <1>3 DEF CodecInv

\* The prefix of the next frame is read.
LEMMA ReadPrefixKeeps ==
    ASSUME CodecInv, ReadPrefix
    PROVE  CodecInv'
<1>1. Arrives("prefix") /\ frame' = Head(wire).frame
  BY DEF ReadPrefix
<1>2. /\ Head(wire) \in WireParts /\ Head(wire).kind = "prefix" /\ stage = "prefix"
      /\ wire # <<>> /\ wire' = Tail(wire) /\ wire' \in Seq(WireParts)
      /\ UNCHANGED <<reader, limit, sent, cut, within>> /\ end = "open"
      /\ Len(got) + 1 \in 1..Len(sent) /\ Head(wire).frame = sent[Len(got) + 1]
      /\ sent[Len(got) + 1] \in Frames
      /\ \A n \in [1..Len(wire) -> 1..Len(sent)] : Numbers(n) => n[1] = Len(got) + 1
  BY <1>1, HeadIsDue
<1>3. frame' = sent[Len(got) + 1] /\ frame' \in Frames
  BY <1>1, <1>2
<1>4. CASE frame'.flaw = "prefix"
  <2>1. Refuse("retry")
    BY <1>4 DEF ReadPrefix
  <2>2. end' \in {"retry", "error"} /\ refused' = TRUE /\ UNCHANGED <<stage, got>>
    BY <2>1 DEF Refuse
  <2>3. \/ ~frame'.own
        \/ reader = "agent" /\ limit > AgentLimit /\ frame'.length > AgentLimit
    BY <1>2, <1>3, <1>4, RefusalIsJust
  <2>4. OwnFramesAccepted'
    BY <1>2, <2>3 DEF OwnFramesAccepted
  <2>5. QED
    BY <1>2, <1>3, <2>2, <2>4, EndSettles
<1>5. CASE frame'.flaw # "prefix"
  <2>1. stage' = "header" /\ UNCHANGED <<got, refused, end>>
    BY <1>5 DEF ReadPrefix
  <2>2. TypeOK'
    BY <1>2, <1>3, <2>1 DEF CodecInv, TypeOK, WireParts, ValidLimit
  <2>3. OwnFramesFit'
    BY <1>2 DEF CodecInv, OwnFramesFit, Encoded, Writer, MaxFrameBytes
  <2>4. ReaderInStep'
    <3>1. Len(got) \in Nat /\ Len(sent) \in Nat
      BY EmptyWire DEF CodecInv, TypeOK
    <3>2. Len(got) < Len(sent)
      BY <1>2, <3>1
    <3>3. QED
      BY <1>2, <1>3, <1>5, <2>1, <3>2 DEF CodecInv, ReaderInStep
  <2>5. WireInStep' /\ CutIsNoticed'
    <3>1. Due' = KindAfter(Head(wire))
      BY <1>2, <2>1 DEF Due, KindAfter, Closes
    <3>2. Begun' = Len(got) + 1
      BY <2>1 DEF Begun
    <3>3. QED
      BY <1>2, <3>1, <3>2, WireAdvances DEF CodecInv
  <2>6. OwnFramesAccepted' /\ CleanEndIsWhole'
    BY <1>2, <2>1 DEF CodecInv, ReaderInStep, OwnFramesAccepted, CleanEndIsWhole
  <2>7. QED
    BY <2>2, <2>3, <2>4, <2>5, <2>6 DEF CodecInv
<1>6. QED
  BY <1>4, <1>5

\* The header of the frame is read.
LEMMA ReadHeaderKeeps ==
    ASSUME CodecInv, ReadHeader
    PROVE  CodecInv'
<1>1. Arrives("header") /\ frame' = frame
  BY DEF ReadHeader
<1>2. /\ Head(wire) \in WireParts /\ Head(wire).kind = "header" /\ stage = "header"
      /\ wire # <<>> /\ wire' = Tail(wire) /\ wire' \in Seq(WireParts)
      /\ UNCHANGED <<reader, limit, sent, cut, within>> /\ end = "open"
      /\ Len(got) + 1 \in 1..Len(sent) /\ Head(wire).frame = sent[Len(got) + 1]
      /\ sent[Len(got) + 1] \in Frames /\ Head(wire).frame = frame
      /\ \A n \in [1..Len(wire) -> 1..Len(sent)] : Numbers(n) => n[1] = Len(got) + 1
  BY <1>1, HeadIsDue
<1>3. CASE frame.flaw \in {"json", "length"} \/ TooLarge(frame)
  <2>1. Refuse("retry")
    BY <1>3 DEF ReadHeader
  <2>2. end' \in {"retry", "error"} /\ refused' = TRUE /\ UNCHANGED <<stage, got>>
    BY <2>1 DEF Refuse
  <2>3. \/ ~frame.own
        \/ reader = "agent" /\ limit > AgentLimit /\ frame.length > AgentLimit
    BY <1>2, <1>3, RefusalIsJust
  <2>4. OwnFramesAccepted'
    BY <1>1, <1>2, <2>3 DEF OwnFramesAccepted
  <2>5. QED
    BY <1>1, <1>2, <2>2, <2>4, EndSettles
<1>4. CASE ~(frame.flaw \in {"json", "length"} \/ TooLarge(frame))
  <2>1. stage' = AfterHeader(frame) /\ UNCHANGED <<got, refused, end>>
    BY <1>4 DEF ReadHeader
  <2>2. stage' = IF frame.length = 0 THEN "decode" ELSE "payload"
    BY <2>1 DEF AfterHeader
  <2>3. TypeOK'
    BY <1>1, <1>2, <2>1, <2>2 DEF CodecInv, TypeOK, WireParts, ValidLimit
  <2>4. OwnFramesFit' /\ ReaderInStep'
    BY <1>1, <1>2, <1>4, <2>1, <2>2 DEF CodecInv, OwnFramesFit, ReaderInStep, Encoded, TooLarge,
      Writer, MaxFrameBytes
  <2>5. WireInStep' /\ CutIsNoticed'
    <3>1. Due' = KindAfter(Head(wire))
      BY <1>2, <2>2 DEF Due, KindAfter, Closes
    <3>2. Begun' = Len(got) + 1
      BY <2>1, <2>2 DEF Begun
    <3>3. QED
      BY <1>2, <3>1, <3>2, WireAdvances DEF CodecInv
  <2>6. OwnFramesAccepted' /\ CleanEndIsWhole'
    BY <1>2, <2>1 DEF CodecInv, ReaderInStep, OwnFramesAccepted, CleanEndIsWhole
  <2>7. QED
    BY <2>3, <2>4, <2>5, <2>6 DEF CodecInv
<1>5. QED
  BY <1>3, <1>4

\* The payload of the frame is read.
LEMMA ReadPayloadKeeps ==
    ASSUME CodecInv, ReadPayload
    PROVE  CodecInv'
<1>1. Arrives("payload") /\ stage' = "decode" /\ UNCHANGED <<frame, got, refused, end>>
  BY DEF ReadPayload
<1>2. /\ Head(wire) \in WireParts /\ Head(wire).kind = "payload" /\ stage = "payload"
      /\ wire # <<>> /\ wire' = Tail(wire) /\ wire' \in Seq(WireParts)
      /\ UNCHANGED <<reader, limit, sent, cut, within>> /\ end = "open"
      /\ \A n \in [1..Len(wire) -> 1..Len(sent)] : Numbers(n) => n[1] = Len(got) + 1
  BY <1>1, HeadIsDue
<1>3. TypeOK'
  BY <1>1, <1>2 DEF CodecInv, TypeOK, WireParts, ValidLimit
<1>4. OwnFramesFit' /\ ReaderInStep'
  BY <1>1, <1>2 DEF CodecInv, OwnFramesFit, ReaderInStep, Encoded, TooLarge, Writer, MaxFrameBytes
<1>5. WireInStep' /\ CutIsNoticed'
  <2>1. Due' = KindAfter(Head(wire))
    BY <1>1, <1>2 DEF Due, KindAfter, Closes
  <2>2. Begun' = Len(got) + 1
    BY <1>1 DEF Begun
  <2>3. QED
    BY <1>2, <2>1, <2>2, WireAdvances DEF CodecInv
<1>6. OwnFramesAccepted' /\ CleanEndIsWhole'
  BY <1>1, <1>2 DEF CodecInv, ReaderInStep, OwnFramesAccepted, CleanEndIsWhole
<1>7. QED
  BY <1>3, <1>4, <1>5, <1>6 DEF CodecInv

\* The frame is decoded and handed on, or refused after all.
LEMMA DecodeKeeps ==
    ASSUME CodecInv, Decode
    PROVE  CodecInv'
<1>1. /\ end = "open" /\ stage = "decode"
      /\ UNCHANGED <<reader, limit, sent, wire, cut, within, frame>>
  BY DEF Decode, streamVars
<1>2. sent \in Seq(Frames) /\ got \in Seq(Frames) /\ Len(got) \in Nat /\ Len(sent) \in Nat
  BY EmptyWire DEF CodecInv, TypeOK
<1>3. Len(got) + 1 \in 1..Len(sent) /\ frame = sent[Len(got) + 1]
  BY <1>1, <1>2 DEF CodecInv, ReaderInStep
<1>4. frame \in Frames
  BY <1>2, <1>3, ElementOfSeq
<1>5. CASE Undecodable(frame)
  <2>1. Refuse("exit")
    BY <1>5 DEF Decode
  <2>2. end' \in {"exit", "error"} /\ refused' = TRUE /\ UNCHANGED <<stage, got>>
    BY <2>1 DEF Refuse
  <2>3. \/ ~frame.own
        \/ reader = "agent" /\ limit > AgentLimit /\ frame.length > AgentLimit
    BY <1>3, <1>4, <1>5, RefusalIsJust DEF Undecodable
  <2>4. OwnFramesAccepted'
    BY <1>1, <2>3 DEF OwnFramesAccepted
  <2>5. wire' \in Seq(WireParts)
    BY <1>1 DEF CodecInv, TypeOK, WireParts
  <2>6. QED
    BY <1>1, <1>4, <2>2, <2>4, <2>5, EndSettles
<1>6. CASE ~Undecodable(frame)
  <2>1. stage' = "prefix" /\ got' = Append(got, frame) /\ UNCHANGED <<refused, end>>
    BY <1>6 DEF Decode
  <2>2. got' \in Seq(Frames) /\ Len(got') = Len(got) + 1
    BY <1>2, <1>4, <2>1, AppendProperties
  <2>3. TypeOK'
    BY <1>1, <2>1, <2>2 DEF CodecInv, TypeOK, ValidLimit
  <2>4. OwnFramesFit' /\ ReaderInStep'
    BY <1>1, <2>1 DEF CodecInv, OwnFramesFit, ReaderInStep, Encoded, Writer, MaxFrameBytes
  <2>5. WireInStep' /\ CutIsNoticed'
    <3>1. Due' = Due /\ Begun' = Begun
      BY <1>1, <2>1, <2>2 DEF Due, Begun
    <3>2. PICK n \in [1..Len(wire) -> 1..Len(sent)] : Numbers(n)
      BY <1>1 DEF CodecInv, WireInStep
    <3>3. Numbers(n)'
      BY <1>1, <3>1, <3>2 DEF Numbers, Closes, KindAfter
    <3>4. WireInStep'
      BY <1>1, <3>3 DEF WireInStep
    <3>5. cut = "clean" /\ within => wire # <<>>
      BY <1>1 DEF CodecInv, CutIsNoticed
    <3>6. QED
      BY <1>1, <2>1, <3>4, <3>5 DEF CodecInv, CutIsNoticed, Closes
  <2>6. OwnFramesAccepted' /\ CleanEndIsWhole'
    BY <1>1, <2>1 DEF CodecInv, ReaderInStep, OwnFramesAccepted, CleanEndIsWhole
  <2>7. QED
    BY <2>3, <2>4, <2>5, <2>6 DEF CodecInv
<1>7. QED
  BY <1>5, <1>6

\* The stream ends under the reader: at its end, by a reset or by the timeout.
LEMMA EndingKeeps ==
    ASSUME CodecInv, Eof \/ Reset \/ Timeout
    PROVE  CodecInv'
<1>1. /\ end = "open" /\ end' \in {"return", "retry", "quiet", "raise"}
      /\ UNCHANGED <<reader, limit, sent, wire, cut, within, stage, frame, got, refused>>
      /\ end' = "return" => stage = "prefix" /\ cut = "clean" /\ wire = <<>>
  BY DEF Eof, Reset, Timeout, CleanEof, streamVars
<1>2. OwnFramesAccepted'
  BY <1>1 DEF CodecInv, OwnFramesAccepted
<1>3. CASE end' = "return"
  <2>1. ~within
    BY <1>1, <1>3 DEF CodecInv, CutIsNoticed
  <2>2. TypeOK' /\ OwnFramesFit' /\ ReaderInStep'
    BY <1>1, <1>3 DEF CodecInv, TypeOK, ValidLimit, OwnFramesFit, ReaderInStep, Encoded, TooLarge,
      Writer, MaxFrameBytes
  <2>3. WireInStep' /\ CutIsNoticed' /\ CleanEndIsWhole'
    BY <1>1, <1>3, <2>1 DEF WireInStep, CutIsNoticed, CleanEndIsWhole
  <2>4. QED
    BY <1>2, <2>2, <2>3 DEF CodecInv
<1>4. CASE end' # "return"
  <2>1. wire' \in Seq(WireParts) /\ frame' \in Frames \cup {NoFrame} /\ refused' \in BOOLEAN
    BY <1>1 DEF CodecInv, TypeOK, WireParts
  <2>2. QED
    BY <1>1, <1>2, <1>4, <2>1, EndSettles
<1>5. QED
  BY <1>3, <1>4

\* Every step keeps the invariant.
LEMMA NextKeeps ==
    ASSUME CodecInv, [Next]_vars
    PROVE  CodecInv'
<1>1. CASE UNCHANGED vars
  <2>1. UNCHANGED <<reader, limit, sent, wire, cut, within, stage, frame, got, refused, end>>
    BY <1>1 DEF vars, streamVars, readerVars
  <2>2. TypeOK' /\ OwnFramesFit' /\ ReaderInStep'
    BY <2>1 DEF CodecInv, TypeOK, ValidLimit, OwnFramesFit, ReaderInStep, Encoded, TooLarge, Writer,
      MaxFrameBytes
  <2>3. WireInStep'
    BY <2>1 DEF CodecInv, WireInStep, Numbers, Closes, KindAfter, Due, Begun
  <2>4. CutIsNoticed' /\ OwnFramesAccepted' /\ CleanEndIsWhole'
    BY <2>1 DEF CodecInv, CutIsNoticed, Closes, OwnFramesAccepted, CleanEndIsWhole
  <2>5. QED
    BY <2>2, <2>3, <2>4 DEF CodecInv
<1>2. CASE \E f \in Frames : Send(f)
  BY <1>2, SendKeeps
<1>3. CASE \E k \in 0..Len(wire) : Cut(k)
  BY <1>3, CutKeeps
<1>4. CASE Read \/ Reset \/ Timeout
  BY <1>4, ReadPrefixKeeps, ReadHeaderKeeps, ReadPayloadKeeps, DecodeKeeps, EndingKeeps DEF Read
<1>5. QED
  BY <1>1, <1>2, <1>3, <1>4 DEF Next

-----------------------------------------------------------------------------
\* CodecInv holds in every state, for any sizes, limits and frames.
THEOREM CodecInvariant == Spec => []CodecInv
<1>1. Init => CodecInv
  <2> SUFFICES ASSUME Init PROVE CodecInv
    OBVIOUS
  <2>1. TypeOK
    <3>1. \A S : <<>> \in Seq(S)
      OBVIOUS
    <3>2. limit \in ServerLimits /\ ValidLimit(limit)
      BY DEF Init
    <3>3. QED
      BY <3>1, <3>2 DEF Init, TypeOK
  <2>2. OwnFramesFit /\ ReaderInStep
    BY DEF Init, OwnFramesFit, ReaderInStep
  <2>3. WireInStep
    <3>1. PICK n : n = [i \in 1..0 |-> 1]
      OBVIOUS
    <3>2. n \in [1..Len(wire) -> 1..Len(sent)]
      BY <3>1 DEF Init
    <3>3. Numbers(n)
      BY DEF Init, Numbers, Due, Begun
    <3>4. QED
      BY <3>2, <3>3 DEF WireInStep
  <2>4. CutIsNoticed /\ OwnFramesAccepted /\ CleanEndIsWhole
    BY DEF Init, CutIsNoticed, OwnFramesAccepted, CleanEndIsWhole
  <2>5. QED
    BY <2>1, <2>2, <2>3, <2>4 DEF CodecInv
<1>2. CodecInv /\ [Next]_vars => CodecInv'
  BY NextKeeps
<1>3. QED
  BY <1>1, <1>2, PTL DEF Spec

\* What one program encodes the other accepts, but for what a server configured beyond the
\* agent's fixed limit sends (_validate_tunnel_bounds, _forward_local_to_tunnel).
THEOREM EncodedIsAccepted == Spec => []OwnFramesAccepted
<1>1. CodecInv => OwnFramesAccepted
  BY DEF CodecInv
<1>2. QED
  BY <1>1, CodecInvariant, PTL

\* The agent takes no stream that was cut within a frame for one that has ended
\* (_read_one_frame).
THEOREM CleanEndsAreWhole == Spec => []CleanEndIsWhole
<1>1. CodecInv => CleanEndIsWhole
  BY DEF CodecInv
<1>2. QED
  BY <1>1, CodecInvariant, PTL

\* The frames handed on are those written, whole, in order and without a gap, and only
\* well-formed ones (_read_one_frame, decode_frame).
THEOREM CodecRefinesFifo == Spec => RefinesFifo
<1>1. Init => Fifo!Init
  BY DEF Init, Fifo!Init, Wellformed
<1>2. ASSUME CodecInv, [Next]_vars
      PROVE  [Fifo!Send \/ Fifo!Receive \/ Fifo!Finish]_<<Wellformed, sent, got, end # "open">>
  <2>1. UNCHANGED <<reader, limit>> => Wellformed' = Wellformed
    BY DEF Wellformed, MaxFrameBytes
  <2>2. CASE UNCHANGED vars
    BY <2>1, <2>2 DEF vars, streamVars, readerVars
  <2>3. CASE \E f \in Frames : Send(f)
    BY <2>1, <2>3 DEF Send, readerVars, Fifo!Send
  <2>4. CASE \E k \in 0..Len(wire) : Cut(k)
    BY <2>1, <2>4 DEF Cut, readerVars
  <2>5. CASE ReadPrefix \/ ReadHeader \/ ReadPayload
    <3>1. end = "open" /\ UNCHANGED <<reader, limit, sent, got>>
      BY <2>5 DEF ReadPrefix, ReadHeader, ReadPayload, Arrives, Refuse
    <3>2. QED
      BY <2>1, <3>1 DEF Fifo!Finish
  <2>6. CASE Decode
    <3>1. end = "open" /\ UNCHANGED <<reader, limit, sent>> /\ stage = "decode"
      BY <2>6 DEF Decode, streamVars
    <3>2. CASE Undecodable(frame)
      <4>1. end' # "open" /\ UNCHANGED got
        BY <2>6, <3>2 DEF Decode, Refuse
      <4>2. QED
        BY <2>1, <3>1, <4>1 DEF Fifo!Finish
    <3>3. CASE ~Undecodable(frame)
      <4>1. got' = Append(got, frame) /\ UNCHANGED end
        BY <2>6, <3>3 DEF Decode
      <4>2. sent \in Seq(Frames) /\ Len(got) \in Nat /\ Len(sent) \in Nat
        BY <1>2, EmptyWire DEF CodecInv, TypeOK
      <4>3. /\ Len(got) < Len(sent) /\ frame = sent[Len(got) + 1]
            /\ frame.flaw \notin {"prefix", "json", "length"} /\ ~TooLarge(frame)
        BY <1>2, <3>1 DEF CodecInv, ReaderInStep
      <4>4. frame \in Frames
        BY <4>2, <4>3, ElementOfSeq
      <4>5. frame \in Wellformed
        <5>1. frame.flaw = "none" /\ frame.length \in Nat
          BY <3>3, <4>3, <4>4, FrameFacts DEF Undecodable, Flaws
        <5>2. MaxFrameBytes(reader) \in Int
          BY <1>2, ServerLimitsAssumption, LimitsAssumption DEF CodecInv, TypeOK, MaxFrameBytes
        <5>3. QED
          BY <4>3, <4>4, <5>1, <5>2 DEF Wellformed, TooLarge
      <4>6. QED
        BY <2>1, <3>1, <4>1, <4>3, <4>5 DEF Fifo!Receive
    <3>4. QED
      BY <3>2, <3>3
  <2>7. CASE Eof \/ Reset \/ Timeout
    <3>1. end = "open" /\ end' # "open" /\ UNCHANGED <<reader, limit, sent, got>>
      BY <2>7 DEF Eof, Reset, Timeout, streamVars
    <3>2. QED
      BY <2>1, <3>1 DEF Fifo!Finish
  <2>8. QED
    BY <1>2, <2>2, <2>3, <2>4, <2>5, <2>6, <2>7 DEF Next, Read
<1>3. QED
  BY <1>1, <1>2, CodecInvariant, PTL DEF Spec, RefinesFifo, Fifo!Spec
=============================================================================
