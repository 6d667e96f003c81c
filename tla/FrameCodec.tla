----------------------------- MODULE FrameCodec -----------------------------
(***************************************************************************)
(* One direction of one tunnel connection at the level of its bytes: the   *)
(* frames one program encodes (vibeconnect_common/tunnel.py:               *)
(* encode_frame), the connection, which may be cut anywhere, and the other *)
(* program's _read_one_frame and decode_frame (server/tunnel.py,           *)
(* agent/tunnel.py).                                                       *)
(*                                                                         *)
(* A frame is a four byte prefix with the length of the header, the header *)
(* and the payload.  A byte has no identity of its own: the stream is a    *)
(* sequence of these parts, and what a part says is what the reader        *)
(* decides on.  A part of no bytes is not in the stream.                   *)
(***************************************************************************)
EXTENDS Integers, Sequences

CONSTANTS
    Sizes,         \* payload sizes of the two programs' frames
    ForeignSizes,  \* payload sizes of any other frame
    ServerLimits,  \* values of tunnel.frame_max_bytes to consider
    MinLimit,      \* the least value _validate_tunnel_bounds lets pass: 65536
    MaxLimit,      \* the greatest: 16777216
    AgentLimit,    \* DEFAULT_FRAME_MAX_BYTES: 1048576
    Chunk,         \* what _forward_local_to_tunnel reads from sshd at once: 65536
    MaxFrames,     \* bound: frames written
    NoFrame

ASSUME SizesAssumption == Sizes \subseteq Nat /\ ForeignSizes \subseteq Nat
ASSUME ServerLimitsAssumption == ServerLimits \subseteq Int
ASSUME NoFrameAssumption == NoFrame \notin [flaw : STRING, length : Nat, own : BOOLEAN]
ASSUME LimitsAssumption ==
    MinLimit \in Nat \ {0} /\ MaxLimit \in Nat /\ AgentLimit \in Nat \ {0} /\ MaxFrames \in Nat
ASSUME ChunkAssumption == Chunk \in Nat /\ Chunk <= MinLimit /\ Chunk <= AgentLimit

VARIABLES
    reader,   \* the program that reads: server or agent
    limit,    \* the server's tunnel.frame_max_bytes
    sent,     \* the frames written
    wire,     \* the parts that the reader has not consumed
    cut,      \* no, clean (the last part arrived whole) or torn
    within,   \* the cut fell inside a frame
    stage,    \* what the reader is at: prefix, header, payload, decode
    frame,    \* the frame whose prefix it has read last
    got,      \* the frames it has handed on
    refused,  \* it has refused that frame
    end       \* open, or how the reader ended

streamVars == <<sent, wire, cut, within>>
readerVars == <<stage, frame, got, refused, end>>
vars == <<reader, limit, streamVars, readerVars>>

-----------------------------------------------------------------------------
\* What can be wrong with a frame that neither program encoded: its prefix (zero,
\* or beyond FRAME_HEADER_MAX_BYTES), a header that is no JSON object, a
\* payload_length that is no natural number, and the fields that only decode_frame
\* looks at.
Flaws == {"none", "prefix", "json", "length", "type", "request", "channel"}
OwnFrames == [flaw : {"none"}, length : Sizes, own : {TRUE}]
ForeignFrames == [flaw : Flaws, length : ForeignSizes, own : {FALSE}]
Frames == OwnFrames \cup ForeignFrames

Part(kind, f) == [kind |-> kind, frame |-> f]

\* What a frame is in the stream.
Parts(f) ==
    IF f.length = 0 THEN <<Part("prefix", f), Part("header", f)>>
    ELSE <<Part("prefix", f), Part("header", f), Part("payload", f)>>

\* Mutant of _validate_tunnel_bounds: any positive limit will do.
ValidLimit_Positive(n) == n > 0

\* _validate_tunnel_bounds, the part about frame_max_bytes.
ValidLimit(n) == MinLimit <= n /\ n <= MaxLimit

Init ==
    /\ reader \in {"server", "agent"}
    /\ limit \in {n \in ServerLimits : ValidLimit(n)}
    /\ sent = <<>> /\ wire = <<>> /\ cut = "no" /\ within = FALSE
    /\ stage = "prefix" /\ frame = NoFrame /\ got = <<>> /\ refused = FALSE /\ end = "open"

-----------------------------------------------------------------------------
(* The writer and the connection.                                          *)

\* max_frame_bytes of each program.
MaxFrameBytes(program) == IF program = "server" THEN limit ELSE AgentLimit
Writer == IF reader = "server" THEN "agent" ELSE "server"

\* What the two programs send: the server what AsyncSSH hands it, of any size, the
\* agent what it reads from sshd at once.  encode_frame raises beyond the writer's
\* own limit, and nothing is written.
Encoded(f) ==
    /\ f \in OwnFrames
    /\ Writer = "agent" => f.length <= Chunk
    /\ f.length <= MaxFrameBytes(Writer)

\* A frame goes out: one of _write_frame, in one call of writer.write, so that the
\* frames of concurrent tasks do not mix; or a frame of nobody's.
Send(f) ==
    /\ end = "open" /\ cut = "no" /\ Len(sent) < MaxFrames
    /\ Encoded(f) \/ f \in ForeignFrames
    /\ sent' = Append(sent, f) /\ wire' = wire \o Parts(f)
    /\ UNCHANGED <<reader, limit, cut, within, readerVars>>

\* A part of several bytes, which can arrive in part.
Divisible(part) == part.kind = "payload" => part.frame.length > 1

\* The other end closes, or dies: what is under way arrives up to some point, at the
\* end of part k, or within the part after it.
Cut(k) ==
    /\ end = "open" /\ cut = "no"
    /\ wire' = SubSeq(wire, 1, k)
    /\ \/ cut' = "clean" /\ within' = (k < Len(wire) /\ wire[k + 1].kind # "prefix")
       \/ k < Len(wire) /\ Divisible(wire[k + 1]) /\ cut' = "torn" /\ within' = TRUE
    /\ UNCHANGED <<reader, limit, sent, readerVars>>

-----------------------------------------------------------------------------
(* The reader.                                                             *)

\* Mutant: a frame that is refused is passed over.
Refuse_ReadsOn(agentEnds) == stage' = "prefix" /\ UNCHANGED <<got, refused, end>>

\* A frame that is refused ends the reader: the server writes an ERROR frame and
\* closes, the agent raises.
Refuse(agentEnds) ==
    /\ end' = IF reader = "agent" THEN agentEnds ELSE "error"
    /\ refused' = TRUE /\ UNCHANGED <<stage, got>>

\* readexactly has its bytes.
Arrives(kind) ==
    /\ end = "open" /\ stage = kind
    /\ wire # <<>> /\ Head(wire).kind = kind
    /\ wire' = Tail(wire)
    /\ UNCHANGED <<reader, limit, sent, cut, within>>

ReadPrefix ==
    /\ Arrives("prefix")
    /\ frame' = Head(wire).frame
    /\ IF frame'.flaw = "prefix" THEN Refuse("retry")
       ELSE stage' = "header" /\ UNCHANGED <<got, refused, end>>

TooLarge(f) == f.length > MaxFrameBytes(reader)

\* Mutant: an empty payload is awaited like any other.
AfterHeader_Awaits(f) == "payload"

\* readexactly(0) returns at once.
AfterHeader(f) == IF f.length = 0 THEN "decode" ELSE "payload"

\* The header is parsed for payload_length, which must be within the limit; the
\* agent's AgentTunnelError is caught and the connection tried again.
ReadHeader ==
    /\ Arrives("header")
    /\ IF frame.flaw \in {"json", "length"} \/ TooLarge(frame) THEN Refuse("retry")
       ELSE stage' = AfterHeader(frame) /\ UNCHANGED <<got, refused, end>>
    /\ UNCHANGED frame

ReadPayload ==
    /\ Arrives("payload")
    /\ stage' = "decode"
    /\ UNCHANGED <<frame, got, refused, end>>

\* What decode_frame refuses of the frames that come to it.
Undecodable(f) == f.flaw \in {"type", "request", "channel"}

\* decode_frame, and the frame is handed on.  Its TunnelProtocolError is a
\* ValueError, which the agent's _run_tunnel does not catch: the process exits.
Decode ==
    /\ end = "open" /\ stage = "decode"
    /\ IF Undecodable(frame) THEN Refuse("exit")
       ELSE stage' = "prefix" /\ got' = Append(got, frame) /\ UNCHANGED <<refused, end>>
    /\ UNCHANGED <<reader, limit, streamVars, frame>>

\* Mutant: exc.partial is not looked at.
CleanEof_AnyPrefix == stage = "prefix"

\* The agent's reader returns None: no byte of a next frame has arrived.
CleanEof == stage = "prefix" /\ cut = "clean"

\* readexactly meets the end of the connection.  The server returns in any case.
Eof ==
    /\ end = "open" /\ stage # "decode" /\ cut # "no" /\ wire = <<>>
    /\ end' = IF reader = "server" THEN "quiet" ELSE IF CleanEof THEN "return" ELSE "retry"
    /\ UNCHANGED <<reader, limit, streamVars, stage, frame, got, refused>>

\* The connection is reset: readexactly raises whatever has arrived before.  The
\* agent catches an OSError; the server's handler ends in it.
Reset ==
    /\ end = "open" /\ stage # "decode" /\ cut = "no"
    /\ end' = IF reader = "server" THEN "raise" ELSE "retry"
    /\ UNCHANGED <<reader, limit, streamVars, stage, frame, got, refused>>

\* The first frame must reach the server within TUNNEL_AUTH_TIMEOUT_SECONDS.
Timeout ==
    /\ end = "open" /\ stage # "decode" /\ reader = "server" /\ got = <<>>
    /\ end' = "quiet"
    /\ UNCHANGED <<reader, limit, streamVars, stage, frame, got, refused>>

-----------------------------------------------------------------------------
Read == ReadPrefix \/ ReadHeader \/ ReadPayload \/ Decode \/ Eof

Next ==
    \/ \E f \in Frames : Send(f)
    \/ \E k \in 0..Len(wire) : Cut(k)
    \/ Read \/ Reset \/ Timeout

Spec == Init /\ [][Next]_vars

\* The reader's event loop runs it when its bytes are there.
FairSpec == Spec /\ WF_vars(Read)

-----------------------------------------------------------------------------
(* Properties.                                                             *)

\* The type invariant.
TypeOK ==
    /\ reader \in {"server", "agent"} /\ limit \in ServerLimits /\ ValidLimit(limit)
    /\ sent \in Seq(Frames) /\ got \in Seq(Frames) /\ frame \in Frames \cup {NoFrame}
    /\ wire \in Seq([kind : {"prefix", "header", "payload"}, frame : Frames])
    /\ cut \in {"no", "clean", "torn"} /\ within \in BOOLEAN /\ refused \in BOOLEAN
    /\ stage \in {"prefix", "header", "payload", "decode"}
    /\ end \in {"open", "return", "retry", "exit", "quiet", "error", "raise"}

\* Wherever the connection is cut and whatever comes over it, the frames handed on
\* are those written, whole, in order and without a gap, the interface that Broker
\* and Tunnel are written against; and "unknown frame types, oversized frames [and]
\* malformed JSON metadata" (SPEC.md) are not among them (_read_one_frame,
\* decode_frame).
Wellformed == {f \in Frames : f.flaw = "none" /\ f.length <= MaxFrameBytes(reader)}
Fifo == INSTANCE FrameFifo WITH accepted <- Wellformed, over <- end # "open"
RefinesFifo == Fifo!Spec

\* What one program encodes the other accepts, at every limit the configuration
\* allows and up to the limit itself, with one exception: a server whose
\* frame_max_bytes exceeds the agent's fixed limit can send what its agent refuses
\* (_validate_tunnel_bounds, _forward_local_to_tunnel, _run_tunnel_once).
OwnFramesAccepted ==
    refused => \/ ~frame.own
               \/ reader = "agent" /\ limit > AgentLimit /\ frame.length > AgentLimit

\* The agent takes the end of the stream for a clean one, and starts its backoff
\* anew, only if no frame was cut short (_read_one_frame, _run_tunnel).
CleanEndIsWhole == end = "return" => ~within

\* The reader waits for nothing that will not come: every frame written is handed on
\* or the reader ends, and it does end when the connection has.
ReaderKeepsUp ==
    /\ \A n \in 1..MaxFrames : (Len(sent) >= n) ~> (Len(got) >= n \/ end # "open")
    /\ (cut # "no") ~> (end # "open")

-----------------------------------------------------------------------------
(* The inductive invariant, in named parts.                                *)

\* What the two programs have written respects the writer's limits.
OwnFramesFit ==
    \A i \in 1..Len(sent) : sent[i].own => Encoded(sent[i])

\* The reader is at the first frame that it has not handed on, and has let it pass so far.
ReaderInStep ==
    /\ stage # "prefix" => /\ Len(got) < Len(sent) /\ frame = sent[Len(got) + 1]
                          /\ frame.flaw # "prefix"
    /\ stage \in {"payload", "decode"} => frame.flaw \notin {"json", "length"} /\ ~TooLarge(frame)
    /\ stage = "payload" => frame.length # 0
    /\ end = "open" => ~refused

\* The last part of its frame, and the kind of the part that comes after a part.
Closes(part) == part.kind = "payload" \/ (part.kind = "header" /\ part.frame.length = 0)
KindAfter(part) ==
    IF Closes(part) THEN "prefix" ELSE IF part.kind = "prefix" THEN "header" ELSE "payload"

\* The frames whose prefix has been read, and the part that is due.
Begun == IF stage = "prefix" THEN Len(got) ELSE Len(got) + 1
Due == IF stage = "decode" THEN "prefix" ELSE stage

\* n numbers the parts on the wire by their frames: these go on where the reader is, part
\* by part without a gap, up to the last frame written unless the connection was cut.
Numbers(n) ==
    /\ \A i \in 1..Len(wire) : wire[i].frame = sent[n[i]]
    /\ \A i \in 1..Len(wire) : i < Len(wire) =>
           /\ wire[i + 1].kind = KindAfter(wire[i])
           /\ n[i + 1] = IF Closes(wire[i]) THEN n[i] + 1 ELSE n[i]
    /\ wire # <<>> => /\ wire[1].kind = Due
                     /\ n[1] = IF Due = "prefix" THEN Begun + 1 ELSE Begun
    /\ cut = "no" => IF wire = <<>> THEN Due = "prefix" /\ Begun = Len(sent)
                     ELSE Closes(wire[Len(wire)]) /\ n[Len(wire)] = Len(sent)

WireInStep == end = "open" => \E n \in [1..Len(wire) -> 1..Len(sent)] : Numbers(n)

\* After a cut within a frame, the reader never comes to the prefix of a next one.
CutIsNoticed ==
    /\ end = "open" /\ cut = "clean" /\ within =>
          IF wire = <<>> THEN stage \in {"header", "payload"} ELSE ~Closes(wire[Len(wire)])
    /\ cut = "no" => ~within

\* Their conjunction.
CodecInv ==
    /\ TypeOK
    /\ OwnFramesFit
    /\ ReaderInStep
    /\ WireInStep
    /\ CutIsNoticed
    /\ OwnFramesAccepted
    /\ CleanEndIsWhole
=============================================================================
