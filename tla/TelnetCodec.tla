----------------------------- MODULE TelnetCodec -----------------------------
(***************************************************************************)
(* The Telnet codec (src-tauri/src/telnet/codec.rs): a parser that keeps   *)
(* its state between reads, the replies to option negotiation, and the     *)
(* escaping of what is sent.  Bytes are numbers.                           *)
(*                                                                         *)
(* Two streams of bytes.  One comes from a peer and is cut into reads      *)
(* anywhere; each read is a call of parse, under the codec's mutex.  The   *)
(* other is what the program writes: input, sizes and replies, which the   *)
(* peer reads by the same rules.  The order in which requests enter the    *)
(* writer's queue is the business of Telnet.                               *)
(***************************************************************************)
EXTENDS Naturals, Sequences, SequencesExt

CONSTANTS
  MaxSubnegotiation,  \* the longest subnegotiation kept; 4096 bytes in the program
  PeerLimit,          \* what the peer keeps: a subnegotiation that tells a size, at least
  DataByte,           \* bytes the peer sends as data, or after an IAC
  OptionByte,         \* options the peer negotiates
  InnerByte,          \* bytes the peer sends inside subnegotiations, or after an IAC there
  Text,               \* what the user may type, as encoded for the session
  Size,               \* sizes of the terminal, as <<columns, rows>>
  Untold,             \* of a message that tells no size
  MaxRead,            \* bound: bytes per read
  MaxMessages         \* bound: messages the program has to write

Byte == 0..255

ASSUME CodecAssumption ==
  /\ MaxSubnegotiation \in Nat /\ PeerLimit \in Nat /\ PeerLimit >= 5
  /\ DataByte \subseteq Byte /\ OptionByte \subseteq Byte /\ InnerByte \subseteq Byte
  /\ Text \subseteq Seq(Byte)
  /\ Size \subseteq Nat \X Nat /\ Size # {} /\ Untold \notin Nat \X Nat
  /\ MaxRead \in Nat /\ MaxMessages \in Nat

Iac == 255
Dont == 254
Do == 253
Wont == 252
Will == 251
Sb == 250
Se == 240

OptEcho == 1
OptSuppressGoAhead == 3
OptTerminalType == 24
OptNaws == 31
TypeIs == 0
TypeSend == 1

\* "xterm-256color", abbreviated.
XTerm == <<120, 116>>

\* clamp_dimension, to 1..u16::MAX.
ClampDimension(value) == IF value < 1 THEN 1 ELSE IF value > 65535 THEN 65535 ELSE value

EscapeByte(b) == IF b = Iac THEN <<Iac, Iac>> ELSE <<b>>

\* Mutant of EscapeIac: what is sent is not escaped.
Unescaped(bytes) == bytes

\* escape_iac_bytes.
EscapeIac(bytes) == FlattenSeq([i \in DOMAIN bytes |-> EscapeByte(bytes[i])])

\* build_naws.
Naws(cols, rows) ==
  <<Iac, Sb, OptNaws>>
    \o EscapeIac(<<cols \div 256, cols % 256, rows \div 256, rows % 256>>)
    \o <<Iac, Se>>

\* build_terminal_type.
TerminalType == <<Iac, Sb, OptTerminalType, TypeIs>> \o XTerm \o <<Iac, Se>>

\* negotiate.
Negotiate(command, option, cols, rows) ==
  CASE command = Will /\ option \in {OptEcho, OptSuppressGoAhead} -> <<Iac, Do, option>>
    [] command = Do /\ option \in {OptSuppressGoAhead, OptTerminalType} -> <<Iac, Will, option>>
    [] command = Do /\ option = OptNaws -> <<Iac, Will, option>> \o Naws(cols, rows)
    [] command \in {Will, Wont}
         /\ ~(command = Will /\ option \in {OptEcho, OptSuppressGoAhead}) -> <<Iac, Dont, option>>
    [] OTHER -> <<Iac, Wont, option>>

\* handle_subnegotiation.
HandleSubnegotiation(sub, cols, rows) ==
  IF sub = <<OptTerminalType, TypeSend>> THEN TerminalType
  ELSE IF sub # << >> /\ Head(sub) = OptNaws THEN Naws(cols, rows)
  ELSE << >>

\* What is written as one request or part of one, and what it says: the bytes of the user
\* that it carries, and the size that it tells.
Message(bytes, text, size) == [bytes |-> bytes, text |-> text, size |-> size]

\* The size a reply tells to a request for an option.
SizeTold(command, option, cols, rows) ==
  IF command = Do /\ option = OptNaws THEN <<cols, rows>> ELSE Untold

SizeToldBack(sub, cols, rows) ==
  IF sub # << >> /\ Head(sub) = OptNaws THEN <<cols, rows>> ELSE Untold

OptionReply(command, option, cols, rows) ==
  Message(Negotiate(command, option, cols, rows), << >>,
          SizeTold(command, option, cols, rows))

\* The replies to a subnegotiation: one or none.
FrameReply(sub, cols, rows) ==
  IF HandleSubnegotiation(sub, cols, rows) = << >> THEN << >>
  ELSE <<Message(HandleSubnegotiation(sub, cols, rows), << >>,
                 SizeToldBack(sub, cols, rows))>>

\* TelnetParser::new, with the output and the replies of the call of parse under way; the
\* replies, which the code runs together in one request, are kept apart.
NoCommand == 0

NewParser(cols, rows, limit) ==
  [state |-> "data", command |-> NoCommand, sub |-> << >>, cols |-> ClampDimension(cols),
   rows |-> ClampDimension(rows), limit |-> limit, data |-> << >>, response |-> << >>]

\* Mutant of PushSubnegotiation: the rest of a rejected frame is read as data.
PushResumes(p, byte) ==
  IF Len(p.sub) = p.limit
  THEN [p EXCEPT !.sub = << >>, !.state = "data"]
  ELSE [p EXCEPT !.sub = Append(@, byte), !.state = "sub"]

\* push_subnegotiation: a frame that is too long is discarded up to its end.
PushSubnegotiation(p, byte) ==
  IF Len(p.sub) = p.limit
  THEN [p EXCEPT !.sub = << >>, !.state = "discard"]
  ELSE [p EXCEPT !.sub = Append(@, byte), !.state = "sub"]

AfterIac(p, byte) ==
  CASE byte = Iac -> [p EXCEPT !.data = Append(@, Iac), !.state = "data"]
    [] byte \in {Do, Dont, Will, Wont} -> [p EXCEPT !.command = byte, !.state = "negotiation"]
    [] byte = Sb -> [p EXCEPT !.sub = << >>, !.state = "sub"]
    [] OTHER -> [p EXCEPT !.state = "data"]

AfterSubIac(p, byte) ==
  CASE byte = Iac -> PushSubnegotiation(p, Iac)
    [] byte = Se ->
         [p EXCEPT !.response = @ \o FrameReply(p.sub, p.cols, p.rows),
                   !.sub = << >>, !.state = "data"]
    [] OTHER -> [p EXCEPT !.sub = << >>, !.state = "discard"]

\* One byte of TelnetParser::parse.
ParseByte(p, byte) ==
  CASE p.state = "data" -> IF byte = Iac THEN [p EXCEPT !.state = "iac"]
                           ELSE [p EXCEPT !.data = Append(@, byte)]
    [] p.state = "iac" -> AfterIac(p, byte)
    [] p.state = "negotiation" ->
         [p EXCEPT !.response = Append(@, OptionReply(p.command, byte, p.cols, p.rows)),
                   !.command = NoCommand, !.state = "data"]
    [] p.state = "sub" -> IF byte = Iac THEN [p EXCEPT !.state = "subIac"]
                          ELSE PushSubnegotiation(p, byte)
    [] p.state = "subIac" -> AfterSubIac(p, byte)
    [] p.state = "discard" -> IF byte = Iac THEN [p EXCEPT !.state = "discardIac"] ELSE p
    [] p.state = "discardIac" ->
         [p EXCEPT !.state = IF byte = Se THEN "data" ELSE "discard"]

-----------------------------------------------------------------------------
VARIABLES
  parser,    \* the codec behind its mutex, with the call of parse under way
  taken,     \* bytes this call has looked at
  coming,    \* what is still to come of the peer's command or byte of data
  piece,     \* history: that command or byte, whole
  inside,    \* history: "none", or in a subnegotiation that is a "frame" or "rejected"
  payload,   \* history: what that subnegotiation holds so far
  meant,     \* history: what the bytes of this call say, as data and replies
  out,       \* messages to be written
  said,      \* the message being written
  left,      \* its bytes that the peer has not read
  peer,      \* the peer's reading of them
  heard      \* the size it has read in this message

parsing == <<parser, taken, coming>>
meaning == <<piece, inside, payload, meant>>
telling == <<said, left, peer, heard>>
codecVars == <<parsing, meaning, out, telling>>

Verbs == {Do, Dont, Will, Wont}

\* The stream of a peer, cut where RFC 854 and 855 cut it: any bytes are such a stream.
OuterPieces ==
  {EscapeByte(b) : b \in DataByte}
    \cup {<<Iac, b>> : b \in DataByte \ (Verbs \cup {Sb})}
    \cup {<<Iac, verb, option>> : verb \in Verbs, option \in OptionByte}
    \cup {<<Iac, Sb>>}

InnerPieces == {<<b>> : b \in InnerByte \ {Iac}} \cup {<<Iac, b>> : b \in InnerByte \cup {Se}}

NoMeaning == [data |-> << >>, replies |-> << >>]

HasRoom == Len(out) < MaxMessages

\* A peer that has read nothing yet; only its rules matter, so its size is any.
NewPeer == NewParser(1, 1, PeerLimit)

CodecInit ==
  /\ \E size \in Size : parser = NewParser(size[1], size[2], MaxSubnegotiation)
  /\ taken = 0 /\ coming = << >>
  /\ piece = << >> /\ inside = "none" /\ payload = << >> /\ meant = NoMeaning
  /\ out = << >>
  /\ said = Message(<< >>, << >>, Untold) /\ left = << >>
  /\ peer = NewPeer /\ heard = Untold

-----------------------------------------------------------------------------
(* From the peer.                                                          *)

\* The peer sends a byte of data or a command, in or out of a subnegotiation.
PeerSends ==
  /\ coming = << >>
  /\ piece' \in IF inside = "none" THEN OuterPieces ELSE InnerPieces
  /\ coming' = piece'
  /\ UNCHANGED <<parser, taken, inside, payload, meant, out, telling>>

\* What a whole piece means: data, the reply to an option, the limits of a subnegotiation
\* and its payload.  A frame with a stray command, or one that is too long, is void up to its end.
Opens == inside = "none" /\ piece = <<Iac, Sb>>
Closes == inside # "none" /\ piece = <<Iac, Se>>
IsData == inside = "none" /\ (Len(piece) = 1 \/ piece = <<Iac, Iac>>)
IsOption == inside = "none" /\ Len(piece) = 3
Fits == (Len(piece) = 1 \/ piece = <<Iac, Iac>>) /\ Len(payload) < MaxSubnegotiation

Means ==
  /\ piece' = << >>
  /\ inside' = CASE Opens -> "frame"
                 [] Closes -> "none"
                 [] ~Opens /\ ~Closes /\ inside = "frame" /\ ~Fits -> "rejected"
                 [] OTHER -> inside
  /\ payload' = IF inside = "frame" /\ ~Closes /\ Fits THEN Append(payload, Last(piece))
                ELSE << >>
  /\ meant' =
       CASE IsData -> [meant EXCEPT !.data = Append(@, Last(piece))]
         [] IsOption ->
              [meant EXCEPT !.replies =
                 Append(@, OptionReply(piece[2], piece[3], parser.cols, parser.rows))]
         [] Closes /\ inside = "frame" ->
              [meant EXCEPT !.replies =
                 @ \o FrameReply(payload, parser.cols, parser.rows)]
         [] OTHER -> meant

\* The loop of parse goes on by a byte.
ReadByte ==
  /\ coming # << >> /\ taken < MaxRead
  /\ parser' = ParseByte(parser, Head(coming))
  /\ coming' = Tail(coming)
  /\ taken' = taken + 1
  /\ IF Len(coming) = 1 THEN Means ELSE UNCHANGED meaning
  /\ UNCHANGED <<out, telling>>

\* The read ends, wherever it has cut the stream: its data is appended to the output, and
\* its replies are queued before the codec's mutex is free again.
EndRead ==
  /\ taken > 0 /\ (parser.response # << >> => HasRoom)
  /\ out' = out \o parser.response
  /\ parser' = [parser EXCEPT !.data = << >>, !.response = << >>]
  /\ meant' = NoMeaning
  /\ taken' = 0
  /\ UNCHANGED <<coming, piece, inside, payload, telling>>

-----------------------------------------------------------------------------
(* To the peer.                                                            *)

\* resize, under the mutex.
ResizeTo(size) ==
  /\ taken = 0 /\ HasRoom
  /\ parser' = [parser EXCEPT !.cols = ClampDimension(size[1]), !.rows = ClampDimension(size[2])]
  /\ out' = Append(out, Message(Naws(parser'.cols, parser'.rows), << >>,
                                <<parser'.cols, parser'.rows>>))
  /\ UNCHANGED <<taken, coming, meaning, telling>>

\* write_data, with what the input is encoded as.
WriteText(text) ==
  /\ HasRoom
  /\ out' = Append(out, Message(EscapeIac(text), text, Untold))
  /\ UNCHANGED <<parsing, meaning, telling>>

\* The writer takes the next message.
TakeMessage ==
  /\ left = << >> /\ out # << >>
  /\ said' = Head(out)
  /\ left' = Head(out).bytes
  /\ out' = Tail(out)
  /\ peer' = [peer EXCEPT !.data = << >>, !.response = << >>]
  /\ heard' = Untold
  /\ UNCHANGED <<parsing, meaning>>

\* The size in a subnegotiation that a byte ends.
SizeIn(p, byte) ==
  IF p.state = "subIac" /\ byte = Se /\ Len(p.sub) = 5 /\ p.sub[1] = OptNaws
  THEN <<p.sub[2] * 256 + p.sub[3], p.sub[4] * 256 + p.sub[5]>>
  ELSE heard

\* The peer reads a byte.
PeerReadsByte ==
  /\ left # << >>
  /\ peer' = ParseByte(peer, Head(left))
  /\ heard' = SizeIn(peer, Head(left))
  /\ left' = Tail(left)
  /\ UNCHANGED <<parsing, meaning, out, said>>

CodecNext ==
  \/ PeerSends \/ ReadByte \/ EndRead
  \/ \E size \in Size : ResizeTo(size)
  \/ \E text \in Text : WriteText(text)
  \/ TakeMessage \/ PeerReadsByte

CodecSpec == CodecInit /\ [][CodecNext]_codecVars

-----------------------------------------------------------------------------
(* Properties.                                                             *)

\* Wherever reads cut the peer's stream, a call of parse returns its data unchanged and
\* answers its commands and nothing else; a subnegotiation that is too long or malformed is
\* ignored up to its end, none of its bytes becomes output or a command (ARCHITECTURE.md:74
\* and the comment in push_subnegotiation).
PeerIsUnderstood ==
  /\ parser.data = meant.data /\ parser.response = meant.replies
  /\ coming = << >> /\ inside = "none" => parser.state = "data"

\* What the program writes is understood by a peer with the same rules: it gets what the
\* user types, whatever bytes that has, with nothing in it to answer, and every size as it is.
PeerUnderstands ==
  left = << >> =>
    /\ peer.state = "data"
    /\ peer.data = said.text /\ heard = said.size
    /\ said.text # << >> => peer.response = << >>

\* Neither side takes a command for data or data for a command, wherever a read ends.
CodecIsTransparent == PeerIsUnderstood /\ PeerUnderstands
=============================================================================
