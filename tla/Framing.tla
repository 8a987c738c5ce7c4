------------------------------ MODULE Framing ------------------------------
(***************************************************************************)
(* Packets on a byte stream (shared/src/util.cpp): each is stuffed and     *)
(* ended with a delimiter, the receiver keeps what is behind the last      *)
(* delimiter and scans it again with the next bytes.  One direction of one *)
(* pair of client and server; chunks end anywhere, also behind an ESCAPE,  *)
(* and the connection may end with bytes unread.                           *)
(*                                                                         *)
(* A packet is the bytes it serializes to, at least a header.              *)
(***************************************************************************)
EXTENDS Naturals, SequencesExt

CONSTANTS
    Packet,           \* the serialized packets
    BufferPerSocket,  \* the server's m_socketBuffers, not the client's one buffer
    MaxPackets        \* packets beyond which nobody sends on a connection

ASSUME FramingAssumption ==
    /\ Packet \subseteq Seq(0..255) \ {<<>>}
    /\ BufferPerSocket \in BOOLEAN
    /\ MaxPackets \in Nat

VARIABLES
    sent,      \* packets sent on this connection
    wire,      \* bytes written and not yet read
    buffer,    \* the receiver's m_socketBuffers entry or m_incomingBuffer
    received   \* packets parsed on this connection

vars == <<sent, wire, buffer, received>>

-----------------------------------------------------------------------------
(* util.h and util.cpp. *)

DELIMITER == 240
ESCAPE == 241
ESCAPED_DELIMITER == 0
ESCAPED_ESCAPE == 1

Escaped_KeepsEscape(byte) ==
    IF byte = DELIMITER THEN <<ESCAPE, ESCAPED_DELIMITER>> ELSE <<byte>>
Escaped(byte) ==
    CASE byte = DELIMITER -> <<ESCAPE, ESCAPED_DELIMITER>>
      [] byte = ESCAPE -> <<ESCAPE, ESCAPED_ESCAPE>>
      [] OTHER -> <<byte>>

encapsulate(packet) ==
    Append(FlattenSeq([i \in DOMAIN packet |-> Escaped(packet[i])]), DELIMITER)

Unescaped(byte) ==
    CASE byte = ESCAPED_DELIMITER -> <<DELIMITER>>
      [] byte = ESCAPED_ESCAPE -> <<ESCAPE>>
      [] OTHER -> <<ESCAPE, byte>>

\* The state of parseStream's loop; "rest" is what consumed leaves.
StartOfFrame(messages) ==
    [messages |-> messages, frame |-> <<>>, escaped |-> FALSE, rest |-> <<>>]

ScanByte(s, byte) ==
    LET t == [s EXCEPT !.rest = Append(@, byte)] IN
    CASE s.escaped -> [t EXCEPT !.frame = @ \o Unescaped(byte), !.escaped = FALSE]
      [] ~s.escaped /\ byte = ESCAPE -> [t EXCEPT !.escaped = TRUE]
      [] ~s.escaped /\ byte = DELIMITER ->
           StartOfFrame(IF s.frame = <<>> THEN s.messages ELSE Append(s.messages, s.frame))
      [] ~s.escaped /\ byte \notin {ESCAPE, DELIMITER} -> [t EXCEPT !.frame = Append(@, byte)]

\* The loop, after all of "bytes".
Scanned(bytes) ==
    LET after[n \in 0..Len(bytes)] ==
            IF n = 0 THEN StartOfFrame(<<>>) ELSE ScanByte(after[n - 1], bytes[n])
    IN after[Len(bytes)]

\* The packets in "bytes" and, as rest, the bytes that stay in the buffer.
parseStream_TakesAll(bytes) == [Scanned(bytes) EXCEPT !.rest = <<>>]
parseStream(bytes) == Scanned(bytes)

-----------------------------------------------------------------------------
(* The two sides. *)

sendPacket(packet) ==
    /\ Len(sent) < MaxPackets
    /\ sent' = Append(sent, packet)
    /\ wire' = wire \o encapsulate(packet)
    /\ UNCHANGED <<buffer, received>>

\* onServerRead, onReadyRead: readAll returns the bytes that have arrived.
processBytes(n) ==
    LET parsed == parseStream(buffer \o SubSeq(wire, 1, n)) IN
    /\ wire' = SubSeq(wire, n + 1, Len(wire))
    /\ buffer' = parsed.rest
    /\ received' = received \o parsed.messages
    /\ UNCHANGED sent

\* The connection ends, bytes that were not read are lost, a new one begins.
reconnect ==
    /\ sent' = <<>>
    /\ wire' = <<>>
    /\ received' = <<>>
    /\ buffer' = IF BufferPerSocket THEN <<>> ELSE buffer

FramingInit == sent = <<>> /\ wire = <<>> /\ buffer = <<>> /\ received = <<>>

FramingNext ==
    \/ \E packet \in Packet : sendPacket(packet)
    \/ \E n \in 1..Len(wire) : processBytes(n)
    \/ reconnect

FramingSpec == FramingInit /\ [][FramingNext]_vars

-----------------------------------------------------------------------------
(* Correctness. *)

\* What processBytes hands to processPacket are the packets the other side sent
\* on this connection, whole and in order, wherever the chunks were cut.
ReceivedIsSent == IsPrefix(received, sent)

\* A packet whose last byte was read is not held back for later bytes.
NothingHeldBack == wire = <<>> => received = sent /\ buffer = <<>>

\* The byte stream implements the channel of packets that the other modules
\* take a connection for.
Channel == INSTANCE PacketChannel WITH
    queue <- SubSeq(sent, Len(received) + 1, Len(sent)),
    arrived <- received

\* Every step of the byte stream is a step of the channel or invisible there.
ImplementsChannel == Channel!ChannelSpec
=============================================================================
