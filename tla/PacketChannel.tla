--------------------------- MODULE PacketChannel ---------------------------
(***************************************************************************)
(* What the two sides of a connection count on: packets arrive whole, once *)
(* and in the order they were sent, several at a time, and what has not    *)
(* arrived when the connection ends never does.                            *)
(***************************************************************************)
EXTENDS Naturals, Sequences

CONSTANT Packet

VARIABLES
    queue,    \* packets sent and not yet received
    arrived   \* packets received on this connection

ChannelInit == queue = <<>> /\ arrived = <<>>

Send(p) ==
    /\ queue' = Append(queue, p)
    /\ UNCHANGED arrived

Receive(n) ==
    /\ arrived' = arrived \o SubSeq(queue, 1, n)
    /\ queue' = SubSeq(queue, n + 1, Len(queue))

Reconnect ==
    /\ queue' = <<>>
    /\ arrived' = <<>>

ChannelNext ==
    \/ \E p \in Packet : Send(p)
    \/ \E n \in 1..Len(queue) : Receive(n)
    \/ Reconnect

ChannelSpec == ChannelInit /\ [][ChannelNext]_<<queue, arrived>>
=============================================================================
