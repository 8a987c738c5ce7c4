----------------------------- MODULE MCFraming -----------------------------
(* Framing with all packets of up to two of the five kinds of bytes. *)
EXTENDS Framing

Bytes == {DELIMITER, ESCAPE, ESCAPED_DELIMITER, ESCAPED_ESCAPE, 65}

Packets == {<<b>> : b \in Bytes} \cup {<<b, c>> : b \in Bytes, c \in Bytes}
=============================================================================
