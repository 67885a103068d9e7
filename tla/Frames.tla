------------------------------- MODULE Frames -------------------------------
(***************************************************************************)
(* A TCP stream as both programs see it: messages without separators, each *)
(* of which is told from the next by the length in its header.  A byte is  *)
(* known by its place in its frame.                                        *)
(***************************************************************************)
EXTENDS Naturals, Sequences, Protocol

CONSTANTS
  PROTOCOl_MESSAGE_HEADER_LENGTH,
  PayloadLength,       \* bound: the lengths of payloads that are not empty
  Kind                 \* bound: the kinds of messages on this stream

ASSUME FramesAssumption ==
  /\ PROTOCOl_MESSAGE_HEADER_LENGTH \in Nat \ {0}
  /\ PayloadLength \subseteq Nat \ {0}
  /\ Kind \subseteq DOMAIN Packet

(* A frame is a message; a ping is one without a payload.                  *)
Frame == {f \in [kind : Kind, length : PayloadLength \cup {0}] :
            f.length = 0 <=> Packet[f.kind].payload_length = 0}
Size(f) == PROTOCOl_MESSAGE_HEADER_LENGTH + f.length

Byte == UNION {[frame : {f}, at : 1 .. Size(f)] : f \in Frame}
IsLast(b) == b.at = Size(b.frame)
Follows(b, c) ==
  IF IsLast(b) THEN c.at = 1 ELSE c.frame = b.frame /\ c.at = b.at + 1

(* What was read as one message is one.                                    *)
IsFrame(s) ==
  /\ s # <<>> /\ s[1].at = 1 /\ Len(s) = Size(s[1].frame)
  /\ \A k \in 1 .. Len(s) - 1 : Follows(s[k], s[k + 1])

(* The message a frame is; only for what IsFrame.                          *)
PacketOf(s) == Packet[s[1].frame.kind]

(* The payload length that is found in a header that was read: that of its *)
(* frame, or any if the bytes are not the header of one.                   *)
LengthRead(s) ==
  IF \A k \in 1 .. PROTOCOl_MESSAGE_HEADER_LENGTH :
       s[k].at = k /\ s[k].frame = s[1].frame
  THEN {s[1].frame.length} ELSE PayloadLength \cup {0}

(* A part of a stream, from the beginning of a frame and without a gap.    *)
IsStream(s) ==
  /\ s # <<>> => s[1].at = 1
  /\ \A k \in 1 .. Len(s) - 1 : Follows(s[k], s[k + 1])

=============================================================================
