-------------------------- MODULE DeviceReceiver --------------------------
(***************************************************************************)
(* The receiver of one connection of the central server, at the level of   *)
(* recv.  A device writes its messages byte by byte (ethernet_send_message *)
(* of NetworkSender.cpp); the server cuts what arrives into messages again *)
(* under several time limits (receive_message of utility.cpp, called in    *)
(* handle_device_receiver of device.cpp).  TCP and the kernel are external,*)
(* and what is done with a message is Relay.                               *)
(*                                                                         *)
(* Time is in seconds, as the program measures it: a step of Tick is the   *)
(* moment in which time(NULL) changes.                                     *)
(***************************************************************************)
EXTENDS Integers, FiniteSets, Frames

CONSTANTS
  CounterWrap,          \* number of values of recv_counter, a uint16_t
  RecvTime,             \* the 13 seconds of receive_message
  SO_RCVTIMEO,          \* the 15 seconds the sockets inherit (server.cpp)
  Silence,              \* the 30 seconds of handle_device_receiver
  PROTOCOL_SEND_TRIES,
  Punctual,             \* a punctual device's messages are this far apart
  Wire,                 \* bound: bytes the kernel holds unread
  MaxPass               \* bound: time the receiver spends outside recv

ASSUME ReceiverAssumption ==
  /\ RecvTime \in Nat \ {0} /\ SO_RCVTIMEO \in Nat \ {0} /\ Silence \in Nat
  /\ PROTOCOL_SEND_TRIES \in Nat \ {0}
  /\ Wire \in Nat \ {0}
  /\ Kind \cap {"serverPing", "spoiltPing"} = {}   \* devices wrote them
  /\ CounterWrap \in Nat /\ Punctual \in Nat /\ MaxPass \in Nat
  /\ \A n \in PayloadLength \cup {PROTOCOl_MESSAGE_HEADER_LENGTH} : n < CounterWrap - 1

(* What the program's numbers are chosen for, with the time for handling a *)
(* message; a device is kept only if so.                                   *)
ASSUME PunctualAssumption ==
  Punctual + MaxPass < RecvTime /\ Punctual + MaxPass < SO_RCVTIMEO
  /\ MaxPass < Silence

VARIABLES
  recvPc,           \* where the receiver is
  part,             \* the part of the message receive_message is called for
  message,          \* the bytes of it that were read
  payload_length,   \* as read in the header
  recv_counter,
  callAge, blockAge,  \* time since receive_message, and recv, were called
  lastAge,          \* time since last_message_from_client
  pass,             \* time spent outside recv since the last message
  wire,             \* bytes that arrived and were not read
  peer,             \* "open", or how the device ended the connection
  writing,          \* the frame the device is writing, if any
  written, tries,   \* sent and tries of ethernet_send_message
  wroteAge,         \* time since the device last wrote a whole message,
                    \* while it is healthy
  healthy,          \* history: the device was punctual, all it wrote is good
                    \* and was compared with a digest of its own
  torn,             \* history: it gave up in the middle of a frame
  owed,             \* history: frames written and not handled, before torn
  unverified        \* history: time since the last verified message

callVars == <<recvPc, part, message, payload_length, recv_counter, callAge, blockAge>>
peerVars == <<peer, writing, written, tries, wroteAge, torn>>
vars == <<callVars, lastAge, pass, wire, peerVars, healthy, owed, unverified>>

TypeOK ==
  /\ recvPc \in {"loop", "recv", "handle", "ended"}
  /\ part \in {"header", "payload"}
  /\ message \in Seq(Byte) /\ wire \in Seq(Byte) /\ Len(wire) <= Wire
  /\ payload_length \in PayloadLength \cup {0}
  /\ recv_counter \in 0 .. CounterWrap - 1
  /\ callAge \in Nat /\ blockAge \in 0 .. SO_RCVTIMEO
  /\ lastAge \in Nat /\ unverified \in Nat
  /\ pass \in 0 .. MaxPass
  /\ peer \in {"open", "closed", "reset"}
  /\ writing \in {<<>>} \cup {<<f>> : f \in Frame}
  /\ written \in Nat /\ tries \in Nat
  /\ wroteAge \in 0 .. Punctual
  /\ healthy \in BOOLEAN /\ torn \in BOOLEAN
  /\ owed \in Nat

(* The receiver has taken its reference and the time.                      *)
Init ==
  /\ recvPc = "loop" /\ part = "header" /\ message = <<>>
  /\ payload_length = 0 /\ recv_counter = 0 /\ callAge = 0 /\ blockAge = 0
  /\ lastAge = 0 /\ unverified = 0 /\ pass = 0
  /\ wire = <<>> /\ peer = "open"
  /\ writing = <<>> /\ written = 0 /\ tries = 0 /\ wroteAge = 0
  /\ healthy = TRUE /\ torn = FALSE /\ owed = 0

-----------------------------------------------------------------------------
(* receive_message                                                         *)

(* Operators named X_Y are X with a slip Y that the checks must notice.    *)

recv_length ==
  IF part = "header" THEN PROTOCOl_MESSAGE_HEADER_LENGTH ELSE payload_length

Call(p) ==
  /\ recvPc' = "recv" /\ part' = p /\ recv_counter' = 0
  /\ callAge' = 0 /\ blockAge' = 0

(* handle_device_receiver goes on with what it has got.                    *)
Complete ==
  \/ /\ part = "header"
     /\ payload_length' \in LengthRead(message')
     /\ Call("payload")
  \/ /\ part = "payload"
     /\ recvPc' = "handle"
     /\ recv_counter' = 0 /\ callAge' = 0 /\ blockAge' = 0
     /\ UNCHANGED <<part, payload_length>>

Again ==
  /\ blockAge' = 0
  /\ UNCHANGED <<recvPc, part, payload_length, callAge>>

(* The result -1 ends the receiver's loop.                                 *)
End ==
  /\ recvPc' = "ended"
  /\ callAge' = 0 /\ blockAge' = 0
  /\ UNCHANGED <<part, payload_length>>

Returned_Signed(temp) ==
  LET count == recv_counter + temp IN
  \/ count = recv_length /\ Complete
  \/ count # recv_length /\ recv_counter' = count
     /\ \/ temp > 0 /\ callAge < RecvTime /\ Again
        \/ ~(temp > 0 /\ callAge < RecvTime) /\ End

(* After recv has returned temp: the count first, then the conditions of   *)
(* the loop.                                                               *)
Returned(temp) ==
  LET count == (recv_counter + temp) % CounterWrap IN
  \/ count = recv_length /\ Complete
  \/ count # recv_length /\ recv_counter' = count
     /\ \/ temp > 0 /\ callAge < RecvTime /\ Again
        \/ ~(temp > 0 /\ callAge < RecvTime) /\ End

Least(m, n) == IF m < n THEN m ELSE n

RecvSome_Anew ==
  /\ recvPc = "recv" /\ recv_length > 0 /\ wire # <<>>
  /\ LET n == Least(recv_length, Len(wire)) IN
       /\ message' = message \o SubSeq(wire, 1, n)
       /\ wire' = SubSeq(wire, n + 1, Len(wire))
       /\ Returned(n)
  /\ UNCHANGED <<lastAge, pass, peerVars, healthy, owed, unverified>>

RecvSome ==
  /\ recvPc = "recv" /\ recv_length > 0 /\ wire # <<>>
  /\ LET n == Least(recv_length - recv_counter, Len(wire)) IN
       /\ message' = message \o SubSeq(wire, 1, n)
       /\ wire' = SubSeq(wire, n + 1, Len(wire))
       /\ Returned(n)
  /\ UNCHANGED <<lastAge, pass, peerVars, healthy, owed, unverified>>

(* recv of no bytes, for an empty payload: it returns at once, or (Linux)  *)
(* when there is something to read, the end of the stream included.        *)
RecvEmpty ==
  /\ recvPc = "recv" /\ recv_length = 0
  /\ UNCHANGED <<message, lastAge, pass, wire, peerVars, healthy, owed, unverified>>
  /\ Returned(0)

(* The device has closed its end.                                          *)
RecvEnd ==
  /\ recvPc = "recv" /\ recv_length > 0 /\ wire = <<>> /\ peer = "closed"
  /\ UNCHANGED <<message, lastAge, pass, wire, peerVars, healthy, owed, unverified>>
  /\ Returned(0)

RecvFails_Continue ==
  /\ recvPc = "recv" /\ (blockAge = SO_RCVTIMEO \/ peer = "reset")
  /\ recvPc' = "loop" /\ callAge' = 0 /\ blockAge' = 0
  /\ UNCHANGED <<part, payload_length, recv_counter, message, lastAge, pass,
                 wire, peerVars, healthy, owed, unverified>>

(* Nothing came in time, or the connection was reset: recv returns -1,     *)
(* which receive_message adds to its count.                                *)
RecvFails ==
  /\ recvPc = "recv"
  /\ blockAge = SO_RCVTIMEO \/ peer = "reset"
  /\ UNCHANGED <<message, lastAge, pass, wire, peerVars, healthy, owed, unverified>>
  /\ Returned(-1)

-----------------------------------------------------------------------------
(* handle_device_receiver                                                  *)

(* The head of the loop.                                                   *)
Check ==
  /\ recvPc = "loop"
  /\ message' = <<>> /\ pass' = 0
  /\ \/ lastAge < Silence /\ Call("header") /\ payload_length' = 0
     \/ lastAge >= Silence /\ End /\ UNCHANGED recv_counter
  /\ UNCHANGED <<lastAge, wire, peerVars, healthy, owed, unverified>>

IsGood(s) == IsFrame(s) /\ IsVerified(PacketOf(s))

Handle_EveryMessage ==
  /\ recvPc = "handle" /\ recvPc' = "loop"
  /\ lastAge' = 0
  /\ unverified' = IF IsGood(message) THEN 0 ELSE unverified
  /\ owed' = IF torn THEN owed ELSE owed - 1
  /\ UNCHANGED <<part, message, payload_length, recv_counter, callAge, blockAge,
                 pass, wire, peerVars, healthy>>

Handle_NotKept ==
  /\ recvPc = "handle" /\ recvPc' = "loop"
  /\ \/ IsGood(message) /\ unverified' = 0
     \/ ~IsGood(message) /\ UNCHANGED unverified
  /\ owed' = IF torn THEN owed ELSE owed - 1
  /\ UNCHANGED <<part, message, payload_length, recv_counter, callAge, blockAge,
                 lastAge, pass, wire, peerVars, healthy>>

(* handle_recvd_message: a verified message is a sign of life.  What it    *)
(* does then (Relay) takes some of the time of this pass.                  *)
Handle ==
  /\ recvPc = "handle" /\ recvPc' = "loop"
  /\ \/ IsGood(message) /\ lastAge' = 0 /\ unverified' = 0
     \/ ~IsGood(message) /\ UNCHANGED <<lastAge, unverified>>
  /\ owed' = IF torn THEN owed ELSE owed - 1
  /\ UNCHANGED <<part, message, payload_length, recv_counter, callAge, blockAge,
                 pass, wire, peerVars, healthy>>

(* HMAC without a buffer returns one that all threads share: the digest of *)
(* another thread's message, or of a ping, is compared if it comes in      *)
(* between, and the message passes for one that is not signed.             *)
HandleOverwritten ==
  /\ recvPc = "handle" /\ recvPc' = "loop"
  /\ healthy' = FALSE /\ wroteAge' = 0
  /\ owed' = IF torn THEN owed ELSE owed - 1
  /\ UNCHANGED <<part, message, payload_length, recv_counter, callAge, blockAge,
                 lastAge, pass, wire, peer, writing, written, tries, torn, unverified>>

-----------------------------------------------------------------------------
(* The device: NetworkSender, or a client that writes like it              *)

Alive == recvPc # "ended" /\ peer = "open"

(* ethernet_send_message begins.                                           *)
DeviceSends ==
  /\ Alive /\ writing = <<>>
  /\ \E f \in Frame :
       /\ writing' = <<f>>
       /\ healthy' = (healthy /\ IsVerified(Packet[f.kind]))
  /\ wroteAge' = IF healthy' THEN wroteAge ELSE 0
  /\ written' = 0 /\ tries' = 0
  /\ UNCHANGED <<callVars, lastAge, pass, wire, peer, torn, owed, unverified>>

TriesLeft == tries < PROTOCOL_SEND_TRIES * Size(writing[1])

(* write(ptr[sent]) takes the byte; with the last one the call returns     *)
(* true, and the caller is content.                                        *)
WriteByte ==
  /\ Alive /\ writing # <<>> /\ TriesLeft
  /\ Len(wire) < Wire
  /\ wire' = Append(wire, [frame |-> writing[1], at |-> written + 1])
  /\ \/ /\ written + 1 < Size(writing[1])
        /\ written' = written + 1 /\ tries' = tries + 1
        /\ UNCHANGED <<writing, wroteAge, owed>>
     \/ /\ written + 1 = Size(writing[1])
        /\ writing' = <<>> /\ written' = 0 /\ tries' = 0 /\ wroteAge' = 0
        /\ owed' = IF torn THEN owed ELSE owed + 1
  /\ UNCHANGED <<callVars, lastAge, pass, peer, torn, healthy, unverified>>

(* It does not.                                                            *)
WriteFails ==
  /\ Alive /\ writing # <<>> /\ TriesLeft
  /\ tries' = tries + 1
  /\ UNCHANGED <<callVars, lastAge, pass, wire, peer, writing, written, wroteAge,
                 torn, healthy, owed, unverified>>

(* It returns false: keep_connected replaces the connection on which it    *)
(* cannot ping, report_data_to_server does not look.                       *)
GiveUp ==
  /\ Alive /\ writing # <<>> /\ ~TriesLeft
  /\ writing' = <<>> /\ written' = 0 /\ tries' = 0
  /\ \/ writing[1].kind = "ping" /\ peer' = "closed" /\ UNCHANGED torn
     \/ writing[1].kind # "ping" /\ torn' = (torn \/ written > 0) /\ UNCHANGED peer
  /\ healthy' = FALSE /\ wroteAge' = 0
  /\ UNCHANGED <<callVars, lastAge, pass, wire, owed, unverified>>

(* The device leaves, or the connection breaks.                            *)
PeerEnds ==
  /\ Alive /\ peer' \in {"closed", "reset"}
  /\ writing' = <<>> /\ written' = 0 /\ tries' = 0
  /\ UNCHANGED <<callVars, lastAge, pass, wire, wroteAge, torn, healthy,
                 owed, unverified>>

-----------------------------------------------------------------------------
(* recv returns when it can, and otherwise blocks.                         *)
RecvBlocks == recvPc = "recv" /\ wire = <<>> /\ peer = "open" /\ blockAge < SO_RCVTIMEO

Tick ==
  /\ recvPc # "ended"
  /\ \/ RecvBlocks /\ blockAge' = blockAge + 1 /\ UNCHANGED pass
     \/ ~RecvBlocks /\ pass < MaxPass /\ pass' = pass + 1 /\ UNCHANGED blockAge
  /\ callAge' = IF recvPc = "recv" THEN callAge + 1 ELSE callAge
  /\ lastAge' = lastAge + 1 /\ unverified' = unverified + 1
  /\ \/ ~healthy /\ UNCHANGED <<healthy, wroteAge>>
     \/ healthy /\ wroteAge < Punctual /\ wroteAge' = wroteAge + 1 /\ UNCHANGED healthy
     \/ healthy /\ wroteAge = Punctual /\ healthy' = FALSE /\ wroteAge' = 0
  /\ UNCHANGED <<recvPc, part, message, payload_length, recv_counter, wire, peer,
                 writing, written, tries, torn, owed>>

(* The receiver has ended; the rest is Relay.                              *)
Finished == recvPc = "ended" /\ UNCHANGED vars

Receive ==
  \/ RecvSome \/ RecvEmpty \/ RecvEnd \/ RecvFails
  \/ Check \/ Handle \/ HandleOverwritten
Device == DeviceSends \/ WriteByte \/ WriteFails \/ GiveUp \/ PeerEnds

Next == Receive \/ Device \/ Tick \/ Finished

Spec == Init /\ [][Next]_vars

-----------------------------------------------------------------------------
(* Safety                                                                  *)

Unhandled == (IF recvPc = "loop" THEN <<>> ELSE message) \o wire

(* The receiver is in step with the stream, however it arrives in pieces   *)
(* and whichever calls of recv fail, until the device itself gives up in   *)
(* the middle of a message or the receiver ends the connection.            *)
InStep == torn \/ recvPc = "ended" \/ IsStream(Unhandled)

(* Every message that was written whole is handled once: no call of recv   *)
(* takes bytes of the next message, whatever pieces the bytes come in.     *)
NothingSkipped ==
  torn \/ recvPc = "ended"
    \/ owed = Cardinality({k \in DOMAIN Unhandled : IsLast(Unhandled[k])})

(* A device that is no longer heard, that is out of step since a message   *)
(* of which it wrote a part, or whose messages are not verified is given   *)
(* up in time: the limit of the loop is looked at once in a message, of    *)
(* which each part may take the time of receive_message and of one recv.   *)
SilentIsEnded ==
  recvPc # "ended" =>
    unverified <= (Silence - 1) + 2 * (RecvTime - 1 + SO_RCVTIMEO) + MaxPass

(* A device whose messages come in time and are verified is not given up.  *)
PunctualIsKept ==
  [][recvPc # "ended" /\ recvPc' = "ended" => ~healthy \/ peer # "open"]_vars

(* The server and the devices agree on what a message is, although each    *)
(* converts some of its words: what a device of network 0 has signed for   *)
(* the server is verified and nothing else, a ping is known as one, and    *)
(* what is relayed is accepted by a device that shares the sender's key,   *)
(* which reads what was sent.                                              *)
PeersAgree ==
  recvPc = "handle" /\ IsFrame(message) =>
    LET kind == message[1].frame.kind
        relayed == Relayed(PacketOf(message))
    IN  /\ IsGood(message) <=> kind \notin {"unknown", "foreign"}
        /\ IsPing(PacketOf(message)) <=> kind = "ping"
        /\ IsGood(message) /\ kind # "ping" =>
             /\ IsAccepted(Arduino, relayed) <=> kind # "stranger"
             /\ kind # "stranger" => Decrypted(Arduino, relayed) = [type |-> 1, under |-> {}]

=============================================================================
