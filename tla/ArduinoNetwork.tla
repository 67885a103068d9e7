--------------------------- MODULE ArduinoNetwork ---------------------------
(***************************************************************************)
(* The Arduino's connection to the central server: NetworkConnection.cpp   *)
(* keeps it, NetworkSender.cpp writes to it, and NetworkReceiver.cpp cuts  *)
(* the bytes that arrive into messages for main.ino.                       *)
(*                                                                         *)
(* One thread does all this once a round of the main loop, in the order of *)
(* `pc'.  Between its steps time passes, bytes arrive, and the connection  *)
(* may end in any of the ways TCP has.  The server's side of it is         *)
(* send_message of utility.cpp, which blocks while the bytes between the   *)
(* programs are all taken; what it sends comes from the sending_buffer of  *)
(* device.cpp, pings among the rest, in the order in which it was put      *)
(* there.  The Ethernet library and the network are external.              *)
(***************************************************************************)
EXTENDS Integers, FiniteSets, Frames

CONSTANTS
  Wrap,                \* number of values of millis(), a uint32_t
  NumberWrap,          \* number of values of connection_number, a uint8_t
  PROTOCOl_RECIEVE_POKE_TIME, PROTOCOl_SEND_POKE_TIME,
  RxBuffer,            \* bound: bytes the kernel, the network and the
                       \* Ethernet controller hold unread
  MaxPass,             \* bound: time one round of the main loop may take
  SendRounds,          \* bound: rounds that make room for any message
  PingRounds           \* bound: rounds that read all the buffers may hold

ASSUME NetworkAssumption ==
  /\ Wrap \in Nat /\ NumberWrap \in Nat
  /\ "serverPing" \in Kind
  /\ "unknown" \notin Kind   \* the server relays what it has verified
  /\ RxBuffer \in Nat \ {0} /\ MaxPass \in Nat \ {0}
  /\ PROTOCOl_SEND_POKE_TIME \in Nat /\ PROTOCOl_RECIEVE_POKE_TIME \in Nat
  /\ PROTOCOl_SEND_POKE_TIME + 2 * MaxPass < Wrap
  /\ PROTOCOl_RECIEVE_POKE_TIME + 2 * MaxPass < Wrap
  /\ NumberWrap > 3        \* keep_connected reconnects three times at most

(* The buffers hold a message with the beginning of the next.  A round     *)
(* takes a message, and so a header at least, off what has not been        *)
(* parsed, which is less than a message and what the buffers hold.         *)
ASSUME RoundsAssumption ==
  /\ SendRounds \in Nat \ {0} /\ PingRounds \in Nat \ {0}
  /\ \A n \in PayloadLength \cup {0} :
       LET message == PROTOCOl_MESSAGE_HEADER_LENGTH + n
       IN  /\ message + PROTOCOl_MESSAGE_HEADER_LENGTH <= RxBuffer + 1
           /\ message + PROTOCOl_MESSAGE_HEADER_LENGTH
                <= SendRounds * PROTOCOl_MESSAGE_HEADER_LENGTH + 2
           /\ message + RxBuffer <= PingRounds * PROTOCOl_MESSAGE_HEADER_LENGTH + 1

VARIABLES
  millis, last_poke_to_server, last_poke_from_server,
  connection_number,           \* NetworkInfo.connection_number
  receiver_number,             \* NetworkReceiver.connection_number
  received_message,            \* received_message[0 .. index - 1]
  is_message_received,
  pc, lag,                     \* where the loop is; time since the round began
  socket,                      \* what has become of the TCP connection
  inbox,                       \* bytes that arrived and were not read
  last,                        \* the byte the server sent last
  blocked,                     \* time its send of this message has blocked
  silent, unpoked,             \* history: time since the last ping from the
                               \* server, and to it, or since connecting
  unheard,                     \* history: how long pings of the server have
                               \* waited here without one being heard
  owed                         \* history: messages for this device that
                               \* arrived whole on this connection and
                               \* main.ino has not seen

heardVars == <<last_poke_from_server, silent, unheard>>
pokeVars == <<last_poke_to_server, unpoked, heardVars>>
receiverVars == <<receiver_number, received_message, is_message_received>>
linkVars == <<connection_number, socket, last, blocked>>
vars == <<millis, pokeVars, receiverVars, linkVars, pc, lag, inbox, owed>>

(* The boundary between two frames, where a new connection also is.        *)
Boundary == LET ping == [kind |-> "serverPing", length |-> 0]
            IN  [frame |-> ping, at |-> Size(ping)]

Clock == 0 .. Wrap - 1
Number == 0 .. NumberWrap - 1

TypeOK ==
  /\ millis \in Clock
  /\ last_poke_to_server \in Clock /\ last_poke_from_server \in Clock
  /\ connection_number \in Number /\ receiver_number \in Number
  /\ received_message \in Seq(Byte)
  /\ is_message_received \in BOOLEAN
  /\ pc \in {"connect", "silence", "poke", "receive", "order"}
  /\ lag \in 0 .. MaxPass
  /\ socket \in {"open", "half", "lost", "closed"}
  /\ inbox \in Seq(Byte) /\ Len(inbox) <= RxBuffer
  /\ last \in Byte /\ blocked \in Nat
  /\ silent \in Nat /\ unpoked \in Nat /\ unheard \in Nat
  /\ owed \in Nat

(* setup() is over, and client has not been connected yet.                 *)
Init ==
  /\ millis = 0
  /\ last_poke_to_server = millis /\ last_poke_from_server = millis
  /\ connection_number = 0 /\ receiver_number = connection_number
  /\ received_message = <<>> /\ is_message_received = FALSE
  /\ pc = "connect" /\ lag = 0
  /\ socket = "closed" /\ inbox = <<>> /\ last = Boundary /\ blocked = 0
  /\ silent = 0 /\ unpoked = 0 /\ unheard = 0 /\ owed = 0

-----------------------------------------------------------------------------
(* Operators named X_Y are X with a slip Y that the checks must notice.    *)

Passed_Absolute(t) == IF millis < t THEN 0 ELSE millis - t

Passed_Wide(t) == (millis - t) % (Wrap * Wrap)   \* the difference in uint64_t

(* millis() - t, in uint32_t.                                              *)
Passed(t) == (millis - t) % Wrap

(* EthernetClient.connected(): a connection the peer has closed counts     *)
(* until it is read to its end, and one that is lost cannot be told.       *)
Connected == socket \in {"open", "lost"} \/ (socket = "half" /\ inbox # <<>>)

Reconnect_NumberUnwrapped ==
  /\ socket' \in {"open", "closed"}
  /\ inbox' = <<>> /\ last' = Boundary /\ blocked' = 0 /\ owed' = 0
  /\ last_poke_to_server' = millis /\ last_poke_from_server' = millis
  /\ silent' = 0 /\ unpoked' = 0 /\ unheard' = 0
  /\ connection_number' = connection_number + 1

(* stop and connect, which may fail; either way the timers start afresh    *)
(* and the connection has a new number.                                    *)
Reconnect ==
  /\ socket' \in {"open", "closed"}
  /\ inbox' = <<>> /\ last' = Boundary /\ blocked' = 0 /\ owed' = 0
  /\ last_poke_to_server' = millis /\ last_poke_from_server' = millis
  /\ silent' = 0 /\ unpoked' = 0 /\ unheard' = 0
  /\ connection_number' = (connection_number + 1) % NumberWrap

KeepConnection == UNCHANGED <<pokeVars, linkVars, inbox, owed>>

-----------------------------------------------------------------------------
(* NetworkConnection::keep_connected                                       *)

keep_connection ==
  /\ pc = "connect" /\ pc' = "silence"
  /\ \/ ~Connected /\ Reconnect
     \/ Connected /\ KeepConnection
  /\ UNCHANGED <<millis, receiverVars, lag>>

CheckSilence ==
  /\ pc = "silence" /\ pc' = "poke"
  /\ \/ Passed(last_poke_from_server) > PROTOCOl_RECIEVE_POKE_TIME /\ Reconnect
     \/ Passed(last_poke_from_server) <= PROTOCOl_RECIEVE_POKE_TIME /\ KeepConnection
  /\ UNCHANGED <<millis, receiverVars, lag>>

(* NetworkSender::send of a ping; it is false if the client is not         *)
(* connected or some byte could not be written.                            *)
PokeSent ==
  /\ Connected
  /\ last_poke_to_server' = millis
  /\ unpoked' = 0
  /\ UNCHANGED <<heardVars, linkVars, inbox, owed>>

Poke_InsteadOfReceive ==
  /\ pc = "poke"
  /\ \/ /\ Passed(last_poke_to_server) > PROTOCOl_SEND_POKE_TIME /\ pc' = "order"
        /\ PokeSent \/ Reconnect
     \/ /\ Passed(last_poke_to_server) <= PROTOCOl_SEND_POKE_TIME /\ pc' = "receive"
        /\ KeepConnection
  /\ UNCHANGED <<millis, receiverVars, lag>>

Poke ==
  /\ pc = "poke" /\ pc' = "receive"
  /\ \/ /\ Passed(last_poke_to_server) > PROTOCOl_SEND_POKE_TIME
        /\ PokeSent \/ Reconnect
     \/ /\ Passed(last_poke_to_server) <= PROTOCOl_SEND_POKE_TIME
        /\ KeepConnection
  /\ UNCHANGED <<millis, receiverVars, lag>>

-----------------------------------------------------------------------------
(* NetworkReceiver::loop                                                   *)

(* A properly signed ping, and a properly signed message of this network.  *)
handle_ping_message(s) == IsFrame(s) /\ IsServerPing(Arduino, PacketOf(s))
is_valid_message(s) == IsFrame(s) /\ IsAccepted(Arduino, PacketOf(s))

Drop == received_message' = <<>> /\ is_message_received' = FALSE

Handle(s) ==
  \/ /\ handle_ping_message(s)
     /\ last_poke_from_server' = millis /\ silent' = 0 /\ unheard' = 0
     /\ Drop
  \/ /\ ~handle_ping_message(s)
     /\ \/ /\ is_valid_message(s)
           /\ received_message' = s /\ is_message_received' = TRUE
        \/ ~is_valid_message(s) /\ Drop
     /\ UNCHANGED heardVars

Wait(s) ==
  /\ received_message' = s /\ is_message_received' = FALSE
  /\ inbox' = <<>>
  /\ UNCHANGED heardVars

(* The bytes read so far and those in the inbox: one message is taken off  *)
(* them, or all of them are the beginning of one.                          *)
Read_HeaderOnly(s) ==
  \/ Len(s) < PROTOCOl_MESSAGE_HEADER_LENGTH /\ Wait(s)
  \/ /\ Len(s) >= PROTOCOl_MESSAGE_HEADER_LENGTH
     /\ Handle(SubSeq(s, 1, PROTOCOl_MESSAGE_HEADER_LENGTH))
     /\ inbox' = SubSeq(s, PROTOCOl_MESSAGE_HEADER_LENGTH + 1, Len(s))

Read(s) ==
  \/ Len(s) < PROTOCOl_MESSAGE_HEADER_LENGTH /\ Wait(s)
  \/ /\ Len(s) >= PROTOCOl_MESSAGE_HEADER_LENGTH
     /\ \E length \in LengthRead(s) :
          LET n == PROTOCOl_MESSAGE_HEADER_LENGTH + length IN
          \/ Len(s) < n /\ Wait(s)
          \/ /\ Len(s) >= n
             /\ Handle(SubSeq(s, 1, n))
             /\ inbox' = SubSeq(s, n + 1, Len(s))

(* A connection with another number: what was read of the old one is void. *)
Kept_Always == received_message
Kept ==
  IF receiver_number = connection_number THEN received_message ELSE <<>>

StillReceived == receiver_number = connection_number /\ is_message_received

Receive ==
  /\ pc = "receive" /\ pc' = "order"
  /\ receiver_number' = connection_number
  /\ \/ /\ inbox = <<>>
        /\ received_message' = Kept
        /\ is_message_received' = StillReceived
        /\ UNCHANGED <<inbox, heardVars>>
     \/ /\ inbox # <<>>
        /\ Read((IF StillReceived THEN <<>> ELSE Kept) \o inbox)
  /\ UNCHANGED <<millis, last_poke_to_server, unpoked, linkVars, lag, owed>>

(* NetworkHandler::receive, which empties the buffer.                      *)
receive ==
  \/ is_message_received /\ Drop /\ owed' = owed - 1
  \/ ~is_message_received /\ UNCHANGED <<received_message, is_message_received, owed>>

(* The end of a round: main.ino takes the message, if there is one.        *)
Order ==
  /\ pc = "order" /\ pc' = "connect" /\ lag' = 0
  /\ receive
  /\ UNCHANGED <<millis, pokeVars, receiver_number, linkVars, inbox>>

-----------------------------------------------------------------------------
(* The network and the server                                              *)

(* What devices with this one's keys have sent, pings apart.               *)
Orders == {"data", "empty"}

(* The next byte of what the server sends, one frame after the other: its  *)
(* sender takes whole frames, in their order, from sending_buffer and      *)
(* passes them to send_message under new_message_mutex.                    *)
Arrive ==
  /\ socket = "open" /\ Len(inbox) < RxBuffer
  /\ \E b \in Byte :
       /\ Follows(last, b)
       /\ inbox' = Append(inbox, b)
       /\ last' = IF IsLast(b) THEN Boundary ELSE b
       /\ blocked' = IF IsLast(b) THEN 0 ELSE blocked
       /\ owed' = IF IsLast(b) /\ b.frame.kind \in Orders THEN owed + 1 ELSE owed
  /\ UNCHANGED <<millis, pokeVars, receiverVars, connection_number, socket, pc, lag>>

(* The server closes the connection, the network loses it without a sign,  *)
(* or it is reset.                                                         *)
ConnectionEnds ==
  /\ \/ socket = "open" /\ socket' \in {"half", "lost"}
     \/ socket \in {"open", "half", "lost"} /\ socket' = "closed"
  /\ last' = Boundary /\ blocked' = 0
  /\ UNCHANGED <<millis, pokeVars, receiverVars, connection_number, pc, lag, inbox, owed>>

(* send has begun with a message and finds no room for the rest of it.     *)
SendBlocks == socket = "open" /\ ~IsLast(last) /\ Len(inbox) = RxBuffer

(* What has not been taken off the stream: what the receiver holds of a    *)
(* message that is not whole, and the inbox.                               *)
Held ==
  IF is_message_received \/ receiver_number # connection_number THEN <<>> ELSE received_message
Left == Held \o inbox

(* A whole ping that the server has signed is there to be heard.           *)
PingWaits ==
  \E k \in DOMAIN Left : IsLast(Left[k]) /\ Left[k].frame.kind = "serverPing"

(* Time passes between any two steps.                                      *)
Tick ==
  /\ lag < MaxPass
  /\ lag' = lag + 1
  /\ millis' = (millis + 1) % Wrap
  /\ silent' = silent + 1 /\ unpoked' = unpoked + 1
  /\ unheard' = IF PingWaits THEN unheard + 1 ELSE unheard
  /\ blocked' = IF SendBlocks THEN blocked + 1 ELSE blocked
  /\ UNCHANGED <<last_poke_to_server, last_poke_from_server, receiverVars,
                 connection_number, socket, last, pc, inbox, owed>>

Loop == keep_connection \/ CheckSilence \/ Poke \/ Receive \/ Order

Next == Tick \/ Loop \/ Arrive \/ ConnectionEnds

Spec == Init /\ [][Next]_vars

-----------------------------------------------------------------------------
(* Safety                                                                  *)

(* What the receiver has not parsed yet.                                   *)
Unparsed ==
  (IF receiver_number = connection_number THEN received_message ELSE <<>>) \o inbox

(* The receiver is in step with the stream: what it has not parsed starts  *)
(* where a frame starts and goes on without a gap, across pieces, rounds   *)
(* and rejected frames, and never has bytes of an earlier connection.      *)
InStep == IsStream(Unparsed)

(* No message for this device that arrived whole is lost or doubled on its *)
(* way to main.ino, and none but those gets there, unless the connection   *)
(* is replaced first.                                                      *)
NothingSkipped ==
  owed = Cardinality({k \in DOMAIN Unparsed :
                        IsLast(Unparsed[k]) /\ Unparsed[k].frame.kind \in Orders})

(* A server that is not heard is noticed, and a server that is there hears *)
(* a ping, in time: within two rounds after the time limits, across the    *)
(* wrap of the clock, failed connections and connections lost silently.    *)
SilenceIsNoticed == silent <= PROTOCOl_RECIEVE_POKE_TIME + 2 * MaxPass
ServerIsPoked == unpoked <= PROTOCOl_SEND_POKE_TIME + 2 * MaxPass

(* While pings that the server has signed wait for this program, one is    *)
(* heard within the rounds that read all the buffers hold, whatever the    *)
(* server has sent before it: messages of any length, rejected ones, and   *)
(* any number of pings with the digest of another of its threads.          *)
PingsAreHeard == unheard <= (PingRounds + 1) * MaxPass

(* A connection that was made, or on which the server was heard, within    *)
(* the limit is not given up for silence, wherever the clock wraps.        *)
HeardIsKept ==
  [][pc = "silence" /\ silent <= PROTOCOl_RECIEVE_POKE_TIME
       => UNCHANGED connection_number]_vars

(* send_message looks at its time limit between calls of send only, and a  *)
(* send blocks with new_message_mutex held until the peer has read enough: *)
(* the Arduino reads enough for a message in SendRounds, and the first of  *)
(* them begins within one.                                                 *)
SendIsReleased == blocked <= (SendRounds + 1) * MaxPass

=============================================================================
