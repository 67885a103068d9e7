------------------------------ MODULE Protocol ------------------------------
(***************************************************************************)
(* What becomes of a message on its way: a device converts, encrypts and   *)
(* signs it (NetworkSender.cpp), the central server checks one signature   *)
(* and relays it (device.cpp), a device checks the other and decrypts it   *)
(* (NetworkReceiver.cpp).  The processors are little-endian, so a          *)
(* conversion reverses the bytes of a word.  HMAC and AES are libraries:   *)
(* a digest is known by its key and what it signs, a text by the key it is *)
(* encrypted with.  The timestamp is all ones wherever it is written, and  *)
(* a device's aes_vector too, so they are constants here.                  *)
(***************************************************************************)
EXTENDS Naturals, Sequences

(* A word in memory: its value, and 1 if its bytes are reversed.           *)
Word(v) == [value |-> v, reversed |-> 0]
Ones == Word(<<"ones">>)

(* An identifier of a network; but for 0, one that does not read the same  *)
(* either way.                                                             *)
Network(n) == Word(<<"network", n>>)

(* htonl and ntohl; zero and all ones read the same either way.            *)
htonl(w) ==
  IF w \in {Ones, Network(0)} THEN w ELSE [value |-> w.value, reversed |-> 1 - w.reversed]

(* The keys of network 0 and other keys.                                   *)
ServerKey == "server key"
NetworkKey == "network key"

(* HMAC over the message without its two signatures, as it is in memory.   *)
HMAC(key, m) ==
  Word(<<"digest", key, <<m.payload_length, m.network_id, m.text>> >>)

(* AES in counter mode, its own inverse, over the end of the header and    *)
(* the payload.                                                            *)
Under(key, keys) == IF key \in keys THEN keys \ {key} ELSE keys \cup {key}
Crypt(key, m) ==
  [m EXCEPT !.text = [type |-> m.text.type, under |-> Under(key, m.text.under)]]

-----------------------------------------------------------------------------
(* Operators named X_Y are X with a slip Y that the checks must notice.    *)

(* NetworkSender: a device is its network and its two keys.                *)
hton_handling(m) == [m EXCEPT !.network_id = htonl(@)]

encrypt_message(device, m) == Crypt(device.network_key, m)

sign_message_Unconverted(device, m) ==
  [m EXCEPT !.HMAC_for_server  = HMAC(device.server_key, m),
            !.HMAC_for_network = htonl(HMAC(device.network_key, m))]

sign_message(device, m) ==
  [m EXCEPT !.HMAC_for_server  = htonl(HMAC(device.server_key, m)),
            !.HMAC_for_network = htonl(HMAC(device.network_key, m))]

(* send: message type 0 makes the message a ping.                          *)
send(device, type, length) ==
  LET m == [HMAC_for_server |-> Word(<<"none">>), HMAC_for_network |-> Word(<<"none">>),
            payload_length |-> length, network_id |-> device.network_id,
            text |-> [type |-> type, under |-> {}]]
      signed == sign_message(device, encrypt_message(device, hton_handling(m)))
  IN  IF type = 0 THEN [signed EXCEPT !.HMAC_for_network = Ones] ELSE signed

(* device.cpp: the server's own ping, which is not encrypted.              *)
create_ping_message ==
  LET m == [HMAC_for_server |-> Word(<<"none">>), HMAC_for_network |-> Ones,
            payload_length |-> 0, network_id |-> Network(0),
            text |-> [type |-> 255, under |-> {}]]
  IN  [m EXCEPT !.HMAC_for_server = htonl(HMAC(ServerKey, m))]

(* HMAC returned a buffer that all threads share, and another thread's     *)
(* digest came into it before it was copied.                               *)
OverwrittenPing ==
  [create_ping_message EXCEPT !.HMAC_for_server = htonl(Word(<<"another digest">>))]

-----------------------------------------------------------------------------
(* device.cpp, handle_recvd_message: the two words the server converts.    *)
Converted(m) == [m EXCEPT !.network_id = htonl(@), !.HMAC_for_server = htonl(@)]

(* The server has one network, 0, and one key.                             *)
IsVerified(m) ==
  LET h == Converted(m) IN
  h.network_id = Network(0) /\ HMAC(ServerKey, h) = h.HMAC_for_server

IsPing(m) == m.payload_length = 0 /\ m.HMAC_for_network = Ones

(* What it broadcasts, converted back.                                     *)
Relayed(m) == Converted(Converted(m))

-----------------------------------------------------------------------------
(* NetworkReceiver: the tests of a device.                                 *)
IsServerPing(device, m) ==
  IsPing(m) /\ HMAC(device.server_key, m) = htonl(m.HMAC_for_server)

(* The network identifier is compared as it arrived.                       *)
IsAccepted(device, m) ==
  /\ ~IsServerPing(device, m)
  /\ device.network_id = m.network_id
  /\ HMAC(device.network_key, m) = htonl(m.HMAC_for_network)

Decrypted(device, m) == Crypt(device.network_key, m).text

-----------------------------------------------------------------------------
Arduino == [network_id |-> Network(0), server_key |-> ServerKey, network_key |-> NetworkKey]
Stranger == [Arduino EXCEPT !.network_key = "another key"]
Unknown == [Arduino EXCEPT !.server_key = "another key"]
Foreigner == [Arduino EXCEPT !.network_id = Network(1)]

(* The kinds of messages there are, by who made them; type 1 is any but a  *)
(* ping's.                                                                 *)
Packet == [
  serverPing |-> create_ping_message,
  spoiltPing |-> OverwrittenPing,
  ping       |-> send(Arduino, 0, 0),
  data       |-> send(Arduino, 1, 1),
  empty      |-> send(Arduino, 1, 0),      \* an order without a payload
  stranger   |-> send(Stranger, 1, 1),     \* the server's key only
  unknown    |-> send(Unknown, 1, 1),      \* the network's key only
  foreign    |-> send(Foreigner, 1, 1)]    \* of a network the server has not

=============================================================================
