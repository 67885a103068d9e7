--------------------------- MODULE ProtocolProofs ---------------------------
(***************************************************************************)
(* What every device and the server see of a message, for all networks,    *)
(* keys, message types and lengths; and what can be said of a stream of    *)
(* messages of any lengths, however much of it has arrived.                *)
(***************************************************************************)
EXTENDS Frames, SequenceTheorems, FiniteSetTheorems, WellFoundedInduction, TLAPS

(* A device: any network and any two keys of any set of keys.              *)
AnyDevice(Keys) ==
  [network_id : {Network(n) : n \in Nat}, server_key : Keys, network_key : Keys]

(* A digest is no other kind of word, and tells what it signs.             *)
LEMMA DigestIsDigest ==
  ASSUME NEW key, NEW m
  PROVE  /\ HMAC(key, m) # Ones
         /\ \A n : HMAC(key, m) # Network(n)
BY DEF HMAC, Ones, Network, Word

LEMMA DigestTells ==
  ASSUME NEW key, NEW m, NEW key2, NEW m2
  PROVE  HMAC(key, m) = HMAC(key2, m2) =>
           /\ key = key2 /\ m.payload_length = m2.payload_length
           /\ m.network_id = m2.network_id /\ m.text = m2.text
BY DEF HMAC, Word

LEMMA ConvertedTwice ==
  ASSUME NEW v
  PROVE  htonl(htonl(Word(v))) = Word(v)
BY DEF htonl, Ones, Network, Word

(* What a device sends, word by word.                                      *)
Text(device, type) == [type |-> type, under |-> {device.network_key}]
Digest(key, device, type, length) ==
  Word(<<"digest", key, <<length, htonl(device.network_id), Text(device, type)>> >>)

Message(hs, hn, length, id, text) ==
  [HMAC_for_server |-> hs, HMAC_for_network |-> hn, payload_length |-> length,
   network_id |-> id, text |-> text]

LEMMA Sent ==
  ASSUME NEW Keys, NEW d \in AnyDevice(Keys), NEW type \in Nat, NEW length \in Nat
  PROVE  send(d, type, length) =
           Message(htonl(Digest(d.server_key, d, type, length)),
                   IF type = 0 THEN Ones ELSE htonl(Digest(d.network_key, d, type, length)),
                   length, htonl(d.network_id), Text(d, type))
<1> DEFINE none == Word(<<"none">>)
           clear == [type |-> type, under |-> {}]
           text == Text(d, type)
           m == [HMAC_for_server |-> none, HMAC_for_network |-> none,
                 payload_length |-> length, network_id |-> d.network_id, text |-> clear]
           h == [HMAC_for_server |-> none, HMAC_for_network |-> none,
                 payload_length |-> length, network_id |-> htonl(d.network_id), text |-> clear]
           e == [HMAC_for_server |-> none, HMAC_for_network |-> none,
                 payload_length |-> length, network_id |-> htonl(d.network_id), text |-> text]
           server == htonl(Digest(d.server_key, d, type, length))
           network == htonl(Digest(d.network_key, d, type, length))
           signed == [HMAC_for_server |-> server, HMAC_for_network |-> network,
                      payload_length |-> length, network_id |-> htonl(d.network_id), text |-> text]
<1>1. hton_handling(m) = h
  BY DEF hton_handling
<1>2. encrypt_message(d, h) = e
  <2>1. Under(d.network_key, {}) = {d.network_key}
    BY DEF Under
  <2>2. Crypt(d.network_key, h) = [h EXCEPT !.text = text]
    BY <2>1 DEF Crypt, Text
  <2>3. QED
    BY <2>2 DEF encrypt_message
<1>3. /\ HMAC(d.server_key, e) = Digest(d.server_key, d, type, length)
      /\ HMAC(d.network_key, e) = Digest(d.network_key, d, type, length)
  BY DEF HMAC, Digest, Text
<1>4. sign_message(d, e) = signed
  <2>1. sign_message(d, e) =
          [e EXCEPT !.HMAC_for_server  = htonl(HMAC(d.server_key, e)),
                    !.HMAC_for_network = htonl(HMAC(d.network_key, e))]
    BY DEF sign_message
  <2>2. QED
    BY <1>3, <2>1
<1>5. send(d, type, length) =
        IF type = 0 THEN [signed EXCEPT !.HMAC_for_network = Ones] ELSE signed
  BY <1>1, <1>2, <1>4 DEF send
<1>6. QED
  BY <1>5 DEF Message

-----------------------------------------------------------------------------
(* A word of these does not become another one by conversion.              *)
LEMMA Conversions ==
  /\ htonl(Ones) = Ones /\ htonl(Network(0)) = Network(0)
  /\ \A n \in Nat \ {0} : htonl(Network(n)) # Network(n)
BY DEF htonl, Ones, Network, Word

LEMMA ConvertedDigest ==
  ASSUME NEW key, NEW device, NEW type, NEW length
  PROVE  LET digest == Digest(key, device, type, length)
         IN  htonl(digest) # Ones /\ htonl(htonl(digest)) = digest
BY DEF htonl, Ones, Network, Word, Digest

LEMMA ConvertedMessage ==
  ASSUME NEW hs, NEW hn, NEW length, NEW id, NEW text
  PROVE  Converted(Message(hs, hn, length, id, text)) =
           Message(htonl(hs), hn, length, htonl(id), text)
<1> DEFINE m == Message(hs, hn, length, id, text)
<1>1. Converted(m) = [m EXCEPT !.network_id = htonl(m.network_id),
                               !.HMAC_for_server = htonl(m.HMAC_for_server)]
  BY DEF Converted
<1>2. m.network_id = id /\ m.HMAC_for_server = hs
  BY DEF Message
<1>3. QED
  BY <1>1, <1>2 DEF Message

LEMMA Fields ==
  ASSUME NEW hs, NEW hn, NEW length, NEW id, NEW text
  PROVE  LET m == Message(hs, hn, length, id, text)
         IN  /\ m.HMAC_for_server = hs /\ m.HMAC_for_network = hn
             /\ m.payload_length = length /\ m.network_id = id /\ m.text = text
BY DEF Message

(* A message as the server tests it.                                       *)
LEMMA Tested ==
  ASSUME NEW Keys, NEW d \in AnyDevice(Keys), NEW type \in Nat, NEW length \in Nat
  PROVE  Converted(send(d, type, length)) =
           Message(Digest(d.server_key, d, type, length),
                   IF type = 0 THEN Ones ELSE htonl(Digest(d.network_key, d, type, length)),
                   length, d.network_id, Text(d, type))
<1>1. PICK n \in Nat : d.network_id = Network(n)
  BY DEF AnyDevice
<1>2. htonl(htonl(d.network_id)) = d.network_id
  BY <1>1, ConvertedTwice DEF Network
<1>3. htonl(htonl(Digest(d.server_key, d, type, length))) = Digest(d.server_key, d, type, length)
  BY ConvertedDigest
<1>4. QED
  BY <1>2, <1>3, Sent, ConvertedMessage

(* The server relays what it has received, every word of it: what it       *)
(* converts for its tests it converts back.                                *)
THEOREM RelayedIsSent ==
  ASSUME NEW Keys, NEW d \in AnyDevice(Keys), NEW type \in Nat, NEW length \in Nat
  PROVE  Relayed(send(d, type, length)) = send(d, type, length)
BY Tested, Sent, ConvertedMessage DEF Relayed

(* The server takes for good exactly what a device of network 0 has signed *)
(* with the server's key, whatever its type and length.                    *)
THEOREM VerifiedIsSigned ==
  ASSUME NEW Keys, NEW d \in AnyDevice(Keys), NEW type \in Nat, NEW length \in Nat
  PROVE  IsVerified(send(d, type, length)) <=>
           d.network_id = Network(0) /\ d.server_key = ServerKey
<1> DEFINE h == Converted(send(d, type, length))
<1>1. /\ h.network_id = d.network_id /\ h.HMAC_for_server = Digest(d.server_key, d, type, length)
      /\ h.payload_length = length /\ h.text = Text(d, type)
  BY Tested, Fields
<1>2. HMAC(ServerKey, h) = Word(<<"digest", ServerKey, <<length, d.network_id, Text(d, type)>> >>)
  BY <1>1 DEF HMAC
<1>3. ASSUME d.network_id = Network(0)
      PROVE  HMAC(ServerKey, h) = h.HMAC_for_server <=> d.server_key = ServerKey
  BY <1>1, <1>2, <1>3, Conversions DEF Digest, Word, Text
<1> HIDE DEF h
<1>4. QED
  BY <1>1, <1>3 DEF IsVerified, h

(* A ping is what is sent as one: no other message can be taken for it.    *)
LEMMA PingIsSent ==
  ASSUME NEW Keys, NEW d \in AnyDevice(Keys), NEW type \in Nat, NEW length \in Nat
  PROVE  IsPing(send(d, type, length)) <=> type = 0 /\ length = 0
BY Sent, Fields, ConvertedDigest DEF IsPing

(* A device r accepts a message of d, type 0 apart, if and only if they    *)
(* share the network's key and r's identifier is d's as it is on the wire. *)
THEOREM AcceptedIsSigned ==
  ASSUME NEW Keys, NEW d \in AnyDevice(Keys), NEW r \in AnyDevice(Keys),
         NEW type \in Nat \ {0}, NEW length \in Nat
  PROVE  IsAccepted(r, send(d, type, length)) <=>
           r.network_key = d.network_key /\ r.network_id = htonl(d.network_id)
<1> DEFINE s == send(d, type, length)
<1>1. ~IsServerPing(r, s)
  BY PingIsSent DEF IsServerPing
<1>2. /\ s.network_id = htonl(d.network_id)
      /\ s.HMAC_for_network = htonl(Digest(d.network_key, d, type, length))
      /\ s.payload_length = length /\ s.text = Text(d, type)
  BY Sent, Fields
<1>3. HMAC(r.network_key, s) = Digest(r.network_key, d, type, length)
  BY <1>2 DEF HMAC, Digest
<1>4. htonl(s.HMAC_for_network) = Digest(d.network_key, d, type, length)
  BY <1>2, ConvertedDigest
<1>5. Digest(r.network_key, d, type, length) = Digest(d.network_key, d, type, length)
        <=> r.network_key = d.network_key
  BY DEF Digest, Word
<1> HIDE DEF s
<1>6. QED
  BY <1>1, <1>2, <1>3, <1>4, <1>5 DEF IsAccepted, s

(* NetworkReceiver.cpp compares the identifier before it converts it: the  *)
(* devices of a network hear each other only if its identifier is 0 (or    *)
(* reads the same either way, which no other Network(n) does).             *)
THEOREM OnlyNetworkZero ==
  ASSUME NEW Keys, NEW d \in AnyDevice(Keys), NEW r \in AnyDevice(Keys),
         NEW type \in Nat \ {0}, NEW length \in Nat,
         r.network_id = d.network_id, r.network_key = d.network_key
  PROVE  IsAccepted(r, Relayed(send(d, type, length))) <=> d.network_id = Network(0)
<1>1. IsAccepted(r, Relayed(send(d, type, length))) <=> d.network_id = htonl(d.network_id)
  BY RelayedIsSent, AcceptedIsSigned
<1>2. PICK n \in Nat : d.network_id = Network(n)
  BY DEF AnyDevice
<1>3. Network(n) = htonl(Network(n)) <=> n = 0
  BY Conversions
<1>4. Network(n) = Network(0) <=> n = 0
  BY DEF Network, Word
<1>5. QED
  BY <1>1, <1>2, <1>3, <1>4

(* A device that has the sender's key reads what was sent.                 *)
LEMMA ReadAsSent ==
  ASSUME NEW Keys, NEW d \in AnyDevice(Keys), NEW r \in AnyDevice(Keys), NEW type \in Nat, NEW length \in Nat,
         r.network_key = d.network_key
  PROVE  Decrypted(r, send(d, type, length)) = [type |-> type, under |-> {}]
<1> DEFINE s == send(d, type, length)
<1>1. s.text = Text(d, type)
  BY Sent, Fields
<1>2. Under(r.network_key, {d.network_key}) = {}
  BY DEF Under
<1>3. "text" \in DOMAIN s
  BY Sent DEF Message
<1> HIDE DEF s
<1>4. Crypt(r.network_key, s).text = [type |-> s.text.type, under |-> Under(r.network_key, s.text.under)]
  BY <1>3 DEF Crypt
<1>5. QED
  BY <1>1, <1>2, <1>4 DEF Decrypted, Text, s
-----------------------------------------------------------------------------
(* The kinds of messages                                                   *)

KnownKeys == {ServerKey, NetworkKey, "another key"}

LEMMA KnownDevices ==
  /\ Arduino \in AnyDevice(KnownKeys) /\ Stranger \in AnyDevice(KnownKeys)
  /\ Unknown \in AnyDevice(KnownKeys) /\ Foreigner \in AnyDevice(KnownKeys)
  /\ Arduino.network_id = Network(0) /\ Arduino.server_key = ServerKey
  /\ Arduino.network_key = NetworkKey
  /\ Stranger.network_id = Network(0) /\ Stranger.server_key = ServerKey
  /\ Stranger.network_key # NetworkKey
  /\ Unknown.network_id = Network(0) /\ Unknown.server_key # ServerKey
  /\ Unknown.network_key = NetworkKey
  /\ Foreigner.network_id = Network(1) /\ Foreigner.server_key = ServerKey
  /\ Foreigner.network_key = NetworkKey
<1>1. Arduino = [network_id |-> Network(0), server_key |-> ServerKey, network_key |-> NetworkKey]
  BY DEF Arduino
<1>2. Stranger = [network_id |-> Network(0), server_key |-> ServerKey, network_key |-> "another key"]
  <2>1. \A x : [Arduino EXCEPT !.network_key = x] =
                [network_id |-> Network(0), server_key |-> ServerKey, network_key |-> x]
    BY <1>1
  <2> QED
    BY <2>1, Zenon DEF Stranger
<1>3. Unknown = [network_id |-> Network(0), server_key |-> "another key", network_key |-> NetworkKey]
  <2>1. \A x : [Arduino EXCEPT !.server_key = x] =
                [network_id |-> Network(0), server_key |-> x, network_key |-> NetworkKey]
    BY <1>1
  <2> QED
    BY <2>1, Zenon DEF Unknown
<1>4. Foreigner = [network_id |-> Network(1), server_key |-> ServerKey, network_key |-> NetworkKey]
  BY <1>1 DEF Foreigner
<1>5. Network(0) \in {Network(n) : n \in Nat} /\ Network(1) \in {Network(n) : n \in Nat}
  OBVIOUS
<1>6. ServerKey \in KnownKeys /\ NetworkKey \in KnownKeys /\ "another key" \in KnownKeys
  BY DEF KnownKeys
<1>7. ServerKey # "another key" /\ NetworkKey # "another key"
  BY DEF ServerKey, NetworkKey
<1> QED
  BY <1>1, <1>2, <1>3, <1>4, <1>5, <1>6, <1>7 DEF AnyDevice

LEMMA KnownPackets ==
  /\ DOMAIN Packet = {"serverPing", "spoiltPing", "ping", "data", "empty",
                      "stranger", "unknown", "foreign"}
  /\ Packet["serverPing"] = create_ping_message
  /\ Packet["spoiltPing"] = OverwrittenPing
  /\ Packet["ping"] = send(Arduino, 0, 0)
  /\ Packet["data"] = send(Arduino, 1, 1)
  /\ Packet["empty"] = send(Arduino, 1, 0)
  /\ Packet["stranger"] = send(Stranger, 1, 1)
  /\ Packet["unknown"] = send(Unknown, 1, 1)
  /\ Packet["foreign"] = send(Foreigner, 1, 1)
BY DEF Packet

(* The server's pings, word by word: one digest is that of the ping, the   *)
(* other is another thread's.                                              *)
LEMMA PingsOfServer ==
  LET text == [type |-> 255, under |-> {}]
      digest == Word(<<"digest", ServerKey, <<0, Network(0), text>> >>)
  IN  /\ create_ping_message = Message(htonl(digest), Ones, 0, Network(0), text)
      /\ OverwrittenPing =
           Message(htonl(Word(<<"another digest">>)), Ones, 0, Network(0), text)
<1> DEFINE text == [type |-> 255, under |-> {}]
           digest == Word(<<"digest", ServerKey, <<0, Network(0), text>> >>)
           m == [HMAC_for_server |-> Word(<<"none">>), HMAC_for_network |-> Ones,
                 payload_length |-> 0, network_id |-> Network(0), text |-> text]
<1>1. create_ping_message = [m EXCEPT !.HMAC_for_server = htonl(HMAC(ServerKey, m))]
  BY DEF create_ping_message
<1>2. HMAC(ServerKey, m) = digest
  BY DEF HMAC
<1> HIDE DEF digest, text
<1>3. create_ping_message = Message(htonl(digest), Ones, 0, Network(0), text)
  BY <1>1, <1>2 DEF Message
<1>4. OverwrittenPing = Message(htonl(Word(<<"another digest">>)), Ones, 0, Network(0), text)
  <2>1. \A a, b, x : [Message(a, Ones, 0, Network(0), b) EXCEPT !.HMAC_for_server = x] =
                      Message(x, Ones, 0, Network(0), b)
    BY DEF Message
  <2> QED
    BY <1>3, <2>1 DEF OverwrittenPing
<1> QED
  BY <1>3, <1>4 DEF digest, text

(* The server takes for good its own ping and what is signed for it.       *)
THEOREM VerifiedKinds ==
  ASSUME NEW kind \in DOMAIN Packet
  PROVE  IsVerified(Packet[kind]) <=> kind \notin {"spoiltPing", "unknown", "foreign"}
<1>1. Network(1) # Network(0)
  BY DEF Network, Word
<1>2. /\ IsVerified(send(Arduino, 0, 0)) /\ IsVerified(send(Arduino, 1, 1))
      /\ IsVerified(send(Arduino, 1, 0)) /\ IsVerified(send(Stranger, 1, 1))
      /\ ~IsVerified(send(Unknown, 1, 1)) /\ ~IsVerified(send(Foreigner, 1, 1))
  BY <1>1, KnownDevices, VerifiedIsSigned
<1> DEFINE text == [type |-> 255, under |-> {}]
           digest == Word(<<"digest", ServerKey, <<0, Network(0), text>> >>)
<1>3. ASSUME NEW d, d \in {digest, Word(<<"another digest">>)}
      PROVE  IsVerified(Message(htonl(d), Ones, 0, Network(0), text)) <=> d = digest
  <2> DEFINE h == Converted(Message(htonl(d), Ones, 0, Network(0), text))
  <2>1. htonl(htonl(d)) = d /\ htonl(Network(0)) = Network(0)
    BY <1>3, ConvertedTwice, Conversions
  <2>2. h = Message(d, Ones, 0, Network(0), text)
    BY <2>1, ConvertedMessage
  <2>3. /\ h.network_id = Network(0) /\ h.HMAC_for_server = d
        /\ h.payload_length = 0 /\ h.text = text
    BY <2>2, Fields
  <2>4. HMAC(ServerKey, h) = digest
    BY <2>3 DEF HMAC
  <2> HIDE DEF h, digest
  <2> QED
    BY <2>3, <2>4 DEF IsVerified, h
<1>4. Word(<<"another digest">>) # digest
  BY DEF Word
<1>5. IsVerified(create_ping_message) /\ ~IsVerified(OverwrittenPing)
  BY <1>3, <1>4, PingsOfServer
<1> QED
  BY <1>2, <1>5, KnownPackets

LEMMA ServerPingFields ==
  ASSUME NEW m \in {create_ping_message, OverwrittenPing}
  PROVE  m.HMAC_for_network = Ones /\ m.payload_length = 0
<1>1. PICK hs, text : m = Message(hs, Ones, 0, Network(0), text)
  BY PingsOfServer, Zenon
<1> QED
  BY <1>1, Fields

LEMMA PingNotAccepted ==
  ASSUME NEW m, m.HMAC_for_network = Ones
  PROVE  ~IsAccepted(Arduino, m)
BY DigestIsDigest, Conversions DEF IsAccepted

(* A ping is known as one, and an Arduino accepts what a sender of its     *)
(* network and its key has signed, but for pings.                          *)
THEOREM AcceptedKinds ==
  ASSUME NEW kind \in DOMAIN Packet
  PROVE  /\ IsAccepted(Arduino, Packet[kind]) <=> kind \in {"data", "empty", "unknown"}
         /\ IsPing(Packet[kind]) <=> kind \in {"serverPing", "spoiltPing", "ping"}
<1>1. htonl(Network(0)) = Network(0) /\ htonl(Network(1)) # Network(0)
  BY DEF htonl, Network, Word, Ones
<1>2. /\ IsAccepted(Arduino, send(Arduino, 1, 1)) /\ IsAccepted(Arduino, send(Arduino, 1, 0))
      /\ IsAccepted(Arduino, send(Unknown, 1, 1))
      /\ ~IsAccepted(Arduino, send(Stranger, 1, 1))
      /\ ~IsAccepted(Arduino, send(Foreigner, 1, 1))
  BY <1>1, KnownDevices, AcceptedIsSigned
<1>3. /\ IsPing(send(Arduino, 0, 0))
      /\ ~IsPing(send(Arduino, 1, 1)) /\ ~IsPing(send(Arduino, 1, 0))
      /\ ~IsPing(send(Unknown, 1, 1)) /\ ~IsPing(send(Stranger, 1, 1))
      /\ ~IsPing(send(Foreigner, 1, 1))
  BY KnownDevices, PingIsSent
<1>4. ~IsAccepted(Arduino, send(Arduino, 0, 0))
  <2>1. IsPing(send(Arduino, 0, 0))
    BY KnownDevices, PingIsSent
  <2> QED
    BY <2>1, PingNotAccepted DEF IsPing
<1>5. \A m \in {create_ping_message, OverwrittenPing} :
        IsPing(m) /\ ~IsAccepted(Arduino, m)
  BY ServerPingFields, PingNotAccepted DEF IsPing
<1> QED
  BY <1>2, <1>3, <1>4, <1>5, KnownPackets

(* An Arduino hears the server's own ping, unless its digest is another's. *)
LEMMA PingIsHeard ==
  IsServerPing(Arduino, Packet["serverPing"])
<1> DEFINE text == [type |-> 255, under |-> {}]
           digest == Word(<<"digest", ServerKey, <<0, Network(0), text>> >>)
           m == create_ping_message
<1>1. m = Message(htonl(digest), Ones, 0, Network(0), text) /\ htonl(htonl(digest)) = digest
  BY PingsOfServer, ConvertedTwice
<1>2. /\ m.HMAC_for_server = htonl(digest) /\ m.HMAC_for_network = Ones
      /\ m.payload_length = 0 /\ m.network_id = Network(0) /\ m.text = text
  BY <1>1, Fields
<1>3. HMAC(Arduino.server_key, m) = digest
  BY <1>2, KnownDevices DEF HMAC
<1> HIDE DEF m, digest
<1>4. IsServerPing(Arduino, m)
  BY <1>1, <1>2, <1>3 DEF IsServerPing, IsPing
<1> QED
  BY <1>4, KnownPackets DEF m

(* What the server relays of a device's message is the message, and an     *)
(* Arduino with the sender's key reads what was sent.                      *)
LEMMA RelayedKinds ==
  ASSUME NEW kind \in {"data", "empty", "stranger"}
  PROVE  /\ Relayed(Packet[kind]) = Packet[kind]
         /\ kind # "stranger" =>
              Decrypted(Arduino, Packet[kind]) = [type |-> 1, under |-> {}]
<1>1. /\ Relayed(send(Arduino, 1, 1)) = send(Arduino, 1, 1)
      /\ Relayed(send(Arduino, 1, 0)) = send(Arduino, 1, 0)
      /\ Relayed(send(Stranger, 1, 1)) = send(Stranger, 1, 1)
  BY KnownDevices, RelayedIsSent
<1>2. /\ Decrypted(Arduino, send(Arduino, 1, 1)) = [type |-> 1, under |-> {}]
      /\ Decrypted(Arduino, send(Arduino, 1, 0)) = [type |-> 1, under |-> {}]
  BY KnownDevices, ReadAsSent
<1> QED
  BY <1>1, <1>2, KnownPackets

-----------------------------------------------------------------------------
(* Streams                                                                 *)

(* A set of numbers that is not empty has a least one.                     *)
LEMMA LeastNatural ==
  ASSUME NEW T \in SUBSET Nat, T # {}
  PROVE  \E m \in T : \A k \in T : m <= k
<1> DEFINE R == OpToRel(<, Nat)
<1>1. IsWellFoundedOn(R, Nat)
  BY NatLessThanWellFounded
<1>2. \A x, y \in Nat : <<x, y>> \in R <=> x < y
  BY DEF OpToRel
<1> HIDE DEF R
<1>3. PICK m \in T : \A k \in T : <<k, m>> \notin R
  BY <1>1, WFMin
<1>4. \A k \in T : ~(k < m)
  <2> TAKE k \in T
  <2>1. k \in Nat /\ m \in Nat
    OBVIOUS
  <2> QED
    BY <1>2, <1>3, <2>1
<1> QED
  BY <1>4

LEMMA FrameFields ==
  ASSUME NEW f \in Frame
  PROVE  /\ f.kind \in Kind /\ f.length \in Nat
         /\ Size(f) \in Nat /\ Size(f) >= PROTOCOl_MESSAGE_HEADER_LENGTH
         /\ PROTOCOl_MESSAGE_HEADER_LENGTH \in Nat \ {0}
         /\ Size(f) = PROTOCOl_MESSAGE_HEADER_LENGTH + f.length
<1>1. f.kind \in Kind /\ f.length \in PayloadLength \cup {0}
  BY DEF Frame
<1>2. PROTOCOl_MESSAGE_HEADER_LENGTH \in Nat \ {0} /\ PayloadLength \subseteq Nat \ {0}
  BY FramesAssumption DEF FramesAssumption
<1>3. f.length \in Nat
  <2>1. \A x \in PayloadLength : x \in Nat
    BY <1>2
  <2> QED
    BY <1>1, <2>1
<1> QED
  BY <1>1, <1>2, <1>3 DEF Size

LEMMA ByteFields ==
  ASSUME NEW b \in Byte
  PROVE  /\ b.frame \in Frame /\ b.at \in 1 .. Size(b.frame)
         /\ b = [frame |-> b.frame, at |-> b.at]
BY DEF Byte

LEMMA BytesOfFrame ==
  ASSUME NEW f \in Frame, NEW k \in 1 .. Size(f)
  PROVE  [frame |-> f, at |-> k] \in Byte
<1>1. [frame |-> f, at |-> k] \in [frame : {f}, at : 1 .. Size(f)]
  OBVIOUS
<1> QED
  BY <1>1 DEF Byte

(* The frame at the front of a stream, as far as it has arrived.           *)
LEMMA FirstFrame ==
  ASSUME NEW s \in Seq(Byte), IsStream(s),
         NEW k \in 1 .. Len(s), k <= Size(s[1].frame)
  PROVE  s[k].frame = s[1].frame /\ s[k].at = k
<1> DEFINE n == Size(s[1].frame)
           Good(i) == s[i].frame = s[1].frame /\ s[i].at = i
           Bad == {i \in 1 .. Len(s) : i <= n /\ ~Good(i)}
<1>1. Bad = {}
  <2> SUFFICES ASSUME Bad # {} PROVE FALSE
    OBVIOUS
  <2>1. PICK m \in Bad : \A i \in Bad : m <= i
    <3>1. Bad \in SUBSET Nat
      OBVIOUS
    <3> HIDE DEF Bad
    <3> QED
      BY <3>1, LeastNatural
  <2>2. Len(s) \in Nat /\ s # <<>> /\ s[1] \in Byte /\ n \in Nat
    BY FrameFields, ByteFields
  <2>3. Good(1)
    BY <2>2 DEF IsStream
  <2>4. m \in 2 .. Len(s) /\ m - 1 \in 1 .. Len(s) - 1 /\ m - 1 < n
    BY <2>1, <2>2, <2>3
  <2>5. Good(m - 1)
    BY <2>1, <2>2, <2>4
  <2>6. ~IsLast(s[m - 1])
    BY <2>2, <2>4, <2>5 DEF IsLast
  <2>7. Follows(s[m - 1], s[(m - 1) + 1])
    BY <2>4 DEF IsStream
  <2>8. Follows(s[m - 1], s[m])
    BY <2>4, <2>7
  <2>9. Good(m)
    BY <2>4, <2>5, <2>6, <2>8 DEF Follows
  <2> QED
    BY <2>1, <2>9
<1> QED
  BY <1>1

(* The header tells how long the frame is.                                 *)
LEMMA HeaderRead ==
  ASSUME NEW s \in Seq(Byte), IsStream(s), PROTOCOl_MESSAGE_HEADER_LENGTH <= Len(s)
  PROVE  s[1] \in Byte /\ LengthRead(s) = {s[1].frame.length}
<1>1. PROTOCOl_MESSAGE_HEADER_LENGTH \in Nat \ {0}
  BY FramesAssumption DEF FramesAssumption
<1>2. s[1] \in Byte
  BY <1>1
<1>3. \A k \in 1 .. PROTOCOl_MESSAGE_HEADER_LENGTH :
        s[k].at = k /\ s[k].frame = s[1].frame
  <2> TAKE k \in 1 .. PROTOCOl_MESSAGE_HEADER_LENGTH
  <2>1. /\ Size(s[1].frame) \in Nat
        /\ Size(s[1].frame) >= PROTOCOl_MESSAGE_HEADER_LENGTH
    BY <1>2, FrameFields, ByteFields
  <2>2. k \in 1 .. Len(s) /\ k <= Size(s[1].frame)
    BY <1>1, <2>1
  <2> QED
    BY <2>2, FirstFrame
<1> QED
  BY <1>2, <1>3 DEF LengthRead

(* A beginning of a stream is one, and what follows it fits its last byte. *)
LEMMA StreamPrefix ==
  ASSUME NEW s \in Seq(Byte), NEW t \in Seq(Byte)
  PROVE  /\ IsStream(s \o t) => IsStream(s)
         /\ s # <<>> => (s \o t)[1] = s[1]
         /\ s \o t = <<>> <=> s = <<>> /\ t = <<>>
<1>1. /\ s \o t \in Seq(Byte) /\ Len(s \o t) = Len(s) + Len(t)
      /\ \A i \in 1 .. Len(s) : (s \o t)[i] = s[i]
  BY ConcatProperties
<1>2. ASSUME s # <<>> PROVE (s \o t)[1] = s[1] /\ s \o t # <<>>
  BY <1>1, <1>2
<1>3. ASSUME IsStream(s \o t) PROVE IsStream(s)
  <2>1. s # <<>> => s[1].at = 1
    BY <1>2, <1>3 DEF IsStream
  <2>2. ASSUME NEW k \in 1 .. Len(s) - 1 PROVE Follows(s[k], s[k + 1])
    <3>1. k \in 1 .. Len(s \o t) - 1 /\ (s \o t)[k] = s[k] /\ (s \o t)[k + 1] = s[k + 1]
      BY <1>1
    <3>2. Follows((s \o t)[k], (s \o t)[k + 1])
      BY <1>3, <3>1 DEF IsStream
    <3> QED
      BY <3>1, <3>2
  <2> QED
    BY <2>1, <2>2 DEF IsStream
<1> QED
  BY <1>1, <1>2, <1>3, ConcatEqualIffEmpty

(* A stream goes on with a byte that follows its last one, or, if it is    *)
(* empty, with the first of a frame.                                       *)
LEMMA StreamGrows ==
  ASSUME NEW s \in Seq(Byte), IsStream(s), NEW b \in Byte,
         IF s = <<>> THEN b.at = 1 ELSE Follows(s[Len(s)], b)
  PROVE  IsStream(Append(s, b))
<1> DEFINE t == Append(s, b)
<1>1. /\ t \in Seq(Byte) /\ Len(t) = Len(s) + 1 /\ Len(s) \in Nat
      /\ \A i \in 1 .. Len(s) : t[i] = s[i]
      /\ t[Len(s) + 1] = b
  BY AppendProperties
<1> HIDE DEF t
<1>2. t[1].at = 1
  BY <1>1 DEF IsStream
<1>3. ASSUME NEW k \in 1 .. Len(t) - 1 PROVE Follows(t[k], t[k + 1])
  <2>1. CASE k = Len(s)
    BY <1>1, <2>1
  <2>2. CASE k < Len(s)
    <3>1. t[k] = s[k] /\ t[k + 1] = s[k + 1] /\ k \in 1 .. Len(s) - 1
      BY <1>1, <2>2
    <3> QED
      BY <3>1 DEF IsStream
  <2> QED
    BY <1>1, <2>1, <2>2
<1> QED
  BY <1>2, <1>3 DEF IsStream, t

LEMMA BackGrows ==
  ASSUME NEW s \in Seq(Byte), NEW t \in Seq(Byte), NEW b \in Byte
  PROVE  s \o Append(t, b) = Append(s \o t, b)
<1>1. <<b>> \in Seq(Byte) /\ s \o t \in Seq(Byte)
  BY ConcatProperties
<1>2. Append(t, b) = t \o <<b>> /\ Append(s \o t, b) = (s \o t) \o <<b>>
  BY <1>1, AppendIsConcat
<1>3. (s \o t) \o <<b>> = s \o (t \o <<b>>)
  BY <1>1, ConcatAssociative
<1> QED
  BY <1>2, <1>3

LEMMA FrontAndBack ==
  ASSUME NEW s \in Seq(Byte), NEW t \in Seq(Byte)
  PROVE  /\ SubSeq(s \o t, 1, Len(s)) = s
         /\ SubSeq(s \o t, Len(s) + 1, Len(s \o t)) = t
<1> DEFINE u == s \o t
           front == SubSeq(u, 1, Len(s))
           back == SubSeq(u, Len(s) + 1, Len(u))
<1>1. /\ u \in Seq(Byte) /\ Len(s) \in Nat /\ Len(t) \in Nat
      /\ Len(u) = Len(s) + Len(t)
      /\ \A k \in 1 .. Len(s) + Len(t) : u[k] = IF k <= Len(s) THEN s[k] ELSE t[k - Len(s)]
  BY ConcatProperties, LenProperties
<1>2. \A k \in 1 .. Len(u) : u[k] \in Byte
  BY <1>1, ElementOfSeq
<1> HIDE DEF u
<1>3. /\ front \in Seq(Byte) /\ Len(front) = Len(s)
      /\ \A k \in 1 .. Len(s) : front[k] = u[k]
  <2>1. \A k \in 1 .. Len(s) : u[k] \in Byte
    BY <1>1, <1>2
  <2> QED
    BY <1>1, <2>1, SubSeqProperties
<1>4. /\ back \in Seq(Byte) /\ Len(back) = Len(t)
      /\ \A k \in 1 .. Len(t) : back[k] = u[k + Len(s)]
  <2>1. /\ \A k \in Len(s) + 1 .. Len(u) : u[k] \in Byte
        /\ Len(s) + 1 \in Int /\ Len(u) \in Int
    BY <1>1, <1>2
  <2>2. /\ back \in Seq(Byte)
        /\ Len(back) = IF Len(s) + 1 <= Len(u) THEN Len(u) - (Len(s) + 1) + 1 ELSE 0
        /\ \A k \in 1 .. Len(u) - (Len(s) + 1) + 1 : back[k] = u[(Len(s) + 1) + k - 1]
    BY <2>1, SubSeqProperties
  <2> HIDE DEF back
  <2>3. Len(back) = Len(t)
    BY <1>1, <2>2
  <2>4. ASSUME NEW k \in 1 .. Len(t) PROVE back[k] = u[k + Len(s)]
    <3>1. k \in 1 .. Len(u) - (Len(s) + 1) + 1 /\ (Len(s) + 1) + k - 1 = k + Len(s)
      BY <1>1
    <3> QED
      BY <2>2, <3>1
  <2> QED
    BY <2>2, <2>3, <2>4
<1>5. \A k \in 1 .. Len(s) : front[k] = s[k]
  BY <1>1, <1>3
<1>6. \A k \in 1 .. Len(t) : back[k] = t[k]
  <2> SUFFICES ASSUME NEW k \in 1 .. Len(t) PROVE u[k + Len(s)] = t[k]
    BY <1>4
  <2>1. k + Len(s) \in 1 .. Len(s) + Len(t) /\ ~(k + Len(s) <= Len(s)) /\ (k + Len(s)) - Len(s) = k
    BY <1>1
  <2> QED
    BY <1>1, <2>1
<1>7. front = s
  <2> HIDE DEF front
  <2> QED
    BY <1>3, <1>5, SeqEqual
<1>8. back = t
  <2> HIDE DEF back
  <2> QED
    BY <1>4, <1>6, SeqEqual
<1> QED
  BY <1>7, <1>8 DEF u

(* The first n bytes of a stream are a frame and the rest is a stream.     *)
IsCutAt(s, n) ==
  LET first == SubSeq(s, 1, n)
      rest == SubSeq(s, n + 1, Len(s))
  IN  /\ n \in Nat \ {0} /\ s[1] \in Byte
      /\ first \in Seq(Byte) /\ Len(first) = n
      /\ IsFrame(first) /\ first[1] = s[1]
      /\ rest \in Seq(Byte) /\ Len(rest) = Len(s) - n /\ IsStream(rest)
      /\ \A k \in 1 .. Len(s) - n : rest[k] = s[k + n]
      /\ \A k \in 1 .. n : IsLast(s[k]) <=> k = n

(* The first frame of a stream is a message, and a stream is left when it  *)
(* is cut off.                                                             *)
LEMMA FrameIsCut ==
  ASSUME NEW s \in Seq(Byte), IsStream(s), s # <<>>,
         NEW n, n = Size(s[1].frame), n <= Len(s)
  PROVE  IsCutAt(s, n)
<1> DEFINE first == SubSeq(s, 1, n)
           rest == SubSeq(s, n + 1, Len(s))
<1>1. /\ Len(s) \in Nat /\ s[1] \in Byte /\ n \in Nat \ {0} /\ n <= Len(s)
      /\ \A k \in 1 .. Len(s) : s[k] \in Byte
  BY FrameFields, ByteFields
<1>2. \A k \in 1 .. n : s[k].frame = s[1].frame /\ s[k].at = k
  BY <1>1, FirstFrame
<1>3. \A k \in 1 .. n : IsLast(s[k]) <=> k = n
  BY <1>1, <1>2 DEF IsLast
<1>4. /\ first \in Seq(Byte) /\ Len(first) = n
      /\ \A k \in 1 .. n : first[k] = s[k]
  BY <1>1, SubSeqProperties
<1>5. /\ rest \in Seq(Byte) /\ Len(rest) = Len(s) - n
      /\ \A k \in 1 .. Len(s) - n : rest[k] = s[k + n]
  <2>1. \A k \in n + 1 .. Len(s) : s[k] \in Byte
    BY <1>1
  <2>2. /\ rest \in Seq(Byte) /\ Len(rest) = IF n + 1 <= Len(s) THEN Len(s) - (n + 1) + 1 ELSE 0
        /\ \A k \in 1 .. Len(s) - (n + 1) + 1 : rest[k] = s[(n + 1) + k - 1]
    BY <1>1, <2>1, SubSeqProperties
  <2>3. /\ (IF n + 1 <= Len(s) THEN Len(s) - (n + 1) + 1 ELSE 0) = Len(s) - n
        /\ Len(s) - (n + 1) + 1 = Len(s) - n
    BY <1>1
  <2>4. \A k \in 1 .. Len(s) - n : (n + 1) + k - 1 = k + n
    BY <1>1
  <2> HIDE DEF rest
  <2>5. Len(rest) = Len(s) - n
    BY <2>2, <2>3
  <2>6. \A k \in 1 .. Len(s) - n : rest[k] = s[k + n]
    BY <2>2, <2>3, <2>4
  <2> QED
    BY <2>2, <2>5, <2>6
<1> HIDE DEF first, rest
<1>6. IsFrame(first)
  <2>1. first # <<>> /\ first[1] = s[1]
    BY <1>1, <1>4
  <2>2. ASSUME NEW k \in 1 .. n - 1 PROVE Follows(first[k], first[k + 1])
    <3>1. k \in 1 .. Len(s) - 1 /\ first[k] = s[k] /\ first[k + 1] = s[k + 1]
      BY <1>1, <1>4
    <3> QED
      BY <3>1 DEF IsStream
  <2>3. Len(first) = Size(first[1].frame)
    BY <1>4, <2>1
  <2> QED
    BY <1>4, <2>1, <2>2, <2>3 DEF IsFrame, IsStream
<1>7. IsStream(rest)
  <2>1. ASSUME rest # <<>> PROVE rest[1].at = 1
    <3>1. 1 \in 1 .. Len(s) - n /\ n \in 1 .. Len(s) - 1
      BY <1>1, <1>5, <2>1
    <3>2. rest[1] = s[n + 1]
      BY <1>1, <1>5, <3>1
    <3>3. Follows(s[n], s[n + 1]) /\ IsLast(s[n])
      BY <1>1, <1>3, <3>1 DEF IsStream
    <3> QED
      BY <3>2, <3>3 DEF Follows
  <2>2. ASSUME NEW k \in 1 .. Len(rest) - 1 PROVE Follows(rest[k], rest[k + 1])
    <3> DEFINE m == Len(rest)
    <3>0. m = Len(s) - n /\ k \in 1 .. m - 1
      BY <1>5
    <3> HIDE DEF m
    <3>2. n \in Nat \ {0} /\ Len(s) \in Nat /\ m \in Int
      BY <1>1, <3>0
    <3>4. k \in Int /\ 1 <= k /\ k <= Len(s) - n - 1
      BY <3>0, <3>2
    <3>5. k \in 1 .. Len(s) - n /\ k + 1 \in 1 .. Len(s) - n
      BY <3>2, <3>4
    <3>6. k + n \in 1 .. Len(s) - 1 /\ (k + 1) + n = (k + n) + 1
      BY <3>2, <3>4
    <3>1. /\ k \in 1 .. Len(s) - n /\ k + 1 \in 1 .. Len(s) - n
          /\ k + n \in 1 .. Len(s) - 1 /\ (k + 1) + n = (k + n) + 1
      BY <3>5, <3>6
    <3>3. rest[k] = s[k + n] /\ rest[k + 1] = s[(k + n) + 1]
      BY <1>5, <3>1
    <3> QED
      BY <3>1, <3>3 DEF IsStream
  <2> QED
    BY <2>1, <2>2 DEF IsStream
<1>8. first[1] = s[1]
  BY <1>1, <1>4
<1> QED
  BY <1>1, <1>3, <1>4, <1>5, <1>6, <1>7, <1>8 DEF first, rest, IsCutAt

(* The byte that came last is still the last, or it ended the frame.       *)
LEMMA CutKeepsLast ==
  ASSUME NEW s \in Seq(Byte), NEW n, IsCutAt(s, n), n <= Len(s),
         NEW rest, rest = SubSeq(s, n + 1, Len(s))
  PROVE  IF n < Len(s) THEN rest # <<>> /\ rest[Len(rest)] = s[Len(s)]
                       ELSE rest = <<>> /\ IsLast(s[Len(s)])
<1>1. /\ n \in Nat \ {0} /\ Len(s) \in Nat
      /\ rest \in Seq(Byte) /\ Len(rest) = Len(s) - n
      /\ \A k \in 1 .. Len(s) - n : rest[k] = s[k + n]
      /\ \A k \in 1 .. n : IsLast(s[k]) <=> k = n
  BY LenProperties DEF IsCutAt
<1>2. ASSUME n < Len(s) PROVE rest # <<>> /\ rest[Len(rest)] = s[Len(s)]
  <2>1. /\ Len(s) - n \in 1 .. Len(s) - n /\ (Len(s) - n) + n = Len(s)
        /\ Len(rest) # 0
    BY <1>1, <1>2
  <2>2. rest[Len(s) - n] = s[Len(s)]
    BY <1>1, <2>1
  <2> QED
    BY <1>1, <2>1, <2>2, EmptySeq
<1>3. ASSUME n = Len(s) PROVE rest = <<>> /\ IsLast(s[Len(s)])
  <2>1. n \in 1 .. n /\ Len(rest) = 0
    BY <1>1, <1>3
  <2>2. IsLast(s[n])
    BY <1>1, <2>1
  <2> QED
    BY <1>1, <1>3, <2>1, <2>2, EmptySeq
<1>4. n < Len(s) \/ n = Len(s)
  BY <1>1
<1> QED
  BY <1>2, <1>3, <1>4

(* The places at which a frame of one of the kinds K ends.                 *)
Ends(s, K) == {k \in DOMAIN s : IsLast(s[k]) /\ s[k].frame.kind \in K}

LEMMA EndsAreFinite ==
  ASSUME NEW s \in Seq(Byte), NEW K
  PROVE  /\ Ends(s, K) = {k \in 1 .. Len(s) : IsLast(s[k]) /\ s[k].frame.kind \in K}
         /\ IsFiniteSet(Ends(s, K)) /\ Cardinality(Ends(s, K)) \in Nat
         /\ s = <<>> => Cardinality(Ends(s, K)) = 0
<1>1. DOMAIN s = 1 .. Len(s) /\ Len(s) \in Nat
  BY LenProperties
<1>2. IsFiniteSet(1 .. Len(s))
  BY <1>1, FS_Interval
<1>3. Ends(s, K) \in SUBSET (1 .. Len(s))
  BY <1>1 DEF Ends
<1>4. IsFiniteSet(Ends(s, K)) /\ Cardinality(Ends(s, K)) \in Nat
  BY <1>2, <1>3, FS_Subset, FS_CardinalityType
<1>5. s = <<>> => Ends(s, K) = {}
  BY <1>1, <1>3, EmptySeq
<1> QED
  BY <1>1, <1>4, <1>5, FS_EmptySet DEF Ends

(* A byte that is no last byte of these kinds adds nothing.                *)
LEMMA EndsGrow ==
  ASSUME NEW s \in Seq(Byte), NEW b \in Byte, NEW K
  PROVE  Cardinality(Ends(Append(s, b), K)) =
           Cardinality(Ends(s, K)) + IF IsLast(b) /\ b.frame.kind \in K THEN 1 ELSE 0
<1> DEFINE t == Append(s, b)
           m == Len(s) + 1
<1>1. /\ t \in Seq(Byte) /\ Len(t) = m /\ Len(s) \in Nat
      /\ \A i \in 1 .. Len(s) : t[i] = s[i]
      /\ t[m] = b
  BY AppendProperties
<1>2. 1 .. m = (1 .. Len(s)) \cup {m} /\ m \notin 1 .. Len(s)
  BY <1>1
<1> HIDE DEF t, m
<1>3. /\ Ends(s, K) = {k \in 1 .. Len(s) : IsLast(s[k]) /\ s[k].frame.kind \in K}
      /\ Ends(t, K) = {k \in 1 .. m : IsLast(t[k]) /\ t[k].frame.kind \in K}
      /\ IsFiniteSet(Ends(s, K)) /\ Cardinality(Ends(s, K)) \in Nat
  BY <1>1, EndsAreFinite
<1>4. CASE IsLast(b) /\ b.frame.kind \in K
  <2>1. Ends(t, K) = Ends(s, K) \cup {m} /\ m \notin Ends(s, K)
    BY <1>1, <1>2, <1>3, <1>4
  <2> QED
    BY <1>3, <1>4, <2>1, FS_AddElement DEF t
<1>5. CASE ~(IsLast(b) /\ b.frame.kind \in K)
  <2>1. Ends(t, K) = Ends(s, K)
    BY <1>1, <1>2, <1>3, <1>5
  <2>2. Cardinality(Ends(s, K)) + 0 = Cardinality(Ends(s, K))
    BY <1>3
  <2> QED
    BY <1>5, <2>1, <2>2 DEF t
<1> QED
  BY <1>4, <1>5

(* A frame that is cut off takes its own end away and no other.            *)
LEMMA EndsAreCut ==
  ASSUME NEW s \in Seq(Byte), IsStream(s), s # <<>>,
         NEW n, n = Size(s[1].frame), n <= Len(s), NEW K
  PROVE  Cardinality(Ends(s, K)) =
           Cardinality(Ends(SubSeq(s, n + 1, Len(s)), K))
             + IF s[1].frame.kind \in K THEN 1 ELSE 0
<1> DEFINE t == SubSeq(s, n + 1, Len(s))
           Later == {k + n : k \in Ends(t, K)}
           f == [k \in Ends(t, K) |-> k + n]
<1>1. /\ n \in Nat \ {0} /\ Len(s) \in Nat
      /\ t \in Seq(Byte) /\ Len(t) = Len(s) - n
      /\ \A k \in 1 .. Len(s) - n : t[k] = s[k + n]
      /\ \A k \in 1 .. n : IsLast(s[k]) <=> k = n
  <2>1. Len(s) \in Nat
    BY LenProperties
  <2>2. IsCutAt(s, n)
    BY FrameIsCut
  <2> QED
    BY <2>1, <2>2 DEF IsCutAt
<1>2. s[n].frame = s[1].frame
  <2>1. n \in 1 .. Len(s) /\ n <= Size(s[1].frame)
    BY <1>1
  <2> QED
    BY <2>1, FirstFrame
<1> HIDE DEF t
<1>3. /\ Ends(s, K) = {k \in 1 .. Len(s) : IsLast(s[k]) /\ s[k].frame.kind \in K}
      /\ Ends(t, K) = {k \in 1 .. Len(s) - n : IsLast(t[k]) /\ t[k].frame.kind \in K}
      /\ IsFiniteSet(Ends(t, K)) /\ Cardinality(Ends(t, K)) \in Nat
      /\ IsFiniteSet(Ends(s, K)) /\ Cardinality(Ends(s, K)) \in Nat
  BY <1>1, EndsAreFinite
<1>4. Ends(s, K) \ {n} = Later
  <2>1. ASSUME NEW k \in Ends(s, K), k # n PROVE k \in Later
    <3>1. k \in n + 1 .. Len(s)
      <4>1. k \in 1 .. Len(s) /\ IsLast(s[k])
        BY <1>3, <2>1
      <4>2. k \notin 1 .. n
        BY <1>1, <2>1, <4>1
      <4> QED
        BY <1>1, <4>1, <4>2
    <3>2. k - n \in 1 .. Len(s) - n /\ (k - n) + n = k
      BY <1>1, <3>1
    <3>3. k - n \in Ends(t, K)
      BY <1>1, <1>3, <3>2
    <3> QED
      BY <3>2, <3>3
  <2>2. ASSUME NEW k \in Ends(t, K) PROVE k + n \in Ends(s, K) /\ k + n # n
    <3>1. k \in 1 .. Len(s) - n /\ k + n \in 1 .. Len(s) /\ k + n # n
      BY <1>1, <1>3
    <3> QED
      BY <1>1, <1>3, <3>1
  <2> QED
    BY <2>1, <2>2
<1>5. IsFiniteSet(Later) /\ Cardinality(Later) = Cardinality(Ends(t, K))
  <2>1. f \in Injection(Ends(t, K), Later)
    <3>1. \A x, y \in Ends(t, K) : x + n = y + n => x = y
      BY <1>1, <1>3
    <3> QED
      BY <3>1 DEF Injection, IsInjective
  <2>2. f \in Surjection(Ends(t, K), Later)
    BY DEF Surjection
  <2>3. ExistsBijection(Ends(t, K), Later)
    BY <2>1, <2>2 DEF ExistsBijection, Bijection
  <2> QED
    BY <1>3, <2>3, FS_Bijection
<1>6. n \in Ends(s, K) <=> s[1].frame.kind \in K
  <2>1. n \in 1 .. Len(s) /\ n \in 1 .. n
    BY <1>1
  <2> QED
    BY <1>1, <1>2, <1>3, <2>1
<1>7. Cardinality(Later) = IF n \in Ends(s, K) THEN Cardinality(Ends(s, K)) - 1
                                               ELSE Cardinality(Ends(s, K))
  <2>1. Cardinality(Ends(s, K) \ {n}) =
          IF n \in Ends(s, K) THEN Cardinality(Ends(s, K)) - 1
                              ELSE Cardinality(Ends(s, K))
    <3>1. IsFiniteSet(Ends(s, K))
      BY <1>3
    <3> QED
      BY <3>1, FS_RemoveElement
  <2> HIDE DEF Later
  <2> QED
    BY <1>4, <2>1
<1> HIDE DEF Later
<1> QED
  BY <1>3, <1>5, <1>6, <1>7 DEF t

=============================================================================
