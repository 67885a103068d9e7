--------------------------- MODULE NetworkProofs ---------------------------
(***************************************************************************)
(* Theorems about ArduinoNetwork for any limits, wraps, buffer and lengths *)
(* of messages that satisfy its assumptions: the time limits are kept, and *)
(* the receiver cuts the stream into the messages the server sent, however *)
(* it arrives in pieces and however often the connection is replaced.      *)
(***************************************************************************)
EXTENDS ArduinoNetwork, ClockProofs, ProtocolProofs

(* The types of what measures time.                                        *)
ClockTypes ==
  /\ millis \in Clock
  /\ last_poke_to_server \in Clock /\ last_poke_from_server \in Clock
  /\ silent \in Nat /\ unpoked \in Nat
  /\ lag \in 0 .. MaxPass
  /\ pc \in {"connect", "silence", "poke", "receive", "order"}

(* The timers show the real times since the last pings.                    *)
PokesAreExact ==
  /\ Passed(last_poke_from_server) = silent
  /\ Passed(last_poke_to_server) = unpoked

(* keep_connected has looked at a timer in this round, or will.            *)
SilenceInTime ==
  /\ silent <= PROTOCOl_RECIEVE_POKE_TIME + MaxPass + lag
  /\ pc \in {"poke", "receive", "order"} => silent <= PROTOCOl_RECIEVE_POKE_TIME + lag

PokeInTime ==
  /\ unpoked <= PROTOCOl_SEND_POKE_TIME + MaxPass + lag
  /\ pc \in {"receive", "order"} => unpoked <= PROTOCOl_SEND_POKE_TIME + lag

IInv == ClockTypes /\ PokesAreExact /\ SilenceInTime /\ PokeInTime

LEMMA Constants ==
  /\ Wrap \in Nat \ {0} /\ MaxPass \in Nat \ {0}
  /\ PROTOCOl_RECIEVE_POKE_TIME \in Nat
  /\ PROTOCOl_RECIEVE_POKE_TIME + 2 * MaxPass < Wrap
  /\ PROTOCOl_SEND_POKE_TIME \in Nat
  /\ PROTOCOl_SEND_POKE_TIME + 2 * MaxPass < Wrap
BY NetworkAssumption DEF NetworkAssumption

-----------------------------------------------------------------------------
(* What a step that takes no time does to the two timers.                  *)

Heard == last_poke_from_server' = millis /\ silent' = 0
Poked == last_poke_to_server' = millis /\ unpoked' = 0

(* Each timer is set now or left alone, and the clock stands.              *)
Timers ==
  /\ UNCHANGED millis
  /\ Heard \/ UNCHANGED <<last_poke_from_server, silent>>
  /\ Poked \/ UNCHANGED <<last_poke_to_server, unpoked>>

LEMMA ReconnectTimes == Reconnect => Heard /\ Poked
BY DEF Reconnect, Heard, Poked

LEMMA KeptTimes == KeepConnection => UNCHANGED pokeVars
BY DEF KeepConnection, pokeVars

LEMMA ConnectSteps ==
  keep_connection => Timers /\ pc = "connect" /\ pc' = "silence" /\ lag' = lag
BY ReconnectTimes, KeptTimes DEF keep_connection, Timers, pokeVars, heardVars

LEMMA SilenceSteps ==
  CheckSilence =>
    /\ Timers /\ pc = "silence" /\ pc' = "poke" /\ lag' = lag
    /\ Heard \/ (/\ Passed(last_poke_from_server) <= PROTOCOl_RECIEVE_POKE_TIME
                 /\ silent' = silent)
BY ReconnectTimes, KeptTimes DEF CheckSilence, Timers, pokeVars, heardVars

LEMMA PokeSteps ==
  Poke =>
    /\ Timers /\ pc = "poke" /\ pc' = "receive" /\ lag' = lag
    /\ Poked \/ (/\ Passed(last_poke_to_server) <= PROTOCOl_SEND_POKE_TIME
                 /\ unpoked' = unpoked)
BY ReconnectTimes, KeptTimes DEF Poke, PokeSent, Poked, Timers, pokeVars, heardVars

(* Whatever is read, hearing a ping is all that touches a timer.           *)
LEMMA ReadTimes ==
  ASSUME NEW s, Read(s)
  PROVE  Heard \/ UNCHANGED <<last_poke_from_server, silent>>
<1>1. ASSUME Wait(s)
      PROVE  UNCHANGED <<last_poke_from_server, silent>>
  BY <1>1 DEF Wait, heardVars
<1>2. ASSUME NEW t, Handle(t)
      PROVE  Heard \/ UNCHANGED <<last_poke_from_server, silent>>
  BY <1>2 DEF Handle, Heard, heardVars
<1> QED
  BY <1>1, <1>2 DEF Read

LEMMA ReceiveSteps ==
  Receive => Timers /\ pc = "receive" /\ pc' = "order" /\ lag' = lag
<1> SUFFICES ASSUME Receive
             PROVE  Timers /\ pc = "receive" /\ pc' = "order" /\ lag' = lag
  OBVIOUS
<1>1. /\ pc = "receive" /\ pc' = "order"
      /\ UNCHANGED <<millis, last_poke_to_server, unpoked, lag>>
      /\ \/ UNCHANGED <<last_poke_from_server, silent>>
         \/ Read((IF StillReceived THEN <<>> ELSE Kept) \o inbox)
  BY DEF Receive, heardVars
<1> QED
  BY <1>1, ReadTimes DEF Timers

LEMMA OrderSteps ==
  Order => UNCHANGED <<millis, pokeVars>> /\ pc = "order" /\ pc' = "connect" /\ lag' = 0
BY DEF Order

-----------------------------------------------------------------------------
(* The invariant is inductive                                              *)

LEMMA InitInvariant == Init => IInv
<1> SUFFICES ASSUME Init PROVE IInv
  OBVIOUS
<1>1. ClockTypes
  BY Constants DEF Init, ClockTypes, Clock
<1>2. Passed(millis) = 0
  BY <1>1, Constants, TimerRange DEF ClockTypes, Clock, Passed
<1>3. PokesAreExact
  BY <1>2 DEF Init, PokesAreExact
<1> QED
  BY <1>1, <1>3, Constants DEF Init, IInv, SilenceInTime, PokeInTime

LEMMA TickInvariant == IInv /\ Tick => IInv'
<1> SUFFICES ASSUME IInv, Tick PROVE IInv'
  OBVIOUS
<1>1. /\ lag < MaxPass /\ lag' = lag + 1
      /\ millis' = (millis + 1) % Wrap
      /\ silent' = silent + 1 /\ unpoked' = unpoked + 1
      /\ UNCHANGED <<last_poke_to_server, last_poke_from_server, pc>>
  BY DEF Tick
<1>2. /\ millis \in 0 .. Wrap - 1 /\ last_poke_to_server \in 0 .. Wrap - 1
      /\ last_poke_from_server \in 0 .. Wrap - 1
      /\ silent \in Nat /\ unpoked \in Nat /\ lag \in 0 .. MaxPass
  BY DEF IInv, ClockTypes, Clock
<1>3. ClockTypes'
  BY <1>1, <1>2, Constants, NextTime DEF IInv, ClockTypes, Clock
<1>4. SilenceInTime' /\ PokeInTime'
  BY <1>1, <1>2, Constants DEF IInv, SilenceInTime, PokeInTime
<1>5. /\ silent + 1 <= PROTOCOl_RECIEVE_POKE_TIME + MaxPass + MaxPass
      /\ unpoked + 1 <= PROTOCOl_SEND_POKE_TIME + MaxPass + MaxPass
  BY <1>1, <1>2, Constants DEF IInv, SilenceInTime, PokeInTime
<1>6. silent + 1 < Wrap /\ unpoked + 1 < Wrap
  BY <1>2, <1>5, Constants
<1>7. ASSUME NEW t \in 0 .. Wrap - 1, Passed(t) + 1 < Wrap
      PROVE  (millis' - t) % Wrap = Passed(t) + 1
  <2>1. (((millis + 1) % Wrap) - t) % Wrap = ((millis - t) % Wrap) + 1
    BY <1>2, <1>7, Constants, TimerTicks DEF Passed
  <2> QED
    BY <1>1, <2>1 DEF Passed
<1>8. PokesAreExact'
  <2>1. /\ Passed(last_poke_from_server) = silent
        /\ Passed(last_poke_to_server) = unpoked
    BY DEF IInv, PokesAreExact
  <2>2. /\ (millis' - last_poke_from_server) % Wrap = silent + 1
        /\ (millis' - last_poke_to_server) % Wrap = unpoked + 1
    BY <1>2, <1>6, <1>7, <2>1
  <2> QED
    BY <1>1, <2>2 DEF PokesAreExact, Passed
<1> QED
  BY <1>3, <1>4, <1>8 DEF IInv

(* A step that sets timers keeps what they show.                           *)
LEMMA TimersStayExact ==
  ASSUME IInv, Timers, lag' \in 0 .. MaxPass,
         pc' \in {"connect", "silence", "poke", "receive", "order"}
  PROVE  ClockTypes' /\ PokesAreExact' /\ silent' <= silent /\ unpoked' <= unpoked
<1>1. /\ millis \in Clock /\ millis' = millis /\ silent \in Nat /\ unpoked \in Nat
      /\ last_poke_to_server \in Clock /\ last_poke_from_server \in Clock
  BY DEF IInv, ClockTypes, Timers
<1>2. Passed(millis) = 0
  BY <1>1, Constants, TimerRange DEF Clock, Passed
<1>3. ClockTypes'
  BY <1>1 DEF ClockTypes, Timers, Heard, Poked
<1>4. PokesAreExact'
  BY <1>1, <1>2 DEF IInv, PokesAreExact, Timers, Heard, Poked, Passed
<1>5. silent' <= silent /\ unpoked' <= unpoked
  BY <1>1 DEF Timers, Heard, Poked
<1> QED
  BY <1>3, <1>4, <1>5

LEMMA LoopInvariant == IInv /\ Loop => IInv'
<1> SUFFICES ASSUME IInv, Loop PROVE IInv'
  OBVIOUS
<1>1. /\ silent \in Nat /\ unpoked \in Nat /\ lag \in 0 .. MaxPass
      /\ Passed(last_poke_from_server) = silent
      /\ Passed(last_poke_to_server) = unpoked
  BY DEF IInv, ClockTypes, PokesAreExact
<1>2. ASSUME Timers, lag' = lag,
             pc' \in {"connect", "silence", "poke", "receive", "order"}
      PROVE  /\ ClockTypes' /\ PokesAreExact'
             /\ silent' \in Nat /\ unpoked' \in Nat
             /\ silent' <= silent /\ unpoked' <= unpoked
  BY <1>1, <1>2, TimersStayExact DEF ClockTypes
<1>3. CASE keep_connection
  BY <1>1, <1>2, <1>3, ConnectSteps, Constants DEF IInv, SilenceInTime, PokeInTime
<1>4. CASE CheckSilence
  <2>1. silent' <= PROTOCOl_RECIEVE_POKE_TIME
    BY <1>1, <1>4, SilenceSteps, Constants DEF Heard
  <2> QED
    BY <1>1, <1>2, <1>4, <2>1, SilenceSteps, Constants DEF IInv, SilenceInTime, PokeInTime
<1>5. CASE Poke
  <2>1. unpoked' <= PROTOCOl_SEND_POKE_TIME
    BY <1>1, <1>5, PokeSteps, Constants DEF Poked
  <2> QED
    BY <1>1, <1>2, <1>5, <2>1, PokeSteps, Constants DEF IInv, SilenceInTime, PokeInTime
<1>6. CASE Receive
  BY <1>1, <1>2, <1>6, ReceiveSteps, Constants DEF IInv, SilenceInTime, PokeInTime
<1>7. CASE Order
  <2>1. /\ UNCHANGED <<millis, pokeVars>> /\ pc = "order" /\ pc' = "connect" /\ lag' = 0
    BY <1>7, OrderSteps
  <2>2. ClockTypes' /\ PokesAreExact'
    BY <2>1, Constants DEF IInv, ClockTypes, PokesAreExact, Passed, pokeVars, heardVars
  <2>3. SilenceInTime' /\ PokeInTime'
    BY <1>1, <2>1, Constants DEF IInv, SilenceInTime, PokeInTime, pokeVars, heardVars
  <2> QED
    BY <2>2, <2>3 DEF IInv
<1> QED
  BY <1>3, <1>4, <1>5, <1>6, <1>7 DEF Loop

LEMMA NextInvariant == IInv /\ [Next]_vars => IInv'
<1> SUFFICES ASSUME IInv, [Next]_vars PROVE IInv'
  OBVIOUS
<1>1. CASE UNCHANGED <<millis, pokeVars, pc, lag>>
  BY <1>1 DEF IInv, ClockTypes, PokesAreExact, SilenceInTime, PokeInTime, Passed, pokeVars,
              heardVars
<1>2. CASE Arrive \/ ConnectionEnds
  BY <1>1, <1>2 DEF Arrive, ConnectionEnds
<1>3. CASE UNCHANGED vars
  BY <1>1, <1>3 DEF vars
<1> QED
  BY <1>2, <1>3, TickInvariant, LoopInvariant DEF Next

-----------------------------------------------------------------------------
(* The timers are exact, and the round of the loop that has to act on them *)
(* is at hand.                                                             *)
THEOREM Invariance == Spec => []IInv
<1> QED
  BY InitInvariant, NextInvariant, PTL DEF Spec

(* A server that is not heard is noticed within two rounds after the       *)
(* limit of NetworkConnection::keep_connected, wherever the clock wraps.   *)
THEOREM SilenceEnds == Spec => []SilenceIsNoticed
<1>1. IInv => SilenceIsNoticed
  <2> SUFFICES ASSUME IInv PROVE silent <= PROTOCOl_RECIEVE_POKE_TIME + 2 * MaxPass
    BY DEF SilenceIsNoticed
  <2>1. silent \in Nat /\ lag \in 0 .. MaxPass
    BY DEF IInv, ClockTypes
  <2> QED
    BY <2>1, Constants DEF IInv, SilenceInTime
<1> QED
  BY <1>1, Invariance, PTL

(* The server hears a ping within two rounds after it is due, or has a new *)
(* connection.                                                             *)
THEOREM PokesInTime == Spec => []ServerIsPoked
<1>1. IInv => ServerIsPoked
  <2> SUFFICES ASSUME IInv PROVE unpoked <= PROTOCOl_SEND_POKE_TIME + 2 * MaxPass
    BY DEF ServerIsPoked
  <2>1. unpoked \in Nat /\ lag \in 0 .. MaxPass
    BY DEF IInv, ClockTypes
  <2> QED
    BY <2>1, Constants DEF IInv, PokeInTime
<1> QED
  BY <1>1, Invariance, PTL
-----------------------------------------------------------------------------
(* The stream                                                              *)

StreamTypes ==
  /\ connection_number \in Number /\ receiver_number \in Number
  /\ received_message \in Seq(Byte)
  /\ is_message_received \in BOOLEAN
  /\ pc \in {"connect", "silence", "poke", "receive", "order"}
  /\ socket \in {"open", "half", "lost", "closed"}
  /\ inbox \in Seq(Byte) /\ Len(inbox) <= RxBuffer
  /\ last \in Byte

(* How many connections the receiver has not seen: fewer than there are    *)
(* numbers, so that it never takes a new one for the one it knows.         *)
Lead == (connection_number - receiver_number) % NumberWrap
LeadIsSmall ==
  /\ pc \in {"connect", "order"} => Lead = 0
  /\ pc = "silence" => Lead <= 1
  /\ pc = "poke" => Lead <= 2
  /\ pc = "receive" => Lead <= 3

(* The receiver holds a whole message for main.ino until the end of the    *)
(* round; otherwise, what it has of this connection is less than one.      *)
Wholeness ==
  IF is_message_received
  THEN /\ pc = "order" /\ receiver_number = connection_number
       /\ is_valid_message(received_message)
  ELSE receiver_number = connection_number /\ received_message # <<>> =>
         Len(received_message) < Size(received_message[1].frame)

(* What arrives next follows what has not been parsed.                     *)
LastFits ==
  socket = "open" =>
    IF IsLast(last) THEN Unparsed # <<>> => IsLast(Unparsed[Len(Unparsed)])
                    ELSE Unparsed # <<>> /\ Unparsed[Len(Unparsed)] = last

StreamInv ==
  StreamTypes /\ LeadIsSmall /\ Wholeness /\ LastFits /\ InStep /\ NothingSkipped

LEMMA NumberConstants == NumberWrap \in Nat \ {0} /\ NumberWrap > 3
BY NetworkAssumption DEF NetworkAssumption

LEMMA UnparsedType == StreamTypes => Unparsed \in Seq(Byte)
<1> SUFFICES ASSUME StreamTypes PROVE Unparsed \in Seq(Byte)
  OBVIOUS
<1>1. <<>> \in Seq(Byte) /\ inbox \in Seq(Byte) /\ received_message \in Seq(Byte)
  BY EmptySeq DEF StreamTypes
<1> QED
  BY <1>1, ConcatProperties DEF Unparsed

(* What is owed is what ends in the bytes that have not been parsed.       *)
LEMMA SkippedIsCounted ==
  /\ NothingSkipped <=> owed = Cardinality(Ends(Unparsed, Orders))
  /\ NothingSkipped' <=> owed' = Cardinality(Ends(Unparsed', Orders))
BY DEF NothingSkipped, Ends

LEMMA NothingIsStream == IsStream(<<>>) /\ Cardinality(Ends(<<>>, Orders)) = 0
<1>1. <<>> \in Seq(Byte) /\ Len(<<>>) = 0
  BY EmptySeq
<1>2. Cardinality(Ends(<<>>, Orders)) = 0
  BY <1>1, EndsAreFinite
<1>3. IsStream(<<>>)
  BY <1>1 DEF IsStream
<1> QED
  BY <1>2, <1>3

LEMMA BoundaryIsLast == Boundary \in Byte /\ IsLast(Boundary)
<1> DEFINE ping == [kind |-> "serverPing", length |-> 0]
<1>1. "serverPing" \in Kind
  BY NetworkAssumption DEF NetworkAssumption
<1>2. Packet["serverPing"].payload_length = 0
  BY DEF Packet, create_ping_message
<1>3. ping \in Frame
  BY <1>1, <1>2 DEF Frame
<1> HIDE DEF ping
<1>4. Size(ping) \in 1 .. Size(ping)
  BY <1>3, FrameFields
<1>5. [frame |-> ping, at |-> Size(ping)] \in Byte
  BY <1>3, <1>4, BytesOfFrame
<1>6. Boundary = [frame |-> ping, at |-> Size(ping)]
  BY DEF Boundary, ping
<1> QED
  BY <1>5, <1>6 DEF IsLast

(* What the receiver makes of a message is what it is.                     *)
LEMMA Judged ==
  ASSUME NEW kind \in Kind
  PROVE  /\ IsAccepted(Arduino, Packet[kind]) <=> kind \in Orders
         /\ IsServerPing(Arduino, Packet[kind]) => kind \notin Orders
<1>1. kind \in DOMAIN Packet /\ kind # "unknown"
  BY FramesAssumption, NetworkAssumption DEF FramesAssumption, NetworkAssumption
<1>2. IsAccepted(Arduino, Packet[kind]) <=> kind \in {"data", "empty", "unknown"}
  BY <1>1, AcceptedKinds
<1>3. IsPing(Packet[kind]) <=> kind \in {"serverPing", "spoiltPing", "ping"}
  BY <1>1, AcceptedKinds
<1>4. IsServerPing(Arduino, Packet[kind]) => IsPing(Packet[kind])
  BY DEF IsServerPing
<1> QED
  BY <1>1, <1>2, <1>3, <1>4 DEF Orders

-----------------------------------------------------------------------------
(* Steps of keep_connected                                                 *)

(* The three looks at the connection, each of which may replace it.        *)
ConnectionStep ==
  /\ UNCHANGED receiverVars
  /\ \/ pc = "connect" /\ pc' = "silence"
     \/ pc = "silence" /\ pc' = "poke"
     \/ pc = "poke" /\ pc' = "receive"
  /\ Reconnect \/ UNCHANGED <<connection_number, socket, inbox, last, owed>>

LEMMA ConnectionSteps == keep_connection \/ CheckSilence \/ Poke => ConnectionStep
<1>1. KeepConnection => UNCHANGED <<connection_number, socket, inbox, last, owed>>
  BY DEF KeepConnection, linkVars
<1>2. PokeSent => UNCHANGED <<connection_number, socket, inbox, last, owed>>
  BY DEF PokeSent, linkVars
<1> QED
  BY <1>1, <1>2 DEF keep_connection, CheckSilence, Poke, ConnectionStep

LEMMA NextNumber ==
  ASSUME connection_number \in Number, receiver_number \in Number,
         Lead + 1 < NumberWrap, connection_number' = (connection_number + 1) % NumberWrap,
         receiver_number' = receiver_number
  PROVE  /\ connection_number' \in Number /\ Lead' = Lead + 1
         /\ receiver_number' # connection_number'
<1>1. /\ NumberWrap \in Nat \ {0}
      /\ connection_number \in 0 .. NumberWrap - 1 /\ receiver_number \in 0 .. NumberWrap - 1
  BY NumberConstants DEF Number
<1>2. connection_number' \in 0 .. NumberWrap - 1
  BY <1>1, NextTime
<1>3. (((connection_number + 1) % NumberWrap) - receiver_number) % NumberWrap
        = ((connection_number - receiver_number) % NumberWrap) + 1
  BY <1>1, TimerTicks DEF Lead
<1>4. Lead' = Lead + 1
  BY <1>3 DEF Lead
<1>5. Lead \in Nat
  BY <1>1, TimerRange DEF Lead
<1>6. (receiver_number - receiver_number) % NumberWrap = 0
  BY <1>1, TimerRange
<1>7. receiver_number' = connection_number' => Lead' = 0
  BY <1>6 DEF Lead
<1> QED
  BY <1>2, <1>4, <1>5, <1>7 DEF Number

LEMMA ConnectionInvariant == StreamInv /\ ConnectionStep => StreamInv'
<1> SUFFICES ASSUME StreamInv, ConnectionStep PROVE StreamInv'
  OBVIOUS
<1>1. /\ StreamTypes /\ LeadIsSmall /\ ~is_message_received
      /\ Lead \in Nat
  <2>1. connection_number \in 0 .. NumberWrap - 1 /\ receiver_number \in 0 .. NumberWrap - 1
    BY DEF StreamInv, StreamTypes, Number
  <2>2. Lead \in Nat
    BY <2>1, NumberConstants, TimerRange DEF Lead
  <2> QED
    BY <2>2 DEF StreamInv, Wholeness, ConnectionStep, StreamTypes
<1>2. CASE Reconnect
  <2>1. /\ connection_number' = (connection_number + 1) % NumberWrap
        /\ UNCHANGED receiverVars
        /\ inbox' = <<>> /\ last' = Boundary /\ owed' = 0
        /\ socket' \in {"open", "closed"}
    BY <1>2 DEF Reconnect, ConnectionStep
  <2>2. Lead <= 2
    BY <1>1 DEF LeadIsSmall, ConnectionStep
  <2>3. /\ connection_number' \in Number /\ Lead' = Lead + 1
        /\ receiver_number' # connection_number'
    <3>1. Lead + 1 < NumberWrap
      BY <1>1, <2>2, NumberConstants
    <3> QED
      BY <1>1, <2>1, <3>1, NextNumber DEF StreamTypes, receiverVars
  <2>4. LeadIsSmall'
    BY <1>1, <2>3 DEF LeadIsSmall, ConnectionStep
  <2>5. Unparsed' = <<>>
    <3>1. <<>> \o <<>> = <<>>
      BY EmptySeq, ConcatEmptySeq
    <3> QED
      BY <2>1, <2>3, <3>1 DEF Unparsed
  <2>6. StreamTypes'
    <3>1. <<>> \in Seq(Byte) /\ Len(<<>>) = 0
      BY EmptySeq
    <3>2. 0 <= RxBuffer
      BY NetworkAssumption DEF NetworkAssumption
    <3> QED
      BY <1>1, <2>1, <2>3, <3>1, <3>2, BoundaryIsLast
         DEF StreamTypes, ConnectionStep, receiverVars
  <2>7. Wholeness'
    BY <1>1, <2>1, <2>3 DEF Wholeness, receiverVars
  <2>8. LastFits'
    BY <2>1, <2>5, BoundaryIsLast DEF LastFits
  <2>9. InStep' /\ NothingSkipped'
    <3>1. IsStream(<<>>) /\ Cardinality(Ends(<<>>, Orders)) = 0
      BY NothingIsStream
    <3>2. InStep'
      BY <2>5, <3>1 DEF InStep
    <3> QED
      BY <2>1, <2>5, <3>1, <3>2, SkippedIsCounted
  <2> QED
    BY <2>4, <2>6, <2>7, <2>8, <2>9 DEF StreamInv
<1>3. CASE UNCHANGED <<connection_number, socket, inbox, last, owed>>
  <2>1. /\ UNCHANGED <<connection_number, receiver_number, received_message,
                       is_message_received, socket, inbox, last, owed>>
        /\ UNCHANGED <<Lead, Unparsed>>
    BY <1>3 DEF ConnectionStep, receiverVars, Lead, Unparsed
  <2>2. LeadIsSmall'
    BY <1>1, <2>1 DEF LeadIsSmall, ConnectionStep
  <2>3. StreamTypes' /\ Wholeness' /\ LastFits' /\ InStep' /\ NothingSkipped'
    BY <1>1, <2>1 DEF StreamInv, StreamTypes, Wholeness, LastFits, InStep,
                      NothingSkipped, ConnectionStep
  <2> QED
    BY <2>2, <2>3 DEF StreamInv
<1> QED
  BY <1>2, <1>3 DEF ConnectionStep

-----------------------------------------------------------------------------
(* Steps of the receiver                                                   *)

(* NetworkReceiver::loop waits for more, or cuts off the first message and *)
(* keeps it or drops it.                                                   *)
Waits ==
  /\ received_message' = Unparsed /\ is_message_received' = FALSE /\ inbox' = <<>>
  /\ Unparsed # <<>> => Len(Unparsed) < Size(Unparsed[1].frame)

Cuts(n) ==
  /\ Unparsed # <<>> /\ n = Size(Unparsed[1].frame) /\ n <= Len(Unparsed)
  /\ inbox' = SubSeq(Unparsed, n + 1, Len(Unparsed))
  /\ \/ /\ received_message' = SubSeq(Unparsed, 1, n) /\ is_message_received' = TRUE
        /\ is_valid_message(received_message')
     \/ /\ received_message' = <<>> /\ is_message_received' = FALSE
        /\ handle_ping_message(SubSeq(Unparsed, 1, n))
             \/ ~is_valid_message(SubSeq(Unparsed, 1, n))
  /\ handle_ping_message(SubSeq(Unparsed, 1, n)) => unheard' = 0

LEMMA ReadSteps ==
  ASSUME StreamInv, ~is_message_received, Read(Unparsed), inbox # <<>>
  PROVE  Waits \/ \E n : Cuts(n)
<1> DEFINE s == Unparsed
           H == PROTOCOl_MESSAGE_HEADER_LENGTH
<1>1. s \in Seq(Byte) /\ IsStream(s) /\ s # <<>>
  <2>1. /\ inbox \in Seq(Byte)
        /\ (IF receiver_number = connection_number THEN received_message ELSE <<>>) \in Seq(Byte)
    BY EmptySeq DEF StreamInv, StreamTypes
  <2>2. s # <<>>
    BY <2>1, StreamPrefix DEF Unparsed
  <2> QED
    BY <2>2, UnparsedType DEF StreamInv, InStep
<1>2. /\ s[1] \in Byte /\ Len(s) \in Nat /\ H \in Nat \ {0}
      /\ Size(s[1].frame) \in Nat /\ Size(s[1].frame) = H + s[1].frame.length
      /\ s[1].frame.length \in Nat
  <2>1. Len(s) \in Nat \ {0}
    BY <1>1, EmptySeq
  <2>2. s[1] \in Byte
    BY <1>1, <2>1, ElementOfSeq
  <2> QED
    BY <2>1, <2>2, ByteFields, FrameFields
<1> HIDE DEF s
<1>3. CASE Len(s) < H /\ Wait(s)
  <2>1. Len(s) < Size(s[1].frame)
    BY <1>2, <1>3
  <2> QED
    BY <1>3, <2>1 DEF Wait, Waits, s
<1>4. CASE ~(Len(s) < H /\ Wait(s))
  <2>1. /\ Len(s) >= H
        /\ \E length \in LengthRead(s) :
             \/ Len(s) < H + length /\ Wait(s)
             \/ /\ Len(s) >= H + length
                /\ Handle(SubSeq(s, 1, H + length))
                /\ inbox' = SubSeq(s, H + length + 1, Len(s))
    BY <1>4 DEF Read, s
  <2>2. LengthRead(s) = {s[1].frame.length}
    BY <1>1, <1>2, <2>1, HeaderRead
  <2> DEFINE n == Size(s[1].frame)
  <2>3. \/ Len(s) < n /\ Wait(s)
        \/ Len(s) >= n /\ Handle(SubSeq(s, 1, n)) /\ inbox' = SubSeq(s, n + 1, Len(s))
    BY <1>2, <2>1, <2>2
  <2>4. CASE Len(s) < n /\ Wait(s)
    BY <2>4 DEF Wait, Waits, s
  <2>5. CASE Len(s) >= n /\ Handle(SubSeq(s, 1, n)) /\ inbox' = SubSeq(s, n + 1, Len(s))
    <3> DEFINE m == SubSeq(s, 1, n)
    <3>1. \/ handle_ping_message(m) /\ Drop
          \/ is_valid_message(m) /\ received_message' = m /\ is_message_received' = TRUE
          \/ ~is_valid_message(m) /\ Drop
      BY <2>5 DEF Handle
    <3>2. n <= Len(s) /\ (handle_ping_message(m) => unheard' = 0)
      BY <1>2, <2>5 DEF Handle
    <3>3. Cuts(n)
      BY <1>1, <2>5, <3>1, <3>2 DEF Cuts, Drop, s
    <3> QED
      BY <3>3
  <2> QED
    BY <2>3, <2>4, <2>5
<1> QED
  BY <1>3, <1>4

ReceiverStep ==
  /\ pc = "receive" /\ pc' = "order"
  /\ receiver_number' = connection_number
  /\ UNCHANGED <<connection_number, socket, last, owed>>
  /\ Waits \/ \E n : Cuts(n)

LEMMA ReceiverSteps == StreamInv /\ Receive => ReceiverStep
<1> SUFFICES ASSUME StreamInv, Receive PROVE ReceiverStep
  OBVIOUS
<1>1. /\ pc = "receive" /\ pc' = "order" /\ receiver_number' = connection_number
      /\ UNCHANGED <<connection_number, socket, last, owed>>
  BY DEF Receive, linkVars
<1>2. ~is_message_received /\ ~StillReceived
  BY <1>1 DEF StreamInv, Wholeness, StillReceived
<1>3. Unparsed = Kept \o inbox
  BY DEF Unparsed, Kept
<1>4. CASE inbox = <<>> /\ received_message' = Kept /\ is_message_received' = StillReceived
           /\ inbox' = inbox
  <2>1. Kept \in Seq(Byte)
    BY EmptySeq DEF StreamInv, StreamTypes, Kept
  <2>2. Unparsed = Kept
    BY <1>3, <1>4, <2>1, ConcatEmptySeq
  <2>3. is_message_received' = FALSE
    BY <1>2, <1>4 DEF StillReceived
  <2>4. Kept # <<>> => Len(Kept) < Size(Kept[1].frame)
    BY <1>2 DEF StreamInv, Wholeness, Kept
  <2>5. Waits
    BY <1>4, <2>2, <2>3, <2>4 DEF Waits
  <2> QED
    BY <1>1, <2>5 DEF ReceiverStep
<1>5. CASE inbox # <<>> /\ Read((IF StillReceived THEN <<>> ELSE Kept) \o inbox)
  <2>1. Read(Unparsed)
    BY <1>2, <1>3, <1>5
  <2> QED
    BY <1>1, <1>2, <1>5, <2>1, ReadSteps DEF ReceiverStep
<1> QED
  BY <1>4, <1>5 DEF Receive

(* What a cut leaves: the frame that was first, which was an order if it   *)
(* is kept and none if it is dropped, and a shorter stream.                *)
LEMMA CutSteps ==
  ASSUME StreamInv, NEW n, Cuts(n)
  PROVE  /\ IsCutAt(Unparsed, n)
         /\ Len(inbox') <= RxBuffer
         /\ received_message' = <<>> => Unparsed[1].frame.kind \notin Orders
<1> DEFINE s == Unparsed
           kept == IF receiver_number = connection_number THEN received_message ELSE <<>>
           rest == SubSeq(s, n + 1, Len(s))
<1>1. s \in Seq(Byte) /\ IsStream(s)
  BY UnparsedType DEF StreamInv, InStep
<1>2. IsCutAt(s, n)
  BY <1>1, FrameIsCut DEF Cuts
<1>3. Len(inbox') <= RxBuffer
  <2>1. kept \in Seq(Byte) /\ inbox \in Seq(Byte) /\ Len(inbox) <= RxBuffer
    BY EmptySeq DEF StreamInv, StreamTypes
  <2>2. Len(s) = Len(kept) + Len(inbox) /\ Len(kept) \in Nat /\ Len(inbox) \in Nat
    <3>1. s = kept \o inbox
      BY DEF Unparsed
    <3> QED
      BY <2>1, <3>1, ConcatProperties, LenProperties
  <2>3. n \in Nat \ {0} /\ Len(inbox') = Len(s) - n
    BY <1>2 DEF IsCutAt, Cuts
  <2>4. Len(kept) < n \/ is_message_received
    <3>1. CASE kept = <<>>
      BY <2>3, <3>1, EmptySeq
    <3>2. CASE kept # <<>> /\ ~is_message_received
      <4>1. Len(kept) < Size(kept[1].frame)
        BY <3>2 DEF StreamInv, Wholeness
      <4>2. s = kept \o inbox
        BY DEF Unparsed
      <4>3. s[1] = kept[1]
        BY <2>1, <3>2, <4>2, StreamPrefix
      <4> QED
        BY <4>1, <4>3 DEF Cuts
    <3> QED
      BY <3>1, <3>2
  <2>5. is_message_received => Len(kept) = n
    <3> SUFFICES ASSUME is_message_received PROVE Len(kept) = n
      OBVIOUS
    <3>1. kept = received_message /\ IsFrame(kept)
      BY DEF StreamInv, Wholeness, is_valid_message
    <3>2. kept # <<>> /\ Len(kept) = Size(kept[1].frame)
      BY <3>1 DEF IsFrame
    <3>3. s = kept \o inbox
      BY DEF Unparsed
    <3>4. s[1] = kept[1]
      BY <2>1, <3>2, <3>3, StreamPrefix
    <3> QED
      BY <3>2, <3>4 DEF Cuts
  <2>6. RxBuffer \in Nat
    BY NetworkAssumption DEF NetworkAssumption
  <2> HIDE DEF s, kept
  <2> QED
    BY <2>1, <2>2, <2>3, <2>4, <2>5, <2>6
<1>4. ASSUME received_message' = <<>> PROVE s[1].frame.kind \notin Orders
  <2> DEFINE first == SubSeq(s, 1, n)
  <2>1. /\ IsFrame(first) /\ first[1] = s[1] /\ first # <<>>
        /\ s[1].frame.kind \in Kind
    BY <1>2, ByteFields, FrameFields DEF IsCutAt, IsFrame
  <2>2. handle_ping_message(first) \/ ~is_valid_message(first)
    BY <1>4, <2>1 DEF Cuts
  <2>3. PacketOf(first) = Packet[s[1].frame.kind]
    BY <2>1 DEF PacketOf
  <2>4. \/ IsServerPing(Arduino, Packet[s[1].frame.kind])
        \/ ~IsAccepted(Arduino, Packet[s[1].frame.kind])
    BY <2>1, <2>2, <2>3 DEF handle_ping_message, is_valid_message
  <2> QED
    BY <2>1, <2>4, Judged
<1> QED
  BY <1>2, <1>3, <1>4

LEMMA ReceiverInvariant == StreamInv /\ ReceiverStep => StreamInv'
<1> SUFFICES ASSUME StreamInv, ReceiverStep PROVE StreamInv'
  OBVIOUS
<1> DEFINE s == Unparsed
<1>1. /\ s \in Seq(Byte) /\ IsStream(s) /\ owed = Cardinality(Ends(s, Orders))
      /\ connection_number \in 0 .. NumberWrap - 1
      /\ inbox \in Seq(Byte) /\ Len(inbox) <= RxBuffer
  BY UnparsedType, SkippedIsCounted DEF StreamInv, StreamTypes, InStep, Number
<1>2. LeadIsSmall'
  <2>1. (connection_number - connection_number) % NumberWrap = 0
    BY <1>1, NumberConstants, TimerRange
  <2> QED
    BY <2>1 DEF ReceiverStep, LeadIsSmall, Lead
<1>3. Unparsed' = received_message' \o inbox'
  BY DEF ReceiverStep, Unparsed
<1>4. ASSUME received_message' \in Seq(Byte), is_message_received' \in BOOLEAN,
             inbox' \in Seq(Byte), Len(inbox') <= RxBuffer
      PROVE  StreamTypes'
  BY <1>4 DEF StreamInv, StreamTypes, ReceiverStep
<1>5. ASSUME Unparsed' = s
      PROVE  LastFits' /\ InStep' /\ NothingSkipped'
  BY <1>1, <1>5, SkippedIsCounted DEF StreamInv, LastFits, InStep, ReceiverStep
<1>6. CASE Waits
  <2>1. Unparsed' = s
    BY <1>1, <1>3, <1>6, ConcatEmptySeq DEF Waits
  <2>2. Wholeness'
    BY <1>6 DEF Waits, Wholeness
  <2>3. StreamTypes'
    <3>1. <<>> \in Seq(Byte) /\ Len(<<>>) = 0 /\ 0 <= RxBuffer
      BY EmptySeq, NetworkAssumption DEF NetworkAssumption
    <3> QED
      BY <1>1, <1>4, <1>6, <3>1 DEF Waits
  <2> QED
    BY <1>2, <1>5, <2>1, <2>2, <2>3 DEF StreamInv
<1>7. ASSUME NEW n, Cuts(n) PROVE StreamInv'
  <2> DEFINE rest == SubSeq(s, n + 1, Len(s))
             first == SubSeq(s, 1, n)
  <2>1. /\ IsCutAt(s, n) /\ Len(inbox') <= RxBuffer /\ inbox' = rest
        /\ received_message' = <<>> => s[1].frame.kind \notin Orders
    BY <1>7, CutSteps DEF Cuts
  <2>2. /\ n \in Nat \ {0} /\ Len(s) \in Nat /\ n <= Len(s)
        /\ first \in Seq(Byte) /\ rest \in Seq(Byte) /\ IsStream(rest)
        /\ Len(rest) = Len(s) - n
        /\ \A k \in 1 .. Len(s) - n : rest[k] = s[k + n]
        /\ \A k \in 1 .. n : IsLast(s[k]) <=> k = n
    BY <1>1, <1>7, <2>1, LenProperties DEF IsCutAt, Cuts
  <2>3. CASE /\ received_message' = first /\ is_message_received' = TRUE
             /\ is_valid_message(received_message')
    <3>1. first \o rest = s
      <4>1. first \o rest = SubSeq(s, 1, Len(s))
        <5>1. 1 \in 1 .. Len(s) + 1 /\ n \in 1 - 1 .. Len(s) /\ Len(s) \in n .. Len(s)
          BY <2>2
        <5> HIDE DEF s
        <5> QED
          BY <1>1, <5>1, ConcatAdjacentSubSeq
      <4> QED
        BY <1>1, <4>1, SubSeqFull
    <3>2. Unparsed' = s
      BY <1>3, <2>1, <2>3, <3>1
    <3>3. Wholeness'
      BY <2>3 DEF Wholeness, ReceiverStep
    <3>4. StreamTypes'
      BY <1>4, <2>1, <2>2, <2>3
    <3> QED
      BY <1>2, <1>5, <3>2, <3>3, <3>4 DEF StreamInv
  <2>4. CASE received_message' = <<>> /\ is_message_received' = FALSE
    <3>1. Unparsed' = rest
      BY <1>3, <2>1, <2>2, <2>4, ConcatEmptySeq
    <3>2. Wholeness'
      BY <2>4 DEF Wholeness
    <3>3. StreamTypes'
      BY <1>4, <2>1, <2>2, <2>4, EmptySeq
    <3>4. InStep'
      BY <2>2, <3>1 DEF InStep
    <3>5. NothingSkipped'
      <4>1. Cardinality(Ends(s, Orders)) = Cardinality(Ends(rest, Orders)) + 0
        BY <1>1, <1>7, <2>1, <2>4, EndsAreCut DEF Cuts
      <4>2. Cardinality(Ends(rest, Orders)) \in Nat
        BY <2>2, EndsAreFinite
      <4>3. owed' = Cardinality(Ends(rest, Orders))
        BY <1>1, <4>1, <4>2 DEF ReceiverStep
      <4> QED
        BY <3>1, <4>3, SkippedIsCounted
    <3>6. LastFits'
      <4> SUFFICES ASSUME socket = "open"
                   PROVE  IF IsLast(last) THEN rest # <<>> => IsLast(rest[Len(rest)])
                                          ELSE rest # <<>> /\ rest[Len(rest)] = last
        BY <3>1 DEF LastFits, ReceiverStep
      <4>1. s # <<>> /\ (IF IsLast(last) THEN IsLast(s[Len(s)]) ELSE s[Len(s)] = last)
        BY <1>7 DEF StreamInv, LastFits, Cuts
      <4>2. IF n < Len(s) THEN rest # <<>> /\ rest[Len(rest)] = s[Len(s)]
                          ELSE rest = <<>> /\ IsLast(s[Len(s)])
        <5> HIDE DEF s
        <5> QED
          BY <1>1, <2>1, <2>2, CutKeepsLast
      <4> HIDE DEF s, rest
      <4> QED
        BY <4>1, <4>2
    <3> QED
      BY <1>2, <3>2, <3>3, <3>4, <3>5, <3>6 DEF StreamInv
  <2> QED
    BY <1>7, <2>3, <2>4 DEF Cuts
<1> QED
  BY <1>6, <1>7 DEF ReceiverStep

-----------------------------------------------------------------------------
(* main.ino takes the message that was first in the stream                 *)

LEMMA OrderInvariant == StreamInv /\ Order => StreamInv'
<1> SUFFICES ASSUME StreamInv, Order PROVE StreamInv'
  OBVIOUS
<1> DEFINE s == Unparsed
           n == Len(received_message)
<1>1. /\ s \in Seq(Byte) /\ IsStream(s) /\ owed = Cardinality(Ends(s, Orders))
      /\ StreamTypes /\ pc = "order" /\ pc' = "connect"
      /\ UNCHANGED <<receiver_number, connection_number, socket, last, inbox>>
  BY UnparsedType, SkippedIsCounted DEF StreamInv, InStep, Order, linkVars
<1>2. LeadIsSmall'
  BY <1>1 DEF StreamInv, LeadIsSmall, Lead
<1>3. CASE ~is_message_received /\ UNCHANGED <<received_message, is_message_received, owed>>
  <2>1. UNCHANGED <<received_message, is_message_received, owed, Unparsed>>
    BY <1>1, <1>3 DEF Unparsed
  <2>2. StreamTypes' /\ Wholeness' /\ LastFits' /\ InStep' /\ NothingSkipped'
    BY <1>1, <1>3, <2>1 DEF StreamInv, StreamTypes, Wholeness, LastFits, InStep, NothingSkipped
  <2> QED
    BY <1>2, <2>2 DEF StreamInv
<1>4. CASE is_message_received /\ Drop /\ owed' = owed - 1
  <2>1. /\ received_message \in Seq(Byte) /\ inbox \in Seq(Byte)
        /\ IsFrame(received_message) /\ IsAccepted(Arduino, PacketOf(received_message))
        /\ s = received_message \o inbox
    BY <1>1, <1>4 DEF StreamInv, StreamTypes, Wholeness, is_valid_message, Unparsed
  <2>2. /\ s # <<>> /\ s[1] = received_message[1] /\ received_message # <<>>
        /\ n = Size(s[1].frame)
    BY <2>1, StreamPrefix DEF IsFrame
  <2>3. /\ Len(s) = n + Len(inbox) /\ n \in Nat /\ Len(inbox) \in Nat /\ n <= Len(s)
    <3>1. Len(s) = n + Len(inbox) /\ n \in Nat /\ Len(inbox) \in Nat
      BY <2>1, ConcatProperties, LenProperties
    <3> QED
      BY <3>1
  <2>4. IsCutAt(s, n)
    BY <1>1, <2>2, <2>3, FrameIsCut
  <2>5. SubSeq(s, n + 1, Len(s)) = inbox
    BY <2>1, FrontAndBack
  <2>6. owed' = Cardinality(Ends(inbox, Orders))
    <3>1. s[1].frame.kind \in Kind
      BY <2>4, ByteFields, FrameFields DEF IsCutAt
    <3>2. s[1].frame.kind \in Orders
      BY <2>1, <2>2, <3>1, Judged DEF PacketOf
    <3>3. Cardinality(Ends(s, Orders)) = Cardinality(Ends(inbox, Orders)) + 1
      BY <1>1, <2>2, <2>3, <2>5, <3>2, EndsAreCut
    <3>4. Cardinality(Ends(inbox, Orders)) \in Nat
      BY <2>1, EndsAreFinite
    <3> QED
      BY <1>1, <1>4, <3>3, <3>4
  <2>7. Unparsed' = inbox
    BY <1>1, <1>4, <2>1, ConcatEmptySeq DEF Drop, Unparsed
  <2>8. StreamTypes' /\ Wholeness'
    <3>1. <<>> \in Seq(Byte)
      BY EmptySeq
    <3> QED
      BY <1>1, <1>4, <3>1 DEF Drop, StreamTypes, Wholeness
  <2>9. InStep' /\ NothingSkipped'
    BY <2>4, <2>5, <2>6, <2>7, SkippedIsCounted DEF InStep, IsCutAt
  <2>10. LastFits'
    <3>1. IF n < Len(s) THEN inbox # <<>> /\ inbox[Len(inbox)] = s[Len(s)]
                        ELSE inbox = <<>> /\ IsLast(s[Len(s)])
      <4> HIDE DEF s, n
      <4> QED
        BY <1>1, <2>3, <2>4, <2>5, CutKeepsLast
    <3>2. socket = "open" => IF IsLast(last) THEN IsLast(s[Len(s)]) ELSE s[Len(s)] = last
      BY <2>2 DEF StreamInv, LastFits
    <3> QED
      BY <1>1, <2>7, <3>1, <3>2 DEF LastFits
  <2> QED
    BY <1>2, <2>8, <2>9, <2>10 DEF StreamInv
<1> QED
  BY <1>3, <1>4 DEF Order, receive

-----------------------------------------------------------------------------
(* The network                                                             *)

LEMMA ArriveInvariant == StreamInv /\ Arrive => StreamInv'
<1> SUFFICES ASSUME StreamInv, Arrive PROVE StreamInv'
  OBVIOUS
<1> DEFINE s == Unparsed
<1>1. /\ s \in Seq(Byte) /\ IsStream(s) /\ owed = Cardinality(Ends(s, Orders))
      /\ StreamTypes /\ socket = "open" /\ Len(inbox) < RxBuffer
      /\ UNCHANGED <<receiver_number, received_message, is_message_received,
                     connection_number, socket, pc>>
  BY UnparsedType, SkippedIsCounted DEF StreamInv, InStep, Arrive, receiverVars
<1>2. PICK b \in Byte :
        /\ Follows(last, b)
        /\ inbox' = Append(inbox, b)
        /\ last' = IF IsLast(b) THEN Boundary ELSE b
        /\ owed' = IF IsLast(b) /\ b.frame.kind \in Orders THEN owed + 1 ELSE owed
  BY DEF Arrive
<1>3. Unparsed' = Append(s, b)
  <2> DEFINE kept == IF receiver_number = connection_number THEN received_message ELSE <<>>
  <2>1. kept \in Seq(Byte) /\ inbox \in Seq(Byte)
    BY <1>1, EmptySeq DEF StreamTypes
  <2>2. kept \o Append(inbox, b) = Append(kept \o inbox, b)
    BY <2>1, BackGrows
  <2> QED
    BY <1>1, <1>2, <2>2 DEF Unparsed
<1>4. IsStream(Append(s, b))
  <2>1. IF s = <<>> THEN b.at = 1 ELSE Follows(s[Len(s)], b)
    BY <1>1, <1>2 DEF StreamInv, LastFits, Follows
  <2> HIDE DEF s
  <2> QED
    BY <1>1, <2>1, StreamGrows
<1>5. NothingSkipped'
  <2>1. Cardinality(Ends(s, Orders)) \in Nat
    BY <1>1, EndsAreFinite
  <2>2. Cardinality(Ends(Append(s, b), Orders)) =
          Cardinality(Ends(s, Orders)) + IF IsLast(b) /\ b.frame.kind \in Orders THEN 1 ELSE 0
    BY <1>1, EndsGrow
  <2>3. owed' = Cardinality(Ends(Append(s, b), Orders))
    BY <1>1, <1>2, <2>1, <2>2
  <2> QED
    BY <1>3, <2>3, SkippedIsCounted
<1>6. LastFits'
  <2>1. /\ Append(s, b) # <<>>
        /\ Append(s, b)[Len(Append(s, b))] = b
    <3>1. /\ Append(s, b) \in Seq(Byte) /\ Append(s, b) # <<>>
          /\ Len(Append(s, b)) = Len(s) + 1 /\ Append(s, b)[Len(s) + 1] = b
      BY <1>1, AppendProperties
    <3> HIDE DEF s
    <3> QED
      BY <3>1
  <2> QED
    BY <1>2, <1>3, <2>1, BoundaryIsLast DEF LastFits
<1>7. StreamTypes'
  <2>1. Len(Append(inbox, b)) = Len(inbox) + 1 /\ Append(inbox, b) \in Seq(Byte)
    BY <1>1, AppendProperties DEF StreamTypes
  <2>2. Len(inbox) + 1 <= RxBuffer
    <3>1. Len(inbox) \in Nat /\ RxBuffer \in Nat
      BY <1>1, LenProperties, NetworkAssumption DEF StreamTypes, NetworkAssumption
    <3> QED
      BY <1>1, <3>1
  <2> QED
    BY <1>1, <1>2, <2>1, <2>2, BoundaryIsLast DEF StreamTypes
<1>8. LeadIsSmall' /\ Wholeness'
  BY <1>1 DEF StreamInv, LeadIsSmall, Lead, Wholeness, is_valid_message
<1> QED
  BY <1>3, <1>4, <1>5, <1>6, <1>7, <1>8 DEF StreamInv, InStep

(* A connection that has ended keeps what arrived; time changes nothing.   *)
LEMMA EndsInvariant ==
  ASSUME StreamInv, UNCHANGED <<receiverVars, connection_number, pc, inbox, owed>>,
         \/ UNCHANGED <<socket, last>>
         \/ socket' \in {"half", "lost", "closed"} /\ last' = Boundary
  PROVE  StreamInv'
<1>1. UNCHANGED <<receiver_number, received_message, is_message_received,
                  connection_number, pc, inbox, owed, Unparsed, Lead>>
  BY DEF receiverVars, Unparsed, Lead
<1>2. LeadIsSmall' /\ Wholeness' /\ InStep' /\ NothingSkipped'
  BY <1>1 DEF StreamInv, LeadIsSmall, Wholeness, is_valid_message, InStep, NothingSkipped
<1>3. StreamTypes' /\ LastFits'
  BY <1>1, BoundaryIsLast DEF StreamInv, StreamTypes, LastFits
<1> QED
  BY <1>2, <1>3 DEF StreamInv

LEMMA InitStream == Init => StreamInv
<1> SUFFICES ASSUME Init PROVE StreamInv
  OBVIOUS
<1>1. /\ 0 \in 0 .. NumberWrap - 1 /\ (0 - 0) % NumberWrap = 0 /\ 0 <= RxBuffer
  <2>1. NumberWrap \in Nat \ {0} /\ RxBuffer \in Nat
    BY NumberConstants, NetworkAssumption DEF NetworkAssumption
  <2>2. 0 \in 0 .. NumberWrap - 1
    BY <2>1
  <2> QED
    BY <2>1, <2>2, TimerRange
<1>2. <<>> \in Seq(Byte) /\ Len(<<>>) = 0 /\ <<>> \o <<>> = <<>>
  BY EmptySeq, ConcatEmptySeq
<1>3. Unparsed = <<>> /\ Lead = 0
  BY <1>1, <1>2 DEF Init, Unparsed, Lead
<1>4. StreamTypes
  BY <1>1, <1>2, BoundaryIsLast DEF Init, StreamTypes, Number
<1>5. LeadIsSmall /\ Wholeness /\ LastFits
  BY <1>3, BoundaryIsLast DEF Init, LeadIsSmall, Wholeness, LastFits
<1> QED
  BY <1>3, <1>4, <1>5, NothingIsStream, SkippedIsCounted DEF Init, StreamInv, InStep

LEMMA NextStream == StreamInv /\ [Next]_vars => StreamInv'
<1> SUFFICES ASSUME StreamInv, [Next]_vars PROVE StreamInv'
  OBVIOUS
<1>1. CASE keep_connection \/ CheckSilence \/ Poke
  BY <1>1, ConnectionSteps, ConnectionInvariant
<1>2. CASE Receive
  BY <1>2, ReceiverSteps, ReceiverInvariant
<1>3. CASE Order
  BY <1>3, OrderInvariant
<1>4. CASE Arrive
  BY <1>4, ArriveInvariant
<1>5. CASE ConnectionEnds
  BY <1>5, EndsInvariant DEF ConnectionEnds
<1>6. CASE Tick
  BY <1>6, EndsInvariant DEF Tick
<1>7. CASE UNCHANGED vars
  BY <1>7, EndsInvariant DEF vars, linkVars
<1> QED
  BY <1>1, <1>2, <1>3, <1>4, <1>5, <1>6, <1>7 DEF Next, Loop

-----------------------------------------------------------------------------
(* The receiver knows its place in the stream.                             *)
THEOREM StreamInvariance == Spec => []StreamInv
<1> QED
  BY InitStream, NextStream, PTL DEF Spec

(* NetworkReceiver::loop never loses the boundaries of the messages: what  *)
(* it has not parsed is a part of the stream from the beginning of a       *)
(* message, of this connection only.                                       *)
THEOREM StreamIsKept == Spec => []InStep
<1>1. StreamInv => InStep
  BY DEF StreamInv
<1> QED
  BY <1>1, StreamInvariance, PTL

(* main.ino is given every order that arrived whole, once and in order     *)
(* with the rejected messages and the pings between them, unless           *)
(* keep_connected replaces the connection.                                 *)
THEOREM OrdersAreDelivered == Spec => []NothingSkipped
<1>1. StreamInv => NothingSkipped
  BY DEF StreamInv
<1> QED
  BY <1>1, StreamInvariance, PTL

(* The rest of the types.                                                  *)
LinkTypes == blocked \in Nat /\ unheard \in Nat

LEMMA HandleHears ==
  ASSUME NEW s, Read(s)
  PROVE  unheard' = 0 \/ unheard' = unheard
<1>1. ASSUME NEW t, Handle(t) PROVE unheard' = 0 \/ unheard' = unheard
  BY <1>1 DEF Handle, heardVars
<1> QED
  BY <1>1 DEF Read, Wait, heardVars

(* Only time makes what is unheard older.                                  *)
LEMMA LoopHears == Loop => unheard' = 0 \/ unheard' = unheard
<1> SUFFICES ASSUME Loop PROVE unheard' = 0 \/ unheard' = unheard
  OBVIOUS
<1>1. CASE keep_connection \/ CheckSilence \/ Poke
  BY <1>1 DEF keep_connection, CheckSilence, Poke, PokeSent, Reconnect, KeepConnection,
              pokeVars, heardVars
<1>2. CASE Receive
  BY <1>2, HandleHears DEF Receive, heardVars
<1>3. CASE Order
  BY <1>3 DEF Order, pokeVars, heardVars
<1> QED
  BY <1>1, <1>2, <1>3 DEF Loop

LEMMA LinkStep == LinkTypes /\ [Next]_vars => LinkTypes'
<1> SUFFICES ASSUME LinkTypes, [Next]_vars PROVE LinkTypes'
  OBVIOUS
<1>1. CASE Loop
  <2>1. blocked' = 0 \/ blocked' = blocked
    BY <1>1 DEF Loop, keep_connection, CheckSilence, Poke, PokeSent, Reconnect,
                KeepConnection, Receive, Order, linkVars
  <2> QED
    BY <1>1, <2>1, LoopHears DEF LinkTypes
<1>2. CASE Arrive
  BY <1>2 DEF Arrive, pokeVars, heardVars, LinkTypes
<1>3. CASE ConnectionEnds
  BY <1>3 DEF ConnectionEnds, pokeVars, heardVars, LinkTypes
<1>4. CASE Tick
  BY <1>4 DEF Tick, LinkTypes
<1>5. CASE UNCHANGED vars
  BY <1>5 DEF vars, linkVars, pokeVars, heardVars, LinkTypes
<1> QED
  BY <1>1, <1>2, <1>3, <1>4, <1>5 DEF Next

(* Every value of the connection, its timers and the stream is of its      *)
(* type; the inbox never holds more than the buffers do.                   *)
THEOREM NetworkTypes == Spec => []TypeOK
<1>1. Init => LinkTypes
  BY DEF Init, LinkTypes
<1>2. Spec => []LinkTypes
  BY <1>1, LinkStep, PTL DEF Spec
<1>3. IInv /\ StreamInv /\ LinkTypes => TypeOK
  <2> SUFFICES ASSUME IInv, StreamInv, LinkTypes PROVE TypeOK
    OBVIOUS
  <2>1. Unparsed \in Seq(Byte) /\ owed = Cardinality(Ends(Unparsed, Orders))
    BY UnparsedType, SkippedIsCounted DEF StreamInv
  <2>2. owed \in Nat
    BY <2>1, EndsAreFinite
  <2> QED
    BY <2>2 DEF IInv, ClockTypes, StreamInv, StreamTypes, LinkTypes, TypeOK
<1> QED
  BY <1>2, <1>3, Invariance, StreamInvariance, PTL

-----------------------------------------------------------------------------
(* Rounds of the receiver                                                  *)

Header == PROTOCOl_MESSAGE_HEADER_LENGTH

(* The least that j rounds take off what was sent, and the longest they    *)
(* last.                                                                   *)
Headers(j) == j * Header
Passes(j) == j * MaxPass

LEMMA RoundConstants ==
  /\ Header \in Nat \ {0} /\ MaxPass \in Nat \ {0} /\ RxBuffer \in Nat
  /\ SendRounds \in Nat \ {0} /\ PingRounds \in Nat \ {0}
BY FramesAssumption, NetworkAssumption, RoundsAssumption
   DEF FramesAssumption, NetworkAssumption, RoundsAssumption, Header

LEMMA Products ==
  ASSUME NEW m \in Nat, NEW j \in Nat, NEW k \in Nat
  PROVE  /\ j * m \in Nat /\ 0 * m = 0 /\ (j + 1) * m = j * m + m
         /\ j <= k => j * m <= k * m
<1>1. j * m \in Nat /\ 0 * m = 0 /\ (j + 1) * m = j * m + m
  BY Z3
<1>2. ASSUME j <= k PROVE j * m <= k * m
  <2>1. PICK d \in Nat : k = j + d
    <3>1. k - j \in Nat /\ k = j + (k - j)
      BY <1>2
    <3> QED
      BY <3>1
  <2>2. (j + d) * m = j * m + d * m /\ d * m \in Nat
    BY Z3
  <2> QED
    BY <1>1, <2>1, <2>2
<1> QED
  BY <1>1, <1>2

LEMMA RoundsAdd ==
  ASSUME NEW j \in Nat, NEW k \in Nat
  PROVE  /\ Headers(j) \in Nat /\ Headers(0) = 0 /\ Headers(j + 1) = Headers(j) + Header
         /\ j <= k => Headers(j) <= Headers(k)
         /\ Passes(j) \in Nat /\ Passes(0) = 0 /\ Passes(j + 1) = Passes(j) + MaxPass
         /\ j <= k => Passes(j) <= Passes(k)
<1>1. Header \in Nat /\ MaxPass \in Nat
  BY RoundConstants
<1> QED
  BY <1>1, Products DEF Headers, Passes

LEMMA FrameBounds ==
  ASSUME NEW f \in Frame
  PROVE  /\ Size(f) \in Nat /\ Size(f) >= Header
         /\ Size(f) + Header <= RxBuffer + 1
         /\ Size(f) + Header <= Headers(SendRounds) + 2
         /\ Size(f) + RxBuffer <= Headers(PingRounds) + 1
<1>1. Size(f) \in Nat /\ Size(f) >= Header /\ Size(f) = Header + f.length
  BY FrameFields DEF Header
<1>2. f.length \in PayloadLength \cup {0}
  BY DEF Frame
<1> QED
  BY <1>1, <1>2, RoundsAssumption DEF RoundsAssumption, Headers, Header

LEMMA LeftFacts ==
  ASSUME StreamInv
  PROVE  /\ Held \in Seq(Byte) /\ inbox \in Seq(Byte) /\ Left \in Seq(Byte)
         /\ Len(Held) \in Nat /\ Len(inbox) \in Nat /\ Len(inbox) <= RxBuffer
         /\ Len(Left) = Len(Held) + Len(inbox)
         /\ Held # <<>> => Len(Held) < Size(Left[1].frame)
         /\ \E f \in Frame : Len(Held) < Size(f)
         /\ ~is_message_received => Left = Unparsed /\ IsStream(Left)
<1>1. Held \in Seq(Byte) /\ inbox \in Seq(Byte) /\ Len(inbox) <= RxBuffer
  BY EmptySeq DEF StreamInv, StreamTypes, Held
<1>2. /\ Left \in Seq(Byte) /\ Len(Held) \in Nat /\ Len(inbox) \in Nat
      /\ Len(Left) = Len(Held) + Len(inbox)
  BY <1>1, ConcatProperties, LenProperties DEF Left
<1>3. ASSUME Held # <<>>
      PROVE  Len(Held) < Size(Left[1].frame) /\ Left[1].frame \in Frame
  <2>1. Len(Held) < Size(Held[1].frame)
    BY <1>3 DEF StreamInv, Wholeness, Held
  <2>2. Left[1] = Held[1]
    BY <1>1, <1>3, StreamPrefix DEF Left
  <2>3. Held[1] \in Byte
    BY <1>1, <1>3, EmptySeq, ElementOfSeq
  <2> QED
    BY <2>1, <2>2, <2>3, ByteFields
<1>4. \E f \in Frame : Len(Held) < Size(f)
  <2>1. CASE Held = <<>>
    <3>1. Boundary.frame \in Frame
      BY BoundaryIsLast, ByteFields
    <3>2. 0 < Size(Boundary.frame) /\ Len(Held) = 0
      BY <2>1, <3>1, FrameBounds, RoundConstants, EmptySeq
    <3> QED
      BY <3>1, <3>2
  <2>2. CASE Held # <<>>
    BY <1>3, <2>2
  <2> QED
    BY <2>1, <2>2
<1>5. ~is_message_received => Left = Unparsed /\ IsStream(Left)
  BY DEF Left, Held, Unparsed, StreamInv, InStep
<1> QED
  BY <1>1, <1>2, <1>3, <1>4, <1>5

(* A round that finds no whole message, and one that takes the first.      *)
TakesNone ==
  /\ inbox' = <<>> /\ Left' = Left /\ Held' = Left
  /\ Left # <<>> => Len(Left) < Size(Left[1].frame)

Takes(n) ==
  /\ n \in Nat /\ n <= Len(Left) /\ n >= Header /\ Len(Held) < n
  /\ Held' = <<>> /\ Left' = inbox'
  /\ Len(inbox') = Len(Left) - n
  /\ \A k \in 1 .. Len(Left) - n : Left'[k] = Left[k + n]
  /\ \A k \in 1 .. n : IsLast(Left[k]) <=> k = n
  /\ Left[n].frame.kind = "serverPing" => unheard' = 0

LEMMA Rounds ==
  ASSUME StreamInv, Receive
  PROVE  /\ pc = "receive" /\ pc' = "order" /\ UNCHANGED <<lag, linkVars>>
         /\ unheard' = 0 \/ unheard' = unheard
         /\ TakesNone \/ \E n : Takes(n)
<1>1. /\ pc = "receive" /\ pc' = "order" /\ UNCHANGED <<lag, linkVars>>
      /\ receiver_number' = connection_number /\ connection_number' = connection_number
  BY DEF Receive, linkVars
<1>2. unheard' = 0 \/ unheard' = unheard
  BY LoopHears DEF Loop
<1>3. /\ Left = Unparsed /\ IsStream(Left) /\ Left \in Seq(Byte)
      /\ Len(Left) = Len(Held) + Len(inbox) /\ Len(Held) \in Nat /\ Len(inbox) \in Nat
      /\ Held # <<>> => Len(Held) < Size(Left[1].frame)
  <2>1. ~is_message_received
    BY <1>1 DEF StreamInv, Wholeness
  <2> QED
    BY <2>1, LeftFacts
<1>4. Waits \/ \E n : Cuts(n)
  BY ReceiverSteps DEF ReceiverStep
<1>5. CASE Waits
  <2>1. Held' = Left /\ inbox' = <<>>
    BY <1>1, <1>3, <1>5 DEF Waits, Held
  <2>2. Left' = Left
    BY <1>3, <2>1, ConcatEmptySeq DEF Left
  <2> QED
    BY <1>1, <1>2, <1>3, <1>5, <2>1, <2>2 DEF Waits, TakesNone
<1>6. ASSUME NEW n, Cuts(n) PROVE Takes(n)
  <2>1. Left # <<>> /\ n = Size(Left[1].frame) /\ n <= Len(Left)
    BY <1>3, <1>6 DEF Cuts
  <2>2. IsCutAt(Left, n)
    BY <1>3, <2>1, FrameIsCut
  <2>3. /\ n \in Nat /\ Left[1].frame \in Frame
        /\ IsFrame(SubSeq(Left, 1, n)) /\ SubSeq(Left, 1, n)[1] = Left[1]
    BY <2>2, ByteFields DEF IsCutAt
  <2>4. n >= Header /\ n # 0
    BY <2>1, <2>3, FrameBounds, RoundConstants
  <2>5. Len(Held) < n
    <3>1. Held = <<>> => Len(Held) = 0
      BY EmptySeq
    <3> QED
      BY <1>3, <2>1, <2>3, <2>4, <3>1
  <2>6. Held' = <<>> /\ inbox' = SubSeq(Left, n + 1, Len(Left))
    BY <1>3, <1>6 DEF Cuts, Held
  <2>7. /\ Len(inbox') = Len(Left) - n /\ inbox' \in Seq(Byte)
        /\ \A k \in 1 .. Len(Left) - n : inbox'[k] = Left[k + n]
        /\ \A k \in 1 .. n : IsLast(Left[k]) <=> k = n
    BY <2>2, <2>6 DEF IsCutAt
  <2>8. Left' = inbox'
    BY <2>6, <2>7, ConcatEmptySeq DEF Left
  <2>9. ASSUME Left[n].frame.kind = "serverPing" PROVE unheard' = 0
    <3>1. n \in 1 .. Len(Left) /\ n <= Size(Left[1].frame)
      BY <1>3, <2>1, <2>3, <2>4
    <3>2. Left[n].frame = Left[1].frame
      BY <1>3, <3>1, FirstFrame
    <3>3. PacketOf(SubSeq(Left, 1, n)) = Packet["serverPing"]
      BY <2>3, <2>9, <3>2 DEF PacketOf
    <3>4. handle_ping_message(SubSeq(Left, 1, n))
      BY <2>3, <3>3, PingIsHeard DEF handle_ping_message
    <3> QED
      BY <1>3, <1>6, <3>4 DEF Cuts
  <2> QED
    BY <2>1, <2>3, <2>4, <2>5, <2>6, <2>7, <2>8, <2>9 DEF Takes
<1> QED
  BY <1>1, <1>2, <1>4, <1>5, <1>6

-----------------------------------------------------------------------------
(* The server's send                                                       *)

(* What the message that is being sent still needs, and how much of it     *)
(* finds no room.                                                          *)
Rest == Size(last.frame) - last.at
Debt == Rest + Len(inbox) - RxBuffer

(* How long j rounds of the receiver may have taken by now, from within    *)
(* the one before.                                                         *)
After(j) == Passes(IF pc = "order" THEN j ELSE j + 1) + lag

(* j rounds have taken a message each since the send began to block.       *)
FreedBy(j) ==
  /\ j > 0 => Held = <<>> /\ Debt + Headers(j) <= Headers(SendRounds)
  /\ blocked <= After(j)

BlockedInTime ==
  IF IsLast(last) THEN blocked = 0
  ELSE \/ Debt <= 0 /\ blocked <= Passes(SendRounds + 1)
       \/ \E j \in 0 .. SendRounds - 1 : FreedBy(j)

LEMMA RestFacts ==
  ASSUME StreamInv
  PROVE  /\ Rest \in Nat /\ Rest < Size(last.frame) /\ last.frame \in Frame
         /\ IsLast(last) <=> Rest = 0
<1>1. last \in Byte
  BY DEF StreamInv, StreamTypes
<1>2. last.frame \in Frame /\ last.at \in 1 .. Size(last.frame) /\ Size(last.frame) \in Nat
  BY <1>1, ByteFields, FrameBounds
<1> QED
  BY <1>2 DEF Rest, IsLast

(* A send that begins, and one that has not blocked.                       *)
LEMMA SendBegins ==
  ASSUME TypeOK', blocked' = 0
  PROVE  BlockedInTime'
<1>1. 0 \in 0 .. SendRounds - 1 /\ lag' \in Nat
  BY RoundConstants DEF TypeOK
<1>2. Passes(0) \in Nat /\ Passes(0 + 1) \in Nat
  BY RoundsAdd
<1>3. FreedBy(0)'
  BY <1>1, <1>2 DEF FreedBy, After
<1> QED
  BY <1>1, <1>3 DEF BlockedInTime

(* Steps in which nothing is read or arrives.                              *)
LEMMA BlockedStays ==
  ASSUME StreamInv, TypeOK, TypeOK', BlockedInTime,
         UNCHANGED <<last, inbox, Held>>,
         \/ blocked' = blocked /\ lag' >= lag /\ pc # "order" /\ pc' # "order"
         \/ blocked' = blocked /\ lag' >= lag /\ pc' = pc
         \/ blocked' = blocked + 1 /\ lag' = lag + 1 /\ pc' = pc /\ SendBlocks
         \/ blocked' = blocked /\ pc = "order" /\ pc' # "order"
  PROVE  BlockedInTime'
<1>1. /\ blocked \in Nat /\ lag \in 0 .. MaxPass /\ lag' \in Nat
      /\ MaxPass \in Nat /\ SendRounds \in Nat
      /\ Debt' = Debt /\ (IsLast(last)' <=> IsLast(last))
  BY RoundConstants DEF TypeOK, Debt, Rest, IsLast
<1>2. CASE blocked' = 0
  BY <1>2, SendBegins
<1>3. CASE IsLast(last)
  <2>1. blocked' = blocked
    BY <1>3 DEF SendBlocks
  <2> QED
    BY <1>1, <1>3, <2>1 DEF BlockedInTime
<1>4. CASE ~IsLast(last) /\ Debt <= 0 /\ blocked <= Passes(SendRounds + 1)
  <2>1. Rest \in Nat /\ Rest # 0 /\ Len(inbox) \in Nat /\ RxBuffer \in Nat
    BY <1>4, RestFacts, LeftFacts, RoundConstants
  <2>2. ~SendBlocks
    BY <1>4, <2>1 DEF SendBlocks, Debt
  <2> QED
    BY <1>1, <1>4, <2>2 DEF BlockedInTime
<1>5. ASSUME ~IsLast(last), NEW j \in 0 .. SendRounds - 1, FreedBy(j)
      PROVE  BlockedInTime'
  <2>1. /\ Passes(j) \in Nat /\ Passes(j + 1) = Passes(j) + MaxPass
    BY <1>1, RoundsAdd
  <2>2. blocked' <= After(j)'
    BY <1>1, <1>5, <2>1 DEF FreedBy, After
  <2>3. FreedBy(j)'
    BY <1>1, <1>5, <2>2 DEF FreedBy
  <2> QED
    BY <1>1, <1>5, <2>3 DEF BlockedInTime
<1> QED
  BY <1>3, <1>4, <1>5 DEF BlockedInTime

(* A round of the receiver pays a header, or all there is.                 *)
LEMMA BlockedIsRead ==
  ASSUME StreamInv, TypeOK, TypeOK', BlockedInTime, Receive
  PROVE  BlockedInTime'
<1>1. /\ pc = "receive" /\ pc' = "order" /\ UNCHANGED <<lag, last, blocked>>
      /\ TakesNone \/ \E n : Takes(n)
  BY Rounds DEF linkVars
<1>2. /\ blocked \in Nat /\ lag \in 0 .. MaxPass /\ MaxPass \in Nat
      /\ SendRounds \in Nat \ {0} /\ Header \in Nat \ {0} /\ RxBuffer \in Nat
      /\ Len(Held) \in Nat /\ Len(inbox) \in Nat /\ Len(Left) = Len(Held) + Len(inbox)
      /\ Rest' = Rest /\ Rest \in Nat /\ Rest < Size(last.frame) /\ last.frame \in Frame
      /\ IsLast(last)' <=> IsLast(last)
  BY <1>1, RoundConstants, LeftFacts, RestFacts DEF TypeOK, Rest, IsLast
<1>3. CASE IsLast(last)
  BY <1>1, <1>2, <1>3 DEF BlockedInTime
<1>4. ASSUME ~IsLast(last) PROVE blocked <= Passes(SendRounds + 1)
  <2>1. ASSUME NEW j \in 0 .. SendRounds - 1, FreedBy(j)
        PROVE  blocked <= Passes(SendRounds + 1)
    <3>1. /\ Passes(j + 1) \in Nat /\ Passes(j + 1) <= Passes(SendRounds)
          /\ Passes(SendRounds + 1) = Passes(SendRounds) + MaxPass /\ Passes(SendRounds) \in Nat
      <4>1. j + 1 \in Nat /\ j + 1 <= SendRounds
        BY <1>2
      <4> QED
        BY <1>2, <4>1, RoundsAdd
    <3>2. blocked <= Passes(j + 1) + lag
      BY <1>1, <2>1 DEF FreedBy, After
    <3> QED
      BY <1>2, <3>1, <3>2
  <2> QED
    BY <1>4, <2>1 DEF BlockedInTime
<1>5. ASSUME ~IsLast(last), Debt' <= 0 PROVE BlockedInTime'
  BY <1>1, <1>2, <1>4, <1>5 DEF BlockedInTime
<1>6. CASE ~IsLast(last) /\ TakesNone
  <2>1. Len(inbox') = 0
    BY <1>6, EmptySeq DEF TakesNone
  <2>2. Debt' = Rest - RxBuffer
    BY <1>2, <2>1 DEF Debt
  <2>3. Size(last.frame) + Header <= RxBuffer + 1 /\ Size(last.frame) \in Nat
    BY <1>2, FrameBounds
  <2> QED
    BY <1>2, <1>5, <1>6, <2>2, <2>3
<1>7. ASSUME ~IsLast(last), NEW n, Takes(n) PROVE BlockedInTime'
  <2>1. /\ n \in Nat /\ n >= Header /\ Len(Held) < n /\ Held' = <<>>
        /\ Len(inbox') = Len(Left) - n
    BY <1>7 DEF Takes
  <2>2. Debt' = Debt + Len(Held) - n /\ Debt \in Int
    BY <1>2, <2>1 DEF Debt
  <2>3. CASE Debt <= 0
    BY <1>2, <1>5, <1>7, <2>1, <2>2, <2>3
  <2>4. ASSUME NEW j \in 0 .. SendRounds - 1, FreedBy(j) PROVE BlockedInTime'
    <3>1. /\ Headers(0) = 0 /\ Headers(j + 1) = Headers(j) + Header /\ Headers(j) \in Nat
          /\ Headers(SendRounds) \in Nat
      <4>1. j \in Nat /\ SendRounds \in Nat
        BY <1>2
      <4> QED
        BY <4>1, RoundsAdd
    <3>2. Debt' + Headers(j + 1) <= Headers(SendRounds)
      <4>1. CASE j = 0
        <5>1. Len(inbox) <= RxBuffer /\ Size(last.frame) \in Nat
              /\ Size(last.frame) + Header <= Headers(SendRounds) + 2
          BY <1>2, LeftFacts, FrameBounds
        <5>2. Debt' <= Rest - 1
          BY <1>2, <2>1, <2>2, <5>1 DEF Debt
        <5>3. Headers(j + 1) = Header
          BY <1>2, <3>1, <4>1
        <5>4. Rest - 1 + Header <= Headers(SendRounds)
          BY <1>2, <3>1, <5>1
        <5>5. Debt' \in Int
          BY <1>2, <2>1, <2>2
        <5> QED
          BY <1>2, <3>1, <5>2, <5>3, <5>4, <5>5
      <4>2. CASE j > 0
        <5>1. Len(Held) = 0 /\ Debt + Headers(j) <= Headers(SendRounds)
          BY <2>4, <4>2, EmptySeq DEF FreedBy
        <5> QED
          BY <1>2, <2>1, <2>2, <3>1, <5>1
      <4> QED
        BY <4>1, <4>2
    <3>3. CASE j + 1 = SendRounds
      <4>1. Debt' <= 0
        BY <1>2, <2>1, <2>2, <3>1, <3>2, <3>3
      <4> QED
        BY <1>5, <1>7, <4>1
    <3>4. CASE j + 1 # SendRounds
      <4>1. j + 1 \in 0 .. SendRounds - 1
        BY <1>2, <3>4
      <4>2. blocked' <= After(j + 1)'
        BY <1>1, <2>4 DEF FreedBy, After
      <4>3. FreedBy(j + 1)'
        BY <2>1, <3>2, <4>2 DEF FreedBy
      <4> QED
        BY <1>1, <1>2, <1>7, <4>1, <4>3 DEF BlockedInTime
    <3> QED
      BY <3>3, <3>4
  <2> QED
    BY <1>7, <2>3, <2>4 DEF BlockedInTime
<1> QED
  BY <1>1, <1>3, <1>6, <1>7

LEMMA BlockedArrives ==
  ASSUME StreamInv, TypeOK, TypeOK', BlockedInTime, Arrive
  PROVE  BlockedInTime'
<1>1. PICK b \in Byte :
        /\ Follows(last, b) /\ inbox' = Append(inbox, b)
        /\ last' = IF IsLast(b) THEN Boundary ELSE b
        /\ blocked' = IF IsLast(b) THEN 0 ELSE blocked
  BY DEF Arrive
<1>2. UNCHANGED <<pc, lag, Held>>
  BY DEF Arrive, receiverVars, Held
<1>3. CASE IsLast(b) \/ IsLast(last)
  <2>1. blocked' = 0
    BY <1>1, <1>3 DEF BlockedInTime
  <2> QED
    BY <2>1, SendBegins
<1>4. CASE ~IsLast(b) /\ ~IsLast(last)
  <2>1. /\ b.frame = last.frame /\ b.at = last.at + 1 /\ last' = b /\ blocked' = blocked
        /\ last.at \in Nat /\ Size(last.frame) \in Nat
    <3>1. last.frame \in Frame /\ last.at \in 1 .. Size(last.frame)
      BY ByteFields DEF TypeOK
    <3> QED
      BY <1>1, <1>4, <3>1, FrameFields DEF Follows
  <2>2. Len(inbox') = Len(inbox) + 1 /\ Len(inbox) \in Nat /\ RxBuffer \in Nat
    BY <1>1, LeftFacts, AppendProperties, RoundConstants
  <2>3. Debt' = Debt /\ ~IsLast(last)'
    BY <1>4, <2>1, <2>2 DEF Debt, Rest, IsLast
  <2> QED
    BY <1>2, <1>4, <2>1, <2>3 DEF BlockedInTime, FreedBy, After
<1> QED
  BY <1>3, <1>4

LEMMA BlockedStep ==
  ASSUME StreamInv, TypeOK, TypeOK', BlockedInTime, [Next]_vars
  PROVE  BlockedInTime'
<1>1. lag \in 0 .. MaxPass
  BY DEF TypeOK
<1>2. CASE Tick
  <2>1. UNCHANGED <<last, inbox, Held, pc>> /\ lag' = lag + 1
    BY <1>2 DEF Tick, receiverVars, Held
  <2>2. blocked' = IF SendBlocks THEN blocked + 1 ELSE blocked
    BY <1>2 DEF Tick
  <2> QED
    BY <1>1, <2>1, <2>2, BlockedStays
<1>3. CASE keep_connection \/ CheckSilence \/ Poke
  <2>1. /\ UNCHANGED <<receiverVars, lag>> /\ pc # "order" /\ pc' # "order"
        /\ blocked' = 0 \/ UNCHANGED <<connection_number, last, blocked, inbox>>
    BY <1>3 DEF keep_connection, CheckSilence, Poke, PokeSent, Reconnect, KeepConnection, linkVars
  <2>2. CASE blocked' = 0
    BY <2>2, SendBegins
  <2>3. CASE UNCHANGED <<connection_number, last, blocked, inbox>>
    <3>1. UNCHANGED Held
      BY <2>1, <2>3 DEF receiverVars, Held
    <3> QED
      BY <1>1, <2>1, <2>3, <3>1, BlockedStays
  <2> QED
    BY <2>1, <2>2, <2>3
<1>4. CASE Receive
  BY <1>4, BlockedIsRead
<1>5. CASE Order
  <2>1. /\ pc = "order" /\ pc' # "order"
        /\ UNCHANGED <<connection_number, receiver_number, last, blocked, inbox>>
    BY <1>5 DEF Order, linkVars
  <2>2. Held' = Held
    BY <1>5, <2>1 DEF Order, receive, Drop, Held
  <2> QED
    BY <2>1, <2>2, BlockedStays
<1>6. CASE Arrive
  BY <1>6, BlockedArrives
<1>7. CASE ConnectionEnds
  BY <1>7, SendBegins DEF ConnectionEnds
<1>8. CASE UNCHANGED vars
  <2>1. UNCHANGED <<last, inbox, Held, blocked, lag, pc>>
    BY <1>8 DEF vars, linkVars, receiverVars, Held
  <2> QED
    BY <1>1, <2>1, BlockedStays
<1> QED
  BY <1>2, <1>3, <1>4, <1>5, <1>6, <1>7, <1>8 DEF Next, Loop

(* A send of the server, which holds new_message_mutex, waits for as many  *)
(* rounds of the Arduino as make room for a message, and for the one that  *)
(* is under way.                                                           *)
THEOREM SendsAreReleased == Spec => []SendIsReleased
<1>1. Init => BlockedInTime
  BY BoundaryIsLast DEF Init, BlockedInTime
<1>2. StreamInv /\ TypeOK /\ TypeOK' /\ BlockedInTime /\ [Next]_vars => BlockedInTime'
  BY BlockedStep
<1>3. TypeOK /\ BlockedInTime => SendIsReleased
  <2> SUFFICES ASSUME TypeOK, BlockedInTime PROVE blocked <= Passes(SendRounds + 1)
    BY DEF SendIsReleased, Passes
  <2>1. /\ lag \in 0 .. MaxPass /\ MaxPass \in Nat /\ SendRounds \in Nat \ {0}
        /\ blocked \in Nat
    BY RoundConstants DEF TypeOK
  <2>2. CASE blocked = 0
    <3>1. Passes(SendRounds + 1) \in Nat
      BY <2>1, RoundsAdd
    <3> QED
      BY <2>2, <3>1
  <2>3. ASSUME NEW j \in 0 .. SendRounds - 1, FreedBy(j)
        PROVE  blocked <= Passes(SendRounds + 1)
    <3>1. /\ j + 1 \in Nat /\ j \in Nat /\ j + 1 <= SendRounds
      BY <2>1
    <3>2. /\ Passes(j) \in Nat /\ Passes(j + 1) = Passes(j) + MaxPass
          /\ Passes(j + 1) <= Passes(SendRounds) /\ Passes(SendRounds) \in Nat
          /\ Passes(SendRounds + 1) = Passes(SendRounds) + MaxPass
      BY <2>1, <3>1, RoundsAdd
    <3>3. blocked <= Passes(IF pc = "order" THEN j ELSE j + 1) + lag
      BY <2>3 DEF FreedBy, After
    <3> QED
      BY <2>1, <3>2, <3>3
  <2> QED
    BY <2>2, <2>3 DEF BlockedInTime
<1> QED
  BY <1>1, <1>2, <1>3, NetworkTypes, StreamInvariance, PTL DEF Spec

-----------------------------------------------------------------------------
(* The pings of the server                                                 *)

(* A ping is before the end of what the rounds left can read.              *)
Queued(j) ==
  /\ \E k \in 1 .. Len(Left) :
       /\ IsLast(Left[k]) /\ Left[k].frame.kind = "serverPing"
       /\ k + Headers(j) <= Headers(PingRounds)
  /\ unheard <= After(j)

HeardInTime == unheard = 0 \/ \E j \in Nat : Queued(j)

LEMMA AfterFacts ==
  ASSUME TypeOK, NEW j \in Nat
  PROVE  /\ Passes(j) \in Nat /\ Passes(j + 1) = Passes(j) + MaxPass
         /\ After(j) = (IF pc = "order" THEN Passes(j) ELSE Passes(j) + MaxPass) + lag
         /\ After(j) \in Nat /\ lag \in 0 .. MaxPass /\ MaxPass \in Nat
         /\ unheard \in Nat
<1>1. Passes(j) \in Nat /\ Passes(j + 1) = Passes(j) + MaxPass
  BY RoundsAdd
<1>2. lag \in 0 .. MaxPass /\ MaxPass \in Nat /\ unheard \in Nat
  BY RoundConstants DEF TypeOK
<1> QED
  BY <1>1, <1>2 DEF After

(* How much there is to read at most.                                      *)
LEMMA LeftIsReadable ==
  ASSUME StreamInv
  PROVE  Len(Left) \in Nat /\ Len(Left) <= Headers(PingRounds) /\ Headers(PingRounds) \in Nat
<1>1. /\ Len(Held) \in Nat /\ Len(inbox) \in Nat /\ Len(inbox) <= RxBuffer
      /\ Len(Left) = Len(Held) + Len(inbox)
  BY LeftFacts
<1>2. PICK f \in Frame : Len(Held) < Size(f)
  BY LeftFacts
<1>3. Size(f) \in Nat /\ Size(f) + RxBuffer <= Headers(PingRounds) + 1
  BY FrameBounds
<1>4. RxBuffer \in Nat /\ Headers(PingRounds) \in Nat
  BY RoundConstants, RoundsAdd
<1> QED
  BY <1>1, <1>2, <1>3, <1>4

(* Nothing is read, and what arrives comes last.                           *)
LEMMA QueuedStays ==
  ASSUME TypeOK, TypeOK', NEW j \in Nat, Queued(j),
         Len(Left) \in Nat, Len(Left') \in Nat, Len(Left) <= Len(Left'),
         \A k \in 1 .. Len(Left) : Left'[k] = Left[k],
         unheard' = unheard,
         \/ lag' = lag /\ pc' = pc
         \/ lag' = lag /\ pc # "order" /\ pc' # "order"
         \/ pc = "order" /\ pc' # "order"
  PROVE  HeardInTime'
<1>1. PICK k \in 1 .. Len(Left) :
        /\ IsLast(Left[k]) /\ Left[k].frame.kind = "serverPing"
        /\ k + Headers(j) <= Headers(PingRounds)
  BY DEF Queued
<1>2. k \in 1 .. Len(Left') /\ Left'[k] = Left[k]
  BY <1>1
<1>3. After(j) \in Nat /\ After(j)' \in Nat /\ After(j) <= After(j)'
  <2>1. /\ Passes(j) \in Nat /\ Passes(j + 1) = Passes(j) + MaxPass
        /\ lag \in 0 .. MaxPass /\ MaxPass \in Nat
    BY AfterFacts
  <2>2. lag' \in Nat
    BY DEF TypeOK
  <2> QED
    BY <2>1, <2>2 DEF After
<1>4. unheard' <= After(j)'
  <2>1. unheard <= After(j) /\ unheard \in Nat /\ unheard' = unheard
    BY AfterFacts DEF Queued
  <2>2. \A u, a, b \in Nat : u <= a /\ a <= b => u <= b
    OBVIOUS
  <2> QED
    BY <1>3, <2>1, <2>2
<1>5. Queued(j)'
  BY <1>1, <1>2, <1>4 DEF Queued, IsLast
<1> QED
  BY <1>5 DEF HeardInTime

LEMMA HeardTicks ==
  ASSUME StreamInv, TypeOK, TypeOK', HeardInTime, Tick
  PROVE  HeardInTime'
<1>1. /\ UNCHANGED <<pc, Left>> /\ lag' = lag + 1
      /\ unheard' = IF PingWaits THEN unheard + 1 ELSE unheard
  BY DEF Tick, receiverVars, Held, Left
<1>2. ASSUME NEW j \in Nat
      PROVE  /\ After(j) \in Nat /\ After(j)' = After(j) + 1
             /\ Passes(j) \in Nat /\ After(j)' >= 1
  <2>1. /\ Passes(j) \in Nat /\ Passes(j + 1) = Passes(j) + MaxPass
        /\ lag \in 0 .. MaxPass /\ MaxPass \in Nat
    BY AfterFacts
  <2> QED
    BY <1>1, <2>1 DEF After
<1>3. Left \in Seq(Byte) /\ DOMAIN Left = 1 .. Len(Left)
  BY LeftFacts, LenProperties
<1>4. ASSUME NEW j \in Nat, Queued(j) PROVE HeardInTime'
  <2>1. unheard' <= After(j)'
    <3>1. unheard <= After(j) /\ unheard \in Nat
      BY <1>4, AfterFacts DEF Queued
    <3> QED
      BY <1>1, <1>2, <3>1
  <2>2. Queued(j)'
    BY <1>1, <1>4, <2>1 DEF Queued, IsLast
  <2> QED
    BY <2>2 DEF HeardInTime
<1>5. CASE unheard = 0 /\ ~PingWaits
  BY <1>1, <1>5 DEF HeardInTime
<1>6. CASE unheard = 0 /\ PingWaits
  <2>1. PICK k \in 1 .. Len(Left) : IsLast(Left[k]) /\ Left[k].frame.kind = "serverPing"
    BY <1>3, <1>6 DEF PingWaits
  <2>2. k + Headers(0) <= Headers(PingRounds)
    BY LeftIsReadable, RoundsAdd
  <2>3. unheard' <= After(0)'
    BY <1>1, <1>2, <1>6
  <2>4. Queued(0)'
    BY <1>1, <2>1, <2>2, <2>3 DEF Queued, IsLast
  <2> QED
    BY <2>4 DEF HeardInTime
<1> QED
  BY <1>4, <1>5, <1>6 DEF HeardInTime

(* A round takes what is before the ping, if not the ping.                 *)
LEMMA PingIsRead ==
  ASSUME StreamInv, TypeOK, TypeOK', HeardInTime, Receive
  PROVE  HeardInTime'
<1>1. /\ pc = "receive" /\ pc' = "order" /\ lag' = lag
      /\ unheard' = 0 \/ unheard' = unheard
      /\ TakesNone \/ \E n : Takes(n)
  BY Rounds
<1>2. Left \in Seq(Byte) /\ Len(Left) \in Nat /\ Header \in Nat \ {0} /\ Headers(PingRounds) \in Nat
  BY LeftFacts, LeftIsReadable, RoundConstants
<1>3. CASE unheard' = 0
  BY <1>3 DEF HeardInTime
<1>4. ASSUME unheard' = unheard, unheard' # 0, NEW j \in Nat, Queued(j) PROVE HeardInTime'
  <2>1. PICK k \in 1 .. Len(Left) :
          /\ IsLast(Left[k]) /\ Left[k].frame.kind = "serverPing"
          /\ k + Headers(j) <= Headers(PingRounds)
    BY <1>4 DEF Queued
  <2>2. ~TakesNone
    <3> SUFFICES ASSUME TakesNone PROVE FALSE
      OBVIOUS
    <3>1. Left # <<>> /\ Left[1] \in Byte
      BY <1>2, <2>1, EmptySeq, ElementOfSeq
    <3>2. k <= Size(Left[1].frame) /\ k # Size(Left[1].frame)
      <4>1. Size(Left[1].frame) \in Nat /\ Len(Left) < Size(Left[1].frame)
        BY <3>1, ByteFields, FrameBounds DEF TakesNone
      <4> QED
        BY <1>2, <4>1
    <3>3. IsStream(Left)
      BY <1>1, LeftFacts DEF StreamInv, Wholeness
    <3>4. k \in 1 .. Len(Left) /\ k <= Size(Left[1].frame)
      BY <3>2
    <3>5. Left[k].frame = Left[1].frame /\ Left[k].at = k
      BY <1>2, <3>3, <3>4, FirstFrame
    <3> QED
      BY <2>1, <3>2, <3>5 DEF IsLast
  <2>3. PICK n : Takes(n)
    BY <1>1, <2>2
  <2>4. n < k
    <3>1. k # n
      BY <1>4, <2>1, <2>3 DEF Takes
    <3>2. k \notin 1 .. n
      BY <2>1, <2>3, <3>1 DEF Takes
    <3> QED
      BY <1>2, <2>3, <3>2 DEF Takes
  <2>5. /\ Len(Left') = Len(Left) - n /\ n \in Nat /\ n >= Header
        /\ \A i \in 1 .. Len(Left) - n : Left'[i] = Left[i + n]
    BY <2>3 DEF Takes
  <2>6. /\ k - n \in 1 .. Len(Left) - n /\ Left'[k - n] = Left[k]
        /\ (k - n) + Headers(j + 1) <= Headers(PingRounds)
    <3>1. k - n \in 1 .. Len(Left) - n /\ (k - n) + n = k
      BY <1>2, <2>4, <2>5
    <3>2. Headers(j + 1) = Headers(j) + Header /\ Headers(j) \in Nat
      BY RoundsAdd
    <3>3. (k - n) + Headers(j + 1) <= Headers(PingRounds)
      BY <1>2, <2>1, <2>5, <3>2
    <3> QED
      BY <2>5, <3>1, <3>3
  <2>7. unheard' <= After(j + 1)'
    <3>1. After(j + 1)' = After(j)
      BY <1>1 DEF After
    <3> QED
      BY <1>4, <3>1 DEF Queued
  <2>8. Queued(j + 1)'
    BY <2>1, <2>5, <2>6, <2>7 DEF Queued, IsLast
  <2> QED
    BY <2>8 DEF HeardInTime
<1> QED
  BY <1>1, <1>3, <1>4 DEF HeardInTime

LEMMA HeardArrives ==
  ASSUME StreamInv, TypeOK, TypeOK', HeardInTime, Arrive
  PROVE  HeardInTime'
<1>1. PICK b \in Byte : inbox' = Append(inbox, b)
  BY DEF Arrive
<1>2. UNCHANGED <<unheard, lag, pc, Held>>
  BY DEF Arrive, pokeVars, heardVars, receiverVars, Held
<1>3. /\ Len(Left) \in Nat /\ Len(Left') = Len(Left) + 1
      /\ \A k \in 1 .. Len(Left) : Left'[k] = Left[k]
  <2>1. Held \in Seq(Byte) /\ inbox \in Seq(Byte) /\ Left \in Seq(Byte) /\ Len(Left) \in Nat
    BY LeftFacts, LeftIsReadable
  <2>2. Left' = Append(Left, b)
    BY <1>1, <1>2, <2>1, BackGrows DEF Left
  <2> QED
    BY <1>1, <2>1, <2>2, AppendProperties
<1>4. Len(Left') \in Nat /\ Len(Left) <= Len(Left')
  BY <1>3
<1> QED
  BY <1>2, <1>3, <1>4, QueuedStays DEF HeardInTime

LEMMA HeardStep ==
  ASSUME StreamInv, TypeOK, TypeOK', HeardInTime, [Next]_vars
  PROVE  HeardInTime'
<1>1. ASSUME UNCHANGED <<unheard, Left>>,
             \/ lag' = lag /\ pc' = pc
             \/ lag' = lag /\ pc # "order" /\ pc' # "order"
             \/ pc = "order" /\ pc' # "order"
      PROVE  HeardInTime'
  BY <1>1, LeftIsReadable, QueuedStays DEF HeardInTime
<1>2. CASE Tick
  BY <1>2, HeardTicks
<1>3. CASE keep_connection \/ CheckSilence \/ Poke
  <2>1. /\ UNCHANGED <<receiverVars, lag>> /\ pc # "order" /\ pc' # "order"
        /\ unheard' = 0 \/ UNCHANGED <<connection_number, inbox, unheard>>
    BY <1>3 DEF keep_connection, CheckSilence, Poke, PokeSent, Reconnect, KeepConnection,
                linkVars, pokeVars, heardVars
  <2>2. UNCHANGED <<connection_number, inbox>> => UNCHANGED Left
    BY <2>1 DEF receiverVars, Held, Left
  <2> QED
    BY <1>1, <2>1, <2>2 DEF HeardInTime
<1>4. CASE Receive
  BY <1>4, PingIsRead
<1>5. CASE Order
  <2>1. /\ pc = "order" /\ pc' # "order"
        /\ UNCHANGED <<receiver_number, connection_number, inbox, unheard>>
    BY <1>5 DEF Order, linkVars, pokeVars, heardVars
  <2>2. Held' = Held
    BY <1>5, <2>1 DEF Order, receive, Drop, Held
  <2> QED
    BY <1>1, <2>1, <2>2 DEF Left
<1>6. CASE Arrive
  BY <1>6, HeardArrives
<1>7. CASE ConnectionEnds \/ UNCHANGED vars
  <2>1. UNCHANGED <<unheard, lag, pc, connection_number, inbox, receiverVars>>
    BY <1>7 DEF ConnectionEnds, vars, linkVars, pokeVars, heardVars
  <2>2. UNCHANGED Left
    BY <2>1 DEF receiverVars, Held, Left
  <2> QED
    BY <1>1, <2>1, <2>2
<1> QED
  BY <1>2, <1>3, <1>4, <1>5, <1>6, <1>7 DEF Next, Loop

(* A ping of the server that has arrived whole and with its own digest is  *)
(* heard, or the one after it, within the rounds of NetworkReceiver::loop  *)
(* that read all the buffers hold and the one that is under way.           *)
THEOREM PingsAreRead == Spec => []PingsAreHeard
<1>1. Init => HeardInTime
  BY DEF Init, HeardInTime
<1>2. StreamInv /\ TypeOK /\ TypeOK' /\ HeardInTime /\ [Next]_vars => HeardInTime'
  BY HeardStep
<1>3. StreamInv /\ TypeOK /\ HeardInTime => PingsAreHeard
  <2> SUFFICES ASSUME StreamInv, TypeOK, HeardInTime PROVE unheard <= Passes(PingRounds + 1)
    BY DEF PingsAreHeard, Passes
  <2>1. PingRounds \in Nat \ {0} /\ MaxPass \in Nat
    BY RoundConstants
  <2>2. CASE unheard = 0
    <3>1. Passes(PingRounds + 1) \in Nat
      BY <2>1, RoundsAdd
    <3> QED
      BY <2>2, <3>1
  <2>3. ASSUME NEW j \in Nat, Queued(j) PROVE unheard <= Passes(PingRounds + 1)
    <3>1. PICK k \in 1 .. Len(Left) : k + Headers(j) <= Headers(PingRounds)
      BY <2>3 DEF Queued
    <3>2. k \in Nat \ {0} /\ Headers(j) \in Nat /\ Headers(PingRounds) \in Nat
      <4>1. k \in Nat \ {0}
        BY LeftIsReadable
      <4> QED
        BY <2>1, <4>1, RoundsAdd
    <3>3. Headers(j) < Headers(PingRounds)
      BY <3>1, <3>2
    <3>4. j + 1 \in Nat /\ j + 1 <= PingRounds
      <4>1. PingRounds <= j => Headers(PingRounds) <= Headers(j)
        BY <2>1, RoundsAdd
      <4> QED
        BY <2>1, <3>2, <3>3, <4>1
    <3>5. /\ Passes(j + 1) \in Nat /\ Passes(j + 1) <= Passes(PingRounds)
          /\ Passes(PingRounds) \in Nat /\ Passes(PingRounds + 1) = Passes(PingRounds) + MaxPass
      BY <2>1, <3>4, RoundsAdd
    <3>6. /\ After(j) <= Passes(j + 1) + MaxPass /\ After(j) \in Nat /\ unheard \in Nat
      <4>1. /\ Passes(j) \in Nat /\ Passes(j + 1) = Passes(j) + MaxPass
            /\ lag \in 0 .. MaxPass /\ MaxPass \in Nat
            /\ After(j) \in Nat /\ unheard \in Nat
        BY AfterFacts
      <4>2. After(j) = Passes(IF pc = "order" THEN j ELSE j + 1) + lag
        BY DEF After
      <4> QED
        BY <4>1, <4>2
    <3> QED
      BY <2>1, <2>3, <3>5, <3>6 DEF Queued
  <2> QED
    BY <2>2, <2>3 DEF HeardInTime
<1> QED
  BY <1>1, <1>2, <1>3, NetworkTypes, StreamInvariance, PTL DEF Spec

(* keep_connected gives no connection up for silence that was made or      *)
(* heard within the limit, wherever the clock wraps.                       *)
THEOREM HeardStays == Spec => HeardIsKept
<1>1. IInv /\ [Next]_vars
        => [pc = "silence" /\ silent <= PROTOCOl_RECIEVE_POKE_TIME
              => UNCHANGED connection_number]_vars
  <2> SUFFICES ASSUME IInv, [Next]_vars, pc = "silence",
                      silent <= PROTOCOl_RECIEVE_POKE_TIME
               PROVE  UNCHANGED connection_number
    OBVIOUS
  <2>1. ~(Passed(last_poke_from_server) > PROTOCOl_RECIEVE_POKE_TIME)
    <3>1. silent \in Nat /\ Passed(last_poke_from_server) = silent
      BY DEF IInv, ClockTypes, PokesAreExact
    <3> QED
      BY <3>1, Constants
  <2> QED
    BY <2>1 DEF Next, Loop, Tick, keep_connection, CheckSilence, Poke, Receive, Order,
         Arrive, ConnectionEnds, KeepConnection, vars, linkVars
<1> QED
  BY <1>1, Invariance, PTL DEF Spec, HeardIsKept

=============================================================================
