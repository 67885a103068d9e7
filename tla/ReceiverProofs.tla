--------------------------- MODULE ReceiverProofs ---------------------------
(***************************************************************************)
(* Theorems about DeviceReceiver for any lengths of messages, time limits  *)
(* and buffers that satisfy its assumptions: receive_message cuts what     *)
(* arrives into the messages that were written, a device that is silent is *)
(* given up in time and a punctual one is not.                             *)
(***************************************************************************)
EXTENDS DeviceReceiver, ProtocolProofs

H == PROTOCOl_MESSAGE_HEADER_LENGTH

(* The bytes of the message before the part that is being read.            *)
Before == IF part = "header" THEN 0 ELSE H

(* receive_message knows how much of its part it has, and a part without   *)
(* bytes is the only one that can be complete when recv is called.         *)
Counts ==
  /\ recvPc = "recv" =>
       /\ recv_counter <= recv_length /\ (recv_length > 0 => recv_counter < recv_length)
       /\ Len(message) = Before + recv_counter
  /\ recvPc = "handle" => part = "payload" /\ Len(message) = H + payload_length
  /\ recvPc \in {"recv", "handle"} /\ part = "payload" /\ ~torn =>
       payload_length = message[1].frame.length

(* What the device writes next follows what has not been handled.          *)
LastFits ==
  ~torn /\ recvPc # "ended" /\ peer = "open" =>
    IF writing # <<>> /\ written > 0
    THEN /\ Unhandled # <<>>
         /\ Unhandled[Len(Unhandled)] = [frame |-> writing[1], at |-> written]
    ELSE Unhandled # <<>> => IsLast(Unhandled[Len(Unhandled)])

(* A frame that is being written is not yet written whole.                 *)
InFrame == writing # <<>> => written < Size(writing[1])

(* Everything that is healthy is also verified, to the last byte.          *)
Signed ==
  healthy =>
    /\ ~torn
    /\ writing # <<>> => IsVerified(Packet[writing[1].kind])
    /\ recvPc # "ended" =>
         \A k \in 1 .. Len(Unhandled) : IsVerified(Packet[Unhandled[k].frame.kind])

StreamInv ==
  TypeOK /\ Counts /\ InFrame /\ LastFits /\ Signed /\ InStep /\ NothingSkipped

LEMMA Constants ==
  /\ H \in Nat \ {0} /\ CounterWrap \in Nat \ {0} /\ H < CounterWrap - 1
  /\ 0 \in PayloadLength \cup {0} /\ PayloadLength \subseteq Nat
  /\ \A n \in PayloadLength \cup {0} : n \in Nat /\ n < CounterWrap - 1
  /\ RecvTime \in Nat \ {0} /\ SO_RCVTIMEO \in Nat \ {0} /\ Silence \in Nat
  /\ Wire \in Nat \ {0} /\ Punctual \in Nat /\ MaxPass \in Nat
<1>1. /\ H \in Nat \ {0} /\ PayloadLength \subseteq Nat \ {0}
  BY FramesAssumption DEF FramesAssumption, H
<1>2. /\ RecvTime \in Nat \ {0} /\ SO_RCVTIMEO \in Nat \ {0} /\ Silence \in Nat
      /\ Wire \in Nat \ {0} /\ CounterWrap \in Nat /\ Punctual \in Nat /\ MaxPass \in Nat
      /\ \A n \in PayloadLength \cup {H} : n < CounterWrap - 1
  BY ReceiverAssumption DEF ReceiverAssumption, H
<1>3. H < CounterWrap - 1
  BY <1>2
<1>4. CounterWrap \in Nat \ {0} /\ 0 < CounterWrap - 1
  BY <1>1, <1>2, <1>3
<1>5. ASSUME NEW n \in PayloadLength \cup {0} PROVE n \in Nat /\ n < CounterWrap - 1
  <2>1. n \in Nat
    BY <1>1
  <2> QED
    BY <1>2, <1>4, <2>1
<1>6. \A n \in PayloadLength : n \in Nat
  BY <1>1
<1> QED
  BY <1>1, <1>2, <1>3, <1>4, <1>5, <1>6

LEMMA PastHeader == \A n \in 0 .. CounterWrap - 1 : H + n \in Nat /\ H + n # 0
<1>1. H \in Nat \ {0} /\ CounterWrap \in Nat
  BY Constants
<1> QED
  BY <1>1

LEMMA UnhandledType == TypeOK => Unhandled \in Seq(Byte)
<1> SUFFICES ASSUME TypeOK PROVE Unhandled \in Seq(Byte)
  OBVIOUS
<1>1. <<>> \in Seq(Byte) /\ wire \in Seq(Byte) /\ message \in Seq(Byte)
  BY EmptySeq DEF TypeOK
<1> QED
  BY <1>1, ConcatProperties DEF Unhandled

(* Every byte is of a kind there is.                                       *)
LEMMA EndsOfKind ==
  ASSUME NEW s \in Seq(Byte)
  PROVE  {k \in DOMAIN s : IsLast(s[k])} = Ends(s, Kind)
<1>1. ASSUME NEW k \in DOMAIN s PROVE s[k].frame.kind \in Kind
  <2>1. s[k] \in Byte
    OBVIOUS
  <2> QED
    BY <2>1, ByteFields, FrameFields
<1> QED
  BY <1>1 DEF Ends

LEMMA SkippedIsCounted ==
  ASSUME Unhandled \in Seq(Byte)
  PROVE  NothingSkipped <=> torn \/ recvPc = "ended" \/ owed = Cardinality(Ends(Unhandled, Kind))
BY EndsOfKind DEF NothingSkipped

LEMMA SkippedIsCountedNext ==
  ASSUME Unhandled' \in Seq(Byte)
  PROVE  NothingSkipped' <=>
           torn' \/ recvPc' = "ended" \/ owed' = Cardinality(Ends(Unhandled', Kind))
BY EndsOfKind DEF NothingSkipped

-----------------------------------------------------------------------------
(* Steps of receive_message                                                *)

(* What one call of recv does: bytes are moved, and receive_message calls  *)
(* it again, has read its part, or gives up.                               *)
Moves ==
  /\ recvPc = "recv"
  /\ message' \in Seq(Byte) /\ wire' \in Seq(Byte) /\ Len(wire') <= Wire
  /\ message' \o wire' = message \o wire
  /\ UNCHANGED <<lastAge, pass, peerVars, healthy, owed, unverified>>
  /\ recv_counter' \in 0 .. CounterWrap - 1

CallsAgain ==
  /\ Again /\ recv_counter' < recv_length /\ callAge < RecvTime
  /\ Len(message') = Before + recv_counter' /\ wire # <<>>

PartIsRead == Complete /\ Len(message') = Before + recv_length

GivesUp == End /\ (callAge >= RecvTime \/ peer # "open" \/ blockAge = SO_RCVTIMEO)

RecvStep == Moves /\ (CallsAgain \/ PartIsRead \/ GivesUp)

LEMMA LengthType ==
  ASSUME TypeOK
  PROVE  /\ recv_length \in Nat /\ recv_length < CounterWrap - 1
         /\ recv_counter \in Nat /\ recv_counter < CounterWrap
<1>1. payload_length \in PayloadLength \cup {0} /\ recv_counter \in 0 .. CounterWrap - 1
  BY DEF TypeOK
<1>2. recv_counter \in Nat /\ recv_counter < CounterWrap
  BY <1>1, Constants
<1>3. payload_length \in Nat /\ payload_length < CounterWrap - 1
  BY <1>1, Constants
<1> QED
  BY <1>2, <1>3, Constants DEF recv_length, H

(* Nothing was read: the count is not changed by 0, and -1 added to it, in *)
(* uint16_t, never makes it the length.                                    *)
LEMMA ReadNothing ==
  ASSUME TypeOK, recv_counter < recv_length \/ (recv_length = 0 /\ recv_counter = 0)
  PROVE  /\ (recv_counter + 0) % CounterWrap = recv_counter
         /\ (recv_counter + (-1)) % CounterWrap # recv_length
         /\ (recv_counter + (-1)) % CounterWrap \in 0 .. CounterWrap - 1
<1>1. /\ recv_length \in Nat /\ recv_length < CounterWrap - 1
      /\ recv_counter \in Nat /\ recv_counter < CounterWrap
      /\ CounterWrap \in Nat \ {0}
  BY LengthType, Constants
<1> HIDE DEF recv_length
<1>2. (recv_counter + 0) % CounterWrap = recv_counter
  BY <1>1
<1>3. CASE recv_counter = 0
  <2>1. (0 + (-1)) % CounterWrap = CounterWrap - 1
    BY <1>1
  <2> QED
    BY <1>1, <1>2, <1>3, <2>1
<1>4. CASE recv_counter > 0
  <2>1. (recv_counter + (-1)) % CounterWrap = recv_counter - 1
    BY <1>1, <1>4
  <2> QED
    BY <1>1, <1>2, <1>4, <2>1
<1> QED
  BY <1>1, <1>3, <1>4

(* The order of the conditions: the part is complete, or the bytes that    *)
(* came and the time decide.                                               *)
LEMMA ReturnedSteps ==
  ASSUME NEW temp, Returned(temp)
  PROVE  LET count == (recv_counter + temp) % CounterWrap IN
         \/ count = recv_length /\ Complete
         \/ /\ count # recv_length /\ recv_counter' = count
            /\ \/ temp > 0 /\ callAge < RecvTime /\ Again
               \/ ~(temp > 0 /\ callAge < RecvTime) /\ End
BY DEF Returned

LEMMA CompleteCounter == Complete => recv_counter' = 0
BY DEF Complete, Call

LEMMA TakenAndLeft ==
  ASSUME NEW s \in Seq(Byte), NEW n \in Nat, n <= Len(s)
  PROVE  /\ SubSeq(s, 1, n) \in Seq(Byte) /\ Len(SubSeq(s, 1, n)) = n
         /\ SubSeq(s, n + 1, Len(s)) \in Seq(Byte)
         /\ Len(SubSeq(s, n + 1, Len(s))) = Len(s) - n
         /\ SubSeq(s, 1, n) \o SubSeq(s, n + 1, Len(s)) = s
<1>1. Len(s) \in Nat /\ \A k \in 1 .. Len(s) : s[k] \in Byte
  BY LenProperties, ElementOfSeq
<1>2. SubSeq(s, 1, n) \in Seq(Byte) /\ Len(SubSeq(s, 1, n)) = n
  <2>1. \A k \in 1 .. n : s[k] \in Byte
    BY <1>1
  <2>2. /\ SubSeq(s, 1, n) \in Seq(Byte)
        /\ Len(SubSeq(s, 1, n)) = IF 1 <= n THEN n - 1 + 1 ELSE 0
    BY <2>1, SubSeqProperties
  <2> QED
    BY <2>2
<1>3. /\ SubSeq(s, n + 1, Len(s)) \in Seq(Byte)
      /\ Len(SubSeq(s, n + 1, Len(s))) = Len(s) - n
  <2>1. /\ \A k \in n + 1 .. Len(s) : s[k] \in Byte
        /\ n + 1 \in Int /\ Len(s) \in Int
    BY <1>1
  <2>2. /\ SubSeq(s, n + 1, Len(s)) \in Seq(Byte)
        /\ Len(SubSeq(s, n + 1, Len(s))) =
             IF n + 1 <= Len(s) THEN Len(s) - (n + 1) + 1 ELSE 0
    BY <2>1, SubSeqProperties
  <2> QED
    BY <1>1, <2>2
<1>4. SubSeq(s, 1, n) \o SubSeq(s, n + 1, Len(s)) = s
  <2>1. 1 \in 1 .. Len(s) + 1 /\ n \in 1 - 1 .. Len(s) /\ Len(s) \in n .. Len(s)
    BY <1>1
  <2>2. SubSeq(s, 1, n) \o SubSeq(s, n + 1, Len(s)) = SubSeq(s, 1, Len(s))
    BY <2>1, ConcatAdjacentSubSeq
  <2> QED
    BY <2>2, SubSeqFull
<1> QED
  BY <1>2, <1>3, <1>4

LEMMA SomeIsRead == TypeOK /\ Counts /\ RecvSome => RecvStep
<1> SUFFICES ASSUME TypeOK, Counts, RecvSome PROVE RecvStep
  OBVIOUS
<1> DEFINE n == Least(recv_length - recv_counter, Len(wire))
           taken == SubSeq(wire, 1, n)
           left == SubSeq(wire, n + 1, Len(wire))
<1>1. /\ recvPc = "recv" /\ recv_length > 0 /\ wire # <<>>
      /\ message' = message \o taken /\ wire' = left /\ Returned(n)
      /\ UNCHANGED <<lastAge, pass, peerVars, healthy, owed, unverified>>
  BY DEF RecvSome
<1>2. /\ message \in Seq(Byte) /\ wire \in Seq(Byte) /\ Len(wire) <= Wire
      /\ Len(wire) \in Nat \ {0} /\ Len(message) \in Nat
  BY <1>1, EmptySeq, LenProperties DEF TypeOK
<1>3. /\ recv_length \in Nat /\ recv_length < CounterWrap - 1
      /\ recv_counter \in Nat /\ CounterWrap \in Nat \ {0}
      /\ recv_counter < recv_length /\ Len(message) = Before + recv_counter
  BY <1>1, LengthType, Constants DEF Counts
<1>4. Before \in Nat
  BY Constants DEF Before
<1> HIDE DEF recv_length, Before
<1>5. /\ n \in Nat \ {0} /\ n <= Len(wire) /\ n <= recv_length - recv_counter
      /\ (recv_counter + n) % CounterWrap = recv_counter + n
  <2>1. n \in Nat \ {0} /\ n <= Len(wire) /\ n <= recv_length - recv_counter
    BY <1>2, <1>3 DEF Least
  <2>2. recv_counter + n \in 0 .. CounterWrap - 1
    BY <1>3, <2>1
  <2>3. (recv_counter + n) % CounterWrap = recv_counter + n
    BY <1>3, <2>2
  <2> QED
    BY <2>1, <2>3
<1>6. \/ recv_counter + n = recv_length /\ Complete
      \/ /\ recv_counter + n # recv_length /\ recv_counter' = recv_counter + n
         /\ (callAge < RecvTime /\ Again) \/ (callAge >= RecvTime /\ End)
  <2>1. n > 0
    BY <1>5
  <2>2. ~(callAge < RecvTime) => callAge >= RecvTime
    BY Constants DEF TypeOK
  <2> HIDE DEF n
  <2> QED
    BY <1>1, <1>5, <2>1, <2>2, ReturnedSteps
<1>7. /\ taken \in Seq(Byte) /\ Len(taken) = n /\ left \in Seq(Byte)
      /\ Len(left) = Len(wire) - n /\ taken \o left = wire
  BY <1>2, <1>5, TakenAndLeft
<1> HIDE DEF n, taken, left
<1>8. /\ message' \in Seq(Byte) /\ Len(message') = Before + (recv_counter + n)
      /\ message' \o wire' = message \o wire /\ Len(wire') <= Wire
  <2>1. /\ message \o taken \in Seq(Byte)
        /\ Len(message \o taken) = (Before + recv_counter) + n
    BY <1>2, <1>3, <1>7, ConcatProperties
  <2>2. (message \o taken) \o left = message \o (taken \o left)
    <3>1. message \in Seq(Byte) /\ taken \in Seq(Byte) /\ left \in Seq(Byte)
      BY <1>2, <1>7
    <3> QED
      BY <3>1, ConcatAssociative
  <2>3. Len(left) <= Wire
    BY <1>2, <1>5, <1>7, Constants
  <2> QED
    BY <1>1, <1>3, <1>4, <1>5, <1>7, <2>1, <2>2, <2>3
<1>9. recv_counter' \in 0 .. CounterWrap - 1
  <2>1. CASE recv_counter' = 0
    BY <1>3, <2>1
  <2>2. CASE recv_counter' = recv_counter + n
    BY <1>3, <1>5, <2>2
  <2> QED
    BY <1>6, <2>1, <2>2, CompleteCounter
<1>10. Moves
  BY <1>1, <1>7, <1>8, <1>9 DEF Moves
<1>11. CASE recv_counter + n = recv_length /\ Complete
  BY <1>8, <1>10, <1>11 DEF RecvStep, PartIsRead
<1>12. CASE /\ recv_counter + n # recv_length /\ recv_counter' = recv_counter + n
            /\ callAge < RecvTime /\ Again
  <2>1. recv_counter' < recv_length
    BY <1>3, <1>5, <1>12
  <2>2. Len(message') = Before + recv_counter'
    BY <1>8, <1>12
  <2> QED
    BY <1>1, <1>10, <1>12, <2>1, <2>2 DEF RecvStep, CallsAgain
<1>13. CASE callAge >= RecvTime /\ End
  BY <1>10, <1>13 DEF RecvStep, GivesUp
<1> QED
  BY <1>6, <1>11, <1>12, <1>13

(* A call of recv that returns no bytes ends the receiver, but for the one *)
(* that asks for none.                                                     *)
LEMMA NothingIsRead ==
  TypeOK /\ Counts /\ (RecvEmpty \/ RecvEnd \/ RecvFails) => RecvStep
<1> SUFFICES ASSUME TypeOK, Counts, RecvEmpty \/ RecvEnd \/ RecvFails PROVE RecvStep
  OBVIOUS
<1>1. /\ recvPc = "recv" /\ message' = message /\ wire' = wire
      /\ UNCHANGED <<lastAge, pass, peerVars, healthy, owed, unverified>>
  BY DEF RecvEmpty, RecvEnd, RecvFails
<1>2. /\ recv_counter < recv_length \/ (recv_length = 0 /\ recv_counter = 0)
      /\ Len(message) = Before + recv_counter
  <2>1. /\ recv_counter <= recv_length /\ (recv_length > 0 => recv_counter < recv_length)
        /\ Len(message) = Before + recv_counter
    BY <1>1 DEF Counts
  <2>2. recv_length \in Nat /\ recv_counter \in Nat
    BY LengthType
  <2> HIDE DEF recv_length
  <2> QED
    BY <2>1, <2>2
<1>3. /\ (recv_counter + 0) % CounterWrap = recv_counter
      /\ (recv_counter + (-1)) % CounterWrap # recv_length
      /\ (recv_counter + (-1)) % CounterWrap \in 0 .. CounterWrap - 1
  BY <1>2, ReadNothing
<1>4. /\ recv_length \in Nat /\ recv_counter \in 0 .. CounterWrap - 1
      /\ 0 \in 0 .. CounterWrap - 1
  BY LengthType, Constants DEF TypeOK
<1>5. recv_counter' \in 0 .. CounterWrap - 1 => Moves
  BY <1>1 DEF Moves, TypeOK
<1> HIDE DEF recv_length
<1>6. CASE RecvEmpty
  <2>1. recv_length = 0 /\ Returned(0)
    BY <1>6 DEF RecvEmpty
  <2>2. recv_counter = 0 /\ recv_counter = recv_length
    BY <1>2, <1>4, <2>1
  <2>3. Complete
    BY <1>3, <2>1, <2>2, ReturnedSteps
  <2>4. Moves
    BY <1>4, <1>5, <2>3, CompleteCounter
  <2> QED
    BY <1>1, <1>2, <2>2, <2>3, <2>4 DEF RecvStep, PartIsRead
<1>7. CASE RecvEnd
  <2>1. recv_length > 0 /\ peer = "closed" /\ Returned(0)
    BY <1>7 DEF RecvEnd
  <2>2. recv_counter # recv_length
    BY <1>2, <1>4, <2>1
  <2>3. recv_counter' = recv_counter /\ End
    BY <1>3, <2>1, <2>2, ReturnedSteps
  <2> QED
    BY <1>4, <1>5, <2>1, <2>3 DEF RecvStep, GivesUp
<1>8. CASE RecvFails
  <2>1. (blockAge = SO_RCVTIMEO \/ peer = "reset") /\ Returned(-1)
    BY <1>8 DEF RecvFails
  <2>2. ~((-1) > 0)
    OBVIOUS
  <2>3. recv_counter' = (recv_counter + (-1)) % CounterWrap /\ End
    BY <1>3, <2>1, <2>2, ReturnedSteps
  <2> QED
    BY <1>3, <1>5, <2>1, <2>3 DEF RecvStep, GivesUp
<1> QED
  BY <1>6, <1>7, <1>8

-----------------------------------------------------------------------------
(* The stream under the steps of receive_message                           *)

LEMMA HeaderLength ==
  ASSUME NEW s \in Seq(Byte), Len(s) = H, NEW l \in LengthRead(s)
  PROVE  l \in PayloadLength \cup {0} /\ (IsStream(s) => l = s[1].frame.length)
<1>1. H \in Nat \ {0} /\ H <= Len(s)
  BY Constants
<1>2. s[1] \in Byte
  BY <1>1, ElementOfSeq
<1>3. s[1].frame.length \in PayloadLength \cup {0}
  BY <1>2, ByteFields DEF Frame
<1>4. l \in PayloadLength \cup {0}
  BY <1>3 DEF LengthRead
<1>5. IsStream(s) => LengthRead(s) = {s[1].frame.length}
  BY <1>1, HeaderRead DEF H
<1> QED
  BY <1>4, <1>5

(* A call of recv leaves the stream alone; what is read of it is its       *)
(* beginning.                                                              *)
LEMMA MovesKeep ==
  ASSUME StreamInv, Moves
  PROVE  /\ recvPc' \in {"recv", "handle"} => Unhandled' = Unhandled
         /\ Unhandled = message' \o wire' /\ Unhandled \in Seq(Byte)
         /\ ~torn => IsStream(Unhandled) /\ IsStream(message')
         /\ message # <<>> /\ message' # <<>> => message'[1] = message[1]
<1>1. /\ recvPc = "recv" /\ message \in Seq(Byte) /\ wire \in Seq(Byte)
      /\ message' \in Seq(Byte) /\ wire' \in Seq(Byte)
      /\ message' \o wire' = message \o wire
  BY DEF Moves, StreamInv, TypeOK
<1>2. Unhandled = message \o wire /\ Unhandled \in Seq(Byte)
  BY <1>1, UnhandledType DEF Unhandled, StreamInv
<1>3. ~torn => IsStream(Unhandled)
  BY <1>1 DEF StreamInv, InStep
<1>4. IsStream(message' \o wire') => IsStream(message')
  BY <1>1, StreamPrefix
<1>5. /\ message # <<>> => (message \o wire)[1] = message[1]
      /\ message' # <<>> => (message' \o wire')[1] = message'[1]
  BY <1>1, StreamPrefix
<1>6. recvPc' \in {"recv", "handle"} => Unhandled' = message' \o wire'
  BY DEF Unhandled
<1> QED
  BY <1>1, <1>2, <1>3, <1>4, <1>5, <1>6

LEMMA KeptStream ==
  ASSUME StreamInv, recvPc # "ended", Unhandled' = Unhandled,
         UNCHANGED <<peerVars, healthy, owed>>
  PROVE  InFrame' /\ LastFits' /\ Signed' /\ InStep' /\ NothingSkipped'
<1>1. /\ Unhandled \in Seq(Byte) /\ Unhandled' \in Seq(Byte)
      /\ torn \/ owed = Cardinality(Ends(Unhandled, Kind))
      /\ torn \/ IsStream(Unhandled)
  BY UnhandledType, SkippedIsCounted DEF StreamInv, InStep
<1>2. UNCHANGED <<peer, writing, written, torn, healthy, owed>>
  BY DEF peerVars
<1>3. InStep' /\ NothingSkipped'
  BY <1>1, <1>2, SkippedIsCountedNext DEF InStep
<1>4. InFrame' /\ LastFits'
  BY <1>2 DEF StreamInv, InFrame, LastFits
<1>5. Signed'
  BY <1>2 DEF StreamInv, Signed
<1> QED
  BY <1>3, <1>4, <1>5

LEMMA EndedStream ==
  ASSUME StreamInv, recvPc' = "ended", UNCHANGED <<peerVars, healthy, owed>>
  PROVE  InFrame' /\ LastFits' /\ Signed' /\ InStep' /\ NothingSkipped'
<1>1. UNCHANGED <<writing, written, torn, healthy>>
  BY DEF peerVars
<1> QED
  BY <1>1 DEF StreamInv, InFrame, LastFits, Signed, InStep, NothingSkipped

LEMMA RecvInvariant == StreamInv /\ RecvStep => StreamInv'
<1> SUFFICES ASSUME StreamInv, RecvStep PROVE StreamInv'
  OBVIOUS
<1>1. /\ TypeOK /\ Moves /\ recvPc = "recv" /\ recvPc # "ended"
      /\ UNCHANGED <<lastAge, pass, peerVars, healthy, owed, unverified>>
  BY DEF StreamInv, RecvStep, Moves
<1>2. ASSUME recvPc' \in {"recv", "handle", "ended"}, part' \in {"header", "payload"},
             payload_length' \in PayloadLength \cup {0}, callAge' \in Nat,
             blockAge' = 0
      PROVE  TypeOK'
  <2>1. blockAge' \in 0 .. SO_RCVTIMEO
    BY <1>2, Constants
  <2> QED
    BY <1>1, <1>2, <2>1 DEF TypeOK, Moves, peerVars
<1>3. ASSUME recvPc' \in {"recv", "handle"}
      PROVE  InFrame' /\ LastFits' /\ Signed' /\ InStep' /\ NothingSkipped'
  BY <1>1, <1>3, MovesKeep, KeptStream
<1>4. CASE CallsAgain
  <2>1. UNCHANGED <<recvPc, part, payload_length, callAge, torn, recv_length, Before>>
    BY <1>1, <1>4 DEF CallsAgain, Again, recv_length, Before, peerVars
  <2>2. /\ recv_counter' <= recv_length /\ recv_counter' < recv_length
        /\ Len(message') = Before + recv_counter'
    <3>1. /\ recv_counter' \in 0 .. CounterWrap - 1 /\ recv_length \in Nat
          /\ recv_counter' < recv_length /\ Len(message') = Before + recv_counter'
      BY <1>1, <1>4, LengthType DEF CallsAgain, Moves
    <3> HIDE DEF recv_length
    <3> QED
      BY <3>1, Constants
  <2>3. part = "payload" /\ ~torn => payload_length = message'[1].frame.length
    <3> SUFFICES ASSUME part = "payload", ~torn
                 PROVE  payload_length = message'[1].frame.length
      OBVIOUS
    <3>1. Len(message) # 0 /\ Len(message') # 0
      <4>1. Len(message) = H + recv_counter /\ Len(message') = H + recv_counter'
        BY <1>1, <2>2 DEF StreamInv, Counts, Before
      <4>2. recv_counter \in 0 .. CounterWrap - 1 /\ recv_counter' \in 0 .. CounterWrap - 1
        BY <1>1 DEF TypeOK, Moves
      <4>3. H + recv_counter # 0 /\ H + recv_counter' # 0
        BY <4>2, PastHeader
      <4> QED
        BY <4>1, <4>3
    <3>2. message # <<>> /\ message' # <<>>
      BY <3>1, EmptySeq
    <3>3. message'[1] = message[1]
      BY <1>1, <3>2, MovesKeep
    <3> QED
      BY <1>1, <3>3 DEF StreamInv, Counts
  <2>4. Counts'
    BY <1>1, <2>1, <2>2, <2>3 DEF Counts
  <2>5. TypeOK'
    BY <1>1, <1>2, <1>4, <2>1 DEF CallsAgain, Again, TypeOK
  <2> QED
    BY <1>1, <1>3, <2>1, <2>4, <2>5 DEF StreamInv
<1>5. CASE PartIsRead
  <2>1. CASE /\ part = "header" /\ payload_length' \in LengthRead(message')
             /\ Call("payload")
    <3>1. /\ message' \in Seq(Byte) /\ Len(message') = H
          /\ recvPc' = "recv" /\ part' = "payload" /\ recv_counter' = 0
          /\ callAge' = 0 /\ blockAge' = 0 /\ torn' = torn
      <4>1. 0 + H = H
        BY Constants
      <4> QED
        BY <1>1, <1>5, <2>1, <4>1
           DEF PartIsRead, Moves, Before, recv_length, Call, peerVars, H
    <3>2. /\ payload_length' \in PayloadLength \cup {0}
          /\ ~torn => payload_length' = message'[1].frame.length
      <4>1. ~torn => IsStream(message')
        BY <1>1, MovesKeep
      <4> QED
        BY <2>1, <3>1, <4>1, HeaderLength
    <3>3. recv_length' = payload_length' /\ Before' = H
      BY <3>1 DEF recv_length, Before
    <3>4. Counts'
      <4>1. 0 <= payload_length' /\ H + 0 = H
        BY <3>2, Constants
      <4> QED
        BY <3>1, <3>2, <3>3, <4>1 DEF Counts
    <3>5. TypeOK'
      BY <1>2, <3>1, <3>2
    <3> QED
      BY <1>3, <3>1, <3>4, <3>5 DEF StreamInv
  <2>2. CASE /\ part = "payload" /\ recvPc' = "handle"
             /\ recv_counter' = 0 /\ callAge' = 0 /\ blockAge' = 0
             /\ UNCHANGED <<part, payload_length>>
    <3>1. Len(message') = H + payload_length
      BY <1>5, <2>2 DEF PartIsRead, Before, recv_length
    <3>2. ~torn => payload_length = message'[1].frame.length
      <4>1. Len(message) # 0 /\ Len(message') # 0
        <5>1. /\ Len(message) = H + recv_counter /\ recv_counter \in Nat
              /\ payload_length \in Nat
          <6>1. recv_counter \in 0 .. CounterWrap - 1 /\ payload_length \in PayloadLength \cup {0}
            BY <1>1 DEF TypeOK
          <6> QED
            BY <1>1, <2>2, <6>1, Constants DEF StreamInv, Counts, Before
        <5>2. H + recv_counter # 0 /\ H + payload_length # 0
          BY <5>1, Constants
        <5> QED
          BY <3>1, <5>1, <5>2
      <4>2. message # <<>> /\ message' # <<>>
        BY <4>1, EmptySeq
      <4>3. message'[1] = message[1]
        BY <1>1, <4>2, MovesKeep
      <4> QED
        BY <1>1, <2>2, <4>3 DEF StreamInv, Counts
    <3>3. Counts'
      BY <1>1, <2>2, <3>1, <3>2 DEF Counts, peerVars
    <3>4. TypeOK'
      BY <1>1, <1>2, <2>2 DEF TypeOK
    <3> QED
      BY <1>3, <2>2, <3>3, <3>4 DEF StreamInv
  <2> QED
    BY <1>5, <2>1, <2>2 DEF PartIsRead, Complete
<1>6. CASE GivesUp
  <2>1. /\ recvPc' = "ended" /\ callAge' = 0 /\ blockAge' = 0
        /\ UNCHANGED <<part, payload_length>>
    BY <1>6 DEF GivesUp, End
  <2>2. Counts'
    BY <2>1 DEF Counts
  <2>3. TypeOK'
    BY <1>1, <1>2, <2>1 DEF TypeOK
  <2> QED
    BY <1>1, <2>1, <2>2, <2>3, EndedStream DEF StreamInv
<1> QED
  BY <1>4, <1>5, <1>6 DEF RecvStep

-----------------------------------------------------------------------------
(* The stream under the steps of handle_device_receiver                    *)

LEMMA CheckInvariant == StreamInv /\ Check => StreamInv'
<1> SUFFICES ASSUME StreamInv, Check PROVE StreamInv'
  OBVIOUS
<1>1. /\ TypeOK /\ recvPc = "loop" /\ message' = <<>> /\ pass' = 0
      /\ UNCHANGED <<lastAge, wire, peerVars, healthy, owed, unverified>>
  BY DEF StreamInv, Check
<1>2. <<>> \in Seq(Byte) /\ Len(<<>>) = 0 /\ 0 \in 0 .. SO_RCVTIMEO /\ 0 \in 0 .. MaxPass
      /\ 0 \in 0 .. CounterWrap - 1
  BY EmptySeq, Constants
<1>3. CASE lastAge < Silence /\ Call("header") /\ payload_length' = 0
  <2>1. TypeOK'
    BY <1>1, <1>2, <1>3 DEF TypeOK, Call, peerVars
  <2>2. Counts'
    <3>1. /\ recvPc' = "recv" /\ part' = "header" /\ recv_counter' = 0
          /\ recv_length' = H /\ Before' = 0
      BY <1>3 DEF Call, recv_length, Before, H
    <3>2. 0 <= H /\ 0 < H /\ 0 + 0 = 0
      BY Constants
    <3> QED
      BY <1>1, <1>2, <3>1, <3>2 DEF Counts
  <2>3. Unhandled' = Unhandled
    BY <1>1, <1>3 DEF Unhandled, Call
  <2> QED
    BY <1>1, <2>1, <2>2, <2>3, KeptStream DEF StreamInv
<1>4. CASE End /\ UNCHANGED recv_counter
  <2>1. TypeOK'
    BY <1>1, <1>2, <1>4 DEF TypeOK, End, peerVars
  <2>2. recvPc' = "ended" /\ Counts'
    BY <1>4 DEF End, Counts
  <2> QED
    BY <1>1, <2>1, <2>2, EndedStream DEF StreamInv
<1> QED
  BY <1>3, <1>4 DEF Check

(* The message has been handled, verified or not.                          *)
Handled ==
  /\ recvPc = "handle" /\ recvPc' = "loop"
  /\ owed' = IF torn THEN owed ELSE owed - 1
  /\ UNCHANGED <<part, message, payload_length, recv_counter, callAge, blockAge,
                 pass, wire, peer, writing, written, tries, torn>>
  /\ \/ UNCHANGED <<healthy, wroteAge>>
     \/ healthy' = FALSE /\ wroteAge' = 0
  /\ \/ UNCHANGED <<lastAge, unverified>>
     \/ lastAge' = 0 /\ unverified' = 0

LEMMA HandleSteps == Handle \/ HandleOverwritten => Handled
BY DEF Handle, HandleOverwritten, Handled, peerVars

(* What is handled is the first message of the stream.                     *)
LEMMA MessageIsFirst ==
  ASSUME StreamInv, recvPc = "handle", ~torn
  PROVE  /\ Unhandled \in Seq(Byte) /\ IsStream(Unhandled)
         /\ Unhandled = message \o wire /\ Unhandled # <<>>
         /\ Len(message) = Size(Unhandled[1].frame) /\ Len(message) <= Len(Unhandled)
         /\ IsCutAt(Unhandled, Len(message))
         /\ SubSeq(Unhandled, Len(message) + 1, Len(Unhandled)) = wire
         /\ SubSeq(Unhandled, 1, Len(message)) = message
         /\ owed = Cardinality(Ends(Unhandled, Kind))
<1> DEFINE s == Unhandled
<1>1. /\ message \in Seq(Byte) /\ wire \in Seq(Byte) /\ s = message \o wire
      /\ s \in Seq(Byte) /\ IsStream(s) /\ owed = Cardinality(Ends(s, Kind))
  BY UnhandledType, SkippedIsCounted DEF StreamInv, TypeOK, Unhandled, InStep
<1>2. /\ Len(message) = H + payload_length /\ payload_length = message[1].frame.length
      /\ payload_length \in Nat
  BY Constants DEF StreamInv, Counts, TypeOK
<1>3. message # <<>> /\ s # <<>> /\ s[1] = message[1]
  <2>1. H + payload_length # 0
    BY <1>2, Constants
  <2>2. message # <<>>
    BY <1>2, <2>1, EmptySeq
  <2> QED
    BY <1>1, <2>2, StreamPrefix
<1> HIDE DEF s
<1>4. /\ Len(s) = Len(message) + Len(wire) /\ Len(message) \in Nat /\ Len(wire) \in Nat
      /\ Len(s) \in Nat \ {0}
  BY <1>1, <1>3, ConcatProperties, LenProperties, EmptySeq
<1>5. Len(message) = Size(s[1].frame) /\ Len(message) <= Len(s)
  BY <1>2, <1>3, <1>4 DEF Size, H
<1>6. IsCutAt(s, Len(message))
  BY <1>1, <1>3, <1>5, FrameIsCut
<1> QED
  BY <1>1, <1>3, <1>5, <1>6, FrontAndBack DEF s

LEMMA HandledInvariant == StreamInv /\ Handled => StreamInv'
<1> SUFFICES ASSUME StreamInv, Handled PROVE StreamInv'
  OBVIOUS
<1> DEFINE s == Unhandled
           n == Len(message)
<1>1. /\ TypeOK /\ recvPc = "handle" /\ recvPc' = "loop"
      /\ UNCHANGED <<part, message, payload_length, recv_counter, callAge, blockAge,
                     pass, wire, peer, writing, written, tries, torn>>
      /\ wire \in Seq(Byte)
  BY DEF StreamInv, TypeOK, Handled
<1>2. Unhandled' = wire
  BY <1>1, ConcatEmptySeq DEF Unhandled
<1>3. Counts' /\ InFrame'
  BY <1>1 DEF StreamInv, Counts, InFrame
<1>4. ASSUME owed' \in Nat PROVE TypeOK'
  <2>1. lastAge' \in Nat /\ unverified' \in Nat
    BY <1>1 DEF Handled, TypeOK
  <2>2. healthy' \in BOOLEAN /\ wroteAge' \in 0 .. Punctual
    <3>1. healthy \in BOOLEAN /\ wroteAge \in 0 .. Punctual /\ 0 \in 0 .. Punctual
      BY <1>1, Constants DEF TypeOK
    <3>2. healthy' \in BOOLEAN
      BY <3>1 DEF Handled
    <3>3. wroteAge' \in 0 .. Punctual
      BY <3>1 DEF Handled
    <3> QED
      BY <3>2, <3>3
  <2> QED
    BY <1>1, <1>4, <2>1, <2>2 DEF TypeOK
<1>5. CASE torn
  <2>1. owed' \in Nat
    BY <1>1, <1>5 DEF Handled, TypeOK
  <2>2. LastFits' /\ Signed' /\ InStep' /\ NothingSkipped'
    BY <1>1, <1>5 DEF Handled, StreamInv, LastFits, Signed, InStep, NothingSkipped
  <2> QED
    BY <1>3, <1>4, <2>1, <2>2 DEF StreamInv
<1>6. CASE ~torn
  <2>1. /\ s \in Seq(Byte) /\ IsStream(s) /\ s # <<>>
        /\ n = Size(s[1].frame) /\ n <= Len(s) /\ IsCutAt(s, n)
        /\ SubSeq(s, n + 1, Len(s)) = wire
        /\ owed = Cardinality(Ends(s, Kind))
    BY <1>1, <1>6, MessageIsFirst
  <2> HIDE DEF s, n
  <2>2. InStep'
    BY <1>2, <2>1 DEF InStep, IsCutAt
  <2>3. owed' = Cardinality(Ends(wire, Kind)) /\ owed' \in Nat
    <3>1. s[1].frame.kind \in Kind
      BY <2>1, ByteFields, FrameFields DEF IsCutAt
    <3>2. Cardinality(Ends(s, Kind)) = Cardinality(Ends(wire, Kind)) + 1
      BY <2>1, <3>1, EndsAreCut
    <3>3. Cardinality(Ends(wire, Kind)) \in Nat
      BY <1>1, EndsAreFinite
    <3> QED
      BY <1>6, <2>1, <3>2, <3>3 DEF Handled
  <2>4. NothingSkipped'
    BY <1>1, <1>2, <2>3, SkippedIsCountedNext
  <2>5. LastFits'
    <3> SUFFICES ASSUME peer = "open"
                 PROVE  IF writing # <<>> /\ written > 0
                        THEN wire # <<>> /\ wire[Len(wire)] = [frame |-> writing[1], at |-> written]
                        ELSE wire # <<>> => IsLast(wire[Len(wire)])
      BY <1>1, <1>2 DEF LastFits
    <3>1. IF writing # <<>> /\ written > 0
          THEN s[Len(s)] = [frame |-> writing[1], at |-> written]
          ELSE IsLast(s[Len(s)])
      BY <1>1, <1>6, <2>1 DEF StreamInv, LastFits, s
    <3>2. IF n < Len(s) THEN wire # <<>> /\ wire[Len(wire)] = s[Len(s)]
                        ELSE wire = <<>> /\ IsLast(s[Len(s)])
      BY <2>1, CutKeepsLast
    <3>3. ASSUME writing # <<>>
          PROVE  ~IsLast([frame |-> writing[1], at |-> written])
      <4>1. written < Size(writing[1]) /\ written \in Nat
        BY <3>3 DEF StreamInv, InFrame, TypeOK
      <4>2. PICK f \in Frame : writing = <<f>>
        BY <1>1, <3>3 DEF TypeOK
      <4>3. Size(writing[1]) \in Nat
        BY <4>2, FrameFields
      <4>4. written # Size(writing[1])
        BY <4>1, <4>3
      <4> QED
        BY <4>4 DEF IsLast
    <3> QED
      BY <3>1, <3>2, <3>3
  <2>6. Signed'
    <3>1. healthy' => healthy
      BY DEF Handled
    <3>2. healthy => /\ writing # <<>> => IsVerified(Packet[writing[1].kind])
                     /\ \A i \in 1 .. Len(s) : IsVerified(Packet[s[i].frame.kind])
      BY <1>1 DEF StreamInv, Signed, s
    <3>3. ASSUME healthy, NEW k \in 1 .. Len(wire)
          PROVE  IsVerified(Packet[wire[k].frame.kind])
      <4>1. /\ Len(wire) = Len(s) - n /\ n \in Nat /\ Len(s) \in Nat
            /\ \A i \in 1 .. Len(s) - n : wire[i] = s[i + n]
        BY <2>1, LenProperties DEF IsCutAt
      <4>2. wire[k] = s[k + n] /\ k + n \in 1 .. Len(s)
        BY <4>1
      <4> QED
        BY <3>2, <3>3, <4>2
    <3> QED
      BY <1>1, <1>2, <1>6, <3>1, <3>2, <3>3 DEF Signed
  <2> QED
    BY <1>3, <1>4, <2>2, <2>3, <2>4, <2>5, <2>6 DEF StreamInv
<1> QED
  BY <1>5, <1>6

-----------------------------------------------------------------------------
(* The stream under the steps of the device                                *)

(* What is of no account for the stream.                                   *)
Outside == <<recvPc, part, message, payload_length, recv_counter, wire, torn, owed>>

LEMMA UntouchedStream ==
  ASSUME StreamInv, UNCHANGED Outside
  PROVE  Counts' /\ InStep' /\ NothingSkipped' /\ Unhandled' = Unhandled
<1>1. Unhandled' = Unhandled
  BY DEF Outside, Unhandled
<1>2. InStep' /\ NothingSkipped'
  BY <1>1 DEF Outside, StreamInv, InStep, NothingSkipped
<1>3. recv_length' = recv_length /\ Before' = Before
  BY DEF Outside, recv_length, Before
<1> QED
  BY <1>1, <1>2, <1>3 DEF Outside, StreamInv, Counts

LEMMA SendsInvariant == StreamInv /\ DeviceSends => StreamInv'
<1> SUFFICES ASSUME StreamInv, DeviceSends PROVE StreamInv'
  OBVIOUS
<1>1. /\ TypeOK /\ recvPc # "ended" /\ peer = "open" /\ writing = <<>>
      /\ written' = 0 /\ tries' = 0
      /\ wroteAge' = IF healthy' THEN wroteAge ELSE 0
      /\ UNCHANGED <<callVars, lastAge, pass, wire, peer, torn, owed, unverified>>
  BY DEF StreamInv, DeviceSends, Alive
<1>2. PICK f \in Frame :
        writing' = <<f>> /\ healthy' = (healthy /\ IsVerified(Packet[f.kind]))
  BY DEF DeviceSends
<1>3. /\ Counts' /\ InStep' /\ NothingSkipped' /\ Unhandled' = Unhandled
  BY <1>1, UntouchedStream DEF Outside, callVars
<1>4. /\ writing' # <<>> /\ writing'[1] = f /\ f \in Frame
      /\ Size(f) \in Nat /\ Size(f) >= H
  BY <1>2, FrameFields DEF H
<1>5. InFrame'
  BY <1>1, <1>4, Constants DEF InFrame
<1>6. LastFits'
  BY <1>1, <1>3 DEF StreamInv, LastFits, callVars
<1>7. Signed'
  <2>1. healthy' => healthy /\ IsVerified(Packet[f.kind])
    BY <1>2
  <2> QED
    BY <1>1, <1>3, <1>4, <2>1 DEF StreamInv, Signed, callVars
<1>8. TypeOK'
  <2>1. wroteAge' \in 0 .. Punctual
    BY <1>1, Constants DEF TypeOK
  <2>2. healthy' \in BOOLEAN
    BY <1>2 DEF TypeOK
  <2>3. writing' \in {<<>>} \cup {<<g>> : g \in Frame}
    BY <1>2
  <2> QED
    BY <1>1, <2>1, <2>2, <2>3 DEF TypeOK, callVars
<1> QED
  BY <1>3, <1>5, <1>6, <1>7, <1>8 DEF StreamInv

(* The device has stopped writing, and on this connection it does not      *)
(* write again, or has not left a part of a frame behind.                  *)
LEMMA StopInvariant ==
  ASSUME StreamInv, writing' = <<>>, written' = 0, tries' = 0,
         UNCHANGED <<callVars, lastAge, pass, wire, owed, unverified>>,
         peer' \in {"closed", "reset"} \/ torn' \/ written = 0,
         peer' \in {"open", "closed", "reset"}, peer' = "open" => peer = "open",
         torn' \in BOOLEAN, torn => torn',
         \/ UNCHANGED <<healthy, wroteAge, torn>>
         \/ healthy' = FALSE /\ wroteAge' = 0
  PROVE  StreamInv'
<1>1. Unhandled' = Unhandled /\ recvPc' = recvPc
  BY DEF callVars, Unhandled
<1>2. InFrame'
  BY DEF InFrame
<1>3. Counts'
  <2>1. recv_length' = recv_length /\ Before' = Before
    BY DEF recv_length, Before, callVars
  <2> QED
    BY <2>1 DEF StreamInv, Counts, callVars
<1>4. InStep' /\ NothingSkipped'
  BY <1>1 DEF StreamInv, InStep, NothingSkipped
<1>5. LastFits'
  <2>1. ASSUME written = 0, ~torn', recvPc # "ended", peer' = "open", Unhandled # <<>>
        PROVE  IsLast(Unhandled[Len(Unhandled)])
    BY <2>1 DEF StreamInv, LastFits
  <2> QED
    BY <1>1, <2>1 DEF LastFits
<1>6. Signed'
  BY <1>1 DEF StreamInv, Signed
<1>7. TypeOK'
  <2>1. healthy' \in BOOLEAN
    BY DEF StreamInv, TypeOK
  <2>2. wroteAge' \in 0 .. Punctual
    BY Constants DEF StreamInv, TypeOK
  <2> QED
    BY <2>1, <2>2 DEF StreamInv, TypeOK, callVars
<1> QED
  BY <1>2, <1>3, <1>4, <1>5, <1>6, <1>7 DEF StreamInv

LEMMA WritesInvariant == StreamInv /\ WriteByte => StreamInv'
<1> SUFFICES ASSUME StreamInv, WriteByte PROVE StreamInv'
  OBVIOUS
<1> DEFINE s == Unhandled
           b == [frame |-> writing[1], at |-> written + 1]
<1>1. /\ TypeOK /\ recvPc # "ended" /\ peer = "open" /\ writing # <<>>
      /\ Len(wire) < Wire /\ wire' = Append(wire, b)
      /\ UNCHANGED <<callVars, lastAge, pass, peer, torn, healthy, unverified>>
      /\ s \in Seq(Byte)
  BY UnhandledType DEF StreamInv, WriteByte, Alive
<1>2. PICK f \in Frame : writing = <<f>>
  BY <1>1 DEF TypeOK
<1>3. /\ writing[1] = f /\ Size(f) \in Nat /\ written \in Nat /\ written < Size(f)
  BY <1>1, <1>2, FrameFields DEF StreamInv, InFrame, TypeOK
<1>4. b \in Byte /\ b.frame = f /\ b.at = written + 1
  <2>1. written + 1 \in 1 .. Size(f)
    BY <1>3
  <2> QED
    BY <1>3, <2>1, BytesOfFrame
<1>5. \/ /\ written + 1 < Size(f) /\ written' = written + 1 /\ tries' = tries + 1
         /\ UNCHANGED <<writing, wroteAge, owed>>
      \/ /\ written + 1 = Size(f) /\ writing' = <<>> /\ written' = 0
         /\ tries' = 0 /\ wroteAge' = 0
         /\ owed' = IF torn THEN owed ELSE owed + 1
  BY <1>3 DEF WriteByte
<1> HIDE DEF b
<1>6. Unhandled' = Append(s, b)
  <2> DEFINE front == IF recvPc = "loop" THEN <<>> ELSE message
  <2>1. front \in Seq(Byte) /\ wire \in Seq(Byte)
    BY <1>1, EmptySeq DEF TypeOK
  <2>2. front \o Append(wire, b) = Append(front \o wire, b)
    BY <1>4, <2>1, BackGrows
  <2> QED
    BY <1>1, <2>2 DEF Unhandled, callVars
<1> HIDE DEF s
<1>7. /\ Append(s, b) \in Seq(Byte) /\ Append(s, b) # <<>>
      /\ Len(s) \in Nat /\ Len(Append(s, b)) = Len(s) + 1
      /\ Append(s, b)[Len(s) + 1] = b
      /\ \A i \in 1 .. Len(s) : Append(s, b)[i] = s[i]
  BY <1>1, <1>4, AppendProperties, LenProperties
<1>8. ASSUME ~torn PROVE IsStream(Append(s, b))
  <2>1. IsStream(s)
    BY <1>1, <1>8 DEF StreamInv, InStep, s
  <2>2. IF written > 0 THEN s # <<>> /\ s[Len(s)] = [frame |-> f, at |-> written]
                       ELSE s # <<>> => IsLast(s[Len(s)])
    BY <1>1, <1>3, <1>8 DEF StreamInv, LastFits, s
  <2>3. IF s = <<>> THEN b.at = 1 ELSE Follows(s[Len(s)], b)
    <3>1. CASE written = 0
      BY <1>4, <2>2, <3>1 DEF Follows
    <3>2. CASE written > 0
      <4>1. written # Size(f)
        BY <1>3
      <4>2. ~IsLast([frame |-> f, at |-> written])
        BY <4>1 DEF IsLast
      <4> QED
        BY <1>4, <2>2, <3>2, <4>2 DEF Follows
    <3> QED
      BY <1>3, <3>1, <3>2
  <2> QED
    BY <1>1, <1>4, <2>1, <2>3, StreamGrows
<1>9. InStep'
  BY <1>1, <1>6, <1>8 DEF InStep
<1>10. IsLast(b) <=> written + 1 = Size(f)
  BY <1>4 DEF IsLast
<1>11. NothingSkipped' /\ owed' \in Nat
  <2>1. CASE torn
    BY <1>1, <1>5, <2>1 DEF NothingSkipped, TypeOK
  <2>2. CASE ~torn
    <3>1. owed = Cardinality(Ends(s, Kind)) /\ Cardinality(Ends(s, Kind)) \in Nat
      BY <1>1, <2>2, SkippedIsCounted, EndsAreFinite DEF StreamInv, s
    <3>2. f.kind \in Kind
      BY FrameFields
    <3>3. Cardinality(Ends(Append(s, b), Kind)) =
            Cardinality(Ends(s, Kind)) + IF IsLast(b) THEN 1 ELSE 0
      BY <1>1, <1>4, <3>2, EndsGrow
    <3>4. owed' = IF written + 1 = Size(f) THEN owed + 1 ELSE owed
      BY <1>3, <1>5, <2>2
    <3>5. owed' = Cardinality(Ends(Append(s, b), Kind)) /\ owed' \in Nat
      BY <1>10, <3>1, <3>3, <3>4
    <3> QED
      BY <1>6, <1>7, <3>5, SkippedIsCountedNext
  <2> QED
    BY <2>1, <2>2
<1>12. InFrame' /\ LastFits'
  <2>1. CASE written + 1 < Size(f) /\ written' = written + 1 /\ writing' = writing
    <3>1. InFrame'
      BY <1>3, <2>1 DEF InFrame
    <3>2. b = [frame |-> writing'[1], at |-> written']
      BY <2>1 DEF b
    <3>3. writing' # <<>> /\ written' > 0
      BY <1>1, <1>3, <2>1
    <3>4. Unhandled' # <<>> /\ Unhandled'[Len(Unhandled')] = b
      BY <1>6, <1>7
    <3> QED
      BY <3>1, <3>2, <3>3, <3>4 DEF LastFits
  <2>2. CASE written + 1 = Size(f) /\ writing' = <<>>
    BY <1>6, <1>7, <1>10, <2>2 DEF InFrame, LastFits
  <2> QED
    BY <1>5, <2>1, <2>2
<1>13. Signed'
  <2>1. healthy => /\ ~torn /\ IsVerified(Packet[f.kind])
                   /\ \A i \in 1 .. Len(s) : IsVerified(Packet[s[i].frame.kind])
    BY <1>1, <1>3 DEF StreamInv, Signed, s
  <2>2. ASSUME healthy, NEW k \in 1 .. Len(Append(s, b))
        PROVE  IsVerified(Packet[Append(s, b)[k].frame.kind])
    <3>1. k \in 1 .. Len(s) \/ k = Len(s) + 1
      BY <1>7
    <3> QED
      BY <1>4, <1>7, <2>1, <2>2, <3>1
  <2>3. writing' # <<>> => writing'[1] = f
    BY <1>3, <1>5
  <2> QED
    BY <1>1, <1>6, <2>1, <2>2, <2>3 DEF Signed
<1>14. Counts'
  <2>1. recv_length' = recv_length /\ Before' = Before
    BY <1>1 DEF recv_length, Before, callVars
  <2> QED
    BY <1>1, <2>1 DEF StreamInv, Counts, callVars
<1>15. TypeOK'
  <2>1. wire' \in Seq(Byte) /\ Len(wire') <= Wire
    <3>1. /\ Append(wire, b) \in Seq(Byte) /\ Len(Append(wire, b)) = Len(wire) + 1
          /\ Len(wire) \in Nat /\ Wire \in Nat
      BY <1>1, <1>4, AppendProperties, LenProperties, Constants DEF TypeOK
    <3> QED
      BY <1>1, <3>1
  <2>2. written' \in Nat /\ tries' \in Nat
    BY <1>5 DEF TypeOK, StreamInv
  <2>3. wroteAge' \in 0 .. Punctual
    BY <1>5, Constants DEF TypeOK, StreamInv
  <2>4. writing' \in {<<>>} \cup {<<g>> : g \in Frame}
    BY <1>2, <1>5
  <2> QED
    BY <1>1, <1>11, <2>1, <2>2, <2>3, <2>4 DEF TypeOK, callVars
<1> QED
  BY <1>9, <1>11, <1>12, <1>13, <1>14, <1>15 DEF StreamInv

LEMMA DeviceInvariant == StreamInv /\ Device => StreamInv'
<1> SUFFICES ASSUME StreamInv, Device PROVE StreamInv'
  OBVIOUS
<1>1. CASE DeviceSends
  BY <1>1, SendsInvariant
<1>2. CASE WriteByte
  BY <1>2, WritesInvariant
<1>3. CASE WriteFails
  <2>1. tries' \in Nat
    BY <1>3 DEF WriteFails, StreamInv, TypeOK
  <2>2. TypeOK'
    BY <1>3, <2>1 DEF WriteFails, StreamInv, TypeOK, callVars
  <2>3. Counts' /\ InStep' /\ NothingSkipped' /\ Unhandled' = Unhandled
    BY <1>3, UntouchedStream DEF WriteFails, Outside, callVars
  <2>4. InFrame' /\ LastFits' /\ Signed'
    BY <1>3, <2>3 DEF WriteFails, StreamInv, InFrame, LastFits, Signed, callVars
  <2> QED
    BY <2>2, <2>3, <2>4 DEF StreamInv
<1>4. CASE GiveUp
  <2>1. /\ writing' = <<>> /\ written' = 0 /\ tries' = 0
        /\ healthy' = FALSE /\ wroteAge' = 0
        /\ UNCHANGED <<callVars, lastAge, pass, wire, owed, unverified>>
    BY <1>4 DEF GiveUp
  <2>2. \/ peer' = "closed" /\ torn' = torn
        \/ torn' = (torn \/ written > 0) /\ peer' = peer
    BY <1>4 DEF GiveUp
  <2>3. written \in Nat /\ torn \in BOOLEAN /\ peer = "open"
    BY <1>4 DEF StreamInv, TypeOK, GiveUp, Alive
  <2>4. written = 0 \/ written > 0
    BY <2>3
  <2>5. peer' \in {"closed", "reset"} \/ torn' \/ written = 0
    BY <2>2, <2>4
  <2>6. peer' \in {"open", "closed", "reset"} /\ torn' \in BOOLEAN /\ (torn => torn')
    BY <2>2, <2>3
  <2> QED
    BY <2>1, <2>3, <2>5, <2>6, StopInvariant
<1>5. CASE PeerEnds
  <2>1. torn \in BOOLEAN
    BY DEF StreamInv, TypeOK
  <2> QED
    BY <1>5, <2>1, StopInvariant DEF PeerEnds, Alive
<1> QED
  BY <1>1, <1>2, <1>3, <1>4, <1>5 DEF Device

LEMMA TickStream == StreamInv /\ Tick => StreamInv'
<1> SUFFICES ASSUME StreamInv, Tick PROVE StreamInv'
  OBVIOUS
<1>1. /\ TypeOK
      /\ UNCHANGED <<recvPc, part, message, payload_length, recv_counter, wire, peer,
                     writing, written, tries, torn, owed>>
  BY DEF StreamInv, Tick
<1>2. Counts' /\ InStep' /\ NothingSkipped' /\ Unhandled' = Unhandled
  BY <1>1, UntouchedStream DEF Outside
<1>3. healthy' \in BOOLEAN /\ (healthy' => healthy)
  <2>1. healthy \in BOOLEAN
    BY <1>1 DEF TypeOK
  <2>2. healthy' = healthy \/ healthy' = FALSE
    BY DEF Tick
  <2>3. CASE healthy' = healthy
    BY <2>1, <2>3
  <2>4. CASE healthy' = FALSE
    BY <2>4
  <2> QED
    BY <2>2, <2>3, <2>4
<1>4. InFrame' /\ LastFits' /\ Signed'
  BY <1>1, <1>2, <1>3 DEF StreamInv, InFrame, LastFits, Signed
<1>5. /\ blockAge' \in 0 .. SO_RCVTIMEO /\ pass' \in 0 .. MaxPass
  <2>1. /\ blockAge \in 0 .. SO_RCVTIMEO /\ pass \in 0 .. MaxPass
        /\ SO_RCVTIMEO \in Nat /\ MaxPass \in Nat
    BY <1>1, Constants DEF TypeOK
  <2>2. \/ blockAge < SO_RCVTIMEO /\ blockAge' = blockAge + 1 /\ pass' = pass
        \/ pass < MaxPass /\ pass' = pass + 1 /\ blockAge' = blockAge
    BY DEF Tick, RecvBlocks
  <2> QED
    BY <2>1, <2>2
<1>6. wroteAge' \in 0 .. Punctual
  BY <1>1, Constants DEF Tick, TypeOK
<1>7. callAge' \in Nat /\ lastAge' \in Nat /\ unverified' \in Nat
  BY <1>1 DEF Tick, TypeOK
<1>8. TypeOK'
  BY <1>1, <1>3, <1>5, <1>6, <1>7 DEF TypeOK
<1> QED
  BY <1>2, <1>4, <1>8 DEF StreamInv

LEMMA InitStream == Init => StreamInv
<1> SUFFICES ASSUME Init PROVE StreamInv
  OBVIOUS
<1>1. /\ <<>> \in Seq(Byte) /\ Len(<<>>) = 0 /\ <<>> \o <<>> = <<>>
      /\ Cardinality(Ends(<<>>, Kind)) = 0
  BY EmptySeq, ConcatEmptySeq, EndsAreFinite
<1>2. Unhandled = <<>>
  BY <1>1 DEF Init, Unhandled
<1>3. /\ 0 \in 0 .. CounterWrap - 1 /\ 0 \in 0 .. SO_RCVTIMEO /\ 0 \in 0 .. MaxPass
      /\ 0 \in 0 .. Punctual /\ 0 <= Wire /\ 0 \in PayloadLength \cup {0}
  BY Constants
<1>4. TypeOK
  BY <1>1, <1>3 DEF Init, TypeOK
<1>5. Counts /\ InFrame /\ LastFits
  BY <1>2 DEF Init, Counts, InFrame, LastFits
<1>6. Signed
  BY <1>1, <1>2 DEF Init, Signed
<1>7. InStep
  BY <1>1, <1>2 DEF InStep, IsStream
<1>8. NothingSkipped
  BY <1>1, <1>2, SkippedIsCounted DEF Init
<1> QED
  BY <1>4, <1>5, <1>6, <1>7, <1>8 DEF StreamInv

LEMMA ReceiveSteps ==
  StreamInv /\ Receive => RecvStep \/ Check \/ Handled
BY SomeIsRead, NothingIsRead, HandleSteps DEF StreamInv, Receive

LEMMA NextStream == StreamInv /\ [Next]_vars => StreamInv'
<1> SUFFICES ASSUME StreamInv, [Next]_vars PROVE StreamInv'
  OBVIOUS
<1>1. CASE Receive
  BY <1>1, ReceiveSteps, RecvInvariant, CheckInvariant, HandledInvariant
<1>2. CASE Device
  BY <1>2, DeviceInvariant
<1>3. CASE Tick
  BY <1>3, TickStream
<1>4. CASE UNCHANGED vars
  <2>1. Counts' /\ InStep' /\ NothingSkipped' /\ Unhandled' = Unhandled
    BY <1>4, UntouchedStream DEF vars, callVars, peerVars, Outside
  <2>2. TypeOK' /\ InFrame' /\ LastFits' /\ Signed'
    BY <1>4, <2>1
       DEF vars, callVars, peerVars, StreamInv, TypeOK, InFrame, LastFits, Signed
  <2> QED
    BY <2>1, <2>2 DEF StreamInv
<1> QED
  BY <1>1, <1>2, <1>3, <1>4 DEF Next, Finished

-----------------------------------------------------------------------------
(* What has not been handled is a stream of messages, and the device is    *)
(* where it ends.                                                          *)
THEOREM StreamInvariance == Spec => []StreamInv
<1> QED
  BY InitStream, NextStream, PTL DEF Spec

(* Every variable of receive_message, of the device's writing and of their *)
(* timers is of its type; recv_counter is a uint16_t, which -1 from recv   *)
(* wraps.                                                                  *)
THEOREM ReceiverTypes == Spec => []TypeOK
<1>1. StreamInv => TypeOK
  BY DEF StreamInv
<1> QED
  BY <1>1, StreamInvariance, PTL

(* receive_message is in step with the stream, until the device itself     *)
(* gives up in the middle of a message or the receiver ends.               *)
THEOREM StreamIsKept == Spec => []InStep
<1>1. StreamInv => InStep
  BY DEF StreamInv
<1> QED
  BY <1>1, StreamInvariance, PTL

(* handle_device_receiver handles every message that was written whole,    *)
(* and each once.                                                          *)
THEOREM MessagesAreHandled == Spec => []NothingSkipped
<1>1. StreamInv => NothingSkipped
  BY DEF StreamInv
<1> QED
  BY <1>1, StreamInvariance, PTL

(* The conversions, signatures and tests of NetworkSender, device.cpp and  *)
(* NetworkReceiver fit each other for every message that is handled.       *)
THEOREM PeersAlwaysAgree == Spec => []PeersAgree
<1>1. TypeOK => PeersAgree
  <2> SUFFICES ASSUME TypeOK, recvPc = "handle", IsFrame(message) PROVE PeersAgree
    BY DEF PeersAgree
  <2> DEFINE kind == message[1].frame.kind
  <2>1. kind \in DOMAIN Packet /\ kind \notin {"serverPing", "spoiltPing"}
    <3>1. message \in Seq(Byte) /\ message # <<>>
      BY DEF TypeOK, IsFrame
    <3>2. Len(message) \in Nat \ {0}
      BY <3>1, EmptySeq
    <3>3. message[1] \in Byte
      BY <3>1, <3>2, ElementOfSeq
    <3>4. kind \in Kind
      BY <3>3, ByteFields, FrameFields
    <3> QED
      BY <3>4, FramesAssumption, ReceiverAssumption
         DEF FramesAssumption, ReceiverAssumption
  <2>2. PacketOf(message) = Packet[kind]
    BY DEF PacketOf
  <2> HIDE DEF kind
  <2>3. IsGood(message) <=> kind \notin {"unknown", "foreign"}
    BY <2>1, <2>2, VerifiedKinds DEF IsGood
  <2>4. IsPing(PacketOf(message)) <=> kind = "ping"
    BY <2>1, <2>2, AcceptedKinds
  <2>5. ASSUME IsGood(message), kind # "ping"
        PROVE  LET relayed == Relayed(PacketOf(message)) IN
               /\ IsAccepted(Arduino, relayed) <=> kind # "stranger"
               /\ kind # "stranger" =>
                    Decrypted(Arduino, relayed) = [type |-> 1, under |-> {}]
    <3>1. kind \in {"data", "empty", "stranger"}
      BY <2>1, <2>3, <2>5, KnownPackets
    <3>2. /\ Relayed(Packet[kind]) = Packet[kind]
          /\ kind # "stranger" =>
               Decrypted(Arduino, Packet[kind]) = [type |-> 1, under |-> {}]
      BY <3>1, RelayedKinds
    <3>3. IsAccepted(Arduino, Packet[kind]) <=> kind # "stranger"
      BY <2>1, <3>1, AcceptedKinds
    <3> QED
      BY <2>2, <3>2, <3>3
  <2> QED
    BY <2>3, <2>4, <2>5 DEF PeersAgree, kind
<1> QED
  BY <1>1, ReceiverTypes, PTL

-----------------------------------------------------------------------------
(* A silent device is given up                                             *)

(* The time one part of a message may take: receive_message calls recv     *)
(* until its time is over, and the last call may block as long as it can.  *)
PartTime == RecvTime - 1 + SO_RCVTIMEO

(* The time of the parts of this message that have been read.              *)
PartsTime == IF part = "header" THEN 0 ELSE PartTime

InTime ==
  /\ lastAge = unverified
  /\ recvPc = "recv" =>
       /\ lastAge <= Silence - 1 + PartsTime + RecvTime - 1 + blockAge + pass
       /\ lastAge <= Silence - 1 + PartsTime + callAge + pass
  /\ recvPc \in {"loop", "handle"} => lastAge <= Silence - 1 + 2 * PartTime + pass

Times ==
  /\ lastAge \in Nat /\ callAge \in Nat /\ pass \in Nat
  /\ blockAge \in Nat /\ blockAge <= SO_RCVTIMEO

LEMMA TimesType == TypeOK => Times
<1> SUFFICES ASSUME TypeOK PROVE Times
  OBVIOUS
<1>1. lastAge \in Nat /\ callAge \in Nat /\ pass \in 0 .. MaxPass /\ blockAge \in 0 .. SO_RCVTIMEO
  BY DEF TypeOK
<1> QED
  BY <1>1, Constants DEF Times

LEMMA PartTimeType ==
  /\ PartTime \in Nat \ {0} /\ PartTime = RecvTime - 1 + SO_RCVTIMEO
  /\ PartsTime \in Nat /\ RecvTime \in Nat \ {0} /\ Silence \in Nat
<1>1. PartTime \in Nat \ {0} /\ RecvTime \in Nat \ {0} /\ Silence \in Nat
  BY Constants DEF PartTime
<1> QED
  BY <1>1 DEF PartsTime, PartTime

LEMMA RecvInTime == TypeOK /\ InTime /\ RecvStep => InTime'
<1> SUFFICES ASSUME TypeOK, InTime, RecvStep PROVE InTime'
  OBVIOUS
<1>1. /\ recvPc = "recv" /\ UNCHANGED <<lastAge, pass, unverified>> /\ lastAge = unverified
      /\ lastAge <= Silence - 1 + PartsTime + RecvTime - 1 + blockAge + pass
      /\ lastAge <= Silence - 1 + PartsTime + callAge + pass
  BY DEF RecvStep, Moves, InTime
<1>2. /\ lastAge \in Nat /\ callAge \in Nat /\ pass \in Nat
      /\ blockAge \in Nat /\ blockAge <= SO_RCVTIMEO
      /\ PartTime \in Nat \ {0} /\ PartTime = RecvTime - 1 + SO_RCVTIMEO
      /\ PartsTime \in Nat /\ RecvTime \in Nat \ {0} /\ Silence \in Nat
      /\ SO_RCVTIMEO \in Nat
  BY TimesType, PartTimeType, Constants DEF Times
<1>3. CASE CallsAgain
  <2>1. /\ recvPc' = "recv" /\ PartsTime' = PartsTime /\ callAge' = callAge
        /\ blockAge' = 0 /\ callAge < RecvTime
    BY <1>1, <1>3 DEF CallsAgain, Again, PartsTime, PartTime
  <2>2. lastAge <= Silence - 1 + PartsTime + RecvTime - 1 + 0 + pass
    BY <1>1, <1>2, <2>1
  <2> QED
    BY <1>1, <2>1, <2>2 DEF InTime
<1>4. CASE Complete /\ part = "header"
  <2>1. /\ recvPc' = "recv" /\ part' = "payload" /\ callAge' = 0 /\ blockAge' = 0
        /\ PartsTime = 0 /\ PartsTime' = PartTime
    BY <1>4 DEF Complete, Call, PartsTime, PartTime
  <2>2. /\ lastAge <= Silence - 1 + PartTime + RecvTime - 1 + 0 + pass
        /\ lastAge <= Silence - 1 + PartTime + 0 + pass
    BY <1>1, <1>2, <2>1
  <2> QED
    BY <1>1, <2>1, <2>2 DEF InTime
<1>5. CASE Complete /\ part # "header"
  <2>1. recvPc' = "handle" /\ PartsTime = PartTime
    BY <1>5 DEF Complete, PartsTime
  <2>2. lastAge <= Silence - 1 + 2 * PartTime + pass
    BY <1>1, <1>2, <2>1
  <2> QED
    BY <1>1, <2>1, <2>2 DEF InTime, PartTime
<1>6. CASE GivesUp
  BY <1>1, <1>6 DEF GivesUp, End, InTime
<1> QED
  BY <1>3, <1>4, <1>5, <1>6 DEF RecvStep, PartIsRead

LEMMA OtherInTime ==
  ASSUME TypeOK, InTime, Check \/ Handled \/ Device \/ Tick \/ UNCHANGED vars
  PROVE  InTime'
<1>1. /\ lastAge \in Nat /\ callAge \in Nat /\ pass \in Nat
      /\ blockAge \in Nat
      /\ PartTime \in Nat \ {0} /\ PartsTime \in Nat
      /\ RecvTime \in Nat \ {0} /\ Silence \in Nat
      /\ lastAge = unverified
  BY TimesType, PartTimeType DEF Times, InTime
<1>2. CASE Check
  <2>1. CASE lastAge < Silence /\ Call("header")
    <3>1. /\ recvPc' = "recv" /\ PartsTime' = 0 /\ pass' = 0 /\ callAge' = 0
          /\ blockAge' = 0 /\ UNCHANGED <<lastAge, unverified>>
      BY <1>2, <2>1 DEF Check, Call, PartsTime
    <3>2. /\ lastAge <= Silence - 1 + 0 + RecvTime - 1 + 0 + 0
          /\ lastAge <= Silence - 1 + 0 + 0 + 0
      BY <1>1, <2>1
    <3> QED
      BY <1>1, <3>1, <3>2 DEF InTime
  <2>2. CASE End
    BY <1>1, <1>2, <2>2 DEF Check, End, InTime
  <2> QED
    BY <1>2, <2>1, <2>2 DEF Check
<1>3. CASE Handled
  <2>1. /\ recvPc = "handle" /\ recvPc' = "loop" /\ pass' = pass
        /\ UNCHANGED <<lastAge, unverified>> \/ (lastAge' = 0 /\ unverified' = 0)
        /\ lastAge <= Silence - 1 + 2 * PartTime + pass
    BY <1>3 DEF Handled, InTime
  <2>2. 0 <= Silence - 1 + 2 * PartTime + pass
    BY <1>1
  <2> QED
    BY <1>1, <2>1, <2>2 DEF InTime, PartTime
<1>4. CASE Device \/ UNCHANGED vars
  <2>1. UNCHANGED <<recvPc, part, callAge, blockAge, lastAge, pass, unverified>>
    BY <1>4 DEF Device, DeviceSends, WriteByte, WriteFails, GiveUp, PeerEnds, vars, callVars
  <2> QED
    BY <2>1 DEF InTime, PartsTime, PartTime
<1>5. CASE Tick
  <2>1. /\ UNCHANGED <<recvPc, part>> /\ PartsTime' = PartsTime
        /\ lastAge' = lastAge + 1 /\ unverified' = unverified + 1
        /\ recvPc = "recv" => callAge' = callAge + 1
    BY <1>5 DEF Tick, PartsTime, PartTime
  <2>2. \/ recvPc = "recv" /\ blockAge' = blockAge + 1 /\ pass' = pass
        \/ pass' = pass + 1 /\ blockAge' = blockAge
    BY <1>5 DEF Tick, RecvBlocks
  <2>3. recvPc = "recv" =>
          /\ lastAge + 1 <= Silence - 1 + PartsTime + RecvTime - 1 + blockAge' + pass'
          /\ lastAge + 1 <= Silence - 1 + PartsTime + (callAge + 1) + pass'
    BY <1>1, <2>2 DEF InTime
  <2>4. recvPc \in {"loop", "handle"} => lastAge + 1 <= Silence - 1 + 2 * PartTime + pass'
    BY <1>1, <2>2 DEF InTime
  <2> QED
    BY <1>1, <2>1, <2>3, <2>4 DEF InTime, PartTime
<1> QED
  BY <1>2, <1>3, <1>4, <1>5

LEMMA InitInTime == Init => InTime
<1> SUFFICES ASSUME Init PROVE InTime
  OBVIOUS
<1>1. 0 <= Silence - 1 + 2 * PartTime + 0
  BY PartTimeType
<1> QED
  BY <1>1 DEF Init, InTime

(* The limit of handle_device_receiver is looked at between two messages,  *)
(* and a device that is not verified any more is given up all the same.    *)
THEOREM SilenceEnds == Spec => []SilentIsEnded
<1>1. StreamInv /\ InTime /\ [Next]_vars => InTime'
  <2> SUFFICES ASSUME StreamInv, InTime, [Next]_vars PROVE InTime'
    OBVIOUS
  <2>1. TypeOK
    BY DEF StreamInv
  <2> QED
    BY <2>1, ReceiveSteps, RecvInTime, OtherInTime DEF Next, Finished
<1>2. Spec => []InTime
  BY <1>1, InitInTime, StreamInvariance, PTL DEF Spec
<1>3. StreamInv /\ InTime => SilentIsEnded
  <2> SUFFICES ASSUME StreamInv, InTime, recvPc # "ended"
               PROVE  unverified <= (Silence - 1) + 2 * (RecvTime - 1 + SO_RCVTIMEO) + MaxPass
    BY DEF SilentIsEnded
  <2>1. /\ recvPc \in {"loop", "recv", "handle"} /\ pass \in 0 .. MaxPass /\ lastAge \in Nat
        /\ blockAge \in Nat /\ blockAge <= SO_RCVTIMEO
    BY TimesType DEF StreamInv, TypeOK, Times
  <2>2. PartsTime <= PartTime
    BY PartTimeType DEF PartsTime
  <2>3. lastAge <= Silence - 1 + 2 * PartTime + pass
    <3>1. CASE recvPc = "recv"
      <4>1. lastAge <= Silence - 1 + PartsTime + RecvTime - 1 + blockAge + pass
        BY <3>1 DEF InTime
      <4> QED
        BY <2>1, <2>2, <4>1, PartTimeType, Constants
    <3>2. CASE recvPc \in {"loop", "handle"}
      BY <3>2 DEF InTime
    <3> QED
      BY <2>1, <3>1, <3>2
  <2>4. unverified = lastAge
    BY DEF InTime
  <2> QED
    BY <2>1, <2>3, <2>4, PartTimeType, Constants
<1> QED
  BY <1>2, <1>3, StreamInvariance, PTL

-----------------------------------------------------------------------------
(* A punctual device is kept                                               *)

NoneEnds(s) == \A k \in 1 .. Len(s) : ~IsLast(s[k])

(* recv blocks no longer than the device is silent, and a call of          *)
(* receive_message is as old as the last whole message at most, when that  *)
(* has been read, but for the time spent elsewhere.                        *)
Heard ==
  healthy =>
    /\ recvPc = "loop" => lastAge <= pass
    /\ recvPc = "recv" /\ peer = "open" =>
         /\ blockAge <= Punctual /\ (wire = <<>> => blockAge <= wroteAge)
         /\ callAge <= pass + Punctual
         /\ NoneEnds(wire) => callAge <= pass + wroteAge

(* receive_message does not call recv again when it has the end of a       *)
(* message.                                                                *)
LEMMA NoEndIsTaken ==
  ASSUME StreamInv, ~torn, Moves, CallsAgain, NoneEnds(wire')
  PROVE  NoneEnds(wire)
<1> SUFFICES ASSUME NEW k \in 1 .. Len(wire) PROVE ~IsLast(wire[k])
  BY DEF NoneEnds
<1> DEFINE s == Unhandled
           m == Len(message')
           i == Len(message) + k
<1>1. /\ recvPc = "recv" /\ TypeOK /\ message \in Seq(Byte) /\ wire \in Seq(Byte)
      /\ message' \in Seq(Byte) /\ wire' \in Seq(Byte)
      /\ s = message \o wire /\ s = message' \o wire' /\ s \in Seq(Byte) /\ IsStream(s)
  BY MovesKeep DEF StreamInv, TypeOK, Moves, Unhandled
<1> HIDE DEF s
<1>2. /\ Len(message) \in Nat /\ Len(wire) \in Nat /\ m \in Nat /\ Len(wire') \in Nat
      /\ Len(s) = Len(message) + Len(wire) /\ Len(s) = m + Len(wire')
  <2>1. Len(s) = Len(message) + Len(wire)
    BY <1>1, ConcatProperties
  <2>2. Len(s) = m + Len(wire')
    BY <1>1, ConcatProperties
  <2> QED
    BY <1>1, <2>1, <2>2, LenProperties
<1>3. i \in 1 .. Len(s) /\ i \in Nat /\ s[i] = wire[k]
  <2>1. /\ i \in 1 .. Len(message) + Len(wire) /\ ~(i <= Len(message)) /\ i \in Nat
        /\ i - Len(message) = k
    BY <1>2
  <2> HIDE DEF i
  <2>2. (message \o wire)[i] = wire[i - Len(message)]
    BY <1>1, <2>1, ConcatProperties
  <2> QED
    BY <1>1, <1>2, <2>1, <2>2
<1>4. /\ s[1] \in Byte /\ s[1].frame \in Frame /\ Size(s[1].frame) \in Nat
      /\ Size(s[1].frame) = H + s[1].frame.length /\ s[1].frame.length \in Nat
  <2>1. 1 \in 1 .. Len(s)
    BY <1>2, <1>3
  <2>2. s[1] \in Byte
    BY <1>1, <2>1, ElementOfSeq
  <2> QED
    BY <2>2, ByteFields, FrameFields DEF H
<1>5. m < Size(s[1].frame)
  <2>1. /\ m = Before + recv_counter' /\ recv_counter' < recv_length
        /\ recv_counter' \in Nat /\ recv_length \in Nat /\ H \in Nat
    <3>1. recv_counter' \in 0 .. CounterWrap - 1
      BY DEF Moves
    <3>2. m = Before + recv_counter' /\ recv_counter' < recv_length
      BY DEF CallsAgain
    <3> QED
      BY <1>1, <3>1, <3>2, LengthType, Constants
  <2>2. CASE part = "header"
    <3>1. Before = 0 /\ recv_length = H
      BY <2>2 DEF Before, recv_length, H
    <3> QED
      BY <1>4, <2>1, <3>1
  <2>3. CASE part # "header"
    <3>1. /\ Before = H /\ recv_length = payload_length /\ part = "payload"
      BY <1>1, <2>3 DEF Before, recv_length, TypeOK
    <3>2. payload_length = message[1].frame.length /\ Len(message) = H + recv_counter
      BY <1>1, <3>1 DEF StreamInv, Counts
    <3>3. message # <<>>
      <4>1. H + recv_counter # 0
        BY <1>1, PastHeader DEF TypeOK
      <4> QED
        BY <3>2, <4>1, EmptySeq
    <3>4. s[1] = message[1]
      <4>1. (message \o wire)[1] = message[1]
        BY <1>1, <3>3, StreamPrefix
      <4> QED
        BY <1>1, <4>1
    <3> QED
      BY <1>4, <2>1, <3>1, <3>2, <3>4
  <2> QED
    BY <2>2, <2>3
<1>6. CASE i <= m
  <2>1. i <= Size(s[1].frame) /\ i # Size(s[1].frame)
    BY <1>2, <1>3, <1>4, <1>5, <1>6
  <2> HIDE DEF i
  <2>2. s[i].frame = s[1].frame /\ s[i].at = i
    BY <1>1, <1>3, <2>1, FirstFrame
  <2> QED
    BY <1>3, <2>1, <2>2 DEF IsLast
<1>7. CASE i > m
  <2>1. /\ i \in 1 .. m + Len(wire') /\ ~(i <= m)
        /\ i - m \in 1 .. Len(wire')
    BY <1>2, <1>3, <1>7
  <2> HIDE DEF i
  <2>2. s[i] = wire'[i - m]
    BY <1>1, <2>1, ConcatProperties
  <2> QED
    BY <1>3, <2>1, <2>2 DEF NoneEnds
<1> QED
  BY <1>2, <1>3, <1>6, <1>7

LEMMA AgesType ==
  TypeOK => /\ lastAge \in Nat /\ callAge \in Nat /\ blockAge \in Nat
            /\ pass \in Nat /\ pass <= MaxPass
            /\ wroteAge \in Nat /\ wroteAge <= Punctual /\ Punctual \in Nat
<1> SUFFICES ASSUME TypeOK
             PROVE  /\ lastAge \in Nat /\ callAge \in Nat /\ blockAge \in Nat
                    /\ pass \in Nat /\ pass <= MaxPass
                    /\ wroteAge \in Nat /\ wroteAge <= Punctual /\ Punctual \in Nat
  OBVIOUS
<1>1. /\ lastAge \in Nat /\ callAge \in Nat /\ pass \in 0 .. MaxPass
      /\ blockAge \in 0 .. SO_RCVTIMEO /\ wroteAge \in 0 .. Punctual
  BY DEF TypeOK
<1> QED
  BY <1>1, Constants

LEMMA RecvHeard == StreamInv /\ Heard /\ RecvStep => Heard'
<1> SUFFICES ASSUME StreamInv, Heard, RecvStep PROVE Heard'
  OBVIOUS
<1>0. recvPc' # "loop" /\ healthy' = healthy /\ peer' = peer
  <2>1. recvPc = "recv" /\ healthy' = healthy /\ peer' = peer
    BY DEF RecvStep, Moves, peerVars
  <2>2. recvPc' = recvPc \/ recvPc' \in {"recv", "handle", "ended"}
    BY DEF RecvStep, CallsAgain, Again, PartIsRead, Complete, Call, GivesUp, End
  <2> QED
    BY <2>1, <2>2
<1> SUFFICES ASSUME healthy, peer = "open" PROVE Heard'
  BY <1>0 DEF Heard
<1>1. /\ recvPc = "recv" /\ Moves /\ ~torn
      /\ UNCHANGED <<pass, healthy, peer, wroteAge>>
      /\ lastAge \in Nat /\ callAge \in Nat /\ pass \in Nat
      /\ wroteAge \in Nat /\ Punctual \in Nat
  BY AgesType DEF RecvStep, Moves, peerVars, StreamInv, Signed
<1>2. CASE CallsAgain
  <2>1. recvPc' = "recv" /\ callAge' = callAge /\ blockAge' = 0
    BY <1>1, <1>2 DEF CallsAgain, Again
  <2>2. /\ callAge <= pass + Punctual
        /\ NoneEnds(wire) => callAge <= pass + wroteAge
    BY <1>1 DEF Heard
  <2>3. NoneEnds(wire') => NoneEnds(wire)
    BY <1>1, <1>2, NoEndIsTaken
  <2>4. 0 <= Punctual /\ 0 <= wroteAge
    BY <1>1
  <2>5. /\ recvPc' # "loop" /\ blockAge' <= Punctual' /\ blockAge' <= wroteAge'
        /\ callAge' <= pass' + Punctual'
        /\ NoneEnds(wire') => callAge' <= pass' + wroteAge'
    BY <1>1, <2>1, <2>2, <2>3, <2>4
  <2> QED
    BY <2>5 DEF Heard, NoneEnds
<1>3. CASE Complete
  <2>1. recvPc' = "handle" \/ (recvPc' = "recv" /\ callAge' = 0 /\ blockAge' = 0)
    BY <1>3 DEF Complete, Call
  <2>2. 0 <= Punctual /\ 0 <= wroteAge /\ 0 <= pass + Punctual /\ 0 <= pass + wroteAge
    BY <1>1
  <2> QED
    BY <1>1, <2>1, <2>2 DEF Heard
<1>4. CASE GivesUp
  BY <1>4 DEF GivesUp, End, Heard
<1> QED
  BY <1>2, <1>3, <1>4 DEF RecvStep, PartIsRead

LEMMA CheckHeard == StreamInv /\ Heard /\ Check => Heard'
<1> SUFFICES ASSUME StreamInv, Heard, Check PROVE Heard'
  OBVIOUS
<1>1. CASE End
  BY <1>1 DEF End, Heard
<1>2. CASE Call("header")
  <2>1. /\ recvPc' = "recv" /\ callAge' = 0 /\ blockAge' = 0 /\ pass' = 0 /\ wroteAge' = wroteAge
    BY <1>2 DEF Check, Call, peerVars
  <2>2. 0 <= Punctual /\ 0 <= wroteAge /\ 0 <= 0 + Punctual /\ 0 <= 0 + wroteAge
    BY AgesType DEF StreamInv
  <2> QED
    BY <2>1, <2>2 DEF Heard
<1> QED
  BY <1>1, <1>2 DEF Check

(* What a healthy device wrote is good when it is handled.                 *)
LEMMA HandleHeard == StreamInv /\ Heard /\ (Handle \/ HandleOverwritten) => Heard'
<1> SUFFICES ASSUME StreamInv, Heard, Handle \/ HandleOverwritten, healthy' PROVE Heard'
  BY DEF Heard
<1>1. /\ Handle /\ recvPc = "handle" /\ recvPc' = "loop" /\ pass' = pass /\ healthy
  BY DEF Handle, HandleOverwritten
<1>2. ~torn /\ \A k \in 1 .. Len(Unhandled) : IsVerified(Packet[Unhandled[k].frame.kind])
  BY <1>1 DEF StreamInv, Signed
<1>3. IsGood(message)
  <2>1. /\ Unhandled \in Seq(Byte) /\ Unhandled # <<>>
        /\ IsFrame(message) /\ message[1] = Unhandled[1]
    BY <1>1, <1>2, MessageIsFirst DEF IsCutAt
  <2>2. Len(Unhandled) \in Nat \ {0}
    BY <2>1, EmptySeq
  <2>3. IsVerified(Packet[Unhandled[1].frame.kind])
    BY <1>2, <2>2
  <2> QED
    BY <2>1, <2>3 DEF IsGood, PacketOf
<1>4. lastAge' = 0
  BY <1>1, <1>3 DEF Handle
<1>5. 0 <= pass
  BY AgesType DEF StreamInv
<1> QED
  BY <1>1, <1>4, <1>5 DEF Heard

LEMMA DeviceHeard == StreamInv /\ Heard /\ Device => Heard'
<1> SUFFICES ASSUME StreamInv, Heard, Device, healthy' PROVE Heard'
  BY DEF Heard
<1>1. CASE DeviceSends
  <2>1. healthy /\ wroteAge' = wroteAge
    BY <1>1 DEF DeviceSends
  <2> QED
    BY <1>1, <2>1 DEF DeviceSends, Heard, callVars
<1>2. CASE WriteFails
  BY <1>2 DEF WriteFails, Heard, callVars
<1>3. CASE GiveUp
  BY <1>3 DEF GiveUp
<1>4. CASE PeerEnds
  <2>1. peer' # "open"
    BY <1>4 DEF PeerEnds
  <2> QED
    BY <1>4, <2>1 DEF PeerEnds, Heard, callVars
<1>5. CASE WriteByte
  <2> DEFINE b == [frame |-> writing[1], at |-> written + 1]
  <2>1. /\ UNCHANGED <<recvPc, callAge, blockAge, lastAge, pass, peer, healthy>>
        /\ wire' = Append(wire, b) /\ writing # <<>> /\ wire \in Seq(Byte)
        /\ \/ wroteAge' = wroteAge
           \/ written + 1 = Size(writing[1])
    BY <1>5 DEF WriteByte, callVars, StreamInv, TypeOK
  <2>2. b \in Byte
    <3>1. PICK f \in Frame : writing = <<f>>
      BY <2>1 DEF StreamInv, TypeOK
    <3>2. written \in Nat /\ written < Size(f) /\ Size(f) \in Nat /\ writing[1] = f
      BY <2>1, <3>1, FrameFields DEF StreamInv, TypeOK, InFrame
    <3>3. written + 1 \in 1 .. Size(f)
      BY <3>2
    <3> QED
      BY <3>2, <3>3, BytesOfFrame
  <2>3. written + 1 = Size(writing[1]) => IsLast(b)
    BY DEF IsLast
  <2> HIDE DEF b
  <2>4. /\ wire' # <<>> /\ Len(wire) \in Nat /\ Len(wire') = Len(wire) + 1
        /\ wire'[Len(wire) + 1] = b
        /\ \A k \in 1 .. Len(wire) : wire'[k] = wire[k]
    BY <2>1, <2>2, AppendProperties, LenProperties
  <2>5. NoneEnds(wire') => NoneEnds(wire) /\ ~IsLast(b)
    <3> SUFFICES ASSUME NoneEnds(wire') PROVE NoneEnds(wire) /\ ~IsLast(b)
      OBVIOUS
    <3>1. /\ \A k \in 1 .. Len(wire) : k \in 1 .. Len(wire')
          /\ Len(wire) + 1 \in 1 .. Len(wire')
      BY <2>4
    <3> QED
      BY <2>4, <3>1 DEF NoneEnds
  <2>6. NoneEnds(wire') => NoneEnds(wire) /\ wroteAge' = wroteAge
    BY <2>1, <2>3, <2>5
  <2> QED
    BY <2>1, <2>4, <2>6 DEF Heard
<1> QED
  BY <1>1, <1>2, <1>3, <1>4, <1>5 DEF Device

LEMMA TickHeard == StreamInv /\ Heard /\ Tick => Heard'
<1> SUFFICES ASSUME StreamInv, Heard, Tick, healthy' PROVE Heard'
  BY DEF Heard
<1>1. healthy /\ wroteAge < Punctual /\ wroteAge' = wroteAge + 1
  BY DEF Tick
<1>2. /\ lastAge \in Nat /\ callAge \in Nat /\ blockAge \in Nat /\ pass \in Nat
      /\ wroteAge \in Nat /\ Punctual \in Nat
      /\ UNCHANGED <<recvPc, wire, peer>> /\ lastAge' = lastAge + 1
  BY AgesType DEF StreamInv, Tick
<1>3. CASE recvPc = "loop"
  <2>1. pass' = pass + 1 /\ lastAge <= pass
    BY <1>1, <1>3 DEF Tick, RecvBlocks, Heard
  <2>2. lastAge + 1 <= pass + 1
    BY <1>2, <2>1
  <2> QED
    BY <1>2, <1>3, <2>1, <2>2 DEF Heard
<1>4. CASE recvPc = "recv" /\ peer = "open"
  <2>1. /\ callAge' = callAge + 1
        /\ blockAge <= Punctual /\ (wire = <<>> => blockAge <= wroteAge)
        /\ callAge <= pass + Punctual
        /\ NoneEnds(wire) => callAge <= pass + wroteAge
    BY <1>1, <1>4 DEF Tick, Heard
  <2>2. CASE wire = <<>> /\ blockAge' = blockAge + 1 /\ pass' = pass
    <3>1. NoneEnds(wire)
      <4>1. Len(wire) = 0
        BY <2>2, EmptySeq
      <4> QED
        BY <4>1 DEF NoneEnds
    <3>2. /\ blockAge + 1 <= Punctual /\ blockAge + 1 <= wroteAge + 1
          /\ callAge + 1 <= pass + Punctual /\ callAge + 1 <= pass + (wroteAge + 1)
      BY <1>1, <1>2, <2>1, <2>2, <3>1
    <3> QED
      BY <1>1, <1>2, <1>4, <2>1, <2>2, <3>2 DEF Heard
  <2>3. CASE pass' = pass + 1 /\ blockAge' = blockAge
    <3>1. /\ wire = <<>> => blockAge <= wroteAge + 1
          /\ callAge + 1 <= (pass + 1) + Punctual
          /\ NoneEnds(wire) => callAge + 1 <= (pass + 1) + (wroteAge + 1)
      BY <1>2, <2>1
    <3> QED
      BY <1>1, <1>2, <1>4, <2>1, <2>3, <3>1 DEF Heard
  <2> QED
    BY <2>2, <2>3 DEF Tick, RecvBlocks
<1> QED
  BY <1>2, <1>3, <1>4 DEF Heard

LEMMA NextHeard == StreamInv /\ Heard /\ [Next]_vars => Heard'
<1> SUFFICES ASSUME StreamInv, Heard, [Next]_vars PROVE Heard'
  OBVIOUS
<1>1. CASE UNCHANGED vars
  BY <1>1 DEF vars, callVars, peerVars, Heard
<1>2. CASE RecvSome \/ RecvEmpty \/ RecvEnd \/ RecvFails
  BY <1>2, SomeIsRead, NothingIsRead, RecvHeard DEF StreamInv
<1> QED
  BY <1>1, <1>2, CheckHeard, HandleHeard, DeviceHeard, TickHeard
     DEF Next, Receive, Finished

(* handle_device_receiver does not end the connection of a device that is  *)
(* punctual and signs what it sends: no time limit of receive_message, of  *)
(* recv or of the loop is ever met, in whatever pieces its bytes come.     *)
THEOREM PunctualStays == Spec => PunctualIsKept
<1> DEFINE Kept == recvPc # "ended" /\ recvPc' = "ended" => ~healthy \/ peer # "open"
<1>1. Init => Heard
  <2> SUFFICES ASSUME Init PROVE Heard
    OBVIOUS
  <2>1. 0 <= 0
    OBVIOUS
  <2> QED
    BY <2>1 DEF Init, Heard
<1>2. Spec => []Heard
  BY <1>1, NextHeard, StreamInvariance, PTL DEF Spec
<1>3. ASSUME StreamInv, Heard, [Next]_vars PROVE [Kept]_vars
  <2> SUFFICES ASSUME Next, recvPc # "ended", recvPc' = "ended", healthy, peer = "open"
               PROVE  FALSE
    BY <1>3
  <2>1. /\ lastAge \in Nat /\ callAge \in Nat /\ blockAge \in Nat /\ pass \in Nat
        /\ pass <= MaxPass /\ MaxPass \in Nat /\ Punctual \in Nat
        /\ SO_RCVTIMEO \in Nat /\ RecvTime \in Nat /\ Silence \in Nat
    BY <1>3, AgesType, Constants DEF StreamInv
  <2>2. /\ Punctual + MaxPass < RecvTime /\ Punctual + MaxPass < SO_RCVTIMEO
        /\ MaxPass < Silence
    BY PunctualAssumption DEF PunctualAssumption
  <2>3. CASE RecvStep
    <3>1. GivesUp /\ recvPc = "recv"
      BY <2>3 DEF RecvStep, Moves, CallsAgain, Again, PartIsRead, Complete, Call
    <3>2. callAge <= pass + Punctual /\ blockAge <= Punctual
      BY <1>3, <3>1 DEF Heard
    <3>3. callAge >= RecvTime \/ blockAge = SO_RCVTIMEO
      BY <3>1 DEF GivesUp
    <3> QED
      BY <2>1, <2>2, <3>2, <3>3
  <2>4. CASE Check
    <3>1. recvPc = "loop" /\ lastAge >= Silence
      BY <2>4 DEF Check, Call
    <3>2. lastAge <= pass
      BY <1>3, <3>1 DEF Heard
    <3> QED
      BY <2>1, <2>2, <3>1, <3>2
  <2>5. CASE Handled
    BY <2>5 DEF Handled
  <2>6. CASE Device \/ Tick \/ Finished
    BY <2>6 DEF Device, DeviceSends, WriteByte, WriteFails, GiveUp, PeerEnds, Tick,
                Finished, callVars, vars
  <2> QED
    BY <1>3, <2>3, <2>4, <2>5, <2>6, ReceiveSteps DEF Next
<1> QED
  BY <1>2, <1>3, StreamInvariance, PTL DEF Spec, PunctualIsKept
=============================================================================
