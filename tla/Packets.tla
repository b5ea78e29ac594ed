------------------------------ MODULE Packets -------------------------------
(***************************************************************************)
(* The packets of the protocol as bytes: how a packet is written, which    *)
(* size its header announces, and how the other side reads it back from    *)
(* the TCP stream or from a datagram.                                      *)
(*                                                                         *)
(* A packet class is given by its number, whether it is vital (TCP) or not *)
(* (UDP), the fields its SizeInBytes counts, the fields its SerializeBytes *)
(* writes and those its FromBytes reads, each in the order of the source.  *)
(* Numbers have the widths of the code; the values explored stay below     *)
(* 2^31.                                                                   *)
(***************************************************************************)
EXTENDS Integers, SequencesExt

CONSTANTS ByteValues,  \* how many values a byte has
          Samples,     \* Samples[kind]: the values explored for a field
          MaxPackets   \* bound: packets sent

(* v divided by ByteValues k times. *)
Shifted(v, k) ==
  LET s[j \in 0..k] == IF j = 0 THEN v ELSE s[j - 1] \div ByteValues IN s[k]

(* Whether n bytes hold v. *)
Fits(v, n) == v \in Nat /\ Shifted(v, n - 1) < ByteValues

Magnitude(v) == IF v < 0 THEN -(v + 1) ELSE v

Width == [bool |-> 1, u8 |-> 1, u32 |-> 4, i32 |-> 4, u64 |-> 8]

(* What a field can be; a packet with any texts has a size that can be written. *)
IsSample(kind, v) ==
  CASE kind = "bool" -> v \in BOOLEAN
    [] kind = "i32"  -> v \in Int /\ Shifted(Magnitude(v), 3) < ByteValues \div 2
    [] kind = "text" -> v \in Seq(1..ByteValues-1) /\ Fits(16 * (Len(v) + 64), 4)
    [] OTHER         -> Fits(v, Width[kind])

ASSUME PacketsAssumption ==
  /\ ByteValues \in Nat /\ ByteValues >= 16 /\ MaxPackets \in Nat
  /\ \A kind \in {"bool", "u8", "u32", "i32", "u64", "text"} :
       Len(Samples[kind]) = 3 /\ \A i \in 1..3 : IsSample(kind, Samples[kind][i])

VARIABLES stream,     \* bytes of the TCP stream not yet read
          datagrams,  \* datagrams under way
          packetsSent, packetsRead, \* history: vital packets, in their order
          heard       \* history: packets read from datagrams

packetVars == <<stream, datagrams, packetsSent, packetsRead, heard>>

----------------------------------------------------------------------------
(* Numbers and texts (utils/stream.cpp). *)

(* n bytes, the most significant first; negative numbers as two's complement. *)
BigEndian(v, n) ==
  LET digit(k) == Shifted(Magnitude(v), k) % ByteValues
  IN  [i \in 1..n |-> IF v < 0 THEN ByteValues - 1 - digit(n - i) ELSE digit(n - i)]

FromBigEndian(bytes) ==
  LET upTo[k \in 0..Len(bytes)] == IF k = 0 THEN 0 ELSE upTo[k - 1] * ByteValues + bytes[k]
  IN  upTo[Len(bytes)]

(* Faulty variant: the sign is lost. *)
FromUnsigned(bytes) == FromBigEndian([bytes EXCEPT ![1] = @ % (ByteValues \div 2)])

FromTwosComplement(bytes) ==
  IF bytes[1] < ByteValues \div 2 THEN FromBigEndian(bytes)
  ELSE -(FromBigEndian([i \in DOMAIN bytes |-> ByteValues - 1 - bytes[i]]) + 1)

(* A text is the sequence of its characters; 0 ends one that is shorter than
   its length, and the rest is skipped (one byte too many: the 0 is counted
   again). *)
WriteText(text) == BigEndian(Len(text), 4) \o text

(* Faulty variant: the length is not skipped. *)
ReadTextHere(bytes, at) ==
  LET length == FromBigEndian(SubSeq(bytes, at + 1, at + 4))
  IN  [value |-> SubSeq(bytes, at + 1, at + length), next |-> at + length]

ReadText(bytes, at) ==
  LET length == FromBigEndian(SubSeq(bytes, at + 1, at + 4))
      chars  == SubSeq(bytes, at + 5, at + 4 + length)
      end    == SelectInSeq(chars, LAMBDA c : c = 0)
  IN  IF end = 0 THEN [value |-> chars, next |-> at + 4 + length]
      ELSE [value |-> SubSeq(chars, 1, end - 1), next |-> at + 4 + length + 1]

WriteField(kind, v) ==
  CASE kind = "bool"             -> <<IF v THEN 1 ELSE 0>>
    [] kind \in {"text", "data"} -> WriteText(v)
    [] OTHER                     -> BigEndian(v, Width[kind])

ReadField(kind, bytes, at) ==
  IF kind = "text" THEN ReadText(bytes, at)
  ELSE IF kind = "data"
  THEN LET length == FromBigEndian(SubSeq(bytes, at + 1, at + 4))
       IN  [value |-> SubSeq(bytes, at + 5, at + 4 + length), next |-> at + 4 + length]
  ELSE LET digits == SubSeq(bytes, at + 1, at + Width[kind])
           value  == CASE kind = "bool" -> digits[1] # 0
                       [] kind = "i32"  -> FromTwosComplement(digits)
                       [] OTHER         -> FromBigEndian(digits)
       IN  [value |-> value, next |-> at + Width[kind]]

(* Packet::GetSize. *)
SizeOf(kind, v) == IF kind \in {"text", "data"} THEN 4 + Len(v) ELSE Width[kind]

----------------------------------------------------------------------------
(* The packet classes. *)

F(name, kind) == [name |-> name, kind |-> kind]

(* All classes read what they write in the order they write it. *)
Order(fields) == [written |-> fields, read |-> fields]

Class(number, vital, sized, order) ==
  [number |-> number, vital |-> vital, sized |-> sized, written |-> order.written, read |-> order.read]

ServerClientLoadWorldOrder == Order(<<F("worldToLoad", "text")>>)
ServerClientLoadWorld == Class(0, TRUE, <<F("worldToLoad", "text")>>, ServerClientLoadWorldOrder)

ClientServerWorldLoadedOrder == Order(<<>>)
ClientServerWorldLoaded == Class(1, TRUE, <<>>, ClientServerWorldLoadedOrder)

ServerClientEntityUpdateOrder ==
  Order(<<F("entityId", "u32"), F("playerId", "u32"), F("worldName", "text"),
          F("timeOfUpdate", "u64"), F("entityType", "u8"), F("entityData", "data")>>)
ServerClientEntityUpdate ==
  Class(2, FALSE, <<F("entityId", "u32"), F("playerId", "u32"), F("worldName", "text"),
                   F("timeOfUpdate", "u64"), F("entityType", "u8"), F("entityData", "data")>>,
        ServerClientEntityUpdateOrder)

ServerClientSetPlayerDetailsOrder == Order(<<F("playerId", "u32")>>)
ServerClientSetPlayerDetails == Class(3, TRUE, <<F("playerId", "u32")>>, ServerClientSetPlayerDetailsOrder)

ClientServerTestUdpOrder == Order(<<F("playerId", "u32")>>)
ClientServerTestUdp == Class(4, FALSE, <<F("playerId", "u32")>>, ClientServerTestUdpOrder)

ClientServerEntityUpdateOrder ==
  Order(<<F("playerId", "u32"), F("entityId", "u32"), F("timeOfUpdate", "u64"),
          F("entityType", "u8"), F("entityData", "data")>>)
ClientServerEntityUpdate ==
  Class(5, FALSE, <<F("playerId", "u32"), F("entityId", "u32"), F("timeOfUpdate", "u64"),
                   F("entityType", "u8"), F("entityData", "data")>>,
        ClientServerEntityUpdateOrder)

ServerClientPlayerJoinedWorldOrder == Order(<<F("playerId", "u32"), F("worldName", "text")>>)
ServerClientPlayerJoinedWorld ==
  Class(6, TRUE, <<F("playerId", "u32"), F("worldName", "text")>>, ServerClientPlayerJoinedWorldOrder)

ServerClientPlayerLeftWorldOrder == Order(<<F("playerId", "u32"), F("worldName", "text")>>)
ServerClientPlayerLeftWorld ==
  Class(7, TRUE, <<F("playerId", "u32"), F("worldName", "text")>>, ServerClientPlayerLeftWorldOrder)

ServerClientRemoveEntityFromWorldOrder == Order(<<F("entityId", "u32"), F("worldName", "text")>>)
ServerClientRemoveEntityFromWorld ==
  Class(8, TRUE, <<F("entityId", "u32"), F("worldName", "text")>>, ServerClientRemoveEntityFromWorldOrder)

ServerClientCharacterSetDetailsOrder ==
  Order(<<F("entityId", "u32"), F("worldName", "text"), F("hair", "text"), F("body", "text"),
          F("clothesTop", "text"), F("clothesBottom", "text"), F("feet", "text")>>)
ServerClientCharacterSetDetails ==
  Class(9, TRUE, <<F("entityId", "u32"), F("worldName", "text"), F("hair", "text"), F("body", "text"),
                  F("clothesTop", "text"), F("clothesBottom", "text"), F("feet", "text")>>,
        ServerClientCharacterSetDetailsOrder)

ClientServerPlayerAuthenticateOrder == Order(<<F("userName", "text"), F("hashedPassword", "text")>>)
ClientServerPlayerAuthenticate ==
  Class(10, TRUE, <<F("userName", "text"), F("hashedPassword", "text")>>, ClientServerPlayerAuthenticateOrder)

ClientServerRequestHashedPasswordOrder == Order(<<F("userName", "text")>>)
ClientServerRequestHashedPassword ==
  Class(11, TRUE, <<F("userName", "text")>>, ClientServerRequestHashedPasswordOrder)

ServerClientSendHashedPasswordOrder == Order(<<F("userName", "text"), F("hashedPassword", "text")>>)
ServerClientSendHashedPassword ==
  Class(12, TRUE, <<F("userName", "text"), F("hashedPassword", "text")>>, ServerClientSendHashedPasswordOrder)

ClientServerChatboxMessageOrder == Order(<<F("message", "text")>>)
ClientServerChatboxMessage == Class(13, TRUE, <<F("message", "text")>>, ClientServerChatboxMessageOrder)

ServerClientChatboxMessageOrder ==
  Order(<<F("username", "text"), F("message", "text"), F("serverTime", "u64")>>)
ServerClientChatboxMessage ==
  Class(14, TRUE, <<F("username", "text"), F("message", "text"), F("serverTime", "u64")>>,
        ServerClientChatboxMessageOrder)

(* PacketFactory::CreatePacket. *)
Classes ==
  {ServerClientLoadWorld, ClientServerWorldLoaded, ServerClientEntityUpdate, ServerClientSetPlayerDetails,
   ClientServerTestUdp, ClientServerEntityUpdate, ServerClientPlayerJoinedWorld, ServerClientPlayerLeftWorld,
   ServerClientRemoveEntityFromWorld, ServerClientCharacterSetDetails, ClientServerPlayerAuthenticate,
   ClientServerRequestHashedPassword, ServerClientSendHashedPassword, ClientServerChatboxMessage,
   ServerClientChatboxMessage}

CreatePacket(number) == CHOOSE c \in Classes : c.number = number

----------------------------------------------------------------------------
(* The entity data inside the two updates of a character. *)

ServerDataWritten ==
  <<F("playerId", "u32"), F("lerp", "bool"), F("x", "i32"), F("y", "i32"), F("stateKey", "u32"),
    F("stateValue", "u32"), F("type", "text"), F("walkSpeed", "u32"), F("runSpeed", "u32")>>

ServerDataRead ==
  <<F("playerId", "u32"), F("lerp", "bool"), F("x", "i32"), F("y", "i32"), F("stateKey", "u32"),
    F("stateValue", "u32"), F("type", "text"), F("walkSpeed", "u32"), F("runSpeed", "u32")>>

ClientDataWritten ==
  <<F("playerId", "u32"), F("world", "text"), F("x", "i32"), F("y", "i32"),
    F("stateKey", "u32"), F("stateValue", "u32")>>

ClientDataRead ==
  <<F("playerId", "u32"), F("world", "text"), F("x", "i32"), F("y", "i32"),
    F("stateKey", "u32"), F("stateValue", "u32")>>

----------------------------------------------------------------------------
(* Writing and reading a list of fields; Packet::GetBytes. *)

WriteFields(fields, values) ==
  FlattenSeq([n \in 1..Len(fields) |-> WriteField(fields[n].kind, values[fields[n].name])])

NamesOf(fields) == {fields[i].name : i \in DOMAIN fields}
IndexOf(fields, name) == CHOOSE i \in DOMAIN fields : fields[i].name = name

(* Each field is read where the one before it ended. *)
ReadFields(fields, bytes) ==
  LET end[n \in 0..Len(fields)] == IF n = 0 THEN 0 ELSE ReadField(fields[n].kind, bytes, end[n - 1]).next
      value(n) == ReadField(fields[n].kind, bytes, end[n - 1]).value
  IN  [name \in NamesOf(fields) |-> value(IndexOf(fields, name))]

PacketSize(p) ==
  LET sized == CreatePacket(p.number).sized
      upTo[n \in 0..Len(sized)] ==
        IF n = 0 THEN 4 + 1 ELSE upTo[n - 1] + SizeOf(sized[n].kind, p.values[sized[n].name])
  IN  upTo[Len(sized)]

GetBytes(p) ==
  BigEndian(PacketSize(p), 4) \o BigEndian(p.number, 1) \o WriteFields(CreatePacket(p.number).written, p.values)

----------------------------------------------------------------------------
(* The packets explored: field i of packet c has the (c + i)-th sample; the
   data of an update, its last field, is that of a character. *)
Sample(fields, c, name) ==
  LET i == IndexOf(fields, name) IN Samples[fields[i].kind][((c + i) % 3) + 1]

Pick(fields, c) == [name \in NamesOf(fields) |-> Sample(fields, c, name)]

EntityData(number, c) ==
  IF number = ServerClientEntityUpdate.number
  THEN WriteFields(ServerDataWritten, Pick(ServerDataWritten, c))
  ELSE WriteFields(ClientDataWritten, Pick(ClientDataWritten, c))

PacketOf(class, c) ==
  [number |-> class.number,
   values |-> [name \in NamesOf(class.written) |->
                 IF name = "entityData" THEN EntityData(class.number, c) ELSE Sample(class.written, c, name)]]

PacketsInit ==
  /\ stream = <<>> /\ datagrams = {} /\ packetsSent = <<>> /\ packetsRead = <<>> /\ heard = {}

(* Only a world sends an update as if it were vital, when the player whose
   character it is shall have it, too. *)
MayBeForced(class) == class = ServerClientEntityUpdate

(* A packet that is vital, or sent as such, goes into the stream, any other
   into a datagram. *)
SendPacket(class, c, forced) ==
  LET p == PacketOf(class, c)
  IN  /\ Len(packetsSent) + Cardinality(datagrams) < MaxPackets
      /\ forced => MayBeForced(class)
      /\ IF class.vital \/ forced
         THEN /\ stream' = stream \o GetBytes(p)
              /\ packetsSent' = Append(packetsSent, p)
              /\ UNCHANGED datagrams
         ELSE /\ datagrams' = datagrams \cup {GetBytes(p)}
              /\ UNCHANGED <<stream, packetsSent>>
      /\ UNCHANGED <<packetsRead, heard>>

(* FromBytes of the class the number stands for, on what follows the header. *)
FromBytes(number, body) ==
  [number |-> number, values |-> ReadFields(CreatePacket(number).read, body)]

(* PacketReceiver::CheckTCPSocket: the size, the type, the rest.  The bytes of
   a packet are there when its first ones are. *)
CheckTCPSocket ==
  /\ stream # <<>>
  /\ LET size == FromBigEndian(SubSeq(stream, 1, 4))
     IN  /\ packetsRead' = Append(packetsRead, FromBytes(stream[5], SubSeq(stream, 6, size)))
         /\ stream' = SubSeq(stream, size + 1, Len(stream))
  /\ UNCHANGED <<datagrams, packetsSent, heard>>

(* PacketReceiver::CheckUDPSocket: the size is skipped, the datagram's own
   counts; it may come again. *)
CheckUDPSocket ==
  /\ \E d \in datagrams : heard' = heard \cup {FromBytes(d[5], SubSeq(d, 6, Len(d)))}
  /\ UNCHANGED <<stream, datagrams, packetsSent, packetsRead>>

PacketsNext ==
  \/ \E class \in Classes, c \in 0..2, forced \in BOOLEAN : SendPacket(class, c, forced)
  \/ CheckTCPSocket
  \/ CheckUDPSocket

PacketsSpec == PacketsInit /\ [][PacketsNext]_packetVars

----------------------------------------------------------------------------
WriteAll(packets) == FlattenSeq([n \in 1..Len(packets) |-> GetBytes(packets[n])])

(* What is read from the stream is what was written to it, field by field and
   in order, however packets of different classes and sizes follow each other:
   the announced size is that of the bytes written.  The stream carries the
   vital classes and the updates that a world forces to a player, 13 classes
   of the 15: the client's updates and UDP tests are always datagrams. *)
ReadsWhatWasWritten ==
  /\ IsPrefix(packetsRead, packetsSent)
  /\ WriteAll(packetsRead) \o stream = WriteAll(packetsSent)

(* Client and server mean the same character: what one side reads out of the
   data of an update is what the other put in, position, state and speeds,
   whether the update came as a datagram or, forced, on the stream. *)
EntityDataIsUnderstood ==
  \A p \in heard \cup Range(packetsRead) :
    /\ p.number = ServerClientEntityUpdate.number =>
         \E c \in 0..2 : ReadFields(ServerDataRead, p.values["entityData"]) = Pick(ServerDataWritten, c)
    /\ p.number = ClientServerEntityUpdate.number =>
         \E c \in 0..2 : ReadFields(ClientDataRead, p.values["entityData"]) = Pick(ClientDataWritten, c)
=============================================================================
