------------------------------- MODULE Frames -------------------------------
(***************************************************************************)
(* longbridge/protocol.cpp: a frame of the Longbridge socket, as bytes.    *)
(*                                                                         *)
(* A header of a length that depends on the kind of packet ends with the   *)
(* 24-bit length of the payload; numbers are big-endian.                   *)
(***************************************************************************)
EXTENDS Naturals, SequencesExt

CONSTANT MaxPayload  \* kMaxFramePayloadLength (256 KB)

\* A length has 24 bits.
ASSUME FramesAssumption == MaxPayload \in Nat /\ MaxPayload < 16777216

Byte == 0..255

\* PacketType
Request == 1
Response == 2
PushPacket == 3

HeaderLength == [type \in {Request, Response, PushPacket} |->
  CASE type = Request -> 11 [] type = Response -> 10 [] OTHER -> 5]

WireFrame(type, command, requestId, payload) ==
  [type |-> type, command |-> command, flags |-> 0, requestId |-> requestId,
   timeout |-> 5000, statusCode |-> 0, payload |-> payload]

WriteU16(value) == <<(value \div 256) % 256, value % 256>>
WriteU24(value) == <<(value \div 65536) % 256>> \o WriteU16(value)
WriteU32(value) == <<(value \div 16777216) % 256>> \o WriteU24(value)

\* The number at the i-th byte; reading past the end of data has no value.
ReadU16(data, i) == 256 * data[i] + data[i + 1]
ReadU24(data, i) == 65536 * data[i] + ReadU16(data, i + 1)
ReadU32(data, i) == 16777216 * data[i] + ReadU24(data, i + 1)

Header(frame) ==
  CASE frame.type = Request  -> WriteU32(frame.requestId) \o WriteU16(frame.timeout)
    [] frame.type = Response -> WriteU32(frame.requestId) \o <<frame.statusCode>>
    [] OTHER                 -> <<>>

EncodeFrame(frame) ==
  <<frame.type + frame.flags, frame.command % 256>> \o Header(frame)
    \o WriteU24(Len(frame.payload)) \o frame.payload

PayloadLength(data, header) == ReadU24(data, header - 2)

\* kVerifyMask, kGzipMask
Unsupported(first) == (first \div 16) % 4 # 0

Decoded(data, type, header) ==
  [type       |-> type,
   command    |-> data[2],
   flags      |-> (data[1] \div 16) * 16,
   requestId  |-> IF type = PushPacket THEN 0 ELSE ReadU32(data, 3),
   timeout    |-> IF type = Request THEN ReadU16(data, 7) ELSE 5000,
   statusCode |-> IF type = Response THEN data[7] ELSE 0,
   payload    |-> SubSeq(data, header + 1, header + PayloadLength(data, header))]

Refused(status) == [status |-> status, frame |-> WireFrame(Request, 0, 0, <<>>)]

DecodeFrame(data, maxPayload) ==
  LET type   == data[1] % 16
      header == HeaderLength[type]
      length == PayloadLength(data, header)
  IN  IF data = <<>> THEN Refused("Incomplete")
      ELSE IF type \notin DOMAIN HeaderLength THEN Refused("BadMagic")
      ELSE IF Len(data) < header THEN Refused("Incomplete")
      ELSE IF Unsupported(data[1]) THEN Refused("UnsupportedVersion")
      ELSE IF length > maxPayload THEN Refused("PayloadTooLarge")
      ELSE IF Len(data) < header + length THEN Refused("Incomplete")
      ELSE [status |-> "Ok", frame |-> Decoded(data, type, header)]

===============================================================================
