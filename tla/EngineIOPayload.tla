---------------------------- MODULE EngineIOPayload ----------------------------
(***************************************************************************)
(* Packets on the wire: EngineIOProtocol on the server, the bundled client *)
(* on the other side.                                                      *)
(*                                                                         *)
(* One side has encoded a list of packets into one request or response of  *)
(* a polling connection, or one packet into a frame of a WebSocket; the    *)
(* other decodes it packet by packet.  The server writes every response in *)
(* the binary form.  The client posts text packets as a text, and in the   *)
(* binary form if one of them is binary.                                   *)
(*                                                                         *)
(* The data of a packet are bytes or a text, a text being a sequence of    *)
(* Unicode code points without lone surrogates, which both sides refuse or *)
(* replace.  What travels is a sequence of bytes, except for text frames   *)
(* and the text of a post, which are characters: the request encodes these *)
(* as UTF-8 and the server decodes them, so that they arrive as they were. *)
(* The length of a text packet is read as decimal digits: what else        *)
(* DecimalFormat accepts (a sign, a fraction, an exponent) occurs only     *)
(* where a payload is misread already.                                     *)
(***************************************************************************)
EXTENDS Integers, Sequences, SequencesExt, FiniteSetsExt

CONSTANTS
  ClientPackets,  \* packets that the client sends
  ServerPackets,  \* packets that the server sends
  MaxPackets,     \* bound: packets in a payload
  Ways            \* which payloads are looked at, a subset of AllWays

CLOSE == 1
PING == 2
MESSAGE == 4
UPGRADE == 5
NOOP == 6

Frames  == {"frameUp", "frameDown"}
AllWays == {"textPost", "binaryPost", "response"} \cup Frames
Bytes   == 0 .. 255

\* Characters; a surrogate alone is none.
Surrogates == 55296 .. 57343
CodePoints == {c \in Nat : c <= 1114111 /\ c \notin Surrogates}

Packets ==
  {p \in [type : 0 .. 6, binary : BOOLEAN, data : Seq(Bytes) \cup Seq(CodePoints)] :
     /\ p.data \in Seq(IF p.binary THEN Bytes ELSE CodePoints)
     /\ p.binary => p.type = MESSAGE}

\* The client sends no other types, and data only with two of them.
ASSUME PayloadAssumption ==
  /\ ClientPackets \cup ServerPackets \subseteq Packets
  /\ \A p \in ClientPackets :
       /\ p.type \in {CLOSE, PING, MESSAGE, UPGRADE}
       /\ p.type \in {CLOSE, UPGRADE} => p.data = <<>>
  /\ Ways \subseteq AllWays
  /\ MaxPackets \in Nat

VARIABLES
  way,     \* which kind of payload
  sent,    \* the packets in it
  payload, \* what is sent of them
  pos,     \* how much of it the decoder has consumed
  got,     \* the packets decoded so far
  status   \* of the decoder

vars == <<way, sent, payload, pos, got, status>>

-----------------------------------------------------------------------------
\* UTF-8, as the client writes and reads it and String.getBytes writes it.

\* The six bits of c from a place on.
CreateByte(c, place) == 128 + ((c \div place) % 64)

EncodeCodePoint(c) ==
  IF c < 128 THEN <<c>>
  ELSE IF c < 2048 THEN <<192 + c \div 64, CreateByte(c, 1)>>
  ELSE IF c < 65536
  THEN <<224 + c \div 4096, CreateByte(c, 64), CreateByte(c, 1)>>
  ELSE <<240 + c \div 262144, CreateByte(c, 4096), CreateByte(c, 64), CreateByte(c, 1)>>

UTF8(text) == FlattenSeq([i \in DOMAIN text |-> EncodeCodePoint(text[i])])

\* A reader of bytes: the text so far; of the symbol it is at, the bits it has
\* read, how many bytes are missing and the least code that needs so many.
NewReader == [text |-> <<>>, code |-> 0, missing |-> 0, least |-> 0, result |-> "ok"]

\* One more byte of a symbol.  What the code throws an error at is remembered.
NextCode(code, b) == 64 * code + (b % 64)

ContinuationBytes == 128 .. 191

Throws(r, b) ==
  \/ b \notin ContinuationBytes
  \/ r.missing = 1 /\ (NextCode(r.code, b) < r.least \/ NextCode(r.code, b) \notin CodePoints)

Continue(r, b) ==
  [text    |-> IF r.missing = 1 THEN Append(r.text, NextCode(r.code, b)) ELSE r.text,
   code    |-> NextCode(r.code, b),
   missing |-> r.missing - 1,
   least   |-> r.least,
   result  |-> IF Throws(r, b) THEN "error" ELSE r.result]

\* The first byte of a symbol tells how many follow.
Begin(r, text, bits, missing, least) ==
  [text |-> text, code |-> bits, missing |-> missing, least |-> least, result |-> r.result]

FirstByte(r, b) ==
  IF b < 128 THEN Begin(r, Append(r.text, b), b, 0, 0)
  ELSE IF b \in 192 .. 223 THEN Begin(r, r.text, b % 32, 1, 128)
  ELSE IF b \in 224 .. 239 THEN Begin(r, r.text, b % 16, 2, 2048)
  ELSE IF b \in 240 .. 247 THEN Begin(r, r.text, b % 8, 3, 65536)
  ELSE [r EXCEPT !.result = "error"]

DecodeSymbol(r, b) == IF r.missing = 0 THEN FirstByte(r, b) ELSE Continue(r, b)

UTF8Decode(bytes) == FoldLeft(DecodeSymbol, NewReader, bytes)

Invalid(r) == r.result = "error" \/ r.missing # 0

-----------------------------------------------------------------------------
\* Encoders.

\* Decimal digits of a length.
Digits[n \in Nat] == IF n < 10 THEN <<n>> ELSE Append(Digits[n \div 10], n % 10)

ASCII(digits) == [i \in DOMAIN digits |-> digits[i] + 48]

Colon     == 58
Separator == 255

\* A text packet starts with the character of its type, a binary one with
\* the number itself.
TypeOf(p) == IF p.binary THEN p.type ELSE p.type + 48

Octets(p) == IF p.binary THEN p.data ELSE UTF8(p.data)

Body(p) == <<TypeOf(p)>> \o Octets(p)

\* The client: encodePayload.
ClientText(p) == ASCII(Digits[Len(Body(p))]) \o <<Colon>> \o Body(p)

\* The client: encodePayloadAsArrayBuffer and encodePayloadAsBlob.
ClientBinary(p) ==
  <<IF p.binary THEN 1 ELSE 0>> \o Digits[Len(Body(p))] \o <<Separator>> \o Body(p)

\* A length that counts characters.
EncodeTextLength(p) == Digits[Len(p.data) + 1]

\* The server: binaryEncode, encodeLength.
EncodeLength(p) == Digits[Len(Octets(p)) + 1]

BinaryEncode(p) ==
  <<IF p.binary THEN 1 ELSE 0>> \o EncodeLength(p) \o <<Separator, TypeOf(p)>> \o Octets(p)

\* A frame of a WebSocket, of which either side knows whether it is a text.
Frame(p) == <<TypeOf(p)>> \o p.data

Payload(w, ps) ==
  LET Encode(p) == CASE w = "textPost"   -> ClientText(p)
                   [] w = "binaryPost" -> ClientBinary(p)
                   [] w = "response"    -> BinaryEncode(p)
                   [] w \in Frames      -> Frame(p)
  IN FlattenSeq([i \in DOMAIN ps |-> Encode(ps[i])])

Written(w, ps) ==
  /\ ps \in Seq(IF w \in {"response", "frameDown"} THEN ServerPackets ELSE ClientPackets)
  /\ w = "textPost" => \A i \in DOMAIN ps : ~ps[i].binary
  /\ w = "binaryPost" => \E i \in DOMAIN ps : ps[i].binary
  /\ w \in Frames => Len(ps) = 1

Init ==
  /\ way \in Ways
  /\ sent \in BoundedSeq(ClientPackets \cup ServerPackets, MaxPackets)
  /\ Written(way, sent) /\ sent # <<>>
  /\ payload = Payload(way, sent)
  /\ pos = 0
  /\ got = <<>>
  /\ status = "running"

-----------------------------------------------------------------------------
\* Reading.

\* How many of the bytes after position p are in S, up to the first that is not.
Run(p, S) ==
  LET stops == {i \in p + 1 .. Len(payload) : payload[i] \notin S}
  IN (IF stops = {} THEN Len(payload) ELSE Min(stops) - 1) - p

Number(digits) == FoldLeft(LAMBDA n, d : 10 * n + d, 0, digits)

Data(first, last) == SubSeq(payload, first, last)

Stop(s) == status' = s /\ UNCHANGED <<way, sent, payload, pos, got>>

Deliver(packet, p) ==
  /\ got' = Append(got, packet)
  /\ pos' = p
  /\ UNCHANGED <<way, sent, payload, status>>

\* The loops of both decoders end at the end of the payload.
AtEnd == pos >= Len(payload)

-----------------------------------------------------------------------------
\* decodePayload: a text posted by the client.

\* A PING that forgets its data, which the PONG has to repeat.
PingWithoutData(type, data) ==
  [type |-> type, binary |-> FALSE,
   data |-> IF type = MESSAGE THEN data ELSE <<>>]

TextPacket(type, data) ==
  [type |-> type, binary |-> FALSE,
   data |-> IF type \in {PING, MESSAGE} THEN data ELSE <<>>]

\* pos.setIndex(idx + 1 + len), although the type was consumed already.
NextPacket(idx, len) == idx + 1 + len

DecodeText ==
  LET digits == Run(pos, 48 .. 57)
      len    == Number([i \in 1 .. digits |-> payload[pos + i] - 48])
      colon  == pos + digits + 1
      idx    == colon + 1            \* what decodePacketType has consumed
      type   == payload[idx] - 48
      last   == idx + len - 1
  IN IF digits = 0
     THEN Stop("rejected")           \* no packet length defined
     ELSE IF \/ idx > Len(payload)   \* substring fails
             \/ type \notin 0 .. 9   \* parseInt fails
             \/ len < 1 \/ last > Len(payload)
     THEN Stop("crashed")
     ELSE IF type \notin {CLOSE, PING, MESSAGE, UPGRADE, NOOP}
     THEN Stop("rejected")
     ELSE Deliver(TextPacket(type, Data(idx + 1, last)), NextPacket(idx, len))

Text == /\ way = "textPost" /\ status = "running"
        /\ IF AtEnd THEN Stop("done") ELSE DecodeText

-----------------------------------------------------------------------------
\* binaryDecodePayload: a binary payload posted by the client.

\* The marker is read once, before the loop.
ReadMarker ==
  IF payload[1] = 1
  THEN pos' = 1 /\ UNCHANGED <<way, sent, payload, got, status>>
  ELSE Stop("rejected")

\* The data of a packet without the last byte.
ReadShort(first, len) == Data(first, first + len - 3)

\* readFully of len - 1 bytes: the type is a part of the length.
ReadFully(first, len) == Data(first, first + len - 2)

DecodeBinary ==
  LET digits == Run(pos, 0 .. 9)
      len    == Number(Data(pos + 1, pos + digits))
      idx    == pos + digits + 2     \* after the byte that ends the length
      last   == idx + len - 1
  IN IF pos + digits = Len(payload)
     THEN Stop("done")               \* end of stream while reading a length
     ELSE IF len = 0 \/ idx > Len(payload)
     THEN Stop("rejected")
     ELSE IF last > Len(payload)
     THEN Stop("crashed")            \* readFully fails
     ELSE IF payload[idx] # MESSAGE
     THEN Stop("rejected")
     ELSE Deliver([type |-> MESSAGE, binary |-> TRUE,
                   data |-> ReadFully(idx + 1, len)], last)

Binary == /\ way = "binaryPost" /\ status = "running"
          /\ IF pos = 0 THEN ReadMarker ELSE DecodeBinary

-----------------------------------------------------------------------------
\* The client: decodePayloadAsBinary of a response.

\* slice() and substr() end where the payload ends.
DecodeResponse ==
  LET binary == payload[pos + 1] # 0
      digits == Run(pos + 1, Bytes \ {Separator})
      len    == Number(Data(pos + 2, pos + 1 + digits))
      idx    == pos + digits + 3
      last   == Min({idx + len - 1, Len(payload)})
      type   == payload[idx] - (IF binary THEN 0 ELSE 48)
      text   == UTF8Decode(Data(idx + 1, last))
  IN IF \/ idx > Len(payload) \/ type \notin 0 .. 6
        \/ ~binary /\ Invalid(text)
     THEN Stop("rejected")
     ELSE Deliver([type |-> type, binary |-> binary,
                   data |-> IF binary THEN Data(idx + 1, last) ELSE text.text], last)

Response == /\ way = "response" /\ status = "running"
            /\ IF AtEnd THEN Stop("done") ELSE DecodeResponse

-----------------------------------------------------------------------------
\* A frame holds one packet; its text is taken as it is.
DecodeFrame ==
  LET binary == sent[1].binary
      type   == payload[1] - (IF binary THEN 0 ELSE 48)
  IN IF type \notin 0 .. 6
     THEN Stop("rejected")
     ELSE Deliver([type |-> type, binary |-> binary, data |-> Data(2, Len(payload))],
                  Len(payload))

FrameArrives == /\ way \in Frames /\ status = "running"
                /\ IF AtEnd THEN Stop("done") ELSE DecodeFrame

-----------------------------------------------------------------------------
Next == Text \/ Binary \/ Response \/ FrameArrives

Spec == Init /\ [][Next]_vars

-----------------------------------------------------------------------------
\* Properties.

\* What the server is told of a packet.  Except: a text that is posted as a text
\* was encoded as UTF-8 twice and decoded once, and arrives as the characters
\* that stand for its bytes.
Received(p) ==
  IF way = "textPost" THEN [p EXCEPT !.data = UTF8(@)] ELSE p

Intact ==
  status # "running" =>
    status = "done" /\ got = [i \in DOMAIN sent |-> Received(sent[i])]

\* The client decodes from a response or a frame what the server encoded,
\* whatever the data are: bytes that look like separators and digits, texts
\* whose characters take several bytes.
ServerIntact == way \in {"response", "frameDown"} => Intact

\* A post or a frame with a single packet reaches the server as it was sent.
SingleIntact == way \notin {"response", "frameDown"} /\ Len(sent) = 1 => Intact

\* Whatever a payload is misread as, its first packet is the one that was sent.
FirstPacketRight == got # <<>> => got[1] = Received(sent[1])
=============================================================================
