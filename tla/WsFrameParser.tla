---------------------------- MODULE WsFrameParser ----------------------------
(***************************************************************************)
(* The streaming frame parser of one connection, at the byte level:        *)
(* Conn.readHeader (src/unnamed/part_000 lines 104-175), the payload step  *)
(* the design describes (section 4.4), and the read loop of                *)
(* processWebsocketFrame (lines 655-728) that feeds them whatever the      *)
(* socket has delivered.  The peer sends a fixed list of frames; TCP hands *)
(* their bytes over in chunks of any size, which is the partition the      *)
(* parser must be insensitive to.                                          *)
(***************************************************************************)
EXTENDS Integers, Sequences, SequencesExt, Bitwise

CONSTANTS
  Streams,   \* the frame lists a peer may send (records, see FrameType)
  MaxChunk   \* the most bytes one TCP segment delivers

VARIABLES
  frames,    \* the frames the peer sent (fixed for a behaviour)
  arrived,   \* bytes of the stream the kernel holds for the socket
  rw,        \* len(c.rbuf): bytes read into the read buffer
  ri,        \* c.ri: the read index
  curState,  \* c.curState
  haveSize,  \* c.haveSize: extended length and mask key bytes to decode
  rh,        \* c.rh: the header being decoded
  emitted    \* history: the frames handed on to processCallback

vars == <<frames, arrived, rw, ri, curState, haveSize, rh, emitted>>

frameStateHeaderStart == "HeaderStart"
frameStateHeaderPayloadAndMask == "HeaderPayloadAndMask"
frameStatePayload == "Payload"

FrameType ==
  [fin : BOOLEAN, opcode : 0..15, mask : BOOLEAN, key : Seq(0..255),
   ext16 : BOOLEAN, payload : Seq(0..255)]

-----------------------------------------------------------------------------
(* The peer's encoder (RFC 6455 section 5.2), used to build the wire.      *)
(* ext16 sends the length in the two-byte form.                            *)
KeyByte(key, i) == key[((i - 1) % 4) + 1]
Encode(fr) ==
  LET n == Len(fr.payload)
      b0 == (IF fr.fin THEN 128 ELSE 0) + fr.opcode
      b1 == (IF fr.mask THEN 128 ELSE 0) + (IF fr.ext16 THEN 126 ELSE n)
      ext == IF fr.ext16 THEN <<n \div 256, n % 256>> ELSE <<>>
      body == IF fr.mask
                THEN [i \in 1..n |-> fr.payload[i] ^^ KeyByte(fr.key, i)]
                ELSE fr.payload
  IN <<b0, b1>> \o ext \o (IF fr.mask THEN fr.key ELSE <<>>) \o body

wire == FoldLeft(LAMBDA w, fr : w \o Encode(fr), <<>>, frames)

(* What the parser must hand on: each frame's first byte and its payload.  *)
Expected == [i \in 1..Len(frames) |->
               [head |-> Encode(frames[i])[1], payload |-> frames[i].payload]]

-----------------------------------------------------------------------------
(* binary.BigEndian / binary.LittleEndian over the bytes of the buffer.    *)
BigEndian(s) == FoldLeft(LAMBDA v, b : v * 256 + b, 0, s)
LittleEndian(s) == FoldLeft(LAMBDA v, b : v * 256 + b, 0, Reverse(s))

(* The parser's registers, as one record so that one call of readHeader   *)
(* or of the payload step is a function from registers to registers.     *)
Regs == [rw |-> rw, ri |-> ri, curState |-> curState, haveSize |-> haveSize,
         rh |-> rh, emitted |-> emitted]

(* Mutant: the two header bytes are not consumed (c.ri += 2 dropped).     *)
readHeaderKeepsRi(r) ==
  LET b1 == wire[r.ri + 2]
      mask == (b1 & 128) > 0
      len7 == b1 & 127
      hdr == [head |-> wire[r.ri + 1], opcode |-> wire[r.ri + 1] & 15, mask |-> mask,
              payloadLen |-> len7, maskKey |-> r.rh.maskKey]
  IN IF r.curState # frameStateHeaderStart \/ r.rw - r.ri < 2 \/ (len7 = 0 /\ ~mask)
       THEN r
       ELSE [r EXCEPT !.rh = hdr, !.curState = frameStatePayload]

(* readHeader.  rbuf holds the first r.rw bytes of the wire.  From           *)
(* HeaderStart it decodes the first two bytes; a frame with no payload and *)
(* no mask returns there with nothing consumed.  From                      *)
(* HeaderPayloadAndMask it decodes the extended length and the mask key    *)
(* without moving ri.                                                      *)
readHeader(r) ==
  LET b0 == wire[r.ri + 1]
      b1 == wire[r.ri + 2]
      mask == (b1 & 128) > 0
      len7 == b1 & 127
      have == (IF mask THEN 4 ELSE 0)
              + (CASE len7 = 126 -> 2 [] len7 = 127 -> 8 [] OTHER -> 0)
      hdr == [head |-> b0, opcode |-> b0 & 15, mask |-> mask,
              payloadLen |-> len7, maskKey |-> r.rh.maskKey]
      s1 == IF r.curState # frameStateHeaderStart \/ r.rw - r.ri < 2 THEN r
            ELSE IF len7 = 0 /\ ~mask THEN [r EXCEPT !.rh = hdr]
            ELSE [r EXCEPT !.rh = hdr, !.curState = frameStateHeaderPayloadAndMask,
                           !.haveSize = have, !.ri = r.ri + 2]
      bytes == SubSeq(wire, s1.ri + 1, s1.ri + s1.haveSize)
      extLen == CASE s1.rh.payloadLen = 126 -> 2
                  [] s1.rh.payloadLen = 127 -> 8
                  [] OTHER -> 0
      len == IF extLen = 0 THEN s1.rh.payloadLen ELSE BigEndian(SubSeq(bytes, 1, extLen))
      key == IF s1.rh.mask
               THEN LittleEndian(SubSeq(bytes, extLen + 1, extLen + 4))
               ELSE s1.rh.maskKey
  IN IF s1.curState # frameStateHeaderPayloadAndMask \/ s1.rw - s1.ri < s1.haveSize
       THEN s1
       ELSE [s1 EXCEPT !.rh = [@ EXCEPT !.payloadLen = len, !.maskKey = key],
                       !.curState = frameStatePayload]

(* Mutant: the read index moves one byte past the payload.                *)
readPayloadOffByOne(r) ==
  LET n == r.rh.payloadLen
      raw == SubSeq(wire, r.ri + 1, r.ri + n)
  IN [r EXCEPT !.emitted = Append(@, [head |-> r.rh.head, payload |-> raw]),
               !.ri = r.ri + n + 1, !.curState = frameStateHeaderStart]

(* The payload step (readPayloadAndCallback, design section 4.4): once     *)
(* payloadLen bytes follow ri, unmask them with the key's bytes in wire    *)
(* order, hand the frame on, advance ri and start the next header.         *)
readPayload(r) ==
  LET n == r.rh.payloadLen
      keyByte(i) == (r.rh.maskKey \div (2 ^ (8 * ((i - 1) % 4)))) % 256
      raw == SubSeq(wire, r.ri + 1, r.ri + n)
      payload == IF r.rh.mask THEN [i \in 1..n |-> raw[i] ^^ keyByte(i)] ELSE raw
  IN [r EXCEPT !.emitted = Append(@, [head |-> r.rh.head, payload |-> payload]),
               !.ri = r.ri + n, !.curState = frameStateHeaderStart]

PayloadReady(r) == r.curState = frameStatePayload /\ r.rw - r.ri >= r.rh.payloadLen

(* Mutant: one readable event parses at most one frame.                   *)
ParseOnce(r) ==
  LET h == readHeader(r) IN
  IF h.curState = frameStatePayload /\ PayloadReady(h) THEN readPayload(h) ELSE h

(* The parse loop of processWebsocketFrame: readHeader, then the payload   *)
(* step, for as long as both succeed.                                      *)
RECURSIVE ParseLoop(_)
ParseLoop(r) ==
  LET h == readHeader(r) IN
  IF h.curState = frameStatePayload /\ PayloadReady(h)
    THEN ParseLoop(readPayload(h))
    ELSE h

-----------------------------------------------------------------------------
(* The peer's TCP stack delivers the next segment of the stream.           *)
Arrive ==
  \E n \in 1..MaxChunk :
    /\ arrived + n <= Len(wire)
    /\ arrived' = arrived + n
    /\ UNCHANGED <<frames, rw, ri, curState, haveSize, rh, emitted>>

(* A readable event: processWebsocketFrame reads until EAGAIN (the kernel *)
(* hands over every byte it holds), then runs readHeader and the payload  *)
(* step for as long as both succeed.                                       *)
processWebsocketFrame ==
  /\ arrived > rw
  /\ rw' = arrived
  /\ \E r \in {ParseLoop([Regs EXCEPT !.rw = arrived])} :
       /\ ri' = r.ri /\ curState' = r.curState /\ haveSize' = r.haveSize
       /\ rh' = r.rh /\ emitted' = r.emitted
  /\ UNCHANGED <<frames, arrived>>

NoHeader == [head |-> 0, opcode |-> 0, mask |-> FALSE, payloadLen |-> 0, maskKey |-> 0]

Init ==
  /\ frames \in Streams
  /\ arrived = 0 /\ rw = 0 /\ ri = 0
  /\ curState = frameStateHeaderStart /\ haveSize = 0
  /\ rh = NoHeader /\ emitted = <<>>

Next == Arrive \/ processWebsocketFrame

(* The reactor polls continuously and epoll is level-triggered (addRead   *)
(* registers EPOLLIN without EPOLLET), so a pending readable event is     *)
(* eventually handled: weak fairness of processWebsocketFrame, written    *)
(* with its enabling condition (ENABLED <<processWebsocketFrame>>_vars is *)
(* arrived > rw) so that TLC need not evaluate the parse loop to decide   *)
(* it.  The peer's TCP stack eventually delivers what was sent.           *)
ReadFairness == <>[](arrived > rw) => []<><<processWebsocketFrame>>_vars

Spec == Init /\ [][Next]_vars /\ WF_vars(Arrive) /\ ReadFairness

-----------------------------------------------------------------------------
(* Type invariant.                                                         *)
TypeOK ==
  /\ frames \in Streams
  /\ arrived \in 0..Len(wire) /\ rw \in 0..arrived /\ ri \in 0..rw
  /\ curState \in {frameStateHeaderStart, frameStateHeaderPayloadAndMask, frameStatePayload}
  /\ haveSize \in {0, 2, 4, 6, 8, 12}
  /\ emitted \in Seq([head : 0..255, payload : Seq(0..255)])

(* Whatever chunks TCP cuts the stream into, every frame readHeader and   *)
(* the payload step hand on is the next frame the peer sent, with its     *)
(* payload unmasked: the parser never invents, skips or garbles a frame.  *)
ParsedFramesArePrefix == IsPrefix(emitted, Expected)

(* Every frame the peer sent is eventually handed on: the read loop never *)
(* stalls on a header it has all the bytes of.                            *)
AllFramesParsed == <>(emitted = Expected)

=============================================================================
