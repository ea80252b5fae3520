---------------------------- MODULE WsDispatcher ----------------------------
(***************************************************************************)
(* The message dispatcher of one connection: Conn.processCallback of       *)
(* src/unnamed/part_000 (lines 202-344), with writeErrAndOnClose,          *)
(* WriteTimeout, failRsv1, decode and the control-frame branch of          *)
(* WriteMessage it calls.  Each step hands it one complete frame, as the   *)
(* read loop (processWebsocketFrame) does after the parser has cut one out *)
(* of the read buffer.                                                     *)
(*                                                                         *)
(* Bytes are abstracted to tokens: "a" an ASCII byte, "h" the lead byte of *)
(* a two-byte UTF-8 sequence, "t" a continuation byte, "blob" a run of 126 *)
(* ASCII bytes, "za"/"zh"/"zt" the deflated form of "a"/"h"/"t", and      *)
(* "c1000", "c1005", ... the two big-endian bytes of a close status code.  *)
(***************************************************************************)
EXTENDS Integers, Sequences, SequencesExt

CONSTANTS
  Frames,     \* the frames the peer may send (records, see FrameType)
  Configs,    \* the connection configurations the program may run with
  MaxFrames   \* bound on the number of frames dispatched

VARIABLES
  conf,         \* the connection's Config (fixed once the connection exists)
  fragHeader,   \* c.fragmentFrameHeader: NoHeader or the saved first header
  fragPayload,  \* c.fragmentFramePayload
  received,     \* history: the frames handed to processCallback, in order
  rets,         \* history: the error processCallback returned for each frame
  trace         \* history: callbacks and frame writes, in the order they ran

vars == <<conf, fragHeader, fragPayload, received, rets, trace>>

-----------------------------------------------------------------------------
(* Opcodes (wsutil/opcode) and status codes used by the dispatcher.        *)
Continuation == 0
Text == 1
Binary == 2
Close == 8
Ping == 9
Pong == 10
IsControl(op) == op \in {Close, Ping, Pong}
maxControlFrameSize == 125
NormalClosure == 1000
ProtocolError == 1002

PlainTokens == {"a", "h", "t", "blob"}
Deflated == [za |-> "a", zh |-> "h", zt |-> "t"]
(* The two-byte close status codes: statusCodeToBytes and its inverse     *)
(* binary.BigEndian.Uint16.                                                *)
StatusBytes == [c1000 |-> 1000, c1002 |-> 1002, c1005 |-> 1005, c1007 |-> 1007]
statusCodeToBytes(code) == CHOOSE t \in DOMAIN StatusBytes : StatusBytes[t] = code
Tokens == PlainTokens \cup DOMAIN Deflated \cup DOMAIN StatusBytes

NoHeader == [opcode |-> -1, rsv1 |-> FALSE]
Nil == "nil"
Errors == {"ErrRsv123", "ErrFrameOpcode", "ErrTextNotUTF8", "ErrDecode",
           "ErrMaxControlFrameSize", "ErrNOTBeFragmented",
           "ErrClosePayloadTooSmall", "ErrCloseValue",
           "ErrOpcode", "ErrIO", "CloseErrMsg"}

(* Number of wire bytes a token stands for; PayloadLen of a frame.         *)
TokenLen(x) == IF x \in DOMAIN StatusBytes THEN 2 ELSE IF x = "blob" THEN 126 ELSE 1
PayloadLen(s) == FoldLeft(LAMBDA n, x : n + TokenLen(x), 0, s)

(* utf8.Valid over the token alphabet: every lead byte is followed by      *)
(* exactly one continuation byte; deflated bytes and codes are not text.   *)
Utf8Valid(s) ==
  \A i \in 1..Len(s) :
    /\ s[i] \in PlainTokens
    /\ s[i] = "h" => i < Len(s) /\ s[i+1] = "t"
    /\ s[i] = "t" => i > 1 /\ s[i-1] = "h"

(* c.utf8Check: utf8.Valid when enabled, a check that accepts everything   *)
(* otherwise.                                                              *)
utf8Check(s) == ~conf.utf8Check \/ Utf8Valid(s)

(* validCode: the close codes RFC 6455 allows on the wire.                 *)
validCode(code) ==
  code \in {1000, 1001, 1002, 1003} \cup (1007..1011) \cup (3000..4999)

(* decode: inflate with no context takeover.  It fails on bytes that are   *)
(* not deflate output.                                                     *)
DecodeOk(s) == \A i \in 1..Len(s) : s[i] \in DOMAIN Deflated
decode(s) == [i \in 1..Len(s) |-> Deflated[s[i]]]

(* failRsv1: RSV1 is allowed only on Text/Binary with decompression on.    *)
failRsv1(op) == ~conf.decompression \/ op \notin {Text, Binary}

FrameType ==
  [fin : BOOLEAN, rsv1 : BOOLEAN, rsv23 : BOOLEAN,
   opcode : 0..15, payload : Seq(Tokens)]

-----------------------------------------------------------------------------
(* Trace entries.                                                          *)
OnMessage(op, data) == [ev |-> "msg", op |-> op, data |-> data, at |-> Len(received')]
OnClose(err) == [ev |-> "close", err |-> err, at |-> Len(received')]
(* WriteMessage/WriteTimeout of a control frame: the frame is handed to    *)
(* conn.Write, which either succeeds (EAGAIN included: the rest is         *)
(* buffered) or fails with an I/O error.                                   *)
Written(op, data, ok) == [ev |-> "write", op |-> op, data |-> data, ok |-> ok,
                          at |-> Len(received')]

(* writeErrAndOnClose(code, userErr): write Close(code), then (deferred)   *)
(* OnClose(userErr); return the write error, else userErr.                 *)
writeErrAndOnClose(code, userErr, wok) ==
  [evs |-> <<Written(Close, <<statusCodeToBytes(code)>>, wok), OnClose(userErr)>>,
   ret |-> IF wok THEN userErr ELSE "ErrIO"]

(* The step's effect on the history variables.                             *)
Emit(evs, ret) ==
  /\ trace' = trace \o evs
  /\ rets' = Append(rets, ret)

-----------------------------------------------------------------------------
(* processCallback, one branch per path through the code.                  *)

(* The opcode the RSV1 check is made against: the fragment's when one is   *)
(* in progress, whatever the frame.                                        *)
RsvOpcode(f) == IF fragHeader # NoHeader THEN fragHeader.opcode ELSE f.opcode
RsvFails(f) == (f.rsv1 /\ failRsv1(RsvOpcode(f))) \/ f.rsv23

RejectRsv(f, wok) ==
  LET r == writeErrAndOnClose(ProtocolError, "ErrRsv123", wok) IN
  /\ RsvFails(f)
  /\ Emit(r.evs, r.ret)
  /\ UNCHANGED <<fragHeader, fragPayload>>

(* Mutant: the final continuation does not clear the saved header.        *)
ContinueFragmentKeepsHeader(f) ==
  LET buf == fragPayload \o f.payload
      inflate == fragHeader.rsv1 /\ conf.decompression
      data == IF inflate THEN decode(buf) ELSE buf
  IN
  /\ ~RsvFails(f)
  /\ fragHeader # NoHeader /\ ~IsControl(f.opcode) /\ f.opcode = Continuation
  /\ \/ /\ ~f.fin
        /\ fragPayload' = buf /\ Emit(<<>>, Nil)
     \/ /\ f.fin /\ inflate /\ ~DecodeOk(buf)
        /\ fragPayload' = buf /\ Emit(<<>>, "ErrDecode")
     \/ /\ f.fin /\ (~inflate \/ DecodeOk(buf))
        /\ fragHeader.opcode = Text /\ ~utf8Check(data)
        /\ fragPayload' = data
        /\ Emit(<<OnClose("ErrTextNotUTF8")>>, "ErrTextNotUTF8")
     \/ /\ f.fin /\ (~inflate \/ DecodeOk(buf))
        /\ fragHeader.opcode = Text => utf8Check(data)
        /\ Emit(<<OnMessage(fragHeader.opcode, data)>>, Nil)
        /\ fragPayload' = <<>>
  /\ UNCHANGED fragHeader

(* A continuation frame while a fragmented message is in progress.  On the *)
(* final frame the assembled payload is decoded, checked and delivered.    *)
ContinueFragment(f) ==
  LET buf == fragPayload \o f.payload
      inflate == fragHeader.rsv1 /\ conf.decompression
      data == IF inflate THEN decode(buf) ELSE buf
  IN
  /\ ~RsvFails(f)
  /\ fragHeader # NoHeader /\ ~IsControl(f.opcode) /\ f.opcode = Continuation
  /\ \/ /\ ~f.fin
        /\ fragPayload' = buf /\ Emit(<<>>, Nil)
        /\ UNCHANGED fragHeader
     \/ /\ f.fin /\ inflate /\ ~DecodeOk(buf)
        /\ fragPayload' = buf /\ Emit(<<>>, "ErrDecode")
        /\ UNCHANGED fragHeader
     \/ /\ f.fin /\ (~inflate \/ DecodeOk(buf))
        /\ fragHeader.opcode = Text /\ ~utf8Check(data)
        /\ fragPayload' = data
        /\ Emit(<<OnClose("ErrTextNotUTF8")>>, "ErrTextNotUTF8")
        /\ UNCHANGED fragHeader
     \/ /\ f.fin /\ (~inflate \/ DecodeOk(buf))
        /\ fragHeader.opcode = Text => utf8Check(data)
        /\ Emit(<<OnMessage(fragHeader.opcode, data)>>, Nil)
        /\ fragPayload' = <<>> /\ fragHeader' = NoHeader

(* A data frame other than a continuation while a fragment is in progress. *)
RejectFragmentOpcode(f, wok) ==
  LET r == writeErrAndOnClose(ProtocolError, "ErrFrameOpcode", wok) IN
  /\ ~RsvFails(f)
  /\ fragHeader # NoHeader /\ ~IsControl(f.opcode) /\ f.opcode # Continuation
  /\ Emit(r.evs, "ErrFrameOpcode")
  /\ UNCHANGED <<fragHeader, fragPayload>>

(* Mutant: any non-final frame starts a fragmented message.               *)
StartFragmentAnyOpcode(f) ==
  /\ ~RsvFails(f)
  /\ fragHeader = NoHeader /\ ~f.fin
  /\ fragPayload' = IF fragPayload = <<>> THEN f.payload ELSE fragPayload
  /\ fragHeader' = [opcode |-> f.opcode, rsv1 |-> f.rsv1]
  /\ Emit(<<>>, Nil)

(* The first frame of a fragmented Text/Binary message: keep its header,   *)
(* and its payload when the fragment buffer is empty.                      *)
StartFragment(f) ==
  /\ ~RsvFails(f)
  /\ fragHeader = NoHeader /\ f.opcode \in {Text, Binary} /\ ~f.fin
  /\ fragPayload' = IF fragPayload = <<>> THEN f.payload ELSE fragPayload
  /\ fragHeader' = [opcode |-> f.opcode, rsv1 |-> f.rsv1]
  /\ Emit(<<>>, Nil)

(* An unfragmented Text/Binary message.  c.Close() of this package is a    *)
(* no-op, so the UTF-8 failure path only calls OnClose.                    *)
SingleMessage(f) ==
  LET inflate == f.rsv1 /\ conf.decompression
      data == IF inflate THEN decode(f.payload) ELSE f.payload
  IN
  /\ ~RsvFails(f)
  /\ fragHeader = NoHeader /\ f.opcode \in {Text, Binary} /\ f.fin
  /\ \/ /\ inflate /\ ~DecodeOk(f.payload)
        /\ Emit(<<>>, "ErrDecode")
     \/ /\ ~inflate \/ DecodeOk(f.payload)
        /\ f.opcode = Text /\ ~utf8Check(data)
        /\ Emit(<<OnClose("ErrTextNotUTF8")>>, "ErrTextNotUTF8")
     \/ /\ ~inflate \/ DecodeOk(f.payload)
        /\ f.opcode = Text => utf8Check(data)
        /\ Emit(<<OnMessage(f.opcode, data)>>, Nil)
  /\ UNCHANGED <<fragHeader, fragPayload>>

(* A control frame that is too long or not final: the write's error is    *)
(* dropped and the check's error returned.                                 *)
RejectControl(f, wok) ==
  LET err == IF PayloadLen(f.payload) > maxControlFrameSize
               THEN "ErrMaxControlFrameSize" ELSE "ErrNOTBeFragmented"
  IN
  /\ ~RsvFails(f) /\ IsControl(f.opcode)
  /\ PayloadLen(f.payload) > maxControlFrameSize \/ ~f.fin
  /\ Emit(writeErrAndOnClose(ProtocolError, err, wok).evs, err)
  /\ UNCHANGED <<fragHeader, fragPayload>>

ControlOk(f) ==
  /\ ~RsvFails(f) /\ IsControl(f.opcode)
  /\ PayloadLen(f.payload) <= maxControlFrameSize /\ f.fin

(* A Close frame: the payload checks, then the echo and OnClose.  A failed *)
(* echo returns before OnClose.                                            *)
CloseFrame(f, wok) ==
  LET n == PayloadLen(f.payload)
      reject(code, err) ==
        LET r == writeErrAndOnClose(code, err, wok) IN Emit(r.evs, r.ret)
  IN
  /\ ControlOk(f) /\ f.opcode = Close
  /\ \/ n = 0 /\ reject(NormalClosure, "ErrClosePayloadTooSmall")
     \/ n = 1 /\ reject(ProtocolError, "ErrClosePayloadTooSmall")
     \/ n >= 2 /\ ~utf8Check(Tail(f.payload)) /\ reject(ProtocolError, "ErrTextNotUTF8")
     \/ /\ n >= 2 /\ utf8Check(Tail(f.payload)) /\ ~validCode(StatusBytes[Head(f.payload)])
        /\ reject(ProtocolError, "ErrCloseValue")
     \/ /\ n >= 2 /\ utf8Check(Tail(f.payload)) /\ validCode(StatusBytes[Head(f.payload)])
        /\ IF wok
             THEN Emit(<<Written(Close, f.payload, TRUE), OnClose("CloseErrMsg")>>,
                       "CloseErrMsg")
             ELSE Emit(<<Written(Close, f.payload, FALSE)>>, "ErrIO")
  /\ UNCHANGED <<fragHeader, fragPayload>>

(* Ping and Pong frames.  Only a replied Ping passes its payload to        *)
(* OnMessage; the others pass nil.                                         *)
PingPongFrame(f, wok) ==
  LET reply == f.opcode = Ping /\ conf.replyPing
      drop == f.opcode = Pong /\ conf.ignorePong
  IN
  /\ ControlOk(f) /\ f.opcode \in {Ping, Pong}
  /\ \/ /\ reply /\ wok
        /\ Emit(<<Written(Pong, f.payload, TRUE), OnMessage(Ping, f.payload)>>, Nil)
     \/ /\ reply /\ ~wok
        /\ Emit(<<Written(Pong, f.payload, FALSE), OnClose("ErrIO")>>, "ErrIO")
     \/ drop /\ Emit(<<>>, Nil)
     \/ ~reply /\ ~drop /\ Emit(<<OnMessage(f.opcode, <<>>)>>, Nil)
  /\ UNCHANGED <<fragHeader, fragPayload>>

(* Any other opcode: a continuation with no fragment, or a reserved one.   *)
RejectOpcode(f, wok) ==
  /\ ~RsvFails(f)
  /\ fragHeader = NoHeader
  /\ f.opcode \notin {Text, Binary, Close, Ping, Pong}
  /\ Emit(writeErrAndOnClose(ProtocolError, "ErrOpcode", wok).evs, "ErrOpcode")
  /\ UNCHANGED <<fragHeader, fragPayload>>

processCallback(f) ==
  \E wok \in BOOLEAN :
    \/ RejectRsv(f, wok)
    \/ ContinueFragment(f)
    \/ RejectFragmentOpcode(f, wok)
    \/ StartFragment(f)
    \/ SingleMessage(f)
    \/ RejectControl(f, wok)
    \/ CloseFrame(f, wok)
    \/ PingPongFrame(f, wok)
    \/ RejectOpcode(f, wok)

(* The read loop hands the next frame to processCallback.  Its returned    *)
(* error ends that loop, but the reactor ignores it (apiPoll, part_001     *)
(* line 106) and the next readable event dispatches the following frames.  *)
Dispatch ==
  \E f \in Frames :
    /\ Len(received) < MaxFrames
    /\ received' = Append(received, f)
    /\ processCallback(f)
    /\ UNCHANGED conf

Init ==
  /\ conf \in Configs
  /\ fragHeader = NoHeader
  /\ fragPayload = <<>>
  /\ received = <<>>
  /\ rets = <<>>
  /\ trace = <<>>

Next == Dispatch

Spec == Init /\ [][Next]_vars

-----------------------------------------------------------------------------
(* Properties.                                                             *)

TypeOK ==
  /\ conf \in [decompression : BOOLEAN, replyPing : BOOLEAN,
               ignorePong : BOOLEAN, utf8Check : BOOLEAN]
  /\ fragHeader \in [opcode : {-1, Text, Binary}, rsv1 : BOOLEAN]
  /\ fragPayload \in Seq(Tokens)
  /\ received \in Seq(Frames)
  /\ rets \in Seq(Errors \cup {Nil})
  /\ Len(rets) = Len(received)

(* The reference receiver of section 4.5 of the design: it folds the       *)
(* frames into the application messages a correct endpoint delivers and    *)
(* stops at the first frame that is a protocol error or a Close.           *)
RefInit == [frag |-> NoHeader, buf |-> <<>>, msgs |-> <<>>, stop |-> FALSE]

RefData(hdr, payload) ==
  IF hdr.rsv1 /\ conf.decompression THEN decode(payload) ELSE payload

RefMessageOk(hdr, payload) ==
  /\ hdr.rsv1 /\ conf.decompression => DecodeOk(payload)
  /\ hdr.opcode = Text => utf8Check(RefData(hdr, payload))

RefControlOk(f) ==
  LET n == PayloadLen(f.payload) IN
  /\ f.fin /\ n <= maxControlFrameSize
  /\ f.opcode = Close =>
       /\ n # 1
       /\ n >= 2 => validCode(StatusBytes[Head(f.payload)]) /\ utf8Check(Tail(f.payload))

RefStep(st, f) ==
  LET halt == [st EXCEPT !.stop = TRUE]
      hdr == [opcode |-> f.opcode, rsv1 |-> f.rsv1]
      deliver(h, p) ==
        IF RefMessageOk(h, p)
          THEN [st EXCEPT !.msgs = Append(@, <<h.opcode, RefData(h, p)>>),
                          !.frag = NoHeader, !.buf = <<>>]
          ELSE halt
  IN
  CASE st.stop -> st
    [] f.rsv23 \/ (f.rsv1 /\ (f.opcode \notin {Continuation, Text, Binary}
                              \/ ~conf.decompression)) -> halt
    [] IsControl(f.opcode) ->
         IF RefControlOk(f) /\ f.opcode # Close THEN st ELSE halt
    [] f.opcode \in {Text, Binary} /\ st.frag = NoHeader ->
         IF f.fin THEN deliver(hdr, f.payload)
                  ELSE [st EXCEPT !.frag = hdr, !.buf = f.payload]
    [] f.opcode = Continuation /\ st.frag # NoHeader ->
         IF f.fin THEN deliver(st.frag, st.buf \o f.payload)
                  ELSE [st EXCEPT !.buf = @ \o f.payload]
    [] OTHER -> halt

Ref(n) == FoldLeft(RefStep, RefInit, SubSeq(received, 1, n))

(* The frame at which processCallback first returned an error (0: none).  *)
FirstError ==
  IF \E i \in DOMAIN rets : rets[i] # Nil
    THEN CHOOSE i \in DOMAIN rets : rets[i] # Nil /\ \A j \in 1..i-1 : rets[j] = Nil
    ELSE 0

(* The Text/Binary messages OnMessage delivered for the first n frames.    *)
Delivered(n) ==
  LET isData(e) == e.ev = "msg" /\ e.op \in {Text, Binary} /\ e.at <= n
      sel == SelectSeq(trace, isData)
  IN [i \in 1..Len(sel) |-> <<sel[i].op, sel[i].data>>]

(* Fragmentation, interleaved control frames, per-message inflate and the  *)
(* UTF-8 check of the assembled message (processCallback) deliver exactly *)
(* the messages of the reference receiver, in order; and processCallback  *)
(* first reports an error at the very frame where the reference stops     *)
(* (an I/O error of a reply write is a failure of its own and only has to *)
(* come no later).                                                         *)
AgreesWithReference ==
  LET k == FirstError IN
  IF k = 0
    THEN ~Ref(Len(received)).stop /\ Delivered(Len(received)) = Ref(Len(received)).msgs
    ELSE /\ ~Ref(k - 1).stop
         /\ Delivered(k) = Ref(k - 1).msgs
         /\ rets[k] # "ErrIO" => Ref(k).stop

(* Once OnClose has run, the connection reports nothing more: no later     *)
(* OnMessage and no second OnClose (design: after close no callback other  *)
(* than OnClose, exactly once).                                            *)
NoCallbackAfterOnClose ==
  \A i, j \in 1..Len(trace) :
    i < j /\ trace[i].ev = "close" => trace[j].ev = "write"

=============================================================================
