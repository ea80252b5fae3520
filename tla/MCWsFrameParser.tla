--------------------------- MODULE MCWsFrameParser ---------------------------
(* Frame streams for checking WsFrameParser.                               *)
EXTENDS WsFrameParser

Fr(fin, op, payload) ==
  [fin |-> fin, opcode |-> op, mask |-> FALSE, key |-> <<>>, ext16 |-> FALSE,
   payload |-> payload]

TextMsg   == Fr(TRUE, 1, <<5, 6, 7>>)
BinFirst  == Fr(FALSE, 2, <<9>>)
ContLast  == Fr(TRUE, 0, <<8, 8>>)
PingFrame == Fr(TRUE, 9, <<1>>)

(* Unmasked frames with one to three payload bytes in the seven-bit form, *)
(* up to four to a stream (a Ping between the fragments of a message), so  *)
(* that one segment can end a frame and carry whole frames after it.      *)
MCStreams == {<<TextMsg, PingFrame>>, <<BinFirst, ContLast>>,
              <<PingFrame, TextMsg, ContLast>>,
              <<BinFirst, PingFrame, ContLast, TextMsg>>}

(* The masked client frame of RFC 6455 section 5.7: "Hello" with the key *)
(* 37 fa 21 3d.                                                             *)
MaskedText == [fin |-> TRUE, opcode |-> 1, mask |-> TRUE,
               key |-> <<55, 250, 33, 61>>, ext16 |-> FALSE,
               payload |-> <<72, 101, 108, 108, 111>>]
MCStreamsMasked == {<<MaskedText, TextMsg>>}

(* An empty unmasked Pong, as a server sends in reply to an empty Ping.   *)
EmptyPong == Fr(TRUE, 10, <<>>)
MCStreamsEmpty == {<<EmptyPong, TextMsg>>}
=============================================================================
