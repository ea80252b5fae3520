--------------------------- MODULE MCWsDispatcher ---------------------------
(* Model values for WsDispatcher: the frames a peer may send and the       *)
(* connection configurations.                                              *)
EXTENDS WsDispatcher, Options

Fr(fin, rsv1, op, payload) ==
  [fin |-> fin, rsv1 |-> rsv1, rsv23 |-> FALSE, opcode |-> op, payload |-> payload]

(* Data frames: a two-byte character split over two fragments, plain and   *)
(* deflated, a continuation in between, single messages (one not UTF-8,   *)
(* one compressed binary whose bytes are not deflate output).              *)
DataFrames ==
  { Fr(FALSE, FALSE, Text, <<"h">>),
    Fr(FALSE, TRUE,  Text, <<"zh">>),
    Fr(FALSE, FALSE, Continuation, <<"a">>),
    Fr(TRUE,  FALSE, Continuation, <<"t">>),
    Fr(TRUE,  FALSE, Continuation, <<"zt">>),
    Fr(TRUE,  FALSE, Text, <<"h">>),
    Fr(TRUE,  TRUE,  Binary, <<"a">>) }

(* Control frames and malformed frames, all with RSV1 clear.               *)
ControlFrames ==
  { Fr(TRUE,  FALSE, Ping, <<"a">>),
    Fr(TRUE,  FALSE, Pong, <<>>),
    Fr(FALSE, FALSE, Ping, <<>>),
    Fr(TRUE,  FALSE, Ping, <<"blob">>),
    Fr(TRUE,  FALSE, Close, <<>>),
    Fr(TRUE,  FALSE, Close, <<"a">>),
    Fr(TRUE,  FALSE, Close, <<"c1000", "h">>),
    Fr(TRUE,  FALSE, Close, <<"c1005">>),
    Fr(TRUE,  FALSE, Close, <<"c1000">>),
    Fr(TRUE,  FALSE, 3, <<>>),
    [fin |-> TRUE, rsv1 |-> FALSE, rsv23 |-> TRUE, opcode |-> Binary, payload |-> <<"a">>] }

MCFrames == DataFrames \cup ControlFrames

(* The configurations the server's options produce: decompression with  *)
(* ping replies and UTF-8 checking, ignored pongs alone, and               *)
(* decompression with UTF-8 checking.                                      *)
MCConfigs ==
  { ApplyOptions(DefaultConfig, opts) :
      opts \in { <<"WithServerDecompression", "WithServerReplyPing",
                   "WithServerEnableUTF8Check">>,
                 <<"WithServerIgnorePong">>,
                 <<"WithServerEnableUTF8Check", "WithServerDecompression">> } }

=============================================================================
