------------------------------ MODULE ClientDial ------------------------------
(***************************************************************************)
(* The client's opening handshake (src/client.go, src/utils.go): Dial,     *)
(* which builds a fresh DialOption from the user's options, and DialConf,  *)
(* which reuses the DialOption ClientOptionToConf built once; handshake,   *)
(* which prepares the request; Dial's steps over the network (connect,     *)
(* TLS wrapping, deadline, request, response), the permessage-deflate      *)
(* negotiation and validateRsp; and the deferred cleanups that close the   *)
(* socket on error and clear the deadline on success.  Dial runs in the    *)
(* caller's goroutine, one stage after another; the network and the server *)
(* choose how each stage ends.                                             *)
(***************************************************************************)
EXTENDS Integers, Sequences, SequencesExt, Options

CONSTANTS
  Urls,          \* parsed URLs: [scheme, host |-> [name, port], parses]
  Opts,          \* the option lists a program passes to Dial or ClientOptionToConf
  Keys,          \* values secWebSocketAccept may draw
  MaxDials,      \* the most Dial calls in a behaviour
  ServerFaults   \* how a non-conforming server's response may be wrong

ASSUME MaxDials <= Cardinality(Keys)

VARIABLES
  dflt,        \* the compression defaultSetting gives (fixed)
  conf,        \* the DialOption ClientOptionToConf returned, reused by DialConf
  d,           \* the DialOption of the Dial in progress
  viaConf,     \* the Dial in progress came through DialConf (d is conf)
  url,         \* the URL the Dial in progress was given
  pc,          \* the stage of the Dial in progress, "idle" between calls
  key,         \* secWebSocket: the key handshake drew
  sock,        \* conn: "none", "open" or "closed"
  tls,         \* what tlsConn wrapped conn in
  deadline,    \* a deadline is set on conn
  req,         \* the request header as written to the server
  rsp,         \* the response read
  results      \* history: one record per Dial call that returned

vars == <<dflt, conf, d, viaConf, url, pc, key, sock, tls, deadline, req, rsp, results>>

HeaderNames ==
  {"Upgrade", "Connection", "Sec-WebSocket-Key", "Sec-WebSocket-Version",
   "Sec-WebSocket-Extensions"}

(* strExtensions: the single extension offer the client makes.             *)
strExtensions == "permessage-deflate; server_no_context_takeover; client_no_context_takeover"

NoKey == "nokey"
NoTls == [on |-> FALSE, serverName |-> ""]

(* http.Header: Add appends a value; Get returns the first.                *)
EmptyHeader == [n \in HeaderNames |-> <<>>]
Add(h, n, v) == [h EXCEPT ![n] = Append(@, v)]
Get(h, n) == IF h[n] = <<>> THEN NoKey ELSE Head(h[n])

(* The extension a response accepts: permessage-deflate or not, with the  *)
(* no_context_takeover parameters it lists.                                *)
Params == {"server_no_context_takeover", "client_no_context_takeover"}
NoExt == [pmd |-> FALSE, params |-> {}]
Pmd(ps) == [pmd |-> TRUE, params |-> ps]

-----------------------------------------------------------------------------
(* The fields of DialOption the handshake reads or writes; compression is *)
(* set by defaultSetting, outside these sources, and given by c.           *)
DialOptionOf(c) ==
  DefaultConfig @@
  [scheme |-> "", host |-> [name |-> "", port |-> FALSE], header |-> EmptyHeader,
   compression |-> c, wraps |-> 0]

(* ClientOptionToConf: defaultSetting, then the options in order.          *)
ClientOptionToConf(c, opts) == ApplyOptions(DialOptionOf(c), opts)

(* secWebSocketAccept: 16 random bytes, base64-encoded; a fresh key per   *)
(* Dial (two draws of 128 random bits do not collide).                     *)
secWebSocketAccept(used) == Keys \ used

(* secWebSocketAcceptVal: base64(sha1(key || uuid)), a collision-free      *)
(* function of the key, distinct from every key.                           *)
secWebSocketAcceptVal(k) == "sha1-base64:" \o k

(* The response before one is read.                                       *)
NoRsp == [status |-> 0, upgrade |-> FALSE, connection |-> FALSE,
          accept |-> secWebSocketAcceptVal(NoKey), ext |-> NoExt, conforming |-> FALSE]

(* maybeCompressionDecompression: the first permessage-deflate extension  *)
(* of the response turns compression on iff it lists a no_context_takeover *)
(* parameter.                                                              *)
maybeCompressionDecompression(ext) == ext.pmd /\ ext.params # {}

(* Mutant: the key header carries the accept value instead of the key.    *)
handshakeSendsAccept(h, k, offer) ==
  LET h1 == Add(Add(Add(h, "Upgrade", "websocket"), "Connection", "Upgrade"),
                "Sec-WebSocket-Key", secWebSocketAcceptVal(k))
      h2 == Add(h1, "Sec-WebSocket-Version", "13")
  IN IF offer THEN Add(h2, "Sec-WebSocket-Extensions", strExtensions) ELSE h2

(* handshake's header additions to d.Header, with key k; the extension is *)
(* offered when offer (decompression and compression) holds.               *)
handshakeHeader(h, k, offer) ==
  LET h1 == Add(Add(Add(h, "Upgrade", "websocket"), "Connection", "Upgrade"),
                "Sec-WebSocket-Key", k)
      h2 == Add(h1, "Sec-WebSocket-Version", "13")
  IN IF offer THEN Add(h2, "Sec-WebSocket-Extensions", strExtensions) ELSE h2

(* The condition under which handshake offers permessage-deflate.          *)
OfferCompression(o) == o.decompression /\ o.compression

(* tlsConn: https (wss after handshake) is wrapped in tls.Client; with no *)
(* tlsConfig, ServerName is the host with any ":port" cut off.             *)
tlsConn(o) ==
  IF o.scheme = "https" THEN [on |-> TRUE, serverName |-> o.host.name] ELSE NoTls

(* validateRsp: the checks of RFC 6455 4.1 the client makes, in order.     *)
validateRsp(r, k) ==
  CASE r.status # 101                         -> "ErrWrongStatusCode"
    [] ~r.upgrade                             -> "ErrUpgradeFieldValue"
    [] ~r.connection                          -> "ErrConnectionFieldValue"
    [] r.accept # secWebSocketAcceptVal(k)    -> "ErrSecWebSocketAccept"
    [] OTHER                                  -> "nil"

(* The responses a server may send to request header h.  A conforming     *)
(* server answers the first key and accepts an offered permessage-deflate *)
(* with server_no_context_takeover (RFC 7692 7.1.1.1) or declines it; a    *)
(* faulty one gets one field wrong, or answers permessage-deflate to a     *)
(* request that did not offer it.                                          *)
Responses(h) ==
  LET good(ext) == [status |-> 101, upgrade |-> TRUE, connection |-> TRUE,
                    accept |-> secWebSocketAcceptVal(Get(h, "Sec-WebSocket-Key")),
                    ext |-> ext, conforming |-> TRUE]
      exts == IF h["Sec-WebSocket-Extensions"] # <<>>
                THEN {NoExt, Pmd({"server_no_context_takeover"}), Pmd(Params)}
                ELSE {NoExt}
      bad(f) == CASE f = "status"     -> [good(NoExt) EXCEPT !.status = 200, !.conforming = FALSE]
                  [] f = "upgrade"    -> [good(NoExt) EXCEPT !.upgrade = FALSE, !.conforming = FALSE]
                  [] f = "connection" -> [good(NoExt) EXCEPT !.connection = FALSE, !.conforming = FALSE]
                  [] f = "accept"     -> [good(NoExt) EXCEPT !.accept = secWebSocketAcceptVal(NoKey),
                                                             !.conforming = FALSE]
                  [] f = "extension"  -> [good(Pmd(Params)) EXCEPT !.conforming = FALSE]
  IN {good(e) : e \in exts} \cup {bad(f) : f \in ServerFaults}

UsedKeys == {results[i].key : i \in DOMAIN results}

-----------------------------------------------------------------------------
(* Dial returns err e with its socket left in state s; DialConf's conf is *)
(* the DialOption it dialed with.  d' is set by the caller.                *)
Return(e, s) ==
  /\ sock' = s
  /\ pc' = "idle"
  /\ conf' = IF viaConf THEN d' ELSE conf
  /\ results' = Append(results,
       [err |-> e, url |-> url, key |-> key, req |-> req, rsp |-> rsp,
        offered |-> req["Sec-WebSocket-Extensions"] # <<>>, sock |-> s, tls |-> tls,
        decompression |-> d'.decompression, compression |-> d'.compression])

(* A new Dial starts with nothing of the last one.                          *)
Fresh == /\ key' = NoKey /\ sock' = "none" /\ tls' = NoTls /\ deadline' = FALSE
         /\ req' = EmptyHeader /\ rsp' = NoRsp

(* url.Parse failed: Dial and DialConf return before touching anything.    *)
ParseFailed(u) ==
  /\ ~u.parses
  /\ results' = Append(results,
       [err |-> "ErrParse", url |-> u, key |-> NoKey, req |-> EmptyHeader, rsp |-> NoRsp,
        offered |-> FALSE, sock |-> "none", tls |-> NoTls,
        decompression |-> FALSE, compression |-> FALSE])
  /\ UNCHANGED <<conf, d, viaConf, url, pc, key, sock, tls, deadline, req, rsp>>

(* Dial(rawUrl, opts...): a fresh DialOption with a new header, the       *)
(* default settings and the options; the callback is wrapped once.         *)
Dial ==
  /\ pc = "idle" /\ Len(results) < MaxDials
  /\ \E u \in Urls, opts \in Opts :
       \/ ParseFailed(u)
       \/ /\ u.parses
          /\ d' = [ClientOptionToConf(dflt, opts) EXCEPT
                     !.scheme = u.scheme, !.host = u.host, !.wraps = 1]
          /\ url' = u /\ viaConf' = FALSE /\ pc' = "handshake" /\ Fresh
          /\ UNCHANGED <<conf, results>>

(* DialConf(rawUrl, conf): the same DialOption every time; its Header is  *)
(* made only while nil, and its callback is wrapped once more.             *)
DialConf ==
  /\ pc = "idle" /\ Len(results) < MaxDials
  /\ \E u \in Urls :
       \/ ParseFailed(u)
       \/ /\ u.parses
          /\ d' = [conf EXCEPT !.scheme = u.scheme, !.host = u.host, !.wraps = @ + 1]
          /\ url' = u /\ viaConf' = TRUE /\ pc' = "handshake" /\ Fresh
          /\ UNCHANGED <<conf, results>>

(* d.handshake(): the scheme is rewritten to http(s), or the Dial fails;  *)
(* Upgrade, Connection, a new key, the version and, with compression on,  *)
(* the extension offer are added to d.Header.                              *)
handshake ==
  /\ pc = "handshake"
  /\ \/ /\ d.scheme \notin {"ws", "wss"}
        /\ UNCHANGED d /\ Return("ErrScheme", "none")
        /\ UNCHANGED <<viaConf, url, key, tls, deadline, req, rsp>>
     \/ /\ d.scheme \in {"ws", "wss"}
        /\ \E k \in secWebSocketAccept(UsedKeys \cup {key}) :
             /\ key' = k
             /\ d' = [d EXCEPT !.scheme = IF @ = "wss" THEN "https" ELSE "http",
                               !.header = handshakeHeader(@, k, OfferCompression(d))]
        /\ pc' = "tcp"
        /\ UNCHANGED <<conf, viaConf, url, sock, tls, deadline, req, rsp, results>>

(* net.Dial, then tlsConn; from here on an error return closes conn.      *)
DialTcp ==
  /\ pc = "tcp"
  /\ \/ /\ UNCHANGED d /\ Return("ErrDial", "none")
        /\ UNCHANGED <<viaConf, url, key, tls, deadline, req, rsp>>
     \/ /\ sock' = "open" /\ tls' = tlsConn(d) /\ pc' = "deadline"
        /\ UNCHANGED <<conf, d, viaConf, url, key, deadline, req, rsp, results>>

(* The dial deadline: set when time is left of dialTimeout; a failing     *)
(* SetDeadline returns and the deferred cleanup closes conn.               *)
SetDeadline ==
  /\ pc = "deadline"
  /\ \/ /\ pc' = "write"
        /\ UNCHANGED <<conf, d, viaConf, url, key, sock, tls, deadline, req, rsp, results>>
     \/ /\ deadline' = TRUE /\ pc' = "write"
        /\ UNCHANGED <<conf, d, viaConf, url, key, sock, tls, req, rsp, results>>
     \/ /\ UNCHANGED d /\ Return("ErrDeadline", "closed")
        /\ UNCHANGED <<viaConf, url, key, tls, deadline, req, rsp>>

(* req.Write(conn) (the TLS handshake, if any, happens here).              *)
WriteRequest ==
  /\ pc = "write"
  /\ \/ /\ req' = d.header /\ pc' = "read"
        /\ UNCHANGED <<conf, d, viaConf, url, key, sock, tls, deadline, rsp, results>>
     \/ /\ UNCHANGED d /\ Return("ErrWrite", "closed")
        /\ UNCHANGED <<viaConf, url, key, tls, deadline, req, rsp>>

(* Mutant: the read error is assigned to a shadowed variable, so the      *)
(* deferred cleanup sees no error and leaves conn open.                   *)
ReadResponseShadowsErr ==
  /\ pc = "read"
  /\ \/ /\ \E r \in Responses(req) : rsp' = r
        /\ pc' = "finish"
        /\ UNCHANGED <<conf, d, viaConf, url, key, sock, tls, deadline, req, results>>
     \/ /\ UNCHANGED d /\ Return("ErrRead", "open")
        /\ UNCHANGED <<viaConf, url, key, tls, deadline, req, rsp>>

(* http.ReadResponse: the server's answer, or a read error.                *)
ReadResponse ==
  /\ pc = "read"
  /\ \/ /\ \E r \in Responses(req) : rsp' = r
        /\ pc' = "finish"
        /\ UNCHANGED <<conf, d, viaConf, url, key, sock, tls, deadline, req, results>>
     \/ /\ UNCHANGED d /\ Return("ErrRead", "closed")
        /\ UNCHANGED <<viaConf, url, key, tls, deadline, req, rsp>>

(* The rest of Dial: compression and decompression, where on, follow the  *)
(* response; validateRsp; then the deferred cleanups in reverse order: on  *)
(* success the deadline is cleared (which may fail), on error conn is      *)
(* closed.  A successful Dial returns (nil, nil).                          *)
Finish ==
  LET cd == maybeCompressionDecompression(rsp.ext)
      e == validateRsp(rsp, key)
  IN
  /\ pc = "finish"
  /\ d' = [d EXCEPT !.decompression = IF @ THEN cd ELSE @,
                    !.compression = IF @ THEN cd ELSE @]
  /\ \/ /\ e # "nil" /\ Return(e, "closed")
        /\ UNCHANGED deadline
     \/ /\ e = "nil" /\ deadline' = FALSE /\ Return("nil", "open")
     \/ /\ e = "nil" /\ Return("ErrDeadline", "closed")
        /\ UNCHANGED deadline
  /\ UNCHANGED <<viaConf, url, key, tls, req, rsp>>

Init ==
  /\ dflt \in BOOLEAN
  /\ \E opts \in Opts : conf = ClientOptionToConf(dflt, opts)
  /\ d = conf /\ viaConf = FALSE /\ url = CHOOSE u \in Urls : TRUE
  /\ pc = "idle" /\ key = NoKey /\ sock = "none" /\ tls = NoTls /\ deadline = FALSE
  /\ req = EmptyHeader /\ rsp = NoRsp /\ results = <<>>

Next ==
  /\ UNCHANGED dflt
  /\ \/ Dial \/ DialConf \/ handshake \/ DialTcp \/ SetDeadline
     \/ WriteRequest \/ ReadResponse \/ Finish

Spec == Init /\ [][Next]_vars

-----------------------------------------------------------------------------
HeaderValues == Keys \cup {"websocket", "Upgrade", "13", strExtensions}
Errors ==
  {"nil", "ErrParse", "ErrScheme", "ErrDial", "ErrDeadline", "ErrWrite", "ErrRead",
   "ErrWrongStatusCode", "ErrUpgradeFieldValue", "ErrConnectionFieldValue",
   "ErrSecWebSocketAccept"}

(* Type invariant.                                                         *)
TypeOK ==
  /\ pc \in {"idle", "handshake", "tcp", "deadline", "write", "read", "finish"}
  /\ sock \in {"none", "open", "closed"} /\ deadline \in BOOLEAN
  /\ \A n \in HeaderNames : d.header[n] \in Seq(HeaderValues)
  /\ \A n \in HeaderNames : req[n] \in Seq(HeaderValues)
  /\ \A i \in DOMAIN results : results[i].err \in Errors

(* A Dial that returns an error has closed the socket it opened (design   *)
(* section 6: handshake errors bubble out of Dial and the socket is        *)
(* closed): every error return after net.Dial reaches the deferred Close.  *)
FailedDialClosesSocket ==
  \A i \in DOMAIN results : results[i].err # "nil" => results[i].sock # "open"

(* Every Dial, also one made through DialConf, starts from a clean         *)
(* DialOption: the request it writes carries exactly one Upgrade,          *)
(* Connection, Sec-WebSocket-Version and Sec-WebSocket-Key header, the    *)
(* key being the one this Dial validates the answer against, and at most  *)
(* one extension offer (RFC 6455 4.1); and the callback it will hand the  *)
(* connection is the user's, wrapped once in newGoCallback.                *)
EachDialStartsFresh ==
  pc \in {"read", "finish"} =>
    /\ \A n \in HeaderNames \ {"Sec-WebSocket-Extensions"} : Len(req[n]) = 1
    /\ req["Sec-WebSocket-Key"] = <<key>>
    /\ Len(req["Sec-WebSocket-Extensions"]) <= 1
    /\ d.wraps = 1

=============================================================================
