# TLA+ models of greatws

This directory holds TLA+ models of the WebSocket library in `src/`, with
TLC configurations that check them. The library is a Go port of greatws: an
epoll reactor server and client. `src/unnamed/part_000` holds the `bigws`
frame code and the `greatws` connection. `part_001` is the epoll backend,
and `part_002` is the pool of event loops.

## The system and how its parts interact

- **Reactor pool** (`MultiEventLoop`, part_002). A connection with fd `f`
  belongs to loop `f % numLoops`. `add` registers the fd with epoll and then
  stores the connection in the loop's map. `del` removes the map entry and
  closes the fd. `getConn` looks the connection up.
- **epoll backend** (part_001). `addRead` registers the fd level-triggered,
  without EPOLLET. `addWrite` adds EPOLLOUT. `apiPoll` runs the handlers for
  each event:
  - an event for an fd with no connection closes that fd as an orphan;
  - EPOLLIN calls `processWebsocketFrame`;
  - EPOLLOUT calls `flushOrClose`;
  - ERR, HUP or RDHUP calls `Close`.
- **Read path** (part_000, lines 655-727). `processWebsocketFrame` reads the
  socket until EAGAIN. It then alternates `readHeader`, a three-state byte
  parser, with the payload step. Each complete frame goes to
  `processCallback`, which enforces RFC 6455:
  - RSV bits, fragmentation, control-frame limits and opcodes;
  - decompression and UTF-8 checks;
  - replies to Close and Ping.

  It calls `OnMessage` or `OnClose`, or answers with `writeErrAndOnClose`.
- **Write path** (part_000, lines 578-648). `Write` runs under the connection
  mutex. It appends to a non-empty `c.wbuf`, then writes. `writeOrAddPoll`
  handles the outcome of the write:
  - a short write followed by EAGAIN keeps the rest in `c.wbuf` and arms
    EPOLLOUT;
  - any other error spawns `go closeInner`.

  On EPOLLOUT, `flushOrClose` writes `c.wbuf` again.
- **Teardown.** Three paths close a connection:
  - `Close` calls `closeAndWaitOnMessage`: it checks `closed`, locks `c.mu`
    and calls `closeInner`;
  - the EOF branch of the read loop does the same and also calls `OnClose`
    itself;
  - the write error path spawns `closeInner`.

  `closeInner` calls `del`, sets `fd = -1`, calls `OnClose` under
  `closeOnce`, and sets `closed`.

- **Client** (`client.go`, `utils.go`). `Dial` applies the client options
  to a fresh `DialOption`; `DialConf` reuses a stored one. `DialOption.Dial`
  runs its steps in order, each of which can fail:
  1. it rewrites ws/wss to http/https and builds the upgrade header with a
     fresh key and, if decompression is on, the permessage-deflate offer;
  2. `net.Dial`, then TLS for https;
  3. `SetDeadline`, then writing the request and reading the response;
  4. `validateRsp`.

  It then records the negotiated compression. Deferred calls clear the
  deadline and close the socket when the named result `err` is set.
- **Options** (`common_options.go`). These are functional options that set
  the decompression, reply-ping, ignore-pong and UTF-8 flags.
- **io_uring backend** (`api_iouring.go`). `addRead`, `addWrite` and `del`
  take a submission entry with `GetSQE`, which returns nil when the queue is
  full. Each entry's `UserData` is the connection pointer. `run` calls
  `SubmitAndWaitTimeout`, then `PeekBatchCQE` for at most a batch of
  completions. It hands each one to `processConn`. On the first error it
  advances past that completion and returns; otherwise it advances past the
  batch. `Conn.WriteFrameOnlyIoUring` (part_000) numbers each write with
  `c.wSeq`, which wraps to 0 at `MaxUint16`. It tries three numbers. It
  skips one that `c.m` still holds. It `Store`s the buffer under the first
  free number, then calls `addWrite` with `uint16(newSeq)`.

## Modules

| Module | Models | State ↔ code |
|---|---|---|
| `WsDispatcher` | `processCallback` with `failRsv1`, `decode`, `utf8Check`, `writeErrAndOnClose`, the Close/Ping replies | `fragHeader`/`fragPayload` = `c.fragmentFrameHeader`/`c.fragmentFramePayload`; `trace` = the callbacks and frames written, in order. One action per branch, in the code's order of early returns. |
| `WsFrameParser` | `readHeader` byte by byte, the payload step, the read loop | `rw, ri, curState, haveSize, rh` = `len(c.rbuf), c.ri, c.curState, c.haveSize, c.rh`; `arrived` = bytes the kernel holds. `Arrive` is TCP delivering a segment; `processWebsocketFrame` is one readable event. The parse loop is the RECURSIVE operator `ParseLoop`. |
| `ConnWrite` | `Write`, `writeOrAddPoll`, `flushOrClose`, `addWrite`, the write-relevant part of `closeInner` | `wbuf` = `c.wbuf`, `armed` = EPOLLOUT registered, `fdValid` = `c.fd != -1`, `space` = room in the send buffer, `closers` = pending `closeInner` goroutines. Each mutex-protected call is one step. |
| `ConnLifecycle` | `add`, `del`, `getConn`, `apiPoll` FIN handling, the EOF path, `Close`, `closeAndWaitOnMessage`, `closeInner` step by step | `fdTable` = the kernel's fd table (lowest free number reused), `loopMap` = the loops' `conns` maps, `cfd`/`closed`/`onceDone`/`mu` per connection; every closer is a thread with a program counter so that the steps of `closeInner` interleave. |
| `Options` | the options of `common_options.go` that set policy flags | An option is `[o EXCEPT !.flag = TRUE]`; `ApplyOptions` is a `FoldLeft` over the user's list, in order. |
| `ClientDial` | `Dial`, `DialConf`, `ClientOptionToConf`, `handshake`, `tlsConn`, `DialOption.Dial` with its defers, `validateRsp`, `secWebSocketAccept(Val)`, `maybeCompressionDecompression` | `d`, `conf` = the `DialOption` in use and the one `DialConf` keeps; `pc` = the stage of `DialOption.Dial`; `sock`, `tls`, `deadline` = the `net.Conn` and its deadline; `req`, `rsp` = the header sent and the answer; `results` = what each call returned. The header is a function from names to sequences of values, so `Add` appends as `http.Header.Add` does. SHA-1/base64 is a collision-free function of the key. |
| `IoUring` | `apiIoUringCreate`, `addRead`, `addWrite`, `del`, `advance`, `run`, `apiPoll`, `Conn.WriteFrameOnlyIoUring` | `sq` = entries handed out and not submitted, `inflight` = operations in the kernel, `cq` = posted completions not yet advanced past, `pc`/`n`/`i` = where `run` is and its loop, `completed`/`handled` = histories of completions posted and passed to `processConn`. `Complete` is the kernel, completing submitted operations in any order. `processConn` is not in `src/`, so it is a step that may succeed or fail. `WriteFrameOnlyIoUring` is one action per call: its tries touch only `wSeq` and `m`, which no ring action reads. `m[c]` maps each seq to the id of the send its buffer went with. `sendSeq` records the conn and uint16 seq passed with each send. The scaled constants `MaxUint16` and `MaxUint32` keep the two integer widths apart. |

Each `MC*` module gives the constants small values. The `.cfg` files select
the properties.

## Runs and what they show

Passing runs:

- `dispatcher`: every sequence of up to four frames, under three option
  settings, is compared with a reference receiver written from RFC 6455 and
  the design (`AgreesWithReference`).
- `parser`: four frame streams of two to four frames are cut into
  segments of every size from 1 to 8 bytes. The parser hands on exactly the frames sent, in order
  (`ParsedFramesArePrefix`). Under fairness, every frame is eventually
  handed on (`AllFramesParsed`).
- `write`: three writes, a send buffer of two bytes, resets, and failing
  `addWrite` calls never lose, duplicate or reorder a byte (`Lossless`).
  Armed buffered data is eventually flushed or the connection torn down
  (`ArmedBufferDrains`).
- `lifecycle`: two connections over two fd numbers on one loop, with every
  closer racing: the EOF goroutine, the reactor's own `Close`, the
  application's `Close` and a failed write's `closeInner`, which skips the
  closed check and the mutex. Once `closed` is set, nothing of the
  connection is left to the reactors: no map entry, no socket, and
  `c.fd = -1` (`ClosedIsUnregistered`). This holds also when a second
  closer finds `c.fd` already -1 and skips `del`. An ownership invariant
  (every map entry `fd -> c` names the socket's owner) does not hold here:
  the orphan close of `lifecycle_teardown` leaves `c1`'s entry behind for
  an fd the kernel gives to `c2`.
- `client_dial`: two `Dial`/`DialConf` calls are checked over four URLs
  (ws with a port, wss, another scheme, one that does not parse), three
  option lists, every network failure and every server answer, faulty
  ones included. A failed dial never leaves its socket open
  (`FailedDialClosesSocket`): every error return after `net.Dial` reaches
  the deferred `Close` through the named result, also when the deferred
  deadline clear fails after a successful handshake.
- `io_uring`: a two-entry submission queue, batches of two, and
  `processConn` failing on any completion. `run` passes every completion to
  `processConn` once and in posted order (`CompletionsHandledOnceInOrder`),
  and eventually (`EveryCompletionHandled`). The uint16 seq passed
  with each send from `WriteFrameOnlyIoUring` is still the key of that
  send's buffer in `c.m` (`SubmittedSeqFindsBuffer`). This holds across the
  wrap and across collisions with pending writes. Without the wrap the
  seq outgrows uint16; without the `Load` check a `Store` replaces a
  pending buffer.

Violation runs, one per finding in `PROJECT.json`:

- `dispatcher_after_close`: callbacks arrive after `OnClose`.
- `parser_masked`: `readHeader` never moves `ri` past the extended length
  and mask key. The masked "Hello" frame of RFC 6455 comes out as
  `00 00 00 00 48`.
- `parser_empty_frame`: an unmasked empty frame stalls the parser forever.
- `lifecycle_onclose_twice`: EOF calls `OnClose` twice.
- `lifecycle_teardown`: `add` arms epoll before `Store`, so the reactor
  closes the new socket as an orphan.
- `client_dialconf_reuse`: each dial should start from a clean
  `DialOption` (`EachDialStartsFresh`). `DialConf` keeps its
  `DialOption`, and `handshake` adds to the stored header. So the second
  request carries two `Upgrade`, `Connection`, `Sec-WebSocket-Key` and
  `Sec-WebSocket-Version` values, and the first key is the one the server
  answers. `DialConf` also wraps the stored callback in `newGoCallback`
  again on every call (client.go:63), so the callback is wrapped twice.

Four disagreements are recorded as hazards in `PROJECT.json`, not as runs:
- the RSV1 check against a fragment's opcode (part_000:205);
- the missing Close(1007) for invalid UTF-8 (part_000:273);
- the bytes stranded in `c.wbuf` when `addWrite` fails (part_000:617).
  `Lossless` shows that no such byte is lost or
  reordered. But they wait for the next `Write`, so a property that
  buffered data always drains does not hold.
- the unchecked extension answer (client.go:149). `validateRsp` skips
  RFC 6455 4.1 step 5. A server that answers `permessage-deflate` unasked
  turns decompression on, where the client should fail the connection.
  The model's faulty servers include that answer (fault `extension`), and
  such a Dial returns success with decompression on although nothing was
  negotiated.

## Bounds

- **Dispatcher.** Four frames suffice for:
  - a fragmented message with an interleaved control frame;
  - a close after an error;
  - a continuation without a start.

  Payload tokens stand for valid text, invalid UTF-8 and deflated data.
- **Parser.** Segments of 1 to 8 bytes split every frame at every byte
  position, including within the two header bytes. A single segment can
  also finish one frame and carry one or two whole frames after it, so one
  readable event runs the parse loop several times. The longest stream, of
  14 bytes, has a Ping between two fragments. The run takes about a second.
- **Write path.** A two-byte send buffer and messages of up to two bytes
  produce a full write, a short write and a zero-byte write.
- **Client.** Two calls reach a `DialConf` after a `Dial` and a second
  `DialConf`, so state carried from one call to the next shows. Two keys
  are enough, because each call takes a key that has not been used.
- **io_uring.** Three requests against two queue entries make `GetSQE`
  fail. A completion queue of three and batches of two leave completions
  behind a batch and put a failure in its middle. Seqs wrap below 2 and
  `c.wSeq`'s type holds 0..3. So the third write on a connection meets
  both of its pending seqs, and an unwrapped seq outgrows the 0..2 of the
  scaled uint16. No symmetry is used, because the run checks liveness.
  There is one writer goroutine. Each try runs under `c.mu` and `c.m` only
  grows, so a second writer would only advance `c.wSeq` further. Four
  requests and a second writer took the run past 1.3 million states.
- **Lifecycle.** Two fd numbers for two connections (the `lifecycle` run,
  about 790,000 states): the second accept gets the first's number again
  when a closer has already released it, possibly while another closer of
  the first connection still holds the number in `c.fd`, and a fresh
  number otherwise. The violation runs allow up to three connections. Two
  loops (`NumLoops = 2` in the teardown run) reach the `-1 % N` index.
  Three connections in the passing run went past 29 million states in ten
  minutes.

## Fairness

- **The reactor.** Epoll is level-triggered (`addRead` sets no EPOLLET) and
  `apiPoll` loops forever. So a pending readable or writable event is
  eventually handled, which is weak fairness for `processWebsocketFrame` and
  `flushOrClose`.
- **The parser.** Its fairness is written out as
  `<>[](arrived > rw) => []<><<processWebsocketFrame>>_vars`. This is the
  same as weak fairness, because the action is enabled exactly when
  `arrived > rw`.
- **Goroutines.** `ConnLifecycle` states the scheduler's fairness (each
  closer step, each reactor and `add`'s `Store` weakly fair) but checks no
  liveness property. With `waitOnMessageRun.Wait` returning at once, every
  holder of `c.mu` runs straight-line code that ends in `Unlock`, so a
  liveness property such as the reactor always getting its loop back
  holds by construction. The stall that could break it (part_000:549)
  needs an `OnMessage` in flight.
- **io_uring.** `apiPoll` is called in a loop, and the wait has a 333 ms
  timeout. So `run` keeps submitting and returning (weak fairness). EINTR
  does not interrupt every wait for ever, so a wait with completions queued
  is eventually handed them (strong fairness on `WaitReturns`). The kernel
  completes what it was given.
- **Client.** No fairness is assumed: all its properties are safety
  properties.
- **The peer.** It reads and delivers eventually. Nothing assumes it stops
  resetting.

## Not modelled

- **Freeing seqs from `c.m`.** The code that removes a finished write's
  seq from `c.m` would be in `processConn`, which is not in `src/`. So the
  model never frees one, and a seq leaked by a failed `addWrite`
  (part_000:775) cannot be told from a pending one. `processConn` is
  modelled only as success or failure. The pooled buffer, the frame
  header and masking are data.
- **`addReadBackup`, `iouringConn`, `processWebsocketFrameOnlyIoUring`.**
  The first two are unused or stubs. The third is the parse loop of
  `WsFrameParser` without the socket reads.
- **`bindClientHttpHeader`, and the HTTP text of the request.** No option in
  the sources sets the former. The latter is a formatting step.
- **`needDecompression` and `StringToBytes`** (`utils.go`).
- **The older `conn.Write`/`flushOrClose` of package `bigws`.**
- **Read-buffer growth and the rbuf-full branch.**
- **Host strings.** `ClientDial` represents a URL host by its name and
  whether it has a port. So the cut at the first `:` in `tlsConn`
  (client.go:166), which gives ServerName `"["` for a bracketed IPv6 host,
  cannot be represented.
- **The ring's unlocked `GetSQE`.** `addWrite` is called from the writing
  goroutine, which holds only `c.mu`, while the reactor submits on the same
  ring (api_iouring.go:116, 156). The ring is the giouring library, not in
  `src/`, and `IoUring` makes `GetSQE` with its `Prepare` one step.
- **Lengths that need 64 bits:** TLC integers are 32-bit.
- **`waitOnMessageRun`**, whose producer is not in `src/`.

## Plan for later work

1. A composition: `WsFrameParser` feeding `WsDispatcher`.
2. Data events in `ConnLifecycle`, with `waitOnMessageRun`.
3. For the client, three calls with three keys took more than 5 minutes
   over the present URLs and options. A third call needs fewer URLs.
4. A second writer goroutine in `IoUring`, once `processConn`, which would
   free seqs from `c.m`, can be read from source.
