----------------------------- MODULE ConnLifecycle -----------------------------
(***************************************************************************)
(* Registration and teardown of connections across the reactor pool.      *)
(* An acceptor registers each new connection with MultiEventLoop.add       *)
(* (src/unnamed/part_002 40-44: addRead, then Store in loop fd % N); the  *)
(* reactor of a loop dispatches epoll events (part_001 apiPoll 82-121);    *)
(* a peer's FIN reaches processWebsocketFrame's EOF path (part_000         *)
(* 678-681) and the EPOLLRDHUP branch's Close; a failed write spawns       *)
(* closeInner (part_000 623-626); the application may call Close.  Every   *)
(* closer runs closeAndWaitOnMessage (561-572) and/or closeInner (546-559) *)
(* in steps, so closers of one connection interleave with each other, with *)
(* the reactor and with the acceptor, which reuses the lowest free fd.     *)
(***************************************************************************)
EXTENDS Integers, FiniteSets

CONSTANTS
  Fds,       \* the fd numbers the kernel may hand out
  NumLoops,  \* m.numLoops
  MaxConns   \* the most connections accepted in a behaviour

Conns == 1..MaxConns
Kinds == {"eof", "hup", "err", "user"}
Threads == Conns \X Kinds
None == 0
NoThread == <<0, "none">>

VARIABLES
  fdTable,   \* kernel fd table: fd number -> socket (connection id) or None
  epollSet,  \* fds in the epoll interest list
  loopMap,   \* the loops' conns maps, keyed by fd: fd -> connection or None
  nConns,    \* connections accepted so far
  cfd,       \* c.fd, or -1
  closed,    \* c.closed
  onceDone,  \* c.closeOnce has run
  onClose,   \* number of OnClose calls for c
  mu,        \* the thread holding c.mu, or NoThread
  pc,        \* each closer thread's position
  acceptor,  \* the connection add() is registering, or None
  blocked,   \* the connection whose Close a loop's reactor is running
  peerFin,   \* the peer of c has sent FIN
  wrote,     \* the application has called WriteMessage on c
  called,    \* the application has called Close on c
  foreign,   \* some close(fd) or Delete(fd) hit another connection's socket
  panicked   \* a loops[index] access with index -1 % N < 0 panicked

vars == <<fdTable, epollSet, loopMap, nConns, cfd, closed, onceDone, onClose,
          mu, pc, acceptor, blocked, peerFin, wrote, called, foreign, panicked>>

Loops == 0..(NumLoops - 1)

(* Go's % truncates towards zero: -1 % N is -1 for N > 1.                 *)
GoMod(a, n) == IF a < 0 THEN -((-a) % n) ELSE a % n

FreeFds == {f \in Fds : fdTable[f] = None}
LowestFree == CHOOSE f \in FreeFds : \A g \in FreeFds : f <= g

Accepted(c) == c <= nConns

-----------------------------------------------------------------------------
(* The kernel's close(fd): the socket is released and leaves epoll.  By   *)
(* is the connection on whose behalf the code closes it (None for the     *)
(* orphan path of apiPoll).                                                *)
CloseFd(f, by) ==
  /\ fdTable' = [fdTable EXCEPT ![f] = None]
  /\ epollSet' = epollSet \ {f}
  /\ foreign' = (foreign \/ fdTable[f] \notin {None, by})

(* MultiEventLoop.add, first half: newConn and addRead on loop fd % N.    *)
(* The kernel hands the accepted socket the lowest free fd.                *)
AcceptAddRead ==
  /\ acceptor = None /\ nConns < MaxConns /\ FreeFds # {}
  /\ LET c == nConns + 1 IN
       /\ nConns' = c
       /\ fdTable' = [fdTable EXCEPT ![LowestFree] = c]
       /\ cfd' = [cfd EXCEPT ![c] = LowestFree]
       /\ epollSet' = epollSet \cup {LowestFree}
       /\ acceptor' = c
  /\ UNCHANGED <<loopMap, closed, onceDone, onClose, mu, pc, blocked, peerFin,
                 wrote, called, foreign, panicked>>

(* MultiEventLoop.add, second half: conns.Store(c.getFd(), c).            *)
AcceptStore ==
  /\ acceptor # None
  /\ IF cfd[acceptor] >= 0
       THEN loopMap' = [loopMap EXCEPT ![cfd[acceptor]] = acceptor]
       ELSE UNCHANGED loopMap
  /\ acceptor' = None
  /\ UNCHANGED <<fdTable, epollSet, nConns, cfd, closed, onceDone, onClose, mu,
                 pc, blocked, peerFin, wrote, called, foreign, panicked>>

(* The peer of an accepted connection sends FIN.                           *)
PeerFin(c) ==
  /\ Accepted(c) /\ ~peerFin[c]
  /\ peerFin' = [peerFin EXCEPT ![c] = TRUE]
  /\ UNCHANGED <<fdTable, epollSet, loopMap, nConns, cfd, closed, onceDone,
                 onClose, mu, pc, acceptor, blocked, wrote, called, foreign, panicked>>

(* apiPoll handles one event: fd f of loop l is readable because its peer *)
(* sent FIN (EPOLLIN with EPOLLRDHUP; level-triggered).  getConn(f) nil:  *)
(* the fd is closed as an orphan.  Otherwise processWebsocketFrame reads   *)
(* 0 bytes, starts "go closeAndWaitOnMessage(true, io.EOF)", calls         *)
(* OnClose(c, io.EOF) itself, and the EPOLLRDHUP branch then runs          *)
(* c.Close() on the reactor thread, which blocks the loop until it returns.*)
ReactorEvent(l) ==
  /\ blocked[l] = None
  /\ \E f \in epollSet :
       /\ GoMod(f, NumLoops) = l
       /\ fdTable[f] # None /\ peerFin[fdTable[f]]
       /\ LET c == loopMap[f] IN
          IF c = None
            THEN /\ CloseFd(f, None)
                 /\ UNCHANGED <<onClose, pc, blocked>>
            ELSE /\ pc[<<c, "eof">>] = "idle" /\ pc[<<c, "hup">>] = "idle"
                 /\ onClose' = [onClose EXCEPT ![c] = @ + 1]
                 /\ pc' = [pc EXCEPT ![<<c, "eof">>] = "check",
                                     ![<<c, "hup">>] = "check"]
                 /\ blocked' = [blocked EXCEPT ![l] = c]
                 /\ UNCHANGED <<fdTable, epollSet, foreign>>
  /\ UNCHANGED <<loopMap, nConns, cfd, closed, onceDone, mu, acceptor, peerFin,
                 wrote, called, panicked>>

(* The application calls WriteMessage once the connection is open and the *)
(* write fails (EPIPE after the FIN, or EBADF on fd -1): writeOrAddPoll    *)
(* starts "go c.closeInner(true, err)".  WriteMessage refuses a closed     *)
(* connection.                                                             *)
WriteFails(c) ==
  /\ Accepted(c) /\ acceptor # c /\ ~wrote[c] /\ ~closed[c]
  /\ peerFin[c] \/ cfd[c] = -1
  /\ pc[<<c, "err">>] = "idle"
  /\ wrote' = [wrote EXCEPT ![c] = TRUE]
  /\ pc' = [pc EXCEPT ![<<c, "err">>] = "del"]
  /\ UNCHANGED <<fdTable, epollSet, loopMap, nConns, cfd, closed, onceDone,
                 onClose, mu, acceptor, blocked, peerFin, called, foreign, panicked>>

(* The application calls c.Close() from its own goroutine, once.         *)
UserClose(c) ==
  /\ Accepted(c) /\ acceptor # c /\ ~called[c]
  /\ called' = [called EXCEPT ![c] = TRUE]
  /\ pc' = [pc EXCEPT ![<<c, "user">>] = "check"]
  /\ UNCHANGED <<fdTable, epollSet, loopMap, nConns, cfd, closed, onceDone,
                 onClose, mu, acceptor, blocked, peerFin, wrote, foreign, panicked>>

-----------------------------------------------------------------------------
(* The closer threads.  "eof" is the goroutine the EOF path starts, "hup"  *)
(* the reactor's own Close, "user" the application's Close: all three run  *)
(* closeAndWaitOnMessage.  "err" is the goroutine writeOrAddPoll starts,   *)
(* which runs closeInner alone, without the closed check or the mutex.     *)
(* No OnMessage callback is in flight, so waitOnMessageRun.Wait returns at *)
(* once.                                                                   *)

(* A thread leaves its closer; a reactor blocked in that Close resumes.   *)
Return(t) ==
  /\ pc' = [pc EXCEPT ![t] = "idle"]
  /\ blocked' = [l \in Loops |-> IF t[2] = "hup" /\ blocked[l] = t[1]
                                  THEN None ELSE blocked[l]]

(* closeAndWaitOnMessage: if atomic.LoadInt32(&c.closed) == 1, return.    *)
closeAndWaitOnMessage_check(t) ==
  LET c == t[1] IN
  /\ pc[t] = "check"
  /\ IF closed[c] THEN Return(t)
     ELSE pc' = [pc EXCEPT ![t] = "lock"] /\ UNCHANGED blocked
  /\ UNCHANGED <<fdTable, epollSet, loopMap, nConns, cfd, closed, onceDone,
                 onClose, mu, acceptor, peerFin, wrote, called, foreign, panicked>>

(* closeAndWaitOnMessage: c.mu.Lock().                                    *)
closeAndWaitOnMessage_lock(t) ==
  LET c == t[1] IN
  /\ pc[t] = "lock" /\ mu[c] = NoThread
  /\ mu' = [mu EXCEPT ![c] = t]
  /\ pc' = [pc EXCEPT ![t] = "del"]
  /\ UNCHANGED <<fdTable, epollSet, loopMap, nConns, cfd, closed, onceDone,
                 onClose, acceptor, blocked, peerFin, wrote, called, foreign, panicked>>

(* Mutant: del closes the fd but leaves the map entry.                    *)
closeInner_delKeepsEntry(t) ==
  LET c == t[1]
      f == cfd[c]
  IN
  /\ pc[t] = "del"
  /\ IF f < 0
       THEN /\ panicked' = (GoMod(f, NumLoops) < 0)
            /\ UNCHANGED <<fdTable, epollSet, foreign>>
       ELSE /\ CloseFd(f, c)
            /\ UNCHANGED panicked
  /\ pc' = [pc EXCEPT ![t] = "fd"]
  /\ UNCHANGED <<loopMap, nConns, cfd, closed, onceDone, onClose, mu, acceptor,
                 blocked, peerFin, wrote, called>>

(* closeInner: c.multiEventLoop.del(c), i.e. index := c.getFd() % N,      *)
(* loops[index].conns.Delete(fd), unix.Close(fd).  With fd = -1 and N > 1 *)
(* the index is negative and loops[index] panics; with N = 1 it is 0 and  *)
(* Delete(-1) and Close(-1) do nothing.                                    *)
closeInner_del(t) ==
  LET c == t[1]
      f == cfd[c]
  IN
  /\ pc[t] = "del"
  /\ IF f < 0
       THEN /\ panicked' = (GoMod(f, NumLoops) < 0)
            /\ UNCHANGED <<fdTable, epollSet, loopMap, foreign>>
       ELSE /\ loopMap' = [loopMap EXCEPT ![f] = None]
            /\ fdTable' = [fdTable EXCEPT ![f] = None]
            /\ epollSet' = epollSet \ {f}
            /\ foreign' = (foreign \/ fdTable[f] \notin {None, c}
                                   \/ loopMap[f] \notin {None, c})
            /\ UNCHANGED panicked
  /\ pc' = [pc EXCEPT ![t] = "fd"]
  /\ UNCHANGED <<nConns, cfd, closed, onceDone, onClose, mu, acceptor, blocked,
                 peerFin, wrote, called>>

(* Mutant: the closed fd is marked 0 instead of -1.                       *)
closeInner_fdZero(t) ==
  /\ pc[t] = "fd"
  /\ cfd' = [cfd EXCEPT ![t[1]] = 0]
  /\ pc' = [pc EXCEPT ![t] = "once"]
  /\ UNCHANGED <<fdTable, epollSet, loopMap, nConns, closed, onceDone, onClose,
                 mu, acceptor, blocked, peerFin, wrote, called, foreign, panicked>>

(* closeInner: atomic.StoreInt64(&c.fd, -1).                              *)
closeInner_fd(t) ==
  /\ pc[t] = "fd"
  /\ cfd' = [cfd EXCEPT ![t[1]] = -1]
  /\ pc' = [pc EXCEPT ![t] = "once"]
  /\ UNCHANGED <<fdTable, epollSet, loopMap, nConns, closed, onceDone, onClose,
                 mu, acceptor, blocked, peerFin, wrote, called, foreign, panicked>>

(* closeInner: c.closeOnce.Do(OnClose(c, nil); parent = nil).             *)
closeInner_once(t) ==
  LET c == t[1] IN
  /\ pc[t] = "once"
  /\ onceDone' = [onceDone EXCEPT ![c] = TRUE]
  /\ onClose' = [onClose EXCEPT ![c] = IF onceDone[c] THEN @ ELSE @ + 1]
  /\ pc' = [pc EXCEPT ![t] = "closed"]
  /\ UNCHANGED <<fdTable, epollSet, loopMap, nConns, cfd, closed, mu, acceptor,
                 blocked, peerFin, wrote, called, foreign, panicked>>

(* closeInner: atomic.StoreInt32(&c.closed, 1); closeAndWaitOnMessage     *)
(* then unlocks c.mu and returns.                                          *)
closeInner_closed(t) ==
  LET c == t[1] IN
  /\ pc[t] = "closed"
  /\ closed' = [closed EXCEPT ![c] = TRUE]
  /\ mu' = [mu EXCEPT ![c] = IF @ = t THEN NoThread ELSE @]
  /\ Return(t)
  /\ UNCHANGED <<fdTable, epollSet, loopMap, nConns, cfd, onceDone, onClose,
                 acceptor, peerFin, wrote, called, foreign, panicked>>

Init ==
  /\ fdTable = [f \in Fds |-> None] /\ epollSet = {} /\ loopMap = [f \in Fds |-> None]
  /\ nConns = 0 /\ cfd = [c \in Conns |-> -1]
  /\ closed = [c \in Conns |-> FALSE] /\ onceDone = [c \in Conns |-> FALSE]
  /\ onClose = [c \in Conns |-> 0] /\ mu = [c \in Conns |-> NoThread]
  /\ pc = [t \in Threads |-> "idle"] /\ acceptor = None
  /\ blocked = [l \in Loops |-> None] /\ peerFin = [c \in Conns |-> FALSE]
  /\ wrote = [c \in Conns |-> FALSE] /\ called = [c \in Conns |-> FALSE]
  /\ foreign = FALSE /\ panicked = FALSE

Step(t) ==
  \/ closeAndWaitOnMessage_check(t) \/ closeAndWaitOnMessage_lock(t)
  \/ closeInner_del(t) \/ closeInner_fd(t) \/ closeInner_once(t)
  \/ closeInner_closed(t)

(* A panic in any goroutine ends the process.                              *)
Next ==
  /\ ~panicked
  /\ \/ AcceptAddRead \/ AcceptStore
     \/ \E l \in Loops : ReactorEvent(l)
     \/ \E c \in Conns : PeerFin(c) \/ WriteFails(c) \/ UserClose(c)
     \/ \E t \in Threads : Step(t)

(* Goroutines and reactor threads are scheduled by the Go runtime, which  *)
(* eventually runs every runnable goroutine: each closer step is weakly    *)
(* fair, and so is each reactor, which polls continuously.                 *)
Spec == Init /\ [][Next]_vars
        /\ \A t \in Threads : WF_vars(~panicked /\ Step(t))
        /\ \A l \in Loops : WF_vars(~panicked /\ ReactorEvent(l))
        /\ WF_vars(~panicked /\ AcceptStore)

-----------------------------------------------------------------------------
(* Type invariant.                                                         *)
TypeOK ==
  /\ fdTable \in [Fds -> Conns \cup {None}] /\ epollSet \subseteq Fds
  /\ loopMap \in [Fds -> Conns \cup {None}] /\ nConns \in 0..MaxConns
  /\ cfd \in [Conns -> Fds \cup {-1}]
  /\ closed \in [Conns -> BOOLEAN] /\ onceDone \in [Conns -> BOOLEAN]
  /\ onClose \in [Conns -> Nat] /\ mu \in [Conns -> Threads \cup {NoThread}]
  /\ pc \in [Threads -> {"idle", "check", "lock", "del", "fd", "once", "closed"}]
  /\ acceptor \in Conns \cup {None} /\ blocked \in [Loops -> Conns \cup {None}]
  /\ peerFin \in [Conns -> BOOLEAN] /\ wrote \in [Conns -> BOOLEAN]
  /\ called \in [Conns -> BOOLEAN]
  /\ foreign \in BOOLEAN /\ panicked \in BOOLEAN

(* Once closeInner has set c.closed, nothing of c is left to the         *)
(* reactors: no loop's map has an entry for c, no epoll-registered socket  *)
(* is c's, and c.fd is -1.  This must hold whichever of the EOF goroutine, *)
(* the reactor's Close, the application's Close and a failed write's       *)
(* closeInner got there first, and whichever of them found c.fd already    *)
(* -1 and skipped del.                                                     *)
ClosedIsUnregistered ==
  \A c \in Conns : closed[c] =>
    /\ \A f \in Fds : loopMap[f] # c /\ fdTable[f] # c
    /\ cfd[c] = -1

(* OnClose is called at most once per connection (closeOnce), however     *)
(* many of the EOF path, the reactor's Close, the application's Close and *)
(* a failed write race to close it.                                        *)
OnCloseAtMostOnce == \A c \in Conns : onClose[c] <= 1

(* Tearing a connection down never closes or unregisters another          *)
(* connection's socket, and never crashes the process.                     *)
TeardownIsolated == ~foreign /\ ~panicked

=============================================================================
