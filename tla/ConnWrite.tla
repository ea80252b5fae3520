------------------------------- MODULE ConnWrite -------------------------------
(***************************************************************************)
(* The buffered non-blocking write path of one connection                  *)
(* (src/unnamed/part_000): Conn.Write (578-592) and writeOrAddPoll         *)
(* (594-636), called by WriteMessage under the connection mutex;           *)
(* flushOrClose (642-648), called by the reactor on EPOLLOUT under the     *)
(* same mutex; addWrite (part_001 66-73), which arms EPOLLOUT; and the     *)
(* closeInner goroutine a fatal write error spawns (546-559), as far as it *)
(* concerns writing (the fd becomes -1 and leaves epoll).  The mutex makes *)
(* each of Write and flushOrClose one step.  The kernel's send buffer has  *)
(* SockBuf bytes of room that the peer frees by reading; the peer may      *)
(* reset the connection.                                                   *)
(***************************************************************************)
EXTENDS Integers, Sequences, SequencesExt

CONSTANTS
  MaxWrites,  \* the most Write calls in a behaviour
  MaxLen,     \* the longest message handed to one Write
  SockBuf,    \* room in the kernel's send buffer
  MaxClosers  \* the most closeInner goroutines pending at once

VARIABLES
  wbuf,      \* c.wbuf
  armed,     \* EPOLLOUT registered for the fd (addWrite succeeded)
  fdValid,   \* c.fd is the socket (closeInner has not set it to -1)
  space,     \* free room in the kernel send buffer
  sockErr,   \* the peer reset the connection: unix.Write fails
  closers,   \* closeInner goroutines spawned and not yet run
  sent,      \* the byte stream the kernel accepted, in order
  written    \* history: the data of each Write call, in call order

vars == <<wbuf, armed, fdValid, space, sockErr, closers, sent, written>>

(* Write call k hands over the bytes 10k+1, 10k+2, ...: every byte of the *)
(* stream is distinct, so loss, duplication and reordering show.          *)
Data(k, len) == [i \in 1..len |-> 10 * k + i]

Accepted == FlattenSeq(written)

Min2(a, b) == IF a < b THEN a ELSE b

-----------------------------------------------------------------------------
(* addWrite: EPOLL_CTL_MOD adding EPOLLOUT; the call may fail (ENOMEM, or *)
(* ENOENT once the fd has left epoll).                                     *)
addWrite(ok) == armed' = (ok \/ armed)

(* Mutant: a short write is counted as if the whole buffer had gone out.  *)
writeOrAddPollCountsAll(b, w) ==
  LET n == IF fdValid /\ ~sockErr THEN Min2(space, Len(b)) ELSE 0
  IN
  /\ Len(b) > 0 /\ fdValid /\ ~sockErr
  /\ sent' = sent \o SubSeq(b, 1, n) /\ space' = space - Len(b)
  /\ wbuf' = SubSeq(b, n + 1, Len(b))
  /\ \E ok \in BOOLEAN : addWrite(ok)
  /\ UNCHANGED <<sockErr, closers>>

(* writeOrAddPoll(b), with w the value of c.wbuf when it is called.  The  *)
(* loop writes until b is empty: the kernel takes what fits, and the call *)
(* after a short write meets EAGAIN (or, if the peer reset meanwhile, an  *)
(* error).  On EAGAIN the rest of b becomes c.wbuf and EPOLLOUT is armed; *)
(* a failed addWrite returns 0 with the rest kept in c.wbuf.  Any other   *)
(* error spawns closeInner and returns.  When the loop ends,               *)
(* len(c.wbuf) == total clears c.wbuf.                                     *)
writeOrAddPoll(b, w) ==
  LET n == IF fdValid /\ ~sockErr THEN Min2(space, Len(b)) ELSE 0
      rest == SubSeq(b, n + 1, Len(b))
      fatal == ~fdValid \/ sockErr
  IN
  \/ /\ Len(b) = 0 \/ (~fatal /\ n = Len(b))
     /\ sent' = sent \o SubSeq(b, 1, n) /\ space' = space - n
     /\ wbuf' = IF Len(w) = n THEN <<>> ELSE w
     /\ UNCHANGED <<armed, sockErr, closers>>
  \/ /\ Len(b) > 0 /\ ~fatal /\ n < Len(b)
     /\ sent' = sent \o SubSeq(b, 1, n) /\ space' = space - n
     /\ wbuf' = rest
     /\ \E ok \in BOOLEAN : addWrite(ok)
     /\ UNCHANGED <<sockErr, closers>>
  \/ /\ Len(b) > 0 /\ (fatal \/ n < Len(b))
     /\ sent' = sent \o SubSeq(b, 1, n) /\ space' = space - n
     /\ sockErr' = (sockErr \/ ~fatal)
     /\ closers < MaxClosers /\ closers' = closers + 1
     /\ wbuf' = w
     /\ UNCHANGED armed

(* Mutant: the new data is written on its own, ahead of c.wbuf.           *)
WriteSkipsBuffer ==
  \E len \in 1..MaxLen :
    LET data == Data(Len(written) + 1, len)
        w == IF Len(wbuf) > 0 THEN wbuf \o data ELSE wbuf
    IN /\ Len(written) < MaxWrites
       /\ written' = Append(written, data)
       /\ writeOrAddPoll(data, w)
       /\ UNCHANGED fdValid

(* Conn.Write, under the mutex WriteMessage holds: data is appended to a  *)
(* non-empty c.wbuf and the whole buffer is written.                      *)
Write ==
  \E len \in 1..MaxLen :
    LET data == Data(Len(written) + 1, len)
        w == IF Len(wbuf) > 0 THEN wbuf \o data ELSE wbuf
        b == IF Len(wbuf) > 0 THEN w ELSE data
    IN /\ Len(written) < MaxWrites
       /\ written' = Append(written, data)
       /\ writeOrAddPoll(b, w)
       /\ UNCHANGED fdValid

(* flushOrClose, on an EPOLLOUT event of the armed fd.  epoll reports the *)
(* fd writable while the send buffer has room, and on error.              *)
flushOrClose ==
  /\ armed /\ fdValid
  /\ space > 0 \/ sockErr
  /\ writeOrAddPoll(wbuf, wbuf)
  /\ UNCHANGED <<written, fdValid>>

(* Mutant: closeInner leaves c.fd in place.                               *)
closeInnerKeepsFd ==
  /\ closers > 0
  /\ closers' = closers - 1
  /\ armed' = FALSE
  /\ UNCHANGED <<fdValid, wbuf, space, sockErr, sent, written>>

(* A closeInner goroutine runs: the fd is removed from epoll, closed and  *)
(* set to -1.                                                              *)
closeInner ==
  /\ closers > 0
  /\ closers' = closers - 1
  /\ fdValid' = FALSE /\ armed' = FALSE
  /\ UNCHANGED <<wbuf, space, sockErr, sent, written>>

(* The peer reads: room is freed in the send buffer.                       *)
Drain ==
  /\ space < SockBuf /\ ~sockErr
  /\ \E k \in 1..(SockBuf - space) : space' = space + k
  /\ UNCHANGED <<wbuf, armed, fdValid, sockErr, closers, sent, written>>

(* The peer resets the connection.                                         *)
Reset ==
  /\ ~sockErr
  /\ sockErr' = TRUE
  /\ UNCHANGED <<wbuf, armed, fdValid, space, closers, sent, written>>

Init ==
  /\ wbuf = <<>> /\ armed = FALSE /\ fdValid = TRUE /\ space = SockBuf
  /\ sockErr = FALSE /\ closers = 0 /\ sent = <<>> /\ written = <<>>

Next == Write \/ flushOrClose \/ closeInner \/ Drain \/ Reset

(* The reactor polls continuously, so an EPOLLOUT event of an armed fd is *)
(* eventually handled; a spawned goroutine eventually runs; a peer that   *)
(* has not reset eventually reads.                                         *)
Spec == Init /\ [][Next]_vars
        /\ WF_vars(flushOrClose) /\ WF_vars(closeInner) /\ WF_vars(Drain)

-----------------------------------------------------------------------------
(* Type invariant.                                                         *)
TypeOK ==
  /\ wbuf \in Seq(Nat) /\ sent \in Seq(Nat) /\ written \in Seq(Seq(Nat))
  /\ armed \in BOOLEAN /\ fdValid \in BOOLEAN /\ sockErr \in BOOLEAN
  /\ space \in 0..SockBuf /\ closers \in 0..MaxClosers

(* Every byte the kernel accepted was handed to a Write call, in the order *)
(* of the calls, none twice and none skipped; and while no write has      *)
(* failed fatally, the bytes sent followed by c.wbuf are exactly all the  *)
(* bytes written: the append in Write, the slicing on EAGAIN and the      *)
(* clearing of c.wbuf in writeOrAddPoll lose nothing.                      *)
Lossless ==
  /\ IsPrefix(sent, Accepted)
  /\ (closers = 0 /\ fdValid) => sent \o wbuf = Accepted

(* Once EPOLLOUT is armed, buffered bytes are eventually flushed by       *)
(* flushOrClose, or the connection is torn down.                           *)
ArmedBufferDrains == (armed /\ wbuf # <<>>) ~> (wbuf = <<>> \/ ~fdValid)

=============================================================================
