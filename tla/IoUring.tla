------------------------------- MODULE IoUring -------------------------------
(***************************************************************************)
(* The io_uring backend of src/api_iouring.go: the submission queue that   *)
(* addRead, addWrite and del draw entries from (GetSQE, nil when the queue *)
(* is full), the kernel completing submitted operations in any order, and  *)
(* the reactor's run: SubmitAndWaitTimeout, PeekBatchCQE, processConn on   *)
(* each completion in turn, and CQAdvance past the ones it consumed.       *)
(*                                                                         *)
(* An entry carries only what the code puts in it that the completion path *)
(* can see: the operation prepared and UserData, the connection pointer.   *)
(* Buffers and lengths are left out.  processConn is not in src/; spec.md  *)
(* says it turns a completion into the connection's event, and it may fail.*)
(*                                                                         *)
(* Writes reach addWrite through Conn.WriteFrameOnlyIoUring (part_000),    *)
(* which numbers each pending write with c.wSeq and parks its buffer in    *)
(* the sync.Map c.m under that number for the completion to find.  Nothing *)
(* in src/ removes an entry from c.m (processConn is not there).           *)
(***************************************************************************)
EXTENDS Integers, Sequences, SequencesExt

CONSTANTS
  Conns,        \* the connections the reactor serves
  RingEntries,  \* the submission queue size passed to CreateRing
  CqEntries,    \* the completion queue size the kernel gives the ring
  BatchSize,    \* len(cqes), the most PeekBatchCQE returns
  MaxOps,       \* bound on the entries requested, for the model only
  MaxUint16,    \* math.MaxUint16, scaled down: seq numbers wrap below it
  MaxUint32     \* the largest value of c.wSeq's type, uint32, scaled down

ASSUME RingEntries \in Nat \ {0} /\ CqEntries \in Nat \ {0}
ASSUME BatchSize \in Nat \ {0} /\ MaxOps \in Nat
ASSUME MaxUint16 \in Nat \ {0} /\ MaxUint32 \in Nat /\ MaxUint16 < MaxUint32

VARIABLES
  sq,         \* entries GetSQE handed out and not yet submitted, in order
  inflight,   \* operations submitted to the kernel and not completed
  cq,         \* completions posted and not yet passed by CQAdvance
  operation,  \* c.operation: whether opRead was set on the connection
  pc,         \* the reactor: "idle", "wait" (in SubmitAndWaitTimeout), "process"
  n,          \* numberOfCQEs returned by PeekBatchCQE
  i,          \* the loop index of run
  nOps,       \* entries requested so far; also each entry's identity
  completed,  \* history: the ids of the completions, in the order posted
  handled,    \* history: the ids passed to processConn, in order
  wSeq,       \* c.wSeq, per connection
  m,          \* c.m: seq -> the id of the send entry its buffer went with
  sendSeq     \* history: entry id -> the conn and uint16 seq passed with it

vars == <<sq, inflight, cq, operation, pc, n, i, nOps, completed,
          handled, wSeq, m, sendSeq>>
writeVars == <<wSeq, m, sendSeq>>

Ops == {"recv", "send", "close"}
Entry == [id : 1..MaxOps, op : Ops, conn : Conns]
Cqe == [id : 1..MaxOps, conn : Conns]

-----------------------------------------------------------------------------
(* apiIoUringCreate: a fresh ring; the error of CreateRing is dropped.     *)
Init ==
  /\ sq = <<>>
  /\ inflight = {}
  /\ cq = <<>>
  /\ operation = [c \in Conns |-> FALSE]
  /\ pc = "idle"
  /\ n = 0
  /\ i = 0
  /\ nOps = 0
  /\ completed = <<>>
  /\ handled = <<>>
  /\ wSeq = [c \in Conns |-> 0]
  /\ m = [c \in Conns |-> <<>>]
  /\ sendSeq = <<>>

(* A GetSQE that ignores the queue's size.                                 *)
GetSQEUnchecked(op, c) ==
  /\ nOps < MaxOps
  /\ sq' = Append(sq, [id |-> nOps + 1, op |-> op, conn |-> c])
  /\ nOps' = nOps + 1

(* entry := e.ring.GetSQE(); if entry == nil { return errors.New(...) }    *)
(* followed by Prepare<op> and entry.UserData = c.  Returns whether an     *)
(* entry was obtained.                                                     *)
GetSQE(op, c) ==
  /\ nOps < MaxOps
  /\ nOps' = nOps + 1
  /\ \/ /\ Len(sq) < RingEntries
        /\ sq' = Append(sq, [id |-> nOps + 1, op |-> op, conn |-> c])
     \/ /\ Len(sq) = RingEntries
        /\ UNCHANGED sq

Obtained == Len(sq') > Len(sq)

(* addRead: a recv into rbuf[rr:], then c.operation |= opRead.             *)
addRead(c) ==
  /\ GetSQE("recv", c)
  /\ operation' = IF Obtained THEN [operation EXCEPT ![c] = TRUE]
                              ELSE operation
  /\ UNCHANGED <<inflight, cq, pc, n, i, completed, handled>>

(* addWrite: a send of the outbound buffer; no operation flag is set.      *)
addWrite(c) ==
  /\ GetSQE("send", c)
  /\ UNCHANGED <<inflight, cq, operation, pc, n, i, completed, handled>>

(* del: a close of c.fd.                                                   *)
del(c) ==
  /\ GetSQE("close", c)
  /\ UNCHANGED <<inflight, cq, operation, pc, n, i, completed, handled>>

(* The kernel completes one submitted operation, any of them, and posts a  *)
(* completion carrying the entry's UserData.  A full completion queue     *)
(* holds the kernel back.                                                  *)
Complete ==
  /\ \E o \in inflight :
       /\ Len(cq) < CqEntries
       /\ cq' = Append(cq, [id |-> o.id, conn |-> o.conn])
       /\ inflight' = inflight \ {o}
       /\ completed' = Append(completed, o.id)
  /\ UNCHANGED <<sq, operation, pc, n, i, nOps, handled, writeVars>>

-----------------------------------------------------------------------------
(* The reactor's run(333ms), called by apiPoll.                            *)

(* e.ring.CQAdvance(k): the first k completions are consumed.              *)
advance(k) == cq' = SubSeq(cq, k + 1, Len(cq))

(* SubmitAndWaitTimeout hands every prepared entry to the kernel and       *)
(* sleeps.                                                                 *)
SubmitAndWait ==
  /\ pc = "idle"
  /\ inflight' = inflight \cup ToSet(sq)
  /\ sq' = <<>>
  /\ pc' = "wait"
  /\ UNCHANGED <<cq, operation, n, i, nOps, completed, handled, writeVars>>

(* EAGAIN or EINTR: run returns nil without looking at the completions.    *)
WaitInterrupted ==
  /\ pc = "wait"
  /\ pc' = "idle"
  /\ UNCHANGED <<sq, inflight, cq, operation, n, i, nOps, completed,
                 handled, writeVars>>

(* ETIME: the timeout passed with no completion posted (the kernel returns *)
(* success when any completion is there, however many were waited for).   *)
WaitTimeout ==
  /\ pc = "wait"
  /\ cq = <<>>
  /\ pc' = "idle"
  /\ UNCHANGED <<sq, inflight, cq, operation, n, i, nOps, completed,
                 handled, writeVars>>

(* numberOfCQEs := e.ring.PeekBatchCQE(cqes)                               *)
WaitReturns ==
  /\ pc = "wait"
  /\ cq # <<>>
  /\ n' = IF Len(cq) < BatchSize THEN Len(cq) ELSE BatchSize
  /\ i' = 0
  /\ pc' = "process"
  /\ UNCHANGED <<sq, inflight, cq, operation, nOps, completed,
                 handled, writeVars>>

(* On failure, a loop that advances only past the completions before the  *)
(* failing one.                                                            *)
ProcessKeepsFailed ==
  /\ pc = "process"
  /\ i < n
  /\ handled' = Append(handled, cq[i + 1].id)
  /\ \/ /\ i' = i + 1
        /\ UNCHANGED <<cq, pc>>
     \/ /\ advance(i)
        /\ pc' = "idle"
        /\ UNCHANGED i
  /\ UNCHANGED <<sq, inflight, operation, n, nOps, completed, writeVars>>

(* On failure, a loop that advances past the whole batch.                  *)
ProcessSkipsRest ==
  /\ pc = "process"
  /\ i < n
  /\ handled' = Append(handled, cq[i + 1].id)
  /\ \/ /\ i' = i + 1
        /\ UNCHANGED <<cq, pc>>
     \/ /\ advance(n)
        /\ pc' = "idle"
        /\ UNCHANGED i
  /\ UNCHANGED <<sq, inflight, operation, n, nOps, completed, writeVars>>

(* err = processConn(cqes[i]); on error advance(i + 1) and return err.    *)
Process ==
  /\ pc = "process"
  /\ i < n
  /\ handled' = Append(handled, cq[i + 1].id)
  /\ \/ /\ i' = i + 1
        /\ UNCHANGED <<cq, pc>>
     \/ /\ advance(i + 1)
        /\ pc' = "idle"
        /\ UNCHANGED i
  /\ UNCHANGED <<sq, inflight, operation, n, nOps, completed, writeVars>>

(* e.advance(numberOfCQEs); return nil                                     *)
Finish ==
  /\ pc = "process"
  /\ i = n
  /\ advance(n)
  /\ pc' = "idle"
  /\ UNCHANGED <<sq, inflight, operation, n, i, nOps, completed,
                 handled, writeVars>>

-----------------------------------------------------------------------------------------------------------------------------------------------------
(* Conn.WriteFrameOnlyIoUring (part_000), one writer goroutine.  Each try  *)
(* of its loop holds c.mu and touches only c.wSeq and c.m, which no ring   *)
(* action reads, so its three tries are taken as one step.  Building the  *)
(* frame before the loop fails only for a header too long for the pooled   *)
(* buffer, which the model leaves out.                                     *)

(* c.wSeq++ with no check for wrapping.                                    *)
nextSeqNoWrap(s) == (s + 1) % (MaxUint32 + 1)

(* c.wSeq++; if c.wSeq == math.MaxUint16 { c.wSeq = 0 }                    *)
nextSeq(s) ==
  IF (s + 1) % (MaxUint32 + 1) = MaxUint16 THEN 0
  ELSE (s + 1) % (MaxUint32 + 1)

(* A try that does not look in c.m first.                                  *)
loadedNever(c, s) == FALSE

(* _, ok := c.m.Load(newSeq)                                               *)
loaded(c, s) == s \in DOMAIN m[c]

(* The loop: a seq already in c.m is skipped (unlock, continue), and after *)
(* three "store seq failed" is returned with c.wSeq advanced.  The first   *)
(* free one is Stored (a Store replaces) with the buffer, then             *)
(* c.parent.addWrite(c, uint16(newSeq)) submits a send for c, which may    *)
(* find the ring full; the seq stays in c.m either way.                    *)
WriteFrameOnlyIoUring(c) ==
  LET t1 == nextSeq(wSeq[c])
      t2 == nextSeq(t1)
      t3 == nextSeq(t2)
      tries == <<t1, t2, t3>>
      free == {k \in 1..3 : ~loaded(c, tries[k])}
  IN \/ /\ free = {}
        /\ wSeq' = [wSeq EXCEPT ![c] = t3]
        /\ UNCHANGED <<sq, nOps, m, sendSeq>>
     \/ /\ free # {}
        /\ LET s == tries[Min(free)]
           IN /\ wSeq' = [wSeq EXCEPT ![c] = s]
              /\ m' = [m EXCEPT ![c] = (s :> nOps + 1) @@ @]
              /\ GetSQE("send", c)
              /\ sendSeq' = sendSeq @@ (nOps + 1 :> <<c, s % (MaxUint16 + 1)>>)
  /\ UNCHANGED <<inflight, cq, operation, pc, n, i, completed, handled>>

(* apiPoll: one step of e.run(333ms); its error is returned to the loop, *)
(* which calls apiPoll again.                                              *)
apiPoll ==
  \/ SubmitAndWait
  \/ WaitInterrupted
  \/ WaitTimeout
  \/ WaitReturns
  \/ Process
  \/ Finish

Next ==
  \/ \E c \in Conns : (addRead(c) \/ addWrite(c) \/ del(c)) /\ UNCHANGED writeVars
  \/ \E c \in Conns : WriteFrameOnlyIoUring(c)
  \/ Complete
  \/ apiPoll

(* apiPoll is called in a loop for ever, so the reactor keeps submitting   *)
(* and processing; the kernel completes what it was given.  A wait is not  *)
(* interrupted for ever: a reactor that keeps returning to the wait with  *)
(* completions queued is eventually handed them (strong fairness).  The    *)
(* wait itself has a 333ms timeout, so it always returns.                  *)
Fairness ==
  /\ WF_vars(SubmitAndWait)
  /\ WF_vars(WaitTimeout \/ WaitInterrupted \/ WaitReturns)
  /\ SF_vars(WaitReturns)
  /\ WF_vars(Process)
  /\ WF_vars(Finish)
  /\ WF_vars(Complete)

Spec == Init /\ [][Next]_vars /\ Fairness

-----------------------------------------------------------------------------
(* Properties                                                              *)

TypeOK ==
  /\ sq \in Seq(Entry) /\ Len(sq) <= RingEntries
  /\ inflight \subseteq Entry
  /\ cq \in Seq(Cqe) /\ Len(cq) <= CqEntries
  /\ operation \in [Conns -> BOOLEAN]
  /\ pc \in {"idle", "wait", "process"}
  /\ n \in 0..BatchSize /\ i \in 0..n
  /\ wSeq \in [Conns -> 0..MaxUint32]

(* run hands processConn each completion exactly once and in the order the *)
(* kernel posted them, whichever completion fails and however the batches  *)
(* fall: what processConn has seen is always a prefix of what was posted.  *)
CompletionsHandledOnceInOrder == IsPrefix(handled, completed)

(* Every completion the kernel posts is eventually passed to processConn,  *)
(* including those after a failing one in its batch.                       *)
EveryCompletionHandled ==
  \A k \in 1..MaxOps :
    (\E j \in DOMAIN completed : completed[j] = k)
      ~> (\E j \in DOMAIN handled : handled[j] = k)

(* The uint16 seq WriteFrameOnlyIoUring hands to addWrite with a send is   *)
(* still, when any later write has been numbered, the key under which     *)
(* that send's buffer is parked in c.m: the completion can find its buffer,*)
(* however the seq wraps and whichever earlier writes are still pending.  *)
SubmittedSeqFindsBuffer ==
  \A id \in DOMAIN sendSeq :
    LET c == sendSeq[id][1]
        s == sendSeq[id][2]
    IN s \in DOMAIN m[c] /\ m[c][s] = id

=============================================================================
