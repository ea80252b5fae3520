\* Two connections, a submission queue of two entries so that GetSQE
\* returns nil on a third request, a completion queue of three, batches of
\* two so that a failure can fall in the middle of a batch, three requests
\* (a third GetSQE before a submit finds the queue full).  No symmetry:
\* the run checks liveness.
\* Seq numbers wrap below 2, so a third write on a connection meets its
\* own pending seqs, and c.wSeq's type holds 0..3, so a seq that did not
\* wrap outgrows uint16 (0..2 here) on the third write.
CONSTANTS
  c1 = c1
  c2 = c2
  MaxUint16 = 2
  MaxUint32 = 3
  Conns <- MCConns
  RingEntries = 2
  CqEntries = 3
  BatchSize = 2
  MaxOps = 3
SPECIFICATION Spec
INVARIANT TypeOK
INVARIANT CompletionsHandledOnceInOrder
INVARIANT SubmittedSeqFindsBuffer
PROPERTY EveryCompletionHandled
