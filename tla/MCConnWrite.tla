----------------------------- MODULE MCConnWrite -----------------------------
(* Bounds for checking ConnWrite.                                          *)
EXTENDS ConnWrite

(* Three writes of one or two bytes against a two-byte send buffer reach  *)
(* short writes, EAGAIN with a non-empty c.wbuf, appends to it and flushes *)
(* of it.                                                                  *)
MCMaxWrites == 3
MCMaxLen == 2
MCSockBuf == 2
MCMaxClosers == 2
=============================================================================
