------------------------------- MODULE Options -------------------------------
(***************************************************************************)
(* The functional options of src/common_options.go that set the policy     *)
(* flags the other modules read: decompression, replyPing, ignorePong and  *)
(* utf8Check.  An option is a function from a configuration to a           *)
(* configuration; Dial, ClientOptionToConf and the server apply the user's *)
(* options in order, each one overwriting what an earlier one set.         *)
(* Options that only store a value no module reads (timeouts, buffer       *)
(* sizes, TCP_NODELAY, callbacks) are left out.                            *)
(***************************************************************************)
EXTENDS SequencesExt

(* The configuration before any option: the zero values of ConnOption and *)
(* DialOption, with every policy flag off.                                 *)
DefaultConfig ==
  [decompression |-> FALSE, replyPing |-> FALSE, ignorePong |-> FALSE,
   utf8Check |-> FALSE]

WithServerEnableUTF8Check(o) == [o EXCEPT !.utf8Check = TRUE]
WithClientEnableUTF8Check(o) == [o EXCEPT !.utf8Check = TRUE]
WithServerReplyPing(o) == [o EXCEPT !.replyPing = TRUE]
WithClientReplyPing(o) == [o EXCEPT !.replyPing = TRUE]
WithServerIgnorePong(o) == [o EXCEPT !.ignorePong = TRUE]
WithClientIgnorePong(o) == [o EXCEPT !.ignorePong = TRUE]
WithServerDecompression(o) == [o EXCEPT !.decompression = TRUE]
WithClientDecompression(o) == [o EXCEPT !.decompression = TRUE]

ServerOptions ==
  {"WithServerEnableUTF8Check", "WithServerReplyPing", "WithServerIgnorePong",
   "WithServerDecompression"}

ClientOptions ==
  {"WithClientEnableUTF8Check", "WithClientReplyPing", "WithClientIgnorePong",
   "WithClientDecompression"}

(* o(&dial): one option, named, applied to a configuration.                *)
ApplyOption(o, name) ==
  CASE name = "WithServerEnableUTF8Check" -> WithServerEnableUTF8Check(o)
    [] name = "WithClientEnableUTF8Check" -> WithClientEnableUTF8Check(o)
    [] name = "WithServerReplyPing"       -> WithServerReplyPing(o)
    [] name = "WithClientReplyPing"       -> WithClientReplyPing(o)
    [] name = "WithServerIgnorePong"      -> WithServerIgnorePong(o)
    [] name = "WithClientIgnorePong"      -> WithClientIgnorePong(o)
    [] name = "WithServerDecompression"   -> WithServerDecompression(o)
    [] name = "WithClientDecompression"   -> WithClientDecompression(o)

(* for _, o := range opts { o(&dial) }                                     *)
ApplyOptions(o, opts) == FoldLeft(ApplyOption, o, opts)

=============================================================================
