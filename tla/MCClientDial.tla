---------------------------- MODULE MCClientDial ----------------------------
(* Model values for ClientDial: a ws URL with a port, a wss URL without   *)
(* one, a URL of another scheme and one that does not parse; no options,  *)
(* decompression, and the other policy options.                            *)
EXTENDS ClientDial

Url(scheme, host, port, parses) ==
  [scheme |-> scheme, host |-> [name |-> host, port |-> port], parses |-> parses]

MCUrls ==
  { Url("ws", "h1", TRUE, TRUE), Url("wss", "h2", FALSE, TRUE),
    Url("ftp", "h1", FALSE, TRUE), Url("ws", "h1", FALSE, FALSE) }

MCOpts ==
  { <<>>, <<"WithClientDecompression">>,
    <<"WithClientEnableUTF8Check", "WithClientReplyPing", "WithClientIgnorePong">> }

MCKeys == {"k1", "k2"}

MCServerFaults == {"status", "upgrade", "connection", "accept", "extension"}

=============================================================================
