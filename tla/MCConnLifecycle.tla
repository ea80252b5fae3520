--------------------------- MODULE MCConnLifecycle ---------------------------
(* Bounds for checking ConnLifecycle.                                      *)
EXTENDS ConnLifecycle

(* Two fd numbers: a later accept gets the lower one again once a closer *)
(* has released it, possibly while another closer of the first connection *)
(* still holds that number in c.fd.  Up to three connections are accepted *)
(* where a cfg asks for MCMaxConns.                                       *)
MCFds == {3, 4}
MCMaxConns == 3

=============================================================================
