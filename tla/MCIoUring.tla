------------------------------ MODULE MCIoUring ------------------------------
EXTENDS IoUring, TLC

CONSTANTS c1, c2

MCConns == {c1, c2}

=============================================================================
