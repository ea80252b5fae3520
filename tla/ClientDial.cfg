\* Two Dial or DialConf calls, every network failure and every server answer.
\* The program stops after its last Dial, so deadlock is not checked.
CONSTANTS
  Urls <- MCUrls
  Opts <- MCOpts
  Keys <- MCKeys
  MaxDials = 2
  ServerFaults <- MCServerFaults
SPECIFICATION Spec
INVARIANT TypeOK
INVARIANT FailedDialClosesSocket
CHECK_DEADLOCK FALSE
