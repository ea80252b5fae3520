\* A second DialConf on the DialOption a first one used.
\* The program stops after its last Dial, so deadlock is not checked.
CONSTANTS
  Urls <- MCUrls
  Opts <- MCOpts
  Keys <- MCKeys
  MaxDials = 2
  ServerFaults <- MCServerFaults
SPECIFICATION Spec
INVARIANT EachDialStartsFresh
CHECK_DEADLOCK FALSE
