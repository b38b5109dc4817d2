\* Two tests on two workers are enough for one job to raise.
CONSTANTS
  NF = 2
  MaxWorkers = 2

SPECIFICATION FairSpec

PROPERTY EveryTestReported

\* The verifier process exits and then nothing happens: that stop is the
\* normal end, also after an exception (mainPc = "aborted").
CHECK_DEADLOCK FALSE
