\* Four chunks through a two-chunk pipe: the test can be blocked on a full
\* pipe, finish while chunks are still buffered, and the harness's stdout can
\* fail before, during or after the copy.
CONSTANTS
  N = 4
  PipeCap = 2

SPECIFICATION FairSpec


\* The harness really hangs when the tee has died and the test is blocked on
\* a full pipe; that stop is what TeeTerminates rules out when stdout works.
CHECK_DEADLOCK FALSE
PROPERTY EventuallyReports
