\* Two processes, so that the directory race, a shared named file and two
\* spinners happen; two starts each, so that a restart meets a thread that
\* is still running.
CONSTANTS
  Procs = {p1, p2}
  MaxStarts = 2
  Shared = Shared

SPECIFICATION FairSpec

PROPERTY AllEnd

\* Every process exits or fails: that is the end of a behaviour.
CHECK_DEADLOCK FALSE
