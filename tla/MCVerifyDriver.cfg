\* Four tests on two workers: a worker can finish a later test before an
\* earlier one, the pool is full while jobs are still queued, and a job can
\* raise while others are still queued or running.
CONSTANTS
  NF = 4
  MaxWorkers = 2

SPECIFICATION Spec

INVARIANT TypeOK
PROPERTY ImplementsSequential

\* The verifier process exits and then nothing happens: that stop is the
\* normal end.
CHECK_DEADLOCK FALSE
