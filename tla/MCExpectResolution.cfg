\* Every subset of the four candidate files, and a second invocation after
\* an update-baseline or an ordinary one.
CONSTANTS
  MaxRuns = 2
  Dst = Dst
  Src = Src
  ExpExt = ExpExt
  Regex = Regex

SPECIFICATION Spec

INVARIANT ResolvesAsStated
INVARIANT UpdatedBaselineIsUsed

\* _computeFilenames returns once the loop is over.
CHECK_DEADLOCK FALSE
