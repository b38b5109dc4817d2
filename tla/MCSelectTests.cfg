\* Trees of up to four entries, two levels below the root: a marker and the
\* test it should exclude, a pruned directory holding a test, a broken link
\* and an entry deleted during the walk all fit, in every combination.
CONSTANTS
  Raise = Raise
  Names <- MCNames
  Roots <- MCRoots
  Pruned <- MCPruned
  DisabledExt = ".no_typecheck"
  SkExt = ".sk"
  MaxEntries = 4
  MaxDepth = 3

SPECIFICATION Spec

INVARIANT WalkMatchesSelection

\* Trees stop growing at MaxEntries: that is the end of the enumeration.
CHECK_DEADLOCK FALSE
