\* Two failing return codes, one of them a signal (-9), so that sys.exit's
\* modulo 256 is exercised; every argument combination is an initial state.
CONSTANTS
  Self = Self
  Profile = Profile
  Absent = Absent
  Partial = Partial
  ChildCodes <- MCChildCodes

SPECIFICATION Spec

INVARIANT ZeroStatusMeansPassed
INVARIANT TestRunProfiled
INVARIANT CleanExitRemovesAll

\* The process exits or is killed: that is the end of a behaviour.
CHECK_DEADLOCK FALSE
