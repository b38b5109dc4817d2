\* Two processes with two samples each: both can be inside the exit hook at
\* once, and either can be killed before, inside or after it.
CONSTANTS
  Procs = {p1, p2}
  MaxSamples = 2
  Profile = Profile
  Absent = Absent
  Partial = Partial

SPECIFICATION Spec

INVARIANT ProfileNeverPartial
INVARIANT SerialKeepsSamples

\* Every process ends, done or killed: that is the end of a behaviour.
CHECK_DEADLOCK FALSE
