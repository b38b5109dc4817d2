--------------------------- MODULE MCUnitTestScript ---------------------------
EXTENDS UnitTestScript

\* A child failing with 1 and one killed by SIGKILL (returncode -9).
MCChildCodes == {1, -9}
=============================================================================
