---------------------------- MODULE MCRunCommand ----------------------------
(* TLC instance of RunCommand: two stdout texts, one stderr text, exit     *)
(* codes 0 and 1, a regex that matches only the first stdout text, and     *)
(* three invocations (enough for run, rerun or update, then reload).       *)
EXTENDS RunCommand

CONSTANTS o1, o2, e1

MCOutputs == {o1, o2}
MCErrOutputs == {e1}
MCCodes == {0, 1}
MCRegexMatch == {o1}
=============================================================================
