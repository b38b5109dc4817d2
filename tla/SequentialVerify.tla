-------------------------- MODULE SequentialVerify --------------------------
(***************************************************************************)
(* What the verifier of tests/src/frontend/verify.py promises, as spec.md  *)
(* sections 4.4 and 7 state it: the tests are judged one after the other  *)
(* in the order of the file list, the failures are recorded, and the exit  *)
(* status is 1 exactly when some test failed.  No concurrency here: this   *)
(* is the specification the thread-pool driver is shown to implement.     *)
(***************************************************************************)
EXTENDS Naturals, Sequences

CONSTANT NF          \* number of test files selected (a natural number; the
                     \* driver that instantiates this module assumes it)

VARIABLES
  results,   \* <<[file, verdict], ...>>: the tests judged so far, in order
  status,    \* "run" while judging, "done" once the run has reported
  code,      \* the exit status, meaningful once status = "done"
  recorded   \* files whose .out and .diff were written

vars == <<results, status, code, recorded>>

Verdict == {"pass", "fail"}

Init ==
  /\ results = <<>> /\ status = "run" /\ code = 0 /\ recorded = {}

\* The next test in file order is judged.
Judge ==
  /\ status = "run" /\ Len(results) < NF
  /\ \E v \in Verdict :
       results' = Append(results, [file |-> Len(results) + 1, verdict |-> v])
  /\ UNCHANGED <<status, code, recorded>>

\* All tests judged: the failures are recorded and the exit status set.
Report ==
  /\ status = "run" /\ Len(results) = NF
  /\ recorded' = {results[i].file : i \in {j \in 1..NF : results[j].verdict = "fail"}}
  /\ code' = IF recorded' = {} THEN 0 ELSE 1
  /\ status' = "done"
  /\ UNCHANGED results

Next == Judge \/ Report

Spec == Init /\ [][Next]_vars

FairSpec == Spec /\ WF_vars(Next)

=============================================================================
