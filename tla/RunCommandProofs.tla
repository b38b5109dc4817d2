-------------------------- MODULE RunCommandProofs --------------------------
(***************************************************************************)
(* Proofs about RunCommand for every value of its constants.               *)
(***************************************************************************)
EXTENDS RunCommand, TLAPS

USE RunCommandAssumption, LedgerAssumption

\* The fields fromArtifacts restores from any record of either ledger
\* format are fields a RunCommand can have.
LEMMA RestoreType ==
  ASSUME NEW r \in Records PROVE Restore(r) \in Cmds
<1>1. /\ r.returncode \in Codes \cup {1, 127} /\ r.expectError \in BOOLEAN
      /\ r.testReportsOk \in BOOLEAN /\ r.testHasExpect \in BOOLEAN \cup {Missing}
  BY DEF Records
<1>2. (IF r.testHasExpect = Missing THEN ~r.testReportsOk
                                    ELSE r.testHasExpect) \in BOOLEAN
  BY <1>1, Zenon
<1>3. QED
  BY <1>1, <1>2, Zenon DEF Restore, Cmds

\* The record json.dump writes from the fields of a RunCommand is a
\* record of the current ledger format.
LEMMA DumpType ==
  ASSUME NEW c \in Cmds
  PROVE  [returncode |-> c.returncode, expectError |-> c.expectError,
          testReportsOk |-> c.testReportsOk,
          testHasExpect |-> c.testHasExpect] \in Records
BY Zenon DEF Cmds, Records

\* Ending an invocation keeps the history of the last run within its type.
LEMMA FinishType ==
  ASSUME TypeOK, NEW v \in Verdicts,
         NEW x \in Outs \cup {Absent, Regex}, NEW xe \in Errs \cup {Absent},
         Finish(v, x, xe)
  PROVE  pc' = "idle" /\ verdict' \in Verdicts /\ lastRun' \in LastRuns
<1>1. CASE mode = "run" /\ v \in {"pass", "fail"}
  <2>1. [verdict |-> v, update |-> update, exp |-> x, expErr |-> xe]
          \in [verdict : {"pass", "fail"}, update : BOOLEAN,
               exp : Outs \cup {Absent, Regex}, expErr : Errs \cup {Absent}]
    BY <1>1, Zenon DEF TypeOK
  <2>2. QED
    BY <1>1, <2>1, Zenon DEF Finish, LastRuns
<1>2. CASE ~(mode = "run" /\ v \in {"pass", "fail"})
  BY <1>2, Zenon DEF Finish, TypeOK
<1>3. QED
  BY <1>1, <1>2

\* Every step of every invocation, including the harness being killed and
\* an older-format ledger being read back, keeps the files and the
\* RunCommand fields within their types.
THEOREM TypeCorrect == Spec => []TypeOK
<1> USE DEF Outs, Errs, Verdicts
<1>1. Init => TypeOK
  <2> SUFFICES ASSUME Init PROVE TypeOK
    OBVIOUS
  <2>1. out \in Outs \cup {Absent} /\ err \in Errs \cup {Absent}
        /\ res \in Records \cup {Absent, Empty}
    BY DEF Init, Records
  <2>2. cmd \in Cmds /\ child \in [rc : Codes, out : Outs, err : Errs]
    BY DEF Init, Cmds
  <2>3. tags \in [o : 0..MaxInvocations, e : 0..MaxInvocations,
                  r : 0..MaxInvocations]
    BY DEF Init
  <2>4. lastRun \in LastRuns
    BY DEF Init, LastRuns
  <2>5. QED
    BY <2>1, <2>2, <2>3, <2>4 DEF Init, TypeOK
<1>2. TypeOK /\ [Next]_vars => TypeOK'
  <2> SUFFICES ASSUME TypeOK, [Next]_vars PROVE TypeOK'
    OBVIOUS
  <2>1. CASE StartRun
    <3>1. cmd' \in Cmds /\ update' \in BOOLEAN
      BY <2>1 DEF StartRun, TypeOK, Cmds
    <3>2. lastRun' \in LastRuns
      BY <2>1 DEF StartRun, LastRuns
    <3>3. QED
      BY <2>1, <3>1, <3>2 DEF StartRun, TypeOK
  <2>2. CASE OpenStdout
    BY <2>2 DEF OpenStdout, TypeOK
  <2>3. CASE OpenStderr
    BY <2>3 DEF OpenStderr, TypeOK
  <2>4. CASE OpenRes
    BY <2>4 DEF OpenRes, TypeOK
  <2>5. CASE ChildExit
    BY <2>5 DEF ChildExit, TypeOK, Cmds
  <2>6. CASE DumpRecord
    BY <2>6, DumpType DEF DumpRecord, TypeOK
  <2>7. CASE StartLoad
    BY <2>7 DEF StartLoad, TypeOK, Cmds
  <2>8. CASE LoadLedger
    <3>1. CASE LoadRecord
      BY <3>1, RestoreType DEF LoadRecord, TypeOK
    <3>2. CASE LoadMissing
      BY <3>2 DEF LoadMissing, TypeOK, Cmds
    <3>3. CASE LoadEmpty
      <4>1. pc' = "idle" /\ verdict' \in Verdicts /\ lastRun' \in LastRuns
        BY <3>3, FinishType DEF LoadEmpty, TypeOK
      <4>2. QED
        BY <3>3, <4>1 DEF LoadEmpty, TypeOK
    <3>4. QED
      BY <2>8, <3>1, <3>2, <3>3 DEF LoadLedger
  <2>9. CASE CheckReturnCode
    <3>1. CASE RcOk(cmd)
      BY <2>9, <3>1 DEF CheckReturnCode, TypeOK
    <3>2. CASE ~RcOk(cmd)
      <4>1. pc' = "idle" /\ verdict' \in Verdicts /\ lastRun' \in LastRuns
        BY <2>9, <3>2, FinishType DEF CheckReturnCode, TypeOK
      <4>2. QED
        BY <2>9, <3>2, <4>1 DEF CheckReturnCode, TypeOK
    <3>3. QED
      BY <3>1, <3>2
  <2>10. CASE ReportDiff
    BY <2>10, FinishType DEF ReportDiff, TypeOK
  <2>11. CASE Success
    BY <2>11, FinishType DEF Success, TypeOK
  <2>12. CASE Crash
    BY <2>12 DEF Crash, TypeOK
  <2>13. CASE Done \/ UNCHANGED vars
    BY <2>13 DEF Done, vars, TypeOK
  <2>14. QED
    BY <2>1, <2>2, <2>3, <2>4, <2>5, <2>6, <2>7, <2>8, <2>9, <2>10,
       <2>11, <2>12, <2>13 DEF Next
<1>3. QED
  BY <1>1, <1>2, PTL DEF Spec

-----------------------------------------------------------------------------
(* No false pass.                                                          *)

\* The output half of Oracle, for the files o, e, the baselines x, xe, the
\* update_baseline flag upd and the RunCommand fields c.
OutputOk(o, e, x, xe, upd, c) ==
  \/ c.testReportsOk \/ ~c.testHasExpect
  \/ upd /\ x # Regex
  \/ /\ x # Absent /\ ~DiffFails(o, x)
     /\ IF xe = Absent THEN e = Empty ELSE ~DiffFails(e, xe)

\* What a run has established at each step after the test process exits:
\* the files and the returncode are those of the process (nothing writes
\* them between Popen.wait and the verdict), checkReturnCode has been
\* passed from "diff" on, and report_diff has returned normally at
\* "success", judged against the baseline it may just have rewritten.
RunInv ==
  /\ pc = "load" => mode = "load"
  /\ mode = "run" /\ pc \in {"dump", "checkRc", "diff", "success"}
     => child.out = out /\ child.err = err /\ child.rc = cmd.returncode
  /\ mode = "run" /\ pc \in {"diff", "success"} => RcOk(cmd)
  /\ mode = "run" /\ pc = "success"
     => OutputOk(child.out, child.err, exp, expErr, update, cmd)

IInv == RunInv /\ NoFalsePass

\* report_diff copies the output over the baseline (update_baseline, a
\* literal baseline, an output file, a test whose output is compared).
Copies(o, x, upd, c) ==
  upd /\ x # Regex /\ o # Absent /\ c.testHasExpect /\ ~c.testReportsOk

\* The baselines report_diff leaves behind.
Exp1(o, x, upd, c) == IF Copies(o, x, upd, c) THEN o ELSE x

ExpErr1(o, e, x, xe, upd, c) ==
  IF Copies(o, x, upd, c) /\ e \notin {Absent, Empty} THEN e ELSE xe

\* report_diff returns normally only when the output agrees with the
\* baseline as report_diff leaves it: untested, rewritten under
\* update_baseline, or matched by diff_file for stdout and stderr.
LEMMA ReportDiffOk ==
  ASSUME NEW o \in Outs \cup {Absent}, NEW e \in Errs \cup {Absent},
         NEW x \in Outs \cup {Absent, Regex}, NEW xe \in Errs \cup {Absent},
         NEW upd \in BOOLEAN, NEW c \in Cmds,
         ReportDiffOutcome(o, e, x, xe, upd, c) = "ok"
  PROVE  OutputOk(o, e, Exp1(o, x, upd, c), ExpErr1(o, e, x, xe, upd, c),
                  upd, c)
<1> USE DEF Outs, Errs
<1>1. CASE c.testReportsOk \/ ~c.testHasExpect
  BY <1>1 DEF OutputOk, Copies, Exp1, ExpErr1
<1>2. CASE ~(c.testReportsOk \/ ~c.testHasExpect) /\ upd /\ x # Regex
  <2>1. o # Absent
    <3> SUFFICES ASSUME o = Absent PROVE FALSE
      OBVIOUS
    <3>1. ReportDiffOutcome(o, e, x, xe, upd, c) = "diff"
      BY <1>2 DEF ReportDiffOutcome
    <3>2. QED
      BY <3>1
  <2>2. o # Regex
    BY <2>1
  <2>3. QED
    BY <1>2, <2>1, <2>2 DEF OutputOk, Copies, Exp1, ExpErr1
<1>3. CASE ~(c.testReportsOk \/ ~c.testHasExpect) /\ ~(upd /\ x # Regex)
  <2>1. o # Absent /\ x # Absent /\ ~DiffFails(o, x)
    <3> SUFFICES ASSUME o = Absent \/ x = Absent \/ DiffFails(o, x)
                 PROVE  FALSE
      OBVIOUS
    <3>1. ReportDiffOutcome(o, e, x, xe, upd, c) = "diff"
      BY <1>3 DEF ReportDiffOutcome
    <3>2. QED
      BY <3>1
  <2>2. CASE xe = Absent
    <3>1. e = Empty
      <4> SUFFICES ASSUME e # Empty PROVE FALSE
        OBVIOUS
      <4>1. ReportDiffOutcome(o, e, x, xe, upd, c) \in {"diff", "raise"}
        BY <1>3, <2>1, <2>2 DEF ReportDiffOutcome
      <4>2. QED
        BY <4>1
    <3>2. QED
      BY <1>3, <2>1, <2>2, <3>1 DEF OutputOk, Copies, Exp1, ExpErr1
  <2>3. CASE xe # Absent
    <3>1. ~DiffFails(e, xe)
      <4> SUFFICES ASSUME DiffFails(e, xe) PROVE FALSE
        OBVIOUS
      <4>1. ReportDiffOutcome(o, e, x, xe, upd, c) \in {"diff", "raise"}
        BY <1>3, <2>1, <2>3 DEF ReportDiffOutcome
      <4>2. QED
        BY <4>1
    <3>2. QED
      BY <1>3, <2>1, <2>3, <3>1 DEF OutputOk, Copies, Exp1, ExpErr1
  <2>4. QED
    BY <2>2, <2>3
<1>4. QED
  BY <1>1, <1>2, <1>3

\* The strengthening holds initially.
LEMMA InitIInv == Init => IInv
BY DEF Init, IInv, RunInv, NoFalsePass

\* Every step keeps the strengthening: the test process's results are
\* carried unchanged from Popen.wait to the verdict, and success() is
\* reached only through a passing checkReturnCode and report_diff.
LEMMA NextIInv == TypeOK /\ IInv /\ [Next]_vars => IInv'
<1> SUFFICES ASSUME TypeOK, IInv, [Next]_vars PROVE IInv'
  OBVIOUS
<1>1. CASE StartRun \/ OpenStdout \/ OpenStderr \/ OpenRes
  BY <1>1 DEF StartRun, OpenStdout, OpenStderr, OpenRes, IInv, RunInv,
             NoFalsePass
<1>2. CASE ChildExit
  <2>1. PICK o \in Outs, e \in Errs, c \in Codes :
          /\ out' = o /\ err' = e
          /\ cmd' = [cmd EXCEPT !.returncode = c]
          /\ child' = [rc |-> c, out |-> o, err |-> e]
    BY <1>2 DEF ChildExit
  <2>2. cmd'.returncode = c
    BY <2>1 DEF TypeOK, Cmds
  <2>3. QED
    BY <1>2, <2>1, <2>2 DEF ChildExit, IInv, RunInv, NoFalsePass
<1>3. CASE DumpRecord
  BY <1>3 DEF DumpRecord, IInv, RunInv, NoFalsePass
<1>4. CASE StartLoad
  BY <1>4 DEF StartLoad, IInv, RunInv, NoFalsePass
<1>5. CASE LoadRecord \/ LoadMissing
  BY <1>5 DEF LoadRecord, LoadMissing, IInv, RunInv, NoFalsePass
<1>6. CASE LoadEmpty
  BY <1>6 DEF LoadEmpty, Finish, IInv, RunInv, NoFalsePass
<1>7. CASE CheckReturnCode
  BY <1>7 DEF CheckReturnCode, Finish, IInv, RunInv, NoFalsePass
<1>8. CASE ReportDiff
  <2> DEFINE outcome == ReportDiffOutcome(out, err, exp, expErr, update, cmd)
  <2>1. /\ pc = "diff"
        /\ exp' = Exp1(out, exp, update, cmd)
        /\ expErr' = ExpErr1(out, err, exp, expErr, update, cmd)
        /\ UNCHANGED <<out, err, mode, update, cmd, child>>
    BY <1>8 DEF ReportDiff, Copies, Exp1, ExpErr1
  <2>2. CASE outcome = "ok" /\ pc' = "success"
    <3>1. OutputOk(out, err, Exp1(out, exp, update, cmd),
                   ExpErr1(out, err, exp, expErr, update, cmd), update, cmd)
      <4>1. ReportDiffOutcome(out, err, exp, expErr, update, cmd) = "ok"
        BY <2>2 DEF outcome
      <4>2. /\ out \in Outs \cup {Absent} /\ err \in Errs \cup {Absent}
            /\ exp \in Outs \cup {Absent, Regex} /\ expErr \in Errs \cup {Absent}
            /\ update \in BOOLEAN /\ cmd \in Cmds
        BY DEF TypeOK
      <4>3. QED
        BY ONLY <4>1, <4>2, ReportDiffOk
    <3>2. OutputOk(out, err, exp', expErr', update, cmd)
      BY <2>1, <3>1
    <3>3. QED
      BY <2>1, <2>2, <3>2 DEF IInv, RunInv, NoFalsePass
  <2>3. CASE outcome \in {"diff", "raise"}
        /\ pc' = "idle" /\ verdict' \in {"fail", "raised"}
    BY <2>1, <2>3 DEF IInv, RunInv, NoFalsePass
  <2>4. QED
    BY <1>8, <2>2, <2>3 DEF ReportDiff, Finish, outcome
<1>9. CASE Success
  BY <1>9 DEF Success, Finish, IInv, RunInv, NoFalsePass, Oracle, OutputOk,
             RcOk
<1>10. CASE Crash
  BY <1>10 DEF Crash, IInv, RunInv, NoFalsePass
<1>11. CASE Done \/ UNCHANGED vars
  BY <1>11 DEF Done, vars, IInv, RunInv, NoFalsePass, Oracle, OutputOk,
              RcOk
<1>12. QED
  BY <1>1, <1>2, <1>3, <1>4, <1>5, <1>6, <1>7, <1>8, <1>9, <1>10, <1>11
  DEF Next, LoadLedger

\* A run (not a reload from the ledger) that ends in success() had a
\* returncode checkReturnCode accepts and an output report_diff accepts:
\* the harness never reports a test as passed that its oracle fails.
THEOREM NoFalsePassHolds == Spec => []NoFalsePass
<1>1. Init => IInv
  BY InitIInv
<1>2. TypeOK /\ IInv /\ [Next]_vars => IInv'
  BY NextIInv
<1>3. QED
  BY <1>1, <1>2, TypeCorrect, PTL DEF Spec, IInv

-----------------------------------------------------------------------------
(* A reload agrees with the run.                                           *)

\* The ledger record json.dump writes for the RunCommand fields c.
Dump(c) ==
  [returncode |-> c.returncode, expectError |-> c.expectError,
   testReportsOk |-> c.testReportsOk, testHasExpect |-> c.testHasExpect]

\* The verdict checkReturnCode, report_diff (without update_baseline) and
\* success() give a RunCommand with the fields c, the files o, e and the
\* baselines x, xe.
Judge(c, o, e, x, xe) ==
  IF ~RcOk(c) THEN "fail"
  ELSE IF ReportDiffOutcome(o, e, x, xe, FALSE, c) = "ok" THEN "pass"
  ELSE IF ReportDiffOutcome(o, e, x, xe, FALSE, c) = "diff" THEN "fail"
  ELSE "raised"

\* The ledger, once a run has completed, records that run: no invocation
\* after it rewrites .out, .err or .res until the next run starts, and
\* each step of a run or a reload without update_baseline follows Judge.
LedgerInv ==
  /\ pc = "load" => mode = "load"
  /\ pc \in {"openOut", "openErr", "openRes", "running", "dump"} => mode = "run"
  /\ mode = "run" /\ pc # "idle" => lastRun = None
  /\ mode = "run" /\ pc \in {"checkRc", "diff", "success"} => res = Dump(cmd)
  /\ pc \in {"diff", "success"} => RcOk(cmd)
  /\ pc = "success" /\ ~update
     => ReportDiffOutcome(out, err, exp, expErr, FALSE, cmd) = "ok"
  /\ lastRun # None =>
       /\ res \in Records /\ res.testHasExpect \in BOOLEAN
       /\ ~lastRun.update
          => lastRun.verdict = Judge(Restore(res), out, err,
                                     lastRun.exp, lastRun.expErr)
       /\ mode = "load" /\ pc \in {"checkRc", "diff", "success"}
          => cmd = Restore(res)

LInv == LedgerInv /\ LoadAgrees

\* fromArtifacts restores from a record json.dump wrote exactly the fields
\* that were dumped.
LEMMA RestoreDump ==
  ASSUME NEW c \in Cmds
  PROVE  /\ Dump(c) \in Records /\ Dump(c).testHasExpect \in BOOLEAN
         /\ Restore(Dump(c)) = c
<1>1. Dump(c) \in Records /\ Dump(c).testHasExpect \in BOOLEAN
  BY DEF Dump, Cmds, Records
<1>2. Restore(Dump(c)) = c
  BY DEF Dump, Restore, Cmds
<1>3. QED
  BY <1>1, <1>2

\* The strengthening holds initially: no run has completed.
LEMMA InitLInv == Init => LInv
BY DEF Init, LInv, LedgerInv, LoadAgrees, None

\* Without update_baseline, report_diff judges the files as Judge does and
\* leaves the baselines alone.
LEMMA NoUpdateDiff ==
  ASSUME TypeOK, ~update
  PROVE  /\ ReportDiffOutcome(out, err, exp, expErr, update, cmd)
            = ReportDiffOutcome(out, err, exp, expErr, FALSE, cmd)
         /\ Exp1(out, exp, update, cmd) = exp
         /\ ExpErr1(out, err, exp, expErr, update, cmd) = expErr
<1>1. update = FALSE
  BY DEF TypeOK
<1>2. QED
  BY <1>1 DEF Exp1, ExpErr1, Copies

\* Every step keeps the strengthening.
LEMMA NextLInv == TypeOK /\ LInv /\ [Next]_vars => LInv'
<1> SUFFICES ASSUME TypeOK, LInv, [Next]_vars PROVE LInv'
  OBVIOUS
<1> USE DEF LInv, LedgerInv, LoadAgrees
<1>1. CASE StartRun \/ OpenStdout \/ OpenStderr \/ OpenRes
  BY <1>1 DEF StartRun, OpenStdout, OpenStderr, OpenRes
<1>2. CASE ChildExit
  BY <1>2 DEF ChildExit
<1>3. CASE DumpRecord
  BY <1>3 DEF DumpRecord, Dump
<1>4. CASE StartLoad
  BY <1>4 DEF StartLoad
<1>5. CASE LoadRecord
  BY <1>5 DEF LoadRecord
<1>6. CASE LoadMissing \/ LoadEmpty
  <2>1. lastRun = None
    BY <1>6 DEF LoadMissing, LoadEmpty
  <2>2. QED
    BY <1>6, <2>1 DEF LoadMissing, LoadEmpty, Finish
<1>7. CASE CheckReturnCode
  <2>1. CASE RcOk(cmd)
    BY <1>7, <2>1 DEF CheckReturnCode
  <2>2. CASE ~RcOk(cmd) /\ mode = "run"
    <3>1. Judge(cmd, out, err, exp, expErr) = "fail"
      BY <2>2 DEF Judge
    <3>2. /\ res = Dump(cmd) /\ res \in Records /\ res.testHasExpect \in BOOLEAN
          /\ Restore(res) = cmd
      BY <1>7, <2>2, RestoreDump DEF CheckReturnCode, TypeOK
    <3>3. /\ lastRun' = [verdict |-> "fail", update |-> update,
                         exp |-> exp, expErr |-> expErr]
          /\ pc' = "idle" /\ mode' = "run"
          /\ UNCHANGED <<out, err, res, exp, expErr, update, cmd>>
      BY <1>7, <2>2 DEF CheckReturnCode, Finish
    <3>4. QED
      BY <3>1, <3>2, <3>3 DEF None
  <2>3. CASE ~RcOk(cmd) /\ mode = "load"
    <3>1. Judge(cmd, out, err, exp, expErr) = "fail"
      BY <2>3 DEF Judge
    <3>2. QED
      BY <1>7, <2>3, <3>1 DEF CheckReturnCode, Finish, TypeOK
  <2>4. QED
    BY <2>1, <2>2, <2>3 DEF TypeOK
<1>8. CASE ReportDiff
  <2> DEFINE outcome == ReportDiffOutcome(out, err, exp, expErr, update, cmd)
             judged  == ReportDiffOutcome(out, err, exp, expErr, FALSE, cmd)
  <2>1. /\ pc = "diff" /\ RcOk(cmd)
        /\ exp' = Exp1(out, exp, update, cmd)
        /\ expErr' = ExpErr1(out, err, exp, expErr, update, cmd)
        /\ UNCHANGED <<out, err, res, mode, update, cmd, child>>
    BY <1>8 DEF ReportDiff, Copies, Exp1, ExpErr1
  <2>2. ~update => /\ outcome = judged
                   /\ exp' = exp /\ expErr' = expErr
    BY <2>1, NoUpdateDiff
  <2>3. CASE outcome = "ok" /\ pc' = "success"
        /\ UNCHANGED <<verdict, lastRun>>
    BY <2>1, <2>2, <2>3
  <2>4. CASE outcome = "diff" /\ Finish("fail", exp', expErr')
    <3>1. ~update => Judge(cmd, out, err, exp, expErr) = "fail"
      BY <2>1, <2>2, <2>4 DEF Judge
    <3>2. CASE mode = "run"
      BY <2>1, <2>2, <2>4, <3>1, <3>2, RestoreDump DEF Finish, TypeOK
    <3>3. CASE mode = "load"
      BY <2>1, <2>2, <2>4, <3>1, <3>3 DEF Finish
    <3>4. QED
      BY <3>2, <3>3 DEF TypeOK
  <2>5. CASE outcome = "raise" /\ Finish("raised", exp', expErr')
    <3>1. mode = "run" => lastRun = None
      BY <2>1
    <3>2. QED
      BY <2>1, <2>2, <2>5, <3>1 DEF Finish
  <2>6. QED
    BY <1>8, <2>1, <2>3, <2>4, <2>5 DEF ReportDiff
<1>9. CASE Success
  <2>1. /\ pc = "success" /\ RcOk(cmd)
        /\ ~update => ReportDiffOutcome(out, err, exp, expErr, FALSE, cmd) = "ok"
    BY <1>9 DEF Success
  <2>2. ~update => Judge(cmd, out, err, exp, expErr) = "pass"
    BY <2>1 DEF Judge
  <2>3. CASE mode = "run"
    BY <1>9, <2>1, <2>2, <2>3, RestoreDump DEF Success, Finish, TypeOK
  <2>4. CASE mode = "load"
    BY <1>9, <2>1, <2>2, <2>4 DEF Success, Finish
  <2>5. QED
    BY <2>3, <2>4 DEF TypeOK
<1>10. CASE Crash
  BY <1>10 DEF Crash
<1>11. CASE Done \/ UNCHANGED vars
  BY <1>11 DEF Done, vars, Judge, RcOk
<1>12. QED
  BY <1>1, <1>2, <1>3, <1>4, <1>5, <1>6, <1>7, <1>8, <1>9, <1>10, <1>11
  DEF Next, LoadLedger

\* When a test is reloaded from its ledger (fromArtifacts) without
\* update_baseline, against the baselines the last run was judged by, the
\* reload reaches the verdict that run reached.
THEOREM ReloadAgrees == Spec => []LoadAgrees
<1>1. Init => LInv
  BY InitLInv
<1>2. TypeOK /\ LInv /\ [Next]_vars => LInv'
  BY NextLInv
<1>3. QED
  BY <1>1, <1>2, TypeCorrect, PTL DEF Spec, LInv
=============================================================================
