----------------------------- MODULE RunCommand -----------------------------
(***************************************************************************)
(* The artifacts of one test, as RunCommand in src/runtime/tools/common.py *)
(* leaves them on disk across harness invocations.                         *)
(*                                                                         *)
(* An invocation either runs the test (RunCommand(test, cmd, ...)) or      *)
(* reconstructs it from the ledger (RunCommand.fromArtifacts), and then    *)
(* the caller decides the verdict: checkReturnCode, report_diff, success.  *)
(* The harness process may be killed (Ctrl-C, CI timeout, OOM) at any      *)
(* point of an invocation; the files keep what was written so far.         *)
(*                                                                         *)
(* Data is abstract: a file holds a model value standing for its text,     *)
(* Empty for an empty file, Absent when it does not exist.  The child's    *)
(* output is written when it exits (a partial write is not modelled).      *)
(***************************************************************************)
EXTENDS Naturals

CONSTANTS
  Outputs,        \* texts a test can print on stdout (nonempty)
  ErrOutputs,     \* texts a test can print on stderr (nonempty)
  Codes,          \* exit codes the test process can return
  RegexMatch,     \* the stdout texts the .expectregex pattern matches
  Empty,          \* an empty file
  Absent,         \* no file at that path
  Regex,          \* the contents of an .expectregex file
  Missing,        \* a ledger field absent from an older-format .res
  MaxInvocations  \* how many harness invocations a behaviour has

ASSUME RunCommandAssumption ==
  /\ MaxInvocations \in Nat \ {0}
  /\ Codes \subseteq Nat /\ 0 \in Codes
  /\ RegexMatch \subseteq Outputs \cup {Empty}
  /\ {Empty, Absent, Regex, Missing} \cap (Outputs \cup ErrOutputs) = {}
  /\ Empty # Absent /\ Empty # Regex /\ Empty # Missing
  /\ Absent # Regex /\ Absent # Missing /\ Regex # Missing
  /\ Missing \notin BOOLEAN

Outs == Outputs \cup {Empty}
Errs == ErrOutputs \cup {Empty}

\* The JSON object json.dump writes to <dst>.res (time_taken left out).
Records == [returncode : Codes \cup {1, 127}, expectError : BOOLEAN,
            testReportsOk : BOOLEAN, testHasExpect : BOOLEAN \cup {Missing}]

\* A missing or an empty .res is not a JSON object json.load returns.
ASSUME LedgerAssumption == \A r \in Records : r # Absent /\ r # Empty

VARIABLES
  out, err, res,        \* <dst>.out, <dst>.err, <dst>.res
  exp, expErr,          \* exp_name and exp_name + '_err'
  testok, testfail,     \* the .testok and .testfail marker files
  failureMarker,        \* does exp_name + '_failure' exist
  pc,                   \* where the current invocation is
  mode,                 \* "run" or "load" (fromArtifacts)
  update,               \* ARGS.update_baseline of this invocation
  cmd,                  \* the RunCommand object's fields
  child,                \* what the test process did (history)
  verdict,              \* outcome of the last invocation
  invocations,          \* invocations started so far
  tags,                 \* which invocation wrote out, err and res (history)
  lastRun               \* how the last completed run ended (history)

vars == <<out, err, res, exp, expErr, testok, testfail, failureMarker, pc,
          mode, update, cmd, child, verdict, invocations, tags, lastRun>>

None == [verdict |-> "none"]

Verdicts == {"none", "pass", "fail", "raised", "crashed"}

LastRuns == {None} \cup [verdict : {"pass", "fail"}, update : BOOLEAN,
                         exp : Outs \cup {Absent, Regex},
                         expErr : Errs \cup {Absent}]

Cmds == [returncode : Codes \cup {1, 127}, expectError : BOOLEAN,
         testReportsOk : BOOLEAN, testHasExpect : BOOLEAN]

-----------------------------------------------------------------------------
(* Pure helpers for RunCommand.diff_file and report_diff.                  *)

\* diff_file(actual, expected) returns True: a regex that matches is no
\* difference, otherwise `diff -u` of the two files (the pattern's text is
\* never one of the outputs) and a missing actual file differ.
DiffFails(actual, expected) ==
  IF expected = Regex THEN actual \notin RegexMatch
                      ELSE actual # expected

\* diff_file opens the actual file itself only for a regex expectation;
\* exp_name + '_err' of an .expectregex is a regex too, so a missing
\* stderr file makes that open() raise.
ErrDiffRaises(e, x) == x = Regex /\ e = Absent

-----------------------------------------------------------------------------
Init ==
  /\ \/ /\ out = Absent /\ err = Absent /\ res = Absent
     \/ /\ out \in Outs /\ err \in Errs   \* left by an older harness version
        /\ res \in [returncode : Codes, expectError : BOOLEAN,
                    testReportsOk : BOOLEAN, testHasExpect : {Missing}]
  /\ exp \in Outs \cup {Absent, Regex}
  /\ expErr \in Errs \cup {Absent}
  /\ testok = FALSE /\ testfail = FALSE
  /\ failureMarker \in BOOLEAN
  /\ pc = "idle"
  /\ mode = "run"
  /\ update = FALSE
  /\ cmd = [returncode |-> 1, expectError |-> FALSE,
            testReportsOk |-> FALSE, testHasExpect |-> TRUE]
  /\ child = [rc |-> 0, out |-> Empty, err |-> Empty]
  /\ verdict = "none"
  /\ invocations = 0
  /\ tags = [o |-> 0, e |-> 0, r |-> 0]
  /\ lastRun = None

\* End the invocation with verdict v; a run that reached a verdict is
\* remembered with the baseline it left.
Finish(v, expNow, expErrNow) ==
  /\ pc' = "idle"
  /\ verdict' = v
  /\ lastRun' = IF mode = "run" /\ v \in {"pass", "fail"}
                  THEN [verdict |-> v, update |-> update,
                        exp |-> expNow, expErr |-> expErrNow]
                  ELSE lastRun

-----------------------------------------------------------------------------
(* RunCommand.__init__ with a command: flags, the _failure marker, then    *)
(* the three files opened for writing in the order of the with statement,  *)
(* the process run to completion, and the ledger record dumped.            *)
StartRun ==
  /\ pc = "idle" /\ invocations < MaxInvocations
  /\ \E ee, rok, he, upd \in BOOLEAN :
       /\ cmd' = [returncode |-> 1,
                  expectError |-> ee \/ failureMarker,
                  testReportsOk |-> rok,
                  testHasExpect |-> he /\ ~rok]
       /\ update' = upd
  /\ invocations' = invocations + 1
  /\ pc' = "openOut" /\ mode' = "run" /\ verdict' = "none"
  /\ lastRun' = None
  /\ UNCHANGED <<out, err, res, exp, expErr, testok, testfail,
                 failureMarker, child, tags>>

OpenStdout ==
  /\ pc = "openOut"
  /\ out' = Empty /\ tags' = [tags EXCEPT !.o = invocations]
  /\ pc' = "openErr"
  /\ UNCHANGED <<err, res, exp, expErr, testok, testfail, failureMarker,
                 mode, update, cmd, child, verdict, invocations, lastRun>>

OpenStderr ==
  /\ pc = "openErr"
  /\ err' = Empty /\ tags' = [tags EXCEPT !.e = invocations]
  /\ pc' = "openRes"
  /\ UNCHANGED <<out, res, exp, expErr, testok, testfail, failureMarker,
                 mode, update, cmd, child, verdict, invocations, lastRun>>

OpenRes ==
  /\ pc = "openRes"
  /\ res' = Empty /\ tags' = [tags EXCEPT !.r = invocations]
  /\ pc' = "running"
  /\ UNCHANGED <<out, err, exp, expErr, testok, testfail, failureMarker,
                 mode, update, cmd, child, verdict, invocations, lastRun>>

\* Popen(...) and p.wait(): the test writes its output and exits.
ChildExit ==
  /\ pc = "running"
  /\ \E o \in Outs, e \in Errs, c \in Codes :
       /\ out' = o /\ err' = e
       /\ cmd' = [cmd EXCEPT !.returncode = c]
       /\ child' = [rc |-> c, out |-> o, err |-> e]
  /\ pc' = "dump"
  /\ UNCHANGED <<res, exp, expErr, testok, testfail, failureMarker,
                 mode, update, verdict, invocations, tags, lastRun>>

DumpRecord ==
  /\ pc = "dump"
  /\ res' = [returncode |-> cmd.returncode, expectError |-> cmd.expectError,
             testReportsOk |-> cmd.testReportsOk,
             testHasExpect |-> cmd.testHasExpect]
  /\ pc' = "checkRc"
  /\ UNCHANGED <<out, err, exp, expErr, testok, testfail, failureMarker,
                 mode, update, cmd, child, verdict, invocations, tags, lastRun>>

(* RunCommand.fromArtifacts: the constructor without a command, then the  *)
(* ledger read back.  An empty .res (left by a run killed before          *)
(* json.dump) makes json.load raise.                                       *)
StartLoad ==
  /\ pc = "idle" /\ invocations < MaxInvocations
  /\ \E upd \in BOOLEAN : update' = upd
  /\ cmd' = [returncode |-> 1, expectError |-> failureMarker,
             testReportsOk |-> FALSE, testHasExpect |-> TRUE]
  /\ invocations' = invocations + 1
  /\ pc' = "load" /\ mode' = "load" /\ verdict' = "none"
  /\ UNCHANGED <<out, err, res, exp, expErr, testok, testfail,
                 failureMarker, child, tags, lastRun>>

\* Mutant: the expectError field is not restored from the ledger.
RestoreKeepingExpectError(r) ==
  [returncode |-> r.returncode, expectError |-> cmd.expectError,
   testReportsOk |-> r.testReportsOk,
   testHasExpect |-> IF r.testHasExpect = Missing THEN ~r.testReportsOk
                                                  ELSE r.testHasExpect]

\* Mutant: no default for the testHasExpect field of an older ledger.
RestoreWithoutOldFormat(r) ==
  [returncode |-> r.returncode, expectError |-> r.expectError,
   testReportsOk |-> r.testReportsOk, testHasExpect |-> r.testHasExpect]

\* The fields fromArtifacts copies from the loaded JSON object; a record of
\* the older format has no testHasExpect and gets "not testReportsOk".
Restore(r) ==
  [returncode |-> r.returncode, expectError |-> r.expectError,
   testReportsOk |-> r.testReportsOk,
   testHasExpect |-> IF r.testHasExpect = Missing THEN ~r.testReportsOk
                                                  ELSE r.testHasExpect]

\* A ledger record: its fields are restored.
LoadRecord ==
  /\ pc = "load" /\ res \in Records
  /\ cmd' = Restore(res)
  /\ pc' = "checkRc"
  /\ UNCHANGED <<out, err, res, exp, expErr, testok, testfail, failureMarker,
                 mode, update, child, verdict, invocations, tags, lastRun>>

\* No .res file: returncode 127, "not run".
LoadMissing ==
  /\ pc = "load" /\ res = Absent
  /\ cmd' = [cmd EXCEPT !.returncode = 127]
  /\ pc' = "checkRc"
  /\ UNCHANGED <<out, err, res, exp, expErr, testok, testfail, failureMarker,
                 mode, update, child, verdict, invocations, tags, lastRun>>

\* An empty .res: json.load raises ValueError.
LoadEmpty ==
  /\ pc = "load" /\ res = Empty
  /\ Finish("raised", exp, expErr)
  /\ UNCHANGED <<out, err, res, exp, expErr, testok, testfail, failureMarker,
                 mode, update, cmd, child, invocations, tags>>

LoadLedger == LoadRecord \/ LoadMissing \/ LoadEmpty

-----------------------------------------------------------------------------
(* The caller: checkReturnCode, then report_diff, then success().         *)

\* checkReturnCode: success = (returncode == 0), negated by expectError;
\* on failure error() writes the .testfail marker.
\* Mutant: expectError ignored.
RcOkIgnoringExpectError(c) == c.returncode = 0

RcOk(c) == (c.returncode = 0) # c.expectError

CheckReturnCode ==
  /\ pc = "checkRc"
  /\ \/ /\ RcOk(cmd)
        /\ pc' = "diff" /\ UNCHANGED <<testfail, verdict, lastRun>>
     \/ /\ ~RcOk(cmd)
        /\ testfail' = TRUE
        /\ Finish("fail", exp, expErr)
  /\ UNCHANGED <<out, err, res, exp, expErr, testok, failureMarker, mode,
                 update, cmd, child, invocations, tags>>

\* report_diff, one branch per return, tested in the order of its if/elif
\* chain.  "ok" continues to success(), "diff" is a reported difference,
\* "raise" an IOError out of open().
ReportDiffOutcome(o, e, x, xe, upd, c) ==
  IF c.testReportsOk \/ ~c.testHasExpect THEN "ok"
  ELSE IF o = Absent THEN "diff"
  ELSE IF upd /\ x # Regex THEN IF e = Absent THEN "raise" ELSE "ok"
  ELSE IF x = Absent \/ DiffFails(o, x) THEN "diff"
  ELSE IF xe # Absent THEN IF ErrDiffRaises(e, x) THEN "raise"
                           ELSE IF DiffFails(e, xe) THEN "diff" ELSE "ok"
  ELSE IF e = Absent THEN "raise"
  ELSE IF e # Empty THEN "diff" ELSE "ok"

\* diff_file's error() writes .testfail when it reports a difference.
MarksFailure(o, e, x, xe, upd, c) ==
  /\ ReportDiffOutcome(o, e, x, xe, upd, c) = "diff"
  /\ o # Absent /\ x # Absent
  /\ (DiffFails(o, x) \/ (xe # Absent /\ DiffFails(e, xe)))

ReportDiff ==
  LET outcome == ReportDiffOutcome(out, err, exp, expErr, update, cmd)
      copies  == update /\ exp # Regex /\ out # Absent
                 /\ cmd.testHasExpect /\ ~cmd.testReportsOk
      exp1    == IF copies THEN out ELSE exp
      expErr1 == IF copies /\ err \notin {Absent, Empty} THEN err ELSE expErr
  IN /\ pc = "diff"
     /\ exp' = exp1 /\ expErr' = expErr1
     /\ testfail' = (testfail \/ MarksFailure(out, err, exp, expErr, update, cmd))
     /\ \/ /\ outcome = "ok"
           /\ pc' = "success" /\ UNCHANGED <<verdict, lastRun>>
        \/ /\ outcome = "diff" /\ Finish("fail", exp1, expErr1)
        \/ /\ outcome = "raise" /\ Finish("raised", exp1, expErr1)
     /\ UNCHANGED <<out, err, res, testok, failureMarker, mode, update, cmd,
                    child, invocations, tags>>

Success ==
  /\ pc = "success"
  /\ testok' = TRUE
  /\ Finish("pass", exp, expErr)
  /\ UNCHANGED <<out, err, res, exp, expErr, testfail, failureMarker, mode,
                 update, cmd, child, invocations, tags>>

\* The harness process dies; whatever it wrote stays on disk.
Crash ==
  /\ pc \notin {"idle"}
  /\ pc' = "idle" /\ verdict' = "crashed"
  /\ UNCHANGED <<out, err, res, exp, expErr, testok, testfail, failureMarker,
                 mode, update, cmd, child, invocations, tags, lastRun>>

\* No more invocations: the behaviour stops.
Done ==
  /\ pc = "idle" /\ invocations = MaxInvocations
  /\ UNCHANGED vars

Next ==
  \/ StartRun \/ OpenStdout \/ OpenStderr \/ OpenRes \/ ChildExit
  \/ DumpRecord \/ StartLoad \/ LoadLedger \/ CheckReturnCode
  \/ ReportDiff \/ Success \/ Crash \/ Done

Spec == Init /\ [][Next]_vars

-----------------------------------------------------------------------------
(* Properties.                                                             *)

Contents == Outs \cup Errs \cup {Absent, Regex}

TypeOK ==
  /\ out \in Outs \cup {Absent}
  /\ err \in Errs \cup {Absent}
  /\ res \in Records \cup {Absent, Empty}
  /\ exp \in Outs \cup {Absent, Regex}
  /\ expErr \in Errs \cup {Absent}
  /\ testok \in BOOLEAN /\ testfail \in BOOLEAN /\ failureMarker \in BOOLEAN
  /\ pc \in {"idle", "openOut", "openErr", "openRes", "running", "dump",
             "load", "checkRc", "diff", "success"}
  /\ mode \in {"run", "load"}
  /\ update \in BOOLEAN
  /\ cmd \in Cmds
  /\ child \in [rc : Codes, out : Outs, err : Errs]
  /\ verdict \in Verdicts
  /\ invocations \in 0..MaxInvocations
  /\ tags \in [o : 0..MaxInvocations, e : 0..MaxInvocations,
               r : 0..MaxInvocations]
  /\ lastRun \in LastRuns

\* What the test really did, judged against the baseline: the exit code
\* agrees with expectError and, unless the test reports its own result, has
\* no expectation or the baseline is being rewritten, stdout matches the
\* .exp (or .expectregex) and stderr matches the _err file or is empty.
Oracle ==
  /\ (child.rc = 0) # cmd.expectError
  /\ \/ cmd.testReportsOk \/ ~cmd.testHasExpect
     \/ update /\ exp # Regex
     \/ /\ exp # Absent /\ ~DiffFails(child.out, exp)
        /\ IF expErr = Absent THEN child.err = Empty
                              ELSE ~DiffFails(child.err, expErr)

\* A run of the test is never reported as passing (success() writing
\* .testok) unless what the process did meets the baseline: checkReturnCode
\* and report_diff together let no wrong exit code, stdout or stderr through.
NoFalsePass ==
  (pc = "idle" /\ mode = "run" /\ verdict = "pass") => Oracle

\* The ledger's promise (fromArtifacts): re-inspecting a test from its
\* artifacts, without re-running it, gives the verdict the run itself gave,
\* as long as that run completed, did not rewrite the baseline, and the
\* baseline has not changed since.  Survives the harness being killed in
\* any other invocation.
LoadAgrees ==
  (/\ pc = "idle" /\ mode = "load" /\ ~update
   /\ verdict \in {"pass", "fail"}
   /\ lastRun # None /\ ~lastRun.update
   /\ lastRun.exp = exp /\ lastRun.expErr = expErr)
  => verdict = lastRun.verdict

\* spec.md section 3: a RunRecord on disk and its .out and .err files are
\* always written together, so between invocations (whatever happened to
\* the last one) a .res record describes the run whose output the .out and
\* .err files hold.
LedgerConsistent ==
  (pc = "idle" /\ res \in Records) => (tags.r = tags.o /\ tags.r = tags.e)

\* report_diff with update_baseline rewrites the baseline from the run's
\* output and reports no difference; the baseline it leaves must then accept
\* that same output when the test is compared without update mode.
UpdatedBaselineAccepts ==
  (pc = "idle" /\ verdict = "pass" /\ update /\ exp # Regex)
  => ReportDiffOutcome(out, err, exp, expErr, FALSE, cmd) = "ok"

\* spec.md section 7: a missing expectation file means "expected empty
\* output", so a run with the right exit code and no output at all is not
\* reported as failing for lack of a .exp file.
MissingExpectIsEmpty ==
  (/\ pc = "idle" /\ mode = "run" /\ ~update /\ verdict \in {"pass", "fail"}
   /\ exp = Absent /\ out = Empty /\ err = Empty /\ RcOk(cmd))
  => verdict = "pass"

=============================================================================
