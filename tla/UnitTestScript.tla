---------------------------- MODULE UnitTestScript ----------------------------
(***************************************************************************)
(* One run of lkg/runtime/tools/unittest.py, with the compile of           *)
(* src/runtime/tools/skip_native_compile.py it calls, from argument        *)
(* parsing to the process exit status.  The script's body runs inside      *)
(* `with common.ExitStack() as stack`; its temporary files are the         *)
(* contexts of TempCleanup, and its profiling samples and atexit hook are  *)
(* one process of PerfLog.  Both are instantiated on variables of this     *)
(* module, so the script drives them step by step and the ExitStack loop   *)
(* and the profile write take their own steps after the body.             *)
(***************************************************************************)
EXTENDS Integers, Sequences

CONSTANTS
  Self,        \* this process, for PerfLog
  Profile, Absent, Partial,
  ChildCodes   \* non-zero return codes of a failing child (signals negative)

\* A child's return code is an exit status 1..255 or, when a signal (at
\* most 64 on Linux) killed it, the negated signal number.
ASSUME UnitTestScriptAssumption ==
  /\ ChildCodes \subseteq (-64..-1) \cup (1..255)
  /\ Profile # Self /\ Absent # Partial

VARIABLES
  step,        \* where the script is
  exitArg,     \* the argument of the pending sys.exit/exit, 1 for a traceback
  profileOn,   \* ARGS.profile is set
  printOnly,   \* ARGS.print_skip_to_llvm
  native,      \* args.backend == "native"
  toolBuilt,   \* what buildNinjaTarget("skip_collect_annotations") did
  testRan,     \* the test binary has run
  testRes,     \* its return code
  objs, gen, disk, keepTemp, withPc, exc, k,            \* TempCleanup
  files, logged, registered, obj, procPc, committed, overlap, bareProfile  \* PerfLog

scriptVars == <<step, exitArg, profileOn, printOnly, native, toolBuilt, testRan, testRes>>
tcVars == <<objs, gen, disk, keepTemp, withPc, exc, k>>
plVars == <<files, logged, registered, obj, procPc, committed, overlap, bareProfile>>
vars == <<scriptVars, tcVars, plVars>>

\* The body enters at most three temporary files: the generated main file,
\* the object file and the binary.
TC == INSTANCE TempCleanup WITH MaxObjs <- 3, pc <- withPc

\* The samples: clang.runtime, binary_size, skip_native_exec.test_runtime.
PL == INSTANCE PerfLog WITH Procs <- {Self}, MaxSamples <- 3, pc <- procPc

\* PerfLog's assumption for this one process: its temporary profile name is
\* not the profile, and a list of its samples is a file's contents.
ASSUME ProfileAssumption == PL!PerfLogAssumption

Init ==
  /\ TC!Init /\ PL!Init
  /\ step = "build" /\ exitArg = 0
  /\ profileOn \in BOOLEAN /\ printOnly \in BOOLEAN /\ native \in BOOLEAN
  /\ toolBuilt = "none" /\ testRan = FALSE /\ testRes = 0

\* A body step that leaves the ExitStack and PerfLog alone.
Goto(s) == step' = s /\ UNCHANGED <<tcVars, plVars>>

\* The body raises SystemExit(n) (exit, sys.exit, callHelper) or an
\* uncaught exception (n = 1): the with statement starts exiting.
Raise(n) ==
  /\ TC!Raise /\ exitArg' = n /\ step' = "unwinding"
  /\ UNCHANGED plVars

\* logPerfData(...): a sample, only with --profile.
Log == IF profileOn THEN PL!LogPerfData(Self)
                    ELSE UNCHANGED plVars

-----------------------------------------------------------------------------
(* The body: unittest.main and skip_native_compile.compile.                *)

\* buildNinjaTarget: ninja's output is piped through egrep and only egrep
\* is waited for; ninja's own status is never looked at.
BuildNinjaTarget ==
  /\ step = "build"
  /\ toolBuilt' \in {"ok", "failed"}
  /\ Goto("mainfile")
  /\ UNCHANGED <<exitArg, profileOn, printOnly, native, testRan, testRes>>

\* stack.enter_context(common.tmpfile(suffix=".sk")).
EnterMainFile ==
  /\ step = "mainfile" /\ TC!EnterContext /\ step' = "collect"
  /\ UNCHANGED <<plVars, exitArg, profileOn, printOnly, native, toolBuilt, testRan, testRes>>

\* skip_collect_annotations writes the main file; a non-zero return code
\* prints a message and exit(1).  Whatever binary is on disk runs.
CollectAnnotations ==
  /\ step = "collect"
  /\ \/ Goto("backend") /\ UNCHANGED exitArg
     \/ Raise(1)
  /\ UNCHANGED <<profileOn, printOnly, native, toolBuilt, testRan, testRes>>

\* Only the native backend is known; any other is exit(2).
Backend ==
  /\ step = "backend"
  /\ IF native THEN Goto("pkgconfig") /\ UNCHANGED exitArg ELSE Raise(2)
  /\ UNCHANGED <<profileOn, printOnly, native, toolBuilt, testRan, testRes>>

\* The two pkg-config check_output calls; a CalledProcessError is not
\* caught and ends the script with a traceback.
PkgConfig ==
  /\ step = "pkgconfig"
  /\ \/ Goto("objfile") /\ UNCHANGED exitArg
     \/ Raise(1)
  /\ UNCHANGED <<profileOn, printOnly, native, toolBuilt, testRan, testRes>>

\* stack.enter_context(common.tmpfile('tmp.gen_object.', '.o')).
EnterObjFile ==
  /\ step = "objfile" /\ TC!EnterContext /\ step' = "skipToNative"
  /\ UNCHANGED <<plVars, exitArg, profileOn, printOnly, native, toolBuilt, testRan, testRes>>

\* common.callHelper(skip_to_native ...): a failing child is
\* sys.exit(e.returncode); then --print-skip-to-llvm stops with exit(0).
SkipToNative ==
  /\ step = "skipToNative"
  /\ \/ \E rc \in ChildCodes : Raise(rc)
     \/ printOnly /\ Raise(0)
     \/ ~printOnly /\ Goto("binfile") /\ UNCHANGED exitArg
  /\ UNCHANGED <<profileOn, printOnly, native, toolBuilt, testRan, testRes>>

\* stack.enter_context(common.tmpfile('tmp.gen_binary.', '')).
EnterBinFile ==
  /\ step = "binfile" /\ TC!EnterContext /\ step' = "clang"
  /\ UNCHANGED <<plVars, exitArg, profileOn, printOnly, native, toolBuilt, testRan, testRes>>

\* `with common.PerfTimer('clang.runtime'): common.callHelper(cmd)`: the
\* timer's __exit__ logs its sample also when callHelper raises SystemExit.
Clang ==
  /\ step = "clang" /\ Log
  /\ \/ \E rc \in ChildCodes :
          /\ TC!Raise /\ exitArg' = rc /\ step' = "unwinding"
     \/ /\ step' = "size" /\ UNCHANGED <<tcVars, exitArg>>
  /\ UNCHANGED <<profileOn, printOnly, native, toolBuilt, testRan, testRes>>

\* logPerfData('binary_size', ...) and compile returns the binary.
BinarySize ==
  /\ step = "size" /\ Log
  /\ step' = "runtest"
  /\ UNCHANGED <<tcVars, exitArg, profileOn, printOnly, native, toolBuilt, testRan, testRes>>

\* Mutant: the test's return code is not looked at.
ResultIgnoringRes(res) == FALSE

\* `if res != 0: sys.exit(res)`.
TestFailed(res) == res # 0

\* The test binary runs under ulimit -t inside a PerfTimer, which logs its
\* sample; a failing test is sys.exit(res), otherwise main returns None and
\* the with statement exits normally.
RunTest ==
  /\ step = "runtest" /\ Log
  /\ \E res \in {0} \cup {c \in ChildCodes : c > 0} :
       /\ testRan' = TRUE /\ testRes' = res
       /\ IF TestFailed(res)
            THEN TC!Raise /\ exitArg' = res
            ELSE TC!Finish /\ exitArg' = 0
  /\ step' = "unwinding"
  /\ UNCHANGED <<profileOn, printOnly, native, toolBuilt>>

-----------------------------------------------------------------------------
(* Leaving the with statement and the process.                             *)

\* ExitStack.__exit__ runs its loop.
Unwind ==
  /\ step = "unwinding"
  /\ TC!ExitResume \/ TC!ExitThrow \/ TC!ExitDone
  /\ UNCHANGED <<scriptVars, plVars>>

\* Mutant: the atexit hooks run only when the script ends cleanly.
AtExitOnlyWhenClean == exc = "none" /\ exitArg = 0

\* The interpreter runs the atexit hooks on sys.exit and after an
\* uncaught exception alike.
AtExitRuns == TRUE

\* sys.exit(rc) after the with statement, or the exception leaving it: the
\* interpreter starts shutting down and calls the atexit hooks.
SysExit ==
  /\ step = "unwinding" /\ withPc = "done"
  /\ IF AtExitRuns
       THEN PL!Exit(Self) /\ step' = "atexit"
       ELSE step' = "exited" /\ UNCHANGED plVars
  /\ UNCHANGED <<tcVars, exitArg, profileOn, printOnly, native, toolBuilt, testRan, testRes>>

\* _writeToPerfLog takes its steps.
AtExit ==
  /\ step = "atexit"
  /\ \/ PL!EnsureProfileDir(Self) \/ PL!ReadProfile(Self) \/ PL!OpenTmp(Self)
     \/ PL!Dump(Self) \/ PL!Rename(Self)
  /\ UNCHANGED <<scriptVars, tcVars>>

\* The hooks are done, or _writeToPerfLog raised; the process ends.
ProcessEnd ==
  /\ step = "atexit" /\ procPc[Self] \in {"done", "failed"}
  /\ step' = "exited"
  /\ UNCHANGED <<tcVars, plVars, exitArg, profileOn, printOnly, native, toolBuilt, testRan, testRes>>

\* The script is killed (a CI timeout, ^C with SIGKILL): nothing more runs.
Kill ==
  /\ step \notin {"exited", "killed"}
  /\ PL!Kill(Self) /\ step' = "killed"
  /\ UNCHANGED <<tcVars, exitArg, profileOn, printOnly, native, toolBuilt, testRan, testRes>>

Next ==
  \/ BuildNinjaTarget \/ EnterMainFile \/ CollectAnnotations \/ Backend
  \/ PkgConfig \/ EnterObjFile \/ SkipToNative \/ EnterBinFile \/ Clang
  \/ BinarySize \/ RunTest \/ Unwind \/ SysExit \/ AtExit \/ ProcessEnd \/ Kill

Spec == Init /\ [][Next]_vars

-----------------------------------------------------------------------------
(* Properties.                                                             *)

\* The exit status the shell sees: sys.exit(n) is n modulo 256, and an
\* OSError escaping the ExitStack is a traceback, status 1.
ExitStatus == IF exc = "oserror" THEN 1 ELSE exitArg % 256

\* A unittest run that exits with status 0 ran the test binary and the
\* binary returned 0, unless only the skip_to_llvm command was asked for:
\* no failing step of compile, no failing test and no failed cleanup can
\* end in a success status.
ZeroStatusMeansPassed ==
  (step = "exited" /\ ExitStatus = 0 /\ ~printOnly) => testRan /\ testRes = 0

\* With a --profile path that has a directory part, a script that ran its
\* test binary leaves that run's samples, clang.runtime, binary_size and
\* the test runtime, in the profile, whether the test passed or failed and
\* whatever the cleanup did.  (With a bare file name ensureDirPathExists('')
\* raises in the exit hook and no sample is written: ProfileWritten.)
TestRunProfiled ==
  (step = "exited" /\ profileOn /\ testRan /\ ~bareProfile)
    => files[Profile] \notin {Absent, Partial} /\ logged[Self] \subseteq files[Profile]
       /\ logged[Self] = {Self} \X (1..3)

\* The ExitStack's own guarantee, in this script.
CleanExitRemovesAll == TC!CleanExitRemovesAll

\* The comment on tmpfile: the file is deleted when the context exits, also
\* when the script leaves its with block by exit() or sys.exit().
NoLeakOnExit == TC!NoLeakOnExit

\* A script that exits with status 0 ran an annotation collector that was
\* built in this run: buildNinjaTarget "builds" the target first.
ZeroStatusMeansBuilt ==
  (step = "exited" /\ ExitStatus = 0 /\ ~printOnly) => toolBuilt = "ok"

\* logPerfData with --profile: the samples of a run that ran its test reach
\* the profile, whatever path --profile names.
ProfileWritten ==
  (step = "exited" /\ profileOn /\ testRan)
    => files[Profile] \notin {Absent, Partial} /\ logged[Self] \subseteq files[Profile]

=============================================================================
