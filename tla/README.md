# Formal models of the skip test harness

This directory holds TLA+ models of the test-execution and baseline-verification
harness in `src/runtime/tools/common.py`, the parallel verifier
`tests/src/frontend/verify.py`, the unit-test script
`lkg/runtime/tools/unittest.py` with `src/runtime/tools/skip_native_compile.py`,
and the profiler helpers in `tools/profiler/common.py`. It also holds TLC configurations that
model-check them on small instances, and TLAPS proofs of the main safety
properties for every value of the constants.

## The system

The harness runs one test as a child process and stores what it did. A later
invocation can re-judge the test from those files alone. The parts are these:

| Part | Code | What it does |
|------|------|--------------|
| Command Runner | `RunCommand.__init__` (common.py 406-461) | Reads the flags and the `_failure` marker. Truncates `<dst>.out`, `<dst>.err` and `<dst>.res` in that order, then runs the child. If the test reports its own result, starts a tee. Waits for the child, joins the tee and dumps the JSON record. |
| Streaming tee | `StreamTee` (376-396) | A daemon thread. It copies the child's stdout pipe to the harness's stdout and then to `.out`, chunk by chunk. |
| Result Ledger | `RunCommand.fromArtifacts` (496-515) | Rebuilds a `RunCommand` from `.res` without running anything. A missing file gives 127, and an old record gets a default `testHasExpect`. |
| Verdict | `checkReturnCode`, `error`, `success` (463-479, 566-577) | Success is `(returncode == 0) != expectError`. Writes the `.testfail` or `.testok` marker. |
| Baseline Comparator | `report_diff`, `diff_file` (607-663) | Compares `.out` with the `.exp` or `.expectregex` file, and `.err` with the `_err` sidecar or with empty. In update-baseline mode it copies the output over the baseline instead. |
| Expectation resolution | `_computeFilenames` (522-539) | Picks the `.exp` or `.expectregex` next to the build artifact or next to the source. |
| Parallel driver | verify.py 25-67 | A `ThreadPoolExecutor` of at most `max_workers` threads. Results are collected in submission order. |
| Selection filter | verify.py 97-135 | Walks a directory. It prunes `disabled`, `failing` and `todo` and skips per-test opt-out markers. |
| Profiling log | common.py 334-373 | Samples are kept in memory and merged into the profile file at exit (create its directory, read, extend, write a temp file, rename). |
| Temporary files | `tmpfile`, `tmpdir`, `ExitStack` (675-726) | Temporary files are deleted when the enclosing `ExitStack` exits. |
| Unit-test script | `unittest.py` `main`, `skip_native_compile.compile`, `buildNinjaTarget`, `callHelper` | Builds the main file, compiles the test natively, runs it under `ulimit -t` and exits with its status. The `ExitStack` cleanup runs first, then `sys.exit`, then the atexit profile write. |
| Profiler helpers | `tools/profiler/common.py` | `validate_sk_unit` with `callHelper`, `tmpfile` in the shared `tools/profiler/tmp`, a `Spinner` thread, and an `ExitStack`. |

How the parts interact:
- A run invocation goes Command Runner, then Result Ledger (write), then Verdict, then Baseline Comparator.
- A reload invocation goes Result Ledger (read), then Verdict, then Baseline Comparator.
- Invocations share nothing except files on disk. So a harness killed part-way through, or an older harness, leaves files that the next invocation reads.
- Inside a run, the child, the tee thread and the harness thread run concurrently. They are coupled by a bounded pipe.

## Modules

### `RunCommand.tla`: one test's artifacts across invocations

State:
- `out`, `err`, `res`, `exp`, `expErr`: the files. A file holds a model value standing for its text. `Empty` stands for an empty file and `Absent` for no file.
- `testok`, `testfail`: the marker files.
- `failureMarker`: whether the `_failure` marker exists.
- `cmd`: the fields of the `RunCommand` object.
- `pc`, `mode`, `update`: where the current invocation is, whether it runs or reloads, and `ARGS.update_baseline`.
- History variables: `child` (what the process really did), `tags` (which invocation last wrote each artifact) and `lastRun`.

Actions:
- `StartRun`, `OpenStdout`, `OpenStderr`, `OpenRes`, `ChildExit` and `DumpRecord` follow the constructor's statements in order.
- `StartLoad`, then `LoadRecord`, `LoadMissing` or `LoadEmpty`, model `fromArtifacts`. The last is `json.load` raising on an empty file.
- `CheckReturnCode`, `ReportDiff` and `Success` model the verdict. `ReportDiffOutcome` has one branch per return of `report_diff`. It is an `IF`/`ELSE IF` chain in the order of the code's `if`/`elif` tests. A TLA+ `CASE` with overlapping guards would let either arm be taken, which is not what the code does.
- `Crash` kills the harness at any non-idle point.

Data is abstracted to what the properties tell apart:
- Two stdout texts, one stderr text, and exit codes {0, 1}.
- A regex that matches one of the two texts.

`Init` allows files left by an older harness whose records lack `testHasExpect`.

Abstractions, none of which a property depends on:
- `diff_file` matches the `_err` sidecar of an `.expectregex` as a regex (its extension is `.expectregex_err`). `DiffFails` compares it literally, which is stricter than the code.
- `success()` formats `time_taken`, which is `None` after a reload of a missing `.res`; the `TypeError` this raises is not modelled.
- Under Python 3, `write_file`'s `data.encode().split('\n')` raises after `error()` has already run; the model records the failure.
- `Codes` are non-negative. A negative Popen return code (a signal) behaves like any non-zero code at line 466.

Assumptions on the constants:
- `RunCommandAssumption`: the model values are distinct, and none of them is a text or a Boolean.
- `LedgerAssumption`: no ledger record is `Absent` or `Empty`. A missing or empty `.res` is never a JSON object.

### `StreamTee.tla`: the tee thread, the child and the pipe

State:
- `written`: chunks the child has produced.
- `pipe`: a sequence bounded by `PipeCap`.
- `tee`: the tee's program counter (`read`, `w1`, `w2`, `done`) and `held`, the chunk in hand.
- `console`, `file`: the two sinks.
- `consoleOk`: whether writing to the harness's stdout succeeds.
- `harness`: the harness thread's program counter (`wait`, `join`, `dump`, `done`).

Each write is an action; a failing console write ends the loop, as `except Exception: break` does. Under Python 3, `sys.stdout.write(bytes)` raises `TypeError`. `skip_native_compile.py` runs under python3 and imports `common`, so `consoleOk = FALSE` is the normal case there, not an exotic one.

A console write that fails is not retried, and the chunk in hand is never written to the capture file. No abstract "lossless copy" specification is stated, because the code does not implement one. The loss is `CaptureComplete`, listed under Findings.

### `VerifyDriver.tla` and `SequentialVerify.tla`: the parallel verifier

`SequentialVerify` states what `verify.py` promises, abstractly. Files are judged one at a time, in order, each to `pass` or `fail`. The failures are then recorded, and the exit code is 1 if there are any and 0 otherwise.

`VerifyDriver` models `run_test_program` and the main block:
- `Submit`: `executor.submit`. It hands the job to an idle worker (the idle semaphore) or starts a new thread while fewer than `max_workers` exist.
- `Pick(w)` and `Complete(w)`: a worker takes the next job and finishes it. The outcome is `pass`, `fail` or `raise` (an exception inside `run` or `check_result`).
- `Collect`: `f.result()` on the next future in submission order. A `raise` propagates to the main thread.
- `Report`: the failure list and `sys.exit(1)`, or the pass messages.
- `ProcessExit`: interpreter exit, which joins the non-daemon workers. After an exception the process ends as `aborted`.

`Complete(w)` assumes weak fairness, which also assumes that every test program exits: `check_output` has no timeout.

The refinement mapping takes `collected` to `results`. It shows the abstract `status` as `done` once the report is made.

### `SelectTests.tla`: `list_test_files`

- A directory tree is a function from paths (sequences of name tokens) to `file`, `dir`, `link` (a broken link) or `vanished` (deleted between `listdir` and `isfile`).
- `Walk` is the recursive function itself. It is checked against `Selection`, a declarative reference: the `.sk` files below the root that are not under a pruned or marked directory, with `Raise` when a vanished entry is visited.
- `AddEntry` grows the tree, so that every tree of up to four entries is checked.

### `PerfLog.tla`: the profiling log of several processes

Each process works through these steps:
1. `LogPerfData`: log samples.
2. `Exit`: exit; the atexit hook runs only if a sample was logged.
3. `EnsureProfileDir`: `ensureDirPathExists(os.path.dirname(ARGS.profile))`. An existing directory raises `EEXIST`, which is ignored. With a `--profile` that is a bare file name, the directory part is `''`: `os.makedirs('')` raises `ENOENT`, which is re-raised, and the hook ends (`failed`) before it reads or writes anything. `bareProfile` is that choice of argument, made in `Init`.
4. `ReadProfile`: read the profile. A missing or unparsable file gives `[]`.
5. `OpenTmp`: open `<profile>.<pid>`, which truncates it.
6. `Dump`: dump into it.
7. `Rename`: rename it over the profile.

`Kill` can stop a process before or at any of these steps. A history variable records whether two exit hooks ever overlapped.

### `TempCleanup.tla`: `ExitStack`, `tmpfile`, `tmpdir`

- The body enters up to three contexts, then returns (`Finish`) or raises (`Raise`).
- `ExitStack.__exit__` visits the contexts in entry order:
  - `ExitResume` (normal exit): removes the file unless `keep_temp`. The removal may fail, which ends the loop.
  - `ExitThrow` (exception in flight): the `@contextmanager` generator gets the exception at its `yield`, so the removal is skipped.

### `UnitTestScript.tla`: one `unittest.py` run, composed

- The script's steps, in code order, are actions:
  - `BuildNinjaTarget`, `EnterMainFile`, `CollectAnnotations`, `Backend`;
  - then, for `skip_native_compile.compile`: `PkgConfig`, `EnterObjFile`, `SkipToNative`, `EnterBinFile`, `Clang`, `BinarySize`;
  - then `RunTest`.
- A failing child ends the script through `callHelper`'s `sys.exit(rc)`. This is `Raise(rc)`, where `rc` is drawn from `ChildCodes` and may be negative (a signal).
- The `ExitStack` is `TempCleanup`, instantiated with its program counter renamed (`TC`). Its exit steps are the script's `Unwind`.
- The profiling log is `PerfLog` for the one process `Self` (`PL`):
  - each `PerfTimer` with `--profile` logs a sample (`Log`);
  - after `SysExit`, the atexit hook runs `PL`'s ensure-directory, read, open, dump and rename steps;
  - `Kill` can stop the process anywhere.
- `ExitStatus` is what the shell sees: the exit argument modulo 256, or 1 for an uncaught `OSError` from the cleanup.

### `ProfilerTools.tla`: the profiler helpers in several processes

- Each process runs `CallHelper` (ninja `skip_depends`, exiting on failure), then `SkipDepends` (the rest of `validate_sk_unit`: return, exit with a message, ask, exit(0)).
- Then `tmpfile` runs in three steps: `CheckDir` and `Mkdir`, then `OpenTmp` (the shared name, or a private `NamedTemporaryFile`). `Mkdir` either creates the directory or finds it made by another process (`EEXIST`, absorbed). While the directory is still missing it may instead fail with another error (a permission error, say), which is re-raised and ends the process (`mkdirFailed`).
- Then the process does its work, with `Start` and `Stop` of its `Spinner` at most `MaxStarts` times.
- Then `LeaveWith` and `ExitTmp`, which is the `ExitStack` exit and the unlink after `yield`.
- Last comes `ProcessExit`, which waits for the non-daemon spinner threads.
- Each spinner thread is its own process:
  - `SpinLoop` re-reads `busy`;
  - then come `SpinWrite`, `SpinSleep` and `SpinErase`.
- `Stop` clears `busy`. `StopReturns` is the end of its `time.sleep(delay)`. Nothing joins the thread.
- The profiler scripts that called these helpers are not in the repository. The order of use modelled is the evident one. A caller that closes a private `NamedTemporaryFile` (which deletes it) before the `unlink` after `yield` is not modelled.
- `SpinErase` models the `'\b'` written as erasing the cursor. On a terminal it only moves the cursor back, and the next character overwrites it.

### `ExpectResolution.tla`: choosing `exp_name`

- The nested loop of `_computeFilenames` runs step by step (`Probe`, `NextExt`, `Finish`) over every set of the four candidate files. Its `break` leaves only the inner loop.
- `ReportDiffAndRerun` models the update-baseline copy onto `exp_name` and the next invocation's construction.
- `onDisk` is the set of candidate files that exist, which is what `os.path.exists` tests.

## Runs

| Run | Config | Checks | Result |
|-----|--------|--------|--------|
| runcommand | `MCRunCommand.cfg` | `TypeOK`, `NoFalsePass`, `LoadAgrees` | pass: 2,050,295 distinct states |
| ledger_consistent | `MCRunCommand_LedgerConsistent.cfg` | `LedgerConsistent` | violation (finding 1) |
| streamtee | `MCStreamTee.cfg` | `TypeOK`, `CapturedWhenJoined`, `TeeTerminates` | pass: 125 states |
| eventually_reports | `MCStreamTee_EventuallyReports.cfg` | `EventuallyReports` | violation (finding 2) |
| verifydriver | `MCVerifyDriver.cfg` | `TypeOK`, `ImplementsSequential` | pass: 4,441 states |
| every_test_reported | `MCVerifyDriver_EveryTestReported.cfg` | `EveryTestReported` | violation (finding 3) |
| selecttests | `MCSelectTests.cfg` | `WalkMatchesSelection` | pass: 12,024 states |
| spec_selection | `MCSelectTests_MatchesSpecSelection.cfg` | `MatchesSpecSelection` | violation (finding 4) |
| perflog | `MCPerfLog.cfg` | `ProfileNeverPartial`, `SerialKeepsSamples` | pass: 994 states |
| unittestscript | `MCUnitTestScript.cfg` | `ZeroStatusMeansPassed`, `TestRunProfiled`, `CleanExitRemovesAll` | pass: 14,720 states |
| profilertools | `MCProfilerTools.cfg` | `AllEnd` | pass: 411,564 states |
| expectresolution | `MCExpectResolution.cfg` | `ResolvesAsStated`, `UpdatedBaselineIsUsed` | pass |

What the passing properties say:
- `NoFalsePass`: a run reported as passing really met its baseline. The exit code agrees with `expectError`, stdout matches the `.exp` or the regex, and stderr matches the `_err` file or is empty. The baseline may also be being rewritten, or the test may not be diffed at all.
- `LoadAgrees`: reloading a test from its ledger gives the verdict the recorded run gave, provided that run completed and the baseline has not changed since. This holds when kills come between the run and the reload. A kill during the run leaves no completed run to compare with; that case is `LedgerConsistent` (finding 1). The old-format default for `testHasExpect` is kept within its type by `TypeOK`.
- `CapturedWhenJoined`: once the tee is joined, `.out` holds every chunk in order, unless the console failed.
- `TeeTerminates`: the harness always finishes if the console never fails.
- `ImplementsSequential`: the pool's results, report and exit code are those of the sequential driver.
- `WalkMatchesSelection`: the recursive walk equals the declarative selection, raising exactly when it meets a vanished entry.
- `ProfileNeverPartial`: no reader ever finds a half-written profile, whoever was killed and where.
- `SerialKeepsSamples`: while exit hooks never overlap, every committed sample survives kills of other processes.
- `CleanExitRemovesAll`: a clean exit of the `unittest.py` script exits every context once and leaves no temporary file.
- `ZeroStatusMeansPassed`: `unittest.py` exits with status 0 only if the test binary ran and returned 0. This holds for failing children with negative codes, failing removals in the cleanup, and `--keep-temp`. `--print-skip-to-llvm` is the exception.
- `TestRunProfiled`: with a `--profile` path that has a directory part, once a test has run and the process has exited, the profile holds all three of the script's samples. This holds also when the test failed and the script left through `sys.exit(res)`. With a bare file name the hook's `os.makedirs('')` raises and nothing is written (see `ProfileWritten` below).
- `AllEnd`: every profiler process ends (liveness), by exiting, by crashing in `tmpfile` or by a failed `makedirs`. Each end needs every spinner thread it started to have re-read `busy` as `False` and left its loop, which needs `stop()` to have been called after the last `start()`.
- `ResolvesAsStated`: the loop's result is a closed form in which any `.expectregex` wins.
- `UpdatedBaselineIsUsed`: the file update-baseline writes is the one the next run compares against.

Every property of a passing run has a mutant in `PROJECT.json`: a plausible bug in a mapped definition, which TLC then finds violating the property.

Bounds:
- Three invocations are enough for a run, a killed run and a reload to follow each other in any order.
- Four chunks through a two-chunk pipe let the child block on a full pipe, exit while chunks are buffered, and let the console fail before, during and after the copy.
- Four tests on two threads let a thread be reused, a later test finish first, and an exception arrive while other tests still run.
- Trees of four entries with depth three contain a marked directory holding tests, a marker beside a test, and a vanished entry below a kept directory.
- Two processes with two samples each are enough for an overlap of exit hooks. The script's three temporary contexts and three samples are the code's own numbers.
- The child codes `{1, -9}` cover a plain failure and a signal.
- For the profiler, two processes make the directory race and the shared name happen. Two starts each let a restart meet a thread that is still spinning.

Fairness:
- StreamTee: weak fairness on the child's writes and exit, the tee's steps and the harness's steps. These are OS threads and processes that the scheduler keeps running. There is none on `ConsoleCloses`, which is the environment's doing.
- VerifyDriver (only `every_test_reported` uses it): weak fairness on every action. The main thread and the pool threads are runnable OS threads. Fairness on `Complete` also assumes that every test program exits, since `check_output` has no timeout.
- ProfilerTools: weak fairness on each process's main thread and on each spinner thread. Both are OS threads, and `time.sleep` always returns.
- Deadlock checking is off where the end of a behaviour is a real end. That covers the process exit of the verifier, the end of a walk, of a script or of the profile writers, and the hang of `MCStreamTee`, which is finding 2.

## Findings

1. **Ledger not written with its outputs** (common.py 432-461). The three files are truncated first and the record is written only after the child exits. A kill in between leaves an empty `.res`, on which `fromArtifacts` raises `ValueError`, or an old record beside new output. This contradicts spec section 3.
2. **The tee dies and the harness hangs** (common.py 385-396, 448). A failing console write (always, under Python 3) breaks the tee's loop. The chunk in hand never reaches `.out`, and a test printing more than the pipe holds blocks, so `p.wait()` never returns.
3. **A worker's exception aborts the batch** (verify.py 57). `f.result()` re-raises, for example a `UnicodeDecodeError`, in the main thread, and no report is printed. Spec section 7 says per-test errors never pass the worker boundary.
4. **Disabled markers name the wrong file** (verify.py 117-121). `a.no_typecheck` disables an entry named `a`, not the test `a.sk`. That needs `a.sk.no_typecheck`, contrary to spec sections 4.5 and 8.
5. **Temporary files leak on `exit()`** (common.py 704-708, 722-726). The removal after `yield` is not in a `finally`. `exit(0)` after `--print-skip-to-llvm`, `exit(1)` or `exit(2)` in `unittest.py`, or a failing `callHelper` leaves every temporary file behind. `NoLeakOnExit` (UnitTestScript) states it. TLC finds it violated after a failed annotation collection. There is no run slot for it, so it is checked by the method below.

Further disagreements are stated as properties in the modules. TLC finds each one violated by replacing the `INVARIANT` line of the module's passing config with it:
- `UpdatedBaselineAccepts` (RunCommand): update-baseline copies stderr only when it is non-empty and leaves an old `_err` file, so the next run fails.
- `MissingExpectIsEmpty` (RunCommand): a missing `.exp` is reported as a failure, while spec section 7 says it means empty output.
- `CaptureComplete` (StreamTee): the lost chunk of finding 2.
- `NoLostSamples` (PerfLog): two processes whose exit hooks overlap lose one's samples. Spec section 6 calls the profile append-only.
- `ZeroStatusMeansBuilt` (UnitTestScript): `buildNinjaTarget` waits only for `egrep` and never checks ninja's status. A failed rebuild goes unnoticed, and a stale `skip_collect_annotations` runs while the script still exits 0.
- `ProfileWritten` (UnitTestScript): with `--profile` a bare file name, `_writeToPerfLog` calls `os.makedirs('')`, which raises `ENOENT`. The hook ends, and the run's samples never reach the profile.
- `QuietAfterStop` (ProfilerTools): `Spinner.stop()` sleeps one delay and does not join, so the thread can still write a cursor or a backspace after `stop()` returns.
- `NamedFilesPrivate` (ProfilerTools): two processes calling `tmpfile(name=...)` with the same name share one file. The first unlinks it, and the second's `os.unlink` raises `OSError`.
- `FirstExistingWins` (ExpectResolution): an `.expectregex` next to the source overrides an `.exp` next to the artifact. Spec section 6 says the first existing file wins, while section 3 prefers the regex. The code follows section 3.


## Proofs

Every theorem holds for all values of the constants that satisfy the module's assumptions. Each invariant proof follows the same pattern:
- a strengthening `IInv` (named as below);
- `Init => IInv`;
- `IInv /\ [Next]_vars => IInv'`, with one step per action;
- `IInv => property`, then `PTL`.

Each strengthening was first checked by TLC as an invariant of the module's run.

### RunCommand (`RunCommandProofs.tla`)

`TypeCorrect: Spec => []TypeOK`.
- `TypeOK` is inductive on its own, given three lemmas:
  - `Restore` yields a `Cmds` value;
  - the dumped record is in `Records`;
  - `Finish` keeps `lastRun` typed.
- `Records` admits exit codes 1 and 127, so no invariant about the program counter is needed.

`NoFalsePassHolds: Spec => []NoFalsePass`.
- `RunInv` records what a run has established by each step after `ChildExit`:
  - the files and `cmd.returncode` are those of the process;
  - from `diff` on, `checkReturnCode` passed;
  - at `success`, `OutputOk` holds against the baseline as `report_diff` left it.
- `RunInv` also records that `pc = "load"` only in a reload.
- The central lemma is `ReportDiffOk`. When `report_diff` returns normally, the output is:
  - untested;
  - copied over the baseline; or
  - matched by `diff_file` for both stdout and stderr.
- `TypeOK` comes from `TypeCorrect`.

`ReloadAgrees: Spec => []LoadAgrees`.
- `LedgerInv` says that once a run has completed:
  - `.res` is that run's `json.dump` record, and `.out`, `.err` and `.res` stay as they are until the next run starts;
  - `lastRun.verdict` is `Judge(Restore(res), out, err, lastRun.exp, lastRun.expErr)`. `Judge` is the verdict `checkReturnCode` and `report_diff` without update give.
- Each step of a run or a reload follows `Judge`.
- `RestoreDump` shows that `fromArtifacts` restores exactly the dumped fields. This needs `Missing \notin BOOLEAN`.
- `LoadMissing` and `LoadEmpty` are ruled out after a completed run by `LedgerAssumption`.

### StreamTee (`StreamTeeProofs.tla`)

`CaptureTheorem: Spec => []CapturedWhenJoined`, for every `N` and `PipeCap`. `IInv` adds:
- `Flow`: while the tee runs, `file \o InHand \o pipe` is exactly the prefix of the output written so far;
- that `held` is a real chunk while it is in hand;
- that the child has written everything once it has exited;
- that the harness passes `wait` only after the child has exited, and `join` only after the tee is done.

When the tee sees EOF, the pipe is empty and the child has written all `N` chunks, so `Flow` gives `file = Output`. The sequence lemmas `FlowAppend`, `FlowRead` and `FlowWrite` carry `Flow` across the three steps that move data.

`TypeCorrect: Spec => []TypeOK` follows from the same `IInv`.

### VerifyDriver (`VerifyDriverProofs.tla`)

Two theorems, for every `NF` and `MaxWorkers`:
- `TypeCorrect: Spec => []TypeOK`. The inductive invariant `IInv` adds to `TypeOK` that no test is run twice, that every running job is at most `taken` (which makes a newly taken job distinct from the running ones), and that only submitted tests have results. The refinement needs these facts.
- `Refinement: Spec => ImplementsSequential`. `Init` maps to the abstract `Init`, and every step of `Next`, under `IInv`, maps to `Judge`, `Report` or a stutter:
  - `Collect` of a pass or fail is `Judge`;
  - `Report` is the abstract `Report`;
  - every other step leaves the mapped variables unchanged. This includes `Collect` of an exception, which moves to `raised` and is still `run` in the abstract.

### PerfLog (`PerfLogProofs.tla`)

`NeverPartial: Spec => []ProfileNeverPartial` and `SerialSafety: Spec => []SerialKeepsSamples`.
- `IInv` holds that:
  - the profile is never `Partial`;
  - a process about to rename holds `obj + logged_data` in its temporary file.
- `EnsureProfileDir` only moves a process from `ensure` to `read` or to `failed`. Both the hook states and `Exclusive` count `ensure` as inside the hook.
- While no exit hooks have overlapped, it also holds that:
  - at most one process is inside its hook;
  - that process's `obj` is what `ReadBack` would return now;
  - `SerialKeepsSamples` holds.
- `PerfLogAssumption` states that:
  - no process's temporary name `<profile>.<pid>` is the profile itself;
  - no array of samples is `Absent` or `Partial`.
- Without the first, the rename could publish a half-written file.

### UnitTestScript (`UnitTestScriptProofs.tla`)

Three theorems:
- `ZeroStatusPassed: Spec => []ZeroStatusMeansPassed`.
  - `IInv` says that once the body is over with a pending exit argument of 0, only the skip_to_llvm command was printed, or the test ran and returned 0.
  - `NonZeroStatus` rests on `ChildCodes \subseteq (-64..-1) \cup (1..255)`, the return codes a child process can have. A code that is a non-zero multiple of 256 would be a false exit status 0.
- `CleanExit: Spec => []CleanExitRemovesAll`.
  - The ExitStack's `TCInv` is proved over the `TempCleanup` instance.
  - `NextIsTCStep` shows that every script step is a `TC` step or leaves its variables alone.
- `ProfiledRun: Spec => []TestRunProfiled`, for a `--profile` path with a directory part (`~bareProfile` is the theorem's premise, as it is the property's).
  - `PInv` fixes the samples logged at each step: none before `clang`, then one at each `PerfTimer`, none after.
  - It also follows the hook through ensure-directory, read, open, dump and rename. The hook ends in `failed` only when `bareProfile` holds, so an exited process with a directory part ends in `done`, where the profile is `obj + logged_data`.
  - `LoggedCard` (the k-th sample is numbered k) rests on `FS_Product`.
  - `ProfileAssumption` is `PerfLog`'s assumption for the one process.

### ExpectResolution (`ExpectResolutionProofs.tla`)

`Resolution: Spec => []ResolvesAsStated` and `UpdatedBaseline: Spec => []UpdatedBaselineIsUsed`, for any two directories and extensions.
- `IInv` holds that:
  - `exp_name` is `ResolvedUpTo(onDisk, i - 1)`, the answer over the extensions already tried;
  - no earlier directory has a file with the current extension;
  - a baseline written by the last update is `ResolvedUpTo(onDisk, 2)`.
- `UpdateResolves` shows that copying onto a non-regex `exp_name` leaves it the answer.

### Only model-checked

- Liveness under fairness (`TeeTerminates`, `AllEnd`) is out of TLAPS's reach, and so is ENABLED.
- `ImplementsSequential` is proved. `ProfilerTools` has no theorems: its one checked property is liveness.
- `WalkMatchesSelection` is about the RECURSIVE `Walk`. Proving what a recursive definition computes for every tree needs induction over data, which the installed provers cannot instantiate.
- The violated properties of the findings are TLC counterexamples. They are not theorems.

## Not modelled

- Argument parsing, path helpers and toolchain discovery: string manipulation and subprocess wrappers.
- The code generators (`make_callables.py`, `generate_sequence_zip.py`, `generate_project_json.py`): text emission, excluded by the spec.
- The CI cancel loop: REST polling, excluded by the spec.
- `menu.py`, `test_reach.py` and `no_op.py`: outside the harness.
- `skip_js_compile.py`: `unittest.py` never calls it; it leaves for any backend other than native with `exit(2)`.
- In the profiler helpers, `commonArguments`, `separateBinaryArgs` and `parse_args`: argument plumbing.

## Plan

1. Prove the type invariants of RunCommand's neighbours that only TLC checks, and more action properties from the inductive invariants above.
2. Check the harness scripts with larger instances: more tests per verifier batch and more invocations of RunCommand.
3. Model `--keep-temp` cleanup together with `ProfilerTools`' `tmpfile` in one composed module.
