---------------------------- MODULE ProfilerTools ----------------------------
(***************************************************************************)
(* The helpers of tools/profiler/common.py as a profiler script uses them, *)
(* in several processes at once: validate_sk_unit (the argparse type of    *)
(* the program argument), tmpfile inside an ExitStack, sharing the         *)
(* directory tools/profiler/tmp, and a Spinner started and stopped around *)
(* the work.  The spinner runs as its own (non-daemon) thread, and stop()  *)
(* only sleeps for one delay; it does not join the thread.                 *)
(***************************************************************************)
EXTENDS Naturals, Sequences

CONSTANTS
  Procs,      \* profiler processes running at once
  MaxStarts,  \* Spinner.start() calls per process at most
  Shared      \* the file tmp_dir/<name> of tmpfile(name=...)

ASSUME ProfilerToolsAssumption == MaxStarts \in Nat /\ Shared \notin Procs

VARIABLES
  pc,        \* pc[p]: where the main thread of process p is
  named,     \* named[p]: tmpfile was called with a name
  delete,    \* delete[p]: KEEP_TEMP is unset, so tmpfile deletes
  dirExists, \* tools/profiler/tmp exists
  files,     \* the files in it: Shared and the NamedTemporaryFile of each p
  busy,      \* busy[p]: the Spinner's busy flag
  threads,   \* threads[p]: the program counters of p's spinner threads
  console    \* console[p]: cursor characters written and not yet erased

vars == <<pc, named, delete, dirExists, files, busy, threads, console>>

\* The file tmpfile opens: the shared name, or a fresh temporary file.
FileOf(p) == IF named[p] THEN Shared ELSE p

Init ==
  /\ pc = [p \in Procs |-> "validate"]
  /\ named \in [Procs -> BOOLEAN] /\ delete \in [Procs -> BOOLEAN]
  /\ dirExists = FALSE /\ files = {}
  /\ busy = [p \in Procs |-> FALSE]
  /\ threads = [p \in Procs |-> <<>>]
  /\ console = [p \in Procs |-> 0]

-----------------------------------------------------------------------------
(* The main thread of process p.                                           *)

\* callHelper(ninja -C build_dir skip_depends), the first step of
\* validate_sk_unit: a failing build ends the process by
\* sys.exit(e.returncode), also from inside argparse.
CallHelper(p) ==
  /\ pc[p] = "validate"
  /\ pc' = [pc EXCEPT ![p] = "depends"] \/ pc' = [pc EXCEPT ![p] = "exited"]
  /\ UNCHANGED <<named, delete, dirExists, files, busy, threads, console>>

\* The rest of validate_sk_unit: skip_depends dir:unit succeeding returns;
\* failing, a unit that is not a .sk file (or is given as dir:unit) is
\* exit(message), and for a .sk file the user is asked: 'y' generates
\* skip.project.json and returns, anything else is exit(0).
SkipDepends(p) ==
  /\ pc[p] = "depends"
  /\ \/ pc' = [pc EXCEPT ![p] = "check"]      \* returncode 0, or 'y'
     \/ pc' = [pc EXCEPT ![p] = "exited"]     \* exit(message) or exit(0)
  /\ UNCHANGED <<named, delete, dirExists, files, busy, threads, console>>

\* `if not os.path.exists(tmp_dir)`.
CheckDir(p) ==
  /\ pc[p] = "check"
  /\ pc' = [pc EXCEPT ![p] = IF dirExists THEN "open" ELSE "mkdir"]
  /\ UNCHANGED <<named, delete, dirExists, files, busy, threads, console>>

\* os.makedirs(tmp_dir): it creates the directory, or raises EEXIST when
\* another process created it since the check, which the guard ignores;
\* any other OSError (EACCES, ENOSPC, ...) is re-raised and ends the run.
Mkdir(p) ==
  /\ pc[p] = "mkdir"
  /\ \/ /\ pc' = [pc EXCEPT ![p] = "open"]
        /\ dirExists' = TRUE
     \/ /\ ~dirExists
        /\ pc' = [pc EXCEPT ![p] = "mkdirFailed"]
        /\ UNCHANGED dirExists
  /\ UNCHANGED <<named, delete, files, busy, threads, console>>

\* open(tmp_dir/name, 'w+') or NamedTemporaryFile(dir=tmp_dir), entered on
\* the ExitStack.
OpenTmp(p) ==
  /\ pc[p] = "open"
  /\ files' = files \cup {FileOf(p)}
  /\ pc' = [pc EXCEPT ![p] = "work"]
  /\ UNCHANGED <<named, delete, dirExists, busy, threads, console>>

\* Spinner.start(): busy = True and a new thread runs spinner_task.
Start(p) ==
  /\ pc[p] = "work" /\ Len(threads[p]) < MaxStarts
  /\ busy' = [busy EXCEPT ![p] = TRUE]
  /\ threads' = [threads EXCEPT ![p] = Append(@, "loop")]
  /\ pc' = [pc EXCEPT ![p] = "spinning"]
  /\ UNCHANGED <<named, delete, dirExists, files, console>>

\* Spinner.stop() (or __exit__): busy = False, then time.sleep(delay).
Stop(p) ==
  /\ pc[p] = "spinning"
  /\ busy' = [busy EXCEPT ![p] = FALSE]
  /\ pc' = [pc EXCEPT ![p] = "stopping"]
  /\ UNCHANGED <<named, delete, dirExists, files, threads, console>>

\* The sleep in stop() is over; the script goes on with its work.
StopReturns(p) ==
  /\ pc[p] = "stopping"
  /\ pc' = [pc EXCEPT ![p] = "work"]
  /\ UNCHANGED <<named, delete, dirExists, files, busy, threads, console>>

\* The work is over: the with-block of the ExitStack is left.
LeaveWith(p) ==
  /\ pc[p] = "work"
  /\ pc' = [pc EXCEPT ![p] = "exit"]
  /\ UNCHANGED <<named, delete, dirExists, files, busy, threads, console>>

\* ExitStack.__exit__ and tmpfile after its yield: `if delete:
\* os.unlink(f.name)`, which raises if the file is already gone.
ExitTmp(p) ==
  /\ pc[p] = "exit"
  /\ IF delete[p]
       THEN IF FileOf(p) \in files
              THEN files' = files \ {FileOf(p)} /\ pc' = [pc EXCEPT ![p] = "done"]
              ELSE pc' = [pc EXCEPT ![p] = "crashed"] /\ UNCHANGED files
       ELSE pc' = [pc EXCEPT ![p] = "done"] /\ UNCHANGED files
  /\ UNCHANGED <<named, delete, dirExists, busy, threads, console>>

\* The interpreter waits for the non-daemon spinner threads, then exits.
ProcessExit(p) ==
  /\ pc[p] = "done"
  /\ \A t \in DOMAIN threads[p] : threads[p][t] = "finished"
  /\ pc' = [pc EXCEPT ![p] = "exited"]
  /\ UNCHANGED <<named, delete, dirExists, files, busy, threads, console>>

-----------------------------------------------------------------------------
(* Spinner thread t of process p: spinner_task.                            *)

SetThread(p, t, s) == threads' = [threads EXCEPT ![p][t] = s]

\* Mutant: the loop reads busy once, when the thread starts.
LoopTestOnce(p, t) == TRUE

\* `while self.busy`: the flag is read on every iteration.
LoopTest(p, t) == busy[p]

\* The loop test; a thread that sees busy False finishes.
SpinLoop(p, t) ==
  /\ threads[p][t] = "loop"
  /\ SetThread(p, t, IF LoopTest(p, t) THEN "write" ELSE "finished")
  /\ UNCHANGED <<pc, named, delete, dirExists, files, busy, console>>

\* sys.stdout.write(next(cursor)); flush.
SpinWrite(p, t) ==
  /\ threads[p][t] = "write"
  /\ console' = [console EXCEPT ![p] = @ + 1]
  /\ SetThread(p, t, "sleep")
  /\ UNCHANGED <<pc, named, delete, dirExists, files, busy>>

\* After the sleep the '\b' is written unconditionally.
AfterSleep(p, t) == "erase"

\* time.sleep(self.delay).
SpinSleep(p, t) ==
  /\ threads[p][t] = "sleep"
  /\ SetThread(p, t, AfterSleep(p, t))
  /\ UNCHANGED <<pc, named, delete, dirExists, files, busy, console>>

\* sys.stdout.write('\b'); flush.
SpinErase(p, t) ==
  /\ threads[p][t] = "erase"
  /\ console' = [console EXCEPT ![p] = @ - 1]
  /\ SetThread(p, t, "loop")
  /\ UNCHANGED <<pc, named, delete, dirExists, files, busy>>

Main(p) ==
  \/ CallHelper(p) \/ SkipDepends(p) \/ CheckDir(p) \/ Mkdir(p) \/ OpenTmp(p) \/ Start(p)
  \/ Stop(p) \/ StopReturns(p) \/ LeaveWith(p) \/ ExitTmp(p) \/ ProcessExit(p)

Thread(p, t) ==
  SpinLoop(p, t) \/ SpinWrite(p, t) \/ SpinSleep(p, t) \/ SpinErase(p, t)

Next ==
  \E p \in Procs : Main(p) \/ \E t \in DOMAIN threads[p] : Thread(p, t)

\* Processes and threads are scheduled by the OS: each keeps running.
Fairness ==
  \A p \in Procs :
    /\ WF_vars(Main(p))
    /\ \A t \in 1..MaxStarts : WF_vars(t \in DOMAIN threads[p] /\ Thread(p, t))

Spec == Init /\ [][Next]_vars

FairSpec == Spec /\ Fairness

-----------------------------------------------------------------------------
(* Properties.                                                             *)

TypeOK ==
  /\ pc \in [Procs -> {"validate", "depends", "check", "mkdir", "open", "work", "spinning",
                       "stopping", "exit", "done", "exited", "crashed",
                       "mkdirFailed"}]
  /\ threads \in [Procs -> Seq({"loop", "write", "sleep", "erase", "finished"})]
  /\ console \in [Procs -> Nat]
  /\ named \in [Procs -> BOOLEAN] /\ delete \in [Procs -> BOOLEAN]
  /\ busy \in [Procs -> BOOLEAN] /\ dirExists \in BOOLEAN
  /\ files \subseteq Procs \cup {Shared}

\* Every profiler process ends: the spinner threads see busy go False and
\* finish, so the interpreter's wait for them returns.
AllEnd == <>(\A p \in Procs : pc[p] \in {"exited", "crashed", "mkdirFailed"})

\* Once stop() has returned the spinner writes nothing more until the next
\* start(): what the script prints next is not interleaved with cursors.
QuietAfterStop ==
  \A p \in Procs :
    pc[p] \in {"work", "exit", "done"} =>
      \A t \in DOMAIN threads[p] : threads[p][t] \in {"loop", "finished"}

\* Two processes using tmpfile(name=...) have their own files: neither's
\* cleanup finds its file already removed.
NamedFilesPrivate == \A p \in Procs : pc[p] # "crashed"

=============================================================================
