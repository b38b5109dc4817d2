------------------------------ MODULE StreamTee ------------------------------
(***************************************************************************)
(* RunCommand with testReportsOk (src/runtime/tools/common.py): the test's *)
(* stdout is a pipe, and a StreamTee thread copies what it reads to the    *)
(* harness's own stdout (writer1) and to the .out capture file (writer2).  *)
(* The constructor waits for the process, then joins the tee, then dumps   *)
(* the ledger record.                                                      *)
(*                                                                         *)
(* Three actors: the test process writing N chunks into a pipe of PipeCap  *)
(* chunks, the tee thread, and the harness thread.  The harness's stdout   *)
(* may stop accepting writes: its reader went away (a closed pipe under    *)
(* Python 2), or always under Python 3, where sys.stdout.write of the      *)
(* bytes read from the pipe raises TypeError.  The tee's except clause     *)
(* then ends its loop.                                                     *)
(***************************************************************************)
EXTENDS Naturals, Sequences

CONSTANTS
  N,        \* chunks of read(16384) the test prints
  PipeCap   \* chunks the pipe buffers before the writer blocks

ASSUME StreamTeeAssumption == N \in Nat \ {0} /\ PipeCap \in Nat \ {0}

VARIABLES
  written,  \* chunks the test process has written so far
  proc,     \* "running" or "exited"
  pipe,     \* chunks in the pipe, oldest first
  tee,      \* the tee's place in its loop: "read", "w1", "w2", "done"
  held,     \* the chunk the tee read and is writing out
  console,  \* chunks shown on the harness's stdout
  file,     \* chunks in the .out capture file
  consoleOk,\* does the harness's stdout still accept writes
  harness   \* "wait", "join", "dump", "done"

vars == <<written, proc, pipe, tee, held, console, file, consoleOk, harness>>

\* Everything the test prints, chunk i being the i-th read.
Output == [i \in 1..N |-> i]

Init ==
  /\ written = 0 /\ proc = "running" /\ pipe = <<>>
  /\ tee = "read" /\ held = 0
  /\ console = <<>> /\ file = <<>>
  /\ consoleOk \in BOOLEAN
  /\ harness = "wait"

\* Mutant: the write does not block on a full pipe.
ProcWriteIgnoringCapacity ==
  /\ proc = "running" /\ written < N
  /\ written' = written + 1
  /\ pipe' = Append(pipe, written + 1)
  /\ UNCHANGED <<proc, tee, held, console, file, consoleOk, harness>>

\* The test writes its next chunk; a full pipe blocks it.
ProcWrite ==
  /\ proc = "running" /\ written < N /\ Len(pipe) < PipeCap
  /\ written' = written + 1
  /\ pipe' = Append(pipe, written + 1)
  /\ UNCHANGED <<proc, tee, held, console, file, consoleOk, harness>>

\* The test exits after its last write, closing its end of the pipe.
ProcExit ==
  /\ proc = "running" /\ written = N
  /\ proc' = "exited"
  /\ UNCHANGED <<written, pipe, tee, held, console, file, consoleOk, harness>>

\* Mutant: a writer end of the pipe stays open, so read() never sees EOF.
AtEofNever == FALSE

\* read() returns "" once the pipe is drained and no writer is left.
AtEof == pipe = <<>> /\ proc = "exited"

\* read = self._reader.read(16384): a chunk, or EOF which ends the loop.
TeeRead ==
  /\ tee = "read"
  /\ \/ /\ pipe # <<>>
        /\ held' = Head(pipe) /\ pipe' = Tail(pipe) /\ tee' = "w1"
     \/ /\ AtEof
        /\ tee' = "done" /\ UNCHANGED <<held, pipe>>
  /\ UNCHANGED <<written, proc, console, file, consoleOk, harness>>

\* self._writer1.write(read); flush(): an exception breaks the loop and
\* the chunk never reaches writer2.
TeeWriteConsole ==
  /\ tee = "w1"
  /\ \/ /\ consoleOk
        /\ console' = Append(console, held) /\ tee' = "w2"
     \/ /\ ~consoleOk
        /\ tee' = "done" /\ UNCHANGED console
  /\ UNCHANGED <<written, proc, pipe, held, file, consoleOk, harness>>

\* self._writer2.write(read); flush(), then back to read().
TeeWriteFile ==
  /\ tee = "w2"
  /\ file' = Append(file, held) /\ tee' = "read"
  /\ UNCHANGED <<written, proc, pipe, held, console, consoleOk, harness>>

\* The harness's stdout stops accepting writes.
ConsoleCloses ==
  /\ consoleOk
  /\ consoleOk' = FALSE
  /\ UNCHANGED <<written, proc, pipe, tee, held, console, file, harness>>

\* self.returncode = p.wait()
HarnessWait ==
  /\ harness = "wait" /\ proc = "exited"
  /\ harness' = "join"
  /\ UNCHANGED <<written, proc, pipe, tee, held, console, file, consoleOk>>

\* Mutant: the tee is not joined before the record is dumped.
HarnessJoinNotWaiting ==
  /\ harness = "join"
  /\ harness' = "dump"
  /\ UNCHANGED <<written, proc, pipe, tee, held, console, file, consoleOk>>

\* if stdoutTee: stdoutTee.join()
HarnessJoin ==
  /\ harness = "join" /\ tee = "done"
  /\ harness' = "dump"
  /\ UNCHANGED <<written, proc, pipe, tee, held, console, file, consoleOk>>

\* json.dump(...) of the record, then the with statement closes the files.
HarnessDump ==
  /\ harness = "dump"
  /\ harness' = "done"
  /\ UNCHANGED <<written, proc, pipe, tee, held, console, file, consoleOk>>

Next ==
  \/ ProcWrite \/ ProcExit \/ TeeRead \/ TeeWriteConsole \/ TeeWriteFile
  \/ ConsoleCloses \/ HarnessWait \/ HarnessJoin \/ HarnessDump

\* The OS schedules the process and both threads; the harness's stdout
\* closing is the environment's doing and gets no fairness.
Fairness ==
  /\ WF_vars(ProcWrite) /\ WF_vars(ProcExit)
  /\ WF_vars(TeeRead) /\ WF_vars(TeeWriteConsole) /\ WF_vars(TeeWriteFile)
  /\ WF_vars(HarnessWait) /\ WF_vars(HarnessJoin) /\ WF_vars(HarnessDump)

Spec == Init /\ [][Next]_vars
FairSpec == Spec /\ Fairness

-----------------------------------------------------------------------------
(* Properties.                                                             *)

TypeOK ==
  /\ written \in 0..N /\ proc \in {"running", "exited"}
  /\ pipe \in Seq(1..N) /\ Len(pipe) <= PipeCap
  /\ tee \in {"read", "w1", "w2", "done"} /\ held \in 0..N
  /\ console \in Seq(1..N) /\ file \in Seq(1..N)
  /\ consoleOk \in BOOLEAN
  /\ harness \in {"wait", "join", "dump", "done"}

\* Once the harness has joined the tee and goes on to dump the ledger, the
\* .out capture file holds everything the test printed, in order, as long
\* as the harness's stdout accepts writes: waiting for the process alone
\* would lose what was still in the pipe or in the tee's hands.
CapturedWhenJoined ==
  (harness \in {"dump", "done"} /\ consoleOk) => file = Output

\* A behaviour in which the harness's stdout keeps accepting writes ends
\* with the record dumped: the test is never blocked on a full pipe that
\* nobody drains, and the tee sees EOF, so neither p.wait() nor join()
\* hangs.
TeeTerminates == []consoleOk => <>(harness = "done")

\* spec.md section 4.1: with testReportsOk the test's stdout is duplicated to
\* the console and to the capture file, so the .out file the comparator and
\* later readers use holds the whole output once the record is written.
CaptureComplete == harness = "done" => file = Output

\* spec.md sections 4.1 and 5: the harness waits only for the test process
\* to exit and then writes its RunRecord; every run ends.
EventuallyReports == <>(harness = "done")

=============================================================================
