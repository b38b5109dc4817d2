---------------------------- MODULE VerifyDriver ----------------------------
(***************************************************************************)
(* run_test_program and the main block of tests/src/frontend/verify.py:    *)
(* the main thread submits one job per test file to a ThreadPoolExecutor,  *)
(* then waits for the futures in submission order; the pool's worker       *)
(* threads take the jobs off its FIFO work queue.  A job runs the program  *)
(* and check_result: it returns None (pass), a Failure, or raises (an      *)
(* undecodable output or .exp file, an unreadable .exp), and f.result()    *)
(* re-raises that exception in the main thread.  The interpreter exits     *)
(* only after the pool's (non-daemon) threads have drained the queue.      *)
(***************************************************************************)
EXTENDS Naturals, Sequences

CONSTANTS
  NF,          \* number of test files list_test_files returned
  MaxWorkers   \* --max-workers

ASSUME VerifyDriverAssumption == NF \in Nat /\ MaxWorkers \in Nat \ {0}

Files == 1..NF
Workers == 1..MaxWorkers

\* What a job's future can hold.
Outcome == {"pass", "fail", "raise"}

VARIABLES
  sub,        \* futures submitted so far (jobs 1..sub are in the pool)
  taken,      \* jobs a worker has taken off the FIFO queue
  threads,    \* worker threads the executor has started
  idleSem,    \* executor._idle_semaphore
  running,    \* running[w]: the job worker w runs, 0 when it waits
  fut,        \* fut[i]: "pending" or the outcome of job i
  collected,  \* results = [f.result() for f in futures], so far
  mainPc,     \* "run", "raised", "exiting", "exited", "aborted"
  code,       \* exit status of the verifier
  recorded    \* files record_failures wrote .out and .diff for

vars == <<sub, taken, threads, idleSem, running, fut, collected, mainPc,
          code, recorded>>

Init ==
  /\ sub = 0 /\ taken = 0 /\ threads = 0 /\ idleSem = 0
  /\ running = [w \in Workers |-> 0]
  /\ fut = [i \in Files |-> "pending"]
  /\ collected = <<>>
  /\ mainPc = "run" /\ code = 0 /\ recorded = {}

-----------------------------------------------------------------------------
(* The main thread.                                                        *)

\* Mutant: a thread is started for every job whatever max_workers says.
SubmitAlwaysSpawning ==
  /\ mainPc = "run" /\ sub < NF
  /\ sub' = sub + 1
  /\ IF idleSem > 0
       THEN idleSem' = idleSem - 1 /\ UNCHANGED threads
       ELSE /\ threads' = threads + 1
            /\ UNCHANGED idleSem
  /\ UNCHANGED <<taken, running, fut, collected, mainPc, code, recorded>>

\* executor.submit(run, f): the job is queued, then _adjust_thread_count
\* starts a new thread unless it can take an idle token or the pool is full.
Submit ==
  /\ mainPc = "run" /\ sub < NF
  /\ sub' = sub + 1
  /\ IF idleSem > 0
       THEN idleSem' = idleSem - 1 /\ UNCHANGED threads
       ELSE /\ threads' = IF threads < MaxWorkers THEN threads + 1 ELSE threads
            /\ UNCHANGED idleSem
  /\ UNCHANGED <<taken, running, fut, collected, mainPc, code, recorded>>

\* Mutant: the main thread takes whichever future is done first.
CollectAnyDone ==
  /\ mainPc = "run" /\ sub = NF /\ Len(collected) < NF
  /\ \E i \in Files :
       /\ fut[i] # "pending"
       /\ IF fut[i] = "raise"
            THEN mainPc' = "raised" /\ code' = 1 /\ UNCHANGED collected
            ELSE /\ collected' = Append(collected, [file |-> i, verdict |-> fut[i]])
                 /\ UNCHANGED <<mainPc, code>>
  /\ UNCHANGED <<sub, taken, threads, idleSem, running, fut, recorded>>

\* f.result() for the next future in submission order blocks until it is
\* done; an exception the job raised propagates out of the main thread.
Collect ==
  LET i == Len(collected) + 1 IN
  /\ mainPc = "run" /\ sub = NF /\ i <= NF
  /\ fut[i] # "pending"
  /\ IF fut[i] = "raise"
       THEN mainPc' = "raised" /\ code' = 1 /\ UNCHANGED collected
       ELSE /\ collected' = Append(collected, [file |-> i, verdict |-> fut[i]])
            /\ UNCHANGED <<mainPc, code>>
  /\ UNCHANGED <<sub, taken, threads, idleSem, running, fut, recorded>>

\* The failures (results that are not None) are recorded; sys.exit(1) if
\* there is any, otherwise the summary and a normal exit.
Report ==
  /\ mainPc = "run" /\ Len(collected) = NF
  /\ recorded' = {collected[i].file :
                    i \in {j \in 1..NF : collected[j].verdict = "fail"}}
  /\ code' = IF recorded' = {} THEN 0 ELSE 1
  /\ mainPc' = "exiting"
  /\ UNCHANGED <<sub, taken, threads, idleSem, running, fut, collected>>

\* At interpreter exit the executor's threads are joined: they first run
\* every job still queued.  After an exception the exit is a traceback.
ProcessExit ==
  /\ mainPc \in {"exiting", "raised"}
  /\ taken = sub /\ \A w \in Workers : running[w] = 0
  /\ mainPc' = IF mainPc = "raised" THEN "aborted" ELSE "exited"
  /\ UNCHANGED <<sub, taken, threads, idleSem, running, fut, collected,
                 code, recorded>>

-----------------------------------------------------------------------------
(* The pool's worker threads (_worker in concurrent.futures.thread).      *)

\* work_queue.get(block=True): the oldest queued job.
Pick(w) ==
  /\ w <= threads /\ running[w] = 0 /\ taken < sub
  /\ taken' = taken + 1 /\ running' = [running EXCEPT ![w] = taken + 1]
  /\ UNCHANGED <<sub, threads, idleSem, fut, collected, mainPc, code, recorded>>

\* work_item.run(): subprocess.check_output (a non-zero exit is caught and
\* its output kept), then check_result; the future gets the result or the
\* exception, and the worker releases an idle token.
Complete(w) ==
  /\ running[w] # 0
  /\ \E o \in Outcome : fut' = [fut EXCEPT ![running[w]] = o]
  /\ running' = [running EXCEPT ![w] = 0]
  /\ idleSem' = idleSem + 1
  /\ UNCHANGED <<sub, taken, threads, collected, mainPc, code, recorded>>

Next ==
  \/ Submit \/ Collect \/ Report \/ ProcessExit
  \/ \E w \in Workers : Pick(w) \/ Complete(w)

\* The main thread and the worker threads are OS threads under the GIL,
\* each scheduled as long as it can run.  Weak fairness on Complete also
\* assumes that every test program exits: check_output has no timeout.
Fairness ==
  /\ WF_vars(Submit) /\ WF_vars(Collect) /\ WF_vars(Report)
  /\ WF_vars(ProcessExit)
  /\ \A w \in Workers : WF_vars(Pick(w)) /\ WF_vars(Complete(w))

Spec == Init /\ [][Next]_vars

FairSpec == Spec /\ Fairness

-----------------------------------------------------------------------------
(* Properties.                                                             *)

TypeOK ==
  /\ sub \in 0..NF /\ taken \in 0..sub
  /\ threads \in 0..MaxWorkers /\ idleSem \in Nat
  /\ running \in [Workers -> 0..NF]
  /\ fut \in [Files -> Outcome \cup {"pending"}]
  /\ collected \in Seq([file : Files, verdict : {"pass", "fail"}])
  /\ mainPc \in {"run", "raised", "exiting", "exited", "aborted"}
  /\ code \in {0, 1}
  /\ recorded \subseteq Files

\* The abstract verifier, seen through the main thread: what it has
\* collected, whether it has reported, and the exit status it set.
Sequential == INSTANCE SequentialVerify WITH
         results <- collected,
         status <- IF mainPc \in {"exiting", "exited"} THEN "done" ELSE "run",
         code <- IF mainPc \in {"exiting", "exited"} THEN code ELSE 0,
         recorded <- recorded

\* The thread pool implements the sequential verifier: whatever order the
\* workers finish in, the results are taken in file order, the failures
\* recorded are those of the tests that failed and the exit status is 1
\* exactly when one did.
ImplementsSequential == Sequential!Spec

\* spec.md section 7: a test's error is turned into a failure and never
\* raised past the worker, so every run ends with every test judged and the
\* batch reported.
EveryTestReported == <>(mainPc = "exited")

=============================================================================
