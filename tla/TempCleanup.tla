----------------------------- MODULE TempCleanup -----------------------------
(***************************************************************************)
(* The temporary files of a harness script: ExitStack, tmpfile and tmpdir  *)
(* of src/runtime/tools/common.py, as skip_native_compile.py and           *)
(* lkg/runtime/tools/unittest.py use them.  The script's body enters       *)
(* tmpfile/tmpdir contexts on one ExitStack and either returns or raises   *)
(* (exit(0) after --print-skip-to-llvm, exit(1), a CalledProcessError of   *)
(* callHelper).  ExitStack.__exit__ then calls every context's __exit__ in *)
(* the order they were entered.  A context made by @contextmanager resumes *)
(* its generator on a normal exit and throws the exception into it         *)
(* otherwise.  A file or directory is named by the index of its context.   *)
(***************************************************************************)
EXTENDS Naturals, Sequences

CONSTANT MaxObjs   \* contexts the body enters at most (a natural number;
                   \* UnitTestScript instantiates it with 3)

Kinds == {"file", "dir"}

VARIABLES
  objs,      \* ExitStack._objs: the kinds of the entered contexts, in order
  gen,       \* gen[i]: the generator of context i is "suspended" or "finished"
  disk,      \* indices of the temporary files and directories that exist
  keepTemp,  \* ARGS.keep_temp
  pc,        \* "body", "exiting" (inside ExitStack.__exit__) or "done"
  exc,       \* the exception in flight: "none", "exit" or "oserror"
  k          \* the loop index of ExitStack.__exit__

vars == <<objs, gen, disk, keepTemp, pc, exc, k>>

Init ==
  /\ objs = <<>> /\ gen = <<>> /\ disk = {}
  /\ keepTemp \in BOOLEAN
  /\ pc = "body" /\ exc = "none" /\ k = 1

\* stack.enter_context(common.tmpfile(...)) or common.tmpdir(...): the
\* context is appended to _objs and its generator runs up to the yield,
\* creating the file (NamedTemporaryFile(delete=False)) or directory.
EnterContext ==
  /\ pc = "body" /\ Len(objs) < MaxObjs
  /\ \E kind \in Kinds : objs' = Append(objs, kind)
  /\ gen' = Append(gen, "suspended")
  /\ disk' = disk \cup {Len(objs) + 1}
  /\ UNCHANGED <<keepTemp, pc, exc, k>>

\* The body returns: the with statement calls __exit__(None, None, None).
Finish ==
  /\ pc = "body"
  /\ pc' = "exiting"
  /\ UNCHANGED <<objs, gen, disk, keepTemp, exc, k>>

\* The body raises: exit(n), sys.exit(res) or an exception of callHelper
\* inside the with block.
Raise ==
  /\ pc = "body"
  /\ pc' = "exiting" /\ exc' = "exit"
  /\ UNCHANGED <<objs, gen, disk, keepTemp, k>>

\* Mutant: the loop of ExitStack.__exit__ stops before the last context.
LoopSkippingLast == k < Len(objs)

\* The loop `for obj in self._objs` has a context left.
LoopContinues == k <= Len(objs)

\* obj.__exit__ on a normal exit: the generator resumes after its yield
\* and, unless keep_temp, removes the file (os.unlink) or the directory
\* (shutil.rmtree).  The removal can raise (the file is already gone, a
\* directory entry cannot be removed); the OSError leaves __exit__ and
\* ends the loop, so the contexts after k are never exited.
ExitResume ==
  /\ pc = "exiting" /\ exc = "none" /\ LoopContinues
  /\ gen' = [gen EXCEPT ![k] = "finished"]
  /\ \/ /\ keepTemp
        /\ k' = k + 1 /\ UNCHANGED <<disk, pc, exc>>
     \/ /\ ~keepTemp
        /\ disk' = disk \ {k}
        /\ k' = k + 1 /\ UNCHANGED <<pc, exc>>
     \/ /\ ~keepTemp
        /\ pc' = "done" /\ exc' = "oserror"
        /\ UNCHANGED <<disk, k>>
  /\ UNCHANGED <<objs, keepTemp>>

\* obj.__exit__ with an exception in flight: it is thrown into the
\* generator at its yield, so the removal after the yield is skipped; the
\* same exception comes back out and __exit__ returns False.
ExitThrow ==
  /\ pc = "exiting" /\ exc # "none" /\ LoopContinues
  /\ gen' = [gen EXCEPT ![k] = "finished"]
  /\ k' = k + 1
  /\ UNCHANGED <<objs, disk, keepTemp, pc, exc>>

\* The loop is over; ExitStack.__exit__ returns None and any exception
\* propagates out of the with statement.
ExitDone ==
  /\ pc = "exiting" /\ ~LoopContinues
  /\ pc' = "done"
  /\ UNCHANGED <<objs, gen, disk, keepTemp, exc, k>>

Next == EnterContext \/ Finish \/ Raise \/ ExitResume \/ ExitThrow \/ ExitDone

Spec == Init /\ [][Next]_vars

-----------------------------------------------------------------------------
(* Properties.                                                             *)

TypeOK ==
  /\ objs \in Seq(Kinds) /\ gen \in Seq({"suspended", "finished"})
  /\ disk \subseteq 1..MaxObjs /\ keepTemp \in BOOLEAN
  /\ pc \in {"body", "exiting", "done"} /\ exc \in {"none", "exit", "oserror"}
  /\ k \in 1..(MaxObjs + 1)

\* When the script's body returns and no removal fails, ExitStack.__exit__
\* leaves no temporary file or directory behind (without --keep-temp),
\* and every generator has finished; a context exited twice or never
\* would break it.
CleanExitRemovesAll ==
  (pc = "done" /\ exc = "none") =>
     /\ \A i \in 1..Len(objs) : gen[i] = "finished"
     /\ (~keepTemp => disk = {})

\* The comment on tmpfile (common.py): the file is deleted when the
\* context exits, also when the with block is left by exit(0) after
\* --print-skip-to-llvm (skip_native_compile.py) or by exit(1)/exit(2)
\* (unittest.py).
NoLeakOnExit == (pc = "done" /\ exc = "exit" /\ ~keepTemp) => disk = {}

=============================================================================
