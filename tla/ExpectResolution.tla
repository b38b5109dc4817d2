--------------------------- MODULE ExpectResolution ---------------------------
(***************************************************************************)
(* How RunCommand._computeFilenames (src/runtime/tools/common.py) picks    *)
(* the expectation file: the nested loop over the extensions               *)
(* (expectedExtension, '.expectregex') and the two directories (the build  *)
(* artifact's dst_we, then the source's stem), whose `break` leaves the    *)
(* inner loop only.  A file name is a pair <<directory, extension>>; the   *)
(* files that exist are fixed while the loop runs.  Then report_diff, with *)
(* UPDATE_BASELINE, copies the output onto exp_name, creating it if it     *)
(* did not exist, and a later invocation resolves the name again.          *)
(***************************************************************************)
EXTENDS Naturals, Sequences

CONSTANTS
  MaxRuns,       \* invocations of the harness for the test
  Dst, Src,      \* dst_we and os.path.splitext(self.test)[0]
  ExpExt, Regex  \* self.expectedExtension and '.expectregex'

ASSUME ExpectResolutionAssumption ==
  MaxRuns \in Nat /\ Dst # Src /\ ExpExt # Regex

Exts == <<ExpExt, Regex>>
Dirs == <<Dst, Src>>
Names == {Dst, Src} \X {ExpExt, Regex}

\* The default, set before the loop: a .exp next to the source.
Default == <<Src, ExpExt>>

VARIABLES
  onDisk,   \* the candidate files that exist (os.path.exists)
  expName,  \* self.exp_name
  i, j,     \* the indices of the outer (ext) and inner (path) loops
  done,     \* the loop has finished
  runs,     \* invocations started so far
  wrote     \* the name the last update-baseline report_diff copied onto

vars == <<onDisk, expName, i, j, done, runs, wrote>>

\* A RunCommand is constructed: _computeFilenames starts from the default.
StartLoop ==
  /\ expName' = Default
  /\ i' = 1 /\ j' = 1 /\ done' = FALSE

Init ==
  /\ onDisk \in SUBSET Names
  /\ expName = Default
  /\ i = 1 /\ j = 1 /\ done = FALSE
  /\ runs = 1 /\ wrote = "none"

\* Mutant: the break leaves both loops, so the first existing file wins.
BreakOuter == i' = Len(Exts) + 1 /\ j' = 1

\* `break`: only the inner loop over the paths ends; the next extension
\* is still tried.
BreakInner == i' = i + 1 /\ j' = 1

\* One iteration of the inner loop: name = path + ext; if it exists it
\* becomes exp_name and the inner loop breaks.
Probe ==
  /\ ~done /\ i <= Len(Exts) /\ j <= Len(Dirs)
  /\ LET name == <<Dirs[j], Exts[i]>> IN
       IF name \in onDisk
         THEN expName' = name /\ BreakInner
         ELSE UNCHANGED expName /\ i' = i /\ j' = j + 1
  /\ UNCHANGED <<onDisk, done, runs, wrote>>

\* The inner loop ran out of paths: on to the next extension.
NextExt ==
  /\ ~done /\ i <= Len(Exts) /\ j > Len(Dirs)
  /\ i' = i + 1 /\ j' = 1
  /\ UNCHANGED <<onDisk, expName, done, runs, wrote>>

\* The outer loop ran out of extensions.
Finish ==
  /\ ~done /\ i > Len(Exts)
  /\ done' = TRUE
  /\ UNCHANGED <<onDisk, expName, i, j, runs, wrote>>

\* Mutant: the update copies onto the .exp next to the source.
UpdateTargetDefault == Default

\* The file shutil.copyfile(self.stdout_name, self.exp_name) writes.
UpdateTarget == expName

\* report_diff with UPDATE_BASELINE and an exp_name that is not an
\* .expectregex: the output is copied onto exp_name and the test passes;
\* then the invocation ends and another may start.  Without the update,
\* or for an .expectregex, nothing is written.
ReportDiffAndRerun ==
  /\ done /\ runs < MaxRuns
  /\ \/ /\ expName[2] # Regex
        /\ onDisk' = onDisk \cup {UpdateTarget}
        /\ wrote' = UpdateTarget
     \/ /\ UNCHANGED onDisk
        /\ wrote' = "none"
  /\ runs' = runs + 1
  /\ StartLoop

Next == Probe \/ NextExt \/ Finish \/ ReportDiffAndRerun

Spec == Init /\ [][Next]_vars

-----------------------------------------------------------------------------
(* Properties.                                                             *)

\* The first existing directory for extension e, in the order dst, src.
FirstDirWith(e) ==
  IF <<Dst, e>> \in onDisk THEN <<Dst, e>> ELSE <<Src, e>>

\* What the loop computes, stated without the loop: a '.expectregex' in
\* either place wins over any expectedExtension file; within one
\* extension the build directory wins over the source directory.
LastExtWins ==
  IF \E d \in {Dst, Src} : <<d, Regex>> \in onDisk THEN FirstDirWith(Regex)
  ELSE IF \E d \in {Dst, Src} : <<d, ExpExt>> \in onDisk THEN FirstDirWith(ExpExt)
  ELSE Default

\* The loop in _computeFilenames ends with exp_name as stated by
\* LastExtWins, whichever candidate files exist.
ResolvesAsStated == done => expName = LastExtWins

\* After an invocation with UPDATE_BASELINE rewrote the baseline, the next
\* invocation compares against the file that was just written, and not
\* against another candidate that shadows it.
UpdatedBaselineIsUsed == (done /\ wrote # "none") => expName = wrote

\* spec.md section 6: check <dst>.exp, then <source>.exp, then the same
\* for .expectregex, and the first existing file wins.
SpecOrder == << <<Dst, ExpExt>>, <<Src, ExpExt>>, <<Dst, Regex>>, <<Src, Regex>> >>

FirstExistingWins ==
  done =>
    expName = IF \E n \in 1..4 : SpecOrder[n] \in onDisk
                THEN SpecOrder[CHOOSE n \in 1..4 : SpecOrder[n] \in onDisk
                                          /\ \A m \in 1..(n - 1) : SpecOrder[m] \notin onDisk]
                ELSE Default

=============================================================================
