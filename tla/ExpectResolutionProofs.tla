------------------------ MODULE ExpectResolutionProofs ------------------------
(***************************************************************************)
(* Proofs about the expectation-file search of RunCommand._computeFilenames *)
(* and the baseline update of report_diff, for any two directories and     *)
(* any two extensions.                                                     *)
(***************************************************************************)
EXTENDS ExpectResolution, TLAPS

USE ExpectResolutionAssumption

\* Among the files E, one with extension e exists in one of the two
\* directories.
Found(E, e) == \E d \in {Dst, Src} : <<d, e>> \in E

\* The first of the two directories with a file of extension e in E.
FirstIn(E, e) == IF <<Dst, e>> \in E THEN <<Dst, e>> ELSE <<Src, e>>

\* exp_name, for the files E, once the outer loop has tried its first n
\* extensions: a later extension that has a file overrides an earlier one.
ResolvedUpTo(E, n) ==
  IF n >= 2 /\ Found(E, Regex) THEN FirstIn(E, Regex)
  ELSE IF n >= 1 /\ Found(E, ExpExt) THEN FirstIn(E, ExpExt)
  ELSE Default

\* The loop's invariant: exp_name is the answer over the extensions done,
\* no directory before j has a file with the current extension, the loop
\* ends after the last extension, and a baseline written by the last
\* update is what resolving the name again yields.
IInv ==
  /\ onDisk \subseteq Names
  /\ i \in 1..3 /\ j \in 1..3
  /\ expName = ResolvedUpTo(onDisk, i - 1)
  /\ i <= 2 => \A jj \in 1..(j - 1) : <<Dirs[jj], Exts[i]>> \notin onDisk
  /\ done => i = 3
  /\ wrote # "none" => wrote = ResolvedUpTo(onDisk, 2)

\* LastExtWins is the answer over both extensions.
LEMMA LastIsResolved == LastExtWins = ResolvedUpTo(onDisk, 2)
BY DEF LastExtWins, FirstDirWith, ResolvedUpTo, Found, FirstIn

LEMMA InitIInv == Init => IInv
<1> SUFFICES ASSUME Init PROVE IInv
  OBVIOUS
<1>1. onDisk \subseteq Names /\ i \in 1..3 /\ j \in 1..3
  BY DEF Init
<1>2. expName = ResolvedUpTo(onDisk, i - 1)
  BY DEF Init, ResolvedUpTo
<1>3. i <= 2 => \A jj \in 1..(j - 1) : <<Dirs[jj], Exts[i]>> \notin onDisk
  BY DEF Init
<1>4. (done => i = 3) /\ (wrote # "none" => wrote = ResolvedUpTo(onDisk, 2))
  BY Zenon DEF Init
<1>5. QED
  BY <1>1, <1>2, <1>3, <1>4 DEF IInv

\* One iteration of the inner loop that finds a file: the file is the
\* first existing one of its extension, so exp_name becomes the answer
\* over one more extension.
LEMMA ProbeFound ==
  ASSUME NEW E, NEW n \in 1..2, NEW m \in 1..2,
         \A jj \in 1..(m - 1) : <<Dirs[jj], Exts[n]>> \notin E,
         <<Dirs[m], Exts[n]>> \in E
  PROVE  <<Dirs[m], Exts[n]>> = ResolvedUpTo(E, n)
<1>1. CASE n = 1
  BY <1>1 DEF ResolvedUpTo, FirstIn, Found, Dirs, Exts
<1>2. CASE n = 2
  BY <1>2 DEF ResolvedUpTo, FirstIn, Found, Dirs, Exts
<1>3. QED
  BY <1>1, <1>2

\* The inner loop ran out of directories: the extension has no file, and
\* the answer does not change.
LEMMA NoneFound ==
  ASSUME NEW E, NEW n \in 1..2,
         \A jj \in 1..2 : <<Dirs[jj], Exts[n]>> \notin E
  PROVE  ResolvedUpTo(E, n) = ResolvedUpTo(E, n - 1)
<1>1. ~Found(E, Exts[n])
  BY DEF Found, Dirs, Exts
<1>2. QED
  BY <1>1 DEF ResolvedUpTo, Exts

\* Copying the output onto an exp_name that is not an .expectregex does
\* not make another candidate shadow it: resolving again yields it.
LEMMA UpdateResolves ==
  ASSUME NEW E, NEW x, x = ResolvedUpTo(E, 2), x[2] # Regex
  PROVE  ResolvedUpTo(E \cup {x}, 2) = x
<1>1. ~Found(E, Regex)
  BY DEF ResolvedUpTo, FirstIn, Found, Default
<1>2. CASE x = <<Dst, ExpExt>>
  BY <1>1, <1>2 DEF ResolvedUpTo, FirstIn, Found, Default
<1>3. CASE x = <<Src, ExpExt>>
  <2>1. <<Dst, ExpExt>> \notin E
    BY <1>1, <1>3 DEF ResolvedUpTo, FirstIn, Found, Default
  <2>2. QED
    BY <1>1, <1>3, <2>1 DEF ResolvedUpTo, FirstIn, Found, Default
<1>4. QED
  BY <1>1, <1>2, <1>3 DEF ResolvedUpTo, FirstIn, Found, Default

\* The part of IInv about the loop's counters and the files.
Counters ==
  /\ onDisk \subseteq Names
  /\ i \in 1..3 /\ j \in 1..3
  /\ expName = ResolvedUpTo(onDisk, i - 1)
  /\ i <= 2 => \A jj \in 1..(j - 1) : <<Dirs[jj], Exts[i]>> \notin onDisk
  /\ wrote # "none" => wrote = ResolvedUpTo(onDisk, 2)

LEMMA SplitIInv == IInv <=> Counters /\ (done => i = 3)
BY Zenon DEF IInv, Counters

LEMMA NextIInv == IInv /\ [Next]_vars => IInv'
<1> SUFFICES ASSUME IInv, [Next]_vars PROVE Counters' /\ (done => i = 3)'
  BY Zenon DEF IInv, Counters
<1>0. Counters /\ (done => i = 3)
  BY SplitIInv
<1>1. CASE Probe
  <2> DEFINE name == <<Dirs[j], Exts[i]>>
  <2>1. ~done /\ UNCHANGED <<onDisk, done, wrote>>
    BY <1>1 DEF Probe
  <2>2. i \in 1..2 /\ j \in 1..2
    BY <1>0, <1>1 DEF Probe, Exts, Dirs, Counters
  <2>3. CASE name \in onDisk
    <3>1. expName' = name /\ i' = i + 1 /\ j' = 1
      BY <1>1, <2>3 DEF Probe, BreakInner
    <3>2. name = ResolvedUpTo(onDisk, i)
      BY <1>0, <2>2, <2>3, ProbeFound DEF Counters
    <3>3. Counters'
      BY <1>0, <2>1, <2>2, <3>1, <3>2 DEF Counters
    <3>4. QED
      BY <2>1, <3>3, Zenon
  <2>4. CASE name \notin onDisk
    <3>1. expName' = expName /\ i' = i /\ j' = j + 1
      BY <1>1, <2>4 DEF Probe
    <3>2. Counters'
      BY <1>0, <2>1, <2>2, <2>4, <3>1 DEF Counters
    <3>3. QED
      BY <2>1, <3>2, Zenon
  <2>5. QED
    BY <2>3, <2>4
<1>2. CASE NextExt
  <2>1. ~done /\ UNCHANGED <<onDisk, expName, done, wrote>>
    BY <1>2 DEF NextExt
  <2>2. i \in 1..2 /\ j = 3 /\ i' = i + 1 /\ j' = 1
    BY <1>0, <1>2 DEF NextExt, Exts, Dirs, Counters
  <2>3. ResolvedUpTo(onDisk, i) = ResolvedUpTo(onDisk, i - 1)
    BY <1>0, <2>2, NoneFound DEF Counters
  <2>4. Counters'
    BY <1>0, <2>1, <2>2, <2>3 DEF Counters
  <2>5. QED
    BY <2>1, <2>4, Zenon
<1>3. CASE Finish
  <2>1. i = 3
    BY <1>0, <1>3 DEF Finish, Exts, Counters
  <2>2. UNCHANGED <<onDisk, expName, i, j, wrote>>
    BY <1>3 DEF Finish
  <2>3. Counters'
    BY <1>0, <2>2 DEF Counters
  <2>4. QED
    BY <2>1, <2>2, <2>3, Zenon
<1>4. CASE ReportDiffAndRerun
  <2>1. done
    BY <1>4 DEF ReportDiffAndRerun
  <2>2. i = 3
    BY <1>0, <2>1, Zenon
  <2>3. expName = ResolvedUpTo(onDisk, 2)
    BY <1>0, <2>2 DEF Counters
  <2>4. expName' = Default /\ i' = 1 /\ j' = 1 /\ ~done'
    BY <1>4 DEF ReportDiffAndRerun, StartLoop
  <2>5. Default = ResolvedUpTo(onDisk', 0)
    BY DEF ResolvedUpTo
  <2>6. CASE /\ expName[2] # Regex
             /\ onDisk' = onDisk \cup {UpdateTarget}
             /\ wrote' = UpdateTarget
    <3>1. ResolvedUpTo(onDisk \cup {expName}, 2) = expName
      BY <2>3, <2>6, UpdateResolves
    <3>2. expName \in Names
      BY <2>3 DEF ResolvedUpTo, FirstIn, Default, Names
    <3>3. Counters'
      BY <1>0, <2>4, <2>5, <2>6, <3>1, <3>2 DEF Counters, UpdateTarget
    <3>4. QED
      BY <2>4, <3>3, Zenon
  <2>7. CASE UNCHANGED onDisk /\ wrote' = "none"
    <3>1. Counters'
      BY <1>0, <2>4, <2>5, <2>7 DEF Counters
    <3>2. QED
      BY <2>4, <3>1, Zenon
  <2>8. QED
    BY <1>4, <2>6, <2>7 DEF ReportDiffAndRerun
<1>5. CASE UNCHANGED vars
  <2>1. UNCHANGED <<onDisk, expName, i, j, done, wrote>>
    BY <1>5 DEF vars
  <2>2. Counters'
    BY <1>0, <2>1 DEF Counters
  <2>3. QED
    BY <1>0, <2>1, <2>2, Zenon
<1>6. QED
  BY <1>1, <1>2, <1>3, <1>4, <1>5 DEF Next

LEMMA IInvHolds == Spec => []IInv
BY InitIInv, NextIInv, PTL DEF Spec

\* Whichever candidate files exist, the loop of _computeFilenames ends
\* with exp_name as LastExtWins states it: an .expectregex anywhere wins
\* over an expectedExtension file, and dst_we wins over the source
\* directory for the same extension.
THEOREM Resolution == Spec => []ResolvesAsStated
<1>1. IInv => ResolvesAsStated
  <2> SUFFICES ASSUME IInv, done PROVE expName = LastExtWins
    BY DEF ResolvesAsStated
  <2>1. i = 3
    BY Zenon DEF IInv
  <2>2. QED
    BY <2>1, LastIsResolved DEF IInv
<1>2. QED
  BY <1>1, IInvHolds, PTL

\* After report_diff with UPDATE_BASELINE rewrote the baseline, the next
\* invocation resolves exp_name to the file just written.
THEOREM UpdatedBaseline == Spec => []UpdatedBaselineIsUsed
<1>1. IInv => UpdatedBaselineIsUsed
  <2> SUFFICES ASSUME IInv, done, wrote # "none" PROVE expName = wrote
    BY DEF UpdatedBaselineIsUsed
  <2>1. i = 3
    BY Zenon DEF IInv
  <2>2. QED
    BY <2>1 DEF IInv
<1>2. QED
  BY <1>1, IInvHolds, PTL
=============================================================================
