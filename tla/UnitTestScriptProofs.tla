------------------------- MODULE UnitTestScriptProofs -------------------------
(***************************************************************************)
(* Proofs about one run of unittest.py and skip_native_compile.compile,    *)
(* for every set of child return codes a process can see: status 0 means  *)
(* the test binary ran and passed.                                         *)
(***************************************************************************)
EXTENDS UnitTestScript, FiniteSetTheorems, TLAPS

USE UnitTestScriptAssumption, ProfileAssumption

Steps == {"build", "mainfile", "collect", "backend", "pkgconfig", "objfile",
          "skipToNative", "binfile", "clang", "size", "runtest", "unwinding",
          "atexit", "exited", "killed"}

\* Once the body is over and the pending exit argument is 0, either only
\* the skip_to_llvm command was printed or the test ran and returned 0.
PassedWhenZero ==
  (step \in {"unwinding", "atexit", "exited"} /\ exitArg = 0 /\ ~printOnly)
    => testRan /\ testRes = 0

\* The ExitStack's inductive invariant: before the loop the index is at the
\* first context; on a normal exit every context before the index has its
\* generator finished and, without --keep-temp, its file removed; and a
\* loop that ended normally went past the last context.
TCInv ==
  /\ objs \in Seq(TC!Kinds) /\ gen \in Seq({"suspended", "finished"})
  /\ Len(gen) = Len(objs) /\ disk \subseteq 1..Len(objs) /\ keepTemp \in BOOLEAN
  /\ withPc \in {"body", "exiting", "done"} /\ exc \in {"none", "exit", "oserror"}
  /\ k \in 1..(Len(objs) + 1)
  /\ withPc = "body" => k = 1 /\ exc = "none"
  /\ (withPc # "body" /\ exc = "none") =>
        \A i \in 1..(k - 1) : gen[i] = "finished" /\ (~keepTemp => i \notin disk)
  /\ (withPc = "done" /\ exc = "none") => k = Len(objs) + 1

\* The inductive invariant.
IInv ==
  /\ step \in Steps
  /\ exitArg \in {0, 1, 2} \cup ChildCodes
  /\ printOnly \in BOOLEAN
  /\ PassedWhenZero

-----------------------------------------------------------------------------

\* No exit argument the script can pass is a multiple of 256 but 0: the
\* shell sees a failing child's status as non-zero.
LEMMA NonZeroStatus == \A n \in {0, 1, 2} \cup ChildCodes : n % 256 = 0 => n = 0
<1> SUFFICES ASSUME NEW n \in {0, 1, 2} \cup ChildCodes, n % 256 = 0 PROVE n = 0
  OBVIOUS
<1>1. n \in (-64..-1) \cup (0..255)
  OBVIOUS
<1>2. QED
  BY <1>1

LEMMA InitIInv == Init => IInv
  BY DEF Init, IInv, PassedWhenZero, Steps

\* The steps of the body that neither raise nor run the test.
BodyStep ==
  \/ BuildNinjaTarget \/ EnterMainFile \/ EnterObjFile \/ EnterBinFile
  \/ BinarySize \/ Unwind \/ AtExit

LEMMA BodyStepIInv == IInv /\ BodyStep => IInv'
  BY DEF BodyStep, BuildNinjaTarget, EnterMainFile, EnterObjFile, EnterBinFile,
         BinarySize, Unwind, AtExit, Goto, scriptVars, IInv, PassedWhenZero, Steps

\* A step that raises SystemExit(n) (or a traceback) out of the body.
LEMMA RaiseIInv ==
  ASSUME IInv, NEW n \in {0, 1, 2} \cup ChildCodes, Raise(n),
         n = 0 => printOnly,
         UNCHANGED <<printOnly, testRan, testRes>>
  PROVE  IInv'
  BY DEF Raise, IInv, PassedWhenZero, Steps

LEMMA NextIInv == IInv /\ [Next]_vars => IInv'
<1> SUFFICES ASSUME IInv, [Next]_vars PROVE IInv'
  OBVIOUS
<1>1. CASE BodyStep
  BY <1>1, BodyStepIInv
<1>2. CASE CollectAnnotations
  <2>1. CASE Raise(1)
    BY <1>2, <2>1, RaiseIInv DEF CollectAnnotations
  <2>2. QED
    BY <1>2, <2>1 DEF CollectAnnotations, Goto, IInv, PassedWhenZero, Steps
<1>3. CASE Backend
  <2>1. CASE native
    BY <1>3, <2>1 DEF Backend, Goto, IInv, PassedWhenZero, Steps
  <2>2. CASE ~native
    BY <1>3, <2>2, RaiseIInv DEF Backend
  <2>3. QED
    BY <2>1, <2>2
<1>4. CASE PkgConfig
  <2>1. CASE Raise(1)
    BY <1>4, <2>1, RaiseIInv DEF PkgConfig
  <2>2. QED
    BY <1>4, <2>1 DEF PkgConfig, Goto, IInv, PassedWhenZero, Steps
<1>5. CASE SkipToNative
  <2>1. CASE \E rc \in ChildCodes : Raise(rc)
    <3>1. PICK rc \in ChildCodes : Raise(rc)
      BY <2>1
    <3>2. rc # 0
      OBVIOUS
    <3>3. QED
      BY <1>5, <3>1, <3>2, RaiseIInv DEF SkipToNative
  <2>2. CASE printOnly /\ Raise(0)
    BY <1>5, <2>2, RaiseIInv DEF SkipToNative
  <2>3. CASE ~printOnly /\ Goto("binfile") /\ UNCHANGED exitArg
    BY <1>5, <2>3 DEF SkipToNative, Goto, IInv, PassedWhenZero, Steps
  <2>4. QED
    BY <1>5, <2>1, <2>2, <2>3 DEF SkipToNative
<1>6. CASE Clang
  <2>1. CASE \E rc \in ChildCodes : TC!Raise /\ exitArg' = rc /\ step' = "unwinding"
    <3>1. PICK rc \in ChildCodes : exitArg' = rc /\ step' = "unwinding"
      BY <2>1
    <3>2. rc # 0
      OBVIOUS
    <3>3. QED
      BY <1>6, <3>1, <3>2 DEF Clang, IInv, PassedWhenZero, Steps
  <2>2. QED
    BY <1>6, <2>1 DEF Clang, IInv, PassedWhenZero, Steps
<1>7. CASE RunTest
  <2>1. PICK res \in {0} \cup {c \in ChildCodes : c > 0} :
          /\ testRan' = TRUE /\ testRes' = res
          /\ exitArg' = IF TestFailed(res) THEN res ELSE 0
    BY <1>7 DEF RunTest
  <2>2. QED
    BY <1>7, <2>1 DEF RunTest, TestFailed, IInv, PassedWhenZero, Steps
<1>8. CASE SysExit
  BY <1>8 DEF SysExit, AtExitRuns, IInv, PassedWhenZero, Steps
<1>9. CASE ProcessEnd \/ Kill
  BY <1>9 DEF ProcessEnd, Kill, IInv, PassedWhenZero, Steps
<1>10. CASE UNCHANGED vars
  BY <1>10 DEF vars, scriptVars, IInv, PassedWhenZero, Steps
<1>11. QED
  BY <1>1, <1>2, <1>3, <1>4, <1>5, <1>6, <1>7, <1>8, <1>9, <1>10 DEF Next, BodyStep

LEMMA IInvHolds == Spec => []IInv
  BY InitIInv, NextIInv, PTL DEF Spec

\* For every set of return codes a child can have, including negative
\* ones for signals, unittest.py exits with status 0 only if the test
\* binary ran and returned 0 (or only the skip_to_llvm command was asked
\* for): `exitArg % 256` never turns a failure into success, and a failing
\* step of compile or of the cleanup cannot end in status 0.
THEOREM ZeroStatusPassed == Spec => []ZeroStatusMeansPassed
  <1>1. IInv => ZeroStatusMeansPassed
    <2> SUFFICES ASSUME IInv, step = "exited", ExitStatus = 0, ~printOnly
                 PROVE  testRan /\ testRes = 0
      BY DEF ZeroStatusMeansPassed
    <2>1. exc # "oserror"
      BY DEF ExitStatus
    <2>2. exitArg % 256 = 0
      BY <2>1 DEF ExitStatus
    <2>3. exitArg = 0
      BY <2>2, NonZeroStatus DEF IInv
    <2>4. QED
      BY <2>3 DEF IInv, PassedWhenZero
  <1>2. QED
    BY IInvHolds, <1>1, PTL

-----------------------------------------------------------------------------
(* The ExitStack of the script.                                            *)

\* Every step of the script is a step of its ExitStack or leaves it alone.
LEMMA NextIsTCStep == Next => TC!Next \/ UNCHANGED tcVars
<1> SUFFICES ASSUME Next PROVE TC!Next \/ UNCHANGED tcVars
  OBVIOUS
<1>1. CASE EnterMainFile \/ EnterObjFile \/ EnterBinFile
  BY <1>1 DEF EnterMainFile, EnterObjFile, EnterBinFile, TC!Next
<1>2. CASE CollectAnnotations \/ Backend \/ PkgConfig \/ SkipToNative
  BY <1>2 DEF CollectAnnotations, Backend, PkgConfig, SkipToNative, Goto, Raise, TC!Next
<1>3. CASE Clang \/ RunTest
  BY <1>3 DEF Clang, RunTest, TC!Next
<1>4. CASE Unwind
  BY <1>4 DEF Unwind, TC!Next
<1>5. CASE BuildNinjaTarget \/ BinarySize \/ SysExit \/ AtExit \/ ProcessEnd \/ Kill
  BY <1>5 DEF BuildNinjaTarget, BinarySize, SysExit, AtExit, ProcessEnd, Kill, Goto
<1>6. QED
  BY <1>1, <1>2, <1>3, <1>4, <1>5 DEF Next

LEMMA TCInitInv == Init => TCInv
<1> SUFFICES ASSUME Init PROVE TCInv
  OBVIOUS
<1>1. << >> \in Seq(TC!Kinds) /\ << >> \in Seq({"suspended", "finished"}) /\ Len(<< >>) = 0
  OBVIOUS
<1>2. QED
  BY <1>1 DEF Init, TC!Init, TCInv

LEMMA TCStepInv == TCInv /\ (TC!Next \/ UNCHANGED tcVars) => TCInv'
<1> SUFFICES ASSUME TCInv, TC!Next \/ UNCHANGED tcVars PROVE TCInv'
  OBVIOUS
<1>1. CASE TC!EnterContext
  <2>1. PICK kind \in TC!Kinds : objs' = Append(objs, kind)
    BY <1>1 DEF TC!EnterContext
  <2>2. /\ objs' \in Seq(TC!Kinds) /\ Len(objs') = Len(objs) + 1
        /\ gen' \in Seq({"suspended", "finished"}) /\ Len(gen') = Len(gen) + 1
    BY <1>1, <2>1 DEF TC!EnterContext, TCInv
  <2>3. withPc = "body" /\ withPc' = "body" /\ k' = 1 /\ exc' = "none"
    BY <1>1 DEF TC!EnterContext, TCInv
  <2>5. Len(objs) \in Nat
    BY DEF TCInv
  <2>4. disk' \subseteq 1..Len(objs')
    <3>1. disk' = disk \cup {Len(objs) + 1}
      BY <1>1 DEF TC!EnterContext
    <3>2. disk \subseteq 1..Len(objs)
      BY DEF TCInv
    <3>3. 1..Len(objs) \cup {Len(objs) + 1} = 1..(Len(objs) + 1)
      BY <2>5
    <3>4. QED
      BY <2>2, <3>1, <3>2, <3>3
  <2>6. QED
    BY <1>1, <2>2, <2>3, <2>4, <2>5 DEF TC!EnterContext, TCInv
<1>2. CASE TC!Finish \/ TC!Raise
  <2>1. withPc = "body" /\ k = 1 /\ UNCHANGED <<objs, gen, disk, keepTemp, k>>
        /\ withPc' = "exiting"
    BY <1>2 DEF TC!Finish, TC!Raise, TCInv
  <2>2. exc' \in {"none", "exit"}
    BY <1>2 DEF TC!Finish, TC!Raise, TCInv
  <2>3. 1..(k' - 1) = {}
    BY <2>1
  <2>4. QED
    BY <2>1, <2>2, <2>3 DEF TCInv
<1>3. CASE TC!ExitResume
  <2>1. k \in 1..Len(objs) /\ withPc = "exiting" /\ exc = "none"
    BY <1>3 DEF TC!ExitResume, TC!LoopContinues, TCInv
  <2>2. gen' \in Seq({"suspended", "finished"}) /\ Len(gen') = Len(gen)
        /\ gen'[k] = "finished"
        /\ \A i \in 1..Len(gen) \ {k} : gen'[i] = gen[i]
    BY <1>3, <2>1 DEF TC!ExitResume, TCInv
  <2>3. UNCHANGED <<objs, keepTemp>>
    BY <1>3 DEF TC!ExitResume
  <2>4. CASE keepTemp /\ k' = k + 1 /\ UNCHANGED <<disk, withPc, exc>>
    BY <2>1, <2>2, <2>3, <2>4 DEF TCInv
  <2>5. CASE ~keepTemp /\ disk' = disk \ {k} /\ k' = k + 1 /\ UNCHANGED <<withPc, exc>>
    BY <2>1, <2>2, <2>3, <2>5 DEF TCInv
  <2>6. CASE ~keepTemp /\ withPc' = "done" /\ exc' = "oserror" /\ UNCHANGED <<disk, k>>
    BY <2>1, <2>2, <2>3, <2>6 DEF TCInv
  <2>7. QED
    BY <1>3, <2>4, <2>5, <2>6 DEF TC!ExitResume
<1>4. CASE TC!ExitThrow
  BY <1>4 DEF TC!ExitThrow, TC!LoopContinues, TCInv
<1>5. CASE TC!ExitDone
  BY <1>5 DEF TC!ExitDone, TC!LoopContinues, TCInv
<1>6. CASE UNCHANGED tcVars
  BY <1>6 DEF tcVars, TCInv
<1>7. QED
  BY <1>1, <1>2, <1>3, <1>4, <1>5, <1>6 DEF TC!Next

LEMMA TCInvHolds == Spec => []TCInv
<1>1. TCInv /\ [Next]_vars => TCInv'
  BY NextIsTCStep, TCStepInv DEF vars, tcVars
<1>2. QED
  BY TCInitInv, <1>1, PTL DEF Spec

\* In unittest.py, for any number of contexts on its ExitStack: when the
\* with statement is left normally and no removal failed, every tmpfile
\* generator has finished and, without --keep-temp, no temporary file is
\* left; ExitStack.__exit__ exits every context exactly once, in order.
THEOREM CleanExit == Spec => []CleanExitRemovesAll
  <1>1. TCInv => CleanExitRemovesAll
    <2> SUFFICES ASSUME TCInv, withPc = "done", exc = "none"
                 PROVE  /\ \A i \in 1..Len(objs) : gen[i] = "finished"
                        /\ ~keepTemp => disk = {}
      BY DEF CleanExitRemovesAll, TC!CleanExitRemovesAll
    <2>1. k - 1 = Len(objs) /\ Len(objs) \in Nat
      BY DEF TCInv
    <2>2. QED
      BY <2>1 DEF TCInv
  <1>2. QED
    BY TCInvHolds, <1>1, PTL

-----------------------------------------------------------------------------
(* The profile of a run that reached its test.                             *)

\* The first n samples this process logs.
Logged(n) == {Self} \X (1..n)

\* The steps of the body before the first PerfTimer sample.
BeforeClang == {"build", "mainfile", "collect", "backend", "pkgconfig",
                "objfile", "skipToNative", "binfile", "clang"}

\* The inductive invariant for TestRunProfiled: the body logs one sample
\* at each of clang, binary_size and the test run, none after, and the
\* exit hook carries obj + logged_data through the temporary file onto the
\* profile.
PInv ==
  /\ files \in [PL!Paths -> {Absent, Partial} \cup SUBSET PL!Samples]
  /\ obj \in [{Self} -> SUBSET PL!Samples]
  /\ logged \in [{Self} -> SUBSET PL!Samples]
  /\ registered \in [{Self} -> BOOLEAN]
  /\ procPc \in [{Self} -> {"run", "done", "failed", "killed"} \cup PL!Writing]
  /\ bareProfile \in BOOLEAN
  /\ step \in BeforeClang => logged[Self] = {} /\ procPc[Self] = "run" /\ ~testRan
  /\ step = "size" => /\ logged[Self] = IF profileOn THEN Logged(1) ELSE {}
                      /\ procPc[Self] = "run" /\ ~testRan
  /\ step = "runtest" => /\ logged[Self] = IF profileOn THEN Logged(2) ELSE {}
                         /\ procPc[Self] = "run" /\ ~testRan
  /\ testRan => /\ logged[Self] = IF profileOn THEN Logged(3) ELSE {}
                /\ profileOn => registered[Self]
  /\ step = "unwinding" => procPc[Self] = "run"
  /\ step = "atexit" => procPc[Self] \in PL!Writing \cup {"done", "failed"}
  /\ step = "exited" => procPc[Self] \in {"done", "failed"}
  /\ procPc[Self] = "failed" => bareProfile
  /\ procPc[Self] = "rename" => files[PL!TmpName(Self)] = obj[Self] \cup logged[Self]
  /\ procPc[Self] = "done" /\ registered[Self]
     => files[Profile] = obj[Self] \cup logged[Self]

\* The n-th sample logged is numbered n.
LEMMA LoggedCard ==
  ASSUME NEW n \in Nat
  PROVE  IsFiniteSet(Logged(n)) /\ Cardinality(Logged(n)) = n
<1>1. IsFiniteSet({Self}) /\ Cardinality({Self}) = 1
  BY FS_Singleton
<1>2. IsFiniteSet(1..n) /\ Cardinality(1..n) = n
  BY FS_Interval
<1>3. IsFiniteSet({Self} \X (1..n))
      /\ Cardinality({Self} \X (1..n)) = Cardinality({Self}) * Cardinality(1..n)
  BY <1>1, <1>2, FS_Product
<1>4. QED
  BY <1>1, <1>2, <1>3 DEF Logged

\* The profile and this process's temporary file are two paths.
LEMMA PathsFacts ==
  /\ PL!Paths = {Profile, PL!TmpName(Self)}
  /\ PL!TmpName(Self) # Profile
  /\ PL!Samples = Logged(3)
  /\ \A S \in SUBSET PL!Samples : Absent # S /\ Partial # S
BY DEF PL!Paths, PL!PerfLogAssumption, PL!Samples, Logged

\* PerfLog counts samples with the Cardinality of FiniteSets.
LEMMA SameCardinality == \A S : PL!Cardinality(S) = Cardinality(S)
BY DEF PL!Cardinality, Cardinality

\* A PerfTimer sample (logPerfData) taken as the n+1-th one.
LEMMA LogStep ==
  ASSUME PInv, NEW n \in 0..2, procPc[Self] = "run",
         logged[Self] = IF profileOn THEN Logged(n) ELSE {}, Log,
         UNCHANGED profileOn
  PROVE  /\ logged'[Self] = IF profileOn THEN Logged(n + 1) ELSE {}
         /\ logged' \in [{Self} -> SUBSET PL!Samples]
         /\ registered' \in [{Self} -> BOOLEAN]
         /\ profileOn => registered'[Self]
         /\ UNCHANGED <<files, obj, procPc, bareProfile>>
<1>1. CASE profileOn
  <2>1. Cardinality(logged[Self]) = n /\ n < 3
    BY <1>1, LoggedCard
  <2>2. logged'[Self] = Logged(n) \cup {<<Self, n + 1>>}
    <3>0. PL!LogPerfData(Self)
      BY <1>1 DEF Log
    <3>1. logged' = [logged EXCEPT ![Self] = @ \cup {<<Self, PL!Cardinality(@) + 1>>}]
      BY <3>0 DEF PL!LogPerfData
    <3>2. QED
      BY <1>1, <2>1, <3>1, SameCardinality DEF PInv
  <2>3. Logged(n) \cup {<<Self, n + 1>>} = Logged(n + 1)
    BY DEF Logged
  <2>4. Logged(n + 1) \subseteq PL!Samples
    BY PathsFacts DEF Logged
  <2>5. QED
    BY <1>1, <2>1, <2>2, <2>3, <2>4 DEF Log, PL!LogPerfData, PInv
<1>2. CASE ~profileOn
  BY <1>2 DEF Log, plVars, PInv
<1>3. QED
  BY <1>1, <1>2

LEMMA InitPInv == Init => PInv
<1> SUFFICES ASSUME Init PROVE PInv
  OBVIOUS
<1>1. files \in [PL!Paths -> {Absent, Partial} \cup SUBSET PL!Samples]
  BY DEF Init, PL!Init
<1>2. QED
  BY <1>1 DEF Init, PL!Init, PInv, BeforeClang

\* Every step keeps PInv.
LEMMA NextPInv == PInv /\ [Next]_vars => PInv'
<1> SUFFICES ASSUME PInv, [Next]_vars PROVE PInv'
  OBVIOUS
<1>1. CASE BuildNinjaTarget \/ EnterMainFile \/ EnterObjFile \/ EnterBinFile
  BY <1>1 DEF BuildNinjaTarget, EnterMainFile, EnterObjFile, EnterBinFile,
             Goto, plVars, PInv, BeforeClang
<1>2. CASE CollectAnnotations \/ Backend \/ PkgConfig \/ SkipToNative
  BY <1>2 DEF CollectAnnotations, Backend, PkgConfig, SkipToNative, Goto,
             Raise, plVars, PInv, BeforeClang
<1>3. CASE Clang
  <2>1. /\ logged'[Self] = IF profileOn THEN Logged(1) ELSE {}
        /\ logged' \in [{Self} -> SUBSET PL!Samples]
        /\ registered' \in [{Self} -> BOOLEAN]
        /\ UNCHANGED <<files, obj, procPc, bareProfile>>
    <3>1. logged[Self] = IF profileOn THEN Logged(0) ELSE {}
      BY <1>3 DEF Clang, PInv, BeforeClang, Logged
    <3>2. QED
      BY <1>3, <3>1, LogStep DEF Clang, PInv, BeforeClang
  <2>2. QED
    BY <1>3, <2>1 DEF Clang, PInv, BeforeClang
<1>4. CASE BinarySize
  <2>1. /\ logged'[Self] = IF profileOn THEN Logged(2) ELSE {}
        /\ logged' \in [{Self} -> SUBSET PL!Samples]
        /\ registered' \in [{Self} -> BOOLEAN]
        /\ UNCHANGED <<files, obj, procPc, bareProfile>>
    BY <1>4, LogStep DEF BinarySize, PInv
  <2>2. QED
    BY <1>4, <2>1 DEF BinarySize, PInv, BeforeClang
<1>5. CASE RunTest
  <2>1. /\ logged'[Self] = IF profileOn THEN Logged(3) ELSE {}
        /\ logged' \in [{Self} -> SUBSET PL!Samples]
        /\ registered' \in [{Self} -> BOOLEAN]
        /\ profileOn => registered'[Self]
        /\ UNCHANGED <<files, obj, procPc, bareProfile>>
    BY <1>5, LogStep DEF RunTest, PInv
  <2>2. QED
    BY <1>5, <2>1 DEF RunTest, PInv, BeforeClang
<1>6. CASE Unwind \/ ProcessEnd
  BY <1>6 DEF Unwind, ProcessEnd, scriptVars, plVars, PInv, BeforeClang
<1>7. CASE SysExit
  BY <1>7 DEF SysExit, AtExitRuns, PL!Exit, PL!Enter, PInv, BeforeClang,
             PL!Writing
<1>8. CASE AtExit
  <2>1. PL!TmpName(Self) \in PL!Paths /\ Profile \in PL!Paths
        /\ PL!TmpName(Self) # Profile
    BY PathsFacts
  <2>2. UNCHANGED <<step, testRan, profileOn, logged, registered>>
    BY <1>8 DEF AtExit, scriptVars, PL!EnsureProfileDir, PL!ReadProfile,
               PL!OpenTmp, PL!Dump, PL!Rename
  <2>8. CASE PL!EnsureProfileDir(Self)
    BY <1>8, <2>2, <2>8 DEF AtExit, PL!EnsureProfileDir, PInv, PL!Writing
  <2>3. CASE PL!ReadProfile(Self)
    BY <1>8, <2>1, <2>2, <2>3 DEF AtExit, PL!ReadProfile, PL!ReadBack,
                                  PInv, PL!Writing
  <2>4. CASE PL!OpenTmp(Self)
    BY <1>8, <2>1, <2>2, <2>4 DEF AtExit, PL!OpenTmp, PL!AfterOpen,
                                  PInv, PL!Writing
  <2>5. CASE PL!Dump(Self)
    BY <1>8, <2>1, <2>2, <2>5 DEF AtExit, PL!Dump, PInv, PL!Writing
  <2>6. CASE PL!Rename(Self)
    BY <1>8, <2>1, <2>2, <2>6 DEF AtExit, PL!Rename, PInv, PL!Writing
  <2>7. QED
    BY <1>8, <2>3, <2>4, <2>5, <2>6, <2>8 DEF AtExit
<1>9. CASE Kill
  BY <1>9 DEF Kill, PL!Kill, PInv, BeforeClang, PL!Writing
<1>10. CASE UNCHANGED vars
  BY <1>10 DEF vars, scriptVars, plVars, PInv, BeforeClang
<1>11. QED
  BY <1>1, <1>2, <1>3, <1>4, <1>5, <1>6, <1>7, <1>8, <1>9, <1>10 DEF Next

\* With a --profile path that names a directory part, a unittest.py run
\* that reached its test binary and exited (normally or through sys.exit)
\* leaves exactly the three samples of clang, binary_size and the test
\* runtime in the profile, whatever the test returned and whatever the
\* cleanup of the temporary files did.  (With a bare file name the exit
\* hook's makedirs('') raises and nothing is written: ProfileWritten.)
THEOREM ProfiledRun == Spec => []TestRunProfiled
<1>1. PInv => TestRunProfiled
  BY PathsFacts DEF PInv, TestRunProfiled, Logged
<1>2. QED
  BY <1>1, InitPInv, NextPInv, PTL DEF Spec
=============================================================================
