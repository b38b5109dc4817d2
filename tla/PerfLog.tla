------------------------------- MODULE PerfLog -------------------------------
(***************************************************************************)
(* The profiling log of src/runtime/tools/common.py: logPerfData keeps     *)
(* samples in memory and registers _writeToPerfLog with atexit, which at   *)
(* process exit reads the profile file, appends the samples, writes the    *)
(* result to <profile>.<pid> and renames it over the profile.  Several     *)
(* harness processes given the same --profile run at once (one per test   *)
(* under a parallel build), and any of them can be killed at any point.    *)
(* The JSON array is modelled as the set of its samples.                   *)
(***************************************************************************)
EXTENDS Naturals, FiniteSets

CONSTANTS
  Procs,       \* harness processes sharing one --profile path
  MaxSamples,  \* samples a process logs at most
  Profile,     \* the path ARGS.profile
  Absent,      \* no file at a path
  Partial      \* a file opened for writing whose json.dump has not finished

\* A sample: the process that logged it and its number.
Samples == Procs \X (1..MaxSamples)

\* The temporary file a process writes: ARGS.profile + '.' + str(os.getpid()).
TmpName(p) == <<"tmp", p>>

\* The temporary name, profile + '.' + pid, is never the profile itself,
\* and no array of samples is an absent or half-written file.
ASSUME PerfLogAssumption ==
  /\ MaxSamples \in Nat
  /\ Profile \notin Procs /\ Absent # Partial
  /\ \A p \in Procs : TmpName(p) # Profile
  /\ \A S \in SUBSET Samples : Absent # S /\ Partial # S

Paths == {Profile} \cup {TmpName(p) : p \in Procs}

VARIABLES
  files,       \* path -> contents
  logged,      \* logged[p]: the module-level list logged_data
  registered,  \* registered[p]: _writeToPerfLog is registered with atexit
  obj,         \* obj[p]: what _writeToPerfLog read from the profile
  pc,          \* pc[p]: where process p is
  committed,   \* samples of processes whose rename completed (history)
  overlap,     \* two processes were ever inside _writeToPerfLog at once
  bareProfile  \* os.path.dirname(ARGS.profile) is '' (a bare file name)

vars == <<files, logged, registered, obj, pc, committed, overlap, bareProfile>>

Writing == {"ensure", "read", "open", "dump", "rename"}

Init ==
  /\ files = [f \in Paths |-> Absent]
  /\ logged = [p \in Procs |-> {}]
  /\ registered = [p \in Procs |-> FALSE]
  /\ obj = [p \in Procs |-> {}]
  /\ pc = [p \in Procs |-> "run"]
  /\ committed = {}
  /\ overlap = FALSE
  /\ bareProfile \in BOOLEAN

\* Process p enters the exit hook; the history notes whether another
\* process is in it too.
Enter(p) ==
  /\ pc' = [pc EXCEPT ![p] = "ensure"]
  /\ overlap' = (overlap \/ \E q \in Procs \ {p} : pc[q] \in Writing)

-----------------------------------------------------------------------------

\* logPerfData (and PerfTimer.__exit__): with --profile the sample is
\* appended to logged_data and the exit hook registered once.
LogPerfData(p) ==
  /\ pc[p] = "run" /\ Cardinality(logged[p]) < MaxSamples
  /\ logged' = [logged EXCEPT ![p] = @ \cup {<<p, Cardinality(@) + 1>>}]
  /\ registered' = [registered EXCEPT ![p] = TRUE]
  /\ UNCHANGED <<files, obj, pc, committed, overlap, bareProfile>>

\* The interpreter exits normally: the atexit hooks run.
Exit(p) ==
  /\ pc[p] = "run"
  /\ IF registered[p] THEN Enter(p)
                      ELSE pc' = [pc EXCEPT ![p] = "done"] /\ UNCHANGED overlap
  /\ UNCHANGED <<files, logged, registered, obj, committed, bareProfile>>

\* ensureDirPathExists(os.path.dirname(ARGS.profile)): os.makedirs of an
\* existing directory raises EEXIST, which is ignored; os.makedirs('') of
\* a bare file name raises ENOENT, which is re-raised, and the hook ends
\* with nothing written (atexit prints the traceback).
EnsureProfileDir(p) ==
  /\ pc[p] = "ensure"
  /\ pc' = [pc EXCEPT ![p] = IF bareProfile THEN "failed" ELSE "read"]
  /\ UNCHANGED <<files, logged, registered, obj, committed, overlap, bareProfile>>

\* Mutant: the old profile is not read back.
ReadIgnoringProfile(p) == {}

\* The samples json.load yields: nothing if the file is absent, and also
\* nothing if it does not parse (except Exception: pass).
ReadBack(p) == IF files[Profile] \in {Absent, Partial} THEN {} ELSE files[Profile]

ReadProfile(p) ==
  /\ pc[p] = "read"
  /\ obj' = [obj EXCEPT ![p] = ReadBack(p)]
  /\ pc' = [pc EXCEPT ![p] = "open"]
  /\ UNCHANGED <<files, logged, registered, committed, overlap, bareProfile>>

\* Mutant: the rename is done before the dump into the opened file.
AfterOpenRenaming(p) == "rename"

\* The with-block dumps into the file, and only then is it renamed.
AfterOpen(p) == "dump"

\* open(tmp_output_name, 'w') truncates the temporary file.
OpenTmp(p) ==
  /\ pc[p] = "open"
  /\ files' = [files EXCEPT ![TmpName(p)] = Partial]
  /\ pc' = [pc EXCEPT ![p] = AfterOpen(p)]
  /\ UNCHANGED <<logged, registered, obj, committed, overlap, bareProfile>>

\* json.dump(obj + logged_data, f) and the file is closed.
Dump(p) ==
  /\ pc[p] = "dump"
  /\ files' = [files EXCEPT ![TmpName(p)] = obj[p] \cup logged[p]]
  /\ pc' = [pc EXCEPT ![p] = "rename"]
  /\ UNCHANGED <<logged, registered, obj, committed, overlap, bareProfile>>

\* os.rename(tmp_output_name, ARGS.profile) replaces the profile at once;
\* renaming a file onto itself changes nothing.
Rename(p) ==
  /\ pc[p] = "rename"
  /\ files' = IF TmpName(p) = Profile THEN files
              ELSE [files EXCEPT ![Profile] = files[TmpName(p)],
                                 ![TmpName(p)] = Absent]
  /\ committed' = committed \cup logged[p]
  /\ pc' = [pc EXCEPT ![p] = "done"]
  /\ UNCHANGED <<logged, registered, obj, overlap, bareProfile>>

\* The process is killed (signal, ulimit -t): atexit hooks do not run and
\* whatever it has written stays on disk.
Kill(p) ==
  /\ pc[p] \in {"run"} \cup Writing
  /\ pc' = [pc EXCEPT ![p] = "killed"]
  /\ UNCHANGED <<files, logged, registered, obj, committed, overlap, bareProfile>>

Next ==
  \E p \in Procs :
    \/ LogPerfData(p) \/ Exit(p) \/ EnsureProfileDir(p) \/ ReadProfile(p) \/ OpenTmp(p)
    \/ Dump(p) \/ Rename(p) \/ Kill(p)

Spec == Init /\ [][Next]_vars

-----------------------------------------------------------------------------
(* Properties.                                                             *)

TypeOK ==
  /\ files \in [Paths -> {Absent, Partial} \cup SUBSET Samples]
  /\ logged \in [Procs -> SUBSET Samples]
  /\ registered \in [Procs -> BOOLEAN]
  /\ obj \in [Procs -> SUBSET Samples]
  /\ pc \in [Procs -> {"run", "done", "failed", "killed"} \cup Writing]
  /\ committed \subseteq Samples /\ overlap \in BOOLEAN
  /\ bareProfile \in BOOLEAN

\* spec.md section 6: the profile is written atomically through a temporary
\* file and a rename, so a reader never finds it half-written, whichever
\* process was killed while writing.
ProfileNeverPartial == files[Profile] # Partial

\* As long as no two processes ever ran their exit hooks at the same time,
\* every sample of every process whose exit hook completed is in the
\* profile, whichever other processes were killed, and wherever.
SerialKeepsSamples ==
  ~overlap => (files[Profile] \notin {Absent, Partial}
                 => committed \subseteq files[Profile])
              /\ (committed # {} => files[Profile] \notin {Absent, Partial})

\* spec.md section 6: the profile is an append-only array, so a sample
\* whose process wrote the profile stays in it.
NoLostSamples ==
  committed # {} => (files[Profile] \notin {Absent, Partial}
                       /\ committed \subseteq files[Profile])

=============================================================================
