---------------------------- MODULE PerfLogProofs ----------------------------
(***************************************************************************)
(* Proofs about the profiling log of common.py (_writeToPerfLog), for      *)
(* every set of processes and every number of samples: the profile is     *)
(* never found half-written, and while exit hooks do not overlap no       *)
(* committed sample is lost, whoever is killed and where.                 *)
(***************************************************************************)
EXTENDS PerfLog, FiniteSetTheorems, TLAPS

USE PerfLogAssumption

\* The paths of the model are distinct: one temporary file per process.
Distinct == \A p, q \in Procs : TmpName(p) = TmpName(q) => p = q

\* The exit hooks of two different processes are never running at once.
Exclusive == \A p, q \in Procs : pc[p] \in Writing /\ pc[q] \in Writing => p = q

\* The inductive invariant.  ProfileNeverPartial needs that a temporary
\* file about to be renamed holds the dumped array; SerialKeepsSamples
\* needs, while no hooks overlapped, that only one hook runs at a time and
\* that what a running hook read is still what the profile holds.
IInv ==
  /\ TypeOK
  /\ \A p \in Procs : IsFiniteSet(logged[p])
  /\ ProfileNeverPartial
  /\ \A p \in Procs : pc[p] = "rename" => files[TmpName(p)] = obj[p] \cup logged[p]
  /\ ~overlap =>
       /\ Exclusive
       /\ \A p \in Procs : pc[p] \in {"open", "dump", "rename"} => obj[p] = ReadBack(p)
       /\ SerialKeepsSamples

-----------------------------------------------------------------------------
(* Lemmas about the paths and the samples.                                 *)

LEMMA DistinctPaths == Distinct
  BY DEF Distinct, TmpName

LEMMA TmpInPaths == (\A p \in Procs : TmpName(p) \in Paths) /\ Profile \in Paths
  BY DEF Paths

\* What json.load yields is an array of samples, whatever is on disk.
LEMMA ReadBackType ==
  ASSUME TypeOK, NEW p \in Procs
  PROVE  ReadBack(p) \in SUBSET Samples
  BY TmpInPaths DEF TypeOK, ReadBack

-----------------------------------------------------------------------------

LEMMA InitIInv == Init => IInv
<1> SUFFICES ASSUME Init PROVE IInv
  OBVIOUS
<1>1. IsFiniteSet({})
  BY FS_EmptySet
<1>2. TypeOK
  BY DEF Init, TypeOK
<1>3. QED
  BY <1>1, <1>2, TmpInPaths
     DEF Init, IInv, ProfileNeverPartial, Exclusive, SerialKeepsSamples, Writing

LEMMA NextIInv == IInv /\ [Next]_vars => IInv'
<1> SUFFICES ASSUME IInv, [Next]_vars PROVE IInv'
  OBVIOUS
<1>0. /\ TypeOK
      /\ \A p \in Procs : IsFiniteSet(logged[p])
      /\ ProfileNeverPartial
      /\ \A p \in Procs : pc[p] = "rename" => files[TmpName(p)] = obj[p] \cup logged[p]
      /\ ~overlap => Exclusive
      /\ ~overlap => \A p \in Procs : pc[p] \in {"open", "dump", "rename"} => obj[p] = ReadBack(p)
      /\ ~overlap => SerialKeepsSamples
  BY DEF IInv
<1>1. ASSUME NEW p \in Procs, LogPerfData(p) PROVE IInv'
  <2>1. Cardinality(logged[p]) \in Nat
    BY <1>0, FS_CardinalityType
  <2>2. <<p, Cardinality(logged[p]) + 1>> \in Samples
    BY <1>1, <2>1 DEF LogPerfData, Samples
  <2>3. IsFiniteSet(logged'[p])
    BY <1>0, <1>1, FS_AddElement DEF LogPerfData, TypeOK
  <2>4. TypeOK'
    BY <1>0, <1>1, <2>2 DEF LogPerfData, TypeOK
  <2>5. \A q \in Procs : IsFiniteSet(logged'[q])
    BY <1>0, <1>1, <2>3 DEF LogPerfData, TypeOK
  <2>6. UNCHANGED <<files, obj, pc, committed, overlap, bareProfile>>
    BY <1>1 DEF LogPerfData
  <2>7. \A q \in Procs : pc[q] = "rename" => logged'[q] = logged[q]
    <3> SUFFICES ASSUME NEW q \in Procs, pc[q] = "rename" PROVE logged'[q] = logged[q]
      OBVIOUS
    <3>1. q # p
      BY <1>1 DEF LogPerfData
    <3>2. QED
      BY <1>0, <1>1, <3>1 DEF LogPerfData, TypeOK
  <2>8. QED
    BY <1>0, <2>4, <2>5, <2>6, <2>7
       DEF IInv, ProfileNeverPartial, Exclusive, SerialKeepsSamples, ReadBack
<1>2. ASSUME NEW p \in Procs, Exit(p) PROVE IInv'
  <2>1. CASE registered[p]
    <3>2. overlap' = (overlap \/ \E q \in Procs \ {p} : pc[q] \in Writing)
      BY <1>2, <2>1 DEF Exit, Enter
    <3>3. pc' = [pc EXCEPT ![p] = "ensure"]
      BY <1>2, <2>1 DEF Exit, Enter
    <3>4. UNCHANGED <<files, logged, registered, obj, committed, bareProfile>>
      BY <1>2 DEF Exit
    <3>5. ~overlap' => Exclusive'
      BY <1>0, <3>2, <3>3 DEF Exclusive, Writing, TypeOK
    <3>6. QED
      BY <1>0, <3>2, <3>3, <3>4, <3>5
         DEF IInv, TypeOK, ProfileNeverPartial, SerialKeepsSamples, ReadBack, Writing
  <2>7. CASE ~registered[p]
    BY <1>0, <1>2, <2>7
       DEF Exit, IInv, TypeOK, ProfileNeverPartial, Exclusive, SerialKeepsSamples,
           ReadBack, Writing
  <2>8. QED
    BY <2>1, <2>7
<1>3. ASSUME NEW p \in Procs, ReadProfile(p) PROVE IInv'
  <2>1. ReadBack(p) \in SUBSET Samples
    BY <1>0, ReadBackType
  <2>2. QED
    BY <1>0, <1>3, <2>1
       DEF ReadProfile, IInv, TypeOK, ProfileNeverPartial, Exclusive,
           SerialKeepsSamples, ReadBack, Writing
<1>4. ASSUME NEW p \in Procs, OpenTmp(p) PROVE IInv'
  <2>1. files'[Profile] = files[Profile]
    BY <1>0, <1>4, TmpInPaths DEF OpenTmp, TypeOK
  <2>2. \A q \in Procs \ {p} : files'[TmpName(q)] = files[TmpName(q)]
    BY <1>0, <1>4, DistinctPaths, TmpInPaths DEF OpenTmp, TypeOK, Distinct
  <2>3. TypeOK'
    BY <1>0, <1>4, TmpInPaths DEF OpenTmp, TypeOK, AfterOpen, Writing
  <2>4. QED
    BY <1>0, <1>4, <2>1, <2>2, <2>3
       DEF OpenTmp, AfterOpen, IInv, ProfileNeverPartial, Exclusive,
           SerialKeepsSamples, ReadBack, Writing
<1>5. ASSUME NEW p \in Procs, Dump(p) PROVE IInv'
  <2>1. files'[Profile] = files[Profile]
    BY <1>0, <1>5, TmpInPaths DEF Dump, TypeOK
  <2>2. \A q \in Procs \ {p} : files'[TmpName(q)] = files[TmpName(q)]
    BY <1>0, <1>5, DistinctPaths, TmpInPaths DEF Dump, TypeOK, Distinct
  <2>3. files'[TmpName(p)] = obj[p] \cup logged[p]
    BY <1>0, <1>5, TmpInPaths DEF Dump, TypeOK
  <2>4. TypeOK'
    BY <1>0, <1>5, TmpInPaths DEF Dump, TypeOK, Writing
  <2>5. QED
    BY <1>0, <1>5, <2>1, <2>2, <2>3, <2>4
       DEF Dump, IInv, ProfileNeverPartial, Exclusive,
           SerialKeepsSamples, ReadBack, Writing
<1>6. ASSUME NEW p \in Procs, Rename(p) PROVE IInv'
  <2>1. files[TmpName(p)] = obj[p] \cup logged[p]
    BY <1>0, <1>6 DEF Rename
  <2>2. files' = [files EXCEPT ![Profile] = obj[p] \cup logged[p], ![TmpName(p)] = Absent]
    BY <1>6, <2>1 DEF Rename
  <2>3. obj[p] \cup logged[p] \in SUBSET Samples
    BY <1>0 DEF TypeOK
  <2>4. files'[Profile] = obj[p] \cup logged[p]
    BY <1>0, <2>2, TmpInPaths DEF TypeOK
  <2>5. \A q \in Procs \ {p} : files'[TmpName(q)] = files[TmpName(q)]
    BY <1>0, <2>2, DistinctPaths, TmpInPaths DEF TypeOK, Distinct
  <2>6. ProfileNeverPartial'
    BY <2>3, <2>4 DEF ProfileNeverPartial
  <2>7. TypeOK'
    BY <1>0, <1>6, <2>2, <2>3, TmpInPaths DEF Rename, TypeOK, Writing
  <2>8. \A q \in Procs : pc'[q] = "rename" => files'[TmpName(q)] = obj'[q] \cup logged'[q]
    BY <1>0, <1>6, <2>5 DEF Rename, TypeOK
  <2>9. ~overlap' => Exclusive'
    BY <1>0, <1>6 DEF Rename, Exclusive, Writing, TypeOK
  <2>10. ~overlap' => \A q \in Procs : pc'[q] \in {"open", "dump", "rename"} => obj'[q] = ReadBack(q)'
    BY <1>0, <1>6 DEF Rename, Exclusive, Writing, TypeOK
  <2>11. ~overlap' => SerialKeepsSamples'
    <3> SUFFICES ASSUME ~overlap' PROVE SerialKeepsSamples'
      OBVIOUS
    <3>1. obj[p] = ReadBack(p) /\ SerialKeepsSamples /\ ~overlap
      BY <1>0, <1>6 DEF Rename
    <3>2. committed \subseteq obj[p]
      BY <1>0, <3>1 DEF ReadBack, SerialKeepsSamples, ProfileNeverPartial
    <3>3. committed' = committed \cup logged[p]
      BY <1>6 DEF Rename
    <3>4. QED
      BY <2>3, <2>4, <3>2, <3>3 DEF SerialKeepsSamples
  <2>12. QED
    BY <1>0, <1>6, <2>6, <2>7, <2>8, <2>9, <2>10, <2>11 DEF Rename, IInv
<1>7. ASSUME NEW p \in Procs, Kill(p) PROVE IInv'
  BY <1>0, <1>7
     DEF Kill, IInv, TypeOK, ProfileNeverPartial, Exclusive, SerialKeepsSamples,
         ReadBack, Writing
<1>9. ASSUME NEW p \in Procs, EnsureProfileDir(p) PROVE IInv'
  BY <1>0, <1>9
     DEF EnsureProfileDir, IInv, TypeOK, ProfileNeverPartial, Exclusive,
         SerialKeepsSamples, ReadBack, Writing
<1>8. CASE UNCHANGED vars
  BY <1>0, <1>8
     DEF vars, IInv, TypeOK, ProfileNeverPartial, Exclusive, SerialKeepsSamples, ReadBack
<1>10. QED
  BY <1>1, <1>2, <1>3, <1>4, <1>5, <1>6, <1>7, <1>8, <1>9 DEF Next

LEMMA IInvHolds == Spec => []IInv
  BY InitIInv, NextIInv, PTL DEF Spec

-----------------------------------------------------------------------------
(* Theorems.                                                               *)

\* The temporary file and the rename of _writeToPerfLog keep every reader
\* from finding a half-written profile, for any number of processes killed
\* anywhere.
THEOREM NeverPartial == Spec => []ProfileNeverPartial
  BY IInvHolds, PTL DEF IInv

\* While the exit hooks of the processes sharing a profile never overlap,
\* every sample of a process whose hook completed is in the profile, for
\* any number of processes and samples, whoever is killed and where.
THEOREM SerialSafety == Spec => []SerialKeepsSamples
  <1>1. IInv => SerialKeepsSamples
    BY DEF IInv, SerialKeepsSamples
  <1>2. QED
    BY IInvHolds, <1>1, PTL

=============================================================================
