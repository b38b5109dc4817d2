------------------------- MODULE VerifyDriverProofs -------------------------
(***************************************************************************)
(* Proofs about the thread-pool verifier, for every number of test files  *)
(* and every pool size: the driver keeps its type and implements the      *)
(* sequential verifier of SequentialVerify.                                *)
(***************************************************************************)
EXTENDS VerifyDriver, TLAPS

USE VerifyDriverAssumption

\* The pool's bookkeeping: no job is on two workers, a running job's future
\* is still pending, and only a job taken off the queue has a result.
RunsEachOnceBounded ==
  /\ \A w, v \in Workers : (running[w] # 0 /\ w # v) => running[w] # running[v]
  /\ \A w \in Workers : running[w] # 0 => (w <= threads /\ fut[running[w]] = "pending")
  /\ \A i \in Files : fut[i] # "pending" => i <= taken

\* The inductive invariant: the type, the pool's bookkeeping, and a worker
\* runs only a job it has taken off the queue.
IInv ==
  /\ TypeOK
  /\ RunsEachOnceBounded
  /\ \A w \in Workers : running[w] <= taken

\* An element of a sequence is in the set the sequence is drawn from.
LEMMA SeqElement ==
  ASSUME NEW S, NEW s \in Seq(S), NEW j \in 1..Len(s)
  PROVE  s[j] \in S
OBVIOUS

LEMMA InitIInv == Init => IInv
BY DEF Init, IInv, TypeOK, RunsEachOnceBounded, Files, Workers

LEMMA NextIInv == IInv /\ [Next]_vars => IInv'
<1> SUFFICES ASSUME IInv, [Next]_vars PROVE IInv'
  OBVIOUS
<1> USE DEF IInv, TypeOK, RunsEachOnceBounded, Files, Workers, Outcome
<1>1. CASE Submit
  BY <1>1 DEF Submit
<1>2. CASE Collect
  <2> DEFINE i == Len(collected) + 1
  <2>1. i \in Files /\ fut[i] \in {"pass", "fail", "raise"}
    BY <1>2 DEF Collect
  <2>2. CASE fut[i] = "raise"
    BY <1>2, <2>2 DEF Collect
  <2>3. CASE fut[i] # "raise"
    <3>1. collected' = Append(collected, [file |-> i, verdict |-> fut[i]])
      BY <1>2, <2>3 DEF Collect
    <3>2. [file |-> i, verdict |-> fut[i]] \in [file : Files, verdict : {"pass", "fail"}]
      BY <2>1, <2>3
    <3>3. collected' \in Seq([file : Files, verdict : {"pass", "fail"}])
      BY <3>1, <3>2
    <3>4. QED
      BY <1>2, <2>3, <3>3 DEF Collect
  <2>4. QED
    BY <2>2, <2>3
<1>3. CASE Report
  <2>1. recorded' \subseteq Files
    <3>1. \A j \in 1..NF : collected[j] \in [file : Files, verdict : {"pass", "fail"}]
      <4>1. Len(collected) = NF
        BY <1>3 DEF Report
      <4>2. QED
        BY <4>1, SeqElement
    <3>2. \A j \in 1..NF : collected[j].file \in Files
      BY <3>1
    <3>3. QED
      BY <1>3, <3>2 DEF Report
  <2>2. QED
    BY <1>3, <2>1 DEF Report
<1>4. CASE ProcessExit
  BY <1>4 DEF ProcessExit
<1>5. ASSUME NEW w \in Workers, Pick(w) PROVE IInv'
  BY <1>5 DEF Pick
<1>6. ASSUME NEW w \in Workers, Complete(w) PROVE IInv'
  <2>1. PICK o \in Outcome : fut' = [fut EXCEPT ![running[w]] = o]
    BY <1>6 DEF Complete
  <2>2. running[w] \in Files
    BY <1>6 DEF Complete
  <2>3. TypeOK'
    BY <1>6, <2>1, <2>2 DEF Complete
  <2>4. RunsEachOnceBounded'
    BY <1>6, <2>1, <2>2 DEF Complete
  <2>5. QED
    BY <1>6, <2>3, <2>4 DEF Complete
<1>7. CASE UNCHANGED vars
  BY <1>7 DEF vars
<1>8. QED
  BY <1>1, <1>2, <1>3, <1>4, <1>5, <1>6, <1>7 DEF Next

\* The thread pool's state keeps its type whatever the number of tests and
\* the pool size: in particular no more than max_workers threads are ever
\* started, and only pass and fail results are collected (TypeOK).
THEOREM TypeCorrect == Spec => []TypeOK
<1>1. IInv => TypeOK
  BY DEF IInv
<1>2. QED
  BY <1>1, InitIInv, NextIInv, PTL DEF Spec

-----------------------------------------------------------------------------
(* Refinement.                                                             *)

LEMMA InitRefines == Init => Sequential!Init
BY DEF Init, Sequential!Init

LEMMA NextRefines ==
  IInv /\ [Next]_vars => [Sequential!Next]_Sequential!vars
<1> SUFFICES ASSUME IInv, [Next]_vars
             PROVE  [Sequential!Next]_Sequential!vars
  OBVIOUS
<1> USE DEF IInv, TypeOK, Files, Workers, Outcome
<1>1. CASE Submit
  BY <1>1 DEF Submit, Sequential!vars
<1>2. CASE Collect
  <2> DEFINE i == Len(collected) + 1
  <2>1. i \in Files /\ fut[i] \in {"pass", "fail", "raise"}
    BY <1>2 DEF Collect
  <2>2. CASE fut[i] = "raise"
    BY <1>2, <2>2 DEF Collect, Sequential!vars
  <2>3. CASE fut[i] # "raise"
    <3>1. fut[i] \in Sequential!Verdict
      BY <2>1, <2>3 DEF Sequential!Verdict
    <3>2. Sequential!Judge
      BY <1>2, <2>3, <3>1 DEF Collect, Sequential!Judge
    <3>3. QED
      BY <3>2 DEF Sequential!Next
  <2>4. QED
    BY <2>2, <2>3
<1>3. CASE Report
  <2>1. Sequential!Report
    BY <1>3 DEF Report, Sequential!Report
  <2>2. QED
    BY <2>1 DEF Sequential!Next
<1>4. CASE ProcessExit
  BY <1>4 DEF ProcessExit, Sequential!vars
<1>5. ASSUME NEW w \in Workers, Pick(w) PROVE UNCHANGED Sequential!vars
  BY <1>5 DEF Pick, Sequential!vars
<1>6. ASSUME NEW w \in Workers, Complete(w) PROVE UNCHANGED Sequential!vars
  BY <1>6 DEF Complete, Sequential!vars
<1>7. CASE UNCHANGED vars
  BY <1>7 DEF vars, Sequential!vars
<1>8. QED
  BY <1>1, <1>2, <1>3, <1>4, <1>5, <1>6, <1>7 DEF Next

\* Whatever the number of tests, the pool size and the order in which the
\* workers finish, the verifier takes the results in file order, records
\* the failures of exactly the tests that failed and exits with 1 exactly
\* when one did: it implements SequentialVerify (ImplementsSequential).
THEOREM Refinement == Spec => ImplementsSequential
<1>1. QED
  BY InitIInv, NextIInv, InitRefines, NextRefines, PTL
     DEF Spec, ImplementsSequential, Sequential!Spec
=============================================================================
