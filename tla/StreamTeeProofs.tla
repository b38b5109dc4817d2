-------------------------- MODULE StreamTeeProofs ---------------------------
(***************************************************************************)
(* Proof that the capture file is complete once the tee has been joined,  *)
(* for every number of chunks and every pipe capacity.                     *)
(***************************************************************************)
EXTENDS StreamTee, SequenceTheorems, TLAPS

USE StreamTeeAssumption

\* The first k chunks the test prints.
Prefix(k) == [i \in 1..k |-> i]

\* The chunk the tee has read and not yet written to the capture file.
InHand == IF tee \in {"w1", "w2"} THEN <<held>> ELSE <<>>

\* While the tee runs, every chunk written so far is, in order, in the
\* capture file, in the tee's hands or in the pipe: nothing is lost,
\* duplicated or reordered.
Flow == tee # "done" => file \o InHand \o pipe = Prefix(written)

IInv ==
  /\ TypeOK
  /\ Flow
  /\ tee \in {"w1", "w2"} => held \in 1..N
  /\ (tee = "done" /\ consoleOk) => file = Output
  /\ proc = "exited" => written = N
  /\ harness # "wait" => proc = "exited"
  /\ harness \in {"dump", "done"} => tee = "done"

LEMMA PrefixType == \A k \in 0..N : Prefix(k) \in Seq(1..N) /\ Len(Prefix(k)) = k
BY DEF Prefix

LEMMA PrefixAppend ==
  \A k \in 0..(N - 1) : Prefix(k + 1) = Append(Prefix(k), k + 1)
BY DEF Prefix

\* Appending to the pipe appends to the whole flow.
LEMMA FlowAppend ==
  ASSUME NEW f \in Seq(1..N), NEW h \in Seq(1..N), NEW p \in Seq(1..N),
         NEW x \in 1..N
  PROVE  f \o h \o Append(p, x) = Append(f \o h \o p, x)
BY AppendIsConcat, ConcatAssociative, ConcatProperties

\* Moving the head of the pipe into the tee's hands leaves the flow as is.
LEMMA FlowRead ==
  ASSUME NEW f \in Seq(1..N), NEW p \in Seq(1..N), p # <<>>
  PROVE  f \o <<Head(p)>> \o Tail(p) = f \o p
<1>1. <<Head(p)>> \o Tail(p) = p
  BY HeadTailProperties, ConcatProperties
<1>2. QED
  BY <1>1, ConcatAssociative, HeadTailProperties

\* Writing the chunk in hand to the file leaves the flow as is.
LEMMA FlowWrite ==
  ASSUME NEW f \in Seq(1..N), NEW p \in Seq(1..N), NEW x \in 1..N
  PROVE  Append(f, x) \o <<>> \o p = f \o <<x>> \o p
BY AppendIsConcat, ConcatEmptySeq, ConcatProperties

LEMMA InHandType == IInv => InHand \in Seq(1..N)
<1> SUFFICES ASSUME IInv PROVE InHand \in Seq(1..N)
  OBVIOUS
<1>1. CASE tee \in {"w1", "w2"}
  <2>1. held \in 1..N
    BY <1>1 DEF IInv
  <2>2. <<held>> \in Seq(1..N)
    BY <2>1
  <2>3. QED
    BY <1>1, <2>2 DEF InHand
<1>2. CASE tee \notin {"w1", "w2"}
  BY <1>2 DEF InHand
<1>3. QED
  BY <1>1, <1>2

LEMMA Inductive == IInv /\ [Next]_vars => IInv'
<1> SUFFICES ASSUME IInv, [Next]_vars PROVE IInv'
  OBVIOUS
<1> USE DEF IInv, TypeOK
<1>1. CASE ProcWrite
  <2>1. written + 1 \in 1..N /\ Prefix(written + 1) = Append(Prefix(written), written + 1)
    BY <1>1, PrefixAppend DEF ProcWrite
  <2>2. pipe' \in Seq(1..N) /\ Len(pipe') <= PipeCap
    BY <1>1, <2>1, AppendProperties DEF ProcWrite
  <2>3. Flow'
    <3>1. CASE tee # "done"
      <4>1. InHand \in Seq(1..N) /\ InHand' = InHand
        BY <1>1, InHandType DEF InHand, ProcWrite
      <4>2. file \in Seq(1..N) /\ pipe \in Seq(1..N)
        OBVIOUS
      <4>3. file \o InHand \o Append(pipe, written + 1)
              = Append(file \o InHand \o pipe, written + 1)
        <5>1. written + 1 \in 1..N
          BY <2>1
        <5>2. PICK h \in Seq(1..N) : h = InHand
          BY <4>1
        <5>3. file \o h \o Append(pipe, written + 1)
                = Append(file \o h \o pipe, written + 1)
          BY ONLY <4>2, <5>1, <5>2, FlowAppend, Zenon
        <5>4. QED
          BY <5>2, <5>3
      <4>4. file \o InHand \o pipe = Prefix(written)
        BY <3>1 DEF Flow
      <4>5. file' \o InHand' \o pipe' = Prefix(written')
        BY <1>1, <2>1, <4>1, <4>3, <4>4 DEF ProcWrite
      <4>6. QED
        BY <4>5 DEF Flow
    <3>2. CASE tee = "done"
      BY <1>1, <3>2 DEF Flow, ProcWrite
    <3>3. QED
      BY <3>1, <3>2
  <2>4. QED
    BY <1>1, <2>1, <2>2, <2>3 DEF ProcWrite
<1>2. CASE ProcExit
  BY <1>2 DEF ProcExit, Flow, InHand
<1>3. CASE TeeRead
  <2>1. CASE pipe # <<>>
    <3>1. Head(pipe) \in 1..N /\ Tail(pipe) \in Seq(1..N)
          /\ Len(Tail(pipe)) <= PipeCap
      BY <2>1, HeadTailProperties
    <3>2. file \o <<Head(pipe)>> \o Tail(pipe) = file \o pipe
      BY <2>1, FlowRead
    <3>3. file \o InHand \o pipe = file \o pipe
      BY <1>3, ConcatEmptySeq DEF TeeRead, InHand
    <3>0. /\ held' = Head(pipe) /\ pipe' = Tail(pipe) /\ tee' = "w1"
          /\ UNCHANGED <<written, proc, console, file, consoleOk, harness>>
      BY <1>3, <2>1 DEF TeeRead, AtEof
    <3>4. InHand' = <<Head(pipe)>>
      BY <3>0 DEF InHand
    <3>5. file \o InHand \o pipe = Prefix(written)
      BY <1>3 DEF Flow, TeeRead
    <3>6. file' \o InHand' \o pipe' = Prefix(written')
      BY <3>0, <3>2, <3>3, <3>4, <3>5
    <3>7. Flow'
      BY <3>6 DEF Flow
    <3>8. TypeOK'
      BY <3>0, <3>1
    <3>9. QED
      BY <1>3, <3>0, <3>1, <3>7, <3>8 DEF TeeRead
  <2>2. CASE pipe = <<>>
    <3>1. AtEof /\ tee' = "done" /\ UNCHANGED <<held, pipe>>
      BY <1>3, <2>2 DEF TeeRead
    <3>2. file \o InHand \o pipe = file
      BY <1>3, <2>2, ConcatEmptySeq DEF TeeRead, InHand
    <3>3. file = Output
      BY <1>3, <3>1, <3>2 DEF AtEof, Flow, Output, Prefix, TeeRead
    <3>4. QED
      BY <1>3, <3>1, <3>3 DEF TeeRead, Flow
  <2>3. QED
    BY <2>1, <2>2
<1>4. CASE TeeWriteConsole
  <2>1. CASE consoleOk
    <3>0. held \in 1..N
      BY <1>4 DEF TeeWriteConsole
    <3>a. /\ console' = Append(console, held) /\ tee' = "w2"
          /\ UNCHANGED <<written, proc, pipe, held, file, consoleOk, harness>>
      BY <1>4, <2>1, Zenon DEF TeeWriteConsole
    <3>b. InHand' = InHand
      BY <1>4, <3>a DEF TeeWriteConsole, InHand
    <3>1. console' \in Seq(1..N) /\ tee' = "w2" /\ InHand' = InHand
      BY <3>0, <3>a, <3>b, AppendProperties
    <3>2. QED
      BY <1>4, <2>1, <3>1 DEF TeeWriteConsole, Flow
  <2>2. CASE ~consoleOk
    BY <1>4, <2>2 DEF TeeWriteConsole, Flow
  <2>3. QED
    BY <2>1, <2>2
<1>5. CASE TeeWriteFile
  <2>1. file' \in Seq(1..N)
    BY <1>5, AppendProperties DEF TeeWriteFile
  <2>2. Append(file, held) \o <<>> \o pipe = file \o <<held>> \o pipe
    BY <1>5, FlowWrite DEF TeeWriteFile
  <2>3. Flow'
    BY <1>5, <2>2 DEF TeeWriteFile, Flow, InHand
  <2>4. QED
    BY <1>5, <2>1, <2>3 DEF TeeWriteFile
<1>6. CASE ConsoleCloses
  BY <1>6 DEF ConsoleCloses, Flow, InHand
<1>7. CASE HarnessWait
  BY <1>7 DEF HarnessWait, Flow, InHand
<1>8. CASE HarnessJoin
  BY <1>8 DEF HarnessJoin, Flow, InHand
<1>9. CASE HarnessDump
  BY <1>9 DEF HarnessDump, Flow, InHand
<1>10. CASE UNCHANGED vars
  BY <1>10 DEF vars, Flow, InHand
<1>11. QED
  BY <1>1, <1>2, <1>3, <1>4, <1>5, <1>6, <1>7, <1>8, <1>9, <1>10 DEF Next

LEMMA InitIInv == Init => IInv
BY DEF Init, IInv, TypeOK, Flow, InHand, Prefix

\* Whatever the number of chunks and the pipe's capacity, the pipe never
\* holds more than its capacity (the test's write blocks on a full pipe)
\* and every chunk in it, in the tee's hands or in either copy is one the
\* test printed (TypeOK).
THEOREM TypeCorrect == Spec => []TypeOK
<1>1. IInv => TypeOK
  BY DEF IInv
<1>2. QED
  BY <1>1, InitIInv, Inductive, PTL DEF Spec

\* Whatever the number of chunks and the pipe's capacity, once the harness
\* has joined the tee and goes on to write the ledger record, the .out file
\* holds the test's whole output in order, unless the harness's stdout has
\* stopped accepting writes (CapturedWhenJoined).
THEOREM CaptureTheorem == Spec => []CapturedWhenJoined
<1>1. IInv => CapturedWhenJoined
  BY DEF IInv, CapturedWhenJoined
<1>2. QED
  BY <1>1, InitIInv, Inductive, PTL DEF Spec
=============================================================================
