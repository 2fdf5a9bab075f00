-------------------------- MODULE ArraySaver_proofs --------------------------
(* That the promise of module ArraySaver is worth having: for any threads, *)
(* files and arrays, what was reported as saved can be read back.          *)
EXTENDS ArraySaver, TLAPS

Busy(t, n) == saving[t] # NULL /\ saving[t].name = n

(* Saves under way have different files, and none is reported. *)
Exclusive ==
  /\ \A t, u \in Threads, n \in FileNames : Busy(t, n) /\ Busy(u, n) => t = u
  /\ \A t \in Threads, n \in FileNames : Busy(t, n) => reported[n] = NULL

Inv == TypeOK /\ Exclusive /\ ReportedReadable

(* A save may do to its own file what it likes. *)
LEMMA TouchReadable ==
  ASSUME Inv, NEW t \in Threads, Touch(t), UNCHANGED reported
  PROVE  ReportedReadable' /\ files' \in [FileNames -> NDArrays \cup {NULL}]
  <1>1. saving[t].name \in FileNames /\ saving[t].array \in NDArrays
        /\ Busy(t, saving[t].name)
    BY DEF Inv, TypeOK, Saves, Touch, Busy
  <1>2. reported[saving[t].name] = NULL
    BY <1>1 DEF Inv, Exclusive
  <1> QED
    BY <1>1, <1>2 DEF Inv, TypeOK, Touch, ReportedReadable

(* A save that ends leaves the others as they were. *)
LEMMA EndExclusive ==
  ASSUME Inv, NEW t \in Threads, saving' = [saving EXCEPT ![t] = NULL]
  PROVE  /\ saving' \in [Threads -> Saves \cup {NULL}]
         /\ \A u \in Threads, n \in FileNames : Busy(u, n)' => Busy(u, n) /\ u # t
  BY DEF Inv, TypeOK, Busy

(* A report can be relied upon until the file is saved to again: what      *)
(* openFile, writeFile and closeFile are to keep between them.             *)
THEOREM Readable == Spec => []ReportedReadable
  <1>1. Init => Inv
    BY DEF Init, Inv, TypeOK, Exclusive, Busy, ReportedReadable
  <1>2. Inv /\ [Next]_vars => Inv'
    <2> SUFFICES ASSUME Inv, [Next]_vars PROVE Inv'
      OBVIOUS
    <2>1. ASSUME NEW t \in Threads, NEW n \in FileNames, NEW a \in NDArrays, Begin(t, n, a)
          PROVE  Inv'
      <3>1. TypeOK' /\ ReportedReadable'
        BY <2>1 DEF Inv, TypeOK, Saves, Begin, ReportedReadable
      <3>2. \A m \in FileNames : Busy(t, m)' => m = n
        BY <2>1 DEF Inv, TypeOK, Begin, Busy
      <3>3. \A u \in Threads, m \in FileNames : u # t => (Busy(u, m)' <=> Busy(u, m))
        BY <2>1 DEF Inv, TypeOK, Begin, Busy
      <3>4. \A u \in Threads : ~Busy(u, n)
        BY <2>1 DEF Begin, Busy
      <3>5. reported'[n] = NULL /\ \A m \in FileNames : m # n => reported'[m] = reported[m]
        BY <2>1 DEF Inv, TypeOK, Begin
      <3>6. Exclusive'
        BY <3>2, <3>3, <3>4, <3>5 DEF Inv, Exclusive
      <3> QED
        BY <3>1, <3>6 DEF Inv
    <2>2. ASSUME NEW t \in Threads, Progress(t) PROVE Inv'
      BY <2>2, TouchReadable DEF Inv, Progress, TypeOK, Exclusive, Busy
    <2>3. ASSUME NEW t \in Threads, Fail(t) PROVE Inv'
      BY <2>3, TouchReadable, EndExclusive DEF Inv, Fail, TypeOK, Exclusive
    <2>4. ASSUME NEW t \in Threads, Succeed(t) PROVE Inv'
      <3>1. PICK n \in FileNames : /\ n = saving[t].name /\ Busy(t, n)
                                    /\ saving[t].array \in NDArrays
        BY <2>4 DEF Inv, TypeOK, Saves, Succeed, Busy
      <3>2. TypeOK' /\ ReportedReadable'
        BY <2>4, <3>1, EndExclusive DEF Inv, TypeOK, Succeed, ReportedReadable
      <3>3. ASSUME NEW u \in Threads, Busy(u, n)' PROVE FALSE
        <4>1. saving' = [saving EXCEPT ![t] = NULL]
          BY <2>4 DEF Succeed
        <4>2. Busy(u, n) /\ u # t
          BY <3>3, <4>1, EndExclusive
        <4> QED
          BY <3>1, <4>2 DEF Inv, Exclusive
      <3>4. \A m \in FileNames : m # n => reported'[m] = reported[m]
        BY <2>4, <3>1 DEF Inv, TypeOK, Succeed
      <3>5. Exclusive'
        <4>1. \A u \in Threads, m \in FileNames : Busy(u, m)' => Busy(u, m) /\ m # n
          BY <2>4, <3>3, EndExclusive DEF Succeed
        <4> QED
          BY <3>4, <4>1 DEF Inv, Exclusive
      <3> QED
        BY <3>2, <3>5 DEF Inv
    <2>5. CASE End
      <3>1. TypeOK' /\ Exclusive'
        BY <2>5 DEF Inv, TypeOK, End, Exclusive, Busy
      <3>2. ReportedReadable'
        <4>1. ASSUME NEW n \in FileNames, files'[n] # files[n] PROVE reported[n] = NULL
          BY <2>5, <4>1 DEF End, Inv, Exclusive, Busy
        <4> QED
          BY <2>5, <4>1 DEF End, Inv, ReportedReadable
      <3> QED
        BY <3>1, <3>2 DEF Inv
    <2>6. CASE UNCHANGED vars
      BY <2>6 DEF vars, Inv, TypeOK, Exclusive, Busy, ReportedReadable
    <2> QED
      BY <2>1, <2>2, <2>3, <2>4, <2>5, <2>6 DEF Next
  <1>3. Inv => ReportedReadable
    BY DEF Inv
  <1> QED
    BY <1>1, <1>2, <1>3, PTL DEF Spec
=============================================================================
