----------------------------- MODULE ArraySaver -----------------------------
(***************************************************************************)
(* What a file plugin promises its users.  A save concerns one array and   *)
(* one file; while it runs the file is unusable or holds the array, and    *)
(* when it is reported as successful the file holds the array.  No other   *)
(* file is touched, by a running save, by its failure or by the end of the *)
(* process.                                                                *)
(***************************************************************************)
CONSTANTS Threads, FileNames, NDArrays, NULL

VARIABLES
  saving,   \* the save each thread is running: its file and its array
  files,    \* the array that can be read back from each file, or NULL
  reported  \* the array each file was last reported to hold, or NULL

vars == <<saving, files, reported>>

Saves == [name : FileNames, array : NDArrays]

TypeOK ==
  /\ saving \in [Threads -> Saves \cup {NULL}]
  /\ files \in [FileNames -> NDArrays \cup {NULL}]
  /\ reported \in [FileNames -> NDArrays \cup {NULL}]

Init ==
  /\ saving = [t \in Threads |-> NULL]
  /\ files = [n \in FileNames |-> NULL]
  /\ reported = [n \in FileNames |-> NULL]

(* Two saves at a time have different files. *)
Begin(t, n, a) ==
  /\ saving[t] = NULL
  /\ \A u \in Threads : saving[u] # NULL => saving[u].name # n
  /\ saving' = [saving EXCEPT ![t] = [name |-> n, array |-> a]]
  /\ files' = [files EXCEPT ![n] = NULL]
  /\ reported' = [reported EXCEPT ![n] = NULL]

(* What a running save may do to its file. *)
Touch(t) ==
  /\ saving[t] # NULL
  /\ \E c \in {NULL, saving[t].array} : files' = [files EXCEPT ![saving[t].name] = c]

Progress(t) == Touch(t) /\ UNCHANGED <<saving, reported>>

Succeed(t) ==
  /\ saving[t] # NULL
  /\ files[saving[t].name] = saving[t].array
  /\ saving' = [saving EXCEPT ![t] = NULL]
  /\ reported' = [reported EXCEPT ![saving[t].name] = saving[t].array]
  /\ UNCHANGED files

Fail(t) ==
  /\ Touch(t)
  /\ saving' = [saving EXCEPT ![t] = NULL]
  /\ UNCHANGED reported

(* The process ends: every save is over, the files of some are touched. *)
End ==
  /\ saving' = [t \in Threads |-> NULL]
  /\ files' \in [FileNames -> NDArrays \cup {NULL}]
  /\ \A n \in FileNames :
       files'[n] # files[n] =>
         \E t \in Threads :
           saving[t] # NULL /\ saving[t].name = n /\ files'[n] \in {NULL, saving[t].array}
  /\ UNCHANGED reported

Next ==
  \/ \E t \in Threads, n \in FileNames, a \in NDArrays : Begin(t, n, a)
  \/ \E t \in Threads : Progress(t) \/ Succeed(t) \/ Fail(t)
  \/ End

Spec == Init /\ [][Next]_vars

(* A file reported to hold an array gives it to every reader. *)
ReportedReadable ==
  \A n \in FileNames : reported[n] # NULL => files[n] = reported[n]
=============================================================================
