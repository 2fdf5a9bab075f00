---------------------------- MODULE FileHostLog ----------------------------
(***************************************************************************)
(* FileHost with what its operator remembers, kept in history variables:   *)
(* two statements of the repository about a plugin's whole life, which the *)
(* code does not live up to.                                               *)
(***************************************************************************)
EXTENDS FileHost

VARIABLES
  readDone,  \* whether a read request was ever answered with success
  selected   \* the output format last selected by the operator

logVars == <<readDone, selected>>

LogInit ==
  /\ Init
  /\ readDone = FALSE
  /\ selected = PARQUET

LogNext ==
  \/ Step /\ UNCHANGED logVars
  \/ \E t \in Threads, status \in Statuses :
       /\ ReadFile(t, status)
       /\ readDone' = (readDone \/ status = "asynSuccess")
       /\ UNCHANGED selected
  \/ \E f \in FormatValues :
       /\ SetFormat(f)
       /\ selected' = f
       /\ UNCHANGED readDone

LogSpec == LogInit /\ [][LogNext]_<<vars, logVars>>
-----------------------------------------------------------------------------
(* "We don't support reading yet" (openFile): no read reports success.     *)
ReadingRefused == ~readDone

(* "Nothing extra needed beyond NDPluginBase_settings.req"                 *)
(* (NDFileArrow_settings.req): a restarted plugin writes the format the    *)
(* operator selected.                                                      *)
FormatSurvives == Running /\ fileFormat # NULL => fileFormat = selected
=============================================================================
