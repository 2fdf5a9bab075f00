------------------------------ MODULE FileHost ------------------------------
(***************************************************************************)
(* NDFileArrow driven by its base class.  NDPluginFile (areaDetector, not  *)
(* part of this repository) saves each array with a call of openFile, one  *)
(* of writeFile and one of closeFile, because the constructor sets         *)
(* supportsMultipleArrays to 0.  The calls come from the maxThreads plugin *)
(* threads the constructor asks for and from the port's thread.  One call  *)
(* runs at a time; between two calls of a thread, others may run theirs.   *)
(***************************************************************************)
EXTENDS NDFileArrow, FiniteSets

CONSTANTS
  Threads,       \* the threads that call the plugin
  OpenModes,     \* sets of NDFileOpenMode_t flags files are opened with
  FormatValues,  \* values written to the ARROW_FILE_FORMAT parameter
  Faults         \* whether the file system may fail and the process be killed

ASSUME HostAssumption ==
  /\ OpenModes \subseteq SUBSET {"Read", "Write", "Append", "Multiple"}
  /\ FormatValues \subseteq Int /\ NULL \notin FormatValues \cup FileFormats
  /\ IsFiniteSet(Threads)
  /\ Faults \in BOOLEAN

VARIABLES
  job,       \* the save each thread is in the middle of, or NULL
  reported   \* history: the array each file was last reported to hold, if
             \* its save was alone

hostVars == <<job, reported>>

vars == <<pluginVars, fsOK, hostVars>>

(* Of a save is also known, as history, whether it is alone, no other save *)
(* being under way at any time since it began, and if so the values the    *)
(* format parameter has had from its openFile to its writeFile.            *)
Formats == FormatValues \cup {PARQUET, NULL}

Jobs == [phase : {"opened", "written", "failed"}, name : FileNames, array : NDArrays,
         alone : BOOLEAN, formats : SUBSET Formats]

NoJobs == [t \in Threads |-> NULL]

Running == process = "running"

InPhase(t, phases) == job[t] # NULL /\ job[t].phase \in phases

Init ==
  /\ NDFileArrow
  /\ fsOK = TRUE
  /\ disk = [n \in FileNames |-> <<>>]
  /\ job = NoJobs
  /\ reported = [n \in FileNames |-> NULL]

(* The saves once thread t has begun one: no other is alone any more. *)
JobsWith(t, n, a) ==
  LET alone == job = NoJobs
  IN  [u \in Threads |->
         IF u = t THEN [phase |-> "opened", name |-> n, array |-> a, alone |-> alone,
                        formats |-> IF alone THEN {fileFormat} ELSE {}]
         ELSE IF job[u] = NULL THEN NULL
         ELSE [job[u] EXCEPT !.alone = FALSE, !.formats = {}]]

(* openFileBase: the first call of a save. *)
OpenFile(t, n, mode, a) ==
  /\ Running /\ job[t] = NULL
  /\ \/ /\ openFile(n, mode, a, "asynSuccess")
        /\ job' = JobsWith(t, n, a)
        /\ reported' = [reported EXCEPT ![n] = NULL]
     \/ /\ openFile(n, mode, a, "asynError")
        /\ UNCHANGED <<job, reported>>
  /\ UNCHANGED fsOK

(* The second call.  After an error the host may leave the stream open or  *)
(* go on to close it; the code under src/ is written for either.           *)
WriteFile(t) ==
  /\ Running /\ InPhase(t, {"opened"})
  /\ \/ /\ writeFile(job[t].array, "asynSuccess")
        /\ job' = [job EXCEPT ![t].phase = "written"]
     \/ /\ writeFile(job[t].array, "asynError")
        /\ \/ job' = [job EXCEPT ![t].phase = "failed"]
           \/ job' = [job EXCEPT ![t] = NULL]
  /\ UNCHANGED <<fsOK, reported>>

(* closeFileBase: the last call.  A save that got this far without an      *)
(* error is reported as successful.                                        *)
CloseFile(t) ==
  /\ Running /\ InPhase(t, {"written", "failed"})
  /\ \E status \in Statuses :
       /\ closeFile(status)
       /\ reported' = IF status = "asynSuccess" /\ job[t].phase = "written" /\ job[t].alone
                      THEN [reported EXCEPT ![job[t].name] = job[t].array]
                      ELSE reported
  /\ job' = [job EXCEPT ![t] = NULL]
  /\ UNCHANGED fsOK

(* readFileBase. *)
ReadFile(t, status) ==
  /\ Running /\ job[t] = NULL
  /\ readFile(status)
  /\ UNCHANGED <<fsOK, hostVars>>

(* The OutputFileFormat record writes the parameter: once as the database  *)
(* starts (VAL 0, PINI), then whenever the operator selects a format.      *)
FormatSet(f) ==
  /\ fileFormat' = f
  /\ job' = [t \in Threads |-> IF InPhase(t, {"opened"}) /\ job[t].alone
                               THEN [job[t] EXCEPT !.formats = @ \cup {f}] ELSE job[t]]
  /\ UNCHANGED <<schema, outfile, disk, process, fsOK, reported>>

ProcessPini ==
  /\ Running /\ fileFormat = NULL
  /\ FormatSet(PARQUET)

SetFormat(f) ==
  /\ Running /\ fileFormat # NULL
  /\ FormatSet(f)

(* A call that ends the process ends every save. *)
Ends ==
  /\ job' = NoJobs
  /\ UNCHANGED <<fsOK, reported>>

OpenDies(t) ==
  /\ Running /\ job[t] = NULL
  /\ \E mode \in OpenModes, a \in NDArrays : openFileDies(mode, a)
  /\ Ends

WriteDies(t) ==
  /\ Running /\ InPhase(t, {"opened"})
  /\ writeFileDies(job[t].array)
  /\ Ends

(* The process is killed from outside, maybe while a table is written. *)
Kill ==
  /\ Running /\ Faults
  /\ Die("killed")
  /\ \/ disk' \in AfterClose
     \/ \E t \in Threads, f \in FormatsRead \cap FileFormats :
          /\ InPhase(t, {"opened"}) /\ TableMade(job[t].array)
          /\ outfile # NULL /\ outfile.open
          /\ disk' = DiskWith(job[t].array, f, FALSE)
  /\ Ends

(* The IOC is started again: NDFileArrowConfigure constructs the plugin.   *)
(* NDFileArrow_settings.req saves no setting of the plugin's own.          *)
Restart ==
  /\ ~Running
  /\ NDFileArrowConfigure
  /\ UNCHANGED <<disk, fsOK, hostVars>>

(* The file system stops working - full, or out of reach - or recovers. *)
FsChange ==
  /\ Faults
  /\ fsOK' = ~fsOK
  /\ UNCHANGED <<pluginVars, hostVars>>

Save(t) == WriteFile(t) \/ WriteDies(t) \/ CloseFile(t)

Step ==
  \/ \E t \in Threads :
       \/ \E n \in FileNames, mode \in OpenModes, a \in NDArrays : OpenFile(t, n, mode, a)
       \/ OpenDies(t)
       \/ Save(t)
  \/ ProcessPini
  \/ Kill
  \/ Restart
  \/ FsChange

Next ==
  \/ Step
  \/ \E t \in Threads, status \in Statuses : ReadFile(t, status)
  \/ \E f \in FormatValues : SetFormat(f)

(* A thread in the middle of a save goes on with it, whether or not that   *)
(* ends the process: no call waits for anything but the file system.       *)
Fairness == \A t \in Threads : WF_vars(Save(t))

Spec == Init /\ [][Next]_vars /\ Fairness

(* The same with a host that begins no save while another is under way,    *)
(* whatever the number of its threads.                                     *)
NoOverlap == \A t \in Threads : job[t] # NULL => job[t].alone

SerialNext == Next /\ NoOverlap'

SerialSpec == Init /\ [][SerialNext]_vars /\ Fairness
-----------------------------------------------------------------------------
(* The file holds one table, that of array a, complete and exact. *)
Holds(n, a) ==
  Len(disk[n]) = 1 /\ disk[n][1].array = a /\ disk[n][1].exact /\ disk[n][1].whole

(* Images within the limits of the code: the int parameters of             *)
(* createSchema and the offset arithmetic (module ImgToVectors).           *)
Representable(a) ==
  /\ ColourSupported(a)
  /\ a.xSize <= MaxInt /\ a.ySize <= MaxInt
  /\ Addressable(createSchema(a).coord, nSamples(a))

(* What the operator reads in the menu of the OutputFileFormat record. *)
Menu == [f \in FileFormats |-> <<"Parquet", "CSV", "Arrow IPC">>[f + 1]]

Schemas == [coord : CoordTypes,
            pixel : {ArrowDataType[d] : d \in DOMAIN ArrowDataType},
            channels : {Channels[c] : c \in DOMAIN Channels}]

Causes == {"cannot open file", "colour mode", "null dereference", "read past the image",
           "pixel type", "cannot start writer", "killed"}

Streams == [name : FileNames, open : BOOLEAN]

ASSUME NullAssumption ==
  NULL \notin Schemas \cup Streams \cup Jobs \cup [name : FileNames, array : NDArrays]

(* Types of the variables. *)
TypeOK ==
  /\ schema \in Schemas \cup {NULL}
  /\ outfile \in Streams \cup {NULL}
  /\ fileFormat \in Formats
  /\ disk \in [FileNames -> Seq(Tables)]
  /\ process \in {"running"} \cup Causes
  /\ fsOK \in BOOLEAN
  /\ job \in [Threads -> Jobs \cup {NULL}]
  /\ reported \in [FileNames -> NDArrays \cup {NULL}]

(* A save that was alone and was reported as successful left its array,    *)
(* whole and exact, as the only content of its file, and neither later     *)
(* saves to other files, however they interleave and fail, nor the end of  *)
(* the process take it away.                                               *)
SavedFilesIntact ==
  \A n \in FileNames :
    reported[n] # NULL /\ Representable(reported[n]) => Holds(n, reported[n])

(* writeFile reads the format parameter after openFile has created the     *)
(* file.  Whatever is selected meanwhile, the file is in a format the menu *)
(* showed at some time between the two; nothing is promised of a save      *)
(* begun before the parameter had a value.                                 *)
WrittenInFormat ==
  \A t \in Threads :
    InPhase(t, {"written"}) /\ job[t].alone /\ NULL \notin job[t].formats =>
      LET tables == disk[job[t].name]
      IN  /\ Len(tables) = 1
          /\ \E f \in job[t].formats \cap FileFormats : tables[1].format = Menu[f]

(* "only support single NDArray per file" (the constructor's comment): no  *)
(* file ever receives a second table.                                      *)
OneArrayPerFile == \A n \in FileNames : Len(disk[n]) <= 1

(* However many threads save, a file receives at most one table from each: *)
(* every openFile truncates its file and takes the stream to it, which     *)
(* bounds what saves that interleave can pile up in a file.                *)
OneTablePerThread == \A n \in FileNames : Len(disk[n]) <= Cardinality(Threads)

(* The stream a failed save leaves behind never belongs to a file reported *)
(* as saved, so whatever later happens to it cannot harm such a file.      *)
NoStreamOnSavedFile == outfile # NULL => reported[outfile.name] = NULL

(* Between openFile and writeFile of a save that is alone the object's     *)
(* schema and stream are those of that save: writeFile trusts them without *)
(* a check.                                                                *)
SchemaOfJob ==
  \A t \in Threads :
    InPhase(t, {"opened"}) /\ job[t].alone =>
      /\ schema = createSchema(job[t].array)
      /\ outfile = [name |-> job[t].name, open |-> TRUE]

(* writeFile trusts what it finds: it follows a null schema field or a     *)
(* null stream, takes pData for samples of the schema's pixel type without *)
(* asking for its size, and cannot start a writer on a stream that was     *)
(* closed.  As long as no saves overlap none of this happens, whatever     *)
(* failed before: the image is read beyond its end only if it is too large *)
(* for the code, and only a failing file system stops a writer.            *)
Overlap == \E t \in Threads : job[t] # NULL /\ ~job[t].alone

SoloNeverFaults ==
  [][process' = process \/ Overlap \/
       /\ process' # "null dereference"
       /\ process' = "read past the image" =>
            \E t \in Threads : InPhase(t, {"opened"}) /\ ~Representable(job[t].array)
       /\ process' = "cannot start writer" => ~fsOK]_vars

(* As long as the file system works and the format is one of the menu, no  *)
(* step - of the save itself, of another thread, of the operator - takes a *)
(* save that is alone off its way: an array that can be written is written *)
(* and, once written, reported.  Only a kill, or a thread to which the     *)
(* next array comes in a colour mode that makes createSchema throw, ends   *)
(* it.  (What a save is promised step by step; SavesSucceed says that it   *)
(* takes these steps.)                                                     *)
Savable(a) ==
  /\ ColourSupported(a)
  /\ ArrowDataType[a.dataType] \in ColumnTypes
  /\ ~Overruns(createSchema(a), a)

OnItsWay(t) ==
  /\ job[t] # NULL /\ job[t].alone
  /\ \/ job[t].phase = "written"
     \/ job[t].phase = "opened" /\ Savable(job[t].array) /\ fileFormat \in FileFormats

SoloSavesGoThrough ==
  [][\A t \in Threads :
       OnItsWay(t) /\ fsOK =>
         \/ InPhase(t, {"opened", "written"})'
         \/ job[t].phase = "written" /\ job'[t] = NULL
              /\ reported'[job[t].name] = job[t].array
         \/ process' \in {"killed", "colour mode"}]_vars

(* What the base class is promised (module ArraySaver), of the saves under *)
(* way, the arrays that can be read back, and the reports that count.      *)
saving ==
  [t \in Threads |-> IF job[t] = NULL THEN NULL
                     ELSE [name |-> job[t].name, array |-> job[t].array]]

files ==
  [n \in FileNames |-> IF \E a \in NDArrays : Holds(n, a) THEN disk[n][1].array ELSE NULL]

promised ==
  [n \in FileNames |-> IF reported[n] # NULL /\ Representable(reported[n])
                       THEN reported[n] ELSE NULL]

Saver == INSTANCE ArraySaver WITH reported <- promised

ImplementsSaver == Saver!Spec

(* With one thread, a save of an array whose colour mode, pixel type and   *)
(* size the plugin can write is reported as successful, unless meanwhile   *)
(* the file system fails or the process is killed, or the format parameter *)
(* has no usable value: nothing that earlier saves and their failures left *)
(* behind stands in its way.                                               *)
SavesSucceed ==
  \A t \in Threads, n \in FileNames, a \in NDArrays :
    InPhase(t, {"opened"}) /\ job[t].name = n /\ job[t].array = a /\ Savable(a)
      ~> \/ reported[n] = a
         \/ ~fsOK \/ process = "killed" \/ fileFormat \notin FileFormats
-----------------------------------------------------------------------------
(* A statement of the repository that the code does not live up to.        *)

(* Every pixel type with a case in writeFile can be written: the tests     *)
(* demand a schema for 8-bit signed images.                                *)
DispatchedTypeIsWritten == process # "pixel type"
=============================================================================
