---------------------------- MODULE NDFileArrow ----------------------------
(***************************************************************************)
(* The plugin object NDFileArrow and what it leaves on disk.  State: the   *)
(* schema and the output stream kept between calls, the ARROW_FILE_FORMAT  *)
(* parameter, the files, and the IOC process the object lives in.          *)
(*                                                                         *)
(* An operation is an action whose last parameter is the asynStatus it     *)
(* returns.  The code catches no exception and unwraps arrow::Result with  *)
(* ValueOrDie, so an operation may also end the process: those outcomes    *)
(* are the actions whose names end in Dies.                                *)
(***************************************************************************)
EXTENDS ArrowSchema

CONSTANTS
  NDArrays,   \* arrays the plugin may receive, as records of attributes
  FileNames,  \* names of the files it may be told to write
  NULL

(* Besides what identifies it, an array has the attributes getInfo and the *)
(* plugin look at.                                                         *)
ASSUME ArrayAssumption ==
  /\ NULL \notin NDArrays \cup FileNames
  /\ \A a \in NDArrays :
       /\ a.dataType \in DOMAIN ArrowDataType
       /\ a.xSize \in Nat /\ a.ySize \in Nat

VARIABLES
  schema,      \* this->schema
  outfile,     \* this->outfile: NULL, or the file's name and whether it is open
  fileFormat,  \* the parameter NDFileArrow_FileFormat; NULL: never set
  disk,        \* the tables written to each file since it was last truncated
  process,     \* "running", or what ended the process
  fsOK         \* the file system works; the plugin only suffers it

pluginVars == <<schema, outfile, fileFormat, disk, process>>

(* NDArrowFileFormat, and a value that is none of them. *)
PARQUET == 0
CSV == 1
IPC == 2
FileFormats == {PARQUET, CSV, IPC}
UNSUPPORTED == 3

Statuses == {"asynSuccess", "asynError"}

(* The colour modes createSchema accepts. *)
ColourSupported(a) == a.colorMode \in DOMAIN Channels

(* The pixel types writeFile has a case for, and those for which           *)
(* createArrowTableFromNDArray can build a column.                         *)
DispatchedTypes == {"int8", "uint8", "int16", "uint16", "int32", "float", "double"}

ColumnTypes == {"uint8", "int16", "uint16", "int32", "float", "double"}

(* The samples in pData: one for each channel of each pixel. *)
nChannels(a) == Len(Channels[a.colorMode])

nSamples(a) == a.xSize * a.ySize * nChannels(a)

(* Under schema s the conversion of array a reads beyond pData, whose      *)
(* samples are of the array's type and not of the schema's.                *)
Overruns(s, a) ==
  ~ReadsWithin(s.coord, s.pixel, ArrowDataType[a.dataType], a.xSize, a.ySize, nChannels(a))

(* A table shows its array exactly when the schema's types are those of    *)
(* the array's pixels and the conversion is exact (module ImgToVectors).   *)
Exact(s, a) ==
  /\ s.pixel = ArrowDataType[a.dataType]
  /\ Convertible(s.coord, a.xSize, a.ySize, nSamples(a))

(* What writeFile makes of the parameter, whose read it does not check: of *)
(* one never set, whatever the uninitialised local holds.                  *)
FormatsRead == IF fileFormat = NULL THEN FileFormats \cup {UNSUPPORTED} ELSE {fileFormat}

(* The file format of each branch of writeFile. *)
Writer_Swapped(f) == IF f = PARQUET THEN "Parquet" ELSE IF f = IPC THEN "CSV" ELSE "Arrow IPC"

Writer(f) == IF f = PARQUET THEN "Parquet" ELSE IF f = IPC THEN "Arrow IPC" ELSE "CSV"

Tables == [array : NDArrays, format : {"Parquet", "CSV", "Arrow IPC"},
           exact : BOOLEAN, whole : BOOLEAN]

(* The file of the stream once the table of array a has been written to    *)
(* it, as a whole or only in part.                                         *)
DiskWith(a, f, whole) ==
  [disk EXCEPT ![outfile.name] =
     Append(@, [array |-> a, format |-> Writer(f), exact |-> Exact(schema, a), whole |-> whole])]

(* What becomes of the files when the stream is closed, by closeFile, by   *)
(* the stream that replaces it or with the process: a failing close may    *)
(* lose what the system had not yet stored.                                *)
DiskTorn ==
  [disk EXCEPT ![outfile.name] = [k \in DOMAIN @ |-> [@[k] EXCEPT !.whole = FALSE]]]

AfterClose ==
  IF ~fsOK /\ outfile # NULL /\ outfile.open THEN {disk, DiskTorn} ELSE {disk}

(* The end of the process: its memory is gone, the files stay. *)
Die(cause) ==
  /\ process' = cause
  /\ schema' = NULL /\ outfile' = NULL /\ fileFormat' = NULL
-----------------------------------------------------------------------------
(* The state the constructor leaves - createAllParams creates the format   *)
(* parameter without a value - and its run, from NDFileArrowConfigure, in  *)
(* a new process.                                                          *)
NDFileArrow ==
  /\ schema = NULL
  /\ outfile = NULL
  /\ fileFormat = NULL
  /\ process = "running"

NDFileArrowConfigure ==
  /\ schema' = NULL
  /\ outfile' = NULL
  /\ fileFormat' = NULL
  /\ process' = "running"

(* What a successful openFile sets: the schema of its array, and a new     *)
(* stream, which truncates the file it names and then replaces - and so    *)
(* closes - the one the last save may have left.                           *)
NewSchema_Kept(a) == IF schema = NULL THEN createSchema(a) ELSE schema

NewSchema(a) == createSchema(a)

NewStream_Reused(fileName) ==
  IF outfile = NULL THEN [name |-> fileName, open |-> TRUE] ELSE outfile

NewStream(fileName) == [name |-> fileName, open |-> TRUE]

Truncated_Appends(fileName) == AfterClose

Truncated(fileName) == {[d EXCEPT ![fileName] = <<>>] : d \in AfterClose}

(* The modes openFile refuses. *)
Refused(openMode) == openMode \cap {"Read", "Append"} # {}

openFile(fileName, openMode, a, status) ==
  \/ /\ Refused(openMode)
     /\ status = "asynError"
     /\ UNCHANGED pluginVars
  \/ /\ ~Refused(openMode)
     /\ ColourSupported(a)
     /\ status = "asynSuccess"
     /\ schema' = NewSchema(a)
     /\ outfile' = NewStream(fileName)
     /\ disk' \in Truncated(fileName)
     /\ UNCHANGED <<fileFormat, process>>

(* createSchema throws, or FileOutputStream::Open fails under ValueOrDie.  *)
openFileDies(openMode, a) ==
  /\ ~Refused(openMode)
  /\ \/ ~ColourSupported(a) /\ Die("colour mode")
     \/ ColourSupported(a) /\ ~fsOK /\ Die("cannot open file")
  /\ disk' \in AfterClose
-----------------------------------------------------------------------------
(* The column of the schema from which writeFile takes the pixel type.     *)
PixelField_Swapped(a) == IF a.colorMode = "Mono" THEN "R" ELSE "Intensity"

PixelField(a) == IF a.colorMode = "Mono" THEN "Intensity" ELSE "R"

(* Both GetFieldByName lookups find their column. *)
FieldsFound(a) ==
  /\ schema # NULL
  /\ \E k \in DOMAIN schema.channels : schema.channels[k] = PixelField(a)

TableMade(a) == FieldsFound(a) /\ schema.pixel \in ColumnTypes

(* The two early returns: no case for the pixel type or for the format.    *)
writeFileRefuses(a, status) ==
  /\ \/ FieldsFound(a) /\ schema.pixel \notin DispatchedTypes
     \/ TableMade(a) /\ FormatsRead \ FileFormats # {}
  /\ status = "asynError"
  /\ UNCHANGED pluginVars

(* The status of a write. *)
WriteStatus_Ignored(whole) == "asynSuccess"

WriteStatus(whole) == IF whole THEN "asynSuccess" ELSE "asynError"

(* The table is written whole, or in part if the file system fails, or not *)
(* at all to a stream that is closed.                                      *)
writeFileWrites(a, status) ==
  /\ TableMade(a)
  /\ outfile # NULL
  /\ \E f \in FormatsRead \cap FileFormats, whole \in {fsOK /\ outfile.open, outfile.open} :
       /\ disk' = IF outfile.open THEN DiskWith(a, f, whole) ELSE disk
       /\ status = WriteStatus(whole)
  /\ UNCHANGED <<schema, outfile, fileFormat, process>>

writeFile(a, status) == writeFileRefuses(a, status) \/ writeFileWrites(a, status)

(* The formats whose writer is made with ValueOrDie. *)
AbortingFormats == {CSV, IPC}

(* A null schema field or stream is dereferenced; the conversion faults    *)
(* beyond pData, as it may when it reads there; the table's element type   *)
(* has no branch and createArrowTableFromNDArray throws; or the CSV or IPC *)
(* writer cannot start on the stream and ValueOrDie aborts.                *)
writeFileDies(a) ==
  \/ /\ \/ ~FieldsFound(a)
        \/ TableMade(a) /\ FormatsRead \cap FileFormats # {} /\ outfile = NULL
     /\ Die("null dereference")
     /\ disk' \in AfterClose
  \/ /\ FieldsFound(a) /\ schema.pixel \in DispatchedTypes /\ Overruns(schema, a)
     /\ Die("read past the image")
     /\ disk' \in AfterClose
  \/ /\ FieldsFound(a) /\ schema.pixel \in DispatchedTypes \ ColumnTypes
     /\ Die("pixel type")
     /\ disk' \in AfterClose
  \/ /\ TableMade(a) /\ outfile # NULL /\ ~(fsOK /\ outfile.open)
     /\ \E f \in FormatsRead \cap AbortingFormats :
          disk' = IF outfile.open THEN DiskWith(a, f, FALSE) ELSE disk
     /\ Die("cannot start writer")
-----------------------------------------------------------------------------
closeFile_IgnoresStatus(status) ==
  /\ status = "asynSuccess"
  /\ outfile' = NULL
  /\ disk' \in AfterClose
  /\ UNCHANGED <<schema, fileFormat, process>>

closeFile_KeepsStream(status) == status = "asynSuccess" /\ UNCHANGED pluginVars

(* closeFile: nothing to do without a stream; a stream is dropped once     *)
(* Close succeeds, which it always does on a stream already closed, and    *)
(* kept, closed, when Close fails.                                         *)
closeFile(status) ==
  \/ /\ status = "asynSuccess"
     /\ outfile' = NULL
     /\ UNCHANGED <<schema, fileFormat, disk, process>>
  \/ /\ ~fsOK /\ outfile # NULL /\ outfile.open
     /\ status = "asynError"
     /\ outfile' = [outfile EXCEPT !.open = FALSE]
     /\ disk' \in AfterClose
     /\ UNCHANGED <<schema, fileFormat, process>>

(* readFile does nothing and reports success. *)
readFile(status) == status = "asynSuccess" /\ UNCHANGED pluginVars
=============================================================================
