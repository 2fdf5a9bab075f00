-------------------------- MODULE FileHost_proofs --------------------------
(***************************************************************************)
(* Theorems about the plugin under its host: for any arrays, files and     *)
(* formats, any number of threads and saves, faults, deaths and restarts.  *)
(***************************************************************************)
EXTENDS FileHost, ArrowSchema_proofs, FiniteSetTheorems

(* createSchema makes a schema. *)
LEMMA SchemaType ==
  ASSUME NEW a \in NDArrays, ColourSupported(a)
  PROVE  createSchema(a) \in Schemas
  <1>1. CoordType(ToInt(a.xSize), ToInt(a.ySize)) \in CoordTypes
    BY DEF CoordType, CoordTypes
  <1>2. a.dataType \in DOMAIN ArrowDataType
    BY ArrayAssumption
  <1> QED
    BY <1>1, <1>2 DEF createSchema, Schemas, ColourSupported

(* A table made under the schema of its own array is exact, within the     *)
(* limits of the code (createSchema's parameters, the offset arithmetic).  *)
LEMMA RepresentableExact ==
  ASSUME NEW a \in NDArrays, Representable(a)
  PROVE  Exact(createSchema(a), a)
  <1>1. a.xSize \in Nat /\ a.ySize \in Nat
    BY ArrayAssumption
  <1>2. /\ createSchema(a).coord = CoordType(ToInt(a.xSize), ToInt(a.ySize))
        /\ createSchema(a).pixel = ArrowDataType[a.dataType]
    BY DEF createSchema
  <1> QED
    BY <1>1, <1>2, OwnTypeConverts DEF Representable, Exact

(* And it is read to its end only. *)
LEMMA RepresentableWithin ==
  ASSUME NEW a \in NDArrays, Representable(a)
  PROVE  ~Overruns(createSchema(a), a)
  <1> DEFINE ct == createSchema(a).coord
             own == ArrowDataType[a.dataType]
  <1>1. a.xSize \in Nat /\ a.ySize \in Nat /\ own \in DOMAIN SizeOf
    BY ArrayAssumption DEF ArrowDataType, SizeOf
  <1>2. createSchema(a).pixel = own /\ ct \in CoordTypes
    BY DEF createSchema, CoordType, CoordTypes
  <1>3. nChannels(a) \in Nat
    BY DEF Representable, ColourSupported, nChannels, Channels
  <1>4. Addressable(ct, a.xSize * a.ySize * nChannels(a))
    BY DEF Representable, nSamples
  <1> HIDE DEF ct, own
  <1>5. Addressable(ct, Reach(ct, a.xSize, a.ySize, nChannels(a)))
    <2> DEFINE reach == Reach(ct, a.xSize, a.ySize, nChannels(a))
               all == a.xSize * a.ySize * nChannels(a)
    <2>1. reach \in Nat /\ all \in Nat /\ reach <= all
      BY <1>1, <1>2, <1>3, ReachFacts
    <2>2. Addressable(ct, all)
      BY <1>4
    <2> HIDE DEF reach, all
    <2>3. Addressable(ct, reach)
      BY <2>1, <2>2, WidthAssumption DEF Addressable
    <2> QED
      BY <2>3 DEF reach
  <1>6. SizeOf[own] <= SizeOf[own]
    BY <1>1, SizeType
  <1>7. ReadsWithin(ct, own, own, a.xSize, a.ySize, nChannels(a))
    BY <1>1, <1>2, <1>3, <1>5, <1>6, NoWiderTypeWithin
  <1> QED
    BY <1>2, <1>7 DEF Overruns, ct, own

(* The table writeFile makes of array a in format f. *)
Table(a, f, whole) ==
  [array |-> a, format |-> Writer(f), exact |-> Exact(schema, a), whole |-> whole]

(* A sequence with a table appended. *)
LEMMA TableAppended ==
  ASSUME NEW a \in NDArrays, NEW f \in FileFormats, NEW whole \in BOOLEAN,
         NEW s \in Seq(Tables)
  PROVE  /\ Append(s, Table(a, f, whole)) \in Seq(Tables)
         /\ Len(Append(s, Table(a, f, whole))) = Len(s) + 1
         /\ \A k \in 1 .. Len(s) : Append(s, Table(a, f, whole))[k] = s[k]
         /\ Append(s, Table(a, f, whole))[Len(s) + 1] = Table(a, f, whole)
  <1>1. Exact(schema, a) \in BOOLEAN
    BY DEF Exact, Convertible, Addressable
  <1>2. Table(a, f, whole) \in Tables
    BY <1>1 DEF Table, Tables, Writer
  <1> HIDE DEF Table
  <1> QED
    BY <1>2

(* A table appended to the file of the stream. *)
LEMMA DiskWithType ==
  ASSUME disk \in [FileNames -> Seq(Tables)], outfile \in Streams,
         NEW a \in NDArrays, NEW f \in FileFormats, NEW whole \in BOOLEAN
  PROVE  /\ DiskWith(a, f, whole) \in [FileNames -> Seq(Tables)]
         /\ DiskWith(a, f, whole)[outfile.name] = Append(disk[outfile.name], Table(a, f, whole))
         /\ Len(DiskWith(a, f, whole)[outfile.name]) = Len(disk[outfile.name]) + 1
         /\ \A n \in FileNames : n # outfile.name => DiskWith(a, f, whole)[n] = disk[n]
  <1>1. outfile.name \in FileNames /\ disk[outfile.name] \in Seq(Tables)
    BY DEF Streams
  <1>2. DiskWith(a, f, whole) =
          [disk EXCEPT ![outfile.name] = Append(disk[outfile.name], Table(a, f, whole))]
    BY DEF DiskWith, Table
  <1> QED
    BY <1>1, <1>2, TableAppended

(* A tuple is a sequence. *)
LEMMA TupleType ==
  ASSUME NEW S, NEW n \in Nat, NEW f \in [1 .. n -> S]
  PROVE  f \in Seq(S) /\ Len(f) = n
  OBVIOUS

(* A torn file is still a sequence of as many tables, of the same arrays,  *)
(* none of them whole.                                                     *)
LEMMA DiskTornType ==
  ASSUME disk \in [FileNames -> Seq(Tables)], outfile \in Streams
  PROVE  /\ DiskTorn \in [FileNames -> Seq(Tables)]
         /\ Len(DiskTorn[outfile.name]) = Len(disk[outfile.name])
         /\ \A k \in 1 .. Len(disk[outfile.name]) :
              /\ DiskTorn[outfile.name][k].array = disk[outfile.name][k].array
              /\ DiskTorn[outfile.name][k].whole = FALSE
         /\ \A n \in FileNames : n # outfile.name => DiskTorn[n] = disk[n]
  <1> DEFINE old == disk[outfile.name]
             torn == [k \in DOMAIN old |-> [old[k] EXCEPT !.whole = FALSE]]
  <1>1. outfile.name \in FileNames /\ old \in Seq(Tables)
    BY DEF Streams
  <1>2. DiskTorn = [disk EXCEPT ![outfile.name] = torn]
    BY DEF DiskTorn
  <1>3. \A r \in Tables : [r EXCEPT !.whole = FALSE] \in Tables
                          /\ [r EXCEPT !.whole = FALSE].array = r.array
                          /\ [r EXCEPT !.whole = FALSE].whole = FALSE
    BY DEF Tables
  <1>4. torn \in Seq(Tables) /\ Len(torn) = Len(old)
        /\ \A k \in 1 .. Len(old) : torn[k].array = old[k].array /\ torn[k].whole = FALSE
    <2>1. DOMAIN old = 1 .. Len(old) /\ Len(old) \in Nat
      BY <1>1
    <2>2. \A k \in 1 .. Len(old) :
            torn[k] \in Tables /\ torn[k].array = old[k].array /\ torn[k].whole = FALSE
      BY <1>1, <1>3, <2>1
    <2>3. torn \in [1 .. Len(old) -> Tables]
      BY <2>1, <2>2
    <2> HIDE DEF torn
    <2> QED
      BY <2>1, <2>2, <2>3, TupleType
  <1> HIDE DEF torn, old
  <1> QED
    BY <1>1, <1>2, <1>4 DEF old
-----------------------------------------------------------------------------
(* What the operations of the plugin and the deaths of the process do.     *)

(* A stream is a record of its name and state. *)
LEMMA StreamFacts ==
  ASSUME TypeOK, outfile # NULL
  PROVE  outfile \in Streams /\ outfile.name \in FileNames /\ outfile.open \in BOOLEAN
  BY DEF TypeOK, Streams

(* Closing the stream leaves the files as they are or tears its own. *)
LEMMA Closing ==
  ASSUME TypeOK, NEW d \in AfterClose
  PROVE  \/ d = disk
         \/ outfile # NULL /\ outfile \in Streams /\ outfile.open /\ d = DiskTorn
  BY StreamFacts DEF AfterClose

(* openFile changes nothing, or begins afresh. *)
LEMMA OpenFileEffect ==
  ASSUME NEW n, NEW mode, NEW a, NEW status, openFile(n, mode, a, status)
  PROVE  \/ UNCHANGED pluginVars /\ status = "asynError"
         \/ /\ status = "asynSuccess" /\ ColourSupported(a)
            /\ schema' = createSchema(a)
            /\ outfile' = [name |-> n, open |-> TRUE]
            /\ disk' \in Truncated(n)
            /\ UNCHANGED <<fileFormat, process>>
  BY DEF openFile, NewSchema, NewStream

(* Its file is empty then, and at most that of the stream it replaces is   *)
(* torn.                                                                   *)
LEMMA OpenFileDisk ==
  ASSUME TypeOK, NEW n \in FileNames, disk' \in Truncated(n)
  PROVE  /\ disk' \in [FileNames -> Seq(Tables)]
         /\ disk'[n] = <<>>
         /\ \A m \in FileNames : m # n =>
              /\ Len(disk'[m]) = Len(disk[m])
              /\ disk'[m] # disk[m] =>
                   /\ outfile # NULL /\ outfile \in Streams /\ outfile.open
                   /\ m = outfile.name /\ disk'[m] = DiskTorn[m]
  <1>1. PICK d \in AfterClose : disk' = [d EXCEPT ![n] = <<>>]
    BY DEF Truncated
  <1>2. /\ d \in [FileNames -> Seq(Tables)]
        /\ \A m \in FileNames :
             /\ Len(d[m]) = Len(disk[m])
             /\ d[m] # disk[m] => /\ outfile # NULL /\ outfile \in Streams /\ outfile.open
                                  /\ m = outfile.name /\ d[m] = DiskTorn[m]
    <2>1. CASE d = disk
      BY <2>1 DEF TypeOK
    <2>2. CASE outfile # NULL /\ outfile \in Streams /\ outfile.open /\ d = DiskTorn
      <3>1. disk \in [FileNames -> Seq(Tables)]
        BY DEF TypeOK
      <3> QED
        BY <2>2, <3>1, DiskTornType
    <2> QED
      BY <2>1, <2>2, Closing
  <1>3. <<>> \in Seq(Tables)
    OBVIOUS
  <1> QED
    BY <1>1, <1>2, <1>3

(* writeFile changes the file of the stream only. *)
LEMMA WriteFileEffect ==
  ASSUME TypeOK, NEW a \in NDArrays, NEW status, writeFile(a, status)
  PROVE  /\ UNCHANGED <<schema, outfile, fileFormat, process>>
         /\ \/ UNCHANGED disk /\ status = "asynError"
            \/ /\ outfile \in Streams
               /\ \E f \in FormatsRead \cap FileFormats, whole \in BOOLEAN :
                    disk' = DiskWith(a, f, whole) /\ status = WriteStatus(whole)
  <1>1. CASE writeFileRefuses(a, status)
    BY <1>1 DEF writeFileRefuses, pluginVars
  <1>2. CASE writeFileWrites(a, status)
    <2>1. outfile \in Streams /\ outfile.open \in BOOLEAN /\ fsOK \in BOOLEAN
      BY <1>2, StreamFacts DEF writeFileWrites, TypeOK
    <2>2. PICK f \in FormatsRead \cap FileFormats,
               whole \in {fsOK /\ outfile.open, outfile.open} :
            /\ disk' = IF outfile.open THEN DiskWith(a, f, whole) ELSE disk
            /\ status = WriteStatus(whole)
      BY <1>2 DEF writeFileWrites
    <2>3. whole \in BOOLEAN /\ (~outfile.open => whole = FALSE)
      BY <2>1, <2>2
    <2>4. UNCHANGED <<schema, outfile, fileFormat, process>>
      BY <1>2 DEF writeFileWrites
    <2>5. CASE outfile.open
      BY <2>1, <2>2, <2>3, <2>4, <2>5
    <2>6. CASE ~outfile.open
      BY <2>2, <2>3, <2>4, <2>6 DEF WriteStatus
    <2> QED
      BY <2>5, <2>6
  <1> QED
    BY <1>1, <1>2 DEF writeFile

(* closeFile drops the stream, or closes it and maybe tears its file. *)
LEMMA CloseFileEffect ==
  ASSUME TypeOK, NEW status, closeFile(status)
  PROVE  /\ UNCHANGED <<schema, fileFormat, process>>
         /\ \/ outfile' = NULL /\ UNCHANGED disk /\ status = "asynSuccess"
            \/ /\ outfile # NULL /\ outfile \in Streams /\ outfile' \in Streams
               /\ outfile'.name = outfile.name /\ ~outfile'.open
               /\ (UNCHANGED disk \/ disk' = DiskTorn) /\ status = "asynError"
  <1>1. CASE outfile # NULL /\ outfile' = [outfile EXCEPT !.open = FALSE]
    BY <1>1, StreamFacts, Closing DEF Streams, closeFile
  <1> QED
    BY <1>1, StreamFacts, Closing DEF closeFile

(* A death ends every save and may cut the table one of them is writing. *)
Deaths == Kill \/ \E t \in Threads : OpenDies(t) \/ WriteDies(t)

CutFor(t) ==
  /\ job[t] \in Jobs /\ InPhase(t, {"opened"})
  /\ outfile \in Streams
  /\ \E f \in FileFormats : disk' = DiskWith(job[t].array, f, FALSE)

(* The effect common to every way the process ends. *)
LEMMA DeathEffect ==
  ASSUME TypeOK, Deaths
  PROVE  /\ \E cause \in Causes : Die(cause)
         /\ job' = NoJobs /\ UNCHANGED <<fsOK, reported>>
         /\ disk' \in AfterClose \/ \E t \in Threads : CutFor(t)
  <1>1. CASE Kill
    <2>1. "killed" \in Causes
      BY DEF Causes
    <2>2. disk' \in AfterClose \/ \E t \in Threads : CutFor(t)
      BY <1>1, StreamFacts DEF Kill, CutFor, InPhase, TypeOK
    <2> QED
      BY <1>1, <2>1, <2>2 DEF Kill, Ends
  <1>2. ASSUME NEW t \in Threads, OpenDies(t)
        PROVE  (\E cause \in Causes : Die(cause)) /\ disk' \in AfterClose
    BY <1>2 DEF OpenDies, openFileDies, Causes
  <1>3. ASSUME NEW t \in Threads, WriteDies(t)
        PROVE  (\E cause \in Causes : Die(cause)) /\ (disk' \in AfterClose \/ CutFor(t))
    <2>1. job[t] \in Jobs /\ InPhase(t, {"opened"})
      BY <1>3 DEF WriteDies, InPhase, TypeOK
    <2>2. CASE /\ disk' \in AfterClose
               /\ \/ Die("null dereference") \/ Die("read past the image")
                  \/ Die("pixel type")
      BY <2>2 DEF Causes
    <2>3. CASE /\ outfile # NULL /\ Die("cannot start writer")
               /\ \E f \in FormatsRead \cap AbortingFormats :
                    disk' = IF outfile.open THEN DiskWith(job[t].array, f, FALSE) ELSE disk
      <3>1. outfile \in Streams /\ AbortingFormats \subseteq FileFormats
        BY <2>3, StreamFacts DEF AbortingFormats, FileFormats
      <3>2. ~outfile.open => disk' \in AfterClose
        BY <2>3 DEF AfterClose
      <3> QED
        BY <2>1, <2>3, <3>1, <3>2 DEF CutFor, Causes
    <2> QED
      BY <1>3, <2>2, <2>3 DEF WriteDies, writeFileDies
  <1>4. ASSUME NEW t \in Threads, OpenDies(t) \/ WriteDies(t)
        PROVE  job' = NoJobs /\ UNCHANGED <<fsOK, reported>>
    BY <1>4 DEF OpenDies, WriteDies, Ends
  <1> QED
    BY <1>1, <1>2, <1>3, <1>4 DEF Deaths
-----------------------------------------------------------------------------
(* The type invariant, in two halves.                                      *)
PluginTypeOK ==
  /\ schema \in Schemas \cup {NULL}
  /\ outfile \in Streams \cup {NULL}
  /\ fileFormat \in Formats
  /\ disk \in [FileNames -> Seq(Tables)]
  /\ process \in {"running"} \cup Causes

HostTypeOK ==
  /\ fsOK \in BOOLEAN
  /\ job \in [Threads -> Jobs \cup {NULL}]
  /\ reported \in [FileNames -> NDArrays \cup {NULL}]

(* The halves make up the whole, before a step and after it. *)
LEMMA TypeParts ==
  /\ TypeOK <=> PluginTypeOK /\ HostTypeOK
  /\ TypeOK' <=> PluginTypeOK' /\ HostTypeOK'
  BY DEF TypeOK, PluginTypeOK, HostTypeOK, Streams

(* The steps of a save under way. *)
LEMMA JobType ==
  ASSUME TypeOK, NEW t \in Threads, job[t] # NULL
  PROVE  /\ job[t] \in Jobs /\ job[t].array \in NDArrays /\ job[t].name \in FileNames
         /\ job[t].alone \in BOOLEAN /\ job[t].formats \in SUBSET Formats
         /\ \A p \in {"written", "failed"} :
              /\ [job[t] EXCEPT !.phase = p] \in Jobs
              /\ [job[t] EXCEPT !.phase = p] # NULL
  BY NullAssumption DEF TypeOK, Jobs

(* What a table, a close or a death leaves of the files. *)
LEMMA DiskType ==
  ASSUME TypeOK,
         \/ UNCHANGED disk
         \/ /\ outfile \in Streams
            /\ \E a \in NDArrays, f \in FileFormats, whole \in BOOLEAN :
                 disk' = DiskWith(a, f, whole)
         \/ outfile \in Streams /\ disk' = DiskTorn
  PROVE  /\ disk' \in [FileNames -> Seq(Tables)]
         /\ \A n \in FileNames : disk'[n] # disk[n] => outfile # NULL /\ n = outfile.name
  <1>1. disk \in [FileNames -> Seq(Tables)] /\ (outfile \in Streams => outfile # NULL)
    BY NullAssumption DEF TypeOK
  <1>2. CASE UNCHANGED disk
    BY <1>1, <1>2
  <1>3. CASE outfile \in Streams /\ disk' = DiskTorn
    BY <1>1, <1>3, DiskTornType
  <1>4. ASSUME outfile \in Streams, NEW a \in NDArrays, NEW f \in FileFormats,
               NEW whole \in BOOLEAN, disk' = DiskWith(a, f, whole)
        PROVE  /\ disk' \in [FileNames -> Seq(Tables)]
               /\ \A n \in FileNames : disk'[n] # disk[n] => outfile # NULL /\ n = outfile.name
    BY <1>1, <1>4, DiskWithType
  <1> QED
    BY <1>2, <1>3, <1>4

(* A writeFile call changes the file of the stream only. *)
LEMMA WriteFileDisk ==
  ASSUME TypeOK, NEW a \in NDArrays, NEW status, writeFile(a, status)
  PROVE  /\ disk' \in [FileNames -> Seq(Tables)]
         /\ \A n \in FileNames : disk'[n] # disk[n] => outfile # NULL /\ n = outfile.name
  BY WriteFileEffect, DiskType

(* A closeFile call too. *)
LEMMA CloseFileDisk ==
  ASSUME TypeOK, NEW status, closeFile(status)
  PROVE  /\ disk' \in [FileNames -> Seq(Tables)]
         /\ \A n \in FileNames : disk'[n] # disk[n] => outfile # NULL /\ n = outfile.name
  BY CloseFileEffect, DiskType

(* And a death. *)
LEMMA DeathDisk ==
  ASSUME TypeOK, Deaths
  PROVE  /\ disk' \in [FileNames -> Seq(Tables)]
         /\ \A n \in FileNames : disk'[n] # disk[n] => outfile # NULL /\ n = outfile.name
  <1>1. ASSUME NEW t \in Threads, CutFor(t)
        PROVE  /\ outfile \in Streams
               /\ \E a \in NDArrays, f \in FileFormats, whole \in BOOLEAN :
                    disk' = DiskWith(a, f, whole)
    BY <1>1 DEF CutFor, Jobs
  <1> QED
    BY <1>1, DeathEffect, Closing, DiskType

(* Beginning a save keeps the types of the saves under way. *)
LEMMA JobsWithType ==
  ASSUME TypeOK, NEW t \in Threads, NEW n \in FileNames, NEW a \in NDArrays
  PROVE  JobsWith(t, n, a) \in [Threads -> Jobs \cup {NULL}]
  <1> DEFINE alone == job = NoJobs
  <1>1. [phase |-> "opened", name |-> n, array |-> a, alone |-> alone,
         formats |-> IF alone THEN {fileFormat} ELSE {}] \in Jobs
    BY DEF TypeOK, Jobs
  <1>2. ASSUME NEW u \in Threads, job[u] # NULL
        PROVE  [job[u] EXCEPT !.alone = FALSE, !.formats = {}] \in Jobs
    BY <1>2 DEF TypeOK, Jobs
  <1> QED
    BY <1>1, <1>2 DEF JobsWith

(* Setting the format parameter keeps them as well. *)
LEMMA FormatSetType ==
  ASSUME TypeOK, NEW f \in Formats, FormatSet(f)
  PROVE  TypeOK'
  <1>1. ASSUME NEW t \in Threads, InPhase(t, {"opened"})
        PROVE  [job[t] EXCEPT !.formats = @ \cup {f}] \in Jobs
    BY <1>1 DEF InPhase, TypeOK, Jobs
  <1>2. job' \in [Threads -> Jobs \cup {NULL}]
    BY <1>1 DEF FormatSet, TypeOK
  <1> QED
    BY <1>2 DEF FormatSet, TypeOK

(* It tells the saves that are alone and have yet to write their table. *)
LEMMA FormatSetJobs ==
  ASSUME TypeOK, NEW f \in Formats, FormatSet(f), NEW t \in Threads
  PROVE  /\ job'[t] = NULL <=> job[t] = NULL
         /\ job[t] # NULL =>
              /\ job'[t].phase = job[t].phase /\ job'[t].alone = job[t].alone
              /\ job'[t].name = job[t].name /\ job'[t].array = job[t].array
              /\ job[t].formats \subseteq job'[t].formats
              /\ job[t].phase = "opened" /\ job[t].alone => f \in job'[t].formats
              /\ job[t].phase # "opened" => job'[t] = job[t]
  <1> DEFINE more == [job[t] EXCEPT !.formats = @ \cup {f}]
  <1>1. job'[t] = IF InPhase(t, {"opened"}) /\ job[t].alone THEN more ELSE job[t]
    BY DEF FormatSet
  <1>2. ASSUME job[t] # NULL
        PROVE  /\ more \in Jobs /\ more.phase = job[t].phase /\ more.alone = job[t].alone
               /\ more.name = job[t].name /\ more.array = job[t].array
               /\ more.formats = job[t].formats \cup {f}
    BY <1>2, JobType DEF Jobs
  <1>3. NULL \notin Jobs
    BY NullAssumption
  <1> HIDE DEF more
  <1> QED
    BY <1>1, <1>2, <1>3 DEF InPhase

(* The variables have their types, whatever the threads do. *)
THEOREM TypeCorrect == Spec => []TypeOK
  <1>1. Init => TypeOK
    <2>1. <<>> \in Seq(Tables)
      OBVIOUS
    <2> QED
      BY <2>1 DEF Init, NDFileArrow, NoJobs, TypeOK, Formats
  <1>2. TypeOK /\ [Next]_vars => TypeOK'
    <2> SUFFICES ASSUME TypeOK, [Next]_vars PROVE TypeOK'
      OBVIOUS
    <2> PluginTypeOK /\ HostTypeOK
      BY TypeParts
    <2>1. ASSUME NEW t \in Threads, NEW n \in FileNames, NEW mode \in OpenModes,
                 NEW a \in NDArrays, OpenFile(t, n, mode, a)
          PROVE  TypeOK'
      <3>1. CASE UNCHANGED <<pluginVars, fsOK, job, reported>>
        BY <3>1 DEF pluginVars, TypeOK
      <3>2. CASE /\ ColourSupported(a)
                 /\ schema' = createSchema(a)
                 /\ outfile' = [name |-> n, open |-> TRUE]
                 /\ disk' \in Truncated(n)
                 /\ UNCHANGED <<fileFormat, process, fsOK>>
                 /\ job' = JobsWith(t, n, a)
                 /\ reported' = [reported EXCEPT ![n] = NULL]
        <4>1. schema' \in Schemas
          BY <3>2, SchemaType
        <4>2. disk' \in [FileNames -> Seq(Tables)] /\ outfile' \in Streams
          BY <3>2, OpenFileDisk DEF Streams
        <4>3. PluginTypeOK'
          BY <3>2, <4>1, <4>2 DEF PluginTypeOK
        <4>4. HostTypeOK'
          BY <3>2, JobsWithType DEF HostTypeOK
        <4> QED
          BY <4>3, <4>4, TypeParts
      <3> QED
        BY <2>1, <3>1, <3>2, OpenFileEffect DEF OpenFile
    <2>2. ASSUME NEW t \in Threads, WriteFile(t) PROVE TypeOK'
      <3>1. job[t] # NULL /\ job[t].array \in NDArrays
        BY <2>2, JobType DEF WriteFile, InPhase
      <3>2. PICK status : writeFile(job[t].array, status)
        BY <2>2 DEF WriteFile
      <3>3. PluginTypeOK'
        BY <3>1, <3>2, WriteFileEffect, WriteFileDisk DEF PluginTypeOK
      <3>4. \E j \in Jobs \cup {NULL} : job' = [job EXCEPT ![t] = j]
        BY <2>2, <3>1, JobType DEF WriteFile
      <3>5. HostTypeOK'
        BY <2>2, <3>4 DEF WriteFile, HostTypeOK
      <3> QED
        BY <3>3, <3>5, TypeParts
    <2>3. ASSUME NEW t \in Threads, CloseFile(t) PROVE TypeOK'
      <3>1. job[t].array \in NDArrays /\ job[t].name \in FileNames
        BY <2>3, JobType DEF CloseFile, InPhase
      <3>2. PICK status : closeFile(status)
        BY <2>3 DEF CloseFile
      <3>3. PluginTypeOK'
        BY <3>2, CloseFileEffect, CloseFileDisk DEF PluginTypeOK
      <3>4. HostTypeOK'
        BY <2>3, <3>1 DEF CloseFile, HostTypeOK
      <3> QED
        BY <3>3, <3>4, TypeParts
    <2>4. ASSUME Deaths PROVE TypeOK'
      <3>1. PluginTypeOK'
        BY <2>4, DeathEffect, DeathDisk DEF Die, PluginTypeOK, Formats
      <3>2. HostTypeOK'
        BY <2>4, DeathEffect DEF HostTypeOK, NoJobs
      <3> QED
        BY <3>1, <3>2, TypeParts
    <2>5. ASSUME NEW f \in FormatValues \cup {PARQUET}, FormatSet(f) PROVE TypeOK'
      BY <2>5, FormatSetType DEF Formats
    <2>6. CASE Restart
      BY <2>6 DEF Restart, NDFileArrowConfigure, hostVars, TypeOK, Formats
    <2>7. CASE UNCHANGED <<pluginVars, hostVars>> /\ fsOK' \in {fsOK, ~fsOK}
      BY <2>7 DEF pluginVars, hostVars, TypeOK
    <2> QED
      BY <2>1, <2>2, <2>3, <2>4, <2>5, <2>6, <2>7
      DEF Next, Step, Save, Deaths, ReadFile, readFile, ProcessPini, SetFormat, FsChange, vars
  <1> QED
    BY <1>1, <1>2, PTL DEF Spec
-----------------------------------------------------------------------------
(* The threads that have yet to write their table. *)
Owing == {t \in Threads : InPhase(t, {"opened"})}

(* All of them write to the file of the stream. *)
Due(n) == IF outfile # NULL /\ outfile.name = n THEN Cardinality(Owing) ELSE 0

Backlog == \A n \in FileNames : Len(disk[n]) + Due(n) <= Cardinality(Threads)

(* There are never more of them than threads. *)
LEMMA OwingFacts ==
  /\ IsFiniteSet(Owing) /\ Cardinality(Owing) \in Nat
  /\ Cardinality(Threads) \in Nat
  /\ Cardinality(Owing) <= Cardinality(Threads)
  /\ Cardinality(Owing') \in Nat
  /\ Cardinality(Owing') <= Cardinality(Threads)
  <1>1. IsFiniteSet(Threads) /\ Owing \subseteq Threads /\ Owing' \subseteq Threads
    BY HostAssumption DEF Owing
  <1> QED
    BY <1>1, FS_Subset, FS_CardinalityType

(* The arithmetic facts of one file. *)
LEMMA Lengths ==
  ASSUME TypeOK, Backlog, NEW n \in FileNames
  PROVE  /\ Len(disk[n]) \in Nat /\ Due(n) \in Nat
         /\ Len(disk[n]) + Due(n) <= Cardinality(Threads)
  BY OwingFacts DEF TypeOK, Backlog, Due

(* A thread that owes a table may write it. *)
LEMMA BacklogWrite ==
  ASSUME TypeOK, Backlog, NEW t \in Owing, NEW n \in FileNames,
         \/ UNCHANGED disk
         \/ /\ outfile \in Streams
            /\ \E a \in NDArrays, f \in FileFormats, whole \in BOOLEAN :
                 disk' = DiskWith(a, f, whole)
  PROVE  /\ Cardinality(Owing \ {t}) = Cardinality(Owing) - 1
         /\ Cardinality(Owing) >= 1
         /\ Len(disk'[n]) \in Nat
         /\ Len(disk'[n]) <= Len(disk[n])
              + (IF outfile # NULL /\ outfile.name = n THEN 1 ELSE 0)
  <1>1. Cardinality(Owing \ {t}) = Cardinality(Owing) - 1 /\ Cardinality(Owing) >= 1
    <2>1. IsFiniteSet(Owing \ {t}) /\ Cardinality(Owing \ {t}) = Cardinality(Owing) - 1
      BY OwingFacts, FS_RemoveElement
    <2> QED
      BY <2>1, OwingFacts, FS_CardinalityType
  <1>2. Len(disk[n]) \in Nat
    BY Lengths
  <1> DEFINE one == IF outfile # NULL /\ outfile.name = n THEN 1 ELSE 0
             Grown == Len(disk'[n]) \in Nat /\ Len(disk'[n]) <= Len(disk[n]) + one
  <1>3. one \in {0, 1} /\ (outfile # NULL /\ n = outfile.name => one = 1)
    OBVIOUS
  <1> HIDE DEF one
  <1>4. ASSUME UNCHANGED disk PROVE Grown
    BY <1>2, <1>4, <1>3
  <1>5. ASSUME outfile \in Streams,
               NEW a \in NDArrays, NEW f \in FileFormats, NEW whole \in BOOLEAN,
               disk' = DiskWith(a, f, whole)
        PROVE  Grown
    <2>1. outfile # NULL /\ disk \in [FileNames -> Seq(Tables)]
      BY <1>5, NullAssumption DEF TypeOK
    <2>2. CASE n = outfile.name
      <3>1. Len(disk'[n]) = Len(disk[n]) + 1
        BY <1>5, <2>1, <2>2, DiskWithType
      <3> QED
        BY <1>2, <1>3, <2>1, <2>2, <3>1
    <2>3. CASE n # outfile.name
      <3>1. disk'[n] = disk[n]
        BY <1>5, <2>1, <2>3, DiskWithType
      <3> QED
        BY <1>2, <1>3, <3>1
    <2> QED
      BY <2>2, <2>3
  <1>6. Grown
    BY <1>4, <1>5
  <1> QED
    BY <1>1, <1>6 DEF one

(* Saves that interleave put at most one table per thread into a file      *)
(* (openFile, writeFile and closeFile on one shared stream).               *)
THEOREM TablesBounded == Spec => []OneTablePerThread
  <1>1. Init => Backlog
    <2> SUFFICES ASSUME Init, NEW n \in FileNames
                 PROVE  Len(disk[n]) + Due(n) <= Cardinality(Threads)
      BY DEF Backlog
    <2>1. disk[n] = <<>> /\ Due(n) = 0
      BY DEF Init, NDFileArrow, Due
    <2> QED
      BY <2>1, OwingFacts
  <1>2. TypeOK /\ Backlog /\ [Next]_vars => Backlog'
    <2> SUFFICES ASSUME TypeOK, Backlog, [Next]_vars, NEW n \in FileNames
                 PROVE  Len(disk'[n]) + Due(n)' <= Cardinality(Threads)
      BY DEF Backlog
    <2> DEFINE Bounded == Len(disk'[n]) + Due(n)' <= Cardinality(Threads)
    <2>0. ASSUME UNCHANGED <<disk, outfile>>, Owing' = Owing PROVE Bounded
      BY <2>0, Lengths DEF Due
    <2>1. ASSUME NEW t \in Threads, NEW m \in FileNames, NEW mode \in OpenModes,
                 NEW a \in NDArrays, OpenFile(t, m, mode, a)
          PROVE  Bounded
      <3>1. CASE outfile' = [name |-> m, open |-> TRUE] /\ disk' \in Truncated(m)
        <4>1. CASE m = n
          <5>1. disk'[n] = <<>>
            BY <3>1, <4>1, OpenFileDisk
          <5> QED
            BY <5>1, OwingFacts DEF Due
        <4>2. CASE m # n
          <5>1. Len(disk'[n]) = Len(disk[n])
            BY <3>1, <4>2, OpenFileDisk
          <5>2. Due(n)' = 0
            BY <3>1, <4>2 DEF Due
          <5> QED
            BY <5>1, <5>2, Lengths, OwingFacts
        <4> QED
          BY <4>1, <4>2
      <3>2. CASE UNCHANGED <<pluginVars, job>>
        BY <2>0, <3>2 DEF pluginVars, Owing, InPhase
      <3> QED
        BY <2>1, <3>1, <3>2, OpenFileEffect DEF OpenFile
    <2>2. ASSUME outfile' = NULL, disk' \in AfterClose PROVE Bounded
      <3>1. Len(disk'[n]) = Len(disk[n])
        BY <2>2, Closing, DiskTornType DEF TypeOK
      <3> QED
        BY <2>2, <3>1, Lengths, OwingFacts DEF Due
    <2>3. ASSUME NEW t \in Threads, CutFor(t), outfile' = NULL PROVE Bounded
      <3>1. t \in Owing /\ outfile \in Streams
            /\ \E a \in NDArrays, f \in FileFormats, whole \in BOOLEAN :
                 disk' = DiskWith(a, f, whole)
        BY <2>3 DEF CutFor, Owing, Jobs
      <3>2. Due(n)' = 0
        BY <2>3 DEF Due
      <3> DEFINE one == IF outfile # NULL /\ outfile.name = n THEN 1 ELSE 0
      <3>3. /\ Cardinality(Owing) >= 1
            /\ Len(disk'[n]) \in Nat /\ Len(disk'[n]) <= Len(disk[n]) + one
        BY <3>1, BacklogWrite
      <3>4. one <= Due(n) /\ one \in Nat
        BY <3>3, OwingFacts DEF Due
      <3> HIDE DEF one
      <3> QED
        BY <3>2, <3>3, <3>4, Lengths, OwingFacts
    <2>4. ASSUME NEW t \in Threads, WriteFile(t) PROVE Bounded
      <3>1. t \in Owing /\ job[t] \in Jobs /\ job[t].array \in NDArrays
        BY <2>4, JobType DEF WriteFile, Owing, InPhase
      <3>2. Owing' = Owing \ {t}
        <4>1. job'[t] = NULL \/ job'[t].phase # "opened"
          BY <2>4, <3>1 DEF WriteFile, TypeOK, Jobs
        <4>2. \A u \in Threads : u # t => job'[u] = job[u]
          BY <2>4 DEF WriteFile, TypeOK
        <4> QED
          BY <4>1, <4>2 DEF Owing, InPhase
      <3>3. PICK status : writeFile(job[t].array, status)
        BY <2>4 DEF WriteFile
      <3>4. /\ UNCHANGED outfile
            /\ \/ UNCHANGED disk
               \/ /\ outfile \in Streams
                  /\ \E a \in NDArrays, f \in FileFormats, whole \in BOOLEAN :
                       disk' = DiskWith(a, f, whole)
        BY <3>1, <3>3, WriteFileEffect
      <3> DEFINE one == IF outfile # NULL /\ outfile.name = n THEN 1 ELSE 0
      <3>5. /\ Cardinality(Owing') = Cardinality(Owing) - 1 /\ Cardinality(Owing) >= 1
            /\ Len(disk'[n]) \in Nat /\ Len(disk'[n]) <= Len(disk[n]) + one
        BY <3>1, <3>2, <3>4, BacklogWrite
      <3>6. Due(n)' = Due(n) - one /\ one \in Nat
        BY <3>4, <3>5, OwingFacts DEF Due
      <3> HIDE DEF one
      <3> QED
        BY <3>5, <3>6, Lengths, OwingFacts
    <2>5. ASSUME NEW t \in Threads, CloseFile(t) PROVE Bounded
      <3>1. Owing' = Owing
        BY <2>5 DEF CloseFile, Owing, InPhase, TypeOK
      <3>2. PICK status : closeFile(status)
        BY <2>5 DEF CloseFile
      <3>3. CASE outfile' = NULL /\ UNCHANGED disk
        BY <2>2, <3>3 DEF AfterClose
      <3>4. CASE /\ outfile # NULL /\ outfile \in Streams
                 /\ outfile'.name = outfile.name /\ disk' \in {disk, DiskTorn}
        <4>1. Len(disk'[n]) = Len(disk[n])
          BY <3>4, DiskTornType DEF TypeOK
        <4>2. Due(n)' \in {0, Due(n)}
          BY <3>1, <3>4 DEF Due
        <4> QED
          BY <4>1, <4>2, Lengths, OwingFacts
      <3> QED
        BY <3>2, <3>3, <3>4, CloseFileEffect
    <2>6. ASSUME Deaths PROVE Bounded
      BY <2>2, <2>3, <2>6, DeathEffect DEF Die
    <2>7. CASE Restart
      BY <2>2, <2>7 DEF Restart, NDFileArrowConfigure, AfterClose
    <2>8. ASSUME NEW f \in FormatValues \cup {PARQUET}, FormatSet(f) PROVE Bounded
      <3>1. Owing' = Owing
        BY <2>8, FormatSetJobs DEF Owing, InPhase, Formats
      <3> QED
        BY <2>0, <2>8, <3>1 DEF FormatSet
    <2>9. CASE UNCHANGED <<pluginVars, hostVars>>
      BY <2>0, <2>9 DEF pluginVars, hostVars, Owing, InPhase
    <2> QED
      BY <2>1, <2>4, <2>5, <2>6, <2>7, <2>8, <2>9
      DEF Next, Step, Save, Deaths, ReadFile, readFile, ProcessPini, SetFormat, FsChange, vars
  <1>3. TypeOK /\ Backlog => OneTablePerThread
    BY Lengths, OwingFacts DEF OneTablePerThread
  <1> QED
    BY <1>1, <1>2, <1>3, TypeCorrect, PTL DEF Spec
-----------------------------------------------------------------------------
(* Saves that are alone.                                                   *)
(*                                                                         *)
(* What is promised of them is not inductive.  What makes it so is what    *)
(* each phase of such a save knows of the shared schema, stream and file,  *)
(* and that there is only one such save.                                   *)
Solo(t) == job[t] # NULL /\ job[t].alone

OnlySave == \A t, u \in Threads : Solo(t) /\ u # t => job[u] = NULL

(* All tables of a file show one array. *)
Shows(s, a) == \A k \in 1 .. Len(s) : s[k].array = a

OwnFile(t) ==
  Solo(t) => /\ outfile # NULL /\ outfile.name = job[t].name
             /\ Shows(disk[job[t].name], job[t].array)

OpenedOK(t) ==
  LET a == job[t].array
      n == job[t].name
  IN  Solo(t) /\ job[t].phase = "opened" =>
        /\ ColourSupported(a)
        /\ schema = createSchema(a)
        /\ outfile = [name |-> n, open |-> TRUE]
        /\ disk[n] = <<>>
        /\ fileFormat \in job[t].formats

WrittenOK(t) ==
  LET a == job[t].array
      n == job[t].name
  IN  Solo(t) /\ job[t].phase = "written" =>
        \E f \in FileFormats :
          /\ disk[n] = <<[array |-> a, format |-> Writer(f),
                          exact |-> Exact(createSchema(a), a), whole |-> TRUE]>>
          /\ NULL \in job[t].formats \/ f \in job[t].formats

SaveInv ==
  /\ ~Running => \A t \in Threads : job[t] = NULL
  /\ OnlySave
  /\ \A t \in Threads : OwnFile(t) /\ OpenedOK(t) /\ WrittenOK(t)
  /\ NoStreamOnSavedFile
  /\ SavedFilesIntact

(* What is to be shown of a step after which no save is alone. *)
LEMMA NoneAlone ==
  ASSUME \A t \in Threads : ~Solo(t)',
         ~Running' => \A t \in Threads : job'[t] = NULL,
         NoStreamOnSavedFile', SavedFilesIntact'
  PROVE  SaveInv'
  BY DEF SaveInv, OnlySave, OwnFile, OpenedOK, WrittenOK

(* And of one after which a save is. *)
LEMMA OneAlone ==
  ASSUME NEW t \in Threads, Running', \A u \in Threads : u # t => job'[u] = NULL,
         OwnFile(t)', OpenedOK(t)', WrittenOK(t)',
         NoStreamOnSavedFile', SavedFilesIntact'
  PROVE  SaveInv'
  <1>1. \A u \in Threads : u # t => ~Solo(u)'
    BY DEF Solo
  <1>2. OnlySave'
    BY <1>1 DEF OnlySave
  <1>3. \A u \in Threads : OwnFile(u)' /\ OpenedOK(u)' /\ WrittenOK(u)'
    BY <1>1 DEF OwnFile, OpenedOK, WrittenOK
  <1> QED
    BY <1>2, <1>3 DEF SaveInv

(* While a save that is not alone is under way no other save is. *)
LEMMA OthersNotAlone ==
  ASSUME SaveInv, NEW t \in Threads, job[t] # NULL, ~Solo(t), NEW u \in Threads
  PROVE  ~Solo(u)
  BY DEF SaveInv, OnlySave

(* Whatever happens to the file of the stream, saved files are intact. *)
LEMMA OthersIntact ==
  ASSUME TypeOK, SaveInv, UNCHANGED reported,
         \A n \in FileNames : disk'[n] # disk[n] => outfile # NULL /\ n = outfile.name
  PROVE  SavedFilesIntact'
  BY DEF SaveInv, NoStreamOnSavedFile, SavedFilesIntact, Holds, Representable

(* The array of a save that is alone in its first phase. *)
LEMMA OpenedFacts ==
  ASSUME TypeOK, SaveInv, NEW t \in Threads, Solo(t), job[t].phase = "opened"
  PROVE  /\ job[t] \in Jobs /\ job[t].array \in NDArrays /\ job[t].name \in FileNames
         /\ ColourSupported(job[t].array)
         /\ schema = createSchema(job[t].array) /\ schema # NULL
         /\ outfile = [name |-> job[t].name, open |-> TRUE] /\ outfile # NULL
         /\ outfile \in Streams
         /\ disk[job[t].name] = <<>>
         /\ fileFormat \in job[t].formats
         /\ FieldsFound(job[t].array)
  <1> DEFINE a == job[t].array
  <1>1. /\ job[t] \in Jobs /\ a \in NDArrays /\ job[t].name \in FileNames
        /\ ColourSupported(a)
        /\ schema = createSchema(a)
        /\ outfile = [name |-> job[t].name, open |-> TRUE]
        /\ disk[job[t].name] = <<>>
        /\ fileFormat \in job[t].formats
    BY JobType DEF SaveInv, OpenedOK, Solo
  <1>2. schema # NULL /\ outfile # NULL /\ outfile \in Streams
    <2> HIDE DEF a
    <2>1. schema \in Schemas
      BY <1>1, SchemaType
    <2>2. outfile \in Streams
      BY <1>1 DEF Streams
    <2> QED
      BY <2>1, <2>2, NullAssumption
  <1>3. schema.channels = Channels[a.colorMode]
    BY <1>1 DEF createSchema
  <1>4. a.colorMode = "Mono" \/ a.colorMode = "RGB1"
    BY <1>1 DEF ColourSupported, Channels
  <1>5. CASE a.colorMode = "Mono"
    <2>1. schema.channels = <<"Intensity">>
      BY <1>3, <1>5 DEF Channels
    <2>2. 1 \in DOMAIN schema.channels /\ schema.channels[1] = PixelField(a)
      BY <2>1, <1>5 DEF PixelField
    <2> QED
      BY <1>1, <1>2, <2>2 DEF FieldsFound
  <1>6. CASE a.colorMode = "RGB1"
    <2>1. schema.channels = <<"R", "G", "B">>
      BY <1>3, <1>6 DEF Channels
    <2>2. 1 \in DOMAIN schema.channels /\ schema.channels[1] = PixelField(a)
      BY <2>1, <1>6 DEF PixelField
    <2> QED
      BY <1>1, <1>2, <2>2 DEF FieldsFound
  <1> QED
    BY <1>1, <1>2, <1>4, <1>5, <1>6

(* The end of the process. *)
LEMMA DeathSafe ==
  ASSUME TypeOK, SaveInv, Deaths
  PROVE  SaveInv'
  <1>1. outfile' = NULL /\ \A t \in Threads : job'[t] = NULL
    BY DeathEffect DEF Die, NoJobs
  <1>2. SavedFilesIntact'
    BY DeathEffect, DeathDisk, OthersIntact
  <1> QED
    BY <1>1, <1>2, NoneAlone DEF Solo, NoStreamOnSavedFile

(* The saves after a successful openFile: its own is alone or none is. *)
LEMMA Solitude ==
  ASSUME TypeOK, NEW t \in Threads, NEW n \in FileNames, NEW a \in NDArrays,
         job' = JobsWith(t, n, a)
  PROVE  /\ job'[t] = [phase |-> "opened", name |-> n, array |-> a, alone |-> job = NoJobs,
                       formats |-> IF job = NoJobs THEN {fileFormat} ELSE {}]
         /\ job = NoJobs => \A u \in Threads : u # t => job'[u] = NULL
         /\ job # NoJobs => \A u \in Threads : ~Solo(u)'
  <1>1. job'[t] = [phase |-> "opened", name |-> n, array |-> a, alone |-> job = NoJobs,
                   formats |-> IF job = NoJobs THEN {fileFormat} ELSE {}]
    BY DEF JobsWith
  <1>2. \A u \in Threads : u # t =>
          job'[u] = IF job[u] = NULL THEN NULL
                    ELSE [job[u] EXCEPT !.alone = FALSE, !.formats = {}]
    BY DEF JobsWith
  <1>3. ASSUME NEW u \in Threads, u # t, job[u] # NULL PROVE ~Solo(u)'
    <2>1. job'[u].alone = FALSE
      BY <1>2, <1>3, JobType DEF Jobs
    <2> QED
      BY <2>1 DEF Solo
  <1>4. ASSUME job # NoJobs PROVE ~Solo(t)'
    <2>1. job'[t].alone = (job = NoJobs)
      BY <1>1
    <2>2. ~job'[t].alone
      BY <1>4, <2>1, Zenon
    <2> QED
      BY <2>2 DEF Solo
  <1>5. ASSUME NEW u \in Threads, u # t, job[u] = NULL PROVE job'[u] = NULL
    BY <1>2, <1>5
  <1>6. job = NoJobs => \A u \in Threads : job[u] = NULL
    BY DEF NoJobs
  <1>7. job = NoJobs => \A u \in Threads : u # t => job'[u] = NULL
    BY <1>5, <1>6
  <1>8. job # NoJobs => \A u \in Threads : ~Solo(u)'
    <2>1. \A u \in Threads : job'[u] = NULL => ~Solo(u)'
      BY DEF Solo
    <2> QED
      BY <2>1, <1>3, <1>4, <1>5
  <1> QED
    BY <1>1, <1>7, <1>8

(* openFile keeps the invariant: the file it truncates is not reported. *)
LEMMA OpenFileSafe ==
  ASSUME TypeOK, SaveInv,
         NEW t \in Threads, NEW n \in FileNames, NEW mode, NEW a \in NDArrays,
         OpenFile(t, n, mode, a)
  PROVE  SaveInv'
  <1>1. CASE UNCHANGED <<pluginVars, job, reported>>
    BY <1>1 DEF pluginVars, SaveInv, OnlySave, Solo, Running, OwnFile, OpenedOK, WrittenOK,
       NoStreamOnSavedFile, SavedFilesIntact, Holds
  <1>2. CASE /\ ColourSupported(a)
             /\ schema' = createSchema(a)
             /\ outfile' = [name |-> n, open |-> TRUE]
             /\ disk' \in Truncated(n)
             /\ UNCHANGED <<fileFormat, process>>
             /\ job' = JobsWith(t, n, a)
             /\ reported' = [reported EXCEPT ![n] = NULL]
    <2>1. reported'[n] = NULL /\ disk'[n] = <<>>
      BY <1>2, OpenFileDisk DEF TypeOK
    <2>2. \A m \in FileNames : m # n /\ reported'[m] # NULL =>
            disk'[m] = disk[m] /\ reported'[m] = reported[m]
      <3>1. \A m \in FileNames : m # n => reported'[m] = reported[m]
        BY <1>2 DEF TypeOK
      <3>2. \A m \in FileNames : m # n /\ disk'[m] # disk[m] => reported[m] = NULL
        BY <1>2, OpenFileDisk DEF SaveInv, NoStreamOnSavedFile
      <3> QED
        BY <3>1, <3>2
    <2>3. SavedFilesIntact'
      BY <2>1, <2>2 DEF SaveInv, SavedFilesIntact, Holds, Representable
    <2>4. outfile'.name = n /\ outfile' \in Streams
      BY <1>2 DEF Streams
    <2>5. NoStreamOnSavedFile' /\ Running' /\ outfile' # NULL
      BY <1>2, <2>1, <2>4, NullAssumption DEF OpenFile, Running, NoStreamOnSavedFile
    <2>6. CASE job # NoJobs
      BY <1>2, <2>3, <2>5, <2>6, Solitude, NoneAlone
    <2>7. CASE job = NoJobs
      <3>1. /\ job'[t] = [phase |-> "opened", name |-> n, array |-> a, alone |-> TRUE,
                          formats |-> {fileFormat}]
            /\ \A u \in Threads : u # t => job'[u] = NULL
        BY <1>2, <2>7, Solitude
      <3>2. /\ job'[t].phase = "opened" /\ job'[t].array = a /\ job'[t].name = n
            /\ job'[t].formats = {fileFormat}
        BY <3>1
      <3>3. OwnFile(t)'
        BY <2>1, <2>4, <2>5, <3>2 DEF OwnFile, Shows
      <3>4. OpenedOK(t)'
        BY <1>2, <2>1, <3>2 DEF OpenedOK
      <3>5. WrittenOK(t)'
        BY <3>2 DEF WrittenOK
      <3> QED
        BY <2>3, <2>5, <3>1, <3>3, <3>4, <3>5, OneAlone
    <2> QED
      BY <2>6, <2>7
  <1> QED
    BY <1>1, <1>2, OpenFileEffect DEF OpenFile

(* A file with a single table shows a single array. *)
LEMMA OneTable ==
  ASSUME NEW a, NEW f, NEW whole \in BOOLEAN
  PROVE  Shows(<<Table(a, f, whole)>>, a)
  <1> DEFINE s == <<Table(a, f, whole)>>
  <1>1. Len(s) = 1 /\ s[1] = Table(a, f, whole)
    OBVIOUS
  <1>2. Table(a, f, whole).array = a
    BY DEF Table
  <1> HIDE DEF s
  <1>3. Shows(s, a)
    BY <1>1, <1>2 DEF Shows
  <1> QED
    BY <1>3 DEF s

(* The table of a save that is alone is the first in its file. *)
LEMMA FirstTable ==
  ASSUME TypeOK, SaveInv, NEW t \in Threads, Solo(t), job[t].phase = "opened",
         NEW f \in FileFormats, NEW whole \in BOOLEAN,
         disk' = DiskWith(job[t].array, f, whole)
  PROVE  disk'[job[t].name] = <<Table(job[t].array, f, whole)>>
  <1> DEFINE a == job[t].array
             n == job[t].name
  <1>1. a \in NDArrays /\ outfile \in Streams /\ outfile.name = n /\ disk[n] = <<>>
    BY OpenedFacts
  <1>2. disk' = DiskWith(a, f, whole)
    OBVIOUS
  <1> HIDE DEF a, n
  <1>3. disk'[n] = Append(disk[n], Table(a, f, whole))
    BY <1>1, <1>2, DiskWithType DEF TypeOK
  <1>4. disk'[n] = <<Table(a, f, whole)>>
    BY <1>1, <1>3
  <1> QED
    BY <1>4 DEF a, n

(* What writeFile does for a save that is alone: it may refuse, or write   *)
(* the table to the empty file.                                            *)
LEMMA SoloWrite ==
  ASSUME TypeOK, SaveInv, NEW t \in Threads, Solo(t), job[t].phase = "opened",
         NEW status, writeFile(job[t].array, status)
  PROVE  /\ UNCHANGED <<schema, outfile, fileFormat, process>>
         /\ \/ disk'[job[t].name] = <<>> /\ status = "asynError"
            \/ \E f \in FormatsRead \cap FileFormats, whole \in BOOLEAN :
                 /\ disk'[job[t].name] = <<Table(job[t].array, f, whole)>>
                 /\ status = WriteStatus(whole)
  <1>1. job[t].array \in NDArrays /\ disk[job[t].name] = <<>>
    BY OpenedFacts
  <1>2. /\ UNCHANGED <<schema, outfile, fileFormat, process>>
        /\ \/ UNCHANGED disk /\ status = "asynError"
           \/ \E f \in FormatsRead \cap FileFormats, whole \in BOOLEAN :
                disk' = DiskWith(job[t].array, f, whole) /\ status = WriteStatus(whole)
    BY <1>1, WriteFileEffect
  <1> QED
    BY <1>1, <1>2, FirstTable

(* writeFile keeps the invariant. *)
LEMMA WriteFileSafe ==
  ASSUME TypeOK, SaveInv, NEW t \in Threads, WriteFile(t)
  PROVE  SaveInv'
  <1>1. /\ Running /\ job[t] # NULL /\ job[t].phase = "opened" /\ job[t].array \in NDArrays
        /\ job[t] \in Jobs
    BY JobType DEF WriteFile, InPhase
  <1>2. PICK status :
          /\ writeFile(job[t].array, status)
          /\ \/ status = "asynSuccess" /\ job' = [job EXCEPT ![t].phase = "written"]
             \/ /\ status = "asynError"
                /\ \/ job' = [job EXCEPT ![t].phase = "failed"]
                   \/ job' = [job EXCEPT ![t] = NULL]
    BY DEF WriteFile
  <1>3. UNCHANGED <<schema, outfile, fileFormat, process, reported>>
    BY <1>1, <1>2, WriteFileEffect DEF WriteFile
  <1>4. SavedFilesIntact' /\ NoStreamOnSavedFile' /\ Running'
    <2>1. SavedFilesIntact'
      BY <1>1, <1>2, <1>3, WriteFileDisk, OthersIntact
    <2> QED
      BY <2>1, <1>1, <1>3 DEF Running, SaveInv, NoStreamOnSavedFile
  <1>5. \A u \in Threads : u # t => job'[u] = job[u]
    BY <1>2 DEF TypeOK
  <1>6. job'[t] # NULL =>
          /\ job'[t].phase = (IF status = "asynSuccess" THEN "written" ELSE "failed")
          /\ job'[t].name = job[t].name /\ job'[t].array = job[t].array
          /\ job'[t].formats = job[t].formats /\ job'[t].alone = job[t].alone
    BY <1>1, <1>2 DEF TypeOK, Jobs
  <1>7. CASE ~Solo(t)
    <2>1. ~Solo(t)'
      BY <1>1, <1>6, <1>7 DEF Solo
    <2>2. \A u \in Threads : u # t => ~Solo(u)'
      BY <1>1, <1>5, <1>7, OthersNotAlone DEF Solo
    <2> QED
      BY <1>4, <2>1, <2>2, NoneAlone
  <1>8. CASE Solo(t)
    <2>1. \A u \in Threads : u # t => job'[u] = NULL
      BY <1>5, <1>8 DEF SaveInv, OnlySave
    <2> DEFINE a == job[t].array
               n == job[t].name
    <2>2. /\ schema = createSchema(a) /\ outfile # NULL /\ outfile.name = n
          /\ fileFormat \in job[t].formats
      BY <1>1, <1>8, OpenedFacts
    <2>3. \/ disk'[n] = <<>> /\ status = "asynError"
          \/ \E f \in FormatsRead \cap FileFormats, whole \in BOOLEAN :
               disk'[n] = <<Table(a, f, whole)>> /\ status = WriteStatus(whole)
      BY <1>1, <1>2, <1>8, SoloWrite
    <2>4. Shows(disk'[n], a)
      <3> HIDE DEF a, n
      <3>1. disk'[n] = <<>> => Shows(disk'[n], a)
        BY DEF Shows
      <3> QED
        BY <2>3, <3>1, OneTable
    <2>5. status = "asynSuccess" =>
            \E f \in FileFormats :
              /\ disk'[n] = <<Table(a, f, TRUE)>>
              /\ NULL \in job[t].formats \/ f \in job[t].formats
      <3>1. ASSUME status = "asynSuccess", NEW f \in FormatsRead \cap FileFormats,
                   NEW whole \in BOOLEAN,
                   disk'[n] = <<Table(a, f, whole)>>, status = WriteStatus(whole)
            PROVE  /\ disk'[n] = <<Table(a, f, TRUE)>>
                   /\ NULL \in job[t].formats \/ f \in job[t].formats
        <4>1. whole = TRUE
          BY <3>1 DEF WriteStatus
        <4>2. NULL \in job[t].formats \/ f \in job[t].formats
          BY <2>2, <3>1 DEF FormatsRead
        <4> QED
          BY <3>1, <4>1, <4>2
      <3> QED
        BY <2>3, <3>1
    <2>6. \A f : Table(a, f, TRUE) =
            [array |-> a, format |-> Writer(f), exact |-> Exact(createSchema(a), a),
             whole |-> TRUE]
      BY <2>2 DEF Table
    <2> HIDE DEF a, n
    <2>7. CASE job'[t] = NULL
      <3>1. \A u \in Threads : ~Solo(u)'
        BY <2>1, <2>7 DEF Solo
      <3> QED
        BY <1>4, <3>1, NoneAlone
    <2>8. CASE job'[t] # NULL
      <3>1. /\ job'[t].phase = (IF status = "asynSuccess" THEN "written" ELSE "failed")
            /\ job'[t].name = n /\ job'[t].array = a
            /\ job'[t].formats = job[t].formats
        BY <1>6, <2>8 DEF a, n
      <3>2. OwnFile(t)'
        BY <1>3, <2>2, <2>4, <3>1 DEF OwnFile
      <3>3. OpenedOK(t)'
        BY <3>1 DEF OpenedOK
      <3>4. WrittenOK(t)'
        BY <2>5, <2>6, <3>1 DEF WrittenOK
      <3> QED
        BY <1>4, <2>1, <3>2, <3>3, <3>4, OneAlone
    <2> QED
      BY <2>7, <2>8
  <1> QED
    BY <1>7, <1>8

(* closeFile keeps it: a file is only reported once its stream is gone. *)
LEMMA CloseFileSafe ==
  ASSUME TypeOK, SaveInv, NEW t \in Threads, CloseFile(t)
  PROVE  SaveInv'
  <1> DEFINE a == job[t].array
             n == job[t].name
  <1>1. /\ Running /\ job[t] # NULL /\ a \in NDArrays /\ n \in FileNames
        /\ job'[t] = NULL /\ \A u \in Threads : u # t => job'[u] = job[u]
    BY JobType DEF CloseFile, InPhase, TypeOK
  <1>2. PICK status \in Statuses :
          /\ closeFile(status)
          /\ reported' = IF status = "asynSuccess" /\ job[t].phase = "written" /\ job[t].alone
                         THEN [reported EXCEPT ![n] = a] ELSE reported
    BY DEF CloseFile
  <1>3. \A u \in Threads : ~Solo(u)'
    BY <1>1, OthersNotAlone DEF SaveInv, OnlySave, Solo
  <1>4. /\ UNCHANGED process
        /\ \/ outfile' = NULL /\ UNCHANGED disk /\ status = "asynSuccess"
           \/ /\ outfile # NULL /\ outfile'.name = outfile.name
              /\ status = "asynError"
    <2>1. closeFile(status)
      BY <1>2
    <2> QED
      BY <2>1, CloseFileEffect
  <1>5. CASE UNCHANGED reported
    <2>1. SavedFilesIntact'
      BY <1>2, <1>5, CloseFileDisk, OthersIntact
    <2>2. NoStreamOnSavedFile' /\ Running'
      BY <1>1, <1>4, <1>5 DEF SaveInv, NoStreamOnSavedFile, Running
    <2> QED
      BY <1>3, <2>1, <2>2, NoneAlone
  <1>6. CASE /\ status = "asynSuccess" /\ job[t].phase = "written" /\ job[t].alone
             /\ reported' = [reported EXCEPT ![n] = a]
    <2>1. outfile' = NULL /\ UNCHANGED disk
      BY <1>4, <1>6
    <2>2. PICK f : disk[n] = <<[array |-> a, format |-> Writer(f),
                                exact |-> Exact(createSchema(a), a), whole |-> TRUE]>>
      BY <1>1, <1>6 DEF SaveInv, WrittenOK, Solo
    <2>3. /\ Len(disk[n]) = 1 /\ disk[n][1].array = a
          /\ disk[n][1].exact = Exact(createSchema(a), a) /\ disk[n][1].whole
      BY <2>2
    <2> HIDE DEF a, n
    <2>4. reported'[n] = a /\ \A m \in FileNames : m # n => reported'[m] = reported[m]
      BY <1>1, <1>6 DEF TypeOK
    <2>5. SavedFilesIntact'
      <3>1. Representable(a) => Exact(createSchema(a), a)
        BY <1>1, RepresentableExact
      <3> QED
        BY <2>1, <2>3, <2>4, <3>1 DEF SaveInv, SavedFilesIntact, Holds, Representable
    <2>6. NoStreamOnSavedFile' /\ Running'
      BY <1>1, <1>4, <2>1 DEF NoStreamOnSavedFile, Running
    <2> QED
      BY <1>3, <2>5, <2>6, NoneAlone
  <1> QED
    BY <1>2, <1>5, <1>6

(* Setting the format keeps it: a save still to write its table learns of  *)
(* the value, one that has written it does not care.                       *)
LEMMA FormatSetSafe ==
  ASSUME TypeOK, SaveInv, Running, NEW f \in Formats, FormatSet(f)
  PROVE  SaveInv'
  <1>1. \A t \in Threads : (job'[t] = NULL <=> job[t] = NULL) /\ (Solo(t)' <=> Solo(t))
    BY FormatSetJobs DEF Solo
  <1>2. Running' /\ UNCHANGED <<schema, outfile, disk, reported>> /\ fileFormat' = f
    BY DEF Running, FormatSet
  <1>3. SavedFilesIntact' /\ NoStreamOnSavedFile' /\ OnlySave'
    BY <1>1, <1>2
    DEF SaveInv, SavedFilesIntact, Holds, Representable, NoStreamOnSavedFile, OnlySave
  <1>4. ASSUME NEW t \in Threads PROVE OwnFile(t)' /\ OpenedOK(t)' /\ WrittenOK(t)'
    <2>1. CASE ~Solo(t)
      BY <1>1, <2>1 DEF OwnFile, OpenedOK, WrittenOK
    <2>2. CASE Solo(t)
      <3>1. OwnFile(t) /\ OpenedOK(t) /\ WrittenOK(t)
        BY DEF SaveInv
      <3>2. /\ job'[t].phase = job[t].phase
            /\ job'[t].name = job[t].name /\ job'[t].array = job[t].array
            /\ job[t].formats \subseteq job'[t].formats
            /\ job[t].phase = "opened" => f \in job'[t].formats
        BY <2>2, FormatSetJobs DEF Solo
      <3>3. OwnFile(t)'
        BY <1>2, <2>2, <3>1, <3>2 DEF OwnFile
      <3>4. OpenedOK(t)'
        BY <1>2, <2>2, <3>1, <3>2 DEF OpenedOK
      <3>5. WrittenOK(t)'
        BY <1>2, <2>2, <3>1, <3>2 DEF WrittenOK
      <3> QED
        BY <3>3, <3>4, <3>5
    <2> QED
      BY <2>1, <2>2
  <1> QED
    BY <1>2, <1>3, <1>4 DEF SaveInv

(* The invariant holds in every state. *)
LEMMA SaveInvariant == Spec => []SaveInv
  <1>1. Init => SaveInv
    BY DEF Init, NDFileArrow, NoJobs, SaveInv, Running, OnlySave, Solo, OwnFile, OpenedOK,
       WrittenOK, NoStreamOnSavedFile, SavedFilesIntact
  <1>2. TypeOK /\ SaveInv /\ [Next]_vars => SaveInv'
    <2> SUFFICES ASSUME TypeOK, SaveInv, [Next]_vars PROVE SaveInv'
      OBVIOUS
    <2>1. ASSUME NEW f \in FormatValues \cup {PARQUET}, Running, FormatSet(f) PROVE SaveInv'
      BY <2>1, FormatSetSafe DEF Formats
    <2>2. CASE Restart
      <3>1. \A t \in Threads : job'[t] = NULL
        BY <2>2 DEF SaveInv, Restart, hostVars
      <3>2. outfile' = NULL /\ UNCHANGED <<disk, reported>>
        BY <2>2 DEF Restart, NDFileArrowConfigure, hostVars
      <3>3. SavedFilesIntact' /\ NoStreamOnSavedFile'
        BY <3>2 DEF SaveInv, SavedFilesIntact, Holds, Representable, NoStreamOnSavedFile
      <3> QED
        BY <3>1, <3>3, NoneAlone DEF Solo
    <2>3. CASE UNCHANGED <<pluginVars, hostVars>>
      BY <2>3 DEF pluginVars, hostVars, SaveInv, OnlySave, Solo, Running, OwnFile, OpenedOK,
         WrittenOK, NoStreamOnSavedFile, SavedFilesIntact, Holds, Representable
    <2> QED
      BY <2>1, <2>2, <2>3, OpenFileSafe, WriteFileSafe, CloseFileSafe, DeathSafe
      DEF Next, Step, Save, Deaths, ReadFile, readFile, ProcessPini, SetFormat, FsChange, vars
  <1> QED
    BY <1>1, <1>2, TypeCorrect, PTL DEF Spec
-----------------------------------------------------------------------------
(* A file reported as saved keeps its array, whole and exact, through      *)
(* other saves and their failures, deaths and restarts (closeFile drops    *)
(* the stream before the save is reported).                                *)
THEOREM SavedStaysSaved == Spec => []SavedFilesIntact
  BY SaveInvariant, PTL DEF SaveInv

(* The stream a failed closeFile or an abandoned save leaves behind is     *)
(* never that of a file reported as saved.                                 *)
THEOREM StrayStreamHarmless == Spec => []NoStreamOnSavedFile
  BY SaveInvariant, PTL DEF SaveInv

(* In writeFile of a save that is alone the object's schema and stream are *)
(* those that its own openFile made.                                       *)
THEOREM JobOwnsState == Spec => []SchemaOfJob
  <1>1. SaveInv => SchemaOfJob
    BY DEF SaveInv, OpenedOK, Solo, SchemaOfJob, InPhase
  <1> QED
    BY <1>1, SaveInvariant, PTL

(* writeFile's branches are in the order of the menu's entries. *)
LEMMA MenuWriters == \A f \in FileFormats : Writer(f) = Menu[f]
  <1>1. FileFormats = {0, 1, 2}
    BY DEF FileFormats, PARQUET, CSV, IPC
  <1>2. Menu[0] = "Parquet" /\ Menu[1] = "CSV" /\ Menu[2] = "Arrow IPC"
    <2> DEFINE names == <<"Parquet", "CSV", "Arrow IPC">>
    <2>1. names[1] = "Parquet" /\ names[2] = "CSV" /\ names[3] = "Arrow IPC"
      OBVIOUS
    <2>2. Menu = [f \in {0, 1, 2} |-> names[f + 1]]
      BY <1>1 DEF Menu
    <2> HIDE DEF names
    <2>3. Menu[0] = names[0 + 1] /\ Menu[1] = names[1 + 1] /\ Menu[2] = names[2 + 1]
      BY <2>2
    <2>4. 0 + 1 = 1 /\ 1 + 1 = 2 /\ 2 + 1 = 3
      OBVIOUS
    <2> QED
      BY <2>1, <2>3, <2>4, Zenon
  <1>3. Writer(0) = "Parquet" /\ Writer(1) = "CSV" /\ Writer(2) = "Arrow IPC"
    BY DEF Writer, PARQUET, IPC
  <1> QED
    BY <1>1, <1>2, <1>3

(* The parameter may be set between openFile and the read of it in         *)
(* writeFile: the file is in a format that was selected in between.        *)
THEOREM FormatHonoured == Spec => []WrittenInFormat
  <1>1. SaveInv => WrittenInFormat
    <2> SUFFICES ASSUME SaveInv, NEW t \in Threads, InPhase(t, {"written"}), job[t].alone,
                        NULL \notin job[t].formats
                 PROVE  /\ Len(disk[job[t].name]) = 1
                        /\ \E f \in job[t].formats \cap FileFormats :
                             disk[job[t].name][1].format = Menu[f]
      BY DEF WrittenInFormat
    <2> DEFINE tables == disk[job[t].name]
    <2>1. PICK f \in FileFormats :
            /\ tables = <<[array |-> job[t].array, format |-> Writer(f),
                          exact |-> Exact(createSchema(job[t].array), job[t].array),
                          whole |-> TRUE]>>
            /\ f \in job[t].formats
      BY DEF SaveInv, WrittenOK, Solo, InPhase
    <2>2. Len(tables) = 1 /\ tables[1].format = Writer(f)
      <3> HIDE DEF tables
      <3> QED
        BY <2>1
    <2>3. Writer(f) = Menu[f]
      BY MenuWriters
    <2> QED
      BY <2>1, <2>2, <2>3
  <1> QED
    BY <1>1, SaveInvariant, PTL

(* Only a writeFile call ends the process from within a save that is open. *)
LEMMA EndsInWriteFile ==
  ASSUME TypeOK, [Next]_vars, process # process',
         process' \in {"null dereference", "read past the image", "pixel type",
                        "cannot start writer"}
  PROVE  \E t \in Threads : WriteDies(t)
  <1>1. ~Kill /\ ~Restart
    BY DEF Kill, Die, Restart, NDFileArrowConfigure
  <1>2. ASSUME NEW t \in Threads, OpenDies(t) PROVE FALSE
    BY <1>2 DEF OpenDies, openFileDies, Die
  <1>3. ASSUME NEW t \in Threads, WriteFile(t) PROVE FALSE
    BY <1>3, WriteFileEffect, JobType DEF WriteFile, InPhase
  <1>4. ASSUME NEW t \in Threads, CloseFile(t) PROVE FALSE
    BY <1>4, CloseFileEffect DEF CloseFile
  <1>5. ASSUME NEW t \in Threads, NEW n \in FileNames, NEW mode \in OpenModes,
               NEW a \in NDArrays, OpenFile(t, n, mode, a)
        PROVE  FALSE
    BY <1>5, OpenFileEffect DEF OpenFile, pluginVars
  <1> QED
    BY <1>1, <1>2, <1>3, <1>4, <1>5
    DEF Next, Step, Save, ReadFile, readFile, ProcessPini, SetFormat, FormatSet, FsChange,
        vars, pluginVars

(* GetFieldByName finds its columns, the conversion its samples and the    *)
(* writer an open stream, unless saves overlap, the image is too large or  *)
(* the file system fails.                                                  *)
THEOREM SoloSafe == Spec => SoloNeverFaults
  <1> DEFINE Safe ==
        /\ process' # "null dereference"
        /\ process' = "read past the image" =>
             \E t \in Threads : InPhase(t, {"opened"}) /\ ~Representable(job[t].array)
        /\ process' = "cannot start writer" => ~fsOK
  <1>1. ASSUME TypeOK, SaveInv, [Next]_vars, process # process', ~Overlap
        PROVE  Safe
    <2>1. CASE process' \notin {"null dereference", "read past the image",
                                "cannot start writer"}
      BY <2>1
    <2>2. CASE process' \in {"null dereference", "read past the image",
                             "cannot start writer"}
      <3>1. PICK t \in Threads : WriteDies(t)
        BY <1>1, <2>2, EndsInWriteFile
      <3> DEFINE a == job[t].array
      <3>2. InPhase(t, {"opened"}) /\ Solo(t) /\ job[t].phase = "opened"
        BY <1>1, <3>1 DEF WriteDies, InPhase, Overlap, Solo
      <3>3. /\ a \in NDArrays /\ FieldsFound(a) /\ schema = createSchema(a)
            /\ outfile # NULL /\ outfile.open
        BY <1>1, <3>2, OpenedFacts
      <3>4. \/ Die("read past the image") /\ Overruns(schema, a)
            \/ Die("pixel type")
            \/ Die("cannot start writer") /\ ~fsOK
        BY <3>1, <3>3 DEF WriteDies, writeFileDies
      <3>5. Overruns(schema, a) => ~Representable(a)
        BY <3>3, RepresentableWithin
      <3> QED
        BY <3>2, <3>4, <3>5 DEF Die
    <2> QED
      BY <2>1, <2>2
  <1>2. TypeOK /\ SaveInv /\ [Next]_vars => [process' = process \/ Overlap \/ Safe]_vars
    BY <1>1
  <1> QED
    BY <1>2, TypeCorrect, SaveInvariant, PTL DEF Spec, SoloNeverFaults
-----------------------------------------------------------------------------
(* What stands in the way of a save that is alone: the file system, the    *)
(* format, a kill, an array createSchema throws for - and nothing else.    *)
Onward(t) ==
  \/ InPhase(t, {"opened", "written"})'
  \/ job[t].phase = "written" /\ job'[t] = NULL
       /\ reported'[job[t].name] = job[t].array
  \/ process' \in {"killed", "colour mode"}

(* What writeFile finds when the save can go through. *)
LEMMA ReadyToWrite ==
  ASSUME TypeOK, SaveInv, NEW t \in Threads, OnItsWay(t), fsOK, job[t].phase = "opened"
  PROVE  /\ FieldsFound(job[t].array) /\ TableMade(job[t].array)
         /\ schema.pixel \in ColumnTypes /\ schema.pixel \in DispatchedTypes
         /\ outfile # NULL /\ outfile.open
         /\ ~Overruns(schema, job[t].array)
         /\ fileFormat \in FileFormats /\ FormatsRead = {fileFormat}
  <1> DEFINE a == job[t].array
  <1>1. Solo(t) /\ Savable(a) /\ fileFormat \in FileFormats
    BY DEF OnItsWay, Solo
  <1>2. /\ schema = createSchema(a) /\ FieldsFound(a)
        /\ outfile # NULL /\ outfile = [name |-> job[t].name, open |-> TRUE]
    BY <1>1, OpenedFacts
  <1>3. schema.pixel = ArrowDataType[a.dataType]
    BY <1>2 DEF createSchema
  <1>4. schema.pixel \in ColumnTypes /\ schema.pixel \in DispatchedTypes
    BY <1>1, <1>3 DEF Savable, ColumnTypes, DispatchedTypes
  <1>5. FormatsRead = {fileFormat}
    BY <1>1, HostAssumption DEF FormatsRead
  <1>6. ~Overruns(schema, a)
    BY <1>1, <1>2 DEF Savable
  <1> QED
    BY <1>1, <1>2, <1>4, <1>5, <1>6 DEF TableMade

(* Every step of every thread leaves such a save on its way. *)
LEMMA SaveProceeds ==
  ASSUME TypeOK, SaveInv, [Next]_vars, NEW t \in Threads, OnItsWay(t), fsOK
  PROVE  Onward(t)
  <1>1. /\ Solo(t) /\ job[t] # NULL /\ job[t].phase \in {"opened", "written"}
        /\ \A u \in Threads : job[u] # NULL => u = t
    BY DEF OnItsWay, Solo, SaveInv, OnlySave
  <1>2. ASSUME job'[t] # NULL, job'[t].phase \in {"opened", "written"} PROVE Onward(t)
    BY <1>2 DEF Onward, InPhase
  <1>3. ASSUME UNCHANGED job PROVE Onward(t)
    BY <1>1, <1>2, <1>3
  <1>4. ASSUME NEW u \in Threads, NEW n \in FileNames, NEW mode \in OpenModes,
               NEW a \in NDArrays, OpenFile(u, n, mode, a)
        PROVE  Onward(t)
    <2>1. CASE job' = JobsWith(u, n, a)
      <3>1. u # t
        BY <1>1, <1>4 DEF OpenFile
      <3>2. job'[t] = [job[t] EXCEPT !.alone = FALSE, !.formats = {}]
        BY <1>1, <2>1, <3>1 DEF JobsWith
      <3>3. job'[t] \in Jobs /\ job'[t].phase = job[t].phase
        BY <1>1, <3>2, JobType DEF Jobs
      <3> QED
        BY <1>1, <1>2, <3>3, NullAssumption
    <2>2. CASE UNCHANGED job
      BY <1>3, <2>2
    <2> QED
      BY <1>4, <2>1, <2>2 DEF OpenFile
  <1>5. ASSUME NEW u \in Threads, WriteFile(u) PROVE Onward(t)
    <2>1. u = t /\ job[t].phase = "opened"
      BY <1>1, <1>5 DEF WriteFile, InPhase
    <2>2. ASSUME NEW status, writeFile(job[t].array, status) PROVE status = "asynSuccess"
      <3>1. ~writeFileRefuses(job[t].array, status)
        BY <2>1, ReadyToWrite DEF writeFileRefuses
      <3>2. writeFileWrites(job[t].array, status)
        BY <2>2, <3>1 DEF writeFile
      <3>3. PICK whole \in {fsOK /\ outfile.open, outfile.open} : status = WriteStatus(whole)
        BY <3>2 DEF writeFileWrites
      <3>4. fsOK /\ outfile.open
        BY <2>1, ReadyToWrite
      <3>5. whole
        BY <3>3, <3>4, Zenon
      <3> QED
        BY <3>3, <3>5 DEF WriteStatus
    <2>3. job' = [job EXCEPT ![t].phase = "written"]
      BY <1>5, <2>1, <2>2 DEF WriteFile
    <2>4. job'[t] = [job[t] EXCEPT !.phase = "written"]
      BY <2>3 DEF TypeOK
    <2>5. job'[t] # NULL /\ job'[t].phase = "written"
      BY <1>1, <2>4, JobType DEF Jobs
    <2> QED
      BY <1>2, <2>5
  <1>6. ASSUME NEW u \in Threads, CloseFile(u) PROVE Onward(t)
    <2>1. u = t /\ job[t].phase = "written" /\ job[t].alone
      BY <1>1, <1>6 DEF CloseFile, InPhase, Solo
    <2>2. PICK status \in Statuses :
            /\ closeFile(status)
            /\ reported' = IF /\ status = "asynSuccess" /\ job[t].phase = "written"
                              /\ job[t].alone
                           THEN [reported EXCEPT ![job[t].name] = job[t].array]
                           ELSE reported
      BY <1>6, <2>1 DEF CloseFile
    <2>3. status = "asynSuccess"
      BY <2>2 DEF closeFile
    <2>4. reported'[job[t].name] = job[t].array
      BY <1>1, <2>1, <2>2, <2>3, JobType DEF TypeOK
    <2>5. job'[t] = NULL
      BY <1>6, <2>1 DEF CloseFile, TypeOK
    <2> QED
      BY <2>1, <2>4, <2>5 DEF Onward
  <1>7. ASSUME Kill PROVE Onward(t)
    BY <1>7 DEF Kill, Die, Onward
  <1>8. ASSUME NEW u \in Threads, OpenDies(u) PROVE Onward(t)
    BY <1>8 DEF OpenDies, openFileDies, Die, Onward
  <1>9. ASSUME NEW u \in Threads, WriteDies(u) PROVE FALSE
    <2>1. u = t /\ job[t].phase = "opened" /\ writeFileDies(job[t].array)
      BY <1>1, <1>9 DEF WriteDies, InPhase
    <2> QED
      BY <2>1, ReadyToWrite DEF writeFileDies
  <1>10. ASSUME NEW f \in FormatValues \cup {PARQUET}, FormatSet(f) PROVE Onward(t)
    BY <1>1, <1>2, <1>10, FormatSetJobs DEF Formats
  <1> QED
    BY <1>3, <1>4, <1>5, <1>6, <1>7, <1>8, <1>9, <1>10
    DEF Next, Step, Save, ReadFile, ProcessPini, SetFormat, Restart, FsChange, vars, hostVars

(* The safety half of SavesSucceed, for any number of threads: whatever    *)
(* the other calls into the plugin do between the three of a save that is  *)
(* alone, an array that can be written is written and then reported.       *)
THEOREM SoloSavesProceed == Spec => SoloSavesGoThrough
  <1>1. TypeOK /\ SaveInv /\ [Next]_vars =>
          [\A t \in Threads :
             OnItsWay(t) /\ fsOK =>
               \/ InPhase(t, {"opened", "written"})'
               \/ job[t].phase = "written" /\ job'[t] = NULL
                    /\ reported'[job[t].name] = job[t].array
               \/ process' \in {"killed", "colour mode"}]_vars
    BY SaveProceeds DEF Onward
  <1> QED
    BY <1>1, TypeCorrect, SaveInvariant, PTL DEF Spec, SoloSavesGoThrough
-----------------------------------------------------------------------------
(* Saves that do not overlap, because the host sees to it or because it    *)
(* has a single thread, as the plugin's constructor has it by default.     *)
OneThread == \A t, u \in Threads : t = u

(* What is known of a save that has just begun. *)
LEMMA NewSave ==
  ASSUME TypeOK, NEW t \in Threads, NEW n \in FileNames, NEW a \in NDArrays,
         job' = JobsWith(t, n, a)
  PROVE  /\ job'[t] \in Jobs /\ job'[t] # NULL
         /\ job'[t].name = n /\ job'[t].array = a /\ job'[t].phase = "opened"
         /\ job'[t].alone = (job = NoJobs)
  <1> DEFINE new == [phase |-> "opened", name |-> n, array |-> a, alone |-> job = NoJobs,
                     formats |-> IF job = NoJobs THEN {fileFormat} ELSE {}]
  <1>1. job'[t] = new
    BY Solitude
  <1>2. new \in Jobs
    BY DEF TypeOK, Jobs
  <1>3. new.name = n /\ new.array = a /\ new.phase = "opened" /\ new.alone = (job = NoJobs)
    OBVIOUS
  <1> HIDE DEF new
  <1> QED
    BY <1>1, <1>2, <1>3, NullAssumption, Zenon

(* Without overlap an openFile that succeeds finds no save under way. *)
LEMMA AloneBegins ==
  ASSUME NoOverlap', TypeOK, NEW t \in Threads, NEW n \in FileNames,
         NEW a \in NDArrays, job' = JobsWith(t, n, a)
  PROVE  /\ job = NoJobs
         /\ job'[t] \in Jobs /\ job'[t] # NULL /\ job'[t].name = n /\ job'[t].array = a
         /\ \A u \in Threads : u # t => job'[u] = NULL
  <1>1. job'[t].alone = (job = NoJobs)
    BY NewSave
  <1>2. job'[t].alone
    BY NewSave DEF NoOverlap
  <1>3. job = NoJobs
    BY <1>1, <1>2, Zenon
  <1> QED
    BY <1>3, NewSave, Solitude

(* With one thread every save is alone: a thread in the middle of a save   *)
(* begins no other.                                                        *)
LEMMA OneThreadAlone == ASSUME OneThread PROVE Spec => []NoOverlap
  <1>1. Init => NoOverlap
    BY DEF Init, NoJobs, NoOverlap
  <1>2. TypeOK /\ NoOverlap /\ [Next]_vars => NoOverlap'
    <2> SUFFICES ASSUME TypeOK, NoOverlap, [Next]_vars PROVE NoOverlap'
      OBVIOUS
    <2>1. ASSUME NEW t \in Threads, NEW n \in FileNames, NEW mode \in OpenModes,
                 NEW a \in NDArrays, OpenFile(t, n, mode, a)
          PROVE  NoOverlap'
      <3>1. job = NoJobs
        BY <2>1 DEF OpenFile, NoJobs, OneThread, TypeOK
      <3>2. CASE job' = JobsWith(t, n, a)
        <4>1. job'[t].alone = (job = NoJobs)
          BY <3>2, NewSave
        <4>2. job'[t].alone
          BY <3>1, <4>1, Zenon
        <4> QED
          BY <4>2 DEF OneThread, NoOverlap
      <3>3. CASE UNCHANGED job
        BY <3>3 DEF NoOverlap
      <3> QED
        BY <2>1, <3>2, <3>3 DEF OpenFile
    <2>2. ASSUME NEW t \in Threads, WriteFile(t) PROVE NoOverlap'
      <3>1. \A u \in Threads : job'[u] # NULL => job[u] # NULL /\ job'[u].alone = job[u].alone
        BY <2>2, JobType DEF WriteFile, InPhase, TypeOK, Jobs
      <3> QED
        BY <3>1 DEF NoOverlap
    <2>3. ASSUME NEW t \in Threads, CloseFile(t) PROVE NoOverlap'
      BY <2>3 DEF CloseFile, TypeOK, NoOverlap
    <2>4. ASSUME Deaths PROVE NoOverlap'
      BY <2>4, DeathEffect DEF NoJobs, NoOverlap
    <2>5. ASSUME NEW f \in FormatValues \cup {PARQUET}, FormatSet(f) PROVE NoOverlap'
      BY <2>5, FormatSetJobs DEF NoOverlap, Formats
    <2>6. CASE UNCHANGED job
      BY <2>6 DEF NoOverlap
    <2> QED
      BY <2>1, <2>2, <2>3, <2>4, <2>5, <2>6
      DEF Next, Step, Save, Deaths, ReadFile, ProcessPini, SetFormat, Restart, FsChange,
          vars, hostVars
  <1> QED
    BY <1>1, <1>2, TypeCorrect, PTL DEF Spec

(* A host with one thread is serial. *)
LEMMA OneThreadSerial == ASSUME OneThread PROVE Spec => SerialSpec
  <1>1. [Next]_vars /\ NoOverlap' => [SerialNext]_vars
    BY DEF SerialNext
  <1> QED
    BY <1>1, OneThreadAlone, PTL DEF Spec, SerialSpec

(* A serial host is a host. *)
LEMMA SerialHost == SerialSpec => Spec /\ []NoOverlap
  <1>1. Init => NoOverlap
    BY DEF Init, NoJobs, NoOverlap
  <1>2. NoOverlap /\ [SerialNext]_vars => NoOverlap'
    BY DEF SerialNext, NoOverlap, vars, hostVars
  <1>3. [SerialNext]_vars => [Next]_vars
    BY DEF SerialNext
  <1> QED
    BY <1>1, <1>2, <1>3, PTL DEF Spec, SerialSpec

(* "only support single NDArray per file": without overlap no file ever    *)
(* receives a second table (openFile empties its file, writeFile writes to *)
(* the file that was opened for it).                                       *)
THEOREM SingleArray == SerialSpec => []OneArrayPerFile
  <1>1. Init => OneArrayPerFile
    BY DEF Init, OneArrayPerFile
  <1>2. TypeOK /\ SaveInv /\ NoOverlap /\ OneArrayPerFile /\ [Next]_vars => OneArrayPerFile'
    <2> SUFFICES ASSUME TypeOK, SaveInv, NoOverlap, OneArrayPerFile, [Next]_vars,
                        NEW n \in FileNames, disk'[n] # disk[n]
                 PROVE  Len(disk'[n]) <= 1
      BY DEF OneArrayPerFile
    <2>1. Len(<<>>) = 0 /\ \A x : Len(<<x>>) = 1
      OBVIOUS
    <2>2. ASSUME NEW t \in Threads, NEW m \in FileNames, NEW mode \in OpenModes,
                 NEW a \in NDArrays, OpenFile(t, m, mode, a)
          PROVE  Len(disk'[n]) <= 1
      <3>1. disk' \in Truncated(m)
        BY <2>2, OpenFileEffect DEF OpenFile, pluginVars
      <3>2. CASE n = m
        BY <2>1, <3>1, <3>2, OpenFileDisk
      <3>3. CASE n # m
        BY <3>1, <3>3, OpenFileDisk DEF OneArrayPerFile
      <3> QED
        BY <3>2, <3>3
    <2>3. ASSUME NEW t \in Threads, WriteFile(t) PROVE Len(disk'[n]) <= 1
      <3>1. Solo(t) /\ job[t].phase = "opened" /\ job[t].array \in NDArrays
        BY <2>3, JobType DEF WriteFile, InPhase, NoOverlap, Solo
      <3>2. PICK status : writeFile(job[t].array, status)
        BY <2>3 DEF WriteFile
      <3>3. n = job[t].name
        BY <3>1, <3>2, WriteFileDisk, OpenedFacts
      <3>4. \/ disk'[n] = <<>>
            \/ \E f \in FormatsRead \cap FileFormats, whole \in BOOLEAN :
                 disk'[n] = <<Table(job[t].array, f, whole)>>
        BY <3>1, <3>2, <3>3, SoloWrite
      <3>5. CASE disk'[n] = <<>>
        BY <2>1, <3>5
      <3>6. ASSUME NEW table, disk'[n] = <<table>> PROVE Len(disk'[n]) <= 1
        BY <2>1, <3>6
      <3> QED
        BY <3>4, <3>5, <3>6
    <2>4. ASSUME NEW t \in Threads, CloseFile(t) PROVE Len(disk'[n]) <= 1
      <3>1. PICK status \in Statuses : closeFile(status)
        BY <2>4 DEF CloseFile
      <3>2. outfile \in Streams /\ disk' = DiskTorn
        BY <3>1, CloseFileEffect
      <3>3. Len(disk'[n]) = Len(disk[n])
        BY <3>2, DiskTornType DEF TypeOK
      <3> QED
        BY <3>3 DEF OneArrayPerFile
    <2>5. ASSUME Deaths PROVE Len(disk'[n]) <= 1
      <3>1. CASE disk' \in AfterClose
        <4>1. outfile \in Streams /\ disk' = DiskTorn
          BY <3>1, Closing
        <4>2. Len(disk'[n]) = Len(disk[n])
          BY <4>1, DiskTornType DEF TypeOK
        <4> QED
          BY <4>2 DEF OneArrayPerFile
      <3>2. ASSUME NEW t \in Threads, CutFor(t) PROVE Len(disk'[n]) <= 1
        <4>1. PICK f \in FileFormats : disk' = DiskWith(job[t].array, f, FALSE)
          BY <3>2 DEF CutFor
        <4>2. Solo(t) /\ job[t].phase = "opened"
          BY <3>2 DEF CutFor, InPhase, NoOverlap, Solo
        <4>3. n = job[t].name
          BY <2>5, <4>2, DeathDisk, OpenedFacts
        <4>4. disk'[n] = <<Table(job[t].array, f, FALSE)>>
          BY <4>1, <4>2, <4>3, FirstTable
        <4> QED
          BY <2>1, <4>4
      <3> QED
        BY <2>5, <3>1, <3>2, DeathEffect
    <2> QED
      BY <2>2, <2>3, <2>4, <2>5
      DEF Next, Step, Save, Deaths, ReadFile, readFile, ProcessPini, SetFormat, FormatSet,
          Restart, FsChange, vars, pluginVars
  <1> QED
    BY <1>1, <1>2, SerialHost, TypeCorrect, SaveInvariant, PTL DEF Spec

(* So it is with a single plugin thread. *)
COROLLARY SingleThreadSingleArray == ASSUME OneThread PROVE Spec => []OneArrayPerFile
  BY OneThreadSerial, SingleArray, PTL
-----------------------------------------------------------------------------
(* The refinement: as long as saves do not overlap the plugin does what a  *)
(* file plugin promises (module ArraySaver).                               *)

(* The array that can be read back from a file that holds tables s. *)
ContentOf(s) ==
  IF Len(s) = 1 /\ s[1].exact /\ s[1].whole THEN s[1].array ELSE NULL

(* What the refinement mapping takes it to be. *)
FilesOK ==
  /\ files \in [FileNames -> NDArrays \cup {NULL}]
  /\ \A n \in FileNames : files[n] = ContentOf(disk[n])

(* It depends on the file's tables only, before a step ... *)
LEMMA Contents == TypeOK => FilesOK
  <1> SUFFICES ASSUME TypeOK, NEW n \in FileNames
               PROVE  files[n] \in NDArrays \cup {NULL} /\ files[n] = ContentOf(disk[n])
    BY DEF FilesOK, files
  <1> DEFINE s == disk[n]
             good == Len(s) = 1 /\ s[1].exact /\ s[1].whole
  <1>1. Len(s) = 1 => s[1].array \in NDArrays
    <2>1. \A r \in Tables : r.array \in NDArrays
      BY DEF Tables
    <2>2. \A k \in 1 .. Len(s) : s[k] \in Tables
      BY DEF TypeOK
    <2> HIDE DEF Tables, s
    <2> QED
      BY <2>1, <2>2
  <1>2. (\E a \in NDArrays : Holds(n, a)) <=> good
    BY <1>1, Zenon DEF Holds
  <1>3. files[n] = IF \E a \in NDArrays : Holds(n, a) THEN s[1].array ELSE NULL
    BY DEF files
  <1>4. files[n] = IF good THEN s[1].array ELSE NULL
    <2> HIDE DEF good
    <2> QED
      BY <1>2, <1>3, Zenon
  <1>5. files[n] = ContentOf(disk[n])
    BY <1>4 DEF ContentOf
  <1> QED
    BY <1>1, <1>4, <1>5, Zenon

(* ... and after it. *)
LEMMA ContentsNext == TypeOK' => FilesOK'
  BY Contents, PTL

(* A file whose tables all show one array gives that array, or none. *)
LEMMA OneContent ==
  ASSUME NEW s \in Seq(Tables), NEW a, Shows(s, a)
  PROVE  ContentOf(s) \in {NULL, a}
  <1>1. Len(s) = 1 => s[1].array = a
    BY DEF Shows
  <1> QED
    BY <1>1, Zenon DEF ContentOf

(* The saves under way. *)
LEMMA Saving ==
  ASSUME TypeOK, NEW t \in Threads
  PROVE  /\ saving = [u \in Threads |-> saving[u]]
         /\ job[t] = NULL => saving[t] = NULL
         /\ job[t] # NULL =>
              /\ saving[t] # NULL
              /\ saving[t].name = job[t].name /\ saving[t].array = job[t].array
  <1>1. saving = [u \in Threads |-> saving[u]] /\ (job[t] = NULL => saving[t] = NULL)
    BY DEF saving
  <1>2. ASSUME job[t] # NULL
        PROVE  /\ saving[t] # NULL
               /\ saving[t].name = job[t].name /\ saving[t].array = job[t].array
    <2>1. job[t].name \in FileNames /\ job[t].array \in NDArrays
      BY <1>2, JobType
    <2>2. saving[t] = [name |-> job[t].name, array |-> job[t].array]
      BY <1>2 DEF saving
    <2>3. saving[t] \in [name : FileNames, array : NDArrays]
      BY <2>1, <2>2
    <2> QED
      BY <2>2, <2>3, NullAssumption
  <1> QED
    BY <1>1, <1>2

(* A file without a whole table gives no array. *)
LEMMA NoContent ==
  ASSUME NEW s \in Seq(Tables), \A k \in 1 .. Len(s) : s[k].whole = FALSE
  PROVE  ContentOf(s) = NULL
  <1>1. Len(s) = 1 => s[1].whole = FALSE
    OBVIOUS
  <1> QED
    BY <1>1, Zenon DEF ContentOf

(* A stream that a failed save left open while none is under way has no    *)
(* whole table in its file: closing it takes nothing away.                 *)
StrayOK ==
  job = NoJobs /\ outfile # NULL /\ outfile.open =>
    \A k \in 1 .. Len(disk[outfile.name]) : disk[outfile.name][k].whole = FALSE

(* What a save that is alone leaves behind: writeFile drops it only after  *)
(* an error, closeFile leaves no open stream.                              *)
LEMMA StrayInvariant == SerialSpec => []StrayOK
  <1>1. Init => StrayOK
    BY DEF Init, NDFileArrow, StrayOK
  <1>2. TypeOK /\ SaveInv /\ NoOverlap /\ StrayOK /\ [Next]_vars => StrayOK'
    <2> SUFFICES ASSUME TypeOK, SaveInv, NoOverlap, StrayOK, [Next]_vars, job' = NoJobs
                 PROVE  StrayOK'
      BY DEF StrayOK
    <2>1. ASSUME job = NoJobs, UNCHANGED <<disk, outfile>> PROVE StrayOK'
      BY <2>1 DEF StrayOK
    <2>2. ASSUME outfile' = NULL \/ ~outfile'.open PROVE StrayOK'
      BY <2>2 DEF StrayOK
    <2>3. ASSUME NEW t \in Threads, NEW n \in FileNames, NEW mode \in OpenModes,
                 NEW a \in NDArrays, OpenFile(t, n, mode, a)
          PROVE  StrayOK'
      <3>1. job' # JobsWith(t, n, a)
        <4>1. job' = JobsWith(t, n, a) => job'[t] # NULL
          BY NewSave
        <4> QED
          BY <4>1 DEF NoJobs
      <3> QED
        BY <2>1, <2>3, <3>1, OpenFileEffect DEF OpenFile, pluginVars
    <2>4. ASSUME NEW t \in Threads, WriteFile(t) PROVE StrayOK'
      <3>1. Solo(t) /\ job[t].phase = "opened" /\ job[t] \in Jobs
        BY <2>4, JobType DEF WriteFile, InPhase, NoOverlap, Solo
      <3>2. writeFile(job[t].array, "asynError")
        <4>1. job' # [job EXCEPT ![t].phase = "written"]
          <5>1. [job EXCEPT ![t].phase = "written"][t] = [job[t] EXCEPT !.phase = "written"]
            BY DEF TypeOK
          <5>2. [job[t] EXCEPT !.phase = "written"] # NULL
            BY <3>1, JobType DEF Solo
          <5> QED
            BY <5>1, <5>2 DEF NoJobs
        <4> QED
          BY <2>4, <4>1 DEF WriteFile
      <3>3. outfile.name = job[t].name /\ outfile' = outfile
        <4>1. outfile' = outfile
          BY <3>1, <3>2, SoloWrite
        <4>2. outfile = [name |-> job[t].name, open |-> TRUE]
          BY <3>1, OpenedFacts
        <4> QED
          BY <4>1, <4>2
      <3> DEFINE s == disk'[job[t].name]
      <3>4. s = <<>> \/ \E f : s = <<Table(job[t].array, f, FALSE)>>
        BY <3>1, <3>2, SoloWrite DEF WriteStatus
      <3> HIDE DEF s
      <3>5. \A k \in 1 .. Len(s) : s[k].whole = FALSE
        <4>1. ASSUME NEW f, s = <<Table(job[t].array, f, FALSE)>>
              PROVE  \A k \in 1 .. Len(s) : s[k].whole = FALSE
          <5> DEFINE r == Table(job[t].array, f, FALSE)
          <5>1. r.whole = FALSE
            BY DEF Table
          <5>2. \A x : Len(<<x>>) = 1 /\ <<x>>[1] = x
            OBVIOUS
          <5> HIDE DEF r
          <5>3. s = <<r>>
            BY <4>1 DEF r
          <5>4. Len(s) = 1 /\ s[1] = r
            BY <5>2, <5>3, Zenon
          <5>5. \A k \in 1 .. 1 : k = 1
            OBVIOUS
          <5> QED
            BY <5>1, <5>4, <5>5, Zenon
        <4>2. ASSUME s = <<>>
              PROVE  \A k \in 1 .. Len(s) : s[k].whole = FALSE
          <5>1. Len(s) = 0 /\ 1 .. 0 = {}
            BY <4>2
          <5> QED
            BY <5>1
        <4> QED
          BY <3>4, <4>1, <4>2
      <3> QED
        BY <3>3, <3>5 DEF StrayOK, s
    <2>5. ASSUME NEW t \in Threads, CloseFile(t) PROVE StrayOK'
      BY <2>2, <2>5, CloseFileEffect DEF CloseFile
    <2>6. ASSUME Deaths \/ Restart PROVE StrayOK'
      BY <2>2, <2>6, DeathEffect DEF Die, Restart, NDFileArrowConfigure
    <2>7. ASSUME NEW f \in FormatValues \cup {PARQUET}, FormatSet(f) PROVE StrayOK'
      <3>1. \A t \in Threads : job[t] = NULL
        BY <2>7, FormatSetJobs DEF NoJobs, Formats
      <3>2. job = NoJobs
        BY <3>1 DEF TypeOK, NoJobs
      <3> QED
        BY <2>1, <2>7, <3>2 DEF FormatSet
    <2>8. CASE UNCHANGED <<pluginVars, hostVars>>
      BY <2>1, <2>8 DEF pluginVars, hostVars
    <2> QED
      BY <2>3, <2>4, <2>5, <2>6, <2>7, <2>8
      DEF Next, Step, Save, Deaths, ReadFile, readFile, ProcessPini, SetFormat, FsChange, vars
  <1> QED
    BY <1>1, <1>2, SerialHost, TypeCorrect, SaveInvariant, PTL DEF Spec

(* When the process ends nothing is promised but that other files stay. *)
LEMMA EndStep ==
  ASSUME TypeOK, TypeOK', SaveInv, NoOverlap, StrayOK, Deaths
  PROVE  Saver!End
  <1>1. saving' = [t \in Threads |-> NULL]
    BY DeathEffect DEF NoJobs, saving
  <1>2. UNCHANGED promised
    BY DeathEffect DEF promised, Representable
  <1>3. files' \in [FileNames -> NDArrays \cup {NULL}]
    BY ContentsNext DEF FilesOK
  <1>4. ASSUME NEW n \in FileNames, files'[n] # files[n]
        PROVE  \E t \in Threads :
                 saving[t] # NULL /\ saving[t].name = n /\ files'[n] \in {NULL, saving[t].array}
    <2>1. disk'[n] # disk[n] /\ outfile # NULL /\ n = outfile.name
      BY <1>4, DeathDisk, Contents, ContentsNext DEF FilesOK
    <2>2. disk'[n] \in Seq(Tables) /\ files'[n] = ContentOf(disk'[n])
      BY ContentsNext DEF TypeOK, FilesOK
    <2>3. CASE disk' \in AfterClose
      <3>1. outfile \in Streams /\ outfile.open /\ disk' = DiskTorn
        BY <2>1, <2>3, Closing
      <3>2. files'[n] = NULL
        <4>1. \A k \in 1 .. Len(disk'[n]) : disk'[n][k].whole = FALSE
          BY <2>1, <3>1, DiskTornType DEF TypeOK
        <4> QED
          BY <2>2, <4>1, NoContent
      <3>3. job # NoJobs
        <4>1. ASSUME job = NoJobs PROVE files[n] = NULL
          <5>1. \A k \in 1 .. Len(disk[n]) : disk[n][k].whole = FALSE
            BY <2>1, <3>1, <4>1 DEF StrayOK
          <5>2. disk[n] \in Seq(Tables) /\ files[n] = ContentOf(disk[n])
            BY Contents DEF TypeOK, FilesOK
          <5> QED
            BY <5>1, <5>2, NoContent
        <4> QED
          BY <1>4, <3>2, <4>1
      <3>4. PICK t \in Threads : job[t] # NULL
        BY <3>3 DEF TypeOK, NoJobs
      <3>5. job[t].name = n
        BY <2>1, <3>4 DEF NoOverlap, Solo, SaveInv, OwnFile
      <3> QED
        BY <3>2, <3>4, <3>5, Saving
    <2>4. ASSUME NEW t \in Threads, CutFor(t)
          PROVE  saving[t] # NULL /\ saving[t].name = n /\ files'[n] \in {NULL, saving[t].array}
      <3>1. Solo(t) /\ job[t].phase = "opened" /\ job[t] # NULL
        BY <2>4 DEF CutFor, InPhase, NoOverlap, Solo
      <3>2. job[t].array \in NDArrays /\ n = job[t].name /\ outfile \in Streams
        BY <2>1, <3>1, OpenedFacts
      <3>3. PICK f \in FileFormats : disk' = DiskWith(job[t].array, f, FALSE)
        BY <2>4 DEF CutFor
      <3>4. disk'[n] = <<Table(job[t].array, f, FALSE)>>
        BY <3>1, <3>2, <3>3, FirstTable
      <3>5. Shows(disk'[n], job[t].array)
        BY <3>4, OneTable
      <3>6. files'[n] \in {NULL, job[t].array}
        BY <2>2, <3>5, OneContent
      <3> QED
        BY <3>1, <3>2, <3>6, Saving
    <2> QED
      BY <2>3, <2>4, DeathEffect
  <1> QED
    BY <1>1, <1>2, <1>3, <1>4 DEF Saver!End

(* What a save that is alone does to the files is within its rights. *)
LEMMA TouchStep ==
  ASSUME TypeOK, TypeOK', NEW t \in Threads, job[t] # NULL,
         \A n \in FileNames : disk'[n] # disk[n] => n = job[t].name,
         Shows(disk'[job[t].name], job[t].array)
  PROVE  Saver!Touch(t)
  <1>1. /\ job[t].name \in FileNames
        /\ saving[t] # NULL /\ saving[t].name = job[t].name /\ saving[t].array = job[t].array
    BY JobType, Saving
  <1> DEFINE n == job[t].name
             c == files'[n]
  <1>2. FilesOK /\ FilesOK'
    BY Contents, ContentsNext
  <1>3. c \in {NULL, job[t].array}
    <2>1. disk'[n] \in Seq(Tables) /\ files'[n] = ContentOf(disk'[n])
      BY <1>1, <1>2 DEF TypeOK, FilesOK
    <2> QED
      BY <2>1, OneContent
  <1>4. \A m \in FileNames : m # n => files'[m] = files[m]
    BY <1>2 DEF FilesOK
  <1>5. files' = [files EXCEPT ![n] = c]
    BY <1>2, <1>4 DEF FilesOK
  <1> QED
    BY <1>1, <1>3, <1>5 DEF Saver!Touch

(* A successful openFile begins a save. *)
LEMMA BeginStep ==
  ASSUME NoOverlap', TypeOK, TypeOK', StrayOK,
         NEW t \in Threads, NEW n \in FileNames, NEW mode, NEW a \in NDArrays,
         OpenFile(t, n, mode, a)
  PROVE  Saver!Begin(t, n, a) \/ UNCHANGED Saver!vars
  <1>1. CASE UNCHANGED <<pluginVars, job, reported>>
    BY <1>1 DEF pluginVars, Saver!vars, saving, files, promised, Holds, Representable
  <1>2. CASE /\ disk' \in Truncated(n)
             /\ job' = JobsWith(t, n, a)
             /\ reported' = [reported EXCEPT ![n] = NULL]
    <2>1. \A u \in Threads : saving[u] = NULL
      <3>1. \A u \in Threads : job[u] = NULL
        BY <1>2, AloneBegins DEF NoJobs
      <3> QED
        BY <3>1, Saving
    <2>2. saving' = [saving EXCEPT ![t] = [name |-> n, array |-> a]]
      <3>1. /\ job'[t] # NULL /\ job'[t].name = n /\ job'[t].array = a
            /\ \A u \in Threads : u # t => job'[u] = NULL
        BY <1>2, AloneBegins
      <3> QED
        BY <2>1, <3>1 DEF saving
    <2>3. files' = [files EXCEPT ![n] = NULL]
      <3>1. FilesOK /\ FilesOK'
        BY Contents, ContentsNext
      <3>2. files'[n] = NULL
        BY <1>2, <3>1, OpenFileDisk DEF FilesOK, ContentOf
      <3>3. ASSUME NEW m \in FileNames, m # n, disk'[m] # disk[m]
            PROVE  files'[m] = NULL /\ files[m] = NULL
        <4>1. /\ outfile # NULL /\ outfile \in Streams /\ outfile.open
              /\ m = outfile.name /\ disk'[m] = DiskTorn[m] /\ Len(disk'[m]) = Len(disk[m])
          BY <1>2, <3>3, OpenFileDisk
        <4>2. \A k \in 1 .. Len(disk[m]) : disk'[m][k].whole = FALSE
          BY <4>1, DiskTornType DEF TypeOK
        <4>3. \A k \in 1 .. Len(disk[m]) : disk[m][k].whole = FALSE
          BY <1>2, <4>1, AloneBegins DEF StrayOK
        <4>4. disk[m] \in Seq(Tables) /\ disk'[m] \in Seq(Tables)
          BY DEF TypeOK
        <4> QED
          BY <3>1, <4>1, <4>2, <4>3, <4>4, NoContent DEF FilesOK
      <3>4. \A m \in FileNames : m # n => files'[m] = files[m]
        BY <3>1, <3>3 DEF FilesOK
      <3> QED
        BY <3>1, <3>2, <3>4 DEF FilesOK
    <2>4. promised' = [promised EXCEPT ![n] = NULL]
      BY <1>2 DEF TypeOK, promised, Representable
    <2>5. \A u \in Threads : saving[u] # NULL => saving[u].name # n
      BY <2>1
    <2> QED
      BY <2>1, <2>2, <2>3, <2>4, <2>5 DEF Saver!Begin
  <1> QED
    BY <1>1, <1>2, OpenFileEffect DEF OpenFile

(* writeFile is progress of its save, or its failure. *)
LEMMA WriteStep ==
  ASSUME TypeOK, TypeOK', SaveInv, NEW t \in Threads, Solo(t), WriteFile(t)
  PROVE  Saver!Progress(t) \/ Saver!Fail(t)
  <1>1. job[t] # NULL /\ job[t].phase = "opened" /\ job[t].array \in NDArrays
        /\ outfile.name = job[t].name /\ outfile # NULL
    BY JobType DEF WriteFile, InPhase, SaveInv, OwnFile
  <1>2. PICK status : writeFile(job[t].array, status)
    BY DEF WriteFile
  <1>3. Shows(disk'[job[t].name], job[t].array)
    <2>1. Shows(<<>>, job[t].array)
      BY DEF Shows
    <2>2. CASE disk'[job[t].name] = <<>>
      BY <2>1, <2>2
    <2>3. ASSUME NEW f, NEW whole \in BOOLEAN,
                 disk'[job[t].name] = <<Table(job[t].array, f, whole)>>
          PROVE  Shows(disk'[job[t].name], job[t].array)
      BY <2>3, OneTable
    <2> QED
      BY <1>1, <1>2, <2>2, <2>3, SoloWrite
  <1>4. Saver!Touch(t)
    BY <1>1, <1>2, <1>3, WriteFileDisk, TouchStep
  <1>5. UNCHANGED promised
    BY DEF WriteFile, promised, Representable
  <1>6. CASE job' = [job EXCEPT ![t] = NULL]
    <2>1. saving' = [saving EXCEPT ![t] = NULL]
      BY <1>6 DEF TypeOK, saving
    <2> QED
      BY <1>4, <1>5, <2>1 DEF Saver!Fail
  <1>7. CASE \E p \in {"written", "failed"} : job' = [job EXCEPT ![t].phase = p]
    <2>1. \A u \in Threads : /\ job'[u] = NULL <=> job[u] = NULL
                             /\ job[u] # NULL => /\ job'[u].name = job[u].name
                                                 /\ job'[u].array = job[u].array
      <3>1. PICK p \in {"written", "failed"} : job' = [job EXCEPT ![t].phase = p]
        BY <1>7
      <3>2. \A u \in Threads : job'[u] = IF u = t THEN [job[t] EXCEPT !.phase = p] ELSE job[u]
        BY <3>1 DEF TypeOK
      <3>3. /\ [job[t] EXCEPT !.phase = p] # NULL
            /\ [job[t] EXCEPT !.phase = p].name = job[t].name
            /\ [job[t] EXCEPT !.phase = p].array = job[t].array
        BY <1>1, JobType DEF Jobs
      <3> QED
        BY <1>1, <3>2, <3>3
    <2>2. UNCHANGED saving
      BY <2>1 DEF saving
    <2> QED
      BY <1>4, <1>5, <2>2 DEF Saver!Progress
  <1> QED
    BY <1>6, <1>7 DEF WriteFile

(* closeFile ends the save, and reports what the file holds. *)
LEMMA CloseStep ==
  ASSUME TypeOK, TypeOK', SaveInv, NEW t \in Threads, Solo(t), CloseFile(t)
  PROVE  Saver!Succeed(t) \/ Saver!Fail(t)
  <1> DEFINE a == job[t].array
             n == job[t].name
  <1>1. /\ job[t] # NULL /\ a \in NDArrays /\ n \in FileNames
        /\ outfile # NULL /\ outfile.name = n /\ Shows(disk[n], a)
        /\ reported[n] = NULL
    BY JobType DEF CloseFile, InPhase, SaveInv, OwnFile, NoStreamOnSavedFile
  <1>2. PICK status \in Statuses :
          /\ closeFile(status)
          /\ reported' = IF status = "asynSuccess" /\ job[t].phase = "written" /\ job[t].alone
                         THEN [reported EXCEPT ![n] = a] ELSE reported
    BY DEF CloseFile
  <1>3. saving' = [saving EXCEPT ![t] = NULL]
    <2>1. job' = [job EXCEPT ![t] = NULL]
      BY DEF CloseFile
    <2> QED
      BY <2>1 DEF TypeOK, saving
  <1>4. Saver!Touch(t)
    <2>1. Shows(disk'[n], a)
      <3>1. CASE UNCHANGED disk
        BY <1>1, <3>1
      <3>2. CASE outfile \in Streams /\ disk' = DiskTorn
        <4>1. /\ Len(disk'[n]) = Len(disk[n])
              /\ \A k \in 1 .. Len(disk[n]) : disk'[n][k].array = disk[n][k].array
          BY <1>1, <3>2, DiskTornType DEF TypeOK
        <4>2. \A k \in 1 .. Len(disk[n]) : disk[n][k].array = a
          BY <1>1 DEF Shows
        <4> HIDE DEF a, n
        <4> QED
          BY <4>1, <4>2 DEF Shows
      <3> QED
        BY <1>2, <3>1, <3>2, CloseFileEffect
    <2>2. \A m \in FileNames : disk'[m] # disk[m] => m = n
      BY <1>1, <1>2, CloseFileDisk
    <2> QED
      BY <1>1, <2>1, <2>2, TouchStep
  <1>5. CASE UNCHANGED promised
    BY <1>3, <1>4, <1>5 DEF Saver!Fail
  <1>6. CASE /\ status = "asynSuccess" /\ job[t].phase = "written"
             /\ reported' = [reported EXCEPT ![n] = a] /\ Representable(a)
    <2>1. UNCHANGED disk
      <3>1. closeFile(status)
        BY <1>2
      <3> QED
        BY <1>6, <3>1, CloseFileEffect
    <2>2. PICK f : disk[n] = <<[array |-> a, format |-> Writer(f),
                                exact |-> Exact(createSchema(a), a), whole |-> TRUE]>>
      BY <1>6 DEF SaveInv, WrittenOK
    <2>3. ContentOf(disk[n]) = a
      <3>1. /\ Len(disk[n]) = 1 /\ disk[n][1].array = a
            /\ disk[n][1].exact = Exact(createSchema(a), a) /\ disk[n][1].whole
        BY <2>2
      <3>2. Exact(createSchema(a), a)
        BY <1>1, <1>6, RepresentableExact
      <3> HIDE DEF a, n
      <3> QED
        BY <3>1, <3>2, Zenon DEF ContentOf
    <2>4. files[n] = a /\ UNCHANGED files
      <3>1. FilesOK
        BY Contents
      <3>2. UNCHANGED files
        BY <2>1 DEF files, Holds
      <3> QED
        BY <1>1, <2>3, <3>1, <3>2 DEF FilesOK
    <2>5. promised' = [promised EXCEPT ![n] = a]
      BY <1>1, <1>6, ArrayAssumption DEF TypeOK, promised, Representable
    <2>6. saving[t] # NULL /\ saving[t].name = n /\ saving[t].array = a
      BY <1>1, Saving
    <2> HIDE DEF a, n
    <2> QED
      BY <1>3, <2>4, <2>5, <2>6 DEF Saver!Succeed
  <1>7. CASE /\ reported' = [reported EXCEPT ![n] = a] /\ ~Representable(a)
    <2>1. promised'[n] = NULL /\ promised[n] = NULL
      BY <1>1, <1>7 DEF TypeOK, promised, Representable
    <2>2. UNCHANGED promised
      BY <1>1, <1>7, <2>1 DEF TypeOK, promised, Representable
    <2> QED
      BY <1>5, <2>2
  <1>8. UNCHANGED reported => UNCHANGED promised
    BY DEF promised, Representable
  <1> QED
    BY <1>2, <1>5, <1>6, <1>7, <1>8

(* Without overlap every step of the plugin is one a file plugin may take, *)
(* or none: what it reports as saved can be read back, until the file is   *)
(* written again (openFile, writeFile, closeFile, and every death).        *)
THEOREM Refinement == SerialSpec => ImplementsSaver
  <1>1. Init => Saver!Init
    <2> SUFFICES ASSUME Init PROVE Saver!Init
      OBVIOUS
    <2>1. saving = [t \in Threads |-> NULL] /\ promised = [n \in FileNames |-> NULL]
      BY DEF Init, NoJobs, saving, promised
    <2>2. \A n \in FileNames, a \in NDArrays : ~Holds(n, a)
      BY DEF Init, Holds
    <2>3. files = [n \in FileNames |-> NULL]
      BY <2>2 DEF files
    <2> QED
      BY <2>1, <2>3 DEF Saver!Init
  <1>2. TypeOK /\ TypeOK' /\ SaveInv /\ NoOverlap /\ NoOverlap' /\ StrayOK /\ [Next]_vars
          => [Saver!Next]_Saver!vars
    <2> SUFFICES ASSUME TypeOK, TypeOK', SaveInv, NoOverlap, NoOverlap', StrayOK, [Next]_vars
                 PROVE  Saver!Next \/ UNCHANGED Saver!vars
      OBVIOUS
    <2>1. ASSUME NEW t \in Threads, WriteFile(t) PROVE Saver!Next
      <3>1. Solo(t)
        BY <2>1 DEF NoOverlap, Solo, WriteFile, InPhase
      <3> QED
        BY <2>1, <3>1, WriteStep DEF Saver!Next
    <2>2. ASSUME NEW t \in Threads, CloseFile(t) PROVE Saver!Next
      <3>1. Solo(t)
        BY <2>2 DEF NoOverlap, Solo, CloseFile, InPhase
      <3> QED
        BY <2>2, <3>1, CloseStep DEF Saver!Next
    <2>3. ASSUME NEW t \in Threads, NEW n \in FileNames, NEW mode \in OpenModes,
                 NEW a \in NDArrays, OpenFile(t, n, mode, a)
          PROVE  Saver!Next \/ UNCHANGED Saver!vars
      BY <2>3, BeginStep DEF Saver!Next
    <2>4. ASSUME Deaths PROVE Saver!Next
      BY <2>4, EndStep DEF Saver!Next
    <2>5. ASSUME UNCHANGED <<disk, reported, saving>> PROVE UNCHANGED Saver!vars
      BY <2>5 DEF Saver!vars, files, promised, Holds, Representable
    <2>6. ASSUME NEW f \in FormatValues \cup {PARQUET}, FormatSet(f)
          PROVE  UNCHANGED Saver!vars
      <3>1. UNCHANGED saving
        BY <2>6, FormatSetJobs DEF saving, Formats
      <3> QED
        BY <2>5, <2>6, <3>1 DEF FormatSet
    <2>7. ASSUME UNCHANGED <<disk, hostVars>> PROVE UNCHANGED Saver!vars
      <3>1. UNCHANGED saving
        BY <2>7 DEF saving, hostVars
      <3> QED
        BY <2>5, <2>7, <3>1 DEF hostVars
    <2> QED
      BY <2>1, <2>2, <2>3, <2>4, <2>6, <2>7
      DEF Next, Step, Save, Deaths, ReadFile, readFile, ProcessPini, SetFormat, Restart,
          FsChange, vars, pluginVars
  <1> QED
    BY <1>1, <1>2, SerialHost, StrayInvariant, TypeCorrect, SaveInvariant, PTL
    DEF Spec, ImplementsSaver, Saver!Spec

(* A single plugin thread is enough. *)
COROLLARY SingleThreadRefinement == ASSUME OneThread PROVE Spec => ImplementsSaver
  BY OneThreadSerial, Refinement, PTL
=============================================================================
