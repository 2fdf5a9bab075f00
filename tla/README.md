# NDFileArrow in TLA+

ADPluginArrow is an areaDetector file plugin for EPICS. Each image (NDArray) it
receives becomes a sparse table of its non-zero pixels and is written to a
Parquet, CSV or Arrow IPC file. The repository's own code is `src/arrowApp`:
one class, two pure functions and two templates. The base classes (areaDetector)
and the Arrow libraries are external; googletest is vendored.

The modules here model that code, TLC checks them on small instances, and TLAPS
proves the main invariants for every instance.

## The system

| Component | State | Operations | Correct when |
|---|---|---|---|
| Schema construction (`NDFileArrow.cpp` 7-72) | none | `getArrowDataType`, `createSchema` | the column types hold every coordinate and pixel of the array |
| Image to sparse columns (`NDFileArrow.h` 138-170) | loop counters, growing vectors | `convertImgToVectors` | it ends, reads only the image's samples, and the columns encode exactly its hot pixels |
| Table construction (`NDFileArrow.h` 171-251) | none | `createArrowTableFromNDArray` | every dispatched element type has columns; data and schema agree |
| Plugin object (`NDFileArrow.cpp` 74-299) | `schema`, `outfile`, the format parameter | `openFile`, `writeFile`, `closeFile`, `readFile`, constructor | it uses only what the current save made; an error is a status |
| Output format (`Db/NDFileArrow.template`, `NDFileArrow_settings.req`) | `ARROW_FILE_FORMAT` | the `OutputFileFormat` record | the operator's choice is the one used |
| Base class NDPluginFile (external) | save in progress per thread | calls the four virtual methods | a save reported as successful left its array in its file |
| Arrow/Parquet (external) | files | write, close | - |

How they interact: plugin threads and the port's thread call the virtual methods
of the one plugin object. With `supportsMultipleArrays = 0` a save is `openFile`,
`writeFile`, `closeFile`. `openFile` stores a schema and a stream in the object,
`writeFile` picks template instances by the stored schema, and the converted
columns go to the stored stream. Nothing ties a `writeFile` to its own `openFile`
but the order of calls.

What is hard: state handed from call to call and shared by every thread; saves
that stop half-way; Arrow results unwrapped with `ValueOrDie` and exceptions
nobody catches, both ending the IOC; a loop in which the width of the counters,
of the coordinates and of the offset is picked at run time; restarts.

## Modules

| Module | Models | Correspondence |
|---|---|---|
| `ArrowSchema` | the pure part | `createSchema`, `ArrowDataType`, `CoordType`, `ToInt` (the `int` parameters), `Addressable` (the offset's arithmetic), `ReadsWithin` (what the cast of `pData` to a pixel type leaves of the buffer) |
| `ImgToVectors` | `convertImgToVectors`, called as `createArrowTableFromNDArray` calls it, with the coordinate and the pixel type of whatever schema is stored | one action per iteration: `ScanPixel`, `NextRow`; `count`, `xs`, `ys`, `chans` are `get<0>` to `get<3>` |
| `NDFileArrow` | the plugin object and the files | an operation is an action with the returned `asynStatus` as last parameter; what ends the process is an action of its own (`openFileDies`, `writeFileDies`) |
| `FileHost` | NDPluginFile's calls, the database, the operator, the file system, the end and restart of the process | `OpenFile`, `WriteFile`, `CloseFile` are the three calls of a save; `ReadFile`, `ProcessPini`, `SetFormat`, `FsChange`, `Kill`, `Restart` |
| `FileHostLog` | `FileHost` with what its operator remembers | history variables for two statements about a plugin's whole life |
| `ArraySaver` | what a file plugin promises | abstract specification; `FileHost!Saver` is the refinement mapping |
| `MCImgToVectors`, `MCFileHost`, `MCFileHostLog` | instances for TLC | |
| `ArrowSchema_proofs`, `ImgToVectors_proofs`, `FileHost_proofs`, `ArraySaver_proofs` | theorems | |

`ImgToVectors` and `NDFileArrow` both build on `ArrowSchema`. `NDFileArrow` does
not run the conversion: its operator `Exact` says when a table shows its array,
by `Convertible`, the very condition (`Fits`) under which `ConversionCorrect`
(below) says that an image can be read back from its columns, and `Overruns` when
it is read beyond its end, by `ReadsWithin`, the very condition `ReadsSafe` is about.
`FileHost` composes the plugin object with its callers.

Definitions named `X_Something` next to a definition `X` are plausible bugs in the
code of `X`; no specification uses them. Each property is known to fail when `X`
is replaced by one of them.

### Abstractions

* An NDArray is its data type, colour mode and sizes. Its identity stands for its
  pixels and attributes.
* A file is the sequence of tables written to it since it was truncated. A table
  records its array, its format, whether its data agree with the schema it was
  written under (`exact`) and whether it was written completely (`whole`).
* The file system works or does not (`fsOK`), and with `Faults` it changes
  between calls (`FsChange`). While it does not, opening a file aborts, a write
  fails in part, and a close may fail and may then lose what was written. A write
  to a closed stream fails whatever the file system does. Which of the writer's
  construction and the write notices is left open. A stream is also closed when the
  next `openFile` replaces it, and when the process ends: nobody sees that close
  fail, but it may lose as much (`AfterClose`).
* The host: one call into the plugin runs at a time, and calls of different
  threads may come in any order. After a `writeFile` error it may go on to
  `closeFile` or leave the stream open. Neither is visible in this repository,
  so both are allowed.
* `createAllParams` gives the format parameter no value; the record writes it once
  when the database starts (`ProcessPini`). A save that comes first reads the
  uninitialised local of `writeFile`: any format, or none (`FormatsRead`).
* A save is *alone* if no other is under way at any time from its beginning to
  its end. This, the formats selected before its write, and the array a file was
  last reported to hold are history in `job` and `reported`: no guard of the plugin
  reads them.
* Integer widths are constants. `int` overflow in the offset is undefined
  behaviour: the exact value or the wrapped one (`Offsets`).
* `pData` is cast to the pixel type of the stored schema, so an offset counts in
  samples of that type (`Within`). What is read beyond the buffer, or as a type that
  is not the image's own, is any sample (`Reads`). That a read beyond the buffer may
  also fault is an outcome of `writeFileDies`. Both are possible only with the schema
  of another array, or with an image too large for the offsets.

## Runs

All runs but `conversion_stale` use 1-, 2-, 3- and 4-bit stand-ins for `uint8_t`,
`uint16_t`, positive `int` and `uint32_t` (`MaxU8 = 1`, `MaxU16 = 3`, `MaxInt = 7`,
`MaxU32 = 15`; there `MaxU16 = 2`, `MaxInt = 3`, `MaxU32 = 7`, so that nine samples
pass every limit):
the code compares sizes and offsets with these limits and does nothing else with
them, so images of at most 8 pixels a side lie on both sides of every limit.

| Run | Bounds | Shows |
|---|---|---|
| `conversion` | 17 shapes (empty, on, under and over each limit, 1 or 3 channels) under each of the 3 coordinate types, at most 2 non-zero samples of values 1 or 2, the image's own pixel type | offsets stay in the buffer, whatever the size and the coordinate type, except where they overflow an `int`; after every iteration the columns encode what was visited; every reader gets an image that fits back, from one row per hot pixel, and none is left without rows unless it is zero; `createSchema` picks a type that fits; every pixel is visited once, and the loops end |
| `conversion_stale` | 5 shapes of 1- and 2-byte pixels, under each coordinate type and schemas of 1- and 2-byte pixels | every read stays in the buffer, counted in bytes, whenever the samples visited, taken for the schema's pixel type, end where the buffer does: a wider pixel type is harmless only if a narrow coordinate type leaves out enough |
| `host` | 1 thread, 2 files, 6 arrays (one for each way through the code), 3 open modes, formats 0 (from PINI), 2 and the unsupported 3, faults | the plugin implements `ArraySaver`; one array per file |
| `host_serial` | 2 threads whose saves do not overlap, the 5 arrays of `pool_stale`, 2 files, formats 0 and 2, faults | the same with several threads: what one leaves behind is no obstacle to the next |
| `recovery` | 1 thread, the 6 arrays of `host`, formats 0, 1, 2, faults | a save of a writable array is reported, or the file system or the process fails under it |
| `pool` | 2 threads, 3 arrays (of 2 colour modes, and one for which `createSchema` throws), 2 files, formats 0 and 2, faults | overlapping saves damage only themselves, and no more than a table per thread; for a save that is alone: its own schema and stream, a format selected meanwhile, no null pointer, no read beyond an image, no writer that cannot start except for the file system, no step that takes it off its way, a file that stays as reported |
| `pool_stale` | as `pool` without faults, and two more arrays of the colour mode of another, one of more columns, one of wider pixels | a table made under the schema of another save, wrong without anything failing, is never in a file whose save was alone; the fault of reading beyond an image, which the wider pixels cause, happens only while saves overlap |

Two files are enough for a save to harm another one's file, two threads for each
way two calls can be ordered. No two arrays of `pool` have the same schema, so a
stale one never fits by chance: with arrays of different colour modes it ends in a
null pointer, with those of `pool_stale` and `host_serial` in a wrong table or a read
beyond the image. One array of `host` is too large for offsets of type `int`. With faults
added, `pool_stale` has too many states for a run; `SavedStaysSaved` (below) covers
that combination. No bound
limits the number of saves, faults, restarts or format changes: the state space is
finite because `openFile` truncates. Threads and files are symmetric in `pool` and
`pool_stale`, which check no liveness.

### Disagreements the runs show

| Run | Property | What happens |
|---|---|---|
| `conversion_large` | `LargeImageRecovered` | sizes fit `uint32_t`, their product does not: the offset wraps and wrong samples are read |
| `host_threads` | `OneArrayPerFile` | t1 opens f1, t2 opens f2, both write: f2 gets two arrays, f1 none |
| `host_signed` | `DispatchedTypeIsWritten` | an `NDInt8` image throws in `createArrowTableFromNDArray`: the `int8_t` branch tests `uint8_t` again |
| `host_read` | `ReadingRefused` | `readFile` returns `asynSuccess` |
| `host_restart` | `FormatSurvives` | a restart resets the format to Parquet |

What `host_threads` shows is why the properties of the `pool` run that speak of
one save speak of one that is alone. With one thread every save is.

## Fairness

`ImgToVectors` assumes weak fairness of its next step: a function runs until it
returns. `FileHost` assumes it of `Save(t)`, the second and third call of a save
(`WriteFile`, `WriteDies`, `CloseFile`): the host makes all three calls in one
go and none waits for another thread. No save has to begin, no fault has to
occur or to be absent, and the process need not be restarted.

`SavesSucceed` therefore excuses a save during which the file system fails or the
process is killed, and one under a format that is unset or unsupported, and
nothing else: a stream or schema left by earlier saves is no excuse. Its safety
half needs no fairness and holds for any number of threads: `SoloSavesGoThrough`
says of every step, its own or another thread's, that it leaves a save that is
alone on its way.

## What is proved

Assumptions: `WidthAssumption` (order of the integer widths), `FrameAssumption`
(buffers have the size of their image), `ArrayAssumption`, `HostAssumption`
(finitely many threads), `NullAssumption`. Nothing else is assumed of images,
arrays, files, threads or formats.

`ArrowSchema_proofs`: `NarrowestType`. The type `createSchema` picks holds both
sizes and no narrower one does; with `ToIntFits` (an `int` parameter keeps what
fits an `int`) an image can be converted under its own schema
(`OwnTypeConverts`).

`ImgToVectors_proofs`:

* `TypeCorrect`. A counter stays at or below its bound, which is at most the
  maximum of its type, so `++` does not wrap (`Bounds`).
* `ReadsSafe`. Every offset lies below `Reach`, also one that wraps in `uint32_t`
  (`OffsetsInside`), so if that many samples of the schema's pixel type end where the
  buffer does, no read leaves it. Nothing else is assumed of the image or the schema,
  but that offsets of type `int` do not overflow, which is undefined. The condition is
  met by every pixel type no wider than the image's own (`NoWiderTypeWithin` in
  `ArrowSchema_proofs`, as sizes only shrink when they are narrowed, `ReachFacts`); a
  wider one, stored by the save of another array, may read beyond the buffer. That the
  right sample is read needs more: an image that `Fits` (`FitsSizes`,
  `OffsetInBuffer`, `ReadsExact`).
* `PrefixCorrect`. `TypeOK /\ PrefixExact` is inductive: a hot pixel is appended
  behind all it must follow (`HotPixel`); in every other step no hot pixel lies
  between the old and the new position (`SameColumns`).
* `ConversionCorrect`, for a schema with the image's own pixel type and a coordinate
  type that fits. At the end of the loops the pixels visited are all pixels,
  and what a reader makes of columns that encode them is the image
  (`EncodedRecoverable`).
* `RowsCounted`. The rows are in bijection with the hot pixels, so `count`, with
  which the attribute columns are filled, is their number.
* `OwnSchemaCorrect`. Sizes that fit an `int` fit the type `createSchema` picks for
  them (`CoordTypeFits`).
* `OnePass`. `Left`, the number of iterations left, goes down by one in each: the
  safety half of termination.

`FileHost_proofs`, for any number of threads unless said otherwise:

* `TypeCorrect`. What each operation may do is first put into lemmas
  (`OpenFileEffect`, `WriteFileEffect`, `CloseFileEffect`, `DeathEffect`), which all
  later proofs use.
* `TablesBounded`. A file may receive another table only from a thread that has
  opened and not yet written; `Backlog` says that the tables in the stream's file
  and these threads together are at most all the threads. `openFile` empties the
  file, a write moves one thread from one side to the other.
* `SavedStaysSaved`, `StrayStreamHarmless`, `JobOwnsState`, `FormatHonoured`,
  `SoloSafe`. None is inductive alone: that a failed close or a kill cannot harm
  a saved file needs `NoStreamOnSavedFile`, that a closed save is exact needs what
  the file held when it was written, and that needs the schema and stream
  `openFile` left. `SaveInv` is their conjunction with what each phase of a save
  that is alone knows (`OwnFile`, `OpenedOK`, `WrittenOK`) and that there is at most
  one (`OnlySave`). Which arrays `SavedFilesIntact` promises is said by the limits
  of the C++ types (`Representable`), not by what the model does;
  `RepresentableExact` and `RepresentableWithin` prove, from `OwnTypeConverts` and
  `NoWiderTypeWithin`, that those are exact and are not read beyond their end.
  `SoloSafe` delimits what writeFile's unchecked trust can do (a null pointer, a read
  beyond the image, a writer that cannot start): all of it needs saves that overlap,
  an image beyond the limits, or a failing file system.
* `SoloSavesProceed`. In a save that is alone `writeFile` finds its fields, a
  column type, a format and an open stream (`ReadyToWrite`), so it neither refuses
  nor dies; no other call touches the phase of the save (`SaveProceeds`).
* `SingleArray` and `Refinement`, for a host whose saves do not overlap
  (`SerialSpec`), with any number of threads. Every save is then alone
  (`SerialHost`), and from `SaveInv` every step is a step of `ArraySaver` or a
  stutter: `openFile` is `Begin`, a write `Progress` or `Fail`, a close `Succeed` or
  `Fail` according to what the file holds, a death `End`. The stream that `openFile`
  replaces may be torn by its close; `StrayInvariant` says that when no save is under
  way its file holds no whole table, so there is nothing left to lose. The corollaries
  `SingleThreadSingleArray` and `SingleThreadRefinement` say the same of `Spec` with
  one thread, which has no save to overlap with (`OneThreadSerial`). When saves
  may overlap neither holds (`host_threads`).

`ArraySaver_proofs`: `Readable`, that the promise is worth having. What was
reported can be read back until the file is saved to again, because saves under
way have files of their own, of which nothing is reported.

Only model-checked: `Terminates` and `SavesSucceed` (liveness under fairness is out
of the prover's reach).

## Not modelled

* The base classes' queue, array pool and callbacks, file naming, capture and
  auto-save modes: they are not in the repository, and its code neither calls nor
  configures them beyond the constructor's arguments.
* Apache Arrow and Parquet: external; only success, error and abort are told apart.
* Values in the attribute columns (copied unchanged from the array), file layouts,
  wording and levels of log messages, iocsh argument tables, screens.
* googletest and googlemock under `src/arrowSupport/gtest`: vendored third-party
  code that the plugin is tested with, not part of it. It is 41 of the 42 thousand
  lines of implementation in the repository, so any share of the repository's
  lines is small; of the plugin's own sources (`src/arrowApp`) the models cover
  every function but the iocsh registration and every state change.

## Plan

Done: schema, conversion under any stored schema, plugin object, host, operator's
history, abstract saver, their runs; type correctness, the invariants of saves
that are alone for any number of threads, the bound for saves that overlap, the
refinement by saves that do not overlap, the steps of a save that is alone.

Nothing that changes state is left in the plugin's own code. What could still be
said, if the base classes were in the repository, concerns them: the queue between
driver and plugin, capture and stream modes, and which saves can in fact overlap.
