----------------------------- MODULE MCFileHost -----------------------------
(***************************************************************************)
(* Arrays for FileHost, one for each way through openFile and writeFile.   *)
(***************************************************************************)
EXTENDS FileHost, TLC

MCArray(dataType, colorMode, xSize, ySize) ==
  [dataType |-> dataType, colorMode |-> colorMode, xSize |-> xSize, ySize |-> ySize]

MCMono == MCArray("NDUInt8", "Mono", 1, 1)

(* Wider than the coordinate type of MCMono, and of other channels. *)
MCColour == MCArray("NDInt16", "RGB1", 4, 1)

(* As MCMono, but wider than its coordinate type: written under its schema *)
(* the table would be wrong without anything failing.                      *)
MCWide == MCArray("NDUInt8", "Mono", 4, 1)

(* As MCMono, but of wider samples: under its schema MCMono is read beyond *)
(* its end.                                                                *)
MCDeep == MCArray("NDInt16", "Mono", 1, 1)

(* Its nine samples are more than an offset of type int can address. *)
MCLarge == MCArray("NDUInt8", "Mono", 3, 3)

(* createSchema accepts it, writeFile has no case for it. *)
MCRefused == MCArray("NDUInt32", "Mono", 2, 2)

(* writeFile has a case for it, createArrowTableFromNDArray throws. *)
MCSigned == MCArray("NDInt8", "Mono", 1, 2)

(* createSchema throws. *)
MCPlanar == MCArray("NDUInt8", "RGB3", 1, 1)

MCArrays == {MCMono, MCColour, MCLarge, MCRefused, MCSigned, MCPlanar}

MCSupported == {MCMono, MCColour}

(* And what ends the process under the saves of other threads. *)
MCPool == MCSupported \cup {MCPlanar}

(* And what gets a wrong table, or is read beyond its end. *)
MCStale == MCPool \cup {MCWide, MCDeep}

MCOpenModes == {{"Write"}, {"Read"}, {"Write", "Append"}}

MCWriteOnly == {{"Write"}}

(* Threads and files are interchangeable. *)
MCSymmetry == Permutations(Threads) \cup Permutations(FileNames)
=============================================================================
