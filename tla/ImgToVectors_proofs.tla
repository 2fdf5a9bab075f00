------------------------ MODULE ImgToVectors_proofs ------------------------
(***************************************************************************)
(* The conversion of an image to sparse columns is exact for every image   *)
(* whose samples the code can address, whatever the widths of the types.   *)
(***************************************************************************)
EXTENDS ImgToVectors, ArrowSchema_proofs, FiniteSetTheorems, FunctionTheorems

USE DEF xRange, yRange, input, columns

(* Every sample of an image of size X by Y with N channels has an offset   *)
(* inside its buffer.                                                      *)
LEMMA OffsetInBuffer ==
  ASSUME NEW X \in Nat, NEW Y \in Nat, NEW N \in Nat,
         NEW x \in 0 .. X - 1, NEW y \in 0 .. Y - 1, NEW c \in 0 .. N - 1
  PROVE  (y * X + x) * N + c \in 0 .. X * Y * N - 1
  <1> DEFINE p == y * X + x
  <1>1. y * X \in Nat /\ y * X <= (Y - 1) * X
    OBVIOUS
  <1>2. (Y - 1) * X = X * Y - X
    OBVIOUS
  <1>3. p \in Nat /\ p <= X * Y - 1
    BY <1>1, <1>2
  <1>4. X * Y \in Nat
    OBVIOUS
  <1> HIDE DEF p
  <1>5. ASSUME NEW q \in Nat, p <= q - 1 PROVE p * N + c \in 0 .. q * N - 1
    <2>1. p * N \in Nat /\ p * N <= (q - 1) * N
      BY <1>3, <1>5
    <2>2. (q - 1) * N = q * N - N
      BY <1>5
    <2> QED
      BY <2>1, <2>2, <1>5
  <1>6. p * N + c \in 0 .. X * Y * N - 1
    BY <1>3, <1>4, <1>5
  <1> QED
    BY <1>6 DEF p

-----------------------------------------------------------------------------
(* What push_back leaves in a column. *)
LEMMA AppendFacts ==
  ASSUME NEW S, NEW s \in Seq(S), NEW e \in S
  PROVE  /\ Append(s, e) \in Seq(S)
         /\ Len(Append(s, e)) = Len(s) + 1
         /\ Append(s, e)[Len(s) + 1] = e
         /\ \A k \in 1 .. Len(s) : Append(s, e)[k] = s[k]
  OBVIOUS

(* What the type invariant says of the loop bounds. *)
LEMMA Bounds ==
  ASSUME IsFrame(frame), coord \in CoordTypes
  PROVE  /\ CoordMax[coord] \in Nat \ {0}
         /\ rows \in 0 .. CoordMax[coord] /\ cols \in 0 .. CoordMax[coord]
         /\ rows \in Nat /\ cols \in Nat
         /\ nChannels = 1 .. frame.nChannels
         /\ \A n \in 0 .. CoordMax[coord] - 1 : Narrow(n + 1) = n + 1
  <1> DEFINE max == CoordMax[coord]
  <1>1. max \in Nat \ {0}
    BY WidthAssumption DEF CoordTypes, CoordMax
  <1>2. frame.ySize \in Nat /\ frame.xSize \in Nat
    BY DEF IsFrame
  <1>3. rows = frame.ySize % (max + 1) /\ cols = frame.xSize % (max + 1)
    BY DEF rows, cols, Narrow, Narrowed
  <1>4. \A n : Narrow(n + 1) = (n + 1) % (max + 1)
    BY DEF Narrow, Narrowed
  <1> HIDE DEF max
  <1>5. rows \in 0 .. max /\ cols \in 0 .. max
    <2>1. max + 1 \in Nat \ {0}
      BY <1>1
    <2>2. frame.ySize % (max + 1) \in 0 .. (max + 1) - 1
      BY <2>1, <1>2, ModFits
    <2>3. frame.xSize % (max + 1) \in 0 .. (max + 1) - 1
      BY <2>1, <1>2, ModFits
    <2> QED
      BY <2>2, <2>3, <1>1, <1>3
  <1>6. ASSUME NEW n \in 0 .. max - 1 PROVE Narrow(n + 1) = n + 1
    <2>1. n + 1 \in Nat /\ n + 1 < max + 1 /\ max + 1 \in Nat \ {0}
      BY <1>1
    <2>2. (n + 1) % (max + 1) = n + 1
      BY <2>1, ModFits
    <2> QED
      BY <2>2, <1>4
  <1> QED
    BY <1>1, <1>5, <1>6 DEF nChannels, max

(* And of the loop counters. *)
LEMMA Counters ==
  ASSUME TypeOK
  PROVE  /\ i \in Nat /\ j \in Nat /\ rows \in Nat /\ cols \in Nat
         /\ i <= rows /\ j <= cols
  BY Bounds DEF TypeOK

(* The loop counters stay within their bounds and the columns have their   *)
(* types (convertImgToVectors).                                            *)
THEOREM TypeCorrect == Spec => []TypeOK
  <1>1. Init => TypeOK
    <2> SUFFICES ASSUME Init PROVE TypeOK
      OBVIOUS
    <2>1. IsFrame(frame) /\ coord \in CoordTypes /\ pixel \in PixelTypes
      BY FrameAssumption DEF Init
    <2> QED
      BY <2>1, Bounds DEF Init, TypeOK
  <1>2. TypeOK /\ [Next]_vars => TypeOK'
    <2> SUFFICES ASSUME TypeOK, [Next]_vars PROVE TypeOK'
      OBVIOUS
    <2>1. /\ IsFrame(frame) /\ coord \in CoordTypes /\ pixel \in PixelTypes
          /\ frame' = frame /\ coord' = coord /\ pixel' = pixel
      BY DEF TypeOK, Next, ScanPixel, NextRow, vars
    <2>2. /\ IsFrame(frame)' /\ (coord \in CoordTypes)' /\ (pixel \in PixelTypes)'
          /\ nChannels' = nChannels /\ rows' = rows /\ cols' = cols
      BY <2>1 DEF IsFrame, nChannels, rows, cols, Narrow
    <2>3. CASE ScanPixel
      <3>1. j' = j + 1 /\ i' = i
        BY <2>1, <2>3, Bounds DEF ScanPixel, MoreRows, TypeOK
      <3>2. i' \in 0 .. rows /\ j' \in 0 .. cols
        BY <2>1, <2>3, <3>1, Bounds DEF ScanPixel, MoreRows, TypeOK
      <3>3. PICK v \in PixelReads :
              \/ UNCHANGED columns
              \/ /\ count' = count + 1
                 /\ xs' = Append(xs, j)
                 /\ ys' = Append(ys, i)
                 /\ chans' = [c \in nChannels |-> Append(chans[c], v[c])]
        BY <2>3 DEF ScanPixel
      <3>4. v \in [nChannels -> Samples]
        BY DEF PixelReads
      <3>5. count' \in Nat /\ xs' \in Seq(0 .. cols) /\ ys' \in Seq(0 .. rows)
        <4>1. CASE UNCHANGED columns
          BY <4>1 DEF TypeOK
        <4>2. CASE count' = count + 1 /\ xs' = Append(xs, j) /\ ys' = Append(ys, i)
          BY <4>2, AppendFacts DEF TypeOK
        <4> QED
          BY <3>3, <4>1, <4>2
      <3>6. chans' \in [nChannels -> Seq(Samples)]
        <4>1. CASE UNCHANGED columns
          BY <4>1 DEF TypeOK
        <4>2. CASE chans' = [c \in nChannels |-> Append(chans[c], v[c])]
          <5>1. \A c \in nChannels : chans[c] \in Seq(Samples) /\ v[c] \in Samples
            BY <3>4 DEF TypeOK
          <5>2. \A c \in nChannels : Append(chans[c], v[c]) \in Seq(Samples)
            BY <5>1, AppendFacts
          <5> QED
            BY <4>2, <5>2
        <4> QED
          BY <3>3, <4>1, <4>2
      <3> QED
        BY <2>2, <3>2, <3>5, <3>6 DEF TypeOK
    <2>4. CASE NextRow
      <3>1. i' = i + 1 /\ j' = 0
        BY <2>1, <2>4, Bounds DEF NextRow, MoreRows, TypeOK
      <3>2. i' \in 0 .. rows /\ j' \in 0 .. cols
        BY <2>1, <2>4, <3>1, Bounds DEF NextRow, MoreRows, TypeOK
      <3> QED
        BY <2>2, <2>4, <3>2 DEF NextRow, MoreRows, TypeOK
    <2>5. CASE UNCHANGED vars
      BY <2>2, <2>5 DEF vars, TypeOK
    <2> QED
      BY <2>3, <2>4, <2>5 DEF Next
  <1> QED
    BY <1>1, <1>2, PTL DEF Spec
-----------------------------------------------------------------------------
(* An image that fits keeps its sizes when they become loop bounds. *)
LEMMA FitsSizes ==
  ASSUME IsFrame(frame), coord \in CoordTypes, Fits
  PROVE  rows = frame.ySize /\ cols = frame.xSize
  <1>1. frame.xSize \in Nat /\ frame.ySize \in Nat
    BY DEF IsFrame
  <1>2. CoordMax[coord] \in Nat \ {0}
    BY Bounds
  <1> DEFINE m == CoordMax[coord] + 1
  <1>3. m \in Nat \ {0} /\ frame.xSize < m /\ frame.ySize < m
    BY <1>1, <1>2 DEF Fits, Convertible
  <1>4. rows = frame.ySize % m /\ cols = frame.xSize % m
    BY DEF rows, cols, Narrow, Narrowed
  <1> HIDE DEF m
  <1>5. frame.ySize % m = frame.ySize /\ frame.xSize % m = frame.xSize
    BY <1>1, <1>3, ModFits
  <1> QED
    BY <1>4, <1>5

(* A pixel of the image has samples. *)
LEMMA SampleType ==
  ASSUME IsFrame(frame),
         NEW x \in xRange, NEW y \in yRange,
         NEW c \in nChannels
  PROVE  Sample(x, y, c) \in Samples
  <1>1. frame.xSize \in Nat /\ frame.ySize \in Nat /\ frame.nChannels \in Nat
    BY DEF IsFrame
  <1>2. c - 1 \in 0 .. frame.nChannels - 1
    BY <1>1 DEF nChannels
  <1>3. (y * frame.xSize + x) * frame.nChannels + (c - 1)
          \in 0 .. frame.xSize * frame.ySize * frame.nChannels - 1
    BY <1>1, <1>2, OffsetInBuffer
  <1> QED
    BY <1>3 DEF Sample, IsFrame

(* Every sample of an image that fits is read from where it is. *)
LEMMA ReadsExact ==
  ASSUME IsFrame(frame), coord \in CoordTypes, Fits, i \in 0 .. rows - 1, j \in 0 .. cols - 1,
         NEW c \in nChannels
  PROVE  Reads(c - 1) = {Sample(j, i, c)}
  <1> DEFINE X == frame.xSize
             Y == frame.ySize
             N == frame.nChannels
             exact == (i * X + j) * N + (c - 1)
             size == X * Y * N
  <1>1. X \in Nat /\ Y \in Nat /\ N \in Nat
    BY DEF IsFrame
  <1>2. rows = Y /\ cols = X
    BY FitsSizes
  <1>3. c - 1 \in 0 .. N - 1
    BY <1>1 DEF nChannels
  <1>4. size \in Nat /\ exact \in 0 .. size - 1
    <2>1. X * Y \in Nat /\ i \in 0 .. Y - 1 /\ j \in 0 .. X - 1
      BY <1>1, <1>2
    <2>2. X * Y * N \in Nat
      BY <1>1, <2>1
    <2> QED
      BY <1>1, <1>3, <2>1, <2>2, OffsetInBuffer
  <1>5. size <= 1 + (IF coord = "uint32" THEN MaxU32 ELSE MaxInt)
    BY DEF Fits, Convertible, Addressable
  <1>6. pixel = frame.pixel /\ Within(exact)
    <2>1. SizeOf[frame.pixel] \in Nat
      BY SizeType DEF IsFrame
    <2>2. pixel = frame.pixel
      BY DEF Fits
    <2>3. Within(exact) <=>
            exact >= 0 /\ (exact + 1) * SizeOf[pixel] <= size * SizeOf[frame.pixel]
      BY DEF Within
    <2> HIDE DEF exact, size
    <2>4. (exact + 1) * SizeOf[frame.pixel] <= size * SizeOf[frame.pixel]
      BY <1>4, <2>1
    <2> QED
      BY <1>4, <2>2, <2>3, <2>4
  <1>7. Offsets(c - 1) = IF coord = "uint32" THEN {exact % (MaxU32 + 1)}
                                         ELSE {exact, ToInt(exact)}
    BY <1>2 DEF Offsets, Index
  <1>8. Sample(j, i, c) = frame.pData[exact]
    BY DEF Sample
  <1> HIDE DEF exact, size
  <1>9. Offsets(c - 1) = {exact}
    <2>1. CASE coord = "uint32"
      <3>1. exact \in Nat /\ exact < MaxU32 + 1 /\ MaxU32 + 1 \in Nat \ {0}
        BY <1>4, <1>5, <2>1, WidthAssumption
      <3>2. exact % (MaxU32 + 1) = exact
        BY <3>1, ModFits
      <3> QED
        BY <1>7, <2>1, <3>2
    <2>2. CASE coord # "uint32"
      <3>1. exact \in Nat /\ exact <= MaxInt
        BY <1>4, <1>5, <2>2, WidthAssumption
      <3> QED
        BY <1>7, <2>2, <3>1, ToIntFits
    <2> QED
      BY <2>1, <2>2
  <1> QED
    BY <1>6, <1>8, <1>9 DEF Reads

-----------------------------------------------------------------------------
(* The image and what is said of it do not change. *)
LEMMA SameImage ==
  ASSUME UNCHANGED input
  PROVE  /\ nChannels' = nChannels
         /\ frame' = frame /\ coord' = coord
         /\ rows' = rows /\ cols' = cols
         /\ Fits' <=> Fits
         /\ \A x, y, c : Sample(x, y, c)' = Sample(x, y, c)
         /\ \A x, y : Hot(x, y)' <=> Hot(x, y)
  BY DEF nChannels, rows, cols, Narrow, Fits, Sample, Hot

(* The columns encode the pixels visited as long as no hot pixel was       *)
(* visited since.                                                          *)
LEMMA SameColumns ==
  ASSUME Encodes(j, i), UNCHANGED <<input, columns>>,
         \A x \in xRange, y \in yRange :
           Hot(x, y) => (y < i' \/ (y = i' /\ x < j') <=> y < i \/ (y = i /\ x < j))
  PROVE  Encodes(j, i)'
  <1> DEFINE X == xRange
             Y == yRange
             Before(x, y) == y < i' \/ (y = i' /\ x < j')
             Was(x, y) == y < i \/ (y = i /\ x < j)
  <1>1. \A k \in 1 .. count :
          /\ xs[k] \in X /\ ys[k] \in Y
          /\ Before(xs[k], ys[k])
          /\ Hot(xs[k], ys[k])
          /\ \A c \in nChannels : chans[c][k] = Sample(xs[k], ys[k], c)
    BY DEF Encodes
  <1>2. \A x \in X, y \in Y :
          Before(x, y) /\ Hot(x, y) => \E k \in 1 .. count : xs[k] = x /\ ys[k] = y
    <2>1. \A x \in X, y \in Y : Before(x, y) /\ Hot(x, y) => Was(x, y)
      OBVIOUS
    <2>2. \A x \in X, y \in Y :
            Was(x, y) /\ Hot(x, y) => \E k \in 1 .. count : xs[k] = x /\ ys[k] = y
      BY DEF Encodes
    <2> QED
      BY <2>1, <2>2
  <1>3. /\ count = Len(xs) /\ count = Len(ys)
        /\ \A c \in nChannels : count = Len(chans[c])
        /\ \A k, l \in 1 .. count :
             k < l => ys[k] < ys[l] \/ (ys[k] = ys[l] /\ xs[k] < xs[l])
    BY DEF Encodes
  <1> QED
    BY <1>1, <1>2, <1>3, SameImage DEF Encodes

(* A visited pixel with a non-zero sample is appended, and only it. *)
LEMMA HotPixel ==
  ASSUME TypeOK, Fits, Encodes(j, i), i < rows, j < cols, Hot(j, i),
         count' = count + 1, xs' = Append(xs, j), ys' = Append(ys, i),
         chans' = [c \in nChannels |-> Append(chans[c], Sample(j, i, c))],
         UNCHANGED input, i' = i, j' = j + 1
  PROVE  Encodes(j, i)'
  <1> DEFINE X == xRange
             Y == yRange
             Old == 1 .. count
             New == count + 1
             Before(x, y) == y < i \/ (y = i /\ x < j)
             Upto(x, y) == y < i \/ (y = i /\ x < j + 1)
  <1>1. /\ i \in Y /\ j \in X /\ i \in Nat /\ j \in Nat /\ count \in Nat
        /\ frame.xSize \in Nat /\ frame.ySize \in Nat
    BY FitsSizes DEF TypeOK, IsFrame
  <1>2. /\ count = Len(xs) /\ count = Len(ys)
        /\ \A c \in nChannels : count = Len(chans[c])
        /\ \A k \in Old :
             /\ xs[k] \in X /\ ys[k] \in Y
             /\ Before(xs[k], ys[k])
             /\ Hot(xs[k], ys[k])
             /\ \A c \in nChannels : chans[c][k] = Sample(xs[k], ys[k], c)
        /\ \A x \in X, y \in Y :
             Before(x, y) /\ Hot(x, y) => \E k \in Old : xs[k] = x /\ ys[k] = y
        /\ \A k, l \in Old : k < l => ys[k] < ys[l] \/ (ys[k] = ys[l] /\ xs[k] < xs[l])
    BY DEF Encodes
  <1>3. /\ xs \in Seq(0 .. cols) /\ ys \in Seq(0 .. rows)
        /\ \A c \in nChannels : chans[c] \in Seq(Samples)
    BY DEF TypeOK
  <1>4. /\ Len(xs') = New /\ xs'[New] = j /\ \A k \in Old : xs'[k] = xs[k]
        /\ Len(ys') = New /\ ys'[New] = i /\ \A k \in Old : ys'[k] = ys[k]
    <2>1. j \in 0 .. cols /\ i \in 0 .. rows
      BY DEF TypeOK
    <2>2. /\ Len(xs') = Len(xs) + 1 /\ xs'[Len(xs) + 1] = j
          /\ \A k \in 1 .. Len(xs) : xs'[k] = xs[k]
      BY <1>3, <2>1, AppendFacts
    <2>3. /\ Len(ys') = Len(ys) + 1 /\ ys'[Len(ys) + 1] = i
          /\ \A k \in 1 .. Len(ys) : ys'[k] = ys[k]
      BY <1>3, <2>1, AppendFacts
    <2> QED
      BY <1>2, <2>2, <2>3
  <1>5. ASSUME NEW c \in nChannels
        PROVE  /\ Len(chans'[c]) = New
               /\ chans'[c][New] = Sample(j, i, c)
               /\ \A k \in Old : chans'[c][k] = chans[c][k]
    <2>1. Sample(j, i, c) \in Samples
      BY <1>1, SampleType DEF TypeOK
    <2>2. chans'[c] = Append(chans[c], Sample(j, i, c))
      OBVIOUS
    <2> QED
      BY <1>2, <1>3, <2>1, <2>2, AppendFacts
  <1>6. 1 .. count' = Old \cup {New} /\ \A k \in Old : k \in Nat /\ k < New
    BY <1>1
  <1>7. \A k \in Old \cup {New} :
          /\ xs'[k] \in X /\ ys'[k] \in Y
          /\ Upto(xs'[k], ys'[k])
          /\ Hot(xs'[k], ys'[k])
          /\ \A c \in nChannels : chans'[c][k] = Sample(xs'[k], ys'[k], c)
    <2>1. ASSUME NEW x \in X, NEW y \in Y, Before(x, y) PROVE Upto(x, y)
      BY <1>1, <2>1
    <2>2. Upto(j, i)
      BY <1>1
    <2>3. j \in X /\ i \in Y
      BY <1>1
    <2> HIDE DEF X, Y, Old, New, Before, Upto
    <2>4. ASSUME NEW k \in Old
          PROVE  /\ xs'[k] \in X /\ ys'[k] \in Y
                 /\ Upto(xs'[k], ys'[k])
                 /\ Hot(xs'[k], ys'[k])
                 /\ \A c \in nChannels : chans'[c][k] = Sample(xs'[k], ys'[k], c)
      <3>1. xs'[k] = xs[k] /\ ys'[k] = ys[k] /\ \A c \in nChannels : chans'[c][k] = chans[c][k]
        BY <1>4, <1>5
      <3>2. /\ xs[k] \in X /\ ys[k] \in Y /\ Before(xs[k], ys[k]) /\ Hot(xs[k], ys[k])
            /\ \A c \in nChannels : chans[c][k] = Sample(xs[k], ys[k], c)
        BY <1>2
      <3>3. Upto(xs[k], ys[k])
        BY <2>1, <3>2
      <3> QED
        BY <3>1, <3>2, <3>3
    <2>5. /\ xs'[New] \in X /\ ys'[New] \in Y
          /\ Upto(xs'[New], ys'[New])
          /\ Hot(xs'[New], ys'[New])
          /\ \A c \in nChannels : chans'[c][New] = Sample(xs'[New], ys'[New], c)
      BY <1>4, <1>5, <2>2, <2>3
    <2> QED
      BY <2>4, <2>5
  <1>8. \A x \in X, y \in Y :
          Upto(x, y) /\ Hot(x, y) => \E k \in Old \cup {New} : xs'[k] = x /\ ys'[k] = y
    <2> SUFFICES ASSUME NEW x \in X, NEW y \in Y, Upto(x, y), Hot(x, y)
                 PROVE  \E k \in Old \cup {New} : xs'[k] = x /\ ys'[k] = y
      OBVIOUS
    <2>1. CASE Before(x, y)
      BY <1>2, <1>4, <2>1
    <2>2. CASE x = j /\ y = i
      BY <1>4, <2>2
    <2>3. Before(x, y) \/ (x = j /\ y = i)
      BY <1>1
    <2> QED
      BY <2>1, <2>2, <2>3
  <1>9. \A k, l \in Old \cup {New} :
          k < l => ys'[k] < ys'[l] \/ (ys'[k] = ys'[l] /\ xs'[k] < xs'[l])
    BY <1>1, <1>2, <1>4, <1>6
  <1>10. /\ nChannels' = nChannels /\ frame' = frame
         /\ \A x, y, c : Sample(x, y, c)' = Sample(x, y, c)
         /\ \A x, y : Hot(x, y)' <=> Hot(x, y)
    BY SameImage
  <1> HIDE DEF New, Old, X, Y
  <1> QED
    BY <1>4, <1>5, <1>6, <1>7, <1>8, <1>9, <1>10 DEF Encodes, X, Y, New
-----------------------------------------------------------------------------
(* When the samples the schema's types make the loops visit end where the  *)
(* image's buffer does, every offset lies in it, as the code computes it.  *)
LEMMA OffsetsInside ==
  ASSUME IsFrame(frame), coord \in CoordTypes, pixel \in PixelTypes,
         i \in 0 .. rows - 1, j \in 0 .. cols - 1,
         ReadsWithin(coord, pixel, frame.pixel, frame.xSize, frame.ySize, frame.nChannels),
         NEW c \in nChannels, NEW o \in Offsets(c - 1)
  PROVE  Within(o)
  <1> DEFINE N == frame.nChannels
             exact == (i * cols + j) * N + (c - 1)
             visited == rows * cols * N
             reach == Reach(coord, frame.xSize, frame.ySize, N)
             bytes == frame.xSize * frame.ySize * N * SizeOf[frame.pixel]
  <1>1. /\ frame.xSize \in Nat /\ frame.ySize \in Nat /\ N \in Nat
        /\ rows \in Nat /\ cols \in Nat
    BY Bounds DEF IsFrame
  <1>2. visited \in Nat /\ exact \in 0 .. visited - 1
    <2>1. c - 1 \in 0 .. N - 1
      BY <1>1 DEF nChannels
    <2>2. exact \in 0 .. cols * rows * N - 1
      BY <1>1, <2>1, OffsetInBuffer
    <2>3. rows * cols = cols * rows /\ cols * rows * N \in Nat
      BY <1>1, ProductMonotone
    <2> QED
      BY <2>2, <2>3
  <1>3. /\ reach = IF coord = "uint32" /\ visited > MaxU32 + 1 THEN MaxU32 + 1 ELSE visited
        /\ Addressable(coord, reach) /\ reach * SizeOf[pixel] <= bytes
    BY DEF Reach, ReadsWithin, rows, cols, Narrow
  <1>4. o \in IF coord = "uint32" THEN {exact % (MaxU32 + 1)} ELSE {exact, ToInt(exact)}
    BY DEF Offsets, Index
  <1>5. SizeOf[pixel] \in Nat
    BY FrameAssumption, SizeType
  <1>6. bytes \in Nat
    BY <1>1, SizeType, ProductMonotone DEF IsFrame
  <1>7. Within(o) <=> o >= 0 /\ (o + 1) * SizeOf[pixel] <= bytes
    BY DEF Within
  <1> HIDE DEF exact, visited, reach, bytes
  <1>8. o \in Nat /\ reach \in Nat /\ o + 1 <= reach
    <2>1. CASE coord = "uint32"
      <3>1. exact \in Nat /\ MaxU32 + 1 \in Nat \ {0}
        BY <1>2, WidthAssumption
      <3>2. o \in 0 .. MaxU32 /\ o <= exact
        <4>1. exact % (MaxU32 + 1) \in 0 .. (MaxU32 + 1) - 1 /\ exact % (MaxU32 + 1) <= exact
          BY <3>1, ModFits
        <4> QED
          BY <1>4, <2>1, <4>1, WidthAssumption
      <3> QED
        BY <1>2, <1>3, <2>1, <3>1, <3>2, WidthAssumption
    <2>2. CASE coord # "uint32"
      <3>1. reach = visited /\ visited <= 1 + MaxInt
        BY <1>3, <2>2 DEF Addressable
      <3>2. exact \in Nat /\ exact <= MaxInt
        BY <1>2, <3>1, WidthAssumption
      <3>3. o = exact
        BY <1>4, <2>2, <3>2, ToIntFits
      <3> QED
        BY <1>2, <3>1, <3>3
    <2> QED
      BY <2>1, <2>2
  <1>9. (o + 1) * SizeOf[pixel] <= reach * SizeOf[pixel]
        /\ (o + 1) * SizeOf[pixel] \in Nat /\ reach * SizeOf[pixel] \in Nat
    BY <1>5, <1>8
  <1> QED
    BY <1>3, <1>6, <1>7, <1>8, <1>9

(* The loop never reads outside the image, under any schema and for any    *)
(* size, unless the schema's pixel type makes the samples visited end      *)
(* beyond the image's buffer or their offsets overflow an int (the cast of *)
(* pData, the index expression of convertImgToVectors).                    *)
THEOREM ReadsSafe == Spec => []ReadsInBounds
  <1>1. TypeOK => ReadsInBounds
    <2> SUFFICES ASSUME TypeOK, MoreRows, j < cols,
                        ReadsWithin(coord, pixel, frame.pixel, frame.xSize, frame.ySize,
                                    frame.nChannels)
                 PROVE  \A c \in nChannels : \A o \in Offsets(c - 1) : Within(o)
      BY DEF ReadsInBounds
    <2>1. IsFrame(frame) /\ coord \in CoordTypes /\ pixel \in PixelTypes
      BY DEF TypeOK
    <2>2. i \in 0 .. rows - 1 /\ j \in 0 .. cols - 1
      BY <2>1, Bounds DEF TypeOK, MoreRows
    <2> QED
      BY <2>1, <2>2, OffsetsInside
  <1> QED
    BY <1>1, TypeCorrect, PTL

(* At every iteration the columns encode exactly the pixels visited so far *)
(* (the double loop of convertImgToVectors).                               *)
THEOREM PrefixCorrect == Spec => []PrefixExact
  <1>1. Init => PrefixExact
    <2> SUFFICES ASSUME Init, IsFrame(frame) PROVE Encodes(j, i)
      BY FrameAssumption DEF Init, PrefixExact
    <2>1. \A y \in yRange : ~(y < 0)
      BY DEF IsFrame
    <2>2. \A x \in xRange : ~(x < 0)
      BY DEF IsFrame
    <2> QED
      BY <2>1, <2>2 DEF Init, Encodes
  <1>2. TypeOK /\ PrefixExact /\ [Next]_vars => PrefixExact'
    <2> SUFFICES ASSUME TypeOK, PrefixExact, [Next]_vars, Fits'
                 PROVE  Encodes(j, i)'
      BY DEF PrefixExact
    <2>1. UNCHANGED input /\ IsFrame(frame) /\ coord \in CoordTypes
      BY DEF TypeOK, Next, ScanPixel, NextRow, vars
    <2>2. Fits /\ Encodes(j, i)
      BY <2>1, SameImage DEF PrefixExact
    <2>3. CASE ScanPixel
      <3>1. j' = j + 1 /\ i' = i
        BY <2>1, <2>3, Bounds DEF ScanPixel, MoreRows, TypeOK
      <3>2. i \in 0 .. rows - 1 /\ j \in 0 .. cols - 1
        BY <2>1, <2>3, Bounds DEF ScanPixel, MoreRows, TypeOK
      <3>3. \A v \in PixelReads : \A c \in nChannels : v[c] = Sample(j, i, c)
        BY <2>1, <2>2, <3>2, ReadsExact DEF PixelReads
      <3>4. CASE Hot(j, i)
        <4>1. PICK v \in PixelReads :
                /\ count' = count + 1 /\ xs' = Append(xs, j) /\ ys' = Append(ys, i)
                /\ chans' = [c \in nChannels |-> Append(chans[c], v[c])]
          BY <2>3, <3>3, <3>4 DEF ScanPixel, AllZeros, Hot
        <4>2. chans' = [c \in nChannels |-> Append(chans[c], Sample(j, i, c))]
          BY <3>3, <4>1
        <4> QED
          BY <2>1, <2>2, <2>3, <3>1, <3>4, <4>1, <4>2, HotPixel DEF ScanPixel, MoreRows
      <3>5. CASE ~Hot(j, i)
        <4>1. UNCHANGED columns
          BY <2>3, <3>3, <3>5 DEF ScanPixel, AllZeros, Hot
        <4>2. \A x \in xRange, y \in yRange :
                Hot(x, y) => (y < i \/ (y = i /\ x < j + 1) <=> y < i \/ (y = i /\ x < j))
          <5>1. i \in Nat /\ j \in Nat /\ frame.xSize \in Nat /\ frame.ySize \in Nat
            BY <2>1, <3>2, Bounds DEF IsFrame
          <5>2. \A x \in xRange, y \in yRange :
                  Hot(x, y) => ~(x = j /\ y = i)
            BY <3>5
          <5> QED
            BY <5>1, <5>2
        <4> QED
          BY <2>1, <2>2, <3>1, <4>1, <4>2, SameColumns
      <3> QED
        BY <3>4, <3>5
    <2>4. CASE NextRow
      <3>1. i' = i + 1 /\ j' = 0
        BY <2>1, <2>4, Bounds DEF NextRow, MoreRows, TypeOK
      <3>2. j = cols /\ i \in Nat
        BY <2>4, Counters DEF NextRow
      <3>3. j = frame.xSize /\ frame.xSize \in Nat /\ frame.ySize \in Nat
        BY <2>1, <2>2, <3>2, FitsSizes DEF IsFrame
      <3>4. \A x \in xRange, y \in yRange :
              y < i + 1 \/ (y = i + 1 /\ x < 0) <=> y < i \/ (y = i /\ x < j)
        BY <3>2, <3>3
      <3>5. UNCHANGED columns
        BY <2>4 DEF NextRow
      <3> QED
        BY <2>1, <2>2, <3>1, <3>4, <3>5, SameColumns
    <2>5. CASE UNCHANGED vars
      BY <2>2, <2>5, SameColumns DEF vars
    <2> QED
      BY <2>3, <2>4, <2>5 DEF Next
  <1> QED
    BY <1>1, <1>2, TypeCorrect, PTL DEF Spec

(* Columns that encode a whole image give it back to every reader. *)
LEMMA EncodedRecoverable ==
  ASSUME IsFrame(frame), Encodes(0, frame.ySize)
  PROVE  Recoverable
  <1>1. ASSUME NEW x \in xRange, NEW y \in yRange, NEW c \in nChannels
        PROVE  ReadBack(x, y, c) = {Sample(x, y, c)}
    <2>1. CASE RowsOf(x, y) = {}
      <3>1. ~Hot(x, y)
        <4>1. y < frame.ySize
          BY DEF IsFrame
        <4> QED
          BY <2>1, <4>1 DEF Encodes, RowsOf
      <3> QED
        BY <2>1, <3>1 DEF ReadBack, Hot
    <2>2. CASE RowsOf(x, y) # {}
      <3>1. \A k \in RowsOf(x, y) : chans[c][k] = Sample(x, y, c)
        BY DEF Encodes, RowsOf
      <3> QED
        BY <2>2, <3>1 DEF ReadBack
    <2> QED
      BY <2>1, <2>2
  <1>2. \A k \in 1 .. count : xs[k] \in xRange /\ ys[k] \in yRange /\ Hot(xs[k], ys[k])
    BY DEF Encodes
  <1>3. count = 0 <=> \A x \in xRange, y \in yRange : ~Hot(x, y)
    <2>1. count \in Nat
      BY DEF Encodes
    <2>2. ASSUME count = 0, NEW x \in xRange, NEW y \in yRange PROVE ~Hot(x, y)
      <3>1. y < frame.ySize /\ 1 .. count = {}
        BY <2>2 DEF IsFrame
      <3> QED
        BY <3>1 DEF Encodes
    <2>3. ASSUME count # 0 PROVE 1 \in 1 .. count
      BY <2>1, <2>3
    <2> QED
      BY <1>2, <2>2, <2>3
  <1> QED
    BY <1>1, <1>2, <1>3 DEF Recoverable

(* What convertImgToVectors returns under a schema that fits the image     *)
(* gives it back to a reader, whichever array the schema was made for.     *)
THEOREM ConversionCorrect == Spec => []ImageRecovered
  <1>1. TypeOK /\ PrefixExact => ImageRecovered
    <2> SUFFICES ASSUME TypeOK, PrefixExact, Done, Fits
                 PROVE  Encodes(0, frame.ySize)
      BY EncodedRecoverable DEF ImageRecovered, TypeOK
    <2> IsFrame(frame) /\ coord \in CoordTypes
      BY DEF TypeOK
    <2>1. i = rows /\ i \in Nat
      BY Bounds DEF TypeOK, Done, MoreRows
    <2>2. \A x \in xRange, y \in yRange :
            (y < i \/ (y = i /\ x < j)) /\ (y < frame.ySize \/ (y = frame.ySize /\ x < 0))
      BY <2>1, FitsSizes DEF IsFrame
    <2> DEFINE Visited(x, y) == y < i \/ (y = i /\ x < j)
    <2>3. /\ count = Len(xs) /\ count = Len(ys)
          /\ \A c \in nChannels : count = Len(chans[c])
          /\ \A k \in 1 .. count :
               /\ xs[k] \in xRange /\ ys[k] \in yRange
               /\ Hot(xs[k], ys[k])
               /\ \A c \in nChannels : chans[c][k] = Sample(xs[k], ys[k], c)
          /\ \A x \in xRange, y \in yRange :
               Visited(x, y) /\ Hot(x, y) => \E k \in 1 .. count : xs[k] = x /\ ys[k] = y
          /\ \A k, l \in 1 .. count :
               k < l => ys[k] < ys[l] \/ (ys[k] = ys[l] /\ xs[k] < xs[l])
      BY DEF PrefixExact, Encodes
    <2>4. \A x \in xRange, y \in yRange : Visited(x, y)
      BY <2>2
    <2> HIDE DEF Visited
    <2> QED
      BY <2>2, <2>3, <2>4 DEF Encodes
  <1> QED
    BY <1>1, TypeCorrect, PrefixCorrect, PTL

(* The rows are numbered without a gap, no two show the same pixel and     *)
(* none a cold one: there are as many as hot pixels.  The attribute        *)
(* columns, made of count copies, have the length of the others.           *)
THEOREM RowsCounted == Spec => []OneRowPerHotPixel
  <1>1. TypeOK /\ PrefixExact => OneRowPerHotPixel
    <2> SUFFICES ASSUME TypeOK, Done, Fits, Encodes(j, i) PROVE count = Cardinality(HotPixels)
      BY DEF PrefixExact, OneRowPerHotPixel
    <2> DEFINE shown == [k \in 1 .. count |-> <<xs[k], ys[k]>>]
    <2>1. count \in Nat
      BY DEF TypeOK
    <2>2. \A k \in 1 .. count : xs[k] \in xRange /\ ys[k] \in yRange /\ Hot(xs[k], ys[k])
      BY DEF Encodes
    <2>3. shown \in [1 .. count -> HotPixels]
      BY <2>2 DEF HotPixels
    <2>4. ASSUME NEW k \in 1 .. count, NEW l \in 1 .. count, shown[k] = shown[l] PROVE k = l
      <3>1. xs[k] = xs[l] /\ ys[k] = ys[l]
        BY <2>4
      <3>2. xs[k] \in Int /\ ys[k] \in Int
        BY <2>2
      <3>3. ~(k < l) /\ ~(l < k)
        BY <3>1, <3>2 DEF Encodes
      <3> QED
        BY <2>1, <3>3
    <2>5. ASSUME NEW p \in HotPixels PROVE \E k \in 1 .. count : shown[k] = p
      <3>1. p[1] \in xRange /\ p[2] \in yRange /\ p = <<p[1], p[2]>> /\ Hot(p[1], p[2])
        BY DEF HotPixels
      <3>2. p[2] < i
        <4>1. i = frame.ySize /\ frame.ySize \in Nat
          BY Bounds, FitsSizes DEF TypeOK, Done, MoreRows, IsFrame
        <4> QED
          BY <3>1, <4>1
      <3>3. PICK k \in 1 .. count : xs[k] = p[1] /\ ys[k] = p[2]
        BY <3>1, <3>2 DEF Encodes
      <3> QED
        BY <3>1, <3>3
    <2>6. shown \in Bijection(1 .. count, HotPixels)
      <3> HIDE DEF shown
      <3> QED
        BY <2>3, <2>4, <2>5, Fun_IsBij
    <2>7. IsFiniteSet(1 .. count) /\ Cardinality(1 .. count) = count
      BY <2>1, FS_Interval
    <2>8. ExistsBijection(1 .. count, HotPixels)
      BY <2>6 DEF ExistsBijection
    <2> QED
      BY <2>7, <2>8, FS_Bijection
  <1> QED
    BY <1>1, TypeCorrect, PrefixCorrect, PTL

(* The schema createSchema makes for the image itself fits: its thresholds *)
(* and the int parameters lose nothing.                                    *)
THEOREM OwnSchemaCorrect == Spec => []OwnImageRecovered
  <1>1. TypeOK /\ ImageRecovered => OwnImageRecovered
    <2> SUFFICES ASSUME TypeOK, OwnType,
                        frame.xSize <= MaxInt, frame.ySize <= MaxInt,
                        Addressable(coord, frame.xSize * frame.ySize * frame.nChannels)
                 PROVE  Fits
      BY DEF OwnImageRecovered, ImageRecovered
    <2>1. frame.xSize \in Nat /\ frame.ySize \in Nat
      BY DEF TypeOK, IsFrame
    <2>2. pixel = frame.pixel /\ coord = CoordType(frame.xSize, frame.ySize)
      BY <2>1, ToIntFits DEF OwnType
    <2> QED
      BY <2>1, <2>2, NarrowestType DEF Fits, Convertible
  <1> QED
    BY <1>1, TypeCorrect, ConversionCorrect, PTL

(* Each iteration leaves exactly one less, and the loops end when none is  *)
(* left: with the well-foundedness of Nat, why convertImgToVectors returns *)
(* after one pass over the image (its two for statements).                 *)
THEOREM OnePass == Spec => OnePassOnly
  <1> DEFINE Step == Left' = Left - 1 /\ (Left' = 0 <=> Done')
  <1>1. TypeOK /\ TypeOK' /\ [Next]_vars => [Step]_vars
    <2> SUFFICES ASSUME TypeOK, TypeOK', Next PROVE Step
      OBVIOUS
    <2>1. /\ IsFrame(frame) /\ coord \in CoordTypes
          /\ frame' = frame /\ coord' = coord /\ rows' = rows /\ cols' = cols
      BY DEF TypeOK, Next, ScanPixel, NextRow, rows, cols, Narrow
    <2>2. /\ rows \in Nat /\ cols \in Nat
          /\ i \in 0 .. rows /\ j \in 0 .. cols /\ i' \in 0 .. rows /\ j' \in 0 .. cols
      BY <2>1, Bounds DEF TypeOK
    <2>3. Left' = (rows - i') * (cols + 1) - j'
      BY <2>1 DEF Left
    <2>4. CASE ScanPixel
      <3>1. i' = i /\ j' = j + 1 /\ i < rows
        BY <2>1, <2>4, Bounds DEF ScanPixel, MoreRows, TypeOK
      <3>2. Left' = Left - 1
        BY <2>2, <2>3, <3>1 DEF Left
      <3>3. (rows - i) * (cols + 1) >= cols + 1
        BY <2>2, <3>1
      <3>4. Left' # 0
        BY <2>2, <2>3, <3>1, <3>3
      <3> QED
        BY <2>1, <3>1, <3>2, <3>4 DEF Done, MoreRows
    <2>5. CASE NextRow
      <3>1. i' = i + 1 /\ j' = 0 /\ j = cols
        <4>1. i' = i + 1 /\ j' = 0
          BY <2>1, <2>5, Bounds DEF NextRow, MoreRows, TypeOK
        <4> QED
          BY <2>5, <4>1, Counters DEF NextRow
      <3>2. Left' = Left - 1
        BY <2>2, <2>3, <3>1 DEF Left
      <3>3. Left' = 0 <=> rows = i'
        BY <2>2, <2>3, <3>1
      <3> QED
        BY <2>1, <2>2, <3>2, <3>3 DEF Done, MoreRows
    <2> QED
      BY <2>4, <2>5 DEF Next
  <1> QED
    BY <1>1, TypeCorrect, PTL DEF Spec, OnePassOnly
=============================================================================
