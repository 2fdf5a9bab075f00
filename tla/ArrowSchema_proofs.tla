------------------------- MODULE ArrowSchema_proofs -------------------------
(***************************************************************************)
(* The arithmetic of createSchema: what its conversions keep, and that the *)
(* coordinate type it picks is the right one, whatever the widths.         *)
(***************************************************************************)
EXTENDS ArrowSchema, TLAPS

(* The narrowing conversions keep a value that fits, and enlarge none. *)
LEMMA ModFits ==
  ASSUME NEW n \in Nat, NEW m \in Nat \ {0}
  PROVE  /\ n % m \in 0 .. m - 1
         /\ n < m => n % m = n
         /\ n % m <= n
  OBVIOUS

(* So does a value that fits the conversion to int. *)
LEMMA ToIntFits ==
  ASSUME NEW n \in Nat, n <= MaxInt
  PROVE  ToInt(n) = n
  <1>1. n < MaxU32 + 1 /\ MaxU32 + 1 \in Nat \ {0}
    BY WidthAssumption
  <1>2. n % (MaxU32 + 1) = n
    BY <1>1, ModFits
  <1> QED
    BY <1>2, WidthAssumption DEF ToInt

(* The column type createSchema picks holds both sizes, and no narrower    *)
(* one would (the two comparisons with numeric_limits).                    *)
THEOREM NarrowestType ==
  ASSUME NEW x \in Nat, NEW y \in Nat, x <= MaxInt, y <= MaxInt
  PROVE  /\ CoordType(x, y) \in CoordTypes
         /\ x <= CoordMax[CoordType(x, y)] /\ y <= CoordMax[CoordType(x, y)]
         /\ \A ct \in CoordTypes :
              x <= CoordMax[ct] /\ y <= CoordMax[ct] =>
                CoordMax[CoordType(x, y)] <= CoordMax[ct]
  BY WidthAssumption DEF CoordType, CoordTypes, Wider, CoordMax

(* An image can be converted with the coordinate type createSchema picks   *)
(* for it, if its sizes pass the int parameters and its samples can be     *)
(* addressed.                                                              *)
LEMMA OwnTypeConverts ==
  ASSUME NEW x \in Nat, NEW y \in Nat, x <= MaxInt, y <= MaxInt, NEW n,
         Addressable(CoordType(ToInt(x), ToInt(y)), n)
  PROVE  Convertible(CoordType(ToInt(x), ToInt(y)), x, y, n)
  BY ToIntFits, NarrowestType DEF Convertible

(* A product grows with its factors. *)
LEMMA ProductMonotone ==
  ASSUME NEW x \in Nat, NEW X \in Nat, NEW y \in Nat, NEW Y \in Nat, NEW N \in Nat,
         x <= X, y <= Y
  PROVE  x * y * N \in Nat /\ x * y * N <= X * Y * N
  <1>1. x * y \in Nat /\ X * Y \in Nat
    OBVIOUS
  <1>2. x * y <= X * y /\ X * y <= X * Y
    OBVIOUS
  <1> DEFINE p == x * y
             q == X * Y
  <1>3. p \in Nat /\ q \in Nat /\ p <= q
    BY <1>1, <1>2
  <1> HIDE DEF p, q
  <1>4. p * N \in Nat /\ p * N <= q * N
    BY <1>3
  <1> QED
    BY <1>4 DEF p, q

(* Every column type has a size. *)
LEMMA SizeType == \A p \in DOMAIN SizeOf : SizeOf[p] \in Nat \ {0}
  BY DEF SizeOf

(* The conversion of an image reads no more samples than it has, and in    *)
(* the widest coordinate type can address them.                            *)
LEMMA ReachFacts ==
  ASSUME NEW x \in Nat, NEW y \in Nat, NEW n \in Nat, NEW coord \in CoordTypes
  PROVE  /\ Reach(coord, x, y, n) \in Nat /\ x * y * n \in Nat
         /\ Reach(coord, x, y, n) <= x * y * n
         /\ coord = "uint32" => Addressable(coord, Reach(coord, x, y, n))
  <1> DEFINE X == Narrowed(x, coord)
             Y == Narrowed(y, coord)
             visited == Y * X * n
             all == x * y * n
  <1>1. CoordMax[coord] + 1 \in Nat \ {0}
    BY WidthAssumption DEF CoordTypes, CoordMax
  <1>2. X \in Nat /\ X <= x /\ Y \in Nat /\ Y <= y
    <2>1. \A size \in Nat : Narrowed(size, coord) = size % (CoordMax[coord] + 1)
      BY DEF Narrowed
    <2> DEFINE m == CoordMax[coord] + 1
    <2>2. \A size \in Nat : size % m \in 0 .. m - 1 /\ size % m <= size
      <3> m \in Nat \ {0}
        BY <1>1
      <3> HIDE DEF m
      <3> QED
        BY ModFits
    <2>3. \A size \in Nat : size % m \in Nat
      <3> m \in Nat \ {0}
        BY <1>1
      <3> HIDE DEF m
      <3> QED
        BY <2>2
    <2> HIDE DEF m
    <2> QED
      BY <2>1, <2>2, <2>3 DEF m
  <1>3. Reach(coord, x, y, n) =
          IF coord = "uint32" /\ visited > MaxU32 + 1 THEN MaxU32 + 1 ELSE visited
    BY DEF Reach
  <1> HIDE DEF X, Y
  <1>4. visited \in Nat /\ all \in Nat /\ visited <= all
    <2>1. X * Y * n \in Nat /\ X * Y * n <= x * y * n
      BY <1>2, ProductMonotone
    <2>2. X * Y = Y * X
      BY <1>2
    <2>3. x * y * n \in Nat
      BY ProductMonotone
    <2> QED
      BY <2>1, <2>2, <2>3
  <1> HIDE DEF visited, all
  <1>5. Reach(coord, x, y, n) \in Nat /\ Reach(coord, x, y, n) <= all
    BY <1>3, <1>4, WidthAssumption
  <1>6. coord = "uint32" => Reach(coord, x, y, n) <= MaxU32 + 1
    BY <1>3, <1>4, WidthAssumption
  <1> QED
    BY <1>4, <1>5, <1>6, WidthAssumption DEF Addressable, all

(* A pixel type no wider than the image's own does not make the conversion *)
(* read beyond the image, whatever the coordinate type, if only its        *)
(* offsets do not overflow an int (the cast of pData and the two size      *)
(* arguments of convertImgToVectors).                                      *)
THEOREM NoWiderTypeWithin ==
  ASSUME NEW x \in Nat, NEW y \in Nat, NEW n \in Nat, NEW coord \in CoordTypes,
         NEW p \in DOMAIN SizeOf, NEW own \in DOMAIN SizeOf, SizeOf[p] <= SizeOf[own],
         coord = "uint32" \/ Addressable(coord, Reach(coord, x, y, n))
  PROVE  ReadsWithin(coord, p, own, x, y, n)
  <1> DEFINE reach == Reach(coord, x, y, n)
             all == x * y * n
  <1>1. reach \in Nat /\ all \in Nat /\ reach <= all /\ Addressable(coord, reach)
    BY ReachFacts
  <1>2. SizeOf[p] \in Nat /\ SizeOf[own] \in Nat
    BY SizeType
  <1> HIDE DEF reach, all
  <1>3. /\ reach * SizeOf[p] \in Nat /\ all * SizeOf[p] \in Nat /\ all * SizeOf[own] \in Nat
        /\ reach * SizeOf[p] <= all * SizeOf[p] /\ all * SizeOf[p] <= all * SizeOf[own]
    BY <1>1, <1>2
  <1> QED
    BY <1>1, <1>3 DEF ReadsWithin, reach, all
=============================================================================
