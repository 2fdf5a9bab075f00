--------------------------- MODULE MCImgToVectors ---------------------------
(***************************************************************************)
(* Small images for ImgToVectors: with MaxU8 = 1, MaxU16 = 3 and           *)
(* MaxInt = 7 the shapes below lie on, under and over every boundary of    *)
(* the coordinate types and of the offset arithmetic.                      *)
(***************************************************************************)
EXTENDS ImgToVectors

(* <<xSize, ySize, nChannels>> *)
MCShapes ==
  {<<0, 2, 1>>, <<2, 0, 1>>, <<1, 1, 1>>, <<1, 1, 3>>,
   <<2, 1, 1>>, <<1, 2, 3>>, <<2, 2, 1>>, <<3, 2, 1>>, <<2, 3, 1>>,
   <<3, 3, 1>>, <<2, 2, 3>>,
   <<4, 1, 1>>, <<1, 4, 3>>, <<4, 4, 1>>, <<5, 4, 1>>, <<4, 2, 3>>, <<8, 1, 1>>}

(* At most two samples of an image are non-zero. *)
MCBuffers(n) ==
  {[o \in 0 .. n - 1 |-> IF o = p THEN v ELSE IF o = q THEN w ELSE 0] :
     p \in 0 .. n, q \in 0 .. n, v \in Samples, w \in Samples}

MCImages(shapes, pixels) ==
  UNION {{[xSize |-> s[1], ySize |-> s[2], nChannels |-> s[3], pixel |-> p, pData |-> b] :
            b \in MCBuffers(s[1] * s[2] * s[3]), p \in pixels} : s \in shapes}

MCFrames == MCImages(MCShapes, {"uint16"})

(* The stand-in of 90000 x 90000: both sizes need the widest coordinate    *)
(* type and fit it, their product does not.                                *)
MCSuperLarge == MCImages({<<5, 5, 1>>}, {"uint16"})

(* For schemas of other arrays, with MaxU16 = 2 and MaxInt = 3: pixels     *)
(* narrower, as wide and wider than those of the schema.  A type narrower  *)
(* than 3 leaves out part of a row, so that a wider pixel type need not do *)
(* harm; in the widest one the offsets of 3 x 3 pixels wrap.               *)
MCStaleFrames ==
  MCImages({<<1, 1, 1>>, <<1, 1, 3>>, <<3, 1, 1>>, <<2, 2, 1>>, <<3, 3, 1>>},
           {"uint8", "uint16"})
=============================================================================
