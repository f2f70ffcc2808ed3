------------------------------- MODULE Resize --------------------------------
(***************************************************************************)
(* internal/image/image.go: which images are refused, and the size of the  *)
(* image that is stored.  The code scales with float64 and truncates: a    *)
(* quotient that is exact may come out just below itself and lose one; any *)
(* other is at least 1/2^26 away from the next integer and is truncated    *)
(* correctly for the dimensions an image can have.                         *)
(***************************************************************************)
EXTENDS Integers

(* int(float64(a) * (float64(b) / float64(d))) for the exact a * b = n.     *)
Truncated(n, d) == {n \div d} \cup IF n % d = 0 THEN {n \div d - 1} ELSE {}

(* exceedsMaxPixels. *)
ExceedsMaxPixels(width, height, maxPixels) ==
  maxPixels > 0 /\ width > 0 /\ height > 0 /\ width > maxPixels \div height

(* optimizeImage resizes what is larger than the target in one dimension.   *)
NeedsResize(width, height, maxWidth, maxHeight) == width > maxWidth \/ height > maxHeight

(* resizeImage: min(scaleFactorX, scaleFactorY) as the fraction it is.      *)
Scale(width, height, maxWidth, maxHeight) ==
  IF maxWidth * height <= maxHeight * width THEN [num |-> maxWidth, den |-> width]
                                            ELSE [num |-> maxHeight, den |-> height]

(* "check a 0 with integers" *)
AtLeastOne(n, this, other, maxOther) ==
  IF n = 0 /\ this > (other - 1) \div maxOther THEN 1 ELSE n

(* The sizes resizeImage may compute; it refuses one that is below 1. *)
Resized(width, height, maxWidth, maxHeight) ==
  LET s == Scale(width, height, maxWidth, maxHeight)
  IN {[width |-> AtLeastOne(w, width, height, maxHeight),
       height |-> AtLeastOne(h, height, width, maxWidth)] :
         w \in Truncated(width * s.num, s.den), h \in Truncated(height * s.num, s.den)}

Refused(size) == size.width < 1 \/ size.height < 1

-----------------------------------------------------------------------------
(* Scaled exactly, both sides keep a pixel. *)
KeepsPixels(width, height, maxWidth, maxHeight) ==
  width * maxHeight >= height /\ height * maxWidth >= width

(* An image is called too narrow exactly when scaling it to the target      *)
(* would leave less than one pixel, whichever way the rounding goes.        *)
TooNarrowExactly(width, height, maxWidth, maxHeight) ==
  \A size \in Resized(width, height, maxWidth, maxHeight) :
     Refused(size) <=> ~KeepsPixels(width, height, maxWidth, maxHeight)

(* Any other comes out with at least one pixel per side, and no more than   *)
(* the target has.                                                          *)
FitsTarget(width, height, maxWidth, maxHeight) ==
  KeepsPixels(width, height, maxWidth, maxHeight) =>
    \A size \in Resized(width, height, maxWidth, maxHeight) :
       size.width \in 1 .. maxWidth /\ size.height \in 1 .. maxHeight

(* The division decides as the product would, had it no width to overflow.  *)
PixelLimit(width, height, maxPixels) ==
  ExceedsMaxPixels(width, height, maxPixels) <=> width * height > maxPixels
=============================================================================
