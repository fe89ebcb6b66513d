----------------------------- MODULE IconImages -----------------------------
(***************************************************************************)
(* The geometry of feed icons (rust-core/src/icons.rs): fitting an image   *)
(* into the square of the icon, and the rounded surface a dark icon gets   *)
(* as its background.  Colours and resampling are left out.                *)
(***************************************************************************)
EXTENDS Integers, FiniteSets, FiniteSetsExt

(* A quotient rounded to the nearest integer; a tie goes either way, since *)
(* the code computes with a scale that is itself rounded.                  *)
Rounded(n, d) ==
    LET up == (2 * n + d) \div (2 * d)
    IN  IF (2 * n + d) % (2 * d) = 0 THEN {up, up - 1} ELSE {up}

(* resize_and_encode: the smaller scale of both sides, at least one pixel, *)
(* and centred; size - width must not go below zero.                       *)
LongerSide(w, h) == Max({w, h})
ShorterSide(w, h) == Min({w, h})
Divisor(w, h) == LongerSide(w, h)
Scaled(side, w, h, size) == {Max({1, r}) : r \in Rounded(side * size, Divisor(w, h))}
Boxes(w, h, size) ==
    {[x |-> (size - width) \div 2, y |-> (size - height) \div 2,
      width |-> width, height |-> height]
       : width \in Scaled(w, w, h, size), height \in Scaled(h, w, h, size)}

-----------------------------------------------------------------------------
(* draw_rounded_surface, in fortieths of a pixel: an inset of 1, a radius  *)
(* of a fifth of the shorter side and at least 3, four samples a side.     *)
Unit == 40
Inset == Unit
Radius(w, h) == Max({(Unit \div 5) * Min({w, h}), 3 * Unit})
Sample(pixel, s) == Unit * pixel + 5 * (2 * s + 1)

(* inside_rounded_rectangle.                                               *)
InsideRoundedRectangle(x, y, w, h) ==
    LET left == Inset               top == Inset
        right == Unit * w - Unit    bottom == Unit * h - Unit
        r == Radius(w, h)
        innerX == left + r <= x /\ x < right - r
        innerY == top + r <= y /\ y < bottom - r
        dx == x - (IF x < left + r THEN left + r ELSE right - r)
        dy == y - (IF y < top + r THEN top + r ELSE bottom - r)
    IN  /\ left <= x /\ x < right /\ top <= y /\ y < bottom
        /\ innerX \/ innerY \/ dx * dx + dy * dy <= r * r

Coverage(px, py, w, h) ==
    Cardinality({s \in (0 .. 3) \X (0 .. 3) :
                   InsideRoundedRectangle(Sample(px, s[1]), Sample(py, s[2]), w, h)})

(* dark_mode_variant: the icon is drawn on the surface inside a padding,   *)
(* and not at all if that leaves no room.                                  *)
Padding(w, h) == Max({Min({w, h}) \div 12, 2})
Target(side, w, h) == Max({0, side - 2 * Padding(w, h)})
=============================================================================
