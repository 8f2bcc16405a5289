--------------------------- MODULE PatchGeometry ---------------------------
(***************************************************************************)
(* Where the patches of one axis lie (calculatePatchCoordinateList and the *)
(* block count computed by generatePatch, smart_patch.cpp).  An axis of n  *)
(* pixels is cut into b = ceil(n / p) patches of p pixels, which overlap   *)
(* because b * p >= n; both axes are cut alike and independently.          *)
(* The code divides by b - 1: it is undefined for an axis of one patch.    *)
(***************************************************************************)
EXTENDS Integers

\* (int)ceil(n * 1.0 / p)
Blocks(p, n) == (n + p - 1) \div p

\* interHeight, interWidth and lastFillHeight, lastFillWidth.
Inter(p, n)    == (p * Blocks(p, n) - n) \div (Blocks(p, n) - 1)
LastFill(p, n) == (p * Blocks(p, n) - n) % (Blocks(p, n) - 1)

\* A mutated Start: forgets that the last patch is moved back.
StartUnfilled(p, n, i) == (p - Inter(p, n)) * i

\* x1, y1: the first pixel of patch i.
Start(p, n, i) ==
  (p - Inter(p, n)) * i - (IF i = Blocks(p, n) - 1 THEN LastFill(p, n) ELSE 0)

\* Pixel q is in patch i.
InPatch(p, n, i, q) == Start(p, n, i) <= q /\ q < Start(p, n, i) + p

\* Every pixel of the axis is in some patch.
AxisCovered(p, n) ==
  \A q \in 0 .. n - 1 : \E i \in 0 .. Blocks(p, n) - 1 : InPatch(p, n, i, q)

\* No patch leaves the axis.
AxisInBounds(p, n) ==
  \A i \in 0 .. Blocks(p, n) - 1 : 0 <= Start(p, n, i) /\ Start(p, n, i) + p <= n

\* Scaling by s moves every patch of the axis exactly s times as far.
AxisAligned(p, n, s) ==
  \A i \in 0 .. Blocks(p, n) - 1 : Start(s * p, s * n, i) = s * Start(p, n, i)
=============================================================================
