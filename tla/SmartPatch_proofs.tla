------------------------- MODULE SmartPatch_proofs -------------------------
(***************************************************************************)
(* Proofs about SmartPatch for every size of frame, patch and scale.       *)
(* First the axis alone: its patches cover it and stay inside it.  The     *)
(* frame does not change, so what concerns one axis is lifted to frames;   *)
(* that no pixel of the output is left out is an induction over the        *)
(* patches fill_image has added so far.                                    *)
(***************************************************************************)
EXTENDS SmartPatch, FiniteSetTheorems, TLAPS

(* Division with remainder, for a divisor that is a variable. *)
LEMMA DivMod ==
  ASSUME NEW a \in Nat, NEW d \in Nat, d > 0
  PROVE  /\ a \div d \in Nat
         /\ a % d \in 0 .. d - 1
         /\ a = d * (a \div d) + (a % d)
  OBVIOUS

(* An axis longer than a patch has at least two, and the patches but the    *)
(* last are shorter than it together (the block count of generatePatch).    *)
LEMMA BlocksBounds ==
  ASSUME NEW p \in Nat, NEW n \in Nat, 0 < p, p < n
  PROVE  /\ Blocks(p, n) \in Nat
         /\ Blocks(p, n) >= 2
         /\ n <= p * Blocks(p, n)
         /\ p * (Blocks(p, n) - 1) < n
<1> DEFINE b == (n + p - 1) \div p
           r == (n + p - 1) % p
<1>1. b \in Nat /\ r \in 0 .. p - 1 /\ n + p - 1 = p * b + r
  BY DivMod
<1>2. b # 0 /\ b # 1
  BY <1>1
<1>3. p * (b - 1) = p * b - p
  BY <1>1
<1> HIDE DEF b, r
<1>4. b \in Nat /\ b >= 2 /\ n <= p * b /\ p * (b - 1) < n
  BY <1>1, <1>2, <1>3
<1> QED
  BY <1>4 DEF Blocks, b

(* The distance between the starts of neighbours is between 1 and p, the    *)
(* fill of the last patch is smaller, and with it the last patch ends where *)
(* the axis ends.                                                           *)
LEMMA StepFacts ==
  ASSUME NEW p \in Nat, NEW n \in Nat, 0 < p, p < n
  PROVE  LET b == Blocks(p, n)
             s == p - Inter(p, n)
             l == LastFill(p, n)
         IN /\ b \in Nat /\ b >= 2
            /\ s \in 1 .. p
            /\ l \in 0 .. s - 1
            /\ s * (b - 1) - l = n - p
<1> DEFINE b == Blocks(p, n)
           d == b - 1
           F == p * b - n
           I == F \div d
           l == F % d
           s == p - I
<1>1. b \in Nat /\ b >= 2 /\ n <= p * b /\ p * (b - 1) < n
  BY BlocksBounds
<1>2. d \in Nat /\ d >= 1 /\ b = d + 1
  BY <1>1
<1> HIDE DEF b, d
<1>3. p * b = p * d + p
  BY <1>2
<1>4. F \in Nat /\ F < p
  BY <1>1, <1>2, <1>3 DEF d
<1>5. F = p * d + p - n
  BY <1>1, <1>2, <1>3
<1> HIDE DEF F
<1>6. I \in Nat /\ l \in 0 .. d - 1 /\ F = d * I + l
  BY <1>2, <1>4, DivMod
<1> HIDE DEF I, l
<1>7. d * I = (d - 1) * I + I /\ (d - 1) * I \in Nat
  BY <1>2, <1>6
<1>8. I + l <= F
  BY <1>2, <1>6, <1>7
<1>9. s \in 1 .. p /\ l \in 0 .. s - 1
  BY <1>4, <1>6, <1>8
<1>10. s * d = p * d - d * I
  BY <1>2, <1>6
<1>11. s * d - l = n - p
  BY <1>2, <1>4, <1>5, <1>6, <1>10
<1> QED
  BY <1>1, <1>2, <1>9, <1>11 DEF b, d, F, I, l, s, Inter, LastFill

(* The patches stay inside the axis: fill_patch's check of the corners      *)
(* never fails and fill_image writes inside the image.                      *)
THEOREM InBounds ==
  ASSUME NEW p \in Nat, NEW n \in Nat, 0 < p, p < n
  PROVE  AxisInBounds(p, n)
<1> DEFINE b == Blocks(p, n)
           s == p - Inter(p, n)
           l == LastFill(p, n)
<1>1. /\ b \in Nat /\ b >= 2
      /\ s \in 1 .. p
      /\ l \in 0 .. s - 1
      /\ s * (b - 1) - l = n - p
  BY StepFacts
<1>2. SUFFICES ASSUME NEW i \in 0 .. b - 1
               PROVE  0 <= Start(p, n, i) /\ Start(p, n, i) + p <= n
  BY DEF AxisInBounds
<1>3. Start(p, n, i) = s * i - (IF i = b - 1 THEN l ELSE 0)
  BY DEF Start
<1> HIDE DEF b, s, l
<1>4. CASE i = b - 1
  BY <1>1, <1>3, <1>4
<1>5. CASE i # b - 1
  <2>1. i \in 0 .. b - 2
    BY <1>1, <1>5
  <2> DEFINE k == b - 2 - i
  <2>2. k \in Nat /\ b - 1 = i + 1 + k
    BY <1>1, <2>1
  <2> HIDE DEF k
  <2>3. s * (b - 1) = s * i + s + s * k /\ s * k \in Nat /\ s * i \in Nat
    BY <1>1, <2>1, <2>2
  <2>4. s * i + p <= n
    BY <1>1, <2>3, <2>1
  <2> QED
    BY <1>3, <1>5, <2>3, <2>4
<1> QED
  BY <1>4, <1>5

(* The patches leave no gap: every pixel of the image gets a value, and     *)
(* fill_image divides by a count of at least one.                           *)
THEOREM Covered ==
  ASSUME NEW p \in Nat, NEW n \in Nat, 0 < p, p < n
  PROVE  AxisCovered(p, n)
<1> DEFINE b == Blocks(p, n)
           s == p - Inter(p, n)
           l == LastFill(p, n)
<1>1. /\ b \in Nat /\ b >= 2
      /\ s \in 1 .. p
      /\ l \in 0 .. s - 1
      /\ s * (b - 1) - l = n - p
  BY StepFacts
<1>2. SUFFICES ASSUME NEW q \in 0 .. n - 1
               PROVE  \E i \in 0 .. b - 1 : InPatch(p, n, i, q)
  BY DEF AxisCovered
<1>3. \A i : Start(p, n, i) = s * i - (IF i = b - 1 THEN l ELSE 0)
  BY DEF Start
<1> HIDE DEF b, s, l
<1> DEFINE i == q \div s
           r == q % s
<1>4. i \in Nat /\ r \in 0 .. s - 1 /\ q = s * i + r
  BY <1>1, DivMod
<1> HIDE DEF i, r
<1>5. CASE i < b - 1
  <2>1. Start(p, n, i) = s * i
    BY <1>1, <1>3, <1>4, <1>5
  <2>2. s * i \in Nat
    BY <1>1, <1>4
  <2>3. InPatch(p, n, i, q)
    BY <1>1, <1>4, <2>1, <2>2 DEF InPatch
  <2> QED
    BY <1>1, <1>4, <1>5, <2>3
<1>6. CASE i >= b - 1
  <2> DEFINE k == i - (b - 1)
  <2>1. k \in Nat /\ i = b - 1 + k
    BY <1>1, <1>4, <1>6
  <2> HIDE DEF k
  <2>2. s * i = s * (b - 1) + s * k /\ s * k \in Nat /\ s * (b - 1) \in Nat
    BY <1>1, <2>1
  <2>3. Start(p, n, b - 1) = n - p
    BY <1>1, <1>3
  <2>4. InPatch(p, n, b - 1, q)
    BY <1>1, <1>4, <2>2, <2>3 DEF InPatch
  <2> QED
    BY <1>1, <2>4
<1> QED
  BY <1>1, <1>4, <1>5, <1>6

-----------------------------------------------------------------------------
(* The patches of a frame. *)

(* A product with a larger factor is larger, strictly if the other is positive. *)
LEMMA MultLess ==
  ASSUME NEW s \in Nat \ {0}, NEW a \in Nat, NEW b \in Nat, a < b
  PROVE  s * a \in Nat /\ s * b \in Nat /\ s * a < s * b
<1> DEFINE d == b - a
<1>1. d \in Nat \ {0} /\ b = a + d
  OBVIOUS
<1>2. s * d \in Nat /\ s * d > 0
  BY <1>1
<1>3. s * (a + d) = s * a + s * d
  BY <1>1
<1> QED
  BY <1>1, <1>2, <1>3

LEMMA MultLeq ==
  ASSUME NEW s \in Nat, NEW a \in Nat, NEW b \in Nat, a <= b
  PROVE  s * a \in Nat /\ s * b \in Nat /\ s * a <= s * b
<1> DEFINE d == b - a
<1>1. d \in Nat /\ b = a + d
  OBVIOUS
<1>2. s * d \in Nat
  BY <1>1
<1>3. s * (a + d) = s * a + s * d
  BY <1>1
<1> QED
  BY <1>1, <1>2, <1>3

(* What a frame is, and what it stays: no action assigns frame. *)
FrameOK == frame \in Frames

(* The frame of a SmartPatch is set by its constructor and never changes. *)
THEOREM FrameTheorem == Spec => []FrameOK
<1>1. Init => FrameOK
  BY DEF Init, FrameOK
<1>2. FrameOK /\ [Next]_vars => FrameOK'
  BY DEF FrameOK, Next, vars, GeneratePatch, Infer, InferOverruns, FillImage, Average,
         FillImageUndefined
<1> QED
  BY <1>1, <1>2, PTL DEF Spec

LEMMA FrameFacts ==
  ASSUME FrameOK
  PROVE  /\ frame.h \in Nat /\ frame.w \in Nat
         /\ frame.ph \in Nat /\ 0 < frame.ph /\ frame.ph < frame.h
         /\ frame.pw \in Nat /\ 0 < frame.pw /\ frame.pw < frame.w
         /\ frame.scale \in Nat \ {0}
         /\ frame.planes \in Nat \ {0}
         /\ frame.dims \in {2, 5}
BY FramesAssumption DEF FrameOK

(* An enlarged axis longer than its patch is covered and not left. *)
LEMMA ScaledAxis ==
  ASSUME NEW p \in Nat, NEW n \in Nat, 0 < p, p < n, NEW s \in Nat \ {0}
  PROVE  AxisInBounds(s * p, s * n) /\ AxisCovered(s * p, s * n)
<1>1. s * p \in Nat /\ s * n \in Nat /\ s * p < s * n
  BY MultLess
<1>2. s * 0 = 0 /\ s * 0 < s * p
  BY MultLess
<1> QED
  BY <1>1, <1>2, InBounds, Covered

(* For frames of any size, cut and enlarged patches stay inside and leave   *)
(* no gap (calculatePatchCoordinateList, in generatePatch and again in      *)
(* restoreImageFromPatches).                                                *)
THEOREM Tiling == Spec => []PatchesTile
<1>1. FrameOK => PatchesTile
  BY FrameFacts, InBounds, Covered, ScaledAxis DEF PatchesTile
<1> QED
  BY <1>1, FrameTheorem, PTL

(* Patches of one axis overlap by less than the axis: together they are     *)
(* shorter than two axes.                                                   *)
LEMMA BlocksFit ==
  ASSUME NEW p \in Nat, NEW n \in Nat, 0 < p, p < n
  PROVE  p * Blocks(p, n) \in Nat /\ p * Blocks(p, n) <= 2 * n
<1> DEFINE b == Blocks(p, n)
<1>1. b \in Nat /\ b >= 2 /\ p * (b - 1) < n
  BY BlocksBounds
<1>2. p * (b - 1) = p * b - p /\ p * b \in Nat
  BY <1>1
<1> QED
  BY <1>1, <1>2

(* The patches of a frame take at most four times its pixels, and enlarged  *)
(* at most four times the enlarged frame's.                                 *)
LEMMA FourFrames ==
  ASSUME FrameOK
  PROVE  /\ BlocksH * BlocksW * (frame.ph * frame.pw) \in Nat
         /\ BlocksH * BlocksW * (frame.ph * frame.pw) <= 4 * frame.h * frame.w
         /\ BlocksH * BlocksW * ((frame.scale * frame.ph) * (frame.scale * frame.pw)) \in Nat
         /\ BlocksH * BlocksW * ((frame.scale * frame.ph) * (frame.scale * frame.pw))
              <= 4 * frame.h * frame.w * frame.scale * frame.scale
<1> DEFINE x == frame.ph * BlocksH
           y == frame.pw * BlocksW
           s == frame.scale
           used == BlocksH * BlocksW * (frame.ph * frame.pw)
           room == 4 * frame.h * frame.w
<1>1. x \in Nat /\ x <= 2 * frame.h /\ y \in Nat /\ y <= 2 * frame.w
  BY FrameFacts, BlocksFit DEF BlocksH, BlocksW
<1>2. BlocksH \in Nat /\ BlocksW \in Nat
  BY FrameFacts, BlocksBounds DEF BlocksH, BlocksW
<1>3. used = x * y
  BY <1>1, <1>2, FrameFacts
<1>4. x * y <= x * (2 * frame.w)
  <2> HIDE DEF x, y
  <2> QED BY <1>1, FrameFacts, MultLeq
<1>5. (2 * frame.w) * x <= (2 * frame.w) * (2 * frame.h)
  <2> HIDE DEF x, y
  <2> QED BY <1>1, FrameFacts, MultLeq
<1>6. x * (2 * frame.w) = (2 * frame.w) * x /\ (2 * frame.w) * (2 * frame.h) = room
  <2> HIDE DEF x, y
  <2> QED BY <1>1, FrameFacts
<1>7. used \in Nat /\ room \in Nat /\ used <= room
  <2> HIDE DEF x, y
  <2> QED BY <1>1, <1>3, <1>4, <1>5, <1>6, FrameFacts
<1>8. s * (s * used) \in Nat /\ s * (s * used) <= s * (s * room)
  <2> HIDE DEF used, room
  <2>1. s \in Nat
    BY FrameFacts
  <2>2. s * used \in Nat /\ s * room \in Nat /\ s * used <= s * room
    BY <1>7, <2>1, MultLeq
  <2> QED BY <2>1, <2>2, MultLeq
<1>9. s * (s * used) = BlocksH * BlocksW * ((s * frame.ph) * (s * frame.pw))
  BY <1>1, <1>2, FrameFacts
<1>10. s * (s * room) = 4 * frame.h * frame.w * s * s
  BY FrameFacts
<1> QED
  BY <1>7, <1>8, <1>9, <1>10

-----------------------------------------------------------------------------
(* The numbering of the patches, row by row. *)

(* Patches have distinct numbers below BlocksH * BlocksW. *)
LEMMA IndexOrder ==
  ASSUME NEW w \in Nat, NEW i \in Nat, NEW m \in Nat, NEW j \in 0 .. w - 1, i < m
  PROVE  i * w + j \in Nat /\ i * w + j < m * w
<1>1. w * (i + 1) <= w * m /\ w * m \in Nat
  BY MultLeq
<1>2. w * (i + 1) = i * w + w /\ w * m = m * w /\ i * w \in Nat
  OBVIOUS
<1> QED
  BY <1>1, <1>2

LEMMA BlocksAreNat ==
  ASSUME FrameOK
  PROVE  BlocksH \in Nat /\ BlocksW \in Nat /\ BlocksH >= 2 /\ BlocksW >= 2
BY FrameFacts, BlocksBounds DEF BlocksH, BlocksW

LEMMA IndexFacts ==
  ASSUME FrameOK, NEW k \in Patches
  PROVE  Index(k) \in Nat /\ Index(k) < BlocksH * BlocksW
<1>1. BlocksH \in Nat /\ BlocksW \in Nat
  BY BlocksAreNat
<1>2. k[1] \in Nat /\ k[1] < BlocksH /\ k[2] \in 0 .. BlocksW - 1
  BY <1>1 DEF Patches
<1> QED
  BY <1>1, <1>2, IndexOrder DEF Index

LEMMA IndexInjective ==
  ASSUME FrameOK, NEW k \in Patches, NEW l \in Patches, k # l
  PROVE  Index(k) # Index(l)
<1>1. BlocksH \in Nat /\ BlocksW \in Nat
  BY BlocksAreNat
<1>2. /\ k[1] \in Nat /\ k[2] \in 0 .. BlocksW - 1
      /\ l[1] \in Nat /\ l[2] \in 0 .. BlocksW - 1
      /\ k[1] # l[1] \/ k[2] # l[2]
  BY <1>1 DEF Patches
<1>3. CASE k[1] < l[1]
  <2>1. k[1] * BlocksW + k[2] < l[1] * BlocksW /\ l[1] * BlocksW \in Nat
    BY <1>1, <1>2, <1>3, IndexOrder
  <2> QED
    BY <2>1, <1>1, <1>2 DEF Index
<1>4. CASE l[1] < k[1]
  <2>1. l[1] * BlocksW + l[2] < k[1] * BlocksW /\ k[1] * BlocksW \in Nat
    BY <1>1, <1>2, <1>4, IndexOrder
  <2> QED
    BY <2>1, <1>1, <1>2 DEF Index
<1>5. CASE k[1] = l[1]
  <2>1. k[1] * BlocksW \in Nat /\ k[2] # l[2]
    BY <1>1, <1>2, <1>5
  <2> QED
    BY <2>1, <1>2, <1>5 DEF Index
<1> QED
  BY <1>2, <1>3, <1>4, <1>5

LEMMA PatchesCount ==
  ASSUME FrameOK
  PROVE  Cardinality(Patches) = BlocksH * BlocksW
<1>1. BlocksH \in Nat /\ BlocksW \in Nat /\ BlocksH >= 2 /\ BlocksW >= 2
  BY BlocksAreNat
<1> DEFINE rows == 0 .. BlocksH - 1
           columns == 0 .. BlocksW - 1
<1>2. /\ IsFiniteSet(rows) /\ Cardinality(rows) = BlocksH
      /\ IsFiniteSet(columns) /\ Cardinality(columns) = BlocksW
  BY <1>1, FS_Interval
<1>3. Patches = rows \X columns
  BY DEF Patches
<1> HIDE DEF rows, columns
<1>4. Cardinality(rows \X columns) = Cardinality(rows) * Cardinality(columns)
  BY <1>2, FS_Product
<1> QED
  BY <1>2, <1>3, <1>4

-----------------------------------------------------------------------------
(* The lists of generatePatch hold the offsets of the patches. *)
ListsInv ==
  /\ FrameOK
  /\ stage # "new" => /\ inList = [k \in Patches |-> Offset(k, 1)]
                      /\ outList = [k \in Patches |-> Offset(k, frame.scale)]

LEMMA Disjoint ==
  ASSUME NEW a \in Nat, NEW b \in Nat, a < b, NEW s \in Nat
  PROVE  a * s + s <= b * s
<1>1. s * (a + 1) <= s * b
  BY MultLeq
<1>2. s * (a + 1) = a * s + s /\ s * b = b * s
  OBVIOUS
<1> QED
  BY <1>1, <1>2

LEMMA ListsStart == Init => ListsInv
BY DEF Init, ListsInv, FrameOK

LEMMA ListsStep == ListsInv /\ [Next]_vars => ListsInv'
<1> SUFFICES ASSUME ListsInv, [Next]_vars
             PROVE  ListsInv'
  OBVIOUS
<1> USE DEF ListsInv, FrameOK, Patches, BlocksH, BlocksW, Offset, Fills, Index
<1>1. CASE GeneratePatch
  BY <1>1 DEF GeneratePatch
<1>2. CASE Infer
  BY <1>2 DEF Infer
<1>3. CASE FillImage
  BY <1>3 DEF FillImage
<1>4. CASE Average
  BY <1>4 DEF Average
<1>5. CASE FillImageUndefined
  BY <1>5 DEF FillImageUndefined
<1>6. CASE InferOverruns
  BY <1>6 DEF InferOverruns
<1>7. CASE UNCHANGED vars
  BY <1>7 DEF vars
<1> QED
  BY <1>1, <1>2, <1>3, <1>4, <1>5, <1>6, <1>7 DEF Next

LEMMA ListsInvariant == Spec => []ListsInv
BY ListsStart, ListsStep, PTL DEF Spec

(* Where fill_patch accepts the shape, patch k ends in the buffers: it is   *)
(* one of BlocksH * BlocksW, which FourFrames bounds.                       *)
LEMMA OffsetsFit ==
  ASSUME FrameOK, Fills, NEW k \in Patches
  PROVE  /\ Offset(k, 1) + frame.ph * frame.pw <= InCapacity
         /\ Offset(k, frame.scale) + (frame.scale * frame.ph) * (frame.scale * frame.pw) <= OutCapacity
<1> DEFINE n == BlocksH * BlocksW
           in == frame.ph * frame.pw
           out == (frame.scale * frame.ph) * (frame.scale * frame.pw)
<1>1. Index(k) \in Nat /\ n \in Nat /\ Index(k) < n
  BY IndexFacts, BlocksAreNat
<1>2. in \in Nat /\ out \in Nat
  BY FrameFacts
<1>3. n * in <= InCapacity /\ n * out <= OutCapacity /\ InCapacity \in Nat /\ OutCapacity \in Nat
  BY FourFrames, FrameFacts DEF InCapacity, OutCapacity, PixelsIn
<1>4. Offset(k, 1) = Index(k) * in /\ Offset(k, frame.scale) = Index(k) * out
  <2>1. /\ Offset(k, 1) = Index(k) * (1 * frame.ph) * (1 * frame.pw)
        /\ Offset(k, frame.scale) = Index(k) * (frame.scale * frame.ph) * (frame.scale * frame.pw)
    BY DEF Offset
  <2> QED
    BY <2>1, <1>1, FrameFacts
<1> HIDE DEF n, in, out
<1>5. Index(k) * in + in <= n * in /\ Index(k) * out + out <= n * out
  BY <1>1, <1>2, Disjoint
<1>6. Index(k) * in \in Nat /\ Index(k) * out \in Nat /\ n * in \in Nat /\ n * out \in Nat
  BY <1>1, <1>2
<1>7. Index(k) * in + in <= InCapacity /\ Index(k) * out + out <= OutCapacity
  BY <1>2, <1>3, <1>5, <1>6
<1> QED
  BY <1>4, <1>7 DEF in, out

(* For a shape fill_patch accepts, the overlapping patches of both lists    *)
(* end within the buffers of SmartPatch's constructor, whatever the sizes.  *)
(* (The constructor's size in bytes is taken for a number of floats, which  *)
(* is what makes the room.)                                                 *)
THEOREM Buffers == Spec => []BuffersFit
<1>1. ASSUME ListsInv
      PROVE  BuffersFit
  <2> SUFFICES ASSUME stage # "new", Fills, NEW k \in Patches
               PROVE  /\ inList[k] + frame.ph * frame.pw <= InCapacity
                      /\ outList[k] + (frame.scale * frame.ph) * (frame.scale * frame.pw) <= OutCapacity
    BY DEF BuffersFit, PatchesFit
  <2>1. FrameOK /\ inList[k] = Offset(k, 1) /\ outList[k] = Offset(k, frame.scale)
    BY <1>1 DEF ListsInv
  <2> QED
    BY <2>1, OffsetsFit
<1>2. ListsInv => BuffersFit
  BY <1>1
<1> QED
  BY <1>2, ListsInvariant, PTL

(* With shapes of five dimensions no two inferences of a frame touch one    *)
(* cell, whatever the sizes (fill_patch's advancing pointer).               *)
THEOREM BuffersApart == Spec => []PatchBuffersDisjoint
<1>1. ListsInv => PatchBuffersDisjoint
  <2> SUFFICES ASSUME ListsInv, stage # "new", Fills, NEW k \in Patches, NEW l \in Patches, k # l
               PROVE  /\ \/ inList[k] + frame.ph * frame.pw <= inList[l]
                         \/ inList[l] + frame.ph * frame.pw <= inList[k]
                      /\ LET out == frame.scale * frame.scale * frame.ph * frame.pw IN
                           \/ outList[k] + out <= outList[l]
                           \/ outList[l] + out <= outList[k]
    BY DEF PatchBuffersDisjoint, OwnBuffers
  <2> DEFINE in == frame.ph * frame.pw
             out == frame.scale * frame.scale * frame.ph * frame.pw
  <2>1. Fills /\ FrameOK
    BY DEF ListsInv
  <2>2. in \in Nat /\ out \in Nat
    BY <2>1, FrameFacts
  <2>3. Index(k) \in Nat /\ Index(l) \in Nat /\ Index(k) # Index(l)
    BY <2>1, IndexFacts, IndexInjective
  <2>4. \A m \in Patches : inList[m] = Index(m) * in /\ outList[m] = Index(m) * out
    <3> SUFFICES ASSUME NEW m \in Patches
                 PROVE  inList[m] = Index(m) * in /\ outList[m] = Index(m) * out
      OBVIOUS
    <3>1. Index(m) \in Nat
      BY <2>1, IndexFacts
    <3>2. /\ inList[m] = Index(m) * (1 * frame.ph) * (1 * frame.pw)
          /\ outList[m] = Index(m) * (frame.scale * frame.ph) * (frame.scale * frame.pw)
      BY <2>1 DEF ListsInv, Offset
    <3> QED
      BY <3>1, <3>2, <2>1, FrameFacts
  <2> HIDE DEF in, out
  <2>5. CASE Index(k) < Index(l)
    BY <2>2, <2>3, <2>4, <2>5, Disjoint DEF in, out
  <2>6. CASE Index(l) < Index(k)
    BY <2>2, <2>3, <2>4, <2>6, Disjoint DEF in, out
  <2> QED
    BY <2>3, <2>5, <2>6
<1> QED
  BY <1>1, ListsInvariant, PTL

-----------------------------------------------------------------------------
(* What fill_image has written. *)

\* The output pixels patch k covers.
OutRect(k) ==
  {<<Corner(k, frame.scale)[1] + q[1], Corner(k, frame.scale)[2] + q[2]>> :
     q \in Rect(frame.scale * frame.ph, frame.scale * frame.pw)}

WrittenInv ==
  /\ FrameOK
  /\ next \in Nat
  /\ image = [q \in Image |-> image[q]]
  /\ \A k \in Patches : Index(k) < next => \A q \in OutRect(k) \cap Image : image[q] # {}
  /\ stage = "restored" => next = Cardinality(Patches)

(* Enlarging an axis does not change the number of its patches.              *)
LEMMA BlocksScale ==
  ASSUME NEW p \in Nat, NEW n \in Nat, 0 < p, p < n, NEW s \in Nat \ {0}
  PROVE  Blocks(s * p, s * n) = Blocks(p, n)
<1> DEFINE b == Blocks(p, n)
           c == Blocks(s * p, s * n)
<1>1. s * p \in Nat /\ s * n \in Nat /\ s * p < s * n /\ 0 < s * p
  <2>1. s * 0 = 0 /\ s * 0 < s * p
    BY MultLess
  <2> QED
    BY <2>1, MultLess
<1>2. b \in Nat /\ b >= 2 /\ n <= p * b /\ p * (b - 1) < n
  BY BlocksBounds
<1>3. c \in Nat /\ c >= 2 /\ s * n <= (s * p) * c /\ (s * p) * (c - 1) < s * n
  BY <1>1, BlocksBounds
<1> HIDE DEF b, c
<1>4. CASE c < b
  <2>1. p * c <= p * (b - 1) /\ p * c \in Nat
    BY <1>2, <1>3, <1>4, MultLeq
  <2>2. p * c < n
    BY <2>1, <1>2, <1>3
  <2>3. s * (p * c) < s * n
    BY <2>1, <2>2, MultLess
  <2>4. s * (p * c) = (s * p) * c
    BY <1>3
  <2> QED
    BY <2>3, <2>4, <1>1, <1>3
<1>5. CASE b < c
  <2>1. p * b <= p * (c - 1) /\ p * b \in Nat /\ p * (c - 1) \in Nat
    BY <1>2, <1>3, <1>5, MultLeq
  <2>2. n <= p * (c - 1)
    BY <2>1, <1>2
  <2>3. s * n <= s * (p * (c - 1))
    BY <2>1, <2>2, MultLeq
  <2>4. s * (p * (c - 1)) = (s * p) * (c - 1)
    BY <1>3
  <2> QED
    BY <2>3, <2>4, <1>1, <1>3
<1>6. b = c
  BY <1>2, <1>3, <1>4, <1>5
<1> QED
  BY <1>6 DEF b, c

(* The corner of a patch is an integer. *)
LEMMA StartIsInt ==
  ASSUME NEW p \in Nat, NEW n \in Nat, 0 < p, p < n, NEW i \in Nat
  PROVE  Start(p, n, i) \in Int
<1>1. /\ Blocks(p, n) \in Nat
      /\ p - Inter(p, n) \in 1 .. p
      /\ LastFill(p, n) \in 0 .. (p - Inter(p, n)) - 1
  BY StepFacts
<1> HIDE DEF Blocks, Inter, LastFill
<1> DEFINE s == p - Inter(p, n)
<1>2. s * i \in Int /\ LastFill(p, n) \in Int
  BY <1>1
<1>3. Start(p, n, i) = s * i - (IF i = Blocks(p, n) - 1 THEN LastFill(p, n) ELSE 0)
  BY DEF Start
<1> HIDE DEF s
<1> QED
  BY <1>2, <1>3

LEMMA ScaledSides ==
  ASSUME NEW p \in Nat, NEW n \in Nat, 0 < p, p < n, NEW s \in Nat \ {0}
  PROVE  s * p \in Nat /\ s * n \in Nat /\ 0 < s * p /\ s * p < s * n
<1>1. s * 0 = 0 /\ s * 0 < s * p
  BY MultLess
<1> QED
  BY <1>1, MultLess

(* Every pixel of the output is in the rectangle of some patch. *)
LEMMA PixelInSomePatch ==
  ASSUME FrameOK, NEW q \in Image
  PROVE  \E k \in Patches : q \in OutRect(k)
<1> DEFINE s == frame.scale
           P == s * frame.ph
           Q == s * frame.pw
           Y(i) == Start(P, s * frame.h, i)
           X(j) == Start(Q, s * frame.w, j)
<1>1. P \in Nat /\ Q \in Nat /\ s * frame.h \in Nat /\ s * frame.w \in Nat
  BY FrameFacts
<1>2. q = <<q[1], q[2]>> /\ q[1] \in 0 .. s * frame.h - 1 /\ q[2] \in 0 .. s * frame.w - 1
  BY DEF Image, Rect
<1>3. PICK i \in 0 .. BlocksH - 1 : Y(i) <= q[1] /\ q[1] < Y(i) + P
  <2>1. AxisCovered(P, s * frame.h) /\ Blocks(P, s * frame.h) = BlocksH
    BY FrameFacts, ScaledAxis, BlocksScale DEF BlocksH
  <2> QED
    BY <2>1, <1>2 DEF AxisCovered, InPatch
<1>4. PICK j \in 0 .. BlocksW - 1 : X(j) <= q[2] /\ q[2] < X(j) + Q
  <2>1. AxisCovered(Q, s * frame.w) /\ Blocks(Q, s * frame.w) = BlocksW
    BY FrameFacts, ScaledAxis, BlocksScale DEF BlocksW
  <2> QED
    BY <2>1, <1>2 DEF AxisCovered, InPatch
<1>5. Y(i) \in Int /\ X(j) \in Int
  <2>1. 0 < P /\ P < s * frame.h /\ 0 < Q /\ Q < s * frame.w
    BY FrameFacts, ScaledSides
  <2>2. i \in Nat /\ j \in Nat
    BY BlocksAreNat
  <2> HIDE DEF P, Q
  <2> QED
    BY <1>1, <2>1, <2>2, StartIsInt
<1> HIDE DEF P, Q, X, Y
<1>6. <<q[1] - Y(i), q[2] - X(j)>> \in Rect(P, Q)
  BY <1>1, <1>2, <1>3, <1>4, <1>5 DEF Rect
<1>7. q[1] = Y(i) + (q[1] - Y(i)) /\ q[2] = X(j) + (q[2] - X(j))
  BY <1>1, <1>2, <1>5
<1>8. <<i, j>> \in Patches
  BY DEF Patches
<1>9. q \in {<<Y(i) + r[1], X(j) + r[2]>> : r \in Rect(P, Q)}
  BY <1>2, <1>6, <1>7
<1>10. OutRect(<<i, j>>) = {<<Y(i) + r[1], X(j) + r[2]>> : r \in Rect(P, Q)}
  BY DEF OutRect, Corner, P, Q, X, Y
<1> QED
  BY <1>8, <1>9, <1>10

(* No pixel of the output is left at a count of zero, which fill_image       *)
(* would divide by (calculatePatchCoordinateList with the enlarged sizes).  *)
THEOREM EveryPixel == Spec => []EveryPixelWritten
<1>1. Init => WrittenInv
  <2> SUFFICES ASSUME Init
               PROVE  WrittenInv
    OBVIOUS
  <2>1. FrameOK /\ next = 0 /\ image = [q \in Image |-> {}] /\ stage # "restored"
    BY DEF Init, FrameOK
  <2>2. \A k \in Patches : ~(Index(k) < next)
    BY <2>1, IndexFacts
  <2> QED
    BY <2>1, <2>2 DEF WrittenInv
<1>2. WrittenInv /\ [Next]_vars => WrittenInv'
  <2> SUFFICES ASSUME WrittenInv, [Next]_vars
               PROVE  WrittenInv'
    OBVIOUS
  <2>1. UNCHANGED <<frame, next, image>> /\ (stage' = "restored" => next = Cardinality(Patches)) => WrittenInv'
    <3> SUFFICES ASSUME UNCHANGED <<frame, next, image>>,
                        stage' = "restored" => next = Cardinality(Patches)
                 PROVE  WrittenInv'
      OBVIOUS
    <3>1. /\ Patches' = Patches
          /\ Image' = Image
          /\ FrameOK'
          /\ \A k : Index(k)' = Index(k) /\ OutRect(k)' = OutRect(k)
      BY DEF Patches, Image, Index, OutRect, Corner, BlocksH, BlocksW, FrameOK, WrittenInv
    <3> QED
      BY <3>1 DEF WrittenInv
  <2>2. CASE GeneratePatch
    BY <2>1, <2>2 DEF GeneratePatch
  <2>3. CASE Infer
    BY <2>1, <2>3 DEF Infer
  <2>4. CASE FillImage
    <3>1. PICK k \in Patches :
            /\ Index(k) = next
            /\ image' = [q \in Image |-> IF q \in OutRect(k)
                 THEN image[q] \cup {<<k, Read(outBuf, Cell(outList[k], frame.scale * frame.pw,
                        q[1] - Corner(k, frame.scale)[1], q[2] - Corner(k, frame.scale)[2]))>>}
                 ELSE image[q]]
      BY <2>4 DEF FillImage, OutRect
    <3>2. /\ Patches' = Patches
          /\ Image' = Image
          /\ FrameOK'
          /\ \A l : Index(l)' = Index(l) /\ OutRect(l)' = OutRect(l)
      BY <2>4 DEF FillImage, Patches, Image, Index, OutRect, Corner, BlocksH, BlocksW, FrameOK, WrittenInv
    <3>3. next' = next + 1 /\ next' \in Nat /\ stage' # "restored"
      BY <2>4 DEF FillImage, WrittenInv
    <3>4. \A l \in Patches : Index(l) < next' => Index(l) < next \/ l = k
      BY <3>1, <3>3, IndexFacts, IndexInjective DEF WrittenInv
    <3>5. ASSUME NEW l \in Patches, Index(l) < next', NEW q \in OutRect(l) \cap Image
          PROVE  image'[q] # {}
      <4>1. CASE l = k
        BY <3>1, <3>5, <4>1
      <4>2. CASE Index(l) < next
        BY <3>1, <3>5, <4>2 DEF WrittenInv
      <4> QED
        BY <3>4, <3>5, <4>1, <4>2
    <3>6. image' = [q \in Image |-> image'[q]]
      BY <3>1
    <3> QED
      BY <3>2, <3>3, <3>5, <3>6 DEF WrittenInv
  <2>5. CASE Average
    BY <2>1, <2>5 DEF Average
  <2>6. CASE FillImageUndefined
    BY <2>1, <2>6 DEF FillImageUndefined
  <2>7. CASE InferOverruns
    BY <2>1, <2>7 DEF InferOverruns
  <2>8. CASE UNCHANGED vars
    BY <2>1, <2>8 DEF vars, WrittenInv
  <2> QED
    BY <2>2, <2>3, <2>4, <2>5, <2>6, <2>7, <2>8 DEF Next
<1>3. WrittenInv => EveryPixelWritten
  <2> SUFFICES ASSUME WrittenInv, stage = "restored", NEW q \in Image
               PROVE  image[q] # {}
    BY DEF EveryPixelWritten
  <2>1. PICK k \in Patches : q \in OutRect(k)
    BY PixelInSomePatch DEF WrittenInv
  <2>2. Index(k) < next
    BY IndexFacts, PatchesCount DEF WrittenInv
  <2> QED
    BY <2>1, <2>2 DEF WrittenInv
<1> QED
  BY <1>1, <1>2, <1>3, PTL DEF Spec
-----------------------------------------------------------------------------
(* The cells of the buffers. *)

(* A number has one quotient and one remainder. *)
LEMMA Digits ==
  ASSUME NEW w \in Nat, NEW i \in Nat, NEW m \in Nat, NEW j \in 0 .. w - 1, NEW n \in 0 .. w - 1,
         i * w + j = m * w + n
  PROVE  i = m /\ j = n
<1>1. i * w \in Nat /\ m * w \in Nat
  OBVIOUS
<1>2. ~(i < m)
  <2> SUFFICES ASSUME i < m
               PROVE  FALSE
    OBVIOUS
  <2>1. i * w + j < m * w
    BY IndexOrder
  <2> QED
    BY <2>1, <1>1
<1>3. ~(m < i)
  <2> SUFFICES ASSUME m < i
               PROVE  FALSE
    OBVIOUS
  <2>1. m * w + n < i * w
    BY IndexOrder
  <2> QED
    BY <2>1, <1>1
<1>4. i = m
  BY <1>2, <1>3
<1> QED
  BY <1>1, <1>4

(* A patch enlarged by s. *)
PatchRect(s) == Rect(s * frame.ph, s * frame.pw)

\* The cell of pixel q of patch k, where fill_patch put the patches.
CellOf(k, s, q) == Cell(Offset(k, s), s * frame.pw, q[1], q[2])

LEMMA PatchRectFacts ==
  ASSUME FrameOK, NEW s \in Nat \ {0}, NEW q \in PatchRect(s)
  PROVE  /\ s * frame.ph \in Nat /\ s * frame.pw \in Nat
         /\ q = <<q[1], q[2]>>
         /\ q[1] \in 0 .. s * frame.ph - 1 /\ q[2] \in 0 .. s * frame.pw - 1
BY FrameFacts DEF PatchRect, Rect

LEMMA CellDigits ==
  ASSUME FrameOK, NEW s \in Nat \ {0}, Fills, NEW k \in Patches, NEW q \in PatchRect(s)
  PROVE  CellOf(k, s, q) = (Index(k) * (s * frame.ph) + q[1]) * (s * frame.pw) + q[2]
<1> DEFINE h == s * frame.ph
           w == s * frame.pw
<1>1. h \in Nat /\ w \in Nat /\ q[1] \in Nat /\ q[2] \in Nat /\ Index(k) \in Nat
  BY PatchRectFacts, IndexFacts
<1>2. CellOf(k, s, q) = Index(k) * h * w + q[1] * w + q[2]
  BY DEF CellOf, Cell, Offset
<1> HIDE DEF h, w
<1>3. Index(k) * h * w + q[1] * w = (Index(k) * h + q[1]) * w
  BY <1>1
<1> QED
  BY <1>2, <1>3 DEF h, w

(* Pixels of one patch or of two have cells of their own. *)
LEMMA CellsApart ==
  ASSUME FrameOK, NEW s \in Nat \ {0}, Fills,
         NEW k \in Patches, NEW q \in PatchRect(s),
         NEW l \in Patches, NEW t \in PatchRect(s), CellOf(k, s, q) = CellOf(l, s, t)
  PROVE  k = l /\ q = t
<1> DEFINE h == s * frame.ph
           w == s * frame.pw
<1>1. /\ h \in Nat /\ w \in Nat
      /\ q = <<q[1], q[2]>> /\ q[1] \in 0 .. h - 1 /\ q[2] \in 0 .. w - 1
      /\ t = <<t[1], t[2]>> /\ t[1] \in 0 .. h - 1 /\ t[2] \in 0 .. w - 1
  BY PatchRectFacts
<1>2. Index(k) \in Nat /\ Index(l) \in Nat
  BY IndexFacts
<1>3. (Index(k) * h + q[1]) * w + q[2] = (Index(l) * h + t[1]) * w + t[2]
  BY CellDigits
<1> HIDE DEF h, w
<1>4. Index(k) * h + q[1] \in Nat /\ Index(l) * h + t[1] \in Nat
  BY <1>1, <1>2
<1>5. Index(k) * h + q[1] = Index(l) * h + t[1] /\ q[2] = t[2]
  BY <1>1, <1>3, <1>4, Digits
<1>6. Index(k) = Index(l) /\ q[1] = t[1]
  BY <1>1, <1>2, <1>5, Digits
<1> QED
  BY <1>1, <1>5, <1>6, IndexInjective

(* The cells of a patch lie between its offset and its end. *)
LEMMA CellBelow ==
  ASSUME FrameOK, NEW s \in Nat \ {0}, NEW k \in Patches, NEW q \in PatchRect(s)
  PROVE  /\ CellOf(k, s, q) \in Nat /\ Offset(k, s) \in Nat
         /\ (s * frame.ph) * (s * frame.pw) \in Nat
         /\ CellOf(k, s, q) < Offset(k, s) + (s * frame.ph) * (s * frame.pw)
<1> DEFINE h == s * frame.ph
           w == s * frame.pw
<1>1. /\ h \in Nat /\ w \in Nat /\ q[1] \in 0 .. h - 1 /\ q[2] \in 0 .. w - 1
  BY PatchRectFacts
<1>2. Offset(k, s) \in Nat
  <2>1. Index(k) \in Nat
    BY IndexFacts
  <2>2. Index(k) * h * w \in Nat
    BY <1>1, <2>1
  <2> QED
    BY <2>2 DEF Offset
<1>3. CellOf(k, s, q) = Offset(k, s) + q[1] * w + q[2]
  BY DEF CellOf, Cell
<1> HIDE DEF h, w
<1>4. q[1] * w + q[2] \in Nat /\ q[1] * w + q[2] < h * w
  BY <1>1, IndexOrder
<1>5. q[1] * w \in Nat /\ h * w \in Nat
  BY <1>1
<1>6. CellOf(k, s, q) \in Nat /\ CellOf(k, s, q) < Offset(k, s) + h * w
  BY <1>1, <1>2, <1>3, <1>4, <1>5
<1> QED
  BY <1>2, <1>5, <1>6 DEF h, w

(* The pixel of the frame that lies at q in patch k. *)
Source(k, q) == <<Corner(k, 1)[1] + q[1], Corner(k, 1)[2] + q[2]>>

LEMMA CornerFacts ==
  ASSUME FrameOK, NEW s \in Nat \ {0}, NEW k \in Patches
  PROVE  /\ Corner(k, s)[1] \in Nat /\ Corner(k, s)[1] + s * frame.ph <= s * frame.h
         /\ Corner(k, s)[2] \in Nat /\ Corner(k, s)[2] + s * frame.pw <= s * frame.w
<1>1. k[1] \in 0 .. BlocksH - 1 /\ k[2] \in 0 .. BlocksW - 1 /\ k[1] \in Nat /\ k[2] \in Nat
  BY BlocksAreNat DEF Patches
<1>2. /\ s * frame.ph \in Nat /\ s * frame.h \in Nat /\ 0 < s * frame.ph /\ s * frame.ph < s * frame.h
      /\ s * frame.pw \in Nat /\ s * frame.w \in Nat /\ 0 < s * frame.pw /\ s * frame.pw < s * frame.w
  BY FrameFacts, ScaledSides
<1>3. Blocks(s * frame.ph, s * frame.h) = BlocksH /\ Blocks(s * frame.pw, s * frame.w) = BlocksW
  BY FrameFacts, BlocksScale DEF BlocksH, BlocksW
<1>4. AxisInBounds(s * frame.ph, s * frame.h) /\ AxisInBounds(s * frame.pw, s * frame.w)
  BY FrameFacts, ScaledAxis
<1>5. /\ 0 <= Corner(k, s)[1] /\ Corner(k, s)[1] + s * frame.ph <= s * frame.h
      /\ 0 <= Corner(k, s)[2] /\ Corner(k, s)[2] + s * frame.pw <= s * frame.w
  BY <1>1, <1>3, <1>4 DEF AxisInBounds, Corner
<1>6. Corner(k, s)[1] \in Int /\ Corner(k, s)[2] \in Int
  BY <1>1, <1>2, StartIsInt DEF Corner
<1> QED
  BY <1>5, <1>6

(* Multiplying by one leaves a patch as it is. *)
LEMMA Unscaled ==
  ASSUME FrameOK
  PROVE  /\ 1 * frame.ph = frame.ph /\ 1 * frame.pw = frame.pw
         /\ 1 * frame.h = frame.h /\ 1 * frame.w = frame.w
BY FrameFacts

LEMMA SourceInFrame ==
  ASSUME FrameOK, NEW k \in Patches, NEW q \in PatchRect(1)
  PROVE  Source(k, q) \in Rect(frame.h, frame.w)
<1>1. /\ Corner(k, 1)[1] \in Nat /\ Corner(k, 1)[1] + frame.ph <= frame.h
      /\ Corner(k, 1)[2] \in Nat /\ Corner(k, 1)[2] + frame.pw <= frame.w
  BY CornerFacts, Unscaled
<1>2. q[1] \in 0 .. frame.ph - 1 /\ q[2] \in 0 .. frame.pw - 1
  BY PatchRectFacts, Unscaled
<1> QED
  BY <1>1, <1>2, FrameFacts DEF Source, Rect

-----------------------------------------------------------------------------
(* What the buffers hold: patches of the frame, then enlarged patches. *)

(* The pixel of a patch an enlarged pixel is made from. *)
Shrunk(q) == <<q[1] \div frame.scale, q[2] \div frame.scale>>

InHolds ==
  stage # "new" /\ Fills =>
    \A k \in Patches : \A q \in PatchRect(1) : Read(inBuf, CellOf(k, 1, q)) = Source(k, q)

OutHolds ==
  stage \in {"inferred", "restored"} /\ Fills =>
    \A k \in Patches : \A q \in PatchRect(frame.scale) :
      Read(outBuf, CellOf(k, frame.scale, q)) = Source(k, Shrunk(q))

\* What patch k may add to pixel q.
Added(k, q) ==
  {<<k, Source(k, Shrunk(t))>> : t \in {u \in PatchRect(frame.scale) :
     q = <<Corner(k, frame.scale)[1] + u[1], Corner(k, frame.scale)[2] + u[2]>>}}

ImageHolds ==
  /\ image = [q \in Image |-> image[q]]
  /\ \A q \in Image : \A v \in image[q] : \E k \in Patches : v \in Added(k, q)

BuffersInv ==
  /\ stage \in Stages
  /\ next \in Nat
  /\ DOMAIN inBuf \subseteq 0 .. InCapacity - 1
  /\ DOMAIN outBuf \subseteq 0 .. OutCapacity - 1

DataInv == ListsInv /\ BuffersInv /\ InHolds /\ OutHolds /\ ImageHolds

(* A buffer whose cells are each written once is read as it was written. *)
LEMMA ReadsBack ==
  ASSUME NEW cells, NEW x \in cells, \A y, z \in cells : y[1] = z[1] => y[2] = z[2]
  PROVE  Read([c \in {y[1] : y \in cells} |-> (CHOOSE y \in cells : y[1] = c)[2]], x[1]) = x[2]
<1> DEFINE y == CHOOSE y \in cells : y[1] = x[1]
<1>1. y \in cells /\ y[1] = x[1]
  OBVIOUS
<1>2. x[1] \in {z[1] : z \in cells}
  OBVIOUS
<1> HIDE DEF y
<1>3. y[2] = x[2]
  BY <1>1
<1> QED
  BY <1>2, <1>3 DEF Read, y

LEMMA ShrunkInPatch ==
  ASSUME FrameOK, NEW q \in PatchRect(frame.scale)
  PROVE  Shrunk(q) \in PatchRect(1)
<1>1. /\ q[1] \in Nat /\ q[1] < frame.scale * frame.ph
      /\ q[2] \in Nat /\ q[2] < frame.scale * frame.pw
  BY FrameFacts, PatchRectFacts
<1>2. ASSUME NEW s \in Nat \ {0}, NEW p \in Nat, NEW r \in Nat, r < s * p
      PROVE  r \div s \in 0 .. p - 1
  <2>1. r \div s \in Nat /\ r % s \in Nat /\ r = s * (r \div s) + (r % s)
    BY <1>2, DivMod
  <2> DEFINE d == r \div s
  <2>2. ~(p <= d)
    <3> SUFFICES ASSUME p <= d
                 PROVE  FALSE
      OBVIOUS
    <3>1. s * p <= s * d /\ s * p \in Nat /\ s * d \in Nat
      BY <2>1, MultLeq
    <3> QED
      BY <3>1, <2>1, <1>2
  <2> QED
    BY <2>1, <2>2
<1>3. q[1] \div frame.scale \in 0 .. frame.ph - 1 /\ q[2] \div frame.scale \in 0 .. frame.pw - 1
  BY <1>1, <1>2, FrameFacts
<1> QED
  BY <1>3, Unscaled DEF Shrunk, PatchRect, Rect

(* A cell of a patch that ends in the buffer lies in the buffer. *)
LEMMA Capacities ==
  ASSUME FrameOK, NEW s \in Nat \ {0}, NEW k \in Patches, NEW q \in PatchRect(s),
         NEW capacity \in Nat, Offset(k, s) + (s * frame.ph) * (s * frame.pw) <= capacity
  PROVE  CellOf(k, s, q) \in 0 .. capacity - 1
BY CellBelow

LEMMA CapacitiesAreNat ==
  ASSUME FrameOK
  PROVE  InCapacity \in Nat /\ OutCapacity \in Nat
<1> DEFINE in == 4 * frame.h * frame.w
           out == 4 * frame.h * frame.w * frame.scale * frame.scale
<1>1. in \in Nat /\ out \in Nat /\ frame.planes \in Nat /\ frame.planes > 0
  BY FrameFacts
<1> HIDE DEF in, out
<1>2. PixelsIn(in) \in Nat /\ PixelsIn(out) \in Nat
  BY <1>1, DivMod DEF PixelsIn
<1> QED
  BY <1>2 DEF InCapacity, OutCapacity, in, out

(* While the frame stays, so does everything computed from it. *)
LEMMA Constant ==
  ASSUME FrameOK, UNCHANGED frame
  PROVE  /\ FrameOK' /\ Patches' = Patches /\ Image' = Image /\ Fills' = Fills
         /\ InCapacity' = InCapacity /\ OutCapacity' = OutCapacity
         /\ \A s : PatchRect(s)' = PatchRect(s)
         /\ \A k, s : Corner(k, s)' = Corner(k, s) /\ Offset(k, s)' = Offset(k, s)
         /\ \A k, s, q : CellOf(k, s, q)' = CellOf(k, s, q)
         /\ \A k, q : Source(k, q)' = Source(k, q) /\ Added(k, q)' = Added(k, q)
         /\ \A q : Shrunk(q)' = Shrunk(q)
BY DEF FrameOK, Patches, Image, Fills, InCapacity, OutCapacity, PixelsIn, PatchRect, Corner, Offset, CellOf, Source,
       Added, Shrunk, BlocksH, BlocksW, Index, Cell, Rect

(* generatePatch: each cell written holds the pixel of its patch. *)
LEMMA CutStep ==
  ASSUME DataInv, GeneratePatch
  PROVE  BuffersInv' /\ InHolds'
<1> DEFINE cells == UNION {InCells(k) : k \in Patches}
<1>1. FrameOK /\ UNCHANGED <<frame, outBuf, next>> /\ stage' = "cut"
  BY DEF DataInv, ListsInv, GeneratePatch
<1>2. inBuf' = [c \in {x[1] : x \in cells} |-> (CHOOSE x \in cells : x[1] = c)[2]]
  BY DEF GeneratePatch
<1>3. \A k : InCells(k) = IF Fills THEN {<<CellOf(k, 1, q), Source(k, q)>> : q \in PatchRect(1)} ELSE {}
  BY <1>1, Unscaled DEF InCells, CellOf, Source, PatchRect
<1>4. ASSUME NEW x \in cells
      PROVE  Fills /\ \E k \in Patches, q \in PatchRect(1) : x = <<CellOf(k, 1, q), Source(k, q)>>
  BY <1>3
<1>5. ASSUME NEW k \in Patches, NEW q \in PatchRect(1), Fills
      PROVE  <<CellOf(k, 1, q), Source(k, q)>> \in cells
  <2>1. <<CellOf(k, 1, q), Source(k, q)>> \in InCells(k)
    BY <1>3, <1>5
  <2> QED
    BY <2>1
<1> HIDE DEF cells
<1>6. \A y, z \in cells : y[1] = z[1] => y[2] = z[2]
  <2> SUFFICES ASSUME NEW y \in cells, NEW z \in cells, y[1] = z[1]
               PROVE  y[2] = z[2]
    OBVIOUS
  <2>1. PICK k \in Patches, q \in PatchRect(1) : y = <<CellOf(k, 1, q), Source(k, q)>>
    BY <1>4
  <2>2. PICK l \in Patches, t \in PatchRect(1) : z = <<CellOf(l, 1, t), Source(l, t)>>
    BY <1>4
  <2>3. Fills /\ CellOf(k, 1, q) = CellOf(l, 1, t)
    BY <2>1, <2>2, <1>4
  <2>4. k = l /\ q = t
    BY <1>1, <2>3, CellsApart
  <2> QED
    BY <2>1, <2>2, <2>4
<1>7. InHolds'
  <2> SUFFICES ASSUME Fills, NEW k \in Patches, NEW q \in PatchRect(1)
               PROVE  Read(inBuf', CellOf(k, 1, q)) = Source(k, q)
    BY <1>1 DEF InHolds, Read, Fills, Patches, PatchRect, CellOf, Cell, Offset, Source, Corner,
           Rect, Index, BlocksH, BlocksW
  <2> DEFINE x == <<CellOf(k, 1, q), Source(k, q)>>
  <2>1. x \in cells
    BY <1>5
  <2>2. Read(inBuf', x[1]) = x[2]
    <3> HIDE DEF x
    <3> QED
      BY <1>2, <1>6, <2>1, ReadsBack
  <2> QED
    BY <2>2
<1>8. DOMAIN inBuf' \subseteq 0 .. InCapacity - 1
  <2> SUFFICES ASSUME NEW x \in cells
               PROVE  x[1] \in 0 .. InCapacity - 1
    BY <1>2
  <2>1. PICK k \in Patches, q \in PatchRect(1) : x = <<CellOf(k, 1, q), Source(k, q)>>
    BY <1>4
  <2>2. Offset(k, 1) + (1 * frame.ph) * (1 * frame.pw) <= InCapacity
    BY <1>1, <1>4, Unscaled, OffsetsFit
  <2>3. CellOf(k, 1, q) \in 0 .. InCapacity - 1
    BY <1>1, <2>2, Capacities, CapacitiesAreNat
  <2> QED
    BY <2>1, <2>3
<1> QED
  BY <1>1, <1>7, <1>8, Constant DEF DataInv, BuffersInv, Stages

(* The inference of the patches: each cell holds the pixel it enlarges. *)
LEMMA InferStep ==
  ASSUME DataInv, Infer
  PROVE  BuffersInv' /\ OutHolds'
<1> DEFINE cells == UNION {OutCells(k) : k \in Patches}
           s == frame.scale
           Value(k, q) == Read(inBuf, CellOf(k, 1, Shrunk(q)))
<1>1. FrameOK /\ UNCHANGED <<frame, inBuf, next>> /\ stage = "cut" /\ stage' = "inferred" /\ s \in Nat \ {0}
  BY FrameFacts DEF DataInv, ListsInv, Infer
<1>2. outBuf' = [c \in {x[1] : x \in cells} |-> (CHOOSE x \in cells : x[1] = c)[2]]
  BY DEF Infer
<1>3. \A k \in Patches : OutCells(k) = {<<CellOf(k, s, q), Value(k, q)>> : q \in PatchRect(s)}
  <2> SUFFICES ASSUME NEW k \in Patches
               PROVE  OutCells(k) = {<<CellOf(k, s, q), Value(k, q)>> : q \in PatchRect(s)}
    OBVIOUS
  <2>1. inList[k] = Offset(k, 1) /\ outList[k] = Offset(k, s)
    BY <1>1 DEF DataInv, ListsInv
  <2>2. \A q : CellOf(k, 1, Shrunk(q)) = Cell(inList[k], frame.pw, q[1] \div s, q[2] \div s)
    BY <1>1, <2>1, Unscaled DEF CellOf, Shrunk
  <2>3. \A q : CellOf(k, s, q) = Cell(outList[k], s * frame.pw, q[1], q[2])
    BY <2>1 DEF CellOf
  <2> QED
    BY <2>2, <2>3 DEF OutCells, PatchRect
<1>4. ASSUME NEW x \in cells
      PROVE  \E k \in Patches, q \in PatchRect(s) : x = <<CellOf(k, s, q), Value(k, q)>>
  <2>1. PICK k \in Patches : x \in OutCells(k)
    OBVIOUS
  <2> QED
    BY <2>1, <1>3
<1>5. ASSUME NEW k \in Patches, NEW q \in PatchRect(s)
      PROVE  <<CellOf(k, s, q), Value(k, q)>> \in cells
  <2>1. <<CellOf(k, s, q), Value(k, q)>> \in OutCells(k)
    BY <1>3
  <2> QED
    BY <2>1
<1> HIDE DEF cells
<1>6. ASSUME Fills
      PROVE  \A y, z \in cells : y[1] = z[1] => y[2] = z[2]
  <2> SUFFICES ASSUME NEW y \in cells, NEW z \in cells, y[1] = z[1]
               PROVE  y[2] = z[2]
    OBVIOUS
  <2>1. PICK k \in Patches, q \in PatchRect(s) : y = <<CellOf(k, s, q), Value(k, q)>>
    BY <1>4
  <2>2. PICK l \in Patches, t \in PatchRect(s) : z = <<CellOf(l, s, t), Value(l, t)>>
    BY <1>4
  <2>3. CellOf(k, s, q) = CellOf(l, s, t)
    BY <2>1, <2>2
  <2>4. k = l /\ q = t
    BY <1>1, <1>6, <2>3, CellsApart
  <2> QED
    BY <2>1, <2>2, <2>4
<1>7. OutHolds'
  <2> SUFFICES ASSUME Fills, NEW k \in Patches, NEW q \in PatchRect(s)
               PROVE  Read(outBuf', CellOf(k, s, q)) = Source(k, Shrunk(q))
    <3>1. frame' = frame /\ stage' = "inferred"
      BY <1>1
    <3>2. /\ Fills' = Fills /\ Patches' = Patches /\ PatchRect(frame.scale)' = PatchRect(s)
          /\ \A k, q : CellOf(k, frame.scale, q)' = CellOf(k, s, q)
          /\ \A k, q : Source(k, Shrunk(q))' = Source(k, Shrunk(q))
      BY <3>1 DEF Fills, Patches, PatchRect, CellOf, Cell, Offset, Source, Shrunk, Corner, Rect, Index,
                  BlocksH, BlocksW
    <3> QED
      BY <3>1, <3>2 DEF OutHolds, Read
  <2> DEFINE x == <<CellOf(k, s, q), Value(k, q)>>
  <2>1. x \in cells
    BY <1>5
  <2>2. Read(outBuf', x[1]) = x[2]
    <3> HIDE DEF x
    <3> QED
      BY <1>2, <1>6, <2>1, ReadsBack
  <2>3. Value(k, q) = Source(k, Shrunk(q))
    BY <1>1, ShrunkInPatch DEF DataInv, InHolds
  <2> QED
    BY <2>2, <2>3
<1>8. DOMAIN outBuf' \subseteq 0 .. OutCapacity - 1
  <2> SUFFICES ASSUME NEW x \in cells
               PROVE  x[1] \in 0 .. OutCapacity - 1
    BY <1>2
  <2>1. PICK k \in Patches, q \in PatchRect(s) : x = <<CellOf(k, s, q), Value(k, q)>>
    BY <1>4
  <2>2. Offset(k, s) + (s * frame.ph) * (s * frame.pw) <= OutCapacity
    BY <1>1 DEF DataInv, ListsInv, Infer, PatchesFit
  <2>3. CellOf(k, s, q) \in 0 .. OutCapacity - 1
    BY <1>1, <2>2, Capacities, CapacitiesAreNat
  <2> QED
    BY <2>1, <2>3
<1> QED
  BY <1>1, <1>7, <1>8, Constant DEF DataInv, BuffersInv, Stages

(* fill_image: a patch adds to each pixel of its rectangle what it holds there. *)
LEMMA FillStep ==
  ASSUME DataInv, FillImage
  PROVE  BuffersInv' /\ ImageHolds'
<1> DEFINE s == frame.scale
<1>1. /\ FrameOK /\ s \in Nat \ {0} /\ Fills
      /\ UNCHANGED <<frame, stage, inBuf, outBuf>> /\ stage = "inferred" /\ next' = next + 1
  BY FrameFacts DEF DataInv, ListsInv, FillImage
<1>2. PICK k \in Patches :
        image' = [q \in Image |-> IF q \in OutRect(k)
             THEN image[q] \cup {<<k, Read(outBuf, Cell(outList[k], s * frame.pw,
                    q[1] - Corner(k, s)[1], q[2] - Corner(k, s)[2]))>>}
             ELSE image[q]]
  BY DEF FillImage, OutRect
<1>3. outList[k] = Offset(k, s)
  BY <1>1 DEF DataInv, ListsInv
<1>4. ASSUME NEW q \in OutRect(k)
      PROVE  <<k, Read(outBuf, Cell(outList[k], s * frame.pw,
                 q[1] - Corner(k, s)[1], q[2] - Corner(k, s)[2]))>> \in Added(k, q)
  <2>1. PICK t \in PatchRect(s) : q = <<Corner(k, s)[1] + t[1], Corner(k, s)[2] + t[2]>>
    BY DEF OutRect, PatchRect
  <2>2. Corner(k, s)[1] \in Nat /\ Corner(k, s)[2] \in Nat /\ t[1] \in Int /\ t[2] \in Int
    BY <1>1, CornerFacts, PatchRectFacts
  <2>3. q[1] - Corner(k, s)[1] = t[1] /\ q[2] - Corner(k, s)[2] = t[2]
    BY <2>1, <2>2
  <2>4. Read(outBuf, CellOf(k, s, t)) = Source(k, Shrunk(t))
    BY <1>1 DEF DataInv, OutHolds
  <2>5. Read(outBuf, Cell(outList[k], s * frame.pw, q[1] - Corner(k, s)[1], q[2] - Corner(k, s)[2]))
          = Source(k, Shrunk(t))
    BY <1>3, <2>3, <2>4 DEF CellOf
  <2> QED
    BY <2>1, <2>5 DEF Added
<1>5. ASSUME NEW q \in Image, NEW v \in image'[q]
      PROVE  \E l \in Patches : v \in Added(l, q)
  <2>1. CASE v \in image[q]
    BY <2>1 DEF DataInv, ImageHolds
  <2>2. CASE v \notin image[q]
    BY <1>2, <1>4, <2>2
  <2> QED
    BY <2>1, <2>2
<1>6. image' = [q \in Image |-> image'[q]]
  BY <1>2
<1>7. Patches' = Patches /\ Image' = Image /\ \A l, q : Added(l, q)' = Added(l, q)
  BY <1>1, Constant
<1>8. ImageHolds'
  BY <1>5, <1>6, <1>7 DEF ImageHolds
<1> QED
  BY <1>1, <1>8, Constant DEF DataInv, BuffersInv, Stages

(* What does not change a part of the data keeps what is known of it. *)
LEMMA DataKept ==
  ASSUME DataInv, UNCHANGED frame
  PROVE  /\ UNCHANGED <<stage, inBuf>> => InHolds'
         /\ UNCHANGED inBuf /\ stage # "new" => InHolds'
         /\ UNCHANGED outBuf /\ (stage' \in {"inferred", "restored"} => stage = "inferred") => OutHolds'
         /\ UNCHANGED <<stage, outBuf>> => OutHolds'
         /\ UNCHANGED image => ImageHolds'
<1>1. /\ FrameOK /\ Fills' = Fills /\ Patches' = Patches /\ Image' = Image
      /\ \A l, q : Added(l, q)' = Added(l, q)
  BY Constant DEF DataInv, ListsInv
<1>2. /\ PatchRect(1)' = PatchRect(1)
      /\ \A k, q : CellOf(k, 1, q)' = CellOf(k, 1, q) /\ Source(k, q)' = Source(k, q)
  BY DEF PatchRect, CellOf, Cell, Offset, Fills, Source, Corner, Rect, Index, BlocksH, BlocksW
<1>3. /\ PatchRect(frame.scale)' = PatchRect(frame.scale)
      /\ \A k, q : CellOf(k, frame.scale, q)' = CellOf(k, frame.scale, q)
      /\ \A k, q : Source(k, Shrunk(q))' = Source(k, Shrunk(q))
  BY DEF PatchRect, CellOf, Cell, Offset, Fills, Source, Shrunk, Corner, Rect, Index, BlocksH, BlocksW
<1>4. UNCHANGED inBuf /\ (stage' # "new" => stage # "new") => InHolds'
  BY <1>1, <1>2 DEF DataInv, InHolds, Read
<1>5. UNCHANGED outBuf /\ (stage' \in {"inferred", "restored"} => stage \in {"inferred", "restored"}) => OutHolds'
  BY <1>1, <1>3 DEF DataInv, OutHolds, Read
<1>6. UNCHANGED image => ImageHolds'
  BY <1>1 DEF DataInv, ImageHolds
<1> QED
  BY <1>4, <1>5, <1>6

LEMMA DataStarts == Init => DataInv
<1> SUFFICES ASSUME Init
             PROVE  DataInv
  OBVIOUS
<1>1. ListsInv
  BY ListsStart
<1>2. stage = "new" /\ next = 0 /\ DOMAIN inBuf = {} /\ DOMAIN outBuf = {} /\ image = [q \in Image |-> {}]
  BY DEF Init
<1> QED
  BY <1>1, <1>2 DEF DataInv, BuffersInv, Stages, InHolds, OutHolds, ImageHolds

LEMMA DataStep == DataInv /\ [Next]_vars => DataInv'
<1> SUFFICES ASSUME DataInv, [Next]_vars
             PROVE  DataInv'
  OBVIOUS
<1>1. ListsInv'
  BY ListsStep DEF DataInv
<1>2. FrameOK
  BY DEF DataInv, ListsInv
<1>3. CASE GeneratePatch
  <2>1. UNCHANGED <<frame, outBuf, image>> /\ stage' = "cut"
    BY <1>3 DEF GeneratePatch
  <2> QED
    BY <1>1, <1>3, <2>1, CutStep, DataKept DEF DataInv
<1>4. CASE Infer
  <2>1. UNCHANGED <<frame, inBuf, image>> /\ stage # "new"
    BY <1>4 DEF Infer
  <2> QED
    BY <1>1, <1>4, <2>1, InferStep, DataKept DEF DataInv
<1>5. CASE FillImage
  <2>1. UNCHANGED <<frame, stage, inBuf, outBuf>>
    BY <1>5 DEF FillImage
  <2> QED
    BY <1>1, <1>5, <2>1, FillStep, DataKept DEF DataInv
<1>6. ASSUME UNCHANGED <<frame, inBuf, outBuf, next, image>>,
             \/ stage = "inferred" /\ stage' = "restored"
             \/ stage # "new" /\ stage' = "undefined"
             \/ UNCHANGED stage
      PROVE  DataInv'
  <2>1. BuffersInv'
    BY <1>2, <1>6, Constant DEF DataInv, BuffersInv, Stages
  <2> QED
    BY <1>1, <1>6, <2>1, DataKept DEF DataInv
<1>7. CASE Average
  BY <1>6, <1>7 DEF Average
<1>8. CASE FillImageUndefined
  BY <1>6, <1>8 DEF FillImageUndefined
<1>9. CASE InferOverruns
  BY <1>6, <1>9 DEF InferOverruns
<1>10. CASE UNCHANGED vars
  BY <1>6, <1>10 DEF vars
<1> QED
  BY <1>3, <1>4, <1>5, <1>7, <1>8, <1>9, <1>10 DEF Next

LEMMA DataInvariant == Spec => []DataInv
BY DataStarts, DataStep, PTL DEF Spec

(* Patches of any size are cut within their buffer and read where they were *)
(* written, and what reaches the image is a pixel of the frame (fill_patch, *)
(* the lists of generatePatch, fill_image). An inference writes within its  *)
(* buffer unless stage is "undefined" after it (InferOverruns), which       *)
(* Buffers excludes for a shape that fill_patch accepts.                    *)
THEOREM PatchTypes == Spec => []TypeOK
<1>1. ASSUME DataInv
      PROVE  TypeOK
  <2>1. FrameOK
    BY <1>1 DEF DataInv, ListsInv
  <2>2. ASSUME NEW q \in Image, NEW v \in image[q]
        PROVE  v \in Patches \X (Rect(frame.h, frame.w) \cup {NoPixel})
    <3>1. PICK k \in Patches, t \in PatchRect(frame.scale) : v = <<k, Source(k, Shrunk(t))>>
      BY <1>1 DEF DataInv, ImageHolds, Added
    <3>2. Source(k, Shrunk(t)) \in Rect(frame.h, frame.w)
      BY <2>1, ShrunkInPatch, SourceInFrame
    <3> QED
      BY <3>1, <3>2
  <2>3. image \in [Image -> SUBSET (Patches \X (Rect(frame.h, frame.w) \cup {NoPixel}))]
    <3>1. image = [q \in Image |-> image[q]]
      BY <1>1 DEF DataInv, ImageHolds
    <3>2. \A q \in Image : image[q] \in SUBSET (Patches \X (Rect(frame.h, frame.w) \cup {NoPixel}))
      BY <2>2
    <3> QED
      BY <3>1, <3>2
  <2> QED
    BY <1>1, <2>1, <2>3 DEF TypeOK, DataInv, BuffersInv, FrameOK
<1>2. DataInv => TypeOK
  BY <1>1
<1> QED
  BY <1>2, DataInvariant, PTL

(* Shifting a number by a multiple of the divisor shifts its quotient. *)
LEMMA QuotientShift ==
  ASSUME NEW s \in Nat \ {0}, NEW c \in Nat, NEW t \in Nat
  PROVE  (s * c + t) \div s = c + t \div s
<1> DEFINE a == s * c + t
           d == a \div s
           e == t \div s
<1>1. a \in Nat /\ s * c \in Nat
  OBVIOUS
<1>2. d \in Nat /\ a % s \in 0 .. s - 1 /\ a = s * d + (a % s)
  BY <1>1, DivMod
<1>3. e \in Nat /\ t % s \in 0 .. s - 1 /\ t = s * e + (t % s)
  BY DivMod
<1>4. s * d = d * s /\ s * c + s * e = (c + e) * s
  BY <1>2, <1>3
<1>5. d * s + (a % s) = (c + e) * s + (t % s)
  <2> HIDE DEF d, e
  <2>1. s * d \in Nat /\ s * e \in Nat
    BY <1>2, <1>3
  <2> QED
    BY <1>1, <1>2, <1>3, <1>4, <2>1
<1>6. d = c + e
  <2> DEFINE x == a % s
             y == t % s
             f == c + e
  <2>1. f \in Nat /\ x \in 0 .. s - 1 /\ y \in 0 .. s - 1 /\ d \in Nat /\ s \in Nat /\ d * s + x = f * s + y
    BY <1>2, <1>3, <1>5
  <2> HIDE DEF d, x, y, f
  <2>2. d = f
    BY <2>1, Digits
  <2> QED
    BY <2>2 DEF f
<1> QED
  BY <1>6

(* Where enlarging moves the corners with the patches, each pixel of the    *)
(* output is made of the pixel at its place in the frame, from every patch  *)
(* that covers it (generatePatch and restoreImageFromPatches).              *)
THEOREM RestoresInPlace == Spec => []RestoredInPlace
<1>1. ASSUME DataInv, Aligned, NEW q \in Image, NEW v \in image[q]
      PROVE  v[2] = <<q[1] \div frame.scale, q[2] \div frame.scale>>
  <2> DEFINE s == frame.scale
  <2>1. FrameOK /\ s \in Nat \ {0} /\ 1 \in Nat \ {0}
    BY <1>1, FrameFacts DEF DataInv, ListsInv
  <2>2. PICK k \in Patches, t \in PatchRect(s) :
          /\ v = <<k, Source(k, Shrunk(t))>>
          /\ q = <<Corner(k, s)[1] + t[1], Corner(k, s)[2] + t[2]>>
    BY <1>1 DEF DataInv, ImageHolds, Added
  <2>3. k[1] \in 0 .. BlocksH - 1 /\ k[2] \in 0 .. BlocksW - 1
    BY DEF Patches
  <2>4. Corner(k, s)[1] = s * Corner(k, 1)[1] /\ Corner(k, s)[2] = s * Corner(k, 1)[2]
    <3>1. /\ Start(s * frame.ph, s * frame.h, k[1]) = s * Start(frame.ph, frame.h, k[1])
          /\ Start(s * frame.pw, s * frame.w, k[2]) = s * Start(frame.pw, frame.w, k[2])
      BY <1>1, <2>3 DEF Aligned, AxisAligned, BlocksH, BlocksW
    <3> QED
      BY <3>1, <2>1, Unscaled DEF Corner
  <2>5. Corner(k, 1)[1] \in Nat /\ Corner(k, 1)[2] \in Nat
    BY <2>1, CornerFacts
  <2>6. t[1] \in Nat /\ t[2] \in Nat
    BY <2>1, PatchRectFacts
  <2>7. /\ q[1] = s * Corner(k, 1)[1] + t[1]
        /\ q[2] = s * Corner(k, 1)[2] + t[2]
    BY <2>2, <2>4
  <2>8. /\ q[1] \div s = Corner(k, 1)[1] + t[1] \div s
        /\ q[2] \div s = Corner(k, 1)[2] + t[2] \div s
    <3> DEFINE c == Corner(k, 1)
    <3>1. s \in Nat \ {0} /\ c[1] \in Nat /\ c[2] \in Nat
      BY <2>1, <2>5
    <3> HIDE DEF s, c
    <3>2. (s * c[1] + t[1]) \div s = c[1] + t[1] \div s
      BY <3>1, <2>6, QuotientShift
    <3>3. (s * c[2] + t[2]) \div s = c[2] + t[2] \div s
      BY <3>1, <2>6, QuotientShift
    <3> QED
      BY <3>2, <3>3, <2>7 DEF c
  <2> QED
    BY <2>2, <2>8 DEF Source, Shrunk
<1>2. DataInv => RestoredInPlace
  BY <1>1 DEF RestoredInPlace, Faithful
<1> QED
  BY <1>2, DataInvariant, PTL

-----------------------------------------------------------------------------
(* How far off its place a patch is restored where enlarging does not move  *)
(* the corners with the patches.                                            *)

(* The truncating division by the number of gaps loses less than a pixel of *)
(* the small frame, hence less than s pixels of the enlarged one.           *)
LEMMA InterScale ==
  ASSUME NEW p \in Nat, NEW n \in Nat, 0 < p, p < n, NEW s \in Nat \ {0}
  PROVE  /\ Inter(p, n) \in Nat
         /\ Inter(s * p, s * n) - s * Inter(p, n) \in 0 .. s - 1
<1> DEFINE b == Blocks(p, n)
           d == b - 1
           F == p * b - n
           G == (s * p) * b - s * n
           I == F \div d
           r == F % d
           J == G \div d
           u == G % d
<1>1. b \in Nat /\ b >= 2 /\ n <= p * b
  BY BlocksBounds
<1>2. d \in Nat /\ d > 0
  BY <1>1
<1>3. F \in Nat /\ G = s * F /\ s * F \in Nat
  <2> HIDE DEF b
  <2>1. F \in Nat /\ p * b \in Nat /\ s * F \in Nat
    BY <1>1
  <2>2. s * (p * b - n) = s * (p * b) - s * n
    BY <2>1
  <2>3. (s * p) * b = s * (p * b)
    BY <1>1
  <2> QED
    BY <2>1, <2>2, <2>3
<1> HIDE DEF b, d, F, G
<1>4. I \in Nat /\ r \in 0 .. d - 1 /\ F = d * I + r
  BY <1>2, <1>3, DivMod
<1>5. J \in Nat /\ u \in 0 .. d - 1 /\ G = d * J + u
  BY <1>2, <1>3, DivMod
<1> HIDE DEF I, r, J, u
<1> DEFINE e == J - s * I
<1>6. s * I \in Nat /\ d * I \in Nat /\ d * J \in Nat /\ e \in Int /\ J = s * I + e
  BY <1>2, <1>4, <1>5
<1>7. d * e + u = s * r
  <2>1. s * (d * I + r) = s * (d * I) + s * r
    BY <1>4, <1>6
  <2>2. s * (d * I) = d * (s * I)
    BY <1>2, <1>4
  <2>3. d * (s * I + e) = d * (s * I) + d * e
    BY <1>2, <1>6
  <2>4. d * J = d * (s * I + e)
    BY <1>6
  <2>5. d * J + u = s * (d * I) + s * r
    BY <1>3, <1>4, <1>5, <2>1
  <2> HIDE DEF e
  <2>6. d * e \in Int /\ s * r \in Int /\ d * (s * I) \in Int
    BY <1>2, <1>4, <1>6
  <2> QED
    BY <1>2, <1>4, <1>5, <1>6, <2>2, <2>3, <2>4, <2>5, <2>6
<1> HIDE DEF e
<1>8. s * r <= s * (d - 1) /\ s * r \in Nat /\ s * (d - 1) = s * d - s /\ s * d \in Nat
  BY <1>2, <1>4, MultLeq
<1>9. e >= 0
  <2> SUFFICES ASSUME e < 0
               PROVE  FALSE
    BY <1>6
  <2> DEFINE f == -1 - e
  <2>1. f \in Nat /\ e = -1 - f
    BY <1>6
  <2> HIDE DEF f
  <2>2. d * e = -d - d * f /\ d * f \in Nat
    BY <1>2, <2>1
  <2> QED
    BY <1>2, <1>5, <1>7, <1>8, <2>2
<1>10. e <= s - 1
  <2> SUFFICES ASSUME e >= s
               PROVE  FALSE
    BY <1>6
  <2> DEFINE f == e - s
  <2>1. f \in Nat /\ e = s + f
    BY <1>6
  <2> HIDE DEF f
  <2>2. d * e = s * d + d * f /\ d * f \in Nat
    BY <1>2, <2>1
  <2> QED
    BY <1>2, <1>5, <1>7, <1>8, <2>2
<1>11. Inter(p, n) = I
  BY DEF Inter, I, F, d, b
<1>12. Inter(s * p, s * n) = J
  BY BlocksScale DEF Inter, J, G, d, b
<1>13. e = Inter(s * p, s * n) - s * Inter(p, n)
  BY <1>11, <1>12 DEF e
<1> QED
  BY <1>4, <1>6, <1>9, <1>10, <1>11, <1>13

(* The loss adds up along the axis: patch i of the enlarged axis starts at  *)
(* most i * (s - 1) pixels before its place, and never after it             *)
(* (calculatePatchCoordinateList).                                          *)
LEMMA AxisDisplaced ==
  ASSUME NEW p \in Nat, NEW n \in Nat, 0 < p, p < n, NEW s \in Nat \ {0},
         NEW i \in 0 .. Blocks(p, n) - 1
  PROVE  s * Start(p, n, i) - Start(s * p, s * n, i) \in 0 .. i * (s - 1)
<1> DEFINE b == Blocks(p, n)
           I == Inter(p, n)
           J == Inter(s * p, s * n)
           e == J - s * I
           P == s * p
           N == s * n
<1>1. b \in Nat /\ b >= 2 /\ Blocks(P, N) = b
  BY BlocksBounds, BlocksScale
<1>2. P \in Nat /\ N \in Nat /\ 0 < P /\ P < N
  BY ScaledSides
<1>3. I \in Nat /\ J \in Int /\ e \in 0 .. s - 1 /\ J = s * I + e /\ s * I \in Nat
  <2>1. I \in Nat /\ e \in 0 .. s - 1
    BY InterScale
  <2>2. J \in Nat
    BY <1>2, InterScale
  <2> HIDE DEF I, J
  <2> QED
    BY <2>1, <2>2
<1>4. /\ LastFill(p, n) \in Nat
      /\ (p - I) * (b - 1) - LastFill(p, n) = n - p
  BY StepFacts
<1>5. /\ LastFill(P, N) \in Nat
      /\ (P - J) * (b - 1) - LastFill(P, N) = N - P
  <2> HIDE DEF b, P, N
  <2>1. /\ LastFill(P, N) \in 0 .. (P - Inter(P, N)) - 1
        /\ (P - Inter(P, N)) * (Blocks(P, N) - 1) - LastFill(P, N) = N - P
    BY <1>2, StepFacts
  <2> QED
    BY <1>1, <2>1 DEF P, N
<1>6. i * (s - 1) \in Nat /\ i \in Nat
  BY <1>1
<1>7. CASE i = b - 1
  <2>1. Start(p, n, i) = n - p
    BY <1>4, <1>7 DEF Start
  <2>2. Start(P, N, i) = N - P
    BY <1>1, <1>5, <1>7 DEF Start
  <2>3. s * (n - p) = N - P
    OBVIOUS
  <2> QED
    BY <1>2, <1>6, <2>1, <2>2, <2>3
<1>8. CASE i # b - 1
  <2>1. Start(p, n, i) = (p - I) * i
    BY <1>8, <1>3, <1>6 DEF Start
  <2>2. Start(P, N, i) = (P - J) * i
    BY <1>1, <1>8, <1>2, <1>3, <1>6 DEF Start
  <2> HIDE DEF b, I, J, e
  <2>3. (P - J) * i = (s * p - s * I) * i - e * i
    BY <1>3, <1>6
  <2>4. s * ((p - I) * i) = (s * p - s * I) * i /\ (s * p - s * I) * i \in Int
    BY <1>3, <1>6
  <2>5. e * i \in 0 .. i * (s - 1)
    <3>1. i * e <= i * (s - 1) /\ i * e \in Nat
      BY <1>3, <1>6, MultLeq
    <3>2. e * i = i * e
      BY <1>3, <1>6
    <3> QED
      BY <3>1, <3>2, <1>6
  <2>6. s * Start(p, n, i) - Start(P, N, i) = e * i
    BY <2>1, <2>2, <2>3, <2>4, <2>5
  <2> QED
    BY <2>5, <2>6
<1> QED
  BY <1>7, <1>8

\* Every value added to a pixel comes from a pixel of the frame whose place in
\* the output is at most s - 1 pixels before, and i * (s - 1) after it on the
\* axis along which its patch is the i-th.
DisplacementBounded ==
  \A q \in Image : \A v \in image[q] : \A a \in 1 .. 2 :
    frame.scale * v[2][a] - q[a] \in 1 - frame.scale .. v[1][a] * (frame.scale - 1)

(* One axis: c and C are the corners of the patch in the frame and in the   *)
(* output, t the pixel of the enlarged patch.                               *)
LEMMA PixelDisplaced ==
  ASSUME NEW s \in Nat \ {0}, NEW c \in Nat, NEW C \in Nat, NEW t \in Nat, NEW m \in Nat,
         s * c - C \in 0 .. m
  PROVE  s * (c + t \div s) - (C + t) \in 1 - s .. m
<1> DEFINE d == t \div s
           r == t % s
<1>1. d \in Nat /\ r \in 0 .. s - 1 /\ t = s * d + r
  BY DivMod
<1> HIDE DEF d, r
<1>2. s * (c + d) = s * c + s * d /\ s * c \in Nat /\ s * d \in Nat
  BY <1>1
<1>3. s * (c + d) - (C + t) \in 1 - s .. m
  BY <1>1, <1>2
<1> QED
  BY <1>3 DEF d

(* However the overlap divides, the output holds no pixel far from its      *)
(* place: the corners restoreImageFromPatches recomputes drift by less than *)
(* a pixel of the frame a patch.                                            *)
THEOREM RestoresNearby == Spec => []DisplacementBounded
<1>1. ASSUME DataInv, NEW q \in Image, NEW v \in image[q]
      PROVE  \A a \in 1 .. 2 :
               frame.scale * v[2][a] - q[a] \in 1 - frame.scale .. v[1][a] * (frame.scale - 1)
  <2> DEFINE s == frame.scale
  <2>1. FrameOK /\ s \in Nat \ {0} /\ 1 \in Nat \ {0}
    BY <1>1, FrameFacts DEF DataInv, ListsInv
  <2>2. PICK k \in Patches, t \in PatchRect(s) :
          /\ v = <<k, Source(k, Shrunk(t))>>
          /\ q = <<Corner(k, s)[1] + t[1], Corner(k, s)[2] + t[2]>>
    BY <1>1 DEF DataInv, ImageHolds, Added
  <2>3. k[1] \in 0 .. BlocksH - 1 /\ k[2] \in 0 .. BlocksW - 1 /\ k[1] \in Nat /\ k[2] \in Nat
    BY BlocksAreNat, <2>1 DEF Patches
  <2>4. /\ s * Start(frame.ph, frame.h, k[1]) - Start(s * frame.ph, s * frame.h, k[1])
             \in 0 .. k[1] * (s - 1)
        /\ s * Start(frame.pw, frame.w, k[2]) - Start(s * frame.pw, s * frame.w, k[2])
             \in 0 .. k[2] * (s - 1)
    BY <2>1, <2>3, FrameFacts, AxisDisplaced DEF BlocksH, BlocksW
  <2>5. /\ s * Corner(k, 1)[1] - Corner(k, s)[1] \in 0 .. k[1] * (s - 1)
        /\ s * Corner(k, 1)[2] - Corner(k, s)[2] \in 0 .. k[2] * (s - 1)
    BY <2>1, <2>4, Unscaled DEF Corner
  <2>6. /\ Corner(k, 1)[1] \in Nat /\ Corner(k, s)[1] \in Nat
        /\ Corner(k, 1)[2] \in Nat /\ Corner(k, s)[2] \in Nat
    BY <2>1, CornerFacts
  <2>7. t[1] \in Nat /\ t[2] \in Nat
    BY <2>1, PatchRectFacts
  <2>8. k[1] * (s - 1) \in Nat /\ k[2] * (s - 1) \in Nat
    BY <2>1, <2>3
  <2>9. s * (Corner(k, 1)[1] + t[1] \div s) - (Corner(k, s)[1] + t[1]) \in 1 - s .. k[1] * (s - 1)
    BY <2>1, <2>5, <2>6, <2>7, <2>8, PixelDisplaced
  <2>10. s * (Corner(k, 1)[2] + t[2] \div s) - (Corner(k, s)[2] + t[2]) \in 1 - s .. k[2] * (s - 1)
    BY <2>1, <2>5, <2>6, <2>7, <2>8, PixelDisplaced
  <2>11. /\ v[1] = k
         /\ v[2][1] = Corner(k, 1)[1] + t[1] \div s /\ q[1] = Corner(k, s)[1] + t[1]
         /\ v[2][2] = Corner(k, 1)[2] + t[2] \div s /\ q[2] = Corner(k, s)[2] + t[2]
    BY <2>2 DEF Source, Shrunk
  <2>12. /\ s * v[2][1] - q[1] \in 1 - s .. v[1][1] * (s - 1)
         /\ s * v[2][2] - q[2] \in 1 - s .. v[1][2] * (s - 1)
    BY <2>9, <2>10, <2>11
  <2>13. ASSUME NEW a \in 1 .. 2
         PROVE  s * v[2][a] - q[a] \in 1 - s .. v[1][a] * (s - 1)
    <3>1. a = 1 \/ a = 2
      OBVIOUS
    <3> QED
      BY <3>1, <2>12
  <2> QED
    BY <2>13
<1>2. DataInv => DisplacementBounded
  BY <1>1 DEF DisplacementBounded
<1> QED
  BY <1>2, DataInvariant, PTL
=============================================================================
