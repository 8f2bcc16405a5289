----------------------------- MODULE SmartPatch -----------------------------
(***************************************************************************)
(* The patch solution for one frame (smart_patch.cpp, with flag set):      *)
(* generatePatch cuts the frame into overlapping patches and copies each   *)
(* into one buffer, inference enlarges every patch by scale,               *)
(* restoreImageFromPatches adds the enlarged patches into the output image *)
(* and divides each pixel by the number of patches that wrote it.          *)
(*                                                                         *)
(* A pixel's value is the position in the frame it comes from, and         *)
(* inference copies values (the pixel at <<r, c>> of an enlarged patch     *)
(* comes from <<r / scale, c / scale>> of the patch): what a correct       *)
(* upscaling of position q is made of can then be read off the output.     *)
(* Every plane of a frame is cut alike (batch, number, channel), so a cell *)
(* of a buffer holds a pixel of all planes. The planes count where a shape *)
(* of two dimensions leaves them out: see InCapacity.                      *)
(***************************************************************************)
EXTENDS PatchGeometry, FiniteSets

CONSTANTS
  Frames,    \* frame, patch and model: [h, w, ph, pw, scale, planes, dims]
  NoPixel    \* content of a buffer cell nobody wrote

(* generatePatch divides by the number of patches of an axis less one, so   *)
(* the frames are larger than a patch on both axes. The shape is the height *)
(* and width ivsr_init makes, or the five dimensions smart_patch.cpp has.   *)
ASSUME FramesAssumption ==
  \A f \in Frames :
    /\ f.h \in Nat /\ f.w \in Nat
    /\ f.ph \in Nat /\ 0 < f.ph /\ f.ph < f.h
    /\ f.pw \in Nat /\ 0 < f.pw /\ f.pw < f.w
    /\ f.scale \in Nat \ {0}
    /\ f.planes \in Nat \ {0}
    /\ f.dims \in {2, 5}

VARIABLES
  frame,      \* the frame being processed
  stage,      \* "new", "cut", "inferred", "restored", or "undefined"
  inBuf,      \* _patchInputPtr: offset -> pixel
  inList,     \* _patchInputPtrList: patch -> offset
  outList,    \* _patchOutputPtrList
  outBuf,     \* _patchOutputPtr
  next,       \* fill_image: index of the next patch
  image       \* the output image: pixel -> the values added to it, by patch

vars == <<frame, stage, inBuf, inList, outList, outBuf, next, image>>

Stages == {"new", "cut", "inferred", "restored", "undefined"}

\* block_h, block_w; a patch is <<i, j>>, listed row by row.
BlocksH == Blocks(frame.ph, frame.h)
BlocksW == Blocks(frame.pw, frame.w)
Patches == (0 .. BlocksH - 1) \X (0 .. BlocksW - 1)

\* A mutated Index: numbers the patches by the number of rows.
IndexTransposed(k) == k[1] * BlocksH + k[2]

Index(k) == k[1] * BlocksW + k[2]

\* Corner of a patch in the frame enlarged by s; s = 1 is the input frame.
Corner(k, s) == <<Start(s * frame.ph, s * frame.h, k[1]), Start(s * frame.pw, s * frame.w, k[2])>>

Rect(h, w) == (0 .. h - 1) \X (0 .. w - 1)
Image == Rect(frame.scale * frame.h, frame.scale * frame.w)

\* fill_patch refuses a shape of fewer than five dimensions.
Fills == frame.dims >= 5

\* A mutated InCapacity: room for the frame, not for its overlapping patches.
CapacityOfFrame == frame.h * frame.w

(* new float[sizeof(float) * size] holds four times the floats of the shape, *)
(* counted in pixels of all planes: a shape of two dimensions has one plane. *)
PixelsIn(floats) == IF Fills THEN floats ELSE floats \div frame.planes
InCapacity  == PixelsIn(4 * frame.h * frame.w)
OutCapacity == PixelsIn(4 * frame.h * frame.w * frame.scale * frame.scale)

\* A mutated Offset: a whole frame for each patch.
OffsetOfFrames(k, s) == Index(k) * (s * frame.h) * (s * frame.w)

\* fill_patch advances the buffer pointer by one patch, unless it refuses.
Offset(k, s) == IF Fills THEN Index(k) * (s * frame.ph) * (s * frame.pw) ELSE 0

\* Cell of pixel <<r, c>> of a patch that starts at offset and is w wide.
Cell(offset, w, r, c) == offset + r * w + c

TypeOK ==
  /\ frame \in Frames
  /\ stage \in Stages
  /\ DOMAIN inBuf \subseteq 0 .. InCapacity - 1
  /\ DOMAIN outBuf \subseteq 0 .. OutCapacity - 1
  /\ next \in Nat
  /\ image \in [Image -> SUBSET (Patches \X (Rect(frame.h, frame.w) \cup {NoPixel}))]

Init ==
  /\ frame \in Frames
  /\ stage = "new"
  /\ inBuf = <<>>
  /\ inList = <<>>
  /\ outList = <<>>
  /\ outBuf = <<>>
  /\ next = 0
  /\ image = [q \in Image |-> {}]

\* A mutated InCells: rows of the patch buffer as wide as the frame.
InCellsWide(k) ==
  {<<Cell(Offset(k, 1), frame.w, q[1], q[2]), <<Corner(k, 1)[1] + q[1], Corner(k, 1)[2] + q[2]>>>> :
     q \in Rect(frame.ph, frame.pw)}

\* The cells fill_patch writes, by patch, and the pixel each gets.
InCells(k) ==
  IF ~Fills THEN {} ELSE
  {<<Cell(Offset(k, 1), frame.pw, q[1], q[2]), <<Corner(k, 1)[1] + q[1], Corner(k, 1)[2] + q[2]>>>> :
     q \in Rect(frame.ph, frame.pw)}

GeneratePatch ==
  /\ stage = "new"
  /\ stage' = "cut"
  /\ inList' = [k \in Patches |-> Offset(k, 1)]
  /\ outList' = [k \in Patches |-> Offset(k, frame.scale)]
  /\ LET cells == UNION {InCells(k) : k \in Patches} IN
       inBuf' = [c \in {x[1] : x \in cells} |-> (CHOOSE x \in cells : x[1] = c)[2]]
  /\ UNCHANGED <<frame, outBuf, next, image>>

Read(buf, c) == IF c \in DOMAIN buf THEN buf[c] ELSE NoPixel

\* The inference of every patch, from its input to its output buffer.
OutCells(k) ==
  {<<Cell(outList[k], frame.scale * frame.pw, q[1], q[2]),
     Read(inBuf, Cell(inList[k], frame.pw, q[1] \div frame.scale, q[2] \div frame.scale))>> :
       q \in Rect(frame.scale * frame.ph, frame.scale * frame.pw)}

(* The tensors wrapped over the patches, of all planes, end in the buffers. *)
PatchesFit ==
  \A k \in Patches :
    /\ inList[k] + frame.ph * frame.pw <= InCapacity
    /\ outList[k] + (frame.scale * frame.ph) * (frame.scale * frame.pw) <= OutCapacity

Infer ==
  /\ stage = "cut"
  /\ PatchesFit
  /\ stage' = "inferred"
  /\ LET cells == UNION {OutCells(k) : k \in Patches} IN
       outBuf' = [c \in {x[1] : x \in cells} |-> (CHOOSE x \in cells : x[1] = c)[2]]
  /\ UNCHANGED <<frame, inBuf, inList, outList, next, image>>

\* A tensor that does not end in its buffer: the inference leaves the memory.
InferOverruns ==
  /\ stage = "cut"
  /\ ~PatchesFit
  /\ stage' = "undefined"
  /\ UNCHANGED <<frame, inBuf, inList, outList, outBuf, next, image>>

\* fill_image, one patch: add its pixels to the image at its corner.
FillImage ==
  /\ stage = "inferred"
  /\ Fills
  /\ \E k \in Patches :
       /\ Index(k) = next
       /\ LET corner == Corner(k, frame.scale)
              inPatch == {<<corner[1] + q[1], corner[2] + q[2]>> :
                            q \in Rect(frame.scale * frame.ph, frame.scale * frame.pw)}
              value(q) == Read(outBuf, Cell(outList[k], frame.scale * frame.pw,
                                            q[1] - corner[1], q[2] - corner[2]))
          IN image' = [q \in Image |-> IF q \in inPatch THEN image[q] \cup {<<k, value(q)>>}
                                       ELSE image[q]]
  /\ next' = next + 1
  /\ UNCHANGED <<frame, stage, inBuf, inList, outList, outBuf>>

\* A mutated Average: stops before the last patch.
AverageEarly ==
  /\ stage = "inferred"
  /\ next = Cardinality(Patches) - 1
  /\ stage' = "restored"
  /\ UNCHANGED <<frame, inBuf, inList, outList, outBuf, next, image>>

\* The average of each pixel; all patches are in.
Average ==
  /\ stage = "inferred"
  /\ next = Cardinality(Patches)
  /\ stage' = "restored"
  /\ UNCHANGED <<frame, inBuf, inList, outList, outBuf, next, image>>

\* With fewer dimensions fill_image reads past the end of the shape vectors.
FillImageUndefined ==
  /\ stage = "inferred"
  /\ ~Fills
  /\ stage' = "undefined"
  /\ UNCHANGED <<frame, inBuf, inList, outList, outBuf, next, image>>

Next == GeneratePatch \/ Infer \/ InferOverruns \/ FillImage \/ Average \/ FillImageUndefined

Spec == Init /\ [][Next]_vars

-----------------------------------------------------------------------------
(* Properties *)

(* Every patch of the input frame and of the output image stays inside its  *)
(* axes, and together they leave no gap on either.                          *)
PatchesTile ==
  /\ AxisInBounds(frame.ph, frame.h) /\ AxisCovered(frame.ph, frame.h)
  /\ AxisInBounds(frame.pw, frame.w) /\ AxisCovered(frame.pw, frame.w)
  /\ AxisInBounds(frame.scale * frame.ph, frame.scale * frame.h)
  /\ AxisCovered(frame.scale * frame.ph, frame.scale * frame.h)
  /\ AxisInBounds(frame.scale * frame.pw, frame.scale * frame.w)
  /\ AxisCovered(frame.scale * frame.pw, frame.scale * frame.w)

(* The patches, which overlap, take more room than the frame, yet for a     *)
(* shape that fill_patch accepts each one lies, in both lists, within the   *)
(* buffers of SmartPatch's constructor. Nothing of the kind holds for the   *)
(* two dimensions ivsr_process passes: their buffers lack the planes.       *)
BuffersFit == stage # "new" /\ Fills => PatchesFit

\* No two patches have a cell of a buffer in common.
OwnBuffers ==
  \A k, l \in Patches : k # l =>
    /\ \/ inList[k] + frame.ph * frame.pw <= inList[l]
       \/ inList[l] + frame.ph * frame.pw <= inList[k]
    /\ LET out == frame.scale * frame.scale * frame.ph * frame.pw IN
         \/ outList[k] + out <= outList[l]
         \/ outList[l] + out <= outList[k]

(* Patches that fill_patch filled never share a cell: inferences run in     *)
(* parallel on the buffers of the two lists.                                *)
PatchBuffersDisjoint == stage # "new" /\ Fills => OwnBuffers

(* The same for any shape: each small patch is wrapped as one inference     *)
(* task, with memory of its own.                                            *)
PatchBuffersAlwaysDisjoint == stage # "new" => OwnBuffers

\* No pixel is divided by zero.
EveryPixelWritten == stage = "restored" => \A q \in Image : image[q] # {}

Aligned ==
  /\ AxisAligned(frame.ph, frame.h, frame.scale)
  /\ AxisAligned(frame.pw, frame.w, frame.scale)

\* The pixels of the output are made of what lies at their place in the frame.
Faithful ==
  \A q \in Image : \A v \in image[q] : v[2] = <<q[1] \div frame.scale, q[2] \div frame.scale>>

(* Restoring puts every enlarged patch back where it was cut from, whenever *)
(* the corners computed from the enlarged sizes are the enlarged corners.   *)
RestoredInPlace == stage = "restored" /\ Aligned => Faithful

(* The same without the condition: "loop over each pixel on patch and find  *)
(* out the corresponding pixel in image" (fill_image).                      *)
RestoredAlwaysInPlace == stage = "restored" => Faithful
=============================================================================
