--------------------------------- MODULE Blt ---------------------------------
(* Where the display-only driver writes: the address arithmetic of bltfuncs,  *)
(* and the reference it is held against.  Addresses are offsets from the      *)
(* first byte of the picture.                                                 *)
EXTENDS Integers

\* BLT_INFO: the pitch and the bytes of a pixel, the size of the picture
\* before it is turned, the rotation, and an offset for every rectangle.
Rotations == {0, 90, 180, 270}
BltInfos == [pitch : Nat, bytes : Nat, width : Nat, height : Nat,
             rotation : Rotations, x : Int, y : Int]

\* How far the next pixel of a row and the next row are.
PixelPitch(b) ==
  CASE b.rotation = 0   -> b.bytes
    [] b.rotation = 90  -> -b.pitch
    [] b.rotation = 180 -> -b.bytes
    [] b.rotation = 270 -> b.pitch

RowPitch(b) ==
  CASE b.rotation = 0   -> b.pitch
    [] b.rotation = 90  -> b.bytes
    [] b.rotation = 180 -> -b.pitch
    [] b.rotation = 270 -> -b.bytes

\* Mutation of GetRowStart: turned by 90 degrees, one row further down.
GetRowStartBelow(b, left, top) ==
  LET offLeft == left + b.x
      offTop == top + b.y
  IN CASE b.rotation = 0   -> offTop * b.pitch + offLeft * b.bytes
       [] b.rotation = 90  -> (b.height - offLeft) * b.pitch + offTop * b.bytes
       [] b.rotation = 180 -> (b.height - 1 - offTop) * b.pitch
                                + (b.width - 1 - offLeft) * b.bytes
       [] b.rotation = 270 -> offLeft * b.pitch + (b.width - 1 - offTop) * b.bytes

\* Where the first row of the rectangle begins.
GetRowStart(b, left, top) ==
  LET offLeft == left + b.x
      offTop == top + b.y
  IN CASE b.rotation = 0   -> offTop * b.pitch + offLeft * b.bytes
       [] b.rotation = 90  -> (b.height - 1 - offLeft) * b.pitch + offTop * b.bytes
       [] b.rotation = 180 -> (b.height - 1 - offTop) * b.pitch
                                + (b.width - 1 - offLeft) * b.bytes
       [] b.rotation = 270 -> offLeft * b.pitch + (b.width - 1 - offTop) * b.bytes

\* CopyBitsGeneric: pixel x of row y of a rectangle.
PixelAddress(b, left, top, x, y) ==
  GetRowStart(b, left, top) + y * RowPitch(b) + x * PixelPitch(b)

\* CopyBits32_32, the short cut for pictures that are not turned.
PlainAddress(b, left, top, x, y) ==
  (top + b.y) * b.pitch + (left + b.x) * b.bytes + y * b.pitch + x * b.bytes

BltAddress(b, left, top, x, y) ==
  IF b.bytes = 4 /\ b.rotation = 0 THEN PlainAddress(b, left, top, x, y)
                                   ELSE PixelAddress(b, left, top, x, y)

\* PresentDisplayOnly: a smaller picture is centered in the frame buffer.
CenterShift(b, postWidth, postHeight) ==
  ((postHeight - b.height) * b.pitch + (postWidth - b.width) * b.bytes) \div 2
-----------------------------------------------------------------------------
(* The reference: the point (column, row) of the picture as it is looked at,  *)
(* and the pixel of the frame buffer that shows it.                           *)

Turned(b, column, row) ==
  CASE b.rotation = 0   -> <<column, row>>
    [] b.rotation = 90  -> <<row, b.height - 1 - column>>
    [] b.rotation = 180 -> <<b.width - 1 - column, b.height - 1 - row>>
    [] b.rotation = 270 -> <<b.width - 1 - row, column>>

CellAddress(b, cell) == cell[2] * b.pitch + cell[1] * b.bytes

\* The size of the picture as it is looked at.
LookedAtWidth(b) == IF b.rotation \in {90, 270} THEN b.height ELSE b.width
LookedAtHeight(b) == IF b.rotation \in {90, 270} THEN b.width ELSE b.height
=============================================================================
