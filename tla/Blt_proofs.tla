------------------------------ MODULE Blt_proofs ------------------------------
(* The address arithmetic of the copy, for any picture and any pitch: a pixel *)
(* lands where the turned picture shows it, inside of the frame buffer, and a *)
(* smaller picture that is centered stays inside of the larger one.           *)
EXTENDS Blt, TLAPS

LEMMA Monotone ==
  ASSUME NEW a \in Nat, NEW b \in Nat, NEW c \in Nat, a <= b
  PROVE  a * c <= b * c /\ a * c \in Nat
  BY Z3

\* What the fields of a BLT_INFO are.
LEMMA BltFields ==
  ASSUME NEW b \in BltInfos
  PROVE  /\ b.pitch \in Nat /\ b.bytes \in Nat /\ b.width \in Nat
         /\ b.height \in Nat /\ b.rotation \in Rotations
         /\ b.x \in Int /\ b.y \in Int
  BY DEF BltInfos

\* CopyBitsGeneric: starting at the row of a rectangle and stepping by the two
\* pitches comes to the pixel that shows the point, for every rotation.
LEMMA PixelOnItsCell ==
  ASSUME NEW b \in BltInfos, b.x = 0, b.y = 0,
         NEW left \in Int, NEW top \in Int, NEW x \in Int, NEW y \in Int
  PROVE  PixelAddress(b, left, top, x, y)
           = CellAddress(b, Turned(b, left + x, top + y))
<1> DEFINE p == b.pitch
           s == b.bytes
           w == b.width
           h == b.height
<1>0. p \in Int /\ s \in Int /\ w \in Int /\ h \in Int /\ b.rotation \in Rotations
  BY BltFields
<1>1. CASE b.rotation = 0
  <2>1. PixelAddress(b, left, top, x, y) = top * p + left * s + y * p + x * s
    BY <1>0, <1>1 DEF PixelAddress, GetRowStart, RowPitch, PixelPitch
  <2>2. CellAddress(b, Turned(b, left + x, top + y)) = (top + y) * p + (left + x) * s
    BY <1>0, <1>1 DEF CellAddress, Turned
  <2> HIDE DEF p, s, w, h
  <2> QED
    BY <1>0, <2>1, <2>2
<1>2. CASE b.rotation = 90
  <2>1. PixelAddress(b, left, top, x, y) = (h - 1 - left) * p + top * s + y * s + x * (-p)
    BY <1>0, <1>2 DEF PixelAddress, GetRowStart, RowPitch, PixelPitch
  <2>2. CellAddress(b, Turned(b, left + x, top + y))
          = (h - 1 - (left + x)) * p + (top + y) * s
    BY <1>0, <1>2 DEF CellAddress, Turned
  <2> HIDE DEF p, s, w, h
  <2> QED
    BY <1>0, <2>1, <2>2
<1>3. CASE b.rotation = 180
  <2>1. PixelAddress(b, left, top, x, y)
          = (h - 1 - top) * p + (w - 1 - left) * s + y * (-p) + x * (-s)
    BY <1>0, <1>3 DEF PixelAddress, GetRowStart, RowPitch, PixelPitch
  <2>2. CellAddress(b, Turned(b, left + x, top + y))
          = (h - 1 - (top + y)) * p + (w - 1 - (left + x)) * s
    BY <1>0, <1>3 DEF CellAddress, Turned
  <2> HIDE DEF p, s, w, h
  <2> QED
    BY <1>0, <2>1, <2>2
<1>4. CASE b.rotation = 270
  <2>1. PixelAddress(b, left, top, x, y)
          = left * p + (w - 1 - top) * s + y * (-s) + x * p
    BY <1>0, <1>4 DEF PixelAddress, GetRowStart, RowPitch, PixelPitch
  <2>2. CellAddress(b, Turned(b, left + x, top + y))
          = (left + x) * p + (w - 1 - (top + y)) * s
    BY <1>0, <1>4 DEF CellAddress, Turned
  <2> HIDE DEF p, s, w, h
  <2> QED
    BY <1>0, <2>1, <2>2
<1> QED
  BY <1>0, <1>1, <1>2, <1>3, <1>4 DEF Rotations

\* CopyBits32_32, the short cut for pictures that are not turned, writes where
\* CopyBitsGeneric does.
LEMMA ShortCut ==
  ASSUME NEW b \in BltInfos, b.rotation = 0,
         NEW left \in Int, NEW top \in Int, NEW x \in Int, NEW y \in Int
  PROVE  PlainAddress(b, left, top, x, y) = PixelAddress(b, left, top, x, y)
BY BltFields DEF PlainAddress, PixelAddress, GetRowStart, RowPitch, PixelPitch

\* Whichever way the pixels are copied, each lands on the pixel of the frame
\* buffer that shows it.
THEOREM AddressOfItsCell ==
  ASSUME NEW b \in BltInfos, b.x = 0, b.y = 0,
         NEW left \in Int, NEW top \in Int, NEW x \in Int, NEW y \in Int
  PROVE  BltAddress(b, left, top, x, y)
           = CellAddress(b, Turned(b, left + x, top + y))
BY PixelOnItsCell, ShortCut DEF BltAddress
-----------------------------------------------------------------------------
\* A point of the picture that is looked at is shown by a pixel of the picture.
LEMMA TurnedInside ==
  ASSUME NEW b \in BltInfos,
         NEW column \in 0 .. LookedAtWidth(b) - 1,
         NEW row \in 0 .. LookedAtHeight(b) - 1
  PROVE  Turned(b, column, row) \in (0 .. b.width - 1) \X (0 .. b.height - 1)
<1>1. b.width \in Nat /\ b.height \in Nat /\ b.rotation \in Rotations
  BY BltFields
<1> QED
  BY <1>1 DEF Turned, LookedAtWidth, LookedAtHeight, Rotations

\* The last byte of a pixel of a picture, in a row that has room for it.
LEMMA CellInside ==
  ASSUME NEW p \in Nat, NEW s \in Nat, NEW w \in Nat, NEW h \in Nat,
         NEW c \in 0 .. w - 1, NEW r \in 0 .. h - 1
  PROVE  /\ r * p + c * s \in Nat
         /\ r * p + c * s + s <= (h - 1) * p + w * s
<1>1. c \in Nat /\ r \in Nat /\ h - 1 \in Nat /\ c + 1 \in Nat
  OBVIOUS
<1>2. r * p <= (h - 1) * p /\ r * p \in Nat /\ (h - 1) * p \in Nat
  BY <1>1, Monotone
<1>3. (c + 1) * s <= w * s /\ w * s \in Nat
  <2>1. (c + 1) * s <= w * s
    BY <1>1, Monotone
  <2>2. w * s <= w * s /\ w * s \in Nat
    BY Monotone
  <2> QED
    BY <2>1, <2>2
<1>4. (c + 1) * s = c * s + s /\ c * s \in Nat
  <2>1. c * s <= (c + 1) * s /\ c * s \in Nat
    BY <1>1, Monotone
  <2>2. (c + 1) * s = c * s + s
    BY <1>1
  <2> QED
    BY <2>1, <2>2
<1> HIDE <1>1
<1> QED
  BY <1>2, <1>3, <1>4

\* A picture that fits is shown inside of the frame buffer, at its corner or
\* centered in it.
THEOREM InsideFrameBuffer ==
  ASSUME NEW b \in BltInfos, NEW postWidth \in Nat, NEW postHeight \in Nat,
         b.width <= postWidth, b.height <= postHeight,
         postWidth * b.bytes <= b.pitch,
         NEW shift \in {0, CenterShift(b, postWidth, postHeight)},
         NEW column \in 0 .. LookedAtWidth(b) - 1,
         NEW row \in 0 .. LookedAtHeight(b) - 1
  PROVE  LET address == CellAddress(b, Turned(b, column, row))
         IN /\ 0 <= shift + address
            /\ shift + address + b.bytes <= postHeight * b.pitch
<1> DEFINE p == b.pitch
           s == b.bytes
           w == b.width
           h == b.height
           address == CellAddress(b, Turned(b, column, row))
           below == (postHeight - h) * p
           beside == (postWidth - w) * s
<1>0. p \in Nat /\ s \in Nat /\ w \in Nat /\ h \in Nat
  BY BltFields
<1>1. PICK c \in 0 .. w - 1, r \in 0 .. h - 1 : Turned(b, column, row) = <<c, r>>
  BY TurnedInside
<1>2. address = r * p + c * s
  BY <1>1 DEF CellAddress
<1>3. /\ address \in Nat
      /\ address + s <= (h - 1) * p + w * s
  <2> HIDE DEF p, s, w, h
  <2> QED
    BY <1>0, <1>1, <1>2, CellInside
<1>4. below \in Nat /\ beside \in Nat /\ postWidth * s \in Nat /\ postHeight * p \in Nat
  <2>1. postHeight - h \in Nat /\ postWidth - w \in Nat
    BY <1>0
  <2> HIDE DEF p, s, w, h
  <2>2. /\ (postHeight - h) * p <= (postHeight - h) * p /\ (postHeight - h) * p \in Nat
        /\ (postWidth - w) * s <= (postWidth - w) * s /\ (postWidth - w) * s \in Nat
        /\ postWidth * s <= postWidth * s /\ postWidth * s \in Nat
        /\ postHeight * p <= postHeight * p /\ postHeight * p \in Nat
    BY <1>0, <2>1, Monotone
  <2> QED
    BY <2>2
<1>5. shift \in Nat /\ shift <= below + beside
  <2>1. CASE shift = 0
    BY <1>4, <2>1
  <2>2. CASE shift = CenterShift(b, postWidth, postHeight)
    <3>1. shift = (below + beside) \div 2
      BY <2>2 DEF CenterShift
    <3> HIDE DEF below, beside
    <3> QED
      BY <1>4, <3>1
  <2> QED
    BY <2>1, <2>2
<1>6. /\ below + ((h - 1) * p + w * s) + beside = (postHeight - 1) * p + postWidth * s
      /\ (postHeight - 1) * p + p = postHeight * p
      /\ (h - 1) * p \in Int /\ w * s \in Int /\ (postHeight - 1) * p \in Int
  <2> HIDE DEF p, s, w, h
  <2> QED
    BY <1>0
<1>7. postWidth * s <= p
  OBVIOUS
<1> HIDE DEF p, s, w, h, below, beside, address
<1>8. 0 <= shift + address
  BY <1>3, <1>5
<1>9. shift + address + s <= postHeight * p
  BY <1>0, <1>3, <1>4, <1>5, <1>6, <1>7
<1> QED
  BY <1>8, <1>9 DEF address, s, p
=============================================================================
