---------------------------- MODULE ConvTilingProofs ----------------------------
(***************************************************************************)
(* Proofs about ConvTiling for images, strides, paddings and scratchpads of   *)
(* any size.  The arithmetic comes first: what the shape chosen for the       *)
(* tiles keeps to, and that packing by rows and reading back by rows are      *)
(* inverse.  The invariant then says that the tiles behind the loops are      *)
(* right, and everything before them untouched.                              *)
(***************************************************************************)
EXTENDS ConvTiling, TLAPS

LEMMA ConstantFacts ==
  /\ Images \subseteq Image /\ Slow \in BOOLEAN
  /\ MaxInputBytes \in Nat \ {0} /\ MaxWeightBytes \in Nat \ {0}
  /\ MaxOutputBytes \in Nat \ {0}
  BY ImagesAssumption, CapacityAssumption DEF Positive

(* Arithmetic. *)

LEMMA MulMono ==
  ASSUME NEW a \in Nat, NEW b \in Nat, NEW c \in Nat, a <= b PROVE a * c <= b * c
  OBVIOUS

LEMMA DivMul ==
  ASSUME NEW a \in Nat, NEW b \in Nat \ {0}
  PROVE  /\ a \div b \in Nat /\ b * (a \div b) + (a % b) = a /\ a % b \in 0..b - 1
         /\ b <= a => a \div b >= 1
  OBVIOUS

LEMMA DivUnique ==
  ASSUME NEW w \in Nat \ {0}, NEW y \in Nat, NEW x \in 0..w - 1
  PROVE  (y * w + x) \div w = y /\ (y * w + x) % w = x
  <1> DEFINE q == (y * w + x) \div w
             r == (y * w + x) % w
  <1>0. y * w + x \in Nat
    OBVIOUS
  <1>1. q \in Nat /\ w * q + r = y * w + x /\ r \in 0..w - 1
    BY <1>0, DivMul
  <1> HIDE DEF q, r
  <1>2. ~(q < y)
    <2> SUFFICES ASSUME q + 1 <= y PROVE FALSE
      BY <1>1
    <2>1. (q + 1) * w <= y * w
      BY <1>1, MulMono
    <2> QED
      BY <1>1, <2>1
  <1>3. ~(y < q)
    <2> SUFFICES ASSUME y + 1 <= q PROVE FALSE
      BY <1>1
    <2>1. (y + 1) * w <= q * w
      BY <1>1, MulMono
    <2> QED
      BY <1>1, <2>1
  <1>4. q = y
    BY <1>1, <1>2, <1>3
  <1>5. r = x
    BY <1>1, <1>4
  <1> QED
    BY <1>4, <1>5 DEF q, r

LEMMA IndexRange ==
  ASSUME NEW w \in Nat \ {0}, NEW h \in Nat, NEW y \in 0..h - 1, NEW x \in 0..w - 1
  PROVE  y * w + x \in 0..h * w - 1
  <1>1. (y + 1) * w <= h * w
    BY MulMono
  <1>2. y * w \in Nat /\ h * w \in Nat
    OBVIOUS
  <1> QED
    BY <1>1, <1>2

(* Shapes. *)

LEMMA ImageFacts ==
  ASSUME NEW i \in Images
  PROVE  /\ i.batches \in Nat \ {0} /\ i.in_h \in Nat \ {0} /\ i.in_w \in Nat \ {0}
         /\ i.in_c \in Nat \ {0} /\ i.out_h \in Nat \ {0} /\ i.out_w \in Nat \ {0}
         /\ i.out_c \in Nat \ {0}
  BY ConstantFacts DEF Image, Positive

\* The shape of the tiles: neither empty nor larger than the image, and what it holds
\* fits into both scratchpads.
LEMMA ShapeFits ==
  ASSUME NEW i \in Images, CanRunPointwise(i)
  PROVE  /\ TileWidth(i) \in 1..i.out_w /\ TileHeight(i) \in 1..i.out_h
         /\ TileHeight(i) * TileWidth(i) <= MaxOutputBytes
         /\ (TileHeight(i) * TileWidth(i)) * i.in_c <= MaxInputBytes
  <1> DEFINE m == MaxPixels(i)
             q == MaxInputBytes \div i.in_c
             w == TileWidth(i)
             h == TileHeight(i)
  <1>1. i.in_c \in Nat \ {0} /\ i.out_h \in Nat \ {0} /\ i.out_w \in Nat \ {0}
    BY ImageFacts
  <1>2. q \in Nat \ {0} /\ i.in_c * q <= MaxInputBytes
    <2>1. i.in_c <= MaxInputBytes
      BY DEF CanRunPointwise
    <2> DEFINE r == MaxInputBytes % i.in_c
    <2>2. q \in Nat /\ i.in_c * q + r = MaxInputBytes /\ r \in 0..i.in_c - 1 /\ q >= 1
      BY <1>1, <2>1, ConstantFacts, DivMul
    <2> HIDE DEF q, r
    <2> QED
      BY <1>1, <2>2, ConstantFacts
  <1>3. m \in Nat \ {0} /\ m <= q /\ m <= MaxOutputBytes
    BY <1>2, ConstantFacts DEF MaxPixels, Smaller
  <1>4. w \in Nat \ {0} /\ w <= i.out_w /\ w <= m
    BY <1>1, <1>3 DEF TileWidth, Smaller
  <1> HIDE DEF m, q, w
  <1>5. m \div w \in Nat \ {0} /\ w * (m \div w) <= m
    BY <1>3, <1>4, DivMul
  <1>6. h \in Nat \ {0} /\ h <= i.out_h /\ h <= m \div w
    BY <1>1, <1>5 DEF TileHeight, Smaller, m, w
  <1> HIDE DEF h
  <1>7. h * w <= m
    <2>1. h * w <= (m \div w) * w
      BY <1>4, <1>5, <1>6, MulMono
    <2> QED
      BY <1>3, <1>4, <1>5, <1>6, <2>1
  <1>8. (h * w) * i.in_c <= MaxInputBytes
    <2>1. h * w \in Nat
      BY <1>4, <1>6
    <2>2. h * w <= q
      BY <1>2, <1>3, <1>7, <2>1
    <2>3. (h * w) * i.in_c <= q * i.in_c
      BY <1>1, <1>2, <2>1, <2>2, MulMono
    <2>4. q * i.in_c = i.in_c * q
      BY <1>1, <1>2
    <2> HIDE DEF h, w
    <2>5. (h * w) * i.in_c \in Nat /\ q * i.in_c \in Nat
      BY <1>1, <1>2, <2>1
    <2> QED
      BY <1>2, <2>3, <2>4, <2>5, ConstantFacts
  <1>9. h * w <= MaxOutputBytes
    <2>1. h * w \in Nat
      BY <1>4, <1>6
    <2> QED
      BY <1>3, <1>7, <2>1, ConstantFacts
  <1>10. w \in 1..i.out_w /\ h \in 1..i.out_h
    BY <1>1, <1>4, <1>6
  <1> QED
    BY <1>8, <1>9, <1>10 DEF h, w

-----------------------------------------------------------------------------
(* The invariant. *)

InLoop == pc \in {"channel", "tile", "run", "store"}

\* The cells that the loops have been through.
Behind(cell) ==
  \/ cell[1] < batch
  \/ cell[1] = batch /\ cell[4] < oc
  \/ cell[1] = batch /\ cell[4] = oc /\ cell[2] < tile_y
  \/ /\ cell[1] = batch /\ cell[4] = oc /\ cell[2] \in tile_y..tile_y + TileHeight(image) - 1
     /\ cell[3] < tile_x

ReferenceAt(cell) == Reference(image, cell[1], cell[2], cell[3], cell[4])

Progress ==
  InLoop =>
    /\ CanRunPointwise(image) /\ batch <= image.batches
    /\ \A cell \in Cells(image) :
         /\ Behind(cell) => output[cell] = ReferenceAt(cell)
         /\ ~Behind(cell) => output[cell] = Unset
    /\ pc = "channel" => tile_y = 0 /\ tile_x = 0

\* Where nothing has been done yet.
Fresh ==
  pc = "idle" =>
    /\ batch = 1 /\ oc = 1 /\ tile_y = 0 /\ tile_x = 0
    /\ \A cell \in Cells(image) : output[cell] = Unset

SourceOf(p) == Source(image, batch, tile_y + p \div tile_w, tile_x + (p % tile_w))

Packed ==
  /\ pc = "run" => tile = [p \in Pixels |-> SourceOf(p)]
  /\ pc = "store" => spad_out = [p \in Pixels |-> [pixel |-> SourceOf(p), channel |-> oc]]

IInv == TypeOK /\ Progress /\ Fresh /\ Packed /\ OutputRight

LEMMA CellFacts ==
  ASSUME NEW cell \in Cells(image), TypeOK
  PROVE  /\ cell[1] \in 1..image.batches /\ cell[2] \in 0..image.out_h - 1
         /\ cell[3] \in 0..image.out_w - 1 /\ cell[4] \in 1..image.out_c
  BY DEF Cells

\* The tile at hand: not empty, inside the image, and no larger than the others.
LEMMA TileFacts ==
  ASSUME TypeOK, CanRunPointwise(image)
  PROVE  /\ TileHeight(image) \in Nat \ {0} /\ TileWidth(image) \in Nat \ {0}
         /\ tile_h \in 1..TileHeight(image) /\ tile_w \in 1..TileWidth(image)
         /\ tile_y + tile_h <= image.out_h /\ tile_x + tile_w <= image.out_w
         /\ tile_y + tile_h = image.out_h \/ tile_h = TileHeight(image)
         /\ tile_x + tile_w = image.out_w \/ tile_w = TileWidth(image)
         /\ tile_y \in Nat /\ tile_x \in Nat /\ batch \in Nat /\ oc \in Nat
         /\ image.out_h \in Nat \ {0} /\ image.out_w \in Nat \ {0}
         /\ image.out_c \in Nat \ {0} /\ image.batches \in Nat \ {0}
  <1>1. image \in Images
    BY DEF TypeOK
  <1>2. /\ TileWidth(image) \in 1..image.out_w /\ TileHeight(image) \in 1..image.out_h
    BY <1>1, ShapeFits
  <1>3. /\ image.out_h \in Nat \ {0} /\ image.out_w \in Nat \ {0}
        /\ image.out_c \in Nat \ {0} /\ image.batches \in Nat \ {0}
    BY <1>1, ImageFacts
  <1> QED
    BY <1>2, <1>3 DEF TypeOK, tile_h, tile_w, Smaller

LEMMA FitLemma ==
  ASSUME TypeOK, CanRunPointwise(image) PROVE ~TileTooLarge
  <1>1. image \in Images /\ image.in_c \in Nat \ {0}
    BY ImageFacts DEF TypeOK
  <1> DEFINE H == TileHeight(image)
             W == TileWidth(image)
             h == tile_h
             w == tile_w
             c == image.in_c
  <1>2. /\ H * W <= MaxOutputBytes /\ (H * W) * c <= MaxInputBytes
    BY <1>1, ShapeFits
  <1>3. H \in Nat \ {0} /\ W \in Nat \ {0} /\ h \in 1..H /\ w \in 1..W /\ c \in Nat \ {0}
    BY <1>1, TileFacts
  <1> HIDE DEF H, W, h, w, c
  <1>4. h * w <= H * W
    <2>1. h * w <= H * w
      BY <1>3, MulMono
    <2>2. w * H <= W * H
      BY <1>3, MulMono
    <2> QED
      BY <1>3, <2>1, <2>2
  <1>5. h * w \in Nat /\ H * W \in Nat
    BY <1>3
  <1>6. (h * w) * c <= (H * W) * c
    BY <1>3, <1>4, <1>5, MulMono
  <1>7. ~(h * w > MaxOutputBytes)
    BY <1>2, <1>4, <1>5, ConstantFacts
  <1>8. ~((h * w) * c > MaxInputBytes)
    <2> DEFINE s == (h * w) * c
               t == (H * W) * c
    <2>1. s \in Nat /\ t \in Nat
      BY <1>3, <1>5
    <2>2. s <= t /\ t <= MaxInputBytes
      BY <1>2, <1>6
    <2> HIDE DEF s, t
    <2>3. ~(s > MaxInputBytes)
      BY <2>1, <2>2, ConstantFacts
    <2> QED
      BY <2>3 DEF s
  <1> QED
    BY <1>7, <1>8 DEF TileTooLarge, h, w, c

-----------------------------------------------------------------------------
(* Storing a tile. *)

\* What is read back for a cell of the tile was packed for it.
LEMMA StoredRight ==
  ASSUME TypeOK, Packed, pc = "store", CanRunPointwise(image),
         NEW cell \in Cells(image), InTile(cell)
  PROVE  Stored(cell) = ReferenceAt(cell)
  <1> DEFINE y == cell[2] - tile_y
             x == cell[3] - tile_x
             p == y * tile_w + x
  <1>1. /\ tile_w \in Nat \ {0} /\ tile_h \in Nat \ {0} /\ tile_y \in Nat /\ tile_x \in Nat
        /\ cell[2] \in Nat /\ cell[3] \in Nat
    BY TileFacts, CellFacts, ImageFacts DEF TypeOK
  <1>2. y \in 0..tile_h - 1 /\ x \in 0..tile_w - 1
    BY <1>1 DEF InTile
  <1>3. Stored(cell) = spad_out[p]
    BY DEF Stored
  <1> HIDE DEF y, x
  <1>4. p \in Pixels /\ p \div tile_w = y /\ p % tile_w = x
    <2>1. y * tile_w + x \in 0..tile_h * tile_w - 1
      BY <1>1, <1>2, IndexRange
    <2>2. y \in Nat /\ x \in 0..tile_w - 1
      BY <1>1, <1>2
    <2>3. (y * tile_w + x) \div tile_w = y /\ (y * tile_w + x) % tile_w = x
      BY <1>1, <2>2, DivUnique
    <2>4. p \in Pixels
      BY <2>1 DEF Pixels
    <2> QED
      BY <2>3, <2>4
  <1> HIDE DEF p
  <1>5. Stored(cell) = [pixel |-> SourceOf(p), channel |-> oc]
    BY <1>3, <1>4 DEF Packed
  <1>6. SourceOf(p) = Source(image, batch, cell[2], cell[3])
    <2>1. tile_y + p \div tile_w = cell[2] /\ tile_x + (p % tile_w) = cell[3]
      BY <1>1, <1>4 DEF y, x
    <2> QED
      BY <2>1 DEF SourceOf
  <1> QED
    BY <1>5, <1>6 DEF ReferenceAt, Reference, InTile

\* A tile is not behind the loops yet.
LEMMA TileAhead ==
  ASSUME TypeOK, NEW cell \in Cells(image), InTile(cell), CanRunPointwise(image)
  PROVE  ~Behind(cell)
  <1>1. cell[2] \in Nat /\ cell[3] \in Nat /\ cell[1] \in Nat /\ cell[4] \in Nat
    BY CellFacts, ImageFacts DEF TypeOK
  <1> QED
    BY <1>1, TileFacts DEF InTile, Behind

\* The loops go on: behind them is what was, and the tile.
LEMMA LoopsAdvance ==
  ASSUME TypeOK, CanRunPointwise(image), batch <= image.batches, NextTile, NextChannel,
         image' = image
  PROVE  /\ batch' \in 1..image.batches + 1 /\ oc' \in 1..image.out_c
         /\ tile_y' \in 0..image.out_h - 1 /\ tile_x' \in 0..image.out_w - 1
         /\ pc' \in {"tile", "channel", "done"}
         /\ pc' # "done" => batch' <= image.batches
         /\ pc' = "channel" => tile_y' = 0 /\ tile_x' = 0
         /\ pc' # "done" => \A cell \in Cells(image) :
              Behind(cell)' <=> Behind(cell) \/ InTile(cell)
         /\ pc' = "done" => \A cell \in Cells(image) : Behind(cell) \/ InTile(cell)
  <1> DEFINE H == TileHeight(image)
             W == TileWidth(image)
  <1>1. /\ H \in Nat \ {0} /\ W \in Nat \ {0}
        /\ tile_h \in 1..H /\ tile_w \in 1..W
        /\ tile_y + tile_h <= image.out_h /\ tile_x + tile_w <= image.out_w
        /\ tile_y + tile_h = image.out_h \/ tile_h = H
        /\ tile_x + tile_w = image.out_w \/ tile_w = W
        /\ tile_y \in Nat /\ tile_x \in Nat /\ batch \in Nat /\ oc \in Nat
        /\ image.out_h \in Nat \ {0} /\ image.out_w \in Nat \ {0}
        /\ image.out_c \in Nat \ {0} /\ image.batches \in Nat \ {0}
        /\ oc \in 1..image.out_c /\ batch \in 1..image.batches
    BY TileFacts DEF TypeOK
  <1>2. TileHeight(image)' = H
    BY DEF TileHeight, TileWidth, MaxPixels, Smaller
  <1>3. LastInRow <=> tile_x + W >= image.out_w
    BY DEF LastInRow
  <1>4. LastTile <=> LastInRow /\ tile_y + H >= image.out_h
    BY DEF LastTile
  <1> HIDE DEF H, W
  <1>5. /\ tile_x' = IF LastInRow THEN 0 ELSE tile_x + W
        /\ LastTile => tile_y' = 0
        /\ LastInRow /\ ~LastTile => tile_y' = tile_y + H
        /\ ~LastInRow => tile_y' = tile_y
    BY <1>4 DEF NextTile, W, H
  <1>6. /\ tile_y' \in 0..image.out_h - 1 /\ tile_x' \in 0..image.out_w - 1
        /\ LastTile => tile_y' = 0 /\ tile_x' = 0
    BY <1>1, <1>3, <1>4, <1>5 DEF TypeOK
  <1>7. /\ pc' \in {"tile", "channel", "done"}
        /\ batch' \in 1..image.batches + 1 /\ oc' \in 1..image.out_c
        /\ pc' # "done" => batch' <= image.batches
        /\ pc' = "channel" => LastTile
        /\ pc' = "done" => LastTile /\ oc = image.out_c /\ batch = image.batches
    BY <1>1 DEF NextChannel
  <1>8. ASSUME NEW cell \in Cells(image)
        PROVE  /\ pc' # "done" => (Behind(cell)' <=> Behind(cell) \/ InTile(cell))
               /\ pc' = "done" => Behind(cell) \/ InTile(cell)
    <2> DEFINE a == cell[1]
               y == cell[2]
               x == cell[3]
               c == cell[4]
               before == a < batch \/ (a = batch /\ c < oc)
               here == a = batch /\ c = oc
    <2>1. /\ a \in 1..image.batches /\ y \in 0..image.out_h - 1
          /\ x \in 0..image.out_w - 1 /\ c \in 1..image.out_c
      BY CellFacts
    <2>2. Behind(cell) <=>
            before \/ (here /\ (y < tile_y \/ (y \in tile_y..tile_y + H - 1 /\ x < tile_x)))
      BY DEF Behind, H
    <2>3. InTile(cell) <=> here /\ y \in tile_y..tile_y + tile_h - 1
                                /\ x \in tile_x..tile_x + tile_w - 1
      BY DEF InTile
    <2>4. Behind(cell)' <=>
            \/ a < batch' \/ (a = batch' /\ c < oc')
            \/ /\ a = batch' /\ c = oc'
               /\ y < tile_y' \/ (y \in tile_y'..tile_y' + H - 1 /\ x < tile_x')
      BY <1>2 DEF Behind
    <2> HIDE DEF a, y, x, c
    <2>5. CASE ~LastTile
      <3>1. batch' = batch /\ oc' = oc /\ pc' = "tile"
        BY <2>5 DEF NextChannel
      <3>2. CASE LastInRow
        <4>1. /\ tile_x' = 0 /\ tile_y' = tile_y + H /\ tile_h = H
              /\ tile_x + tile_w = image.out_w
          BY <1>1, <1>3, <1>4, <1>5, <2>5, <3>2
        <4> QED
          BY <1>1, <2>1, <2>2, <2>3, <2>4, <3>1, <4>1
      <3>3. CASE ~LastInRow
        <4>1. tile_x' = tile_x + W /\ tile_y' = tile_y /\ tile_w = W
          BY <1>1, <1>3, <1>5, <3>3
        <4> QED
          BY <1>1, <2>1, <2>2, <2>3, <2>4, <3>1, <4>1
      <3> QED
        BY <3>2, <3>3
    <2>6. CASE LastTile
      <3>1. tile_x + tile_w = image.out_w /\ tile_y + tile_h = image.out_h
        BY <1>1, <1>3, <1>4, <2>6
      <3>2. Behind(cell) \/ InTile(cell) <=> before \/ here
        BY <1>1, <2>1, <2>2, <2>3, <3>1
      <3>3. tile_x' = 0 /\ tile_y' = 0
        BY <1>6, <2>6
      <3>4. Behind(cell)' <=> a < batch' \/ (a = batch' /\ c < oc')
        BY <2>1, <2>4, <3>3
      <3>5. CASE oc < image.out_c
        <4>1. oc' = oc + 1 /\ batch' = batch /\ pc' = "channel"
          BY <2>6, <3>5 DEF NextChannel
        <4> QED
          BY <1>1, <2>1, <3>2, <3>4, <4>1
      <3>6. CASE oc = image.out_c
        <4>1. oc' = 1 /\ batch' = batch + 1
          BY <1>1, <2>6, <3>6 DEF NextChannel
        <4>2. pc' = "done" => batch = image.batches
          BY <1>7
        <4> QED
          BY <1>1, <2>1, <3>2, <3>4, <3>6, <4>1, <4>2
      <3> QED
        BY <1>1, <3>5, <3>6
    <2> QED
      BY <2>5, <2>6
  <1> QED
    BY <1>6, <1>7, <1>8

-----------------------------------------------------------------------------
(* Every step. *)

LEMMA InitInv == Init => IInv
  <1> SUFFICES ASSUME Init PROVE IInv
    OBVIOUS
  <1>1. \A cell \in Cells(image) : output[cell] = Unset
    BY DEF Init
  <1>2. TypeOK
    BY ImageFacts DEF Init, TypeOK
  <1> QED
    BY <1>1, <1>2 DEF Init, IInv, Progress, InLoop, Fresh, Packed, OutputRight

\* Steps that leave the loops and the output as they are.
LEMMA SameLoops ==
  ASSUME IInv, UNCHANGED <<image, batch, oc, tile_y, tile_x, output>>,
         InLoop, pc' \in {"tile", "run", "store", "processor"}
  PROVE  TypeOK' /\ Progress' /\ Fresh' /\ OutputRight'
  <1>1. TypeOK'
    BY DEF IInv, TypeOK, Cells
  <1>2. \A cell \in Cells(image) : /\ Behind(cell)' <=> Behind(cell)
                                   /\ ReferenceAt(cell)' = ReferenceAt(cell)
    BY DEF Behind, TileHeight, TileWidth, MaxPixels, Smaller, ReferenceAt, Reference, Source
  <1>3. CanRunPointwise(image)' /\ Cells(image)' = Cells(image)
    BY DEF IInv, Progress, CanRunPointwise, Cells
  <1>4. Progress'
    BY <1>2, <1>3 DEF IInv, Progress
  <1> QED
    BY <1>1, <1>4 DEF Fresh, OutputRight

LEMMA PackedSame ==
  ASSUME UNCHANGED <<image, batch, oc, tile_y, tile_x>>
  PROVE  Pixels' = Pixels /\ \A p : SourceOf(p)' = SourceOf(p)
  BY DEF Pixels, tile_h, tile_w, TileHeight, TileWidth, MaxPixels, Smaller, SourceOf, Source, Pad

LEMMA StoreStep ==
  ASSUME IInv, StoreTile
  PROVE  IInv'
  <1>1. /\ pc = "store" /\ image' = image /\ NextTile /\ NextChannel
        /\ output' = [cell \in Cells(image) |-> Stored(cell)]
        /\ TypeOK /\ Packed /\ CanRunPointwise(image) /\ batch <= image.batches
    BY DEF StoreTile, IInv, Progress, InLoop
  <1>2. /\ batch' \in 1..image.batches + 1 /\ oc' \in 1..image.out_c
        /\ tile_y' \in 0..image.out_h - 1 /\ tile_x' \in 0..image.out_w - 1
        /\ pc' \in {"tile", "channel", "done"}
        /\ pc' # "done" => batch' <= image.batches
        /\ pc' = "channel" => tile_y' = 0 /\ tile_x' = 0
        /\ pc' # "done" => \A cell \in Cells(image) :
             Behind(cell)' <=> Behind(cell) \/ InTile(cell)
        /\ pc' = "done" => \A cell \in Cells(image) : Behind(cell) \/ InTile(cell)
    BY <1>1, LoopsAdvance
  <1>3. Cells(image)' = Cells(image) /\ CanRunPointwise(image)'
    BY <1>1 DEF Cells, CanRunPointwise
  <1>4. \A cell \in Cells(image) : ReferenceAt(cell)' = ReferenceAt(cell)
    BY <1>1 DEF ReferenceAt, Reference, Source
  <1>5. ASSUME NEW cell \in Cells(image)
        PROVE  /\ Behind(cell) \/ InTile(cell) => output'[cell] = ReferenceAt(cell)
               /\ ~Behind(cell) /\ ~InTile(cell) => output'[cell] = Unset
    <2>1. output'[cell] = Stored(cell)
      BY <1>1
    <2>2. CASE InTile(cell)
      BY <1>1, <2>1, <2>2, StoredRight
    <2>3. CASE ~InTile(cell)
      BY <1>1, <2>1, <2>3 DEF Stored, IInv, Progress, InLoop
    <2> QED
      BY <2>2, <2>3
  <1>6. TypeOK'
    <2>1. output' = [cell \in Cells(image)' |-> output'[cell]]
      BY <1>1, <1>3
    <2> QED
      BY <1>1, <1>2, <2>1 DEF TypeOK
  <1>7. Progress'
    <2> SUFFICES ASSUME InLoop' PROVE Progress'
      BY DEF Progress
    <2>1. pc' # "done"
      BY DEF InLoop
    <2>2. \A cell \in Cells(image) :
            /\ Behind(cell)' => output'[cell] = ReferenceAt(cell)'
            /\ ~Behind(cell)' => output'[cell] = Unset
      BY <1>2, <1>4, <1>5, <2>1
    <2> QED
      BY <1>1, <1>2, <1>3, <2>1, <2>2 DEF Progress
  <1>8. OutputRight'
    BY <1>1, <1>2, <1>3, <1>4, <1>5 DEF OutputRight, ReferenceAt
  <1> QED
    BY <1>2, <1>6, <1>7, <1>8 DEF IInv, Fresh, Packed

LEMMA Step == IInv /\ [Next]_vars => IInv'
  <1> SUFFICES ASSUME IInv, [Next]_vars PROVE IInv'
    OBVIOUS
  <1>1. CASE ConvPerChannel
    <2>1. TypeOK'
      BY <1>1 DEF ConvPerChannel, IInv, TypeOK, Cells
    <2>2. CASE pc' = "processor"
      BY <1>1, <2>1, <2>2 DEF IInv, Progress, InLoop, Fresh, Packed, OutputRight
    <2>3. CASE pc' = "channel"
      <3>1. /\ batch' = 1 /\ oc' = 1 /\ tile_y' = 0 /\ tile_x' = 0 /\ image' = image
            /\ output' = output /\ CanRunPointwise(image)
        BY <1>1, <2>3 DEF ConvPerChannel, IInv, Fresh
      <3>2. image.batches \in Nat \ {0} /\ image \in Images
        BY ImageFacts DEF IInv, TypeOK
      <3>3. \A cell \in Cells(image) : output[cell] = Unset
        BY <1>1 DEF ConvPerChannel, IInv, Fresh
      <3>4. \A cell \in Cells(image) : ~Behind(cell)'
        <4> SUFFICES ASSUME NEW cell \in Cells(image) PROVE ~Behind(cell)'
          OBVIOUS
        <4>1. cell[1] \in Nat \ {0} /\ cell[2] \in Nat /\ cell[3] \in Nat /\ cell[4] \in Nat \ {0}
          BY CellFacts, ImageFacts DEF IInv, TypeOK
        <4> QED
          BY <3>1, <4>1 DEF Behind
      <3>5. Cells(image)' = Cells(image) /\ CanRunPointwise(image)'
        BY <3>1 DEF Cells, CanRunPointwise
      <3>6. Progress'
        BY <3>1, <3>2, <3>3, <3>4, <3>5 DEF Progress
      <3> QED
        BY <2>1, <2>3, <3>6 DEF IInv, Fresh, Packed, OutputRight
    <2> QED
      BY <1>1, <2>2, <2>3 DEF ConvPerChannel
  <1>2. CASE LoadChannel
    BY <1>2, SameLoops DEF LoadChannel, IInv, InLoop, Packed
  <1>3. CASE LoadTile
    <2>1. ~TileTooLarge
      BY <1>3, FitLemma DEF LoadTile, IInv, Progress, InLoop
    <2>2. tile' = [p \in Pixels |-> SourceOf(p)] /\ pc' = "run"
          /\ UNCHANGED <<image, batch, oc, tile_y, tile_x, output>>
      BY <1>3, <2>1 DEF LoadTile, SourceOf
    <2>3. Packed'
      BY <2>2, PackedSame DEF Packed
    <2> QED
      BY <1>3, <2>2, <2>3, SameLoops DEF LoadTile, IInv, InLoop
  <1>4. CASE RunArray
    <2>1. spad_out' = [p \in Pixels |-> [pixel |-> SourceOf(p), channel |-> oc]]
      BY <1>4 DEF RunArray, IInv, Packed
    <2>2. Packed'
      BY <1>4, <2>1, PackedSame DEF Packed, RunArray
    <2> QED
      BY <1>4, <2>2, SameLoops DEF RunArray, IInv, InLoop
  <1>5. CASE TooSlow
    BY <1>5, SameLoops DEF TooSlow, IInv, InLoop, Packed
  <1>6. CASE StoreTile
    BY <1>6, StoreStep
  <1>7. CASE Processor
    BY <1>7 DEF Processor, IInv, TypeOK, Progress, InLoop, Fresh, Packed, OutputRight, Cells,
       Reference, Source
  <1>8. CASE UNCHANGED vars
    <2>1. UNCHANGED <<pc, image, batch, oc, tile_y, tile_x, tile, spad_out, output>>
      BY <1>8 DEF vars
    <2>2. Packed'
      BY <2>1, PackedSame DEF IInv, Packed
    <2>3. TypeOK' /\ Fresh' /\ OutputRight'
      BY <2>1 DEF IInv, TypeOK, Fresh, OutputRight, Cells, Reference, Source
    <2>4. \A cell \in Cells(image) : /\ Behind(cell)' <=> Behind(cell)
                                     /\ ReferenceAt(cell)' = ReferenceAt(cell)
      BY <2>1 DEF Behind, TileHeight, TileWidth, MaxPixels, Smaller, ReferenceAt, Reference,
         Source
    <2>5. Progress'
      BY <2>1, <2>4 DEF IInv, Progress, InLoop, CanRunPointwise, Cells
    <2> QED
      BY <2>2, <2>3, <2>5 DEF IInv
  <1> QED
    BY <1>1, <1>2, <1>3, <1>4, <1>5, <1>6, <1>7, <1>8 DEF Next

\* The loops stay within the image.
THEOREM TypeCorrect == Spec => []TypeOK
  BY InitInv, Step, PTL DEF Spec, IInv

\* No tile of an image that has been begun is too large for the scratchpads.
THEOREM TilesAlwaysFit == Spec => []TilesFit
  <1>1. IInv => TilesFit
    BY FitLemma DEF IInv, Progress, InLoop, TilesFit
  <1> QED
    BY InitInv, Step, <1>1, PTL DEF Spec

\* The output is what the processor computes, for images and scratchpads of any size,
\* wherever a copy or the array is too slow.
THEOREM OutputIsRight == Spec => []OutputRight
  BY InitInv, Step, PTL DEF Spec, IInv

\* Tiles do not overlap.
THEOREM TilesApart == Spec => []StoresOnce
  <1>1. IInv => StoresOnce
    <2> SUFFICES ASSUME IInv, pc = "store", NEW cell \in Cells(image), InTile(cell)
                 PROVE  output[cell] = Unset
      BY DEF StoresOnce
    <2>1. ~Behind(cell)
      BY TileAhead DEF IInv, Progress, InLoop
    <2> QED
      BY <2>1 DEF IInv, Progress, InLoop
  <1> QED
    BY InitInv, Step, <1>1, PTL DEF Spec

=============================================================================
