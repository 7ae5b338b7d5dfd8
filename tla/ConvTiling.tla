------------------------------- MODULE ConvTiling -------------------------------
(***************************************************************************)
(* The tiled driver of the convolution array, "conv_accel copy 2.h": its     *)
(* scratchpads are smaller than the images, so each output channel is        *)
(* computed tile by tile.  ConvAccelChoosePointwiseTileShape chooses the      *)
(* shape of the tiles, the loops of TryConvAccelPointwisePerChannel go        *)
(* through them; a tile's input is packed into a buffer of its own, row by    *)
(* row, and its output read back in the same order.                          *)
(*                                                                         *)
(* An output value is named by the input pixel and the output channel it is   *)
(* computed from; a pixel outside the input, for which the buffer gets the    *)
(* zero point, is Pad.  The DMA engine and the array are external; here they  *)
(* only succeed or take too long (ConvAccel has their registers).            *)
(***************************************************************************)
EXTENDS Integers

CONSTANTS
  Images,            \* the convolutions that are run
  Slow,              \* whether a copy or the array may take too long
  MaxInputBytes,     \* CONV_MAX_INPUT_BYTES
  MaxWeightBytes,    \* CONV_MAX_WEIGHT_BYTES
  MaxOutputBytes     \* CONV_MAX_OUTPUT_BYTES

Positive == Nat \ {0}

\* Shapes and parameters of a pointwise convolution.
Image == [batches : Positive, in_h : Positive, in_w : Positive, in_c : Positive,
          out_h : Positive, out_w : Positive, out_c : Positive,
          stride_h : Positive, stride_w : Positive, pad_h : Nat, pad_w : Nat]

ASSUME ImagesAssumption == Images \subseteq Image /\ Slow \in BOOLEAN

ASSUME CapacityAssumption ==
  /\ MaxInputBytes \in Positive /\ MaxWeightBytes \in Positive
  /\ MaxOutputBytes \in Positive

Smaller(a, b) == IF a < b THEN a ELSE b

\* ConvAccelCanRunPointwise.
CanRunPointwise(i) == i.in_c <= MaxWeightBytes /\ i.in_c <= MaxInputBytes

\* ConvAccelChoosePointwiseTileShape.
MaxPixels(i) == Smaller(MaxInputBytes \div i.in_c, MaxOutputBytes)
TileWidth(i) == Smaller(i.out_w, MaxPixels(i))

TileHeight(i) == Smaller(MaxPixels(i) \div TileWidth(i), i.out_h)

Pad == <<0, 0, 0>>
Unset == [pixel |-> <<0, 0, 0>>, channel |-> 0]

VARIABLES
  pc,                \* where the driver is
  image,             \* the convolution
  batch, oc,         \* the outer loops
  tile_y, tile_x,    \* the inner loops: the first pixel of the tile
  tile,              \* g_conv_accel_input_tile, by pixel
  spad_out,          \* external: the output scratchpad
  output             \* output_data

vars == <<pc, image, batch, oc, tile_y, tile_x, tile, spad_out, output>>

Cells(i) == (1..i.batches) \X (0..i.out_h - 1) \X (0..i.out_w - 1) \X (1..i.out_c)

\* The input pixel of an output pixel.
Source(i, b, y, x) ==
  LET in_y == y * i.stride_h - i.pad_h
      in_x == x * i.stride_w - i.pad_w
  IN  IF in_y \in 0..i.in_h - 1 /\ in_x \in 0..i.in_w - 1 THEN <<b, in_y, in_x>> ELSE Pad

\* What the processor's loops compute.
Reference(i, b, y, x, c) == [pixel |-> Source(i, b, y, x), channel |-> c]

\* The tile at hand, cut off at the edges of the image.
tile_h == Smaller(TileHeight(image), image.out_h - tile_y)
tile_w == Smaller(TileWidth(image), image.out_w - tile_x)
Pixels == 0..tile_h * tile_w - 1

Init ==
  /\ pc = "idle" /\ image \in Images
  /\ batch = 1 /\ oc = 1 /\ tile_y = 0 /\ tile_x = 0
  /\ tile = <<>> /\ spad_out = <<>>
  /\ output = [cell \in Cells(image) |-> Unset]

ConvPerChannel ==
  /\ pc = "idle"
  /\ pc' = IF CanRunPointwise(image) THEN "channel" ELSE "processor"
  /\ UNCHANGED <<image, batch, oc, tile_y, tile_x, tile, spad_out, output>>

\* The weights and the bias of a channel are packed and copied.
LoadChannel ==
  /\ pc = "channel"
  /\ pc' = "tile"
  /\ UNCHANGED <<image, batch, oc, tile_y, tile_x, tile, spad_out, output>>

TileTooLarge ==
  \/ tile_h * tile_w * image.in_c > MaxInputBytes
  \/ tile_h * tile_w > MaxOutputBytes

\* ConvAccelBuildPointwiseInputTile and the copy of the tile, after a check of its size.
LoadTile ==
  /\ pc = "tile"
  /\ IF TileTooLarge
     THEN pc' = "processor" /\ UNCHANGED tile
     ELSE /\ pc' = "run"
          /\ tile' = [p \in Pixels |->
                        Source(image, batch, tile_y + p \div tile_w, tile_x + (p % tile_w))]
  /\ UNCHANGED <<image, batch, oc, tile_y, tile_x, spad_out, output>>

\* The array goes through the packed tile with stride 1.
RunArray ==
  /\ pc = "run"
  /\ spad_out' = [p \in Pixels |-> [pixel |-> tile[p], channel |-> oc]]
  /\ pc' = "store"
  /\ UNCHANGED <<image, batch, oc, tile_y, tile_x, tile, output>>

\* A copy or the array takes too long.
TooSlow ==
  /\ pc \in {"channel", "tile", "run"} /\ Slow
  /\ pc' = "processor"
  /\ UNCHANGED <<image, batch, oc, tile_y, tile_x, tile, spad_out, output>>

\* Whether a cell is one of the tile at hand.
InTile(cell) ==
  /\ cell[1] = batch /\ cell[4] = oc
  /\ cell[2] \in tile_y..tile_y + tile_h - 1
  /\ cell[3] \in tile_x..tile_x + tile_w - 1

\* A bug: the tile is read back by columns.
BugStored(cell) ==
  IF InTile(cell) THEN spad_out[(cell[3] - tile_x) * tile_h + (cell[2] - tile_y)]
  ELSE output[cell]

\* ConvAccelStorePointwiseOutputTileFromAxiSpad.
Stored(cell) ==
  IF InTile(cell) THEN spad_out[(cell[2] - tile_y) * tile_w + (cell[3] - tile_x)]
  ELSE output[cell]

LastInRow == tile_x + TileWidth(image) >= image.out_w
LastTile == LastInRow /\ tile_y + TileHeight(image) >= image.out_h

\* A bug: a row of tiles is followed by the same one.
BugRowKept ==
  /\ tile_x' = IF LastInRow THEN 0 ELSE tile_x + TileWidth(image)
  /\ tile_y' = IF LastTile THEN 0 ELSE tile_y

\* The two inner loops go on.
NextTile ==
  /\ tile_x' = IF LastInRow THEN 0 ELSE tile_x + TileWidth(image)
  /\ tile_y' = CASE LastTile -> 0
                 [] LastInRow /\ ~LastTile -> tile_y + TileHeight(image)
                 [] OTHER -> tile_y

\* The two outer loops go on when a channel's tiles are done.
NextChannel ==
  IF ~LastTile
  THEN pc' = "tile" /\ UNCHANGED <<batch, oc>>
  ELSE /\ oc' = IF oc < image.out_c THEN oc + 1 ELSE 1
       /\ batch' = IF oc < image.out_c THEN batch ELSE batch + 1
       /\ pc' = IF oc < image.out_c \/ batch < image.batches THEN "channel" ELSE "done"

StoreTile ==
  /\ pc = "store"
  /\ output' = [cell \in Cells(image) |-> Stored(cell)]
  /\ NextTile
  /\ NextChannel
  /\ UNCHANGED <<image, tile, spad_out>>

Processor ==
  /\ pc = "processor"
  /\ output' = [cell \in Cells(image) |-> Reference(image, cell[1], cell[2], cell[3], cell[4])]
  /\ pc' = "done"
  /\ UNCHANGED <<image, batch, oc, tile_y, tile_x, tile, spad_out>>

Next ==
  \/ ConvPerChannel \/ LoadChannel \/ LoadTile \/ RunArray \/ TooSlow
  \/ StoreTile \/ Processor

\* A loop on one processor.
Spec == Init /\ [][Next]_vars /\ WF_vars(Next)

-----------------------------------------------------------------------------
(* Properties. *)

\* The loops stay within the image: a tile always has a pixel in it.
TypeOK ==
  /\ pc \in {"idle", "channel", "tile", "run", "store", "processor", "done"}
  /\ image \in Images
  /\ batch \in 1..image.batches + 1 /\ oc \in 1..image.out_c
  /\ tile_y \in 0..image.out_h - 1 /\ tile_x \in 0..image.out_w - 1
  /\ output = [cell \in Cells(image) |-> output[cell]]

\* The shape chosen for a whole image makes every one of its tiles fit into the
\* scratchpads: a layer that has been begun is not given up because of a tile.
TilesFit == pc = "tile" => ~TileTooLarge

\* Whatever the shapes of image and tiles, the output is what the processor computes.
OutputRight ==
  pc = "done" =>
    \A cell \in Cells(image) :
      output[cell] = Reference(image, cell[1], cell[2], cell[3], cell[4])

\* No pixel of a channel is computed twice: tiles do not overlap.
StoresOnce == pc = "store" => \A cell \in Cells(image) : InTile(cell) => output[cell] = Unset

\* The loops end.
Finishes == <>(pc = "done")

=============================================================================
