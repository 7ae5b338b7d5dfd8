------------------------------ MODULE MCConvTiling ------------------------------
(***************************************************************************)
(* ConvTiling for scratchpads of 6 bytes of input, 3 of weights and 4 of      *)
(* output, and images of up to 3 by 5 output pixels.                         *)
(***************************************************************************)
EXTENDS ConvTiling

Shapes(rows, columns, channels) ==
  {[batches |-> 1, in_h |-> 3, in_w |-> 4, in_c |-> c, out_h |-> h, out_w |-> w,
    out_c |-> 1, stride_h |-> 1, stride_w |-> s, pad_h |-> 0, pad_w |-> p] :
      c \in channels, h \in rows, w \in columns, s \in 1..2, p \in 0..1}

\* All shapes, among them one that the scratchpads are too small for.
AllShapes == Shapes(1..3, 1..5, 1..4)

\* Two batches, two channels.
Loops == {[i EXCEPT !.batches = 2, !.out_c = 2] : i \in Shapes({1, 3}, {2, 3}, {1, 2})}

MCImages == AllShapes \union Loops
=============================================================================
