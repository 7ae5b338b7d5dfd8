------------------------------- MODULE LutDecode -------------------------------
(***************************************************************************)
(* The lookup-table decoder of the DECODE operator (kernels/                *)
(* decode_state_lut.cc): each element of the output is a number of one to   *)
(* seven bits, packed without gaps, which selects a value in the table of   *)
(* the element's channel.  Narrow numbers are taken in groups from whole    *)
(* words, where the position in memory allows it.                           *)
(*                                                                          *)
(* An element is <<the first entry of its table, the bits of its number>>,  *)
(* a bit being its place in the compressed tensor, the first one of byte 0, *)
(* its most significant, being 0.                                           *)
(***************************************************************************)
EXTENDS Integers, Sequences

CONSTANTS
  BitWidths, ChannelCounts, ElementCounts,   \* of a tensor; elements per channel
  Stride                                     \* value_table_channel_stride_

VARIABLES
  pc,               \* "setup", "decoding" or "refused"
  compressed_bit_width, num_channels, per_channel, use_alternate_axis, int8,
  channel,          \* the channel that is decoded
  count,            \* what is left of it, or on the alternate axis of the tensor
  current_offset,   \* the element that is read
  written,          \* the elements written by earlier steps
  latest            \* those written by the last step

tensor == <<compressed_bit_width, num_channels, per_channel, use_alternate_axis, int8>>
vars == <<pc, tensor, channel, count, current_offset, written, latest>>

\* A tensor of one channel has no alternate axis.
Init ==
  /\ pc = "setup"
  /\ compressed_bit_width \in BitWidths /\ num_channels \in ChannelCounts
  /\ per_channel \in ElementCounts /\ int8 \in BOOLEAN
  /\ use_alternate_axis \in (IF num_channels > 1 THEN BOOLEAN ELSE {FALSE})
  /\ channel = 0 /\ current_offset = 0 /\ written = 0 /\ latest = <<>>
  /\ count = IF use_alternate_axis THEN num_channels * per_channel ELSE per_channel

Setup ==
  /\ pc = "setup" /\ pc' = "decoding"
  /\ UNCHANGED <<tensor, channel, count, current_offset, written, latest>>

\* A version other than 1, or the axis of a quantization that is neither the first
\* one of the tensor nor, for more than one channel, the last: nothing is decoded.
RefuseSetup ==
  /\ pc = "setup" /\ pc' = "refused"
  /\ UNCHANGED <<tensor, channel, count, current_offset, written, latest>>

-----------------------------------------------------------------------------
(* Numbers.  Bits of memory, read as one little-endian number from a byte on, *)
(* are counted from the least significant; a part is n of them from low on.   *)

\* Their places in the compressed tensor, the most significant first.
Part(byte, low, n) ==
  [k \in 1..n |->
     LET bit == low + n - k IN 8 * (byte + bit \div 8) + 7 - (bit % 8)]

\* A number is one part or two, one behind the other.
Two(low, n, low2, n2) == [low |-> low, n |-> n, low2 |-> low2, n2 |-> n2]
One(low, n) == Two(low, n, 0, 0)
Parts(byte, number) ==
  Part(byte, number.low, number.n) \o Part(byte, number.low2, number.n2)

Whole(lows, n) == [k \in DOMAIN lows |-> One(lows[k], n)]

Width3 == <<
  One(5, 3), One(2, 3), Two(0, 2, 15, 1), One(12, 3), One(9, 3),
  Two(8, 1, 22, 2), One(19, 3), One(16, 3)>>

Width5 == <<
  One(3, 5), Two(0, 3, 14, 2), One(9, 5), Two(8, 1, 20, 4),
  Two(16, 4, 31, 1), One(26, 5), Two(24, 2, 37, 3), One(32, 5)>>

Width6 == << One(2, 6), Two(0, 2, 12, 4), Two(8, 4, 22, 2), One(16, 6) >>

Width7 == <<
  One(1, 7), Two(0, 1, 10, 6), Two(8, 2, 19, 5), Two(16, 3, 28, 4),
  Two(24, 4, 37, 3), Two(32, 5, 46, 2), Two(40, 6, 55, 1), One(48, 7)>>

\* GetNextTableIndexWidth1 to GetNextTableIndexWidth7.
GetNextTableIndex(offset) ==
  LET In(table, bytes) ==
        Parts((offset \div Len(table)) * bytes, table[(offset % Len(table)) + 1])
  IN CASE compressed_bit_width = 1 -> Part(offset \div 8, 7 - (offset % 8), 1)
       [] compressed_bit_width = 2 -> Part(offset \div 4, 6 - 2 * (offset % 4), 2)
       [] compressed_bit_width = 3 -> In(Width3, 3)
       [] compressed_bit_width = 4 -> Part(offset \div 2, 4 - 4 * (offset % 2), 4)
       [] compressed_bit_width = 5 -> In(Width5, 5)
       [] compressed_bit_width = 6 -> In(Width6, 3)
       [] compressed_bit_width = 7 -> In(Width7, 7)

-----------------------------------------------------------------------------
(* Groups. *)

Grouped == int8 /\ compressed_bit_width \in {2, 3, 4} /\ ~use_alternate_axis
GroupSize == IF compressed_bit_width = 3 THEN 32 ELSE 16

\* Three words of 32 bits.
Group3 == <<
  One(5, 3), One(2, 3), Two(0, 2, 15, 1), One(12, 3), One(9, 3),
  Two(8, 1, 22, 2), One(19, 3), One(16, 3),
  One(29, 3), One(26, 3), Two(24, 2, 39, 1), One(36, 3), One(33, 3),
  Two(32, 1, 46, 2), One(43, 3), One(40, 3),
  One(53, 3), One(50, 3), Two(48, 2, 63, 1), One(60, 3), One(57, 3),
  Two(56, 1, 70, 2), One(67, 3), One(64, 3),
  One(77, 3), One(74, 3), Two(72, 2, 87, 1), One(84, 3), One(81, 3),
  Two(80, 1, 94, 2), One(91, 3), One(88, 3)>>

\* One word of 32 and one of 64 bits.
Group2 == Whole(<<6, 4, 2, 0, 14, 12, 10, 8, 22, 20, 18, 16, 30, 28, 26, 24>>, 2)
Group4 == Whole(<<4, 0, 12, 8, 20, 16, 28, 24, 36, 32, 44, 40, 52, 48, 60, 56>>, 4)

\* The numbers of a group, and the byte that it begins at.
Group == CASE compressed_bit_width = 2 -> Group2
           [] compressed_bit_width = 3 -> Group3
           [] compressed_bit_width = 4 -> Group4

GroupStart == CASE compressed_bit_width = 2 -> current_offset \div 4
                [] compressed_bit_width = 3 -> (current_offset \div 32) * 12
                [] compressed_bit_width = 4 -> current_offset \div 2

-----------------------------------------------------------------------------
(* The loops. *)

Value(bits) == <<channel * Stride, bits>>

Write(values) ==
  /\ latest' = values /\ written' = written + Len(latest)
  /\ count' = count - Len(values) /\ current_offset' = current_offset + Len(values)

\* Elements up to the next whole word have been read one by one.
AtGroup == current_offset % GroupSize = 0 /\ count >= GroupSize

DecodeElement ==
  /\ pc = "decoding" /\ ~use_alternate_axis /\ count > 0 /\ ~(Grouped /\ AtGroup)
  /\ Write(<<Value(GetNextTableIndex(current_offset))>>)
  /\ UNCHANGED <<pc, tensor, channel>>

DecodeGroup ==
  /\ pc = "decoding" /\ Grouped /\ AtGroup
  /\ Write([k \in 1..GroupSize |-> Value(Parts(GroupStart, Group[k]))])
  /\ UNCHANGED <<pc, tensor, channel>>

NextChannel ==
  /\ pc = "decoding" /\ ~use_alternate_axis /\ count = 0 /\ channel + 1 < num_channels
  /\ channel' = channel + 1 /\ count' = per_channel
  /\ latest' = <<>> /\ written' = written + Len(latest)
  /\ UNCHANGED <<pc, tensor, current_offset>>

\* One element of every channel in turn.
DecodeAcross ==
  /\ pc = "decoding" /\ use_alternate_axis /\ count > 0
  /\ Write([c \in 1..num_channels |->
              <<(c - 1) * Stride, GetNextTableIndex(current_offset + c - 1)>>])
  /\ UNCHANGED <<pc, tensor, channel>>

Next == Setup \/ RefuseSetup \/ DecodeElement \/ DecodeGroup \/ NextChannel \/ DecodeAcross

Spec == Init /\ [][Next]_vars /\ WF_vars(Next)

-----------------------------------------------------------------------------
(* Properties. *)

Total == num_channels * per_channel

\* The state has its types.
TypeOK ==
  /\ pc \in {"setup", "decoding", "refused"}
  /\ channel \in 0..num_channels - 1 /\ count \in 0..Total
  /\ current_offset \in 0..Total /\ written + Len(latest) \in 0..Total

\* What an element should be: the number in the next bits of the tensor, looked up in
\* the table of its channel, the first dimension of the tensor or the last.
Reference(k) ==
  << Stride * (IF use_alternate_axis THEN k % num_channels ELSE k \div per_channel),
     [i \in 1..compressed_bit_width |-> k * compressed_bit_width + i - 1] >>

\* Every element is decoded from its own bits with the table of its channel, whether
\* alone or in a group, wherever channels begin.
ElementsRight == \A k \in DOMAIN latest : latest[k] = Reference(written + k - 1)

\* The whole output is written, unless Setup has refused the tensor.
Complete == pc = "refused" \/ written + Len(latest) = Total
=============================================================================
