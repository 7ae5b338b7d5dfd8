------------------------------ MODULE PruneDecode ------------------------------
(***************************************************************************)
(* The decoder for pruned tensors of the DECODE operator (kernels/          *)
(* decode_state_prune.cc): a bit for each element tells whether it has the  *)
(* next of the stored values or the zero point, which may differ between    *)
(* the channels of the tensor.                                              *)
(***************************************************************************)
EXTENDS Integers, FiniteSets

CONSTANTS
  MaxElements, MaxChannels,
  ZeroPoints,              \* that a channel may have, 0 among them
  PersistentMemory         \* the outcomes of an AllocatePersistentBuffer call

VARIABLES
  is_int8, quantized, per_channel, use_alternate_axis, zero_point,   \* the output
  indices,              \* the elements that have a value of their own
  pc,                   \* "setup", "decoding" or "refused"
  num_channels_, zero_points_, single_zero_point_,
  channel, count,       \* the loops' counters
  current_offset,       \* elements read
  value_table,          \* values taken
  latest                \* the last element written: [value, zero]

tensor == <<is_int8, quantized, per_channel, use_alternate_axis, zero_point, indices>>
setup == <<num_channels_, zero_points_, single_zero_point_>>
vars == <<tensor, pc, setup, channel, count, current_offset, value_table, latest>>

Channels == Cardinality(DOMAIN zero_point)
count_indices == Channels * per_channel

\* An element is one of the stored values, counted from 1, or a zero point.
Stored(n) == [value |-> n, zero |-> 0]
Zero(zp) == [value |-> 0, zero |-> zp]

Init ==
  /\ is_int8 \in BOOLEAN /\ quantized \in BOOLEAN
  /\ \E n \in (IF quantized THEN 1..MaxChannels ELSE {1}) :
       /\ zero_point \in [0..n - 1 -> IF quantized THEN ZeroPoints ELSE {0}]
       /\ per_channel \in 0..MaxElements \div n
       /\ use_alternate_axis \in (IF n > 1 THEN BOOLEAN ELSE {FALSE})
       /\ indices \in SUBSET (0..n * per_channel - 1)
  /\ pc = "setup"
  /\ num_channels_ = 1 /\ zero_points_ = <<>> /\ single_zero_point_ = 0
  /\ channel = 0 /\ count = 0 /\ current_offset = 0 /\ value_table = 0 /\ latest = Zero(0)

HasNonZero == \E c \in DOMAIN zero_point : zero_point[c] # 0

\* Zero points other than 0 are for int8 only; they are copied if there are several.
Setup ==
  /\ pc = "setup"
  /\ num_channels_' = Channels
  /\ \E memory \in PersistentMemory :
       LET copies == Channels > 1 /\ HasNonZero
           fails == (~is_int8 /\ HasNonZero) \/ (copies /\ ~memory)
       IN /\ pc' = IF fails THEN "refused" ELSE "decoding"
          /\ zero_points_' = IF copies /\ ~fails THEN zero_point ELSE <<>>
          /\ single_zero_point_' = IF fails \/ copies THEN 0 ELSE zero_point[0]
  /\ UNCHANGED <<tensor, channel, count, current_offset, value_table, latest>>

\* Setup knows one version, and checks it first.
RefuseVersion ==
  /\ pc = "setup" /\ pc' = "refused"
  /\ UNCHANGED <<tensor, setup, channel, count, current_offset, value_table, latest>>

\* The channels of a quantization are those of the first axis or, when there are more
\* than one, of the last; with another axis their number is all that is set.
RefuseAxis ==
  /\ pc = "setup" /\ quantized /\ pc' = "refused"
  /\ num_channels_' = Channels
  /\ UNCHANGED <<tensor, zero_points_, single_zero_point_, channel, count, current_offset,
                 value_table, latest>>

-----------------------------------------------------------------------------
(* Decode. *)

\* DecompressToBufferPerChannelInt8, otherwise DecompressToBuffer.
PerChannel == is_int8 /\ num_channels_ > 1 /\ zero_points_ # <<>>

ZeroPoint == IF PerChannel THEN zero_points_[channel] ELSE single_zero_point_

\* The loop over the channels is the inner one on the last axis, the outer one on the
\* first; the other loop counts what it has of each.
NextChannel ==
  IF ~PerChannel THEN UNCHANGED <<channel, count>>
  ELSE IF use_alternate_axis
  THEN IF channel + 1 = num_channels_ THEN channel' = 0 /\ count' = count + 1
       ELSE channel' = channel + 1 /\ UNCHANGED count
  ELSE IF count + 1 = per_channel THEN channel' = channel + 1 /\ count' = 0
       ELSE count' = count + 1 /\ UNCHANGED channel

Take(is_not_zp) ==
  /\ latest' = IF is_not_zp THEN Stored(value_table + 1) ELSE Zero(ZeroPoint)
  /\ value_table' = IF is_not_zp THEN value_table + 1 ELSE value_table

DecodeElement ==
  /\ pc = "decoding" /\ current_offset < count_indices
  /\ Take(current_offset \in indices)
  /\ NextChannel /\ current_offset' = current_offset + 1
  /\ UNCHANGED <<tensor, pc, setup>>

Next == Setup \/ RefuseVersion \/ RefuseAxis \/ DecodeElement

Spec == Init /\ [][Next]_vars

-----------------------------------------------------------------------------
(* Properties. *)

\* The state has its types; no value behind the stored ones is taken.
TypeOK ==
  /\ pc \in {"setup", "decoding", "refused"}
  /\ current_offset \in 0..count_indices /\ value_table \in 0..Cardinality(indices)
  /\ channel \in 0..num_channels_ /\ count \in 0..MaxElements

ChannelOf(k) == IF use_alternate_axis THEN k % Channels ELSE k \div per_channel

\* Element k has the stored value that belongs to it, or the zero point of its channel,
\* although the one decoder for all channels is used whenever it may be.
ElementsRight ==
  current_offset > 0 =>
    LET k == current_offset - 1 IN
    latest = IF k \in indices
             THEN Stored(Cardinality({j \in indices : j <= k}))
             ELSE Zero(zero_point[ChannelOf(k)])
=============================================================================
