--------------------------- MODULE GreedyPlanner ---------------------------
(***************************************************************************)
(* GreedyMemoryPlanner: one step for each iteration of the loops of         *)
(* CalculateOffsetsIfNeeded.  Buffers are numbered from 1 in the order they *)
(* were added, positions in the sorted arrays and in the list start at 1,   *)
(* and 0 stands for a null entry.  The linked list of ListEntry, ordered by *)
(* offset, is the sequence of the buffers on it; an entry's offset is the   *)
(* offset of its buffer.                                                    *)
(***************************************************************************)
EXTENDS Integers, Sequences

CONSTANTS
  Requirements,  \* the buffers a client may ask for
  Capacities     \* how many buffers a scratch area has room for

kOnlinePlannedBuffer == -1

ASSUME PlannerAssumption ==
  /\ Requirements \subseteq
       [size: Nat, first_time_used: Int, last_time_used: Int,
        offline_offset: Nat \cup {kOnlinePlannedBuffer}]
  /\ Capacities \subseteq Nat

VARIABLES
  max_buffer_count_,
  requirements_,               \* the buffers added, in order
  need_to_calculate_offsets_,
  buffer_offsets_,             \* offset of each buffer
  buffer_ids_sorted_,          \* placement order: offline, then online by size
  list,                        \* buffers_sorted_by_offset_, from first_entry_index_
  pc,                          \* which loop is running, "idle" outside of them
  i,                           \* its index
  idx_from_head, idx_from_tail,
  any_swapped,
  candidate_offset,
  prior_entry, entry,          \* the active entry behind the gap, the one looked at
  guard_a,
  current_entry, guard_b

results == <<buffer_offsets_, buffer_ids_sorted_, list>>
loops == <<i, idx_from_head, idx_from_tail, any_swapped, candidate_offset,
           prior_entry, entry, guard_a, current_entry, guard_b>>
request == <<max_buffer_count_, requirements_>>
vars == <<request, need_to_calculate_offsets_, results, pc, loops>>

buffer_count_ == Len(requirements_)
Buffers == 1 .. buffer_count_

Size(b) == requirements_[b].size
Online(b) == requirements_[b].offline_offset = kOnlinePlannedBuffer
EndOf(b) == buffer_offsets_[b] + Size(b)

BugTouchingTimesApart(b, c) ==
  /\ requirements_[b].first_time_used < requirements_[c].last_time_used
  /\ requirements_[c].first_time_used < requirements_[b].last_time_used

\* DoesEntryOverlapInTime, of an entry for buffer b and the times of buffer c.
OverlapInTime(b, c) ==
  /\ requirements_[b].first_time_used <= requirements_[c].last_time_used
  /\ requirements_[c].first_time_used <= requirements_[b].last_time_used

wanted == buffer_ids_sorted_[i]

-----------------------------------------------------------------------------
(* The client's calls *)

Init ==
  /\ max_buffer_count_ \in Capacities
  /\ requirements_ = <<>> /\ need_to_calculate_offsets_ = TRUE
  /\ buffer_offsets_ = <<>> /\ buffer_ids_sorted_ = <<>> /\ list = <<>>
  /\ pc = "idle"
  /\ i = 0 /\ idx_from_head = 0 /\ idx_from_tail = 0 /\ any_swapped = FALSE
  /\ candidate_offset = 0 /\ prior_entry = 0 /\ entry = 0 /\ guard_a = 0
  /\ current_entry = 0 /\ guard_b = 0

\* Init(scratch_buffer, size): the planner starts over, for the next model, in
\* arrays carved anew out of its scratch memory.
StartOver ==
  /\ pc = "idle"
  /\ max_buffer_count_' \in Capacities
  /\ requirements_' = <<>>
  /\ need_to_calculate_offsets_' = TRUE
  /\ buffer_offsets_' = <<>> /\ buffer_ids_sorted_' = <<>> /\ list' = <<>>
  /\ UNCHANGED <<pc, loops>>

HasRoom == buffer_count_ < max_buffer_count_

AddBuffer(b) ==
  /\ pc = "idle"
  /\ HasRoom
  /\ requirements_' = Append(requirements_, b)
  /\ need_to_calculate_offsets_' = TRUE
  /\ UNCHANGED <<max_buffer_count_, results, pc, loops>>

\* GetOffsetForBuffer, GetMaximumMemorySize and the rest ask for the plan.
\* An online buffer's offset starts as -1, which is kOnlinePlannedBuffer.
Calculate ==
  /\ pc = "idle"
  /\ need_to_calculate_offsets_ /\ buffer_count_ # 0
  /\ need_to_calculate_offsets_' = FALSE
  /\ buffer_offsets_' = [b \in Buffers |-> requirements_[b].offline_offset]
  /\ buffer_ids_sorted_' = [k \in Buffers |-> 0]
  /\ list' = <<>>
  /\ idx_from_tail' = buffer_count_ /\ idx_from_head' = 0
  /\ i' = 1 /\ pc' = "split"
  /\ UNCHANGED <<request, any_swapped, candidate_offset, prior_entry, entry,
                 guard_a, current_entry, guard_b>>

-----------------------------------------------------------------------------
(* The order of placement *)

\* Offline buffers from the front in the order they were added, online ones
\* from the back.
SplitStep ==
  /\ pc = "split" /\ i <= buffer_count_
  /\ i' = i + 1
  /\ IF Online(i)
     THEN /\ buffer_ids_sorted_' = [buffer_ids_sorted_ EXCEPT ![idx_from_tail] = i]
          /\ idx_from_tail' = idx_from_tail - 1
          /\ UNCHANGED idx_from_head
     ELSE /\ buffer_ids_sorted_' = [buffer_ids_sorted_ EXCEPT ![idx_from_head + 1] = i]
          /\ idx_from_head' = idx_from_head + 1
          /\ UNCHANGED idx_from_tail
  /\ UNCHANGED <<request, need_to_calculate_offsets_, buffer_offsets_, list, pc,
                 any_swapped, candidate_offset, prior_entry, entry, guard_a,
                 current_entry, guard_b>>

BugPassFromThird ==
  /\ i' = idx_from_head + 3
  /\ any_swapped' = FALSE

StartPass ==
  /\ i' = idx_from_head + 2
  /\ any_swapped' = FALSE

SplitDone ==
  /\ pc = "split" /\ i > buffer_count_
  /\ pc' = "sort"
  /\ StartPass
  /\ UNCHANGED <<request, need_to_calculate_offsets_, results, idx_from_head,
                 idx_from_tail, candidate_offset, prior_entry, entry, guard_a,
                 current_entry, guard_b>>

BugEqualOutOfOrder(left, right) == Size(left) <= Size(right)

OutOfOrder(left, right) == Size(left) < Size(right)

\* ReverseSortInPlace, on the online part: one comparison of a bubble sort.
SortStep ==
  /\ pc = "sort" /\ i <= buffer_count_
  /\ i' = i + 1
  /\ LET left == buffer_ids_sorted_[i - 1]
         right == buffer_ids_sorted_[i]
     IN  IF OutOfOrder(left, right)
         THEN /\ buffer_ids_sorted_' =
                   [buffer_ids_sorted_ EXCEPT ![i - 1] = right, ![i] = left]
              /\ any_swapped' = TRUE
         ELSE UNCHANGED <<buffer_ids_sorted_, any_swapped>>
  /\ UNCHANGED <<request, need_to_calculate_offsets_, buffer_offsets_, list, pc,
                 idx_from_head, idx_from_tail, candidate_offset, prior_entry, entry,
                 guard_a, current_entry, guard_b>>

SortAgain ==
  /\ pc = "sort" /\ i > buffer_count_ /\ any_swapped
  /\ StartPass
  /\ UNCHANGED <<request, need_to_calculate_offsets_, results, pc, idx_from_head,
                 idx_from_tail, candidate_offset, prior_entry, entry, guard_a,
                 current_entry, guard_b>>

\* The first buffer makes the list; an online one goes to offset 0.
PlaceFirst ==
  /\ pc = "sort" /\ i > buffer_count_ /\ ~any_swapped
  /\ LET b == buffer_ids_sorted_[1]
     IN  /\ list' = <<b>>
         /\ buffer_offsets_' =
              IF Online(b) THEN [buffer_offsets_ EXCEPT ![b] = 0] ELSE buffer_offsets_
  /\ i' = 2 /\ pc' = "place"
  /\ UNCHANGED <<request, need_to_calculate_offsets_, buffer_ids_sorted_,
                 idx_from_head, idx_from_tail, any_swapped, candidate_offset,
                 prior_entry, entry, guard_a, current_entry, guard_b>>

-----------------------------------------------------------------------------
(* The placement of the other buffers, one at a time *)

\* The search for a gap starts at offset 0, in front of the list.
StartSearch ==
  candidate_offset' = 0 /\ prior_entry' = 0 /\ entry' = 1 /\ guard_a' = 1

PlaceOnline ==
  /\ pc = "place" /\ i <= buffer_count_ /\ Online(wanted)
  /\ StartSearch
  /\ pc' = "gap"
  /\ UNCHANGED <<request, need_to_calculate_offsets_, results, i, idx_from_head,
                 idx_from_tail, any_swapped, current_entry, guard_b>>

PlaceOffline ==
  /\ pc = "place" /\ i <= buffer_count_ /\ ~Online(wanted)
  /\ candidate_offset' = requirements_[wanted].offline_offset
  /\ pc' = "link"
  /\ UNCHANGED <<request, need_to_calculate_offsets_, results, i, idx_from_head,
                 idx_from_tail, any_swapped, prior_entry, entry, guard_a,
                 current_entry, guard_b>>

PlaceDone ==
  /\ pc = "place" /\ i > buffer_count_
  /\ pc' = "idle"
  /\ i' = 0 /\ idx_from_head' = 0 /\ idx_from_tail' = 0 /\ any_swapped' = FALSE
  /\ candidate_offset' = 0 /\ prior_entry' = 0 /\ entry' = 0 /\ guard_a' = 0
  /\ current_entry' = 0 /\ guard_b' = 0
  /\ UNCHANGED <<request, need_to_calculate_offsets_, results>>

\* NextSimultaneouslyActiveBuffer passes over an entry of another time.
SkipInactive ==
  /\ pc = "gap" /\ entry <= Len(list) /\ ~OverlapInTime(list[entry], wanted)
  /\ entry' = entry + 1
  /\ UNCHANGED <<request, need_to_calculate_offsets_, results, pc, i, idx_from_head,
                 idx_from_tail, any_swapped, candidate_offset, prior_entry, guard_a,
                 current_entry, guard_b>>

BugCandidateRewinds ==
  IF prior_entry # 0 THEN EndOf(list[prior_entry]) ELSE candidate_offset

\* The candidate once it has been moved past the entry behind the gap.
PastPrior ==
  IF prior_entry # 0 /\ EndOf(list[prior_entry]) > candidate_offset
  THEN EndOf(list[prior_entry])
  ELSE candidate_offset

BugExactGapTooSmall(gap) == gap > Size(wanted)

Fits(gap) == gap >= Size(wanted)

\* The next active entry ends the gap that starts at the candidate.
TryGap ==
  /\ pc = "gap" /\ entry <= Len(list) /\ OverlapInTime(list[entry], wanted)
  /\ candidate_offset' = PastPrior
  /\ IF Fits(buffer_offsets_[list[entry]] - candidate_offset')
     THEN /\ pc' = "link"
          /\ UNCHANGED <<prior_entry, entry, guard_a>>
     ELSE /\ prior_entry' = entry
          /\ entry' = entry + 1
          /\ guard_a' = guard_a + 1
          /\ pc' = IF guard_a' > buffer_count_ + 2 THEN "link" ELSE "gap"
  /\ UNCHANGED <<request, need_to_calculate_offsets_, results, i, idx_from_head,
                 idx_from_tail, any_swapped, current_entry, guard_b>>

\* No active entry is left: the buffer goes after the last one.
AfterLast ==
  /\ pc = "gap" /\ entry > Len(list)
  /\ candidate_offset' = PastPrior
  /\ pc' = "link"
  /\ UNCHANGED <<request, need_to_calculate_offsets_, results, i, idx_from_head,
                 idx_from_tail, any_swapped, prior_entry, entry, guard_a,
                 current_entry, guard_b>>

BugInsertBefore(s, k, e) ==
  [p \in 1 .. Len(s) + 1 |->
     IF p < k THEN s[p] ELSE IF p = k \/ p = 1 THEN e ELSE s[p - 1]]

InsertAfter(s, k, e) ==
  [p \in 1 .. Len(s) + 1 |-> IF p <= k THEN s[p] ELSE IF p = k + 1 THEN e ELSE s[p - 1]]

NextBuffer ==
  /\ i' = i + 1
  /\ pc' = "place"

\* The offset is settled; the entry becomes the first of the list, or the
\* walk to its place starts.
Link ==
  /\ pc = "link"
  /\ buffer_offsets_' = [buffer_offsets_ EXCEPT ![wanted] = candidate_offset]
  /\ IF buffer_offsets_[list[1]] > candidate_offset
     THEN /\ list' = InsertAfter(list, 0, wanted)
          /\ NextBuffer
          /\ UNCHANGED <<current_entry, guard_b>>
     ELSE /\ current_entry' = 1 /\ guard_b' = 1
          /\ pc' = "walk"
          /\ UNCHANGED <<list, i>>
  /\ UNCHANGED <<request, need_to_calculate_offsets_, buffer_ids_sorted_,
                 idx_from_head, idx_from_tail, any_swapped, candidate_offset,
                 prior_entry, entry, guard_a>>

\* The entry goes before the first one with a larger offset.
WalkInsert ==
  /\ pc = "walk"
  /\ \/ current_entry = Len(list)
     \/ /\ current_entry < Len(list)
        /\ buffer_offsets_[list[current_entry + 1]] > candidate_offset
  /\ list' = InsertAfter(list, current_entry, wanted)
  /\ NextBuffer
  /\ UNCHANGED <<request, need_to_calculate_offsets_, buffer_offsets_,
                 buffer_ids_sorted_, idx_from_head, idx_from_tail, any_swapped,
                 candidate_offset, prior_entry, entry, guard_a, current_entry, guard_b>>

\* The walk goes on.  Were the guard to fire, the entry would be left out of
\* the list.
WalkOn ==
  /\ pc = "walk" /\ current_entry < Len(list)
  /\ buffer_offsets_[list[current_entry + 1]] <= candidate_offset
  /\ current_entry' = current_entry + 1
  /\ guard_b' = guard_b + 1
  /\ IF guard_b' > buffer_count_ + 2 THEN NextBuffer ELSE UNCHANGED <<i, pc>>
  /\ UNCHANGED <<request, need_to_calculate_offsets_, results, idx_from_head,
                 idx_from_tail, any_swapped, candidate_offset, prior_entry, entry, guard_a>>

-----------------------------------------------------------------------------
Ordering == SplitStep \/ SplitDone \/ SortStep \/ SortAgain \/ PlaceFirst

Placement ==
  \/ PlaceOnline \/ PlaceOffline \/ PlaceDone \/ SkipInactive \/ TryGap \/ AfterLast
  \/ Link \/ WalkInsert \/ WalkOn

Next ==
  \/ StartOver
  \/ \E b \in Requirements : AddBuffer(b)
  \/ Calculate
  \/ Ordering
  \/ Placement

\* The loops run to their end without waiting for anybody.
Fairness == WF_vars(Ordering) /\ WF_vars(Placement)

Spec == Init /\ [][Next]_vars /\ Fairness
-----------------------------------------------------------------------------
(* What the client reads *)

Planned == pc = "idle" /\ ~need_to_calculate_offsets_

Listed == {list[p] : p \in 1 .. Len(list)}

\* GetMaximumMemorySizeDirect walks the list; its guard stops it after one entry
\* more than there are buffers.
EndsWalked ==
  {EndOf(list[p]) : p \in {q \in 1 .. Len(list) : q <= buffer_count_ + 1}}

BugEndOfLastEntry == EndOf(list[Len(list)])

GetMaximumMemorySize ==
  IF buffer_count_ = 0 THEN 0
  ELSE CHOOSE m \in EndsWalked \cup {0} : \A e \in EndsWalked \cup {0} : e <= m

-----------------------------------------------------------------------------
TypeOK ==
  /\ max_buffer_count_ \in Nat
  /\ requirements_ \in Seq(Requirements) /\ buffer_count_ <= max_buffer_count_
  /\ need_to_calculate_offsets_ \in BOOLEAN /\ any_swapped \in BOOLEAN
  /\ pc \in {"idle", "split", "sort", "place", "gap", "link", "walk"}
  /\ i \in Nat /\ idx_from_head \in Nat /\ idx_from_tail \in Nat
  /\ candidate_offset \in Nat
  /\ prior_entry \in Nat /\ entry \in Nat /\ current_entry \in Nat
  /\ guard_a \in Nat /\ guard_b \in Nat

Apart(b, c) == EndOf(b) <= buffer_offsets_[c] \/ EndOf(c) <= buffer_offsets_[b]

\* The promise of the planner, at every moment of the placement: two listed
\* buffers that are in use at the same time share no byte, unless both were
\* placed offline (CalculateOffsetsIfNeeded).
ListedApart ==
  \A b, c \in Listed :
    b # c /\ OverlapInTime(b, c) /\ (Online(b) \/ Online(c)) => Apart(b, c)

\* A finished plan has every buffer on the list, once, in the order of the
\* offsets: neither guard has dropped one.
PlanComplete ==
  Planned /\ buffer_count_ # 0 =>
    /\ Len(list) = buffer_count_ /\ Listed = Buffers
    /\ \A p, q \in 1 .. Len(list) :
         p < q => buffer_offsets_[list[p]] <= buffer_offsets_[list[q]]

\* Neither guard ever fires.
GuardsSilent ==
  /\ pc \in {"gap", "link"} => guard_a <= buffer_count_ + 2
  /\ pc = "walk" => guard_b <= buffer_count_ + 2

\* "The first gap between simultaneously active buffers that the current
\* buffer fits into will be used" (greedy_memory_planner.h:38): at any lower
\* offset the buffer would meet a listed buffer in use at the same time.
FirstFit ==
  pc \in {"link", "walk"} /\ Online(wanted) /\ Size(wanted) > 0 =>
    \A o \in 0 .. candidate_offset - 1 :
      \E b \in Listed : /\ OverlapInTime(b, wanted)
                        /\ o < EndOf(b) /\ buffer_offsets_[b] < o + Size(wanted)

\* Online buffers are placed in descending order of size.
LargestFirst ==
  pc \in {"place", "gap", "link", "walk"} =>
    \A k \in idx_from_head + 1 .. buffer_count_ - 1 :
      Size(buffer_ids_sorted_[k]) >= Size(buffer_ids_sorted_[k + 1])

\* The high-water mark is the smallest arena that holds the plan.
MaximumIsTight ==
  Planned /\ buffer_count_ # 0 =>
    /\ \A b \in Buffers : EndOf(b) <= GetMaximumMemorySize
    /\ \E b \in Buffers : EndOf(b) = GetMaximumMemorySize

\* Every calculation ends.
Terminates == pc # "idle" ~> pc = "idle"

-----------------------------------------------------------------------------
(* What these rest on, phase by phase *)

Placing == pc \in {"place", "gap", "link", "walk"}

\* The list has each of its buffers once, in the order of the offsets.
ListOrdered ==
  /\ list \in Seq(Buffers)
  /\ \A p \in 1 .. Len(list) :
       list[p] \in DOMAIN buffer_offsets_ /\ buffer_offsets_[list[p]] \in Nat
  /\ \A p, q \in 1 .. Len(list) :
       p < q => /\ list[p] # list[q]
                /\ buffer_offsets_[list[p]] <= buffer_offsets_[list[q]]

\* The arrays of a calculation that has begun.
Arrays ==
  ~need_to_calculate_offsets_ =>
    /\ buffer_count_ > 0
    /\ idx_from_head <= buffer_count_
    /\ buffer_ids_sorted_ \in [Buffers -> Nat]
    /\ buffer_offsets_ \in [Buffers -> Nat \cup {kOnlinePlannedBuffer}]
    /\ \A b \in Buffers : Online(b) \/ buffer_offsets_[b] = requirements_[b].offline_offset

\* The first i - 1 buffers have each a place at the front or at the back.
Filled == {k \in Buffers : k <= idx_from_head \/ k > idx_from_tail}

Splitting ==
  pc = "split" =>
    /\ i \in 1 .. buffer_count_ + 1 /\ idx_from_head <= i - 1
    /\ idx_from_tail = buffer_count_ - (i - 1) + idx_from_head
    /\ list = <<>>
    /\ \A k \in Filled :
         /\ buffer_ids_sorted_[k] \in 1 .. i - 1
         /\ Online(buffer_ids_sorted_[k]) <=> k > idx_from_head
         /\ \A l \in Filled : buffer_ids_sorted_[k] = buffer_ids_sorted_[l] => k = l
    /\ \A b \in 1 .. i - 1 : \E k \in Filled : buffer_ids_sorted_[k] = b

\* Every buffer has one place in the order, the offline ones in front.
PlacementOrder ==
  pc = "sort" \/ Placing =>
    /\ \A k \in Buffers :
         /\ buffer_ids_sorted_[k] \in Buffers
         /\ Online(buffer_ids_sorted_[k]) <=> k > idx_from_head
         /\ \A l \in Buffers : buffer_ids_sorted_[k] = buffer_ids_sorted_[l] => k = l
    /\ \A b \in Buffers : \E k \in Buffers : buffer_ids_sorted_[k] = b

\* A pass that has swapped nothing so far has seen descending sizes.
Sorting ==
  pc = "sort" =>
    /\ list = <<>>
    /\ i >= idx_from_head + 2
    /\ ~any_swapped =>
         \A k \in idx_from_head + 1 .. buffer_count_ - 1 :
           k + 1 < i => Size(buffer_ids_sorted_[k]) >= Size(buffer_ids_sorted_[k + 1])

\* The list has the buffers placed so far.
Listing ==
  /\ Placing =>
       /\ i \in 2 .. buffer_count_ + 1 /\ (pc # "place" => i <= buffer_count_)
       /\ Len(list) = i - 1
       /\ \A b \in Listed : \E k \in 1 .. i - 1 : buffer_ids_sorted_[k] = b
       /\ \A k \in 1 .. i - 1 : buffer_ids_sorted_[k] \in Listed
  /\ Planned => Len(list) = buffer_count_ /\ Buffers \subseteq Listed

\* The active entries passed by end at the candidate or are the prior entry.
Searching ==
  pc = "gap" =>
    /\ Online(wanted)
    /\ entry \in 1 .. Len(list) + 1 /\ guard_a <= entry
    /\ prior_entry # 0 =>
         /\ prior_entry < entry
         /\ OverlapInTime(list[prior_entry], wanted)
         /\ buffer_offsets_[list[prior_entry]] - candidate_offset < Size(wanted)
    /\ \A p \in 1 .. entry - 1 :
         p # prior_entry /\ OverlapInTime(list[p], wanted) =>
           EndOf(list[p]) <= candidate_offset

\* The buffer to be linked has room at the candidate.
Settled ==
  pc \in {"link", "walk"} =>
    IF Online(wanted)
    THEN \A b \in Listed :
           OverlapInTime(b, wanted) =>
             \/ EndOf(b) <= candidate_offset
             \/ candidate_offset + Size(wanted) <= buffer_offsets_[b]
    ELSE candidate_offset = requirements_[wanted].offline_offset

NoLowerFit ==
  pc \in {"gap", "link", "walk"} /\ Online(wanted) /\ Size(wanted) > 0 =>
    \A o \in 0 .. candidate_offset - 1 :
      \E b \in Listed : /\ OverlapInTime(b, wanted)
                        /\ o < EndOf(b) /\ buffer_offsets_[b] < o + Size(wanted)

Guards == IF pc = "idle" THEN guard_a = 0 ELSE guard_a <= buffer_count_ + 2

Walking ==
  pc = "walk" =>
    /\ buffer_offsets_[wanted] = candidate_offset
    /\ current_entry \in 1 .. Len(list) /\ guard_b = current_entry
    /\ \A p \in 1 .. current_entry : buffer_offsets_[list[p]] <= candidate_offset

IInv ==
  /\ TypeOK /\ (pc # "idle" => ~need_to_calculate_offsets_)
  /\ ListOrdered /\ ListedApart /\ Arrays /\ Splitting /\ PlacementOrder
  /\ Sorting /\ LargestFirst /\ Listing
  /\ Searching /\ Settled /\ NoLowerFit /\ Guards /\ Walking

-----------------------------------------------------------------------------
\* The planner keeps the planner interface's promise: whenever its offsets
\* are up to date they are a sound layout of all the buffers added so far.
Plan ==
  INSTANCE MemoryPlan WITH
    buffers <- requirements_,
    plan <- IF Planned THEN buffer_offsets_ ELSE <<kOnlinePlannedBuffer>>

KeepsPlan == Plan!Spec
=============================================================================
