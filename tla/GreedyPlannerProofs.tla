------------------------ MODULE GreedyPlannerProofs ------------------------
(***************************************************************************)
(* Proofs about GreedyPlanner for every list of requirements.  The          *)
(* inductive invariant follows the phases of the calculation: the order of  *)
(* placement is a permutation of the buffers, the list is sorted by offset, *)
(* and the candidate offset clears every active entry passed so far.        *)
(***************************************************************************)
EXTENDS GreedyPlanner, SequenceTheorems, WellFoundedInduction, TLAPS

Phases == {"idle", "split", "sort", "place", "gap", "link", "walk"}

\* What is known of one buffer.
LEMMA BufferFacts ==
  ASSUME TypeOK, NEW b \in Buffers
  PROVE  /\ requirements_[b] \in Requirements
         /\ Size(b) \in Nat
         /\ requirements_[b].first_time_used \in Int
         /\ requirements_[b].last_time_used \in Int
         /\ requirements_[b].offline_offset \in Nat \cup {kOnlinePlannedBuffer}
         /\ buffer_count_ \in Nat
<1>1. requirements_[b] \in Requirements /\ buffer_count_ \in Nat
  BY DEF TypeOK, Buffers, buffer_count_
<1> QED
  BY <1>1, PlannerAssumption DEF Size

\* Insertion makes a list one longer, in the same order around the new entry.
LEMMA InsertFacts ==
  ASSUME NEW S, NEW s \in Seq(S), NEW k \in 0 .. Len(s), NEW e \in S
  PROVE  /\ InsertAfter(s, k, e) \in Seq(S)
         /\ Len(InsertAfter(s, k, e)) = Len(s) + 1
         /\ \A p \in 1 .. Len(s) + 1 :
              /\ p <= k => InsertAfter(s, k, e)[p] = s[p]
              /\ p = k + 1 => InsertAfter(s, k, e)[p] = e
              /\ p > k + 1 => InsertAfter(s, k, e)[p] = s[p - 1]
<1>1. \A p \in 1 .. Len(s) : s[p] \in S
  OBVIOUS
<1>2. InsertAfter(s, k, e) \in [1 .. Len(s) + 1 -> S]
  BY <1>1 DEF InsertAfter
<1>3. InsertAfter(s, k, e) \in Seq(S) /\ Len(InsertAfter(s, k, e)) = Len(s) + 1
  <2> DEFINE t == InsertAfter(s, k, e)
  <2>1. t \in [1 .. Len(s) + 1 -> S] /\ Len(s) + 1 \in Nat
    BY <1>2
  <2> HIDE DEF t
  <2>2. t \in Seq(S) /\ Len(t) = Len(s) + 1
    BY <2>1
  <2> QED
    BY <2>2 DEF t
<1>4. \A p \in 1 .. Len(s) + 1 :
        /\ p <= k => InsertAfter(s, k, e)[p] = s[p]
        /\ p = k + 1 => InsertAfter(s, k, e)[p] = e
        /\ p > k + 1 => InsertAfter(s, k, e)[p] = s[p - 1]
  BY DEF InsertAfter
<1> QED
  BY <1>3, <1>4

LEMMA InitInvariant == Init => IInv
<1> SUFFICES ASSUME Init PROVE IInv
  OBVIOUS
<1>1. TypeOK
  <2>1. max_buffer_count_ \in Nat
    BY PlannerAssumption DEF Init
  <2>2. requirements_ \in Seq(Requirements) /\ buffer_count_ = 0
    BY EmptySeq DEF Init, buffer_count_
  <2>3. need_to_calculate_offsets_ \in BOOLEAN /\ any_swapped \in BOOLEAN
    BY DEF Init
  <2>4. /\ i \in Nat /\ idx_from_head \in Nat /\ idx_from_tail \in Nat
        /\ candidate_offset \in Nat /\ prior_entry \in Nat /\ entry \in Nat
        /\ current_entry \in Nat /\ guard_a \in Nat /\ guard_b \in Nat /\ pc = "idle"
    BY DEF Init
  <2>5. buffer_count_ <= max_buffer_count_
    BY <2>1, <2>2
  <2> QED
    BY <2>1, <2>2, <2>3, <2>4, <2>5 DEF TypeOK
<1>2. ListOrdered /\ ListedApart
  BY DEF Init, ListOrdered, ListedApart, Listed
<1>3. /\ Arrays /\ Splitting /\ PlacementOrder /\ Sorting /\ LargestFirst /\ Listing
      /\ Searching /\ Settled /\ NoLowerFit /\ Guards /\ Walking
  BY DEF Init, Arrays, Splitting, PlacementOrder, Sorting, LargestFirst, Listing,
         Searching, Settled, NoLowerFit, Guards, Walking, Placing, Planned
<1> QED
  BY <1>1, <1>2, <1>3 DEF IInv, Init

-----------------------------------------------------------------------------
(* One lemma for each action: the invariant survives it *)

\* The entries of the list are buffers with an offset.
LEMMA ListFacts ==
  ASSUME IInv
  PROVE  /\ buffer_count_ \in Nat /\ Len(list) \in Nat
         /\ \A p \in 1 .. Len(list) :
              /\ list[p] \in Buffers /\ list[p] \in Listed
              /\ buffer_offsets_[list[p]] \in Nat
              /\ EndOf(list[p]) \in Nat
              /\ EndOf(list[p]) = buffer_offsets_[list[p]] + Size(list[p])
         /\ Listed \subseteq Buffers
         /\ \A b \in Listed : buffer_offsets_[b] \in Nat /\ EndOf(b) \in Nat
<1>1. buffer_count_ \in Nat /\ Len(list) \in Nat
  BY DEF IInv, TypeOK, ListOrdered, buffer_count_
<1>2. \A p \in 1 .. Len(list) : list[p] \in Buffers /\ list[p] \in Listed
  BY DEF IInv, ListOrdered, Listed
<1>3. \A p \in 1 .. Len(list) : buffer_offsets_[list[p]] \in Nat
  BY DEF IInv, ListOrdered
<1>4. \A p \in 1 .. Len(list) : EndOf(list[p]) \in Nat
  BY <1>2, <1>3, BufferFacts DEF IInv, EndOf
<1> QED
  BY <1>1, <1>2, <1>3, <1>4 DEF Listed, EndOf

\* A step that touches neither the request nor the results keeps what is said
\* of them alone.
LEMMA ResultsKept ==
  ASSUME IInv, UNCHANGED <<request, need_to_calculate_offsets_, results>>,
         idx_from_head' = idx_from_head
  PROVE  /\ ListOrdered' /\ ListedApart' /\ Arrays'
         /\ buffer_count_' = buffer_count_ /\ Listed' = Listed /\ Buffers' = Buffers
         /\ \A b : Size(b)' = Size(b) /\ Online(b)' = Online(b) /\ EndOf(b)' = EndOf(b)
         /\ \A b, c : OverlapInTime(b, c)' = OverlapInTime(b, c)
<1> USE DEF request, results, IInv
<1>1. /\ buffer_count_' = buffer_count_ /\ Listed' = Listed /\ Buffers' = Buffers
      /\ \A b : Size(b)' = Size(b) /\ Online(b)' = Online(b) /\ EndOf(b)' = EndOf(b)
      /\ \A b, c : OverlapInTime(b, c)' = OverlapInTime(b, c)
  BY DEF buffer_count_, Listed, Buffers, Size, Online, EndOf, OverlapInTime
<1>2. ListOrdered'
  BY <1>1 DEF ListOrdered
<1>3. ListedApart'
  BY DEF ListedApart, Apart, Listed, Size, Online, EndOf, OverlapInTime
<1>4. Arrays'
  BY <1>1 DEF Arrays
<1> QED
  BY <1>1, <1>2, <1>3, <1>4

\* While a place is searched for one buffer, only the last part of the
\* invariant is at stake.
LEMMA SearchKept ==
  ASSUME IInv, Placing, pc' \in {"gap", "link", "walk"}, i <= buffer_count_,
         UNCHANGED <<request, need_to_calculate_offsets_, results, i, idx_from_head,
                     idx_from_tail, any_swapped>>
  PROVE  /\ ListOrdered' /\ ListedApart' /\ Arrays' /\ Splitting' /\ PlacementOrder'
         /\ Sorting' /\ LargestFirst' /\ Listing'
         /\ pc' # "idle" => ~need_to_calculate_offsets_'
         /\ wanted' = wanted /\ wanted \in Buffers /\ Len(list) < buffer_count_
         /\ buffer_count_' = buffer_count_ /\ Listed' = Listed
         /\ \A b : Size(b)' = Size(b) /\ Online(b)' = Online(b) /\ EndOf(b)' = EndOf(b)
         /\ \A b, c : OverlapInTime(b, c)' = OverlapInTime(b, c)
<1> USE DEF IInv
<1>1. /\ ListOrdered' /\ ListedApart' /\ Arrays'
      /\ buffer_count_' = buffer_count_ /\ Listed' = Listed /\ Buffers' = Buffers
      /\ \A b : Size(b)' = Size(b) /\ Online(b)' = Online(b) /\ EndOf(b)' = EndOf(b)
      /\ \A b, c : OverlapInTime(b, c)' = OverlapInTime(b, c)
  BY ResultsKept
<1>2. wanted' = wanted
  BY DEF wanted, results
<1>3. Splitting' /\ Sorting' /\ (pc' # "idle" => ~need_to_calculate_offsets_')
  BY DEF Splitting, Sorting, Placing
<1>4. PlacementOrder' /\ LargestFirst' /\ Listing'
  BY <1>1 DEF PlacementOrder, LargestFirst, Listing, Placing, Planned, results
<1>5. wanted \in Buffers /\ Len(list) < buffer_count_
  BY ListFacts, SMTT(60) DEF wanted, PlacementOrder, Listing, Placing, Buffers
<1> QED
  BY <1>1, <1>2, <1>3, <1>4, <1>5

LEMMA SkipInactiveStep ==
  ASSUME IInv, SkipInactive
  PROVE  IInv'
<1> USE DEF IInv
<1>1. /\ UNCHANGED <<request, need_to_calculate_offsets_, results, pc, i, idx_from_head,
                     idx_from_tail, any_swapped, candidate_offset, prior_entry, guard_a>>
      /\ pc = "gap" /\ entry' = entry + 1 /\ entry <= Len(list)
      /\ ~OverlapInTime(list[entry], wanted)
  BY DEF SkipInactive
<1>2. Placing /\ i <= buffer_count_
  BY <1>1 DEF Placing, Listing
<1>3. TypeOK'
  BY <1>1, <1>2, SearchKept DEF TypeOK, SkipInactive, request
<1>4. Walking' /\ Settled'
  BY <1>1 DEF Walking, Settled
<1>5. NoLowerFit' /\ Guards'
  BY <1>1, <1>2, SearchKept DEF NoLowerFit, Guards, results
<1>6. Searching'
  BY <1>1, <1>2, SearchKept, ListFacts DEF Searching, results, TypeOK
<1> QED
  BY <1>1, <1>2, <1>3, <1>4, <1>5, <1>6, SearchKept

LEMMA PlaceOnlineStep ==
  ASSUME IInv, PlaceOnline
  PROVE  IInv'
<1> USE DEF IInv
<1>1. /\ UNCHANGED <<request, need_to_calculate_offsets_, results, i, idx_from_head,
                     idx_from_tail, any_swapped, current_entry, guard_b>>
      /\ pc = "place" /\ pc' = "gap" /\ i <= buffer_count_ /\ Online(wanted)
      /\ candidate_offset' = 0 /\ prior_entry' = 0 /\ entry' = 1 /\ guard_a' = 1
  BY DEF PlaceOnline, StartSearch
<1>2. Placing
  BY <1>1 DEF Placing
<1>3. TypeOK'
  BY <1>1, <1>2, SearchKept DEF TypeOK, request
<1>4. Walking' /\ Settled' /\ NoLowerFit' /\ Guards'
  BY <1>1, <1>2, SearchKept, ListFacts DEF Walking, Settled, NoLowerFit, Guards
<1>5. Searching'
  BY <1>1, <1>2, SearchKept, ListFacts DEF Searching, results
<1> QED
  BY <1>1, <1>2, <1>3, <1>4, <1>5, SearchKept

LEMMA PlaceOfflineStep ==
  ASSUME IInv, PlaceOffline
  PROVE  IInv'
<1> USE DEF IInv
<1>1. /\ UNCHANGED <<request, need_to_calculate_offsets_, results, i, idx_from_head,
                     idx_from_tail, any_swapped, prior_entry, entry, guard_a,
                     current_entry, guard_b>>
      /\ pc = "place" /\ pc' = "link" /\ i <= buffer_count_ /\ ~Online(wanted)
      /\ candidate_offset' = requirements_[wanted].offline_offset
  BY DEF PlaceOffline
<1>2. Placing
  BY <1>1 DEF Placing
<1>3. candidate_offset' \in Nat
  BY <1>1, <1>2, SearchKept, BufferFacts DEF Online
<1>4. TypeOK'
  BY <1>1, <1>2, <1>3, SearchKept DEF TypeOK, request
<1>5. Walking' /\ Searching'
  BY <1>1 DEF Walking, Searching
<1>6. requirements_' = requirements_
  BY <1>1 DEF request
<1>7. Settled' /\ NoLowerFit' /\ Guards'
  BY <1>1, <1>2, <1>6, SearchKept DEF Settled, NoLowerFit, Guards
<1> QED
  BY <1>1, <1>2, <1>4, <1>5, <1>7, SearchKept

\* The buffer being placed: not on the list yet, and offline only if all the
\* buffers before it are.
LEMMA WantedFacts ==
  ASSUME IInv, pc \in {"gap", "link", "walk"}
  PROVE  /\ wanted \in Buffers /\ Size(wanted) \in Nat /\ wanted \notin Listed
         /\ ~Online(wanted) => \A b \in Listed : ~Online(b)
<1> USE DEF IInv
<1>1. /\ i \in 2 .. buffer_count_ /\ buffer_count_ \in Nat /\ Placing
      /\ \A b \in Listed : \E k \in 1 .. i - 1 : buffer_ids_sorted_[k] = b
  BY ListFacts DEF Listing, Placing
<1>2. wanted \in Buffers
  BY <1>1 DEF wanted, PlacementOrder, Buffers
<1>3. Size(wanted) \in Nat
  BY <1>2, BufferFacts
<1>4. wanted \notin Listed
  BY <1>1 DEF wanted, PlacementOrder, Buffers
<1>5. ASSUME ~Online(wanted), NEW b \in Listed PROVE ~Online(b)
  <2>1. PICK k \in 1 .. i - 1 : buffer_ids_sorted_[k] = b
    BY <1>1
  <2>2. i <= idx_from_head
    BY <1>1, <1>5 DEF wanted, PlacementOrder, Buffers, TypeOK
  <2>3. k \in Buffers /\ ~(k > idx_from_head)
    BY <1>1, <2>2 DEF Buffers, TypeOK
  <2> QED
    BY <1>1, <2>1, <2>3 DEF PlacementOrder
<1> QED
  BY <1>2, <1>3, <1>4, <1>5

\* The candidate behind the prior entry clears every active entry before the
\* one looked at, and nothing below it would have done.
LEMMA PastPriorFacts ==
  ASSUME IInv, pc = "gap"
  PROVE  /\ PastPrior \in Nat /\ candidate_offset <= PastPrior
         /\ \A p \in 1 .. entry - 1 :
              OverlapInTime(list[p], wanted) => EndOf(list[p]) <= PastPrior
         /\ Size(wanted) > 0 =>
              \A o \in 0 .. PastPrior - 1 :
                \E b \in Listed : /\ OverlapInTime(b, wanted)
                                  /\ o < EndOf(b)
                                  /\ buffer_offsets_[b] < o + Size(wanted)
<1> USE DEF IInv
<1>1. /\ entry \in 1 .. Len(list) + 1 /\ candidate_offset \in Nat /\ prior_entry \in Nat
      /\ prior_entry # 0 =>
           /\ prior_entry \in 1 .. Len(list)
           /\ OverlapInTime(list[prior_entry], wanted)
           /\ buffer_offsets_[list[prior_entry]] - candidate_offset < Size(wanted)
  BY ListFacts DEF Searching, TypeOK
<1>2. wanted \in Buffers /\ Size(wanted) \in Nat /\ Online(wanted)
  BY WantedFacts DEF Searching
<1>3. PastPrior \in Nat /\ candidate_offset <= PastPrior
  <2>1. prior_entry # 0 => EndOf(list[prior_entry]) \in Nat
    BY <1>1, ListFacts
  <2> QED
    BY <1>1, <2>1 DEF PastPrior
<1>4. \A p \in 1 .. entry - 1 :
        OverlapInTime(list[p], wanted) => EndOf(list[p]) <= PastPrior
  <2> SUFFICES ASSUME NEW p \in 1 .. entry - 1, OverlapInTime(list[p], wanted)
               PROVE  EndOf(list[p]) <= PastPrior
    OBVIOUS
  <2>1. EndOf(list[p]) \in Nat
    BY <1>1, ListFacts
  <2>2. CASE p = prior_entry
    BY <1>1, <2>1, <2>2 DEF PastPrior
  <2>3. CASE p # prior_entry
    BY <1>1, <1>3, <2>1, <2>3 DEF Searching
  <2> QED
    BY <2>2, <2>3
<1>5. ASSUME Size(wanted) > 0, NEW o \in 0 .. PastPrior - 1
      PROVE  \E b \in Listed : /\ OverlapInTime(b, wanted)
                               /\ o < EndOf(b)
                               /\ buffer_offsets_[b] < o + Size(wanted)
  <2>1. CASE o < candidate_offset
    BY <1>1, <1>2, <1>3, <1>5, <2>1 DEF NoLowerFit
  <2>2. CASE o >= candidate_offset
    <3>1. prior_entry # 0 /\ PastPrior = EndOf(list[prior_entry])
      BY <1>1, <1>3, <2>2 DEF PastPrior
    <3>2. /\ list[prior_entry] \in Listed
          /\ buffer_offsets_[list[prior_entry]] \in Nat
      BY <1>1, <3>1, ListFacts
    <3> QED
      BY <1>1, <1>2, <1>3, <2>2, <3>1, <3>2, SMTT(60)
  <2> QED
    BY <1>1, <2>1, <2>2
<1> QED
  BY <1>3, <1>4, <1>5

LEMMA TryGapStep ==
  ASSUME IInv, TryGap
  PROVE  IInv'
<1> USE DEF IInv
<1>1. /\ UNCHANGED <<request, need_to_calculate_offsets_, results, i, idx_from_head,
                     idx_from_tail, any_swapped, current_entry, guard_b>>
      /\ pc = "gap" /\ entry <= Len(list) /\ OverlapInTime(list[entry], wanted)
      /\ candidate_offset' = PastPrior
  BY DEF TryGap
<1>2. Placing /\ i <= buffer_count_
  BY <1>1 DEF Placing, Listing
<1>3. /\ entry \in 1 .. Len(list) /\ guard_a <= entry /\ guard_a \in Nat
      /\ Len(list) \in Nat /\ buffer_count_ \in Nat /\ Len(list) < buffer_count_
      /\ Online(wanted) /\ wanted \in Buffers /\ Size(wanted) \in Nat
  <2>1. /\ Len(list) \in Nat /\ buffer_count_ \in Nat /\ Len(list) < buffer_count_
    BY <1>1, <1>2, ListFacts DEF Listing
  <2>2. Online(wanted) /\ wanted \in Buffers /\ Size(wanted) \in Nat
    BY <1>1, WantedFacts DEF Searching
  <2> QED
    BY <1>1, <2>1, <2>2 DEF Searching, TypeOK
<1>4. \/ /\ pc' = "link" /\ UNCHANGED <<prior_entry, entry, guard_a>>
         /\ PastPrior + Size(wanted) <= buffer_offsets_[list[entry]]
      \/ /\ pc' = "gap" /\ prior_entry' = entry /\ entry' = entry + 1
         /\ guard_a' = guard_a + 1
         /\ buffer_offsets_[list[entry]] - PastPrior < Size(wanted)
  BY <1>1, <1>3, ListFacts, PastPriorFacts DEF TryGap, Fits
<1>5. TypeOK'
  BY <1>1, <1>2, <1>3, <1>4, PastPriorFacts, SearchKept, SMTT(60) DEF TypeOK, request
<1>6. Walking' /\ Guards'
  BY <1>1, <1>2, <1>3, <1>4, SearchKept DEF Walking, Guards
<1>7. NoLowerFit'
  <2>1. Size(wanted) > 0 =>
          \A o \in 0 .. PastPrior - 1 :
            \E b \in Listed : /\ OverlapInTime(b, wanted)
                              /\ o < EndOf(b)
                              /\ buffer_offsets_[b] < o + Size(wanted)
    BY <1>1, PastPriorFacts
  <2> QED
    BY <1>1, <1>2, <1>4, <2>1, SearchKept DEF NoLowerFit, results
<1>8. Searching'
  <2>1. CASE pc' = "gap"
    <3>1. \A p \in 1 .. entry :
            p # entry /\ OverlapInTime(list[p], wanted) => EndOf(list[p]) <= PastPrior
      BY <1>1, <1>3, PastPriorFacts
    <3>2. prior_entry' = entry /\ entry' = entry + 1 /\ guard_a' = guard_a + 1
      BY <1>4, <2>1
    <3> QED
      BY <1>1, <1>2, <1>3, <1>4, <2>1, <3>1, <3>2, SearchKept DEF Searching, results
  <2>2. CASE pc' # "gap"
    BY <2>2 DEF Searching
  <2> QED
    BY <2>1, <2>2
<1>9. Settled'
  <2>1. CASE pc' = "link"
    <3>1. PastPrior + Size(wanted) <= buffer_offsets_[list[entry]]
      BY <1>4, <2>1
    <3>2. ASSUME NEW b \in Listed, OverlapInTime(b, wanted)
          PROVE  \/ EndOf(b) <= PastPrior
                 \/ PastPrior + Size(wanted) <= buffer_offsets_[b]
      <4>1. PICK p \in 1 .. Len(list) : list[p] = b
        BY DEF Listed
      <4>2. CASE p < entry
        BY <1>1, <1>3, <3>2, <4>1, <4>2, PastPriorFacts
      <4>3. CASE p >= entry
        <5>1. buffer_offsets_[list[entry]] <= buffer_offsets_[list[p]]
          BY <1>3, <4>3, ListFacts DEF ListOrdered
        <5> QED
          BY <1>1, <1>3, <3>1, <4>1, <5>1, ListFacts, PastPriorFacts
      <4> QED
        BY <1>3, <4>2, <4>3
    <3> QED
      BY <1>1, <1>2, <1>3, <1>4, <3>2, SearchKept DEF Settled, results
  <2>2. CASE pc' = "gap"
    BY <2>2 DEF Settled
  <2> QED
    BY <1>4, <2>1, <2>2
<1> QED
  BY <1>1, <1>2, <1>4, <1>5, <1>6, <1>7, <1>8, <1>9, SearchKept

LEMMA AfterLastStep ==
  ASSUME IInv, AfterLast
  PROVE  IInv'
<1> USE DEF IInv
<1>1. /\ UNCHANGED <<request, need_to_calculate_offsets_, results, i, idx_from_head,
                     idx_from_tail, any_swapped, prior_entry, entry, guard_a,
                     current_entry, guard_b>>
      /\ pc = "gap" /\ pc' = "link" /\ entry > Len(list)
      /\ candidate_offset' = PastPrior
  BY DEF AfterLast
<1>2. Placing /\ i <= buffer_count_
  BY <1>1 DEF Placing, Listing
<1>3. entry = Len(list) + 1 /\ Len(list) \in Nat /\ Online(wanted)
  BY <1>1, ListFacts DEF Searching
<1>4. TypeOK'
  BY <1>1, <1>2, PastPriorFacts, SearchKept DEF TypeOK, request
<1>5. Walking' /\ Searching' /\ Guards'
  BY <1>1, <1>2, SearchKept DEF Walking, Searching, Guards
<1>6. NoLowerFit'
  <2>1. Size(wanted) > 0 =>
          \A o \in 0 .. PastPrior - 1 :
            \E b \in Listed : /\ OverlapInTime(b, wanted)
                              /\ o < EndOf(b)
                              /\ buffer_offsets_[b] < o + Size(wanted)
    BY <1>1, PastPriorFacts
  <2> QED
    BY <1>1, <1>2, <2>1, SearchKept DEF NoLowerFit, results
<1>7. Settled'
  <2>1. \A b \in Listed : OverlapInTime(b, wanted) => EndOf(b) <= PastPrior
    BY <1>1, <1>3, PastPriorFacts DEF Listed
  <2> QED
    BY <1>1, <1>2, <1>3, <2>1, SearchKept DEF Settled, results
<1> QED
  BY <1>1, <1>2, <1>4, <1>5, <1>6, <1>7, SearchKept

\* The list with the wanted buffer after its k-th entry.
LEMMA InsertedFacts ==
  ASSUME NEW k \in 0 .. Len(list), wanted \in Buffers, list \in Seq(Buffers),
         list' = InsertAfter(list, k, wanted)
  PROVE  /\ list' \in Seq(Buffers) /\ Len(list') = Len(list) + 1
         /\ \A p \in 1 .. Len(list) + 1 :
              /\ p <= k => list'[p] = list[p]
              /\ p = k + 1 => list'[p] = wanted
              /\ p > k + 1 => list'[p] = list[p - 1]
<1>1. InsertAfter(list, k, wanted) \in Seq(Buffers)
  BY InsertFacts
<1>2. Len(InsertAfter(list, k, wanted)) = Len(list) + 1
  BY InsertFacts
<1>3. \A p \in 1 .. Len(list) + 1 :
        /\ p <= k => InsertAfter(list, k, wanted)[p] = list[p]
        /\ p = k + 1 => InsertAfter(list, k, wanted)[p] = wanted
        /\ p > k + 1 => InsertAfter(list, k, wanted)[p] = list[p - 1]
  BY DEF InsertAfter
<1> QED
  BY <1>1, <1>2, <1>3

\* An entry inserted between the entries at or before the candidate and those
\* behind it.
LEMMA InsertStep ==
  ASSUME IInv, pc \in {"link", "walk"}, pc' = "place", i' = i + 1,
         NEW k \in 0 .. Len(list), list' = InsertAfter(list, k, wanted),
         \A p \in 1 .. k : buffer_offsets_[list[p]] <= candidate_offset,
         \A p \in k + 1 .. Len(list) : buffer_offsets_[list[p]] >= candidate_offset,
         buffer_offsets_' = [buffer_offsets_ EXCEPT ![wanted] = candidate_offset],
         UNCHANGED <<request, need_to_calculate_offsets_, buffer_ids_sorted_,
                     idx_from_head, idx_from_tail, any_swapped, candidate_offset,
                     prior_entry, entry, guard_a>>,
         current_entry' \in Nat, guard_b' \in Nat
  PROVE  IInv'
<1> USE DEF IInv
<1>1. /\ Placing /\ i \in 2 .. buffer_count_ /\ Len(list) = i - 1
      /\ buffer_count_ \in Nat /\ ~need_to_calculate_offsets_ /\ candidate_offset \in Nat
  BY ListFacts DEF Listing, Placing, TypeOK
<1>2. /\ wanted \in Buffers /\ Size(wanted) \in Nat /\ wanted \notin Listed
      /\ ~Online(wanted) => \A b \in Listed : ~Online(b)
  BY WantedFacts
<1>3. /\ buffer_count_' = buffer_count_ /\ Buffers' = Buffers
      /\ \A b : Size(b)' = Size(b) /\ Online(b)' = Online(b)
      /\ \A b, c : OverlapInTime(b, c)' = OverlapInTime(b, c)
  BY DEF request, buffer_count_, Buffers, Size, Online, OverlapInTime
<1>4. /\ list \in Seq(Buffers)
      /\ list' \in Seq(Buffers) /\ Len(list') = Len(list) + 1
      /\ \A p \in 1 .. Len(list) + 1 :
           /\ p <= k => list'[p] = list[p]
           /\ p = k + 1 => list'[p] = wanted
           /\ p > k + 1 => list'[p] = list[p - 1]
  <2>1. list \in Seq(Buffers)
    BY DEF ListOrdered
  <2> QED
    BY <1>2, <2>1, InsertedFacts
<1>5. buffer_offsets_ \in [Buffers -> Nat \cup {kOnlinePlannedBuffer}]
  BY <1>1 DEF Arrays
<1>6. /\ buffer_offsets_' \in [Buffers -> Nat \cup {kOnlinePlannedBuffer}]
      /\ buffer_offsets_'[wanted] = candidate_offset
      /\ \A b \in Buffers : b # wanted => buffer_offsets_'[b] = buffer_offsets_[b]
  BY <1>1, <1>2, <1>5
<1>7. Listed' = Listed \cup {wanted}
  <2>1. \A p \in 1 .. Len(list) : list[p] \in Listed'
    <3> SUFFICES ASSUME NEW p \in 1 .. Len(list) PROVE list[p] \in Listed'
      OBVIOUS
    <3>1. \E q \in 1 .. Len(list) + 1 : list'[q] = list[p]
      <4>1. CASE p <= k
        BY <1>1, <1>4, <4>1
      <4>2. CASE p > k
        <5>1. p + 1 \in 1 .. Len(list) + 1 /\ p + 1 > k + 1 /\ (p + 1) - 1 = p
          BY <1>1, <4>2
        <5> QED
          BY <1>4, <5>1
      <4> QED
        BY <1>1, <4>1, <4>2
    <3> QED
      BY <1>4, <3>1 DEF Listed
  <2>2. wanted \in Listed'
    <3>1. k + 1 \in 1 .. Len(list) + 1
      BY <1>1
    <3> QED
      BY <1>4, <3>1 DEF Listed
  <2>3. \A q \in 1 .. Len(list) + 1 : list'[q] \in Listed \cup {wanted}
    BY <1>1, <1>4 DEF Listed
  <2> QED
    BY <1>4, <2>1, <2>2, <2>3, ZenonT(60) DEF Listed
<1>8. \A b \in Listed : /\ b \in Buffers /\ b # wanted
                        /\ buffer_offsets_'[b] = buffer_offsets_[b]
                        /\ buffer_offsets_'[b] \in Nat
                        /\ EndOf(b)' = EndOf(b)
  BY <1>2, <1>3, <1>6, ListFacts DEF EndOf
<1>9. ListOrdered'
  <2>1. \A p \in 1 .. Len(list) : list[p] \in Listed
    BY DEF Listed
  <2>2. \A p \in 1 .. Len(list') :
          list'[p] \in DOMAIN buffer_offsets_' /\ buffer_offsets_'[list'[p]] \in Nat
    <3>1. \A p \in 1 .. Len(list') : list'[p] \in Listed'
      BY DEF Listed
    <3>2. \A b \in Listed' : b \in Buffers /\ buffer_offsets_'[b] \in Nat
      BY <1>1, <1>2, <1>6, <1>7, <1>8
    <3> QED
      BY <1>6, <3>1, <3>2
  <2>3. ASSUME NEW p \in 1 .. Len(list'), NEW q \in 1 .. Len(list'), p < q
        PROVE  list'[p] # list'[q] /\ buffer_offsets_'[list'[p]] <= buffer_offsets_'[list'[q]]
    <3>1. CASE p <= k /\ q <= k
      <4>1. /\ p \in 1 .. Len(list) /\ q \in 1 .. Len(list)
            /\ list'[p] = list[p] /\ list'[q] = list[q]
        BY <1>1, <1>4, <3>1
      <4> QED
        BY <1>8, <2>1, <2>3, <4>1 DEF ListOrdered
    <3>2. CASE p <= k /\ q = k + 1
      <4>1. /\ p \in 1 .. k /\ p \in 1 .. Len(list)
            /\ list'[p] = list[p] /\ list'[q] = wanted
        BY <1>1, <1>4, <3>2
      <4>2. list[p] \in Listed
        BY <2>1, <4>1
      <4> QED
        BY <1>1, <1>6, <1>8, <4>1, <4>2
    <3>3. CASE p <= k /\ q > k + 1
      <4>1. /\ q - 1 \in 1 .. Len(list) /\ p \in 1 .. Len(list) /\ p < q - 1
            /\ list'[p] = list[p] /\ list'[q] = list[q - 1]
        BY <1>1, <1>4, <3>3
      <4> QED
        BY <1>8, <2>1, <4>1 DEF ListOrdered
    <3>4. CASE p = k + 1
      <4>1. /\ q - 1 \in k + 1 .. Len(list)
            /\ list'[p] = wanted /\ list'[q] = list[q - 1]
        BY <1>1, <1>4, <2>3, <3>4
      <4>2. q - 1 \in 1 .. Len(list) /\ list[q - 1] \in Listed
        BY <1>1, <4>1, <2>1
      <4> QED
        BY <1>1, <1>2, <1>6, <1>8, <4>1, <4>2
    <3>5. CASE p > k + 1
      <4>1. /\ q - 1 \in 1 .. Len(list) /\ p - 1 \in 1 .. Len(list) /\ p - 1 < q - 1
            /\ list'[p] = list[p - 1] /\ list'[q] = list[q - 1]
        BY <1>1, <1>4, <2>3, <3>5
      <4> QED
        BY <1>8, <2>1, <4>1 DEF ListOrdered
    <3> QED
      BY <1>1, <1>4, <2>3, <3>1, <3>2, <3>3, <3>4, <3>5
  <2> QED
    BY <1>3, <1>4, <2>2, <2>3 DEF ListOrdered
<1>10. ListedApart'
  <2>1. PICK w \in Buffers : w = wanted
    BY <1>2
  <2>2. EndOf(w)' = candidate_offset + Size(w) /\ Size(w) \in Nat
    BY <1>2, <1>3, <1>6, <2>1 DEF EndOf
  <2>3. ASSUME NEW b \in Listed, OverlapInTime(b, w), Online(w) \/ Online(b)
        PROVE  Apart(b, w)' /\ Apart(w, b)'
    <3>1. \/ EndOf(b) <= candidate_offset
          \/ candidate_offset + Size(w) <= buffer_offsets_[b]
      BY <1>2, <2>1, <2>3 DEF Settled
    <3> QED
      BY <1>6, <1>8, <2>1, <2>2, <3>1 DEF Apart
  <2>4. \A b \in Listed : OverlapInTime(w, b) <=> OverlapInTime(b, w)
    BY DEF OverlapInTime
  <2>5. ASSUME NEW b \in Listed, NEW c \in Listed, b # c,
               OverlapInTime(b, c), Online(b) \/ Online(c)
        PROVE  Apart(b, c)'
    BY <1>3, <1>8, <2>5 DEF ListedApart, Apart
  <2>6. \A b, c \in Listed \cup {w} :
          b # c /\ OverlapInTime(b, c) /\ (Online(b) \/ Online(c)) => Apart(b, c)'
    BY <2>3, <2>4, <2>5
  <2> QED
    BY <1>3, <1>7, <2>1, <2>6 DEF ListedApart
<1>11. Arrays'
  <2>1. \A b \in Buffers : Online(b) \/ buffer_offsets_'[b] = requirements_[b].offline_offset
    BY <1>1, <1>2, <1>6 DEF Arrays, Settled
  <2>2. requirements_' = requirements_ /\ UNCHANGED buffer_ids_sorted_
    BY DEF request
  <2> QED
    BY <1>1, <1>3, <1>6, <2>1, <2>2 DEF Arrays
<1>12. Listing'
  <2>1. buffer_ids_sorted_[i] = wanted
    BY DEF wanted
  <2>2. \A b \in Listed : \E j \in 1 .. i - 1 : buffer_ids_sorted_[j] = b
    BY <1>1 DEF Listing
  <2>3. \A b \in Listed' : \E j \in 1 .. i : buffer_ids_sorted_[j] = b
    BY <1>1, <1>7, <2>1, <2>2
  <2>4. \A j \in 1 .. i : buffer_ids_sorted_[j] \in Listed'
    BY <1>1, <1>7, <2>1 DEF Listing
  <2> QED
    BY <1>1, <1>3, <1>4, <2>3, <2>4 DEF Listing, Planned
<1>13. PlacementOrder' /\ LargestFirst'
  BY <1>1, <1>3 DEF PlacementOrder, LargestFirst, Placing
<1>14. TypeOK'
  BY <1>1, <1>3 DEF TypeOK, request
<1>15. /\ Splitting' /\ Sorting' /\ Searching' /\ Settled' /\ NoLowerFit' /\ Walking'
       /\ (pc' # "idle" => ~need_to_calculate_offsets_')
  BY <1>1 DEF Splitting, Sorting, Searching, Settled, NoLowerFit, Walking
<1>16. Guards'
  BY <1>1, <1>3 DEF Guards
<1> QED
  BY <1>9, <1>10, <1>11, <1>12, <1>13, <1>14, <1>15, <1>16

LEMMA LinkStep ==
  ASSUME IInv, Link
  PROVE  IInv'
<1> USE DEF IInv
<1>1. /\ UNCHANGED <<request, need_to_calculate_offsets_, buffer_ids_sorted_,
                     idx_from_head, idx_from_tail, any_swapped, candidate_offset,
                     prior_entry, entry, guard_a>>
      /\ pc = "link"
      /\ buffer_offsets_' = [buffer_offsets_ EXCEPT ![wanted] = candidate_offset]
  BY DEF Link
<1>2. /\ Placing /\ i \in 2 .. buffer_count_ /\ Len(list) = i - 1
      /\ buffer_count_ \in Nat /\ candidate_offset \in Nat
  BY <1>1, ListFacts DEF Listing, Placing, TypeOK
<1>3. CASE buffer_offsets_[list[1]] > candidate_offset
  <2>1. \A p \in 1 .. Len(list) : buffer_offsets_[list[p]] >= candidate_offset
    <3> SUFFICES ASSUME NEW p \in 1 .. Len(list)
                 PROVE  buffer_offsets_[list[p]] >= candidate_offset
      OBVIOUS
    <3>1. buffer_offsets_[list[1]] <= buffer_offsets_[list[p]]
      BY <1>2, ListFacts DEF ListOrdered
    <3> QED
      BY <1>2, <1>3, <3>1, ListFacts
  <2>2. /\ list' = InsertAfter(list, 0, wanted) /\ i' = i + 1 /\ pc' = "place"
        /\ current_entry' \in Nat /\ guard_b' \in Nat
    BY <1>3 DEF Link, NextBuffer, TypeOK
  <2> QED
    BY <1>1, <1>2, <2>1, <2>2, InsertStep
<1>4. CASE ~(buffer_offsets_[list[1]] > candidate_offset)
  <2>1. current_entry' = 1 /\ guard_b' = 1 /\ pc' = "walk" /\ UNCHANGED <<list, i>>
    BY <1>4 DEF Link
  <2>2. /\ wanted \in Buffers /\ wanted \notin Listed
        /\ wanted' = wanted
    BY <1>1, <2>1, WantedFacts DEF wanted
  <2>3. /\ buffer_count_' = buffer_count_ /\ Buffers' = Buffers /\ Listed' = Listed
        /\ \A b : Size(b)' = Size(b) /\ Online(b)' = Online(b)
        /\ \A b, c : OverlapInTime(b, c)' = OverlapInTime(b, c)
    BY <1>1, <2>1 DEF request, buffer_count_, Buffers, Listed, Size, Online, OverlapInTime
  <2>4. buffer_offsets_ \in [Buffers -> Nat \cup {kOnlinePlannedBuffer}]
    BY <1>1 DEF Arrays
  <2>5. /\ buffer_offsets_' \in [Buffers -> Nat \cup {kOnlinePlannedBuffer}]
        /\ buffer_offsets_'[wanted] = candidate_offset
        /\ \A b \in Buffers : b # wanted => buffer_offsets_'[b] = buffer_offsets_[b]
    BY <1>1, <1>2, <2>2, <2>4
  <2>6. \A b \in Listed : /\ b \in Buffers /\ buffer_offsets_'[b] = buffer_offsets_[b]
                          /\ EndOf(b)' = EndOf(b)
    BY <2>2, <2>3, <2>5, ListFacts DEF EndOf
  <2>7. \A p \in 1 .. Len(list) : list[p] \in Listed
    BY DEF Listed
  <2>8. ListOrdered'
    BY <2>1, <2>3, <2>4, <2>5, <2>6, <2>7 DEF ListOrdered
  <2>9. ListedApart'
    BY <2>3, <2>6 DEF ListedApart, Apart
  <2>10. Arrays'
    BY <1>1, <1>2, <2>2, <2>3, <2>5 DEF Arrays, request, Settled
  <2>11. Settled'
    <3>1. PICK w \in Buffers : w = wanted
      BY <2>2
    <3>2. w = wanted'
      BY <2>2, <3>1
    <3>3. requirements_' = requirements_
      BY <1>1 DEF request
    <3> QED
      BY <1>1, <2>1, <2>3, <2>6, <3>1, <3>2, <3>3 DEF Settled
  <2>12. NoLowerFit'
    <3>1. PICK w \in Buffers : w = wanted
      BY <2>2
    <3>2. w = wanted'
      BY <2>2, <3>1
    <3> QED
      BY <1>1, <2>1, <2>3, <2>6, <3>1, <3>2 DEF NoLowerFit
  <2>13. PlacementOrder' /\ LargestFirst' /\ Listing'
    BY <1>1, <1>2, <2>1, <2>3 DEF PlacementOrder, LargestFirst, Listing, Placing, Planned
  <2>14. /\ Splitting' /\ Sorting' /\ Searching'
         /\ (pc' # "idle" => ~need_to_calculate_offsets_')
    BY <1>1, <2>1 DEF Splitting, Sorting, Searching
  <2>15. Guards' /\ TypeOK'
    BY <1>1, <2>1, <2>3 DEF Guards, TypeOK, request
  <2>16. Walking'
    <3>1. Len(list) >= 1 /\ list[1] \in Listed
      BY <1>2, <2>7
    <3>2. buffer_offsets_'[list[1]] <= candidate_offset
      BY <1>2, <1>4, <2>6, <3>1, ListFacts
    <3> QED
      BY <1>1, <1>2, <2>1, <2>2, <2>5, <3>1, <3>2 DEF Walking
  <2> QED
    BY <2>8, <2>9, <2>10, <2>11, <2>12, <2>13, <2>14, <2>15, <2>16
<1> QED
  BY <1>3, <1>4

LEMMA WalkInsertStep ==
  ASSUME IInv, WalkInsert
  PROVE  IInv'
<1> USE DEF IInv
<1>1. /\ UNCHANGED <<request, need_to_calculate_offsets_, buffer_offsets_,
                     buffer_ids_sorted_, idx_from_head, idx_from_tail, any_swapped,
                     candidate_offset, prior_entry, entry, guard_a, current_entry, guard_b>>
      /\ pc = "walk" /\ i' = i + 1 /\ pc' = "place"
      /\ list' = InsertAfter(list, current_entry, wanted)
      /\ \/ current_entry = Len(list)
         \/ /\ current_entry < Len(list)
            /\ buffer_offsets_[list[current_entry + 1]] > candidate_offset
  BY DEF WalkInsert, NextBuffer
<1>2. /\ current_entry \in 1 .. Len(list) /\ Len(list) \in Nat /\ candidate_offset \in Nat
      /\ buffer_offsets_[wanted] = candidate_offset
      /\ \A p \in 1 .. current_entry : buffer_offsets_[list[p]] <= candidate_offset
  BY <1>1, ListFacts DEF Walking, TypeOK
<1>3. \A p \in current_entry + 1 .. Len(list) : buffer_offsets_[list[p]] >= candidate_offset
  <2> SUFFICES ASSUME NEW p \in current_entry + 1 .. Len(list)
               PROVE  buffer_offsets_[list[p]] >= candidate_offset
    OBVIOUS
  <2>1. /\ current_entry + 1 \in 1 .. Len(list) /\ p \in 1 .. Len(list)
        /\ buffer_offsets_[list[current_entry + 1]] > candidate_offset
    BY <1>1, <1>2
  <2>2. buffer_offsets_[list[current_entry + 1]] <= buffer_offsets_[list[p]]
    BY <1>2, <2>1, ListFacts DEF ListOrdered
  <2> QED
    BY <1>2, <2>1, <2>2, ListFacts, SMTT(60)
<1>4. buffer_offsets_' = [buffer_offsets_ EXCEPT ![wanted] = candidate_offset]
  <2>1. buffer_offsets_ \in [Buffers -> Nat \cup {kOnlinePlannedBuffer}]
    BY <1>1 DEF Arrays
  <2> QED
    BY <1>1, <1>2, <2>1
<1>5. current_entry' \in Nat /\ guard_b' \in Nat
  BY <1>1 DEF TypeOK
<1>6. current_entry \in 0 .. Len(list)
  BY <1>2
<1> QED
  BY <1>1, <1>2, <1>3, <1>4, <1>5, <1>6, InsertStep

LEMMA WalkOnStep ==
  ASSUME IInv, WalkOn
  PROVE  IInv'
<1> USE DEF IInv
<1>1. /\ UNCHANGED <<request, need_to_calculate_offsets_, results, idx_from_head,
                     idx_from_tail, any_swapped, candidate_offset, prior_entry, entry, guard_a>>
      /\ pc = "walk" /\ current_entry < Len(list)
      /\ buffer_offsets_[list[current_entry + 1]] <= candidate_offset
      /\ current_entry' = current_entry + 1 /\ guard_b' = guard_b + 1
  BY DEF WalkOn
<1>2. /\ Placing /\ i \in 2 .. buffer_count_ /\ Len(list) = i - 1
      /\ buffer_count_ \in Nat /\ guard_b = current_entry
      /\ current_entry \in 1 .. Len(list)
      /\ \A p \in 1 .. current_entry : buffer_offsets_[list[p]] <= candidate_offset
  BY <1>1, ListFacts DEF Listing, Placing, Walking
<1>3. UNCHANGED <<i, pc>>
  BY <1>1, <1>2 DEF WalkOn
<1>4. TypeOK'
  BY <1>1, <1>2, <1>3, SearchKept DEF TypeOK, request
<1>5. Searching' /\ Guards' /\ NoLowerFit'
  BY <1>1, <1>2, <1>3, SearchKept DEF Searching, Guards, NoLowerFit, results
<1>6. Settled'
  <2>1. requirements_' = requirements_
    BY <1>1 DEF request
  <2> QED
    BY <1>1, <1>2, <1>3, <2>1, SearchKept DEF Settled, results
<1>7. Walking'
  <2>1. \A p \in 1 .. current_entry + 1 : buffer_offsets_[list[p]] <= candidate_offset
    BY <1>1, <1>2
  <2> QED
    BY <1>1, <1>2, <1>3, <2>1, SearchKept DEF Walking, results
<1> QED
  BY <1>1, <1>2, <1>3, <1>4, <1>5, <1>6, <1>7, SearchKept

LEMMA PlaceDoneStep ==
  ASSUME IInv, PlaceDone
  PROVE  IInv'
<1> USE DEF IInv
<1>1. /\ UNCHANGED <<request, need_to_calculate_offsets_, results>>
      /\ pc = "place" /\ pc' = "idle" /\ i > buffer_count_
      /\ i' = 0 /\ idx_from_head' = 0 /\ idx_from_tail' = 0 /\ any_swapped' = FALSE
      /\ candidate_offset' = 0 /\ prior_entry' = 0 /\ entry' = 0 /\ guard_a' = 0
      /\ current_entry' = 0 /\ guard_b' = 0
  BY DEF PlaceDone
<1>2. /\ i = buffer_count_ + 1 /\ Len(list) = buffer_count_ /\ buffer_count_ \in Nat
      /\ \A k \in Buffers : buffer_ids_sorted_[k] \in Listed
  <2>1. buffer_count_ \in Nat
    BY ListFacts
  <2>2. i \in 2 .. buffer_count_ + 1 /\ Len(list) = i - 1
    BY <1>1 DEF Listing, Placing
  <2>3. i = buffer_count_ + 1
    BY <1>1, <2>1, <2>2
  <2> QED
    BY <1>1, <2>1, <2>2, <2>3 DEF Listing, Placing, Buffers
<1>3. Buffers \subseteq Listed
  BY <1>1, <1>2 DEF PlacementOrder, Placing
<1>4. /\ buffer_count_' = buffer_count_ /\ Buffers' = Buffers /\ Listed' = Listed
      /\ \A b : Size(b)' = Size(b) /\ Online(b)' = Online(b) /\ EndOf(b)' = EndOf(b)
      /\ \A b, c : OverlapInTime(b, c)' = OverlapInTime(b, c)
  BY <1>1 DEF request, results, buffer_count_, Buffers, Listed, Size, Online, EndOf,
              OverlapInTime
<1>5. ListOrdered'
  BY <1>1, <1>4 DEF results, ListOrdered
<1>6. ListedApart'
  BY <1>1, <1>4 DEF results, ListedApart, Apart
<1>7. Arrays'
  BY <1>1, <1>2, <1>4 DEF results, request, Arrays
<1>8. Listing'
  BY <1>1, <1>2, <1>3, <1>4 DEF results, Listing, Placing, Planned
<1>9. TypeOK'
  BY <1>1, <1>4 DEF TypeOK, request
<1>10. /\ Splitting' /\ PlacementOrder' /\ Sorting' /\ LargestFirst'
       /\ Searching' /\ Settled' /\ NoLowerFit' /\ Guards' /\ Walking'
  BY <1>1 DEF Splitting, PlacementOrder, Sorting, LargestFirst, Searching, Settled,
              NoLowerFit, Guards, Walking, Placing
<1> QED
  BY <1>1, <1>5, <1>6, <1>7, <1>8, <1>9, <1>10

\* While the order of placement is made the list is empty, and nothing about
\* the placement is at stake.
LEMMA OrderingKept ==
  ASSUME IInv, pc \in {"split", "sort"}, pc' \in {"split", "sort"},
         UNCHANGED <<request, need_to_calculate_offsets_, buffer_offsets_, list,
                     candidate_offset, prior_entry, entry, guard_a, current_entry, guard_b>>
  PROVE  /\ ListOrdered' /\ ListedApart' /\ LargestFirst' /\ Listing' /\ Searching'
         /\ Settled' /\ NoLowerFit' /\ Guards' /\ Walking'
         /\ (pc' # "idle" => ~need_to_calculate_offsets_')
         /\ ~need_to_calculate_offsets_ /\ buffer_count_ \in Nat \ {0}
         /\ list = <<>>
         /\ buffer_count_' = buffer_count_ /\ Buffers' = Buffers
         /\ requirements_' = requirements_
         /\ \A b : Size(b)' = Size(b) /\ Online(b)' = Online(b)
<1> USE DEF IInv
<1>1. /\ buffer_count_' = buffer_count_ /\ Buffers' = Buffers
      /\ requirements_' = requirements_
      /\ \A b : Size(b)' = Size(b) /\ Online(b)' = Online(b)
  BY DEF request, buffer_count_, Buffers, Size, Online
<1>2. ~need_to_calculate_offsets_ /\ buffer_count_ \in Nat \ {0} /\ list = <<>>
  BY ListFacts DEF Arrays, Splitting, Sorting
<1>3. ListOrdered'
  BY <1>1 DEF ListOrdered
<1>4. ListedApart'
  BY <1>2, EmptySeq DEF ListedApart, Listed
<1>5. /\ LargestFirst' /\ Listing' /\ Searching' /\ Settled' /\ NoLowerFit' /\ Walking'
      /\ (pc' # "idle" => ~need_to_calculate_offsets_')
  BY <1>2 DEF LargestFirst, Listing, Searching, Settled, NoLowerFit, Walking, Placing, Planned
<1>6. Guards'
  BY <1>1 DEF Guards
<1> QED
  BY <1>1, <1>2, <1>3, <1>4, <1>5, <1>6

LEMMA SplitStepStep ==
  ASSUME IInv, SplitStep
  PROVE  IInv'
<1> USE DEF IInv
<1>1. /\ UNCHANGED <<request, need_to_calculate_offsets_, buffer_offsets_, list, pc,
                     any_swapped, candidate_offset, prior_entry, entry, guard_a,
                     current_entry, guard_b>>
      /\ pc = "split" /\ i <= buffer_count_ /\ i' = i + 1
  BY DEF SplitStep
<1>2. /\ i \in 1 .. buffer_count_ /\ buffer_count_ \in Nat \ {0}
      /\ idx_from_head \in Nat /\ idx_from_tail \in Nat /\ idx_from_head <= i - 1
      /\ idx_from_tail = buffer_count_ - (i - 1) + idx_from_head
      /\ buffer_ids_sorted_ \in [Buffers -> Nat]
  BY <1>1, OrderingKept DEF Splitting, TypeOK, Arrays
<1>3. /\ idx_from_tail \in Buffers /\ idx_from_head + 1 \in Buffers
      /\ idx_from_head + 1 <= idx_from_tail
  BY <1>2 DEF Buffers
<1>4. PICK at \in Buffers :
        /\ buffer_ids_sorted_' = [buffer_ids_sorted_ EXCEPT ![at] = i]
        /\ Online(i) => /\ at = idx_from_tail /\ idx_from_tail' = idx_from_tail - 1
                        /\ idx_from_head' = idx_from_head
        /\ ~Online(i) => /\ at = idx_from_head + 1 /\ idx_from_head' = idx_from_head + 1
                         /\ idx_from_tail' = idx_from_tail
  BY <1>3 DEF SplitStep
<1>5. /\ idx_from_head' \in Nat /\ idx_from_tail' \in Nat /\ idx_from_head' <= i
      /\ idx_from_tail' = buffer_count_ - i + idx_from_head'
  <2>1. CASE Online(i)
    BY <1>2, <1>4, <2>1
  <2>2. CASE ~Online(i)
    BY <1>2, <1>4, <2>2
  <2> QED
    BY <2>1, <2>2
<1>6. /\ buffer_ids_sorted_' \in [Buffers -> Nat]
      /\ buffer_ids_sorted_'[at] = i
      /\ \A k \in Buffers : k # at => buffer_ids_sorted_'[k] = buffer_ids_sorted_[k]
  BY <1>2, <1>4
<1>7. at \notin Filled /\ Filled' = Filled \cup {at} /\ at \in Filled'
  <2>1. Filled' = {k \in Buffers : k <= idx_from_head' \/ k > idx_from_tail'}
    BY <1>1, OrderingKept DEF Filled
  <2>2. CASE Online(i)
    <3>1. \A k \in Buffers : k > idx_from_tail - 1 <=> k > idx_from_tail \/ k = at
      BY <1>2, <1>4, <2>2 DEF Buffers
    <3> QED
      BY <1>2, <1>4, <2>1, <2>2, <3>1 DEF Filled
  <2>3. CASE ~Online(i)
    <3>1. \A k \in Buffers : k <= idx_from_head + 1 <=> k <= idx_from_head \/ k = at
      BY <1>2, <1>4, <2>3 DEF Buffers
    <3>2. at \notin Filled
      BY <1>2, <1>3, <1>4, <2>3 DEF Filled
    <3>3. Filled' = {k \in Buffers : k <= idx_from_head + 1 \/ k > idx_from_tail}
      BY <1>4, <2>1, <2>3
    <3>4. Filled' = {k \in Buffers : k <= idx_from_head \/ k = at \/ k > idx_from_tail}
      BY <3>1, <3>3
    <3> QED
      BY <3>2, <3>4 DEF Filled
  <2> QED
    BY <2>2, <2>3
<1>8. Splitting'
  <2>1. \A k \in Filled :
          /\ buffer_ids_sorted_[k] \in 1 .. i - 1
          /\ Online(buffer_ids_sorted_[k]) <=> k > idx_from_head
          /\ \A l \in Filled : buffer_ids_sorted_[k] = buffer_ids_sorted_[l] => k = l
    BY <1>1 DEF Splitting
  <2>2. \A k \in Filled : k \in Buffers /\ k # at /\ buffer_ids_sorted_'[k] = buffer_ids_sorted_[k]
    BY <1>6, <1>7 DEF Filled
  <2>3. \A k \in Filled' : buffer_ids_sorted_'[k] \in 1 .. i
    BY <1>2, <1>6, <1>7, <2>1, <2>2
  <2>4. ASSUME NEW k \in Filled', NEW l \in Filled',
               buffer_ids_sorted_'[k] = buffer_ids_sorted_'[l]
        PROVE  k = l
    BY <1>2, <1>6, <1>7, <2>1, <2>2, <2>4
  <2>5. \A k \in Filled' : Online(buffer_ids_sorted_'[k]) <=> k > idx_from_head'
    <3>1. \A k \in Filled : k > idx_from_head <=> k > idx_from_head'
      <4>1. CASE Online(i)
        BY <1>4, <4>1
      <4>2. CASE ~Online(i)
        BY <1>2, <1>4, <1>7, <4>2, <2>2 DEF Buffers
      <4> QED
        BY <4>1, <4>2
    <3>2. Online(i) <=> at > idx_from_head'
      BY <1>2, <1>4
    <3> QED
      BY <1>6, <1>7, <2>1, <2>2, <3>1, <3>2
  <2>6. \A b \in 1 .. i : \E k \in Filled' : buffer_ids_sorted_'[k] = b
    <3>1. \A b \in 1 .. i - 1 : \E k \in Filled : buffer_ids_sorted_[k] = b
      BY <1>1 DEF Splitting
    <3> SUFFICES ASSUME NEW b \in 1 .. i PROVE \E k \in Filled' : buffer_ids_sorted_'[k] = b
      OBVIOUS
    <3>2. CASE b = i
      BY <1>6, <1>7, <3>2
    <3>3. CASE b # i
      BY <1>2, <1>7, <2>2, <3>1, <3>3
    <3> QED
      BY <3>2, <3>3
  <2>7. \A b : Online(b)' = Online(b)
    BY <1>1, OrderingKept
  <2>8. \A k : Online(buffer_ids_sorted_[k])' <=> Online(buffer_ids_sorted_'[k])
    BY <1>1 DEF Online, request
  <2>9. /\ pc' = "split" /\ list' = <<>> /\ i' - 1 = i /\ i' \in 1 .. buffer_count_ + 1
        /\ buffer_count_' = buffer_count_
    BY <1>1, <1>2, OrderingKept
  <2> QED
    BY <1>5, <2>3, <2>4, <2>5, <2>6, <2>8, <2>9 DEF Splitting
<1>9. Arrays'
  BY <1>1, <1>2, <1>5, <1>6, OrderingKept DEF Arrays
<1>10. TypeOK'
  <2>1. buffer_count_' = buffer_count_ /\ i' \in Nat
    BY <1>1, <1>2, OrderingKept
  <2> QED
    BY <1>1, <1>5, <2>1 DEF TypeOK, request
<1>11. PlacementOrder' /\ Sorting'
  BY <1>1 DEF PlacementOrder, Sorting, Placing
<1> QED
  BY <1>1, <1>8, <1>9, <1>10, <1>11, OrderingKept

LEMMA SplitDoneStep ==
  ASSUME IInv, SplitDone
  PROVE  IInv'
<1> USE DEF IInv
<1>1. /\ UNCHANGED <<request, need_to_calculate_offsets_, results, idx_from_head,
                     idx_from_tail, candidate_offset, prior_entry, entry, guard_a,
                     current_entry, guard_b>>
      /\ UNCHANGED <<buffer_offsets_, buffer_ids_sorted_, list>>
      /\ pc = "split" /\ i > buffer_count_ /\ pc' = "sort"
      /\ i' = idx_from_head + 2 /\ any_swapped' = FALSE
  BY DEF SplitDone, StartPass, results
<1>2. /\ i = buffer_count_ + 1 /\ buffer_count_ \in Nat \ {0}
      /\ idx_from_head \in Nat /\ idx_from_head <= buffer_count_
      /\ idx_from_tail = idx_from_head
  BY <1>1, OrderingKept DEF Splitting, TypeOK
<1>3. Filled = Buffers
  BY <1>2 DEF Filled, Buffers
<1>4. PlacementOrder'
  <2>1. \A k : Online(buffer_ids_sorted_[k])' <=> Online(buffer_ids_sorted_[k])
    BY <1>1 DEF Online, request
  <2>2. \A k \in Buffers :
          /\ buffer_ids_sorted_[k] \in Buffers
          /\ Online(buffer_ids_sorted_[k]) <=> k > idx_from_head
          /\ \A l \in Buffers : buffer_ids_sorted_[k] = buffer_ids_sorted_[l] => k = l
    BY <1>1, <1>2, <1>3, SMTT(60) DEF Splitting, Buffers
  <2>3. \A b \in Buffers : \E k \in Buffers : buffer_ids_sorted_[k] = b
    BY <1>1, <1>2, <1>3 DEF Splitting, Buffers
  <2> QED
    BY <1>1, <2>1, <2>2, <2>3, OrderingKept DEF PlacementOrder
<1>5. Sorting'
  BY <1>1, <1>2, OrderingKept DEF Sorting
<1>6. Arrays' /\ Splitting'
  BY <1>1, <1>2, OrderingKept DEF Arrays, Splitting
<1>7. TypeOK'
  <2>1. buffer_count_' = buffer_count_ /\ i' \in Nat
    BY <1>1, <1>2, OrderingKept
  <2> QED
    BY <1>1, <2>1 DEF TypeOK, request
<1> QED
  BY <1>1, <1>4, <1>5, <1>6, <1>7, OrderingKept

LEMMA SortStepStep ==
  ASSUME IInv, SortStep
  PROVE  IInv'
<1> USE DEF IInv
<1> DEFINE ids == buffer_ids_sorted_
<1>1. /\ UNCHANGED <<request, need_to_calculate_offsets_, buffer_offsets_, list, pc,
                     idx_from_head, idx_from_tail, candidate_offset, prior_entry, entry,
                     guard_a, current_entry, guard_b>>
      /\ pc = "sort" /\ i <= buffer_count_ /\ i' = i + 1
  BY DEF SortStep
<1>2. /\ buffer_count_ \in Nat \ {0} /\ idx_from_head \in Nat
      /\ i - 1 \in Buffers /\ i \in Buffers /\ i - 1 > idx_from_head /\ i > idx_from_head
      /\ ids \in [Buffers -> Nat]
  BY <1>1, OrderingKept DEF Sorting, TypeOK, Arrays, Buffers
<1>3. /\ \A k \in Buffers : ids[k] \in Buffers /\ (Online(ids[k]) <=> k > idx_from_head)
      /\ \A k, l \in Buffers : ids[k] = ids[l] => k = l
      /\ \A b \in Buffers : \E k \in Buffers : ids[k] = b
  BY <1>1 DEF PlacementOrder
<1>4. \A b : Size(b)' = Size(b) /\ Online(b)' = Online(b)
  BY <1>1, OrderingKept
<1>5. CASE ~OutOfOrder(ids[i - 1], ids[i])
  <2>1. UNCHANGED <<buffer_ids_sorted_, any_swapped>>
    BY <1>5 DEF SortStep
  <2>2. PlacementOrder'
    <3>1. \A k : Online(buffer_ids_sorted_[k])' <=> Online(buffer_ids_sorted_[k])
      BY <1>1, <2>1 DEF Online, request
    <3> QED
      BY <1>1, <1>3, <2>1, <3>1, OrderingKept DEF PlacementOrder
  <2>3. Sorting'
    <3>1. Size(ids[i - 1]) >= Size(ids[i])
      BY <1>2, <1>3, <1>5, BufferFacts DEF OutOfOrder
    <3>2. \A k : Size(buffer_ids_sorted_[k])' = Size(buffer_ids_sorted_[k])
      BY <1>1, <2>1 DEF Size, request
    <3>3. ~any_swapped =>
            \A k \in idx_from_head + 1 .. buffer_count_ - 1 :
              k + 1 < i + 1 => Size(ids[k]) >= Size(ids[k + 1])
      <4> SUFFICES ASSUME ~any_swapped, NEW k \in idx_from_head + 1 .. buffer_count_ - 1,
                          k + 1 < i + 1
                   PROVE  Size(ids[k]) >= Size(ids[k + 1])
        OBVIOUS
      <4>1. CASE k = i - 1
        BY <1>1, <1>2, <3>1, <4>1 DEF Buffers
      <4>2. CASE k # i - 1
        BY <1>1, <1>2, <4>2 DEF Sorting, Buffers
      <4> QED
        BY <4>1, <4>2
    <3>4. /\ pc' = "sort" /\ list' = <<>> /\ i' >= idx_from_head' + 2
      BY <1>1, <1>2, OrderingKept DEF Sorting, Buffers
    <3> HIDE DEF ids
    <3>5. buffer_count_' = buffer_count_ /\ any_swapped' = any_swapped
      BY <1>1, <2>1, OrderingKept
    <3> QED
      BY <1>1, <3>2, <3>3, <3>4, <3>5 DEF Sorting, ids
  <2>4. Arrays' /\ Splitting'
    BY <1>1, <2>1, OrderingKept DEF Arrays, Splitting
  <2>5. TypeOK'
    <3>1. buffer_count_' = buffer_count_ /\ i' \in Nat
      BY <1>1, <1>2, OrderingKept DEF Buffers
    <3> QED
      BY <1>1, <2>1, <3>1 DEF TypeOK, request
  <2> QED
    BY <1>1, <2>2, <2>3, <2>4, <2>5, OrderingKept
<1>6. CASE OutOfOrder(ids[i - 1], ids[i])
  <2>1. /\ buffer_ids_sorted_' = [ids EXCEPT ![i - 1] = ids[i], ![i] = ids[i - 1]]
        /\ any_swapped' = TRUE
    BY <1>6 DEF SortStep
  <2>2. /\ ids' \in [Buffers -> Nat]
        /\ ids'[i - 1] = ids[i] /\ ids'[i] = ids[i - 1]
        /\ \A k \in Buffers : k # i /\ k # i - 1 => ids'[k] = ids[k]
    BY <1>2, <2>1 DEF Buffers
  <2>3. PlacementOrder'
    <3>1. \A k : Online(buffer_ids_sorted_[k])' <=> Online(buffer_ids_sorted_'[k])
      BY <1>1 DEF Online, request
    <3>2. \A k \in Buffers : ids'[k] \in Buffers /\ (Online(ids'[k]) <=> k > idx_from_head)
      BY <1>2, <1>3, <2>2
    <3>3. \A k, l \in Buffers : ids'[k] = ids'[l] => k = l
      BY <1>2, <1>3, <2>2
    <3>4. \A b \in Buffers : \E k \in Buffers : ids'[k] = b
      <4> SUFFICES ASSUME NEW b \in Buffers PROVE \E k \in Buffers : ids'[k] = b
        OBVIOUS
      <4>1. PICK k \in Buffers : ids[k] = b
        BY <1>3
      <4> QED
        BY <1>2, <2>2, <4>1
    <3> QED
      BY <1>1, <3>1, <3>2, <3>3, <3>4, OrderingKept DEF PlacementOrder
  <2>4. Sorting'
    BY <1>1, <1>2, <2>1, OrderingKept DEF Sorting, Buffers
  <2>5. Arrays' /\ Splitting'
    BY <1>1, <2>2, OrderingKept DEF Arrays, Splitting
  <2>6. TypeOK'
    <3>1. buffer_count_' = buffer_count_ /\ i' \in Nat
      BY <1>1, <1>2, OrderingKept DEF Buffers
    <3> QED
      BY <1>1, <2>1, <3>1 DEF TypeOK, request
  <2> QED
    BY <1>1, <2>3, <2>4, <2>5, <2>6, OrderingKept
<1> QED
  BY <1>5, <1>6

LEMMA SortAgainStep ==
  ASSUME IInv, SortAgain
  PROVE  IInv'
<1> USE DEF IInv
<1>1. /\ UNCHANGED <<request, need_to_calculate_offsets_, pc, idx_from_head,
                     idx_from_tail, candidate_offset, prior_entry, entry, guard_a,
                     current_entry, guard_b>>
      /\ UNCHANGED <<buffer_offsets_, buffer_ids_sorted_, list>>
      /\ pc = "sort" /\ i' = idx_from_head + 2 /\ any_swapped' = FALSE
  BY DEF SortAgain, StartPass, results
<1>2. idx_from_head \in Nat /\ buffer_count_ \in Nat
  BY <1>1, OrderingKept DEF TypeOK
<1>3. PlacementOrder'
  <2>1. \A k : Online(buffer_ids_sorted_[k])' <=> Online(buffer_ids_sorted_[k])
    BY <1>1 DEF Online, request
  <2> QED
    BY <1>1, <2>1, OrderingKept DEF PlacementOrder
<1>4. Sorting'
  BY <1>1, <1>2, OrderingKept DEF Sorting
<1>5. Arrays' /\ Splitting'
  BY <1>1, OrderingKept DEF Arrays, Splitting
<1>6. TypeOK'
  <2>1. buffer_count_' = buffer_count_ /\ i' \in Nat
    BY <1>1, <1>2, OrderingKept
  <2> QED
    BY <1>1, <2>1 DEF TypeOK, request
<1> QED
  BY <1>1, <1>3, <1>4, <1>5, <1>6, OrderingKept

LEMMA PlaceFirstStep ==
  ASSUME IInv, PlaceFirst
  PROVE  IInv'
<1> USE DEF IInv
<1>1. /\ UNCHANGED <<request, need_to_calculate_offsets_, buffer_ids_sorted_,
                     idx_from_head, idx_from_tail, any_swapped, candidate_offset,
                     prior_entry, entry, guard_a, current_entry, guard_b>>
      /\ pc = "sort" /\ i > buffer_count_ /\ ~any_swapped
      /\ i' = 2 /\ pc' = "place" /\ list' = <<buffer_ids_sorted_[1]>>
  BY DEF PlaceFirst
<1>2. /\ buffer_count_ \in Nat \ {0} /\ ~need_to_calculate_offsets_ /\ 1 \in Buffers
      /\ buffer_offsets_ \in [Buffers -> Nat \cup {kOnlinePlannedBuffer}]
      /\ \A b \in Buffers : Online(b) \/ buffer_offsets_[b] = requirements_[b].offline_offset
  BY <1>1, ListFacts DEF Arrays, Buffers
<1>3. PICK b \in Buffers : b = buffer_ids_sorted_[1]
  BY <1>1, <1>2 DEF PlacementOrder
<1>4. requirements_[b].offline_offset \in Nat \cup {kOnlinePlannedBuffer}
  BY BufferFacts
<1>5. /\ buffer_offsets_' \in [Buffers -> Nat \cup {kOnlinePlannedBuffer}]
      /\ buffer_offsets_'[b] \in Nat
      /\ \A c \in Buffers : Online(c) \/ buffer_offsets_'[c] = requirements_[c].offline_offset
  <2>1. CASE Online(b)
    BY <1>2, <1>3, <2>1 DEF PlaceFirst
  <2>2. CASE ~Online(b)
    BY <1>2, <1>3, <1>4, <2>2 DEF PlaceFirst, Online
  <2> QED
    BY <2>1, <2>2
<1>6. /\ buffer_count_' = buffer_count_ /\ Buffers' = Buffers
      /\ \A c : Size(c)' = Size(c) /\ Online(c)' = Online(c)
  BY <1>1 DEF request, buffer_count_, Buffers, Size, Online
<1>7. /\ list' \in Seq(Buffers) /\ Len(list') = 1 /\ list'[1] = b
  BY <1>1, <1>3
<1>8. Listed' = {b}
  BY <1>7 DEF Listed
<1>9. ListOrdered'
  BY <1>5, <1>6, <1>7 DEF ListOrdered
<1>10. ListedApart'
  BY <1>8 DEF ListedApart
<1>11. Arrays'
  BY <1>1, <1>2, <1>5, <1>6 DEF Arrays, request
<1>12. Listing'
  BY <1>1, <1>2, <1>3, <1>6, <1>7, <1>8 DEF Listing, Planned
<1>13. PlacementOrder'
  <2>1. \A k : Online(buffer_ids_sorted_[k])' <=> Online(buffer_ids_sorted_[k])
    BY <1>1 DEF Online, request
  <2> QED
    BY <1>1, <1>6, <2>1 DEF PlacementOrder
<1>14. LargestFirst'
  <2>1. \A k \in idx_from_head + 1 .. buffer_count_ - 1 :
          Size(buffer_ids_sorted_[k]) >= Size(buffer_ids_sorted_[k + 1])
    BY <1>1, <1>2 DEF Sorting, TypeOK
  <2>2. \A k : Size(buffer_ids_sorted_[k])' = Size(buffer_ids_sorted_[k])
    BY <1>1 DEF Size, request
  <2> QED
    BY <1>1, <1>6, <2>1, <2>2 DEF LargestFirst
<1>15. TypeOK'
  BY <1>1, <1>6 DEF TypeOK, request
<1>16. /\ Splitting' /\ Sorting' /\ Searching' /\ Settled' /\ NoLowerFit' /\ Walking'
       /\ (pc' # "idle" => ~need_to_calculate_offsets_')
  BY <1>1, <1>2 DEF Splitting, Sorting, Searching, Settled, NoLowerFit, Walking
<1>17. Guards'
  BY <1>1, <1>6 DEF Guards
<1> QED
  BY <1>9, <1>10, <1>11, <1>12, <1>13, <1>14, <1>15, <1>16, <1>17

LEMMA CalculateStep ==
  ASSUME IInv, Calculate
  PROVE  IInv'
<1> USE DEF IInv
<1>1. /\ UNCHANGED <<request, any_swapped, candidate_offset, prior_entry, entry,
                     guard_a, current_entry, guard_b>>
      /\ pc = "idle" /\ buffer_count_ # 0 /\ need_to_calculate_offsets_' = FALSE
      /\ buffer_offsets_' = [b \in Buffers |-> requirements_[b].offline_offset]
      /\ buffer_ids_sorted_' = [k \in Buffers |-> 0]
      /\ list' = <<>> /\ idx_from_tail' = buffer_count_ /\ idx_from_head' = 0
      /\ i' = 1 /\ pc' = "split"
  BY DEF Calculate
<1>2. /\ buffer_count_ \in Nat \ {0} /\ guard_a = 0
      /\ buffer_count_' = buffer_count_ /\ Buffers' = Buffers /\ requirements_' = requirements_
  BY <1>1, ListFacts DEF request, buffer_count_, Buffers, Guards
<1>3. \A b \in Buffers : requirements_[b].offline_offset \in Nat \cup {kOnlinePlannedBuffer}
  BY BufferFacts
<1>4. Listed' = {} /\ ListOrdered'
  BY <1>1, EmptySeq DEF Listed, ListOrdered
<1>5. ListedApart'
  BY <1>4 DEF ListedApart
<1>6. Arrays'
  BY <1>1, <1>2, <1>3 DEF Arrays
<1>7. Splitting'
  <2>1. Filled' = {}
    BY <1>1, <1>2 DEF Filled, Buffers
  <2> QED
    BY <1>1, <1>2, <2>1 DEF Splitting
<1>8. TypeOK'
  BY <1>1, <1>2 DEF TypeOK, request
<1>9. /\ PlacementOrder' /\ Sorting' /\ LargestFirst' /\ Listing' /\ Searching'
      /\ Settled' /\ NoLowerFit' /\ Walking'
  BY <1>1 DEF PlacementOrder, Sorting, LargestFirst, Listing, Searching, Settled,
              NoLowerFit, Walking, Placing, Planned
<1>10. Guards'
  BY <1>1, <1>2 DEF Guards
<1> QED
  BY <1>1, <1>4, <1>5, <1>6, <1>7, <1>8, <1>9, <1>10

LEMMA StartOverStep ==
  ASSUME IInv, StartOver
  PROVE  IInv'
<1> USE DEF IInv
<1>1. /\ UNCHANGED <<i, idx_from_head, idx_from_tail, any_swapped, candidate_offset,
                     prior_entry, entry, guard_a, current_entry, guard_b>>
      /\ max_buffer_count_' \in Capacities /\ requirements_' = <<>>
      /\ need_to_calculate_offsets_' = TRUE /\ list' = <<>>
      /\ pc = "idle" /\ pc' = "idle"
  BY DEF StartOver, loops
<1>2. /\ max_buffer_count_' \in Nat /\ buffer_count_' = 0
      /\ requirements_' \in Seq(Requirements)
  BY <1>1, PlannerAssumption, EmptySeq DEF buffer_count_
<1>3. Listed' = {} /\ ListOrdered'
  BY <1>1, EmptySeq DEF Listed, ListOrdered
<1>4. ListedApart'
  BY <1>3 DEF ListedApart
<1>5. /\ Arrays' /\ Splitting' /\ PlacementOrder' /\ Sorting' /\ LargestFirst' /\ Listing'
      /\ Searching' /\ Settled' /\ NoLowerFit' /\ Walking'
  BY <1>1 DEF Arrays, Splitting, PlacementOrder, Sorting, LargestFirst, Listing,
              Searching, Settled, NoLowerFit, Walking, Placing, Planned
<1>6. Guards'
  BY <1>1 DEF Guards
<1>7. TypeOK'
  <2>1. buffer_count_' <= max_buffer_count_'
    BY <1>2
  <2> QED
    BY <1>1, <1>2, <2>1 DEF TypeOK
<1> QED
  BY <1>1, <1>3, <1>4, <1>5, <1>6, <1>7

LEMMA AddBufferStep ==
  ASSUME IInv, NEW r \in Requirements, AddBuffer(r)
  PROVE  IInv'
<1> USE DEF IInv
<1>1. /\ UNCHANGED <<i, idx_from_head, idx_from_tail, any_swapped, candidate_offset,
                     prior_entry, entry, guard_a, current_entry, guard_b>>
      /\ UNCHANGED <<buffer_offsets_, buffer_ids_sorted_, list, pc, max_buffer_count_>>
      /\ requirements_' = Append(requirements_, r)
      /\ need_to_calculate_offsets_' = TRUE
      /\ pc = "idle" /\ buffer_count_ < max_buffer_count_
  BY DEF AddBuffer, loops, results, HasRoom
<1>2. /\ requirements_ \in Seq(Requirements) /\ max_buffer_count_ \in Nat
      /\ buffer_count_ \in Nat
  BY ListFacts DEF TypeOK
<1>3. /\ requirements_' \in Seq(Requirements) /\ buffer_count_' = buffer_count_ + 1
      /\ \A b \in Buffers : requirements_'[b] = requirements_[b]
  BY <1>1, <1>2 DEF buffer_count_, Buffers
<1>4. Buffers \subseteq Buffers' /\ Listed' = Listed
  BY <1>1, <1>2, <1>3 DEF Buffers, Listed
<1>5. ListOrdered'
  <2>1. list \in Seq(Buffers')
    BY <1>4 DEF ListOrdered
  <2> QED
    BY <1>1, <2>1 DEF ListOrdered
<1>6. ListedApart'
  <2>1. \A b \in Listed : b \in Buffers /\ requirements_'[b] = requirements_[b]
    BY <1>3, ListFacts
  <2>2. \A b \in Listed : /\ Size(b)' = Size(b) /\ Online(b)' = Online(b)
                          /\ EndOf(b)' = EndOf(b)
    BY <1>1, <2>1 DEF Size, Online, EndOf
  <2>3. \A b, c \in Listed : OverlapInTime(b, c)' = OverlapInTime(b, c)
    BY <2>1 DEF OverlapInTime
  <2> QED
    BY <1>1, <1>4, <2>2, <2>3 DEF ListedApart, Apart
<1>7. /\ Arrays' /\ Splitting' /\ PlacementOrder' /\ Sorting' /\ LargestFirst' /\ Listing'
      /\ Searching' /\ Settled' /\ NoLowerFit' /\ Walking' /\ Guards'
  BY <1>1 DEF Arrays, Splitting, PlacementOrder, Sorting, LargestFirst, Listing,
              Searching, Settled, NoLowerFit, Walking, Placing, Planned, Guards
<1>8. TypeOK'
  BY <1>1, <1>2, <1>3 DEF TypeOK
<1> QED
  BY <1>1, <1>5, <1>6, <1>7, <1>8

LEMMA StutterStep ==
  ASSUME IInv, UNCHANGED vars
  PROVE  IInv'
<1> USE DEF IInv, vars, request, results, loops
<1>1. TypeOK' /\ ListOrdered' /\ ListedApart' /\ Arrays' /\ Splitting'
  BY DEF TypeOK, ListOrdered, ListedApart, Arrays, Splitting, Filled, Buffers,
         buffer_count_, Size, Online, EndOf, OverlapInTime, Apart, Listed
<1>2. PlacementOrder' /\ LargestFirst'
  BY DEF PlacementOrder, LargestFirst, Placing, Buffers, buffer_count_, Size, Online
<1>4. Sorting'
  BY DEF Sorting, buffer_count_, Size
<1>5. Listing'
  BY DEF Listing, Placing, Planned, Buffers, buffer_count_, Listed
<1>3. Searching' /\ Settled' /\ NoLowerFit' /\ Guards' /\ Walking'
  BY DEF Searching, Settled, NoLowerFit, Guards, Walking, wanted, Buffers,
         buffer_count_, Size, Online, EndOf, OverlapInTime, Listed
<1> QED
  BY <1>1, <1>2, <1>3, <1>4, <1>5

-----------------------------------------------------------------------------
(* The theorems *)

LEMMA NextKeeps == IInv /\ [Next]_vars => IInv'
<1> SUFFICES ASSUME IInv, [Next]_vars PROVE IInv'
  OBVIOUS
<1>1. CASE StartOver
  BY <1>1, StartOverStep
<1>2. CASE \E b \in Requirements : AddBuffer(b)
  BY <1>2, AddBufferStep
<1>3. CASE Calculate
  BY <1>3, CalculateStep
<1>4. CASE Ordering
  BY <1>4, SplitStepStep, SplitDoneStep, SortStepStep, SortAgainStep, PlaceFirstStep
     DEF Ordering
<1>5. CASE Placement
  BY <1>5, PlaceOnlineStep, PlaceOfflineStep, PlaceDoneStep, SkipInactiveStep, TryGapStep,
     AfterLastStep, LinkStep, WalkInsertStep, WalkOnStep
     DEF Placement
<1>6. CASE UNCHANGED vars
  BY <1>6, StutterStep
<1> QED
  BY <1>1, <1>2, <1>3, <1>4, <1>5, <1>6 DEF Next

\* The inductive invariant holds in every reachable state.
THEOREM Invariant == Spec => []IInv
BY InitInvariant, NextKeeps, PTL DEF Spec

\* The variables of the planner and of its loops keep their types, and no more
\* buffers are recorded than the scratch area has room for (AddBuffer).
THEOREM TypeCorrect == Spec => []TypeOK
<1>1. IInv => TypeOK
  BY DEF IInv
<1> QED
  BY <1>1, Invariant, PTL

\* At every moment of the placement, two listed buffers in use at the same time
\* share no byte unless both are offline (CalculateOffsetsIfNeeded).
THEOREM BuffersApart == Spec => []ListedApart
<1>1. IInv => ListedApart
  BY DEF IInv
<1> QED
  BY <1>1, Invariant, PTL

\* Every buffer of a finished plan is on the list, once, in the order of the
\* offsets (the linking part of CalculateOffsetsIfNeeded).
THEOREM NothingDropped == Spec => []PlanComplete
<1>1. IInv => PlanComplete
  BY ListFacts DEF IInv, PlanComplete, ListOrdered, Listing
<1> QED
  BY <1>1, Invariant, PTL

\* The two guards against endless loops never fire, for any number of buffers.
THEOREM NoGuardFires == Spec => []GuardsSilent
<1>1. IInv => GuardsSilent
  <2> SUFFICES ASSUME IInv PROVE GuardsSilent
    OBVIOUS
  <2>1. pc = "walk" => guard_b <= buffer_count_ + 2
    BY ListFacts DEF IInv, Walking, Listing, Placing
  <2> QED
    BY <2>1 DEF IInv, Guards, GuardsSilent
<1> QED
  BY <1>1, Invariant, PTL

\* An online buffer is placed in the first gap it fits into, as the class
\* comment promises.
THEOREM FirstGapUsed == Spec => []FirstFit
<1>1. IInv => FirstFit
  BY DEF IInv, NoLowerFit, FirstFit
<1> QED
  BY <1>1, Invariant, PTL

\* Online buffers are placed in descending order of size (ReverseSortInPlace).
THEOREM LargestPlacedFirst == Spec => []LargestFirst
<1>1. IInv => LargestFirst
  BY DEF IInv
<1> QED
  BY <1>1, Invariant, PTL

-----------------------------------------------------------------------------
(* The high-water mark *)

\* A set of naturals that is not empty has a least element.
LEMMA LeastElement ==
  ASSUME NEW T, T \subseteq Nat, T # {}
  PROVE  \E x \in T : \A y \in T : x <= y
<1>1. PICK x \in T : \A y \in T : ~(<<y, x>> \in OpToRel(<, Nat))
  BY NatLessThanWellFounded, WFMin
<1>2. \A y \in T : ~(y < x)
  BY <1>1 DEF OpToRel
<1> QED
  BY <1>2

\* The values of a function on 1 .. n, and 0, have a largest.
LEMMA LargestValue ==
  ASSUME NEW n \in Nat, NEW f \in [1 .. n -> Nat]
  PROVE  \E m \in {f[p] : p \in 1 .. n} \cup {0} :
           \A e \in {f[p] : p \in 1 .. n} \cup {0} : e <= m
<1> DEFINE Upto(k) == {f[p] : p \in 1 .. k} \cup {0}
           Has(k) == \E m \in Upto(k) : \A e \in Upto(k) : e <= m
           Without == {k \in 0 .. n : ~Has(k)}
<1>1. Has(0)
  OBVIOUS
<1>2. ASSUME NEW k \in 0 .. n, k # 0, Has(k - 1)
      PROVE  Has(k)
  <2>1. f[k] \in Nat /\ f[k] \in Upto(k)
    BY <1>2
  <2>2. Upto(k) = Upto(k - 1) \cup {f[k]}
    BY <1>2
  <2>3. Upto(k - 1) \subseteq Nat
    BY <1>2
  <2>4. PICK m \in Upto(k - 1) : \A e \in Upto(k - 1) : e <= m
    BY <1>2
  <2> QED
    <3>1. CASE f[k] <= m
      BY <2>1, <2>2, <2>3, <2>4, <3>1
    <3>2. CASE m < f[k]
      <4> HIDE DEF Upto
      <4>1. ASSUME NEW e \in Upto(k - 1) PROVE e <= f[k]
        BY <2>1, <2>3, <2>4, <3>2
      <4>2. \A e \in Upto(k) : e <= f[k]
        BY <2>1, <2>2, <4>1
      <4> QED
        BY <2>1, <4>2
    <3> QED
      BY <2>1, <2>3, <3>1, <3>2
<1>3. Has(n)
  <2> HIDE DEF Has
  <2> SUFFICES ASSUME Without # {}
               PROVE  FALSE
    OBVIOUS
  <2>1. Without \subseteq Nat
    OBVIOUS
  <2>2. PICK k \in Without : \A l \in Without : k <= l
    BY <2>1, LeastElement
  <2>3. k \in 0 .. n /\ ~Has(k)
    OBVIOUS
  <2>4. k # 0
    BY <1>1, <2>3
  <2>5. k - 1 \in 0 .. n /\ k - 1 \notin Without
    BY <2>2, <2>3, <2>4
  <2>6. Has(k - 1)
    BY <2>5
  <2> QED
    BY <1>2, <2>3, <2>4, <2>6
<1> QED
  BY <1>3

\* What GetMaximumMemorySize returns for a finished plan: the largest end of a
\* buffer.
LEMMA MaximumFacts ==
  ASSUME IInv, Planned, buffer_count_ # 0
  PROVE  /\ GetMaximumMemorySize \in EndsWalked \cup {0}
         /\ \A e \in EndsWalked \cup {0} : e <= GetMaximumMemorySize
         /\ EndsWalked = {EndOf(b) : b \in Buffers}
<1> DEFINE f == [p \in 1 .. buffer_count_ |-> EndOf(list[p])]
<1>1. /\ Len(list) = buffer_count_ /\ buffer_count_ \in Nat
      /\ Listed = Buffers
  BY ListFacts DEF IInv, Listing
<1>2. f \in [1 .. buffer_count_ -> Nat]
  BY <1>1, ListFacts
<1>3. EndsWalked = {f[p] : p \in 1 .. buffer_count_}
  BY <1>1 DEF EndsWalked
<1>4. \E m \in EndsWalked \cup {0} : \A e \in EndsWalked \cup {0} : e <= m
  BY <1>1, <1>2, <1>3, LargestValue, ZenonT(60)
<1>5. EndsWalked = {EndOf(b) : b \in Buffers}
  BY <1>1, <1>3 DEF Listed
<1> QED
  BY <1>4, <1>5 DEF GetMaximumMemorySize

\* The memory the planner asks for is the end of one of the buffers and not
\* before the end of any (GetMaximumMemorySize): the guard on its walk along the
\* list never cuts it short.
THEOREM MaximumTight == Spec => []MaximumIsTight
<1>1. IInv => MaximumIsTight
  <2> SUFFICES ASSUME IInv, Planned, buffer_count_ # 0
               PROVE  /\ \A b \in Buffers : EndOf(b) <= GetMaximumMemorySize
                      /\ \E b \in Buffers : EndOf(b) = GetMaximumMemorySize
    BY DEF MaximumIsTight
  <2>1. \A b \in Buffers : EndOf(b) \in EndsWalked
    BY MaximumFacts
  <2>2. buffer_count_ \in Nat /\ 1 \in Buffers /\ Listed = Buffers
    <3>1. buffer_count_ \in Nat /\ Listed = Buffers
      BY ListFacts DEF IInv, Listing
    <3> QED
      BY <3>1 DEF Buffers
  <2>3. \A b \in Buffers : EndOf(b) \in Nat
    BY <2>2, ListFacts
  <2>4. CASE GetMaximumMemorySize \in EndsWalked
    BY <2>1, <2>4, MaximumFacts
  <2>5. CASE GetMaximumMemorySize = 0
    BY <2>1, <2>2, <2>3, <2>5, MaximumFacts
  <2> QED
    BY <2>4, <2>5, MaximumFacts
<1> QED
  BY <1>1, Invariant, PTL

-----------------------------------------------------------------------------
(* The refinement: finishing a calculation is one step of the contract *)

LEMMA PlannedIsSound ==
  ASSUME IInv, Planned
  PROVE  Plan!Sound(requirements_, buffer_offsets_)
<1> USE DEF IInv
<1>1. /\ ~need_to_calculate_offsets_ /\ buffer_count_ \in Nat
      /\ Buffers = 1 .. Len(requirements_)
      /\ \A b \in Buffers : b \in Listed
  BY ListFacts DEF Planned, Listing, Buffers, buffer_count_
<1>2. buffer_offsets_ \in [Buffers -> Nat]
  BY <1>1, ListFacts DEF Arrays
<1>3. \A b \in Buffers : Online(b) \/ buffer_offsets_[b] = requirements_[b].offline_offset
  BY <1>1 DEF Arrays
<1>4. \A b, c \in Buffers :
        /\ b # c /\ OverlapInTime(b, c) /\ (Online(b) \/ Online(c))
        => \/ buffer_offsets_[b] + Size(b) <= buffer_offsets_[c]
           \/ buffer_offsets_[c] + Size(c) <= buffer_offsets_[b]
  BY <1>1 DEF ListedApart, Apart, EndOf
<1> QED
  BY <1>1, <1>2, <1>3, <1>4
     DEF Plan!Sound, Plan!Online, Plan!InUseTogether, Online, OverlapInTime, Size,
         kOnlinePlannedBuffer, Plan!kOnlinePlannedBuffer

LEMMA InitImplements == Init => Plan!Init
BY DEF Init, Plan!Init, Plan!NoPlan, Planned, kOnlinePlannedBuffer, Plan!kOnlinePlannedBuffer

LEMMA StepImplements ==
  IInv /\ IInv' /\ [Next]_vars => [Plan!Next]_(Plan!planVars)
<1> SUFFICES ASSUME IInv, IInv', [Next]_vars
             PROVE  [Plan!Next]_(Plan!planVars)
  OBVIOUS
<1> USE DEF Plan!planVars, Plan!NoPlan, kOnlinePlannedBuffer, Plan!kOnlinePlannedBuffer
<1>1. CASE StartOver
  BY <1>1 DEF StartOver, Planned, Plan!Next, Plan!Start
<1>2. CASE \E b \in Requirements : AddBuffer(b)
  BY <1>2 DEF AddBuffer, Planned, Plan!Next, Plan!Add
<1>3. CASE Calculate
  BY <1>3 DEF Calculate, request, Planned
<1>4. CASE Ordering
  BY <1>4 DEF Ordering, SplitStep, SplitDone, SortStep, SortAgain, PlaceFirst, request, Planned
<1>5. CASE PlaceDone
  <2>1. /\ ~Planned /\ requirements_' = requirements_
        /\ pc' = "idle" /\ need_to_calculate_offsets_' = need_to_calculate_offsets_
    BY <1>5 DEF PlaceDone, Planned, request
  <2>2. Planned'
    BY <1>5, <2>1 DEF PlaceDone, Planned, IInv
  <2>3. Plan!Sound(requirements_, buffer_offsets_)'
    BY <2>2, PlannedIsSound, PTL
  <2> QED
    BY <2>1, <2>2, <2>3 DEF Plan!Next, Plan!Settle
<1>6. CASE Placement /\ ~PlaceDone
  BY <1>6 DEF Placement, PlaceOnline, PlaceOffline, SkipInactive, TryGap, AfterLast, Link,
              WalkInsert, WalkOn, NextBuffer, request, Planned
<1>7. CASE UNCHANGED vars
  BY <1>7 DEF vars, request, results, Planned
<1> QED
  BY <1>1, <1>2, <1>3, <1>4, <1>5, <1>6, <1>7 DEF Next, Placement

\* GreedyMemoryPlanner implements the planner interface: whenever its offsets
\* are up to date they are a sound layout of the buffers added so far.
THEOREM Implements == Spec => KeepsPlan
BY Invariant, InitImplements, StepImplements, PTL DEF Spec, KeepsPlan, Plan!Spec
=============================================================================
