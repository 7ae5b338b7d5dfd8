--------------------------- MODULE MicroProfiler ---------------------------
(***************************************************************************)
(* The profiler: a table of events with the ticks at which they began and  *)
(* ended, and beside it a table of ticks per tag that the report fills.    *)
(* Events may be open at the same time and end in any order, as operators, *)
(* subgraphs and decoders nest them.  Ticks are counted modulo 2^32.       *)
(***************************************************************************)
EXTENDS Integers, Sequences, FiniteSetsExt

CONSTANTS
  Tags,
  kMaxEvents,
  TickSpace,      \* number of tick values, 2^32
  MaxReports,     \* bound on reports between two calls of ClearEvents
  Asserts         \* TFLITE_ASSERT_FALSE aborts: the build does not define NDEBUG

nullptr == "nullptr"
Ticks == 0 .. TickSpace - 1
Slots == 1 .. kMaxEvents

VARIABLES
  now,            \* GetCurrentTimeTicks()
  events,         \* tags_, start_ticks_, end_ticks_ up to num_events_
  totals,         \* total_ticks_per_tag_
  aborted,        \* BeginEvent has stopped the program
  overrun,        \* BeginEvent has written behind its tables
  elapsed,        \* the ticks that every event has really been open
  open,           \* the events that have not ended
  reports,        \* reports since the events were cleared
  faithful        \* the last one printed for each tag how long its events were open

vars == <<now, events, totals, aborted, overrun, elapsed, open, reports, faithful>>

num_events == Len(events)
running == ~aborted /\ ~overrun
Wrapped(n) == n % TickSpace
NoTotals == [i \in Slots |-> [tag |-> nullptr, ticks |-> 0]]

Init ==
  /\ now \in Ticks
  /\ events = <<>> /\ elapsed = <<>> /\ open = {}
  /\ totals = NoTotals
  /\ aborted = FALSE /\ overrun = FALSE
  /\ reports = 0
  /\ faithful = TRUE

-----------------------------------------------------------------------------
\* A tick passes.  The bound: no event stays open for TickSpace ticks.
Tick ==
  /\ running
  /\ \A i \in open : elapsed[i] < TickSpace - 1
  /\ now' = Wrapped(now + 1)
  /\ elapsed' = [i \in DOMAIN elapsed |-> IF i \in open THEN elapsed[i] + 1 ELSE elapsed[i]]
  /\ UNCHANGED <<events, totals, aborted, overrun, open, reports, faithful>>

BeginEvent(tag) ==
  /\ running /\ num_events < kMaxEvents
  /\ events' = Append(events, [tag |-> tag, start |-> now, end |-> Wrapped(now - 1)])
  /\ elapsed' = Append(elapsed, 0)
  /\ open' = open \cup {num_events + 1}
  /\ UNCHANGED <<now, totals, aborted, overrun, reports, faithful>>

\* Without assertions BeginEvent goes on at the limit; what follows is not modelled.
TooManyEvents ==
  /\ running /\ num_events = kMaxEvents
  /\ aborted' = Asserts
  /\ overrun' = ~Asserts
  /\ UNCHANGED <<now, events, totals, elapsed, open, reports, faithful>>

EndEvent(i) ==
  /\ running
  /\ events' = [events EXCEPT ![i].end = now]
  /\ open' = open \ {i}
  /\ UNCHANGED <<now, totals, aborted, overrun, elapsed, reports, faithful>>

Duration(i) == Wrapped(events[i].end - events[i].start)

-----------------------------------------------------------------------------
FindExistingOrNextPosition(table, tag) ==
  Min({i \in 1 .. num_events : table[i].tag \in {nullptr, tag}})

\* The table with the duration of an event added to the row of its tag.
AddedEvent(table, k) ==
  LET position == FindExistingOrNextPosition(table, events[k].tag)
  IN  [table EXCEPT ![position] =
         [tag |-> events[k].tag, ticks |-> Wrapped(@.ticks + Duration(k))]]

\* And with those of the first n events.
Added(table, n) ==
  LET after[k \in 0 .. n] == IF k = 0 THEN table ELSE AddedEvent(after[k - 1], k)
  IN  after[n]

\* The rows are printed up to the first that has no tag.
Rows(table) ==
  {i \in 1 .. num_events : \A j \in 1 .. i : table[j].tag # nullptr}

Printed(table) == {table[i] : i \in Rows(table)}

\* The ticks for which the first n events were open that have this tag.
OpenTicks(tag, n) ==
  LET upto[k \in 0 .. n] ==
        IF k = 0 THEN 0
        ELSE upto[k - 1] + (IF events[k].tag = tag THEN elapsed[k] ELSE 0)
  IN  upto[n]

Wanted ==
  {[tag |-> tag, ticks |-> Wrapped(OpenTicks(tag, num_events))] :
     tag \in {events[i].tag : i \in DOMAIN events}}

\* The client reports when no event is open.
LogTicksPerTagCsv ==
  /\ running /\ open = {} /\ reports < MaxReports
  /\ totals' = Added(totals, num_events)
  /\ reports' = reports + 1
  /\ faithful' = (Printed(totals') = Wanted)
  /\ UNCHANGED <<now, events, aborted, overrun, elapsed, open>>

\* Only as many rows are cleared as there are events.  The client clears when no
\* event is open: a handle from before would end an event of another owner.
ClearEvents ==
  /\ running /\ open = {}
  /\ totals' = [i \in Slots |-> IF i <= num_events THEN NoTotals[i] ELSE totals[i]]
  /\ events' = <<>> /\ elapsed' = <<>>
  /\ reports' = 0
  /\ UNCHANGED <<now, aborted, overrun, open, faithful>>

Next ==
  \/ Tick
  \/ \E tag \in Tags : BeginEvent(tag)
  \/ TooManyEvents
  \/ \E i \in open : EndEvent(i)
  \/ LogTicksPerTagCsv
  \/ ClearEvents

Spec == Init /\ [][Next]_vars

-----------------------------------------------------------------------------
\* Whichever events were open beside it and whether or not the counter wrapped, an
\* event that has ended took the ticks for which it was open.
DurationsRight == \A i \in DOMAIN events : i \notin open => Duration(i) = elapsed[i]

\* The report has one row for each tag, and no row that a later search would not
\* find: rows fill the table from its start, also after reports on fewer events.
OneRowPerTag ==
  /\ \A i, j \in Slots : totals[i].tag = totals[j].tag /\ i # j => totals[i].tag = nullptr
  /\ \A i \in Slots : totals[i].tag # nullptr => i <= num_events

\* The first report after the events were cleared prints for each tag how long its
\* events were open, whatever was reported before.
FirstReportRight == reports = 1 => faithful

=============================================================================
