-------------------------- MODULE MCGreedyPlanner --------------------------
(* Bounded inputs for GreedyPlanner: up to four buffers, of every size,     *)
(* pair of times and way of planning out of two, and of some more shapes.   *)
EXTENDS GreedyPlanner

Shapes(sizes, times, offlines) ==
  {[size |-> s, first_time_used |-> t[1], last_time_used |-> t[2], offline_offset |-> o] :
     s \in sizes, t \in {u \in times \X times : u[1] <= u[2]}, o \in offlines}

\* Buffers in use later than all of these or from their last time on, an empty one, a
\* large one, and an offline one that leaves a gap below it.
FurtherShapes ==
  Shapes({2}, 1 .. 2, {kOnlinePlannedBuffer}) \cup Shapes({0, 3}, {0}, {kOnlinePlannedBuffer})
    \cup Shapes({1}, {0}, {2})

MCRequirements == Shapes({1, 2}, 0 .. 1, {kOnlinePlannedBuffer, 1}) \cup FurtherShapes

MCCapacities == {4}
=============================================================================
