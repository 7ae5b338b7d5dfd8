--------------------------- MODULE BufferAllocator ---------------------------
(***************************************************************************)
(* What IPersistentBufferAllocator and INonPersistentBufferAllocator       *)
(* promise the framework, as blocks of memory and who holds them: the      *)
(* persistent buffers, the head section (a resizable buffer or the         *)
(* overlay), and the temp buffers that have not been given back.  Nothing  *)
(* is said about where a block is placed, only about what it may touch.    *)
(*                                                                         *)
(* A block is a record with fields at and size; the head section may be    *)
(* empty (size 0).                                                         *)
(***************************************************************************)
EXTENDS Integers

VARIABLES
  persistent,   \* set of blocks handed out for good
  reserved,     \* the head section
  temps         \* set of temp blocks in use

interface == <<persistent, reserved, temps>>

Apart(b, c) == b.at + b.size <= c.at \/ c.at + c.size <= b.at

ClearOf(b, blocks) == \A c \in blocks : Apart(b, c)

Init ==
  /\ ClearOf(reserved, persistent)
  /\ reserved.size = 0
  /\ temps = {}

\* A persistent buffer touches no other persistent buffer and stays out of
\* the head section.
GrantPersistent ==
  /\ \E b \in persistent' : /\ persistent' = persistent \cup {b}
                            /\ ClearOf(b, persistent)
                            /\ Apart(b, reserved)
  /\ UNCHANGED <<reserved, temps>>

\* The head section is set only while no temp buffer is in use, and never
\* over a persistent buffer.
SetReserved ==
  /\ temps = {}
  /\ ClearOf(reserved', persistent)
  /\ UNCHANGED <<persistent, temps>>

\* A temp buffer touches neither another temp buffer nor the head section.
GrantTemp ==
  /\ \E b \in temps' : /\ temps' = temps \cup {b}
                       /\ ClearOf(b, temps)
                       /\ Apart(b, reserved)
  /\ UNCHANGED <<persistent, reserved>>

ReturnTemp ==
  /\ \E b \in temps : temps' = temps \ {b}
  /\ UNCHANGED <<persistent, reserved>>

Next == GrantPersistent \/ SetReserved \/ GrantTemp \/ ReturnTemp

Spec == Init /\ [][Next]_interface
=============================================================================
