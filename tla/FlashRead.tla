------------------------------- MODULE FlashRead -------------------------------
(***************************************************************************)
(* The polled driver of examples/person_detection/main_qspi_ddr.cc that     *)
(* reads the model back out of QSPI flash, eight bytes at a time, and the   *)
(* serial controller beside it, which shifts bytes at a pace of its own and *)
(* may stall.                                                               *)
(*                                                                          *)
(* A byte on the wire is what it stands for: a command, an address, a       *)
(* filler, what the flash answers while it listens, or a byte of the flash, *)
(* written as its address.                                                  *)
(***************************************************************************)
EXTENDS Naturals, Sequences

CONSTANTS
  Depth,        \* of the controller's two FIFOs
  Addresses,    \* that are read
  TxPolls,      \* of the status register: 100000 in the code
  FlushPolls    \* 1024 in the code

kCommandBytes == 4

kDataBytes == 8

CMD_READ == <<"read", 0>>
AddressByte(a) == <<"address", a>>
Filler == <<"filler", 0>>
Floating == <<"floating", 0>>
Byte(a) == <<"flash", a>>
E1 == <<"mark", 1>>
E2 == <<"mark", 2>>

VARIABLES
  pc,          \* "idle", "sending", "skipping" or "reading"
  flash_addr,  \* of the call
  txto,        \* polls left
  i,           \* bytes taken in the loop that runs
  out,         \* the bytes handed to the caller
  tx, rx,      \* the FIFOs of the controller
  go,          \* it is not inhibited
  heard        \* what the flash has heard since it was selected

driver == <<pc, flash_addr, txto, i, out>>
controller == <<tx, rx, go, heard>>
vars == <<driver, controller>>

-----------------------------------------------------------------------------
(* The controller and the flash. *)

\* A byte that finds a FIFO full is lost.
Push(fifo, bytes) ==
  LET both == fifo \o bytes IN IF Len(both) <= Depth THEN both ELSE SubSeq(both, 1, Depth)

\* What the flash answers while it hears one more byte after those of h.
Answer(h) ==
  IF Len(h) < kCommandBytes THEN Floating
  ELSE IF h[1] = CMD_READ /\ \E a \in Addresses : \A j \in 2..kCommandBytes : h[j] = AddressByte(a)
       THEN Byte(h[2][2] + Len(h) - kCommandBytes)
       ELSE Floating

\* One byte goes out and one comes in.
Shift ==
  /\ go /\ tx # <<>>
  /\ tx' = Tail(tx)
  /\ rx' = Push(rx, <<Answer(heard)>>)
  /\ heard' = Append(heard, Head(tx))
  /\ UNCHANGED <<driver, go>>

-----------------------------------------------------------------------------
(* The driver. *)

Init ==
  /\ pc = "idle" /\ flash_addr = 0 /\ txto = 0 /\ i = 0 /\ out = <<>>
  /\ tx = <<>> /\ rx = <<>> /\ go = FALSE /\ heard = <<>>

\* qspi_flush_rx_fifo: the bytes that are left when it gives up.
Flushed(fifo) == SubSeq(fifo, FlushPolls, Len(fifo))

\* A bug: the FIFOs are not reset.
BugReset(fifo) == fifo

\* TXRST and RXRST.
Reset(fifo) == <<>>

Request(a) ==
  <<CMD_READ, AddressByte(a), AddressByte(a), AddressByte(a)>>
    \o [j \in 1..kDataBytes |-> Filler]

\* qspi_read8, until the controller goes.
StartRead(a) ==
  /\ pc = "idle"
  /\ pc' = "sending" /\ flash_addr' = a /\ txto' = TxPolls
  /\ out' = <<>> /\ i' = 0
  /\ rx' = Flushed(Reset(rx))
  /\ tx' = Push(Reset(tx), Request(a))
  /\ heard' = <<>>
  /\ go' = TRUE

\* A bug: the polls are not counted.
BugPollTxEmpty ==
  /\ pc = "sending" /\ tx # <<>> /\ txto > 1
  /\ UNCHANGED vars

PollTxEmpty ==
  /\ pc = "sending" /\ tx # <<>> /\ txto > 1
  /\ txto' = txto - 1
  /\ UNCHANGED <<pc, flash_addr, i, out, controller>>

\* Sent, or out of polls: the controller is inhibited and the flash deselected.
StopSending ==
  /\ pc = "sending" /\ (tx = <<>> \/ txto = 1)
  /\ pc' = "skipping" /\ go' = FALSE
  /\ UNCHANGED <<flash_addr, txto, i, out, tx, rx, heard>>

\* What came in while the command was going out.
SkipByte ==
  /\ pc = "skipping" /\ rx # <<>>
  /\ rx' = Tail(rx)
  /\ IF i + 1 < kCommandBytes THEN i' = i + 1 /\ UNCHANGED pc
     ELSE i' = 0 /\ pc' = "reading"
  /\ UNCHANGED <<flash_addr, txto, out, tx, go, heard>>

\* Nothing comes any more, and the polls for it run out.
SkipFails ==
  /\ pc = "skipping" /\ rx = <<>>
  /\ pc' = "idle"
  /\ out' = [j \in 1..kDataBytes |-> E1]
  /\ UNCHANGED <<flash_addr, txto, i, controller>>

ReadByte ==
  /\ pc = "reading" /\ rx # <<>>
  /\ out' = Append(out, Head(rx)) /\ rx' = Tail(rx) /\ i' = i + 1
  /\ pc' = IF i' < kDataBytes THEN "reading" ELSE "idle"
  /\ UNCHANGED <<flash_addr, txto, tx, go, heard>>

ReadFails ==
  /\ pc = "reading" /\ rx = <<>>
  /\ pc' = "idle"
  /\ out' = out \o [j \in 1..kDataBytes - i |-> E2]
  /\ UNCHANGED <<flash_addr, txto, i, controller>>

Driver ==
  PollTxEmpty \/ StopSending \/ SkipByte \/ SkipFails \/ ReadByte \/ ReadFails

Next == (\E a \in Addresses : StartRead(a)) \/ Driver \/ Shift

\* The driver runs on; the controller may stall for ever.
Spec == Init /\ [][Next]_vars /\ WF_vars(Driver)

-----------------------------------------------------------------------------
(* Properties. *)

\* The state has its types, and neither FIFO holds more than it can.
TypeOK ==
  /\ pc \in {"idle", "sending", "skipping", "reading"}
  /\ flash_addr \in Addresses \union {0}
  /\ txto \in 0..TxPolls /\ i \in 0..kDataBytes
  /\ Len(out) <= kDataBytes
  /\ Len(tx) <= Depth /\ Len(rx) <= Depth
  /\ go \in BOOLEAN

Returned == pc = "idle" /\ out # <<>>

\* What the caller gets is the flash from the address that it asked for, up to the
\* byte from which on it is marked: never a byte of an earlier read, nor one that
\* belongs elsewhere, whenever the controller stalled in this read or an earlier
\* one (the resets at the start of qspi_read8 and its fills of 0xE1 and 0xE2).
RightOrMarked ==
  Returned =>
    \/ out = [j \in 1..kDataBytes |-> E1]
    \/ \E n \in 0..kDataBytes :
         out = [j \in 1..kDataBytes |-> IF j <= n THEN Byte(flash_addr + j - 1) ELSE E2]

\* A read for which the controller was fast enough is complete: a burst of eight
\* data bytes "avoids the 16-byte FIFO timeout".
SentIsRead ==
  Returned /\ tx = <<>> => out = [j \in 1..kDataBytes |-> Byte(flash_addr + j - 1)]

\* Between calls, and while the answer is taken out, nothing is on the wire.
StoppedOutsideSending == go => pc = "sending"

\* No read is under way.
Idle == pc = "idle"
=============================================================================
