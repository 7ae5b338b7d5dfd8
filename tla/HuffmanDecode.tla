----------------------------- MODULE HuffmanDecode -----------------------------
(***************************************************************************)
(* The Huffman decoder of the DECODE operator (kernels/                     *)
(* decode_state_huffman.cc).  A symbol is found by a walk through lookup    *)
(* tables, each of which takes as many bits as its longest code needs; bits *)
(* that the code found does not use are put back.  The bits come from words *)
(* of which one is held at a time.                                          *)
(***************************************************************************)
EXTENDS Integers, Sequences, SequencesExt

CONSTANTS
  WordBits,        \* 32
  Codes,           \* each [initial, table, tables, code], see below
  MaxSymbols

(* The symbols of a code have their bits in code; its tables lie behind each  *)
(* other in table, at 0 the one for the first initial bits.  An entry is      *)
(* either a symbol that uses some of the last bits that were taken, or a      *)
(* table that is next entries on and takes bits.                              *)
Symbol(s, uses) == [found |-> TRUE, symbol |-> s, bits |-> uses, next |-> 0]
Table(bits, next) == [found |-> FALSE, symbol |-> "", bits |-> bits, next |-> next]

\* The number that is written with bits, the first one being the highest.
Value(bits) ==
  LET value[n \in 0..Len(bits)] == IF n = 0 THEN 0 ELSE 2 * value[n - 1] + bits[n]
  IN value[Len(bits)]

\* One of two strings of bits is the beginning of the other.
Agree(x, y) == \A k \in DOMAIN x \cap DOMAIN y : x[k] = y[k]

\* What a model must hold, which the decoder does not check: its tables are made for
\* its code, each for the codes that begin with the bits in tables (table 0 for all).
\* Whatever follows those bits of a code's, there is an entry, with its symbol and how
\* many more bits it has, or for the table of the codes that begin so.
WellFormed(c) ==
  /\ DOMAIN c.table \subseteq Nat /\ DOMAIN c.tables \subseteq Nat
  /\ \A t \in DOMAIN c.tables :
       c.tables[t].prefix \in Seq({0, 1}) /\ c.tables[t].bits \in 1..WordBits
  /\ 0 \in DOMAIN c.tables /\ c.tables[0] = [prefix |-> <<>>, bits |-> c.initial]
  /\ \A s \in DOMAIN c.code :
       /\ c.code[s] \in Seq({0, 1}) /\ c.code[s] # <<>>
       /\ \A t \in DOMAIN c.tables : \A x \in [1..c.tables[t].bits -> {0, 1}] :
            LET prefix == c.tables[t].prefix
                k == t + Value(x)
                e == c.table[k]
            IN Len(prefix) < Len(c.code[s]) /\ Agree(prefix \o x, c.code[s]) =>
                 /\ k \in DOMAIN c.table
                 /\ IF e.found
                    THEN /\ e.symbol = s /\ e.bits \in 1..Len(x)
                         /\ Len(c.code[s]) = Len(prefix) + e.bits
                    ELSE /\ Len(prefix) + Len(x) < Len(c.code[s])
                         /\ k + e.next \in DOMAIN c.tables
                         /\ c.tables[k + e.next] = [prefix |-> prefix \o x, bits |-> e.bits]

VARIABLES
  code, message, junk,    \* what is encoded, how, and which bits follow
  remaining, buffer,      \* symbols still to decode; those decoded
  head_next,              \* the number of words that were fetched
  head_hold,              \* the word that is held
  head_offset,            \* how many of its bits are left
  last_used_bits,         \* taken for the last table
  table_offset            \* the entry that was looked up, -1 before the first

stream == <<head_next, head_hold, head_offset>>
vars == <<code, message, junk, remaining, buffer, stream, last_used_bits, table_offset>>

\* The bits of the first n symbols in a code, for each n.
Encoding(c, symbols) ==
  LET bits[n \in 0..Len(symbols)] ==
        IF n = 0 THEN <<>> ELSE bits[n - 1] \o c.code[symbols[n]]
  IN bits

\* The bits of the first n symbols of the message, and those in memory from the first on.
Encoded(n) == Encoding(code, message)[n]

Bit(k) == LET bits == Encoded(Len(message)) IN IF k <= Len(bits) THEN bits[k] ELSE junk

\* Decode with an output of as many elements as the message has symbols.
Init ==
  /\ code \in Codes /\ junk \in {0, 1}
  /\ message \in BoundedSeq(DOMAIN code.code, MaxSymbols)
  /\ remaining = Len(message) /\ buffer = <<>>
  /\ LET first == IF message = <<>> THEN 0 ELSE 1
     IN head_next = first /\ head_hold = first /\ head_offset = first * WordBits
  /\ last_used_bits = 0 /\ table_offset = -1

\* n bits of a word after its first skipped ones.
Bits(word, skipped, n) == [k \in 1..n |-> Bit((word - 1) * WordBits + skipped + k)]

\* What GetNextBits returns.
NextBits(count) ==
  IF count > head_offset
  THEN Value(Bits(head_hold, WordBits - head_offset, head_offset)
               \o Bits(head_next + 1, 0, count - head_offset))
  ELSE Value(Bits(head_hold, WordBits - head_offset, count))

\* What GetNextBits leaves.
GetNextBits(count) ==
  IF count > head_offset
  THEN /\ head_next' = head_next + 1 /\ head_hold' = head_next + 1
       /\ head_offset' = WordBits - (count - head_offset)
  ELSE head_offset' = head_offset - count /\ UNCHANGED <<head_next, head_hold>>

\* A bug: the word held before is not fetched again.
BugPutBackBits(count) ==
  IF head_offset + count > WordBits
  THEN /\ head_next' = head_next - 1 /\ UNCHANGED head_hold
       /\ head_offset' = head_offset + count - WordBits
  ELSE head_offset' = head_offset + count /\ UNCHANGED <<head_next, head_hold>>

PutBackBits(count) ==
  IF head_offset + count > WordBits
  THEN /\ head_next' = head_next - 1 /\ head_hold' = head_next - 1
       /\ head_offset' = head_offset + count - WordBits
  ELSE head_offset' = head_offset + count /\ UNCHANGED <<head_next, head_hold>>

Entry == code.table[table_offset]

StartSymbol ==
  /\ remaining > 0 /\ table_offset = -1
  /\ last_used_bits' = code.initial
  /\ GetNextBits(code.initial) /\ table_offset' = NextBits(code.initial)
  /\ UNCHANGED <<code, message, junk, remaining, buffer>>

FollowTable ==
  /\ table_offset # -1 /\ ~Entry.found
  /\ last_used_bits' = Entry.bits
  /\ GetNextBits(Entry.bits) /\ table_offset' = table_offset + Entry.next + NextBits(Entry.bits)
  /\ UNCHANGED <<code, message, junk, remaining, buffer>>

FinishSymbol ==
  /\ table_offset # -1 /\ Entry.found
  /\ buffer' = Append(buffer, Entry.symbol) /\ remaining' = remaining - 1
  /\ IF last_used_bits > Entry.bits
     THEN PutBackBits(last_used_bits - Entry.bits) ELSE UNCHANGED stream
  /\ table_offset' = -1
  /\ UNCHANGED <<code, message, junk, last_used_bits>>

Next == StartSymbol \/ FollowTable \/ FinishSymbol

Spec == Init /\ [][Next]_vars

-----------------------------------------------------------------------------
(* Properties. *)

Words(bits) == (bits + WordBits - 1) \div WordBits

\* The state has its types.
TypeOK ==
  /\ remaining \in 0..Len(message) /\ Len(buffer) + remaining = Len(message)
  /\ head_offset \in 0..WordBits /\ head_next \in Nat
  /\ table_offset = -1 \/ table_offset \in DOMAIN code.table

\* What is decoded is the message, and between two symbols the decoder stands behind
\* the bits of those decoded, whatever it took and put back, across words too.
DecodesMessage ==
  /\ IsPrefix(buffer, message)
  /\ table_offset = -1 /\ message # <<>> =>
       WordBits * head_next - head_offset = Len(Encoded(Len(buffer)))

\* The word held is the last one that was fetched.
HoldsLastWord == head_hold = head_next

\* Tables take more bits than the last code has: the decoder may fetch one word
\* behind the words of the message, and never another.
OneWordBeyond == head_next <= Words(Len(Encoded(Len(message)))) + 1
=============================================================================
