------------------------ MODULE GraphExecutionProofs ------------------------
(***************************************************************************)
(* Proofs about GraphExecution, for every well-formed model: whatever a     *)
(* kernel or the application reads is intact in every plan that keeps       *)
(* buffers with overlapping lifetimes apart.                                *)
(*                                                                         *)
(* The argument goes through the passes of the marking.  Each time the      *)
(* marking walks a subgraph it gives every operator of it an interval of    *)
(* scopes, within which lie those of the subgraphs the operator invokes; an *)
(* activation of InvokeSubgraph follows such a pass, and what it writes     *)
(* lives at a scope of its running operator's interval, which what it and   *)
(* its callers are to read lives through.                                   *)
(***************************************************************************)
EXTENDS GraphExecution, SequenceTheorems, TLAPS

OpCount(s) == Len(Subgraph(s).ops)
Graph == DOMAIN model.subgraphs
Callees(s, i) == ToSet(Op(s, i).subgraphs)

-----------------------------------------------------------------------------
(* What a well-formed model is made of *)

LEMMA ModelFacts ==
  ASSUME model \in Models
  PROVE  WellFormed(model) /\ model \in ModelRecords /\ 1 \in Graph
BY ModelAssumption DEF WellFormed, Graph

LEMMA GraphFacts ==
  ASSUME model \in Models, NEW s \in Graph
  PROVE  /\ s \in Nat /\ s > 0
         /\ Subgraph(s) \in Graphs
         /\ OpCount(s) \in Nat
         /\ DOMAIN Subgraph(s).ops = 1 .. OpCount(s)
         /\ InOrder(model, s)
<1>1. model.subgraphs \in Seq(Graphs)
  BY ModelFacts DEF ModelRecords
<1>2. s \in 1 .. Len(model.subgraphs) /\ Subgraph(s) \in Graphs
  BY <1>1 DEF Graph, Subgraph
<1>3. Subgraph(s).ops \in Seq(Operators)
  BY <1>2 DEF Graphs
<1>4. InOrder(model, s)
  BY ModelFacts DEF WellFormed, Graph
<1> QED
  BY <1>1, <1>2, <1>3, <1>4 DEF OpCount

LEMMA OpFacts ==
  ASSUME model \in Models, NEW s \in Graph, NEW i \in 1 .. OpCount(s)
  PROVE  /\ Op(s, i) \in Operators
         /\ Callees(s, i) \subseteq Graph
         /\ TakesCallees(model, Op(s, i))
<1>1. Subgraph(s).ops \in Seq(Operators)
  BY GraphFacts DEF Graphs
<1>2. Op(s, i) \in Operators
  BY <1>1 DEF Op, OpCount
<1>3. TakesCallees(model, Op(s, i))
  BY GraphFacts DEF InOrder, Op, Subgraph
<1> QED
  BY <1>2, <1>3 DEF TakesCallees, Callees, Graph

\* Every name stands for a buffer.
LEMMA NamedFacts ==
  ASSUME model \in Models, NEW s \in Graph
  PROVE  /\ Inputs(s) \subseteq Buffers /\ Outputs(s) \subseteq Buffers
         /\ \A i \in 1 .. OpCount(s) :
              /\ OpInputs(s, i) \subseteq Buffers
              /\ OpOutputs(s, i) \subseteq Buffers
              /\ OpScratch(s, i) \subseteq Scratch
         /\ Scratch \subseteq Buffers
<1> DEFINE g == model.subgraphs[s]
<1>1. ASSUME NEW t \in 1 .. g.tensors
      PROVE  <<s, t>> \in Buffers
  BY DEF Buffers, Tensors, Graph, Subgraph
<1>2. ASSUME NEW x, ToSet(x) \ {0} \subseteq 1 .. g.tensors
      PROVE  Named(s, x) \subseteq Buffers
  BY <1>1, <1>2 DEF Named
<1>3. g.tensors \in Nat
  BY GraphFacts DEF Graphs, Subgraph
<1>4. \A i : HasValue(model, s, i) \subseteq 1 .. g.tensors
  BY DEF HasValue
<1>5. Inputs(s) \subseteq Buffers /\ Outputs(s) \subseteq Buffers
  <2>1. ToSet(g.inputs) \ {0} \subseteq 1 .. g.tensors
    BY GraphFacts DEF InOrder
  <2>2. ToSet(g.outputs) \ {0} \subseteq 1 .. g.tensors
    BY <1>4, GraphFacts DEF InOrder
  <2> QED
    BY <1>2, <2>1, <2>2 DEF Inputs, Outputs, Subgraph
<1>6. ASSUME NEW i \in 1 .. OpCount(s)
      PROVE  /\ OpInputs(s, i) \subseteq Buffers
             /\ OpOutputs(s, i) \subseteq Buffers
             /\ OpScratch(s, i) \subseteq Scratch
  <2>1. i \in DOMAIN g.ops
    BY GraphFacts DEF Subgraph
  <2>2. ToSet(g.ops[i].inputs) \ {0} \subseteq 1 .. g.tensors
    BY <1>4, <2>1, GraphFacts DEF InOrder
  <2>3. ToSet(g.ops[i].outputs) \ {0} \subseteq 1 .. g.tensors
    BY <1>3, <2>1, GraphFacts DEF InOrder
  <2> QED
    BY <1>2, <2>2, <2>3 DEF OpInputs, OpOutputs, Op, Subgraph, OpScratch, Scratch
<1> QED
  BY <1>5, <1>6 DEF Buffers

-----------------------------------------------------------------------------
(* The passes of the marking *)

\* A buffer that lives from scope p to scope q, or longer.
Throughout(b, p, q) ==
  b \in Buffers /\ first_created[b] \in 0 .. p /\ q <= last_used[b]

\* What the marking of operator i over the scopes p .. q leaves behind.
OpMarked(s, i, p, q) ==
  /\ \A b \in OpOutputs(s, i) \union OpScratch(s, i) : Throughout(b, p, q)
  /\ \A b \in OpInputs(s, i) : b \in Buffers /\ q <= last_used[b]
  /\ OpScratch(s, i) \subseteq described

\* A pass over a subgraph: where it begins, and where each operator starts and
\* ends; as the interval of the operator after the last one, where it ends.
Passes == [subgraph : Graph, begin : Nat, starts : [Nat -> Nat], ends : [Nat -> Nat]]

End(w) == w.ends[OpCount(w.subgraph) + 1]

\* The intervals up to that of operator n.
Ordered(w, n) ==
  /\ \A i \in 1 .. n : w.begin <= w.starts[i] /\ w.starts[i] <= w.ends[i]
  /\ \A i, j \in 1 .. n : i < j => w.ends[i] <= w.starts[j]

\* A pass of set W over subgraph g within the scopes p .. q.
PassWithin(W, g, p, q) ==
  \E v \in W : v.subgraph = g /\ p <= v.begin /\ End(v) <= q

\* The operators up to n have been marked, and the subgraphs that they invoke.
MarkedUpto(W, w, n) ==
  \A i \in 1 .. n :
    /\ OpMarked(w.subgraph, i, w.starts[i], w.ends[i])
    /\ \A g \in Callees(w.subgraph, i) : PassWithin(W, g, w.starts[i], w.ends[i])

BeginMarked(w) == \A b \in Inputs(w.subgraph) : Throughout(b, w.begin, w.begin)
EndMarked(w) == \A b \in Outputs(w.subgraph) : Throughout(b, End(w), End(w))

Complete(W, w) ==
  /\ BeginMarked(w)
  /\ Ordered(w, OpCount(w.subgraph) + 1)
  /\ MarkedUpto(W, w, OpCount(w.subgraph))
  /\ EndMarked(w)

\* All passes that have come to their end: the largest set of complete passes
\* whose callees' passes are in it.
Closed(W) == \A w \in W : Complete(W, w)
Walked == UNION {W \in SUBSET Passes : Closed(W)}

LEMMA PassFacts ==
  ASSUME model \in Models, NEW w \in Passes
  PROVE  /\ w.subgraph \in Graph /\ w.begin \in Nat
         /\ OpCount(w.subgraph) \in Nat /\ End(w) \in Nat
         /\ \A i \in Nat : w.starts[i] \in Nat /\ w.ends[i] \in Nat
<1>1. w.subgraph \in Graph /\ w.begin \in Nat
      /\ w.starts \in [Nat -> Nat] /\ w.ends \in [Nat -> Nat]
  BY DEF Passes
<1>2. OpCount(w.subgraph) \in Nat
  BY <1>1, GraphFacts
<1> QED
  BY <1>1, <1>2 DEF End

LEMMA PassesGrow ==
  ASSUME NEW W, NEW V, W \subseteq V, NEW w, NEW n, MarkedUpto(W, w, n)
  PROVE  MarkedUpto(V, w, n)
BY DEF MarkedUpto, PassWithin

\* Pass v is pass w with an interval for operator i, after those before it.
Extends(v, w, i, p, q) ==
  /\ v.subgraph = w.subgraph /\ v.begin = w.begin
  /\ v.starts[i] = p /\ v.ends[i] = q
  /\ \A l \in 1 .. i - 1 : v.starts[l] = w.starts[l] /\ v.ends[l] = w.ends[l]
  /\ Ordered(v, i)
  /\ \A l \in 1 .. i : v.ends[l] <= q

LEMMA ExtendedPass ==
  ASSUME model \in Models, NEW w \in Passes, NEW i \in Nat \ {0}, NEW p \in Nat, NEW q \in Nat,
         w.begin <= p, p <= q, Ordered(w, i - 1), \A l \in 1 .. i - 1 : w.ends[l] <= p
  PROVE  \E v \in Passes : Extends(v, w, i, p, q)
<1> DEFINE a == [w.starts EXCEPT ![i] = p]
           b == [w.ends EXCEPT ![i] = q]
           v == [w EXCEPT !.starts = a, !.ends = b]
<1>1. /\ w.begin \in Nat /\ \A l \in Nat : w.starts[l] \in Nat /\ w.ends[l] \in Nat
      /\ w.starts \in [Nat -> Nat] /\ w.ends \in [Nat -> Nat]
  BY PassFacts DEF Passes
<1>2. /\ a \in [Nat -> Nat] /\ a[i] = p
      /\ b \in [Nat -> Nat] /\ b[i] = q
      /\ \A l \in 1 .. i - 1 : a[l] = w.starts[l] /\ b[l] = w.ends[l]
  BY <1>1
<1> HIDE DEF a, b
<1>3. /\ v \in Passes /\ v.subgraph = w.subgraph /\ v.begin = w.begin
      /\ v.starts = a /\ v.ends = b
  BY <1>2 DEF Passes
<1> HIDE DEF v
<1>4. /\ v.starts[i] = p /\ v.ends[i] = q
      /\ \A l \in 1 .. i - 1 : v.starts[l] = w.starts[l] /\ v.ends[l] = w.ends[l]
  BY <1>2, <1>3
<1>5. ASSUME NEW l \in 1 .. i
      PROVE  v.begin <= v.starts[l] /\ v.starts[l] <= v.ends[l] /\ v.ends[l] <= q
  <2>1. CASE l = i
    BY <1>3, <1>4, <2>1
  <2>2. CASE l # i
    <3>1. l \in 1 .. i - 1 /\ w.ends[l] \in Nat
      BY <1>1, <2>2
    <3>2. w.ends[l] <= q
      BY <3>1
    <3> QED
      BY <1>3, <1>4, <3>1, <3>2 DEF Ordered
  <2> QED
    BY <2>1, <2>2
<1>6. ASSUME NEW l \in 1 .. i, NEW m \in 1 .. i, l < m
      PROVE  v.ends[l] <= v.starts[m]
  <2>1. l \in 1 .. i - 1
    BY <1>6
  <2>2. CASE m = i
    BY <1>4, <2>1, <2>2
  <2>3. CASE m # i
    <3>1. m \in 1 .. i - 1
      BY <2>3
    <3> QED
      BY <1>4, <1>6, <2>1, <3>1 DEF Ordered
  <2> QED
    BY <2>2, <2>3
<1>7. Ordered(v, i)
  BY <1>5, <1>6 DEF Ordered
<1> QED
  BY <1>3, <1>4, <1>5, <1>7 DEF Extends

LEMMA WalkedFacts == Walked \subseteq Passes /\ Closed(Walked)
<1>1. ASSUME NEW w \in Walked
      PROVE  Complete(Walked, w)
  <2>1. PICK W \in SUBSET Passes : Closed(W) /\ w \in W
    BY DEF Walked
  <2>2. W \subseteq Walked
    BY <2>1 DEF Walked
  <2>3. Complete(W, w)
    BY <2>1 DEF Closed
  <2> QED
    BY <2>2, <2>3, PassesGrow DEF Complete
<1> QED
  BY <1>1 DEF Walked, Closed

\* A complete pass is among them.
TakesComplete == \A w \in Passes : Complete(Walked, w) => w \in Walked

LEMMA WalkedTakes == TakesComplete
<1> SUFFICES ASSUME NEW w \in Passes, Complete(Walked, w)
             PROVE  w \in Walked
  BY DEF TakesComplete
<1> DEFINE W == Walked \union {w}
<1>1. ASSUME NEW v \in W
      PROVE  Complete(W, v)
  <2>1. Complete(Walked, v)
    BY WalkedFacts DEF Closed
  <2> QED
    BY <2>1, PassesGrow DEF Complete
<1>2. W \in SUBSET Passes /\ Closed(W)
  BY <1>1, WalkedFacts DEF Closed
<1> HIDE DEF W
<1>3. W \subseteq Walked
  BY <1>2 DEF Walked
<1> QED
  BY <1>3 DEF W

LEMMA WalkedTakesNext == TakesComplete'
BY WalkedTakes, PTL

-----------------------------------------------------------------------------
(* The marking only lengthens lifetimes *)

Grows ==
  /\ model' = model
  /\ described \subseteq described'
  /\ \A b \in Buffers : /\ first_created[b] \in Nat => first_created'[b] = first_created[b]
                        /\ last_used[b] <= last_used'[b]

Lifetimes ==
  \A b \in Buffers : /\ first_created[b] \in {kUninitializedLifetime} \union Nat
                    /\ last_used[b] \in {kUninitializedLifetime} \union Nat
                    /\ first_created[b] <= allocation_scope_count_
                    /\ last_used[b] <= allocation_scope_count_

LEMMA ThroughoutGrows ==
  ASSUME Grows, Lifetimes, Lifetimes', NEW b, NEW p \in Nat, NEW q \in Nat,
         Throughout(b, p, q)
  PROVE  Throughout(b, p, q)'
BY DEF Grows, Lifetimes, Throughout, Buffers, Tensors, Scratch, Subgraph, kUninitializedLifetime

LEMMA GraphKept ==
  ASSUME model' = model
  PROVE  /\ Graph' = Graph /\ Passes' = Passes /\ Buffers' = Buffers /\ Scratch' = Scratch
         /\ \A s : /\ OpCount(s)' = OpCount(s)
                  /\ Inputs(s)' = Inputs(s) /\ Outputs(s)' = Outputs(s)
                  /\ Len(Subgraph(s).ops)' = Len(Subgraph(s).ops)
         /\ \A s, i : /\ Op(s, i)' = Op(s, i) /\ Callees(s, i)' = Callees(s, i)
                     /\ OpInputs(s, i)' = OpInputs(s, i)
                     /\ OpOutputs(s, i)' = OpOutputs(s, i)
                     /\ OpScratch(s, i)' = OpScratch(s, i)
         /\ \A w : End(w)' = End(w)
BY DEF Graph, Passes, Buffers, Scratch, Tensors, OpCount, Inputs, Outputs, Subgraph, Op,
       Callees, OpInputs, OpOutputs, OpScratch, Named, End

LEMMA OpMarkedGrows ==
  ASSUME Grows, Lifetimes, Lifetimes', NEW s, NEW i, NEW p \in Nat, NEW q \in Nat,
         OpMarked(s, i, p, q)
  PROVE  OpMarked(s, i, p, q)'
<1>1. model' = model
  BY DEF Grows
<1>2. \A b \in OpOutputs(s, i) \union OpScratch(s, i) : Throughout(b, p, q)'
  BY ThroughoutGrows DEF OpMarked
<1>3. \A b \in OpInputs(s, i) : b \in Buffers /\ q <= last_used'[b]
  BY <1>1, GraphKept DEF OpMarked, Grows, Lifetimes, kUninitializedLifetime
<1>4. OpScratch(s, i) \subseteq described'
  BY DEF OpMarked, Grows
<1> QED
  BY <1>1, <1>2, <1>3, <1>4, GraphKept DEF OpMarked

LEMMA MarkedUptoGrows ==
  ASSUME model \in Models, Grows, Lifetimes, Lifetimes', NEW W, NEW w \in Passes,
         NEW n \in Nat, MarkedUpto(W, w, n)
  PROVE  MarkedUpto(W, w, n)'
<1>1. model' = model
  BY DEF Grows
<1>2. \A i \in 1 .. n : OpMarked(w.subgraph, i, w.starts[i], w.ends[i])'
  BY PassFacts, OpMarkedGrows DEF MarkedUpto
<1> QED
  BY <1>1, <1>2, GraphKept DEF MarkedUpto, PassWithin

LEMMA WalkedGrows ==
  ASSUME model \in Models, Grows, Lifetimes, Lifetimes'
  PROVE  Walked \subseteq Walked'
<1>1. model' = model
  BY DEF Grows
<1>2. ASSUME NEW W \in SUBSET Passes, Closed(W), NEW w \in W
      PROVE  Complete(W, w)'
  <2>1. w \in Passes /\ Complete(W, w)
    BY <1>2 DEF Closed
  <2>2. w.begin \in Nat /\ End(w) \in Nat /\ OpCount(w.subgraph) \in Nat
    BY <2>1, PassFacts
  <2>3. BeginMarked(w)'
    BY <1>1, <2>1, <2>2, GraphKept, ThroughoutGrows DEF Complete, BeginMarked
  <2>4. EndMarked(w)'
    <3>1. \A b \in Outputs(w.subgraph) : Throughout(b, End(w), End(w))'
      BY <2>1, <2>2, <1>1, GraphKept, ThroughoutGrows DEF Complete, EndMarked
    <3> QED
      BY <1>1, <3>1, GraphKept DEF EndMarked
  <2>5. MarkedUpto(W, w, OpCount(w.subgraph))'
    BY <1>1, <2>1, <2>2, GraphKept, MarkedUptoGrows DEF Complete
  <2> QED
    BY <1>1, <2>1, <2>3, <2>4, <2>5, GraphKept DEF Complete, Ordered
<1>3. ASSUME NEW W \in SUBSET Passes, Closed(W)
      PROVE  W \subseteq Walked'
  <2>1. Closed(W)'
    BY <1>2, <1>3 DEF Closed
  <2> QED
    BY <1>1, <2>1, GraphKept DEF Walked
<1> QED
  BY <1>3 DEF Walked

-----------------------------------------------------------------------------
(* The marking *)

Activations ==
  [subgraph : Graph, op : Nat, busy : BOOLEAN, start : Nat, callees : Seq(Graph)]

\* Activation k is within its operator's subgraphs, and the scratch buffers of
\* the operator were not created after its start.
ActivationOK(k) ==
  LET c == calls[k]
  IN  /\ c.op <= OpCount(c.subgraph)
      /\ c.start <= allocation_scope_count_
      /\ c.busy =>
           /\ c.op > 0
           /\ ToSet(c.callees) \subseteq Callees(c.subgraph, c.op)
           /\ \A b \in OpScratch(c.subgraph, c.op) : first_created[b] <= c.start
      /\ k > 1 => c.busy /\ calls[k - 1].subgraph \in Callees(c.subgraph, c.op)

CallsOK ==
  /\ calls \in Seq(Activations)
  /\ \A k \in 1 .. Len(calls) : ActivationOK(k)
  /\ calls # <<>> => calls[Len(calls)].subgraph = 1

\* How far the operator that activation k has begun has come: its outputs are
\* created, and each subgraph it invokes is to be marked, being marked or marked.
Begun(k) ==
  LET c == calls[k]
  IN  /\ \A b \in OpOutputs(c.subgraph, c.op) : first_created[b] \in 0 .. c.start
      /\ \A g \in Callees(c.subgraph, c.op) :
           \/ g \in ToSet(c.callees)
           \/ k > 1 /\ calls[k - 1].subgraph = g
           \/ PassWithin(Walked, g, c.start, allocation_scope_count_)

Done(k) == IF calls[k].busy THEN calls[k].op - 1 ELSE calls[k].op

\* Pass w is what activation k has marked so far.
Marks(k, w) ==
  /\ w.subgraph = calls[k].subgraph
  /\ k < Len(calls) => calls[k + 1].start <= w.begin
  /\ w.begin <= allocation_scope_count_
  /\ BeginMarked(w)
  /\ Ordered(w, Done(k))
  /\ MarkedUpto(Walked, w, Done(k))
  /\ \A i \in 1 .. Done(k) : w.ends[i] <= allocation_scope_count_
  /\ calls[k].busy => /\ w.begin <= calls[k].start
                      /\ \A i \in 1 .. Done(k) : w.ends[i] <= calls[k].start

MarkingInv ==
  /\ model \in Models
  /\ allocation_scope_count_ \in Nat
  /\ Lifetimes
  /\ described \subseteq Scratch
  /\ CallsOK
  /\ \A k \in 1 .. Len(calls) : /\ \E w \in Passes : Marks(k, w)
                                /\ calls[k].busy => Begun(k)
  /\ Planned => \E w \in Walked : w.subgraph = 1

LEMMA MarkingInit == Init => MarkingInv
<1> SUFFICES ASSUME Init PROVE MarkingInv
  OBVIOUS
<1>1. model \in Models /\ 1 \in Graph /\ allocation_scope_count_ = 0
  BY ModelFacts DEF Init
<1>2. calls = <<Activation(1)>> /\ Activation(1) \in Activations
  BY <1>1 DEF Init, Activation, Activations
<1>3. calls \in Seq(Activations) /\ Len(calls) = 1 /\ calls[1] = Activation(1)
  BY <1>2
<1>4. \A b \in Buffers :
        /\ first_created[b] = IF b \in Inputs(1) THEN 0 ELSE kUninitializedLifetime
        /\ last_used[b] = IF b \in Inputs(1) THEN 0 ELSE kUninitializedLifetime
  BY DEF Init, UpdateFirstCreated, UpdateLastUsed, Unmarked
<1>5. Lifetimes
  BY <1>1, <1>4 DEF Lifetimes, kUninitializedLifetime
<1>6. CallsOK
  BY <1>1, <1>2, <1>3, GraphFacts DEF CallsOK, ActivationOK, Activation
<1>7. \E w \in Passes : Marks(1, w)
  <2> DEFINE w == [subgraph |-> 1, begin |-> 0, starts |-> [i \in Nat |-> 0],
                   ends |-> [i \in Nat |-> 0]]
  <2>1. w \in Passes
    BY <1>1 DEF Passes
  <2>2. Done(1) = 0 /\ ~calls[1].busy
    BY <1>3 DEF Done, Activation
  <2>3. BeginMarked(w)
    BY <1>1, <1>4, NamedFacts DEF BeginMarked, Throughout
  <2>4. Marks(1, w)
    BY <1>1, <1>3, <2>2, <2>3 DEF Marks, Ordered, MarkedUpto, Activation
  <2> QED
    BY <2>1, <2>4
<1>8. ~calls[1].busy /\ ~Planned
  BY <1>3 DEF Activation, Planned
<1> QED
  BY <1>1, <1>3, <1>5, <1>6, <1>7, <1>8 DEF MarkingInv, Init

LEMMA PushFacts ==
  ASSUME NEW S, NEW s \in Seq(S), NEW e \in S
  PROVE  /\ <<e>> \o s \in Seq(S)
         /\ Len(<<e>> \o s) = Len(s) + 1 /\ Len(s) \in Nat
         /\ (<<e>> \o s)[1] = e
         /\ \A k \in 2 .. Len(s) + 1 : (<<e>> \o s)[k] = s[k - 1]
OBVIOUS

LEMMA PopFacts ==
  ASSUME NEW S, NEW s \in Seq(S), s # <<>>
  PROVE  /\ Head(s) = s[1] /\ s[1] \in S
         /\ Tail(s) \in Seq(S)
         /\ Len(Tail(s)) = Len(s) - 1 /\ Len(s) \in Nat /\ Len(s) > 0
         /\ \A k \in 1 .. Len(s) - 1 : Tail(s)[k] = s[k + 1]
OBVIOUS

LEMMA SetOfHead ==
  ASSUME NEW S, NEW s \in Seq(S), s # <<>>
  PROVE  ToSet(s) = {Head(s)} \union ToSet(Tail(s))
<1>1. ToSet(s) = {s[k] : k \in 1 .. Len(s)} /\ Len(s) \in Nat
  BY DEF ToSet
<1>2. ToSet(Tail(s)) = {Tail(s)[k] : k \in 1 .. Len(s) - 1}
  <2>1. Tail(s) \in Seq(S) /\ Len(Tail(s)) = Len(s) - 1
    BY PopFacts
  <2>2. DOMAIN Tail(s) = 1 .. Len(s) - 1
    BY <2>1
  <2> QED
    BY <2>2 DEF ToSet
<1>3. \A k \in 1 .. Len(s) - 1 : Tail(s)[k] = s[k + 1] /\ k + 1 \in 1 .. Len(s)
  BY PopFacts
<1>4. \A k \in 1 .. Len(s) : k = 1 \/ (k - 1 \in 1 .. Len(s) - 1 /\ Tail(s)[k - 1] = s[k])
  BY PopFacts
<1>5. Head(s) = s[1] /\ 1 \in 1 .. Len(s)
  BY PopFacts
<1>6. ToSet(s) \subseteq {Head(s)} \union ToSet(Tail(s))
  <2>1. ASSUME NEW k \in 1 .. Len(s)
        PROVE  s[k] = Head(s) \/ s[k] \in ToSet(Tail(s))
    <3>1. CASE k = 1
      BY <1>5, <3>1
    <3>2. CASE k # 1
      <4>1. k - 1 \in 1 .. Len(s) - 1 /\ Tail(s)[k - 1] = s[k]
        BY <1>4, <3>2
      <4> QED
        BY <1>2, <4>1
    <3> QED
      BY <3>1, <3>2
  <2> QED
    BY <1>1, <2>1
<1>7. {Head(s)} \union ToSet(Tail(s)) \subseteq ToSet(s)
  BY <1>1, <1>2, <1>3, <1>5
<1> QED
  BY <1>6, <1>7

LEMMA TopFacts ==
  ASSUME NEW S, NEW s \in Seq(S), s # <<>>, NEW e \in S
  PROVE  /\ [s EXCEPT ![1] = e] \in Seq(S)
         /\ Len([s EXCEPT ![1] = e]) = Len(s) /\ Len(s) \in Nat /\ Len(s) > 0
         /\ [s EXCEPT ![1] = e][1] = e
         /\ \A k \in 2 .. Len(s) : [s EXCEPT ![1] = e][k] = s[k]
         /\ [s EXCEPT ![1] = e] # <<>>
OBVIOUS

\* The marking of buffers X as created at scope f and of buffers Y as used last
\* at scope c, which the count reaches.
Updated(X, Y, f, c) ==
  /\ f \in 0 .. c /\ c \in Nat
  /\ allocation_scope_count_ <= c /\ allocation_scope_count_' = c
  /\ model' = model /\ described \subseteq described'
  /\ first_created' = UpdateFirstCreated(first_created, X, f)
  /\ \A b \in Buffers : last_used'[b] = IF b \in Y THEN c ELSE last_used[b]

LEMMA UpdateFacts ==
  ASSUME MarkingInv, NEW X, NEW Y, NEW f, NEW c, Updated(X, Y, f, c)
  PROVE  /\ Grows /\ Lifetimes'
         /\ \A b \in Buffers :
              /\ b \in Y => last_used'[b] = c
              /\ b \in X => first_created'[b] \in 0 .. c
              /\ b \in X /\ first_created[b] <= f => first_created'[b] \in 0 .. f
              /\ b \notin X => first_created'[b] = first_created[b]
<1>1. \A b \in Buffers :
        first_created'[b] = IF b \in X /\ first_created[b] = kUninitializedLifetime
                            THEN f ELSE first_created[b]
  BY DEF Updated, UpdateFirstCreated
<1>2. Buffers' = Buffers /\ model' = model
  BY GraphKept DEF Updated
<1>3. /\ f \in 0 .. c /\ c \in Nat
      /\ allocation_scope_count_ <= c /\ allocation_scope_count_' = c
      /\ described \subseteq described' /\ allocation_scope_count_ \in Nat
      /\ \A b \in Buffers : last_used'[b] = IF b \in Y THEN c ELSE last_used[b]
  BY DEF Updated, MarkingInv
<1>4. Lifetimes
  BY DEF MarkingInv
<1> QED
  BY <1>1, <1>2, <1>3, <1>4 DEF Grows, Lifetimes, kUninitializedLifetime

LEMMA ActivationFacts ==
  ASSUME MarkingInv, NEW k \in 1 .. Len(calls)
  PROVE  /\ calls[k] \in Activations /\ calls[k].subgraph \in Graph
         /\ calls[k].op \in Nat /\ calls[k].start \in Nat /\ calls[k].busy \in BOOLEAN
         /\ calls[k].callees \in Seq(Graph)
         /\ OpCount(calls[k].subgraph) \in Nat
         /\ calls[k].op <= OpCount(calls[k].subgraph)
         /\ calls[k].busy => calls[k].op \in 1 .. OpCount(calls[k].subgraph)
         /\ Done(k) \in Nat /\ Done(k) <= OpCount(calls[k].subgraph)
         /\ calls[k].start <= allocation_scope_count_
<1>1. calls \in Seq(Activations)
  BY DEF MarkingInv, CallsOK
<1>2. calls[k] \in Activations
  BY <1>1
<1>3. /\ calls[k].subgraph \in Graph /\ calls[k].op \in Nat /\ calls[k].start \in Nat
      /\ calls[k].busy \in BOOLEAN /\ calls[k].callees \in Seq(Graph)
  BY <1>2 DEF Activations
<1>4. OpCount(calls[k].subgraph) \in Nat
  BY <1>3, GraphFacts DEF MarkingInv
<1>5. /\ calls[k].op <= OpCount(calls[k].subgraph)
      /\ calls[k].busy => calls[k].op > 0
      /\ calls[k].start <= allocation_scope_count_
  BY DEF MarkingInv, CallsOK, ActivationOK
<1> QED
  BY <1>2, <1>3, <1>4, <1>5 DEF Done

LEMMA PassKept ==
  ASSUME MarkingInv, Grows, Lifetimes', NEW w \in Passes, NEW n \in Nat,
         BeginMarked(w), MarkedUpto(Walked, w, n)
  PROVE  BeginMarked(w)' /\ MarkedUpto(Walked, w, n)'
<1>1. model' = model /\ model \in Models
  BY DEF Grows, MarkingInv
<1>2. w.begin \in Nat /\ \A i \in Nat : w.starts[i] \in Nat /\ w.ends[i] \in Nat
  BY <1>1, PassFacts
<1>3. BeginMarked(w)'
  BY <1>1, <1>2, GraphKept, ThroughoutGrows DEF BeginMarked, MarkingInv
<1>4. \A i \in 1 .. n : OpMarked(w.subgraph, i, w.starts[i], w.ends[i])'
  BY <1>2, OpMarkedGrows DEF MarkedUpto, MarkingInv
<1>5. Walked \subseteq Walked'
  BY <1>1, WalkedGrows DEF MarkingInv
<1> QED
  BY <1>1, <1>3, <1>4, <1>5, GraphKept DEF MarkedUpto, PassWithin

\* An activation, now at place j of the stack, keeps what it has marked.
LEMMA MarksKept ==
  ASSUME MarkingInv, Grows, Lifetimes', allocation_scope_count_' \in Nat,
         allocation_scope_count_ <= allocation_scope_count_',
         NEW k \in 1 .. Len(calls), NEW j \in Nat,
         calls'[j].subgraph = calls[k].subgraph, Done(j)' = Done(k),
         calls'[j].busy => calls[k].busy /\ calls'[j].start = calls[k].start,
         j < Len(calls') => k < Len(calls) /\ calls'[j + 1].start = calls[k + 1].start,
         NEW w \in Passes, Marks(k, w)
  PROVE  Marks(j, w)'
<1>1. model' = model /\ model \in Models
  BY DEF Grows, MarkingInv
<1>2. w.begin \in Nat /\ \A i \in Nat : w.starts[i] \in Nat /\ w.ends[i] \in Nat
  BY <1>1, PassFacts
<1>3. PICK n \in Nat : n = Done(k)
  BY ActivationFacts
<1>4. BeginMarked(w) /\ MarkedUpto(Walked, w, n)
  BY <1>3 DEF Marks
<1>5. BeginMarked(w)' /\ MarkedUpto(Walked, w, n)'
  BY <1>4, PassKept
<1>6. Ordered(w, n)
  BY <1>3 DEF Marks
<1>7. \A i \in 1 .. n : w.ends[i] <= allocation_scope_count_'
  BY <1>2, <1>3 DEF Marks, MarkingInv
<1>8. w.begin <= allocation_scope_count_'
  BY <1>2 DEF Marks, MarkingInv
<1>9. Done(j)' = n
  BY <1>3
<1>10. calls'[j].busy => /\ w.begin <= calls'[j].start
                        /\ \A i \in 1 .. n : w.ends[i] <= calls'[j].start
  BY <1>3 DEF Marks
<1>11. j < Len(calls') => calls'[j + 1].start <= w.begin
  BY DEF Marks
<1>12. w.subgraph = calls'[j].subgraph
  BY DEF Marks
<1> QED
  BY <1>5, <1>6, <1>7, <1>8, <1>9, <1>10, <1>11, <1>12 DEF Marks, Ordered

LEMMA BegunKept ==
  ASSUME MarkingInv, Grows, Lifetimes', allocation_scope_count_' \in Nat,
         allocation_scope_count_ <= allocation_scope_count_',
         NEW k \in 1 .. Len(calls), NEW j \in Nat, calls[k].busy, Begun(k),
         calls'[j].subgraph = calls[k].subgraph, calls'[j].op = calls[k].op,
         calls'[j].start = calls[k].start,
         \A g \in Callees(calls[k].subgraph, calls[k].op) :
           g \in ToSet(calls[k].callees) \/ (k > 1 /\ calls[k - 1].subgraph = g) =>
             \/ g \in ToSet(calls'[j].callees)
             \/ j > 1 /\ calls'[j - 1].subgraph = g
             \/ PassWithin(Walked, g, calls[j].start, allocation_scope_count_)'
  PROVE  Begun(j)'
<1>1. model' = model /\ model \in Models
  BY DEF Grows, MarkingInv
<1>2. /\ calls[k] \in Activations /\ calls[k].subgraph \in Graph
      /\ calls[k].op \in 1 .. OpCount(calls[k].subgraph)
  BY ActivationFacts
<1>3. ASSUME NEW b \in OpOutputs(calls[k].subgraph, calls[k].op)
      PROVE  first_created'[b] \in 0 .. calls[k].start
  BY <1>1, <1>2, NamedFacts DEF Begun, Grows
<1>4. ASSUME NEW g, PassWithin(Walked, g, calls[k].start, allocation_scope_count_)
      PROVE  PassWithin(Walked, g, calls[j].start, allocation_scope_count_)'
  <2>1. PICK v \in Walked : /\ v.subgraph = g /\ calls[k].start <= v.begin
                            /\ End(v) <= allocation_scope_count_
    BY <1>4 DEF PassWithin
  <2>2. v \in Walked' /\ End(v)' = End(v) /\ End(v) \in Nat
    BY <1>1, WalkedGrows, WalkedFacts, PassFacts, GraphKept DEF MarkingInv
  <2>3. End(v) <= allocation_scope_count_'
    BY <2>1, <2>2 DEF MarkingInv
  <2> QED
    BY <2>1, <2>2, <2>3 DEF PassWithin
<1>5. OpOutputs(calls[j].subgraph, calls[j].op)' = OpOutputs(calls[k].subgraph, calls[k].op)
  BY <1>1, GraphKept
<1>6. Callees(calls[j].subgraph, calls[j].op)' = Callees(calls[k].subgraph, calls[k].op)
  BY <1>1, GraphKept
<1> QED
  BY <1>3, <1>4, <1>5, <1>6 DEF Begun

\* Tensors are not scratch buffers, and those have one operator each.
LEMMA ScratchApart ==
  ASSUME model \in Models, NEW s \in Graph
  PROVE  /\ \A b \in Scratch : b \notin Inputs(s) /\ b \notin Outputs(s)
         /\ \A i : OpScratch(s, i) \subseteq Scratch
         /\ \A i : \A b \in Scratch : b \notin OpInputs(s, i) /\ b \notin OpOutputs(s, i)
         /\ \A i, r, j : r # s => OpScratch(s, i) \intersect OpScratch(r, j) = {}
<1>1. s # 0
  BY GraphFacts
<1>2. ASSUME NEW x, NEW b \in Scratch
      PROVE  b \notin Named(s, x)
  BY <1>1 DEF Scratch, Named
<1> QED
  BY <1>2 DEF Inputs, Outputs, OpInputs, OpOutputs, OpScratch, Scratch

LEMMA ActivationKept ==
  ASSUME MarkingInv, Grows, Lifetimes', allocation_scope_count_' \in Nat,
         allocation_scope_count_ <= allocation_scope_count_',
         NEW k \in 1 .. Len(calls), NEW j \in Nat,
         calls'[j].subgraph = calls[k].subgraph, calls'[j].op = calls[k].op,
         calls'[j].start = calls[k].start, calls'[j].busy = calls[k].busy,
         ToSet(calls'[j].callees) \subseteq ToSet(calls[k].callees),
         \A b \in OpScratch(calls[k].subgraph, calls[k].op) :
           first_created'[b] = first_created[b],
         j > 1 => /\ calls[k].busy
                  /\ calls'[j - 1].subgraph \in Callees(calls[k].subgraph, calls[k].op)
  PROVE  ActivationOK(j)'
<1>1. model' = model
  BY DEF Grows
<1>2. /\ OpCount(calls[j].subgraph)' = OpCount(calls[k].subgraph)
      /\ Callees(calls[j].subgraph, calls[j].op)' = Callees(calls[k].subgraph, calls[k].op)
      /\ OpScratch(calls[j].subgraph, calls[j].op)' = OpScratch(calls[k].subgraph, calls[k].op)
  BY <1>1, GraphKept
<1>3. ActivationOK(k) /\ calls[k].start \in Nat /\ allocation_scope_count_ \in Nat
  BY ActivationFacts DEF MarkingInv, CallsOK
<1> QED
  BY <1>2, <1>3 DEF ActivationOK

\* No subgraph is on the stack twice.
LEMMA StackFacts ==
  ASSUME MarkingInv, NEW k \in 2 .. Len(calls)
  PROVE  calls[k].subgraph # calls[1].subgraph
<1> SUFFICES ASSUME calls[k].subgraph = calls[1].subgraph
             PROVE  FALSE
  OBVIOUS
<1> DEFINE R == {calls[l].subgraph : l \in 1 .. k - 1}
<1>1. Len(calls) \in Nat /\ model \in Models
  BY DEF MarkingInv, CallsOK
<1>2. ASSUME NEW l \in 2 .. k
      PROVE  /\ calls[l].op \in 1 .. OpCount(calls[l].subgraph)
             /\ calls[l - 1].subgraph \in Callees(calls[l].subgraph, calls[l].op)
             /\ calls[l - 1].subgraph \in R
  <2>1. l \in 1 .. Len(calls) /\ l > 1
    BY <1>1
  <2>2. ActivationOK(l) /\ ActivationOK(k)
    BY <2>1 DEF MarkingInv, CallsOK
  <2> QED
    BY <2>1, <2>2, ActivationFacts DEF ActivationOK
<1>3. R \subseteq Graph /\ R # {}
  BY <1>1, ActivationFacts, SMTT(60)
<1>4. ASSUME NEW g \in R
      PROVE  \E i \in 1 .. OpCount(g) : Callees(g, i) \intersect R # {}
  <2>1. PICK l \in 1 .. k - 1 : g = calls[l].subgraph
    OBVIOUS
  <2>2. PICK m \in 2 .. k : g = calls[m].subgraph
    <3>1. CASE l = 1
      BY <2>1, <3>1
    <3>2. CASE l # 1
      BY <2>1, <3>2
    <3> QED
      BY <3>1, <3>2
  <2> QED
    BY <1>2, <2>2
<1> HIDE DEF R
<1>5. PICK g \in R : \A i \in DOMAIN model.subgraphs[g].ops :
                       ToSet(model.subgraphs[g].ops[i].subgraphs) \intersect R = {}
  BY <1>1, <1>3, ModelFacts DEF WellFormed, NoRecursion, Graph
<1>6. \A i \in 1 .. OpCount(g) : Callees(g, i) \intersect R = {}
  BY <1>1, <1>3, <1>5, GraphFacts DEF Callees, Op, Subgraph
<1> QED
  BY <1>4, <1>6

LEMMA BeginOperatorStep == MarkingInv /\ BeginOperator => MarkingInv'
<1> SUFFICES ASSUME MarkingInv, BeginOperator
             PROVE  MarkingInv'
  OBVIOUS
<1> DEFINE s == Current.subgraph
           i == Current.op + 1
           top == [subgraph |-> s, op |-> i, busy |-> TRUE, start |-> NextScope,
                   callees |-> Op(s, i).subgraphs]
           X == OpOutputs(s, i)
<1> PICK n \in Nat : n = allocation_scope_count_
  BY DEF MarkingInv
<1>1. /\ model \in Models /\ model' = model /\ n \in Nat /\ NextScope = n + 1
      /\ allocation_scope_count_' = n + 1 /\ described' = described
      /\ last_used' = last_used /\ calls' = [calls EXCEPT ![1] = top]
      /\ first_created' = UpdateFirstCreated(first_created, X, n + 1)
  BY DEF MarkingInv, BeginOperator, NextScope
<1>2. calls \in Seq(Activations) /\ calls # <<>> /\ Current = calls[1] /\ 1 \in 1 .. Len(calls)
  BY DEF MarkingInv, CallsOK, BeginOperator, Marking, Current
<1>3. /\ s \in Graph /\ calls[1].op \in Nat /\ OpCount(s) \in Nat
      /\ i \in 1 .. OpCount(s) /\ ~calls[1].busy
      /\ s = calls[1].subgraph /\ i = calls[1].op + 1
  BY <1>2, ActivationFacts DEF BeginOperator, OpCount
<1>4. /\ Op(s, i) \in Operators /\ Op(s, i).subgraphs \in Seq(Graph)
      /\ ToSet(Op(s, i).subgraphs) = Callees(s, i)
  <2>1. Op(s, i).subgraphs \in Seq(Nat) /\ Op(s, i) \in Operators
    BY <1>1, <1>3, OpFacts DEF Operators
  <2>2. ToSet(Op(s, i).subgraphs) \subseteq Graph
    BY <1>1, <1>3, OpFacts DEF Callees
  <2> QED
    BY <2>1, <2>2 DEF ToSet, Callees
<1>5. /\ top \in Activations
      /\ top.subgraph = s /\ top.op = i /\ top.busy /\ top.start = n + 1
      /\ ToSet(top.callees) = Callees(s, i)
  <2>1. NextScope \in Nat /\ i \in Nat
    BY <1>1, <1>3
  <2>2. top \in Activations
    BY <1>3, <1>4, <2>1 DEF Activations
  <2> QED
    BY <1>1, <1>4, <2>2
<1>6. X \subseteq Buffers
  BY <1>1, <1>3, NamedFacts
<1>7. \A b \in Scratch : b \in Buffers /\ b \notin X
  BY <1>1, <1>3, ScratchApart DEF Buffers
<1> HIDE DEF top, X
<1>8. /\ calls' \in Seq(Activations) /\ Len(calls') = Len(calls) /\ Len(calls) \in Nat
      /\ calls'[1] = top /\ \A k \in 2 .. Len(calls) : calls'[k] = calls[k]
      /\ calls' # <<>>
  BY <1>1, <1>2, <1>5, TopFacts
<1>9. /\ Grows /\ Lifetimes' /\ n <= n + 1 /\ n + 1 \in Nat
       /\ \A b \in Buffers :
            /\ b \in X => first_created'[b] \in 0 .. n + 1
            /\ b \notin X => first_created'[b] = first_created[b]
  <2>1. n + 1 \in 0 .. n + 1 /\ n <= n + 1 /\ n + 1 \in Nat
    BY <1>1
  <2>2. Updated(X, {}, n + 1, n + 1)
    BY <1>1, <2>1 DEF Updated
  <2> QED
    BY <2>1, <2>2, UpdateFacts
<1>10. ASSUME NEW k \in 2 .. Len(calls)
       PROVE  /\ k \in 1 .. Len(calls) /\ k \in Nat /\ calls'[k] = calls[k]
              /\ k < Len(calls) => calls'[k + 1] = calls[k + 1]
              /\ calls'[k - 1].subgraph = calls[k - 1].subgraph
              /\ calls[k].busy
  <2>1. k \in 1 .. Len(calls) /\ k \in Nat /\ k > 1
        /\ (k = 2 \/ k - 1 \in 2 .. Len(calls))
        /\ (k < Len(calls) => k + 1 \in 2 .. Len(calls))
    BY <1>8
  <2>2. calls[k].busy
    BY <2>1 DEF MarkingInv, CallsOK, ActivationOK
  <2>3. calls'[k - 1].subgraph = calls[k - 1].subgraph
    <3>1. CASE k = 2
      BY <1>3, <1>5, <1>8, <3>1
    <3>2. CASE k # 2
      BY <1>8, <2>1, <3>2
    <3> QED
      BY <3>1, <3>2
  <2> QED
    BY <1>8, <2>1, <2>2, <2>3
<1>11. CallsOK'
  <2>1. ActivationOK(1)'
    <3>1. \A b \in OpScratch(s, i) : first_created'[b] <= n + 1
      BY <1>1, <1>3, <1>7, <1>9, ScratchApart
         DEF MarkingInv, Lifetimes, kUninitializedLifetime
    <3> QED
      BY <1>1, <1>3, <1>5, <1>8, <3>1, GraphKept DEF ActivationOK
  <2>2. ASSUME NEW k \in 2 .. Len(calls)
        PROVE  ActivationOK(k)'
    <3>1. calls[k].subgraph \in Graph
      BY <1>10, ActivationFacts
    <3>2. \A b \in OpScratch(calls[k].subgraph, calls[k].op) :
            first_created'[b] = first_created[b]
      BY <1>1, <1>7, <1>9, <3>1, ScratchApart
    <3>3. calls[k - 1].subgraph \in Callees(calls[k].subgraph, calls[k].op)
      BY <1>10 DEF MarkingInv, CallsOK, ActivationOK
    <3> QED
      BY <1>1, <1>9, <1>10, <3>2, <3>3, ActivationKept
  <2>3. calls'[Len(calls')].subgraph = 1
    <3>1. calls'[Len(calls')].subgraph = calls[Len(calls)].subgraph
      BY <1>2, <1>3, <1>5, <1>8
    <3> QED
      BY <1>2, <3>1 DEF MarkingInv, CallsOK
  <2> QED
    BY <1>8, <2>1, <2>2, <2>3, <1>1, GraphKept DEF CallsOK, Activations
<1>12. (\E w \in Passes : Marks(1, w))' /\ Begun(1)'
  <2>1. PICK w \in Passes : Marks(1, w)
    BY <1>2 DEF MarkingInv
  <2>2. PICK d \in Nat : d = Done(1)
    BY <1>2, ActivationFacts
  <2>3. d = calls[1].op /\ Done(1)' = d
    BY <1>3, <1>5, <1>8, <2>2 DEF Done
  <2>4. /\ w.begin \in Nat /\ \A l \in Nat : w.starts[l] \in Nat /\ w.ends[l] \in Nat
    BY <1>1, PassFacts
  <2>5. BeginMarked(w) /\ MarkedUpto(Walked, w, d)
    BY <2>1, <2>2 DEF Marks
  <2>6. BeginMarked(w)' /\ MarkedUpto(Walked, w, d)'
    BY <1>9, <2>5, PassKept
  <2>7. /\ w.subgraph = s /\ w.begin <= n /\ Ordered(w, d)
        /\ \A l \in 1 .. d : w.ends[l] <= n
        /\ 1 < Len(calls) => calls[2].start <= w.begin
    BY <1>3, <2>1, <2>2 DEF Marks
  <2>8. 1 < Len(calls') => calls'[2].start <= w.begin
    BY <1>8, <2>7
  <2>9. Marks(1, w)'
    <3>1. w.begin <= n + 1 /\ \A l \in 1 .. d : w.ends[l] <= n + 1
      BY <2>4, <2>7
    <3> QED
      BY <1>1, <1>5, <1>8, <2>3, <2>6, <2>7, <2>8, <3>1 DEF Marks, Ordered
  <2>10. Begun(1)'
    <3>1. /\ Callees(calls[1].subgraph, calls[1].op)' = Callees(s, i)
          /\ OpOutputs(calls[1].subgraph, calls[1].op)' = X
      BY <1>1, <1>5, <1>8, GraphKept DEF X
    <3>2. \A b \in X : first_created'[b] \in 0 .. n + 1
      BY <1>6, <1>9
    <3> QED
      BY <1>5, <1>8, <3>1, <3>2 DEF Begun
  <2> QED
    BY <1>1, <2>9, <2>10, GraphKept
<1>13. ASSUME NEW k \in 2 .. Len(calls)
       PROVE  (\E w \in Passes : Marks(k, w))' /\ (calls'[k].busy => Begun(k)')
  <2>1. PICK w \in Passes : Marks(k, w)
    BY <1>10 DEF MarkingInv
  <2>2. Done(k)' = Done(k)
    BY <1>10 DEF Done
  <2>3. Marks(k, w)'
    BY <1>1, <1>8, <1>9, <1>10, <2>1, <2>2, MarksKept
  <2>4. calls'[k].busy => Begun(k)'
    BY <1>1, <1>8, <1>9, <1>10, BegunKept DEF MarkingInv
  <2> QED
    BY <1>1, <2>3, <2>4, GraphKept
<1>14. ~Planned' /\ described' \subseteq Scratch'
  BY <1>1, <1>8, GraphKept DEF Planned, MarkingInv
<1>15. \A k \in 1 .. Len(calls') : k = 1 \/ k \in 2 .. Len(calls)
  BY <1>8
<1> QED
  BY <1>1, <1>9, <1>11, <1>12, <1>13, <1>14, <1>15 DEF MarkingInv

LEMMA EndOperatorStep == MarkingInv /\ EndOperator => MarkingInv'
<1> SUFFICES ASSUME MarkingInv, EndOperator
             PROVE  MarkingInv'
  OBVIOUS
<1> PICK n \in Nat : n = allocation_scope_count_
  BY DEF MarkingInv
<1>0. /\ 1 \in 1 .. Len(calls) /\ Current = calls[1]
      /\ calls[1].subgraph \in Graph /\ calls[1].op \in Nat /\ calls[1].start \in Nat
  <2>1. calls \in Seq(Activations) /\ calls # <<>>
    BY DEF MarkingInv, CallsOK, EndOperator, Marking
  <2>2. 1 \in 1 .. Len(calls)
    BY <2>1
  <2> QED
    BY <2>2, ActivationFacts DEF Current
<1> PICK s \in Graph, i \in Nat, p \in Nat :
           s = calls[1].subgraph /\ i = calls[1].op /\ p = calls[1].start
  BY <1>0
<1> DEFINE top == [calls[1] EXCEPT !.busy = FALSE]
           X == OpScratch(s, i)
           Y == OpInputs(s, i) \union OpOutputs(s, i) \union OpScratch(s, i)
<1>1. /\ model \in Models /\ model' = model
      /\ allocation_scope_count_' = n /\ described' = described \union X
      /\ last_used' = UpdateLastUsed(last_used, Y, n)
      /\ first_created' = UpdateFirstCreated(first_created, X, p)
      /\ Marking /\ Current.busy /\ Current.callees = <<>>
      /\ calls' = [calls EXCEPT ![1].busy = FALSE]
  BY <1>0 DEF MarkingInv, EndOperator
<1>2. /\ calls \in Seq(Activations) /\ calls # <<>> /\ Current = calls[1] /\ 1 \in 1 .. Len(calls)
      /\ calls' = [calls EXCEPT ![1] = top]
  BY <1>1 DEF MarkingInv, CallsOK, Marking, Current
<1>3. /\ OpCount(s) \in Nat /\ i \in 1 .. OpCount(s) /\ p \in 0 .. n
      /\ calls[1].busy /\ calls[1].callees = <<>>
      /\ calls[1] \in Activations
  BY <1>1, <1>2, ActivationFacts
<1>4. /\ top \in Activations
      /\ top.subgraph = s /\ top.op = i /\ ~top.busy /\ top.start = p
  BY <1>3 DEF Activations
<1>5. X \subseteq Buffers /\ Y \subseteq Buffers /\ X \subseteq Scratch
  BY <1>1, <1>3, NamedFacts DEF Buffers
<1>6. /\ OpInputs(s, i) \subseteq Y /\ OpOutputs(s, i) \subseteq Y /\ X \subseteq Y
      /\ OpScratch(s, i) = X
  OBVIOUS
<1> HIDE DEF top, X, Y
<1>7. /\ calls' \in Seq(Activations) /\ Len(calls') = Len(calls) /\ Len(calls) \in Nat
      /\ calls'[1] = top /\ \A k \in 2 .. Len(calls) : calls'[k] = calls[k]
      /\ calls' # <<>>
  BY <1>2, <1>4, TopFacts
<1>8. /\ Grows /\ Lifetimes'
      /\ \A b \in Buffers :
           /\ b \in Y => last_used'[b] = n
           /\ b \in X /\ first_created[b] <= p =>
                first_created'[b] \in 0 .. p
           /\ b \notin X => first_created'[b] = first_created[b]
  <2>1. Updated(X, Y, p, n)
    BY <1>1, <1>3 DEF Updated, UpdateLastUsed
  <2> QED
    BY <2>1, UpdateFacts
<1>9. ASSUME NEW k \in 2 .. Len(calls)
      PROVE  /\ k \in 1 .. Len(calls) /\ k \in Nat /\ calls'[k] = calls[k]
             /\ k < Len(calls) => calls'[k + 1] = calls[k + 1]
             /\ calls'[k - 1].subgraph = calls[k - 1].subgraph
             /\ calls[k].busy
  <2>1. k \in 1 .. Len(calls) /\ k \in Nat /\ k > 1
        /\ (k = 2 \/ k - 1 \in 2 .. Len(calls))
        /\ (k < Len(calls) => k + 1 \in 2 .. Len(calls))
    BY <1>7
  <2>2. calls[k].busy
    BY <2>1 DEF MarkingInv, CallsOK, ActivationOK
  <2>3. calls'[k - 1].subgraph = calls[k - 1].subgraph
    <3>1. CASE k = 2
      BY <1>4, <1>7, <3>1
    <3>2. CASE k # 2
      BY <1>7, <2>1, <3>2
    <3> QED
      BY <3>1, <3>2
  <2> QED
    BY <1>7, <2>1, <2>2, <2>3
<1>10. CallsOK'
  <2>1. ActivationOK(1)'
    BY <1>1, <1>3, <1>4, <1>7, GraphKept DEF ActivationOK
  <2>2. ASSUME NEW k \in 2 .. Len(calls)
        PROVE  ActivationOK(k)'
    <3>1. calls[k].subgraph \in Graph /\ calls[k].subgraph # s
      BY <1>3, <1>9, ActivationFacts, StackFacts
    <3>2. \A b \in OpScratch(calls[k].subgraph, calls[k].op) :
            first_created'[b] = first_created[b]
      BY <1>1, <1>3, <1>6, <1>8, <3>1, ScratchApart DEF Buffers
    <3>3. calls[k - 1].subgraph \in Callees(calls[k].subgraph, calls[k].op)
      BY <1>9 DEF MarkingInv, CallsOK, ActivationOK
    <3>4. allocation_scope_count_' \in Nat /\ allocation_scope_count_ <= allocation_scope_count_'
      BY <1>1
    <3> QED
      BY <1>8, <1>9, <3>2, <3>3, <3>4, ActivationKept
  <2>3. calls'[Len(calls')].subgraph = 1
    <3>1. calls'[Len(calls')].subgraph = calls[Len(calls)].subgraph
      BY <1>2, <1>3, <1>4, <1>7
    <3> QED
      BY <1>2, <3>1 DEF MarkingInv, CallsOK
  <2> QED
    BY <1>7, <2>1, <2>2, <2>3, <1>1, GraphKept DEF CallsOK, Activations
<1>11. OpMarked(s, i, p, n)'
  <2>1. ASSUME NEW b \in OpOutputs(s, i) \union X
        PROVE  /\ b \in Buffers /\ first_created'[b] \in 0 .. p
               /\ last_used'[b] = n
    <3>1. b \in Buffers /\ last_used'[b] = n
      BY <1>5, <1>6, <1>8
    <3>2. CASE b \in X
      <4>1. first_created[b] <= p
        BY <1>2, <1>3, <1>6, <3>2 DEF MarkingInv, CallsOK, ActivationOK
      <4> QED
        BY <1>8, <3>1, <3>2, <4>1
    <3>3. CASE b \notin X
      BY <1>2, <1>3, <1>8, <3>1, <3>3 DEF MarkingInv, Begun
    <3> QED
      BY <3>1, <3>2, <3>3
  <2>2. \A b \in OpInputs(s, i) : b \in Buffers /\ last_used'[b] = n
    BY <1>5, <1>6, <1>8
  <2> QED
    BY <1>1, <1>6, <2>1, <2>2, GraphKept DEF OpMarked, Throughout
<1>12. (\E w \in Passes : Marks(1, w))'
  <2>1. PICK w \in Passes : Marks(1, w)
    BY <1>2 DEF MarkingInv
  <2>2. Done(1) = i - 1 /\ Done(1)' = i /\ i \in Nat \ {0} /\ i - 1 \in Nat
    BY <1>3, <1>4, <1>7 DEF Done
  <2>3. /\ w.subgraph = s /\ w.begin <= p /\ p <= n /\ Ordered(w, i - 1)
        /\ \A l \in 1 .. i - 1 : w.ends[l] <= p
        /\ 1 < Len(calls) => calls[2].start <= w.begin
    BY <1>3, <2>1, <2>2 DEF Marks
  <2>4. PICK v \in Passes : Extends(v, w, i, p, n)
    BY <1>1, <2>2, <2>3, ExtendedPass
  <2>5. BeginMarked(w) /\ MarkedUpto(Walked, w, i - 1)
    BY <2>1, <2>2 DEF Marks
  <2>6. BeginMarked(w)' /\ MarkedUpto(Walked, w, i - 1)'
    BY <1>8, <2>2, <2>5, PassKept
  <2>7. /\ v.subgraph = s /\ v.begin = w.begin /\ v.starts[i] = p /\ v.ends[i] = n
        /\ \A l \in 1 .. i - 1 : v.starts[l] = w.starts[l] /\ v.ends[l] = w.ends[l]
        /\ Ordered(v, i) /\ \A l \in 1 .. i : v.ends[l] <= n
    BY <2>3, <2>4 DEF Extends
  <2>8. 1 < Len(calls') => calls'[2].start <= v.begin
    BY <1>7, <2>3, <2>7
  <2>9. ASSUME NEW g \in Callees(s, i)
         PROVE  PassWithin(Walked, g, p, n)'
    <3>1. PassWithin(Walked, g, p, n)
      <4>1. Begun(1) /\ ToSet(calls[1].callees) = {}
        BY <1>2, <1>3 DEF MarkingInv, ToSet
      <4> QED
        BY <4>1 DEF Begun
    <3> QED
      BY <1>1, <1>8, <3>1, WalkedGrows, GraphKept DEF PassWithin, MarkingInv
  <2>10. MarkedUpto(Walked, v, i)'
    <3>1. \A l \in 1 .. i : l = i \/ l \in 1 .. i - 1
      BY <2>2
    <3> QED
      BY <1>1, <1>11, <2>3, <2>6, <2>7, <2>9, <3>1, GraphKept DEF MarkedUpto
  <2>11. BeginMarked(v)'
    BY <2>3, <2>6, <2>7 DEF BeginMarked
  <2>12. v.begin <= n
    BY <1>1, <2>3, <2>7, PassFacts
  <2>13. Marks(1, v)'
    BY <1>1, <1>4, <1>7, <2>2, <2>7, <2>8, <2>10, <2>11, <2>12 DEF Marks, Ordered
  <2> QED
    BY <1>1, <2>13, GraphKept
<1>13. ASSUME NEW k \in 2 .. Len(calls)
       PROVE  (\E w \in Passes : Marks(k, w))' /\ (calls'[k].busy => Begun(k)')
  <2>1. PICK w \in Passes : Marks(k, w)
    BY <1>9 DEF MarkingInv
  <2>2. Done(k)' = Done(k)
    BY <1>9 DEF Done
  <2>3. Marks(k, w)'
    BY SMTT(30), <1>1, <1>7, <1>8, <1>9, <2>1, <2>2, MarksKept
  <2>4. calls'[k].busy => Begun(k)'
    BY <1>1, <1>7, <1>8, <1>9, BegunKept, SMTT(60) DEF MarkingInv
  <2> QED
    BY <1>1, <2>3, <2>4, GraphKept
<1>14. ~Planned' /\ described' \subseteq Scratch'
  BY <1>1, <1>5, <1>7, GraphKept DEF Planned, MarkingInv
<1>15. \A k \in 1 .. Len(calls') : k = 1 \/ k \in 2 .. Len(calls)
  BY <1>7
<1> QED
  BY <1>1, <1>4, <1>7, <1>8, <1>10, <1>12, <1>13, <1>14, <1>15 DEF MarkingInv

LEMMA MarkCalleeStep == MarkingInv /\ MarkCallee => MarkingInv'
<1> SUFFICES ASSUME MarkingInv, MarkCallee
             PROVE  MarkingInv'
  OBVIOUS
<1> PICK n \in Nat : n = allocation_scope_count_
  BY DEF MarkingInv
<1>0. /\ 1 \in 1 .. Len(calls) /\ Current = calls[1] /\ calls # <<>>
      /\ calls \in Seq(Activations) /\ calls[1] \in Activations
      /\ calls[1].callees \in Seq(Graph) /\ calls[1].callees # <<>>
  <2>1. calls \in Seq(Activations) /\ calls # <<>>
    BY DEF MarkingInv, CallsOK, MarkCallee, Marking
  <2>2. 1 \in 1 .. Len(calls) /\ Current = calls[1]
    BY <2>1 DEF Current
  <2> QED
    BY <2>1, <2>2, ActivationFacts DEF MarkCallee
<1> PICK g \in Graph : g = Head(calls[1].callees)
  BY <1>0, PopFacts
<1> PICK rest \in Seq(Graph) : rest = Tail(calls[1].callees)
  BY <1>0, PopFacts
<1> DEFINE top == [calls[1] EXCEPT !.callees = rest]
           X == Inputs(g)
<1>1. /\ model \in Models /\ model' = model /\ described' = described
      /\ allocation_scope_count_' = n + 1 /\ NextScope = n + 1
      /\ last_used' = UpdateLastUsed(last_used, X, n + 1)
      /\ first_created' = UpdateFirstCreated(first_created, X, n + 1)
      /\ calls[1].busy
      /\ calls' = <<Activation(g)>> \o [calls EXCEPT ![1].callees = rest]
  BY <1>0 DEF MarkingInv, MarkCallee, NextScope
<1>2. /\ top \in Activations /\ top.callees = rest /\ top.subgraph = calls[1].subgraph
      /\ top.op = calls[1].op /\ top.busy /\ top.start = calls[1].start
  BY <1>0, <1>1 DEF Activations
<1>3. calls' = <<Activation(g)>> \o [calls EXCEPT ![1] = top]
  BY <1>0, <1>1
<1>4. ToSet(calls[1].callees) = {g} \union ToSet(rest)
  BY <1>0, SetOfHead
<1>5. /\ Activation(g) \in Activations /\ Activation(g).subgraph = g
      /\ Activation(g).op = 0 /\ ~Activation(g).busy /\ Activation(g).start = 0
  BY DEF Activation, Activations
<1>6. X \subseteq Buffers /\ \A b \in Scratch : b \in Buffers /\ b \notin X
  BY <1>1, NamedFacts, ScratchApart
<1> HIDE DEF top, X
<1>7. /\ calls' \in Seq(Activations) /\ Len(calls') = Len(calls) + 1 /\ Len(calls) \in Nat
      /\ calls'[1] = Activation(g) /\ calls'[2] = top
      /\ \A k \in 2 .. Len(calls) : calls'[k + 1] = calls[k]
      /\ calls' # <<>>
  <2> DEFINE t == [calls EXCEPT ![1] = top]
  <2>1. /\ t \in Seq(Activations) /\ Len(t) = Len(calls) /\ Len(calls) \in Nat
        /\ Len(calls) > 0 /\ t[1] = top /\ \A k \in 2 .. Len(calls) : t[k] = calls[k]
    BY <1>0, <1>2, TopFacts
  <2>2. calls' = <<Activation(g)>> \o t
    BY <1>3
  <2> HIDE DEF t
  <2>3. /\ calls' \in Seq(Activations) /\ Len(calls') = Len(t) + 1
        /\ calls'[1] = Activation(g)
        /\ \A k \in 2 .. Len(t) + 1 : calls'[k] = t[k - 1]
    BY <1>5, <2>1, <2>2, PushFacts
  <2> QED
    BY <2>1, <2>3
<1>8. /\ Grows /\ Lifetimes'
      /\ \A b \in Buffers :
           /\ b \in X => last_used'[b] = n + 1 /\ first_created'[b] \in 0 .. n + 1
           /\ b \notin X => first_created'[b] = first_created[b]
  <2>1. n + 1 \in 0 .. n + 1 /\ n <= n + 1 /\ n + 1 \in Nat
    OBVIOUS
  <2>2. Updated(X, X, n + 1, n + 1)
    BY <1>1, <2>1 DEF Updated, UpdateLastUsed
  <2> QED
    BY <2>1, <2>2, UpdateFacts
<1>9. allocation_scope_count_' \in Nat /\ allocation_scope_count_ <= allocation_scope_count_'
  BY <1>1
<1>10. ASSUME NEW k \in 1 .. Len(calls)
       PROVE  /\ k + 1 \in Nat /\ k + 1 > 1 /\ (k + 1) - 1 = k
              /\ calls'[k + 1].subgraph = calls[k].subgraph /\ calls'[k + 1].op = calls[k].op
              /\ calls'[k + 1].start = calls[k].start /\ calls'[k + 1].busy = calls[k].busy
              /\ calls[k].busy /\ Done(k + 1)' = Done(k)
              /\ ToSet(calls'[k + 1].callees) \subseteq ToSet(calls[k].callees)
              /\ calls'[k].subgraph \in Callees(calls[k].subgraph, calls[k].op)
  <2>1. ActivationOK(k)
    BY DEF MarkingInv, CallsOK
  <2>2. CASE k = 1
    BY <1>1, <1>2, <1>4, <1>5, <1>7, <2>1, <2>2 DEF ActivationOK, Done
  <2>3. CASE k # 1
    <3>1. k \in 2 .. Len(calls) /\ calls'[k + 1] = calls[k]
      BY <1>7, <2>3
    <3>2. calls'[k].subgraph = calls[k - 1].subgraph
      <4>1. k = 2 \/ (k - 1 \in 2 .. Len(calls) /\ (k - 1) + 1 = k)
        BY <1>7, <3>1
      <4> QED
        BY <1>2, <1>7, <4>1
    <3> QED
      BY <2>1, <3>1, <3>2 DEF ActivationOK, Done
  <2> QED
    BY <2>2, <2>3
<1>11. ASSUME NEW k \in 1 .. Len(calls)
       PROVE  ActivationOK(k + 1)'
  <2>1. \A b \in OpScratch(calls[k].subgraph, calls[k].op) :
          first_created'[b] = first_created[b]
    BY <1>1, <1>6, <1>8, ActivationFacts, ScratchApart
  <2> QED
    BY <1>8, <1>9, <1>10, <2>1, ActivationKept
<1>12. \A j \in 1 .. Len(calls') : j = 1 \/ \E k \in 1 .. Len(calls) : j = k + 1
  <2>1. \A j \in 1 .. Len(calls') : j = 1 \/ (j - 1 \in 1 .. Len(calls) /\ j = (j - 1) + 1)
    BY <1>7
  <2> QED
    BY <2>1
<1>13. CallsOK'
  <2>1. ActivationOK(1)'
    <3>1. OpCount(g) \in Nat /\ OpCount(g)' = OpCount(g)
      BY <1>1, GraphFacts, GraphKept
    <3> QED
      BY <1>1, <1>5, <1>7, <3>1 DEF ActivationOK
  <2>2. calls'[Len(calls')].subgraph = 1
    BY <1>0, <1>7, <1>10 DEF MarkingInv, CallsOK
  <2> QED
    BY <1>1, <1>7, <1>11, <1>12, <2>1, <2>2, GraphKept DEF CallsOK, Activations
<1>14. (\E w \in Passes : Marks(1, w))'
  <2> DEFINE w == [subgraph |-> g, begin |-> n + 1, starts |-> [i \in Nat |-> 0],
                   ends |-> [i \in Nat |-> 0]]
  <2>1. w \in Passes /\ w.subgraph = g /\ w.begin = n + 1
    BY DEF Passes
  <2> HIDE DEF w
  <2>2. Done(1)' = 0 /\ ~calls'[1].busy
    BY <1>5, <1>7 DEF Done
  <2>3. BeginMarked(w)'
    <3>1. \A b \in X : b \in Buffers /\ last_used'[b] = n + 1 /\ first_created'[b] \in 0 .. n + 1
      BY <1>6, <1>8
    <3> QED
      BY <1>1, <2>1, <3>1, GraphKept DEF BeginMarked, Throughout, X
  <2>4. calls'[2].start <= n + 1
    BY <1>0, <1>2, <1>7, ActivationFacts
  <2>5. Ordered(w, 0)' /\ MarkedUpto(Walked, w, 0)'
    BY DEF Ordered, MarkedUpto
  <2>6. Marks(1, w)'
    BY <1>1, <1>5, <1>7, <2>1, <2>2, <2>3, <2>4, <2>5 DEF Marks
  <2> QED
    BY <1>1, <2>1, <2>6, GraphKept
<1>15. ASSUME NEW k \in 1 .. Len(calls)
       PROVE  (\E w \in Passes : Marks(k + 1, w))' /\ (calls'[k + 1].busy => Begun(k + 1)')
  <2>1. PICK w \in Passes : Marks(k, w)
    BY DEF MarkingInv
  <2>2. k + 1 < Len(calls') => k < Len(calls) /\ calls'[(k + 1) + 1].start = calls[k + 1].start
    <3>1. k + 1 < Len(calls') => k + 1 \in 1 .. Len(calls)
      BY <1>7
    <3> QED
      BY <1>7, <1>10, <3>1
  <2>3. Marks(k + 1, w)'
    BY <1>8, <1>9, <1>10, <2>1, <2>2, MarksKept
  <2>4. Begun(k) /\ calls[k].busy
    BY <1>10 DEF MarkingInv
  <2>5. ASSUME NEW h, h \in ToSet(calls[k].callees) \/ (k > 1 /\ calls[k - 1].subgraph = h)
        PROVE  h \in ToSet(calls'[k + 1].callees) \/ calls'[k].subgraph = h
    <3>1. CASE k = 1
      BY <1>2, <1>4, <1>5, <1>7, <2>5, <3>1
    <3>2. CASE k # 1
      <4>1. k \in 2 .. Len(calls) /\ calls'[k + 1] = calls[k]
        BY <1>7, <3>2
      <4>2. k - 1 \in 1 .. Len(calls) /\ (k - 1) + 1 = k
        BY <1>7, <4>1
      <4> QED
        BY <1>10, <2>5, <4>1, <4>2
    <3> QED
      BY <3>1, <3>2
  <2>6. Begun(k + 1)'
    BY <1>8, <1>9, <1>10, <2>4, <2>5, BegunKept
  <2> QED
    BY <1>1, <2>3, <2>6, GraphKept
<1>16. ~Planned' /\ described' \subseteq Scratch'
  BY <1>1, <1>7, GraphKept DEF Planned, MarkingInv
<1>17. ASSUME NEW j \in 1 .. Len(calls')
       PROVE  (\E w \in Passes : Marks(j, w))' /\ (calls'[j].busy => Begun(j)')
  BY <1>5, <1>7, <1>12, <1>14, <1>15
<1> QED
  BY <1>1, <1>8, <1>9, <1>13, <1>16, <1>17 DEF MarkingInv

LEMMA EndSubgraphStep == MarkingInv /\ EndSubgraph => MarkingInv'
<1> SUFFICES ASSUME MarkingInv, EndSubgraph
             PROVE  MarkingInv'
  OBVIOUS
<1> PICK n \in Nat : n = allocation_scope_count_
  BY DEF MarkingInv
<1>0. /\ 1 \in 1 .. Len(calls) /\ Current = calls[1] /\ calls # <<>>
      /\ calls \in Seq(Activations) /\ calls[1] \in Activations
  <2>1. calls \in Seq(Activations) /\ calls # <<>>
    BY DEF MarkingInv, CallsOK, EndSubgraph, Marking
  <2>2. 1 \in 1 .. Len(calls) /\ Current = calls[1]
    BY <2>1 DEF Current
  <2> QED
    BY <2>1, <2>2, ActivationFacts
<1> PICK s \in Graph : s = calls[1].subgraph
  BY <1>0, ActivationFacts
<1> PICK m \in Nat : m = OpCount(s)
  BY GraphFacts DEF MarkingInv
<1> DEFINE X == Outputs(s)
<1>1. /\ model \in Models /\ model' = model /\ described' = described
      /\ allocation_scope_count_' = n /\ calls' = Tail(calls)
      /\ last_used' = UpdateLastUsed(last_used, X, n)
      /\ first_created' = UpdateFirstCreated(first_created, X, n)
      /\ ~calls[1].busy /\ calls[1].op = m
  BY <1>0 DEF MarkingInv, EndSubgraph, OpCount
<1>2. X \subseteq Buffers /\ \A b \in Scratch : b \in Buffers /\ b \notin X
  BY <1>1, NamedFacts, ScratchApart
<1> HIDE DEF X
<1>3. /\ calls' \in Seq(Activations) /\ Len(calls') = Len(calls) - 1 /\ Len(calls) \in Nat
      /\ \A k \in 1 .. Len(calls) - 1 : calls'[k] = calls[k + 1]
  BY <1>0, <1>1, PopFacts
<1>4. /\ Grows /\ Lifetimes'
      /\ \A b \in Buffers :
           /\ b \in X => last_used'[b] = n /\ first_created'[b] \in 0 .. n
           /\ b \notin X => first_created'[b] = first_created[b]
  <2>1. n \in 0 .. n /\ n <= n
    OBVIOUS
  <2>2. Updated(X, X, n, n)
    BY <1>1, <2>1 DEF Updated, UpdateLastUsed
  <2> QED
    BY <2>2, UpdateFacts
<1>5. allocation_scope_count_' \in Nat /\ allocation_scope_count_ <= allocation_scope_count_'
  BY <1>1
\* The pass over the subgraph is complete.
<1>6. PICK v \in Walked' : /\ v.subgraph = s /\ End(v)' = n /\ v.begin \in Nat
                           /\ 1 < Len(calls) => calls[2].start <= v.begin
  <2>1. PICK w \in Passes : Marks(1, w)
    BY <1>0 DEF MarkingInv
  <2>2. Done(1) = m /\ (m + 1) - 1 = m /\ m + 1 \in Nat \ {0}
    BY <1>1 DEF Done
  <2>3. /\ w.subgraph = s /\ w.begin <= n /\ Ordered(w, m) /\ \A l \in 1 .. m : w.ends[l] <= n
        /\ 1 < Len(calls) => calls[2].start <= w.begin
    BY <1>1, <2>1, <2>2 DEF Marks
  <2>4. PICK v \in Passes : Extends(v, w, m + 1, n, n)
    BY <1>1, <2>2, <2>3, ExtendedPass
  <2>5. /\ v.subgraph = s /\ v.begin = w.begin /\ v.ends[m + 1] = n /\ Ordered(v, m + 1)
        /\ \A l \in 1 .. m : v.starts[l] = w.starts[l] /\ v.ends[l] = w.ends[l]
    BY <2>2, <2>3, <2>4 DEF Extends
  <2>6. BeginMarked(w)' /\ MarkedUpto(Walked, w, m)'
    BY <1>4, <2>1, <2>2, PassKept DEF Marks
  <2>7. OpCount(v.subgraph)' = m /\ End(v)' = n
    BY <1>1, <2>5, GraphKept DEF End
  <2>8. BeginMarked(v)'
    BY <2>3, <2>5, <2>6 DEF BeginMarked
  <2>9. MarkedUpto(Walked, v, m)'
    BY <2>3, <2>5, <2>6 DEF MarkedUpto
  <2>10. EndMarked(v)'
    <3>1. \A b \in X : b \in Buffers /\ last_used'[b] = n /\ first_created'[b] \in 0 .. n
      BY <1>2, <1>4
    <3> QED
      BY <1>1, <2>5, <2>7, <3>1, GraphKept DEF EndMarked, Throughout, X
  <2>11. Complete(Walked, v)'
    <3>1. Ordered(v, m + 1)'
      BY <2>5 DEF Ordered
    <3> QED
      BY <2>7, <2>8, <2>9, <2>10, <3>1 DEF Complete
  <2>12. v \in Walked' /\ v.begin \in Nat
    BY <1>1, <2>11, WalkedTakesNext, PassFacts, GraphKept DEF TakesComplete
  <2> QED
    BY <2>3, <2>5, <2>7, <2>12
<1>7. ASSUME NEW k \in 1 .. Len(calls')
      PROVE  /\ k + 1 \in 1 .. Len(calls) /\ k \in Nat /\ k + 1 > 1 /\ (k + 1) - 1 = k
             /\ k \in 1 .. Len(calls)
             /\ calls'[k] = calls[k + 1] /\ calls[k + 1].busy
             /\ Done(k)' = Done(k + 1)
             /\ calls[k].subgraph \in Callees(calls[k + 1].subgraph, calls[k + 1].op)
             /\ k > 1 => calls'[k - 1].subgraph = calls[k].subgraph
  <2>1. k + 1 \in 1 .. Len(calls) /\ k \in 1 .. Len(calls) - 1
    BY <1>3
  <2>2. ActivationOK(k + 1)
    BY <2>1 DEF MarkingInv, CallsOK
  <2>3. calls'[k] = calls[k + 1]
    BY <1>3, <2>1
  <2>4. k > 1 => calls'[k - 1] = calls[k]
    <3>1. k > 1 => k - 1 \in 1 .. Len(calls) - 1 /\ (k - 1) + 1 = k
      BY <2>1
    <3> QED
      BY <1>3, <3>1
  <2>5. k + 1 > 1 /\ (k + 1) - 1 = k
    BY <2>1
  <2> QED
    BY <2>1, <2>2, <2>3, <2>4, <2>5 DEF ActivationOK, Done
<1>8. ASSUME NEW k \in 1 .. Len(calls')
      PROVE  ActivationOK(k)'
  <2>1. \A b \in OpScratch(calls[k + 1].subgraph, calls[k + 1].op) :
          first_created'[b] = first_created[b]
    BY <1>1, <1>2, <1>4, <1>7, ActivationFacts, ScratchApart
  <2> QED
    BY <1>4, <1>5, <1>7, <2>1, ActivationKept
<1>9. CallsOK'
  <2>1. calls' # <<>> => calls'[Len(calls')].subgraph = 1
    <3>1. calls' # <<>> => Len(calls') \in 1 .. Len(calls')
      BY <1>3
    <3>2. calls' # <<>> => calls'[Len(calls')] = calls[Len(calls)]
      BY <1>3, <1>7, <3>1
    <3> QED
      BY <1>0, <3>2 DEF MarkingInv, CallsOK
  <2> QED
    BY <1>1, <1>3, <1>8, <2>1, GraphKept DEF CallsOK, Activations
<1>10. ASSUME NEW k \in 1 .. Len(calls')
       PROVE  (\E w \in Passes : Marks(k, w))' /\ Begun(k)'
  <2>1. PICK w \in Passes : Marks(k + 1, w)
    BY <1>7 DEF MarkingInv
  <2>2. k < Len(calls') => k + 1 < Len(calls) /\ calls'[k + 1].start = calls[(k + 1) + 1].start
    <3>1. k < Len(calls') => k + 1 \in 1 .. Len(calls')
      BY <1>3
    <3> QED
      BY <1>3, <1>7, <3>1
  <2>3. Marks(k, w)'
    BY <1>4, <1>5, <1>7, <2>1, <2>2, MarksKept
  <2>4. Begun(k + 1)
    BY <1>7 DEF MarkingInv
  <2>5. ASSUME NEW g, g \in ToSet(calls[k + 1].callees) \/ calls[k].subgraph = g
        PROVE  \/ g \in ToSet(calls'[k].callees)
               \/ k > 1 /\ calls'[k - 1].subgraph = g
               \/ PassWithin(Walked, g, calls[k].start, allocation_scope_count_)'
    <3>1. CASE k = 1 /\ calls[1].subgraph = g
      <4>1. 1 < Len(calls) /\ calls'[1].start = calls[2].start
        BY <1>3, <1>7, <3>1
      <4> QED
        BY <1>1, <1>6, <3>1, <4>1 DEF PassWithin
    <3>2. CASE g \in ToSet(calls[k + 1].callees)
      BY <1>7, <3>2
    <3>3. CASE k # 1 /\ calls[k].subgraph = g
      BY <1>7, <3>3
    <3> QED
      BY <2>5, <3>1, <3>2, <3>3
  <2>6. Begun(k)'
    BY <1>4, <1>5, <1>7, <2>4, <2>5, BegunKept
  <2> QED
    BY <1>1, <2>3, <2>6, GraphKept
<1>11. (Planned => \E w \in Walked : w.subgraph = 1)'
  <2>1. calls' = <<>> => Len(calls) = 1
    BY <1>3
  <2>2. calls' = <<>> => s = 1
    BY <1>0, <2>1 DEF MarkingInv, CallsOK
  <2> QED
    BY <1>6, <2>2 DEF Planned
<1>12. described' \subseteq Scratch'
  BY <1>1, GraphKept DEF MarkingInv
<1> QED
  BY <1>1, <1>4, <1>5, <1>9, <1>10, <1>11, <1>12 DEF MarkingInv

LEMMA MarkingStuttersStep == MarkingInv /\ UNCHANGED markingVars => MarkingInv'
<1> SUFFICES ASSUME MarkingInv, UNCHANGED markingVars
             PROVE  MarkingInv'
  OBVIOUS
<1>1. /\ model' = model /\ calls' = calls /\ described' = described
      /\ allocation_scope_count_' = allocation_scope_count_
      /\ first_created' = first_created /\ last_used' = last_used
  BY DEF markingVars
<1>2. Lifetimes'
  BY <1>1, GraphKept DEF MarkingInv, Lifetimes
<1>3. \A b, p, q : Throughout(b, p, q)' = Throughout(b, p, q)
  BY <1>1, GraphKept DEF Throughout
<1>4. \A s, i, p, q : OpMarked(s, i, p, q)' = OpMarked(s, i, p, q)
  BY <1>1, <1>3, GraphKept DEF OpMarked
<1>5. \A W, w, k : MarkedUpto(W, w, k)' = MarkedUpto(W, w, k)
  BY <1>1, <1>4, GraphKept DEF MarkedUpto, PassWithin
<1>6. \A w : BeginMarked(w)' = BeginMarked(w) /\ EndMarked(w)' = EndMarked(w)
  BY <1>1, <1>3, GraphKept DEF BeginMarked, EndMarked
<1>7. \A W : Closed(W)' = Closed(W)
  BY <1>1, <1>5, <1>6, GraphKept DEF Closed, Complete, Ordered
<1>8. Walked' = Walked
  BY <1>1, <1>7, GraphKept DEF Walked
<1>9. CallsOK'
  <2>1. \A k \in 1 .. Len(calls) : ActivationOK(k)'
    BY <1>1, GraphKept DEF MarkingInv, CallsOK, ActivationOK
  <2> QED
    BY <1>1, <2>1, GraphKept DEF MarkingInv, CallsOK, Activations
<1>10. \A k : Done(k)' = Done(k)
  BY <1>1 DEF Done
<1>11. \A k, w : MarkedUpto(Walked, w, Done(k))' = MarkedUpto(Walked, w, Done(k))
  BY <1>1, <1>4, <1>8, <1>10, GraphKept DEF MarkedUpto, PassWithin
<1>12. \A k, w : Marks(k, w)' = Marks(k, w)
  BY <1>1, <1>6, <1>10, <1>11 DEF Marks, Ordered
<1>13. \A k : Begun(k)' = Begun(k)
  BY <1>1, <1>8, GraphKept DEF Begun, PassWithin
<1> QED
  BY <1>1, <1>2, <1>8, <1>9, <1>12, <1>13, GraphKept DEF MarkingInv, Planned

LEMMA MarkingStep == MarkingInv /\ [Next]_vars => MarkingInv'
<1> SUFFICES ASSUME MarkingInv, [Next]_vars
             PROVE  MarkingInv'
  OBVIOUS
<1>1. Mark \/ UNCHANGED markingVars
  BY DEF Next, vars, Invoke, Execute, KernelFails, FetchOperator, RunKernel, IfInvokesBranch,
     IfCopiesOutputs, WhileInvokesCond, WhileBegins, WhileTestsAgain, WhileIterates, WhileEnds,
     CallOnceInvokes, CallOnceSkips, CallOnceDone, OperatorInvoked, SubgraphInvoked, Unwind
<1>2. CASE Mark
  BY <1>2, BeginOperatorStep, MarkCalleeStep, EndOperatorStep, EndSubgraphStep
     DEF Mark, MarkAllocationLifetimes
<1> QED
  BY <1>1, <1>2, MarkingStuttersStep

LEMMA MarkingInvariant == Spec => []MarkingInv
<1>1. InitExecution => MarkingInv
  BY MarkingInit DEF InitExecution
<1> QED
  BY <1>1, MarkingStep, PTL DEF Spec

\* The marking reaches every subgraph that the first one reaches.
LEMMA ReachableWalked ==
  ASSUME MarkingInv, Planned, NEW s, Reachable(model, s)
  PROVE  \E w \in Walked : w.subgraph = s
<1> DEFINE R == {w.subgraph : w \in Walked}
<1>1. model \in Models /\ Walked \subseteq Passes /\ Closed(Walked)
  BY WalkedFacts DEF MarkingInv
<1>2. R \in SUBSET DOMAIN model.subgraphs
  BY <1>1, PassFacts DEF Graph
<1>3. 1 \in R
  BY DEF MarkingInv
<1>4. ASSUME NEW g \in R, NEW i \in DOMAIN model.subgraphs[g].ops
      PROVE  ToSet(model.subgraphs[g].ops[i].subgraphs) \subseteq R
  <2>1. PICK w \in Walked : w.subgraph = g
    OBVIOUS
  <2>2. g \in Graph /\ MarkedUpto(Walked, w, OpCount(g))
    BY <1>1, <2>1, PassFacts DEF Closed, Complete
  <2>3. i \in 1 .. OpCount(g)
    BY <1>1, <2>2, GraphFacts DEF Subgraph
  <2>4. \A h \in Callees(g, i) : \E v \in Walked : v.subgraph = h
    BY <2>1, <2>2, <2>3 DEF MarkedUpto, PassWithin
  <2> QED
    BY <2>4 DEF Callees, Op, Subgraph
<1> HIDE DEF R
<1>5. s \in R
  BY <1>2, <1>3, <1>4 DEF Reachable
<1> QED
  BY <1>5 DEF R

\* What is reached invokes only what is reached.
LEMMA ReachableFacts ==
  ASSUME NEW m
  PROVE  /\ Reachable(m, 1)
         /\ \A s \in DOMAIN m.subgraphs :
              Reachable(m, s) =>
                \A i \in DOMAIN m.subgraphs[s].ops :
                  \A g \in ToSet(m.subgraphs[s].ops[i].subgraphs) : Reachable(m, g)
BY DEF Reachable

\* The walk stays within what the first subgraph reaches.
ReachedInv ==
  /\ \A k \in 1 .. Len(calls) :
       /\ Reachable(model, calls[k].subgraph)
       /\ \A g \in ToSet(calls[k].callees) : Reachable(model, g)
  /\ \A b \in described : Reachable(model, model.requests[b[2]].subgraph)

LEMMA ReachedInit == Init => ReachedInv
<1> SUFFICES ASSUME Init PROVE ReachedInv
  OBVIOUS
<1>1. calls = <<Activation(1)>> /\ Len(calls) = 1 /\ calls[1] = Activation(1)
  BY DEF Init
<1>2. calls[1].subgraph = 1 /\ ToSet(calls[1].callees) = {}
  BY <1>1 DEF Activation, ToSet
<1> QED
  BY <1>1, <1>2, ReachableFacts DEF Init, ReachedInv

LEMMA ReachedStep == MarkingInv /\ ReachedInv /\ [Next]_vars => ReachedInv'
<1> SUFFICES ASSUME MarkingInv, ReachedInv, [Next]_vars
             PROVE  ReachedInv'
  OBVIOUS
<1>1. Mark \/ UNCHANGED markingVars
  BY DEF Next, vars, Invoke, Execute, KernelFails, FetchOperator, RunKernel, IfInvokesBranch,
     IfCopiesOutputs, WhileInvokesCond, WhileBegins, WhileTestsAgain, WhileIterates, WhileEnds,
     CallOnceInvokes, CallOnceSkips, CallOnceDone, OperatorInvoked, SubgraphInvoked, Unwind
<1>2. model \in Models /\ calls \in Seq(Activations)
  BY DEF MarkingInv, CallsOK
<1> DEFINE s == Current.subgraph
<1>3. ASSUME calls # <<>>
      PROVE  /\ Current = calls[1] /\ 1 \in 1 .. Len(calls) /\ s \in Graph
             /\ Current.callees \in Seq(Graph) /\ Reachable(model, s)
             /\ \A g \in ToSet(Current.callees) : Reachable(model, g)
  <2>1. Current = calls[1] /\ 1 \in 1 .. Len(calls)
    BY <1>2, <1>3, PopFacts DEF Current
  <2> QED
    BY <2>1, ActivationFacts DEF ReachedInv
<1>4. CASE BeginOperator
  <2>1. /\ model' = model /\ described' = described /\ calls # <<>>
        /\ Current.op < OpCount(s) /\ Current.op \in Nat
    BY <1>3, <1>4, ActivationFacts DEF BeginOperator, Marking, OpCount
  <2> DEFINE i == Current.op + 1
             a == [subgraph |-> s, op |-> i, busy |-> TRUE, start |-> NextScope,
                   callees |-> Op(s, i).subgraphs]
  <2>2. i \in DOMAIN model.subgraphs[s].ops /\ s \in DOMAIN model.subgraphs
    BY <1>2, <1>3, <2>1, GraphFacts DEF Graph, Subgraph
  <2>3. calls' = [calls EXCEPT ![1] = a]
    BY <1>4 DEF BeginOperator
  <2>4. \A g \in ToSet(a.callees) : Reachable(model, g)
    BY <1>3, <2>1, <2>2, ReachableFacts DEF Op, Subgraph
  <2> HIDE DEF a
  <2>5. a.subgraph = s
    BY DEF a
  <2>6. \A k \in 1 .. Len(calls') :
          k \in 1 .. Len(calls) /\ (calls'[k] = a \/ calls'[k] = calls[k])
    BY <1>2, <2>1, <2>3
  <2> QED
    BY <1>3, <2>1, <2>4, <2>5, <2>6 DEF ReachedInv
<1>5. CASE MarkCallee
  <2>1. model' = model /\ described' = described /\ calls # <<>> /\ Current.callees # <<>>
    BY <1>5 DEF MarkCallee, Marking
  <2> DEFINE g == Head(Current.callees)
             rest == [calls EXCEPT ![1].callees = Tail(Current.callees)]
  <2>2. calls' = <<Activation(g)>> \o rest
    BY <1>5 DEF MarkCallee
  <2>3. ToSet(Current.callees) = {g} \union ToSet(Tail(Current.callees))
    BY <1>3, <2>1, SetOfHead
  <2>4. Reachable(model, g) /\ \A h \in ToSet(Tail(Current.callees)) : Reachable(model, h)
    BY <1>3, <2>1, <2>3
  <2>5. /\ rest \in Seq(Activations) /\ Len(rest) = Len(calls)
        /\ rest[1].subgraph = s /\ rest[1].callees = Tail(Current.callees)
        /\ \A k \in 2 .. Len(calls) : rest[k] = calls[k]
    <3>1. calls[1] \in Activations /\ Tail(Current.callees) \in Seq(Graph)
      BY <1>2, <1>3, <2>1, PopFacts
    <3>2. [calls[1] EXCEPT !.callees = Tail(Current.callees)] \in Activations
      BY <3>1 DEF Activations
    <3>3. rest = [calls EXCEPT ![1] = [calls[1] EXCEPT !.callees = Tail(Current.callees)]]
      BY <1>2, <1>3, <2>1
    <3>4. /\ [calls[1] EXCEPT !.callees = Tail(Current.callees)].subgraph = s
          /\ [calls[1] EXCEPT !.callees = Tail(Current.callees)].callees = Tail(Current.callees)
      BY <1>3, <2>1, <3>1 DEF Activations
    <3> QED
      BY <1>2, <2>1, <3>2, <3>3, <3>4, TopFacts
  <2> HIDE DEF rest
  <2>6. \A k \in 1 .. Len(rest) :
          /\ Reachable(model, rest[k].subgraph)
          /\ \A h \in ToSet(rest[k].callees) : Reachable(model, h)
    <3> SUFFICES ASSUME NEW k \in 1 .. Len(rest)
                 PROVE  /\ Reachable(model, rest[k].subgraph)
                        /\ \A h \in ToSet(rest[k].callees) : Reachable(model, h)
      OBVIOUS
    <3>1. CASE k = 1
      BY <1>3, <2>1, <2>4, <2>5, <3>1
    <3>2. CASE k # 1
      <4>1. k \in 2 .. Len(calls) /\ k \in 1 .. Len(calls)
        BY <1>2, <2>5, <3>2
      <4> QED
        BY <2>5, <4>1 DEF ReachedInv
    <3> QED
      BY <3>1, <3>2
  <2>7. Activation(g).subgraph = g /\ ToSet(Activation(g).callees) = {}
    BY DEF Activation, ToSet
  <2> HIDE DEF g
  <2>8. \A k \in 1 .. Len(calls') :
          \/ calls'[k] = Activation(g)
          \/ \E l \in 1 .. Len(rest) : calls'[k] = rest[l]
    <3>1. Len(calls') = Len(rest) + 1 /\ Len(rest) \in Nat
      BY <2>2, <2>5
    <3>2. calls'[1] = Activation(g) /\ \A k \in 2 .. Len(rest) + 1 : calls'[k] = rest[k - 1]
      BY <2>2, <2>5
    <3>3. ASSUME NEW k \in 1 .. Len(calls'), k # 1
          PROVE  \E l \in 1 .. Len(rest) : calls'[k] = rest[l]
      <4>1. k \in 2 .. Len(rest) + 1 /\ k - 1 \in 1 .. Len(rest)
        BY <3>1, <3>3
      <4> QED
        BY <3>2, <4>1
    <3> QED
      BY <3>2, <3>3
  <2> QED
    BY <2>1, <2>4, <2>6, <2>7, <2>8 DEF ReachedInv
<1>6. CASE EndOperator
  <2>1. /\ model' = model /\ calls # <<>>
        /\ described' = described \union OpScratch(s, Current.op)
        /\ calls' = [calls EXCEPT ![1].busy = FALSE]
    BY <1>6 DEF EndOperator, Marking
  <2>2. \A b \in OpScratch(s, Current.op) : model.requests[b[2]].subgraph = s
    BY DEF OpScratch
  <2>3. Len(calls') = Len(calls)
        /\ \A k \in 1 .. Len(calls) : /\ calls'[k].subgraph = calls[k].subgraph
                                      /\ calls'[k].callees = calls[k].callees
    BY <1>2, <2>1 DEF Activations
  <2> QED
    BY <1>3, <2>1, <2>2, <2>3 DEF ReachedInv
<1>7. CASE EndSubgraph
  <2>1. model' = model /\ described' = described /\ calls # <<>> /\ calls' = Tail(calls)
    BY <1>7 DEF EndSubgraph, Marking
  <2>2. \A k \in 1 .. Len(calls') : k + 1 \in 1 .. Len(calls) /\ calls'[k] = calls[k + 1]
    BY <1>2, <2>1, PopFacts
  <2> QED
    BY <2>1, <2>2 DEF ReachedInv
<1>8. CASE UNCHANGED markingVars
  BY <1>8 DEF markingVars, ReachedInv
<1> QED
  BY <1>1, <1>4, <1>5, <1>6, <1>7, <1>8 DEF Mark, MarkAllocationLifetimes

LEMMA ReachedInvariant == Spec => []ReachedInv
<1>1. InitExecution => ReachedInv
  BY ReachedInit DEF InitExecution
<1> QED
  BY <1>1, ReachedStep, MarkingInvariant, PTL DEF Spec

LEMMA AllDescribed ==
  ASSUME MarkingInv, Planned, NEW k \in DOMAIN model.requests,
         Reachable(model, model.requests[k].subgraph)
  PROVE  <<0, k>> \in described
<1>1. model \in Models
  BY DEF MarkingInv
<1> DEFINE s == model.requests[k].subgraph
           i == model.requests[k].node
<1>2. s \in Graph /\ Reachable(model, s) /\ i \in DOMAIN Subgraph(s).ops
  BY <1>1, ModelFacts DEF WellFormed, Graph, Subgraph
<1>3. model.requests[k] = [subgraph |-> s, node |-> i]
  <2>1. model.requests \in Seq([subgraph : Nat, node : Nat])
    BY <1>1, ModelFacts DEF ModelRecords
  <2>2. k \in 1 .. Len(model.requests)
    BY <2>1
  <2>3. model.requests[k] \in [subgraph : Nat, node : Nat]
    BY <2>1, <2>2, ElementOfSeq
  <2> QED
    BY <2>3
<1> HIDE DEF s, i
<1>4. i \in 1 .. OpCount(s)
  BY <1>1, <1>2, GraphFacts
<1>5. PICK w \in Walked : w.subgraph = s
  BY <1>2, ReachableWalked
<1>6. OpScratch(s, i) \subseteq described
  BY <1>4, <1>5, WalkedFacts DEF Closed, Complete, MarkedUpto, OpMarked
<1> QED
  BY <1>3, <1>6 DEF OpScratch

\* When the plan is made, the scratch buffers with a size and an output pointer are
\* exactly those that operators of reached subgraphs request, whatever the model's
\* subgraphs invoke (MarkAllocationLifetimes, InitializeAllocationInfo).
THEOREM EveryScratchDescribed == Spec => []ScratchDescribed
<1>1. MarkingInv /\ ReachedInv => ScratchDescribed
  <2> SUFFICES ASSUME MarkingInv, ReachedInv, Planned
               PROVE  described = {b \in Scratch :
                                     Reachable(model, model.requests[b[2]].subgraph)}
    BY DEF ScratchDescribed
  <2>1. described \subseteq Scratch /\ \A b \in described :
                                        Reachable(model, model.requests[b[2]].subgraph)
    BY DEF MarkingInv, ReachedInv
  <2>2. ASSUME NEW b \in Scratch, Reachable(model, model.requests[b[2]].subgraph)
        PROVE  b \in described
    <3>1. PICK k \in DOMAIN model.requests : b = <<0, k>>
      BY DEF Scratch
    <3>2. b[2] = k
      BY <3>1
    <3> QED
      BY <2>2, <3>1, <3>2, AllDescribed
  <2> QED
    BY <2>1, <2>2
<1> QED
  BY <1>1, MarkingInvariant, ReachedInvariant, PTL

-----------------------------------------------------------------------------
(* The activations of InvokeSubgraph *)

Codes == {"KERNEL", "IF", "WHILE", "CALL_ONCE"}
Calling == {"branch", "first condition", "body", "condition", "once"}

FrameRecords ==
  [subgraph : Graph, node : Nat, stage : {"fetch", "invoked"} \union Codes \union Calling,
   callee : Nat, previous_subgraph_idx : Nat, previous_operator_idx : Nat]

\* A kernel is at a stage of its own operator and has invoked a subgraph of it.
FrameOK(f) ==
  LET op == Op(f.subgraph, f.node)
  IN  /\ f.node <= OpCount(f.subgraph)
      /\ f.stage # "fetch" => f.node > 0
      /\ f.stage \in Codes => op.code = f.stage
      /\ f.stage = "branch" => op.code = "IF" /\ f.callee \in Callees(f.subgraph, f.node)
      /\ f.stage \in {"first condition", "condition"} =>
           op.code = "WHILE" /\ f.callee = op.subgraphs[1]
      /\ f.stage = "body" => op.code = "WHILE" /\ f.callee = op.subgraphs[2]
      /\ f.stage = "once" => op.code = "CALL_ONCE" /\ f.callee = op.subgraphs[1]

\* Frame f was pushed on frame g, and holds the indices to return to it.
CalledBy(f, g) ==
  /\ g.stage \in Calling /\ g.callee = f.subgraph
  /\ f.previous_subgraph_idx = g.subgraph /\ f.previous_operator_idx = g.node

CalledByInvoke(f) ==
  f.subgraph = 1 /\ f.previous_subgraph_idx = 1 /\ f.previous_operator_idx = 1

StackOK ==
  /\ frames \in Seq(FrameRecords)
  /\ \A k \in 1 .. Len(frames) : FrameOK(frames[k])
  /\ \A k \in 1 .. Len(frames) - 1 : CalledBy(frames[k], frames[k + 1])
  /\ frames # <<>> => CalledByInvoke(frames[Len(frames)])

\* The operator that the frame is at or goes to next.
NextOperator(f) == IF f.stage = "fetch" THEN f.node + 1 ELSE f.node

IndicesOK ==
  /\ Running /\ invoke_status = "ok" =>
       /\ current_subgraph_index_ = Top.subgraph
       /\ current_operator_index_ = NextOperator(Top)
  /\ ~Running => current_subgraph_index_ = 1 /\ current_operator_index_ = 1

FramesInv ==
  /\ model \in Models
  /\ invoke_status \in {"ok", "error"}
  /\ StackOK
  /\ IndicesOK

LEMMA FrameKept ==
  ASSUME model' = model
  PROVE  /\ FrameRecords' = FrameRecords
         /\ \A f : FrameOK(f)' = FrameOK(f)
         /\ \A f, g : CalledBy(f, g)' = CalledBy(f, g)
<1>1. FrameRecords' = FrameRecords
  BY GraphKept DEF FrameRecords
<1>2. ASSUME NEW f
      PROVE  FrameOK(f)' = FrameOK(f)
  <2>1. /\ OpCount(f.subgraph)' = OpCount(f.subgraph)
        /\ Op(f.subgraph, f.node)' = Op(f.subgraph, f.node)
        /\ Callees(f.subgraph, f.node)' = Callees(f.subgraph, f.node)
    BY GraphKept
  <2> QED
    BY <2>1 DEF FrameOK
<1> QED
  BY <1>1, <1>2 DEF CalledBy

LEMMA TopFrame ==
  ASSUME FramesInv, Running
  PROVE  /\ frames \in Seq(FrameRecords) /\ frames # <<>> /\ 1 \in 1 .. Len(frames)
         /\ Top = frames[1] /\ Top \in FrameRecords /\ FrameOK(Top)
         /\ Top.subgraph \in Graph /\ Top.node \in Nat
         /\ OpCount(Top.subgraph) \in Nat
<1>1. frames \in Seq(FrameRecords) /\ frames # <<>>
  BY DEF FramesInv, StackOK, Running
<1>2. 1 \in 1 .. Len(frames) /\ Top = frames[1] /\ Top \in FrameRecords
  BY <1>1, PopFacts DEF Top
<1>3. FrameOK(Top)
  BY <1>2 DEF FramesInv, StackOK
<1>4. Top.subgraph \in Graph /\ Top.node \in Nat
  BY <1>2 DEF FrameRecords
<1> QED
  BY <1>1, <1>2, <1>3, <1>4, GraphFacts DEF FramesInv

\* The running activation goes on to another stage.
LEMMA StageStep ==
  ASSUME FramesInv, Running, model' = model, NEW e \in FrameRecords, FrameOK(e),
         e.subgraph = Top.subgraph,
         e.previous_subgraph_idx = Top.previous_subgraph_idx,
         e.previous_operator_idx = Top.previous_operator_idx,
         frames' = [frames EXCEPT ![1] = e]
  PROVE  /\ StackOK'
         /\ frames' # <<>> /\ Top' = e /\ frames'[1] = e /\ Len(frames') = Len(frames)
         /\ \A k \in 2 .. Len(frames) : frames'[k] = frames[k]
<1>1. /\ frames' \in Seq(FrameRecords) /\ Len(frames') = Len(frames) /\ Len(frames) \in Nat
      /\ Len(frames) > 0 /\ frames'[1] = e /\ frames' # <<>>
      /\ \A k \in 2 .. Len(frames) : frames'[k] = frames[k]
  BY TopFrame, TopFacts
<1>2. Top' = e
  BY <1>1, PopFacts DEF Top
<1>3. \A k \in 1 .. Len(frames) : k = 1 \/ k \in 2 .. Len(frames)
  BY <1>1
<1>4. \A k \in 1 .. Len(frames) : FrameOK(frames'[k])
  BY <1>1, <1>3 DEF FramesInv, StackOK
<1>5. \A k \in 1 .. Len(frames) - 1 : CalledBy(frames'[k], frames'[k + 1])
  <2> TAKE k \in 1 .. Len(frames) - 1
  <2>1. k + 1 \in 2 .. Len(frames) /\ k \in 1 .. Len(frames)
    BY <1>1
  <2>2. CalledBy(frames[k], frames[k + 1]) /\ frames'[k + 1] = frames[k + 1]
    BY <1>1, <2>1 DEF FramesInv, StackOK
  <2>3. CASE k = 1
    BY <1>1, <2>2, <2>3, TopFrame DEF CalledBy
  <2>4. CASE k # 1
    BY <1>1, <1>3, <2>1, <2>2, <2>4
  <2> QED
    BY <2>3, <2>4
<1>6. CalledByInvoke(frames'[Len(frames)])
  <2>1. CalledByInvoke(frames[Len(frames)]) /\ Len(frames) \in 1 .. Len(frames)
    BY <1>1, TopFrame DEF FramesInv, StackOK
  <2>2. CASE Len(frames) = 1
    BY <1>1, <2>1, <2>2, TopFrame DEF CalledByInvoke
  <2>3. CASE Len(frames) # 1
    BY <1>1, <1>3, <2>1, <2>3
  <2> QED
    BY <2>2, <2>3
<1> QED
  BY <1>1, <1>2, <1>4, <1>5, <1>6, FrameKept DEF StackOK, CalledByInvoke

\* It invokes a subgraph.
LEMMA InvocationStep ==
  ASSUME FramesInv, Running, model' = model, NEW e \in FrameRecords, FrameOK(e),
         NEW g \in FrameRecords, FrameOK(g), CalledBy(g, e),
         e.subgraph = Top.subgraph,
         e.previous_subgraph_idx = Top.previous_subgraph_idx,
         e.previous_operator_idx = Top.previous_operator_idx,
         frames' = <<g>> \o [frames EXCEPT ![1] = e]
  PROVE  /\ StackOK'
         /\ frames' # <<>> /\ Top' = g /\ frames'[1] = g /\ frames'[2] = e
         /\ Len(frames') = Len(frames) + 1
         /\ \A k \in 2 .. Len(frames) : frames'[k + 1] = frames[k]
<1> DEFINE r == [frames EXCEPT ![1] = e]
<1>1. /\ r \in Seq(FrameRecords) /\ Len(r) = Len(frames) /\ Len(frames) \in Nat
      /\ Len(frames) > 0 /\ r[1] = e /\ \A k \in 2 .. Len(frames) : r[k] = frames[k]
  BY TopFrame, TopFacts
<1>2. frames' = <<g>> \o r
  OBVIOUS
<1> HIDE DEF r
<1>3. /\ frames' \in Seq(FrameRecords) /\ Len(frames') = Len(frames) + 1
      /\ frames'[1] = g /\ frames' # <<>>
      /\ \A k \in 2 .. Len(frames) + 1 : frames'[k] = r[k - 1]
  <2>1. r \in Seq(FrameRecords)
    BY <1>1
  <2>2. /\ <<g>> \o r \in Seq(FrameRecords) /\ Len(<<g>> \o r) = Len(r) + 1
        /\ (<<g>> \o r)[1] = g /\ \A k \in 2 .. Len(r) + 1 : (<<g>> \o r)[k] = r[k - 1]
    BY <2>1, PushFacts
  <2>3. /\ frames' \in Seq(FrameRecords) /\ Len(frames') = Len(r) + 1 /\ frames'[1] = g
        /\ \A k \in 2 .. Len(r) + 1 : frames'[k] = r[k - 1]
    BY <1>2, <2>2
  <2>4. frames' # <<>>
    BY <1>1, <2>3
  <2> QED
    BY <1>1, <2>3, <2>4
<1>4. Top' = g
  BY <1>3, PopFacts DEF Top
<1>5. frames'[2] = e /\ \A k \in 2 .. Len(frames) : frames'[k + 1] = frames[k]
  BY <1>1, <1>3
<1>6. \A k \in 1 .. Len(frames) : FrameOK(frames'[k + 1])
  <2> TAKE k \in 1 .. Len(frames)
  <2>1. CASE k = 1
    BY <1>5, <2>1
  <2>2. CASE k # 1
    <3>1. k \in 2 .. Len(frames)
      BY <1>1, <2>2
    <3> QED
      BY <1>5, <3>1 DEF FramesInv, StackOK
  <2> QED
    BY <2>1, <2>2
<1>7. \A k \in 1 .. Len(frames) - 1 : CalledBy(frames'[k + 1], frames'[(k + 1) + 1])
  <2> TAKE k \in 1 .. Len(frames) - 1
  <2>1. k + 1 \in 2 .. Len(frames) /\ k \in 1 .. Len(frames)
    BY <1>1
  <2>2. CalledBy(frames[k], frames[k + 1]) /\ frames'[(k + 1) + 1] = frames[k + 1]
    BY <1>5, <2>1 DEF FramesInv, StackOK
  <2>3. CASE k = 1
    BY <1>5, <2>2, <2>3, TopFrame DEF CalledBy
  <2>4. CASE k # 1
    <3>1. k \in 2 .. Len(frames)
      BY <2>1, <2>4
    <3> QED
      BY <1>5, <2>2, <3>1
  <2> QED
    BY <2>3, <2>4
<1>8. CalledByInvoke(frames'[Len(frames) + 1])
  <2>1. CalledByInvoke(frames[Len(frames)]) /\ Len(frames) \in 1 .. Len(frames)
    BY <1>1, TopFrame DEF FramesInv, StackOK
  <2>2. CASE Len(frames) = 1
    BY <1>5, <2>1, <2>2, TopFrame DEF CalledByInvoke
  <2>3. CASE Len(frames) # 1
    <3>1. Len(frames) \in 2 .. Len(frames)
      BY <1>1, <2>3
    <3> QED
      BY <1>5, <2>1, <3>1
  <2> QED
    BY <2>2, <2>3
<1>9. \A k \in 1 .. Len(frames') : FrameOK(frames'[k])
  <2>1. \A k \in 1 .. Len(frames') : k = 1 \/ (k - 1 \in 1 .. Len(frames) /\ (k - 1) + 1 = k)
    BY <1>1, <1>3
  <2> QED
    BY <1>3, <1>6, <2>1
<1>10. \A k \in 1 .. Len(frames') - 1 : CalledBy(frames'[k], frames'[k + 1])
  <2> TAKE k \in 1 .. Len(frames') - 1
  <2>1. CASE k = 1
    BY <1>3, <1>5, <2>1
  <2>2. CASE k # 1
    <3>1. k - 1 \in 1 .. Len(frames) - 1 /\ (k - 1) + 1 = k
      BY <1>1, <1>3, <2>2
    <3> QED
      BY <1>7, <3>1
  <2> QED
    BY <2>1, <2>2
<1> QED
  BY <1>3, <1>4, <1>5, <1>8, <1>9, <1>10, FrameKept DEF StackOK, CalledByInvoke

\* It returns.
LEMMA ReturnStep ==
  ASSUME FramesInv, Running, model' = model, RestoreIndices
  PROVE  /\ StackOK'
         /\ Len(frames') = Len(frames) - 1 /\ Len(frames) \in Nat
         /\ \A k \in 1 .. Len(frames) - 1 : frames'[k] = frames[k + 1]
         /\ IF Len(frames) = 1
            THEN /\ frames' = <<>> /\ Top.subgraph = 1
                 /\ current_subgraph_index_' = 1 /\ current_operator_index_' = 1
            ELSE /\ frames' # <<>> /\ Top' = frames[2] /\ CalledBy(Top, frames[2])
                 /\ current_subgraph_index_' = frames[2].subgraph
                 /\ current_operator_index_' = NextOperator(frames[2])
<1>1. /\ frames' \in Seq(FrameRecords) /\ Len(frames') = Len(frames) - 1
      /\ Len(frames) \in Nat /\ Len(frames) > 0
      /\ \A k \in 1 .. Len(frames) - 1 : frames'[k] = frames[k + 1]
  BY TopFrame, PopFacts DEF RestoreIndices
<1>2. \A k \in 1 .. Len(frames) - 1 : k + 1 \in 1 .. Len(frames)
  BY <1>1
<1>3. \A k \in 1 .. Len(frames') : FrameOK(frames'[k])
  BY <1>1, <1>2 DEF FramesInv, StackOK
<1>4. \A k \in 1 .. Len(frames') - 1 : CalledBy(frames'[k], frames'[k + 1])
  <2> TAKE k \in 1 .. Len(frames') - 1
  <2>1. k \in 1 .. Len(frames) - 1 /\ k + 1 \in 1 .. Len(frames) - 1
    BY <1>1
  <2>2. frames'[k] = frames[k + 1] /\ frames'[k + 1] = frames[(k + 1) + 1]
    BY <1>1, <2>1
  <2> QED
    BY <2>1, <2>2 DEF FramesInv, StackOK
<1>5. frames' # <<>> => CalledByInvoke(frames'[Len(frames')])
  <2>1. frames' # <<>> => Len(frames') \in 1 .. Len(frames) - 1 /\ Len(frames') + 1 = Len(frames)
    BY <1>1
  <2> QED
    BY <1>1, <2>1, TopFrame DEF FramesInv, StackOK
<1>6. StackOK'
  BY <1>1, <1>3, <1>4, <1>5, FrameKept DEF StackOK, CalledByInvoke
<1>7. CASE Len(frames) = 1
  <2>1. frames' = <<>>
    BY <1>1, <1>7
  <2>2. CalledByInvoke(Top)
    BY <1>7, TopFrame DEF FramesInv, StackOK
  <2> QED
    BY <1>1, <1>6, <1>7, <2>1, <2>2 DEF CalledByInvoke, RestoreIndices
<1>8. CASE Len(frames) # 1
  <2>1. 1 \in 1 .. Len(frames) - 1
    BY <1>1, <1>8
  <2>2. frames' # <<>> /\ Top' = frames[2]
    BY <1>1, <2>1, PopFacts DEF Top
  <2>3. CalledBy(Top, frames[2])
    BY <2>1, TopFrame DEF FramesInv, StackOK
  <2>4. NextOperator(frames[2]) = frames[2].node
    BY <2>3 DEF CalledBy, Calling, NextOperator
  <2> QED
    BY <1>1, <1>6, <1>8, <2>2, <2>3, <2>4 DEF CalledBy, RestoreIndices
<1> QED
  BY <1>7, <1>8

InStage(stage) == [Top EXCEPT !.stage = stage]
Awaiting(g, stage) == [Top EXCEPT !.stage = stage, !.callee = g]

\* The frames after the top one are kept, and it has become e.
TopBecomes(e) ==
  /\ frames' # <<>> /\ Top' = e /\ frames'[1] = e /\ Len(frames') = Len(frames)
  /\ \A k \in 2 .. Len(frames) : frames'[k] = frames[k]

\* Frame e has become the caller of a new frame.
TopInvokes(e, g) ==
  /\ frames' # <<>> /\ Top' = g /\ frames'[1] = g /\ frames'[2] = e
  /\ Len(frames') = Len(frames) + 1
  /\ \A k \in 2 .. Len(frames) : frames'[k + 1] = frames[k]

Works(e) ==
  /\ e \in FrameRecords /\ FrameOK(e)
  /\ e.subgraph = Top.subgraph /\ e.node = Top.node
  /\ e.previous_subgraph_idx = Top.previous_subgraph_idx
  /\ e.previous_operator_idx = Top.previous_operator_idx

LEMMA ToInvoked ==
  ASSUME FramesInv, Running, invoke_status = "ok", invoke_status' = "ok", model' = model,
         Top.stage # "fetch", StageTo("invoked")
  PROVE  FramesInv' /\ TopBecomes(InStage("invoked")) /\ Works(InStage("invoked"))
<1> DEFINE e == InStage("invoked")
<1>1. /\ frames \in Seq(FrameRecords) /\ frames # <<>> /\ 1 \in 1 .. Len(frames)
      /\ Top = frames[1] /\ Top \in FrameRecords /\ FrameOK(Top)
  BY TopFrame
<1>2. /\ e \in FrameRecords /\ e.stage = "invoked" /\ e.callee = Top.callee
      /\ e.subgraph = Top.subgraph /\ e.node = Top.node
      /\ e.previous_subgraph_idx = Top.previous_subgraph_idx
      /\ e.previous_operator_idx = Top.previous_operator_idx
  BY <1>1 DEF InStage, FrameRecords
<1>3. frames' = [frames EXCEPT ![1] = e]
  BY <1>1 DEF StageTo, InStage
<1> HIDE DEF e
<1>4. FrameOK(e)
  BY <1>1, <1>2 DEF FrameOK, Codes
<1>5. StackOK' /\ TopBecomes(e)
  BY <1>2, <1>3, <1>4, StageStep DEF TopBecomes
<1>6. IndicesOK'
  BY <1>2, <1>5 DEF TopBecomes, FramesInv, IndicesOK, NextOperator, StageTo, Running
<1> QED
  BY <1>2, <1>4, <1>5, <1>6 DEF FramesInv, Works, e

LEMMA ToCallee ==
  ASSUME FramesInv, Running, invoke_status = "ok", invoke_status' = "ok", model' = model,
         Top.stage # "fetch", NEW g \in Graph, NEW stage \in Calling,
         FrameOK(Awaiting(g, stage)), InvokeSubgraph(g, stage)
  PROVE  /\ FramesInv' /\ TopInvokes(Awaiting(g, stage), Frame(g))
         /\ Works(Awaiting(g, stage))
         /\ Awaiting(g, stage).stage = stage
<1> DEFINE e == Awaiting(g, stage)
           h == Frame(g)
<1>1. /\ frames \in Seq(FrameRecords) /\ frames # <<>> /\ 1 \in 1 .. Len(frames)
      /\ Top = frames[1] /\ Top \in FrameRecords /\ Top.node \in Nat /\ Top.subgraph \in Nat
  BY TopFrame, GraphFacts DEF FramesInv
<1>2. g \in Nat /\ OpCount(g) \in Nat
  BY GraphFacts DEF FramesInv
<1>3. /\ e \in FrameRecords /\ e.stage = stage /\ e.callee = g
      /\ e.subgraph = Top.subgraph /\ e.node = Top.node
      /\ e.previous_subgraph_idx = Top.previous_subgraph_idx
      /\ e.previous_operator_idx = Top.previous_operator_idx
  BY <1>1, <1>2 DEF Awaiting, FrameRecords
<1>4. frames' = <<h>> \o [frames EXCEPT ![1] = e]
  <2>1. [frames EXCEPT ![1].stage = stage, ![1].callee = g] = [frames EXCEPT ![1] = e]
    BY <1>1 DEF Awaiting
  <2> QED
    BY <2>1 DEF InvokeSubgraph
<1>5. current_subgraph_index_ = Top.subgraph /\ current_operator_index_ = Top.node
  BY DEF FramesInv, IndicesOK, NextOperator
<1>6. /\ h \in FrameRecords /\ h.subgraph = g /\ h.node = 0 /\ h.stage = "fetch"
      /\ h.previous_subgraph_idx = Top.subgraph /\ h.previous_operator_idx = Top.node
  BY <1>1, <1>5 DEF Frame, FrameRecords
<1>7. FrameOK(e)
  OBVIOUS
<1> HIDE DEF e, h
<1>8. FrameOK(h)
  <2>1. h.node <= OpCount(h.subgraph)
    BY <1>2, <1>6
  <2> QED
    BY <1>6, <2>1 DEF FrameOK, Codes
<1>9. CalledBy(h, e)
  BY <1>3, <1>6 DEF CalledBy
<1>10. StackOK' /\ TopInvokes(e, h)
  BY <1>3, <1>4, <1>6, <1>7, <1>8, <1>9, InvocationStep DEF TopInvokes
<1>11. IndicesOK'
  <2>1. current_subgraph_index_' = g /\ current_operator_index_' = 1
    BY DEF InvokeSubgraph
  <2>2. NextOperator(h) = 1 /\ Top' = h /\ frames' # <<>>
    BY <1>6, <1>10 DEF TopInvokes, NextOperator
  <2> QED
    BY <1>6, <2>1, <2>2 DEF IndicesOK, NextOperator, Running
<1> QED
  BY <1>3, <1>7, <1>10, <1>11 DEF FramesInv, Works, e, h

\* The subgraphs of a kernel's operator.
LEMMA CalleeFacts ==
  ASSUME FramesInv, Running, Top.stage # "fetch"
  PROVE  /\ Top.node \in 1 .. OpCount(Top.subgraph)
         /\ Node \in Operators /\ Node = Op(Top.subgraph, Top.node)
         /\ ToSet(Node.subgraphs) = Callees(Top.subgraph, Top.node)
         /\ Callees(Top.subgraph, Top.node) \subseteq Graph
         /\ TakesCallees(model, Node)
         /\ Node.code = "WHILE" => {CondSubgraph, BodySubgraph} \subseteq Callees(Top.subgraph, Top.node)
         /\ Node.code = "CALL_ONCE" => Node.subgraphs[1] \in Callees(Top.subgraph, Top.node)
<1>1. Top.node \in 1 .. OpCount(Top.subgraph) /\ Top.subgraph \in Graph
  <2>1. /\ FrameOK(Top) /\ Top.node \in Nat /\ Top.subgraph \in Graph
        /\ OpCount(Top.subgraph) \in Nat
    BY TopFrame
  <2>2. Top.node <= OpCount(Top.subgraph) /\ Top.node > 0
    BY <2>1 DEF FrameOK
  <2> QED
    BY <2>1, <2>2
<1>2. /\ Node \in Operators /\ Node = Op(Top.subgraph, Top.node)
      /\ ToSet(Node.subgraphs) = Callees(Top.subgraph, Top.node)
      /\ Callees(Top.subgraph, Top.node) \subseteq Graph
      /\ TakesCallees(model, Node)
  BY <1>1, OpFacts DEF FramesInv, Node, Callees
<1>3. Node.subgraphs \in Seq(Nat)
  BY <1>2 DEF Operators
<1>4. \A k \in 1 .. Len(Node.subgraphs) : Node.subgraphs[k] \in ToSet(Node.subgraphs)
  BY <1>3 DEF ToSet
<1>5. Node.code = "WHILE" => Len(Node.subgraphs) = 2
  BY <1>2 DEF TakesCallees
<1>6. Node.code = "CALL_ONCE" => Len(Node.subgraphs) = 1
  BY <1>2 DEF TakesCallees
<1> QED
  BY <1>1, <1>2, <1>4, <1>5, <1>6 DEF CondSubgraph, BodySubgraph

LEMMA CodeFacts ==
  ASSUME FramesInv, Running
  PROVE  /\ Top.stage \in Codes => Node.code = Top.stage
         /\ Top.stage = "branch" =>
              Node.code = "IF" /\ Top.callee \in Callees(Top.subgraph, Top.node)
         /\ Top.stage \in {"first condition", "condition"} =>
              Node.code = "WHILE" /\ Top.callee = CondSubgraph
         /\ Top.stage = "body" => Node.code = "WHILE" /\ Top.callee = BodySubgraph
         /\ Top.stage = "once" => Node.code = "CALL_ONCE"
<1>1. FrameOK(Top)
  BY TopFrame
<1> QED
  BY <1>1 DEF FrameOK, Node, CondSubgraph, BodySubgraph

LEMMA AwaitingOK ==
  ASSUME FramesInv, Running, Top.stage # "fetch", NEW g \in Graph, NEW stage \in Calling,
         stage = "branch" => Node.code = "IF" /\ g \in Callees(Top.subgraph, Top.node),
         stage \in {"first condition", "condition"} =>
           Node.code = "WHILE" /\ g = CondSubgraph,
         stage = "body" => Node.code = "WHILE" /\ g = BodySubgraph,
         stage = "once" => Node.code = "CALL_ONCE" /\ g = Node.subgraphs[1]
  PROVE  FrameOK(Awaiting(g, stage))
<1> DEFINE e == Awaiting(g, stage)
<1>1. Top \in FrameRecords /\ FrameOK(Top)
  BY TopFrame
<1>2. e.subgraph = Top.subgraph /\ e.node = Top.node /\ e.stage = stage /\ e.callee = g
  BY <1>1 DEF Awaiting, FrameRecords
<1> HIDE DEF e
<1>3. Top.node <= OpCount(Top.subgraph) /\ Top.node > 0
  BY <1>1 DEF FrameOK
<1>4. stage \notin Codes /\ stage # "fetch"
  BY DEF Calling, Codes
<1>5. FrameOK(e)
  BY <1>2, <1>3, <1>4 DEF FrameOK, Node, CondSubgraph, BodySubgraph
<1> QED
  BY <1>5 DEF e

LEMMA FramesStutter ==
  ASSUME FramesInv, model' = model, frames' = frames,
         invoke_status' \in {"ok", "error"},
         invoke_status' = invoke_status \/ (Running /\ invoke_status' = "error"),
         current_subgraph_index_' = current_subgraph_index_,
         current_operator_index_' = current_operator_index_
  PROVE  FramesInv'
<1>1. StackOK'
  BY FrameKept DEF FramesInv, StackOK, CalledByInvoke
<1>2. IndicesOK'
  BY DEF FramesInv, IndicesOK, Running, Top, NextOperator
<1> QED
  BY <1>1, <1>2 DEF FramesInv

LEMMA InvokeFrames ==
  ASSUME FramesInv, Invoke
  PROVE  FramesInv' /\ frames' = <<Frame(1)>> /\ Len(frames') = 1 /\ Top' = Frame(1)
         /\ frames'[1] = Frame(1) /\ invoke_status' = "ok" /\ frames' # <<>>
<1> DEFINE h == Frame(1)
<1>1. /\ frames' = <<h>> /\ model' = model /\ model \in Models /\ invoke_status' = "ok"
      /\ current_subgraph_index_ = 1 /\ current_operator_index_ = 1
      /\ current_subgraph_index_' = 1 /\ current_operator_index_' = 1
  BY DEF Invoke, FramesInv, IndicesOK, Running, markingVars
<1>2. 1 \in Graph /\ OpCount(1) \in Nat
  BY <1>1, ModelFacts, GraphFacts
<1>3. /\ h \in FrameRecords /\ h.subgraph = 1 /\ h.node = 0 /\ h.stage = "fetch"
      /\ h.previous_subgraph_idx = 1 /\ h.previous_operator_idx = 1
  BY <1>1, <1>2 DEF Frame, FrameRecords
<1> HIDE DEF h
<1>4. FrameOK(h)
  <2>1. h.node <= OpCount(h.subgraph)
    BY <1>2, <1>3
  <2> QED
    BY <1>3, <2>1 DEF FrameOK, Codes
<1>5. frames' \in Seq(FrameRecords) /\ Len(frames') = 1 /\ frames'[1] = h /\ frames' # <<>>
  BY <1>1, <1>3
<1>6. Top' = h
  BY <1>1 DEF Top
<1>7. StackOK'
  BY <1>1, <1>3, <1>4, <1>5, FrameKept DEF StackOK, CalledByInvoke
<1>8. IndicesOK'
  BY <1>1, <1>3, <1>5, <1>6 DEF IndicesOK, NextOperator, Running
<1> QED
  BY <1>1, <1>5, <1>6, <1>7, <1>8 DEF FramesInv, h

Fetched == [Top EXCEPT !.node = current_operator_index_,
                       !.stage = Op(Top.subgraph, current_operator_index_).code]

LEMMA FetchFrames ==
  ASSUME FramesInv, FetchOperator
  PROVE  /\ FramesInv' /\ TopBecomes(Fetched)
         /\ Fetched.subgraph = Top.subgraph /\ Fetched.stage \in Codes
         /\ Fetched.node = NextOperator(Top) /\ Fetched.node \in 1 .. OpCount(Top.subgraph)
<1> DEFINE e == Fetched
<1>1. /\ Running /\ invoke_status = "ok" /\ invoke_status' = "ok" /\ Top.stage = "fetch"
      /\ model' = model
      /\ current_subgraph_index_' = current_subgraph_index_
      /\ current_operator_index_' = current_operator_index_
  BY DEF FetchOperator, AtStage, markingVars
<1>2. /\ frames \in Seq(FrameRecords) /\ frames # <<>> /\ 1 \in 1 .. Len(frames)
      /\ Top = frames[1] /\ Top \in FrameRecords /\ Top.subgraph \in Graph
      /\ Top.node \in Nat /\ OpCount(Top.subgraph) \in Nat
  BY <1>1, TopFrame
<1>3. /\ current_subgraph_index_ = Top.subgraph
      /\ current_operator_index_ = NextOperator(Top) /\ NextOperator(Top) = Top.node + 1
  BY <1>1 DEF FramesInv, IndicesOK, NextOperator
<1>4. current_operator_index_ \in 1 .. OpCount(Top.subgraph)
  BY <1>2, <1>3 DEF FetchOperator, OpCount
<1>5. Op(Top.subgraph, current_operator_index_).code \in Codes
  BY <1>2, <1>4, OpFacts DEF FramesInv, Operators, Codes
<1>6. /\ e \in FrameRecords
      /\ e.subgraph = Top.subgraph /\ e.node = current_operator_index_
      /\ e.stage = Op(Top.subgraph, current_operator_index_).code
      /\ e.previous_subgraph_idx = Top.previous_subgraph_idx
      /\ e.previous_operator_idx = Top.previous_operator_idx
  <2>1. PICK c \in Codes : c = Op(Top.subgraph, current_operator_index_).code
    BY <1>5
  <2>2. PICK i \in Nat : i = current_operator_index_
    BY <1>4
  <2>3. e = [Top EXCEPT !.node = i, !.stage = c]
    BY <2>1, <2>2 DEF Fetched
  <2> QED
    BY <1>2, <2>1, <2>2, <2>3 DEF FrameRecords
<1>7. frames' = [frames EXCEPT ![1] = e]
  BY <1>2 DEF FetchOperator, Fetched
<1> HIDE DEF e
<1>8. FrameOK(e)
  <2>1. e.node <= OpCount(e.subgraph) /\ e.node > 0
    BY <1>2, <1>4, <1>6
  <2>2. e.stage \in Codes /\ Op(e.subgraph, e.node).code = e.stage
    BY <1>5, <1>6
  <2> QED
    BY <2>1, <2>2 DEF FrameOK, Codes
<1>9. StackOK' /\ TopBecomes(e)
  BY <1>1, <1>6, <1>7, <1>8, StageStep DEF TopBecomes
<1>10. IndicesOK'
  <2>1. Top' = e /\ e.stage # "fetch" /\ frames' # <<>>
    BY <1>5, <1>6, <1>9 DEF TopBecomes, Codes
  <2> QED
    BY <1>1, <1>3, <1>6, <2>1 DEF IndicesOK, NextOperator, Running
<1> QED
  BY <1>1, <1>3, <1>4, <1>5, <1>6, <1>9, <1>10 DEF FramesInv, e

LEMMA NextOperatorFrames ==
  ASSUME FramesInv, OperatorInvoked
  PROVE  /\ FramesInv' /\ TopBecomes(InStage("fetch"))
         /\ InStage("fetch").subgraph = Top.subgraph /\ InStage("fetch").stage = "fetch"
         /\ InStage("fetch").node = Top.node
<1> DEFINE e == InStage("fetch")
<1>1. /\ Running /\ invoke_status = "ok" /\ invoke_status' = "ok" /\ Top.stage = "invoked"
      /\ model' = model
      /\ current_subgraph_index_' = current_subgraph_index_
      /\ current_operator_index_' = current_operator_index_ + 1
  BY DEF OperatorInvoked, AtStage, markingVars
<1>2. /\ frames \in Seq(FrameRecords) /\ frames # <<>> /\ 1 \in 1 .. Len(frames)
      /\ Top = frames[1] /\ Top \in FrameRecords /\ FrameOK(Top)
  BY <1>1, TopFrame
<1>3. current_subgraph_index_ = Top.subgraph /\ current_operator_index_ = Top.node
  BY <1>1 DEF FramesInv, IndicesOK, NextOperator
<1>4. /\ e \in FrameRecords /\ e.stage = "fetch"
      /\ e.subgraph = Top.subgraph /\ e.node = Top.node
      /\ e.previous_subgraph_idx = Top.previous_subgraph_idx
      /\ e.previous_operator_idx = Top.previous_operator_idx
  BY <1>2 DEF InStage, FrameRecords
<1>5. frames' = [frames EXCEPT ![1] = e]
  BY <1>2 DEF OperatorInvoked, InStage
<1> HIDE DEF e
<1>6. FrameOK(e)
  <2>1. e.node <= OpCount(e.subgraph)
    BY <1>2, <1>4 DEF FrameOK
  <2> QED
    BY <1>4, <2>1 DEF FrameOK, Codes
<1>7. StackOK' /\ TopBecomes(e)
  BY <1>1, <1>4, <1>5, <1>6, StageStep DEF TopBecomes
<1>8. IndicesOK'
  BY <1>1, <1>3, <1>4, <1>7 DEF IndicesOK, NextOperator, Running, TopBecomes
<1> QED
  BY <1>1, <1>4, <1>7, <1>8 DEF FramesInv, e

LEMMA ReturnFrames ==
  ASSUME FramesInv, Running, model' = model, RestoreIndices, invoke_status' = invoke_status
  PROVE  FramesInv'
<1>1. StackOK'
  BY ReturnStep
<1>2. IndicesOK'
  <2>1. CASE Len(frames) = 1
    BY <2>1, ReturnStep DEF IndicesOK, Running
  <2>2. CASE Len(frames) # 1
    BY <2>2, ReturnStep DEF IndicesOK, Running
  <2> QED
    BY <2>1, <2>2
<1> QED
  BY <1>1, <1>2 DEF FramesInv

LEMMA FramesInit == InitExecution => FramesInv
<1> SUFFICES ASSUME InitExecution PROVE FramesInv
  OBVIOUS
<1>1. frames = <<>> /\ model \in Models /\ invoke_status = "ok"
      /\ current_subgraph_index_ = 1 /\ current_operator_index_ = 1
  BY DEF InitExecution, Init
<1>2. StackOK
  BY <1>1 DEF StackOK
<1> QED
  BY <1>1, <1>2 DEF FramesInv, IndicesOK, Running

LEMMA MarkFrames ==
  ASSUME FramesInv, Mark
  PROVE  FramesInv'
<1>1. model' = model
  BY DEF Mark, MarkAllocationLifetimes, BeginOperator, MarkCallee, EndOperator, EndSubgraph
<1>2. /\ frames' = frames /\ invoke_status' = invoke_status
      /\ current_subgraph_index_' = current_subgraph_index_
      /\ current_operator_index_' = current_operator_index_
  BY DEF Mark, executionVars
<1> QED
  BY <1>1, <1>2, FramesStutter DEF FramesInv

\* The kernel of operator Node waits for subgraph g.
Waits(g, stage) ==
  /\ FramesInv' /\ invoke_status' = "ok"
  /\ g \in Callees(Top.subgraph, Top.node)
  /\ TopInvokes(Awaiting(g, stage), Frame(g)) /\ Works(Awaiting(g, stage))
  /\ Awaiting(g, stage).stage = stage

LEMMA IfFrames ==
  ASSUME FramesInv, AtStage("IF"), UNCHANGED <<markingVars, invoke_status>>,
         NEW g \in ToSet(Node.subgraphs), InvokeSubgraph(g, "branch")
  PROVE  Waits(g, "branch")
<1>1. Running /\ Top.stage # "fetch" /\ invoke_status = "ok" /\ model' = model
  BY DEF AtStage, markingVars
<1>2. g \in Callees(Top.subgraph, Top.node) /\ g \in Graph /\ Node.code = "IF"
  BY <1>1, CalleeFacts, CodeFacts DEF AtStage, Codes
<1>3. FrameOK(Awaiting(g, "branch"))
  BY <1>1, <1>2, AwaitingOK DEF Calling
<1> QED
  BY <1>1, <1>2, <1>3, ToCallee DEF Waits, Calling

LEMMA CondFrames ==
  ASSUME FramesInv, Running, invoke_status = "ok", UNCHANGED <<markingVars, invoke_status>>,
         Top.stage # "fetch", Node.code = "WHILE",
         NEW stage \in {"first condition", "condition"}, InvokeSubgraph(CondSubgraph, stage)
  PROVE  Waits(CondSubgraph, stage)
<1>1. model' = model
  BY DEF markingVars
<1>2. PICK g \in Graph : g = CondSubgraph /\ g \in Callees(Top.subgraph, Top.node)
  BY CalleeFacts
<1>3. FrameOK(Awaiting(g, stage))
  BY <1>2, AwaitingOK DEF Calling
<1> QED
  BY <1>1, <1>2, <1>3, ToCallee DEF Waits, Calling

LEMMA BodyFrames ==
  ASSUME FramesInv, Running, invoke_status = "ok", UNCHANGED <<markingVars, invoke_status>>,
         Top.stage # "fetch", Node.code = "WHILE", InvokeSubgraph(BodySubgraph, "body")
  PROVE  Waits(BodySubgraph, "body")
<1>1. model' = model
  BY DEF markingVars
<1>2. PICK g \in Graph : g = BodySubgraph /\ g \in Callees(Top.subgraph, Top.node)
  BY CalleeFacts
<1>3. FrameOK(Awaiting(g, "body"))
  BY <1>2, AwaitingOK DEF Calling
<1> QED
  BY <1>1, <1>2, <1>3, ToCallee DEF Waits, Calling

LEMMA OnceFrames ==
  ASSUME FramesInv, CallOnceInvokes
  PROVE  Waits(Node.subgraphs[1], "once")
<1>1. /\ Running /\ invoke_status = "ok" /\ invoke_status' = "ok" /\ model' = model
      /\ Top.stage = "CALL_ONCE" /\ InvokeSubgraph(Node.subgraphs[1], "once")
  BY DEF CallOnceInvokes, AtStage, markingVars
<1>2. Node.code = "CALL_ONCE"
  BY <1>1, CodeFacts DEF Codes
<1>3. PICK g \in Graph : g = Node.subgraphs[1] /\ g \in Callees(Top.subgraph, Top.node)
  BY <1>1, <1>2, CalleeFacts
<1>4. FrameOK(Awaiting(g, "once"))
  BY <1>1, <1>2, <1>3, AwaitingOK DEF Calling
<1> QED
  BY <1>1, <1>3, <1>4, ToCallee DEF Waits, Calling

\* A kernel that is done.
LEMMA DoneFrames ==
  ASSUME FramesInv, Running, invoke_status = "ok", UNCHANGED <<markingVars, invoke_status>>,
         Top.stage # "fetch", StageTo("invoked")
  PROVE  /\ FramesInv' /\ invoke_status' = "ok"
         /\ TopBecomes(InStage("invoked")) /\ Works(InStage("invoked"))
BY ToInvoked DEF markingVars

LEMMA WhileFacts ==
  ASSUME FramesInv, AtStage("WHILE") \/ AtStage("first condition") \/ AtStage("body")
                     \/ AtStage("condition")
  PROVE  Running /\ invoke_status = "ok" /\ Top.stage # "fetch" /\ Node.code = "WHILE"
BY CodeFacts DEF AtStage, Codes

LEMMA FramesStep == FramesInv /\ [Next]_vars => FramesInv'
<1> SUFFICES ASSUME FramesInv, [Next]_vars
             PROVE  FramesInv'
  OBVIOUS
<1>1. CASE Mark
  BY <1>1, MarkFrames
<1>2. CASE Invoke
  BY <1>2, InvokeFrames
<1>3. CASE FetchOperator
  BY <1>3, FetchFrames
<1>4. CASE RunKernel
  BY <1>4, DoneFrames DEF RunKernel, AtStage
<1>5. CASE IfInvokesBranch
  <2>1. PICK g \in ToSet(Node.subgraphs) : InvokeSubgraph(g, "branch")
    BY <1>5 DEF IfInvokesBranch
  <2> QED
    BY <1>5, <2>1, IfFrames DEF IfInvokesBranch, Waits
<1>6. CASE IfCopiesOutputs
  BY <1>6, DoneFrames DEF IfCopiesOutputs, AtStage
<1>7. CASE WhileInvokesCond
  BY <1>7, WhileFacts, CondFrames DEF WhileInvokesCond, Waits
<1>8. CASE WhileBegins
  <2>1. CASE InvokeSubgraph(BodySubgraph, "body")
    BY <1>8, <2>1, WhileFacts, BodyFrames DEF WhileBegins, Waits
  <2>2. CASE StageTo("invoked")
    BY <1>8, <2>2, WhileFacts, DoneFrames DEF WhileBegins
  <2> QED
    BY <1>8, <2>1, <2>2 DEF WhileBegins
<1>9. CASE WhileTestsAgain
  BY <1>9, WhileFacts, CondFrames DEF WhileTestsAgain, Waits
<1>10. CASE WhileIterates
  BY <1>10, WhileFacts, BodyFrames DEF WhileIterates, Waits
<1>11. CASE WhileEnds
  BY <1>11, WhileFacts, DoneFrames DEF WhileEnds
<1>12. CASE CallOnceInvokes
  BY <1>12, OnceFrames DEF Waits
<1>13. CASE CallOnceSkips
  BY <1>13, DoneFrames DEF CallOnceSkips, AtStage
<1>14. CASE CallOnceDone
  BY <1>14, DoneFrames DEF CallOnceDone, AtStage
<1>15. CASE OperatorInvoked
  BY <1>15, NextOperatorFrames
<1>16. CASE SubgraphInvoked
  BY <1>16, ReturnFrames DEF SubgraphInvoked, AtStage, markingVars
<1>17. CASE Unwind
  BY <1>17, ReturnFrames DEF Unwind, markingVars
<1>18. CASE KernelFails
  BY <1>18, FramesStutter DEF KernelFails, AtStage, markingVars
<1>19. CASE UNCHANGED vars
  BY <1>19, FramesStutter DEF vars, markingVars, executionVars, FramesInv
<1> QED
  BY <1>1, <1>2, <1>3, <1>4, <1>5, <1>6, <1>7, <1>8, <1>9, <1>10, <1>11, <1>12, <1>13,
     <1>14, <1>15, <1>16, <1>17, <1>18, <1>19 DEF Next, Execute

\* Through any depth of nested subgraphs a running kernel works on its own subgraph
\* and operator, and after an invocation, failed or not, the indices are those of the
\* start: every activation restores what its caller had (InvokeSubgraph).
THEOREM IndicesRestored == Spec => []IndicesRight
<1>1. InitExecution => FramesInv
  BY FramesInit
<1>2. FramesInv => IndicesRight
  BY DEF FramesInv, IndicesOK, IndicesRight, NextOperator
<1> QED
  BY <1>1, <1>2, FramesStep, PTL DEF Spec

-----------------------------------------------------------------------------
(* What an execution keeps intact *)

\* Buffers that are not moved lie on no other's bytes.
Permanent == model.weights \union model.variables

\* The buffers that have a value before operator i of subgraph s in an invocation.
Made(s, i) == Inputs(s) \union UNION {OpOutputs(s, j) : j \in 1 .. i - 1}

\* The buffers that activation f, following pass w, is to find as they were written:
\* those that live to the end of its operator, and what the operator has made.
SecuredAt(f, w) ==
  {b \in Made(f.subgraph, NextOperator(f)) : w.ends[NextOperator(f)] <= last_used[b]}
    \union {b \in OpOutputs(f.subgraph, f.node) : f.stage \in {"condition", "invoked"}}
    \union {b \in OpScratch(f.subgraph, f.node) :
              f.stage = "invoked" /\ Op(f.subgraph, f.node).code = "KERNEL"}

Secured(ws) == Permanent \union UNION {SecuredAt(frames[k], ws[k]) : k \in 1 .. Len(frames)}

\* Pass v is of a subgraph that the operator at which f is invokes.
Inside(v, f, w) == w.starts[f.node] <= v.begin /\ End(v) <= w.ends[f.node]

\* Each activation follows a pass, and the passes of those that it has invoked lie
\* within the interval of its operator.
Follows(ws) ==
  /\ ws \in Seq(Walked) /\ Len(ws) = Len(frames)
  /\ \A k \in 1 .. Len(frames) : ws[k].subgraph = frames[k].subgraph
  /\ \A k \in 1 .. Len(frames) : \A j \in 1 .. k - 1 : Inside(ws[j], frames[k], ws[k])

Guarded(ws) == Follows(ws) /\ Secured(ws) \subseteq intact

Answering == {"branch", "first condition", "body", "condition"}

DataInv ==
  /\ Permanent \subseteq intact
  /\ ~Planned => ~Running /\ answered = FALSE
  /\ Running => answered = FALSE
  /\ ~Running /\ answered => Outputs(1) \subseteq intact
  /\ Running /\ invoke_status = "ok" => \E ws \in Seq(Walked) : Guarded(ws)
  /\ AtStage("branch") \/ AtStage("first condition") \/ AtStage("body") \/ AtStage("condition")
       => Outputs(Top.callee) \subseteq intact

LEMMA MarkingKept ==
  ASSUME UNCHANGED markingVars
  PROVE  /\ Walked' = Walked /\ Permanent' = Permanent /\ Planned' = Planned
         /\ \A f, w : SecuredAt(f, w)' = SecuredAt(f, w)
         /\ \A v, f, w : Inside(v, f, w)' = Inside(v, f, w)
         /\ \A s : Outputs(s)' = Outputs(s)
<1>1. /\ model' = model /\ calls' = calls /\ described' = described
      /\ first_created' = first_created /\ last_used' = last_used
  BY DEF markingVars
<1>2. \A b, p, q : Throughout(b, p, q)' = Throughout(b, p, q)
  BY <1>1, GraphKept DEF Throughout
<1>3. \A s, i, p, q : OpMarked(s, i, p, q)' = OpMarked(s, i, p, q)
  BY <1>1, <1>2, GraphKept DEF OpMarked
<1>4. \A W, w, k : MarkedUpto(W, w, k)' = MarkedUpto(W, w, k)
  BY <1>1, <1>3, GraphKept DEF MarkedUpto, PassWithin
<1>5. \A w : BeginMarked(w)' = BeginMarked(w) /\ EndMarked(w)' = EndMarked(w)
  BY <1>1, <1>2, GraphKept DEF BeginMarked, EndMarked
<1>6. \A W : Closed(W)' = Closed(W)
  BY <1>1, <1>4, <1>5, GraphKept DEF Closed, Complete, Ordered
<1>7. Walked' = Walked
  BY <1>1, <1>6, GraphKept DEF Walked
<1>8. ASSUME NEW f, NEW w
      PROVE  SecuredAt(f, w)' = SecuredAt(f, w)
  <2>1. \A s, i : Made(s, i)' = Made(s, i)
    BY <1>1, GraphKept DEF Made
  <2> QED
    BY <1>1, <2>1, GraphKept DEF SecuredAt, NextOperator
<1>9. \A v, f, w : Inside(v, f, w)' = Inside(v, f, w)
  BY <1>1, GraphKept DEF Inside
<1> QED
  BY <1>1, <1>7, <1>8, <1>9, GraphKept DEF Permanent, Planned

\* A buffer that nothing written at scope p destroys.
Lives(b, p) ==
  \/ ~NeedsAllocating(b)
  \/ b \in Buffers /\ first_created[b] \in 0 .. p /\ p <= last_used[b]

LEMMA NotAllocated ==
  ASSUME model \in Models, NEW b \in Permanent
  PROVE  ~NeedsAllocating(b)
<1>1. CASE b \in model.variables
  <2>1. \/ model.offsets = <<>>
        \/ model.offsets[SubgraphOffset(model, b[1]) + b[2]] = kOnlinePlannedBuffer
    BY <1>1, ModelFacts DEF WellFormed
  <2>2. OfflineOffset(b) = kOnlinePlannedBuffer
    BY <2>1 DEF OfflineOffset
  <2> QED
    BY <1>1, <2>2 DEF NeedsAllocating
<1>2. CASE b \notin model.variables
  BY <1>2 DEF NeedsAllocating, Permanent
<1> QED
  BY <1>1, <1>2

LEMMA NoShare ==
  ASSUME MarkingInv, NEW a, NEW b, NEW p \in Nat, Lives(a, p), Lives(b, p)
  PROVE  ~MayShare(a, b)
BY DEF MarkingInv, Lifetimes, Lives, MayShare, kUninitializedLifetime

LEMMA WrittenKeeps ==
  ASSUME MarkingInv, NEW W, NEW p \in Nat, \A w \in W : Lives(w, p),
         NEW b \in intact \union W, Lives(b, p)
  PROVE  b \in Written(W)
BY NoShare DEF Written

\* The intervals of a complete pass.
LEMMA PassIntervals ==
  ASSUME MarkingInv, NEW w \in Walked
  PROVE  /\ w \in Passes /\ w.subgraph \in Graph /\ w.begin \in Nat /\ End(w) \in Nat
         /\ OpCount(w.subgraph) \in Nat
         /\ \A i \in Nat : w.starts[i] \in Nat /\ w.ends[i] \in Nat
         /\ \A i \in 1 .. OpCount(w.subgraph) + 1 :
              /\ w.begin <= w.starts[i] /\ w.starts[i] <= w.ends[i] /\ w.ends[i] <= End(w)
         /\ \A i, j \in 1 .. OpCount(w.subgraph) + 1 : i < j => w.ends[i] <= w.starts[j]
         /\ BeginMarked(w) /\ EndMarked(w)
         /\ MarkedUpto(Walked, w, OpCount(w.subgraph))
<1>1. w \in Passes /\ Complete(Walked, w)
  BY WalkedFacts DEF Closed
<1>2. /\ w.subgraph \in Graph /\ w.begin \in Nat /\ End(w) \in Nat
      /\ OpCount(w.subgraph) \in Nat
      /\ \A i \in Nat : w.starts[i] \in Nat /\ w.ends[i] \in Nat
  BY <1>1, PassFacts DEF MarkingInv
<1> PICK m \in Nat : m = OpCount(w.subgraph)
  BY <1>2
<1>3. Ordered(w, m + 1)
  BY <1>1 DEF Complete
<1>4. ASSUME NEW i \in 1 .. m + 1
      PROVE  w.ends[i] <= End(w)
  <2>1. CASE i = m + 1
    BY <1>2, <2>1 DEF End
  <2>2. CASE i # m + 1
    <3>1. w.ends[i] <= w.starts[m + 1] /\ w.starts[m + 1] <= w.ends[m + 1]
      BY <1>3, <2>2 DEF Ordered
    <3> QED
      BY <1>2, <3>1 DEF End
  <2> QED
    BY <2>1, <2>2
<1> QED
  BY <1>1, <1>2, <1>3, <1>4 DEF Complete, Ordered

LEMMA ThroughoutLives ==
  ASSUME NEW b, NEW p \in Nat, NEW q \in Nat, NEW r \in Nat, p <= r, r <= q,
         MarkingInv, Throughout(b, p, q)
  PROVE  Lives(b, r)
BY DEF Throughout, Lives, MarkingInv, Lifetimes, kUninitializedLifetime

\* At any scope of the operator's interval what its activation secures lives.
LEMMA SecuredLives ==
  ASSUME MarkingInv, NEW w \in Walked, NEW f, w.subgraph = f.subgraph, f.stage # "fetch",
         f.node \in 1 .. OpCount(f.subgraph), NEW p \in Nat,
         w.starts[f.node] <= p, p <= w.ends[f.node], NEW b \in SecuredAt(f, w)
  PROVE  Lives(b, p)
<1> PICK s \in Graph, n \in Nat, m \in Nat :
      s = f.subgraph /\ n = f.node /\ m = OpCount(s) /\ n \in 1 .. m
  BY PassIntervals
<1>1. /\ w.begin \in Nat /\ \A i \in Nat : w.starts[i] \in Nat /\ w.ends[i] \in Nat
      /\ \A i \in 1 .. m + 1 : w.begin <= w.starts[i] /\ w.starts[i] <= w.ends[i]
      /\ \A i, j \in 1 .. m + 1 : i < j => w.ends[i] <= w.starts[j]
      /\ BeginMarked(w) /\ MarkedUpto(Walked, w, m)
  BY PassIntervals
<1>2. w.starts[n] <= p /\ p <= w.ends[n] /\ n \in 1 .. m + 1
  OBVIOUS
<1>3. \A i \in 1 .. m : OpMarked(s, i, w.starts[i], w.ends[i])
  BY <1>1 DEF MarkedUpto
<1>4. CASE b \in OpOutputs(s, n) \union OpScratch(s, n)
  <2>1. Throughout(b, w.starts[n], w.ends[n])
    BY <1>3, <1>4 DEF OpMarked
  <2> QED
    BY <1>1, <1>2, <2>1, ThroughoutLives
<1>5. CASE b \in Made(s, n) /\ w.ends[n] <= last_used[b]
  <2>1. ASSUME NEW r \in Nat, NEW q \in Nat, r <= p, Throughout(b, r, q)
        PROVE  Lives(b, p)
    <3>1. b \in Buffers /\ first_created[b] \in 0 .. r
      BY <2>1 DEF Throughout
    <3>2. p <= last_used[b]
      BY <1>1, <1>2, <1>5, <3>1, SMTT(60) DEF MarkingInv, Lifetimes, kUninitializedLifetime
    <3> QED
      BY <2>1, <3>1, <3>2 DEF Lives
  <2>2. CASE b \in Inputs(s)
    <3>1. Throughout(b, w.begin, w.begin) /\ w.begin <= p
      BY <1>1, <1>2, <2>2 DEF BeginMarked
    <3> QED
      BY <1>1, <2>1, <3>1
  <2>3. CASE \E j \in 1 .. n - 1 : b \in OpOutputs(s, j)
    <3>1. PICK j \in 1 .. n - 1 : b \in OpOutputs(s, j)
      BY <2>3
    <3>2. j \in 1 .. m /\ j \in 1 .. m + 1 /\ j < n /\ j \in Nat
      OBVIOUS
    <3>3. Throughout(b, w.starts[j], w.ends[j])
      BY <1>3, <3>1, <3>2 DEF OpMarked
    <3>4. w.starts[j] <= w.ends[j] /\ w.ends[j] <= w.starts[n]
      BY <1>1, <1>2, <3>2
    <3>5. w.starts[j] <= p /\ w.starts[j] \in Nat /\ w.ends[j] \in Nat
      BY <1>1, <1>2, <3>2, <3>4
    <3> QED
      BY <2>1, <3>3, <3>5
  <2> QED
    BY <1>5, <2>2, <2>3 DEF Made
<1> QED
  BY <1>4, <1>5 DEF SecuredAt, NextOperator

\* The tensors that have a value before an operator and are used at its end or later
\* are secured.
LEMMA ValuesSecured ==
  ASSUME model \in Models, NEW s \in Graph, NEW i \in 1 .. OpCount(s) + 1,
         NEW t \in HasValue(model, s, i)
  PROVE  <<s, t>> \in Permanent \union Made(s, i)
<1>1. /\ DOMAIN Subgraph(s).ops = 1 .. OpCount(s) /\ OpCount(s) \in Nat /\ InOrder(model, s)
      /\ Subgraph(s) \in Graphs
  BY GraphFacts
<1>2. t \in 1 .. Subgraph(s).tensors /\ t # 0
  BY <1>1 DEF HasValue, Subgraph, Graphs
<1>3. CASE <<s, t>> \in model.weights \union model.variables
  BY <1>3 DEF Permanent
<1>4. CASE t \in ToSet(Subgraph(s).inputs)
  BY <1>2, <1>4 DEF Made, Inputs, Named
<1>5. CASE \E j \in 1 .. OpCount(s) : j < i /\ t \in ToSet(Subgraph(s).ops[j].outputs)
  <2>1. PICK j \in 1 .. OpCount(s) : j < i /\ t \in ToSet(Op(s, j).outputs)
    BY <1>5 DEF Op
  <2>2. j \in 1 .. i - 1 /\ <<s, t>> \in OpOutputs(s, j)
    BY <1>1, <1>2, <2>1 DEF OpOutputs, Named
  <2> QED
    BY <2>2 DEF Made
<1> QED
  BY <1>1, <1>3, <1>4, <1>5 DEF HasValue, Subgraph

LEMMA InputsSecured ==
  ASSUME MarkingInv, NEW w \in Walked, NEW f, w.subgraph = f.subgraph, f.stage # "fetch",
         f.node \in 1 .. OpCount(f.subgraph)
  PROVE  OpInputs(f.subgraph, f.node) \subseteq Permanent \union SecuredAt(f, w)
<1> PICK s \in Graph, n \in Nat, m \in Nat :
      s = f.subgraph /\ n = f.node /\ m = OpCount(s) /\ n \in 1 .. m
  BY PassIntervals
<1>1. model \in Models /\ n \in 1 .. m + 1
  BY DEF MarkingInv
<1> SUFFICES ASSUME NEW b \in OpInputs(s, n)
             PROVE  b \in Permanent \union SecuredAt(f, w)
  OBVIOUS
<1>2. PICK t : b = <<s, t>> /\ t \in ToSet(Op(s, n).inputs) \ {0}
  BY DEF OpInputs, Named
<1>3. t \in HasValue(model, s, n)
  BY <1>1, <1>2, GraphFacts DEF InOrder, Op, Subgraph
<1>4. b \in Permanent \union Made(s, n)
  BY <1>1, <1>2, <1>3, ValuesSecured
<1>5. w.ends[n] <= last_used[b]
  BY PassIntervals DEF MarkedUpto, OpMarked
<1> QED
  BY <1>4, <1>5 DEF SecuredAt, NextOperator

LEMMA OutputsSecured ==
  ASSUME MarkingInv, NEW w \in Walked, NEW f, w.subgraph = f.subgraph,
         NextOperator(f) = OpCount(f.subgraph) + 1
  PROVE  Outputs(f.subgraph) \subseteq Permanent \union SecuredAt(f, w)
<1> PICK s \in Graph, m \in Nat : s = f.subgraph /\ m = OpCount(s)
  BY PassIntervals
<1>1. model \in Models /\ m + 1 \in 1 .. m + 1
  BY DEF MarkingInv
<1> SUFFICES ASSUME NEW b \in Outputs(s)
             PROVE  b \in Permanent \union SecuredAt(f, w)
  OBVIOUS
<1>2. PICK t : b = <<s, t>> /\ t \in ToSet(Subgraph(s).outputs)
  BY DEF Outputs, Named
<1>3. t \in HasValue(model, s, m + 1)
  BY <1>1, <1>2, GraphFacts DEF InOrder, Subgraph, OpCount
<1>4. b \in Permanent \union Made(s, m + 1)
  BY <1>1, <1>2, <1>3, ValuesSecured
<1>5. w.ends[m + 1] <= last_used[b]
  BY PassIntervals DEF EndMarked, Throughout, End
<1> QED
  BY <1>4, <1>5 DEF SecuredAt

\* A pass over each subgraph that an operator of a complete pass may invoke.
LEMMA CalleePass ==
  ASSUME MarkingInv, NEW w \in Walked, NEW i \in 1 .. OpCount(w.subgraph),
         NEW g \in Callees(w.subgraph, i)
  PROVE  \E v \in Walked : /\ v.subgraph = g
                           /\ w.starts[i] <= v.begin /\ End(v) <= w.ends[i]
BY PassIntervals DEF MarkedUpto, PassWithin

\* What is read and written at the beginning and the end of a pass lives there.
LEMMA PassLives ==
  ASSUME MarkingInv, NEW v \in Walked
  PROVE  /\ \A b \in Inputs(v.subgraph) : Lives(b, v.begin)
         /\ \A b \in Outputs(v.subgraph) : Lives(b, End(v))
         /\ v.begin \in Nat /\ End(v) \in Nat /\ v.begin <= End(v)
<1>1. /\ v.begin \in Nat /\ End(v) \in Nat /\ BeginMarked(v) /\ EndMarked(v)
      /\ OpCount(v.subgraph) \in Nat
  BY PassIntervals
<1>2. \A b \in Inputs(v.subgraph) : Lives(b, v.begin)
  BY <1>1, ThroughoutLives DEF BeginMarked
<1>3. \A b \in Outputs(v.subgraph) : Lives(b, End(v))
  BY <1>1, ThroughoutLives DEF EndMarked
<1>4. v.begin <= End(v)
  <2> PICK m \in Nat : m = OpCount(v.subgraph)
    BY <1>1
  <2>1. m + 1 \in 1 .. m + 1 /\ m + 1 \in Nat
    OBVIOUS
  <2>2. /\ v.begin <= v.starts[m + 1] /\ v.starts[m + 1] <= v.ends[m + 1]
        /\ v.ends[m + 1] <= End(v)
        /\ v.starts[m + 1] \in Nat /\ v.ends[m + 1] \in Nat
    BY <2>1, PassIntervals
  <2> QED
    BY <1>1, <2>2
<1> QED
  BY <1>1, <1>2, <1>3, <1>4

LEMMA CallerFacts ==
  ASSUME FramesInv, NEW k \in 2 .. Len(frames)
  PROVE  /\ k \in 1 .. Len(frames) /\ k - 1 \in 1 .. Len(frames) /\ frames[k] \in FrameRecords
         /\ frames[k].stage \in Calling /\ frames[k].stage # "fetch"
         /\ frames[k].node \in 1 .. OpCount(frames[k].subgraph)
         /\ CalledBy(frames[k - 1], frames[k])
<1>1. frames \in Seq(FrameRecords) /\ Len(frames) \in Nat
  BY DEF FramesInv, StackOK
<1>2. k \in 1 .. Len(frames) /\ k - 1 \in 1 .. Len(frames) - 1 /\ (k - 1) + 1 = k
      /\ k - 1 \in 1 .. Len(frames)
  BY <1>1
<1>3. CalledBy(frames[k - 1], frames[k]) /\ FrameOK(frames[k])
  BY <1>2 DEF FramesInv, StackOK
<1>4. frames[k].stage \in Calling /\ frames[k].stage # "fetch"
  BY <1>3 DEF CalledBy, Calling
<1>5. frames[k] \in FrameRecords /\ frames[k].node \in Nat /\ frames[k].subgraph \in Graph
  <2>1. frames[k] \in FrameRecords
    BY <1>1, <1>2, ElementOfSeq
  <2> QED
    BY <2>1 DEF FrameRecords
<1>6. frames[k].node <= OpCount(frames[k].subgraph) /\ frames[k].node > 0
  BY <1>3, <1>4 DEF FrameOK
<1>7. OpCount(frames[k].subgraph) \in Nat
  BY <1>5, GraphFacts DEF FramesInv
<1> QED
  BY <1>2, <1>3, <1>4, <1>5, <1>6, <1>7

\* Activation k follows pass ws[k].
LEMMA FollowsFacts ==
  ASSUME FramesInv, NEW ws, Follows(ws), NEW k \in 1 .. Len(frames)
  PROVE  ws[k] \in Walked /\ ws[k].subgraph = frames[k].subgraph
BY ElementOfSeq DEF Follows

\* A scope of the running operator is one of the interval of every operator that
\* waits for it.
LEMMA WorkLives ==
  ASSUME MarkingInv, FramesInv, Running, Top.stage # "fetch", NEW ws, Follows(ws),
         NEW p \in Nat, ws[1].starts[Top.node] <= p, p <= ws[1].ends[Top.node],
         NEW b \in Secured(ws)
  PROVE  Lives(b, p)
<1> PICK n \in Nat : n = Top.node /\ n \in 1 .. OpCount(Top.subgraph)
  BY CalleeFacts
<1>1. 1 \in 1 .. Len(frames) /\ Top = frames[1]
  BY TopFrame
<1> PICK w \in Walked : w = ws[1] /\ w.subgraph = Top.subgraph
  BY <1>1, FollowsFacts
<1>2. w.starts[n] <= p /\ p <= w.ends[n]
  OBVIOUS
<1>3. CASE b \in Permanent
  BY <1>3, NotAllocated DEF Lives, MarkingInv
<1>4. CASE \E k \in 1 .. Len(frames) : b \in SecuredAt(frames[k], ws[k])
  <2>1. PICK k \in 1 .. Len(frames) : b \in SecuredAt(frames[k], ws[k])
    BY <1>4
  <2>2. CASE k = 1
    BY <1>1, <1>2, <2>1, <2>2, SecuredLives
  <2>3. CASE k # 1
    <3>1. k \in 2 .. Len(frames) /\ 1 \in 1 .. k - 1
      BY <1>1, <2>3
    <3>2. PICK m \in Nat : m = frames[k].node /\ m \in 1 .. OpCount(frames[k].subgraph)
      BY <3>1, CallerFacts
    <3>3. PICK v \in Walked : v = ws[k] /\ v.subgraph = frames[k].subgraph
      BY FollowsFacts
    <3>4. v.starts[m] <= w.begin /\ End(w) <= v.ends[m]
      BY <3>1, <3>2, <3>3 DEF Follows, Inside
    <3>5. w.begin <= w.starts[n] /\ w.ends[n] <= End(w)
      <4>1. n \in 1 .. OpCount(w.subgraph) + 1
        BY PassIntervals
      <4> QED
        BY <4>1, PassIntervals
    <3>6. w.begin \in Nat /\ w.starts[n] \in Nat /\ w.ends[n] \in Nat /\ End(w) \in Nat
          /\ v.starts[m] \in Nat /\ v.ends[m] \in Nat
      BY PassIntervals
    <3>7. v.starts[m] <= p /\ p <= v.ends[m]
      BY <1>2, <3>4, <3>5, <3>6, SMTT(60)
    <3> QED
      BY <2>1, <3>1, <3>2, <3>3, <3>7, CallerFacts, SecuredLives
  <2> QED
    BY <2>2, <2>3
<1> QED
  BY <1>3, <1>4 DEF Secured

\* A write of buffers that live at a scope of the running operator's interval.
LEMMA WriteSafe ==
  ASSUME MarkingInv, FramesInv, Running, Top.stage # "fetch", NEW ws, Guarded(ws),
         NEW p \in Nat, ws[1].starts[Top.node] <= p, p <= ws[1].ends[Top.node],
         NEW W, \A b \in W : Lives(b, p)
  PROVE  Secured(ws) \union W \subseteq Written(W)
<1> SUFFICES ASSUME NEW b \in Secured(ws) \union W
             PROVE  b \in Written(W)
  OBVIOUS
<1>1. Lives(b, p)
  BY WorkLives DEF Guarded
<1>2. b \in intact \union W
  BY DEF Guarded
<1> QED
  BY <1>1, <1>2, WrittenKeeps

Targets(pairs) == {q[2] : q \in pairs}

LEMMA TargetsOfProduct ==
  ASSUME NEW S, NEW T, S # {} \/ T = {}
  PROVE  Targets(S \X T) = T
<1>1. ASSUME NEW t \in T
      PROVE  t \in Targets(S \X T)
  <2>1. PICK x \in S : TRUE
    OBVIOUS
  <2>2. <<x, t>> \in S \X T /\ <<x, t>>[2] = t
    OBVIOUS
  <2> QED
    BY <2>2 DEF Targets
<1>2. ASSUME NEW q \in S \X T
      PROVE  q[2] \in T
  OBVIOUS
<1> QED
  BY <1>1, <1>2 DEF Targets

LEMMA TargetsOfUnion ==
  ASSUME NEW P, NEW Q
  PROVE  Targets(P \union Q) = Targets(P) \union Targets(Q)
BY DEF Targets

\* Copies between buffers that are in use at the same time.
LEMMA CopySafe ==
  ASSUME MarkingInv, FramesInv, Running, Top.stage # "fetch", NEW ws, Guarded(ws),
         NEW p \in Nat, ws[1].starts[Top.node] <= p, p <= ws[1].ends[Top.node],
         NEW pairs, \A q \in pairs : ~MayShare(q[1], q[2]),
         \A b \in Targets(pairs) : Lives(b, p), CopyBuffers(pairs)
  PROVE  Secured(ws) \union Targets(pairs) \subseteq intact'
<1>1. intact' = Written(Targets(pairs))
  BY DEF CopyBuffers, Targets
<1> QED
  BY <1>1, WriteSafe

LEMMA GuardStays ==
  ASSUME FramesInv, Running, UNCHANGED markingVars, NEW ws, Follows(ws),
         NEW e, e.subgraph = Top.subgraph, TopBecomes(e),
         Secured(ws) \union SecuredAt(e, ws[1]) \subseteq intact'
  PROVE  Guarded(ws)'
<1>1. /\ 1 \in 1 .. Len(frames) /\ Top = frames[1] /\ Len(frames) \in Nat
      /\ frames \in Seq(FrameRecords)
  BY TopFrame
<1>2. /\ frames'[1] = e /\ Len(frames') = Len(frames)
      /\ \A k \in 2 .. Len(frames) : frames'[k] = frames[k]
  BY DEF TopBecomes
<1>3. \A k \in 1 .. Len(frames) : k = 1 \/ k \in 2 .. Len(frames)
  BY <1>1
<1>4. Follows(ws)'
  <2>1. \A k \in 1 .. Len(frames) : ws[k].subgraph = frames'[k].subgraph
    BY <1>1, <1>2, <1>3 DEF Follows
  <2>2. ASSUME NEW k \in 1 .. Len(frames), NEW j \in 1 .. k - 1
        PROVE  Inside(ws[j], frames'[k], ws[k])
    <3>1. k \in 2 .. Len(frames)
      BY <1>1
    <3> QED
      BY <1>2, <3>1 DEF Follows
  <2> QED
    BY <1>2, <2>1, <2>2, MarkingKept DEF Follows
<1>5. Secured(ws)' \subseteq intact'
  <2>1. ASSUME NEW k \in 1 .. Len(frames)
        PROVE  SecuredAt(frames'[k], ws[k]) \subseteq intact'
    BY <1>1, <1>2, <1>3 DEF Secured
  <2>2. Permanent \subseteq intact'
    BY DEF Secured
  <2> QED
    BY <1>2, <2>1, <2>2, MarkingKept DEF Secured
<1> QED
  BY <1>4, <1>5 DEF Guarded

LEMMA GuardInvokes ==
  ASSUME MarkingInv, FramesInv, Running, Top.stage # "fetch", UNCHANGED markingVars,
         NEW ws, Follows(ws), NEW e, e.subgraph = Top.subgraph, e.node = Top.node,
         NEW h, TopInvokes(e, h), NEW v \in Walked, v.subgraph = h.subgraph,
         ws[1].starts[Top.node] <= v.begin, End(v) <= ws[1].ends[Top.node],
         Secured(ws) \union SecuredAt(e, ws[1]) \union SecuredAt(h, v) \subseteq intact'
  PROVE  Guarded(<<v>> \o ws)'
<1> DEFINE vs == <<v>> \o ws
<1>1. /\ 1 \in 1 .. Len(frames) /\ Top = frames[1] /\ Len(frames) \in Nat
      /\ frames \in Seq(FrameRecords) /\ Top.node \in 1 .. OpCount(Top.subgraph)
  BY TopFrame, CalleeFacts
<1>2. /\ frames'[1] = h /\ frames'[2] = e /\ Len(frames') = Len(frames) + 1
      /\ \A k \in 2 .. Len(frames) : frames'[k + 1] = frames[k]
  BY DEF TopInvokes
<1>3. /\ vs \in Seq(Walked) /\ Len(vs) = Len(frames) + 1 /\ vs[1] = v
      /\ \A k \in 1 .. Len(frames) : vs[k + 1] = ws[k]
  <2>1. ws \in Seq(Walked) /\ Len(ws) = Len(frames)
    BY DEF Follows
  <2>2. /\ vs \in Seq(Walked) /\ Len(vs) = Len(ws) + 1 /\ vs[1] = v
        /\ \A k \in 2 .. Len(ws) + 1 : vs[k] = ws[k - 1]
    BY <2>1, PushFacts
  <2>3. \A k \in 1 .. Len(frames) : k + 1 \in 2 .. Len(ws) + 1 /\ (k + 1) - 1 = k
    BY <1>1, <2>1
  <2> QED
    BY <2>1, <2>2, <2>3
<1> HIDE DEF vs
<1>4. \A k \in 1 .. Len(frames') : k = 1 \/ \E j \in 1 .. Len(frames) : k = j + 1
  <2>1. \A k \in 1 .. Len(frames') : k = 1 \/ (k - 1 \in 1 .. Len(frames) /\ k = (k - 1) + 1)
    BY <1>1, <1>2
  <2> QED
    BY <2>1
\* The frame above which k was keeps its subgraph and operator.
<1>5. ASSUME NEW k \in 1 .. Len(frames)
      PROVE  /\ frames'[k + 1].subgraph = frames[k].subgraph
             /\ frames'[k + 1].node = frames[k].node
  <2>1. k = 1 \/ k \in 2 .. Len(frames)
    BY <1>1
  <2> QED
    BY <1>1, <1>2, <2>1
<1>6. ASSUME NEW k \in 1 .. Len(frames)
      PROVE  Inside(v, frames[k], ws[k])
  <2>1. CASE k = 1
    BY <1>1, <2>1 DEF Inside
  <2>2. CASE k # 1
    <3>1. Inside(ws[1], frames[k], ws[k])
      <4>1. 1 \in 1 .. k - 1
        BY <1>1, <2>2
      <4> QED
        BY <4>1 DEF Follows
    <3>2. PICK n \in Nat : n = Top.node /\ n \in 1 .. OpCount(Top.subgraph)
      BY <1>1
    <3>3. PICK w \in Walked : w = ws[1] /\ w.subgraph = Top.subgraph
      BY <1>1, FollowsFacts
    <3>4. w.begin <= w.starts[n] /\ w.ends[n] <= End(w)
      <4>1. n \in 1 .. OpCount(w.subgraph) + 1
        BY <3>2, <3>3, PassIntervals
      <4> QED
        BY <4>1, PassIntervals
    <3>5. k \in 2 .. Len(frames)
      BY <1>1, <2>2
    <3>6. PICK m \in Nat : m = frames[k].node
      BY <3>5, CallerFacts
    <3>7. PICK u \in Walked : u = ws[k]
      BY FollowsFacts
    <3>8. w.begin \in Nat /\ w.starts[n] \in Nat /\ w.ends[n] \in Nat /\ End(w) \in Nat
          /\ v.begin \in Nat /\ End(v) \in Nat /\ u.starts[m] \in Nat /\ u.ends[m] \in Nat
      BY PassIntervals
    <3>9. u.starts[m] <= w.begin /\ End(w) <= u.ends[m]
      BY <3>1, <3>3, <3>6, <3>7 DEF Inside
    <3>10. w.starts[n] <= v.begin /\ End(v) <= w.ends[n]
      BY <3>2, <3>3
    <3>11. u.starts[m] <= v.begin /\ End(v) <= u.ends[m]
      BY <3>4, <3>8, <3>9, <3>10, SMTT(60)
    <3> QED
      BY <3>6, <3>7, <3>11 DEF Inside
  <2> QED
    BY <2>1, <2>2
<1>7. Follows(vs)'
  <2>1. ASSUME NEW k \in 1 .. Len(frames')
        PROVE  vs[k].subgraph = frames'[k].subgraph
    <3>1. CASE k = 1
      BY <1>2, <1>3, <3>1
    <3>2. CASE k # 1
      <4>1. PICK l \in 1 .. Len(frames) : k = l + 1
        BY <1>4, <3>2
      <4> QED
        BY <1>3, <1>5, <4>1 DEF Follows
    <3> QED
      BY <3>1, <3>2
  <2>2. ASSUME NEW k \in 1 .. Len(frames'), NEW j \in 1 .. k - 1
        PROVE  Inside(vs[j], frames'[k], vs[k])
    <3>1. PICK l \in 1 .. Len(frames) : k = l + 1
      BY <1>1, <1>2, <1>4
    <3>2. CASE j = 1
      BY <1>3, <1>5, <1>6, <3>1, <3>2 DEF Inside
    <3>3. CASE j # 1
      <4>1. j - 1 \in 1 .. l - 1 /\ j - 1 \in 1 .. Len(frames) /\ (j - 1) + 1 = j
        BY <1>1, <3>1, <3>3
      <4>2. Inside(ws[j - 1], frames[l], ws[l])
        BY <4>1 DEF Follows
      <4>3. vs[j] = ws[j - 1] /\ vs[k] = ws[l]
        BY <1>3, <3>1, <4>1
      <4> QED
        BY <1>5, <3>1, <4>2, <4>3 DEF Inside
    <3> QED
      BY <3>2, <3>3
  <2> QED
    BY <1>2, <1>3, <2>1, <2>2, MarkingKept DEF Follows
<1>8. Secured(vs)' \subseteq intact'
  <2>1. ASSUME NEW k \in 1 .. Len(frames')
        PROVE  SecuredAt(frames'[k], vs[k]) \subseteq intact'
    <3>1. CASE k = 1
      BY <1>2, <1>3, <3>1
    <3>2. CASE k # 1
      <4>1. PICK l \in 1 .. Len(frames) : k = l + 1
        BY <1>4, <3>2
      <4>2. l = 1 \/ l \in 2 .. Len(frames)
        BY <1>1
      <4>3. SecuredAt(frames[l], ws[l]) \subseteq intact'
        BY DEF Secured
      <4> QED
        BY <1>1, <1>2, <1>3, <4>1, <4>2, <4>3
    <3> QED
      BY <3>1, <3>2
  <2>2. Permanent \subseteq intact'
    BY DEF Secured
  <2> QED
    BY <1>2, <2>1, <2>2, MarkingKept DEF Secured
<1> QED
  BY <1>7, <1>8 DEF Guarded, vs

LEMMA GuardReturns ==
  ASSUME FramesInv, Running, UNCHANGED markingVars, RestoreIndices, NEW ws, Guarded(ws),
         intact' = intact
  PROVE  Tail(ws) \in Seq(Walked) /\ Guarded(Tail(ws))'
<1> DEFINE vs == Tail(ws)
<1>1. /\ Len(frames') = Len(frames) - 1 /\ Len(frames) \in Nat
      /\ \A k \in 1 .. Len(frames) - 1 : frames'[k] = frames[k + 1]
  BY ReturnStep DEF markingVars
<1>2. ws \in Seq(Walked) /\ Len(ws) = Len(frames) /\ 1 \in 1 .. Len(frames)
  BY TopFrame DEF Guarded, Follows
<1>3. /\ vs \in Seq(Walked) /\ Len(vs) = Len(frames) - 1
      /\ \A k \in 1 .. Len(frames) - 1 : vs[k] = ws[k + 1]
  <2>1. ws # <<>>
    BY <1>2
  <2> QED
    BY <1>2, <2>1, PopFacts
<1> HIDE DEF vs
<1>4. \A k \in 1 .. Len(frames') : k \in 1 .. Len(frames) - 1 /\ k + 1 \in 1 .. Len(frames)
  BY <1>1
<1>5. Follows(vs)'
  <2>1. \A k \in 1 .. Len(frames') : vs[k].subgraph = frames'[k].subgraph
    BY <1>1, <1>3, <1>4 DEF Guarded, Follows
  <2>2. ASSUME NEW k \in 1 .. Len(frames'), NEW j \in 1 .. k - 1
        PROVE  Inside(vs[j], frames'[k], vs[k])
    <3>1. j + 1 \in 1 .. (k + 1) - 1 /\ j \in 1 .. Len(frames) - 1 /\ k \in 1 .. Len(frames) - 1
          /\ k + 1 \in 1 .. Len(frames)
      BY <1>1
    <3>2. Inside(ws[j + 1], frames[k + 1], ws[k + 1])
      BY <3>1 DEF Guarded, Follows
    <3> QED
      BY <1>1, <1>3, <3>1, <3>2
  <2> QED
    BY <1>1, <1>3, <2>1, <2>2, MarkingKept DEF Follows
<1>6. Secured(vs)' \subseteq intact'
  <2>1. ASSUME NEW k \in 1 .. Len(frames')
        PROVE  SecuredAt(frames'[k], vs[k]) \subseteq intact
    BY <1>1, <1>3, <1>4 DEF Guarded, Secured
  <2>2. Permanent \subseteq intact
    BY DEF Guarded, Secured
  <2> QED
    BY <1>1, <2>1, <2>2, MarkingKept DEF Secured
<1> QED
  BY <1>3, <1>5, <1>6 DEF Guarded, vs

-----------------------------------------------------------------------------
(* Every step keeps it intact *)

LEMMA NodeSets ==
  ASSUME FramesInv, Running, invoke_status = "ok"
  PROVE  /\ NodeInputs = OpInputs(Top.subgraph, Top.node)
         /\ NodeOutputs = OpOutputs(Top.subgraph, Top.node)
         /\ NodeScratch = OpScratch(Top.subgraph, Top.node)
BY DEF FramesInv, IndicesOK, NodeInputs, NodeOutputs, NodeScratch, Node, OpInputs, OpOutputs

\* The running operator has the scopes lo .. hi in pass w.
Interval(ws, w, lo, hi) ==
  /\ w = ws[1] /\ w.subgraph = Top.subgraph
  /\ lo = w.starts[Top.node] /\ hi = w.ends[Top.node] /\ lo <= hi

LEMMA WorkInterval ==
  ASSUME MarkingInv, FramesInv, Running, Top.stage # "fetch", NEW ws, Follows(ws)
  PROVE  \E w \in Walked, lo \in Nat, hi \in Nat : Interval(ws, w, lo, hi)
<1>1. 1 \in 1 .. Len(frames) /\ Top = frames[1]
  BY TopFrame
<1>2. PICK w \in Walked : w = ws[1] /\ w.subgraph = Top.subgraph
  BY <1>1, FollowsFacts
<1>3. PICK n \in Nat : n = Top.node /\ n \in 1 .. OpCount(w.subgraph)
  BY <1>2, CalleeFacts
<1>4. n \in 1 .. OpCount(w.subgraph) + 1
  BY <1>3, PassIntervals
<1>5. w.starts[n] \in Nat /\ w.ends[n] \in Nat /\ w.starts[n] <= w.ends[n]
  BY <1>3, <1>4, PassIntervals
<1> QED
  BY <1>2, <1>3, <1>5 DEF Interval

LEMMA NodeLives ==
  ASSUME MarkingInv, FramesInv, Running, invoke_status = "ok", Top.stage # "fetch",
         NEW ws, Follows(ws), NEW w \in Walked, NEW lo \in Nat, NEW hi \in Nat,
         Interval(ws, w, lo, hi), NEW p \in Nat, lo <= p, p <= hi
  PROVE  /\ \A b \in NodeInputs \union NodeOutputs \union NodeScratch : Lives(b, p)
         /\ NodeInputs \subseteq Secured(ws)
<1> PICK n \in Nat : n = Top.node /\ n \in 1 .. OpCount(Top.subgraph)
  BY CalleeFacts
<1>1. /\ w = ws[1] /\ w.subgraph = Top.subgraph /\ lo = w.starts[n] /\ hi = w.ends[n]
  BY DEF Interval
<1>2. 1 \in 1 .. Len(frames) /\ Top = frames[1]
  BY TopFrame
<1>3. NodeInputs \subseteq Secured(ws)
  <2>1. NodeInputs \subseteq Permanent \union SecuredAt(Top, w)
    BY <1>1, NodeSets, InputsSecured
  <2> QED
    BY <1>1, <1>2, <2>1 DEF Secured
<1>4. \A b \in NodeInputs : Lives(b, p)
  BY <1>1, <1>3, WorkLives
<1>5. OpMarked(Top.subgraph, n, lo, hi)
  BY <1>1, PassIntervals DEF MarkedUpto
<1>6. \A b \in NodeOutputs \union NodeScratch : Lives(b, p)
  BY <1>5, NodeSets, ThroughoutLives DEF OpMarked
<1> QED
  BY <1>3, <1>4, <1>6

LEMMA StageSecures ==
  ASSUME NEW e, NEW w, e.subgraph = Top.subgraph, e.node = Top.node,
         Top.stage # "fetch", e.stage # "fetch",
         FramesInv, Running, invoke_status = "ok", NEW I, SecuredAt(Top, w) \subseteq I,
         e.stage \in {"condition", "invoked"} => NodeOutputs \subseteq I,
         e.stage = "invoked" /\ Node.code = "KERNEL" => NodeScratch \subseteq I
  PROVE  SecuredAt(e, w) \subseteq I
BY NodeSets DEF SecuredAt, NextOperator, Node

LEMMA FrameSecures ==
  ASSUME NEW g, NEW v
  PROVE  SecuredAt(Frame(g), v) \subseteq Inputs(g)
<1> DEFINE h == Frame(g)
<1>1. h.subgraph = g /\ h.node = 0 /\ h.stage = "fetch"
  BY DEF Frame
<1> HIDE DEF h
<1>2. NextOperator(h) = 1
  BY <1>1 DEF NextOperator
<1>3. Made(g, 1) = Inputs(g)
  BY DEF Made
<1>4. SecuredAt(h, v) \subseteq Inputs(g)
  BY <1>1, <1>2, <1>3 DEF SecuredAt
<1> QED
  BY <1>4 DEF h

LEMMA Onward ==
  ASSUME DataInv, Running, UNCHANGED markingVars, answered' = answered,
         frames' # <<>>, Top'.stage \notin Answering,
         NEW ws \in Seq(Walked), Guarded(ws)'
  PROVE  DataInv'
<1>1. Walked' = Walked /\ Planned' = Planned /\ Permanent' = Permanent
  BY MarkingKept
<1>2. Planned /\ answered = FALSE /\ Running'
  BY DEF DataInv, Running
<1>3. Permanent' \subseteq intact'
  BY DEF Guarded, Secured
<1>4. ~(\/ AtStage("branch") \/ AtStage("first condition") \/ AtStage("body")
        \/ AtStage("condition"))'
  BY DEF AtStage, Answering
<1> QED
  BY <1>1, <1>2, <1>3, <1>4 DEF DataInv

\* The kernel is done and its results are intact.
LEMMA DoneKeeps ==
  ASSUME MarkingInv, FramesInv, DataInv, Running, invoke_status = "ok",
         Top.stage # "fetch", StageTo("invoked"),
         UNCHANGED <<markingVars, invoke_status, answered>>,
         NEW ws, Guarded(ws), Secured(ws) \subseteq intact', NodeOutputs \subseteq intact',
         Node.code = "KERNEL" => NodeScratch \subseteq intact'
  PROVE  DataInv'
<1> DEFINE e == InStage("invoked")
<1>1. TopBecomes(e) /\ Works(e)
  BY DoneFrames
<1>2. e.subgraph = Top.subgraph /\ e.node = Top.node
  BY <1>1 DEF Works
<1>3. e.stage = "invoked"
  BY TopFrame DEF InStage, FrameRecords
<1> HIDE DEF e
<1>4. frames' # <<>> /\ Top' = e /\ e.stage \notin Answering
  BY <1>1, <1>3 DEF TopBecomes, Answering
<1>5. SecuredAt(Top, ws[1]) \subseteq intact'
  BY TopFrame DEF Secured
<1>6. SecuredAt(e, ws[1]) \subseteq intact'
  BY <1>2, <1>3, <1>5, StageSecures
<1>7. Guarded(ws)'
  BY <1>1, <1>2, <1>6, GuardStays DEF Guarded
<1> QED
  BY <1>4, <1>7, Onward DEF Guarded, Follows

\* The kernel invokes a subgraph whose inputs are intact.
LEMMA CallKeeps ==
  ASSUME MarkingInv, FramesInv, DataInv, Running, invoke_status = "ok",
         Top.stage # "fetch", NEW g, NEW stage \in Calling, Waits(g, stage),
         UNCHANGED <<markingVars, answered>>,
         NEW ws, Guarded(ws), Secured(ws) \subseteq intact', Inputs(g) \subseteq intact',
         stage = "condition" => NodeOutputs \subseteq intact',
         NEW v \in Walked, v.subgraph = g,
         ws[1].starts[Top.node] <= v.begin, End(v) <= ws[1].ends[Top.node]
  PROVE  DataInv'
<1> DEFINE e == Awaiting(g, stage)
           h == Frame(g)
<1>1. TopInvokes(e, h) /\ e.subgraph = Top.subgraph /\ e.node = Top.node /\ e.stage = stage
  BY DEF Waits, Works
<1>2. h.subgraph = g /\ h.stage = "fetch" /\ SecuredAt(h, v) \subseteq intact'
  BY FrameSecures DEF Frame
<1> HIDE DEF e, h
<1>3. frames' # <<>> /\ Top' = h /\ h.stage \notin Answering
  BY <1>1, <1>2 DEF TopInvokes, Answering
<1>4. SecuredAt(Top, ws[1]) \subseteq intact'
  BY TopFrame DEF Secured
<1>5. stage # "fetch" /\ stage # "invoked"
  BY DEF Calling
<1>6. SecuredAt(e, ws[1]) \subseteq intact'
  BY <1>1, <1>4, <1>5, StageSecures
<1>7. Guarded(<<v>> \o ws)'
  BY <1>1, <1>2, <1>6, GuardInvokes DEF Guarded
<1>8. <<v>> \o ws \in Seq(Walked)
  BY PushFacts DEF Guarded, Follows
<1> QED
  BY <1>3, <1>7, <1>8, Onward

LEMMA NamedEmpty ==
  ASSUME NEW s, NEW x \in Seq(Nat), 0 \notin ToSet(x)
  PROVE  Named(s, x) = {} <=> Len(x) = 0
<1>1. ToSet(x) = {x[k] : k \in 1 .. Len(x)} /\ Len(x) \in Nat
  BY DEF ToSet
<1>2. CASE Len(x) = 0
  BY <1>1, <1>2 DEF Named
<1>3. CASE Len(x) # 0
  <2>1. 1 \in 1 .. Len(x) /\ x[1] \in ToSet(x) \ {0}
    BY <1>1, <1>3
  <2>2. <<s, x[1]>> \in Named(s, x)
    BY <2>1 DEF Named
  <2> QED
    BY <1>3, <2>2
<1> QED
  BY <1>2, <1>3

\* Each argument of a control-flow operator has a tensor to be copied to or from.
LEMMA ArgumentFacts ==
  ASSUME FramesInv, Running, invoke_status = "ok", Top.stage # "fetch"
  PROVE  /\ Node.code = "IF" =>
              \A g \in Callees(Top.subgraph, Top.node) :
                NodeInputs # {} /\ (Outputs(g) = {} => NodeOutputs = {})
         /\ Node.code = "WHILE" =>
              /\ NodeInputs = {} <=> NodeOutputs = {}
              /\ NodeInputs = {} <=> Inputs(CondSubgraph) = {}
              /\ NodeInputs = {} <=> Inputs(BodySubgraph) = {}
              /\ NodeOutputs = {} <=> Outputs(BodySubgraph) = {}
         /\ Node.code = "CALL_ONCE" =>
              NodeOutputs = {} /\ Inputs(Node.subgraphs[1]) = {}
<1> DEFINE op == Node
           C == Callees(Top.subgraph, Top.node)
<1>1. /\ op \in Operators /\ ToSet(op.subgraphs) = C /\ C \subseteq Graph
      /\ TakesCallees(model, op) /\ model \in Models
      /\ op.code = "WHILE" => CondSubgraph \in C /\ BodySubgraph \in C
      /\ op.code = "CALL_ONCE" => op.subgraphs[1] \in C
  BY CalleeFacts DEF FramesInv
<1>2. op.inputs \in Seq(Nat) /\ op.outputs \in Seq(Nat)
  BY <1>1 DEF Operators
<1>3. ASSUME op.code # "KERNEL"
      PROVE  /\ NodeInputs = {} <=> Len(op.inputs) = 0
             /\ NodeOutputs = {} <=> Len(op.outputs) = 0
  <2>1. 0 \notin ToSet(op.inputs) /\ 0 \notin ToSet(op.outputs)
    BY <1>1, <1>3 DEF TakesCallees
  <2> QED
    BY <1>2, <2>1, NamedEmpty DEF NodeInputs, NodeOutputs
<1>4. ASSUME NEW g \in C
      PROVE  /\ Inputs(g) = {} <=> Len(model.subgraphs[g].inputs) = 0
             /\ Outputs(g) = {} <=> Len(model.subgraphs[g].outputs) = 0
             /\ Len(model.subgraphs[g].inputs) \in Nat
  <2>1. g \in Graph /\ model \in Models
    BY <1>1
  <2>2. /\ Subgraph(g) \in Graphs /\ InOrder(model, g)
        /\ Subgraph(g).inputs \in Seq(Nat) /\ Subgraph(g).outputs \in Seq(Nat)
        /\ Subgraph(g).tensors \in Nat
    BY <2>1, GraphFacts DEF Graphs
  <2>3. ToSet(Subgraph(g).inputs) \subseteq 1 .. Subgraph(g).tensors
        /\ ToSet(Subgraph(g).outputs) \subseteq 1 .. Subgraph(g).tensors
    BY <2>2 DEF InOrder, HasValue, Subgraph
  <2>4. 0 \notin ToSet(Subgraph(g).inputs) /\ 0 \notin ToSet(Subgraph(g).outputs)
    BY <2>2, <2>3
  <2>5. /\ Inputs(g) = {} <=> Len(Subgraph(g).inputs) = 0
        /\ Outputs(g) = {} <=> Len(Subgraph(g).outputs) = 0
    BY <2>2, <2>4, NamedEmpty DEF Inputs, Outputs
  <2>6. Len(Subgraph(g).inputs) \in Nat
    BY <2>2
  <2> QED
    BY <2>5, <2>6 DEF Subgraph
<1>5. ASSUME op.code = "IF"
      PROVE  \A g \in C : NodeInputs # {} /\ (Outputs(g) = {} => NodeOutputs = {})
  <2>1. \A g \in C : /\ Len(op.inputs) = Len(model.subgraphs[g].inputs) + 1
                     /\ Len(op.outputs) = Len(model.subgraphs[g].outputs)
    BY <1>1, <1>5 DEF TakesCallees
  <2>2. \A g \in C : Len(op.inputs) # 0
    BY <1>4, <2>1
  <2> QED
    BY <1>3, <1>4, <1>5, <2>1, <2>2
<1>6. ASSUME op.code = "WHILE"
      PROVE  /\ NodeInputs = {} <=> NodeOutputs = {}
             /\ NodeInputs = {} <=> Inputs(CondSubgraph) = {}
             /\ NodeInputs = {} <=> Inputs(BodySubgraph) = {}
             /\ NodeOutputs = {} <=> Outputs(BodySubgraph) = {}
  <2>1. op.subgraphs[1] \in C /\ op.subgraphs[2] \in C
    BY <1>1, <1>6 DEF CondSubgraph, BodySubgraph
  <2>2. /\ Len(op.inputs) = Len(model.subgraphs[op.subgraphs[1]].inputs)
        /\ Len(op.inputs) = Len(model.subgraphs[op.subgraphs[2]].inputs)
        /\ Len(op.outputs) = Len(op.inputs)
        /\ Len(op.outputs) = Len(model.subgraphs[op.subgraphs[2]].outputs)
    BY <1>1, <1>6, <2>1 DEF TakesCallees
  <2> QED
    BY <1>3, <1>4, <1>6, <2>1, <2>2 DEF CondSubgraph, BodySubgraph
<1>7. ASSUME op.code = "CALL_ONCE"
      PROVE  NodeOutputs = {} /\ Inputs(op.subgraphs[1]) = {}
  <2>1. op.outputs = <<>> /\ Len(model.subgraphs[op.subgraphs[1]].inputs) = 0
    BY <1>1, <1>7 DEF TakesCallees
  <2> QED
    BY <1>1, <1>3, <1>4, <1>7, <2>1
<1> QED
  BY <1>5, <1>6, <1>7

\* Pass v is of subgraph g, which the running operator invokes.
Scope(ws, g, v) ==
  /\ v \in Walked /\ v.subgraph = g /\ v.begin \in Nat /\ End(v) \in Nat
  /\ ws[1].starts[Top.node] <= v.begin /\ v.begin <= ws[1].ends[Top.node]
  /\ End(v) <= ws[1].ends[Top.node]
  /\ \A b \in Inputs(g) \union NodeInputs \union NodeOutputs : Lives(b, v.begin)
  /\ \A b \in Outputs(g) \union NodeInputs \union NodeOutputs : Lives(b, End(v))

LEMMA CalleeScope ==
  ASSUME MarkingInv, FramesInv, Running, invoke_status = "ok", Top.stage # "fetch",
         NEW ws, Follows(ws), NEW g \in Callees(Top.subgraph, Top.node)
  PROVE  \E v \in Walked : Scope(ws, g, v)
<1>1. PICK w \in Walked, lo \in Nat, hi \in Nat : Interval(ws, w, lo, hi)
  BY WorkInterval
<1>2. PICK n \in Nat : n = Top.node /\ n \in 1 .. OpCount(w.subgraph)
  BY <1>1, CalleeFacts DEF Interval
<1>3. /\ w = ws[1] /\ w.subgraph = Top.subgraph /\ lo = w.starts[n] /\ hi = w.ends[n]
  BY <1>1, <1>2 DEF Interval
<1>4. PICK v \in Walked : v.subgraph = g /\ lo <= v.begin /\ End(v) <= hi
  BY <1>2, <1>3, CalleePass, SMTT(60)
<1>5. /\ \A b \in Inputs(g) : Lives(b, v.begin)
      /\ \A b \in Outputs(g) : Lives(b, End(v))
      /\ v.begin \in Nat /\ End(v) \in Nat /\ v.begin <= End(v)
  BY <1>4, PassLives
<1>6. v.begin <= hi /\ lo <= End(v)
  BY <1>4, <1>5
<1>7. \A b \in NodeInputs \union NodeOutputs : Lives(b, v.begin) /\ Lives(b, End(v))
  BY <1>1, <1>4, <1>5, <1>6, NodeLives
<1> QED
  BY <1>2, <1>3, <1>4, <1>5, <1>6, <1>7 DEF Scope

\* Copies before the subgraph of pass v begins.
LEMMA CopiesSafe ==
  ASSUME MarkingInv, FramesInv, Running, Top.stage # "fetch", NEW ws, Guarded(ws),
         NEW g, NEW v, Scope(ws, g, v), NEW pairs, CopyBuffers(pairs),
         Targets(pairs) \subseteq Inputs(g) \union NodeOutputs,
         \A q \in pairs : \E r \in Nat : Lives(q[1], r) /\ Lives(q[2], r)
  PROVE  Secured(ws) \union Targets(pairs) \subseteq intact'
<1>1. \A q \in pairs : ~MayShare(q[1], q[2])
  BY NoShare
<1>2. \A b \in Targets(pairs) : Lives(b, v.begin)
  BY DEF Scope
<1>3. /\ v.begin \in Nat
      /\ ws[1].starts[Top.node] <= v.begin /\ v.begin <= ws[1].ends[Top.node]
  BY DEF Scope
<1> QED
  BY <1>1, <1>2, <1>3, CopySafe

LEMMA KernelKeeps ==
  ASSUME MarkingInv, FramesInv, DataInv, RunKernel
  PROVE  DataInv'
<1> DEFINE W == NodeOutputs \union NodeScratch \union (NodeInputs \cap model.variables)
<1>1. /\ Running /\ invoke_status = "ok" /\ Top.stage # "fetch"
      /\ StageTo("invoked") /\ UNCHANGED <<markingVars, invoke_status, answered>>
      /\ intact' = Written(W)
  BY DEF RunKernel, AtStage, WriteBuffers
<1>2. PICK ws \in Seq(Walked) : Guarded(ws)
  BY <1>1 DEF DataInv
<1>3. PICK w \in Walked, lo \in Nat, hi \in Nat : Interval(ws, w, lo, hi)
  BY <1>1, <1>2, WorkInterval DEF Guarded
<1>4. lo <= hi /\ ws[1].starts[Top.node] = lo /\ ws[1].ends[Top.node] = hi
  BY <1>3 DEF Interval
<1>5. \A b \in W : Lives(b, hi)
  BY <1>1, <1>2, <1>3, <1>4, NodeLives DEF Guarded
<1> HIDE DEF W
<1>6. Secured(ws) \union W \subseteq intact'
  BY <1>1, <1>2, <1>4, <1>5, WriteSafe
<1>7. NodeOutputs \subseteq intact' /\ NodeScratch \subseteq intact'
  BY <1>6 DEF W
<1> QED
  BY <1>1, <1>2, <1>6, <1>7, DoneKeeps

LEMMA FetchKeeps ==
  ASSUME MarkingInv, FramesInv, DataInv, FetchOperator
  PROVE  DataInv'
<1>1. /\ Running /\ invoke_status = "ok" /\ UNCHANGED markingVars
      /\ answered' = answered /\ intact' = intact
  BY DEF FetchOperator, AtStage, Unwritten
<1> PICK e : e = Fetched
  OBVIOUS
<1>2. /\ TopBecomes(e) /\ e.subgraph = Top.subgraph /\ e.stage \in Codes
      /\ e.node = NextOperator(Top)
  BY FetchFrames
<1>3. PICK ws \in Seq(Walked) : Guarded(ws)
  BY <1>1 DEF DataInv
<1>4. NextOperator(e) = NextOperator(Top) /\ e.stage \notin {"condition", "invoked"}
      /\ e.stage \notin Answering
  BY <1>2 DEF NextOperator, Codes, Answering
<1>5. SecuredAt(e, ws[1]) \subseteq SecuredAt(Top, ws[1])
  BY <1>2, <1>4 DEF SecuredAt
<1>6. SecuredAt(Top, ws[1]) \subseteq Secured(ws)
  BY <1>1, TopFrame DEF Secured
<1>7. Guarded(ws)'
  BY <1>1, <1>2, <1>3, <1>5, <1>6, GuardStays DEF Guarded
<1> QED
  BY <1>1, <1>2, <1>3, <1>4, <1>7, Onward DEF TopBecomes

LEMMA IfKeeps ==
  ASSUME MarkingInv, FramesInv, DataInv, IfInvokesBranch
  PROVE  DataInv'
<1>1. /\ Running /\ invoke_status = "ok" /\ Top.stage = "IF" /\ AtStage("IF")
      /\ UNCHANGED <<markingVars, invoke_status, answered>>
  BY DEF IfInvokesBranch, AtStage
<1>2. PICK g \in ToSet(Node.subgraphs) :
        CopyBuffers(NodeInputs \X Inputs(g)) /\ InvokeSubgraph(g, "branch")
  BY DEF IfInvokesBranch
<1>3. g \in Callees(Top.subgraph, Top.node) /\ Node.code = "IF"
  BY <1>1, CalleeFacts, CodeFacts DEF Codes
<1>4. PICK ws \in Seq(Walked) : Guarded(ws)
  BY <1>1 DEF DataInv
<1>5. PICK v \in Walked : Scope(ws, g, v)
  BY <1>1, <1>3, <1>4, CalleeScope DEF Guarded
<1> DEFINE pairs == NodeInputs \X Inputs(g)
<1>6. Targets(pairs) = Inputs(g)
  <2>1. NodeInputs # {}
    BY <1>1, <1>3, ArgumentFacts
  <2> QED
    BY <2>1, TargetsOfProduct
<1>7. \A q \in pairs : Lives(q[1], v.begin) /\ Lives(q[2], v.begin)
  BY <1>5 DEF Scope
<1>8. v.begin \in Nat /\ CopyBuffers(pairs)
  BY <1>2, <1>5 DEF Scope
<1> HIDE DEF pairs
<1>9. Secured(ws) \union Inputs(g) \subseteq intact'
  BY <1>1, <1>4, <1>5, <1>6, <1>7, <1>8, CopiesSafe
<1>10. Waits(g, "branch")
  BY <1>1, <1>2, IfFrames
<1>11. /\ ws[1].starts[Top.node] <= v.begin /\ End(v) <= ws[1].ends[Top.node]
       /\ v.subgraph = g
  BY <1>5 DEF Scope
<1>12. "branch" \in Calling /\ "branch" # "condition" /\ Top.stage # "fetch"
  BY <1>1 DEF Calling
<1> QED
  BY <1>1, <1>4, <1>9, <1>10, <1>11, <1>12, CallKeeps

LEMMA CondKeeps ==
  ASSUME MarkingInv, FramesInv, DataInv, WhileInvokesCond
  PROVE  DataInv'
<1>1. /\ Running /\ invoke_status = "ok" /\ Top.stage # "fetch" /\ Node.code = "WHILE"
      /\ UNCHANGED <<markingVars, invoke_status, answered>>
      /\ InvokeSubgraph(CondSubgraph, "first condition")
  BY WhileFacts DEF WhileInvokesCond
<1>2. PICK g \in Callees(Top.subgraph, Top.node) : g = CondSubgraph
  BY <1>1, CalleeFacts
<1>3. PICK ws \in Seq(Walked) : Guarded(ws)
  BY <1>1 DEF DataInv
<1>4. PICK v \in Walked : Scope(ws, g, v)
  BY <1>1, <1>2, <1>3, CalleeScope DEF Guarded
<1> DEFINE pairs == NodeInputs \X Inputs(g)
<1>5. Targets(pairs) = Inputs(g)
  <2>1. NodeInputs # {} \/ Inputs(g) = {}
    BY <1>1, <1>2, ArgumentFacts
  <2> QED
    BY <2>1, TargetsOfProduct
<1>6. \A q \in pairs : Lives(q[1], v.begin) /\ Lives(q[2], v.begin)
  BY <1>4 DEF Scope
<1>7. v.begin \in Nat /\ CopyBuffers(pairs)
  BY <1>2, <1>4 DEF Scope, WhileInvokesCond
<1> HIDE DEF pairs
<1>8. Secured(ws) \union Inputs(g) \subseteq intact'
  BY <1>1, <1>3, <1>4, <1>5, <1>6, <1>7, CopiesSafe
<1>9. Waits(g, "first condition")
  BY <1>1, <1>2, CondFrames
<1>10. /\ ws[1].starts[Top.node] <= v.begin /\ End(v) <= ws[1].ends[Top.node]
       /\ v.subgraph = g
  BY <1>4 DEF Scope
<1>11. "first condition" \in Calling /\ "first condition" # "condition"
  BY DEF Calling
<1> QED
  BY <1>1, <1>3, <1>8, <1>9, <1>10, <1>11, CallKeeps

\* The pass that is followed when the body or the condition of a loop is invoked.
LEMMA LoopScope ==
  ASSUME MarkingInv, FramesInv, DataInv,
         AtStage("first condition") \/ AtStage("body") \/ AtStage("condition"),
         NEW g \in {CondSubgraph, BodySubgraph}
  PROVE  \E ws \in Seq(Walked), v \in Walked, u \in Walked :
           Guarded(ws) /\ Scope(ws, g, v) /\ Scope(ws, Top.callee, u)
<1>1. Running /\ invoke_status = "ok" /\ Top.stage # "fetch" /\ Node.code = "WHILE"
  BY WhileFacts
<1>2. g \in Callees(Top.subgraph, Top.node) /\ Top.callee \in Callees(Top.subgraph, Top.node)
  BY <1>1, CalleeFacts, CodeFacts DEF AtStage
<1>3. PICK ws \in Seq(Walked) : Guarded(ws)
  BY <1>1 DEF DataInv
<1>4. PICK v \in Walked : Scope(ws, g, v)
  BY <1>1, <1>2, <1>3, CalleeScope DEF Guarded
<1>5. PICK u \in Walked : Scope(ws, Top.callee, u)
  BY <1>1, <1>2, <1>3, CalleeScope DEF Guarded
<1> QED
  BY <1>3, <1>4, <1>5

LEMMA BeginsKeeps ==
  ASSUME MarkingInv, FramesInv, DataInv, WhileBegins
  PROVE  DataInv'
<1>1. /\ AtStage("first condition") /\ UNCHANGED <<markingVars, invoke_status, answered>>
      /\ Running /\ invoke_status = "ok" /\ Top.stage # "fetch" /\ Node.code = "WHILE"
  BY WhileFacts DEF WhileBegins
<1> PICK g : g = BodySubgraph
  OBVIOUS
<1>2. PICK ws \in Seq(Walked), v \in Walked : Guarded(ws) /\ Scope(ws, g, v)
  BY <1>1, LoopScope
<1> DEFINE new == NodeInputs \X (Inputs(g) \union NodeOutputs)
           on == NodeOutputs \X Inputs(g)
           pairs == new \union on
<1>3. Targets(pairs) = Inputs(g) \union NodeOutputs
  <2>1. /\ NodeInputs # {} \/ Inputs(g) \union NodeOutputs = {}
        /\ NodeOutputs # {} \/ Inputs(g) = {}
    BY <1>1, ArgumentFacts
  <2>2. Targets(new) = Inputs(g) \union NodeOutputs /\ Targets(on) = Inputs(g)
    BY <2>1, TargetsOfProduct
  <2> QED
    BY <2>2, TargetsOfUnion
<1>4. \A q \in pairs : Lives(q[1], v.begin) /\ Lives(q[2], v.begin)
  BY <1>2 DEF Scope
<1>5. v.begin \in Nat /\ CopyBuffers(pairs)
  BY <1>2 DEF Scope, WhileBegins
<1> HIDE DEF pairs
<1>6. Secured(ws) \union Inputs(g) \union NodeOutputs \subseteq intact'
  BY <1>1, <1>2, <1>3, <1>4, <1>5, CopiesSafe
<1>7. CASE InvokeSubgraph(g, "body")
  <2>1. Waits(g, "body")
    BY <1>1, <1>7, BodyFrames
  <2>2. /\ ws[1].starts[Top.node] <= v.begin /\ End(v) <= ws[1].ends[Top.node]
        /\ v.subgraph = g
    BY <1>2 DEF Scope
  <2>3. "body" \in Calling /\ "body" # "condition"
    BY DEF Calling
  <2> QED
    BY <1>1, <1>2, <1>6, <2>1, <2>2, <2>3, CallKeeps
<1>8. CASE StageTo("invoked")
  BY <1>1, <1>2, <1>6, <1>8, DoneKeeps
<1> QED
  BY <1>7, <1>8 DEF WhileBegins

LEMMA TestsKeeps ==
  ASSUME MarkingInv, FramesInv, DataInv, WhileTestsAgain
  PROVE  DataInv'
<1>1. /\ AtStage("body") /\ UNCHANGED <<markingVars, invoke_status, answered>>
      /\ Running /\ invoke_status = "ok" /\ Top.stage # "fetch" /\ Node.code = "WHILE"
      /\ InvokeSubgraph(CondSubgraph, "condition")
  BY WhileFacts DEF WhileTestsAgain
<1> PICK g : g = CondSubgraph
  OBVIOUS
<1> PICK h : h = Top.callee
  OBVIOUS
<1>2. h = BodySubgraph
  BY <1>1, CodeFacts DEF AtStage
<1>3. PICK ws \in Seq(Walked), v \in Walked, u \in Walked :
        Guarded(ws) /\ Scope(ws, g, v) /\ Scope(ws, h, u)
  BY <1>1, LoopScope
<1> DEFINE back == Outputs(h) \X NodeOutputs
           on == NodeOutputs \X Inputs(g)
           pairs == back \union on
<1>4. Targets(pairs) = Inputs(g) \union NodeOutputs
  <2>1. /\ Outputs(h) # {} \/ NodeOutputs = {}
        /\ NodeOutputs # {} \/ Inputs(g) = {}
    BY <1>1, <1>2, ArgumentFacts
  <2>2. Targets(back) = NodeOutputs /\ Targets(on) = Inputs(g)
    BY <2>1, TargetsOfProduct
  <2> QED
    BY <2>2, TargetsOfUnion
<1>5. \A q \in back : Lives(q[1], End(u)) /\ Lives(q[2], End(u))
  BY <1>3 DEF Scope
<1>6. \A q \in on : Lives(q[1], v.begin) /\ Lives(q[2], v.begin)
  BY <1>3 DEF Scope
<1>7. v.begin \in Nat /\ End(u) \in Nat /\ CopyBuffers(pairs)
  BY <1>3 DEF Scope, WhileTestsAgain
<1>8. \A q \in pairs : \E r \in Nat : Lives(q[1], r) /\ Lives(q[2], r)
  BY <1>5, <1>6, <1>7
<1> HIDE DEF pairs
<1>9. Secured(ws) \union Inputs(g) \union NodeOutputs \subseteq intact'
  BY <1>1, <1>3, <1>4, <1>7, <1>8, CopiesSafe
<1>10. Waits(g, "condition")
  BY <1>1, CondFrames
<1>11. /\ ws[1].starts[Top.node] <= v.begin /\ End(v) <= ws[1].ends[Top.node]
       /\ v.subgraph = g
  BY <1>3 DEF Scope
<1>12. "condition" \in Calling
  BY DEF Calling
<1> QED
  BY <1>1, <1>3, <1>9, <1>10, <1>11, <1>12, CallKeeps

LEMMA IteratesKeeps ==
  ASSUME MarkingInv, FramesInv, DataInv, WhileIterates
  PROVE  DataInv'
<1>1. /\ AtStage("condition") /\ UNCHANGED <<markingVars, invoke_status, answered>>
      /\ Running /\ invoke_status = "ok" /\ Top.stage # "fetch" /\ Node.code = "WHILE"
      /\ InvokeSubgraph(BodySubgraph, "body")
  BY WhileFacts DEF WhileIterates
<1> PICK g : g = BodySubgraph
  OBVIOUS
<1>2. PICK ws \in Seq(Walked), v \in Walked : Guarded(ws) /\ Scope(ws, g, v)
  BY <1>1, LoopScope
<1> DEFINE pairs == NodeOutputs \X Inputs(g)
<1>3. Targets(pairs) = Inputs(g)
  <2>1. NodeOutputs # {} \/ Inputs(g) = {}
    BY <1>1, ArgumentFacts
  <2> QED
    BY <2>1, TargetsOfProduct
<1>4. \A q \in pairs : Lives(q[1], v.begin) /\ Lives(q[2], v.begin)
  BY <1>2 DEF Scope
<1>5. v.begin \in Nat /\ CopyBuffers(pairs)
  BY <1>2 DEF Scope, WhileIterates
<1> HIDE DEF pairs
<1>6. Secured(ws) \union Inputs(g) \subseteq intact'
  BY <1>1, <1>2, <1>3, <1>4, <1>5, CopiesSafe
<1>7. Waits(g, "body")
  BY <1>1, BodyFrames
<1>8. /\ ws[1].starts[Top.node] <= v.begin /\ End(v) <= ws[1].ends[Top.node]
      /\ v.subgraph = g
  BY <1>2 DEF Scope
<1>9. "body" \in Calling /\ "body" # "condition"
  BY DEF Calling
<1> QED
  BY <1>1, <1>2, <1>6, <1>7, <1>8, <1>9, CallKeeps

LEMMA BranchKeeps ==
  ASSUME MarkingInv, FramesInv, DataInv, IfCopiesOutputs
  PROVE  DataInv'
<1>1. /\ Running /\ invoke_status = "ok" /\ Top.stage = "branch" /\ StageTo("invoked")
      /\ UNCHANGED <<markingVars, invoke_status, answered>>
  BY DEF IfCopiesOutputs, AtStage
<1> PICK g : g = Top.callee
  OBVIOUS
<1>2. g \in Callees(Top.subgraph, Top.node) /\ Node.code = "IF" /\ Top.stage # "fetch"
  BY <1>1, CodeFacts
<1>3. PICK ws \in Seq(Walked) : Guarded(ws)
  BY <1>1 DEF DataInv
<1>4. PICK v \in Walked : Scope(ws, g, v)
  BY <1>1, <1>2, <1>3, CalleeScope DEF Guarded
<1> DEFINE pairs == Outputs(g) \X NodeOutputs
<1>5. Targets(pairs) = NodeOutputs
  <2>1. Outputs(g) # {} \/ NodeOutputs = {}
    BY <1>1, <1>2, ArgumentFacts
  <2> QED
    BY <2>1, TargetsOfProduct, ZenonT(60)
<1>6. \A q \in pairs : Lives(q[1], End(v)) /\ Lives(q[2], End(v))
  BY <1>4 DEF Scope
<1>7. End(v) \in Nat /\ CopyBuffers(pairs)
  BY <1>4 DEF Scope, IfCopiesOutputs
<1> HIDE DEF pairs
<1>8. Secured(ws) \union NodeOutputs \subseteq intact'
  BY <1>1, <1>2, <1>3, <1>4, <1>5, <1>6, <1>7, CopiesSafe
<1> QED
  BY <1>1, <1>2, <1>3, <1>8, DoneKeeps

LEMMA EndsKeeps ==
  ASSUME MarkingInv, FramesInv, DataInv, WhileEnds
  PROVE  DataInv'
<1>1. /\ AtStage("condition") /\ UNCHANGED <<markingVars, invoke_status, answered>>
      /\ Running /\ invoke_status = "ok" /\ Top.stage = "condition" /\ Node.code = "WHILE"
      /\ StageTo("invoked") /\ intact' = intact
  BY WhileFacts DEF WhileEnds, AtStage, Unwritten
<1>2. PICK ws \in Seq(Walked) : Guarded(ws)
  BY <1>1 DEF DataInv
<1>3. NodeOutputs \subseteq SecuredAt(Top, ws[1])
  BY <1>1, NodeSets DEF SecuredAt
<1>4. SecuredAt(Top, ws[1]) \subseteq Secured(ws)
  BY <1>1, TopFrame DEF Secured
<1> QED
  BY <1>1, <1>2, <1>3, <1>4, DoneKeeps DEF Guarded

LEMMA OnceKeeps ==
  ASSUME MarkingInv, FramesInv, DataInv, CallOnceInvokes
  PROVE  DataInv'
<1>1. /\ Running /\ invoke_status = "ok" /\ Top.stage = "CALL_ONCE" /\ Top.stage # "fetch"
      /\ UNCHANGED <<markingVars, invoke_status, answered>> /\ intact' = intact
  BY DEF CallOnceInvokes, AtStage, Unwritten
<1>2. Node.code = "CALL_ONCE"
  BY <1>1, CodeFacts DEF Codes
<1> PICK g : g = Node.subgraphs[1]
  OBVIOUS
<1>3. g \in Callees(Top.subgraph, Top.node) /\ Inputs(g) = {}
  BY <1>1, <1>2, CalleeFacts, ArgumentFacts
<1>4. PICK ws \in Seq(Walked) : Guarded(ws)
  BY <1>1 DEF DataInv
<1>5. PICK v \in Walked : Scope(ws, g, v)
  BY <1>1, <1>3, <1>4, CalleeScope DEF Guarded
<1>6. Waits(g, "once")
  BY OnceFrames
<1>7. /\ ws[1].starts[Top.node] <= v.begin /\ End(v) <= ws[1].ends[Top.node]
      /\ v.subgraph = g
  BY <1>5 DEF Scope
<1>8. "once" \in Calling /\ "once" # "condition"
  BY DEF Calling
<1>9. Secured(ws) \subseteq intact'
  BY <1>1, <1>4 DEF Guarded
<1> QED
  BY <1>1, <1>3, <1>4, <1>6, <1>7, <1>8, <1>9, CallKeeps

LEMMA OnceDoneKeeps ==
  ASSUME MarkingInv, FramesInv, DataInv, CallOnceSkips \/ CallOnceDone
  PROVE  DataInv'
<1>1. /\ Running /\ invoke_status = "ok" /\ Top.stage \in {"CALL_ONCE", "once"}
      /\ StageTo("invoked")
      /\ UNCHANGED <<markingVars, invoke_status, answered>> /\ intact' = intact
  BY DEF CallOnceSkips, CallOnceDone, AtStage, Unwritten
<1>2. Node.code = "CALL_ONCE" /\ Top.stage # "fetch"
  BY <1>1, CodeFacts DEF Codes
<1>3. NodeOutputs = {}
  BY <1>1, <1>2, ArgumentFacts
<1>4. PICK ws \in Seq(Walked) : Guarded(ws)
  BY <1>1 DEF DataInv
<1> QED
  BY <1>1, <1>2, <1>3, <1>4, DoneKeeps DEF Guarded

\* What the finished operator leaves to the next one.
LEMMA NextSecures ==
  ASSUME MarkingInv, NEW w \in Walked, NEW n \in 1 .. OpCount(w.subgraph),
         NEW I, OpOutputs(w.subgraph, n) \subseteq I,
         \A b \in Made(w.subgraph, n) : w.ends[n] <= last_used[b] => b \in I,
         NEW b \in Made(w.subgraph, n + 1), w.ends[n + 1] <= last_used[b]
  PROVE  b \in I
<1> PICK s \in Graph, m \in Nat : s = w.subgraph /\ m = OpCount(s)
  BY PassIntervals
<1>1. n \in 1 .. m /\ n \in Nat /\ n + 1 \in 1 .. m + 1 /\ n \in 1 .. m + 1 /\ n < n + 1
  OBVIOUS
<1>2. w.ends[n] <= w.starts[n + 1] /\ w.starts[n + 1] <= w.ends[n + 1]
      /\ w.ends[n] \in Nat /\ w.starts[n + 1] \in Nat /\ w.ends[n + 1] \in Nat
  BY <1>1, PassIntervals
<1>3. Made(s, n + 1) \subseteq Buffers
  <2>1. \A j \in 1 .. (n + 1) - 1 : j \in 1 .. OpCount(s)
    BY <1>1
  <2> QED
    BY <2>1, NamedFacts DEF Made, MarkingInv
<1>4. CASE b \in OpOutputs(s, n)
  BY <1>4
<1>5. CASE b \in Made(s, n)
  <2>1. last_used[b] \in Int
    BY <1>3 DEF MarkingInv, Lifetimes, kUninitializedLifetime
  <2>2. w.ends[n] <= last_used[b]
    BY <1>2, <2>1
  <2> QED
    BY <1>5, <2>2
<1>6. b \in Made(s, n) \/ b \in OpOutputs(s, n)
  <2>1. \A j \in 1 .. (n + 1) - 1 : j = n \/ j \in 1 .. n - 1
    BY <1>1
  <2> QED
    BY <2>1 DEF Made
<1> QED
  BY <1>4, <1>5, <1>6

LEMMA NextKeeps ==
  ASSUME MarkingInv, FramesInv, DataInv, OperatorInvoked
  PROVE  DataInv'
<1>1. /\ Running /\ invoke_status = "ok" /\ Top.stage = "invoked" /\ UNCHANGED markingVars
      /\ answered' = answered /\ intact' = intact
  BY DEF OperatorInvoked, AtStage
<1> PICK e : e = InStage("fetch")
  OBVIOUS
<1>2. /\ TopBecomes(e) /\ e.subgraph = Top.subgraph /\ e.stage = "fetch"
      /\ e.node = Top.node
  BY NextOperatorFrames
<1>3. PICK ws \in Seq(Walked) : Guarded(ws)
  BY <1>1 DEF DataInv
<1>4. 1 \in 1 .. Len(frames) /\ Top = frames[1]
  BY <1>1, TopFrame
<1>5. PICK w \in Walked : w = ws[1] /\ w.subgraph = Top.subgraph
  BY <1>3, <1>4, FollowsFacts DEF Guarded
<1>6. PICK n \in Nat : n = Top.node /\ n \in 1 .. OpCount(w.subgraph)
  BY <1>1, <1>5, CalleeFacts
<1>7. SecuredAt(Top, w) \subseteq intact
  BY <1>3, <1>4, <1>5 DEF Guarded, Secured
<1>8. NextOperator(Top) = n /\ NextOperator(e) = n + 1
  BY <1>1, <1>2, <1>6 DEF NextOperator
<1>9. /\ OpOutputs(w.subgraph, n) \subseteq intact
      /\ \A b \in Made(w.subgraph, n) : w.ends[n] <= last_used[b] => b \in intact
  BY <1>1, <1>5, <1>6, <1>7, <1>8 DEF SecuredAt
<1>10. ASSUME NEW b \in SecuredAt(e, w)
       PROVE  b \in intact
  <2>1. b \in Made(w.subgraph, n + 1) /\ w.ends[n + 1] <= last_used[b]
    BY <1>2, <1>5, <1>8, <1>10 DEF SecuredAt
  <2> QED
    BY <1>6, <1>9, <2>1, NextSecures
<1>11. Guarded(ws)'
  BY <1>1, <1>2, <1>3, <1>5, <1>10, GuardStays DEF Guarded
<1>12. frames' # <<>> /\ Top'.stage \notin Answering
  BY <1>2 DEF TopBecomes, Answering
<1> QED
  BY <1>1, <1>3, <1>11, <1>12, Onward

\* The outputs of the subgraph that returns are intact.
LEMMA ReturnKeeps ==
  ASSUME MarkingInv, FramesInv, DataInv, SubgraphInvoked
  PROVE  DataInv'
<1>1. /\ Running /\ invoke_status = "ok" /\ Top.stage = "fetch" /\ UNCHANGED markingVars
      /\ intact' = intact /\ RestoreIndices /\ model' = model
      /\ answered' = (Len(frames) = 1)
  BY DEF SubgraphInvoked, AtStage, Unwritten, markingVars
<1>2. /\ 1 \in 1 .. Len(frames) /\ Top = frames[1] /\ Top.node \in Nat
      /\ OpCount(Top.subgraph) \in Nat /\ FrameOK(Top)
  BY <1>1, TopFrame
<1>3. NextOperator(Top) = OpCount(Top.subgraph) + 1
  <2>1. NextOperator(Top) = Top.node + 1 /\ current_operator_index_ = NextOperator(Top)
    BY <1>1 DEF NextOperator, FramesInv, IndicesOK
  <2>2. current_operator_index_ > OpCount(Top.subgraph)
    BY DEF SubgraphInvoked, OpCount
  <2>3. Top.node <= OpCount(Top.subgraph)
    BY <1>2 DEF FrameOK
  <2> QED
    BY <1>2, <2>1, <2>2, <2>3
<1>4. PICK ws \in Seq(Walked) : Guarded(ws)
  BY <1>1 DEF DataInv
<1>5. PICK w \in Walked : w = ws[1] /\ w.subgraph = Top.subgraph
  BY <1>2, <1>4, FollowsFacts DEF Guarded
<1>6. Outputs(Top.subgraph) \subseteq intact
  <2>1. Outputs(Top.subgraph) \subseteq Permanent \union SecuredAt(Top, w)
    BY <1>3, <1>5, OutputsSecured
  <2> QED
    BY <1>2, <1>4, <1>5, <2>1 DEF Guarded, Secured
<1>7. Tail(ws) \in Seq(Walked) /\ Guarded(Tail(ws))'
  BY <1>1, <1>4, GuardReturns
<1>8. Walked' = Walked /\ Planned' = Planned /\ Permanent' = Permanent
      /\ \A s : Outputs(s)' = Outputs(s)
  BY <1>1, MarkingKept
<1>9. Planned /\ Permanent' \subseteq intact'
  BY <1>1, <1>8 DEF DataInv
<1>10. CASE Len(frames) = 1
  <2>1. frames' = <<>> /\ Top.subgraph = 1
    BY <1>1, <1>10, ReturnStep
  <2>2. ~Running' /\ answered' = TRUE /\ Outputs(1)' \subseteq intact'
    BY <1>1, <1>6, <1>8, <1>10, <2>1 DEF Running
  <2> QED
    BY <1>8, <1>9, <2>2 DEF DataInv, AtStage
<1>11. CASE Len(frames) # 1
  <2>1. frames' # <<>> /\ Top' = frames[2] /\ CalledBy(Top, frames[2])
    BY <1>1, <1>11, ReturnStep
  <2>2. Running' /\ answered' = FALSE /\ Top'.callee = Top.subgraph
    BY <1>1, <1>11, <2>1 DEF Running, CalledBy
  <2>3. Outputs(Top.callee)' \subseteq intact'
    <3>1. PICK s : s = Top.subgraph
      OBVIOUS
    <3>2. Outputs(s)' \subseteq intact' /\ Top'.callee = s
      BY <1>1, <1>6, <1>8, <2>2, <3>1
    <3> QED
      BY <3>2 DEF Outputs, Subgraph, Named
  <2> QED
    BY <1>7, <1>8, <1>9, <2>2, <2>3 DEF DataInv
<1> QED
  BY <1>10, <1>11

LEMMA ErrorKeeps ==
  ASSUME DataInv, Running, UNCHANGED <<markingVars, intact, answered>>, invoke_status' = "error"
  PROVE  DataInv'
<1>1. Planned' = Planned /\ Permanent' = Permanent
  BY MarkingKept
<1>2. Planned /\ answered = FALSE
  BY DEF DataInv
<1> QED
  BY <1>1, <1>2 DEF DataInv, AtStage

\* The application writes the inputs of the first subgraph.
LEMMA InvokeKeeps ==
  ASSUME MarkingInv, FramesInv, DataInv, Invoke
  PROVE  DataInv'
<1>1. /\ Planned /\ UNCHANGED markingVars /\ intact' = Written(Inputs(1)) /\ answered' = FALSE
  BY DEF Invoke, WriteBuffers
<1>2. frames' = <<Frame(1)>> /\ frames' # <<>> /\ Top' = Frame(1) /\ Len(frames') = 1
      /\ frames'[1] = Frame(1)
  BY InvokeFrames
<1>3. PICK w \in Walked : w.subgraph = 1
  BY <1>1 DEF MarkingInv
<1>4. w.begin \in Nat /\ \A b \in Inputs(1) : Lives(b, w.begin)
  BY <1>3, PassLives
<1>5. \A b \in Permanent : Lives(b, w.begin)
  BY NotAllocated DEF MarkingInv, Lives
<1>6. Permanent \union Inputs(1) \subseteq intact'
  BY <1>1, <1>4, <1>5, WrittenKeeps DEF DataInv
<1> DEFINE ws == <<w>>
<1>7. ws \in Seq(Walked) /\ Len(ws) = 1 /\ ws[1] = w
  OBVIOUS
<1> HIDE DEF ws
<1> PICK h : h = Frame(1)
  OBVIOUS
<1>8. h.subgraph = 1 /\ h.stage = "fetch" /\ SecuredAt(h, w) \subseteq Inputs(1)
  BY FrameSecures DEF Frame
<1>9. Walked' = Walked /\ Planned' = Planned /\ Permanent' = Permanent
      /\ \A f, v : SecuredAt(f, v)' = SecuredAt(f, v)
  BY <1>1, MarkingKept
<1>10. \A k \in 1 .. Len(frames') : k = 1
  BY <1>2
<1>11. Follows(ws)'
  <2>1. \A k \in 1 .. Len(frames') : ws[k].subgraph = frames'[k].subgraph
    BY <1>2, <1>3, <1>7, <1>8, <1>10
  <2>2. \A k \in 1 .. Len(frames') : 1 .. k - 1 = {}
    BY <1>10
  <2> QED
    BY <1>2, <1>7, <1>9, <2>1, <2>2 DEF Follows
<1>12. Secured(ws)' \subseteq intact'
  <2>1. \A k \in 1 .. Len(frames') : SecuredAt(frames'[k], ws[k]) \subseteq intact'
    BY <1>2, <1>6, <1>7, <1>8, <1>10
  <2> QED
    BY <1>6, <1>9, <2>1 DEF Secured
<1>13. Guarded(ws)' /\ Running'
  BY <1>2, <1>11, <1>12 DEF Guarded, Running
<1> QED
  BY <1>1, <1>2, <1>6, <1>7, <1>8, <1>9, <1>13 DEF DataInv, AtStage

LEMMA MarkKeeps ==
  ASSUME DataInv, Mark
  PROVE  DataInv'
<1>1. ~Planned /\ model' = model
  BY DEF Mark, MarkAllocationLifetimes, BeginOperator, MarkCallee, EndOperator, EndSubgraph,
         Marking, Planned
<1>2. frames' = frames /\ answered' = answered /\ intact' = intact
  BY DEF Mark, executionVars
<1>3. ~Running /\ answered = FALSE /\ Permanent \subseteq intact
  BY <1>1 DEF DataInv
<1>4. ~Running' /\ answered' = FALSE /\ Permanent' \subseteq intact'
  BY <1>1, <1>2, <1>3 DEF Running, Permanent
<1> QED
  BY <1>4 DEF DataInv, AtStage

LEMMA StutterKeeps ==
  ASSUME DataInv, UNCHANGED vars
  PROVE  DataInv'
<1>1. /\ UNCHANGED markingVars /\ frames' = frames /\ answered' = answered
      /\ intact' = intact /\ invoke_status' = invoke_status
  BY DEF vars, executionVars
<1>2. /\ Walked' = Walked /\ Planned' = Planned /\ Permanent' = Permanent
      /\ \A f, w : SecuredAt(f, w)' = SecuredAt(f, w)
      /\ \A v, f, w : Inside(v, f, w)' = Inside(v, f, w)
      /\ \A s : Outputs(s)' = Outputs(s)
  BY <1>1, MarkingKept
<1>3. Running' = Running /\ Top' = Top /\ \A stage : AtStage(stage)' = AtStage(stage)
  BY <1>1 DEF Running, Top, AtStage
<1>4. \A ws : Guarded(ws)' = Guarded(ws)
  BY <1>1, <1>2 DEF Guarded, Follows, Secured
<1>5. Outputs(Top.callee)' = Outputs(Top.callee) /\ Outputs(1)' = Outputs(1)
  BY <1>1, <1>3 DEF Outputs, Named, Subgraph, markingVars
<1> QED
  BY <1>1, <1>2, <1>3, <1>4, <1>5 DEF DataInv

LEMMA DataStep ==
  MarkingInv /\ FramesInv /\ DataInv /\ [Next]_vars => DataInv'
<1> SUFFICES ASSUME MarkingInv, FramesInv, DataInv, [Next]_vars
             PROVE  DataInv'
  OBVIOUS
<1>1. CASE Mark
  BY <1>1, MarkKeeps
<1>2. CASE Invoke
  BY <1>2, InvokeKeeps
<1>3. CASE FetchOperator
  BY <1>3, FetchKeeps
<1>4. CASE RunKernel
  BY <1>4, KernelKeeps
<1>5. CASE IfInvokesBranch
  BY <1>5, IfKeeps
<1>6. CASE IfCopiesOutputs
  BY <1>6, BranchKeeps
<1>7. CASE WhileInvokesCond
  BY <1>7, CondKeeps
<1>8. CASE WhileBegins
  BY <1>8, BeginsKeeps
<1>9. CASE WhileTestsAgain
  BY <1>9, TestsKeeps
<1>10. CASE WhileIterates
  BY <1>10, IteratesKeeps
<1>11. CASE WhileEnds
  BY <1>11, EndsKeeps
<1>12. CASE CallOnceInvokes
  BY <1>12, OnceKeeps
<1>13. CASE CallOnceSkips \/ CallOnceDone
  BY <1>13, OnceDoneKeeps
<1>14. CASE OperatorInvoked
  BY <1>14, NextKeeps
<1>15. CASE SubgraphInvoked
  BY <1>15, ReturnKeeps
<1>16. CASE Unwind
  BY <1>16, ErrorKeeps DEF Unwind, Unwritten
<1>17. CASE KernelFails
  BY <1>17, ErrorKeeps DEF KernelFails, Unwritten, AtStage
<1>18. CASE UNCHANGED vars
  BY <1>18, StutterKeeps
<1> QED
  BY <1>1, <1>2, <1>3, <1>4, <1>5, <1>6, <1>7, <1>8, <1>9, <1>10, <1>11, <1>12, <1>13,
     <1>14, <1>15, <1>16, <1>17, <1>18 DEF Next, Execute

LEMMA DataInit == InitExecution => DataInv
<1> SUFFICES ASSUME InitExecution PROVE DataInv
  OBVIOUS
<1>1. frames = <<>> /\ answered = FALSE /\ intact = Permanent
  BY DEF InitExecution, Permanent
<1> QED
  BY <1>1 DEF DataInv, Running, AtStage

-----------------------------------------------------------------------------
(* What is read *)

\* What a kernel that runs, or has run, reads.
LEMMA NodeReads ==
  ASSUME MarkingInv, FramesInv, DataInv, Running, invoke_status = "ok", Top.stage # "fetch"
  PROVE  /\ NodeInputs \subseteq intact
         /\ Top.stage \in {"condition", "invoked"} => NodeOutputs \subseteq intact
         /\ Top.stage = "invoked" /\ Node.code = "KERNEL" => NodeScratch \subseteq intact
<1>1. PICK ws \in Seq(Walked) : Guarded(ws)
  BY DEF DataInv
<1>2. PICK w \in Walked, lo \in Nat, hi \in Nat : Interval(ws, w, lo, hi)
  BY <1>1, WorkInterval DEF Guarded
<1>3. NodeInputs \subseteq Secured(ws)
  BY <1>1, <1>2, NodeLives DEF Guarded, Interval
<1>4. SecuredAt(Top, ws[1]) \subseteq intact
  BY <1>1, TopFrame DEF Guarded, Secured
<1>5. /\ Top.stage \in {"condition", "invoked"} => NodeOutputs \subseteq SecuredAt(Top, ws[1])
      /\ Top.stage = "invoked" /\ Node.code = "KERNEL"
           => NodeScratch \subseteq SecuredAt(Top, ws[1])
  BY NodeSets DEF SecuredAt, Node
<1> QED
  BY <1>1, <1>3, <1>4, <1>5 DEF Guarded

LEMMA EverythingPlaced ==
  ASSUME model \in Models, NEW b
  PROVE  Location(b) # "nowhere"
<1>1. CASE b \in model.variables
  <2>1. ~NeedsAllocating(b)
    BY <1>1, NotAllocated DEF Permanent
  <2>2. InPersistentMemory(b)
    BY <1>1, ModelFacts DEF WellFormed, InPersistentMemory
  <2> QED
    BY <2>1, <2>2 DEF Location
<1>2. CASE b \notin model.variables
  <2>1. NeedsAllocating(b) \/ b \in model.weights
    BY <1>2 DEF NeedsAllocating
  <2> QED
    BY <2>1 DEF Location
<1> QED
  BY <1>1, <1>2

LEMMA ReadsAreIntact ==
  ASSUME MarkingInv, FramesInv, DataInv
  PROVE  ReadsIntact
<1>1. CASE ~Running
  BY <1>1 DEF DataInv, ReadsIntact, Reads, AtStage
<1>2. CASE Running /\ invoke_status = "error"
  BY <1>2 DEF ReadsIntact, Reads, AtStage
<1>3. CASE Running /\ invoke_status = "ok" /\ Top.stage = "fetch"
  BY <1>3 DEF ReadsIntact, Reads, AtStage
<1>4. CASE Running /\ invoke_status = "ok" /\ Top.stage # "fetch"
  <2>1. /\ NodeInputs \subseteq intact
        /\ Top.stage \in {"condition", "invoked"} => NodeOutputs \subseteq intact
        /\ Top.stage = "invoked" /\ Node.code = "KERNEL" => NodeScratch \subseteq intact
    BY <1>4, NodeReads
  <2>2. Top.stage \in Answering => Outputs(Top.callee) \subseteq intact
    BY <1>4 DEF DataInv, AtStage, Answering
  <2>3. Reads \subseteq intact
    BY <1>4, <2>1, <2>2 DEF Reads, Answering
  <2> QED
    BY <2>3, EverythingPlaced DEF ReadsIntact, MarkingInv
<1> QED
  BY <1>1, <1>2, <1>3, <1>4 DEF FramesInv

\* In every plan that keeps buffers with overlapping lifetimes apart, whatever a kernel
\* or the application reads holds what was last written to it and has been given
\* memory: for every well-formed model, through nested subgraphs of any depth, any
\* number of iterations and of invocations, failed ones among them
\* (MarkAllocationLifetimes, InvokeSubgraph, IfEval, WhileEval, CallOnceEval).
THEOREM ReadsStayIntact == Spec => []ReadsIntact
<1>1. InitExecution => MarkingInv /\ FramesInv /\ DataInv
  BY MarkingInit, FramesInit, DataInit DEF InitExecution
<1>2. MarkingInv /\ FramesInv /\ DataInv /\ [Next]_vars => (MarkingInv /\ FramesInv /\ DataInv)'
  BY MarkingStep, FramesStep, DataStep
<1>3. MarkingInv /\ FramesInv /\ DataInv => ReadsIntact
  BY ReadsAreIntact
<1> QED
  BY <1>1, <1>2, <1>3, PTL DEF Spec

=============================================================================
