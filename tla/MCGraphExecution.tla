---------------------------- MODULE MCGraphExecution ----------------------------
EXTENDS GraphExecution

Operator(code, inputs, outputs, subgraphs) ==
  [code |-> code, inputs |-> inputs, outputs |-> outputs,
   subgraphs |-> subgraphs, copies |-> FALSE]
Kernel(inputs, outputs) == Operator("KERNEL", inputs, outputs, <<>>)

Graph(tensors, inputs, outputs, ops) ==
  [tensors |-> tensors, inputs |-> inputs, outputs |-> outputs, ops |-> ops]

Model(subgraphs, requests) ==
  [subgraphs |-> subgraphs, requests |-> requests, weights |-> {},
   variables |-> {}, offsets |-> <<>>]

\* Subgraphs that a control-flow operator may invoke, of one input and one
\* output: an input passed through, one kernel, and two that both read the input.
PassThrough == Graph(1, <<1>>, <<1>>, <<>>)
OneKernel == Graph(2, <<1>>, <<2>>, <<Kernel(<<1>>, <<2>>)>>)
TwoKernels ==
  Graph(3, <<1>>, <<3>>, <<Kernel(<<1>>, <<2>>), Kernel(<<1, 2>>, <<3>>)>>)
Leaves == {PassThrough, OneKernel, TwoKernels}

\* A condition and a value come in; a kernel, a control-flow operator, perhaps a
\* second one with the same subgraphs, and a kernel that reads any of the tensors
\* made before.
Main(code, x, twice, reads) ==
  LET Control(in, out) ==
        IF code = "IF" THEN Operator(code, <<1, in>>, <<out>>, <<2, 3>>)
                       ELSE Operator(code, <<in>>, <<out>>, <<2, 3>>)
  IN Graph(6, <<1, 2>>, <<6>>,
           <<Kernel(<<2>>, <<3>>), Control(x, 4)>>
           \o (IF twice THEN <<Control(3, 5)>> ELSE <<Kernel(<<4>>, <<5>>)>>)
           \o <<Kernel(reads, <<6>>)>>)

Requests == << [subgraph |-> 1, node |-> 1], [subgraph |-> 1, node |-> 4] >>
InnerRequests == << [subgraph |-> 3, node |-> 2], [subgraph |-> 1, node |-> 2] >>

Branching ==
  {Model(<<Main(code, x, twice, reads), first, second>>, Requests) :
     code \in {"IF", "WHILE"}, x \in {2, 3}, twice \in BOOLEAN,
     reads \in {<<3>>, <<5, 2>>, <<4, 0, 3>>}, first \in Leaves, second \in Leaves}

\* A loop over two values whose body swaps them, nested in a branch, and a
\* subgraph that initialises once.
Condition == Graph(3, <<1, 2>>, <<3>>, <<Kernel(<<1, 2>>, <<3>>)>>)
Swap == Graph(3, <<1, 2>>, <<2, 3>>, <<Kernel(<<1>>, <<3>>)>>)
Loop ==
  Graph(5, <<1>>, <<5>>,
        <<Kernel(<<1>>, <<2>>), Operator("WHILE", <<1, 2>>, <<3, 4>>, <<4, 5>>),
          Kernel(<<3, 1, 4>>, <<5>>)>>)
Once == Graph(2, <<>>, <<>>, <<Kernel(<<>>, <<1>>), Kernel(<<1>>, <<2>>)>>)

Nested ==
  {Model(<<Graph(4, <<1, 2>>, <<4>>,
                 <<Operator("CALL_ONCE", <<>>, <<>>, <<6>>),
                   Operator("IF", <<1, 2>>, <<3>>, branches),
                   Kernel(<<3, last>>, <<4>>)>>),
           leaf, Loop, Condition, Swap, Once>>, InnerRequests) :
     branches \in {<<2, 3>>, <<3, 2>>}, leaf \in Leaves, last \in {0, 2}}

\* Weights, a variable, and an offline plan for the tensors of a model of one
\* subgraph.
Stateful ==
  {[subgraphs |-> <<Graph(5, <<1>>, <<3, 4>>,
                          <<Kernel(<<1, 5, 2>>, <<3>>), Kernel(<<3, 1>>, <<4>>)>>)>>,
    requests |-> << [subgraph |-> 1, node |-> 1] >>,
    weights |-> {<<1, 5>>}, variables |-> {<<1, 2>>},
    offsets |-> offsets] :
     offsets \in {<<>>, <<0, -1, 16, 32, -1>>, <<0, -1, -1, -1, -1>>}}

\* A subgraph that nothing reaches, and one that only it invokes, with operators
\* that request scratch buffers as those of the others do.
Unreached ==
  {Model(<<Graph(4, <<1, 2>>, <<4>>,
                 <<Operator("IF", <<1, 2>>, <<3>>, <<2, callee>>), Kernel(<<3>>, <<4>>)>>),
           OneKernel, TwoKernels,
           Graph(3, <<1, 2>>, <<3>>, <<Operator("IF", <<1, 2>>, <<3>>, <<3, 3>>)>>)>>,
         << [subgraph |-> 4, node |-> 1], [subgraph |-> 3, node |-> 2],
            [subgraph |-> 1, node |-> 2] >>) :
     callee \in {2, 3}}

\* A chain of 31 kernels, of which one has the number that InvokeSubgraph patches.
Chain ==
  {Model(<<Graph(32, <<1>>, <<32>>, [i \in 1..31 |-> Kernel(<<i>>, <<i + 1>>)])>>, <<>>)}

AllModels == Branching \union Nested \union Stateful \union Unreached \union Chain
=============================================================================
