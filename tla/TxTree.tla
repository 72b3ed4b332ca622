-------------------------------- MODULE TxTree --------------------------------
(***************************************************************************)
(* src/src/tree/txTree.ts and src/src/tree/validation.ts: chunks of a tree *)
(* are put together by the txids they name as children, which anyone may   *)
(* write, and then checked against what the transactions themselves spend. *)
(*                                                                         *)
(* A node is a record [inputs, outputs, children]: the outpoints that its  *)
(* transaction spends, from input 0 on; the amounts of its outputs, the    *)
(* anchor included, by index; the txids of its children by the index of    *)
(* the output they hang from.  A chunk is a node with its txid.  Scripts   *)
(* and cosigner keys are left out.                                         *)
(***************************************************************************)
EXTENDS Integers, Sequences, FiniteSets, Functions

\* Two chunks of the same transaction: the later one counts.
ChunksByTxid(chunks) ==
    LET last(t) == CHOOSE i \in DOMAIN chunks :
                      /\ chunks[i].txid = t
                      /\ \A j \in DOMAIN chunks : j > i => chunks[j].txid # t
    IN [t \in {chunks[i].txid : i \in DOMAIN chunks} |->
           [inputs |-> chunks[last(t)].inputs,
            outputs |-> chunks[last(t)].outputs,
            children |-> chunks[last(t)].children]]

HasChild(node, t) == \E i \in DOMAIN node.children : node.children[i] = t

RootTxids(nodes) ==
    {t \in DOMAIN nodes : \A u \in DOMAIN nodes \ {t} : ~HasChild(nodes[u], t)}

\* Outputs of a transaction with a child among the chunks; others are skipped.
ChildOutputs(nodes, t) ==
    {i \in DOMAIN nodes[t].children : nodes[t].children[i] \in DOMAIN nodes}

\* The outpoints of all of them, and the child at each.
Branches(nodes) == UNION {{t} \X ChildOutputs(nodes, t) : t \in DOMAIN nodes}
ChildAt(nodes, branch) == nodes[branch[1]].children[branch[2]]

\* Ways down from the root, n branches long.  A node of the graph that buildGraph
\* makes is such a way: a child that is named twice is built twice.
WaysDown(nodes, root, n) ==
    {way \in [1 .. n -> Branches(nodes)] :
        \A k \in 1 .. n :
            way[k][1] = IF k = 1 THEN root ELSE ChildAt(nodes, way[k - 1])}
Graph(nodes, root) ==
    UNION {WaysDown(nodes, root, n) : n \in 0 .. Cardinality(DOMAIN nodes)}
Tip(nodes, root, way) ==
    IF way = <<>> THEN root ELSE ChildAt(nodes, way[Len(way)])

\* A way as long as there are transactions meets one of them twice: buildGraph
\* would follow it for ever, and the engine ends it with an error.
BuildEnds(nodes, root) == WaysDown(nodes, root, Cardinality(DOMAIN nodes)) = {}

\* TxTree.create of that many chunks returns the graph under root.
Creates(nodes, count, root) ==
    /\ count # 0
    /\ RootTxids(nodes) = {root}
    /\ BuildEnds(nodes, root)
    /\ Cardinality(Graph(nodes, root)) = count

-----------------------------------------------------------------------------

OutputsSum(node) == SumFunction(node.outputs)

\* What validate asks of a node and of its children.
ValidNode(nodes, t) ==
    /\ Len(nodes[t].inputs) = 1
    /\ Cardinality(ChildOutputs(nodes, t)) <= Cardinality(DOMAIN nodes[t].outputs) - 1
    /\ \A i \in ChildOutputs(nodes, t) :
        /\ i \in DOMAIN nodes[t].outputs
        /\ LET child == nodes[nodes[t].children[i]]
           IN /\ Len(child.inputs) = 1
              /\ child.inputs[1] = <<t, i>>
              /\ OutputsSum(child) = nodes[t].outputs[i]
        /\ nodes[t].outputs[i] # 0

Validates(nodes, root) ==
    \A way \in Graph(nodes, root) : ValidNode(nodes, Tip(nodes, root, way))

\* Faulty: which output the root spends is not checked.
ValidatesUnderAnything(nodes, root, commitment) ==
    /\ Validates(nodes, root)
    /\ 0 \in DOMAIN commitment.outputs /\ commitment.outputs[0] # 0
    /\ OutputsSum(nodes[root]) = commitment.outputs[0]

\* commitment is a node with its txid: output 0 is the batch's, 1 the connectors'.
ValidatesVtxoTxGraph(nodes, root, commitment) ==
    /\ Validates(nodes, root)
    /\ 0 \in DOMAIN commitment.outputs /\ commitment.outputs[0] # 0
    /\ nodes[root].inputs[1] = <<commitment.txid, 0>>
    /\ OutputsSum(nodes[root]) = commitment.outputs[0]

ValidatesConnectorsTxGraph(nodes, root, commitment) ==
    /\ Validates(nodes, root)
    /\ 1 \in DOMAIN commitment.outputs
    /\ nodes[root].inputs[1] = <<commitment.txid, 1>>

-----------------------------------------------------------------------------

\* leaves: a node without children is its own leaf.
LeafTxids(nodes, root) ==
    {t \in {Tip(nodes, root, way) : way \in Graph(nodes, root)} : ChildOutputs(nodes, t) = {}}

\* The nodes that find and update search for: update throws if there is none, and
\* changes the first that it meets.
NodesOf(nodes, root, t) ==
    {way \in Graph(nodes, root) : Tip(nodes, root, way) = t}

-----------------------------------------------------------------------------
(* What create and validate promise together. *)

\* Each transaction is one node, so leaves counts none twice and update has no choice.
OneWayToEach(nodes, root) ==
    \A t \in DOMAIN nodes : \E way \in Graph(nodes, root) : NodesOf(nodes, root, t) = {way}

\* The tree is the one that the transactions themselves make: each spends the output
\* it hangs from, and nothing else.
ChildrenSpend(nodes, root) ==
    \A t \in DOMAIN nodes \ {root} :
        \E branch \in Branches(nodes) :
            ChildAt(nodes, branch) = t /\ nodes[t].inputs = <<branch>>

\* What no transaction of the tree spends: the vtxos, and what a partial tree leaves out.
Outpoints(nodes) == UNION {{t} \X DOMAIN nodes[t].outputs : t \in DOMAIN nodes}
UnspentOutputs(nodes) == Outpoints(nodes) \ Branches(nodes)
Worth(nodes, outpoints) ==
    SumFunction([o \in outpoints |-> nodes[o[1]].outputs[o[2]]])
==============================================================================
