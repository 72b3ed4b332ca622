------------------------------- MODULE MCUnroll -------------------------------
(***************************************************************************)
(* Two vtxos of one batch: an ark transaction over a leaf, and the leaf    *)
(* beside it.  The sessions share the commitment and the root of the tree, *)
(* and the checkpoint brings the longer chain a transaction of each kind.  *)
(***************************************************************************)
EXTENDS Unroll, TLC

CONSTANTS s1, s2

MCTx == {"commitment", "root", "leaf", "checkpoint", "ark", "sibling"}

MCParents ==
    [t \in MCTx |-> CASE t = "commitment" -> {}
                      [] t = "root" -> {"commitment"}
                      [] t \in {"leaf", "sibling"} -> {"root"}
                      [] t = "checkpoint" -> {"leaf"}
                      [] t = "ark" -> {"checkpoint"}]

MCKind ==
    [t \in MCTx |-> CASE t = "commitment" -> "commitment"
                      [] t \in {"root", "leaf", "sibling"} -> "tree"
                      [] t = "checkpoint" -> "checkpoint"
                      [] t = "ark" -> "ark"]

LongChain == <<"ark", "checkpoint", "leaf", "root", "commitment">>
TreeChain == <<"leaf", "root", "commitment">>
SiblingChain == <<"sibling", "root", "commitment">>

\* One session over the long chain.
ChainAlone == [s \in {s1} |-> LongChain]

\* Two sessions that part after the root, and two over the same vtxo.
ChainsPart == s1 :> TreeChain @@ s2 :> SiblingChain
==============================================================================
