--------------------------- MODULE MCOffchainWallet ---------------------------
(* A small instance of OffchainWallet: the bounds are those of its cfg.      *)
EXTENDS OffchainWallet

Symmetry == Permutations(Call)
==============================================================================
