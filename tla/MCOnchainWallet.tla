---------------------------- MODULE MCOnchainWallet ----------------------------
(***************************************************************************)
(* Calls are interchangeable; the wallet starts with one coin that is not  *)
(* enough, one that is exactly enough for a send (720) or exactly the fee  *)
(* of a child (304, alone or the larger of two), or several.               *)
(***************************************************************************)
EXTENDS OnchainWallet, TLC

CallSymmetry == Permutations(Call)
==============================================================================
