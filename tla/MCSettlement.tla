----------------------------- MODULE MCSettlement -----------------------------
(***************************************************************************)
(* Settlement for TLC.  Coins, causes and markers are model values given   *)
(* by the configurations; MaxBatch, VtxoLeaves, MaxErrors and MaxUnrolls   *)
(* bound the server and its environment, and the wallet has no counter.    *)
(* The vtxos are not declared symmetric: connectors are handed out as a    *)
(* function of the vtxos, and the state space is small enough.             *)
(***************************************************************************)
EXTENDS Settlement
==============================================================================
