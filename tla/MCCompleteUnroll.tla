--------------------------- MODULE MCCompleteUnroll ---------------------------
(***************************************************************************)
(* The tap tree of the wallet's vtxos: a forfeit closure, an exit after a  *)
(* delay in blocks or seconds.  Numbers are scaled: SmallNumber stands     *)
(* for 16, so that a timelock on either side of it fits a short chain.     *)
(***************************************************************************)
EXTENDS CompleteUnroll

Forfeit == [kind |-> "multisig", type |-> "blocks", value |-> 0]
ExitAfter(t, n) == [kind |-> "csv", type |-> t, value |-> n]

BothExits == <<Forfeit, ExitAfter("seconds", 2), ExitAfter("blocks", 2)>>
SecondsExit == <<Forfeit, ExitAfter("seconds", 2)>>
BlocksExit == <<Forfeit, ExitAfter("blocks", 2)>>
MCAmount == [v \in Vtxo |-> 300]
BigAmount == [v \in Vtxo |-> 3000]
==============================================================================
