---------------------------- MODULE MCIncomingFunds ----------------------------
(* A small instance of IncomingFunds: the bounds are those of its cfg.        *)
EXTENDS IncomingFunds
===============================================================================
