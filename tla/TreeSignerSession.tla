-------------------------- MODULE TreeSignerSession --------------------------
(***************************************************************************)
(* The musig2 state of one cosigner of a vtxo tree: class                  *)
(* TreeSignerSession of src/src/tree/signingSession.ts.  A transaction of  *)
(* the tree stands for the sighash it is signed with, and for the secret   *)
(* nonce drawn for it.                                                     *)
(***************************************************************************)

VARIABLES
    graph,              \* the transactions of the tree given to init
    myNonces,           \* transactions a secret nonce was drawn for
    aggregateNonces     \* transactions an aggregate nonce was received for

sessionVars == <<graph, myNonces, aggregateNonces>>

SessionInit ==
    /\ graph = {}
    /\ myNonces = {}
    /\ aggregateNonces = {}

\* init(tree) followed by getNonces(): nonces are drawn once and kept.
InitAndGetNonces(tree) ==
    /\ graph' = tree
    /\ myNonces' = IF myNonces = {} THEN tree ELSE myNonces
    /\ UNCHANGED aggregateNonces

\* sign() throws on a transaction with no secret or no aggregate nonce.
CanSign(nonces) ==
    /\ graph # {}
    /\ \A tx \in graph : tx \in myNonces /\ tx \in nonces

\* setAggregatedNonces(nonces), which throws the second time, then sign().
SetAggregatedNoncesAndSign(nonces) ==
    /\ aggregateNonces = {}
    /\ CanSign(nonces)
    /\ aggregateNonces' = nonces
    /\ UNCHANGED <<graph, myNonces>>
==============================================================================
