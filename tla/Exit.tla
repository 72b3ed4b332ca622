--------------------------------- MODULE Exit ---------------------------------
(***************************************************************************)
(* What a unilateral exit promises, without mempools, packages, explorers  *)
(* or failures: transactions are confirmed one at a time, each after the   *)
(* transactions it spends from, and a vtxo is out when all the             *)
(* transactions of its chain are confirmed.                                *)
(***************************************************************************)
EXTENDS Sequences, Naturals

CONSTANTS Tx, Parents, Session, Chain,
    Root            \* what is onchain from the start

VARIABLES
    confirmed,      \* transactions with a confirmation
    exited          \* sessions whose vtxo is out

Init == confirmed = Root /\ exited = {}

Confirm(t) ==
    /\ t \notin confirmed
    /\ Parents[t] \subseteq confirmed
    /\ confirmed' = confirmed \cup {t}
    /\ UNCHANGED exited

Leave(s) ==
    /\ s \notin exited
    /\ \A i \in 1 .. Len(Chain[s]) : Chain[s][i] \in confirmed
    /\ exited' = exited \cup {s}
    /\ UNCHANGED confirmed

Next == (\E t \in Tx : Confirm(t)) \/ (\E s \in Session : Leave(s))

Spec == Init /\ [][Next]_<<confirmed, exited>>
==============================================================================
