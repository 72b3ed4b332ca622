-------------------------------- MODULE Transfer --------------------------------
(***************************************************************************)
(* What sending promises: a call moves its amount out of the wallet at     *)
(* once and at most once, never more than is there, and a call that        *)
(* returns has done so.  One that throws may have or not.                  *)
(***************************************************************************)
EXTENDS Integers

CONSTANT Call

VARIABLES
    balance,    \* value of the wallet
    asked,      \* asked[c]: what call c is to move out of the wallet
    moved,      \* calls that did
    returned    \* calls that returned

transferVars == <<balance, asked, moved, returned>>

Init ==
    /\ balance \in Nat
    /\ asked = [c \in Call |-> 0]
    /\ moved = {} /\ returned = {}

Ask(c, amount) ==
    /\ c \notin moved /\ asked[c] = 0
    /\ asked' = [asked EXCEPT ![c] = amount]
    /\ UNCHANGED <<balance, moved, returned>>

Move(c) ==
    /\ c \notin moved /\ asked[c] <= balance
    /\ balance' = balance - asked[c]
    /\ moved' = moved \cup {c}
    /\ returned' \in {returned, returned \cup {c}}
    /\ UNCHANGED asked

Return(c) ==
    /\ c \in moved \ returned
    /\ returned' = returned \cup {c}
    /\ UNCHANGED <<balance, asked, moved>>

Income ==
    /\ balance' > balance
    /\ UNCHANGED <<asked, moved, returned>>

Next ==
    \/ \E c \in Call : Ask(c, asked'[c]) \/ Move(c) \/ Return(c)
    \/ Income

Spec == Init /\ [][Next]_transferVars
==============================================================================
