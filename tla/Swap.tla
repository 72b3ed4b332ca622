--------------------------------- MODULE Swap ---------------------------------
(***************************************************************************)
(* What settling promises, without events, requests, musig2 rounds, lost   *)
(* messages or errors: the vtxos are given up all for one batch, after its *)
(* tree is signed if it is to hold outputs of the wallet, and that batch   *)
(* is the only one that settles, with all of them.  A call that is over    *)
(* gives up nothing more, but what it gave up may still be settled.        *)
(*                                                                         *)
(* Boarding inputs are no part of the promise: they sign the commitment    *)
(* transaction itself, which is all or nothing.                            *)
(***************************************************************************)
CONSTANTS Batch, Vtxos

VARIABLES
    asked,      \* the coins to settle
    cosigns,    \* some of their worth goes to the tree of the batch
    joined,     \* the batch that was agreed to, a set of at most one
    signed,     \* the batch whose tree is signed
    given,      \* vtxos with the batch they are forfeited to
    settled,    \* the batch that settled
    over        \* the call has returned or thrown

swapVars == <<asked, cosigns, joined, signed, given, settled, over>>

Init ==
    /\ asked = {} /\ cosigns = FALSE
    /\ joined = {} /\ signed = {} /\ given = {} /\ settled = {}
    /\ over = FALSE

Ask ==
    /\ asked = {} /\ asked' # {}
    /\ cosigns' \in BOOLEAN
    /\ UNCHANGED <<joined, signed, given, settled, over>>

Join(b) ==
    /\ ~over /\ asked # {} /\ joined = {}
    /\ joined' = {b}
    /\ UNCHANGED <<asked, cosigns, signed, given, settled, over>>

Sign(b) ==
    /\ ~over /\ cosigns /\ joined = {b} /\ signed = {} /\ given = {}
    /\ signed' = {b}
    /\ UNCHANGED <<asked, cosigns, joined, given, settled, over>>

\* A vtxo that is gone by then is not given up.
Give(b) ==
    /\ ~over /\ joined = {b} /\ given = {}
    /\ cosigns => signed = {b}
    /\ \E coins \in SUBSET (asked \cap Vtxos) : given' = coins \X {b}
    /\ UNCHANGED <<asked, cosigns, joined, signed, settled, over>>

Settle(b) ==
    /\ joined = {b} /\ settled = {}
    /\ cosigns => signed = {b}
    /\ given = (asked \cap Vtxos) \X {b}
    /\ settled' = {b}
    /\ UNCHANGED <<asked, cosigns, joined, signed, given, over>>

Leave ==
    /\ ~over /\ over' = TRUE
    /\ UNCHANGED <<asked, cosigns, joined, signed, given, settled>>

Next ==
    \/ Ask \/ Leave
    \/ \E b \in Batch : Join(b) \/ Sign(b) \/ Give(b) \/ Settle(b)

Spec == Init /\ [][Next]_swapVars
==============================================================================
