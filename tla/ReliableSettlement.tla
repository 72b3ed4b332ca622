-------------------------- MODULE ReliableSettlement --------------------------
(***************************************************************************)
(* Settlement over a stream that never breaks, at a server that drops an   *)
(* intent its batch leaves behind: the inductive invariant that makes      *)
(* ForfeitsAfterTreeSigned and ResultIsSettled hold there and, if nobody   *)
(* unrolls the wallet's vtxos meanwhile, ForfeitsCoverVtxos.  Requests may *)
(* be refused and answers lost, and any batch may fail.                    *)
(*                                                                         *)
(* The invariant is about the events on their way, from the one in hand to *)
(* the last one in the server's outbox: the loop of settle takes from one  *)
(* end what the server puts in at the other.                               *)
(***************************************************************************)
EXTENDS Settlement

Reliable == MaxErrors = 0 /\ Requeue = FALSE

InHand == IF reader = "handling" THEN <<current>> ELSE <<>>
Log == (InHand \o messageQueue) \o outbox

\* What a log says of sets of events A and B: some event is in A; an event in
\* A comes after one in B; no event in B comes after one in A.
Has(log, A) == \E i \in 1 .. Len(log) : log[i] \in A
Heralded(log, A, B) ==
    \A i \in 1 .. Len(log) : log[i] \in A => \E j \in 1 .. (i - 1) : log[j] \in B
Closed(log, A, B) ==
    \A i, j \in 1 .. Len(log) : log[i] \in A /\ i < j => log[j] \notin B

Event == Server!SettlementEvent
Of(b) == {e \in Event : e.id = b}
Others(b) == {e \in Event : e.id # b}
After(b) == {e \in Event : e.id > b}
Ends(b) == {e \in Of(b) : e.type \in {"BatchFinalized", "BatchFailed"}}
Finalization(b) == {e \in Of(b) : e.type = "BatchFinalization"}
Finalized(b) == {e \in Of(b) : e.type = "BatchFinalized"}
Offers == {e \in Event : e.type = "BatchStarted" /\ e.ours}

\* What a batch emits once its vtxo tree is signed.
Late(b) ==
    {e \in Of(b) :
        \/ e.type \in {"TreeSignature", "BatchFinalization", "BatchFinalized"}
        \/ e.type = "TreeTx" /\ e.tree = "connectors"}

Signature(b, n) == [type |-> "TreeSignature", id |-> b, node |-> n]
Connector(b, n) == [type |-> "TreeTx", id |-> b, tree |-> "connectors", node |-> n]

\* What comes before batch b is finalized if it has order o, and what has come.
Heralds(b, o) ==
    (IF o.cosigned THEN {Signature(b, n) : n \in 0 .. VtxoLeaves} ELSE {})
        \cup (IF o.vtxos # {} THEN {Connector(b, 1)} ELSE {})
Arrived ==
    {e \in Event :
        \/ e.type = "TreeSignature" /\ <<e.id, e.node>> \in treeSigs
        \/ e.type = "TreeTx" /\ <<e.id, e.node>> \in connectorsChunks}

\* A signature reaches this wallet for a transaction of a tree it joined.
Strangers ==
    {e \in Event : e.type = "TreeSignature" /\
        (e.id \notin joined \/ e.node \notin 0 .. VtxoLeaves)}

-----------------------------------------------------------------------------
\* The loop has not been left; it has been entered.
Attached == reader \in {"none", "reading", "handling"}
Looping == reader \in {"reading", "handling"}

NeverBreaks ==
    /\ errors = 0 /\ errorQueue = <<>> /\ ~aborted
    /\ reader = "none" => source = "none" /\ messageQueue = <<>>
    /\ Looping => source = "open"

ReaderInPlace ==
    /\ reader = "none" =>
          pc \in {"idle", "registering", "rejected"} /\ step = "none" /\ joined = {}
    /\ Looping => pc \in LoopAwaits \cup {"listening"}

\* What each await has in hand.
HandInPlace ==
    /\ pc = "confirming" => current.type = "BatchStarted" /\ current.ours
    /\ pc = "submittingNonces" => current.type = "TreeSigningStarted"
    /\ pc = "submittingSignatures" => current.type = "TreeNoncesAggregated"
    /\ pc \in {"readingCoins", "submittingForfeits"} => current.type = "BatchFinalization"

\* The server has the order of this settlement, and the intent in one batch.
OrderInPlace ==
    /\ pc = "idle" => intent = "none"
    /\ intent # "none" => order = OrderOf
    /\ joined # {} => intent \in {"confirmed", "settled", "dropped"}
    /\ \A b \in joined : b <= batch /\ (b = batch /\ phase # "idle" => intent = "confirmed")
    /\ phase = "confirming" => received = {}

\* Events are of batches that were started; while confirmations are awaited
\* the last one is the start of the batch.
LogInPlace ==
    Attached =>
        /\ ~Has(Log, After(batch)) /\ ~Has(Log, Strangers)
        /\ phase = "confirming" => Closed(Log, Of(batch), Event)
        /\ intent \in {"none", "queued"} => ~Has(Log, Offers)
        /\ intent = "selected" => ~Has(Log, Offers \ Of(batch))

\* The confirmation that was answered was for the batch in hand.
RoundInPlace ==
    Looping =>
        /\ step # "none" => roundId \in joined
        /\ Answered("confirming") => current.id \in joined

\* Nothing but the batch that was joined is seen until it has ended.
OwnBatchFirst ==
    Looping => \A b \in joined :
        /\ Heralded(Log, Others(b), Ends(b))
        /\ batch # b \/ phase = "idle" => Has(Log, Ends(b))

\* The tree is signed, as far as this wallet is asked to sign.
Ready ==
    \/ step \in {"TreeNoncesAggregated", "BatchFinalization"}
    \/ Answered("submittingSignatures")
    \/ Answered("confirming") /\ ~hasOffchainOutputs

\* settle is never behind the server's events, nor ahead of its batch.
StepInPlace ==
    Looping => \A b \in joined :
        /\ ~hasOffchainOutputs => Ready
        /\ batch = b /\ (phase = "finalizing" \/ "signatures" \in received) => Ready
        /\ Has(Log, Late(b)) => Ready
        /\ batch = b /\ phase \in {"confirming", "signing", "aggregated"} =>
              step # "BatchFinalization" /\ ~Has(Log, Late(b))

\* A batch is finalized once, and settle takes part in it.
FinalizedOnce ==
    Looping => \A b \in joined :
        /\ Closed(Log, Finalization(b), Of(b) \ Ends(b))
        /\ step = "BatchFinalization" => ~Has(Log, Of(b) \ Ends(b))
        /\ step # "BatchFinalization" =>
              /\ Heralded(Log, Finalized(b), Finalization(b))
              /\ batch = b /\ phase = "finalizing" => Has(Log, Finalization(b))

\* The signatures and the connectors come before the finalization.
AnnouncedBefore ==
    Looping => \A b \in joined : \A e \in Heralds(b, order) \ Arrived :
        Heralded(Log, Finalization(b), {e})

SignaturesInPlace == \A c \in treeSigs : c[1] \in joined /\ c[2] \in 0 .. VtxoLeaves

SettledAtTheEnd ==
    Looping => \A b \in joined : Has(Log, Finalized(b)) => intent = "settled"

\* What nobody unrolls is forfeited.
CoveredInv == unrolled = {} /\ ForfeitsCoverVtxos

ReliableInv ==
    /\ NeverBreaks /\ ReaderInPlace /\ HandInPlace /\ OrderInPlace /\ LogInPlace
    /\ RoundInPlace /\ OwnBatchFirst /\ StepInPlace /\ FinalizedOnce
    /\ AnnouncedBefore /\ SignaturesInPlace /\ SettledAtTheEnd
    /\ ResultIsSettled
==============================================================================
