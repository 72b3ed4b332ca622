------------------------------ MODULE Settlement ------------------------------
(***************************************************************************)
(* Wallet.settle of src/src/wallet/wallet.ts: one settlement, from the     *)
(* registration of an intent to the commitment transaction's id or an      *)
(* error.  It composes three components:                                   *)
(*   Stream   the event stream the loop of settle reads (EventStream),     *)
(*   Server   the Ark server that runs the batches (ArkServer),            *)
(*   Session  the musig2 state of the vtxo tree (TreeSignerSession).       *)
(*                                                                         *)
(* pc names the await settle is suspended at.  "listening" is the for-await*)
(* loop; the other awaits are requests to the server, during which events  *)
(* keep being queued.  A request is first accepted or refused by the       *)
(* server, then answered; an answer that is lost throws as a refusal does. *)
(***************************************************************************)
EXTENDS Naturals, Sequences, FiniteSets, TxTree

CONSTANTS
    MaxBatch, VtxoLeaves, Vtxos, Requeue,   \* see ArkServer
    Recoverables,   \* swept vtxos, settled without a forfeit
    BoardingUtxos,  \* onchain outputs, signed for in the commitment tx
    ArkNotes,       \* bearer notes
    Cause, NoEvent, \* see EventStream
    NoBatch,        \* no batch
    MaxErrors,      \* how often the EventSource reports an error
    MaxUnrolls,     \* how many vtxos another process unrolls meanwhile
    LossyAnswers    \* an accepted request's answer may be lost

ASSUME SettlementAssumption ==
    /\ MaxBatch \in Nat
    /\ VtxoLeaves \in Nat \ {0}
    /\ IsFiniteSet(Vtxos)
    /\ Requeue \in BOOLEAN
    /\ NoBatch \notin 1 .. MaxBatch
    /\ MaxErrors \in Nat
    /\ MaxUnrolls \in Nat
    /\ LossyAnswers \in BOOLEAN

\* A coin is of one kind.
ASSUME CoinsAssumption ==
    /\ Vtxos \cap (Recoverables \cup BoardingUtxos \cup ArkNotes) = {}
    /\ Recoverables \cap (BoardingUtxos \cup ArkNotes) = {}
    /\ BoardingUtxos \cap ArkNotes = {}

Coins == Vtxos \cup Recoverables \cup BoardingUtxos \cup ArkNotes

VARIABLES
    \* Stream
    source, messageQueue, errorQueue, reader, current, aborted,
    \* Server
    batch, phase, intent, order, joined, received, outbox,
    \* Session; vtxoGraph is the tree it was initialised with
    vtxoGraph, myNonces, aggregateNonces,
    \* settle
    pc, request,            \* the await, and what became of its request
    inputs, hasOffchainOutputs,
    step, roundId,
    vtxoChunks, connectorsChunks,
    treeSigs,               \* transactions of vtxoGraph with a tapKeySig
    forfeits, boarding,     \* submitted forfeits; inputs taken for boarding
    result,
    \* environment
    errors, unrolled

Server == INSTANCE ArkServer
Stream == INSTANCE EventStream WITH Event <- Server!SettlementEvent
Session == INSTANCE TreeSignerSession WITH graph <- vtxoGraph

streamVars == <<source, messageQueue, errorQueue, reader, current, aborted>>
serverVars == <<batch, phase, intent, order, joined, received, outbox>>
sessionVars == <<vtxoGraph, myNonces, aggregateNonces>>
paramVars == <<inputs, hasOffchainOutputs>>
treeVars == <<vtxoChunks, connectorsChunks, treeSigs>>
submittedVars == <<forfeits, boarding>>
envVars == <<errors, unrolled>>
vars == <<streamVars, serverVars, sessionVars, paramVars, treeVars, submittedVars,
          envVars, pc, request, step, roundId, result>>

Awaits == {"registering", "confirming", "submittingNonces", "submittingSignatures",
           "readingCoins", "submittingForfeits", "deletingIntent"}
Ended == {"resolved", "rejected"}
Steps == {"none", "BatchStarted", "TreeSigningStarted", "TreeNoncesAggregated",
          "BatchFinalization"}
Forfeit == [input : Coins, connector : Server!Chunk]

SettleTypeOK ==
    /\ vtxoGraph \subseteq Server!Chunk
    /\ myNonces \subseteq Server!Chunk
    /\ aggregateNonces \subseteq Server!Chunk
    /\ pc \in Awaits \cup Ended \cup {"idle", "listening"}
    /\ request \in {"none", "sent", "done", "refused"}
    /\ inputs \subseteq Coins
    /\ hasOffchainOutputs \in BOOLEAN
    /\ step \in Steps
    /\ roundId \in Server!Batch \cup {NoBatch}
    /\ vtxoChunks \subseteq Server!Chunk
    /\ connectorsChunks \subseteq Server!Chunk
    /\ treeSigs \subseteq Server!Chunk
    /\ forfeits \subseteq Forfeit
    /\ boarding \subseteq Coins
    /\ result \in Server!Batch \cup {NoBatch}
    /\ errors \in 0 .. MaxErrors
    /\ unrolled \subseteq Vtxos

TypeOK == Stream!StreamTypeOK /\ Server!ServerTypeOK /\ SettleTypeOK

Init ==
    /\ Stream!StreamInit
    /\ Server!ServerInit
    /\ Session!SessionInit
    /\ pc = "idle" /\ request = "none"
    /\ inputs = {} /\ hasOffchainOutputs = FALSE
    /\ step = "none" /\ roundId = NoBatch
    /\ vtxoChunks = {} /\ connectorsChunks = {} /\ treeSigs = {}
    /\ forfeits = {} /\ boarding = {}
    /\ result = NoBatch
    /\ errors = 0 /\ unrolled = {}

-----------------------------------------------------------------------------
(* Awaits and the event in hand. *)

Send(await) == pc' = await /\ request' = "sent"
Answered(await) == pc = await /\ request = "done"
Listen == pc' = "listening" /\ request' = "none"

\* The body of the loop is done with the event.
Continue == Listen /\ Stream!Resume

\* Faulty: an error is caught inside the loop.
AbortOneEvent == Continue

\* The body throws: the loop is left, the intent is to be deleted.
Abort == Stream!Leave /\ Send("deletingIntent")

Handling(type) ==
    /\ pc = "listening"
    /\ reader = "handling"
    /\ current.type = type

(***************************************************************************)
(* Faulty variants of the guards below, each with the slip its name says:  *)
(* what the properties must notice if the code is changed this way.        *)
(***************************************************************************)
ExpectedByType(e, batchStarted, treeSignature, finalized, failed) ==
    \/ e.type = "BatchFailed" /\ failed
    \/ e.type = "BatchStarted" /\ batchStarted /\ e.ours
    \/ e.type = "TreeTx" /\ step \in {"BatchStarted", "TreeNoncesAggregated"}
    \/ e.type = "TreeSigningStarted" /\ step = "BatchStarted"
    \/ e.type = "TreeNoncesAggregated" /\ step = "TreeSigningStarted"
    \/ e.type = "TreeSignature" /\ treeSignature /\ hasOffchainOutputs
    \/ e.type = "BatchFinalization" /\ step = "TreeNoncesAggregated"
    \/ e.type = "BatchFinalized" /\ finalized

ExpectedStartedAnytime(e) ==
    ExpectedByType(e, TRUE, step = "TreeNoncesAggregated",
                   step = "BatchFinalization", e.id = roundId)
ExpectedSignatureBeforeNonces(e) ==
    ExpectedByType(e, step = "none", step = "TreeSigningStarted",
                   step = "BatchFinalization", e.id = roundId)
ExpectedFinalizedAnytime(e) ==
    ExpectedByType(e, step = "none", step = "TreeNoncesAggregated",
                   TRUE, e.id = roundId)
ExpectedFailureOfOthers(e) ==
    ExpectedByType(e, step = "none", step = "TreeNoncesAggregated",
                   step = "BatchFinalization", e.id # roundId)

\* The guards under which the switch does not just continue.
Expected(e) ==
    \/ e.type = "BatchFailed" /\ e.id = roundId
    \/ e.type = "BatchStarted" /\ step = "none" /\ e.ours
    \/ e.type = "TreeTx" /\ step \in {"BatchStarted", "TreeNoncesAggregated"}
    \/ e.type = "TreeSigningStarted" /\ step = "BatchStarted"
    \/ e.type = "TreeNoncesAggregated" /\ step = "TreeSigningStarted"
    \/ e.type = "TreeSignature" /\ step = "TreeNoncesAggregated" /\ hasOffchainOutputs
    \/ e.type = "BatchFinalization" /\ step = "TreeNoncesAggregated"
    \/ e.type = "BatchFinalized" /\ step = "BatchFinalization"

On(type) == Handling(type) /\ Expected(current)

-----------------------------------------------------------------------------
(* Registration. *)

\* settle(params); without params, all coins and one offchain output.
Settle ==
    /\ pc = "idle"
    /\ inputs' \in (SUBSET Coins) \ {{}}
    /\ hasOffchainOutputs' \in BOOLEAN
    /\ Send("registering")
    /\ UNCHANGED <<streamVars, serverVars, sessionVars, treeVars, submittedVars,
                   envVars, step, roundId, result>>

Registered ==
    /\ Answered("registering")
    /\ Listen
    /\ Stream!Open
    /\ UNCHANGED <<serverVars, sessionVars, paramVars, treeVars, submittedVars,
                   envVars, step, roundId, result>>

\* A request throws because it was refused, or because its answer was lost.
Threw(await) ==
    /\ pc = await
    /\ request = "refused" \/ (LossyAnswers /\ request = "done")

\* registerIntent is outside the try block: nothing is cleaned up.
RegistrationThrows ==
    /\ Threw("registering")
    /\ pc' = "rejected" /\ request' = "none"
    /\ UNCHANGED <<streamVars, serverVars, sessionVars, paramVars, treeVars,
                   submittedVars, envVars, step, roundId, result>>

-----------------------------------------------------------------------------
(* The loop over the events. *)

NextEvent ==
    /\ pc = "listening"
    /\ Stream!Deliver
    /\ UNCHANGED <<serverVars, sessionVars, paramVars, treeVars, submittedVars,
                   envVars, pc, request, step, roundId, result>>

IgnoreEvent ==
    /\ pc = "listening" /\ reader = "handling"
    /\ ~Expected(current)
    /\ Continue
    /\ UNCHANGED <<serverVars, sessionVars, paramVars, treeVars, submittedVars,
                   envVars, step, roundId, result>>

OnBatchFailed ==
    /\ On("BatchFailed")
    /\ Abort
    /\ UNCHANGED <<serverVars, sessionVars, paramVars, treeVars, submittedVars,
                   envVars, step, roundId, result>>

OnBatchStarted ==
    /\ On("BatchStarted")
    /\ Send("confirming")
    /\ UNCHANGED <<streamVars, serverVars, sessionVars, paramVars, treeVars,
                   submittedVars, envVars, step, roundId, result>>

\* Without offchain outputs there is no tree to sign.
Confirmed ==
    /\ Answered("confirming")
    /\ step' = IF hasOffchainOutputs THEN "BatchStarted" ELSE "TreeNoncesAggregated"
    /\ roundId' = current.id
    /\ Continue
    /\ UNCHANGED <<serverVars, sessionVars, paramVars, treeVars, submittedVars,
                   envVars, result>>

OnTreeTx ==
    /\ On("TreeTx")
    /\ LET chunk == <<current.id, current.node>>
       IN IF current.tree = "vtxo"
          THEN vtxoChunks' = vtxoChunks \cup {chunk} /\ UNCHANGED connectorsChunks
          ELSE connectorsChunks' = connectorsChunks \cup {chunk} /\ UNCHANGED vtxoChunks
    /\ Continue
    /\ UNCHANGED <<serverVars, sessionVars, paramVars, treeSigs, submittedVars,
                   envVars, step, roundId, result>>

\* Faulty: the tree's root is not checked against the commitment tx.
HangsFromAnything(chunks, b) == chunks # {}

(***************************************************************************)
(* TxTree.create and the validation of its result against commitment       *)
(* transaction b: one root, which spends b, and nothing that does not hang *)
(* from it.  A tree that misses leaves is a valid partial tree.            *)
(***************************************************************************)
HangsFrom(chunks, b) ==
    /\ <<b, 0>> \in chunks
    /\ \A c \in chunks : c[1] = b

\* validateVtxoTxGraph, session.init, session.getNonces, submitTreeNonces.
OnTreeSigningStarted ==
    /\ On("TreeSigningStarted")
    /\ HangsFrom(vtxoChunks, current.id)
    /\ Session!InitAndGetNonces(vtxoChunks)
    /\ Send("submittingNonces")
    /\ UNCHANGED <<streamVars, serverVars, paramVars, treeVars, submittedVars,
                   envVars, step, roundId, result>>

NoncesSubmitted ==
    /\ Answered("submittingNonces")
    /\ step' = "TreeSigningStarted"
    /\ Continue
    /\ UNCHANGED <<serverVars, sessionVars, paramVars, treeVars, submittedVars,
                   envVars, roundId, result>>

\* The event carries the aggregate nonces of the whole tree of its batch.
NoncesOf(e) == Server!TreeOf(e.id, VtxoLeaves)

OnTreeNoncesAggregated ==
    /\ On("TreeNoncesAggregated")
    /\ Session!SetAggregatedNoncesAndSign(NoncesOf(current))
    /\ Send("submittingSignatures")
    /\ UNCHANGED <<streamVars, serverVars, paramVars, treeVars, submittedVars,
                   envVars, step, roundId, result>>

SignaturesSubmitted ==
    /\ Answered("submittingSignatures")
    /\ step' = "TreeNoncesAggregated"
    /\ Continue
    /\ UNCHANGED <<serverVars, sessionVars, paramVars, treeVars, submittedVars,
                   envVars, roundId, result>>

\* TxTree.update throws when the transaction is not in the tree.
OnTreeSignature ==
    /\ On("TreeSignature")
    /\ <<current.id, current.node>> \in vtxoGraph
    /\ treeSigs' = treeSigs \cup {<<current.id, current.node>>}
    /\ Continue
    /\ UNCHANGED <<serverVars, sessionVars, paramVars, vtxoChunks, connectorsChunks,
                   submittedVars, envVars, step, roundId, result>>

-----------------------------------------------------------------------------
(* Finalization: handleSettlementFinalizationEvent. *)

\* Faulty: the connectors tree is not validated.
ConnectorsUnchecked == connectorsChunks # {} => \E c \in connectorsChunks : c[2] = 0

\* validateConnectorsTxGraph, then getVirtualCoins.
ConnectorsOK ==
    connectorsChunks # {} => HangsFrom(connectorsChunks, current.id)

OnBatchFinalization ==
    /\ On("BatchFinalization")
    /\ ConnectorsOK
    /\ Send("readingCoins")
    /\ UNCHANGED <<streamVars, serverVars, sessionVars, paramVars, treeVars,
                   submittedVars, envVars, step, roundId, result>>

\* Faulty: every node of the connectors tree, not only its leaves.
ConnectorsNodes == connectorsChunks

\* TxTree.leaves: a tree without children is its own leaf.
ConnectorsLeaves ==
    LET below == {c \in connectorsChunks : c[2] # 0}
    IN IF below = {} THEN connectorsChunks ELSE below

\* The inputs the wallet's vtxos list has, and those it takes for boarding.
KnownVtxos == (inputs \cap (Vtxos \cup Recoverables)) \ unrolled
ToForfeit == KnownVtxos \ Recoverables
TakenForBoarding == inputs \ KnownVtxos

\* Faulty: connectorIndex is not compared with the number of leaves.
ConnectorChoicesPastTheEnd == [ToForfeit -> ConnectorsLeaves \cup {NoBatch}]

\* connectorIndex: each forfeit spends the next leaf.
ConnectorChoices ==
    {f \in [ToForfeit -> ConnectorsLeaves] :
        \A i, j \in ToForfeit : f[i] = f[j] => i = j}

\* At least one forfeit or boarding input: submit them.
CoinsRead ==
    /\ Answered("readingCoins")
    /\ ToForfeit \cup TakenForBoarding # {}
    /\ \E f \in ConnectorChoices :
        forfeits' = {[input |-> i, connector |-> f[i]] : i \in ToForfeit}
    /\ boarding' = TakenForBoarding
    /\ Send("submittingForfeits")
    /\ UNCHANGED <<streamVars, serverVars, sessionVars, paramVars, treeVars,
                   envVars, step, roundId, result>>

NothingToSubmit ==
    /\ Answered("readingCoins")
    /\ ToForfeit \cup TakenForBoarding = {}
    /\ step' = "BatchFinalization"
    /\ Continue
    /\ UNCHANGED <<serverVars, sessionVars, paramVars, treeVars, submittedVars,
                   envVars, roundId, result>>

ForfeitsSubmitted ==
    /\ Answered("submittingForfeits")
    /\ step' = "BatchFinalization"
    /\ Continue
    /\ UNCHANGED <<serverVars, sessionVars, paramVars, treeVars, submittedVars,
                   envVars, roundId, result>>

OnBatchFinalized ==
    /\ On("BatchFinalized")
    /\ Stream!Leave
    /\ result' = current.id
    /\ pc' = "resolved" /\ request' = "none"
    /\ UNCHANGED <<serverVars, sessionVars, paramVars, treeVars, submittedVars,
                   envVars, step, roundId>>

-----------------------------------------------------------------------------
(* What throws inside the loop, and the catch block. *)

\* The content of an expected event is rejected.
BadContent ==
    \/ On("TreeSigningStarted") /\ ~HangsFrom(vtxoChunks, current.id)
    \/ /\ On("TreeNoncesAggregated")
       /\ aggregateNonces # {} \/ ~Session!CanSign(NoncesOf(current))
    \/ On("TreeSignature") /\ <<current.id, current.node>> \notin vtxoGraph
    \/ On("BatchFinalization") /\ ~ConnectorsOK

\* "connectors not received", "not enough connectors received".
NotEnoughConnectors ==
    /\ Answered("readingCoins")
    /\ ConnectorChoices = {}

LoopAwaits == Awaits \ {"registering", "deletingIntent"}

LoopThrows ==
    /\ \/ BadContent
       \/ NotEnoughConnectors
       \/ \E await \in LoopAwaits : Threw(await)
    /\ Abort
    /\ UNCHANGED <<serverVars, sessionVars, paramVars, treeVars, submittedVars,
                   envVars, step, roundId, result>>

\* next() throws an error that was queued while the body was busy.
StreamThrows ==
    /\ pc = "listening"
    /\ Stream!ThrowQueued
    /\ Send("deletingIntent")
    /\ UNCHANGED <<serverVars, sessionVars, paramVars, treeVars, submittedVars,
                   envVars, step, roundId, result>>

\* Whatever became of deleteIntent, the error is thrown to the caller.
IntentDeleted ==
    /\ pc = "deletingIntent"
    /\ request \in {"done", "refused"}
    /\ pc' = "rejected" /\ request' = "none"
    /\ UNCHANGED <<streamVars, serverVars, sessionVars, paramVars, treeVars,
                   submittedVars, envVars, step, roundId, result>>

-----------------------------------------------------------------------------
(* The requests at the server. *)

OrderOf ==
    [cosigned |-> hasOffchainOutputs,
     vtxos |-> inputs \cap Vtxos,
     boarding |-> inputs \cap BoardingUtxos # {}]

Accept ==
    /\ request = "sent"
    /\ \/ pc = "registering" /\ Server!RegisterIntent(OrderOf)
       \/ pc = "confirming" /\ Server!ConfirmRegistration
       \/ pc = "submittingNonces" /\ Server!SubmitTreeNonces(current.id, myNonces)
       \/ pc = "submittingSignatures" /\ Server!SubmitTreeSignatures(current.id, vtxoGraph)
       \/ pc = "readingCoins" /\ UNCHANGED serverVars
       \/ /\ pc = "submittingForfeits"
          /\ Server!SubmitForfeits(forfeits, boarding \cap BoardingUtxos # {})
       \/ pc = "deletingIntent" /\ Server!DeleteIntent
    /\ request' = "done"
    /\ UNCHANGED <<streamVars, sessionVars, paramVars, treeVars, submittedVars,
                   envVars, pc, step, roundId, result>>

Refuse ==
    /\ request = "sent"
    /\ request' = "refused"
    /\ UNCHANGED <<streamVars, serverVars, sessionVars, paramVars, treeVars,
                   submittedVars, envVars, pc, step, roundId, result>>

-----------------------------------------------------------------------------
(* The server's own steps and the network. *)

clientVars == <<sessionVars, paramVars, treeVars, submittedVars, step, roundId, result>>

RunBatch ==
    /\ Server!BatchStep
    /\ UNCHANGED <<streamVars, clientVars, envVars, pc, request>>

\* An event emitted while no connection is open is lost.  After an error the
\* loop drains its queues without a pause, unless a handler waits.
EmitEvent ==
    /\ Server!Emit
    /\ errorQueue # <<>> => pc \in LoopAwaits
    /\ IF source = "open" THEN Stream!Message(Head(outbox)) ELSE UNCHANGED streamVars
    /\ UNCHANGED <<clientVars, envVars, pc, request>>

\* The connection breaks while next() waits: the loop throws at once.
ErrorWhileReading ==
    /\ errors < MaxErrors
    /\ pc = "listening"
    /\ \E c \in Cause : Stream!RejectNext(c)
    /\ Send("deletingIntent")
    /\ errors' = errors + 1
    /\ UNCHANGED <<serverVars, clientVars, unrolled>>

\* The connection breaks while a handler waits for an answer.
ErrorWhileBusy ==
    /\ errors < MaxErrors
    /\ pc \in LoopAwaits
    /\ \E c \in Cause : Stream!QueueError(c)
    /\ errors' = errors + 1
    /\ UNCHANGED <<serverVars, clientVars, unrolled, pc, request>>

Reconnect ==
    /\ Stream!Reconnect
    /\ UNCHANGED <<serverVars, clientVars, envVars, pc, request>>

\* Another process of the same key unrolls an input.
Unroll ==
    /\ Cardinality(unrolled) < MaxUnrolls
    /\ \E v \in (inputs \cap Vtxos) \ unrolled : unrolled' = unrolled \cup {v}
    /\ UNCHANGED <<streamVars, serverVars, clientVars, errors, pc, request>>

-----------------------------------------------------------------------------
ClientStep ==
    \/ Settle \/ Registered \/ RegistrationThrows
    \/ NextEvent \/ IgnoreEvent
    \/ OnBatchFailed \/ OnBatchStarted \/ Confirmed
    \/ OnTreeTx \/ OnTreeSigningStarted \/ NoncesSubmitted
    \/ OnTreeNoncesAggregated \/ SignaturesSubmitted \/ OnTreeSignature
    \/ OnBatchFinalization \/ CoinsRead \/ NothingToSubmit \/ ForfeitsSubmitted
    \/ OnBatchFinalized
    \/ LoopThrows \/ StreamThrows \/ IntentDeleted

Next ==
    \/ ClientStep
    \/ Accept \/ Refuse
    \/ RunBatch \/ EmitEvent
    \/ ErrorWhileReading \/ ErrorWhileBusy \/ Reconnect
    \/ Unroll

Spec == Init /\ [][Next]_vars

(***************************************************************************)
(* Fairness: the wallet's runtime keeps running settle, every request is   *)
(* answered one way or another, a batch that has started ends, and what    *)
(* the server emits arrives or is lost.  Nothing is assumed of errors,     *)
(* reconnections or of the start of another batch.                         *)
(***************************************************************************)
Fairness ==
    /\ WF_vars(ClientStep)
    /\ WF_vars(Accept \/ Refuse)
    /\ WF_vars(phase # "idle" /\ RunBatch)
    /\ WF_vars(EmitEvent)

FairSpec == Spec /\ Fairness

-----------------------------------------------------------------------------
(* Properties *)

\* One settlement confirms its registration in at most one batch, whatever is
\* lost, late or requeued (the guard on BatchStarted).
JoinsOnce == \A a, b \in joined : a = b

\* Nonces and partial signatures go to the batch this intent was confirmed
\* in, and are for transactions of that batch's tree.  Only BatchFailed's id
\* is compared with roundId: for the other events this rests on the tree's
\* validation against the event's commitment tx and on the nonces' txids.
CosignsJoinedBatch ==
    pc \in {"submittingNonces", "submittingSignatures"} =>
        /\ current.id \in joined
        /\ vtxoGraph # {}
        /\ \A tx \in vtxoGraph : tx[1] = current.id

\* A vtxo is forfeited to no batch but the one this intent was confirmed in
\* and, when it pays offchain outputs, whose tree this wallet has cosigned.
ForfeitsToJoinedBatch ==
    pc = "submittingForfeits" =>
        \A f \in forfeits :
            /\ f.connector[1] = current.id
            /\ current.id \in joined
            /\ hasOffchainOutputs =>
                   /\ <<current.id, 0>> \in vtxoGraph
                   /\ vtxoGraph \subseteq aggregateNonces

\* Forfeits that pay for offchain outputs are submitted when every
\* transaction of the batch's tree has its signature: "the vtxo tree is
\* signed, craft, sign and submit forfeit transactions".
ForfeitsAfterTreeSigned ==
    (pc = "submittingForfeits" /\ forfeits # {} /\ hasOffchainOutputs) =>
        treeSigs = Server!TreeOf(current.id, VtxoLeaves)

\* Every vtxo of the settlement is forfeited, each with a leaf of the
\* connectors tree of its own.
ForfeitsCoverVtxos ==
    pc = "submittingForfeits" =>
        /\ {f.input : f \in forfeits} = inputs \cap Vtxos
        /\ \A f \in forfeits : f.connector[2] # 0
        /\ \A f, g \in forfeits : f.connector = g.connector => f = g

\* The commitment transaction settle returns is the one that settled its
\* intent: "the settlement is done".
ResultIsSettled ==
    pc = "resolved" => intent = "settled" /\ result \in joined

\* An intent whose settle has thrown does not wait in the server's queue:
\* "delete the intent to not be stuck in the queue".
IntentNotStuck == pc = "rejected" => intent # "queued"

\* The inputs submitted as boarding utxos are boarding utxos: "boarding utxo,
\* we need to sign the settlement tx".
TakesOnlyBoarding == pc = "submittingForfeits" => boarding \subseteq BoardingUtxos

\* Whatever is lost, late, refused, requeued or unrolled: the vtxos are given
\* up once, all for the batch that was joined and, for offchain outputs, cosigned;
\* no other batch settles the intent, and that one only with all of them.
Promise == INSTANCE Swap WITH
    Batch <- Server!Batch,
    asked <- inputs,
    cosigns <- hasOffchainOutputs,
    signed <- {c[1] : c \in aggregateNonces},
    given <- {<<f.input, f.connector[1]>> : f \in forfeits},
    settled <- IF intent = "settled" THEN joined ELSE {},
    over <- pc \in {"deletingIntent"} \cup Ended
SwapSpec == Promise!Spec

\* A settlement that has joined a batch returns or throws.
JoinedEnds == (step # "none") ~> (pc \in Ended)

-----------------------------------------------------------------------------
(* The inductive invariant behind JoinsOnce, CosignsJoinedBatch and          *)
(* ForfeitsToJoinedBatch.                                                    *)

\* A TreeTx is only ever sent to this wallet for a batch it joined.
ForParticipant(e) == e.type = "TreeTx" => e.id \in joined

TopicsRespected ==
    /\ \A i \in 1 .. Len(outbox) : ForParticipant(outbox[i])
    /\ \A i \in 1 .. Len(messageQueue) : ForParticipant(messageQueue[i])
    /\ reader = "handling" => ForParticipant(current)

\* The server's record of the intent follows its phase.
IntentFollowsPhase ==
    /\ intent = "selected" => phase = "confirming"
    /\ intent = "confirmed" => phase # "idle" /\ batch \in joined

\* No batch is joined before the confirmation is answered for.
NothingJoinedYet ==
    (/\ step = "none"
     /\ pc \notin {"deletingIntent"} \cup Ended
     /\ ~Answered("confirming")) => joined = {}

\* Where each await is entered from; the steps only a cosigner goes through.
AwaitsInPlace ==
    /\ pc \in LoopAwaits => reader = "handling"
    /\ pc \in {"idle", "registering", "confirming"} => step = "none"
    /\ pc = "submittingNonces" => step = "BatchStarted"
    /\ pc = "submittingSignatures" => step = "TreeSigningStarted"
    /\ pc \in {"readingCoins", "submittingForfeits"} => step = "TreeNoncesAggregated"
    /\ step \in {"BatchStarted", "TreeSigningStarted"} => hasOffchainOutputs

\* Everything collected comes from a joined batch.
ChunksOfJoined ==
    \A c \in vtxoChunks \cup connectorsChunks \cup vtxoGraph : c[1] \in joined

Cosigning == hasOffchainOutputs /\ step \in {"TreeNoncesAggregated", "BatchFinalization"}

\* Past TreeSigningStarted the session holds a tree with its root, past
\* TreeNoncesAggregated an aggregate nonce for each of its transactions.
TreeBehindStep ==
    /\ (pc = "submittingNonces" \/ step = "TreeSigningStarted" \/ Cosigning) => \E b \in joined : <<b, 0>> \in vtxoGraph
    /\ (pc = "submittingSignatures" \/ Cosigning) => vtxoGraph \subseteq aggregateNonces

\* The connectors in use hang from the commitment tx being finalized.
ConnectorsValidated ==
    pc \in {"readingCoins", "submittingForfeits"} =>
        \A c \in connectorsChunks : c[1] = current.id

IInv ==
    /\ TypeOK
    /\ TopicsRespected
    /\ IntentFollowsPhase
    /\ NothingJoinedYet
    /\ AwaitsInPlace
    /\ ChunksOfJoined
    /\ TreeBehindStep
    /\ ConnectorsValidated
    /\ JoinsOnce
    /\ CosignsJoinedBatch
    /\ ForfeitsToJoinedBatch

-----------------------------------------------------------------------------
(* What the refinement of Swap needs besides IInv. *)

\* The server works from what settle asked for.
OrderTaken ==
    /\ pc = "idle" => intent = "none"
    /\ intent # "none" => order = OrderOf

\* The forfeits are made once, at the end of the loop.
Forfeited ==
    \/ pc \in {"submittingForfeits", "deletingIntent"} \cup Ended
    \/ step = "BatchFinalization"
ForfeitsOnce ==
    /\ inputs = {} <=> pc = "idle"
    /\ forfeits # {} \/ "forfeits" \in received => Forfeited
    /\ \A f \in forfeits : f.input \in inputs \cap Vtxos /\ f.connector[1] \in joined

\* Only the tree of the joined batch is signed, by a wallet that asked for it.
SignedInPlace ==
    aggregateNonces # {} => hasOffchainOutputs /\ \A c \in aggregateNonces : c[1] \in joined

\* What the server has received for its batch is what the wallet signed.
ReceivedInPlace ==
    /\ "signatures" \in received => \E c \in aggregateNonces : c[1] = batch
    /\ "forfeits" \in received => {f.input : f \in forfeits} = order.vtxos
    /\ phase = "finalizing" /\ intent = "confirmed" /\ order.cosigned =>
          "signatures" \in received

SwapInv == IInv /\ OrderTaken /\ ForfeitsOnce /\ SignedInPlace /\ ReceivedInPlace

-----------------------------------------------------------------------------
(* HangsFrom is what create and validate decide about the trees of a batch. *)

\* The chunks of trees with that many leaves, under an output of the commitment
\* transaction <<b>>: each leaf is worth 1, and outputs end with the anchor.
NodesOfTrees(chunks, leaves, output) ==
    [c \in chunks |->
        IF c[2] = 0
        THEN [inputs |-> <<<<<<c[1]>>, output>>>>,
              outputs |-> [i \in 0 .. leaves |-> IF i = leaves THEN 0 ELSE 1],
              children |-> [i \in 0 .. leaves - 1 |-> <<c[1], i + 1>>]]
        ELSE [inputs |-> <<<<<<c[1], 0>>, c[2] - 1>>>>,
              outputs |-> [i \in 0 .. 1 |-> 1 - i],
              children |-> <<>>]]
Commitment(b, leaves) ==
    [txid |-> <<b>>, outputs |-> [i \in 0 .. 1 |-> leaves]]

AcceptsVtxoTree(chunks, b) ==
    \E root \in chunks :
        /\ Creates(NodesOfTrees(chunks, VtxoLeaves, 0), Cardinality(chunks), root)
        /\ ValidatesVtxoTxGraph(NodesOfTrees(chunks, VtxoLeaves, 0), root,
                                Commitment(b, VtxoLeaves))

ConnectorsNodesOf(chunks) == NodesOfTrees(chunks, Server!NbConnectors, 1)
AcceptsConnectors(chunks, b) ==
    \E root \in chunks :
        /\ Creates(ConnectorsNodesOf(chunks), Cardinality(chunks), root)
        /\ ValidatesConnectorsTxGraph(ConnectorsNodesOf(chunks), root,
                                      Commitment(b, Server!NbConnectors))
        /\ LeafTxids(ConnectorsNodesOf(chunks), root) = ConnectorsLeaves

\* Whichever chunks have come, of one batch or of several, with or without their root:
\* they are accepted as a tree of the commitment transaction at hand exactly when
\* HangsFrom says so, and the leaves that pay for forfeits are the tree's.
TreesAccepted ==
    \A b \in Server!Batch :
        /\ HangsFrom(vtxoChunks, b) <=> AcceptsVtxoTree(vtxoChunks, b)
        /\ HangsFrom(connectorsChunks, b) <=> AcceptsConnectors(connectorsChunks, b)

\* The transactions of a tree are numbered from its root to its last leaf.
Leaves(tree) == IF tree = "vtxo" THEN VtxoLeaves ELSE Server!NbConnectors
InTree(e) == e.type = "TreeTx" => e.node \in 0 .. Leaves(e.tree)
NumberedInTree ==
    /\ \A i \in 1 .. Len(outbox) : InTree(outbox[i])
    /\ \A i \in 1 .. Len(messageQueue) : InTree(messageQueue[i])
    /\ reader = "handling" => InTree(current)
    /\ \A c \in vtxoChunks : c[2] <= VtxoLeaves
    /\ \A c \in connectorsChunks : c[2] <= Server!NbConnectors
    /\ intent = "none" => joined = {}
==============================================================================
