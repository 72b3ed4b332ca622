------------------------------ MODULE ArkServer ------------------------------
(***************************************************************************)
(* The Ark server as the SDK sees it: the code is not part of this         *)
(* repository, so every definition here is external, reconstructed from    *)
(* the requests RestArkProvider sends, the events parseSettlementEvent     *)
(* reads and the order the guards of Wallet.settle expect them in.         *)
(*                                                                         *)
(* Batches run one after the other.  One intent is of interest, the one    *)
(* this wallet registers; the other participants only show in that a batch *)
(* may run without this wallet.  Batch b has one commitment transaction,   *)
(* named b.  Its trees are a root, node 0, and leaves 1, 2, ...; a node of *)
(* batch b's tree is the pair <<b, n>>.                                    *)
(*                                                                         *)
(* Events with a topic (TreeTx, TreeSignature) reach this wallet only for  *)
(* a batch it takes part in.                                               *)
(***************************************************************************)
EXTENDS Naturals, Sequences, FiniteSets

CONSTANTS
    MaxBatch,       \* the server runs batches 1 .. MaxBatch
    VtxoLeaves,     \* leaves of a batch's vtxo tree
    Vtxos,          \* the inputs that must be forfeited
    Requeue         \* an intent its batch leaves behind is queued again

Batch == 1 .. MaxBatch
Node == Nat
Chunk == Batch \X Node

TreeOf(b, leaves) == {b} \X (0 .. leaves)
LeavesOf(b, leaves) == {b} \X (1 .. leaves)

PlainEvents ==
    {"BatchFailed", "TreeSigningStarted", "TreeNoncesAggregated",
     "BatchFinalization", "BatchFinalized"}
SettlementEvent ==
    [type : PlainEvents, id : Batch]
        \cup [type : {"BatchStarted"}, id : Batch, ours : BOOLEAN]
        \cup [type : {"TreeTx"}, id : Batch, tree : {"vtxo", "connectors"}, node : Node]
        \cup [type : {"TreeSignature"}, id : Batch, node : Node]

VARIABLES
    batch,          \* the last batch started, 0 before the first
    phase,          \* what the current batch is waiting for
    intent,         \* this wallet's intent
    order,          \* what the intent asks for
    joined,         \* batches this wallet's intent was confirmed in
    received,       \* what the wallet has submitted to the current batch
    outbox          \* events the current batch is still to emit

serverVars == <<batch, phase, intent, order, joined, received, outbox>>

\* cosigned: an output goes to the vtxo tree; vtxos: inputs to forfeit;
\* boarding: some input is an onchain output the wallet signs for.
Order == [cosigned : BOOLEAN, vtxos : SUBSET Vtxos, boarding : BOOLEAN]

ServerTypeOK ==
    /\ batch \in 0 .. MaxBatch
    /\ phase \in {"idle", "confirming", "signing", "aggregated", "finalizing"}
    /\ phase # "idle" => batch # 0
    /\ intent \in {"none", "queued", "selected", "confirmed", "settled", "dropped", "deleted"}
    /\ order \in Order
    /\ joined \subseteq Batch
    /\ received \subseteq {"nonces", "signatures", "forfeits"}
    /\ outbox \in Seq(SettlementEvent)

ServerInit ==
    /\ batch = 0
    /\ phase = "idle"
    /\ intent = "none"
    /\ order = [cosigned |-> FALSE, vtxos |-> {}, boarding |-> FALSE]
    /\ joined = {}
    /\ received = {}
    /\ outbox = <<>>

Taking(what) == intent = "confirmed" /\ what
NbConnectors == Cardinality(order.vtxos)

TreeTxs(tree, leaves) ==
    [n \in 1 .. (leaves + 1) |->
        [type |-> "TreeTx", id |-> batch, tree |-> tree, node |-> n - 1]]
TreeSignatures ==
    [n \in 1 .. (VtxoLeaves + 1) |->
        [type |-> "TreeSignature", id |-> batch, node |-> n - 1]]
Plain(type) == <<[type |-> type, id |-> batch]>>

-----------------------------------------------------------------------------
(* The life of a batch. *)

StartBatch ==
    /\ phase = "idle" /\ outbox = <<>>
    /\ batch < MaxBatch
    /\ \E ours \in BOOLEAN :
        /\ ours => intent = "queued"
        /\ intent' = IF ours THEN "selected" ELSE intent
        /\ outbox' = <<[type |-> "BatchStarted", id |-> batch + 1, ours |-> ours]>>
    /\ batch' = batch + 1
    /\ phase' = "confirming"
    /\ received' = {}
    /\ UNCHANGED <<order, joined>>

LeftBehind == IF Requeue THEN "queued" ELSE "dropped"

\* The confirmation window closes: the batch goes on with who confirmed.
CloseConfirmation ==
    /\ phase = "confirming" /\ outbox = <<>>
    /\ phase' = "signing"
    /\ intent' = IF intent = "selected" THEN LeftBehind ELSE intent
    /\ outbox' = (IF Taking(order.cosigned) THEN TreeTxs("vtxo", VtxoLeaves) ELSE <<>>)
                     \o Plain("TreeSigningStarted")
    /\ UNCHANGED <<batch, order, joined, received>>

AggregateNonces ==
    /\ phase = "signing" /\ outbox = <<>>
    /\ Taking(order.cosigned) => "nonces" \in received
    /\ phase' = "aggregated"
    /\ outbox' = Plain("TreeNoncesAggregated")
    /\ UNCHANGED <<batch, intent, order, joined, received>>

\* The vtxo tree is signed: its signatures go out, then the connectors.
StartFinalization ==
    /\ phase = "aggregated" /\ outbox = <<>>
    /\ Taking(order.cosigned) => "signatures" \in received
    /\ phase' = "finalizing"
    /\ outbox' = (IF Taking(order.cosigned) THEN TreeSignatures ELSE <<>>)
                     \o (IF Taking(order.vtxos # {})
                         THEN TreeTxs("connectors", NbConnectors) ELSE <<>>)
                     \o Plain("BatchFinalization")
    /\ UNCHANGED <<batch, intent, order, joined, received>>

EndBatch ==
    /\ phase = "finalizing" /\ outbox = <<>>
    /\ Taking(order.vtxos # {} \/ order.boarding) => "forfeits" \in received
    /\ phase' = "idle"
    /\ intent' = IF intent = "confirmed" THEN "settled" ELSE intent
    /\ outbox' = Plain("BatchFinalized")
    /\ UNCHANGED <<batch, order, joined, received>>

\* A participant was late or wrong, or the server gave up.
FailBatch ==
    /\ phase # "idle"
    /\ phase' = "idle"
    /\ intent' = IF intent \in {"selected", "confirmed"} THEN LeftBehind ELSE intent
    /\ outbox' = outbox \o Plain("BatchFailed")
    /\ UNCHANGED <<batch, order, joined, received>>

\* The oldest event leaves the server.
Emit ==
    /\ outbox # <<>>
    /\ outbox' = Tail(outbox)
    /\ UNCHANGED <<batch, phase, intent, order, joined, received>>

BatchStep ==
    StartBatch \/ CloseConfirmation \/ AggregateNonces \/ StartFinalization
        \/ EndBatch \/ FailBatch

-----------------------------------------------------------------------------
(* The requests it accepts; any request may be refused instead. *)

RegisterIntent(o) ==
    /\ intent = "none"
    /\ intent' = "queued"
    /\ order' = o
    /\ UNCHANGED <<batch, phase, joined, received, outbox>>

\* The request names the intent, not the batch.
ConfirmRegistration ==
    /\ phase = "confirming"
    /\ intent = "selected"
    /\ intent' = "confirmed"
    /\ joined' = joined \cup {batch}
    /\ UNCHANGED <<batch, phase, order, received, outbox>>

Submit(what) ==
    /\ intent = "confirmed"
    /\ received' = received \cup {what}
    /\ UNCHANGED <<batch, phase, intent, order, joined, outbox>>

SubmitTreeNonces(id, nodes) ==
    /\ phase = "signing" /\ id = batch
    /\ nodes = TreeOf(batch, VtxoLeaves)
    /\ Submit("nonces")

SubmitTreeSignatures(id, nodes) ==
    /\ phase = "aggregated" /\ id = batch
    /\ nodes = TreeOf(batch, VtxoLeaves)
    /\ Submit("signatures")

SubmitForfeits(forfeits, signsBoarding) ==
    /\ phase = "finalizing"
    /\ {f.input : f \in forfeits} = order.vtxos
    /\ {f.connector : f \in forfeits} \subseteq LeavesOf(batch, NbConnectors)
    /\ Cardinality({f.connector : f \in forfeits}) = NbConnectors
    /\ order.boarding => signsBoarding
    /\ Submit("forfeits")

DeleteIntent ==
    /\ intent = "queued"
    /\ intent' = "deleted"
    /\ UNCHANGED <<batch, phase, order, joined, received, outbox>>
==============================================================================
