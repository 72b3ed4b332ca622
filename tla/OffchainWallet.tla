---------------------------- MODULE OffchainWallet ----------------------------
(***************************************************************************)
(* Sending and settling of Wallet (src/src/wallet/wallet.ts) and Ramps     *)
(* (ramps.ts) as seen by the wallet's coins: calls run concurrently, read  *)
(* the coins, and use them when others may have spent them.  A send is two *)
(* requests, submitTx and finalizeTx; nothing is persisted between them.   *)
(* settle's protocol is the module Settlement: here a batch settles its    *)
(* inputs or does not.                                                     *)
(*                                                                         *)
(* External: the Ark server keeps the vtxos, reserves the inputs of a      *)
(* submitted transaction until it is finalized, and makes outputs below    *)
(* the dust limit recoverable, as swept ones.  A batch settles and pays    *)
(* many at once, the wallet among them more than once; when it expires the *)
(* server sweeps what hangs from it.                                       *)
(***************************************************************************)
EXTENDS TransactionHistory

CONSTANTS
    Call,           \* concurrent calls
    Amounts,        \* amounts asked for
    Incomes,        \* values received
    Expiries,       \* expiries of received vtxos; 0 is a missing one
    DustAmount,
    MaxTx,          \* bound: transactions ever
    MaxFaults       \* bound: requests that fail, crashes

ASSUME OffchainAssumption ==
    /\ Amounts \subseteq Nat \ {0} /\ Incomes \subseteq Nat \ {0}
    /\ Expiries \subseteq Nat /\ DustAmount \in Nat
    /\ MaxTx \in Nat /\ MaxFaults \in Nat

VARIABLES
    vtxos,      \* the wallet's, ever
    boarding,   \* utxos of its boarding address, ever
    call,       \* state of each call
    reserved,   \* inputs of transactions submitted and not final
    moved,      \* calls whose transaction took effect
    txs,        \* number of transactions
    batch,      \* the batch of the last steps, as long as more of it may follow; 0 if none
    faults,
    unusual     \* history: something the inferred history does not account for

vars == <<vtxos, boarding, call, reserved, moved, txs, batch, faults, unusual>>

TxIds == 1 .. MaxTx
SpentBy == 0 .. MaxTx

VtxoType ==
    [txid : TxIds, vout : 0 .. 2, value : Nat \ {0}, expiry : Expiries \cup {0},
     state : {"settled", "preconfirmed", "swept"}, commitments : SUBSET TxIds,
     settledBy : SpentBy, arkTxId : SpentBy]
UtxoType == [txid : TxIds, value : Nat \ {0}, settledBy : SpentBy]

\* Values of the outputs: to an address of somebody, to the wallet's own
\* offchain address, to its boarding address.
Outputs == [out : Nat, vtxo : Nat, utxo : Nat]
CallType ==
    [pc : {"idle", "signing", "submitted", "settling", "returned", "threw"},
     toSelf : BOOLEAN, listed : SUBSET VtxoType, inputs : SUBSET VtxoType,
     utxos : SUBSET UtxoType, outputs : Outputs]
Idle == [pc |-> "idle", toSelf |-> FALSE, listed |-> {}, inputs |-> {},
         utxos |-> {}, outputs |-> [out |-> 0, vtxo |-> 0, utxo |-> 0]]

SameOutpoint(v, w) == v.txid = w.txid /\ v.vout = w.vout

\* The outpoints are unique, the coins a call holds were listed, and only
\* unspent vtxos are reserved.
TypeOK ==
    /\ vtxos \subseteq VtxoType /\ boarding \subseteq UtxoType
    /\ \A v, w \in vtxos : SameOutpoint(v, w) => v = w
    /\ call \in [Call -> CallType]
    /\ \A c \in Call : \A v \in call[c].inputs : \E w \in vtxos : SameOutpoint(v, w)
    /\ reserved \subseteq {v \in vtxos : IsSpendable(v)}
    /\ moved \subseteq Call
    /\ txs \in 0 .. MaxTx /\ batch \in SpentBy /\ faults \in 0 .. MaxFaults /\ unusual \in BOOLEAN

-----------------------------------------------------------------------------
Init ==
    /\ vtxos = {} /\ boarding = {} /\ reserved = {} /\ moved = {}
    /\ call = [c \in Call |-> Idle]
    /\ txs = 0 /\ batch = 0 /\ faults = 0 /\ unusual = FALSE

\* getVirtualCoins; the recoverable ones are swept.
Spendable == {v \in vtxos : IsSpendable(v) /\ v.state # "swept"}
Recoverable == {v \in vtxos : IsSpendable(v) /\ v.state = "swept"}
Unspent(coins) == {u \in coins : u.settledBy = 0}

\* getBalance
Balance == Value(Spendable \cup Recoverable) + Value(Unspent(boarding))

Goes(c, pc) == call' = [call EXCEPT ![c].pc = pc]
Throw(c) == Goes(c, "threw")
Fault == faults < MaxFaults /\ faults' = faults + 1

-----------------------------------------------------------------------------
\* Faulty: a change below the dust limit is not worth an output.
ChangeAboveDust(coins, amount) ==
    IF Value(coins) - amount < DustAmount THEN 0 ELSE Value(coins) - amount

ChangeOf(coins, amount) == Value(coins) - amount

\* sendBitcoin, up to the request: the coins are listed and selected.

SendBitcoin(c) ==
    /\ call[c].pc = "idle"
    /\ \E amount \in Amounts, toSelf \in BOOLEAN :
       \E coins \in SelectVirtualCoins(Spendable, amount) :
          IF Value(coins) < amount THEN Throw(c)
          ELSE call' = [call EXCEPT ![c] =
                  [pc |-> "signing", toSelf |-> toSelf, listed |-> Spendable,
                   inputs |-> coins, utxos |-> {}, outputs |->
                     [out |-> amount, vtxo |-> ChangeOf(coins, amount), utxo |-> 0]]]
    /\ UNCHANGED <<vtxos, boarding, reserved, moved, txs, batch, faults, unusual>>

\* The server takes what is neither spent nor reserved.
Free(c) ==
    /\ call[c].inputs \subseteq vtxos \ reserved
    /\ call[c].utxos \subseteq boarding

\* submitTx; its answer may be lost.
Submit(c) ==
    /\ call[c].pc = "signing"
    /\ IF ~Free(c) THEN Throw(c) /\ UNCHANGED <<reserved, faults>>
       ELSE /\ reserved' = reserved \cup call[c].inputs
            /\ \/ Goes(c, "submitted") /\ UNCHANGED faults
               \/ Throw(c) /\ Fault
    /\ UNCHANGED <<vtxos, boarding, moved, txs, batch, unusual>>

Vtxo(txid, vout, value, state, commitments, expiry) ==
    [txid |-> txid, vout |-> vout, value |-> value, expiry |-> expiry, state |-> state,
     commitments |-> commitments, settledBy |-> 0, arkTxId |-> 0]

Earliest(coins) ==
    LET known == {v.expiry : v \in coins} \ {0} IN IF known = {} THEN 0 ELSE Min(known)

\* The vtxos of the ark transaction txid: they hang from the batches of its inputs.
Created(c, txid) ==
    LET own == IF call[c].toSelf
               THEN <<call[c].outputs.out, call[c].outputs.vtxo>>
               ELSE <<0, call[c].outputs.vtxo>>
    IN  {Vtxo(txid, i, own[i], IF own[i] < DustAmount THEN "swept" ELSE "preconfirmed",
              UNION {v.commitments : v \in call[c].inputs}, Earliest(call[c].inputs)) :
            i \in {j \in 1 .. 2 : own[j] > 0}}

PaidBy(coins, txid) == {[v EXCEPT !.arkTxId = txid] : v \in coins}
SettledBy(coins, txid) == {[v EXCEPT !.settledBy = txid] : v \in coins}

\* finalizeTx; its answer may be lost.
Finalize(c) ==
    /\ call[c].pc = "submitted" /\ txs < MaxTx
    /\ LET created == Created(c, txs + 1) IN
          /\ vtxos' = (vtxos \ call[c].inputs)
                        \cup PaidBy(call[c].inputs, txs + 1) \cup created
          /\ unusual' = (unusual \/ Cardinality(created) = 2
                                 \/ \E v \in created : v.state = "swept")
    /\ reserved' = reserved \ call[c].inputs
    /\ txs' = txs + 1 /\ batch' = 0 /\ moved' = moved \cup {c}
    /\ \/ Goes(c, "returned") /\ UNCHANGED faults
       \/ Throw(c) /\ Fault
    /\ UNCHANGED boarding

-----------------------------------------------------------------------------
\* settle() of everything, Ramps.onboard and Ramps.offboard choose the coins,
\* and what is not asked for comes back to the wallet.  Without an amount, all
\* of it is.
SettleWith(c, utxos, coins, outputs) ==
    call' = [call EXCEPT ![c] =
        [pc |-> "settling", toSelf |-> FALSE, listed |-> {}, inputs |-> coins,
         utxos |-> utxos, outputs |-> outputs]]

SettleAll(c) ==
    /\ call[c].pc = "idle"
    /\ LET coins == Spendable \cup Recoverable
           utxos == Unspent(boarding)
       IN  IF coins \cup utxos = {} THEN Throw(c)
           ELSE SettleWith(c, utxos, coins,
                           [out |-> 0, vtxo |-> Value(coins) + Value(utxos), utxo |-> 0])
    /\ UNCHANGED <<vtxos, boarding, reserved, moved, txs, batch, faults, unusual>>

\* Faulty: the amount is not compared with the coins.
ExceedsNever(amount, total) == FALSE

Exceeds(amount, total) == amount > total

Onboard(c) ==
    /\ call[c].pc = "idle"
    /\ LET total == Value(Unspent(boarding)) IN
       \E amount \in Amounts \cup {total} :
          IF Exceeds(amount, total) THEN Throw(c)
          ELSE SettleWith(c, Unspent(boarding), {},
                          [out |-> 0, vtxo |-> amount, utxo |-> total - amount])
    /\ UNCHANGED <<vtxos, boarding, reserved, moved, txs, batch, faults, unusual>>

Offboard(c) ==
    /\ call[c].pc = "idle"
    /\ LET coins == Spendable \cup Recoverable IN
       \E amount \in Amounts \cup {Value(coins)} :
          IF Exceeds(amount, Value(coins)) THEN Throw(c)
          ELSE SettleWith(c, {}, coins, [out |-> amount, vtxo |-> Value(coins) - amount, utxo |-> 0])
    /\ UNCHANGED <<vtxos, boarding, reserved, moved, txs, batch, faults, unusual>>

\* A batch is one commitment transaction for all that take part, here one
\* after the other: the next one's is new, or that of the last steps.
Commitments == {txs + 1} \cup ({batch} \ {0})

\* The transaction of a leaf, in the tree of this commitment transaction.
Leaf(commitment) == IF commitment = txs + 1 THEN txs + 2 ELSE txs + 1

\* The leaves of a batch expire together.
Expiry(commitment) ==
    {expiry \in Expiries : \A v \in vtxos : v.commitments = {commitment} => v.expiry = expiry}

SettledIn(commitment) == \E v \in vtxos \cup boarding : v.settledBy = commitment

\* A batch settles the intent: the commitment transaction and the leaf of the
\* wallet's new vtxo.  It does not settle what it makes.  The call may miss it.
BatchSettles(c) ==
    /\ call[c].pc = "settling" /\ Free(c)
    /\ call[c].inputs \cup call[c].utxos # {}
    /\ \E commitment \in Commitments : \E expiry \in Expiry(commitment) :
       LET leaf == Leaf(commitment)
           o == call[c].outputs
       IN  /\ leaf <= MaxTx
           /\ \A v \in call[c].inputs : commitment \notin v.commitments
           /\ \A u \in boarding : u.txid = commitment => u \notin call[c].utxos /\ o.utxo = 0
           /\ vtxos' = (vtxos \ call[c].inputs) \cup SettledBy(call[c].inputs, commitment)
                \cup (IF o.vtxo = 0 THEN {}
                      ELSE {Vtxo(leaf, 1, o.vtxo, "settled", {commitment}, expiry)})
           /\ boarding' = (boarding \ call[c].utxos) \cup SettledBy(call[c].utxos, commitment)
                \cup (IF o.utxo = 0 THEN {}
                      ELSE {[txid |-> commitment, value |-> o.utxo, settledBy |-> 0]})
           /\ txs' = leaf /\ batch' = commitment
           /\ unusual' = (unusual \/ o.utxo # 0 \/ commitment = batch)
    /\ moved' = moved \cup {c}
    /\ \/ Goes(c, "returned") /\ UNCHANGED faults
       \/ Throw(c) /\ Fault
    /\ UNCHANGED reserved

Refused(c) ==
    /\ call[c].pc = "settling"
    /\ ~Free(c) \/ call[c].inputs \cup call[c].utxos = {}
    /\ Throw(c)
    /\ UNCHANGED <<vtxos, boarding, reserved, moved, txs, batch, faults, unusual>>

\* A request fails, a batch fails, or the process ends.
Interrupted(c) ==
    /\ call[c].pc \in {"signing", "submitted", "settling"}
    /\ Throw(c) /\ Fault
    /\ UNCHANGED <<vtxos, boarding, reserved, moved, txs, batch, unusual>>

-----------------------------------------------------------------------------
\* External: payments to the wallet's address, in a batch or by an ark
\* transaction below one, and to its boarding address.
Receive ==
    /\ \E commitment \in Commitments : \E value \in Incomes, expiry \in Expiry(commitment) :
       LET leaf == Leaf(commitment) IN
          /\ leaf <= MaxTx /\ txs' = leaf
          /\ \/ /\ vtxos' = vtxos \cup {Vtxo(leaf, 0, value, "settled", {commitment}, expiry)}
                /\ batch' = commitment
                /\ unusual' = (unusual \/ SettledIn(commitment))
             \/ /\ vtxos' = vtxos \cup {Vtxo(leaf, 0, value, "preconfirmed", {commitment}, expiry)}
                /\ batch' = 0
                /\ UNCHANGED unusual
    /\ UNCHANGED <<boarding, call, reserved, moved, faults>>

Board ==
    /\ txs < MaxTx /\ txs' = txs + 1 /\ batch' = 0
    /\ \E value \in Incomes :
          boarding' = boarding \cup {[txid |-> txs + 1, value |-> value, settledBy |-> 0]}
    /\ UNCHANGED <<vtxos, call, reserved, moved, faults, unusual>>

\* External: the batch expired and the server swept what hangs from it and is
\* not spent.  A call that holds such a vtxo as it was is refused.
Sweep(commitment) ==
    LET expired == {v \in vtxos \ reserved :
                       IsSpendable(v) /\ v.state # "swept" /\ commitment \in v.commitments}
    IN  /\ expired # {}
        /\ vtxos' = (vtxos \ expired) \cup {[v EXCEPT !.state = "swept"] : v \in expired}
        /\ unusual' = (unusual \/ \E v \in expired : v.state = "preconfirmed")
        /\ batch' = 0
        /\ UNCHANGED <<boarding, call, reserved, moved, txs, faults>>

Next ==
    \/ \E c \in Call :
          \/ SendBitcoin(c) \/ Submit(c) \/ Finalize(c)
          \/ SettleAll(c) \/ Onboard(c) \/ Offboard(c)
          \/ BatchSettles(c) \/ Refused(c) \/ Interrupted(c)
    \/ Receive \/ Board \/ \E commitment \in TxIds : Sweep(commitment)

Spec == Init /\ [][Next]_vars

-----------------------------------------------------------------------------
\* What each call takes out of the wallet (sendBitcoin, offboard): a call that
\* throws, loses an answer or races another has moved exactly this or nothing,
\* one that returns has, and the rest of its inputs came back as change.
Asked(c) == IF call[c].toSelf THEN 0 ELSE call[c].outputs.out
Abstract == INSTANCE Transfer WITH
    balance <- Balance, asked <- [c \in Call |-> Asked(c)],
    returned <- {c \in Call : call[c].pc = "returned"}
TransferSpec == Abstract!Spec

\* selectVirtualCoins "prioritizing those closer to expiry" (wallet.ts:1280):
\* a coin used in a payment never expires later than one the wallet had and
\* kept, and the payment needs the coin that expires last.
SoonestAreSpent ==
    \A c \in Call : call[c].pc \in {"signing", "submitted"} =>
        /\ \A v \in call[c].inputs, w \in call[c].listed \ call[c].inputs : ~Expires(w, v)
        /\ \E v \in call[c].inputs :
              /\ \A w \in call[c].inputs : ~Expires(v, w)
              /\ Value(call[c].inputs \ {v}) < call[c].outputs.out

\* getTransactionHistory infers receipts and payments from the coins: whatever
\* the order the indexer lists them in, what was received less what was sent is
\* the wallet's balance, change and refreshed coins counting for neither.
HistoryBalances ==
    ~unusual =>
        LET live == {v \in vtxos : IsSpendable(v)}
        IN  \A s \in SetToSeqs(live), t \in SetToSeqs(vtxos \ live) :
               HistoryTotal(s, t, boarding) = Balance

-----------------------------------------------------------------------------
\* What an inductive invariant says.  The wallet's coins are finitely many and
\* were made by transactions that were.
CoinsKnown ==
    /\ IsFiniteSet(vtxos) /\ IsFiniteSet(boarding)
    /\ \A v \in vtxos \cup boarding : v.txid <= txs
    /\ batch <= txs

\* What a call takes is what it pays and gets back; its coins were unspent when
\* it listed them, only vtxos are offboarded, and nothing of it has moved while
\* it has not ended.
CallsBalance ==
    \A c \in Call :
        /\ IsFiniteSet(call[c].inputs) /\ IsFiniteSet(call[c].utxos)
        /\ \A v \in call[c].inputs : IsSpendable(v)
        /\ \A u \in call[c].utxos : u.settledBy = 0
        /\ Value(call[c].inputs) + Value(call[c].utxos)
              = call[c].outputs.out + call[c].outputs.vtxo + call[c].outputs.utxo
        /\ call[c].pc = "idle" => call[c] = Idle
        /\ call[c].pc \notin {"returned", "threw"} => c \notin moved
        /\ call[c].pc \in {"signing", "submitted"} => call[c].utxos = {} /\ call[c].outputs.utxo = 0
        /\ call[c].pc = "settling" =>
              ~call[c].toSelf /\ (call[c].utxos = {} \/ call[c].outputs.out = 0)

\* The server holds the inputs of what was submitted, for one call.
InputsReserved ==
    \A c \in Call : call[c].pc = "submitted" =>
        /\ call[c].inputs \subseteq reserved
        /\ \A d \in Call \ {c} : call[d].pc = "submitted" => call[c].inputs \cap call[d].inputs = {}

IInv == TypeOK /\ CoinsKnown /\ CallsBalance /\ InputsReserved /\ SoonestAreSpent

\* The transaction a vtxo answers for: the batch it is a leaf of, or the payment
\* that made it; and the one that spent a coin, 0 if none has.
IsLeaf(v) == v.state # "preconfirmed"
Origin(v) == IF IsLeaf(v) THEN CHOOSE txid \in v.commitments : TRUE ELSE v.txid
Spender(v) == v.settledBy + v.arkTxId

\* A coin is settled or paid with, by a transaction that was made.
SpentOnce ==
    /\ \A v \in vtxos : v.settledBy <= txs /\ v.arkTxId <= txs /\ 0 \in {v.settledBy, v.arkTxId}
    /\ \A u \in boarding : u.settledBy <= txs

Spenders == {Spender(v) : v \in vtxos} \cup {u.settledBy : u \in boarding}
Batches == {Origin(v) : v \in {w \in vtxos : IsLeaf(w)}}
             \cup ({v.settledBy : v \in vtxos \cup boarding} \ {0})
Payments == {v.txid : v \in {w \in vtxos : ~IsLeaf(w)}}
              \cup ({v.arkTxId : v \in vtxos} \ {0})
Leaves == {v.txid : v \in {w \in vtxos : IsLeaf(w)}}

\* What the history can tell of a coin: batches, payments and leaves are told
\* apart, and one that spent coins of the wallet made at most one of its vtxos.
OriginsTold ==
    /\ \A v \in vtxos : IsLeaf(v) => v.commitments = {Origin(v)} /\ Origin(v) < v.txid
    /\ \A v, w \in vtxos : Origin(v) = Origin(w) /\ Origin(v) \in Spenders => v = w
    /\ Batches \cap Payments = {} /\ Leaves \cap (Batches \cup Payments) = {}
    /\ batch \in Batches \cup {0}

\* A batch that settled boarding utxos gave their value, and its vtxos', back.
BoardingComesBack ==
    \A txid \in BoardingBatches(boarding) :
        Value({v \in vtxos : Origin(v) = txid})
          = Value({v \in vtxos : v.settledBy = txid}) + Value({u \in boarding : u.settledBy = txid})

HistoryInv == SpentOnce /\ (~unusual => OriginsTold /\ BoardingComesBack)
==============================================================================
