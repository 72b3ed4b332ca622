-------------------------- MODULE TransactionHistory --------------------------
(***************************************************************************)
(* vtxosToTxs (src/src/utils/transactionHistory.ts) and getBoardingTxs     *)
(* (src/src/wallet/wallet.ts): the history of a wallet is not recorded, it *)
(* is inferred from the vtxos the indexer lists and the transactions of    *)
(* the boarding address.                                                   *)
(*                                                                         *)
(* A vtxo has the fields convertVtxo gives it; 0 is a missing transaction. *)
(***************************************************************************)
EXTENDS CoinSelection, SequencesExt

IsSpendable(v) == v.settledBy = 0 /\ v.arkTxId = 0

\* Faulty: the coins spent in payments are not looked at.
SpentInNoPayment(vtxos, vtxo) == {}

\* findVtxosSpentInSettlement, findVtxosSpentInPayment
SpentInSettlement(vtxos, vtxo) ==
    {v \in vtxos : vtxo.state # "preconfirmed" /\ v.settledBy \in vtxo.commitments}
SpentInPayment(vtxos, vtxo) == {v \in vtxos : v.arkTxId = vtxo.txid}

\* findVtxosResultedFromTxid
ResultedFrom(vtxos, txid) ==
    {v \in vtxos : v.txid = txid \/ (v.state # "preconfirmed" /\ txid \in v.commitments)}

\* Boarding utxos, spent ones included, are receipts; the batches that spent
\* them are not looked at again.
BoardingBatches(boarding) == {u.settledBy : u \in boarding} \ {0}

\* Spent coins that explain a vtxo, as a settlement's inputs or a payment's,
\* explain no other; what they do not explain of it was received.
Explain(acc, vtxo, boardingBatches) ==
    LET settled == SpentInSettlement(acc.left, vtxo)
        paid == IF vtxo.value <= Value(settled) THEN {}
                ELSE SpentInPayment(acc.left \ settled, vtxo)
        left == acc.left \ (settled \cup paid)
    IN  IF vtxo.state # "preconfirmed" /\ vtxo.commitments \cap boardingBatches # {}
        THEN acc
        ELSE IF vtxo.value <= Value(settled) \/ vtxo.value <= Value(paid)
        THEN [acc EXCEPT !.left = left]
        ELSE [left |-> left,
              txs |-> Append(acc.txs, [txid |-> vtxo.txid,
                         amount |-> vtxo.value - Value(settled) - Value(paid)])]

\* The vtxos are taken in the order they come.
Received(vtxos, spent, boardingBatches) ==
    FoldLeft(LAMBDA acc, vtxo : Explain(acc, vtxo, boardingBatches),
             [left |-> spent, txs |-> <<>>], vtxos).txs

\* What each settlement or payment took from the wallet, less what it gave back.
Sent(vtxos, spent) ==
    LET Cost(txid) == Value({v \in spent : txid = v.settledBy \/ txid = v.arkTxId})
                        - Value(ResultedFrom(vtxos, txid))
        txids == {v.settledBy : v \in spent} \cup {v.arkTxId : v \in spent}
    IN  {[txid |-> txid, amount |-> Cost(txid)] : txid \in {t \in txids \ {0} : Cost(t) > 0}}

\* The sum of getTransactionHistory, for vtxos listed in this order.
HistoryTotal(spendable, spent, boarding) ==
    LET all == spendable \o spent
        receipts == Received(all, ToSet(spent), BoardingBatches(boarding))
    IN  Value(boarding)
          + FoldLeft(LAMBDA sum, tx : sum + tx.amount, 0, receipts)
          - MapThenSumSet(LAMBDA tx : tx.amount, Sent(ToSet(all), ToSet(spent)))
==============================================================================
