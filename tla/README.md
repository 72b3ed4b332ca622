# Verification of the Ark TypeScript SDK

TLA+ modules, TLC configurations and TLAPS proofs about the wallet SDK of this
repository (`src/`, TypeScript). Paths below are relative to the repository.
`PROJECT.json` lists the components, the runs, the source lines every definition
models, the hazards and the theorems.

## 1. The system

The SDK is a client library: a wallet for virtual outputs (vtxos) that live in the
trees of an Ark server's *batches*. All concurrency is that of JavaScript (one
thread; everything may happen at an `await`), plus the server, the Bitcoin network
and, in a browser, a service worker that hosts the wallet.

| Component | Code | State | Operations | Must be true |
|---|---|---|---|---|
| Settlement | `src/wallet/wallet.ts` `settle` | locals of one call: `step`, `roundId`, chunks, graphs | one `switch` case per server event | one batch is joined; nonces, signatures and forfeits go only to it; forfeits only once the new tree is signed; it ends |
| Event stream | `src/providers/utils.ts`, `src/providers/ark.ts` `getEventStream` | two queues, an EventSource, an abort signal | listeners, `next()`, abort | nothing lost or reordered; nobody waits on a dead source |
| Tree signer session | `src/tree/signingSession.ts` | tree, secret nonces, aggregate nonces | `init`, `getNonces`, `setAggregatedNonces`, `sign` | nonces and signatures are for the tree of the joined batch |
| Tx tree | `src/tree/txTree.ts`, `validation.ts` | a tree of transactions | `create`, `validate`, `leaves`, `find`, `update` | accepts exactly the trees that hang from the commitment tx |
| Ark server | not in the repository | batches, intents | REST requests, events | (environment) |
| Unilateral exit | `src/wallet/unroll.ts` | position in a chain of transactions | `next`, `do`, `completeUnroll` | parents before children; done means confirmed |
| Onchain wallet | `src/wallet/onchain.ts` | none | `selectCoins`, `send`, `bumpP2A` | value is conserved, no dust change |
| Onchain provider | `src/providers/onchain.ts` | websocket / polling state | tx status, broadcast, tip, watching | each tx reported once |
| Offchain send | `wallet.ts` `sendBitcoin`, `selectVirtualCoins` | none persisted | `submitTx`, `finalizeTx` | a call moves its amount at most once, and has when it returns; coins closest to expiry go first |
| Incoming funds | `wallet.ts` `notifyIncomingFunds`, `waitForIncomingFunds`; `onchain.ts` `watchAddresses` | stop functions | subscribe, stop | every watch is stopped |
| Service worker | `src/wallet/serviceWorker/` | wallet, providers, subscription | one handler per request | an answer for each request, of that request; the store follows the indexer |
| Vtxo repository | `serviceWorker/db/vtxo/idb.ts` | an IndexedDB handle | open, close, add, get | a vtxo is never overwritten by an older state of it; a closed store refuses |
| Transaction history | `src/utils/transactionHistory.ts` | none | `vtxosToTxs` | no vtxo counted twice |
| Ramps | `src/wallet/ramps.ts` | none | `onboard`, `offboard` | the amount asked for moves, the rest comes back |
| Encoders, scripts, keys | `src/script`, `src/bip322`, `src/musig2`, `src/arknote`, ... | none | | out of scope: stateless byte formats and cryptography |

How they interact. `settle` sends REST requests to the server and reads its
events through the generator `getEventStream`; while it awaits a request's
answer, events keep queueing. The EventSource under the generator reconnects by
itself, and events emitted in the gap are gone. `TreeSignerSession` is called
from the handlers of two events. The service worker calls `settle` on behalf of a
page and forwards its events. An unroll session reads the explorer, takes coins of the
onchain wallet for its fees and shares transactions with other sessions; `completeUnroll`
spends what they brought out. Every caller of the wallet's coins reads them in one request
and uses them in a later one, with no lock in between.

What is hard to test, all listed in `PROJECT.json` under `hazards` at its line:
events lost in a reconnection gap; errors that race messages; a confirmation
that arrives in a later batch than the one it was sent for; lost answers; the
wallet's coins read twice with a batch in between; coins chosen by two calls at once; an
explorer that lags behind the chain; polls that overlap; a stop function that finds things
half-started; a service worker stopped between two steps; no timeout anywhere.

## 2. Modules

| Module | Models | Composes |
|---|---|---|
| `EventStream` | `eventSourceIterator` and `getEventStream` | |
| `TreeSignerSession` | the signer session | |
| `ArkServer` | the server (external): life of a batch, requests it accepts | |
| `Swap` | abstract: vtxos are given up all for one batch, and only that batch settles | |
| `TxTree` | `txTree.ts` and the validations of `validation.ts`, as operators on chunks | |
| `Settlement` | `Wallet.settle` | the first three and `TxTree`; implements `Swap` |
| `ReliableSettlement` | the events on their way, and the invariant about their order that holds when no connection breaks | `Settlement` |
| `Exit` | abstract: a chain of transactions gets confirmed in order | |
| `Unroll` | `Unroll.Session` with `bumpP2A`, the network and the explorer | implements `Exit` |
| `TxSize` | `TxWeightEstimator` | |
| `CompleteUnroll` | `Unroll.completeUnroll`, timelocks, the chain | `TxSize` |
| `CoinSelection` | `selectCoins`, `selectVirtualCoins` | |
| `OnchainWallet` | `OnchainWallet.send` and `bumpP2A` as concurrent calls | `CoinSelection`, `TxSize` |
| `Transfer` | abstract: an amount leaves the wallet at once and at most once | |
| `TransactionHistory` | `vtxosToTxs` and `getBoardingTxs` | `CoinSelection` |
| `OffchainWallet` | `sendBitcoin`, settling, `Ramps`, the coins of the wallet | `TransactionHistory`; implements `Transfer` |
| `IncomingFunds` | `notifyIncomingFunds`, `waitForIncomingFunds`, `watchAddresses` | |
| `ServiceWorker` | `ServiceWorkerWallet`, `Worker`, the vtxo repository | |
| `MC...` | each of them with values for TLC, and history variables where needed | |
| `..._proofs` | the theorems, one module per component; `Streams_proofs` has those of `EventStream` and `IncomingFunds`, `Algorithms_proofs` those of `CoinSelection` and `TxTree` |

In several modules a *history variable* records what a property excuses (`raced`, `missed`,
`unusual`, ...). None is read by a guard. An operator whose comment begins with "Faulty" is
the code with one plausible slip, used by nothing: it is what the property `PROJECT.json`
pairs it with would catch.

### EventStream

`messageQueue` and `errorQueue` are the two arrays of the iterator; `source` the
EventSource; `reader` where the consumer's `for await` is: waiting in `next()`,
busy in the loop's body, or out of the loop; `current` the event the body has;
`aborted` the signal. `Message`, `RejectNext` and `QueueError` are the two
listeners (an error rejects an outstanding `next()` or is queued), `Deliver` and
`ThrowQueued` the two branches of `next()`, `Throw` the `catch` of the generator,
`Resume` and `Leave` the end of the loop's body, `AbortSignal` the caller's abort.

A listener together with the promise reaction it triggers is one step, because
the event loop drains its microtasks before it dispatches another EventSource
event. So a message for a waiting `next()` is modelled as passing through the
empty queue, and no message arrives between an error's rejection and its `catch`.
`QueueError` therefore only happens while the consumer's body is suspended.

`MCEventStream` adds what the code does not keep: `accepted`, the events the listener was called
with; `received`, what `next()` returned; `handed`, the events the loop's body was started on; `atAbort`,
what had been handed when the signal was aborted. The last two differ from `received` by the one event that
`next()` returns and the generator drops because the signal was aborted meanwhile.

### ArkServer

The server's code is not in the repository. It is reconstructed from the
requests of `RestArkProvider`, the events it parses and the order the guards of
`settle` expect, and it is the environment of `Settlement`: it runs batches
1, 2, ... one after another, may include the queued intent in a batch or not, may
fail any batch at any moment, and may refuse any request. `Requeue` says whether an
intent left behind by its batch is queued again or dropped; both are checked.
Batch *b* has one commitment transaction, so *b* also names it; a transaction of
its trees is `<<b, n>>` with root `n = 0`. `TreeTx` and `TreeSignature` carry a
topic and so are only sent to a participant; all other events go to everyone.

### Settlement, Swap

`pc` is the `await` that `settle` is suspended at, `request` what became of the
request it waits for. Each `case` of the `switch` is an action `On...`, and the
code after its `await` an action of its own (`Confirmed`, `NoncesSubmitted`, ...),
so that events, errors and the server's steps interleave with it. `Expected`
collects the guards under which a case does not just `continue`. Accepting a request
and answering it are two steps, so an answer may be lost (`LossyAnswers`);
`LoopThrows` and `StreamThrows` lead to the `catch` block with its `deleteIntent`;
`RegistrationThrows` does not, because `registerIntent` is called before the `try`.
Handlers that only sign with the wallet's own key are one step.
The signer session keeps its nonces over a second `init`, but `settle` has one session per call, and the
guards of TreeSigningStarted let it through at one `step` only, so `init` is called at most once.

Abstracted: amounts, scripts, PSBTs and signatures. What `TxTree.create`,
`validateVtxoTxGraph` and `validateConnectorsTxGraph` decide about a batch's
chunks is `HangsFrom`; a tree without some of its leaves passes, as it does
in the code. `TreesAccepted` says that this short form is right: it builds the transactions of the
chunks that have come (`NodesOfTrees`), runs the operators of `TxTree` on them, and compares. Recoverable and subdust vtxos are one kind (neither is forfeited).
`Unroll` lets another process of the same key unroll an input during the
settlement, since the wallet's coins are read again at finalization.

`Swap` is what remains for the owner of the coins once events, requests, nonces, the transactions of a
tree and errors are forgotten: a call asks, joins one batch, signs its tree if it wants offchain
outputs, gives up vtxos for it once, and may end at any moment; the batch settles with all of the
vtxos or not at all, possibly after the call has ended. `Promise` maps `settle` and the server to it: `signed` is
the batch whose tree the aggregated nonces are for, `given` the forfeits with their connector's batch,
`over` holds from the `catch` block on. A boarding utxo is not given up by a forfeit but by signing the
commitment transaction itself, so it is left out. The transaction `settle` *returns* is left
out too, because it may be another one (section 5, number 2).

### TxTree

A node is a record of the outpoints its transaction spends, the amounts of its outputs and the
children its chunk names; `ChunksByTxid` is the map that `create` fills. The recursion of
`buildGraph` is a *set of ways down* from the root (`WaysDown`, `Graph`): a child that is named twice is
built twice, and is two ways. A cycle would recurse for ever, which the engine ends with an error: `BuildEnds`
says there is no way as long as there are transactions. `Creates`, `ValidNode` (the checks of `validate` at
one node), `ValidatesVtxoTxGraph` and `ValidatesConnectorsTxGraph` are the conditions under which the code
does not throw; `LeafTxids` and `NodesOf` are what `leaves`, `find` and `update` meet. Scripts and cosigner
keys are left out.

### Unroll, Exit

`pc[s]` is the `await` session `s` is suspended at and `pos[s]` the index of the loop in
`next()`. A turn of the loop is an action (`ScanConfirmed`, `ScanUnconfirmed`, `ScanThrows`,
`ScanDone`); `do()` of an UNROLL step is `Fetched`, `Bumped`, `Announced` (the broadcast inside
`bumpP2A`, whose error is swallowed), `Broadcasted` or `BroadcastThrows` (the second broadcast of
the same package); `doWait` is `Confirmed` and `PollThrows`; `Awake` is the generator's loop
after its `sleep`.

`onchain` is the truth, `explorer` what the explorer last indexed. `child` is the coin spent by
the fee-paying child, so that a second child of the same coin replaces the first with its parent.
`Mine`, `Evict` and `Index` are the network's steps. The node accepts a package when its
transaction's parents are confirmed; there are no reorganisations. `OrderAssumption` says that
`getVtxoChain` lists the whole ancestry in topological order.

`Exit` is what remains without mempools, explorers and failures, and `Unroll` implements it with
`confirmed` as the confirmed transactions and `exited` as the sessions that are done.

### CompleteUnroll, TxSize

`completeUnroll` is one action per request it awaits, while blocks are mined under any timestamps
the consensus rules allow (a block is later than the median time before it), the indexer marks
vtxos unrolled, and another device may spend them. `ListVtxos` lists any of the requested vtxos that
include the unrolled ones (`found`, and `out` for those that were listed as unrolled): one that is neither
spendable nor unrolled is skipped, and only an empty list throws. The loop works on what was listed,
while the chain and the indexer go on. `Available` is the test of
`availableExitPath`, `Mature` what BIP68 asks, `ChecksSequence` what BIP112 asks of the input's
sequence. `Decodes` models how a timelock of at most 16 blocks is encoded as an opcode
that the decoder then refuses. `TxSize` follows the builder method by method, the tapscript input
that is counted twice included.

### CoinSelection, OnchainWallet

A selection is the *set of its possible results*, because coins that tie in the sort may come in
either order: the prefixes of a sorted list are the sets closed under the order, the loop's end
condition picks the shortest that is enough. `send` and `bumpP2A` read coins and fee rate in the
code's two different orders, and broadcast when another call may have spent the coins. `forceChange` is
the loop's other end condition; as in the code it does not make the change greater than 0 when all the
coins together are exactly the target (section 5, number 15).

### OffchainWallet, TransactionHistory, Transfer

`vtxos` and `boarding` keep every coin the wallet ever had with the fields `convertVtxo` gives
it. `SendBitcoin` lists and selects; `Submit` and `Finalize` are the two requests, either answer may be
lost; `Interrupted` is a failing request or the end of the process. `SettleAll`, `Onboard`,
`Offboard` choose inputs and outputs, and `BatchSettles` settles them in one step: the protocol
in between is `Settlement`. Assumed of the server, which is external: the inputs of a submitted
transaction stay reserved until it is finalised, a batch takes what is neither spent nor
reserved, outputs below the dust limit are born recoverable.

A batch is one commitment transaction for many. Those of its participants that concern the wallet (its own
settlements, payments to it in the batch, payments to it from below the batch) are applied one after the
other: each opens a new batch or joins that of the last steps (`Commitments`, `batch`), which closes
when the wallet's coins change otherwise. The leaves of a batch have one expiry (`Expiry`), a
batch does not settle what it makes, and payments to others are not seen. `Sweep` is the server's sweep of an
expired batch, at any time: it makes everything that hangs from it and is neither spent nor
submitted recoverable. The inputs of a submitted transaction are swept only after it was finalised. A call
that holds a vtxo as it was before the sweep is refused, as the server refuses an intent whose coins are not
what it knows.

`Transfer` says what a call promises, and `OffchainWallet` implements it with `balance` as
`getBalance` computes it. `HistoryTotal` infers a history from the coins as `vtxosToTxs` does,
for spendable and spent coins listed in given orders; `HistoryBalances` requires it to add up in
*all* orders. `unusual` excuses the cases of section 5, number 12, and nothing else: TLC refutes
`HistoryBalances` when any of them is taken out of it (the change that is swept at birth needs `MaxTx = 5`). Batches that are shared with others, or by several
receipts, or from which the wallet's payments are received, sweeps of settled vtxos and their
recovery are not excused.

### IncomingFunds

One watch: the websocket (`ws`, `pushed`; `isExplorerTransaction` drops some of what is pushed, by what the
explorer put into it, which is its choice in the model), the fall-back to polling (`poll`, `known`, the polls in
flight in `tick`), the stream of vtxos (`sub`, `updates`), and the callback. A tick of the
interval fetches and reports in two steps and overlaps with the next. `StopFunc` is the function
that `notifyIncomingFunds` returns. `missed` records what it found half-started (a socket that is
connecting, a first fetch or a poll under way), `early` that the callback came before the stop
function was there, `late` that it came after.

### ServiceWorker

The page and the worker exchange messages in order; the worker starts a handler per
message and does not await it, so handlers interleave at every `await`. `task[c]` is the handler
of call `c`, `sub[c]` the `processVtxoSubscription` it started, `worker` the fields of `Worker`,
`store` the database, which outlives both `clear` and the worker's memory. The vtxos of a key are a
version number that grows. Requests that only read or delegate are one kind, `query`. `raced`
excuses what a second INIT_WALLET or a CLEAR during an initialisation does (section 5, number
11).

## 3. Runs

| Run | Expect | Shows |
|---|---|---|
| `event_stream` | pass | `NothingAfterAbort`, `DeliveredInOrder`, `WaitsOnLiveSource`: under every interleaving of four messages, two errors, reconnections, a busy consumer and an abort nothing is lost or reordered, nothing is handed over after the abort, and nobody waits on a dead source |
| `settlement_reliable` | pass | stream without errors, no requeue, refused and lost answers: forfeits follow the signed tree and cover the vtxos, the result is the settling transaction |
| `settlement_lossy` | pass | a reconnection gap, requeued intents, lost answers, an unrolled vtxo: one batch is joined and gets the nonces, signatures and forfeits; the refinement `SwapSpec`; `TreesAccepted`; `JoinedEnds`: a joined settlement returns or throws |
| `settlement_unsigned_tree` | violation | forfeits although signatures were lost in a gap |
| `settlement_wrong_result` | violation | the previous batch's transaction is returned |
| `unroll` | pass | two sessions of a shared chain: `ParentsFirst`, `DoneIsConfirmed`, the refinement `ExitSpec`, and `SessionEnds` |
| `complete_unroll` | pass | `ExitsAreMature` (never broadcast before the chain's own rule allows), `ExitConservesValue` (all that was listed goes, or nothing) |
| `complete_unroll_tip` | violation | a mature exit throws: the explorer's tip is always rejected |
| `onchain_wallet` | pass | two calls at once: the balance adds up, fewest inputs, `EnoughOrInsufficient` (no call goes on with too little, or gives up when its coins suffice), the fee reaches the rate with one coin |
| `offchain_wallet` | pass | two calls at once, in batches of their own or shared ones that may be swept, with a lost answer or a crash: `TransferSpec`, `SoonestAreSpent`, `HistoryBalances` |
| `incoming_funds` | pass | `PolledOnce`, `StoppedIsQuiet`, `AnsweredWatchEnds`, `ConfirmationReported` |
| `service_worker` | pass | three calls and one fault: `OneSubscription`, `ClearedIsQuiet`, `StoreFollows`, `StoreOnlyAdvances`, `EveryCallSettles` |

Bounds, and why they are enough:

- Settlement: `MaxBatch = 2`, since every hazard is about a batch and a later one whose events or
  confirmations are taken for the first one's. `VtxoLeaves = 1`: a root and a leaf distinguish
  complete, partial and unsigned trees. One coin of each kind, two vtxos where distinct
  connectors matter. `MaxErrors = 1`: one gap may swallow any run of consecutive events, and a
  second queued error is never reached. `MaxUnrolls = 1`: one input changes between the two readings.
- Event stream: `MaxMessages = 4`, `MaxErrors = 2`: messages before and after each of two errors.
- Unroll: two sessions that share the commitment and the root and part after it; two coins, so
  that children may or may not collide; one failure or refusal, one eviction or replacement.
- CompleteUnroll: two vtxos, any of which may be listed, a chain of four blocks, an exit of 2 in blocks and one in seconds.
  Numbers are scaled: `SmallNumber = 1` stands for 16, fee rates are tenths of a sat per
  vbyte so that fractions and rates below the minimum occur.
- OnchainWallet: fundings of one coin that is too small, one that meets a send exactly, one that is exactly
  the fee of a child, alone and with a second coin, and mixes around the dust limit; one payment received meanwhile, one failing request.
- OffchainWallet: amounts below and above a coin, a dust limit of 2, missing and known expiries;
  four transactions, where a batch counts one and each of its leaves one: a receipt and a settlement, two or
  three leaves of one batch, two receipts and a payment between them. One lost answer or crash. Chains of
  more transactions, and several different expiries, are left to the theorems, which have no bound.
- IncomingFunds: one transaction, because keys of different transactions never meet, and two
  overlapping polls; two failures, so that the socket and then a poll or the stream fail.
- ServiceWorker: three calls (an initialisation, a call that meets it, and one after), one key, one
  change of its vtxos, one failing request or one stop of the worker.

`CHECK_DEADLOCK FALSE` wherever the system may rest: `settle` returns and the bounded server stops
after its last batch, sessions and calls end, a chain reaches its bound, a page makes no more
calls, an aborted or closed stream stays so.

### Fairness

Weak fairness everywhere, and only of what the runtime, the network or a server does by itself.
No failure, reconnection, eviction, call of a user or payment is ever due.

- `Settlement`: the wallet's own steps, the answer to a request (`fetch` settles), a running batch
  (the server ends what it started, if need be by failing it), the arrival of what was emitted.
  `JoinedEnds` starts at the join: before it, `settle` has no timeout and may listen for ever,
  for instance when `BatchStarted` was emitted between the registration and the opening of the
  stream.
- `Unroll`: the sessions' steps, `Mine` and `Index` of each transaction. `SessionEnds` then says that
  no poll, refused package or replaced child keeps a session going for ever: a transaction that
  disappears makes `doWait` reject, or is broadcast again.
- `ServiceWorker`: messages are delivered and handled, and requests answered. `EveryCallSettles` excuses
  the calls whose handler the browser stopped: their messages are never answered.
- `IncomingFunds`: the first fetch, and each tick of the interval with its answer.

## 4. Proofs

Proved for every value of the constants that satisfies the named assumptions, which TLC evaluates in
the runs. Each proof has the same shape: an inductive invariant `IInv` stated beside the
properties in the component's module, one lemma per action or group of actions, and from these
`Spec => []IInv` and the theorems. TLC finds the `IInv`s true in every reachable state of the runs.

### `Settlement_proofs`

With no bound on batches, coins, tree leaves, errors or unrolled vtxos, and for every choice of
`Requeue` and `LossyAnswers`: `TypeCorrect`, `JoinsAtMostOneBatch`, `CosignsOnlyTheJoinedBatch`,
`ForfeitsOnlyToTheJoinedBatch`. From `SettlementAssumption` (the bounds are naturals, the vtxos finite,
`NoBatch` is no batch). Typing is proved component by component: `Components` shows that each step of
the composition is a step (or a stutter) of the stream and of the server, whose typing lemmas then
apply. The safety properties are not inductive: that a forfeit goes to the joined batch depends on which
events can be in a queue. `IInv` adds

- `TopicsRespected`: a `TreeTx` in the outbox, in the queue or in hand is of a joined batch;
- `IntentFollowsPhase`: the server's view of the intent;
- `NothingJoinedYet`: before a confirmation is answered for, no batch is joined, so the
  guard `step === undefined` of BatchStarted is what makes `JoinsOnce` hold;
- `AwaitsInPlace`: at which `step` each request is made;
- `ChunksOfJoined`, `TreeBehindStep`, `ConnectorsValidated`: what has been collected and
  validated by then. Two trees that both hang from joined batches are of the same
  batch by `JoinsOnce`; this is how the connectors validated against the event at hand
  and the tree that was cosigned meet in `ForfeitsToJoinedBatch`.

`ForfeitsAfterTreeSigned`, `ForfeitsCoverVtxos` and `ResultIsSettled` are false in general (section 5,
numbers 1 and 2; a vtxo unrolled meanwhile is not forfeited). They are theorems under `Reliable`:
`MaxErrors = 0`, no connection breaks, and `Requeue = FALSE`, an intent its batch leaves behind is dropped.
`ForfeitsWhenSigned` and `ResultWasSettled` need no more; `EveryVtxoForfeited` also needs
`MaxUnrolls = 0`. The number of batches, the coins, the size of the tree, refused requests, lost answers and
batches that fail at any moment stay free. What is to be shown is that `settle` and the server agree
although neither tells the other where it stands, so the invariant, `ReliableInv` in
`ReliableSettlement`, is about `Log`: the event in hand, those in the iterator's queue and
those in the server's outbox, as one sequence that grows at one end and shrinks at the other. It is stated
with three relations between a log and sets of events (`Has`, `Heralded`, `Closed`), for which `TakeFirst` and
`AddLast` say what is kept when an event is taken or added. Its parts:

- `LogInPlace`, `OwnBatchFirst`: nothing is ahead of the server, and once a batch is joined
  nothing of another batch is seen before the joined one has ended. This is why `settle` gets away with not
  comparing ids;
- `StepInPlace`: `step` is far enough for every event that is to come, so none that matters is ignored;
- `FinalizedOnce`, `AnnouncedBefore`: one BatchFinalization, before BatchFinalized and after the signatures
  and connectors that are not yet collected;
- `SettledAtTheEnd`: a BatchFinalized on its way means the intent is settled;
- `NeverBreaks`, `ReaderInPlace`, `HandInPlace`, `RoundInPlace`, `OrderInPlace`, `SignaturesInPlace`: where the
  loop stands, what each await has in hand, and the order the server works from.

A step takes the head of the log (`ConsumeKeeps`, `DropKeeps`), adds to its end (`StartKeeps`, `GoesKeeps`,
after `Goes` has said what a running batch adds and when), is a request that is accepted (`AcceptKeeps`) or
leaves it (`QuietKeeps`).

`SettlementSwaps` is `Spec => SwapSpec`, for any stream and server: errors, requeued intents, lost answers and
unrolled vtxos included. It needs of `IInv` where each request is made and which batch is joined, and,
as `SwapInv`,

- `OrderTaken`: the server works from what `settle` asked for, once it has an intent;
- `ForfeitsOnce`: forfeits are made after the last event the loop handles, of vtxos that were asked for
  and for the joined batch, so no second BatchFinalization can make others for the same vtxos;
- `SignedInPlace`: only the tree of the joined batch is signed, and only if it is to hold outputs of the wallet;
- `ReceivedInPlace`: the signatures and forfeits that the server acts upon are the wallet's, *its forfeits
  all of them*. This is what keeps a batch from settling with some of the vtxos when one was unrolled in
  between.

Five actions map to steps of `Swap` (`SettleAsks`, `NoncesSign`, `ForfeitsGive`, `AcceptJoins`, `RunSettles`);
`PledgingSteps` shows that all others sign and give nothing, cannot reopen a call that is over, and are
stutters or its end. The batch joins when the *server* accepts the confirmation: its answer may
be lost, and then the call is over while the batch goes on without signatures, which `Swap` allows.

`AcceptsWhatHangs` (`Spec => []TreesAccepted`), for any number of leaves and batches: the graph of the chunks
at hand is followed way by way (`TreesShallow`, `TreesReached`), whatever of several batches is mixed and
whatever is missing, which settles what `create` accepts (`TreesCreated`, `OnlyTrees`), and then what the
validations add (`VtxoTreeAccepted`, `ConnectorsAccepted`). The invariant it needs, `NumberedInTree`, follows
the numbers of a tree's transactions from the server through the queue to the chunks; the number of
connectors is the server's order, which does not change once chunks may have come.

### `Streams_proofs`

`EventStream`, for any number of messages and errors and any set of causes: `StreamTypes` (`StreamTypeOK`,
which no run checks: it is what the others need); `AbortEnds` (`NothingAfterAbort`), where what `next()` returned and
what was handed over agree up to the abort, and the reader never goes back to the body after it;
`InOrder`, where the work is that `next()` moves an element over the seam between what was returned
and what is queued, and that the queue is only dropped when empty; `NeverStranded`, strengthened by
`SourceInv`: while the loop runs, a closed EventSource has left an error in the queue or was closed
by the abort.

`IncomingFunds`, for any transactions, polls in flight, queue lengths and failures: `FundsTypes` (`TypeOK`,
which no run checks: the theorem says more),
`ReportedOnce` (`PolledOnce`), `NothingLeft` (`AnsweredWatchEnds`) and the action property `Quiet`
(`StoppedIsQuiet`). `IInv` adds

- `OneFetch`: polling starts where the socket ends, so a first fetch never finds a transaction
  already reported;
- `ReportedIsKnown`: what was reported is in `known` and was not there initially. Two polls that
  fetched the same list are harmless because the second compares with `known` when it *reports*, not
  when it fetched;
- `StopEndsAll`: `stopFunc` exists once `notifyIncomingFunds` has returned, and after it nothing that is
  not in `missed` runs.

### `Unroll_proofs`

For any chains in topological order, any sessions and coins, any number of failures
and evictions: `TypeCorrect`, `BroadcastsFollowTheChain` (`ParentsFirst`), `DoneMeansConfirmed`
(`DoneIsConfirmed`) and `ImplementsExit` (`Spec => ExitSpec`: initial states map to initial states,
every step to a confirmation, an exit or a stutter). From `ChainAssumption` and `OrderAssumption`.
`IInv` adds to the typing

- `ScannedConfirmed`: all transactions below the loop's index are confirmed, which is where the order of
  the chain is used, and what makes a broadcast follow its parents although the answers were stale;
- `ExplorerBehind`: the explorer shows a confirmation only of what is confirmed, so that without
  reorganisations a stale "confirmed" is still true;
- `MempoolAfterParents`: what is in the mempool has confirmed parents, so that whatever `Mine` takes is a
  step of `Exit`.

### `CompleteUnroll_proofs`

For any chain, timestamps, vtxos, tap trees, amounts and fee rates, from `ExitAssumption`:
`TypeCorrect`, `NeverEarly` (`ExitsAreMature`) and `Conserves` (`ExitConservesValue`: of the requested vtxos,
those that were listed are all spent or none is; those that were not are left behind). `IInv` adds

- `ChainInv` (a block is later than the median time before it, median times do not decrease),
  `InputsInv` (the tip that was read is a block of the chain, each input was found available at it) and
  `StartInv`. The lemma `AvailableStays` is the heart of `NeverEarly`: what the code's test, with a block's own
  timestamp and a tip that may be old, lets through satisfies BIP68 now;
- `TallyInv`: the inputs made so far are one for each listed vtxo the loop has passed, and `total` their sum. It
  is what the accumulators of the loop mean, and needs that a sum grows by what is added to its set.

### `Algorithms_proofs`

The lemmas that several components share, and the algorithms that have no state. A value is a sum folded over a set of coins, so the proofs need that it
does not depend on the order: `SumAdd`, `SumRemove`, `SumUnion`, `SumSubset` and, for coins,
`ValueSplit` and their like. They rest on `SetInduction`, an induction over finite sets proved from
the well-foundedness of `<` on the naturals as a theorem about *sets of sets*, so that no
operator has to be passed to it. `SumGroups` and `SumKeys` count a sum by groups, which is what the
history's proof does. `SelectCoinsFewest` then shows by exchange that a
greedy prefix is minimal: if as many coins as the prefix or fewer covered the target, the prefix's largest
coins would dominate them (`Dominated`), and the loop would have ended before. `SelectCoinsFails`: it
falls short exactly when all coins do.

The children of a chunk are whatever its sender wrote. `AcceptedTreeIsWhole` says that what `create` and
`validate` let through is nevertheless right, for any chunks: no transaction came twice, each is exactly one
node (so `leaves` counts none twice and `update` finds the one it should), and each spends the output it
hangs from and nothing else. The argument is a count. A transaction
that `validate` passes spends the one branch it was reached by, and no branch leads back to the root, so only one
way leads to each transaction (`OneWay`); there are at most as many ways as transactions, and as transactions
as chunks, and `create` demands as many ways as chunks (`GraphIsWhole`). `AcceptedTreeKeepsValue` adds up what `validate` compares at each node: the
outputs that nothing in the tree spends share out exactly the batch's output.

### `OnchainWallet_proofs`

For any calls, amounts, rates, dust limit, payments received and failures, from the assumptions of the module:
`TypeCorrect`, `Conservation` (`BalanceAddsUp`), `Fewest` (`FewestInputs`), `Insufficient`
(`EnoughOrInsufficient`), `OneCoin` (`OneCoinPaysTheRate`). `IInv` adds

- `CoinsCounted`: coins are finite and their ids grow, so that change and receipts are new coins;
- `CallsInOrder`: a call's inputs are a selection from what it listed for the target it still has, its
  change is what exceeds that target, and it is in the pool only when it is over, so that `Enter`
  counts each call once. That the coins are still there when the node takes them is the node's own
  check, which is why two calls that chose the same coin still conserve value.

### `OffchainWallet_proofs`

For any calls, amounts, expiries, dust limit, number of transactions and faults: `WalletTypeCorrect`,
`PaymentsSpendSoonest` (`SoonestAreSpent`), `WalletTransfers`, that is `Spec => TransferSpec`, and
`HistoryAddsUp` (`HistoryBalances`). `IInv` adds

- `CoinsKnown`: outpoints of future transactions are new;
- `CallsBalance`: what a call takes is what it pays, moves and gets back as change, its coins were unspent
  when it listed them, only vtxos are offboarded, and it has moved nothing while it has not ended;
- `InputsReserved`: what was submitted is held, for one call only. This is why a `Finalize` long after the
  listing still finds its inputs unspent although other calls settled meanwhile.

The refinement goes step by step: a `Finalize` or a `BatchSettles` changes the balance by the worth of
the inputs that go and the outputs that come (`BalanceMoves`), which by `CallsBalance` is what was
asked (`FinalizePays`, `BatchPays`); a receipt adds (`ReceiveAdds`, `BoardAdds`); every other step
leaves the balance (`CallPasses`, `CallAsks`). A lost answer is a payment whose call has not returned.

`HistoryAddsUp` holds in every order of listing, because no order matters to the accounts of one
transaction. Its invariant, `HistoryInv`, is about the ids that the history reads:

- `SpentOnce`: a coin is settled or paid with, never both, by a transaction that was made;
- `OriginsTold`: batches, payments and leaves never share an id, and a transaction that *spent* coins of
  the wallet made at most one of its vtxos, so the coins that explain a vtxo explain no other (`Told`,
  `VtxoTakes`). A batch that only pays the wallet may pay it any number of times, and a sweep changes
  the origin of a payment's output but not of a leaf: hence what is `unusual` and what is not;
- `BoardingComesBack`: a batch that took boarding utxos gave their value and its vtxos' back, which is why
  the history may skip its vtxos and count the utxos as receipts.

From it, `ReceivedTotal` shows what the fold over a list of vtxos computes: the receipts add up to what each
vtxo is worth beyond the coins that explain it, whatever the position of the vtxo. The folds of the
library, over sequences and over sets, are first shown to be sums (`TotalOfAmounts`, `SumOfAmounts`), by
`SubsetInduction` on the set of indices. Several receipts may hang from one batch, so they are grouped by
the transaction they answer for: `GainOf` is what one transaction gave beyond what it took, whether it made
one vtxo and spent some or made several and spent none. `ReceiptsTotal` and `SentTotal` turn receipts and payments into sums over transactions,
`GainsAndCosts` compares them transaction by transaction with the coins each made and took, and
`GainsBalance` adds up. Two guesses of the code meet here: what a settlement gave back beyond what it
took is a receipt, and what it took beyond what it gave back is a payment, never both.

### `ServiceWorker_proofs`

For any calls, keys, changes of the vtxos, faults and lengths of the queues: `WorkerTypeCorrect`,
`OnlyOneStream` (`OneSubscription`), `Cleared` (`ClearedIsQuiet`), `Follows` (`StoreFollows`) and the action
property `Advances` (`StoreOnlyAdvances`). `IInv` adds

- `KeysKnown`: messages are of calls that started;
- `OneAtATime`: unless initialisations raced, at most one handler is between its first await and its stream,
  or one stream is open. It is what lets every other part speak of *the* initialisation;
- `FieldsFit`: what the fields of the worker are while a handler is at each await;
- `NothingAhead` and `NothingBehind`: along the way of an update from the indexer through a read or the
  queue to the database, versions never go back.

### What stays with TLC

Every invariant, action property and refinement that a passing run checks has a theorem. What remains:

- Liveness (`JoinedEnds`, `SessionEnds`, `EveryCallSettles`, `ConfirmationReported`): temporal reasoning
  with fairness needs ENABLED, which the prover does not support.

## 5. What disagrees with the comments

Numbers 1 to 3 are runs of their own. The others are stated by a property and constants that TLC
refutes at once, or follow from reading the code while modelling it.

1. `wallet.ts:751` (`settlement_unsigned_tree`): at finalization "the vtxo tree is signed". Nothing
   checks it; signatures lost in a reconnection gap go unnoticed and the vtxos are forfeited.
2. `wallet.ts:778` (`settlement_wrong_result`): `BatchFinalized` is "the settlement is done", but
   its id is not compared with `roundId`, and the confirmation names no batch.
3. `onchain.ts:334` (`complete_unroll_tip`): the validator of the chain tip passes `every()` a
   callback without a `return`, so `getChainTip` rejects every answer and `completeUnroll` throws.
4. `ark.ts:464`: timeouts are to be ignored. The listener drops the cause, so the check never
   recognises one, and the stream throws (`EventStream!TimeoutsIgnored`).
5. `wallet.ts:791`: the intent is deleted "to not be stuck in the queue", except when
   `registerIntent` itself throws after the server accepted it (`Settlement!IntentNotStuck`).
6. `wallet.ts:1010`: every input that is not a listed vtxo is a "boarding utxo", an ark note (or a
   vtxo unrolled meanwhile) included (`Settlement!TakesOnlyBoarding`, `ArkNotes = {n1}`).
7. `unroll.ts:149`: "If the tx is not found, it's offchain", but any error of `getTxStatus` is taken
   for it (`Unroll!UnrollsOnlyNotFound`). Harmless for the order of broadcasts: `ParentsFirst` holds.
8. `unroll.ts:285`: the sequence `0xffffffff - 1` has bit 31 set, which disables the relative timelock,
   so the node refuses the exit (`ReadyExitCompletes` with `Provider = "other"`, `SecondsExit`,
   `BigAmount`, `FeeRates = {10}`).
9. `unroll.ts:310`: `BigInt(feeRate)` throws on a fractional fee rate, which explorers do answer
   (`ReadyExitCompletes` with `Provider = "other"` and `FeeRates = {15}`).
10. `tapscript.ts:362`: an exit of up to 16 blocks is encoded as an opcode, which the decoder rejects, so
    such an exit path is never found (`ReadyExitCompletes` with `Provider = "other"`, `BlocksExit`,
    `SmallNumber = 2`).
11. Service worker. `serviceWorker/wallet.ts:254`: the page's `settle` compares no ids, so any failed
    answer rejects it and any SETTLE_SUCCESS resolves it (`ServiceWorker!SettleGetsOwnAnswer`). A CLEAR
    during an initialisation leaves a wallet or a subscription behind
    (`ServiceWorker!ClearedStaysCleared`), and two initialisations leave two subscriptions of which
    CLEAR knows one. `serviceWorker/utils.ts:26` waits for an `activate` event, which a page's
    `ServiceWorker` object does not fire (it fires `statechange`).
12. `transactionHistory.ts`: a send to oneself with change counts the second own output as received;
    change of `onboard`, paid to the boarding address, counts as a receipt; own outputs below dust,
    swept at birth, are missed or counted twice. The same happens to batches that concern the wallet
    more than once, where all its vtxos of a batch are taken to explain each other: a settlement that
    shares its batch with another settlement of, or a receipt by, the wallet; and to a *preconfirmed*
    vtxo that is swept, which from then on is taken for a leaf of the batches below it.
    `OffchainWallet!unusual` marks exactly these.
13. `ramps.ts`: an `amount` of `0n` makes an output of 0 without any change, because the test is
    truthiness.
14. `waitForIncomingFunds` "resolves the next new coins": a transaction that only spends from the boarding
    address resolves it with no coins, and a "removed" one with its coins. If `notifyIncomingFunds`
    rejects, the promise stays pending, and what `watchAddresses` started keeps running. A stop while
    a socket connects, a first fetch or a poll is under way stops neither (`missed`). A callback before the stop
    function is there resolves the promise and leaves the watch running (`early`). Of what the socket pushes,
    transactions without a numeric `block_time`, as in the mempool, or whose values are not strings are
    dropped by `isExplorerTransaction` (`onchain.ts:347`) without a word.
15. `onchain.ts:210`: `forceChange` is to "ensure the coin selection will require a change output". When all the
    coins together are exactly the target, `selectCoins` returns a change of 0 all the same (`onchain.ts:253`).
    `bumpP2A` then builds a child whose output is 0, and pays any other change without comparing
    it with the dust limit; the node refuses it, and the `finally` returns the pair as if it had been sent
    (`OnchainWallet!ForcedChangeIsThere`). `EnoughOrInsufficient` says nothing of this one case.
    Line 207 of the same comment, "prioritizing those closer to expiry", is stale: coins are sorted by value.
16. `unroll.ts:226`: `completeUnroll` throws "if the txids are not found". It throws if *none* is: a requested vtxo
    that is not listed is skipped, the others are broadcast, and the caller gets a txid
    (`CompleteUnroll!ExitsAllRequested`).

Numbers 1 and 2 depend on what the server does in the gap or with a left-behind intent;
the same properties hold without a gap and without requeueing: `settlement_reliable` checks them, and
`ForfeitsWhenSigned` and `ResultWasSettled` prove them.

## 6. Not modelled

Partly modelled:

- `settle`: amounts, scripts and intent proofs are abstracted, and the vtxo tree has one level
  under its root.
- Tx tree: `validate` also compares the cosigners' aggregate key with the taproot script of each output
  (`validation.ts:118`), which is elliptic-curve arithmetic and left out.
- Onchain and indexer providers: their requests are steps of their callers, failures included. Parsing
  (other than the chain tip) and paging are request/response I/O without state.
- Offchain transactions: outputs and sizes, not scripts.

Out of scope: byte encodings (scripts, addresses, PSBT fields, BIP21, BIP322, notes), elliptic-curve
arithmetic (musig2) and signing: stateless, and about bytes rather than about behaviour.
