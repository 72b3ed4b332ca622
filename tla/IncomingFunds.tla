---------------------------- MODULE IncomingFunds ----------------------------
(***************************************************************************)
(* notifyIncomingFunds and waitForIncomingFunds (src/src/wallet/wallet.ts) *)
(* over EsploraProvider.watchAddresses (src/src/providers/onchain.ts) and  *)
(* the indexer's subscription: a websocket that falls back to polling, a   *)
(* stream of vtxos, one callback, and a function that stops it all.        *)
(*                                                                         *)
(* A transaction of the boarding address pays it or only spends from it.   *)
(* External: the explorer, its websocket, and the indexer's stream         *)
(* (the generator of EventStream).                                         *)
(***************************************************************************)
EXTENDS Integers, Sequences

CONSTANTS
    Tx,             \* transactions of the boarding address
    Tick,           \* polls that may be in flight together
    MaxFaults,      \* bound: failures of requests, the socket, the stream
    MaxQueued       \* bound: messages, and updates, not yet handled

ASSUME IncomingAssumption ==
    {MaxFaults, MaxQueued} \subseteq Nat

VARIABLES
    incoming,   \* transactions that pay the address
    user,       \* "waits" for the funds, or is "notified" until it stops
    pc,         \* progress of notifyIncomingFunds
    ws,         \* the websocket
    pushed,     \* its messages not yet handled
    poll,       \* polling: off, its first fetch under way, on, cleared
    known,      \* initialTxs
    tick,       \* what the polls in flight fetched
    polled,     \* history: times each key was reported by polling
    initial,    \* history: keys of the first fetch
    sub,        \* the subscription
    updates,    \* its updates not yet handled, TRUE for one with new vtxos
    answer,     \* what the callback was first called with
    early,      \* history: that was before notifyIncomingFunds returned
    stopped,    \* stopFunc was called
    missed,     \* history: what the last stopFunc could not stop
    late,       \* history: the callback was called after stopFunc
    chain,      \* state of each transaction
    faults

setup == <<incoming, user>>
stopVars == <<stopped, missed>>
callbackVars == <<answer, early, late>>
pollVars == <<poll, known, tick, polled, initial>>
vars == <<setup, pc, ws, pushed, pollVars, sub, updates, callbackVars, stopVars, chain, faults>>

State == {"mempool", "confirmed", "removed"}
Key == Tx \X State

TypeOK ==
    /\ incoming \subseteq Tx /\ user \in {"waits", "notified"}
    /\ pc \in {"watching", "fetching", "subscribing", "returned", "threw"}
    /\ ws \in {"none", "connecting", "open", "closed"} /\ pushed \in Seq(Key)
    /\ poll \in {"off", "fetching", "on", "cleared"}
    /\ known \subseteq Key /\ initial \subseteq known /\ polled \in [Key -> Nat]
    /\ DOMAIN tick \subseteq Tick /\ \A i \in DOMAIN tick : tick[i] \subseteq Key
    /\ sub \in {"none", "open", "closed", "failed"} /\ updates \in Seq(BOOLEAN)
    /\ answer \in {"none", "coins", "nothing", "vtxos"}
    /\ {early, stopped, late} \subseteq BOOLEAN
    /\ missed \subseteq {"ws", "fetch", "tick"}
    /\ chain \in [Tx -> State \cup {"absent"}]
    /\ faults \in 0 .. MaxFaults

-----------------------------------------------------------------------------
Nothing == [i \in {} |-> {}]

Init ==
    /\ incoming \in SUBSET Tx /\ user \in {"waits", "notified"}
    /\ pc = "watching" /\ ws = "none" /\ pushed = <<>>
    /\ poll = "off" /\ known = {} /\ tick = Nothing
    /\ polled = [k \in Key |-> 0] /\ initial = {}
    /\ sub = "none" /\ updates = <<>>
    /\ answer = "none" /\ early = FALSE /\ late = FALSE
    /\ stopped = FALSE /\ missed = {}
    /\ chain \in [Tx -> {"absent", "mempool"}]
    /\ faults = 0

Fault == faults < MaxFaults /\ faults' = faults + 1

-----------------------------------------------------------------------------
\* stopFunc closes the socket if it is open, clears the interval if there is
\* one, and aborts the stream.  Faulty: only the first two.
StopOnchain ==
    /\ stopped' = TRUE
    /\ missed' = (IF ws = "connecting" THEN {"ws"} ELSE {})
                   \cup (IF poll = "fetching" THEN {"fetch"} ELSE {})
                   \cup (IF DOMAIN tick' # {} THEN {"tick"} ELSE {})
    /\ ws' = (IF ws = "open" THEN "closed" ELSE ws)
    /\ poll' = (IF poll = "on" THEN "cleared" ELSE poll)
    /\ UNCHANGED sub

StopFunc ==
    /\ stopped' = TRUE
    /\ missed' = (IF ws = "connecting" THEN {"ws"} ELSE {})
                   \cup (IF poll = "fetching" THEN {"fetch"} ELSE {})
                   \cup (IF DOMAIN tick' # {} THEN {"tick"} ELSE {})
    /\ ws' = (IF ws = "open" THEN "closed" ELSE ws)
    /\ poll' = (IF poll = "on" THEN "cleared" ELSE poll)
    /\ sub' = (IF sub = "open" THEN "closed" ELSE sub)

\* waitForIncomingFunds stops the watch it was given, on every call of its
\* callback.  Faulty: it never does.
NeverStops == FALSE
StopsOnCallback == user = "waits" /\ pc = "returned"

Callback(content) ==
    /\ answer' = (IF answer = "none" THEN content ELSE answer)
    /\ early' = (early \/ (answer = "none" /\ pc # "returned"))
    /\ late' = (late \/ stopped)
    /\ IF StopsOnCallback THEN StopFunc ELSE UNCHANGED <<stopped, missed, ws, poll, sub>>

NoCallback == UNCHANGED <<callbackVars, stopped, missed, ws, poll, sub>>

\* The coins of the transactions: those that do not pay the address are left
\* out, the callback is called in any case.
CoinsOf(keys) == IF \E k \in keys : k[1] \in incoming THEN "coins" ELSE "nothing"

-----------------------------------------------------------------------------
\* notifyIncomingFunds awaits watchAddresses, then subscribeForScripts.
WatchAddresses ==
    /\ pc = "watching"
    /\ \/ pc' = "subscribing" /\ ws' = "connecting" /\ UNCHANGED <<poll, faults>>
       \/ pc' = "fetching" /\ poll' = "fetching" /\ Fault /\ UNCHANGED ws
    /\ UNCHANGED <<setup, pushed, known, tick, polled, initial, sub, updates, callbackVars,
                   stopped, missed, chain>>

Subscribe ==
    /\ pc = "subscribing"
    /\ \/ pc' = "returned" /\ sub' = "open" /\ UNCHANGED faults
       \/ pc' = "threw" /\ Fault /\ UNCHANGED sub
    /\ UNCHANGED <<setup, ws, pushed, pollVars, updates, callbackVars, stopVars, chain>>

\* The user of notifyIncomingFunds stops when it likes.
Stop ==
    /\ user = "notified" /\ pc = "returned" /\ ~stopped
    /\ UNCHANGED <<tick, known, polled, initial>>
    /\ StopFunc
    /\ UNCHANGED <<setup, pc, pushed, updates, callbackVars, chain, faults>>

-----------------------------------------------------------------------------
SocketOpens ==
    /\ ws = "connecting" /\ ws' = "open"
    /\ UNCHANGED <<setup, pc, pushed, pollVars, sub, updates, callbackVars, stopVars,
                   chain, faults>>

\* The error event of the socket starts polling.
SocketFails ==
    /\ ws \in {"connecting", "open"} /\ ws' = "closed"
    /\ poll' = "fetching" /\ Fault
    /\ UNCHANGED <<setup, pc, pushed, known, tick, polled, initial, sub, updates,
                   callbackVars, stopVars, chain>>

\* A message: transactions that entered the mempool, were confirmed, or were
\* removed.  isExplorerTransaction passes over one without a numeric block_time,
\* as before a block, or whose values are not strings: the explorer's choice.
HandleMessage ==
    /\ ws = "open" /\ pushed # <<>>
    /\ pushed' = Tail(pushed)
    /\ UNCHANGED <<known, tick, polled, initial>>
    /\ \E isExplorerTransaction \in BOOLEAN :
          IF isExplorerTransaction THEN Callback(CoinsOf({Head(pushed)})) ELSE NoCallback
    /\ UNCHANGED <<setup, pc, updates, chain, faults>>

-----------------------------------------------------------------------------
\* Faulty: the key without block_time.
TxidKey(t) == <<t, "mempool">>
TxKey(t) == <<t, chain[t]>>

GetAllTxs == {TxKey(t) : t \in {u \in Tx : chain[u] \in {"mempool", "confirmed"}}}

\* The first fetch is what is there already.
FirstFetch ==
    /\ poll = "fetching"
    /\ initial' = GetAllTxs /\ known' = GetAllTxs /\ poll' = "on"
    /\ pc' = (IF pc = "fetching" THEN "subscribing" ELSE pc)
    /\ UNCHANGED <<setup, ws, pushed, tick, polled, sub, updates, callbackVars,
                   stopVars, chain, faults>>

\* It throws: out of notifyIncomingFunds, or out of the error listener.
FirstFetchFails ==
    /\ poll = "fetching" /\ poll' = "off" /\ Fault
    /\ pc' = (IF pc = "fetching" THEN "threw" ELSE pc)
    /\ UNCHANGED <<setup, ws, pushed, known, tick, polled, initial, sub, updates,
                   callbackVars, stopVars, chain>>

\* The interval fires whether or not the last poll has ended.
PollFetches(i) ==
    /\ poll = "on" /\ i \notin DOMAIN tick
    /\ tick' = [j \in DOMAIN tick \cup {i} |-> IF j = i THEN GetAllTxs ELSE tick[j]]
    /\ UNCHANGED <<setup, pc, ws, pushed, poll, known, polled, initial, sub, updates,
                   callbackVars, stopVars, chain, faults>>

Without(i) == [j \in DOMAIN tick \ {i} |-> tick[j]]

\* Faulty: what was reported is not remembered.
NotInitial(i) == tick[i] \ initial
NewTxs(i) == tick[i] \ known

PollReports(i) ==
    /\ i \in DOMAIN tick /\ tick' = Without(i)
    /\ known' = known \cup NewTxs(i)
    /\ polled' = [k \in Key |-> IF k \in NewTxs(i) THEN polled[k] + 1 ELSE polled[k]]
    /\ IF NewTxs(i) = {} THEN NoCallback ELSE Callback(CoinsOf(NewTxs(i)))
    /\ UNCHANGED <<setup, pc, pushed, initial, updates, chain, faults>>

PollFails(i) ==
    /\ i \in DOMAIN tick /\ tick' = Without(i) /\ Fault
    /\ UNCHANGED <<setup, pc, ws, pushed, poll, known, polled, initial, sub, updates,
                   callbackVars, stopVars, chain>>

-----------------------------------------------------------------------------
\* An update that only tells of spent vtxos is passed over.
HandleUpdate ==
    /\ sub = "open" /\ updates # <<>> /\ updates' = Tail(updates)
    /\ UNCHANGED <<known, tick, polled, initial>>
    /\ IF Head(updates) THEN Callback("vtxos") ELSE NoCallback
    /\ UNCHANGED <<setup, pc, pushed, chain, faults>>

\* The stream's error is logged, and the loop ends.
SubscriptionFails ==
    /\ sub = "open" /\ sub' = "failed" /\ Fault
    /\ UNCHANGED <<setup, pc, ws, pushed, pollVars, updates, callbackVars, stopVars, chain>>

-----------------------------------------------------------------------------
\* External: the life of a transaction, pushed over an open socket.
TxMoves(t, state) ==
    /\ \/ chain[t] \in {"absent", "removed"} /\ state = "mempool"
       \/ chain[t] = "mempool" /\ state \in {"confirmed", "removed"}
    /\ chain' = [chain EXCEPT ![t] = state]
    /\ IF ws = "open" THEN Len(pushed) < MaxQueued /\ pushed' = Append(pushed, <<t, state>>)
       ELSE UNCHANGED pushed
    /\ UNCHANGED <<setup, pc, ws, pollVars, sub, updates, callbackVars, stopVars, faults>>

IndexerUpdates ==
    /\ sub = "open" /\ Len(updates) < MaxQueued
    /\ \E withNew \in BOOLEAN : updates' = Append(updates, withNew)
    /\ UNCHANGED <<setup, pc, ws, pushed, pollVars, sub, callbackVars, stopVars, chain,
                   faults>>

Watch ==
    \/ WatchAddresses \/ Subscribe \/ SocketOpens \/ HandleMessage
    \/ FirstFetch \/ HandleUpdate

Next ==
    \/ Watch \/ Stop \/ SocketFails \/ FirstFetchFails \/ SubscriptionFails
    \/ \E i \in Tick : PollFetches(i) \/ PollReports(i) \/ PollFails(i)
    \/ \E t \in Tx, state \in State : TxMoves(t, state)
    \/ IndexerUpdates

Spec == Init /\ [][Next]_vars

\* A timer fires while it is set, and requests are answered.
FairSpec ==
    Spec /\ WF_vars(FirstFetch)
         /\ \A i \in Tick : WF_vars(PollFetches(i)) /\ WF_vars(PollReports(i))

-----------------------------------------------------------------------------
\* Polling reports each transaction once when it appears and once when it is
\* confirmed, and none that was there before, though polls overlap
\* (onchain.ts:180 "to also notify when a transaction is confirmed").
PolledOnce ==
    \A k \in Key : polled[k] <= 1 /\ (k \in initial => polled[k] = 0)

\* After stopFunc, unless a socket was connecting or a fetch or poll under
\* way, the callback is never called again.
StoppedIsQuiet == [][stopped /\ missed = {} => late' = late]_vars

\* waitForIncomingFunds leaves nothing running behind its answer, if the answer
\* came after notifyIncomingFunds had returned and nothing escaped stopFunc.
AnsweredWatchEnds ==
    user = "waits" /\ answer # "none" /\ ~early /\ missed = {} =>
        /\ ws \in {"none", "closed"} /\ poll \notin {"fetching", "on"}
        /\ DOMAIN tick = {} /\ sub \in {"closed", "failed"}

\* Polling makes up for the socket: a transaction that is confirmed while it is
\* on is reported, unless the user stops it.
ConfirmationReported ==
    \A t \in Tx : LET key == <<t, "confirmed">> IN
        poll = "on" /\ chain[t] = "confirmed" /\ key \notin initial
            ~> poll # "on" \/ polled[key] > 0

-----------------------------------------------------------------------------
\* What an inductive invariant says.  There is one first fetch at most, since
\* polling starts where the socket ends.
OneFetch ==
    /\ pc = "watching" => ws = "none" /\ poll = "off"
    /\ ws \in {"connecting", "open"} => poll = "off"
    /\ poll \in {"off", "fetching"} =>
          DOMAIN tick = {} /\ known = {} /\ \A k \in Key : polled[k] = 0

\* What was reported was new, and is known since.
ReportedIsKnown ==
    \A k \in Key : polled[k] <= 1 /\ (polled[k] > 0 => k \in known \ initial)

\* stopFunc exists once notifyIncomingFunds has returned, and stops the rest.
StopEndsAll ==
    /\ stopped => pc = "returned"
    /\ pc = "returned" => sub # "none"
    /\ user = "waits" /\ answer # "none" /\ ~early => stopped
    /\ stopped /\ missed = {} =>
          /\ ws \in {"none", "closed"} /\ poll \notin {"fetching", "on"}
          /\ DOMAIN tick = {} /\ sub \in {"closed", "failed"}

IInv == TypeOK /\ OneFetch /\ ReportedIsKnown /\ StopEndsAll
==============================================================================
