---------------------------- MODULE ServiceWorker ----------------------------
(***************************************************************************)
(* ServiceWorkerWallet (src/src/wallet/serviceWorker/wallet.ts) in a page, *)
(* and Worker (worker.ts) behind it, with the vtxo repository in IndexedDB. *)
(* They exchange messages in order.  The worker starts a handler for each  *)
(* message and does not wait for it: handlers interleave at their awaits,  *)
(* and share the worker's fields, the repository and its database.         *)
(*                                                                         *)
(* The vtxos of a key are a version that only grows, and the repository    *)
(* keeps one version per key.  External: the indexer, which sends changes  *)
(* to the subscriptions that are open; Wallet.settle, which ends; and the  *)
(* browser, which may stop the worker, memory and handlers, but not the    *)
(* database.                                                               *)
(***************************************************************************)
EXTENDS Integers, FiniteSets, SequencesExt

CONSTANTS
    Calls,          \* number of calls of the page
    Kinds,          \* what they may be: "init", "query", "settle", "clear"
    Key,            \* private keys, or wallets
    NoKey,
    MaxVersion,     \* bound: changes of a key's vtxos
    MaxFaults       \* bound: requests that fail, times the worker is stopped

ASSUME WorkerAssumption ==
    /\ Kinds \subseteq {"init", "query", "settle", "clear"}
    /\ NoKey \notin Key
    /\ Calls \in Nat /\ MaxVersion \in Nat /\ MaxFaults \in Nat

VARIABLES
    call,       \* state of each call of the page
    toWorker, toPage,
    worker,     \* wallet, provider, open (database), controller (of a subscription)
    task,       \* handler of each call
    sub,        \* processVtxoSubscription started by each call
    version,    \* the vtxos of each key
    store,      \* the vtxos of each key in the database
    faults,     \* requests that failed, times the worker was stopped
    raced,      \* history: an INIT_WALLET or CLEAR came during an initialisation
    missed,     \* history: subscriptions opened after a change
    lost        \* history: calls whose handler was stopped

histVars == <<missed, lost>>
vars == <<call, toWorker, toPage, worker, task, sub, version, store, faults,
          raced, missed, lost>>

\* The page's calls in the order of their start; a call's number stands for
\* the random ids of its messages.
Call == 1 .. Calls
NoCall == 0

Nobody == [wallet |-> NoKey, provider |-> FALSE, open |-> FALSE, controller |-> NoCall]
NoTask == [pc |-> "none", key |-> NoKey, read |-> 0]
NoSub == [pc |-> "none", key |-> NoKey, queue |-> <<>>]

Request ==
    [id : Call, type : {"GET_STATUS", "INIT_WALLET", "QUERY", "SETTLE", "CLEAR"}]
AnswerName ==
    {"WALLET_STATUS", "WALLET_INITIALIZED", "RESULT", "SETTLE_EVENT", "SETTLE_SUCCESS",
     "CLEAR_RESPONSE", "ERROR"}
Answer == [id : Call, type : AnswerName, success : BOOLEAN, initialized : BOOLEAN]
CallType ==
    [kind : {"none"} \cup Kinds, key : Key \cup {NoKey},
     pc : {"idle", "status", "waiting", "returned", "threw"}, got : Call \cup {NoCall}]
TaskType ==
    [pc : {"none", "creating", "opening", "fetching", "storing", "starting",
           "querying", "settling", "done"},
     key : Key \cup {NoKey}, read : 0 .. MaxVersion + 1]
SubType ==
    [pc : {"none", "subscribing", "listening", "ended"}, key : Key \cup {NoKey},
     queue : Seq(1 .. MaxVersion + 1)]

TypeOK ==
    /\ call \in [Call -> CallType]
    /\ toWorker \in Seq(Request) /\ toPage \in Seq(Answer)
    /\ worker \in [wallet : Key \cup {NoKey}, provider : BOOLEAN, open : BOOLEAN,
                   controller : Call \cup {NoCall}]
    /\ task \in [Call -> TaskType] /\ sub \in [Call -> SubType]
    /\ \A c \in Call :
        /\ task[c].pc \in {"fetching", "storing", "starting"} => task[c].key \in Key
        /\ sub[c].pc \in {"subscribing", "listening"} => sub[c].key \in Key
    /\ version \in [Key -> 1 .. MaxVersion + 1] /\ store \in [Key -> 0 .. MaxVersion + 1]
    /\ faults \in 0 .. MaxFaults /\ raced \in BOOLEAN
    /\ missed \subseteq Call /\ lost \subseteq Call

Init ==
    /\ call = [c \in Call |-> [kind |-> "none", key |-> NoKey, pc |-> "idle", got |-> NoCall]]
    /\ toWorker = <<>> /\ toPage = <<>>
    /\ worker = Nobody
    /\ task = [c \in Call |-> NoTask] /\ sub = [c \in Call |-> NoSub]
    /\ version = [k \in Key |-> 1] /\ store = [k \in Key |-> 0]
    /\ faults = 0 /\ raced = FALSE /\ missed = {} /\ lost = {}

-----------------------------------------------------------------------------
(* The page. *)

Message == [init |-> "GET_STATUS", query |-> "QUERY", settle |-> "SETTLE", clear |-> "CLEAR"]

\* init asks for the status first; every other call posts its message.
Start(c, kind, key) ==
    /\ \A d \in Call : call[d].pc = "idle" <=> d >= c
    /\ call' = [call EXCEPT ![c] = [kind |-> kind, key |-> key, got |-> NoCall,
                                    pc |-> IF kind = "init" THEN "status" ELSE "waiting"]]
    /\ toWorker' = Append(toWorker, [id |-> c, type |-> Message[kind]])
    /\ UNCHANGED <<toPage, worker, task, sub, version, store, faults, raced, histVars>>

\* What an answer does to call c: sendMessage compares ids, settle does not.
Hears(k, c, answer) ==
    IF k.kind = "settle" /\ k.pc = "waiting"
    THEN CASE ~answer.success -> [k EXCEPT !.got = answer.id, !.pc = "threw"]
           [] answer.type = "SETTLE_SUCCESS" -> [k EXCEPT !.got = answer.id, !.pc = "returned"]
           [] OTHER -> k
    ELSE IF k.pc \in {"status", "waiting"} /\ answer.id = c
    THEN CASE ~answer.success -> [k EXCEPT !.got = c, !.pc = "threw"]
           [] k.pc = "status" /\ answer.type = "WALLET_STATUS" ->
                [k EXCEPT !.pc = IF answer.initialized THEN "returned" ELSE "waiting"]
           [] OTHER -> [k EXCEPT !.got = c, !.pc = "returned"]
    ELSE k

\* The page hears an answer; an init that finds no wallet goes on.
Deliver ==
    /\ toPage # <<>> /\ toPage' = Tail(toPage)
    /\ call' = [c \in Call |-> Hears(call[c], c, Head(toPage))]
    /\ LET c == Head(toPage).id IN
        toWorker' = IF call[c].pc = "status" /\ call'[c].pc = "waiting"
                    THEN Append(toWorker, [id |-> c, type |-> "INIT_WALLET"]) ELSE toWorker
    /\ UNCHANGED <<worker, task, sub, version, store, faults, raced, histVars>>

-----------------------------------------------------------------------------
(* The worker: handleMessage. *)

Post(c, type) ==
    toPage' = Append(toPage, [id |-> c, type |-> type, success |-> type # "ERROR",
                              initialized |-> worker.wallet # NoKey])

\* An initialisation that is not over, the subscription's set-up included.
Initialising ==
    \E c \in Call : task[c].pc \in {"creating", "opening", "fetching", "storing", "starting"}
                    \/ sub[c].pc = "subscribing"

Receive(c, type) ==
    /\ toWorker # <<>> /\ Head(toWorker) = [id |-> c, type |-> type]
    /\ toWorker' = Tail(toWorker)
    /\ UNCHANGED <<call, version, store, faults, histVars>>

HandleGetStatus(c) ==
    /\ Receive(c, "GET_STATUS")
    /\ Post(c, "WALLET_STATUS")
    /\ UNCHANGED <<worker, task, sub, raced>>

\* The providers are set, and Wallet.create is awaited.
HandleInitWallet(c) ==
    /\ Receive(c, "INIT_WALLET")
    /\ worker' = [worker EXCEPT !.provider = TRUE]
    /\ task' = [task EXCEPT ![c] = [NoTask EXCEPT !.pc = "creating"]]
    /\ raced' = (raced \/ Initialising \/ worker.wallet # NoKey)
    /\ UNCHANGED <<toPage, sub>>

\* Faulty: a worker without a wallet does not answer.
HandleQuerySilently(c) ==
    /\ Receive(c, "QUERY")
    /\ IF worker.wallet = NoKey THEN UNCHANGED <<toPage, task>>
       ELSE task' = [task EXCEPT ![c].pc = "querying"] /\ UNCHANGED toPage
    /\ UNCHANGED <<worker, sub, raced>>

\* GET_ADDRESS, GET_BALANCE, GET_VTXOS, SEND_BITCOIN, SIGN...: they fail
\* without a wallet, and those that read the repository with it closed.
HandleQuery(c) ==
    /\ Receive(c, "QUERY")
    /\ \E reads \in BOOLEAN :
        IF worker.wallet = NoKey \/ (reads /\ ~worker.open)
        THEN Post(c, "ERROR") /\ UNCHANGED task
        ELSE task' = [task EXCEPT ![c].pc = "querying"] /\ UNCHANGED toPage
    /\ UNCHANGED <<worker, sub, raced>>

HandleSettle(c) ==
    /\ Receive(c, "SETTLE")
    /\ IF worker.wallet = NoKey
       THEN Post(c, "ERROR") /\ UNCHANGED task
       ELSE task' = [task EXCEPT ![c].pc = "settling"] /\ UNCHANGED toPage
    /\ UNCHANGED <<worker, sub, raced>>

Aborted(s) ==
    IF worker.controller = NoCall THEN s ELSE [s EXCEPT ![worker.controller].pc = "ended"]

\* Faulty: the subscription is not aborted.
HandleClearNoAbort(c) ==
    /\ Receive(c, "CLEAR")
    /\ worker' = Nobody
    /\ Post(c, "CLEAR_RESPONSE")
    /\ raced' = (raced \/ Initialising)
    /\ UNCHANGED <<sub, task>>

\* Faulty: the database stays open.
HandleClearNoClose(c) ==
    /\ Receive(c, "CLEAR")
    /\ sub' = Aborted(sub)
    /\ worker' = [Nobody EXCEPT !.open = worker.open]
    /\ Post(c, "CLEAR_RESPONSE")
    /\ raced' = (raced \/ Initialising)
    /\ UNCHANGED task

\* clear aborts the subscription it knows of, closes the database and forgets
\* the fields before the next message; the database keeps its contents.
HandleClear(c) ==
    /\ Receive(c, "CLEAR")
    /\ sub' = Aborted(sub)
    /\ worker' = Nobody
    /\ Post(c, "CLEAR_RESPONSE")
    /\ raced' = (raced \/ Initialising)
    /\ UNCHANGED task

-----------------------------------------------------------------------------
(* The worker: handleInitWallet after its awaits, onWalletInitialized. *)

Continue(c, pc) == task[c].pc = pc /\ UNCHANGED <<call, toWorker, version, raced, lost>>

Becomes(c, pc) == task' = [task EXCEPT ![c].pc = pc]

\* The catch block: an error after WALLET_INITIALIZED is a second answer.
InitThrows(c) == Becomes(c, "done") /\ Post(c, "ERROR")

\* Wallet.create answers; without providers onWalletInitialized does nothing.
CreateWallet(c) ==
    /\ Continue(c, "creating")
    /\ worker' = [worker EXCEPT !.wallet = call[c].key]
    /\ Post(c, "WALLET_INITIALIZED")
    /\ Becomes(c, IF worker.provider THEN "opening" ELSE "done")
    /\ UNCHANGED <<sub, store, faults, missed>>

\* Faulty: the wallet may have been cleared meanwhile.
OpenUnchecked(c) ==
    /\ Continue(c, "opening")
    /\ worker' = [worker EXCEPT !.open = TRUE]
    /\ task' = [task EXCEPT ![c].pc = "fetching", ![c].key = worker.wallet]
    /\ UNCHANGED <<toPage, sub, store, faults, missed>>

\* The database is open; the script is the one of the wallet that is set now.
OpenRepository(c) ==
    /\ Continue(c, "opening")
    /\ worker' = [worker EXCEPT !.open = TRUE]
    /\ IF worker.wallet = NoKey \/ ~worker.provider THEN InitThrows(c)
       ELSE /\ task' = [task EXCEPT ![c].pc = "fetching", ![c].key = worker.wallet]
            /\ UNCHANGED toPage
    /\ UNCHANGED <<sub, store, faults, missed>>

\* The indexer answers getVtxos with the vtxos of this moment.
FetchVtxos(c) ==
    /\ Continue(c, "fetching")
    /\ task' = [task EXCEPT ![c].pc = "storing", ![c].read = version[task[c].key]]
    /\ UNCHANGED <<toPage, worker, sub, store, faults, missed>>

\* Faulty: the initial vtxos are not written.
StoreNothing(c) ==
    /\ Continue(c, "storing")
    /\ IF ~worker.open THEN InitThrows(c) ELSE Becomes(c, "starting") /\ UNCHANGED toPage
    /\ UNCHANGED <<worker, sub, faults, missed, store>>

\* addOrUpdate throws when the database was closed.
StoreVtxos(c) ==
    /\ Continue(c, "storing")
    /\ IF ~worker.open THEN InitThrows(c) /\ UNCHANGED store
       ELSE /\ store' = [store EXCEPT ![task[c].key] = task[c].read]
            /\ Becomes(c, "starting") /\ UNCHANGED toPage
    /\ UNCHANGED <<worker, sub, faults, missed>>

\* processVtxoSubscription is started and not awaited.
StartSubscription(c) ==
    /\ Continue(c, "starting")
    /\ IF worker.wallet = NoKey THEN InitThrows(c) /\ UNCHANGED sub
       ELSE /\ sub' = [sub EXCEPT ![c] = [NoSub EXCEPT !.key = task[c].key, !.pc =
                            IF worker.provider THEN "subscribing" ELSE "ended"]]
            /\ Becomes(c, "done") /\ UNCHANGED toPage
    /\ UNCHANGED <<worker, store, faults, missed>>

Streams == <<call, toWorker, toPage, task, version, raced, lost>>

\* Faulty: the controller is not kept.
SubscribedUnkept(c) ==
    /\ sub[c].pc = "subscribing"
    /\ sub' = [sub EXCEPT ![c].pc = IF worker.provider THEN "listening" ELSE "ended"]
    /\ missed' = IF version[sub[c].key] # task[c].read THEN missed \cup {c} ELSE missed
    /\ UNCHANGED <<Streams, worker, store, faults>>

\* The indexer answers with a subscription id: the stream is opened, and only
\* now its controller is kept.  Without a provider the error is caught.
Subscribed(c) ==
    /\ sub[c].pc = "subscribing"
    /\ IF worker.provider
       THEN /\ sub' = [sub EXCEPT ![c].pc = "listening"]
            /\ worker' = [worker EXCEPT !.controller = c]
       ELSE sub' = [sub EXCEPT ![c].pc = "ended"] /\ UNCHANGED worker
    /\ missed' = IF version[sub[c].key] # task[c].read THEN missed \cup {c} ELSE missed
    /\ UNCHANGED <<Streams, store, faults>>

\* An update is stored; a closed database ends the loop.
ApplyUpdate(c) ==
    /\ sub[c].pc = "listening" /\ sub[c].queue # <<>>
    /\ IF worker.open
       THEN /\ store' = [store EXCEPT ![sub[c].key] = Head(sub[c].queue)]
            /\ sub' = [sub EXCEPT ![c].queue = Tail(@)]
       ELSE sub' = [sub EXCEPT ![c].pc = "ended"] /\ UNCHANGED store
    /\ UNCHANGED <<Streams, worker, faults, missed>>

\* An error of the stream, or of subscribeForScripts, ends the subscription.
SubscriptionFails(c) ==
    /\ sub[c].pc \in {"subscribing", "listening"}
    /\ faults < MaxFaults /\ faults' = faults + 1
    /\ sub' = [sub EXCEPT ![c].pc = "ended"]
    /\ UNCHANGED <<Streams, worker, store, missed>>

\* The last request of a query is answered.  Some read the repository or the
\* wallet only then, and throw when they were cleared.
AnswerQuery(c) ==
    /\ Continue(c, "querying")
    /\ Becomes(c, "done")
    /\ \/ Post(c, "RESULT")
       \/ (worker.wallet = NoKey \/ ~worker.open) /\ Post(c, "ERROR")
    /\ UNCHANGED <<worker, sub, store, faults, missed>>

\* Wallet.settle reports an event.
SettleEvent(c) ==
    /\ Continue(c, "settling")
    /\ \A i \in 1 .. Len(toPage) : toPage[i].type # "SETTLE_EVENT"     \* bound
    /\ Post(c, "SETTLE_EVENT")
    /\ UNCHANGED <<worker, task, sub, store, faults, missed>>

SettleSucceeds(c) ==
    /\ Continue(c, "settling")
    /\ Becomes(c, "done") /\ Post(c, "SETTLE_SUCCESS")
    /\ UNCHANGED <<worker, sub, store, faults, missed>>

\* A request of a handler fails: every handler answers with the error.
HandlerThrows(c) ==
    /\ \E pc \in {"creating", "opening", "fetching", "querying", "settling"} : Continue(c, pc)
    /\ faults < MaxFaults /\ faults' = faults + 1
    /\ InitThrows(c)
    /\ UNCHANGED <<worker, sub, store, missed>>

-----------------------------------------------------------------------------
(* The indexer and the browser. *)

VtxosChange(k) ==
    /\ version[k] <= MaxVersion
    /\ version' = [version EXCEPT ![k] = @ + 1]
    /\ sub' = [c \in Call |->
          IF sub[c].pc = "listening" /\ sub[c].key = k
          THEN [sub[c] EXCEPT !.queue = Append(@, version'[k])] ELSE sub[c]]
    /\ UNCHANGED <<call, toWorker, toPage, worker, task, store, faults, raced, histVars>>

\* Handlers and fields are gone; the next message starts the worker again.
WorkerStops ==
    /\ faults < MaxFaults /\ faults' = faults + 1
    /\ lost' = lost \cup {c \in Call : task[c].pc \notin {"none", "done"}}
    /\ worker' = Nobody
    /\ task' = [c \in Call |-> NoTask] /\ sub' = [c \in Call |-> NoSub]
    /\ raced' = FALSE
    /\ UNCHANGED <<call, toWorker, toPage, version, store, missed>>

Handle(c) ==
    \/ HandleGetStatus(c) \/ HandleInitWallet(c) \/ HandleQuery(c)
    \/ HandleSettle(c) \/ HandleClear(c)
Step(c) ==
    \/ CreateWallet(c) \/ OpenRepository(c) \/ FetchVtxos(c) \/ StoreVtxos(c)
    \/ StartSubscription(c) \/ Subscribed(c) \/ ApplyUpdate(c)
    \/ AnswerQuery(c) \/ SettleSucceeds(c)

Next ==
    \/ \E c \in Call :
        \/ \E kind \in Kinds, key \in Key : Start(c, kind, key)
        \/ Handle(c) \/ Step(c)
        \/ SettleEvent(c) \/ SubscriptionFails(c) \/ HandlerThrows(c)
    \/ Deliver \/ WorkerStops
    \/ \E k \in Key : VtxosChange(k)

Spec == Init /\ [][Next]_vars

\* Messages arrive, and the worker's event loop runs what can run; requests
\* are answered.  Nothing makes the page call, vtxos change or requests fail.
Fairness ==
    /\ WF_vars(Deliver)
    /\ \A c \in Call : WF_vars(Handle(c)) /\ WF_vars(Step(c))
FairSpec == Spec /\ Fairness

-----------------------------------------------------------------------------
\* At most one subscription is open, it is the one that clear would abort, its
\* key is the wallet's and its database is open.
OneSubscription ==
    ~raced => \A c \in Call : sub[c].pc = "listening" =>
        worker.controller = c /\ worker.wallet = sub[c].key /\ worker.open

\* A worker that was cleared, or never initialised, holds nothing: no open
\* database, and nothing on its way that would open or fill it.
ClearedIsQuiet ==
    ~raced /\ worker.wallet = NoKey =>
        /\ ~worker.open
        /\ \A c \in Call :
            /\ task[c].pc \notin {"opening", "fetching", "storing", "starting"}
            /\ sub[c].pc \notin {"subscribing", "listening"}

\* A vtxo in the database is never overwritten with an older state of it.
StoreOnlyAdvances ==
    [][~raced' => \A k \in Key : store'[k] >= store[k]]_vars

\* The database is behind the indexer only by updates that wait to be stored,
\* if nothing changed before the subscription was open.
StoreFollows ==
    \A c \in Call : ~raced /\ sub[c].pc = "listening" /\ c \notin missed =>
        (IF sub[c].queue = <<>> THEN store[sub[c].key] ELSE Last(sub[c].queue))
            = version[sub[c].key]

\* Every call of the page settles, whatever fails, unless the browser stopped
\* the handler of its message: again and again no call is pending.
EveryCallSettles ==
    []<>(\A c \in Call : call[c].pc \in {"idle", "returned", "threw"} \/ c \in lost)

\* "clear wallet data stored in the service worker memory": what clear undid
\* stays undone until the next INIT_WALLET.
ClearedStaysCleared ==
    \A c \in Call :
        call[c].kind = "clear" /\ call[c].pc = "returned" /\ toWorker = <<>>
        /\ (\A d \in Call \ {c} : call[d].kind \in {"none", "init"} /\ call[d].pc # "status")
        /\ (\A d \in Call : task[d].pc \in {"none", "done"})
            => worker.wallet = NoKey

\* "Use like any other wallet": settle returns or throws what became of its
\* own settlement.
SettleGetsOwnAnswer ==
    \A c \in Call :
        call[c].kind = "settle" /\ call[c].pc \in {"returned", "threw"} => call[c].got = c

-----------------------------------------------------------------------------
\* What an inductive invariant says.  A message is one of a call that started,
\* and a call that started has a key.
KeysKnown ==
    /\ \A c \in Call : call[c].pc # "idle" \/ task[c].pc = "creating" => call[c].key \in Key
    /\ \A i \in 1 .. Len(toWorker) : call[toWorker[i].id].key \in Key

Starting(c) == task[c].pc \in {"creating", "opening", "fetching", "storing", "starting"}
Streaming(c) == sub[c].pc \in {"subscribing", "listening"}

\* Unless initialisations raced, one at most is under way or has come to its
\* stream, and the worker's fields are those it set.
OneAtATime ==
    ~raced => \A c, d \in Call :
        (Starting(c) \/ Streaming(c)) /\ (Starting(d) \/ Streaming(d))
            => c = d /\ ~(Starting(c) /\ Streaming(c))

FieldsFit ==
    ~raced =>
        /\ worker.wallet = NoKey =>
              ~worker.open /\ \A c \in Call :
                  Starting(c) \/ Streaming(c) => task[c].pc = "creating"
        /\ \A c \in Call :
              /\ task[c].pc = "creating" => worker.wallet = NoKey
              /\ task[c].pc \in {"fetching", "storing", "starting"} =>
                    worker.open /\ task[c].key = worker.wallet
              /\ Streaming(c) => worker.open /\ sub[c].key = worker.wallet
              /\ sub[c].pc = "listening" => worker.controller = c

\* Nothing in the worker is newer than the indexer, and updates queue in order.
NothingAhead ==
    /\ \A k \in Key : store[k] <= version[k]
    /\ \A c \in Call :
        /\ task[c].pc \in {"storing", "starting"} => task[c].read <= version[task[c].key]
        /\ sub[c].pc = "subscribing" => sub[c].queue = <<>>
        /\ sub[c].pc = "listening" => \A i, j \in 1 .. Len(sub[c].queue) :
              /\ sub[c].queue[i] <= version[sub[c].key]
              /\ i <= j => sub[c].queue[i] <= sub[c].queue[j]

\* What is on its way to the database is not older than what is there.
NothingBehind ==
    ~raced => \A c \in Call :
        /\ task[c].pc = "storing" => store[task[c].key] <= task[c].read
        /\ task[c].pc = "starting" => store[task[c].key] = task[c].read
        /\ sub[c].pc = "subscribing" => store[sub[c].key] = task[c].read
        /\ sub[c].pc = "listening" => \A i \in 1 .. Len(sub[c].queue) :
              store[sub[c].key] <= sub[c].queue[i]

IInv ==
    /\ TypeOK /\ KeysKnown /\ OneAtATime /\ FieldsFit
    /\ NothingAhead /\ NothingBehind /\ StoreFollows
==============================================================================
