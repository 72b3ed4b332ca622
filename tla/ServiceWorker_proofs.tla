------------------------ MODULE ServiceWorker_proofs ------------------------
(***************************************************************************)
(* Proofs about the worker and the page, for any number of calls, keys,    *)
(* changes and faults.                                                     *)
(***************************************************************************)
EXTENDS ServiceWorker, SequenceTheorems, TLAPS

\* No call has the number that stands for none.
LEMMA CallNotZero == NoCall \notin Call /\ Call \subseteq Nat
BY WorkerAssumption DEF NoCall, Call

-----------------------------------------------------------------------------
(* Types. *)

\* An answer settles a call or leaves it alone; its kind and key stay.
LEMMA HearsKeeps ==
    ASSUME NEW k \in CallType, NEW c \in Call, NEW answer \in Answer
    PROVE  /\ Hears(k, c, answer) \in CallType
           /\ Hears(k, c, answer).key = k.key
           /\ Hears(k, c, answer).pc = "idle" <=> k.pc = "idle"
<1> DEFINE h == Hears(k, c, answer)
<1>1. \A got \in Call \cup {NoCall}, pc \in {"idle", "status", "waiting", "returned", "threw"} :
        /\ [k EXCEPT !.got = got, !.pc = pc] \in CallType
        /\ [k EXCEPT !.got = got, !.pc = pc].key = k.key
        /\ [k EXCEPT !.got = got, !.pc = pc].pc = pc
        /\ [k EXCEPT !.pc = pc] \in CallType
        /\ [k EXCEPT !.pc = pc].key = k.key
        /\ [k EXCEPT !.pc = pc].pc = pc
  BY DEF CallType
<1>2. answer.id \in Call /\ answer.success \in BOOLEAN /\ answer.initialized \in BOOLEAN
  BY DEF Answer
<1>3. CASE k.kind = "settle" /\ k.pc = "waiting"
  BY <1>1, <1>2, <1>3 DEF Hears
<1>4. CASE ~(k.kind = "settle" /\ k.pc = "waiting")
  BY <1>1, <1>2, <1>4 DEF Hears
<1> QED
  BY <1>3, <1>4

\* A response is an answer.
LEMMA PostType ==
    ASSUME TypeOK, NEW c \in Call, NEW type \in AnswerName, Post(c, type)
    PROVE  toPage' \in Seq(Answer)
<1>1. [id |-> c, type |-> type, success |-> type # "ERROR",
       initialized |-> worker.wallet # NoKey] \in Answer
  BY DEF Answer
<1>2. toPage \in Seq(Answer)
  BY DEF TypeOK
<1> QED
  BY <1>1, <1>2, AppendProperties DEF Post

\* Taking a request off the queue leaves a queue of requests.
LEMMA ReceiveType ==
    ASSUME TypeOK, NEW c, NEW type, Receive(c, type)
    PROVE  toWorker' \in Seq(Request)
BY HeadTailProperties DEF TypeOK, Receive

\* A handler goes on to another place.
LEMMA TaskMoves ==
    ASSUME TypeOK, NEW c \in Call,
           NEW pc \in {"none", "creating", "opening", "fetching", "storing", "starting",
                       "querying", "settling", "done"}
    PROVE  LET t == [task EXCEPT ![c].pc = pc] IN
           /\ t \in [Call -> TaskType]
           /\ \A d \in Call : d # c => t[d] = task[d]
           /\ t[c].pc = pc /\ t[c].key = task[c].key /\ t[c].read = task[c].read
BY DEF TypeOK, TaskType

\* A subscription goes on to another place.
LEMMA SubMoves ==
    ASSUME TypeOK, NEW c \in Call, NEW pc \in {"none", "subscribing", "listening", "ended"}
    PROVE  LET s == [sub EXCEPT ![c].pc = pc] IN
           /\ s \in [Call -> SubType]
           /\ \A d \in Call : d # c => s[d] = sub[d]
           /\ s[c].pc = pc /\ s[c].key = sub[c].key /\ s[c].queue = sub[c].queue
BY DEF TypeOK, SubType

\* clear ends the subscription whose controller it has, and no other.
LEMMA AbortedEnds ==
    ASSUME TypeOK
    PROVE  /\ Aborted(sub) \in [Call -> SubType]
           /\ \A d \in Call : d # worker.controller => Aborted(sub)[d] = sub[d]
           /\ worker.controller \in Call => Aborted(sub)[worker.controller].pc = "ended"
<1>1. worker.controller \in Call \cup {NoCall} /\ sub \in [Call -> SubType]
  BY DEF TypeOK
<1>2. CASE worker.controller = NoCall
  BY <1>1, <1>2, CallNotZero DEF Aborted
<1>3. CASE worker.controller \in Call
  <2>1. PICK k \in Call : k = worker.controller
    BY <1>3
  <2>2. Aborted(sub) = [sub EXCEPT ![k].pc = "ended"]
    BY <2>1, CallNotZero DEF Aborted
  <2>3. /\ [sub EXCEPT ![k].pc = "ended"] \in [Call -> SubType]
        /\ \A d \in Call : d # k => [sub EXCEPT ![k].pc = "ended"][d] = sub[d]
        /\ [sub EXCEPT ![k].pc = "ended"][k].pc = "ended"
    BY SubMoves
  <2> QED
    BY <2>1, <2>2, <2>3
<1> QED
  BY <1>1, <1>2, <1>3

\* The handler of c leaves the initialisation, or was never in it; nothing else
\* in the worker changes.
Leaves(c) ==
    /\ \E pc \in {"querying", "settling", "done"} : task' = [task EXCEPT ![c].pc = pc]
    /\ UNCHANGED <<worker, sub, version, store, raced, missed>>

\* The handlers that only answer leave the coins of the call alone.
LEMMA LeavesTypes ==
    ASSUME TypeOK, NEW c \in Call, Leaves(c)
    PROVE  /\ task' \in [Call -> TaskType]
           /\ \A d \in Call : d # c => task'[d] = task[d]
           /\ task'[c].pc \in {"querying", "settling", "done"}
           /\ task'[c].key = task[c].key /\ task'[c].read = task[c].read
<1>1. PICK pc \in {"querying", "settling", "done"} : task' = [task EXCEPT ![c].pc = pc]
  BY DEF Leaves
<1> QED
  BY <1>1 DEF TypeOK, TaskType

\* Only the page and the messages change.
PageOnly == UNCHANGED <<worker, task, sub, version, store, raced, missed>>

\* What every step but those of the worker's state proper does to it.
LEMMA Asides ==
    ASSUME TypeOK, NEW c \in Call
    PROVE  /\ \A kind \in Kinds, key \in Key : Start(c, kind, key) => PageOnly
           /\ Deliver => PageOnly
           /\ HandleGetStatus(c) => PageOnly
           /\ SettleEvent(c) => PageOnly
           /\ HandleQuery(c) => PageOnly \/ Leaves(c)
           /\ HandleSettle(c) => PageOnly \/ Leaves(c)
           /\ AnswerQuery(c) => Leaves(c)
           /\ SettleSucceeds(c) => Leaves(c)
           /\ HandlerThrows(c) => Leaves(c)
BY DEF PageOnly, Leaves, Start, Deliver, HandleGetStatus, SettleEvent, HandleQuery,
       HandleSettle, AnswerQuery, SettleSucceeds, HandlerThrows, Receive, Continue,
       InitThrows, Becomes, histVars

\* The messages and the calls keep their types in every step.
LEMMA PageTypes ==
    ASSUME TypeOK, [Next]_vars
    PROVE  /\ call' \in [Call -> CallType]
           /\ toWorker' \in Seq(Request)
           /\ toPage' \in Seq(Answer)
<1>0. call \in [Call -> CallType] /\ toWorker \in Seq(Request) /\ toPage \in Seq(Answer)
  BY DEF TypeOK
<1>1. CASE \E c \in Call, kind \in Kinds, key \in Key : Start(c, kind, key)
  <2>1. PICK c \in Call, kind \in Kinds, key \in Key : Start(c, kind, key)
    BY <1>1
  <2>2. kind \in {"init", "query", "settle", "clear"}
    BY WorkerAssumption
  <2>3. [id |-> c, type |-> Message[kind]] \in Request
    BY <2>2 DEF Message, Request
  <2>4. [kind |-> kind, key |-> key, got |-> NoCall,
         pc |-> IF kind = "init" THEN "status" ELSE "waiting"] \in CallType
    BY DEF CallType
  <2>5. toWorker' \in Seq(Request)
    BY <1>0, <2>1, <2>3, AppendProperties DEF Start
  <2> QED
    BY <1>0, <2>1, <2>4, <2>5 DEF Start
<1>2. CASE Deliver
  <2>1. Head(toPage) \in Answer /\ toPage' \in Seq(Answer)
    BY <1>0, <1>2, HeadTailProperties DEF Deliver
  <2>2. call' \in [Call -> CallType]
    BY <1>0, <1>2, <2>1, HearsKeeps DEF Deliver
  <2>3. [id |-> Head(toPage).id, type |-> "INIT_WALLET"] \in Request
    BY <2>1 DEF Answer, Request
  <2>4. toWorker' \in Seq(Request)
    BY <1>0, <1>2, <2>3, AppendProperties DEF Deliver
  <2> QED
    BY <2>1, <2>2, <2>4
<1>3. CASE \E c \in Call : Handle(c)
  <2>1. PICK c \in Call : Handle(c)
    BY <1>3
  <2>2. \E type : Receive(c, type)
    BY <2>1 DEF Handle, HandleGetStatus, HandleInitWallet, HandleQuery, HandleSettle, HandleClear
  <2>3. toWorker' \in Seq(Request) /\ call' = call
    BY <2>2, ReceiveType DEF Receive
  <2>4. toPage' = toPage \/ \E type \in {"WALLET_STATUS", "ERROR", "CLEAR_RESPONSE"} : Post(c, type)
    BY <2>1 DEF Handle, HandleGetStatus, HandleInitWallet, HandleQuery, HandleSettle, HandleClear
  <2> QED
    BY <1>0, <2>3, <2>4, PostType DEF AnswerName
<1>4. CASE \E c \in Call : Step(c) \/ SettleEvent(c) \/ SubscriptionFails(c) \/ HandlerThrows(c)
  <2>1. PICK c \in Call : Step(c) \/ SettleEvent(c) \/ SubscriptionFails(c) \/ HandlerThrows(c)
    BY <1>4
  <2>2. UNCHANGED <<call, toWorker>>
    BY <2>1 DEF Step, CreateWallet, OpenRepository, FetchVtxos, StoreVtxos, StartSubscription,
       Subscribed, ApplyUpdate, AnswerQuery, SettleSucceeds, SettleEvent, SubscriptionFails,
       HandlerThrows, Continue, Streams
  <2>3. \/ toPage' = toPage
        \/ \E type \in {"WALLET_INITIALIZED", "ERROR", "RESULT", "SETTLE_SUCCESS", "SETTLE_EVENT"} :
              Post(c, type)
    BY <2>1 DEF Step, CreateWallet, OpenRepository, FetchVtxos, StoreVtxos, StartSubscription,
       Subscribed, ApplyUpdate, AnswerQuery, SettleSucceeds, SettleEvent, SubscriptionFails,
       HandlerThrows, InitThrows, Streams
  <2> QED
    BY <1>0, <2>2, <2>3, PostType DEF AnswerName
<1>5. CASE WorkerStops \/ (\E k \in Key : VtxosChange(k)) \/ UNCHANGED vars
  BY <1>0, <1>5 DEF WorkerStops, VtxosChange, vars
<1> QED
  BY <1>1, <1>2, <1>3, <1>4, <1>5 DEF Next

-----------------------------------------------------------------------------
(* Queues. *)

\* Taking the head off a queue.
LEMMA QueueShrinks ==
    ASSUME NEW S, NEW s \in Seq(S), s # <<>>
    PROVE  /\ Head(s) = s[1] /\ Head(s) \in S /\ 1 \in 1 .. Len(s)
           /\ Tail(s) \in Seq(S) /\ Len(Tail(s)) = Len(s) - 1
           /\ \A i \in 1 .. Len(Tail(s)) : i + 1 \in 1 .. Len(s) /\ Tail(s)[i] = s[i + 1]
<1>1. Len(s) \in Nat /\ Len(s) # 0
  BY EmptySeq, LenProperties
<1>2. Tail(s) \in Seq(S) /\ Len(Tail(s)) = Len(s) - 1
  BY HeadTailProperties
<1>3. \A i \in 1 .. Len(Tail(s)) : Tail(s)[i] = s[i + 1]
  BY HeadTailProperties
<1> QED
  BY <1>1, <1>2, <1>3, HeadTailProperties

\* Putting one more element on a queue.
LEMMA QueueGrows ==
    ASSUME NEW S, NEW s \in Seq(S), NEW e \in S
    PROVE  /\ Append(s, e) \in Seq(S) /\ Append(s, e) # <<>>
           /\ Len(Append(s, e)) = Len(s) + 1 /\ Len(s) \in Nat
           /\ \A i \in 1 .. Len(Append(s, e)) :
                  \/ i \in 1 .. Len(s) /\ Append(s, e)[i] = s[i]
                  \/ i = Len(s) + 1 /\ Append(s, e)[i] = e
           /\ Last(Append(s, e)) = e
<1>1. Len(s) \in Nat
  BY LenProperties
<1>2. /\ Append(s, e) \in Seq(S) /\ Len(Append(s, e)) = Len(s) + 1
      /\ \A i \in 1 .. Len(s) : Append(s, e)[i] = s[i]
      /\ Append(s, e)[Len(s) + 1] = e
  BY AppendProperties
<1>3. Append(s, e) # <<>>
  BY <1>1, <1>2, EmptySeq
<1> QED
  BY <1>1, <1>2, <1>3 DEF Last

\* A queue of versions, none newer than v, in the order in which they came.
Ordered(q, v) ==
    \A i, j \in 1 .. Len(q) : q[i] <= v /\ (i <= j => q[i] <= q[j])

\* A queue of versions of which none is older than m.
AtLeast(q, m) == \A i \in 1 .. Len(q) : m <= q[i]

\* A queue in order, without its head.
LEMMA OrderedShrinks ==
    ASSUME NEW S, S \subseteq Int, NEW q \in Seq(S), q # <<>>, NEW v \in Int, Ordered(q, v)
    PROVE  /\ Ordered(Tail(q), v) /\ Head(q) \in S /\ Head(q) <= v
           /\ Head(q) = q[1] /\ 1 \in 1 .. Len(q)
           /\ \A i \in 1 .. Len(Tail(q)) : Head(q) <= Tail(q)[i]
           /\ (IF Tail(q) = <<>> THEN Head(q) ELSE Last(Tail(q))) = Last(q)
<1>1. /\ Head(q) = q[1] /\ Head(q) \in S /\ 1 \in 1 .. Len(q)
      /\ Tail(q) \in Seq(S) /\ Len(Tail(q)) = Len(q) - 1
      /\ \A i \in 1 .. Len(Tail(q)) : i + 1 \in 1 .. Len(q) /\ Tail(q)[i] = q[i + 1]
  BY QueueShrinks
<1>2. Len(q) \in Nat /\ Len(Tail(q)) \in Nat /\ \A i \in 1 .. Len(q) : q[i] \in S
  BY <1>1, LenProperties, ElementOfSeq
<1>3. Ordered(Tail(q), v)
  <2>1. ASSUME NEW i \in 1 .. Len(Tail(q)), NEW j \in 1 .. Len(Tail(q))
        PROVE  Tail(q)[i] <= v /\ (i <= j => Tail(q)[i] <= Tail(q)[j])
    <3>1. PICK m, n \in 1 .. Len(q) : m = i + 1 /\ n = j + 1
      BY <1>1
    <3>2. Tail(q)[i] = q[m] /\ Tail(q)[j] = q[n] /\ (i <= j => m <= n)
      BY <1>1, <1>2, <3>1
    <3> QED
      BY <3>2 DEF Ordered
  <2> QED
    BY <2>1 DEF Ordered
<1>4. Head(q) <= v /\ \A i \in 1 .. Len(Tail(q)) : Head(q) <= Tail(q)[i]
  BY <1>1, <1>2 DEF Ordered
<1>5. CASE Tail(q) = <<>>
  <2>1. Len(Tail(q)) = 0
    BY <1>5, EmptySeq
  <2>2. Len(q) \in Nat /\ 0 = Len(q) - 1
    BY <1>1, <1>2, <2>1, Zenon
  <2>3. Len(q) = 1
    BY <2>2
  <2> QED
    BY <1>1, <1>3, <1>4, <1>5, <2>3 DEF Last
<1>6. CASE Tail(q) # <<>>
  <2>1. Len(Tail(q)) # 0
    BY <1>1, <1>6, EmptySeq
  <2>2. Len(Tail(q)) \in 1 .. Len(Tail(q)) /\ Len(Tail(q)) + 1 = Len(q)
    BY <1>1, <1>2, <2>1
  <2>3. Tail(q)[Len(Tail(q))] = q[Len(q)]
    BY <1>1, <2>2
  <2> QED
    BY <1>1, <1>3, <1>4, <1>6, <2>3 DEF Last
<1> QED
  BY <1>5, <1>6

\* A queue in order, with a later version at its end.
LEMMA OrderedGrows ==
    ASSUME NEW S, S \subseteq Int, NEW q \in Seq(S), NEW u \in Int, NEW v \in S, u <= v,
           Ordered(q, u)
    PROVE  /\ Append(q, v) \in Seq(S) /\ Append(q, v) # <<>> /\ Last(Append(q, v)) = v
           /\ Ordered(Append(q, v), v)
           /\ \A m \in Int : m <= v /\ AtLeast(q, m) => AtLeast(Append(q, v), m)
<1>1. /\ Append(q, v) \in Seq(S) /\ Append(q, v) # <<>> /\ Last(Append(q, v)) = v
      /\ \A i \in 1 .. Len(Append(q, v)) :
             \/ i \in 1 .. Len(q) /\ Append(q, v)[i] = q[i]
             \/ i = Len(q) + 1 /\ Append(q, v)[i] = v
      /\ Len(q) \in Nat
  BY QueueGrows
<1>2. v \in Int /\ \A i \in 1 .. Len(q) : q[i] \in Int
  BY ElementOfSeq
<1>3. ASSUME NEW i \in 1 .. Len(Append(q, v)), NEW j \in 1 .. Len(Append(q, v))
      PROVE  Append(q, v)[i] <= v /\ (i <= j => Append(q, v)[i] <= Append(q, v)[j])
  <2>1. \A n \in 1 .. Len(q) : q[n] <= v /\ q[n] \in Int
    <3>1. \A n \in 1 .. Len(q) : q[n] <= u
      BY DEF Ordered
    <3> QED
      BY <1>2, <3>1
  <2>2. CASE i = Len(q) + 1 /\ Append(q, v)[i] = v
    <3>1. i <= j => j = Len(q) + 1
      BY <1>1, <1>3, <2>2
    <3> QED
      BY <1>1, <1>2, <2>2, <3>1
  <2>3. CASE i \in 1 .. Len(q) /\ Append(q, v)[i] = q[i]
    <3>1. CASE j \in 1 .. Len(q) /\ Append(q, v)[j] = q[j]
      BY <2>1, <2>3, <3>1 DEF Ordered
    <3>2. CASE j = Len(q) + 1 /\ Append(q, v)[j] = v
      BY <2>1, <2>3, <3>2
    <3> QED
      BY <1>1, <1>3, <3>1, <3>2
  <2> QED
    BY <1>1, <1>3, <2>2, <2>3
<1>4. Ordered(Append(q, v), v)
  BY <1>3 DEF Ordered
<1>5. \A m \in Int : m <= v /\ AtLeast(q, m) => AtLeast(Append(q, v), m)
  BY <1>1, <1>2 DEF AtLeast
<1> QED
  BY <1>1, <1>4, <1>5

-----------------------------------------------------------------------------
(* What each step of the worker does to its state, field by field. *)

WorkerType ==
    [wallet : Key \cup {NoKey}, provider : BOOLEAN, open : BOOLEAN, controller : Call \cup {NoCall}]

\* The handler of c goes from one place to another and the others stay.
Moves(c, from, to) ==
    /\ task[c].pc = from /\ task'[c].pc \in to
    /\ task' \in [Call -> TaskType]
    /\ \A d \in Call : d # c => task'[d] = task[d]

\* The subscription of c goes from one place to another and the others stay.
Turns(c, from, to) ==
    /\ sub[c].pc \in from /\ sub'[c].pc \in to /\ sub'[c].key = sub[c].key
    /\ sub' \in [Call -> SubType]
    /\ \A d \in Call : d # c => sub'[d] = sub[d]

\* What handleInitWallet does.
LEMMA InitWalletShape ==
    ASSUME TypeOK, NEW c \in Call, HandleInitWallet(c)
    PROVE  /\ Moves(c, task[c].pc, {"creating"})
           /\ worker' \in WorkerType /\ worker'.wallet = worker.wallet
           /\ worker'.open = worker.open /\ worker'.controller = worker.controller
           /\ raced' = (raced \/ Initialising \/ worker.wallet # NoKey)
           /\ UNCHANGED <<sub, version, store, missed>>
<1>1. [NoTask EXCEPT !.pc = "creating"] \in TaskType /\ [NoTask EXCEPT !.pc = "creating"].pc = "creating"
  BY WorkerAssumption DEF NoTask, TaskType
<1>2. task' = [task EXCEPT ![c] = [NoTask EXCEPT !.pc = "creating"]]
  BY DEF HandleInitWallet
<1>3. Moves(c, task[c].pc, {"creating"})
  BY <1>1, <1>2 DEF TypeOK, Moves
<1> QED
  BY <1>3 DEF TypeOK, HandleInitWallet, Receive, WorkerType, histVars

\* What handleClear does.
LEMMA ClearShape ==
    ASSUME TypeOK, NEW c \in Call, HandleClear(c)
    PROVE  /\ worker' = Nobody /\ sub' = Aborted(sub)
           /\ raced' = (raced \/ Initialising)
           /\ UNCHANGED <<task, version, store, missed>>
BY DEF HandleClear, Receive, histVars

\* What creating the wallet does.
LEMMA CreateShape ==
    ASSUME TypeOK, KeysKnown, NEW c \in Call, CreateWallet(c)
    PROVE  /\ Moves(c, "creating", {"opening", "done"})
           /\ worker' \in WorkerType /\ worker'.wallet \in Key
           /\ worker'.open = worker.open /\ worker'.controller = worker.controller
           /\ UNCHANGED <<sub, version, store, raced, missed>>
<1>1. task[c].pc = "creating" /\ call[c].key \in Key
  BY DEF CreateWallet, Continue, KeysKnown
<1>2. PICK pc \in {"opening", "done"} : task' = [task EXCEPT ![c].pc = pc]
  BY DEF CreateWallet, Becomes
<1>3. Moves(c, "creating", {"opening", "done"})
  BY <1>1, <1>2 DEF Moves, TypeOK, TaskType
<1> QED
  BY <1>1, <1>3 DEF TypeOK, CreateWallet, Continue, WorkerType

\* What opening the repository does.
LEMMA OpenShape ==
    ASSUME TypeOK, NEW c \in Call, OpenRepository(c)
    PROVE  /\ \/ Moves(c, "opening", {"done"})
              \/ /\ worker.wallet \in Key
                 /\ Moves(c, "opening", {"fetching"}) /\ task'[c].key = worker.wallet
           /\ worker' = [worker EXCEPT !.open = TRUE]
           /\ worker' \in WorkerType /\ worker'.wallet = worker.wallet
           /\ worker'.open /\ worker'.controller = worker.controller
           /\ UNCHANGED <<sub, version, store, raced, missed>>
<1>1. task[c].pc = "opening"
  BY DEF OpenRepository, Continue
<1>2. CASE worker.wallet = NoKey \/ ~worker.provider
  <2>1. task' = [task EXCEPT ![c].pc = "done"]
    BY <1>2 DEF OpenRepository, InitThrows, Becomes
  <2>2. Moves(c, "opening", {"done"})
    BY <1>1, <2>1 DEF TypeOK, TaskType, Moves
  <2> QED
    BY <2>2 DEF TypeOK, OpenRepository, Continue, WorkerType
<1>3. CASE ~(worker.wallet = NoKey \/ ~worker.provider)
  <2>1. task' = [task EXCEPT ![c].pc = "fetching", ![c].key = worker.wallet]
    BY <1>3 DEF OpenRepository
  <2>2. worker.wallet \in Key
    BY <1>3 DEF TypeOK
  <2>3. \A k \in Key : [task[c] EXCEPT !.pc = "fetching", !.key = k] \in TaskType
    BY DEF TypeOK, TaskType
  <2>4. Moves(c, "opening", {"fetching"}) /\ task'[c].key = worker.wallet
    BY <1>1, <2>1, <2>2, <2>3 DEF TypeOK, TaskType, Moves
  <2> QED
    BY <2>2, <2>4 DEF TypeOK, OpenRepository, Continue, WorkerType
<1> QED
  BY <1>2, <1>3

\* What listing the vtxos does.
LEMMA FetchShape ==
    ASSUME TypeOK, NEW c \in Call, FetchVtxos(c)
    PROVE  /\ Moves(c, "fetching", {"storing"})
           /\ task'[c].key = task[c].key /\ task[c].key \in Key
           /\ task'[c].read = version[task[c].key]
           /\ UNCHANGED <<worker, sub, version, store, raced, missed>>
<1>1. task[c].pc = "fetching" /\ task[c].key \in Key
  BY DEF TypeOK, FetchVtxos, Continue
<1>2. version[task[c].key] \in 0 .. MaxVersion + 1
  BY <1>1 DEF TypeOK
<1>3. \A r \in 0 .. MaxVersion + 1 : [task[c] EXCEPT !.pc = "storing", !.read = r] \in TaskType
  BY DEF TypeOK, TaskType
<1>4. task' = [task EXCEPT ![c].pc = "storing", ![c].read = version[task[c].key]]
  BY DEF FetchVtxos
<1>5. Moves(c, "fetching", {"storing"}) /\ task'[c].key = task[c].key
      /\ task'[c].read = version[task[c].key]
  BY <1>1, <1>2, <1>3, <1>4 DEF TypeOK, TaskType, Moves
<1> QED
  BY <1>1, <1>5 DEF FetchVtxos, Continue

\* What storing the listed vtxos does.
LEMMA StoreShape ==
    ASSUME TypeOK, NEW c \in Call, StoreVtxos(c)
    PROVE  /\ \/ Moves(c, "storing", {"done"}) /\ ~worker.open /\ UNCHANGED store
              \/ /\ Moves(c, "storing", {"starting"})
                 /\ store' = [store EXCEPT ![task[c].key] = task[c].read]
           /\ task[c].key \in Key /\ task[c].read \in 0 .. MaxVersion + 1
           /\ task'[c].key = task[c].key /\ task'[c].read = task[c].read
           /\ UNCHANGED <<worker, sub, version, raced, missed>>
<1>1. task[c].pc = "storing" /\ task[c].key \in Key /\ task[c].read \in 0 .. MaxVersion + 1
  BY DEF TypeOK, TaskType, StoreVtxos, Continue
<1>2. CASE worker.open
  <2>1. task' = [task EXCEPT ![c].pc = "starting"]
    BY <1>2 DEF StoreVtxos, Becomes
  <2>2. Moves(c, "storing", {"starting"}) /\ task'[c].key = task[c].key /\ task'[c].read = task[c].read
    BY <1>1, <2>1 DEF TypeOK, TaskType, Moves
  <2> QED
    BY <1>1, <1>2, <2>2 DEF StoreVtxos, Continue
<1>3. CASE ~worker.open
  <2>1. task' = [task EXCEPT ![c].pc = "done"]
    BY <1>3 DEF StoreVtxos, InitThrows, Becomes
  <2>2. Moves(c, "storing", {"done"}) /\ task'[c].key = task[c].key /\ task'[c].read = task[c].read
    BY <1>1, <2>1 DEF TypeOK, TaskType, Moves
  <2> QED
    BY <1>1, <1>3, <2>2 DEF StoreVtxos, Continue
<1> QED
  BY <1>2, <1>3

\* What subscribing to the wallet's scripts does.
LEMMA StartShape ==
    ASSUME TypeOK, NEW c \in Call, StartSubscription(c)
    PROVE  /\ Moves(c, "starting", {"done"})
           /\ task'[c].read = task[c].read /\ task[c].key \in Key
           /\ \/ UNCHANGED sub
              \/ /\ sub' \in [Call -> SubType]
                 /\ sub'[c].pc \in {"subscribing", "ended"}
                 /\ sub'[c].key = task[c].key /\ sub'[c].queue = <<>>
                 /\ \A d \in Call : d # c => sub'[d] = sub[d]
           /\ UNCHANGED <<worker, version, store, raced, missed>>
<1>1. task[c].pc = "starting" /\ task[c].key \in Key
  BY DEF TypeOK, StartSubscription, Continue
<1>2. task' = [task EXCEPT ![c].pc = "done"]
  BY DEF StartSubscription, InitThrows, Becomes
<1>3. Moves(c, "starting", {"done"}) /\ task'[c].read = task[c].read
  BY <1>1, <1>2 DEF TypeOK, TaskType, Moves
<1>4. CASE worker.wallet = NoKey
  BY <1>1, <1>3, <1>4 DEF StartSubscription, Continue
<1>5. CASE worker.wallet # NoKey
  <2>1. PICK pc \in {"subscribing", "ended"} :
            sub' = [sub EXCEPT ![c] = [NoSub EXCEPT !.key = task[c].key, !.pc = pc]]
    BY <1>5 DEF StartSubscription
  <2>2. <<>> \in Seq(1 .. MaxVersion + 1)
    BY EmptySeq
  <2>3. /\ [NoSub EXCEPT !.key = task[c].key, !.pc = pc] \in SubType
        /\ [NoSub EXCEPT !.key = task[c].key, !.pc = pc].pc = pc
        /\ [NoSub EXCEPT !.key = task[c].key, !.pc = pc].key = task[c].key
        /\ [NoSub EXCEPT !.key = task[c].key, !.pc = pc].queue = <<>>
    BY <1>1, <2>2 DEF NoSub, SubType
  <2>4. /\ sub' \in [Call -> SubType]
        /\ sub'[c].pc = pc /\ sub'[c].key = task[c].key /\ sub'[c].queue = <<>>
        /\ \A d \in Call : d # c => sub'[d] = sub[d]
    BY <2>1, <2>3 DEF TypeOK
  <2> QED
    BY <1>1, <1>3, <2>4 DEF StartSubscription, Continue
<1> QED
  BY <1>4, <1>5

\* A subscription opens, or fails for want of a provider.
LEMMA SubscribedShape ==
    ASSUME TypeOK, NEW c \in Call, Subscribed(c)
    PROVE  /\ \/ Turns(c, {"subscribing"}, {"listening"}) /\ worker' = [worker EXCEPT !.controller = c]
                 /\ worker'.controller = c
              \/ Turns(c, {"subscribing"}, {"ended"}) /\ UNCHANGED worker
           /\ sub[c].key \in Key /\ sub'[c].queue = sub[c].queue
           /\ worker' \in WorkerType /\ worker'.wallet = worker.wallet
           /\ worker'.open = worker.open
           /\ missed' = IF version[sub[c].key] # task[c].read THEN missed \cup {c} ELSE missed
           /\ UNCHANGED <<task, version, store, raced>>
<1>1. sub[c].pc = "subscribing" /\ sub[c].key \in Key
  BY DEF TypeOK, Subscribed
<1>2. CASE worker.provider
  <2>1. sub' = [sub EXCEPT ![c].pc = "listening"] /\ worker' = [worker EXCEPT !.controller = c]
    BY <1>2 DEF Subscribed
  <2>2. Turns(c, {"subscribing"}, {"listening"}) /\ sub'[c].queue = sub[c].queue
    BY <1>1, <2>1 DEF TypeOK, SubType, Turns
  <2>3. worker' \in WorkerType /\ worker'.controller = c /\ worker'.wallet = worker.wallet
        /\ worker'.open = worker.open
    BY <2>1 DEF TypeOK, WorkerType
  <2> QED
    BY <1>1, <2>1, <2>2, <2>3 DEF Subscribed, Streams
<1>3. CASE ~worker.provider
  <2>1. sub' = [sub EXCEPT ![c].pc = "ended"] /\ worker' = worker
    BY <1>3 DEF Subscribed
  <2>2. Turns(c, {"subscribing"}, {"ended"}) /\ sub'[c].queue = sub[c].queue
    BY <1>1, <2>1 DEF TypeOK, SubType, Turns
  <2>3. worker' \in WorkerType
    BY <2>1 DEF TypeOK, WorkerType
  <2> QED
    BY <1>1, <2>1, <2>2, <2>3 DEF Subscribed, Streams
<1> QED
  BY <1>2, <1>3

\* What an update of the subscription does.
LEMMA ApplyShape ==
    ASSUME TypeOK, NEW c \in Call, ApplyUpdate(c)
    PROVE  /\ \/ /\ Turns(c, {"listening"}, {"listening"}) /\ sub[c].queue # <<>>
                 /\ sub'[c].queue = Tail(sub[c].queue)
                 /\ store' = [store EXCEPT ![sub[c].key] = Head(sub[c].queue)]
              \/ Turns(c, {"listening"}, {"ended"}) /\ UNCHANGED store
           /\ sub[c].key \in Key /\ sub[c].queue \in Seq(1 .. MaxVersion + 1)
           /\ UNCHANGED <<worker, task, version, raced, missed>>
<1>1. sub[c].pc = "listening" /\ sub[c].key \in Key /\ sub[c].queue \in Seq(1 .. MaxVersion + 1)
      /\ sub[c].queue # <<>>
  BY DEF TypeOK, SubType, ApplyUpdate
<1>2. CASE worker.open
  <2>1. sub' = [sub EXCEPT ![c].queue = Tail(@)]
        /\ store' = [store EXCEPT ![sub[c].key] = Head(sub[c].queue)]
    BY <1>2 DEF ApplyUpdate
  <2>2. Tail(sub[c].queue) \in Seq(1 .. MaxVersion + 1)
    BY <1>1, HeadTailProperties
  <2>3. \A q \in Seq(1 .. MaxVersion + 1) :
            /\ [sub[c] EXCEPT !.queue = q] \in SubType
            /\ [sub[c] EXCEPT !.queue = q].pc = sub[c].pc
            /\ [sub[c] EXCEPT !.queue = q].key = sub[c].key
            /\ [sub[c] EXCEPT !.queue = q].queue = q
    BY DEF TypeOK, SubType
  <2>4. sub' = [sub EXCEPT ![c] = [sub[c] EXCEPT !.queue = Tail(sub[c].queue)]]
    BY <2>1
  <2>5. Turns(c, {"listening"}, {"listening"}) /\ sub'[c].queue = Tail(sub[c].queue)
    BY <1>1, <2>2, <2>3, <2>4 DEF TypeOK, Turns
  <2> QED
    BY <1>1, <2>1, <2>5 DEF ApplyUpdate, Streams
<1>3. CASE ~worker.open
  <2>1. sub' = [sub EXCEPT ![c].pc = "ended"] /\ store' = store
    BY <1>3 DEF ApplyUpdate
  <2>2. Turns(c, {"listening"}, {"ended"})
    BY <1>1, <2>1 DEF TypeOK, SubType, Turns
  <2> QED
    BY <1>1, <2>1, <2>2 DEF ApplyUpdate, Streams
<1> QED
  BY <1>2, <1>3

\* What a failing subscription does.
LEMMA FailsShape ==
    ASSUME TypeOK, NEW c \in Call, SubscriptionFails(c)
    PROVE  /\ Turns(c, {"subscribing", "listening"}, {"ended"})
           /\ UNCHANGED <<worker, task, version, store, raced, missed>>
<1>1. sub' = [sub EXCEPT ![c].pc = "ended"] /\ sub[c].pc \in {"subscribing", "listening"}
  BY DEF SubscriptionFails
<1>2. Turns(c, {"subscribing", "listening"}, {"ended"})
  BY <1>1 DEF TypeOK, SubType, Turns
<1> QED
  BY <1>2 DEF SubscriptionFails, Streams

\* A change is queued by the subscriptions that listen to the key.
LEMMA ChangeShape ==
    ASSUME TypeOK, NEW k \in Key, VtxosChange(k)
    PROVE  /\ version[k] <= MaxVersion /\ version' = [version EXCEPT ![k] = version[k] + 1]
           /\ version[k] + 1 \in 1 .. MaxVersion + 1
           /\ sub' \in [Call -> SubType]
           /\ \A d \in Call :
                /\ sub'[d].pc = sub[d].pc /\ sub'[d].key = sub[d].key
                /\ sub'[d].queue =
                      IF sub[d].pc = "listening" /\ sub[d].key = k
                      THEN Append(sub[d].queue, version[k] + 1) ELSE sub[d].queue
           /\ UNCHANGED <<worker, task, store, raced, missed>>
<1>1. version[k] <= MaxVersion /\ version' = [version EXCEPT ![k] = version[k] + 1]
  BY DEF VtxosChange
<1>2. version[k] + 1 \in 1 .. MaxVersion + 1 /\ version'[k] = version[k] + 1
  BY <1>1, WorkerAssumption DEF TypeOK
<1>3. \A d \in Call, q \in Seq(1 .. MaxVersion + 1) :
        /\ [sub[d] EXCEPT !.queue = q] \in SubType
        /\ [sub[d] EXCEPT !.queue = q].pc = sub[d].pc
        /\ [sub[d] EXCEPT !.queue = q].key = sub[d].key
        /\ [sub[d] EXCEPT !.queue = q].queue = q
  BY DEF TypeOK, SubType
<1>4. \A d \in Call : Append(sub[d].queue, version[k] + 1) \in Seq(1 .. MaxVersion + 1)
  <2> TAKE d \in Call
  <2>1. sub[d].queue \in Seq(1 .. MaxVersion + 1)
    BY DEF TypeOK, SubType
  <2> QED
    BY <1>2, <2>1, AppendProperties
<1>5. sub' = [d \in Call |->
        IF sub[d].pc = "listening" /\ sub[d].key = k
        THEN [sub[d] EXCEPT !.queue = Append(sub[d].queue, version[k] + 1)] ELSE sub[d]]
  BY <1>2 DEF VtxosChange
<1>6. \A d \in Call :
        /\ sub'[d] \in SubType
        /\ sub'[d].pc = sub[d].pc /\ sub'[d].key = sub[d].key
        /\ sub'[d].queue =
              IF sub[d].pc = "listening" /\ sub[d].key = k
              THEN Append(sub[d].queue, version[k] + 1) ELSE sub[d].queue
  <2> TAKE d \in Call
  <2>1. sub[d] \in SubType /\ sub[d].queue \in Seq(1 .. MaxVersion + 1)
    BY DEF TypeOK, SubType
  <2>2. CASE sub[d].pc = "listening" /\ sub[d].key = k
    <3>1. PICK q \in Seq(1 .. MaxVersion + 1) : q = Append(sub[d].queue, version[k] + 1)
      BY <1>4
    <3>2. sub'[d] = [sub[d] EXCEPT !.queue = q]
      BY <1>5, <2>2, <3>1
    <3>3. sub'[d] \in SubType /\ sub'[d].pc = sub[d].pc /\ sub'[d].key = sub[d].key
          /\ sub'[d].queue = q
      BY <1>3, <3>2
    <3> QED
      BY <2>2, <3>1, <3>3
  <2>3. CASE ~(sub[d].pc = "listening" /\ sub[d].key = k)
    BY <1>5, <2>1, <2>3
  <2> QED
    BY <2>2, <2>3
<1>7. sub' \in [Call -> SubType]
  BY <1>5, <1>6
<1> QED
  BY <1>1, <1>2, <1>6, <1>7 DEF VtxosChange, histVars

\* What is left of the worker when it is stopped.
LEMMA StopsShape ==
    ASSUME TypeOK, WorkerStops
    PROVE  /\ worker' = Nobody
           /\ task' = [c \in Call |-> NoTask] /\ task' \in [Call -> TaskType]
           /\ sub' = [c \in Call |-> NoSub] /\ sub' \in [Call -> SubType]
           /\ UNCHANGED <<version, store, missed>> /\ ~raced'
<1>1. NoTask \in TaskType
  BY WorkerAssumption DEF NoTask, TaskType
<1>2. <<>> \in Seq(1 .. MaxVersion + 1)
  BY EmptySeq
<1>3. NoSub \in SubType
  BY <1>2 DEF NoSub, SubType
<1> QED
  BY <1>1, <1>3 DEF WorkerStops

-----------------------------------------------------------------------------
(* Messages are of calls whose key is known. *)

\* Every step keeps the keys of what the worker runs among the keys it was given.
LEMMA KeysStep ==
    ASSUME TypeOK, KeysKnown, [Next]_vars
    PROVE  KeysKnown'
<1>0. call \in [Call -> CallType] /\ toWorker \in Seq(Request) /\ toPage \in Seq(Answer)
      /\ task \in [Call -> TaskType]
  BY DEF TypeOK
<1>1. CASE \E c \in Call, kind \in Kinds, key \in Key : Start(c, kind, key)
  <2>1. PICK c \in Call, kind \in Kinds, key \in Key : Start(c, kind, key)
    BY <1>1
  <2>2. kind \in {"init", "query", "settle", "clear"}
    BY WorkerAssumption
  <2>3. [id |-> c, type |-> Message[kind]] \in Request
    BY <2>2 DEF Message, Request
  <2>4. call'[c].key = key /\ \A d \in Call : d # c => call'[d] = call[d]
    BY <1>0, <2>1 DEF Start
  <2>5. toWorker' = Append(toWorker, [id |-> c, type |-> Message[kind]])
    BY <2>1 DEF Start
  <2>6. \A i \in 1 .. Len(toWorker') :
            \/ i \in 1 .. Len(toWorker) /\ toWorker'[i] = toWorker[i]
            \/ toWorker'[i].id = c
    BY <1>0, <2>3, <2>5, QueueGrows
  <2>7. \A i \in 1 .. Len(toWorker) : toWorker[i] \in Request
    BY <1>0, ElementOfSeq
  <2> QED
    BY <2>1, <2>4, <2>6, <2>7 DEF KeysKnown, Start, Request
<1>2. CASE Deliver
  <2>1. Head(toPage) \in Answer
    BY <1>0, <1>2, HeadTailProperties DEF Deliver
  <2>2. \A d \in Call : call'[d].key = call[d].key /\ (call'[d].pc = "idle" <=> call[d].pc = "idle")
    BY <1>0, <1>2, <2>1, HearsKeeps DEF Deliver
  <2>3. PICK c \in Call : c = Head(toPage).id
    BY <2>1 DEF Answer
  <2>4. [id |-> c, type |-> "INIT_WALLET"] \in Request
    BY DEF Request
  <2>5. \/ toWorker' = toWorker
        \/ call[c].pc = "status" /\ toWorker' = Append(toWorker, [id |-> c, type |-> "INIT_WALLET"])
    BY <1>2, <2>3 DEF Deliver
  <2>6. \A i \in 1 .. Len(toWorker') :
            \/ i \in 1 .. Len(toWorker) /\ toWorker'[i] = toWorker[i]
            \/ toWorker'[i].id = c /\ call[c].pc = "status"
    BY <1>0, <2>4, <2>5, QueueGrows
  <2>7. \A i \in 1 .. Len(toWorker) : toWorker[i] \in Request
    BY <1>0, ElementOfSeq
  <2>8. task' = task
    BY <1>2 DEF Deliver
  <2> QED
    BY <2>2, <2>6, <2>7, <2>8 DEF KeysKnown, Request
<1>3. CASE \E c \in Call : Handle(c)
  <2>1. PICK c \in Call : Handle(c)
    BY <1>3
  <2>2. PICK type : Receive(c, type)
    BY <2>1 DEF Handle, HandleGetStatus, HandleInitWallet, HandleQuery, HandleSettle, HandleClear
  <2>3. call' = call /\ toWorker' = Tail(toWorker) /\ toWorker # <<>> /\ Head(toWorker).id = c
    BY <2>2 DEF Receive
  <2>4. call[c].key \in Key
    BY <1>0, <2>3, QueueShrinks DEF KeysKnown
  <2>5. \A i \in 1 .. Len(toWorker') : call[toWorker'[i].id].key \in Key
    BY <1>0, <2>3, QueueShrinks DEF KeysKnown
  <2>6. \A d \in Call : task'[d].pc = "creating" => task[d].pc = "creating" \/ d = c
    BY <1>0, <2>1 DEF Handle, HandleGetStatus, HandleInitWallet, HandleQuery, HandleSettle, HandleClear
  <2> QED
    BY <2>3, <2>4, <2>5, <2>6 DEF KeysKnown
<1>4. CASE \E c \in Call : Step(c) \/ SettleEvent(c) \/ SubscriptionFails(c) \/ HandlerThrows(c)
  <2>1. PICK c \in Call : Step(c) \/ SettleEvent(c) \/ SubscriptionFails(c) \/ HandlerThrows(c)
    BY <1>4
  <2>2. UNCHANGED <<call, toWorker>>
    BY <2>1 DEF Step, CreateWallet, OpenRepository, FetchVtxos, StoreVtxos, StartSubscription,
       Subscribed, ApplyUpdate, AnswerQuery, SettleSucceeds, SettleEvent, SubscriptionFails,
       HandlerThrows, Continue, Streams
  <2>3. \A d \in Call : task'[d].pc = "creating" => task[d].pc = "creating"
    <3>1. CASE CreateWallet(c) \/ OpenRepository(c) \/ FetchVtxos(c) \/ StoreVtxos(c)
               \/ StartSubscription(c)
      BY <3>1, CreateShape, OpenShape, FetchShape, StoreShape, StartShape DEF Moves
    <3>2. CASE Subscribed(c) \/ ApplyUpdate(c) \/ SubscriptionFails(c)
      BY <3>2 DEF Subscribed, ApplyUpdate, SubscriptionFails, Streams
    <3>3. CASE AnswerQuery(c) \/ SettleSucceeds(c) \/ SettleEvent(c) \/ HandlerThrows(c)
      <4>1. PageOnly \/ Leaves(c)
        BY <3>3, Asides
      <4> QED
        BY <4>1, LeavesTypes DEF PageOnly
    <3> QED
      BY <2>1, <3>1, <3>2, <3>3 DEF Step
  <2> QED
    BY <2>2, <2>3 DEF KeysKnown
<1>5. CASE WorkerStops \/ (\E k \in Key : VtxosChange(k)) \/ UNCHANGED vars
  <2>1. UNCHANGED <<call, toWorker>>
    BY <1>5 DEF WorkerStops, VtxosChange, vars
  <2>2. \A d \in Call : task'[d].pc = "creating" => task[d].pc = "creating"
    BY <1>0, <1>5 DEF WorkerStops, VtxosChange, vars, NoTask
  <2> QED
    BY <2>1, <2>2 DEF KeysKnown
<1> QED
  BY <1>1, <1>2, <1>3, <1>4, <1>5 DEF Next

-----------------------------------------------------------------------------
(* The invariant. *)

\* The steps, with those that do not touch the worker's state taken together.
LEMMA Steps ==
    ASSUME TypeOK, [Next]_vars
    PROVE  \/ PageOnly
           \/ \E c \in Call : \/ Leaves(c) \/ HandleInitWallet(c) \/ HandleClear(c)
                             \/ CreateWallet(c) \/ OpenRepository(c) \/ FetchVtxos(c)
                             \/ StoreVtxos(c) \/ StartSubscription(c) \/ Subscribed(c)
                             \/ ApplyUpdate(c) \/ SubscriptionFails(c)
           \/ \E k \in Key : VtxosChange(k)
           \/ WorkerStops
<1>1. CASE UNCHANGED vars
  BY <1>1 DEF vars, PageOnly
<1>2. CASE Deliver
  <2>1. PageOnly
    BY <1>2 DEF Deliver, PageOnly, histVars
  <2> QED
    BY <2>1
<1>3. CASE \E c \in Call : (\E kind \in Kinds, key \in Key : Start(c, kind, key))
                          \/ Handle(c) \/ Step(c)
                          \/ SettleEvent(c) \/ SubscriptionFails(c) \/ HandlerThrows(c)
  BY <1>3, Asides DEF Handle, Step
<1> QED
  BY <1>1, <1>2, <1>3 DEF Next

\* The bounds on faults and the histories keep their types.
LEMMA CountersType ==
    ASSUME TypeOK, [Next]_vars
    PROVE  faults' \in 0 .. MaxFaults /\ raced' \in BOOLEAN /\ missed' \subseteq Call
           /\ lost' \subseteq Call
<1>0. faults \in 0 .. MaxFaults /\ MaxFaults \in Nat /\ raced \in BOOLEAN
      /\ missed \subseteq Call /\ lost \subseteq Call
  BY WorkerAssumption DEF TypeOK
<1>1. faults' \in 0 .. MaxFaults
  <2>1. faults' = faults \/ (faults < MaxFaults /\ faults' = faults + 1)
    <3>1. CASE \E c \in Call : Handle(c)
      BY <1>0, <3>1 DEF Handle, Receive, HandleGetStatus, HandleInitWallet, HandleQuery, HandleSettle,
         HandleClear, histVars
    <3>2. CASE \E c \in Call : Step(c)
      BY <1>0, <3>2 DEF Step, CreateWallet, OpenRepository, FetchVtxos, StoreVtxos, StartSubscription,
         Subscribed, ApplyUpdate, AnswerQuery, SettleSucceeds, Streams, Continue
    <3>3. CASE \E c \in Call : SettleEvent(c) \/ SubscriptionFails(c) \/ HandlerThrows(c)
      BY <1>0, <3>3 DEF SettleEvent, SubscriptionFails, HandlerThrows, Streams, Continue
    <3>4. CASE \/ \E c \in Call, kind \in Kinds, key \in Key : Start(c, kind, key)
               \/ Deliver \/ WorkerStops \/ (\E k \in Key : VtxosChange(k)) \/ UNCHANGED vars
      BY <1>0, <3>4 DEF Start, Deliver, WorkerStops, VtxosChange, vars, histVars
    <3> QED
      BY <1>0, <3>1, <3>2, <3>3, <3>4 DEF Next
  <2> QED
    BY <1>0, <2>1
<1>2. lost' \subseteq Call
  BY <1>0 DEF Next, vars, histVars, Start, Handle, Receive, HandleGetStatus, HandleInitWallet,
     HandleQuery, HandleSettle, HandleClear, Step, CreateWallet, OpenRepository, FetchVtxos,
     StoreVtxos, StartSubscription, Subscribed, ApplyUpdate, AnswerQuery, SettleSucceeds,
     SettleEvent, SubscriptionFails, HandlerThrows, Deliver, WorkerStops, VtxosChange, Continue,
     Streams
<1>3. raced' \in BOOLEAN /\ missed' \subseteq Call
  BY <1>0, Steps DEF PageOnly, Leaves, HandleInitWallet, HandleClear, Receive, histVars,
     CreateWallet, OpenRepository, FetchVtxos, StoreVtxos, StartSubscription, Continue,
     Subscribed, ApplyUpdate, SubscriptionFails, Streams, VtxosChange, WorkerStops
<1> QED
  BY <1>1, <1>2, <1>3

\* A handler that reads or writes the repository, and a subscription, have a key.
KeysSet ==
    \A c \in Call :
        /\ task[c].pc \in {"fetching", "storing", "starting"} => task[c].key \in Key
        /\ sub[c].pc \in {"subscribing", "listening"} => sub[c].key \in Key

\* The worker, its tasks and its store keep their types.
LEMMA WorkerTypes ==
    ASSUME TypeOK, KeysKnown, [Next]_vars
    PROVE  /\ worker' \in WorkerType /\ task' \in [Call -> TaskType] /\ sub' \in [Call -> SubType]
           /\ version' \in [Key -> 1 .. MaxVersion + 1] /\ store' \in [Key -> 0 .. MaxVersion + 1]
           /\ KeysSet'
<1>0. /\ worker \in WorkerType /\ task \in [Call -> TaskType] /\ sub \in [Call -> SubType]
      /\ version \in [Key -> 1 .. MaxVersion + 1] /\ store \in [Key -> 0 .. MaxVersion + 1]
      /\ KeysSet
  BY DEF TypeOK, WorkerType, KeysSet
<1>1. Nobody \in WorkerType
  BY DEF Nobody, WorkerType
<1>2. CASE PageOnly
  BY <1>0, <1>2 DEF PageOnly, KeysSet
<1> DEFINE Goal == /\ worker' \in WorkerType /\ task' \in [Call -> TaskType]
                   /\ sub' \in [Call -> SubType]
                   /\ version' \in [Key -> 1 .. MaxVersion + 1]
                   /\ store' \in [Key -> 0 .. MaxVersion + 1]
                   /\ KeysSet'
<1>3. ASSUME NEW c \in Call, Leaves(c)
      PROVE  Goal
  BY <1>0, <1>3, LeavesTypes DEF Leaves, KeysSet
<1>4. ASSUME NEW c \in Call, HandleInitWallet(c)
      PROVE  Goal
  BY <1>0, <1>4, InitWalletShape DEF Moves, KeysSet
<1>5. ASSUME NEW c \in Call, HandleClear(c)
      PROVE  Goal
  BY <1>0, <1>1, <1>5, ClearShape, AbortedEnds DEF KeysSet
<1>6. ASSUME NEW c \in Call, CreateWallet(c)
      PROVE  Goal
  BY <1>0, <1>6, CreateShape DEF Moves, KeysSet
<1>7. ASSUME NEW c \in Call, OpenRepository(c)
      PROVE  Goal
  BY <1>0, <1>7, OpenShape DEF Moves, KeysSet
<1>8. ASSUME NEW c \in Call, FetchVtxos(c)
      PROVE  Goal
  BY <1>0, <1>8, FetchShape DEF Moves, KeysSet
<1>9. ASSUME NEW c \in Call, StoreVtxos(c)
      PROVE  Goal
  BY <1>0, <1>9, StoreShape DEF Moves, KeysSet
<1>10. ASSUME NEW c \in Call, StartSubscription(c)
       PROVE  Goal
  BY <1>0, <1>10, StartShape DEF Moves, KeysSet
<1>11. ASSUME NEW c \in Call, Subscribed(c)
       PROVE  Goal
  BY <1>0, <1>11, SubscribedShape DEF Turns, KeysSet
<1>12. ASSUME NEW c \in Call, ApplyUpdate(c)
       PROVE  Goal
  <2>1. sub[c].queue \in Seq(1 .. MaxVersion + 1)
    BY <1>12, ApplyShape
  <2>2. sub[c].queue # <<>> => Head(sub[c].queue) \in 1 .. MaxVersion + 1
    BY <2>1, HeadTailProperties
  <2> QED
    BY <1>0, <1>12, <2>2, ApplyShape DEF Turns, KeysSet
<1>13. ASSUME NEW c \in Call, SubscriptionFails(c)
       PROVE  Goal
  BY <1>0, <1>13, FailsShape DEF Turns, KeysSet
<1>14. ASSUME NEW k \in Key, VtxosChange(k)
       PROVE  Goal
  BY <1>0, <1>14, ChangeShape DEF KeysSet
<1>15. CASE WorkerStops
  BY <1>0, <1>1, <1>15, StopsShape DEF KeysSet, NoTask, NoSub
<1> QED
  BY <1>2, <1>3, <1>4, <1>5, <1>6, <1>7, <1>8, <1>9, <1>10, <1>11, <1>12, <1>13, <1>14, <1>15, Steps

\* Every variable keeps its type.
LEMMA TypeStep ==
    ASSUME TypeOK, KeysKnown, [Next]_vars
    PROVE  TypeOK'
BY PageTypes, WorkerTypes, CountersType DEF TypeOK, WorkerType, KeysSet

\* What the invariant says of the worker's state.
Core == OneAtATime /\ FieldsFit /\ NothingAhead /\ NothingBehind /\ StoreFollows

\* The page, and the handlers that only answer, do not disturb the core.
LEMMA CoreAside ==
    ASSUME TypeOK, Core, PageOnly \/ \E c \in Call : Leaves(c)
    PROVE  Core'
<1>1. CASE PageOnly
  BY <1>1 DEF PageOnly, Core, OneAtATime, FieldsFit, NothingAhead, NothingBehind, StoreFollows,
     Starting, Streaming
<1>2. ASSUME NEW c \in Call, Leaves(c) PROVE Core'
  <2>1. UNCHANGED <<worker, sub, version, store, raced, missed>>
    BY <1>2 DEF Leaves
  <2>2. \A d \in Call :
          /\ task'[d].pc \in {"creating", "opening", "fetching", "storing", "starting"} =>
                task'[d] = task[d]
          /\ task'[d].read = task[d].read
    BY <1>2, LeavesTypes
  <2>3. \A d \in Call : Starting(d)' => Starting(d)
    BY <2>2 DEF Starting
  <2>4. OneAtATime'
    BY <2>1, <2>2, <2>3 DEF Core, OneAtATime, Starting, Streaming
  <2>5. FieldsFit'
    BY <2>1, <2>2, <2>3 DEF Core, FieldsFit, Starting, Streaming
  <2>6. NothingAhead' /\ NothingBehind' /\ StoreFollows'
    BY <2>1, <2>2 DEF Core, NothingAhead, NothingBehind, StoreFollows
  <2> QED
    BY <2>4, <2>5, <2>6 DEF Core
<1> QED
  BY <1>1, <1>2

\* An initialisation that starts when none was under way and no wallet was set
\* is alone; else it is a race.
LEMMA CoreInitWallet ==
    ASSUME TypeOK, Core, NEW c \in Call, HandleInitWallet(c)
    PROVE  Core'
<1>1. /\ UNCHANGED <<sub, version, store, missed>>
      /\ worker'.wallet = worker.wallet /\ worker'.open = worker.open
      /\ raced' = (raced \/ Initialising \/ worker.wallet # NoKey)
      /\ task'[c].pc = "creating" /\ \A d \in Call : d # c => task'[d] = task[d]
  BY InitWalletShape DEF Moves
<1>2. ~raced' => ~raced /\ worker.wallet = NoKey /\ ~worker.open
                 /\ \A d \in Call : ~Starting(d) /\ ~Streaming(d)
  BY <1>1 DEF Core, FieldsFit, Initialising, Starting, Streaming
<1>3. NothingAhead'
  BY <1>1 DEF Core, NothingAhead
<1>4. OneAtATime' /\ FieldsFit'
  BY <1>1, <1>2 DEF OneAtATime, FieldsFit, Starting, Streaming
<1>5. NothingBehind' /\ StoreFollows'
  BY <1>1, <1>2 DEF NothingBehind, StoreFollows, Starting, Streaming
<1> QED
  BY <1>3, <1>4, <1>5 DEF Core

\* What clear finds, unless it is a race, is one subscription, that it ends.
LEMMA CoreClear ==
    ASSUME TypeOK, Core, NEW c \in Call, HandleClear(c)
    PROVE  Core'
<1>1. /\ UNCHANGED <<task, version, store, missed>>
      /\ worker'.wallet = NoKey /\ ~worker'.open
      /\ raced' = (raced \/ Initialising)
  BY ClearShape DEF Nobody
<1>2. /\ \A d \in Call : d # worker.controller => sub'[d] = sub[d]
      /\ worker.controller \in Call => sub'[worker.controller].pc = "ended"
  BY ClearShape, AbortedEnds
<1>3. \A d \in Call : sub'[d].pc \in {"subscribing", "listening"} =>
        sub'[d] = sub[d] /\ d # worker.controller
  BY <1>2
<1>4. ~raced' => ~raced /\ \A d \in Call : ~Starting(d) /\ sub[d].pc # "subscribing"
  BY <1>1 DEF Initialising, Starting
<1>5. ~raced' => \A d \in Call : sub'[d].pc \notin {"subscribing", "listening"}
  BY <1>3, <1>4 DEF Core, FieldsFit
<1>6. NothingAhead'
  BY <1>1, <1>3 DEF Core, NothingAhead
<1>7. OneAtATime' /\ FieldsFit'
  BY <1>1, <1>4, <1>5 DEF OneAtATime, FieldsFit, Starting, Streaming
<1>8. NothingBehind' /\ StoreFollows'
  BY <1>1, <1>4, <1>5 DEF NothingBehind, StoreFollows, Starting
<1> QED
  BY <1>6, <1>7, <1>8 DEF Core

\* Creating the wallet keeps the core.
LEMMA CoreCreate ==
    ASSUME TypeOK, KeysKnown, Core, NEW c \in Call, CreateWallet(c)
    PROVE  Core'
<1>1. /\ UNCHANGED <<sub, version, store, raced, missed>>
      /\ worker'.wallet \in Key /\ worker'.wallet # NoKey
      /\ task[c].pc = "creating" /\ task'[c].pc \in {"opening", "done"}
      /\ \A d \in Call : d # c => task'[d] = task[d]
  BY CreateShape, WorkerAssumption DEF Moves
<1>2. Starting(c)
  BY <1>1 DEF Starting
<1>3. ~raced => \A d \in Call : ~Streaming(d) /\ (d # c => ~Starting(d))
  BY <1>2 DEF Core, OneAtATime
<1>4. NothingAhead'
  BY <1>1 DEF Core, NothingAhead
<1>5. OneAtATime' /\ FieldsFit'
  BY <1>1, <1>3 DEF OneAtATime, FieldsFit, Starting, Streaming
<1>6. NothingBehind' /\ StoreFollows'
  BY <1>1, <1>3 DEF NothingBehind, StoreFollows, Starting, Streaming
<1> QED
  BY <1>4, <1>5, <1>6 DEF Core

\* Opening the repository keeps the core.
LEMMA CoreOpen ==
    ASSUME TypeOK, Core, NEW c \in Call, OpenRepository(c)
    PROVE  Core'
<1>1. /\ UNCHANGED <<sub, version, store, raced, missed>>
      /\ worker'.wallet = worker.wallet /\ worker'.open
      /\ task[c].pc = "opening" /\ task'[c].pc \in {"fetching", "done"}
      /\ task'[c].pc = "fetching" => task'[c].key = worker.wallet
      /\ \A d \in Call : d # c => task'[d] = task[d]
  BY OpenShape DEF Moves
<1>2. Starting(c)
  BY <1>1 DEF Starting
<1>3. ~raced => \A d \in Call : ~Streaming(d) /\ (d # c => ~Starting(d))
  BY <1>2 DEF Core, OneAtATime
<1>4. ~raced => worker.wallet # NoKey
  BY <1>1, <1>2 DEF Core, FieldsFit
<1>5. NothingAhead'
  BY <1>1 DEF Core, NothingAhead
<1>6. OneAtATime' /\ FieldsFit'
  BY <1>1, <1>3, <1>4 DEF OneAtATime, FieldsFit, Starting, Streaming
<1>7. NothingBehind' /\ StoreFollows'
  BY <1>1, <1>3 DEF NothingBehind, StoreFollows, Starting, Streaming
<1> QED
  BY <1>5, <1>6, <1>7 DEF Core

\* Listing the vtxos keeps the core: what is read is not ahead of the server.
LEMMA CoreFetch ==
    ASSUME TypeOK, Core, NEW c \in Call, FetchVtxos(c)
    PROVE  Core'
<1>1. /\ UNCHANGED <<worker, sub, version, store, raced, missed>>
      /\ task[c].pc = "fetching" /\ task'[c].pc = "storing" /\ task'[c].key = task[c].key
      /\ task[c].key \in Key /\ task'[c].read = version[task[c].key]
      /\ \A d \in Call : d # c => task'[d] = task[d]
  BY FetchShape DEF Moves
<1>2. Starting(c)
  BY <1>1 DEF Starting
<1>3. ~raced => \A d \in Call : ~Streaming(d) /\ (d # c => ~Starting(d))
  BY <1>2 DEF Core, OneAtATime
<1>4. store[task[c].key] <= version[task[c].key] /\ version[task[c].key] \in Int
  BY <1>1 DEF Core, NothingAhead, TypeOK
<1>5. NothingAhead'
  BY <1>1, <1>4 DEF Core, NothingAhead
<1>6. OneAtATime' /\ FieldsFit'
  BY <1>1, <1>3 DEF Core, OneAtATime, FieldsFit, Starting, Streaming
<1>7. NothingBehind' /\ StoreFollows'
  BY <1>1, <1>3, <1>4 DEF NothingBehind, StoreFollows, Starting, Streaming
<1> QED
  BY <1>5, <1>6, <1>7 DEF Core

\* What is stored was read before, and nobody else stores meanwhile.
LEMMA CoreStore ==
    ASSUME TypeOK, Core, NEW c \in Call, StoreVtxos(c)
    PROVE  Core'
<1>1. /\ UNCHANGED <<worker, sub, version, raced, missed>>
      /\ task[c].pc = "storing" /\ task'[c].pc \in {"starting", "done"}
      /\ task'[c].key = task[c].key /\ task'[c].read = task[c].read /\ task[c].key \in Key
      /\ \A d \in Call : d # c => task'[d] = task[d]
      /\ \/ task'[c].pc = "done" /\ store' = store
         \/ /\ task'[c].pc = "starting"
            /\ store' = [store EXCEPT ![task[c].key] = task[c].read]
  BY StoreShape DEF Moves
<1>2. Starting(c)
  BY <1>1 DEF Starting
<1>3. ~raced => \A d \in Call : ~Streaming(d) /\ (d # c => ~Starting(d))
  BY <1>2 DEF Core, OneAtATime
<1>4. /\ task'[c].pc = "starting" => store'[task[c].key] = task[c].read
      /\ \A k \in Key : store'[k] = store[k] \/ (k = task[c].key /\ store'[k] = task[c].read)
  BY <1>1 DEF TypeOK
<1>5. task[c].read <= version[task[c].key]
  BY <1>1 DEF Core, NothingAhead
<1>6. NothingAhead'
  BY <1>1, <1>4, <1>5 DEF Core, NothingAhead
<1>7. OneAtATime' /\ FieldsFit'
  BY <1>1, <1>3 DEF Core, OneAtATime, FieldsFit, Starting, Streaming
<1>8. NothingBehind' /\ StoreFollows'
  BY <1>1, <1>3, <1>4 DEF NothingBehind, StoreFollows, Starting, Streaming
<1> QED
  BY <1>6, <1>7, <1>8 DEF Core

\* Subscribing keeps the core: one stream at a time.
LEMMA CoreStart ==
    ASSUME TypeOK, Core, NEW c \in Call, StartSubscription(c)
    PROVE  Core'
<1>1. /\ UNCHANGED <<worker, version, store, raced, missed>>
      /\ task[c].pc = "starting" /\ task'[c].pc = "done" /\ task'[c].read = task[c].read
      /\ task[c].key \in Key
      /\ \A d \in Call : d # c => task'[d] = task[d] /\ sub'[d] = sub[d]
      /\ \/ sub'[c] = sub[c]
         \/ /\ sub'[c].pc \in {"subscribing", "ended"} /\ sub'[c].queue = <<>>
            /\ sub'[c].key = task[c].key
  BY StartShape DEF Moves
<1>2. Starting(c)
  BY <1>1 DEF Starting
<1>3. ~raced => \A d \in Call : ~Streaming(d) /\ (d # c => ~Starting(d))
  BY <1>2 DEF Core, OneAtATime
<1>4. ~raced => /\ worker.wallet # NoKey /\ worker.open /\ task[c].key = worker.wallet
                /\ store[task[c].key] = task[c].read
  BY <1>1, <1>2 DEF Core, FieldsFit, NothingBehind
<1>5. NothingAhead'
  BY <1>1 DEF Core, NothingAhead
<1>6. OneAtATime' /\ FieldsFit'
  BY <1>1, <1>3, <1>4 DEF OneAtATime, FieldsFit, Starting, Streaming
<1>7. NothingBehind' /\ StoreFollows'
  BY <1>1, <1>3, <1>4 DEF NothingBehind, StoreFollows, Starting, Streaming
<1> QED
  BY <1>5, <1>6, <1>7 DEF Core

\* The stream opens on what the repository holds, unless it opened too late.
LEMMA CoreSubscribed ==
    ASSUME TypeOK, Core, NEW c \in Call, Subscribed(c)
    PROVE  Core'
<1>1. /\ UNCHANGED <<task, version, store, raced>>
      /\ worker'.wallet = worker.wallet /\ worker'.open = worker.open
      /\ sub[c].pc = "subscribing" /\ sub'[c].pc \in {"listening", "ended"}
      /\ sub'[c].key = sub[c].key /\ sub'[c].queue = sub[c].queue /\ sub[c].key \in Key
      /\ sub'[c].pc = "listening" => worker'.controller = c
      /\ \A d \in Call : d # c => sub'[d] = sub[d]
      /\ missed' = IF version[sub[c].key] # task[c].read THEN missed \cup {c} ELSE missed
  BY SubscribedShape DEF Turns
<1>2. Streaming(c)
  BY <1>1 DEF Streaming
<1>3. ~raced => \A d \in Call : ~Starting(d) /\ (d # c => ~Streaming(d))
  BY <1>2 DEF Core, OneAtATime
<1>4. sub[c].queue = <<>> /\ Len(sub[c].queue) = 0
  BY <1>1, EmptySeq, LenProperties DEF Core, NothingAhead
<1>5. ~raced => store[sub[c].key] = task[c].read
  BY <1>1 DEF Core, NothingBehind
<1>6. NothingAhead'
  BY <1>1, <1>4 DEF Core, NothingAhead
<1>7. OneAtATime' /\ FieldsFit'
  BY <1>1, <1>2, <1>3 DEF Core, OneAtATime, FieldsFit, Starting, Streaming
<1>8. NothingBehind'
  BY <1>1, <1>3, <1>4 DEF NothingBehind, Starting, Streaming
<1>9. StoreFollows'
  BY <1>1, <1>3, <1>4, <1>5 DEF StoreFollows, Streaming
<1> QED
  BY <1>6, <1>7, <1>8, <1>9 DEF Core

\* A failing subscription keeps the core.
LEMMA CoreFails ==
    ASSUME TypeOK, Core, NEW c \in Call, SubscriptionFails(c)
    PROVE  Core'
<1>1. /\ UNCHANGED <<worker, task, version, store, raced, missed>>
      /\ sub[c].pc \in {"subscribing", "listening"} /\ sub'[c].pc = "ended"
      /\ \A d \in Call : d # c => sub'[d] = sub[d]
  BY FailsShape DEF Turns
<1>2. OneAtATime' /\ FieldsFit'
  BY <1>1 DEF Core, OneAtATime, FieldsFit, Starting, Streaming
<1>3. NothingAhead' /\ NothingBehind' /\ StoreFollows'
  BY <1>1 DEF Core, NothingAhead, NothingBehind, StoreFollows
<1> QED
  BY <1>2, <1>3 DEF Core

\* Stopping the worker keeps the core: nothing of it is left running.
LEMMA CoreStops ==
    ASSUME TypeOK, Core, WorkerStops
    PROVE  Core'
<1>1. /\ UNCHANGED <<version, store, missed>>
      /\ worker'.wallet = NoKey /\ ~worker'.open
      /\ \A c \in Call : task'[c].pc = "none" /\ sub'[c].pc = "none"
  BY StopsShape DEF Nobody, NoTask, NoSub
<1>2. OneAtATime' /\ FieldsFit'
  BY <1>1 DEF OneAtATime, FieldsFit, Starting, Streaming
<1>3. NothingAhead' /\ NothingBehind' /\ StoreFollows'
  BY <1>1 DEF Core, NothingAhead, NothingBehind, StoreFollows
<1> QED
  BY <1>2, <1>3 DEF Core

\* The oldest update is stored: the rest of the queue is not older.
LEMMA CoreApply ==
    ASSUME TypeOK, Core, NEW c \in Call, ApplyUpdate(c)
    PROVE  Core'
<1>1. PICK k \in Key, q \in Seq(1 .. MaxVersion + 1) :
        /\ k = sub[c].key /\ q = sub[c].queue
        /\ UNCHANGED <<worker, task, version, raced, missed>>
        /\ sub[c].pc = "listening" /\ sub'[c].pc \in {"listening", "ended"} /\ sub'[c].key = k
        /\ \A d \in Call : d # c => sub'[d] = sub[d]
        /\ \/ sub'[c].pc = "ended" /\ store' = store
           \/ /\ sub'[c].pc = "listening" /\ q # <<>> /\ sub'[c].queue = Tail(q)
              /\ store' = [store EXCEPT ![k] = Head(q)]
  BY ApplyShape DEF Turns
<1>2. Streaming(c)
  BY <1>1 DEF Streaming
<1>3. ~raced => \A d \in Call : ~Starting(d) /\ (d # c => ~Streaming(d))
  BY <1>2 DEF Core, OneAtATime
<1>4. OneAtATime' /\ FieldsFit'
  BY <1>1, <1>3 DEF Core, OneAtATime, FieldsFit, Starting, Streaming
<1>5. CASE sub'[c].pc = "ended" /\ store' = store
  BY <1>1, <1>4, <1>5 DEF Core, NothingAhead, NothingBehind, StoreFollows
<1>6. CASE /\ sub'[c].pc = "listening" /\ q # <<>> /\ sub'[c].queue = Tail(q)
           /\ store' = [store EXCEPT ![k] = Head(q)]
  <2>1. PICK v \in Int : v = version[k]
    BY <1>1 DEF TypeOK
  <2>0. Ordered(q, v)
    BY <1>1, <2>1 DEF Core, NothingAhead, Ordered
  <2>2. /\ Ordered(Tail(q), v) /\ Head(q) <= v
        /\ \A i \in 1 .. Len(Tail(q)) : Head(q) <= Tail(q)[i]
        /\ (IF Tail(q) = <<>> THEN Head(q) ELSE Last(Tail(q))) = Last(q)
    <3>1. 1 .. MaxVersion + 1 \subseteq Int
      OBVIOUS
    <3> QED
      BY <1>6, <2>0, <3>1, OrderedShrinks
  <2>3. store'[k] = Head(q) /\ \A x \in Key : x # k => store'[x] = store[x]
    BY <1>1, <1>6 DEF TypeOK
  <2>4. ~raced /\ c \notin missed => Last(q) = version[k]
    BY <1>1, <1>6 DEF Core, StoreFollows
  <2>5. NothingAhead'
    <3>1. \A x \in Key : store'[x] <= version'[x]
      BY <1>1, <2>1, <2>2, <2>3 DEF Core, NothingAhead
    <3>2. \A d \in Call : d # c => sub'[d] = sub[d]
      BY <1>1
    <3>3. Ordered(sub'[c].queue, version'[sub'[c].key])
      BY <1>1, <1>6, <2>1, <2>2
    <3>4. \A d \in Call : /\ sub'[d].pc = "subscribing" => sub'[d].queue = <<>>
                          /\ sub'[d].pc = "listening" => Ordered(sub'[d].queue, version'[sub'[d].key])
      <4> TAKE d \in Call
      <4>1. CASE d = c
        BY <1>6, <3>3, <4>1
      <4>2. CASE d # c
        <5>1. /\ sub[d].pc = "subscribing" => sub[d].queue = <<>>
              /\ sub[d].pc = "listening" => Ordered(sub[d].queue, version[sub[d].key])
          BY DEF Core, NothingAhead, Ordered
        <5> QED
          BY <1>1, <3>2, <4>2, <5>1
      <4> QED
        BY <4>1, <4>2
    <3>5. \A d \in Call : task'[d].pc \in {"storing", "starting"} => task'[d].read <= version'[task'[d].key]
      BY <1>1 DEF Core, NothingAhead
    <3> QED
      BY <3>1, <3>4, <3>5 DEF NothingAhead, Ordered
  <2>6. NothingBehind'
    <3>1. ~raced => \A i \in 1 .. Len(sub'[c].queue) : store'[sub'[c].key] <= sub'[c].queue[i]
      BY <1>1, <1>6, <2>2, <2>3
    <3> QED
      BY <1>1, <1>3, <1>6, <3>1 DEF NothingBehind, Starting, Streaming
  <2>7. StoreFollows'
    BY <1>1, <1>3, <1>6, <2>2, <2>3, <2>4 DEF StoreFollows, Streaming
  <2> QED
    BY <1>4, <2>5, <2>6, <2>7 DEF Core
<1> QED
  BY <1>1, <1>5, <1>6

\* A change is newer than everything, and waits at the end of the queues.
LEMMA CoreChange ==
    ASSUME TypeOK, Core, NEW k \in Key, VtxosChange(k)
    PROVE  Core'
<1>1. PICK v \in 1 .. MaxVersion + 1 :
      /\ v = version[k] + 1
      /\ UNCHANGED <<worker, task, store, raced, missed>>
      /\ \A d \in Call :
            /\ sub'[d].pc = sub[d].pc /\ sub'[d].key = sub[d].key
            /\ sub'[d].queue = IF sub[d].pc = "listening" /\ sub[d].key = k
                               THEN Append(sub[d].queue, v) ELSE sub[d].queue
  BY ChangeShape
<1>2. version'[k] = v /\ \A x \in Key : x # k => version'[x] = version[x]
  BY <1>1, ChangeShape DEF TypeOK
<1>3. \A x \in Key : store[x] \in Int /\ version[x] \in Int /\ version'[x] \in Int
                  /\ version[x] <= version'[x] /\ store[x] <= version[x]
  <2>1. \A x \in Key : store[x] \in Int /\ version[x] \in Int /\ store[x] <= version[x]
    BY DEF TypeOK, Core, NothingAhead
  <2> QED
    BY <1>1, <1>2, <2>1
<1>4. \A d \in Call :
        /\ sub[d].queue \in Seq(1 .. MaxVersion + 1) /\ task[d].read \in Int
        /\ task[d].pc \in {"storing", "starting"} => task[d].key \in Key
        /\ sub[d].pc = "listening" => sub[d].key \in Key
  BY DEF TypeOK, SubType, TaskType
<1>5. OneAtATime' /\ FieldsFit'
  BY <1>1 DEF Core, OneAtATime, FieldsFit, Starting, Streaming
<1>6. \A d \in Call : sub[d].pc = "listening" => Ordered(sub[d].queue, version[sub[d].key])
  BY DEF Core, NothingAhead, Ordered
<1>7. \A d \in Call : sub[d].pc = "listening" /\ sub[d].key = k =>
        /\ sub'[d].queue # <<>> /\ Last(sub'[d].queue) = v
        /\ Ordered(sub'[d].queue, v)
        /\ \A m \in Int : m <= v /\ AtLeast(sub[d].queue, m) => AtLeast(sub'[d].queue, m)
  <2> SUFFICES ASSUME NEW d \in Call, sub[d].pc = "listening" /\ sub[d].key = k
               PROVE  /\ sub'[d].queue # <<>> /\ Last(sub'[d].queue) = v
                      /\ Ordered(sub'[d].queue, v)
                      /\ \A m \in Int :
                            m <= v /\ AtLeast(sub[d].queue, m) => AtLeast(sub'[d].queue, m)
    OBVIOUS
  <2>1. PICK q \in Seq(1 .. MaxVersion + 1) : q = sub[d].queue /\ Ordered(q, version[k])
    BY <1>4, <1>6
  <2>2. PICK u \in Int : u = version[k] /\ u <= v
    BY <1>1, <1>3
  <2> DEFINE S == 1 .. MaxVersion + 1
  <2>3. S \subseteq Int /\ q \in Seq(S) /\ v \in S
    OBVIOUS
  <2>4. sub'[d].queue = Append(q, v)
    BY <1>1, <2>1
  <2>5. Ordered(q, u)
    BY <2>1, <2>2
  <2> HIDE DEF S
  <2>6. /\ Append(q, v) # <<>> /\ Last(Append(q, v)) = v
        /\ Ordered(Append(q, v), v)
        /\ \A m \in Int : m <= v /\ AtLeast(q, m) => AtLeast(Append(q, v), m)
    <3>1. u \in Int /\ u <= v
      BY <2>2
    <3> QED
      BY <2>3, <2>5, <3>1, OrderedGrows, Zenon
  <2> QED
    BY <2>1, <2>4, <2>6
<1>8. NothingAhead'
  <2>1. \A x \in Key : store'[x] <= version'[x]
    BY <1>1, <1>3
  <2>2. \A d \in Call : task'[d].pc \in {"storing", "starting"} => task'[d].read <= version'[task'[d].key]
    BY <1>1, <1>3, <1>4 DEF Core, NothingAhead
  <2>3. \A d \in Call : sub'[d].pc = "subscribing" => sub'[d].queue = <<>>
    BY <1>1 DEF Core, NothingAhead
  <2>4. \A d \in Call : sub'[d].pc = "listening" => Ordered(sub'[d].queue, version'[sub'[d].key])
    BY <1>1, <1>2, <1>4, <1>6, <1>7
  <2> QED
    BY <2>1, <2>2, <2>3, <2>4 DEF NothingAhead, Ordered
<1>9. NothingBehind'
  <2>1. ASSUME ~raced, NEW d \in Call, sub[d].pc = "listening"
        PROVE  AtLeast(sub'[d].queue, store[sub[d].key])
    <3>1. sub[d].key \in Key
      BY <1>4, <2>1
    <3>2. AtLeast(sub[d].queue, store[sub[d].key])
      BY <2>1 DEF Core, NothingBehind, AtLeast
    <3>3. CASE sub[d].key = k
      <4>1. store[sub[d].key] <= v /\ store[sub[d].key] \in Int
        BY <1>2, <1>3, <3>1, <3>3
      <4> QED
        BY <1>7, <2>1, <3>2, <3>3, <4>1
    <3>4. CASE sub[d].key # k
      <4>1. sub'[d].queue = sub[d].queue
        BY <1>1, <3>4
      <4> QED
        BY <2>1, <3>2, <4>1
    <3> QED
      BY <3>3, <3>4
  <2> QED
    BY <1>1, <2>1 DEF Core, NothingBehind, AtLeast
<1>10. StoreFollows'
  <2>1. ASSUME ~raced, NEW d \in Call, sub[d].pc = "listening", d \notin missed
        PROVE  (IF sub'[d].queue = <<>> THEN store[sub[d].key] ELSE Last(sub'[d].queue))
                  = version'[sub[d].key]
    <3>1. CASE sub[d].key = k
      BY <1>2, <1>7, <2>1, <3>1
    <3>2. CASE sub[d].key # k
      <4>1. sub'[d].queue = sub[d].queue /\ version'[sub[d].key] = version[sub[d].key]
        BY <1>1, <1>2, <1>4, <2>1, <3>2
      <4> QED
        BY <2>1, <4>1 DEF Core, StoreFollows
    <3> QED
      BY <3>1, <3>2
  <2> QED
    BY <1>1, <2>1 DEF StoreFollows
<1> QED
  BY <1>5, <1>8, <1>9, <1>10 DEF Core

\* The worker starts with nothing.
LEMMA IInvInit == Init => IInv
<1> SUFFICES ASSUME Init PROVE IInv
  OBVIOUS
<1>1. \A S : <<>> \in Seq(S) /\ Len(<<>>) = 0
  BY EmptySeq
<1>2. NoTask \in TaskType /\ NoSub \in SubType
  BY <1>1, WorkerAssumption DEF NoTask, TaskType, NoSub, SubType
<1>3. /\ task \in [Call -> TaskType] /\ sub \in [Call -> SubType]
      /\ \A c \in Call : task[c].pc = "none" /\ sub[c].pc = "none"
  BY <1>2 DEF Init, NoTask, NoSub
<1>4. /\ \A k \in Key : version[k] = 1 /\ store[k] = 0
      /\ version \in [Key -> 1 .. MaxVersion + 1] /\ store \in [Key -> 0 .. MaxVersion + 1]
      /\ faults \in 0 .. MaxFaults /\ raced = FALSE /\ missed = {} /\ lost = {}
  BY WorkerAssumption DEF Init
<1>5. call \in [Call -> CallType] /\ \A c \in Call : call[c].pc = "idle"
  BY DEF Init, CallType
<1>6. toWorker = <<>> /\ toPage = <<>> /\ worker = Nobody
  BY DEF Init
<1>7. TypeOK
  BY <1>1, <1>3, <1>4, <1>5, <1>6 DEF TypeOK, Nobody
<1>8. Len(toWorker) = 0
  BY <1>1, <1>6
<1>9. KeysKnown
  BY <1>3, <1>5, <1>8 DEF KeysKnown
<1>10. OneAtATime /\ FieldsFit
  BY <1>3, <1>6 DEF OneAtATime, FieldsFit, Starting, Streaming, Nobody
<1>11. NothingAhead /\ NothingBehind /\ StoreFollows
  BY <1>3, <1>4 DEF NothingAhead, NothingBehind, StoreFollows
<1> QED
  BY <1>7, <1>9, <1>10, <1>11 DEF IInv

\* Every step keeps the invariant.
LEMMA IInvStep == IInv /\ [Next]_vars => IInv'
<1> SUFFICES ASSUME IInv, [Next]_vars PROVE IInv'
  OBVIOUS
<1>1. TypeOK /\ KeysKnown /\ Core
  BY DEF IInv, Core
<1>2. TypeOK' /\ KeysKnown'
  BY <1>1, TypeStep, KeysStep
<1>3. Core'
  BY <1>1, Steps, CoreAside, CoreInitWallet, CoreClear, CoreCreate, CoreOpen, CoreFetch,
     CoreStore, CoreStart, CoreSubscribed, CoreApply, CoreFails, CoreChange, CoreStops
<1> QED
  BY <1>2, <1>3 DEF IInv, Core

\* Whatever messages, handlers, changes, faults and stops interleave, one
\* initialisation at a time, or a race that is recorded, works on the worker's
\* fields and on the repository.
THEOREM WorkerInvariant == Spec => []IInv
BY IInvInit, IInvStep, PTL DEF Spec

\* The worker's state, the messages and the calls keep their types.
THEOREM WorkerTypeCorrect == Spec => []TypeOK
<1>1. IInv => TypeOK
  BY DEF IInv
<1> QED
  BY <1>1, WorkerInvariant, PTL

\* Without racing initialisations there is one subscription, and clear knows it.
THEOREM OnlyOneStream == Spec => []OneSubscription
<1>1. IInv => OneSubscription
  BY DEF IInv, FieldsFit, OneSubscription, Streaming
<1> QED
  BY <1>1, WorkerInvariant, PTL

\* After a clear that raced with nothing, nothing opens or fills the database.
THEOREM Cleared == Spec => []ClearedIsQuiet
<1>1. IInv => ClearedIsQuiet
  BY DEF IInv, FieldsFit, ClearedIsQuiet, Starting, Streaming
<1> QED
  BY <1>1, WorkerInvariant, PTL

\* Behind an open subscription the database lacks what is queued, and nothing
\* else.
THEOREM Follows == Spec => []StoreFollows
<1>1. IInv => StoreFollows
  BY DEF IInv
<1> QED
  BY <1>1, WorkerInvariant, PTL

\* No step takes the stored coins back to an earlier version, but for a raced initialisation.
LEMMA AdvancesStep ==
    ASSUME IInv, [Next]_vars, ~raced', NEW k \in Key
    PROVE  store'[k] >= store[k]
<1>0. TypeOK /\ Core /\ store[k] \in Int
  BY DEF IInv, Core, TypeOK
<1>1. ASSUME NEW c \in Call, StoreVtxos(c)
      PROVE  store'[k] >= store[k]
  <2>1. raced' = raced /\ task[c].pc = "storing" /\ task[c].key \in Key
        /\ (store' = store \/ store' = [store EXCEPT ![task[c].key] = task[c].read])
    BY <1>0, <1>1, StoreShape DEF Moves
  <2>2. store[task[c].key] <= task[c].read /\ task[c].read \in Int
    BY <1>0, <2>1 DEF Core, NothingBehind, TypeOK, TaskType
  <2>3. \A r \in Int : store' = [store EXCEPT ![task[c].key] = r] =>
            store'[k] = IF k = task[c].key THEN r ELSE store[k]
    BY <1>0 DEF TypeOK
  <2> QED
    BY <1>0, <2>1, <2>2, <2>3
<1>2. ASSUME NEW c \in Call, ApplyUpdate(c)
      PROVE  store'[k] >= store[k]
  <2>1. PICK x \in Key, q \in Seq(1 .. MaxVersion + 1) :
          /\ x = sub[c].key /\ q = sub[c].queue /\ raced' = raced /\ sub[c].pc = "listening"
          /\ store' = store \/ (q # <<>> /\ store' = [store EXCEPT ![x] = Head(q)])
    BY <1>0, <1>2, ApplyShape DEF Turns
  <2>2. AtLeast(q, store[x])
    BY <1>0, <2>1 DEF Core, NothingBehind, AtLeast
  <2>3. q # <<>> => Head(q) = q[1] /\ 1 \in 1 .. Len(q) /\ Head(q) \in 1 .. MaxVersion + 1
    BY <2>1, QueueShrinks
  <2>4. q # <<>> => store[x] <= Head(q)
    BY <2>2, <2>3 DEF AtLeast
  <2>5. q # <<>> => Head(q) \in Int
    BY <2>3
  <2>6. \A r \in Int : store' = [store EXCEPT ![x] = r] =>
            store'[k] = IF k = x THEN r ELSE store[k]
    BY <1>0, <2>1 DEF TypeOK
  <2> QED
    BY <1>0, <2>1, <2>4, <2>5, <2>6
<1>3. (\A c \in Call : ~StoreVtxos(c) /\ ~ApplyUpdate(c)) => store' = store
  BY <1>0, Steps, CreateShape, OpenShape, FetchShape, StartShape, SubscribedShape, FailsShape,
     ChangeShape, StopsShape, InitWalletShape, ClearShape DEF PageOnly, Leaves, IInv
<1> QED
  BY <1>0, <1>1, <1>2, <1>3

\* A handler or a subscription never writes an older state of a vtxo over a
\* newer one, unless initialisations raced.
THEOREM Advances == Spec => StoreOnlyAdvances
<1>1. IInv /\ [Next]_vars => [~raced' => \A k \in Key : store'[k] >= store[k]]_vars
  BY AdvancesStep
<1> QED
  BY <1>1, WorkerInvariant, PTL DEF Spec, StoreOnlyAdvances
=============================================================================
