---------------------------- MODULE Streams_proofs ----------------------------
(***************************************************************************)
(* Proofs about the event stream, for any number of messages and errors    *)
(* and any set of causes (messages are numbered as they are emitted), and  *)
(* about the watch of incoming funds that consumes such a stream.          *)
(***************************************************************************)
EXTENDS MCEventStream, IncomingFunds, SequenceTheorems, TLAPS

-----------------------------------------------------------------------------
(* Delivery in order. *)

OrderInv ==
    /\ messageQueue \in Seq(Nat)
    /\ accepted \in Seq(Nat)
    /\ received \in Seq(Nat)
    /\ DeliveredInOrder

\* Appending behind a concatenation, and moving the first element of its second
\* part to the end of the first.
LEMMA Shift ==
    ASSUME NEW r \in Seq(Nat), NEW q \in Seq(Nat)
    PROVE  /\ \A e \in Nat : Append(r \o q, e) = r \o Append(q, e)
           /\ q # <<>> => r \o q = Append(r, Head(q)) \o Tail(q)
<1>1. ASSUME NEW e \in Nat
      PROVE  Append(r \o q, e) = r \o Append(q, e)
  <2>1. Append(q, e) = q \o <<e>> /\ <<e>> \in Seq(Nat)
    BY <1>1, AppendIsConcat
  <2>2. Append(r \o q, e) = (r \o q) \o <<e>>
    BY <1>1, AppendIsConcat, ConcatProperties
  <2> QED
    BY <2>1, <2>2, ConcatAssociative
<1>2. ASSUME q # <<>>
      PROVE  r \o q = Append(r, Head(q)) \o Tail(q)
  <2>1. Len(q) \in Nat \ {0} /\ Head(q) = q[1] /\ q[1] \in Nat
    BY <1>2, EmptySeq, LenProperties
  <2>2. q = <<Head(q)>> \o Tail(q)
    BY <1>2, <2>1, SubSeqFull, SubSeqRecursiveFirst, TailIsSubSeq
  <2>3. Append(r, Head(q)) = r \o <<Head(q)>> /\ <<Head(q)>> \in Seq(Nat)
    BY <2>1, AppendIsConcat
  <2>4. Tail(q) \in Seq(Nat)
    BY <1>2, HeadTailProperties
  <2>5. (r \o <<Head(q)>>) \o Tail(q) = r \o (<<Head(q)>> \o Tail(q))
    BY <2>3, <2>4, ConcatAssociative, SMTT(30)
  <2> QED
    BY <2>2, <2>3, <2>5, Zenon
<1> QED
  BY <1>1, <1>2

\* Every step keeps the order of what is queued and delivered.
LEMMA OrderStep == OrderInv /\ [MCNext]_<<streamVars, historyVars>> => OrderInv'
<1> SUFFICES ASSUME OrderInv, [MCNext]_<<streamVars, historyVars>>
             PROVE  OrderInv'
  OBVIOUS
<1> USE DEF OrderInv, DeliveredInOrder
<1>1. CASE MCMessage
  <2>1. Len(accepted) + 1 \in Nat
    BY LenProperties
  <2>2. /\ accepted' = Append(accepted, Len(accepted) + 1)
        /\ messageQueue' = Append(messageQueue, Len(accepted) + 1)
        /\ received' = received
    BY <1>1 DEF MCMessage, Message
  <2>3. accepted' \in Seq(Nat) /\ messageQueue' \in Seq(Nat)
    BY <2>1, <2>2, AppendProperties
  <2>4. accepted' = received \o messageQueue'
    BY <2>1, <2>2, Shift
  <2> QED
    BY <2>2, <2>3, <2>4
<1>2. CASE MCError
  BY <1>2 DEF MCError, RejectNext, QueueError, NextPending, Throw
<1>3. CASE MCDeliver
  <2>1. /\ messageQueue # <<>>
        /\ accepted' = accepted
        /\ messageQueue' = Tail(messageQueue)
        /\ received' = Append(received, Head(messageQueue))
    BY <1>3 DEF MCDeliver, Deliver
  <2>2. Head(messageQueue) \in Nat /\ messageQueue' \in Seq(Nat)
    BY <2>1, HeadTailProperties
  <2>3. received' \in Seq(Nat)
    BY <2>1, <2>2, AppendProperties
  <2>4. accepted' = received' \o messageQueue'
    BY <2>1, Shift
  <2> QED
    BY <2>1, <2>2, <2>3, <2>4
<1>4. CASE ThrowQueued /\ UNCHANGED historyVars
  BY <1>4 DEF ThrowQueued, Throw, historyVars
<1>5. CASE \/ (Open \/ Reconnect \/ Resume \/ Leave) /\ UNCHANGED historyVars
           \/ MCAbortSignal
  BY <1>5 DEF Open, Reconnect, Resume, Leave, MCAbortSignal, AbortSignal, historyVars
<1>6. CASE UNCHANGED <<streamVars, historyVars>>
  BY <1>6 DEF streamVars, historyVars
<1> QED
  BY <1>1, <1>2, <1>3, <1>4, <1>5, <1>6 DEF MCNext

\* next() returns what the listener was called with: nothing lost, repeated or
\* reordered, however many messages and errors there are.
THEOREM InOrder == MCSpec => []DeliveredInOrder
<1>1. MCInit => OrderInv
  BY EmptySeq DEF MCInit, StreamInit, OrderInv, DeliveredInOrder
<1>2. OrderInv => DeliveredInOrder
  BY DEF OrderInv
<1> QED
  BY <1>1, <1>2, OrderStep, PTL DEF MCSpec

-----------------------------------------------------------------------------
(* Nobody waits on a closed EventSource. *)

\* A source that gave up while the consumer was busy has queued its error.
SourceInv ==
    /\ (reader \in {"reading", "handling"} /\ source = "closed") =>
           errorQueue # <<>> \/ aborted
    /\ errorQueue \in Seq(ErrorValue)

\* Every step keeps the source and its reader in step.
LEMMA SourceStep == SourceInv /\ [MCNext]_<<streamVars, historyVars>> => SourceInv'
<1> SUFFICES ASSUME SourceInv, [MCNext]_<<streamVars, historyVars>>
             PROVE  SourceInv'
  OBVIOUS
<1> USE DEF SourceInv
<1>1. CASE MCMessage
  BY <1>1 DEF MCMessage, Message
<1>2. CASE \E c \in Cause : RejectNext(c)
  BY <1>2 DEF RejectNext, Throw
<1>3. CASE \E c \in Cause : QueueError(c)
  <2>1. PICK c \in Cause : QueueError(c)
    BY <1>3
  <2>2. QueuedError(c) \in ErrorValue
    BY DEF QueuedError, ErrorValue
  <2> QED
    BY <2>1, <2>2, AppendProperties DEF QueueError
<1>4. CASE MCDeliver
  BY <1>4 DEF MCDeliver, Deliver
<1>5. CASE ThrowQueued
  BY <1>5 DEF ThrowQueued, Throw
<1>6. CASE Open \/ Reconnect \/ Resume \/ Leave \/ AbortSignal
  BY <1>6 DEF Open, Reconnect, Resume, Leave, AbortSignal
<1>7. CASE UNCHANGED <<streamVars, historyVars>>
  BY <1>7 DEF streamVars
<1> QED
  BY <1>1, <1>2, <1>3, <1>4, <1>5, <1>6, <1>7 DEF MCNext, MCError, MCAbortSignal

\* A next() that finds nothing queued waits on an EventSource that can still
\* wake it, unless the caller aborted.
THEOREM NeverStranded == MCSpec => []WaitsOnLiveSource
<1>1. MCInit => SourceInv
  BY EmptySeq DEF MCInit, StreamInit, SourceInv
<1>2. SourceInv => WaitsOnLiveSource
  BY DEF SourceInv, WaitsOnLiveSource, NextPending
<1> QED
  BY <1>1, <1>2, SourceStep, PTL DEF MCSpec

-----------------------------------------------------------------------------
(* Nothing is handed over after the abort. *)

\* Every step keeps the consumer's events apart from what came after the abort.
LEMMA AbortStep ==
    NothingAfterAbort /\ [MCNext]_<<streamVars, historyVars>> => NothingAfterAbort'
<1> SUFFICES ASSUME NothingAfterAbort, [MCNext]_<<streamVars, historyVars>>
             PROVE  NothingAfterAbort'
  OBVIOUS
<1> USE DEF NothingAfterAbort
<1>1. CASE MCMessage
  BY <1>1 DEF MCMessage, Message
<1>2. CASE MCError
  BY <1>2 DEF MCError, RejectNext, QueueError, Throw
<1>3. CASE MCDeliver
  <2>1. CASE aborted
    BY <1>3, <2>1 DEF MCDeliver, Deliver
  <2>2. CASE ~aborted
    BY <1>3, <2>2 DEF MCDeliver, Deliver
  <2> QED
    BY <2>1, <2>2
<1>4. CASE MCAbortSignal
  BY <1>4 DEF MCAbortSignal, AbortSignal
<1>5. CASE (Open \/ Reconnect \/ ThrowQueued \/ Resume \/ Leave) /\ UNCHANGED historyVars
  BY <1>5 DEF Open, Reconnect, ThrowQueued, Throw, Resume, Leave, historyVars
<1>6. CASE UNCHANGED <<streamVars, historyVars>>
  BY <1>6 DEF streamVars, historyVars
<1> QED
  BY <1>1, <1>2, <1>3, <1>4, <1>5, <1>6 DEF MCNext

\* However many events were queued when the signal was aborted, none of them
\* reaches the consumer, and before that none is withheld.
THEOREM AbortEnds == MCSpec => []NothingAfterAbort
<1>1. MCInit => NothingAfterAbort
  BY DEF MCInit, StreamInit, NothingAfterAbort
<1> QED
  BY <1>1, AbortStep, PTL DEF MCSpec

-----------------------------------------------------------------------------
(* Types of the event stream. *)

\* Throwing keeps the types of the stream.
LEMMA ThrowType ==
    ASSUME StreamTypeOK, NEW err, Throw(err), reader # "handling"
    PROVE  StreamTypeOK'
  <1>1. /\ source' \in {"open", "closed"} /\ reader' \in {"reading", "failed"}
        /\ messageQueue' = <<>> /\ errorQueue' = <<>>
        /\ current' = current /\ aborted' = aborted
    BY DEF Throw
  <1>2. <<>> \in Seq(Event) /\ <<>> \in Seq(ErrorValue)
    OBVIOUS
  <1> QED
    BY <1>1, <1>2 DEF StreamTypeOK

\* The queues hold events and errors, and a body at work has its event.
THEOREM StreamTypes == StreamSpec => []StreamTypeOK
  <1>1. StreamInit => StreamTypeOK
    <2>1. <<>> \in Seq(Event) /\ <<>> \in Seq(ErrorValue)
      OBVIOUS
    <2> QED
      BY <2>1 DEF StreamInit, StreamTypeOK
  <1>2. StreamTypeOK /\ [StreamNext]_streamVars => StreamTypeOK'
    <2> SUFFICES ASSUME StreamTypeOK, [StreamNext]_streamVars PROVE StreamTypeOK'
      OBVIOUS
    <2>1. CASE Open \/ Reconnect \/ Resume \/ Leave \/ AbortSignal
      BY <2>1 DEF Open, Reconnect, Resume, Leave, AbortSignal, StreamTypeOK
    <2>2. ASSUME NEW e \in Event, Message(e) PROVE StreamTypeOK'
      <3>1. Append(messageQueue, e) \in Seq(Event)
        BY AppendProperties DEF StreamTypeOK
      <3> QED
        BY <2>2, <3>1 DEF Message, StreamTypeOK
    <2>3. ASSUME NEW c \in Cause, RejectNext(c) PROVE StreamTypeOK'
      BY <2>3, ThrowType DEF RejectNext, NextPending
    <2>4. ASSUME NEW c \in Cause, QueueError(c) PROVE StreamTypeOK'
      <3>1. Append(errorQueue, QueuedError(c)) \in Seq(ErrorValue)
        BY AppendProperties DEF StreamTypeOK, QueuedError, ErrorValue
      <3> QED
        BY <2>4, <3>1 DEF QueueError, StreamTypeOK
    <2>5. CASE Deliver
      <3>1. Head(messageQueue) \in Event /\ Tail(messageQueue) \in Seq(Event)
        BY <2>5, HeadTailProperties DEF Deliver, StreamTypeOK
      <3> QED
        BY <2>5, <3>1 DEF Deliver, StreamTypeOK
    <2>6. CASE ThrowQueued
      BY <2>6, ThrowType DEF ThrowQueued
    <2>7. CASE UNCHANGED streamVars
      BY <2>7 DEF streamVars, StreamTypeOK
    <2> QED
      BY <2>1, <2>2, <2>3, <2>4, <2>5, <2>6, <2>7 DEF StreamNext
  <1> QED
    BY <1>1, <1>2, PTL DEF StreamSpec

-----------------------------------------------------------------------------
(* Incoming funds. *)

\* A call of the callback stops what stopFunc can, or nothing.
LEMMA CallbackDoes ==
    ASSUME NEW content, Callback(content)
    PROVE  /\ answer' = IF answer = "none" THEN content ELSE answer
           /\ early' = (early \/ (answer = "none" /\ pc # "returned"))
           /\ late' = (late \/ stopped)
           /\ ws' = ws \/ (ws = "open" /\ ws' = "closed")
           /\ poll' = poll \/ (poll = "on" /\ poll' = "cleared")
           /\ sub' = sub \/ (sub = "open" /\ sub' = "closed")
           /\ \/ UNCHANGED <<stopped, missed>> /\ ~(user = "waits" /\ pc = "returned")
              \/ /\ user = "waits" /\ pc = "returned" /\ stopped' = TRUE
                 /\ missed' \subseteq {"ws", "fetch", "tick"}
                 /\ missed' = {} =>
                      /\ ws \in {"none", "open", "closed"} => ws' \in {"none", "closed"}
                      /\ ws # "connecting" /\ poll # "fetching" /\ poll' # "on"
                      /\ DOMAIN tick' = {} /\ sub' # "open"
  BY DEF Callback, StopFunc, StopsOnCallback

\* No watch has started.
LEMMA FundsInit == Init => IInv
  <1> SUFFICES ASSUME Init PROVE IInv
    OBVIOUS
  <1>1. DOMAIN tick = {}
    BY DEF Init, Nothing
  <1>2. polled \in [Key -> Nat] /\ \A k \in Key : polled[k] = 0
    BY DEF Init
  <1>3. faults \in 0 .. MaxFaults
    BY IncomingAssumption DEF Init
  <1>4. chain \in [Tx -> State \cup {"absent"}]
    BY DEF Init, State
  <1>5. pushed \in Seq(Key) /\ updates \in Seq(BOOLEAN)
    BY DEF Init
  <1>6. TypeOK
    BY <1>1, <1>2, <1>3, <1>4, <1>5 DEF Init, TypeOK
  <1> QED
    BY <1>1, <1>2, <1>6 DEF IInv, Init, OneFetch, ReportedIsKnown, StopEndsAll
\* The transactions listed are keys.
LEMMA ListsKeys == GetAllTxs \subseteq Key
  BY DEF GetAllTxs, TxKey, Key, State

\* Steps of notifyIncomingFunds, the socket and the stream.
LEMMA WatchInv ==
    ASSUME IInv, WatchAddresses \/ Subscribe \/ SocketOpens \/ SocketFails \/ SubscriptionFails
    PROVE  IInv'
  <1>1. faults' \in 0 .. MaxFaults
    BY IncomingAssumption DEF IInv, TypeOK, WatchAddresses, Subscribe, SocketOpens, SocketFails,
       SubscriptionFails, Fault
  <1>2. UNCHANGED <<setup, pushed, known, tick, polled, initial, updates, callbackVars, stopVars, chain>>
    BY DEF WatchAddresses, Subscribe, SocketOpens, SocketFails, SubscriptionFails, pollVars,
       stopVars
  <1>3. CASE WatchAddresses
    BY <1>1, <1>2, <1>3 DEF WatchAddresses, IInv, TypeOK, OneFetch, ReportedIsKnown, StopEndsAll,
       setup, callbackVars, stopVars
  <1>4. CASE Subscribe
    BY <1>1, <1>2, <1>4 DEF Subscribe, IInv, TypeOK, OneFetch, ReportedIsKnown, StopEndsAll,
       setup, callbackVars, stopVars, pollVars
  <1>5. CASE SocketOpens \/ SubscriptionFails
    BY <1>1, <1>2, <1>5 DEF SocketOpens, SubscriptionFails, IInv, TypeOK, OneFetch,
       ReportedIsKnown, StopEndsAll, setup, callbackVars, stopVars, pollVars
  <1>6. CASE SocketFails
    BY <1>1, <1>2, <1>6 DEF SocketFails, IInv, TypeOK, OneFetch, ReportedIsKnown, StopEndsAll,
       setup, callbackVars, stopVars
  <1> QED
    BY <1>3, <1>4, <1>5, <1>6

\* The first fetch and the polls: they begin while polling is on.
LEMMA PollInv ==
    ASSUME IInv, FirstFetch \/ FirstFetchFails
                 \/ (\E i \in Tick : PollFetches(i) \/ PollFails(i))
    PROVE  IInv'
  <1>1. CASE FirstFetch
    BY <1>1, ListsKeys DEF FirstFetch, IInv, TypeOK, OneFetch, ReportedIsKnown, StopEndsAll,
       setup, callbackVars, stopVars
  <1>2. CASE FirstFetchFails
    <2>1. faults' \in 0 .. MaxFaults
      BY <1>2, IncomingAssumption DEF IInv, TypeOK, FirstFetchFails, Fault
    <2> QED
      BY <1>2, <2>1 DEF FirstFetchFails, IInv, TypeOK, OneFetch, ReportedIsKnown, StopEndsAll,
         setup, callbackVars, stopVars
  <1>3. ASSUME NEW i \in Tick, PollFetches(i) PROVE IInv'
    <2>1. /\ poll = "on" /\ DOMAIN tick' = DOMAIN tick \cup {i}
          /\ \A j \in DOMAIN tick' : tick'[j] \subseteq Key
      BY <1>3, ListsKeys DEF PollFetches, IInv, TypeOK
    <2>2. UNCHANGED <<incoming, user, pc, ws, pushed, poll, known, polled, initial, sub, updates,
                      answer, early, late, stopped, missed, chain, faults>>
      BY <1>3 DEF PollFetches, setup, callbackVars, stopVars
    <2> QED
      BY <2>1, <2>2 DEF IInv, TypeOK, OneFetch, ReportedIsKnown, StopEndsAll
  <1>4. ASSUME NEW i \in Tick, PollFails(i) PROVE IInv'
    <2>1. /\ i \in DOMAIN tick /\ DOMAIN tick' = DOMAIN tick \ {i}
          /\ \A j \in DOMAIN tick' : tick'[j] \subseteq Key
      BY <1>4 DEF PollFails, Without, IInv, TypeOK
    <2>2. UNCHANGED <<incoming, user, pc, ws, pushed, poll, known, polled, initial, sub, updates,
                      answer, early, late, stopped, missed, chain>>
      BY <1>4 DEF PollFails, setup, callbackVars, stopVars
    <2>3. faults' \in 0 .. MaxFaults
      BY <1>4, IncomingAssumption DEF IInv, TypeOK, PollFails, Fault
    <2> QED
      BY <2>1, <2>2, <2>3 DEF IInv, TypeOK, OneFetch, ReportedIsKnown, StopEndsAll
  <1> QED
    BY <1>1, <1>2, <1>3, <1>4

\* The world outside: transactions, and updates of the indexer.
LEMMA WorldInv ==
    ASSUME IInv, IndexerUpdates \/ (\E t \in Tx, state \in State : TxMoves(t, state))
    PROVE  IInv'
  <1>1. CASE IndexerUpdates
    <2>1. updates' \in Seq(BOOLEAN)
      BY <1>1, AppendProperties DEF IndexerUpdates, IInv, TypeOK
    <2>2. UNCHANGED <<incoming, user, pc, ws, pushed, poll, known, tick, polled, initial, sub,
                      answer, early, late, stopped, missed, chain, faults>>
      BY <1>1 DEF IndexerUpdates, setup, callbackVars, stopVars, pollVars
    <2> QED
      BY <2>1, <2>2 DEF IInv, TypeOK, OneFetch, ReportedIsKnown, StopEndsAll
  <1>2. ASSUME NEW t \in Tx, NEW state \in State, TxMoves(t, state) PROVE IInv'
    <2>1. pushed' \in Seq(Key)
      <3>1. <<t, state>> \in Key
        BY DEF Key
      <3>2. pushed \in Seq(Key)
        BY DEF IInv, TypeOK
      <3>3. Append(pushed, <<t, state>>) \in Seq(Key)
        BY <3>1, <3>2, AppendProperties
      <3>4. pushed' = pushed \/ pushed' = Append(pushed, <<t, state>>)
        BY <1>2 DEF TxMoves
      <3> QED
        BY <3>2, <3>3, <3>4
    <2>2. chain' \in [Tx -> State \cup {"absent"}]
      BY <1>2 DEF TxMoves, IInv, TypeOK
    <2>3. UNCHANGED <<incoming, user, pc, ws, poll, known, tick, polled, initial, sub, updates,
                      answer, early, late, stopped, missed, faults>>
      BY <1>2 DEF TxMoves, setup, callbackVars, stopVars, pollVars
    <2> QED
      BY <2>1, <2>2, <2>3 DEF IInv, TypeOK, OneFetch, ReportedIsKnown, StopEndsAll
  <1> QED
    BY <1>1, <1>2

\* What the callback's call leaves: the types, and a stop that ends all it can.
LEMMA CallbackKeeps ==
    ASSUME IInv, NEW content \in {"coins", "nothing", "vtxos"}, Callback(content),
           UNCHANGED <<user, pc>>, DOMAIN tick' \subseteq DOMAIN tick
    PROVE  /\ ws' \in {"none", "connecting", "open", "closed"}
           /\ poll' \in {"off", "fetching", "on", "cleared"}
           /\ sub' \in {"none", "open", "closed", "failed"}
           /\ answer' \in {"none", "coins", "nothing", "vtxos"}
           /\ {early', stopped', late'} \subseteq BOOLEAN
           /\ missed' \subseteq {"ws", "fetch", "tick"}
           /\ ws' \in {"connecting", "open"} => ws \in {"connecting", "open"}
           /\ poll' \in {"off", "fetching"} <=> poll \in {"off", "fetching"}
           /\ pc = "watching" => ws' = ws /\ poll' = poll
           /\ ws' \in {"connecting", "open"} => poll' = "off"
           /\ StopEndsAll'
  <1>1. TypeOK /\ OneFetch /\ StopEndsAll
    BY DEF IInv
  <1>2. /\ answer' = IF answer = "none" THEN content ELSE answer
        /\ early' = (early \/ (answer = "none" /\ pc # "returned"))
        /\ late' = (late \/ stopped)
        /\ ws' = ws \/ (ws = "open" /\ ws' = "closed")
        /\ poll' = poll \/ (poll = "on" /\ poll' = "cleared")
        /\ sub' = sub \/ (sub = "open" /\ sub' = "closed")
    BY CallbackDoes
  <1>3. \/ UNCHANGED <<stopped, missed>> /\ ~(user = "waits" /\ pc = "returned")
        \/ /\ user = "waits" /\ pc = "returned" /\ stopped' = TRUE
           /\ missed' \subseteq {"ws", "fetch", "tick"}
           /\ missed' = {} =>
                /\ ws \in {"none", "open", "closed"} => ws' \in {"none", "closed"}
                /\ ws # "connecting" /\ poll # "fetching" /\ poll' # "on"
                /\ DOMAIN tick' = {} /\ sub' # "open"
    BY CallbackDoes
  <1>4. StopEndsAll'
    <2>1. CASE UNCHANGED <<stopped, missed>> /\ ~(user = "waits" /\ pc = "returned")
      <3>1. user = "waits" /\ answer' # "none" /\ ~early' => stopped
        BY <1>1, <1>2, <2>1 DEF TypeOK, StopEndsAll
      <3>2. pc = "returned" => sub' # "none"
        BY <1>1, <1>2 DEF StopEndsAll
      <3>3. stopped /\ missed = {} =>
              /\ ws' \in {"none", "closed"} /\ poll' \notin {"fetching", "on"}
              /\ DOMAIN tick' = {} /\ sub' \in {"closed", "failed"}
        <4> SUFFICES ASSUME stopped, missed = {}
                     PROVE  /\ ws' \in {"none", "closed"} /\ poll' \notin {"fetching", "on"}
                            /\ DOMAIN tick' = {} /\ sub' \in {"closed", "failed"}
          OBVIOUS
        <4>1. /\ ws \in {"none", "closed"} /\ poll \notin {"fetching", "on"}
              /\ DOMAIN tick = {} /\ sub \in {"closed", "failed"}
          BY <1>1 DEF StopEndsAll
        <4> QED
          BY <1>2, <4>1
      <3> QED
        BY <1>1, <2>1, <3>1, <3>2, <3>3 DEF StopEndsAll
    <2>2. CASE /\ user = "waits" /\ pc = "returned" /\ stopped' = TRUE
               /\ missed' = {} =>
                    /\ ws \in {"none", "open", "closed"} => ws' \in {"none", "closed"}
                    /\ ws # "connecting" /\ poll # "fetching" /\ poll' # "on"
                    /\ DOMAIN tick' = {} /\ sub' # "open"
      <3>1. sub \in {"open", "closed", "failed"} /\ sub' \in {"open", "closed", "failed"}
        BY <1>1, <1>2, <2>2 DEF TypeOK, StopEndsAll
      <3>2. missed' = {} =>
              /\ ws' \in {"none", "closed"} /\ poll' \notin {"fetching", "on"}
              /\ DOMAIN tick' = {} /\ sub' \in {"closed", "failed"}
        BY <1>1, <1>2, <2>2, <3>1 DEF TypeOK
      <3> QED
        BY <2>2, <3>1, <3>2 DEF StopEndsAll
    <2> QED
      BY <1>3, <2>1, <2>2
  <1> QED
    BY <1>1, <1>2, <1>3, <1>4, ZenonT(40) DEF TypeOK, OneFetch

\* A poll that ends reports what it fetched and nobody reported yet.
LEMMA ReportInv ==
    ASSUME IInv, NEW i \in Tick, PollReports(i)
    PROVE  IInv'
  <1>1. /\ i \in DOMAIN tick /\ DOMAIN tick' = DOMAIN tick \ {i}
        /\ \A j \in DOMAIN tick' : tick'[j] \subseteq Key
    BY DEF PollReports, Without, IInv, TypeOK
  <1>2. poll \notin {"off", "fetching"} /\ pc # "watching"
    BY <1>1 DEF IInv, OneFetch
  <1>3. /\ known' = known \cup NewTxs(i) /\ NewTxs(i) \subseteq Key /\ NewTxs(i) \cap known = {}
        /\ polled' = [k \in Key |-> IF k \in NewTxs(i) THEN polled[k] + 1 ELSE polled[k]]
        /\ initial' = initial
    BY <1>1 DEF PollReports, NewTxs, IInv, TypeOK
  <1>4. UNCHANGED <<incoming, user, pc, pushed, updates, chain, faults>>
    BY DEF PollReports, setup
  <1>5. known' \subseteq Key /\ initial' \subseteq known' /\ polled' \in [Key -> Nat]
    BY <1>3 DEF IInv, TypeOK
  <1>6. ReportedIsKnown'
    BY <1>3 DEF IInv, TypeOK, ReportedIsKnown
  <1>7. CASE NewTxs(i) = {}
    <2>1. NoCallback
      BY <1>7 DEF PollReports
    <2>2. UNCHANGED <<answer, early, late, stopped, missed, ws, poll, sub>>
      BY <2>1 DEF NoCallback, callbackVars
    <2>3. TypeOK'
      BY <1>1, <1>4, <1>5, <2>2 DEF IInv, TypeOK
    <2> QED
      BY <1>1, <1>2, <1>4, <1>6, <2>2, <2>3 DEF IInv, OneFetch, StopEndsAll
  <1>8. CASE NewTxs(i) # {}
    <2>1. Callback(CoinsOf(NewTxs(i))) /\ CoinsOf(NewTxs(i)) \in {"coins", "nothing", "vtxos"}
      BY <1>8 DEF PollReports, CoinsOf
    <2>2. UNCHANGED <<user, pc>> /\ DOMAIN tick' \subseteq DOMAIN tick
      BY <1>1, <1>4
    <2>3. TypeOK'
      BY <1>1, <1>4, <1>5, <2>1, <2>2, CallbackKeeps DEF IInv, TypeOK
    <2>4. OneFetch' /\ StopEndsAll'
      BY <1>2, <1>4, <2>1, <2>2, CallbackKeeps DEF OneFetch
    <2> QED
      BY <1>6, <2>3, <2>4 DEF IInv
  <1> QED
    BY <1>7, <1>8

\* A message of the socket, an update of the stream, or the user's stop.
LEMMA EventInv ==
    ASSUME IInv, HandleMessage \/ HandleUpdate \/ Stop
    PROVE  IInv'
  <1>1. UNCHANGED <<incoming, user, pc, known, tick, polled, initial, chain, faults>>
    BY DEF HandleMessage, HandleUpdate, Stop, setup
  <1>2. pushed' \in Seq(Key) /\ updates' \in Seq(BOOLEAN)
    <2>1. pushed \in Seq(Key) /\ updates \in Seq(BOOLEAN)
      BY DEF IInv, TypeOK
    <2>2. /\ pushed # <<>> => Tail(pushed) \in Seq(Key)
          /\ updates # <<>> => Tail(updates) \in Seq(BOOLEAN)
      BY <2>1, HeadTailProperties
    <2>3. /\ pushed' = pushed \/ (pushed # <<>> /\ pushed' = Tail(pushed))
          /\ updates' = updates \/ (updates # <<>> /\ updates' = Tail(updates))
      BY DEF HandleMessage, HandleUpdate, Stop
    <2> QED
      BY <2>1, <2>2, <2>3
  <1>3. ReportedIsKnown'
    BY <1>1 DEF IInv, ReportedIsKnown
  <1>4. ASSUME NEW content \in {"coins", "nothing", "vtxos"}, Callback(content) PROVE IInv'
    <2>1. UNCHANGED <<user, pc>> /\ DOMAIN tick' \subseteq DOMAIN tick
      BY <1>1
    <2>2. TypeOK'
      BY <1>1, <1>2, <1>4, <2>1, CallbackKeeps DEF IInv, TypeOK
    <2>3. OneFetch' /\ StopEndsAll'
      BY <1>1, <1>4, <2>1, CallbackKeeps DEF IInv, OneFetch
    <2> QED
      BY <1>3, <2>2, <2>3 DEF IInv
  <1>5. ASSUME NoCallback PROVE IInv'
    <2>1. UNCHANGED <<answer, early, late, stopped, missed, ws, poll, sub>>
      BY <1>5 DEF NoCallback, callbackVars
    <2> QED
      BY <1>1, <1>2, <1>3, <2>1 DEF IInv, TypeOK, OneFetch, StopEndsAll
  <1>6. CASE HandleMessage
    <2>1. CoinsOf({Head(pushed)}) \in {"coins", "nothing", "vtxos"}
      BY DEF CoinsOf
    <2>2. Callback(CoinsOf({Head(pushed)})) \/ NoCallback
      BY <1>6 DEF HandleMessage
    <2> QED
      BY <1>4, <1>5, <2>1, <2>2
  <1>7. CASE HandleUpdate
    <2>1. Callback("vtxos") \/ NoCallback
      BY <1>7 DEF HandleUpdate
    <2> QED
      BY <1>4, <1>5, <2>1
  <1>8. CASE Stop
    <2>1. UNCHANGED <<answer, early, late>> /\ pc = "returned" /\ user = "notified"
      BY <1>8 DEF Stop, callbackVars
    <2>2. /\ stopped' = TRUE /\ missed' \subseteq {"ws", "fetch", "tick"}
          /\ missed' = {} => ws # "connecting" /\ poll # "fetching" /\ DOMAIN tick' = {}
          /\ ws' = IF ws = "open" THEN "closed" ELSE ws
          /\ poll' = IF poll = "on" THEN "cleared" ELSE poll
          /\ sub' = IF sub = "open" THEN "closed" ELSE sub
      BY <1>8 DEF Stop, StopFunc
    <2>3. TypeOK'
      BY <1>1, <1>2, <2>1, <2>2 DEF IInv, TypeOK
    <2> QED
      BY <1>1, <1>3, <2>1, <2>2, <2>3 DEF IInv, TypeOK, OneFetch, StopEndsAll
  <1> QED
    BY <1>6, <1>7, <1>8

\* Every step keeps the invariant of the watches.
LEMMA FundsStep == IInv /\ [Next]_vars => IInv'
  <1> SUFFICES ASSUME IInv, [Next]_vars PROVE IInv'
    OBVIOUS
  <1>1. CASE UNCHANGED vars
    <2>1. UNCHANGED <<incoming, user, pc, ws, pushed, poll, known, tick, polled, initial, sub,
                      updates, answer, early, late, stopped, missed, chain, faults>>
      BY <1>1 DEF vars, setup, callbackVars, stopVars, pollVars
    <2> QED
      BY <2>1 DEF IInv, TypeOK, OneFetch, ReportedIsKnown, StopEndsAll
  <1>2. CASE Next
    BY <1>2, WatchInv, PollInv, WorldInv, ReportInv, EventInv DEF Next, Watch
  <1> QED
    BY <1>1, <1>2

\* Whatever the order of the answers, updates and ticks, the watches keep to the invariant.
THEOREM FundsInvariant == Spec => []IInv
  BY FundsInit, FundsStep, PTL DEF Spec

\* Types, for any number of transactions, of polls in flight and of faults.
THEOREM FundsTypes == Spec => []TypeOK
  <1>1. IInv => TypeOK
    BY DEF IInv
  <1> QED
    BY <1>1, FundsInvariant, PTL

\* Overlapping polls report each state of a transaction once, and none that the
\* first fetch had.
THEOREM ReportedOnce == Spec => []PolledOnce
  <1>1. IInv => PolledOnce
    BY DEF IInv, TypeOK, ReportedIsKnown, PolledOnce
  <1> QED
    BY <1>1, FundsInvariant, PTL

\* waitForIncomingFunds leaves nothing running behind an answer that came after
\* notifyIncomingFunds had returned and a stop that nothing escaped.
THEOREM NothingLeft == Spec => []AnsweredWatchEnds
  <1>1. IInv => AnsweredWatchEnds
    BY DEF IInv, StopEndsAll, AnsweredWatchEnds
  <1> QED
    BY <1>1, FundsInvariant, PTL

\* A stop that nothing escaped is the last of the callback.
THEOREM Quiet == Spec => StoppedIsQuiet
  <1>1. IInv /\ [Next]_vars => (stopped /\ missed = {} => late' = late)
    <2> SUFFICES ASSUME IInv, [Next]_vars, stopped, missed = {} PROVE late' = late
      OBVIOUS
    <2>1. /\ ws \notin {"connecting", "open"} /\ poll \notin {"fetching", "on"}
          /\ DOMAIN tick = {} /\ sub # "open" /\ pc = "returned"
      BY DEF IInv, StopEndsAll
    <2>2. CASE UNCHANGED vars
      BY <2>2 DEF vars, callbackVars
    <2>3. CASE \E i \in Tick : PollReports(i)
      BY <2>1, <2>3 DEF PollReports
    <2>4. CASE HandleMessage \/ HandleUpdate
      BY <2>1, <2>4 DEF HandleMessage, HandleUpdate
    <2>5. CASE WatchAddresses \/ Subscribe \/ SocketOpens \/ SocketFails \/ SubscriptionFails \/ Stop
      BY <2>5 DEF WatchAddresses, Subscribe, SocketOpens, SocketFails, SubscriptionFails, Stop,
         callbackVars
    <2>6. CASE FirstFetch \/ FirstFetchFails \/ IndexerUpdates
      BY <2>6 DEF FirstFetch, FirstFetchFails, IndexerUpdates, callbackVars
    <2>7. CASE \E i \in Tick : PollFetches(i) \/ PollFails(i)
      BY <2>7 DEF PollFetches, PollFails, callbackVars
    <2>8. CASE \E t \in Tx, state \in State : TxMoves(t, state)
      BY <2>8 DEF TxMoves, callbackVars
    <2> QED
      BY <2>2, <2>3, <2>4, <2>5, <2>6, <2>7, <2>8 DEF Next, Watch
  <1> QED
    BY <1>1, FundsInvariant, PTL DEF Spec, StoppedIsQuiet
==============================================================================
