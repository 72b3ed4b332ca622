----------------------------- MODULE EventStream -----------------------------
(***************************************************************************)
(* The stream of server events a wallet consumes: the queue of             *)
(* eventSourceIterator (src/src/providers/utils.ts) under the async        *)
(* generator RestArkProvider.getEventStream (src/src/providers/ark.ts).    *)
(* getTransactionsStream and the indexer's getSubscription are the same    *)
(* generator over another URL.                                             *)
(*                                                                         *)
(* An EventSource reports messages and errors to two listeners.  While no  *)
(* next() is outstanding both are queued; next() prefers queued messages   *)
(* to queued errors.  The EventSource reconnects by itself after an error, *)
(* so messages may follow an error, and what the server emits in the gap   *)
(* is lost.  A listener and the promise reaction it triggers are one step: *)
(* the event loop drains its microtasks before the next EventSource event. *)
(***************************************************************************)
EXTENDS Naturals, Sequences

CONSTANTS
    Event,          \* what the server may emit
    NoEvent,        \* no event is in the consumer's hands
    Cause           \* why an EventSource may report an error

ASSUME NoEventAssumption == NoEvent \notin Event

VARIABLES
    source,         \* the EventSource: "none", "open", "reconnecting", "closed"
    messageQueue,   \* messages no next() has returned yet
    errorQueue,     \* errors no next() has thrown yet
    reader,         \* the consumer's for-await loop over the generator
    current,        \* the event the loop's body is working on
    aborted         \* the caller's AbortSignal

streamVars == <<source, messageQueue, errorQueue, reader, current, aborted>>

(***************************************************************************)
(* errorHandler builds the same Error whatever the EventSource reported    *)
(* (the cause c is not looked at); an outstanding next() is rejected with  *)
(* that Error wrapped in an iterator result.                               *)
(***************************************************************************)
QueuedError(c) == "EventSource error"
RejectedError(c) == "iterator result"
ErrorValue == {"EventSource error", "iterator result"}

\* The error names and messages isFetchTimeoutError recognises.
TimeoutErrors == {"Failed to fetch", "HeadersTimeoutError", "BodyTimeoutError"}
IsFetchTimeoutError(err) == err \in TimeoutErrors

StreamTypeOK ==
    /\ source \in {"none", "open", "reconnecting", "closed"}
    /\ messageQueue \in Seq(Event)
    /\ errorQueue \in Seq(ErrorValue)
    /\ reader \in {"none", "reading", "handling", "returned", "failed"}
    /\ current \in Event \cup {NoEvent}
    /\ reader = "handling" => current \in Event
    /\ aborted \in BOOLEAN

StreamInit ==
    /\ source = "none"
    /\ messageQueue = <<>>
    /\ errorQueue = <<>>
    /\ reader = "none"
    /\ current = NoEvent
    /\ aborted = FALSE

\* The consumer's first next(): a new EventSource and its two listeners.
Open ==
    /\ reader = "none"
    /\ source' = "open"
    /\ reader' = "reading"
    /\ UNCHANGED <<messageQueue, errorQueue, current, aborted>>

\* A next() found both queues empty and waits for a listener to settle it.
NextPending == reader = "reading" /\ messageQueue = <<>> /\ errorQueue = <<>>

(***************************************************************************)
(* next() threw err through the generator.  A timeout makes the generator  *)
(* loop to a new EventSource and fresh queues; anything else closes the    *)
(* EventSource and is thrown to the consumer.                              *)
(***************************************************************************)
Throw(err) ==
    /\ source' = IF IsFetchTimeoutError(err) THEN "open" ELSE "closed"
    /\ reader' = IF IsFetchTimeoutError(err) THEN "reading" ELSE "failed"
    /\ messageQueue' = <<>>
    /\ errorQueue' = <<>>
    /\ UNCHANGED <<current, aborted>>

\* messageHandler: a waiting next() takes e at once, through the empty queue.
\* A next() with an error to throw does not wait, so no message overtakes it
\* unless the body is suspended.
Message(e) ==
    /\ source = "open"
    /\ errorQueue # <<>> => reader = "handling"
    /\ messageQueue' = Append(messageQueue, e)
    /\ UNCHANGED <<source, errorQueue, reader, current, aborted>>

\* errorHandler with a next() outstanding: it is rejected.
RejectNext(c) ==
    /\ source = "open"
    /\ NextPending
    /\ Throw(RejectedError(c))

\* Faulty: an error no next() waits for is dropped.
DropError(c) ==
    /\ source = "open"
    /\ reader = "handling"
    /\ source' \in {"reconnecting", "closed"}
    /\ UNCHANGED <<messageQueue, errorQueue, reader, current, aborted>>

\* errorHandler while the loop's body is suspended; the EventSource then
\* reconnects or, on a fatal answer, gives up.
QueueError(c) ==
    /\ source = "open"
    /\ reader = "handling"
    /\ errorQueue' = Append(errorQueue, QueuedError(c))
    /\ source' \in {"reconnecting", "closed"}
    /\ UNCHANGED <<messageQueue, reader, current, aborted>>

Reconnect ==
    /\ source = "reconnecting"
    /\ source' = "open"
    /\ UNCHANGED <<messageQueue, errorQueue, reader, current, aborted>>

\* Faulty: the generator yields what next() returned without looking at the
\* signal.
DeliverAborted ==
    /\ reader = "reading"
    /\ messageQueue # <<>>
    /\ current' = Head(messageQueue)
    /\ reader' = "handling"
    /\ messageQueue' = Tail(messageQueue)
    /\ UNCHANGED <<source, errorQueue, aborted>>

\* next() returns the oldest message: the loop's body starts on it, unless the
\* signal was aborted meanwhile, which makes the generator return.
Deliver ==
    /\ reader = "reading"
    /\ messageQueue # <<>>
    /\ current' = IF aborted THEN NoEvent ELSE Head(messageQueue)
    /\ reader' = IF aborted THEN "returned" ELSE "handling"
    /\ source' = IF aborted THEN "closed" ELSE source
    /\ messageQueue' = Tail(messageQueue)
    /\ UNCHANGED <<errorQueue, aborted>>

\* Faulty: next() prefers errors to messages.
ThrowFirst ==
    /\ reader = "reading"
    /\ errorQueue # <<>>
    /\ Throw(Head(errorQueue))

\* next() throws the oldest error, once no message is left.
ThrowQueued ==
    /\ reader = "reading"
    /\ messageQueue = <<>>
    /\ errorQueue # <<>>
    /\ Throw(Head(errorQueue))

\* The body is done with the event: the loop calls next() again.
Resume ==
    /\ reader = "handling"
    /\ reader' = "reading"
    /\ current' = NoEvent
    /\ UNCHANGED <<source, messageQueue, errorQueue, aborted>>

\* The body returns or throws: the loop closes the generator, and with it
\* the EventSource.
Leave ==
    /\ reader = "handling"
    /\ reader' = "returned"
    /\ source' = "closed"
    /\ UNCHANGED <<messageQueue, errorQueue, current, aborted>>

\* The caller aborts the signal: abortHandler closes the EventSource, which
\* settles no outstanding next().
AbortSignal ==
    /\ reader \in {"reading", "handling"}
    /\ ~aborted
    /\ aborted' = TRUE
    /\ source' = "closed"
    /\ UNCHANGED <<messageQueue, errorQueue, reader, current>>

StreamNext ==
    \/ Open
    \/ \E e \in Event : Message(e)
    \/ \E c \in Cause : RejectNext(c) \/ QueueError(c)
    \/ Reconnect
    \/ Deliver
    \/ ThrowQueued
    \/ Resume
    \/ Leave
    \/ AbortSignal

StreamSpec == StreamInit /\ [][StreamNext]_streamVars
==============================================================================
