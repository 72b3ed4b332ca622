---------------------------- MODULE MCEventStream ----------------------------
(***************************************************************************)
(* EventStream on a bounded server that emits 1, 2, ... in this order,     *)
(* with the history the properties speak of.                               *)
(***************************************************************************)
EXTENDS EventStream

CONSTANTS MaxMessages, MaxErrors

MCEvent == 1 .. MaxMessages

VARIABLES
    accepted,       \* messages the listener was called with
    received,       \* messages next() has returned
    handed,         \* events the loop's body has been started on
    atAbort,        \* what had been handed over when the signal was aborted
    causes          \* causes of the errors reported so far

historyVars == <<accepted, received, handed, atAbort, causes>>

MCInit ==
    /\ StreamInit
    /\ accepted = <<>> /\ received = <<>> /\ causes = <<>>
    /\ handed = <<>> /\ atAbort = <<>>

MCMessage ==
    /\ Len(accepted) < MaxMessages
    /\ Message(Len(accepted) + 1)
    /\ accepted' = Append(accepted, Len(accepted) + 1)
    /\ UNCHANGED <<received, handed, atAbort, causes>>

MCError ==
    /\ Len(causes) < MaxErrors
    /\ \E c \in Cause :
        /\ RejectNext(c) \/ QueueError(c)
        /\ causes' = Append(causes, c)
    /\ UNCHANGED <<accepted, received, handed, atAbort>>

MCDeliver ==
    /\ Deliver
    /\ received' = Append(received, Head(messageQueue))
    /\ handed' = IF reader' = "handling" THEN Append(handed, current') ELSE handed
    /\ UNCHANGED <<accepted, atAbort, causes>>

MCAbortSignal ==
    /\ AbortSignal
    /\ atAbort' = handed
    /\ UNCHANGED <<accepted, received, handed, causes>>

MCNext ==
    \/ MCMessage
    \/ MCError
    \/ MCDeliver
    \/ Open /\ UNCHANGED historyVars
    \/ Reconnect /\ UNCHANGED historyVars
    \/ ThrowQueued /\ UNCHANGED historyVars
    \/ Resume /\ UNCHANGED historyVars
    \/ Leave /\ UNCHANGED historyVars
    \/ MCAbortSignal

MCSpec == MCInit /\ [][MCNext]_<<streamVars, historyVars>>

\* The two queues of eventSourceIterator neither lose, repeat nor reorder what
\* the listener was called with, and an error is thrown only after every
\* message that was there has been returned.
DeliveredInOrder == accepted = received \o messageQueue

\* A loop that waits in next() still has an EventSource that can wake it, or
\* has been aborted by its caller (an EventSource that gives up has queued the
\* error that next() throws).
WaitsOnLiveSource == NextPending => source # "closed" \/ aborted

\* The signal separates what the consumer sees from what it does not: until it
\* is aborted every event next() returned has been handed to the loop's body,
\* and from then on none is, although some may have been queued while the body
\* was busy.
NothingAfterAbort == handed = IF aborted THEN atAbort ELSE received

\* "ignore timeout errors, they're expected when the server is not sending
\* anything for 5 min": timeouts alone do not make the stream throw.
TimeoutsIgnored ==
    reader = "failed" => \E i \in 1 .. Len(causes) : causes[i] \notin TimeoutErrors
==============================================================================
