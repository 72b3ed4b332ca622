-------------------------- MODULE Settlement_proofs --------------------------
(***************************************************************************)
(* Proofs about Settlement, for every number of batches, errors and        *)
(* unrolled vtxos, every size of the vtxo tree and every set of coins.     *)
(* The second part is about a stream that never breaks (Reliable): what    *)
(* the events on their way say, in the order they come.  The third is the  *)
(* refinement of Swap, again whatever breaks, and the fourth what TxTree   *)
(* accepts of the chunks that have come.                                   *)
(***************************************************************************)
EXTENDS ReliableSettlement, Algorithms_proofs

-----------------------------------------------------------------------------
(* Type correctness, one component at a time. *)

\* The steps of the stream and of the server that settle's actions are made of.
StreamQuiet ==
    \/ Stream!Open
    \/ \E c \in Cause : Stream!RejectNext(c) \/ Stream!QueueError(c)
    \/ Stream!Reconnect
    \/ Stream!Deliver
    \/ Stream!ThrowQueued
    \/ Stream!Resume
    \/ Stream!Leave
    \/ UNCHANGED streamVars

StreamStep ==
    \/ StreamQuiet
    \/ outbox # <<>> /\ Stream!Message(Head(outbox))

Requested ==
    \/ \E o \in Server!Order : Server!RegisterIntent(o)
    \/ Server!ConfirmRegistration
    \/ \E what \in {"nonces", "signatures", "forfeits"} : Server!Submit(what)
    \/ Server!DeleteIntent

ServerStep == Server!BatchStep \/ Server!Emit \/ Requested \/ UNCHANGED serverVars

\* Every step of the stream keeps its types.
LEMMA StreamTyping ==
    ASSUME Stream!StreamTypeOK, Server!ServerTypeOK, StreamStep
    PROVE  Stream!StreamTypeOK'
<1> USE DEF Stream!StreamTypeOK
<1>1. CASE Stream!Open
  BY <1>1 DEF Stream!Open
<1>2. CASE outbox # <<>> /\ Stream!Message(Head(outbox))
  <2>1. Head(outbox) \in Server!SettlementEvent
    BY <1>2 DEF Server!ServerTypeOK
  <2> QED
    BY <1>2, <2>1 DEF Stream!Message
<1>3. CASE \E c \in Cause : Stream!RejectNext(c)
  BY <1>3 DEF Stream!RejectNext, Stream!Throw
<1>4. CASE \E c \in Cause : Stream!QueueError(c)
  <2>1. PICK c \in Cause : Stream!QueueError(c)
    BY <1>4
  <2>2. Stream!QueuedError(c) \in Stream!ErrorValue
    BY DEF Stream!QueuedError, Stream!ErrorValue
  <2> QED
    BY <2>1, <2>2 DEF Stream!QueueError
<1>5. CASE Stream!Reconnect
  BY <1>5 DEF Stream!Reconnect
<1>6. CASE Stream!Deliver
  BY <1>6 DEF Stream!Deliver
<1>7. CASE Stream!ThrowQueued
  BY <1>7 DEF Stream!ThrowQueued, Stream!Throw
<1>8. CASE Stream!Resume
  BY <1>8 DEF Stream!Resume
<1>9. CASE Stream!Leave
  BY <1>9 DEF Stream!Leave
<1>10. CASE UNCHANGED streamVars
  BY <1>10 DEF streamVars
<1> QED
  BY <1>1, <1>2, <1>3, <1>4, <1>5, <1>6, <1>7, <1>8, <1>9, <1>10
  DEF StreamStep, StreamQuiet

\* The sequences of events a batch emits.
LEMMA EventSequences ==
    ASSUME Server!ServerTypeOK, batch # 0
    PROVE  /\ \A tree \in {"vtxo", "connectors"}, leaves \in Nat :
                Server!TreeTxs(tree, leaves) \in Seq(Server!SettlementEvent)
           /\ Server!TreeSignatures \in Seq(Server!SettlementEvent)
           /\ \A type \in Server!PlainEvents :
                Server!Plain(type) \in Seq(Server!SettlementEvent)
<1>1. batch \in Server!Batch
  BY SettlementAssumption DEF Server!ServerTypeOK, Server!Batch
<1>2. ASSUME NEW tree \in {"vtxo", "connectors"}, NEW leaves \in Nat
      PROVE  Server!TreeTxs(tree, leaves) \in Seq(Server!SettlementEvent)
  <2>1. \A n \in 1 .. (leaves + 1) :
            [type |-> "TreeTx", id |-> batch, tree |-> tree, node |-> n - 1]
                \in Server!SettlementEvent
    BY <1>1 DEF Server!SettlementEvent, Server!Node
  <2> QED
    BY <2>1 DEF Server!TreeTxs
<1>3. Server!TreeSignatures \in Seq(Server!SettlementEvent)
  <2>1. \A n \in 1 .. (VtxoLeaves + 1) :
            [type |-> "TreeSignature", id |-> batch, node |-> n - 1]
                \in Server!SettlementEvent
    BY <1>1, SettlementAssumption DEF Server!SettlementEvent, Server!Node
  <2>2. VtxoLeaves + 1 \in Nat
    BY SettlementAssumption
  <2> QED
    BY <2>1, <2>2 DEF Server!TreeSignatures
<1>4. ASSUME NEW type \in Server!PlainEvents
      PROVE  Server!Plain(type) \in Seq(Server!SettlementEvent)
  BY <1>1 DEF Server!Plain, Server!SettlementEvent
<1> QED
  BY <1>2, <1>3, <1>4

\* The instance's Cardinality is the library's.
LEMMA SameCardinality == \A S : Server!Cardinality(S) = Cardinality(S)
BY DEF Server!Cardinality, Cardinality

\* The connectors can be counted.
LEMMA NbConnectorsType ==
    ASSUME Server!ServerTypeOK
    PROVE  Server!NbConnectors \in Nat
<1>1. order.vtxos \subseteq Vtxos
  BY DEF Server!ServerTypeOK, Server!Order
<1>2. IsFiniteSet(order.vtxos)
  BY <1>1, FS_Subset, SettlementAssumption
<1> QED
  BY <1>2, FS_CardinalityType, SameCardinality DEF Server!NbConnectors

\* Every step of the server keeps its types.
LEMMA ServerTyping ==
    ASSUME Server!ServerTypeOK, ServerStep
    PROVE  Server!ServerTypeOK'
<1> USE SettlementAssumption DEF Server!ServerTypeOK
<1>1. phase # "idle" => batch \in Server!Batch
  BY DEF Server!Batch
<1>2. Server!NbConnectors \in Nat
  BY NbConnectorsType
<1>3. CASE Server!StartBatch
  <2>1. batch + 1 \in Server!Batch
    BY <1>3 DEF Server!StartBatch, Server!Batch
  <2>2. \A ours \in BOOLEAN :
            <<[type |-> "BatchStarted", id |-> batch + 1, ours |-> ours]>>
                \in Seq(Server!SettlementEvent)
    BY <2>1 DEF Server!SettlementEvent
  <2>3. outbox' \in Seq(Server!SettlementEvent)
    BY <1>3, <2>2 DEF Server!StartBatch
  <2>4. batch' \in 1 .. MaxBatch
    BY <1>3, <2>1 DEF Server!StartBatch, Server!Batch
  <2>5. intent' \in {"selected", intent}
    BY <1>3 DEF Server!StartBatch
  <2> QED
    BY <1>3, <2>3, <2>4, <2>5 DEF Server!StartBatch
<1>4. CASE Server!CloseConfirmation
  <2>1. outbox' \in Seq(Server!SettlementEvent)
    BY <1>4, EventSequences, ConcatProperties, EmptySeq
    DEF Server!CloseConfirmation, Server!PlainEvents
  <2> QED
    BY <1>4, <2>1 DEF Server!CloseConfirmation, Server!LeftBehind
<1>5. CASE Server!AggregateNonces
  BY <1>5, EventSequences DEF Server!AggregateNonces, Server!PlainEvents
<1>6. CASE Server!StartFinalization
  <2>1. outbox' \in Seq(Server!SettlementEvent)
    BY <1>2, <1>6, EventSequences, ConcatProperties, EmptySeq
    DEF Server!StartFinalization, Server!PlainEvents
  <2> QED
    BY <1>6, <2>1 DEF Server!StartFinalization
<1>7. CASE Server!EndBatch
  BY <1>7, EventSequences DEF Server!EndBatch, Server!PlainEvents
<1>8. CASE Server!FailBatch
  <2>1. outbox' \in Seq(Server!SettlementEvent)
    BY <1>8, EventSequences, ConcatProperties
    DEF Server!FailBatch, Server!PlainEvents
  <2> QED
    BY <1>8, <2>1 DEF Server!FailBatch, Server!LeftBehind
<1>9. CASE Server!Emit
  BY <1>9 DEF Server!Emit
<1>10. CASE Requested
  <2>1. CASE \E o \in Server!Order : Server!RegisterIntent(o)
    BY <2>1 DEF Server!RegisterIntent
  <2>2. CASE Server!ConfirmRegistration
    BY <1>1, <2>2 DEF Server!ConfirmRegistration
  <2>3. CASE \E what \in {"nonces", "signatures", "forfeits"} : Server!Submit(what)
    BY <2>3 DEF Server!Submit
  <2>4. CASE Server!DeleteIntent
    BY <2>4 DEF Server!DeleteIntent
  <2> QED
    BY <1>10, <2>1, <2>2, <2>3, <2>4 DEF Requested
<1>11. CASE UNCHANGED serverVars
  BY <1>11 DEF serverVars
<1> QED
  BY <1>3, <1>4, <1>5, <1>6, <1>7, <1>8, <1>9, <1>10, <1>11
  DEF ServerStep, Server!BatchStep

\* Every step of settle is a step of the stream and a step of the server.
LEMMA Components ==
    ASSUME TypeOK, [Next]_vars
    PROVE  StreamStep /\ ServerStep
<1> USE DEF StreamStep, StreamQuiet, ServerStep
<1>1. CASE Settle
  BY <1>1 DEF Settle
<1>2. CASE Registered
  BY <1>2 DEF Registered
<1>3. CASE RegistrationThrows
  BY <1>3 DEF RegistrationThrows
<1>4. CASE NextEvent
  BY <1>4 DEF NextEvent
<1>5. CASE IgnoreEvent
  BY <1>5 DEF IgnoreEvent, Continue
<1>6. CASE OnBatchFailed
  BY <1>6 DEF OnBatchFailed, Abort
<1>7. CASE OnBatchStarted
  BY <1>7 DEF OnBatchStarted
<1>8. CASE Confirmed
  BY <1>8 DEF Confirmed, Continue
<1>9. CASE OnTreeTx
  BY <1>9 DEF OnTreeTx, Continue
<1>10. CASE OnTreeSigningStarted
  BY <1>10 DEF OnTreeSigningStarted
<1>11. CASE NoncesSubmitted
  BY <1>11 DEF NoncesSubmitted, Continue
<1>12. CASE OnTreeNoncesAggregated
  BY <1>12 DEF OnTreeNoncesAggregated
<1>13. CASE SignaturesSubmitted
  BY <1>13 DEF SignaturesSubmitted, Continue
<1>14. CASE OnTreeSignature
  BY <1>14 DEF OnTreeSignature, Continue
<1>15. CASE OnBatchFinalization
  BY <1>15 DEF OnBatchFinalization
<1>16. CASE CoinsRead
  BY <1>16 DEF CoinsRead
<1>17. CASE NothingToSubmit
  BY <1>17 DEF NothingToSubmit, Continue
<1>18. CASE ForfeitsSubmitted
  BY <1>18 DEF ForfeitsSubmitted, Continue
<1>19. CASE OnBatchFinalized
  BY <1>19 DEF OnBatchFinalized
<1>20. CASE LoopThrows
  BY <1>20 DEF LoopThrows, Abort
<1>21. CASE StreamThrows
  BY <1>21 DEF StreamThrows
<1>22. CASE IntentDeleted
  BY <1>22 DEF IntentDeleted
<1>23. CASE Accept
  <2>1. OrderOf \in Server!Order
    BY DEF OrderOf, Server!Order, TypeOK, SettleTypeOK
  <2>2. Requested \/ UNCHANGED serverVars
    BY <1>23, <2>1
    DEF Accept, Requested, Server!SubmitTreeNonces, Server!SubmitTreeSignatures,
        Server!SubmitForfeits
  <2> QED
    BY <1>23, <2>2 DEF Accept
<1>24. CASE Refuse
  BY <1>24 DEF Refuse
<1>25. CASE RunBatch
  BY <1>25 DEF RunBatch
<1>26. CASE EmitEvent
  BY <1>26 DEF EmitEvent, Server!Emit
<1>27. CASE ErrorWhileReading
  BY <1>27 DEF ErrorWhileReading
<1>28. CASE ErrorWhileBusy
  BY <1>28 DEF ErrorWhileBusy
<1>29. CASE Reconnect
  BY <1>29 DEF Reconnect
<1>30. CASE Unroll
  BY <1>30 DEF Unroll
<1>31. CASE UNCHANGED vars
  BY <1>31 DEF vars
<1> QED
  BY <1>1, <1>2, <1>3, <1>4, <1>5, <1>6, <1>7, <1>8, <1>9, <1>10, <1>11, <1>12,
     <1>13, <1>14, <1>15, <1>16, <1>17, <1>18, <1>19, <1>20, <1>21, <1>22, <1>23,
     <1>24, <1>25, <1>26, <1>27, <1>28, <1>29, <1>30, <1>31
  DEF Next, ClientStep

\* What settle reads of an event.
LEMMA EventFields ==
    \A e \in Server!SettlementEvent :
        /\ e.id \in Server!Batch
        /\ e.type \in {"TreeTx", "TreeSignature"} => <<e.id, e.node>> \in Server!Chunk
        /\ e.type = "TreeTx" => e.tree \in {"vtxo", "connectors"}
BY DEF Server!SettlementEvent, Server!PlainEvents, Server!Chunk

\* Every step keeps the types of settle's own variables.
LEMMA SettleTyping ==
    ASSUME TypeOK, [Next]_vars
    PROVE  SettleTypeOK'
<1> USE DEF SettleTypeOK, Awaits, Ended, Steps
<1>h. SettleTypeOK /\ (reader = "handling" => current \in Server!SettlementEvent)
  BY DEF TypeOK, Stream!StreamTypeOK
<1> USE <1>h
<1>1. CASE Settle
  BY <1>1 DEF Settle, Send, sessionVars, treeVars, submittedVars, envVars
<1>2. CASE Registered
  BY <1>2 DEF Registered, Listen, sessionVars, paramVars, treeVars, submittedVars, envVars
<1>3. CASE RegistrationThrows
  BY <1>3 DEF RegistrationThrows, sessionVars, paramVars, treeVars, submittedVars, envVars
<1>4. CASE NextEvent
  BY <1>4 DEF NextEvent, sessionVars, paramVars, treeVars, submittedVars, envVars
<1>5. CASE IgnoreEvent
  BY <1>5 DEF IgnoreEvent, Continue, Listen, sessionVars, paramVars, treeVars,
              submittedVars, envVars
<1>6. CASE OnBatchFailed
  BY <1>6 DEF OnBatchFailed, Abort, Send, sessionVars, paramVars, treeVars,
              submittedVars, envVars
<1>7. CASE OnBatchStarted
  BY <1>7 DEF OnBatchStarted, Send, sessionVars, paramVars, treeVars,
              submittedVars, envVars
<1>8. CASE Confirmed
  <2>1. current.id \in Server!Batch
    BY <1>8, EventFields DEF Confirmed, Continue, Stream!Resume
  <2> QED
    BY <1>8, <2>1 DEF Confirmed, Continue, Listen, sessionVars, paramVars, treeVars,
                      submittedVars, envVars
<1>9. CASE OnTreeTx
  <2>1. <<current.id, current.node>> \in Server!Chunk
    BY <1>9, EventFields DEF OnTreeTx, On, Handling
  <2> QED
    BY <1>9, <2>1 DEF OnTreeTx, Continue, Listen, sessionVars, paramVars,
                      submittedVars, envVars
<1>10. CASE OnTreeSigningStarted
  BY <1>10 DEF OnTreeSigningStarted, Session!InitAndGetNonces, Send, paramVars,
               treeVars, submittedVars, envVars
<1>11. CASE NoncesSubmitted
  BY <1>11 DEF NoncesSubmitted, Continue, Listen, sessionVars, paramVars, treeVars,
               submittedVars, envVars
<1>12. CASE OnTreeNoncesAggregated
  <2>1. NoncesOf(current) \subseteq Server!Chunk
    <3>1. current.id \in Server!Batch
      BY <1>12, EventFields DEF OnTreeNoncesAggregated, On, Handling
    <3>2. 0 .. VtxoLeaves \subseteq Server!Node
      BY SettlementAssumption DEF Server!Node
    <3> QED
      BY <3>1, <3>2 DEF NoncesOf, Server!TreeOf, Server!Chunk
  <2> QED
    BY <1>12, <2>1
    DEF OnTreeNoncesAggregated, Session!SetAggregatedNoncesAndSign, Send, paramVars,
        treeVars, submittedVars, envVars
<1>13. CASE SignaturesSubmitted
  BY <1>13 DEF SignaturesSubmitted, Continue, Listen, sessionVars, paramVars,
               treeVars, submittedVars, envVars
<1>14. CASE OnTreeSignature
  BY <1>14 DEF OnTreeSignature, Continue, Listen, sessionVars, paramVars,
               submittedVars, envVars
<1>15. CASE OnBatchFinalization
  BY <1>15 DEF OnBatchFinalization, Send, sessionVars, paramVars, treeVars,
               submittedVars, envVars
<1>16. CASE CoinsRead
  <2>1. ToForfeit \subseteq Coins /\ TakenForBoarding \subseteq Coins
    BY DEF ToForfeit, TakenForBoarding, KnownVtxos
  <2>2. ConnectorsLeaves \subseteq Server!Chunk
    BY DEF ConnectorsLeaves
  <2>3. \A f \in ConnectorChoices, i \in ToForfeit :
            [input |-> i, connector |-> f[i]] \in Forfeit
    BY <2>1, <2>2 DEF ConnectorChoices, Forfeit
  <2>4. forfeits' \subseteq Forfeit
    BY <1>16, <2>3 DEF CoinsRead
  <2>5. boarding' \subseteq Coins
    BY <1>16, <2>1 DEF CoinsRead
  <2> QED
    BY <1>16, <2>4, <2>5 DEF CoinsRead, Send, sessionVars, paramVars, treeVars, envVars
<1>17. CASE NothingToSubmit
  BY <1>17 DEF NothingToSubmit, Continue, Listen, sessionVars, paramVars, treeVars,
               submittedVars, envVars
<1>18. CASE ForfeitsSubmitted
  BY <1>18 DEF ForfeitsSubmitted, Continue, Listen, sessionVars, paramVars, treeVars,
               submittedVars, envVars
<1>19. CASE OnBatchFinalized
  <2>1. current.id \in Server!Batch
    BY <1>19, EventFields DEF OnBatchFinalized, On, Handling
  <2> QED
    BY <1>19, <2>1 DEF OnBatchFinalized, sessionVars, paramVars, treeVars,
                       submittedVars, envVars
<1>20. CASE LoopThrows
  BY <1>20 DEF LoopThrows, Abort, Send, sessionVars, paramVars, treeVars,
               submittedVars, envVars
<1>21. CASE StreamThrows
  BY <1>21 DEF StreamThrows, Send, sessionVars, paramVars, treeVars, submittedVars,
               envVars
<1>22. CASE IntentDeleted
  BY <1>22 DEF IntentDeleted, sessionVars, paramVars, treeVars, submittedVars, envVars
<1>23. CASE Accept
  BY <1>23 DEF Accept, sessionVars, paramVars, treeVars, submittedVars, envVars
<1>24. CASE Refuse
  BY <1>24 DEF Refuse, sessionVars, paramVars, treeVars, submittedVars, envVars
<1> USE DEF clientVars, sessionVars, paramVars, treeVars, submittedVars, envVars
<1>25. CASE RunBatch
  BY <1>25 DEF RunBatch
<1>26. CASE EmitEvent
  BY <1>26 DEF EmitEvent
<1>27. CASE ErrorWhileReading
  BY <1>27, SettlementAssumption DEF ErrorWhileReading, Send
<1>28. CASE ErrorWhileBusy
  BY <1>28, SettlementAssumption DEF ErrorWhileBusy
<1>29. CASE Reconnect
  BY <1>29 DEF Reconnect
<1>30. CASE Unroll
  BY <1>30 DEF Unroll
<1>31. CASE UNCHANGED vars
  BY <1>31 DEF vars
<1> QED
  BY <1>1, <1>2, <1>3, <1>4, <1>5, <1>6, <1>7, <1>8, <1>9, <1>10, <1>11, <1>12,
     <1>13, <1>14, <1>15, <1>16, <1>17, <1>18, <1>19, <1>20, <1>21, <1>22, <1>23,
     <1>24, <1>25, <1>26, <1>27, <1>28, <1>29, <1>30, <1>31
  DEF Next, ClientStep

\* The initial states are typed.
LEMMA InitTyping == Init => TypeOK
<1> SUFFICES ASSUME Init PROVE TypeOK
  OBVIOUS
<1>1. Stream!StreamTypeOK
  <2>1. <<>> \in Seq(Server!SettlementEvent) /\ <<>> \in Seq(Stream!ErrorValue)
    BY EmptySeq
  <2> QED
    BY <2>1 DEF Init, Stream!StreamInit, Stream!StreamTypeOK
<1>2. Server!ServerTypeOK
  <2>1. <<>> \in Seq(Server!SettlementEvent)
    BY EmptySeq
  <2>2. order \in Server!Order
    BY DEF Init, Server!ServerInit, Server!Order
  <2>3. batch \in 0 .. MaxBatch /\ joined \subseteq Server!Batch
    BY SettlementAssumption DEF Init, Server!ServerInit
  <2> QED
    BY <2>1, <2>2, <2>3 DEF Init, Server!ServerInit, Server!ServerTypeOK
<1>3. SettleTypeOK
  <2>1. vtxoGraph = {} /\ myNonces = {} /\ aggregateNonces = {}
    BY DEF Init, Session!SessionInit
  <2>2. errors \in 0 .. MaxErrors
    BY SettlementAssumption DEF Init
  <2> QED
    BY <2>1, <2>2 DEF Init, SettleTypeOK, Awaits, Ended, Steps
<1> QED
  BY <1>1, <1>2, <1>3 DEF TypeOK

\* Every variable of the composition stays in its type.
THEOREM TypeCorrect == Spec => []TypeOK
<1>1. TypeOK /\ [Next]_vars => TypeOK'
  BY Components, StreamTyping, ServerTyping, SettleTyping DEF TypeOK
<1> QED
  BY InitTyping, <1>1, PTL DEF Spec

-----------------------------------------------------------------------------
(* The inductive invariant. *)

\* The server forgets no batch this wallet joined, and keeps the intent's state
\* in line with its phase.
LEMMA ServerKeeps ==
    ASSUME TypeOK, IntentFollowsPhase, ServerStep
    PROVE  joined \subseteq joined' /\ IntentFollowsPhase'
<1> USE DEF IntentFollowsPhase, TypeOK, Server!ServerTypeOK
<1>1. CASE Server!StartBatch
  BY <1>1 DEF Server!StartBatch
<1>2. CASE Server!CloseConfirmation
  BY <1>2 DEF Server!CloseConfirmation, Server!LeftBehind
<1>3. CASE Server!AggregateNonces
  BY <1>3 DEF Server!AggregateNonces
<1>4. CASE Server!StartFinalization
  BY <1>4 DEF Server!StartFinalization
<1>5. CASE Server!EndBatch
  BY <1>5 DEF Server!EndBatch
<1>6. CASE Server!FailBatch
  BY <1>6 DEF Server!FailBatch, Server!LeftBehind
<1>7. CASE Server!Emit
  BY <1>7 DEF Server!Emit
<1>8. CASE Requested
  BY <1>8 DEF Requested, Server!RegisterIntent, Server!ConfirmRegistration,
              Server!Submit, Server!DeleteIntent
<1>9. CASE UNCHANGED serverVars
  BY <1>9 DEF serverVars
<1> QED
  BY <1>1, <1>2, <1>3, <1>4, <1>5, <1>6, <1>7, <1>8, <1>9
  DEF ServerStep, Server!BatchStep

\* Requests are not answered with events, nor do they change the phase.
LEMMA Requests ==
    ASSUME Requested
    PROVE  outbox' = outbox
BY DEF Requested, Server!RegisterIntent, Server!ConfirmRegistration, Server!Submit,
       Server!DeleteIntent

Participant(q) == \A i \in 1 .. Len(q) : ForParticipant(q[i])

\* A queue without TreeTx events, an appended and a shortened queue.
LEMMA ParticipantQueues ==
    ASSUME NEW q \in Seq(Server!SettlementEvent), Participant(q)
    PROVE  /\ \A r \in Seq(Server!SettlementEvent) :
                Participant(r) => Participant(q \o r)
           /\ \A e \in Server!SettlementEvent :
                ForParticipant(e) => Participant(Append(q, e))
           /\ q # <<>> => Participant(Tail(q)) /\ ForParticipant(Head(q))
<1> USE DEF Participant
<1>1. ASSUME NEW r \in Seq(Server!SettlementEvent), Participant(r)
      PROVE  Participant(q \o r)
  BY <1>1, ConcatProperties
<1>2. ASSUME NEW e \in Server!SettlementEvent, ForParticipant(e)
      PROVE  Participant(Append(q, e))
  BY <1>2, AppendProperties
<1>3. ASSUME q # <<>>
      PROVE  Participant(Tail(q)) /\ ForParticipant(Head(q))
  BY <1>3, HeadTailProperties
<1> QED
  BY <1>1, <1>2, <1>3

\* What the server puts out, it puts out for those who listen.
LEMMA OutboxRespectsTopics ==
    ASSUME TypeOK, TopicsRespected, IntentFollowsPhase, ServerStep
    PROVE  /\ joined \subseteq joined'
           /\ \A i \in 1 .. Len(outbox') : ForParticipant(outbox'[i])
<1> DEFINE Events == Server!SettlementEvent
<1>1. joined \subseteq joined'
  BY ServerKeeps
<1>2. outbox \in Seq(Events) /\ Participant(outbox)
  BY DEF TypeOK, Server!ServerTypeOK, TopicsRespected, Participant
<1>3. phase # "idle" => batch # 0
  BY DEF TypeOK, Server!ServerTypeOK
<1>4. \A type \in Server!PlainEvents :
          /\ phase # "idle" => Server!Plain(type) \in Seq(Events)
          /\ Participant(Server!Plain(type))
  <2>1. ASSUME NEW type \in Server!PlainEvents
        PROVE  Participant(Server!Plain(type))
    BY DEF Server!Plain, Server!PlainEvents, Participant, ForParticipant
  <2> QED
    BY <1>3, <2>1, EventSequences DEF TypeOK
<1>5. Participant(<<>>) /\ <<>> \in Seq(Events)
  BY EmptySeq DEF Participant
<1>6. ASSUME NEW tree \in {"vtxo", "connectors"}, NEW leaves \in Nat,
             phase # "idle", intent = "confirmed"
      PROVE  Participant(Server!TreeTxs(tree, leaves))
  <2>1. batch \in joined
    BY <1>6 DEF IntentFollowsPhase
  <2> QED
    BY <2>1 DEF Server!TreeTxs, Participant, ForParticipant
<1>7. SUFFICES Participant(outbox')
  BY <1>1 DEF Participant
<1>8. CASE Server!StartBatch
  BY <1>8 DEF Server!StartBatch, Participant, ForParticipant
<1>9. CASE Server!CloseConfirmation
  <2> DEFINE txs == IF Server!Taking(order.cosigned)
                    THEN Server!TreeTxs("vtxo", VtxoLeaves) ELSE <<>>
  <2>1. txs \in Seq(Events) /\ Participant(txs)
    BY <1>3, <1>5, <1>6, <1>9, EventSequences, SettlementAssumption
    DEF Server!CloseConfirmation, Server!Taking, TypeOK
  <2>2. Participant(txs \o Server!Plain("TreeSigningStarted"))
    BY <2>1, <1>4, <1>9, ParticipantQueues
    DEF Server!CloseConfirmation, Server!PlainEvents
  <2> QED
    BY <2>2, <1>9 DEF Server!CloseConfirmation
<1>10. CASE Server!AggregateNonces
  BY <1>4, <1>10 DEF Server!AggregateNonces, Server!PlainEvents
<1>11. CASE Server!StartFinalization
  <2> DEFINE sigs == IF Server!Taking(order.cosigned)
                     THEN Server!TreeSignatures ELSE <<>>
             txs == IF Server!Taking(order.vtxos # {})
                    THEN Server!TreeTxs("connectors", Server!NbConnectors) ELSE <<>>
  <2>1. sigs \in Seq(Events) /\ Participant(sigs)
    <3>1. Participant(Server!TreeSignatures)
      BY SettlementAssumption DEF Server!TreeSignatures, Participant, ForParticipant
    <3> QED
      BY <3>1, <1>3, <1>5, <1>11, EventSequences DEF Server!StartFinalization, TypeOK
  <2>2. Server!NbConnectors \in Nat
    BY NbConnectorsType DEF TypeOK
  <2>3. txs \in Seq(Events) /\ Participant(txs)
    BY <1>3, <1>5, <1>6, <1>11, <2>2, EventSequences
    DEF Server!StartFinalization, Server!Taking, TypeOK
  <2>4. sigs \o txs \in Seq(Events) /\ Participant(sigs \o txs)
    BY <2>1, <2>3, ParticipantQueues, ConcatProperties
  <2>5. Participant((sigs \o txs) \o Server!Plain("BatchFinalization"))
    BY <2>4, <1>4, <1>11, ParticipantQueues
    DEF Server!StartFinalization, Server!PlainEvents
  <2> QED
    BY <2>5, <1>11 DEF Server!StartFinalization
<1>12. CASE Server!EndBatch
  BY <1>4, <1>12 DEF Server!EndBatch, Server!PlainEvents
<1>13. CASE Server!FailBatch
  <2>1. Participant(outbox \o Server!Plain("BatchFailed"))
    BY <1>2, <1>4, <1>13, ParticipantQueues DEF Server!FailBatch, Server!PlainEvents
  <2> QED
    BY <2>1, <1>13 DEF Server!FailBatch
<1>14. CASE Server!Emit
  BY <1>2, <1>14, ParticipantQueues DEF Server!Emit
<1>15. CASE Requested
  BY <1>2, <1>15, Requests
<1>16. CASE UNCHANGED serverVars
  BY <1>2, <1>16 DEF serverVars
<1> QED
  BY <1>8, <1>9, <1>10, <1>11, <1>12, <1>13, <1>14, <1>15, <1>16
  DEF ServerStep, Server!BatchStep

\* Every step keeps the events within the topics.
LEMMA TopicsKept ==
    ASSUME TypeOK, TopicsRespected, IntentFollowsPhase, [Next]_vars
    PROVE  TopicsRespected'
<1> DEFINE Events == Server!SettlementEvent
<1>1. StreamStep /\ ServerStep
  BY Components
<1>2. joined \subseteq joined' /\ \A i \in 1 .. Len(outbox') : ForParticipant(outbox'[i])
  BY <1>1, OutboxRespectsTopics
<1>3. messageQueue \in Seq(Events) /\ Participant(messageQueue)
  BY DEF TypeOK, Stream!StreamTypeOK, TopicsRespected, Participant
<1>4. outbox # <<>> => Head(outbox) \in Events /\ ForParticipant(Head(outbox))
  BY ParticipantQueues DEF TypeOK, Server!ServerTypeOK, TopicsRespected, Participant
<1>5. messageQueue # <<>> =>
          Participant(Tail(messageQueue)) /\ ForParticipant(Head(messageQueue))
  BY <1>3, ParticipantQueues
<1>6. Participant(messageQueue') /\ (reader' = "handling" => ForParticipant(current'))
  <2> USE DEF TopicsRespected
  <2>1. CASE Stream!Open \/ Stream!Reconnect \/ Stream!Resume \/ Stream!Leave
    BY <2>1, <1>3 DEF Stream!Open, Stream!Reconnect, Stream!Resume, Stream!Leave
  <2>2. CASE \/ \E c \in Cause : Stream!RejectNext(c)
             \/ Stream!ThrowQueued
    BY <2>2 DEF Stream!RejectNext, Stream!ThrowQueued, Stream!Throw, Participant
  <2>3. CASE \E c \in Cause : Stream!QueueError(c)
    BY <2>3, <1>3 DEF Stream!QueueError
  <2>4. CASE Stream!Deliver
    BY <2>4, <1>5 DEF Stream!Deliver
  <2>5. CASE UNCHANGED streamVars
    BY <2>5, <1>3 DEF streamVars
  <2>6. CASE outbox # <<>> /\ Stream!Message(Head(outbox))
    BY <2>6, <1>3, <1>4, ParticipantQueues DEF Stream!Message
  <2> QED
    BY <1>1, <2>1, <2>2, <2>3, <2>4, <2>5, <2>6 DEF StreamStep, StreamQuiet
<1> QED
  BY <1>2, <1>6 DEF TopicsRespected, Participant, ForParticipant

\* What the settlement itself keeps, given what the server sends it.
SettleInv ==
    /\ NothingJoinedYet
    /\ AwaitsInPlace
    /\ ChunksOfJoined
    /\ TreeBehindStep
    /\ ConnectorsValidated
    /\ JoinsOnce
    /\ CosignsJoinedBatch
    /\ ForfeitsToJoinedBatch

\* Every step keeps what settle remembers in step with the server.
LEMMA SettleInvKept ==
    ASSUME IInv, [Next]_vars
    PROVE  SettleInv'
<1> USE DEF SettleInv, NothingJoinedYet, AwaitsInPlace, ChunksOfJoined,
            TreeBehindStep, ConnectorsValidated, JoinsOnce, CosignsJoinedBatch,
            ForfeitsToJoinedBatch, Cosigning, LoopAwaits, Awaits, Ended, Answered
<1>h. SettleInv /\ TopicsRespected
  BY DEF IInv
<1> USE <1>h DEF sessionVars, paramVars, treeVars, submittedVars, envVars, serverVars,
                 streamVars, clientVars
<1>1. CASE Settle
  BY <1>1 DEF Settle, Send, treeVars, sessionVars, submittedVars, serverVars
<1>2. CASE Registered
  BY <1>2 DEF Registered, Answered, Listen
<1>3. CASE RegistrationThrows
  BY <1>3 DEF RegistrationThrows
<1>4. CASE NextEvent
  BY <1>4 DEF NextEvent, Stream!Deliver
<1>5. CASE IgnoreEvent
  BY <1>5 DEF IgnoreEvent, Continue, Listen
<1>6. CASE OnBatchFailed
  BY <1>6 DEF OnBatchFailed, Abort, Send
<1>7. CASE OnBatchStarted
  BY <1>7 DEF OnBatchStarted, On, Handling, Expected, Send
<1>8. CASE Confirmed
  BY <1>8 DEF Confirmed, Answered, Continue, Listen
<1>9. CASE OnTreeTx
  <2>1. current.id \in joined /\ pc = "listening"
    BY <1>9 DEF OnTreeTx, On, Handling, TopicsRespected, ForParticipant
  <2>2. vtxoChunks' \cup connectorsChunks'
            \subseteq (vtxoChunks \cup connectorsChunks) \cup {<<current.id, current.node>>}
    BY <1>9 DEF OnTreeTx
  <2> QED
    BY <1>9, <2>1, <2>2 DEF OnTreeTx, Continue, Listen
<1>10. CASE OnTreeSigningStarted
  <2>1. <<current.id, 0>> \in vtxoGraph' /\ \A tx \in vtxoGraph' : tx[1] = current.id
    BY <1>10 DEF OnTreeSigningStarted, HangsFrom, Session!InitAndGetNonces
  <2>2. current.id \in joined /\ vtxoGraph' = vtxoChunks
    BY <1>10, <2>1 DEF OnTreeSigningStarted, Session!InitAndGetNonces
  <2>3. step = "BatchStarted" /\ reader = "handling" /\ pc = "listening"
    BY <1>10 DEF OnTreeSigningStarted, On, Handling, Expected
  <2> QED
    BY <1>10, <2>1, <2>2, <2>3 DEF OnTreeSigningStarted, Send
<1>11. CASE NoncesSubmitted
  BY <1>11 DEF NoncesSubmitted, Answered, Continue, Listen
<1>12. CASE OnTreeNoncesAggregated
  <2>1. /\ vtxoGraph # {}
        /\ \A tx \in vtxoGraph : tx \in NoncesOf(current)
        /\ aggregateNonces' = NoncesOf(current)
        /\ UNCHANGED vtxoGraph
    BY <1>12 DEF OnTreeNoncesAggregated, Session!SetAggregatedNoncesAndSign,
                 Session!CanSign
  <2>2. \A tx \in vtxoGraph : tx[1] = current.id
    BY <2>1 DEF NoncesOf, Server!TreeOf
  <2>3. step = "TreeSigningStarted" /\ reader = "handling" /\ pc = "listening"
    BY <1>12 DEF OnTreeNoncesAggregated, On, Handling, Expected
  <2> QED
    BY <1>12, <2>1, <2>2, <2>3 DEF OnTreeNoncesAggregated, Send
<1>13. CASE SignaturesSubmitted
  BY <1>13 DEF SignaturesSubmitted, Answered, Continue, Listen
<1>14. CASE OnTreeSignature
  BY <1>14 DEF OnTreeSignature, On, Handling, Continue, Listen
<1>15. CASE OnBatchFinalization
  <2>1. \A c \in connectorsChunks : c[1] = current.id
    BY <1>15 DEF OnBatchFinalization, ConnectorsOK, HangsFrom
  <2>2. step = "TreeNoncesAggregated" /\ reader = "handling" /\ pc = "listening"
    BY <1>15 DEF OnBatchFinalization, On, Handling, Expected
  <2> QED
    BY <1>15, <2>1, <2>2 DEF OnBatchFinalization, Send
<1>16. CASE CoinsRead
  <2>1. pc = "readingCoins" /\ reader = "handling" /\ step = "TreeNoncesAggregated"
    BY <1>16 DEF CoinsRead
  <2>2. ASSUME NEW f \in forfeits'
        PROVE  f.connector[1] = current.id /\ current.id \in joined
    <3>1. f.connector \in connectorsChunks
      BY <1>16 DEF CoinsRead, ConnectorChoices, ConnectorsLeaves
    <3> QED
      BY <2>1, <3>1
  <2>3. ASSUME NEW f \in forfeits', hasOffchainOutputs
        PROVE  <<current.id, 0>> \in vtxoGraph /\ vtxoGraph \subseteq aggregateNonces
    BY <2>1, <2>2, <2>3
  <2> QED
    BY <1>16, <2>1, <2>2, <2>3 DEF CoinsRead, Send
<1>17. CASE NothingToSubmit
  BY <1>17 DEF NothingToSubmit, Answered, Continue, Listen
<1>18. CASE ForfeitsSubmitted
  BY <1>18 DEF ForfeitsSubmitted, Answered, Continue, Listen
<1>19. CASE OnBatchFinalized
  BY <1>19 DEF OnBatchFinalized
<1>20. CASE LoopThrows
  BY <1>20 DEF LoopThrows, Abort, Send
<1>21. CASE StreamThrows
  BY <1>21 DEF StreamThrows, Send
<1>22. CASE IntentDeleted
  BY <1>22 DEF IntentDeleted
<1>23. CASE Accept
  <2>1. CASE pc = "confirming" /\ Server!ConfirmRegistration
    <3>1. joined = {} /\ joined' = {batch}
      BY <1>23, <2>1 DEF Accept, Server!ConfirmRegistration
    <3> QED
      BY <1>23, <2>1, <3>1 DEF Accept
  <2>2. CASE pc # "confirming" /\ UNCHANGED joined
    BY <1>23, <2>2 DEF Accept
  <2> QED
    BY <1>23, <2>1, <2>2
    DEF Accept, Server!RegisterIntent, Server!Submit, Server!SubmitTreeNonces,
        Server!SubmitTreeSignatures, Server!SubmitForfeits, Server!DeleteIntent
<1>24. CASE Refuse
  BY <1>24 DEF Refuse
<1>25. CASE RunBatch
  <2>1. UNCHANGED joined
    BY <1>25 DEF RunBatch, Server!BatchStep, Server!StartBatch,
                 Server!CloseConfirmation, Server!AggregateNonces,
                 Server!StartFinalization, Server!EndBatch, Server!FailBatch
  <2> QED
    BY <1>25, <2>1 DEF RunBatch
<1>26. CASE EmitEvent
  <2>1. UNCHANGED <<joined, reader, current>>
    BY <1>26 DEF EmitEvent, Server!Emit, Stream!Message
  <2> QED
    BY <1>26, <2>1 DEF EmitEvent
<1>27. CASE ErrorWhileReading
  BY <1>27 DEF ErrorWhileReading, Send
<1>28. CASE ErrorWhileBusy
  BY <1>28 DEF ErrorWhileBusy, Stream!QueueError
<1>29. CASE Reconnect
  BY <1>29 DEF Reconnect, Stream!Reconnect
<1>30. CASE Unroll
  BY <1>30 DEF Unroll
<1>31. CASE UNCHANGED vars
  BY <1>31 DEF vars
<1> QED
  BY <1>1, <1>2, <1>3, <1>4, <1>5, <1>6, <1>7, <1>8, <1>9, <1>10, <1>11, <1>12, <1>13, <1>14, <1>15, <1>16, <1>17, <1>18, <1>19, <1>20, <1>21, <1>22, <1>23, <1>24, <1>25, <1>26, <1>27, <1>28, <1>29, <1>30, <1>31
  DEF Next, ClientStep

\* Every step keeps the invariant.
LEMMA Inductive == IInv /\ [Next]_vars => IInv'
<1> SUFFICES ASSUME IInv, [Next]_vars PROVE IInv'
  OBVIOUS
<1>1. TypeOK'
  BY Components, StreamTyping, ServerTyping, SettleTyping DEF IInv, TypeOK
<1>2. TopicsRespected'
  BY TopicsKept DEF IInv
<1>3. IntentFollowsPhase'
  BY Components, ServerKeeps DEF IInv
<1>4. SettleInv'
  BY SettleInvKept
<1> QED
  BY <1>1, <1>2, <1>3, <1>4 DEF IInv, SettleInv

\* The initial states satisfy it.
LEMMA InitInv == Init => IInv
<1> SUFFICES ASSUME Init PROVE IInv
  OBVIOUS
<1>1. TypeOK
  BY InitTyping
<1>2. TopicsRespected /\ IntentFollowsPhase
  BY DEF Init, Stream!StreamInit, Server!ServerInit, TopicsRespected, IntentFollowsPhase
<1>3. SettleInv
  BY DEF Init, Server!ServerInit, Session!SessionInit, SettleInv, NothingJoinedYet,
         AwaitsInPlace, ChunksOfJoined, TreeBehindStep, ConnectorsValidated, JoinsOnce,
         CosignsJoinedBatch, ForfeitsToJoinedBatch, Cosigning, LoopAwaits, Awaits
<1> QED
  BY <1>1, <1>2, <1>3 DEF IInv, SettleInv

\* So do all reachable ones.
LEMMA Invariant == Spec => []IInv
BY InitInv, Inductive, PTL DEF Spec

\* One settlement confirms its registration in at most one batch.
THEOREM JoinsAtMostOneBatch == Spec => []JoinsOnce
<1>1. IInv => JoinsOnce
  BY DEF IInv
<1> QED
  BY Invariant, <1>1, PTL

\* Nonces and partial signatures are only given to the batch this wallet
\* joined, for transactions of that batch's tree.
THEOREM CosignsOnlyTheJoinedBatch == Spec => []CosignsJoinedBatch
<1>1. IInv => CosignsJoinedBatch
  BY DEF IInv
<1> QED
  BY Invariant, <1>1, PTL

\* Vtxos are only forfeited to the batch this wallet joined and cosigned.
THEOREM ForfeitsOnlyToTheJoinedBatch == Spec => []ForfeitsToJoinedBatch
<1>1. IInv => ForfeitsToJoinedBatch
  BY DEF IInv
<1> QED
  BY Invariant, <1>1, PTL

-----------------------------------------------------------------------------
(* Logs of events. *)

\* A sequence is its first element and the rest, and what is put before it is.
LEMMA Uncons ==
    ASSUME NEW S, NEW q \in Seq(S)
    PROVE  /\ q # <<>> => <<Head(q)>> \o Tail(q) = q
           /\ \A a \in S : Head(<<a>> \o q) = a /\ Tail(<<a>> \o q) = q /\ <<a>> \o q # <<>>
<1>1. ASSUME q # <<>> PROVE <<Head(q)>> \o Tail(q) = q
  <2>1. Head(q) \in S /\ Tail(q) \in Seq(S) /\ <<Head(q)>> \in Seq(S)
    BY <1>1
  <2>2. Len(<<Head(q)>> \o Tail(q)) = Len(q)
    BY <1>1, <2>1
  <2>3. ASSUME NEW i \in 1 .. Len(q) PROVE (<<Head(q)>> \o Tail(q))[i] = q[i]
    BY <1>1, <2>1
  <2> QED
    BY <2>1, <2>2, <2>3, ConcatProperties
<1>2. ASSUME NEW a \in S
      PROVE  Head(<<a>> \o q) = a /\ Tail(<<a>> \o q) = q /\ <<a>> \o q # <<>>
  <2>1. <<a>> \in Seq(S) /\ Len(<<a>>) = 1
    OBVIOUS
  <2>2. /\ <<a>> \o q \in Seq(S) /\ Len(<<a>> \o q) = 1 + Len(q)
        /\ \A i \in 1 .. 1 + Len(q) : (<<a>> \o q)[i] = IF i = 1 THEN a ELSE q[i - 1]
    BY <2>1, ConcatProperties
  <2>3. <<a>> \o q # <<>>
    BY <2>2
  <2>4. Head(<<a>> \o q) = a
    BY <2>2, <2>3
  <2>5. /\ Tail(<<a>> \o q) \in Seq(S) /\ Len(Tail(<<a>> \o q)) = Len(q)
        /\ \A i \in 1 .. Len(q) : Tail(<<a>> \o q)[i] = q[i]
    BY <2>2, <2>3, HeadTailProperties
  <2> QED
    BY <2>3, <2>4, <2>5
<1> QED
  BY <1>1, <1>2

\* What remains true when the oldest event is taken.
LEMMA TakeFirst ==
    ASSUME NEW log \in Seq(Event), log # <<>>, NEW A, NEW B
    PROVE  /\ Head(log) \in A => Has(log, A)
           /\ Has(Tail(log), A) => Has(log, A)
           /\ Has(log, A) /\ Head(log) \notin A => Has(Tail(log), A)
           /\ Heralded(log, A, B) => Head(log) \notin A
           /\ Heralded(log, A, B) /\ Head(log) \notin B => Heralded(Tail(log), A, B)
           /\ Closed(log, A, B) => Closed(Tail(log), A, B)
           /\ Closed(log, A, B) /\ Head(log) \in A => ~Has(Tail(log), B)
<1>1. /\ Len(log) \in Nat \ {0} /\ Head(log) = log[1] /\ Len(Tail(log)) = Len(log) - 1
      /\ \A i \in 1 .. (Len(log) - 1) : Tail(log)[i] = log[i + 1]
  BY HeadTailProperties
<1>2. Head(log) \in A => Has(log, A)
  BY <1>1 DEF Has
<1>3. Has(Tail(log), A) => Has(log, A)
  BY <1>1 DEF Has
<1>4. ASSUME Has(log, A), Head(log) \notin A PROVE Has(Tail(log), A)
  <2>1. PICK i \in 1 .. Len(log) : log[i] \in A
    BY <1>4 DEF Has
  <2>2. i - 1 \in 1 .. (Len(log) - 1) /\ Tail(log)[i - 1] \in A
    BY <1>1, <1>4, <2>1
  <2> QED
    BY <1>1, <2>2 DEF Has
<1>5. Heralded(log, A, B) => Head(log) \notin A
  BY <1>1 DEF Heralded
<1>6. ASSUME Heralded(log, A, B), Head(log) \notin B PROVE Heralded(Tail(log), A, B)
  <2>1. SUFFICES ASSUME NEW i \in 1 .. (Len(log) - 1), Tail(log)[i] \in A
                 PROVE  \E j \in 1 .. (i - 1) : Tail(log)[j] \in B
    BY <1>1 DEF Heralded
  <2>2. i + 1 \in 1 .. Len(log) /\ log[i + 1] \in A
    BY <1>1, <2>1
  <2>3. PICK j \in 1 .. ((i + 1) - 1) : log[j] \in B
    BY <1>6, <2>2 DEF Heralded
  <2>4. j - 1 \in 1 .. (i - 1) /\ Tail(log)[j - 1] \in B
    BY <1>1, <1>6, <2>3
  <2> QED
    BY <2>4
<1>7. Closed(log, A, B) => Closed(Tail(log), A, B)
  BY <1>1 DEF Closed
<1>8. Closed(log, A, B) /\ Head(log) \in A => ~Has(Tail(log), B)
  BY <1>1 DEF Closed, Has
<1> QED
  BY <1>2, <1>3, <1>4, <1>5, <1>6, <1>7, <1>8

\* What remains true when events are added.
LEMMA AddLast ==
    ASSUME NEW log \in Seq(Event), NEW new \in Seq(Event), NEW A, NEW B
    PROVE  /\ Has(log \o new, A) <=> Has(log, A) \/ Has(new, A)
           /\ Heralded(log, A, B) /\ Has(log, B) => Heralded(log \o new, A, B)
           /\ Heralded(log, A, B) /\ Heralded(new, A, B) => Heralded(log \o new, A, B)
           /\ Closed(log, A, B) /\ Closed(new, A, B) /\ (~Has(log, A) \/ ~Has(new, B))
                => Closed(log \o new, A, B)
<1> DEFINE all == log \o new
<1>1. /\ Len(log) \in Nat /\ Len(new) \in Nat /\ Len(all) = Len(log) + Len(new)
      /\ \A i \in 1 .. Len(log) : i \in 1 .. Len(all) /\ all[i] = log[i]
      /\ \A i \in 1 .. Len(new) :
            Len(log) + i \in 1 .. Len(all) /\ all[Len(log) + i] = new[i]
      /\ \A i \in 1 .. Len(all) :
            \/ i \in 1 .. Len(log)
            \/ i > Len(log) /\ i - Len(log) \in 1 .. Len(new) /\ all[i] = new[i - Len(log)]
  <2>1. /\ Len(all) = Len(log) + Len(new)
        /\ \A i \in 1 .. Len(log) + Len(new) :
              all[i] = IF i <= Len(log) THEN log[i] ELSE new[i - Len(log)]
    BY ConcatProperties
  <2>2. Len(log) \in Nat /\ Len(new) \in Nat
    OBVIOUS
  <2> HIDE DEF all
  <2>3. \A i \in 1 .. Len(log) : i \in 1 .. Len(all) /\ all[i] = log[i]
    BY <2>1, <2>2
  <2>4. ASSUME NEW i \in 1 .. Len(new)
        PROVE  Len(log) + i \in 1 .. Len(all) /\ all[Len(log) + i] = new[i]
    <3>1. Len(log) + i \in 1 .. Len(log) + Len(new) /\ ~(Len(log) + i <= Len(log))
             /\ (Len(log) + i) - Len(log) = i
      BY <2>2
    <3> QED
      BY <2>1, <3>1
  <2>5. ASSUME NEW i \in 1 .. Len(all), i \notin 1 .. Len(log)
        PROVE  i > Len(log) /\ i - Len(log) \in 1 .. Len(new) /\ all[i] = new[i - Len(log)]
    BY <2>1, <2>2, <2>5
  <2> QED
    BY <2>1, <2>2, <2>3, <2>4, <2>5
<1> HIDE DEF all
<1>2. Has(all, A) <=> Has(log, A) \/ Has(new, A)
  <2>1. ASSUME Has(all, A) PROVE Has(log, A) \/ Has(new, A)
    BY <1>1, <2>1 DEF Has
  <2>2. ASSUME Has(log, A) PROVE Has(all, A)
    BY <1>1, <2>2 DEF Has
  <2>3. ASSUME Has(new, A) PROVE Has(all, A)
    BY <1>1, <2>3 DEF Has
  <2> QED
    BY <2>1, <2>2, <2>3
<1>3. ASSUME Heralded(log, A, B), Has(log, B) \/ Heralded(new, A, B) PROVE Heralded(all, A, B)
  <2>1. SUFFICES ASSUME NEW i \in 1 .. Len(all), all[i] \in A
                 PROVE  \E j \in 1 .. (i - 1) : all[j] \in B
    BY DEF Heralded
  <2>2. CASE i \in 1 .. Len(log)
    <3>1. PICK j \in 1 .. (i - 1) : log[j] \in B
      BY <1>1, <1>3, <2>1, <2>2 DEF Heralded
    <3> QED
      BY <1>1, <2>2, <3>1
  <2>3. CASE i > Len(log) /\ Has(log, B)
    <3>1. PICK j \in 1 .. Len(log) : log[j] \in B
      BY <2>3 DEF Has
    <3> QED
      BY <1>1, <2>3, <3>1
  <2>4. CASE i > Len(log) /\ Heralded(new, A, B)
    <3>1. i - Len(log) \in 1 .. Len(new) /\ new[i - Len(log)] \in A
      BY <1>1, <2>1, <2>4
    <3>2. PICK j \in 1 .. (i - Len(log) - 1) : new[j] \in B
      BY <2>4, <3>1 DEF Heralded
    <3>3. j \in 1 .. Len(new) /\ Len(log) + j \in 1 .. (i - 1)
      BY <1>1, <3>1, <3>2
    <3> QED
      BY <1>1, <3>2, <3>3
  <2> QED
    BY <1>1, <1>3, <2>2, <2>3, <2>4
<1>4. ASSUME Closed(log, A, B), Closed(new, A, B), ~Has(log, A) \/ ~Has(new, B)
      PROVE  Closed(all, A, B)
  <2>1. SUFFICES ASSUME NEW i \in 1 .. Len(all), NEW j \in 1 .. Len(all),
                        all[i] \in A, i < j
                 PROVE  all[j] \notin B
    BY DEF Closed
  <2>2. CASE j \in 1 .. Len(log)
    <3>1. i \in 1 .. Len(log) /\ log[i] \in A /\ all[j] = log[j]
      BY <1>1, <2>1, <2>2
    <3> QED
      BY <1>4, <2>1, <2>2, <3>1 DEF Closed
  <2>3. CASE j > Len(log) /\ i \in 1 .. Len(log)
    <3>1. all[i] = log[i] /\ log[i] \in A
      BY <1>1, <2>1, <2>3
    <3>2. j - Len(log) \in 1 .. Len(new) /\ all[j] = new[j - Len(log)]
      <4>1. j \notin 1 .. Len(log)
        BY <1>1, <2>3
      <4> QED
        BY <1>1, <4>1
    <3>3. Has(log, A)
      BY <2>3, <3>1 DEF Has
    <3> QED
      BY <1>4, <3>2, <3>3 DEF Has
  <2>4. CASE i > Len(log)
    <3>1. /\ i - Len(log) \in 1 .. Len(new) /\ new[i - Len(log)] \in A
          /\ j - Len(log) \in 1 .. Len(new) /\ all[j] = new[j - Len(log)]
          /\ i - Len(log) < j - Len(log)
      BY <1>1, <2>1, <2>4
    <3> QED
      BY <1>4, <3>1 DEF Closed
  <2> QED
    BY <1>1, <2>2, <2>3, <2>4
<1> QED
  BY <1>2, <1>3, <1>4 DEF all

\* The log is a sequence of events, and the loop holds its head.
LEMMA LogTypes ==
    ASSUME TypeOK
    PROVE  /\ InHand \in Seq(Event) /\ messageQueue \in Seq(Event) /\ outbox \in Seq(Event)
           /\ InHand \o messageQueue \in Seq(Event) /\ Log \in Seq(Event)
           /\ reader = "handling" => Log # <<>> /\ Head(Log) = current
<1>1. InHand \in Seq(Event) /\ messageQueue \in Seq(Event) /\ outbox \in Seq(Event)
  BY DEF TypeOK, Stream!StreamTypeOK, Server!ServerTypeOK, InHand, Event
<1>2. InHand \o messageQueue \in Seq(Event) /\ Log \in Seq(Event)
  BY <1>1, ConcatProperties DEF Log
<1>3. ASSUME reader = "handling" PROVE Log # <<>> /\ Head(Log) = current
  <2>1. current \in Event /\ InHand = <<current>>
    BY <1>3 DEF TypeOK, Stream!StreamTypeOK, InHand, Event
  <2>2. Log = <<current>> \o (messageQueue \o outbox)
    BY <1>1, <2>1, ConcatAssociative DEF Log
  <2> QED
    BY <1>1, <2>1, <2>2, Uncons, ConcatProperties
<1> QED
  BY <1>1, <1>2, <1>3

\* Joining logs.
LEMMA Joining ==
    \A s, t, u \in Seq(Event) :
        s \o t \in Seq(Event) /\ (s \o t) \o u = s \o (t \o u)
BY ConcatProperties, ConcatAssociative

\* Next() moves an event from the queue to the loop's hands, an emitted one from
\* the outbox to the queue, and opening the stream moves nothing.
LEMMA LogKept ==
    ASSUME TypeOK, NeverBreaks,
           \/ UNCHANGED outbox /\ (UNCHANGED streamVars \/ Stream!Open \/ Stream!Deliver)
           \/ Server!Emit /\ Stream!Message(Head(outbox))
    PROVE  Log' = Log
<1> DEFINE E == Event
<1>0. messageQueue \in Seq(E) /\ outbox \in Seq(E) /\ InHand \in Seq(E)
  BY LogTypes
<1>1. CASE UNCHANGED outbox /\ UNCHANGED streamVars
  BY <1>1 DEF Log, InHand, streamVars
<1>2. CASE UNCHANGED outbox /\ Stream!Open
  BY <1>2 DEF Log, InHand, Stream!Open
<1>3. CASE UNCHANGED outbox /\ Stream!Deliver
  <2>1. /\ messageQueue # <<>> /\ InHand = <<>> /\ messageQueue' = Tail(messageQueue)
        /\ InHand' = <<Head(messageQueue)>>
    BY <1>3 DEF NeverBreaks, Stream!Deliver, InHand
  <2>2. InHand' \o messageQueue' = messageQueue /\ InHand \o messageQueue = messageQueue
    BY <1>0, <2>1, Uncons, ConcatEmptySeq
  <2> QED
    BY <1>3, <2>2 DEF Log
<1>4. CASE Server!Emit /\ Stream!Message(Head(outbox))
  <2> DEFINE h == Head(outbox)
  <2>1. /\ outbox # <<>> /\ outbox' = Tail(outbox) /\ InHand' = InHand
        /\ messageQueue' = Append(messageQueue, h)
    BY <1>4 DEF Server!Emit, Stream!Message, InHand
  <2>2. h \in E /\ <<h>> \in Seq(E) /\ Tail(outbox) \in Seq(E) /\ <<h>> \o Tail(outbox) = outbox
    BY <1>0, <2>1, Uncons, HeadTailProperties
  <2>3. messageQueue' = messageQueue \o <<h>>
    BY <1>0, <2>1, <2>2, AppendIsConcat
  <2> HIDE DEF h
  <2>4. InHand \o messageQueue \in Seq(E) /\ InHand \o messageQueue' = (InHand \o messageQueue) \o <<h>>
    BY <1>0, <2>2, <2>3, Joining
  <2>5. ((InHand \o messageQueue) \o <<h>>) \o Tail(outbox)
            = (InHand \o messageQueue) \o (<<h>> \o Tail(outbox))
    BY <2>2, <2>4, Joining
  <2> QED
    BY <2>1, <2>2, <2>4, <2>5 DEF Log
<1> QED
  BY <1>1, <1>2, <1>3, <1>4

\* The loop is done with the first event; before the stream is opened, what is
\* emitted is lost.
LEMMA LogShrinks ==
    ASSUME TypeOK, NeverBreaks,
           \/ UNCHANGED outbox /\ Stream!Resume
           \/ Server!Emit /\ UNCHANGED streamVars /\ reader = "none"
    PROVE  Log # <<>> /\ Log' = Tail(Log)
<1>0. messageQueue \in Seq(Event) /\ outbox \in Seq(Event)
  BY LogTypes
<1>1. CASE UNCHANGED outbox /\ Stream!Resume
  <2>1. /\ current \in Event /\ InHand = <<current>> /\ InHand' = <<>>
        /\ messageQueue' = messageQueue
    BY <1>1 DEF TypeOK, Stream!StreamTypeOK, Stream!Resume, InHand, Event
  <2>2. messageQueue \o outbox \in Seq(Event) /\ InHand' \o messageQueue' = messageQueue
    BY <1>0, <2>1, ConcatProperties, ConcatEmptySeq
  <2>3. Log = <<current>> \o (messageQueue \o outbox) /\ Log' = messageQueue \o outbox
    BY <1>0, <1>1, <2>1, <2>2, ConcatAssociative DEF Log
  <2> QED
    BY <2>1, <2>2, <2>3, Uncons
<1>2. CASE Server!Emit /\ UNCHANGED streamVars /\ reader = "none"
  <2>1. InHand = <<>> /\ messageQueue = <<>> /\ InHand' = <<>> /\ messageQueue' = <<>>
    BY <1>2 DEF NeverBreaks, InHand, streamVars
  <2>2. <<>> \o <<>> = <<>> /\ <<>> \o outbox = outbox /\ <<>> \o outbox' = outbox'
    <3>1. outbox' \in Seq(Event)
      BY <1>0, <1>2 DEF Server!Emit
    <3> QED
      BY <1>0, <3>1, ConcatEmptySeq
  <2>3. Log = outbox /\ Log' = outbox'
    BY <2>1, <2>2 DEF Log
  <2> QED
    BY <1>2, <2>3 DEF Server!Emit
<1> QED
  BY <1>1, <1>2

\* The server adds to the end of the log.
LEMMA LogGrows ==
    ASSUME TypeOK, UNCHANGED streamVars, NEW new \in Seq(Event), outbox' = outbox \o new
    PROVE  Log' = Log \o new
<1>1. InHand' = InHand /\ messageQueue' = messageQueue
  BY DEF InHand, streamVars
<1>2. ((InHand \o messageQueue) \o outbox) \o new = (InHand \o messageQueue) \o (outbox \o new)
  <2>1. InHand \o messageQueue \in Seq(Event) /\ outbox \in Seq(Event)
    BY LogTypes
  <2> QED
    BY <2>1, Joining
<1> QED
  BY <1>1, <1>2 DEF Log

\* Where settle stands, whatever step is taken.
LEMMA PlaceKept ==
    ASSUME Reliable, TypeOK, AwaitsInPlace, NeverBreaks, ReaderInPlace, HandInPlace,
           [Next]_vars
    PROVE  NeverBreaks' /\ ReaderInPlace' /\ HandInPlace'
<1> USE DEF NeverBreaks, ReaderInPlace, HandInPlace, AwaitsInPlace, Looping, LoopAwaits, Awaits
<1> USE DEF sessionVars, paramVars, treeVars, submittedVars, envVars, serverVars,
            streamVars, clientVars
<1>0. ~(errors < MaxErrors)
  BY DEF Reliable
<1>1. CASE Settle
  BY <1>1 DEF Settle, Send
<1>2. CASE Registered
  BY <1>2 DEF Registered, Answered, Listen, Stream!Open
<1>3. CASE RegistrationThrows
  BY <1>3 DEF RegistrationThrows, Threw
<1>4. CASE NextEvent
  BY <1>4 DEF NextEvent, Stream!Deliver
<1>5. CASE IgnoreEvent
  BY <1>5 DEF IgnoreEvent, Continue, Listen, Stream!Resume
<1>6. CASE OnBatchFailed
  BY <1>6 DEF OnBatchFailed, Abort, Send, Stream!Leave
<1>7. CASE OnBatchStarted
  BY <1>7 DEF OnBatchStarted, On, Handling, Expected, Send
<1>8. CASE Confirmed
  BY <1>8 DEF Confirmed, Answered, Continue, Listen, Stream!Resume
<1>9. CASE OnTreeTx
  BY <1>9 DEF OnTreeTx, Continue, Listen, Stream!Resume
<1>10. CASE OnTreeSigningStarted
  BY <1>10 DEF OnTreeSigningStarted, On, Handling, Send
<1>11. CASE NoncesSubmitted
  BY <1>11 DEF NoncesSubmitted, Answered, Continue, Listen, Stream!Resume
<1>12. CASE OnTreeNoncesAggregated
  BY <1>12 DEF OnTreeNoncesAggregated, On, Handling, Send
<1>13. CASE SignaturesSubmitted
  BY <1>13 DEF SignaturesSubmitted, Answered, Continue, Listen, Stream!Resume
<1>14. CASE OnTreeSignature
  BY <1>14 DEF OnTreeSignature, Continue, Listen, Stream!Resume
<1>15. CASE OnBatchFinalization
  BY <1>15 DEF OnBatchFinalization, On, Handling, Send
<1>16. CASE CoinsRead
  BY <1>16 DEF CoinsRead, Answered, Send
<1>17. CASE NothingToSubmit
  BY <1>17 DEF NothingToSubmit, Answered, Continue, Listen, Stream!Resume
<1>18. CASE ForfeitsSubmitted
  BY <1>18 DEF ForfeitsSubmitted, Answered, Continue, Listen, Stream!Resume
<1>19. CASE OnBatchFinalized
  BY <1>19 DEF OnBatchFinalized, Stream!Leave
<1>20. CASE LoopThrows
  BY <1>20 DEF LoopThrows, Abort, Send, Stream!Leave
<1>21. CASE StreamThrows
  BY <1>21 DEF StreamThrows, Stream!ThrowQueued
<1>22. CASE IntentDeleted
  BY <1>22 DEF IntentDeleted
<1>23. CASE Accept
  BY <1>23 DEF Accept, Server!RegisterIntent, Server!ConfirmRegistration, Server!Submit,
       Server!SubmitTreeNonces, Server!SubmitTreeSignatures, Server!SubmitForfeits,
       Server!DeleteIntent
<1>24. CASE Refuse
  BY <1>24 DEF Refuse
<1>25. CASE RunBatch
  <2>1. UNCHANGED joined
    BY <1>25 DEF RunBatch, Server!BatchStep, Server!StartBatch,
                 Server!CloseConfirmation, Server!AggregateNonces,
                 Server!StartFinalization, Server!EndBatch, Server!FailBatch
  <2> QED
    BY <1>25, <2>1 DEF RunBatch
<1>26. CASE EmitEvent
  BY <1>26 DEF EmitEvent, Server!Emit, Stream!Message
<1>27. CASE ErrorWhileReading \/ ErrorWhileBusy \/ Unroll
  BY <1>0, <1>27 DEF ErrorWhileReading, ErrorWhileBusy, Unroll
<1>28. CASE Reconnect
  BY <1>28 DEF Reconnect, Stream!Reconnect
<1>29. CASE UNCHANGED vars
  BY <1>29 DEF vars
<1> QED
  BY <1>1, <1>2, <1>3, <1>4, <1>5, <1>6, <1>7, <1>8, <1>9, <1>10, <1>11, <1>12, <1>13,
     <1>14, <1>15, <1>16, <1>17, <1>18, <1>19, <1>20, <1>21, <1>22, <1>23, <1>24, <1>25,
     <1>26, <1>27, <1>28, <1>29
  DEF Next, ClientStep

\* Steps that concern neither the order nor the server.
Aside == UNCHANGED <<batch, phase, intent, order, joined, received, inputs, hasOffchainOutputs>>
            /\ (pc' = "idle" => pc = "idle")

\* They are all but three.
LEMMA Asides ==
    ASSUME [Next]_vars, ~Settle, ~Accept, ~RunBatch
    PROVE  Aside
<1> USE DEF Aside, serverVars, paramVars, clientVars, Send, Listen, Continue, Abort
<1>1. CASE \/ Registered \/ RegistrationThrows \/ NextEvent \/ IgnoreEvent
           \/ OnBatchFailed \/ OnBatchStarted \/ Confirmed \/ OnTreeTx
  BY <1>1 DEF Registered, RegistrationThrows, NextEvent, IgnoreEvent, OnBatchFailed,
       OnBatchStarted, Confirmed, OnTreeTx
<1>2. CASE \/ OnTreeSigningStarted \/ NoncesSubmitted \/ OnTreeNoncesAggregated
           \/ SignaturesSubmitted \/ OnTreeSignature \/ OnBatchFinalization
  BY <1>2 DEF OnTreeSigningStarted, NoncesSubmitted, OnTreeNoncesAggregated,
       SignaturesSubmitted, OnTreeSignature, OnBatchFinalization
<1>3. CASE \/ CoinsRead \/ NothingToSubmit \/ ForfeitsSubmitted \/ OnBatchFinalized
           \/ LoopThrows \/ StreamThrows \/ IntentDeleted
  BY <1>3 DEF CoinsRead, NothingToSubmit, ForfeitsSubmitted, OnBatchFinalized, LoopThrows,
       StreamThrows, IntentDeleted
<1>4. CASE \/ Refuse \/ EmitEvent \/ ErrorWhileReading \/ ErrorWhileBusy
           \/ Reconnect \/ Unroll
  BY <1>4 DEF Refuse, EmitEvent, Server!Emit, ErrorWhileReading, ErrorWhileBusy,
       Reconnect, Unroll
<1>5. CASE UNCHANGED vars
  BY <1>5 DEF vars
<1> QED
  BY <1>1, <1>2, <1>3, <1>4, <1>5 DEF Next, ClientStep

\* The server knows the order, and one batch of the intent.
LEMMA OrderKept ==
    ASSUME Reliable, TypeOK, IntentFollowsPhase, AwaitsInPlace, OrderInPlace, [Next]_vars
    PROVE  OrderInPlace'
<1> USE DEF OrderInPlace, IntentFollowsPhase
<1>0. batch \in Nat /\ \A b \in joined : b \in Nat
  BY SettlementAssumption DEF TypeOK, Server!ServerTypeOK, Server!Batch
<1>1. CASE ~Settle /\ ~Accept /\ ~RunBatch
  BY <1>1, Asides DEF Aside, OrderOf
<1>2. CASE Settle
  BY <1>2 DEF Settle, Send, serverVars
<1>3. CASE Accept
  <2>1. UNCHANGED <<inputs, hasOffchainOutputs, pc>> /\ OrderOf' = OrderOf
    BY <1>3 DEF Accept, paramVars, OrderOf
  <2>2. CASE pc = "registering" /\ Server!RegisterIntent(OrderOf)
    BY <2>1, <2>2 DEF Server!RegisterIntent
  <2>3. CASE pc = "confirming" /\ Server!ConfirmRegistration
    BY <1>0, <2>1, <2>3 DEF Server!ConfirmRegistration
  <2>4. CASE /\ pc \in {"submittingNonces", "submittingSignatures", "submittingForfeits"}
             /\ phase # "confirming"
             /\ UNCHANGED <<batch, phase, intent, order, joined>>
    BY <2>1, <2>4
  <2>5. CASE pc = "readingCoins" /\ UNCHANGED serverVars
    BY <2>1, <2>5 DEF serverVars
  <2>6. CASE pc = "deletingIntent" /\ Server!DeleteIntent
    BY <2>1, <2>6 DEF Server!DeleteIntent
  <2> QED
    BY <1>3, <2>2, <2>3, <2>4, <2>5, <2>6
    DEF Accept, Server!Submit, Server!SubmitTreeNonces, Server!SubmitTreeSignatures,
        Server!SubmitForfeits
<1>4. CASE RunBatch
  <2>1. UNCHANGED <<inputs, hasOffchainOutputs, pc>> /\ OrderOf' = OrderOf
    BY <1>4 DEF RunBatch, clientVars, paramVars, OrderOf
  <2>2. UNCHANGED <<order, joined>>
    BY <1>4 DEF RunBatch, Server!BatchStep, Server!StartBatch, Server!CloseConfirmation,
         Server!AggregateNonces, Server!StartFinalization, Server!EndBatch, Server!FailBatch
  <2>3. CASE Server!StartBatch
    BY <1>0, <2>1, <2>2, <2>3 DEF Server!StartBatch
  <2>4. CASE Server!CloseConfirmation
    BY <1>0, <2>1, <2>2, <2>4 DEF Server!CloseConfirmation, Server!LeftBehind, Reliable
  <2>5. CASE Server!AggregateNonces \/ Server!StartFinalization
    BY <1>0, <2>1, <2>2, <2>5 DEF Server!AggregateNonces, Server!StartFinalization
  <2>6. CASE Server!EndBatch
    BY <1>0, <2>1, <2>2, <2>6 DEF Server!EndBatch
  <2>7. CASE Server!FailBatch
    BY <1>0, <2>1, <2>2, <2>7 DEF Server!FailBatch, Server!LeftBehind, Reliable
  <2> QED
    BY <1>4, <2>3, <2>4, <2>5, <2>6, <2>7 DEF RunBatch, Server!BatchStep
<1> QED
  BY <1>1, <1>2, <1>3, <1>4

-----------------------------------------------------------------------------
(* The invariants about the log, one kind of step at a time. *)

LogInv ==
    /\ LogInPlace /\ RoundInPlace /\ OwnBatchFirst /\ StepInPlace /\ FinalizedOnce
    /\ AnnouncedBefore /\ SettledAtTheEnd

\* The steps at which the loop is done with an event, and at which an event is
\* lost because the stream is not open yet.
Consumes ==
    \/ IgnoreEvent \/ Confirmed \/ OnTreeTx \/ NoncesSubmitted \/ SignaturesSubmitted
    \/ OnTreeSignature \/ NothingToSubmit \/ ForfeitsSubmitted
Drops == EmitEvent /\ reader = "none"

\* The others leave the log and what is known of it.
Quiet ==
    /\ Log' = Log
    /\ UNCHANGED <<batch, phase, intent, order, joined, received, step, roundId,
                   treeSigs, connectorsChunks>>
    /\ Attached
    /\ Looping' => (Looping \/ joined = {}) /\ UNCHANGED hasOffchainOutputs
    /\ Looping' /\ Ready => Ready'
    /\ pc' = "confirming" /\ request' = "done" => Answered("confirming") /\ UNCHANGED current

\* Every other step after which the loop may still run is one of them.
LEMMA QuietStep ==
    ASSUME Reliable, TypeOK, AwaitsInPlace, NeverBreaks, ReaderInPlace, HandInPlace,
           [Next]_vars, ~Accept, ~RunBatch, ~Consumes, ~Drops, Attached'
    PROVE  Quiet
<1> USE DEF Consumes, Drops, Attached, Looping, sessionVars, paramVars, treeVars,
            submittedVars, envVars, serverVars, streamVars, clientVars
<1>0. ~(errors < MaxErrors)
  BY DEF Reliable, NeverBreaks
<1>1. CASE Settle
  <2>1. ~Looping /\ ~Looping'
    BY <1>1 DEF Settle, ReaderInPlace, LoopAwaits, Awaits
  <2>2. Log' = Log
    BY <1>1, LogKept DEF Settle
  <2> QED
    BY <1>1, <2>1, <2>2 DEF Settle, Send, Quiet
<1>2. CASE Registered
  <2>1. Log' = Log
    BY <1>2, LogKept DEF Registered
  <2>2. joined = {} /\ reader = "none"
    BY <1>2 DEF Registered, Stream!Open, ReaderInPlace
  <2> QED
    BY <1>2, <2>1, <2>2 DEF Registered, Answered, Listen, Quiet, Ready
<1>3. CASE RegistrationThrows
  <2>1. Log' = Log
    BY <1>3, LogKept DEF RegistrationThrows
  <2>2. ~Looping
    BY <1>3 DEF RegistrationThrows, Threw, ReaderInPlace, LoopAwaits, Awaits
  <2> QED
    BY <1>3, <2>1, <2>2 DEF RegistrationThrows, Quiet
<1>4. CASE NextEvent
  <2>1. Log' = Log
    BY <1>4, LogKept DEF NextEvent
  <2> QED
    BY <1>4, <2>1 DEF NextEvent, Stream!Deliver, Quiet, Ready, Answered
<1>5. CASE \/ OnBatchStarted \/ OnTreeSigningStarted \/ OnTreeNoncesAggregated
           \/ OnBatchFinalization
  <2>1. Log' = Log
    BY <1>5, LogKept DEF OnBatchStarted, OnTreeSigningStarted, OnTreeNoncesAggregated,
       OnBatchFinalization
  <2> QED
    BY <1>5, <2>1 DEF OnBatchStarted, OnTreeSigningStarted, OnTreeNoncesAggregated,
       OnBatchFinalization, On, Handling, Send, Quiet, Ready, Answered
<1>6. CASE CoinsRead
  <2>1. Log' = Log
    BY <1>6, LogKept DEF CoinsRead
  <2> QED
    BY <1>6, <2>1 DEF CoinsRead, Send, Quiet, Ready, Answered
<1>7. CASE Refuse \/ Unroll \/ UNCHANGED vars
  <2>1. Log' = Log
    BY <1>7, LogKept DEF Refuse, Unroll, vars
  <2> QED
    BY <1>7, <2>1 DEF Refuse, Unroll, vars, Quiet, Ready, Answered
<1>8. CASE EmitEvent
  <2>1. Looping
    BY <1>8 DEF EmitEvent, Stream!Message, NeverBreaks
  <2>2. Server!Emit /\ Stream!Message(Head(outbox))
    BY <1>8, <2>1 DEF EmitEvent, NeverBreaks
  <2>3. Log' = Log
    BY <2>2, LogKept
  <2> QED
    BY <1>8, <2>1, <2>2, <2>3 DEF EmitEvent, Server!Emit, Stream!Message, Quiet, Ready, Answered
<1>9. CASE OnBatchFailed \/ OnBatchFinalized \/ LoopThrows
  BY <1>9 DEF OnBatchFailed, OnBatchFinalized, LoopThrows, Abort, Stream!Leave
<1>10. CASE StreamThrows \/ IntentDeleted
  BY <1>10 DEF StreamThrows, Stream!ThrowQueued, IntentDeleted, NeverBreaks, ReaderInPlace,
       LoopAwaits
<1>11. CASE Reconnect
  BY <1>11 DEF Reconnect, Stream!Reconnect, NeverBreaks
<1>12. CASE ErrorWhileReading \/ ErrorWhileBusy
  BY <1>0, <1>12 DEF ErrorWhileReading, ErrorWhileBusy
<1> QED
  BY <1>1, <1>2, <1>3, <1>4, <1>5, <1>6, <1>7, <1>8, <1>9, <1>10, <1>11, <1>12
  DEF Next, ClientStep

\* Such a step keeps them.
LEMMA QuietKeeps ==
    ASSUME LogInv, ReaderInPlace, Quiet
    PROVE  LogInv'
<1> USE DEF Quiet
<1>1. LogInPlace'
  BY DEF LogInv, LogInPlace, Strangers
<1>2. RoundInPlace'
  BY DEF LogInv, RoundInPlace, ReaderInPlace, Answered, Attached, Looping
<1>3. OwnBatchFirst'
  BY DEF LogInv, OwnBatchFirst
<1>4. StepInPlace'
  <2>1. SUFFICES ASSUME Looping', NEW b \in joined
                 PROVE  /\ ~hasOffchainOutputs' => Ready'
                        /\ batch' = b /\ (phase' = "finalizing" \/ "signatures" \in received')
                              => Ready'
                        /\ Has(Log', Late(b)) => Ready'
                        /\ batch' = b /\ phase' \in {"confirming", "signing", "aggregated"} =>
                              step' # "BatchFinalization" /\ ~Has(Log', Late(b))
    BY DEF StepInPlace
  <2>2. Looping /\ (Ready => Ready') /\ UNCHANGED hasOffchainOutputs
    BY <2>1
  <2> QED
    BY <2>2 DEF LogInv, StepInPlace
<1>5. FinalizedOnce'
  BY DEF LogInv, FinalizedOnce
<1>6. AnnouncedBefore'
  <2>1. Arrived' = Arrived
    BY DEF Arrived
  <2> QED
    BY <2>1 DEF LogInv, AnnouncedBefore
<1>7. SettledAtTheEnd'
  BY DEF LogInv, SettledAtTheEnd
<1> QED
  BY <1>1, <1>2, <1>3, <1>4, <1>5, <1>6, <1>7 DEF LogInv

\* Without an event in A there is nothing to herald or to close.
LEMMA Nothing ==
    ASSUME NEW log, NEW A, NEW B, ~Has(log, A)
    PROVE  Heralded(log, A, B) /\ Closed(log, A, B)
BY DEF Has, Heralded, Closed

\* When the confirmation is accepted, the start of the batch is all there is.
LEMMA OnlyTheOffer ==
    ASSUME TypeOK, HandInPlace, LogInv, pc = "confirming", reader = "handling",
           phase = "confirming", intent = "selected"
    PROVE  /\ current.id = batch /\ current.type = "BatchStarted"
           /\ \A A : Has(Log, A) => current \in A
<1>1. Log \in Seq(Event) /\ Log # <<>> /\ Head(Log) = current /\ current \in Event
  BY LogTypes DEF TypeOK, Stream!StreamTypeOK, Event
<1>2. current \in Offers /\ current.type = "BatchStarted"
  BY <1>1 DEF HandInPlace, Offers
<1>3. LogInPlace /\ Attached
  BY DEF LogInv, Attached
<1>4. current \in Of(batch)
  <2>1. Head(Log) \in Offers \ Of(batch) => Has(Log, Offers \ Of(batch))
    BY <1>1, TakeFirst
  <2> QED
    BY <1>1, <1>2, <1>3, <2>1 DEF LogInPlace
<1>5. ~Has(Tail(Log), Event)
  <2>1. Closed(Log, Of(batch), Event)
    BY <1>3 DEF LogInPlace
  <2> QED
    BY <1>1, <1>4, <2>1, TakeFirst
<1>6. ASSUME NEW A, Has(Log, A) PROVE current \in A
  <2>1. Len(Tail(Log)) = 0
    <3> DEFINE rest == Tail(Log)
    <3>1. rest \in Seq(Event)
      BY <1>1, HeadTailProperties
    <3>2. ~Has(rest, Event)
      BY <1>5
    <3> HIDE DEF rest
    <3>3. Len(rest) = 0
      BY <3>1, <3>2 DEF Has
    <3> QED
      BY <3>3 DEF rest
  <2>2. Len(Log) = 1 /\ Head(Log) = Log[1]
    BY <1>1, <2>1
  <2> QED
    BY <1>1, <1>6, <2>2 DEF Has
<1> QED
  BY <1>2, <1>4, <1>6 DEF Of

\* A request that the server accepts.
LEMMA AcceptKeeps ==
    ASSUME Reliable, TypeOK, AwaitsInPlace, NothingJoinedYet, NeverBreaks, ReaderInPlace,
           HandInPlace, OrderInPlace, LogInv, Accept
    PROVE  LogInv'
<1> USE DEF Looping, Attached
<1>0. /\ Log' = Log /\ UNCHANGED <<pc, step, roundId, reader, current, hasOffchainOutputs>>
      /\ request = "sent" /\ request' = "done" /\ Arrived' = Arrived
  BY LogKept DEF Accept, streamVars, treeVars, paramVars, Arrived, Server!RegisterIntent,
     Server!ConfirmRegistration, Server!SubmitTreeNonces, Server!SubmitTreeSignatures,
     Server!SubmitForfeits, Server!Submit, Server!DeleteIntent, serverVars
<1>1. CASE pc = "registering" /\ Server!RegisterIntent(OrderOf)
  <2>1. ~Looping /\ ~Looping'
    BY <1>0, <1>1 DEF ReaderInPlace, LoopAwaits, Awaits
  <2>2. LogInPlace'
    BY <1>0, <1>1 DEF Server!RegisterIntent, LogInv, LogInPlace, Strangers
  <2> QED
    BY <2>1, <2>2 DEF LogInv, RoundInPlace, OwnBatchFirst, StepInPlace, FinalizedOnce,
                      AnnouncedBefore, SettledAtTheEnd
<1>2. CASE pc = "confirming" /\ Server!ConfirmRegistration
  <2>1. reader = "handling" /\ step = "none" /\ joined = {}
    BY <1>0, <1>2 DEF AwaitsInPlace, LoopAwaits, Awaits, NothingJoinedYet, Ended, Answered
  <2>2. /\ phase = "confirming" /\ intent = "selected" /\ intent' = "confirmed"
        /\ joined' = {batch} /\ UNCHANGED <<batch, phase, order, received>>
    BY <1>2, <2>1 DEF Server!ConfirmRegistration
  <2>3. /\ current.id = batch /\ current.type = "BatchStarted"
        /\ \A A : Has(Log, A) => current \in A
    BY <1>2, <2>1, <2>2, OnlyTheOffer
  <2>4. /\ ~Has(Log, Others(batch)) /\ ~Has(Log, Late(batch)) /\ ~Has(Log, Strangers')
        /\ ~Has(Log, Finalization(batch)) /\ ~Has(Log, Finalized(batch))
    BY <2>3 DEF Others, Late, Strangers, Finalization, Finalized, Of
  <2>5. Attached /\ LogInPlace
    BY <2>1 DEF LogInv
  <2>6. LogInPlace'
    BY <1>0, <2>2, <2>4, <2>5 DEF LogInPlace
  <2>7. RoundInPlace'
    BY <1>0, <2>1, <2>2, <2>3 DEF RoundInPlace
  <2>8. OwnBatchFirst'
    BY <1>0, <2>2, <2>4, Nothing DEF OwnBatchFirst
  <2>9. StepInPlace'
    <3>1. received = {}
      BY <2>2 DEF OrderInPlace
    <3>2. ~hasOffchainOutputs => Ready'
      BY <1>0, <1>2 DEF Ready, Answered
    <3> QED
      BY <1>0, <2>1, <2>2, <2>4, <3>1, <3>2 DEF StepInPlace
  <2>10. FinalizedOnce'
    BY <1>0, <2>1, <2>2, <2>4, Nothing DEF FinalizedOnce
  <2>11. AnnouncedBefore'
    BY <1>0, <2>2, <2>4, Nothing DEF AnnouncedBefore
  <2>12. SettledAtTheEnd'
    BY <1>0, <2>2, <2>4 DEF SettledAtTheEnd
  <2> QED
    BY <2>6, <2>7, <2>8, <2>9, <2>10, <2>11, <2>12 DEF LogInv
<1>3. CASE /\ pc \notin {"registering", "confirming", "deletingIntent"}
           /\ UNCHANGED <<batch, phase, intent, order, joined>>
           /\ received' \subseteq received \cup
                  (IF pc = "submittingSignatures" THEN {"signatures"} ELSE {"nonces", "forfeits"})
  <2>1. LogInPlace'
    BY <1>0, <1>3 DEF LogInv, LogInPlace, Strangers
  <2>2. RoundInPlace'
    BY <1>0, <1>3 DEF LogInv, RoundInPlace, Answered
  <2>3. OwnBatchFirst'
    BY <1>0, <1>3 DEF LogInv, OwnBatchFirst
  <2>4. StepInPlace'
    <3>1. Ready => Ready'
      BY <1>0 DEF Ready, Answered
    <3>2. "signatures" \in received' => "signatures" \in received \/ Ready'
      BY <1>0, <1>3 DEF Ready, Answered
    <3> QED
      BY <1>0, <1>3, <3>1, <3>2 DEF LogInv, StepInPlace
  <2>5. FinalizedOnce'
    BY <1>0, <1>3 DEF LogInv, FinalizedOnce
  <2>6. AnnouncedBefore'
    BY <1>0, <1>3 DEF LogInv, AnnouncedBefore
  <2>7. SettledAtTheEnd'
    BY <1>0, <1>3 DEF LogInv, SettledAtTheEnd
  <2> QED
    BY <2>1, <2>2, <2>3, <2>4, <2>5, <2>6, <2>7 DEF LogInv
<1>4. CASE pc = "deletingIntent"
  <2>1. ~Attached'
    BY <1>0, <1>4 DEF ReaderInPlace, LoopAwaits
  <2> QED
    BY <2>1 DEF LogInv, LogInPlace, RoundInPlace, OwnBatchFirst, StepInPlace, FinalizedOnce,
                AnnouncedBefore, SettledAtTheEnd
<1> QED
  BY <1>1, <1>2, <1>3, <1>4
  DEF Accept, Server!Submit, Server!SubmitTreeNonces, Server!SubmitTreeSignatures,
      Server!SubmitForfeits, serverVars

\* What the loop does with the event it is done with, when a batch is joined.
ConsumesOf(b) ==
    /\ current \in Of(b) /\ current \notin Ends(b)
    /\ current \in Finalization(b) => step' = "BatchFinalization"
    /\ step' = "BatchFinalization" => step = "BatchFinalization" \/ current \in Finalization(b)
    /\ step = "BatchFinalization" => step' = "BatchFinalization"
    /\ Ready => Ready'
    /\ current \in Heralds(b, order) => current \in Arrived'

\* The event in hand is of the batch that was joined, and settle does not ignore
\* what it waits for.
LEMMA ConsumeFacts ==
    ASSUME TypeOK, AwaitsInPlace, NothingJoinedYet, JoinsOnce, NeverBreaks,
           ReaderInPlace, HandInPlace, OrderInPlace, LogInv, Consumes
    PROVE  /\ Looping /\ Log # <<>> /\ Head(Log) = current /\ Log' = Tail(Log)
           /\ UNCHANGED <<batch, phase, intent, order, joined, received, hasOffchainOutputs>>
           /\ pc' = "listening" /\ Arrived \subseteq Arrived'
           /\ step' # "none" => roundId' \in joined
           /\ \A b \in joined : ConsumesOf(b)
<1> USE DEF Looping, Consumes, Continue, Listen, sessionVars, paramVars, treeVars,
            submittedVars, envVars, serverVars, streamVars
<1>1. Stream!Resume /\ UNCHANGED serverVars /\ reader = "handling" /\ pc' = "listening"
  BY DEF IgnoreEvent, Confirmed, OnTreeTx, NoncesSubmitted, SignaturesSubmitted,
         OnTreeSignature, NothingToSubmit, ForfeitsSubmitted, Stream!Resume
<1>2. Log # <<>> /\ Head(Log) = current /\ Log' = Tail(Log) /\ current \in Event
         /\ Log \in Seq(Event)
  BY <1>1, LogShrinks, LogTypes DEF TypeOK, Stream!StreamTypeOK, Event
<1>3. UNCHANGED hasOffchainOutputs /\ treeSigs \subseteq treeSigs'
         /\ connectorsChunks \subseteq connectorsChunks'
  BY DEF IgnoreEvent, Confirmed, OnTreeTx, NoncesSubmitted, SignaturesSubmitted,
         OnTreeSignature, NothingToSubmit, ForfeitsSubmitted
<1>4. Arrived \subseteq Arrived'
  BY <1>3 DEF Arrived
<1>5. step' # "none" => roundId' \in joined
  BY <1>1 DEF LogInv, RoundInPlace, IgnoreEvent, Confirmed, OnTreeTx, NoncesSubmitted,
     SignaturesSubmitted, OnTreeSignature, NothingToSubmit, ForfeitsSubmitted,
     AwaitsInPlace, Answered
<1>6. ASSUME NEW b \in joined PROVE ConsumesOf(b)
  <2>1. current \in Of(b)
    <3>1. Heralded(Log, Others(b), Ends(b))
      BY <1>1 DEF LogInv, OwnBatchFirst
    <3>2. current \notin Others(b)
      BY <1>2, <3>1, TakeFirst
    <3> QED
      BY <1>2, <3>2 DEF Others, Of
  <2>2. pc = "listening" => step # "none" /\ roundId = b
    BY <1>1 DEF LogInv, RoundInPlace, NothingJoinedYet, JoinsOnce, Ended, Answered
  <2>3. ASSUME step = "BatchFinalization" PROVE current \in Ends(b)
    <3>1. ~Has(Log, Of(b) \ Ends(b))
      BY <1>1, <2>3 DEF LogInv, FinalizedOnce
    <3> QED
      BY <1>2, <2>1, <3>1, TakeFirst
  <2>4. ASSUME current \in Late(b), pc = "listening"
        PROVE  step = "TreeNoncesAggregated" \/ current \in Ends(b)
    <3>1. Ready
      BY <1>1, <1>2, <2>4, TakeFirst DEF LogInv, StepInPlace
    <3> QED
      BY <2>3, <2>4, <3>1 DEF Ready, Answered
  <2>5. ASSUME current \in Finalized(b) PROVE step = "BatchFinalization"
    BY <1>1, <1>2, <2>5, TakeFirst DEF LogInv, FinalizedOnce
  <2>6. current \notin Ends(b)
    <3>1. SUFFICES ASSUME current \in Ends(b) PROVE FALSE
      OBVIOUS
    <3>2. current.id = b /\ current.type \in {"BatchFinalized", "BatchFailed"}
      BY <3>1 DEF Ends, Of
    <3>3. current.type = "BatchFinalized" => step = "BatchFinalization"
      BY <2>1, <2>5 DEF Finalized
    <3>4. pc = "listening"
      BY <3>2 DEF HandInPlace, IgnoreEvent, Confirmed, OnTreeTx, NoncesSubmitted,
         SignaturesSubmitted, OnTreeSignature, NothingToSubmit, ForfeitsSubmitted, Answered,
         On, Handling
    <3>5. Expected(current)
      BY <2>2, <3>2, <3>3, <3>4 DEF Expected
    <3> QED
      BY <3>2, <3>4, <3>5 DEF IgnoreEvent, Confirmed, OnTreeTx, NoncesSubmitted,
         SignaturesSubmitted, OnTreeSignature, NothingToSubmit, ForfeitsSubmitted, Answered,
         On, Handling
  <2>7. step # "BatchFinalization"
    BY <2>3, <2>6
  <2>8. current \in Finalization(b) => step' = "BatchFinalization"
    <3>1. SUFFICES ASSUME current \in Finalization(b) PROVE step' = "BatchFinalization"
      OBVIOUS
    <3>2. current.type = "BatchFinalization" /\ current \in Late(b)
      BY <3>1 DEF Finalization, Late
    <3>3. pc = "listening" => Expected(current)
      BY <2>4, <2>6, <3>2 DEF Expected
    <3> QED
      BY <3>2, <3>3 DEF HandInPlace, IgnoreEvent, Confirmed, OnTreeTx, NoncesSubmitted,
         SignaturesSubmitted, OnTreeSignature, NothingToSubmit, ForfeitsSubmitted, Answered,
         On, Handling
  <2>9. step' = "BatchFinalization" => current \in Finalization(b)
    BY <2>1, <2>7 DEF HandInPlace, IgnoreEvent, Confirmed, OnTreeTx, NoncesSubmitted,
         SignaturesSubmitted, OnTreeSignature, NothingToSubmit, ForfeitsSubmitted, Answered,
         Finalization
  <2>10. Ready => Ready'
    BY <1>1 DEF Ready, AwaitsInPlace, IgnoreEvent, Confirmed, OnTreeTx, NoncesSubmitted,
         SignaturesSubmitted, OnTreeSignature, NothingToSubmit, ForfeitsSubmitted, Answered,
         On, Handling
  <2>11. current \in Heralds(b, order) => current \in Arrived'
    <3>1. SUFFICES ASSUME current \in Heralds(b, order) PROVE current \in Arrived'
      OBVIOUS
    <3>2. order.cosigned = hasOffchainOutputs
      BY DEF OrderInPlace, OrderOf
    <3>3. \/ current.type = "TreeSignature" /\ hasOffchainOutputs
          \/ current.type = "TreeTx" /\ current.tree = "connectors"
      BY <3>1, <3>2 DEF Heralds, Signature, Connector
    <3>4. pc = "listening" /\ (OnTreeTx \/ OnTreeSignature \/ ~Expected(current))
      BY <3>3 DEF HandInPlace, IgnoreEvent, Confirmed, OnTreeTx, NoncesSubmitted,
         SignaturesSubmitted, OnTreeSignature, NothingToSubmit, ForfeitsSubmitted, Answered,
         On, Handling
    <3>5. Expected(current)
      BY <2>1, <2>4, <2>6, <3>3, <3>4 DEF Late, Expected
    <3> QED
      BY <1>2, <3>3, <3>4, <3>5 DEF OnTreeTx, OnTreeSignature, On, Handling, Arrived
  <2> QED
    BY <2>1, <2>6, <2>7, <2>8, <2>9, <2>10, <2>11 DEF ConsumesOf
<1> QED
  BY <1>1, <1>2, <1>3, <1>4, <1>5, <1>6

\* The loop is done with an event.
LEMMA ConsumeKeeps ==
    ASSUME TypeOK, AwaitsInPlace, NothingJoinedYet, JoinsOnce, NeverBreaks,
           ReaderInPlace, HandInPlace, OrderInPlace, LogInv, Consumes
    PROVE  LogInv'
<1>1. /\ Looping /\ Log # <<>> /\ Head(Log) = current /\ Log' = Tail(Log)
      /\ UNCHANGED <<batch, phase, intent, order, joined, received, hasOffchainOutputs>>
      /\ pc' = "listening" /\ Arrived \subseteq Arrived'
      /\ step' # "none" => roundId' \in joined
      /\ \A b \in joined : ConsumesOf(b)
  BY ConsumeFacts
<1>2. Log \in Seq(Event)
  BY LogTypes
<1> USE <1>1, <1>2, TakeFirst
<1>3. LogInPlace'
  BY DEF LogInv, LogInPlace, Looping, Attached, Strangers
<1>4. RoundInPlace'
  BY DEF RoundInPlace, Answered
<1>5. OwnBatchFirst'
  BY DEF LogInv, OwnBatchFirst, ConsumesOf
<1>6. StepInPlace'
  <2>1. Finalization(batch) \subseteq Late(batch)
    BY DEF Finalization, Late
  <2> QED
    BY <2>1 DEF LogInv, StepInPlace, ConsumesOf
<1>7. FinalizedOnce'
  BY DEF LogInv, FinalizedOnce, ConsumesOf
<1>8. AnnouncedBefore'
  <2>1. SUFFICES ASSUME NEW b \in joined, NEW e \in Heralds(b, order), e \notin Arrived'
                 PROVE  Heralded(Tail(Log), Finalization(b), {e})
    BY DEF AnnouncedBefore
  <2>2. Heralded(Log, Finalization(b), {e})
    BY <2>1 DEF LogInv, AnnouncedBefore
  <2>3. Head(Log) \notin {e}
    BY <2>1 DEF ConsumesOf
  <2> QED
    BY <2>2, <2>3
<1>9. SettledAtTheEnd'
  BY DEF LogInv, SettledAtTheEnd
<1> QED
  BY <1>3, <1>4, <1>5, <1>6, <1>7, <1>8, <1>9 DEF LogInv

\* An event is lost before the stream is open.
LEMMA DropKeeps ==
    ASSUME TypeOK, NeverBreaks, ReaderInPlace, LogInv, Drops
    PROVE  LogInv'
<1> USE DEF Drops, EmitEvent, Looping, clientVars
<1>1. Server!Emit /\ UNCHANGED streamVars /\ joined = {} /\ step = "none"
  BY DEF NeverBreaks, ReaderInPlace
<1>2. /\ Log # <<>> /\ Log' = Tail(Log) /\ Log \in Seq(Event)
      /\ UNCHANGED <<batch, phase, intent, order, joined, received, reader>>
  BY <1>1, LogShrinks, LogTypes DEF Server!Emit, streamVars
<1>3. LogInPlace'
  BY <1>2, TakeFirst DEF LogInv, LogInPlace, Attached, Strangers
<1> QED
  BY <1>2, <1>3 DEF LogInv, RoundInPlace, OwnBatchFirst, StepInPlace, FinalizedOnce,
                    AnnouncedBefore, SettledAtTheEnd

\* What the server's sequences of events have.
LEMMA Emitted ==
    ASSUME TypeOK, batch # 0
    PROVE  /\ \A type \in Server!PlainEvents :
                /\ Server!Plain(type) \in Seq(Event) /\ [type |-> type, id |-> batch] \in Event
                /\ \A A : Has(Server!Plain(type), A) <=> [type |-> type, id |-> batch] \in A
                /\ \A A, B : Closed(Server!Plain(type), A, B)
           /\ \A tree \in {"vtxo", "connectors"}, leaves \in Nat :
                /\ Server!TreeTxs(tree, leaves) \in Seq(Event)
                /\ \A A : Has(Server!TreeTxs(tree, leaves), A) <=>
                      \E n \in 0 .. leaves :
                        [type |-> "TreeTx", id |-> batch, tree |-> tree, node |-> n] \in A
           /\ Server!TreeSignatures \in Seq(Event)
           /\ \A A : Has(Server!TreeSignatures, A) <=>
                \E n \in 0 .. VtxoLeaves : Signature(batch, n) \in A
<1> USE DEF Has
<1>0. Server!ServerTypeOK /\ batch \in Server!Batch
  BY SettlementAssumption DEF TypeOK, Server!ServerTypeOK, Server!Batch
<1>1. ASSUME NEW type \in Server!PlainEvents
      PROVE  /\ Server!Plain(type) \in Seq(Event) /\ [type |-> type, id |-> batch] \in Event
             /\ \A A : Has(Server!Plain(type), A) <=> [type |-> type, id |-> batch] \in A
             /\ \A A, B : Closed(Server!Plain(type), A, B)
  <2>1. Server!Plain(type) \in Seq(Event) /\ [type |-> type, id |-> batch] \in Event
    BY <1>0, EventSequences DEF Event, Server!SettlementEvent
  <2>2. \A A : Has(Server!Plain(type), A) <=> [type |-> type, id |-> batch] \in A
    BY DEF Server!Plain
  <2>3. \A A, B : Closed(Server!Plain(type), A, B)
    BY DEF Closed, Server!Plain
  <2> QED
    BY <2>1, <2>2, <2>3
<1>2. ASSUME NEW tree \in {"vtxo", "connectors"}, NEW leaves \in Nat
      PROVE  /\ Server!TreeTxs(tree, leaves) \in Seq(Event)
             /\ \A A : Has(Server!TreeTxs(tree, leaves), A) <=>
                  \E n \in 0 .. leaves :
                    [type |-> "TreeTx", id |-> batch, tree |-> tree, node |-> n] \in A
  <2>1. Server!TreeTxs(tree, leaves) \in Seq(Event)
    BY <1>0, EventSequences DEF Event
  <2> DEFINE ev(n) == [type |-> "TreeTx", id |-> batch, tree |-> tree, node |-> n]
             txs == Server!TreeTxs(tree, leaves)
  <2>2. txs = [n \in 1 .. (leaves + 1) |-> ev(n - 1)]
    BY DEF Server!TreeTxs
  <2> HIDE DEF txs, ev
  <2>3. Len(txs) = leaves + 1 /\ \A n \in 1 .. (leaves + 1) : txs[n] = ev(n - 1)
    BY <2>2
  <2>4. ASSUME NEW A PROVE Has(txs, A) <=> \E n \in 0 .. leaves : ev(n) \in A
    <3>1. ASSUME NEW i \in 1 .. Len(txs), txs[i] \in A PROVE \E n \in 0 .. leaves : ev(n) \in A
      <4>1. i - 1 \in 0 .. leaves /\ ev(i - 1) \in A
        BY <2>3, <3>1
      <4> QED
        BY <4>1
    <3>2. ASSUME NEW n \in 0 .. leaves, ev(n) \in A PROVE \E i \in 1 .. Len(txs) : txs[i] \in A
      <4>1. n + 1 \in 1 .. Len(txs) /\ txs[n + 1] = ev((n + 1) - 1) /\ (n + 1) - 1 = n
        BY <2>3
      <4> QED
        BY <3>2, <4>1
    <3> QED
      BY <3>1, <3>2
  <2> QED
    BY <2>1, <2>4 DEF txs, ev
<1>3. Server!TreeSignatures \in Seq(Event)
  BY <1>0, EventSequences DEF Event
<1>4. ASSUME NEW A
      PROVE  Has(Server!TreeSignatures, A) <=> \E n \in 0 .. VtxoLeaves : Signature(batch, n) \in A
  <2> DEFINE ev(n) == Signature(batch, n)
             sigs == Server!TreeSignatures
  <2>2. sigs = [n \in 1 .. (VtxoLeaves + 1) |-> ev(n - 1)]
    BY DEF Server!TreeSignatures, Signature
  <2> HIDE DEF sigs, ev
  <2>3. Len(sigs) = VtxoLeaves + 1 /\ \A n \in 1 .. (VtxoLeaves + 1) : sigs[n] = ev(n - 1)
    BY <2>2, SettlementAssumption
  <2>5. ASSUME NEW i \in 1 .. Len(sigs), sigs[i] \in A PROVE \E n \in 0 .. VtxoLeaves : ev(n) \in A
    <4>1. i - 1 \in 0 .. VtxoLeaves /\ ev(i - 1) \in A
      BY <2>3, <2>5, SettlementAssumption
    <4> QED
      BY <4>1
  <2>6. ASSUME NEW n \in 0 .. VtxoLeaves, ev(n) \in A PROVE \E i \in 1 .. Len(sigs) : sigs[i] \in A
    <4>1. n + 1 \in 1 .. Len(sigs) /\ sigs[n + 1] = ev((n + 1) - 1) /\ (n + 1) - 1 = n
      BY <2>3, SettlementAssumption
    <4> QED
      BY <2>6, <4>1
  <2> QED
    BY <2>5, <2>6 DEF sigs, ev
<1> QED
  BY <1>1, <1>2, <1>3, <1>4

-----------------------------------------------------------------------------
(* The server's own steps. *)

\* The server starts a batch: its offer is all there is to add.
Starts(new) ==
    /\ phase = "idle" /\ batch' = batch + 1 /\ phase' = "confirming" /\ received' = {}
    /\ \E ours \in BOOLEAN :
        /\ new = <<[type |-> "BatchStarted", id |-> batch + 1, ours |-> ours]>>
        /\ ours => intent = "queued"
        /\ intent' = IF ours THEN "selected" ELSE intent

Signatures == {e \in Event : e.type = "TreeSignature"}
BeyondTheTree == {e \in Signatures : e.node \notin 0 .. VtxoLeaves}

\* What a batch adds as it goes on, and when it does.
Goes(new) ==
    /\ batch # 0 /\ phase # "idle" /\ phase' # "confirming"
    /\ UNCHANGED <<batch, received>>
    /\ intent' # "selected" /\ (intent' \in {"none", "queued"} => intent' = intent)
    /\ intent = "settled" => intent' = "settled"
    /\ ~Has(new, Others(batch)) /\ ~Has(new, Offers) /\ ~Has(new, BeyondTheTree)
    /\ Has(new, Of(batch) \ Ends(batch)) => phase \in {"confirming", "signing", "aggregated"}
    /\ Has(new, Late(batch)) => phase' = "finalizing" \/ phase = "finalizing"
    /\ phase' \in {"signing", "aggregated"} => phase \in {"confirming", "signing"}
    /\ phase' = "finalizing" => phase = "aggregated" /\ Has(new, Finalization(batch))
    /\ phase' = "finalizing" /\ intent = "confirmed" /\ order.cosigned => "signatures" \in received
    /\ Has(new, Finalization(batch)) => phase' = "finalizing"
    /\ Has(new, Finalized(batch)) =>
          phase = "finalizing" /\ (intent = "confirmed" => intent' = "settled")
    /\ phase' = "idle" => Has(new, Ends(batch))
    /\ Closed(new, Finalization(batch), Of(batch) \ Ends(batch))
    /\ intent = "confirmed" =>
          \A e \in Heralds(batch, order) : Heralded(new, Finalization(batch), {e})
    /\ Has(new, Signatures) => intent = "confirmed"

\* A step that adds one event without content.
LEMMA GoesPlain ==
    ASSUME Reliable, TypeOK, IntentFollowsPhase,
           Server!AggregateNonces \/ Server!EndBatch \/ Server!FailBatch
    PROVE  \E new \in Seq(Event) : outbox' = outbox \o new /\ Goes(new)
<1>1. batch # 0 /\ phase # "idle"
  BY DEF TypeOK, Server!ServerTypeOK, Server!AggregateNonces, Server!EndBatch, Server!FailBatch
<1>2. ASSUME NEW type \in {"TreeNoncesAggregated", "BatchFinalized", "BatchFailed"},
             NEW new, new = Server!Plain(type)
      PROVE  /\ new \in Seq(Event) /\ <<>> \o new = new
             /\ \A A : Has(new, A) <=> [type |-> type, id |-> batch] \in A
             /\ [type |-> type, id |-> batch] \in Event
             /\ \A A, B : Closed(new, A, B)
             /\ \A A : Heralded(new, Finalization(batch), A)
  <2>1. type \in Server!PlainEvents
    BY DEF Server!PlainEvents
  <2>2. /\ new \in Seq(Event) /\ [type |-> type, id |-> batch] \in Event
        /\ \A A : Has(new, A) <=> [type |-> type, id |-> batch] \in A
        /\ \A A, B : Closed(new, A, B)
    BY <1>1, <1>2, <2>1, Emitted
  <2>3. ~Has(new, Finalization(batch))
    BY <2>2 DEF Finalization
  <2> QED
    BY <2>2, <2>3, Nothing, ConcatEmptySeq
<1> USE DEF Others, Offers, Ends, Late, Finalization, Finalized, Of, Signatures, BeyondTheTree,
            IntentFollowsPhase
<1>3. CASE Server!AggregateNonces
  <2> DEFINE new == Server!Plain("TreeNoncesAggregated")
  <2>1. /\ new \in Seq(Event) /\ <<>> \o new = new
        /\ \A A : Has(new, A) <=> [type |-> "TreeNoncesAggregated", id |-> batch] \in A
        /\ \A A, B : Closed(new, A, B)
        /\ \A A : Heralded(new, Finalization(batch), A)
    BY <1>2
  <2>2. outbox' = outbox \o new
    BY <1>3, <2>1 DEF Server!AggregateNonces
  <2> HIDE DEF new
  <2>3. Goes(new)
    BY <1>1, <1>3, <2>1 DEF Goes, Server!AggregateNonces
  <2> QED
    BY <2>1, <2>2, <2>3
<1>4. CASE Server!EndBatch
  <2> DEFINE new == Server!Plain("BatchFinalized")
  <2>1. /\ new \in Seq(Event) /\ <<>> \o new = new
        /\ \A A : Has(new, A) <=> [type |-> "BatchFinalized", id |-> batch] \in A
        /\ [type |-> "BatchFinalized", id |-> batch] \in Event
        /\ \A A, B : Closed(new, A, B)
        /\ \A A : Heralded(new, Finalization(batch), A)
    BY <1>2
  <2>2. outbox' = outbox \o new
    BY <1>4, <2>1 DEF Server!EndBatch
  <2> HIDE DEF new
  <2>3. Goes(new)
    BY <1>1, <1>4, <2>1 DEF Goes, Server!EndBatch
  <2> QED
    BY <2>1, <2>2, <2>3
<1>5. CASE Server!FailBatch
  <2> DEFINE new == Server!Plain("BatchFailed")
  <2>1. /\ new \in Seq(Event)
        /\ \A A : Has(new, A) <=> [type |-> "BatchFailed", id |-> batch] \in A
        /\ [type |-> "BatchFailed", id |-> batch] \in Event
        /\ \A A, B : Closed(new, A, B)
        /\ \A A : Heralded(new, Finalization(batch), A)
    BY <1>2
  <2>2. outbox' = outbox \o new
    BY <1>5, <2>1 DEF Server!FailBatch
  <2> HIDE DEF new
  <2>3. /\ UNCHANGED <<batch, received, order>> /\ phase' = "idle"
        /\ intent' # "selected" /\ (intent' \in {"none", "queued"} => intent' = intent)
        /\ (intent = "settled" => intent' = "settled")
    BY <1>5 DEF Server!FailBatch, Server!LeftBehind, Reliable
  <2>4. Goes(new)
    BY <1>1, <2>1, <2>3 DEF Goes
  <2> QED
    BY <2>1, <2>2, <2>4
<1> QED
  BY <1>3, <1>4, <1>5

\* The confirmation window closes.
LEMMA GoesClose ==
    ASSUME Reliable, TypeOK, IntentFollowsPhase, Server!CloseConfirmation
    PROVE  \E new \in Seq(Event) : outbox' = outbox \o new /\ Goes(new)
<1>1. batch # 0 /\ phase = "confirming" /\ outbox = <<>>
  BY DEF TypeOK, Server!ServerTypeOK, Server!CloseConfirmation
<1> DEFINE tree == IF Server!Taking(order.cosigned)
                   THEN Server!TreeTxs("vtxo", VtxoLeaves) ELSE <<>>
           plain == Server!Plain("TreeSigningStarted")
           new == tree \o plain
<1>e. <<>> \in Seq(Event) /\ \A A : ~Has(<<>>, A)
  BY DEF Has
<1>2. /\ tree \in Seq(Event) /\ plain \in Seq(Event)
      /\ \A A : Has(tree, A) =>
            \E n \in 0 .. VtxoLeaves :
               [type |-> "TreeTx", id |-> batch, tree |-> "vtxo", node |-> n] \in A
      /\ \A A : Has(plain, A) <=> [type |-> "TreeSigningStarted", id |-> batch] \in A
  <2>1. CASE Server!Taking(order.cosigned)
    BY <1>1, <2>1, Emitted, SettlementAssumption DEF Server!PlainEvents
  <2>2. CASE ~Server!Taking(order.cosigned)
    BY <1>1, <1>e, <2>2, Emitted DEF Server!PlainEvents
  <2> QED
    BY <2>1, <2>2
<1>3. outbox' = <<>> \o new
  <2>1. new \in Seq(Event)
    BY <1>2, Joining
  <2>2. outbox' = new
    BY DEF Server!CloseConfirmation
  <2> QED
    BY <2>1, <2>2, ConcatEmptySeq
<1> HIDE DEF tree, plain
<1>4. new \in Seq(Event) /\ \A A : Has(new, A) => Has(tree, A) \/ Has(plain, A)
  BY <1>2, AddLast, Joining
<1> HIDE DEF new
<1>5. ~Has(new, Late(batch)) /\ ~Has(new, Others(batch)) /\ ~Has(new, Offers)
         /\ ~Has(new, Finalization(batch)) /\ ~Has(new, Finalized(batch))
         /\ ~Has(new, Signatures) /\ ~Has(new, BeyondTheTree)
  BY <1>2, <1>4 DEF Late, Others, Offers, Finalization, Finalized, Of, Signatures, BeyondTheTree
<1>6. \A A : Heralded(new, Finalization(batch), A) /\ Closed(new, Finalization(batch), A)
  BY <1>5, Nothing
<1>7. Goes(new)
  BY <1>1, <1>5, <1>6
  DEF Goes, Server!CloseConfirmation, Server!LeftBehind, Reliable, IntentFollowsPhase
<1> QED
  BY <1>1, <1>3, <1>4, <1>7

\* The tree is signed: what heralds the finalization comes before it.
LEMMA GoesFinalize ==
    ASSUME Reliable, TypeOK, IntentFollowsPhase, Server!StartFinalization
    PROVE  \E new \in Seq(Event) : outbox' = outbox \o new /\ Goes(new)
<1>1. batch # 0 /\ phase = "aggregated" /\ outbox = <<>> /\ Server!NbConnectors \in Nat
  BY NbConnectorsType DEF TypeOK, Server!ServerTypeOK, Server!StartFinalization
<1> DEFINE sigs == IF Server!Taking(order.cosigned) THEN Server!TreeSignatures ELSE <<>>
           conns == IF Server!Taking(order.vtxos # {})
                    THEN Server!TreeTxs("connectors", Server!NbConnectors) ELSE <<>>
           plain == Server!Plain("BatchFinalization")
           heralds == sigs \o conns
           new == heralds \o plain
<1>e. <<>> \in Seq(Event) /\ \A A : ~Has(<<>>, A)
  BY DEF Has
<1>2. /\ sigs \in Seq(Event) /\ conns \in Seq(Event) /\ plain \in Seq(Event)
      /\ \A A : Has(sigs, A) =>
            intent = "confirmed" /\ \E n \in 0 .. VtxoLeaves : Signature(batch, n) \in A
      /\ \A A : Has(conns, A) =>
            \E n \in 0 .. Server!NbConnectors :
               [type |-> "TreeTx", id |-> batch, tree |-> "connectors", node |-> n] \in A
      /\ \A A : Has(plain, A) <=> [type |-> "BatchFinalization", id |-> batch] \in A
      /\ [type |-> "BatchFinalization", id |-> batch] \in Event
      /\ \A A, B : Closed(plain, A, B)
  <2>1. sigs \in Seq(Event) /\ \A A : Has(sigs, A) =>
            intent = "confirmed" /\ \E n \in 0 .. VtxoLeaves : Signature(batch, n) \in A
    BY <1>1, <1>e, Emitted DEF Server!Taking
  <2>2. conns \in Seq(Event) /\ \A A : Has(conns, A) =>
            \E n \in 0 .. Server!NbConnectors :
               [type |-> "TreeTx", id |-> batch, tree |-> "connectors", node |-> n] \in A
    <3>1. CASE Server!Taking(order.vtxos # {})
      BY <1>1, <3>1, Emitted
    <3>2. CASE ~Server!Taking(order.vtxos # {})
      BY <1>e, <3>2
    <3> QED
      BY <3>1, <3>2
  <2> HIDE DEF sigs, conns
  <2> QED
    BY <1>1, <2>1, <2>2, Emitted DEF Server!PlainEvents
<1>3. outbox' = <<>> \o new
  <2>1. new \in Seq(Event)
    BY <1>2, Joining
  <2>2. outbox' = new
    BY DEF Server!StartFinalization
  <2> QED
    BY <2>1, <2>2, ConcatEmptySeq
<1>4. ASSUME intent = "confirmed", NEW e \in Heralds(batch, order) PROVE Has(heralds, {e})
  <2>1. CASE order.cosigned /\ e \in {Signature(batch, n) : n \in 0 .. VtxoLeaves}
    <3>1. Has(Server!TreeSignatures, {e})
      BY <1>1, <2>1, Emitted
    <3>2. Has(sigs, {e})
      BY <1>4, <2>1, <3>1 DEF Server!Taking
    <3> HIDE DEF sigs, conns
    <3> QED
      BY <1>2, <3>2, AddLast
  <2>2. CASE order.vtxos # {} /\ e = Connector(batch, 1)
    <3>1. Server!NbConnectors # 0
      <4>1. IsFiniteSet(order.vtxos)
        BY FS_Subset, SettlementAssumption DEF TypeOK, Server!ServerTypeOK, Server!Order
      <4> QED
        BY <2>2, <4>1, FS_EmptySet, SameCardinality DEF Server!NbConnectors
    <3>2. 1 \in 0 .. Server!NbConnectors
      BY <1>1, <3>1
    <3>3. Has(Server!TreeTxs("connectors", Server!NbConnectors), {e})
      BY <1>1, <2>2, <3>2, Emitted DEF Connector
    <3>4. Has(conns, {e})
      BY <1>4, <2>2, <3>3 DEF Server!Taking
    <3> HIDE DEF sigs, conns
    <3> QED
      BY <1>2, <3>4, AddLast
  <2> QED
    BY <1>4, <2>1, <2>2 DEF Heralds
<1> HIDE DEF sigs, conns, plain
<1>5. heralds \in Seq(Event) /\ \A A : Has(heralds, A) => Has(sigs, A) \/ Has(conns, A)
  BY <1>2, AddLast, Joining
<1> HIDE DEF heralds
<1>6. /\ new \in Seq(Event)
      /\ \A A : Has(new, A) <=> Has(heralds, A) \/ Has(plain, A)
  BY <1>2, <1>5, AddLast, Joining
<1>7. ~Has(heralds, Finalization(batch)) /\ ~Has(heralds, Finalized(batch))
         /\ ~Has(heralds, Others(batch)) /\ ~Has(heralds, Offers)
         /\ ~Has(heralds, BeyondTheTree) /\ (Has(heralds, Signatures) => intent = "confirmed")
  BY <1>2, <1>5
  DEF Finalization, Finalized, Others, Offers, Of, Signature, Signatures, BeyondTheTree
<1>8. \A A : Heralded(heralds, Finalization(batch), A) /\ Closed(heralds, Finalization(batch), A)
  BY <1>7, Nothing
<1>9. Closed(new, Finalization(batch), Of(batch) \ Ends(batch))
  BY <1>2, <1>5, <1>7, <1>8, AddLast
<1>10. ASSUME intent = "confirmed", NEW e \in Heralds(batch, order)
       PROVE  Heralded(new, Finalization(batch), {e})
  BY <1>2, <1>4, <1>5, <1>8, <1>10, AddLast
<1> HIDE DEF new
<1>11. ~Has(new, Others(batch)) /\ ~Has(new, Offers) /\ Has(new, Finalization(batch))
         /\ ~Has(new, Finalized(batch)) /\ ~Has(new, BeyondTheTree)
         /\ (Has(new, Signatures) => intent = "confirmed")
  BY <1>2, <1>6, <1>7
  DEF Finalization, Finalized, Others, Offers, Of, Signatures, BeyondTheTree
<1>12. Goes(new)
  BY <1>1, <1>9, <1>10, <1>11
  DEF Goes, Server!StartFinalization, Server!Taking, IntentFollowsPhase
<1> QED
  BY <1>1, <1>3, <1>6, <1>12

\* A step of the server adds to the log, and is no step of the client.
LEMMA Grows ==
    ASSUME Reliable, TypeOK, IntentFollowsPhase, RunBatch
    PROVE  /\ \E new \in Seq(Event) : Log' = Log \o new /\ (Starts(new) \/ Goes(new))
           /\ UNCHANGED <<joined, order, step, roundId, reader, pc, request, current,
                          hasOffchainOutputs, treeSigs, connectorsChunks>>
<1>1. UNCHANGED streamVars /\ UNCHANGED <<joined, order>>
      /\ UNCHANGED <<step, roundId, reader, pc, request, current, hasOffchainOutputs,
                     treeSigs, connectorsChunks>>
  BY DEF RunBatch, clientVars, streamVars, paramVars, treeVars, Server!BatchStep,
         Server!StartBatch, Server!CloseConfirmation, Server!AggregateNonces,
         Server!StartFinalization, Server!EndBatch, Server!FailBatch
<1>2. \E new \in Seq(Event) : outbox' = outbox \o new /\ (Starts(new) \/ Goes(new))
  <2>1. CASE Server!StartBatch
    <3>1. PICK ours \in BOOLEAN :
              /\ ours => intent = "queued"
              /\ intent' = IF ours THEN "selected" ELSE intent
              /\ outbox' = <<[type |-> "BatchStarted", id |-> batch + 1, ours |-> ours]>>
      BY <2>1 DEF Server!StartBatch
    <3> DEFINE new == <<[type |-> "BatchStarted", id |-> batch + 1, ours |-> ours]>>
    <3>2. batch + 1 \in Server!Batch
      BY <2>1, SettlementAssumption
      DEF TypeOK, Server!ServerTypeOK, Server!StartBatch, Server!Batch
    <3>3. new \in Seq(Event)
      BY <3>2 DEF Event, Server!SettlementEvent
    <3>4. Starts(new)
      BY <2>1, <3>1 DEF Starts, Server!StartBatch
    <3>5. outbox = <<>> /\ outbox' = new
      BY <2>1, <3>1 DEF Server!StartBatch
    <3> HIDE DEF new
    <3> QED
      BY <3>3, <3>4, <3>5, ConcatEmptySeq
  <2> QED
    BY <2>1, GoesClose, GoesFinalize, GoesPlain DEF RunBatch, Server!BatchStep
<1> QED
  BY <1>1, <1>2, LogGrows

\* The start of a batch keeps the invariants: no batch that was joined is running.
LEMMA StartKeeps ==
    ASSUME TypeOK, OrderInPlace, IntentFollowsPhase, LogInv,
           UNCHANGED <<joined, order, step, roundId, reader, pc, request, current,
                       hasOffchainOutputs, treeSigs, connectorsChunks>>,
           NEW new \in Seq(Event), Log' = Log \o new, Starts(new)
    PROVE  LogInv'
<1> USE DEF Looping, Attached
<1>1. /\ phase = "idle" /\ batch' = batch + 1 /\ phase' = "confirming" /\ received' = {}
      /\ Log \in Seq(Event) /\ batch \in Nat /\ \A b \in joined : b \in Nat /\ b <= batch
      /\ \A b \in joined : b # batch'
      /\ intent' = "selected" => intent = "queued"
      /\ intent' # "selected" => intent' = intent
      /\ intent # "selected"
  <2>1. Log \in Seq(Event) /\ batch \in Nat /\ \A b \in joined : b \in Nat /\ b <= batch
    BY LogTypes, SettlementAssumption DEF TypeOK, Server!ServerTypeOK, Server!Batch, OrderInPlace
  <2> QED
    BY <2>1 DEF Starts, IntentFollowsPhase
<1>2. PICK ours \in BOOLEAN :
        /\ new = <<[type |-> "BatchStarted", id |-> batch + 1, ours |-> ours]>>
        /\ ours => intent = "queued"
        /\ intent' = IF ours THEN "selected" ELSE intent
  BY DEF Starts
<1>3. /\ \A A : Has(new, A) <=> [type |-> "BatchStarted", id |-> batch + 1, ours |-> ours] \in A
      /\ \A A, B : Closed(new, A, B)
  BY <1>2 DEF Has, Closed
<1>4. \A A : Has(Log', A) <=> Has(Log, A) \/ Has(new, A)
  BY <1>1, AddLast
<1>5. LogInPlace'
  <2>1. SUFFICES ASSUME Attached PROVE LogInPlace'
    BY DEF LogInPlace
  <2>2. ~Has(Log, After(batch)) /\ ~Has(Log, Strangers)
        /\ (intent \in {"none", "queued"} => ~Has(Log, Offers))
    BY <2>1 DEF LogInv, LogInPlace
  <2>3. ~Has(Log, After(batch')) /\ ~Has(Log, Of(batch'))
    <3>1. After(batch + 1) \subseteq After(batch) /\ Of(batch + 1) \subseteq After(batch)
      <4>1. \A e \in Event : e.id \in Nat
        <5>1. \A e \in Event : e.id \in Server!Batch
          BY EventFields DEF Event
        <5>2. Server!Batch \subseteq Nat
          BY SettlementAssumption DEF Server!Batch
        <5> QED
          BY <5>1, <5>2
      <4> QED
        BY <1>1, <4>1 DEF After, Of
    <3> QED
      BY <1>1, <2>2, <3>1 DEF Has
  <2>4. ~Has(new, After(batch')) /\ ~Has(new, Strangers)
    BY <1>1, <1>3 DEF After, Strangers
  <2>5. Strangers' = Strangers
    BY DEF Strangers
  <2>6. Closed(Log', Of(batch'), Event)
    BY <1>1, <1>3, <2>3, Nothing, AddLast
  <2>7. intent' \in {"none", "queued"} => ~Has(Log', Offers)
    BY <1>1, <1>2, <1>3, <1>4, <2>2 DEF Offers
  <2>8. intent' = "selected" => ~Has(Log', Offers \ Of(batch'))
    <3>1. ~Has(new, Offers \ Of(batch'))
      BY <1>1, <1>3 DEF Offers, Of
    <3>2. intent' = "selected" => ~Has(Log, Offers \ Of(batch'))
      BY <1>1, <2>2 DEF Has
    <3> QED
      BY <1>4, <3>1, <3>2
  <2> QED
    BY <1>1, <1>4, <2>2, <2>3, <2>4, <2>5, <2>6, <2>7, <2>8 DEF LogInPlace
<1>6. RoundInPlace'
  BY DEF LogInv, RoundInPlace, Answered
<1>7. \A b \in joined : ~Has(new, Of(b))
  BY <1>1, <1>3 DEF Of
<1>8. OwnBatchFirst'
  BY <1>1, <1>4, AddLast DEF LogInv, OwnBatchFirst
<1>9. \A b \in joined : ~Has(new, Late(b)) /\ ~Has(new, Finalization(b)) /\ ~Has(new, Finalized(b))
                           /\ ~Has(new, Of(b) \ Ends(b))
  BY <1>7 DEF Late, Finalization, Finalized, Has, Of
<1>10. StepInPlace'
  <2>1. Ready' = Ready
    BY DEF Ready, Answered
  <2> QED
    BY <1>1, <1>4, <1>9, <2>1 DEF LogInv, StepInPlace
<1>11. FinalizedOnce'
  <2>1. \A b \in joined : Closed(new, Finalization(b), Of(b) \ Ends(b))
                             /\ Heralded(new, Finalized(b), Finalization(b))
    BY <1>9, Nothing
  <2> QED
    BY <1>1, <1>4, <1>9, <2>1, AddLast DEF LogInv, FinalizedOnce
<1>12. AnnouncedBefore'
  <2>1. SUFFICES ASSUME Looping, NEW b \in joined, NEW e \in Heralds(b, order), e \notin Arrived
                 PROVE  Heralded(Log', Finalization(b), {e})
    BY DEF AnnouncedBefore, Arrived
  <2>2. Heralded(Log, Finalization(b), {e}) /\ Heralded(new, Finalization(b), {e})
    BY <1>9, <2>1, Nothing DEF LogInv, AnnouncedBefore
  <2> QED
    BY <1>1, <2>2, AddLast
<1>13. SettledAtTheEnd'
  BY <1>1, <1>4, <1>9 DEF LogInv, SettledAtTheEnd
<1> QED
  BY <1>5, <1>6, <1>8, <1>10, <1>11, <1>12, <1>13 DEF LogInv

\* A batch goes on: what it adds is in place.
LEMMA GoesKeeps ==
    ASSUME TypeOK, OrderInPlace, IntentFollowsPhase, LogInv,
           UNCHANGED <<joined, order, step, roundId, reader, pc, request, current,
                       hasOffchainOutputs, treeSigs, connectorsChunks>>,
           NEW new \in Seq(Event), Log' = Log \o new, Goes(new)
    PROVE  LogInv'
<1> USE DEF Looping, Attached, Goes
<1>1. Log \in Seq(Event) /\ batch \in Nat /\ \A b \in joined : b \in Nat /\ b <= batch
  BY LogTypes, SettlementAssumption DEF TypeOK, Server!ServerTypeOK, Server!Batch, OrderInPlace
<1>2. /\ \A A : Has(Log', A) <=> Has(Log, A) \/ Has(new, A)
      /\ batch' = batch /\ received' = received
  BY <1>1, AddLast
<1>3. batch \in joined => intent = "confirmed" /\ order.cosigned = hasOffchainOutputs
  BY DEF OrderInPlace, OrderOf
<1>4. intent = "confirmed" => batch \in joined
  BY DEF IntentFollowsPhase
<1>5. \A b \in joined : b # batch =>
          /\ ~Has(new, Of(b)) /\ ~Has(new, Late(b)) /\ ~Has(new, Of(b) \ Ends(b))
          /\ ~Has(new, Finalization(b)) /\ ~Has(new, Finalized(b))
  BY DEF Has, Others, Of, Late, Finalization, Finalized
<1>6. LogInPlace'
  <2>1. SUFFICES ASSUME Attached PROVE LogInPlace'
    BY DEF LogInPlace
  <2>2. ~Has(Log, After(batch)) /\ ~Has(Log, Strangers)
        /\ (intent \in {"none", "queued"} => ~Has(Log, Offers))
    BY <2>1 DEF LogInv, LogInPlace
  <2>3. ~Has(new, After(batch))
    BY <1>1 DEF Has, Others, After
  <2>4. ~Has(new, Strangers)
    <3>1. SUFFICES ASSUME NEW i \in 1 .. Len(new), new[i] \in Strangers PROVE FALSE
      BY DEF Has
    <3>2. new[i].type = "TreeSignature" /\ new[i] \in Event
      BY <3>1 DEF Strangers
    <3>3. new[i].id = batch
      BY <3>1, <3>2 DEF Has, Others
    <3>4. intent = "confirmed"
      BY <3>1, <3>2 DEF Has, Signatures
    <3>5. new[i].node \in 0 .. VtxoLeaves
      BY <3>1, <3>2 DEF Has, Signatures, BeyondTheTree
    <3> QED
      BY <1>4, <3>1, <3>3, <3>4, <3>5 DEF Strangers
  <2>5. Strangers' = Strangers
    BY DEF Strangers
  <2>6. intent' \in {"none", "queued"} => ~Has(Log', Offers)
    BY <1>2, <2>2
  <2> QED
    BY <1>2, <2>2, <2>3, <2>4, <2>5, <2>6 DEF LogInPlace
<1>7. RoundInPlace'
  BY DEF LogInv, RoundInPlace, Answered
<1>8. OwnBatchFirst'
  <2>1. SUFFICES ASSUME Looping, NEW b \in joined
                 PROVE  /\ Heralded(Log', Others(b), Ends(b))
                        /\ batch # b \/ phase' = "idle" => Has(Log', Ends(b))
    BY <1>2 DEF OwnBatchFirst
  <2>2. Heralded(Log, Others(b), Ends(b)) /\ (batch # b => Has(Log, Ends(b)))
    BY <2>1 DEF LogInv, OwnBatchFirst
  <2>3. batch = b => Heralded(new, Others(b), Ends(b))
    BY Nothing
  <2> QED
    BY <1>1, <1>2, <2>2, <2>3, AddLast
<1>9. StepInPlace'
  <2>1. Ready' = Ready
    BY DEF Ready, Answered
  <2>2. SUFFICES ASSUME Looping, NEW b \in joined
                 PROVE  /\ ~hasOffchainOutputs => Ready
                        /\ batch = b /\ (phase' = "finalizing" \/ "signatures" \in received)
                              => Ready
                        /\ Has(Log', Late(b)) => Ready
                        /\ batch = b /\ phase' \in {"confirming", "signing", "aggregated"} =>
                              step # "BatchFinalization" /\ ~Has(Log', Late(b))
    BY <1>2, <2>1 DEF StepInPlace
  <2>3. /\ ~hasOffchainOutputs => Ready
        /\ batch = b /\ (phase = "finalizing" \/ "signatures" \in received) => Ready
        /\ Has(Log, Late(b)) => Ready
        /\ batch = b /\ phase \in {"confirming", "signing", "aggregated"} =>
              step # "BatchFinalization" /\ ~Has(Log, Late(b))
    BY <2>2 DEF LogInv, StepInPlace
  <2>4. batch = b /\ phase' = "finalizing" => Ready
    BY <1>3, <2>3
  <2> QED
    BY <1>2, <1>5, <2>3, <2>4
<1>10. FinalizedOnce'
  <2>1. SUFFICES ASSUME Looping, NEW b \in joined
                 PROVE  /\ Closed(Log', Finalization(b), Of(b) \ Ends(b))
                        /\ step = "BatchFinalization" => ~Has(Log', Of(b) \ Ends(b))
                        /\ step # "BatchFinalization" =>
                              /\ Heralded(Log', Finalized(b), Finalization(b))
                              /\ batch = b /\ phase' = "finalizing" => Has(Log', Finalization(b))
    BY <1>2 DEF FinalizedOnce
  <2>2. /\ Closed(Log, Finalization(b), Of(b) \ Ends(b))
        /\ step = "BatchFinalization" => ~Has(Log, Of(b) \ Ends(b))
        /\ step # "BatchFinalization" =>
              /\ Heralded(Log, Finalized(b), Finalization(b))
              /\ batch = b /\ phase = "finalizing" => Has(Log, Finalization(b))
    BY <2>1 DEF LogInv, FinalizedOnce
  <2>3. batch = b /\ phase \in {"confirming", "signing", "aggregated"} =>
              step # "BatchFinalization" /\ ~Has(Log, Finalization(b))
    <3>1. Finalization(b) \subseteq Late(b)
      BY DEF Finalization, Late
    <3> QED
      BY <2>1, <3>1 DEF LogInv, StepInPlace, Has
  <2>4. Closed(new, Finalization(b), Of(b) \ Ends(b))
           /\ (~Has(Log, Finalization(b)) \/ ~Has(new, Of(b) \ Ends(b)))
    BY <1>5, <2>3, Nothing
  <2>5. Closed(Log', Finalization(b), Of(b) \ Ends(b))
    BY <1>1, <2>2, <2>4, AddLast
  <2>6. step = "BatchFinalization" => ~Has(Log', Of(b) \ Ends(b))
    BY <1>2, <1>5, <2>2, <2>3
  <2>7. step # "BatchFinalization" => Heralded(Log', Finalized(b), Finalization(b))
    <3>1. Has(new, Finalized(b)) => batch = b /\ phase = "finalizing"
      BY <1>5
    <3>2. ~Has(new, Finalized(b)) => Heralded(new, Finalized(b), Finalization(b))
      BY Nothing
    <3> QED
      BY <1>1, <2>2, <3>1, <3>2, AddLast
  <2>8. batch = b /\ phase' = "finalizing" => Has(Log', Finalization(b))
    BY <1>2
  <2> QED
    BY <2>5, <2>6, <2>7, <2>8
<1>11. AnnouncedBefore'
  <2>1. SUFFICES ASSUME Looping, NEW b \in joined, NEW e \in Heralds(b, order), e \notin Arrived
                 PROVE  Heralded(Log', Finalization(b), {e})
    BY DEF AnnouncedBefore, Arrived
  <2>2. Heralded(Log, Finalization(b), {e})
    BY <2>1 DEF LogInv, AnnouncedBefore
  <2>3. Heralded(new, Finalization(b), {e})
    BY <1>3, <1>5, Nothing
  <2> QED
    BY <1>1, <2>2, <2>3, AddLast
<1>12. SettledAtTheEnd'
  <2>1. SUFFICES ASSUME Looping, NEW b \in joined, Has(Log', Finalized(b))
                 PROVE  intent' = "settled"
    BY DEF SettledAtTheEnd
  <2>2. CASE Has(Log, Finalized(b))
    BY <2>1, <2>2 DEF LogInv, SettledAtTheEnd
  <2>3. CASE Has(new, Finalized(b))
    BY <1>3, <1>5, <2>3
  <2> QED
    BY <1>2, <2>1, <2>2, <2>3
<1> QED
  BY <1>6, <1>7, <1>8, <1>9, <1>10, <1>11, <1>12 DEF LogInv

-----------------------------------------------------------------------------
(* The three properties. *)

\* Which steps touch what the properties speak of.
LEMMA Untouched ==
    ASSUME [Next]_vars
    PROVE  /\ OnTreeSignature \/ UNCHANGED treeSigs
           /\ Unroll \/ UNCHANGED unrolled
           /\ pc' = "submittingForfeits" =>
                CoinsRead \/ (pc = "submittingForfeits" /\ UNCHANGED <<forfeits, inputs>>)
           /\ pc' = "resolved" => OnBatchFinalized \/ (pc = "resolved" /\ UNCHANGED result)
<1> USE DEF treeVars, submittedVars, paramVars, envVars, clientVars, Send, Listen, Continue, Abort
<1>1. CASE \/ Settle \/ Registered \/ RegistrationThrows \/ NextEvent \/ IgnoreEvent
           \/ OnBatchFailed \/ OnBatchStarted \/ Confirmed \/ OnTreeTx
  BY <1>1 DEF Settle, Registered, RegistrationThrows, NextEvent, IgnoreEvent,
       OnBatchFailed, OnBatchStarted, Confirmed, OnTreeTx
<1>2. CASE \/ OnTreeSigningStarted \/ NoncesSubmitted \/ OnTreeNoncesAggregated
           \/ SignaturesSubmitted \/ OnTreeSignature \/ OnBatchFinalization
  BY <1>2 DEF OnTreeSigningStarted, NoncesSubmitted, OnTreeNoncesAggregated,
       SignaturesSubmitted, OnTreeSignature, OnBatchFinalization
<1>3. CASE \/ CoinsRead \/ NothingToSubmit \/ ForfeitsSubmitted \/ OnBatchFinalized
           \/ LoopThrows \/ StreamThrows \/ IntentDeleted
  BY <1>3 DEF CoinsRead, NothingToSubmit, ForfeitsSubmitted, OnBatchFinalized, LoopThrows,
       StreamThrows, IntentDeleted
<1>4. CASE \/ Accept \/ Refuse \/ RunBatch \/ EmitEvent \/ ErrorWhileReading
           \/ ErrorWhileBusy \/ Reconnect \/ Unroll
  BY <1>4 DEF Accept, Refuse, RunBatch, EmitEvent, ErrorWhileReading, ErrorWhileBusy,
       Reconnect, Unroll
<1>5. CASE UNCHANGED vars
  BY <1>5 DEF vars
<1> QED
  BY <1>1, <1>2, <1>3, <1>4, <1>5 DEF Next, ClientStep

\* Only signatures of the joined batch's tree are put into it.
LEMMA SignaturesKept ==
    ASSUME TypeOK, IntentFollowsPhase, LogInPlace, SignaturesInPlace, [Next]_vars
    PROVE  SignaturesInPlace'
<1>1. joined \subseteq joined'
  BY Components, ServerKeeps
<1>2. CASE OnTreeSignature
  <2>1. reader = "handling" /\ current.type = "TreeSignature"
           /\ treeSigs' = treeSigs \cup {<<current.id, current.node>>}
    BY <1>2 DEF OnTreeSignature, On, Handling
  <2>2. Log \in Seq(Event) /\ Log # <<>> /\ Head(Log) = current /\ current \in Event
    BY <2>1, LogTypes DEF TypeOK, Stream!StreamTypeOK, Event
  <2>3. current \notin Strangers
    BY <2>1, <2>2, TakeFirst DEF LogInPlace, Attached
  <2>4. current.id \in joined /\ current.node \in 0 .. VtxoLeaves
    BY <2>1, <2>2, <2>3 DEF Strangers
  <2> QED
    BY <1>1, <2>1, <2>4 DEF SignaturesInPlace
<1> QED
  BY <1>1, <1>2, Untouched DEF SignaturesInPlace

\* When the finalization is in hand, all that heralds it has come.
LEMMA Announced ==
    ASSUME TypeOK, AwaitsInPlace, HandInPlace, OrderInPlace, RoundInPlace, OwnBatchFirst,
           AnnouncedBefore, pc \in {"readingCoins", "submittingForfeits"}
    PROVE  /\ current.id \in joined
           /\ order = OrderOf
           /\ Heralds(current.id, order) \subseteq Arrived
<1>1. reader = "handling" /\ step # "none" /\ current.type = "BatchFinalization"
  BY DEF AwaitsInPlace, LoopAwaits, Awaits, HandInPlace
<1>2. Log \in Seq(Event) /\ Log # <<>> /\ Head(Log) = current /\ current \in Event
  BY <1>1, LogTypes DEF TypeOK, Stream!StreamTypeOK, Event
<1>3. roundId \in joined
  BY <1>1 DEF RoundInPlace, Looping
<1>4. current.id = roundId
  <2>1. current \notin Others(roundId)
    BY <1>1, <1>2, <1>3, TakeFirst DEF OwnBatchFirst, Looping
  <2> QED
    BY <1>2, <2>1 DEF Others
<1>5. current \in Finalization(roundId)
  BY <1>1, <1>2, <1>4 DEF Finalization, Of
<1>6. ASSUME NEW e \in Heralds(roundId, order) PROVE e \in Arrived
  <2>1. SUFFICES ASSUME e \notin Arrived PROVE FALSE
    OBVIOUS
  <2>2. Heralded(Log, Finalization(roundId), {e})
    BY <1>1, <1>3, <2>1 DEF AnnouncedBefore, Looping
  <2> QED
    BY <1>2, <1>5, <2>2, TakeFirst
<1> QED
  BY <1>3, <1>4, <1>6 DEF OrderInPlace

\* So the tree is signed.
LEMMA TreeSigned ==
    ASSUME TypeOK, AwaitsInPlace, JoinsOnce, HandInPlace, OrderInPlace, RoundInPlace,
           OwnBatchFirst, AnnouncedBefore, SignaturesInPlace
    PROVE  ForfeitsAfterTreeSigned
<1> SUFFICES ASSUME pc = "submittingForfeits", hasOffchainOutputs
             PROVE  treeSigs = Server!TreeOf(current.id, VtxoLeaves)
  BY DEF ForfeitsAfterTreeSigned
<1>1. /\ current.id \in joined
      /\ order = OrderOf
      /\ Heralds(current.id, order) \subseteq Arrived
  BY Announced
<1>2. order.cosigned
  BY <1>1 DEF OrderOf
<1>3. ASSUME NEW n \in 0 .. VtxoLeaves PROVE <<current.id, n>> \in treeSigs
  <2>1. Signature(current.id, n) \in Arrived
    BY <1>1, <1>2 DEF Heralds
  <2> QED
    BY <2>1 DEF Signature, Arrived
<1>4. ASSUME NEW c \in treeSigs PROVE c \in {current.id} \X (0 .. VtxoLeaves)
  <2>1. c \in Server!Chunk
    BY DEF TypeOK, SettleTypeOK
  <2>2. c = <<c[1], c[2]>>
    BY <2>1 DEF Server!Chunk
  <2>3. c[1] = current.id /\ c[2] \in 0 .. VtxoLeaves
    BY <1>1 DEF SignaturesInPlace, JoinsOnce
  <2> QED
    BY <2>2, <2>3
<1> QED
  BY <1>3, <1>4 DEF Server!TreeOf

\* Each vtxo gets a connector of its own.
LEMMA VtxosCovered ==
    ASSUME MaxUnrolls = 0, TypeOK, AwaitsInPlace, HandInPlace, OrderInPlace, RoundInPlace,
           OwnBatchFirst, AnnouncedBefore, CoveredInv, [Next]_vars
    PROVE  CoveredInv'
<1>0. unrolled' = {}
  BY FS_EmptySet, Untouched DEF CoveredInv, Unroll
<1> SUFFICES ASSUME CoinsRead PROVE ForfeitsCoverVtxos'
  BY <1>0, Untouched DEF CoveredInv, ForfeitsCoverVtxos
<1>1. pc = "readingCoins" /\ UNCHANGED inputs
  BY DEF CoinsRead, Answered, paramVars
<1>2. ToForfeit = inputs \cap Vtxos
  BY CoinsAssumption DEF ToForfeit, KnownVtxos, CoveredInv
<1>3. PICK f \in ConnectorChoices :
        forfeits' = {[input |-> i, connector |-> f[i]] : i \in ToForfeit}
  BY DEF CoinsRead
<1>4. /\ \A i \in ToForfeit : f[i] \in ConnectorsLeaves
      /\ \A i, j \in ToForfeit : f[i] = f[j] => i = j
  BY DEF ConnectorChoices
<1>5. ASSUME ToForfeit # {} PROVE \A c \in ConnectorsLeaves : c[2] # 0
  <2>1. /\ order = OrderOf
        /\ Heralds(current.id, order) \subseteq Arrived
    BY <1>1, Announced
  <2>2. Connector(current.id, 1) \in Arrived
    BY <1>2, <1>5, <2>1 DEF Heralds, OrderOf
  <2>3. <<current.id, 1>> \in connectorsChunks
    BY <2>2 DEF Connector, Arrived
  <2> QED
    BY <2>3 DEF ConnectorsLeaves
<1>6. {g.input : g \in forfeits'} = inputs' \cap Vtxos
  <2>1. ASSUME NEW i \in ToForfeit PROVE i \in {g.input : g \in forfeits'}
    <3>1. [input |-> i, connector |-> f[i]] \in forfeits'
      BY <1>3
    <3> QED
      BY <3>1
  <2>2. ASSUME NEW g \in forfeits' PROVE g.input \in ToForfeit
    BY <1>3
  <2>3. {g.input : g \in forfeits'} = ToForfeit
    BY <2>1, <2>2
  <2> QED
    BY <1>1, <1>2, <2>3
<1>7. \A g \in forfeits' : g.connector[2] # 0
  BY <1>3, <1>4, <1>5
<1>8. \A g, h \in forfeits' : g.connector = h.connector => g = h
  BY <1>3, <1>4
<1> QED
  BY <1>6, <1>7, <1>8 DEF ForfeitsCoverVtxos

\* What settle returns was settled, and stays so.
LEMMA ResultSettled ==
    ASSUME TypeOK, IntentFollowsPhase, RoundInPlace, OwnBatchFirst, SettledAtTheEnd,
           ResultIsSettled, [Next]_vars
    PROVE  ResultIsSettled'
<1>1. joined \subseteq joined' /\ ServerStep
  BY Components, ServerKeeps
<1>2. CASE OnBatchFinalized
  <2>1. /\ reader = "handling" /\ current.type = "BatchFinalized" /\ step = "BatchFinalization"
        /\ result' = current.id /\ UNCHANGED <<intent, joined>>
    BY <1>2 DEF OnBatchFinalized, On, Handling, Expected, serverVars
  <2>2. Log \in Seq(Event) /\ Log # <<>> /\ Head(Log) = current /\ current \in Event
    BY <2>1, LogTypes DEF TypeOK, Stream!StreamTypeOK, Event
  <2>3. roundId \in joined
    BY <2>1 DEF RoundInPlace, Looping
  <2>4. current.id = roundId
    <3>1. current \notin Others(roundId)
      BY <2>1, <2>2, <2>3, TakeFirst DEF OwnBatchFirst, Looping
    <3> QED
      BY <2>2, <3>1 DEF Others
  <2>5. Has(Log, Finalized(roundId))
    BY <2>1, <2>2, <2>4, TakeFirst DEF Finalized, Of
  <2> QED
    BY <2>1, <2>3, <2>4, <2>5 DEF SettledAtTheEnd, Looping, ResultIsSettled
<1>3. CASE pc = "resolved" /\ UNCHANGED result
  <2>1. intent = "settled" /\ result \in joined
    BY <1>3 DEF ResultIsSettled
  <2>2. intent' = "settled"
    BY <1>1, <2>1
    DEF ServerStep, Server!BatchStep, Server!StartBatch, Server!CloseConfirmation,
        Server!AggregateNonces, Server!StartFinalization, Server!EndBatch, Server!FailBatch,
        Server!Emit, Requested, Server!RegisterIntent, Server!ConfirmRegistration, Server!Submit,
        Server!DeleteIntent, serverVars
  <2> QED
    BY <1>1, <1>3, <2>1, <2>2 DEF ResultIsSettled
<1> QED
  BY <1>2, <1>3, Untouched DEF ResultIsSettled

-----------------------------------------------------------------------------
(* The inductive invariant on a reliable stream. *)

\* Every step keeps what the log says.
LEMMA LogKeeps ==
    ASSUME Reliable, IInv, NeverBreaks, ReaderInPlace, HandInPlace, OrderInPlace, LogInv,
           [Next]_vars
    PROVE  LogInv'
<1>1. TypeOK /\ AwaitsInPlace /\ NothingJoinedYet /\ JoinsOnce /\ IntentFollowsPhase
  BY DEF IInv
<1>2. CASE ~Attached'
  BY <1>2 DEF LogInv, LogInPlace, RoundInPlace, OwnBatchFirst, StepInPlace, FinalizedOnce,
              AnnouncedBefore, SettledAtTheEnd, Attached, Looping
<1>3. CASE Accept
  BY <1>1, <1>3, AcceptKeeps
<1>4. CASE RunBatch
  BY <1>1, <1>4, Grows, StartKeeps, GoesKeeps
<1>5. CASE Consumes
  BY <1>1, <1>5, ConsumeKeeps
<1>6. CASE Drops
  BY <1>1, <1>6, DropKeeps
<1>7. CASE Attached' /\ ~Accept /\ ~RunBatch /\ ~Consumes /\ ~Drops
  BY <1>1, <1>7, QuietStep, QuietKeeps
<1> QED
  BY <1>2, <1>3, <1>4, <1>5, <1>6, <1>7

\* Every step keeps the invariant.
LEMMA ReliableInductive == Reliable /\ IInv /\ ReliableInv /\ [Next]_vars => ReliableInv'
<1> SUFFICES ASSUME Reliable, IInv, ReliableInv, [Next]_vars PROVE ReliableInv'
  OBVIOUS
<1>1. TypeOK /\ AwaitsInPlace /\ IntentFollowsPhase
  BY DEF IInv
<1>2. NeverBreaks' /\ ReaderInPlace' /\ HandInPlace'
  BY <1>1, PlaceKept DEF ReliableInv
<1>3. OrderInPlace'
  BY <1>1, OrderKept DEF ReliableInv
<1>4. LogInv'
  BY LogKeeps DEF ReliableInv, LogInv
<1>5. SignaturesInPlace'
  BY <1>1, SignaturesKept DEF ReliableInv
<1>6. ResultIsSettled'
  BY <1>1, ResultSettled DEF ReliableInv
<1> QED
  BY <1>2, <1>3, <1>4, <1>5, <1>6 DEF ReliableInv, LogInv

\* It holds at first: nothing has been sent.
LEMMA ReliableInit == Init => ReliableInv
<1> SUFFICES ASSUME Init PROVE ReliableInv
  OBVIOUS
<1> USE DEF Init, Stream!StreamInit, Server!ServerInit, Session!SessionInit
<1>1. Log = <<>>
  BY ConcatEmptySeq, EmptySeq DEF Log, InHand
<1>2. \A A : ~Has(Log, A)
  BY <1>1 DEF Has
<1>3. NeverBreaks /\ ReaderInPlace /\ HandInPlace /\ OrderInPlace /\ SignaturesInPlace
  BY DEF NeverBreaks, ReaderInPlace, HandInPlace, OrderInPlace, SignaturesInPlace, Looping
<1>4. LogInPlace
  BY <1>2 DEF LogInPlace
<1>5. RoundInPlace /\ OwnBatchFirst /\ StepInPlace /\ FinalizedOnce /\ AnnouncedBefore
         /\ SettledAtTheEnd
  BY DEF RoundInPlace, OwnBatchFirst, StepInPlace, FinalizedOnce, AnnouncedBefore,
         SettledAtTheEnd, Looping
<1>6. ResultIsSettled
  BY DEF ResultIsSettled
<1> QED
  BY <1>3, <1>4, <1>5, <1>6 DEF ReliableInv

\* The invariant holds throughout.
THEOREM OnAReliableStream == Reliable => (Spec => []ReliableInv)
<1> SUFFICES ASSUME Reliable PROVE Spec => []ReliableInv
  OBVIOUS
<1>1. IInv /\ ReliableInv /\ [Next]_vars => ReliableInv'
  BY ReliableInductive
<1> QED
  BY <1>1, ReliableInit, Invariant, PTL DEF Spec

\* On a reliable stream, forfeits that pay for offchain outputs are submitted when
\* every transaction of the batch's tree has its signature.
THEOREM ForfeitsWhenSigned == Reliable => (Spec => []ForfeitsAfterTreeSigned)
<1>1. IInv /\ ReliableInv => ForfeitsAfterTreeSigned
  BY TreeSigned DEF IInv, ReliableInv
<1> QED
  BY <1>1, Invariant, OnAReliableStream, PTL

\* On a reliable stream, when nobody unrolls them meanwhile, every vtxo is
\* forfeited, each with a connector of its own.
THEOREM EveryVtxoForfeited == Reliable /\ MaxUnrolls = 0 => (Spec => []ForfeitsCoverVtxos)
<1> SUFFICES ASSUME Reliable, MaxUnrolls = 0 PROVE Spec => []ForfeitsCoverVtxos
  OBVIOUS
<1>1. Init => CoveredInv
  BY DEF Init, CoveredInv, ForfeitsCoverVtxos
<1>2. IInv /\ ReliableInv /\ CoveredInv /\ [Next]_vars => CoveredInv'
  BY VtxosCovered DEF IInv, ReliableInv
<1>3. CoveredInv => ForfeitsCoverVtxos
  BY DEF CoveredInv
<1>4. Spec => []ReliableInv
  BY OnAReliableStream
<1> QED
  BY <1>1, <1>2, <1>3, <1>4, Invariant, PTL DEF Spec

\* On a reliable stream, the commitment transaction settle returns settled its
\* intent.
THEOREM ResultWasSettled == Reliable => (Spec => []ResultIsSettled)
<1>1. ReliableInv => ResultIsSettled
  BY DEF ReliableInv
<1> QED
  BY <1>1, OnAReliableStream, PTL

-----------------------------------------------------------------------------
(* What settling promises: the refinement of Swap, whatever breaks. *)

Over == pc \in {"deletingIntent"} \cup Ended
Signed == {c[1] : c \in aggregateNonces}
Given == {<<f.input, f.connector[1]>> : f \in forfeits}
Settled == IF intent = "settled" THEN joined ELSE {}

\* What of the wallet the promise is about: what was asked and what was signed.
Pledge == <<inputs, hasOffchainOutputs, aggregateNonces, forfeits>>

\* All other steps pledge nothing, do not go back and are none of the server's.
Beside ==
    /\ UNCHANGED Pledge
    /\ UNCHANGED <<batch, phase, intent, order, joined, received>>
    /\ Over => Over'
    /\ Forfeited => Forfeited'
    /\ pc' = "idle" <=> pc = "idle"

\* A step of settle pledges something, is answered by the server, or is beside.
LEMMA PledgingSteps ==
    ASSUME AwaitsInPlace, [Next]_vars, ~Settle, ~OnTreeNoncesAggregated, ~CoinsRead,
           ~Accept, ~RunBatch
    PROVE  Beside
<1> USE DEF Beside, Pledge, Over, Ended, Forfeited, AwaitsInPlace, serverVars, paramVars,
            submittedVars, sessionVars, clientVars, Send, Listen, Continue, Abort, Answered,
            Threw, LoopAwaits, Awaits
<1>1. CASE Registered \/ RegistrationThrows \/ Confirmed
  BY <1>1 DEF Registered, RegistrationThrows, Confirmed
<1>6. CASE \/ NextEvent \/ IgnoreEvent \/ OnBatchFailed \/ OnBatchStarted \/ OnTreeTx
  BY <1>6 DEF NextEvent, IgnoreEvent, OnBatchFailed, OnBatchStarted, OnTreeTx, On, Handling,
       Expected
<1>2. CASE \/ OnTreeSigningStarted \/ NoncesSubmitted \/ SignaturesSubmitted
           \/ OnTreeSignature \/ OnBatchFinalization
  BY <1>2 DEF OnTreeSigningStarted, NoncesSubmitted, SignaturesSubmitted,
       OnTreeSignature, OnBatchFinalization, On, Handling, Expected, Session!InitAndGetNonces
<1>3. CASE \/ NothingToSubmit \/ ForfeitsSubmitted \/ OnBatchFinalized
           \/ StreamThrows \/ IntentDeleted
  BY <1>3 DEF NothingToSubmit, ForfeitsSubmitted, OnBatchFinalized, On, Handling,
       StreamThrows, IntentDeleted
<1>7. CASE LoopThrows
  <2>1. pc # "idle"
    BY <1>7 DEF LoopThrows, BadContent, NotEnoughConnectors, On, Handling
  <2> QED
    BY <1>7, <2>1 DEF LoopThrows
<1>4. CASE \/ Refuse \/ EmitEvent \/ ErrorWhileReading \/ ErrorWhileBusy
           \/ Reconnect \/ Unroll
  BY <1>4 DEF Refuse, EmitEvent, Server!Emit, ErrorWhileReading, ErrorWhileBusy,
       Reconnect, Unroll
<1>5. CASE UNCHANGED vars
  BY <1>5 DEF vars
<1> QED
  BY <1>1, <1>2, <1>3, <1>4, <1>5, <1>6, <1>7 DEF Next, ClientStep

\* What a batch does on its own.
LEMMA Running ==
    ASSUME RunBatch
    PROVE  /\ UNCHANGED <<Pledge, pc, request, step, order, joined, current>>
           /\ (received' = received /\ batch' = batch) \/ received' = {}
           /\ intent' # "none" => intent # "none"
           /\ phase' = "finalizing" /\ intent' = "confirmed" /\ order.cosigned =>
                "signatures" \in received'
                    \/ (phase = "finalizing" /\ intent = "confirmed" /\ received' = received)
           /\ intent' = "settled" /\ intent # "settled" => Server!EndBatch
           /\ intent = "settled" => intent' = "settled"
<1> USE DEF RunBatch, Pledge, clientVars, streamVars, sessionVars, paramVars, submittedVars
<1>1. CASE Server!StartBatch
  BY <1>1 DEF Server!StartBatch
<1>2. CASE Server!CloseConfirmation
  BY <1>2 DEF Server!CloseConfirmation, Server!LeftBehind
<1>3. CASE Server!AggregateNonces
  BY <1>3 DEF Server!AggregateNonces
<1>4. CASE Server!StartFinalization
  BY <1>4 DEF Server!StartFinalization, Server!Taking
<1>5. CASE Server!EndBatch
  BY <1>5 DEF Server!EndBatch
<1>6. CASE Server!FailBatch
  BY <1>6 DEF Server!FailBatch, Server!LeftBehind
<1> QED
  BY <1>1, <1>2, <1>3, <1>4, <1>5, <1>6 DEF Server!BatchStep

\* What an accepted request does: it is one of these.
LEMMA Accepting ==
    ASSUME Accept
    PROVE  /\ UNCHANGED <<Pledge, pc, step, batch, phase>> /\ request = "sent"
           /\ \/ /\ pc = "registering" /\ Server!RegisterIntent(OrderOf)
                 /\ UNCHANGED <<joined, received>>
              \/ /\ pc = "confirming" /\ Server!ConfirmRegistration
                 /\ UNCHANGED <<order, received>>
              \/ /\ pc \in {"submittingNonces", "submittingSignatures", "submittingForfeits"}
                 /\ intent = "confirmed"
                 /\ UNCHANGED <<intent, order, joined>>
                 /\ received \subseteq received'
                 /\ received' \subseteq received \cup {"nonces", "signatures", "forfeits"}
                 /\ "signatures" \in received' =>
                       \/ "signatures" \in received
                       \/ /\ pc = "submittingSignatures" /\ current.id = batch
                          /\ vtxoGraph = Server!TreeOf(batch, VtxoLeaves)
                 /\ "forfeits" \in received' =>
                       \/ "forfeits" \in received
                       \/ /\ pc = "submittingForfeits"
                          /\ {f.input : f \in forfeits} = order.vtxos
              \/ /\ pc = "deletingIntent" /\ intent = "queued" /\ intent' = "deleted"
                 /\ UNCHANGED <<order, joined, received>>
              \/ UNCHANGED <<intent, order, joined, received>>
<1> USE DEF Accept, Pledge, sessionVars, paramVars, submittedVars
<1>1. CASE pc = "registering" /\ Server!RegisterIntent(OrderOf)
  BY <1>1 DEF Server!RegisterIntent
<1>2. CASE pc = "confirming" /\ Server!ConfirmRegistration
  BY <1>2 DEF Server!ConfirmRegistration
<1>3. CASE pc = "submittingNonces" /\ Server!SubmitTreeNonces(current.id, myNonces)
  BY <1>3 DEF Server!SubmitTreeNonces, Server!Submit
<1>4. CASE pc = "submittingSignatures" /\ Server!SubmitTreeSignatures(current.id, vtxoGraph)
  BY <1>4 DEF Server!SubmitTreeSignatures, Server!Submit
<1>5. CASE /\ pc = "submittingForfeits"
           /\ Server!SubmitForfeits(forfeits, boarding \cap BoardingUtxos # {})
  BY <1>5 DEF Server!SubmitForfeits, Server!Submit
<1>6. CASE pc = "readingCoins" /\ UNCHANGED serverVars
  BY <1>6 DEF serverVars
<1>7. CASE pc = "deletingIntent" /\ Server!DeleteIntent
  BY <1>7 DEF Server!DeleteIntent
<1> QED
  BY <1>1, <1>2, <1>3, <1>4, <1>5, <1>6, <1>7

\* Where the wallet pledges something, and what the other variables do then.
LEMMA Pledging ==
    /\ Settle =>
          /\ pc = "idle" /\ pc' = "registering"
          /\ inputs' \in (SUBSET Coins) \ {{}} /\ hasOffchainOutputs' \in BOOLEAN
          /\ UNCHANGED <<aggregateNonces, forfeits, step>> /\ UNCHANGED serverVars
    /\ OnTreeNoncesAggregated =>
          /\ pc = "listening" /\ step = "TreeSigningStarted" /\ aggregateNonces = {}
          /\ aggregateNonces' = Server!TreeOf(current.id, VtxoLeaves)
          /\ pc' = "submittingSignatures"
          /\ UNCHANGED <<inputs, hasOffchainOutputs, forfeits, step, current>>
          /\ UNCHANGED serverVars
    /\ CoinsRead =>
          /\ pc = "readingCoins" /\ pc' = "submittingForfeits"
          /\ \A f \in forfeits' : f.input \in inputs \cap Vtxos
          /\ UNCHANGED <<inputs, hasOffchainOutputs, aggregateNonces, step, current>>
          /\ UNCHANGED serverVars
<1> USE DEF serverVars, sessionVars, paramVars, submittedVars, streamVars, Send
<1>1. ASSUME Settle
      PROVE  /\ pc = "idle" /\ pc' = "registering"
             /\ inputs' \in (SUBSET Coins) \ {{}} /\ hasOffchainOutputs' \in BOOLEAN
             /\ UNCHANGED <<aggregateNonces, forfeits, step>> /\ UNCHANGED serverVars
  BY <1>1 DEF Settle
<1>2. ASSUME OnTreeNoncesAggregated
      PROVE  /\ pc = "listening" /\ step = "TreeSigningStarted" /\ aggregateNonces = {}
             /\ aggregateNonces' = Server!TreeOf(current.id, VtxoLeaves)
             /\ pc' = "submittingSignatures"
             /\ UNCHANGED <<inputs, hasOffchainOutputs, forfeits, step, current>>
             /\ UNCHANGED serverVars
  BY <1>2 DEF OnTreeNoncesAggregated, On, Handling, Expected, NoncesOf,
       Session!SetAggregatedNoncesAndSign
<1>3. ASSUME CoinsRead
      PROVE  /\ pc = "readingCoins" /\ pc' = "submittingForfeits"
             /\ \A f \in forfeits' : f.input \in inputs \cap Vtxos
             /\ UNCHANGED <<inputs, hasOffchainOutputs, aggregateNonces, step, current>>
             /\ UNCHANGED serverVars
  <2>1. ToForfeit \subseteq inputs \cap Vtxos
    BY DEF ToForfeit, KnownVtxos
  <2>2. PICK f \in ConnectorChoices :
            forfeits' = {[input |-> i, connector |-> f[i]] : i \in ToForfeit}
    BY <1>3 DEF CoinsRead
  <2> QED
    BY <1>3, <2>1, <2>2 DEF CoinsRead, Answered
<1> QED
  BY <1>1, <1>2, <1>3

SwapParts == OrderTaken /\ ForfeitsOnce /\ SignedInPlace /\ ReceivedInPlace

\* Every step keeps the invariant.
LEMMA SwapInductive == SwapInv /\ [Next]_vars => SwapInv'
<1> SUFFICES ASSUME SwapInv, [Next]_vars PROVE SwapInv'
  OBVIOUS
<1>1. IInv /\ IInv'
  BY Inductive DEF SwapInv
<1>2. SwapParts
  BY DEF SwapInv, SwapParts
<1>3. joined \subseteq joined'
  BY <1>1, Components, ServerKeeps DEF IInv
<1> SUFFICES SwapParts'
  BY <1>1 DEF SwapInv, SwapParts
<1> USE <1>2 DEF SwapParts, OrderTaken, ForfeitsOnce, SignedInPlace, ReceivedInPlace
<1>4. CASE Settle
  <2>1. /\ pc = "idle" /\ pc' = "registering" /\ inputs' # {}
        /\ UNCHANGED <<aggregateNonces, forfeits, step>>
        /\ UNCHANGED <<batch, phase, intent, order, joined, received>>
    BY <1>4, Pledging DEF serverVars
  <2>2. step = "none"
    BY <1>1, <2>1 DEF IInv, AwaitsInPlace
  <2>3. ~Forfeited
    BY <2>1, <2>2 DEF Forfeited, Ended
  <2>4. forfeits = {} /\ intent = "none" /\ "forfeits" \notin received
    BY <2>1, <2>3
  <2>5. joined = {}
    BY <1>1, <2>1, <2>2 DEF IInv, NothingJoinedYet, Ended, Answered
  <2>6. aggregateNonces = {}
    BY <2>5
  <2> QED
    BY <2>1, <2>4, <2>6
<1>5. CASE OnTreeNoncesAggregated
  <2>1. /\ pc = "listening" /\ pc' = "submittingSignatures"
        /\ aggregateNonces = {} /\ step = "TreeSigningStarted"
        /\ aggregateNonces' = Server!TreeOf(current.id, VtxoLeaves)
        /\ UNCHANGED <<inputs, hasOffchainOutputs, forfeits, step, current>>
        /\ UNCHANGED <<batch, phase, intent, order, joined, received>>
    BY <1>5, Pledging DEF serverVars
  <2>2. ~Forfeited /\ hasOffchainOutputs
    BY <1>1, <2>1 DEF Forfeited, Ended, IInv, AwaitsInPlace
  <2>3. current.id \in joined /\ \A c \in aggregateNonces' : c[1] = current.id
    BY <1>1, <2>1 DEF IInv, CosignsJoinedBatch, Server!TreeOf
  <2>4. forfeits = {} /\ "forfeits" \notin received /\ "signatures" \notin received
    BY <2>1, <2>2
  <2>5. OrderOf' = OrderOf
    BY <2>1 DEF OrderOf
  <2> QED
    BY <2>1, <2>2, <2>3, <2>4, <2>5
<1>6. CASE CoinsRead
  <2>1. /\ pc = "readingCoins" /\ pc' = "submittingForfeits"
        /\ \A f \in forfeits' : f.input \in inputs \cap Vtxos
        /\ UNCHANGED <<inputs, hasOffchainOutputs, aggregateNonces, step, current>>
        /\ UNCHANGED <<batch, phase, intent, order, joined, received>>
    BY <1>6, Pledging DEF serverVars
  <2>2. ~Forfeited /\ Forfeited'
    BY <1>1, <2>1 DEF Forfeited, Ended, IInv, AwaitsInPlace
  <2>3. \A f \in forfeits' : f.connector[1] \in joined'
    BY <1>1, <2>1 DEF IInv, ForfeitsToJoinedBatch
  <2>4. OrderOf' = OrderOf
    BY <2>1 DEF OrderOf
  <2> QED
    BY <2>1, <2>2, <2>3, <2>4
<1>7. CASE Accept
  <2>1. UNCHANGED <<inputs, hasOffchainOutputs, aggregateNonces, forfeits, pc, step, batch, phase>>
    BY <1>7, Accepting DEF Pledge
  <2>2. OrderOf' = OrderOf /\ (Forfeited' <=> Forfeited)
    BY <2>1 DEF OrderOf, Forfeited
  <2>3. CASE /\ pc = "registering" /\ Server!RegisterIntent(OrderOf)
             /\ UNCHANGED <<joined, received>>
    <3>1. ~Forfeited
      BY <1>1, <2>3 DEF Forfeited, Ended, IInv, AwaitsInPlace
    <3>2. forfeits = {} /\ "forfeits" \notin received
      BY <3>1
    <3> QED
      BY <2>1, <2>2, <2>3, <3>2 DEF Server!RegisterIntent
  <2>4. CASE /\ pc = "confirming" /\ Server!ConfirmRegistration
             /\ UNCHANGED <<order, received>>
    BY <1>3, <2>1, <2>2, <2>4 DEF Server!ConfirmRegistration
  <2>5. CASE /\ pc \in {"submittingNonces", "submittingSignatures", "submittingForfeits"}
             /\ intent = "confirmed"
             /\ UNCHANGED <<intent, order, joined>>
             /\ received \subseteq received'
             /\ received' \subseteq received \cup {"nonces", "signatures", "forfeits"}
             /\ "signatures" \in received' =>
                   \/ "signatures" \in received
                   \/ /\ pc = "submittingSignatures" /\ current.id = batch
                      /\ vtxoGraph = Server!TreeOf(batch, VtxoLeaves)
             /\ "forfeits" \in received' =>
                   \/ "forfeits" \in received
                   \/ /\ pc = "submittingForfeits"
                      /\ {f.input : f \in forfeits} = order.vtxos
    <3>1. ASSUME "signatures" \in received' PROVE \E c \in aggregateNonces : c[1] = batch
      <4>1. CASE "signatures" \in received
        BY <4>1
      <4>2. CASE pc = "submittingSignatures" /\ vtxoGraph = Server!TreeOf(batch, VtxoLeaves)
        <5>1. vtxoGraph \subseteq aggregateNonces
          BY <1>1, <4>2 DEF IInv, TreeBehindStep
        <5>2. <<batch, 0>> \in vtxoGraph
          BY <4>2, SettlementAssumption DEF Server!TreeOf
        <5> QED
          BY <5>1, <5>2
      <4> QED
        BY <2>5, <3>1, <4>1, <4>2
    <3>2. "forfeits" \in received' => Forfeited /\ {f.input : f \in forfeits} = order.vtxos
      BY <2>5 DEF Forfeited
    <3> QED
      BY <2>1, <2>2, <2>5, <3>1, <3>2
  <2>6. CASE /\ pc = "deletingIntent" /\ intent = "queued" /\ intent' = "deleted"
             /\ UNCHANGED <<order, joined, received>>
    BY <2>1, <2>2, <2>6
  <2>7. CASE UNCHANGED <<intent, order, joined, received>>
    BY <2>1, <2>2, <2>7
  <2> QED
    BY <1>7, Accepting, <2>3, <2>4, <2>5, <2>6, <2>7
<1>8. CASE RunBatch
  <2>1. UNCHANGED <<inputs, hasOffchainOutputs, aggregateNonces, forfeits, pc, step, order, joined>>
    BY <1>8, Running DEF Pledge
  <2>2. OrderOf' = OrderOf /\ (Forfeited' <=> Forfeited)
    BY <2>1 DEF OrderOf, Forfeited
  <2>3. /\ (received' = received /\ batch' = batch) \/ received' = {}
        /\ intent' # "none" => intent # "none"
        /\ phase' = "finalizing" /\ intent' = "confirmed" /\ order.cosigned =>
             \/ "signatures" \in received'
             \/ phase = "finalizing" /\ intent = "confirmed" /\ received' = received
    BY <1>8, Running
  <2>4. OrderTaken'
    BY <2>1, <2>2, <2>3
  <2>5. ForfeitsOnce' /\ SignedInPlace'
    <3>1. "forfeits" \in received' => "forfeits" \in received
      BY <2>3
    <3>2. forfeits' # {} \/ "forfeits" \in received' => Forfeited'
      BY <2>1, <2>2, <3>1
    <3> QED
      BY <2>1, <3>2
  <2>6. ReceivedInPlace'
    <3>1. CASE received' = {}
      BY <2>1, <2>3, <3>1
    <3>2. CASE received' = received /\ batch' = batch
      BY <2>1, <2>3, <3>2
    <3> QED
      BY <2>3, <3>1, <3>2
  <2> QED
    BY <2>4, <2>5, <2>6
<1>9. CASE ~Settle /\ ~OnTreeNoncesAggregated /\ ~CoinsRead /\ ~Accept /\ ~RunBatch
  <2>1. Beside
    BY <1>1, <1>9, PledgingSteps DEF IInv
  <2>2. OrderOf' = OrderOf
    BY <2>1 DEF OrderOf, Beside, Pledge
  <2>3. /\ UNCHANGED <<inputs, hasOffchainOutputs, aggregateNonces, forfeits>>
        /\ UNCHANGED <<batch, phase, intent, order, joined, received>>
        /\ Forfeited => Forfeited'
        /\ pc' = "idle" <=> pc = "idle"
    BY <2>1 DEF Beside, Pledge
  <2>4. OrderTaken' /\ SignedInPlace' /\ ReceivedInPlace'
    BY <2>2, <2>3
  <2>5. ForfeitsOnce'
    BY <2>3
  <2> QED
    BY <2>4, <2>5
<1> QED
  BY <1>4, <1>5, <1>6, <1>7, <1>8, <1>9

\* It holds at first: nothing is asked or signed.
LEMMA SwapInit == Init => SwapInv /\ Promise!Init
<1> SUFFICES ASSUME Init PROVE SwapInv /\ Promise!Init
  OBVIOUS
<1> USE DEF Init, Server!ServerInit, Session!SessionInit
<1>1. OrderTaken /\ ForfeitsOnce /\ SignedInPlace /\ ReceivedInPlace
  BY DEF OrderTaken, ForfeitsOnce, SignedInPlace, ReceivedInPlace
<1>2. IInv
  BY InitInv
<1>3. (pc \in {"deletingIntent"} \cup Ended) = FALSE
  BY DEF Ended
<1> QED
  BY <1>1, <1>2, <1>3 DEF SwapInv, Promise!Init

\* What is pledged to one batch.
LEMMA OneBatch ==
    ASSUME JoinsOnce, SignedInPlace, NEW b \in joined
    PROVE  /\ joined = {b}
           /\ aggregateNonces # {} => Signed = {b}
BY DEF JoinsOnce, SignedInPlace, Signed

\* Asking.
LEMMA SettleAsks ==
    ASSUME SwapInv, Settle
    PROVE  Promise!Ask
<1>1. /\ pc = "idle" /\ pc' = "registering"
      /\ inputs' # {} /\ hasOffchainOutputs' \in BOOLEAN
      /\ UNCHANGED <<aggregateNonces, forfeits, joined, intent>>
  BY Pledging DEF serverVars
<1>2. inputs = {}
  BY <1>1 DEF SwapInv, ForfeitsOnce
<1>3. UNCHANGED <<Signed, Given, Settled>> /\ ~Over /\ ~Over'
  BY <1>1 DEF Signed, Given, Settled, Over, Ended
<1> QED
  BY <1>1, <1>2, <1>3 DEF Promise!Ask, Signed, Given, Settled, Over

\* Signing the tree.
LEMMA NoncesSign ==
    ASSUME SwapInv, IInv', OnTreeNoncesAggregated
    PROVE  Promise!Sign(current.id)
<1>1. /\ pc = "listening" /\ step = "TreeSigningStarted" /\ aggregateNonces = {}
      /\ aggregateNonces' = Server!TreeOf(current.id, VtxoLeaves)
      /\ pc' = "submittingSignatures"
      /\ UNCHANGED <<inputs, hasOffchainOutputs, forfeits, current, joined, intent>>
  BY Pledging DEF serverVars
<1>2. hasOffchainOutputs /\ forfeits = {}
  BY <1>1 DEF SwapInv, IInv, AwaitsInPlace, ForfeitsOnce, Forfeited, Ended
<1>3. current.id \in joined
  BY <1>1 DEF IInv, CosignsJoinedBatch
<1>4. joined = {current.id}
  BY <1>3 DEF SwapInv, IInv, JoinsOnce
<1>5. Signed = {} /\ Signed' = {current.id}
  <2>1. <<current.id, 0>> \in aggregateNonces' /\ \A c \in aggregateNonces' : c[1] = current.id
    BY <1>1, SettlementAssumption DEF Server!TreeOf
  <2> QED
    BY <1>1, <2>1 DEF Signed
<1>6. Given = {} /\ UNCHANGED <<Given, Settled>> /\ ~Over /\ ~Over'
  BY <1>1, <1>2 DEF Given, Settled, Over, Ended
<1> QED
  BY <1>1, <1>2, <1>4, <1>5, <1>6 DEF Promise!Sign, Signed, Given, Settled, Over

\* Giving the vtxos, unless there is none.
LEMMA ForfeitsGive ==
    ASSUME SwapInv, SwapInv', CoinsRead
    PROVE  Promise!Give(current.id) \/ UNCHANGED Promise!swapVars
<1>1. /\ pc = "readingCoins" /\ pc' = "submittingForfeits"
      /\ \A f \in forfeits' : f.input \in inputs \cap Vtxos
      /\ UNCHANGED <<inputs, hasOffchainOutputs, aggregateNonces, current, joined, intent>>
  BY Pledging DEF serverVars
<1>2. forfeits = {}
  BY <1>1 DEF SwapInv, IInv, AwaitsInPlace, ForfeitsOnce, Forfeited, Ended
<1>3. Given = {} /\ UNCHANGED <<Signed, Settled>> /\ ~Over /\ ~Over'
  BY <1>1, <1>2 DEF Given, Signed, Settled, Over, Ended
<1>4. CASE forfeits' = {}
  <2>1. Given' = Given
    BY <1>2, <1>4 DEF Given
  <2> QED
    BY <1>1, <1>3, <2>1 DEF Promise!swapVars, Signed, Given, Settled, Over
<1>5. CASE forfeits' # {}
  <2>1. /\ current.id \in joined
        /\ \A f \in forfeits' : f.connector[1] = current.id
        /\ hasOffchainOutputs => aggregateNonces # {}
    BY <1>1, <1>5 DEF SwapInv, IInv, ForfeitsToJoinedBatch
  <2>2. joined = {current.id} /\ (hasOffchainOutputs => Signed = {current.id})
    BY <2>1, OneBatch DEF SwapInv, IInv
  <2> DEFINE coins == {f.input : f \in forfeits'}
  <2>3. coins \in SUBSET (inputs \cap Vtxos) /\ Given' = coins \X {current.id}
    BY <1>1, <2>1 DEF Given
  <2>4. \E cs \in SUBSET (inputs \cap Vtxos) : Given' = cs \X {current.id}
    BY <2>3
  <2>5. UNCHANGED <<inputs, hasOffchainOutputs, joined, Signed, Settled, Over>>
    BY <1>1, <1>3 DEF Over
  <2>6. Promise!Give(current.id)
    BY <1>3, <2>2, <2>4, <2>5, Zenon DEF Promise!Give, Signed, Given, Settled, Over
  <2> QED
    BY <2>6
<1> QED
  BY <1>4, <1>5

\* A confirmation is the agreement to a batch; no other request counts.
LEMMA AcceptJoins ==
    ASSUME SwapInv, Accept
    PROVE  Promise!Join(batch) \/ UNCHANGED Promise!swapVars
<1>1. UNCHANGED <<inputs, hasOffchainOutputs, aggregateNonces, forfeits, pc>> /\ request = "sent"
  BY Accepting DEF Pledge
<1>2. UNCHANGED <<Signed, Given, Over>>
  BY <1>1 DEF Signed, Given, Over
<1>3. CASE pc = "confirming" /\ Server!ConfirmRegistration
  <2>1. joined = {} /\ inputs # {} /\ ~Over
    BY <1>1, <1>3 DEF SwapInv, IInv, NothingJoinedYet, AwaitsInPlace, ForfeitsOnce, Ended,
       Answered, Over
  <2>2. joined' = {batch} /\ Settled = {} /\ Settled' = {}
    BY <1>3, <2>1 DEF Server!ConfirmRegistration, Settled
  <2>3. UNCHANGED <<inputs, hasOffchainOutputs, Signed, Given, Settled, Over>>
    BY <1>1, <1>2, <2>2
  <2>4. Promise!Join(batch)
    BY <2>1, <2>2, <2>3, Zenon DEF Promise!Join, Signed, Given, Settled, Over
  <2> QED
    BY <2>4
<1>4. CASE UNCHANGED joined /\ (intent = "settled" <=> intent' = "settled")
  <2>1. UNCHANGED Settled
    BY <1>4 DEF Settled
  <2>2. UNCHANGED <<inputs, hasOffchainOutputs, joined, Signed, Given, Settled, Over>>
    BY <1>1, <1>2, <1>4, <2>1
  <2> QED
    BY <2>2 DEF Promise!swapVars, Signed, Given, Settled, Over
<1> QED
  BY <1>3, <1>4, Accepting DEF Server!RegisterIntent

\* A batch that settles the intent is the one that was joined, and has all of it.
LEMMA RunSettles ==
    ASSUME SwapInv, RunBatch
    PROVE  Promise!Settle(batch) \/ UNCHANGED Promise!swapVars
<1>1. UNCHANGED <<inputs, hasOffchainOutputs, aggregateNonces, forfeits, pc, order, joined>>
  BY Running DEF Pledge
<1>2. UNCHANGED <<Signed, Given, Over>>
  BY <1>1 DEF Signed, Given, Over
<1>3. CASE intent' = "settled" /\ intent # "settled"
  <2>1. Server!EndBatch
    BY <1>3, Running
  <2>2. phase = "finalizing" /\ intent = "confirmed" /\ batch \in joined
    BY <1>3, <2>1 DEF Server!EndBatch, SwapInv, IInv, IntentFollowsPhase
  <2>3. joined = {batch} /\ (aggregateNonces # {} => Signed = {batch})
    BY <2>2, OneBatch DEF SwapInv, IInv
  <2>4. order.cosigned = hasOffchainOutputs /\ order.vtxos = inputs \cap Vtxos
    BY <2>2 DEF SwapInv, OrderTaken, OrderOf
  <2>5. hasOffchainOutputs => Signed = {batch}
    BY <2>2, <2>3, <2>4 DEF SwapInv, ReceivedInPlace
  <2>6. {f.input : f \in forfeits} = inputs \cap Vtxos
    <3>1. CASE order.vtxos # {}
      <4>1. "forfeits" \in received
        BY <2>1, <2>2, <3>1 DEF Server!EndBatch, Server!Taking
      <4> QED
        BY <2>4, <4>1 DEF SwapInv, ReceivedInPlace
    <3>2. CASE order.vtxos = {}
      BY <2>4, <3>2 DEF SwapInv, ForfeitsOnce
    <3> QED
      BY <3>1, <3>2
  <2>7. Given = (inputs \cap Vtxos) \X {batch}
    <3>1. \A f \in forfeits : f.connector[1] = batch
      BY <2>3 DEF SwapInv, ForfeitsOnce
    <3> QED
      BY <2>6, <3>1 DEF Given
  <2>8. Settled = {} /\ Settled' = {batch}
    BY <1>1, <1>3, <2>3 DEF Settled
  <2>9. UNCHANGED <<inputs, hasOffchainOutputs, joined, Signed, Given, Over>>
    BY <1>1, <1>2
  <2>10. Promise!Settle(batch)
    BY <2>3, <2>5, <2>7, <2>8, <2>9, Zenon DEF Promise!Settle, Signed, Given, Settled, Over
  <2> QED
    BY <2>10
<1>4. CASE intent' = "settled" <=> intent = "settled"
  <2>1. UNCHANGED Settled
    BY <1>1, <1>4 DEF Settled
  <2>2. UNCHANGED <<inputs, hasOffchainOutputs, joined, Signed, Given, Settled, Over>>
    BY <1>1, <1>2, <2>1
  <2> QED
    BY <2>2 DEF Promise!swapVars, Signed, Given, Settled, Over
<1> QED
  BY <1>3, <1>4, Running

\* Every step of the settlement is one of the promise, or none.
LEMMA SwapStep ==
    ASSUME SwapInv, SwapInv', [Next]_vars
    PROVE  [Promise!Next]_(Promise!swapVars)
<1>1. batch \in joined' \/ batch \in joined => batch \in Server!Batch
  BY DEF SwapInv, IInv, TypeOK, Server!ServerTypeOK
<1>2. current.id \in joined => current.id \in Server!Batch
  BY DEF SwapInv, IInv, TypeOK, Server!ServerTypeOK
<1>3. CASE Settle
  BY <1>3, SettleAsks DEF Promise!Next
<1>4. CASE OnTreeNoncesAggregated
  <2>1. Promise!Sign(current.id)
    BY <1>4, NoncesSign DEF SwapInv
  <2> QED
    BY <1>2, <2>1 DEF Promise!Next, Promise!Sign
<1>5. CASE CoinsRead
  <2>1. Promise!Give(current.id) \/ UNCHANGED Promise!swapVars
    BY <1>5, ForfeitsGive
  <2> QED
    BY <1>2, <2>1 DEF Promise!Next, Promise!Give
<1>6. CASE Accept
  <2>1. Promise!Join(batch) \/ UNCHANGED Promise!swapVars
    BY <1>6, AcceptJoins
  <2> QED
    BY <1>1, <2>1 DEF Promise!Next, Promise!Join
<1>7. CASE RunBatch
  <2>1. Promise!Settle(batch) \/ UNCHANGED Promise!swapVars
    BY <1>7, RunSettles
  <2> QED
    BY <1>1, <2>1 DEF Promise!Next, Promise!Settle
<1>8. CASE ~Settle /\ ~OnTreeNoncesAggregated /\ ~CoinsRead /\ ~Accept /\ ~RunBatch
  <2>1. Beside
    BY <1>8, PledgingSteps DEF SwapInv, IInv
  <2>2. UNCHANGED <<inputs, hasOffchainOutputs, joined, Signed, Given, Settled>>
    BY <2>1 DEF Beside, Pledge, Signed, Given, Settled
  <2>3. CASE ~Over /\ Over'
    <3>1. Promise!Leave
      <4>1. (pc \in {"deletingIntent"} \cup Ended)' = TRUE
        BY <2>3 DEF Over
      <4> QED
        BY <2>2, <2>3, <4>1, Zenon DEF Promise!Leave, Signed, Given, Settled, Over
    <3> QED
      BY <3>1 DEF Promise!Next
  <2>4. CASE Over <=> Over'
    <3>1. UNCHANGED <<inputs, hasOffchainOutputs, joined, Signed, Given, Settled, Over>>
      BY <2>2, <2>4 DEF Over
    <3> QED
      BY <3>1 DEF Promise!swapVars, Signed, Given, Settled, Over
  <2> QED
    BY <2>1, <2>3, <2>4 DEF Beside
<1> QED
  BY <1>3, <1>4, <1>5, <1>6, <1>7, <1>8

\* Whatever breaks, a settlement implements the promise of Swap: the vtxos are
\* forfeited once, to the one batch that was joined and cosigned, and no other
\* batch settles the intent, nor that one without all of them.
THEOREM SettlementSwaps == Spec => SwapSpec
<1>1. Init => SwapInv /\ Promise!Init
  BY SwapInit
<1>2. SwapInv /\ [Next]_vars => SwapInv'
  BY SwapInductive
<1>3. SwapInv /\ SwapInv' /\ [Next]_vars => [Promise!Next]_(Promise!swapVars)
  BY SwapStep
<1>4. Spec => []SwapInv
  BY <1>1, <1>2, PTL DEF Spec
<1>5. Init /\ [][Next]_vars /\ []SwapInv => Promise!Init /\ [][Promise!Next]_(Promise!swapVars)
  BY <1>1, <1>3, PTL
<1> QED
  BY <1>4, <1>5 DEF Spec, SwapSpec, Promise!Spec

-----------------------------------------------------------------------------
\* Chunks of trees that have so many leaves.
ChunksOf(chunks, leaves) == chunks \subseteq Nat \X (0 .. leaves)

\* A chunk is numbered by its batch and its place.
LEMMA ChunkNumbers ==
    ASSUME NEW leaves \in Nat, NEW chunks, ChunksOf(chunks, leaves), NEW c \in chunks
    PROVE  c = <<c[1], c[2]>> /\ c[1] \in Nat /\ c[2] \in 0 .. leaves /\ c[2] \in Nat
BY DEF ChunksOf

\* The children of a root are the leaves that have come; a leaf has none.
LEMMA ChildrenOfTrees ==
    ASSUME NEW leaves \in Nat, NEW chunks, ChunksOf(chunks, leaves), NEW output,
           NEW c \in chunks
    PROVE  /\ c[2] = 0 =>
                 ChildOutputs(NodesOfTrees(chunks, leaves, output), c) =
                     {i \in 0 .. leaves - 1 : <<c[1], i + 1>> \in chunks}
           /\ c[2] # 0 => ChildOutputs(NodesOfTrees(chunks, leaves, output), c) = {}
<1> DEFINE nodes == NodesOfTrees(chunks, leaves, output)
<1>1. DOMAIN nodes = chunks
  BY DEF NodesOfTrees
<1>2. CASE c[2] = 0
  <2>1. nodes[c].children = [i \in 0 .. leaves - 1 |-> <<c[1], i + 1>>]
    BY <1>2 DEF NodesOfTrees
  <2> HIDE DEF nodes
  <2> QED
    BY <1>1, <1>2, <2>1 DEF ChildOutputs, nodes
<1>3. CASE c[2] # 0
  <2>1. nodes[c].children = <<>>
    BY <1>3 DEF NodesOfTrees
  <2>2. DOMAIN nodes[c].children = {}
    BY <2>1
  <2> QED
    BY <1>3, <2>2 DEF ChildOutputs
<1> QED
  BY <1>2, <1>3

\* The transaction at an output of a root is the next leaf.
LeafAt(branch) == <<branch[1][1], branch[2] + 1>>

\* No other is at a branch.
LEMMA BranchesOfTrees ==
    ASSUME NEW leaves \in Nat, NEW chunks, ChunksOf(chunks, leaves), NEW output,
           NEW branch \in Branches(NodesOfTrees(chunks, leaves, output))
    PROVE  /\ branch[1] \in chunks /\ branch[1][2] = 0
           /\ branch[2] \in 0 .. leaves - 1
           /\ ChildAt(NodesOfTrees(chunks, leaves, output), branch) = LeafAt(branch)
           /\ LeafAt(branch) \in chunks
<1> DEFINE nodes == NodesOfTrees(chunks, leaves, output)
           t == branch[1]
           i == branch[2]
<1>1. DOMAIN nodes = chunks
  BY DEF NodesOfTrees
<1>2. /\ branch = <<t, i>> /\ t \in chunks /\ i \in ChildOutputs(nodes, t)
      /\ ChildAt(nodes, branch) = nodes[t].children[i]
  <2> HIDE DEF nodes
  <2> QED
    BY <1>1, BranchEnds DEF nodes
<1>3. t = <<t[1], t[2]>> /\ t[1] \in Nat
  BY <1>2, ChunkNumbers
<1>4. t[2] = 0 /\ i \in 0 .. leaves - 1 /\ <<t[1], i + 1>> \in chunks
  BY <1>2, ChildrenOfTrees
<1>5. nodes[t].children[i] = <<t[1], i + 1>>
  BY <1>2, <1>4 DEF NodesOfTrees
<1> QED
  BY <1>2, <1>3, <1>4, <1>5 DEF LeafAt

\* A leaf whose root has come is at a branch.
LEMMA LeafAtBranch ==
    ASSUME NEW leaves \in Nat, NEW chunks, ChunksOf(chunks, leaves), NEW output,
           NEW b, NEW n \in 1 .. leaves, <<b, 0>> \in chunks, <<b, n>> \in chunks
    PROVE  /\ <<<<b, 0>>, n - 1>> \in Branches(NodesOfTrees(chunks, leaves, output))
           /\ ChildAt(NodesOfTrees(chunks, leaves, output), <<<<b, 0>>, n - 1>>) = <<b, n>>
           /\ HasChild(NodesOfTrees(chunks, leaves, output)[<<b, 0>>], <<b, n>>)
<1> DEFINE nodes == NodesOfTrees(chunks, leaves, output)
<1>1. DOMAIN nodes = chunks
  BY DEF NodesOfTrees
<1>2. n - 1 \in 0 .. leaves - 1 /\ n - 1 + 1 = n
  OBVIOUS
<1>3. nodes[<<b, 0>>].children = [i \in 0 .. leaves - 1 |-> <<b, i + 1>>]
  BY DEF NodesOfTrees
<1>4. nodes[<<b, 0>>].children[n - 1] = <<b, n>> /\ n - 1 \in DOMAIN nodes[<<b, 0>>].children
  BY <1>2, <1>3
<1> HIDE DEF nodes
<1>5. n - 1 \in ChildOutputs(nodes, <<b, 0>>)
  BY <1>1, <1>4 DEF ChildOutputs
<1>6. <<<<b, 0>>, n - 1>> \in {<<b, 0>>} \X ChildOutputs(nodes, <<b, 0>>)
  BY <1>5
<1>7. <<<<b, 0>>, n - 1>> \in Branches(nodes)
  BY <1>1, <1>6 DEF Branches
<1>8. ChildAt(nodes, <<<<b, 0>>, n - 1>>) = <<b, n>> /\ HasChild(nodes[<<b, 0>>], <<b, n>>)
  BY <1>4 DEF ChildAt, HasChild
<1> QED
  BY <1>7, <1>8 DEF nodes

\* What no chunk names as a child: the roots, and the leaves without one.
LEMMA RootsOfTrees ==
    ASSUME NEW leaves \in Nat, NEW chunks, ChunksOf(chunks, leaves), NEW output
    PROVE  RootTxids(NodesOfTrees(chunks, leaves, output)) =
               {c \in chunks : c[2] = 0 \/ <<c[1], 0>> \notin chunks}
<1> DEFINE nodes == NodesOfTrees(chunks, leaves, output)
<1>1. DOMAIN nodes = chunks
  BY DEF NodesOfTrees
<1>2. ASSUME NEW t \in chunks, NEW u \in chunks, HasChild(nodes[u], t)
      PROVE  t[2] # 0 /\ <<t[1], 0>> \in chunks
  <2>1. u[2] = 0
    <3>1. CASE u[2] # 0
      <4>1. nodes[u].children = <<>>
        BY <3>1 DEF NodesOfTrees
      <4>2. DOMAIN nodes[u].children = {}
        BY <4>1
      <4> QED
        BY <1>2, <4>2 DEF HasChild
    <3> QED
      BY <3>1
  <2>2. nodes[u].children = [i \in 0 .. leaves - 1 |-> <<u[1], i + 1>>]
    BY <2>1 DEF NodesOfTrees
  <2>3. PICK i \in 0 .. leaves - 1 : t = <<u[1], i + 1>>
    <3> HIDE DEF nodes
    <3> QED
      BY <1>2, <2>2 DEF HasChild
  <2>4. u = <<u[1], 0>>
    BY <2>1, ChunkNumbers
  <2> QED
    BY <2>3, <2>4
<1>3. ASSUME NEW t \in chunks, t[2] # 0, <<t[1], 0>> \in chunks
      PROVE  \E u \in chunks \ {t} : HasChild(nodes[u], t)
  <2>1. t = <<t[1], t[2]>> /\ t[2] \in 1 .. leaves
    BY <1>3, ChunkNumbers
  <2>2. HasChild(nodes[<<t[1], 0>>], t)
    <3> HIDE DEF nodes
    <3>1. <<t[1], t[2]>> \in chunks
      BY <2>1
    <3>2. HasChild(nodes[<<t[1], 0>>], <<t[1], t[2]>>)
      BY <1>3, <2>1, <3>1, LeafAtBranch DEF nodes
    <3> QED
      BY <2>1, <3>2
  <2>3. <<t[1], 0>> # t
    BY <1>3, <2>1
  <2> QED
    BY <1>3, <2>2, <2>3
<1>4. ASSUME NEW t \in chunks
      PROVE  (\A u \in chunks \ {t} : ~HasChild(nodes[u], t)) <=>
                 (t[2] = 0 \/ <<t[1], 0>> \notin chunks)
  <2> HIDE DEF nodes
  <2> QED
    BY <1>2, <1>3
<1>5. RootTxids(nodes) = {c \in chunks : c[2] = 0 \/ <<c[1], 0>> \notin chunks}
  <2> HIDE DEF nodes
  <2> QED
    BY <1>1, <1>4 DEF RootTxids
<1> QED
  BY <1>5

-----------------------------------------------------------------------------
\* As many leaves as there are, each worth 1.
LEMMA SumOfOnes ==
    ASSUME NEW S, IsFiniteSet(S), NEW f, \A x \in S : f[x] = 1
    PROVE  SumFunctionOnSet(f, S) = Cardinality(S)
<1> DEFINE X == {T \in SUBSET S : SumFunctionOnSet(f, T) = Cardinality(T)}
<1>1. {} \in X
  BY SumEmpty, FS_EmptySet
<1>2. ASSUME NEW T \in SUBSET S, NEW x \in S \ T, T \in X
      PROVE  T \cup {x} \in X
  <2>1. IsFiniteSet(T)
    BY FS_Subset
  <2>2. Cardinality(T) \in Nat /\ Cardinality(T \cup {x}) = Cardinality(T) + 1
    BY <2>1, FS_CardinalityType, FS_AddElement
  <2>3. SumFunctionOnSet(f, T \cup {x}) = f[x] + SumFunctionOnSet(f, T)
    <3>1. \A y \in T \cup {x} : f[y] \in Int
      OBVIOUS
    <3> QED
      BY <2>1, <3>1, SumAdd
  <2>4. f[x] = 1 /\ SumFunctionOnSet(f, T) = Cardinality(T)
    BY <1>2
  <2> QED
    BY <2>2, <2>3, <2>4
<1>3. S \in X
  <2> HIDE DEF X
  <2> QED
    BY <1>1, <1>2, SetInduction
<1> QED
  BY <1>3

\* A leaf is worth 1, a root as much as its leaves.
LEMMA WorthOfTrees ==
    ASSUME NEW leaves \in Nat, NEW chunks, NEW output, NEW c \in chunks
    PROVE  OutputsSum(NodesOfTrees(chunks, leaves, output)[c]) = IF c[2] = 0 THEN leaves ELSE 1
<1> DEFINE nodes == NodesOfTrees(chunks, leaves, output)
<1>1. CASE c[2] = 0
  <2> DEFINE f == [i \in 0 .. leaves |-> IF i = leaves THEN 0 ELSE 1]
             S == 0 .. leaves - 1
  <2>1. nodes[c].outputs = f /\ DOMAIN f = 0 .. leaves
    BY <1>1 DEF NodesOfTrees
  <2>2. 0 .. leaves = S \cup {leaves} /\ leaves \notin S
    OBVIOUS
  <2>3. IsFiniteSet(S) /\ Cardinality(S) = leaves
    <3>1. 0 \in Int /\ leaves - 1 \in Int /\ (0 > leaves - 1 <=> leaves = 0) /\ leaves - 1 - 0 + 1 = leaves
      OBVIOUS
    <3> QED
      BY <3>1, FS_Interval
  <2>4. f[leaves] = 0 /\ (\A x \in S : f[x] = 1) /\ \A x \in S \cup {leaves} : f[x] \in Int
    OBVIOUS
  <2>5. SumFunctionOnSet(f, S \cup {leaves}) = f[leaves] + SumFunctionOnSet(f, S)
    <3> HIDE DEF f, S
    <3> QED
      BY <2>2, <2>3, <2>4, SumAdd
  <2>6. SumFunctionOnSet(f, S) = leaves
    <3> HIDE DEF f, S
    <3> QED
      BY <2>3, <2>4, SumOfOnes
  <2>7. SumFunctionOnSet(f, DOMAIN f) = leaves
    <3>1. DOMAIN f = S \cup {leaves}
      BY <2>1, <2>2
    <3> HIDE DEF f, S
    <3>2. SumFunctionOnSet(f, S \cup {leaves}) = 0 + leaves
      BY <2>4, <2>5, <2>6
    <3> QED
      BY <3>1, <3>2
  <2> QED
    BY <1>1, <2>1, <2>7 DEF OutputsSum, SumFunction
<1>2. CASE c[2] # 0
  <2> DEFINE f == [i \in 0 .. 1 |-> 1 - i]
  <2>1. nodes[c].outputs = f /\ DOMAIN f = 0 .. 1
    BY <1>2 DEF NodesOfTrees
  <2>2. 0 .. 1 = {0} \cup {1} /\ f[0] = 1 /\ f[1] = 0
    OBVIOUS
  <2>3. IsFiniteSet({0}) /\ Cardinality({0}) = 1
    BY FS_Singleton
  <2>4. SumFunctionOnSet(f, {0} \cup {1}) = f[1] + SumFunctionOnSet(f, {0})
    <3>1. 1 \notin {0} /\ \A x \in {0} \cup {1} : f[x] \in Int
      OBVIOUS
    <3> HIDE DEF f
    <3> QED
      BY <2>3, <3>1, SumAdd
  <2>5. SumFunctionOnSet(f, {0}) = 1
    <3>1. \A x \in {0} : f[x] = 1
      OBVIOUS
    <3> HIDE DEF f
    <3> QED
      BY <2>3, <3>1, SumOfOnes
  <2>6. SumFunctionOnSet(f, DOMAIN f) = 1
    <3> HIDE DEF f
    <3> QED
      BY <2>1, <2>2, <2>4, <2>5
  <2> QED
    BY <1>2, <2>1, <2>6 DEF OutputsSum, SumFunction
<1> QED
  BY <1>1, <1>2

\* Every transaction of such trees is valid with what hangs from it.
LEMMA TreesValid ==
    ASSUME NEW leaves \in Nat, NEW chunks, ChunksOf(chunks, leaves), NEW output,
           NEW c \in chunks
    PROVE  ValidNode(NodesOfTrees(chunks, leaves, output), c)
<1> DEFINE nodes == NodesOfTrees(chunks, leaves, output)
<1>1. Len(nodes[c].inputs) = 1
  BY DEF NodesOfTrees
<1>2. CASE c[2] # 0
  <2>1. ChildOutputs(nodes, c) = {}
    BY <1>2, ChildrenOfTrees
  <2>2. DOMAIN nodes[c].outputs = 0 .. 1
    BY <1>2 DEF NodesOfTrees
  <2>3. Cardinality(0 .. 1) = 2 /\ Cardinality({}) = 0
    <3>1. 0 \in Int /\ 1 \in Int /\ ~(0 > 1) /\ 1 - 0 + 1 = 2
      OBVIOUS
    <3> QED
      BY <3>1, FS_Interval, FS_EmptySet
  <2> HIDE DEF nodes
  <2> QED
    BY <1>1, <2>1, <2>2, <2>3 DEF ValidNode, nodes
<1>3. CASE c[2] = 0
  <2> DEFINE below == ChildOutputs(nodes, c)
  <2>1. below = {i \in 0 .. leaves - 1 : <<c[1], i + 1>> \in chunks}
    BY <1>3, ChildrenOfTrees
  <2>2. /\ nodes[c].outputs = [i \in 0 .. leaves |-> IF i = leaves THEN 0 ELSE 1]
        /\ nodes[c].children = [i \in 0 .. leaves - 1 |-> <<c[1], i + 1>>]
    BY <1>3 DEF NodesOfTrees
  <2>3. Cardinality(below) <= leaves
    <3>1. IsFiniteSet(0 .. leaves - 1) /\ Cardinality(0 .. leaves - 1) = leaves
      <4>1. 0 \in Int /\ leaves - 1 \in Int /\ (0 > leaves - 1 <=> leaves = 0) /\ leaves - 1 - 0 + 1 = leaves
        OBVIOUS
      <4> QED
        BY <4>1, FS_Interval
    <3>2. below \subseteq 0 .. leaves - 1
      BY <2>1
    <3> HIDE DEF below
    <3> QED
      BY <3>1, <3>2, FS_Subset
  <2>4. Cardinality(DOMAIN nodes[c].outputs) = leaves + 1
    <3>1. Cardinality(0 .. leaves) = leaves + 1
      BY FS_Interval
    <3> QED
      BY <2>2, <3>1
  <2>5. Cardinality(below) <= Cardinality(DOMAIN nodes[c].outputs) - 1
    <3> HIDE DEF below, nodes
    <3> QED
      BY <2>3, <2>4
  <2>6. \A i \in below :
           /\ i \in DOMAIN nodes[c].outputs /\ nodes[c].outputs[i] = 1
           /\ nodes[c].children[i] = <<c[1], i + 1>>
    BY <2>1, <2>2
  <2>7. \A i \in below :
           /\ nodes[<<c[1], i + 1>>].inputs = <<<<c, i>>>>
           /\ OutputsSum(nodes[<<c[1], i + 1>>]) = 1
    <3> SUFFICES ASSUME NEW i \in below
                 PROVE  /\ nodes[<<c[1], i + 1>>].inputs = <<<<c, i>>>>
                        /\ OutputsSum(nodes[<<c[1], i + 1>>]) = 1
      OBVIOUS
    <3>1. i \in 0 .. leaves - 1 /\ <<c[1], i + 1>> \in chunks
      BY <2>1
    <3>2. c = <<c[1], 0>>
      BY <1>3, ChunkNumbers
    <3>3. nodes[<<c[1], i + 1>>].inputs = <<<<<<c[1], 0>>, i + 1 - 1>>>> /\ i + 1 - 1 = i
      BY <3>1 DEF NodesOfTrees
    <3>4. OutputsSum(nodes[<<c[1], i + 1>>]) = 1
      BY <3>1, WorthOfTrees
    <3> HIDE DEF nodes
    <3> QED
      BY <3>2, <3>3, <3>4
  <2>8. \A i \in below :
           LET child == nodes[nodes[c].children[i]]
           IN /\ Len(child.inputs) = 1
              /\ child.inputs[1] = <<c, i>>
              /\ OutputsSum(child) = nodes[c].outputs[i]
    <3> SUFFICES ASSUME NEW i \in below
                 PROVE  /\ Len(nodes[nodes[c].children[i]].inputs) = 1
                        /\ nodes[nodes[c].children[i]].inputs[1] = <<c, i>>
                        /\ OutputsSum(nodes[nodes[c].children[i]]) = nodes[c].outputs[i]
      OBVIOUS
    <3> HIDE DEF nodes, below
    <3>1. nodes[nodes[c].children[i]].inputs = <<<<c, i>>>>
      BY <2>6, <2>7
    <3>2. OutputsSum(nodes[nodes[c].children[i]]) = nodes[c].outputs[i]
      BY <2>6, <2>7
    <3> QED
      BY <3>1, <3>2
  <2>9. \A i \in below : i \in DOMAIN nodes[c].outputs /\ nodes[c].outputs[i] # 0
    <3> HIDE DEF nodes, below
    <3> QED
      BY <2>6
  <2> HIDE DEF nodes
  <2> QED
    BY <1>1, <2>5, <2>8, <2>9 DEF ValidNode, nodes
<1> QED
  BY <1>2, <1>3

\* Finitely many.
LEMMA ChunksFinite ==
    ASSUME NEW leaves \in Nat, NEW chunks, ChunksOf(chunks, leaves), NEW b,
           \A c \in chunks : c[1] = b
    PROVE  IsFiniteSet(chunks)
<1> DEFINE all == {b} \X (0 .. leaves)
<1>1. IsFiniteSet(all)
  <2>0. 0 \in Int /\ leaves \in Int
    OBVIOUS
  <2>1. IsFiniteSet(0 .. leaves) /\ IsFiniteSet({b})
    BY <2>0, FS_Interval, FS_Singleton
  <2> QED
    BY <2>1, FS_Product
<1>2. chunks \in SUBSET all
  <2>1. \A c \in chunks : c = <<b, c[2]>> /\ c[2] \in 0 .. leaves
    BY ChunkNumbers
  <2> QED
    BY <2>1
<1> HIDE DEF all
<1> QED
  BY <1>1, <1>2, FS_Subset

\* No way down such trees has two branches.
LEMMA TreesShallow ==
    ASSUME NEW leaves \in Nat, NEW chunks, ChunksOf(chunks, leaves), NEW output,
           NEW root, NEW n \in Nat, n > 1
    PROVE  WaysDown(NodesOfTrees(chunks, leaves, output), root, n) = {}
<1> DEFINE nodes == NodesOfTrees(chunks, leaves, output)
<1> SUFFICES ASSUME NEW way \in WaysDown(nodes, root, n) PROVE FALSE
  OBVIOUS
<1>1. 1 \in 1 .. n /\ 2 \in 1 .. n /\ 2 # 1 /\ 2 - 1 = 1
  OBVIOUS
<1>2. way[1] \in Branches(nodes) /\ way[2] \in Branches(nodes) /\ way[2][1] = ChildAt(nodes, way[1])
  <2> HIDE DEF nodes
  <2>1. way \in [1 .. n -> Branches(nodes)]
    BY DEF WaysDown
  <2>2. way[2][1] = ChildAt(nodes, way[2 - 1])
    BY <1>1 DEF WaysDown
  <2> QED
    BY <1>1, <2>1, <2>2
<1>3. PICK p \in Branches(nodes), q \in Branches(nodes) : q[1] = ChildAt(nodes, p)
  BY <1>2
<1>4. ChildAt(nodes, p) = <<p[1][1], p[2] + 1>> /\ p[2] \in 0 .. leaves - 1
  <2>1. ChildAt(nodes, p) = LeafAt(p) /\ p[2] \in 0 .. leaves - 1
    BY BranchesOfTrees
  <2> QED
    BY <2>1 DEF LeafAt
<1>5. q[1][2] = 0
  BY BranchesOfTrees
<1> HIDE DEF nodes
<1>6. q[1][2] = p[2] + 1
  BY <1>3, <1>4
<1> QED
  BY <1>4, <1>5, <1>6

\* The node of the tree's graph at each of its transactions.
LEMMA TreesReached ==
    ASSUME NEW leaves \in Nat, NEW chunks, ChunksOf(chunks, leaves), NEW output,
           NEW b \in Nat, HangsFrom(chunks, b)
    PROVE  \A c \in chunks : \E way \in Graph(NodesOfTrees(chunks, leaves, output), <<b, 0>>) :
               Tip(NodesOfTrees(chunks, leaves, output), <<b, 0>>, way) = c
<1> DEFINE nodes == NodesOfTrees(chunks, leaves, output)
           root == <<b, 0>>
<1>1. DOMAIN nodes = chunks /\ root \in chunks /\ \A c \in chunks : c[1] = b
  BY DEF NodesOfTrees, HangsFrom
<1>2. IsFiniteSet(chunks) /\ Cardinality(chunks) \in Nat
  BY <1>1, ChunksFinite, FS_CardinalityType
<1>3. SUFFICES ASSUME NEW c \in chunks
               PROVE  \E way \in Graph(nodes, root) : Tip(nodes, root, way) = c
  OBVIOUS
<1>4. c = <<b, c[2]>> /\ c[2] \in 0 .. leaves
  BY <1>1, ChunkNumbers
<1>5. CASE c[2] = 0
  <2>1. <<>> \in WaysDown(nodes, root, 0) /\ Tip(nodes, root, <<>>) = root
    BY WayOfNone
  <2>2. 0 \in 0 .. Cardinality(DOMAIN nodes)
    BY <1>1, <1>2
  <2>3. <<>> \in Graph(nodes, root)
    <3> HIDE DEF nodes, root
    <3> QED
      BY <2>1, <2>2 DEF Graph
  <2> QED
    BY <1>4, <1>5, <2>1, <2>3
<1>6. CASE c[2] # 0
  <2> DEFINE branch == <<root, c[2] - 1>>
             way == [k \in 1 .. 1 |-> branch]
  <2>1. branch \in Branches(nodes) /\ ChildAt(nodes, branch) = c
    <3>1. c[2] \in 1 .. leaves /\ <<b, c[2]>> \in chunks
      BY <1>4, <1>6
    <3> QED
      BY <1>1, <1>4, <3>1, LeafAtBranch
  <2>2. way \in WaysDown(nodes, root, 1)
    <3>1. way \in [1 .. 1 -> Branches(nodes)]
      BY <2>1
    <3>2. \A k \in 1 .. 1 : k = 1 /\ way[k][1] = root
      OBVIOUS
    <3> HIDE DEF nodes, root, way
    <3> QED
      BY <3>1, <3>2 DEF WaysDown
  <2>3. 1 \in 0 .. Cardinality(DOMAIN nodes)
    <3>1. Cardinality(chunks) # 0
      BY <1>1, <1>2, FS_EmptySet
    <3> QED
      BY <1>1, <1>2, <3>1
  <2>4. way \in Graph(nodes, root)
    <3> HIDE DEF nodes, root, way
    <3> QED
      BY <2>2, <2>3 DEF Graph
  <2>5. Tip(nodes, root, way) = c
    <3>1. 1 \in Nat \ {0}
      OBVIOUS
    <3>2. Tip(nodes, root, way) = ChildAt(nodes, way[1])
      <4> DEFINE one == 1
      <4>1. one \in Nat \ {0} /\ way \in WaysDown(nodes, root, one)
        BY <2>2, <3>1
      <4> HIDE DEF nodes, root, way, one
      <4>2. Tip(nodes, root, way) = ChildAt(nodes, way[one])
        BY <4>1, WayContinues
      <4> QED
        BY <4>2 DEF one
    <3>3. way[1] = branch
      OBVIOUS
    <3> HIDE DEF nodes, root, way
    <3> QED
      BY <2>1, <3>2, <3>3
  <2> QED
    BY <2>4, <2>5
<1> QED
  BY <1>5, <1>6

\* What hangs from a root is put together and valid, as one node for each chunk.
LEMMA TreesCreated ==
    ASSUME NEW leaves \in Nat, NEW chunks, ChunksOf(chunks, leaves), NEW output,
           NEW b \in Nat, HangsFrom(chunks, b)
    PROVE  /\ Creates(NodesOfTrees(chunks, leaves, output), Cardinality(chunks), <<b, 0>>)
           /\ Validates(NodesOfTrees(chunks, leaves, output), <<b, 0>>)
<1> DEFINE nodes == NodesOfTrees(chunks, leaves, output)
           root == <<b, 0>>
           G == Graph(nodes, root)
           tip == [way \in G |-> Tip(nodes, root, way)]
<1>1. DOMAIN nodes = chunks /\ root \in chunks /\ \A c \in chunks : c[1] = b
  BY DEF NodesOfTrees, HangsFrom
<1>2. IsFiniteSet(chunks) /\ Cardinality(chunks) \in Nat /\ Cardinality(chunks) # 0
  BY <1>1, ChunksFinite, FS_CardinalityType, FS_EmptySet
<1>3. RootTxids(nodes) = {root}
  <2>1. RootTxids(nodes) = {c \in chunks : c[2] = 0 \/ <<c[1], 0>> \notin chunks}
    BY RootsOfTrees
  <2>2. \A c \in chunks : c = <<b, c[2]>>
    BY <1>1, ChunkNumbers
  <2>3. \A c \in chunks : (c[2] = 0 \/ <<c[1], 0>> \notin chunks) <=> c = root
    BY <1>1, <2>2
  <2> HIDE DEF nodes, root
  <2> QED
    BY <1>1, <2>1, <2>3
<1>4. BuildEnds(nodes, root)
  <2>1. CASE Cardinality(chunks) > 1
    BY <1>1, <1>2, <2>1, TreesShallow DEF BuildEnds
  <2>2. CASE Cardinality(chunks) = 1
    <3>1. chunks = {root}
      <4>1. {root} \in SUBSET chunks /\ Cardinality({root}) = 1
        BY <1>1, FS_Singleton
      <4> HIDE DEF root
      <4> QED
        BY <1>2, <2>2, <4>1, FS_Subset
    <3>2. ASSUME NEW way \in WaysDown(nodes, root, 1)
          PROVE  FALSE
      <4>1. way \in [1 .. 1 -> Branches(nodes)]
        BY DEF WaysDown
      <4>2. way[1] \in Branches(nodes)
        BY <4>1
      <4>3. LeafAt(way[1]) \in chunks /\ way[1][2] \in 0 .. leaves - 1
        BY <4>2, BranchesOfTrees
      <4> QED
        BY <3>1, <4>3 DEF LeafAt
    <3> QED
      BY <1>1, <2>2, <3>2 DEF BuildEnds
  <2> QED
    BY <1>2, <2>1, <2>2
<1>5. \A way \in G : Tip(nodes, root, way) \in chunks
  <2> HIDE DEF nodes, root
  <2> QED
    BY <1>1, <1>2, TipKnown
<1>6. Validates(nodes, root)
  <2>1. \A c \in chunks : ValidNode(nodes, c)
    BY TreesValid
  <2> HIDE DEF nodes, root
  <2> QED
    BY <1>5, <2>1 DEF Validates
<1>7. Cardinality(G) = Cardinality(chunks)
  <2>1. \A p, q \in G : tip[p] = tip[q] => p = q
    <3> HIDE DEF nodes, root
    <3> QED
      BY <1>1, <1>2, <1>3, <1>4, <1>6, OneWay
  <2>2. tip \in [G -> chunks]
    BY <1>5
  <2>3. \A c \in chunks : \E way \in G : tip[way] = c
    BY TreesReached
  <2> HIDE DEF tip, G
  <2>4. tip \in Injection(G, chunks) /\ tip \in Surjection(G, chunks)
    BY <2>1, <2>2, <2>3 DEF Injection, IsInjective, Surjection
  <2> QED
    BY <1>2, <2>4, FS_Injection
<1> QED
  BY <1>2, <1>3, <1>4, <1>6, <1>7 DEF Creates

\* And only what hangs from a root that spends the output at hand.
LEMMA OnlyTrees ==
    ASSUME NEW leaves \in Nat, NEW chunks, ChunksOf(chunks, leaves), NEW output,
           NEW b \in Nat, NEW root \in chunks,
           RootTxids(NodesOfTrees(chunks, leaves, output)) = {root},
           NodesOfTrees(chunks, leaves, output)[root].inputs[1] = <<<<b>>, output>>
    PROVE  root = <<b, 0>> /\ HangsFrom(chunks, b)
<1> DEFINE nodes == NodesOfTrees(chunks, leaves, output)
<1>1. root[2] = 0
  <2> SUFFICES ASSUME root[2] # 0 PROVE FALSE
    OBVIOUS
  <2>1. nodes[root].inputs[1] = <<<<root[1], 0>>, root[2] - 1>>
    BY DEF NodesOfTrees
  <2>2. <<root[1], 0>> = <<b>>
    <3> HIDE DEF nodes
    <3>1. <<<<root[1], 0>>, root[2] - 1>> = <<<<b>>, output>>
      BY <2>1 DEF nodes
    <3> QED
      BY <3>1
  <2>3. Len(<<root[1], 0>>) = 2 /\ Len(<<b>>) = 1
    OBVIOUS
  <2> QED
    BY <2>2, <2>3
<1>2. root = <<b, 0>>
  <2>1. nodes[root].inputs[1] = <<<<root[1]>>, output>>
    BY <1>1 DEF NodesOfTrees
  <2>2. <<<<root[1]>>, output>> = <<<<b>>, output>>
    <3> HIDE DEF nodes
    <3> QED
      BY <2>1 DEF nodes
  <2>3. root[1] = b
    BY <2>2
  <2> QED
    BY <1>1, <2>3, ChunkNumbers
<1>3. {c \in chunks : c[2] = 0 \/ <<c[1], 0>> \notin chunks} = {root}
  BY RootsOfTrees
<1>4. ASSUME NEW c \in chunks
      PROVE  c[1] = b
  <2>1. CASE c[2] = 0 \/ <<c[1], 0>> \notin chunks
    BY <1>2, <1>3, <2>1
  <2>2. CASE <<c[1], 0>> \in chunks
    <3>1. <<c[1], 0>> = root
      BY <1>3, <2>2
    <3> QED
      BY <1>2, <3>1
  <2> QED
    BY <2>1, <2>2
<1> QED
  BY <1>2, <1>4 DEF HangsFrom

\* So validateVtxoTxGraph accepts what HangsFrom says, and nothing else.
LEMMA VtxoTreeAccepted ==
    ASSUME NEW leaves \in Nat \ {0}, NEW chunks, ChunksOf(chunks, leaves), NEW b \in Nat
    PROVE  HangsFrom(chunks, b) <=>
               \E root \in chunks :
                   /\ Creates(NodesOfTrees(chunks, leaves, 0), Cardinality(chunks), root)
                   /\ ValidatesVtxoTxGraph(NodesOfTrees(chunks, leaves, 0), root,
                                           Commitment(b, leaves))
<1> DEFINE nodes == NodesOfTrees(chunks, leaves, 0)
           commitment == Commitment(b, leaves)
<1>0. /\ commitment.txid = <<b>> /\ 0 \in DOMAIN commitment.outputs
      /\ commitment.outputs[0] = leaves
  BY DEF Commitment
<1>1. ASSUME HangsFrom(chunks, b)
      PROVE  /\ <<b, 0>> \in chunks
             /\ Creates(nodes, Cardinality(chunks), <<b, 0>>)
             /\ ValidatesVtxoTxGraph(nodes, <<b, 0>>, commitment)
  <2>1. <<b, 0>> \in chunks
    BY <1>1 DEF HangsFrom
  <2>2. Creates(nodes, Cardinality(chunks), <<b, 0>>) /\ Validates(nodes, <<b, 0>>)
    BY <1>1, TreesCreated
  <2>3. nodes[<<b, 0>>].inputs[1] = <<<<b>>, 0>>
    BY <2>1 DEF NodesOfTrees
  <2>4. OutputsSum(nodes[<<b, 0>>]) = leaves
    BY <2>1, WorthOfTrees
  <2> HIDE DEF nodes, commitment
  <2> QED
    BY <1>0, <2>1, <2>2, <2>3, <2>4 DEF ValidatesVtxoTxGraph
<1>2. ASSUME NEW root \in chunks, Creates(nodes, Cardinality(chunks), root),
             ValidatesVtxoTxGraph(nodes, root, commitment)
      PROVE  HangsFrom(chunks, b)
  <2>1. RootTxids(nodes) = {root} /\ nodes[root].inputs[1] = <<<<b>>, 0>>
    <3> HIDE DEF nodes, commitment
    <3> QED
      BY <1>0, <1>2 DEF Creates, ValidatesVtxoTxGraph
  <2> QED
    BY <2>1, OnlyTrees
<1> HIDE DEF nodes, commitment
<1>3. HangsFrom(chunks, b) <=>
          \E root \in chunks : /\ Creates(nodes, Cardinality(chunks), root)
                               /\ ValidatesVtxoTxGraph(nodes, root, commitment)
  BY <1>1, <1>2
<1> QED
  BY <1>3 DEF nodes, commitment

\* What leaves returns of such a tree: all but the root, or the root alone.
LeavesOfChunks(chunks) ==
    LET below == {c \in chunks : c[2] # 0}
    IN IF below = {} THEN chunks ELSE below

\* A root is a leaf if nothing hangs from it.
LEMMA LeavesOfTrees ==
    ASSUME NEW leaves \in Nat, NEW chunks, ChunksOf(chunks, leaves), NEW output,
           NEW b \in Nat, HangsFrom(chunks, b)
    PROVE  LeafTxids(NodesOfTrees(chunks, leaves, output), <<b, 0>>) = LeavesOfChunks(chunks)
<1> DEFINE nodes == NodesOfTrees(chunks, leaves, output)
           root == <<b, 0>>
           below == {c \in chunks : c[2] # 0}
<1>1. DOMAIN nodes = chunks /\ root \in chunks /\ \A c \in chunks : c[1] = b
  BY DEF NodesOfTrees, HangsFrom
<1>2. {Tip(nodes, root, way) : way \in Graph(nodes, root)} = chunks
  <2>1. IsFiniteSet(chunks)
    BY <1>1, ChunksFinite
  <2>2. \A way \in Graph(nodes, root) : Tip(nodes, root, way) \in chunks
    <3> HIDE DEF nodes, root
    <3> QED
      BY <1>1, <2>1, TipKnown
  <2>3. \A c \in chunks : \E way \in Graph(nodes, root) : Tip(nodes, root, way) = c
    BY TreesReached
  <2> HIDE DEF nodes, root
  <2> QED
    BY <2>2, <2>3
<1>3. \A c \in chunks : c = <<b, c[2]>> /\ c[2] \in 0 .. leaves
  BY <1>1, ChunkNumbers
<1>4. \A c \in below : ChildOutputs(nodes, c) = {}
  BY ChildrenOfTrees
<1>5. ChildOutputs(nodes, root) = {i \in 0 .. leaves - 1 : <<b, i + 1>> \in chunks}
  BY <1>1, ChildrenOfTrees
<1>6. ChildOutputs(nodes, root) = {} <=> below = {}
  <2>1. ASSUME NEW c \in below
        PROVE  c[2] - 1 \in ChildOutputs(nodes, root)
    <3>1. c[2] - 1 \in 0 .. leaves - 1 /\ c[2] - 1 + 1 = c[2] /\ c = <<b, c[2]>>
      BY <1>3
    <3> QED
      BY <1>5, <3>1
  <2>2. ASSUME NEW i \in ChildOutputs(nodes, root)
        PROVE  <<b, i + 1>> \in below
    BY <1>5
  <2> HIDE DEF nodes, root
  <2> QED
    BY <2>1, <2>2
<1>7. \A c \in chunks : c \notin below => c = root
  BY <1>3
<1>8. root \notin below
  OBVIOUS
<1>9. LeafTxids(nodes, root) = {c \in chunks : ChildOutputs(nodes, c) = {}}
  <2> HIDE DEF nodes, root
  <2> QED
    BY <1>2 DEF LeafTxids
<1>10. below \subseteq chunks
  OBVIOUS
<1>11. {c \in chunks : ChildOutputs(nodes, c) = {}} = IF below = {} THEN chunks ELSE below
  <2> HIDE DEF nodes, root, below
  <2>1. CASE below = {}
    BY <1>1, <1>6, <1>7, <2>1
  <2>2. CASE below # {}
    BY <1>4, <1>6, <1>7, <1>8, <1>10, <2>2
  <2> QED
    BY <2>1, <2>2
<1> QED
  BY <1>9, <1>11 DEF LeavesOfChunks

\* And validateConnectorsTxGraph, with the leaves to pay forfeits with.
LEMMA ConnectorsAccepted ==
    ASSUME NEW leaves \in Nat, NEW chunks, ChunksOf(chunks, leaves), NEW b \in Nat
    PROVE  HangsFrom(chunks, b) <=>
               \E root \in chunks :
                   /\ Creates(NodesOfTrees(chunks, leaves, 1), Cardinality(chunks), root)
                   /\ ValidatesConnectorsTxGraph(NodesOfTrees(chunks, leaves, 1), root,
                                                 Commitment(b, leaves))
                   /\ LeafTxids(NodesOfTrees(chunks, leaves, 1), root) = LeavesOfChunks(chunks)
<1> DEFINE nodes == NodesOfTrees(chunks, leaves, 1)
           commitment == Commitment(b, leaves)
<1>0. commitment.txid = <<b>> /\ 1 \in DOMAIN commitment.outputs
  BY DEF Commitment
<1>1. ASSUME HangsFrom(chunks, b)
      PROVE  /\ <<b, 0>> \in chunks
             /\ Creates(nodes, Cardinality(chunks), <<b, 0>>)
             /\ ValidatesConnectorsTxGraph(nodes, <<b, 0>>, commitment)
             /\ LeafTxids(nodes, <<b, 0>>) = LeavesOfChunks(chunks)
  <2>1. <<b, 0>> \in chunks
    BY <1>1 DEF HangsFrom
  <2>2. Creates(nodes, Cardinality(chunks), <<b, 0>>) /\ Validates(nodes, <<b, 0>>)
    BY <1>1, TreesCreated
  <2>3. nodes[<<b, 0>>].inputs[1] = <<<<b>>, 1>>
    BY <2>1 DEF NodesOfTrees
  <2>4. LeafTxids(nodes, <<b, 0>>) = LeavesOfChunks(chunks)
    BY <1>1, LeavesOfTrees
  <2> HIDE DEF nodes, commitment
  <2> QED
    BY <1>0, <2>1, <2>2, <2>3, <2>4 DEF ValidatesConnectorsTxGraph
<1>2. ASSUME NEW root \in chunks, Creates(nodes, Cardinality(chunks), root),
             ValidatesConnectorsTxGraph(nodes, root, commitment)
      PROVE  HangsFrom(chunks, b)
  <2>1. RootTxids(nodes) = {root} /\ nodes[root].inputs[1] = <<<<b>>, 1>>
    <3> HIDE DEF nodes, commitment
    <3> QED
      BY <1>0, <1>2 DEF Creates, ValidatesConnectorsTxGraph
  <2> QED
    BY <2>1, OnlyTrees
<1> HIDE DEF nodes, commitment
<1>3. HangsFrom(chunks, b) <=>
          \E root \in chunks : /\ Creates(nodes, Cardinality(chunks), root)
                               /\ ValidatesConnectorsTxGraph(nodes, root, commitment)
                               /\ LeafTxids(nodes, root) = LeavesOfChunks(chunks)
  BY <1>1, <1>2
<1> QED
  BY <1>3 DEF nodes, commitment

-----------------------------------------------------------------------------
(* The transactions that come are numbered as their trees are. *)

NumberedEvents == {e \in Server!SettlementEvent : InTree(e)}

\* A queue of such events, appended to and shortened as any sequence.
LEMMA NumberedQueue ==
    ASSUME NEW q \in Seq(Server!SettlementEvent)
    PROVE  (\A i \in 1 .. Len(q) : InTree(q[i])) <=> q \in Seq(NumberedEvents)
<1>1. ASSUME \A i \in 1 .. Len(q) : InTree(q[i])
      PROVE  q \in Seq(NumberedEvents)
  <2>1. \A i \in 1 .. Len(q) : q[i] \in NumberedEvents
    BY <1>1, ElementOfSeq DEF NumberedEvents
  <2>2. q \in [1 .. Len(q) -> NumberedEvents] /\ Len(q) \in Nat
    BY <2>1, LenProperties
  <2> QED
    BY <2>2
<1>2. ASSUME q \in Seq(NumberedEvents)
      PROVE  \A i \in 1 .. Len(q) : InTree(q[i])
  <2>1. \A i \in 1 .. Len(q) : q[i] \in NumberedEvents
    BY <1>2, ElementOfSeq
  <2> QED
    BY <2>1 DEF NumberedEvents
<1> QED
  BY <1>1, <1>2

\* What the server puts out is numbered.
LEMMA NumberedSequences ==
    ASSUME Server!ServerTypeOK, batch # 0
    PROVE  /\ \A tree \in {"vtxo", "connectors"} :
                  Server!TreeTxs(tree, Leaves(tree)) \in Seq(NumberedEvents)
           /\ Server!TreeSignatures \in Seq(NumberedEvents)
           /\ \A type \in Server!PlainEvents : Server!Plain(type) \in Seq(NumberedEvents)
<1>1. batch \in Server!Batch
  BY SettlementAssumption DEF Server!ServerTypeOK, Server!Batch
<1>2. ASSUME NEW tree \in {"vtxo", "connectors"}
      PROVE  Server!TreeTxs(tree, Leaves(tree)) \in Seq(NumberedEvents)
  <2>1. Leaves(tree) \in Nat
    BY NbConnectorsType, SettlementAssumption DEF Leaves
  <2>2. \A n \in 1 .. (Leaves(tree) + 1) :
            n - 1 \in 0 .. Leaves(tree) /\ n - 1 \in Nat
    BY <2>1
  <2>3. \A n \in 1 .. (Leaves(tree) + 1) :
            [type |-> "TreeTx", id |-> batch, tree |-> tree, node |-> n - 1]
                \in NumberedEvents
    BY <1>1, <2>2 DEF NumberedEvents, InTree, Server!SettlementEvent, Server!Node
  <2> QED
    BY <2>1, <2>3 DEF Server!TreeTxs
<1>3. Server!TreeSignatures \in Seq(NumberedEvents)
  <2>1. \A n \in 1 .. (VtxoLeaves + 1) :
            [type |-> "TreeSignature", id |-> batch, node |-> n - 1]
                \in NumberedEvents
    BY <1>1, SettlementAssumption DEF NumberedEvents, InTree, Server!SettlementEvent, Server!Node
  <2>2. VtxoLeaves + 1 \in Nat
    BY SettlementAssumption
  <2> QED
    BY <2>1, <2>2 DEF Server!TreeSignatures
<1>4. ASSUME NEW type \in Server!PlainEvents
      PROVE  Server!Plain(type) \in Seq(NumberedEvents)
  <2>1. [type |-> type, id |-> batch] \in NumberedEvents
    BY <1>1 DEF NumberedEvents, InTree, Server!SettlementEvent, Server!PlainEvents
  <2> QED
    BY <2>1 DEF Server!Plain
<1> QED
  BY <1>2, <1>3, <1>4

\* The intent that no request has registered takes part in nothing.
LEMMA NumberedOutbox ==
    ASSUME Server!ServerTypeOK, outbox \in Seq(NumberedEvents), intent = "none" => joined = {},
           ServerStep
    PROVE  /\ outbox' \in Seq(NumberedEvents)
           /\ intent = "none" => joined' = {}
           /\ intent # "none" => order' = order /\ intent' # "none"
<1>1. phase # "idle" => batch # 0
  BY DEF Server!ServerTypeOK
<1>2. <<>> \in Seq(NumberedEvents)
  BY EmptySeq
<1>3. CASE Server!StartBatch
  <2>1. batch + 1 \in Server!Batch
    BY <1>3, SettlementAssumption DEF Server!StartBatch, Server!ServerTypeOK, Server!Batch
  <2>2. \A ours \in BOOLEAN :
            [type |-> "BatchStarted", id |-> batch + 1, ours |-> ours] \in NumberedEvents
    BY <2>1 DEF NumberedEvents, InTree, Server!SettlementEvent
  <2> QED
    BY <1>3, <2>2 DEF Server!StartBatch
<1>4. CASE Server!CloseConfirmation
  <2>1. /\ Server!TreeTxs("vtxo", VtxoLeaves) \in Seq(NumberedEvents)
        /\ Server!Plain("TreeSigningStarted") \in Seq(NumberedEvents)
    BY <1>1, <1>4, NumberedSequences DEF Server!CloseConfirmation, Server!PlainEvents, Leaves
  <2>2. outbox' \in Seq(NumberedEvents)
    BY <1>2, <1>4, <2>1, ConcatProperties DEF Server!CloseConfirmation
  <2> QED
    BY <1>4, <2>2 DEF Server!CloseConfirmation, Server!LeftBehind
<1>5. CASE Server!AggregateNonces
  BY <1>1, <1>5, NumberedSequences DEF Server!AggregateNonces, Server!PlainEvents
<1>6. CASE Server!StartFinalization
  <2>1. /\ Server!TreeTxs("connectors", Server!NbConnectors) \in Seq(NumberedEvents)
        /\ Server!TreeSignatures \in Seq(NumberedEvents)
        /\ Server!Plain("BatchFinalization") \in Seq(NumberedEvents)
    BY <1>1, <1>6, NumberedSequences DEF Server!StartFinalization, Server!PlainEvents, Leaves
  <2>2. outbox' \in Seq(NumberedEvents)
    BY <1>2, <1>6, <2>1, ConcatProperties DEF Server!StartFinalization
  <2> QED
    BY <1>6, <2>2 DEF Server!StartFinalization
<1>7. CASE Server!EndBatch
  <2>1. Server!Plain("BatchFinalized") \in Seq(NumberedEvents)
    BY <1>1, <1>7, NumberedSequences DEF Server!EndBatch, Server!PlainEvents
  <2> QED
    BY <1>7, <2>1 DEF Server!EndBatch
<1>8. CASE Server!FailBatch
  <2>1. Server!Plain("BatchFailed") \in Seq(NumberedEvents)
    BY <1>1, <1>8, NumberedSequences DEF Server!FailBatch, Server!PlainEvents
  <2>2. outbox' \in Seq(NumberedEvents)
    BY <1>8, <2>1, ConcatProperties DEF Server!FailBatch
  <2> QED
    BY <1>8, <2>2 DEF Server!FailBatch, Server!LeftBehind
<1>9. CASE Server!Emit
  BY <1>9, HeadTailProperties DEF Server!Emit
<1>10. CASE Requested
  BY <1>10 DEF Requested, Server!RegisterIntent, Server!ConfirmRegistration, Server!Submit,
               Server!DeleteIntent
<1>11. CASE UNCHANGED serverVars
  BY <1>11 DEF serverVars
<1> QED
  BY <1>3, <1>4, <1>5, <1>6, <1>7, <1>8, <1>9, <1>10, <1>11 DEF ServerStep, Server!BatchStep

\* What arrives is handled and collected as it was sent.
LEMMA NumberedArrivals ==
    ASSUME TypeOK, outbox \in Seq(NumberedEvents), messageQueue \in Seq(NumberedEvents),
           reader = "handling" => InTree(current), StreamStep
    PROVE  /\ messageQueue' \in Seq(NumberedEvents)
           /\ reader' = "handling" => InTree(current')
<1>1. outbox # <<>> => Head(outbox) \in NumberedEvents
  BY HeadTailProperties
<1>2. messageQueue # <<>> => /\ Head(messageQueue) \in NumberedEvents
                             /\ Tail(messageQueue) \in Seq(NumberedEvents)
  BY HeadTailProperties
<1>3. \A e \in NumberedEvents : InTree(e)
  BY DEF NumberedEvents
<1>4. <<>> \in Seq(NumberedEvents)
  BY EmptySeq
<1>5. CASE Stream!Open \/ Stream!Reconnect \/ Stream!Resume \/ Stream!Leave
  BY <1>5, <1>4 DEF Stream!Open, Stream!Reconnect, Stream!Resume, Stream!Leave
<1>6. CASE \/ \E c \in Cause : Stream!RejectNext(c)
           \/ Stream!ThrowQueued
  BY <1>6, <1>4 DEF Stream!RejectNext, Stream!ThrowQueued, Stream!Throw
<1>7. CASE \E c \in Cause : Stream!QueueError(c)
  BY <1>7 DEF Stream!QueueError
<1>8. CASE Stream!Deliver
  BY <1>8, <1>2, <1>3 DEF Stream!Deliver
<1>9. CASE UNCHANGED streamVars
  BY <1>9 DEF streamVars
<1>10. CASE outbox # <<>> /\ Stream!Message(Head(outbox))
  BY <1>10, <1>1, AppendProperties DEF Stream!Message
<1> QED
  BY <1>5, <1>6, <1>7, <1>8, <1>9, <1>10 DEF StreamStep, StreamQuiet

\* Only the loop collects, what it has in hand.
LEMMA CollectsWhatComes ==
    ASSUME [Next]_vars
    PROVE  \/ UNCHANGED <<vtxoChunks, connectorsChunks>>
           \/ OnTreeTx
<1> USE DEF treeVars, clientVars
<1>1. CASE ClientStep
  BY <1>1 DEF ClientStep, Settle, Registered, RegistrationThrows, NextEvent, IgnoreEvent,
              OnBatchFailed, OnBatchStarted, Confirmed, OnTreeSigningStarted, NoncesSubmitted,
              OnTreeNoncesAggregated, SignaturesSubmitted, OnTreeSignature, OnBatchFinalization,
              CoinsRead, NothingToSubmit, ForfeitsSubmitted, OnBatchFinalized, LoopThrows,
              StreamThrows, IntentDeleted
<1>2. CASE Accept \/ Refuse
  BY <1>2 DEF Accept, Refuse
<1>3. CASE RunBatch \/ EmitEvent \/ ErrorWhileReading \/ ErrorWhileBusy \/ Reconnect \/ Unroll
  BY <1>3 DEF RunBatch, EmitEvent, ErrorWhileReading, ErrorWhileBusy, Reconnect, Unroll
<1>4. CASE UNCHANGED vars
  BY <1>4 DEF vars
<1> QED
  BY <1>1, <1>2, <1>3, <1>4 DEF Next

\* Every step keeps the numbers; the request that says how many connectors there are
\* comes before any.
LEMMA NumberedKept ==
    ASSUME IInv, NumberedInTree, [Next]_vars
    PROVE  NumberedInTree'
<1>1. TypeOK /\ TypeOK' /\ StreamStep /\ ServerStep
  BY Components, Inductive DEF IInv
<1>2. outbox \in Seq(NumberedEvents) /\ messageQueue \in Seq(NumberedEvents)
  <2>1. outbox \in Seq(Server!SettlementEvent) /\ messageQueue \in Seq(Server!SettlementEvent)
    BY <1>1 DEF TypeOK, Server!ServerTypeOK, Stream!StreamTypeOK
  <2> QED
    BY <2>1, NumberedQueue DEF NumberedInTree
<1>3. /\ outbox' \in Seq(NumberedEvents)
      /\ intent = "none" => joined' = {}
      /\ intent # "none" => order' = order /\ intent' # "none"
  BY <1>1, <1>2, NumberedOutbox DEF TypeOK, NumberedInTree
<1>4. /\ messageQueue' \in Seq(NumberedEvents)
      /\ reader' = "handling" => InTree(current')
  BY <1>1, <1>2, NumberedArrivals DEF NumberedInTree
<1>5. /\ \A c \in vtxoChunks' : c[2] <= VtxoLeaves
      /\ \A c \in connectorsChunks' : c[2] <= Server!NbConnectors
  <2>1. CASE UNCHANGED <<vtxoChunks, connectorsChunks>>
    BY <2>1 DEF NumberedInTree
  <2>2. CASE OnTreeTx
    <3>1. current.node \in 0 .. Leaves(current.tree)
      BY <2>2 DEF OnTreeTx, On, Handling, NumberedInTree, InTree
    <3>2. VtxoLeaves \in Nat /\ Server!NbConnectors \in Nat
      BY <1>1, NbConnectorsType, SettlementAssumption DEF TypeOK
    <3>3. CASE current.tree = "vtxo"
      BY <2>2, <3>1, <3>2, <3>3 DEF OnTreeTx, NumberedInTree, Leaves
    <3>4. CASE current.tree # "vtxo"
      BY <2>2, <3>1, <3>2, <3>4 DEF OnTreeTx, NumberedInTree, Leaves
    <3> QED
      BY <3>3, <3>4
  <2> QED
    BY <2>1, <2>2, CollectsWhatComes
<1>6. /\ \A i \in 1 .. Len(outbox') : InTree(outbox'[i])
      /\ \A i \in 1 .. Len(messageQueue') : InTree(messageQueue'[i])
  <2>1. outbox' \in Seq(Server!SettlementEvent) /\ messageQueue' \in Seq(Server!SettlementEvent)
    BY <1>1 DEF TypeOK, Server!ServerTypeOK, Stream!StreamTypeOK
  <2> QED
    BY <1>3, <1>4, <2>1, NumberedQueue
<1>7. CASE intent # "none"
  <2>1. order' = order /\ intent' # "none"
    BY <1>3, <1>7
  <2>2. Server!NbConnectors' = Server!NbConnectors
    BY <2>1 DEF Server!NbConnectors
  <2>3. \A e : InTree(e)' <=> InTree(e)
    BY <2>2 DEF InTree, Leaves
  <2> QED
    BY <1>4, <1>5, <1>6, <2>1, <2>2, <2>3 DEF NumberedInTree
<1>8. CASE intent = "none"
  <2>1. joined' = {} /\ TopicsRespected' /\ ChunksOfJoined'
    BY <1>3, <1>8, Inductive DEF IInv
  <2>2. /\ \A i \in 1 .. Len(outbox') : outbox'[i].type # "TreeTx"
        /\ \A i \in 1 .. Len(messageQueue') : messageQueue'[i].type # "TreeTx"
        /\ reader' = "handling" => current'.type # "TreeTx"
        /\ vtxoChunks' = {} /\ connectorsChunks' = {}
    BY <2>1 DEF TopicsRespected, ForParticipant, ChunksOfJoined
  <2> QED
    BY <2>1, <2>2 DEF NumberedInTree, InTree
<1> QED
  BY <1>7, <1>8

\* The chunks of a tree are numbered from its root to its last leaf.
LEMMA Numbered == Spec => [](IInv /\ NumberedInTree)
<1>1. Init => IInv /\ NumberedInTree
  <2>1. Init => NumberedInTree
    BY DEF Init, Stream!StreamInit, Server!ServerInit, NumberedInTree
  <2> QED
    BY <2>1, InitInv
<1>2. IInv /\ NumberedInTree /\ [Next]_vars => (IInv /\ NumberedInTree)'
  BY Inductive, NumberedKept
<1> QED
  BY <1>1, <1>2, PTL DEF Spec

\* What TxTree.create and the two validations accept of the chunks that have come,
\* in whatever state, is exactly what HangsFrom says of them, and the leaves that
\* pay for forfeits are those of the tree.
THEOREM AcceptsWhatHangs == Spec => []TreesAccepted
<1>1. IInv /\ NumberedInTree => TreesAccepted
  <2> SUFFICES ASSUME IInv, NumberedInTree, NEW b \in Server!Batch
               PROVE  /\ HangsFrom(vtxoChunks, b) <=> AcceptsVtxoTree(vtxoChunks, b)
                      /\ HangsFrom(connectorsChunks, b) <=> AcceptsConnectors(connectorsChunks, b)
    BY DEF TreesAccepted
  <2>1. b \in Nat /\ VtxoLeaves \in Nat \ {0} /\ Server!NbConnectors \in Nat
    BY NbConnectorsType, SettlementAssumption DEF IInv, TypeOK, Server!Batch
  <2>2. ChunksOf(vtxoChunks, VtxoLeaves)
    <3>1. vtxoChunks \subseteq Server!Chunk /\ \A c \in vtxoChunks : c[2] <= VtxoLeaves
      BY DEF IInv, TypeOK, SettleTypeOK, NumberedInTree
    <3> QED
      BY <2>1, <3>1 DEF ChunksOf, Server!Chunk, Server!Node, Server!Batch
  <2>3. ChunksOf(connectorsChunks, Server!NbConnectors)
    <3>1. connectorsChunks \subseteq Server!Chunk /\ \A c \in connectorsChunks : c[2] <= Server!NbConnectors
      BY DEF IInv, TypeOK, SettleTypeOK, NumberedInTree
    <3> QED
      BY <2>1, <3>1 DEF ChunksOf, Server!Chunk, Server!Node, Server!Batch
  <2>4. HangsFrom(vtxoChunks, b) <=> AcceptsVtxoTree(vtxoChunks, b)
    BY <2>1, <2>2, VtxoTreeAccepted DEF AcceptsVtxoTree
  <2>5. LeavesOfChunks(connectorsChunks) = ConnectorsLeaves
    BY DEF LeavesOfChunks, ConnectorsLeaves
  <2>6. HangsFrom(connectorsChunks, b) <=> AcceptsConnectors(connectorsChunks, b)
    BY <2>1, <2>3, <2>5, ConnectorsAccepted DEF AcceptsConnectors, ConnectorsNodesOf
  <2> QED
    BY <2>4, <2>6
<1> QED
  BY <1>1, Numbered, PTL
=============================================================================
