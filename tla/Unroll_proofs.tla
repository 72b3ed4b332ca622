---------------------------- MODULE Unroll_proofs ----------------------------
(***************************************************************************)
(* Theorems about Unroll, for any chains in topological order, any number  *)
(* of sessions and coins, and any bounds on failures and evictions.        *)
(***************************************************************************)
EXTENDS Unroll, TLAPS, FiniteSetTheorems

-----------------------------------------------------------------------------
\* The transactions a session may work on are those of its chain.
LEMMA TargetInTx ==
    ASSUME TypeOK, NEW s \in Session, pos[s] > 0
    PROVE  Target(s) \in Tx /\ pos[s] \in 1 .. Len(Chain[s])
  BY ChainAssumption DEF TypeOK, Target

\* What the sessions' own steps leave to the node is well typed.
LEMMA NodeType ==
    ASSUME TypeOK, NEW t \in Tx, NEW c \in Coin \cup {NoCoin}, Enter(t, c) \/ LeaveOut(t, c)
    PROVE  /\ onchain' \in [Tx -> TxState] /\ explorer' \in [Tx -> TxState]
           /\ child' \in [Tx -> Coin \cup {NoCoin}]
           /\ explorer' = explorer
           /\ \A u \in Tx : onchain[u] = "confirmed" => onchain'[u] = "confirmed"
           /\ \A u \in Tx : onchain'[u] = "confirmed" => onchain[u] = "confirmed"
           /\ \A u \in Tx : onchain'[u] = "mempool" => onchain[u] = "mempool" \/ Acceptable(u)
  <1>1. CASE Enter(t, c)
    <2>1. \A u \in Tx : onchain[u] = "confirmed" => u # t /\ u \notin SpendersOf(c)
      BY <1>1 DEF Enter, Acceptable, SpendersOf
    <2> QED
      BY <1>1, <2>1 DEF Enter, TypeOK, TxState
  <1>2. CASE LeaveOut(t, c)
    BY <1>2 DEF LeaveOut, chainVars, TypeOK
  <1> QED
    BY <1>1, <1>2

\* The transactions replaced are finitely many: the bound on evictions is kept.
LEMMA EvictionsType ==
    ASSUME TypeOK, NEW t \in Tx, NEW c \in Coin \cup {NoCoin}, Enter(t, c) \/ LeaveOut(t, c)
    PROVE  evictions' \in 0 .. MaxEvictions
  <1>1. CASE Enter(t, c)
    <2>1. SpendersOf(c) \subseteq Tx /\ IsFiniteSet(Tx)
      BY ChainAssumption DEF SpendersOf
    <2>2. Cardinality(SpendersOf(c)) \in Nat
      BY <2>1, FS_Subset, FS_CardinalityType
    <2> DEFINE n == Cardinality(SpendersOf(c))
    <2>3. evictions + n <= MaxEvictions /\ evictions' = evictions + n
      BY <1>1 DEF Enter
    <2>4. evictions \in Nat /\ MaxEvictions \in Nat /\ n \in Nat
      BY <2>2, ChainAssumption DEF TypeOK
    <2> QED
      BY <2>3, <2>4
  <1>2. CASE LeaveOut(t, c)
    BY <1>2 DEF LeaveOut, chainVars, TypeOK
  <1> QED
    BY <1>1, <1>2

\* A failure is counted within its bound.
LEMMA FailType ==
    ASSUME TypeOK, Fail
    PROVE  failures' \in 0 .. MaxFailures
  BY ChainAssumption DEF TypeOK, Fail

-----------------------------------------------------------------------------
\* The initial state: only skipped transactions are onchain, and the loop is
\* at the end of every chain.
LEMMA InitInv == Init => IInv
  <1> SUFFICES ASSUME Init PROVE IInv
    OBVIOUS
  <1>1. \A s \in Session : Len(Chain[s]) \in Nat
    BY ChainAssumption
  <1>2. TypeOK
    BY <1>1, ChainAssumption DEF Init, TypeOK, TxState
  <1>3. ScannedConfirmed
    BY <1>1 DEF Init, ScannedConfirmed
  <1>4. ExplorerBehind
    BY DEF Init, ExplorerBehind
  <1>5. MempoolAfterParents
    BY DEF Init, MempoolAfterParents
  <1> QED
    BY <1>2, <1>3, <1>4, <1>5 DEF IInv

\* A session's package only adds to the mempool: what was confirmed stays so.
LEMMA PackageType ==
    ASSUME TypeOK, NEW s \in Session, pos[s] > 0,
           Enter(Target(s), coin[s]) \/ LeaveOut(Target(s), coin[s])
    PROVE  /\ onchain' \in [Tx -> TxState] /\ explorer' \in [Tx -> TxState]
           /\ child' \in [Tx -> Coin \cup {NoCoin}]
           /\ evictions' \in 0 .. MaxEvictions
           /\ explorer' = explorer
           /\ \A u \in Tx : onchain[u] = "confirmed" <=> onchain'[u] = "confirmed"
           /\ \A u \in Tx : onchain'[u] = "mempool" => onchain[u] = "mempool" \/ Acceptable(u)
  <1>1. Target(s) \in Tx /\ coin[s] \in Coin \cup {NoCoin}
    BY TargetInTx DEF TypeOK
  <1> QED
    BY <1>1, NodeType, EvictionsType

\* Where a session's step leaves the chain as it is, or adds to the mempool,
\* what is confirmed and what the explorer knows stay the same.
LEMMA SessionChain ==
    ASSUME IInv, NEW s \in Session, SessionStep(s)
    PROVE  /\ onchain' \in [Tx -> TxState] /\ explorer' \in [Tx -> TxState]
           /\ child' \in [Tx -> Coin \cup {NoCoin}]
           /\ evictions' \in 0 .. MaxEvictions
           /\ explorer' = explorer
           /\ \A u \in Tx : onchain[u] = "confirmed" <=> onchain'[u] = "confirmed"
           /\ \A u \in Tx : onchain'[u] = "mempool" => onchain[u] = "mempool" \/ Acceptable(u)
  <1>1. CASE Announced(s) \/ Broadcasted(s) \/ BroadcastThrows(s)
    <2>1. pos[s] > 0
      BY <1>1 DEF IInv, ScannedConfirmed, Announced, Broadcasted, BroadcastThrows
    <2>2. Enter(Target(s), coin[s]) \/ LeaveOut(Target(s), coin[s])
      BY <1>1 DEF Announced, Broadcasted, BroadcastThrows
    <2> QED
      BY <2>1, <2>2, PackageType DEF IInv
  <1>2. CASE UNCHANGED chainVars
    BY <1>2 DEF chainVars, IInv, TypeOK
  <1> QED
    BY <1>1, <1>2 DEF SessionStep, ScanConfirmed, ScanUnconfirmed, ScanThrows, ScanDone,
       Fetched, Throw, Bumped, Confirmed, PollThrows, Awake

\* The session's own variables, and the failures, stay in their types.
LEMMA SessionType ==
    ASSUME IInv, NEW s \in Session, SessionStep(s)
    PROVE  TypeOK'
  <1>1. Len(Chain[s]) \in Nat /\ pos[s] \in 0 .. Len(Chain[s])
    BY ChainAssumption DEF IInv, TypeOK
  <1>2. \/ pos' = pos
        \/ pos[s] > 0 /\ pos' = [pos EXCEPT ![s] = @ - 1]
        \/ pos' = [pos EXCEPT ![s] = Len(Chain[s])]
    BY DEF SessionStep, ScanConfirmed, ScanUnconfirmed, ScanThrows, ScanDone,
       Fetched, Throw, Bumped, Announced, Broadcasted, BroadcastThrows, Confirmed, PollThrows, Awake
  <1>6. pos' \in [Session -> Nat]
    BY <1>1, <1>2 DEF IInv, TypeOK
  <1>7. \A z \in Session : pos'[z] \in 0 .. Len(Chain[z])
    <2> SUFFICES ASSUME NEW z \in Session PROVE pos'[z] \in 0 .. Len(Chain[z])
      OBVIOUS
    <2>1. pos[z] \in 0 .. Len(Chain[z])
      BY DEF IInv, TypeOK
    <2>2. CASE z = s
      BY <1>1, <1>2, <2>1, <2>2 DEF IInv, TypeOK
    <2>3. CASE z # s
      BY <1>2, <2>1, <2>3 DEF IInv, TypeOK
    <2> QED
      BY <2>2, <2>3
  <1>3. failures' \in 0 .. MaxFailures
    BY FailType DEF IInv, TypeOK, SessionStep, ScanConfirmed, ScanUnconfirmed, ScanThrows, ScanDone,
       Fetched, Throw, Bumped, Announced, Broadcasted, BroadcastThrows, LeaveOut, Confirmed,
       PollThrows, Awake
  <1>4. coin' \in [Session -> Coin \cup {NoCoin}]
    BY DEF IInv, TypeOK, SessionStep, ScanConfirmed, ScanUnconfirmed, ScanThrows, ScanDone,
       Fetched, Throw, Bumped, Announced, Broadcasted, BroadcastThrows, Confirmed, PollThrows, Awake
  <1>5. pc' \in [Session -> {"scanning", "fetching", "bumping", "announcing",
                             "broadcasting", "waiting", "sleeping", "done", "threw"}]
    BY DEF IInv, TypeOK, SessionStep, ScanConfirmed, ScanUnconfirmed, ScanThrows, ScanDone,
       Fetched, Throw, Bumped, Announced, Broadcasted, BroadcastThrows, Confirmed, PollThrows,
       Awake, Goto
  <1> QED
    BY <1>3, <1>4, <1>5, <1>6, <1>7, SessionChain DEF TypeOK

\* A session that moves past a transaction knows it confirmed, from the
\* explorer or because it is a commitment; every other step keeps or restarts
\* the scan.
LEMMA SessionScan ==
    ASSUME IInv, NEW s \in Session, SessionStep(s)
    PROVE  ScannedConfirmed'
  <1> DEFINE Past(z) == \A i \in (pos[z] + 1) .. Len(Chain[z]) : onchain[Chain[z][i]] = "confirmed"
             Scans(l) == l \in {"scanning", "fetching", "bumping", "announcing", "broadcasting", "done"}
             Aims(l) == l \in {"fetching", "bumping", "announcing", "broadcasting", "waiting"}
  <1>1. \A z \in Session : Len(Chain[z]) \in Nat /\ pos[z] \in 0 .. Len(Chain[z])
    BY ChainAssumption DEF IInv, TypeOK
  <1>2. \A u \in Tx : onchain[u] = "confirmed" => onchain'[u] = "confirmed"
    BY SessionChain
  <1>3. \A z \in Session : \A i \in 1 .. Len(Chain[z]) : Chain[z][i] \in Tx
    BY ChainAssumption
  <1>4. ASSUME NEW z \in Session, pos'[z] = pos[z], Past(z) PROVE Past(z)'
    BY <1>1, <1>2, <1>3, <1>4
  <1>5. ASSUME NEW z \in Session, z # s
        PROVE  /\ pc'[z] = pc[z] /\ pos'[z] = pos[z]
    BY <1>5 DEF IInv, TypeOK, SessionStep, ScanConfirmed, ScanUnconfirmed, ScanThrows, ScanDone,
       Fetched, Throw, Bumped, Announced, Broadcasted, BroadcastThrows, Confirmed, PollThrows,
       Awake, Goto
  <1>6. (Scans(pc[s]) => Past(s)) /\ (Aims(pc[s]) => pos[s] > 0) /\ (pc[s] = "done" => pos[s] = 0)
    BY DEF IInv, ScannedConfirmed
  <1>7. (Scans(pc'[s]) => Past(s)') /\ (Aims(pc'[s]) => pos'[s] > 0) /\ (pc'[s] = "done" => pos'[s] = 0)
    <2>1. CASE ScanConfirmed(s)
      <3>1. Target(s) \in Tx /\ onchain[Target(s)] = "confirmed"
        BY <2>1, TargetInTx DEF ScanConfirmed, IInv, ExplorerBehind
      <3>2. pc' = pc /\ pc[s] = "scanning" /\ pos'[s] = pos[s] - 1 /\ onchain' = onchain
        BY <2>1 DEF ScanConfirmed, IInv, TypeOK, chainVars
      <3>3. Past(s)'
        BY <1>1, <1>6, <3>1, <3>2 DEF Target
      <3> QED
        BY <3>2, <3>3
    <2>2. CASE Awake(s)
      <3>1. pc'[s] = "scanning" /\ pos'[s] = Len(Chain[s])
        BY <2>2 DEF Awake, Goto, IInv, TypeOK
      <3> QED
        BY <1>1, <3>1
    <2>3. CASE ScanDone(s)
      BY <1>4, <1>6, <2>3 DEF ScanDone, Goto, IInv, TypeOK
    <2>4. CASE ScanUnconfirmed(s) \/ ScanThrows(s)
      BY <1>4, <1>6, <2>4 DEF ScanUnconfirmed, ScanThrows, Goto, IInv, TypeOK
    <2>5. CASE Fetched(s) \/ Bumped(s) \/ Announced(s)
      BY <1>4, <1>6, <2>5 DEF Fetched, Bumped, Announced, Goto, IInv, TypeOK
    <2>6. CASE Throw(s) \/ Broadcasted(s) \/ BroadcastThrows(s) \/ Confirmed(s) \/ PollThrows(s)
      BY <2>6 DEF Throw, Broadcasted, BroadcastThrows, Confirmed, PollThrows, Goto, IInv, TypeOK
    <2> QED
      BY <2>1, <2>2, <2>3, <2>4, <2>5, <2>6 DEF SessionStep
  <1>8. ASSUME NEW z \in Session, z # s
        PROVE  (Scans(pc'[z]) => Past(z)') /\ (Aims(pc'[z]) => pos'[z] > 0) /\ (pc'[z] = "done" => pos'[z] = 0)
    BY <1>4, <1>5, <1>8 DEF IInv, ScannedConfirmed
  <1> QED
    BY <1>7, <1>8 DEF ScannedConfirmed

\* Mining, evictions and the explorer's index only touch the chain; a
\* confirmed transaction stays confirmed.
LEMMA NetworkInv ==
    ASSUME IInv, NEW t \in Tx, Mine(t) \/ Evict(t) \/ Index(t)
    PROVE  IInv' /\ \A u \in Tx : onchain[u] = "confirmed" => onchain'[u] = "confirmed"
  <1>1. \A u \in Tx : onchain[u] = "confirmed" => onchain'[u] = "confirmed"
    BY DEF IInv, TypeOK, Mine, Evict, Index
  <1>2. TypeOK'
    <2>1. CASE Mine(t)
      BY <2>1 DEF IInv, TypeOK, TxState, Mine
    <2>2. CASE Evict(t)
      BY <2>2, ChainAssumption DEF IInv, TypeOK, TxState, Evict
    <2>3. CASE Index(t)
      BY <2>3 DEF IInv, TypeOK, TxState, Index
    <2> QED
      BY <2>1, <2>2, <2>3
  <1>3. \A z \in Session : \A i \in 1 .. Len(Chain[z]) : Chain[z][i] \in Tx
    BY ChainAssumption
  <1>4. ScannedConfirmed'
    <2>1. pc' = pc /\ pos' = pos
      BY DEF Mine, Evict, Index
    <2>2. \A z \in Session : Len(Chain[z]) \in Nat /\ pos[z] \in Nat
      BY ChainAssumption DEF IInv, TypeOK
    <2> QED
      BY <1>1, <1>3, <2>1, <2>2 DEF IInv, ScannedConfirmed
  <1>5. ExplorerBehind'
    BY <1>1 DEF IInv, TypeOK, ExplorerBehind, Mine, Evict, Index, Skipped
  <1>6. MempoolAfterParents'
    <2>1. \A u \in Tx : Parents[u] \subseteq Tx
      BY ChainAssumption
    <2>2. \A u \in Tx : onchain'[u] = "mempool" => onchain[u] = "mempool"
      BY DEF IInv, TypeOK, Mine, Evict, Index
    <2> QED
      BY <1>1, <2>1, <2>2 DEF IInv, MempoolAfterParents
  <1> QED
    BY <1>1, <1>2, <1>4, <1>5, <1>6 DEF IInv

\* Every step keeps the invariant.
LEMMA StepInv == IInv /\ [Next]_vars => IInv'
  <1> SUFFICES ASSUME IInv, [Next]_vars PROVE IInv'
    OBVIOUS
  <1>1. CASE \E s \in Session : SessionStep(s)
    <2> PICK s \in Session : SessionStep(s)
      BY <1>1
    <2>1. ExplorerBehind'
      BY SessionChain DEF IInv, ExplorerBehind, Skipped
    <2>2. \A u \in Tx : Parents[u] \subseteq Tx
      BY ChainAssumption
    <2>3. MempoolAfterParents'
      BY <2>2, SessionChain DEF IInv, MempoolAfterParents, Acceptable
    <2> QED
      BY <2>1, <2>3, SessionType, SessionScan DEF IInv
  <1>2. CASE \E t \in Tx : Mine(t) \/ Evict(t) \/ Index(t)
    BY <1>2, NetworkInv
  <1>3. CASE UNCHANGED vars
    BY <1>3, ChainAssumption DEF vars, IInv, TypeOK, ScannedConfirmed, ExplorerBehind, Skipped,
       MempoolAfterParents
  <1> QED
    BY <1>1, <1>2, <1>3 DEF Next

-----------------------------------------------------------------------------
\* The conjuncts of IInv hold in every state of every
\* behaviour of the sessions, the node and the explorer.
THEOREM Invariance == Spec => []IInv
  BY InitInv, StepInv, PTL DEF Spec

\* The variables of Unroll stay in their types; in particular no session's loop
\* index leaves its chain.
THEOREM TypeCorrect == Spec => []TypeOK
  BY Invariance, PTL DEF IInv

\* A package is handed out only after everything it spends from is confirmed:
\* next() of src/src/wallet/unroll.ts, for any chains and any interleaving.
THEOREM BroadcastsFollowTheChain == Spec => []ParentsFirst
  <1>1. IInv => ParentsFirst
    <2> SUFFICES ASSUME IInv, NEW s \in Session,
                        pc[s] \in {"fetching", "bumping", "announcing", "broadcasting"},
                        NEW p \in Parents[Target(s)]
                 PROVE  onchain[p] = "confirmed"
      BY DEF ParentsFirst
    <2>1. pos[s] \in 1 .. Len(Chain[s]) /\ Len(Chain[s]) \in Nat
      BY ChainAssumption DEF IInv, TypeOK, ScannedConfirmed
    <2>2. PICK j \in (pos[s] + 1) .. Len(Chain[s]) : Chain[s][j] = p
      BY <2>1, OrderAssumption DEF Target
    <2> QED
      BY <2>1, <2>2 DEF IInv, ScannedConfirmed
  <1> QED
    BY <1>1, Invariance, PTL

\* A session that reports DONE has its whole chain confirmed.
THEOREM DoneMeansConfirmed == Spec => []DoneIsConfirmed
  <1>1. IInv => DoneIsConfirmed
    BY ChainAssumption DEF IInv, TypeOK, ScannedConfirmed, DoneIsConfirmed
  <1> QED
    BY <1>1, Invariance, PTL

\* The sessions, the mempool and the explorer implement the promise of Exit:
\* confirmations follow the chain, and a session is done only after all of its own.
THEOREM ImplementsExit == Spec => ExitSpec
  <1> DEFINE conf == {t \in Tx : onchain[t] = "confirmed"}
             out == {s \in Session : pc[s] = "done"}
  <1>1. Init => Exit!Init
    BY DEF Init, Exit!Init
  <1>2. IInv /\ IInv' /\ [Next]_vars => [Exit!Next]_<<conf, out>>
    <2> SUFFICES ASSUME IInv, IInv', [Next]_vars PROVE Exit!Next \/ UNCHANGED <<conf, out>>
      OBVIOUS
    <2>1. CASE \E s \in Session : SessionStep(s)
      <3> PICK s \in Session : SessionStep(s)
        BY <2>1
      <3>1. conf' = conf
        BY SessionChain
      <3>2. CASE ScanDone(s)
        <4>1. out' = out \cup {s} /\ s \notin out
          BY <3>2 DEF ScanDone, Goto, IInv, TypeOK
        <4>2. \A i \in 1 .. Len(Chain[s]) : Chain[s][i] \in conf
          BY <3>2, ChainAssumption DEF ScanDone, IInv, TypeOK, ScannedConfirmed
        <4>3. Exit!Leave(s)
          BY <3>1, <4>1, <4>2 DEF Exit!Leave
        <4> QED
          BY <4>3 DEF Exit!Next
      <3>3. CASE ~ScanDone(s)
        <4>1. \A z \in Session : pc'[z] = "done" <=> pc[z] = "done"
          BY <3>3 DEF IInv, TypeOK, SessionStep, ScanConfirmed, ScanUnconfirmed, ScanThrows,
             Fetched, Throw, Bumped, Announced, Broadcasted, BroadcastThrows, Confirmed,
             PollThrows, Awake, Goto
        <4> QED
          BY <3>1, <4>1
      <3> QED
        BY <3>2, <3>3
    <2>2. CASE \E t \in Tx : Mine(t)
      <3> PICK t \in Tx : Mine(t)
        BY <2>2
      <3>1. conf' = conf \cup {t} /\ t \notin conf /\ out' = out
        BY DEF Mine, IInv, TypeOK
      <3>2. Parents[t] \subseteq conf
        BY ChainAssumption DEF Mine, IInv, MempoolAfterParents
      <3>3. Exit!Confirm(t)
        BY <3>1, <3>2 DEF Exit!Confirm
      <3> QED
        BY <3>3 DEF Exit!Next
    <2>3. CASE \E t \in Tx : Evict(t) \/ Index(t)
      BY <2>3 DEF Evict, Index, IInv, TypeOK
    <2>4. CASE UNCHANGED vars
      BY <2>4 DEF vars
    <2> QED
      BY <2>1, <2>2, <2>3, <2>4 DEF Next
  <1> QED
    BY <1>1, <1>2, Invariance, PTL DEF Spec, ExitSpec, Exit!Spec
==============================================================================
