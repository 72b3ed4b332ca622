-------------------------------- MODULE Unroll --------------------------------
(***************************************************************************)
(* The unilateral exit: Unroll.Session (src/src/wallet/unroll.ts) brings   *)
(* the virtual transactions a vtxo hangs from onchain, oldest first, each  *)
(* in a package with a fee-paying child made by OnchainWallet.bumpP2A      *)
(* (src/src/wallet/onchain.ts).  Several sessions of one onchain wallet    *)
(* run side by side and may share transactions and coins.                  *)
(*                                                                         *)
(* The Bitcoin network and the explorer are external.  The node accepts a  *)
(* package when the parents of its first transaction are confirmed; the    *)
(* explorer shows an older state of the chain until it has indexed it; and *)
(* requests may fail.  There are no reorganisations.                       *)
(***************************************************************************)
EXTENDS Naturals, Sequences, FiniteSets

CONSTANTS
    Tx,             \* transactions of the vtxos' chains
    Parents,        \* Parents[t]: the transactions of Tx that t spends from
    Kind,           \* Kind[t]: the ChainTxType of t
    Session,        \* unroll sessions
    Chain,          \* Chain[s]: what getVtxoChain answered, the vtxo's tx first
    Coin, NoCoin,   \* coins of the onchain wallet, big enough for any fee
    MaxFailures,    \* bound: failing requests and refused packages
    MaxEvictions    \* bound: transactions that leave the mempool

ASSUME ChainAssumption ==
    /\ Parents \in [Tx -> SUBSET Tx]
    /\ Kind \in [Tx -> {"commitment", "unspecified", "tree", "checkpoint", "ark"}]
    /\ Chain \in [Session -> Seq(Tx)]
    /\ IsFiniteSet(Tx)
    /\ NoCoin \notin Coin
    /\ MaxFailures \in Nat /\ MaxEvictions \in Nat

\* The indexer answers with a transaction's whole ancestry, in topological
\* order: a transaction comes before those it spends from.
ASSUME OrderAssumption ==
    \A s \in Session : \A i \in 1 .. Len(Chain[s]) : \A p \in Parents[Chain[s][i]] :
        \E j \in (i + 1) .. Len(Chain[s]) : Chain[s][j] = p

VARIABLES
    onchain,        \* onchain[t]: "offchain", "mempool" or "confirmed"
    explorer,       \* explorer[t]: the same, as the explorer last saw it
    child,          \* child[t]: coin spent by the child of t in the mempool
    pc,             \* what each session awaits
    pos,            \* pos[s]: the index i of next()'s loop
    coin,           \* coin[s]: coin the child transaction of s spends
    failures, evictions

vars == <<onchain, explorer, child, pc, pos, coin, failures, evictions>>

TxState == {"offchain", "mempool", "confirmed"}

\* Commitment transactions are always onchain: next() skips them.
Skipped(t) == Kind[t] \in {"commitment", "unspecified"}

TypeOK ==
    /\ onchain \in [Tx -> TxState]
    /\ explorer \in [Tx -> TxState]
    /\ child \in [Tx -> Coin \cup {NoCoin}]
    /\ pc \in [Session -> {"scanning", "fetching", "bumping", "announcing",
                           "broadcasting", "waiting", "sleeping", "done", "threw"}]
    /\ pos \in [Session -> Nat]
    /\ coin \in [Session -> Coin \cup {NoCoin}]
    /\ failures \in 0 .. MaxFailures
    /\ evictions \in 0 .. MaxEvictions
    /\ \A s \in Session : pos[s] \in 0 .. Len(Chain[s])

Init ==
    /\ onchain = [t \in Tx |-> IF Skipped(t) THEN "confirmed" ELSE "offchain"]
    /\ explorer = onchain
    /\ child = [t \in Tx |-> NoCoin]
    /\ pc = [s \in Session |-> "scanning"]
    /\ pos = [s \in Session |-> Len(Chain[s])]
    /\ coin = [s \in Session |-> NoCoin]
    /\ failures = 0 /\ evictions = 0

chainVars == <<onchain, explorer, child, evictions>>

Target(s) == Chain[s][pos[s]]

Goto(s, label) == pc' = [pc EXCEPT ![s] = label]

\* A request fails, or its answer is lost.
Fail ==
    /\ failures < MaxFailures
    /\ failures' = failures + 1

-----------------------------------------------------------------------------
(* next(): one action per turn of the loop. *)

\* Faulty: a transaction of the mempool is passed over as well.
ScanFound(s) ==
    /\ pc[s] = "scanning" /\ pos[s] > 0
    /\ Skipped(Target(s)) \/ explorer[Target(s)] # "offchain"
    /\ pos' = [pos EXCEPT ![s] = @ - 1]
    /\ UNCHANGED <<chainVars, pc, coin, failures>>

\* A transaction that is skipped, or that the explorer answers is confirmed.
ScanConfirmed(s) ==
    /\ pc[s] = "scanning" /\ pos[s] > 0
    /\ Skipped(Target(s)) \/ explorer[Target(s)] = "confirmed"
    /\ pos' = [pos EXCEPT ![s] = @ - 1]
    /\ UNCHANGED <<chainVars, pc, coin, failures>>

\* In the mempool: the WAIT step.
ScanUnconfirmed(s) ==
    /\ pc[s] = "scanning" /\ pos[s] > 0
    /\ ~Skipped(Target(s)) /\ explorer[Target(s)] = "mempool"
    /\ Goto(s, "waiting")
    /\ UNCHANGED <<chainVars, pos, coin, failures>>

\* getTxStatus throws: it answers 404, or one of its two requests fails.
\* The loop breaks with this transaction as the next to broadcast.
ScanThrows(s) ==
    /\ pc[s] = "scanning" /\ pos[s] > 0 /\ ~Skipped(Target(s))
    /\ Fail \/ (explorer[Target(s)] = "offchain" /\ UNCHANGED failures)
    /\ Goto(s, "fetching")
    /\ UNCHANGED <<chainVars, pos, coin>>

\* Faulty: the loop stops before the vtxo's own transaction.
ScanDoneEarly(s) ==
    /\ pc[s] = "scanning" /\ pos[s] = 1
    /\ Goto(s, "done")
    /\ UNCHANGED <<chainVars, pos, coin, failures>>

\* The loop found nothing to broadcast: DONE, and the generator returns.
ScanDone(s) ==
    /\ pc[s] = "scanning" /\ pos[s] = 0
    /\ Goto(s, "done")
    /\ UNCHANGED <<chainVars, pos, coin, failures>>

\* getVirtualTxs answers and the transaction's witness is finalised: the
\* UNROLL step, executed at once.  The answer may be empty, or unsigned.
Fetched(s) ==
    /\ pc[s] = "fetching"
    /\ Goto(s, "bumping")
    /\ UNCHANGED <<chainVars, pos, coin, failures>>

\* An error of getVirtualTxs, of finalisation, of bumpP2A's requests or
\* coin selection ends the session.
Throw(s) ==
    /\ pc[s] \in {"fetching", "bumping"}
    /\ Fail
    /\ Goto(s, "threw")
    /\ UNCHANGED <<chainVars, pos, coin>>

-----------------------------------------------------------------------------
(* doUnroll: bumpP2A, which broadcasts the package, and a second broadcast. *)

\* bumpP2A reads its coins (unconfirmed change included) and signs a child.
Bumped(s) ==
    /\ pc[s] = "bumping"
    /\ \E c \in Coin : coin' = [coin EXCEPT ![s] = c]
    /\ Goto(s, "announcing")
    /\ UNCHANGED <<chainVars, pos, failures>>

\* Transactions of the mempool whose child spends c.
SpendersOf(c) == {t \in Tx : onchain[t] = "mempool" /\ child[t] = c}

\* The node's rule: an unknown transaction's parents must be confirmed.
Acceptable(t) ==
    onchain[t] = "offchain" /\ \A p \in Parents[t] : onchain[p] = "confirmed"

\* The package <<t, child spending c>> enters the mempool.  Where the coin is
\* spent by another child, that child and its parent are replaced.
Enter(t, c) ==
    /\ Acceptable(t)
    /\ LET replaced == SpendersOf(c) IN
        /\ evictions + Cardinality(replaced) <= MaxEvictions
        /\ evictions' = evictions + Cardinality(replaced)
        /\ onchain' = [u \in Tx |-> IF u = t THEN "mempool"
                                    ELSE IF u \in replaced THEN "offchain" ELSE onchain[u]]
        /\ child' = [u \in Tx |-> IF u = t THEN c
                                  ELSE IF u \in replaced THEN NoCoin ELSE child[u]]
    /\ UNCHANGED explorer

\* The node leaves its mempool as it is: it knows the transaction, the parents
\* are missing, the coin is spent, or it refuses the package for its own reasons.
LeaveOut(t, c) ==
    /\ \/ ~Acceptable(t) /\ UNCHANGED failures
       \/ SpendersOf(c) # {} /\ UNCHANGED failures
       \/ Fail
    /\ UNCHANGED chainVars

\* bumpP2A's own broadcast; whatever comes of it, it returns the package.
Announced(s) ==
    /\ pc[s] = "announcing"
    /\ \/ Enter(Target(s), coin[s]) /\ UNCHANGED failures
       \/ LeaveOut(Target(s), coin[s])
    /\ Goto(s, "broadcasting")
    /\ UNCHANGED <<pos, coin>>

\* doUnroll broadcasts the same package and is answered with HTTP success,
\* which says nothing of the package.  The step is yielded; sleep(1 second).
Broadcasted(s) ==
    /\ pc[s] = "broadcasting"
    /\ \/ Enter(Target(s), coin[s]) /\ UNCHANGED failures
       \/ LeaveOut(Target(s), coin[s])
    /\ Goto(s, "sleeping")
    /\ UNCHANGED <<pos, coin>>

\* An HTTP error: the package was refused, or the answer to it was lost.
BroadcastThrows(s) ==
    /\ pc[s] = "broadcasting"
    /\ \/ LeaveOut(Target(s), coin[s])
       \/ Enter(Target(s), coin[s]) /\ Fail
    /\ Goto(s, "threw")
    /\ UNCHANGED <<pos, coin>>

-----------------------------------------------------------------------------
(* doWait, and the generator's loop. *)

\* The poll of doWait sees the confirmation.
Confirmed(s) ==
    /\ pc[s] = "waiting" /\ explorer[Target(s)] = "confirmed"
    /\ Goto(s, "sleeping")
    /\ UNCHANGED <<chainVars, pos, coin, failures>>

\* Faulty: a poll that fails is not reported; the interval goes on.
PollSwallowed(s) ==
    /\ pc[s] = "waiting"
    /\ Fail
    /\ UNCHANGED <<chainVars, pc, pos, coin>>

\* The poll of doWait rejects: the transaction is gone, or a request failed.
PollThrows(s) ==
    /\ pc[s] = "waiting"
    /\ Fail \/ (explorer[Target(s)] = "offchain" /\ UNCHANGED failures)
    /\ Goto(s, "threw")
    /\ UNCHANGED <<chainVars, pos, coin>>

\* Faulty: the next step goes on from the transaction just broadcast.
AwakeAfter(s) ==
    /\ pc[s] = "sleeping"
    /\ Goto(s, "scanning")
    /\ pos' = [pos EXCEPT ![s] = @ - 1]
    /\ UNCHANGED <<chainVars, coin, failures>>

\* Faulty: the loop starts past the end of the chain.
AwakePastTheEnd(s) ==
    /\ pc[s] = "sleeping"
    /\ Goto(s, "scanning")
    /\ pos' = [pos EXCEPT ![s] = Len(Chain[s]) + 1]
    /\ UNCHANGED <<chainVars, coin, failures>>

\* The next step starts over from the end of the chain.
Awake(s) ==
    /\ pc[s] = "sleeping"
    /\ Goto(s, "scanning")
    /\ pos' = [pos EXCEPT ![s] = Len(Chain[s])]
    /\ UNCHANGED <<chainVars, coin, failures>>

-----------------------------------------------------------------------------
(* The network. *)

Mine(t) ==
    /\ onchain[t] = "mempool"
    /\ onchain' = [onchain EXCEPT ![t] = "confirmed"]
    /\ child' = [child EXCEPT ![t] = NoCoin]
    /\ UNCHANGED <<explorer, evictions, pc, pos, coin, failures>>

Evict(t) ==
    /\ onchain[t] = "mempool" /\ evictions < MaxEvictions
    /\ onchain' = [onchain EXCEPT ![t] = "offchain"]
    /\ child' = [child EXCEPT ![t] = NoCoin]
    /\ evictions' = evictions + 1
    /\ UNCHANGED <<explorer, pc, pos, coin, failures>>

Index(t) ==
    /\ explorer[t] # onchain[t]
    /\ explorer' = [explorer EXCEPT ![t] = onchain[t]]
    /\ UNCHANGED <<onchain, child, evictions, pc, pos, coin, failures>>

SessionStep(s) ==
    \/ ScanConfirmed(s) \/ ScanUnconfirmed(s) \/ ScanThrows(s) \/ ScanDone(s)
    \/ Fetched(s) \/ Throw(s)
    \/ Bumped(s) \/ Announced(s) \/ Broadcasted(s) \/ BroadcastThrows(s)
    \/ Confirmed(s) \/ PollThrows(s) \/ Awake(s)

Next ==
    \/ \E s \in Session : SessionStep(s)
    \/ \E t \in Tx : Mine(t) \/ Evict(t) \/ Index(t)

Spec == Init /\ [][Next]_vars

\* The runtime goes on and requests are answered, blocks are mined, and the
\* explorer catches up.  Failures and evictions are never due.
Fairness ==
    /\ \A s \in Session : WF_vars(SessionStep(s))
    /\ \A t \in Tx : WF_vars(Mine(t)) /\ WF_vars(Index(t))

FairSpec == Spec /\ Fairness

-----------------------------------------------------------------------------
\* A session hands out a package only once everything its transaction spends
\* from is confirmed, however stale the answers that led it there: "Each unroll
\* step must be confirmed before proceeding to the next".
ParentsFirst ==
    \A s \in Session :
        pc[s] \in {"fetching", "bumping", "announcing", "broadcasting"} =>
            \A p \in Parents[Target(s)] : onchain[p] = "confirmed"

\* A session that reports DONE has its whole chain confirmed, whoever else
\* broadcast, replaced or waited for the same transactions meanwhile.
DoneIsConfirmed ==
    \A s \in Session : pc[s] = "done" =>
        \A i \in 1 .. Len(Chain[s]) : onchain[Chain[s][i]] = "confirmed"

\* "If the tx is not found, it's offchain", the only reason to unroll it: a
\* transaction the explorer does know is never the next to broadcast.
UnrollsOnlyNotFound ==
    [][\A s \in Session :
        pc[s] = "scanning" /\ pc'[s] = "fetching" => explorer[Target(s)] = "offchain"]_vars

\* Every session returns or throws: no poll, refused package or replaced
\* child keeps it going for ever once failures have ceased.
SessionEnds == \A s \in Session : <>(pc[s] \in {"done", "threw"})

\* What confirmed parents and waiting sessions promise together, inductively.
ScannedConfirmed ==
    \A s \in Session :
        /\ pc[s] \in {"scanning", "fetching", "bumping", "announcing", "broadcasting", "done"} =>
            \A i \in (pos[s] + 1) .. Len(Chain[s]) : onchain[Chain[s][i]] = "confirmed"
        /\ pc[s] \in {"fetching", "bumping", "announcing", "broadcasting", "waiting"} =>
            pos[s] > 0
        /\ pc[s] = "done" => pos[s] = 0

ExplorerBehind ==
    \A t \in Tx : (explorer[t] = "confirmed" \/ Skipped(t)) => onchain[t] = "confirmed"

MempoolAfterParents ==
    \A t \in Tx : onchain[t] = "mempool" => \A p \in Parents[t] : onchain[p] = "confirmed"

IInv == TypeOK /\ ScannedConfirmed /\ ExplorerBehind /\ MempoolAfterParents

-----------------------------------------------------------------------------
\* The promise of the sessions, whatever is in between: transactions get
\* confirmed after their parents, and a vtxo is out only after all its chain.
Exit == INSTANCE Exit WITH
            confirmed <- {t \in Tx : onchain[t] = "confirmed"},
            exited <- {s \in Session : pc[s] = "done"},
            Root <- {t \in Tx : Skipped(t)}

ExitSpec == Exit!Spec
==============================================================================
