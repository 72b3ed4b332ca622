---------------------------- MODULE CompleteUnroll ----------------------------
(***************************************************************************)
(* Unroll.completeUnroll (src/src/wallet/unroll.ts): one transaction that  *)
(* spends unrolled vtxos through their exit path, once its relative        *)
(* timelock has expired.  The chain grows while the call is suspended: the *)
(* tip is read first, each vtxo's confirmation later, and the transaction  *)
(* is judged by the node at the end.                                       *)
(*                                                                         *)
(* The chain is external: block h has a timestamp blockTime[h], later than *)
(* the median time of the blocks before it, and median times never go      *)
(* back.  A relative timelock counts from the block before the             *)
(* confirmation (BIP68) and OP_CHECKSEQUENCEVERIFY compares it with the    *)
(* input's sequence (BIP112).                                              *)
(***************************************************************************)
EXTENDS Integers, Sequences, FiniteSets, Functions, TxSize

CONSTANTS
    Vtxo,           \* the wallet's vtxos with a requested txid
    Amount,         \* Amount[v]: value of v
    Leaves,         \* leaves of the vtxos' tap tree, in order
    SmallNumber,    \* largest number with an opcode of its own (16)
    Provider,       \* "esplora", or "other": the interface OnchainProvider
    FeeRates,       \* answers of getFeeRate, in tenths of a sat per vbyte
    Dust,           \* smallest output the node relays
    MaxHeight,      \* bound: length of the chain
    MaxStep,        \* bound: seconds between median times
    MaxFailures     \* bound: failing requests

ASSUME ExitAssumption ==
    /\ IsFiniteSet(Vtxo)
    /\ Amount \in [Vtxo -> Nat]
    /\ Leaves \in Seq([kind : {"multisig", "csv", "conditionCsv"},
                       type : {"blocks", "seconds"}, value : Nat])
    /\ Provider \in {"esplora", "other"}
    /\ FeeRates \subseteq Nat
    /\ MaxHeight \in Nat \ {0} /\ MaxStep \in Nat /\ MaxFailures \in Nat

VARIABLES
    blockTime, medianTime,      \* of each block of the chain
    confirmedAt,    \* confirmedAt[v]: height of v's transaction, 0 if none
    unrolled,       \* vtxos the indexer marks isUnrolled
    spent,          \* vtxos whose output is spent onchain
    pc,             \* what completeUnroll awaits
    tip,            \* the chain tip it read
    found,          \* the requested vtxos that were listed
    out,            \* those that were listed as isUnrolled
    todo,           \* those the loop has not come to
    inputs,         \* [vtxo, exit] of the transaction's inputs
    total,          \* totalAmount
    output,         \* amount of its output
    failures,
    readyAtStart    \* history: whether all was ready when the tip was read

chainVars == <<blockTime, medianTime, confirmedAt, unrolled, spent>>
callVars == <<pc, tip, found, out, todo, inputs, total, output, failures, readyAtStart>>
vars == <<chainVars, callVars>>

Height == Len(blockTime)

(***************************************************************************)
(* VtxoScript.exitPaths: the leaves that decode as one of the two CSV      *)
(* closures.  encode writes a sequence of one byte as a number; where that *)
(* number has an opcode of its own, decode is given a number and throws.   *)
(***************************************************************************)
Decodes(leaf) ==
    /\ leaf.kind \in {"csv", "conditionCsv"}
    /\ leaf.type = "blocks" => leaf.value > SmallNumber
ExitPaths == {i \in 1 .. Len(Leaves) : Decodes(Leaves[i])}

\* Faulty: a timelock in seconds is compared with heights.
AvailableByHeight(exit, confirmed, current) ==
    current.height >= confirmed.height + exit.value

\* The test of availableExitPath.
Available(exit, confirmed, current) ==
    IF exit.type = "blocks" THEN current.height >= confirmed.height + exit.value
                            ELSE current.time >= confirmed.time + exit.value

\* The exit paths of v that are available at the tip that was read;
\* availableExitPath returns the first.
AvailablePaths(v) ==
    {i \in ExitPaths :
        Available(Leaves[i], [height |-> confirmedAt[v], time |-> blockTime[confirmedAt[v]]], tip)}
FirstAvailable(v, i) ==
    i \in AvailablePaths(v) /\ \A j \in AvailablePaths(v) : i <= j

\* BIP68, for a transaction in the next block.
Mature(exit, v) ==
    /\ confirmedAt[v] > 1
    /\ IF exit.type = "blocks"
       THEN Height + 1 >= confirmedAt[v] + exit.value
       ELSE medianTime[Height] >= medianTime[confirmedAt[v] - 1] + exit.value

\* The sequence 0xffffffff - 1 of every input: bit 31 disables it.
InputSequence == [disabled |-> TRUE, type |-> "seconds", value |-> 65534]

\* BIP112.
ChecksSequence(sequence, exit) ==
    ~sequence.disabled /\ sequence.type = exit.type /\ sequence.value >= exit.value

\* A tapscript input is a 64 byte signature, the exit script of 40 bytes and a
\* control block of one level.
ExitVSize(n) ==
    LET withInputs[k \in 0 .. n] ==
            IF k = 0 THEN Create ELSE AddTapscriptInput(withInputs[k - 1], 64, 40, 65)
    IN  VSize(AddP2TROutput(withInputs[n]))

MinFeeRate == 10
EffectiveRate(rate) == IF rate < MinFeeRate THEN MinFeeRate ELSE rate

\* BigInt(feeRate) throws on a fraction.
IsBigInt(rate) == rate % 10 = 0

Fee(n, rate) == ExitVSize(n) * (rate \div 10)

StateOK ==
    /\ blockTime \in Seq(Nat) /\ medianTime \in Seq(Nat)
    /\ Len(medianTime) = Height /\ Height \in 1 .. MaxHeight
    /\ confirmedAt \in [Vtxo -> 0 .. Height]
    /\ unrolled \subseteq Vtxo /\ spent \subseteq Vtxo
    /\ pc \in {"start", "listing", "checking", "paying", "broadcasting", "returned", "threw"}
    /\ tip \in [height : Nat, time : Nat]
    /\ found \subseteq Vtxo /\ todo \subseteq found /\ out \subseteq unrolled
    /\ inputs \subseteq [vtxo : Vtxo, exit : ExitPaths]
    /\ failures \in 0 .. MaxFailures

AmountsOK == total \in Nat /\ output \in Nat /\ readyAtStart \in BOOLEAN

TypeOK == StateOK /\ AmountsOK

Init ==
    /\ blockTime = <<1>> /\ medianTime = <<1>>
    /\ confirmedAt = [v \in Vtxo |-> 0]
    /\ unrolled = {} /\ spent = {}
    /\ pc = "start" /\ tip = [height |-> 0, time |-> 0]
    /\ found = {} /\ out = {} /\ todo = {} /\ inputs = {} /\ total = 0 /\ output = 0
    /\ failures = 0 /\ readyAtStart = FALSE

-----------------------------------------------------------------------------
(* completeUnroll, an action per request it awaits. *)

\* Every requested vtxo is out, mature, unspent, and worth any fee.
Ready ==
    /\ unrolled = Vtxo /\ spent = {}
    /\ \A v \in Vtxo : confirmedAt[v] > 1 /\ \E i \in 1 .. Len(Leaves) :
          /\ Leaves[i].kind = "csv"
          /\ Available(Leaves[i], [height |-> confirmedAt[v], time |-> blockTime[confirmedAt[v]]],
                       [height |-> Height, time |-> medianTime[Height]])
    /\ \A rate \in FeeRates :
          SumFunctionOnSet(Amount, Vtxo)
            >= Dust + ExitVSize(Cardinality(Vtxo)) * CeilDiv(EffectiveRate(rate), 10)

\* isValidBlocksTip: the callback of every() returns nothing, so that any list
\* but the empty one is rejected; and the empty one has no tip.
ValidBlocksTip(blocks) == blocks = <<>>
AnswersTip(blocks) ==
    Provider = "esplora" => ValidBlocksTip(blocks) /\ blocks # <<>>

ReadTip ==
    /\ pc = "start"
    /\ tip' = [height |-> Height, time |-> medianTime[Height]]
    /\ pc' = IF AnswersTip(blockTime) THEN "listing" ELSE "threw"
    /\ readyAtStart' = Ready
    /\ UNCHANGED <<chainVars, found, out, todo, inputs, total, output, failures>>

\* wallet.getVtxos({ withUnrolled: true }) lists what is unrolled or spendable.
\* A requested vtxo that is neither (it was spent offchain, or swept) is skipped
\* without a word; only if none is left the call throws.
ListVtxos ==
    /\ pc = "listing"
    /\ \E listed \in SUBSET Vtxo : unrolled \subseteq listed /\ found' = listed
    /\ out' = unrolled /\ todo' = found'
    /\ pc' = IF found' = {} THEN "threw" ELSE "checking"
    /\ UNCHANGED <<chainVars, tip, inputs, total, output, failures, readyAtStart>>

\* Faulty: the sum starts over with every vtxo.
CheckVtxoForgets(v) ==
    /\ pc = "checking" /\ v \in todo
    /\ v \in out /\ confirmedAt[v] > 0
    /\ \E i \in ExitPaths :
        FirstAvailable(v, i) /\ inputs' = inputs \cup {[vtxo |-> v, exit |-> i]}
    /\ total' = Amount[v]
    /\ todo' = todo \ {v}
    /\ pc' = IF todo' = {} THEN "paying" ELSE "checking"
    /\ UNCHANGED <<chainVars, tip, found, out, output, failures, readyAtStart>>

\* One turn of the loop finds v listed as unrolled, confirmed by now and with an
\* exit path.
CheckVtxo(v) ==
    /\ pc = "checking" /\ v \in todo
    /\ v \in out /\ confirmedAt[v] > 0
    /\ \E i \in ExitPaths :
        FirstAvailable(v, i) /\ inputs' = inputs \cup {[vtxo |-> v, exit |-> i]}
    /\ total' = total + Amount[v]
    /\ todo' = todo \ {v}
    /\ pc' = IF todo' = {} THEN "paying" ELSE "checking"
    /\ UNCHANGED <<chainVars, tip, found, out, output, failures, readyAtStart>>

CheckThrows(v) ==
    /\ pc = "checking" /\ v \in todo
    /\ \/ v \notin out
       \/ confirmedAt[v] = 0
       \/ confirmedAt[v] > 0 /\ AvailablePaths(v) = {}
    /\ pc' = "threw"
    /\ UNCHANGED <<chainVars, tip, found, out, todo, inputs, total, output, failures, readyAtStart>>

\* Faulty: the fee is not compared with the total.
PayAnything(rate) ==
    /\ pc = "paying"
    /\ IsBigInt(EffectiveRate(rate))
    /\ output' = total - Fee(Cardinality(inputs), EffectiveRate(rate))
    /\ pc' = "broadcasting"
    /\ UNCHANGED <<chainVars, tip, found, out, todo, inputs, total, failures, readyAtStart>>

\* getFeeRate answers; what the fee leaves is the one output.
Pay(rate) ==
    /\ pc = "paying"
    /\ IsBigInt(EffectiveRate(rate))
    /\ Fee(Cardinality(inputs), EffectiveRate(rate)) <= total
    /\ output' = total - Fee(Cardinality(inputs), EffectiveRate(rate))
    /\ pc' = "broadcasting"
    /\ UNCHANGED <<chainVars, tip, found, out, todo, inputs, total, failures, readyAtStart>>

PayThrows(rate) ==
    /\ pc = "paying"
    /\ ~IsBigInt(EffectiveRate(rate)) \/ Fee(Cardinality(inputs), EffectiveRate(rate)) > total
    /\ pc' = "threw"
    /\ UNCHANGED <<chainVars, tip, found, out, todo, inputs, total, output, failures, readyAtStart>>

\* What the node asks of the transaction.
NodeAccepts ==
    /\ output >= Dust
    /\ \A in \in inputs :
        /\ in.vtxo \notin spent
        /\ Mature(Leaves[in.exit], in.vtxo)
        /\ ChecksSequence(InputSequence, Leaves[in.exit])

Broadcast ==
    /\ pc = "broadcasting"
    /\ pc' = IF NodeAccepts THEN "returned" ELSE "threw"
    /\ spent' = IF NodeAccepts THEN spent \cup {in.vtxo : in \in inputs} ELSE spent
    /\ UNCHANGED <<blockTime, medianTime, confirmedAt, unrolled, tip, found, out, todo, inputs,
                   total, output, failures, readyAtStart>>

\* Any request may fail.
RequestThrows ==
    /\ pc \in {"start", "listing", "checking", "paying", "broadcasting"}
    /\ failures < MaxFailures /\ failures' = failures + 1
    /\ pc' = "threw"
    /\ UNCHANGED <<chainVars, tip, found, out, todo, inputs, total, output, readyAtStart>>

-----------------------------------------------------------------------------
(* The chain, the indexer and the wallet's other devices. *)

\* The next block confirms any of the transactions that are not yet.
MineBlock ==
    /\ Height < MaxHeight
    /\ \E median \in medianTime[Height] .. (medianTime[Height] + MaxStep),
          time \in (medianTime[Height] + 1) .. (medianTime[Height] + MaxStep + 1) :
        /\ medianTime' = Append(medianTime, median)
        /\ blockTime' = Append(blockTime, time)
    /\ \E S \in SUBSET {v \in Vtxo : confirmedAt[v] = 0} :
        confirmedAt' = [v \in Vtxo |-> IF v \in S THEN Height + 1 ELSE confirmedAt[v]]
    /\ UNCHANGED <<unrolled, spent, callVars>>

\* The indexer learns of a vtxo's transaction, in the mempool or in a block.
MarkUnrolled(v) ==
    /\ v \notin unrolled
    /\ unrolled' = unrolled \cup {v}
    /\ UNCHANGED <<blockTime, medianTime, confirmedAt, spent, callVars>>

\* Another device of the same key completed the exit of v.
SpendElsewhere(v) ==
    /\ confirmedAt[v] > 0 /\ v \notin spent
    /\ spent' = spent \cup {v}
    /\ UNCHANGED <<blockTime, medianTime, confirmedAt, unrolled, callVars>>

Next ==
    \/ ReadTip \/ ListVtxos \/ Broadcast \/ RequestThrows \/ MineBlock
    \/ \E v \in Vtxo : CheckVtxo(v) \/ CheckThrows(v) \/ MarkUnrolled(v) \/ SpendElsewhere(v)
    \/ \E rate \in FeeRates : Pay(rate) \/ PayThrows(rate)

Spec == Init /\ [][Next]_vars

-----------------------------------------------------------------------------
\* The exit path chosen with an old tip and the timestamps of blocks is mature
\* by the rules of the chain when the transaction is broadcast: completeUnroll
\* never spends the timelock early.
ExitsAreMature ==
    pc = "broadcasting" => \A in \in inputs : Mature(Leaves[in.exit], in.vtxo)

\* The transaction spends all the vtxos that were found, at least one, each once
\* and each out, and pays out their sum less the fee of a rate that was answered:
\* a vtxo that turns out not to be ready stops the call instead of being left
\* behind.  (One that was not found is left behind: see ExitsAllRequested.)
ExitConservesValue ==
    pc = "broadcasting" =>
        /\ found # {}
        /\ {in.vtxo : in \in inputs} = found /\ Cardinality(inputs) = Cardinality(found)
        /\ found \subseteq unrolled
        /\ \E rate \in FeeRates :
              output + Fee(Cardinality(found), EffectiveRate(rate))
                = SumFunctionOnSet(Amount, found)

\* "@throws ... if the txids are not found" (unroll.ts:226): what is broadcast
\* exits every requested vtxo.  The code does not keep it: it throws only if
\* none of them is found.
ExitsAllRequested ==
    pc = "broadcasting" => {in.vtxo : in \in inputs} = Vtxo

\* "Once VTXOs are fully unrolled and the unilateral exit timelock has expired,
\* you can complete the exit": a call that starts when all is ready, and whose
\* requests are answered, does not throw.
ReadyExitCompletes ==
    pc = "threw" /\ readyAtStart => failures > 0 \/ spent # {}

\* What the chain guarantees: timestamps are later than the median time before,
\* and median times do not decrease.
ChainInv ==
    /\ \A i, j \in 1 .. Height : i <= j => medianTime[i] <= medianTime[j]
    /\ \A i \in 2 .. Height : blockTime[i] > medianTime[i - 1]
    /\ \A v \in Vtxo : confirmedAt[v] # 1

\* The tip that was read is a block of the chain, and every input was found
\* available at it.
InputsInv ==
    pc \in {"listing", "checking", "paying", "broadcasting"} =>
        /\ tip.height \in 1 .. Height /\ tip.time = medianTime[tip.height]
        /\ \A in \in inputs : confirmedAt[in.vtxo] > 0 /\ in.exit \in AvailablePaths(in.vtxo)

\* Until the vtxos are listed the transaction is empty.
StartInv == pc \in {"start", "listing"} => inputs = {} /\ total = 0

\* The transaction has an input for each vtxo the loop has passed, and their sum.
TallyInv ==
    pc \in {"checking", "paying", "broadcasting"} =>
        /\ {in.vtxo : in \in inputs} = found \ todo
        /\ IsFiniteSet(inputs) /\ Cardinality(inputs) = Cardinality(found \ todo)
        /\ found \ todo \subseteq out
        /\ total = SumFunctionOnSet(Amount, found \ todo)
        /\ found # {} /\ (pc # "checking" => todo = {})
        /\ pc = "broadcasting" => \E rate \in FeeRates :
              output = total - Fee(Cardinality(inputs), EffectiveRate(rate))

IInv == StateOK /\ AmountsOK /\ ChainInv /\ InputsInv /\ StartInv /\ TallyInv
==============================================================================
