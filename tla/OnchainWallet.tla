---------------------------- MODULE OnchainWallet ----------------------------
(***************************************************************************)
(* OnchainWallet (src/src/wallet/onchain.ts): send pays an address, bumpP2A *)
(* pays the fee of an unroll transaction with a child.  Calls run          *)
(* concurrently: each reads the coins and the fee rate in requests of its  *)
(* own, chooses coins among those it read, and broadcasts when others may  *)
(* have spent them.                                                        *)
(*                                                                         *)
(* The provider and the node are external: a list of unspent outputs, any  *)
(* fee rate, and a node that takes a transaction when its inputs are       *)
(* unspent and its outputs are not dust.                                   *)
(***************************************************************************)
EXTENDS CoinSelection, TxSize, Sequences

CONSTANTS
    Call,           \* concurrent calls
    Funding,        \* sets of values the wallet may start with
    Received,       \* values that may be received later
    Amounts,        \* amounts asked of send
    FeeRates,       \* answers of getFeeRate, in tenths of a sat per vbyte; 0: none
    ParentVSize,    \* size of the transaction that bumpP2A pays for
    Relay,          \* smallest output the node relays
    MaxCoin,        \* bound: coins ever
    MaxFailures     \* bound: failing requests

ASSUME OnchainAssumption ==
    /\ \A values \in Funding :
          /\ values \subseteq Nat \ {0}
          /\ IsFiniteSet(values) /\ Cardinality(values) <= MaxCoin
    /\ Received \subseteq Nat \ {0} /\ Amounts \subseteq Nat
    /\ FeeRates \subseteq Nat
    /\ ParentVSize \in Nat /\ Relay \in Nat
    /\ MaxCoin \in Nat /\ MaxFailures \in Nat

VARIABLES
    coins,      \* unspent outputs of the wallet's address
    created,    \* coins ever: the next id
    income,     \* value ever received
    call,       \* state of each call
    inPool,     \* calls whose transaction the node accepted
    failures

vars == <<coins, created, income, call, inPool, failures>>

MinFeeRate == 10
DustAmount == 546
SendVSize == 174
CoinType == [id : 1 .. MaxCoin, value : Nat]

CallType ==
    [kind : {"none", "send", "bump"},
     pc : {"idle", "listing", "rating", "choosing", "broadcasting",
           "returned", "insufficient", "threw"},
     amount : Nat, rate : Nat, listed : SUBSET CoinType, inputs : SUBSET CoinType,
     change : Nat]

Idle == [kind |-> "none", pc |-> "idle", amount |-> 0, rate |-> 0,
         listed |-> {}, inputs |-> {}, change |-> 0]

TypeOK ==
    /\ coins \subseteq CoinType /\ created \in 0 .. MaxCoin
    /\ \A c, d \in coins : c.id = d.id => c = d
    /\ income \in Nat /\ failures \in 0 .. MaxFailures
    /\ inPool \subseteq Call
    /\ call \in [Call -> CallType]
    /\ \A c \in Call : call[c].inputs \subseteq call[c].listed

Init ==
    /\ \E values \in Funding :
        /\ created = Cardinality(values)
        /\ coins \in {S \in SUBSET [id : 1 .. created, value : values] :
                        Cardinality(S) = created
                        /\ \A c, d \in S : c.id <= d.id <=> c.value <= d.value}
        /\ income = Value(coins)
    /\ call = [c \in Call |-> Idle]
    /\ inPool = {} /\ failures = 0

-----------------------------------------------------------------------------
EffectiveRate(rate) == IF rate < MinFeeRate THEN MinFeeRate ELSE rate

\* Faulty: send does not count its change output.
FeeWithoutChange(k) ==
    CASE k.kind = "send" -> CeilDiv((SendVSize - 43) * k.rate, 10)
      [] k.kind = "bump" -> CeilDiv((ParentVSize
                                      + VSize(AddP2TROutput(AddP2AInput(AddKeySpendInput(Create)))))
                                        * k.rate, 10)

\* What a call wants to pay for its transaction: send for a fixed size, bumpP2A
\* for the package of the parent and a child with one coin of the wallet.
Fee(k) ==
    CASE k.kind = "send" -> CeilDiv(SendVSize * k.rate, 10)
      [] k.kind = "bump" -> CeilDiv((ParentVSize
                                      + VSize(AddP2TROutput(AddP2AInput(AddKeySpendInput(Create)))))
                                        * k.rate, 10)

Target(k) == k.amount + Fee(k)

\* send checks its amount, then lists the coins.
Send(c, amount) ==
    /\ call[c].pc = "idle"
    /\ call' = [call EXCEPT ![c] =
          [Idle EXCEPT !.kind = "send", !.amount = amount,
                       !.pc = IF amount < DustAmount THEN "threw" ELSE "listing"]]
    /\ UNCHANGED <<coins, created, income, inPool, failures>>

\* bumpP2A asks for the fee rate first.
BumpP2A(c) ==
    /\ call[c].pc = "idle"
    /\ call' = [call EXCEPT ![c] = [Idle EXCEPT !.kind = "bump", !.pc = "rating"]]
    /\ UNCHANGED <<coins, created, income, inPool, failures>>

\* getCoins.
ListCoins(c) ==
    /\ call[c].pc = "listing"
    /\ call' = [call EXCEPT ![c].listed = coins,
                            ![c].pc = IF call[c].kind = "send" THEN "rating" ELSE "choosing"]
    /\ UNCHANGED <<coins, created, income, inPool, failures>>

\* getFeeRate, or the rate given to send: none or a low one is the minimum.
ReadRate(c, rate) ==
    /\ call[c].pc = "rating"
    /\ call' = [call EXCEPT ![c].rate = EffectiveRate(rate),
                            ![c].pc = IF call[c].kind = "send" THEN "choosing" ELSE "listing"]
    /\ UNCHANGED <<coins, created, income, inPool, failures>>

\* Faulty: change the node would not relay is left to the miners.
ChooseWithoutDust(c) ==
    /\ call[c].pc = "choosing"
    /\ \E S \in SelectCoins(call[c].listed, Target(call[c]), call[c].kind = "bump") :
        call' = [call EXCEPT ![c].inputs = S,
                    ![c].change = IF Value(S) - Target(call[c]) < Relay THEN 0
                                  ELSE Value(S) - Target(call[c]),
                    ![c].pc = IF Value(S) < Target(call[c]) THEN "insufficient"
                              ELSE "broadcasting"]
    /\ UNCHANGED <<coins, created, income, inPool, failures>>

\* Faulty: what was selected is taken to be enough.
ChooseUnchecked(c) ==
    /\ call[c].pc = "choosing"
    /\ \E S \in SelectCoins(call[c].listed, Target(call[c]), call[c].kind = "bump") :
        call' = [call EXCEPT ![c].inputs = S,
                    ![c].change = Value(S) - Target(call[c]), ![c].pc = "broadcasting"]
    /\ UNCHANGED <<coins, created, income, inPool, failures>>

\* selectCoins throws or answers; the transaction is built and signed.
Choose(c) ==
    /\ call[c].pc = "choosing"
    /\ \E S \in SelectCoins(call[c].listed, Target(call[c]), call[c].kind = "bump") :
        call' = [call EXCEPT ![c].inputs = S,
                    ![c].change = Max({0, Value(S) - Target(call[c])}),
                    ![c].pc = IF Value(S) < Target(call[c]) THEN "insufficient"
                              ELSE "broadcasting"]
    /\ UNCHANGED <<coins, created, income, inPool, failures>>

\* The outputs of a transaction: send has one for the address, and one for
\* change if there is any; the child of bumpP2A has one, of any value: of 0 if
\* the coins are exactly the fee.
Outputs(k) ==
    IF k.kind = "bump" THEN {k.change} ELSE {k.amount} \cup ({k.change} \ {0})

NodeAccepts(k) ==
    k.inputs \subseteq coins /\ \A value \in Outputs(k) : value >= Relay

Enter(c) ==
    /\ coins' = (coins \ call[c].inputs) \cup
          (IF call[c].change = 0 THEN {} ELSE {[id |-> created + 1, value |-> call[c].change]})
    /\ created' = created + 1
    /\ inPool' = inPool \cup {c}

\* broadcastTransaction is answered: bumpP2A returns either way.
Broadcast(c) ==
    /\ call[c].pc = "broadcasting" /\ created < MaxCoin
    /\ IF NodeAccepts(call[c]) THEN Enter(c) ELSE UNCHANGED <<coins, created, inPool>>
    /\ call' = [call EXCEPT ![c].pc =
          IF NodeAccepts(call[c]) \/ call[c].kind = "bump" THEN "returned" ELSE "threw"]
    /\ UNCHANGED <<income, failures>>

\* A request fails; the broadcast may have reached the node.
RequestThrows(c) ==
    /\ call[c].pc \in {"listing", "rating", "broadcasting"}
    /\ failures < MaxFailures /\ failures' = failures + 1
    /\ \/ UNCHANGED <<coins, created, inPool>>
       \/ /\ call[c].pc = "broadcasting" /\ NodeAccepts(call[c]) /\ created < MaxCoin
          /\ Enter(c)
    /\ call' = [call EXCEPT ![c].pc =
          IF @ = "broadcasting" /\ call[c].kind = "bump" THEN "returned" ELSE "threw"]
    /\ UNCHANGED income

\* The address is paid.
Receive(value) ==
    /\ created < MaxCoin
    /\ coins' = coins \cup {[id |-> created + 1, value |-> value]}
    /\ created' = created + 1
    /\ income' = income + value
    /\ UNCHANGED <<call, inPool, failures>>

Next ==
    \/ \E c \in Call :
        \/ \E amount \in Amounts : Send(c, amount)
        \/ BumpP2A(c) \/ ListCoins(c) \/ Choose(c) \/ Broadcast(c) \/ RequestThrows(c)
        \/ \E rate \in FeeRates : ReadRate(c, rate)
    \/ \E value \in Received : Receive(value)

Spec == Init /\ [][Next]_vars

-----------------------------------------------------------------------------
\* What the wallet holds is what it received less what each transaction the
\* node took was meant to cost, the amount and the fee: change is never lost
\* and no coin is counted twice, whichever calls run at the same time.
BalanceAddsUp ==
    Value(coins) = income - SumFunctionOnSet([c \in Call |-> Target(call[c])], inPool)

\* A call uses as few of the coins it listed as any that could pay.
FewestInputs ==
    \A c \in Call : call[c].pc = "broadcasting" =>
        \A S \in SUBSET call[c].listed :
            Value(S) >= Target(call[c]) + (IF call[c].kind = "bump" THEN 1 ELSE 0)
                => Cardinality(S) >= Cardinality(call[c].inputs)

\* What a call needs: send its target, bumpP2A a change output besides.
Needed(k) == Target(k) + (IF k.kind = "bump" THEN 1 ELSE 0)

\* A call never goes on with less than its target, and never gives up, or goes
\* on without the change it needs, when the coins it listed suffice: an exact
\* match is enough for send, and no reason for bumpP2A to stop looking.  About a
\* bumpP2A whose coins are the fee, all of them, it says nothing: there the code
\* does not do what it says (ForcedChangeIsThere).
EnoughOrInsufficient ==
    \A c \in Call : call[c].pc \in {"insufficient", "broadcasting"} =>
        /\ Value(call[c].listed) < Target(call[c]) => call[c].pc = "insufficient"
        /\ Value(call[c].listed) >= Needed(call[c]) =>
              call[c].pc = "broadcasting" /\ Value(call[c].inputs) >= Needed(call[c])

\* "forceChange If true, ensure the coin selection will require a change output"
\* (onchain.ts:210).  The code does not keep it: when all the coins together are
\* exactly the fee, the child of bumpP2A is built with an output of 0, which no
\* node relays.
ForcedChangeIsThere ==
    \A c \in Call : call[c].pc = "broadcasting" /\ call[c].kind = "bump" =>
        call[c].change > 0

\* The size of a taproot key spend with n inputs and m taproot outputs.
RealVSize(n, m) == CeilDiv(4 * (10 + 41 * n + 43 * m) + 2 + 66 * n, 4)

\* The fee of a transaction with one coin reaches the rate it was made for.
OneCoinPaysTheRate ==
    \A c \in Call : call[c].pc = "broadcasting" /\ Cardinality(call[c].inputs) = 1 =>
        10 * Fee(call[c]) >= call[c].rate *
            (IF call[c].kind = "send" THEN RealVSize(1, Cardinality(Outputs(call[c])))
             ELSE ParentVSize + RealVSize(1, 1) + 41)

-----------------------------------------------------------------------------
\* What an inductive invariant says of the coins and of each call: ids grow,
\* a call has inputs once it has chosen them, from the coins it listed, for the
\* target it still has, and it is in the pool only when it is over.
CoinsCounted ==
    /\ IsFiniteSet(coins) /\ IsFiniteSet(inPool)
    /\ \A c \in coins : c.id <= created

Chosen(k) ==
    /\ k.inputs \in SelectCoins(k.listed, Target(k), k.kind = "bump")
    /\ k.change = Max({0, Value(k.inputs) - Target(k)})
    /\ k.pc = "insufficient" <=> Value(k.inputs) < Target(k)

CallOK(k) ==
    /\ k.inputs \subseteq k.listed /\ IsFiniteSet(k.listed)
    /\ k.pc # "idle" => k.kind # "none"
    /\ k.pc \in {"idle", "listing", "rating", "choosing"} => k.inputs = {}
    /\ k.pc \in {"insufficient", "broadcasting"} => Chosen(k)

CallsInOrder ==
    \A c \in Call :
        /\ CallOK(call[c])
        /\ c \in inPool => call[c].pc \in {"returned", "threw"}

IInv == TypeOK /\ CoinsCounted /\ CallsInOrder /\ BalanceAddsUp
==============================================================================
