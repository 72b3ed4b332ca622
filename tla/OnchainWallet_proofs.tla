------------------------- MODULE OnchainWallet_proofs -------------------------
(***************************************************************************)
(* OnchainWallet is correct for any calls, coins, amounts and fee rates:   *)
(* the inductive invariant IInv, and what follows from it and from what    *)
(* SelectCoins answers (Algorithms_proofs).                                *)
(***************************************************************************)
EXTENDS OnchainWallet, Algorithms_proofs

\* The change is what is left, if anything is.
LEMMA MaxZero ==
    ASSUME NEW x \in Int
    PROVE  Max({0, x}) = IF x < 0 THEN 0 ELSE x
  <1> DEFINE m == IF x < 0 THEN 0 ELSE x
  <1>1. m \in {0, x} /\ (\A y \in {0, x} : m >= y)
    OBVIOUS
  <1>2. \A z \in {0, x} : (\A y \in {0, x} : z >= y) => z = m
    OBVIOUS
  <1> HIDE DEF m
  <1>3. Max({0, x}) = CHOOSE z \in {0, x} : \A y \in {0, x} : z >= y
    BY DEF Max
  <1> QED
    BY <1>1, <1>2, <1>3 DEF m

\* The child of bumpP2A with one coin of the wallet.
LEMMA ChildVSize ==
    VSize(AddP2TROutput(AddP2AInput(AddKeySpendInput(Create)))) = 154
  BY DEF VSize, AddP2TROutput, AddP2AInput, AddKeySpendInput, Create, VarIntSize, CeilDiv,
         InputSize, BaseControlBlockSize, OutputSize, P2TROutputSize, BaseTxSize,
         WitnessHeaderSize, WitnessScaleFactor

\* Products of naturals are naturals.
LEMMA Product ==
    ASSUME NEW a \in Nat, NEW b \in Nat
    PROVE  a * b \in Nat
  OBVIOUS

\* Rounding up loses nothing.
LEMMA Rounding ==
    ASSUME NEW x \in Nat
    PROVE  CeilDiv(x, 10) \in Nat /\ 10 * CeilDiv(x, 10) >= x
  BY DEF CeilDiv

\* What the two kinds of call pay for.
LEMMA FeeIs ==
    ASSUME NEW k \in CallType, k.kind # "none"
    PROVE  /\ k.kind = "send" => Fee(k) = CeilDiv(174 * k.rate, 10)
           /\ k.kind = "bump" => Fee(k) = CeilDiv((ParentVSize + 154) * k.rate, 10)
           /\ k.kind \in {"send", "bump"} /\ k.rate \in Nat /\ k.amount \in Nat
           /\ 174 * k.rate \in Nat /\ (ParentVSize + 154) * k.rate \in Nat
  <1>1. k.kind \in {"send", "bump"} /\ k.rate \in Nat /\ k.amount \in Nat
    BY DEF CallType
  <1>2. ParentVSize + 154 \in Nat
    BY OnchainAssumption
  <1>3. (ParentVSize + 154) * k.rate \in Nat /\ 174 * k.rate \in Nat
    BY <1>1, <1>2, Product
  <1>4. k.kind = "send" => Fee(k) = CeilDiv(174 * k.rate, 10)
    BY DEF Fee, SendVSize
  <1>5. k.kind = "bump" => Fee(k) = CeilDiv((ParentVSize + 154) * k.rate, 10)
    BY ChildVSize DEF Fee
  <1> QED
    BY <1>1, <1>3, <1>4, <1>5

\* A call's fee and target are natural numbers.
LEMMA TargetNat ==
    ASSUME NEW k \in CallType, k.kind # "none"
    PROVE  Fee(k) \in Nat /\ Target(k) \in Nat
  <1>1. Fee(k) \in Nat
    BY FeeIs, Rounding
  <1> QED
    BY <1>1, FeeIs DEF Target

\* What a call pays depends on what it was asked and the rate it read.
LEMMA TargetSame ==
    ASSUME NEW k, NEW l, k.kind = l.kind, k.amount = l.amount, k.rate = l.rate
    PROVE  Target(k) = Target(l)
  BY DEF Target, Fee

\* The coins of a state are coins, and those of a call.
LEMMA ListsCoins ==
    ASSUME NEW S, S \subseteq CoinType, IsFiniteSet(S)
    PROVE  IsCoins(S)
  BY DEF IsCoins, CoinType

-----------------------------------------------------------------------------
\* The wallet starts with coins that it counted.
LEMMA InitIInv == Init => IInv
  <1> SUFFICES ASSUME Init PROVE IInv
    OBVIOUS
  <1>1. PICK values \in Funding :
          /\ created = Cardinality(values)
          /\ coins \in {S \in SUBSET [id : 1 .. created, value : values] :
                          Cardinality(S) = created
                          /\ \A c, d \in S : c.id <= d.id <=> c.value <= d.value}
          /\ income = Value(coins)
    BY DEF Init
  <1>2. values \subseteq Nat \ {0} /\ IsFiniteSet(values) /\ created <= MaxCoin
        /\ created \in 0 .. MaxCoin /\ created \in Nat
    BY <1>1, OnchainAssumption, FS_CardinalityType
  <1>3. /\ coins \subseteq [id : 1 .. created, value : values]
        /\ \A c, d \in coins : c.id <= d.id <=> c.value <= d.value
    BY <1>1
  <1>4. coins \subseteq CoinType /\ \A c \in coins : c.id <= created
    <2>1. 1 .. created \subseteq 1 .. MaxCoin /\ (\A i \in 1 .. created : i <= created)
          /\ values \subseteq Nat
      BY <1>2, OnchainAssumption
    <2>2. [id : 1 .. created, value : values] \subseteq [id : 1 .. MaxCoin, value : Nat]
      BY <2>1
    <2>3. \A c \in [id : 1 .. created, value : values] : c.id \in 1 .. created
      OBVIOUS
    <2> QED
      BY <1>3, <2>1, <2>2, <2>3 DEF CoinType
  <1>5. \A c, d \in coins : c.id = d.id => c = d
    <2> SUFFICES ASSUME NEW c \in coins, NEW d \in coins, c.id = d.id
                 PROVE  c = d
      OBVIOUS
    <2>1. c \in CoinType /\ d \in CoinType
      BY <1>4
    <2>2. c.id \in Int /\ c.value \in Int /\ d.id \in Int /\ d.value \in Int
      BY <2>1, OnchainAssumption DEF CoinType
    <2>3. c.value = d.value
      BY <2>2, <1>3
    <2> QED
      BY <2>1, <2>3 DEF CoinType
  <1>6. IsFiniteSet(coins)
    <2> DEFINE f == [c \in coins |-> c.id]
    <2>1. f \in Injection(coins, 1 .. created)
      BY <1>3, <1>5 DEF Injection, IsInjective
    <2>2. IsFiniteSet(1 .. created)
      BY <1>2, FS_Interval
    <2> QED
      BY <2>1, <2>2, FS_Injection
  <1>7. call = [c \in Call |-> Idle] /\ inPool = {} /\ failures = 0
    BY DEF Init
  <1>8. Idle \in CallType /\ CallOK(Idle)
    BY FS_EmptySet DEF Idle, CallType, CallOK
  <1>9. income \in Nat /\ income = Value(coins)
    BY <1>1, <1>4, <1>6, ListsCoins, ValueNat
  <1>10. TypeOK
    BY <1>2, <1>4, <1>5, <1>7, <1>8, <1>9, OnchainAssumption DEF TypeOK, Idle
  <1>11. CoinsCounted /\ CallsInOrder
    BY <1>4, <1>6, <1>7, <1>8, FS_EmptySet DEF CoinsCounted, CallsInOrder
  <1>12. BalanceAddsUp
    BY <1>7, <1>9, SumEmpty DEF BalanceAddsUp
  <1> QED
    BY <1>10, <1>11, <1>12 DEF IInv

-----------------------------------------------------------------------------
\* The sum of the targets of the calls in the pool does not see the others.
LEMMA PoolSum ==
    ASSUME NEW C, IsFiniteSet(C), C \subseteq Call, NEW f, NEW g,
           \A c \in C : Target(f[c]) = Target(g[c])
    PROVE  SumFunctionOnSet([c \in Call |-> Target(f[c])], C)
              = SumFunctionOnSet([c \in Call |-> Target(g[c])], C)
  <1> DEFINE F == [c \in Call |-> Target(f[c])]
             G == [c \in Call |-> Target(g[c])]
  <1>1. \A c \in C : F[c] = G[c]
    OBVIOUS
  <1> HIDE DEF F, G
  <1>2. SumFunctionOnSet(F, C) = SumFunctionOnSet(G, C)
    BY <1>1, SumSame
  <1> QED
    BY <1>2 DEF F, G

\* A call goes on and nothing else changes.
LEMMA CallStep ==
    ASSUME IInv, NEW c \in Call, c \notin inPool, NEW k \in CallType, CallOK(k),
           call' = [call EXCEPT ![c] = k],
           UNCHANGED <<coins, created, income, inPool>>, failures' \in 0 .. MaxFailures
    PROVE  IInv'
  <1>1. call' \in [Call -> CallType] /\ \A d \in Call : call'[d] = IF d = c THEN k ELSE call[d]
    BY DEF IInv, TypeOK
  <1>2. TypeOK'
    BY <1>1 DEF IInv, TypeOK, CallOK
  <1>3. CoinsCounted'
    BY DEF IInv, CoinsCounted
  <1>4. CallsInOrder'
    <2>1. \A d \in Call : CallOK(call'[d])
      BY <1>1 DEF IInv, CallsInOrder
    <2>2. \A d \in Call : d \in inPool' => call'[d].pc \in {"returned", "threw"}
      BY <1>1 DEF IInv, CallsInOrder
    <2> QED
      BY <2>1, <2>2 DEF CallsInOrder, CallOK, Chosen, Target, Fee
  <1>5. BalanceAddsUp'
    <2>1. IsFiniteSet(inPool) /\ inPool \subseteq Call
      BY DEF IInv, CoinsCounted, TypeOK
    <2>2. \A d \in inPool : Target(call'[d]) = Target(call[d])
      BY <1>1, <2>1
    <2> DEFINE F == [d \in Call |-> Target(call[d])]
               G == [d \in Call |-> Target(call'[d])]
    <2>3. \A d \in inPool : G[d] = F[d]
      BY <2>1, <2>2
    <2>4. SumFunctionOnSet(G, inPool) = SumFunctionOnSet(F, inPool)
      <3> HIDE DEF F, G
      <3> QED BY <2>1, <2>3, SumSame
    <2> QED
      BY <2>4 DEF IInv, BalanceAddsUp
  <1> QED
    BY <1>2, <1>3, <1>4, <1>5 DEF IInv

\* A call that has not ended is not in the pool.
LEMMA NotYet ==
    ASSUME IInv, NEW c \in Call, call[c].pc \notin {"returned", "threw"}
    PROVE  c \notin inPool
  BY DEF IInv, CallsInOrder

\* What selectCoins chose pays the target and the change.
LEMMA Pays ==
    ASSUME IInv, NEW c \in Call, call[c].pc = "broadcasting"
    PROVE  /\ IsCoins(call[c].inputs) /\ Value(call[c].inputs) \in Nat
           /\ Target(call[c]) \in Nat /\ call[c].change \in Nat
           /\ Value(call[c].inputs) = Target(call[c]) + call[c].change
  <1>1. call[c] \in CallType /\ CallOK(call[c])
    BY DEF IInv, TypeOK, CallsInOrder
  <1>2. IsCoins(call[c].listed)
    BY <1>1, ListsCoins DEF CallOK, CallType
  <1>3. IsCoins(call[c].inputs) /\ Value(call[c].inputs) \in Nat
    BY <1>1, <1>2, CoinsSubset, ValueNat DEF CallOK
  <1>4. call[c].kind # "none"
    BY <1>1 DEF CallOK
  <1>5. Target(call[c]) \in Nat
    BY <1>1, <1>4, TargetNat
  <1>6. /\ call[c].change = Max({0, Value(call[c].inputs) - Target(call[c])})
        /\ ~(Value(call[c].inputs) < Target(call[c]))
    BY <1>1 DEF CallOK, Chosen
  <1> DEFINE left == Value(call[c].inputs) - Target(call[c])
  <1>7. left \in Int /\ ~(left < 0)
    BY <1>3, <1>5, <1>6
  <1>8. Max({0, left}) = left
    <2> HIDE DEF left
    <2> QED BY <1>7, MaxZero
  <1> QED
    BY <1>3, <1>5, <1>6, <1>7, <1>8

\* The node takes a transaction: its inputs go and its change comes.
LEMMA EnterStep ==
    ASSUME IInv, NEW c \in Call, call[c].pc = "broadcasting", NodeAccepts(call[c]),
           created < MaxCoin, Enter(c), NEW p \in {"returned", "threw"},
           call' = [call EXCEPT ![c].pc = p],
           UNCHANGED income, failures' \in 0 .. MaxFailures
    PROVE  IInv'
  <1> DEFINE k == call[c]
             new == [id |-> created + 1, value |-> k.change]
             kept == coins \ k.inputs
  <1>1. c \notin inPool /\ k \in CallType /\ k.inputs \subseteq coins
    BY NotYet DEF IInv, TypeOK, NodeAccepts
  <1>2. /\ call' \in [Call -> CallType]
        /\ \A d \in Call : call'[d] = IF d = c THEN [k EXCEPT !.pc = p] ELSE call[d]
        /\ [k EXCEPT !.pc = p] \in CallType
    BY <1>1 DEF IInv, TypeOK, CallType
  <1>3. \A d \in Call : Target(call'[d]) = Target(call[d])
    BY <1>1, <1>2, TargetSame DEF CallType
  <1>4. IsCoins(coins) /\ IsFiniteSet(coins) /\ created \in Nat /\ created + 1 \in 1 .. MaxCoin
    BY ListsCoins, OnchainAssumption DEF IInv, TypeOK, CoinsCounted
  <1>5. IsCoins(kept) /\ IsFiniteSet(kept) /\ kept \subseteq coins
    BY <1>4, CoinsSubset DEF IsCoins
  <1>6. coins' = kept \cup (IF k.change = 0 THEN {} ELSE {new})
    BY DEF Enter
  <1>7. k.change \in Nat /\ new \in CoinType
    BY <1>1, <1>4 DEF CallType, CoinType
  <1>8. \A d \in coins : d.id <= created /\ d.id \in Int
    BY OnchainAssumption DEF IInv, CoinsCounted, TypeOK, CoinType
  <1>9. new \notin kept
    BY <1>8, <1>4, <1>5
  <1>10. IsFiniteSet(inPool) /\ inPool \subseteq Call
    BY DEF IInv, CoinsCounted, TypeOK
  <1>11. TypeOK'
    <2>1. coins' \subseteq CoinType
      BY <1>5, <1>6, <1>7 DEF IInv, TypeOK
    <2>2. \A d, e \in coins' : d.id = e.id => d = e
      BY <1>4, <1>5, <1>6, <1>8 DEF IInv, TypeOK
    <2>3. created' \in 0 .. MaxCoin /\ inPool' \subseteq Call
      BY <1>4, <1>10 DEF Enter
    <2>4. \A d \in Call : call'[d].inputs \subseteq call'[d].listed
      BY <1>1, <1>2 DEF IInv, TypeOK, CallType
    <2> QED
      BY <2>1, <2>2, <2>3, <2>4, <1>2 DEF IInv, TypeOK
  <1>12. CoinsCounted'
    <2>1. IsFiniteSet(coins')
      BY <1>5, <1>6, FS_AddElement, Zenon
    <2>2. IsFiniteSet(inPool')
      BY <1>10, FS_AddElement DEF Enter
    <2>3. \A d \in coins' : d.id <= created'
      BY <1>4, <1>5, <1>6, <1>8 DEF Enter
    <2> QED
      BY <2>1, <2>2, <2>3 DEF CoinsCounted
  <1>13. CallsInOrder'
    <2>1. \A d \in Call : CallOK(call'[d])
      <3> SUFFICES ASSUME NEW d \in Call PROVE CallOK(call'[d])
        OBVIOUS
      <3>1. CallOK(call[d])
        BY DEF IInv, CallsInOrder
      <3>2. CASE d = c
        BY <1>1, <1>2, <3>1, <3>2 DEF CallOK, CallType
      <3> QED
        BY <1>2, <3>1, <3>2
    <2>2. \A d \in Call : d \in inPool' => call'[d].pc \in {"returned", "threw"}
      BY <1>1, <1>2 DEF IInv, CallsInOrder, Enter, CallType
    <2> QED
      BY <2>1, <2>2 DEF CallsInOrder, CallOK, Chosen, Target, Fee
  <1>14. BalanceAddsUp'
    <2> DEFINE F == [d \in Call |-> Target(call[d])]
               G == [d \in Call |-> Target(call'[d])]
    <2>1. Value(coins) = Value(k.inputs) + Value(kept)
      BY <1>1, <1>4, ValueSplit
    <2>2. Value(coins') = Value(kept) + k.change
      <3>1. CASE k.change = 0
        <4>1. coins' = kept /\ Value(kept) \in Nat
          BY <1>5, <1>6, <3>1, ValueNat
        <4> QED
          BY <4>1, <3>1
      <3>2. CASE k.change # 0
        <4>1. coins' = kept \cup {new} /\ new.value = k.change
          BY <1>6, <3>2
        <4> HIDE DEF kept, new
        <4>2. Value(kept \cup {new}) = Value(kept) + new.value
          BY <1>5, <1>7, <1>9, <4>1, ValueAdd
        <4> QED
          BY <4>1, <4>2
      <3> QED
        BY <3>1, <3>2
    <2>3. \A d \in inPool \cup {c} : F[d] \in Int
      <3> SUFFICES ASSUME NEW d \in Call, d \in inPool \/ d = c
                   PROVE  Target(call[d]) \in Int
        BY <1>10
      <3>1. call[d] \in CallType /\ call[d].kind # "none"
        BY DEF IInv, TypeOK, CallsInOrder, CallOK
      <3> QED
        BY <3>1, TargetNat
    <2>4. SumFunctionOnSet(F, inPool \cup {c}) = F[c] + SumFunctionOnSet(F, inPool)
      <3> HIDE DEF F
      <3> QED BY <1>1, <1>10, <2>3, SumAdd
    <2>5. SumFunctionOnSet(F, inPool) \in Int
      <3> HIDE DEF F
      <3> QED BY <1>10, <2>3, SumType
    <2>6. SumFunctionOnSet(G, inPool') = SumFunctionOnSet(F, inPool \cup {c})
      <3>1. IsFiniteSet(inPool \cup {c}) /\ inPool \cup {c} \subseteq Call
        BY <1>10, FS_AddElement
      <3>2. SumFunctionOnSet(G, inPool \cup {c}) = SumFunctionOnSet(F, inPool \cup {c})
        BY <3>1, <1>3, PoolSum
      <3> QED
        BY <3>2 DEF Enter
    <2>7. Value(coins) = income - SumFunctionOnSet(F, inPool)
      BY DEF IInv, BalanceAddsUp
    <2>8. /\ Value(k.inputs) = F[c] + k.change /\ F[c] \in Nat
          /\ Value(k.inputs) \in Nat /\ Value(kept) \in Nat /\ income \in Nat
      BY Pays, <1>5, ValueNat DEF IInv, TypeOK
    <2>9. Value(coins') = income' - SumFunctionOnSet(G, inPool')
      <3> HIDE DEF F, G
      <3> QED BY <1>7, <2>1, <2>2, <2>4, <2>5, <2>6, <2>7, <2>8
    <2> QED
      BY <2>9 DEF BalanceAddsUp
  <1> QED
    BY <1>11, <1>12, <1>13, <1>14 DEF IInv

-----------------------------------------------------------------------------
\* send keeps the invariant up to its first request.
LEMMA SendStep ==
    ASSUME IInv, NEW c \in Call, NEW amount \in Amounts, Send(c, amount)
    PROVE  IInv'
  <1> DEFINE k == [Idle EXCEPT !.kind = "send", !.amount = amount,
                               !.pc = IF amount < DustAmount THEN "threw" ELSE "listing"]
  <1>1. amount \in Nat /\ c \notin inPool /\ failures \in 0 .. MaxFailures
    BY NotYet, OnchainAssumption DEF Send, IInv, TypeOK
  <1>2. k \in CallType /\ CallOK(k)
    BY <1>1, FS_EmptySet DEF CallType, CallOK, Idle
  <1>3. call' = [call EXCEPT ![c] = k]
    BY DEF Send
  <1> HIDE DEF k
  <1> QED
    BY <1>1, <1>2, <1>3, CallStep DEF Send

\* bumpP2A keeps it up to its first request.
LEMMA BumpStep ==
    ASSUME IInv, NEW c \in Call, BumpP2A(c)
    PROVE  IInv'
  <1> DEFINE k == [Idle EXCEPT !.kind = "bump", !.pc = "rating"]
  <1>1. c \notin inPool /\ failures \in 0 .. MaxFailures
    BY NotYet DEF BumpP2A, IInv, TypeOK
  <1>2. k \in CallType /\ CallOK(k)
    BY FS_EmptySet DEF CallType, CallOK, Idle
  <1>3. call' = [call EXCEPT ![c] = k]
    BY DEF BumpP2A
  <1> HIDE DEF k
  <1> QED
    BY <1>1, <1>2, <1>3, CallStep DEF BumpP2A

\* Listing the coins keeps it: they are the wallet's.
LEMMA ListStep ==
    ASSUME IInv, NEW c \in Call, ListCoins(c)
    PROVE  IInv'
  <1> DEFINE k == [call[c] EXCEPT !.listed = coins,
                        !.pc = IF call[c].kind = "send" THEN "rating" ELSE "choosing"]
  <1>1. c \notin inPool /\ failures \in 0 .. MaxFailures
    BY NotYet DEF ListCoins, IInv, TypeOK
  <1>2. call[c] \in CallType /\ CallOK(call[c]) /\ call[c].pc = "listing"
        /\ coins \subseteq CoinType /\ IsFiniteSet(coins)
    BY DEF ListCoins, IInv, TypeOK, CoinsCounted, CallsInOrder
  <1>3. k \in CallType /\ CallOK(k)
    BY <1>2 DEF CallType, CallOK
  <1>4. call' = [call EXCEPT ![c] = k]
    BY DEF ListCoins, IInv, TypeOK
  <1> HIDE DEF k
  <1> QED
    BY <1>1, <1>3, <1>4, CallStep DEF ListCoins

\* Reading the fee rate keeps it.
LEMMA RateStep ==
    ASSUME IInv, NEW c \in Call, NEW rate \in FeeRates, ReadRate(c, rate)
    PROVE  IInv'
  <1> DEFINE k == [call[c] EXCEPT !.rate = EffectiveRate(rate),
                        !.pc = IF call[c].kind = "send" THEN "choosing" ELSE "listing"]
  <1>1. c \notin inPool /\ failures \in 0 .. MaxFailures
    BY NotYet DEF ReadRate, IInv, TypeOK
  <1>2. call[c] \in CallType /\ CallOK(call[c]) /\ call[c].pc = "rating"
        /\ EffectiveRate(rate) \in Nat
    BY OnchainAssumption DEF ReadRate, IInv, TypeOK, CallsInOrder, EffectiveRate, MinFeeRate
  <1>3. k \in CallType /\ CallOK(k)
    BY <1>2 DEF CallType, CallOK
  <1>4. call' = [call EXCEPT ![c] = k]
    BY DEF ReadRate, IInv, TypeOK
  <1> HIDE DEF k
  <1> QED
    BY <1>1, <1>3, <1>4, CallStep DEF ReadRate

\* Choosing the coins keeps it: the selection adds up.
LEMMA ChooseStep ==
    ASSUME IInv, NEW c \in Call, Choose(c)
    PROVE  IInv'
  <1> DEFINE o == call[c]
  <1>1. PICK S \in SelectCoins(o.listed, Target(o), o.kind = "bump") :
          call' = [call EXCEPT ![c].inputs = S,
                      ![c].change = Max({0, Value(S) - Target(o)}),
                      ![c].pc = IF Value(S) < Target(o) THEN "insufficient"
                                ELSE "broadcasting"]
    BY DEF Choose
  <1> DEFINE k == [o EXCEPT !.inputs = S, !.change = Max({0, Value(S) - Target(o)}),
                      !.pc = IF Value(S) < Target(o) THEN "insufficient" ELSE "broadcasting"]
  <1>2. c \notin inPool /\ failures \in 0 .. MaxFailures
    BY NotYet DEF Choose, IInv, TypeOK
  <1>3. o \in CallType /\ CallOK(o) /\ o.pc = "choosing"
    BY DEF Choose, IInv, TypeOK, CallsInOrder
  <1>4. IsCoins(o.listed) /\ S \in SUBSET o.listed /\ o.listed \subseteq CoinType
    BY <1>3, SelectCoinsIs, ListsCoins DEF CallOK, CallType
  <1>5. o.kind # "none"
    BY <1>3 DEF CallOK
  <1>6. Value(S) \in Nat /\ Target(o) \in Nat
    BY <1>3, <1>4, <1>5, CoinsSubset, ValueNat, TargetNat
  <1>7. Max({0, Value(S) - Target(o)}) \in Nat
    <2> DEFINE left == Value(S) - Target(o)
    <2>1. left \in Int
      BY <1>6
    <2> HIDE DEF left
    <2>2. Max({0, left}) \in Nat
      BY <2>1, MaxZero
    <2> QED BY <2>2 DEF left
  <1>8. k \in CallType
    BY <1>3, <1>4, <1>7 DEF CallType
  <1>9. CallOK(k)
    <2>1. Target(k) = Target(o)
      BY <1>3, TargetSame DEF CallType
    <2>2. Chosen(k)
      BY <1>1, <1>3, <2>1 DEF Chosen, CallType
    <2> QED
      BY <1>3, <1>4, <1>5, <2>2 DEF CallOK, CallType
  <1>10. call' = [call EXCEPT ![c] = k]
    BY <1>1 DEF IInv, TypeOK
  <1> HIDE DEF k
  <1> QED
    BY <1>2, <1>8, <1>9, <1>10, CallStep DEF Choose

\* A call ends without a transaction.
LEMMA EndStep ==
    ASSUME IInv, NEW c \in Call, call[c].pc \in {"listing", "rating", "broadcasting"},
           NEW p \in {"returned", "threw"}, call' = [call EXCEPT ![c].pc = p],
           UNCHANGED <<coins, created, income, inPool>>, failures' \in 0 .. MaxFailures
    PROVE  IInv'
  <1> DEFINE k == [call[c] EXCEPT !.pc = p]
  <1>1. c \notin inPool
    BY NotYet
  <1>2. call[c] \in CallType /\ CallOK(call[c])
    BY DEF IInv, TypeOK, CallsInOrder
  <1>3. k \in CallType /\ CallOK(k)
    BY <1>2 DEF CallType, CallOK
  <1>4. call' = [call EXCEPT ![c] = k]
    BY DEF IInv, TypeOK
  <1> HIDE DEF k
  <1> QED
    BY <1>1, <1>3, <1>4, CallStep

\* A broadcast keeps it: what enters the mempool conserves value.
LEMMA BroadcastStep ==
    ASSUME IInv, NEW c \in Call, Broadcast(c)
    PROVE  IInv'
  <1> DEFINE p == IF NodeAccepts(call[c]) \/ call[c].kind = "bump" THEN "returned" ELSE "threw"
  <1>1. /\ call[c].pc = "broadcasting" /\ created < MaxCoin /\ p \in {"returned", "threw"}
        /\ call' = [call EXCEPT ![c].pc = p] /\ UNCHANGED income
        /\ failures' \in 0 .. MaxFailures
    BY DEF Broadcast, IInv, TypeOK
  <1>2. CASE NodeAccepts(call[c])
    <2>1. Enter(c)
      BY <1>2 DEF Broadcast
    <2> HIDE DEF p
    <2> QED BY <1>1, <1>2, <2>1, EnterStep
  <1>3. CASE ~NodeAccepts(call[c])
    <2>1. UNCHANGED <<coins, created, income, inPool>>
      BY <1>1, <1>3 DEF Broadcast
    <2> HIDE DEF p
    <2> QED BY <1>1, <2>1, EndStep
  <1> QED
    BY <1>2, <1>3

\* A failed request keeps it.
LEMMA ThrowStep ==
    ASSUME IInv, NEW c \in Call, RequestThrows(c)
    PROVE  IInv'
  <1> DEFINE p == IF call[c].pc = "broadcasting" /\ call[c].kind = "bump"
                  THEN "returned" ELSE "threw"
  <1>1. /\ call[c].pc \in {"listing", "rating", "broadcasting"} /\ p \in {"returned", "threw"}
        /\ call' = [call EXCEPT ![c].pc = p] /\ UNCHANGED income
    BY DEF RequestThrows, IInv, TypeOK
  <1>2. failures' \in 0 .. MaxFailures
    BY OnchainAssumption DEF RequestThrows, IInv, TypeOK
  <1> HIDE DEF p
  <1>3. CASE UNCHANGED <<coins, created, inPool>>
    BY <1>1, <1>2, <1>3, EndStep
  <1>4. CASE call[c].pc = "broadcasting" /\ NodeAccepts(call[c]) /\ created < MaxCoin /\ Enter(c)
    BY <1>1, <1>2, <1>4, EnterStep
  <1> QED
    BY <1>3, <1>4 DEF RequestThrows

\* A payment received keeps it.
LEMMA ReceiveStep ==
    ASSUME IInv, NEW value \in Received, Receive(value)
    PROVE  IInv'
  <1> DEFINE new == [id |-> created + 1, value |-> value]
  <1>1. value \in Nat /\ created \in Nat /\ created + 1 \in 1 .. MaxCoin /\ created + 1 \in 0 .. MaxCoin
    BY OnchainAssumption DEF Receive, IInv, TypeOK
  <1>2. /\ coins' = coins \cup {new} /\ created' = created + 1 /\ income' = income + value
        /\ call' = call /\ inPool' = inPool /\ failures' = failures
    BY DEF Receive
  <1>3. new \in CoinType /\ new.value = value /\ new.id = created + 1
    BY <1>1 DEF CoinType
  <1>4. \A d \in coins : d.id <= created /\ d.id \in Int
    BY OnchainAssumption DEF IInv, CoinsCounted, TypeOK, CoinType
  <1>5. new \notin coins
    BY <1>1, <1>3, <1>4
  <1>6. coins \subseteq CoinType /\ IsFiniteSet(coins) /\ IsCoins(coins) /\ income \in Nat
    BY ListsCoins DEF IInv, TypeOK, CoinsCounted
  <1> HIDE DEF new
  <1>7. Value(coins') = Value(coins) + value
    <2>1. Value(coins \cup {new}) = Value(coins) + new.value
      BY <1>1, <1>3, <1>5, <1>6, ValueAdd
    <2> QED
      BY <1>2, <1>3, <2>1
  <1>8. TypeOK'
    <2>1. \A d, e \in coins' : d.id = e.id => d = e
      BY <1>1, <1>2, <1>3, <1>4 DEF IInv, TypeOK
    <2>2. coins' \subseteq CoinType /\ income' \in Nat
      BY <1>1, <1>2, <1>3, <1>6
    <2> QED
      BY <1>1, <1>2, <2>1, <2>2 DEF IInv, TypeOK
  <1>9. CoinsCounted'
    <2>1. IsFiniteSet(coins')
      BY <1>2, <1>6, FS_AddElement
    <2>2. \A d \in coins' : d.id <= created'
      BY <1>1, <1>2, <1>3, <1>4
    <2> QED
      BY <1>2, <2>1, <2>2 DEF IInv, CoinsCounted
  <1>10. CallsInOrder'
    BY <1>2 DEF IInv, CallsInOrder, CallOK, Chosen, Target, Fee
  <1>11. BalanceAddsUp'
    <2> DEFINE F == [c \in Call |-> Target(call[c])]
    <2>1. Value(coins) = income - SumFunctionOnSet(F, inPool) /\ Value(coins) \in Nat
      BY <1>6, ValueNat DEF IInv, BalanceAddsUp
    <2>2. SumFunctionOnSet(F, inPool) \in Int
      <3>1. IsFiniteSet(inPool) /\ inPool \subseteq Call
        BY DEF IInv, CoinsCounted, TypeOK
      <3>2. \A c \in inPool : F[c] \in Int
        <4> SUFFICES ASSUME NEW c \in Call, c \in inPool PROVE Target(call[c]) \in Int
          BY <3>1
        <4>1. call[c] \in CallType /\ call[c].kind # "none"
          BY DEF IInv, TypeOK, CallsInOrder, CallOK
        <4> QED
          BY <4>1, TargetNat
      <3> HIDE DEF F
      <3> QED BY <3>1, <3>2, SumType
    <2>3. Value(coins') = income' - SumFunctionOnSet(F, inPool)
      <3> HIDE DEF F
      <3> QED BY <1>1, <1>2, <1>6, <1>7, <2>1, <2>2
    <2> QED
      BY <1>2, <2>3 DEF BalanceAddsUp
  <1> QED
    BY <1>8, <1>9, <1>10, <1>11 DEF IInv

\* A step of anybody.
LEMMA NextIInv == IInv /\ [Next]_vars => IInv'
  <1> SUFFICES ASSUME IInv, [Next]_vars PROVE IInv'
    OBVIOUS
  <1>1. CASE UNCHANGED vars
    <2>1. TypeOK'
      BY <1>1 DEF vars, IInv, TypeOK
    <2>2. CoinsCounted'
      BY <1>1 DEF vars, IInv, CoinsCounted
    <2>3. CallsInOrder'
      BY <1>1 DEF vars, IInv, CallsInOrder, CallOK, Chosen, Target, Fee
    <2>4. BalanceAddsUp'
      BY <1>1 DEF vars, IInv, BalanceAddsUp
    <2> QED
      BY <2>1, <2>2, <2>3, <2>4 DEF IInv
  <1>2. CASE Next
    BY <1>2, SendStep, BumpStep, ListStep, RateStep, ChooseStep, BroadcastStep, ThrowStep,
       ReceiveStep DEF Next
  <1> QED
    BY <1>1, <1>2

\* IInv always holds.
THEOREM Invariant == Spec => []IInv
  BY InitIInv, NextIInv, PTL DEF Spec

-----------------------------------------------------------------------------
\* Types, unique ids, and inputs that were listed, whatever calls interleave.
THEOREM TypeCorrect == Spec => []TypeOK
  <1>1. IInv => TypeOK
    BY DEF IInv
  <1> QED
    BY <1>1, Invariant, PTL

\* No change is lost and no coin counted twice, whichever calls run at a time.
THEOREM Conservation == Spec => []BalanceAddsUp
  <1>1. IInv => BalanceAddsUp
    BY DEF IInv
  <1> QED
    BY <1>1, Invariant, PTL

\* A call uses as few coins as any selection that could pay.
THEOREM Fewest == Spec => []FewestInputs
  <1>1. IInv => FewestInputs
    <2> SUFFICES ASSUME IInv, NEW c \in Call, call[c].pc = "broadcasting",
                        NEW S \in SUBSET call[c].listed,
                        Value(S) >= Target(call[c]) + (IF call[c].kind = "bump" THEN 1 ELSE 0)
                 PROVE  Cardinality(S) >= Cardinality(call[c].inputs)
      BY DEF FewestInputs
    <2> DEFINE k == call[c]
               bump == k.kind = "bump"
    <2>1. k \in CallType /\ CallOK(k) /\ k.kind # "none" /\ Chosen(k)
      BY DEF IInv, TypeOK, CallsInOrder, CallOK
    <2>2. IsCoins(k.listed) /\ IsCoins(S) /\ k.inputs \in SUBSET k.listed
      BY <2>1, ListsCoins, CoinsSubset DEF CallOK, CallType
    <2>3. Value(S) \in Nat /\ Target(k) \in Nat
      BY <2>1, <2>2, ValueNat, TargetNat
    <2>4. Covers(S, Target(k), bump)
      BY <2>3 DEF Covers
    <2>5. k.inputs \in SelectCoins(k.listed, Target(k), bump)
      BY <2>1 DEF Chosen
    <2>6. Cardinality(k.inputs) <= Cardinality(S)
      <3>1. bump \in BOOLEAN /\ Target(k) \in Int /\ S \in SUBSET k.listed
        BY <2>3
      <3> HIDE DEF k, bump
      <3> QED
        BY <2>2, <2>4, <2>5, <3>1, SelectCoinsFewest
    <2>7. Cardinality(k.inputs) \in Nat /\ Cardinality(S) \in Nat
      BY <2>2, CoinsSubset, FS_CardinalityType DEF IsCoins
    <2> QED
      BY <2>6, <2>7
  <1> QED
    BY <1>1, Invariant, PTL

\* A call gives up when what it listed cannot pay, and has what it needs when it
\* can.
THEOREM Insufficient == Spec => []EnoughOrInsufficient
  <1>1. IInv => EnoughOrInsufficient
    <2> SUFFICES ASSUME IInv, NEW c \in Call, call[c].pc \in {"insufficient", "broadcasting"}
                 PROVE  /\ Value(call[c].listed) < Target(call[c]) => call[c].pc = "insufficient"
                        /\ Value(call[c].listed) >= Needed(call[c]) =>
                              /\ call[c].pc = "broadcasting"
                              /\ Value(call[c].inputs) >= Needed(call[c])
      BY DEF EnoughOrInsufficient
    <2> DEFINE k == call[c]
    <2>1. k \in CallType /\ CallOK(k) /\ k.kind # "none" /\ Chosen(k)
      BY DEF IInv, TypeOK, CallsInOrder, CallOK
    <2>2. IsCoins(k.listed) /\ Target(k) \in Int
      BY <2>1, ListsCoins, TargetNat DEF CallOK, CallType
    <2>3. k.inputs \in SelectCoins(k.listed, Target(k), k.kind = "bump")
          /\ (k.pc = "insufficient" <=> Value(k.inputs) < Target(k))
      BY <2>1 DEF Chosen
    <2>4. Value(k.inputs) < Target(k) <=> Value(k.listed) < Target(k)
      BY <2>2, <2>3, SelectCoinsFails
    <2>5. Value(k.listed) \in Nat /\ Target(k) \in Nat /\ Target(k) <= Needed(k)
      BY <2>1, <2>2, ValueNat, TargetNat DEF Needed
    <2>6. ASSUME Value(k.listed) >= Needed(k)
          PROVE  Value(k.inputs) >= Needed(k)
      <3>1. k.inputs = k.listed \/ Covers(k.inputs, Target(k), k.kind = "bump")
        BY <2>3, SelectCoinsIs
      <3>2. IsCoins(k.inputs)
        BY <2>1, <2>2, CoinsSubset DEF CallOK
      <3>3. Value(k.inputs) \in Nat
        BY <3>2, ValueNat
      <3> QED
        BY <2>5, <2>6, <3>1, <3>3 DEF Covers, Needed
    <2>7. Value(k.listed) >= Needed(k) => Needed(k) \in Nat /\ ~(Value(k.listed) < Target(k))
      BY <2>5 DEF Needed
    <2> QED
      BY <2>1, <2>3, <2>4, <2>6, <2>7
  <1> QED
    BY <1>1, Invariant, PTL

\* The sizes of a taproot key spend with one input.
LEMMA RealSizes ==
    /\ RealVSize(1, 0) = 68 /\ RealVSize(1, 1) = 111 /\ RealVSize(1, 2) = 154
  BY DEF RealVSize, CeilDiv

\* A product grows with its factor.
LEMMA Times ==
    ASSUME NEW a \in Nat, NEW b \in Nat, a <= b, NEW r \in Nat
    PROVE  r * a <= b * r
  <1>1. PICK d \in Nat : b = a + d
    BY b - a \in Nat
  <1>2. b * r = r * a + d * r
    BY <1>1
  <1>3. d * r \in Nat /\ r * a \in Nat
    BY Product
  <1> QED
    BY <1>2, <1>3

\* One or two outputs.
LEMMA OutputCount ==
    ASSUME NEW k
    PROVE  Cardinality(Outputs(k)) \in 1 .. 2
  <1>1. CASE k.kind = "bump"
    <2>1. Outputs(k) = {k.change}
      BY <1>1 DEF Outputs
    <2>2. Cardinality({k.change}) = 1
      BY FS_Singleton
    <2> QED
      BY <2>1, <2>2
  <1>2. CASE k.kind # "bump"
    <2>1. Outputs(k) = {k.amount} \/ Outputs(k) = {k.amount} \cup {k.change}
      BY <1>2 DEF Outputs
    <2>2. IsFiniteSet({k.amount}) /\ Cardinality({k.amount}) = 1
      BY FS_Singleton
    <2>3. Cardinality({k.amount} \cup {k.change}) \in 1 .. 2
      BY <2>2, FS_AddElement
    <2> QED
      BY <2>1, <2>2, <2>3
  <1> QED
    BY <1>1, <1>2

\* The fee of a transaction with one coin reaches the rate it was made for.
THEOREM OneCoin == Spec => []OneCoinPaysTheRate
  <1>1. IInv => OneCoinPaysTheRate
    <2> SUFFICES ASSUME IInv, NEW c \in Call, call[c].pc = "broadcasting"
                 PROVE  10 * Fee(call[c]) >= call[c].rate *
                          (IF call[c].kind = "send"
                           THEN RealVSize(1, Cardinality(Outputs(call[c])))
                           ELSE ParentVSize + RealVSize(1, 1) + 41)
      BY DEF OneCoinPaysTheRate
    <2> DEFINE k == call[c]
               n == Cardinality(Outputs(k))
               child == ParentVSize + RealVSize(1, 1) + 41
    <2>1. k \in CallType /\ k.kind # "none"
      BY DEF IInv, TypeOK, CallsInOrder, CallOK
    <2>2. k.kind \in {"send", "bump"} /\ k.rate \in Nat
      BY <2>1, FeeIs
    <2>3. RealVSize(1, n) \in Nat /\ RealVSize(1, n) <= 174
      BY OutputCount, RealSizes
    <2>4. child \in Nat /\ ParentVSize + 154 \in Nat /\ child <= ParentVSize + 154
      BY RealSizes, OnchainAssumption
    <2>5. CASE k.kind = "send"
      <3>1. k.rate * RealVSize(1, n) <= 174 * k.rate
        BY <2>2, <2>3, Times
      <3>2. 10 * Fee(k) >= 174 * k.rate /\ Fee(k) \in Nat /\ 174 * k.rate \in Nat
        BY <2>1, <2>5, FeeIs, Rounding
      <3>3. k.rate * RealVSize(1, n) \in Nat
        BY <2>2, <2>3, Product
      <3> QED
        BY <3>1, <3>2, <3>3, <2>5
    <2>6. CASE k.kind = "bump"
      <3> DEFINE paid == (ParentVSize + 154) * k.rate
                 due == k.rate * child
      <3>1. due <= paid
        BY <2>2, <2>4, Times
      <3>2. 10 * Fee(k) >= paid /\ Fee(k) \in Nat /\ paid \in Nat
        BY <2>1, <2>6, FeeIs, Rounding
      <3>3. due \in Nat
        BY <2>2, <2>4, Product
      <3>4. 10 * Fee(k) >= due
        <4> HIDE DEF due, paid
        <4> QED BY <3>1, <3>2, <3>3
      <3> QED
        BY <3>4, <2>6
    <2> QED
      BY <2>2, <2>5, <2>6
  <1> QED
    BY <1>1, Invariant, PTL
==============================================================================
